-------------------------- MODULE StationSearchProofs --------------------------
(***************************************************************************)
(* Proofs about StationSearch, for any number of handlers, stations,       *)
(* positions and connections.                                              *)
(***************************************************************************)
EXTENDS StationSearch, FiniteSetTheorems, TLAPS

-----------------------------------------------------------------------------
(* Radius buckets                                                          *)

LEMMA SmallestInSet ==
  ASSUME NEW S \in SUBSET RadiusStandards, S # {}
  PROVE  SmallestOf(S) \in S
<1>1. \E b \in S : \A c \in S : b <= c
  <2>1. CASE 5000 \in S
    BY <2>1 DEF RadiusStandards
  <2>2. CASE 5000 \notin S /\ 10000 \in S
    BY <2>2 DEF RadiusStandards
  <2>3. CASE 5000 \notin S /\ 10000 \notin S
    <3>1. PICK x \in S : TRUE
      OBVIOUS
    <3>2. \A y \in S : y = 15000
      BY <2>3 DEF RadiusStandards
    <3> QED BY <3>1, <3>2
  <2> QED BY <2>1, <2>2, <2>3
<1> QED BY <1>1 DEF SmallestOf

LEMMA BucketCovers ==
  ASSUME NEW radius \in Radii
  PROVE  Bucket(radius) \in RadiusStandards /\ radius <= Bucket(radius)
<1>1. 15000 \in Covering(radius)
  BY SearchConstants DEF SearchConstants, Covering, RadiusStandards
<1>2. SmallestOf(Covering(radius)) \in Covering(radius)
  BY <1>1, SmallestInSet DEF Covering
<1> QED BY <1>1, <1>2 DEF Bucket, Covering

LEMMA KeyOfInKeys ==
  ASSUME NEW r \in Request
  PROVE  KeyOf(r) \in Keys
<1>1. r.radius \in Radii /\ r.pos \in Positions /\ r.page \in Pages /\ r.limit \in Limits
  BY DEF Request
<1>2. Bucket(r.radius) \in RadiusStandards
  BY <1>1, BucketCovers
<1>3. CellOf[r.pos] \in Cells
  BY <1>1 DEF Cells
<1> QED BY <1>1, <1>2, <1>3 DEF KeyOf, Keys

-----------------------------------------------------------------------------
(* Type correctness                                                        *)

LEMMA FinishTypes ==
  ASSUME TypeOK, NEW w \in Workers, NEW src \in Sources \cup Errors,
         NEW list \in SUBSET Stations, NEW committed \in SUBSET Stations,
         Finish(w, src, list, committed)
  PROVE  TypeOK'
<1> USE DEF TypeOK, Finish, Rollback, Goto, caches
<1>1. answer' \in [Workers -> [source : Sources \cup Errors, stations : SUBSET Stations]]
  OBVIOUS
<1>2. source' \in [Workers -> Sources]
  BY DEF Sources
<1>3. pc' \in [Workers -> Labels] /\ (\A v \in Workers : pc'[v] = "upsert" => items'[v] # <<>>)
  BY DEF Labels
<1>4. items' \in [Workers -> Seq(Stations)]
  OBVIOUS
<1>5. found' \in [Workers -> SUBSET Stations] /\ rows' \in [Workers -> SUBSET Stations]
      /\ conn' \in [Workers -> BOOLEAN]
  OBVIOUS
<1> QED BY <1>1, <1>2, <1>3, <1>4, <1>5

LEMMA HitTypes ==
  ASSUME TypeOK, NEW w \in Workers, NEW label \in {"cache", "persistent_cache"},
         NEW list \in SUBSET Stations, pc[w] # "upsert",
         Hit(w, label, list)
  PROVE  TypeOK'
<1> USE DEF TypeOK, Hit, Goto, caches, session
<1>1. Near(w, list) \in SUBSET Stations
  BY DEF Near, Within
<1>2. source' \in [Workers -> Sources]
  BY DEF Sources
<1>3. found' \in [Workers -> SUBSET Stations]
  BY <1>1
<1>4. pc' \in [Workers -> Labels] /\ (\A v \in Workers : pc'[v] = "upsert" => items'[v] # <<>>)
  BY DEF Labels
<1> QED BY <1>2, <1>3, <1>4

LEMMA SkipTypes ==
  ASSUME TypeOK, NEW w \in Workers, NEW label \in Labels \ {"upsert"}, Skip(w, label)
  PROVE  TypeOK'
BY DEF TypeOK, Skip, Goto, caches, session

LEMMA NextItemTypes ==
  ASSUME TypeOK, NEW w \in Workers, pc[w] = "upsert", NextItem(w),
         rows' \in [Workers -> SUBSET Stations], conn' \in [Workers -> BOOLEAN]
  PROVE  TypeOK'
<1> USE DEF TypeOK, NextItem, Goto, caches
<1>1. Tail(items[w]) \in Seq(Stations)
  OBVIOUS
<1>2. items' \in [Workers -> Seq(Stations)]
  BY <1>1
<1>3. pc' \in [Workers -> Labels] /\ (\A v \in Workers : pc'[v] = "upsert" => items'[v] # <<>>)
  BY DEF Labels
<1> QED BY <1>2, <1>3

LEMMA AfterItemsTypes ==
  ASSUME TypeOK, NEW w \in Workers, AfterItems(w), stored' \in SUBSET Stations
  PROVE  TypeOK'
<1> USE DEF TypeOK, AfterItems, Rollback, Goto, caches
<1>1. pc' \in [Workers -> Labels] /\ (\A v \in Workers : pc'[v] = "upsert" => items'[v] # <<>>)
  BY DEF Labels
<1> QED BY <1>1

\* The item at hand is a station.
LEMMA ItemIsStation ==
  ASSUME TypeOK, NEW w \in Workers, items[w] # <<>>
  PROVE  Item(w) \in Stations
BY DEF TypeOK, Item

LEMMA HandleTypes ==
  ASSUME TypeOK, NEW w \in Workers, Handle(w)
  PROVE  TypeOK'
<1> USE DEF caches, session, handler
<1>1. CASE StartRequest(w)
  BY <1>1 DEF StartRequest, Goto, TypeOK, Labels, Sources
<1>2. CASE Geocoded(w)
  BY <1>2 DEF Geocoded, Goto, TypeOK, Labels
<1>3. CASE GeocodingFails(w)
  BY <1>3, FinishTypes DEF GeocodingFails, Fail, Errors
<1>4. CASE ReadL1(w)
  <2>1. Key(w) \in Keys
    BY KeyOfInKeys DEF Key, TypeOK
  <2>2. CASE l1[Key(w)] # Miss
    <3>1. l1[Key(w)] \in SUBSET Stations
      BY <2>1, <2>2 DEF TypeOK
    <3> QED BY <1>4, <2>2, <3>1, HitTypes DEF ReadL1
  <2>3. CASE l1[Key(w)] = Miss
    BY <1>4, <2>3, SkipTypes DEF ReadL1, Labels
  <2> QED BY <2>2, <2>3
<1>5. CASE ReadL2(w)
  <2>1. Key(w) \in Keys
    BY KeyOfInKeys DEF Key, TypeOK
  <2>2. CASE l2[Key(w)] # Miss
    <3>1. l2[Key(w)] \in SUBSET Stations
      BY <2>1, <2>2 DEF TypeOK
    <3> QED BY <1>5, <2>2, <3>1, HitTypes DEF ReadL2
  <2>3. CASE l2[Key(w)] = Miss
    BY <1>5, <2>3, SkipTypes DEF ReadL2, Labels
  <2> QED BY <2>2, <2>3
<1>6. CASE CacheReadFails(w)
  BY <1>6, SkipTypes DEF CacheReadFails, Labels
<1>7. CASE CountChargers(w)
  BY <1>7, SkipTypes DEF CountChargers, Labels
<1>8. CASE Checkout(w)
  BY <1>8 DEF Checkout, TypeOK
<1>9. CASE QueryStations(w)
  <2>1. PICK page \in PagesOf(req[w], Within(req[w].pos, Bucket(req[w].radius), stored)) :
          /\ found' = [found EXCEPT ![w] = Near(w, page)]
          /\ source' = [source EXCEPT ![w] = IF Near(w, page) = {} THEN "none" ELSE "database"]
          /\ Goto(w, IF Near(w, page) = {} THEN "kepco" ELSE "fill_l1")
    BY <1>9 DEF QueryStations
  <2>2. Near(w, page) \in SUBSET Stations
    BY DEF PagesOf, Near, Within, TypeOK
  <2>3. found' \in [Workers -> SUBSET Stations]
    BY <2>1, <2>2 DEF TypeOK
  <2>4. source' \in [Workers -> Sources]
    BY <2>1 DEF TypeOK, Sources
  <2>5. UNCHANGED <<stored, caches, req, items, session, answer>>
    BY <1>9 DEF QueryStations
  <2>6. pc' \in [Workers -> Labels]
        /\ \A v \in Workers : pc'[v] = "upsert" => items'[v] # <<>>
    BY <2>1, <2>5 DEF TypeOK, Labels, Goto
  <2> QED BY <2>3, <2>4, <2>5, <2>6 DEF TypeOK
<1>10. CASE QueryFails(w)
  BY <1>10 DEF QueryFails, Rollback, Goto, TypeOK, Labels
<1>11. CASE KepcoAnswers(w)
  BY <1>11, SearchConstants DEF SearchConstants, KepcoAnswers, Goto, TypeOK, Labels, Sources
<1>12. CASE KepcoFails(w)
  <2>1. PICK src \in Errors : Fail(w, src)
    BY <1>12 DEF KepcoFails, Errors
  <2> QED BY <2>1, FinishTypes DEF Fail
<1>13. CASE SkipItem(w)
  BY <1>13 DEF SkipItem, TypeOK, Labels
<1>14. CASE TakeItem(w)
  <2>1. Item(w) \in Stations
    BY <1>14, ItemIsStation DEF TakeItem
  <2> QED BY <1>14, <2>1 DEF TakeItem, Rollback, Goto, TypeOK, Labels
<1>15. CASE Upsert(w)
  <2>1. Item(w) \in Stations
    BY <1>15, ItemIsStation DEF Upsert, TypeOK
  <2>2. rows' \in [Workers -> SUBSET Stations] /\ conn' \in [Workers -> BOOLEAN]
    BY <1>15, <2>1 DEF Upsert, TypeOK
  <2> QED BY <1>15, <2>2, NextItemTypes DEF Upsert
<1>16. CASE UpsertFails(w)
  BY <1>16, NextItemTypes DEF UpsertFails, Rollback, TypeOK
<1>17. CASE UpsertTimesOut(w)
  BY <1>17, NextItemTypes DEF UpsertTimesOut, Rollback, TypeOK
<1>18. CASE CommitItems(w)
  <2>1. stored' \in SUBSET Stations
    BY <1>18 DEF CommitItems, TypeOK
  <2> QED BY <1>18, <2>1, AfterItemsTypes DEF CommitItems
<1>19. CASE CommitFails(w)
  <2>1. stored' \in SUBSET Stations
    BY <1>19 DEF CommitFails, TypeOK
  <2> QED BY <1>19, <2>1, AfterItemsTypes DEF CommitFails
<1>20. CASE FillL1(w)
  BY <1>20 DEF FillL1, Goto, TypeOK, Labels
<1>21. CASE FillL2(w)
  BY <1>21 DEF FillL2, Goto, TypeOK, Labels
<1>22. CASE FillFails(w)
  BY <1>22, SkipTypes DEF FillFails, Labels
<1>23. CASE Reply(w)
  <2>1. source[w] \in Sources \cup Errors /\ found[w] \in SUBSET Stations /\ rows[w] \in SUBSET Stations
    BY DEF TypeOK
  <2> QED BY <1>23, <2>1, FinishTypes DEF Reply
<1> QED BY <1>1, <1>2, <1>3, <1>4, <1>5, <1>6, <1>7, <1>8, <1>9, <1>10, <1>11, <1>12,
           <1>13, <1>14, <1>15, <1>16, <1>17, <1>18, <1>19, <1>20, <1>21, <1>22, <1>23
        DEF Handle

LEMMA EnvironmentTypes ==
  ASSUME TypeOK, Expire \/ RedisFailsOrRecovers \/ LoadStation
  PROVE  TypeOK'
<1> USE DEF caches, session, handler, TypeOK
<1>1. CASE Expire
  BY <1>1 DEF Expire
<1>2. CASE RedisFailsOrRecovers
  BY <1>2 DEF RedisFailsOrRecovers
<1>3. CASE LoadStation
  BY <1>3, SearchConstants DEF LoadStation, SearchConstants
<1> QED BY <1>1, <1>2, <1>3

\* Every variable of the search keeps its type, in every behaviour.
THEOREM SearchTypeCorrect == Spec => []TypeOK
<1>1. Init => TypeOK
  <2> SUFFICES ASSUME Init PROVE TypeOK
    OBVIOUS
  <2>1. PICK r \in Request : req = [w \in Workers |-> r]
    BY DEF Init
  <2> QED BY <2>1 DEF Init, TypeOK, Labels, Sources
<1>2. TypeOK /\ [Next]_vars => TypeOK'
  <2> SUFFICES ASSUME TypeOK, [Next]_vars PROVE TypeOK'
    OBVIOUS
  <2>1. CASE \E w \in Workers : Handle(w)
    BY <2>1, HandleTypes
  <2>2. CASE Expire \/ RedisFailsOrRecovers \/ LoadStation
    BY <2>2, EnvironmentTypes
  <2>3. CASE UNCHANGED vars
    BY <2>3 DEF vars, caches, handler, session, TypeOK
  <2> QED BY <2>1, <2>2, <2>3 DEF Next
<1> QED BY <1>1, <1>2, PTL DEF Spec

-----------------------------------------------------------------------------
(* The inductive invariant                                                 *)

LEMMA HandleKeepsSessions ==
  ASSUME TypeOK, RowsHeldBetweenItems, IdleHasNothing, NEW w \in Workers, Handle(w)
  PROVE  RowsHeldBetweenItems' /\ IdleHasNothing'
<1> USE DEF TypeOK, RowsHeldBetweenItems, IdleHasNothing, caches, session, handler
<1>1. CASE StartRequest(w)
  BY <1>1 DEF StartRequest, Goto
<1>2. CASE Geocoded(w)
  BY <1>2 DEF Geocoded, Goto
<1>3. CASE GeocodingFails(w)
  BY <1>3 DEF GeocodingFails, Fail, Finish, Rollback, Goto
<1>4. CASE ReadL1(w)
  BY <1>4 DEF ReadL1, Hit, Skip, Goto
<1>5. CASE ReadL2(w)
  BY <1>5 DEF ReadL2, Hit, Skip, Goto
<1>6. CASE CacheReadFails(w)
  BY <1>6 DEF CacheReadFails, Skip, Goto
<1>7. CASE CountChargers(w)
  BY <1>7 DEF CountChargers, Skip, Goto
<1>8. CASE Checkout(w)
  BY <1>8 DEF Checkout, NeedsConnection
<1>9. CASE QueryStations(w)
  BY <1>9 DEF QueryStations, Goto
<1>10. CASE QueryFails(w)
  BY <1>10 DEF QueryFails, Rollback, Goto
<1>11. CASE KepcoAnswers(w)
  BY <1>11 DEF KepcoAnswers, Goto
<1>12. CASE KepcoFails(w)
  BY <1>12 DEF KepcoFails, Fail, Finish, Rollback, Goto
<1>13. CASE SkipItem(w)
  BY <1>13 DEF SkipItem
<1>14. CASE TakeItem(w)
  BY <1>14 DEF TakeItem, Rollback, Goto
<1>15. CASE Upsert(w)
  BY <1>15 DEF Upsert, NextItem, Goto
<1>16. CASE UpsertFails(w)
  BY <1>16 DEF UpsertFails, Rollback, NextItem, Goto
<1>17. CASE UpsertTimesOut(w)
  BY <1>17 DEF UpsertTimesOut, Rollback, NextItem, Goto
<1>18. CASE CommitItems(w)
  BY <1>18 DEF CommitItems, AfterItems, Rollback, Goto
<1>19. CASE CommitFails(w)
  BY <1>19 DEF CommitFails, AfterItems, Rollback, Goto
<1>20. CASE FillL1(w)
  BY <1>20 DEF FillL1, Goto
<1>21. CASE FillL2(w)
  BY <1>21 DEF FillL2, Goto
<1>22. CASE FillFails(w)
  BY <1>22 DEF FillFails, Skip, Goto
<1>23. CASE Reply(w)
  BY <1>23 DEF Reply, Finish, Rollback, Goto
<1> QED BY <1>1, <1>2, <1>3, <1>4, <1>5, <1>6, <1>7, <1>8, <1>9, <1>10, <1>11, <1>12, <1>13, <1>14, <1>15, <1>16, <1>17, <1>18, <1>19, <1>20, <1>21, <1>22, <1>23 DEF Handle

LEMMA HitKeepsRadius ==
  ASSUME TypeOK, IdleHasNothing, FoundWithinRadius, AnswersWithinRadius,
         NEW w \in Workers, NEW label, NEW list \in SUBSET Stations,
         pc[w] \in {"l1", "l2"}, Hit(w, label, list)
  PROVE  FoundWithinRadius' /\ AnswersWithinRadius'
BY DEF TypeOK, IdleHasNothing, FoundWithinRadius, AnswersWithinRadius, Near, Within,
       Hit, Goto

LEMMA HandleKeepsRadius ==
  ASSUME TypeOK, IdleHasNothing, FoundWithinRadius, AnswersWithinRadius, NEW w \in Workers, Handle(w)
  PROVE  FoundWithinRadius' /\ AnswersWithinRadius'
<1> USE DEF TypeOK, IdleHasNothing, FoundWithinRadius, AnswersWithinRadius, Near, Within, caches, session, handler
<1>1. CASE StartRequest(w)
  BY <1>1 DEF StartRequest, Goto
<1>2. CASE Geocoded(w)
  BY <1>2 DEF Geocoded, Goto
<1>3. CASE GeocodingFails(w)
  BY <1>3 DEF GeocodingFails, Fail, Finish, Rollback, Goto
<1>4. CASE ReadL1(w)
  <2>1. Key(w) \in Keys
    BY KeyOfInKeys DEF Key
  <2>2. CASE l1[Key(w)] # Miss
    <3>1. l1[Key(w)] \in SUBSET Stations
      BY <2>1, <2>2
    <3> QED BY <1>4, <2>2, <3>1, HitKeepsRadius DEF ReadL1
  <2>3. CASE l1[Key(w)] = Miss
    BY <1>4, <2>3 DEF ReadL1, Skip, Goto
  <2> QED BY <2>2, <2>3
<1>5. CASE ReadL2(w)
  <2>1. Key(w) \in Keys
    BY KeyOfInKeys DEF Key
  <2>2. CASE l2[Key(w)] # Miss
    <3>1. l2[Key(w)] \in SUBSET Stations
      BY <2>1, <2>2
    <3> QED BY <1>5, <2>2, <3>1, HitKeepsRadius DEF ReadL2
  <2>3. CASE l2[Key(w)] = Miss
    BY <1>5, <2>3 DEF ReadL2, Skip, Goto
  <2> QED BY <2>2, <2>3
<1>6. CASE CacheReadFails(w)
  BY <1>6 DEF CacheReadFails, Skip, Goto
<1>7. CASE CountChargers(w)
  BY <1>7 DEF CountChargers, Skip, Goto
<1>8. CASE Checkout(w)
  BY <1>8 DEF Checkout
<1>9. CASE QueryStations(w)
  <2>1. PICK page \in PagesOf(req[w], Within(req[w].pos, Bucket(req[w].radius), stored)) :
          /\ found' = [found EXCEPT ![w] = Near(w, page)]
          /\ Goto(w, IF Near(w, page) = {} THEN "kepco" ELSE "fill_l1")
    BY <1>9 DEF QueryStations
  <2>2. page \in SUBSET Stations
    BY DEF PagesOf
  <2>3. UNCHANGED <<req, answer>>
    BY <1>9 DEF QueryStations
  <2> QED BY <2>1, <2>2, <2>3 DEF Goto
<1>10. CASE QueryFails(w)
  BY <1>10 DEF QueryFails, Rollback, Goto
<1>11. CASE KepcoAnswers(w)
  BY <1>11 DEF KepcoAnswers, Goto
<1>12. CASE KepcoFails(w)
  BY <1>12 DEF KepcoFails, Fail, Finish, Rollback, Goto
<1>13. CASE SkipItem(w)
  BY <1>13 DEF SkipItem
<1>14. CASE TakeItem(w)
  <2>1. Item(w) \in Stations
    BY <1>14, ItemIsStation DEF TakeItem
  <2>2. Item(w) \in Near(w, Stations)
    BY <1>14, <2>1 DEF TakeItem
  <2> QED BY <1>14, <2>2 DEF TakeItem, Rollback, Goto
<1>15. CASE Upsert(w)
  BY <1>15 DEF Upsert, NextItem, Goto
<1>16. CASE UpsertFails(w)
  BY <1>16 DEF UpsertFails, Rollback, NextItem, Goto
<1>17. CASE UpsertTimesOut(w)
  BY <1>17 DEF UpsertTimesOut, Rollback, NextItem, Goto
<1>18. CASE CommitItems(w)
  BY <1>18 DEF CommitItems, AfterItems, Rollback, Goto
<1>19. CASE CommitFails(w)
  BY <1>19 DEF CommitFails, AfterItems, Rollback, Goto
<1>20. CASE FillL1(w)
  BY <1>20 DEF FillL1, Goto
<1>21. CASE FillL2(w)
  BY <1>21 DEF FillL2, Goto
<1>22. CASE FillFails(w)
  BY <1>22 DEF FillFails, Skip, Goto
<1>23. CASE Reply(w)
  BY <1>23 DEF Reply, Finish, Rollback, Goto
<1> QED BY <1>1, <1>2, <1>3, <1>4, <1>5, <1>6, <1>7, <1>8, <1>9, <1>10, <1>11, <1>12, <1>13, <1>14, <1>15, <1>16, <1>17, <1>18, <1>19, <1>20, <1>21, <1>22, <1>23 DEF Handle

\* What a handler found may be cached under its key.
LEMMA FoundIsCacheable ==
  ASSUME TypeOK, FoundWithinRadius, NEW w \in Workers
  PROVE  /\ CellOf[req[w].pos] = Key(w).cell
         /\ found[w] \subseteq Within(req[w].pos, Key(w).radius, Stations)
<1>1. req[w] \in Request /\ req[w].radius \in Radii /\ req[w].pos \in Positions
  BY DEF TypeOK, Request
<1>2. Key(w).cell = CellOf[req[w].pos] /\ Key(w).radius = Bucket(req[w].radius)
  BY DEF Key, KeyOf
<1>3. req[w].radius <= Bucket(req[w].radius) /\ Bucket(req[w].radius) \in RadiusStandards
  BY <1>1, BucketCovers
<1>4. \A s \in Stations : Dist[req[w].pos][s] \in Nat
  BY <1>1, SearchConstants DEF SearchConstants
<1>5. req[w].radius \in Nat
  BY <1>1, SearchConstants DEF SearchConstants
<1>6. \A s \in found[w] : s \in Stations /\ Dist[req[w].pos][s] <= req[w].radius
  BY DEF FoundWithinRadius, Near, Within
<1>7. \A s \in found[w] : Dist[req[w].pos][s] <= Bucket(req[w].radius)
  BY <1>3, <1>4, <1>5, <1>6 DEF RadiusStandards
<1> QED BY <1>2, <1>6, <1>7 DEF Within

LEMMA HandleKeepsCaches ==
  ASSUME TypeOK, FoundWithinRadius, CachedWithinBucket, NEW w \in Workers, Handle(w)
  PROVE  CachedWithinBucket'
<1> USE DEF CachedWithinBucket, caches, session, handler
<1>1. CASE StartRequest(w)
  BY <1>1 DEF StartRequest, Goto
<1>2. CASE Geocoded(w)
  BY <1>2 DEF Geocoded, Goto
<1>3. CASE GeocodingFails(w)
  BY <1>3 DEF GeocodingFails, Fail, Finish, Rollback, Goto
<1>4. CASE ReadL1(w)
  BY <1>4 DEF ReadL1, Hit, Skip, Goto
<1>5. CASE ReadL2(w)
  BY <1>5 DEF ReadL2, Hit, Skip, Goto
<1>6. CASE CacheReadFails(w)
  BY <1>6 DEF CacheReadFails, Skip, Goto
<1>7. CASE CountChargers(w)
  BY <1>7 DEF CountChargers, Skip, Goto
<1>8. CASE Checkout(w)
  BY <1>8 DEF Checkout
<1>9. CASE QueryStations(w)
  BY <1>9 DEF QueryStations, Goto
<1>10. CASE QueryFails(w)
  BY <1>10 DEF QueryFails, Rollback, Goto
<1>11. CASE KepcoAnswers(w)
  BY <1>11 DEF KepcoAnswers, Goto
<1>12. CASE KepcoFails(w)
  BY <1>12 DEF KepcoFails, Fail, Finish, Rollback, Goto
<1>13. CASE SkipItem(w)
  BY <1>13 DEF SkipItem
<1>14. CASE TakeItem(w)
  BY <1>14 DEF TakeItem, Rollback, Goto
<1>15. CASE Upsert(w)
  BY <1>15 DEF Upsert, NextItem, Goto
<1>16. CASE UpsertFails(w)
  BY <1>16 DEF UpsertFails, Rollback, NextItem, Goto
<1>17. CASE UpsertTimesOut(w)
  BY <1>17 DEF UpsertTimesOut, Rollback, NextItem, Goto
<1>18. CASE CommitItems(w)
  BY <1>18 DEF CommitItems, AfterItems, Rollback, Goto
<1>19. CASE CommitFails(w)
  BY <1>19 DEF CommitFails, AfterItems, Rollback, Goto
<1>20. CASE FillL1(w)
  <2>1. Key(w) \in Keys /\ found[w] # {} /\ found[w] \in SUBSET Stations
    BY <1>20, KeyOfInKeys DEF FillL1, Key, FoundWithinRadius, TypeOK
  <2>2. /\ CellOf[req[w].pos] = Key(w).cell
        /\ found[w] \subseteq Within(req[w].pos, Key(w).radius, Stations)
    BY FoundIsCacheable
  <2>3. req[w].pos \in Positions
    BY DEF TypeOK, Request
  <2>4. l1' = [l1 EXCEPT ![Key(w)] = found[w]]
    BY <1>20 DEF FillL1
  <2>5. \A k \in Keys : l1'[k] = IF k = Key(w) THEN found[w] ELSE l1[k]
    BY <2>4 DEF TypeOK
  <2>6. \E p \in Positions : /\ CellOf[p] = Key(w).cell
                             /\ found[w] \subseteq Within(p, Key(w).radius, Stations)
    BY <2>2, <2>3
  <2>7. l2' = l2
    BY <1>20 DEF FillL1
  <2>8. SUFFICES ASSUME NEW k \in Keys, NEW list \in {l1[k], l2[k]}' \ {Miss}
        PROVE  /\ list # {}
               /\ \E p \in Positions : CellOf[p] = k.cell
                                     /\ list \subseteq Within(p, k.radius, Stations)
    OBVIOUS
  <2>9. CASE k = Key(w) /\ list = found[w]
    BY <2>1, <2>6, <2>9
  <2>10. CASE list \in {l1[k], l2[k]}
    BY <2>10
  <2> QED BY <2>5, <2>7, <2>8, <2>9, <2>10
<1>21. CASE FillL2(w)
  <2>1. Key(w) \in Keys /\ found[w] # {} /\ found[w] \in SUBSET Stations
    BY <1>21, KeyOfInKeys DEF FillL2, Key, FoundWithinRadius, TypeOK
  <2>2. /\ CellOf[req[w].pos] = Key(w).cell
        /\ found[w] \subseteq Within(req[w].pos, Key(w).radius, Stations)
    BY FoundIsCacheable
  <2>3. req[w].pos \in Positions
    BY DEF TypeOK, Request
  <2>4. l2' = [l2 EXCEPT ![Key(w)] = found[w]]
    BY <1>21 DEF FillL2
  <2>5. \A k \in Keys : l2'[k] = IF k = Key(w) THEN found[w] ELSE l2[k]
    BY <2>4 DEF TypeOK
  <2>6. \E p \in Positions : /\ CellOf[p] = Key(w).cell
                             /\ found[w] \subseteq Within(p, Key(w).radius, Stations)
    BY <2>2, <2>3
  <2>7. l1' = l1
    BY <1>21 DEF FillL2
  <2>8. SUFFICES ASSUME NEW k \in Keys, NEW list \in {l1[k], l2[k]}' \ {Miss}
        PROVE  /\ list # {}
               /\ \E p \in Positions : CellOf[p] = k.cell
                                     /\ list \subseteq Within(p, k.radius, Stations)
    OBVIOUS
  <2>9. CASE k = Key(w) /\ list = found[w]
    BY <2>1, <2>6, <2>9
  <2>10. CASE list \in {l1[k], l2[k]}
    BY <2>10
  <2> QED BY <2>5, <2>7, <2>8, <2>9, <2>10
<1>22. CASE FillFails(w)
  BY <1>22 DEF FillFails, Skip, Goto
<1>23. CASE Reply(w)
  BY <1>23 DEF Reply, Finish, Rollback, Goto
<1> QED BY <1>1, <1>2, <1>3, <1>4, <1>5, <1>6, <1>7, <1>8, <1>9, <1>10, <1>11, <1>12, <1>13, <1>14, <1>15, <1>16, <1>17, <1>18, <1>19, <1>20, <1>21, <1>22, <1>23 DEF Handle

LEMMA EnvironmentKeepsInv ==
  ASSUME SearchInv, Expire \/ RedisFailsOrRecovers \/ LoadStation
  PROVE  SearchInv'
<1>1. TypeOK'
  BY EnvironmentTypes DEF SearchInv
<1>2. UNCHANGED <<handler, session, answer>>
  BY DEF Expire, RedisFailsOrRecovers, LoadStation
<1>3. RowsHeldBetweenItems' /\ IdleHasNothing' /\ FoundWithinRadius' /\ AnswersWithinRadius'
  BY <1>2 DEF SearchInv, handler, session, RowsHeldBetweenItems, IdleHasNothing,
              FoundWithinRadius, AnswersWithinRadius, Near
<1>4. CachedWithinBucket'
  <2>1. \A k \in Keys : l1'[k] \in {l1[k], Miss} /\ l2'[k] \in {l2[k], Miss}
    BY DEF Expire, RedisFailsOrRecovers, LoadStation, caches, SearchInv, TypeOK
  <2> QED BY <2>1 DEF SearchInv, CachedWithinBucket
<1> QED BY <1>1, <1>3, <1>4 DEF SearchInv

\* The invariant of the search is inductive.
THEOREM SearchInvariant == Spec => []SearchInv
<1>1. Init => SearchInv
  <2> SUFFICES ASSUME Init PROVE SearchInv
    OBVIOUS
  <2>1. TypeOK
    <3>1. PICK r \in Request : req = [w \in Workers |-> r]
      BY DEF Init
    <3> QED BY <3>1 DEF Init, TypeOK, Labels, Sources
  <2>2. RowsHeldBetweenItems /\ IdleHasNothing /\ FoundWithinRadius /\ AnswersWithinRadius
    BY DEF Init, RowsHeldBetweenItems, IdleHasNothing, FoundWithinRadius, AnswersWithinRadius
  <2>3. CachedWithinBucket
    BY DEF Init, CachedWithinBucket
  <2> QED BY <2>1, <2>2, <2>3 DEF SearchInv
<1>2. SearchInv /\ [Next]_vars => SearchInv'
  <2> SUFFICES ASSUME SearchInv, [Next]_vars PROVE SearchInv'
    OBVIOUS
  <2>1. CASE \E w \in Workers : Handle(w)
    BY <2>1, HandleTypes, HandleKeepsSessions, HandleKeepsRadius, HandleKeepsCaches
    DEF SearchInv
  <2>2. CASE Expire \/ RedisFailsOrRecovers \/ LoadStation
    BY <2>2, EnvironmentKeepsInv
  <2>3. CASE UNCHANGED vars
    BY <2>3 DEF vars, caches, handler, session, SearchInv, TypeOK, RowsHeldBetweenItems,
                IdleHasNothing, FoundWithinRadius, AnswersWithinRadius, CachedWithinBucket,
                Near
  <2> QED BY <2>1, <2>2, <2>3 DEF Next
<1> QED BY <1>1, <1>2, PTL DEF Spec

\* No answer holds a station beyond the radius its request asked for.
THEOREM AnswersStayWithinRadius == Spec => []AnswersWithinRadius
<1>1. SearchInv => AnswersWithinRadius
  BY DEF SearchInv
<1> QED BY <1>1, SearchInvariant, PTL

\* No cache entry is empty or reaches beyond its key's radius bucket.
THEOREM CachesStayWithinBuckets == Spec => []CachedWithinBucket
<1>1. SearchInv => CachedWithinBucket
  BY DEF SearchInv
<1> QED BY <1>1, SearchInvariant, PTL

\* An idle handler keeps neither a transaction nor a connection.
THEOREM NoSessionLeaks == Spec => []SessionsDoNotLeak
<1>1. SearchInv => SessionsDoNotLeak
  BY DEF SearchInv, SessionsDoNotLeak, RowsHeldBetweenItems, IdleHasNothing
<1> QED BY <1>1, SearchInvariant, PTL

\* A handler that waits, for a row or for a connection, keeps no row locked, so
\* nobody waits for it in turn; and a full pool has a holder that waits for none.
LEMMA WaitersBlockNobody ==
  ASSUME SearchInv
  PROVE  NoDeadlockedSet
<1> SUFFICES ASSUME NEW S \in SUBSET Workers, S # {}
             PROVE  \E w \in S :
                        /\ \A v \in S : ~WaitsForRow(w, v)
                        /\ WaitsForConnection(w) => ~(ConnectionsInUse \subseteq S)
  BY DEF NoDeadlockedSet
<1>1. \A v \in Workers : rows[v] # {} => ~NeedsConnection(v)
  BY DEF SearchInv, RowsHeldBetweenItems, NeedsConnection
<1>2. CASE \E v \in S : ~NeedsConnection(v)
  BY <1>2 DEF WaitsForRow, WaitsForConnection, NeedsConnection
<1>3. CASE \A v \in S : NeedsConnection(v)
  <2>1. \A w, v \in S : ~WaitsForRow(w, v)
    BY <1>1, <1>3 DEF WaitsForRow
  <2>2. CASE \E v \in S : conn[v]
    BY <2>1, <2>2 DEF WaitsForConnection
  <2>3. CASE \A v \in S : ~conn[v]
    <3>1. ASSUME PoolExhausted, ConnectionsInUse \subseteq S
          PROVE  FALSE
      <4>1. ConnectionsInUse = {}
        BY <2>3, <3>1 DEF ConnectionsInUse
      <4>2. Cardinality(ConnectionsInUse) = 0
        BY <4>1, FS_EmptySet
      <4> QED BY <3>1, <4>2, SearchConstants DEF PoolExhausted, SearchConstants
    <3> QED BY <2>1, <3>1 DEF WaitsForConnection
  <2> QED BY <2>2, <2>3
<1> QED BY <1>2, <1>3

\* Handlers never deadlock on rows or on connections, whatever the order of the
\* stations in the KEPCO answers they process.
THEOREM SearchNeverDeadlocks == Spec => []NoDeadlockedSet
<1> QED BY WaitersBlockNobody, SearchInvariant, PTL

-----------------------------------------------------------------------------
(* The abstract specification                                              *)

\* Where a handler stands in its code tells where it found its stations; the
\* items left to it are KEPCO's; and its transaction holds at most one row, of
\* a station it is going to answer with.
OriginOf(w) ==
    /\ pc[w] \in {"idle", "geocode", "l1", "l2", "query", "kepco"} =>
            source[w] = "none" /\ found[w] = {}
    /\ pc[w] \in {"items", "upsert"} => source[w] = "kepco_api"
    /\ pc[w] \in {"fill_l1", "fill_l2"} => source[w] \in {"database", "kepco_api"}
    /\ pc[w] \in {"count", "reply"} => source[w] # "none"
    /\ items[w] \in Seq(Listed)
    /\ pc[w] = "upsert" => Item(w) \in found[w]
    /\ rows[w] \subseteq found[w]
    /\ \A s, t \in rows[w] : s = t

OriginInv == \A w \in Workers : OriginOf(w)

\* A step of one handler leaves the others where they are.
LEMMA OthersKeepOrigin ==
  ASSUME OriginInv, TypeOK, NEW w \in Workers, OriginOf(w)',
         NEW v \in Workers, v # w,
         \A u \in Workers \ {w} :
            /\ pc'[u] = pc[u] /\ source'[u] = source[u] /\ found'[u] = found[u]
            /\ items'[u] = items[u] /\ rows'[u] = rows[u]
  PROVE  OriginOf(v)'
BY DEF OriginInv, OriginOf, Item

LEMMA PayloadsAreListed ==
  ASSUME NEW payload \in Payloads
  PROVE  payload \in Seq(Listed)
<1>1. payload \in Seq(Stations)
  BY SearchConstants DEF SearchConstants
<1>2. \A i \in 1 .. Len(payload) : payload[i] \in Listed
  BY <1>1 DEF Listed
<1> QED BY <1>1, <1>2

LEMMA HandleKeepsOrigin ==
  ASSUME SearchInv, OriginInv, NEW w \in Workers, Handle(w)
  PROVE  OriginInv'
<1> DEFINE others == \A u \in Workers \ {w} :
                /\ pc'[u] = pc[u] /\ source'[u] = source[u] /\ found'[u] = found[u]
                /\ items'[u] = items[u] /\ rows'[u] = rows[u]
<1> SUFFICES OriginOf(w)' /\ others
  BY OthersKeepOrigin DEF SearchInv, OriginInv
<1>0. TypeOK /\ OriginOf(w) /\ (rows[w] # {} => pc[w] = "items")
  BY DEF SearchInv, OriginInv, RowsHeldBetweenItems
<1> USE DEF TypeOK, OriginOf, Item, caches, session, handler
<1>1. CASE StartRequest(w)
  BY <1>0, <1>1 DEF StartRequest, Goto
<1>2. CASE Geocoded(w)
  BY <1>0, <1>2 DEF Geocoded, Goto
<1>3. ASSUME NEW src, NEW l, NEW committed, Finish(w, src, l, committed)
      PROVE  OriginOf(w)' /\ others
  <2>1. <<>> \in Seq(Listed)
    OBVIOUS
  <2> QED BY <1>0, <1>3, <2>1 DEF Finish, Rollback, Goto
<1>4. CASE GeocodingFails(w) \/ KepcoFails(w) \/ Reply(w)
  BY <1>3, <1>4 DEF GeocodingFails, KepcoFails, Reply, Fail
<1>5. ASSUME NEW label \in {"cache", "persistent_cache"}, NEW l, pc[w] \in {"l1", "l2"},
             Hit(w, label, l)
      PROVE  OriginOf(w)' /\ others
  BY <1>0, <1>5 DEF Hit, Goto
<1>6. ASSUME NEW label, Skip(w, label),
             \/ pc[w] \in {"l1", "l2"} /\ label \in {"l2", "query"}
             \/ pc[w] \in {"count", "fill_l1", "fill_l2"} /\ label = "reply"
      PROVE  OriginOf(w)' /\ others
  BY <1>0, <1>6 DEF Skip, Goto
<1>7. CASE ReadL1(w) \/ ReadL2(w) \/ CacheReadFails(w) \/ CountChargers(w) \/ FillFails(w)
  BY <1>5, <1>6, <1>7 DEF ReadL1, ReadL2, CacheReadFails, CountChargers, FillFails
<1>8. CASE Checkout(w)
  BY <1>0, <1>8 DEF Checkout
<1>9. CASE QueryStations(w)
  BY <1>0, <1>9 DEF QueryStations, Goto
<1>10. CASE QueryFails(w)
  BY <1>0, <1>10 DEF QueryFails, Rollback, Goto
<1>11. CASE KepcoAnswers(w)
  <2>1. PICK payload \in Payloads : items' = [items EXCEPT ![w] = payload]
    BY <1>11 DEF KepcoAnswers
  <2>2. payload \in Seq(Listed)
    BY PayloadsAreListed
  <2>3. items'[w] \in Seq(Listed) /\ \A u \in Workers \ {w} : items'[u] = items[u]
    BY <1>0, <2>1, <2>2
  <2> QED BY <1>0, <1>11, <2>3 DEF KepcoAnswers, Goto
<1>12. ASSUME items[w] # <<>>
       PROVE  Tail(items[w]) \in Seq(Listed)
  BY <1>0, <1>12
<1>13. CASE SkipItem(w)
  BY <1>0, <1>12, <1>13 DEF SkipItem
<1>14. CASE TakeItem(w)
  BY <1>0, <1>14 DEF TakeItem, Rollback, Goto
<1>15. CASE Upsert(w)
  <2>1. rows'[w] = {Item(w)} /\ Item(w) \in found[w] /\ source[w] = "kepco_api"
    BY <1>0, <1>15 DEF Upsert
  <2>2. items'[w] \in Seq(Listed)
    BY <1>0, <1>12, <1>15 DEF Upsert, NextItem
  <2> QED BY <1>0, <1>15, <2>1, <2>2 DEF Upsert, NextItem, Goto
<1>16. CASE UpsertFails(w) \/ UpsertTimesOut(w)
  BY <1>0, <1>12, <1>16 DEF UpsertFails, UpsertTimesOut, Rollback, NextItem, Goto
<1>17. CASE CommitItems(w) \/ CommitFails(w)
  BY <1>0, <1>17 DEF CommitItems, CommitFails, AfterItems, Rollback, Goto
<1>18. CASE FillL1(w) \/ FillL2(w)
  BY <1>0, <1>18 DEF FillL1, FillL2, Goto
<1> QED BY <1>1, <1>2, <1>4, <1>7, <1>8, <1>9, <1>10, <1>11, <1>13, <1>14, <1>15, <1>16,
           <1>17, <1>18 DEF Handle

LEMMA OriginInvHolds == Spec => []OriginInv
<1>1. Init => OriginInv
  <2>1. <<>> \in Seq(Listed)
    OBVIOUS
  <2> QED BY <2>1 DEF Init, OriginInv, OriginOf
<1>2. SearchInv /\ OriginInv /\ [Next]_vars => OriginInv'
  <2> SUFFICES ASSUME SearchInv, OriginInv, [Next]_vars
               PROVE  OriginInv'
    OBVIOUS
  <2>1. CASE \E w \in Workers : Handle(w)
    BY <2>1, HandleKeepsOrigin
  <2>2. CASE UNCHANGED <<handler, session>>
    BY <2>2 DEF handler, session, OriginInv, OriginOf, Item
  <2> QED BY <2>1, <2>2 DEF Next, Expire, RedisFailsOrRecovers, LoadStation, vars
<1> QED BY <1>1, <1>2, SearchInvariant, PTL DEF Spec

\* The steps of a handler that the abstract search does not see.
LEMMA UnseenStep ==
  ASSUME TypeOK, NEW w \in Workers, UNCHANGED <<stored, l1, l2, req, source, found, answer>>,
         \/ pc' = pc
         \/ \E label \in Labels \ {"idle"} : pc[w] # "idle" /\ Goto(w, label)
  PROVE  UNCHANGED Nearby!searchVars
<1>1. {v \in Workers : pc'[v] # "idle"} = {v \in Workers : pc[v] # "idle"}
  BY DEF Goto, TypeOK
<1> QED BY <1>1 DEF Nearby!searchVars, Nearby!search

LEMMA FindStep ==
  ASSUME TypeOK, NEW w \in Workers, pc[w] # "idle", source[w] = "none",
         NEW label \in Labels \ {"idle"}, Goto(w, label), NEW place, NEW S,
         source' = [source EXCEPT ![w] = place], found' = [found EXCEPT ![w] = S],
         UNCHANGED <<stored, l1, l2, req, answer>>
  PROVE  Nearby!Find(w, place, S)
<1>1. {v \in Workers : pc'[v] # "idle"} = {v \in Workers : pc[v] # "idle"}
  BY DEF Goto, TypeOK
<1> QED BY <1>1 DEF Nearby!Find

LEMMA RespondStep ==
  ASSUME TypeOK, NEW w \in Workers, pc[w] # "idle", NEW src, NEW S, Finish(w, src, S, {})
  PROVE  Nearby!Respond(w, src, S)
<1>1. {v \in Workers : pc'[v] # "idle"} = {v \in Workers : pc[v] # "idle"} \ {w}
  BY DEF Finish, Goto, TypeOK
<1>2. UNCHANGED <<stored, l1, l2, req>>
  BY DEF Finish, caches
<1> QED BY <1>1, <1>2 DEF Nearby!Respond, Finish

\* What the abstract search makes of a request.
LEMMA RequestOf ==
  ASSUME TypeOK, NEW w \in Workers
  PROVE  /\ Key(w) \in Keys
         /\ [r \in Request |-> KeyOf(r)][req[w]] = Key(w)
         /\ [r \in Request |-> Within(r.pos, r.radius, Stations)][req[w]] = Near(w, Stations)
<1>1. req[w] \in Request
  BY DEF TypeOK
<1> QED BY <1>1, KeyOfInKeys DEF Key, Near

LEMMA NearIsReach ==
  ASSUME TypeOK, NEW w \in Workers, NEW S \in SUBSET Stations
  PROVE  Near(w, S) = S \cap Near(w, Stations)
BY DEF Near, Within

\* A hit finds what the cache has within reach.
LEMMA HitStep ==
  ASSUME TypeOK, NEW w \in Workers, OriginOf(w), pc[w] \in {"l1", "l2"},
         NEW tier \in {"cache", "persistent_cache"}, NEW list \in SUBSET Stations,
         list = (IF tier = "cache" THEN l1 ELSE l2)[Key(w)], list # Miss, Hit(w, tier, list)
  PROVE  Nearby!FindCached(w)
<1>1. source[w] = "none" /\ pc[w] # "idle"
  BY DEF OriginOf
<1>2. PICK label \in Labels \ {"idle"} : Goto(w, label)
  BY DEF Hit, Labels
<1>3. Nearby!Find(w, tier, Near(w, list))
  BY <1>1, <1>2, FindStep DEF Hit, caches
<1>4. Near(w, list) = list \cap [r \in Request |-> Within(r.pos, r.radius, Stations)][req[w]]
  BY NearIsReach, RequestOf
<1>5. [t \in {"cache", "persistent_cache"} |-> IF t = "cache" THEN l1 ELSE l2][tier][
            [r \in Request |-> KeyOf(r)][req[w]]] = list
  BY RequestOf
<1> QED BY <1>3, <1>4, <1>5 DEF Nearby!FindCached, Nearby!Tiers

LEMMA FillStep ==
  ASSUME TypeOK, NEW w \in Workers, OriginOf(w), FoundWithinRadius, FillL1(w) \/ FillL2(w)
  PROVE  Nearby!Fill(w)
<1> DEFINE cache == [t \in {"cache", "persistent_cache"} |-> IF t = "cache" THEN l1 ELSE l2]
<1>1. source[w] \in {"database", "kepco_api"} /\ found[w] # {}
  BY DEF FillL1, FillL2, OriginOf, FoundWithinRadius
<1>2. {v \in Workers : pc'[v] # "idle"} = {v \in Workers : pc[v] # "idle"}
  BY DEF FillL1, FillL2, Goto, TypeOK
<1>3. UNCHANGED <<stored, req, source, found, answer>>
  BY DEF FillL1, FillL2
<1>4. \E t \in {"cache", "persistent_cache"} :
        cache' = [cache EXCEPT ![t] = [cache[t] EXCEPT ![Key(w)] = found[w]]]
  <2>1. CASE FillL1(w)
    <3>1. l1' = [l1 EXCEPT ![Key(w)] = found[w]] /\ l2' = l2
      BY <2>1 DEF FillL1
    <3>2. cache' = [cache EXCEPT !["cache"] = [cache["cache"] EXCEPT ![Key(w)] = found[w]]]
      BY <3>1
    <3> QED BY <3>2
  <2>2. CASE FillL2(w)
    <3>1. l2' = [l2 EXCEPT ![Key(w)] = found[w]] /\ l1' = l1
      BY <2>2 DEF FillL2
    <3>2. cache' = [cache EXCEPT !["persistent_cache"] =
                        [cache["persistent_cache"] EXCEPT ![Key(w)] = found[w]]]
      BY <3>1
    <3> QED BY <3>2
  <2> QED BY <2>1, <2>2
<1> QED BY <1>1, <1>2, <1>3, <1>4, RequestOf DEF Nearby!Fill, Nearby!search, Nearby!Tiers

\* A commit stores one station of the answer, or nothing.
LEMMA CommitStep ==
  ASSUME SearchInv, NEW w \in Workers, OriginOf(w), CommitItems(w)
  PROVE  Nearby!Save(w) \/ UNCHANGED Nearby!searchVars
<1>1. /\ TypeOK /\ source[w] = "kepco_api" /\ pc[w] # "idle" /\ rows[w] \subseteq found[w]
      /\ \A s, t \in rows[w] : s = t
  BY DEF CommitItems, AfterItems, OriginOf, SearchInv
<1>2. PICK label \in Labels \ {"idle"} : Goto(w, label)
  BY DEF CommitItems, AfterItems, Labels
<1>3. UNCHANGED <<l1, l2, req, source, found, answer>> /\ stored' = stored \cup rows[w]
  BY DEF CommitItems, AfterItems, caches
<1>4. CASE rows[w] = {}
  BY <1>1, <1>2, <1>3, <1>4, UnseenStep
<1>5. CASE rows[w] # {}
  <2>1. PICK s \in found[w] : stored' = stored \cup {s}
    <3>1. PICK s \in rows[w] : TRUE
      BY <1>5
    <3>2. rows[w] = {s}
      BY <1>1, <3>1
    <3> QED BY <1>1, <1>3, <3>2
  <2>2. {v \in Workers : pc'[v] # "idle"} = {v \in Workers : pc[v] # "idle"}
    BY <1>1, <1>2 DEF Goto, TypeOK
  <2> QED BY <1>1, <1>3, <2>1, <2>2 DEF Nearby!Save, Nearby!search
<1> QED BY <1>4, <1>5

LEMMA TakeStep ==
  ASSUME SearchInv, NEW w \in Workers, OriginOf(w), TakeItem(w)
  PROVE  Nearby!TakeListed(w)
<1>1. TypeOK /\ source[w] = "kepco_api" /\ pc[w] = "items"
  BY DEF SearchInv, TakeItem, OriginOf
<1>2. Item(w) \in Listed /\ Item(w) \in Stations
  BY <1>1 DEF TakeItem, OriginOf, Item, TypeOK
<1>3. Item(w) \in Near(w, Stations)
  BY <1>2 DEF TakeItem, Near, Within
<1>4. {v \in Workers : pc'[v] # "idle"} = {v \in Workers : pc[v] # "idle"}
  BY <1>1 DEF TakeItem, Goto, TypeOK
<1>5. UNCHANGED <<stored, l1, l2, req, source, answer>>
      /\ found' = [found EXCEPT ![w] = found[w] \cup {Item(w)}]
  BY DEF TakeItem, caches
<1> QED BY <1>1, <1>2, <1>3, <1>4, <1>5, RequestOf DEF Nearby!TakeListed

LEMMA HandlerStep ==
  ASSUME SearchInv, OriginInv, NEW w \in Workers, Handle(w)
  PROVE  Nearby!Next \/ UNCHANGED Nearby!searchVars
<1>0. TypeOK /\ OriginOf(w) /\ FoundWithinRadius /\ RowsHeldBetweenItems
  BY DEF SearchInv, OriginInv
<1>1. CASE StartRequest(w)
  <2>1. Nearby!Ask(w)
    <3>1. {v \in Workers : pc'[v] # "idle"} = {v \in Workers : pc[v] # "idle"} \cup {w}
      BY <1>0, <1>1 DEF StartRequest, Goto, TypeOK
    <3> QED BY <1>1, <3>1 DEF StartRequest, Nearby!Ask, caches
  <2> QED BY <2>1 DEF Nearby!Next
<1>2. CASE GeocodingFails(w) \/ KepcoFails(w)
  <2>1. PICK src \in Errors : Finish(w, src, {}, {})
    BY <1>2 DEF GeocodingFails, KepcoFails, Fail, Errors
  <2>2. pc[w] # "idle" /\ source[w] = "none"
    BY <1>0, <1>2 DEF GeocodingFails, KepcoFails, OriginOf
  <2>3. Nearby!Fail(w)
    BY <1>0, <2>1, <2>2, RespondStep DEF Nearby!Fail
  <2> QED BY <2>3 DEF Nearby!Next
<1>3. CASE Reply(w)
  <2>1. pc[w] # "idle" /\ source[w] # "none" /\ rows[w] = {}
    BY <1>0, <1>3 DEF Reply, OriginOf, RowsHeldBetweenItems
  <2>2. Finish(w, source[w], found[w], {})
    BY <1>3, <2>1 DEF Reply
  <2>3. PICK src, S : src = source[w] /\ S = found[w]
    OBVIOUS
  <2>4. Nearby!Respond(w, src, S)
    BY <1>0, <2>1, <2>2, <2>3, RespondStep
  <2>5. Nearby!Answer(w)
    BY <2>1, <2>3, <2>4 DEF Nearby!Answer, Nearby!Respond
  <2> QED BY <2>5 DEF Nearby!Next
<1>4. ASSUME NEW label \in Labels \ {"idle"}, Skip(w, label), pc[w] # "idle"
      PROVE  UNCHANGED Nearby!searchVars
  BY <1>0, <1>4, UnseenStep DEF Skip, caches
<1>5. CASE ReadL1(w)
  <2>1. CASE l1[Key(w)] # Miss
    <3>1. l1[Key(w)] \in SUBSET Stations
      BY <1>0, <2>1, RequestOf DEF TypeOK
    <3>2. Nearby!FindCached(w)
      BY <1>0, <1>5, <2>1, <3>1, HitStep DEF ReadL1
    <3> QED BY <3>2 DEF Nearby!Next
  <2>2. CASE l1[Key(w)] = Miss
    BY <1>4, <1>5, <2>2 DEF ReadL1, Labels
  <2> QED BY <2>1, <2>2
<1>6. CASE ReadL2(w)
  <2>1. CASE l2[Key(w)] # Miss
    <3>1. l2[Key(w)] \in SUBSET Stations
      BY <1>0, <2>1, RequestOf DEF TypeOK
    <3>2. Nearby!FindCached(w)
      BY <1>0, <1>6, <2>1, <3>1, HitStep DEF ReadL2
    <3> QED BY <3>2 DEF Nearby!Next
  <2>2. CASE l2[Key(w)] = Miss
    BY <1>4, <1>6, <2>2 DEF ReadL2, Labels
  <2> QED BY <2>1, <2>2
<1>7. CASE CacheReadFails(w) \/ CountChargers(w) \/ FillFails(w)
  BY <1>4, <1>7 DEF CacheReadFails, CountChargers, FillFails, Labels
<1>8. CASE QueryStations(w)
  <2>1. PICK page \in PagesOf(req[w], Within(req[w].pos, Bucket(req[w].radius), stored)) :
          /\ found' = [found EXCEPT ![w] = Near(w, page)]
          /\ source' = [source EXCEPT ![w] = IF Near(w, page) = {} THEN "none" ELSE "database"]
          /\ Goto(w, IF Near(w, page) = {} THEN "kepco" ELSE "fill_l1")
    BY <1>8 DEF QueryStations
  <2>2. source[w] = "none" /\ found[w] = {} /\ pc[w] # "idle"
        /\ UNCHANGED <<stored, l1, l2, req, answer>>
    BY <1>0, <1>8 DEF QueryStations, OriginOf, caches
  <2>3. page \in SUBSET stored /\ stored \in SUBSET Stations
    BY <1>0 DEF PagesOf, Within, TypeOK
  <2>4. CASE Near(w, page) = {}
    <3>1. source' = source /\ found' = found /\ Goto(w, "kepco")
      BY <1>0, <2>1, <2>2, <2>4 DEF TypeOK
    <3> QED BY <1>0, <2>2, <3>1, UnseenStep DEF Labels
  <2>5. CASE Near(w, page) # {}
    <3>1. Nearby!Find(w, "database", Near(w, page))
      BY <1>0, <2>1, <2>2, <2>5, FindStep DEF Labels
    <3>2. Near(w, page) \in
            SUBSET (stored \cap [r \in Request |-> Within(r.pos, r.radius, Stations)][req[w]])
      <4>1. Near(w, page) = page \cap Near(w, Stations)
        BY <1>0, <2>3, NearIsReach
      <4>2. Near(w, Stations) = [r \in Request |-> Within(r.pos, r.radius, Stations)][req[w]]
        BY <1>0, RequestOf
      <4> QED BY <2>3, <4>1, <4>2
    <3>3. Nearby!FindStored(w)
      BY <2>5, <3>1, <3>2 DEF Nearby!FindStored
    <3> QED BY <3>3 DEF Nearby!Next
  <2> QED BY <2>4, <2>5
<1>9. CASE KepcoAnswers(w)
  <2>1. source[w] = "none" /\ found[w] = {} /\ pc[w] # "idle" /\ Goto(w, "items")
        /\ UNCHANGED <<stored, l1, l2, req, found, answer>>
        /\ source' = [source EXCEPT ![w] = "kepco_api"]
    BY <1>0, <1>9 DEF KepcoAnswers, OriginOf, caches
  <2>2. found' = [found EXCEPT ![w] = {}]
    BY <1>0, <2>1 DEF TypeOK
  <2>3. Nearby!AskKepco(w)
    BY <1>0, <2>1, <2>2, FindStep DEF Nearby!AskKepco, Labels
  <2> QED BY <2>3 DEF Nearby!Next
<1>10. CASE TakeItem(w)
  BY <1>0, <1>10, TakeStep DEF Nearby!Next
<1>11. CASE CommitItems(w)
  BY <1>0, <1>11, CommitStep DEF Nearby!Next
<1>12. CASE FillL1(w) \/ FillL2(w)
  BY <1>0, <1>12, FillStep DEF Nearby!Next
<1>13. CASE Checkout(w) \/ SkipItem(w)
  BY <1>0, <1>13, UnseenStep DEF Checkout, SkipItem, handler, caches
<1>14. CASE Upsert(w) \/ UpsertFails(w) \/ UpsertTimesOut(w)
  BY <1>0, <1>14, UnseenStep DEF Upsert, UpsertFails, UpsertTimesOut, NextItem, caches, Labels
<1>15. CASE Geocoded(w) \/ QueryFails(w)
  BY <1>0, <1>15, UnseenStep DEF Geocoded, QueryFails, caches, Labels
<1>16. CASE CommitFails(w)
  <2>1. PICK label \in Labels \ {"idle"} : pc[w] # "idle" /\ Goto(w, label)
    BY <1>16 DEF CommitFails, AfterItems, Labels
  <2> QED BY <1>0, <1>16, <2>1, UnseenStep DEF CommitFails, AfterItems, caches
<1> QED BY <1>1, <1>2, <1>3, <1>5, <1>6, <1>7, <1>8, <1>9, <1>10, <1>11, <1>12, <1>13,
           <1>14, <1>15, <1>16 DEF Handle

\* The search implements NearbySearch: for any number of handlers and whatever
\* fails, a request is answered with what it found in one place, or with an error
\* while it has found nothing.
THEOREM SearchImplementsNearby == Spec => SearchKeepsItsPromises
<1>1. Init => Nearby!Init
  <2> SUFFICES ASSUME Init
               PROVE  Nearby!Init
    OBVIOUS
  <2>1. req \in [Workers -> Request]
    BY DEF Init
  <2>2. {w \in Workers : pc[w] # "idle"} = {}
    BY DEF Init
  <2>3. [t \in {"cache", "persistent_cache"} |-> IF t = "cache" THEN l1 ELSE l2]
            = [t \in {"cache", "persistent_cache"} |-> [k \in Keys |-> Miss]]
    BY DEF Init
  <2> QED BY <2>1, <2>2, <2>3 DEF Init, Nearby!Init, Nearby!Tiers
<1>2. SearchInv /\ OriginInv /\ [Next]_vars => [Nearby!Next]_Nearby!searchVars
  <2> SUFFICES ASSUME SearchInv, OriginInv, [Next]_vars
               PROVE  Nearby!Next \/ UNCHANGED Nearby!searchVars
    OBVIOUS
  <2>0. TypeOK
    BY DEF SearchInv
  <2>1. CASE \E w \in Workers : Handle(w)
    BY <2>1, HandlerStep
  <2>2. CASE Expire
    <3> DEFINE cache == [t \in {"cache", "persistent_cache"} |-> IF t = "cache" THEN l1 ELSE l2]
    <3>1. PICK k \in Keys : \/ l1' = [l1 EXCEPT ![k] = Miss] /\ l2' = l2
                            \/ l2' = [l2 EXCEPT ![k] = Miss] /\ l1' = l1
      BY <2>2 DEF Expire
    <3>2. \E t \in {"cache", "persistent_cache"} :
            cache' = [cache EXCEPT ![t] = [cache[t] EXCEPT ![k] = Miss]]
      <4>1. CASE l1' = [l1 EXCEPT ![k] = Miss] /\ l2' = l2
        <5>1. cache' = [cache EXCEPT !["cache"] = [cache["cache"] EXCEPT ![k] = Miss]]
          BY <4>1
        <5> QED BY <5>1
      <4>2. CASE l2' = [l2 EXCEPT ![k] = Miss] /\ l1' = l1
        <5>1. cache' = [cache EXCEPT !["persistent_cache"] =
                            [cache["persistent_cache"] EXCEPT ![k] = Miss]]
          BY <4>2
        <5> QED BY <5>1
      <4> QED BY <3>1, <4>1, <4>2
    <3>3. UNCHANGED <<stored, pc, req, source, found, answer>>
      BY <2>2 DEF Expire, handler
    <3>4. Nearby!Forget
      BY <3>2, <3>3 DEF Nearby!Forget, Nearby!search, Nearby!Tiers
    <3> QED BY <3>4 DEF Nearby!Next
  <2>3. CASE LoadStation
    <3>1. PICK s \in Loadable : stored' = stored \cup {s}
      BY <2>3 DEF LoadStation
    <3>2. s \in Stations
      BY <3>1, SearchConstants DEF SearchConstants
    <3>3. UNCHANGED <<l1, l2, pc, req, source, found, answer>>
      BY <2>3 DEF LoadStation, caches, handler
    <3>4. Nearby!Load
      BY <3>1, <3>2, <3>3 DEF Nearby!Load, Nearby!search
    <3> QED BY <3>4 DEF Nearby!Next
  <2>4. CASE RedisFailsOrRecovers \/ UNCHANGED vars
    <3>1. UNCHANGED <<stored, l1, l2, pc, req, source, found, answer>>
      BY <2>4 DEF RedisFailsOrRecovers, vars, caches, handler
    <3> QED BY <3>1 DEF Nearby!searchVars, Nearby!search
  <2> QED BY <2>1, <2>2, <2>3, <2>4 DEF Next
<1> QED BY <1>1, <1>2, SearchInvariant, OriginInvHolds, PTL
        DEF Spec, Nearby!Spec, SearchKeepsItsPromises
=============================================================================
