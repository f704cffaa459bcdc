-------------------------- MODULE ChargerDetailProofs --------------------------
(***************************************************************************)
(* Proofs about ChargerDetail, for any number of handlers, stations and    *)
(* chargers, any KEPCO answers and any length of the time windows.         *)
(***************************************************************************)
EXTENDS ChargerDetail, WellFoundedInduction, TLAPS

-----------------------------------------------------------------------------
(* The newest status of a station                                          *)

LEMMA LeastNatural ==
  ASSUME NEW E \in SUBSET Nat, E # {}
  PROVE  \E n \in E : \A m \in E : n <= m
<1> DEFINE R == OpToRel(<, Nat)
<1>1. \A x, y \in Nat : x < y => <<x, y>> \in R
  BY DEF OpToRel
<1>2. IsWellFoundedOn(R, Nat)
  BY NatLessThanWellFounded
<1> HIDE DEF R
<1>3. \E n \in E : \A m \in E : ~ (<<m, n>> \in R)
  BY <1>2, WFMin, Zenon
<1>4. PICK n \in E : \A m \in E : ~ (<<m, n>> \in R)
  BY <1>3
<1>5. \A m \in E : ~ (m < n)
  BY <1>1, <1>4
<1>6. \A m \in E : n <= m
  BY <1>5
<1> QED BY <1>6

\* MAX finds a status of one of the station's chargers, if there is any.
LEMMA NewestIsStored ==
  ASSUME clock \in Nat, status \in [Chargers -> Times],
         \A c \in Chargers : status[c] <= clock, NEW s \in Stations
  PROVE  /\ Newest(s) \in Times
         /\ Newest(s) # Never => \E c \in ChargersOf(s) : status[c] = Newest(s)
<1> DEFINE T == {Never} \cup {status[c] : c \in ChargersOf(s)}
           E == {clock - x : x \in T \ {Never}}
<1>1. \A x \in T : x \in Times /\ x <= clock
  BY DEF ChargersOf, Never, Times
<1>2. E \in SUBSET Nat
  BY <1>1 DEF Times, Never
<1>3. \E x \in T : \A y \in T : y <= x
  <2>1. CASE E = {}
    BY <2>1 DEF Never
  <2>2. CASE E # {}
    <3>1. PICK n \in E : \A m \in E : n <= m
      <4> HIDE DEF E
      <4> QED BY <1>2, <2>2, LeastNatural
    <3>2. PICK x \in T \ {Never} : n = clock - x
      BY <3>1
    <3>3. \A y \in T \ {Never} : clock - x <= clock - y
      BY <3>1, <3>2
    <3>4. x \in Nat /\ \A y \in T \ {Never} : y \in Nat
      BY <1>1 DEF Times
    <3> HIDE DEF T
    <3>5. \A y \in T \ {Never} : y <= x
      BY <3>3, <3>4
    <3> QED BY <3>4, <3>5 DEF Never
  <2> QED BY <2>1, <2>2
<1>4. Newest(s) \in T
  BY <1>3 DEF Newest
<1> QED BY <1>1, <1>4

-----------------------------------------------------------------------------
(* The inductive invariant                                                 *)

\* What TypeOK says of one handler.
JobOK(j) == j \in JobType /\ (j.pc \in Writing => j.items # <<>>)

\* The states between the KEPCO answer and the commit.
Storing == Writing \cup {"items"}

\* A handler runs for MaxLatency at most, and reads the time while it runs.
Timely(j, now) ==
    /\ j.pc # "idle" => j.began <= now /\ now - j.began <= MaxLatency
    /\ j.pc \in Storing \cup {"api", "database"} => j.began <= j.now /\ j.now <= now

\* What its session holds: nothing when it starts a write, and chargers of the
\* station asked for only behind the row of the station.
Fitting(j, rows) ==
    /\ j.pc \notin Storing \/ j.known = "no" \/ j.pc \in {"add", "charger", "write_station"}
            => j.rows = {} /\ j.station = FALSE
    /\ j.pc = "write_both" => j.rows = {}
    /\ \A c \in j.rows : StationOf[c] = j.st /\ (j.station = TRUE \/ j.st \in rows)
    /\ j.id = "stored" \/ j.known = "row" => j.st \in rows
    /\ j.pc \in Writing => StationOf[Head(j.items).cp] = j.st /\ j.known # "no"

\* What it has to answer with.
Listing(j) ==
    /\ OfStation(j.st, j.list)
    /\ j.pc \notin Storing \cup {"api", "database"} => j.list = Nothing
    /\ j.pc \in Storing \cup {"api"} =>
            \A c \in Chargers : j.list[c] # Never => j.list[c] >= j.began
    /\ j.pc = "database" =>
            \E c \in Chargers : j.list[c] # Never /\ j.list[c] >= j.began - FreshWindow

\* The newest status it has read is still there, or was overwritten by a fetch
\* that is not much older than its request.
Judged(j, stat) ==
    /\ j.pc \in {"l3", "chargers"} /\ j.newest # Never =>
            \E c \in ChargersOf(j.st) :
                /\ stat[c] # Never
                /\ stat[c] >= j.newest \/ stat[c] >= j.began - MaxLatency
    /\ j.pc = "chargers" => j.newest # Never /\ j.newest >= j.began - FreshWindow
    /\ j.pc = "station" => j.newest = Never

Good(j, rows, stat, now) ==
    JobOK(j) /\ Timely(j, now) /\ Fitting(j, rows) /\ Listing(j) /\ Judged(j, stat)

\* A list that may be cached at the time ts.
Cacheable(list, ts) ==
    list # Nothing =>
        \E c \in Chargers : list[c] # Never /\ ts - list[c] <= FreshWindow + MaxLatency

DetailInv ==
    /\ \A c \in Chargers : status[c] # Never => StationOf[c] \in stationRow
    /\ \A c \in Chargers : status[c] <= clock
    /\ \A w \in Workers : Good(job[w], stationRow, status, clock)
    /\ \A s \in Stations : Cacheable(l3[s].list, l3[s].ts)
    /\ ListsAreOfTheirStation
    /\ NewestIsRecent

LEMMA GoodJob ==
  ASSUME DetailInv, NEW w \in Workers
  PROVE  /\ Good(job[w], stationRow, status, clock)
         /\ job[w] \in JobType /\ Timely(job[w], clock) /\ Fitting(job[w], stationRow)
         /\ Listing(job[w]) /\ Judged(job[w], status)
BY DEF DetailInv, Good, JobOK

LEMMA DetailNumbers ==
  /\ FreshWindow \in Nat /\ DetailTTL \in Nat /\ MaxLatency \in Nat /\ MaxClock \in Nat
  /\ MaxLatency <= FreshWindow
BY DetailConstants DEF DetailConstants

LEMMA NothingIsListed ==
  /\ Nothing \in Lists
  /\ \A c \in Chargers : Nothing[c] = Never
  /\ \A s \in Stations : OfStation(s, Nothing)
  /\ \A ts : Cacheable(Nothing, ts)
BY DEF Nothing, Lists, Times, Never, OfStation, Cacheable

LEMMA IdleFields ==
  /\ Idle.pc = "idle" /\ Idle.known = "no" /\ Idle.newest = Never /\ Idle.list = Nothing
  /\ Idle.id = "none" /\ Idle.station = FALSE /\ Idle.rows = {} /\ Idle.items = <<>>
  /\ Idle \in JobType
<1>1. (CHOOSE s \in Stations : TRUE) \in Stations
  BY DetailConstants DEF DetailConstants
<1>2. Nothing \in Lists
  BY NothingIsListed
<1> QED BY <1>1, <1>2 DEF Idle, JobType, Labels, Times, Never

LEMMA IdleGood ==
  ASSUME NEW rows, NEW stat, NEW now \in Nat
  PROVE  Good(Idle, rows, stat, now)
<1>1. Idle.st \in Stations
  BY IdleFields DEF JobType
<1>2. OfStation(Idle.st, Idle.list)
  BY <1>1, IdleFields, NothingIsListed
<1> QED BY <1>1, <1>2, IdleFields, NothingIsListed
        DEF Good, JobOK, Timely, Fitting, Listing, Judged, Storing, Writing

-----------------------------------------------------------------------------
(* How a job changes                                                       *)

\* k is about the same request as j, and has the same to answer with.
SameRequest(k, j) ==
    /\ k \in JobType /\ k.st = j.st /\ k.began = j.began /\ k.newest = j.newest
    /\ k.now = j.now /\ k.list = j.list

LEMMA RolledBackFields ==
  ASSUME NEW j \in JobType
  PROVE  LET k == RolledBack(j) IN
         /\ SameRequest(k, j) /\ k.pc = j.pc /\ k.known = j.known /\ k.items = j.items
         /\ k.id = j.id /\ k.bound = j.bound /\ k.rows = {} /\ k.station = FALSE
BY DEF RolledBack, JobType, SameRequest

LEMMA ToWriteFields ==
  ASSUME NEW j \in JobType, j.items # <<>>, NEW id \in {"none", "stored", "pending"}
  PROVE  LET k == ToWrite(j, id) IN
         /\ SameRequest(k, j) /\ k.known = j.known
         /\ k.pc = "items" \/ (k.pc \in {"write_station", "charger"} /\ k.items = j.items)
         /\ k.id \in {id, "none"} /\ k.rows = {} /\ k.station = FALSE
<1> DEFINE bound == Head(j.items).stamped \/ j.known # "row" \/ j.bound
           r == [RolledBack(j) EXCEPT !.bound = bound, !.id = id]
<1>1. j.items \in Seq(ItemType) /\ Tail(j.items) \in Seq(ItemType)
  BY DEF JobType
<1>2. bound \in BOOLEAN
  <2>1. bound = TRUE \/ bound = FALSE
    OBVIOUS
  <2> QED BY <2>1
<1> HIDE DEF bound
<1>3. /\ SameRequest(r, j) /\ r.pc = j.pc /\ r.known = j.known /\ r.items = j.items
      /\ r.id = id /\ r.rows = {} /\ r.station = FALSE
  <2>1. ASSUME NEW x \in JobType
        PROVE  LET y == [x EXCEPT !.bound = bound, !.id = id] IN
               /\ SameRequest(y, x) /\ y.pc = x.pc /\ y.known = x.known
               /\ y.items = x.items /\ y.id = id /\ y.rows = x.rows
               /\ y.station = x.station
    BY <1>2 DEF JobType, SameRequest
  <2> DEFINE q == RolledBack(j)
  <2>2. /\ q \in JobType /\ SameRequest(q, j) /\ q.pc = j.pc /\ q.known = j.known
        /\ q.items = j.items /\ q.rows = {} /\ q.station = FALSE
    BY RolledBackFields DEF SameRequest
  <2>3. r = [q EXCEPT !.bound = bound, !.id = id]
    OBVIOUS
  <2> HIDE DEF q, r
  <2>4. /\ SameRequest(r, q) /\ r.pc = q.pc /\ r.known = q.known /\ r.items = q.items
        /\ r.id = id /\ r.rows = q.rows /\ r.station = q.station
    BY <2>1, <2>2, <2>3
  <2>5. SameRequest(r, j)
    BY <2>2, <2>4 DEF SameRequest
  <2> QED BY <2>2, <2>4, <2>5
<1> HIDE DEF r
<1>4. ASSUME NEW x \in JobType, NEW label \in Labels
      PROVE  LET y == [x EXCEPT !.pc = label] IN
             /\ SameRequest(y, x) /\ y.pc = label /\ y.known = x.known
             /\ y.items = x.items /\ y.id = x.id /\ y.rows = x.rows
             /\ y.station = x.station
  BY DEF JobType, SameRequest
<1>5. LET y == [r EXCEPT !.pc = "items", !.items = Tail(j.items), !.id = "none"] IN
      /\ SameRequest(y, r) /\ y.pc = "items" /\ y.known = r.known /\ y.id = "none"
      /\ y.rows = r.rows /\ y.station = r.station
  BY <1>1, <1>3 DEF JobType, SameRequest, Labels
<1>6. /\ r \in JobType /\ "write_station" \in Labels /\ "charger" \in Labels
  BY <1>3 DEF SameRequest, Labels
<1>7. ToWrite(j, id) = IF id = "none" THEN [r EXCEPT !.pc = "write_station"]
                       ELSE IF bound THEN [r EXCEPT !.pc = "charger"]
                       ELSE [r EXCEPT !.pc = "items", !.items = Tail(j.items), !.id = "none"]
  BY DEF ToWrite, r, bound
<1>8. CASE id = "none"
  <2>1. ToWrite(j, id) = [r EXCEPT !.pc = "write_station"]
    BY <1>7, <1>8
  <2> QED BY <1>3, <1>4, <1>6, <2>1 DEF SameRequest
<1>9. CASE id # "none" /\ bound
  <2>1. ToWrite(j, id) = [r EXCEPT !.pc = "charger"]
    BY <1>7, <1>9
  <2> QED BY <1>3, <1>4, <1>6, <2>1 DEF SameRequest
<1>10. CASE id # "none" /\ ~bound
  <2>1. ToWrite(j, id) = [r EXCEPT !.pc = "items", !.items = Tail(j.items), !.id = "none"]
    BY <1>7, <1>10
  <2> QED BY <1>3, <1>5, <2>1 DEF SameRequest
<1> QED BY <1>8, <1>9, <1>10

\* As long as the handler stores items, only what its session holds can be wrong.
LEMMA StoringGood ==
  ASSUME NEW j \in JobType, NEW rows, NEW stat, NEW now \in Nat,
         j.pc \in Storing, Good(j, rows, stat, now),
         NEW k, SameRequest(k, j), k.pc \in Storing, k.pc \in Writing => k.items # <<>>,
         Fitting(k, rows)
  PROVE  Good(k, rows, stat, now)
<1>1. /\ j.pc \notin {"idle", "api", "database", "l3", "chargers"}
      /\ k.pc \notin {"idle", "api", "database", "station", "l3", "chargers"}
  BY DEF Storing, Writing
<1>2. JobOK(k) /\ Timely(k, now)
  BY <1>1 DEF Good, SameRequest, JobOK, Timely
<1>3. Listing(k) /\ Judged(k, stat)
  BY <1>1 DEF Good, SameRequest, Listing, Judged
<1> QED BY <1>2, <1>3 DEF Good

LEMMA ToWriteGood ==
  ASSUME NEW j \in JobType, NEW rows, NEW stat, NEW now \in Nat,
         NEW i, j.pc \in Storing, Good(i, rows, stat, now), i \in JobType, i.pc \in Storing,
         SameRequest(j, i), j.items # <<>>,
         NEW id \in {"none", "stored", "pending"},
         id = "stored" \/ j.known = "row" => j.st \in rows,
         StationOf[Head(j.items).cp] = j.st, j.known # "no"
  PROVE  Good(ToWrite(j, id), rows, stat, now)
<1> DEFINE k == ToWrite(j, id)
<1>1. /\ SameRequest(k, j) /\ k.known = j.known
      /\ k.pc = "items" \/ (k.pc \in {"write_station", "charger"} /\ k.items = j.items)
      /\ k.id \in {id, "none"} /\ k.rows = {} /\ k.station = FALSE
  BY ToWriteFields
<1> HIDE DEF k
<1>2. SameRequest(k, i) /\ k.pc \in Storing /\ (k.pc \in Writing => k.items # <<>>)
  BY <1>1 DEF SameRequest, Storing, Writing
<1>3. Fitting(k, rows)
  BY <1>1, <1>2 DEF Fitting, SameRequest, Storing, Writing
<1>4. Good(k, rows, stat, now)
  BY <1>2, <1>3, StoringGood
<1> QED BY <1>4 DEF k

\* What others may do to the tables and the time, under a job.
LEMMA GoodStays ==
  ASSUME NEW j, NEW rows, NEW stat, NEW now \in Nat, Good(j, rows, stat, now),
         NEW rows2, NEW stat2, NEW now2 \in Nat, now <= now2, rows \subseteq rows2,
         j.pc # "idle" => now2 - j.began <= MaxLatency,
         stat \in [Chargers -> Times], stat2 \in [Chargers -> Times],
         \A c \in Chargers : stat2[c] = stat[c]
                                \/ (stat2[c] # Never /\ stat2[c] >= now - MaxLatency)
  PROVE  Good(j, rows2, stat2, now2)
<1>1. JobOK(j) /\ Fitting(j, rows2) /\ Listing(j)
  BY DEF Good, Fitting
<1>2. j.began \in Nat /\ j.now \in Nat /\ MaxLatency \in Nat /\ j.st \in Stations
  BY DetailNumbers DEF Good, JobOK, JobType
<1>3. Timely(j, now2)
  BY <1>2 DEF Good, Timely
<1>4. Judged(j, stat2)
  <2>1. ASSUME j.pc \in {"l3", "chargers"}, NEW c \in ChargersOf(j.st), stat[c] # Never,
               stat[c] >= j.newest \/ stat[c] >= j.began - MaxLatency
        PROVE  /\ stat2[c] # Never
               /\ stat2[c] >= j.newest \/ stat2[c] >= j.began - MaxLatency
    <3>1. c \in Chargers /\ stat2[c] \in Int
      BY DEF ChargersOf, Times, Never
    <3>2. j.began <= now
      BY <2>1 DEF Good, Timely
    <3>3. CASE stat2[c] = stat[c]
      BY <2>1, <3>3
    <3>4. CASE stat2[c] # Never /\ stat2[c] >= now - MaxLatency
      BY <1>2, <3>1, <3>2, <3>4
    <3> QED BY <3>1, <3>3, <3>4
  <2>2. j.pc \in {"l3", "chargers"} /\ j.newest # Never =>
            \E c \in ChargersOf(j.st) :
                /\ stat2[c] # Never
                /\ stat2[c] >= j.newest \/ stat2[c] >= j.began - MaxLatency
    BY <2>1 DEF Good, Judged
  <2> QED BY <2>2 DEF Good, Judged
<1> QED BY <1>1, <1>3, <1>4 DEF Good

-----------------------------------------------------------------------------
(* Kinds of steps                                                          *)

LEMMA JobStep ==
  ASSUME TypeOK, DetailInv, NEW w \in Workers, NEW k, Become(w, k), OnlyJob,
         Good(k, stationRow, status, clock)
  PROVE  TypeOK' /\ DetailInv'
<1>1. /\ UNCHANGED <<clock, stationRow, status, l3, redisUp, answer>>
      /\ job' = [job EXCEPT ![w] = k]
  BY DEF OnlyJob, Become
<1>2. job \in [Workers -> JobType] /\ \A v \in Workers : job[v].pc \in Writing => job[v].items # <<>>
  BY DEF TypeOK
<1>3. \A v \in Workers : job'[v] = IF v = w THEN k ELSE job[v]
  BY <1>1, <1>2
<1>4. \A v \in Workers : Good(job'[v], stationRow, status, clock)
  BY <1>3 DEF DetailInv
<1>5. job' \in [Workers -> JobType]
  BY <1>1, <1>2, <1>4 DEF Good, JobOK
<1>6. TypeOK'
  BY <1>1, <1>4, <1>5 DEF TypeOK, Good, JobOK
<1>7. ListsAreOfTheirStation' /\ NewestIsRecent'
  BY <1>1 DEF DetailInv, ListsAreOfTheirStation, NewestIsRecent
<1> QED BY <1>1, <1>4, <1>6, <1>7 DEF DetailInv

\* An answer, with what goes to the detail cache.
LEMMA AnswerStep ==
  ASSUME TypeOK, DetailInv, NEW w \in Workers, NEW src \in Sources, NEW list \in Lists,
         Answer(w, src, list), UNCHANGED <<stationRow, status>>,
         OfStation(job[w].st, list),
         list # Nothing =>
            \E c \in Chargers : list[c] # Never /\ clock - list[c] <= MaxAge,
         \/ UNCHANGED l3
         \/ \E ts \in Nat : /\ l3' = [l3 EXCEPT ![job[w].st] = [ts |-> ts, list |-> list]]
                            /\ Cacheable(list, ts)
  PROVE  TypeOK' /\ DetailInv'
<1> DEFINE a == [source |-> src, st |-> job[w].st, list |-> list, sent |-> clock]
<1>1. /\ UNCHANGED <<clock, stationRow, status, redisUp>> /\ job' = [job EXCEPT ![w] = Idle]
      /\ answer' = [answer EXCEPT ![w] = a] /\ clock \in Nat
  BY DEF Answer, Become, TypeOK
<1>2. job[w].st \in Stations
  BY GoodJob DEF JobType
<1>3. /\ a \in [source : Sources, st : Stations, list : Lists, sent : Nat]
      /\ a.st = job[w].st /\ a.list = list /\ a.sent = clock
  BY <1>1, <1>2
<1> HIDE DEF a
<1>4. job \in [Workers -> JobType]
      /\ answer \in [Workers -> [source : Sources, st : Stations, list : Lists, sent : Nat]]
      /\ l3 \in [Stations -> [ts : Times, list : Lists]]
  BY DEF TypeOK
<1>5. \A v \in Workers : job'[v] = IF v = w THEN Idle ELSE job[v]
  BY <1>1, <1>4
<1>6. \A v \in Workers : answer'[v] = IF v = w THEN a ELSE answer[v]
  BY <1>1, <1>4
<1>7. \A v \in Workers : Good(job'[v], stationRow, status, clock)
  BY <1>1, <1>5, IdleGood DEF DetailInv
<1>8. job' \in [Workers -> JobType]
      /\ answer' \in [Workers -> [source : Sources, st : Stations, list : Lists, sent : Nat]]
  BY <1>1, <1>3, <1>4, <1>7 DEF Good, JobOK
<1>9. /\ l3' \in [Stations -> [ts : Times, list : Lists]]
      /\ \A s \in Stations : Cacheable(l3'[s].list, l3'[s].ts) /\ OfStation(s, l3'[s].list)
  <2>1. CASE UNCHANGED l3
    BY <1>4, <2>1 DEF DetailInv, ListsAreOfTheirStation
  <2>2. ASSUME NEW ts \in Nat, Cacheable(list, ts),
               l3' = [l3 EXCEPT ![job[w].st] = [ts |-> ts, list |-> list]]
        PROVE  <1>9!1 /\ <1>9!2
    <3> DEFINE e == [ts |-> ts, list |-> list]
    <3>1. e \in [ts : Times, list : Lists] /\ e.ts = ts /\ e.list = list
      BY DEF Times
    <3>2. l3' = [l3 EXCEPT ![job[w].st] = e]
      BY <2>2
    <3> HIDE DEF e
    <3>3. \A s \in Stations : l3'[s] = IF s = job[w].st THEN e ELSE l3[s]
      BY <1>4, <3>2
    <3>4. l3' \in [Stations -> [ts : Times, list : Lists]]
      BY <1>4, <3>1, <3>2
    <3>5. \A s \in Stations : Cacheable(l3'[s].list, l3'[s].ts) /\ OfStation(s, l3'[s].list)
      BY <2>2, <3>1, <3>3 DEF DetailInv, ListsAreOfTheirStation
    <3> QED BY <3>4, <3>5
  <2> QED BY <2>1, <2>2
<1>10. TypeOK'
  BY <1>1, <1>7, <1>8, <1>9 DEF TypeOK, Good, JobOK
<1>11. ListsAreOfTheirStation'
  BY <1>3, <1>6, <1>9 DEF DetailInv, ListsAreOfTheirStation
<1>12. NewestIsRecent'
  BY <1>3, <1>6 DEF DetailInv, NewestIsRecent
<1> QED BY <1>1, <1>7, <1>9, <1>10, <1>11, <1>12 DEF DetailInv

LEMMA FailStep ==
  ASSUME TypeOK, DetailInv, NEW w \in Workers, NEW src \in Sources, Fail(w, src)
  PROVE  TypeOK' /\ DetailInv'
<1>1. job[w].st \in Stations
  BY GoodJob DEF JobType
<1>2. OfStation(job[w].st, Nothing) /\ Nothing \in Lists
  BY <1>1, NothingIsListed
<1>3. Answer(w, src, Nothing) /\ UNCHANGED <<stationRow, status>> /\ UNCHANGED l3
  BY DEF Fail
<1> QED BY <1>2, <1>3, AnswerStep

-----------------------------------------------------------------------------
(* Up to the KEPCO answer                                                  *)

LEMMA GotoFields ==
  ASSUME NEW j \in JobType, NEW label \in Labels
  PROVE  LET k == [j EXCEPT !.pc = label] IN
         /\ SameRequest(k, j) /\ k.pc = label /\ k.known = j.known /\ k.items = j.items
         /\ k.id = j.id /\ k.rows = j.rows /\ k.station = j.station
BY DEF JobType, SameRequest

LEMMA StartStep ==
  ASSUME TypeOK, DetailInv, NEW w \in Workers, StartRequest(w)
  PROVE  TypeOK' /\ DetailInv'
<1>1. PICK s \in Stations :
        Become(w, [Idle EXCEPT !.pc = "station", !.st = s, !.began = clock])
  BY DEF StartRequest
<1> DEFINE k == [Idle EXCEPT !.pc = "station", !.st = s, !.began = clock]
           a == [source |-> "none", st |-> job[w].st, list |-> Nothing, sent |-> 0]
<1>2. /\ UNCHANGED <<clock, stationRow, status, l3, redisUp>>
      /\ answer' = [answer EXCEPT ![w] = a] /\ job' = [job EXCEPT ![w] = k]
      /\ clock \in Nat
  BY <1>1 DEF StartRequest, Become, TypeOK
<1>3. /\ k \in JobType /\ k.pc = "station" /\ k.st = s /\ k.began = clock /\ k.known = "no"
      /\ k.newest = Never /\ k.list = Nothing /\ k.id = "none" /\ k.station = FALSE
      /\ k.rows = {}
  <2>1. ASSUME NEW x \in JobType
        PROVE  LET y == [x EXCEPT !.pc = "station", !.st = s, !.began = clock] IN
               /\ y \in JobType /\ y.pc = "station" /\ y.st = s /\ y.began = clock
               /\ y.known = x.known /\ y.newest = x.newest /\ y.list = x.list /\ y.id = x.id
               /\ y.station = x.station /\ y.rows = x.rows
    BY <1>2 DEF JobType, Labels
  <2> QED BY <2>1, IdleFields
<1>4. /\ a \in [source : Sources, st : Stations, list : Lists, sent : Nat]
      /\ a.st = job[w].st /\ a.list = Nothing
  BY GoodJob, NothingIsListed DEF JobType, Sources
<1> HIDE DEF k, a
<1>5. Good(k, stationRow, status, clock)
  <2>1. OfStation(k.st, k.list)
    BY <1>3, NothingIsListed
  <2>2. k.pc \notin Storing \cup {"idle", "api", "database", "l3", "chargers"}
        /\ k.pc \notin Writing
    BY <1>3 DEF Storing, Writing
  <2>3. JobOK(k) /\ Timely(k, clock)
    BY <1>2, <1>3, <2>2, DetailNumbers DEF JobOK, Timely
  <2>4. Fitting(k, stationRow)
    BY <1>3, <2>2 DEF Fitting
  <2>5. Listing(k) /\ Judged(k, status)
    BY <1>3, <2>1, <2>2 DEF Listing, Judged
  <2> QED BY <2>3, <2>4, <2>5 DEF Good
<1>6. job \in [Workers -> JobType]
      /\ answer \in [Workers -> [source : Sources, st : Stations, list : Lists, sent : Nat]]
  BY DEF TypeOK
<1>7. \A v \in Workers : /\ job'[v] = IF v = w THEN k ELSE job[v]
                         /\ answer'[v] = IF v = w THEN a ELSE answer[v]
  BY <1>2, <1>6
<1>8. \A v \in Workers : Good(job'[v], stationRow, status, clock)
  BY <1>5, <1>7 DEF DetailInv
<1>9. job' \in [Workers -> JobType]
      /\ answer' \in [Workers -> [source : Sources, st : Stations, list : Lists, sent : Nat]]
  BY <1>2, <1>3, <1>4, <1>6
<1>10. TypeOK'
  BY <1>2, <1>8, <1>9 DEF TypeOK, Good, JobOK
<1>11. ListsAreOfTheirStation'
  <2>1. OfStation(a.st, a.list)
    BY <1>4, GoodJob, NothingIsListed DEF JobType
  <2> QED BY <1>2, <1>7, <2>1 DEF DetailInv, ListsAreOfTheirStation
<1>12. NewestIsRecent'
  BY <1>4, <1>7 DEF DetailInv, NewestIsRecent
<1> QED BY <1>2, <1>8, <1>10, <1>11, <1>12 DEF DetailInv

\* A handler that has not started to store holds nothing but what it has read.
LEMMA ReadingGood ==
  ASSUME TypeOK, DetailInv, NEW w \in Workers,
         job[w].pc \in {"station", "l3", "chargers", "kepco"},
         NEW k, k \in JobType, k.st = job[w].st, k.began = job[w].began,
         k.pc \in {"l3", "chargers", "kepco"}, k.list = job[w].list, k.id = job[w].id,
         k.rows = job[w].rows, k.station = job[w].station,
         k.known = "row" => k.st \in stationRow,
         Judged(k, status)
  PROVE  Good(k, stationRow, status, clock)
<1>1. /\ job[w].pc \notin Storing \cup {"idle", "api", "database"}
      /\ k.pc \notin Storing \cup {"idle", "api", "database"} /\ k.pc \notin Writing
  BY DEF Storing, Writing
<1>2. JobOK(k) /\ Timely(k, clock)
  BY <1>1, GoodJob DEF JobOK, Timely
<1>3. Fitting(k, stationRow)
  BY <1>1, GoodJob DEF Fitting
<1>4. Listing(k)
  BY <1>1, GoodJob DEF Listing
<1> QED BY <1>2, <1>3, <1>4 DEF Good

LEMMA QueryStationStep ==
  ASSUME TypeOK, DetailInv, NEW w \in Workers, QueryStation(w)
  PROVE  TypeOK' /\ DetailInv'
<1> DEFINE known == IF job[w].st \in stationRow THEN "row" ELSE "no"
           newest == IF job[w].st \in stationRow THEN Newest(job[w].st) ELSE Never
           k == [job[w] EXCEPT !.pc = "l3", !.known = known, !.newest = newest]
<1>1. job[w].pc = "station" /\ OnlyJob /\ Become(w, k)
  BY DEF QueryStation, At
<1>2. job[w] \in JobType /\ job[w].st \in Stations
  BY GoodJob DEF JobType
<1>3. /\ Newest(job[w].st) \in Times
      /\ Newest(job[w].st) # Never =>
            \E c \in ChargersOf(job[w].st) : status[c] = Newest(job[w].st)
  BY <1>2, NewestIsStored DEF TypeOK, DetailInv
<1>4. /\ known \in {"no", "row", "item"} /\ newest \in Times
      /\ known = "row" => job[w].st \in stationRow
      /\ newest # Never => \E c \in ChargersOf(job[w].st) : status[c] = newest
  BY <1>3 DEF Times
<1> HIDE DEF known, newest
<1>5. /\ k \in JobType /\ k.pc = "l3" /\ k.st = job[w].st /\ k.began = job[w].began
      /\ k.list = job[w].list /\ k.id = job[w].id /\ k.rows = job[w].rows
      /\ k.station = job[w].station /\ k.known = known /\ k.newest = newest
  BY <1>2, <1>4 DEF JobType, Labels
<1> HIDE DEF k
<1>6. Judged(k, status)
  <2>1. ASSUME newest # Never
        PROVE  \E c \in ChargersOf(k.st) : status[c] # Never /\ status[c] >= k.newest
    <3>1. PICK c \in ChargersOf(job[w].st) : status[c] = newest
      BY <1>4, <2>1
    <3>2. newest >= newest
      BY <1>4 DEF Times, Never
    <3> QED BY <1>5, <2>1, <3>1, <3>2
  <2> QED BY <1>5, <2>1 DEF Judged
<1>7. Good(k, stationRow, status, clock)
  BY <1>1, <1>4, <1>5, <1>6, ReadingGood
<1> QED BY <1>1, <1>7, JobStep

LEMMA ReadStep ==
  ASSUME TypeOK, DetailInv, NEW w \in Workers, QueryStationFails(w) \/ MissCache(w)
  PROVE  TypeOK' /\ DetailInv'
<1>1. PICK label \in {"l3", "chargers", "kepco"} :
        /\ Goto(w, label) /\ OnlyJob /\ job[w].pc \in {"station", "l3"}
        /\ label = "l3" => job[w].pc = "station"
        /\ label = "chargers" => job[w].pc = "l3" /\ RecentlyStored(w)
  BY DEF QueryStationFails, MissCache, At
<1> DEFINE k == [job[w] EXCEPT !.pc = label]
<1>2. job[w] \in JobType /\ label \in Labels
  BY GoodJob DEF Labels
<1>3. /\ SameRequest(k, job[w]) /\ k.pc = label /\ k.known = job[w].known
      /\ k.id = job[w].id /\ k.rows = job[w].rows /\ k.station = job[w].station
  BY <1>2, GotoFields
<1>4. Become(w, k)
  BY <1>1 DEF Goto
<1> HIDE DEF k
<1>5. Judged(k, status)
  <2>1. CASE label \in {"l3", "kepco"}
    BY <1>1, <1>3, <2>1, GoodJob DEF Judged, SameRequest
  <2>2. CASE label = "chargers"
    <3>1. clock \in Nat /\ job[w].newest \in Times /\ job[w].began \in Nat
      BY <1>2 DEF TypeOK, JobType
    <3>2. job[w].began <= clock
      BY <1>1, GoodJob DEF Timely
    <3>3. job[w].newest # Never /\ clock - job[w].newest <= FreshWindow
      BY <1>1, <2>2 DEF RecentlyStored
    <3>4. job[w].newest >= job[w].began - FreshWindow
      BY <3>1, <3>2, <3>3, DetailNumbers DEF Times, Never
    <3> QED BY <1>1, <1>3, <2>2, <3>3, <3>4, GoodJob DEF Judged, SameRequest
  <2> QED BY <2>1, <2>2
<1>6. k.known = "row" => k.st \in stationRow
  BY <1>3, GoodJob DEF Fitting, SameRequest
<1>7. Good(k, stationRow, status, clock)
  BY <1>1, <1>3, <1>5, <1>6, ReadingGood DEF SameRequest
<1> QED BY <1>1, <1>4, <1>7, JobStep

LEMMA CachedAnswerStep ==
  ASSUME TypeOK, DetailInv, NEW w \in Workers, AnswerFromCache(w)
  PROVE  TypeOK' /\ DetailInv'
<1>1. /\ Answer(w, "cache", Entry(w).list) /\ UNCHANGED <<stationRow, status, l3>>
      /\ clock - Entry(w).ts <= DetailTTL /\ job[w].st \in Stations /\ clock \in Nat
  BY GoodJob DEF AnswerFromCache, CacheHit, JobType, TypeOK
<1>2. Entry(w) \in [ts : Times, list : Lists]
  BY <1>1 DEF Entry, TypeOK
<1>3. OfStation(job[w].st, Entry(w).list) /\ Cacheable(Entry(w).list, Entry(w).ts)
  BY <1>1 DEF Entry, DetailInv, ListsAreOfTheirStation
<1>4. Entry(w).list \in Lists /\ Entry(w).ts \in Int
  BY <1>2 DEF Times, Never
<1>5. \A c \in Chargers : Entry(w).list[c] \in Int
  BY <1>4 DEF Lists, Times, Never
<1>6. Entry(w).list # Nothing =>
        \E c \in Chargers : Entry(w).list[c] # Never /\ clock - Entry(w).list[c] <= MaxAge
  BY <1>1, <1>3, <1>4, <1>5, DetailNumbers DEF Cacheable, MaxAge
<1> QED BY <1>1, <1>3, <1>4, <1>6, AnswerStep DEF Sources

LEMMA QueryChargersStep ==
  ASSUME TypeOK, DetailInv, NEW w \in Workers, QueryChargers(w)
  PROVE  TypeOK' /\ DetailInv'
<1> DEFINE list == Stored(job[w].st)
           k == [job[w] EXCEPT !.pc = "database", !.list = list, !.now = clock]
<1>1. job[w].pc = "chargers" /\ OnlyJob /\ Become(w, k)
  BY DEF QueryChargers, At
<1>2. job[w] \in JobType /\ job[w].st \in Stations /\ clock \in Nat
  BY GoodJob DEF JobType, TypeOK
<1>3. /\ list \in Lists /\ OfStation(job[w].st, list)
      /\ \A c \in ChargersOf(job[w].st) : c \in Chargers /\ list[c] = status[c]
  BY DEF Stored, Lists, OfStation, ChargersOf, TypeOK, Times
<1> HIDE DEF list
<1>4. /\ k \in JobType /\ k.pc = "database" /\ k.st = job[w].st /\ k.began = job[w].began
      /\ k.list = list /\ k.id = job[w].id /\ k.rows = job[w].rows /\ k.now = clock
      /\ k.station = job[w].station /\ k.known = job[w].known
  BY <1>2, <1>3 DEF JobType, Labels
<1> HIDE DEF k
<1>5. \E c \in Chargers : list[c] # Never /\ list[c] >= job[w].began - FreshWindow
  <2>1. PICK c \in ChargersOf(job[w].st) :
            /\ status[c] # Never
            /\ status[c] >= job[w].newest \/ status[c] >= job[w].began - MaxLatency
    BY <1>1, GoodJob DEF Judged
  <2>2. job[w].newest >= job[w].began - FreshWindow
    BY <1>1, GoodJob DEF Judged
  <2>3. job[w].began \in Nat /\ job[w].newest \in Int /\ status[c] \in Int
    BY <1>2, <1>3 DEF JobType, TypeOK, Times, Never
  <2>4. status[c] >= job[w].began - FreshWindow
    BY <2>1, <2>2, <2>3, DetailNumbers
  <2> QED BY <1>3, <2>1, <2>4
<1>6. Timely(k, clock) /\ JobOK(k)
  BY <1>1, <1>2, <1>4, GoodJob DEF Timely, JobOK, Writing
<1>7. Fitting(k, stationRow)
  BY <1>1, <1>4, GoodJob DEF Fitting, Storing, Writing
<1>8. Listing(k) /\ Judged(k, status)
  BY <1>3, <1>4, <1>5 DEF Listing, Judged, Storing, Writing
<1>9. Good(k, stationRow, status, clock)
  BY <1>6, <1>7, <1>8 DEF Good
<1> QED BY <1>1, <1>9, JobStep

LEMMA KepcoStep ==
  ASSUME TypeOK, DetailInv, NEW w \in Workers, KepcoAnswers(w)
  PROVE  TypeOK' /\ DetailInv'
<1>1. PICK payload \in Payloads :
        Become(w, [job[w] EXCEPT !.pc = "items", !.items = payload, !.now = clock])
  BY DEF KepcoAnswers
<1> DEFINE k == [job[w] EXCEPT !.pc = "items", !.items = payload, !.now = clock]
<1>2. /\ job[w] \in JobType /\ job[w].pc = "kepco" /\ OnlyJob /\ clock \in Nat
      /\ payload \in Seq(ItemType)
  BY GoodJob, DetailConstants DEF KepcoAnswers, At, TypeOK, DetailConstants
<1>3. /\ k \in JobType /\ k.pc = "items" /\ k.st = job[w].st /\ k.began = job[w].began
      /\ k.list = job[w].list /\ k.id = job[w].id /\ k.rows = job[w].rows /\ k.now = clock
      /\ k.station = job[w].station /\ k.known = job[w].known
  BY <1>2 DEF JobType, Labels
<1> HIDE DEF k
<1>4. k.list = Nothing
  BY <1>2, <1>3, GoodJob DEF Listing, Storing, Writing
<1>5. Timely(k, clock) /\ JobOK(k)
  BY <1>2, <1>3, GoodJob DEF Timely, JobOK, Writing
<1>6. Fitting(k, stationRow)
  BY <1>2, <1>3, GoodJob DEF Fitting, Storing, Writing
<1>7. OfStation(k.st, k.list)
  BY <1>3, <1>4, NothingIsListed DEF JobType
<1>8. Listing(k) /\ Judged(k, status)
  BY <1>3, <1>4, <1>7, NothingIsListed DEF Listing, Judged, Storing
<1>9. Good(k, stationRow, status, clock)
  BY <1>5, <1>6, <1>8 DEF Good
<1> QED BY <1>1, <1>2, <1>9, JobStep DEF k

-----------------------------------------------------------------------------
(* Storing the items                                                       *)

LEMMA StoreStep ==
  ASSUME TypeOK, DetailInv, NEW w \in Workers, job[w].pc \in Storing, OnlyJob,
         NEW k, Become(w, k), SameRequest(k, job[w]), k.pc \in Storing,
         k.pc \in Writing => k.items # <<>>, Fitting(k, stationRow)
  PROVE  TypeOK' /\ DetailInv'
<1>1. Good(k, stationRow, status, clock)
  BY GoodJob, StoringGood DEF TypeOK
<1> QED BY <1>1, JobStep

\* On to the next item, with what the session holds by now.
LEMMA NextItemStep ==
  ASSUME TypeOK, DetailInv, NEW w \in Workers, job[w].pc \in Storing, job[w].items # <<>>,
         NEW j, SameRequest(j, job[w]), NextItem(w, j), j.items = job[w].items,
         j.known = job[w].known,
         j.known = "no" => j.rows = {} /\ j.station = FALSE,
         \A c \in j.rows : StationOf[c] = j.st /\ (j.station = TRUE \/ j.st \in stationRow)
  PROVE  TypeOK' /\ DetailInv'
<1> DEFINE k == [j EXCEPT !.pc = "items", !.items = Tail(j.items), !.id = "none"]
<1>1. j \in JobType /\ Tail(j.items) \in Seq(ItemType)
  BY DEF SameRequest, JobType
<1>2. /\ SameRequest(k, j) /\ k.pc = "items" /\ k.known = j.known /\ k.id = "none"
      /\ k.rows = j.rows /\ k.station = j.station
  BY <1>1 DEF SameRequest, JobType, Labels
<1>3. Become(w, k) /\ OnlyJob
  BY DEF NextItem
<1> HIDE DEF k
<1>4. SameRequest(k, job[w]) /\ k.pc \in Storing /\ k.pc \notin Writing
  BY <1>2 DEF SameRequest, Storing, Writing
<1>5. k.known = "row" => k.st \in stationRow
  BY <1>2, GoodJob DEF SameRequest, Fitting
<1>6. Fitting(k, stationRow)
  BY <1>2, <1>4, <1>5 DEF Fitting, SameRequest
<1> QED BY <1>3, <1>4, <1>6, StoreStep

LEMMA SkipStep ==
  ASSUME TypeOK, DetailInv, NEW w \in Workers, SkipItem(w)
  PROVE  TypeOK' /\ DetailInv'
<1>1. /\ job[w].pc \in Storing /\ job[w].items # <<>> /\ NextItem(w, job[w])
      /\ SameRequest(job[w], job[w])
  BY GoodJob DEF SkipItem, At, Storing, SameRequest
<1>2. /\ job[w].known = "no" => job[w].rows = {} /\ job[w].station = FALSE
      /\ \A c \in job[w].rows : StationOf[c] = job[w].st
            /\ (job[w].station = TRUE \/ job[w].st \in stationRow)
  BY GoodJob DEF Fitting
<1> QED BY <1>1, <1>2, NextItemStep

LEMMA TakeItemStep ==
  ASSUME TypeOK, DetailInv, NEW w \in Workers, TakeItem(w)
  PROVE  TypeOK' /\ DetailInv'
<1> DEFINE list == [job[w].list EXCEPT ![Item(w).cp] = job[w].now]
           j == [job[w] EXCEPT !.list = list]
<1>1. /\ job[w].pc = "items" /\ job[w].items # <<>> /\ OwnItem(w) /\ OnlyJob
      /\ Become(w, IF job[w].known = "row" THEN ToWrite(j, "stored")
                   ELSE [j EXCEPT !.pc = "find", !.known = "item"])
  BY DEF TakeItem, At
<1>2. /\ job[w] \in JobType /\ job[w].list \in Lists /\ job[w].now \in Nat
      /\ job[w].began \in Nat /\ job[w].items \in Seq(ItemType) /\ clock \in Nat
      /\ StationOf[Item(w).cp] = job[w].st /\ job[w].began <= job[w].now
  BY <1>1, GoodJob DEF JobType, OwnItem, TypeOK, Timely, Storing
<1>3. /\ list \in Lists
      /\ \A c \in Chargers : list[c] = IF c = Item(w).cp THEN job[w].now ELSE job[w].list[c]
  BY <1>2 DEF Lists, Times
<1> HIDE DEF list
<1>4. /\ j \in JobType /\ j.pc = "items" /\ j.st = job[w].st /\ j.began = job[w].began
      /\ j.known = job[w].known /\ j.newest = job[w].newest /\ j.now = job[w].now
      /\ j.items = job[w].items /\ j.list = list /\ j.id = job[w].id
      /\ j.station = job[w].station /\ j.rows = job[w].rows
  BY <1>1, <1>2, <1>3 DEF JobType
<1> HIDE DEF j
<1>5. j.pc \in Storing /\ j.pc \notin Writing
      /\ j.pc \notin {"idle", "api", "database", "station", "l3", "chargers"}
  BY <1>4 DEF Storing, Writing
<1>6. Listing(j)
  <2>1. OfStation(j.st, j.list)
    BY <1>2, <1>3, <1>4, GoodJob DEF Listing, OfStation
  <2>2. \A c \in Chargers : j.list[c] # Never => j.list[c] >= j.began
    BY <1>1, <1>2, <1>3, <1>4, GoodJob DEF Listing, Storing
  <2> QED BY <1>5, <2>1, <2>2 DEF Listing
<1>7. Timely(j, clock) /\ Fitting(j, stationRow) /\ Judged(j, status) /\ JobOK(j)
  BY <1>1, <1>4, <1>5, GoodJob DEF Timely, Fitting, Judged, JobOK
<1>8. Good(j, stationRow, status, clock)
  BY <1>6, <1>7 DEF Good
<1>9. CASE job[w].known = "row"
  <2>1. /\ j.st \in stationRow /\ j.known # "no" /\ StationOf[Head(j.items).cp] = j.st
        /\ SameRequest(j, j)
    BY <1>2, <1>4, <1>9, GoodJob DEF Fitting, Item, SameRequest
  <2>2. Good(ToWrite(j, "stored"), stationRow, status, clock)
    BY <1>1, <1>2, <1>4, <1>5, <1>8, <2>1, ToWriteGood
  <2> QED BY <1>1, <1>9, <2>2, JobStep
<1>10. CASE job[w].known # "row"
  <2> DEFINE k == [j EXCEPT !.pc = "find", !.known = "item"]
  <2>1. /\ SameRequest(k, j) /\ k.pc = "find" /\ k.known = "item" /\ k.items = j.items
        /\ k.id = j.id /\ k.rows = j.rows /\ k.station = j.station
    BY <1>4 DEF JobType, SameRequest, Labels
  <2>2. Become(w, k)
    BY <1>1, <1>10
  <2> HIDE DEF k
  <2>3. k.pc \in Storing /\ k.items # <<>>
    BY <1>1, <1>4, <2>1 DEF Storing, Writing
  <2>4. Fitting(k, stationRow)
    BY <1>2, <1>4, <1>7, <2>1, <2>3 DEF Fitting, SameRequest, Item
  <2>5. Good(k, stationRow, status, clock)
    BY <1>2, <1>4, <1>5, <1>8, <2>1, <2>3, <2>4, StoringGood
  <2> QED BY <1>1, <2>2, <2>5, JobStep
<1> QED BY <1>9, <1>10

\* A handler on an item: it is of the station asked for.
LEMMA OnItem ==
  ASSUME TypeOK, DetailInv, NEW w \in Workers, job[w].pc \in Writing
  PROVE  /\ job[w] \in JobType /\ job[w].pc \in Storing
         /\ job[w].items # <<>> /\ job[w].items \in Seq(ItemType)
         /\ StationOf[Item(w).cp] = job[w].st /\ Item(w).cp \in Chargers
         /\ job[w].known # "no"
         /\ Good(job[w], stationRow, status, clock) /\ clock \in Nat
         /\ job[w].known = "row" => job[w].st \in stationRow
<1>1. job[w] \in JobType /\ job[w].items # <<>> /\ job[w].items \in Seq(ItemType)
  BY GoodJob DEF Good, JobOK, JobType
<1>2. Item(w) \in ItemType
  BY <1>1 DEF Item
<1>3. /\ StationOf[Item(w).cp] = job[w].st /\ job[w].known # "no"
      /\ job[w].known = "row" => job[w].st \in stationRow
  BY GoodJob DEF Fitting, Item
<1> QED BY <1>1, <1>2, <1>3, GoodJob DEF ItemType, Storing, TypeOK

\* The station's row is found, added or not, and the session is rolled back.
LEMMA ParentStep ==
  ASSUME TypeOK, DetailInv, NEW w \in Workers, job[w].pc \in Writing, OnlyJob,
         NEW j \in JobType, SameRequest(j, job[w]), j.pc = job[w].pc,
         j.items = job[w].items, j.known = job[w].known,
         NEW id \in {"none", "stored", "pending"},
         id = "stored" => job[w].st \in stationRow,
         Become(w, ToWrite(j, id))
  PROVE  TypeOK' /\ DetailInv'
<1>1. /\ j.items # <<>> /\ StationOf[Head(j.items).cp] = j.st /\ j.known # "no"
      /\ id = "stored" \/ j.known = "row" => j.st \in stationRow
  BY OnItem DEF Item, SameRequest
<1>2. Good(ToWrite(j, id), stationRow, status, clock)
  BY <1>1, OnItem, ToWriteGood
<1> QED BY <1>2, JobStep

LEMMA FindStep ==
  ASSUME TypeOK, DetailInv, NEW w \in Workers, FindStation(w) \/ FindStationFails(w)
  PROVE  TypeOK' /\ DetailInv'
<1>1. /\ job[w].pc = "find" /\ job[w].pc \in Writing /\ OnlyJob /\ job[w] \in JobType
      /\ SameRequest(job[w], job[w])
  BY GoodJob DEF FindStation, FindStationFails, At, Writing, SameRequest
<1>2. CASE Become(w, ToWrite(job[w], "stored")) /\ job[w].st \in stationRow
  BY <1>1, <1>2, ParentStep
<1>3. CASE Become(w, ToWrite(job[w], "pending"))
  BY <1>1, <1>3, ParentStep
<1>4. ASSUME NEW j \in JobType, SameRequest(j, job[w]), j.items = job[w].items,
             j.known = job[w].known, j.id = job[w].id, j.rows = {}, j.station = FALSE,
             Become(w, [j EXCEPT !.pc = "add"])
      PROVE  TypeOK' /\ DetailInv'
  <2> DEFINE k == [j EXCEPT !.pc = "add"]
  <2>1. "add" \in Labels
    BY DEF Labels
  <2>2. /\ SameRequest(k, j) /\ k.pc = "add" /\ k.known = j.known /\ k.items = j.items
        /\ k.id = j.id /\ k.rows = {} /\ k.station = FALSE
    BY <1>4, <2>1, GotoFields
  <2>3. Become(w, k)
    BY <1>4
  <2> HIDE DEF k
  <2>4. SameRequest(k, job[w]) /\ k.pc \in Storing
    BY <1>4, <2>2 DEF SameRequest, Storing, Writing
  <2>5. /\ k.st = job[w].st /\ k.known = job[w].known /\ k.id = job[w].id
        /\ k.items = job[w].items
    BY <1>4, <2>2, <2>4 DEF SameRequest
  <2>6. /\ job[w].id = "stored" \/ job[w].known = "row" => job[w].st \in stationRow
        /\ StationOf[Head(job[w].items).cp] = job[w].st /\ job[w].known # "no"
    BY <1>1, GoodJob, OnItem DEF Fitting, Item
  <2>7. Fitting(k, stationRow)
    BY <2>2, <2>5, <2>6 DEF Fitting
  <2> QED BY <1>1, <1>4, <2>2, <2>3, <2>4, <2>7, OnItem, StoreStep
<1>5. CASE FindStationFails(w)
  <2>1. Become(w, [RolledBack(job[w]) EXCEPT !.pc = "add"])
    BY <1>5 DEF FindStationFails
  <2>2. RolledBack(job[w]) \in JobType
    BY <1>1, RolledBackFields DEF SameRequest
  <2> QED BY <1>1, <1>4, <2>1, <2>2, RolledBackFields
<1>6. CASE FindStation(w) /\ job[w].st \notin stationRow /\ ~job[w].station
  <2>1. Become(w, [job[w] EXCEPT !.pc = "add"])
    BY <1>6 DEF FindStation
  <2>2. job[w].station \in BOOLEAN
    BY <1>1 DEF JobType
  <2>3. job[w].station = FALSE
    BY <1>6, <2>2
  <2>4. job[w].rows = {}
    BY <1>6, <2>3, GoodJob DEF Fitting
  <2> QED BY <1>1, <1>4, <2>1, <2>3, <2>4
<1> QED BY <1>2, <1>3, <1>5, <1>6 DEF FindStation

LEMMA AddStep ==
  ASSUME TypeOK, DetailInv, NEW w \in Workers, AddStation(w) \/ AddStationFails(w)
  PROVE  TypeOK' /\ DetailInv'
<1>1. /\ job[w].pc = "add" /\ job[w].pc \in Writing /\ OnlyJob /\ job[w] \in JobType
      /\ SameRequest(job[w], job[w])
  BY GoodJob DEF AddStation, AddStationFails, At, Writing, SameRequest
<1>2. CASE AddStationFails(w)
  <2>1. Become(w, ToWrite(job[w], "none"))
    BY <1>2 DEF AddStationFails
  <2> QED BY <1>1, <2>1, ParentStep
<1>3. CASE AddStation(w)
  <2> DEFINE j == [job[w] EXCEPT !.station = TRUE]
  <2>1. PICK id \in {"stored", "pending"} :
            Become(w, ToWrite(j, id)) /\ (id = "stored" => job[w].st \in stationRow)
    BY <1>3 DEF AddStation
  <2>2. /\ j \in JobType /\ SameRequest(j, job[w]) /\ j.pc = job[w].pc
        /\ j.items = job[w].items /\ j.known = job[w].known
    BY <1>1 DEF JobType, SameRequest
  <2> HIDE DEF j
  <2> QED BY <1>1, <2>1, <2>2, ParentStep
<1> QED BY <1>2, <1>3

LEMMA WriteStationStep ==
  ASSUME TypeOK, DetailInv, NEW w \in Workers, WriteStation(w)
  PROVE  TypeOK' /\ DetailInv'
<1> DEFINE k == [job[w] EXCEPT !.station = TRUE, !.pc = "write_both"]
<1>1. /\ job[w].pc = "write_station" /\ job[w].pc \in Writing /\ OnlyJob /\ Become(w, k)
  BY DEF WriteStation, At, Writing
<1>2. /\ SameRequest(k, job[w]) /\ k.pc = "write_both" /\ k.known = job[w].known
      /\ k.items = job[w].items /\ k.id = job[w].id /\ k.rows = job[w].rows
  BY GoodJob DEF JobType, SameRequest, Labels
<1> HIDE DEF k
<1>3. job[w].rows = {}
  BY <1>1, GoodJob DEF Fitting
<1>4. k.pc \in Storing
  BY <1>2 DEF Storing, Writing
<1>5. Fitting(k, stationRow)
  BY <1>1, <1>2, <1>3, <1>4, GoodJob, OnItem DEF Fitting, SameRequest, Item
<1> QED BY <1>1, <1>2, <1>4, <1>5, OnItem, StoreStep

LEMMA WriteChargerStep ==
  ASSUME TypeOK, DetailInv, NEW w \in Workers, WriteCharger(w)
  PROVE  TypeOK' /\ DetailInv'
<1> DEFINE rows == job[w].rows \cup {Item(w).cp}
           j == [job[w] EXCEPT !.rows = rows]
<1>1. job[w].pc \in {"charger", "write_both"} /\ job[w].pc \in Writing /\ NextItem(w, j)
      /\ HasParent(w)
  BY DEF WriteCharger, At, Writing
<1>2. job[w].rows \in SUBSET Chargers /\ job[w].station \in BOOLEAN
  BY OnItem, <1>1 DEF JobType
<1>3. rows \in SUBSET Chargers
  BY <1>1, <1>2, OnItem
<1>4. rows = job[w].rows \cup {Item(w).cp}
  OBVIOUS
<1> HIDE DEF rows
<1>5. /\ SameRequest(j, job[w]) /\ j.items = job[w].items /\ j.known = job[w].known
      /\ j.rows = rows /\ j.station = job[w].station
  BY <1>3, GoodJob DEF JobType, SameRequest
<1> HIDE DEF j
<1>6. job[w].station = TRUE \/ job[w].st \in stationRow
  BY <1>1, <1>2, GoodJob DEF HasParent, Fitting
<1>7. StationOf[Item(w).cp] = job[w].st /\ (\A c \in job[w].rows : StationOf[c] = job[w].st)
  BY <1>1, OnItem, GoodJob DEF Fitting
<1>8. \A c \in j.rows : StationOf[c] = j.st
  BY <1>4, <1>5, <1>7 DEF SameRequest
<1>9. j.station = TRUE \/ j.st \in stationRow
  BY <1>5, <1>6 DEF SameRequest
<1>10. job[w].known # "no" /\ job[w].pc \in Storing /\ job[w].items # <<>>
  BY <1>1, OnItem
<1> QED BY <1>1, <1>5, <1>8, <1>9, <1>10, NextItemStep

LEMMA WriteFailsStep ==
  ASSUME TypeOK, DetailInv, NEW w \in Workers, WriteFails(w)
  PROVE  TypeOK' /\ DetailInv'
<1>1. job[w].pc \in Writing /\ NextItem(w, RolledBack(job[w])) /\ job[w] \in JobType
  BY GoodJob DEF WriteFails, At, Writing
<1> DEFINE j == RolledBack(job[w])
<1>2. /\ SameRequest(j, job[w]) /\ j.items = job[w].items /\ j.known = job[w].known
      /\ j.rows = {} /\ j.station = FALSE
  BY <1>1, RolledBackFields
<1> HIDE DEF j
<1> QED BY <1>1, <1>2, OnItem, NextItemStep DEF j

-----------------------------------------------------------------------------
(* The commit and the reply                                                *)

\* What a commit stores: statuses of the station asked for, next to its row,
\* not older than the handler.
LEMMA CommitWrites ==
  ASSUME TypeOK, DetailInv, NEW w \in Workers, Commit(w)
  PROVE  /\ stationRow' = stationRow \cup {s \in {job[w].st} : job[w].station = TRUE}
         /\ status' \in [Chargers -> Times]
         /\ job[w].rows \in SUBSET ChargersOf(job[w].st)
         /\ \A c \in Chargers : status'[c] = IF c \in job[w].rows THEN job[w].now ELSE status[c]
         /\ \A c \in Chargers : status'[c] # Never => StationOf[c] \in stationRow'
         /\ job[w].now \in Nat /\ job[w].now <= clock /\ clock - job[w].now <= MaxLatency
         /\ job[w].st \in Stations /\ clock' = clock /\ clock \in Nat /\ UNCHANGED l3
         /\ job[w].known = "no" => stationRow' = stationRow /\ status' = status
<1>1. /\ job[w].pc = "items" /\ job[w].pc \in Storing /\ job[w].pc # "idle" /\ job[w] \in JobType
      /\ status' = Committed(w) /\ UNCHANGED l3
  BY GoodJob DEF Commit, At, Storing
<1>2. /\ job[w].station \in BOOLEAN /\ job[w].rows \in SUBSET Chargers /\ job[w].now \in Nat
      /\ job[w].st \in Stations /\ job[w].began \in Nat
  BY <1>1 DEF JobType
<1>3. stationRow' = stationRow \cup {s \in {job[w].st} : job[w].station = TRUE}
  BY <1>2 DEF Commit
<1>4. clock' = clock /\ clock \in Nat
  BY DEF Commit, Answer, TypeOK
<1>5. \A c \in Chargers : status'[c] = IF c \in job[w].rows THEN job[w].now ELSE status[c]
  BY <1>1 DEF Committed
<1>6. status' \in [Chargers -> Times]
  BY <1>1, <1>2 DEF Committed, TypeOK, Times
<1>7. \A c \in job[w].rows : StationOf[c] = job[w].st
                                /\ (job[w].station = TRUE \/ job[w].st \in stationRow)
  BY GoodJob DEF Fitting
<1>8. job[w].now <= clock /\ clock - job[w].now <= MaxLatency
  <2>1. /\ job[w].began <= clock /\ clock - job[w].began <= MaxLatency
        /\ job[w].began <= job[w].now /\ job[w].now <= clock
    BY <1>1, GoodJob DEF Timely
  <2> QED BY <1>2, <1>4, <2>1, DetailNumbers
<1>9. \A c \in Chargers : status'[c] # Never => StationOf[c] \in stationRow'
  BY <1>3, <1>5, <1>7 DEF DetailInv
<1>10. job[w].known = "no" => stationRow' = stationRow /\ status' = status
  <2> SUFFICES ASSUME job[w].known = "no" PROVE stationRow' = stationRow /\ status' = status
    OBVIOUS
  <2>1. job[w].rows = {} /\ job[w].station = FALSE
    BY GoodJob DEF Fitting
  <2>2. \A c \in Chargers : status'[c] = status[c]
    BY <1>5, <2>1
  <2>3. status \in [Chargers -> Times]
    BY DEF TypeOK
  <2> QED BY <1>3, <1>6, <2>1, <2>2, <2>3
<1> QED BY <1>1, <1>2, <1>3, <1>4, <1>5, <1>6, <1>7, <1>8, <1>9, <1>10 DEF ChargersOf

LEMMA CommitStep ==
  ASSUME TypeOK, DetailInv, NEW w \in Workers, Commit(w)
  PROVE  TypeOK' /\ DetailInv'
<1>1. CASE job[w].known = "no"
  <2>1. stationRow' = stationRow /\ status' = status /\ UNCHANGED l3
    BY <1>1, CommitWrites
  <2>2. Answer(w, "not_found", Nothing)
    BY <1>1 DEF Commit
  <2> QED BY <2>1, <2>2, FailStep DEF Fail, Sources
<1>2. CASE job[w].known # "no"
  <2> DEFINE r == RolledBack(job[w])
             k == [r EXCEPT !.pc = "api", !.now = clock]
  <2>1. /\ job[w] \in JobType /\ job[w].pc = "items" /\ job[w].pc \in Storing
        /\ Become(w, k) /\ UNCHANGED <<clock, redisUp, answer, l3>> /\ clock \in Nat
    BY <1>2, GoodJob DEF Commit, At, Storing, TypeOK
  <2>2. /\ k \in JobType /\ k.pc = "api" /\ k.st = job[w].st /\ k.began = job[w].began
        /\ k.known = job[w].known /\ k.now = clock /\ k.list = job[w].list
        /\ k.id = job[w].id /\ k.rows = {} /\ k.station = FALSE
    <3>1. ASSUME NEW x \in JobType
          PROVE  LET y == [x EXCEPT !.pc = "api", !.now = clock] IN
                 /\ y \in JobType /\ y.pc = "api" /\ y.st = x.st /\ y.began = x.began
                 /\ y.known = x.known /\ y.now = clock /\ y.list = x.list /\ y.id = x.id
                 /\ y.rows = x.rows /\ y.station = x.station
      BY <2>1 DEF JobType, Labels
    <3>2. /\ r \in JobType /\ r.st = job[w].st /\ r.began = job[w].began
          /\ r.known = job[w].known /\ r.list = job[w].list /\ r.id = job[w].id
          /\ r.rows = {} /\ r.station = FALSE
      BY <2>1, RolledBackFields DEF SameRequest
    <3> HIDE DEF r
    <3> QED BY <3>1, <3>2
  <2>3. job' = [job EXCEPT ![w] = k]
    BY <2>1 DEF Become
  <2> HIDE DEF r, k
  <2>4. /\ stationRow \subseteq stationRow' /\ stationRow' \in SUBSET Stations
        /\ status \in [Chargers -> Times] /\ status' \in [Chargers -> Times]
        /\ \A c \in Chargers : status'[c] # Never => StationOf[c] \in stationRow'
        /\ \A c \in Chargers : status'[c] <= clock
        /\ \A c \in Chargers : status'[c] = status[c]
                                \/ (status'[c] # Never /\ status'[c] >= clock - MaxLatency)
    <3>1. stationRow \in SUBSET Stations /\ status \in [Chargers -> Times]
      BY DEF TypeOK
    <3>2. /\ stationRow' = stationRow \cup {s \in {job[w].st} : job[w].station = TRUE}
          /\ status' \in [Chargers -> Times]
          /\ \A c \in Chargers : status'[c] = IF c \in job[w].rows THEN job[w].now ELSE status[c]
          /\ \A c \in Chargers : status'[c] # Never => StationOf[c] \in stationRow'
          /\ job[w].now \in Nat /\ job[w].now <= clock /\ clock - job[w].now <= MaxLatency
          /\ job[w].st \in Stations
      BY CommitWrites
    <3>3. job[w].now # Never /\ job[w].now >= clock - MaxLatency
      BY <2>1, <3>2, DetailNumbers DEF Never
    <3> QED BY <3>1, <3>2, <3>3 DEF DetailInv
  <2>5. Good(k, stationRow', status', clock)
    <3>1. k.pc \notin Storing /\ k.pc \notin Writing
      BY <2>2 DEF Storing, Writing
    <3>2. JobOK(k) /\ Timely(k, clock)
      BY <2>1, <2>2, <3>1, GoodJob DEF JobOK, Timely
    <3>3. Fitting(k, stationRow')
      BY <2>2, <2>4, <3>1, GoodJob DEF Fitting
    <3>4. Listing(k) /\ Judged(k, status')
      BY <2>1, <2>2, <3>1, GoodJob DEF Listing, Judged
    <3> QED BY <3>2, <3>3, <3>4 DEF Good
  <2>6. job \in [Workers -> JobType]
    BY DEF TypeOK
  <2>7. \A v \in Workers : Good(job[v], stationRow', status', clock)
    <3> SUFFICES ASSUME NEW v \in Workers PROVE Good(job[v], stationRow', status', clock)
      OBVIOUS
    <3>1. job[v].pc # "idle" => clock - job[v].began <= MaxLatency
      BY GoodJob DEF Timely
    <3>2. clock <= clock
      BY <2>1
    <3> QED BY <2>1, <2>4, <3>1, <3>2, GoodJob, GoodStays
  <2>8. \A v \in Workers : job'[v] = IF v = w THEN k ELSE job[v]
    BY <2>3, <2>6
  <2>9. \A v \in Workers : Good(job'[v], stationRow', status', clock)
    BY <2>5, <2>7, <2>8
  <2>10. job' \in [Workers -> JobType]
    BY <2>2, <2>3, <2>6
  <2>11. TypeOK'
    BY <2>1, <2>4, <2>9, <2>10 DEF TypeOK, Good, JobOK
  <2>12. ListsAreOfTheirStation' /\ NewestIsRecent'
    BY <2>1 DEF DetailInv, ListsAreOfTheirStation, NewestIsRecent
  <2> QED BY <2>1, <2>4, <2>9, <2>11, <2>12 DEF DetailInv
<1> QED BY <1>1, <1>2

LEMMA ReplyStep ==
  ASSUME TypeOK, DetailInv, NEW w \in Workers, Reply(w)
  PROVE  TypeOK' /\ DetailInv'
<1>1. PICK src \in {"database", "api"} :
        /\ job[w].pc = src
        /\ l3' = IF redisUp
                 THEN [l3 EXCEPT ![job[w].st] = [ts |-> job[w].now, list |-> job[w].list]]
                 ELSE l3
        /\ Answer(w, src, job[w].list)
        /\ UNCHANGED <<stationRow, status>>
  BY DEF Reply, At
<1>2. /\ job[w] \in JobType /\ job[w].list \in Lists /\ job[w].now \in Nat
      /\ job[w].began \in Nat /\ clock \in Nat /\ src \in Sources
  BY GoodJob DEF JobType, TypeOK, Sources
<1>3. /\ job[w].began <= clock /\ clock - job[w].began <= MaxLatency
      /\ job[w].began <= job[w].now /\ job[w].now <= clock
  BY <1>1, GoodJob DEF Timely
<1>4. OfStation(job[w].st, job[w].list)
  BY GoodJob DEF Listing
<1>5. job[w].list # Nothing =>
        \E c \in Chargers : job[w].list[c] # Never /\ job[w].list[c] >= job[w].began - FreshWindow
  <2>1. CASE src = "database"
    BY <1>1, <2>1, GoodJob DEF Listing
  <2>2. CASE src = "api" /\ job[w].list # Nothing
    <3>1. \E c \in Chargers : job[w].list[c] # Never
      BY <1>2, <2>2 DEF Nothing, Lists
    <3>2. \A c \in Chargers : job[w].list[c] # Never => job[w].list[c] >= job[w].began
      BY <1>1, <2>2, GoodJob DEF Listing
    <3>3. \A c \in Chargers : job[w].list[c] \in Int
      BY <1>2 DEF Lists, Times, Never
    <3> QED BY <1>2, <3>1, <3>2, <3>3, DetailNumbers
  <2> QED BY <2>1, <2>2
<1>6. \A c \in Chargers : job[w].list[c] \in Int
  BY <1>2 DEF Lists, Times, Never
<1>7. Cacheable(job[w].list, job[w].now)
  BY <1>2, <1>3, <1>5, <1>6, DetailNumbers DEF Cacheable
<1>8. job[w].list # Nothing =>
        \E c \in Chargers : job[w].list[c] # Never /\ clock - job[w].list[c] <= MaxAge
  BY <1>2, <1>3, <1>5, <1>6, DetailNumbers DEF MaxAge
<1>9. \/ UNCHANGED l3
      \/ \E ts \in Nat : /\ l3' = [l3 EXCEPT ![job[w].st] = [ts |-> ts, list |-> job[w].list]]
                         /\ Cacheable(job[w].list, ts)
  BY <1>1, <1>2, <1>7
<1> QED BY <1>1, <1>2, <1>4, <1>8, <1>9, AnswerStep

-----------------------------------------------------------------------------
(* The environment                                                         *)

LEMMA TickStep ==
  ASSUME TypeOK, DetailInv, Tick
  PROVE  TypeOK' /\ DetailInv'
<1>1. /\ clock' = clock + 1 /\ UNCHANGED <<stationRow, status, l3, redisUp, job, answer>>
      /\ clock \in Nat
      /\ \A w \in Workers : job[w].pc # "idle" => clock - job[w].began < MaxLatency
  BY DEF Tick, At, TypeOK
<1>2. TypeOK'
  BY <1>1 DEF TypeOK
<1>3. status \in [Chargers -> Times] /\ \A c \in Chargers : status[c] \in Int
  BY DEF TypeOK, Times, Never
<1>4. \A w \in Workers : Good(job[w], stationRow, status, clock + 1)
  <2> SUFFICES ASSUME NEW w \in Workers PROVE Good(job[w], stationRow, status, clock + 1)
    OBVIOUS
  <2>1. job[w].began \in Nat
    BY GoodJob DEF JobType
  <2>2. job[w].pc # "idle" => (clock + 1) - job[w].began <= MaxLatency
    BY <1>1, <2>1, DetailNumbers
  <2> DEFINE later == clock + 1
  <2>3. clock \in Nat
    BY <1>1
  <2>4. later \in Nat /\ clock <= later
    BY <2>3
  <2>5. job[w].pc # "idle" => later - job[w].began <= MaxLatency
    BY <2>2
  <2> HIDE DEF later
  <2>6. Good(job[w], stationRow, status, later)
    BY <1>3, <2>3, <2>4, <2>5, GoodJob, GoodStays
  <2> QED BY <2>6 DEF later
<1>5. \A c \in Chargers : status[c] <= clock + 1
  BY <1>1, <1>3 DEF DetailInv
<1>6. ListsAreOfTheirStation' /\ NewestIsRecent'
  BY <1>1 DEF DetailInv, ListsAreOfTheirStation, NewestIsRecent
<1> QED BY <1>1, <1>2, <1>4, <1>5, <1>6 DEF DetailInv

LEMMA ExpireStep ==
  ASSUME TypeOK, DetailInv, Expire
  PROVE  TypeOK' /\ DetailInv'
<1> DEFINE e == [ts |-> Never, list |-> Nothing]
<1>1. PICK s \in Stations : l3' = [l3 EXCEPT ![s] = e]
  BY DEF Expire
<1>2. UNCHANGED <<clock, stationRow, status, redisUp, job, answer>>
  BY DEF Expire
<1>3. e \in [ts : Times, list : Lists] /\ e.list = Nothing
  BY NothingIsListed DEF Times
<1> HIDE DEF e
<1>4. l3 \in [Stations -> [ts : Times, list : Lists]]
  BY DEF TypeOK
<1>5. /\ l3' \in [Stations -> [ts : Times, list : Lists]]
      /\ \A r \in Stations : l3'[r] = IF r = s THEN e ELSE l3[r]
  BY <1>1, <1>3, <1>4
<1>6. TypeOK'
  BY <1>2, <1>5 DEF TypeOK
<1>7. \A r \in Stations : Cacheable(l3'[r].list, l3'[r].ts) /\ OfStation(r, l3'[r].list)
  BY <1>3, <1>5, NothingIsListed DEF DetailInv, ListsAreOfTheirStation
<1>8. ListsAreOfTheirStation' /\ NewestIsRecent'
  BY <1>2, <1>7 DEF DetailInv, ListsAreOfTheirStation, NewestIsRecent
<1> QED BY <1>2, <1>6, <1>7, <1>8 DEF DetailInv

LEMMA RedisStep ==
  ASSUME TypeOK, DetailInv, RedisFailsOrRecovers
  PROVE  TypeOK' /\ DetailInv'
<1>1. UNCHANGED <<clock, stationRow, status, l3, job, answer>>
  BY DEF RedisFailsOrRecovers
<1>2. redisUp' \in BOOLEAN
  BY DEF RedisFailsOrRecovers
<1>3. TypeOK'
  BY <1>1, <1>2 DEF TypeOK
<1>4. ListsAreOfTheirStation' /\ NewestIsRecent'
  BY <1>1 DEF DetailInv, ListsAreOfTheirStation, NewestIsRecent
<1> QED BY <1>1, <1>3, <1>4 DEF DetailInv

LEMMA LoadStep ==
  ASSUME TypeOK, DetailInv, LoadStation
  PROVE  TypeOK' /\ DetailInv'
<1>1. PICK s \in Loadable : stationRow' = stationRow \cup {s}
  BY DEF LoadStation
<1>2. /\ UNCHANGED <<clock, status, l3, redisUp, job, answer>> /\ s \in Stations
      /\ clock \in Nat /\ clock <= clock /\ status \in [Chargers -> Times]
  BY DetailConstants DEF LoadStation, DetailConstants, TypeOK
<1>3. TypeOK'
  BY <1>1, <1>2 DEF TypeOK
<1>4. \A w \in Workers : Good(job[w], stationRow', status, clock)
  <2> SUFFICES ASSUME NEW w \in Workers PROVE Good(job[w], stationRow', status, clock)
    OBVIOUS
  <2>1. job[w].pc # "idle" => clock - job[w].began <= MaxLatency
    BY GoodJob DEF Timely
  <2> QED BY <1>1, <1>2, <2>1, GoodJob, GoodStays
<1>5. ListsAreOfTheirStation' /\ NewestIsRecent'
  BY <1>2 DEF DetailInv, ListsAreOfTheirStation, NewestIsRecent
<1> QED BY <1>1, <1>2, <1>3, <1>4, <1>5 DEF DetailInv

-----------------------------------------------------------------------------
(* Theorems                                                                *)

LEMMA DetailInitially == Init => TypeOK /\ DetailInv
<1> SUFFICES ASSUME Init PROVE TypeOK /\ DetailInv
  OBVIOUS
<1> DEFINE e == [ts |-> Never, list |-> Nothing]
           a == [source |-> "none", st |-> Idle.st, list |-> Nothing, sent |-> 0]
<1>1. /\ clock = 0 /\ stationRow \in SUBSET Stations /\ status \in [Chargers -> {Never, 0}]
      /\ \A c \in Chargers : status[c] # Never => StationOf[c] \in stationRow
      /\ l3 = [s \in Stations |-> e] /\ redisUp \in BOOLEAN
      /\ job = [w \in Workers |-> Idle] /\ answer = [w \in Workers |-> a]
  BY DEF Init
<1>2. e \in [ts : Times, list : Lists] /\ e.list = Nothing
  BY NothingIsListed DEF Times
<1>3. /\ a \in [source : Sources, st : Stations, list : Lists, sent : Nat]
      /\ a.list = Nothing /\ a.st \in Stations
  BY NothingIsListed, IdleFields DEF Sources, JobType
<1> HIDE DEF e, a
<1>4. /\ \A w \in Workers : job[w] = Idle /\ answer[w] = a
      /\ \A s \in Stations : l3[s] = e
  BY <1>1
<1>5. Idle.pc \notin Writing
  BY IdleFields DEF Writing
<1>6. status \in [Chargers -> Times] /\ \A c \in Chargers : status[c] <= clock
  BY <1>1 DEF Times, Never
<1>7. TypeOK
  BY <1>1, <1>2, <1>3, <1>4, <1>5, <1>6, IdleFields DEF TypeOK
<1>8. \A w \in Workers : Good(job[w], stationRow, status, clock)
  BY <1>1, <1>4, IdleGood
<1>9. \A s \in Stations : Cacheable(l3[s].list, l3[s].ts)
  BY <1>2, <1>4, NothingIsListed
<1>10. ListsAreOfTheirStation
  BY <1>2, <1>3, <1>4, NothingIsListed DEF ListsAreOfTheirStation
<1>11. NewestIsRecent
  BY <1>3, <1>4 DEF NewestIsRecent
<1> QED BY <1>1, <1>6, <1>7, <1>8, <1>9, <1>10, <1>11 DEF DetailInv

LEMMA DetailStep == TypeOK /\ DetailInv /\ [Next]_vars => TypeOK' /\ DetailInv'
<1> SUFFICES ASSUME TypeOK, DetailInv, [Next]_vars PROVE TypeOK' /\ DetailInv'
  OBVIOUS
<1>1. CASE UNCHANGED vars
  <2>1. UNCHANGED <<clock, stationRow, status, l3, redisUp, job, answer>>
    BY <1>1 DEF vars
  <2>2. ListsAreOfTheirStation' /\ NewestIsRecent' /\ TypeOK'
    BY <2>1 DEF DetailInv, ListsAreOfTheirStation, NewestIsRecent, TypeOK
  <2> QED BY <2>1, <2>2 DEF DetailInv
<1>2. CASE Tick
  BY <1>2, TickStep
<1>3. CASE Expire
  BY <1>3, ExpireStep
<1>4. CASE RedisFailsOrRecovers
  BY <1>4, RedisStep
<1>5. CASE LoadStation
  BY <1>5, LoadStep
<1>6. ASSUME NEW w \in Workers, Handle(w)
      PROVE  TypeOK' /\ DetailInv'
  <2>1. CASE StartRequest(w)
    BY <2>1, StartStep
  <2>2. CASE QueryStation(w)
    BY <2>2, QueryStationStep
  <2>3. CASE QueryStationFails(w) \/ MissCache(w)
    BY <2>3, ReadStep
  <2>4. CASE AnswerFromCache(w)
    BY <2>4, CachedAnswerStep
  <2>5. CASE QueryChargers(w)
    BY <2>5, QueryChargersStep
  <2>6. CASE QueryChargersFails(w) \/ KepcoFails(w) \/ CommitFails(w)
    <3>1. PICK src \in Sources : Fail(w, src)
      BY <2>6 DEF QueryChargersFails, KepcoFails, CommitFails, Sources
    <3> QED BY <3>1, FailStep
  <2>7. CASE KepcoAnswers(w)
    BY <2>7, KepcoStep
  <2>8. CASE SkipItem(w)
    BY <2>8, SkipStep
  <2>9. CASE TakeItem(w)
    BY <2>9, TakeItemStep
  <2>10. CASE FindStation(w) \/ FindStationFails(w)
    BY <2>10, FindStep
  <2>11. CASE AddStation(w) \/ AddStationFails(w)
    BY <2>11, AddStep
  <2>12. CASE WriteCharger(w)
    BY <2>12, WriteChargerStep
  <2>13. CASE WriteStation(w)
    BY <2>13, WriteStationStep
  <2>14. CASE WriteFails(w)
    BY <2>14, WriteFailsStep
  <2>15. CASE Commit(w)
    BY <2>15, CommitStep
  <2>16. CASE Reply(w)
    BY <2>16, ReplyStep
  <2> QED BY <1>6, <2>1, <2>2, <2>3, <2>4, <2>5, <2>6, <2>7, <2>8, <2>9, <2>10, <2>11,
             <2>12, <2>13, <2>14, <2>15, <2>16 DEF Handle
<1> QED BY <1>1, <1>2, <1>3, <1>4, <1>5, <1>6 DEF Next

\* The inductive invariant of the handlers, their sessions, the tables and the
\* detail cache.
THEOREM DetailInvariant == Spec => [](TypeOK /\ DetailInv)
<1>1. Init => TypeOK /\ DetailInv
  BY DetailInitially
<1>2. TypeOK /\ DetailInv /\ [Next]_vars => (TypeOK /\ DetailInv)'
  BY DetailStep
<1> QED BY <1>1, <1>2, PTL DEF Spec

\* The state of the handlers, the tables and the cache keeps its shape.
THEOREM DetailTypeCorrect == Spec => []TypeOK
BY DetailInvariant, PTL

\* Any list of get_station_charger_specs holds a status that is not older than
\* the database's window, the life of a cache entry and the time a handler
\* takes together, whatever the windows are and however handlers interleave.
THEOREM AnswersAreRecent == Spec => []NewestIsRecent
<1>1. DetailInv => NewestIsRecent
  BY DEF DetailInv
<1> QED BY <1>1, DetailInvariant, PTL

\* Lists are answered and cached for the station their chargers belong to.
THEOREM ListsStayWithTheirStation == Spec => []ListsAreOfTheirStation
<1>1. DetailInv => ListsAreOfTheirStation
  BY DEF DetailInv
<1> QED BY <1>1, DetailInvariant, PTL

\* The handlers cannot deadlock on rows: the rollback before each item leaves a
\* handler that waits for a station nothing of its own, one that waits for a
\* charger no more than its station, and one that has chargers does not wait.
THEOREM HandlersDoNotDeadlock == Spec => []NoDeadlockedSet
<1>1. TypeOK /\ DetailInv => NoDeadlockedSet
  <2> SUFFICES ASSUME TypeOK, DetailInv, NEW S \in (SUBSET Workers) \ {{}},
                      \A w \in S : \E v \in S : WaitsFor(w, v)
               PROVE  FALSE
    BY DEF NoDeadlockedSet
  <2>1. \A w \in S : w \in Workers /\ (job[w].pc \in {"add", "charger", "write_station"} =>
                        job[w].rows = {} /\ job[w].station = FALSE)
                     /\ (job[w].pc = "write_both" => job[w].rows = {})
    BY GoodJob DEF Fitting
  <2>2. \A w \in S : job[w].pc \in {"add", "charger", "write_station", "write_both"}
    BY DEF WaitsFor
  <2>3. \A w \in S : job[w].rows = {}
    BY <2>1, <2>2
  <2>4. \A w \in S : job[w].pc \in {"add", "write_station"}
    BY <2>3 DEF WaitsFor
  <2>5. \A w \in S : job[w].station = FALSE
    BY <2>1, <2>4
  <2>6. PICK w \in S : TRUE
    OBVIOUS
  <2>7. PICK v \in S : WaitsFor(w, v)
    BY <2>6
  <2>8. job[v].station
    BY <2>3, <2>7 DEF WaitsFor
  <2> QED BY <2>5, <2>8
<1> QED BY <1>1, DetailInvariant, PTL

\* A step that is not a commit leaves the tables alone, but for the clock and
\* other writers.
LEMMA TablesChange ==
  ASSUME [Next]_vars
  PROVE  \/ UNCHANGED <<clock, stationRow, status>>
         \/ Tick \/ LoadStation
         \/ \E w \in Workers : Commit(w)
<1>1. ASSUME NEW w \in Workers, Handle(w)
      PROVE  Commit(w) \/ UNCHANGED <<clock, stationRow, status>>
  <2>1. CASE StartRequest(w)
    BY <2>1 DEF StartRequest, OnlyJob
  <2>2. CASE QueryStation(w) \/ QueryStationFails(w)
    BY <2>2 DEF QueryStation, QueryStationFails, OnlyJob, Answer, Fail
  <2>3. CASE AnswerFromCache(w) \/ MissCache(w)
    BY <2>3 DEF AnswerFromCache, MissCache, OnlyJob, Answer
  <2>4. CASE QueryChargers(w) \/ QueryChargersFails(w)
    BY <2>4 DEF QueryChargers, QueryChargersFails, OnlyJob, Answer, Fail
  <2>5. CASE KepcoAnswers(w) \/ KepcoFails(w)
    BY <2>5 DEF KepcoAnswers, KepcoFails, OnlyJob, Answer, Fail
  <2>6. CASE SkipItem(w) \/ TakeItem(w)
    BY <2>6 DEF SkipItem, TakeItem, NextItem, OnlyJob
  <2>7. CASE FindStation(w) \/ FindStationFails(w)
    BY <2>7 DEF FindStation, FindStationFails, OnlyJob
  <2>8. CASE AddStation(w) \/ AddStationFails(w)
    BY <2>8 DEF AddStation, AddStationFails, OnlyJob
  <2>9. CASE WriteCharger(w) \/ WriteStation(w) \/ WriteFails(w)
    BY <2>9 DEF WriteCharger, WriteStation, WriteFails, NextItem, OnlyJob
  <2>10. CASE CommitFails(w) \/ Reply(w)
    BY <2>10 DEF CommitFails, Reply, Fail, OnlyJob, Answer
  <2> QED BY <1>1, <2>1, <2>2, <2>3, <2>4, <2>5, <2>6, <2>7, <2>8, <2>9, <2>10 DEF Handle
<1>2. CASE Expire \/ RedisFailsOrRecovers
  BY <1>2 DEF Expire, RedisFailsOrRecovers
<1>3. CASE UNCHANGED vars
  BY <1>3 DEF vars
<1> QED BY <1>1, <1>2, <1>3 DEF Next

\* A stored status goes back by no more than the time a handler takes, in
\* whatever order the commits of the handlers come.
THEOREM StatusesGoBackLittle == Spec => StatusGoesBackLittle
<1>1. TypeOK /\ DetailInv /\ [Next]_vars =>
        \A c \in Chargers : status[c] # Never =>
            status'[c] # Never /\ status[c] - status'[c] <= MaxLatency
  <2> SUFFICES ASSUME TypeOK, DetailInv, [Next]_vars, NEW c \in Chargers, status[c] # Never
               PROVE  status'[c] # Never /\ status[c] - status'[c] <= MaxLatency
    OBVIOUS
  <2>1. status[c] \in Int /\ status[c] <= clock /\ MaxLatency \in Nat
    BY DetailNumbers DEF TypeOK, DetailInv, Times, Never
  <2>2. CASE status' = status
    BY <2>1, <2>2
  <2>3. ASSUME NEW w \in Workers, Commit(w)
        PROVE  status'[c] # Never /\ status[c] - status'[c] <= MaxLatency
    <3>1. /\ status'[c] = IF c \in job[w].rows THEN job[w].now ELSE status[c]
          /\ job[w].now \in Nat /\ clock - job[w].now <= MaxLatency /\ clock \in Nat
      BY <2>3, CommitWrites
    <3> QED BY <2>1, <3>1 DEF Never
  <2> QED BY <2>2, <2>3, TablesChange DEF Tick, LoadStation
<1>2. TypeOK /\ DetailInv /\ [Next]_vars =>
        [\A c \in Chargers : status[c] # Never =>
            status'[c] # Never /\ status[c] - status'[c] <= MaxLatency]_vars
  BY <1>1
<1> QED BY <1>2, DetailInvariant, PTL DEF Spec, StatusGoesBackLittle

\* The handlers implement StationStore: what one writes item by item appears in
\* the tables at its commit, of one station, parented and hardly late.
THEOREM HandlersStoreAStation == Spec => WritesKeepTheStore
<1>1. Init => Store!Init
  BY DEF Init, Store!Init, Store!Parented, Store!Stored, Never, Store!Never
<1>2. TypeOK /\ DetailInv /\ DetailInv' /\ [Next]_vars => [Store!Next]_Store!storeVars
  <2> SUFFICES ASSUME TypeOK, DetailInv, DetailInv', [Next]_vars
               PROVE  Store!Next \/ UNCHANGED <<clock, stationRow, status>>
    BY DEF Store!storeVars
  <2>1. Store!Parented'
    BY DEF DetailInv, Store!Parented, Store!Stored, Never, Store!Never
  <2>2. CASE Tick
    BY <2>2 DEF Tick, Store!Next, Store!Tick
  <2>3. ASSUME NEW st \in Stations, NEW R \in SUBSET {st}, NEW C \in SUBSET ChargersOf(st),
               stationRow' = stationRow \cup R,
               NEW fetched \in 0..clock, clock - fetched <= MaxLatency,
               status' = [c \in Chargers |-> IF c \in C THEN fetched ELSE status[c]],
               UNCHANGED clock
        PROVE  Store!Next
    <3> DEFINE b == [stations |-> R, chargers |-> C]
    <3>1. b \in DetailBatches
      BY DEF DetailBatches
    <3>2. Store!Store(b)
      BY <2>1, <2>3 DEF Store!Store
    <3> QED BY <3>1, <3>2 DEF Store!Next
  <2>4. clock \in Nat /\ status \in [Chargers -> Times] /\ MaxLatency \in Nat
    BY DetailNumbers DEF TypeOK
  <2>5. CASE LoadStation
    <3>1. PICK s \in Loadable : stationRow' = stationRow \cup {s}
      BY <2>5 DEF LoadStation
    <3>2. s \in Stations
      BY DetailConstants DEF DetailConstants
    <3>3. clock \in 0..clock /\ clock - clock <= MaxLatency
      BY <2>4
    <3>4. UNCHANGED clock /\ status' = [c \in Chargers |-> IF c \in {} THEN clock ELSE status[c]]
      BY <2>4, <2>5 DEF LoadStation
    <3>5. {} \in SUBSET ChargersOf(s) /\ {s} \in SUBSET {s}
      OBVIOUS
    <3> QED BY <2>3, <3>1, <3>2, <3>3, <3>4, <3>5
  <2>6. ASSUME NEW w \in Workers, Commit(w)
        PROVE  Store!Next
    <3>1. /\ stationRow' = stationRow \cup {s \in {job[w].st} : job[w].station = TRUE}
          /\ job[w].rows \in SUBSET ChargersOf(job[w].st) /\ job[w].st \in Stations
          /\ job[w].now \in Nat /\ job[w].now <= clock /\ clock - job[w].now <= MaxLatency
          /\ UNCHANGED clock
      BY <2>6, CommitWrites
    <3>2. status' = [c \in Chargers |-> IF c \in job[w].rows THEN job[w].now ELSE status[c]]
      BY <2>6 DEF Commit, Committed
    <3>3. job[w].now \in 0..clock
      BY <2>4, <3>1
    <3>4. {s \in {job[w].st} : job[w].station = TRUE} \in SUBSET {job[w].st}
      OBVIOUS
    <3> QED BY <2>3, <3>1, <3>2, <3>3, <3>4
  <2> QED BY <2>2, <2>5, <2>6, TablesChange
<1> QED BY <1>1, <1>2, DetailInvariant, PTL DEF Spec, WritesKeepTheStore, Store!Spec

=============================================================================
