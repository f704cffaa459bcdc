---------------------------- MODULE StationSearch ----------------------------
(***************************************************************************)
(* GET /api/v1/stations (app/main.py, search_ev_stations_requirement_      *)
(* compliant): a requester's position and radius are answered from the     *)
(* short-term cache (L1), else the persistent cache (L2), else PostGIS,    *)
(* else the KEPCO API, whose answer is upserted and cached.                *)
(*                                                                         *)
(* Every await of the handler is a step, so any number of handlers         *)
(* interleave.  Each handler owns one AsyncSession: the rows it upserted   *)
(* and did not commit yet (and therefore keeps locked) and the pooled      *)
(* connection its open transaction occupies.  A station is its cs_id; its  *)
(* name and address, and the charger counts an answer carries, are left    *)
(* out.                                                                    *)
(***************************************************************************)
EXTENDS Integers, FiniteSets, Sequences

CONSTANTS
    Workers,          \* request handlers running at a time
    Stations,         \* cs_id values
    Positions,        \* exact positions of requesters
    CellOf,           \* [Positions -> cells]: coordinates rounded for the cache key
    Dist,             \* [Positions -> [Stations -> Nat]], in metres
    Radii,            \* radii asked for, in metres
    Pages, Limits,    \* page and limit query parameters
    Payloads,         \* KEPCO answers: one item per charger, naming its station
    Miss,             \* what Redis GET returns for an absent key
    PoolSize,         \* connections of the SQLAlchemy pool
    KepcoConfigured,  \* EXTERNAL_STATION_API_* are set
    Loadable,         \* stations other writers may commit
    UpsertAccepted,   \* the stations table accepts the handler's INSERT
    DbMayFail         \* database statements may fail

ASSUME SearchConstants ==
    /\ IsFiniteSet(Workers)
    /\ Dist \in [Positions -> [Stations -> Nat]]
    /\ Positions \subseteq DOMAIN CellOf
    /\ \A radius \in Radii : radius \in Nat /\ 100 <= radius /\ radius <= 15000
    /\ \A page \in Pages : page \in Nat /\ 1 <= page
    /\ \A limit \in Limits : limit \in Nat /\ 1 <= limit /\ limit <= 100
    /\ Payloads \subseteq Seq(Stations)
    /\ Loadable \subseteq Stations
    /\ \A list \in SUBSET Stations : list # Miss
    /\ PoolSize \in Nat \ {0}
    /\ {KepcoConfigured, UpsertAccepted, DbMayFail} \subseteq BOOLEAN

VARIABLES
    stored,   \* committed rows of the stations table
    l1, l2,   \* the two search caches: key -> list of stations, or Miss
    redisUp,  \* Redis answers commands
    pc,       \* the await each handler is at
    req,      \* the request each handler serves
    source,   \* the "source" the handler will answer with
    found,    \* the stations the handler will answer with
    items,    \* KEPCO items still to be processed
    rows,     \* upserted, uncommitted rows of the handler's session
    conn,     \* whether the session occupies a pooled connection
    answer    \* the last response each handler sent

handler == <<pc, req, source, found, items>>
session == <<rows, conn>>
caches  == <<l1, l2, redisUp>>
vars    == <<stored, caches, handler, session, answer>>

Request == [pos : Positions, radius : Radii, page : Pages, limit : Limits]

-----------------------------------------------------------------------------
(* Radius buckets and cache keys                                           *)

RadiusStandards == {5000, 10000, 15000}

Covering(radius) == {b \in RadiusStandards : radius <= b}

SmallestOf(S) == CHOOSE b \in S : \A c \in S : b <= c

\* actual_radius
Bucket(radius) ==
    IF Covering(radius) = {} THEN 15000 ELSE SmallestOf(Covering(radius))

Cells == {CellOf[p] : p \in Positions}

Keys == [cell : Cells, radius : RadiusStandards, page : Pages, limit : Limits]

KeyOf(r) == [cell   |-> CellOf[r.pos],
             radius |-> Bucket(r.radius),
             page   |-> r.page,
             limit  |-> r.limit]

Key(w) == KeyOf(req[w])

Within(pos, radius, S) == {s \in S : Dist[pos][s] <= radius}

\* The filter applied to a cached or fetched list before it is returned.
Near(w, S) == Within(req[w].pos, req[w].radius, S)

-----------------------------------------------------------------------------
(* The spatial query                                                       *)

AtMost(a, b) == IF a <= b THEN a ELSE b

Closer(pos, S, T) == \A s \in S, t \in T : Dist[pos][s] <= Dist[pos][t]

\* ORDER BY distance LIMIT limit OFFSET (page - 1) * limit; rows at the same
\* distance come in any order.
PagesOf(r, S) ==
    {P \in SUBSET S :
        \E skipped \in SUBSET (S \ P) :
            /\ Cardinality(skipped) = AtMost((r.page - 1) * r.limit, Cardinality(S))
            /\ Cardinality(P) = AtMost(r.limit, Cardinality(S \ skipped))
            /\ Closer(r.pos, skipped, S \ skipped)
            /\ Closer(r.pos, P, S \ (skipped \cup P))}
-----------------------------------------------------------------------------
(* Sessions                                                                *)

ConnectionsInUse == {w \in Workers : conn[w]}

PoolExhausted == Cardinality(ConnectionsInUse) >= PoolSize

\* The awaits that execute a statement and so need a connection.
NeedsConnection(w) == pc[w] \in {"count", "query", "upsert"}

\* PostgreSQL makes an upsert wait while another transaction has the row.
RowFree(w, s) == \A v \in Workers \ {w} : s \notin rows[v]

\* ROLLBACK (_clear_db_transaction): the uncommitted rows and their locks go,
\* the connection returns to the pool.
Rollback(w) ==
    /\ rows' = [rows EXCEPT ![w] = {}]
    /\ conn' = [conn EXCEPT ![w] = FALSE]

Goto(w, label) == pc' = [pc EXCEPT ![w] = label]

-----------------------------------------------------------------------------
(* The end of a request                                                    *)

\* Mutant of Finish: the session is not closed.
FinishLeavingSession(w, src, list, committed) ==
    /\ answer' = [answer EXCEPT ![w] = [source |-> src, stations |-> list]]
    /\ stored' = stored \cup committed
    /\ source' = [source EXCEPT ![w] = "none"]
    /\ found' = [found EXCEPT ![w] = {}]
    /\ items' = [items EXCEPT ![w] = <<>>]
    /\ Goto(w, "idle")
    /\ UNCHANGED <<req, caches, session>>

\* Leave the handler: get_async_session commits after a response and rolls
\* back after an exception; the session is closed either way.
Finish(w, src, list, committed) ==
    /\ answer' = [answer EXCEPT ![w] = [source |-> src, stations |-> list]]
    /\ stored' = stored \cup committed
    /\ Rollback(w)
    /\ source' = [source EXCEPT ![w] = "none"]
    /\ found' = [found EXCEPT ![w] = {}]
    /\ items' = [items EXCEPT ![w] = <<>>]
    /\ Goto(w, "idle")
    /\ UNCHANGED <<req, caches>>

\* raise HTTPException
Fail(w, src) == Finish(w, src, {}, {})

Reply(w) ==
    /\ pc[w] = "reply"
    /\ Finish(w, source[w], found[w], rows[w])

-----------------------------------------------------------------------------
(* The request and its address                                             *)

StartRequest(w) ==
    /\ pc[w] = "idle"
    /\ \E r \in Request : req' = [req EXCEPT ![w] = r]
    /\ answer' = [answer EXCEPT ![w] = [source |-> "none", stations |-> {}]]
    /\ Goto(w, "geocode")
    /\ UNCHANGED <<stored, caches, source, found, items, session>>

\* Nominatim answered; any status but 200 stands for the default address.
Geocoded(w) ==
    /\ pc[w] = "geocode"
    /\ Goto(w, "l1")
    /\ UNCHANGED <<stored, caches, req, source, found, items, session, answer>>

\* Nominatim timed out or was unreachable.
GeocodingFails(w) ==
    /\ pc[w] = "geocode"
    /\ Fail(w, "geocoding_error")

-----------------------------------------------------------------------------
(* The caches                                                              *)

\* Mutant of Hit: the cached list is returned as it is.
HitUnfiltered(w, label, list) ==
    /\ source' = [source EXCEPT ![w] = label]
    /\ found' = [found EXCEPT ![w] = list]
    /\ Goto(w, "count")
    /\ UNCHANGED <<stored, caches, req, items, session, answer>>

\* Mutant of Hit: what one cache had is written to the caches again.
HitWrittenBack(w, label, list) ==
    /\ source' = [source EXCEPT ![w] = label]
    /\ found' = [found EXCEPT ![w] = Near(w, list)]
    /\ Goto(w, IF Near(w, list) = {} THEN "reply" ELSE "fill_l1")
    /\ UNCHANGED <<stored, caches, req, items, session, answer>>

\* A hit is filtered by the radius asked for; the charger counts of the
\* stations left are then read from the database, if there is one to count.
Hit(w, label, list) ==
    /\ source' = [source EXCEPT ![w] = label]
    /\ found' = [found EXCEPT ![w] = Near(w, list)]
    /\ Goto(w, IF label = "cache" /\ Near(w, list) = {} THEN "reply" ELSE "count")
    /\ UNCHANGED <<stored, caches, req, items, session, answer>>

Skip(w, label) ==
    /\ Goto(w, label)
    /\ UNCHANGED <<stored, caches, req, source, found, items, session, answer>>

ReadL1(w) ==
    /\ pc[w] = "l1"
    /\ redisUp
    /\ IF l1[Key(w)] # Miss THEN Hit(w, "cache", l1[Key(w)]) ELSE Skip(w, "l2")

ReadL2(w) ==
    /\ pc[w] = "l2"
    /\ redisUp
    /\ IF l2[Key(w)] # Miss THEN Hit(w, "persistent_cache", l2[Key(w)])
                            ELSE Skip(w, "query")

\* A Redis error while reading either cache falls through to the database.
CacheReadFails(w) ==
    /\ pc[w] \in {"l1", "l2"}
    /\ ~redisUp
    /\ Skip(w, "query")

\* The counts, or their default when the statement fails or gets no connection.
CountChargers(w) ==
    /\ pc[w] = "count"
    /\ conn[w] \/ PoolExhausted
    /\ Skip(w, "reply")

-----------------------------------------------------------------------------
(* The database                                                            *)

\* The session's first statement takes a connection from the pool.
Checkout(w) ==
    /\ NeedsConnection(w)
    /\ ~conn[w]
    /\ ~PoolExhausted
    /\ conn' = [conn EXCEPT ![w] = TRUE]
    /\ UNCHANGED <<stored, caches, handler, rows, answer>>

\* PostGIS returns a page of the bucket's rows, cut to the radius asked for.
QueryStations(w) ==
    /\ pc[w] = "query"
    /\ conn[w]
    /\ \E page \in PagesOf(req[w], Within(req[w].pos, Bucket(req[w].radius), stored)) :
        /\ found' = [found EXCEPT ![w] = Near(w, page)]
        /\ source' = [source EXCEPT ![w] = IF Near(w, page) = {} THEN "none" ELSE "database"]
        /\ Goto(w, IF Near(w, page) = {} THEN "kepco" ELSE "fill_l1")
    /\ UNCHANGED <<stored, caches, req, items, session, answer>>

\* The spatial query failed, or got no connection.  The fallback query is run
\* without its :limit and :offset parameters, so it always raises: rollback.
QueryFails(w) ==
    /\ pc[w] = "query"
    /\ (conn[w] /\ DbMayFail) \/ (~conn[w] /\ PoolExhausted)
    /\ Rollback(w)
    /\ Goto(w, "kepco")
    /\ UNCHANGED <<stored, caches, req, source, found, items, answer>>

-----------------------------------------------------------------------------
(* The KEPCO API                                                           *)

KepcoAnswers(w) ==
    /\ pc[w] = "kepco"
    /\ KepcoConfigured
    /\ \E payload \in Payloads : items' = [items EXCEPT ![w] = payload]
    /\ source' = [source EXCEPT ![w] = "kepco_api"]
    /\ Goto(w, "items")
    /\ UNCHANGED <<stored, caches, req, found, session, answer>>

\* The settings are missing (500), the status is not 200 (502), or the call
\* times out or its body is unreadable (500).
KepcoFails(w) ==
    /\ pc[w] = "kepco"
    /\ \E src \in IF KepcoConfigured THEN {"kepco_status", "kepco_exception"}
                                      ELSE {"kepco_not_configured"} :
        Fail(w, src)

Item(w) == Head(items[w])

\* Mutant of SkipItem: the distance is looked at when the item is in the answer.
SkipItemTooLate(w) ==
    /\ pc[w] = "items"
    /\ items[w] # <<>>
    /\ Near(w, {Item(w)}) = {}
    /\ found' = [found EXCEPT ![w] = found[w] \cup {Item(w)}]
    /\ items' = [items EXCEPT ![w] = Tail(items[w])]
    /\ UNCHANGED <<stored, caches, pc, req, source, session, answer>>

\* An item outside the radius (or without coordinates) is skipped.
SkipItem(w) ==
    /\ pc[w] = "items"
    /\ items[w] # <<>>
    /\ Near(w, {Item(w)}) = {}
    /\ items' = [items EXCEPT ![w] = Tail(items[w])]
    /\ UNCHANGED <<stored, caches, pc, req, source, found, session, answer>>

\* Mutant of TakeItem: the previous upserts are kept, and their locks with them.
TakeItemInOneTransaction(w) ==
    /\ pc[w] = "items"
    /\ items[w] # <<>>
    /\ Near(w, {Item(w)}) # {}
    /\ found' = [found EXCEPT ![w] = found[w] \cup {Item(w)}]
    /\ Goto(w, "upsert")
    /\ UNCHANGED <<stored, caches, req, source, items, session, answer>>

\* Any other item joins the answer; before its upsert the session is rolled
\* back, with whatever the previous item's upsert wrote.
TakeItem(w) ==
    /\ pc[w] = "items"
    /\ items[w] # <<>>
    /\ Near(w, {Item(w)}) # {}
    /\ found' = [found EXCEPT ![w] = found[w] \cup {Item(w)}]
    /\ Rollback(w)
    /\ Goto(w, "upsert")
    /\ UNCHANGED <<stored, caches, req, source, items, answer>>

\* Mutant of NextItem: the next upsert starts without going through its item.
NextItemAtOnce(w) ==
    /\ items' = [items EXCEPT ![w] = Tail(items[w])]
    /\ UNCHANGED <<stored, caches, pc, req, source, found, answer>>

NextItem(w) ==
    /\ items' = [items EXCEPT ![w] = Tail(items[w])]
    /\ Goto(w, "items")
    /\ UNCHANGED <<stored, caches, req, source, found, answer>>

\* INSERT ... ON CONFLICT (cs_id) DO UPDATE, not committed yet.
Upsert(w) ==
    /\ pc[w] = "upsert"
    /\ conn[w]
    /\ UpsertAccepted
    /\ RowFree(w, Item(w))
    /\ rows' = [rows EXCEPT ![w] = rows[w] \cup {Item(w)}]
    /\ conn' = conn
    /\ NextItem(w)

\* The table rejects the row, or the statement fails, perhaps while waiting.
UpsertFails(w) ==
    /\ pc[w] = "upsert"
    /\ conn[w]
    /\ DbMayFail \/ ~UpsertAccepted
    /\ Rollback(w)
    /\ NextItem(w)

\* No connection came free before the pool's timeout.
UpsertTimesOut(w) ==
    /\ pc[w] = "upsert"
    /\ ~conn[w]
    /\ PoolExhausted
    /\ Rollback(w)
    /\ NextItem(w)

\* Mutant of AfterItems: an empty answer is cached like any other.
AfterItemsCacheAnything(w) ==
    /\ pc[w] = "items"
    /\ items[w] = <<>>
    /\ Rollback(w)
    /\ Goto(w, "fill_l1")
    /\ UNCHANGED <<caches, req, source, found, items, answer>>

AfterItems(w) ==
    /\ pc[w] = "items"
    /\ items[w] = <<>>
    /\ Rollback(w)
    /\ Goto(w, IF found[w] = {} THEN "reply" ELSE "fill_l1")
    /\ UNCHANGED <<caches, req, source, found, items, answer>>

CommitItems(w) ==
    /\ AfterItems(w)
    /\ stored' = stored \cup rows[w]

CommitFails(w) ==
    /\ DbMayFail
    /\ AfterItems(w)
    /\ UNCHANGED stored

-----------------------------------------------------------------------------
(* Filling the caches                                                      *)

FillL1(w) ==
    /\ pc[w] = "fill_l1"
    /\ redisUp
    /\ l1' = [l1 EXCEPT ![Key(w)] = found[w]]
    /\ Goto(w, "fill_l2")
    /\ UNCHANGED <<stored, l2, redisUp, req, source, found, items, session, answer>>

FillL2(w) ==
    /\ pc[w] = "fill_l2"
    /\ redisUp
    /\ l2' = [l2 EXCEPT ![Key(w)] = found[w]]
    /\ Goto(w, "reply")
    /\ UNCHANGED <<stored, l1, redisUp, req, source, found, items, session, answer>>

\* A failed write of L1 skips L2 too.
FillFails(w) ==
    /\ pc[w] \in {"fill_l1", "fill_l2"}
    /\ ~redisUp
    /\ Skip(w, "reply")

-----------------------------------------------------------------------------
(* The environment                                                         *)

Expire ==
    /\ \E k \in Keys :
        \/ l1[k] # Miss /\ l1' = [l1 EXCEPT ![k] = Miss] /\ UNCHANGED l2
        \/ l2[k] # Miss /\ l2' = [l2 EXCEPT ![k] = Miss] /\ UNCHANGED l1
    /\ UNCHANGED <<stored, redisUp, handler, session, answer>>

RedisFailsOrRecovers ==
    /\ redisUp' = ~redisUp
    /\ UNCHANGED <<stored, l1, l2, handler, session, answer>>

\* Another writer (a loader script, another replica) commits a station.
LoadStation ==
    /\ \E s \in Loadable \ stored :
        /\ \A w \in Workers : s \notin rows[w]
        /\ stored' = stored \cup {s}
    /\ UNCHANGED <<caches, handler, session, answer>>

-----------------------------------------------------------------------------
(* Specification                                                           *)

Init ==
    /\ stored \in SUBSET Stations
    /\ l1 = [k \in Keys |-> Miss]
    /\ l2 = [k \in Keys |-> Miss]
    /\ redisUp \in BOOLEAN
    /\ pc = [w \in Workers |-> "idle"]
    /\ \E r \in Request : req = [w \in Workers |-> r]
    /\ source = [w \in Workers |-> "none"]
    /\ found = [w \in Workers |-> {}]
    /\ items = [w \in Workers |-> <<>>]
    /\ rows = [w \in Workers |-> {}]
    /\ conn = [w \in Workers |-> FALSE]
    /\ answer = [w \in Workers |-> [source |-> "none", stations |-> {}]]

Handle(w) ==
    \/ StartRequest(w) \/ Geocoded(w) \/ GeocodingFails(w)
    \/ ReadL1(w) \/ ReadL2(w) \/ CacheReadFails(w) \/ CountChargers(w)
    \/ Checkout(w) \/ QueryStations(w) \/ QueryFails(w)
    \/ KepcoAnswers(w) \/ KepcoFails(w)
    \/ SkipItem(w) \/ TakeItem(w)
    \/ Upsert(w) \/ UpsertFails(w) \/ UpsertTimesOut(w)
    \/ CommitItems(w) \/ CommitFails(w)
    \/ FillL1(w) \/ FillL2(w) \/ FillFails(w)
    \/ Reply(w)

Next ==
    \/ \E w \in Workers : Handle(w)
    \/ Expire
    \/ RedisFailsOrRecovers
    \/ LoadStation

Spec == Init /\ [][Next]_vars

\* The steps that an answer, a timeout or the event loop brings about by
\* itself; no database failure is among them.  That Redis answers or raises is
\* assumed: its client has no timeout.
Progress(w) ==
    \/ Geocoded(w) \/ GeocodingFails(w)
    \/ ReadL1(w) \/ ReadL2(w) \/ CacheReadFails(w) \/ CountChargers(w)
    \/ Checkout(w) \/ QueryStations(w) \/ (~conn[w] /\ QueryFails(w))
    \/ KepcoAnswers(w) \/ KepcoFails(w)
    \/ SkipItem(w) \/ TakeItem(w)
    \/ (~UpsertAccepted /\ UpsertFails(w)) \/ UpsertTimesOut(w)
    \/ CommitItems(w)
    \/ FillL1(w) \/ FillL2(w) \/ FillFails(w)
    \/ Reply(w)

\* PostgreSQL queues the transactions that wait for a row, so an upsert whose
\* row is free again and again gets it.
Fairness ==
    \A w \in Workers :
        /\ WF_vars(Progress(w))
        /\ SF_vars(Upsert(w))

FairSpec == Spec /\ Fairness

-----------------------------------------------------------------------------
(* Properties                                                              *)

Sources == {"none", "cache", "persistent_cache", "database", "kepco_api"}

Errors == {"geocoding_error", "kepco_not_configured", "kepco_status", "kepco_exception"}

Labels == {"idle", "geocode", "l1", "l2", "count", "query", "kepco", "items",
           "upsert", "fill_l1", "fill_l2", "reply"}

\* The shape of the state: where each handler may be and what it may hold.
TypeOK ==
    /\ stored \in SUBSET Stations
    /\ l1 \in [Keys -> {Miss} \cup SUBSET Stations]
    /\ l2 \in [Keys -> {Miss} \cup SUBSET Stations]
    /\ redisUp \in BOOLEAN
    /\ pc \in [Workers -> Labels]
    /\ req \in [Workers -> Request]
    /\ source \in [Workers -> Sources]
    /\ found \in [Workers -> SUBSET Stations]
    /\ items \in [Workers -> Seq(Stations)]
    /\ \A w \in Workers : pc[w] = "upsert" => items[w] # <<>>
    /\ rows \in [Workers -> SUBSET Stations]
    /\ conn \in [Workers -> BOOLEAN]
    /\ answer \in [Workers -> [source : Sources \cup Errors, stations : SUBSET Stations]]

\* Who waits for whom: for the row of an item, or for a connection.
WaitsForRow(w, v) ==
    /\ pc[w] = "upsert" /\ conn[w] /\ UpsertAccepted
    /\ v # w
    /\ Item(w) \in rows[v]

WaitsForConnection(w) == NeedsConnection(w) /\ ~conn[w] /\ PoolExhausted

\* No set of handlers waits only on itself, for rows PostgreSQL keeps locked
\* or for pooled connections, however two KEPCO answers order their stations:
\* each upsert starts from a rolled-back session (main.py:514).
NoDeadlockedSet ==
    \A S \in (SUBSET Workers) \ {{}} :
        \E w \in S :
            /\ \A v \in S : ~WaitsForRow(w, v)
            /\ WaitsForConnection(w) => ~(ConnectionsInUse \subseteq S)

\* Whoever fills a key, and from whichever source, every station cached under
\* it lies within the key's radius of a position the key stands for, and no
\* empty list is cached: a hit could not tell it from an answer.
CachedWithinBucket ==
    \A k \in Keys : \A list \in {l1[k], l2[k]} \ {Miss} :
        /\ list # {}
        /\ \E p \in Positions :
            /\ CellOf[p] = k.cell
            /\ list \subseteq Within(p, k.radius, Stations)

\* An answer never holds a station beyond the radius its request asked for,
\* even when another requester cached the list for a wider radius and another
\* position of the same cell.
AnswersWithinRadius ==
    \A w \in Workers :
        answer[w].stations \subseteq Near(w, Stations)

\* A handler that is not serving a request keeps no transaction open and no
\* pooled connection (README: sessions do not leak).
SessionsDoNotLeak ==
    \A w \in Workers :
        pc[w] = "idle" => rows[w] = {} /\ ~conn[w]

\* Every request gets its response, whatever the caches, the pool, the
\* database and the two external services do, and whoever else is served.
EveryRequestAnswered ==
    \A w \in Workers : pc[w] # "idle" ~> pc[w] = "idle"

-----------------------------------------------------------------------------
(* The inductive invariant                                                 *)

\* Rows stay locked only from an upsert to the next item or the commit.
RowsHeldBetweenItems ==
    \A w \in Workers : rows[w] # {} => pc[w] = "items" /\ conn[w]

IdleHasNothing ==
    \A w \in Workers : pc[w] = "idle" => found[w] = {} /\ ~conn[w]

FoundWithinRadius ==
    \A w \in Workers :
        /\ found[w] \subseteq Near(w, Stations)
        /\ pc[w] \in {"fill_l1", "fill_l2"} => found[w] # {}

\* What a handler holds between its awaits: the facts that make the four safety
\* invariants above survive every step of every handler.
SearchInv ==
    /\ TypeOK
    /\ RowsHeldBetweenItems
    /\ IdleHasNothing
    /\ FoundWithinRadius
    /\ AnswersWithinRadius
    /\ CachedWithinBucket

-----------------------------------------------------------------------------
(* The abstract specification                                              *)

\* The stations KEPCO lists in one answer or another.
Listed == UNION {{payload[i] : i \in DOMAIN payload} : payload \in Payloads}

Nearby == INSTANCE NearbySearch WITH
    Requests <- Request,
    Reach <- [r \in Request |-> Within(r.pos, r.radius, Stations)],
    KeyFor <- [r \in Request |-> KeyOf(r)],
    cache <- [tier \in {"cache", "persistent_cache"} |-> IF tier = "cache" THEN l1 ELSE l2],
    serving <- {w \in Workers : pc[w] # "idle"},
    origin <- source,
    list <- found

\* However its handlers interleave and whatever fails, the search finds, caches,
\* stores and answers as NearbySearch promises: a request has one source, whose
\* failed upserts and cache writes change nothing of its answer; hits are not
\* written back; a list is cached under the key of its own request; and of a
\* KEPCO answer one station is committed at a time.
SearchKeepsItsPromises == Nearby!Spec

-----------------------------------------------------------------------------
(* What the documents say and the code does not do                         *)

\* README.md:54 says that a KEPCO call upserts the database and fills the
\* caches at once: the stations of a KEPCO answer are rows when it is sent.
UpsertsAccompanyBackfill ==
    \A w \in Workers :
        answer[w].source = "kepco_api" => answer[w].stations \subseteq stored

\* README.md:104 says that requests of one radius bucket share one cache key:
\* a hit on a first page that nothing was cut from holds every stored station
\* within the radius asked for.
HitsServeTheirRadius ==
    \A w \in Workers :
        /\ answer[w].source \in {"cache", "persistent_cache"}
        /\ req[w].page = 1
        /\ Cardinality(Stations) <= req[w].limit
        => Near(w, stored) \subseteq answer[w].stations
=============================================================================
