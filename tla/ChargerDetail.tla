---------------------------- MODULE ChargerDetail ----------------------------
(***************************************************************************)
(* GET /api/v1/station/{station_id}/chargers (app/main.py,                 *)
(* get_station_charger_specs): the chargers of a station and their status, *)
(* from the detail cache (L3), else from the database if its newest status *)
(* is recent, else from the KEPCO API, whose items are upserted one by one.*)
(*                                                                         *)
(* A status is the time it was fetched at.  Time passes in ticks; every    *)
(* await that another handler can get between is a step.  A failed         *)
(* statement also stands for one that got no pooled connection             *)
(* (StationSearch has the pool).                                           *)
(***************************************************************************)
EXTENDS Integers, FiniteSets, Sequences

CONSTANTS
    Workers, Stations, Chargers,
    StationOf,       \* [Chargers -> Stations]: the csId of a cpId
    Payloads,        \* KEPCO answers: sequences of [cp, stamped] items
    Loadable,        \* stations other writers may commit
    FreshWindow,     \* 30 minutes, in ticks
    DetailTTL,       \* CACHE_DETAIL_EXPIRE_SECONDS, in ticks
    MaxLatency,      \* the longest a handler runs, in ticks
    MaxClock,        \* bound on time
    UpsertAccepted,  \* the tables accept the handler's INSERTs
    DbMayFail        \* database statements may fail

\* A KEPCO item; stamped: it has one of the keys provider_ts is read from.
ItemType == [cp : Chargers, stamped : BOOLEAN]

ASSUME DetailConstants ==
    /\ Stations # {}
    /\ StationOf \in [Chargers -> Stations]
    /\ Payloads \subseteq Seq(ItemType)
    /\ Loadable \subseteq Stations
    /\ {FreshWindow, DetailTTL, MaxLatency, MaxClock} \subseteq Nat
    /\ MaxLatency <= FreshWindow
    /\ {UpsertAccepted, DbMayFail} \subseteq BOOLEAN

VARIABLES
    clock,
    stationRow,  \* committed stations
    status,      \* the committed status of each charger, Never if it has no row
    l3,          \* the detail cache: the timestamp and the list of each station
    redisUp,     \* Redis answers commands
    job,         \* the local state of each handler and of its session
    answer       \* the last response of each handler

vars == <<clock, stationRow, status, l3, redisUp, job, answer>>

Never == -1

Times == {Never} \cup Nat

\* A list of chargers: the status of each, Never if it is not listed.
Lists == [Chargers -> Times]

Nothing == [c \in Chargers |-> Never]

ChargersOf(s) == {c \in Chargers : StationOf[c] = s}

\* MAX(stat_update_datetime) over the station's charger rows.
Newest(s) ==
    CHOOSE t \in {Never} \cup {status[c] : c \in ChargersOf(s)} :
        \A c \in ChargersOf(s) : status[c] <= t

\* The database's list of the station's chargers.
Stored(s) == [c \in Chargers |-> IF StationOf[c] = s THEN status[c] ELSE Never]

Idle == [pc |-> "idle",
         st |-> CHOOSE s \in Stations : TRUE,  \* station_id
         began |-> 0,         \* when the request came
         known |-> "no",      \* station_info: "no", from the "row" or from an "item"
         newest |-> Never,    \* last_charger_update
         now |-> 0,           \* the time the handler last read
         items |-> <<>>,      \* KEPCO items still to be processed
         list |-> Nothing,    \* cached_chargers, updated_chargers
         id |-> "none",       \* station_db_id: of a "stored" row, of a "pending" one
         bound |-> FALSE,     \* provider_ts has been assigned
         station |-> FALSE,   \* the session has an uncommitted write of st
         rows |-> {}]         \* and of these chargers

-----------------------------------------------------------------------------
(* Handlers and their sessions                                             *)

At(w, label) == job[w].pc = label

Become(w, j) == job' = [job EXCEPT ![w] = j]

Goto(w, label) == Become(w, [job[w] EXCEPT !.pc = label])

Item(w) == Head(job[w].items)

\* A job after ROLLBACK: its writes are gone, and their locks.
RolledBack(j) == [j EXCEPT !.station = FALSE, !.rows = {}]

\* PostgreSQL makes a write wait while another transaction has the row.
StationFree(w) ==
    \A v \in Workers \ {w} : job[v].station => job[v].st # job[w].st

ChargerFree(w) == \A v \in Workers \ {w} : Item(w).cp \notin job[v].rows

OnlyJob == UNCHANGED <<clock, stationRow, status, l3, redisUp, answer>>

\* Leave the handler; the session is closed, and nothing of it is uncommitted
\* but what a rollback undoes.
Answer(w, src, list) ==
    /\ answer' = [answer EXCEPT ![w] =
            [source |-> src, st |-> job[w].st, list |-> list, sent |-> clock]]
    /\ Become(w, Idle)
    /\ UNCHANGED <<clock, redisUp>>

Fail(w, src) == Answer(w, src, Nothing) /\ UNCHANGED <<stationRow, status, l3>>

-----------------------------------------------------------------------------
(* The request, the station row and the detail cache                       *)

StartRequest(w) ==
    /\ At(w, "idle")
    /\ \E s \in Stations :
        Become(w, [Idle EXCEPT !.pc = "station", !.st = s, !.began = clock])
    /\ answer' = [answer EXCEPT ![w] =
            [source |-> "none", st |-> job[w].st, list |-> Nothing, sent |-> 0]]
    /\ UNCHANGED <<clock, stationRow, status, l3, redisUp>>

\* The station's row and its newest charger status; a rollback follows.
QueryStation(w) ==
    /\ At(w, "station")
    /\ Become(w, [job[w] EXCEPT
            !.pc = "l3",
            !.known = IF job[w].st \in stationRow THEN "row" ELSE "no",
            !.newest = IF job[w].st \in stationRow THEN Newest(job[w].st) ELSE Never])
    /\ OnlyJob

\* A failed query stands for a station that is not stored.
QueryStationFails(w) ==
    /\ At(w, "station")
    /\ DbMayFail
    /\ Goto(w, "l3")
    /\ OnlyJob

Entry(w) == l3[job[w].st]

\* Mutant of CacheHit: the timestamp of the entry is not looked at.
CacheHitOfAnyAge(w) == redisUp /\ Entry(w).ts # Never

CacheHit(w) ==
    /\ redisUp
    /\ Entry(w).ts # Never
    /\ clock - Entry(w).ts <= DetailTTL

AnswerFromCache(w) ==
    /\ At(w, "l3")
    /\ CacheHit(w)
    /\ Answer(w, "cache", Entry(w).list)
    /\ UNCHANGED <<stationRow, status, l3>>

\* need_api_call is false: the row query saw a status of the last 30 minutes.
RecentlyStored(w) ==
    /\ job[w].newest # Never
    /\ clock - job[w].newest <= FreshWindow

\* A miss, an expired entry, or a Redis error.
MissCache(w) ==
    /\ At(w, "l3")
    /\ ~CacheHit(w)
    /\ Goto(w, IF RecentlyStored(w) THEN "chargers" ELSE "kepco")
    /\ OnlyJob

-----------------------------------------------------------------------------
(* The database                                                            *)

QueryChargers(w) ==
    /\ At(w, "chargers")
    /\ Become(w, [job[w] EXCEPT
            !.pc = "database", !.list = Stored(job[w].st), !.now = clock])
    /\ OnlyJob

\* Nothing catches this failure but the handler's last except: 500.
QueryChargersFails(w) ==
    /\ At(w, "chargers")
    /\ DbMayFail
    /\ Fail(w, "error")

-----------------------------------------------------------------------------
(* The KEPCO API                                                           *)

\* An answer without a list of items stands with the empty list.
KepcoAnswers(w) ==
    /\ At(w, "kepco")
    /\ \E payload \in Payloads :
        Become(w, [job[w] EXCEPT !.pc = "items", !.items = payload, !.now = clock])
    /\ OnlyJob

\* The settings are missing, or the call times out (500); or the status is not
\* 200 and cached_chargers, always empty here, has nothing to offer (502).
KepcoFails(w) ==
    /\ At(w, "kepco")
    /\ \E src \in {"error", "kepco_status"} : Fail(w, src)

\* Mutant of NextItem: the next write starts without going through its item.
NextItemAtOnce(w, j) ==
    /\ Become(w, [j EXCEPT !.items = Tail(j.items), !.id = "none"])
    /\ OnlyJob

NextItem(w, j) ==
    /\ Become(w, [j EXCEPT !.pc = "items", !.items = Tail(j.items), !.id = "none"])
    /\ OnlyJob

\* Mutant of OwnItem: the csId is not compared.
AnyItem(w) == Item(w).cp \in Chargers

\* The item's csId is the station asked for.
OwnItem(w) == StationOf[Item(w).cp] = job[w].st

SkipItem(w) ==
    /\ At(w, "items")
    /\ job[w].items # <<>>
    /\ ~OwnItem(w)
    /\ NextItem(w, job[w])

\* Mutant of ToWrite: the session is not rolled back between the items.
WriteInOneTransaction(j, id) ==
    LET bound == Head(j.items).stamped \/ j.known # "row" \/ j.bound
        k == [j EXCEPT !.bound = bound, !.id = id]
    IN  IF id = "none" THEN [k EXCEPT !.pc = "write_station"]
        ELSE IF bound THEN [k EXCEPT !.pc = "charger"]
        ELSE [k EXCEPT !.pc = "items", !.items = Tail(j.items), !.id = "none"]

\* The job about to write an item whose station has this station_db_id: the
\* session is rolled back first.  provider_ts is only reset for an item that
\* had to look for its station, so for an item without one of its keys it is
\* the previous item's, or unbound: then the item is skipped.
ToWrite(j, id) ==
    LET bound == Head(j.items).stamped \/ j.known # "row" \/ j.bound
        k == [RolledBack(j) EXCEPT !.bound = bound, !.id = id]
    IN  IF id = "none" THEN [k EXCEPT !.pc = "write_station"]
        ELSE IF bound THEN [k EXCEPT !.pc = "charger"]
        ELSE [k EXCEPT !.pc = "items", !.items = Tail(j.items), !.id = "none"]

\* An item of the station joins the answer; the station's row is known, or has
\* to be found.
TakeItem(w) ==
    LET j == [job[w] EXCEPT !.list[Item(w).cp] = job[w].now]
    IN  /\ At(w, "items")
        /\ job[w].items # <<>>
        /\ OwnItem(w)
        /\ Become(w, IF j.known = "row" THEN ToWrite(j, "stored")
                     ELSE [j EXCEPT !.pc = "find", !.known = "item"])
        /\ OnlyJob

-----------------------------------------------------------------------------
(* _ensure_station_db_id                                                   *)

\* The session sees the committed row, or its own.
FindStation(w) ==
    /\ At(w, "find")
    /\ Become(w, IF job[w].st \in stationRow THEN ToWrite(job[w], "stored")
                 ELSE IF job[w].station THEN ToWrite(job[w], "pending")
                 ELSE [job[w] EXCEPT !.pc = "add"])
    /\ OnlyJob

FindStationFails(w) ==
    /\ At(w, "find")
    /\ DbMayFail
    /\ Become(w, [RolledBack(job[w]) EXCEPT !.pc = "add"])
    /\ OnlyJob

\* INSERT ... ON CONFLICT (cs_id) DO UPDATE ... RETURNING id, not committed:
\* the caller's rollback undoes it, and the id of a new row with it.
AddStation(w) ==
    /\ At(w, "add")
    /\ UpsertAccepted
    /\ StationFree(w)
    /\ Become(w, ToWrite([job[w] EXCEPT !.station = TRUE],
                         IF job[w].st \in stationRow THEN "stored" ELSE "pending"))
    /\ OnlyJob

AddStationFails(w) ==
    /\ At(w, "add")
    /\ DbMayFail \/ ~UpsertAccepted
    /\ Become(w, ToWrite(job[w], "none"))
    /\ OnlyJob

-----------------------------------------------------------------------------
(* The upserts of an item                                                  *)

\* The station_db_id names a row the session can see.
HasParent(w) == job[w].id = "stored" \/ job[w].station

WriteCharger(w) ==
    /\ At(w, "charger") \/ At(w, "write_both")
    /\ UpsertAccepted
    /\ HasParent(w)
    /\ ChargerFree(w)
    /\ NextItem(w, [job[w] EXCEPT !.rows = job[w].rows \cup {Item(w).cp}])

\* The station and its charger, in one transaction.
WriteStation(w) ==
    /\ At(w, "write_station")
    /\ UpsertAccepted
    /\ StationFree(w)
    /\ Become(w, [job[w] EXCEPT !.station = TRUE, !.pc = "write_both"])
    /\ OnlyJob

\* The foreign key or the table rejects the row, or the statement fails,
\* perhaps while waiting: the session is rolled back, the next item is taken.
WriteFails(w) ==
    /\ \/ At(w, "charger") /\ (DbMayFail \/ ~UpsertAccepted \/ ~HasParent(w))
       \/ At(w, "write_both") /\ DbMayFail
       \/ At(w, "write_station") /\ (DbMayFail \/ ~UpsertAccepted)
    /\ NextItem(w, RolledBack(job[w]))

\* Mutant of Committed: the station's rows are replaced instead of upserted.
CommittedReplacing(w) ==
    [c \in Chargers |-> IF c \in job[w].rows THEN job[w].now
                        ELSE IF StationOf[c] = job[w].st THEN Never ELSE status[c]]

\* The charger rows after the commit of the session.
Committed(w) ==
    [c \in Chargers |-> IF c \in job[w].rows THEN job[w].now ELSE status[c]]

\* The commit, then the check that there is a station_info.
Commit(w) ==
    /\ At(w, "items")
    /\ job[w].items = <<>>
    /\ stationRow' = IF job[w].station THEN stationRow \cup {job[w].st} ELSE stationRow
    /\ status' = Committed(w)
    /\ IF job[w].known = "no"
       THEN Answer(w, "not_found", Nothing)
       ELSE /\ Become(w, [RolledBack(job[w]) EXCEPT !.pc = "api", !.now = clock])
            /\ UNCHANGED <<clock, redisUp, answer>>
    /\ UNCHANGED l3

CommitFails(w) ==
    /\ At(w, "items")
    /\ job[w].items = <<>>
    /\ DbMayFail
    /\ Fail(w, "error")

-----------------------------------------------------------------------------
(* Filling the detail cache                                                *)

\* SETEX with the timestamp read before it, then the answer.  A Redis error is
\* swallowed.
Reply(w) ==
    \E src \in {"database", "api"} :
        /\ At(w, src)
        /\ l3' = IF redisUp
                 THEN [l3 EXCEPT ![job[w].st] = [ts |-> job[w].now, list |-> job[w].list]]
                 ELSE l3
        /\ Answer(w, src, job[w].list)
        /\ UNCHANGED <<stationRow, status>>

-----------------------------------------------------------------------------
(* The environment                                                         *)

\* Time passes, up to MaxClock, and leaves no handler running for longer than
\* MaxLatency.
Tick ==
    /\ clock < MaxClock
    /\ \A w \in Workers : ~At(w, "idle") => clock - job[w].began < MaxLatency
    /\ clock' = clock + 1
    /\ UNCHANGED <<stationRow, status, l3, redisUp, job, answer>>

Expire ==
    /\ \E s \in Stations :
        /\ l3[s].ts # Never
        /\ l3' = [l3 EXCEPT ![s] = [ts |-> Never, list |-> Nothing]]
    /\ UNCHANGED <<clock, stationRow, status, redisUp, job, answer>>

RedisFailsOrRecovers ==
    /\ redisUp' = ~redisUp
    /\ UNCHANGED <<clock, stationRow, status, l3, job, answer>>

\* Another writer (a search, a loader script) commits a station.
LoadStation ==
    /\ \E s \in Loadable \ stationRow :
        /\ \A w \in Workers : ~(job[w].station /\ job[w].st = s)
        /\ stationRow' = stationRow \cup {s}
    /\ UNCHANGED <<clock, status, l3, redisUp, job, answer>>

-----------------------------------------------------------------------------
(* Specification                                                           *)

Init ==
    /\ clock = 0
    /\ stationRow \in SUBSET Stations
    /\ status \in [Chargers -> {Never, 0}]
    /\ \A c \in Chargers : status[c] # Never => StationOf[c] \in stationRow
    /\ l3 = [s \in Stations |-> [ts |-> Never, list |-> Nothing]]
    /\ redisUp \in BOOLEAN
    /\ job = [w \in Workers |-> Idle]
    /\ answer = [w \in Workers |->
            [source |-> "none", st |-> Idle.st, list |-> Nothing, sent |-> 0]]

Handle(w) ==
    \/ StartRequest(w)
    \/ QueryStation(w) \/ QueryStationFails(w)
    \/ AnswerFromCache(w) \/ MissCache(w)
    \/ QueryChargers(w) \/ QueryChargersFails(w)
    \/ KepcoAnswers(w) \/ KepcoFails(w)
    \/ SkipItem(w) \/ TakeItem(w)
    \/ FindStation(w) \/ FindStationFails(w) \/ AddStation(w) \/ AddStationFails(w)
    \/ WriteCharger(w) \/ WriteStation(w) \/ WriteFails(w)
    \/ Commit(w) \/ CommitFails(w)
    \/ Reply(w)

Next ==
    \/ \E w \in Workers : Handle(w)
    \/ Tick
    \/ Expire
    \/ RedisFailsOrRecovers
    \/ LoadStation

Spec == Init /\ [][Next]_vars

\* The steps that an answer, a timeout or the event loop brings about by
\* itself; no database failure is among them.  That Redis answers or raises is
\* assumed: its client has no timeout.
Progress(w) ==
    \/ QueryStation(w)
    \/ AnswerFromCache(w) \/ MissCache(w)
    \/ QueryChargers(w)
    \/ KepcoAnswers(w) \/ KepcoFails(w)
    \/ SkipItem(w) \/ TakeItem(w)
    \/ FindStation(w)
    \/ (~UpsertAccepted /\ AddStationFails(w))
    \/ ((~UpsertAccepted \/ ~HasParent(w)) /\ WriteFails(w))
    \/ Commit(w)
    \/ Reply(w)

Write(w) == AddStation(w) \/ WriteStation(w) \/ WriteCharger(w)

\* PostgreSQL queues the transactions that wait for a row, so a write whose
\* row is free again and again gets it.
Fairness ==
    \A w \in Workers :
        /\ WF_vars(Progress(w))
        /\ SF_vars(Write(w))

FairSpec == Spec /\ Fairness
-----------------------------------------------------------------------------
(* Properties                                                              *)

Labels == {"idle", "station", "l3", "chargers", "database", "kepco", "items", "find",
           "add", "charger", "write_station", "write_both", "api"}

Writing == {"find", "add", "charger", "write_station", "write_both"}

Sources == {"none", "cache", "database", "api", "error", "kepco_status", "not_found"}

JobType == [pc : Labels, st : Stations, began : Nat,
            known : {"no", "row", "item"}, newest : Times, now : Nat,
            items : Seq(ItemType), list : Lists,
            id : {"none", "stored", "pending"}, bound : BOOLEAN,
            station : BOOLEAN, rows : SUBSET Chargers]

\* The shape of the state: where each handler may be and what it may hold.
TypeOK ==
    /\ clock \in Nat
    /\ stationRow \in SUBSET Stations
    /\ status \in [Chargers -> Times]
    /\ l3 \in [Stations -> [ts : Times, list : Lists]]
    /\ redisUp \in BOOLEAN
    /\ job \in [Workers -> JobType]
    /\ \A w \in Workers : job[w].pc \in Writing => job[w].items # <<>>
    /\ answer \in [Workers -> [source : Sources, st : Stations, list : Lists, sent : Nat]]

\* How old the newest status of an answer may be: the window of the database,
\* the life of a cache entry, and the time a handler takes.
MaxAge == FreshWindow + DetailTTL + MaxLatency

\* Any list answered with holds a status not older than MaxAge, although the
\* database is judged by a row read before other handlers wrote older fetches
\* over it, and although a cache entry repeats a list that was old already.
NewestIsRecent ==
    \A w \in Workers :
        answer[w].list # Nothing =>
            \E c \in Chargers :
                /\ answer[w].list[c] # Never
                /\ answer[w].sent - answer[w].list[c] <= MaxAge

OfStation(st, list) == \A c \in Chargers : list[c] # Never => StationOf[c] = st

\* A list is only ever answered, cached or served again for the station its
\* chargers belong to, although KEPCO is asked by address and lists the chargers
\* of every station there.
ListsAreOfTheirStation ==
    /\ \A w \in Workers : OfStation(answer[w].st, answer[w].list)
    /\ \A st \in Stations : OfStation(st, l3[st].list)

\* Two handlers that fetched a charger's status may commit in either order: the
\* older fetch may overwrite the newer one, but by no more than the time a
\* handler takes, and no row is lost.
StatusGoesBackLittle ==
    [][\A c \in Chargers :
            status[c] # Never =>
                status'[c] # Never /\ status[c] - status'[c] <= MaxLatency]_vars

\* Who waits for whom: for the row of the station, or of a charger.
WaitsFor(w, v) ==
    /\ v # w
    /\ UpsertAccepted
    /\ \/ /\ job[w].pc \in {"add", "write_station"}
          /\ job[v].station
          /\ job[v].st = job[w].st
       \/ /\ job[w].pc \in {"charger", "write_both"}
          /\ HasParent(w)
          /\ Item(w).cp \in job[v].rows

\* No set of handlers waits only on itself, although one of them may keep a
\* station locked while it waits for a charger, and KEPCO answers list the
\* chargers in any order.
NoDeadlockedSet ==
    \A S \in (SUBSET Workers) \ {{}} : \E w \in S : \A v \in S : ~WaitsFor(w, v)

\* Every request gets its response, whatever the cache, the database and KEPCO
\* do, and whoever else writes the same rows.
EveryRequestAnswered ==
    \A w \in Workers : job[w].pc # "idle" ~> job[w].pc = "idle"

-----------------------------------------------------------------------------
(* The abstract specification                                              *)

\* What one commit may store: rows of one station.
DetailBatches ==
    UNION {{[stations |-> S, chargers |-> C] :
                S \in SUBSET {st}, C \in SUBSET ChargersOf(st)} : st \in Stations}

Store == INSTANCE StationStore WITH Batches <- DetailBatches, Lag <- MaxLatency

\* The tables change as the store promises its readers: what a handler wrote
\* shows when it commits, is of the one station that was asked for, takes no
\* row away, has its station, and was fetched at most a latency before.
WritesKeepTheStore == Store!Spec

-----------------------------------------------------------------------------
(* What the documents say and the code does not do                         *)

\* The handler's docstring (main.py:920) says that data of the last 30 minutes
\* is reused from the database: each status of such an answer is that recent.
DatabaseAnswersAreRecent ==
    \A w \in Workers : \A c \in Chargers :
        answer[w].source = "database" /\ answer[w].list[c] # Never =>
            answer[w].sent - answer[w].list[c] <= FreshWindow + MaxLatency

\* The docstring of _ensure_station_db_id (main.py:637) says that it inserts a
\* missing station and returns its key: the charger INSERT finds its station.
InsertHasItsStation == \A w \in Workers : At(w, "charger") => HasParent(w)

=============================================================================
