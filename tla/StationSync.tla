------------------------------ MODULE StationSync ------------------------------
(***************************************************************************)
(* scripts/sync_incremental.py and scripts/backfill_kepco.py: they ask the *)
(* KEPCO API for one address after the other and store what it lists, the  *)
(* rows of an address in one transaction, each row by an UPDATE and, when  *)
(* that found none, an INSERT.  They run next to each other, are run again *)
(* and again, fail and are killed.                                         *)
(*                                                                         *)
(* As in ChargerDetail, a status is the time it was fetched at.  A row of  *)
(* a script is unique by the indexes of the migrations:                    *)
(* ix_stations_station_code, for the scripts store the csId there, and     *)
(* _station_charger_uc.  A handler's row has no station_code; it collides  *)
(* with a script's by the unique index on cs_id that the handler's own     *)
(* INSERT needs.                                                           *)
(***************************************************************************)
EXTENDS Integers, FiniteSets, Sequences

CONSTANTS
    Scripts,      \* the processes, each of which runs its script repeatedly
    Incremental,  \* those whose script is sync_incremental.py
    Addresses,
    Route,        \* [Scripts -> Seq(Addresses)]: gus, ADDRESSES, or the one of --scope full
    Stations, Chargers, StationOf,
    Listings,     \* what KEPCO may list at each address: sequences of items
    Loadable,     \* stations other writers may commit
    MaxRetries,   \* of fetch_only
    MaxClock,     \* bound on time
    Faults        \* requests and statements may fail, and scripts be killed

\* An item of an answer: what ids it has; dated: it has a statUpdateDatetime
\* that parse_datetime understands.
ItemType == [has : {"nothing", "station", "charger"},
             st : Stations, cp : Chargers, dated : BOOLEAN]

ASSUME SyncConstants ==
    /\ Incremental \subseteq Scripts
    /\ Route \in [Scripts -> Seq(Addresses) \ {<<>>}]
    /\ StationOf \in [Chargers -> Stations]
    /\ Listings \in [Addresses -> SUBSET Seq(ItemType)]
    /\ \A a \in Addresses : \A l \in Listings[a] : \A i \in DOMAIN l :
            l[i].has = "charger" => l[i].st = StationOf[l[i].cp]
    /\ Loadable \subseteq Stations
    /\ {MaxRetries, MaxClock} \subseteq Nat
    /\ Faults \in BOOLEAN

VARIABLES
    clock,
    stationRow,  \* committed stations
    synced,      \* those of them with a last_synced_at
    status,      \* the committed status of each charger, Never if it has no row
    job          \* the local state of each script and its transaction

vars == <<clock, stationRow, synced, status, job>>

Never == -1

Times == {Never} \cup Nat

\* The rows a listing asks for.
StationsIn(l) == {l[i].st : i \in {k \in DOMAIN l : l[k].has # "nothing"}}

ChargersIn(l) == {l[i].cp : i \in {k \in DOMAIN l : l[k].has = "charger"}}

Idle == [pc |-> "idle",
         commit |-> FALSE,    \* --commit was given
         route |-> <<>>,      \* the addresses that are left, the current one first
         tries |-> 0,         \* requests for it that have failed
         items |-> <<>>,      \* its items that are left
         fetched |-> 0,       \* when they were fetched
         stations |-> {},     \* the rows the transaction has written and locked,
         chargers |-> {},
         newStations |-> {},  \* and those of them that it inserted
         newChargers |-> {},
         listed |-> {},       \* chargers the run was told to store
         erred |-> FALSE,     \* the run printed an error
         outcome |-> "none"]  \* how the last run ended

-----------------------------------------------------------------------------
(* Scripts and their transactions                                          *)

At(p, label) == job[p].pc = label

Become(p, j) == job' = [job EXCEPT ![p] = j]

Goto(p, label) == Become(p, [job[p] EXCEPT !.pc = label])

OnlyJob == UNCHANGED <<clock, stationRow, synced, status>>

Item(p) == Head(job[p].items)

\* Mutant of Released: the locks of the chargers outlive their transaction.
ReleasedStations(j) == [j EXCEPT !.stations = {}, !.newStations = {}]

\* The end of a transaction, whichever it is.
Released(j) ==
    [j EXCEPT !.stations = {}, !.chargers = {}, !.newStations = {}, !.newChargers = {}]

\* The script ends by an exception nothing catches, or by a signal.
Ended(outcome) == [Idle EXCEPT !.outcome = outcome]

\* On to the next address, or to the last line of the script.
NextAddress(j) ==
    LET k == [Released(j) EXCEPT !.route = Tail(j.route), !.items = <<>>, !.tries = 0]
    IN  IF Tail(j.route) # <<>> THEN [k EXCEPT !.pc = "fetch"]
        ELSE [Idle EXCEPT !.outcome = "done", !.listed = j.listed, !.erred = j.erred,
                          !.commit = j.commit]

\* Mutant of Failed: the error is caught item by item, as the handlers do.
FailedItem(p) ==
    IF p \in Incremental THEN Ended("failed")
    ELSE IF job[p].items = <<>> THEN NextAddress([job[p] EXCEPT !.erred = TRUE])
    ELSE [Released(job[p]) EXCEPT !.pc = "item", !.items = Tail(job[p].items)]

\* Mutant of Failed: the backfill takes the same address again.
FailedRetrying(p) ==
    IF p \in Incremental THEN Ended("failed")
    ELSE [Released(job[p]) EXCEPT !.pc = "fetch", !.items = <<>>, !.erred = TRUE]

\* After an exception in the transaction, which is rolled back: the backfill
\* prints it and goes on with the next address.
Failed(p) ==
    IF p \in Incremental THEN Ended("failed")
    ELSE NextAddress([job[p] EXCEPT !.erred = TRUE])

\* PostgreSQL makes a write wait while another transaction has the row, or has
\* inserted one with the same unique key.
StationFree(p) == \A q \in Scripts \ {p} : Item(p).st \notin job[q].stations

ChargerFree(p) == \A q \in Scripts \ {p} : Item(p).cp \notin job[q].chargers

\* The rows a statement of the script sees: those committed, and its own.
SeesStation(p) == Item(p).st \in stationRow \cup job[p].stations

SeesCharger(p) == status[Item(p).cp] # Never \/ Item(p).cp \in job[p].chargers

-----------------------------------------------------------------------------
(* A run and its requests                                                  *)

Start(p) ==
    /\ At(p, "idle")
    /\ \E commit \in BOOLEAN :
        Become(p, [Idle EXCEPT !.pc = "fetch", !.commit = commit, !.route = Route[p]])
    /\ OnlyJob

\* No item, or a dry run: nothing is stored.
FetchAnswers(p) ==
    /\ At(p, "fetch")
    /\ \E l \in Listings[Head(job[p].route)] :
        Become(p, IF l = <<>> \/ ~job[p].commit THEN NextAddress(job[p])
                  ELSE [job[p] EXCEPT !.pc = "item", !.items = l, !.fetched = clock,
                                      !.listed = job[p].listed \cup ChargersIn(l)])
    /\ OnlyJob

\* The backfill repeats a request, then treats the address as empty.
FetchFails(p) ==
    /\ At(p, "fetch")
    /\ Faults
    /\ Become(p, IF p \in Incremental THEN Ended("failed")
                 ELSE IF job[p].tries < MaxRetries
                 THEN [job[p] EXCEPT !.tries = job[p].tries + 1]
                 ELSE NextAddress([job[p] EXCEPT !.erred = TRUE]))
    /\ OnlyJob

-----------------------------------------------------------------------------
(* upsert_item, upsert_station_and_charger                                 *)

\* An item without a csId is skipped.
TakeItem(p) ==
    /\ At(p, "item")
    /\ job[p].items # <<>>
    /\ IF Item(p).has = "nothing"
       THEN Become(p, [job[p] EXCEPT !.items = Tail(job[p].items)])
       ELSE Goto(p, IF p \in Incremental THEN "compare" ELSE "station")
    /\ OnlyJob

\* src_dt <= existing_dt: src_dt is in UTC, existing_dt comes without a zone
\* from a TIMESTAMP column, and Python refuses to compare them.
CompareRaises(p) == Item(p).dated /\ Item(p).st \in synced \cup job[p].stations

\* When it raises nothing, the comparison decides nothing either.
Compare(p) ==
    /\ At(p, "compare")
    /\ IF CompareRaises(p) THEN Become(p, Failed(p)) ELSE Goto(p, "station")
    /\ OnlyJob

\* The job after its item's station has been written.
StationDone(p, j) ==
    IF Item(p).has = "charger" THEN [j EXCEPT !.pc = "charger"]
    ELSE [j EXCEPT !.pc = "item", !.items = Tail(j.items)]

UpdateStation(p) ==
    /\ At(p, "station")
    /\ IF SeesStation(p)
       THEN /\ StationFree(p)
            /\ Become(p, StationDone(p,
                    [job[p] EXCEPT !.stations = job[p].stations \cup {Item(p).st}]))
       ELSE Goto(p, "new_station")
    /\ OnlyJob

\* Mutant of InsertStation: station_code is not the csId, nothing is unique.
InsertAnyStation(p) ==
    /\ At(p, "new_station")
    /\ Become(p, StationDone(p, [job[p] EXCEPT
            !.stations = job[p].stations \cup {Item(p).st},
            !.newStations = job[p].newStations \cup {Item(p).st}]))
    /\ OnlyJob

InsertStation(p) ==
    /\ At(p, "new_station")
    /\ StationFree(p)
    /\ Item(p).st \notin stationRow
    /\ Become(p, StationDone(p, [job[p] EXCEPT
            !.stations = job[p].stations \cup {Item(p).st},
            !.newStations = job[p].newStations \cup {Item(p).st}]))
    /\ OnlyJob

ChargerDone(p, j) == [j EXCEPT !.pc = "item", !.items = Tail(j.items)]

UpdateCharger(p) ==
    /\ At(p, "charger")
    /\ IF SeesCharger(p)
       THEN /\ ChargerFree(p)
            /\ Become(p, ChargerDone(p,
                    [job[p] EXCEPT !.chargers = job[p].chargers \cup {Item(p).cp}]))
       ELSE Goto(p, "new_charger")
    /\ OnlyJob

InsertCharger(p) ==
    /\ At(p, "new_charger")
    /\ ChargerFree(p)
    /\ status[Item(p).cp] = Never
    /\ Become(p, ChargerDone(p, [job[p] EXCEPT
            !.chargers = job[p].chargers \cup {Item(p).cp},
            !.newChargers = job[p].newChargers \cup {Item(p).cp}]))
    /\ OnlyJob

\* Another transaction has committed the row between the UPDATE and the INSERT.
InsertCollides(p) ==
    /\ \/ At(p, "new_station") /\ Item(p).st \in stationRow
       \/ At(p, "new_charger") /\ status[Item(p).cp] # Never
    /\ Become(p, Failed(p))
    /\ OnlyJob

\* Mutant of Commit: each item is committed, not each address.
CommitAnyTime(p) ==
    /\ At(p, "item")
    /\ stationRow' = stationRow \cup job[p].stations
    /\ synced' = synced \cup job[p].stations
    /\ status' = [c \in Chargers |->
            IF c \in job[p].chargers THEN job[p].fetched ELSE status[c]]
    /\ Become(p, IF job[p].items = <<>> THEN NextAddress(job[p]) ELSE Released(job[p]))
    /\ UNCHANGED clock

Commit(p) ==
    /\ At(p, "item")
    /\ job[p].items = <<>>
    /\ stationRow' = stationRow \cup job[p].stations
    /\ synced' = synced \cup job[p].stations
    /\ status' = [c \in Chargers |->
            IF c \in job[p].chargers THEN job[p].fetched ELSE status[c]]
    /\ Become(p, NextAddress(job[p]))
    /\ UNCHANGED clock

-----------------------------------------------------------------------------
(* Failures                                                                *)

InTransaction ==
    {"item", "compare", "station", "new_station", "charger", "new_charger"}

\* A statement, or the commit, fails.
StatementFails(p) ==
    /\ Faults
    /\ job[p].pc \in InTransaction
    /\ Become(p, Failed(p))
    /\ OnlyJob

\* p waits for a row that q has written.
WaitsFor(p, q) ==
    /\ p # q
    /\ \/ /\ \/ At(p, "station") /\ SeesStation(p)
             \/ At(p, "new_station") /\ Item(p).st \notin stationRow
          /\ Item(p).st \in job[q].stations
       \/ /\ \/ At(p, "charger") /\ SeesCharger(p)
             \/ At(p, "new_charger") /\ status[Item(p).cp] = Never
          /\ Item(p).cp \in job[q].chargers

\* PostgreSQL finds a circle of waiting transactions and aborts one of them.
DeadlockDetected(p) ==
    /\ \E S \in SUBSET Scripts :
        /\ p \in S
        /\ \A q \in S : (\E r \in S : WaitsFor(q, r)) /\ (\E r \in S : WaitsFor(r, q))
    /\ Become(p, Failed(p))
    /\ OnlyJob

Killed(p) ==
    /\ Faults
    /\ ~At(p, "idle")
    /\ Become(p, Ended("killed"))
    /\ OnlyJob

-----------------------------------------------------------------------------
(* The environment                                                         *)

\* Time passes, up to MaxClock.
Tick ==
    /\ clock < MaxClock
    /\ clock' = clock + 1
    /\ UNCHANGED <<stationRow, synced, status, job>>

\* Another writer (a handler's upsert) commits a station.
LoadStation ==
    /\ \E s \in Loadable \ stationRow :
        /\ \A p \in Scripts : s \notin job[p].stations
        /\ stationRow' = stationRow \cup {s}
        /\ synced' \in {synced, synced \cup {s}}
    /\ UNCHANGED <<clock, status, job>>

-----------------------------------------------------------------------------
(* Specification                                                           *)

Init ==
    /\ clock = 0
    /\ stationRow \in SUBSET Stations
    /\ synced \in SUBSET stationRow
    /\ status \in [Chargers -> {Never, 0}]
    /\ \A c \in Chargers : status[c] # Never => StationOf[c] \in stationRow
    /\ job = [p \in Scripts |-> Idle]

\* The statements that may wait for a row.
Write(p) ==
    UpdateStation(p) \/ InsertStation(p) \/ UpdateCharger(p) \/ InsertCharger(p)

\* What a running script does next by itself.
Progress(p) ==
    \/ FetchAnswers(p) \/ FetchFails(p)
    \/ TakeItem(p) \/ Compare(p) \/ InsertCollides(p)
    \/ Commit(p)

Run(p) ==
    \/ Start(p)
    \/ Progress(p)
    \/ Write(p)
    \/ StatementFails(p) \/ DeadlockDetected(p) \/ Killed(p)

Next ==
    \/ \E p \in Scripts : Run(p)
    \/ Tick
    \/ LoadStation

Spec == Init /\ [][Next]_vars

\* Every request ends, by its timeout if need be; PostgreSQL queues the
\* transactions that wait for a row, and resolves every deadlock.
Fairness ==
    /\ \A p \in Scripts : WF_vars(Progress(p)) /\ SF_vars(Write(p))
    /\ WF_vars(\E p \in Scripts : DeadlockDetected(p))

FairSpec == Spec /\ Fairness
-----------------------------------------------------------------------------
(* Properties                                                              *)

JobType == [pc : InTransaction \cup {"idle", "fetch"}, commit : BOOLEAN,
            route : Seq(Addresses), tries : 0..MaxRetries, items : Seq(ItemType),
            fetched : Nat, stations : SUBSET Stations, chargers : SUBSET Chargers,
            newStations : SUBSET Stations, newChargers : SUBSET Chargers,
            listed : SUBSET Chargers, erred : BOOLEAN,
            outcome : {"none", "done", "failed", "killed"}]

\* The shape of the state: where each script may be and what it may hold; rows
\* are locked only within a transaction, and a run has an address left.
TypeOK ==
    /\ clock \in Nat
    /\ stationRow \in SUBSET Stations
    /\ synced \in SUBSET stationRow
    /\ status \in [Chargers -> Times]
    /\ job \in [Scripts -> JobType]
    /\ \A p \in Scripts :
        /\ ~At(p, "idle") => job[p].route # <<>>
        /\ job[p].pc \in InTransaction \ {"item"} => job[p].items # <<>>
        /\ job[p].pc \notin InTransaction =>
                job[p].stations = {} /\ job[p].chargers = {}

\* No second row of a station or a charger is ever made, although looking for
\* it and inserting it are two statements, and two scripts, or a script and a
\* handler, may both have found none.
OneRowEach ==
    \A p \in Scripts :
        /\ job[p].newStations \cap stationRow = {}
        /\ \A c \in job[p].newChargers : status[c] = Never
        /\ \A q \in Scripts \ {p} :
            /\ job[p].newStations \cap job[q].newStations = {}
            /\ job[p].newChargers \cap job[q].newChargers = {}

\* A run that reaches its last line without having printed an error has stored
\* every charger it was told of, with its station.
DoneMeansStored ==
    \A p \in Scripts : \A c \in job[p].listed :
        job[p].outcome = "done" /\ ~job[p].erred =>
            status[c] # Never /\ StationOf[c] \in stationRow

\* Whatever KEPCO and the database do, a run comes to an end: retries are
\* bounded, and transactions that wait for each other do not wait for ever.
EveryRunEnds == \A p \in Scripts : ~At(p, "idle") ~> At(p, "idle")

-----------------------------------------------------------------------------
(* The abstract specification                                              *)

\* The batches: a listing as a whole, or one station of another writer.
BatchOf(l) == [stations |-> StationsIn(l), chargers |-> ChargersIn(l)]

SyncBatches ==
    {BatchOf(l) : l \in UNION {Listings[a] : a \in Addresses}}
        \cup {[stations |-> {s}, chargers |-> {}] : s \in Loadable}

Store == INSTANCE StationStore WITH Batches <- SyncBatches, Lag <- MaxClock

\* The tables change only by whole listings: a reader never sees one listing of
\* an address half stored, or two mixed, and no charger without its station,
\* although the rows are written one by one and scripts overlap in any order.
ListingsAreStoredWhole == Store!Spec

-----------------------------------------------------------------------------
(* What the documents say and the code does not do                         *)

\* sync_incremental.py:4 calls itself a safe, idempotent script: a run next to
\* no other, with no request or statement failing, is not ended by an error.
RunsAgainSafely == \A p \in Incremental : job[p].outcome # "failed"

=============================================================================
