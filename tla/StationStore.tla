----------------------------- MODULE StationStore -----------------------------
(***************************************************************************)
(* What a writer of the tables stations and chargers promises to those who *)
(* read them, whether it is a handler or a script: it stores the rows of a *)
(* batch all at once or not at all, never removes one, never stores a      *)
(* charger whose station is not there, and stores statuses that it fetched *)
(* no longer than Lag ago.                                                 *)
(***************************************************************************)
EXTENDS Integers

CONSTANTS
    Stations, Chargers,
    StationOf,  \* [Chargers -> Stations]
    Batches,    \* the sets of stations and of chargers stored together
    Lag         \* the time from a fetch to its commit, at most

VARIABLES
    clock,
    stationRow,  \* the stations that have a row
    status       \* when the stored status of each charger was fetched

storeVars == <<clock, stationRow, status>>

Never == -1

Stored == {c \in Chargers : status[c] # Never}

\* Every charger has its station.
Parented == \A c \in Stored : StationOf[c] \in stationRow

Init ==
    /\ clock = 0
    /\ stationRow \in SUBSET Stations
    /\ status \in [Chargers -> {Never, 0}]
    /\ Parented

Tick ==
    /\ clock' = clock + 1
    /\ UNCHANGED <<stationRow, status>>

Store(b) ==
    \E fetched \in 0..clock :
        /\ clock - fetched <= Lag
        /\ stationRow' = stationRow \cup b.stations
        /\ status' = [c \in Chargers |-> IF c \in b.chargers THEN fetched ELSE status[c]]
        /\ Parented'
        /\ UNCHANGED clock

Next == Tick \/ \E b \in Batches : Store(b)

Spec == Init /\ [][Next]_storeVars

=============================================================================
