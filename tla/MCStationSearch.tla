---------------------------- MODULE MCStationSearch ----------------------------
(***************************************************************************)
(* Small instances of StationSearch for TLC.  In the instances with one    *)
(* position a station is inside every radius asked for and another only    *)
(* inside the larger one.  Two requesters stand at different positions of  *)
(* one cache cell: each has one station beyond the cell's bucket of        *)
(* 10000 m, so that no list of both belongs under its key, and one inside, *)
(* which for one of them is beyond the smaller radius asked for.           *)
(***************************************************************************)
EXTENDS StationSearch, TLC

CONSTANTS a, b, w1, w2, here, there

TwoWorkers == {w1, w2}
OneWorker == {w1}

TwoStations == {a, b}

Here == {here}
HereAndThere == {here, there}

OneCell == [p \in HereAndThere |-> "cell"]

DistHere == [p \in Here |-> (a :> 3000 @@ b :> 8000)]

DistBoth == [p \in HereAndThere |->
                IF p = here THEN (a :> 9500 @@ b :> 10300)
                            ELSE (a :> 10200 @@ b :> 9900)]

ItemOrders == {<<a, b>>, <<b, a>>}
ItemsPerCharger == {<<a, a, b>>, <<>>}

Symmetry == Permutations(TwoWorkers)
=============================================================================
