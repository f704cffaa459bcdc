---------------------------- MODULE MCChargerDetail ----------------------------
(***************************************************************************)
(* Small instances of ChargerDetail for TLC: one or two handlers and one   *)
(* or two stations.  The chargers are the first station's; a handler that  *)
(* asks for the second one gets them listed too.                           *)
(***************************************************************************)
EXTENDS ChargerDetail, TLC

CONSTANTS s, t, c1, c2, w1, w2

TwoWorkers == {w1, w2}
OneWorker == {w1}

OneStation == {s}
TwoStations == {s, t}

TwoChargers == {c1, c2}

AllAt == [c \in TwoChargers |-> s]

With(c, stamped) == [cp |-> c, stamped |-> stamped]

\* The same chargers in both orders, one without a provider time.
Orders == {<<With(c1, TRUE), With(c2, TRUE)>>, <<With(c2, TRUE), With(c1, FALSE)>>}

Single == {<<With(c1, TRUE)>>, <<With(c2, TRUE)>>}

Symmetry == Permutations(TwoWorkers)
=============================================================================
