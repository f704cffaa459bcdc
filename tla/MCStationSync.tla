----------------------------- MODULE MCStationSync -----------------------------
(***************************************************************************)
(* Small instances of StationSync for TLC: a run of each script over the   *)
(* same addresses, whose listings have the same rows in both orders.       *)
(***************************************************************************)
EXTENDS StationSync, TLC

CONSTANTS s, t, c, d, x, y, inc, back

Both == {inc, back}
OnlyIncremental == {inc}

TwoAddresses == {x, y}
OneAddress == {x}
TwoStations == {s, t}
TwoChargers == {c, d}

AtTheirs == [k \in TwoChargers |-> IF k = c THEN s ELSE t]

\* Each script goes through both addresses.
BothRoutes == [p \in Both |-> <<x, y>>]
FullRoute == [p \in OnlyIncremental |-> <<x>>]

Of(k, dated) == [has |-> "charger", st |-> AtTheirs[k], cp |-> k, dated |-> dated]
Alone(st) == [has |-> "station", st |-> st, cp |-> c, dated |-> FALSE]
Nameless == [has |-> "nothing", st |-> s, cp |-> c, dated |-> TRUE]

\* At x both chargers, in either order; at y one station, or nothing.
Overlapping ==
    [a \in TwoAddresses |->
        IF a = x THEN {<<Of(c, TRUE), Of(d, FALSE)>>, <<Of(d, FALSE), Of(c, FALSE)>>}
        ELSE {<<>>, <<Nameless, Alone(t)>>}]

Dated == [a \in OneAddress |-> {<<Of(c, TRUE)>>, <<Of(c, TRUE), Of(d, TRUE)>>}]
=============================================================================
