----------------------------- MODULE NearbySearch -----------------------------
(***************************************************************************)
(* What the station search promises to those who ask, whatever fails: a    *)
(* request finds its stations in one place (a cache tier as it was during  *)
(* the request, the stored stations, or KEPCO), is answered with exactly   *)
(* those, all of them within its reach, and fails only if it found none.   *)
(* A cache entry is the list of a request with its key that had found it   *)
(* elsewhere: hits are not written back.  Of what KEPCO lists for a        *)
(* request, one station at a time becomes stored.                          *)
(***************************************************************************)

CONSTANTS
    Workers, Stations, Keys, Miss,
    Requests,
    Reach,   \* [Requests -> SUBSET Stations]
    KeyFor,  \* [Requests -> Keys]
    Listed,  \* the stations KEPCO may list
    Errors

VARIABLES
    stored,
    cache,    \* tier -> key -> list of stations, or Miss
    serving,  \* who is serving a request
    req,
    origin,   \* where the request found its stations
    list,     \* those it has found so far
    answer

search == <<serving, req, origin, list, answer>>
searchVars == <<stored, cache, search>>

Tiers == {"cache", "persistent_cache"}

Init ==
    /\ stored \in SUBSET Stations
    /\ cache = [t \in Tiers |-> [k \in Keys |-> Miss]]
    /\ serving = {}
    /\ req \in [Workers -> Requests]
    /\ origin = [w \in Workers |-> "none"]
    /\ list = [w \in Workers |-> {}]
    /\ answer = [w \in Workers |-> [source |-> "none", stations |-> {}]]

Ask(w) ==
    /\ w \notin serving
    /\ serving' = serving \cup {w}
    /\ \E r \in Requests : req' = [req EXCEPT ![w] = r]
    /\ answer' = [answer EXCEPT ![w] = [source |-> "none", stations |-> {}]]
    /\ UNCHANGED <<stored, cache, origin, list>>

Find(w, place, S) ==
    /\ w \in serving
    /\ origin[w] = "none"
    /\ origin' = [origin EXCEPT ![w] = place]
    /\ list' = [list EXCEPT ![w] = S]
    /\ UNCHANGED <<stored, cache, serving, req, answer>>

FindCached(w) ==
    \E t \in Tiers :
        /\ cache[t][KeyFor[req[w]]] # Miss
        /\ Find(w, t, cache[t][KeyFor[req[w]]] \cap Reach[req[w]])

FindStored(w) ==
    \E S \in SUBSET (stored \cap Reach[req[w]]) : S # {} /\ Find(w, "database", S)

AskKepco(w) == Find(w, "kepco_api", {})

TakeListed(w) ==
    /\ origin[w] = "kepco_api"
    /\ \E s \in Listed \cap Reach[req[w]] : list' = [list EXCEPT ![w] = @ \cup {s}]
    /\ UNCHANGED <<stored, cache, serving, req, origin, answer>>

Save(w) ==
    /\ origin[w] = "kepco_api"
    /\ \E s \in list[w] : stored' = stored \cup {s}
    /\ UNCHANGED <<cache, search>>

Fill(w) ==
    /\ origin[w] \in {"database", "kepco_api"}
    /\ list[w] # {}
    /\ \E t \in Tiers : cache' = [cache EXCEPT ![t][KeyFor[req[w]]] = list[w]]
    /\ UNCHANGED <<stored, search>>

Respond(w, src, S) ==
    /\ w \in serving
    /\ serving' = serving \ {w}
    /\ answer' = [answer EXCEPT ![w] = [source |-> src, stations |-> S]]
    /\ origin' = [origin EXCEPT ![w] = "none"]
    /\ list' = [list EXCEPT ![w] = {}]
    /\ UNCHANGED <<stored, cache, req>>

Answer(w) == origin[w] # "none" /\ Respond(w, origin[w], list[w])

Fail(w) == origin[w] = "none" /\ \E e \in Errors : Respond(w, e, {})

\* An entry expires; another writer stores a station.
Forget ==
    /\ \E t \in Tiers, k \in Keys : cache' = [cache EXCEPT ![t][k] = Miss]
    /\ UNCHANGED <<stored, search>>

Load ==
    /\ \E s \in Stations : stored' = stored \cup {s}
    /\ UNCHANGED <<cache, search>>

Next ==
    \/ \E w \in Workers :
        \/ Ask(w) \/ FindCached(w) \/ FindStored(w) \/ AskKepco(w) \/ TakeListed(w)
        \/ Save(w) \/ Fill(w) \/ Answer(w) \/ Fail(w)
    \/ Forget
    \/ Load

Spec == Init /\ [][Next]_searchVars

===============================================================================
