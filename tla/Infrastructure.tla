----------------------------- MODULE Infrastructure -----------------------------
(***************************************************************************)
(* The life of a server process (lifespan of app/main.py) and of its Redis *)
(* client (app/redis_client.py), and the endpoints that look at Redis and  *)
(* the database themselves: /health, /redis-test, the administrator's      *)
(* /redis/keys and /redis/debug, /db-test and the subsidy lookups.         *)
(***************************************************************************)
CONSTANTS Callers

VARIABLES
    server,   \* the process: "down", "starting", "connected", "serving"
    client,   \* redis_pool: a Pool, or None
    pinged,   \* history: what the ping of this process's startup decided it to be
    up,       \* those of "redis" and "db" that answer
    key,      \* whose data infra:test:key has, or Absent
    call,     \* the call of each caller
    answer    \* history: the call this step answered and its status, if any

vars == <<server, client, pinged, up, key, call, answer>>

Absent == "absent"

ASSUME CallersHaveNames == Absent \notin Callers

None == "None"

Pool == "Redis"

NeedRedis == {"redis_test", "redis_keys", "redis_debug"}

Endpoints == NeedRedis \cup {"health", "subsidy", "db_test"}

\* The first step of each endpoint.
First(to) ==
    CASE to = "health" -> "select"
      [] to = "redis_test" -> "set"
      [] to = "redis_keys" -> "scan"
      [] to = "redis_debug" -> "debug"
      [] to \in {"subsidy", "db_test"} -> "query"

Services == {"redis", "db"}

\* The services that the history of a call is about.
Watched(to) ==
    CASE to = "health" -> Services
      [] to = "redis_test" -> {"redis"}
      [] OTHER -> {}

NoCall == [pc |-> "idle",
           to |-> "health",
           client |-> None,   \* redis_client
           ok |-> {},         \* db_ok, redis_ok: the services that are
           data |-> Absent,   \* retrieved_data
           seen |-> {},       \* history: the values of up during the call
           lost |-> FALSE]    \* history: the key went away during the call

NoAnswer == [code |-> 0, call |-> NoCall]

At(c, label) == call[c].pc = label

Become(c, k) == call' = [call EXCEPT ![c] = k] /\ answer' = NoAnswer

Answer(c, k, code) ==
    /\ answer' = [code |-> code, call |-> k]
    /\ call' = [call EXCEPT ![c] = NoCall]

\* Every call that is under way sees this change of up.
Witness(new) ==
    [c \in Callers |->
        IF At(c, "idle") THEN call[c]
        ELSE [call[c] EXCEPT !.seen = @ \cup {new \cap Watched(call[c].to)}]]

OnlyCall == UNCHANGED <<server, client, pinged, up, key>>

-----------------------------------------------------------------------------
(* The process and its client                                              *)

StartServer ==
    /\ server = "down"
    /\ server' = "starting"
    /\ UNCHANGED <<client, pinged, up, key, call>>
    /\ answer' = NoAnswer

\* init_redis_pool: without an answer to its ping the process has no client.
PingAtStart ==
    /\ server = "starting"
    /\ client' = IF "redis" \in up THEN Pool ELSE None
    /\ pinged' = client'
    /\ server' = IF "redis" \in up THEN "connected" ELSE "serving"
    /\ UNCHANGED <<up, key, call>>
    /\ answer' = NoAnswer

\* Mutant of InfoAtStart: a failing INFO is handled like a failing ping.
InfoAtStartNeeded ==
    /\ server = "connected"
    /\ server' = "serving"
    /\ client' = IF "redis" \in up THEN Pool ELSE None
    /\ UNCHANGED <<pinged, up, key, call>>
    /\ answer' = NoAnswer

\* The INFO after it is only printed, and may fail.
InfoAtStart ==
    /\ server = "connected"
    /\ server' = "serving"
    /\ UNCHANGED <<client, pinged, up, key, call>>
    /\ answer' = NoAnswer

\* Mutant of StopServer: redis_pool is not set back to None.
StopServerKeepingClient ==
    /\ server = "serving"
    /\ \A c \in Callers : At(c, "idle")
    /\ server' = "down"
    /\ pinged' = None
    /\ UNCHANGED <<client, up, key, call>>
    /\ answer' = NoAnswer

\* close_redis_pool, after the last call.
StopServer ==
    /\ server = "serving"
    /\ \A c \in Callers : At(c, "idle")
    /\ server' = "down"
    /\ client' = None
    /\ pinged' = None
    /\ UNCHANGED <<up, key, call>>
    /\ answer' = NoAnswer

Crash ==
    /\ server # "down"
    /\ server' = "down"
    /\ client' = None
    /\ pinged' = None
    /\ call' = [c \in Callers |-> NoCall]
    /\ UNCHANGED <<up, key>>
    /\ answer' = NoAnswer

-----------------------------------------------------------------------------
(* The endpoints                                                           *)

Call(c) ==
    /\ server = "serving"
    /\ At(c, "idle")
    /\ \E to \in Endpoints :
        Become(c, [NoCall EXCEPT !.pc = First(to), !.to = to, !.client = client,
                                 !.seen = {up \cap Watched(to)}])
    /\ OnlyCall

\* 503: there is no client.
Refuse(c) ==
    /\ call[c].to \in NeedRedis
    /\ call[c].pc \in {"set", "scan", "debug"}
    /\ call[c].client = None
    /\ Answer(c, call[c], 503)
    /\ OnlyCall

SelectOne(c) ==
    /\ At(c, "select")
    /\ Become(c, [call[c] EXCEPT !.pc = "ping", !.ok = up \cap {"db"}])
    /\ OnlyCall

\* Mutant of Ping: redis_ok is set before the ping.
PingAfterwards(c) ==
    /\ At(c, "ping")
    /\ LET k == [call[c] EXCEPT !.ok = @ \cup {x \in {"redis"} : call[c].client = Pool}]
       IN  Answer(c, k, IF k.ok # {} THEN 200 ELSE 503)
    /\ OnlyCall

\* The answer of /health is 200 when either of them is there.
Ping(c) ==
    /\ At(c, "ping")
    /\ LET k == [call[c] EXCEPT !.ok = @ \cup {x \in up \cap {"redis"} : call[c].client = Pool}]
       IN  Answer(c, k, IF k.ok # {} THEN 200 ELSE 503)
    /\ OnlyCall

\* All calls of /redis-test write the same key.
SetKey(c) ==
    /\ At(c, "set")
    /\ call[c].client = Pool
    /\ IF "redis" \in up THEN key' = c /\ Become(c, [call[c] EXCEPT !.pc = "get"])
       ELSE Answer(c, call[c], 503) /\ UNCHANGED key
    /\ UNCHANGED <<server, client, pinged, up>>

\* Mutant of GetKey: the key is deleted after the test.
GetAndDeleteKey(c) ==
    /\ At(c, "get")
    /\ Answer(c, [call[c] EXCEPT !.data = IF "redis" \in up THEN key ELSE Absent],
              IF "redis" \in up /\ key # Absent THEN 200 ELSE 503)
    /\ key' = IF "redis" \in up THEN Absent ELSE key
    /\ UNCHANGED <<server, client, pinged, up>>

\* Any data will do: whoever wrote it, its status is "ok".
GetKey(c) ==
    /\ At(c, "get")
    /\ Answer(c, [call[c] EXCEPT !.data = IF "redis" \in up THEN key ELSE Absent],
              IF "redis" \in up /\ key # Absent THEN 200 ELSE 503)
    /\ OnlyCall

ScanKeys(c) ==
    /\ At(c, "scan")
    /\ call[c].client = Pool
    /\ Answer(c, call[c], IF "redis" \in up THEN 200 ELSE 500)
    /\ OnlyCall

DebugPing(c) ==
    /\ At(c, "debug")
    /\ call[c].client = Pool
    /\ IF "redis" \in up THEN Become(c, [call[c] EXCEPT !.pc = "info"])
       ELSE Answer(c, call[c], 503)
    /\ OnlyCall

\* INFO and the scan of the keys may fail: the answer then lacks them.
DebugInfo(c) ==
    /\ At(c, "info")
    /\ Answer(c, call[c], 200)
    /\ OnlyCall

Query(c) ==
    /\ At(c, "query")
    /\ Answer(c, call[c],
              IF "db" \in up THEN 200 ELSE IF call[c].to = "subsidy" THEN 500 ELSE 503)
    /\ OnlyCall

-----------------------------------------------------------------------------
(* The environment                                                         *)

Fails ==
    /\ \E x \in up : up' = up \ {x}
    /\ call' = Witness(up')
    /\ UNCHANGED <<server, client, pinged, key>>
    /\ answer' = NoAnswer

\* Redis may have been restarted, and forgotten the key.
Returns ==
    /\ \E x \in Services \ up :
        /\ up' = up \cup {x}
        /\ key' \in IF x = "redis" THEN {key, Absent} ELSE {key}
    /\ call' = Witness(up')
    /\ UNCHANGED <<server, client, pinged>>
    /\ answer' = NoAnswer

\* Ten seconds after it was last written.
KeyExpires ==
    /\ key # Absent
    /\ key' = Absent
    /\ call' = [c \in Callers |-> IF At(c, "get") THEN [call[c] EXCEPT !.lost = TRUE]
                                  ELSE call[c]]
    /\ UNCHANGED <<server, client, pinged, up>>
    /\ answer' = NoAnswer

-----------------------------------------------------------------------------
(* Specification                                                           *)

Init ==
    /\ server = "down"
    /\ client = None
    /\ pinged = None
    /\ up \in SUBSET Services
    /\ key = Absent
    /\ call = [c \in Callers |-> NoCall]
    /\ answer = NoAnswer

\* What a call does once it has come.
Handle(c) ==
    \/ Refuse(c)
    \/ SelectOne(c) \/ Ping(c)
    \/ SetKey(c) \/ GetKey(c)
    \/ ScanKeys(c)
    \/ DebugPing(c) \/ DebugInfo(c)
    \/ Query(c)

Next ==
    \/ StartServer \/ PingAtStart \/ InfoAtStart \/ StopServer \/ Crash
    \/ \E c \in Callers : Call(c) \/ Handle(c)
    \/ Fails \/ Returns
    \/ KeyExpires

Spec == Init /\ [][Next]_vars

-----------------------------------------------------------------------------
(* Properties                                                              *)

Labels == {"idle", "select", "ping", "set", "get", "scan", "debug", "info", "query"}

CallType == [pc : Labels, to : Endpoints, client : {None, Pool}, ok : SUBSET Services,
             data : Callers \cup {Absent}, seen : SUBSET SUBSET Services, lost : BOOLEAN]

\* The shape of the state; calls are under way only in a process that serves,
\* and a process that is down has no client.
TypeOK ==
    /\ server \in {"down", "starting", "connected", "serving"}
    /\ {client, pinged} \subseteq {None, Pool}
    /\ up \in SUBSET Services
    /\ key \in Callers \cup {Absent}
    /\ call \in [Callers -> CallType]
    /\ answer \in [code : {0, 200, 500, 503}, call : CallType]
    /\ server # "serving" => \A c \in Callers : At(c, "idle")
    /\ server \in {"down", "starting"} => client = None

\* Whether a process uses Redis is decided by the ping of its startup and by
\* nothing after it: neither a failure right behind the ping takes the client
\* away, nor does Redis coming back later give one to a process without.
PingDecides ==
    /\ server = "serving" => client = pinged
    /\ \A c \in Callers : ~At(c, "idle") => call[c].client = pinged

\* What /health says of Redis and of the database was so at some moment of the
\* call, and it only says that the server is down when it found neither.
HealthWasSo ==
    LET k == answer.call IN
    answer.code # 0 /\ k.to = "health" =>
        /\ \E u \in k.seen : "db" \in k.ok <=> "db" \in u
        /\ \E u \in k.seen : "redis" \in k.ok <=> k.client = Pool /\ "redis" \in u
        /\ answer.code = 503 <=> k.ok = {}

\* /redis-test succeeds in a process with a client when Redis was there all the
\* time and the key did not expire between the write and the read, whatever the
\* other calls, which share the key, do meanwhile.
SteadyRedisPassesTest ==
    LET k == answer.call IN
    answer.code # 0 /\ k.to = "redis_test" /\ k.client = Pool
            /\ (\A u \in k.seen : "redis" \in u) /\ ~k.lost =>
        answer.code = 200 /\ k.data # Absent

=============================================================================
