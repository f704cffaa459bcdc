-------------------------- MODULE InfrastructureProofs --------------------------
(***************************************************************************)
(* Proofs about Infrastructure, for any number of concurrent calls.        *)
(***************************************************************************)
EXTENDS Infrastructure, TLAPS

-----------------------------------------------------------------------------
(* The inductive invariant                                                 *)

\* A label belongs to its endpoint.
LabelOfEndpoint(k) ==
    /\ k.pc \in {"select", "ping"} => k.to = "health"
    /\ k.pc \in {"set", "get"} => k.to = "redis_test"
    /\ k.pc = "scan" => k.to = "redis_keys"
    /\ k.pc \in {"debug", "info"} => k.to = "redis_debug"
    /\ k.pc = "query" => k.to \in {"subsidy", "db_test"}

\* A call has the client the process started with, and has seen what is so
\* now; /health has seen what its reading of the database says; and the key that
\* a call has written is only gone for a reason that it has noticed.
CallInv(c) ==
    /\ LabelOfEndpoint(call[c])
    /\ ~At(c, "idle") =>
        /\ call[c].client = pinged
        /\ up \cap Watched(call[c].to) \in call[c].seen
    /\ At(c, "ping") => \E u \in call[c].seen : "db" \in call[c].ok <=> "db" \in u
    /\ At(c, "ping") => call[c].ok \subseteq {"db"}
    /\ At(c, "get") /\ ~call[c].lost /\ (\A u \in call[c].seen : "redis" \in u) =>
        key # Absent

InfraInv ==
    /\ server \in {"connected", "serving"} => client = pinged
    /\ \A c \in Callers : CallInv(c)
    /\ HealthWasSo
    /\ SteadyRedisPassesTest

-----------------------------------------------------------------------------
(* Type correctness                                                        *)

LEMMA FirstIsLabel ==
  ASSUME NEW to \in Endpoints
  PROVE  First(to) \in {"select", "set", "scan", "debug", "query"}
BY DEF Endpoints, NeedRedis, First

LEMMA NoCallType ==
  /\ NoCall \in CallType /\ NoCall.pc = "idle"
  /\ NoAnswer \in [code : {0, 200, 500, 503}, call : CallType] /\ NoAnswer.code = 0
<1>1. NoCall \in CallType /\ NoCall.pc = "idle"
  BY DEF NoCall, CallType, Labels, Endpoints
<1> QED BY <1>1 DEF NoAnswer

\* Answering leaves the types as they are.
LEMMA AnswerTypes ==
  ASSUME TypeOK, NEW c \in Callers, NEW k \in CallType, NEW code \in {0, 200, 500, 503},
         Answer(c, k, code)
  PROVE  /\ call' \in [Callers -> CallType]
         /\ answer' \in [code : {0, 200, 500, 503}, call : CallType]
         /\ call' = [call EXCEPT ![c] = NoCall]
BY NoCallType DEF TypeOK, Answer

\* So does a step of a call that becomes k.
LEMMA BecomeTypes ==
  ASSUME TypeOK, NEW c \in Callers, NEW k \in CallType, Become(c, k)
  PROVE  /\ call' \in [Callers -> CallType]
         /\ answer' \in [code : {0, 200, 500, 503}, call : CallType]
         /\ \A d \in Callers \ {c} : call'[d] = call[d]
BY NoCallType DEF TypeOK, Become, NoAnswer

LEMMA WitnessTypes ==
  ASSUME TypeOK, NEW u \in SUBSET Services
  PROVE  /\ Witness(u) \in [Callers -> CallType]
         /\ \A c \in Callers : Witness(u)[c].pc = call[c].pc
<1>1. ASSUME NEW c \in Callers
      PROVE  Witness(u)[c] \in CallType /\ Witness(u)[c].pc = call[c].pc
  <2>1. call[c] \in CallType
    BY DEF TypeOK
  <2> QED BY <2>1 DEF Witness, CallType, At
<1>2. Witness(u) = [c \in Callers |-> Witness(u)[c]]
  BY DEF Witness
<1> QED BY <1>1, <1>2

LEMMA HandleTypes ==
  ASSUME TypeOK, NEW c \in Callers, Call(c) \/ Handle(c)
  PROVE  TypeOK'
<1>0. client \in {None, Pool} /\ up \in SUBSET Services
  BY DEF TypeOK
<1>1. call[c] \in CallType
  BY DEF TypeOK
<1>2. key \in Callers \cup {Absent} /\ c \in Callers
  BY DEF TypeOK
<1>3. server = "serving"
  <2>1. Call(c) => server = "serving"
    BY DEF Call
  <2>2. Handle(c) => call[c].pc # "idle"
    BY DEF Handle, At, Refuse, SelectOne, Ping, SetKey, GetKey, ScanKeys, DebugPing,
           DebugInfo, Query
  <2>3. server # "serving" => call[c].pc = "idle"
    BY DEF TypeOK, At
  <2> QED BY <2>1, <2>2, <2>3
<1>4. ASSUME call' \in [Callers -> CallType], key' \in Callers \cup {Absent},
             answer' \in [code : {0, 200, 500, 503}, call : CallType],
             UNCHANGED <<server, client, pinged, up>>
      PROVE  TypeOK'
  BY <1>3, <1>4 DEF TypeOK
<1> USE DEF At, OnlyCall
<1>5. CASE Call(c)
  <2> DEFINE New(to) == [NoCall EXCEPT !.pc = First(to), !.to = to, !.client = client,
                                       !.seen = {up \cap Watched(to)}]
  <2>1. PICK to \in Endpoints : Become(c, New(to))
    BY <1>5 DEF Call
  <2>2. {up \cap Watched(to)} \in SUBSET SUBSET Services
    BY <1>0
  <2>3. First(to) \in Labels
    BY FirstIsLabel DEF Labels
  <2>4. New(to) \in CallType
    <3>1. ASSUME NEW k \in CallType, NEW label \in Labels, NEW cl \in {None, Pool},
                 NEW S \in SUBSET SUBSET Services
          PROVE  [k EXCEPT !.pc = label, !.to = to, !.client = cl, !.seen = S] \in CallType
      BY DEF CallType
    <3>2. NoCall \in CallType /\ First(to) \in Labels /\ client \in {None, Pool}
      BY <1>0, <2>3, NoCallType
    <3> DEFINE S == {up \cap Watched(to)}
    <3>3. S \in SUBSET SUBSET Services
      BY <2>2
    <3> HIDE DEF S
    <3>4. [NoCall EXCEPT !.pc = First(to), !.to = to, !.client = client, !.seen = S]
            \in CallType
      BY <3>1, <3>2, <3>3
    <3> QED BY <3>4 DEF S
  <2> HIDE DEF New
  <2>5. call' \in [Callers -> CallType]
        /\ answer' \in [code : {0, 200, 500, 503}, call : CallType]
    BY <2>1, <2>4, BecomeTypes
  <2> QED BY <1>2, <1>4, <1>5, <2>5 DEF Call
<1>6. CASE Refuse(c)
  BY <1>1, <1>2, <1>3, <1>4, <1>6, AnswerTypes DEF Refuse
<1>7. CASE SelectOne(c)
  <2>1. [call[c] EXCEPT !.pc = "ping", !.ok = up \cap {"db"}] \in CallType
    BY <1>0, <1>1 DEF CallType, Labels
  <2> QED BY <1>2, <1>3, <1>4, <1>7, <2>1, BecomeTypes DEF SelectOne
<1>8. CASE Ping(c)
  <2>1. [call[c] EXCEPT !.ok = @ \cup {x \in up \cap {"redis"} : call[c].client = Pool}]
          \in CallType
    BY <1>0, <1>1 DEF CallType
  <2> QED BY <1>2, <1>3, <1>4, <1>8, <2>1, AnswerTypes DEF Ping
<1>9. CASE SetKey(c)
  <2>1. [call[c] EXCEPT !.pc = "get"] \in CallType
    BY <1>1 DEF CallType, Labels
  <2>2. CASE "redis" \in up
    BY <1>2, <1>3, <1>4, <1>9, <2>1, <2>2, BecomeTypes DEF SetKey
  <2>3. CASE "redis" \notin up
    BY <1>1, <1>2, <1>3, <1>4, <1>9, <2>3, AnswerTypes DEF SetKey
  <2> QED BY <2>2, <2>3
<1>10. CASE GetKey(c)
  <2>1. [call[c] EXCEPT !.data = IF "redis" \in up THEN key ELSE Absent] \in CallType
    BY <1>1, <1>2 DEF CallType
  <2> QED BY <1>2, <1>3, <1>4, <1>10, <2>1, AnswerTypes DEF GetKey
<1>11. CASE ScanKeys(c)
  BY <1>1, <1>2, <1>3, <1>4, <1>11, AnswerTypes DEF ScanKeys
<1>12. CASE DebugPing(c)
  <2>1. [call[c] EXCEPT !.pc = "info"] \in CallType
    BY <1>1 DEF CallType, Labels
  <2>2. CASE "redis" \in up
    BY <1>2, <1>3, <1>4, <1>12, <2>1, <2>2, BecomeTypes DEF DebugPing
  <2>3. CASE "redis" \notin up
    BY <1>1, <1>2, <1>3, <1>4, <1>12, <2>3, AnswerTypes DEF DebugPing
  <2> QED BY <2>2, <2>3
<1>13. CASE DebugInfo(c)
  BY <1>1, <1>2, <1>3, <1>4, <1>13, AnswerTypes DEF DebugInfo
<1>14. CASE Query(c)
  BY <1>1, <1>2, <1>3, <1>4, <1>14, AnswerTypes DEF Query
<1> QED BY <1>5, <1>6, <1>7, <1>8, <1>9, <1>10, <1>11, <1>12, <1>13, <1>14 DEF Handle

LEMMA ProcessTypes ==
  ASSUME TypeOK, StartServer \/ PingAtStart \/ InfoAtStart \/ StopServer \/ Crash
  PROVE  TypeOK'
<1> USE NoCallType DEF TypeOK, At
<1>1. CASE StartServer
  BY <1>1 DEF StartServer
<1>2. CASE PingAtStart
  BY <1>2 DEF PingAtStart
<1>3. CASE InfoAtStart
  BY <1>3 DEF InfoAtStart
<1>4. CASE StopServer
  BY <1>4 DEF StopServer
<1>5. CASE Crash
  <2>1. \A c \in Callers : call'[c].pc = "idle"
    BY <1>5 DEF Crash
  <2> QED BY <1>5, <2>1 DEF Crash
<1> QED BY <1>1, <1>2, <1>3, <1>4, <1>5

LEMMA EnvironmentTypes ==
  ASSUME TypeOK, Fails \/ Returns \/ KeyExpires
  PROVE  TypeOK'
<1>1. server' = server /\ client' = client /\ pinged' = pinged /\ answer' = NoAnswer
  BY DEF Fails, Returns, KeyExpires
<1>2. up' \in SUBSET Services /\ key' \in Callers \cup {Absent}
  BY DEF TypeOK, Fails, Returns, KeyExpires
<1>3. call' \in [Callers -> CallType] /\ \A c \in Callers : call'[c].pc = call[c].pc
  <2>1. CASE call' = Witness(up')
    BY <2>1, <1>2, WitnessTypes
  <2>2. CASE KeyExpires
    <3>0. ASSUME NEW k \in CallType
          PROVE  [k EXCEPT !.lost = TRUE] \in CallType /\ [k EXCEPT !.lost = TRUE].pc = k.pc
      BY DEF CallType
    <3>1. \A c \in Callers : [call[c] EXCEPT !.lost = TRUE] \in CallType /\ call[c] \in CallType
                            /\ [call[c] EXCEPT !.lost = TRUE].pc = call[c].pc
      <4> SUFFICES ASSUME NEW c \in Callers
                   PROVE  /\ [call[c] EXCEPT !.lost = TRUE] \in CallType /\ call[c] \in CallType
                          /\ [call[c] EXCEPT !.lost = TRUE].pc = call[c].pc
        OBVIOUS
      <4>1. call[c] \in CallType
        BY DEF TypeOK
      <4> QED BY <3>0, <4>1
    <3> QED BY <2>2, <3>1 DEF KeyExpires
  <2> QED BY <2>1, <2>2 DEF Fails, Returns
<1> QED BY <1>1, <1>2, <1>3, NoCallType DEF TypeOK, At

\* Every variable keeps its type; a process that does not serve has no calls,
\* and one that is down no client.
THEOREM InfrastructureTypeCorrect == Spec => []TypeOK
<1>1. Init => TypeOK
  <2> SUFFICES ASSUME Init PROVE TypeOK
    OBVIOUS
  <2>1. server = "down" /\ key = Absent /\ call = [c \in Callers |-> NoCall] /\ answer = NoAnswer
    BY DEF Init
  <2>2. client = None /\ pinged = None /\ up \in SUBSET Services
    BY DEF Init
  <2> QED BY <2>1, <2>2, NoCallType DEF TypeOK, At
<1>2. TypeOK /\ [Next]_vars => TypeOK'
  <2> SUFFICES ASSUME TypeOK, [Next]_vars PROVE TypeOK'
    OBVIOUS
  <2>1. CASE UNCHANGED vars
    BY <2>1 DEF vars, TypeOK, At
  <2> QED BY <2>1, HandleTypes, ProcessTypes, EnvironmentTypes DEF Next
<1> QED BY <1>1, <1>2, PTL DEF Spec

-----------------------------------------------------------------------------
(* Preservation of the invariant                                           *)

LEMMA NoCallInv ==
  ASSUME NEW c \in Callers, call'[c] = NoCall
  PROVE  CallInv(c)'
BY NoCallType DEF CallInv, LabelOfEndpoint, At

\* Nothing is promised by a step that answers no call.
LEMMA NoAnswerInv ==
  ASSUME answer' = NoAnswer
  PROVE  HealthWasSo' /\ SteadyRedisPassesTest'
BY NoCallType DEF HealthWasSo, SteadyRedisPassesTest

\* What a step of one call leaves alone.
LEMMA HandleFrame ==
  ASSUME TypeOK, NEW c \in Callers, Call(c) \/ Handle(c)
  PROVE  /\ UNCHANGED <<server, client, pinged, up>>
         /\ key' \in {key, c}
         /\ \A d \in Callers \ {c} : call'[d] = call[d]
<1> USE DEF TypeOK, OnlyCall, Become, Answer
<1>1. CASE Call(c)
  <2>1. PICK k : Become(c, k)
    BY <1>1 DEF Call
  <2>2. UNCHANGED <<server, client, pinged, up, key>>
    BY <1>1 DEF Call
  <2>3. \A d \in Callers \ {c} : call'[d] = call[d]
    BY <2>1
  <2> QED BY <2>2, <2>3
<1>2. CASE Refuse(c) \/ ScanKeys(c) \/ DebugPing(c) \/ DebugInfo(c) \/ Query(c)
  BY <1>2 DEF Refuse, ScanKeys, DebugPing, DebugInfo, Query
<1>3. CASE SelectOne(c) \/ Ping(c)
  BY <1>3 DEF SelectOne, Ping
<1>4. CASE SetKey(c) \/ GetKey(c)
  BY <1>4 DEF SetKey, GetKey
<1> QED BY <1>1, <1>2, <1>3, <1>4 DEF Handle

\* The calls that do not take the step keep their part of the invariant.
LEMMA OthersKeepInv ==
  ASSUME TypeOK, NEW c \in Callers, Call(c) \/ Handle(c), NEW d \in Callers \ {c}, CallInv(d)
  PROVE  CallInv(d)'
<1>1. call'[d] = call[d] /\ pinged' = pinged /\ up' = up /\ key' \in {key, c}
  BY HandleFrame
<1>2. c # Absent
  BY CallersHaveNames DEF CallersHaveNames
<1> QED BY <1>1, <1>2 DEF CallInv, At

LEMMA StepKeepsInv ==
  ASSUME TypeOK, InfraInv, NEW c \in Callers, Call(c) \/ Handle(c)
  PROVE  CallInv(c)' /\ HealthWasSo' /\ SteadyRedisPassesTest'
<1>1. call \in [Callers -> CallType] /\ call[c] \in CallType
  BY DEF TypeOK
<1>2. CallInv(c)
  BY DEF InfraInv
<1>3. ASSUME NEW k \in CallType, NEW code, Answer(c, k, code)
      PROVE  /\ call'[c] = NoCall /\ CallInv(c)'
             /\ answer' = [code |-> code, call |-> k]
  BY <1>1, <1>3, NoCallInv DEF Answer
<1>4. ASSUME NEW k \in CallType, NEW code, Answer(c, k, code),
             k.to \notin {"health", "redis_test"}
      PROVE  CallInv(c)' /\ HealthWasSo' /\ SteadyRedisPassesTest'
  BY <1>3, <1>4 DEF HealthWasSo, SteadyRedisPassesTest
<1>5. ASSUME NEW k, Become(c, k)
      PROVE  call'[c] = k /\ HealthWasSo' /\ SteadyRedisPassesTest'
  BY <1>1, <1>5, NoAnswerInv DEF Become
<1>6. CASE Call(c)
  <2> DEFINE New(to) == [NoCall EXCEPT !.pc = First(to), !.to = to, !.client = client,
                                       !.seen = {up \cap Watched(to)}]
  <2>1. PICK to \in Endpoints : Become(c, New(to))
    BY <1>6 DEF Call
  <2>2. call'[c] = New(to) /\ HealthWasSo' /\ SteadyRedisPassesTest'
    BY <1>5, <2>1
  <2>3. /\ New(to).pc = First(to) /\ New(to).to = to /\ New(to).client = client
        /\ New(to).seen = {up \cap Watched(to)}
    BY DEF NoCall
  <2>4. First(to) \notin {"ping", "get", "info", "idle"} /\ LabelOfEndpoint(New(to))
    BY <2>3 DEF Endpoints, NeedRedis, First, LabelOfEndpoint
  <2>5. client' = pinged' /\ up' = up /\ client' = client
    BY <1>6, HandleFrame DEF Call, InfraInv
  <2> HIDE DEF New
  <2>6. CallInv(c)'
    BY <2>2, <2>3, <2>4, <2>5 DEF CallInv, At
  <2> QED BY <2>2, <2>6
<1>7. CASE Refuse(c)
  <2>1. Answer(c, call[c], 503) /\ call[c].client = None /\ call[c].to # "health"
    BY <1>7 DEF Refuse, NeedRedis
  <2>2. answer' = [code |-> 503, call |-> call[c]] /\ CallInv(c)'
    BY <1>1, <1>3, <2>1
  <2> QED BY <2>1, <2>2 DEF HealthWasSo, SteadyRedisPassesTest, None, Pool
<1>8. CASE SelectOne(c)
  <2> DEFINE k == [call[c] EXCEPT !.pc = "ping", !.ok = up \cap {"db"}]
  <2>1. call'[c] = k /\ HealthWasSo' /\ SteadyRedisPassesTest' /\ At(c, "select")
    BY <1>5, <1>8 DEF SelectOne
  <2>2. /\ k.pc = "ping" /\ k.to = call[c].to /\ k.client = call[c].client
        /\ k.seen = call[c].seen /\ k.ok = up \cap {"db"}
    BY <1>1 DEF CallType
  <2>3. pinged' = pinged /\ up' = up
    BY HandleFrame
  <2>4. /\ call[c].to = "health" /\ call[c].client = pinged
        /\ up \cap Watched(call[c].to) \in call[c].seen
    BY <1>2, <2>1 DEF CallInv, LabelOfEndpoint, At
  <2>5. \E u \in k.seen : "db" \in k.ok <=> "db" \in u
    BY <2>2, <2>4 DEF Watched, Services
  <2> HIDE DEF k
  <2>6. CallInv(c)'
    BY <2>1, <2>2, <2>3, <2>4, <2>5 DEF CallInv, LabelOfEndpoint, At
  <2> QED BY <2>1, <2>6
<1>9. CASE Ping(c)
  <2> DEFINE k == [call[c] EXCEPT
                     !.ok = @ \cup {x \in up \cap {"redis"} : call[c].client = Pool}]
  <2>1. Answer(c, k, IF k.ok # {} THEN 200 ELSE 503) /\ At(c, "ping")
    BY <1>9 DEF Ping
  <2>2. /\ k \in CallType /\ k.to = call[c].to /\ k.client = call[c].client
        /\ k.seen = call[c].seen
        /\ k.ok = call[c].ok \cup {x \in up \cap {"redis"} : call[c].client = Pool}
    <3>1. up \in SUBSET Services
      BY DEF TypeOK
    <3> QED BY <1>1, <3>1 DEF CallType
  <2>3. /\ k.to = "health" /\ up \cap Watched("health") \in k.seen
        /\ call[c].ok \subseteq {"db"}
        /\ \E u \in k.seen : "db" \in call[c].ok <=> "db" \in u
    BY <1>2, <2>1, <2>2 DEF CallInv, LabelOfEndpoint, At
  <2>4. \E u \in k.seen : "db" \in k.ok <=> "db" \in u
    BY <2>2, <2>3
  <2>5. \E u \in k.seen : "redis" \in k.ok <=> k.client = Pool /\ "redis" \in u
    BY <2>2, <2>3 DEF Watched, Services
  <2> HIDE DEF k
  <2>6. answer' = [code |-> IF k.ok # {} THEN 200 ELSE 503, call |-> k] /\ CallInv(c)'
    BY <1>3, <2>1, <2>2
  <2> QED BY <2>3, <2>4, <2>5, <2>6 DEF HealthWasSo, SteadyRedisPassesTest
<1>10. CASE SetKey(c)
  <2>1. CASE "redis" \in up
    <3> DEFINE k == [call[c] EXCEPT !.pc = "get"]
    <3>1. /\ call'[c] = k /\ HealthWasSo' /\ SteadyRedisPassesTest' /\ At(c, "set")
          /\ key' = c
      BY <1>5, <1>10, <2>1 DEF SetKey
    <3>2. /\ k.pc = "get" /\ k.to = call[c].to /\ k.client = call[c].client
          /\ k.seen = call[c].seen
      BY <1>1 DEF CallType
    <3>3. pinged' = pinged /\ up' = up /\ key' # Absent
      BY <3>1, HandleFrame, CallersHaveNames DEF CallersHaveNames
    <3> HIDE DEF k
    <3>4. CallInv(c)'
      BY <1>2, <3>1, <3>2, <3>3 DEF CallInv, LabelOfEndpoint, At
    <3> QED BY <3>1, <3>4
  <2>2. CASE "redis" \notin up
    <3>1. Answer(c, call[c], 503) /\ At(c, "set")
      BY <1>10, <2>2 DEF SetKey
    <3>2. answer' = [code |-> 503, call |-> call[c]] /\ CallInv(c)'
      BY <1>1, <1>3, <3>1
    <3>3. call[c].to = "redis_test" /\ \E u \in call[c].seen : "redis" \notin u
      BY <1>2, <2>2, <3>1 DEF CallInv, LabelOfEndpoint, At
    <3> QED BY <3>2, <3>3 DEF HealthWasSo, SteadyRedisPassesTest
  <2> QED BY <2>1, <2>2
<1>11. CASE GetKey(c)
  <2> DEFINE k == [call[c] EXCEPT !.data = IF "redis" \in up THEN key ELSE Absent]
             code == IF "redis" \in up /\ key # Absent THEN 200 ELSE 503
  <2>1. Answer(c, k, code) /\ At(c, "get")
    BY <1>11 DEF GetKey
  <2>2. /\ k \in CallType /\ k.to = call[c].to /\ k.seen = call[c].seen
        /\ k.lost = call[c].lost /\ k.data = IF "redis" \in up THEN key ELSE Absent
    <3>1. key \in Callers \cup {Absent}
      BY DEF TypeOK
    <3> QED BY <1>1, <3>1 DEF CallType
  <2>3. answer' = [code |-> code, call |-> k] /\ CallInv(c)'
    BY <1>3, <2>1, <2>2
  <2>4. call[c].to = "redis_test" /\ up \cap Watched("redis_test") \in call[c].seen
    BY <1>2, <2>1 DEF CallInv, LabelOfEndpoint, At
  <2>5. (\A u \in k.seen : "redis" \in u) /\ ~k.lost => "redis" \in up /\ key # Absent
    BY <1>2, <2>1, <2>2, <2>4 DEF CallInv, At
  <2> HIDE DEF k
  <2> QED BY <2>2, <2>3, <2>4, <2>5 DEF HealthWasSo, SteadyRedisPassesTest
<1>12. CASE ScanKeys(c) \/ DebugPing(c) \/ DebugInfo(c) \/ Query(c)
  <2>1. call[c].pc \in {"scan", "debug", "info", "query"}
    BY <1>12 DEF ScanKeys, DebugPing, DebugInfo, Query, At
  <2>2. call[c].to \notin {"health", "redis_test"}
    BY <1>2, <2>1 DEF CallInv, LabelOfEndpoint
  <2>3. CASE \E code : Answer(c, call[c], code)
    BY <1>1, <1>4, <2>2, <2>3
  <2>4. CASE DebugPing(c) /\ Become(c, [call[c] EXCEPT !.pc = "info"])
    <3> DEFINE k == [call[c] EXCEPT !.pc = "info"]
    <3>1. /\ call'[c] = k /\ HealthWasSo' /\ SteadyRedisPassesTest' /\ At(c, "debug")
      BY <1>5, <2>4 DEF DebugPing
    <3>2. /\ k.pc = "info" /\ k.to = call[c].to /\ k.client = call[c].client
          /\ k.seen = call[c].seen
      BY <1>1 DEF CallType
    <3>3. pinged' = pinged /\ up' = up
      BY HandleFrame
    <3> HIDE DEF k
    <3>4. CallInv(c)'
      BY <1>2, <3>1, <3>2, <3>3 DEF CallInv, LabelOfEndpoint, At
    <3> QED BY <3>1, <3>4
  <2> QED BY <1>12, <2>3, <2>4 DEF ScanKeys, DebugPing, DebugInfo, Query
<1> QED BY <1>6, <1>7, <1>8, <1>9, <1>10, <1>11, <1>12 DEF Handle

LEMMA HandleKeepsInv ==
  ASSUME TypeOK, InfraInv, NEW c \in Callers, Call(c) \/ Handle(c)
  PROVE  InfraInv'
<1>1. CallInv(c)' /\ HealthWasSo' /\ SteadyRedisPassesTest'
  BY StepKeepsInv
<1>2. \A d \in Callers \ {c} : CallInv(d)'
  BY OthersKeepInv DEF InfraInv
<1>3. server' \in {"connected", "serving"} => client' = pinged'
  BY HandleFrame DEF InfraInv
<1> QED BY <1>1, <1>2, <1>3 DEF InfraInv

LEMMA ProcessKeepsInv ==
  ASSUME TypeOK, InfraInv, StartServer \/ PingAtStart \/ InfoAtStart \/ StopServer \/ Crash
  PROVE  InfraInv'
<1>1. HealthWasSo' /\ SteadyRedisPassesTest'
  BY NoAnswerInv DEF StartServer, PingAtStart, InfoAtStart, StopServer, Crash
<1>2. server' \in {"connected", "serving"} => client' = pinged'
  BY DEF InfraInv, StartServer, PingAtStart, InfoAtStart, StopServer, Crash
<1>3. ASSUME NEW c \in Callers
      PROVE  CallInv(c)'
  <2>1. CASE Crash
    BY <2>1, NoCallInv DEF Crash
  <2>2. CASE StartServer \/ PingAtStart \/ InfoAtStart \/ StopServer
    <3>1. call' = call /\ At(c, "idle")
      BY <2>2 DEF TypeOK, StartServer, PingAtStart, InfoAtStart, StopServer
    <3> QED BY <3>1 DEF InfraInv, CallInv, At
  <2> QED BY <2>1, <2>2
<1> QED BY <1>1, <1>2, <1>3 DEF InfraInv

\* A call that has seen more has still seen what it had.
LEMMA WitnessSees ==
  ASSUME TypeOK, NEW u \in SUBSET Services, NEW c \in Callers, ~At(c, "idle")
  PROVE  LET k == Witness(u)[c] IN
         /\ k.pc = call[c].pc /\ k.to = call[c].to /\ k.client = call[c].client
         /\ k.ok = call[c].ok /\ k.lost = call[c].lost
         /\ k.seen = call[c].seen \cup {u \cap Watched(call[c].to)}
<1>1. call[c] \in CallType
  BY DEF TypeOK
<1> QED BY <1>1 DEF Witness, CallType

LEMMA EnvironmentKeepsInv ==
  ASSUME TypeOK, InfraInv, Fails \/ Returns \/ KeyExpires
  PROVE  InfraInv'
<1>1. HealthWasSo' /\ SteadyRedisPassesTest'
  BY NoAnswerInv DEF Fails, Returns, KeyExpires
<1>2. server' = server /\ client' = client /\ pinged' = pinged
  BY DEF Fails, Returns, KeyExpires
<1>3. ASSUME NEW c \in Callers
      PROVE  CallInv(c)'
  <2>1. CallInv(c)
    BY DEF InfraInv
  <2>2. CASE At(c, "idle")
    <3>1. call'[c] = call[c]
      BY <2>2 DEF Fails, Returns, KeyExpires, Witness, At
    <3> QED BY <2>1, <2>2, <3>1 DEF CallInv, At
  <2>3. CASE ~At(c, "idle") /\ (Fails \/ Returns)
    <3>1. call' = Witness(up') /\ up' \in SUBSET Services
      BY <2>3 DEF Fails, Returns, TypeOK
    <3>2. /\ call'[c].pc = call[c].pc /\ call'[c].to = call[c].to
          /\ call'[c].client = call[c].client /\ call'[c].ok = call[c].ok
          /\ call'[c].lost = call[c].lost
          /\ call'[c].seen = call[c].seen \cup {up' \cap Watched(call[c].to)}
      BY <2>3, <3>1, WitnessSees
    <3>3. key' = key \/ "redis" \notin up
      BY <2>3 DEF Fails, Returns
    <3>4. At(c, "get") =>
            /\ up \cap Watched("redis_test") \in call[c].seen
            /\ Watched("redis_test") = {"redis"}
      BY <2>1 DEF CallInv, LabelOfEndpoint, Watched, At
    <3>5. At(c, "get") /\ (\A u \in call[c].seen : "redis" \in u) => key' = key
      BY <3>3, <3>4
    <3> QED BY <1>2, <2>1, <2>3, <3>2, <3>5 DEF CallInv, LabelOfEndpoint, At
  <2>4. CASE ~At(c, "idle") /\ KeyExpires
    <3>1. call[c] \in CallType /\ up' = up
      BY <2>4 DEF TypeOK, KeyExpires
    <3>2. /\ call'[c].pc = call[c].pc /\ call'[c].to = call[c].to
          /\ call'[c].client = call[c].client /\ call'[c].ok = call[c].ok
          /\ call'[c].seen = call[c].seen
          /\ At(c, "get") => call'[c].lost
      BY <2>4, <3>1 DEF KeyExpires, CallType
    <3> QED BY <1>2, <2>1, <2>4, <3>1, <3>2 DEF CallInv, LabelOfEndpoint, At
  <2> QED BY <2>2, <2>3, <2>4
<1> QED BY <1>1, <1>2, <1>3 DEF InfraInv

\* The inductive invariant: what a call has seen, and which client it has.
THEOREM InfrastructureInvariant == Spec => []InfraInv
<1>1. Init => InfraInv
  <2> SUFFICES ASSUME Init PROVE InfraInv
    OBVIOUS
  <2>1. server = "down" /\ call = [c \in Callers |-> NoCall] /\ answer = NoAnswer
    BY DEF Init
  <2> QED BY <2>1, NoCallType
          DEF InfraInv, CallInv, LabelOfEndpoint, At, HealthWasSo, SteadyRedisPassesTest
<1>2. TypeOK /\ InfraInv /\ [Next]_vars => InfraInv'
  <2> SUFFICES ASSUME TypeOK, InfraInv, [Next]_vars PROVE InfraInv'
    OBVIOUS
  <2>1. CASE UNCHANGED vars
    BY <2>1 DEF vars, InfraInv, CallInv, LabelOfEndpoint, At, HealthWasSo,
                SteadyRedisPassesTest
  <2> QED BY <2>1, HandleKeepsInv, ProcessKeepsInv, EnvironmentKeepsInv DEF Next
<1> QED BY <1>1, <1>2, InfrastructureTypeCorrect, PTL DEF Spec

\* init_redis_pool: the ping of the startup decides for the whole life of a
\* process, and for all its calls, whether there is a client.
THEOREM PingDecidesForGood == Spec => []PingDecides
<1>1. InfraInv => PingDecides
  BY DEF InfraInv, CallInv, PingDecides
<1> QED BY <1>1, InfrastructureInvariant, PTL

\* health_check: each half of the answer was so at a moment of the call.
THEOREM HealthSpeaksTrue == Spec => []HealthWasSo
<1>1. InfraInv => HealthWasSo
  BY DEF InfraInv
<1> QED BY <1>1, InfrastructureInvariant, PTL

\* redis_test_endpoint: sharing one key among any number of calls makes none of
\* them fail.
THEOREM SharedKeyPassesTest == Spec => []SteadyRedisPassesTest
<1>1. InfraInv => SteadyRedisPassesTest
  BY DEF InfraInv
<1> QED BY <1>1, InfrastructureInvariant, PTL

=============================================================================
