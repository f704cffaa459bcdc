--------------------------- MODULE StationSyncProofs ---------------------------
(***************************************************************************)
(* Proofs about StationSync, for any number of scripts, addresses, rows    *)
(* and retries.                                                            *)
(***************************************************************************)
EXTENDS StationSync, SequenceTheorems, TLAPS

-----------------------------------------------------------------------------
(* Listings                                                                *)

LEMMA EmptyListing == StationsIn(<<>>) = {} /\ ChargersIn(<<>>) = {}
BY DEF StationsIn, ChargersIn

\* The rows of a listing are its first item's and the others'.
LEMMA FirstAndOthers ==
  ASSUME NEW l \in Seq(ItemType), l # <<>>
  PROVE  /\ Head(l) \in ItemType /\ Tail(l) \in Seq(ItemType)
         /\ StationsIn(l) = StationsIn(Tail(l))
                \cup {s \in {Head(l).st} : Head(l).has # "nothing"}
         /\ ChargersIn(l) = ChargersIn(Tail(l))
                \cup {c \in {Head(l).cp} : Head(l).has = "charger"}
<1>1. /\ Len(l) \in Nat \ {0} /\ DOMAIN l = 1..Len(l) /\ Head(l) = l[1]
      /\ Tail(l) \in Seq(ItemType) /\ DOMAIN Tail(l) = 1..(Len(l) - 1)
      /\ \A i \in 1..(Len(l) - 1) : Tail(l)[i] = l[i + 1]
  OBVIOUS
<1>2. Head(l) \in ItemType
  OBVIOUS
<1>3. \A i \in DOMAIN l : i = 1 \/ (i - 1 \in DOMAIN Tail(l) /\ Tail(l)[i - 1] = l[i])
  BY <1>1
<1>4. \A i \in DOMAIN Tail(l) : i + 1 \in DOMAIN l /\ Tail(l)[i] = l[i + 1]
  BY <1>1
<1>5. 1 \in DOMAIN l
  BY <1>1
<1>6. StationsIn(l) = StationsIn(Tail(l)) \cup {s \in {Head(l).st} : Head(l).has # "nothing"}
  <2>1. ASSUME NEW s \in StationsIn(l)
        PROVE  s \in StationsIn(Tail(l)) \cup {x \in {Head(l).st} : Head(l).has # "nothing"}
    <3>1. PICK i \in DOMAIN l : l[i].has # "nothing" /\ l[i].st = s
      BY DEF StationsIn
    <3> QED BY <1>1, <1>3, <3>1 DEF StationsIn
  <2>2. ASSUME NEW s \in StationsIn(Tail(l))
        PROVE  s \in StationsIn(l)
    <3>1. PICK i \in DOMAIN Tail(l) : Tail(l)[i].has # "nothing" /\ Tail(l)[i].st = s
      BY DEF StationsIn
    <3> QED BY <1>4, <3>1 DEF StationsIn
  <2>3. Head(l).has # "nothing" => Head(l).st \in StationsIn(l)
    BY <1>1, <1>5 DEF StationsIn
  <2> QED BY <2>1, <2>2, <2>3
<1>7. ChargersIn(l) = ChargersIn(Tail(l)) \cup {c \in {Head(l).cp} : Head(l).has = "charger"}
  <2>1. ASSUME NEW c \in ChargersIn(l)
        PROVE  c \in ChargersIn(Tail(l)) \cup {x \in {Head(l).cp} : Head(l).has = "charger"}
    <3>1. PICK i \in DOMAIN l : l[i].has = "charger" /\ l[i].cp = c
      BY DEF ChargersIn
    <3> QED BY <1>1, <1>3, <3>1 DEF ChargersIn
  <2>2. ASSUME NEW c \in ChargersIn(Tail(l))
        PROVE  c \in ChargersIn(l)
    <3>1. PICK i \in DOMAIN Tail(l) : Tail(l)[i].has = "charger" /\ Tail(l)[i].cp = c
      BY DEF ChargersIn
    <3> QED BY <1>4, <3>1 DEF ChargersIn
  <2>3. Head(l).has = "charger" => Head(l).cp \in ChargersIn(l)
    BY <1>1, <1>5 DEF ChargersIn
  <2> QED BY <2>1, <2>2, <2>3
<1> QED BY <1>1, <1>2, <1>6, <1>7

LEMMA ListingSets ==
  ASSUME NEW l \in Seq(ItemType)
  PROVE  StationsIn(l) \in SUBSET Stations /\ ChargersIn(l) \in SUBSET Chargers
<1>1. \A i \in DOMAIN l : l[i] \in ItemType
  OBVIOUS
<1> QED BY <1>1 DEF StationsIn, ChargersIn, ItemType

-----------------------------------------------------------------------------
(* Type correctness                                                        *)

\* What TypeOK says of one script.
JobOK(j) ==
    /\ j \in JobType
    /\ j.pc # "idle" => j.route # <<>>
    /\ j.pc \in InTransaction \ {"item"} => j.items # <<>>
    /\ j.pc \notin InTransaction => j.stations = {} /\ j.chargers = {}

LEMMA EmptySequences == <<>> \in Seq(Addresses) /\ <<>> \in Seq(ItemType)
OBVIOUS

LEMMA IdleOK ==
  ASSUME NEW outcome \in {"none", "done", "failed", "killed"}
  PROVE  JobOK(Idle) /\ JobOK(Ended(outcome)) /\ Ended(outcome).pc = "idle"
<1>1. Idle \in JobType
  BY SyncConstants, EmptySequences DEF SyncConstants, JobType, Idle
<1>2. Idle.pc = "idle" /\ Idle.stations = {} /\ Idle.chargers = {}
  BY DEF Idle
<1>3. Ended(outcome) \in JobType
  BY <1>1 DEF Ended, JobType
<1>4. Ended(outcome).pc = "idle" /\ Ended(outcome).stations = {} /\ Ended(outcome).chargers = {}
  BY DEF Ended, Idle
<1> QED BY <1>1, <1>2, <1>3, <1>4 DEF JobOK, InTransaction

LEMMA ReleasedFields ==
  ASSUME NEW j \in JobType
  PROVE  /\ Released(j) \in JobType
         /\ Released(j).stations = {} /\ Released(j).chargers = {}
         /\ Released(j).newStations = {} /\ Released(j).newChargers = {}
         /\ Released(j).pc = j.pc /\ Released(j).route = j.route
         /\ Released(j).items = j.items /\ Released(j).tries = j.tries
         /\ Released(j).fetched = j.fetched /\ Released(j).commit = j.commit
         /\ Released(j).listed = j.listed /\ Released(j).erred = j.erred
         /\ Released(j).outcome = j.outcome
BY DEF Released, JobType

\* NextAddress leaves no transaction open, and ends the run after the last one.
LEMMA NextAddressFields ==
  ASSUME NEW j \in JobType, j.route # <<>>
  PROVE  LET k == NextAddress(j) IN
         /\ JobOK(k)
         /\ k.pc \in {"fetch", "idle"} /\ k.items = <<>>
         /\ k.stations = {} /\ k.chargers = {}
         /\ k.newStations = {} /\ k.newChargers = {}
         /\ k.fetched \in {0, j.fetched}
         /\ k.listed = j.listed /\ k.erred = j.erred
         /\ k.outcome = IF k.pc = "idle" THEN "done" ELSE j.outcome
<1>1. Tail(j.route) \in Seq(Addresses)
  BY DEF JobType
<1>2. 0 \in 0..MaxRetries
  BY SyncConstants DEF SyncConstants
<1>3. CASE Tail(j.route) # <<>>
  <2> DEFINE k == [Released(j) EXCEPT !.pc = "fetch", !.route = Tail(j.route),
                                      !.items = <<>>, !.tries = 0]
  <2>1. NextAddress(j) = k
    BY <1>3 DEF NextAddress
  <2>2. ASSUME NEW r \in JobType, NEW route \in Seq(Addresses), NEW items \in Seq(ItemType),
               NEW tries \in 0..MaxRetries
        PROVE  [r EXCEPT !.pc = "fetch", !.route = route, !.items = items, !.tries = tries]
                 \in JobType
    BY DEF JobType
  <2>3. ASSUME NEW r \in JobType
        PROVE  LET n == [r EXCEPT !.pc = "fetch", !.route = Tail(j.route),
                                  !.items = <<>>, !.tries = 0]
               IN  /\ n.pc = "fetch" /\ n.route = Tail(j.route) /\ n.items = <<>>
                   /\ n.stations = r.stations /\ n.chargers = r.chargers
                   /\ n.newStations = r.newStations /\ n.newChargers = r.newChargers
                   /\ n.fetched = r.fetched /\ n.listed = r.listed
                   /\ n.erred = r.erred /\ n.outcome = r.outcome
    BY DEF JobType
  <2>4. /\ k \in JobType
        /\ k.pc = "fetch" /\ k.route = Tail(j.route) /\ k.items = <<>>
        /\ k.stations = {} /\ k.chargers = {}
        /\ k.newStations = {} /\ k.newChargers = {}
        /\ k.fetched = j.fetched /\ k.listed = j.listed
        /\ k.erred = j.erred /\ k.outcome = j.outcome
    <3> DEFINE q == Released(j)
    <3>1. /\ q \in JobType /\ q.stations = {} /\ q.chargers = {}
          /\ q.newStations = {} /\ q.newChargers = {}
          /\ q.fetched = j.fetched /\ q.listed = j.listed
          /\ q.erred = j.erred /\ q.outcome = j.outcome
      BY ReleasedFields
    <3>2. k = [q EXCEPT !.pc = "fetch", !.route = Tail(j.route), !.items = <<>>, !.tries = 0]
      OBVIOUS
    <3> HIDE DEF q, k
    <3>3. k \in JobType
      BY <1>1, <1>2, <2>2, <3>1, <3>2, EmptySequences
    <3> QED BY <2>3, <3>1, <3>2, <3>3
  <2> HIDE DEF k
  <2> QED BY <1>3, <2>1, <2>4 DEF JobOK, InTransaction
<1>4. CASE Tail(j.route) = <<>>
  <2> DEFINE k == [Idle EXCEPT !.outcome = "done", !.listed = j.listed, !.erred = j.erred,
                               !.commit = j.commit]
  <2>1. NextAddress(j) = k
    BY <1>4 DEF NextAddress
  <2>2. /\ k.pc = "idle" /\ k.items = <<>> /\ k.stations = {} /\ k.chargers = {}
        /\ k.newStations = {} /\ k.newChargers = {} /\ k.fetched = 0
        /\ k.listed = j.listed /\ k.erred = j.erred /\ k.outcome = "done"
    BY DEF Idle
  <2>3. k \in JobType
    <3>1. ASSUME NEW r \in JobType, NEW listed \in SUBSET Chargers, NEW erred \in BOOLEAN,
                 NEW commit \in BOOLEAN
          PROVE  [r EXCEPT !.outcome = "done", !.listed = listed, !.erred = erred,
                           !.commit = commit] \in JobType
      BY DEF JobType
    <3>2. j.listed \in SUBSET Chargers /\ j.erred \in BOOLEAN /\ j.commit \in BOOLEAN
      BY DEF JobType
    <3> QED BY <3>1, <3>2, IdleOK DEF JobOK
  <2> HIDE DEF k
  <2> QED BY <2>1, <2>2, <2>3 DEF JobOK, InTransaction
<1> QED BY <1>3, <1>4

-----------------------------------------------------------------------------
(* The inductive invariant                                                 *)

Listed == UNION {Listings[a] : a \in Addresses}

\* What a transaction has written and the items that are left make a listing.
Whole(j) ==
    \E l \in Listed : /\ StationsIn(l) = j.stations \cup StationsIn(j.items)
                      /\ ChargersIn(l) = j.chargers \cup ChargersIn(j.items)

\* What a script knows of its work, given the committed rows, statuses and the
\* time: a charger is written after its station, what it inserted nobody has
\* committed, and every charger it was told of is stored, written or to come,
\* unless it printed an error.
JobInv(j, rows, stat, now) ==
    /\ \A c \in j.chargers : StationOf[c] \in j.stations
    /\ j.pc \in {"compare", "station", "new_station"} => Head(j.items).has # "nothing"
    /\ j.pc \in {"charger", "new_charger"} =>
            Head(j.items).has = "charger" /\ Head(j.items).st \in j.stations
    /\ \A i \in DOMAIN j.items :
            j.items[i].has = "charger" => j.items[i].st = StationOf[j.items[i].cp]
    /\ j.pc \notin InTransaction => j.items = <<>>
    /\ j.pc \in InTransaction => Whole(j)
    /\ j.newStations \subseteq j.stations \ rows
    /\ \A c \in j.newChargers : c \in j.chargers /\ stat[c] = Never
    /\ j.fetched \in 0..now
    /\ j.pc # "idle" => j.outcome = "none"
    /\ ~j.erred => \A c \in j.listed :
            c \in ChargersIn(j.items) \cup j.chargers \/ stat[c] # Never

Good(j, rows, stat, now) == JobOK(j) /\ JobInv(j, rows, stat, now)

\* Two transactions never hold the same row.
Apart(j, k) == j.stations \cap k.stations = {} /\ j.chargers \cap k.chargers = {}

SyncInv ==
    /\ clock <= MaxClock
    /\ \A c \in Chargers : status[c] # Never => StationOf[c] \in stationRow
    /\ \A p \in Scripts : JobInv(job[p], stationRow, status, clock)
    /\ \A p, q \in Scripts : p # q => Apart(job[p], job[q])

LEMMA TypeOfJobs == TypeOK => \A p \in Scripts : JobOK(job[p])
BY DEF TypeOK, JobOK, At

-----------------------------------------------------------------------------
(* How a job changes                                                       *)

LEMMA EndedGood ==
  ASSUME NEW outcome \in {"none", "done", "failed", "killed"},
         NEW rows, NEW stat, NEW now \in Nat
  PROVE  Good(Ended(outcome), rows, stat, now)
<1>1. /\ Ended(outcome).pc = "idle" /\ Ended(outcome).items = <<>>
      /\ Ended(outcome).chargers = {} /\ Ended(outcome).newStations = {}
      /\ Ended(outcome).newChargers = {} /\ Ended(outcome).fetched = 0
      /\ Ended(outcome).listed = {}
  BY DEF Ended, Idle
<1> QED BY <1>1, IdleOK DEF Good, JobInv, InTransaction

LEMMA NextAddressGood ==
  ASSUME NEW j \in JobType, j.route # <<>>, NEW rows, NEW stat, NEW now \in Nat,
         j.fetched \in 0..now, j.outcome = "none",
         ~j.erred => \A c \in j.listed : stat[c] # Never
  PROVE  Good(NextAddress(j), rows, stat, now)
<1> DEFINE k == NextAddress(j)
<1>1. /\ JobOK(k) /\ k.pc \in {"fetch", "idle"} /\ k.items = <<>>
      /\ k.stations = {} /\ k.chargers = {} /\ k.newStations = {} /\ k.newChargers = {}
      /\ k.fetched \in {0, j.fetched} /\ k.listed = j.listed /\ k.erred = j.erred
      /\ k.outcome = IF k.pc = "idle" THEN "done" ELSE j.outcome
  BY NextAddressFields
<1> HIDE DEF k
<1>2. k.fetched \in 0..now
  BY <1>1
<1>3. ~k.erred => \A c \in k.listed : stat[c] # Never
  BY <1>1
<1>4. Good(k, rows, stat, now)
  BY <1>1, <1>2, <1>3 DEF Good, JobInv, InTransaction
<1> QED BY <1>4 DEF k

\* A job that has printed an error.
LEMMA ErredFields ==
  ASSUME NEW j \in JobType
  PROVE  LET k == [j EXCEPT !.erred = TRUE] IN
         /\ k \in JobType /\ k.route = j.route /\ k.fetched = j.fetched
         /\ k.outcome = j.outcome /\ k.erred
BY DEF JobType

LEMMA FailedGood ==
  ASSUME NEW p \in Scripts, NEW rows, NEW stat, NEW now \in Nat,
         Good(job[p], rows, stat, now), ~At(p, "idle")
  PROVE  Good(Failed(p), rows, stat, now) /\ Failed(p).stations = {} /\ Failed(p).chargers = {}
<1>1. /\ job[p] \in JobType /\ job[p].route # <<>> /\ job[p].fetched \in 0..now
      /\ job[p].outcome = "none"
  BY DEF Good, JobOK, JobInv, At
<1>2. CASE p \in Incremental
  <2>1. Failed(p) = Ended("failed")
    BY <1>2 DEF Failed
  <2>2. Ended("failed").stations = {} /\ Ended("failed").chargers = {}
    BY DEF Ended, Idle
  <2> QED BY <2>1, <2>2, EndedGood
<1>3. CASE p \notin Incremental
  <2> DEFINE k == [job[p] EXCEPT !.erred = TRUE]
  <2>1. /\ k \in JobType /\ k.route = job[p].route /\ k.fetched = job[p].fetched
        /\ k.outcome = job[p].outcome /\ k.erred
    BY <1>1, ErredFields
  <2>2. Failed(p) = NextAddress(k)
    BY <1>3 DEF Failed
  <2> HIDE DEF k
  <2> QED BY <1>1, <2>1, <2>2, NextAddressGood, NextAddressFields
<1> QED BY <1>2, <1>3

\* The committed state may grow under a job, as long as nobody commits what it
\* has inserted.
LEMMA RowsGrow ==
  ASSUME NEW j, NEW rows, NEW stat, NEW now \in Nat, Good(j, rows, stat, now),
         NEW rows2, NEW stat2, NEW now2 \in Nat, now <= now2,
         j.newStations \cap rows2 = {},
         \A c \in j.newChargers : stat2[c] = Never,
         \A c \in j.listed : stat[c] # Never => stat2[c] # Never
  PROVE  Good(j, rows2, stat2, now2)
BY DEF Good, JobInv

-----------------------------------------------------------------------------
(* Steps that leave the tables alone                                       *)

LEMMA JobStep ==
  ASSUME TypeOK, SyncInv, NEW p \in Scripts, NEW k, Become(p, k), OnlyJob,
         Good(k, stationRow, status, clock),
         \A q \in Scripts \ {p} : Apart(k, job[q])
  PROVE  TypeOK' /\ SyncInv'
<1>1. /\ UNCHANGED <<clock, stationRow, synced, status>>
      /\ job' = [job EXCEPT ![p] = k]
  BY DEF OnlyJob, Become
<1>2. \A q \in Scripts : job'[q] = IF q = p THEN k ELSE job[q]
  BY <1>1 DEF TypeOK
<1>3. \A q \in Scripts : JobOK(job'[q])
  BY <1>2, TypeOfJobs DEF Good
<1>4. job' \in [Scripts -> JobType]
  BY <1>1, <1>2, <1>3 DEF TypeOK, Good, JobOK
<1>5. TypeOK'
  BY <1>1, <1>3, <1>4 DEF TypeOK, JobOK, At
<1>6. \A q \in Scripts : JobInv(job'[q], stationRow', status', clock')
  BY <1>1, <1>2 DEF SyncInv, Good
<1>7. \A q, r \in Scripts : q # r => Apart(job'[q], job'[r])
  BY <1>2 DEF SyncInv, Apart
<1> QED BY <1>1, <1>5, <1>6, <1>7 DEF SyncInv

\* A job without rows is apart from every other.
LEMMA NoRowsApart ==
  ASSUME NEW k, k.stations = {}, k.chargers = {}
  PROVE  \A q \in Scripts : Apart(k, job[q])
BY DEF Apart

LEMMA GoodJobs ==
  ASSUME TypeOK, SyncInv, NEW p \in Scripts
  PROVE  /\ Good(job[p], stationRow, status, clock) /\ job[p] \in JobType
         /\ \A q \in Scripts \ {p} : Apart(job[p], job[q])
         /\ clock \in Nat
BY TypeOfJobs DEF SyncInv, Good, JobOK, TypeOK

LEMMA StepFails ==
  ASSUME TypeOK, SyncInv, NEW p \in Scripts, ~At(p, "idle"), Become(p, Failed(p)), OnlyJob
  PROVE  TypeOK' /\ SyncInv'
<1>1. /\ Good(Failed(p), stationRow, status, clock)
      /\ Failed(p).stations = {} /\ Failed(p).chargers = {}
  BY GoodJobs, FailedGood
<1> QED BY <1>1, NoRowsApart, JobStep

\* Another label within the transaction.
LEMMA StepGoes ==
  ASSUME TypeOK, SyncInv, NEW p \in Scripts, job[p].items # <<>>,
         job[p].pc \in InTransaction,
         NEW label \in InTransaction, Goto(p, label), OnlyJob,
         label \in {"compare", "station", "new_station"} => Item(p).has # "nothing",
         label \in {"charger", "new_charger"} =>
            Item(p).has = "charger" /\ Item(p).st \in job[p].stations
  PROVE  TypeOK' /\ SyncInv'
<1> DEFINE k == [job[p] EXCEPT !.pc = label]
<1>1. Good(job[p], stationRow, status, clock) /\ job[p] \in JobType
  BY GoodJobs
<1>2. /\ k \in JobType /\ k.pc = label /\ k.route = job[p].route /\ k.items = job[p].items
      /\ k.stations = job[p].stations /\ k.chargers = job[p].chargers
      /\ k.newStations = job[p].newStations /\ k.newChargers = job[p].newChargers
      /\ k.fetched = job[p].fetched /\ k.listed = job[p].listed
      /\ k.erred = job[p].erred /\ k.outcome = job[p].outcome
  BY <1>1 DEF JobType
<1>3. Become(p, k)
  BY DEF Goto
<1> HIDE DEF k
<1>4. job[p].pc # "idle" /\ label # "idle"
  BY DEF InTransaction
<1>5. JobOK(k)
  BY <1>1, <1>2, <1>4 DEF Good, JobOK
<1>6. Whole(k)
  BY <1>1, <1>2 DEF Good, JobInv, Whole
<1>7. JobInv(k, stationRow, status, clock)
  BY <1>1, <1>2, <1>4, <1>6 DEF Good, JobInv, Item
<1>8. \A q \in Scripts \ {p} : Apart(k, job[q])
  BY <1>2, GoodJobs DEF Apart
<1> QED BY <1>3, <1>5, <1>7, <1>8, JobStep DEF Good

LEMMA StartStep ==
  ASSUME TypeOK, SyncInv, NEW p \in Scripts, Start(p)
  PROVE  TypeOK' /\ SyncInv'
<1>1. PICK commit \in BOOLEAN :
        Become(p, [Idle EXCEPT !.pc = "fetch", !.commit = commit, !.route = Route[p]])
  BY DEF Start
<1> DEFINE k == [Idle EXCEPT !.pc = "fetch", !.commit = commit, !.route = Route[p]]
<1>2. Route[p] \in Seq(Addresses) /\ Route[p] # <<>>
  BY SyncConstants DEF SyncConstants
<1>3. k \in JobType
  <2>1. ASSUME NEW r \in JobType, NEW route \in Seq(Addresses)
        PROVE  [r EXCEPT !.pc = "fetch", !.commit = commit, !.route = route] \in JobType
    BY DEF JobType
  <2> QED BY <1>2, <2>1, IdleOK DEF JobOK
<1>4. /\ k.pc = "fetch" /\ k.route = Route[p] /\ k.items = <<>> /\ k.fetched = 0
      /\ k.stations = {} /\ k.chargers = {} /\ k.newStations = {} /\ k.newChargers = {}
      /\ k.listed = {} /\ k.outcome = "none"
  BY DEF Idle
<1>5. clock \in Nat
  BY DEF TypeOK
<1> HIDE DEF k
<1>6. Good(k, stationRow, status, clock)
  BY <1>2, <1>3, <1>4, <1>5 DEF Good, JobOK, JobInv, InTransaction
<1> QED BY <1>1, <1>4, <1>6, NoRowsApart, JobStep DEF Start, k

LEMMA FetchStep ==
  ASSUME TypeOK, SyncInv, NEW p \in Scripts, FetchAnswers(p) \/ FetchFails(p)
  PROVE  TypeOK' /\ SyncInv'
<1>1. /\ Good(job[p], stationRow, status, clock) /\ job[p] \in JobType /\ clock \in Nat
      /\ job[p].pc = "fetch" /\ OnlyJob
  BY GoodJobs DEF FetchAnswers, FetchFails, At
<1>2. /\ job[p].route # <<>> /\ job[p].route \in Seq(Addresses) /\ job[p].items = <<>>
      /\ job[p].stations = {} /\ job[p].chargers = {} /\ job[p].outcome = "none"
      /\ job[p].fetched \in 0..clock
      /\ job[p].newStations = {} /\ job[p].newChargers = {}
  <2>1. job[p].pc \notin InTransaction /\ job[p].pc # "idle"
    BY <1>1 DEF InTransaction
  <2>2. job[p].route \in Seq(Addresses)
    BY <1>1 DEF JobType
  <2> QED BY <1>1, <2>1, <2>2 DEF Good, JobOK, JobInv
<1>3. ~job[p].erred => \A c \in job[p].listed : status[c] # Never
  BY <1>1, <1>2, EmptyListing DEF Good, JobInv
<1>4. CASE Become(p, NextAddress(job[p]))
  <2>1. Good(NextAddress(job[p]), stationRow, status, clock)
    BY <1>1, <1>2, <1>3, NextAddressGood
  <2>2. NextAddress(job[p]).stations = {} /\ NextAddress(job[p]).chargers = {}
    BY <1>1, <1>2, NextAddressFields
  <2> QED BY <1>1, <1>4, <2>1, <2>2, NoRowsApart, JobStep
<1>5. CASE Become(p, NextAddress([job[p] EXCEPT !.erred = TRUE]))
  <2> DEFINE j == [job[p] EXCEPT !.erred = TRUE]
  <2>1. /\ j \in JobType /\ j.route = job[p].route /\ j.fetched = job[p].fetched
        /\ j.outcome = job[p].outcome /\ j.erred
    BY <1>1, ErredFields
  <2>2. Become(p, NextAddress(j))
    BY <1>5
  <2> HIDE DEF j
  <2>3. Good(NextAddress(j), stationRow, status, clock)
    BY <1>1, <1>2, <2>1, NextAddressGood
  <2>4. NextAddress(j).stations = {} /\ NextAddress(j).chargers = {}
    BY <1>2, <2>1, NextAddressFields
  <2> QED BY <1>1, <2>2, <2>3, <2>4, NoRowsApart, JobStep
<1>6. CASE Become(p, Ended("failed"))
  <2>1. Ended("failed").stations = {} /\ Ended("failed").chargers = {}
    BY DEF Ended, Idle
  <2> QED BY <1>1, <1>6, <2>1, EndedGood, NoRowsApart, JobStep
<1>7. CASE job[p].tries < MaxRetries
             /\ Become(p, [job[p] EXCEPT !.tries = job[p].tries + 1])
  <2> DEFINE k == [job[p] EXCEPT !.tries = job[p].tries + 1]
  <2>1. job[p].tries + 1 \in 0..MaxRetries
    BY <1>1, <1>7, SyncConstants DEF SyncConstants, JobType
  <2>2. k \in JobType
    BY <1>1, <2>1 DEF JobType
  <2>3. /\ k.pc = "fetch" /\ k.route = job[p].route /\ k.items = <<>>
        /\ k.stations = {} /\ k.chargers = {} /\ k.newStations = {} /\ k.newChargers = {}
        /\ k.fetched = job[p].fetched /\ k.listed = job[p].listed
        /\ k.erred = job[p].erred /\ k.outcome = job[p].outcome
    BY <1>1, <1>2 DEF JobType
  <2>4. Become(p, k)
    BY <1>7
  <2> HIDE DEF k
  <2>5. Good(k, stationRow, status, clock)
    BY <1>2, <1>3, <2>2, <2>3 DEF Good, JobOK, JobInv, InTransaction
  <2> QED BY <1>1, <2>3, <2>4, <2>5, NoRowsApart, JobStep
<1>8. ASSUME NEW l \in Listings[Head(job[p].route)],
             Become(p, [job[p] EXCEPT !.pc = "item", !.items = l, !.fetched = clock,
                                      !.listed = job[p].listed \cup ChargersIn(l)])
      PROVE  TypeOK' /\ SyncInv'
  <2> DEFINE k == [job[p] EXCEPT !.pc = "item", !.items = l, !.fetched = clock,
                                 !.listed = job[p].listed \cup ChargersIn(l)]
  <2>1. Head(job[p].route) \in Addresses
    BY <1>2
  <2>2. /\ l \in Listed /\ l \in Seq(ItemType)
        /\ \A i \in DOMAIN l : l[i].has = "charger" => l[i].st = StationOf[l[i].cp]
    BY <2>1, SyncConstants DEF SyncConstants, Listed
  <2>3. job[p].listed \cup ChargersIn(l) \in SUBSET Chargers
    BY <1>1, <2>2, ListingSets DEF JobType
  <2>4. k \in JobType
    <3>1. ASSUME NEW r \in JobType, NEW listed \in SUBSET Chargers, NEW now \in Nat
          PROVE  [r EXCEPT !.pc = "item", !.items = l, !.fetched = now, !.listed = listed]
                   \in JobType
      BY <2>2 DEF JobType, InTransaction
    <3> QED BY <1>1, <2>3, <3>1
  <2>5. /\ k.pc = "item" /\ k.route = job[p].route /\ k.items = l /\ k.fetched = clock
        /\ k.stations = {} /\ k.chargers = {} /\ k.newStations = {} /\ k.newChargers = {}
        /\ k.listed = job[p].listed \cup ChargersIn(l)
        /\ k.erred = job[p].erred /\ k.outcome = job[p].outcome
    BY <1>1, <1>2 DEF JobType
  <2>6. Become(p, k)
    BY <1>8
  <2> HIDE DEF k
  <2>7. Whole(k)
    BY <2>2, <2>5 DEF Whole
  <2>8. JobOK(k)
    BY <1>2, <2>4, <2>5 DEF JobOK, InTransaction
  <2>9. JobInv(k, stationRow, status, clock)
    BY <1>1, <1>2, <1>3, <2>2, <2>5, <2>7 DEF JobInv, InTransaction
  <2> QED BY <1>1, <2>5, <2>6, <2>8, <2>9, NoRowsApart, JobStep DEF Good
<1> QED BY <1>4, <1>5, <1>6, <1>7, <1>8 DEF FetchAnswers, FetchFails

\* A step of the transaction that writes a row, or is done with the item: what
\* is written and what is left still make the listing.
LEMMA StepWrites ==
  ASSUME TypeOK, SyncInv, NEW p \in Scripts, job[p].pc \in InTransaction, OnlyJob,
         NEW k \in JobType, Become(p, k),
         k.pc \in {"item", "charger"}, k.items \in {job[p].items, Tail(job[p].items)},
         job[p].items # <<>>,
         k.pc = "charger" =>
            k.items = job[p].items /\ Item(p).has = "charger" /\ Item(p).st \in k.stations,
         /\ k.route = job[p].route /\ k.fetched = job[p].fetched
         /\ k.listed = job[p].listed /\ k.erred = job[p].erred /\ k.outcome = job[p].outcome,
         k.stations \cup StationsIn(k.items) = job[p].stations \cup StationsIn(job[p].items),
         k.chargers \cup ChargersIn(k.items) = job[p].chargers \cup ChargersIn(job[p].items),
         \A c \in k.chargers : StationOf[c] \in k.stations,
         k.newStations \subseteq k.stations \ stationRow,
         \A c \in k.newChargers : c \in k.chargers /\ status[c] = Never,
         \A q \in Scripts \ {p} : Apart(k, job[q])
  PROVE  TypeOK' /\ SyncInv'
<1>1. Good(job[p], stationRow, status, clock) /\ job[p] \in JobType
  BY GoodJobs
<1>2. job[p].pc # "idle" /\ k.pc \in InTransaction /\ k.pc # "idle"
  BY DEF InTransaction
<1>3. JobOK(k)
  BY <1>1, <1>2 DEF Good, JobOK
<1>4. Whole(k)
  BY <1>1, <1>2 DEF Good, JobInv, Whole
<1>5. \A i \in DOMAIN k.items :
        k.items[i].has = "charger" => k.items[i].st = StationOf[k.items[i].cp]
  <2>1. job[p].items \in Seq(ItemType)
    BY <1>1 DEF JobType
  <2>2. \A i \in DOMAIN Tail(job[p].items) :
          i + 1 \in DOMAIN job[p].items /\ Tail(job[p].items)[i] = job[p].items[i + 1]
    BY <2>1
  <2> QED BY <1>1, <2>2 DEF Good, JobInv
<1>6. ~k.erred => \A c \in k.listed : c \in ChargersIn(k.items) \cup k.chargers \/ status[c] # Never
  BY <1>1 DEF Good, JobInv
<1>7. JobInv(k, stationRow, status, clock)
  BY <1>1, <1>2, <1>4, <1>5, <1>6 DEF Good, JobInv, Item
<1> QED BY <1>3, <1>7, JobStep DEF Good

\* k is j at another place, or on the next item.
Follows(k, j, label, items) ==
    /\ k \in JobType /\ k.pc = label /\ k.items = items
    /\ k.route = j.route /\ k.fetched = j.fetched /\ k.listed = j.listed
    /\ k.erred = j.erred /\ k.outcome = j.outcome
    /\ k.stations = j.stations /\ k.chargers = j.chargers
    /\ k.newStations = j.newStations /\ k.newChargers = j.newChargers

LEMMA ChargerNext ==
  ASSUME NEW j \in JobType
  PROVE  Follows([j EXCEPT !.pc = "charger"], j, "charger", j.items)
<1>1. "charger" \in InTransaction \cup {"idle", "fetch"}
  BY DEF InTransaction
<1> QED BY <1>1 DEF JobType, Follows

LEMMA ItemNext ==
  ASSUME NEW j \in JobType, j.items # <<>>
  PROVE  Follows([j EXCEPT !.pc = "item", !.items = Tail(j.items)], j, "item", Tail(j.items))
<1>1. "item" \in InTransaction \cup {"idle", "fetch"} /\ Tail(j.items) \in Seq(ItemType)
  BY DEF InTransaction, JobType
<1> QED BY <1>1 DEF JobType, Follows

\* The item's station has been updated or inserted.
LEMMA StationWritten ==
  ASSUME TypeOK, SyncInv, NEW p \in Scripts, job[p].pc \in {"station", "new_station"},
         OnlyJob, StationFree(p),
         NEW j \in JobType, Become(p, StationDone(p, j)),
         j.stations = job[p].stations \cup {Item(p).st},
         \/ j.newStations = job[p].newStations
         \/ /\ j.newStations = job[p].newStations \cup {Item(p).st}
            /\ Item(p).st \notin stationRow,
         /\ j.route = job[p].route /\ j.items = job[p].items /\ j.fetched = job[p].fetched
         /\ j.chargers = job[p].chargers /\ j.newChargers = job[p].newChargers
         /\ j.listed = job[p].listed /\ j.erred = job[p].erred
         /\ j.outcome = job[p].outcome
  PROVE  TypeOK' /\ SyncInv'
<1>1. /\ Good(job[p], stationRow, status, clock) /\ job[p] \in JobType
      /\ \A q \in Scripts \ {p} : Apart(job[p], job[q])
  BY GoodJobs
<1>2. /\ job[p].pc \in InTransaction /\ job[p].items # <<>> /\ Item(p).has # "nothing"
      /\ job[p].items \in Seq(ItemType)
  <2>1. job[p].pc \in InTransaction \ {"item"}
    BY DEF InTransaction
  <2>2. job[p].items \in Seq(ItemType)
    BY <1>1 DEF JobType
  <2> QED BY <1>1, <2>1, <2>2 DEF Good, JobOK, JobInv, Item
<1>3. /\ StationsIn(job[p].items) = StationsIn(Tail(job[p].items)) \cup {Item(p).st}
      /\ ChargersIn(job[p].items) = ChargersIn(Tail(job[p].items))
            \cup {c \in {Item(p).cp} : Item(p).has = "charger"}
  BY <1>2, FirstAndOthers DEF Item
<1> DEFINE k == StationDone(p, j)
<1>4. /\ Follows(k, j, k.pc, k.items)
      /\ \/ k.pc = "charger" /\ k.items = job[p].items /\ Item(p).has = "charger"
         \/ k.pc = "item" /\ k.items = Tail(job[p].items)
            /\ Item(p).has # "charger"
  <2>1. CASE Item(p).has = "charger"
    <3>1. k = [j EXCEPT !.pc = "charger"]
      BY <2>1 DEF StationDone
    <3>2. Follows(k, j, "charger", j.items)
      BY <3>1, ChargerNext
    <3> HIDE DEF k
    <3> QED BY <2>1, <3>2 DEF Follows
  <2>2. CASE Item(p).has # "charger"
    <3>1. k = [j EXCEPT !.pc = "item", !.items = Tail(j.items)]
      BY <2>2 DEF StationDone
    <3>2. Follows(k, j, "item", Tail(j.items))
      BY <1>2, <3>1, ItemNext
    <3> HIDE DEF k
    <3> QED BY <2>2, <3>2 DEF Follows
  <2> QED BY <2>1, <2>2
<1> HIDE DEF k
<1>5. /\ k.stations \cup StationsIn(k.items) = job[p].stations \cup StationsIn(job[p].items)
      /\ k.chargers \cup ChargersIn(k.items) = job[p].chargers \cup ChargersIn(job[p].items)
  BY <1>3, <1>4 DEF Follows
<1>6. \A c \in k.chargers : StationOf[c] \in k.stations
  BY <1>1, <1>4 DEF Good, JobInv, Follows
<1>7. k.newStations \subseteq k.stations \ stationRow
  BY <1>1, <1>4 DEF Good, JobInv, Follows
<1>8. \A c \in k.newChargers : c \in k.chargers /\ status[c] = Never
  BY <1>1, <1>4 DEF Good, JobInv, Follows
<1>9. \A q \in Scripts \ {p} : Apart(k, job[q])
  BY <1>1, <1>4 DEF Apart, StationFree, Follows
<1>10. /\ k.route = job[p].route /\ k.fetched = job[p].fetched
       /\ k.listed = job[p].listed /\ k.erred = job[p].erred /\ k.outcome = job[p].outcome
  BY <1>4 DEF Follows
<1>11. /\ k.pc \in {"item", "charger"} /\ k.items \in {job[p].items, Tail(job[p].items)}
       /\ k.pc = "charger" =>
            k.items = job[p].items /\ Item(p).has = "charger" /\ Item(p).st \in k.stations
  BY <1>4 DEF Follows
<1>12. k \in JobType /\ Become(p, k)
  BY <1>4 DEF Follows, k
<1> QED BY <1>2, <1>12, <1>5, <1>6, <1>7, <1>8, <1>9, <1>10, <1>11, StepWrites

LEMMA UpdatedFields ==
  ASSUME NEW j \in JobType, NEW rows \in SUBSET Stations
  PROVE  LET k == [j EXCEPT !.stations = rows] IN
         /\ k \in JobType /\ k.stations = rows /\ k.newStations = j.newStations
         /\ k.route = j.route /\ k.items = j.items /\ k.fetched = j.fetched
         /\ k.chargers = j.chargers /\ k.newChargers = j.newChargers
         /\ k.listed = j.listed /\ k.erred = j.erred /\ k.outcome = j.outcome
BY DEF JobType

\* A script that is on an item has it.
LEMMA OnItem ==
  ASSUME TypeOK, SyncInv, NEW p \in Scripts, job[p].pc \in InTransaction \ {"item"}
  PROVE  /\ job[p].items # <<>> /\ job[p].items \in Seq(ItemType)
         /\ Item(p) \in ItemType /\ Item(p).st \in Stations /\ Item(p).cp \in Chargers
         /\ job[p].pc \in InTransaction /\ job[p] \in JobType
         /\ job[p].stations \in SUBSET Stations /\ job[p].chargers \in SUBSET Chargers
         /\ job[p].newStations \in SUBSET Stations /\ job[p].newChargers \in SUBSET Chargers
         /\ Item(p).has = "charger" => Item(p).st = StationOf[Item(p).cp]
<1>1. Good(job[p], stationRow, status, clock) /\ job[p] \in JobType
  BY GoodJobs
<1>2. job[p].items # <<>> /\ job[p].items \in Seq(ItemType)
  BY <1>1 DEF Good, JobOK, JobType
<1>3. Item(p) \in ItemType /\ Item(p) = job[p].items[1] /\ 1 \in DOMAIN job[p].items
  BY <1>2 DEF Item
<1>4. Item(p).has = "charger" => Item(p).st = StationOf[Item(p).cp]
  BY <1>1, <1>3 DEF Good, JobInv
<1>5. Item(p).st \in Stations /\ Item(p).cp \in Chargers
  BY <1>3 DEF ItemType
<1>6. /\ job[p].stations \in SUBSET Stations /\ job[p].chargers \in SUBSET Chargers
      /\ job[p].newStations \in SUBSET Stations /\ job[p].newChargers \in SUBSET Chargers
  BY <1>1 DEF JobType
<1> QED BY <1>1, <1>2, <1>3, <1>4, <1>5, <1>6

LEMMA TakeItemStep ==
  ASSUME TypeOK, SyncInv, NEW p \in Scripts, TakeItem(p)
  PROVE  TypeOK' /\ SyncInv'
<1>1. /\ job[p].pc = "item" /\ job[p].pc \in InTransaction /\ job[p].items # <<>> /\ OnlyJob
  BY DEF TakeItem, At, InTransaction
<1>2. /\ Good(job[p], stationRow, status, clock) /\ job[p] \in JobType
      /\ \A q \in Scripts \ {p} : Apart(job[p], job[q])
      /\ job[p].items \in Seq(ItemType)
  BY GoodJobs DEF JobType
<1>3. CASE Item(p).has = "nothing"
  <2> DEFINE k == [job[p] EXCEPT !.items = Tail(job[p].items)]
  <2>1. Become(p, k)
    BY <1>3 DEF TakeItem
  <2>2. Tail(job[p].items) \in Seq(ItemType)
    BY <1>1, <1>2
  <2>3. /\ k \in JobType /\ k.pc = "item" /\ k.items = Tail(job[p].items)
        /\ k.route = job[p].route /\ k.fetched = job[p].fetched
        /\ k.listed = job[p].listed /\ k.erred = job[p].erred
        /\ k.outcome = job[p].outcome
        /\ k.stations = job[p].stations /\ k.chargers = job[p].chargers
        /\ k.newStations = job[p].newStations /\ k.newChargers = job[p].newChargers
    BY <1>1, <1>2, <2>2 DEF JobType
  <2> HIDE DEF k
  <2>4. /\ StationsIn(job[p].items) = StationsIn(Tail(job[p].items))
        /\ ChargersIn(job[p].items) = ChargersIn(Tail(job[p].items))
    BY <1>1, <1>2, <1>3, FirstAndOthers DEF Item
  <2>5. /\ \A c \in k.chargers : StationOf[c] \in k.stations
        /\ k.newStations \subseteq k.stations \ stationRow
        /\ \A c \in k.newChargers : c \in k.chargers /\ status[c] = Never
    BY <1>2, <2>3 DEF Good, JobInv
  <2>6. \A q \in Scripts \ {p} : Apart(k, job[q])
    BY <1>2, <2>3 DEF Apart
  <2>7. /\ k.stations \cup StationsIn(k.items) = job[p].stations \cup StationsIn(job[p].items)
        /\ k.chargers \cup ChargersIn(k.items) = job[p].chargers \cup ChargersIn(job[p].items)
    BY <2>3, <2>4
  <2>8. k.pc \in {"item", "charger"} /\ k.pc # "charger"
    BY <2>3
  <2> QED BY <1>1, <2>1, <2>3, <2>5, <2>6, <2>7, <2>8, StepWrites
<1>4. CASE Item(p).has # "nothing"
  <2>1. PICK label \in {"compare", "station"} : Goto(p, label)
    BY <1>4 DEF TakeItem
  <2>2. label \in InTransaction /\ label \notin {"charger", "new_charger"}
    BY <2>1 DEF InTransaction
  <2> QED BY <1>1, <1>4, <2>1, <2>2, StepGoes
<1> QED BY <1>3, <1>4

LEMMA CompareStep ==
  ASSUME TypeOK, SyncInv, NEW p \in Scripts, Compare(p)
  PROVE  TypeOK' /\ SyncInv'
<1>1. /\ job[p].pc = "compare" /\ job[p].pc \in InTransaction \ {"item"} /\ OnlyJob
      /\ ~At(p, "idle")
  BY DEF Compare, At, InTransaction
<1>2. job[p].items # <<>> /\ Item(p).has # "nothing"
  BY <1>1, OnItem, GoodJobs DEF Good, JobInv, Item
<1>3. CASE Become(p, Failed(p))
  BY <1>1, <1>3, StepFails
<1>4. CASE Goto(p, "station")
  <2>1. "station" \in InTransaction
    BY DEF InTransaction
  <2> QED BY <1>1, <1>2, <1>4, <2>1, StepGoes
<1> QED BY <1>3, <1>4 DEF Compare

LEMMA UpdateStationStep ==
  ASSUME TypeOK, SyncInv, NEW p \in Scripts, UpdateStation(p)
  PROVE  TypeOK' /\ SyncInv'
<1>1. /\ job[p].pc = "station" /\ job[p].pc \in InTransaction \ {"item"} /\ OnlyJob
  BY DEF UpdateStation, At, InTransaction
<1>2. CASE SeesStation(p)
  <2> DEFINE j == [job[p] EXCEPT !.stations = job[p].stations \cup {Item(p).st}]
  <2>1. StationFree(p) /\ Become(p, StationDone(p, j))
    BY <1>2 DEF UpdateStation
  <2>2. job[p] \in JobType /\ job[p].stations \cup {Item(p).st} \in SUBSET Stations
    BY <1>1, OnItem
  <2>3. /\ j \in JobType /\ j.stations = job[p].stations \cup {Item(p).st}
        /\ j.newStations = job[p].newStations
        /\ j.route = job[p].route /\ j.items = job[p].items /\ j.fetched = job[p].fetched
        /\ j.chargers = job[p].chargers /\ j.newChargers = job[p].newChargers
        /\ j.listed = job[p].listed /\ j.erred = job[p].erred
        /\ j.outcome = job[p].outcome
    BY <2>2, UpdatedFields
  <2> HIDE DEF j
  <2> QED BY <1>1, <2>1, <2>3, StationWritten
<1>3. CASE ~SeesStation(p)
  <2>1. Goto(p, "new_station") /\ "new_station" \in InTransaction
    BY <1>3 DEF UpdateStation, InTransaction
  <2>2. job[p].items # <<>> /\ Item(p).has # "nothing"
    BY <1>1, OnItem, GoodJobs DEF Good, JobInv, Item
  <2> QED BY <1>1, <2>1, <2>2, StepGoes
<1> QED BY <1>2, <1>3

LEMMA InsertStationStep ==
  ASSUME TypeOK, SyncInv, NEW p \in Scripts, InsertStation(p)
  PROVE  TypeOK' /\ SyncInv'
<1> DEFINE rows == job[p].stations \cup {Item(p).st}
           new == job[p].newStations \cup {Item(p).st}
           j == [job[p] EXCEPT !.stations = rows, !.newStations = new]
<1>1. /\ job[p].pc = "new_station" /\ job[p].pc \in InTransaction \ {"item"} /\ OnlyJob
      /\ StationFree(p) /\ Item(p).st \notin stationRow /\ Become(p, StationDone(p, j))
  BY DEF InsertStation, At, InTransaction
<1>2. job[p] \in JobType /\ rows \in SUBSET Stations /\ new \in SUBSET Stations
  BY <1>1, OnItem
<1>3. rows = job[p].stations \cup {Item(p).st} /\ new = job[p].newStations \cup {Item(p).st}
  OBVIOUS
<1> HIDE DEF rows, new
<1>4. /\ j \in JobType /\ j.stations = rows /\ j.newStations = new
      /\ j.route = job[p].route /\ j.items = job[p].items /\ j.fetched = job[p].fetched
      /\ j.chargers = job[p].chargers /\ j.newChargers = job[p].newChargers
      /\ j.listed = job[p].listed /\ j.erred = job[p].erred /\ j.outcome = job[p].outcome
  BY <1>2 DEF JobType
<1> HIDE DEF j
<1> QED BY <1>1, <1>3, <1>4, StationWritten

-----------------------------------------------------------------------------
(* Chargers                                                                *)

\* The item's charger has been updated or inserted.
LEMMA ChargerWritten ==
  ASSUME TypeOK, SyncInv, NEW p \in Scripts, job[p].pc \in {"charger", "new_charger"},
         OnlyJob, ChargerFree(p),
         NEW j \in JobType, Become(p, ChargerDone(p, j)),
         j.chargers = job[p].chargers \cup {Item(p).cp},
         \/ j.newChargers = job[p].newChargers
         \/ /\ j.newChargers = job[p].newChargers \cup {Item(p).cp}
            /\ status[Item(p).cp] = Never,
         /\ j.route = job[p].route /\ j.items = job[p].items /\ j.fetched = job[p].fetched
         /\ j.stations = job[p].stations /\ j.newStations = job[p].newStations
         /\ j.listed = job[p].listed /\ j.erred = job[p].erred
         /\ j.outcome = job[p].outcome
  PROVE  TypeOK' /\ SyncInv'
<1>1. /\ Good(job[p], stationRow, status, clock) /\ job[p] \in JobType
      /\ \A q \in Scripts \ {p} : Apart(job[p], job[q])
  BY GoodJobs
<1>2. /\ job[p].pc \in InTransaction /\ job[p].items # <<>>
      /\ job[p].items \in Seq(ItemType)
      /\ Item(p).has = "charger" /\ Item(p).st \in job[p].stations
      /\ Item(p).st = StationOf[Item(p).cp]
  <2>1. job[p].pc \in InTransaction \ {"item"}
    BY DEF InTransaction
  <2>2. Item(p).has = "charger" /\ Item(p).st \in job[p].stations
    BY <1>1 DEF Good, JobInv, Item
  <2> QED BY <2>1, <2>2, OnItem
<1>3. /\ StationsIn(job[p].items) = StationsIn(Tail(job[p].items)) \cup {Item(p).st}
      /\ ChargersIn(job[p].items) = ChargersIn(Tail(job[p].items)) \cup {Item(p).cp}
  BY <1>2, FirstAndOthers DEF Item
<1> DEFINE k == ChargerDone(p, j)
<1>4. Follows(k, j, "item", Tail(job[p].items)) /\ Become(p, k)
  BY <1>2, ItemNext DEF ChargerDone
<1> HIDE DEF k
<1>5. /\ k.stations \cup StationsIn(k.items) = job[p].stations \cup StationsIn(job[p].items)
      /\ k.chargers \cup ChargersIn(k.items) = job[p].chargers \cup ChargersIn(job[p].items)
  BY <1>2, <1>3, <1>4 DEF Follows
<1>6. \A c \in k.chargers : StationOf[c] \in k.stations
  BY <1>1, <1>2, <1>4 DEF Good, JobInv, Follows
<1>7. k.newStations \subseteq k.stations \ stationRow
  BY <1>1, <1>4 DEF Good, JobInv, Follows
<1>8. \A c \in k.newChargers : c \in k.chargers /\ status[c] = Never
  BY <1>1, <1>4 DEF Good, JobInv, Follows
<1>9. \A q \in Scripts \ {p} : Apart(k, job[q])
  BY <1>1, <1>4 DEF Apart, ChargerFree, Follows
<1>10. /\ k \in JobType /\ k.route = job[p].route /\ k.fetched = job[p].fetched
       /\ k.listed = job[p].listed /\ k.erred = job[p].erred /\ k.outcome = job[p].outcome
  BY <1>4 DEF Follows
<1>11. /\ k.pc \in {"item", "charger"} /\ k.items \in {job[p].items, Tail(job[p].items)}
       /\ k.pc # "charger"
  BY <1>4 DEF Follows
<1> QED BY <1>2, <1>4, <1>5, <1>6, <1>7, <1>8, <1>9, <1>10, <1>11, StepWrites

LEMMA UpdatedChargerFields ==
  ASSUME NEW j \in JobType, NEW rows \in SUBSET Chargers
  PROVE  LET k == [j EXCEPT !.chargers = rows] IN
         /\ k \in JobType /\ k.chargers = rows /\ k.newChargers = j.newChargers
         /\ k.route = j.route /\ k.items = j.items /\ k.fetched = j.fetched
         /\ k.stations = j.stations /\ k.newStations = j.newStations
         /\ k.listed = j.listed /\ k.erred = j.erred /\ k.outcome = j.outcome
BY DEF JobType

LEMMA UpdateChargerStep ==
  ASSUME TypeOK, SyncInv, NEW p \in Scripts, UpdateCharger(p)
  PROVE  TypeOK' /\ SyncInv'
<1>1. job[p].pc = "charger" /\ job[p].pc \in InTransaction \ {"item"} /\ OnlyJob
  BY DEF UpdateCharger, At, InTransaction
<1>2. CASE SeesCharger(p)
  <2> DEFINE rows == job[p].chargers \cup {Item(p).cp}
             j == [job[p] EXCEPT !.chargers = rows]
  <2>1. ChargerFree(p) /\ Become(p, ChargerDone(p, j))
    BY <1>2 DEF UpdateCharger
  <2>2. job[p] \in JobType /\ rows \in SUBSET Chargers
    BY <1>1, OnItem
  <2>3. rows = job[p].chargers \cup {Item(p).cp}
    OBVIOUS
  <2> HIDE DEF rows
  <2>4. /\ j \in JobType /\ j.chargers = rows /\ j.newChargers = job[p].newChargers
        /\ j.route = job[p].route /\ j.items = job[p].items /\ j.fetched = job[p].fetched
        /\ j.stations = job[p].stations /\ j.newStations = job[p].newStations
        /\ j.listed = job[p].listed /\ j.erred = job[p].erred
        /\ j.outcome = job[p].outcome
    BY <2>2, UpdatedChargerFields
  <2> HIDE DEF j
  <2> QED BY <1>1, <2>1, <2>3, <2>4, ChargerWritten
<1>3. CASE ~SeesCharger(p)
  <2>1. Goto(p, "new_charger") /\ "new_charger" \in InTransaction
    BY <1>3 DEF UpdateCharger, InTransaction
  <2>2. /\ job[p].items # <<>> /\ Item(p).has = "charger"
        /\ Item(p).st \in job[p].stations
    BY <1>1, OnItem, GoodJobs DEF Good, JobInv, Item
  <2> QED BY <1>1, <2>1, <2>2, StepGoes
<1> QED BY <1>2, <1>3

LEMMA InsertChargerStep ==
  ASSUME TypeOK, SyncInv, NEW p \in Scripts, InsertCharger(p)
  PROVE  TypeOK' /\ SyncInv'
<1> DEFINE rows == job[p].chargers \cup {Item(p).cp}
           new == job[p].newChargers \cup {Item(p).cp}
           j == [job[p] EXCEPT !.chargers = rows, !.newChargers = new]
<1>1. /\ job[p].pc = "new_charger" /\ job[p].pc \in InTransaction \ {"item"} /\ OnlyJob
      /\ ChargerFree(p) /\ status[Item(p).cp] = Never /\ Become(p, ChargerDone(p, j))
  BY DEF InsertCharger, At, InTransaction
<1>2. job[p] \in JobType /\ rows \in SUBSET Chargers /\ new \in SUBSET Chargers
  BY <1>1, OnItem
<1>3. rows = job[p].chargers \cup {Item(p).cp} /\ new = job[p].newChargers \cup {Item(p).cp}
  OBVIOUS
<1> HIDE DEF rows, new
<1>4. /\ j \in JobType /\ j.chargers = rows /\ j.newChargers = new
      /\ j.route = job[p].route /\ j.items = job[p].items /\ j.fetched = job[p].fetched
      /\ j.stations = job[p].stations /\ j.newStations = job[p].newStations
      /\ j.listed = job[p].listed /\ j.erred = job[p].erred /\ j.outcome = job[p].outcome
  BY <1>2 DEF JobType
<1> HIDE DEF j
<1> QED BY <1>1, <1>3, <1>4, ChargerWritten

-----------------------------------------------------------------------------
(* Failures, time, commits                                                 *)

LEMMA FailureStep ==
  ASSUME TypeOK, SyncInv, NEW p \in Scripts,
         InsertCollides(p) \/ StatementFails(p) \/ DeadlockDetected(p) \/ Killed(p)
  PROVE  TypeOK' /\ SyncInv'
<1>1. CASE InsertCollides(p) \/ StatementFails(p)
  <2>1. ~At(p, "idle") /\ Become(p, Failed(p)) /\ OnlyJob
    BY <1>1 DEF InsertCollides, StatementFails, At, InTransaction
  <2> QED BY <2>1, StepFails
<1>2. CASE DeadlockDetected(p)
  <2>1. PICK r \in Scripts : WaitsFor(p, r)
    BY <1>2 DEF DeadlockDetected
  <2>2. ~At(p, "idle")
    BY <2>1 DEF WaitsFor, At
  <2>3. Become(p, Failed(p)) /\ OnlyJob
    BY <1>2 DEF DeadlockDetected
  <2> QED BY <2>2, <2>3, StepFails
<1>3. CASE Killed(p)
  <2>1. Become(p, Ended("killed")) /\ OnlyJob
    BY <1>3 DEF Killed
  <2>2. Good(Ended("killed"), stationRow, status, clock)
    BY GoodJobs, EndedGood
  <2>3. Ended("killed").stations = {} /\ Ended("killed").chargers = {}
    BY DEF Ended, Idle
  <2> QED BY <2>1, <2>2, <2>3, NoRowsApart, JobStep
<1> QED BY <1>1, <1>2, <1>3

LEMMA TickStep ==
  ASSUME TypeOK, SyncInv, Tick
  PROVE  TypeOK' /\ SyncInv'
<1>1. /\ UNCHANGED <<stationRow, synced, status, job>> /\ clock' = clock + 1
      /\ clock < MaxClock /\ clock \in Nat /\ MaxClock \in Nat
  BY SyncConstants DEF Tick, TypeOK, SyncConstants
<1>2. TypeOK'
  BY <1>1 DEF TypeOK, At
<1>3. \A p \in Scripts : JobInv(job[p], stationRow, status, clock + 1)
  <2> SUFFICES ASSUME NEW p \in Scripts
               PROVE  JobInv(job[p], stationRow, status, clock + 1)
    OBVIOUS
  <2>1. Good(job[p], stationRow, status, clock)
    BY GoodJobs
  <2>2. /\ job[p].newStations \cap stationRow = {}
        /\ \A c \in job[p].newChargers : status[c] = Never
    BY <2>1 DEF Good, JobInv
  <2> QED BY <1>1, <2>1, <2>2, RowsGrow DEF Good
<1>4. SyncInv'
  BY <1>1, <1>3 DEF SyncInv, Apart
<1> QED BY <1>2, <1>4

LEMMA LoadStep ==
  ASSUME TypeOK, SyncInv, LoadStation
  PROVE  TypeOK' /\ SyncInv'
<1>1. PICK s \in Loadable \ stationRow :
        /\ \A p \in Scripts : s \notin job[p].stations
        /\ stationRow' = stationRow \cup {s}
        /\ synced' \in {synced, synced \cup {s}}
  BY DEF LoadStation
<1>2. UNCHANGED <<clock, status, job>> /\ s \in Stations /\ clock \in Nat
  BY SyncConstants DEF LoadStation, SyncConstants, TypeOK
<1>3. TypeOK'
  BY <1>1, <1>2 DEF TypeOK, At
<1>4. \A p \in Scripts : JobInv(job[p], stationRow', status, clock)
  <2> SUFFICES ASSUME NEW p \in Scripts
               PROVE  JobInv(job[p], stationRow', status, clock)
    OBVIOUS
  <2>1. Good(job[p], stationRow, status, clock)
    BY GoodJobs
  <2>2. /\ job[p].newStations \cap stationRow' = {}
        /\ \A c \in job[p].newChargers : status[c] = Never
    BY <1>1, <2>1 DEF Good, JobInv
  <2> QED BY <1>2, <2>1, <2>2, RowsGrow DEF Good
<1>5. SyncInv'
  BY <1>1, <1>2, <1>4 DEF SyncInv, Apart
<1> QED BY <1>3, <1>5

LEMMA CommitStep ==
  ASSUME TypeOK, SyncInv, NEW p \in Scripts, Commit(p)
  PROVE  TypeOK' /\ SyncInv'
<1>1. /\ job[p].pc = "item" /\ job[p].items = <<>> /\ UNCHANGED clock
      /\ stationRow' = stationRow \cup job[p].stations
      /\ synced' = synced \cup job[p].stations
      /\ status' = [c \in Chargers |->
            IF c \in job[p].chargers THEN job[p].fetched ELSE status[c]]
      /\ Become(p, NextAddress(job[p]))
  BY DEF Commit, At
<1>2. /\ Good(job[p], stationRow, status, clock) /\ job[p] \in JobType /\ clock \in Nat
      /\ job[p].pc \in InTransaction /\ job[p].pc # "idle"
  BY <1>1, GoodJobs DEF InTransaction
<1>3. /\ job[p].route # <<>> /\ job[p].fetched \in 0..clock /\ job[p].outcome = "none"
      /\ job[p].fetched \in Nat /\ job[p].fetched # Never
      /\ job[p].stations \in SUBSET Stations
      /\ job[p].chargers \in SUBSET Chargers /\ job[p].listed \in SUBSET Chargers
      /\ \A c \in job[p].chargers : StationOf[c] \in job[p].stations
  <2>1. /\ job[p].fetched \in Nat /\ job[p].stations \in SUBSET Stations
        /\ job[p].chargers \in SUBSET Chargers /\ job[p].listed \in SUBSET Chargers
    BY <1>2 DEF JobType
  <2>2. /\ job[p].route # <<>> /\ job[p].fetched \in 0..clock /\ job[p].outcome = "none"
        /\ \A c \in job[p].chargers : StationOf[c] \in job[p].stations
    BY <1>2 DEF Good, JobOK, JobInv
  <2> QED BY <2>1, <2>2 DEF Never
<1>4. \A c \in Chargers : /\ c \in job[p].chargers => status'[c] = job[p].fetched
                          /\ c \notin job[p].chargers => status'[c] = status[c]
  BY <1>1
<1>5. ~job[p].erred => \A c \in job[p].listed : status'[c] # Never
  BY <1>1, <1>2, <1>3, <1>4, EmptyListing DEF Good, JobInv
<1> DEFINE k == NextAddress(job[p])
<1>6. Good(k, stationRow', status', clock)
  BY <1>2, <1>3, <1>5, NextAddressGood
<1>7. k.stations = {} /\ k.chargers = {}
  BY <1>2, <1>3, NextAddressFields
<1>8. job' = [job EXCEPT ![p] = k]
  BY <1>1 DEF Become
<1> HIDE DEF k
<1>9. job \in [Scripts -> JobType]
  BY DEF TypeOK
<1>10. \A q \in Scripts : job'[q] = IF q = p THEN k ELSE job[q]
  BY <1>8, <1>9
<1>11. \A q \in Scripts \ {p} : Good(job[q], stationRow', status', clock)
  <2> SUFFICES ASSUME NEW q \in Scripts \ {p}
               PROVE  Good(job[q], stationRow', status', clock)
    OBVIOUS
  <2>1. Good(job[q], stationRow, status, clock) /\ Apart(job[q], job[p])
        /\ job[q] \in JobType
    BY GoodJobs
  <2>2. /\ job[q].newStations \subseteq job[q].stations \ stationRow
        /\ \A c \in job[q].newChargers : c \in job[q].chargers /\ status[c] = Never
    BY <2>1 DEF Good, JobInv
  <2>3. job[q].newChargers \in SUBSET Chargers /\ job[q].listed \in SUBSET Chargers
    BY <2>1 DEF JobType
  <2>4. job[q].newStations \cap stationRow' = {}
    BY <1>1, <2>1, <2>2 DEF Apart
  <2>5. \A c \in job[q].newChargers : status'[c] = Never
    BY <1>4, <2>1, <2>2, <2>3 DEF Apart
  <2>6. \A c \in job[q].listed : status[c] # Never => status'[c] # Never
    BY <1>3, <1>4, <2>3
  <2> QED BY <1>2, <2>1, <2>4, <2>5, <2>6, RowsGrow
<1>12. \A q \in Scripts : Good(job'[q], stationRow', status', clock)
  BY <1>6, <1>10, <1>11
<1>13. job' \in [Scripts -> JobType]
  BY <1>8, <1>9, <1>12 DEF Good, JobOK
<1>14. status' \in [Chargers -> Times] /\ stationRow' \in SUBSET Stations
       /\ synced' \in SUBSET stationRow'
  BY <1>1, <1>3 DEF TypeOK, Times
<1>15. TypeOK'
  BY <1>1, <1>2, <1>12, <1>13, <1>14 DEF TypeOK, Good, JobOK, At
<1>16. \A c \in Chargers : status'[c] # Never => StationOf[c] \in stationRow'
  BY <1>1, <1>3, <1>4 DEF SyncInv
<1>17. \A q, r \in Scripts : q # r => Apart(job'[q], job'[r])
  BY <1>7, <1>10 DEF SyncInv, Apart
<1>18. SyncInv'
  BY <1>1, <1>12, <1>16, <1>17 DEF SyncInv, Good
<1> QED BY <1>15, <1>18

-----------------------------------------------------------------------------
(* Theorems                                                                *)

LEMMA SyncInitially == Init => TypeOK /\ SyncInv
<1> SUFFICES ASSUME Init PROVE TypeOK /\ SyncInv
  OBVIOUS
<1>1. \A p \in Scripts : job[p] = Idle
  BY DEF Init
<1>2. "none" \in {"none", "done", "failed", "killed"}
  OBVIOUS
<1>3. JobOK(Idle) /\ Idle \in JobType
  BY <1>2, IdleOK DEF JobOK
<1>4. /\ Idle.pc = "idle" /\ Idle.items = <<>> /\ Idle.stations = {} /\ Idle.chargers = {}
      /\ Idle.newStations = {} /\ Idle.newChargers = {} /\ Idle.fetched = 0
      /\ Idle.listed = {}
  BY DEF Idle
<1>5. clock = 0 /\ 0 <= MaxClock
  BY SyncConstants DEF Init, SyncConstants
<1>6. TypeOK
  BY <1>1, <1>3, <1>4, <1>5 DEF Init, TypeOK, JobOK, At, Times, Never
<1>7. \A p \in Scripts : JobInv(job[p], stationRow, status, clock)
  BY <1>1, <1>4, <1>5 DEF JobInv, InTransaction
<1>8. \A p, q \in Scripts : p # q => Apart(job[p], job[q])
  BY <1>1, <1>4 DEF Apart
<1> QED BY <1>5, <1>6, <1>7, <1>8 DEF SyncInv, Init

LEMMA SyncStep == TypeOK /\ SyncInv /\ [Next]_vars => TypeOK' /\ SyncInv'
<1> SUFFICES ASSUME TypeOK, SyncInv, [Next]_vars PROVE TypeOK' /\ SyncInv'
  OBVIOUS
<1>1. CASE UNCHANGED vars
  BY <1>1 DEF vars, TypeOK, SyncInv, At
<1>2. CASE Tick
  BY <1>2, TickStep
<1>3. CASE LoadStation
  BY <1>3, LoadStep
<1>4. ASSUME NEW p \in Scripts, Run(p)
      PROVE  TypeOK' /\ SyncInv'
  <2>1. CASE Start(p)
    BY <2>1, StartStep
  <2>2. CASE FetchAnswers(p) \/ FetchFails(p)
    BY <2>2, FetchStep
  <2>3. CASE TakeItem(p)
    BY <2>3, TakeItemStep
  <2>4. CASE Compare(p)
    BY <2>4, CompareStep
  <2>5. CASE UpdateStation(p)
    BY <2>5, UpdateStationStep
  <2>6. CASE InsertStation(p)
    BY <2>6, InsertStationStep
  <2>7. CASE UpdateCharger(p)
    BY <2>7, UpdateChargerStep
  <2>8. CASE InsertCharger(p)
    BY <2>8, InsertChargerStep
  <2>9. CASE InsertCollides(p) \/ StatementFails(p) \/ DeadlockDetected(p) \/ Killed(p)
    BY <2>9, FailureStep
  <2>10. CASE Commit(p)
    BY <2>10, CommitStep
  <2> QED BY <1>4, <2>1, <2>2, <2>3, <2>4, <2>5, <2>6, <2>7, <2>8, <2>9, <2>10
          DEF Run, Progress, Write
<1> QED BY <1>1, <1>2, <1>3, <1>4 DEF Next

\* The state of the scripts, their transactions and the tables keeps its shape,
\* for any number of scripts and addresses and whatever fails.
THEOREM SyncTypeCorrect == Spec => []TypeOK
<1>1. Init => TypeOK /\ SyncInv
  BY SyncInitially
<1>2. TypeOK /\ SyncInv /\ [Next]_vars => (TypeOK /\ SyncInv)'
  BY SyncStep
<1> QED BY <1>1, <1>2, PTL DEF Spec

\* The inductive invariant: what a transaction has written and the items it has
\* left make up the listing it was told, in the order that keeps a charger
\* behind its station, and no two transactions hold a row.
THEOREM SyncInvariant == Spec => [](TypeOK /\ SyncInv)
<1>1. Init => TypeOK /\ SyncInv
  BY SyncInitially
<1>2. TypeOK /\ SyncInv /\ [Next]_vars => (TypeOK /\ SyncInv)'
  BY SyncStep
<1> QED BY <1>1, <1>2, PTL DEF Spec

\* Neither two scripts nor a script and a handler ever make a second row of a
\* station or of a charger, for the UPDATE and the INSERT of upsert_item and of
\* upsert_station_and_charger are two statements of one transaction.
THEOREM RowsAreMadeOnce == Spec => []OneRowEach
<1>1. TypeOK /\ SyncInv => OneRowEach
  <2> SUFFICES ASSUME TypeOK, SyncInv, NEW p \in Scripts
               PROVE  /\ job[p].newStations \cap stationRow = {}
                      /\ \A c \in job[p].newChargers : status[c] = Never
                      /\ \A q \in Scripts \ {p} :
                            /\ job[p].newStations \cap job[q].newStations = {}
                            /\ job[p].newChargers \cap job[q].newChargers = {}
    BY DEF OneRowEach
  <2>1. \A q \in Scripts :
            /\ job[q].newStations \subseteq job[q].stations \ stationRow
            /\ \A c \in job[q].newChargers : c \in job[q].chargers /\ status[c] = Never
    BY DEF SyncInv, JobInv
  <2>2. \A q \in Scripts \ {p} : Apart(job[p], job[q])
    BY DEF SyncInv
  <2> QED BY <2>1, <2>2 DEF Apart
<1> QED BY <1>1, SyncInvariant, PTL

\* A run that ends as it should has stored every charger it was told of, with
\* its station, however its transactions met those of others.
THEOREM DoneRunsHaveStored == Spec => []DoneMeansStored
<1>1. TypeOK /\ SyncInv => DoneMeansStored
  <2> SUFFICES ASSUME TypeOK, SyncInv, NEW p \in Scripts, NEW c \in job[p].listed,
                      job[p].outcome = "done", ~job[p].erred
               PROVE  status[c] # Never /\ StationOf[c] \in stationRow
    BY DEF DoneMeansStored
  <2>1. Good(job[p], stationRow, status, clock) /\ job[p] \in JobType
    BY GoodJobs
  <2>2. job[p].pc = "idle"
    BY <2>1 DEF Good, JobInv
  <2>3. job[p].pc \notin InTransaction
    BY <2>2 DEF InTransaction
  <2>4. job[p].items = <<>> /\ job[p].chargers = {}
    BY <2>1, <2>3 DEF Good, JobOK, JobInv
  <2>5. status[c] # Never
    BY <2>1, <2>4, EmptyListing DEF Good, JobInv
  <2>6. c \in Chargers
    BY <2>1 DEF JobType
  <2> QED BY <2>5, <2>6 DEF SyncInv
<1> QED BY <1>1, SyncInvariant, PTL

\* The scripts implement StationStore: what they do row by row appears in the
\* tables as whole listings, each with the stations of its chargers.
THEOREM ScriptsStoreListings == Spec => ListingsAreStoredWhole
<1>1. Init => Store!Init
  BY DEF Init, Store!Init, Store!Parented, Store!Stored, Never, Store!Never
<1>2. TypeOK /\ SyncInv /\ TypeOK' /\ SyncInv' /\ [Next]_vars
        => [Store!Next]_Store!storeVars
  <2> SUFFICES ASSUME TypeOK, SyncInv, SyncInv', [Next]_vars
               PROVE  Store!Next \/ UNCHANGED <<clock, stationRow, status>>
    BY DEF Store!storeVars
  <2>1. Store!Parented'
    BY DEF SyncInv, Store!Parented, Store!Stored, Never, Store!Never
  <2>2. CASE UNCHANGED vars
    BY <2>2 DEF vars
  <2>3. CASE Tick
    BY <2>3 DEF Tick, Store!Next, Store!Tick
  <2>4. CASE LoadStation
    <3>1. PICK s \in Loadable : stationRow' = stationRow \cup {s}
      BY <2>4 DEF LoadStation
    <3> DEFINE b == [stations |-> {s}, chargers |-> {}]
    <3>2. b \in SyncBatches
      BY DEF SyncBatches
    <3>3. clock \in 0..clock /\ clock - clock <= MaxClock
      BY SyncConstants DEF TypeOK, SyncConstants
    <3>4. status' = [c \in Chargers |-> IF c \in b.chargers THEN clock ELSE status[c]]
      BY <2>4 DEF LoadStation, TypeOK
    <3>5. UNCHANGED clock
      BY <2>4 DEF LoadStation
    <3>6. Store!Store(b)
      BY <2>1, <3>1, <3>3, <3>4, <3>5 DEF Store!Store
    <3> QED BY <3>2, <3>6 DEF Store!Next
  <2>5. ASSUME NEW p \in Scripts, Run(p)
        PROVE  Store!Next \/ UNCHANGED <<clock, stationRow, status>>
    <3>1. CASE ~Commit(p)
      BY <2>5, <3>1
         DEF Run, Progress, Write, Start, FetchAnswers, FetchFails, TakeItem, Compare,
             UpdateStation, InsertStation, UpdateCharger, InsertCharger, InsertCollides,
             StatementFails, DeadlockDetected, Killed, OnlyJob
    <3>2. CASE Commit(p)
      <4>1. Good(job[p], stationRow, status, clock)
        BY GoodJobs
      <4>2. job[p].pc \in InTransaction /\ job[p].items = <<>>
        BY <3>2 DEF Commit, At, InTransaction
      <4>3. PICK l \in Listed : /\ StationsIn(l) = job[p].stations
                                /\ ChargersIn(l) = job[p].chargers
        BY <4>1, <4>2, EmptyListing DEF Good, JobInv, Whole
      <4>4. BatchOf(l) \in SyncBatches
        BY DEF Listed, SyncBatches
      <4>5. /\ BatchOf(l).stations = job[p].stations
            /\ BatchOf(l).chargers = job[p].chargers
        BY <4>3 DEF BatchOf
      <4>6. job[p].fetched \in 0..clock
        BY <4>1 DEF Good, JobInv
      <4>7. clock - job[p].fetched <= MaxClock
        <5>1. clock \in Nat /\ clock <= MaxClock /\ MaxClock \in Nat
          BY SyncConstants DEF TypeOK, SyncInv, SyncConstants
        <5> QED BY <4>6, <5>1
      <4>8. Store!Store(BatchOf(l))
        BY <2>1, <3>2, <4>5, <4>6, <4>7 DEF Store!Store, Commit
      <4> QED BY <4>4, <4>8 DEF Store!Next
    <3> QED BY <3>1, <3>2
  <2> QED BY <2>2, <2>3, <2>4, <2>5 DEF Next
<1> QED BY <1>1, <1>2, SyncInvariant, PTL DEF Spec, ListingsAreStoredWhole, Store!Spec

=============================================================================
