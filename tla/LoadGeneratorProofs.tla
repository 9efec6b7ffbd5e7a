------------------------- MODULE LoadGeneratorProofs -------------------------
(***************************************************************************)
(* Proofs about the load generator, for any units, streams and number of   *)
(* notices that wait.                                                      *)
(***************************************************************************)
EXTENDS LoadGenerator, FiniteSetTheorems, TLAPS

NoticeTypes == {"added", "modified", "removed"}

Notice == [type : NoticeTypes, unit : Units]

MainType == [pc : {"select", "new", "stream", "teardown"}, unit : Units \cup {NoUnit},
             todo : Nat, mgr : SUBSET Runs, again : BOOLEAN]

RunType == [pc : {"open", "loop", "early", "failed", "degraded", "ended"},
            unit : Units \cup {NoUnit}, stop : BOOLEAN]

\* A notice of type t for the unit u is waiting.
Has(t, u) == \E i \in 1 .. Len(changes) : changes[i].type = t /\ changes[i].unit = u

\* The main loop has a runner for the unit, or is about to.
Exists(u) == u \in DOMAIN runners \/ main.unit = u

\* The notices of a unit: added comes first and removed last.
Ordered ==
    \A j \in 1 .. Len(changes) : \A i \in 1 .. j - 1 :
        changes[i].unit = changes[j].unit => changes[j].type # "added" /\ changes[i].type # "removed"

\* What the notices say about a unit, and whether it has a runner.
UnitQueue(u) ==
    /\ expected[u] = "none" => ~Exists(u) /\ \A t \in NoticeTypes : ~Has(t, u)
    /\ Has("added", u) => ~Exists(u)
    /\ Has("removed", u) => expected[u] = "gone"
    /\ expected[u] \in {"healthy", "stopped"} \/ Has("modified", u) \/ Has("removed", u) =>
          Has("added", u) \/ Exists(u)
    /\ expected[u] = "gone" /\ ~Has("removed", u) => ~Exists(u) /\ \A t \in NoticeTypes : ~Has(t, u)
    /\ expected[u] \in {"stopped", "gone"} /\ Has("added", u) => Has("modified", u)

QueueShape == \A u \in Units : UnitQueue(u)

\* The place of the main loop and its local variables.
MainShape ==
    /\ main.pc = "select" => main = Idle
    /\ main.pc # "select" => main.unit \in Units
    /\ main.pc \in {"new", "stream"} /\ main.unit \in DOMAIN runners => runners[main.unit] = {}
    /\ main.pc = "teardown" => main.unit \in DOMAIN runners
    /\ main.pc # "stream" => main.mgr = {}
    /\ main.pc = "stream" => Cardinality(main.mgr) + main.todo = StreamCount[main.unit]
    /\ IsFiniteSet(main.mgr)

\* A unit is where it is expected to be, or on the way there.
OnTheWay(u) ==
    /\ main.unit = u =>
          /\ expected[u] = "healthy" => main.pc \in {"new", "stream"} \/ main.again
          /\ expected[u] \in {"stopped", "gone"} => main.pc = "teardown" /\ ~main.again
    /\ main.unit # u /\ u \in DOMAIN runners =>
          /\ expected[u] = "healthy" => Cardinality(runners[u]) = StreamCount[u]
          /\ expected[u] \in {"stopped", "gone"} => runners[u] = {}

\* Every unit is, unless a notice waits that will change it.
Follows == \A u \in Units : ~Has("added", u) /\ ~Has("modified", u) => OnTheWay(u)

IInv ==
    /\ TypeOK
    /\ RunnerIsKnown
    /\ NoOrphan
    /\ status = "up" => Ordered /\ QueueShape /\ MainShape /\ Follows

\* What a step changes of the notices, the main loop and the runners.
shape == <<expected, changes, runners, main>>
-----------------------------------------------------------------------------
(***************************************************************************)
(* The queue of notices.                                                   *)
(***************************************************************************)

\* A notice is appended to the queue.
LEMMA Appended ==
  ASSUME changes \in Seq(Notice), NEW t \in NoticeTypes, NEW u \in Units,
         changes' = Append(changes, [type |-> t, unit |-> u])
  PROVE  /\ changes' \in Seq(Notice)
         /\ \A t2 \in NoticeTypes, u2 \in Units : Has(t2, u2)' <=> Has(t2, u2) \/ (t2 = t /\ u2 = u)
         /\ Ordered /\ (t = "added" => \A t2 \in NoticeTypes : ~Has(t2, u)) /\ ~Has("removed", u)
               => Ordered'
<1>1. [type |-> t, unit |-> u] \in Notice
  BY DEF Notice
<1>2. /\ changes' \in Seq(Notice) /\ Len(changes) \in Nat /\ Len(changes') = Len(changes) + 1
      /\ \A i \in 1 .. Len(changes) : changes'[i] = changes[i]
      /\ changes'[Len(changes) + 1] = [type |-> t, unit |-> u]
  BY <1>1
<1>3. \A i \in 1 .. Len(changes) : changes[i].type \in NoticeTypes /\ changes[i].unit \in Units
  <2>1. \A n \in Notice : n.type \in NoticeTypes /\ n.unit \in Units
    BY DEF Notice
  <2> QED BY <2>1
<1>4. \A t2 \in NoticeTypes, u2 \in Units : Has(t2, u2)' <=> Has(t2, u2) \/ (t2 = t /\ u2 = u)
  <2> TAKE t2 \in NoticeTypes, u2 \in Units
  <2>1. ASSUME Has(t2, u2) PROVE Has(t2, u2)'
    <3>1. PICK i \in 1 .. Len(changes) : changes[i].type = t2 /\ changes[i].unit = u2
      BY <2>1 DEF Has
    <3>2. i \in 1 .. Len(changes')
      BY <1>2
    <3> QED BY <3>1, <3>2, <1>2 DEF Has
  <2>2. ASSUME t2 = t, u2 = u PROVE Has(t2, u2)'
    <3>1. Len(changes) + 1 \in 1 .. Len(changes')
      BY <1>2
    <3> QED BY <3>1, <2>2, <1>2 DEF Has
  <2>3. ASSUME Has(t2, u2)' PROVE Has(t2, u2) \/ (t2 = t /\ u2 = u)
    <3>1. PICK i \in 1 .. Len(changes') : changes'[i].type = t2 /\ changes'[i].unit = u2
      BY <2>3 DEF Has
    <3>2. i \in 1 .. Len(changes) \/ i = Len(changes) + 1
      BY <1>2
    <3> QED BY <3>1, <3>2, <1>2 DEF Has
  <2> QED BY <2>1, <2>2, <2>3
<1>5. ASSUME Ordered, t = "added" => \A t2 \in NoticeTypes : ~Has(t2, u), ~Has("removed", u)
      PROVE  Ordered'
  <2> SUFFICES ASSUME NEW j \in 1 .. Len(changes'), NEW i \in 1 .. j - 1,
                      changes'[i].unit = changes'[j].unit
               PROVE  changes'[j].type # "added" /\ changes'[i].type # "removed"
    BY DEF Ordered
  <2>1. i \in 1 .. Len(changes) /\ (j \in 1 .. Len(changes) \/ j = Len(changes) + 1)
    BY <1>2
  <2>2. CASE j \in 1 .. Len(changes)
    BY <2>1, <2>2, <1>2, <1>5 DEF Ordered
  <2>3. CASE j = Len(changes) + 1
    <3>1. changes[i].unit = u /\ changes'[j].type = t /\ changes'[i] = changes[i]
      BY <2>1, <2>3, <1>2
    <3>2. Has(changes[i].type, u) /\ changes[i].type \in NoticeTypes
      BY <3>1, <2>1, <1>3 DEF Has
    <3> QED BY <3>1, <3>2, <1>5
  <2> QED BY <2>1, <2>2, <2>3
<1> QED BY <1>2, <1>4, <1>5

\* The first notice is taken from the queue.
LEMMA Taken ==
  ASSUME changes \in Seq(Notice), changes # <<>>, changes' = Tail(changes), Ordered,
         NEW h, h = Head(changes)
  PROVE  /\ changes' \in Seq(Notice) /\ h.unit \in Units
         /\ Has(h.type, h.unit) /\ h.type \in NoticeTypes
         /\ \A t \in NoticeTypes, u \in Units :
               /\ Has(t, u)' => Has(t, u)
               /\ Has(t, u) => Has(t, u)' \/ (t = h.type /\ u = h.unit)
         /\ Ordered'
         /\ ~Has("added", h.unit)'
         /\ h.type = "removed" => \A t \in NoticeTypes : ~Has(t, h.unit)'
         /\ h.type # "added" => ~Has("added", h.unit)
<1>1. /\ changes' \in Seq(Notice) /\ Len(changes) \in Nat \ {0} /\ Len(changes') = Len(changes) - 1
      /\ \A i \in 1 .. Len(changes') : changes'[i] = changes[i + 1]
      /\ h = changes[1]
  OBVIOUS
<1>2. \A i \in 1 .. Len(changes) : changes[i] \in Notice /\ changes[i].type \in NoticeTypes
                                  /\ changes[i].unit \in Units
  <2>1. \A n \in Notice : n.type \in NoticeTypes /\ n.unit \in Units
    BY DEF Notice
  <2> QED BY <2>1
<1>3. 1 \in 1 .. Len(changes)
  BY <1>1
<1>4. h.unit \in Units /\ h.type \in NoticeTypes /\ Has(h.type, h.unit)
  BY <1>1, <1>2, <1>3 DEF Has
<1>5. \A t \in NoticeTypes, u \in Units :
               /\ Has(t, u)' => Has(t, u)
               /\ Has(t, u) => Has(t, u)' \/ (t = h.type /\ u = h.unit)
  <2> TAKE t \in NoticeTypes, u \in Units
  <2>1. ASSUME Has(t, u)' PROVE Has(t, u)
    <3>1. PICK i \in 1 .. Len(changes') : changes'[i].type = t /\ changes'[i].unit = u
      BY <2>1 DEF Has
    <3>2. i + 1 \in 1 .. Len(changes) /\ changes'[i] = changes[i + 1]
      BY <1>1
    <3> QED BY <3>1, <3>2 DEF Has
  <2>2. ASSUME Has(t, u), ~(t = h.type /\ u = h.unit) PROVE Has(t, u)'
    <3>1. PICK i \in 1 .. Len(changes) : changes[i].type = t /\ changes[i].unit = u
      BY <2>2 DEF Has
    <3>2. i # 1
      BY <2>2, <3>1
    <3>3. i - 1 \in 1 .. Len(changes') /\ (i - 1) + 1 = i
      BY <1>1, <3>2
    <3>4. changes'[i - 1] = changes[i]
      BY <1>1, <3>3
    <3> QED BY <3>1, <3>3, <3>4 DEF Has
  <2> QED BY <2>1, <2>2
<1>6. Ordered'
  <2> SUFFICES ASSUME NEW j \in 1 .. Len(changes'), NEW i \in 1 .. j - 1,
                      changes'[i].unit = changes'[j].unit
               PROVE  changes'[j].type # "added" /\ changes'[i].type # "removed"
    BY DEF Ordered
  <2>1. /\ j + 1 \in 1 .. Len(changes) /\ i + 1 \in 1 .. (j + 1) - 1 /\ i \in 1 .. Len(changes')
    BY <1>1
  <2>2. changes'[j] = changes[j + 1] /\ changes'[i] = changes[i + 1]
    BY <1>1, <2>1
  <2> QED BY <2>1, <2>2 DEF Ordered
<1>7. \A i \in 1 .. Len(changes') : changes'[i].unit = h.unit =>
         changes'[i].type # "added" /\ h.type # "removed" /\ changes'[i].type \in NoticeTypes
  <2> SUFFICES ASSUME NEW i \in 1 .. Len(changes'), changes'[i].unit = h.unit
               PROVE  changes'[i].type # "added" /\ h.type # "removed" /\ changes'[i].type \in NoticeTypes
    OBVIOUS
  <2>1. i + 1 \in 1 .. Len(changes) /\ 1 \in 1 .. (i + 1) - 1 /\ changes'[i] = changes[i + 1]
    BY <1>1
  <2> QED BY <2>1, <1>2 DEF Ordered
<1>8. ~Has("added", h.unit)' /\ (h.type = "removed" => \A t \in NoticeTypes : ~Has(t, h.unit)')
  <2>1. ASSUME NEW t \in NoticeTypes, NEW u \in Units, u = h.unit, Has(t, u)'
        PROVE  t # "added" /\ h.type # "removed"
    <3>1. PICK i \in 1 .. Len(changes') : changes'[i].type = t /\ changes'[i].unit = u
      BY <2>1 DEF Has
    <3> QED BY <3>1, <2>1, <1>7
  <2>2. "added" \in NoticeTypes
    BY DEF NoticeTypes
  <2> QED BY <2>1, <2>2, <1>4
<1>9. h.type # "added" => ~Has("added", h.unit)
  <2>1. "added" \in NoticeTypes
    BY DEF NoticeTypes
  <2> QED BY <2>1, <1>4, <1>5, <1>8
<1> QED BY <1>1, <1>4, <1>5, <1>6, <1>8, <1>9
-----------------------------------------------------------------------------
(***************************************************************************)
(* The steps.                                                              *)
(***************************************************************************)

\* The types of the variables, by name.
LEMMA Types ==
  TypeOK <=> /\ status \in {"up", "exited", "panic"}
             /\ expected \in [Units -> {"none", "healthy", "stopped", "gone"}]
             /\ state \in [Units -> Report]
             /\ changes \in Seq(Notice)
             /\ DOMAIN runners \subseteq Units
             /\ \A u \in DOMAIN runners : runners[u] \subseteq Runs
             /\ main \in MainType
             /\ run \in [Runs -> RunType]
  BY DEF TypeOK, Notice, NoticeTypes, MainType, RunType

\* They are enough for the next state too.
LEMMA NextTypes ==
  /\ status' \in {"up", "exited", "panic"}
  /\ expected' \in [Units -> {"none", "healthy", "stopped", "gone"}]
  /\ state' \in [Units -> Report]
  /\ changes' \in Seq(Notice)
  /\ DOMAIN runners' \subseteq Units
  /\ \A u \in DOMAIN runners' : runners'[u] \subseteq Runs
  /\ main' \in MainType
  /\ run' \in [Runs -> RunType]
  => TypeOK'
  BY DEF TypeOK, Notice, NoticeTypes, MainType, RunType

\* The fields of the main loop.
LEMMA MainFields ==
  \A m \in MainType : /\ m.pc \in {"select", "new", "stream", "teardown"} /\ m.unit \in Units \cup {NoUnit}
                      /\ m.todo \in Nat /\ m.mgr \in SUBSET Runs /\ m.again \in BOOLEAN
  BY DEF MainType

\* Before the first notice nothing is known and nothing runs.
LEMMA InitIInv == Init => IInv
<1> SUFFICES ASSUME Init PROVE IInv
  OBVIOUS
<1>1. TypeOK
  BY DEF Init, TypeOK, Idle, Ended, Report
<1>2. RunnerIsKnown /\ NoOrphan
  BY DEF Init, RunnerIsKnown, NoOrphan, Ended
<1>3. Len(changes) = 0
  BY DEF Init
<1>4. \A t, u : ~Has(t, u)
  BY <1>3 DEF Has
<1>5. Ordered
  BY <1>3 DEF Ordered
<1>6. DOMAIN runners = {} /\ main = Idle /\ main.unit = NoUnit /\ main.pc = "select" /\ main.mgr = {}
  BY DEF Init, Idle
<1>7. \A u \in Units : expected[u] = "none" /\ ~Exists(u)
  BY <1>6, LoadGeneratorAssumption DEF Init, Exists
<1>8. QueueShape
  BY <1>4, <1>7 DEF QueueShape, UnitQueue
<1>9. MainShape
  BY <1>6, FS_EmptySet DEF MainShape
<1>10. Follows
  BY <1>6, <1>7 DEF Follows, OnTheWay
<1> QED BY <1>1, <1>2, <1>5, <1>8, <1>9, <1>10 DEF IInv

\* A stream changes its own place and what the agent sees.
LEMMA KeepsShape ==
  ASSUME UNCHANGED shape, Ordered /\ QueueShape /\ MainShape /\ Follows
  PROVE  (Ordered /\ QueueShape /\ MainShape /\ Follows)'
<1>1. UNCHANGED <<expected, changes, runners, main>>
  BY DEF shape
<1>2. \A t, u : Has(t, u)' = Has(t, u)
  BY <1>1 DEF Has
<1>3. \A u : Exists(u)' = Exists(u)
  BY <1>1 DEF Exists
<1>4. Ordered'
  BY <1>1 DEF Ordered
<1>5. QueueShape'
  BY <1>1, <1>2, <1>3 DEF QueueShape, UnitQueue
<1>6. MainShape'
  BY <1>1 DEF MainShape
<1>7. Follows'
  BY <1>1, <1>2 DEF Follows, OnTheWay
<1> QED BY <1>4, <1>5, <1>6, <1>7

\* A stream that goes on does not enter its loop, but from its opening.
LEMMA StepRun ==
  ASSUME IInv, NEW r \in Runs, NEW from, NEW to \in {"loop", "early", "failed", "degraded", "ended"},
         RunStep(r, from, to), to = "loop" => from = "open", state' \in [Units -> Report]
  PROVE  IInv'
<1>1. status = "up" /\ run[r].pc = from /\ UNCHANGED <<status, expected, changes, runners, main>>
  BY DEF RunStep, agent
<1>2. TypeOK /\ run \in [Runs -> RunType]
  BY Types DEF IInv
<1>3. Ended \in RunType /\ [run[r] EXCEPT !.pc = to] \in RunType
  BY <1>2 DEF RunType, Ended
<1>4. PICK x \in RunType : x = IF to = "ended" THEN Ended ELSE [run[r] EXCEPT !.pc = to]
  BY <1>3
<1>5. run' = [run EXCEPT ![r] = x]
  BY <1>4 DEF RunStep
<1>6. run' \in [Runs -> RunType]
  BY <1>2, <1>5
<1>7. TypeOK'
  <2>1. /\ status' \in {"up", "exited", "panic"}
        /\ expected' \in [Units -> {"none", "healthy", "stopped", "gone"}]
        /\ changes' \in Seq(Notice)
        /\ DOMAIN runners' \subseteq Units
        /\ \A u \in DOMAIN runners' : runners'[u] \subseteq Runs
        /\ main' \in MainType
    BY <1>1, <1>2, Types
  <2> QED BY <2>1, <1>6, NextTypes
<1>8. NoOrphan'
  <2> SUFFICES ASSUME NEW q \in Runs, run'[q].pc \in {"open", "loop"}
               PROVE  Registered(q)' \/ run'[q].stop
    BY DEF NoOrphan
  <2>1. run[q].pc \in {"open", "loop"} /\ run'[q].stop = run[q].stop
    <3>1. CASE q # r
      BY <3>1, <1>2, <1>5
    <3>2. CASE q = r
      <4>1. run'[q] = x
        BY <3>2, <1>2, <1>5
      <4>2. to # "ended"
        BY <4>1, <1>4 DEF Ended
      <4>3. x = [run[r] EXCEPT !.pc = to] /\ x.pc = to /\ x.stop = run[r].stop
        BY <4>2, <1>2, <1>4 DEF RunType
      <4> QED BY <4>1, <4>3, <3>2, <1>1
    <3> QED BY <3>1, <3>2
  <2>2. Registered(q) <=> Registered(q)'
    BY <1>1 DEF Registered
  <2> QED BY <2>1, <2>2 DEF IInv, NoOrphan
<1>9. (Ordered /\ QueueShape /\ MainShape /\ Follows)'
  BY <1>1, KeepsShape DEF IInv, shape
<1> QED BY <1>1, <1>7, <1>8, <1>9 DEF IInv, RunnerIsKnown

\* All steps of a stream.
LEMMA StepStream == ASSUME IInv, NEW r \in Runs, Output(r) \/ Stream(r) PROVE IInv'
<1>1. state \in [Units -> Report]
  BY DEF IInv, TypeOK
<1>2. \A s \in Report : StreamReports(r, s) => state' \in [Units -> Report]
  BY <1>1 DEF StreamReports
<1>3. "healthy" \in Report /\ "degraded" \in Report
  BY DEF Report
<1>4. CASE SendFails(r) \/ Finished(r) \/ Open(r) \/ OpenFails(r) \/ GotStop(r)
  <2>1. UNCHANGED state
    BY <1>4 DEF SendFails, Finished, Open, OpenFails, GotStop
  <2>2. \/ RunStep(r, "loop", "failed") \/ RunStep(r, "loop", "early") \/ RunStep(r, "open", "loop")
        \/ RunStep(r, "open", "failed") \/ RunStep(r, "loop", "ended")
    BY <1>4 DEF SendFails, Finished, Open, OpenFails, GotStop
  <2> QED BY <2>1, <2>2, <1>1, StepRun
<1>5. CASE EndEarly(r) \/ EndFailed(r) \/ EndDegraded(r)
  <2>1. state' \in [Units -> Report]
    BY <1>2, <1>3, <1>5 DEF EndEarly, EndFailed, EndDegraded
  <2>2. RunStep(r, "early", "ended") \/ RunStep(r, "failed", "degraded") \/ RunStep(r, "degraded", "ended")
    BY <1>5 DEF EndEarly, EndFailed, EndDegraded
  <2> QED BY <2>1, <2>2, StepRun
<1> QED BY <1>4, <1>5 DEF Output, Stream

\* The agent and its client: a unit is added, modified or removed.
LEMMA StepAgent ==
  ASSUME IInv, NEW u \in Units, NEW t \in NoticeTypes, NEW e \in {"healthy", "stopped", "gone"},
         Notify(t, u), expected' = [expected EXCEPT ![u] = e],
         \/ t = "added" /\ expected[u] = "none" /\ e = "healthy"
         \/ t = "modified" /\ expected[u] \in {"healthy", "stopped"} /\ e \in {"healthy", "stopped"}
         \/ t = "removed" /\ expected[u] = "stopped" /\ e = "gone"
  PROVE  IInv'
<1>1. status = "up" /\ changes' = Append(changes, [type |-> t, unit |-> u])
        /\ UNCHANGED <<status, state, runners, main, run>>
  BY DEF Notify
<1>2. TypeOK /\ Ordered /\ QueueShape /\ MainShape /\ Follows
  BY <1>1 DEF IInv
<1>3. changes \in Seq(Notice) /\ expected \in [Units -> {"none", "healthy", "stopped", "gone"}]
  BY <1>2, Types
<1>4. /\ changes' \in Seq(Notice)
      /\ \A t2 \in NoticeTypes, v \in Units : Has(t2, v)' <=> Has(t2, v) \/ (t2 = t /\ v = u)
      /\ Ordered /\ (t = "added" => \A t2 \in NoticeTypes : ~Has(t2, u)) /\ ~Has("removed", u) => Ordered'
  BY <1>1, <1>3, Appended
<1>5. /\ t = "added" => \A t2 \in NoticeTypes : ~Has(t2, u)
      /\ ~Has("removed", u)
  BY <1>2 DEF QueueShape, UnitQueue, NoticeTypes
<1>6. /\ expected' \in [Units -> {"none", "healthy", "stopped", "gone"}] /\ expected'[u] = e
      /\ \A v \in Units : v # u => expected'[v] = expected[v]
  BY <1>3
<1>7. TypeOK'
  <2>1. /\ status' \in {"up", "exited", "panic"} /\ state' \in [Units -> Report]
        /\ DOMAIN runners' \subseteq Units
        /\ \A v \in DOMAIN runners' : runners'[v] \subseteq Runs
        /\ main' \in MainType /\ run' \in [Runs -> RunType]
    BY <1>1, <1>2, Types
  <2> QED BY <2>1, <1>4, <1>6, NextTypes
<1>8. NoOrphan'
  BY <1>1 DEF IInv, NoOrphan, Registered
<1>9. \A v : Exists(v)' = Exists(v)
  BY <1>1 DEF Exists
<1>10. {"added", "modified", "removed"} = NoticeTypes
  BY DEF NoticeTypes
<1>11. QueueShape'
  <2>1. ASSUME NEW v \in Units, v # u
        PROVE  \A t2 \in NoticeTypes : (Has(t2, v)' <=> Has(t2, v)) /\ expected'[v] = expected[v]
    BY <2>1, <1>4, <1>6
  <2>2. ASSUME NEW v \in Units
        PROVE  UnitQueue(v)'
    <3>1. CASE v # u
      BY <3>1, <2>1, <1>2, <1>9, <1>10 DEF QueueShape, UnitQueue
    <3>2. CASE v = u
      <4>1. /\ Has("added", u)' <=> Has("added", u) \/ t = "added"
            /\ Has("modified", u)' <=> Has("modified", u) \/ t = "modified"
            /\ Has("removed", u)' <=> Has("removed", u) \/ t = "removed"
        BY <1>4, <1>10
      <4>2. t = "added" => ~Has("added", u) /\ ~Has("modified", u) /\ ~Exists(u)
        BY <1>2, <1>10 DEF QueueShape, UnitQueue
      <4>3. /\ t \in {"modified", "removed"} => Has("added", u) \/ Exists(u)
            /\ t = "removed" /\ Has("added", u) => Has("modified", u)
            /\ Has("added", u) => ~Exists(u)
        BY <1>2 DEF QueueShape, UnitQueue
      <4> QED BY <3>2, <4>1, <4>2, <4>3, <1>5, <1>6, <1>9, <1>10 DEF UnitQueue
    <3> QED BY <3>1, <3>2
  <2> QED BY <2>2 DEF QueueShape, UnitQueue
<1>12. MainShape'
  BY <1>1, <1>2 DEF MainShape
<1>13. Follows'
  <2> SUFFICES ASSUME NEW v \in Units, ~Has("added", v)', ~Has("modified", v)'
               PROVE  OnTheWay(v)'
    BY DEF Follows, OnTheWay
  <2>1. ~Has("added", v) /\ ~Has("modified", v)
    BY <1>4, <1>10
  <2>2. v = u => t = "removed"
    BY <1>4, <1>10
  <2>3. expected'[v] = expected[v] \/ (expected[v] = "stopped" /\ expected'[v] = "gone")
    BY <2>2, <1>6
  <2> QED BY <2>1, <2>3, <1>1, <1>2 DEF Follows, OnTheWay
<1> QED BY <1>1, <1>4, <1>2, <1>5, <1>7, <1>8, <1>11, <1>12, <1>13 DEF IInv, RunnerIsKnown

\* The process ends: nothing is left to be wrong.
LEMMA StepExit == ASSUME IInv, Exit, UNCHANGED <<expected, state>> PROVE IInv'
<1>1. status' = "exited" /\ changes' = <<>> /\ DOMAIN runners' = {} /\ main' = Idle
        /\ run' = [r \in Runs |-> Ended]
  BY DEF Exit
<1>2. Idle \in MainType /\ Ended \in RunType
  BY DEF Idle, Ended, MainType, RunType
<1>3. TypeOK'
  <2>1. changes' \in Seq(Notice) /\ run' \in [Runs -> RunType]
    BY <1>1, <1>2
  <2>2. expected' \in [Units -> {"none", "healthy", "stopped", "gone"}] /\ state' \in [Units -> Report]
    BY Types DEF IInv
  <2> QED BY <2>1, <2>2, <1>1, <1>2, NextTypes
<1>4. NoOrphan'
  BY <1>1 DEF NoOrphan, Ended
<1> QED BY <1>1, <1>3, <1>4 DEF IInv, RunnerIsKnown

\* The facts of a step in which the main loop takes a notice.
LEMMA Handled ==
  ASSUME IInv, NEW t \in NoticeTypes, Take(t), changes' = Tail(changes), expected' = expected,
         NEW h, h = Head(changes)
  PROVE  /\ status = "up" /\ TypeOK /\ QueueShape /\ MainShape /\ Follows
         /\ main = Idle /\ main.unit = NoUnit /\ main.mgr = {}
         /\ changes' \in Seq(Notice) /\ Ordered'
         /\ h.type = t /\ h.unit \in Units
         /\ Has(t, h.unit) /\ ~Has("added", h.unit)'
         /\ t # "added" => ~Has("added", h.unit)
         /\ t = "removed" => \A t2 \in NoticeTypes : ~Has(t2, h.unit)'
         /\ \A t2 \in NoticeTypes, v \in Units : /\ Has(t2, v)' => Has(t2, v)
                                                 /\ Has(t2, v) => Has(t2, v)' \/ (t2 = t /\ v = h.unit)
<1>1. status = "up" /\ main.pc = "select" /\ changes # <<>> /\ h.type = t
  BY DEF Take
<1>2. TypeOK /\ Ordered /\ QueueShape /\ MainShape /\ Follows /\ changes \in Seq(Notice)
  BY <1>1, Types DEF IInv
<1>3. main = Idle /\ main.unit = NoUnit /\ main.mgr = {}
  BY <1>1, <1>2 DEF MainShape, Idle
<1> QED BY <1>1, <1>2, <1>3, Taken

\* A new unit: the main loop is about to start its streams.
LEMMA StepHandleAdded == ASSUME IInv, HandleAdded PROVE IInv'
<1>0. PICK h : h = Head(changes)
  OBVIOUS
<1>1. Take("added") /\ changes' = Tail(changes) /\ UNCHANGED <<status, expected, state, runners, run>>
  BY DEF HandleAdded
<1>2. {"added", "modified", "removed"} = NoticeTypes
  BY DEF NoticeTypes
<1>3. /\ status = "up" /\ TypeOK /\ QueueShape /\ MainShape /\ Follows
      /\ main = Idle /\ main.unit = NoUnit /\ main.mgr = {}
      /\ changes' \in Seq(Notice) /\ Ordered'
      /\ h.unit \in Units
      /\ Has("added", h.unit) /\ ~Has("added", h.unit)'
      /\ \A t2 \in NoticeTypes, v \in Units : /\ Has(t2, v)' => Has(t2, v)
                                              /\ Has(t2, v) => Has(t2, v)' \/ (t2 = "added" /\ v = h.unit)
  BY <1>0, <1>1, <1>2, Handled
<1>4. PICK u \in Units : u = h.unit
  BY <1>3
<1>5. main' = [pc |-> "new", unit |-> u, todo |-> 0, mgr |-> {}, again |-> FALSE]
  BY <1>0, <1>4 DEF HandleAdded, Idle
<1>6. main' \in MainType /\ main'.pc = "new" /\ main'.unit = u /\ main'.mgr = {}
  BY <1>5 DEF MainType
<1>7. u # NoUnit /\ NoUnit \notin Units
  BY LoadGeneratorAssumption
<1>8. u \notin DOMAIN runners /\ expected[u] # "none"
  BY <1>2, <1>3, <1>4 DEF QueueShape, UnitQueue, Exists
<1>9. /\ Exists(u)' /\ \A v \in Units : v # u => Exists(v)' = Exists(v)
  BY <1>1, <1>3, <1>6, <1>7 DEF Exists
<1>10. TypeOK'
  <2>1. /\ status' \in {"up", "exited", "panic"} /\ state' \in [Units -> Report]
        /\ expected' \in [Units -> {"none", "healthy", "stopped", "gone"}]
        /\ DOMAIN runners' \subseteq Units
        /\ \A v \in DOMAIN runners' : runners'[v] \subseteq Runs
        /\ run' \in [Runs -> RunType]
    BY <1>1, <1>3, Types
  <2> QED BY <2>1, <1>3, <1>6, NextTypes
<1>11. NoOrphan'
  <2>1. \A r : Registered(r) => Registered(r)'
    BY <1>1, <1>3 DEF Registered
  <2> QED BY <2>1, <1>1 DEF IInv, NoOrphan
<1>12. QueueShape'
  <2> SUFFICES ASSUME NEW v \in Units
        PROVE  UnitQueue(v)'
    BY DEF QueueShape, UnitQueue
  <2>1. CASE v # u
    <3>1. \A t2 \in NoticeTypes : Has(t2, v)' <=> Has(t2, v)
      BY <2>1, <1>3, <1>4
    <3> QED BY <2>1, <3>1, <1>1, <1>2, <1>3, <1>9 DEF QueueShape, UnitQueue
  <2>2. CASE v = u
    <3>1. ~Has("added", u)' /\ Has("added", u) /\ (Has("modified", u)' <=> Has("modified", u))
            /\ (Has("removed", u)' <=> Has("removed", u))
      BY <1>2, <1>3, <1>4
    <3>2. expected[u] = "gone" => Has("removed", u)
      BY <3>1, <1>2, <1>3 DEF QueueShape, UnitQueue
    <3> QED BY <2>2, <3>1, <3>2, <1>1, <1>3, <1>8, <1>9 DEF QueueShape, UnitQueue
  <2> QED BY <2>1, <2>2
<1>13. MainShape'
  BY <1>1, <1>4, <1>6, <1>8, FS_EmptySet DEF MainShape
<1>14. Follows'
  <2> SUFFICES ASSUME NEW v \in Units, ~Has("added", v)', ~Has("modified", v)'
               PROVE  OnTheWay(v)'
    BY DEF Follows, OnTheWay
  <2>1. CASE v # u
    <3>1. ~Has("added", v) /\ ~Has("modified", v)
      BY <2>1, <1>2, <1>3, <1>4
    <3> QED BY <2>1, <3>1, <1>1, <1>3, <1>6, <1>7 DEF Follows, OnTheWay
  <2>2. CASE v = u
    <3>1. ~Has("modified", u) /\ Has("added", u)
      BY <2>2, <1>2, <1>3, <1>4
    <3>2. expected[u] \notin {"stopped", "gone"}
      BY <3>1, <1>3 DEF QueueShape, UnitQueue
    <3> QED BY <2>2, <3>2, <1>1, <1>6 DEF OnTheWay
  <2> QED BY <2>1, <2>2
<1> QED BY <1>1, <1>3, <1>10, <1>11, <1>12, <1>13, <1>14 DEF IInv, RunnerIsKnown

\* A modified unit has a runner, and its streams are about to be stopped.
LEMMA StepHandleModified == ASSUME IInv, HandleModified PROVE IInv'
<1>0. PICK h : h = Head(changes)
  OBVIOUS
<1>1. Take("modified") /\ changes' = Tail(changes) /\ UNCHANGED <<expected, runners, run>>
  BY DEF HandleModified
<1>2. {"added", "modified", "removed"} = NoticeTypes
  BY DEF NoticeTypes
<1>3. /\ status = "up" /\ TypeOK /\ QueueShape /\ MainShape /\ Follows
      /\ main = Idle /\ main.unit = NoUnit /\ main.mgr = {}
      /\ changes' \in Seq(Notice) /\ Ordered'
      /\ h.unit \in Units
      /\ Has("modified", h.unit) /\ ~Has("added", h.unit)' /\ ~Has("added", h.unit)
      /\ \A t2 \in NoticeTypes, v \in Units : /\ Has(t2, v)' => Has(t2, v)
                                              /\ Has(t2, v) => Has(t2, v)' \/ (t2 = "modified" /\ v = h.unit)
  BY <1>0, <1>1, <1>2, Handled
<1>4. PICK u \in Units : u = h.unit
  BY <1>3
<1>5. PICK a \in BOOLEAN : a <=> expected[u] = "healthy"
  OBVIOUS
<1>6. main' = [pc |-> "teardown", unit |-> u, todo |-> 0, mgr |-> {}, again |-> a]
  <2>1. main' = [pc |-> "teardown", unit |-> u, todo |-> 0, mgr |-> {}, again |-> (expected[u] = "healthy")]
    BY <1>0, <1>4 DEF HandleModified, Idle
  <2>2. (expected[u] = "healthy") = a
    BY <1>5
  <2> QED BY <2>1, <2>2
<1>7. main' \in MainType /\ main'.pc = "teardown" /\ main'.unit = u /\ main'.mgr = {} /\ main'.again = a
  BY <1>6 DEF MainType
<1>8. u # NoUnit /\ NoUnit \notin Units
  BY LoadGeneratorAssumption
<1>9. u \in DOMAIN runners /\ expected[u] # "none"
  <2>1. Exists(u)
    BY <1>3, <1>4 DEF QueueShape, UnitQueue
  <2> QED BY <2>1, <1>2, <1>3, <1>8 DEF QueueShape, UnitQueue, Exists
<1>10. status' = status /\ state' = [state EXCEPT ![u] = "changing"]
  BY <1>0, <1>4, <1>9 DEF HandleModified
<1>11. \A v \in Units : Exists(v)' = Exists(v)
  BY <1>1, <1>3, <1>7, <1>8, <1>9 DEF Exists
<1>12. TypeOK'
  <2>1. /\ status' \in {"up", "exited", "panic"} /\ state' \in [Units -> Report]
        /\ expected' \in [Units -> {"none", "healthy", "stopped", "gone"}]
        /\ DOMAIN runners' \subseteq Units
        /\ \A v \in DOMAIN runners' : runners'[v] \subseteq Runs
        /\ run' \in [Runs -> RunType]
    BY <1>1, <1>3, <1>10, Types DEF Report
  <2> QED BY <2>1, <1>3, <1>7, NextTypes
<1>13. NoOrphan'
  <2>1. \A r : Registered(r) => Registered(r)'
    BY <1>1, <1>3 DEF Registered
  <2> QED BY <2>1, <1>1 DEF IInv, NoOrphan
<1>14. QueueShape'
  <2> SUFFICES ASSUME NEW v \in Units
        PROVE  UnitQueue(v)'
    BY DEF QueueShape, UnitQueue
  <2>1. CASE v # u
    <3>1. \A t2 \in NoticeTypes : Has(t2, v)' <=> Has(t2, v)
      BY <2>1, <1>3, <1>4
    <3> QED BY <2>1, <3>1, <1>1, <1>2, <1>3, <1>11 DEF QueueShape, UnitQueue
  <2>2. CASE v = u
    <3>1. ~Has("added", u)' /\ Has("modified", u) /\ (Has("removed", u)' <=> Has("removed", u))
      BY <1>2, <1>3, <1>4
    <3>2. expected[u] = "gone" => Has("removed", u)
      BY <3>1, <1>2, <1>3 DEF QueueShape, UnitQueue
    <3>3. Exists(u)
      BY <1>9 DEF Exists
    <3> QED BY <2>2, <3>1, <3>2, <3>3, <1>1, <1>3, <1>9, <1>11 DEF QueueShape, UnitQueue
  <2> QED BY <2>1, <2>2
<1>15. MainShape'
  BY <1>1, <1>4, <1>7, <1>9, FS_EmptySet DEF MainShape
<1>16. Follows'
  <2> SUFFICES ASSUME NEW v \in Units, ~Has("added", v)', ~Has("modified", v)'
               PROVE  OnTheWay(v)'
    BY DEF Follows, OnTheWay
  <2>1. CASE v # u
    <3>1. ~Has("added", v) /\ ~Has("modified", v)
      BY <2>1, <1>2, <1>3, <1>4
    <3> QED BY <2>1, <3>1, <1>1, <1>3, <1>7, <1>8 DEF Follows, OnTheWay
  <2>2. CASE v = u
    BY <2>2, <1>1, <1>5, <1>7 DEF OnTheWay
  <2> QED BY <2>1, <2>2
<1> QED BY <1>3, <1>10, <1>12, <1>13, <1>14, <1>15, <1>16 DEF IInv, RunnerIsKnown

\* A removed unit is forgotten; its streams were stopped before.
LEMMA StepHandleRemoved == ASSUME IInv, HandleRemoved PROVE IInv'
<1>0. PICK h : h = Head(changes)
  OBVIOUS
<1>1. Take("removed") /\ UNCHANGED <<expected, state>>
  BY DEF HandleRemoved
<1>2. CASE DOMAIN runners \subseteq {h.unit}
  BY <1>0, <1>1, <1>2, StepExit DEF HandleRemoved
<1>3. CASE ~(DOMAIN runners \subseteq {h.unit})
  <2>1. /\ runners' = [v \in DOMAIN runners \ {h.unit} |-> runners[v]]
        /\ changes' = Tail(changes) /\ UNCHANGED <<status, main, run>>
    BY <1>0, <1>3 DEF HandleRemoved
  <2>2. {"added", "modified", "removed"} = NoticeTypes
    BY DEF NoticeTypes
  <2>3. /\ status = "up" /\ TypeOK /\ QueueShape /\ MainShape /\ Follows
        /\ main = Idle /\ main.unit = NoUnit /\ main.mgr = {}
        /\ changes' \in Seq(Notice) /\ Ordered'
        /\ h.unit \in Units
        /\ Has("removed", h.unit) /\ ~Has("added", h.unit)
        /\ \A t2 \in NoticeTypes : ~Has(t2, h.unit)'
        /\ \A t2 \in NoticeTypes, v \in Units : /\ Has(t2, v)' => Has(t2, v)
                                                /\ Has(t2, v) => Has(t2, v)' \/ (t2 = "removed" /\ v = h.unit)
    BY <1>0, <1>1, <2>1, <2>2, Handled
  <2>4. PICK u \in Units : u = h.unit
    BY <2>3
  <2>5. ~Has("modified", u) /\ ~Has("added", u) /\ expected[u] = "gone"
    BY <2>2, <2>3, <2>4 DEF QueueShape, UnitQueue
  <2>6. u \in DOMAIN runners => runners[u] = {}
    BY <2>3, <2>5, LoadGeneratorAssumption DEF Follows, OnTheWay
  <2>7. /\ DOMAIN runners' = DOMAIN runners \ {u}
        /\ \A v \in DOMAIN runners' : runners'[v] = runners[v]
    BY <2>1, <2>4
  <2>8. ~Exists(u)' /\ \A v \in Units : v # u => Exists(v)' = Exists(v)
    BY <2>1, <2>3, <2>7, LoadGeneratorAssumption DEF Exists
  <2>9. TypeOK'
    <3>1. /\ status' \in {"up", "exited", "panic"} /\ state' \in [Units -> Report]
          /\ expected' \in [Units -> {"none", "healthy", "stopped", "gone"}]
          /\ DOMAIN runners' \subseteq Units
          /\ \A v \in DOMAIN runners' : runners'[v] \subseteq Runs
          /\ main' \in MainType /\ run' \in [Runs -> RunType]
      BY <1>1, <2>1, <2>3, <2>7, Types
    <3> QED BY <3>1, <2>3, NextTypes
  <2>10. NoOrphan'
    <3>1. \A r : Registered(r) => Registered(r)'
      BY <2>1, <2>6, <2>7 DEF Registered
    <3> QED BY <3>1, <2>1 DEF IInv, NoOrphan
  <2>11. QueueShape'
    <3> SUFFICES ASSUME NEW v \in Units PROVE UnitQueue(v)'
      BY DEF QueueShape
    <3>1. CASE v # u
      <4>1. \A t2 \in NoticeTypes : Has(t2, v)' <=> Has(t2, v)
        BY <3>1, <2>3, <2>4
      <4> QED BY <3>1, <4>1, <1>1, <2>2, <2>3, <2>8 DEF QueueShape, UnitQueue
    <3>2. CASE v = u
      <4>1. \A t2 \in NoticeTypes : ~Has(t2, u)'
        BY <2>3, <2>4
      <4> QED BY <3>2, <4>1, <1>1, <2>2, <2>5, <2>8 DEF UnitQueue
    <3> QED BY <3>1, <3>2
  <2>12. MainShape'
    BY <2>1, <2>3, <2>7, FS_EmptySet DEF MainShape, Idle
  <2>13. Follows'
    <3> SUFFICES ASSUME NEW v \in Units, ~Has("added", v)', ~Has("modified", v)' PROVE OnTheWay(v)'
      BY DEF Follows
    <3>1. CASE v # u
      <4>1. ~Has("added", v) /\ ~Has("modified", v)
        BY <3>1, <2>2, <2>3, <2>4
      <4> QED BY <3>1, <4>1, <1>1, <2>1, <2>3, <2>7 DEF Follows, OnTheWay
    <3>2. CASE v = u
      BY <3>2, <2>1, <2>3, <2>7, LoadGeneratorAssumption DEF OnTheWay
    <3> QED BY <3>1, <3>2
  <2> QED BY <2>1, <2>3, <2>9, <2>10, <2>11, <2>12, <2>13 DEF IInv, RunnerIsKnown
<1> QED BY <1>2, <1>3

\* A step of the main loop for the unit u: the agent and the notices stand still.
LEMMA StepUnit ==
  ASSUME IInv, status = "up", NEW u \in Units, main.unit = u, UNCHANGED <<status, expected, changes>>,
         state' \in [Units -> Report], main' \in MainType, run' \in [Runs -> RunType],
         DOMAIN runners' \ {u} = DOMAIN runners \ {u}, main'.unit \in {u, NoUnit}, Exists(u)',
         \A v \in DOMAIN runners : v # u => runners'[v] = runners[v],
         u \in DOMAIN runners' => runners'[u] \subseteq Runs,
         MainShape', NoOrphan',
         ~Has("added", u) /\ ~Has("modified", u) => OnTheWay(u)'
  PROVE  IInv'
<1>1. TypeOK /\ Ordered /\ QueueShape /\ Follows
  BY DEF IInv
<1>2. \A t, v : Has(t, v)' = Has(t, v)
  BY DEF Has
<1>3. NoUnit \notin Units /\ u # NoUnit
  BY LoadGeneratorAssumption
<1>4. \A v \in Units : Exists(v)' = Exists(v)
  BY <1>3 DEF Exists
<1>5. TypeOK'
  <2>1. /\ status' \in {"up", "exited", "panic"} /\ changes' \in Seq(Notice)
        /\ expected' \in [Units -> {"none", "healthy", "stopped", "gone"}]
        /\ DOMAIN runners' \subseteq Units
        /\ \A v \in DOMAIN runners' : runners'[v] \subseteq Runs
    BY <1>1, Types
  <2> QED BY <2>1, NextTypes
<1>6. Ordered'
  BY <1>1 DEF Ordered
<1>7. QueueShape'
  BY <1>1, <1>2, <1>4 DEF QueueShape, UnitQueue
<1>8. Follows'
  <2> SUFFICES ASSUME NEW v \in Units, ~Has("added", v)', ~Has("modified", v)' PROVE OnTheWay(v)'
    BY DEF Follows
  <2>1. CASE v = u
    BY <2>1, <1>2
  <2>2. CASE v # u
    <3>1. OnTheWay(v)
      BY <1>1, <1>2 DEF Follows
    <3> QED BY <2>2, <3>1, <1>3 DEF OnTheWay
  <2> QED BY <2>1, <2>2
<1> QED BY <1>5, <1>6, <1>7, <1>8 DEF IInv, RunnerIsKnown

\* What holds when the main loop is busy with a unit.
LEMMA Busy ==
  ASSUME IInv, status = "up", main.pc # "select"
  PROVE  /\ TypeOK /\ MainShape /\ QueueShape /\ Follows
         /\ main \in MainType /\ main.unit \in Units /\ main.todo \in Nat /\ main.mgr \in SUBSET Runs
         /\ run \in [Runs -> RunType] /\ state \in [Units -> Report]
         /\ DOMAIN runners \subseteq Units /\ \A v \in DOMAIN runners : runners[v] \subseteq Runs
<1>1. TypeOK /\ MainShape /\ QueueShape /\ Follows
  BY DEF IInv
<1>2. /\ main \in MainType /\ run \in [Runs -> RunType] /\ state \in [Units -> Report]
      /\ DOMAIN runners \subseteq Units /\ \A v \in DOMAIN runners : runners[v] \subseteq Runs
  BY <1>1, Types
<1>3. main.unit \in Units /\ main.todo \in Nat /\ main.mgr \in SUBSET Runs
  BY <1>1, <1>2, MainFields DEF MainShape
<1> QED BY <1>1, <1>2, <1>3

\* A stream is signalled and forgotten in one step: it is not lost.
LEMMA StepStopStream == ASSUME IInv, NEW r \in Runs, StopStream(r) PROVE IInv'
<1>1. status = "up" /\ main.pc = "teardown" /\ UNCHANGED <<status, expected, changes, main>>
        /\ r \in runners[main.unit]
  BY DEF StopStream, agent
<1>2. /\ TypeOK /\ MainShape /\ QueueShape /\ Follows
      /\ main \in MainType /\ main.unit \in Units
      /\ run \in [Runs -> RunType] /\ state \in [Units -> Report]
      /\ DOMAIN runners \subseteq Units /\ \A v \in DOMAIN runners : runners[v] \subseteq Runs
  BY <1>1, Busy
<1>3. PICK u \in Units : u = main.unit
  BY <1>2
<1>4. u \in DOMAIN runners /\ main.mgr = {}
  BY <1>1, <1>2, <1>3 DEF MainShape
<1>5. PICK b \in BOOLEAN : b <=> run[r].pc # "ended"
  OBVIOUS
<1>6. run' = [run EXCEPT ![r].stop = b]
  <2>1. (run[r].pc # "ended") = b
    BY <1>5
  <2> QED BY <2>1 DEF StopStream
<1>7. run' \in [Runs -> RunType]
  BY <1>2, <1>6 DEF RunType
<1>8. /\ DOMAIN runners' = DOMAIN runners /\ runners'[u] = runners[u] \ {r}
      /\ \A v \in DOMAIN runners : v # u => runners'[v] = runners[v]
  BY <1>3, <1>4 DEF StopStream
<1>9. state' \in [Units -> Report]
  BY <1>2 DEF StopStream, Report
<1>10. NoOrphan'
  <2> SUFFICES ASSUME NEW q \in Runs, run'[q].pc \in {"open", "loop"}
               PROVE  Registered(q)' \/ run'[q].stop
    BY DEF NoOrphan
  <2>1. CASE q = r
    <3>1. run'[r].pc = run[r].pc /\ run'[r].stop = b
      BY <1>2, <1>6 DEF RunType
    <3> QED BY <2>1, <3>1, <1>5
  <2>2. CASE q # r
    <3>1. run'[q] = run[q]
      BY <2>2, <1>2, <1>6
    <3>2. Registered(q) => Registered(q)'
      BY <2>2, <1>1, <1>8 DEF Registered
    <3> QED BY <3>1, <3>2 DEF IInv, NoOrphan
  <2> QED BY <2>1, <2>2
<1>11. MainShape'
  <2>1. main'.pc = "teardown" /\ main'.unit = u /\ u \in DOMAIN runners'
    BY <1>1, <1>3, <1>4, <1>8
  <2> QED BY <2>1, <1>1, <1>2 DEF MainShape
<1>12. ~Has("added", u) /\ ~Has("modified", u) => OnTheWay(u)'
  BY <1>1, <1>2, <1>3 DEF Follows, OnTheWay
<1>13. main'.unit = u /\ Exists(u)' /\ runners'[u] \subseteq Runs
  BY <1>1, <1>2, <1>3, <1>4, <1>8 DEF Exists
<1>14. DOMAIN runners' \ {u} = DOMAIN runners \ {u}
  BY <1>8
<1> QED BY <1>1, <1>2, <1>3, <1>7, <1>8, <1>9, <1>10, <1>11, <1>12, <1>13, <1>14, StepUnit

\* All streams are signalled: the unit rests, or is started again.
LEMMA StepTearDownDone == ASSUME IInv, TearDownDone PROVE IInv'
<1>1. status = "up" /\ main.pc = "teardown" /\ UNCHANGED <<status, expected, changes, runners, run>>
        /\ runners[main.unit] = {}
  BY DEF TearDownDone, agent
<1>2. /\ TypeOK /\ MainShape /\ QueueShape /\ Follows
      /\ main \in MainType /\ main.unit \in Units
      /\ run \in [Runs -> RunType] /\ state \in [Units -> Report]
      /\ DOMAIN runners \subseteq Units /\ \A v \in DOMAIN runners : runners[v] \subseteq Runs
  BY <1>1, Busy
<1>3. PICK u \in Units : u = main.unit
  BY <1>2
<1>4. u \in DOMAIN runners /\ runners[u] = {} /\ main.mgr = {} /\ NoUnit \notin Units
  BY <1>1, <1>2, <1>3, LoadGeneratorAssumption DEF MainShape
<1>5. state' \in [Units -> Report]
  BY <1>2 DEF TearDownDone, Report
<1>6. \/ main.again /\ main' = [main EXCEPT !.pc = "new"]
      \/ ~main.again /\ main' = Idle
  BY DEF TearDownDone
<1>7. /\ main' \in MainType /\ main'.mgr = {}
      /\ \/ main.again /\ main'.pc = "new" /\ main'.unit = u
         \/ ~main.again /\ main'.pc = "select" /\ main'.unit = NoUnit /\ main' = Idle
  <2>1. CASE main.again /\ main' = [main EXCEPT !.pc = "new"]
    BY <2>1, <1>2, <1>3, <1>4 DEF MainType
  <2>2. CASE ~main.again /\ main' = Idle
    BY <2>2 DEF MainType, Idle
  <2> QED BY <1>6, <2>1, <2>2
<1>8. NoOrphan'
  <2>1. \A q : Registered(q) => Registered(q)'
    BY <1>1, <1>4 DEF Registered
  <2> QED BY <2>1, <1>1 DEF IInv, NoOrphan
<1>9. MainShape'
  <2>1. IsFiniteSet({})
    BY FS_EmptySet
  <2> QED BY <2>1, <1>1, <1>3, <1>4, <1>7 DEF MainShape
<1>10. ~Has("added", u) /\ ~Has("modified", u) => OnTheWay(u)'
  <2> SUFFICES ASSUME ~Has("added", u), ~Has("modified", u) PROVE OnTheWay(u)'
    OBVIOUS
  <2>1. /\ expected[u] = "healthy" => main.again
        /\ expected[u] \in {"stopped", "gone"} => ~main.again
    BY <1>1, <1>2, <1>3 DEF Follows, OnTheWay
  <2> QED BY <2>1, <1>1, <1>4, <1>7 DEF OnTheWay
<1>11. Exists(u)' /\ main'.unit \in {u, NoUnit} /\ runners'[u] \subseteq Runs
  BY <1>1, <1>4, <1>7 DEF Exists
<1> QED BY <1>1, <1>2, <1>3, <1>5, <1>7, <1>8, <1>9, <1>10, <1>11, StepUnit

\* The streams of a unit are about to be started.
LEMMA StepNewUnit == ASSUME IInv, NewUnit PROVE IInv'
<1>1. status = "up" /\ main.pc = "new" /\ UNCHANGED <<status, expected, changes, runners, run>>
  BY DEF NewUnit, agent
<1>2. /\ TypeOK /\ MainShape /\ QueueShape /\ Follows
      /\ main \in MainType /\ main.unit \in Units
      /\ run \in [Runs -> RunType] /\ state \in [Units -> Report]
      /\ DOMAIN runners \subseteq Units /\ \A v \in DOMAIN runners : runners[v] \subseteq Runs
  BY <1>1, Busy
<1>3. PICK u \in Units : u = main.unit
  BY <1>2
<1>4. PICK n \in Nat : n = StreamCount[u]
  BY LoadGeneratorAssumption
<1>5. main' = [main EXCEPT !.pc = "stream", !.todo = n]
  BY <1>3, <1>4 DEF NewUnit
<1>6. main' \in MainType /\ main'.pc = "stream" /\ main'.unit = u /\ main'.todo = n
        /\ main'.mgr = main.mgr /\ main'.again = main.again
  BY <1>2, <1>3, <1>5 DEF MainType
<1>7. state' \in [Units -> Report]
  BY <1>2 DEF NewUnit, Report
<1>8. NoOrphan'
  <2>1. \A q : Registered(q) => Registered(q)'
    BY <1>1, <1>6 DEF Registered
  <2> QED BY <2>1, <1>1 DEF IInv, NoOrphan
<1>9. MainShape'
  <2>1. main.mgr = {} /\ (u \in DOMAIN runners => runners[u] = {})
    BY <1>1, <1>2, <1>3 DEF MainShape
  <2>2. IsFiniteSet({}) /\ Cardinality({}) = 0
    BY FS_EmptySet
  <2> QED BY <2>1, <2>2, <1>1, <1>3, <1>4, <1>6 DEF MainShape
<1>10. ~Has("added", u) /\ ~Has("modified", u) => OnTheWay(u)'
  BY <1>1, <1>2, <1>3, <1>6 DEF Follows, OnTheWay
<1>11. Exists(u)' /\ (u \in DOMAIN runners' => runners'[u] \subseteq Runs)
  BY <1>1, <1>2, <1>6 DEF Exists
<1> QED BY <1>1, <1>2, <1>3, <1>6, <1>7, <1>8, <1>9, <1>10, <1>11, StepUnit

\* One more stream is started, and its channel kept.
LEMMA StepStartStream == ASSUME IInv, NEW r \in Runs, StartStream(r) PROVE IInv'
<1>1. status = "up" /\ main.pc = "stream" /\ main.todo > 0
        /\ UNCHANGED <<status, expected, changes, runners>> /\ r \in Unused
  BY DEF StartStream, agent
<1>2. /\ TypeOK /\ MainShape /\ QueueShape /\ Follows
      /\ main \in MainType /\ main.unit \in Units /\ main.todo \in Nat /\ main.mgr \in SUBSET Runs
      /\ run \in [Runs -> RunType] /\ state \in [Units -> Report]
      /\ DOMAIN runners \subseteq Units /\ \A v \in DOMAIN runners : runners[v] \subseteq Runs
  BY <1>1, Busy
<1>3. PICK u \in Units : u = main.unit
  BY <1>2
<1>4. PICK x \in RunType : x = [pc |-> "open", unit |-> u, stop |-> FALSE]
  BY DEF RunType
<1>5. run' = [run EXCEPT ![r] = x] /\ run' \in [Runs -> RunType]
  BY <1>2, <1>3, <1>4 DEF StartStream
<1>6. PICK n \in Nat, m \in SUBSET Runs : n = main.todo - 1 /\ m = main.mgr \cup {r}
  <2>1. main.todo - 1 \in Nat
    BY <1>1, <1>2
  <2>2. main.mgr \cup {r} \in SUBSET Runs
    BY <1>2
  <2> QED BY <2>1, <2>2
<1>7. main' = [main EXCEPT !.todo = n, !.mgr = m]
  BY <1>6 DEF StartStream
<1>8. main' \in MainType /\ main'.pc = "stream" /\ main'.unit = u /\ main'.todo = n
        /\ main'.mgr = m /\ main'.again = main.again
  BY <1>1, <1>2, <1>3, <1>7 DEF MainType
<1>9. state' \in [Units -> Report]
  BY <1>2 DEF StartStream, Report
<1>10. NoOrphan'
  <2> SUFFICES ASSUME NEW q \in Runs, run'[q].pc \in {"open", "loop"}
               PROVE  Registered(q)' \/ run'[q].stop
    BY DEF NoOrphan
  <2>1. CASE q = r
    BY <2>1, <1>6, <1>8 DEF Registered
  <2>2. CASE q # r
    <3>1. run'[q] = run[q]
      BY <2>2, <1>2, <1>5
    <3>2. Registered(q) => Registered(q)'
      BY <1>1, <1>6, <1>8 DEF Registered
    <3> QED BY <3>1, <3>2 DEF IInv, NoOrphan
  <2> QED BY <2>1, <2>2
<1>11. MainShape'
  <2>1. /\ IsFiniteSet(main.mgr) /\ r \notin main.mgr
        /\ Cardinality(main.mgr) + main.todo = StreamCount[u]
        /\ u \in DOMAIN runners => runners[u] = {}
    BY <1>1, <1>2, <1>3 DEF MainShape, Unused
  <2>2. Cardinality(main.mgr) \in Nat
    BY <2>1, FS_CardinalityType
  <2>3. IsFiniteSet(m) /\ Cardinality(m) = Cardinality(main.mgr) + 1
    BY <2>1, <1>6, FS_AddElement
  <2>4. Cardinality(m) + n = StreamCount[u]
    BY <2>1, <2>2, <2>3, <1>2, <1>6
  <2> QED BY <2>1, <2>3, <2>4, <1>1, <1>3, <1>8 DEF MainShape
<1>12. ~Has("added", u) /\ ~Has("modified", u) => OnTheWay(u)'
  BY <1>1, <1>2, <1>3, <1>8 DEF Follows, OnTheWay
<1>13. Exists(u)' /\ (u \in DOMAIN runners' => runners'[u] \subseteq Runs)
  BY <1>1, <1>2, <1>8 DEF Exists
<1> QED BY <1>1, <1>2, <1>3, <1>5, <1>8, <1>9, <1>10, <1>11, <1>12, <1>13, StepUnit

\* All streams are started: the runner of the unit gets their channels.
LEMMA StepNewUnitDone == ASSUME IInv, NewUnitDone PROVE IInv'
<1>1. status = "up" /\ main.pc = "stream" /\ main.todo = 0
        /\ UNCHANGED <<status, expected, changes, run>> /\ main' = Idle
  BY DEF NewUnitDone, agent
<1>2. /\ TypeOK /\ MainShape /\ QueueShape /\ Follows
      /\ main \in MainType /\ main.unit \in Units /\ main.mgr \in SUBSET Runs
      /\ run \in [Runs -> RunType] /\ state \in [Units -> Report]
      /\ DOMAIN runners \subseteq Units /\ \A v \in DOMAIN runners : runners[v] \subseteq Runs
  BY <1>1, Busy
<1>3. PICK u \in Units : u = main.unit
  BY <1>2
<1>4. /\ DOMAIN runners' = DOMAIN runners \cup {u} /\ runners'[u] = main.mgr
      /\ \A v \in DOMAIN runners : v # u => runners'[v] = runners[v]
  BY <1>3 DEF NewUnitDone
<1>5. main' \in MainType /\ main'.pc = "select" /\ main'.unit = NoUnit /\ main'.mgr = {} /\ u # NoUnit
  BY <1>1, LoadGeneratorAssumption DEF Idle, MainType
<1>6. state' \in [Units -> Report]
  BY <1>2 DEF NewUnitDone, Report
<1>7. NoOrphan'
  <2>1. u \in DOMAIN runners => runners[u] = {}
    BY <1>1, <1>2, <1>3 DEF MainShape
  <2>2. \A q : Registered(q) => Registered(q)'
    BY <2>1, <1>4 DEF Registered
  <2> QED BY <2>2, <1>1 DEF IInv, NoOrphan
<1>8. MainShape'
  <2>1. IsFiniteSet({})
    BY FS_EmptySet
  <2> QED BY <2>1, <1>1, <1>5 DEF MainShape
<1>9. ~Has("added", u) /\ ~Has("modified", u) => OnTheWay(u)'
  <2> SUFFICES ASSUME ~Has("added", u), ~Has("modified", u) PROVE OnTheWay(u)'
    OBVIOUS
  <2>1. expected[u] \notin {"stopped", "gone"}
    BY <1>1, <1>2, <1>3 DEF Follows, OnTheWay
  <2>2. Cardinality(main.mgr) = StreamCount[u]
    <3>1. IsFiniteSet(main.mgr) /\ Cardinality(main.mgr) + 0 = StreamCount[u]
      BY <1>1, <1>2, <1>3 DEF MainShape
    <3>2. Cardinality(main.mgr) \in Nat
      BY <3>1, FS_CardinalityType
    <3> QED BY <3>1, <3>2
  <2> QED BY <2>1, <2>2, <1>1, <1>4, <1>5 DEF OnTheWay
<1>10. Exists(u)' /\ runners'[u] \subseteq Runs /\ DOMAIN runners' \ {u} = DOMAIN runners \ {u}
  BY <1>2, <1>4 DEF Exists
<1> QED BY <1>1, <1>2, <1>3, <1>4, <1>5, <1>6, <1>7, <1>8, <1>9, <1>10, StepUnit

\* Nothing happens.
LEMMA StepStutter == ASSUME IInv, UNCHANGED vars PROVE IInv'
<1>1. UNCHANGED <<status, expected, state, changes, runners, main, run>>
  BY DEF vars
<1>2. TypeOK'
  BY <1>1 DEF IInv, TypeOK
<1>3. NoOrphan' /\ RunnerIsKnown'
  BY <1>1 DEF IInv, NoOrphan, Registered, RunnerIsKnown
<1>4. status = "up" => (Ordered /\ QueueShape /\ MainShape /\ Follows)'
  BY <1>1, KeepsShape DEF IInv, shape
<1> QED BY <1>1, <1>2, <1>3, <1>4 DEF IInv

\* Every step preserves the invariant.
LEMMA NextIInv == ASSUME IInv, [Next]_vars PROVE IInv'
<1>1. CASE Agent
  <2>1. {"added", "modified", "removed"} = NoticeTypes
    BY DEF NoticeTypes
  <2>2. PICK u \in Units : AddUnit(u) \/ (\E e \in {"healthy", "stopped"} : ModifyUnit(u, e)) \/ RemoveUnit(u)
    BY <1>1 DEF Agent
  <2>3. CASE AddUnit(u)
    BY <2>1, <2>3, StepAgent DEF AddUnit
  <2>4. CASE \E e \in {"healthy", "stopped"} : ModifyUnit(u, e)
    <3>1. PICK e \in {"healthy", "stopped"} : ModifyUnit(u, e)
      BY <2>4
    <3> QED BY <2>1, <3>1, StepAgent DEF ModifyUnit
  <2>5. CASE RemoveUnit(u)
    BY <2>1, <2>5, StepAgent DEF RemoveUnit
  <2> QED BY <2>2, <2>3, <2>4, <2>5
<1>2. CASE Handle
  BY <1>2, StepHandleAdded, StepHandleModified, StepHandleRemoved DEF Handle
<1>3. CASE Cancelled
  BY <1>3, StepExit DEF Cancelled
<1>4. CASE TearDown
  BY <1>4, StepStopStream, StepTearDownDone DEF TearDown
<1>5. CASE Start
  BY <1>5, StepNewUnit, StepStartStream, StepNewUnitDone DEF Start
<1>6. CASE \E r \in Runs : Output(r) \/ Stream(r)
  BY <1>6, StepStream
<1>7. CASE Terminating \/ UNCHANGED vars
  BY <1>7, StepStutter DEF Terminating
<1> QED BY <1>1, <1>2, <1>3, <1>4, <1>5, <1>6, <1>7 DEF Next
-----------------------------------------------------------------------------
(***************************************************************************)
(* The theorems.                                                           *)
(***************************************************************************)

\* The invariant holds in every state, with any number of units and streams and
\* however the notices of the agent queue up.
THEOREM InductiveInvariant == Spec => []IInv
<1>1. IInv /\ [Next]_vars => IInv'
  BY NextIInv
<1> QED BY <1>1, InitIInv, PTL DEF Spec

\* Every variable keeps its type.
THEOREM TypeCorrect == Spec => []TypeOK
<1>1. IInv => TypeOK
  BY DEF IInv
<1> QED BY <1>1, InductiveInvariant, PTL

\* tearDownUnit never meets a unit without a runner.
THEOREM RunnerKnown == Spec => []RunnerIsKnown
<1>1. IInv => RunnerIsKnown
  BY DEF IInv
<1> QED BY <1>1, InductiveInvariant, PTL

\* A stream that has not left its loop is known to the main loop, or its signal
\* is in the buffer of its channel.
THEOREM NoStreamLost == Spec => []NoOrphan
<1>1. IInv => NoOrphan
  BY DEF IInv
<1> QED BY <1>1, InductiveInvariant, PTL

\* When all notices are handled, each unit is in the state that is expected of it.
THEOREM ExpectedFollowed == Spec => []FollowsExpected
<1>1. IInv => FollowsExpected
  <2> SUFFICES ASSUME IInv, status = "up", main = Idle, changes = <<>>, NEW u \in Units
               PROVE  CASE expected[u] = "healthy" -> /\ u \in DOMAIN runners
                                                      /\ Cardinality(runners[u]) = StreamCount[u]
                        [] expected[u] = "stopped" -> u \in DOMAIN runners /\ runners[u] = {}
                        [] OTHER -> u \notin DOMAIN runners
    BY DEF FollowsExpected
  <2>1. \A t, v : ~Has(t, v)
    BY DEF Has
  <2>2. main.unit = NoUnit /\ main.unit # u
    BY LoadGeneratorAssumption DEF Idle
  <2>3. OnTheWay(u) /\ UnitQueue(u)
    BY <2>1 DEF IInv, Follows, QueueShape
  <2>4. expected[u] \in {"none", "healthy", "stopped", "gone"}
    BY DEF IInv, TypeOK
  <2>5. expected[u] \in {"healthy", "stopped"} <=> u \in DOMAIN runners
    BY <2>1, <2>2, <2>3, <2>4 DEF UnitQueue, Exists
  <2>6. /\ expected[u] = "healthy" => Cardinality(runners[u]) = StreamCount[u]
        /\ expected[u] = "stopped" => runners[u] = {}
    BY <2>2, <2>3, <2>5 DEF OnTheWay
  <2> QED BY <2>5, <2>6
<1> QED BY <1>1, InductiveInvariant, PTL
=============================================================================
