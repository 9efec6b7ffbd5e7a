---------------------------- MODULE LoadGenerator ----------------------------
(***************************************************************************)
(* The load generator (inputs/loadgenerator): a main loop that follows the *)
(* changes of its units, and a goroutine for each stream of a unit.        *)
(*                                                                         *)
(* The agent and its client are external.  A unit is added once, modified  *)
(* any number of times, and removed when the agent has seen it Stopped; a  *)
(* change is queued as a notice, and what is expected of the unit is read  *)
(* when the notice is handled.  The agent sees the state that was reported *)
(* last, whoever reported it.  The stream ids of a unit are distinct.      *)
(*                                                                         *)
(* Events and the configuration of a stream are left out: writing an event *)
(* changes nothing that another goroutine looks at, and a stream may have  *)
(* written its last one at any time, or never.                             *)
(***************************************************************************)
EXTENDS Integers, Sequences, FiniteSets

CONSTANTS
    Units,
    Runs,           \* calls of loadGenerator.Run; ended ones are used again
    NoUnit,
    StreamCount,    \* streams in the configuration of each unit
    MaxChanges      \* bound: notices that the client has queued

ASSUME LoadGeneratorAssumption ==
    /\ IsFiniteSet(Units) /\ NoUnit \notin Units
    /\ StreamCount \in [Units -> Nat] /\ MaxChanges \in Nat

VARIABLES
    status,     \* of the process: "up", "exited", "panic"
    expected,   \* Unit.Expected, as the client has it
    state,      \* Unit.UpdateState: what the agent sees
    changes,    \* UnitChanges
    runners,    \* loadGenerator.runners: the stopFuncs of a unit
    main,       \* the main loop: its place, unit and local variables
    run         \* the stream goroutines, each with the buffer of its channel

vars == <<status, expected, state, changes, runners, main, run>>
agent == <<expected, changes>>

\* Starting, Configuring and Stopping announce what the main loop is about to do.
Report == {"changing", "healthy", "degraded", "stopped"}
Idle == [pc |-> "select", unit |-> NoUnit, todo |-> 0, mgr |-> {}, again |-> FALSE]
Ended == [pc |-> "ended", unit |-> NoUnit, stop |-> FALSE]

TypeOK ==
    /\ status \in {"up", "exited", "panic"}
    /\ expected \in [Units -> {"none", "healthy", "stopped", "gone"}]
    /\ state \in [Units -> Report]
    /\ changes \in Seq([type : {"added", "modified", "removed"}, unit : Units])
    /\ DOMAIN runners \subseteq Units
    /\ \A u \in DOMAIN runners : runners[u] \subseteq Runs
    /\ main \in [pc : {"select", "new", "stream", "teardown"}, unit : Units \cup {NoUnit},
                 todo : Nat, mgr : SUBSET Runs, again : BOOLEAN]
    /\ run \in [Runs -> [pc : {"open", "loop", "early", "failed", "degraded", "ended"},
                         unit : Units \cup {NoUnit}, stop : BOOLEAN]]

Init ==
    /\ status = "up"
    /\ expected = [u \in Units |-> "none"]
    /\ state = [u \in Units |-> "changing"]
    /\ changes = <<>>
    /\ runners = [u \in {} |-> {}]
    /\ main = Idle
    /\ run = [r \in Runs |-> Ended]

(***************************************************************************)
(* The agent and its client.                                               *)
(***************************************************************************)

Notify(t, u) == /\ status = "up"
                /\ Len(changes) < MaxChanges
                /\ changes' = Append(changes, [type |-> t, unit |-> u])
                /\ UNCHANGED <<status, state, runners, main, run>>

AddUnit(u) ==
    /\ expected[u] = "none"
    /\ expected' = [expected EXCEPT ![u] = "healthy"]
    /\ Notify("added", u)

ModifyUnit(u, e) ==
    /\ expected[u] \in {"healthy", "stopped"}
    /\ expected' = [expected EXCEPT ![u] = e]
    /\ Notify("modified", u)

RemoveUnit(u) ==
    /\ expected[u] = "stopped"
    /\ state[u] = "stopped"
    /\ expected' = [expected EXCEPT ![u] = "gone"]
    /\ Notify("removed", u)

(***************************************************************************)
(* The main loop: StartWithClient.                                         *)
(***************************************************************************)

Take(t) == /\ status = "up"
           /\ main.pc = "select"
           /\ changes # <<>>
           /\ Head(changes).type = t

HandleAdded ==
    /\ Take("added")
    /\ main' = [Idle EXCEPT !.pc = "new", !.unit = Head(changes).unit]
    /\ changes' = Tail(changes)
    /\ UNCHANGED <<status, expected, state, runners, run>>

\* Mutant: a modified unit is started again without being stopped.
HandleModifiedStarts ==
    /\ Take("modified")
    /\ LET u == Head(changes).unit
       IN /\ main' = [Idle EXCEPT !.pc = IF expected[u] = "healthy" THEN "new" ELSE "teardown",
                                  !.unit = u]
          /\ state' = [state EXCEPT ![u] = "changing"]
          /\ status' = IF u \notin DOMAIN runners THEN "panic" ELSE status
    /\ changes' = Tail(changes)
    /\ UNCHANGED <<expected, runners, run>>

\* Mutant: nothing is done for a unit without streams.
HandleModifiedReturns ==
    /\ Take("modified")
    /\ LET u == Head(changes).unit
       IN /\ main' = IF runners[u] = {} /\ expected[u] = "stopped" THEN Idle
                     ELSE [Idle EXCEPT !.pc = "teardown", !.unit = u, !.again = expected[u] = "healthy"]
          /\ state' = [state EXCEPT ![u] = "changing"]
    /\ changes' = Tail(changes)
    /\ UNCHANGED <<status, expected, runners, run>>

\* handleUnitModified and the start of tearDownUnit, which needs a runner.
HandleModified ==
    /\ Take("modified")
    /\ LET u == Head(changes).unit
       IN /\ main' = [Idle EXCEPT !.pc = "teardown", !.unit = u,
                                  !.again = expected[u] = "healthy"]
          /\ state' = [state EXCEPT ![u] = "changing"]
          /\ status' = IF u \notin DOMAIN runners THEN "panic" ELSE status
    /\ changes' = Tail(changes)
    /\ UNCHANGED <<expected, runners, run>>

\* StartWithClient returns, and the process ends with all its goroutines.
Exit == /\ status' = "exited"
        /\ changes' = <<>>
        /\ runners' = [u \in {} |-> {}]
        /\ main' = Idle
        /\ run' = [r \in Runs |-> Ended]

\* removeUnit and checkDone: the process ends with its last unit.
HandleRemoved ==
    /\ Take("removed")
    /\ IF DOMAIN runners \subseteq {Head(changes).unit}
       THEN Exit
       ELSE /\ runners' = [u \in DOMAIN runners \ {Head(changes).unit} |-> runners[u]]
            /\ changes' = Tail(changes)
            /\ UNCHANGED <<status, main, run>>
    /\ UNCHANGED <<expected, state>>

\* ctx.Done
Cancelled ==
    /\ status = "up"
    /\ main.pc = "select"
    /\ Exit
    /\ UNCHANGED <<expected, state>>

\* Mutant: the signal is dropped if the stream is not listening yet.
StopStreamUnopened(r) ==
    /\ status = "up" /\ main.pc = "teardown"
    /\ r \in runners[main.unit]
    /\ run' = [run EXCEPT ![r].stop = run[r].pc \notin {"open", "ended"}]
    /\ runners' = [runners EXCEPT ![main.unit] = @ \ {r}]
    /\ state' = [state EXCEPT ![main.unit] = "changing"]
    /\ UNCHANGED <<status, agent, main>>

\* The loop of tearDownUnit: the signal goes to the buffer of the channel, which
\* must have room, and the stream is forgotten.  A stream that has ended leaves
\* the signal in the buffer.
StopStream(r) ==
    /\ status = "up" /\ main.pc = "teardown"
    /\ r \in runners[main.unit]
    /\ ~run[r].stop
    /\ run' = [run EXCEPT ![r].stop = run[r].pc # "ended"]
    /\ runners' = [runners EXCEPT ![main.unit] = @ \ {r}]
    /\ state' = [state EXCEPT ![main.unit] = "changing"]
    /\ UNCHANGED <<status, agent, main>>

\* Mutant: the runner is removed with its streams.
TearDownDoneRemoves ==
    /\ status = "up" /\ main.pc = "teardown"
    /\ runners[main.unit] = {}
    /\ state' = [state EXCEPT ![main.unit] = "stopped"]
    /\ runners' = [u \in DOMAIN runners \ {main.unit} |-> runners[u]]
    /\ main' = IF main.again THEN [main EXCEPT !.pc = "new"] ELSE Idle
    /\ UNCHANGED <<status, agent, run>>

\* Mutant: a modified unit is stopped and not started again.
TearDownDoneOnly ==
    /\ status = "up" /\ main.pc = "teardown"
    /\ runners[main.unit] = {}
    /\ state' = [state EXCEPT ![main.unit] = "stopped"]
    /\ main' = Idle
    /\ UNCHANGED <<status, agent, runners, run>>

\* The end of tearDownUnit: the streams may still be running.
TearDownDone ==
    /\ status = "up" /\ main.pc = "teardown"
    /\ runners[main.unit] = {}
    /\ state' = [state EXCEPT ![main.unit] = "stopped"]
    /\ main' = IF main.again THEN [main EXCEPT !.pc = "new"] ELSE Idle
    /\ UNCHANGED <<status, agent, runners, run>>

\* handleNewUnit
NewUnit ==
    /\ status = "up" /\ main.pc = "new"
    /\ state' = [state EXCEPT ![main.unit] = "changing"]
    /\ main' = [main EXCEPT !.pc = "stream", !.todo = StreamCount[main.unit]]
    /\ UNCHANGED <<status, agent, runners, run>>

Unused == {r \in Runs : /\ run[r] = Ended /\ r \notin main.mgr
                        /\ \A u \in DOMAIN runners : r \notin runners[u]}

\* One round of the loop over the streams.  An error of configFromProtobuf is
\* reported as Degraded, overwritten by Starting, and the stream started with
\* the defaults.
StartStream(r) ==
    /\ status = "up" /\ main.pc = "stream"
    /\ main.todo > 0
    /\ Unused # {} /\ r = CHOOSE q \in Unused : TRUE
    /\ run' = [run EXCEPT ![r] = [pc |-> "open", unit |-> main.unit, stop |-> FALSE]]
    /\ main' = [main EXCEPT !.todo = @ - 1, !.mgr = @ \cup {r}]
    /\ state' = [state EXCEPT ![main.unit] = "changing"]
    /\ UNCHANGED <<status, agent, runners>>

NewUnitDone ==
    /\ status = "up" /\ main.pc = "stream"
    /\ main.todo = 0
    /\ runners' = [u \in DOMAIN runners \cup {main.unit} |->
                    IF u = main.unit THEN main.mgr ELSE runners[u]]
    /\ state' = [state EXCEPT ![main.unit] = "healthy"]
    /\ main' = Idle
    /\ UNCHANGED <<status, agent, run>>

(***************************************************************************)
(* A stream: Run.                                                          *)
(***************************************************************************)

RunStep(r, from, to) ==
    /\ status = "up"
    /\ run[r].pc = from
    /\ run' = [run EXCEPT ![r] = IF to = "ended" THEN Ended ELSE [@ EXCEPT !.pc = to]]
    /\ UNCHANGED <<status, agent, runners, main>>

Open(r) == RunStep(r, "open", "loop") /\ UNCHANGED state

\* The file can not be created, or an event not be written.
OpenFails(r) == RunStep(r, "open", "failed") /\ UNCHANGED state
SendFails(r) == /\ ~run[r].stop
                /\ RunStep(r, "loop", "failed")
                /\ UNCHANGED state

\* The last event is written: tested before the channel is looked at.
Finished(r) == RunStep(r, "loop", "early") /\ UNCHANGED state

StreamReports(r, s) == state' = [state EXCEPT ![run[r].unit] = s]

\* gotStop: nothing is reported.
GotStop(r) == /\ run[r].stop
              /\ RunStep(r, "loop", "ended")
              /\ UNCHANGED state

\* The deferred function reports Healthy, also for a stream that failed, which
\* is reported afterwards by the goroutine of handleNewUnit.
EndEarly(r) == RunStep(r, "early", "ended") /\ StreamReports(r, "healthy")
EndFailed(r) == RunStep(r, "failed", "degraded") /\ StreamReports(r, "healthy")
EndDegraded(r) == RunStep(r, "degraded", "ended") /\ StreamReports(r, "degraded")

(***************************************************************************)
(* The specification.                                                      *)
(***************************************************************************)

Agent == \E u \in Units : \/ AddUnit(u)
                          \/ \E e \in {"healthy", "stopped"} : ModifyUnit(u, e)
                          \/ RemoveUnit(u)

Handle == HandleAdded \/ HandleModified \/ HandleRemoved

TearDown == (\E r \in Runs : StopStream(r)) \/ TearDownDone

Start == NewUnit \/ (\E r \in Runs : StartStream(r)) \/ NewUnitDone

Output(r) == SendFails(r) \/ Finished(r)

Stream(r) == Open(r) \/ OpenFails(r) \/ GotStop(r) \/ EndEarly(r) \/ EndFailed(r) \/ EndDegraded(r)

Terminating == status # "up" /\ UNCHANGED vars

Next == Agent \/ Handle \/ Cancelled \/ TearDown \/ Start \/ (\E r \in Runs : Output(r) \/ Stream(r))
        \/ Terminating

\* The scheduler runs every goroutine that can go on: the main loop, and each
\* stream, which looks at its channel after each event.  A stream may loop for
\* ever, and nothing is assumed of the agent.
Fairness == /\ WF_vars(Handle) /\ WF_vars(TearDown) /\ WF_vars(Start)
            /\ \A r \in Runs : WF_vars(Stream(r))

Spec == Init /\ [][Next]_vars /\ Fairness

(***************************************************************************)
(* Properties.                                                             *)
(***************************************************************************)

Live(r) == run[r].pc # "ended"
Registered(r) == \/ r \in main.mgr
                 \/ \E u \in DOMAIN runners : r \in runners[u]

Pending(u) == \E i \in DOMAIN changes : changes[i].unit = u

\* tearDownUnit never meets a unit without a runner, however the notices of the
\* agent queue up behind each other.
RunnerIsKnown == status # "panic"

\* No stream is lost sight of: as long as it has not left its loop, the main
\* loop holds its channel or its signal is in the buffer.
NoOrphan == \A r \in Runs : run[r].pc \in {"open", "loop"} => Registered(r) \/ run[r].stop

\* Notices do not carry the state they are about, and several may be queued for
\* one unit.  When all are handled each unit is in the state that is expected of
\* it: all its streams were started, or all were signalled, or it is forgotten.
FollowsExpected ==
    status = "up" /\ main = Idle /\ changes = <<>> =>
        \A u \in Units : CASE expected[u] = "healthy" -> /\ u \in DOMAIN runners
                                                         /\ Cardinality(runners[u]) = StreamCount[u]
                           [] expected[u] = "stopped" -> u \in DOMAIN runners /\ runners[u] = {}
                           [] OTHER -> u \notin DOMAIN runners

\* A unit that is told to stop reports Stopped, also if its streams have ended or
\* have not begun to listen when they are signalled.  (It need not stay so.)
StopIsReported ==
    \A u \in Units : Pending(u) /\ expected[u] = "stopped" ~> \/ expected[u] # "stopped"
                                                               \/ state[u] = "stopped"
                                                               \/ status # "up"

\* The streams of a unit that is to stop, or was removed, come to an end.
StreamsEnd ==
    \A u \in Units : expected[u] = "stopped" ~> \/ \A r \in Runs : run[r].unit # u
                                                 \/ expected[u] = "healthy"
                                                 \/ status # "up"
=============================================================================
