------------------------------- MODULE Cursor -------------------------------
(***************************************************************************)
(* The cursor inputs (pkg/manager/input/input-cursor) of one source: inputs *)
(* that take turns in collecting it, the resource with the cursor in       *)
(* memory, the persistent store that follows when events are ACKed, and    *)
(* the cleaner.                                                            *)
(*                                                                         *)
(* An event is its position in the source and a cursor is the position of  *)
(* the last event it covers (0: nil).  The ACKer of an input is taken as   *)
(* Acker shows it to be: a batch is cut off the front of its events up to  *)
(* the first one that is not complete, by the ACK goroutine or, for a drop *)
(* behind nothing, by the publishing one, and executed later.  Time is     *)
(* left out: a resource may be found expired whenever the cleaner runs.    *)
(***************************************************************************)
EXTENDS Integers, SequencesExt, FiniteSetsExt

CONSTANTS
    Inputs,         \* calls of managedInput.runSource, each with a client
    Resources,      \* resource objects; collected ones are used again
    NoResource, NoKey, Nobody,
    MaxPos,         \* bound: length of the source
    MaxEvents       \* bound: events in the pipeline

ASSUME CursorAssumption ==
    /\ NoResource \notin Resources /\ Nobody \notin Inputs
    /\ IsFiniteSet(Inputs)
    /\ MaxPos \in Nat /\ MaxEvents \in Nat
    /\ NoKey \notin 0 .. MaxPos

VARIABLES
    dropping,   \* the processors of the pipeline drop events (fixed)
    closed,     \* the persistent store has been closed
    persist,    \* the cursor in the persistent store
    table,      \* states.table[key]
    resource,   \* the resource objects
    gc,         \* the resource that the cleaner is about to remove
    pc, ref, pos, cur,  \* the inputs: where they are, resource, position, event at hand
    data,       \* the events of an input's ACKer that are not reported yet
    queue,      \* the pipeline: the inputs of the events sent, oldest first
    ack,        \* the batch that the ACK goroutine has cut off, if it has an update
    executed,   \* the ACK goroutine has executed them and not released them
    delivered,  \* history: positions that were ACKed or dropped
    last        \* history: the last cursor update of this process

vars == <<dropping, closed, persist, table, resource, gc, pc, ref, pos, cur, data,
          queue, ack, executed, delivered, last>>
inputs == <<pc, ref, pos, cur>>
pipeline == <<data, queue, ack, executed, delivered>>

Positions == 0 .. MaxPos
\* An event with the resource of its updateOp, if it has one.
Event == [pos : Positions, resource : Resources \cup {NoResource}, sent : BOOLEAN]

TypeOK ==
    /\ dropping \in BOOLEAN /\ closed \in BOOLEAN
    /\ persist \in Positions \cup {NoKey}
    /\ table \in Resources \cup {NoResource}
    /\ resource \in [Resources -> [pending : Nat, lock : Inputs \cup {Nobody}, stored : BOOLEAN,
                                   active : Nat, cursor : Positions, pendingCursor : Positions]]
    /\ gc \in Resources \cup {NoResource}
    /\ pc \in [Inputs -> {"idle", "trying", "waiting", "locked", "reading", "running", "forward",
                          "callback", "release", "unlocked", "done"}]
    /\ ref \in [Inputs -> Resources \cup {NoResource}]
    /\ pos \in [Inputs -> Positions]
    /\ cur \in [Inputs -> Seq(Event)]
    /\ data \in [Inputs -> Seq(Event)]
    /\ queue \in Seq(Inputs)
    /\ ack \in Seq(Event)
    /\ executed \in BOOLEAN
    /\ delivered \subseteq Positions
    /\ last \in Positions

NewResource == [pending |-> 0, lock |-> Nobody, stored |-> FALSE,
                active |-> 0, cursor |-> 0, pendingCursor |-> 0]

\* readStates: the resource of a key that is in the persistent store.
ReadState(c) == [NewResource EXCEPT !.stored = TRUE, !.cursor = c]

Init == /\ dropping \in BOOLEAN
        /\ closed = FALSE
        /\ persist = NoKey
        /\ table = NoResource
        /\ resource = [r \in Resources |-> NewResource]
        /\ gc = NoResource
        /\ pc = [i \in Inputs |-> "idle"]
        /\ ref = [i \in Inputs |-> NoResource]
        /\ pos = [i \in Inputs |-> 0]
        /\ cur = [i \in Inputs |-> <<>>]
        /\ data = [i \in Inputs |-> <<>>]
        /\ queue = <<>>
        /\ ack = <<>>
        /\ executed = FALSE
        /\ delivered = {}
        /\ last = 0

\* The events of an ACKer, of a batch, of a call.
InFlight == (UNION {ToSet(data[i]) \cup ToSet(cur[i]) : i \in Inputs}) \cup ToSet(ack)

Count == Len(ack) + MapThenSumSet(LAMBDA i : Len(data[i]) + Len(cur[i]), Inputs)

\* Nobody refers to the object any more.
Collected(r) == /\ table # r
                /\ \A i \in Inputs : ref[i] # r
                /\ \A e \in InFlight : e.resource # r

(***************************************************************************)
(* An input: runSource.                                                    *)
(***************************************************************************)

\* InputManager.lock: store.Get, which waits for the cleaner (states.mu).
Get(i) ==
    /\ pc[i] = "idle"
    /\ gc = NoResource
    /\ \E r \in Resources :
          /\ IF table = NoResource
             THEN /\ Collected(r)
                  /\ resource' = [resource EXCEPT ![r] = [NewResource EXCEPT !.pending = 1]]
             ELSE /\ r = table
                  /\ resource' = [resource EXCEPT ![r].pending = @ + 1]
          /\ table' = r
          /\ ref' = [ref EXCEPT ![i] = r]
    /\ pc' = [pc EXCEPT ![i] = "trying"]
    /\ UNCHANGED <<dropping, closed, persist, gc, pos, cur, pipeline, last>>

\* lockResource: TryLock fails ...
Wait(i) ==
    /\ pc[i] = "trying"
    /\ resource[ref[i]].lock # Nobody
    /\ pc' = [pc EXCEPT ![i] = "waiting"]
    /\ UNCHANGED <<dropping, closed, persist, table, resource, gc, ref, pos, cur, pipeline, last>>

\* ... it or LockContext succeeds ...
Lock(i) ==
    /\ pc[i] \in {"trying", "waiting"}
    /\ resource[ref[i]].lock = Nobody
    /\ resource' = [resource EXCEPT ![ref[i]].lock = i]
    /\ pc' = [pc EXCEPT ![i] = "locked"]
    /\ UNCHANGED <<dropping, closed, persist, table, gc, ref, pos, cur, pipeline, last>>

ReleaseResource(i) ==
    /\ resource' = [resource EXCEPT ![ref[i]].pending = @ - 1]
    /\ ref' = [ref EXCEPT ![i] = NoResource]
    /\ pc' = [pc EXCEPT ![i] = "done"]
    /\ UNCHANGED <<dropping, closed, persist, table, gc, pos, cur, pipeline, last>>

\* ... or the input is cancelled while LockContext waits.
LockCancelled(i) ==
    /\ pc[i] = "waiting"
    /\ ReleaseResource(i)

\* persistentStore.Set with the cursor c of resource r.  A Set that fails may
\* still be found by the next process (the log of memlog), unless it failed
\* because the store is closed.
Persist(new, r, c) ==
    \/ /\ ~closed
       /\ persist' = c
       /\ \/ resource' = [new EXCEPT ![r].stored = TRUE]
          \/ resource' = new
    \/ /\ UNCHANGED persist
       /\ resource' = new

\* resource.UnpackCursor, behind IsNew
InMemory(r) == IF resource[r].active = 0 THEN resource[r].cursor ELSE resource[r].pendingCursor

\* Mutant: the in-memory state is written.
UpdateTTLInMemory(i) ==
    /\ pc[i] = "locked"
    /\ pc' = [pc EXCEPT ![i] = "reading"]
    /\ Persist(resource, ref[i], InMemory(ref[i]))
    /\ UNCHANGED <<dropping, closed, table, gc, ref, pos, cur, pipeline, last>>

\* store.UpdateTTL.  With the TTL the resource has nothing is written.
UpdateTTL(i) ==
    /\ pc[i] = "locked"
    /\ pc' = [pc EXCEPT ![i] = "reading"]
    /\ \/ /\ resource[ref[i]].stored
          /\ UNCHANGED <<persist, resource>>
       \/ Persist(resource, ref[i], resource[ref[i]].cursor)
    /\ UNCHANGED <<dropping, closed, table, gc, ref, pos, cur, pipeline, last>>

\* Mutant: the input goes on behind the cursor that is in sync.
ReadCursorInSync(i) ==
    /\ pc[i] = "reading"
    /\ pos' = [pos EXCEPT ![i] = resource[ref[i]].cursor]
    /\ pc' = [pc EXCEPT ![i] = "running"]
    /\ UNCHANGED <<dropping, closed, persist, table, resource, gc, ref, cur, pipeline, last>>

\* The input goes on behind the cursor.
ReadCursor(i) ==
    /\ pc[i] = "reading"
    /\ pos' = [pos EXCEPT ![i] = InMemory(ref[i])]
    /\ pc' = [pc EXCEPT ![i] = "running"]
    /\ UNCHANGED <<dropping, closed, persist, table, resource, gc, ref, cur, pipeline, last>>

\* createUpdateOp.  An update that typeconv.Convert refuses is left out: Publish returns
\* the error before it has retained the resource or sent the event.
CreateUpdateOp(r, p) ==
    [resource EXCEPT ![r].pendingCursor = p,
                     ![r].pending = @ + 1,
                     ![r].active = @ + 1]

\* cursorPublisher.Publish, with a cursor or without ...
Publish(i, update) ==
    /\ pc[i] = "running"
    /\ pos[i] < MaxPos
    /\ Count < MaxEvents
    /\ pos' = [pos EXCEPT ![i] = @ + 1]
    /\ cur' = [cur EXCEPT ![i] = <<[pos |-> pos'[i], sent |-> FALSE,
                                    resource |-> IF update THEN ref[i] ELSE NoResource]>>]
    /\ IF update THEN /\ resource' = CreateUpdateOp(ref[i], pos'[i])
                      /\ last' = pos'[i]
                 ELSE UNCHANGED <<resource, last>>
    /\ pc' = [pc EXCEPT ![i] = "forward"]
    /\ UNCHANGED <<dropping, closed, persist, table, gc, ref, pipeline>>

\* The private fields of a batch that are an updateOp: the ACK handler wants
\* their number and the last one.
Updates(batch) == {k \in DOMAIN batch : batch[k].resource # NoResource}

\* ... then the client sends the event, or its processors drop it, and tells
\* the ACKer.
Forward(i) ==
    /\ pc[i] = "forward"
    /\ data' = [data EXCEPT ![i] = Append(@, [cur[i][1] EXCEPT !.sent = TRUE])]
    /\ queue' = Append(queue, i)
    /\ cur' = [cur EXCEPT ![i] = <<>>]
    /\ pc' = [pc EXCEPT ![i] = "running"]
    /\ UNCHANGED <<dropping, closed, persist, table, resource, gc, ref, pos, ack, executed,
                   delivered, last>>

\* A drop behind nothing is reported at once.
ForwardDropped(i) ==
    /\ pc[i] = "forward"
    /\ dropping
    /\ delivered' = delivered \cup {cur[i][1].pos}
    /\ IF data[i] = <<>> /\ Updates(cur[i]) # {}
       THEN /\ pc' = [pc EXCEPT ![i] = "callback"]
            /\ UNCHANGED <<data, cur>>
       ELSE /\ pc' = [pc EXCEPT ![i] = "running"]
            /\ data' = IF data[i] = <<>> THEN data ELSE [data EXCEPT ![i] = @ \o cur[i]]
            /\ cur' = [cur EXCEPT ![i] = <<>>]
    /\ UNCHANGED <<dropping, closed, persist, table, resource, gc, ref, pos, queue, ack,
                   executed, last>>

\* Mutant: the cursor is always taken from the operation.
ExecutedAlways(r, n, p) == [resource EXCEPT ![r].active = @ - n, ![r].cursor = p]

\* The resource when n updates have been executed, the last one with cursor p.
Executed(r, n, p) ==
    LET allDone == resource[r].active = n
    IN [resource EXCEPT
           ![r].active = @ - n,
           ![r].cursor = IF allDone THEN resource[r].pendingCursor ELSE p,
           ![r].pendingCursor = IF allDone THEN 0 ELSE @]

\* updateOp.Execute: the last update of a batch is executed for all of them ...
Execute(batch) ==
    LET op == batch[Max(Updates(batch))]
        new == Executed(op.resource, Cardinality(Updates(batch)), op.pos)
    IN Persist(new, op.resource, new[op.resource].cursor)

\* Mutant: a batch gives back one reference.
DoneOne(batch) ==
    resource' = [resource EXCEPT ![batch[Max(Updates(batch))].resource].pending = @ - 1]

\* ... and releases their references when the state is unlocked.
Done(batch) ==
    resource' = [resource EXCEPT ![batch[Max(Updates(batch))].resource].pending
                                     = @ - Cardinality(Updates(batch))]

DropCallback(i) ==
    /\ pc[i] = "callback"
    /\ Execute(cur[i])
    /\ pc' = [pc EXCEPT ![i] = "release"]
    /\ UNCHANGED <<dropping, closed, table, gc, ref, pos, cur, pipeline, last>>

DropDone(i) ==
    /\ pc[i] = "release"
    /\ Done(cur[i])
    /\ cur' = [cur EXCEPT ![i] = <<>>]
    /\ pc' = [pc EXCEPT ![i] = "running"]
    /\ UNCHANGED <<dropping, closed, persist, table, gc, ref, pos, pipeline, last>>

\* The input returns: releaseResource unlocks ...
Unlock(i) ==
    /\ pc[i] = "running"
    /\ resource' = [resource EXCEPT ![ref[i]].lock = Nobody]
    /\ pc' = [pc EXCEPT ![i] = "unlocked"]
    /\ UNCHANGED <<dropping, closed, persist, table, gc, ref, pos, cur, pipeline, last>>

\* ... and gives the reference back.
Release(i) ==
    /\ pc[i] = "unlocked"
    /\ ReleaseResource(i)

\* A client without events in flight is forgotten.
Forget(i) ==
    /\ pc[i] = "done"
    /\ data[i] = <<>>
    /\ pc' = [pc EXCEPT ![i] = "idle"]
    /\ pos' = [pos EXCEPT ![i] = 0]
    /\ UNCHANGED <<dropping, closed, persist, table, resource, gc, ref, cur, pipeline, last>>

(***************************************************************************)
(* The ACK goroutine, the cleaner and the process.                         *)
(***************************************************************************)

\* The pipeline ACKs the n oldest events, all of one client.  The ACKer cuts off
\* what is complete now: all before the next event that was sent.
ACKEvents(i, n) ==
    /\ ack = <<>>
    /\ n <= Len(queue)
    /\ \A k \in 1 .. n : queue[k] = i
    /\ LET waiting == {k \in DOMAIN data[i] :
                          /\ data[i][k].sent
                          /\ Cardinality({j \in 1 .. k : data[i][j].sent}) > n}
           cut == IF waiting = {} THEN Len(data[i]) ELSE Min(waiting) - 1
           batch == SubSeq(data[i], 1, cut)
       IN /\ ack' = IF Updates(batch) = {} THEN <<>> ELSE batch
          /\ delivered' = delivered \cup {data[i][k].pos : k \in 1 .. cut}
          /\ data' = [data EXCEPT ![i] = SubSeq(@, cut + 1, Len(@))]
    /\ queue' = SubSeq(queue, n + 1, Len(queue))
    /\ UNCHANGED <<dropping, closed, persist, table, resource, gc, inputs, executed, last>>

ACKCallback ==
    /\ ack # <<>>
    /\ ~executed
    /\ Execute(ack)
    /\ executed' = TRUE
    /\ UNCHANGED <<dropping, closed, table, gc, inputs, data, queue, ack, delivered, last>>

ACKDone ==
    /\ executed
    /\ Done(ack)
    /\ ack' = <<>>
    /\ executed' = FALSE
    /\ UNCHANGED <<dropping, closed, persist, table, gc, inputs, data, queue, delivered, last>>

\* Mutant: updates in flight do not keep a resource.
GCFindUnlocked ==
    /\ ~closed
    /\ gc = NoResource
    /\ table # NoResource
    /\ resource[table].lock = Nobody
    /\ resource[table].stored
    /\ gc' = table
    /\ UNCHANGED <<dropping, closed, persist, table, resource, inputs, pipeline, last>>

\* gcFind: a resource that nobody uses and that has expired ...
GCFind ==
    /\ ~closed
    /\ gc = NoResource
    /\ table # NoResource
    /\ resource[table].pending = 0
    /\ resource[table].stored
    /\ gc' = table
    /\ UNCHANGED <<dropping, closed, persist, table, resource, inputs, pipeline, last>>

\* ... is removed by gcClean, and kept when the persistent store fails (which
\* may have removed the key all the same).
GCClean ==
    /\ gc # NoResource
    /\ gc' = NoResource
    /\ \/ /\ persist' = NoKey
          /\ table' = NoResource
          /\ last' = 0
       \/ /\ persist' \in {persist, NoKey}
          /\ UNCHANGED <<table, last>>
    /\ UNCHANGED <<dropping, closed, resource, inputs, pipeline>>

\* The cleaner ends, and InputManager.shutdown closes the persistent store.
Shutdown ==
    /\ ~closed
    /\ gc = NoResource
    /\ closed' = TRUE
    /\ UNCHANGED <<dropping, persist, table, resource, gc, inputs, pipeline, last>>

\* The process ends and a new one opens the store.
Restart ==
    /\ closed' = FALSE
    /\ gc' = NoResource
    /\ pc' = [i \in Inputs |-> "idle"]
    /\ ref' = [i \in Inputs |-> NoResource]
    /\ pos' = [i \in Inputs |-> 0]
    /\ cur' = [i \in Inputs |-> <<>>]
    /\ data' = [i \in Inputs |-> <<>>]
    /\ queue' = <<>>
    /\ ack' = <<>>
    /\ executed' = FALSE
    /\ \E r \in Resources :
          /\ table' = IF persist = NoKey THEN NoResource ELSE r
          /\ resource' = [q \in Resources |-> IF q = table' THEN ReadState(persist)
                                                            ELSE NewResource]
    /\ last' = IF persist = NoKey THEN 0 ELSE persist
    /\ UNCHANGED <<dropping, persist, delivered>>

InputStep(i) ==
    \/ Get(i) \/ Wait(i) \/ Lock(i) \/ LockCancelled(i) \/ UpdateTTL(i) \/ ReadCursor(i)
    \/ \E update \in BOOLEAN : Publish(i, update)
    \/ Forward(i) \/ ForwardDropped(i) \/ DropCallback(i) \/ DropDone(i) \/ Unlock(i) \/ Release(i) \/ Forget(i)

ACKStep == (\E i \in Inputs, n \in 1 .. MaxEvents : ACKEvents(i, n)) \/ ACKCallback \/ ACKDone

Next == \/ \E i \in Inputs : InputStep(i)
        \/ ACKStep
        \/ GCFind \/ GCClean
        \/ Shutdown \/ Restart

Spec == Init /\ [][Next]_vars
-----------------------------------------------------------------------------
\* The updates of a batch for resource r, those in the ACKers, the calls that
\* have one at hand, and the inputs that hold r.
Of(batch, r) == {k \in DOMAIN batch : batch[k].resource = r}
InACKers(r) == UNION {{i} \X Of(data[i], r) : i \in Inputs}
InCalls(r) == {i \in Inputs : Of(cur[i], r) # {}}
Holders(r) == {i \in Inputs : ref[i] = r}

\* resource.pending is the number of inputs that hold the resource and of the
\* updates for it that were not released, activeCursorOperations that of the
\* updates that were not executed: a count that drifts lets the cleaner remove
\* a source in use, or keeps it for ever.
PendingIsExact ==
    \A r \in Resources :
        /\ resource[r].active = Cardinality(InACKers(r))
                                  + Cardinality({i \in InCalls(r) : pc[i] # "release"})
                                  + (IF executed THEN 0 ELSE Cardinality(Of(ack, r)))
        /\ resource[r].pending = Cardinality(InACKers(r)) + Cardinality(InCalls(r))
                                   + Cardinality(Of(ack, r)) + Cardinality(Holders(r))

\* What an input or an update in flight refers to is never cleaned: they all
\* share the resource that the next input finds.
UsedIsKept ==
    /\ \A i \in Inputs : ref[i] \in {NoResource, table}
    /\ \A e \in InFlight : e.resource \in {NoResource, table}

\* "Future instance of the input can read the last published cursor state"
\* (doc.go:17): what Unpack gives an input, whatever is in flight and in
\* whatever order Execute gets it.
InMemoryIsLast == table # NoResource => InMemory(table) = last

\* "The coordination between inputs guarantees that all updates are always in
\* order" (doc.go:34), and Execute is called "only after the events have been
\* ACKed by the output" (doc.go:24): an input that starts behind the stored
\* cursor skips no event that was neither ACKed nor dropped.
StoredIsDelivered == persist # NoKey => 1 .. persist \subseteq delivered

\* The same, of Execute and UpdateTTL with a pipeline that drops no events.
SentIsDelivered == ~dropping => StoredIsDelivered

\* With such a pipeline, neither Execute nor UpdateTTL takes the stored cursor
\* back, whichever input published and however the ACKs are batched.
NeverBack ==
    [][~dropping /\ persist # NoKey /\ persist' # NoKey => persist' >= persist]_vars
=============================================================================
