---------------------------- MODULE CursorProofs ----------------------------
(***************************************************************************)
(* Proofs about the cursor inputs, for any number of inputs, resource      *)
(* objects, positions and events in flight.                                *)
(***************************************************************************)
EXTENDS Cursor, Recursion, FiniteSetTheorems, TLAPS

(***************************************************************************)
(* The inductive invariant.                                                *)
(***************************************************************************)

\* An input holds its resource from Get until releaseResource has returned, and
\* has an event at hand inside of Publish.  Callbacks are made for updates.
CallShape ==
    \A i \in Inputs :
        /\ pc[i] \in {"idle", "done"} <=> ref[i] = NoResource
        /\ IF pc[i] \in {"forward", "callback", "release"}
           THEN Len(cur[i]) = 1
           ELSE cur[i] = <<>>
        /\ pc[i] \in {"callback", "release"} => cur[i][1].resource # NoResource

\* The ACK goroutine holds on only to a batch with an update.
BatchShape == /\ executed => ack # <<>>
              /\ ack # <<>> => Updates(ack) # {}

\* The cleaner is about to remove a resource that nobody refers to.
CleanShape == gc # NoResource => gc = table /\ resource[gc].pending = 0

\* Without a resource there is no cursor.
LastShape == table = NoResource => last = 0

IInv == /\ TypeOK /\ CallShape /\ BatchShape /\ CleanShape /\ LastShape
        /\ PendingIsExact /\ UsedIsKept /\ InMemoryIsLast
-----------------------------------------------------------------------------
(***************************************************************************)
(* What is counted.                                                        *)
(***************************************************************************)

\* The types of all variables but the fields of the resources.
VarTypes ==
    /\ table \in Resources \cup {NoResource}
    /\ pc \in [Inputs -> {"idle", "trying", "waiting", "locked", "reading", "running", "forward",
                          "callback", "release", "unlocked", "done"}]
    /\ ref \in [Inputs -> Resources \cup {NoResource}]
    /\ cur \in [Inputs -> Seq(Event)]
    /\ data \in [Inputs -> Seq(Event)]
    /\ ack \in Seq(Event)
    /\ executed \in BOOLEAN

\* The calls and the batch whose updates are not executed.
Calls(r) == {i \in InCalls(r) : pc[i] # "release"}
Executing(r) == IF executed THEN {} ELSE Of(ack, r)

ActiveCount(r) == Cardinality(InACKers(r)) + Cardinality(Calls(r)) + Cardinality(Executing(r))
PendingCount(r) == Cardinality(InACKers(r)) + Cardinality(InCalls(r)) + Cardinality(Of(ack, r))
                     + Cardinality(Holders(r))

\* Nobody refers to r.
Unused(r) == Holders(r) = {} /\ InACKers(r) = {} /\ InCalls(r) = {} /\ Of(ack, r) = {}

\* The members of InACKers.
LEMMA QueuedPairs ==
  \A r : \A x : x \in InACKers(r) <=> \E j \in Inputs : \E k \in Of(data[j], r) : x = <<j, k>>
  BY DEF InACKers

\* The events of a batch.
LEMMA BatchTypes ==
  ASSUME NEW b \in Seq(Event)
  PROVE  /\ Len(b) \in Nat /\ DOMAIN b = 1 .. Len(b)
         /\ \A k \in DOMAIN b : /\ b[k] \in Event
                                /\ b[k].resource \in Resources \cup {NoResource}
                                /\ b[k].pos \in Positions
                                /\ b[k].sent \in BOOLEAN
<1>1. Len(b) \in Nat /\ DOMAIN b = 1 .. Len(b)
  OBVIOUS
<1>2. \A k \in DOMAIN b : b[k] \in Event
  BY <1>1
<1> QED BY <1>1, <1>2 DEF Event

\* The updates of a batch are finitely many.
LEMMA OfFinite ==
  ASSUME NEW b \in Seq(Event), NEW r
  PROVE  /\ IsFiniteSet(Of(b, r)) /\ Cardinality(Of(b, r)) \in Nat
         /\ Of(b, r) \subseteq DOMAIN b
<1>1. Len(b) \in Nat /\ DOMAIN b = 1 .. Len(b)
  BY BatchTypes
<1>2. IsFiniteSet(1 .. Len(b))
  BY <1>1, FS_Interval
<1>3. Of(b, r) \in SUBSET (1 .. Len(b))
  BY <1>1 DEF Of
<1> QED BY <1>1, <1>2, <1>3, FS_Subset, FS_CardinalityType

\* All that is counted is finite.
CountFact ==
  VarTypes => \A r \in Resources :
    /\ IsFiniteSet(InACKers(r)) /\ Cardinality(InACKers(r)) \in Nat
    /\ IsFiniteSet(InCalls(r)) /\ Cardinality(InCalls(r)) \in Nat
    /\ IsFiniteSet(Calls(r)) /\ Cardinality(Calls(r)) \in Nat
    /\ IsFiniteSet(Of(ack, r)) /\ Cardinality(Of(ack, r)) \in Nat
    /\ IsFiniteSet(Executing(r)) /\ Cardinality(Executing(r)) \in Nat
    /\ IsFiniteSet(Holders(r)) /\ Cardinality(Holders(r)) \in Nat

LEMMA Counts == CountFact
<1> SUFFICES ASSUME VarTypes, NEW r \in Resources
             PROVE /\ IsFiniteSet(InACKers(r)) /\ Cardinality(InACKers(r)) \in Nat
                   /\ IsFiniteSet(InCalls(r)) /\ Cardinality(InCalls(r)) \in Nat
                   /\ IsFiniteSet(Calls(r)) /\ Cardinality(Calls(r)) \in Nat
                   /\ IsFiniteSet(Of(ack, r)) /\ Cardinality(Of(ack, r)) \in Nat
                   /\ IsFiniteSet(Executing(r)) /\ Cardinality(Executing(r)) \in Nat
                   /\ IsFiniteSet(Holders(r)) /\ Cardinality(Holders(r)) \in Nat
  BY DEF CountFact
<1>1. IsFiniteSet(Inputs)
  BY CursorAssumption
<1>2. InCalls(r) \in SUBSET Inputs /\ Calls(r) \in SUBSET Inputs /\ Holders(r) \in SUBSET Inputs
  BY DEF InCalls, Calls, Holders
<1>3. IsFiniteSet(InCalls(r)) /\ IsFiniteSet(Calls(r)) /\ IsFiniteSet(Holders(r))
  BY <1>1, <1>2, FS_Subset
<1>4. IsFiniteSet(Of(ack, r))
  BY OfFinite DEF VarTypes
<1>5. IsFiniteSet(Executing(r))
  BY <1>4, FS_EmptySet DEF Executing
<1>6. IsFiniteSet(InACKers(r))
  <2> DEFINE P(j) == {j} \X Of(data[j], r)
             Parts == {P(j) : j \in Inputs}
  <2>1. \A T \in Parts : IsFiniteSet(T)
    <3> SUFFICES ASSUME NEW j \in Inputs PROVE IsFiniteSet({j} \X Of(data[j], r))
      OBVIOUS
    <3>1. IsFiniteSet({j})
      BY FS_Singleton
    <3>2. IsFiniteSet(Of(data[j], r))
      BY OfFinite DEF VarTypes
    <3> QED BY <3>1, <3>2, FS_Product
  <2>2. IsFiniteSet(Parts)
    <3> DEFINE f == [j \in Inputs |-> P(j)]
    <3>1. f \in Surjection(Inputs, Parts)
      BY DEF Surjection
    <3> QED BY <3>1, <1>1, FS_Surjection
  <2> HIDE DEF Parts
  <2>3. IsFiniteSet(UNION Parts)
    BY <2>1, <2>2, FS_UNION
  <2> QED BY <2>3 DEF InACKers, Parts
<1> QED BY <1>3, <1>4, <1>5, <1>6, FS_CardinalityType

\* It holds in the next state too.
LEMMA CountsNext == CountFact'
<1>1. CountFact
  BY Counts
<1> QED BY <1>1, PTL

\* PendingIsExact, with these counts.
ExactFact ==
  PendingIsExact <=> \A r \in Resources : /\ resource[r].active = ActiveCount(r)
                                          /\ resource[r].pending = PendingCount(r)

LEMMA Exact == ExactFact
<1>1. \A r \in Resources : (IF executed THEN 0 ELSE Cardinality(Of(ack, r))) = Cardinality(Executing(r))
  BY FS_EmptySet DEF Executing
<1> QED BY <1>1 DEF ExactFact, PendingIsExact, ActiveCount, PendingCount, Calls

LEMMA ExactNext == ExactFact'
<1>1. ExactFact
  BY Exact
<1> QED BY <1>1, PTL

\* The members of InFlight.
LEMMA FlightMembers ==
  \A e : e \in InFlight <=> \/ \E i \in Inputs : e \in ToSet(data[i]) \/ e \in ToSet(cur[i])
                            \/ e \in ToSet(ack)
<1> SUFFICES ASSUME NEW e
             PROVE  e \in InFlight <=> \/ \E i \in Inputs : e \in ToSet(data[i]) \/ e \in ToSet(cur[i])
                                       \/ e \in ToSet(ack)
  OBVIOUS
<1> DEFINE P(i) == ToSet(data[i]) \cup ToSet(cur[i])
           U == UNION {P(i) : i \in Inputs}
<1>1. e \in U <=> \E i \in Inputs : e \in P(i)
  <2> HIDE DEF P
  <2> QED OBVIOUS
<1>2. InFlight = U \cup ToSet(ack)
  BY DEF InFlight
<1> HIDE DEF U
<1>3. \A i \in Inputs : e \in P(i) <=> e \in ToSet(data[i]) \/ e \in ToSet(cur[i])
  OBVIOUS
<1> HIDE DEF P
<1> QED BY <1>1, <1>2, <1>3

\* UsedIsKept: nobody refers to another resource than the one in the table.
UsedFact == VarTypes => (UsedIsKept <=> \A r \in Resources : r # table => Unused(r))

LEMMA Used == UsedFact
<1> SUFFICES ASSUME VarTypes
             PROVE  UsedIsKept <=> \A r \in Resources : r # table => Unused(r)
  BY DEF UsedFact
<1>0. /\ \A i \in Inputs : ref[i] \in Resources \cup {NoResource}
      /\ \A i \in Inputs : data[i] \in Seq(Event) /\ cur[i] \in Seq(Event)
      /\ ack \in Seq(Event)
  BY DEF VarTypes
<1>1. ASSUME UsedIsKept, NEW r \in Resources, r # table PROVE Unused(r)
  <2>1. r # NoResource
    BY CursorAssumption
  <2>2. Holders(r) = {}
    BY <1>1, <2>1 DEF Holders, UsedIsKept
  <2>3. \A e \in InFlight : e.resource # r
    BY <1>1, <2>1 DEF UsedIsKept
  <2>4. \A i \in Inputs : Of(data[i], r) = {}
    <3> SUFFICES ASSUME NEW i \in Inputs, NEW k \in Of(data[i], r) PROVE FALSE
      OBVIOUS
    <3>1. data[i][k] \in ToSet(data[i])
      BY DEF Of, ToSet
    <3> QED BY <3>1, <2>3, FlightMembers DEF Of
  <2>5. \A i \in Inputs : Of(cur[i], r) = {}
    <3> SUFFICES ASSUME NEW i \in Inputs, NEW k \in Of(cur[i], r) PROVE FALSE
      OBVIOUS
    <3>1. cur[i][k] \in ToSet(cur[i])
      BY DEF Of, ToSet
    <3> QED BY <3>1, <2>3, FlightMembers DEF Of
  <2>6. Of(ack, r) = {}
    <3> SUFFICES ASSUME NEW k \in Of(ack, r) PROVE FALSE
      OBVIOUS
    <3>1. ack[k] \in ToSet(ack)
      BY DEF Of, ToSet
    <3> QED BY <3>1, <2>3, FlightMembers DEF Of
  <2>7. InACKers(r) = {} /\ InCalls(r) = {}
    BY <2>4, <2>5, QueuedPairs DEF InCalls
  <2> QED BY <2>2, <2>6, <2>7 DEF Unused
<1>2. ASSUME \A r \in Resources : r # table => Unused(r) PROVE UsedIsKept
  <2>1. ASSUME NEW i \in Inputs PROVE ref[i] \in {NoResource, table}
    <3> SUFFICES ASSUME ref[i] # NoResource, ref[i] # table PROVE FALSE
      OBVIOUS
    <3>1. ref[i] \in Resources /\ i \in Holders(ref[i])
      BY <1>0 DEF Holders
    <3> QED BY <3>1, <1>2 DEF Unused
  <2>2. ASSUME NEW e \in InFlight PROVE e.resource \in {NoResource, table}
    <3>1. CASE e \in ToSet(ack)
      <4>1. PICK k \in DOMAIN ack : e = ack[k]
        BY <3>1 DEF ToSet
      <4>2. ack[k].resource \in Resources \cup {NoResource} /\ k \in Of(ack, ack[k].resource)
        BY <1>0, BatchTypes DEF Of
      <4> QED BY <4>1, <4>2, <1>2 DEF Unused
    <3>2. ASSUME NEW i \in Inputs, e \in ToSet(data[i]) PROVE e.resource \in {NoResource, table}
      <4>1. PICK k \in DOMAIN data[i] : e = data[i][k]
        BY <3>2 DEF ToSet
      <4>2. data[i][k].resource \in Resources \cup {NoResource} /\ k \in Of(data[i], data[i][k].resource)
        BY <1>0, BatchTypes DEF Of
      <4>3. <<i, k>> \in InACKers(data[i][k].resource)
        BY <4>2, QueuedPairs
      <4> QED BY <4>1, <4>2, <4>3, <1>2 DEF Unused
    <3>3. ASSUME NEW i \in Inputs, e \in ToSet(cur[i]) PROVE e.resource \in {NoResource, table}
      <4>1. PICK k \in DOMAIN cur[i] : e = cur[i][k]
        BY <3>3 DEF ToSet
      <4>2. cur[i][k].resource \in Resources \cup {NoResource} /\ k \in Of(cur[i], cur[i][k].resource)
        BY <1>0, BatchTypes DEF Of
      <4>3. i \in InCalls(cur[i][k].resource)
        BY <4>2 DEF InCalls
      <4> QED BY <4>1, <4>2, <4>3, <1>2 DEF Unused
    <3> QED BY <3>1, <3>2, <3>3, FlightMembers
  <2> QED BY <2>1, <2>2 DEF UsedIsKept
<1> QED BY <1>1, <1>2

LEMMA UsedNext == UsedFact'
<1>1. UsedFact
  BY Used
<1> QED BY <1>1, PTL

-----------------------------------------------------------------------------
(***************************************************************************)
(* Steps that change none of what is counted.                              *)
(***************************************************************************)

ResourceRecord == [pending : Nat, lock : Inputs \cup {Nobody}, stored : BOOLEAN,
                   active : Nat, cursor : Positions, pendingCursor : Positions]

\* The types that the invariant gives.
LEMMA Types ==
  ASSUME IInv
  PROVE  /\ VarTypes
         /\ resource \in [Resources -> ResourceRecord]
         /\ \A r \in Resources : /\ resource[r] \in ResourceRecord
                                 /\ resource[r].pending \in Nat /\ resource[r].active \in Nat
                                 /\ resource[r].cursor \in Positions
                                 /\ resource[r].pendingCursor \in Positions
                                 /\ resource[r].stored \in BOOLEAN
<1>1. VarTypes /\ resource \in [Resources -> ResourceRecord]
  BY DEF IInv, TypeOK, VarTypes, ResourceRecord
<1>2. \A r \in Resources : resource[r] \in ResourceRecord
  BY <1>1
<1> QED BY <1>1, <1>2 DEF ResourceRecord

\* The counts of the invariant, and what they say of a resource without references.
LEMMA Counted ==
  ASSUME IInv, NEW r \in Resources
  PROVE  /\ resource[r].active = ActiveCount(r) /\ resource[r].pending = PendingCount(r)
         /\ resource[r].pending = 0 <=> Unused(r)
         /\ Unused(r) => resource[r].active = 0
<1>1. resource[r].active = ActiveCount(r) /\ resource[r].pending = PendingCount(r)
  BY Exact DEF ExactFact, IInv
<1>2. VarTypes
  BY Types
<1>3. /\ IsFiniteSet(InACKers(r)) /\ Cardinality(InACKers(r)) \in Nat
      /\ IsFiniteSet(InCalls(r)) /\ Cardinality(InCalls(r)) \in Nat
      /\ IsFiniteSet(Of(ack, r)) /\ Cardinality(Of(ack, r)) \in Nat
      /\ IsFiniteSet(Holders(r)) /\ Cardinality(Holders(r)) \in Nat
  BY <1>2, Counts DEF CountFact
<1>4. PendingCount(r) = 0 <=> /\ Cardinality(InACKers(r)) = 0 /\ Cardinality(InCalls(r)) = 0
                              /\ Cardinality(Of(ack, r)) = 0 /\ Cardinality(Holders(r)) = 0
  BY <1>3 DEF PendingCount
<1>5. PendingCount(r) = 0 <=> Unused(r)
  BY <1>3, <1>4, FS_EmptySet DEF Unused
<1>6. Unused(r) => ActiveCount(r) = 0
  <2> SUFFICES ASSUME Unused(r) PROVE ActiveCount(r) = 0
    OBVIOUS
  <2>1. InACKers(r) = {} /\ Calls(r) = {} /\ Executing(r) = {}
    BY DEF Unused, Calls, Executing
  <2> QED BY <2>1, FS_EmptySet DEF ActiveCount
<1> QED BY <1>1, <1>5, <1>6

\* The resource of an input.
LEMMA RefIsTable ==
  ASSUME IInv, NEW i \in Inputs
  PROVE  /\ pc[i] \notin {"idle", "done"} => ref[i] = table /\ table \in Resources
         /\ pc[i] \in {"idle", "done"} => ref[i] = NoResource
<1>1. VarTypes /\ ref[i] \in {NoResource, table}
  BY Types DEF IInv, UsedIsKept
<1>2. pc[i] \in {"idle", "done"} <=> ref[i] = NoResource
  BY DEF IInv, CallShape
<1> QED BY <1>1, <1>2 DEF VarTypes

\* What is counted stays as it is.
LEMMA Frame ==
  ASSUME IInv, UNCHANGED <<ref, cur, data, ack, executed>>,
         \A i \in Inputs : pc'[i] = "release" <=> pc[i] = "release",
         \A r \in Resources : /\ resource'[r].pending = resource[r].pending
                              /\ resource'[r].active = resource[r].active
  PROVE  /\ PendingIsExact' /\ BatchShape'
         /\ \A r \in Resources : Unused(r)' = Unused(r)
<1>1. \A r \in Resources : /\ InACKers(r)' = InACKers(r) /\ InCalls(r)' = InCalls(r)
                           /\ Of(ack, r)' = Of(ack, r) /\ Holders(r)' = Holders(r)
  BY DEF InACKers, InCalls, Of, Holders
<1>2. \A r \in Resources : Calls(r)' = Calls(r) /\ Executing(r)' = Executing(r)
  BY <1>1 DEF Calls, Executing, InCalls
<1>3. \A r \in Resources : ActiveCount(r)' = ActiveCount(r) /\ PendingCount(r)' = PendingCount(r)
  BY <1>1, <1>2 DEF ActiveCount, PendingCount
<1>4. PendingIsExact'
  BY <1>3, Counted, ExactNext DEF ExactFact
<1>5. BatchShape'
  BY DEF IInv, BatchShape, Updates
<1>6. \A r \in Resources : Unused(r)' = Unused(r)
  BY <1>1 DEF Unused
<1> QED BY <1>4, <1>5, <1>6

\* With the table, what is in use stays as it is.
LEMMA FrameUsed ==
  ASSUME IInv, VarTypes', UNCHANGED table, \A r \in Resources : r # table => Unused(r)'
  PROVE  UsedIsKept'
  BY UsedNext DEF UsedFact

Plainly == {"trying", "waiting", "locked", "reading", "running", "unlocked"}

\* A step that leaves the cursors, the table and what is counted alone.
LEMMA Plain ==
  ASSUME IInv, TypeOK', UNCHANGED <<ref, cur, data, ack, executed, table, last>>,
         \A i \in Inputs : \/ pc'[i] = pc[i]
                           \/ pc[i] \in Plainly /\ pc'[i] \in Plainly
                           \/ pc[i] \in {"idle", "done"} /\ pc'[i] \in {"idle", "done"},
         \A r \in Resources : /\ resource'[r].pending = resource[r].pending
                              /\ resource'[r].active = resource[r].active
                              /\ resource'[r].cursor = resource[r].cursor
                              /\ resource'[r].pendingCursor = resource[r].pendingCursor,
         CleanShape'
  PROVE  IInv'
<1>0. VarTypes'
  BY DEF TypeOK, VarTypes
<1>1. \A i \in Inputs : pc'[i] = "release" <=> pc[i] = "release"
  BY DEF Plainly
<1>2. PendingIsExact' /\ BatchShape' /\ \A r \in Resources : Unused(r)' = Unused(r)
  BY <1>1, Frame
<1>3. UsedIsKept'
  BY <1>0, <1>2, FrameUsed, Used, Types DEF UsedFact, IInv
<1>4. CallShape'
  BY DEF IInv, CallShape, Plainly
<1>5. LastShape'
  BY DEF IInv, LastShape
<1>6. InMemoryIsLast'
  <2>1. table \in Resources \cup {NoResource}
    BY DEF IInv, TypeOK
  <2> QED BY <2>1 DEF IInv, InMemoryIsLast, InMemory
<1> QED BY <1>2, <1>3, <1>4, <1>5, <1>6 DEF IInv

\* The cleaner finds nothing else while these steps go on.
LEMMA CleanStays ==
  ASSUME IInv, UNCHANGED <<gc, table>>,
         \A r \in Resources : resource'[r].pending = resource[r].pending
  PROVE  CleanShape'
<1>1. gc \in Resources \cup {NoResource}
  BY DEF IInv, TypeOK
<1> QED BY <1>1 DEF IInv, CleanShape

LEMMA WaitKeeps == ASSUME IInv, NEW i \in Inputs, Wait(i) PROVE IInv'
<1>1. TypeOK'
  BY DEF IInv, TypeOK, Wait, pipeline
<1>2. CleanShape'
  BY CleanStays DEF Wait
<1>3. \A j \in Inputs : \/ pc'[j] = pc[j]
                        \/ pc[j] \in Plainly /\ pc'[j] \in Plainly
  BY Types DEF Wait, VarTypes, Plainly
<1> QED BY <1>1, <1>2, <1>3, Plain DEF Wait, pipeline

LEMMA LockKeeps == ASSUME IInv, NEW i \in Inputs, Lock(i) PROVE IInv'
<1>0. ref[i] = table /\ table \in Resources
  BY RefIsTable DEF Lock
<1>1. \A r \in Resources : /\ resource'[r].pending = resource[r].pending
                           /\ resource'[r].active = resource[r].active
                           /\ resource'[r].cursor = resource[r].cursor
                           /\ resource'[r].pendingCursor = resource[r].pendingCursor
  BY <1>0, Types DEF Lock, ResourceRecord
<1>2. resource' \in [Resources -> ResourceRecord]
  BY <1>0, Types DEF Lock, ResourceRecord
<1>3. TypeOK'
  BY <1>2 DEF IInv, TypeOK, Lock, pipeline, ResourceRecord
<1>4. CleanShape'
  BY <1>1, CleanStays DEF Lock
<1>5. \A j \in Inputs : \/ pc'[j] = pc[j]
                        \/ pc[j] \in Plainly /\ pc'[j] \in Plainly
  BY Types DEF Lock, VarTypes, Plainly
<1> QED BY <1>1, <1>3, <1>4, <1>5, Plain DEF Lock, pipeline

LEMMA UnlockKeeps == ASSUME IInv, NEW i \in Inputs, Unlock(i) PROVE IInv'
<1>0. ref[i] = table /\ table \in Resources
  BY RefIsTable DEF Unlock
<1>1. \A r \in Resources : /\ resource'[r].pending = resource[r].pending
                           /\ resource'[r].active = resource[r].active
                           /\ resource'[r].cursor = resource[r].cursor
                           /\ resource'[r].pendingCursor = resource[r].pendingCursor
  BY <1>0, Types DEF Unlock, ResourceRecord
<1>2. resource' \in [Resources -> ResourceRecord]
  BY <1>0, Types DEF Unlock, ResourceRecord
<1>3. TypeOK'
  BY <1>2 DEF IInv, TypeOK, Unlock, pipeline, ResourceRecord
<1>4. CleanShape'
  BY <1>1, CleanStays DEF Unlock
<1>5. \A j \in Inputs : \/ pc'[j] = pc[j]
                        \/ pc[j] \in Plainly /\ pc'[j] \in Plainly
  BY Types DEF Unlock, VarTypes, Plainly
<1> QED BY <1>1, <1>3, <1>4, <1>5, Plain DEF Unlock, pipeline

\* What persistentStore.Set does to the resources.
LEMMA Persisted ==
  ASSUME NEW new \in [Resources -> ResourceRecord], NEW r \in Resources, NEW c \in Positions,
         persist \in Positions \cup {NoKey}, Persist(new, r, c)
  PROVE  /\ persist' \in Positions \cup {NoKey}
         /\ resource' \in [Resources -> ResourceRecord]
         /\ \A q \in Resources : /\ resource'[q].pending = new[q].pending
                                 /\ resource'[q].active = new[q].active
                                 /\ resource'[q].cursor = new[q].cursor
                                 /\ resource'[q].pendingCursor = new[q].pendingCursor
                                 /\ resource'[q].lock = new[q].lock
<1>1. CASE resource' = [new EXCEPT ![r].stored = TRUE]
  BY <1>1 DEF Persist, ResourceRecord
<1>2. CASE resource' = new
  BY <1>2 DEF Persist
<1> QED BY <1>1, <1>2 DEF Persist

LEMMA UpdateTTLKeeps == ASSUME IInv, NEW i \in Inputs, UpdateTTL(i) PROVE IInv'
<1>0. ref[i] = table /\ table \in Resources /\ resource[table].cursor \in Positions
        /\ resource \in [Resources -> ResourceRecord] /\ persist \in Positions \cup {NoKey}
  BY RefIsTable, Types DEF UpdateTTL, IInv, TypeOK
<1>1. /\ persist' \in Positions \cup {NoKey}
      /\ resource' \in [Resources -> ResourceRecord]
      /\ \A r \in Resources : /\ resource'[r].pending = resource[r].pending
                              /\ resource'[r].active = resource[r].active
                              /\ resource'[r].cursor = resource[r].cursor
                              /\ resource'[r].pendingCursor = resource[r].pendingCursor
  <2>1. CASE UNCHANGED <<persist, resource>>
    BY <2>1, <1>0
  <2>2. CASE Persist(resource, ref[i], resource[ref[i]].cursor)
    <3>1. Persist(resource, table, resource[table].cursor)
      BY <1>0, <2>2
    <3> QED BY <3>1, <1>0, Persisted
  <2> QED BY <2>1, <2>2 DEF UpdateTTL
<1>3. TypeOK'
  BY <1>1 DEF IInv, TypeOK, UpdateTTL, pipeline, ResourceRecord
<1>4. CleanShape'
  BY <1>1, CleanStays DEF UpdateTTL
<1>5. \A j \in Inputs : \/ pc'[j] = pc[j]
                        \/ pc[j] \in Plainly /\ pc'[j] \in Plainly
  BY Types DEF UpdateTTL, VarTypes, Plainly
<1> QED BY <1>1, <1>3, <1>4, <1>5, Plain DEF UpdateTTL, pipeline

LEMMA ReadCursorKeeps == ASSUME IInv, NEW i \in Inputs, ReadCursor(i) PROVE IInv'
<1>0. ref[i] = table /\ table \in Resources
  BY RefIsTable DEF ReadCursor
<1>1. InMemory(ref[i]) \in Positions
  BY <1>0, Types DEF InMemory
<1>3. TypeOK'
  BY <1>1 DEF IInv, TypeOK, ReadCursor, pipeline
<1>4. CleanShape'
  BY CleanStays DEF ReadCursor
<1>5. \A j \in Inputs : \/ pc'[j] = pc[j]
                        \/ pc[j] \in Plainly /\ pc'[j] \in Plainly
  BY Types DEF ReadCursor, VarTypes, Plainly
<1> QED BY <1>3, <1>4, <1>5, Plain DEF ReadCursor, pipeline

LEMMA ForgetKeeps == ASSUME IInv, NEW i \in Inputs, Forget(i) PROVE IInv'
<1>1. 0 \in Positions
  BY CursorAssumption DEF Positions
<1>3. TypeOK'
  BY <1>1 DEF IInv, TypeOK, Forget, pipeline
<1>4. CleanShape'
  BY CleanStays DEF Forget
<1>5. \A j \in Inputs : \/ pc'[j] = pc[j]
                        \/ pc[j] \in {"idle", "done"} /\ pc'[j] \in {"idle", "done"}
  BY Types DEF Forget, VarTypes
<1> QED BY <1>3, <1>4, <1>5, Plain DEF Forget, pipeline

LEMMA GCFindKeeps == ASSUME IInv, GCFind PROVE IInv'
<1>1. TypeOK'
  BY DEF IInv, TypeOK, GCFind, inputs, pipeline
<1>2. CleanShape'
  BY DEF GCFind, CleanShape
<1> QED BY <1>1, <1>2, Plain DEF GCFind, inputs, pipeline

LEMMA ShutdownKeeps == ASSUME IInv, Shutdown PROVE IInv'
<1>1. TypeOK'
  BY DEF IInv, TypeOK, Shutdown, inputs, pipeline
<1>2. CleanShape'
  BY DEF Shutdown, CleanShape
<1> QED BY <1>1, <1>2, Plain DEF Shutdown, inputs, pipeline

LEMMA StutterKeeps == ASSUME IInv, UNCHANGED vars PROVE IInv'
<1>1. TypeOK'
  BY DEF IInv, TypeOK, vars
<1>2. CleanShape'
  BY DEF vars, IInv, CleanShape
<1> QED BY <1>1, <1>2, Plain DEF vars

\* The cleaner removes a resource that nobody refers to.
LEMMA GCCleanKeeps == ASSUME IInv, GCClean PROVE IInv'
<1>0. gc = table /\ table \in Resources /\ resource[table].pending = 0
  BY DEF IInv, GCClean, CleanShape, TypeOK
<1>1. persist' \in Positions \cup {NoKey} /\ gc' = NoResource
        /\ UNCHANGED <<ref, cur, data, ack, executed, resource, pc, dropping, closed, pos, queue, delivered>>
  BY DEF GCClean, inputs, pipeline, IInv, TypeOK
<1>2. 0 \in Positions
  BY CursorAssumption DEF Positions
<1>3. TypeOK'
  BY <1>1, <1>2 DEF IInv, TypeOK, GCClean
<1>4. CleanShape'
  BY <1>1 DEF CleanShape
<1>5. CASE UNCHANGED <<table, last>>
  BY <1>1, <1>3, <1>4, <1>5, Plain
<1>6. CASE table' = NoResource /\ last' = 0
  <2>1. \A r \in Resources : Unused(r)
    <3>1. Unused(table)
      BY <1>0, Counted
    <3>2. \A r \in Resources : r # table => Unused(r)
      BY Used, Types DEF UsedFact, IInv
    <3> QED BY <3>1, <3>2
  <2>2. PendingIsExact' /\ BatchShape' /\ \A r \in Resources : Unused(r)' = Unused(r)
    BY <1>1, Frame
  <2>3. VarTypes'
    BY <1>3 DEF TypeOK, VarTypes
  <2>4. UsedIsKept'
    BY <2>1, <2>2, <2>3, UsedNext DEF UsedFact
  <2>5. CallShape'
    BY <1>1 DEF IInv, CallShape
  <2>6. LastShape' /\ InMemoryIsLast'
    BY <1>6 DEF LastShape, InMemoryIsLast
  <2> QED BY <1>3, <1>4, <2>2, <2>4, <2>5, <2>6 DEF IInv
<1> QED BY <1>5, <1>6 DEF GCClean
-----------------------------------------------------------------------------
(***************************************************************************)
(* The beginning of a process.                                             *)
(***************************************************************************)

\* Nothing is in flight and no input runs.
AtRest == /\ \A i \in Inputs : /\ pc[i] = "idle" /\ ref[i] = NoResource
                               /\ cur[i] = <<>> /\ data[i] = <<>>
          /\ ack = <<>> /\ ~executed /\ gc = NoResource
          /\ \A r \in Resources : resource[r].pending = 0 /\ resource[r].active = 0

RestFact == TypeOK /\ AtRest =>
              CallShape /\ BatchShape /\ CleanShape /\ PendingIsExact /\ UsedIsKept

LEMMA Rest == RestFact
<1> SUFFICES ASSUME TypeOK, AtRest
             PROVE  CallShape /\ BatchShape /\ CleanShape /\ PendingIsExact /\ UsedIsKept
  BY DEF RestFact
<1>1. CallShape /\ BatchShape /\ CleanShape
  BY DEF AtRest, CallShape, BatchShape, CleanShape
<1>2. \A r : Of(<<>>, r) = {}
  BY DEF Of
<1>3. \A r \in Resources : /\ InACKers(r) = {} /\ InCalls(r) = {} /\ Calls(r) = {}
                           /\ Of(ack, r) = {} /\ Executing(r) = {} /\ Holders(r) = {}
  <2> SUFFICES ASSUME NEW r \in Resources
               PROVE  /\ InACKers(r) = {} /\ InCalls(r) = {} /\ Calls(r) = {}
                      /\ Of(ack, r) = {} /\ Executing(r) = {} /\ Holders(r) = {}
    OBVIOUS
  <2>1. \A i \in Inputs : Of(data[i], r) = {} /\ Of(cur[i], r) = {}
    BY <1>2 DEF AtRest
  <2>2. InACKers(r) = {}
    BY <2>1, QueuedPairs
  <2>3. InCalls(r) = {} /\ Calls(r) = {}
    BY <2>1 DEF InCalls, Calls
  <2>4. Of(ack, r) = {} /\ Executing(r) = {}
    BY <1>2 DEF AtRest, Executing
  <2>5. Holders(r) = {}
    <3>1. NoResource # r
      BY CursorAssumption
    <3> QED BY <3>1 DEF AtRest, Holders
  <2> QED BY <2>2, <2>3, <2>4, <2>5
<1>4. \A r \in Resources : ActiveCount(r) = 0 /\ PendingCount(r) = 0
  BY <1>3, FS_EmptySet DEF ActiveCount, PendingCount
<1>5. PendingIsExact
  BY <1>4, Exact DEF ExactFact, AtRest
<1>6. UsedIsKept
  <2>1. VarTypes
    BY DEF TypeOK, VarTypes
  <2> QED BY <2>1, <1>3, Used DEF UsedFact, Unused
<1> QED BY <1>1, <1>5, <1>6

LEMMA RestNext == RestFact'
<1>1. RestFact
  BY Rest
<1> QED BY <1>1, PTL

LEMMA NewType ==
  /\ NewResource \in ResourceRecord
  /\ \A c \in Positions : ReadState(c) \in ResourceRecord
  /\ NewResource.pending = 0 /\ NewResource.active = 0 /\ NewResource.cursor = 0
  /\ \A c \in Positions : ReadState(c).pending = 0 /\ ReadState(c).active = 0 /\ ReadState(c).cursor = c
<1>1. 0 \in Positions
  BY CursorAssumption DEF Positions
<1> QED BY <1>1 DEF NewResource, ReadState, ResourceRecord

LEMMA InitKeeps == Init => IInv
<1> SUFFICES ASSUME Init PROVE IInv
  OBVIOUS
<1>1. TypeOK
  <2>1. 0 \in Positions
    BY CursorAssumption DEF Positions
  <2>2. resource \in [Resources -> ResourceRecord]
    BY NewType DEF Init
  <2>3. <<>> \in Seq(Event) /\ <<>> \in Seq(Inputs)
    OBVIOUS
  <2> QED BY <2>1, <2>2, <2>3 DEF Init, TypeOK, ResourceRecord
<1>2. AtRest
  BY NewType DEF Init, AtRest
<1>3. LastShape /\ InMemoryIsLast
  BY DEF Init, LastShape, InMemoryIsLast
<1> QED BY <1>1, <1>2, <1>3, Rest DEF RestFact, IInv

LEMMA RestartKeeps == ASSUME IInv, Restart PROVE IInv'
<1>1. PICK r \in Resources : /\ table' = IF persist = NoKey THEN NoResource ELSE r
                             /\ resource' = [q \in Resources |-> IF q = table' THEN ReadState(persist)
                                                                              ELSE NewResource]
  BY DEF Restart
<1>2. persist \in Positions \cup {NoKey} /\ 0 \in Positions /\ NoResource \notin Resources
  BY CursorAssumption DEF IInv, TypeOK, Positions
<1>3. \A q \in Resources : /\ resource'[q] \in ResourceRecord
                           /\ resource'[q].pending = 0 /\ resource'[q].active = 0
  <2> SUFFICES ASSUME NEW q \in Resources
               PROVE  resource'[q] \in ResourceRecord /\ resource'[q].pending = 0 /\ resource'[q].active = 0
    OBVIOUS
  <2>1. CASE q = table'
    <3>1. persist \in Positions /\ resource'[q] = ReadState(persist)
      BY <2>1, <1>1, <1>2
    <3> QED BY <3>1, NewType
  <2>2. CASE q # table'
    <3>1. resource'[q] = NewResource
      BY <2>2, <1>1
    <3> QED BY <3>1, NewType
  <2> QED BY <2>1, <2>2
<1>4. TypeOK'
  <2>1. resource' \in [Resources -> ResourceRecord]
    BY <1>1, <1>3
  <2>2. <<>> \in Seq(Event) /\ <<>> \in Seq(Inputs)
    OBVIOUS
  <2>3. table' \in Resources \cup {NoResource} /\ last' \in Positions
    BY <1>1, <1>2 DEF Restart
  <2> QED BY <1>2, <2>1, <2>2, <2>3 DEF Restart, IInv, TypeOK, ResourceRecord
<1>5. AtRest'
  BY <1>3 DEF Restart, AtRest
<1>6. LastShape' /\ InMemoryIsLast'
  <2>1. CASE persist = NoKey
    BY <2>1, <1>1 DEF Restart, LastShape, InMemoryIsLast
  <2>2. CASE persist # NoKey
    <3>1. persist \in Positions /\ table' = r /\ resource'[r] = ReadState(persist) /\ last' = persist
      BY <2>2, <1>1, <1>2 DEF Restart
    <3>2. resource'[r].active = 0 /\ resource'[r].cursor = persist
      BY <3>1, NewType
    <3> QED BY <3>1, <3>2, <1>2 DEF LastShape, InMemoryIsLast, InMemory
  <2> QED BY <2>1, <2>2
<1> QED BY <1>4, <1>5, <1>6, RestNext DEF RestFact, IInv
-----------------------------------------------------------------------------
(***************************************************************************)
(* Steps that change what is counted for one resource.                     *)
(***************************************************************************)

\* For another resource nothing changes.
SameRefs(r) ==
    /\ InACKers(r)' = InACKers(r) /\ InCalls(r)' = InCalls(r) /\ Calls(r)' = Calls(r)
    /\ Of(ack, r)' = Of(ack, r) /\ Executing(r)' = Executing(r) /\ Holders(r)' = Holders(r)
    /\ resource'[r].pending = resource[r].pending /\ resource'[r].active = resource[r].active

LEMMA CountedNext ==
  ASSUME IInv, NEW q \in Resources, \A r \in Resources \ {q} : SameRefs(r),
         resource'[q].active = ActiveCount(q)', resource'[q].pending = PendingCount(q)'
  PROVE  PendingIsExact' /\ \A r \in Resources \ {q} : Unused(r)' = Unused(r)
<1>1. \A r \in Resources \ {q} : ActiveCount(r)' = ActiveCount(r) /\ PendingCount(r)' = PendingCount(r)
  BY DEF SameRefs, ActiveCount, PendingCount
<1>2. \A r \in Resources \ {q} : /\ resource'[r].active = ActiveCount(r)'
                                 /\ resource'[r].pending = PendingCount(r)'
  BY <1>1, Counted DEF SameRefs
<1>3. PendingIsExact'
  BY <1>2, ExactNext DEF ExactFact
<1>4. \A r \in Resources \ {q} : Unused(r)' = Unused(r)
  BY DEF SameRefs, Unused
<1> QED BY <1>3, <1>4

\* The table has q, and nothing else is referred to.
LEMMA UsedStays ==
  ASSUME IInv, VarTypes', NEW q \in Resources, table' = q, table \in {q, NoResource},
         \A r \in Resources \ {q} : Unused(r)' = Unused(r)
  PROVE  UsedIsKept'
<1>1. \A r \in Resources : r # table => Unused(r)
  BY Used, Types DEF UsedFact, IInv
<1>2. \A r \in Resources : r # q => r # table
  BY CursorAssumption
<1> QED BY <1>1, <1>2, UsedNext DEF UsedFact

\* An input takes a reference of q.
LEMMA HolderAdded ==
  ASSUME IInv, VarTypes', NEW i \in Inputs, NEW q \in Resources, ref[i] = NoResource,
         ref' = [ref EXCEPT ![i] = q]
  PROVE  /\ Cardinality(Holders(q)') = Cardinality(Holders(q)) + 1
         /\ \A r \in Resources \ {q} : Holders(r)' = Holders(r)
<1>1. VarTypes /\ NoResource \notin Resources
  BY Types, CursorAssumption
<1>2. i \notin Holders(q) /\ Holders(q)' = Holders(q) \cup {i}
  BY <1>1 DEF Holders, VarTypes
<1>3. \A r \in Resources \ {q} : Holders(r)' = Holders(r)
  BY <1>1 DEF Holders, VarTypes
<1>4. IsFiniteSet(Holders(q))
  BY <1>1, Counts DEF CountFact
<1> QED BY <1>2, <1>3, <1>4, FS_AddElement

\* ... and gives it back.
LEMMA HolderRemoved ==
  ASSUME IInv, NEW i \in Inputs, NEW q \in Resources, ref[i] = q,
         ref' = [ref EXCEPT ![i] = NoResource]
  PROVE  /\ Cardinality(Holders(q)') = Cardinality(Holders(q)) - 1
         /\ \A r \in Resources \ {q} : Holders(r)' = Holders(r)
<1>1. VarTypes /\ NoResource \notin Resources
  BY Types, CursorAssumption
<1>2. i \in Holders(q) /\ Holders(q)' = Holders(q) \ {i}
  BY <1>1 DEF Holders, VarTypes
<1>3. \A r \in Resources \ {q} : Holders(r)' = Holders(r)
  BY <1>1 DEF Holders, VarTypes
<1>4. IsFiniteSet(Holders(q))
  BY <1>1, Counts DEF CountFact
<1> QED BY <1>2, <1>3, <1>4, FS_RemoveElement

\* What is in flight, if it does not change.
LEMMA SameFlight ==
  ASSUME UNCHANGED <<cur, data, ack, executed>>, NEW r,
         \A i \in Inputs : pc'[i] = "release" <=> pc[i] = "release"
  PROVE  /\ InACKers(r)' = InACKers(r) /\ InCalls(r)' = InCalls(r) /\ Calls(r)' = Calls(r)
         /\ Of(ack, r)' = Of(ack, r) /\ Executing(r)' = Executing(r)
<1>1. InACKers(r)' = InACKers(r) /\ InCalls(r)' = InCalls(r) /\ Of(ack, r)' = Of(ack, r)
  BY DEF InACKers, InCalls, Of
<1>2. Calls(r)' = Calls(r) /\ Executing(r)' = Executing(r)
  BY <1>1 DEF Calls, Executing, InCalls
<1> QED BY <1>1, <1>2

\* The counts with one holder more or less.
LEMMA HolderCounts ==
  ASSUME IInv, NEW q \in Resources, NEW d \in {-1, 1},
         Cardinality(Holders(q)') = Cardinality(Holders(q)) + d,
         UNCHANGED <<cur, data, ack, executed>>,
         \A i \in Inputs : pc'[i] = "release" <=> pc[i] = "release"
  PROVE  ActiveCount(q)' = ActiveCount(q) /\ PendingCount(q)' = PendingCount(q) + d
<1>1. /\ InACKers(q)' = InACKers(q) /\ InCalls(q)' = InCalls(q) /\ Calls(q)' = Calls(q)
      /\ Of(ack, q)' = Of(ack, q) /\ Executing(q)' = Executing(q)
  BY SameFlight
<1>2. /\ Cardinality(InACKers(q)) \in Nat /\ Cardinality(InCalls(q)) \in Nat
      /\ Cardinality(Of(ack, q)) \in Nat /\ Cardinality(Holders(q)) \in Nat
  BY Types, Counts DEF CountFact
<1> QED BY <1>1, <1>2 DEF ActiveCount, PendingCount

LEMMA GetKeeps == ASSUME IInv, NEW i \in Inputs, Get(i) PROVE IInv'
<1>0. ref[i] = NoResource /\ pc[i] = "idle" /\ gc = NoResource /\ NoResource \notin Resources
  BY RefIsTable, CursorAssumption DEF Get
<1>1. PICK q \in Resources :
         /\ IF table = NoResource
            THEN resource' = [resource EXCEPT ![q] = [NewResource EXCEPT !.pending = 1]]
            ELSE q = table /\ resource' = [resource EXCEPT ![q].pending = @ + 1]
         /\ table' = q
         /\ ref' = [ref EXCEPT ![i] = q]
  BY DEF Get
<1>2. /\ pc' = [pc EXCEPT ![i] = "trying"]
      /\ UNCHANGED <<dropping, closed, persist, gc, pos, cur, data, queue, ack, executed, delivered, last>>
  BY DEF Get, pipeline
<1>3. VarTypes' /\ \A j \in Inputs : pc'[j] = "release" <=> pc[j] = "release"
  BY <1>0, <1>1, <1>2, Types DEF VarTypes
<1>4. table = NoResource => Unused(q)
  <2>1. \A r \in Resources : r # table => Unused(r)
    BY Used, Types DEF UsedFact, IInv
  <2> QED BY <2>1, <1>0
<1>5. /\ resource' \in [Resources -> ResourceRecord]
      /\ resource'[q].pending = resource[q].pending + 1
      /\ resource'[q].active = resource[q].active
      /\ table # NoResource => /\ resource'[q].cursor = resource[q].cursor
                               /\ resource'[q].pendingCursor = resource[q].pendingCursor
      /\ table = NoResource => resource'[q].active = 0 /\ resource'[q].cursor = 0
      /\ \A r \in Resources \ {q} : resource'[r] = resource[r]
  <2>1. CASE table = NoResource
    <3> DEFINE n == [NewResource EXCEPT !.pending = 1]
    <3>1. n \in ResourceRecord /\ n.pending = 1 /\ n.active = 0 /\ n.cursor = 0
      BY NewType DEF NewResource, ResourceRecord
    <3>2. resource[q].pending = 0 /\ resource[q].active = 0
      BY <2>1, <1>4, Counted
    <3> HIDE DEF n
    <3>3. resource' = [resource EXCEPT ![q] = n]
      BY <2>1, <1>1 DEF n
    <3> QED BY <2>1, <3>1, <3>2, <3>3, Types
  <2>2. CASE table # NoResource
    BY <2>2, <1>1, Types DEF ResourceRecord
  <2> QED BY <2>1, <2>2
<1>6. Cardinality(Holders(q)') = Cardinality(Holders(q)) + 1
        /\ \A r \in Resources \ {q} : Holders(r)' = Holders(r)
  BY <1>0, <1>1, <1>3, HolderAdded
<1>7. ActiveCount(q)' = ActiveCount(q) /\ PendingCount(q)' = PendingCount(q) + 1
  BY <1>2, <1>3, <1>6, HolderCounts
<1>8. \A r \in Resources \ {q} : SameRefs(r)
  BY <1>2, <1>3, <1>5, <1>6, SameFlight DEF SameRefs
<1>9. PendingIsExact' /\ \A r \in Resources \ {q} : Unused(r)' = Unused(r)
  <2>1. resource'[q].active = ActiveCount(q)' /\ resource'[q].pending = PendingCount(q)'
    BY <1>5, <1>7, Counted
  <2> QED BY <2>1, <1>8, CountedNext
<1>10. UsedIsKept'
  BY <1>1, <1>3, <1>9, UsedStays
<1>11. TypeOK'
  BY <1>2, <1>3, <1>5 DEF IInv, TypeOK, VarTypes, ResourceRecord
<1>12. CallShape'
  BY <1>0, <1>1, <1>2, Types DEF IInv, CallShape, VarTypes
<1>13. BatchShape' /\ CleanShape' /\ LastShape'
  BY <1>0, <1>1, <1>2 DEF IInv, BatchShape, CleanShape, LastShape, Updates
<1>14. InMemoryIsLast'
  <2>1. CASE table = NoResource
    <3>1. last' = 0
      BY <2>1, <1>2 DEF IInv, LastShape
    <3> QED BY <2>1, <3>1, <1>1, <1>5 DEF InMemoryIsLast, InMemory
  <2>2. CASE table # NoResource
    BY <2>2, <1>1, <1>2, <1>5 DEF IInv, InMemoryIsLast, InMemory
  <2> QED BY <2>1, <2>2
<1> QED BY <1>9, <1>10, <1>11, <1>12, <1>13, <1>14 DEF IInv

\* releaseResource, when the lock was given back or not taken.
LEMMA ReleaseKeeps ==
  ASSUME IInv, NEW i \in Inputs, pc[i] \in {"waiting", "unlocked"}, ReleaseResource(i)
  PROVE  IInv'
<1>0. ref[i] = table /\ table \in Resources /\ NoResource \notin Resources
  BY RefIsTable, CursorAssumption
<1>20. PICK q \in Resources : q = table
  BY <1>0
<1>1. /\ resource' = [resource EXCEPT ![q].pending = @ - 1]
      /\ ref' = [ref EXCEPT ![i] = NoResource]
      /\ pc' = [pc EXCEPT ![i] = "done"]
      /\ UNCHANGED <<dropping, closed, persist, table, gc, pos, cur, data, queue, ack, executed,
                     delivered, last>>
  BY <1>20, <1>0 DEF ReleaseResource, pipeline
<1>2. VarTypes' /\ \A j \in Inputs : pc'[j] = "release" <=> pc[j] = "release"
  BY <1>20, <1>0, <1>1, Types DEF VarTypes
<1>3. Cardinality(Holders(q)') = Cardinality(Holders(q)) - 1
        /\ \A r \in Resources \ {q} : Holders(r)' = Holders(r)
  BY <1>20, <1>0, <1>1, HolderRemoved
<1>4. ActiveCount(q)' = ActiveCount(q) /\ PendingCount(q)' = PendingCount(q) - 1
  <2>1. Cardinality(Holders(q)) \in Nat
    BY <1>20, <1>0, Types, Counts DEF CountFact
  <2>2. Cardinality(Holders(q)') = Cardinality(Holders(q)) + (-1)
    BY <1>3, <2>1
  <2>3. ActiveCount(q)' = ActiveCount(q) /\ PendingCount(q)' = PendingCount(q) + (-1)
    BY <1>20, <1>0, <1>1, <1>2, <2>2, HolderCounts
  <2>4. PendingCount(q) \in Nat
    BY <1>20, <1>0, Counted, Types
  <2> QED BY <2>3, <2>4
<1>5. resource[q].pending - 1 \in Nat
  <2>1. q \in Resources /\ ~Unused(q)
    BY <1>20, <1>0 DEF Unused, Holders
  <2> QED BY <2>1, Counted, Types
<1>6. /\ resource' \in [Resources -> ResourceRecord]
      /\ resource'[q].pending = resource[q].pending - 1
      /\ \A r \in Resources : /\ resource'[r].active = resource[r].active
                              /\ resource'[r].cursor = resource[r].cursor
                              /\ resource'[r].pendingCursor = resource[r].pendingCursor
      /\ \A r \in Resources \ {q} : resource'[r] = resource[r]
  BY <1>20, <1>0, <1>1, <1>5, Types DEF ResourceRecord
<1>7. \A r \in Resources \ {q} : SameRefs(r)
  BY <1>1, <1>2, <1>3, <1>6, SameFlight DEF SameRefs
<1>8. PendingIsExact' /\ \A r \in Resources \ {q} : Unused(r)' = Unused(r)
  <2>1. resource'[q].active = ActiveCount(q)' /\ resource'[q].pending = PendingCount(q)'
    BY <1>20, <1>0, <1>4, <1>6, Counted
  <2> QED BY <2>1, <1>0, <1>7, CountedNext
<1>9. UsedIsKept'
  BY <1>20, <1>0, <1>1, <1>2, <1>8, UsedStays
<1>10. TypeOK'
  BY <1>1, <1>2, <1>6 DEF IInv, TypeOK, VarTypes, ResourceRecord
<1>11. CallShape'
  BY <1>1, Types DEF IInv, CallShape, VarTypes
<1>12. CleanShape'
  <2>1. gc # NoResource => gc = table /\ resource[table].pending = 0
    BY DEF IInv, CleanShape
  <2>2. resource[table].pending # 0
    BY <1>20, <1>5, Types
  <2> QED BY <2>1, <2>2, <1>1 DEF CleanShape
<1>13. BatchShape' /\ LastShape'
  BY <1>1 DEF IInv, BatchShape, LastShape, Updates
<1>14. InMemoryIsLast'
  BY <1>0, <1>20, <1>1, <1>6 DEF IInv, InMemoryIsLast, InMemory
<1> QED BY <1>8, <1>9, <1>10, <1>11, <1>12, <1>13, <1>14 DEF IInv
-----------------------------------------------------------------------------
(***************************************************************************)
(* Executing the updates of a batch.                                       *)
(***************************************************************************)

\* The greatest of finitely many numbers.
LEMMA GreatestIsMax ==
  ASSUME NEW n \in Nat, NEW S \in SUBSET (1 .. n), S # {}
  PROVE  Max(S) \in S /\ \A y \in S : y <= Max(S)
<1> DEFINE T == {n - k : k \in S}
<1>1. T \in SUBSET Nat /\ T # {}
  <2>1. \A k \in S : k \in 1 .. n /\ n - k \in Nat
    OBVIOUS
  <2>2. PICK k \in S : TRUE
    OBVIOUS
  <2>3. n - k \in T
    BY <2>2
  <2> QED BY <2>1, <2>3
<1>2. PICK m \in T : \A t \in T : m <= t
  BY <1>1, LeastNatural
<1>3. PICK x \in S : m = n - x
  BY <1>2
<1>4. ASSUME NEW y \in S PROVE x >= y
  <2>1. n - y \in T
    OBVIOUS
  <2>2. n - x <= n - y
    BY <1>2, <1>3, <2>1
  <2> QED BY <2>2
<1>5. \E z \in S : \A y \in S : z >= y
  BY <1>3, <1>4
<1>6. Max(S) \in S /\ \A y \in S : Max(S) >= y
  BY <1>5 DEF Max
<1> QED BY <1>6

\* All updates of a batch are for the resource in the table.
LEMMA UpdatesOfTable ==
  ASSUME NEW b \in Seq(Event), Updates(b) # {}, table \in Resources \cup {NoResource},
         \A k \in DOMAIN b : b[k].resource \in {NoResource, table}
  PROVE  /\ table \in Resources
         /\ Updates(b) = Of(b, table)
         /\ Max(Updates(b)) \in DOMAIN b /\ b[Max(Updates(b))].resource = table
         /\ b[Max(Updates(b))].pos \in Positions
         /\ Cardinality(Updates(b)) \in Nat /\ Cardinality(Updates(b)) > 0
<1>0. Len(b) \in Nat /\ DOMAIN b = 1 .. Len(b) /\ \A k \in DOMAIN b : b[k].pos \in Positions
  BY BatchTypes
<1>1. table \in Resources /\ NoResource \notin Resources
  BY CursorAssumption DEF Updates
<1>2. Updates(b) = Of(b, table)
  BY <1>1 DEF Updates, Of
<1>3. Updates(b) \in SUBSET (1 .. Len(b))
  BY <1>0 DEF Updates
<1>4. Max(Updates(b)) \in Updates(b)
  BY <1>0, <1>3, GreatestIsMax
<1>5. Max(Updates(b)) \in DOMAIN b /\ b[Max(Updates(b))].resource = table
  BY <1>2, <1>4 DEF Of
<1>6. IsFiniteSet(Updates(b)) /\ Cardinality(Updates(b)) \in Nat
  BY <1>2, OfFinite
<1>7. Cardinality(Updates(b)) # 0
  BY <1>6, FS_EmptySet
<1> QED BY <1>0, <1>1, <1>2, <1>5, <1>6, <1>7

\* updateOp.Execute for a batch: the cursor that the next input reads stays the
\* same, since there are at least as many operations in flight.
LEMMA ExecuteEffect ==
  ASSUME IInv, NEW b \in Seq(Event), Updates(b) # {},
         \A k \in DOMAIN b : b[k].resource \in {NoResource, table},
         NEW q, q = table, NEW n, n = Cardinality(Updates(b)), n <= resource[table].active, Execute(b)
  PROVE  /\ q \in Resources /\ n \in Nat /\ n > 0
         /\ persist' \in Positions \cup {NoKey}
         /\ resource' \in [Resources -> ResourceRecord]
         /\ \A r \in Resources : resource'[r].pending = resource[r].pending
         /\ \A r \in Resources \ {q} : /\ resource'[r].active = resource[r].active
                                       /\ resource'[r].cursor = resource[r].cursor
                                       /\ resource'[r].pendingCursor = resource[r].pendingCursor
         /\ resource'[q].active = resource[q].active - n
         /\ resource'[q].lock = resource[q].lock
         /\ persist' \in {persist, resource'[q].cursor}
         /\ IF resource[q].active = n
            THEN resource'[q].cursor = resource[q].pendingCursor
            ELSE /\ resource'[q].cursor = b[Max(Updates(b))].pos
                 /\ resource'[q].pendingCursor = resource[q].pendingCursor
<1> DEFINE p == b[Max(Updates(b))].pos
           new == Executed(q, n, p)
<1>0. table \in Resources \cup {NoResource} /\ persist \in Positions \cup {NoKey}
  BY DEF IInv, TypeOK
<1>1. q \in Resources /\ n \in Nat /\ n > 0 /\ b[Max(Updates(b))].resource = q /\ p \in Positions
  BY <1>0, UpdatesOfTable
<1>2. Persist(new, q, new[q].cursor)
  BY <1>1 DEF Execute
<1>3. 0 \in Positions
  BY CursorAssumption DEF Positions
<1>4. resource[q].active - n \in Nat
  BY <1>1, Types
<1> HIDE DEF p
<1>5. /\ new \in [Resources -> ResourceRecord]
      /\ \A r \in Resources : new[r].pending = resource[r].pending
      /\ \A r \in Resources \ {q} : new[r] = resource[r]
      /\ new[q].active = resource[q].active - n /\ new[q].lock = resource[q].lock
      /\ new[q].cursor = IF resource[q].active = n THEN resource[q].pendingCursor ELSE p
      /\ new[q].pendingCursor = IF resource[q].active = n THEN 0 ELSE resource[q].pendingCursor
  <2>1. CASE resource[q].active = n
    <3> DEFINE x == [resource[q] EXCEPT !.active = @ - n, !.cursor = resource[q].pendingCursor,
                                        !.pendingCursor = 0]
    <3>1. /\ x \in ResourceRecord /\ x.pending = resource[q].pending /\ x.active = resource[q].active - n
          /\ x.lock = resource[q].lock
          /\ x.cursor = resource[q].pendingCursor /\ x.pendingCursor = 0
      BY <1>1, <1>3, <1>4, Types DEF ResourceRecord
    <3>2. new = [resource EXCEPT ![q] = x]
      BY <2>1, <1>1, Types DEF Executed, ResourceRecord
    <3> HIDE DEF x, new
    <3> QED BY <2>1, <3>1, <3>2, <1>1, Types
  <2>2. CASE resource[q].active # n
    <3> DEFINE x == [resource[q] EXCEPT !.active = @ - n, !.cursor = p,
                                        !.pendingCursor = resource[q].pendingCursor]
    <3>1. /\ x \in ResourceRecord /\ x.pending = resource[q].pending /\ x.active = resource[q].active - n
          /\ x.lock = resource[q].lock
          /\ x.cursor = p /\ x.pendingCursor = resource[q].pendingCursor
      BY <1>1, <1>3, <1>4, Types DEF ResourceRecord
    <3>2. new = [resource EXCEPT ![q] = x]
      BY <2>2, <1>1, Types DEF Executed, ResourceRecord
    <3> HIDE DEF x, new
    <3> QED BY <2>2, <3>1, <3>2, <1>1, Types
  <2> QED BY <2>1, <2>2
<1> HIDE DEF new
<1>6. new[q].cursor \in Positions
  BY <1>1, <1>5, Types
<1>7. /\ persist' \in Positions \cup {NoKey}
      /\ resource' \in [Resources -> ResourceRecord]
      /\ \A r \in Resources : /\ resource'[r].pending = new[r].pending
                              /\ resource'[r].active = new[r].active
                              /\ resource'[r].cursor = new[r].cursor
                              /\ resource'[r].pendingCursor = new[r].pendingCursor
                              /\ resource'[r].lock = new[r].lock
  BY <1>0, <1>1, <1>2, <1>5, <1>6, Persisted
<1>8. persist' \in {persist, new[q].cursor}
  BY <1>2 DEF Persist
<1>9. persist' \in {persist, resource'[q].cursor} /\ resource'[q].lock = resource[q].lock
  BY <1>1, <1>5, <1>7, <1>8
<1> QED BY <1>1, <1>5, <1>7, <1>9 DEF p

\* ... hence the invariant on cursors.
LEMMA ExecuteInMemory ==
  ASSUME IInv, UNCHANGED <<table, last>>, table \in Resources, NEW n \in Nat, n > 0,
         n <= resource[table].active,
         resource'[table].active = resource[table].active - n,
         IF resource[table].active = n
         THEN resource'[table].cursor = resource[table].pendingCursor
         ELSE resource'[table].pendingCursor = resource[table].pendingCursor
  PROVE  InMemoryIsLast'
<1>1. resource[table].active \in Nat /\ resource[table].active # 0
  BY Types
<1>2. resource[table].pendingCursor = last
  BY <1>1, CursorAssumption DEF IInv, InMemoryIsLast, InMemory
<1>3. CASE resource[table].active = n
  <2>1. resource'[table].active = 0 /\ resource'[table].cursor = last
    BY <1>1, <1>2, <1>3
  <2> QED BY <2>1 DEF InMemoryIsLast, InMemory
<1>4. CASE resource[table].active # n
  <2>1. resource'[table].active # 0 /\ resource'[table].pendingCursor = last
    BY <1>1, <1>2, <1>4
  <2> QED BY <2>1 DEF InMemoryIsLast, InMemory
<1> QED BY <1>3, <1>4
-----------------------------------------------------------------------------
(***************************************************************************)
(* An event at hand.                                                       *)
(***************************************************************************)

\* A batch of one event.
LEMMA OneEvent ==
  ASSUME NEW b \in Seq(Event), Len(b) = 1
  PROVE  /\ b = <<b[1]>> /\ b[1] \in Event /\ DOMAIN b = {1}
         /\ b[1].resource \in Resources \cup {NoResource}
         /\ \A r : Of(b, r) # {} <=> b[1].resource = r
         /\ Updates(b) = IF b[1].resource # NoResource THEN {1} ELSE {}
<1>1. DOMAIN b = {1} /\ b[1] \in Event /\ b = <<b[1]>>
  OBVIOUS
<1> QED BY <1>1 DEF Of, Updates, Event

\* No event.
LEMMA NoEvent == \A r : Of(<<>>, r) = {} /\ Updates(<<>>) = {}
  BY DEF Of, Updates

\* Input i has the event e at hand now.
LEMMA CallBegins ==
  ASSUME IInv, NEW i \in Inputs, NEW e \in Event, cur[i] = <<>>, cur' = [cur EXCEPT ![i] = <<e>>],
         NEW c, c # "release", pc' = [pc EXCEPT ![i] = c], NEW r
  PROVE  /\ i \notin InCalls(r) /\ i \notin Calls(r)
         /\ InCalls(r)' = IF e.resource = r THEN InCalls(r) \cup {i} ELSE InCalls(r)
         /\ Calls(r)' = IF e.resource = r THEN Calls(r) \cup {i} ELSE Calls(r)
<1>0. VarTypes
  BY Types
<1>1. i \notin InCalls(r) /\ i \notin Calls(r)
  BY NoEvent DEF InCalls, Calls
<1>2. <<e>> \in Seq(Event) /\ Len(<<e>>) = 1 /\ <<e>>[1] = e
  OBVIOUS
<1>3. Of(<<e>>, r) # {} <=> e.resource = r
  BY <1>2, OneEvent
<1>4. cur'[i] = <<e>> /\ \A j \in Inputs \ {i} : cur'[j] = cur[j]
  BY <1>0 DEF VarTypes
<1>5. pc'[i] # "release" /\ \A j \in Inputs \ {i} : pc'[j] = pc[j]
  BY <1>0 DEF VarTypes
<1>6. InCalls(r)' = {j \in Inputs : Of(cur'[j], r) # {}}
  BY DEF InCalls, Of
<1>7. InCalls(r)' = IF e.resource = r THEN InCalls(r) \cup {i} ELSE InCalls(r)
  <2>1. \A j \in Inputs \ {i} : j \in InCalls(r)' <=> j \in InCalls(r)
    BY <1>4, <1>6 DEF InCalls
  <2>2. i \in InCalls(r)' <=> e.resource = r
    BY <1>3, <1>4, <1>6
  <2>3. InCalls(r)' \subseteq Inputs /\ InCalls(r) \subseteq Inputs
    BY <1>6 DEF InCalls
  <2>4. CASE e.resource = r
    BY <2>1, <2>2, <2>3, <2>4
  <2>5. CASE e.resource # r
    BY <1>1, <2>1, <2>2, <2>3, <2>5
  <2> QED BY <2>4, <2>5
<1>8. Calls(r)' = {j \in InCalls(r)' : pc'[j] # "release"}
  BY DEF Calls
<1>9. Calls(r)' = IF e.resource = r THEN Calls(r) \cup {i} ELSE Calls(r)
  <2>1. InCalls(r) \subseteq Inputs
    BY DEF InCalls
  <2> QED BY <2>1, <1>1, <1>5, <1>7, <1>8 DEF Calls
<1> QED BY <1>1, <1>7, <1>9

\* Input i has no event at hand any more.
LEMMA CallEnds ==
  ASSUME IInv, NEW i \in Inputs, Len(cur[i]) = 1, cur' = [cur EXCEPT ![i] = <<>>],
         NEW c, pc' = [pc EXCEPT ![i] = c], NEW r
  PROVE  /\ InCalls(r)' = InCalls(r) \ {i} /\ Calls(r)' = Calls(r) \ {i}
         /\ i \in InCalls(r) <=> cur[i][1].resource = r
         /\ i \in Calls(r) <=> cur[i][1].resource = r /\ pc[i] # "release"
<1>0. VarTypes
  BY Types
<1>1. i \in InCalls(r) <=> cur[i][1].resource = r
  <2>1. cur[i] \in Seq(Event)
    BY <1>0 DEF VarTypes
  <2> QED BY <2>1, OneEvent DEF InCalls
<1>2. cur'[i] = <<>> /\ \A j \in Inputs \ {i} : cur'[j] = cur[j] /\ pc'[j] = pc[j]
  BY <1>0 DEF VarTypes
<1>3. InCalls(r)' = {j \in Inputs : Of(cur'[j], r) # {}}
  BY DEF InCalls, Of
<1>4. InCalls(r)' = InCalls(r) \ {i}
  <2>1. \A j \in Inputs \ {i} : j \in InCalls(r)' <=> j \in InCalls(r)
    BY <1>2, <1>3 DEF InCalls
  <2>2. i \notin InCalls(r)'
    BY <1>2, <1>3, NoEvent
  <2>3. InCalls(r)' \subseteq Inputs /\ InCalls(r) \subseteq Inputs
    BY <1>3 DEF InCalls
  <2> QED BY <2>1, <2>2, <2>3
<1>5. Calls(r)' = {j \in InCalls(r)' : pc'[j] # "release"}
  BY DEF Calls
<1>6. Calls(r)' = Calls(r) \ {i}
  <2>1. InCalls(r) \subseteq Inputs
    BY DEF InCalls
  <2> QED BY <2>1, <1>2, <1>4, <1>5 DEF Calls
<1> QED BY <1>1, <1>4, <1>6 DEF Calls

\* An event is added to the ACKer of input i.
LEMMA Queueing ==
  ASSUME IInv, NEW i \in Inputs, NEW e \in Event, data' = [data EXCEPT ![i] = Append(@, e)], NEW r
  PROVE  /\ <<i, Len(data[i]) + 1>> \notin InACKers(r)
         /\ InACKers(r)' = IF e.resource = r THEN InACKers(r) \cup {<<i, Len(data[i]) + 1>>}
                                             ELSE InACKers(r)
<1>0. data[i] \in Seq(Event) /\ Len(data[i]) \in Nat /\ DOMAIN data[i] = 1 .. Len(data[i])
  BY Types DEF VarTypes
<1>1. PICK l \in Nat : l = Len(data[i])
  BY <1>0
<1>2. /\ \A j \in Inputs \ {i} : data'[j] = data[j]
      /\ DOMAIN data'[i] = 1 .. l + 1
      /\ data'[i][l + 1] = e
      /\ \A k \in 1 .. l : data'[i][k] = data[i][k]
  <2>1. data'[i] = Append(data[i], e) /\ \A j \in Inputs \ {i} : data'[j] = data[j]
    BY Types DEF VarTypes
  <2> QED BY <2>1, <1>0, <1>1
<1>3. /\ \A j \in Inputs \ {i} : Of(data'[j], r) = Of(data[j], r)
      /\ Of(data'[i], r) = IF e.resource = r THEN Of(data[i], r) \cup {l + 1} ELSE Of(data[i], r)
      /\ l + 1 \notin Of(data[i], r)
  BY <1>0, <1>1, <1>2 DEF Of
<1>4. <<i, l + 1>> \notin InACKers(r)
  BY <1>3, QueuedPairs
<1>5. \A x : x \in InACKers(r)' <=> \E j \in Inputs : \E k \in Of(data'[j], r) : x = <<j, k>>
  BY DEF InACKers, Of
<1>6. ASSUME NEW x PROVE x \in InACKers(r)' <=> x \in InACKers(r) \/ (e.resource = r /\ x = <<i, l + 1>>)
  <2>1. ASSUME x \in InACKers(r)' PROVE x \in InACKers(r) \/ (e.resource = r /\ x = <<i, l + 1>>)
    <3>1. PICK j \in Inputs : \E k \in Of(data'[j], r) : x = <<j, k>>
      BY <2>1, <1>5
    <3>2. PICK k \in Of(data'[j], r) : x = <<j, k>>
      BY <3>1
    <3>3. CASE j = i /\ k = l + 1 /\ e.resource = r
      BY <3>2, <3>3
    <3>4. CASE k \in Of(data[j], r)
      BY <3>2, <3>4, QueuedPairs
    <3> QED BY <3>3, <3>4, <1>3, <3>2
  <2>2. ASSUME x \in InACKers(r) PROVE x \in InACKers(r)'
    <3>1. PICK j \in Inputs : \E k \in Of(data[j], r) : x = <<j, k>>
      BY <2>2, QueuedPairs
    <3>2. PICK k \in Of(data[j], r) : x = <<j, k>>
      BY <3>1
    <3>3. k \in Of(data'[j], r)
      BY <1>3
    <3> QED BY <3>2, <3>3, <1>5
  <2>3. ASSUME e.resource = r, x = <<i, l + 1>> PROVE x \in InACKers(r)'
    <3>1. l + 1 \in Of(data'[i], r)
      BY <1>3, <2>3
    <3> QED BY <2>3, <3>1, <1>5
  <2> QED BY <2>1, <2>2, <2>3
<1>7. InACKers(r)' = IF e.resource = r THEN InACKers(r) \cup {<<i, l + 1>>} ELSE InACKers(r)
  BY <1>6
<1> QED BY <1>1, <1>4, <1>7

-----------------------------------------------------------------------------
(***************************************************************************)
(* Publish.                                                                *)
(***************************************************************************)

\* When nothing changes for any resource, the counts are exact.
LEMMA AllSame ==
  ASSUME IInv, VarTypes', UNCHANGED table, \A r \in Resources : SameRefs(r)
  PROVE  PendingIsExact' /\ UsedIsKept'
<1>1. \A r \in Resources : ActiveCount(r)' = ActiveCount(r) /\ PendingCount(r)' = PendingCount(r)
  BY DEF SameRefs, ActiveCount, PendingCount
<1>2. PendingIsExact'
  BY <1>1, Counted, ExactNext DEF ExactFact, SameRefs
<1>3. \A r \in Resources : Unused(r)' = Unused(r)
  BY DEF SameRefs, Unused
<1>4. \A r \in Resources : r # table => Unused(r)
  BY Used, Types DEF UsedFact, IInv
<1> QED BY <1>2, <1>3, <1>4, FrameUsed

\* What does not depend on the event at hand.
LEMMA SameOthers ==
  ASSUME NEW r
  PROVE  /\ UNCHANGED data => InACKers(r)' = InACKers(r)
         /\ UNCHANGED <<ack, executed>> => Of(ack, r)' = Of(ack, r) /\ Executing(r)' = Executing(r)
         /\ UNCHANGED ref => Holders(r)' = Holders(r)
<1>1. UNCHANGED data => InACKers(r)' = InACKers(r)
  BY DEF InACKers, Of
<1>2. UNCHANGED <<ack, executed>> => Of(ack, r)' = Of(ack, r)
  BY DEF Of
<1>3. UNCHANGED <<ack, executed>> => Executing(r)' = Executing(r)
  BY <1>2 DEF Executing
<1>4. UNCHANGED ref => Holders(r)' = Holders(r)
  BY DEF Holders
<1> QED BY <1>1, <1>2, <1>3, <1>4

\* The cleaner waits for nothing that an input uses.
LEMMA CleanWaits ==
  ASSUME IInv, NEW i \in Inputs, pc[i] \notin {"idle", "done"}
  PROVE  gc = NoResource
<1>1. ref[i] = table /\ table \in Resources
  BY RefIsTable
<1>2. ~Unused(table)
  BY <1>1 DEF Unused, Holders
<1>3. resource[table].pending # 0
  BY <1>1, <1>2, Counted
<1> QED BY <1>3 DEF IInv, CleanShape

\* The position of an input that publishes.
LEMMA Advances ==
  ASSUME IInv, NEW i \in Inputs, NEW u, Publish(i, u)
  PROVE  pos[i] + 1 \in Positions /\ pos'[i] = pos[i] + 1 /\ pos' \in [Inputs -> Positions]
<1>1. pos \in [Inputs -> Positions]
  BY DEF IInv, TypeOK
<1>2. pos[i] \in 0 .. MaxPos /\ pos[i] < MaxPos /\ MaxPos \in Nat
  BY <1>1, CursorAssumption DEF Publish, Positions
<1>3. pos[i] + 1 \in Positions
  BY <1>2 DEF Positions
<1>4. pos' = [pos EXCEPT ![i] = pos[i] + 1]
  BY DEF Publish
<1> QED BY <1>1, <1>3, <1>4

\* An event without a cursor.
LEMMA PublishPlainKeeps == ASSUME IInv, NEW i \in Inputs, Publish(i, FALSE) PROVE IInv'
<1>0. ref[i] = table /\ table \in Resources /\ cur[i] = <<>> /\ pc[i] = "running" /\ gc = NoResource
  BY RefIsTable, CleanWaits DEF Publish, IInv, CallShape
<1>1. pos[i] + 1 \in Positions /\ pos'[i] = pos[i] + 1 /\ pos' \in [Inputs -> Positions]
  BY Advances
<1>2. PICK e \in Event : e = [pos |-> pos'[i], sent |-> FALSE, resource |-> NoResource]
  BY <1>1 DEF Event
<1>3. /\ cur' = [cur EXCEPT ![i] = <<e>>] /\ e.resource = NoResource
      /\ pc' = [pc EXCEPT ![i] = "forward"]
      /\ UNCHANGED <<dropping, closed, persist, table, resource, gc, ref, data, queue, ack, executed,
                     delivered, last>>
  BY <1>2 DEF Publish, pipeline
<1>4. VarTypes'
  BY <1>3, Types DEF VarTypes
<1>5. ASSUME NEW r \in Resources PROVE SameRefs(r)
  <2>1. e.resource # r
    BY <1>3, CursorAssumption
  <2>2. InCalls(r)' = InCalls(r) /\ Calls(r)' = Calls(r)
    BY <2>1, <1>0, <1>3, CallBegins
  <2> QED BY <2>2, <1>3, SameOthers DEF SameRefs
<1>6. PendingIsExact' /\ UsedIsKept'
  BY <1>3, <1>4, <1>5, AllSame
<1>7. TypeOK'
  BY <1>1, <1>3, <1>4 DEF IInv, TypeOK, VarTypes
<1>8. CallShape'
  <2>1. Len(<<e>>) = 1
    OBVIOUS
  <2> QED BY <2>1, <1>0, <1>3, Types DEF IInv, CallShape, VarTypes
<1>9. BatchShape' /\ CleanShape' /\ LastShape' /\ InMemoryIsLast'
  BY <1>0, <1>3 DEF IInv, BatchShape, Updates, CleanShape, LastShape, InMemoryIsLast, InMemory
<1> QED BY <1>6, <1>7, <1>8, <1>9 DEF IInv

\* An event with a cursor: one more update is in flight, and its cursor is the
\* one that the next input reads.
LEMMA PublishUpdateKeeps == ASSUME IInv, NEW i \in Inputs, Publish(i, TRUE) PROVE IInv'
<1>0. ref[i] = table /\ table \in Resources /\ cur[i] = <<>> /\ pc[i] = "running" /\ gc = NoResource
  BY RefIsTable, CleanWaits DEF Publish, IInv, CallShape
<1>1. pos[i] + 1 \in Positions /\ pos'[i] = pos[i] + 1 /\ pos' \in [Inputs -> Positions]
  BY Advances
<1>20. PICK q \in Resources : q = table
  BY <1>0
<1>2. PICK e \in Event : e = [pos |-> pos'[i], sent |-> FALSE, resource |-> q]
  BY <1>1 DEF Event
<1>21. PICK p \in Positions : p = pos'[i]
  BY <1>1
<1>3. /\ cur' = [cur EXCEPT ![i] = <<e>>] /\ e.resource = q
      /\ pc' = [pc EXCEPT ![i] = "forward"]
      /\ resource' = CreateUpdateOp(q, p) /\ last' = p
      /\ UNCHANGED <<dropping, closed, persist, table, gc, ref, data, queue, ack, executed, delivered>>
  BY <1>0, <1>2, <1>20, <1>21 DEF Publish, pipeline
<1>4. VarTypes'
  BY <1>3, Types DEF VarTypes
<1>5. /\ resource' \in [Resources -> ResourceRecord]
      /\ \A r \in Resources \ {q} : resource'[r] = resource[r]
      /\ resource'[q].pending = resource[q].pending + 1
      /\ resource'[q].active = resource[q].active + 1
      /\ resource'[q].pendingCursor = p
  <2> DEFINE x == [resource[q] EXCEPT !.pendingCursor = p, !.pending = @ + 1, !.active = @ + 1]
  <2>1. /\ x \in ResourceRecord /\ x.pending = resource[q].pending + 1
        /\ x.active = resource[q].active + 1 /\ x.pendingCursor = p
    <3>1. resource[q] \in ResourceRecord
      BY Types
    <3>2. resource[q].pending + 1 \in Nat /\ resource[q].active + 1 \in Nat
      BY Types
    <3>3. x = [resource[q] EXCEPT !.pendingCursor = p, !.pending = resource[q].pending + 1,
                                  !.active = resource[q].active + 1]
      BY <3>1 DEF ResourceRecord
    <3> HIDE DEF x
    <3> QED BY <3>1, <3>2, <3>3 DEF ResourceRecord
  <2>2. resource' = [resource EXCEPT ![q] = x]
    BY <1>3, Types DEF CreateUpdateOp, ResourceRecord
  <2> HIDE DEF x
  <2> QED BY <2>1, <2>2, Types
<1>6. ASSUME NEW r \in Resources \ {q} PROVE SameRefs(r)
  <2>1. e.resource # r
    BY <1>3
  <2>2. InCalls(r)' = InCalls(r) /\ Calls(r)' = Calls(r)
    BY <2>1, <1>0, <1>3, CallBegins
  <2> QED BY <2>2, <1>3, <1>5, SameOthers DEF SameRefs
<1>7. /\ InCalls(q)' = InCalls(q) \cup {i} /\ i \notin InCalls(q)
      /\ Calls(q)' = Calls(q) \cup {i} /\ i \notin Calls(q)
  BY <1>0, <1>3, CallBegins
<1>8. /\ Cardinality(InCalls(q)') = Cardinality(InCalls(q)) + 1
      /\ Cardinality(Calls(q)') = Cardinality(Calls(q)) + 1
  BY <1>7, Types, Counts, FS_AddElement DEF CountFact
<1>9. resource'[q].active = ActiveCount(q)' /\ resource'[q].pending = PendingCount(q)'
  <2>1. /\ InACKers(q)' = InACKers(q) /\ Of(ack, q)' = Of(ack, q)
        /\ Executing(q)' = Executing(q) /\ Holders(q)' = Holders(q)
    BY <1>3, SameOthers
  <2>2. /\ Cardinality(InACKers(q)) \in Nat /\ Cardinality(InCalls(q)) \in Nat
        /\ Cardinality(Calls(q)) \in Nat /\ Cardinality(Executing(q)) \in Nat
        /\ Cardinality(Of(ack, q)) \in Nat /\ Cardinality(Holders(q)) \in Nat
    BY Types, Counts DEF CountFact
  <2>3. ActiveCount(q)' = ActiveCount(q) + 1 /\ PendingCount(q)' = PendingCount(q) + 1
    BY <1>8, <2>1, <2>2 DEF ActiveCount, PendingCount
  <2> QED BY <1>5, <2>3, Counted
<1>10. PendingIsExact' /\ \A r \in Resources \ {q} : Unused(r)' = Unused(r)
  BY <1>6, <1>9, CountedNext
<1>11. UsedIsKept'
  BY <1>20, <1>3, <1>4, <1>10, UsedStays
<1>12. TypeOK'
  BY <1>1, <1>3, <1>4, <1>5 DEF IInv, TypeOK, VarTypes, ResourceRecord
<1>13. CallShape'
  <2>1. Len(<<e>>) = 1
    OBVIOUS
  <2> QED BY <2>1, <1>0, <1>3, Types DEF IInv, CallShape, VarTypes
<1>14. BatchShape' /\ CleanShape' /\ LastShape'
  BY <1>0, <1>3, CursorAssumption DEF IInv, BatchShape, Updates, CleanShape, LastShape
<1>15. InMemoryIsLast'
  <2>1. resource'[q].active # 0
    BY <1>5, Types
  <2> QED BY <2>1, <1>20, <1>3, <1>5 DEF InMemoryIsLast, InMemory
<1> QED BY <1>10, <1>11, <1>12, <1>13, <1>14, <1>15 DEF IInv

LEMMA PublishKeeps ==
  ASSUME IInv, NEW i \in Inputs, NEW update \in BOOLEAN, Publish(i, update)
  PROVE  IInv'
<1>1. CASE update = TRUE
  <2>1. Publish(i, TRUE)
    BY <1>1
  <2> QED BY <2>1, PublishUpdateKeeps
<1>2. CASE update = FALSE
  <2>1. Publish(i, FALSE)
    BY <1>2
  <2> QED BY <2>1, PublishPlainKeeps
<1> QED BY <1>1, <1>2

\* The updates in flight are for the resource in the table.
LEMMA FlightOfTable ==
  ASSUME IInv
  PROVE  /\ \A i \in Inputs : /\ \A k \in DOMAIN cur[i] : cur[i][k].resource \in {NoResource, table}
                              /\ \A k \in DOMAIN data[i] : data[i][k].resource \in {NoResource, table}
         /\ \A k \in DOMAIN ack : ack[k].resource \in {NoResource, table}
<1>1. \A e \in InFlight : e.resource \in {NoResource, table}
  BY DEF IInv, UsedIsKept
<1>2. ASSUME NEW i \in Inputs, NEW k \in DOMAIN cur[i] PROVE cur[i][k].resource \in {NoResource, table}
  <2>1. cur[i][k] \in ToSet(cur[i])
    BY DEF ToSet
  <2> QED BY <2>1, <1>1, FlightMembers
<1>3. ASSUME NEW i \in Inputs, NEW k \in DOMAIN data[i] PROVE data[i][k].resource \in {NoResource, table}
  <2>1. data[i][k] \in ToSet(data[i])
    BY DEF ToSet
  <2> QED BY <2>1, <1>1, FlightMembers
<1>4. ASSUME NEW k \in DOMAIN ack PROVE ack[k].resource \in {NoResource, table}
  <2>1. ack[k] \in ToSet(ack)
    BY DEF ToSet
  <2> QED BY <2>1, <1>1, FlightMembers
<1> QED BY <1>2, <1>3, <1>4

\* The event at hand.
LEMMA AtHand ==
  ASSUME IInv, NEW i \in Inputs, pc[i] \in {"forward", "callback", "release"}
  PROVE  /\ cur[i] \in Seq(Event) /\ Len(cur[i]) = 1 /\ cur[i] = <<cur[i][1]>> /\ cur[i][1] \in Event
         /\ cur[i][1].resource \in {NoResource, table}
         /\ Updates(cur[i]) = IF cur[i][1].resource # NoResource THEN {1} ELSE {}
         /\ data[i] \in Seq(Event)
<1>1. cur[i] \in Seq(Event) /\ Len(cur[i]) = 1 /\ data[i] \in Seq(Event)
  BY Types DEF VarTypes, IInv, CallShape
<1>2. cur[i][1].resource \in {NoResource, table}
  BY <1>1, FlightOfTable, OneEvent
<1> QED BY <1>1, <1>2, OneEvent

\* The event goes from the call to the ACKer.
LEMMA EventMoves ==
  ASSUME IInv, TypeOK', NEW i \in Inputs, pc[i] = "forward",
         NEW e \in Event, e.resource = cur[i][1].resource,
         data' = [data EXCEPT ![i] = Append(@, e)],
         cur' = [cur EXCEPT ![i] = <<>>], pc' = [pc EXCEPT ![i] = "running"],
         UNCHANGED <<table, resource, gc, ref, ack, executed, last>>
  PROVE  IInv'
<1>1. Len(cur[i]) = 1 /\ VarTypes' /\ e.resource \in {NoResource, table}
  BY AtHand DEF TypeOK, VarTypes
<1>2. ASSUME NEW r \in Resources, r # e.resource PROVE SameRefs(r)
  <2>1. InCalls(r)' = InCalls(r) /\ Calls(r)' = Calls(r)
    <3>1. /\ InCalls(r)' = InCalls(r) \ {i} /\ Calls(r)' = Calls(r) \ {i}
          /\ i \notin InCalls(r) /\ i \notin Calls(r)
      BY <1>1, <1>2, CallEnds
    <3> QED BY <3>1
  <2>2. InACKers(r)' = InACKers(r)
    BY <1>2, Queueing
  <2> QED BY <2>1, <2>2, SameOthers DEF SameRefs
<1>3. ASSUME NEW r \in Resources, r = e.resource
      PROVE  ActiveCount(r)' = ActiveCount(r) /\ PendingCount(r)' = PendingCount(r)
  <2>1. /\ InCalls(r)' = InCalls(r) \ {i} /\ Calls(r)' = Calls(r) \ {i}
        /\ i \in InCalls(r) /\ i \in Calls(r)
    BY <1>1, <1>3, CallEnds
  <2>2. PICK x : x \notin InACKers(r) /\ InACKers(r)' = InACKers(r) \cup {x}
    BY <1>3, Queueing
  <2>3. /\ IsFiniteSet(InACKers(r)) /\ Cardinality(InACKers(r)) \in Nat
        /\ IsFiniteSet(InCalls(r)) /\ Cardinality(InCalls(r)) \in Nat
        /\ IsFiniteSet(Calls(r)) /\ Cardinality(Calls(r)) \in Nat
        /\ Cardinality(Executing(r)) \in Nat
        /\ Cardinality(Of(ack, r)) \in Nat /\ Cardinality(Holders(r)) \in Nat
    BY Types, Counts DEF CountFact
  <2>41. Cardinality(InCalls(r) \ {i}) = Cardinality(InCalls(r)) - 1
    BY <2>1, <2>3, FS_RemoveElement
  <2>42. Cardinality(Calls(r) \ {i}) = Cardinality(Calls(r)) - 1
    BY <2>1, <2>3, FS_RemoveElement
  <2>4. /\ Cardinality(InCalls(r)') = Cardinality(InCalls(r)) - 1
        /\ Cardinality(Calls(r)') = Cardinality(Calls(r)) - 1
    BY <2>1, <2>41, <2>42
  <2>5. Cardinality(InACKers(r)') = Cardinality(InACKers(r)) + 1
    BY <2>2, <2>3, FS_AddElement
  <2>6. Of(ack, r)' = Of(ack, r) /\ Executing(r)' = Executing(r) /\ Holders(r)' = Holders(r)
    BY SameOthers
  <2>7. PICK a \in Nat, b \in Nat, c \in Nat :
           a = Cardinality(InACKers(r)) /\ b = Cardinality(InCalls(r)) /\ c = Cardinality(Calls(r))
    BY <2>3
  <2>8. /\ ActiveCount(r)' = (a + 1) + (c - 1) + Cardinality(Executing(r))
        /\ PendingCount(r)' = (a + 1) + (b - 1) + Cardinality(Of(ack, r)) + Cardinality(Holders(r))
    BY <2>4, <2>5, <2>6, <2>7 DEF ActiveCount, PendingCount
  <2>9. /\ ActiveCount(r) = a + c + Cardinality(Executing(r))
        /\ PendingCount(r) = a + b + Cardinality(Of(ack, r)) + Cardinality(Holders(r))
    BY <2>7 DEF ActiveCount, PendingCount
  <2> QED BY <2>3, <2>8, <2>9
<1>4. \A r \in Resources : ActiveCount(r)' = ActiveCount(r) /\ PendingCount(r)' = PendingCount(r)
  BY <1>2, <1>3 DEF SameRefs, ActiveCount, PendingCount
<1>5. PendingIsExact'
  BY <1>4, Counted, ExactNext DEF ExactFact
<1>6. UsedIsKept'
  <2>1. \A r \in Resources : r # table => Unused(r)
    BY Used, Types DEF UsedFact, IInv
  <2>2. ASSUME NEW r \in Resources, r # table PROVE Unused(r)'
    <3>1. r # e.resource
      BY <1>1, <2>2, CursorAssumption
    <3>2. SameRefs(r) /\ Unused(r)
      BY <3>1, <2>1, <2>2, <1>2
    <3> QED BY <3>2 DEF SameRefs, Unused
  <2> QED BY <1>1, <2>2, FrameUsed
<1>7. CallShape'
  BY Types DEF IInv, CallShape, VarTypes
<1>8. BatchShape' /\ CleanShape' /\ LastShape' /\ InMemoryIsLast'
  BY DEF IInv, BatchShape, Updates, CleanShape, LastShape, InMemoryIsLast, InMemory
<1> QED BY <1>5, <1>6, <1>7, <1>8 DEF IInv

\* The ACKer forgets an event without an update at once.
LEMMA EventForgotten ==
  ASSUME IInv, TypeOK', NEW i \in Inputs, pc[i] = "forward", cur[i][1].resource = NoResource,
         cur' = [cur EXCEPT ![i] = <<>>], pc' = [pc EXCEPT ![i] = "running"],
         UNCHANGED <<table, resource, gc, ref, data, ack, executed, last>>
  PROVE  IInv'
<1>1. Len(cur[i]) = 1 /\ VarTypes'
  BY AtHand DEF TypeOK, VarTypes
<1>2. ASSUME NEW r \in Resources PROVE SameRefs(r)
  <2>1. cur[i][1].resource # r
    BY CursorAssumption
  <2>2. InCalls(r)' = InCalls(r) /\ Calls(r)' = Calls(r)
    <3>1. /\ InCalls(r)' = InCalls(r) \ {i} /\ Calls(r)' = Calls(r) \ {i}
          /\ i \notin InCalls(r) /\ i \notin Calls(r)
      BY <1>1, <2>1, CallEnds
    <3> QED BY <3>1
  <2> QED BY <2>2, SameOthers DEF SameRefs
<1>3. PendingIsExact' /\ UsedIsKept'
  BY <1>1, <1>2, AllSame
<1>4. CallShape'
  BY Types DEF IInv, CallShape, VarTypes
<1>5. BatchShape' /\ CleanShape' /\ LastShape' /\ InMemoryIsLast'
  BY DEF IInv, BatchShape, Updates, CleanShape, LastShape, InMemoryIsLast, InMemory
<1> QED BY <1>3, <1>4, <1>5 DEF IInv

LEMMA ForwardKeeps == ASSUME IInv, NEW i \in Inputs, Forward(i) PROVE IInv'
<1>0. cur[i][1] \in Event /\ data[i] \in Seq(Event) /\ pc[i] = "forward"
  BY AtHand DEF Forward
<1>1. PICK e \in Event : e = [cur[i][1] EXCEPT !.sent = TRUE]
  BY <1>0 DEF Event
<1>2. e.resource = cur[i][1].resource
  BY <1>0, <1>1 DEF Event
<1>3. data' = [data EXCEPT ![i] = Append(@, e)]
  BY <1>1 DEF Forward
<1>4. TypeOK'
  <2>1. data' \in [Inputs -> Seq(Event)]
    <3>1. Append(data[i], e) \in Seq(Event)
      BY <1>0
    <3> QED BY <3>1, <1>3, Types DEF VarTypes
  <2>2. queue' \in Seq(Inputs)
    <3>1. queue \in Seq(Inputs) /\ queue' = Append(queue, i)
      BY DEF IInv, TypeOK, Forward
    <3> QED BY <3>1
  <2>3. cur' \in [Inputs -> Seq(Event)]
    <3>1. <<>> \in Seq(Event)
      OBVIOUS
    <3> QED BY <3>1, Types DEF VarTypes, Forward
  <2>4. TypeOK
    BY DEF IInv
  <2> QED BY <2>1, <2>2, <2>3, <2>4 DEF TypeOK, Forward
<1> QED BY <1>0, <1>2, <1>3, <1>4, EventMoves DEF Forward

LEMMA ForwardDroppedKeeps == ASSUME IInv, NEW i \in Inputs, ForwardDropped(i) PROVE IInv'
<1>0. /\ cur[i] \in Seq(Event) /\ cur[i] = <<cur[i][1]>> /\ cur[i][1] \in Event
      /\ Updates(cur[i]) = IF cur[i][1].resource # NoResource THEN {1} ELSE {}
      /\ data[i] \in Seq(Event) /\ pc[i] = "forward"
  BY AtHand DEF ForwardDropped
<1>1. /\ delivered' \subseteq Positions
      /\ UNCHANGED <<dropping, closed, persist, table, resource, gc, ref, pos, queue, ack, executed, last>>
  BY <1>0, BatchTypes DEF ForwardDropped, IInv, TypeOK, Event
<1>2. CASE data[i] = <<>> /\ Updates(cur[i]) # {}
  <2>1. pc' = [pc EXCEPT ![i] = "callback"] /\ UNCHANGED <<data, cur>>
    BY <1>2 DEF ForwardDropped
  <2>2. TypeOK'
    BY <1>1, <2>1 DEF IInv, TypeOK
  <2>3. VarTypes' /\ \A j \in Inputs : pc'[j] = "release" <=> pc[j] = "release"
    BY <1>0, <2>1, <2>2, Types DEF VarTypes, TypeOK
  <2>4. PendingIsExact' /\ BatchShape' /\ \A r \in Resources : Unused(r)' = Unused(r)
    BY <1>1, <2>1, <2>3, Frame
  <2>5. UsedIsKept'
    BY <1>1, <2>3, <2>4, FrameUsed, Used, Types DEF UsedFact, IInv
  <2>6. CallShape'
    BY <1>0, <1>1, <1>2, <2>1, Types DEF IInv, CallShape, VarTypes
  <2>7. CleanShape' /\ LastShape' /\ InMemoryIsLast'
    BY <1>1 DEF IInv, CleanShape, LastShape, InMemoryIsLast, InMemory
  <2> QED BY <2>2, <2>4, <2>5, <2>6, <2>7 DEF IInv
<1>3. CASE data[i] = <<>> /\ Updates(cur[i]) = {}
  <2>1. pc' = [pc EXCEPT ![i] = "running"] /\ UNCHANGED data /\ cur' = [cur EXCEPT ![i] = <<>>]
    BY <1>3 DEF ForwardDropped
  <2>2. TypeOK'
    BY <1>1, <2>1 DEF IInv, TypeOK
  <2> QED BY <1>0, <1>1, <1>3, <2>1, <2>2, EventForgotten
<1>4. CASE data[i] # <<>>
  <2>1. PICK e \in Event : e = cur[i][1]
    BY <1>0
  <2>2. data[i] \o cur[i] = Append(data[i], e)
    <3>1. cur[i] = <<e>>
      BY <1>0, <2>1
    <3>2. data[i] \o <<e>> = Append(data[i], e)
      BY <1>0
    <3> QED BY <3>1, <3>2
  <2>3. /\ pc' = [pc EXCEPT ![i] = "running"] /\ cur' = [cur EXCEPT ![i] = <<>>]
        /\ data' = [data EXCEPT ![i] = Append(@, e)]
    BY <1>4, <2>2 DEF ForwardDropped
  <2>4. Append(data[i], e) \in Seq(Event)
    BY <1>0
  <2>5. TypeOK'
    BY <1>1, <2>3, <2>4 DEF IInv, TypeOK
  <2> QED BY <1>0, <1>1, <2>1, <2>3, <2>5, EventMoves
<1> QED BY <1>2, <1>3, <1>4
-----------------------------------------------------------------------------
(***************************************************************************)
(* The callbacks.                                                          *)
(***************************************************************************)

\* What releases a batch.
LEMMA DoneEffect ==
  ASSUME IInv, NEW b \in Seq(Event), Updates(b) # {},
         \A k \in DOMAIN b : b[k].resource \in {NoResource, table},
         NEW q, q = table, NEW n, n = Cardinality(Updates(b)), n <= resource[table].pending, Done(b)
  PROVE  /\ q \in Resources /\ n \in Nat
         /\ resource' \in [Resources -> ResourceRecord]
         /\ \A r \in Resources \ {q} : resource'[r] = resource[r]
         /\ resource'[q].pending = resource[q].pending - n
         /\ resource'[q].active = resource[q].active
         /\ resource'[q].cursor = resource[q].cursor
         /\ resource'[q].pendingCursor = resource[q].pendingCursor
<1>0. table \in Resources \cup {NoResource}
  BY DEF IInv, TypeOK
<1>1. q \in Resources /\ n \in Nat /\ b[Max(Updates(b))].resource = q
  BY <1>0, UpdatesOfTable
<1>2. resource' = [resource EXCEPT ![q].pending = resource[q].pending - n]
  BY <1>1 DEF Done
<1>3. resource[q].pending - n \in Nat
  BY <1>1, Types
<1> QED BY <1>1, <1>2, <1>3, Types DEF ResourceRecord

LEMMA DropCallbackKeeps == ASSUME IInv, NEW i \in Inputs, DropCallback(i) PROVE IInv'
<1>0. /\ cur[i] \in Seq(Event) /\ Len(cur[i]) = 1 /\ pc[i] = "callback"
      /\ Updates(cur[i]) = {1} /\ cur[i][1].resource = table /\ table \in Resources
  <2>1. cur[i][1].resource # NoResource /\ pc[i] = "callback"
    BY DEF DropCallback, IInv, CallShape
  <2> QED BY <2>1, AtHand, RefIsTable
<1>1. PICK q \in Resources : q = table
  BY <1>0
<1>2. /\ pc' = [pc EXCEPT ![i] = "release"]
      /\ UNCHANGED <<dropping, closed, table, gc, ref, pos, cur, data, queue, ack, executed, delivered, last>>
  BY DEF DropCallback, pipeline
<1>3. Cardinality(Updates(cur[i])) = 1
  BY <1>0, FS_Singleton
<1>4. /\ \A r \in Resources : InCalls(r)' = InCalls(r)
      /\ \A r \in Resources : Calls(r)' = Calls(r) \ {i}
      /\ \A r \in Resources \ {q} : i \notin Calls(r)
      /\ i \in Calls(q)
  <2>1. \A r \in Resources : InCalls(r)' = InCalls(r) /\ InCalls(r) \subseteq Inputs
    BY <1>2 DEF InCalls, Of
  <2>2. pc'[i] = "release" /\ \A j \in Inputs \ {i} : pc'[j] = pc[j]
    BY <1>2, Types DEF VarTypes
  <2>3. \A r \in Resources : Calls(r)' = {j \in InCalls(r)' : pc'[j] # "release"}
    BY DEF Calls
  <2>4. \A r \in Resources : Calls(r)' = Calls(r) \ {i}
    BY <2>1, <2>2, <2>3 DEF Calls
  <2>5. \A r \in Resources : i \in InCalls(r) <=> r = q
    BY <1>0, <1>1, OneEvent DEF InCalls
  <2>6. pc[i] # "release"
    BY <1>0
  <2> QED BY <2>1, <2>4, <2>5, <2>6 DEF Calls
<1>5. /\ IsFiniteSet(Calls(q)) /\ Cardinality(Calls(q)) \in Nat
      /\ Cardinality(InACKers(q)) \in Nat /\ Cardinality(Executing(q)) \in Nat
  BY Types, Counts DEF CountFact
<1>6. Cardinality(Calls(q)') = Cardinality(Calls(q)) - 1 /\ Cardinality(Calls(q)) # 0
  BY <1>4, <1>5, FS_RemoveElement, FS_EmptySet
<1>7. resource[q].active >= 1
  <2>1. resource[q].active = ActiveCount(q)
    BY Counted
  <2> QED BY <1>5, <1>6, <2>1 DEF ActiveCount
<1>8. /\ persist' \in Positions \cup {NoKey}
      /\ resource' \in [Resources -> ResourceRecord]
      /\ \A r \in Resources : resource'[r].pending = resource[r].pending
      /\ \A r \in Resources \ {q} : resource'[r].active = resource[r].active
      /\ resource'[q].active = resource[q].active - 1
      /\ IF resource[q].active = 1
         THEN resource'[q].cursor = resource[q].pendingCursor
         ELSE resource'[q].pendingCursor = resource[q].pendingCursor
  <2>1. Execute(cur[i]) /\ Updates(cur[i]) # {}
    BY <1>0 DEF DropCallback
  <2>2. \A k \in DOMAIN cur[i] : cur[i][k].resource \in {NoResource, table}
    BY FlightOfTable
  <2>3. PICK n \in Nat : n = 1
    OBVIOUS
  <2>4. n = Cardinality(Updates(cur[i])) /\ n <= resource[table].active
    BY <1>1, <1>3, <1>7, <2>3, Types
  <2>5. cur[i] \in Seq(Event)
    BY <1>0
  <2>6. /\ persist' \in Positions \cup {NoKey}
        /\ resource' \in [Resources -> ResourceRecord]
        /\ \A r \in Resources : resource'[r].pending = resource[r].pending
        /\ \A r \in Resources \ {q} : resource'[r].active = resource[r].active
        /\ resource'[q].active = resource[q].active - n
        /\ IF resource[q].active = n
           THEN resource'[q].cursor = resource[q].pendingCursor
           ELSE resource'[q].pendingCursor = resource[q].pendingCursor
    BY <1>1, <2>1, <2>2, <2>4, <2>5, ExecuteEffect
  <2> QED BY <2>3, <2>6
<1>9. VarTypes' /\ TypeOK'
  BY <1>2, <1>8 DEF IInv, TypeOK, VarTypes, ResourceRecord
<1>10. ASSUME NEW r \in Resources \ {q} PROVE SameRefs(r)
  <2>1. InCalls(r)' = InCalls(r) /\ Calls(r)' = Calls(r)
    BY <1>4
  <2> QED BY <2>1, <1>2, <1>8, SameOthers DEF SameRefs
<1>11. resource'[q].active = ActiveCount(q)' /\ resource'[q].pending = PendingCount(q)'
  <2>1. /\ InACKers(q)' = InACKers(q) /\ InCalls(q)' = InCalls(q) /\ Of(ack, q)' = Of(ack, q)
        /\ Executing(q)' = Executing(q) /\ Holders(q)' = Holders(q)
    BY <1>2, <1>4, SameOthers
  <2>2. ActiveCount(q)' = ActiveCount(q) - 1 /\ PendingCount(q)' = PendingCount(q)
    BY <1>5, <1>6, <2>1 DEF ActiveCount, PendingCount
  <2> QED BY <1>8, <2>2, Counted
<1>12. PendingIsExact' /\ \A r \in Resources \ {q} : Unused(r)' = Unused(r)
  BY <1>10, <1>11, CountedNext
<1>13. UsedIsKept'
  BY <1>1, <1>2, <1>9, <1>12, UsedStays
<1>14. CallShape'
  BY <1>0, <1>2, Types DEF IInv, CallShape, VarTypes
<1>15. BatchShape' /\ CleanShape' /\ LastShape'
  BY <1>2, <1>8, CleanStays DEF IInv, BatchShape, Updates, LastShape
<1>16. InMemoryIsLast'
  BY <1>1, <1>2, <1>7, <1>8, ExecuteInMemory
<1> QED BY <1>9, <1>12, <1>13, <1>14, <1>15, <1>16 DEF IInv

LEMMA DropDoneKeeps == ASSUME IInv, NEW i \in Inputs, DropDone(i) PROVE IInv'
<1>0. /\ cur[i] \in Seq(Event) /\ Len(cur[i]) = 1 /\ pc[i] = "release" /\ gc = NoResource
      /\ Updates(cur[i]) = {1} /\ cur[i][1].resource = table /\ table \in Resources
  <2>1. cur[i][1].resource # NoResource /\ pc[i] = "release"
    BY DEF DropDone, IInv, CallShape
  <2> QED BY <2>1, AtHand, RefIsTable, CleanWaits
<1>1. PICK q \in Resources : q = table
  BY <1>0
<1>2. /\ pc' = [pc EXCEPT ![i] = "running"] /\ cur' = [cur EXCEPT ![i] = <<>>]
      /\ UNCHANGED <<dropping, closed, persist, table, gc, ref, pos, data, queue, ack, executed, delivered, last>>
  BY DEF DropDone, pipeline
<1>3. Cardinality(Updates(cur[i])) = 1
  BY <1>0, FS_Singleton
<1>4. ASSUME NEW r \in Resources
      PROVE  /\ InCalls(r)' = InCalls(r) \ {i} /\ Calls(r)' = Calls(r)
             /\ i \in InCalls(r) <=> r = q
  <2>1. /\ InCalls(r)' = InCalls(r) \ {i} /\ Calls(r)' = Calls(r) \ {i}
        /\ i \in InCalls(r) <=> cur[i][1].resource = r
        /\ i \in Calls(r) <=> cur[i][1].resource = r /\ pc[i] # "release"
    BY <1>0, <1>2, CallEnds
  <2>2. i \notin Calls(r)
    BY <2>1, <1>0
  <2> QED BY <2>1, <2>2, <1>0, <1>1
<1>5. /\ IsFiniteSet(InCalls(q)) /\ Cardinality(InCalls(q)) \in Nat
      /\ Cardinality(InACKers(q)) \in Nat /\ Cardinality(Of(ack, q)) \in Nat
      /\ Cardinality(Holders(q)) \in Nat
  BY Types, Counts DEF CountFact
<1>6. Cardinality(InCalls(q)') = Cardinality(InCalls(q)) - 1 /\ Cardinality(InCalls(q)) # 0
  BY <1>4, <1>5, FS_RemoveElement, FS_EmptySet
<1>7. resource[q].pending >= 1
  <2>1. resource[q].pending = PendingCount(q)
    BY Counted
  <2> QED BY <1>5, <1>6, <2>1 DEF PendingCount
<1>8. /\ resource' \in [Resources -> ResourceRecord]
      /\ \A r \in Resources \ {q} : resource'[r] = resource[r]
      /\ resource'[q].pending = resource[q].pending - 1
      /\ resource'[q].active = resource[q].active
      /\ resource'[q].cursor = resource[q].cursor
      /\ resource'[q].pendingCursor = resource[q].pendingCursor
  <2>1. Done(cur[i]) /\ Updates(cur[i]) # {}
    BY <1>0 DEF DropDone
  <2>2. \A k \in DOMAIN cur[i] : cur[i][k].resource \in {NoResource, table}
    BY FlightOfTable
  <2>3. PICK n \in Nat : n = 1
    OBVIOUS
  <2>4. n = Cardinality(Updates(cur[i])) /\ n <= resource[table].pending
    BY <1>1, <1>3, <1>7, <2>3, Types
  <2>5. cur[i] \in Seq(Event)
    BY <1>0
  <2>6. /\ resource' \in [Resources -> ResourceRecord]
        /\ \A r \in Resources \ {q} : resource'[r] = resource[r]
        /\ resource'[q].pending = resource[q].pending - n
        /\ resource'[q].active = resource[q].active
        /\ resource'[q].cursor = resource[q].cursor
        /\ resource'[q].pendingCursor = resource[q].pendingCursor
    BY <1>1, <2>1, <2>2, <2>4, <2>5, DoneEffect
  <2> QED BY <2>3, <2>6
<1>9. VarTypes' /\ TypeOK'
  <2>1. VarTypes'
    BY <1>2, Types DEF VarTypes
  <2>2. TypeOK'
    BY <1>2, <1>8, <2>1 DEF IInv, TypeOK, VarTypes, ResourceRecord
  <2> QED BY <2>1, <2>2
<1>10. ASSUME NEW r \in Resources \ {q} PROVE SameRefs(r)
  <2>1. InCalls(r)' = InCalls(r) /\ Calls(r)' = Calls(r)
    BY <1>4
  <2> QED BY <2>1, <1>2, <1>8, SameOthers DEF SameRefs
<1>11. resource'[q].active = ActiveCount(q)' /\ resource'[q].pending = PendingCount(q)'
  <2>1. /\ InACKers(q)' = InACKers(q) /\ Calls(q)' = Calls(q) /\ Of(ack, q)' = Of(ack, q)
        /\ Executing(q)' = Executing(q) /\ Holders(q)' = Holders(q)
    BY <1>2, <1>4, SameOthers
  <2>2. ActiveCount(q)' = ActiveCount(q) /\ PendingCount(q)' = PendingCount(q) - 1
    BY <1>5, <1>6, <2>1 DEF ActiveCount, PendingCount
  <2> QED BY <1>8, <2>2, Counted
<1>12. PendingIsExact' /\ \A r \in Resources \ {q} : Unused(r)' = Unused(r)
  BY <1>10, <1>11, CountedNext
<1>13. UsedIsKept'
  BY <1>1, <1>2, <1>9, <1>12, UsedStays
<1>14. CallShape'
  BY <1>0, <1>2, Types DEF IInv, CallShape, VarTypes
<1>15. BatchShape' /\ CleanShape' /\ LastShape'
  BY <1>0, <1>2 DEF IInv, BatchShape, Updates, CleanShape, LastShape
<1>16. InMemoryIsLast'
  BY <1>1, <1>2, <1>8 DEF IInv, InMemoryIsLast, InMemory
<1> QED BY <1>9, <1>12, <1>13, <1>14, <1>15, <1>16 DEF IInv

\* The batch of the ACK goroutine.
LEMMA BatchAtHand ==
  ASSUME IInv, ack # <<>>, NEW q, q = table
  PROVE  /\ ack \in Seq(Event) /\ q \in Resources /\ Updates(ack) # {}
         /\ \A k \in DOMAIN ack : ack[k].resource \in {NoResource, table}
         /\ Updates(ack) = Of(ack, q)
         /\ Cardinality(Of(ack, q)) \in Nat /\ Cardinality(Of(ack, q)) > 0
         /\ \A r \in Resources \ {q} : Of(ack, r) = {}
         /\ Cardinality(Of(ack, q)) <= resource[q].pending
         /\ ~executed => Cardinality(Of(ack, q)) <= resource[q].active
<1>1. ack \in Seq(Event) /\ Updates(ack) # {} /\ table \in Resources \cup {NoResource}
  BY DEF IInv, TypeOK, BatchShape
<1>2. \A k \in DOMAIN ack : ack[k].resource \in {NoResource, table}
  BY FlightOfTable
<1>3. /\ q \in Resources /\ Updates(ack) = Of(ack, q)
      /\ Cardinality(Of(ack, q)) \in Nat /\ Cardinality(Of(ack, q)) > 0
  BY <1>1, <1>2, UpdatesOfTable
<1>4. \A r \in Resources \ {q} : Of(ack, r) = {}
  BY <1>2, CursorAssumption DEF Of
<1>5. /\ Cardinality(InACKers(q)) \in Nat /\ Cardinality(InCalls(q)) \in Nat
      /\ Cardinality(Calls(q)) \in Nat /\ Cardinality(Holders(q)) \in Nat
  BY <1>3, Types, Counts DEF CountFact
<1>6. resource[q].active = ActiveCount(q) /\ resource[q].pending = PendingCount(q)
  BY <1>3, Counted
<1>7. Cardinality(Of(ack, q)) <= resource[q].pending
  BY <1>3, <1>5, <1>6 DEF PendingCount
<1>8. ~executed => Cardinality(Of(ack, q)) <= resource[q].active
  BY <1>3, <1>5, <1>6 DEF ActiveCount, Executing
<1> QED BY <1>1, <1>2, <1>3, <1>4, <1>7, <1>8

LEMMA ACKCallbackKeeps == ASSUME IInv, ACKCallback PROVE IInv'
<1>1. PICK q : q = table
  OBVIOUS
<1>2. /\ ack # <<>> /\ ~executed /\ executed'
      /\ UNCHANGED <<dropping, closed, table, gc, pc, ref, pos, cur, data, queue, ack, delivered, last>>
  BY DEF ACKCallback, inputs
<1>3. /\ ack \in Seq(Event) /\ q \in Resources /\ Updates(ack) # {} /\ Updates(ack) = Of(ack, q)
      /\ \A k \in DOMAIN ack : ack[k].resource \in {NoResource, table}
      /\ Cardinality(Of(ack, q)) \in Nat /\ Cardinality(Of(ack, q)) > 0
      /\ \A r \in Resources \ {q} : Of(ack, r) = {}
      /\ Cardinality(Of(ack, q)) <= resource[q].active
  BY <1>1, <1>2, BatchAtHand
<1>4. PICK n \in Nat : n = Cardinality(Of(ack, q))
  BY <1>3
<1>5. /\ persist' \in Positions \cup {NoKey}
      /\ resource' \in [Resources -> ResourceRecord]
      /\ \A r \in Resources : resource'[r].pending = resource[r].pending
      /\ \A r \in Resources \ {q} : resource'[r].active = resource[r].active
      /\ resource'[q].active = resource[q].active - n
      /\ IF resource[q].active = n
         THEN resource'[q].cursor = resource[q].pendingCursor
         ELSE resource'[q].pendingCursor = resource[q].pendingCursor
  <2>1. Execute(ack)
    BY DEF ACKCallback
  <2>2. n = Cardinality(Updates(ack)) /\ n <= resource[table].active
    BY <1>1, <1>3, <1>4
  <2> QED BY <1>1, <1>3, <2>1, <2>2, ExecuteEffect
<1>6. VarTypes' /\ TypeOK'
  BY <1>2, <1>5 DEF IInv, TypeOK, VarTypes, ResourceRecord
<1>7. ASSUME NEW r \in Resources
      PROVE  /\ InACKers(r)' = InACKers(r) /\ InCalls(r)' = InCalls(r) /\ Calls(r)' = Calls(r)
             /\ Holders(r)' = Holders(r) /\ Of(ack, r)' = Of(ack, r)
             /\ Executing(r) = Of(ack, r) /\ Executing(r)' = {}
  <2>1. InCalls(r)' = InCalls(r) /\ Of(ack, r)' = Of(ack, r)
    BY <1>2 DEF InCalls, Of
  <2>2. Calls(r)' = Calls(r)
    BY <2>1, <1>2 DEF Calls
  <2>3. Executing(r) = Of(ack, r) /\ Executing(r)' = {}
    BY <1>2 DEF Executing
  <2> QED BY <2>1, <2>2, <2>3, <1>2, SameOthers
<1>8. ASSUME NEW r \in Resources \ {q} PROVE SameRefs(r)
  BY <1>3, <1>5, <1>7 DEF SameRefs
<1>9. resource'[q].active = ActiveCount(q)' /\ resource'[q].pending = PendingCount(q)'
  <2>1. Cardinality(InACKers(q)) \in Nat /\ Cardinality(Calls(q)) \in Nat
    BY <1>3, Types, Counts DEF CountFact
  <2>2. ActiveCount(q) = Cardinality(InACKers(q)) + Cardinality(Calls(q)) + n
    BY <1>3, <1>4, <1>7 DEF ActiveCount
  <2>3. ActiveCount(q)' = Cardinality(InACKers(q)) + Cardinality(Calls(q)) + 0
    BY <1>3, <1>7, FS_EmptySet DEF ActiveCount
  <2>4. PendingCount(q)' = PendingCount(q)
    BY <1>3, <1>7 DEF PendingCount
  <2>5. resource[q].active = ActiveCount(q) /\ resource[q].pending = PendingCount(q)
    BY <1>3, Counted
  <2>6. resource'[q].active = ActiveCount(q)'
    BY <1>5, <2>1, <2>2, <2>3, <2>5
  <2>7. resource'[q].pending = PendingCount(q)'
    BY <1>3, <1>5, <2>4, <2>5
  <2> QED BY <2>6, <2>7
<1>10. PendingIsExact' /\ \A r \in Resources \ {q} : Unused(r)' = Unused(r)
  BY <1>3, <1>8, <1>9, CountedNext
<1>11. UsedIsKept'
  BY <1>1, <1>2, <1>3, <1>6, <1>10, UsedStays
<1>12. CallShape' /\ BatchShape' /\ LastShape'
  BY <1>2 DEF IInv, CallShape, BatchShape, Updates, LastShape
<1>13. CleanShape'
  BY <1>2, <1>5, CleanStays
<1>14. InMemoryIsLast'
  BY <1>1, <1>2, <1>3, <1>4, <1>5, ExecuteInMemory
<1> QED BY <1>6, <1>10, <1>11, <1>12, <1>13, <1>14 DEF IInv

LEMMA ACKDoneKeeps == ASSUME IInv, ACKDone PROVE IInv'
<1>1. PICK q : q = table
  OBVIOUS
<1>2. /\ ack # <<>> /\ executed /\ ~executed' /\ ack' = <<>> /\ executed' = FALSE
      /\ UNCHANGED <<dropping, closed, persist, table, gc, pc, ref, pos, cur, data, queue, delivered, last>>
  BY DEF ACKDone, inputs, IInv, BatchShape
<1>3. /\ ack \in Seq(Event) /\ q \in Resources /\ Updates(ack) # {} /\ Updates(ack) = Of(ack, q)
      /\ \A k \in DOMAIN ack : ack[k].resource \in {NoResource, table}
      /\ Cardinality(Of(ack, q)) \in Nat /\ Cardinality(Of(ack, q)) > 0
      /\ \A r \in Resources \ {q} : Of(ack, r) = {}
      /\ Cardinality(Of(ack, q)) <= resource[q].pending
  BY <1>1, <1>2, BatchAtHand
<1>4. PICK n \in Nat : n = Cardinality(Of(ack, q))
  BY <1>3
<1>5. /\ resource' \in [Resources -> ResourceRecord]
      /\ \A r \in Resources \ {q} : resource'[r] = resource[r]
      /\ resource'[q].pending = resource[q].pending - n
      /\ resource'[q].active = resource[q].active
      /\ resource'[q].cursor = resource[q].cursor
      /\ resource'[q].pendingCursor = resource[q].pendingCursor
  <2>1. Done(ack)
    BY DEF ACKDone
  <2>2. n = Cardinality(Updates(ack)) /\ n <= resource[table].pending
    BY <1>1, <1>3, <1>4
  <2> QED BY <1>1, <1>3, <2>1, <2>2, DoneEffect
<1>6. VarTypes' /\ TypeOK'
  <2>1. <<>> \in Seq(Event)
    OBVIOUS
  <2> QED BY <2>1, <1>2, <1>5 DEF IInv, TypeOK, VarTypes, ResourceRecord
<1>7. ASSUME NEW r \in Resources
      PROVE  /\ InACKers(r)' = InACKers(r) /\ InCalls(r)' = InCalls(r) /\ Calls(r)' = Calls(r)
             /\ Holders(r)' = Holders(r) /\ Of(ack, r)' = {}
             /\ Executing(r) = {} /\ Executing(r)' = {}
  <2>1. InCalls(r)' = InCalls(r) /\ Of(ack, r)' = {}
    BY <1>2 DEF InCalls, Of
  <2>2. Calls(r)' = Calls(r)
    BY <2>1, <1>2 DEF Calls
  <2>3. Executing(r) = {} /\ Executing(r)' = {}
    BY <1>2, <2>1 DEF Executing
  <2> QED BY <2>1, <2>2, <2>3, <1>2, SameOthers
<1>8. ASSUME NEW r \in Resources \ {q} PROVE SameRefs(r)
  BY <1>3, <1>5, <1>7 DEF SameRefs
<1>9. resource'[q].active = ActiveCount(q)' /\ resource'[q].pending = PendingCount(q)'
  <2>1. /\ Cardinality(InACKers(q)) \in Nat /\ Cardinality(InCalls(q)) \in Nat
        /\ Cardinality(Holders(q)) \in Nat
    BY <1>3, Types, Counts DEF CountFact
  <2>2. PendingCount(q) = Cardinality(InACKers(q)) + Cardinality(InCalls(q)) + n + Cardinality(Holders(q))
    BY <1>3, <1>4 DEF PendingCount
  <2>3. PendingCount(q)' = Cardinality(InACKers(q)) + Cardinality(InCalls(q)) + 0 + Cardinality(Holders(q))
    BY <1>3, <1>7, FS_EmptySet DEF PendingCount
  <2>4. ActiveCount(q)' = ActiveCount(q)
    BY <1>3, <1>7 DEF ActiveCount
  <2> QED BY <1>3, <1>5, <2>1, <2>2, <2>3, <2>4, Counted
<1>10. PendingIsExact' /\ \A r \in Resources \ {q} : Unused(r)' = Unused(r)
  BY <1>3, <1>8, <1>9, CountedNext
<1>11. UsedIsKept'
  BY <1>1, <1>2, <1>3, <1>6, <1>10, UsedStays
<1>12. CallShape' /\ BatchShape' /\ LastShape'
  BY <1>2 DEF IInv, CallShape, BatchShape, Updates, LastShape
<1>13. CleanShape'
  <2>1. resource[q].pending # 0
    BY <1>3, Types
  <2> QED BY <2>1, <1>1, <1>2 DEF IInv, CleanShape
<1>14. InMemoryIsLast'
  BY <1>1, <1>2, <1>3, <1>5 DEF IInv, InMemoryIsLast, InMemory
<1> QED BY <1>6, <1>10, <1>11, <1>12, <1>13, <1>14 DEF IInv
-----------------------------------------------------------------------------
(***************************************************************************)
(* ACKs.                                                                   *)
(***************************************************************************)

\* A sequence is cut in two.
LEMMA CutInTwo ==
  ASSUME NEW d \in Seq(Event), NEW c \in 0 .. Len(d), NEW r
  PROVE  /\ SubSeq(d, 1, c) \in Seq(Event) /\ SubSeq(d, c + 1, Len(d)) \in Seq(Event)
         /\ Of(SubSeq(d, 1, c), r) = {k \in Of(d, r) : k <= c}
         /\ \A k : k \in Of(SubSeq(d, c + 1, Len(d)), r) <=> k \in Nat /\ k > 0 /\ k + c \in Of(d, r)
<1>0. PICK l \in Nat : l = Len(d)
  OBVIOUS
<1>1. DOMAIN d = 1 .. l /\ c \in 0 .. l
  BY <1>0
<1>2. /\ SubSeq(d, 1, c) \in Seq(Event) /\ DOMAIN SubSeq(d, 1, c) = 1 .. c
      /\ \A k \in 1 .. c : SubSeq(d, 1, c)[k] = d[k]
  <2>1. \A k \in 1 .. c : d[k] \in Event
    BY <1>0, <1>1
  <2> QED BY <1>0, <1>1, <2>1
<1>3. /\ SubSeq(d, c + 1, l) \in Seq(Event) /\ DOMAIN SubSeq(d, c + 1, l) = 1 .. l - c
      /\ \A k \in 1 .. l - c : SubSeq(d, c + 1, l)[k] = d[k + c]
  <2>1. \A k \in c + 1 .. l : d[k] \in Event
    BY <1>0, <1>1
  <2> QED BY <1>0, <1>1, <2>1
<1>4. Of(SubSeq(d, 1, c), r) = {k \in Of(d, r) : k <= c}
  BY <1>1, <1>2 DEF Of
<1>5. ASSUME NEW k PROVE k \in Of(SubSeq(d, c + 1, l), r) <=> k \in Nat /\ k > 0 /\ k + c \in Of(d, r)
  <2>1. k \in Of(SubSeq(d, c + 1, l), r) <=> k \in 1 .. l - c /\ d[k + c].resource = r
    BY <1>3 DEF Of
  <2>2. \A m : m \in Of(d, r) <=> m \in 1 .. l /\ d[m].resource = r
    BY <1>1 DEF Of
  <2>3. k \in 1 .. l - c <=> k \in Nat /\ k > 0 /\ k + c \in 1 .. l
    BY <1>1
  <2> QED BY <2>1, <2>2, <2>3
<1> QED BY <1>0, <1>2, <1>3, <1>4, <1>5

\* What is cut off an ACKer is not counted there any more.
LEMMA CutCounts ==
  ASSUME IInv, NEW i \in Inputs, NEW c \in 0 .. Len(data[i]), NEW b, b = SubSeq(data[i], 1, c),
         data' = [data EXCEPT ![i] = SubSeq(@, c + 1, Len(@))], NEW r \in Resources
  PROVE  /\ IsFiniteSet(InACKers(r)') /\ Cardinality(InACKers(r)') \in Nat
         /\ Cardinality(InACKers(r)) = Cardinality(InACKers(r)') + Cardinality(Of(b, r))
<1> DEFINE B == {<<i, k>> : k \in Of(b, r)}
           A == InACKers(r)
           A1 == InACKers(r)'
<1>0. data[i] \in Seq(Event) /\ c \in Nat /\ \A j \in Inputs : data[j] \in Seq(Event)
  BY Types DEF VarTypes
<1>1. /\ \A j \in Inputs \ {i} : data'[j] = data[j]
      /\ data'[i] = SubSeq(data[i], c + 1, Len(data[i]))
  BY Types DEF VarTypes
<1>2. /\ b \in Seq(Event) /\ Of(b, r) = {k \in Of(data[i], r) : k <= c}
      /\ \A k : k \in Of(data'[i], r) <=> k \in Nat /\ k > 0 /\ k + c \in Of(data[i], r)
  BY <1>0, <1>1, CutInTwo
<1>3. \A j \in Inputs : \A k \in Of(data[j], r) : k \in Nat /\ k > 0
  BY <1>0, BatchTypes DEF Of
<1>4. /\ \A x : x \in A <=> \E j \in Inputs : \E k \in Of(data[j], r) : x = <<j, k>>
      /\ \A x : x \in A1 <=> \E j \in Inputs : \E k \in Of(data'[j], r) : x = <<j, k>>
  <2>1. \A x : x \in A1 <=> \E j \in Inputs : \E k \in Of(data'[j], r) : x = <<j, k>>
    BY DEF InACKers, Of
  <2> QED BY <2>1, QueuedPairs
<1>5. IsFiniteSet(A) /\ Cardinality(A) \in Nat
  BY Types, Counts DEF CountFact
<1>6. IsFiniteSet(Of(b, r)) /\ Cardinality(Of(b, r)) \in Nat
  BY <1>2, OfFinite
<1>7. IsFiniteSet(B) /\ Cardinality(B) = Cardinality(Of(b, r))
  <2> DEFINE f == [k \in Of(b, r) |-> <<i, k>>]
  <2>1. f \in [Of(b, r) -> B]
    OBVIOUS
  <2>2. \A k, m \in Of(b, r) : f[k] = f[m] => k = m
    OBVIOUS
  <2>3. \A x \in B : \E k \in Of(b, r) : f[k] = x
    OBVIOUS
  <2> HIDE DEF f
  <2>4. f \in Injection(Of(b, r), B)
    BY <2>1, <2>2 DEF Injection, IsInjective
  <2>5. f \in Surjection(Of(b, r), B)
    BY <2>1, <2>3 DEF Surjection
  <2> QED BY <2>4, <2>5, <1>6, FS_Surjection
<1>8. B \subseteq A
  <2> SUFFICES ASSUME NEW k \in Of(b, r) PROVE <<i, k>> \in A
    OBVIOUS
  <2>1. k \in Of(data[i], r)
    BY <1>2
  <2> HIDE DEF A
  <2> QED BY <2>1, <1>4
<1>9. IsFiniteSet(A \ B) /\ Cardinality(A \ B) = Cardinality(A) - Cardinality(B)
  <2>1. A \cap B = B
    BY <1>8
  <2> HIDE DEF A, B
  <2>2. IsFiniteSet(A \ B) /\ Cardinality(A \ B) = Cardinality(A) - Cardinality(A \cap B)
    BY <1>5, FS_Difference
  <2> QED BY <2>1, <2>2
<1> HIDE DEF A, A1
<1>10. ASSUME NEW x \in A1
       PROVE  IF x[1] = i THEN <<i, x[2] + c>> \in A \ B /\ x = <<i, x[2]>> /\ x[2] \in Nat
                          ELSE x \in A \ B
  <2>1. PICK j \in Inputs : \E k \in Of(data'[j], r) : x = <<j, k>>
    BY <1>4
  <2>2. PICK k \in Of(data'[j], r) : x = <<j, k>>
    BY <2>1
  <2>3. CASE j = i
    <3>1. k \in Nat /\ k > 0 /\ k + c \in Of(data[i], r)
      BY <2>3, <1>2
    <3>2. <<i, k + c>> \in A
      BY <3>1, <1>4
    <3>3. k + c \notin Of(b, r)
      BY <3>1, <1>0, <1>2
    <3>4. <<i, k + c>> \notin B
      BY <3>3
    <3>5. x[1] = i /\ x[2] = k
      BY <2>2, <2>3
    <3> QED BY <3>1, <3>2, <3>4, <3>5, <2>2, <2>3
  <2>4. CASE j # i
    <3>1. k \in Of(data[j], r)
      BY <2>4, <1>1
    <3>2. x \in A
      BY <3>1, <2>2, <1>4
    <3>3. x[1] # i /\ x \notin B
      BY <2>2, <2>4
    <3> QED BY <3>2, <3>3
  <2> QED BY <2>3, <2>4
<1>11. ASSUME NEW y \in A \ B
       PROVE  IF y[1] = i THEN <<i, y[2] - c>> \in A1 /\ y = <<i, y[2]>> /\ y[2] \in Nat
                          ELSE y \in A1
  <2>1. PICK j \in Inputs : \E k \in Of(data[j], r) : y = <<j, k>>
    BY <1>4
  <2>2. PICK k \in Of(data[j], r) : y = <<j, k>>
    BY <2>1
  <2>3. CASE j = i
    <3>1. k \in Nat /\ k \notin Of(b, r)
      BY <2>2, <2>3, <1>3
    <3>2. k > c
      BY <3>1, <2>3, <1>0, <1>2
    <3>3. k - c \in Nat /\ k - c > 0 /\ (k - c) + c = k
      BY <3>1, <3>2, <1>0
    <3>4. k - c \in Of(data'[i], r)
      BY <3>3, <2>3, <1>2
    <3>5. <<i, k - c>> \in A1
      BY <3>4, <1>4
    <3>6. y[1] = i /\ y[2] = k
      BY <2>2, <2>3
    <3> QED BY <3>1, <3>5, <3>6, <2>2, <2>3
  <2>4. CASE j # i
    <3>1. k \in Of(data'[j], r)
      BY <2>4, <1>1
    <3>2. y \in A1
      BY <3>1, <2>2, <1>4
    <3>3. y[1] # i
      BY <2>2, <2>4
    <3> QED BY <3>2, <3>3
  <2> QED BY <2>3, <2>4
<1>12. IsFiniteSet(A1) /\ Cardinality(A1) = Cardinality(A \ B)
  <2> DEFINE f == [y \in A \ B |-> IF y[1] = i THEN <<i, y[2] - c>> ELSE y]
  <2>1. f \in [A \ B -> A1]
    BY <1>11
  <2>2. ASSUME NEW y \in A \ B, NEW z \in A \ B, f[y] = f[z] PROVE y = z
    <3>1. CASE y[1] = i /\ z[1] = i
      <4>1. <<i, y[2] - c>> = <<i, z[2] - c>>
        BY <3>1, <2>2
      <4>2. y[2] - c = z[2] - c
        BY <4>1
      <4>3. y[2] \in Nat /\ z[2] \in Nat /\ y = <<i, y[2]>> /\ z = <<i, z[2]>>
        BY <3>1, <1>11
      <4>4. y[2] = z[2]
        BY <4>2, <4>3, <1>0
      <4> QED BY <4>3, <4>4
    <3>2. CASE y[1] # i /\ z[1] # i
      BY <3>2, <2>2
    <3>3. CASE y[1] = i /\ z[1] # i
      <4>1. <<i, y[2] - c>> = z
        BY <3>3, <2>2
      <4> QED BY <3>3, <4>1
    <3>4. CASE y[1] # i /\ z[1] = i
      <4>1. y = <<i, z[2] - c>>
        BY <3>4, <2>2
      <4> QED BY <3>4, <4>1
    <3> QED BY <3>1, <3>2, <3>3, <3>4
  <2>3. ASSUME NEW x \in A1 PROVE \E y \in A \ B : f[y] = x
    <3>1. CASE x[1] = i
      <4>1. <<i, x[2] + c>> \in A \ B /\ x = <<i, x[2]>> /\ x[2] \in Nat
        BY <3>1, <1>10
      <4>2. PICK y \in A \ B : y = <<i, x[2] + c>>
        BY <4>1
      <4>3. y[1] = i /\ y[2] = x[2] + c
        BY <4>2
      <4>4. y[2] - c = x[2]
        BY <4>1, <4>3, <1>0
      <4>5. f[y] = <<i, x[2]>>
        BY <4>3, <4>4
      <4> QED BY <4>1, <4>5
    <3>2. CASE x[1] # i
      <4>1. x \in A \ B
        BY <3>2, <1>10
      <4>2. f[x] = x
        BY <3>2, <4>1
      <4> QED BY <4>1, <4>2
    <3> QED BY <3>1, <3>2
  <2> HIDE DEF f
  <2>4. f \in Injection(A \ B, A1)
    BY <2>1, <2>2 DEF Injection, IsInjective
  <2>5. f \in Surjection(A \ B, A1)
    BY <2>1, <2>3 DEF Surjection
  <2> QED BY <2>4, <2>5, <1>9, FS_Surjection
<1>13. Cardinality(A1) \in Nat
  BY <1>12, FS_CardinalityType
<1>14. Cardinality(A) = Cardinality(A1) + Cardinality(Of(b, r))
  BY <1>5, <1>6, <1>7, <1>9, <1>12, <1>13
<1> QED BY <1>12, <1>13, <1>14 DEF A, A1

\* The least of some positions.
LEMMA LeastIsMin ==
  ASSUME NEW n \in Nat, NEW S \in SUBSET (1 .. n), S # {}
  PROVE  Min(S) \in S /\ \A y \in S : Min(S) <= y
<1>1. S \in SUBSET Nat
  OBVIOUS
<1>2. \E m \in S : \A y \in S : m <= y
  BY <1>1, LeastNatural
<1> QED BY <1>2 DEF Min

\* What ACKEvents cuts off is the beginning of the events of one ACKer.
LEMMA ACKEventsCut ==
  ASSUME IInv, NEW i \in Inputs, NEW n, ACKEvents(i, n)
  PROVE  \E c \in 0 .. Len(data[i]) :
            /\ ack' = IF Updates(SubSeq(data[i], 1, c)) = {} THEN <<>> ELSE SubSeq(data[i], 1, c)
            /\ delivered' = delivered \cup {data[i][k].pos : k \in 1 .. c}
            /\ data' = [data EXCEPT ![i] = SubSeq(@, c + 1, Len(@))]
<1> DEFINE waiting == {k \in DOMAIN data[i] :
                          /\ data[i][k].sent
                          /\ Cardinality({j \in 1 .. k : data[i][j].sent}) > n}
           cut == IF waiting = {} THEN Len(data[i]) ELSE Min(waiting) - 1
<1>1. data[i] \in Seq(Event) /\ Len(data[i]) \in Nat /\ DOMAIN data[i] = 1 .. Len(data[i])
  BY Types DEF VarTypes
<1>2. waiting \in SUBSET (1 .. Len(data[i]))
  BY <1>1
<1>3. /\ ack' = IF Updates(SubSeq(data[i], 1, cut)) = {} THEN <<>> ELSE SubSeq(data[i], 1, cut)
      /\ delivered' = delivered \cup {data[i][k].pos : k \in 1 .. cut}
      /\ data' = [data EXCEPT ![i] = SubSeq(@, cut + 1, Len(@))]
  BY DEF ACKEvents
<1> HIDE DEF waiting
<1>4. cut \in 0 .. Len(data[i])
  <2>1. CASE waiting = {}
    BY <2>1, <1>1
  <2>2. CASE waiting # {}
    <3>1. Min(waiting) \in 1 .. Len(data[i])
      BY <2>2, <1>1, <1>2, LeastIsMin
    <3> QED BY <2>2, <3>1, <1>1
  <2> QED BY <2>1, <2>2
<1> HIDE DEF cut
<1> QED BY <1>3, <1>4

LEMMA ACKEventsKeeps == ASSUME IInv, NEW i \in Inputs, NEW n \in Nat, ACKEvents(i, n) PROVE IInv'
<1>0. /\ ack = <<>> /\ executed = FALSE
      /\ queue' = SubSeq(queue, n + 1, Len(queue))
      /\ UNCHANGED <<dropping, closed, persist, table, resource, gc, pc, ref, pos, cur, executed, last>>
  BY DEF ACKEvents, inputs, IInv, BatchShape, TypeOK
<1>1. PICK c \in 0 .. Len(data[i]) :
         /\ ack' = IF Updates(SubSeq(data[i], 1, c)) = {} THEN <<>> ELSE SubSeq(data[i], 1, c)
         /\ delivered' = delivered \cup {data[i][k].pos : k \in 1 .. c}
         /\ data' = [data EXCEPT ![i] = SubSeq(@, c + 1, Len(@))]
  BY ACKEventsCut
<1>2. PICK b : b = SubSeq(data[i], 1, c)
  OBVIOUS
<1>3. /\ data[i] \in Seq(Event) /\ b \in Seq(Event)
      /\ SubSeq(data[i], c + 1, Len(data[i])) \in Seq(Event)
  BY <1>2, Types, CutInTwo DEF VarTypes
<1>4. ack' = IF Updates(b) = {} THEN <<>> ELSE b
  BY <1>1, <1>2
<1>5. VarTypes'
  <2>1. ack' \in Seq(Event)
    BY <1>3, <1>4
  <2>2. data' \in [Inputs -> Seq(Event)]
    BY <1>1, <1>3, Types DEF VarTypes
  <2> QED BY <2>1, <2>2, <1>0, Types DEF VarTypes
<1>6. TypeOK'
  <2>1. delivered' \subseteq Positions
    <3>1. \A k \in 1 .. c : data[i][k].pos \in Positions
      BY <1>3, BatchTypes
    <3> QED BY <3>1, <1>1 DEF IInv, TypeOK
  <2>2. queue' \in Seq(Inputs)
    <3>1. queue \in Seq(Inputs) /\ n + 1 \in Nat /\ n + 1 > 0 /\ Len(queue) \in Nat
      BY DEF IInv, TypeOK
    <3>2. \A k \in n + 1 .. Len(queue) : queue[k] \in Inputs
      BY <3>1
    <3> QED BY <3>1, <3>2, <1>0
  <2> QED BY <2>1, <2>2, <1>0, <1>5 DEF IInv, TypeOK, VarTypes
<1>7. ASSUME NEW r \in Resources
      PROVE  /\ Of(ack, r) = {} /\ Executing(r) = {}
             /\ Of(ack, r)' = Of(b, r) /\ Executing(r)' = Of(b, r)
             /\ InCalls(r)' = InCalls(r) /\ Calls(r)' = Calls(r) /\ Holders(r)' = Holders(r)
  <2>1. Of(ack, r) = {} /\ Executing(r) = {}
    BY <1>0, NoEvent DEF Executing
  <2>2. Of(ack', r) = Of(b, r)
    <3>1. CASE Updates(b) = {}
      <4>1. Of(b, r) = {}
        BY <3>1, CursorAssumption DEF Of, Updates
      <4> QED BY <3>1, <4>1, <1>4, NoEvent
    <3>2. CASE Updates(b) # {}
      BY <3>2, <1>4
    <3> QED BY <3>1, <3>2
  <2>3. Of(ack, r)' = Of(ack', r) /\ Executing(r)' = Of(ack, r)'
    BY <1>0 DEF Of, Executing
  <2>4. InCalls(r)' = InCalls(r)
    BY <1>0 DEF InCalls, Of
  <2>5. Calls(r)' = Calls(r)
    BY <1>0, <2>4 DEF Calls
  <2>6. Holders(r)' = Holders(r)
    BY <1>0 DEF Holders
  <2> QED BY <2>1, <2>2, <2>3, <2>4, <2>5, <2>6
<1>8. ASSUME NEW r \in Resources
      PROVE  /\ IsFiniteSet(InACKers(r)') /\ Cardinality(InACKers(r)') \in Nat
             /\ Cardinality(InACKers(r)) = Cardinality(InACKers(r)') + Cardinality(Of(b, r))
  BY <1>1, <1>2, CutCounts
<1>9. ASSUME NEW r \in Resources
      PROVE  ActiveCount(r)' = ActiveCount(r) /\ PendingCount(r)' = PendingCount(r)
  <2>1. /\ Cardinality(InCalls(r)) \in Nat /\ Cardinality(Calls(r)) \in Nat
        /\ Cardinality(Holders(r)) \in Nat
    BY Types, Counts DEF CountFact
  <2>2. Cardinality(Of(b, r)) \in Nat
    BY <1>3, OfFinite
  <2>3. PICK a \in Nat, m \in Nat : /\ a = Cardinality(InACKers(r)') /\ m = Cardinality(Of(b, r))
                                    /\ Cardinality(InACKers(r)) = a + m
    BY <1>8, <2>2
  <2>4. /\ ActiveCount(r) = (a + m) + Cardinality(Calls(r)) + 0
        /\ PendingCount(r) = (a + m) + Cardinality(InCalls(r)) + 0 + Cardinality(Holders(r))
    BY <2>3, <1>7, FS_EmptySet DEF ActiveCount, PendingCount
  <2>5. /\ ActiveCount(r)' = a + Cardinality(Calls(r)) + m
        /\ PendingCount(r)' = a + Cardinality(InCalls(r)) + m + Cardinality(Holders(r))
    BY <2>3, <1>7 DEF ActiveCount, PendingCount
  <2>6. PICK x \in Nat, y \in Nat, z \in Nat :
           x = Cardinality(Calls(r)) /\ y = Cardinality(InCalls(r)) /\ z = Cardinality(Holders(r))
    BY <2>1
  <2>7. (a + m) + x + 0 = a + x + m /\ (a + m) + y + 0 + z = a + y + m + z
    OBVIOUS
  <2> QED BY <2>4, <2>5, <2>6, <2>7
<1>10. PendingIsExact'
  BY <1>0, <1>9, Counted, ExactNext DEF ExactFact
<1>11. UsedIsKept'
  <2>1. \A r \in Resources : r # table => Unused(r)
    BY Used, Types DEF UsedFact, IInv
  <2>2. ASSUME NEW r \in Resources, r # table PROVE Unused(r)'
    <3>1. Unused(r)
      BY <2>1, <2>2
    <3>2. Cardinality(InACKers(r)) = 0
      BY <3>1, FS_EmptySet DEF Unused
    <3>3. IsFiniteSet(Of(b, r)) /\ Cardinality(Of(b, r)) \in Nat
      BY <1>3, OfFinite
    <3>4. Cardinality(InACKers(r)') = 0 /\ Cardinality(Of(b, r)) = 0
      BY <1>8, <3>2, <3>3
    <3>5. InACKers(r)' = {} /\ Of(b, r) = {}
      BY <1>8, <3>3, <3>4, FS_EmptySet
    <3> QED BY <3>1, <3>5, <1>7 DEF Unused
  <2> QED BY <1>0, <1>5, <2>2, FrameUsed
<1>12. CallShape' /\ CleanShape' /\ LastShape' /\ InMemoryIsLast'
  BY <1>0 DEF IInv, CallShape, CleanShape, LastShape, InMemoryIsLast, InMemory
<1>13. BatchShape'
  <2>1. ack' # <<>> => Updates(ack') # {}
    BY <1>4
  <2> QED BY <2>1, <1>0 DEF BatchShape, Updates
<1> QED BY <1>6, <1>10, <1>11, <1>12, <1>13 DEF IInv
-----------------------------------------------------------------------------
(***************************************************************************)
(* Theorems.                                                               *)
(***************************************************************************)

\* Every step keeps the invariant.
LEMMA NextKeeps == IInv /\ [Next]_vars => IInv'
<1> SUFFICES ASSUME IInv, [Next]_vars PROVE IInv'
  OBVIOUS
<1>1. ASSUME NEW i \in Inputs, InputStep(i) PROVE IInv'
  <2>1. CASE Get(i) BY <2>1, GetKeeps
  <2>2. CASE Wait(i) BY <2>2, WaitKeeps
  <2>3. CASE Lock(i) BY <2>3, LockKeeps
  <2>4. CASE LockCancelled(i) BY <2>4, ReleaseKeeps DEF LockCancelled
  <2>5. CASE UpdateTTL(i) BY <2>5, UpdateTTLKeeps
  <2>6. CASE ReadCursor(i) BY <2>6, ReadCursorKeeps
  <2>7. ASSUME NEW update \in BOOLEAN, Publish(i, update) PROVE IInv'
    BY <2>7, PublishKeeps
  <2>8. CASE Forward(i) BY <2>8, ForwardKeeps
  <2>9. CASE ForwardDropped(i) BY <2>9, ForwardDroppedKeeps
  <2>10. CASE DropCallback(i) BY <2>10, DropCallbackKeeps
  <2>11. CASE DropDone(i) BY <2>11, DropDoneKeeps
  <2>12. CASE Unlock(i) BY <2>12, UnlockKeeps
  <2>13. CASE Release(i) BY <2>13, ReleaseKeeps DEF Release
  <2>14. CASE Forget(i) BY <2>14, ForgetKeeps
  <2> QED BY <1>1, <2>1, <2>2, <2>3, <2>4, <2>5, <2>6, <2>7, <2>8, <2>9, <2>10, <2>11, <2>12,
             <2>13, <2>14 DEF InputStep
<1>2. ASSUME NEW i \in Inputs, NEW n \in 1 .. MaxEvents, ACKEvents(i, n) PROVE IInv'
  <2>1. n \in Nat
    BY CursorAssumption
  <2> QED BY <1>2, <2>1, ACKEventsKeeps
<1>3. CASE ACKCallback BY <1>3, ACKCallbackKeeps
<1>4. CASE ACKDone BY <1>4, ACKDoneKeeps
<1>5. CASE GCFind BY <1>5, GCFindKeeps
<1>6. CASE GCClean BY <1>6, GCCleanKeeps
<1>7. CASE Shutdown BY <1>7, ShutdownKeeps
<1>8. CASE Restart BY <1>8, RestartKeeps
<1>9. CASE UNCHANGED vars BY <1>9, StutterKeeps
<1> QED BY <1>1, <1>2, <1>3, <1>4, <1>5, <1>6, <1>7, <1>8, <1>9 DEF Next, ACKStep

\* The invariant holds for all inputs, resources and positions, whatever the
\* pipeline drops and wherever the process ends.
THEOREM InductiveInvariant == Spec => []IInv
  BY InitKeeps, NextKeeps, PTL DEF Spec

\* Neither the references of a resource nor its operations in flight go below
\* zero, and its cursor is always that of an event.
THEOREM TypeCorrect == Spec => []TypeOK
  <1>1. IInv => TypeOK
    BY DEF IInv
  <1> QED BY <1>1, InductiveInvariant, PTL

\* resource.pending and activeCursorOperations are what they should count, in
\* every interleaving of createUpdateOp, Execute, releases and the cleaner.
THEOREM PendingExact == Spec => []PendingIsExact
  <1>1. IInv => PendingIsExact
    BY DEF IInv
  <1> QED BY <1>1, InductiveInvariant, PTL

\* The cleaner removes no resource that an input holds or an update in flight is
\* for, and no second resource for the key is made while there is one.
THEOREM UsedKept == Spec => []UsedIsKept
  <1>1. IInv => UsedIsKept
    BY DEF IInv
  <1> QED BY <1>1, InductiveInvariant, PTL

\* What an input reads of the cursor when it starts is the last update that was
\* published for the source, whichever of them are executed by then.
THEOREM LastRead == Spec => []InMemoryIsLast
  <1>1. IInv => InMemoryIsLast
    BY DEF IInv
  <1> QED BY <1>1, InductiveInvariant, PTL
-----------------------------------------------------------------------------
(***************************************************************************)
(* The order of the events, without drops.  What is in flight stands in a  *)
(* line: the batch at hand, the events in the pipeline, the event of the   *)
(* call.                                                                   *)
(***************************************************************************)

\* What matters of an event.
Entry == [pos : Positions, update : BOOLEAN]
Flat(e) == [pos |-> e.pos, update |-> e.resource # NoResource]

\* Positions up to x are delivered, or behind the first a and among the first z
\* of the line.
Reached(x, D, line, a, z) == \A p \in 1 .. x : p \in D \/ \E j \in a + 1 .. z : line[j].pos = p

\* The updates grow along the line, ...
Grows(line) ==
    \A m, l \in 1 .. Len(line) : m < l /\ line[m].update /\ line[l].update => line[m].pos < line[l].pos

\* ... they are behind the cursor c, unless they are executed (the first a, if ex),
\* and not behind the last one.
Between(line, a, ex, c, lst) ==
    \A m \in 1 .. Len(line) :
        line[m].update => line[m].pos <= lst /\ (m > a \/ ~ex => c < line[m].pos)

\* What is before an event is delivered or before it in the line.
NoGap(line, a, D) == \A m \in 1 .. Len(line) : Reached(line[m].pos, D, line, a, m)

\* The last update is executed or in the line.
HasLast(line, a, ex, c, lst) ==
    c = lst \/ \E m \in 1 .. Len(line) : line[m].update /\ (m > a \/ ~ex) /\ line[m].pos = lst

Flow(line, a, ex, lst, c, D) ==
    /\ Grows(line) /\ Between(line, a, ex, c, lst) /\ NoGap(line, a, D)
    /\ HasLast(line, a, ex, c, lst)
    /\ Reached(lst, D, line, a, Len(line))
    /\ c <= lst /\ 1 .. c \subseteq D

\* Nothing has an update between a and z.
NoUpdates(line, a, z) == \A m \in a + 1 .. z : ~line[m].update

\* rest is what is behind the first a of the line.
Behind(rest, line, a) == /\ Len(rest) = Len(line) - a
                         /\ \A m \in 1 .. Len(rest) : rest[m] = line[a + m]

\* What the inputs have reached is reached after the step too.
Carries(D, line, a, D2, line2, a2) ==
    \A x \in Nat : Reached(x, D, line, a, Len(line)) => Reached(x, D2, line2, a2, Len(line2))

\* The entries of a line.
LEMMA Entries ==
  ASSUME NEW line \in Seq(Entry)
  PROVE  /\ Len(line) \in Nat /\ DOMAIN line = 1 .. Len(line)
         /\ \A m \in 1 .. Len(line) : /\ line[m] \in Entry /\ line[m].pos \in Positions
                                      /\ line[m].pos \in Nat /\ line[m].update \in BOOLEAN
<1>1. Len(line) \in Nat /\ DOMAIN line = 1 .. Len(line)
  OBVIOUS
<1>2. \A m \in 1 .. Len(line) : line[m] \in Entry
  OBVIOUS
<1>3. \A m \in 1 .. Len(line) : line[m].pos \in Positions /\ line[m].update \in BOOLEAN
  BY <1>2 DEF Entry
<1>4. Positions \subseteq Nat
  BY CursorAssumption DEF Positions
<1> QED BY <1>1, <1>2, <1>3, <1>4

\* Publish appends to the line.
LEMMA FlowAppend ==
  ASSUME NEW line \in Seq(Entry), NEW a \in 0 .. Len(line), NEW ex \in BOOLEAN,
         NEW lst \in Nat, NEW c \in Nat, NEW D, Flow(line, a, ex, lst, c, D),
         NEW x \in Nat, x + 1 \in Positions, lst <= x, Reached(x, D, line, a, Len(line)),
         NEW u \in BOOLEAN, NEW e \in Entry, e.pos = x + 1, e.update = u,
         NEW lst2, lst2 = IF u THEN x + 1 ELSE lst
  PROVE  /\ Append(line, e) \in Seq(Entry) /\ a \in 0 .. Len(Append(line, e))
         /\ Flow(Append(line, e), a, ex, lst2, c, D)
         /\ Reached(x + 1, D, Append(line, e), a, Len(Append(line, e)))
         /\ lst2 <= x + 1
<1>0. PICK N \in Nat : N = Len(line)
  BY Entries
<1>a. Append(line, e) \in Seq(Entry)
  OBVIOUS
<1>1. PICK new \in Seq(Entry) : new = Append(line, e)
  BY <1>a
<1>2. Len(new) = N + 1 /\ new[N + 1] = e /\ \A m \in 1 .. N : new[m] = line[m]
  BY <1>0, <1>1
<1>3. \A m \in 1 .. N : line[m].pos \in Nat /\ line[m].update \in BOOLEAN
  BY <1>0, Entries
<1>4. \A m \in 1 .. N : line[m].update => line[m].pos <= lst
  BY <1>0 DEF Flow, Between
<1>5. lst2 \in Nat /\ lst <= lst2 /\ lst2 <= x + 1 /\ c <= lst
  BY DEF Flow
<1>6. Grows(new)
  <2> SUFFICES ASSUME NEW m \in 1 .. N + 1, NEW l \in 1 .. N + 1, m < l, new[m].update, new[l].update
               PROVE  new[m].pos < new[l].pos
    BY <1>2 DEF Grows
  <2>1. m \in 1 .. N
    OBVIOUS
  <2>2. CASE l = N + 1
    BY <2>1, <2>2, <1>2, <1>3, <1>4
  <2>3. CASE l # N + 1
    <3>1. l \in 1 .. N
      BY <2>3
    <3> QED BY <2>1, <3>1, <1>0, <1>2 DEF Flow, Grows
  <2> QED BY <2>2, <2>3
<1>7. Between(new, a, ex, c, lst2)
  <2> SUFFICES ASSUME NEW m \in 1 .. N + 1, new[m].update
               PROVE  new[m].pos <= lst2 /\ (m > a \/ ~ex => c < new[m].pos)
    BY <1>2 DEF Between
  <2>1. CASE m = N + 1
    BY <2>1, <1>2, <1>5
  <2>2. CASE m # N + 1
    <3>1. m \in 1 .. N /\ new[m] = line[m]
      BY <2>2, <1>2
    <3>2. line[m].pos <= lst /\ (m > a \/ ~ex => c < line[m].pos)
      BY <3>1, <1>0 DEF Flow, Between
    <3> QED BY <3>1, <3>2, <1>3, <1>5
  <2> QED BY <2>1, <2>2
<1>8. ASSUME NEW y \in Nat, NEW z \in 0 .. N, Reached(y, D, line, a, z) PROVE Reached(y, D, new, a, z)
  <2> SUFFICES ASSUME NEW p \in 1 .. y, p \notin D PROVE \E j \in a + 1 .. z : new[j].pos = p
    BY DEF Reached
  <2>1. PICK j \in a + 1 .. z : line[j].pos = p
    BY <1>8 DEF Reached
  <2>2. j \in 1 .. N
    BY <1>0
  <2> QED BY <2>1, <2>2, <1>2
<1>9. Reached(x, D, new, a, N)
  BY <1>0, <1>8
<1>10. Reached(x + 1, D, new, a, N + 1)
  <2> SUFFICES ASSUME NEW p \in 1 .. x + 1, p \notin D PROVE \E j \in a + 1 .. N + 1 : new[j].pos = p
    BY DEF Reached
  <2>1. CASE p = x + 1
    <3>1. N + 1 \in a + 1 .. N + 1
      BY <1>0
    <3> QED BY <2>1, <3>1, <1>2
  <2>2. CASE p # x + 1
    <3>1. p \in 1 .. x
      BY <2>2
    <3>2. PICK j \in a + 1 .. N : new[j].pos = p
      BY <3>1, <1>9 DEF Reached
    <3> QED BY <3>2
  <2> QED BY <2>1, <2>2
<1>11. NoGap(new, a, D)
  <2> SUFFICES ASSUME NEW m \in 1 .. N + 1 PROVE Reached(new[m].pos, D, new, a, m)
    BY <1>2 DEF NoGap
  <2>1. CASE m = N + 1
    BY <2>1, <1>2, <1>10
  <2>2. CASE m # N + 1
    <3>1. m \in 1 .. N /\ m \in 0 .. N /\ new[m] = line[m] /\ line[m].pos \in Nat
      BY <2>2, <1>2, <1>3
    <3>2. Reached(line[m].pos, D, line, a, m)
      BY <3>1, <1>0 DEF Flow, NoGap
    <3> QED BY <3>1, <3>2, <1>8
  <2> QED BY <2>1, <2>2
<1>12. HasLast(new, a, ex, c, lst2)
  <2>1. CASE u = TRUE
    <3>1. N + 1 \in 1 .. N + 1 /\ N + 1 > a
      BY <1>0
    <3>2. new[N + 1].update /\ new[N + 1].pos = lst2
      BY <2>1, <1>2
    <3> QED BY <3>1, <3>2, <1>2 DEF HasLast
  <2>2. CASE u = FALSE
    <3>1. lst2 = lst
      BY <2>2
    <3>2. CASE c = lst
      BY <3>1, <3>2 DEF HasLast
    <3>3. CASE c # lst
      <4>1. PICK m \in 1 .. N : line[m].update /\ (m > a \/ ~ex) /\ line[m].pos = lst
        BY <3>3, <1>0 DEF Flow, HasLast
      <4>2. m \in 1 .. N + 1 /\ new[m] = line[m]
        BY <1>2
      <4> QED BY <3>1, <4>1, <4>2, <1>2 DEF HasLast
    <3> QED BY <3>2, <3>3
  <2> QED BY <2>1, <2>2
<1>13. Reached(lst2, D, new, a, N + 1)
  <2> SUFFICES ASSUME NEW p \in 1 .. lst2, p \notin D PROVE \E j \in a + 1 .. N + 1 : new[j].pos = p
    BY DEF Reached
  <2>1. p \in 1 .. x + 1
    BY <1>5
  <2> QED BY <2>1, <1>10 DEF Reached
<1>14. Flow(new, a, ex, lst2, c, D)
  <2>1. 1 .. c \subseteq D
    BY DEF Flow
  <2>2. c <= lst2
    BY <1>5
  <2> QED BY <2>1, <2>2, <1>2, <1>6, <1>7, <1>11, <1>12, <1>13 DEF Flow
<1>15. a \in 0 .. Len(new)
  BY <1>0, <1>2
<1> QED BY <1>1, <1>2, <1>5, <1>10, <1>14, <1>15

\* The first n events of the line are ACKed and become the batch.
LEMMA FlowDelivered ==
  ASSUME NEW line \in Seq(Entry), NEW lst \in Nat, NEW c \in Nat, NEW D,
         Flow(line, 0, FALSE, lst, c, D), NEW n \in 0 .. Len(line),
         NEW D2, D2 = D \cup {line[j].pos : j \in 1 .. n}
  PROVE  /\ Flow(line, n, FALSE, lst, c, D2)
         /\ Carries(D, line, 0, D2, line, n)
<1>0. PICK N \in Nat : N = Len(line)
  BY Entries
<1>1. ASSUME NEW x \in Nat, NEW z \in 0 .. N, Reached(x, D, line, 0, z) PROVE Reached(x, D2, line, n, z)
  <2> SUFFICES ASSUME NEW p \in 1 .. x, p \notin D2 PROVE \E j \in n + 1 .. z : line[j].pos = p
    BY DEF Reached
  <2>1. p \notin D
    OBVIOUS
  <2>2. PICK j \in 0 + 1 .. z : line[j].pos = p
    BY <1>1, <2>1 DEF Reached
  <2>3. j \notin 1 .. n
    BY <2>2
  <2>4. j \in n + 1 .. z
    BY <2>3
  <2> QED BY <2>2, <2>4
<1>2. \A m \in 1 .. N : line[m].pos \in Nat
  BY <1>0, Entries
<1>3. NoGap(line, n, D2)
  BY <1>0, <1>1, <1>2 DEF NoGap, Flow
<1>4. Between(line, n, FALSE, c, lst) /\ HasLast(line, n, FALSE, c, lst)
  BY DEF Flow, Between, HasLast
<1>5. Reached(lst, D2, line, n, N)
  BY <1>0, <1>1 DEF Flow
<1>6. Grows(line) /\ c <= lst /\ 1 .. c \subseteq D2
  BY DEF Flow
<1>7. Flow(line, n, FALSE, lst, c, D2)
  BY <1>0, <1>3, <1>4, <1>5, <1>6 DEF Flow
<1>8. \A x \in Nat : Reached(x, D, line, 0, N) => Reached(x, D2, line, n, N)
  BY <1>1
<1> QED BY <1>0, <1>7, <1>8 DEF Carries

\* The batch of the first a is done: the line begins behind it.
LEMMA FlowTail ==
  ASSUME NEW line \in Seq(Entry), NEW a \in 0 .. Len(line), NEW ex \in BOOLEAN,
         NEW lst \in Nat, NEW c \in Nat, NEW D, Flow(line, a, ex, lst, c, D),
         ex \/ NoUpdates(line, 0, a),
         NEW rest, rest = SubSeq(line, a + 1, Len(line))
  PROVE  /\ rest \in Seq(Entry) /\ Behind(rest, line, a)
         /\ Flow(rest, 0, FALSE, lst, c, D)
         /\ Carries(D, line, a, D, rest, 0)
<1>0. PICK N \in Nat : N = Len(line)
  BY Entries
<1>1. a \in Nat /\ a <= N /\ N - a \in Nat
  BY <1>0
<1>2. rest \in Seq(Entry) /\ Len(rest) = N - a /\ \A m \in 1 .. N - a : rest[m] = line[a + m]
  <2>1. \A m \in a + 1 .. N : line[m] \in Entry
    BY <1>0, <1>1, Entries
  <2>2. SubSeq(line, a + 1, N) \in Seq(Entry)
    BY <1>0, <1>1, <2>1
  <2>3. Len(SubSeq(line, a + 1, N)) = N - a
    BY <1>0, <1>1
  <2>4. \A m \in 1 .. N - a : SubSeq(line, a + 1, N)[m] = line[a + m]
    BY <1>0, <1>1, <2>3
  <2> QED BY <1>0, <2>2, <2>3, <2>4
<1>3. \A m \in 1 .. N - a : a + m \in 1 .. N /\ a + m > a
  BY <1>1
<1>4. \A m \in 1 .. N : line[m].pos \in Nat /\ line[m].update \in BOOLEAN
  BY <1>0, Entries
<1>5. ASSUME NEW x \in Nat, NEW z \in 0 .. N - a, Reached(x, D, line, a, a + z)
      PROVE  Reached(x, D, rest, 0, z)
  <2> SUFFICES ASSUME NEW p \in 1 .. x, p \notin D PROVE \E j \in 0 + 1 .. z : rest[j].pos = p
    BY DEF Reached
  <2>1. PICK j \in a + 1 .. a + z : line[j].pos = p
    BY <1>5 DEF Reached
  <2>2. j - a \in 0 + 1 .. z /\ j - a \in 1 .. N - a /\ a + (j - a) = j
    BY <1>1
  <2> QED BY <2>1, <2>2, <1>2
<1>6. Grows(rest)
  <2> SUFFICES ASSUME NEW m \in 1 .. N - a, NEW l \in 1 .. N - a, m < l, rest[m].update, rest[l].update
               PROVE  rest[m].pos < rest[l].pos
    BY <1>2 DEF Grows
  <2>1. a + m < a + l
    BY <1>1
  <2> QED BY <2>1, <1>0, <1>2, <1>3 DEF Flow, Grows
<1>7. Between(rest, 0, FALSE, c, lst)
  <2> SUFFICES ASSUME NEW m \in 1 .. N - a, rest[m].update
               PROVE  rest[m].pos <= lst /\ c < rest[m].pos
    BY <1>2 DEF Between
  <2> QED BY <1>0, <1>2, <1>3 DEF Flow, Between
<1>8. NoGap(rest, 0, D)
  <2> SUFFICES ASSUME NEW m \in 1 .. N - a PROVE Reached(rest[m].pos, D, rest, 0, m)
    BY <1>2 DEF NoGap
  <2>1. a + m \in 1 .. N /\ rest[m] = line[a + m] /\ m \in 0 .. N - a /\ line[a + m].pos \in Nat
    BY <1>2, <1>3, <1>4
  <2>2. Reached(line[a + m].pos, D, line, a, a + m)
    BY <2>1, <1>0 DEF Flow, NoGap
  <2> QED BY <2>1, <2>2, <1>5
<1>9. HasLast(rest, 0, FALSE, c, lst)
  <2>1. CASE c = lst
    BY <2>1 DEF HasLast
  <2>2. CASE c # lst
    <3>1. PICK m \in 1 .. N : line[m].update /\ (m > a \/ ~ex) /\ line[m].pos = lst
      BY <2>2, <1>0 DEF Flow, HasLast
    <3>2. m > a
      <4>1. CASE ex
        BY <4>1, <3>1
      <4>2. CASE NoUpdates(line, 0, a)
        <5>1. m \notin 0 + 1 .. a
          BY <4>2, <3>1 DEF NoUpdates
        <5> QED BY <5>1, <1>1
      <4> QED BY <4>1, <4>2
    <3>3. m - a \in 1 .. N - a /\ a + (m - a) = m
      BY <3>2, <1>1
    <3> QED BY <3>1, <3>3, <1>2 DEF HasLast
  <2> QED BY <2>1, <2>2
<1>10. N - a \in 0 .. N - a /\ a + (N - a) = N
  BY <1>1
<1>11. \A x \in Nat : Reached(x, D, line, a, N) => Reached(x, D, rest, 0, N - a)
  BY <1>5, <1>10
<1>12. Reached(lst, D, rest, 0, N - a)
  BY <1>0, <1>11 DEF Flow
<1>13. c <= lst /\ 1 .. c \subseteq D
  BY DEF Flow
<1>14. Flow(rest, 0, FALSE, lst, c, D)
  BY <1>2, <1>6, <1>7, <1>8, <1>9, <1>12, <1>13 DEF Flow
<1>15. Behind(rest, line, a)
  BY <1>0, <1>2 DEF Behind
<1>16. Carries(D, line, a, D, rest, 0)
  BY <1>0, <1>2, <1>11 DEF Carries
<1> QED BY <1>2, <1>14, <1>15, <1>16

\* The batch of the first a is executed, with k its last update.
LEMMA FlowExecute ==
  ASSUME NEW line \in Seq(Entry), NEW a \in 0 .. Len(line),
         NEW lst \in Nat, NEW c \in Nat, NEW D, Flow(line, a, FALSE, lst, c, D),
         NEW k \in 1 .. a, line[k].update, NoUpdates(line, k, a),
         NEW c2, c2 = line[k].pos \/ (c2 = lst /\ NoUpdates(line, a, Len(line)))
  PROVE  c2 \in Nat /\ Flow(line, a, TRUE, lst, c2, D) /\ c <= c2
<1>0. PICK N \in Nat : N = Len(line)
  BY Entries
<1>1. a \in Nat /\ a <= N /\ k \in 1 .. N
  BY <1>0
<1>2. \A m \in 1 .. N : line[m].pos \in Nat /\ line[m].update \in BOOLEAN
  BY <1>0, Entries
<1>3. \A m \in 1 .. N : line[m].update => line[m].pos <= lst /\ c < line[m].pos
  BY <1>0 DEF Flow, Between
<1>4. c # lst
  BY <1>1, <1>2, <1>3
<1>5. PICK l \in 1 .. N : line[l].update /\ line[l].pos = lst
  BY <1>0, <1>4 DEF Flow, HasLast
<1>6. ASSUME NEW m \in 1 .. a PROVE 1 .. line[m].pos \subseteq D
  <2>1. m \in 1 .. N /\ ~ \E j \in a + 1 .. m : TRUE
    BY <1>1
  <2>2. Reached(line[m].pos, D, line, a, m)
    BY <2>1, <1>0 DEF Flow, NoGap
  <2> QED BY <2>1, <2>2 DEF Reached
<1>7. \A m, n \in 1 .. N : m < n /\ line[m].update /\ line[n].update => line[m].pos < line[n].pos
  BY <1>0 DEF Flow, Grows
<1>8. /\ c2 \in Nat /\ c < c2 /\ c2 <= lst /\ 1 .. c2 \subseteq D
      /\ \A m \in 1 .. N : line[m].update /\ m > a => c2 < line[m].pos
      /\ c2 = lst \/ l > a
  <2>1. CASE c2 = line[k].pos
    <3>1. c2 \in Nat /\ c < c2 /\ c2 <= lst /\ 1 .. c2 \subseteq D
      BY <2>1, <1>1, <1>2, <1>3, <1>6
    <3>2. \A m \in 1 .. N : line[m].update /\ m > a => c2 < line[m].pos
      <4> SUFFICES ASSUME NEW m \in 1 .. N, line[m].update, m > a PROVE c2 < line[m].pos
        OBVIOUS
      <4>1. k < m
        BY <1>1
      <4> QED BY <4>1, <2>1, <1>1, <1>7
    <3>3. ASSUME ~(l > a) PROVE c2 = lst
      <4>1. l \in 1 .. a
        BY <3>3, <1>1
      <4>2. l <= k
        <5>1. l \notin k + 1 .. a
          BY <1>5 DEF NoUpdates
        <5> QED BY <5>1, <4>1, <1>1
      <4>3. CASE l = k
        BY <4>3, <2>1, <1>5
      <4>4. CASE l < k
        <5>1. lst < line[k].pos
          BY <4>4, <1>1, <1>5, <1>7
        <5> QED BY <5>1, <1>1, <1>2, <1>3
      <4> QED BY <4>2, <4>3, <4>4, <1>1
    <3> QED BY <3>1, <3>2, <3>3
  <2>2. CASE c2 = lst /\ NoUpdates(line, a, Len(line))
    <3>1. \A m \in 1 .. N : line[m].update => ~(m > a)
      <4> SUFFICES ASSUME NEW m \in 1 .. N, m > a PROVE ~line[m].update
        OBVIOUS
      <4>1. m \in a + 1 .. Len(line)
        BY <1>0, <1>1
      <4> QED BY <4>1, <2>2 DEF NoUpdates
    <3>2. l \in 1 .. a
      BY <3>1, <1>1, <1>5
    <3>3. 1 .. lst \subseteq D
      BY <3>2, <1>5, <1>6
    <3>4. c < lst
      BY <1>2, <1>3, <1>5
    <3> QED BY <2>2, <3>1, <3>3, <3>4
  <2> QED BY <2>1, <2>2
<1>9. Between(line, a, TRUE, c2, lst)
  BY <1>0, <1>3, <1>8 DEF Between
<1>10. HasLast(line, a, TRUE, c2, lst)
  BY <1>0, <1>5, <1>8 DEF HasLast
<1>11. Grows(line) /\ NoGap(line, a, D) /\ Reached(lst, D, line, a, Len(line))
  BY DEF Flow
<1>12. Flow(line, a, TRUE, lst, c2, D)
  BY <1>8, <1>9, <1>10, <1>11 DEF Flow
<1>13. c2 \in Nat /\ c < c2
  BY <1>8
<1>14. c <= c2
  BY <1>13
<1> QED BY <1>12, <1>13, <1>14

\* Nothing is in flight.
LEMMA FlowEmpty ==
  ASSUME NEW c \in Nat, NEW D, 1 .. c \subseteq D
  PROVE  Flow(<<>>, 0, FALSE, c, c, D)
<1>1. PICK line : line = <<>> /\ Len(line) = 0
  OBVIOUS
<1>2. Grows(line) /\ Between(line, 0, FALSE, c, c) /\ NoGap(line, 0, D)
  BY <1>1 DEF Grows, Between, NoGap
<1>3. HasLast(line, 0, FALSE, c, c)
  BY DEF HasLast
<1>4. Reached(c, D, line, 0, Len(line))
  BY DEF Reached
<1>5. Flow(line, 0, FALSE, c, c, D)
  <2>1. c <= c /\ 1 .. c \subseteq D
    OBVIOUS
  <2> QED BY <2>1, <1>2, <1>3, <1>4 DEF Flow
<1> QED BY <1>1, <1>5

\* Without updates in flight the cursor can be forgotten.
LEMMA FlowRemoved ==
  ASSUME NEW line \in Seq(Entry), NEW a \in 0 .. Len(line), NEW ex \in BOOLEAN,
         NEW lst \in Nat, NEW c \in Nat, NEW D, Flow(line, a, ex, lst, c, D),
         NoUpdates(line, 0, Len(line))
  PROVE  Flow(line, a, ex, 0, 0, D)
<1>1. PICK z \in Nat : z = 0
  OBVIOUS
<1>6. \A m \in 1 .. Len(line) : ~line[m].update
  BY DEF NoUpdates
<1>2. Grows(line) /\ Between(line, a, ex, z, z) /\ NoGap(line, a, D)
  BY <1>6 DEF Grows, Between, Flow
<1>3. HasLast(line, a, ex, z, z)
  BY DEF HasLast
<1>4. Reached(z, D, line, a, Len(line)) /\ 1 .. z \subseteq D /\ z <= z
  BY <1>1 DEF Reached
<1>5. Flow(line, a, ex, z, z, D)
  BY <1>2, <1>3, <1>4 DEF Flow
<1> QED BY <1>1, <1>5
-----------------------------------------------------------------------------
(****************************************************************************)
(* The line and the ACKers.                                                *)
(****************************************************************************)

\* The m-th event of the pipeline q is the at[m]-th one of its ACKer, if nothing is
\* dropped: an ACKer has its events in the order of the pipeline, and no others.
Matches(at, d, q) ==
    /\ \A m \in 1 .. Len(q) : at[m] \in 1 .. Len(d[q[m]])
    /\ \A m, l \in 1 .. Len(q) : m < l /\ q[m] = q[l] => at[m] < at[l]
    /\ \A i \in Inputs : \A k \in 1 .. Len(d[i]) : \E m \in 1 .. Len(q) : q[m] = i /\ at[m] = k

\* What is in flight, in a line: the batch b, the pipeline, the events h at hand.
Lines(at, line, b, d, q, h) ==
    /\ Len(line) = Len(b) + Len(q) + Len(h)
    /\ \A k \in 1 .. Len(b) : line[k] = Flat(b[k])
    /\ \A m \in 1 .. Len(q) : line[Len(b) + m] = Flat(d[q[m]][at[m]])
    /\ \A k \in 1 .. Len(h) : line[Len(b) + Len(q) + k] = Flat(h[k])

\* The first n events are of client i.
OldestOf(q, i, n) == \A k \in 1 .. n : q[k] = i

\* The same events, but for the first n of the pipeline; with e behind them.
Acked(at, d, q, n, at2, d2, q2) ==
    /\ Len(q2) = Len(q) - n
    /\ \A m \in 1 .. Len(q2) : d2[q2[m]][at2[m]] = d[q[n + m]][at[n + m]]
Sent(at, d, q, e, at2, d2, q2) ==
    /\ Len(q2) = Len(q) + 1
    /\ \A m \in 1 .. Len(q) : d2[q2[m]][at2[m]] = d[q[m]][at[m]]
    /\ d2[q2[Len(q) + 1]][at2[Len(q) + 1]] = e
ACKedMatch(at, d, q, n, d2, q2) == \E at2 : Matches(at2, d2, q2) /\ Acked(at, d, q, n, at2, d2, q2)
SentMatch(at, d, q, e, d2, q2) == \E at2 : Matches(at2, d2, q2) /\ Sent(at, d, q, e, at2, d2, q2)
InStep(at, n) == \A k \in 1 .. n : at[k] = k

\* The oldest events of the pipeline, when they are all of one client, are the
\* first ones of its ACKer.
LEMMA MatchFirst ==
  ASSUME NEW q \in Seq(Inputs), NEW d \in [Inputs -> Seq(Event)], NEW at, Matches(at, d, q),
         NEW i \in Inputs, NEW n \in 0 .. Len(q), OldestOf(q, i, n)
  PROVE  /\ InStep(at, n)
         /\ n <= Len(d[i])
         /\ \A m \in n + 1 .. Len(q) : q[m] = i => at[m] > n
<1>0. PICK N \in Nat : N = Len(q)
  OBVIOUS
<1>a. PICK L \in Nat : L = Len(d[i])
  <2>1. d[i] \in Seq(Event)
    OBVIOUS
  <2> QED BY <2>1
<1>1. n \in Nat /\ n <= N
  BY <1>0
<1>2. \A m \in 1 .. N : q[m] = i => at[m] \in 1 .. L
  BY <1>0, <1>a DEF Matches
<1>3. \A m, l \in 1 .. N : m < l /\ q[m] = i /\ q[l] = i => at[m] < at[l]
  BY <1>0 DEF Matches
<1>4. \A k \in 1 .. L : \E m \in 1 .. N : q[m] = i /\ at[m] = k
  BY <1>0, <1>a DEF Matches
<1> DEFINE S == {k \in Nat : \A j \in 1 .. k : j <= n => at[j] = j}
<1>5. 0 \in S
  OBVIOUS
<1>6. ASSUME NEW k \in 0 .. n - 1, k \in S PROVE k + 1 \in S
  <2>1. \A j \in 1 .. k : at[j] = j
    BY <1>6, <1>1
  <2>2. PICK x \in Nat : x = k + 1
    BY <1>1
  <2>3. x \in 1 .. N /\ x \in 1 .. n /\ q[x] = i
    BY <2>2, <1>1 DEF OldestOf
  <2>4. at[x] \in 1 .. L
    BY <2>3, <1>2
  <2>5. at[x] >= x
    <3>1. CASE k = 0
      BY <3>1, <2>2, <2>4, <1>a
    <3>2. CASE k # 0
      <4>1. k \in 1 .. N /\ k \in 1 .. n /\ k \in 1 .. k /\ k < x
        BY <3>2, <2>2, <1>1
      <4>2. at[k] < at[x] /\ at[k] = k
        BY <4>1, <2>1, <2>3, <1>3 DEF OldestOf
      <4> QED BY <4>2, <2>2, <2>4, <1>a
    <3> QED BY <3>1, <3>2
  <2>6. x \in 1 .. L
    BY <2>2, <2>4, <2>5, <1>a
  <2>7. PICK m \in 1 .. N : q[m] = i /\ at[m] = x
    BY <2>6, <1>4
  <2>8. ~(m > x)
    <3> SUFFICES ASSUME x < m PROVE FALSE
      BY <2>2
    <3>1. at[x] < at[m]
      BY <2>3, <2>7, <1>3
    <3> QED BY <3>1, <2>4, <2>5, <2>7, <1>a
  <2>9. ~(m < x)
    <3> SUFFICES ASSUME m < x PROVE FALSE
      OBVIOUS
    <3>1. m \in 1 .. k
      BY <2>2
    <3> QED BY <3>1, <2>1, <2>7
  <2>10. m = x
    BY <2>2, <2>8, <2>9
  <2>11. at[k + 1] = k + 1
    BY <2>2, <2>7, <2>10
  <2>12. \A j \in 1 .. k + 1 : j \in 1 .. k \/ j = k + 1
    BY <1>1
  <2>13. \A j \in 1 .. k + 1 : j <= n => at[j] = j
    BY <2>1, <2>11, <2>12
  <2>14. k + 1 \in Nat
    BY <1>1
  <2> QED BY <2>13, <2>14
<1>7. 0 .. n \subseteq S
  <2> HIDE DEF S
  <2> QED BY <1>1, <1>5, <1>6, IntervalInduction
<1>8. \A k \in 1 .. n : at[k] = k
  <2>1. n \in S
    <3> HIDE DEF S
    <3> QED BY <1>1, <1>7
  <2> QED BY <2>1, <1>1
<1>9. n <= L
  <2>1. CASE n = 0
    BY <2>1, <1>a
  <2>2. CASE n # 0
    <3>1. n \in 1 .. n /\ n \in 1 .. N
      BY <2>2, <1>1
    <3>2. at[n] = n /\ at[n] \in 1 .. L
      BY <3>1, <1>2, <1>8 DEF OldestOf
    <3> QED BY <3>2, <1>a
  <2> QED BY <2>1, <2>2
<1>10. ASSUME NEW m \in n + 1 .. N, q[m] = i PROVE at[m] > n
  <2>1. m \in 1 .. N
    BY <1>1
  <2>2. at[m] \in 1 .. L
    BY <2>1, <1>2, <1>10
  <2>3. CASE n = 0
    BY <2>2, <2>3, <1>a
  <2>4. CASE n # 0
    <3>1. n \in 1 .. n /\ n \in 1 .. N /\ n < m
      BY <2>4, <1>1
    <3>2. at[n] < at[m] /\ at[n] = n
      BY <3>1, <2>1, <1>3, <1>8, <1>10 DEF OldestOf
    <3> QED BY <3>2, <2>2, <1>1, <1>a
  <2> QED BY <2>3, <2>4
<1> QED BY <1>0, <1>a, <1>8, <1>9, <1>10 DEF InStep

\* They are cut off.
LEMMA MatchTail ==
  ASSUME NEW q \in Seq(Inputs), NEW d \in [Inputs -> Seq(Event)], NEW at, Matches(at, d, q),
         NEW i \in Inputs, NEW n \in 0 .. Len(q), OldestOf(q, i, n),
         NEW q2, q2 = SubSeq(q, n + 1, Len(q)),
         NEW d2, d2 = [d EXCEPT ![i] = SubSeq(d[i], n + 1, Len(d[i]))]
  PROVE  ACKedMatch(at, d, q, n, d2, q2)
<1> DEFINE at2 == [m \in 1 .. Len(q) - n |-> IF q[n + m] = i THEN at[n + m] - n ELSE at[n + m]]
<1>0. PICK N \in Nat : N = Len(q)
  OBVIOUS
<1>a. PICK L \in Nat : L = Len(d[i])
  <2>1. d[i] \in Seq(Event)
    OBVIOUS
  <2> QED BY <2>1
<1>1. n \in Nat /\ n <= N
  BY <1>0
<1>2. /\ \A k \in 1 .. n : at[k] = k
      /\ n <= L
      /\ \A m \in n + 1 .. N : q[m] = i => at[m] > n
  <2>1. /\ InStep(at, n)
        /\ n <= Len(d[i])
        /\ \A m \in n + 1 .. Len(q) : q[m] = i => at[m] > n
    BY MatchFirst
  <2> QED BY <2>1, <1>0, <1>a DEF InStep
<1>3. Len(q2) = N - n /\ \A m \in 1 .. N - n : q2[m] = q[n + m]
  <2>1. Len(q2) = N - n
    BY <1>0, <1>1
  <2> QED BY <2>1, <1>0, <1>1
<1>4. PICK r : r = SubSeq(d[i], n + 1, Len(d[i]))
  OBVIOUS
<1>5. Len(r) = L - n /\ \A k \in 1 .. L - n : r[k] = d[i][n + k]
  <2>1. d[i] \in Seq(Event)
    OBVIOUS
  <2>2. PICK s \in Seq(Event) : s = d[i]
    BY <2>1
  <2>3. Len(s) = L /\ r = SubSeq(s, n + 1, L) /\ n <= L
    BY <2>2, <1>a, <1>2, <1>4
  <2>4. Len(r) = L - n
    BY <2>3, <1>1
  <2>5. \A k \in 1 .. L - n : r[k] = s[n + k]
    <3> SUFFICES ASSUME NEW k \in 1 .. L - n PROVE r[k] = s[n + k]
      OBVIOUS
    <3>1. PICK a \in Nat : a = n + 1 /\ a >= 1 /\ a <= L
      BY <2>3, <1>1
    <3>2. r = SubSeq(s, a, L) /\ k \in 1 .. L - a + 1
      BY <2>3, <3>1, <1>1
    <3>3. r[k] = s[k + a - 1]
      BY <2>3, <3>1, <3>2
    <3>4. k + a - 1 = n + k
      BY <3>1, <1>1
    <3> QED BY <3>3, <3>4
  <2> QED BY <2>2, <2>4, <2>5
<1>6. d2[i] = r /\ \A j \in Inputs \ {i} : d2[j] = d[j]
  BY <1>4
<1>7. \A m \in 1 .. N - n : n + m \in 1 .. N /\ n + m \in n + 1 .. N /\ q[n + m] \in Inputs
  BY <1>0, <1>1
<1>8. \A m \in 1 .. N - n : at2[m] = IF q[n + m] = i THEN at[n + m] - n ELSE at[n + m]
  BY <1>0
<1> HIDE DEF at2
<1>b. \A j \in Inputs : Len(d[j]) \in Nat
  <2>1. \A j \in Inputs : d[j] \in Seq(Event)
    OBVIOUS
  <2> QED BY <2>1
<1>9. \A m \in 1 .. N : at[m] \in 1 .. Len(d[q[m]]) /\ at[m] \in Nat
  <2>1. \A m \in 1 .. N : at[m] \in 1 .. Len(d[q[m]]) /\ q[m] \in Inputs
    BY <1>0 DEF Matches
  <2> QED BY <2>1, <1>b
<1>c. \A m, l \in 1 .. N : m < l /\ q[m] = q[l] => at[m] < at[l]
  BY <1>0 DEF Matches
<1> HIDE DEF Matches
<1>10. ASSUME NEW m \in 1 .. N - n
       PROVE  /\ at2[m] \in 1 .. Len(d2[q2[m]])
              /\ d2[q2[m]][at2[m]] = d[q[n + m]][at[n + m]]
  <2>0. PICK x : x = n + m
    OBVIOUS
  <2>1. x \in 1 .. N /\ x \in n + 1 .. N /\ q[x] \in Inputs /\ q2[m] = q[x]
    BY <2>0, <1>3, <1>7
  <2>2. CASE q[x] = i
    <3>1. at[x] \in 1 .. L /\ at[x] > n
      BY <2>1, <2>2, <1>2, <1>9, <1>a
    <3>2. at2[m] = at[x] - n /\ d2[q2[m]] = r
      BY <2>0, <2>1, <2>2, <1>6, <1>8
    <3>3. at[x] - n \in 1 .. L - n /\ n + (at[x] - n) = at[x]
      <4>1. PICK t \in Nat : t = at[x]
        BY <3>1
      <4>2. t - n \in 1 .. L - n /\ n + (t - n) = t
        BY <3>1, <4>1, <1>1
      <4> QED BY <4>1, <4>2
    <3>4. r[at[x] - n] = d[i][at[x]]
      BY <3>3, <1>5
    <3> QED BY <2>0, <2>2, <3>2, <3>3, <3>4, <1>5
  <2>3. CASE q[x] # i
    <3>1. at2[m] = at[x] /\ d2[q2[m]] = d[q[x]]
      BY <2>0, <2>1, <2>3, <1>6, <1>8
    <3> QED BY <2>0, <2>1, <3>1, <1>9
  <2> QED BY <2>2, <2>3
<1>11. ASSUME NEW m \in 1 .. N - n, NEW l \in 1 .. N - n, m < l, q2[m] = q2[l] PROVE at2[m] < at2[l]
  <2>0. PICK x, y : x = n + m /\ y = n + l
    OBVIOUS
  <2>1. x \in 1 .. N /\ y \in 1 .. N /\ q[x] = q[y] /\ x < y
    BY <2>0, <1>1, <1>3, <1>7, <1>11
  <2>2. at[x] < at[y] /\ at[x] \in Nat /\ at[y] \in Nat
    BY <2>1, <1>9, <1>c
  <2>3. CASE q[x] = i
    <3>1. at2[m] = at[x] - n /\ at2[l] = at[y] - n
      BY <2>0, <2>1, <2>3, <1>8
    <3> QED BY <3>1, <2>2, <1>1
  <2>4. CASE q[x] # i
    BY <2>0, <2>1, <2>2, <2>4, <1>8
  <2> QED BY <2>3, <2>4
<1>12. ASSUME NEW j \in Inputs, NEW k \in 1 .. Len(d2[j])
       PROVE  \E m \in 1 .. N - n : q2[m] = j /\ at2[m] = k
  <2>1. CASE j = i
    <3>1. k \in 1 .. L - n
      BY <2>1, <1>5, <1>6
    <3>2. n + k \in 1 .. L
      BY <3>1, <1>a, <1>1
    <3>3. PICK m \in 1 .. N : q[m] = i /\ at[m] = n + k
      BY <3>2, <1>0, <1>a DEF Matches
    <3>4. ~(m \in 1 .. n)
      BY <3>1, <3>3, <1>1, <1>2
    <3>5. m - n \in 1 .. N - n /\ n + (m - n) = m
      BY <3>4, <1>1
    <3>6. q2[m - n] = i /\ at2[m - n] = at[m] - n
      BY <3>3, <3>5, <1>3, <1>8
    <3>7. at[m] - n = k
      BY <3>1, <3>3, <1>1
    <3> QED BY <2>1, <3>5, <3>6, <3>7
  <2>2. CASE j # i
    <3>1. d2[j] = d[j]
      BY <2>2, <1>6
    <3>2. PICK m \in 1 .. N : q[m] = j /\ at[m] = k
      BY <3>1, <1>0 DEF Matches
    <3>3. ~(m \in 1 .. n)
      BY <2>2, <3>2 DEF OldestOf
    <3>4. m - n \in 1 .. N - n /\ n + (m - n) = m
      BY <3>3, <1>1
    <3>5. q2[m - n] = j /\ at2[m - n] = at[m]
      BY <2>2, <3>2, <3>4, <1>3, <1>8
    <3> QED BY <3>2, <3>4, <3>5
  <2> QED BY <2>1, <2>2
<1>13. Matches(at2, d2, q2)
  <2>1. \A m \in 1 .. Len(q2) : at2[m] \in 1 .. Len(d2[q2[m]])
    BY <1>3, <1>10
  <2>2. \A m, l \in 1 .. Len(q2) : m < l /\ q2[m] = q2[l] => at2[m] < at2[l]
    BY <1>3, <1>11
  <2>3. \A j \in Inputs : \A k \in 1 .. Len(d2[j]) : \E m \in 1 .. Len(q2) : q2[m] = j /\ at2[m] = k
    <3> SUFFICES ASSUME NEW j \in Inputs, NEW k \in 1 .. Len(d2[j])
                 PROVE  \E m \in 1 .. Len(q2) : q2[m] = j /\ at2[m] = k
      OBVIOUS
    <3>1. PICK m \in 1 .. N - n : q2[m] = j /\ at2[m] = k
      BY <1>12
    <3>2. m \in 1 .. Len(q2)
      BY <1>3
    <3> QED BY <3>1, <3>2
  <2> QED BY <2>1, <2>2, <2>3 DEF Matches
<1>14. Acked(at, d, q, n, at2, d2, q2)
  BY <1>0, <1>3, <1>10 DEF Acked
<1> QED BY <1>13, <1>14 DEF ACKedMatch

\* Forward appends to the pipeline and to the events of the ACKer.
LEMMA MatchAppend ==
  ASSUME NEW q \in Seq(Inputs), NEW d \in [Inputs -> Seq(Event)], NEW at, Matches(at, d, q),
         NEW i \in Inputs, NEW e \in Event,
         NEW q2, q2 = Append(q, i),
         NEW d2, d2 = [d EXCEPT ![i] = Append(d[i], e)]
  PROVE  SentMatch(at, d, q, e, d2, q2)
<1> DEFINE at2 == [m \in 1 .. Len(q) + 1 |-> IF m = Len(q) + 1 THEN Len(d[i]) + 1 ELSE at[m]]
<1>0. PICK N \in Nat : N = Len(q)
  OBVIOUS
<1>a. PICK L \in Nat : L = Len(d[i])
  <2>1. d[i] \in Seq(Event)
    OBVIOUS
  <2> QED BY <2>1
<1>1. Len(q2) = N + 1 /\ q2[N + 1] = i /\ \A m \in 1 .. N : q2[m] = q[m]
  BY <1>0
<1>2. PICK r : r = Append(d[i], e)
  OBVIOUS
<1>3. Len(r) = L + 1 /\ r[L + 1] = e /\ \A k \in 1 .. L : r[k] = d[i][k]
  <2>1. d[i] \in Seq(Event)
    OBVIOUS
  <2> QED BY <2>1, <1>a, <1>2
<1>4. d2[i] = r /\ \A j \in Inputs \ {i} : d2[j] = d[j]
  BY <1>2
<1>5. at2[N + 1] = L + 1 /\ \A m \in 1 .. N : at2[m] = at[m]
  BY <1>0, <1>a
<1> HIDE DEF at2
<1>6. \A m \in 1 .. N : at[m] \in 1 .. Len(d[q[m]]) /\ q[m] \in Inputs
  BY <1>0 DEF Matches
<1>7. \A m, l \in 1 .. N : m < l /\ q[m] = q[l] => at[m] < at[l]
  BY <1>0 DEF Matches
<1>8. ASSUME NEW m \in 1 .. N
      PROVE  at2[m] \in 1 .. Len(d2[q2[m]]) /\ d2[q2[m]][at2[m]] = d[q[m]][at[m]]
  <2>1. CASE q[m] = i
    <3>1. at[m] \in 1 .. L
      BY <2>1, <1>6, <1>a
    <3>2. at[m] \in 1 .. L + 1 /\ r[at[m]] = d[i][at[m]]
      BY <3>1, <1>3
    <3>3. at2[m] = at[m] /\ q2[m] = i /\ d2[q2[m]] = r
      BY <2>1, <1>1, <1>4, <1>5
    <3> QED BY <2>1, <3>2, <3>3, <1>3
  <2>2. CASE q[m] # i
    <3>1. at2[m] = at[m] /\ q2[m] = q[m] /\ d2[q2[m]] = d[q[m]]
      BY <2>2, <1>1, <1>4, <1>5, <1>6
    <3> QED BY <3>1, <1>6
  <2> QED BY <2>1, <2>2
<1>9. at2[N + 1] \in 1 .. Len(d2[q2[N + 1]]) /\ d2[q2[N + 1]][at2[N + 1]] = e
  BY <1>1, <1>3, <1>4, <1>5
<1>10. ASSUME NEW m \in 1 .. N + 1, NEW l \in 1 .. N + 1, m < l, q2[m] = q2[l] PROVE at2[m] < at2[l]
  <2>1. m \in 1 .. N
    BY <1>10
  <2>2. CASE l = N + 1
    <3>1. q[m] = i /\ at2[m] = at[m] /\ at2[l] = L + 1
      BY <2>1, <2>2, <1>1, <1>5, <1>10
    <3>2. at[m] \in 1 .. L
      BY <2>1, <3>1, <1>6, <1>a
    <3> QED BY <3>1, <3>2
  <2>3. CASE l # N + 1
    <3>1. l \in 1 .. N
      BY <2>3
    <3> QED BY <2>1, <3>1, <1>1, <1>5, <1>7, <1>10
  <2> QED BY <2>2, <2>3
<1>11. ASSUME NEW j \in Inputs, NEW k \in 1 .. Len(d2[j])
       PROVE  \E m \in 1 .. N + 1 : q2[m] = j /\ at2[m] = k
  <2>1. CASE j = i /\ k = L + 1
    <3>1. N + 1 \in 1 .. N + 1
      OBVIOUS
    <3> QED BY <2>1, <3>1, <1>1, <1>5
  <2>2. CASE ~(j = i /\ k = L + 1)
    <3>1. k \in 1 .. Len(d[j])
      <4>1. CASE j = i
        BY <4>1, <2>2, <1>3, <1>4, <1>a
      <4>2. CASE j # i
        BY <4>2, <1>4
      <4> QED BY <4>1, <4>2
    <3>2. PICK m \in 1 .. N : q[m] = j /\ at[m] = k
      BY <3>1, <1>0 DEF Matches
    <3>3. m \in 1 .. N + 1
      OBVIOUS
    <3> QED BY <3>2, <3>3, <1>1, <1>5
  <2> QED BY <2>1, <2>2
<1>12. \A m \in 1 .. N + 1 : m \in 1 .. N \/ m = N + 1
  OBVIOUS
<1>13. \A m \in 1 .. N + 1 : at2[m] \in 1 .. Len(d2[q2[m]])
  BY <1>8, <1>9, <1>12
<1>14. Matches(at2, d2, q2)
  <2>1. \A m \in 1 .. Len(q2) : at2[m] \in 1 .. Len(d2[q2[m]])
    BY <1>1, <1>13
  <2>2. \A m, l \in 1 .. Len(q2) : m < l /\ q2[m] = q2[l] => at2[m] < at2[l]
    BY <1>1, <1>10
  <2>3. \A j \in Inputs : \A k \in 1 .. Len(d2[j]) : \E m \in 1 .. Len(q2) : q2[m] = j /\ at2[m] = k
    <3> SUFFICES ASSUME NEW j \in Inputs, NEW k \in 1 .. Len(d2[j])
                 PROVE  \E m \in 1 .. Len(q2) : q2[m] = j /\ at2[m] = k
      OBVIOUS
    <3>1. PICK m \in 1 .. N + 1 : q2[m] = j /\ at2[m] = k
      BY <1>11
    <3>2. m \in 1 .. Len(q2)
      BY <1>1
    <3> QED BY <3>1, <3>2
  <2> QED BY <2>1, <2>2, <2>3 DEF Matches
<1>15. Sent(at, d, q, e, at2, d2, q2)
  BY <1>0, <1>1, <1>8, <1>9 DEF Sent
<1> QED BY <1>14, <1>15 DEF SentMatch
-----------------------------------------------------------------------------
(****************************************************************************)
(* The invariant on the order, and steps that leave it alone.              *)
(****************************************************************************)

\* The cursor that is in sync with the ACKs.
Synced == IF table = NoResource THEN 0 ELSE resource[table].cursor

\* The lock has one holder.
Holding == {"locked", "reading", "running", "forward", "callback", "release"}
LockShape == \A i \in Inputs : pc[i] \in Holding => resource[ref[i]].lock = i

\* The line of what is in flight.  An input goes on behind the last update, and
\* skips nothing that is not delivered or in the line.
FlowAt(line, at, h) ==
    /\ line \in Seq(Entry) /\ h \in Seq(Event)
    /\ Matches(at, data, queue)
    /\ Lines(at, line, ack, data, queue, h)
    /\ Flow(line, Len(ack), executed, last, Synced, delivered)
    /\ \A i \in Inputs : pc[i] = "forward" => h = cur[i]
    /\ (\A i \in Inputs : pc[i] # "forward") => h = <<>>
    /\ \A i \in Inputs : pc[i] \in {"running", "forward"} =>
          last <= pos[i] /\ Reached(pos[i], delivered, line, Len(ack), Len(line))

FlowShape == \E line, at, h : FlowAt(line, at, h)

\* What is stored is not ahead of the cursor in memory.
StoreShape == persist # NoKey => table # NoResource /\ persist <= Synced

\* Nothing is dropped.
SendShape == \A i \in Inputs : /\ \A k \in DOMAIN data[i] : data[i][k].sent
                               /\ pc[i] \notin {"callback", "release"}

Ordered == LockShape /\ FlowShape /\ StoreShape /\ SendShape

\* A step of NeverBack.
Forth == persist # NoKey /\ persist' # NoKey => persist' >= persist

LEMMA SyncedType == ASSUME IInv PROVE /\ Synced \in Positions /\ Synced \in Nat
                                      /\ last \in Nat /\ last \in Positions
                                      /\ persist \in Nat \cup {NoKey}
                                      /\ table # NoResource => table \in Resources
<1>1. 0 \in Positions /\ Positions \subseteq Nat
  BY CursorAssumption DEF Positions
<1>2. table \in Resources \cup {NoResource} /\ last \in Positions /\ persist \in Positions \cup {NoKey}
  BY DEF IInv, TypeOK
<1>3. Synced \in Positions
  BY <1>1, <1>2, Types DEF Synced
<1> QED BY <1>1, <1>2, <1>3

\* Two inputs do not hold the lock at the same time.
LEMMA Alone ==
  ASSUME IInv, LockShape, NEW i \in Inputs, NEW j \in Inputs, pc[i] \in Holding, pc[j] \in Holding
  PROVE  i = j
<1>1. ref[i] = table /\ ref[j] = table
  BY RefIsTable DEF Holding
<1> QED BY <1>1 DEF LockShape

\* The line stays as it is.
LEMMA FlowFrame ==
  ASSUME IInv, FlowShape, UNCHANGED <<data, queue, ack, executed, delivered, last>>, Synced' = Synced,
         \A j \in Inputs : pc'[j] = "forward" <=> pc[j] = "forward",
         \A j \in Inputs : pc[j] = "forward" => cur'[j] = cur[j],
         \A j \in Inputs : pc'[j] \in {"running", "forward"} =>
            \/ pos'[j] = last
            \/ pc[j] \in {"running", "forward"} /\ pos'[j] = pos[j]
  PROVE  FlowShape'
<1>1. PICK line, at, h : FlowAt(line, at, h)
  BY DEF FlowShape
<1>2. Flow(line, Len(ack), executed, last, Synced, delivered)
  BY <1>1 DEF FlowAt
<1>3. Reached(last, delivered, line, Len(ack), Len(line)) /\ last <= last
  BY <1>2, SyncedType DEF Flow
<1>4. \A i \in Inputs : pc[i] \in {"running", "forward"} =>
          last <= pos[i] /\ Reached(pos[i], delivered, line, Len(ack), Len(line))
  BY <1>1 DEF FlowAt
<1>5. \A i \in Inputs : pc'[i] \in {"running", "forward"} =>
          last <= pos'[i] /\ Reached(pos'[i], delivered, line, Len(ack), Len(line))
  BY <1>3, <1>4
<1>6. /\ \A i \in Inputs : pc'[i] = "forward" => h = cur'[i]
      /\ (\A i \in Inputs : pc'[i] # "forward") => h = <<>>
  BY <1>1 DEF FlowAt
<1>7. line \in Seq(Entry) /\ h \in Seq(Event) /\ Matches(at, data, queue) /\ Lines(at, line, ack, data, queue, h)
  BY <1>1 DEF FlowAt
<1>8. FlowAt(line, at, h)'
  BY <1>2, <1>5, <1>6, <1>7 DEF FlowAt
<1> QED BY <1>8 DEF FlowShape

\* A step of an input, the cleaner or the process that changes nothing of this.
LEMMA QuietStep ==
  ASSUME IInv, Ordered, LockShape', UNCHANGED <<data, queue, ack, executed, delivered, last>>,
         Synced' = Synced, table # NoResource => table' # NoResource,
         persist' \in {persist, NoKey} \/ (persist' = Synced /\ table # NoResource),
         \A j \in Inputs :
            \/ pc'[j] = pc[j] /\ pos'[j] = pos[j] /\ cur'[j] = cur[j]
            \/ pc[j] # "forward" /\ pc'[j] \notin {"running", "forward", "callback", "release"}
            \/ pc[j] # "forward" /\ pc'[j] = "running" /\ pos'[j] = last
  PROVE  Ordered' /\ Forth
<1>1. FlowShape'
  <2>1. \A j \in Inputs : pc'[j] = "forward" <=> pc[j] = "forward"
    OBVIOUS
  <2>2. \A j \in Inputs : pc[j] = "forward" => cur'[j] = cur[j]
    OBVIOUS
  <2>3. \A j \in Inputs : pc'[j] \in {"running", "forward"} =>
            \/ pos'[j] = last
            \/ pc[j] \in {"running", "forward"} /\ pos'[j] = pos[j]
    OBVIOUS
  <2> QED BY <2>1, <2>2, <2>3, FlowFrame DEF Ordered
<1>2. Synced \in Nat /\ persist \in Nat \cup {NoKey} /\ (persist # NoKey => table # NoResource /\ persist <= Synced)
  BY SyncedType DEF Ordered, StoreShape
<1>3. StoreShape' /\ Forth
  BY <1>2 DEF StoreShape, Forth
<1>4. SendShape'
  BY DEF Ordered, SendShape
<1> QED BY <1>1, <1>3, <1>4 DEF Ordered

\* The locks stay as they are, for those who hold them.
LEMMA LockFrame ==
  ASSUME IInv, LockShape,
         \A j \in Inputs : pc'[j] \in Holding => pc[j] \in Holding /\ ref'[j] = ref[j],
         table \in Resources => resource'[table].lock = resource[table].lock
  PROVE  LockShape'
<1> SUFFICES ASSUME NEW j \in Inputs, pc'[j] \in Holding PROVE resource'[ref'[j]].lock = j
  BY DEF LockShape
<1>1. pc[j] \in Holding /\ ref'[j] = ref[j]
  OBVIOUS
<1>2. ref[j] = table /\ table \in Resources
  BY <1>1, RefIsTable DEF Holding
<1> QED BY <1>1, <1>2 DEF LockShape

LEMMA WaitFlows == ASSUME IInv, Ordered, NEW i \in Inputs, Wait(i) PROVE Ordered' /\ Forth
<1>1. /\ pc[i] = "trying" /\ pc' = [pc EXCEPT ![i] = "waiting"]
      /\ UNCHANGED <<dropping, closed, persist, table, resource, gc, ref, pos, cur, data, queue, ack,
                     executed, delivered, last>>
  BY DEF Wait, pipeline
<1>2. pc'[i] = "waiting" /\ \A j \in Inputs \ {i} : pc'[j] = pc[j]
  BY <1>1, Types DEF VarTypes
<1>3. LockShape'
  <2>1. \A j \in Inputs : pc'[j] \in Holding => pc[j] \in Holding /\ ref'[j] = ref[j]
    BY <1>1, <1>2 DEF Holding
  <2> QED BY <2>1, <1>1, LockFrame DEF Ordered
<1>4. Synced' = Synced
  BY <1>1 DEF Synced
<1> QED BY <1>1, <1>2, <1>3, <1>4, QuietStep

LEMMA LockFlows == ASSUME IInv, Ordered, NEW i \in Inputs, Lock(i) PROVE Ordered' /\ Forth
<1>0. ref[i] = table /\ table \in Resources
  BY RefIsTable DEF Lock
<1>1. /\ pc[i] \in {"trying", "waiting"} /\ pc' = [pc EXCEPT ![i] = "locked"]
      /\ resource[ref[i]].lock = Nobody /\ resource' = [resource EXCEPT ![ref[i]].lock = i]
      /\ UNCHANGED <<dropping, closed, persist, table, gc, ref, pos, cur, data, queue, ack,
                     executed, delivered, last>>
  BY DEF Lock, pipeline
<1>2. pc'[i] = "locked" /\ \A j \in Inputs \ {i} : pc'[j] = pc[j]
  BY <1>1, Types DEF VarTypes
<1>3. resource'[table].lock = i /\ resource'[table].cursor = resource[table].cursor
  BY <1>0, <1>1, Types DEF ResourceRecord
<1>4. LockShape'
  <2> SUFFICES ASSUME NEW j \in Inputs, pc'[j] \in Holding PROVE resource'[ref'[j]].lock = j
    BY DEF LockShape
  <2>1. CASE j = i
    BY <2>1, <1>0, <1>1, <1>3
  <2>2. CASE j # i
    <3>1. pc[j] \in Holding
      BY <2>2, <1>2
    <3>2. ref[j] = table
      BY <3>1, RefIsTable DEF Holding
    <3>3. resource[table].lock = j /\ resource[table].lock = Nobody
      BY <3>1, <3>2, <1>0, <1>1 DEF Ordered, LockShape
    <3> QED BY <3>3, CursorAssumption
  <2> QED BY <2>1, <2>2
<1>5. Synced' = Synced
  BY <1>1, <1>3 DEF Synced
<1> QED BY <1>1, <1>2, <1>4, <1>5, QuietStep

LEMMA ReleaseFlows ==
  ASSUME IInv, Ordered, NEW i \in Inputs, pc[i] \in {"waiting", "unlocked"}, ReleaseResource(i)
  PROVE  Ordered' /\ Forth
<1>0. ref[i] = table /\ table \in Resources
  BY RefIsTable
<1>1. /\ pc' = [pc EXCEPT ![i] = "done"] /\ ref' = [ref EXCEPT ![i] = NoResource]
      /\ resource' = [resource EXCEPT ![ref[i]].pending = @ - 1]
      /\ UNCHANGED <<dropping, closed, persist, table, gc, pos, cur, data, queue, ack,
                     executed, delivered, last>>
  BY DEF ReleaseResource, pipeline
<1>2. /\ pc'[i] = "done" /\ \A j \in Inputs \ {i} : pc'[j] = pc[j]
      /\ \A j \in Inputs \ {i} : ref'[j] = ref[j]
  BY <1>1, Types DEF VarTypes
<1>3. resource'[table].lock = resource[table].lock /\ resource'[table].cursor = resource[table].cursor
  BY <1>0, <1>1, Types DEF ResourceRecord
<1>4. LockShape'
  <2>1. \A j \in Inputs : pc'[j] \in Holding => pc[j] \in Holding /\ ref'[j] = ref[j]
    BY <1>2 DEF Holding
  <2> QED BY <2>1, <1>3, LockFrame DEF Ordered
<1>5. Synced' = Synced
  BY <1>1, <1>3 DEF Synced
<1> QED BY <1>1, <1>2, <1>4, <1>5, QuietStep

LEMMA UnlockFlows == ASSUME IInv, Ordered, NEW i \in Inputs, Unlock(i) PROVE Ordered' /\ Forth
<1>0. ref[i] = table /\ table \in Resources
  BY RefIsTable DEF Unlock
<1>1. /\ pc[i] = "running" /\ pc' = [pc EXCEPT ![i] = "unlocked"]
      /\ resource' = [resource EXCEPT ![ref[i]].lock = Nobody]
      /\ UNCHANGED <<dropping, closed, persist, table, gc, ref, pos, cur, data, queue, ack,
                     executed, delivered, last>>
  BY DEF Unlock, pipeline
<1>2. pc'[i] = "unlocked" /\ \A j \in Inputs \ {i} : pc'[j] = pc[j]
  BY <1>1, Types DEF VarTypes
<1>3. resource'[table].cursor = resource[table].cursor
  BY <1>0, <1>1, Types DEF ResourceRecord
<1>4. LockShape'
  <2> SUFFICES ASSUME NEW j \in Inputs, pc'[j] \in Holding PROVE FALSE
    BY DEF LockShape
  <2>1. j # i
    BY <1>2 DEF Holding
  <2>2. pc[j] \in Holding /\ pc[i] \in Holding
    BY <2>1, <1>1, <1>2 DEF Holding
  <2> QED BY <2>1, <2>2, Alone DEF Ordered
<1>5. Synced' = Synced
  BY <1>1, <1>3 DEF Synced
<1> QED BY <1>1, <1>2, <1>4, <1>5, QuietStep

LEMMA UpdateTTLFlows == ASSUME IInv, Ordered, NEW i \in Inputs, UpdateTTL(i) PROVE Ordered' /\ Forth
<1>0. ref[i] = table /\ table \in Resources /\ table # NoResource
  BY RefIsTable, CursorAssumption DEF UpdateTTL
<1>1. /\ pc[i] = "locked" /\ pc' = [pc EXCEPT ![i] = "reading"]
      /\ UNCHANGED <<dropping, closed, table, gc, ref, pos, cur, data, queue, ack,
                     executed, delivered, last>>
  BY DEF UpdateTTL, pipeline
<1>2. pc'[i] = "reading" /\ \A j \in Inputs \ {i} : pc'[j] = pc[j]
  BY <1>1, Types DEF VarTypes
<1>3. /\ resource'[table].lock = resource[table].lock /\ resource'[table].cursor = resource[table].cursor
      /\ persist' = persist \/ persist' = resource[table].cursor
  <2>1. CASE UNCHANGED <<persist, resource>>
    BY <2>1
  <2>2. CASE Persist(resource, ref[i], resource[ref[i]].cursor)
    <3>1. Persist(resource, table, resource[table].cursor)
      BY <2>2, <1>0
    <3>2. persist' = persist \/ persist' = resource[table].cursor
      BY <3>1 DEF Persist
    <3>3. persist \in Positions \cup {NoKey}
      BY DEF IInv, TypeOK
    <3>4. resource \in [Resources -> ResourceRecord] /\ resource[table].cursor \in Positions
      BY <1>0, Types
    <3>5. resource'[table].lock = resource[table].lock /\ resource'[table].cursor = resource[table].cursor
      BY <1>0, <3>1, <3>3, <3>4, Persisted
    <3> QED BY <3>2, <3>5
  <2> QED BY <2>1, <2>2 DEF UpdateTTL
<1>4. LockShape'
  <2>1. \A j \in Inputs : pc'[j] \in Holding => pc[j] \in Holding /\ ref'[j] = ref[j]
    BY <1>1, <1>2 DEF Holding
  <2> QED BY <2>1, <1>3, LockFrame DEF Ordered
<1>5. Synced' = Synced /\ Synced = resource[table].cursor
  BY <1>0, <1>1, <1>3 DEF Synced
<1>6. persist' \in {persist, NoKey} \/ (persist' = Synced /\ table # NoResource)
  BY <1>0, <1>3, <1>5
<1> QED BY <1>1, <1>2, <1>4, <1>5, <1>6, QuietStep

LEMMA ReadCursorFlows == ASSUME IInv, Ordered, NEW i \in Inputs, ReadCursor(i) PROVE Ordered' /\ Forth
<1>0. ref[i] = table /\ table \in Resources
  BY RefIsTable DEF ReadCursor
<1>1. /\ pc[i] = "reading" /\ pc' = [pc EXCEPT ![i] = "running"]
      /\ pos' = [pos EXCEPT ![i] = InMemory(ref[i])]
      /\ UNCHANGED <<dropping, closed, persist, table, resource, gc, ref, cur, data, queue, ack,
                     executed, delivered, last>>
  BY DEF ReadCursor, pipeline
<1>2. InMemory(ref[i]) = last
  BY <1>0, CursorAssumption DEF IInv, InMemoryIsLast
<1>3. pos \in [Inputs -> Positions]
  BY DEF IInv, TypeOK
<1>4. /\ pc'[i] = "running" /\ \A j \in Inputs \ {i} : pc'[j] = pc[j]
      /\ pos'[i] = last /\ \A j \in Inputs \ {i} : pos'[j] = pos[j]
  BY <1>1, <1>2, <1>3, Types DEF VarTypes
<1>5. LockShape'
  <2>1. \A j \in Inputs : pc'[j] \in Holding => pc[j] \in Holding /\ ref'[j] = ref[j]
    BY <1>1, <1>4 DEF Holding
  <2> QED BY <2>1, <1>1, LockFrame DEF Ordered
<1>6. Synced' = Synced
  BY <1>1 DEF Synced
<1>7. \A j \in Inputs :
            \/ pc'[j] = pc[j] /\ pos'[j] = pos[j] /\ cur'[j] = cur[j]
            \/ pc[j] # "forward" /\ pc'[j] = "running" /\ pos'[j] = last
  BY <1>1, <1>4
<1> QED BY <1>1, <1>5, <1>6, <1>7, QuietStep

LEMMA ForgetFlows == ASSUME IInv, Ordered, NEW i \in Inputs, Forget(i) PROVE Ordered' /\ Forth
<1>1. /\ pc[i] = "done" /\ pc' = [pc EXCEPT ![i] = "idle"] /\ pos' = [pos EXCEPT ![i] = 0]
      /\ UNCHANGED <<dropping, closed, persist, table, resource, gc, ref, cur, data, queue, ack,
                     executed, delivered, last>>
  BY DEF Forget, pipeline
<1>2. pos \in [Inputs -> Positions]
  BY DEF IInv, TypeOK
<1>3. /\ pc'[i] = "idle" /\ \A j \in Inputs \ {i} : pc'[j] = pc[j]
      /\ \A j \in Inputs \ {i} : pos'[j] = pos[j]
  BY <1>1, <1>2, Types DEF VarTypes
<1>4. LockShape'
  <2>1. \A j \in Inputs : pc'[j] \in Holding => pc[j] \in Holding /\ ref'[j] = ref[j]
    BY <1>1, <1>3 DEF Holding
  <2> QED BY <2>1, <1>1, LockFrame DEF Ordered
<1>5. Synced' = Synced
  BY <1>1 DEF Synced
<1> QED BY <1>1, <1>3, <1>4, <1>5, QuietStep

\* GCFind, Shutdown and stuttering.
LEMMA IdleFlows ==
  ASSUME IInv, Ordered, UNCHANGED <<persist, table, resource, pc, ref, pos, cur, data, queue, ack,
                                    executed, delivered, last>>
  PROVE  Ordered' /\ Forth
<1>1. LockShape'
  BY DEF Ordered, LockShape
<1>2. Synced' = Synced
  BY DEF Synced
<1> QED BY <1>1, <1>2, QuietStep

LEMMA GetFlows == ASSUME IInv, Ordered, NEW i \in Inputs, Get(i) PROVE Ordered' /\ Forth
<1>1. PICK r \in Resources :
          /\ IF table = NoResource
             THEN resource' = [resource EXCEPT ![r] = [NewResource EXCEPT !.pending = 1]]
             ELSE /\ r = table
                  /\ resource' = [resource EXCEPT ![r].pending = @ + 1]
          /\ table' = r
          /\ ref' = [ref EXCEPT ![i] = r]
  BY DEF Get
<1>2. /\ pc[i] = "idle" /\ pc' = [pc EXCEPT ![i] = "trying"]
      /\ UNCHANGED <<dropping, closed, persist, gc, pos, cur, data, queue, ack,
                     executed, delivered, last>>
  BY DEF Get, pipeline
<1>3. /\ pc'[i] = "trying" /\ \A j \in Inputs \ {i} : pc'[j] = pc[j]
      /\ \A j \in Inputs \ {i} : ref'[j] = ref[j]
  BY <1>1, <1>2, Types DEF VarTypes
<1>4. table' # NoResource
  BY <1>1, CursorAssumption
<1>5. Synced' = Synced /\ (table \in Resources => resource'[table].lock = resource[table].lock)
  <2>1. CASE table = NoResource
    <3>1. resource'[r] = [NewResource EXCEPT !.pending = 1]
      BY <2>1, <1>1, Types
    <3>2. resource'[r].cursor = 0
      BY <3>1 DEF NewResource
    <3> QED BY <2>1, <3>2, <1>1, <1>4, CursorAssumption DEF Synced
  <2>2. CASE table # NoResource
    <3>1. resource'[r].lock = resource[r].lock /\ resource'[r].cursor = resource[r].cursor
      BY <2>2, <1>1, Types DEF ResourceRecord
    <3> QED BY <2>2, <3>1, <1>1, <1>4 DEF Synced
  <2> QED BY <2>1, <2>2
<1>6. LockShape'
  <2>1. \A j \in Inputs : pc'[j] \in Holding => pc[j] \in Holding /\ ref'[j] = ref[j]
    BY <1>3 DEF Holding
  <2> QED BY <2>1, <1>5, LockFrame DEF Ordered
<1> QED BY <1>2, <1>3, <1>4, <1>5, <1>6, QuietStep

\* The event e gets to the end of the line, ...
LEMMA LinesHand ==
  ASSUME NEW line \in Seq(Entry), NEW b \in Seq(Event), NEW q \in Seq(Inputs), NEW d, NEW at,
         Lines(at, line, b, d, q, <<>>), NEW e \in Event, NEW x \in Entry, x = Flat(e)
  PROVE  Lines(at, Append(line, x), b, d, q, <<e>>) /\ Len(b) \in 0 .. Len(line)
<1>1. PICK B \in Nat, Q \in Nat : B = Len(b) /\ Q = Len(q)
  OBVIOUS
<1>2. PICK h : h = <<e>>
  OBVIOUS
<1>3. Len(h) = 1 /\ h[1] = e
  BY <1>2
<1>4. Len(line) = B + Q
  <2>1. Len(line) = Len(b) + Len(q) + Len(<<>>)
    BY DEF Lines
  <2>2. Len(<<>>) = 0
    OBVIOUS
  <2> QED BY <2>1, <2>2, <1>1
<1>5. PICK new : new = Append(line, x)
  OBVIOUS
<1>6. Len(new) = B + Q + 1 /\ new[B + Q + 1] = x /\ \A m \in 1 .. B + Q : new[m] = line[m]
  <2>1. PICK N \in Nat : N = B + Q /\ N = Len(line)
    BY <1>1, <1>4
  <2>2. Len(new) = N + 1 /\ new[N + 1] = x /\ \A m \in 1 .. N : new[m] = line[m]
    BY <2>1, <1>5
  <2> QED BY <2>1, <2>2
<1>7. \A k \in 1 .. B : new[k] = Flat(b[k])
  <2>1. \A k \in 1 .. B : line[k] = Flat(b[k]) /\ k \in 1 .. B + Q
    BY <1>1 DEF Lines
  <2> QED BY <2>1, <1>6
<1>8. \A m \in 1 .. Q : new[B + m] = Flat(d[q[m]][at[m]])
  <2>1. \A m \in 1 .. Q : line[B + m] = Flat(d[q[m]][at[m]])
    BY <1>1 DEF Lines
  <2>2. \A m \in 1 .. Q : B + m \in 1 .. B + Q
    BY <1>1
  <2> QED BY <2>1, <2>2, <1>6
<1>9. \A k \in 1 .. 1 : new[B + Q + k] = Flat(h[k])
  <2>1. \A k \in 1 .. 1 : k = 1
    OBVIOUS
  <2> QED BY <2>1, <1>3, <1>6
<1>10. Lines(at, new, b, d, q, h)
  BY <1>1, <1>3, <1>6, <1>7, <1>8, <1>9 DEF Lines
<1>11. Len(b) \in 0 .. Len(line)
  BY <1>1, <1>4
<1> QED BY <1>2, <1>5, <1>10, <1>11

\* ... and is sent with the line as it is.
LEMMA LinesSent ==
  ASSUME NEW line, NEW b \in Seq(Event), NEW q \in Seq(Inputs), NEW d, NEW at, NEW e, NEW h,
         Lines(at, line, b, d, q, h), Len(h) = 1, h[1] = e, NEW e2, Flat(e2) = Flat(e),
         NEW q2, NEW d2, NEW at2, Sent(at, d, q, e2, at2, d2, q2)
  PROVE  Lines(at2, line, b, d2, q2, <<>>)
<1>1. PICK B \in Nat, Q \in Nat : B = Len(b) /\ Q = Len(q)
  OBVIOUS
<1>2. Len(line) = B + Q + 1
  BY <1>1 DEF Lines
<1>3. PICK z : z = <<>> /\ Len(z) = 0
  OBVIOUS
<1>4. line[B + Q + 1] = Flat(e)
  <2>1. 1 \in 1 .. Len(h)
    OBVIOUS
  <2>2. line[Len(b) + Len(q) + 1] = Flat(h[1])
    BY <2>1 DEF Lines
  <2> QED BY <2>2, <1>1
<1>5. \A m \in 1 .. Q : line[B + m] = Flat(d[q[m]][at[m]])
  BY <1>1 DEF Lines
<1>6. ASSUME NEW m \in 1 .. Q + 1 PROVE line[B + m] = Flat(d2[q2[m]][at2[m]])
  <2>1. CASE m = Q + 1
    <3>1. B + m = B + Q + 1
      BY <2>1
    <3> QED BY <2>1, <3>1, <1>1, <1>4 DEF Sent
  <2>2. CASE m # Q + 1
    <3>1. m \in 1 .. Q
      BY <2>2
    <3> QED BY <3>1, <1>1, <1>5 DEF Sent
  <2> QED BY <2>1, <2>2
<1>7. Len(line) = Len(b) + Len(q2) + Len(z)
  BY <1>1, <1>2, <1>3 DEF Sent
<1>8. \A k \in 1 .. Len(b) : line[k] = Flat(b[k])
  BY DEF Lines
<1>9. \A m \in 1 .. Len(q2) : line[Len(b) + m] = Flat(d2[q2[m]][at2[m]])
  BY <1>1, <1>6 DEF Sent
<1>10. \A k \in 1 .. Len(z) : line[Len(b) + Len(q2) + k] = Flat(z[k])
  BY <1>3
<1>11. Lines(at2, line, b, d2, q2, z)
  BY <1>7, <1>8, <1>9, <1>10 DEF Lines
<1> QED BY <1>3, <1>11

\* b is the first n of the events s.
Begins(b, s, n) == Len(b) = n /\ \A k \in 1 .. n : b[k] = s[k]

\* The first n events in the pipeline become the batch.
LEMMA LinesCut ==
  ASSUME NEW line, NEW h \in Seq(Event), NEW q \in Seq(Inputs), NEW d, NEW at,
         Lines(at, line, <<>>, d, q, h), NEW i \in Inputs, NEW n \in 0 .. Len(q),
         OldestOf(q, i, n), InStep(at, n),
         NEW b \in Seq(Event), Begins(b, d[i], n),
         NEW q2, NEW d2, NEW at2, Acked(at, d, q, n, at2, d2, q2)
  PROVE  Lines(at2, line, b, d2, q2, h) /\ n \in 0 .. Len(line)
<1>1. PICK Q \in Nat, H \in Nat : Q = Len(q) /\ H = Len(h)
  OBVIOUS
<1>2. n \in Nat /\ n <= Q
  BY <1>1
<1>3. PICK z : z = <<>> /\ Len(z) = 0
  OBVIOUS
<1>4. Lines(at, line, z, d, q, h)
  BY <1>3
<1>5. Len(line) = Q + H
  <2>1. Len(line) = 0 + Q + H
    BY <1>1, <1>3, <1>4 DEF Lines
  <2> QED BY <2>1
<1>6. \A m \in 1 .. Q : line[m] = Flat(d[q[m]][at[m]])
  <2>1. \A m \in 1 .. Q : line[0 + m] = Flat(d[q[m]][at[m]])
    BY <1>1, <1>3, <1>4 DEF Lines
  <2>2. \A m \in 1 .. Q : 0 + m = m
    OBVIOUS
  <2> QED BY <2>1, <2>2
<1>7. \A k \in 1 .. H : line[Q + k] = Flat(h[k])
  <2>1. \A k \in 1 .. H : line[0 + Q + k] = Flat(h[k])
    BY <1>1, <1>3, <1>4 DEF Lines
  <2>2. 0 + Q = Q
    OBVIOUS
  <2> QED BY <2>1, <2>2
<1>8. \A k \in 1 .. n : line[k] = Flat(b[k])
  <2> SUFFICES ASSUME NEW k \in 1 .. n PROVE line[k] = Flat(b[k])
    OBVIOUS
  <2>1. k \in 1 .. Q
    BY <1>2
  <2>2. line[k] = Flat(d[i][k])
    BY <2>1, <1>6 DEF OldestOf, InStep
  <2> QED BY <2>2 DEF Begins
<1>9. \A m \in 1 .. Q - n : line[n + m] = Flat(d2[q2[m]][at2[m]])
  <2> SUFFICES ASSUME NEW m \in 1 .. Q - n PROVE line[n + m] = Flat(d2[q2[m]][at2[m]])
    OBVIOUS
  <2>1. n + m \in 1 .. Q
    BY <1>2
  <2>2. line[n + m] = Flat(d[q[n + m]][at[n + m]])
    BY <2>1, <1>6
  <2>3. d2[q2[m]][at2[m]] = d[q[n + m]][at[n + m]]
    BY <1>1 DEF Acked
  <2> QED BY <2>2, <2>3
<1>10. \A k \in 1 .. H : line[n + (Q - n) + k] = Flat(h[k])
  <2>1. n + (Q - n) = Q
    BY <1>2
  <2> QED BY <2>1, <1>7
<1>11. Len(line) = n + (Q - n) + H
  BY <1>2, <1>5
<1>12. Lines(at2, line, b, d2, q2, h)
  <2>1. Len(b) = n /\ Len(q2) = Q - n
    BY <1>1 DEF Acked, Begins
  <2> QED BY <2>1, <1>1, <1>8, <1>9, <1>10, <1>11 DEF Lines
<1>13. n \in 0 .. Len(line)
  BY <1>2, <1>5
<1> QED BY <1>12, <1>13

\* The batch is done.
LEMMA LinesDone ==
  ASSUME NEW line, NEW b \in Seq(Event), NEW h \in Seq(Event), NEW q \in Seq(Inputs), NEW d, NEW at,
         Lines(at, line, b, d, q, h), NEW rest, Behind(rest, line, Len(b))
  PROVE  Lines(at, rest, <<>>, d, q, h)
<1>1. PICK B \in Nat, Q \in Nat, H \in Nat : B = Len(b) /\ Q = Len(q) /\ H = Len(h)
  OBVIOUS
<1>2. Len(line) = B + Q + H
  BY <1>1 DEF Lines
<1>3. PICK z : z = <<>> /\ Len(z) = 0
  OBVIOUS
<1>4. Len(rest) = Q + H
  BY <1>1, <1>2 DEF Behind
<1>5. \A m \in 1 .. Q : rest[0 + m] = Flat(d[q[m]][at[m]])
  <2> SUFFICES ASSUME NEW m \in 1 .. Q PROVE rest[0 + m] = Flat(d[q[m]][at[m]])
    OBVIOUS
  <2>1. 0 + m = m /\ m \in 1 .. Q + H
    OBVIOUS
  <2>2. rest[m] = line[B + m]
    BY <2>1, <1>1, <1>4 DEF Behind
  <2>3. line[B + m] = Flat(d[q[m]][at[m]])
    BY <1>1 DEF Lines
  <2> QED BY <2>1, <2>2, <2>3
<1>6. \A k \in 1 .. H : rest[0 + Q + k] = Flat(h[k])
  <2> SUFFICES ASSUME NEW k \in 1 .. H PROVE rest[0 + Q + k] = Flat(h[k])
    OBVIOUS
  <2>1. 0 + Q + k = Q + k /\ Q + k \in 1 .. Q + H /\ B + (Q + k) = B + Q + k
    BY <1>1
  <2>2. rest[Q + k] = line[B + (Q + k)]
    BY <2>1, <1>1, <1>4 DEF Behind
  <2>3. line[B + Q + k] = Flat(h[k])
    BY <1>1 DEF Lines
  <2> QED BY <2>1, <2>2, <2>3
<1>7. Len(rest) = 0 + Q + H
  <2>1. 0 + Q + H = Q + H
    BY <1>1
  <2> QED BY <2>1, <1>4
<1>8. Lines(at, rest, z, d, q, h)
  BY <1>1, <1>3, <1>5, <1>6, <1>7 DEF Lines
<1> QED BY <1>3, <1>8
-----------------------------------------------------------------------------
(****************************************************************************)
(* Publishing and sending.                                                 *)
(****************************************************************************)

\* The parts of FlowAt.
LEMMA LineParts ==
  ASSUME IInv, NEW line, NEW at, NEW h, FlowAt(line, at, h)
  PROVE  /\ line \in Seq(Entry) /\ h \in Seq(Event)
         /\ data \in [Inputs -> Seq(Event)] /\ queue \in Seq(Inputs) /\ ack \in Seq(Event)
         /\ Matches(at, data, queue) /\ Lines(at, line, ack, data, queue, h)
         /\ Flow(line, Len(ack), executed, last, Synced, delivered)
         /\ Len(line) = Len(ack) + Len(queue) + Len(h)
         /\ Len(ack) \in Nat /\ Len(queue) \in Nat /\ Len(h) \in Nat /\ Len(ack) \in 0 .. Len(line)
         /\ executed \in BOOLEAN /\ last \in Nat /\ Synced \in Nat
<1>1. /\ line \in Seq(Entry) /\ h \in Seq(Event)
      /\ Matches(at, data, queue) /\ Lines(at, line, ack, data, queue, h)
      /\ Flow(line, Len(ack), executed, last, Synced, delivered)
  BY DEF FlowAt
<1>2. /\ data \in [Inputs -> Seq(Event)] /\ queue \in Seq(Inputs) /\ ack \in Seq(Event)
      /\ executed \in BOOLEAN
  BY DEF IInv, TypeOK
<1>3. Len(ack) \in Nat /\ Len(queue) \in Nat /\ Len(h) \in Nat
  BY <1>1, <1>2
<1>4. Len(line) = Len(ack) + Len(queue) + Len(h)
  BY <1>1 DEF Lines
<1>5. Len(ack) \in 0 .. Len(line)
  BY <1>3, <1>4
<1> QED BY <1>1, <1>2, <1>3, <1>4, <1>5, SyncedType

\* The flat form of an event.
LEMMA FlatType ==
  ASSUME NEW e \in Event
  PROVE  Flat(e) \in Entry /\ Flat(e).pos = e.pos /\ Flat(e).update = (e.resource # NoResource)
<1>1. e.pos \in Positions
  BY DEF Event
<1> QED BY <1>1 DEF Flat, Entry

\* createUpdateOp leaves the cursor that is in sync, and the lock, alone.
LEMMA OpCreated ==
  ASSUME IInv, NEW q \in Resources, NEW p \in Positions, resource' = CreateUpdateOp(q, p)
  PROVE  resource'[q].cursor = resource[q].cursor /\ resource'[q].lock = resource[q].lock
<1> DEFINE x == [resource[q] EXCEPT !.pendingCursor = p, !.pending = @ + 1, !.active = @ + 1]
<1>1. resource[q] \in ResourceRecord /\ resource \in [Resources -> ResourceRecord]
  BY Types
<1>2. x.cursor = resource[q].cursor /\ x.lock = resource[q].lock
  BY <1>1 DEF ResourceRecord
<1>3. resource' = [resource EXCEPT ![q] = x]
  BY <1>1 DEF CreateUpdateOp, ResourceRecord
<1> HIDE DEF x
<1> QED BY <1>1, <1>2, <1>3

LEMMA PublishFlows ==
  ASSUME IInv, Ordered, NEW i \in Inputs, NEW u \in BOOLEAN, Publish(i, u) PROVE Ordered' /\ Forth
<1>0. ref[i] = table /\ table \in Resources /\ table # NoResource /\ pc[i] = "running"
  BY RefIsTable, CursorAssumption DEF Publish
<1>1. pos[i] + 1 \in Positions /\ pos'[i] = pos[i] + 1 /\ pos' \in [Inputs -> Positions]
  BY Advances
<1>20. PICK q \in Resources : q = table
  BY <1>0
<1>21. PICK x \in Nat : x = pos[i]
  <2>1. pos[i] \in Positions
    BY DEF IInv, TypeOK
  <2> QED BY <2>1, CursorAssumption DEF Positions
<1>2. PICK e \in Event : e = [pos |-> pos'[i], sent |-> FALSE, resource |-> IF u THEN q ELSE NoResource]
  BY <1>1 DEF Event
<1>3. /\ cur' = [cur EXCEPT ![i] = <<e>>]
      /\ pc' = [pc EXCEPT ![i] = "forward"] /\ pos' = [pos EXCEPT ![i] = pos[i] + 1]
      /\ UNCHANGED <<dropping, closed, persist, table, gc, ref, data, queue, ack, executed, delivered>>
  <2>1. cur' = [cur EXCEPT ![i] = <<e>>]
    BY <1>0, <1>2, <1>20 DEF Publish
  <2> QED BY <2>1 DEF Publish, pipeline
<1>4. /\ last' = IF u THEN x + 1 ELSE last
      /\ resource'[q].cursor = resource[q].cursor /\ resource'[q].lock = resource[q].lock
  <2>1. CASE u = TRUE
    <3>1. resource' = CreateUpdateOp(ref[i], pos'[i]) /\ last' = pos'[i]
      BY <2>1 DEF Publish
    <3>2. PICK p \in Positions : p = pos'[i]
      BY <1>1
    <3>3. resource' = CreateUpdateOp(q, p) /\ last' = x + 1
      BY <3>1, <3>2, <1>0, <1>1, <1>20, <1>21
    <3> QED BY <2>1, <3>3, OpCreated
  <2>2. CASE u = FALSE
    BY <2>2 DEF Publish
  <2> QED BY <2>1, <2>2
<1>5. /\ pc'[i] = "forward" /\ \A j \in Inputs \ {i} : pc'[j] = pc[j]
      /\ cur'[i] = <<e>>
  BY <1>3, Types DEF VarTypes
<1>6. \A j \in Inputs : pc[j] \in Holding => j = i
  BY <1>0, Alone DEF Ordered, Holding
<1>7. \A j \in Inputs : pc'[j] \in Holding => j = i
  BY <1>5, <1>6
<1>8. Synced' = Synced
  BY <1>3, <1>4, <1>20 DEF Synced
<1>9. LockShape'
  <2>1. \A j \in Inputs : pc'[j] \in Holding => pc[j] \in Holding /\ ref'[j] = ref[j]
    BY <1>0, <1>3, <1>7 DEF Holding
  <2> QED BY <2>1, <1>4, <1>20, LockFrame DEF Ordered
<1>10. StoreShape' /\ Forth
  BY <1>3, <1>8, SyncedType DEF Ordered, StoreShape, Forth
<1>11. SendShape'
  BY <1>3, <1>5 DEF Ordered, SendShape
<1>12. FlowShape'
  <2>1. PICK line, at, h : FlowAt(line, at, h)
    BY DEF Ordered, FlowShape
  <2>2. /\ line \in Seq(Entry) /\ queue \in Seq(Inputs) /\ ack \in Seq(Event)
        /\ Matches(at, data, queue) /\ Lines(at, line, ack, data, queue, h)
        /\ Flow(line, Len(ack), executed, last, Synced, delivered)
        /\ Len(ack) \in 0 .. Len(line)
        /\ executed \in BOOLEAN /\ last \in Nat /\ Synced \in Nat
    BY <2>1, LineParts
  <2>3. h = <<>>
    <3>1. \A j \in Inputs : pc[j] # "forward"
      BY <1>0, <1>6 DEF Holding
    <3> QED BY <2>1, <3>1 DEF FlowAt
  <2>4. last <= x /\ Reached(x, delivered, line, Len(ack), Len(line))
    BY <2>1, <1>0, <1>21 DEF FlowAt
  <2>5. PICK y \in Entry : y = Flat(e)
    BY FlatType
  <2>6. y.pos = x + 1 /\ y.update = u
    <3>1. e.pos = x + 1
      BY <1>1, <1>2, <1>21
    <3>2. (e.resource # NoResource) = u
      BY <1>0, <1>2, <1>20
    <3> QED BY <2>5, <3>1, <3>2, FlatType
  <2>7. x + 1 \in Positions
    BY <1>1, <1>21
  <2>8. PICK new, lst2 : new = Append(line, y) /\ lst2 = IF u THEN x + 1 ELSE last
    OBVIOUS
  <2>9. /\ new \in Seq(Entry)
        /\ Flow(new, Len(ack), executed, lst2, Synced, delivered)
        /\ Reached(x + 1, delivered, new, Len(ack), Len(new))
        /\ lst2 <= x + 1
    BY <2>2, <2>4, <2>6, <2>7, <2>8, FlowAppend
  <2>10. Lines(at, new, ack, data, queue, <<e>>)
    BY <2>2, <2>3, <2>5, <2>8, LinesHand
  <2>11. <<e>> \in Seq(Event)
    OBVIOUS
  <2>12. lst2 = last'
    BY <2>8, <1>4
  <2>13. \A j \in Inputs : pc'[j] = "forward" => <<e>> = cur'[j]
    BY <1>5, <1>7 DEF Holding
  <2>14. ~ \A j \in Inputs : pc'[j] # "forward"
    BY <1>5
  <2>15. \A j \in Inputs : pc'[j] \in {"running", "forward"} =>
           last' <= pos'[j] /\ Reached(pos'[j], delivered, new, Len(ack), Len(new))
    <3> SUFFICES ASSUME NEW j \in Inputs, pc'[j] \in {"running", "forward"}
                 PROVE  last' <= pos'[j] /\ Reached(pos'[j], delivered, new, Len(ack), Len(new))
      OBVIOUS
    <3>1. j = i
      BY <1>7 DEF Holding
    <3>2. pos'[j] = x + 1
      BY <3>1, <1>1, <1>21
    <3> QED BY <3>2, <2>9, <2>12
  <2>16. FlowAt(new, at, <<e>>)'
    BY <2>2, <2>9, <2>10, <2>11, <2>12, <2>13, <2>14, <2>15, <1>3, <1>8 DEF FlowAt
  <2> QED BY <2>16 DEF FlowShape
<1> QED BY <1>9, <1>10, <1>11, <1>12 DEF Ordered

LEMMA ForwardFlows == ASSUME IInv, Ordered, NEW i \in Inputs, Forward(i) PROVE Ordered' /\ Forth
<1>0. /\ cur[i][1] \in Event /\ data[i] \in Seq(Event) /\ pc[i] = "forward" /\ Len(cur[i]) = 1
      /\ ref[i] = table /\ table \in Resources
  BY AtHand, RefIsTable DEF Forward
<1>1. PICK e \in Event : e = [cur[i][1] EXCEPT !.sent = TRUE]
  BY <1>0 DEF Event
<1>2. e.resource = cur[i][1].resource /\ e.pos = cur[i][1].pos /\ e.sent = TRUE
  BY <1>0, <1>1 DEF Event
<1>3. /\ data' = [data EXCEPT ![i] = Append(data[i], e)] /\ queue' = Append(queue, i)
      /\ cur' = [cur EXCEPT ![i] = <<>>] /\ pc' = [pc EXCEPT ![i] = "running"]
      /\ UNCHANGED <<dropping, closed, persist, table, resource, gc, ref, pos, ack, executed,
                     delivered, last>>
  BY <1>1 DEF Forward
<1>4. /\ pc'[i] = "running" /\ \A j \in Inputs \ {i} : pc'[j] = pc[j]
  BY <1>3, Types DEF VarTypes
<1>6. \A j \in Inputs : pc[j] \in Holding => j = i
  BY <1>0, Alone DEF Ordered, Holding
<1>7. \A j \in Inputs : pc'[j] \in Holding => j = i
  BY <1>4, <1>6
<1>8. Synced' = Synced
  BY <1>3 DEF Synced
<1>9. LockShape'
  <2>1. \A j \in Inputs : pc'[j] \in Holding => pc[j] \in Holding /\ ref'[j] = ref[j]
    BY <1>0, <1>3, <1>7 DEF Holding
  <2> QED BY <2>1, <1>3, LockFrame DEF Ordered
<1>10. StoreShape' /\ Forth
  BY <1>3, <1>8, SyncedType DEF Ordered, StoreShape, Forth
<1>11. SendShape'
  <2>1. \A j \in Inputs : pc'[j] \notin {"callback", "release"}
    BY <1>4 DEF Ordered, SendShape
  <2>2. ASSUME NEW j \in Inputs, NEW k \in DOMAIN data'[j] PROVE data'[j][k].sent
    <3>1. CASE j = i
      <4>1. data'[i] = Append(data[i], e)
        BY <1>3, Types DEF VarTypes
      <4>2. PICK L \in Nat : L = Len(data[i])
        BY <1>0
      <4>3. k \in 1 .. L + 1
        BY <3>1, <4>1, <4>2, <1>0
      <4>4. CASE k = L + 1
        <5>1. data'[i][k] = e
          BY <4>1, <4>2, <4>4, <1>0
        <5> QED BY <3>1, <5>1, <1>2
      <4>5. CASE k # L + 1
        <5>1. k \in 1 .. L /\ k \in DOMAIN data[i]
          BY <4>2, <4>3, <4>5, <1>0
        <5>2. data'[i][k] = data[i][k]
          BY <4>1, <4>2, <5>1, <1>0
        <5> QED BY <3>1, <5>1, <5>2 DEF Ordered, SendShape
      <4> QED BY <4>4, <4>5
    <3>2. CASE j # i
      <4>1. data'[j] = data[j]
        BY <3>2, <1>3, Types DEF VarTypes
      <4> QED BY <4>1, <2>2 DEF Ordered, SendShape
    <3> QED BY <3>1, <3>2
  <2> QED BY <2>1, <2>2 DEF SendShape
<1>12. FlowShape'
  <2>1. PICK line, at, h : FlowAt(line, at, h)
    BY DEF Ordered, FlowShape
  <2>2. /\ line \in Seq(Entry) /\ data \in [Inputs -> Seq(Event)] /\ queue \in Seq(Inputs)
        /\ ack \in Seq(Event)
        /\ Matches(at, data, queue) /\ Lines(at, line, ack, data, queue, h)
        /\ Flow(line, Len(ack), executed, last, Synced, delivered)
    BY <2>1, LineParts
  <2>3. h = cur[i]
    BY <2>1, <1>0 DEF FlowAt
  <2>4. SentMatch(at, data, queue, e, data', queue')
    BY <2>2, <1>3, MatchAppend
  <2>5. PICK at2 : Matches(at2, data', queue') /\ Sent(at, data, queue, e, at2, data', queue')
    BY <2>4 DEF SentMatch
  <2>6. Flat(e) = Flat(cur[i][1])
    BY <1>2 DEF Flat
  <2>7. Lines(at2, line, ack, data', queue', <<>>)
    <3>1. Len(h) = 1 /\ h[1] = cur[i][1]
      BY <2>3, <1>0
    <3> QED BY <2>2, <2>5, <2>6, <3>1, LinesSent
  <2>8. <<>> \in Seq(Event)
    OBVIOUS
  <2>9. \A j \in Inputs : pc'[j] # "forward"
    BY <1>4, <1>6 DEF Holding
  <2>10. last <= pos[i] /\ Reached(pos[i], delivered, line, Len(ack), Len(line))
    BY <2>1, <1>0 DEF FlowAt
  <2>11. \A j \in Inputs : pc'[j] \in {"running", "forward"} =>
           last <= pos[j] /\ Reached(pos[j], delivered, line, Len(ack), Len(line))
    BY <2>10, <1>7 DEF Holding
  <2>12. FlowAt(line, at2, <<>>)'
    BY <2>2, <2>5, <2>7, <2>8, <2>9, <2>11, <1>3, <1>8 DEF FlowAt
  <2> QED BY <2>12 DEF FlowShape
<1> QED BY <1>9, <1>10, <1>11, <1>12 DEF Ordered

LEMMA ACKDoneFlows == ASSUME IInv, Ordered, ACKDone PROVE Ordered' /\ Forth
<1>1. /\ executed /\ ack' = <<>> /\ executed' = FALSE /\ Done(ack)
      /\ UNCHANGED <<dropping, closed, persist, table, gc, pc, ref, pos, cur, data, queue, delivered, last>>
  BY DEF ACKDone, inputs
<1>2. ack # <<>>
  BY <1>1 DEF IInv, BatchShape
<1>3. table \in Resources /\ Updates(ack) # {} /\ \A k \in DOMAIN ack : ack[k].resource \in {NoResource, table}
  BY <1>2, BatchAtHand
<1>4. ack[Max(Updates(ack))].resource = table
  BY <1>3, UpdatesOfTable, Types DEF VarTypes
<1>5. resource'[table].lock = resource[table].lock /\ resource'[table].cursor = resource[table].cursor
  BY <1>1, <1>3, <1>4, Types DEF Done, ResourceRecord
<1>6. Synced' = Synced
  BY <1>1, <1>5 DEF Synced
<1>7. LockShape'
  BY <1>1, <1>5, LockFrame DEF Ordered
<1>8. StoreShape' /\ Forth
  BY <1>1, <1>6, SyncedType DEF Ordered, StoreShape, Forth
<1>9. SendShape'
  BY <1>1 DEF Ordered, SendShape
<1>10. FlowShape'
  <2>1. PICK line, at, h : FlowAt(line, at, h)
    BY DEF Ordered, FlowShape
  <2>2. /\ line \in Seq(Entry) /\ h \in Seq(Event) /\ queue \in Seq(Inputs)
        /\ ack \in Seq(Event)
        /\ Matches(at, data, queue) /\ Lines(at, line, ack, data, queue, h)
        /\ Flow(line, Len(ack), executed, last, Synced, delivered)
        /\ Len(ack) \in 0 .. Len(line)
        /\ executed \in BOOLEAN /\ last \in Nat /\ Synced \in Nat
    BY <2>1, LineParts
  <2>3. PICK rest : rest = SubSeq(line, Len(ack) + 1, Len(line))
    OBVIOUS
  <2>4. /\ rest \in Seq(Entry) /\ Behind(rest, line, Len(ack))
        /\ Flow(rest, 0, FALSE, last, Synced, delivered)
        /\ Carries(delivered, line, Len(ack), delivered, rest, 0)
    <3>1. executed \/ NoUpdates(line, 0, Len(ack))
      BY <1>1
    <3> QED BY <2>2, <2>3, <3>1, FlowTail
  <2>5. Lines(at, rest, <<>>, data, queue, h)
    BY <2>2, <2>4, LinesDone
  <2>6. /\ \A i \in Inputs : pc[i] = "forward" => h = cur[i]
        /\ (\A i \in Inputs : pc[i] # "forward") => h = <<>>
        /\ \A i \in Inputs : pc[i] \in {"running", "forward"} =>
              last <= pos[i] /\ Reached(pos[i], delivered, line, Len(ack), Len(line))
    BY <2>1 DEF FlowAt
  <2>7. \A i \in Inputs : pos[i] \in Nat
    BY CursorAssumption DEF IInv, TypeOK, Positions
  <2>8. \A i \in Inputs : pc[i] \in {"running", "forward"} =>
              last <= pos[i] /\ Reached(pos[i], delivered, rest, 0, Len(rest))
    BY <2>4, <2>6, <2>7 DEF Carries
  <2>9. Len(ack') = 0
    BY <1>1
  <2>10. FlowAt(rest, at, h)'
    BY <2>2, <2>4, <2>5, <2>6, <2>8, <2>9, <1>1, <1>6 DEF FlowAt
  <2> QED BY <2>10 DEF FlowShape
<1> QED BY <1>7, <1>8, <1>9, <1>10 DEF Ordered
-----------------------------------------------------------------------------
(****************************************************************************)
(* The cleaner and the process.                                            *)
(****************************************************************************)

\* Updates behind the batch are in the ACKers or at hand.
LEMMA LineUpdates ==
  ASSUME IInv, NEW line, NEW at, NEW h, FlowAt(line, at, h),
         \A i \in Inputs : \A k \in DOMAIN data[i] : data[i][k].resource = NoResource,
         \A k \in 1 .. Len(h) : h[k].resource = NoResource
  PROVE  NoUpdates(line, Len(ack), Len(line))
<1>1. PICK A \in Nat, Q \in Nat, H \in Nat : A = Len(ack) /\ Q = Len(queue) /\ H = Len(h)
  BY LineParts
<1>2. /\ Len(line) = A + Q + H /\ queue \in Seq(Inputs) /\ data \in [Inputs -> Seq(Event)]
      /\ Matches(at, data, queue) /\ Lines(at, line, ack, data, queue, h)
  BY <1>1, LineParts
<1> SUFFICES ASSUME NEW m \in A + 1 .. A + Q + H PROVE ~line[m].update
  BY <1>1, <1>2 DEF NoUpdates
<1>3. \A e : e.resource = NoResource => ~Flat(e).update
  BY DEF Flat
<1>4. CASE m <= A + Q
  <2>1. PICK j \in 1 .. Q : m = A + j
    <3>1. m - A \in 1 .. Q /\ m = A + (m - A)
      BY <1>4
    <3> QED BY <3>1
  <2>2. line[A + j] = Flat(data[queue[j]][at[j]])
    BY <1>1, <1>2 DEF Lines
  <2>3. queue[j] \in Inputs /\ at[j] \in 1 .. Len(data[queue[j]])
    BY <1>1, <1>2 DEF Matches
  <2>4. data[queue[j]] \in Seq(Event)
    BY <2>3, <1>2
  <2>5. at[j] \in DOMAIN data[queue[j]]
    BY <2>3, <2>4
  <2>6. data[queue[j]][at[j]].resource = NoResource
    BY <2>3, <2>5
  <2> QED BY <2>1, <2>2, <2>6, <1>3
<1>5. CASE ~(m <= A + Q)
  <2>1. PICK j \in 1 .. H : m = A + Q + j
    <3>1. m - (A + Q) \in 1 .. H /\ m = A + Q + (m - (A + Q))
      BY <1>5
    <3> QED BY <3>1
  <2>2. line[A + Q + j] = Flat(h[j])
    BY <1>1, <1>2 DEF Lines
  <2> QED BY <2>1, <2>2, <1>1, <1>3
<1> QED BY <1>4, <1>5

\* No update for r is in the ACKers.
LEMMA NoneQueued == ASSUME NEW r, InACKers(r) = {}, NEW i \in Inputs PROVE Of(data[i], r) = {}
<1> SUFFICES ASSUME NEW k \in Of(data[i], r) PROVE FALSE
  OBVIOUS
<1>1. <<i, k>> \in InACKers(r)
  BY QueuedPairs
<1> QED BY <1>1

LEMMA GCCleanFlows == ASSUME IInv, Ordered, GCClean PROVE Ordered' /\ Forth
<1>1. /\ gc # NoResource
      /\ UNCHANGED <<dropping, closed, resource, pc, ref, pos, cur, data, queue, ack, executed, delivered>>
  BY DEF GCClean, inputs, pipeline
<1>2. gc = table /\ resource[table].pending = 0 /\ table \in Resources
  BY <1>1 DEF IInv, CleanShape, TypeOK
<1>3. Unused(table)
  BY <1>2, Counted
<1>4. \A i \in Inputs : pc[i] \notin Holding
  <2> SUFFICES ASSUME NEW i \in Inputs, pc[i] \in Holding PROVE FALSE
    OBVIOUS
  <2>1. ref[i] = table
    BY RefIsTable DEF Holding
  <2> QED BY <2>1, <1>3 DEF Unused, Holders
<1>5. LockShape' /\ SendShape'
  BY <1>1, <1>4 DEF LockShape, Ordered, SendShape
<1>6. CASE table' = NoResource /\ persist' = NoKey /\ last' = 0
  <2>1. PICK line, at, h : FlowAt(line, at, h)
    BY DEF Ordered, FlowShape
  <2>2. /\ line \in Seq(Entry) /\ h \in Seq(Event)
        /\ Matches(at, data, queue) /\ Lines(at, line, ack, data, queue, h)
        /\ Flow(line, Len(ack), executed, last, Synced, delivered)
        /\ Len(ack) \in 0 .. Len(line)
        /\ executed \in BOOLEAN /\ last \in Nat /\ Synced \in Nat
    BY <2>1, LineParts
  <2>3. h = <<>>
    BY <2>1, <1>4 DEF FlowAt, Holding
  <2>4. ack = <<>> /\ Len(ack) = 0
    <3> SUFFICES ASSUME ack # <<>> PROVE FALSE
      OBVIOUS
    <3>1. Cardinality(Of(ack, table)) \in Nat /\ Cardinality(Of(ack, table)) > 0
      BY BatchAtHand
    <3> QED BY <3>1, <1>3, FS_EmptySet DEF Unused
  <2>5. \A i \in Inputs : \A k \in DOMAIN data[i] : data[i][k].resource = NoResource
    <3> SUFFICES ASSUME NEW i \in Inputs, NEW k \in DOMAIN data[i] PROVE data[i][k].resource = NoResource
      OBVIOUS
    <3>1. data[i][k].resource \in {NoResource, table}
      BY FlightOfTable
    <3>2. k \notin Of(data[i], table)
      BY <1>3, NoneQueued DEF Unused
    <3> QED BY <3>1, <3>2 DEF Of
  <2>6. NoUpdates(line, Len(ack), Len(line))
    BY <2>1, <2>3, <2>5, LineUpdates
  <2>7. NoUpdates(line, 0, Len(line))
    BY <2>4, <2>6
  <2>8. Flow(line, Len(ack), executed, 0, 0, delivered)
    BY <2>2, <2>7, FlowRemoved
  <2>9. Synced' = 0
    BY <1>6 DEF Synced
  <2>10. \A i \in Inputs : pc'[i] \notin {"running", "forward"}
    BY <1>1, <1>4 DEF Holding
  <2>11. FlowAt(line, at, h)'
    BY <2>2, <2>3, <2>8, <2>9, <2>10, <1>1, <1>6 DEF FlowAt
  <2>12. FlowShape'
    BY <2>11 DEF FlowShape
  <2> QED BY <2>12, <1>5, <1>6 DEF Ordered, StoreShape, Forth
<1>7. CASE persist' \in {persist, NoKey} /\ UNCHANGED <<table, last>>
  <2>1. Synced' = Synced
    BY <1>1, <1>7 DEF Synced
  <2> QED BY <2>1, <1>1, <1>5, <1>7, QuietStep
<1> QED BY <1>6, <1>7 DEF GCClean

\* Nothing is in flight and nobody runs.
EmptyFact ==
  /\ queue = <<>> /\ ack = <<>> /\ executed = FALSE /\ data = [i \in Inputs |-> <<>>]
  /\ pc = [i \in Inputs |-> "idle"]
  /\ last = Synced /\ Synced \in Nat /\ 1 .. Synced \subseteq delivered
  => LockShape /\ FlowShape /\ SendShape

LEMMA Empty == EmptyFact
<1> SUFFICES ASSUME queue = <<>>, ack = <<>>, executed = FALSE, data = [i \in Inputs |-> <<>>],
                    pc = [i \in Inputs |-> "idle"],
                    last = Synced, Synced \in Nat, 1 .. Synced \subseteq delivered
             PROVE  LockShape /\ FlowShape /\ SendShape
  BY DEF EmptyFact
<1>1. \A i \in Inputs : pc[i] = "idle"
  OBVIOUS
<1>2. LockShape
  BY <1>1 DEF LockShape, Holding
<1>3. \A i \in Inputs : data[i] = <<>>
  OBVIOUS
<1>4. SendShape
  BY <1>1, <1>3 DEF SendShape
<1>5. PICK z : z = <<>>
  OBVIOUS
<1>6. Len(z) = 0 /\ z \in Seq(Entry) /\ z \in Seq(Event) /\ queue = z /\ ack = z
  BY <1>5
<1>7. \A i \in Inputs : Len(data[i]) = 0
  BY <1>3
<1>8. Matches(z, data, z)
  BY <1>6, <1>7 DEF Matches
<1>9. Lines(z, z, z, data, z, z)
  BY <1>6 DEF Lines
<1>10. Flow(<<>>, 0, FALSE, Synced, Synced, delivered)
  BY FlowEmpty
<1>11. Flow(z, Len(z), executed, last, Synced, delivered)
  BY <1>5, <1>6, <1>10
<1>12. FlowAt(z, z, z)
  BY <1>1, <1>5, <1>6, <1>8, <1>9, <1>11 DEF FlowAt
<1> QED BY <1>2, <1>4, <1>12 DEF FlowShape

LEMMA EmptyNext == EmptyFact'
<1>1. EmptyFact
  BY Empty
<1> QED BY <1>1, PTL

LEMMA InitFlows == Init => Ordered
<1> SUFFICES ASSUME Init PROVE Ordered
  OBVIOUS
<1>1. Synced = 0
  BY DEF Init, Synced
<1>2. 1 .. Synced \subseteq delivered
  BY <1>1
<1>3. LockShape /\ FlowShape /\ SendShape
  BY <1>1, <1>2, Empty DEF Init, EmptyFact
<1>4. StoreShape
  BY DEF Init, StoreShape
<1> QED BY <1>3, <1>4 DEF Ordered

LEMMA RestartFlows == ASSUME IInv, Ordered, Restart PROVE Ordered' /\ Forth
<1>1. PICK r \in Resources :
          /\ table' = IF persist = NoKey THEN NoResource ELSE r
          /\ resource' = [q \in Resources |-> IF q = table' THEN ReadState(persist) ELSE NewResource]
  BY DEF Restart
<1>2. /\ pc' = [i \in Inputs |-> "idle"] /\ data' = [i \in Inputs |-> <<>>]
      /\ queue' = <<>> /\ ack' = <<>> /\ executed' = FALSE
      /\ last' = (IF persist = NoKey THEN 0 ELSE persist)
      /\ UNCHANGED <<persist, delivered>>
  BY DEF Restart
<1>3. PICK line, at, h : FlowAt(line, at, h)
  BY DEF Ordered, FlowShape
<1>4. 1 .. Synced \subseteq delivered
  BY <1>3 DEF FlowAt, Flow
<1>5. Synced \in Nat /\ persist \in Nat \cup {NoKey} /\ (persist # NoKey => persist <= Synced)
  BY SyncedType DEF Ordered, StoreShape
<1>6. Synced' = last' /\ last' \in Nat /\ 1 .. last' \subseteq delivered
  <2>1. CASE persist = NoKey
    <3>1. table' = NoResource /\ last' = 0
      BY <2>1, <1>1, <1>2
    <3>2. Synced' = 0
      BY <3>1 DEF Synced
    <3> QED BY <3>1, <3>2
  <2>2. CASE persist # NoKey
    <3>1. table' = r /\ table' # NoResource /\ last' = persist
      BY <2>2, <1>1, <1>2, CursorAssumption
    <3>2. resource'[r].cursor = persist
      BY <3>1, <1>1 DEF ReadState, NewResource
    <3>3. Synced' = persist
      BY <3>1, <3>2 DEF Synced
    <3>4. persist \in Nat /\ 1 .. persist \subseteq 1 .. Synced
      BY <2>2, <1>5
    <3> QED BY <3>1, <3>3, <3>4, <1>4
  <2> QED BY <2>1, <2>2
<1>7. LockShape' /\ FlowShape' /\ SendShape'
  BY <1>2, <1>6, EmptyNext DEF EmptyFact
<1>8. StoreShape' /\ Forth
  <2>1. persist # NoKey => table' # NoResource /\ persist <= last'
    BY <1>1, <1>2, <1>5, CursorAssumption
  <2> QED BY <2>1, <1>2, <1>5, <1>6 DEF StoreShape, Forth
<1> QED BY <1>7, <1>8 DEF Ordered
-----------------------------------------------------------------------------
(****************************************************************************)
(* The ACK goroutine.                                                      *)
(****************************************************************************)

\* Without drops, as many events are cut off as are ACKed.
LEMMA CutIsCount ==
  ASSUME IInv, SendShape, NEW i \in Inputs, NEW n \in Nat, n <= Len(data[i]), ACKEvents(i, n),
         NEW b, b = SubSeq(data[i], 1, n)
  PROVE  /\ ack' = IF Updates(b) = {} THEN <<>> ELSE b
         /\ delivered' = delivered \cup {data[i][k].pos : k \in 1 .. n}
         /\ data' = [data EXCEPT ![i] = SubSeq(data[i], n + 1, Len(data[i]))]
<1> DEFINE waiting == {k \in DOMAIN data[i] :
                          /\ data[i][k].sent
                          /\ Cardinality({j \in 1 .. k : data[i][j].sent}) > n}
           cut == IF waiting = {} THEN Len(data[i]) ELSE Min(waiting) - 1
<1>1. data[i] \in Seq(Event) /\ DOMAIN data[i] = 1 .. Len(data[i])
  BY Types DEF VarTypes
<1>2. PICK L \in Nat : L = Len(data[i])
  BY <1>1
<1>3. \A k \in 1 .. L : data[i][k].sent
  BY <1>1, <1>2 DEF SendShape
<1>4. ASSUME NEW k \in 1 .. L PROVE Cardinality({j \in 1 .. k : data[i][j].sent}) = k
  <2>1. {j \in 1 .. k : data[i][j].sent} = 1 .. k
    <3>1. \A j \in 1 .. k : j \in 1 .. L
      OBVIOUS
    <3> QED BY <3>1, <1>3
  <2>2. Cardinality(1 .. k) = k
    <3>1. PICK one \in Nat : one = 1
      OBVIOUS
    <3>2. Cardinality(one .. k) = IF one > k THEN 0 ELSE k - one + 1
      BY FS_Interval
    <3> QED BY <3>1, <3>2
  <2> QED BY <2>1, <2>2
<1>5. waiting = {k \in 1 .. L : k > n}
  BY <1>1, <1>2, <1>3, <1>4
<1>6. /\ ack' = IF Updates(SubSeq(data[i], 1, cut)) = {} THEN <<>> ELSE SubSeq(data[i], 1, cut)
      /\ delivered' = delivered \cup {data[i][k].pos : k \in 1 .. cut}
      /\ data' = [data EXCEPT ![i] = SubSeq(@, cut + 1, Len(@))]
  BY DEF ACKEvents
<1> HIDE DEF waiting
<1>7. cut = n
  <2>1. CASE waiting = {}
    <3>1. ~(L > n)
      <4> SUFFICES ASSUME L > n PROVE FALSE
        OBVIOUS
      <4>1. L \in 1 .. L
        OBVIOUS
      <4> QED BY <4>1, <2>1, <1>5
    <3> QED BY <2>1, <3>1, <1>2
  <2>2. CASE waiting # {}
    <3>1. waiting \in SUBSET (1 .. L)
      BY <1>5
    <3>2. Min(waiting) \in waiting /\ \A y \in waiting : Min(waiting) <= y
      BY <2>2, <3>1, LeastIsMin
    <3>a. Min(waiting) \in 1 .. L /\ Min(waiting) > n
      BY <3>2, <1>5
    <3>b. Min(waiting) \in Nat /\ Min(waiting) <= L
      BY <3>a
    <3>3. PICK w \in Nat : w = Min(waiting) /\ w > n /\ w <= L
      BY <3>a, <3>b
    <3>4. n + 1 \in waiting
      BY <3>3, <1>5
    <3>5. w <= n + 1
      BY <3>2, <3>3, <3>4
    <3>6. w - 1 = n
      BY <3>3, <3>5
    <3> QED BY <2>2, <3>3, <3>6
  <2> QED BY <2>1, <2>2
<1> HIDE DEF cut
<1> QED BY <1>6, <1>7

\* The batch of ACKEvents.
LEMMA BatchOf ==
  ASSUME NEW s \in Seq(Event), NEW n \in Nat, n <= Len(s), NEW b, b = SubSeq(s, 1, n)
  PROVE  b \in Seq(Event) /\ Begins(b, s, n)
<1>1. b \in Seq(Event)
  BY CutInTwo
<1>2. Len(b) = n
  OBVIOUS
<1>3. \A k \in 1 .. n : b[k] = s[k]
  BY <1>2
<1> QED BY <1>1, <1>2, <1>3 DEF Begins

LEMMA ACKEventsFlows ==
  ASSUME IInv, Ordered, NEW i \in Inputs, NEW n \in Nat, ACKEvents(i, n) PROVE Ordered' /\ Forth
<1>0. /\ ack = <<>> /\ executed = FALSE /\ n <= Len(queue) /\ OldestOf(queue, i, n)
      /\ queue' = SubSeq(queue, n + 1, Len(queue))
      /\ UNCHANGED <<dropping, closed, persist, table, resource, gc, pc, ref, pos, cur, executed, last>>
  BY DEF ACKEvents, inputs, IInv, BatchShape, TypeOK, OldestOf
<1>1. PICK line, at, h : FlowAt(line, at, h)
  BY DEF Ordered, FlowShape
<1>2. /\ line \in Seq(Entry) /\ h \in Seq(Event)
      /\ data \in [Inputs -> Seq(Event)] /\ queue \in Seq(Inputs) /\ ack \in Seq(Event)
      /\ Matches(at, data, queue) /\ Lines(at, line, ack, data, queue, h)
      /\ Flow(line, Len(ack), executed, last, Synced, delivered)
      /\ last \in Nat /\ Synced \in Nat /\ Len(queue) \in Nat
  BY <1>1, LineParts
<1>3. n \in 0 .. Len(queue) /\ data[i] \in Seq(Event)
  BY <1>0, <1>2
<1>4. InStep(at, n) /\ n <= Len(data[i])
  BY <1>0, <1>2, <1>3, MatchFirst
<1>5. PICK b : b = SubSeq(data[i], 1, n)
  OBVIOUS
<1>6. b \in Seq(Event) /\ Begins(b, data[i], n)
  BY <1>3, <1>4, <1>5, BatchOf
<1>7. /\ ack' = IF Updates(b) = {} THEN <<>> ELSE b
      /\ delivered' = delivered \cup {data[i][k].pos : k \in 1 .. n}
      /\ data' = [data EXCEPT ![i] = SubSeq(data[i], n + 1, Len(data[i]))]
  BY <1>4, <1>5, CutIsCount DEF Ordered
<1>8. ACKedMatch(at, data, queue, n, data', queue')
  BY <1>0, <1>2, <1>3, <1>7, MatchTail
<1>9. PICK at2 : Matches(at2, data', queue') /\ Acked(at, data, queue, n, at2, data', queue')
  BY <1>8 DEF ACKedMatch
<1>10. Lines(at2, line, b, data', queue', h) /\ n \in 0 .. Len(line)
  <2>1. Lines(at, line, <<>>, data, queue, h)
    BY <1>0, <1>2
  <2> QED BY <2>1, <1>0, <1>2, <1>3, <1>4, <1>6, <1>9, LinesCut
<1>11. Len(b) = n /\ \A k \in 1 .. n : line[k] = Flat(b[k]) /\ b[k] = data[i][k] /\ b[k] \in Event
  <2>1. Len(b) = n /\ \A k \in 1 .. n : b[k] = data[i][k]
    BY <1>6 DEF Begins
  <2>2. \A k \in 1 .. n : line[k] = Flat(b[k])
    BY <2>1, <1>10 DEF Lines
  <2>3. \A k \in 1 .. n : b[k] \in Event
    BY <2>1, <1>6
  <2> QED BY <2>1, <2>2, <2>3
<1>12. delivered' = delivered \cup {line[k].pos : k \in 1 .. n}
  <2>1. \A k \in 1 .. n : line[k].pos = data[i][k].pos
    <3> SUFFICES ASSUME NEW k \in 1 .. n PROVE line[k].pos = data[i][k].pos
      OBVIOUS
    <3>1. Flat(b[k]).pos = b[k].pos
      BY <1>11, FlatType
    <3> QED BY <3>1, <1>11
  <2>2. {line[k].pos : k \in 1 .. n} = {data[i][k].pos : k \in 1 .. n}
    BY <2>1
  <2> QED BY <2>2, <1>7
<1>13. Flow(line, n, FALSE, last, Synced, delivered') /\ Carries(delivered, line, 0, delivered', line, n)
  <2>1. Flow(line, 0, FALSE, last, Synced, delivered)
    <3>1. Len(ack) = 0
      BY <1>0
    <3> QED BY <3>1, <1>0, <1>2
  <2> QED BY <2>1, <1>2, <1>10, <1>12, FlowDelivered
<1>14. Synced' = Synced
  BY <1>0 DEF Synced
<1>15. LockShape'
  BY <1>0, LockFrame DEF Ordered
<1>16. StoreShape' /\ Forth
  BY <1>0, <1>14, SyncedType DEF Ordered, StoreShape, Forth
<1>17. SendShape'
  <2>1. ASSUME NEW j \in Inputs, NEW k \in DOMAIN data'[j] PROVE data'[j][k].sent
    <3>1. CASE j = i
      <4>1. PICK s, t : s = data[i] /\ t = SubSeq(s, n + 1, Len(s))
        OBVIOUS
      <4>2. t \in Seq(Event) /\ s \in Seq(Event) /\ data'[i] = t
        <5>1. s \in Seq(Event) /\ n \in 0 .. Len(s)
          BY <4>1, <1>3, <1>4
        <5>2. t \in Seq(Event)
          BY <4>1, <5>1, CutInTwo
        <5>3. data'[i] = t
          BY <4>1, <1>2, <1>7
        <5> QED BY <5>1, <5>2, <5>3
      <4>3. PICK L \in Nat : L = Len(s) /\ n <= L
        <5>1. Len(s) \in Nat /\ n <= Len(s)
          BY <4>1, <4>2, <1>4
        <5> QED BY <5>1
      <4>4. Len(t) = L - n
        BY <4>1, <4>2, <4>3
      <4>5. k \in 1 .. L - n
        BY <3>1, <2>1, <4>2, <4>4
      <4>6. PICK a \in Nat : a = n + 1 /\ a >= 1 /\ a <= L
        BY <4>3, <4>5
      <4>7. t[k] = s[k + a - 1] /\ k + a - 1 \in 1 .. L
        <5>1. t = SubSeq(s, a, L) /\ k \in 1 .. L - a + 1
          BY <4>1, <4>3, <4>5, <4>6
        <5> QED BY <4>2, <4>3, <4>6, <5>1
      <4>8. k + a - 1 \in DOMAIN data[i]
        BY <4>1, <4>2, <4>3, <4>7
      <4>9. s[k + a - 1].sent
        BY <4>1, <4>8 DEF Ordered, SendShape
      <4> QED BY <3>1, <4>2, <4>7, <4>9
    <3>2. CASE j # i
      <4>1. data'[j] = data[j]
        BY <3>2, <1>2, <1>7
      <4> QED BY <4>1, <2>1 DEF Ordered, SendShape
    <3> QED BY <3>1, <3>2
  <2>2. \A j \in Inputs : pc'[j] \notin {"callback", "release"}
    BY <1>0 DEF Ordered, SendShape
  <2> QED BY <2>1, <2>2 DEF SendShape
<1>18. /\ \A j \in Inputs : pc'[j] = "forward" => h = cur'[j]
       /\ (\A j \in Inputs : pc'[j] # "forward") => h = <<>>
       /\ \A j \in Inputs : pc'[j] \in {"running", "forward"} =>
             /\ last' <= pos'[j] /\ pos'[j] \in Nat
             /\ Reached(pos'[j], delivered, line, 0, Len(line))
  <2>1. \A j \in Inputs : pos[j] \in Nat
    BY CursorAssumption DEF IInv, TypeOK, Positions
  <2>2. Len(ack) = 0
    BY <1>0
  <2>3. /\ \A j \in Inputs : pc[j] = "forward" => h = cur[j]
        /\ (\A j \in Inputs : pc[j] # "forward") => h = <<>>
        /\ \A j \in Inputs : pc[j] \in {"running", "forward"} =>
              last <= pos[j] /\ Reached(pos[j], delivered, line, Len(ack), Len(line))
    BY <1>1 DEF FlowAt
  <2> QED BY <2>1, <2>2, <2>3, <1>0
<1>19. FlowShape'
  <2>1. CASE Updates(b) # {}
    <3>1. ack' = b /\ Len(ack') = n
      BY <2>1, <1>7, <1>11
    <3>2. \A j \in Inputs : pc'[j] \in {"running", "forward"} =>
             last' <= pos'[j] /\ Reached(pos'[j], delivered', line, n, Len(line))
      BY <1>13, <1>18 DEF Carries
    <3>3. Flow(line, n, executed', last', Synced', delivered')
      BY <1>0, <1>13, <1>14
    <3>4. FlowAt(line, at2, h)'
      BY <3>1, <3>2, <3>3, <1>2, <1>9, <1>10, <1>18 DEF FlowAt
    <3> QED BY <3>4 DEF FlowShape
  <2>2. CASE Updates(b) = {}
    <3>1. ack' = <<>> /\ Len(ack') = 0
      BY <2>2, <1>7
    <3>2. NoUpdates(line, 0, n)
      <4> SUFFICES ASSUME NEW m \in 1 .. n PROVE ~line[m].update
        BY DEF NoUpdates
      <4>1. m \in DOMAIN b
        BY <1>6, <1>11
      <4>2. b[m].resource = NoResource
        BY <2>2, <4>1 DEF Updates
      <4>3. line[m] = Flat(b[m])
        BY <1>11
      <4>4. Flat(b[m]).update = (b[m].resource # NoResource)
        BY <1>11, FlatType
      <4> QED BY <4>2, <4>3, <4>4
    <3>3. PICK rest : rest = SubSeq(line, n + 1, Len(line))
      OBVIOUS
    <3>4. /\ rest \in Seq(Entry) /\ Behind(rest, line, n)
          /\ Flow(rest, 0, FALSE, last, Synced, delivered')
          /\ Carries(delivered', line, n, delivered', rest, 0)
      BY <3>2, <3>3, <1>2, <1>10, <1>13, FlowTail
    <3>5. Lines(at2, rest, <<>>, data', queue', h)
      <4>1. queue' \in Seq(Inputs)
        <5>1. IInv'
          BY ACKEventsKeeps
        <5> QED BY <5>1 DEF IInv, TypeOK
      <4>2. Behind(rest, line, Len(b))
        BY <3>4, <1>11
      <4> QED BY <4>1, <4>2, <1>2, <1>6, <1>10, LinesDone
    <3>6. \A j \in Inputs : pc'[j] \in {"running", "forward"} =>
             last' <= pos'[j] /\ Reached(pos'[j], delivered', rest, 0, Len(rest))
      BY <3>4, <1>13, <1>18 DEF Carries
    <3>7. Flow(rest, 0, executed', last', Synced', delivered')
      BY <3>4, <1>0, <1>14
    <3>8. FlowAt(rest, at2, h)'
      BY <3>1, <3>4, <3>5, <3>6, <3>7, <1>2, <1>9, <1>18 DEF FlowAt
    <3> QED BY <3>8 DEF FlowShape
  <2> QED BY <2>1, <2>2
<1> QED BY <1>15, <1>16, <1>17, <1>19 DEF Ordered

\* When as many updates are active as the batch has, no other one is in flight.
LEMMA AllDone ==
  ASSUME IInv, SendShape, ack # <<>>, ~executed, table \in Resources,
         resource[table].active = Cardinality(Of(ack, table)),
         NEW line, NEW at, NEW h, FlowAt(line, at, h)
  PROVE  NoUpdates(line, Len(ack), Len(line))
<1>1. /\ IsFiniteSet(InACKers(table)) /\ Cardinality(InACKers(table)) \in Nat
      /\ IsFiniteSet(Calls(table)) /\ Cardinality(Calls(table)) \in Nat
      /\ Cardinality(Of(ack, table)) \in Nat
  BY Types, Counts DEF CountFact
<1>2. resource[table].active = Cardinality(InACKers(table)) + Cardinality(Calls(table)) + Cardinality(Of(ack, table))
  BY Counted DEF ActiveCount, Executing
<1>3. Cardinality(InACKers(table)) = 0 /\ Cardinality(Calls(table)) = 0
  BY <1>1, <1>2
<1>4. InACKers(table) = {} /\ Calls(table) = {}
  BY <1>1, <1>3, FS_EmptySet
<1>5. \A i \in Inputs : \A k \in DOMAIN data[i] : data[i][k].resource = NoResource
  <2> SUFFICES ASSUME NEW i \in Inputs, NEW k \in DOMAIN data[i] PROVE data[i][k].resource = NoResource
    OBVIOUS
  <2>1. data[i][k].resource \in {NoResource, table}
    BY FlightOfTable
  <2>2. k \notin Of(data[i], table)
    BY <1>4, NoneQueued
  <2> QED BY <2>1, <2>2 DEF Of
<1>6. \A k \in 1 .. Len(h) : h[k].resource = NoResource
  <2>1. CASE \A i \in Inputs : pc[i] # "forward"
    <3>1. h = <<>>
      BY <2>1 DEF FlowAt
    <3> QED BY <3>1
  <2>2. CASE \E i \in Inputs : pc[i] = "forward"
    <3>1. PICK i \in Inputs : pc[i] = "forward"
      BY <2>2
    <3>2. h = cur[i]
      BY <3>1 DEF FlowAt
    <3>3. Len(cur[i]) = 1 /\ cur[i] \in Seq(Event) /\ cur[i][1].resource \in {NoResource, table}
      BY <3>1, AtHand
    <3>4. cur[i][1].resource # table
      <4> SUFFICES ASSUME cur[i][1].resource = table PROVE FALSE
        OBVIOUS
      <4>1. i \in InCalls(table)
        BY <3>3, OneEvent DEF InCalls
      <4>2. i \in Calls(table)
        BY <4>1, <3>1 DEF Calls
      <4> QED BY <4>2, <1>4
    <3>5. \A k \in 1 .. Len(h) : k = 1
      BY <3>2, <3>3
    <3> QED BY <3>2, <3>3, <3>4, <3>5
  <2> QED BY <2>1, <2>2
<1> QED BY <1>5, <1>6, LineUpdates

LEMMA ACKCallbackFlows == ASSUME IInv, Ordered, ACKCallback PROVE Ordered' /\ Forth
<1>1. PICK q : q = table
  OBVIOUS
<1>2. /\ ack # <<>> /\ executed = FALSE /\ executed' = TRUE
      /\ UNCHANGED <<dropping, closed, table, gc, pc, ref, pos, cur, data, queue, ack, delivered, last>>
  BY DEF ACKCallback, inputs, IInv, TypeOK
<1>3. /\ ack \in Seq(Event) /\ q \in Resources /\ Updates(ack) # {} /\ Updates(ack) = Of(ack, q)
      /\ \A k \in DOMAIN ack : ack[k].resource \in {NoResource, table}
      /\ Cardinality(Of(ack, q)) \in Nat /\ Cardinality(Of(ack, q)) > 0
      /\ Cardinality(Of(ack, q)) <= resource[q].active
  BY <1>1, <1>2, BatchAtHand
<1>4. PICK n \in Nat : n = Cardinality(Of(ack, q))
  BY <1>3
<1>5. PICK k : k = Max(Updates(ack))
  OBVIOUS
<1>6. /\ resource'[q].lock = resource[q].lock
      /\ persist' \in {persist, resource'[q].cursor}
      /\ IF resource[q].active = n
         THEN resource'[q].cursor = resource[q].pendingCursor
         ELSE resource'[q].cursor = ack[k].pos
  <2>1. Execute(ack)
    BY DEF ACKCallback
  <2>2. n = Cardinality(Updates(ack)) /\ n <= resource[table].active
    BY <1>1, <1>3, <1>4
  <2> QED BY <1>1, <1>3, <1>5, <2>1, <2>2, ExecuteEffect
<1>7. PICK c2 : c2 = resource'[q].cursor
  OBVIOUS
<1>8. Synced' = c2 /\ Synced = resource[q].cursor /\ table # NoResource
  BY <1>1, <1>2, <1>3, <1>7, CursorAssumption DEF Synced
<1>9. PICK line, at, h : FlowAt(line, at, h)
  BY DEF Ordered, FlowShape
<1>10. /\ line \in Seq(Entry) /\ h \in Seq(Event)
       /\ Matches(at, data, queue) /\ Lines(at, line, ack, data, queue, h)
       /\ Flow(line, Len(ack), executed, last, Synced, delivered)
       /\ Len(ack) \in 0 .. Len(line) /\ Len(ack) \in Nat
       /\ last \in Nat /\ Synced \in Nat
  BY <1>9, LineParts
<1>11. k \in 1 .. Len(ack) /\ ack[k].resource = table /\ \A y \in Updates(ack) : y <= k
  <2>1. Updates(ack) \in SUBSET (1 .. Len(ack))
    BY <1>3 DEF Updates
  <2>2. k \in Updates(ack) /\ \A y \in Updates(ack) : y <= k
    BY <2>1, <1>3, <1>5, <1>10, GreatestIsMax
  <2> QED BY <2>1, <2>2, <1>1, <1>3 DEF Of
<1>12. \A m \in 1 .. Len(ack) : /\ line[m].pos = ack[m].pos
                                /\ line[m].update = (ack[m].resource # NoResource)
  <2> SUFFICES ASSUME NEW m \in 1 .. Len(ack)
               PROVE  /\ line[m].pos = ack[m].pos
                      /\ line[m].update = (ack[m].resource # NoResource)
    OBVIOUS
  <2>1. line[m] = Flat(ack[m])
    BY <1>10 DEF Lines
  <2>2. ack[m] \in Event
    BY <1>3
  <2> QED BY <2>1, <2>2, FlatType
<1>13. line[k].update /\ NoUpdates(line, k, Len(ack))
  <2>1. line[k].update
    BY <1>8, <1>11, <1>12
  <2>2. ASSUME NEW m \in k + 1 .. Len(ack) PROVE ~line[m].update
    <3>1. m \in 1 .. Len(ack) /\ ~(m <= k) /\ m \in DOMAIN ack
      BY <1>3, <1>10, <1>11
    <3>2. ack[m].resource = NoResource
      BY <3>1, <1>11 DEF Updates
    <3> QED BY <3>1, <3>2, <1>12
  <2> QED BY <2>1, <2>2 DEF NoUpdates
<1>14. c2 = line[k].pos \/ (c2 = last /\ NoUpdates(line, Len(ack), Len(line)))
  <2>1. CASE resource[q].active # n
    BY <2>1, <1>6, <1>7, <1>11, <1>12
  <2>2. CASE resource[q].active = n
    <3>1. NoUpdates(line, Len(ack), Len(line))
      BY <2>2, <1>1, <1>2, <1>3, <1>4, <1>9, AllDone DEF Ordered
    <3>2. resource[q].active # 0
      BY <2>2, <1>3, <1>4
    <3>3. resource[q].pendingCursor = last
      BY <3>2, <1>1, <1>8 DEF IInv, InMemoryIsLast, InMemory
    <3> QED BY <2>2, <3>1, <3>3, <1>6, <1>7
  <2> QED BY <2>1, <2>2
<1>15. c2 \in Nat /\ Flow(line, Len(ack), TRUE, last, c2, delivered) /\ Synced <= c2
  <2>1. Flow(line, Len(ack), FALSE, last, Synced, delivered)
    BY <1>2, <1>10
  <2> QED BY <2>1, <1>10, <1>11, <1>13, <1>14, FlowExecute
<1>16. /\ \A i \in Inputs : pc[i] = "forward" => h = cur[i]
       /\ (\A i \in Inputs : pc[i] # "forward") => h = <<>>
       /\ \A i \in Inputs : pc[i] \in {"running", "forward"} =>
             last <= pos[i] /\ Reached(pos[i], delivered, line, Len(ack), Len(line))
  BY <1>9 DEF FlowAt
<1>17. FlowAt(line, at, h)'
  BY <1>2, <1>8, <1>10, <1>15, <1>16 DEF FlowAt
<1>18. FlowShape'
  BY <1>17 DEF FlowShape
<1>19. LockShape'
  BY <1>1, <1>2, <1>6, LockFrame DEF Ordered
<1>20. SendShape'
  BY <1>2 DEF Ordered, SendShape
<1>21. StoreShape' /\ Forth
  <2>1. persist \in Nat \cup {NoKey} /\ (persist # NoKey => persist <= Synced) /\ Synced \in Nat
    BY SyncedType DEF Ordered, StoreShape
  <2>2. persist' = persist \/ persist' = c2
    BY <1>6, <1>7
  <2> QED BY <2>1, <2>2, <1>2, <1>8, <1>15 DEF StoreShape, Forth
<1> QED BY <1>18, <1>19, <1>20, <1>21 DEF Ordered

\* Together with the inductive invariant, for a pipeline that drops nothing.
OrderedWithoutDrops == ~dropping => Ordered

LEMMA NextFlows ==
  ASSUME IInv, OrderedWithoutDrops, [Next]_vars
  PROVE  OrderedWithoutDrops' /\ (~dropping => Forth)
<1>0. UNCHANGED dropping
  <2>1. CASE UNCHANGED vars
    BY <2>1 DEF vars
  <2>2. ASSUME NEW i \in Inputs, InputStep(i) PROVE UNCHANGED dropping
    <3>1. CASE Get(i) \/ Wait(i) \/ Lock(i) \/ UpdateTTL(i) \/ ReadCursor(i)
      BY <3>1 DEF Get, Wait, Lock, UpdateTTL, ReadCursor
    <3>2. CASE LockCancelled(i) \/ Unlock(i) \/ Release(i) \/ Forget(i)
      BY <3>2 DEF LockCancelled, Unlock, Release, ReleaseResource, Forget
    <3>3. ASSUME NEW update \in BOOLEAN, Publish(i, update) PROVE UNCHANGED dropping
      BY <3>3 DEF Publish
    <3>4. CASE Forward(i) \/ ForwardDropped(i) \/ DropCallback(i) \/ DropDone(i)
      BY <3>4 DEF Forward, ForwardDropped, DropCallback, DropDone
    <3> QED BY <2>2, <3>1, <3>2, <3>3, <3>4 DEF InputStep
  <2>3. CASE ACKStep
    BY <2>3 DEF ACKStep, ACKEvents, ACKCallback, ACKDone
  <2>4. CASE GCFind \/ GCClean \/ Shutdown \/ Restart
    BY <2>4 DEF GCFind, GCClean, Shutdown, Restart
  <2> QED BY <2>1, <2>2, <2>3, <2>4 DEF Next
<1> SUFFICES ASSUME ~dropping, Ordered PROVE Ordered' /\ Forth
  BY <1>0 DEF OrderedWithoutDrops
<1>1. ASSUME NEW i \in Inputs, InputStep(i) PROVE Ordered' /\ Forth
  <2>0. pc[i] \notin {"callback", "release"}
    BY DEF Ordered, SendShape
  <2>1. CASE Get(i) BY <2>1, GetFlows
  <2>2. CASE Wait(i) BY <2>2, WaitFlows
  <2>3. CASE Lock(i) BY <2>3, LockFlows
  <2>4. CASE LockCancelled(i) BY <2>4, ReleaseFlows DEF LockCancelled
  <2>5. CASE UpdateTTL(i) BY <2>5, UpdateTTLFlows
  <2>6. CASE ReadCursor(i) BY <2>6, ReadCursorFlows
  <2>7. ASSUME NEW update \in BOOLEAN, Publish(i, update) PROVE Ordered' /\ Forth
    BY <2>7, PublishFlows
  <2>8. CASE Forward(i) BY <2>8, ForwardFlows
  <2>9. ~ForwardDropped(i) BY DEF ForwardDropped
  <2>10. ~DropCallback(i) /\ ~DropDone(i) BY <2>0 DEF DropCallback, DropDone
  <2>12. CASE Unlock(i) BY <2>12, UnlockFlows
  <2>13. CASE Release(i) BY <2>13, ReleaseFlows DEF Release
  <2>14. CASE Forget(i) BY <2>14, ForgetFlows
  <2> QED BY <1>1, <2>1, <2>2, <2>3, <2>4, <2>5, <2>6, <2>7, <2>8, <2>9, <2>10, <2>12, <2>13, <2>14
          DEF InputStep
<1>2. ASSUME NEW i \in Inputs, NEW n \in 1 .. MaxEvents, ACKEvents(i, n) PROVE Ordered' /\ Forth
  <2>1. n \in Nat
    BY CursorAssumption
  <2> QED BY <1>2, <2>1, ACKEventsFlows
<1>3. CASE ACKCallback BY <1>3, ACKCallbackFlows
<1>4. CASE ACKDone BY <1>4, ACKDoneFlows
<1>5. CASE GCFind BY <1>5, IdleFlows DEF GCFind, inputs, pipeline
<1>6. CASE GCClean BY <1>6, GCCleanFlows
<1>7. CASE Shutdown BY <1>7, IdleFlows DEF Shutdown, inputs, pipeline
<1>8. CASE Restart BY <1>8, RestartFlows
<1>9. CASE UNCHANGED vars BY <1>9, IdleFlows DEF vars
<1> QED BY <1>1, <1>2, <1>3, <1>4, <1>5, <1>6, <1>7, <1>8, <1>9 DEF Next, ACKStep

\* The line of what is in flight is in order in every state.
LEMMA FlowInvariant == Spec => [](IInv /\ OrderedWithoutDrops)
<1>1. Init => OrderedWithoutDrops
  BY InitFlows DEF OrderedWithoutDrops
<1>2. IInv /\ OrderedWithoutDrops /\ [Next]_vars => OrderedWithoutDrops'
  BY NextFlows
<1> QED BY <1>1, <1>2, InitKeeps, NextKeeps, PTL DEF Spec

\* With a pipeline that drops nothing, an input that starts behind the stored
\* cursor, after any number of restarts and collections, skips no event that was
\* not ACKed.
THEOREM NothingSkipped == Spec => []SentIsDelivered
<1>1. IInv /\ OrderedWithoutDrops => SentIsDelivered
  <2> SUFFICES ASSUME IInv, Ordered, persist # NoKey PROVE 1 .. persist \subseteq delivered
    BY DEF OrderedWithoutDrops, SentIsDelivered, StoredIsDelivered
  <2>1. PICK line, at, h : FlowAt(line, at, h)
    BY DEF Ordered, FlowShape
  <2>2. 1 .. Synced \subseteq delivered
    BY <2>1 DEF FlowAt, Flow
  <2>3. persist \in Nat /\ Synced \in Nat /\ persist <= Synced
    BY SyncedType DEF Ordered, StoreShape
  <2>4. 1 .. persist \subseteq 1 .. Synced
    BY <2>3
  <2> QED BY <2>2, <2>4
<1> QED BY <1>1, FlowInvariant, PTL

\* With such a pipeline, no Execute or UpdateTTL writes a cursor that is behind
\* the one in the persistent store.
THEOREM StoredNeverBack == Spec => NeverBack
<1>1. IInv /\ OrderedWithoutDrops /\ [Next]_vars =>
        [~dropping /\ persist # NoKey /\ persist' # NoKey => persist' >= persist]_vars
  BY NextFlows DEF Forth
<1> QED BY <1>1, FlowInvariant, PTL DEF Spec, NeverBack
=============================================================================
