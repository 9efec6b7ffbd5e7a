-------------------------- MODULE StateStoreProofs --------------------------
(***************************************************************************)
(* Proofs about the state store frontend, for any number of goroutines,    *)
(* names, stores and operations in flight.                                 *)
(***************************************************************************)
EXTENDS StateStore, FiniteSetTheorems, TLAPS

\* The goroutines that hold a reference of a store.
Holding(s) == {t \in Threads : store[t] = s /\ pc[t] \in {"open", "closing"}}

\* The names that are in use.
InUse == {n \in Names : active[n] # NoShared}

\* A goroutine has a store from Get until Close has returned, and operations run
\* only before it lets go of it.
HandleShape ==
    \A t \in Threads : /\ pc[t] # "idle" => store[t] \in Shared
                       /\ ops[t] > 0 => pc[t] \in {"open", "closing"}
                       /\ pc[t] \in {"open", "closing"} => backend[store[t]] = "open"

\* What the registry hands out is open and has the name it is asked for.
ActiveShape ==
    \A n \in Names : active[n] # NoShared => name[active[n]] = n /\ backend[active[n]] = "open"

\* A store that is about to be closed is out of reach: nobody holds it, and the
\* registry does not hand it out.
CloseShape ==
    \A t \in Threads : pc[t] = "close" => /\ refCount[store[t]] = 0
                                          /\ \A n \in Names : active[n] # store[t]

\* Registry.wg counts the names in use.
WgIsExact == wg = Cardinality(InUse)

IInv == TypeOK /\ HandleShape /\ ActiveShape /\ CloseShape /\ WgIsExact /\ RefCountIsExact

(***************************************************************************)
(* Counting.                                                               *)
(***************************************************************************)

LEMMA FiniteCounts == /\ IsFiniteSet(InUse)
                      /\ \A s \in Shared : IsFiniteSet(Holding(s))
  <1>1. InUse \in SUBSET Names
    BY DEF InUse
  <1>2. \A s \in Shared : Holding(s) \in SUBSET Threads
    BY DEF Holding
  <1> QED BY <1>1, <1>2, FS_Subset, StateStoreAssumption

\* RefCountIsExact, with the set it counts.
LEMMA ExactCount == RefCountIsExact <=> \A s \in Shared : refCount[s] = Cardinality(Holding(s))
  BY DEF RefCountIsExact, Holding

\* Somebody holds a store exactly if its count is positive.
LEMMA HeldIsCounted ==
    ASSUME IInv, NEW s \in Shared
    PROVE  refCount[s] \in Nat /\ (refCount[s] = 0 <=> Holding(s) = {})
  <1>1. refCount[s] \in Nat /\ refCount[s] = Cardinality(Holding(s))
    BY ExactCount DEF IInv, TypeOK
  <1>2. IsFiniteSet(Holding(s))
    BY FiniteCounts
  <1> QED BY <1>1, <1>2, FS_EmptySet

\* A goroutine takes a reference of s.
LEMMA Retained ==
    ASSUME IInv, NEW t \in Threads, NEW s \in Shared, pc[t] = "idle",
           pc' = [pc EXCEPT ![t] = "open"], store' = [store EXCEPT ![t] = s],
           refCount' = [refCount EXCEPT ![s] = refCount[s] + 1]
    PROVE  RefCountIsExact' /\ refCount' \in [Shared -> Nat]
  <1>0. /\ pc \in [Threads -> {"idle", "open", "closing", "release", "close", "panic"}]
        /\ store \in [Threads -> Shared \cup {NoShared}]
        /\ refCount \in [Shared -> Nat]
    BY DEF IInv, TypeOK
  <1>1. t \notin Holding(s) /\ Holding(s)' = Holding(s) \cup {t}
    BY <1>0 DEF Holding
  <1>2. \A q \in Shared \ {s} : Holding(q)' = Holding(q)
    BY <1>0 DEF Holding
  <1>3. Cardinality(Holding(s)') = Cardinality(Holding(s)) + 1
    <2>1. IsFiniteSet(Holding(s))
      BY FiniteCounts
    <2> QED BY <1>1, <2>1, FS_AddElement
  <1>4. \A q \in Shared : refCount[q] = Cardinality(Holding(q))
    BY ExactCount DEF IInv
  <1>5. \A q \in Shared : refCount'[q] = Cardinality(Holding(q)')
    BY <1>0, <1>2, <1>3, <1>4
  <1>6. RefCountIsExact'
    BY <1>5 DEF RefCountIsExact, Holding
  <1> QED BY <1>0, <1>6

\* Only the references of goroutines that hold the store are counted.
LEMMA OthersCounted ==
    ASSUME IInv, UNCHANGED refCount, \A s \in Shared : Holding(s)' = Holding(s)
    PROVE  RefCountIsExact'
  <1>1. \A s \in Shared : refCount'[s] = Cardinality(Holding(s)')
    BY ExactCount DEF IInv
  <1> QED BY <1>1 DEF RefCountIsExact, Holding

(***************************************************************************)
(* The actions.                                                            *)
(***************************************************************************)

LEMMA InitHolds == Init => IInv
  <1> SUFFICES ASSUME Init PROVE IInv
    OBVIOUS
  <1>1. TypeOK
    BY StateStoreAssumption DEF Init, TypeOK
  <1>2. HandleShape /\ ActiveShape /\ CloseShape
    BY DEF Init, HandleShape, ActiveShape, CloseShape
  <1>3. WgIsExact
    <2>1. InUse = {}
      BY DEF Init, InUse
    <2> QED BY <2>1, FS_EmptySet DEF Init, WgIsExact
  <1>4. RefCountIsExact
    <2>1. \A s \in Shared : Holding(s) = {} /\ refCount[s] = 0
      BY DEF Init, Holding
    <2> QED BY <2>1, FS_EmptySet, ExactCount
  <1> QED BY <1>1, <1>2, <1>3, <1>4 DEF IInv

LEMMA GetNewKeeps ==
    ASSUME IInv, NEW t \in Threads, NEW n \in Names, GetNew(t, n)
    PROVE  IInv'
  <1>1. PICK s \in Shared : /\ Collected(s)
                            /\ name' = [name EXCEPT ![s] = n]
                            /\ refCount' = [refCount EXCEPT ![s] = 1 + 1 - 1]
                            /\ backend' = [backend EXCEPT ![s] = "open"]
                            /\ active' = [active EXCEPT ![n] = s]
                            /\ store' = [store EXCEPT ![t] = s]
    BY DEF GetNew
  <1>2. /\ pc[t] = "idle" /\ active[n] = NoShared /\ wg' = wg + 1
        /\ pc' = [pc EXCEPT ![t] = "open"] /\ UNCHANGED <<registry, ops>>
    BY DEF GetNew
  <1>3. refCount[s] = 0
    <2>1. Holding(s) = {}
      BY <1>1 DEF Collected, Holding
    <2> QED BY <2>1, HeldIsCounted
  <1>4. RefCountIsExact' /\ refCount' \in [Shared -> Nat]
    <2>1. refCount' = [refCount EXCEPT ![s] = refCount[s] + 1]
      BY <1>1, <1>3
    <2> QED BY <1>1, <1>2, <2>1, Retained
  <1>5. TypeOK'
    BY <1>1, <1>2, <1>4 DEF IInv, TypeOK
  <1>6. HandleShape'
    BY <1>1, <1>2 DEF IInv, TypeOK, HandleShape
  <1>7. ActiveShape'
    BY <1>1, StateStoreAssumption DEF IInv, TypeOK, ActiveShape, Collected
  <1>8. CloseShape'
    BY <1>1, <1>2 DEF IInv, TypeOK, CloseShape, HandleShape, Collected
  <1>9. WgIsExact'
    <2>1. InUse' = InUse \cup {n} /\ n \notin InUse
      BY <1>1, <1>2, StateStoreAssumption DEF IInv, TypeOK, InUse
    <2> QED BY <1>2, <2>1, FiniteCounts, FS_AddElement DEF IInv, WgIsExact
  <1> QED BY <1>4, <1>5, <1>6, <1>7, <1>8, <1>9 DEF IInv

LEMMA GetSharedKeeps ==
    ASSUME IInv, NEW t \in Threads, NEW n \in Names, GetShared(t, n)
    PROVE  IInv'
  <1> DEFINE s == active[n]
  <1>1. /\ pc[t] = "idle" /\ s # NoShared
        /\ refCount' = [refCount EXCEPT ![s] = refCount[s] + 1]
        /\ store' = [store EXCEPT ![t] = s] /\ pc' = [pc EXCEPT ![t] = "open"]
        /\ UNCHANGED <<active, wg, registry, name, backend, ops>>
    BY DEF GetShared
  <1>2. s \in Shared /\ backend[s] = "open"
    BY <1>1 DEF IInv, TypeOK, ActiveShape
  <1>3. RefCountIsExact' /\ refCount' \in [Shared -> Nat]
    BY <1>1, <1>2, Retained
  <1>4. TypeOK'
    BY <1>1, <1>2, <1>3 DEF IInv, TypeOK
  <1>5. HandleShape'
    BY <1>1, <1>2 DEF IInv, TypeOK, HandleShape
  <1>6. ActiveShape'
    BY <1>1 DEF IInv, ActiveShape
  <1>7. CloseShape'
    BY <1>1, <1>2 DEF IInv, TypeOK, CloseShape, HandleShape
  <1>8. WgIsExact'
    BY <1>1 DEF IInv, WgIsExact, InUse
  <1> QED BY <1>3, <1>4, <1>5, <1>6, <1>7, <1>8 DEF IInv

\* Steps that change operations, the registry, or the place of a goroutine that
\* keeps its reference.
LEMMA QuietKeeps ==
    ASSUME IInv, \/ \E t \in Threads : BeginOp(t) \/ EndOp(t) \/ Close(t)
                 \/ RegistryClose \/ RegistryClosed \/ UNCHANGED vars
    PROVE  IInv'
  <1>1. UNCHANGED <<active, wg, name, refCount, backend, store>>
    BY DEF BeginOp, EndOp, Close, RegistryClose, RegistryClosed, vars
  <1>2. /\ pc' \in [Threads -> {"idle", "open", "closing", "release", "close", "panic"}]
        /\ ops' \in [Threads -> 0 .. MaxOps]
        /\ registry' \in {"open", "waiting", "closed"}
    BY StateStoreAssumption DEF BeginOp, EndOp, Close, RegistryClose, RegistryClosed, vars, IInv, TypeOK
  <1>3. \A t \in Threads : \/ pc'[t] = pc[t]
                           \/ pc[t] = "open" /\ pc'[t] = "closing"
    BY DEF BeginOp, EndOp, Close, RegistryClose, RegistryClosed, vars, IInv, TypeOK
  <1>4. \A t \in Threads : ops'[t] > 0 => ops[t] > 0 \/ pc[t] = "open"
    BY StateStoreAssumption DEF BeginOp, EndOp, Close, RegistryClose, RegistryClosed, vars, IInv, TypeOK
  <1>5. TypeOK'
    BY <1>1, <1>2 DEF IInv, TypeOK
  <1>6. HandleShape' /\ ActiveShape' /\ CloseShape'
    BY <1>1, <1>3, <1>4 DEF IInv, HandleShape, ActiveShape, CloseShape
  <1>7. WgIsExact'
    BY <1>1 DEF IInv, WgIsExact, InUse
  <1>8. RefCountIsExact'
    <2>1. \A s \in Shared : Holding(s)' = Holding(s)
      BY <1>1, <1>3 DEF Holding
    <2> QED BY <1>1, <2>1, OthersCounted
  <1> QED BY <1>5, <1>6, <1>7, <1>8 DEF IInv

\* A goroutine that lets go of its reference had one: the count stays natural,
\* and the store is not being closed.
LEMMA ReleaseKeeps ==
    ASSUME IInv, NEW t \in Threads, Release(t)
    PROVE  IInv'
  <1>0. PICK s : s = store[t]
    OBVIOUS
  <1>1. /\ pc[t] = "closing" /\ ops[t] = 0
        /\ refCount' = [refCount EXCEPT ![s] = refCount[s] - 1]
        /\ UNCHANGED <<active, wg, registry, name, backend, ops>>
    BY <1>0 DEF Release
  <1>2. \/ pc' = [pc EXCEPT ![t] = "release"] /\ store' = store
        \/ pc' = [pc EXCEPT ![t] = "idle"] /\ store' = [store EXCEPT ![t] = NoShared]
    BY DEF Release, Done
  <1>3. s \in Shared /\ t \in Holding(s)
    BY <1>0, <1>1 DEF IInv, HandleShape, Holding
  <1>4. refCount[s] \in Nat /\ refCount[s] # 0
    BY <1>3, HeldIsCounted
  <1>5. TypeOK'
    <2>1. refCount' \in [Shared -> Nat]
      BY <1>1, <1>3, <1>4 DEF IInv, TypeOK
    <2> QED BY <1>1, <1>2, <2>1 DEF IInv, TypeOK
  <1>6. HandleShape'
    BY <1>1, <1>2 DEF IInv, TypeOK, HandleShape
  <1>7. ActiveShape' /\ WgIsExact'
    BY <1>1 DEF IInv, ActiveShape, WgIsExact, InUse
  <1>8. CloseShape'
    <2>1. \A u \in Threads : pc'[u] = "close" => pc[u] = "close" /\ store'[u] = store[u] /\ store[u] # s
      BY <1>1, <1>2, <1>4 DEF IInv, TypeOK, CloseShape
    <2> QED BY <1>1, <2>1 DEF IInv, TypeOK, CloseShape
  <1>9. RefCountIsExact'
    <2>1. Holding(s)' = Holding(s) \ {t} /\ \A q \in Shared \ {s} : Holding(q)' = Holding(q)
      BY <1>0, <1>1, <1>2, <1>3, StateStoreAssumption DEF IInv, TypeOK, Holding
    <2>2. Cardinality(Holding(s)') = Cardinality(Holding(s)) - 1
      <3>1. IsFiniteSet(Holding(s))
        BY <1>3, FiniteCounts
      <3> QED BY <1>3, <2>1, <3>1, FS_RemoveElement
    <2>3. \A q \in Shared : refCount[q] = Cardinality(Holding(q))
      BY ExactCount DEF IInv
    <2>4. \A q \in Shared : refCount'[q] = Cardinality(Holding(q)')
      BY <1>1, <1>3, <2>1, <2>2, <2>3 DEF IInv, TypeOK
    <2> QED BY <2>4 DEF RefCountIsExact, Holding
  <1> QED BY <1>5, <1>6, <1>7, <1>8, <1>9 DEF IInv

\* tryUnregister removes the name, which may be that of a newer store; in either
\* case its own store is out of reach afterwards.
LEMMA TryUnregisterKeeps ==
    ASSUME IInv, NEW t \in Threads, TryUnregister(t)
    PROVE  IInv'
  <1> DEFINE s == store[t]
  <1>1. pc[t] = "release" /\ UNCHANGED <<registry, name, refCount, backend, ops>>
    BY DEF TryUnregister
  <1>2. s \in Shared
    BY <1>1 DEF IInv, HandleShape
  <1>3. \/ /\ pc' = [pc EXCEPT ![t] = "idle"] /\ store' = [store EXCEPT ![t] = NoShared]
           /\ UNCHANGED <<active, wg>>
        \/ /\ pc' = [pc EXCEPT ![t] = "panic"]
           /\ UNCHANGED <<active, wg, store>>
        \/ /\ refCount[s] = 0 /\ active[name[s]] # NoShared
           /\ active' = [active EXCEPT ![name[s]] = NoShared]
           /\ wg' = wg - 1 /\ pc' = [pc EXCEPT ![t] = "close"] /\ store' = store
    BY DEF TryUnregister, Done
  <1>4. \A q \in Shared : Holding(q)' = Holding(q)
    BY <1>1, <1>3 DEF IInv, TypeOK, Holding
  <1>5. RefCountIsExact'
    BY <1>1, <1>4, OthersCounted
  <1>6. HandleShape'
    BY <1>1, <1>3 DEF IInv, TypeOK, HandleShape
  <1>7. CASE active' = active /\ wg' = wg /\ pc'[t] # "close"
    <2>1. TypeOK'
      BY <1>1, <1>3, <1>7 DEF IInv, TypeOK
    <2>2. ActiveShape' /\ WgIsExact'
      BY <1>1, <1>7 DEF IInv, ActiveShape, WgIsExact, InUse
    <2>3. CloseShape'
      BY <1>1, <1>3, <1>7 DEF IInv, TypeOK, CloseShape
    <2> QED BY <1>5, <1>6, <2>1, <2>2, <2>3 DEF IInv
  <1>8. CASE /\ refCount[s] = 0 /\ active[name[s]] # NoShared
             /\ active' = [active EXCEPT ![name[s]] = NoShared]
             /\ wg' = wg - 1 /\ pc' = [pc EXCEPT ![t] = "close"] /\ store' = store
    <2>1. name[s] \in Names /\ name[s] \in InUse
      BY <1>2, <1>8 DEF IInv, TypeOK, InUse
    <2>2. InUse' = InUse \ {name[s]}
      BY <1>8, <2>1 DEF IInv, TypeOK, InUse
    <2>3. WgIsExact' /\ wg' \in Nat
      <3>1. Cardinality(InUse') = Cardinality(InUse) - 1
        BY <2>1, <2>2, FiniteCounts, FS_RemoveElement
      <3>2. Cardinality(InUse') \in Nat
        <4>1. IsFiniteSet(InUse')
          BY <2>2, FiniteCounts, FS_RemoveElement
        <4> QED BY <4>1, FS_CardinalityType
      <3>3. wg = Cardinality(InUse) /\ wg \in Nat
        BY DEF IInv, WgIsExact, TypeOK
      <3>4. wg' = Cardinality(InUse')
        BY <1>8, <3>1, <3>3
      <3> QED BY <3>2, <3>4 DEF WgIsExact, InUse
    <2>4. TypeOK'
      BY <1>1, <1>8, <2>1, <2>3 DEF IInv, TypeOK
    <2>5. ActiveShape'
      BY <1>1, <1>8, <2>1 DEF IInv, TypeOK, ActiveShape
    <2>6. \A n \in Names : active'[n] # s
      BY <1>2, <1>8, <2>1, StateStoreAssumption DEF IInv, TypeOK, ActiveShape
    <2>7. CloseShape'
      BY <1>1, <1>2, <1>8, <2>1, <2>6, StateStoreAssumption DEF IInv, TypeOK, CloseShape, HandleShape
    <2> QED BY <1>5, <1>6, <2>3, <2>4, <2>5, <2>7 DEF IInv
  <1> QED BY <1>3, <1>7, <1>8 DEF IInv, TypeOK

\* The backend is closed when nobody holds it and the registry does not hand it
\* out.
LEMMA CloseBackendKeeps ==
    ASSUME IInv, NEW t \in Threads, CloseBackend(t)
    PROVE  IInv'
  <1> DEFINE s == store[t]
  <1>1. /\ pc[t] = "close" /\ backend' = [backend EXCEPT ![s] = "closed"]
        /\ pc' = [pc EXCEPT ![t] = "idle"] /\ store' = [store EXCEPT ![t] = NoShared]
        /\ UNCHANGED <<active, wg, registry, name, refCount, ops>>
    BY DEF CloseBackend, Done
  <1>2. s \in Shared /\ refCount[s] = 0 /\ \A n \in Names : active[n] # s
    BY <1>1 DEF IInv, HandleShape, CloseShape
  <1>3. Holding(s) = {}
    BY <1>2, HeldIsCounted
  <1>4. TypeOK'
    BY <1>1 DEF IInv, TypeOK
  <1>5. HandleShape'
    BY <1>1, <1>3 DEF IInv, TypeOK, HandleShape, Holding
  <1>6. ActiveShape'
    BY <1>1, <1>2 DEF IInv, TypeOK, ActiveShape
  <1>7. CloseShape'
    BY <1>1 DEF IInv, TypeOK, CloseShape
  <1>8. WgIsExact'
    BY <1>1 DEF IInv, WgIsExact, InUse
  <1>9. RefCountIsExact'
    <2>1. \A q \in Shared : Holding(q)' = Holding(q)
      BY <1>1, StateStoreAssumption DEF IInv, TypeOK, Holding
    <2> QED BY <1>1, <2>1, OthersCounted
  <1> QED BY <1>4, <1>5, <1>6, <1>7, <1>8, <1>9 DEF IInv

LEMMA NextKeeps == IInv /\ [Next]_vars => IInv'
  <1> SUFFICES ASSUME IInv, [Next]_vars PROVE IInv'
    OBVIOUS
  <1>1. CASE \E t \in Threads, n \in Names : GetNew(t, n) \/ GetShared(t, n)
    BY <1>1, GetNewKeeps, GetSharedKeeps
  <1>2. CASE \E t \in Threads : Finish(t)
    BY <1>2, QuietKeeps, ReleaseKeeps, TryUnregisterKeeps, CloseBackendKeeps DEF Finish
  <1>3. CASE \/ \E t \in Threads : BeginOp(t) \/ Close(t)
             \/ RegistryClose \/ RegistryClosed \/ UNCHANGED vars
    BY <1>3, QuietKeeps
  <1> QED BY <1>1, <1>2, <1>3 DEF Next

(***************************************************************************)
(* The theorems.                                                           *)
(***************************************************************************)

\* The invariant holds for all goroutines, names and stores.
THEOREM InductiveInvariant == Spec => []IInv
  BY InitHolds, NextKeeps, PTL DEF Spec

\* Reference counts and the wait group of the registry never go below zero, also
\* when two goroutines release a store at the same time.
THEOREM TypeCorrect == Spec => []TypeOK
  <1>1. IInv => TypeOK
    BY DEF IInv
  <1> QED BY <1>1, InductiveInvariant, PTL

\* The wait group of the registry counts the names in use, so that Registry.Close
\* goes on exactly when there are none.
THEOREM WaitGroupExact == Spec => []WgIsExact
  <1>1. IInv => WgIsExact
    BY DEF IInv
  <1> QED BY <1>1, InductiveInvariant, PTL

\* The reference count of a store is the number of handles that are not released,
\* although it is changed outside of Registry.mu.
THEOREM RefCountExact == Spec => []RefCountIsExact
  <1>1. IInv => RefCountIsExact
    BY DEF IInv
  <1> QED BY <1>1, InductiveInvariant, PTL

\* No operation meets a closed backend, even after a late release has removed the
\* wrong store from the registry.
THEOREM UseBeforeClose == Spec => []NoUseAfterClose
  <1>1. IInv => NoUseAfterClose
    BY DEF IInv, HandleShape, NoUseAfterClose
  <1> QED BY <1>1, InductiveInvariant, PTL
=============================================================================
