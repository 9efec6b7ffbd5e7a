----------------------------- MODULE StateStore -----------------------------
(***************************************************************************)
(* The state store frontend (pkg/statestore): a Registry that shares one   *)
(* backend per store name between the Store handles of many goroutines,    *)
(* and closes it with the last of them.                                    *)
(*                                                                         *)
(* Registry.mu makes Get and tryUnregister atomic.  The reference count is *)
(* decremented and the backend closed outside of it: those are steps of    *)
(* their own.  A goroutine has at most one handle at a time; the           *)
(* operations that run on a handle may be many (ops).  A call that fails   *)
(* (the backend can not be opened, the handle is closed) changes nothing   *)
(* and is left out.                                                        *)
(***************************************************************************)
EXTENDS Integers, FiniteSets

CONSTANTS
    Threads, Names,
    Shared,         \* the sharedStore objects; collected ones are used again
    NoShared,
    MaxOps          \* bound: operations in flight on one handle

ASSUME StateStoreAssumption ==
    /\ IsFiniteSet(Threads) /\ IsFiniteSet(Names)
    /\ NoShared \notin Shared
    /\ MaxOps \in Nat

VARIABLES
    active,      \* Registry.active
    wg,          \* Registry.wg
    registry,    \* Registry.Close: "open", "waiting", "closed"
    name,        \* sharedStore.name
    refCount,    \* sharedStore.refCount
    backend,     \* sharedStore.backend: "none", "open", "closed"
    pc,          \* what the goroutine does with its handle
    store,       \* Store.shared of its handle
    ops          \* Store.active: the operations in flight

vars == <<active, wg, registry, name, refCount, backend, pc, store, ops>>

TypeOK ==
    /\ active \in [Names -> Shared \cup {NoShared}]
    /\ wg \in Nat                  \* a WaitGroup panics below zero
    /\ registry \in {"open", "waiting", "closed"}
    /\ name \in [Shared -> Names]
    /\ refCount \in [Shared -> Nat]
    /\ backend \in [Shared -> {"none", "open", "closed"}]
    /\ pc \in [Threads -> {"idle", "open", "closing", "release", "close", "panic"}]
    /\ store \in [Threads -> Shared \cup {NoShared}]
    /\ ops \in [Threads -> 0 .. MaxOps]

Init ==
    /\ active = [n \in Names |-> NoShared]
    /\ wg = 0
    /\ registry = "open"
    /\ name \in [Shared -> Names]
    /\ \A s \in Shared : name[s] = CHOOSE n \in Names : TRUE
    /\ refCount = [s \in Shared |-> 0]
    /\ backend = [s \in Shared |-> "none"]
    /\ pc = [t \in Threads |-> "idle"]
    /\ store = [t \in Threads |-> NoShared]
    /\ ops = [t \in Threads |-> 0]

\* A panic ends the process.
Running == \A t \in Threads : pc[t] # "panic"

\* Nobody refers to the object any more.
Collected(s) == /\ backend[s] # "open"
                /\ \A t \in Threads : store[t] # s
                /\ \A n \in Names : active[n] # s

\* Mutant: the handle does not retain the new store.
GetNewNoRetain(t, n) ==
    /\ Running
    /\ pc[t] = "idle"
    /\ active[n] = NoShared
    /\ registry # "closed"
    /\ \E s \in Shared :
          /\ Collected(s)
          /\ name' = [name EXCEPT ![s] = n]
          /\ refCount' = [refCount EXCEPT ![s] = 1 - 1]
          /\ backend' = [backend EXCEPT ![s] = "open"]
          /\ active' = [active EXCEPT ![n] = s]
          /\ store' = [store EXCEPT ![t] = s]
    /\ wg' = wg + 1
    /\ pc' = [pc EXCEPT ![t] = "open"]
    /\ UNCHANGED <<registry, ops>>

\* Registry.Get for a store that is not open: the backend is opened, with one
\* reference for Get itself (released when it returns) and one for the handle.
GetNew(t, n) ==
    /\ Running
    /\ pc[t] = "idle"
    /\ active[n] = NoShared
    /\ registry # "closed"           \* backend.Access: errRegClosed
    /\ \E s \in Shared :
          /\ Collected(s)
          /\ name' = [name EXCEPT ![s] = n]
          /\ refCount' = [refCount EXCEPT ![s] = 1 + 1 - 1]
          /\ backend' = [backend EXCEPT ![s] = "open"]
          /\ active' = [active EXCEPT ![n] = s]
          /\ store' = [store EXCEPT ![t] = s]
    /\ wg' = wg + 1
    /\ pc' = [pc EXCEPT ![t] = "open"]
    /\ UNCHANGED <<registry, ops>>

\* Mutant: the handle does not retain the store it shares.
GetSharedNoRetain(t, n) ==
    /\ Running
    /\ pc[t] = "idle"
    /\ active[n] # NoShared
    /\ store' = [store EXCEPT ![t] = active[n]]
    /\ pc' = [pc EXCEPT ![t] = "open"]
    /\ UNCHANGED <<active, wg, registry, name, refCount, backend, ops>>

\* Registry.Get for a store that is open.
GetShared(t, n) ==
    /\ Running
    /\ pc[t] = "idle"
    /\ active[n] # NoShared
    /\ refCount' = [refCount EXCEPT ![active[n]] = @ + 1]
    /\ store' = [store EXCEPT ![t] = active[n]]
    /\ pc' = [pc EXCEPT ![t] = "open"]
    /\ UNCHANGED <<active, wg, registry, name, backend, ops>>

\* Has, Get, Set, Remove, Each: registered with Store.active ...
BeginOp(t) ==
    /\ Running
    /\ pc[t] = "open"
    /\ ops[t] < MaxOps
    /\ ops' = [ops EXCEPT ![t] = @ + 1]
    /\ UNCHANGED <<active, wg, registry, name, refCount, backend, pc, store>>

\* ... until the backend has returned.
EndOp(t) ==
    /\ Running
    /\ ops[t] > 0
    /\ ops' = [ops EXCEPT ![t] = @ - 1]
    /\ UNCHANGED <<active, wg, registry, name, refCount, backend, pc, store>>

\* Store.Close: no new operation can start from here on.
Close(t) ==
    /\ Running
    /\ pc[t] = "open"
    /\ pc' = [pc EXCEPT ![t] = "closing"]
    /\ UNCHANGED <<active, wg, registry, name, refCount, backend, store, ops>>

\* The goroutine is done with its handle.
Done(t) == /\ pc' = [pc EXCEPT ![t] = "idle"]
           /\ store' = [store EXCEPT ![t] = NoShared]

\* Mutant: the count is tested before it is decremented.
ReleaseTestsFirst(t) ==
    /\ Running
    /\ pc[t] = "closing"
    /\ ops[t] = 0
    /\ refCount' = [refCount EXCEPT ![store[t]] = @ - 1]
    /\ IF refCount[store[t]] = 0
       THEN pc' = [pc EXCEPT ![t] = "release"] /\ UNCHANGED store
       ELSE Done(t)
    /\ UNCHANGED <<active, wg, registry, name, backend, ops>>

\* sharedStore.Release, once the operations in flight have ended.
Release(t) ==
    /\ Running
    /\ pc[t] = "closing"
    /\ ops[t] = 0
    /\ refCount' = [refCount EXCEPT ![store[t]] = @ - 1]
    /\ IF refCount'[store[t]] = 0
       THEN pc' = [pc EXCEPT ![t] = "release"] /\ UNCHANGED store
       ELSE Done(t)
    /\ UNCHANGED <<active, wg, registry, name, backend, ops>>

\* Mutant: the count is not read again under Registry.mu.
TryUnregisterStale(t) ==
    /\ Running
    /\ pc[t] = "release"
    /\ IF active[name[store[t]]] = NoShared
       THEN /\ pc' = [pc EXCEPT ![t] = "panic"]
            /\ UNCHANGED <<active, wg>>
       ELSE /\ active' = [active EXCEPT ![name[store[t]]] = NoShared]
            /\ wg' = wg - 1
            /\ pc' = [pc EXCEPT ![t] = "close"]
    /\ UNCHANGED <<registry, name, refCount, backend, store, ops>>

\* tryUnregister and unregisterStore, under Registry.mu.
TryUnregister(t) ==
    /\ Running
    /\ pc[t] = "release"
    /\ LET s == store[t]
       IN \/ /\ refCount[s] > 0
             /\ Done(t)
             /\ UNCHANGED <<active, wg>>
          \/ /\ refCount[s] = 0
             /\ active[name[s]] = NoShared
             /\ pc' = [pc EXCEPT ![t] = "panic"]     \* "removing an unknown store"
             /\ UNCHANGED <<active, wg, store>>
          \/ /\ refCount[s] = 0
             /\ active[name[s]] # NoShared
             /\ active' = [active EXCEPT ![name[s]] = NoShared]
             /\ wg' = wg - 1
             /\ pc' = [pc EXCEPT ![t] = "close"]
             /\ UNCHANGED store
    /\ UNCHANGED <<registry, name, refCount, backend, ops>>

CloseBackend(t) ==
    /\ Running
    /\ pc[t] = "close"
    /\ backend' = [backend EXCEPT ![store[t]] = "closed"]
    /\ Done(t)
    /\ UNCHANGED <<active, wg, registry, name, refCount, ops>>

\* Registry.Close waits for the stores in use.
RegistryClose ==
    /\ Running
    /\ registry = "open"
    /\ registry' = "waiting"
    /\ UNCHANGED <<active, wg, name, refCount, backend, pc, store, ops>>

\* Then it closes the backend's registry, whose Close never waits: nothing is
\* ever added to memlog.Registry.wg.
RegistryClosed ==
    /\ Running
    /\ registry = "waiting"
    /\ wg = 0
    /\ registry' = "closed"
    /\ UNCHANGED <<active, wg, name, refCount, backend, pc, store, ops>>

Finish(t) == EndOp(t) \/ Release(t) \/ TryUnregister(t) \/ CloseBackend(t)

Next ==
    \/ \E t \in Threads :
          \/ \E n \in Names : GetNew(t, n) \/ GetShared(t, n)
          \/ BeginOp(t) \/ Close(t) \/ Finish(t)
    \/ RegistryClose
    \/ RegistryClosed

Spec == Init /\ [][Next]_vars

\* A call that has begun goes on.  Nobody has to open or close a store.
Fairness == \A t \in Threads : WF_vars(Finish(t))

FairSpec == Spec /\ Fairness
-----------------------------------------------------------------------------
\* The reference count is the number of handles that are not released.
RefCountIsExact ==
    \A s \in Shared :
        refCount[s] = Cardinality({t \in Threads : store[t] = s /\ pc[t] \in {"open", "closing"}})

\* An operation in flight never meets a closed backend, however the handles of
\* other goroutines come and go.
NoUseAfterClose == \A t \in Threads : ops[t] > 0 => backend[store[t]] = "open"

\* A backend that nobody has a handle of is closed in the end, or handed out
\* again (or the process has panicked).
LastCloseCloses ==
    \A s \in Shared :
        (backend[s] = "open" /\ refCount[s] = 0) ~>
            (backend[s] = "closed" \/ refCount[s] > 0 \/ ~Running)

\* "The backend is shared between multiple instances of this store" (store.go):
\* the handles of one name use the same backend.
BackendIsShared ==
    \A t, u \in Threads :
        pc[t] = "open" /\ pc[u] = "open" /\ name[store[t]] = name[store[u]] => store[t] = store[u]
=============================================================================
