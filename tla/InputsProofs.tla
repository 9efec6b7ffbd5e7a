---------------------------- MODULE InputsProofs ----------------------------
(***************************************************************************)
(* Proofs about the input framework, for any number of managers, inputs    *)
(* and sources.                                                            *)
(***************************************************************************)
EXTENDS Inputs, TLAPS

WorkerPC == {"done", "connect", "lock", "waiting", "running", "unlock", "close", "finish"}

ManagerRecord == [init : {"none", "ok", "error"}, refs : Nat, closed : BOOLEAN,
                  cleaner : {"none", "running", "released", "done"}]

\* The references of a manager are its own and the one of its cleaner, and are
\* given back together.
ManagerShape ==
    \A m \in Managers : /\ manager[m].init = "none" => manager[m].refs = 0 /\ manager[m].cleaner = "none"
                        /\ manager[m].init = "ok" => manager[m].refs > 0 \/ manager[m].closed
                        /\ manager[m].cleaner = "running" => manager[m].refs = 2
                        /\ manager[m].cleaner = "released" => manager[m].refs = 1

\* The loader initialises a manager once, and before any input is created.
LoaderShape ==
    \A m \in Managers : loader.pc = "none" \/ (loader.pc = "init" /\ m \in loader.todo)
                        => manager[m].init = "none"

\* A goroutine runs only inside of the Run of its input.
WorkerShape ==
    \A w \in Workers : worker[w].pc # "done" => /\ input[w[1]].pc = "running"
                                                /\ w \in WorkersOf(w[1])

IInv == TypeOK /\ ManagerShape /\ LoaderShape /\ WorkerShape /\ CreatedHasStore /\ LockIsHeld

\* What a goroutine is, and that the source of a cursor input has a lock.
LEMMA WorkerIsPair ==
    \A w \in Workers : w[1] \in Inputs /\ (IsCursor(w) => w[2] \in Sources)
  BY DEF Workers, Sources, IsCursor

\* The empty program: nothing is initialised, no goroutine, no lock taken.
LEMMA InitHolds == Init => IInv
  <1> SUFFICES ASSUME Init PROVE IInv
    OBVIOUS
  <1>1. TypeOK
    BY DEF Init, TypeOK
  <1>2. ManagerShape /\ LoaderShape
    BY DEF Init, ManagerShape, LoaderShape
  <1>3. WorkerShape
    BY DEF Init, WorkerShape
  <1>4. CreatedHasStore
    <2>1. \A i \in Inputs : input[i].manager \notin CursorManagers
      BY InputsAssumption DEF Init
    <2> QED BY <2>1 DEF CreatedHasStore
  <1>5. LockIsHeld
    BY InputsAssumption, WorkerIsPair DEF Init, LockIsHeld
  <1> QED BY <1>1, <1>2, <1>3, <1>4, <1>5 DEF IInv

(***************************************************************************)
(* The loader and the managers: inputs, goroutines and locks are left      *)
(* alone.                                                                  *)
(***************************************************************************)

\* An input keeps its store if managers that have opened theirs stay so.
LEMMA SetupKeeps ==
    ASSUME IInv, UNCHANGED <<input, worker, lock>>, TypeOK', ManagerShape', LoaderShape',
           \A m \in Managers : manager[m].init = "ok" => manager'[m].init = "ok"
    PROVE  IInv'
  <1>1. WorkerShape'
    BY DEF IInv, WorkerShape, WorkersOf
  <1>2. LockIsHeld'
    BY DEF IInv, LockIsHeld
  <1>3. CreatedHasStore'
    BY InputsAssumption DEF IInv, CreatedHasStore, ManagerShape, TypeOK
  <1> QED BY <1>1, <1>2, <1>3 DEF IInv

\* store.Release closes the store with its last reference.
LEMMA ReleasedFields ==
    ASSUME NEW x \in ManagerRecord, NEW n \in Nat, x.refs >= n
    PROVE  /\ Release(x, n) \in ManagerRecord
           /\ Release(x, n).init = x.init
           /\ Release(x, n).refs = x.refs - n
           /\ Release(x, n).cleaner = x.cleaner
           /\ x.refs = n => Release(x, n).closed
  <1>1. ASSUME NEW a \in Nat, NEW b \in BOOLEAN
        PROVE  LET y == [x EXCEPT !.refs = a, !.closed = b]
               IN y \in ManagerRecord /\ y.init = x.init /\ y.refs = a /\ y.closed = b /\ y.cleaner = x.cleaner
    BY DEF ManagerRecord
  <1>2. x.refs - n \in Nat /\ (x.refs = n) \in BOOLEAN
    BY DEF ManagerRecord
  <1> DEFINE y == Release(x, n)
  <1>3. y \in ManagerRecord /\ y.init = x.init /\ y.refs = x.refs - n /\ y.cleaner = x.cleaner
    BY <1>1, <1>2, Zenon DEF Release
  <1>4. x.refs = n => y.closed
    BY DEF Release, ManagerRecord
  <1> QED BY <1>3, <1>4

\* The first call of InputManager.init opens the store with one reference, or
\* leaves an error; later ones do nothing.
LEMMA InitOnceShape ==
    ASSUME TypeOK, NEW m \in Managers, NEW ok \in BOOLEAN, manager[m].init = "none"
    PROVE  LET r == InitOnce(m, ok)
           IN /\ r \in ManagerRecord
              /\ r.init = IF ok THEN "ok" ELSE "error"
              /\ r.refs = IF ok THEN 1 ELSE manager[m].refs
              /\ r.closed = manager[m].closed
              /\ r.cleaner = manager[m].cleaner
  <1>1. manager[m] \in ManagerRecord
    BY DEF TypeOK, ManagerRecord
  <1>2. CASE ok
    <2>1. InitOnce(m, ok) = [manager[m] EXCEPT !.init = "ok", !.refs = 1]
      BY <1>2 DEF InitOnce
    <2> DEFINE y == InitOnce(m, ok)
    <2>2. /\ y \in ManagerRecord /\ y.init = "ok" /\ y.refs = 1
          /\ y.closed = manager[m].closed /\ y.cleaner = manager[m].cleaner
      <3>1. PICK x \in ManagerRecord : x = manager[m]
        BY <1>1
      <3>2. y = [x EXCEPT !.init = "ok", !.refs = 1]
        BY <2>1, <3>1
      <3> HIDE DEF y
      <3>3. y \in ManagerRecord /\ y.init = "ok" /\ y.refs = 1 /\ y.closed = x.closed /\ y.cleaner = x.cleaner
        BY <3>2 DEF ManagerRecord
      <3> QED BY <3>1, <3>3
    <2> QED BY <1>2, <2>2
  <1>3. CASE ~ok
    <2>1. InitOnce(m, ok) = [manager[m] EXCEPT !.init = "error"]
      BY <1>3 DEF InitOnce
    <2> QED BY <1>1, <1>3, <2>1 DEF ManagerRecord
  <1> QED BY <1>2, <1>3

\* Validated plugins have managers.
LEMMA NewLoaderKeeps ==
    ASSUME IInv, NEW ps \in PluginLists, NewLoader(ps)
    PROVE  IInv'
  <1>1. ValidatePlugins(ps) => {ps[i].manager : i \in DOMAIN ps} \subseteq Managers
    BY InputsAssumption DEF ValidatePlugins, Validate
  <1>2. TypeOK'
    BY <1>1 DEF IInv, NewLoader, TypeOK
  <1>3. ManagerShape'
    BY DEF IInv, NewLoader, ManagerShape
  <1>4. LoaderShape'
    BY DEF IInv, NewLoader, LoaderShape, TypeOK
  <1> QED BY <1>2, <1>3, <1>4, SetupKeeps DEF NewLoader

LEMMA LoaderReadyKeeps ==
    ASSUME IInv, LoaderReady
    PROVE  IInv'
  <1>1. TypeOK' /\ ManagerShape' /\ LoaderShape'
    BY DEF IInv, LoaderReady, TypeOK, ManagerShape, LoaderShape
  <1> QED BY <1>1, SetupKeeps DEF LoaderReady

LEMMA StopGroupKeeps ==
    ASSUME IInv, StopGroup
    PROVE  IInv'
  <1>1. TypeOK' /\ ManagerShape' /\ LoaderShape'
    BY DEF IInv, StopGroup, TypeOK, ManagerShape, LoaderShape
  <1> QED BY <1>1, SetupKeeps DEF StopGroup

\* The manager had no reference before: what Init takes it keeps, or gives back
\* as a whole if the cleaner does not start.
LEMMA LoaderInitKeeps ==
    ASSUME IInv, NEW m \in Managers, NEW ok \in BOOLEAN, LoaderInit(m, ok)
    PROVE  IInv'
  <1> DEFINE r == CursorInit(m, ok)
  <1>1. manager[m].init = "none" /\ manager[m].refs = 0 /\ manager[m].cleaner = "none"
    BY DEF IInv, LoaderInit, LoaderShape, ManagerShape
  <1>2. /\ r \in ManagerRecord
        /\ r.init = "none" => r.refs = 0 /\ r.cleaner = "none"
        /\ r.init = "ok" => r.refs > 0 \/ r.closed
        /\ r.cleaner = "running" => r.refs = 2
        /\ r.cleaner # "released"
    <2> DEFINE q == InitOnce(m, ok)
    <2>1. manager[m] \in ManagerRecord
      BY DEF IInv, TypeOK, ManagerRecord
    <2>2. /\ q \in ManagerRecord
          /\ q.init = IF ok THEN "ok" ELSE "error"
          /\ q.refs = IF ok THEN 1 ELSE 0
          /\ q.cleaner = "none"
      BY <1>1, InitOnceShape DEF IInv
    <2> HIDE DEF q
    <2>3. r = CASE mode # "run" -> manager[m]
                [] mode = "run" /\ q.init = "error" -> q
                [] OTHER -> IF group = "up" THEN [q EXCEPT !.refs = @ + 1, !.cleaner = "running"]
                            ELSE Release([q EXCEPT !.refs = @ + 1], 2)
      BY Zenon DEF CursorInit, q
    <2> HIDE DEF r
    <2>4. CASE mode # "run"
      BY <1>1, <2>1, <2>3, <2>4
    <2>5. CASE mode = "run" /\ ~ok
      BY <2>2, <2>3, <2>5
    <2>6. CASE mode = "run" /\ ok /\ group = "up"
      <3>1. r = [q EXCEPT !.refs = q.refs + 1, !.cleaner = "running"]
        BY <2>2, <2>3, <2>6
      <3>2. r \in ManagerRecord /\ r.init = q.init /\ r.refs = q.refs + 1 /\ r.cleaner = "running"
        <4>1. PICK x \in ManagerRecord : x = q
          BY <2>2
        <4>2. PICK n \in Nat : n = x.refs + 1
          BY DEF ManagerRecord
        <4>3. r = [x EXCEPT !.refs = n, !.cleaner = "running"]
          BY <3>1, <4>1, <4>2
        <4>4. r \in ManagerRecord /\ r.init = x.init /\ r.refs = n /\ r.cleaner = "running"
          BY <4>3 DEF ManagerRecord
        <4> QED BY <4>1, <4>2, <4>4
      <3> QED BY <2>2, <2>6, <3>2
    <2>7. CASE mode = "run" /\ ok /\ group # "up"
      <3> DEFINE p == [q EXCEPT !.refs = q.refs + 1]
      <3>1. r = Release(p, 2)
        BY <2>2, <2>3, <2>7
      <3>2. p \in ManagerRecord /\ p.init = "ok" /\ p.refs = 2 /\ p.cleaner = "none"
        BY <2>2, <2>7 DEF ManagerRecord
      <3> HIDE DEF p
      <3> QED BY <3>1, <3>2, ReleasedFields
    <2> QED BY <2>4, <2>5, <2>6, <2>7
  <1>3. manager' = manager \/ manager' = [manager EXCEPT ![m] = r]
    BY DEF LoaderInit
  <1> HIDE DEF r
  <1>4. TypeOK'
    <2>1. manager' \in [Managers -> ManagerRecord]
      BY <1>2, <1>3 DEF IInv, TypeOK, ManagerRecord
    <2>2. loader' \in [pc : {"none", "init", "ready", "failed"},
                       registry : SUBSET Managers, todo : SUBSET Managers]
      <3>1. \/ loader' = [loader EXCEPT !.pc = "failed"]
            \/ loader' = [loader EXCEPT !.todo = @ \ {m}]
        BY DEF LoaderInit
      <3>2. loader \in [pc : {"none", "init", "ready", "failed"},
                         registry : SUBSET Managers, todo : SUBSET Managers]
        BY DEF IInv, TypeOK
      <3>3. CASE loader' = [loader EXCEPT !.pc = "failed"]
        BY <3>2, <3>3
      <3>4. CASE loader' = [loader EXCEPT !.todo = @ \ {m}]
        BY <3>2, <3>4
      <3> QED BY <3>1, <3>3, <3>4
    <2>3. TypeOK
      BY DEF IInv
    <2>4. UNCHANGED <<mode, group, input, worker, lock>>
      BY DEF LoaderInit
    <2> QED BY <2>1, <2>2, <2>3, <2>4 DEF TypeOK, ManagerRecord
  <1>5. ManagerShape'
    BY <1>2, <1>3 DEF IInv, ManagerShape, TypeOK
  <1>6. LoaderShape'
    <2>1. /\ loader'.pc # "none"
          /\ loader'.pc = "init" => loader.pc = "init" /\ loader'.todo = loader.todo \ {m}
      BY DEF IInv, TypeOK, LoaderInit
    <2> QED BY <1>3, <2>1 DEF IInv, LoaderShape, TypeOK
  <1>7. \A n \in Managers : manager[n].init = "ok" => manager'[n].init = "ok"
    BY <1>1, <1>3 DEF IInv, TypeOK
  <1> QED BY <1>4, <1>5, <1>6, <1>7, SetupKeeps DEF LoaderInit

\* The cleaner gives back the second reference, shutdown the first one.
LEMMA CleanerKeeps ==
    ASSUME IInv, NEW m \in Managers, Cleaner(m)
    PROVE  IInv'
  <1> DEFINE q == Release(manager[m], 1)
             next == IF manager[m].cleaner = "running" THEN "released" ELSE "done"
             r == [q EXCEPT !.cleaner = next]
  <1>1. \/ manager[m].cleaner = "running" /\ manager[m].refs = 2
        \/ manager[m].cleaner = "released" /\ manager[m].refs = 1
    <2>1. manager[m].cleaner \in {"running", "released"}
      BY DEF Cleaner, CleanerStops, Shutdown
    <2> QED BY <2>1 DEF IInv, ManagerShape
  <1>2. manager' = [manager EXCEPT ![m] = r]
    BY DEF Cleaner, CleanerStops, Shutdown, IInv, TypeOK
  <1>3. UNCHANGED <<mode, loader, group, input, worker, lock>>
    BY DEF Cleaner, CleanerStops, Shutdown
  <1>4. manager[m] \in ManagerRecord
    BY DEF IInv, TypeOK, ManagerRecord
  <1>5. /\ q \in ManagerRecord /\ q.init = manager[m].init /\ q.refs = manager[m].refs - 1
        /\ manager[m].refs = 1 => q.closed
    BY <1>1, <1>4, ReleasedFields
  <1> HIDE DEF q
  <1>6. /\ r \in ManagerRecord /\ r.init = manager[m].init /\ r.refs = q.refs
        /\ r.closed = q.closed /\ r.cleaner = next
    BY <1>5 DEF ManagerRecord
  <1> HIDE DEF r
  <1>7. TypeOK'
    BY <1>2, <1>3, <1>6 DEF IInv, TypeOK, ManagerRecord
  <1>8. manager[m].init # "none"
    BY <1>1 DEF IInv, ManagerShape
  <1>9. ManagerShape'
    BY <1>1, <1>2, <1>4, <1>5, <1>6, <1>8 DEF IInv, TypeOK, ManagerShape
  <1>10. LoaderShape' /\ \A n \in Managers : manager[n].init = "ok" => manager'[n].init = "ok"
    BY <1>2, <1>3, <1>6 DEF IInv, TypeOK, LoaderShape
  <1> QED BY <1>3, <1>7, <1>9, <1>10, SetupKeeps

(***************************************************************************)
(* Inputs.                                                                 *)
(***************************************************************************)

\* An input is created for a manager that has its store; no goroutine of it can
\* run yet.
LEMMA ConfigureKeeps ==
    ASSUME IInv, NEW i \in Inputs, NEW type \in Managers \cup {None}, NEW ok \in BOOLEAN,
           NEW valid \in BOOLEAN, Configure(i, type, ok, valid)
    PROVE  IInv'
  <1> DEFINE m == IF type = None THEN DefaultType ELSE type
             good == input'[i].pc = "created"
  <1>1. m \in Managers /\ loader.pc = "ready" /\ input[i].pc = "none"
    BY DEF Configure, IInv, TypeOK
  <1>2. UNCHANGED <<mode, loader, group, worker, lock>>
    BY DEF Configure
  <1>3. \/ input' = input
        \/ input' = [input EXCEPT ![i].pc = "created", ![i].manager = m]
    BY DEF Configure, CreateCursor, CreateStateless, Created
  <1>4. manager' = manager \/ (manager[m].init = "none" /\ manager' = [manager EXCEPT ![m] = InitOnce(m, ok)])
    <2>1. manager[m].init # "none" => [manager EXCEPT ![m] = InitOnce(m, ok)] = manager
      BY <1>1 DEF InitOnce, IInv, TypeOK
    <2> QED BY <2>1 DEF Configure, CreateCursor, CreateStateless
  <1>5. input' # input /\ m \in CursorManagers => manager'[m].init = "ok"
    BY DEF Configure, CreateCursor, Created
  <1> HIDE DEF m
  <1>6. manager[m].init = "none" =>
           /\ InitOnce(m, ok) \in ManagerRecord
           /\ InitOnce(m, ok).init \in {"ok", "error"}
           /\ InitOnce(m, ok).init = "ok" => InitOnce(m, ok).refs > 0
           /\ InitOnce(m, ok).cleaner = "none"
    BY <1>1, InitOnceShape DEF IInv, ManagerShape
  <1>7. TypeOK'
    <2>1. manager' \in [Managers -> ManagerRecord]
      BY <1>1, <1>4, <1>6 DEF IInv, TypeOK, ManagerRecord
    <2>2. input' \in [Inputs -> [pc : {"none", "created", "running", "returned"},
                                 manager : Managers \cup {None}, cancel : BOOLEAN, err : BOOLEAN]]
      BY <1>1, <1>3 DEF IInv, TypeOK
    <2> QED BY <1>2, <2>1, <2>2 DEF IInv, TypeOK, ManagerRecord
  <1>8. ManagerShape'
    BY <1>1, <1>4, <1>6 DEF IInv, TypeOK, ManagerShape
  <1>9. LoaderShape'
    BY <1>1, <1>2 DEF LoaderShape
  <1>10. WorkerShape'
    <2>1. \A w \in Workers : worker[w].pc # "done" => w[1] # i
      BY <1>1 DEF IInv, WorkerShape
    <2>2. \A j \in Inputs : j # i => input'[j] = input[j]
      BY <1>3 DEF IInv, TypeOK
    <2> QED BY <1>2, <2>1, <2>2, WorkerIsPair DEF IInv, WorkerShape, WorkersOf
  <1>11. CreatedHasStore'
    <2> SUFFICES ASSUME NEW j \in Inputs, input'[j].manager \in CursorManagers
                 PROVE  manager'[input'[j].manager].init = "ok"
      BY <1>8, InputsAssumption DEF CreatedHasStore, ManagerShape
    <2>1. CASE input'[j].manager = input[j].manager
      <3>1. manager[input[j].manager].init = "ok"
        BY <2>1 DEF IInv, CreatedHasStore
      <3>2. input[j].manager \in Managers
        BY <2>1, InputsAssumption
      <3>3. manager'[input[j].manager] = manager[input[j].manager]
        BY <1>1, <1>4, <3>1, <3>2 DEF IInv, TypeOK
      <3> QED BY <2>1, <3>1, <3>3
    <2>2. CASE input'[j].manager # input[j].manager
      <3>1. input'[j].manager = m /\ input' # input
        BY <1>1, <1>3, <2>2 DEF IInv, TypeOK
      <3> QED BY <1>5, <3>1
    <2> QED BY <2>1, <2>2
  <1>12. LockIsHeld'
    BY <1>2 DEF IInv, LockIsHeld
  <1> QED BY <1>7, <1>8, <1>9, <1>10, <1>11, <1>12 DEF IInv

\* Steps of inputs and goroutines leave the managers alone.
LEMMA RunningKeeps ==
    ASSUME IInv, UNCHANGED setup, TypeOK', WorkerShape', LockIsHeld',
           \A i \in Inputs : input'[i].manager = input[i].manager
    PROVE  IInv'
  <1>1. ManagerShape' /\ LoaderShape'
    BY DEF IInv, ManagerShape, LoaderShape, setup
  <1>2. CreatedHasStore'
    BY DEF IInv, CreatedHasStore, setup
  <1> QED BY <1>1, <1>2 DEF IInv

\* The records of the inputs.
InputRecord == [pc : {"none", "created", "running", "returned"},
                manager : Managers \cup {None}, cancel : BOOLEAN, err : BOOLEAN]

\* They keep their type when one field of one of them is set.
LEMMA InputFields ==
    ASSUME NEW f \in [Inputs -> InputRecord], NEW i \in Inputs
    PROVE  /\ \A c \in {"none", "created", "running", "returned"} :
                 [f EXCEPT ![i].pc = c] \in [Inputs -> InputRecord]
           /\ [f EXCEPT ![i].cancel = TRUE] \in [Inputs -> InputRecord]
  <1>1. f[i] \in InputRecord
    OBVIOUS
  <1>2. ASSUME NEW c \in {"none", "created", "running", "returned"}
        PROVE  [f EXCEPT ![i].pc = c] \in [Inputs -> InputRecord]
    <2>1. PICK x \in InputRecord : x = [f[i] EXCEPT !.pc = c]
      BY <1>1 DEF InputRecord
    <2>2. [f EXCEPT ![i].pc = c] = [f EXCEPT ![i] = x]
      BY <2>1
    <2> QED BY <2>2
  <1>3. [f EXCEPT ![i].cancel = TRUE] \in [Inputs -> InputRecord]
    <2>1. PICK x \in InputRecord : x = [f[i] EXCEPT !.cancel = TRUE]
      BY <1>1 DEF InputRecord
    <2>2. [f EXCEPT ![i].cancel = TRUE] = [f EXCEPT ![i] = x]
      BY <2>1
    <2> QED BY <2>2
  <1> QED BY <1>2, <1>3

\* A goroutine that is started was not running: it does not lose its lock.
LEMMA RunKeeps ==
    ASSUME IInv, NEW i \in Inputs, Run(i)
    PROVE  IInv'
  <1>1. UNCHANGED <<setup, lock>> /\ input[i].pc = "created" /\ input' = [input EXCEPT ![i].pc = "running"]
    BY DEF Run
  <1>2. worker' = [w \in Workers |-> IF w \in WorkersOf(i) THEN [pc |-> "connect", err |-> FALSE] ELSE worker[w]]
    BY DEF Run
  <1>3. TypeOK'
    <2>1. input' \in [Inputs -> [pc : {"none", "created", "running", "returned"},
                                 manager : Managers \cup {None}, cancel : BOOLEAN, err : BOOLEAN]]
      <3>1. input \in [Inputs -> InputRecord]
        BY DEF IInv, TypeOK, InputRecord
      <3>2. input' \in [Inputs -> InputRecord]
        BY <3>1, <1>1, InputFields
      <3> QED BY <3>2 DEF InputRecord
    <2>2. worker' \in [Workers -> [pc : {"done", "connect", "lock", "waiting", "running",
                                         "unlock", "close", "finish"}, err : BOOLEAN]]
      BY <1>2 DEF IInv, TypeOK
    <2> QED BY <1>1, <2>1, <2>2 DEF IInv, TypeOK, setup
  <1>4. \A j \in Inputs : input'[j].manager = input[j].manager /\ (j # i => input'[j] = input[j])
    BY <1>1 DEF IInv, TypeOK
  <1>5. \A w \in WorkersOf(i) : w \in Workers /\ w[1] = i /\ worker[w].pc = "done"
    BY <1>1 DEF IInv, WorkerShape, WorkersOf
  <1>6. WorkerShape'
    <2> SUFFICES ASSUME NEW w \in Workers, worker'[w].pc # "done"
                 PROVE  input'[w[1]].pc = "running" /\ w \in WorkersOf(w[1])'
      BY DEF WorkerShape
    <2>1. WorkersOf(w[1])' = WorkersOf(w[1])
      BY <1>4, WorkerIsPair DEF WorkersOf
    <2>2. CASE w \in WorkersOf(i)
      BY <1>1, <1>5, <2>1, <2>2 DEF IInv, TypeOK
    <2>3. CASE w \notin WorkersOf(i)
      <3>1. input[w[1]].pc = "running" /\ w \in WorkersOf(w[1])
        BY <1>2, <2>3 DEF IInv, WorkerShape
      <3> QED BY <1>1, <1>4, <2>1, <3>1, WorkerIsPair
    <2> QED BY <2>2, <2>3
  <1>7. LockIsHeld'
    <2> SUFFICES ASSUME NEW w \in Workers, IsCursor(w)
                 PROVE  lock[w[2]] = w <=> worker'[w].pc \in {"running", "unlock"}
      BY <1>1 DEF LockIsHeld
    <2>1. worker'[w].pc \in {"running", "unlock"} <=> worker[w].pc \in {"running", "unlock"}
      BY <1>2, <1>5
    <2> QED BY <2>1 DEF IInv, LockIsHeld
  <1> QED BY <1>1, <1>3, <1>4, <1>6, <1>7, RunningKeeps

LEMMA CancelKeeps ==
    ASSUME IInv, NEW i \in Inputs, Cancel(i)
    PROVE  IInv'
  <1>1. UNCHANGED <<setup, worker, lock>> /\ input' = [input EXCEPT ![i].cancel = TRUE]
    BY DEF Cancel
  <1>2. TypeOK'
    <2>1. input' \in [Inputs -> [pc : {"none", "created", "running", "returned"},
                                 manager : Managers \cup {None}, cancel : BOOLEAN, err : BOOLEAN]]
      <3>1. input \in [Inputs -> InputRecord]
        BY DEF IInv, TypeOK, InputRecord
      <3>2. input' \in [Inputs -> InputRecord]
        BY <3>1, <1>1, InputFields
      <3> QED BY <3>2 DEF InputRecord
    <2> QED BY <1>1, <2>1 DEF IInv, TypeOK, setup
  <1>3. \A j \in Inputs : input'[j].manager = input[j].manager /\ input'[j].pc = input[j].pc
    BY <1>1 DEF IInv, TypeOK
  <1>4. WorkerShape'
    BY <1>1, <1>3, WorkerIsPair DEF IInv, WorkerShape, WorkersOf
  <1>5. LockIsHeld'
    BY <1>1 DEF IInv, LockIsHeld
  <1> QED BY <1>1, <1>2, <1>3, <1>4, <1>5, RunningKeeps

\* Run returns when no goroutine of the input is left.
LEMMA ReturnKeeps ==
    ASSUME IInv, NEW i \in Inputs, Return(i)
    PROVE  IInv'
  <1> DEFINE e == \E w \in WorkersOf(i) : worker[w].err
  <1>1. /\ UNCHANGED <<setup, worker, lock>>
        /\ \A w \in WorkersOf(i) : worker[w].pc = "done"
        /\ input' = [input EXCEPT ![i].pc = "returned", ![i].cancel = TRUE, ![i].err = e]
    BY DEF Return
  <1>2. e \in BOOLEAN
    OBVIOUS
  <1> HIDE DEF e
  <1>3. TypeOK'
    <2> DEFINE T == [Inputs -> [pc : {"none", "created", "running", "returned"},
                                 manager : Managers \cup {None}, cancel : BOOLEAN, err : BOOLEAN]]
               f == [input EXCEPT ![i].pc = "returned"]
               g == [f EXCEPT ![i].cancel = TRUE]
    <2>1. input' \in T
      <3>1. f \in T
        <4>1. input \in [Inputs -> InputRecord]
          BY DEF IInv, TypeOK, InputRecord
        <4>2. f \in [Inputs -> InputRecord]
          BY <4>1, InputFields
        <4> QED BY <4>2 DEF InputRecord
      <3> HIDE DEF f
      <3>2. g \in T
        BY <3>1
      <3>3. input' = [g EXCEPT ![i].err = e]
        BY <1>1 DEF f
      <3> HIDE DEF g
      <3> QED BY <1>2, <3>2, <3>3
    <2> QED BY <1>1, <2>1 DEF IInv, TypeOK, setup
  <1>4. \A j \in Inputs : input'[j].manager = input[j].manager /\ (j # i => input'[j].pc = input[j].pc)
    BY <1>1 DEF IInv, TypeOK
  <1>5. WorkerShape'
    <2>1. \A w \in Workers : worker[w].pc # "done" => w[1] # i
      BY <1>1 DEF IInv, WorkerShape
    <2> QED BY <1>1, <1>4, <2>1, WorkerIsPair DEF IInv, WorkerShape, WorkersOf
  <1>6. LockIsHeld'
    BY <1>1 DEF IInv, LockIsHeld
  <1> QED BY <1>1, <1>3, <1>4, <1>5, <1>6, RunningKeeps

(***************************************************************************)
(* The goroutines.                                                         *)
(***************************************************************************)

Holding == {"running", "unlock"}

\* A step of a goroutine keeps the invariant if its lock follows its place, and
\* nobody else gains or loses one.
LEMMA StepKeeps ==
    ASSUME IInv, NEW w \in Workers, NEW from, NEW to \in WorkerPC, NEW err \in BOOLEAN,
           Step(w, from, to, err), from # "done", UNCHANGED setup,
           input' \in [Inputs -> [pc : {"none", "created", "running", "returned"},
                                  manager : Managers \cup {None}, cancel : BOOLEAN, err : BOOLEAN]],
           \A i \in Inputs : input'[i].manager = input[i].manager /\ input'[i].pc = input[i].pc,
           lock' \in [Sources -> Workers \cup {Nobody}],
           IsCursor(w) => (lock'[w[2]] = w <=> to \in Holding),
           \A v \in Workers \ {w} : IsCursor(v) => (lock'[v[2]] = v <=> lock[v[2]] = v)
    PROVE  IInv'
  <1>1. worker[w].pc = from /\ worker' = [worker EXCEPT ![w] = [pc |-> to, err |-> worker[w].err \/ err]]
    BY DEF Step
  <1>2. worker[w] \in [pc : WorkerPC, err : BOOLEAN] /\ worker \in [Workers -> [pc : WorkerPC, err : BOOLEAN]]
    BY DEF IInv, TypeOK, WorkerPC
  <1>3. [pc |-> to, err |-> worker[w].err \/ err] \in [pc : WorkerPC, err : BOOLEAN]
    <2>1. (worker[w].err \/ err) \in BOOLEAN
      OBVIOUS
    <2> QED BY <2>1, Zenon
  <1>4. worker' \in [Workers -> [pc : WorkerPC, err : BOOLEAN]]
    BY <1>1, <1>2, <1>3, Zenon
  <1>5. worker'[w].pc = to /\ \A v \in Workers \ {w} : worker'[v] = worker[v]
    BY <1>1, <1>2
  <1>6. TypeOK'
    BY <1>4 DEF IInv, TypeOK, setup, WorkerPC
  <1>7. WorkerShape'
    <2> SUFFICES ASSUME NEW v \in Workers, worker'[v].pc # "done"
                 PROVE  input'[v[1]].pc = "running" /\ v \in WorkersOf(v[1])'
      BY DEF WorkerShape
    <2>1. worker[v].pc # "done"
      BY <1>1, <1>5
    <2>2. WorkersOf(v[1])' = WorkersOf(v[1])
      BY WorkerIsPair DEF WorkersOf
    <2> QED BY <2>1, <2>2, WorkerIsPair DEF IInv, WorkerShape
  <1>8. LockIsHeld'
    BY <1>5 DEF IInv, LockIsHeld, Holding
  <1> QED BY <1>6, <1>7, <1>8, RunningKeeps

\* Steps that leave the locks and the inputs alone.
LEMMA QuietStepKeeps ==
    ASSUME IInv, NEW w \in Workers, NEW from, NEW to \in WorkerPC, NEW err \in BOOLEAN,
           Step(w, from, to, err), from # "done", UNCHANGED <<setup, input, lock>>,
           IsCursor(w) => (from \in Holding <=> to \in Holding)
    PROVE  IInv'
  <1>1. UNCHANGED setup /\ input' = input /\ lock' = lock
    OBVIOUS
  <1>2. IsCursor(w) => (lock'[w[2]] = w <=> to \in Holding)
    BY <1>1 DEF IInv, LockIsHeld, Step, Holding
  <1>3. /\ input \in [Inputs -> [pc : {"none", "created", "running", "returned"},
                                 manager : Managers \cup {None}, cancel : BOOLEAN, err : BOOLEAN]]
        /\ lock \in [Sources -> Workers \cup {Nobody}]
    BY DEF IInv, TypeOK
  <1> QED BY <1>1, <1>2, <1>3, StepKeeps

\* A lock is taken only if it is free.
LEMMA TakeKeeps ==
    ASSUME IInv, NEW w \in Workers, NEW from \in {"lock", "waiting"}, Step(w, from, "running", FALSE),
           lock[w[2]] = Nobody, lock' = [lock EXCEPT ![w[2]] = w], UNCHANGED <<setup, input>>
    PROVE  IInv'
  <1>1. lock \in [Sources -> Workers \cup {Nobody}]
    BY DEF IInv, TypeOK
  <1>2. lock' \in [Sources -> Workers \cup {Nobody}]
    BY <1>1
  <1>3. IsCursor(w) => (lock'[w[2]] = w <=> "running" \in Holding)
    BY <1>1, WorkerIsPair DEF Holding
  <1>4. \A v \in Workers \ {w} : IsCursor(v) => (lock'[v[2]] = v <=> lock[v[2]] = v)
    BY <1>1, WorkerIsPair, InputsAssumption
  <1>5. input \in [Inputs -> [pc : {"none", "created", "running", "returned"},
                              manager : Managers \cup {None}, cancel : BOOLEAN, err : BOOLEAN]]
    BY DEF IInv, TypeOK
  <1>6. "running" \in WorkerPC /\ FALSE \in BOOLEAN /\ from # "done" /\ UNCHANGED setup /\ input' = input
    BY DEF WorkerPC
  <1> QED BY <1>2, <1>3, <1>4, <1>5, <1>6, StepKeeps

\* Only the holder gives a lock back.
LEMMA UnlockKeeps ==
    ASSUME IInv, NEW w \in Workers, Unlock(w)
    PROVE  IInv'
  <1>1. /\ Step(w, "unlock", "close", FALSE) /\ lock' = [lock EXCEPT ![w[2]] = Nobody]
        /\ UNCHANGED setup /\ input' = input
    BY DEF Unlock
  <1>2. lock \in [Sources -> Workers \cup {Nobody}]
    BY DEF IInv, TypeOK
  <1>3. lock' \in [Sources -> Workers \cup {Nobody}]
    BY <1>1, <1>2
  <1>4. IsCursor(w) => lock[w[2]] = w
    BY <1>1 DEF IInv, LockIsHeld, Step
  <1>5. IsCursor(w) => (lock'[w[2]] = w <=> "close" \in Holding)
    BY <1>1, <1>2, WorkerIsPair, InputsAssumption DEF Holding
  <1>6. \A v \in Workers \ {w} : IsCursor(v) => (lock'[v[2]] = v <=> lock[v[2]] = v)
    <2> SUFFICES ASSUME NEW v \in Workers \ {w}, IsCursor(v)
                 PROVE  lock'[v[2]] = v <=> lock[v[2]] = v
      OBVIOUS
    <2>1. v[2] \in Sources
      BY WorkerIsPair
    <2>2. CASE v[2] = w[2]
      <3>1. IsCursor(w)
        BY <2>2 DEF IsCursor
      <3> QED BY <1>1, <1>2, <1>4, <2>1, <2>2, <3>1, InputsAssumption
    <2>3. CASE v[2] # w[2]
      BY <1>1, <1>2, <2>1, <2>3
    <2> QED BY <2>2, <2>3
  <1>7. input \in [Inputs -> [pc : {"none", "created", "running", "returned"},
                              manager : Managers \cup {None}, cancel : BOOLEAN, err : BOOLEAN]]
    BY DEF IInv, TypeOK
  <1>8. "close" \in WorkerPC /\ FALSE \in BOOLEAN
    BY DEF WorkerPC
  <1> QED BY <1>1, <1>3, <1>5, <1>6, <1>7, <1>8, StepKeeps

\* The end of a goroutine, which may cancel its input.
LEMMA FinishKeeps ==
    ASSUME IInv, NEW w \in Workers, Finish(w)
    PROVE  IInv'
  <1> DEFINE c == input[w[1]].cancel \/ worker[w].err
  <1>1. /\ Step(w, "finish", "done", FALSE) /\ lock' = lock /\ UNCHANGED setup
        /\ input' = [input EXCEPT ![w[1]].cancel = c]
    BY DEF Finish
  <1>2. c \in BOOLEAN
    OBVIOUS
  <1> HIDE DEF c
  <1>3. /\ input' \in [Inputs -> [pc : {"none", "created", "running", "returned"},
                                  manager : Managers \cup {None}, cancel : BOOLEAN, err : BOOLEAN]]
        /\ \A i \in Inputs : input'[i].manager = input[i].manager /\ input'[i].pc = input[i].pc
    <2>1. PICK j \in Inputs : j = w[1]
      BY WorkerIsPair
    <2>2. input' = [input EXCEPT ![j].cancel = c]
      BY <1>1, <2>1
    <2> QED BY <1>2, <2>2 DEF IInv, TypeOK
  <1>4. lock \in [Sources -> Workers \cup {Nobody}]
    BY DEF IInv, TypeOK
  <1>5. IsCursor(w) => (lock'[w[2]] = w <=> "done" \in Holding)
    BY <1>1 DEF IInv, LockIsHeld, Step, Holding
  <1>6. "done" \in WorkerPC /\ FALSE \in BOOLEAN
    BY DEF WorkerPC
  <1> QED BY <1>1, <1>3, <1>4, <1>5, <1>6, StepKeeps

\* One step of a goroutine.
LEMMA WorkKeeps ==
    ASSUME IInv, NEW w \in Workers, Work(w) \/ \E err \in BOOLEAN : InputReturns(w, err)
    PROVE  IInv'
  <1>1. CASE Connect(w)
    <2>1. IsCursor(w) => (IF IsCursor(w) THEN "lock" ELSE "running") = "lock"
      OBVIOUS
    <2> QED BY <1>1, <2>1, QuietStepKeeps DEF Connect, WorkerPC, Holding
  <1>2. CASE ConnectFails(w)
    BY <1>2, QuietStepKeeps DEF ConnectFails, WorkerPC, Holding
  <1>3. CASE TryLock(w)
    BY <1>3, TakeKeeps DEF TryLock
  <1>4. CASE LockBusy(w)
    BY <1>4, QuietStepKeeps DEF LockBusy, WorkerPC, Holding
  <1>5. CASE LockContext(w)
    BY <1>5, TakeKeeps DEF LockContext
  <1>6. CASE LockCancelled(w)
    BY <1>6, QuietStepKeeps DEF LockCancelled, WorkerPC, Holding
  <1>7. CASE \E err \in BOOLEAN : InputReturns(w, err)
    BY <1>7, QuietStepKeeps DEF InputReturns, WorkerPC, Holding
  <1>8. CASE CloseClient(w)
    BY <1>8, QuietStepKeeps DEF CloseClient, WorkerPC, Holding
  <1> QED BY <1>1, <1>2, <1>3, <1>4, <1>5, <1>6, <1>7, <1>8, UnlockKeeps, FinishKeeps DEF Work

(***************************************************************************)
(* The theorems.                                                           *)
(***************************************************************************)

LEMMA NextKeeps == IInv /\ [Next]_vars => IInv'
  <1> SUFFICES ASSUME IInv, [Next]_vars PROVE IInv'
    OBVIOUS
  <1>1. CASE \E ps \in PluginLists : NewLoader(ps)
    BY <1>1, NewLoaderKeeps
  <1>2. CASE Loading
    BY <1>2, LoaderInitKeeps, LoaderReadyKeeps DEF Loading
  <1>3. CASE StopGroup
    BY <1>3, StopGroupKeeps
  <1>4. CASE \E m \in Managers : Cleaner(m)
    BY <1>4, CleanerKeeps
  <1>5. CASE \E i \in Inputs : Run(i) \/ Cancel(i) \/ Return(i)
    BY <1>5, RunKeeps, CancelKeeps, ReturnKeeps
  <1>6. CASE \E i \in Inputs, type \in Managers \cup {None}, ok, valid \in BOOLEAN :
               Configure(i, type, ok, valid)
    BY <1>6, ConfigureKeeps
  <1>7. CASE \E w \in Workers : Work(w) \/ \E err \in BOOLEAN : InputReturns(w, err)
    BY <1>7, WorkKeeps
  <1>8. CASE UNCHANGED vars
    BY <1>8 DEF vars, IInv, TypeOK, ManagerShape, LoaderShape, WorkerShape, WorkersOf,
                CreatedHasStore, LockIsHeld
  <1> QED BY <1>1, <1>2, <1>3, <1>4, <1>5, <1>6, <1>7, <1>8 DEF Next

\* The invariant holds for every set of managers, inputs and sources.
THEOREM InductiveInvariant == Spec => []IInv
  BY InitHolds, NextKeeps, PTL DEF Spec

\* Reference counts of the store never go below zero, whether the cleaner starts
\* or not and however Init, Create and shutdown interleave.
THEOREM TypeCorrect == Spec => []TypeOK
  <1>1. IInv => TypeOK
    BY DEF IInv
  <1> QED BY <1>1, InductiveInvariant, PTL

\* No input is created for a cursor manager that could not open its store.
THEOREM CreatedStore == Spec => []CreatedHasStore
  <1>1. IInv => CreatedHasStore
    BY DEF IInv
  <1> QED BY <1>1, InductiveInvariant, PTL

\* The lock of a source is held by the goroutine that is collecting it and by
\* nobody else, whatever is cancelled, fails or panics.
THEOREM LockHeld == Spec => []LockIsHeld
  <1>1. IInv => LockIsHeld
    BY DEF IInv
  <1> QED BY <1>1, InductiveInvariant, PTL
=============================================================================
