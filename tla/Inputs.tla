------------------------------- MODULE Inputs -------------------------------
(***************************************************************************)
(* The input framework (pkg/manager/input): the loader with its plugins,   *)
(* their managers, and the inputs that these create and run.               *)
(*                                                                         *)
(* A cursor manager (input-cursor) opens its store once, keeps it with a   *)
(* reference of its own and one of its cleaner, and runs an input with one *)
(* goroutine per source, under the lock of the source.  A stateless or a   *)
(* simple manager has no state, and its input is one goroutine.  What an   *)
(* input does between connecting and returning is external: it may return, *)
(* fail or panic at any time, and must return when it is cancelled.  What  *)
(* happens to the cursor of a source meanwhile is the subject of Cursor.   *)
(***************************************************************************)
EXTENDS Integers, Sequences, FiniteSets

CONSTANTS
    Managers,       \* managers, each of a plugin with the same name
    CursorManagers, \* the ones of input-cursor
    PluginLists,    \* arguments of NewLoader: [name, stable, manager]
    Inputs,
    DefaultType,    \* Loader.defaultType; None if it is empty
    None,
    SourcesOf,      \* the sources that Configure finds for a cursor input
    NoSource,       \* stands for the source of any other one
    Nobody

Sources == UNION {SourcesOf[i] : i \in Inputs}
Workers == UNION {{<<i, s>> : s \in SourcesOf[i] \cup {NoSource}} : i \in Inputs}

ASSUME InputsAssumption ==
    /\ CursorManagers \subseteq Managers /\ None \notin Managers
    /\ DefaultType \in Managers \cup {None}
    /\ NoSource \notin Sources /\ Nobody \notin Workers
    /\ \A ps \in PluginLists : \A i \in DOMAIN ps :
          /\ ps[i].manager \in Managers \cup {None}
          /\ ps[i].name # None /\ ps[i].manager # None => ps[i].name = ps[i].manager

VARIABLES
    mode,       \* the mode of Loader.Init: ModeRun, or ModeTest and ModeOther
    loader,     \* Loader: its place, its registry, and what Init has not reached
    group,      \* the group of background tasks runs
    manager,    \* the managers: initOnce with initErr, refCount, the cleaner
    input,      \* the inputs: managedInput.Run, and its cancellation
    worker,     \* the goroutines of Run, one per source
    lock        \* the locks of the sources

vars == <<mode, loader, group, manager, input, worker, lock>>
setup == <<mode, loader, group, manager>>

IsCursor(w) == w[2] # NoSource
WorkersOf(i) == {w \in Workers : w[1] = i /\ (IsCursor(w) <=> input[i].manager \in CursorManagers)}

TypeOK ==
    /\ mode \in {"run", "other"}
    /\ loader \in [pc : {"none", "init", "ready", "failed"},
                   registry : SUBSET Managers, todo : SUBSET Managers]
    /\ group \in {"up", "stopped"}
    /\ manager \in [Managers -> [init : {"none", "ok", "error"}, refs : Nat, closed : BOOLEAN,
                                 cleaner : {"none", "running", "released", "done"}]]
    /\ input \in [Inputs -> [pc : {"none", "created", "running", "returned"},
                             manager : Managers \cup {None}, cancel : BOOLEAN, err : BOOLEAN]]
    /\ worker \in [Workers -> [pc : {"done", "connect", "lock", "waiting", "running",
                                     "unlock", "close", "finish"}, err : BOOLEAN]]
    /\ lock \in [Sources -> Workers \cup {Nobody}]

Init ==
    /\ mode \in {"run", "other"}
    /\ loader = [pc |-> "none", registry |-> {}, todo |-> {}]
    /\ group = "up"
    /\ manager = [m \in Managers |-> [init |-> "none", refs |-> 0, closed |-> FALSE, cleaner |-> "none"]]
    /\ input = [i \in Inputs |-> [pc |-> "none", manager |-> None, cancel |-> FALSE, err |-> FALSE]]
    /\ worker = [w \in Workers |-> [pc |-> "done", err |-> FALSE]]
    /\ lock = [s \in Sources |-> Nobody]

(***************************************************************************)
(* The loader.                                                             *)
(***************************************************************************)

\* Plugin.validate
Validate(p) == p.name # None /\ p.stable /\ p.manager # None

\* validatePlugins
ValidatePlugins(ps) ==
    /\ \A i \in DOMAIN ps : Validate(ps[i])
    /\ \A i, j \in DOMAIN ps : ps[i].name = ps[j].name => i = j

\* Without an error the loader is used, and Init called.
NewLoader(ps) ==
    /\ loader.pc = "none"
    /\ loader' = IF ValidatePlugins(ps)
                 THEN [pc |-> "init", registry |-> {ps[i].manager : i \in DOMAIN ps},
                       todo |-> {ps[i].manager : i \in DOMAIN ps}]
                 ELSE [loader EXCEPT !.pc = "failed"]
    /\ UNCHANGED <<mode, group, manager, input, worker, lock>>

LoaderReady ==
    /\ loader.pc = "init" /\ loader.todo = {}
    /\ loader' = [loader EXCEPT !.pc = "ready"]
    /\ UNCHANGED <<mode, group, manager, input, worker, lock>>

(***************************************************************************)
(* The managers.                                                           *)
(***************************************************************************)

\* store.Release: n references of a manager are given back.
Release(r, n) == [r EXCEPT !.refs = @ - n, !.closed = r.refs = n]

\* Mutant: the error of the first call is not remembered.
InitOnceForgets(m, ok) ==
    IF manager[m].init = "none"
    THEN IF ok THEN [manager[m] EXCEPT !.init = "ok", !.refs = 1]
               ELSE [manager[m] EXCEPT !.init = "error"]
    ELSE [manager[m] EXCEPT !.init = "ok"]

\* InputManager.init: the store is opened once, and the error kept for ever.
InitOnce(m, ok) ==
    IF manager[m].init # "none" THEN manager[m]
    ELSE IF ok THEN [manager[m] EXCEPT !.init = "ok", !.refs = 1]
               ELSE [manager[m] EXCEPT !.init = "error"]

\* Mutant: the reference of the manager is kept if the cleaner can not start.
CursorInitGroupKeeps(m, ok) ==
    LET r == InitOnce(m, ok)
    IN CASE mode # "run" -> manager[m]
         [] mode = "run" /\ r.init = "error" -> r
         [] OTHER -> IF group = "up" THEN [r EXCEPT !.refs = @ + 1, !.cleaner = "running"]
                     ELSE Release([r EXCEPT !.refs = @ + 1], 1)

\* Init of a cursor manager: the cleaner has a reference of its own.  If it can
\* not be started the store is given back.
CursorInit(m, ok) ==
    LET r == InitOnce(m, ok)
    IN CASE mode # "run" -> manager[m]
         [] mode = "run" /\ r.init = "error" -> r
         [] OTHER -> IF group = "up" THEN [r EXCEPT !.refs = @ + 1, !.cleaner = "running"]
                     ELSE Release([r EXCEPT !.refs = @ + 1], 2)

\* Loader.Init: the managers in any order, up to the first error.
LoaderInit(m, ok) ==
    /\ loader.pc = "init" /\ m \in loader.todo
    /\ IF m \in CursorManagers
       THEN /\ manager' = [manager EXCEPT ![m] = CursorInit(m, ok)]
            /\ loader' = IF mode = "run" /\ (manager'[m].init = "error" \/ group # "up")
                         THEN [loader EXCEPT !.pc = "failed"]
                         ELSE [loader EXCEPT !.todo = @ \ {m}]
       ELSE /\ loader' = [loader EXCEPT !.todo = @ \ {m}]
            /\ UNCHANGED manager
    /\ UNCHANGED <<mode, group, input, worker, lock>>

\* The program ends its background tasks.
StopGroup ==
    /\ group = "up" /\ loader.pc \in {"init", "ready", "failed"}
    /\ group' = "stopped"
    /\ UNCHANGED <<mode, loader, manager, input, worker, lock>>

\* Mutant: shutdown is called here as well.
CleanerStopsTwice(m) ==
    /\ group = "stopped" /\ manager[m].cleaner = "running"
    /\ manager' = [manager EXCEPT ![m] = [Release(@, 2) EXCEPT !.cleaner = "released"]]
    /\ UNCHANGED <<mode, loader, group, input, worker, lock>>

\* The cleaner returns: store.Release, then shutdown.
CleanerStops(m) ==
    /\ group = "stopped" /\ manager[m].cleaner = "running"
    /\ manager' = [manager EXCEPT ![m] = [Release(@, 1) EXCEPT !.cleaner = "released"]]
    /\ UNCHANGED <<mode, loader, group, input, worker, lock>>

Shutdown(m) ==
    /\ manager[m].cleaner = "released"
    /\ manager' = [manager EXCEPT ![m] = [Release(@, 1) EXCEPT !.cleaner = "done"]]
    /\ UNCHANGED <<mode, loader, group, input, worker, lock>>

(***************************************************************************)
(* Inputs.                                                                 *)
(***************************************************************************)

Created(i, m, valid) == IF valid THEN [input EXCEPT ![i].pc = "created", ![i].manager = m] ELSE input

\* Create of a cursor manager: the store comes first, then the settings and the
\* sources, of which there must be some.
CreateCursor(i, m, ok, valid) ==
    /\ manager' = [manager EXCEPT ![m] = InitOnce(m, ok)]
    /\ input' = Created(i, m, manager'[m].init = "ok" /\ valid /\ SourcesOf[i] # {})

\* Create of any other one.
CreateStateless(i, m, valid) ==
    /\ input' = Created(i, m, valid)
    /\ UNCHANGED manager

\* Loader.Configure: the type is read from the configuration, which may not have
\* one, and must be known.
Configure(i, type, ok, valid) ==
    LET m == IF type = None THEN DefaultType ELSE type
    IN /\ loader.pc = "ready"
       /\ input[i].pc = "none"
       /\ m \in loader.registry
       /\ IF m \in CursorManagers THEN CreateCursor(i, m, ok, valid) ELSE CreateStateless(i, m, valid)
       /\ UNCHANGED <<mode, loader, group, worker, lock>>

\* Run starts its goroutines.
Run(i) ==
    /\ mode = "run"
    /\ input[i].pc = "created"
    /\ input' = [input EXCEPT ![i].pc = "running"]
    /\ worker' = [w \in Workers |-> IF w \in WorkersOf(i) THEN [pc |-> "connect", err |-> FALSE]
                                                          ELSE worker[w]]
    /\ UNCHANGED <<setup, lock>>

\* The context of the caller is cancelled.
Cancel(i) ==
    /\ input[i].pc = "running" /\ ~input[i].cancel
    /\ input' = [input EXCEPT ![i].cancel = TRUE]
    /\ UNCHANGED <<setup, worker, lock>>

\* All goroutines are done, and their errors are collected.
Return(i) ==
    /\ input[i].pc = "running"
    /\ \A w \in WorkersOf(i) : worker[w].pc = "done"
    /\ input' = [input EXCEPT ![i].pc = "returned", ![i].cancel = TRUE,
                              ![i].err = \E w \in WorkersOf(i) : worker[w].err]
    /\ UNCHANGED <<setup, worker, lock>>

(***************************************************************************)
(* The goroutine of a source: runSource, or Run of a stateless input.      *)
(***************************************************************************)

Step(w, from, to, err) ==
    /\ worker[w].pc = from
    /\ worker' = [worker EXCEPT ![w] = [pc |-> to, err |-> @.err \/ err]]

\* pipeline.ConnectWith
Connect(w) ==
    /\ Step(w, "connect", IF IsCursor(w) THEN "lock" ELSE "running", FALSE)
    /\ UNCHANGED <<setup, input, lock>>

ConnectFails(w) ==
    /\ Step(w, "connect", "finish", TRUE)
    /\ UNCHANGED <<setup, input, lock>>

\* lockResource: TryLock, also if the context is cancelled; otherwise it waits.
TryLock(w) ==
    /\ Step(w, "lock", "running", FALSE)
    /\ lock[w[2]] = Nobody
    /\ lock' = [lock EXCEPT ![w[2]] = w]
    /\ UNCHANGED <<setup, input>>

LockBusy(w) ==
    /\ Step(w, "lock", "waiting", FALSE)
    /\ lock[w[2]] # Nobody
    /\ UNCHANGED <<setup, input, lock>>

LockContext(w) ==
    /\ Step(w, "waiting", "running", FALSE)
    /\ lock[w[2]] = Nobody
    /\ lock' = [lock EXCEPT ![w[2]] = w]
    /\ UNCHANGED <<setup, input>>

\* Mutant: the context is looked at when the lock has been taken.
LockCancelledLate(w) ==
    /\ input[w[1]].cancel
    /\ Step(w, "waiting", "close", TRUE)
    /\ lock[w[2]] = Nobody
    /\ UNCHANGED <<setup, input, lock>>

\* The wait ends with an error.
LockCancelled(w) ==
    /\ input[w[1]].cancel
    /\ Step(w, "waiting", "close", TRUE)
    /\ UNCHANGED <<setup, input, lock>>

\* Mutant: a panic skips the unlocking.
InputReturnsPanic(w, err) ==
    /\ Step(w, "running", IF IsCursor(w) /\ ~err THEN "unlock" ELSE "close", err)
    /\ UNCHANGED <<setup, input, lock>>

\* Input.Run returns, with an error, or a panic, which is recovered as one.  The
\* deferred calls follow in either case.
InputReturns(w, err) ==
    /\ Step(w, "running", IF IsCursor(w) THEN "unlock" ELSE "close", err)
    /\ UNCHANGED <<setup, input, lock>>

\* releaseResource
Unlock(w) ==
    /\ Step(w, "unlock", "close", FALSE)
    /\ lock' = [lock EXCEPT ![w[2]] = Nobody]
    /\ UNCHANGED <<setup, input>>

\* client.Close
CloseClient(w) ==
    /\ Step(w, "close", "finish", FALSE)
    /\ UNCHANGED <<setup, input, lock>>

\* runSource has returned: an error cancels the other sources of the input.
Finish(w) ==
    /\ Step(w, "finish", "done", FALSE)
    /\ input' = [input EXCEPT ![w[1]].cancel = @ \/ worker[w].err]
    /\ UNCHANGED <<setup, lock>>

(***************************************************************************)
(* The specification.                                                      *)
(***************************************************************************)

Loading == \/ \E m \in Managers, ok \in BOOLEAN : LoaderInit(m, ok)
           \/ LoaderReady

Cleaner(m) == CleanerStops(m) \/ Shutdown(m)

\* What a goroutine does by itself.
Work(w) == \/ Connect(w) \/ ConnectFails(w)
           \/ TryLock(w) \/ LockBusy(w) \/ LockContext(w) \/ LockCancelled(w)
           \/ Unlock(w) \/ CloseClient(w) \/ Finish(w)

\* A cancelled input has to return.
Cancelled(w) == input[w[1]].cancel /\ \E err \in BOOLEAN : InputReturns(w, err)

Next == \/ \E ps \in PluginLists : NewLoader(ps)
        \/ Loading \/ StopGroup
        \/ \E m \in Managers : Cleaner(m)
        \/ \E i \in Inputs : \/ Run(i) \/ Cancel(i) \/ Return(i)
                          \/ \E type \in Managers \cup {None}, ok, valid \in BOOLEAN :
                                Configure(i, type, ok, valid)
        \/ \E w \in Workers : Work(w) \/ \E err \in BOOLEAN : InputReturns(w, err)

\* Every goroutine that can go on does.  An input may run for ever, unless it is
\* cancelled: the interface asks it to return then.
Fairness == /\ WF_vars(Loading)
            /\ \A m \in Managers : WF_vars(Cleaner(m))
            /\ \A i \in Inputs : WF_vars(Return(i))
            /\ \A w \in Workers : WF_vars(Work(w)) /\ WF_vars(Cancelled(w))

Spec == Init /\ [][Next]_vars /\ Fairness

(***************************************************************************)
(* Properties.                                                             *)
(***************************************************************************)

\* The store is opened under a Once whose error outlives the call: no input is
\* created, and none runs, for a manager that could not open its store.
CreatedHasStore ==
    \A i \in Inputs : input[i].manager \in CursorManagers =>
        LET m == manager[input[i].manager]
        IN m.init = "ok" /\ (m.refs > 0 \/ m.closed)

\* The lock of a source belongs to the goroutine that is collecting it, or about
\* to give it back, and to nobody else: it is not lost when a wait is cancelled,
\* when an input fails or panics.
LockIsHeld ==
    \A w \in Workers : IsCursor(w) =>
        (lock[w[2]] = w <=> worker[w].pc \in {"running", "unlock"})

\* Run returns once its context is cancelled: every goroutine of it stops, also one
\* that waits for the lock of a source that another input never gives back.
RunReturns ==
    \A i \in Inputs : input[i].pc = "running" /\ input[i].cancel ~> input[i].pc = "returned"

\* A store that was opened to run inputs is closed after the background tasks
\* were stopped, also if this happens while the managers are being initialised.
StoreCloses ==
    \A m \in CursorManagers : mode = "run" /\ manager[m].init = "ok" /\ group = "stopped"
                              ~> manager[m].closed /\ manager[m].refs = 0
=============================================================================
