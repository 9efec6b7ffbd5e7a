# elastic-agent-inputs: a verification project

TLA+ modules that model the stateful core of elastic-agent-inputs, the TLC runs
that check them on small instances, and TLAPS proofs of the safety properties of
each component for every value of its parameters. `PROJECT.json` maps each
definition to the lines it models, and lists the runs, the mutants that show
that each property can fail, the findings, the hazards and the theorems.

## The system

An *input* collects events from a *source* and publishes them to a pipeline. A
*cursor input* also remembers how far it got: each event carries an update of
the cursor, which is written to a persistent *state store* when the pipeline
has ACKed the event. After a restart the input goes on from the stored cursor.

    input --Publish--> client --AddEvent--> ACKer <--ACKEvents-- pipeline
      |                                       |
      | cursor (in memory)                    | callback: updateOp.Execute
      v                                       v
    cursor store  <----- cleaner        statestore.Store (handle)
                                              |
                                        statestore.Registry (shared stores)
                                              |
                                        memlog store: table, log, data files

| component | state | operations | with whom |
|---|---|---|---|
| memlog backend (`pkg/statestore/backend/memlog`) | table in memory, `log.json`, data files, `meta.json`, ids, flags of the log | open (load data file, replay log), set, remove, checkpoint, close | called by the frontend under one lock; the file system can fail at each step, the process can die between any two |
| state store frontend (`pkg/statestore`) | active stores by name, reference counts, handles, two wait groups | get, operations, close of a handle, close of the registry | many goroutines; opens and closes backends |
| ACKers (`pkg/publisher/acker`) | list of gaps, queue of private fields | add event, ACK events, close | publishing goroutine and ACK goroutine; calls back into the cursor store |
| cursor store (`input-cursor/store.go`, `publish.go`) | resources: reference count, pending and in-sync cursor, operations in flight | get, publish, execute, update of the TTL | inputs, ACK handler, cleaner |
| cleaner (`clean.go`) | none of its own | periodic removal of unused, expired resources | cursor store, frontend |
| cursor manager (`manager.go`, `input.go`) | lock per source, life time of the store | init, create, run, lock, shutdown | inputs, cursor store |
| input framework (`pkg/manager/input`, `input-stateless`) | registry of plugins, one manager per plugin, the group of background tasks | new loader, init, configure, run | creates the managers' inputs; the program stops the group |
| load generator (`inputs/loadgenerator`) | units and their streams | unit added, modified, removed; stream run and stop | the agent's control protocol, one goroutine per stream |
| feature registry (`pkg/feature`) | features by namespace and name | register, unregister, overwrite, lookup | program start-up, loader |

What is hard in it:

* *Failure*: a crash or a failed file operation between any two steps of an
  update, a checkpoint or a start; a loss of power that takes unsynced records.
* *Concurrency*: reference counts changed outside of the lock that guards the
  map; two locks for what is logically one list in the ACKer; callbacks that run
  on either of two goroutines; an `Overwrite` that is three critical sections;
  sources of one input that stop each other while they wait for locks.
* *Ordering*: callbacks, hence cursor updates, that can overtake each other;
  notices of a unit that do not carry the state they are about.
* *Shutdown*: background tasks that are stopped while the managers are being
  initialised; stop signals for streams that have ended, or not begun to listen.
* *Boundaries*: transaction ids that wrap around; a batch of ACKs that ends
  exactly where a run of drops begins.

What makes each component correct: the backend never loses an acknowledged
update, and a restart loads exactly one of the tables the user has seen; the
frontend closes a backend once, after the last use; the ACKer reports each
event once, in order, and not before it is complete; the cursor store never
goes back and is never ahead of what was ACKed; the cleaner never removes what
is in use; an input that is cancelled returns, holds no lock any more, and its
store is closed in the end; the load generator never loses
a stream and ends up in the state that is expected of each unit; a name in the
feature registry goes away only if it is unregistered.

## Modules

**TxID** - the ids of updates and data files: a counter of fixed width (`Half`
is half of the id space, 2^63 in the code) and `isTxIDLessEqual`, the
comparison by signed distance.

**DurableMap** - the abstract specification of a backend: the table the user
sees (`view`), the table a restart would load (`durable`) and those a loss of
power may fall back to (`recent`). An "ok" means that all of the view is
durable; whatever happens, `durable` moves only to the view, or after a loss of
power to one of `recent`.

**Memlog** - the backend: one store directory through any number of processes.
On disk: `meta`, `data` (the data files by id), `log`, `torn` (an incomplete
record at its end), `synced`. In the process: the fields of `diskstore` and
`memstore`, with `pc` for the place inside a call. Calls hold `store.lock`, so
they do not interleave with each other; they are split into steps where a crash
or a failure leaves a different disk. `CreateHome`, `WriteMetaFile`,
`OpenStore`, `LoadRecord`, `LoadEnd` and the failures around them are
`openStore` and `newDiskStore`; `Update` is `Set` and `Remove`, `Checkpoint` is
the explicit call; `LogReopen`, `LogAppend`, ... are `LogOperation`;
`CheckpointRename`, `CheckpointClearLog`, `RemoveOldDataFiles` are
`WriteCheckpoint`. `Crash` may follow each step and may cut a write short. The
constant `Faults` says which failures the environment has: `meta`, `open`,
`encode`, `write`, `checkpoint`, `truncate`, `remove`, `sync`, `rename`,
`read`, `power`, `corrupt`. A record carries, as history that no step reads,
the table its writer had in memory (`after`). `Recovered` is a reference for
recovery: a recursive function over the log that knows only the files and not how
they came about. `InSpan` is the bound on ids: those of the next update, of all
files on disk or remembered, and of the log lie in one window of half of the id
space. The next id need not be the newest of them: after damage or a read error
the log may be ahead of it, and `Update` and `Checkpoint` go on from there as the
code does. **MCMemlog** adds symmetry and the claim of a finding.

**StateStore**, **MCStateStore** - the frontend: `active` and `wg` of the
registry, `refCount` and `backend` of the shared stores, and for each goroutine
its handle and operations in flight. `Get` and `tryUnregister` are atomic
(`Registry.mu`); the decrement in `Release` and the close of the backend are
steps of their own. Objects that nobody refers to are used again, so the runs
go through any number of open and close cycles.

**Acker** - `EventPrivateReporter` over `TrackingCounter`, alone (as the cursor
inputs use it) or inside `ConnectionOnly`; `Init` chooses. The list is locked
hand over hand, which makes each pass over it atomic; a callback of a drop runs
with the locks held, a callback of an ACK without any. External, from how the
code uses it: one publishing goroutine, one ACK goroutine, and the pipeline
ACKs only events whose `AddEvent` has returned.

**Cursor**, **MCCursor** - the cursor inputs, for one source (keys share
nothing but the lock of the table and the persistent store). `resource` holds
the fields of the struct: `pending` (references), `lock`, `stored`, `active`
(operations in flight), `cursor` (in sync) and `pendingCursor`. An input goes
through `Get`, `Wait`/`Lock` (`lockResource`) or `LockCancelled`, `UpdateTTL`,
`ReadCursor`, any number of `Publish` and `Forward` or `ForwardDropped`, then
`Unlock` and `Release` (`releaseResource`). `ACKCallback` and `DropCallback` are
`updateOp.Execute` on the ACK and on the publishing goroutine, `ACKDone` and
`DropDone` its deferred `done`. `GCFind` and `GCClean` are the cleaner, which
holds the lock of the table in between; `Shutdown` closes the store while inputs
and ACKs may go on; `Restart` ends the process anywhere and opens the store
again. A write that fails may still be found by the next process, as the log of
memlog has it. An event is its position in the source, a cursor the position it
covers; the ACKer of a client is reduced to what Acker shows: it hands over the
complete prefix of its events, and a drop behind nothing at once. External: the
pipeline ACKs events in the order in which it was sent them, over all clients.
Whether it drops events (processors) is chosen in `Init`. `delivered` and `last`
are history.

**Inputs**, **MCInputs** - the framework around the cursor store: `NewLoader`
with its validation, `Loader.Init` over the managers in any order (`LoaderInit`),
`Configure` with the `Create` of both kinds of manager, and `managedInput.Run`
with a goroutine per source. A manager is its `initOnce` with the error it
remembers, the reference count of its cursor store and its cleaner, which gives
back its own reference and then, as `shutdown`, the one of the manager. A
goroutine connects, locks its source (`TryLock`, or a wait that a cancellation
ends), runs the input, unlocks, closes its client, and cancels the other sources
if it had an error. Cursor models what happens under the lock of one source and
Inputs who gets it, so a cursor input is seen from both sides; a stateless input
is a goroutine without a source. `mode` is chosen in `Init`; whether stores can
be opened, connections made and configurations read is chosen at each call.

**LoadGenerator**, **MCLoadGenerator** - the load generator as a child of the
agent. The agent (external) changes what it expects of a unit and queues a
notice; the main loop takes one at a time and reads `Expected` when it handles
it. `HandleAdded`, `HandleModified`, `StopStream`, `TearDownDone`, `NewUnit`,
`StartStream` and `NewUnitDone` are `handleUnitModified`, `tearDownUnit` and
`handleNewUnit`, split where a stream can report something in between. A stream is
`Run` with the one-place buffer of its channel (`stop`); it may write its last
event, or fail, at any time. The reported state is one variable that the main
loop and the streams overwrite: Starting, Configuring and Stopping are one value,
"changing". `HandleRemoved` ends the process with the last unit (`checkDone`).
Ended calls of `Run` are used again.

**Features**, **MCFeatures** - the feature registry: goroutines that register,
unregister and overwrite features or register bundles. A string is a text and
whether it is spelled in upper case, since `Register` normalises both parts of a
key and `Unregister` only the namespace. The methods of the registry are atomic;
`Overwrite` is a lookup, an `Unregister` and a `Register`, each under the lock of
its own; a bundle takes the lock once per feature. `known` (names that should
be there) and `touched` (names that others changed during a call) are history.

**MemlogProofs**, **StateStoreProofs**, **AckerProofs**, **CursorProofs**,
**InputsProofs**, **LoadGeneratorProofs**, **FeaturesProofs** - the proofs about
each of these, see below. **Recursion** - induction and recursion over the
natural numbers, which they share.

## Runs

| run | bounds | shows |
|---|---|---|
| `memlog_faults` | 1 key, 2 values, ids mod 6, checkpoint after 1 record, all faults but damage | type, inductive invariant, acknowledged is durable, the log replays history, recovery agrees with it, data files are never overwritten, nothing behind a torn record |
| `memlog_rollover` | 2 keys, ids mod 8, checkpoint after 2 records; deletions and power fail | recovery with several files and records across the rollover; Memlog implements DurableMap |
| `memlog_damage` | 1 key, ids mod 6, checkpoint after 2 records; damaged data files, failing renames and deletions, unreadable log | a checkpoint still never replaces a file, and repairs the store: a restart after it loads the table in memory |
| `statestore` | 3 goroutines, 2 names, 2 shared stores, 1 operation in flight each | exact reference counts, no use after close, a backend without handles is closed |
| `acker` | 6 events, with and without ConnectionOnly | no panic, counts agree, nothing early, exactly the complete prefix, in order unless events are dropped, everything in the end |
| `cursor` | 2 inputs in one source of 3 positions, 3 events in flight, 2 resource objects | exact counts, nothing in use is cleaned, the next input reads the last cursor; without drops, the stored cursor covers only what was ACKed and never goes back |
| `inputs` | a cursor and a stateless manager; 2 inputs, of 2 sources and 1, one of them shared | an input that was created has its store; a lock belongs to the goroutine that collects the source; a cancelled `Run` returns; the store is closed in the end |
| `loadgenerator` | 2 units, of 1 stream and none; 2 notices queued, 2 streams that have not ended | no unit without runner is torn down; no stream is lost; with all notices handled the units are as expected; a stopped unit says so and its streams end |
| `features` | 2 goroutines, 2 names, 5 features (one in upper case, one without factory), 3 bundles | names survive what others overwrite; `Overwrite` fails only because of others; what a bundle has registered is there |
| `memlog_corrupt_file`, `statestore_shared`, `cursor_ahead` | as small as the counterexample allows | findings, see below |

Bounds. Ids wrap after 6 or 8 updates, so each memlog run crosses the rollover
many times; `InSpan` keeps the ids in use within half of the space, as 2^63
does in the code. With `Half` = 4 a log of two records, the data file below it and
the next id fit, so `memlog_rollover` reaches checkpoints that the size of the log
asks for. In `memlog_damage` a log of two records is enough for ids that repeat,
for a gap behind a damaged file, and for a log that is ahead of the next id when
the checkpoint comes. Failing writes are in `memlog_faults`; that the refinement
holds under them is proved. One key and two values tell an old update from a new one; two
keys tell a lost update from a later one that hides it. Two goroutines are
enough for each race of a release with a Get, a third one observes. Six events
hold two runs of drops between three ACKed events (the example in acker.go's
comment needs no more to be told apart). Two inputs are enough for an old one
whose updates are in flight, a new one, and (as a client without events is used
again) any number of successors; three events in flight hold two batches and
their successor, three positions a cursor that is behind, between and ahead of
them. A second resource object lets a cleaned source be found again while
something still refers to the first. Two inputs with a source in common are
enough for a goroutine that waits while its own input is cancelled, while a
sibling fails, and while the holder panics; a manager without one shows that
neither kind waits for the other. Two queued notices are enough for each to find
a state that was meant for the other (a modification behind an addition, a
removal behind a modification, and the notice of the other unit between them); a
second stream object lets a restarted unit run while its old stream has not seen
its signal. A unit without streams is the case where the loops of
`tearDownUnit` and `handleNewUnit` do nothing. No unit has two streams at once:
that would need a third object, and the two would share only the reported state,
which an old and a new stream share as well. Two threads are enough for a
change between each two critical sections of an `Overwrite`. `statestore`,
`acker` and `inputs` allow deadlock: a closed registry, a panic, a client that
publishes no more, or inputs that have all returned, end these systems.

Fairness. `StateStore`: a call that has begun goes on (weak fairness of a
goroutine's step inside a call); nobody has to open or close. `Acker`: the same,
and the pipeline ACKs what it was sent (weak fairness of `ACKEvents`), which is
what the pipeline is for. `Inputs`: each goroutine goes on by itself, with one
exception: an input may collect for ever, and has to return only when it is
cancelled, which is what `Cancelation` is for (`input.go:113`). Locks are
granted with weak fairness only: nothing says that a waiting input ever gets its
source, and no property needs it. `LoadGenerator`: the main loop takes the
next notice and finishes it, each stream looks at its channel; writing an event
is not fair, so a stream may fail, finish or loop for ever; nothing is assumed of
the agent. The Go scheduler justifies all but the two that name their reason.
`Features` has safety properties only.

### Findings

* `statestore_shared` (bug): `Release` decrements outside of `Registry.mu`. Two
  goroutines that release one store one after the other can both see zero and
  both unregister it. If the name was opened again in between, the second one
  removes the *new* store from the map; the next `Get` opens a second backend on
  the directory that the first one still writes. (If it was not, the second one
  panics with "removing an unknown store".)
* `memlog_corrupt_file`: after a damaged data file was moved away its id stays
  in use, but no checkpoint follows; acknowledged updates are lost on the next
  ordinary restart.
* `cursor_ahead`: a dropped event of an input that has taken over a source is
  reported at once, before the events in flight of its predecessor; the stored
  cursor is then ahead of what was ACKed, and a crash skips those events.

Seen while modelling, without a run of its own.

State store: `logInvalid` is never reset, so a log that could once not be written
or opened is not used again by this process and each update writes a whole
checkpoint (`diskstore.go:221`, against the comment at 152);
`Registry.Close` can return while a backend is still open (`registry.go:75` before `store.go:146`), against its comment; a
read error between two entries of the log passes for its end
(`diskstore.go:593`), later acknowledged updates reuse its ids and are lost on
restart; if such a log, read in part only, can then not be truncated by the
next checkpoint (`diskstore.go:388`) or was never opened, its unread records are
newer than the new data file and a restart replays them on top of it, so
`memlog_damage` and the theorem `Repaired` leave the faults `open` and `truncate`
out; `newDiskStore` drops the error of
`tryOpenLog` and does not mark the log as its comment says (`diskstore.go:98`,
`146`); the model has it (`NewDiskStore`), and it does no harm to durability.

ACKers: a drop reported by the publishing goroutine can overtake a batch that the
ACK goroutine has already cut off (`acker.go:134` and `202`), against the order
that `publish.go` relies on; `InOrderWithoutDrops` is what remains true. An
`ACKEvents` that read the wrapped ACKer before `Close` reports after it
(`acker.go:312-319`).

Inputs: a store that `Create` opens in a mode other than Run is never released
(`manager.go:138` opens it, only the cleaner's shutdown at 113 gives it back,
which is why `StoreCloses` speaks of ModeRun); the manager closes it while inputs
may still run; the comment of `managedInput` (`input.go:44-46`) says that "active
data collecting continues" if one source fails, where `Run` cancels all of them
(`input.go:109`), as its own comment at 93-94 says. The model does what the code
does, and `RunReturns` speaks of cancellation only, on which all agree.

Load generator: a stream that ends by itself while it is being stopped reports
Healthy or Degraded over the Stopped of the main loop (`core.go:156`, `180`,
`216`), and Degraded for a bad configuration is overwritten by Starting at
once; `StopIsReported` therefore does not say that Stopped stays. The removal
of the last unit ends the process although an addition may be queued, and the
total of events is taken while streams may run (`core.go:96`, `98`).

Features: `Overwrite` of a name in upper case fails (`registry.go:97` does not
normalise it); `Overwrite` without a factory loses the old feature
(`registry.go:159`); two concurrent `Overwrite` calls can make each other fail;
`OverwriteBundle` registers and does not overwrite (`feature.go:114`).

## Proofs

`MemlogProofs` proves, for all finite or infinite sets of keys and values, all
id widths (`HalfAssumption`) and checkpoint limits, and all sets of faults:

* `TypeCorrect`, `CheckpointNew`: the invariants `TypeOK` and `CheckpointIsNew`;
* `Repaired`: `CheckpointRepairs`, if the log can be opened and truncated
  (`ClearsLog`: no faults `open` and `truncate`);

and for all sets of faults without `corrupt` and `read` (`NoDamage`):

* `InductiveInvariant`: `Spec => []IInv`;
* `AckedDurable`, `LogReplayed`: the invariants `AckedIsDurable` and `LogReplays`;
* `Recovery`: `RecoveryAgrees`, that what `Recovered` computes from the files is
  the table the history calls durable;
* `FilesNotReplaced`, `TornFinal`: the action properties `NoOverwrite` and
  `TornIsFinal`;
* `Refinement`: `Spec => ImplementsDurableMap`.

The argument. `AckedIsDurable` is not inductive: it says nothing of what the
disk looks like inside a call, or of how the process gets back to it. `IInv`
names the id `b` of the newest data file and the number `s` of log records that
are not newer than it, and says: the first `s` records are at or behind `b`, the
others carry `b+1, b+2, ...` and each turns the table before it into the one it
records (`DiskShape`); and for each `pc` how `txid`, `mem` and the flags of the
log relate to that (`ProcShape`). Two things make it delicate: after a write
that failed, the record may be on disk although `txid` did not move, which is
sound only because the log is then marked invalid and the next checkpoint takes
that very id, making the record old; and a log that could not be truncated must
hold only records that the data file covers. That ids compare correctly across
the rollover follows from all of them being in one window of `Half` ids (`InSpan`),
of which the next id is the newest (`SpanReads`); the lemmas at the start of `MemlogProofs` say so once. Each action
preserves the invariant in a lemma of its own, with the new `b` and `s` as
witnesses. `DiskReads` ties the quantified `b` and `s` to `Base`, `BaseTable`
and `TableAt`, which is all that the theorems and the refinement need.
`Recovery` walks over the log by induction: behind the first `s` records the
replay still has the table of the data file, behind each later one the table
that record carries.

With damage none of this is left: the newest file may be gone while its id is
still in use, and the log may have gaps, repeat ids, or be ahead of the next one.
`DamageShape` keeps what does not depend on the log: all ids in use lie in one
window, and the last id is at or ahead of every file on disk or remembered, from
`openStore`, which takes the newest (`NewestAhead`), on. A record that is replayed
moves it forward inside the window, so the next id is ahead of the files too, and
is none of theirs. For `Repaired`, `RepairShape` adds that from the rename of a
checkpoint to the next update the newest file holds the table in memory and the
log is empty, so `Recovered` is the base of its recursion.

What recursive functions compute. `Recursion` states induction for properties
that are given as sets (`SetInduction`, `IntervalInduction`), from the least
element of a set of natural numbers, and shows that a step function determines
its values up to any length (`RecursionExists`). No theorem with an operator as
parameter is needed, and the recursive functions of Memlog, Acker and Features
can be reasoned about.

`InputsProofs` proves, for all sets of managers, inputs and sources and any lists
of plugins (`InputsAssumption`): `TypeCorrect`, `CreatedStore` and `LockHeld`, the
invariants `TypeOK`, `CreatedHasStore` and `LockIsHeld` of the run `inputs`. None
is inductive. That the reference count stays a natural number needs that the
references are known at each place of the cleaner (`ManagerShape`) and that `Init`
meets only managers that nobody has opened (`LoaderShape`); that `Run` takes no
lock away from a goroutine it starts needs that goroutines exist only inside
`Run` (`WorkerShape`). A step of a goroutine keeps the invariant if its lock
follows its place and nobody else's changes (`StepKeeps`), which each step then
shows.

`StateStoreProofs` proves, for all finite sets of goroutines and names and any
shared stores: `TypeCorrect`, `WaitGroupExact`, `RefCountExact` and `UseBeforeClose`
(`TypeOK`, `RefCountIsExact`, `NoUseAfterClose`). The count alone does not say
that a store in use is open: the invariant adds that a goroutine has a store
from `Get` until `Close` has returned (`HandleShape`), that what the registry
hands out is open and has the right name (`ActiveShape`), and that a store that
is about to be closed is out of reach (`CloseShape`). All of that survives the
late unregister of the finding, which takes another store out of the map.

`AckerProofs` proves `TypeCorrect`, `NoPanics`, `DataTracked`, `NoEarlyReports`,
`PrefixReported` and `InOrder` (the invariants of the run `acker`) for any number
of events. The list of gaps holds counts, the queue holds events, and two
goroutines are between the two: `Stands` says which events a list of gaps stands
for, `GapShape` that it goes on where the total under way ends and that as many
ACKs were used up as there are published events before it, `DataShape` and
`BatchShape` that every other event is in the queue, in a batch, or reported.

`CursorProofs` proves `TypeCorrect`, `PendingExact`, `UsedKept` and `LastRead`
(`PendingIsExact`, `UsedIsKept`, `InMemoryIsLast` of the run `cursor`)
for all finite sets of inputs, any resources, positions and events in flight,
with and without drops. They need each other: the cleaner keeps what is in use
because the count of its references is exact, counts stay exact because all
updates in flight are for the resource in the table, and `Execute` may clear the
pending cursor because the operations in flight are counted. `CallShape` and
`BatchShape` say where an event is while it is in no ACKer, `CleanShape` that what
the cleaner is about to remove has no references. References are counted as sets
(`InACKers`, `InCalls`, `Holders`, `Of`); that a batch cut off an ACKer is counted
as before is a bijection (`CutCounts`).

`NothingSkipped` and `StoredNeverBack` (`SentIsDelivered` and `NeverBack`) hold of
a pipeline that drops nothing, and need that updates are in order across inputs
(`OrderedWithoutDrops`). What is in flight then stands in a line: the batch that
was cut off an ACKer, the pipeline, the event at hand (`FlowShape`). `Matches`
says that each ACKer holds its events as the pipeline has them, and no others.
`Flow` says that updates grow along the line and lie between the cursor in sync
with the ACKs and the last update, that all before the position of an event is
delivered or before it in the line, and that the last update is executed or in
the line. `LockShape` gives the line one writer, `SendShape` rules out the drops,
and `StoreShape` keeps the store behind the cursor in memory. `Execute` takes the
pending cursor over when no operations are left, even if it is not that of the
event it was called for: since the operations are counted exactly, no update is
behind the batch and the last one is what is written (`AllDone`).
The invariant holds of drops only vacuously: with them, the run `cursor_ahead`
shows that the stored cursor may be ahead of what was ACKed.

`LoadGeneratorProofs` proves `TypeCorrect`, `RunnerKnown`, `NoStreamLost` and
`ExpectedFollowed` (`RunnerIsKnown`, `NoOrphan`, `FollowsExpected`) for any finite
set of units, any streams and lengths of the queue. A notice does not carry the state it is about,
so the invariant says what the notices still queued for a unit will do to it:
additions come first and removals last (`QueueShape`), the main loop is where its
local variables say (`MainShape`), and a unit differs from what is expected only
if a notice for it waits (`Follows`).

`FeaturesProofs` proves `TypeCorrect`, `NamesSurvive`, `OverwritesSucceed` and
`BundlesRegistered` (`TypeOK`, `NameSurvives`, `OverwriteSucceeds`,
`BundleIsRegistered`) for any goroutines, names, features and bundles. Between the
critical sections of a call the registry is as the call left it, except for the
names in `touched` (`OverwriteShape`, `DoneShape`).

Only model-checked: liveness (`LastCloseCloses`, `AllReported`, `RunReturns`,
`StoreCloses`, `StopIsReported`, `StreamsEnd`), which is out of the prover's
reach.

## Not modelled

Contents and encoding of values (a value is a model value; that what is read
back equals what was written is the encoder's business), permissions, the
marker `active.dat` and the temporary files, which recovery never reads;
read-only operations, and `Test` of inputs; `Nil`, `RawCounting`, `Counting`,
`Combine` and `LastEventPrivateReporter`; the merging of partial cursors
(`typeconv`) and the times of the cursor store: a resource may be found expired
whenever the cleaner runs, which is more than the code allows; the contents and
the number of the events of the load generator, its outputs and the parsing of
its configuration, and two streams of a unit with the same id (the second one
hides the channel of the first); interfaces without state (publisher, backend),
test support, configuration, entry points and build tooling.

## Plan

1. *Done*: TxID, DurableMap, Memlog and its proofs; StateStore; Acker; Cursor;
   Inputs; LoadGenerator; Features.
2. *Cursor*, further: an abstract specification (the prefix of ACKed updates of a
   source) that it implements without drops; partial cursors, as a record of two
   fields.
3. Proofs: *done* for the safety invariants and the safety action properties of
   all passing runs. Liveness stays with TLC.
