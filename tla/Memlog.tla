------------------------------- MODULE Memlog -------------------------------
(***************************************************************************)
(* The memlog state store backend (pkg/statestore/backend/memlog): an      *)
(* in-memory table whose updates are appended to an update log, and that   *)
(* is now and then written as a whole to a new data file (a checkpoint).   *)
(*                                                                         *)
(* The module follows one store directory through any number of processes. *)
(* Calls on a store hold store.lock, so they never interleave; they are    *)
(* split into steps where a crash or a failure of the file system leaves a *)
(* different disk.  One log record stands for an action entry and the data *)
(* entry after it.  The temporary files and the active.dat marker are left *)
(* out: recovery never reads them.                                         *)
(***************************************************************************)
EXTENDS TxID, Sequences, FiniteSets

CONSTANTS
    Keys, Vals,
    NoVal,               \* a key that is not in the table; the value of a remove
    NoFile, Corrupt,     \* no data file with this id; one that does not decode
    NoOp,                \* no update in progress
    None,                \* no active data file
    CheckpointLimit,     \* checkpointPred: the log size that asks for a checkpoint
    IgnoreVersionCheck,  \* Settings.IgnoreVersionCheck
    Faults               \* the failures of the environment that may happen

VARIABLES
    meta,          \* the store directory and its meta.json
    data,          \* data[t]: the table in the data file t.json, if there is one
    log,           \* log.json, the complete records
    torn,          \* log.json ends with an incomplete record
    synced,        \* the number of records of log.json known to be fsync'ed
    pc,            \* where the process is
    mem,           \* memstore.table
    txid,          \* the last id used: diskstore.nextTxID is Inc(txid)
    pos,           \* loadLogFile: the records read so far
    active,        \* activeDataFile
    old,           \* oldDataFiles, in the order of their ids
    logFile,       \* logFile # nil
    logInvalid,
    logNeedsTruncate,
    logBuf,        \* the write buffer: "clean", "partial" record, sticky error
    logFileSize,   \* in records
    cur,           \* the update in progress
    result         \* what the last call returned

disk == <<meta, data, log, torn, synced>>
files == <<logFile, logInvalid, logNeedsTruncate, logBuf, logFileSize>>
ids == <<txid, active, old>>
vars == <<meta, data, log, torn, synced, pc, mem, txid, pos, active, old, logFile,
          logInvalid, logNeedsTruncate, logBuf, logFileSize, cur, result>>

Table == [Keys -> Vals \cup {NoVal}]
EmptyTable == [k \in Keys |-> NoVal]

\* opSet{K, V}, and opRemove{K} with v = NoVal
Op == [k : Keys, v : Vals \cup {NoVal}]

\* `after` is history: the table that the process had in memory when it wrote
\* the record.  No step reads it.
Record == [id : TxIDs, op : Op, after : Table]

ASSUME ConstantsAssumption ==
    /\ NoFile \notin Table /\ Corrupt \notin Table /\ NoFile # Corrupt
    /\ NoOp \notin Op
    /\ None \notin TxIDs
    /\ CheckpointLimit \in Nat
    /\ IgnoreVersionCheck \in BOOLEAN

\* memstore.Set and memstore.Remove
Apply(t, op) == [t EXCEPT ![op.k] = op.v]

NextTxID == Inc(txid)

Files == {t \in TxIDs : data[t] # NoFile}

\* listDataFiles: the last of the files sorted by id
Newest == CHOOSE t \in Files : \A f \in Files : IsTxIDLessEqual(f, t)

TypeOK ==
    /\ meta \in {"nodir", "nometa", "partial", "valid"}
    /\ data \in [TxIDs -> Table \cup {NoFile, Corrupt}]
    /\ log \in Seq(Record)
    /\ torn \in BOOLEAN
    /\ synced \in 0 .. Len(log)
    /\ pc \in {"down", "creating", "loading", "ready", "log", "checkpoint",
               "fallback", "clear", "cleanup"}
    /\ mem \in Table
    /\ txid \in TxIDs
    /\ pos \in Nat
    /\ active \in TxIDs \cup {None}
    /\ old \in SUBSET TxIDs
    /\ logFile \in BOOLEAN
    /\ logInvalid \in BOOLEAN
    /\ logNeedsTruncate \in BOOLEAN
    /\ logBuf \in {"clean", "partial", "failed"}
    /\ logFileSize \in Nat
    /\ cur \in Op \cup {NoOp}
    /\ result \in {"none", "ok", "err"}
-----------------------------------------------------------------------------
(***************************************************************************)
(* What the files on disk stand for.                                       *)
(***************************************************************************)

Base == IF Files = {} THEN 0 ELSE Newest

BaseTable == IF Files = {} THEN EmptyTable ELSE data[Newest]

\* The table after the first p records of the log.
TableAt(p) == IF p > 0 /\ ~IsTxIDLessEqual(log[p].id, Base)
              THEN log[p].after
              ELSE BaseTable

DurableTable == TableAt(Len(log))

\* The tables that a loss of power may fall back to.
RecentTables == {TableAt(p) : p \in synced .. Len(log)}

\* The data files on disk, and those that the process remembers.
KnownFiles == Files \cup old \cup ({active} \ {None})

LogIDs == {log[i].id : i \in 1 .. Len(log)}

\* The ids in use, with the next one and the one that a restart begins with.  Those
\* of the log may be ahead of the next one if it was not replayed to its end.
IDsInUse == {NextTxID, Base} \cup KnownFiles \cup LogIDs

\* Bound: the ids in use stay within half of the id space of each other (2^63
\* updates between two checkpoints that remove all of the old files), in either
\* direction.
InSpan == \E first \in TxIDs : \A t \in IDsInUse : Sub(t, first) < Half
-----------------------------------------------------------------------------
Stopped == /\ pc = "down"
           /\ mem = EmptyTable
           /\ txid = 0 /\ pos = 0
           /\ active = None /\ old = {}
           /\ logFile = FALSE /\ logInvalid = FALSE /\ logNeedsTruncate = FALSE
           /\ logBuf = "clean" /\ logFileSize = 0
           /\ cur = NoOp

\* The process ends: what it held in memory is gone.
Stop == /\ pc' = "down"
        /\ mem' = EmptyTable
        /\ txid' = 0 /\ pos' = 0
        /\ active' = None /\ old' = {}
        /\ logFile' = FALSE /\ logInvalid' = FALSE /\ logNeedsTruncate' = FALSE
        /\ logBuf' = "clean" /\ logFileSize' = 0
        /\ cur' = NoOp

Init == /\ meta = "nodir"
        /\ data = [t \in TxIDs |-> NoFile]
        /\ log = <<>>
        /\ torn = FALSE
        /\ synced = 0
        /\ Stopped
        /\ result = "none"

(***************************************************************************)
(* Opening: openStore.                                                     *)
(***************************************************************************)

\* The directory does not exist: os.MkdirAll.
CreateHome ==
    /\ pc = "down"
    /\ meta = "nodir"
    /\ meta' = "nometa"
    /\ pc' = "creating"
    /\ result' = "none"
    /\ UNCHANGED <<data, log, torn, synced, mem, pos, cur, files, ids>>

WriteMetaFile ==
    /\ pc = "creating"
    /\ meta' = "valid"
    /\ pc' = "down"     \* the same call goes on with OpenStore
    /\ UNCHANGED <<data, log, torn, synced, mem, pos, cur, files, ids, result>>

\* writeMetaFile fails: the file may be missing, or hold no complete object.
WriteMetaFails ==
    /\ "meta" \in Faults
    /\ pc = "creating"
    /\ meta' \in {"nometa", "partial"}
    /\ pc' = "down"
    /\ result' = "err"
    /\ UNCHANGED <<data, log, torn, synced, mem, pos, cur, files, ids>>

\* readMetaFile and checkMeta
VersionCheck == IgnoreVersionCheck \/ meta = "valid"

\* openStore gives up before it loads anything: the meta file is not there or
\* does not decode, or listing, chmod or opening a file failed.
OpenFails ==
    /\ pc = "down"
    /\ meta # "nodir"
    /\ VersionCheck => "open" \in Faults
    /\ result' = "err"
    /\ UNCHANGED <<disk, pc, mem, pos, cur, files, ids>>

\* Mutant: the id of the newest data file is not taken over.
OpenStoreAtZero ==
    /\ pc = "down"
    /\ meta # "nodir"
    /\ VersionCheck
    /\ pc' = "loading"
    /\ txid' = 0
    /\ active' = IF Files = {} THEN None ELSE Newest
    /\ old' = Files \ {Base}
    /\ mem' = IF BaseTable = Corrupt THEN EmptyTable ELSE BaseTable
    /\ result' = "none"
    /\ UNCHANGED <<disk, pos, cur, files>>

\* The newest data file is loaded.  One that does not decode is moved away;
\* its id and its place among the data files are kept.
OpenStore ==
    /\ pc = "down"
    /\ meta # "nodir"
    /\ VersionCheck
    /\ pc' = "loading"
    /\ pos' = 0
    /\ result' = "none"
    /\ txid' = Base
    /\ active' = IF Files = {} THEN None ELSE Newest
    /\ old' = Files \ {Base}
    /\ IF Files # {} /\ data[Newest] = Corrupt
       THEN /\ mem' = EmptyTable
            /\ \/ data' = [data EXCEPT ![Newest] = NoFile]
               \/ "rename" \in Faults /\ UNCHANGED data
       ELSE /\ mem' = BaseTable
            /\ UNCHANGED data
    /\ UNCHANGED <<meta, log, torn, synced, cur, files>>

\* loadLogFile: the next record is older than the table, or the next update.
LoadRecord ==
    /\ pc = "loading"
    /\ pos < Len(log)
    /\ LET r == log[pos + 1]
       IN \/ /\ IsTxIDLessEqual(r.id, txid)
             /\ UNCHANGED <<mem, txid>>
          \/ /\ ~IsTxIDLessEqual(r.id, txid)
             /\ r.id = Inc(txid)
             /\ txid' = r.id
             /\ mem' = Apply(mem, r.op)
    /\ pos' = pos + 1
    /\ UNCHANGED <<disk, pc, active, old, cur, files, result>>

\* newDiskStore: the error of loadLogFile marks the log as invalid.  The log is
\* opened for writing; when that fails it is left for the next LogOperation.
NewDiskStore(err) ==
    /\ pc' = "ready"
    /\ pos' = 0
    /\ logInvalid' = err
    /\ \/ logFile' = TRUE /\ logFileSize' = Len(log)
       \/ "open" \in Faults /\ logFile' = FALSE /\ logFileSize' = 0
    /\ UNCHANGED <<disk, mem, ids, logNeedsTruncate, logBuf, cur, result>>

\* Mutant: the error of an incomplete record is ignored.
LoadEndIgnoresError == pc = "loading" /\ pos = Len(log) /\ NewDiskStore(FALSE)

\* The end of the log: an incomplete record does not decode.
LoadEnd ==
    /\ pc = "loading"
    /\ pos = Len(log)
    /\ NewDiskStore(torn)

\* loadLogFile: errTxIDInvalid
LoadGap ==
    /\ pc = "loading"
    /\ pos < Len(log)
    /\ ~IsTxIDLessEqual(log[pos + 1].id, txid)
    /\ log[pos + 1].id # Inc(txid)
    /\ NewDiskStore(TRUE)

\* The log can not be read any further.  In the middle of an entry Decode
\* reports it; between two entries dec.More() just says that there are no more,
\* and an os.Open that fails other than with NotExist looks like an empty log.
LogReadFails ==
    /\ "read" \in Faults
    /\ pc = "loading"
    /\ \E err \in BOOLEAN : NewDiskStore(err)

\* newDiskStore can not delete a temporary file.
LoadAborts ==
    /\ "open" \in Faults
    /\ pc = "loading"
    /\ pos = Len(log)
    /\ Stop
    /\ result' = "err"
    /\ UNCHANGED disk
-----------------------------------------------------------------------------
(***************************************************************************)
(* Updates: store.Set, store.Remove and store.Checkpoint.                  *)
(***************************************************************************)

MustCheckpoint == logInvalid \/ logFileSize >= CheckpointLimit

\* Set and Remove change the table in memory before anything is written.
Update(op) ==
    /\ pc = "ready"
    /\ InSpan
    /\ mem' = Apply(mem, op)
    /\ cur' = op
    /\ pc' = IF MustCheckpoint THEN "checkpoint" ELSE "log"
    /\ result' = "none"
    /\ UNCHANGED <<disk, pos, files, ids>>

Checkpoint ==
    /\ pc = "ready"
    /\ InSpan
    /\ pc' = "checkpoint"
    /\ result' = "none"
    /\ UNCHANGED <<disk, mem, pos, cur, files, ids>>

\* The call returns.  logOperation drops what LogOperation returns when it is
\* the fallback of a failed checkpoint, and returns the checkpoint's error.
Return(r) ==
    /\ pc' = "ready"
    /\ cur' = NoOp
    /\ result' = IF pc = "fallback" THEN "err" ELSE r

Logging == pc \in {"log", "fallback"}

\* LogOperation: errLogInvalid
LogRejected ==
    /\ Logging
    /\ logInvalid
    /\ Return("err")
    /\ UNCHANGED <<disk, mem, pos, files, ids>>

\* tryOpenLog with O_TRUNC empties the file when it opens it.
TruncateOnOpen ==
    IF logNeedsTruncate THEN log' = <<>> /\ torn' = FALSE /\ synced' = 0
                        ELSE UNCHANGED <<log, torn, synced>>

\* Mutant: the log is not marked as invalid when it can not be opened.
LogOpenFailsUnmarked ==
    /\ "open" \in Faults
    /\ Logging /\ ~logInvalid /\ ~logFile
    /\ Return("err")
    /\ UNCHANGED <<disk, mem, pos, files, ids>>

LogOpenFails ==
    /\ "open" \in Faults
    /\ Logging
    /\ ~logInvalid
    /\ ~logFile
    /\ \/ UNCHANGED <<log, torn, synced>>
       \/ TruncateOnOpen      \* opened, but seek or stat failed
    /\ logInvalid' = TRUE
    /\ Return("err")
    /\ UNCHANGED <<meta, data, mem, pos, ids, logFile, logNeedsTruncate, logBuf, logFileSize>>

\* tryOpenLog before the first write
LogReopen ==
    /\ Logging
    /\ ~logInvalid
    /\ ~logFile
    /\ TruncateOnOpen
    /\ logFile' = TRUE
    /\ logFileSize' = Len(log')
    /\ logNeedsTruncate' = FALSE
    /\ UNCHANGED <<meta, data, pc, mem, pos, ids, logInvalid, logBuf, cur, result>>

CanWrite == Logging /\ ~logInvalid /\ logFile

\* The record reaches the file.
Append1 ==
    /\ log' = Append(log, [id |-> NextTxID, op |-> cur, after |-> mem])
    /\ UNCHANGED <<torn, synced>>

Tear ==
    /\ torn' = TRUE
    /\ UNCHANGED <<log, synced>>

\* Mutant: nextTxID is not increased.
LogAppendSameID ==
    /\ CanWrite
    /\ Append1
    /\ logFileSize' = logFileSize + 1
    /\ Return("ok")
    /\ UNCHANGED <<meta, data, mem, pos, ids, logFile, logInvalid, logNeedsTruncate, logBuf>>

LogAppend ==
    /\ CanWrite
    /\ Append1
    /\ txid' = NextTxID
    /\ logFileSize' = logFileSize + 1
    /\ Return("ok")
    /\ UNCHANGED <<meta, data, mem, pos, active, old, logFile, logInvalid, logNeedsTruncate, logBuf>>

\* The encoder fails: what it wrote so far stays in the buffer, or the part of
\* it that did not fit has gone to the file.
LogEncodeFails ==
    /\ "encode" \in Faults
    /\ CanWrite
    /\ Tear \/ UNCHANGED <<log, torn, synced>>
    /\ logBuf' = "partial"
    /\ logInvalid' = TRUE
    /\ logFileSize' = logFileSize + 1
    /\ Return("err")
    /\ UNCHANGED <<meta, data, mem, pos, ids, logFile, logNeedsTruncate>>

\* Mutant: the log is not marked as invalid when a write fails.
LogWriteFailsUnmarked ==
    /\ "write" \in Faults
    /\ CanWrite
    /\ Append1 \/ Tear \/ UNCHANGED <<log, torn, synced>>
    /\ Return("err")
    /\ UNCHANGED <<meta, data, mem, pos, files, ids>>

\* A write fails after nothing, a part or all of the record.  The error sticks
\* to the buffered writer.
LogWriteFails ==
    /\ "write" \in Faults
    /\ CanWrite
    /\ Append1 \/ Tear \/ UNCHANGED <<log, torn, synced>>
    /\ logBuf' = "failed"
    /\ logInvalid' = TRUE
    /\ logFileSize' = logFileSize + 1
    /\ Return("err")
    /\ UNCHANGED <<meta, data, mem, pos, ids, logFile, logNeedsTruncate>>

(***************************************************************************)
(* WriteCheckpoint.                                                        *)
(***************************************************************************)

\* The temporary file is not written or not renamed.  logOperation falls back
\* to LogOperation; store.Checkpoint returns the error.
CheckpointFails ==
    /\ "checkpoint" \in Faults
    /\ pc = "checkpoint"
    /\ IF cur = NoOp THEN Return("err")
                     ELSE pc' = "fallback" /\ UNCHANGED <<cur, result>>
    /\ UNCHANGED <<disk, mem, pos, files, ids>>

\* Mutant: the data file is named after the last id used.
CheckpointRenameOffByOne ==
    /\ pc = "checkpoint"
    /\ data' = [data EXCEPT ![txid] = mem]
    /\ pc' = "clear"
    /\ UNCHANGED <<meta, log, torn, synced, mem, pos, cur, files, ids, result>>

\* The table is written to a new data file under the next id.
CheckpointRename ==
    /\ pc = "checkpoint"
    /\ data' = [data EXCEPT ![NextTxID] = mem]
    /\ pc' = "clear"
    /\ UNCHANGED <<meta, log, torn, synced, mem, pos, cur, files, ids, result>>

\* checkpointClearLog
ClearLog ==
    \/ /\ ~logFile
       /\ logNeedsTruncate' = TRUE
       /\ UNCHANGED <<log, torn, synced, logFile, logInvalid, logBuf, logFileSize>>
    \/ /\ logFile
       /\ log' = <<>> /\ torn' = FALSE /\ synced' = 0
       /\ logFileSize' = 0
       /\ UNCHANGED <<logFile, logInvalid, logNeedsTruncate, logBuf>>
    \/ /\ "truncate" \in Faults
       /\ logFile
       /\ logFile' = FALSE
       /\ logBuf' = "clean"
       /\ logNeedsTruncate' = TRUE
       /\ logInvalid' = TRUE
       /\ logFileSize' = 0
       /\ \/ UNCHANGED <<log, torn, synced>>
          \/ log' = <<>> /\ torn' = FALSE /\ synced' = 0    \* truncated, but seek failed

\* Mutant: no test for an active data file.
CheckpointClearLogNoTest ==
    /\ pc = "clear"
    /\ ClearLog
    /\ txid' = NextTxID
    /\ old' = old \cup {active}
    /\ active' = NextTxID
    /\ pc' = "cleanup"
    /\ UNCHANGED <<meta, data, mem, pos, cur, result>>

\* Mutant: activeDataFile is scheduled for deletion after it was replaced.
CheckpointClearLogSwapped ==
    /\ pc = "clear"
    /\ ClearLog
    /\ txid' = NextTxID
    /\ active' = NextTxID
    /\ old' = old \cup {active'}
    /\ pc' = "cleanup"
    /\ UNCHANGED <<meta, data, mem, pos, cur, result>>

\* The log is cleared and the new data file becomes the active one.
CheckpointClearLog ==
    /\ pc = "clear"
    /\ ClearLog
    /\ txid' = NextTxID
    /\ old' = IF active = None THEN old ELSE old \cup {active}
    /\ active' = NextTxID
    /\ pc' = "cleanup"
    /\ UNCHANGED <<meta, data, mem, pos, cur, result>>

\* removeOldDataFiles deletes in the order of the ids and stops at the first
\* file that can not be deleted; that one and the later ones stay scheduled.
RemoveOldDataFiles ==
    /\ pc = "cleanup"
    /\ \E keep \in {{}} \cup
           {{g \in old : IsTxIDLessEqual(f, g)} : f \in {f \in old \cap Files : "remove" \in Faults}} :
          /\ old' = keep
          /\ data' = [t \in TxIDs |-> IF t \in old \ keep THEN NoFile ELSE data[t]]
    /\ Return("ok")
    /\ UNCHANGED <<meta, log, torn, synced, mem, pos, txid, active, files>>
-----------------------------------------------------------------------------
\* store.Close flushes the buffer and syncs the log file.
Close ==
    /\ pc = "ready"
    /\ Stop
    /\ \/ /\ ~logFile
          /\ result' = "ok"
          /\ UNCHANGED <<log, torn, synced>>
       \/ /\ logFile /\ logBuf = "clean"
          /\ \/ result' = "ok" /\ synced' = Len(log)
             \/ "sync" \in Faults /\ result' = "err" /\ UNCHANGED synced
          /\ UNCHANGED <<log, torn>>
       \/ /\ logFile /\ logBuf = "partial"
          /\ \/ result' = "ok" /\ torn' = TRUE /\ synced' = Len(log)
             \/ "sync" \in Faults /\ result' = "err" /\ torn' \in {torn, TRUE} /\ UNCHANGED synced
          /\ UNCHANGED log
       \/ /\ logFile /\ logBuf = "failed"
          /\ result' = "err"
          /\ UNCHANGED <<log, torn, synced>>
    /\ UNCHANGED <<meta, data>>

\* The process dies at any step, in the middle of a write too.
Crash ==
    /\ pc # "down"
    /\ Stop
    /\ result' = "none"
    /\ \/ UNCHANGED <<log, torn, synced>>
       \/ CanWrite /\ (Append1 \/ Tear)
    /\ \/ UNCHANGED meta
       \/ pc = "creating" /\ meta' = "partial"
    /\ UNCHANGED data

\* The machine dies: the end of the log that was not synced may be lost.
PowerLoss ==
    /\ "power" \in Faults
    /\ Stop
    /\ result' = "none"
    /\ \E p \in synced .. Len(log) :
          /\ log' = SubSeq(log, 1, p)
          /\ torn' \in IF p = Len(log) THEN {torn} ELSE BOOLEAN
    /\ UNCHANGED <<meta, data, synced>>

\* A data file is damaged between two runs of the process.
CorruptDataFile ==
    /\ "corrupt" \in Faults
    /\ pc = "down"
    /\ \E f \in Files : data' = [data EXCEPT ![f] = Corrupt]
    /\ UNCHANGED <<meta, log, torn, synced, pc, mem, pos, cur, files, ids, result>>

Open == \/ CreateHome \/ WriteMetaFile \/ WriteMetaFails \/ OpenFails \/ OpenStore
        \/ LoadRecord \/ LoadEnd \/ LoadGap \/ LogReadFails \/ LoadAborts

Log == LogRejected \/ LogOpenFails \/ LogReopen \/ LogAppend \/ LogEncodeFails \/ LogWriteFails

WriteCheckpoint == \/ CheckpointFails \/ CheckpointRename \/ CheckpointClearLog
                   \/ RemoveOldDataFiles

Next == \/ Open
        \/ \E op \in Op : Update(op)
        \/ Checkpoint
        \/ Log
        \/ WriteCheckpoint
        \/ Close \/ Crash \/ PowerLoss \/ CorruptDataFile

Spec == Init /\ [][Next]_vars
-----------------------------------------------------------------------------
(***************************************************************************)
(* Properties.                                                             *)
(***************************************************************************)

\* Between two calls, an "ok" or a log that is not marked invalid means that
\* the files on disk stand for the table in memory: the earlier updates that
\* reported an error are durable too.
AckedIsDurable ==
    pc = "ready" /\ (result = "ok" \/ ~logInvalid) => DurableTable = mem

\* "No files are overwritten or replaced": a data file is never changed, and
\* one is deleted only when a newer one is on disk.
NoOverwrite ==
    [][\A t \in Files : \/ data'[t] = data[t]
                        \/ data'[t] = NoFile /\ \E f \in Files' : Sub(f, t) \in 1 .. Half - 1]_vars

\* Replaying the log repeats history: a record newer than the newest data file
\* carries the id after that file or after the record before it, and its update
\* turns the table before it into the one that the writer had in memory.
LogReplays ==
    \A i \in 1 .. Len(log) :
        ~IsTxIDLessEqual(log[i].id, Base) =>
            /\ log[i].id = Inc(IF i = 1 \/ IsTxIDLessEqual(log[i - 1].id, Base)
                               THEN Base ELSE log[i - 1].id)
            /\ log[i].after = Apply(TableAt(i - 1), log[i].op)

\* A checkpoint never lands on a file: its id is newer than all data files.
CheckpointIsNew == pc = "checkpoint" => data[NextTxID] = NoFile

\* Nothing is ever written behind an incomplete record: it would be out of the
\* reach of the next restart.
TornIsFinal == [][torn => Len(log') <= Len(log)]_vars

\* A reference for recovery: what openStore loads, as one function of the files,
\* with no regard to how they came about.  Replayed is one record of the log.
Replayed(s, r) ==
    IF s.failed \/ IsTxIDLessEqual(r.id, s.txid) THEN s
    ELSE IF r.id = Inc(s.txid) THEN [s EXCEPT !.txid = r.id, !.tbl = Apply(s.tbl, r.op)]
    ELSE [s EXCEPT !.failed = TRUE]

Recovered ==
    LET start == [txid   |-> Base,
                  tbl    |-> IF BaseTable = Corrupt THEN EmptyTable ELSE BaseTable,
                  failed |-> FALSE]
        at[n \in 0 .. Len(log)] == IF n = 0 THEN start ELSE Replayed(at[n - 1], log[n])
    IN at[Len(log)].tbl

\* What a restart would load is what the history says is durable.
RecoveryAgrees == Recovered = DurableTable

\* "If any error is encountered when reading the log file, the next updates to the
\* store will trigger a checkpoint operation and reset the log file" (doc.go:42):
\* whatever was damaged or could not be read, a restart after a checkpoint loads
\* the table in memory, and nothing of the files and records that were left behind.
CheckpointRepairs ==
    pc = "cleanup" \/ (pc = "ready" /\ logInvalid /\ result = "ok") => Recovered = mem

\* The map that the store is for its user.
DM == INSTANCE DurableMap WITH
        view    <- IF pc \in {"down", "creating", "loading"} THEN EmptyTable ELSE mem,
        durable <- DurableTable,
        recent  <- RecentTables,
        mode    <- CASE pc \in {"down", "creating", "loading"} -> "down"
                     [] pc = "ready" -> "ready"
                     [] OTHER -> "busy"

\* The backend implements a durable map: whatever fails, what a restart loads
\* moves only from the tables of earlier updates to the table in memory.
ImplementsDurableMap == DM!Spec
-----------------------------------------------------------------------------
(***************************************************************************)
(* The inductive invariant.  b is the id of the newest data file (0 when   *)
(* there is none) and s the number of log records that are not newer than  *)
(* it: those that a checkpoint could not, or did not yet, clear.           *)
(***************************************************************************)

TableOf(b) == IF data[b] = NoFile THEN EmptyTable ELSE data[b]

Committed(b, s, p) == IF p <= s THEN TableOf(b) ELSE log[p].after

\* The ids that the next update may use are ahead of all that is on disk.
SpanOf(b) == /\ Sub(NextTxID, b) < Half
             /\ \A f \in Files : Sub(NextTxID, f) < Half
             /\ \A i \in 1 .. Len(log) : Sub(NextTxID, log[i].id) < Half

DiskShape(b, s) ==
    /\ \/ Files = {} /\ b = 0
       \/ b \in Files
    /\ \A f \in Files : data[f] # Corrupt /\ Sub(b, f) < Half
    /\ \A i \in 1 .. s : Sub(b, log[i].id) < Half
    /\ Len(log) - s < Half
    /\ \A i \in s + 1 .. Len(log) :
          /\ log[i].id = Plus(b, i - s)
          /\ log[i].after = Apply(Committed(b, s, i - 1), log[i].op)

\* The files that are scheduled for deletion are on disk and not the newest.
OldShape(b) ==
    /\ b \notin old
    /\ old \subseteq Files
    /\ IF pc = "clear" THEN active # b /\ active \in Files \cup {None}
       ELSE active = IF Files = {} THEN None ELSE b

ProcShape(b, s) ==
    /\ pc \in {"down", "creating", "loading"} => ~logNeedsTruncate /\ cur = NoOp
    /\ pc = "loading" =>
          /\ OldShape(b)
          /\ result = "none"
          /\ pos <= Len(log)
          /\ txid = Plus(b, IF pos <= s THEN 0 ELSE pos - s)
          /\ mem = Committed(b, s, pos)
    /\ pc \in {"ready", "log", "checkpoint", "fallback", "clear", "cleanup"} =>
          /\ OldShape(b)
          /\ ~logInvalid => ~torn
          /\ logNeedsTruncate => s = Len(log) /\ ~logFile
    /\ pc \in {"ready", "log", "checkpoint", "fallback"} =>
          \/ txid = Plus(b, Len(log) - s)
          \/ logInvalid /\ s < Len(log) /\ txid = Plus(b, Len(log) - s - 1)
    /\ pc = "ready" =>
          /\ cur = NoOp
          /\ ~logInvalid \/ result = "ok" => mem = Committed(b, s, Len(log))
    /\ pc \in {"log", "checkpoint", "fallback"} =>
          /\ SpanOf(b)
          /\ cur = NoOp => pc = "checkpoint"
          /\ ~logInvalid => mem = IF cur = NoOp THEN Committed(b, s, Len(log))
                                  ELSE Apply(Committed(b, s, Len(log)), cur)
    /\ pc = "clear" => NextTxID = b
    /\ pc = "cleanup" => txid = b
    /\ pc \in {"clear", "cleanup"} => s = Len(log) /\ b \in Files /\ mem = data[b]

IInv == TypeOK /\ \E b \in TxIDs, s \in 0 .. Len(log) : DiskShape(b, s) /\ ProcShape(b, s)
=============================================================================
