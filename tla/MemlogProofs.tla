---------------------------- MODULE MemlogProofs ----------------------------
(***************************************************************************)
(* Proofs about the memlog backend, for every set of keys and values, id   *)
(* width and checkpoint predicate.                                         *)
(***************************************************************************)
EXTENDS Memlog, Recursion, TLAPS

\* The files on disk are read back as they were written: no damaged data file
\* and no failing read of the log.
NoDamage == "corrupt" \notin Faults /\ "read" \notin Faults

-----------------------------------------------------------------------------
(***************************************************************************)
(* Transaction ids.                                                        *)
(***************************************************************************)

\* The counter stays within its width.
LEMMA IncType == \A t \in TxIDs : Inc(t) \in TxIDs
  BY HalfAssumption DEF TxIDs, TxMod, Inc

\* An id that is less than half of the id space behind t is not newer.
LEMMA BehindIsLessEqual ==
  \A t, f \in TxIDs : Sub(t, f) < Half => IsTxIDLessEqual(f, t)
  BY HalfAssumption DEF TxIDs, TxMod, Sub, IsTxIDLessEqual, AsSigned

\* Two ids that are not newer than one another, at less than half of the id
\* space, are the same.
LEMMA LessEqualAntisymmetric ==
  \A t, f \in TxIDs : Sub(t, f) < Half /\ IsTxIDLessEqual(t, f) => t = f
  BY HalfAssumption DEF TxIDs, TxMod, Sub, IsTxIDLessEqual, AsSigned

\* An id that is k ahead, for a positive k below half of the id space, is newer.
LEMMA AheadIsNewer ==
  \A t \in TxIDs : \A k \in 0 .. Half - 1 :
     /\ Plus(t, k) \in TxIDs
     /\ Sub(Plus(t, k), t) = k
     /\ k > 0 => ~IsTxIDLessEqual(Plus(t, k), t)
     /\ Inc(Plus(t, k)) = Plus(t, k + 1)
  BY HalfAssumption DEF TxIDs, TxMod, Sub, Plus, Inc, IsTxIDLessEqual, AsSigned

\* Half of the id space ahead is still measured right.
LEMMA PlusDistance ==
  \A t \in TxIDs : \A k \in 0 .. Half : Sub(Plus(t, k), t) = k
  BY HalfAssumption DEF TxIDs, TxMod, Sub, Plus

\* The next id is one ahead and newer.
LEMMA IncIsNewer ==
  \A t \in TxIDs : Sub(Inc(t), t) = 1 /\ ~IsTxIDLessEqual(Inc(t), t)
  BY HalfAssumption DEF TxIDs, TxMod, Sub, Inc, IsTxIDLessEqual, AsSigned

\* Distances below half of the id space are exclusive.
LEMMA SubExclusive ==
  \A t, f \in TxIDs : Sub(t, f) < Half /\ Sub(f, t) < Half => t = f
  BY HalfAssumption DEF TxIDs, TxMod, Sub

\* Distances: zero to itself, never negative.
LEMMA SubSelf == \A t, f \in TxIDs : Sub(t, t) = 0 /\ Sub(t, f) \in Nat /\ Sub(t, f) < TxMod
  BY HalfAssumption DEF TxIDs, TxMod, Sub
-----------------------------------------------------------------------------
(***************************************************************************)
(* The disk.                                                               *)
(***************************************************************************)

\* An update of a table gives a table.
LEMMA ApplyType == \A t \in Table, op \in Op : Apply(t, op) \in Table
  BY DEF Table, Op, Apply

\* The empty table is a table.
LEMMA EmptyType == EmptyTable \in Table
  BY DEF Table, EmptyTable

\* The records of the log have the fields of a record.
LEMMA RecordTypes ==
  ASSUME TypeOK
  PROVE  /\ Len(log) \in Nat
         /\ \A i \in 1 .. Len(log) : /\ log[i].id \in TxIDs
                                     /\ log[i].op \in Op
                                     /\ log[i].after \in Table
<1>1. log \in Seq(Record)
  BY DEF TypeOK
<1>2. Len(log) \in Nat /\ \A i \in 1 .. Len(log) : log[i] \in Record
  BY <1>1
<1>3. \A r \in Record : r.id \in TxIDs /\ r.op \in Op /\ r.after \in Table
  BY DEF Record
<1> QED BY <1>2, <1>3

\* The parameters of the disk's shape are what the definitions of the model
\* choose: b is the newest file, and the history kept in the log is what its
\* records up to any place stand for.
LEMMA DiskReads ==
  ASSUME TypeOK, NEW b \in TxIDs, NEW s \in 0 .. Len(log), DiskShape(b, s)
  PROVE  /\ Base = b
         /\ BaseTable = TableOf(b)
         /\ Files # {} => Newest = b
         /\ \A p \in 0 .. Len(log) : TableAt(p) = Committed(b, s, p)
         /\ \A i \in 1 .. s : IsTxIDLessEqual(log[i].id, b)
         /\ \A i \in s + 1 .. Len(log) : ~IsTxIDLessEqual(log[i].id, b)
<1>1. \A i \in 1 .. Len(log) : log[i].id \in TxIDs
  BY RecordTypes
<1>2. Files \subseteq TxIDs
  BY DEF Files
<1>3. ASSUME Files # {} PROVE Newest = b
  <2>1. b \in Files
    BY <1>3 DEF DiskShape
  <2>2. \A f \in Files : IsTxIDLessEqual(f, b)
    BY <1>2, BehindIsLessEqual DEF DiskShape
  <2>3. ASSUME NEW t \in Files, \A f \in Files : IsTxIDLessEqual(f, t) PROVE t = b
    <3>1. IsTxIDLessEqual(b, t) /\ Sub(b, t) < Half
      BY <2>1, <2>3 DEF DiskShape
    <3> QED BY <3>1, <1>2, LessEqualAntisymmetric
  <2> QED BY <2>1, <2>2, <2>3 DEF Newest
<1>4. Base = b
  BY <1>3 DEF Base, DiskShape
<1>5. BaseTable = TableOf(b)
  <2>1. CASE Files = {}
    BY <2>1 DEF BaseTable, TableOf, DiskShape, Files
  <2>2. CASE Files # {}
    <3>1. b \in Files BY <2>2 DEF DiskShape
    <3> QED BY <2>2, <3>1, <1>3 DEF BaseTable, TableOf, Files
  <2> QED BY <2>1, <2>2
<1>6. \A i \in 1 .. s : IsTxIDLessEqual(log[i].id, b)
  BY <1>1, BehindIsLessEqual DEF DiskShape
<1>7. \A i \in s + 1 .. Len(log) : ~IsTxIDLessEqual(log[i].id, b)
  <2> SUFFICES ASSUME NEW i \in s + 1 .. Len(log) PROVE ~IsTxIDLessEqual(log[i].id, b)
    OBVIOUS
  <2>0. Len(log) \in Nat BY DEF TypeOK
  <2>1. log[i].id = Plus(b, i - s) BY DEF DiskShape
  <2>2. i - s \in 0 .. Half - 1 /\ i - s > 0
    BY <2>0, HalfAssumption DEF DiskShape
  <2> QED BY <2>1, <2>2, AheadIsNewer
<1>8. \A p \in 0 .. Len(log) : TableAt(p) = Committed(b, s, p)
  <2> SUFFICES ASSUME NEW p \in 0 .. Len(log) PROVE TableAt(p) = Committed(b, s, p)
    OBVIOUS
  <2>0. Len(log) \in Nat BY DEF TypeOK
  <2>1. CASE p <= s
    BY <2>0, <2>1, <1>4, <1>5, <1>6 DEF TableAt, Committed
  <2>2. CASE p > s
    <3>1. p > 0 /\ p \in s + 1 .. Len(log) BY <2>0, <2>2
    <3> QED BY <3>1, <2>2, <1>4, <1>7 DEF TableAt, Committed
  <2> QED BY <2>0, <2>1, <2>2
<1> QED BY <1>3, <1>4, <1>5, <1>6, <1>7, <1>8
-----------------------------------------------------------------------------
(***************************************************************************)
(* The inductive invariant is preserved, action by action.                 *)
(***************************************************************************)

\* The disk keeps its shape while the data files and the log are left alone.
LEMMA SameDisk ==
  ASSUME NEW b \in TxIDs, NEW s \in 0 .. Len(log), DiskShape(b, s), UNCHANGED <<data, log>>
  PROVE  s \in 0 .. Len(log)' /\ DiskShape(b, s)'
  BY DEF DiskShape, Files, TableOf, Committed

\* The empty directory has the shape.
LEMMA InitIInv == Init => IInv
<1> SUFFICES ASSUME Init PROVE IInv
  OBVIOUS
<1>1. TypeOK
  <2>1. log \in Seq(Record) /\ Len(log) = 0
    BY DEF Init
  <2>2. data \in [TxIDs -> Table \cup {NoFile, Corrupt}] /\ txid \in TxIDs
    BY HalfAssumption DEF Init, Stopped, TxIDs, TxMod
  <2> QED BY <2>1, <2>2, EmptyType DEF Init, Stopped, TypeOK
<1>2. 0 \in TxIDs /\ 0 \in 0 .. Len(log) /\ Len(log) = 0 /\ Files = {}
  BY HalfAssumption DEF Init, TxIDs, TxMod, Files
<1>3. DiskShape(0, 0)
  BY <1>2, HalfAssumption DEF DiskShape
<1>4. ProcShape(0, 0)
  BY DEF Init, Stopped, ProcShape
<1> QED BY <1>1, <1>2, <1>3, <1>4 DEF IInv

\* A process that has ended has the right types.
LEMMA StoppedType ==
  ASSUME TypeOK, Stop
  PROVE  /\ pc' = "down" /\ mem' \in Table /\ txid' \in TxIDs /\ pos' \in Nat
         /\ active' \in TxIDs \cup {None} /\ old' \in SUBSET TxIDs
         /\ logFile' \in BOOLEAN /\ logInvalid' \in BOOLEAN /\ logNeedsTruncate' \in BOOLEAN
         /\ logBuf' = "clean" /\ logFileSize' \in Nat /\ cur' = NoOp
<1>1. logFile' \in BOOLEAN /\ logInvalid' \in BOOLEAN /\ logNeedsTruncate' \in BOOLEAN
  BY DEF Stop
<1>2. txid' \in TxIDs /\ pos' \in Nat /\ logFileSize' \in Nat
  BY HalfAssumption DEF Stop, TxIDs, TxMod
<1> QED BY <1>1, <1>2, EmptyType DEF Stop

\* CreateHome, WriteMetaFile, WriteMetaFails, OpenFails: no file is touched.
LEMMA StepCreate ==
  ASSUME NEW b \in TxIDs, NEW s \in 0 .. Len(log), TypeOK, DiskShape(b, s), ProcShape(b, s),
         CreateHome \/ WriteMetaFile \/ WriteMetaFails \/ OpenFails
  PROVE  IInv'
<1>1. TypeOK'
  BY DEF TypeOK, CreateHome, WriteMetaFile, WriteMetaFails, OpenFails, files, ids, disk
<1>2. UNCHANGED <<data, log>>
  BY DEF CreateHome, WriteMetaFile, WriteMetaFails, OpenFails, disk
<1>3. ProcShape(b, s)'
  BY DEF ProcShape, CreateHome, WriteMetaFile, WriteMetaFails, OpenFails, files
<1> QED BY <1>1, <1>2, <1>3, SameDisk DEF IInv

\* OpenStore: the newest data file is loaded.
LEMMA StepOpenStore ==
  ASSUME NEW b \in TxIDs, NEW s \in 0 .. Len(log), TypeOK, DiskShape(b, s), ProcShape(b, s),
         OpenStore
  PROVE  IInv'
<1>1. Base = b /\ BaseTable = TableOf(b) /\ (Files # {} => Newest = b)
  BY DiskReads
<1>2. Files # {} => data[Newest] # Corrupt
  BY <1>1 DEF DiskShape
<1>3. mem' = TableOf(b) /\ UNCHANGED data
  BY <1>1, <1>2 DEF OpenStore
<1>4. TableOf(b) \in Table
  BY EmptyType DEF TableOf, TypeOK, DiskShape, Files
<1>5. TypeOK'
  <2>1. active' \in TxIDs \cup {None} /\ old' \in SUBSET TxIDs /\ txid' \in TxIDs
    BY <1>1 DEF OpenStore, Files
  <2> QED BY <2>1, <1>3, <1>4 DEF OpenStore, TypeOK, files
<1>6. s \in 0 .. Len(log)' /\ DiskShape(b, s)'
  BY <1>3, SameDisk DEF OpenStore
<1>7. OldShape(b)'
  BY <1>1, <1>3 DEF OpenStore, OldShape, Files
<1>8. txid' = Plus(b, 0) /\ pos' = 0 /\ pc' = "loading" /\ result' = "none"
  BY <1>1, HalfAssumption DEF OpenStore, Plus, TxIDs, TxMod
<1>9. mem' = Committed(b, s, 0)'
  BY <1>3 DEF Committed, TableOf
<1>10. ~logNeedsTruncate' /\ cur' = NoOp
  BY DEF OpenStore, ProcShape, files
<1>11. ProcShape(b, s)'
  <2>1. pos' <= Len(log)'
    BY <1>6, <1>8
  <2> QED BY <2>1, <1>7, <1>8, <1>9, <1>10 DEF ProcShape
<1> QED BY <1>5, <1>6, <1>11 DEF IInv

\* While loading, the next record is an old one or the next update.
LEMMA NextRecord ==
  ASSUME NEW b \in TxIDs, NEW s \in 0 .. Len(log), TypeOK, DiskShape(b, s), ProcShape(b, s),
         pc = "loading", pos < Len(log)
  PROVE  /\ pos + 1 <= s => IsTxIDLessEqual(log[pos + 1].id, txid) /\ txid = b
         /\ pos + 1 > s => /\ ~IsTxIDLessEqual(log[pos + 1].id, txid)
                           /\ log[pos + 1].id = Inc(txid)
                           /\ Inc(txid) = Plus(b, pos + 1 - s)
<1>1. pos \in Nat /\ pos + 1 \in 1 .. Len(log) /\ Len(log) \in Nat /\ s \in Nat
  BY RecordTypes DEF TypeOK
<1>2. CASE pos + 1 <= s
  <2>1. txid = b
    BY <1>1, <1>2, HalfAssumption DEF ProcShape, Plus, TxIDs, TxMod
  <2>2. IsTxIDLessEqual(log[pos + 1].id, b)
    BY <1>1, <1>2, DiskReads
  <2> QED BY <1>2, <1>1, <2>1, <2>2
<1>3. CASE pos + 1 > s
  <2>1. txid = Plus(b, pos - s)
    BY <1>1, <1>3 DEF ProcShape
  <2>2. pos - s \in 0 .. Half - 1 /\ (pos - s) + 1 = pos + 1 - s
    BY <1>1, <1>3, HalfAssumption DEF DiskShape
  <2>3. log[pos + 1].id = Plus(b, pos + 1 - s)
    BY <1>1, <1>3 DEF DiskShape
  <2>4. Inc(txid) = Plus(b, pos + 1 - s)
    BY <2>1, <2>2, AheadIsNewer
  <2>5. ~IsTxIDLessEqual(Inc(txid), txid)
    BY IncIsNewer DEF TypeOK
  <2> QED BY <2>3, <2>4, <2>5, <1>1, <1>3
<1> QED BY <1>1, <1>2, <1>3

\* LoadRecord: the table follows the log.
LEMMA StepLoadRecord ==
  ASSUME NEW b \in TxIDs, NEW s \in 0 .. Len(log), TypeOK, DiskShape(b, s), ProcShape(b, s),
         LoadRecord
  PROVE  IInv'
<1>1. pc = "loading" /\ pos < Len(log) /\ pos' = pos + 1
  BY DEF LoadRecord
<1>2. pos \in Nat /\ pos + 1 \in 1 .. Len(log) /\ Len(log) \in Nat /\ s \in Nat
  BY <1>1, RecordTypes DEF TypeOK
<1>3. mem' \in Table /\ txid' \in TxIDs
  <2>1. Apply(mem, log[pos + 1].op) \in Table /\ log[pos + 1].id \in TxIDs
    BY <1>2, RecordTypes, ApplyType DEF TypeOK
  <2> QED BY <2>1 DEF LoadRecord, TypeOK
<1>4. TypeOK'
  BY <1>1, <1>2, <1>3 DEF LoadRecord, TypeOK, disk, files
<1>5. s \in 0 .. Len(log)' /\ DiskShape(b, s)'
  BY SameDisk DEF LoadRecord, disk
<1>6. OldShape(b)'
  BY <1>1 DEF LoadRecord, ProcShape, OldShape, Files, disk
<1>7. txid' = Plus(b, IF pos' <= s THEN 0 ELSE pos' - s) /\ mem' = Committed(b, s, pos)'
  <2>1. Committed(b, s, pos)' = Committed(b, s, pos + 1)
    BY <1>1 DEF LoadRecord, Committed, TableOf, disk
  <2>2. mem = Committed(b, s, pos)
    BY <1>1 DEF ProcShape
  <2>3. CASE pos + 1 <= s
    <3>1. IsTxIDLessEqual(log[pos + 1].id, txid) /\ txid = b
      BY <2>3, <1>1, NextRecord
    <3>2. UNCHANGED <<mem, txid>>
      BY <3>1 DEF LoadRecord
    <3>3. Plus(b, 0) = b
      BY HalfAssumption DEF Plus, TxIDs, TxMod
    <3> QED BY <3>1, <3>2, <3>3, <2>1, <2>2, <2>3, <1>1, <1>2 DEF Committed
  <2>4. CASE pos + 1 > s
    <3>1. ~IsTxIDLessEqual(log[pos + 1].id, txid) /\ log[pos + 1].id = Inc(txid)
              /\ Inc(txid) = Plus(b, pos + 1 - s)
      BY <2>4, <1>1, NextRecord
    <3>2. txid' = Inc(txid) /\ mem' = Apply(mem, log[pos + 1].op)
      BY <3>1 DEF LoadRecord
    <3>3. log[pos + 1].after = Apply(Committed(b, s, pos), log[pos + 1].op)
      <4>1. \A i \in s + 1 .. Len(log) : log[i].after = Apply(Committed(b, s, i - 1), log[i].op)
        BY DEF DiskShape
      <4>2. pos + 1 \in s + 1 .. Len(log) /\ (pos + 1) - 1 = pos
        BY <1>2, <2>4
      <4> QED BY <4>1, <4>2
    <3> QED BY <3>1, <3>2, <3>3, <2>1, <2>2, <2>4, <1>1, <1>2 DEF Committed
  <2> QED BY <1>2, <2>3, <2>4
<1>8. ProcShape(b, s)'
  <2>1. pc' = "loading" /\ ~logNeedsTruncate' /\ cur' = NoOp /\ result' = "none"
    BY <1>1 DEF LoadRecord, ProcShape, files
  <2>2. pos' <= Len(log)'
    BY <1>1, <1>2 DEF LoadRecord, disk
  <2> QED BY <2>1, <2>2, <1>6, <1>7 DEF ProcShape
<1> QED BY <1>4, <1>5, <1>8 DEF IInv

\* LoadEnd: the store is ready, with what is on disk in memory.
LEMMA StepLoadEnd ==
  ASSUME NEW b \in TxIDs, NEW s \in 0 .. Len(log), TypeOK, DiskShape(b, s), ProcShape(b, s),
         LoadEnd
  PROVE  IInv'
<1>1. pc = "loading" /\ pos = Len(log) /\ NewDiskStore(torn)
  BY DEF LoadEnd
<1>2. Len(log) \in Nat /\ s \in Nat /\ s <= Len(log)
  BY RecordTypes
<1>3. TypeOK'
  <2>1. logInvalid' \in BOOLEAN
    BY <1>1 DEF NewDiskStore, TypeOK
  <2>2. logFile' \in BOOLEAN
    BY <1>1 DEF NewDiskStore
  <2>3. logFileSize' \in Nat
    BY <1>1, <1>2 DEF NewDiskStore
  <2>4. UNCHANGED <<disk, mem, ids, logNeedsTruncate, logBuf, cur, result>> /\ pos' = 0 /\ pc' = "ready"
    BY <1>1 DEF NewDiskStore
  <2> QED BY <1>2, <2>1, <2>2, <2>3, <2>4 DEF TypeOK, disk, ids
<1>4. s \in 0 .. Len(log)' /\ DiskShape(b, s)'
  BY <1>1, SameDisk DEF NewDiskStore, disk
<1>5. OldShape(b)'
  BY <1>1 DEF NewDiskStore, ProcShape, OldShape, Files, disk, ids
<1>6. txid' = Plus(b, Len(log)' - s)
  BY <1>1, <1>2 DEF NewDiskStore, ProcShape, disk, ids
<1>7. mem' = Committed(b, s, Len(log))'
  BY <1>1 DEF NewDiskStore, ProcShape, Committed, TableOf, disk
<1>8. pc' = "ready" /\ logInvalid' = torn' /\ ~logNeedsTruncate' /\ cur' = NoOp
  BY <1>1 DEF NewDiskStore, ProcShape, disk
<1>9. ProcShape(b, s)'
  BY <1>5, <1>6, <1>7, <1>8 DEF ProcShape
<1> QED BY <1>3, <1>4, <1>9 DEF IInv

\* LoadGap does not happen.
LEMMA StepLoadGap ==
  ASSUME NEW b \in TxIDs, NEW s \in 0 .. Len(log), TypeOK, DiskShape(b, s), ProcShape(b, s),
         LoadGap
  PROVE  FALSE
<1>1. pc = "loading" /\ pos < Len(log) /\ ~IsTxIDLessEqual(log[pos + 1].id, txid)
        /\ log[pos + 1].id # Inc(txid)
  BY DEF LoadGap
<1>2. pos \in Nat /\ s \in Nat
  BY RecordTypes DEF TypeOK
<1> QED BY <1>1, <1>2, NextRecord

\* LoadAborts: the process ends.
LEMMA StepLoadAborts ==
  ASSUME NEW b \in TxIDs, NEW s \in 0 .. Len(log), TypeOK, DiskShape(b, s), ProcShape(b, s),
         LoadAborts
  PROVE  IInv'
<1>1. TypeOK'
  BY StoppedType DEF LoadAborts, TypeOK, disk
<1>2. s \in 0 .. Len(log)' /\ DiskShape(b, s)'
  BY SameDisk DEF LoadAborts, disk
<1>3. ProcShape(b, s)'
  BY DEF LoadAborts, Stop, ProcShape
<1> QED BY <1>1, <1>2, <1>3 DEF IInv

\* Ids in a window of half of the id space: the next id is ahead of what the last
\* one was ahead of.
LEMMA WindowInc ==
  \A first, x, t \in TxIDs :
     Sub(Inc(x), first) < Half /\ Sub(t, first) < Half /\ Sub(x, t) < Half => Sub(Inc(x), t) < Half
  BY HalfAssumption DEF TxIDs, TxMod, Sub, Inc

\* Two ids ahead of b.
LEMMA PlusApart ==
  \A b \in TxIDs : \A k \in 0 .. Half - 1 : \A j \in 0 .. k : Sub(Plus(b, k), Plus(b, j)) < Half
  BY HalfAssumption DEF TxIDs, TxMod, Sub, Plus

\* The same, of an id k ahead of b, for what is not ahead of b.
LEMMA WindowPlus ==
  \A first, b, t \in TxIDs : \A k \in 0 .. Half :
     /\ Sub(Plus(b, k), first) < Half /\ Sub(b, first) < Half /\ Sub(t, first) < Half
     /\ Sub(b, t) < Half
     => Sub(Plus(b, k), t) < Half
  BY HalfAssumption DEF TxIDs, TxMod, Sub, Plus

\* InSpan is about the b of the disk's shape, and the next id is ahead of all others.
LEMMA SpanReads ==
  ASSUME NEW b \in TxIDs, NEW s \in 0 .. Len(log), TypeOK, DiskShape(b, s), ProcShape(b, s),
         pc = "ready", InSpan
  PROVE  SpanOf(b)
<1>1. PICK first \in TxIDs : \A t \in IDsInUse : Sub(t, first) < Half
  BY DEF InSpan
<1>2. Len(log) \in Nat /\ s \in Nat /\ Half \in Nat /\ Half >= 2 /\ Len(log) - s < Half
        /\ \A i \in 1 .. Len(log) : log[i].id \in TxIDs
  BY RecordTypes, HalfAssumption DEF DiskShape
<1>3. Sub(NextTxID, first) < Half /\ Sub(b, first) < Half
        /\ (\A f \in Files : f \in TxIDs /\ Sub(f, first) < Half)
        /\ \A i \in 1 .. Len(log) : Sub(log[i].id, first) < Half
  BY <1>1, DiskReads DEF IDsInUse, KnownFiles, LogIDs, Files
<1>4. PICK k \in 0 .. Half : NextTxID = Plus(b, k) /\ k >= Len(log) - s
  <2>1. CASE txid = Plus(b, Len(log) - s)
    <3>1. Len(log) - s \in 0 .. Half - 1 /\ Len(log) - s + 1 \in 0 .. Half
      BY <1>2
    <3>2. Inc(Plus(b, Len(log) - s)) = Plus(b, Len(log) - s + 1)
      BY <3>1, AheadIsNewer
    <3> QED BY <2>1, <3>1, <3>2 DEF NextTxID
  <2>2. CASE s < Len(log) /\ txid = Plus(b, Len(log) - s - 1)
    <3>1. Len(log) - s - 1 \in 0 .. Half - 1 /\ Len(log) - s \in 0 .. Half
          /\ Len(log) - s - 1 + 1 = Len(log) - s
      BY <1>2, <2>2
    <3>2. Inc(Plus(b, Len(log) - s - 1)) = Plus(b, Len(log) - s)
      BY <3>1, AheadIsNewer
    <3> QED BY <2>2, <3>1, <3>2 DEF NextTxID
  <2> QED BY <2>1, <2>2 DEF ProcShape
<1>5. ASSUME NEW t \in TxIDs, Sub(t, first) < Half, Sub(b, t) < Half PROVE Sub(NextTxID, t) < Half
  BY <1>3, <1>4, <1>5, WindowPlus
<1>6. Sub(NextTxID, b) < Half
  BY <1>3, <1>5, SubSelf, HalfAssumption
<1>7. \A f \in Files : Sub(NextTxID, f) < Half
  BY <1>3, <1>5 DEF DiskShape
<1>8. ASSUME NEW i \in 1 .. Len(log) PROVE Sub(NextTxID, log[i].id) < Half
  <2>1. CASE i <= s
    <3>1. i \in 1 .. s
      BY <1>2, <2>1
    <3> QED BY <3>1, <1>2, <1>3, <1>5 DEF DiskShape
  <2>2. CASE i > s
    <3>1. i \in s + 1 .. Len(log) /\ i - s \in 0 .. k /\ i - s > 0
      BY <1>2, <1>4, <2>2
    <3>2. log[i].id = Plus(b, i - s)
      BY <3>1 DEF DiskShape
    <3>3. k < Half
      BY <1>4, <1>6, PlusDistance
    <3>4. k \in 0 .. Half - 1
      BY <3>3, <1>2, <1>4
    <3>5. Sub(Plus(b, k), Plus(b, i - s)) < Half
      BY <3>1, <3>4, PlusApart
    <3> QED BY <3>2, <3>5, <1>4
  <2> QED BY <1>2, <2>1, <2>2
<1> QED BY <1>6, <1>7, <1>8 DEF SpanOf

\* Update: the table in memory is one update ahead of the disk.
LEMMA StepUpdate ==
  ASSUME NEW b \in TxIDs, NEW s \in 0 .. Len(log), TypeOK, DiskShape(b, s), ProcShape(b, s),
         NEW op \in Op, Update(op)
  PROVE  IInv'
<1>1. pc = "ready" /\ pc' \in {"log", "checkpoint"} /\ mem' = Apply(mem, op) /\ cur' = op
  BY DEF Update
<1>2. UNCHANGED <<disk, pos, files, ids>> /\ result' = "none"
  BY DEF Update
<1>3. TypeOK'
  <2>1. mem' \in Table
    BY <1>1, ApplyType DEF TypeOK
  <2> QED BY <1>1, <1>2, <2>1 DEF TypeOK, disk, files, ids
<1>4. s \in 0 .. Len(log)' /\ DiskShape(b, s)'
  BY <1>2, SameDisk DEF disk
<1>5. SpanOf(b)'
  <2>1. SpanOf(b)
    BY SpanReads DEF Update
  <2> QED BY <2>1, <1>2 DEF SpanOf, NextTxID, Files, disk, ids
<1>6. OldShape(b)'
  BY <1>1, <1>2 DEF ProcShape, OldShape, Files, disk, ids
<1>7. ~logInvalid' => mem' = Apply(Committed(b, s, Len(log)), cur)'
  BY <1>1, <1>2 DEF ProcShape, Apply, Committed, TableOf, disk, files
<1>8. cur' # NoOp
  BY <1>1, ConstantsAssumption
<1>9. ProcShape(b, s)'
  BY <1>1, <1>2, <1>5, <1>6, <1>7, <1>8 DEF ProcShape, disk, files, ids
<1> QED BY <1>3, <1>4, <1>9 DEF IInv

\* Checkpoint: nothing has changed yet.
LEMMA StepCheckpoint ==
  ASSUME NEW b \in TxIDs, NEW s \in 0 .. Len(log), TypeOK, DiskShape(b, s), ProcShape(b, s),
         Checkpoint
  PROVE  IInv'
<1>1. pc = "ready" /\ pc' = "checkpoint" /\ UNCHANGED <<disk, mem, pos, cur, files, ids>>
        /\ result' = "none"
  BY DEF Checkpoint
<1>2. TypeOK'
  BY <1>1 DEF TypeOK, disk, files, ids
<1>3. s \in 0 .. Len(log)' /\ DiskShape(b, s)'
  BY <1>1, SameDisk DEF disk
<1>4. SpanOf(b)'
  <2>1. SpanOf(b)
    BY SpanReads DEF Checkpoint
  <2> QED BY <2>1, <1>1 DEF SpanOf, NextTxID, Files, disk, ids
<1>5. OldShape(b)'
  BY <1>1 DEF ProcShape, OldShape, Files, disk, ids
<1>6. ~logInvalid' => mem' = Committed(b, s, Len(log))'
  BY <1>1 DEF ProcShape, Committed, TableOf, disk, files
<1>7. ProcShape(b, s)'
  BY <1>1, <1>4, <1>5, <1>6 DEF ProcShape, disk, files, ids
<1> QED BY <1>2, <1>3, <1>7 DEF IInv

\* A call that returns with an error leaves the files behind in the same shape;
\* nothing is promised then while the log is invalid.
LEMMA StepLogRejected ==
  ASSUME NEW b \in TxIDs, NEW s \in 0 .. Len(log), TypeOK, DiskShape(b, s), ProcShape(b, s),
         LogRejected
  PROVE  IInv'
<1>1. pc \in {"log", "fallback"} /\ logInvalid /\ pc' = "ready" /\ cur' = NoOp
        /\ result' = "err" /\ UNCHANGED <<disk, mem, pos, files, ids>>
  BY DEF LogRejected, Logging, Return
<1>2. TypeOK'
  BY <1>1 DEF TypeOK, disk, files, ids
<1>3. s \in 0 .. Len(log)' /\ DiskShape(b, s)'
  BY <1>1, SameDisk DEF disk
<1>4. OldShape(b)'
  BY <1>1 DEF ProcShape, OldShape, Files, disk, ids
<1>5. ProcShape(b, s)'
  BY <1>1, <1>4 DEF ProcShape, disk, files, ids
<1> QED BY <1>2, <1>3, <1>5 DEF IInv

\* An emptied log has the shape, once a checkpoint has made all of it old.
LEMMA EmptyLog ==
  ASSUME NEW b \in TxIDs, NEW s \in 0 .. Len(log), TypeOK, DiskShape(b, s),
         UNCHANGED data, log' = <<>>
  PROVE  /\ 0 \in 0 .. Len(log)' /\ Len(log)' = 0 /\ (log \in Seq(Record))'
         /\ DiskShape(b, 0)'
<1>1. Len(log') = 0 /\ log' \in Seq(Record)
  OBVIOUS
<1>2. Files' = Files
  BY DEF Files
<1>3. DiskShape(b, 0)'
  BY <1>1, <1>2, HalfAssumption DEF DiskShape
<1> QED BY <1>1, <1>3

\* LogOpenFails and LogReopen: tryOpenLog empties only a log that is all old.
LEMMA StepLogOpen ==
  ASSUME NEW b \in TxIDs, NEW s \in 0 .. Len(log), TypeOK, DiskShape(b, s), ProcShape(b, s),
         LogOpenFails \/ LogReopen
  PROVE  IInv'
<1>1. pc \in {"log", "fallback"} /\ ~logInvalid /\ UNCHANGED <<meta, data, mem, pos, ids, logBuf>>
  BY DEF LogOpenFails, LogReopen, Logging, ids
<1>2. Len(log) \in Nat /\ s \in Nat /\ s <= Len(log)
  BY RecordTypes
<1>3. PICK s1 \in {s, 0} :
         /\ s1 \in 0 .. Len(log)' /\ DiskShape(b, s1)'
         /\ log' \in Seq(Record) /\ torn' \in BOOLEAN /\ synced' \in 0 .. Len(log)'
         /\ Len(log)' - s1 = Len(log) - s
         /\ logNeedsTruncate => s1 = Len(log)' /\ ~logFile
         /\ ~torn'
         /\ Committed(b, s1, Len(log))' = Committed(b, s, Len(log))
         /\ \A i \in 1 .. Len(log)' : i \in 1 .. Len(log) /\ log'[i] = log[i]
         /\ Len(log') \in Nat
  <2>1. CASE UNCHANGED <<log, torn, synced>>
    <3>1. s \in 0 .. Len(log)' /\ DiskShape(b, s)'
      BY <2>1, <1>1, SameDisk
    <3>2. Committed(b, s, Len(log))' = Committed(b, s, Len(log))
      BY <2>1, <1>1 DEF Committed, TableOf
    <3>3. ~torn' /\ (logNeedsTruncate => s = Len(log)' /\ ~logFile)
      BY <2>1, <1>1 DEF ProcShape
    <3> QED BY <2>1, <1>2, <3>1, <3>2, <3>3 DEF TypeOK
  <2>2. CASE logNeedsTruncate /\ log' = <<>> /\ torn' = FALSE /\ synced' = 0
    <3>1. s = Len(log) /\ ~logFile
      BY <2>2, <1>1 DEF ProcShape
    <3>2. DiskShape(b, 0)' /\ Len(log)' = 0 /\ log' \in Seq(Record)
      BY <2>2, <1>1, EmptyLog
    <3>3. Committed(b, 0, Len(log))' = Committed(b, s, Len(log))
      BY <3>1, <3>2, <1>1, <1>2 DEF Committed, TableOf
    <3>4. torn' \in BOOLEAN /\ ~torn'
      BY <2>2
    <3> QED BY <2>2, <1>2, <3>1, <3>2, <3>3, <3>4
  <2> QED BY <2>1, <2>2 DEF LogOpenFails, LogReopen, TruncateOnOpen
<1>4. OldShape(b)'
  BY <1>1 DEF ProcShape, OldShape, Files, ids, LogOpenFails, LogReopen, Return
<1>5. txid' = Plus(b, Len(log)' - s1)
  BY <1>1, <1>3 DEF ProcShape, ids
<1>6. CASE LogOpenFails
  <2>1. pc' = "ready" /\ cur' = NoOp /\ result' = "err" /\ logInvalid' = TRUE
          /\ UNCHANGED <<logFile, logNeedsTruncate, logFileSize>>
    BY <1>6, <1>1 DEF LogOpenFails, Return
  <2>2. TypeOK'
    BY <2>1, <1>1, <1>3 DEF TypeOK, ids
  <2>3. ProcShape(b, s1)'
    BY <2>1, <1>3, <1>4, <1>5 DEF ProcShape
  <2> QED BY <2>2, <2>3, <1>3 DEF IInv
<1>7. CASE LogReopen
  <2>1. logFile' = TRUE /\ logFileSize' = Len(log') /\ logNeedsTruncate' = FALSE
          /\ UNCHANGED <<pc, logInvalid, cur, result>>
    BY <1>7 DEF LogReopen
  <2>2. TypeOK'
    <3>1. logFile' \in BOOLEAN /\ logNeedsTruncate' \in BOOLEAN
      BY <2>1
    <3>2. logFileSize' \in Nat
      BY <2>1, <1>3
    <3> QED BY <3>1, <3>2, <2>1, <1>1, <1>3 DEF TypeOK, ids
  <2>3. SpanOf(b)'
    BY <1>1, <1>3 DEF ProcShape, SpanOf, NextTxID, Files, ids
  <2>4. ~logInvalid' /\ cur' # NoOp /\ pc' \in {"log", "fallback"}
    BY <2>1, <1>1 DEF ProcShape
  <2>5. mem' = Apply(Committed(b, s1, Len(log)), cur)'
    BY <2>1, <2>4, <1>1, <1>3 DEF ProcShape, Apply
  <2>6. ProcShape(b, s1)'
    BY <2>1, <2>3, <2>4, <2>5, <1>3, <1>4, <1>5 DEF ProcShape
  <2> QED BY <2>2, <2>6, <1>3 DEF IInv
<1> QED BY <1>6, <1>7

\* A record that is appended continues the history of the disk.
LEMMA AppendedLog ==
  ASSUME NEW b \in TxIDs, NEW s \in 0 .. Len(log), TypeOK, DiskShape(b, s), ProcShape(b, s),
         CanWrite, UNCHANGED data,
         log' = Append(log, [id |-> NextTxID, op |-> cur, after |-> mem])
  PROVE  /\ s \in 0 .. Len(log)' /\ Len(log)' = Len(log) + 1 /\ log' \in Seq(Record)
         /\ DiskShape(b, s)'
         /\ Committed(b, s, Len(log))' = mem
         /\ NextTxID = Plus(b, Len(log)' - s)
         /\ txid = Plus(b, Len(log)' - s - 1)
<1> DEFINE r == [id |-> NextTxID, op |-> cur, after |-> mem]
<1>1. pc \in {"log", "fallback"} /\ ~logInvalid /\ cur # NoOp /\ cur \in Op
  BY DEF CanWrite, Logging, ProcShape, TypeOK
<1>2. r \in Record
  <2>1. NextTxID \in TxIDs /\ mem \in Table
    BY IncType DEF NextTxID, TypeOK
  <2> QED BY <2>1, <1>1 DEF Record
<1>3. Len(log) \in Nat /\ s \in Nat /\ s <= Len(log) /\ log \in Seq(Record)
  BY RecordTypes DEF TypeOK
<1>4. log' = Append(log, r)
  OBVIOUS
<1>5. Len(log') = Len(log) + 1 /\ log' \in Seq(Record) /\ log'[Len(log) + 1] = r
        /\ \A i \in 1 .. Len(log) : log'[i] = log[i]
  BY <1>2, <1>3, <1>4
<1>6. r.id = NextTxID /\ r.op = cur /\ r.after = mem
  OBVIOUS
<1> HIDE DEF r
<1>7. txid = Plus(b, Len(log) - s)
  BY <1>1 DEF ProcShape
<1>8. Len(log) - s \in 0 .. Half - 1 /\ (Len(log) - s) + 1 = (Len(log) + 1) - s
        /\ (Len(log) + 1) - s \in 0 .. Half
  BY <1>3, HalfAssumption DEF DiskShape
<1>9. NextTxID = Plus(b, (Len(log) + 1) - s)
  BY <1>7, <1>8, AheadIsNewer DEF NextTxID
<1>10. (Len(log) + 1) - s < Half
  <2>1. Sub(NextTxID, b) < Half
    BY <1>1 DEF ProcShape, SpanOf
  <2> QED BY <2>1, <1>8, <1>9, PlusDistance
<1>11. mem = Apply(Committed(b, s, Len(log)), cur)
  BY <1>1 DEF ProcShape
<1>12. \A p \in 0 .. Len(log) : Committed(b, s, p)' = Committed(b, s, p)
  BY <1>3, <1>5 DEF Committed, TableOf
<1>13. Committed(b, s, Len(log))' = mem
  BY <1>3, <1>5, <1>6 DEF Committed
<1>14. DiskShape(b, s)'
  <2>1. \A i \in s + 1 .. Len(log)' :
          /\ log'[i].id = Plus(b, i - s)
          /\ log'[i].after = Apply(Committed(b, s, i - 1)', log'[i].op)
    <3> SUFFICES ASSUME NEW i \in s + 1 .. Len(log)'
                 PROVE  /\ log'[i].id = Plus(b, i - s)
                        /\ log'[i].after = Apply(Committed(b, s, i - 1)', log'[i].op)
      OBVIOUS
    <3>0. i \in Nat /\ i > s /\ i <= Len(log) + 1 /\ i - 1 \in 0 .. Len(log)
      BY <1>3, <1>5
    <3>1. Committed(b, s, i - 1)' = Committed(b, s, i - 1)
      BY <3>0, <1>12
    <3>2. CASE i = Len(log) + 1
      <4>1. log'[i] = r /\ i - 1 = Len(log)
        BY <3>2, <1>3, <1>5
      <4> QED BY <4>1, <3>1, <3>2, <1>6, <1>9, <1>11
    <3>3. CASE i <= Len(log)
      <4>1. log'[i] = log[i] /\ i \in s + 1 .. Len(log)
        BY <3>0, <3>3, <1>3, <1>5
      <4> QED BY <4>1, <3>1 DEF DiskShape
    <3> QED BY <3>0, <3>2, <3>3, <1>3
  <2>2. \A i \in 1 .. s : Sub(b, log'[i].id) < Half
    BY <1>3, <1>5 DEF DiskShape
  <2>3. Files' = Files
    BY DEF Files
  <2>4. Len(log)' - s < Half
    BY <1>5, <1>10
  <2> QED BY <2>1, <2>2, <2>3, <2>4 DEF DiskShape
<1>15. Len(log)' = Len(log) + 1 /\ s \in 0 .. Len(log)'
        /\ Len(log)' - s = (Len(log) + 1) - s /\ Len(log)' - s - 1 = Len(log) - s
  <2>1. Len(log)' = Len(log) + 1
    BY <1>5
  <2>2. \A l, t \in Nat : t <= l => /\ t \in 0 .. l + 1 /\ (l + 1) - t - 1 = l - t
    OBVIOUS
  <2> QED BY <2>1, <2>2, <1>3
<1> QED BY <1>5, <1>7, <1>9, <1>13, <1>14, <1>15

\* LogAppend: the disk catches up with the table in memory.
LEMMA StepLogAppend ==
  ASSUME NEW b \in TxIDs, NEW s \in 0 .. Len(log), TypeOK, DiskShape(b, s), ProcShape(b, s),
         LogAppend
  PROVE  IInv'
<1>1. /\ s \in 0 .. Len(log)' /\ log' \in Seq(Record) /\ DiskShape(b, s)'
      /\ Committed(b, s, Len(log))' = mem
      /\ NextTxID = Plus(b, Len(log)' - s)
      /\ Len(log)' = Len(log) + 1
  BY AppendedLog DEF LogAppend, Append1
<1>2. pc \in {"log", "fallback"} /\ ~logInvalid /\ pc' = "ready" /\ cur' = NoOp
        /\ result' \in {"ok", "err"} /\ txid' = NextTxID
        /\ UNCHANGED <<meta, data, torn, synced, mem, pos, active, old, logFile, logInvalid,
                       logNeedsTruncate, logBuf>>
  BY DEF LogAppend, CanWrite, Logging, Return, Append1
<1>3. TypeOK'
  <2>1. txid' \in TxIDs
    BY <1>2, IncType DEF TypeOK, NextTxID
  <2>2. synced' \in 0 .. Len(log)'
    BY <1>1, <1>2, RecordTypes DEF TypeOK
  <2>3. logFileSize' \in Nat
    BY DEF LogAppend, TypeOK
  <2> QED BY <2>1, <2>2, <2>3, <1>1, <1>2 DEF TypeOK
<1>4. OldShape(b)'
  BY <1>2 DEF ProcShape, OldShape, Files
<1>5. ~torn' /\ ~logNeedsTruncate'
  <2>1. ~logNeedsTruncate
    BY DEF LogAppend, CanWrite, Logging, ProcShape
  <2> QED BY <2>1, <1>2 DEF ProcShape
<1>6. ProcShape(b, s)'
  BY <1>1, <1>2, <1>4, <1>5 DEF ProcShape
<1> QED BY <1>1, <1>3, <1>6 DEF IInv

\* LogEncodeFails and LogWriteFails: nothing, a part or all of the record is in
\* the file, and the log is marked.
LEMMA StepLogFails ==
  ASSUME NEW b \in TxIDs, NEW s \in 0 .. Len(log), TypeOK, DiskShape(b, s), ProcShape(b, s),
         LogEncodeFails \/ LogWriteFails
  PROVE  IInv'
<1>1. /\ CanWrite /\ pc \in {"log", "fallback"} /\ ~logInvalid /\ pc' = "ready" /\ cur' = NoOp
      /\ result' = "err" /\ logInvalid' = TRUE
      /\ UNCHANGED <<meta, data, synced, mem, pos, ids, logFile, logNeedsTruncate>>
  BY DEF LogEncodeFails, LogWriteFails, CanWrite, Logging, Return, Append1, Tear
<1>2. Append1 \/ (log' = log /\ torn' \in {torn, TRUE})
  BY DEF LogEncodeFails, LogWriteFails, Tear
<1>3. Len(log) \in Nat /\ s \in Nat /\ s <= Len(log)
  BY RecordTypes
<1>4. /\ s \in 0 .. Len(log)' /\ log' \in Seq(Record) /\ DiskShape(b, s)'
      /\ synced' \in 0 .. Len(log)'
      /\ \/ txid = Plus(b, Len(log)' - s)
         \/ s < Len(log)' /\ txid = Plus(b, Len(log)' - s - 1)
  <2>1. CASE Append1
    <3>1. /\ s \in 0 .. Len(log)' /\ log' \in Seq(Record) /\ DiskShape(b, s)'
          /\ txid = Plus(b, Len(log)' - s - 1)
          /\ Len(log)' = Len(log) + 1
      BY <2>1, <1>1, AppendedLog DEF Append1
    <3>2. s < Len(log)' /\ synced' \in 0 .. Len(log)'
      BY <3>1, <1>1, <1>3 DEF TypeOK
    <3> QED BY <3>1, <3>2
  <2>2. CASE log' = log
    <3>1. s \in 0 .. Len(log)' /\ DiskShape(b, s)'
      BY <2>2, <1>1, SameDisk
    <3>2. txid = Plus(b, Len(log)' - s)
      BY <2>2, <1>1 DEF ProcShape
    <3> QED BY <3>1, <3>2, <2>2, <1>1 DEF TypeOK
  <2> QED BY <1>2, <2>1, <2>2
<1>5. torn' \in BOOLEAN
  BY <1>2 DEF Append1, TypeOK
<1>6. TypeOK'
  <2>1. logFileSize' \in Nat /\ logBuf' \in {"clean", "partial", "failed"}
    BY DEF LogEncodeFails, LogWriteFails, TypeOK
  <2>2. logInvalid' \in BOOLEAN
    BY <1>1
  <2> QED BY <2>1, <2>2, <1>1, <1>4, <1>5 DEF TypeOK, ids
<1>7. OldShape(b)'
  BY <1>1 DEF ProcShape, OldShape, Files, ids
<1>8. ~logNeedsTruncate'
  BY <1>1 DEF CanWrite, ProcShape
<1>9. ProcShape(b, s)'
  BY <1>1, <1>4, <1>7, <1>8 DEF ProcShape, ids
<1> QED BY <1>4, <1>6, <1>9 DEF IInv

\* CheckpointFails: nothing has changed.
LEMMA StepCheckpointFails ==
  ASSUME NEW b \in TxIDs, NEW s \in 0 .. Len(log), TypeOK, DiskShape(b, s), ProcShape(b, s),
         CheckpointFails
  PROVE  IInv'
<1>1. pc = "checkpoint" /\ UNCHANGED <<disk, mem, pos, files, ids>>
  BY DEF CheckpointFails
<1>2. \/ cur = NoOp /\ pc' = "ready" /\ cur' = NoOp /\ result' = "err"
      \/ cur # NoOp /\ pc' = "fallback" /\ UNCHANGED <<cur, result>>
  BY <1>1 DEF CheckpointFails, Return
<1>3. TypeOK'
  BY <1>1, <1>2 DEF TypeOK, disk, files, ids
<1>4. s \in 0 .. Len(log)' /\ DiskShape(b, s)'
  BY <1>1, SameDisk DEF disk
<1>5. OldShape(b)' /\ SpanOf(b)'
  BY <1>1, <1>2 DEF ProcShape, OldShape, SpanOf, NextTxID, Files, disk, ids
<1>6. Committed(b, s, Len(log))' = Committed(b, s, Len(log))
  BY <1>1 DEF Committed, TableOf, disk
<1>7. ProcShape(b, s)'
  BY <1>1, <1>2, <1>5, <1>6 DEF ProcShape, Apply, disk, files, ids
<1> QED BY <1>3, <1>4, <1>7 DEF IInv

\* The id of a checkpoint is ahead of the newest data file.
LEMMA CheckpointAhead ==
  ASSUME NEW b \in TxIDs, NEW s \in 0 .. Len(log), TypeOK, DiskShape(b, s), ProcShape(b, s),
         pc = "checkpoint"
  PROVE  /\ NextTxID \in TxIDs
         /\ NextTxID # b
         /\ NextTxID \notin Files
<1>1. Len(log) \in Nat /\ s \in Nat /\ s <= Len(log) /\ NextTxID \in TxIDs
  BY RecordTypes, IncType DEF TypeOK, NextTxID
<1>2. \E k \in 0 .. Half - 1 : txid = Plus(b, k)
  <2>1. Len(log) - s \in 0 .. Half - 1
    BY <1>1, HalfAssumption DEF DiskShape
  <2>2. s < Len(log) => Len(log) - s - 1 \in 0 .. Half - 1
    BY <1>1, HalfAssumption DEF DiskShape
  <2> QED BY <2>1, <2>2 DEF ProcShape
<1>3. PICK k \in 0 .. Half - 1 : txid = Plus(b, k)
  BY <1>2
<1>4. NextTxID = Plus(b, k + 1) /\ k + 1 \in 0 .. Half /\ k + 1 > 0
  BY <1>3, AheadIsNewer, HalfAssumption DEF NextTxID
<1>5. Sub(NextTxID, b) = k + 1
  BY <1>4, PlusDistance
<1>6. NextTxID # b
  BY <1>4, <1>5, SubSelf
<1>7. NextTxID \notin Files
  <2> SUFFICES ASSUME NextTxID \in Files PROVE FALSE
    OBVIOUS
  <2>1. Sub(b, NextTxID) < Half
    BY DEF DiskShape
  <2>2. Sub(NextTxID, b) < Half
    BY DEF ProcShape, SpanOf
  <2> QED BY <2>1, <2>2, <1>1, <1>6, SubExclusive
<1> QED BY <1>1, <1>6, <1>7

\* CheckpointRename: the new data file makes all of the log old.
LEMMA StepCheckpointRename ==
  ASSUME NEW b \in TxIDs, NEW s \in 0 .. Len(log), TypeOK, DiskShape(b, s), ProcShape(b, s),
         CheckpointRename
  PROVE  /\ NextTxID \in TxIDs /\ TypeOK' /\ Len(log) \in 0 .. Len(log)'
         /\ DiskShape(NextTxID, Len(log))' /\ ProcShape(NextTxID, Len(log))'
<1> DEFINE c == NextTxID
<1>1. pc = "checkpoint" /\ pc' = "clear" /\ data' = [data EXCEPT ![c] = mem]
        /\ UNCHANGED <<meta, log, torn, synced, mem, pos, cur, files, ids, result>>
  BY DEF CheckpointRename
<1>2. c \in TxIDs /\ c # b /\ c \notin Files
  BY <1>1, CheckpointAhead
<1>3. Len(log) \in Nat /\ (\A i \in 1 .. Len(log) : log[i].id \in TxIDs)
  BY RecordTypes
<1>4. SpanOf(b)
  BY <1>1 DEF ProcShape
<1>5. c' = c
  BY <1>1 DEF NextTxID, ids
<1>6. \A f \in Files : Sub(c, f) < Half
  BY <1>4 DEF SpanOf
<1>7. \A i \in 1 .. Len(log) : Sub(c, log[i].id) < Half
  BY <1>4 DEF SpanOf
<1> HIDE DEF c
<1>8. mem \in Table /\ mem # NoFile /\ mem # Corrupt
  BY ConstantsAssumption DEF TypeOK
<1>9. data' \in [TxIDs -> Table \cup {NoFile, Corrupt}] /\ data'[c] = mem
        /\ \A f \in TxIDs \ {c} : data'[f] = data[f]
  BY <1>1, <1>2, <1>8 DEF TypeOK
<1>10. Files' = Files \cup {c}
  BY <1>2, <1>8, <1>9 DEF Files
<1>11. TypeOK'
  BY <1>1, <1>9 DEF TypeOK, files, ids
<1>12. DiskShape(c, Len(log))'
  <2>1. \A f \in Files' : data'[f] # Corrupt /\ Sub(c, f) < Half
    <3> SUFFICES ASSUME NEW f \in Files' PROVE data'[f] # Corrupt /\ Sub(c, f) < Half
      OBVIOUS
    <3>1. CASE f = c
      BY <3>1, <1>2, <1>8, <1>9, SubSelf, HalfAssumption
    <3>2. CASE f \in Files /\ f # c
      <4>1. data'[f] = data[f]
        BY <3>2, <1>9 DEF Files
      <4> QED BY <4>1, <3>2, <1>6 DEF DiskShape
    <3> QED BY <3>1, <3>2, <1>10
  <2>2. log' = log
    BY <1>1
  <2>3. \A i \in 1 .. Len(log)' : Sub(c, log'[i].id) < Half
    BY <2>2, <1>7
  <2>4. Len(log)' - Len(log) < Half /\ (\A i \in Len(log) + 1 .. Len(log) : FALSE)
    BY <2>2, <1>3, HalfAssumption
  <2> QED BY <2>1, <2>2, <2>3, <2>4, <1>5, <1>10 DEF DiskShape
<1>13. OldShape(c)'
  <2>1. b \notin old /\ old \subseteq Files /\ active = IF Files = {} THEN None ELSE b
    BY <1>1 DEF ProcShape, OldShape
  <2>2. active # c /\ active \in Files \cup {None}
    BY <2>1, <1>2, ConstantsAssumption DEF DiskShape
  <2> QED BY <2>1, <2>2, <1>1, <1>2, <1>5, <1>10 DEF OldShape, ids
<1>14. ProcShape(c, Len(log))'
  <2>1. NextTxID' = c
    BY <1>5 DEF c
  <2>2. c \in Files' /\ mem' = data'[c]
    BY <1>1, <1>9, <1>10
  <2>3. (~logInvalid' => ~torn') /\ (logNeedsTruncate' => ~logFile')
    BY <1>1 DEF ProcShape, files
  <2>4. Len(log)' = Len(log)
    BY <1>1
  <2> QED BY <1>1, <1>13, <1>5, <2>1, <2>2, <2>3, <2>4 DEF ProcShape
<1>15. Len(log) \in 0 .. Len(log)'
  BY <1>1, <1>3
<1> QED BY <1>2, <1>5, <1>11, <1>12, <1>14, <1>15 DEF c

\* CheckpointClearLog: the log is emptied, or left to be emptied later.
LEMMA StepCheckpointClearLog ==
  ASSUME NEW b \in TxIDs, NEW s \in 0 .. Len(log), TypeOK, DiskShape(b, s), ProcShape(b, s),
         CheckpointClearLog
  PROVE  IInv'
<1>1. pc = "clear" /\ pc' = "cleanup" /\ ClearLog /\ txid' = NextTxID /\ active' = NextTxID
        /\ old' = (IF active = None THEN old ELSE old \cup {active})
        /\ UNCHANGED <<meta, data, mem, pos, cur, result>>
  BY DEF CheckpointClearLog
<1>2. s = Len(log) /\ b \in Files /\ mem = data[b] /\ NextTxID = b
        /\ (~logInvalid => ~torn) /\ (logNeedsTruncate => ~logFile)
  BY <1>1 DEF ProcShape
<1>3. Files' = Files
  BY <1>1 DEF Files
<1>4. Len(log) \in Nat
  BY RecordTypes
<1>5. PICK s1 \in {s, 0} :
         /\ s1 \in 0 .. Len(log)' /\ s1 = Len(log)' /\ DiskShape(b, s1)'
         /\ log' \in Seq(Record) /\ synced' \in 0 .. Len(log)'
  <2>1. CASE UNCHANGED <<log, torn, synced>>
    <3>1. s \in 0 .. Len(log)' /\ DiskShape(b, s)'
      BY <2>1, <1>1, SameDisk
    <3> QED BY <2>1, <3>1, <1>2 DEF TypeOK
  <2>2. CASE log' = <<>> /\ synced' = 0
    <3>1. DiskShape(b, 0)' /\ Len(log)' = 0 /\ log' \in Seq(Record)
      BY <2>2, <1>1, EmptyLog
    <3> QED BY <2>2, <3>1
  <2> QED BY <2>1, <2>2, <1>1 DEF ClearLog
<1>6. torn' \in BOOLEAN /\ logFile' \in BOOLEAN /\ logInvalid' \in BOOLEAN /\ logNeedsTruncate' \in BOOLEAN
  BY <1>1 DEF ClearLog, TypeOK
<1>7. logFileSize' \in Nat /\ logBuf' \in {"clean", "partial", "failed"}
  BY <1>1 DEF ClearLog, TypeOK
<1>8. (~logInvalid' => ~torn') /\ (logNeedsTruncate' => ~logFile')
  BY <1>1, <1>2 DEF ClearLog
<1>9. TypeOK'
  <2>1. txid' \in TxIDs /\ active' \in TxIDs \cup {None} /\ old' \in SUBSET TxIDs
    BY <1>1, <1>2 DEF TypeOK
  <2> QED BY <2>1, <1>1, <1>5, <1>6, <1>7 DEF TypeOK
<1>10. OldShape(b)'
  BY <1>1, <1>2, <1>3 DEF ProcShape, OldShape
<1>11. ProcShape(b, s1)'
  BY <1>1, <1>2, <1>3, <1>5, <1>8, <1>10 DEF ProcShape
<1> QED BY <1>5, <1>9, <1>11 DEF IInv

\* RemoveOldDataFiles: the newest file stays, and the call succeeds.
LEMMA StepRemoveOldDataFiles ==
  ASSUME NEW b \in TxIDs, NEW s \in 0 .. Len(log), TypeOK, DiskShape(b, s), ProcShape(b, s),
         RemoveOldDataFiles
  PROVE  /\ IInv' /\ s \in 0 .. Len(log)' /\ DiskShape(b, s)' /\ ProcShape(b, s)'
<1>1. pc = "cleanup" /\ pc' = "ready" /\ cur' = NoOp /\ result' = "ok"
        /\ UNCHANGED <<meta, log, torn, synced, mem, pos, txid, active, files>>
  BY DEF RemoveOldDataFiles, Return
<1>2. PICK keep \in SUBSET old :
         /\ old' = keep
         /\ data' = [t \in TxIDs |-> IF t \in old \ keep THEN NoFile ELSE data[t]]
  BY DEF RemoveOldDataFiles
<1>3. s = Len(log) /\ b \in Files /\ mem = data[b] /\ txid = b /\ b \notin old /\ old \subseteq Files
        /\ active = b
  BY <1>1 DEF ProcShape, OldShape
<1>4. data' \in [TxIDs -> Table \cup {NoFile, Corrupt}] /\ data'[b] = data[b]
        /\ \A f \in TxIDs : data'[f] = IF f \in old \ keep THEN NoFile ELSE data[f]
  BY <1>2, <1>3 DEF TypeOK
<1>5. Files' = Files \ (old \ keep)
  BY <1>4 DEF Files
<1>6. TypeOK'
  BY <1>1, <1>2, <1>4 DEF TypeOK, files
<1>7. Len(log) \in Nat /\ s \in 0 .. Len(log)'
  BY <1>1, RecordTypes
<1>8. DiskShape(b, s)'
  <2>1. \A f \in Files' : data'[f] # Corrupt /\ Sub(b, f) < Half
    <3> SUFFICES ASSUME NEW f \in Files' PROVE data'[f] # Corrupt /\ Sub(b, f) < Half
      OBVIOUS
    <3>1. f \in Files /\ f \in TxIDs /\ f \notin old \ keep
      BY <1>5 DEF Files
    <3> QED BY <3>1, <1>4 DEF DiskShape
  <2>2. b \in Files'
    BY <1>3, <1>5
  <2>3. \A i \in s + 1 .. Len(log) : FALSE
    BY <1>3, <1>7
  <2> QED BY <2>1, <2>2, <2>3, <1>1 DEF DiskShape
<1>9. OldShape(b)'
  BY <1>1, <1>2, <1>3, <1>5 DEF OldShape
<1>10. mem' = Committed(b, s, Len(log))'
  <2>1. data'[b] # NoFile
    BY <1>3, <1>4 DEF Files
  <2> QED BY <2>1, <1>1, <1>3, <1>4, <1>7 DEF Committed, TableOf
<1>11. txid' = Plus(b, Len(log)' - s)
  <2>1. Plus(b, 0) = b
    BY HalfAssumption DEF Plus, TxIDs, TxMod
  <2> QED BY <2>1, <1>1, <1>3, <1>7
<1>12. (~logInvalid' => ~torn') /\ (logNeedsTruncate' => s = Len(log)' /\ ~logFile')
  BY <1>1 DEF ProcShape, files
<1>13. ProcShape(b, s)'
  BY <1>1, <1>9, <1>10, <1>11, <1>12 DEF ProcShape
<1> QED BY <1>6, <1>7, <1>8, <1>13 DEF IInv

\* Close and Crash: only the end of the log may change.
LEMMA StepStop ==
  ASSUME NEW b \in TxIDs, NEW s \in 0 .. Len(log), TypeOK, DiskShape(b, s), ProcShape(b, s),
         Close \/ Crash
  PROVE  IInv'
<1>1. Stop /\ UNCHANGED data /\ result' \in {"none", "ok", "err"}
  BY DEF Close, Crash
<1>2. ProcShape(b, s)'
  BY <1>1 DEF Stop, ProcShape
<1>3. log' = log \/ (CanWrite /\ Append1)
  BY DEF Close, Crash, Tear
<1>4. Len(log) \in Nat /\ synced \in 0 .. Len(log)
  BY RecordTypes DEF TypeOK
<1>5. s \in 0 .. Len(log)' /\ DiskShape(b, s)' /\ log' \in Seq(Record) /\ synced' \in 0 .. Len(log)'
  <2>1. CASE log' = log
    <3>1. s \in 0 .. Len(log)' /\ DiskShape(b, s)'
      BY <2>1, <1>1, SameDisk
    <3>2. synced' \in {synced, Len(log)} \/ (CanWrite /\ Append1)
      BY DEF Close, Crash, Tear
    <3>3. synced' \in 0 .. Len(log)'
      BY <3>2, <2>1, <1>4 DEF Append1
    <3> QED BY <3>1, <3>3, <2>1 DEF TypeOK
  <2>2. CASE CanWrite /\ Append1
    <3>1. s \in 0 .. Len(log)' /\ DiskShape(b, s)' /\ log' \in Seq(Record) /\ Len(log)' = Len(log) + 1
      BY <2>2, <1>1, AppendedLog DEF Append1
    <3> QED BY <2>2, <3>1, <1>4 DEF Append1
  <2> QED BY <1>3, <2>1, <2>2
<1>6. torn' \in BOOLEAN
  BY DEF Close, Crash, Append1, Tear, TypeOK
<1>7. meta' \in {"nodir", "nometa", "partial", "valid"}
  BY DEF Close, Crash, TypeOK
<1>8. data' \in [TxIDs -> Table \cup {NoFile, Corrupt}]
  BY <1>1 DEF TypeOK
<1>9. TypeOK'
  BY <1>1, <1>5, <1>6, <1>7, <1>8, StoppedType DEF TypeOK
<1> QED BY <1>2, <1>5, <1>9 DEF IInv

\* A prefix of the log has the shape.
LEMMA PrefixLog ==
  ASSUME NEW b \in TxIDs, NEW s \in 0 .. Len(log), TypeOK, DiskShape(b, s),
         NEW p \in synced .. Len(log), log' = SubSeq(log, 1, p), UNCHANGED <<data, synced>>
  PROVE  /\ log' \in Seq(Record) /\ Len(log)' = p /\ synced' \in 0 .. Len(log)'
         /\ p \in 0 .. Len(log)
         /\ \A i \in 1 .. p : log'[i] = log[i]
         /\ \E s1 \in 0 .. Len(log)' : DiskShape(b, s1)'
<1>1. Len(log) \in Nat /\ s \in Nat /\ s <= Len(log) /\ p \in Nat /\ p <= Len(log) /\ synced \in Nat
        /\ synced <= p /\ log \in Seq(Record)
  BY RecordTypes DEF TypeOK
<1>2. log' \in Seq(Record) /\ Len(log') = p /\ \A i \in 1 .. p : log'[i] = log[i]
  BY <1>1
<1>3. Files' = Files
  BY DEF Files
<1>4. CASE s <= p
  <2>1. \A i \in 1 .. s : Sub(b, log'[i].id) < Half
    BY <1>1, <1>2, <1>4 DEF DiskShape
  <2>2. Len(log)' - s < Half
    <3>1. Len(log) - s < Half /\ Len(log)' = p
      BY <1>2 DEF DiskShape
    <3> QED BY <3>1, <1>1, HalfAssumption
  <2>3. \A q \in 0 .. p : Committed(b, s, q)' = Committed(b, s, q)
    BY <1>1, <1>2 DEF Committed, TableOf
  <2>4. \A i \in s + 1 .. Len(log)' : /\ log'[i].id = Plus(b, i - s)
                                     /\ log'[i].after = Apply(Committed(b, s, i - 1)', log'[i].op)
    <3> SUFFICES ASSUME NEW i \in s + 1 .. Len(log)'
                 PROVE  /\ log'[i].id = Plus(b, i - s)
                        /\ log'[i].after = Apply(Committed(b, s, i - 1)', log'[i].op)
      OBVIOUS
    <3>1. i \in 1 .. p /\ i \in s + 1 .. Len(log) /\ i - 1 \in 0 .. p
      BY <1>1, <1>2
    <3>2. log'[i] = log[i] /\ Committed(b, s, i - 1)' = Committed(b, s, i - 1)
      BY <3>1, <2>3, <1>2
    <3> QED BY <3>1, <3>2 DEF DiskShape
  <2>5. DiskShape(b, s)'
    BY <2>1, <2>2, <2>4, <1>3 DEF DiskShape
  <2> QED BY <2>5, <1>1, <1>2, <1>4
<1>5. CASE p < s
  <2>1. \A i \in 1 .. p : Sub(b, log'[i].id) < Half
    BY <1>1, <1>2, <1>5 DEF DiskShape
  <2>2. Len(log)' - p < Half /\ \A i \in p + 1 .. Len(log)' : FALSE
    BY <1>1, <1>2, HalfAssumption
  <2>3. DiskShape(b, p)'
    BY <2>1, <2>2, <1>3 DEF DiskShape
  <2> QED BY <2>3, <1>1, <1>2
<1> QED BY <1>1, <1>2, <1>4, <1>5

\* PowerLoss: the log is cut at a place that was not synced yet.
LEMMA StepPowerLoss ==
  ASSUME NEW b \in TxIDs, NEW s \in 0 .. Len(log), TypeOK, DiskShape(b, s), ProcShape(b, s),
         PowerLoss
  PROVE  IInv'
<1>1. Stop /\ UNCHANGED <<meta, data, synced>> /\ result' = "none"
  BY DEF PowerLoss
<1>2. PICK p \in synced .. Len(log) :
         log' = SubSeq(log, 1, p) /\ torn' \in IF p = Len(log) THEN {torn} ELSE BOOLEAN
  BY DEF PowerLoss
<1>3. log' \in Seq(Record) /\ synced' \in 0 .. Len(log)' /\ \E s1 \in 0 .. Len(log)' : DiskShape(b, s1)'
  BY <1>1, <1>2, PrefixLog
<1>4. PICK s1 \in 0 .. Len(log)' : DiskShape(b, s1)'
  BY <1>3
<1>5. torn' \in BOOLEAN
  BY <1>2 DEF TypeOK
<1>6. TypeOK'
  BY <1>1, <1>3, <1>5, StoppedType DEF TypeOK
<1>7. ProcShape(b, s1)'
  BY <1>1 DEF Stop, ProcShape
<1> QED BY <1>4, <1>6, <1>7 DEF IInv

\* Nothing happens.
LEMMA StepStutter == ASSUME IInv, UNCHANGED vars PROVE IInv'
<1>1. UNCHANGED <<meta, data, log, torn, synced, pc, mem, txid, pos, active, old, logFile,
                  logInvalid, logNeedsTruncate, logBuf, logFileSize, cur, result>>
  BY DEF vars
<1>2. TypeOK'
  BY <1>1 DEF IInv, TypeOK
<1>3. PICK b \in TxIDs, s \in 0 .. Len(log) : DiskShape(b, s) /\ ProcShape(b, s)
  BY DEF IInv
<1>4. s \in 0 .. Len(log)' /\ DiskShape(b, s)'
  BY <1>1, <1>3, SameDisk
<1>5. ProcShape(b, s)'
  BY <1>1, <1>3 DEF ProcShape, OldShape, SpanOf, Files, Committed, TableOf, NextTxID, Apply
<1> QED BY <1>2, <1>4, <1>5 DEF IInv

\* Every step of a store whose files are not damaged preserves the invariant.
LEMMA NextIInv == ASSUME NoDamage, IInv, [Next]_vars PROVE IInv'
<1>0. TypeOK
  BY DEF IInv
<1>1. PICK b \in TxIDs, s \in 0 .. Len(log) : DiskShape(b, s) /\ ProcShape(b, s)
  BY DEF IInv
<1>2. CASE Open
  <2>1. CASE CreateHome \/ WriteMetaFile \/ WriteMetaFails \/ OpenFails
    BY <2>1, <1>0, <1>1, StepCreate
  <2>2. CASE OpenStore
    BY <2>2, <1>0, <1>1, StepOpenStore
  <2>3. CASE LoadRecord
    BY <2>3, <1>0, <1>1, StepLoadRecord
  <2>4. CASE LoadEnd
    BY <2>4, <1>0, <1>1, StepLoadEnd
  <2>5. CASE LoadGap
    BY <2>5, <1>0, <1>1, StepLoadGap
  <2>6. CASE LogReadFails
    BY <2>6 DEF LogReadFails, NoDamage
  <2>7. CASE LoadAborts
    BY <2>7, <1>0, <1>1, StepLoadAborts
  <2> QED BY <1>2, <2>1, <2>2, <2>3, <2>4, <2>5, <2>6, <2>7 DEF Open
<1>3. CASE \E op \in Op : Update(op)
  BY <1>3, <1>0, <1>1, StepUpdate
<1>4. CASE Checkpoint
  BY <1>4, <1>0, <1>1, StepCheckpoint
<1>5. CASE Log
  <2>1. CASE LogRejected
    BY <2>1, <1>0, <1>1, StepLogRejected
  <2>2. CASE LogOpenFails \/ LogReopen
    BY <2>2, <1>0, <1>1, StepLogOpen
  <2>3. CASE LogAppend
    BY <2>3, <1>0, <1>1, StepLogAppend
  <2>4. CASE LogEncodeFails \/ LogWriteFails
    BY <2>4, <1>0, <1>1, StepLogFails
  <2> QED BY <1>5, <2>1, <2>2, <2>3, <2>4 DEF Log
<1>6. CASE WriteCheckpoint
  <2>1. CASE CheckpointFails
    BY <2>1, <1>0, <1>1, StepCheckpointFails
  <2>2. CASE CheckpointRename
    <3>1. /\ NextTxID \in TxIDs /\ TypeOK' /\ Len(log) \in 0 .. Len(log)'
          /\ DiskShape(NextTxID, Len(log))' /\ ProcShape(NextTxID, Len(log))'
      BY <2>2, <1>0, <1>1, StepCheckpointRename
    <3>2. NextTxID' = NextTxID /\ log' = log
      BY <2>2 DEF CheckpointRename, NextTxID, ids
    <3> QED BY <3>1, <3>2 DEF IInv
  <2>3. CASE CheckpointClearLog
    BY <2>3, <1>0, <1>1, StepCheckpointClearLog
  <2>4. CASE RemoveOldDataFiles
    BY <2>4, <1>0, <1>1, StepRemoveOldDataFiles
  <2> QED BY <1>6, <2>1, <2>2, <2>3, <2>4 DEF WriteCheckpoint
<1>7. CASE Close \/ Crash
  BY <1>7, <1>0, <1>1, StepStop
<1>8. CASE PowerLoss
  BY <1>8, <1>0, <1>1, StepPowerLoss
<1>9. CASE CorruptDataFile
  BY <1>9 DEF CorruptDataFile, NoDamage
<1>10. CASE UNCHANGED vars
  BY <1>10, StepStutter
<1> QED BY <1>2, <1>3, <1>4, <1>5, <1>6, <1>7, <1>8, <1>9, <1>10 DEF Next
-----------------------------------------------------------------------------
(***************************************************************************)
(* The theorems.                                                           *)
(***************************************************************************)

\* The invariant, types included, holds in every state of a store whose files
\* are not damaged, whatever else fails and whenever it crashes.
THEOREM InductiveInvariant == ASSUME NoDamage PROVE Spec => []IInv
<1>1. IInv /\ [Next]_vars => IInv'
  BY NextIInv
<1> QED BY <1>1, InitIInv, PTL DEF Spec

\* An update that a call of Set, Remove or Checkpoint acknowledged, and every
\* update before it, is what a restart would load.
THEOREM AckedDurable == ASSUME NoDamage PROVE Spec => []AckedIsDurable
<1>1. IInv => AckedIsDurable
  <2> SUFFICES ASSUME IInv, pc = "ready", result = "ok" \/ ~logInvalid PROVE DurableTable = mem
    BY DEF AckedIsDurable
  <2>1. TypeOK
    BY DEF IInv
  <2>2. PICK b \in TxIDs, s \in 0 .. Len(log) : DiskShape(b, s) /\ ProcShape(b, s)
    BY DEF IInv
  <2>3. Len(log) \in 0 .. Len(log)
    BY <2>1, RecordTypes
  <2>4. DurableTable = Committed(b, s, Len(log))
    BY <2>1, <2>2, <2>3, DiskReads DEF DurableTable
  <2> QED BY <2>2, <2>4 DEF ProcShape
<1> QED BY <1>1, InductiveInvariant, PTL

\* Replaying the log repeats the history of the updates.
THEOREM LogReplayed == ASSUME NoDamage PROVE Spec => []LogReplays
<1>1. IInv => LogReplays
  <2> SUFFICES ASSUME IInv PROVE LogReplays
    OBVIOUS
  <2>1. TypeOK
    BY DEF IInv
  <2>2. PICK b \in TxIDs, s \in 0 .. Len(log) : DiskShape(b, s) /\ ProcShape(b, s)
    BY DEF IInv
  <2> SUFFICES ASSUME NEW i \in 1 .. Len(log), ~IsTxIDLessEqual(log[i].id, Base)
               PROVE  /\ log[i].id = Inc(IF i = 1 \/ IsTxIDLessEqual(log[i - 1].id, Base)
                                         THEN Base ELSE log[i - 1].id)
                      /\ log[i].after = Apply(TableAt(i - 1), log[i].op)
    BY DEF LogReplays
  <2>3. /\ Base = b
        /\ \A p \in 0 .. Len(log) : TableAt(p) = Committed(b, s, p)
        /\ \A j \in 1 .. s : IsTxIDLessEqual(log[j].id, b)
        /\ \A j \in s + 1 .. Len(log) : ~IsTxIDLessEqual(log[j].id, b)
    BY <2>1, <2>2, DiskReads
  <2>4. Len(log) \in Nat /\ s \in Nat /\ i \in Nat /\ i >= 1 /\ i <= Len(log)
    BY <2>1, RecordTypes
  <2>5. i > s
    BY <2>3, <2>4
  <2>6. log[i].id = Plus(b, i - s) /\ log[i].after = Apply(Committed(b, s, i - 1), log[i].op)
    BY <2>2, <2>4, <2>5 DEF DiskShape
  <2>7. i - 1 \in 0 .. Len(log) /\ i - s - 1 \in 0 .. Half - 1 /\ (i - s - 1) + 1 = i - s
    BY <2>2, <2>4, <2>5, HalfAssumption DEF DiskShape
  <2>8. Inc(Plus(b, i - s - 1)) = Plus(b, i - s) /\ Plus(b, 0) = b
    <3>1. Plus(b, 0) = b
      BY HalfAssumption DEF Plus, TxIDs, TxMod
    <3> QED BY <3>1, <2>7, AheadIsNewer
  <2>9. (IF i = 1 \/ IsTxIDLessEqual(log[i - 1].id, Base) THEN Base ELSE log[i - 1].id)
           = Plus(b, i - s - 1)
    <3>1. CASE i = s + 1
      <4>1. i - s - 1 = 0
        BY <3>1, <2>4
      <4>2. i = 1 \/ i - 1 \in 1 .. s
        BY <3>1, <2>4
      <4> QED BY <4>1, <4>2, <2>3, <2>8
    <3>2. CASE i > s + 1
      <4>1. i # 1 /\ i - 1 \in s + 1 .. Len(log) /\ (i - 1) - s = i - s - 1
        BY <3>2, <2>4
      <4>2. log[i - 1].id = Plus(b, (i - 1) - s)
        BY <4>1, <2>2 DEF DiskShape
      <4> QED BY <4>1, <4>2, <2>3
    <3> QED BY <3>1, <3>2, <2>4, <2>5
  <2> QED BY <2>3, <2>6, <2>7, <2>8, <2>9
<1> QED BY <1>1, InductiveInvariant, PTL

\* The data files change in two steps only: a checkpoint writes a new one, and
\* the old ones are removed.
LEMMA DataChanges ==
  ASSUME NoDamage, IInv, [Next]_vars, ~CheckpointRename, ~RemoveOldDataFiles
  PROVE  data' = data
<1>0. TypeOK
  BY DEF IInv
<1>1. PICK b \in TxIDs, s \in 0 .. Len(log) : DiskShape(b, s) /\ ProcShape(b, s)
  BY DEF IInv
<1>2. CASE Open
  <2>1. CASE OpenStore
    <3>1. Files # {} => Newest = b /\ data[Newest] # Corrupt
      BY <1>0, <1>1, DiskReads DEF DiskShape
    <3> QED BY <2>1, <3>1 DEF OpenStore
  <2>2. CASE Open /\ ~OpenStore
    BY <2>2 DEF Open, CreateHome, WriteMetaFile, WriteMetaFails, OpenFails, LoadRecord, LoadEnd,
                LoadGap, LogReadFails, LoadAborts, NewDiskStore, disk
  <2> QED BY <1>2, <2>1, <2>2
<1>3. CASE \E op \in Op : Update(op)
  BY <1>3 DEF Update, disk
<1>4. CASE Checkpoint
  BY <1>4 DEF Checkpoint, disk
<1>5. CASE Log
  BY <1>5 DEF Log, LogRejected, LogOpenFails, LogReopen, LogAppend, LogEncodeFails, LogWriteFails, disk
<1>6. CASE WriteCheckpoint
  BY <1>6 DEF WriteCheckpoint, CheckpointFails, CheckpointClearLog, disk
<1>7. CASE Close \/ Crash \/ PowerLoss
  BY <1>7 DEF Close, Crash, PowerLoss
<1>8. CASE CorruptDataFile
  BY <1>8 DEF CorruptDataFile, NoDamage
<1>9. CASE UNCHANGED vars
  BY <1>9 DEF vars
<1> QED BY <1>2, <1>3, <1>4, <1>5, <1>6, <1>7, <1>8, <1>9 DEF Next

\* "No files are overwritten or replaced": a data file is never changed, and
\* one is deleted only when a newer one, by the order of the ids across their
\* rollover, is on disk.
THEOREM FilesNotReplaced == ASSUME NoDamage PROVE Spec => NoOverwrite
<1> DEFINE Kept == \A t \in Files : \/ data'[t] = data[t]
                                    \/ data'[t] = NoFile /\ \E f \in Files' : Sub(f, t) \in 1 .. Half - 1
<1>1. ASSUME IInv, [Next]_vars PROVE Kept
  <2>0. TypeOK
    BY <1>1 DEF IInv
  <2>1. PICK b \in TxIDs, s \in 0 .. Len(log) : DiskShape(b, s) /\ ProcShape(b, s)
    BY <1>1 DEF IInv
  <2>2. CASE CheckpointRename
    <3>1. NextTxID \notin Files /\ data' = [data EXCEPT ![NextTxID] = mem]
      BY <2>0, <2>1, <2>2, CheckpointAhead DEF CheckpointRename
    <3>2. \A t \in Files : data'[t] = data[t]
      BY <3>1, <2>0 DEF TypeOK, Files
    <3> QED BY <3>2
  <2>3. CASE RemoveOldDataFiles
    <3>1. PICK keep \in SUBSET old :
             data' = [t \in TxIDs |-> IF t \in old \ keep THEN NoFile ELSE data[t]]
      BY <2>3 DEF RemoveOldDataFiles
    <3>2. b \in Files /\ b \notin old
      BY <2>1, <2>3 DEF RemoveOldDataFiles, ProcShape, OldShape
    <3>3. b \in Files'
      BY <3>1, <3>2 DEF Files
    <3> SUFFICES ASSUME NEW t \in Files, data'[t] # data[t]
                 PROVE  data'[t] = NoFile /\ \E f \in Files' : Sub(f, t) \in 1 .. Half - 1
      OBVIOUS
    <3>4. t \in TxIDs /\ t \in old /\ data'[t] = NoFile
      BY <3>1 DEF Files
    <3>5. Sub(b, t) < Half /\ t # b
      BY <2>1, <3>2, <3>4 DEF DiskShape
    <3>6. Sub(b, t) \in Nat /\ Sub(b, t) # 0
      BY <3>4, <3>5, SubSelf, HalfAssumption DEF Sub, TxIDs, TxMod
    <3>7. Sub(b, t) \in 1 .. Half - 1
      BY <3>5, <3>6, HalfAssumption
    <3> QED BY <3>3, <3>4, <3>7
  <2>4. CASE ~CheckpointRename /\ ~RemoveOldDataFiles
    BY <1>1, <2>4, DataChanges
  <2> QED BY <2>2, <2>3, <2>4
<1>2. IInv /\ [Next]_vars => [Kept]_vars
  BY <1>1
<1> QED BY <1>2, InductiveInvariant, PTL DEF Spec, NoOverwrite

\* Nothing is ever written behind an incomplete record, whichever write fails
\* and wherever the process dies: it would be out of the reach of a restart.
THEOREM TornFinal == ASSUME NoDamage PROVE Spec => TornIsFinal
<1> DEFINE Shrinks == torn => Len(log') <= Len(log)
<1>1. ASSUME IInv, [Next]_vars, torn PROVE Len(log') <= Len(log)
  <2>0. TypeOK /\ Len(log) \in Nat /\ synced \in Nat
    BY <1>1, RecordTypes DEF IInv, TypeOK
  <2>1. ~CanWrite
    BY <1>1 DEF IInv, ProcShape, CanWrite, Logging
  <2>2. log' = log \/ log' = <<>> \/ \E p \in synced .. Len(log) : log' = SubSeq(log, 1, p)
    <3>1. CASE Open
      BY <3>1 DEF Open, CreateHome, WriteMetaFile, WriteMetaFails, OpenFails, OpenStore, LoadRecord,
                  LoadEnd, LoadGap, LogReadFails, LoadAborts, NewDiskStore, disk
    <3>2. CASE \E op \in Op : Update(op)
      BY <3>2 DEF Update, disk
    <3>3. CASE Checkpoint
      BY <3>3 DEF Checkpoint, disk
    <3>4. CASE Log
      BY <3>4, <2>1 DEF Log, LogRejected, LogOpenFails, LogReopen, LogAppend, LogEncodeFails,
                        LogWriteFails, TruncateOnOpen, disk
    <3>5. CASE WriteCheckpoint
      BY <3>5 DEF WriteCheckpoint, CheckpointFails, CheckpointRename, CheckpointClearLog,
                  RemoveOldDataFiles, ClearLog, disk
    <3>6. CASE Close
      BY <3>6 DEF Close
    <3>7. CASE Crash
      BY <3>7, <2>1 DEF Crash
    <3>8. CASE PowerLoss
      BY <3>8 DEF PowerLoss
    <3>9. CASE CorruptDataFile
      BY <3>9 DEF CorruptDataFile
    <3>10. CASE UNCHANGED vars
      BY <3>10 DEF vars
    <3> QED BY <1>1, <3>1, <3>2, <3>3, <3>4, <3>5, <3>6, <3>7, <3>8, <3>9, <3>10 DEF Next
  <2>3. ASSUME NEW p \in synced .. Len(log), log' = SubSeq(log, 1, p) PROVE Len(log') <= Len(log)
    <3>1. log \in Seq(Record) /\ p \in Nat /\ p <= Len(log)
      BY <2>0, <2>3 DEF TypeOK
    <3>2. Len(log') = p
      BY <3>1, <2>3
    <3> QED BY <3>1, <3>2, <2>0
  <2>4. CASE log' = <<>>
    <3>1. Len(log') = 0
      BY <2>4
    <3> QED BY <3>1, <2>0
  <2> QED BY <2>0, <2>2, <2>3, <2>4
<1>2. IInv /\ [Next]_vars => [Shrinks]_vars
  BY <1>1
<1> QED BY <1>2, InductiveInvariant, PTL DEF Spec, TornIsFinal

\* The recursion of Recovered: its equation, and the function it defines.
ReplayOf(x0, n, g) == [i \in 0 .. n |-> IF i = 0 THEN x0 ELSE Replayed(g[i - 1], log[i])]
Replay(x0, n) == CHOOSE g : g = ReplayOf(x0, n, g)

\* A definition by recursion is the solution of its equation, if there is one.
LEMMA ReplaySolved ==
  ASSUME NEW x0, NEW n \in Nat, NEW w, w = ReplayOf(x0, n, w)
  PROVE  Replay(x0, n)[n] = w[n]
<1> DEFINE F(g) == ReplayOf(x0, n, g)
           f == Replay(x0, n)
<1>1. w = F(w)
  OBVIOUS
<1>2. f = F(f)
  BY <1>1, Zenon DEF Replay
<1> HIDE DEF f
<1>3. \A i \in 0 .. n : f[i] = IF i = 0 THEN x0 ELSE Replayed(f[i - 1], log[i])
  BY <1>2 DEF ReplayOf
<1>4. \A i \in 0 .. n : w[i] = IF i = 0 THEN x0 ELSE Replayed(w[i - 1], log[i])
  BY <1>1 DEF ReplayOf
<1> DEFINE S == {i \in 0 .. n : f[i] = w[i]}
<1>5. 0 \in S
  BY <1>3, <1>4
<1>6. ASSUME NEW i \in 0 .. n - 1, i \in S PROVE i + 1 \in S
  <2>1. i + 1 \in 0 .. n /\ i + 1 # 0 /\ (i + 1) - 1 = i
    OBVIOUS
  <2>2. f[i + 1] = Replayed(f[i], log[i + 1]) /\ w[i + 1] = Replayed(w[i], log[i + 1])
    BY <2>1, <1>3, <1>4
  <2> QED BY <2>1, <2>2, <1>6
<1> HIDE DEF S
<1>7. 0 .. n \subseteq S
  BY <1>5, <1>6, IntervalInduction
<1>8. n \in S
  BY <1>7
<1> QED BY <1>8 DEF S, f

\* The states of a restart: the id and the table after n records.
LoadState(b, s, n) == [txid |-> Plus(b, IF n <= s THEN 0 ELSE n - s),
                       tbl |-> Committed(b, s, n), failed |-> FALSE]

\* A record leads from each of these states to the next one.
LEMMA LoadStep ==
  ASSUME TypeOK, NEW b \in TxIDs, NEW s \in 0 .. Len(log), DiskShape(b, s), NEW n \in 1 .. Len(log)
  PROVE  Replayed(LoadState(b, s, n - 1), log[n]) = LoadState(b, s, n)
<1>0. Len(log) \in Nat /\ s \in Nat /\ n \in Nat /\ n >= 1 /\ n - 1 \in Nat /\ s <= Len(log) /\ n <= Len(log)
  BY RecordTypes
<1>1. Plus(b, 0) = b
  BY HalfAssumption DEF Plus, TxIDs, TxMod
<1>2. CASE n <= s
  <2>1. IsTxIDLessEqual(log[n].id, b)
    <3>1. n \in 1 .. s
      BY <1>0, <1>2
    <3> QED BY <3>1, DiskReads
  <2>2. LoadState(b, s, n - 1) = [txid |-> b, tbl |-> TableOf(b), failed |-> FALSE]
    <3>1. n - 1 <= s
      BY <1>0, <1>2
    <3>2. Plus(b, IF n - 1 <= s THEN 0 ELSE n - 1 - s) = b /\ Committed(b, s, n - 1) = TableOf(b)
      BY <3>1, <1>1 DEF Committed
    <3> QED BY <3>2 DEF LoadState
  <2>3. LoadState(b, s, n) = LoadState(b, s, n - 1)
    BY <2>2, <1>0, <1>1, <1>2 DEF LoadState, Committed
  <2>4. Replayed([txid |-> b, tbl |-> TableOf(b), failed |-> FALSE], log[n])
          = [txid |-> b, tbl |-> TableOf(b), failed |-> FALSE]
    BY <2>1 DEF Replayed
  <2> QED BY <2>2, <2>3, <2>4
<1>3. CASE n > s
  <2> DEFINE t == Plus(b, n - 1 - s)
             c == Committed(b, s, n - 1)
  <2>1. n \in s + 1 .. Len(log) /\ n - s \in 0 .. Half - 1 /\ n - 1 - s \in 0 .. Half - 1
          /\ (n - 1 - s) + 1 = n - s
    BY <1>0, <1>3, HalfAssumption DEF DiskShape
  <2>2. log[n].id = Plus(b, n - s) /\ log[n].after = Apply(c, log[n].op)
    BY <2>1 DEF DiskShape
  <2>3. t \in TxIDs /\ Inc(t) = Plus(b, n - s)
    BY <2>1, AheadIsNewer
  <2>4. log[n].id = Inc(t) /\ ~IsTxIDLessEqual(log[n].id, t)
    BY <2>2, <2>3, IncIsNewer
  <2>5. LoadState(b, s, n - 1) = [txid |-> t, tbl |-> c, failed |-> FALSE]
    <3>1. Plus(b, IF n - 1 <= s THEN 0 ELSE n - 1 - s) = t
      <4>1. CASE n - 1 = s
        BY <4>1, <1>0
      <4>2. CASE n - 1 # s
        BY <4>2, <1>0, <1>3
      <4> QED BY <4>1, <4>2
    <3> QED BY <3>1 DEF LoadState
  <2>6. LoadState(b, s, n) = [txid |-> Inc(t), tbl |-> Apply(c, log[n].op), failed |-> FALSE]
    <3>1. ~(n <= s)
      BY <1>0, <1>3
    <3>2. Plus(b, IF n <= s THEN 0 ELSE n - s) = Inc(t) /\ Committed(b, s, n) = Apply(c, log[n].op)
      BY <3>1, <2>2, <2>3 DEF Committed
    <3> QED BY <3>2 DEF LoadState
  <2> HIDE DEF t, c
  <2>7. Replayed([txid |-> t, tbl |-> c, failed |-> FALSE], log[n])
          = [txid |-> Inc(t), tbl |-> Apply(c, log[n].op), failed |-> FALSE]
    BY <2>4 DEF Replayed
  <2> QED BY <2>5, <2>6, <2>7
<1> QED BY <1>0, <1>2, <1>3

\* Recovery, as one function of the files, gives the table that the history says
\* is durable: records that a data file covers are skipped, the others follow
\* each other without a gap, across the rollover of ids too.
THEOREM Recovery == ASSUME NoDamage PROVE Spec => []RecoveryAgrees
<1>1. IInv => RecoveryAgrees
  <2> SUFFICES ASSUME IInv PROVE Recovered = DurableTable
    BY DEF RecoveryAgrees
  <2>1. PICK b \in TxIDs, s \in 0 .. Len(log) : DiskShape(b, s)
    BY DEF IInv
  <2>2. TypeOK /\ Len(log) \in Nat /\ s \in Nat
    BY RecordTypes DEF IInv
  <2>3. Base = b /\ BaseTable = TableOf(b) /\ DurableTable = Committed(b, s, Len(log))
    BY <2>1, <2>2, DiskReads DEF DurableTable
  <2>4. BaseTable # Corrupt
    <3>1. Files # {} => b \in Files /\ data[b] # Corrupt /\ BaseTable = data[b]
      BY <2>1, <2>3 DEF DiskShape, TableOf, Files
    <3>2. Files = {} => BaseTable = EmptyTable
      BY DEF BaseTable
    <3>3. EmptyTable # Corrupt
      BY EmptyType, ConstantsAssumption
    <3> QED BY <3>1, <3>2, <3>3
  <2> DEFINE x0 == [txid |-> Base, tbl |-> IF BaseTable = Corrupt THEN EmptyTable ELSE BaseTable,
                    failed |-> FALSE]
             w == [n \in 0 .. Len(log) |-> LoadState(b, s, n)]
  <2>5. x0 = LoadState(b, s, 0)
    <3>1. Plus(b, 0) = b
      BY HalfAssumption DEF Plus, TxIDs, TxMod
    <3>2. 0 <= s
      BY <2>2
    <3>3. Plus(b, IF 0 <= s THEN 0 ELSE 0 - s) = Base /\ Committed(b, s, 0) = BaseTable
      BY <3>1, <3>2, <2>3 DEF Committed
    <3>4. x0 = [txid |-> Base, tbl |-> BaseTable, failed |-> FALSE]
      BY <2>4
    <3> QED BY <3>3, <3>4 DEF LoadState
  <2>6. Recovered = Replay(x0, Len(log))[Len(log)].tbl
    BY Zenon DEF Recovered, Replay, ReplayOf
  <2> HIDE DEF x0
  <2>7. w = ReplayOf(x0, Len(log), w)
    <3>1. ASSUME NEW n \in 0 .. Len(log)
          PROVE  LoadState(b, s, n) = IF n = 0 THEN x0 ELSE Replayed(w[n - 1], log[n])
      <4>1. CASE n = 0
        BY <4>1, <2>5
      <4>2. CASE n # 0
        <5>1. n \in 1 .. Len(log) /\ n - 1 \in 0 .. Len(log)
          BY <4>2, <2>2
        <5>2. w[n - 1] = LoadState(b, s, n - 1)
          BY <5>1
        <5> QED BY <4>2, <5>1, <5>2, <2>1, <2>2, LoadStep
      <4> QED BY <4>1, <4>2
    <3> QED BY <3>1 DEF ReplayOf
  <2>8. w[Len(log)] = LoadState(b, s, Len(log))
    BY <2>2
  <2> HIDE DEF w
  <2>9. Recovered = w[Len(log)].tbl
    <3>1. Replay(x0, Len(log))[Len(log)] = w[Len(log)]
      BY <2>2, <2>7, ReplaySolved
    <3> QED BY <3>1, <2>6
  <2> QED BY <2>3, <2>8, <2>9 DEF LoadState
<1> QED BY <1>1, InductiveInvariant, PTL

-----------------------------------------------------------------------------
(***************************************************************************)
(* Damage.  With data files that do not decode and a log that can not be   *)
(* read, the log no longer goes on from the newest file, and its ids may   *)
(* be ahead of the next one.  What remains is the order of the data files. *)
(***************************************************************************)

\* The ids of S are within half of the id space of each other.
Span(S) == \E first \in TxIDs : \A t \in S : Sub(t, first) < Half

\* x is at or ahead of the ids of S.
Ahead(x, S) == \A t \in S : Sub(x, t) < Half

\* The ids of the files and of the records.
InUse == KnownFiles \cup LogIDs

\* The last id is ahead of every data file, and the next one is within the span.
DamageShape ==
    /\ Span(InUse)
    /\ pc \in {"log", "fallback"} => cur \in Op
    /\ pc \in {"down", "creating"} => old = {} /\ active = None
    /\ pc \in {"loading", "ready"} =>
          Ahead(txid, KnownFiles) /\ (KnownFiles = {} \/ Span(InUse \cup {txid}))
    /\ pc \in {"log", "checkpoint", "fallback"} =>
          Ahead(txid, KnownFiles) /\ Span(InUse \cup {NextTxID})
    /\ pc = "clear" => /\ Ahead(NextTxID, KnownFiles) /\ NextTxID \in Files
                       /\ NextTxID \notin old /\ NextTxID # active
    /\ pc = "cleanup" => /\ Ahead(txid, KnownFiles) /\ txid \in Files
                         /\ active = txid /\ txid \notin old

\* The log is cleared whenever there is a checkpoint.
ClearsLog == "open" \notin Faults /\ "truncate" \notin Faults

\* From the rename of a checkpoint to the next update: the new file holds the table
\* in memory, and the log is empty.
RepairShape ==
    /\ pc = "loading" => result = "none"
    /\ pc \in {"ready", "log", "checkpoint", "fallback", "clear", "cleanup"} => logFile
    /\ pc = "clear" => data[NextTxID] = mem
    /\ pc = "cleanup" => data[txid] = mem /\ log = <<>>
    /\ pc = "ready" /\ logInvalid /\ result = "ok" => txid \in Files /\ data[txid] = mem /\ log = <<>>

\* The invariant that holds whatever is damaged.
DInv == TypeOK /\ DamageShape

-----------------------------------------------------------------------------
\* Fewer ids are within the span too.
LEMMA SpanSubset == ASSUME NEW S, NEW T, S \subseteq T, Span(T) PROVE Span(S)
  BY DEF Span

\* An id that x is at or ahead of is not the next one.
LEMMA NextIsNotBehind == \A x, t \in TxIDs : Sub(x, t) < Half => t # Inc(x)
  BY HalfAssumption DEF TxIDs, TxMod, Sub, Inc

\* The last id is between what it is ahead of and the next one.
LEMMA WindowDec ==
  \A first, x, t \in TxIDs :
     Sub(Inc(x), first) < Half /\ Sub(t, first) < Half /\ Sub(x, t) < Half => Sub(x, first) < Half
  BY HalfAssumption DEF TxIDs, TxMod, Sub, Inc

\* Comparison within a span.
LEMMA WindowOrder ==
  \A first, x, t \in TxIDs : Sub(x, first) < Half /\ Sub(t, first) < Half =>
     /\ Sub(t, first) <= Sub(x, first) => IsTxIDLessEqual(t, x)
     /\ IsTxIDLessEqual(t, x) => Sub(x, t) < Half
  BY HalfAssumption DEF TxIDs, TxMod, Sub, IsTxIDLessEqual, AsSigned

\* The next id, within a span, is ahead of what the last one was ahead of, and the
\* last one is within the span too.
LEMMA SpanNext ==
  ASSUME NEW S \in SUBSET TxIDs, NEW K \in SUBSET S, NEW x \in TxIDs, Ahead(x, K),
         Span(S \cup {Inc(x)})
  PROVE  Ahead(Inc(x), K) /\ (K = {} \/ Span(S \cup {Inc(x), x}))
<1>1. PICK first \in TxIDs : \A t \in S \cup {Inc(x)} : Sub(t, first) < Half
  BY DEF Span
<1>2. Ahead(Inc(x), K)
  BY <1>1, WindowInc DEF Ahead
<1>3. ASSUME K # {} PROVE Sub(x, first) < Half
  <2>1. PICK t \in K : t \in TxIDs /\ Sub(x, t) < Half
    BY <1>3 DEF Ahead
  <2>2. Sub(t, first) < Half /\ Sub(Inc(x), first) < Half
    BY <1>1, <2>1
  <2> QED BY <2>1, <2>2, WindowDec
<1> QED BY <1>1, <1>2, <1>3 DEF Span

\* listDataFiles: the files are in the order of their ids, and one is the newest.
LEMMA NewestAhead ==
  ASSUME Files # {}, Span(Files)
  PROVE  Newest \in Files /\ Newest \in TxIDs /\ Ahead(Newest, Files)
<1>1. PICK first \in TxIDs : \A t \in Files : Sub(t, first) < Half
  BY DEF Span
<1>2. Files \subseteq TxIDs
  BY DEF Files
<1> DEFINE D == {Half - Sub(t, first) : t \in Files}
<1>3. D \in SUBSET Nat /\ D # {}
  <2>1. \A t \in Files : Half - Sub(t, first) \in Nat
    BY <1>1, <1>2, SubSelf, HalfAssumption
  <2> QED BY <2>1
<1>4. PICK d \in D : \A e \in D : d <= e
  BY <1>3, LeastNatural
<1>5. PICK x \in Files : d = Half - Sub(x, first)
  BY <1>4
<1>6. \A t \in Files : IsTxIDLessEqual(t, x)
  <2> SUFFICES ASSUME NEW t \in Files PROVE IsTxIDLessEqual(t, x)
    OBVIOUS
  <2>1. Half - Sub(x, first) <= Half - Sub(t, first)
    BY <1>4, <1>5
  <2>2. Sub(t, first) \in Nat /\ Sub(x, first) \in Nat /\ Half \in Nat
    BY <1>2, SubSelf, HalfAssumption
  <2>3. Sub(t, first) <= Sub(x, first)
    BY <2>1, <2>2
  <2> QED BY <2>3, <1>1, <1>2, WindowOrder
<1>7. Newest \in Files /\ \A t \in Files : IsTxIDLessEqual(t, Newest)
  BY <1>5, <1>6 DEF Newest
<1> QED BY <1>1, <1>2, <1>7, WindowOrder DEF Ahead

\* The ids in use are ids.
LEMMA InUseTypes ==
  ASSUME TypeOK
  PROVE  /\ KnownFiles \in SUBSET TxIDs /\ InUse \in SUBSET TxIDs /\ KnownFiles \subseteq InUse
         /\ Files \in SUBSET TxIDs /\ Files \subseteq KnownFiles
         /\ NextTxID \in TxIDs /\ txid \in TxIDs
<1>1. LogIDs \in SUBSET TxIDs
  BY RecordTypes DEF LogIDs
<1>2. KnownFiles \in SUBSET TxIDs
  BY DEF KnownFiles, Files, TypeOK
<1> QED BY <1>1, <1>2, IncType DEF InUse, NextTxID, TypeOK, KnownFiles, Files

\* What happens to the log.
LEMMA LogSteps ==
  ASSUME TypeOK
  PROVE  /\ log' = log => LogIDs' = LogIDs
         /\ log' = <<>> => LogIDs' = {} /\ log' \in Seq(Record) /\ Len(log') = 0
         /\ Append1 /\ cur \in Op => /\ LogIDs' \subseteq LogIDs \cup {NextTxID}
                                     /\ log' \in Seq(Record) /\ Len(log') = Len(log) + 1
         /\ \A p \in 0 .. Len(log) : log' = SubSeq(log, 1, p) =>
               LogIDs' \subseteq LogIDs /\ log' \in Seq(Record) /\ Len(log') = p
<1>1. log \in Seq(Record) /\ Len(log) \in Nat
  BY RecordTypes DEF TypeOK
<1>2. log' = log => LogIDs' = LogIDs
  BY DEF LogIDs
<1>3. log' = <<>> => LogIDs' = {} /\ log' \in Seq(Record) /\ Len(log') = 0
  BY DEF LogIDs
<1>4. ASSUME Append1, cur \in Op
      PROVE  LogIDs' \subseteq LogIDs \cup {NextTxID} /\ log' \in Seq(Record) /\ Len(log') = Len(log) + 1
  <2>1. PICK r : r = [id |-> NextTxID, op |-> cur, after |-> mem]
    OBVIOUS
  <2>2. r \in Record /\ r.id = NextTxID
    BY <2>1, <1>4, IncType DEF Record, NextTxID, TypeOK
  <2>3. log' = Append(log, r)
    BY <2>1, <1>4 DEF Append1
  <2>4. log' \in Seq(Record) /\ Len(log') = Len(log) + 1
        /\ \A i \in 1 .. Len(log) + 1 : log'[i] = IF i <= Len(log) THEN log[i] ELSE r
    BY <1>1, <2>2, <2>3
  <2>5. ASSUME NEW i \in 1 .. Len(log) + 1 PROVE log'[i].id \in LogIDs \cup {NextTxID}
    <3>1. CASE i <= Len(log)
      <4>1. i \in 1 .. Len(log) /\ log'[i] = log[i]
        BY <3>1, <2>4, <1>1
      <4> QED BY <4>1 DEF LogIDs
    <3>2. CASE ~(i <= Len(log))
      BY <3>2, <2>2, <2>4
    <3> QED BY <3>1, <3>2
  <2> QED BY <2>4, <2>5 DEF LogIDs
<1>5. ASSUME NEW p \in 0 .. Len(log), log' = SubSeq(log, 1, p)
      PROVE  LogIDs' \subseteq LogIDs /\ log' \in Seq(Record) /\ Len(log') = p
  <2>1. log' \in Seq(Record) /\ Len(log') = p /\ \A i \in 1 .. p : log'[i] = log[i]
    BY <1>1, <1>5
  <2>2. \A i \in 1 .. p : i \in 1 .. Len(log)
    BY <1>1
  <2> QED BY <2>1, <2>2 DEF LogIDs
<1> QED BY <1>2, <1>3, <1>4, <1>5

\* Types are kept without any assumption on what is on disk.
LEMMA OpenType ==
  ASSUME TypeOK, Span(Files), Open
  PROVE  TypeOK'
<1>1. CASE CreateHome \/ WriteMetaFile \/ WriteMetaFails \/ OpenFails
  BY <1>1 DEF CreateHome, WriteMetaFile, WriteMetaFails, OpenFails, TypeOK, disk, files, ids
<1>2. CASE OpenStore
  <2>1. Base \in TxIDs /\ (Files # {} => Newest \in TxIDs /\ Newest \in Files)
    <3>1. 0 \in TxIDs
      BY HalfAssumption DEF TxIDs, TxMod
    <3> QED BY <3>1, NewestAhead DEF Base
  <2>2. mem' \in Table
    <3>1. CASE Files # {} /\ data[Newest] = Corrupt
      BY <3>1, <1>2, EmptyType DEF OpenStore
    <3>2. CASE Files = {}
      BY <3>2, <1>2, EmptyType DEF OpenStore, BaseTable
    <3>3. CASE Files # {} /\ data[Newest] # Corrupt
      BY <3>3, <1>2, <2>1 DEF OpenStore, BaseTable, TypeOK, Files
    <3> QED BY <3>1, <3>2, <3>3
  <2>3. data' \in [TxIDs -> Table \cup {NoFile, Corrupt}]
    BY <1>2 DEF OpenStore, TypeOK
  <2>4. txid' \in TxIDs /\ active' \in TxIDs \cup {None} /\ old' \in SUBSET TxIDs /\ pos' \in Nat
    BY <1>2, <2>1 DEF OpenStore, Files
  <2>5. /\ pc' = "loading" /\ result' = "none" /\ UNCHANGED <<meta, log, torn, synced, cur>>
        /\ UNCHANGED <<logFile, logInvalid, logNeedsTruncate, logBuf, logFileSize>>
    BY <1>2 DEF OpenStore, files
  <2> QED BY <2>2, <2>3, <2>4, <2>5 DEF TypeOK
<1>3. CASE LoadRecord
  <2>1. pos \in Nat /\ pos + 1 \in 1 .. Len(log)
    BY <1>3, RecordTypes DEF LoadRecord, TypeOK
  <2>2. log[pos + 1].id \in TxIDs /\ log[pos + 1].op \in Op
    BY <2>1, RecordTypes
  <2>3. mem' \in Table /\ txid' \in TxIDs
    BY <1>3, <2>2, ApplyType DEF LoadRecord, TypeOK
  <2> QED BY <1>3, <2>1, <2>3 DEF LoadRecord, TypeOK, disk, files
<1>4. ASSUME NEW err \in BOOLEAN, NewDiskStore(err) PROVE TypeOK'
  <2>1. Len(log) \in Nat
    BY RecordTypes
  <2>2. logInvalid' \in BOOLEAN
    BY <1>4 DEF NewDiskStore
  <2>3. logFile' \in BOOLEAN
    BY <1>4 DEF NewDiskStore
  <2>4. logFileSize' \in Nat
    BY <1>4, <2>1 DEF NewDiskStore
  <2>5. UNCHANGED <<disk, mem, ids, logNeedsTruncate, logBuf, cur, result>> /\ pos' = 0 /\ pc' = "ready"
    BY <1>4 DEF NewDiskStore
  <2> QED BY <2>2, <2>3, <2>4, <2>5 DEF TypeOK, disk, ids
<1>5. CASE LoadEnd \/ LoadGap \/ LogReadFails
  <2>1. torn \in BOOLEAN
    BY DEF TypeOK
  <2> QED BY <1>4, <1>5, <2>1 DEF LoadEnd, LoadGap, LogReadFails
<1>6. CASE LoadAborts
  BY <1>6, StoppedType DEF LoadAborts, TypeOK, disk
<1> QED BY <1>1, <1>2, <1>3, <1>5, <1>6 DEF Open

\* A step of LogOperation keeps the types.
LEMMA LogType ==
  ASSUME TypeOK, pc \in {"log", "fallback"} => cur \in Op, Log
  PROVE  TypeOK'
<1>1. Logging /\ cur \in Op
  BY DEF Log, LogRejected, LogOpenFails, LogReopen, LogAppend, LogEncodeFails, LogWriteFails, CanWrite, Logging
<1>2. Len(log) \in Nat /\ synced \in 0 .. Len(log) /\ log \in Seq(Record)
  BY RecordTypes DEF TypeOK
<1>3. UNCHANGED <<log, torn, synced>> \/ TruncateOnOpen \/ Append1 \/ Tear
  BY DEF Log, LogRejected, LogOpenFails, LogReopen, LogAppend, LogEncodeFails, LogWriteFails, disk
<1>4. log' \in Seq(Record) /\ synced' \in 0 .. Len(log') /\ torn' \in BOOLEAN
  <2>1. CASE Append1
    BY <2>1, <1>1, <1>2, LogSteps DEF Append1, TypeOK
  <2>2. CASE UNCHANGED <<log, torn, synced>> \/ Tear
    BY <2>2, <1>2 DEF Tear, TypeOK
  <2>3. CASE log' = <<>> /\ torn' = FALSE /\ synced' = 0
    <3>1. torn' \in BOOLEAN
      BY <2>3
    <3>2. log' \in Seq(Record) /\ Len(log') = 0 /\ synced' = 0
      BY <2>3, LogSteps
    <3> QED BY <3>1, <3>2
  <2> QED BY <1>3, <2>1, <2>2, <2>3 DEF TruncateOnOpen
<1>5. Len(log') \in Nat
  BY <1>4
<1>6. /\ UNCHANGED <<meta, data, mem, pos, active, old>>
      /\ txid' \in {txid, NextTxID}
  BY DEF Log, LogRejected, LogOpenFails, LogReopen, LogAppend, LogEncodeFails, LogWriteFails, disk, ids, files
<1>7. (pc' = pc /\ cur' = cur /\ result' = result)
        \/ (pc' = "ready" /\ cur' = NoOp /\ result' \in {"ok", "err"})
  BY DEF Log, LogRejected, LogOpenFails, LogReopen, LogAppend, LogEncodeFails, LogWriteFails, Return
<1>8. /\ logFile' \in {logFile, TRUE} /\ logInvalid' \in {logInvalid, TRUE}
      /\ logNeedsTruncate' \in {logNeedsTruncate, FALSE}
      /\ logBuf' \in {logBuf, "partial", "failed"} /\ logFileSize' \in {logFileSize, logFileSize + 1, Len(log')}
  BY DEF Log, LogRejected, LogOpenFails, LogReopen, LogAppend, LogEncodeFails, LogWriteFails, files
<1>10. logFile' \in BOOLEAN /\ logInvalid' \in BOOLEAN /\ logNeedsTruncate' \in BOOLEAN
  BY <1>8 DEF TypeOK
<1>11. logBuf' \in {"clean", "partial", "failed"} /\ logFileSize' \in Nat
  BY <1>5, <1>8 DEF TypeOK
<1>9. NextTxID \in TxIDs
  BY InUseTypes
<1> QED BY <1>4, <1>6, <1>7, <1>9, <1>10, <1>11 DEF TypeOK

\* A step of WriteCheckpoint keeps the types.
LEMMA CheckpointType ==
  ASSUME TypeOK, WriteCheckpoint
  PROVE  TypeOK'
<1>1. NextTxID \in TxIDs
  BY InUseTypes
<1>2. CASE CheckpointFails
  BY <1>2 DEF CheckpointFails, Return, TypeOK, disk, files, ids
<1>3. CASE CheckpointRename
  BY <1>1, <1>3 DEF CheckpointRename, TypeOK, files, ids
<1>4. CASE CheckpointClearLog
  <2>1. log' \in Seq(Record) /\ synced' \in 0 .. Len(log') /\ torn' \in BOOLEAN
    <3>1. CASE UNCHANGED <<log, torn, synced>>
      BY <3>1 DEF TypeOK
    <3>2. CASE log' = <<>> /\ torn' = FALSE /\ synced' = 0
      <4>1. torn' \in BOOLEAN
        BY <3>2
      <4>2. log' \in Seq(Record) /\ Len(log') = 0 /\ synced' = 0
        BY <3>2, LogSteps
      <4> QED BY <4>1, <4>2
    <3> QED BY <1>4, <3>1, <3>2 DEF CheckpointClearLog, ClearLog
  <2>2. ClearLog
    BY <1>4 DEF CheckpointClearLog
  <2>4. logFile' \in BOOLEAN /\ logInvalid' \in BOOLEAN /\ logNeedsTruncate' \in BOOLEAN
    BY <2>2 DEF ClearLog, TypeOK
  <2>5. logBuf' \in {"clean", "partial", "failed"} /\ logFileSize' \in Nat
    BY <2>2 DEF ClearLog, TypeOK
  <2>3. txid' \in TxIDs /\ active' \in TxIDs \cup {None} /\ old' \in SUBSET TxIDs
    BY <1>1, <1>4 DEF CheckpointClearLog, TypeOK
  <2> QED BY <1>4, <2>1, <2>3, <2>4, <2>5 DEF CheckpointClearLog, TypeOK
<1>5. CASE RemoveOldDataFiles
  <2>1. PICK keep \in SUBSET old :
           old' = keep /\ data' = [t \in TxIDs |-> IF t \in old \ keep THEN NoFile ELSE data[t]]
    BY <1>5 DEF RemoveOldDataFiles
  <2> QED BY <1>5, <2>1 DEF RemoveOldDataFiles, Return, TypeOK, files
<1> QED BY <1>2, <1>3, <1>4, <1>5 DEF WriteCheckpoint

\* So does the end of a process.
LEMMA StopType ==
  ASSUME TypeOK, pc \in {"log", "fallback"} => cur \in Op, Close \/ Crash \/ PowerLoss
  PROVE  TypeOK'
<1>1. Len(log) \in Nat /\ synced \in 0 .. Len(log) /\ log \in Seq(Record)
  BY RecordTypes DEF TypeOK
<1>2. /\ Stop /\ result' \in {"none", "ok", "err"} /\ UNCHANGED data
      /\ meta' \in {"nodir", "nometa", "partial", "valid"}
  BY DEF Close, Crash, PowerLoss, TypeOK
<1>3. log' \in Seq(Record) /\ synced' \in 0 .. Len(log') /\ torn' \in BOOLEAN
  <2>1. CASE Close
    <3>1. log' = log /\ synced' \in {synced, Len(log)} /\ torn' \in {torn, TRUE}
      BY <2>1 DEF Close
    <3>2. torn' \in BOOLEAN
      BY <3>1 DEF TypeOK
    <3>3. log' \in Seq(Record) /\ synced' \in 0 .. Len(log')
      BY <1>1, <3>1
    <3> QED BY <3>2, <3>3
  <2>2. CASE Crash
    <3>1. CASE CanWrite /\ Append1
      BY <1>1, <3>1, LogSteps DEF Append1, CanWrite, Logging, TypeOK
    <3>2. CASE UNCHANGED <<log, torn, synced>> \/ Tear
      BY <1>1, <3>2 DEF Tear, TypeOK
    <3> QED BY <2>2, <3>1, <3>2 DEF Crash
  <2>3. CASE PowerLoss
    <3>1. PICK p \in synced .. Len(log) :
             log' = SubSeq(log, 1, p) /\ torn' \in IF p = Len(log) THEN {torn} ELSE BOOLEAN
      BY <2>3 DEF PowerLoss
    <3>2. p \in 0 .. Len(log) /\ synced' = synced /\ torn' \in BOOLEAN
      BY <1>1, <2>3, <3>1 DEF PowerLoss, TypeOK
    <3>3. log' \in Seq(Record) /\ Len(log') = p
      BY <3>1, <3>2, LogSteps
    <3> QED BY <1>1, <3>1, <3>2, <3>3
  <2> QED BY <2>1, <2>2, <2>3
<1> QED BY <1>2, <1>3, StoppedType DEF TypeOK

\* The remaining steps keep the types.
LEMMA UpdateType ==
  ASSUME TypeOK, (\E op \in Op : Update(op)) \/ Checkpoint \/ CorruptDataFile \/ UNCHANGED vars
  PROVE  TypeOK'
<1>1. ASSUME NEW op \in Op, Update(op) PROVE TypeOK'
  <2>1. mem' \in Table
    BY <1>1, ApplyType DEF Update, TypeOK
  <2> QED BY <1>1, <2>1 DEF Update, TypeOK, disk, files, ids
<1>2. CASE Checkpoint
  BY <1>2 DEF Checkpoint, TypeOK, disk, files, ids
<1>3. CASE CorruptDataFile
  <2>1. data' \in [TxIDs -> Table \cup {NoFile, Corrupt}]
    BY <1>3 DEF CorruptDataFile, TypeOK, Files
  <2> QED BY <1>3, <2>1 DEF CorruptDataFile, TypeOK, files, ids
<1>4. CASE UNCHANGED vars
  BY <1>4 DEF TypeOK, vars
<1> QED BY <1>1, <1>2, <1>3, <1>4

\* The files that are known after a step.
LEMMA KnownSteps ==
  ASSUME UNCHANGED data
  PROVE  /\ Files' = Files
         /\ UNCHANGED <<old, active>> => KnownFiles' = KnownFiles
         /\ old' = {} /\ active' = None => KnownFiles' = Files
<1>1. Files' = Files
  BY DEF Files
<1> QED BY <1>1 DEF KnownFiles

\* The process is down, and no id is in use that was not before.
LEMMA DownShape ==
  ASSUME pc' \in {"down", "creating"}, old' = {}, active' = None, Span(InUse')
  PROVE  DamageShape'
  BY DEF DamageShape

\* openStore takes the newest id, and loadLogFile moves it only forward.
LEMMA OpenDamage ==
  ASSUME TypeOK, DamageShape, Open
  PROVE  DamageShape'
<1>1. /\ KnownFiles \in SUBSET TxIDs /\ InUse \in SUBSET TxIDs /\ KnownFiles \subseteq InUse
      /\ Files \in SUBSET TxIDs /\ Files \subseteq KnownFiles /\ txid \in TxIDs
  BY InUseTypes
<1>2. Span(InUse) /\ Span(Files)
  BY <1>1, SpanSubset DEF DamageShape
<1>3. CASE CreateHome \/ WriteMetaFile \/ WriteMetaFails \/ OpenFails
  <2>1. /\ pc' \in {"down", "creating"} /\ pc \in {"down", "creating"} /\ UNCHANGED <<data, log, old, active>>
    BY <1>3 DEF CreateHome, WriteMetaFile, WriteMetaFails, OpenFails, disk, ids
  <2>2. InUse' = InUse
    BY <2>1, KnownSteps, LogSteps DEF InUse
  <2> QED BY <1>2, <2>1, <2>2, DownShape DEF DamageShape
<1>4. CASE OpenStore
  <2>1. /\ pc' = "loading" /\ log' = log /\ txid' = Base /\ old' = Files \ {Base}
        /\ active' = (IF Files = {} THEN None ELSE Newest)
        /\ UNCHANGED data \/ data' = [data EXCEPT ![Newest] = NoFile]
    BY <1>4 DEF OpenStore
  <2>2. Files' \subseteq Files
    BY <2>1 DEF Files, TypeOK
  <2>3. LogIDs' = LogIDs /\ LogIDs \subseteq InUse
    BY <2>1, LogSteps DEF InUse
  <2>4. CASE Files = {}
    <3>1. KnownFiles' = {}
      BY <2>1, <2>2, <2>4 DEF KnownFiles
    <3>2. Span(InUse')
      BY <1>2, <2>3, <3>1, SpanSubset DEF InUse
    <3> QED BY <2>1, <3>1, <3>2 DEF DamageShape, Ahead
  <2>5. CASE Files # {}
    <3>1. Newest \in Files /\ Ahead(Newest, Files) /\ Base = Newest
      BY <1>2, <2>5, NewestAhead DEF Base
    <3>2. KnownFiles' \subseteq Files
      BY <2>1, <2>2, <2>5, <3>1 DEF KnownFiles
    <3>3. InUse' \subseteq InUse /\ InUse' \cup {txid'} \subseteq InUse
      BY <1>1, <2>1, <2>3, <3>1, <3>2 DEF InUse
    <3>4. Span(InUse') /\ Span(InUse' \cup {txid'})
      BY <1>2, <3>3, SpanSubset
    <3>5. Ahead(txid', KnownFiles')
      BY <2>1, <3>1, <3>2 DEF Ahead
    <3> QED BY <2>1, <3>4, <3>5 DEF DamageShape
  <2> QED BY <2>4, <2>5
<1>5. CASE LoadRecord
  <2>1. pos \in Nat /\ pos + 1 \in 1 .. Len(log)
    BY <1>5, RecordTypes DEF LoadRecord, TypeOK
  <2>2. /\ pc = "loading" /\ pc' = "loading" /\ UNCHANGED <<data, log, old, active>>
        /\ txid' = txid \/ (txid' = Inc(txid) /\ txid' = log[pos + 1].id)
    BY <1>5 DEF LoadRecord, disk
  <2>3. InUse' = InUse /\ KnownFiles' = KnownFiles
    BY <2>2, KnownSteps, LogSteps DEF InUse
  <2>4. Ahead(txid', KnownFiles) /\ (KnownFiles = {} \/ Span(InUse \cup {txid'}))
    <3>1. CASE txid' = txid
      BY <2>2, <3>1 DEF DamageShape
    <3>2. CASE txid' = Inc(txid) /\ txid' = log[pos + 1].id
      <4>1. Inc(txid) \in LogIDs
        BY <2>1, <3>2 DEF LogIDs
      <4>2. InUse \cup {Inc(txid)} = InUse
        BY <4>1 DEF InUse
      <4>3. Ahead(txid, KnownFiles)
        BY <2>2 DEF DamageShape
      <4> QED BY <1>1, <1>2, <3>2, <4>2, <4>3, SpanNext
    <3> QED BY <2>2, <3>1, <3>2
  <2> QED BY <1>2, <2>2, <2>3, <2>4 DEF DamageShape
<1>6. CASE LoadEnd \/ LoadGap \/ LogReadFails
  <2>1. /\ pc = "loading" /\ pc' = "ready" /\ UNCHANGED <<data, log, old, active, txid>>
    BY <1>6 DEF LoadEnd, LoadGap, LogReadFails, NewDiskStore, disk, ids
  <2>2. InUse' = InUse /\ KnownFiles' = KnownFiles
    BY <2>1, KnownSteps, LogSteps DEF InUse
  <2> QED BY <2>1, <2>2 DEF DamageShape
<1>7. CASE LoadAborts
  <2>1. /\ pc' = "down" /\ old' = {} /\ active' = None /\ UNCHANGED <<data, log>>
    BY <1>7 DEF LoadAborts, Stop, disk
  <2>2. InUse' \subseteq InUse
    BY <1>1, <2>1, KnownSteps, LogSteps DEF InUse
  <2> QED BY <1>2, <2>1, <2>2, SpanSubset, DownShape
<1> QED BY <1>3, <1>4, <1>5, <1>6, <1>7 DEF Open

\* An update begins within the span; damage keeps the file.
LEMMA UpdateDamage ==
  ASSUME TypeOK, DamageShape,
         (\E op \in Op : Update(op)) \/ Checkpoint \/ CorruptDataFile \/ UNCHANGED vars
  PROVE  DamageShape'
<1>1. CASE (\E op \in Op : Update(op)) \/ Checkpoint
  <2>1. /\ pc = "ready" /\ InSpan /\ UNCHANGED <<data, log, old, active, txid>>
        /\ pc' = "checkpoint" \/ (pc' = "log" /\ cur' \in Op)
    BY <1>1 DEF Update, Checkpoint, disk, ids
  <2>2. InUse' = InUse /\ KnownFiles' = KnownFiles /\ NextTxID' = NextTxID
    BY <2>1, KnownSteps, LogSteps DEF InUse, NextTxID
  <2>3. Span(InUse \cup {NextTxID}) /\ Span(InUse)
    <3>1. Span(IDsInUse)
      BY <2>1 DEF InSpan, Span
    <3> QED BY <3>1, SpanSubset DEF IDsInUse, InUse
  <2> QED BY <2>1, <2>2, <2>3 DEF DamageShape
<1>2. CASE CorruptDataFile
  <2>1. PICK f \in Files : data' = [data EXCEPT ![f] = Corrupt]
    BY <1>2 DEF CorruptDataFile
  <2>2. Files' = Files
    BY <2>1, ConstantsAssumption DEF Files, TypeOK
  <2>3. pc = "down" /\ UNCHANGED <<pc, log, old, active>>
    BY <1>2 DEF CorruptDataFile, ids
  <2>4. InUse' = InUse
    BY <2>2, <2>3, LogSteps DEF InUse, KnownFiles
  <2> QED BY <2>3, <2>4, DownShape DEF DamageShape
<1>3. CASE UNCHANGED vars
  <2>1. UNCHANGED <<pc, data, log, old, active, txid, cur>>
    BY <1>3 DEF vars
  <2>2. InUse' = InUse /\ KnownFiles' = KnownFiles /\ Files' = Files /\ NextTxID' = NextTxID
    BY <2>1, KnownSteps, LogSteps DEF InUse, NextTxID
  <2> QED BY <2>1, <2>2 DEF DamageShape
<1> QED BY <1>1, <1>2, <1>3

\* LogOperation uses the next id at most.
LEMMA LogDamage ==
  ASSUME TypeOK, DamageShape, Log
  PROVE  DamageShape'
<1>1. /\ KnownFiles \in SUBSET TxIDs /\ InUse \in SUBSET TxIDs /\ KnownFiles \subseteq InUse
      /\ txid \in TxIDs
  BY InUseTypes
<1>2. pc \in {"log", "fallback"}
  BY DEF Log, LogRejected, LogOpenFails, LogReopen, LogAppend, LogEncodeFails, LogWriteFails, CanWrite, Logging
<1>3. cur \in Op /\ Ahead(txid, KnownFiles) /\ Span(InUse \cup {NextTxID})
  BY <1>2 DEF DamageShape
<1>4. /\ UNCHANGED <<data, active, old>>
      /\ \/ pc' = pc /\ cur' = cur /\ txid' = txid
         \/ pc' = "ready" /\ txid' \in {txid, NextTxID}
  BY DEF Log, LogRejected, LogOpenFails, LogReopen, LogAppend, LogEncodeFails, LogWriteFails, Return, disk, ids
<1>5. log' = log \/ log' = <<>> \/ Append1
  BY DEF Log, LogRejected, LogOpenFails, LogReopen, LogAppend, LogEncodeFails, LogWriteFails, TruncateOnOpen, Tear, disk
<1>6. KnownFiles' = KnownFiles
  BY <1>4, KnownSteps
<1>7. LogIDs' \subseteq LogIDs \cup {NextTxID}
  BY <1>3, <1>5, LogSteps
<1>8. InUse' \subseteq InUse \cup {NextTxID}
  BY <1>6, <1>7 DEF InUse
<1>9. Span(InUse')
  BY <1>3, <1>8, SpanSubset
<1>10. CASE pc' = pc /\ cur' = cur /\ txid' = txid
  <2>1. NextTxID' = NextTxID
    BY <1>10 DEF NextTxID
  <2>2. Span(InUse' \cup {NextTxID'})
    BY <1>3, <1>8, <2>1, SpanSubset
  <2> QED BY <1>2, <1>3, <1>6, <1>9, <1>10, <2>2 DEF DamageShape
<1>11. CASE pc' = "ready" /\ txid' \in {txid, NextTxID}
  <2>1. /\ Ahead(NextTxID, KnownFiles)
        /\ KnownFiles = {} \/ Span(InUse \cup {NextTxID, txid})
    BY <1>1, <1>3, SpanNext DEF NextTxID
  <2>2. KnownFiles = {} \/ Span(InUse' \cup {txid'})
    BY <1>8, <1>11, <2>1, SpanSubset
  <2>3. Ahead(txid', KnownFiles)
    BY <1>3, <1>11, <2>1
  <2> QED BY <1>6, <1>9, <1>11, <2>2, <2>3 DEF DamageShape
<1> QED BY <1>4, <1>10, <1>11

\* WriteCheckpoint: the new file is ahead of all others, which are then deleted.
LEMMA CheckpointDamage ==
  ASSUME TypeOK, DamageShape, WriteCheckpoint
  PROVE  DamageShape'
<1>1. /\ KnownFiles \in SUBSET TxIDs /\ InUse \in SUBSET TxIDs /\ KnownFiles \subseteq InUse
      /\ Files \in SUBSET TxIDs /\ Files \subseteq KnownFiles /\ txid \in TxIDs /\ NextTxID \in TxIDs
  BY InUseTypes
<1>2. Span(InUse)
  BY DEF DamageShape
<1>3. CASE pc = "checkpoint"
  <2>1. Ahead(txid, KnownFiles) /\ Span(InUse \cup {NextTxID})
    BY <1>3 DEF DamageShape
  <2>2. /\ Ahead(NextTxID, KnownFiles)
        /\ KnownFiles = {} \/ Span(InUse \cup {NextTxID, txid})
    BY <1>1, <2>1, SpanNext DEF NextTxID
  <2>3. CASE CheckpointFails
    <3>1. /\ UNCHANGED <<data, log, old, active, txid>>
          /\ pc' = "ready" \/ (pc' = "fallback" /\ cur' = cur /\ cur # NoOp)
      BY <2>3 DEF CheckpointFails, Return, disk, ids
    <3>2. InUse' = InUse /\ KnownFiles' = KnownFiles /\ NextTxID' = NextTxID
      BY <3>1, KnownSteps, LogSteps DEF InUse, NextTxID
    <3>3. KnownFiles = {} \/ Span(InUse \cup {txid})
      BY <2>2, SpanSubset
    <3> QED BY <1>2, <2>1, <3>1, <3>2, <3>3 DEF DamageShape, TypeOK
  <2>4. CASE CheckpointRename
    <3>1. /\ UNCHANGED <<log, old, active, txid>> /\ pc' = "clear"
          /\ data' = [data EXCEPT ![NextTxID] = mem]
      BY <2>4 DEF CheckpointRename, ids
    <3>2. mem # NoFile
      BY ConstantsAssumption DEF TypeOK
    <3>3. Files' = Files \cup {NextTxID}
      BY <1>1, <3>1, <3>2 DEF Files, TypeOK
    <3>4. KnownFiles' = KnownFiles \cup {NextTxID} /\ LogIDs' = LogIDs /\ NextTxID' = NextTxID
      BY <3>1, <3>3, LogSteps DEF KnownFiles, NextTxID
    <3>5. InUse' = InUse \cup {NextTxID}
      BY <3>4 DEF InUse
    <3>6. NextTxID \notin KnownFiles
      BY <1>1, <2>1, NextIsNotBehind DEF Ahead, NextTxID
    <3>7. Sub(NextTxID, NextTxID) < Half
      BY <1>1, SubSelf, HalfAssumption
    <3>8. Ahead(NextTxID, KnownFiles \cup {NextTxID})
      BY <2>2, <3>7 DEF Ahead
    <3>9. NextTxID \notin old /\ NextTxID # active
      BY <3>6, <1>1, ConstantsAssumption DEF KnownFiles
    <3> QED BY <2>1, <3>1, <3>3, <3>4, <3>5, <3>8, <3>9 DEF DamageShape
  <2> QED BY <1>3, <2>3, <2>4 DEF WriteCheckpoint, CheckpointClearLog, RemoveOldDataFiles
<1>4. CASE CheckpointClearLog
  <2>1. /\ pc' = "cleanup" /\ UNCHANGED data /\ txid' = NextTxID /\ active' = NextTxID
        /\ old' = (IF active = None THEN old ELSE old \cup {active})
        /\ log' = log \/ log' = <<>>
    BY <1>4 DEF CheckpointClearLog, ClearLog
  <2>2. /\ Ahead(NextTxID, KnownFiles) /\ NextTxID \in Files
        /\ NextTxID \notin old /\ NextTxID # active
    BY <1>4 DEF CheckpointClearLog, DamageShape
  <2>3. Files' = Files
    BY <2>1, KnownSteps
  <2>4. KnownFiles' = KnownFiles
    BY <2>1, <2>2, <2>3, <1>1, ConstantsAssumption DEF KnownFiles
  <2>5. Span(InUse')
    BY <1>2, <2>1, <2>4, LogSteps, SpanSubset DEF InUse
  <2>6. NextTxID \notin old'
    BY <2>1, <2>2
  <2> QED BY <2>1, <2>2, <2>3, <2>4, <2>5, <2>6 DEF DamageShape
<1>5. CASE RemoveOldDataFiles
  <2>1. PICK keep \in SUBSET old :
           old' = keep /\ data' = [t \in TxIDs |-> IF t \in old \ keep THEN NoFile ELSE data[t]]
    BY <1>5 DEF RemoveOldDataFiles
  <2>2. pc = "cleanup" /\ pc' = "ready" /\ UNCHANGED <<log, txid, active>>
    BY <1>5 DEF RemoveOldDataFiles, Return
  <2>3. Files' \subseteq Files
    BY <2>1 DEF Files
  <2>4. KnownFiles' \subseteq KnownFiles /\ LogIDs' = LogIDs
    BY <2>1, <2>2, <2>3, LogSteps DEF KnownFiles
  <2>5. Ahead(txid, KnownFiles) /\ txid \in Files
    BY <2>2 DEF DamageShape
  <2>6. Ahead(txid', KnownFiles')
    BY <2>2, <2>4, <2>5 DEF Ahead
  <2>7. InUse' \cup {txid'} \subseteq InUse /\ InUse' \subseteq InUse
    BY <1>1, <2>2, <2>4, <2>5 DEF InUse
  <2>8. Span(InUse') /\ Span(InUse' \cup {txid'})
    BY <1>2, <2>7, SpanSubset
  <2> QED BY <2>2, <2>6, <2>8 DEF DamageShape
<1> QED BY <1>3, <1>4, <1>5 DEF WriteCheckpoint, CheckpointFails, CheckpointRename

\* A process ends, with its record in the log or without.
LEMMA StopDamage ==
  ASSUME TypeOK, DamageShape, Close \/ Crash \/ PowerLoss
  PROVE  DamageShape'
<1>1. Files \subseteq KnownFiles /\ Span(InUse)
  BY InUseTypes DEF DamageShape
<1>2. /\ pc' = "down" /\ old' = {} /\ active' = None /\ UNCHANGED data
      /\ \/ log' = log
         \/ CanWrite /\ Append1
         \/ \E p \in synced .. Len(log) : log' = SubSeq(log, 1, p)
  BY DEF Close, Crash, PowerLoss, Stop, Tear
<1>3. KnownFiles' = Files
  BY <1>2, KnownSteps
<1>4. CASE CanWrite /\ Append1
  <2>1. cur \in Op /\ Span(InUse \cup {NextTxID})
    BY <1>4 DEF CanWrite, Logging, DamageShape
  <2>2. InUse' \subseteq InUse \cup {NextTxID}
    BY <1>1, <1>3, <1>4, <2>1, LogSteps DEF InUse
  <2> QED BY <1>2, <2>1, <2>2, SpanSubset, DownShape
<1>5. CASE ~(CanWrite /\ Append1)
  <2>1. LogIDs' \subseteq LogIDs
    <3>1. \A p \in synced .. Len(log) : p \in 0 .. Len(log)
      BY RecordTypes DEF TypeOK
    <3> QED BY <1>2, <1>5, <3>1, LogSteps
  <2>2. InUse' \subseteq InUse
    BY <1>1, <1>3, <2>1 DEF InUse
  <2> QED BY <1>1, <1>2, <2>2, SpanSubset, DownShape
<1> QED BY <1>4, <1>5

\* Whatever is damaged: types and the order of the data files.
LEMMA DamageInv == Spec => []DInv
<1>1. Init => DInv
  <2> SUFFICES ASSUME Init PROVE DInv
    OBVIOUS
  <2>1. TypeOK
    BY InitIInv DEF IInv
  <2>2. Files = {} /\ LogIDs = {} /\ pc = "down" /\ old = {} /\ active = None
    BY DEF Init, Stopped, Files, LogIDs
  <2>3. InUse = {} /\ 0 \in TxIDs
    BY <2>2, HalfAssumption DEF InUse, KnownFiles, TxIDs, TxMod
  <2> QED BY <2>1, <2>2, <2>3 DEF DInv, DamageShape, Span
<1>2. DInv /\ [Next]_vars => DInv'
  <2> SUFFICES ASSUME TypeOK, DamageShape, Next \/ UNCHANGED vars PROVE TypeOK' /\ DamageShape'
    BY DEF DInv
  <2>1. CASE Open
    <3>1. Span(Files)
      BY InUseTypes, SpanSubset DEF DamageShape
    <3> QED BY <2>1, <3>1, OpenType, OpenDamage
  <2>2. CASE Log
    <3>1. pc \in {"log", "fallback"} => cur \in Op
      BY DEF DamageShape
    <3> QED BY <2>2, <3>1, LogType, LogDamage
  <2>3. CASE WriteCheckpoint
    BY <2>3, CheckpointType, CheckpointDamage
  <2>4. CASE Close \/ Crash \/ PowerLoss
    <3>1. pc \in {"log", "fallback"} => cur \in Op
      BY DEF DamageShape
    <3> QED BY <2>4, <3>1, StopType, StopDamage
  <2>5. CASE (\E op \in Op : Update(op)) \/ Checkpoint \/ CorruptDataFile \/ UNCHANGED vars
    BY <2>5, UpdateType, UpdateDamage
  <2> QED BY <2>1, <2>2, <2>3, <2>4, <2>5 DEF Next
<1> QED BY <1>1, <1>2, PTL DEF Spec

\* Every variable keeps its type, whatever fails and whatever is damaged.
THEOREM TypeCorrect == Spec => []TypeOK
<1>1. DInv => TypeOK
  BY DEF DInv
<1> QED BY <1>1, DamageInv, PTL

\* A checkpoint never replaces a data file, whatever fails and whatever is damaged:
\* the last id is ahead of every file, so none has the next one.
THEOREM CheckpointNew == Spec => []CheckpointIsNew
<1>1. DInv => CheckpointIsNew
  <2> SUFFICES ASSUME TypeOK, DamageShape, pc = "checkpoint" PROVE data[NextTxID] = NoFile
    BY DEF DInv, CheckpointIsNew
  <2>1. /\ KnownFiles \in SUBSET TxIDs /\ Files \subseteq KnownFiles
        /\ txid \in TxIDs /\ NextTxID \in TxIDs
    BY InUseTypes
  <2>2. Ahead(txid, KnownFiles)
    BY DEF DamageShape
  <2>3. NextTxID \notin Files
    BY <2>1, <2>2, NextIsNotBehind DEF Ahead, NextTxID
  <2> QED BY <2>1, <2>3 DEF Files
<1> QED BY <1>1, DamageInv, PTL

\* "ready" after a step of the log: it failed, or the log is not invalid.
LEMMA LogRepair ==
  ASSUME RepairShape, Log
  PROVE  RepairShape'
<1>1. pc \in {"log", "fallback"}
  BY DEF Log, LogRejected, LogOpenFails, LogReopen, LogAppend, LogEncodeFails, LogWriteFails, CanWrite, Logging
<1>2. logFile
  BY <1>1 DEF RepairShape
<1>3. pc' = "ready" /\ (result' = "err" \/ ~logInvalid')
  <2>1. CASE LogRejected
    BY <2>1 DEF LogRejected, Return
  <2>2. CASE LogOpenFails \/ LogReopen
    BY <1>2, <2>2 DEF LogOpenFails, LogReopen
  <2>3. CASE LogAppend
    BY <2>3 DEF LogAppend, CanWrite, Return
  <2>4. CASE LogEncodeFails \/ LogWriteFails
    BY <2>4 DEF LogEncodeFails, LogWriteFails, Return
  <2> QED BY <2>1, <2>2, <2>3, <2>4 DEF Log
<1>4. logFile'
  BY <1>2 DEF Log, LogRejected, LogOpenFails, LogReopen, LogAppend, LogEncodeFails, LogWriteFails, files
<1>5. result' = "ok" => ~logInvalid'
  BY <1>3
<1> QED BY <1>3, <1>4, <1>5 DEF RepairShape

\* openStore leaves the log open.
LEMMA OpenRepair ==
  ASSUME ClearsLog, RepairShape, Open
  PROVE  RepairShape'
<1>1. CASE CreateHome \/ WriteMetaFile \/ WriteMetaFails \/ OpenFails \/ LoadAborts
  <2>1. pc' \in {"down", "creating"}
    BY <1>1 DEF CreateHome, WriteMetaFile, WriteMetaFails, OpenFails, LoadAborts, Stop
  <2> QED BY <2>1 DEF RepairShape
<1>2. CASE OpenStore \/ LoadRecord
  <2>1. pc' = "loading" /\ result' = "none"
    BY <1>2 DEF OpenStore, LoadRecord, RepairShape
  <2> QED BY <2>1 DEF RepairShape
<1>3. CASE LoadEnd \/ LoadGap \/ LogReadFails
  <2>1. pc' = "ready" /\ result' = "none" /\ logFile'
    BY <1>3 DEF LoadEnd, LoadGap, LogReadFails, NewDiskStore, RepairShape, ClearsLog
  <2> QED BY <2>1 DEF RepairShape
<1> QED BY <1>1, <1>2, <1>3 DEF Open

\* WriteCheckpoint writes the table under the newest id and clears the log.
LEMMA CheckpointRepair ==
  ASSUME ClearsLog, TypeOK, DamageShape, RepairShape, WriteCheckpoint
  PROVE  RepairShape'
<1>1. logFile
  BY DEF RepairShape, WriteCheckpoint, CheckpointFails, CheckpointRename, CheckpointClearLog, RemoveOldDataFiles
<1>2. CASE CheckpointFails
  <2>1. logFile' /\ (pc' = "fallback" \/ (pc' = "ready" /\ result' = "err"))
    BY <1>1, <1>2 DEF CheckpointFails, Return, files
  <2> QED BY <2>1 DEF RepairShape
<1>3. CASE CheckpointRename
  <2>1. logFile' /\ pc' = "clear" /\ txid' = txid /\ mem' = mem
    BY <1>1, <1>3 DEF CheckpointRename, files, ids
  <2>2. data'[NextTxID'] = mem'
    <3>1. NextTxID \in TxIDs /\ NextTxID' = NextTxID
      BY <2>1, InUseTypes DEF NextTxID
    <3> QED BY <1>3, <2>1, <3>1 DEF CheckpointRename, TypeOK
  <2> QED BY <2>1, <2>2 DEF RepairShape
<1>4. CASE CheckpointClearLog
  <2>1. /\ pc = "clear" /\ pc' = "cleanup" /\ txid' = NextTxID /\ UNCHANGED <<data, mem>>
    BY <1>4 DEF CheckpointClearLog
  <2>2. log' = <<>> /\ logFile'
    BY <1>1, <1>4 DEF CheckpointClearLog, ClearLog, ClearsLog
  <2>3. data'[txid'] = mem'
    BY <2>1 DEF RepairShape
  <2> QED BY <2>1, <2>2, <2>3 DEF RepairShape
<1>5. CASE RemoveOldDataFiles
  <2>1. PICK keep \in SUBSET old :
           data' = [t \in TxIDs |-> IF t \in old \ keep THEN NoFile ELSE data[t]]
    BY <1>5 DEF RemoveOldDataFiles
  <2>2. pc = "cleanup" /\ pc' = "ready" /\ UNCHANGED <<log, mem, txid>> /\ logFile'
    BY <1>1, <1>5 DEF RemoveOldDataFiles, Return, files
  <2>3. txid \notin old /\ txid \in TxIDs /\ txid \in Files /\ data[txid] = mem /\ log = <<>>
    BY <2>2 DEF DamageShape, RepairShape, TypeOK
  <2>4. data'[txid] = data[txid] /\ txid \in Files'
    BY <2>1, <2>3 DEF Files
  <2> QED BY <2>2, <2>3, <2>4 DEF RepairShape
<1> QED BY <1>2, <1>3, <1>4, <1>5 DEF WriteCheckpoint

\* The remaining steps begin an update or end the process.
LEMMA OtherRepair ==
  ASSUME RepairShape,
         \/ (\E op \in Op : Update(op)) \/ Checkpoint \/ CorruptDataFile
         \/ Close \/ Crash \/ PowerLoss \/ UNCHANGED vars
  PROVE  RepairShape'
<1>1. CASE (\E op \in Op : Update(op)) \/ Checkpoint
  <2>1. pc = "ready" /\ pc' \in {"log", "checkpoint"} /\ logFile' = logFile
    BY <1>1 DEF Update, Checkpoint, files
  <2> QED BY <2>1 DEF RepairShape
<1>2. CASE CorruptDataFile \/ Close \/ Crash \/ PowerLoss
  <2>1. pc' = "down"
    BY <1>2 DEF CorruptDataFile, Close, Crash, PowerLoss, Stop
  <2> QED BY <2>1 DEF RepairShape
<1>3. CASE UNCHANGED vars
  <2>1. UNCHANGED <<pc, data, log, txid, mem, logFile, logInvalid, result>>
    BY <1>3 DEF vars
  <2>2. Files' = Files /\ NextTxID' = NextTxID
    BY <2>1 DEF Files, NextTxID
  <2> QED BY <2>1, <2>2 DEF RepairShape
<1> QED BY <1>1, <1>2, <1>3

\* A restart from an empty log loads the newest data file.
LEMMA EmptyLogReads ==
  ASSUME TypeOK, Span(Files), txid \in Files, Ahead(txid, Files), log = <<>>, data[txid] = mem
  PROVE  Recovered = mem
<1>1. Newest = txid
  <2>1. Newest \in Files /\ Newest \in TxIDs /\ Ahead(Newest, Files)
    BY NewestAhead
  <2>2. Sub(Newest, txid) < Half /\ Sub(txid, Newest) < Half /\ txid \in TxIDs
    BY <2>1 DEF Ahead, TypeOK
  <2> QED BY <2>1, <2>2, SubExclusive
<1>2. BaseTable = mem /\ BaseTable # Corrupt
  BY <1>1, ConstantsAssumption DEF BaseTable, TypeOK
<1> DEFINE x0 == [txid |-> Base, tbl |-> IF BaseTable = Corrupt THEN EmptyTable ELSE BaseTable,
                  failed |-> FALSE]
           w == [n \in 0 .. 0 |-> x0]
<1>3. Len(log) = 0
  OBVIOUS
<1>4. Recovered = Replay(x0, Len(log))[Len(log)].tbl
  BY Zenon DEF Recovered, Replay, ReplayOf
<1>5. x0.tbl = mem
  BY <1>2
<1> HIDE DEF x0
<1>6. w = ReplayOf(x0, 0, w)
  BY DEF ReplayOf
<1>7. w[0] = x0
  OBVIOUS
<1> HIDE DEF w
<1>8. Replay(x0, 0)[0] = w[0]
  BY <1>6, ReplaySolved
<1> QED BY <1>3, <1>4, <1>5, <1>7, <1>8

\* A checkpoint repairs the store: whatever was damaged or could not be read before
\* it, a restart loads the table in memory.  The log must be cleared: a log that
\* could be neither opened nor truncated keeps records that were not replayed, and
\* a restart replays those that are newer than the new file.
THEOREM Repaired == ASSUME ClearsLog PROVE Spec => []CheckpointRepairs
<1>1. Init => RepairShape
  BY DEF Init, Stopped, RepairShape
<1>2. DInv /\ RepairShape /\ [Next]_vars => RepairShape'
  <2> SUFFICES ASSUME TypeOK, DamageShape, RepairShape, Next \/ UNCHANGED vars PROVE RepairShape'
    BY DEF DInv
  <2> QED BY OpenRepair, LogRepair, CheckpointRepair, OtherRepair DEF Next
<1>3. DInv /\ RepairShape => CheckpointRepairs
  <2> SUFFICES ASSUME TypeOK, DamageShape, RepairShape,
                      pc = "cleanup" \/ (pc = "ready" /\ logInvalid /\ result = "ok")
               PROVE  Recovered = mem
    BY DEF DInv, CheckpointRepairs
  <2>1. txid \in Files /\ data[txid] = mem /\ log = <<>> /\ Ahead(txid, KnownFiles)
    BY DEF DamageShape, RepairShape
  <2>2. Files \subseteq KnownFiles /\ Files \subseteq InUse /\ Span(InUse)
    BY InUseTypes DEF DamageShape
  <2>3. Span(Files) /\ Ahead(txid, Files)
    BY <2>1, <2>2, SpanSubset DEF Ahead
  <2> QED BY <2>1, <2>3, EmptyLogReads
<1> QED BY <1>1, <1>2, <1>3, DamageInv, PTL DEF Spec

-----------------------------------------------------------------------------
(***************************************************************************)
(* The memlog backend implements the durable map.                          *)
(***************************************************************************)


\* What the files stand for, in the terms of the disk's shape.
ReadsFact ==
  \A b \in TxIDs : \A s \in 0 .. Len(log) :
     TypeOK /\ DiskShape(b, s) =>
        /\ Base = b
        /\ BaseTable = TableOf(b)
        /\ \A p \in 0 .. Len(log) : TableAt(p) = Committed(b, s, p)

\* It holds in the next state too.
LEMMA ReadsNext == ReadsFact'
<1>1. ReadsFact
  BY DiskReads DEF ReadsFact
<1> QED BY <1>1, PTL

\* As long as the data files, the log and what is synced are left alone, the
\* files stand for the same tables.
LEMMA SameTables ==
  ASSUME UNCHANGED <<data, log>>
  PROVE  DurableTable' = DurableTable /\ (synced' = synced => RecentTables' = RecentTables)
<1>1. Files' = Files
  BY DEF Files
<1>2. Newest' = Newest
  BY <1>1 DEF Newest
<1>3. Base' = Base /\ BaseTable' = BaseTable
  BY <1>1, <1>2 DEF Base, BaseTable
<1>4. \A p : TableAt(p)' = TableAt(p)
  BY <1>3 DEF TableAt
<1> QED BY <1>4 DEF DurableTable, RecentTables

\* An append that continues the history adds the table in memory.
LEMMA AppendTables ==
  ASSUME IInv, TypeOK', CanWrite, Append1, UNCHANGED data
  PROVE  DurableTable' = mem /\ RecentTables' = RecentTables \cup {mem}
<1>1. TypeOK /\ Len(log) \in Nat /\ synced \in 0 .. Len(log)
  BY RecordTypes DEF IInv, TypeOK
<1>2. PICK b \in TxIDs, s \in 0 .. Len(log) : DiskShape(b, s) /\ ProcShape(b, s)
  BY DEF IInv
<1>3. /\ s \in 0 .. Len(log)' /\ Len(log)' = Len(log) + 1
      /\ DiskShape(b, s)' /\ Committed(b, s, Len(log))' = mem
  BY <1>1, <1>2, AppendedLog DEF Append1
<1>4. \A p \in 0 .. Len(log)' : TableAt(p)' = Committed(b, s, p)'
  BY <1>3, ReadsNext DEF ReadsFact
<1>5. \A p \in 0 .. Len(log) : TableAt(p) = Committed(b, s, p)
  BY <1>1, <1>2, DiskReads
<1>6. \A i \in 1 .. Len(log) : log'[i] = log[i]
  BY <1>1 DEF Append1, TypeOK
<1>7. \A p \in 0 .. Len(log) : Committed(b, s, p)' = Committed(b, s, p)
  BY <1>1, <1>6 DEF Committed, TableOf
<1>8. /\ \A p \in 0 .. Len(log) : TableAt(p)' = TableAt(p)
      /\ \A p \in {Len(log)'} : TableAt(p)' = mem
  <2>1. \A p \in 0 .. Len(log) : TableAt(p)' = TableAt(p)
    <3>1. \A p \in 0 .. Len(log) : p \in 0 .. Len(log)'
      BY <1>1, <1>3
    <3> QED BY <3>1, <1>4, <1>5, <1>7
  <2>2. ASSUME NEW p \in {Len(log)'} PROVE TableAt(p)' = mem
    <3>1. p \in 0 .. Len(log)' /\ p > Len(log) /\ p = Len(log)'
      BY <1>1, <1>3
    <3>2. Committed(b, s, p)' = mem
      BY <3>1, <1>3 DEF Committed
    <3> QED BY <3>1, <3>2, <1>4
  <2> QED BY <2>1, <2>2
<1>9. DurableTable' = mem
  BY <1>8 DEF DurableTable
<1>10. synced' = synced
  BY DEF Append1
<1>11. RecentTables' = RecentTables \cup {mem}
  <2>1. synced' .. Len(log)' = (synced .. Len(log)) \cup {Len(log)'}
    BY <1>1, <1>3, <1>10
  <2>2. \A p \in synced .. Len(log) : TableAt(p)' = TableAt(p)
    BY <1>1, <1>8
  <2>3. RecentTables' = {TableAt(p)' : p \in synced' .. Len(log)'}
    BY DEF RecentTables
  <2>4. RecentTables = {TableAt(p) : p \in synced .. Len(log)}
    BY DEF RecentTables
  <2> QED BY <2>1, <2>2, <2>3, <2>4, <1>8
<1> QED BY <1>9, <1>11

\* A log that is all old stands for the newest data file, and so does the empty
\* log.
LEMMA EmptyTables ==
  ASSUME TypeOK, NEW b \in TxIDs, NEW s \in 0 .. Len(log), DiskShape(b, s), s = Len(log),
         UNCHANGED data, log' = <<>>, synced' = 0
  PROVE  DurableTable' = DurableTable /\ RecentTables' = RecentTables
<1>1. Len(log) \in Nat /\ synced \in 0 .. Len(log) /\ Len(log)' = 0
  BY RecordTypes DEF TypeOK
<1>2. Base = b /\ \A p \in 0 .. Len(log) : TableAt(p) = BaseTable
  <2>1. BaseTable = TableOf(b) /\ Base = b /\ \A p \in 0 .. Len(log) : TableAt(p) = Committed(b, s, p)
    BY DiskReads
  <2> QED BY <2>1, <1>1 DEF Committed
<1>3. Files' = Files
  BY DEF Files
<1>4. Newest' = Newest
  BY <1>3 DEF Newest
<1>5. BaseTable' = BaseTable
  BY <1>3, <1>4 DEF BaseTable
<1>6. \A p \in {0} : TableAt(p)' = BaseTable
  BY <1>5 DEF TableAt
<1>7. DurableTable' = BaseTable /\ DurableTable = BaseTable
  BY <1>1, <1>2, <1>6 DEF DurableTable
<1>8. RecentTables = {BaseTable}
  <2>1. synced \in synced .. Len(log) /\ \A p \in synced .. Len(log) : p \in 0 .. Len(log)
    BY <1>1
  <2>2. \A p \in synced .. Len(log) : TableAt(p) = BaseTable
    BY <2>1, <1>2
  <2> QED BY <2>1, <2>2 DEF RecentTables
<1>9. RecentTables' = {BaseTable}
  <2>1. synced' .. Len(log)' = {0}
    BY <1>1
  <2>2. RecentTables' = {TableAt(p)' : p \in synced' .. Len(log)'}
    BY DEF RecentTables
  <2> QED BY <2>1, <2>2, <1>6
<1> QED BY <1>7, <1>8, <1>9

\* A new data file holds all of the table in memory.
LEMMA RenameTables ==
  ASSUME IInv, CheckpointRename
  PROVE  DurableTable' = mem /\ RecentTables' = {mem}
<1>1. TypeOK
  BY DEF IInv
<1>2. PICK b \in TxIDs, s \in 0 .. Len(log) : DiskShape(b, s) /\ ProcShape(b, s)
  BY DEF IInv
<1>3. /\ NextTxID \in TxIDs /\ TypeOK' /\ Len(log) \in 0 .. Len(log)'
      /\ DiskShape(NextTxID, Len(log))' /\ ProcShape(NextTxID, Len(log))'
  BY <1>1, <1>2, StepCheckpointRename
<1>4. NextTxID' = NextTxID /\ log' = log /\ synced' = synced /\ pc' = "clear" /\ mem' = mem
  BY DEF CheckpointRename, NextTxID, ids
<1>5. PICK c \in TxIDs, l \in 0 .. Len(log)' : c = NextTxID' /\ l = Len(log)' /\ DiskShape(c, l)'
  BY <1>3, <1>4
<1>6. \A p \in 0 .. Len(log)' : TableAt(p)' = Committed(c, l, p)'
  BY <1>3, <1>5, ReadsNext DEF ReadsFact
<1>7. Len(log) \in Nat /\ synced \in 0 .. Len(log)
  BY <1>1, RecordTypes DEF TypeOK
<1>8. data'[c] = mem /\ mem # NoFile
  <2>1. data'[c] = mem
    BY <1>1, <1>3, <1>4, <1>5 DEF CheckpointRename, TypeOK
  <2> QED BY <2>1, <1>1, ConstantsAssumption DEF TypeOK
<1>9. \A p \in 0 .. Len(log)' : TableAt(p)' = mem
  BY <1>4, <1>5, <1>6, <1>7, <1>8 DEF Committed, TableOf
<1>10. DurableTable' = mem
  BY <1>4, <1>7, <1>9 DEF DurableTable
<1>11. RecentTables' = {mem}
  <2>1. synced' \in synced' .. Len(log)' /\ \A p \in synced' .. Len(log)' : p \in 0 .. Len(log)'
    BY <1>4, <1>7
  <2>2. RecentTables' = {TableAt(p)' : p \in synced' .. Len(log)'}
    BY DEF RecentTables
  <2> QED BY <2>1, <2>2, <1>9
<1> QED BY <1>10, <1>11

\* Deleting old data files changes nothing that counts.
LEMMA RemoveTables ==
  ASSUME IInv, RemoveOldDataFiles
  PROVE  DurableTable' = mem /\ DurableTable = mem /\ RecentTables' = RecentTables
<1>1. TypeOK
  BY DEF IInv
<1>2. PICK b \in TxIDs, s \in 0 .. Len(log) : DiskShape(b, s) /\ ProcShape(b, s)
  BY DEF IInv
<1>3. IInv' /\ s \in 0 .. Len(log)' /\ DiskShape(b, s)' /\ ProcShape(b, s)'
  BY <1>1, <1>2, StepRemoveOldDataFiles
<1>4. s = Len(log) /\ b \in Files /\ mem = data[b]
  BY <1>2 DEF ProcShape, RemoveOldDataFiles
<1>5. UNCHANGED <<log, synced, mem>> /\ pc' = "ready" /\ result' = "ok"
  BY DEF RemoveOldDataFiles, Return
<1>6. Len(log) \in Nat /\ synced \in 0 .. Len(log)
  BY <1>1, RecordTypes DEF TypeOK
<1>7. \A p \in 0 .. Len(log) : TableAt(p) = mem
  <2>1. \A p \in 0 .. Len(log) : TableAt(p) = Committed(b, s, p)
    BY <1>1, <1>2, DiskReads
  <2>2. TableOf(b) = mem
    BY <1>4 DEF TableOf, Files
  <2> QED BY <2>1, <2>2, <1>4, <1>6 DEF Committed
<1>8. \A p \in 0 .. Len(log)' : TableAt(p)' = mem
  <2>1. \A p \in 0 .. Len(log)' : TableAt(p)' = Committed(b, s, p)'
    BY <1>3, ReadsNext DEF ReadsFact, IInv
  <2>2. mem' = Committed(b, s, Len(log))'
    BY <1>3, <1>5 DEF ProcShape
  <2> QED BY <2>1, <2>2, <1>4, <1>5, <1>6 DEF Committed
<1>9. DurableTable' = mem /\ DurableTable = mem
  BY <1>5, <1>6, <1>7, <1>8 DEF DurableTable
<1>10. RecentTables' = RecentTables
  <2>1. \A p \in synced .. Len(log) : p \in 0 .. Len(log)
    BY <1>6
  <2>2. RecentTables' = {TableAt(p)' : p \in synced' .. Len(log)'}
    BY DEF RecentTables
  <2> QED BY <2>1, <2>2, <1>5, <1>7, <1>8 DEF RecentTables
<1> QED BY <1>9, <1>10

\* A loss of power falls back to one of the recent tables.
LEMMA PowerTables ==
  ASSUME IInv, PowerLoss
  PROVE  /\ DurableTable' \in RecentTables
         /\ RecentTables' \subseteq RecentTables
         /\ DurableTable' \in RecentTables'
<1>1. TypeOK
  BY DEF IInv
<1>2. PICK b \in TxIDs, s \in 0 .. Len(log) : DiskShape(b, s) /\ ProcShape(b, s)
  BY DEF IInv
<1>3. PICK p \in synced .. Len(log) : log' = SubSeq(log, 1, p)
  BY DEF PowerLoss
<1>4. UNCHANGED <<data, synced>>
  BY DEF PowerLoss
<1>5. Len(log)' = p /\ p \in 0 .. Len(log) /\ \A i \in 1 .. p : log'[i] = log[i]
  BY <1>1, <1>2, <1>3, <1>4, PrefixLog
<1>6. Files' = Files
  BY <1>4 DEF Files
<1>7. Newest' = Newest
  BY <1>6 DEF Newest
<1>8. Base' = Base /\ BaseTable' = BaseTable
  BY <1>4, <1>6, <1>7 DEF Base, BaseTable
<1>9. Len(log) \in Nat /\ synced \in 0 .. Len(log) /\ p \in Nat /\ synced <= p
  BY <1>1, RecordTypes DEF TypeOK
<1>10. \A q \in 0 .. p : TableAt(q)' = TableAt(q)
  BY <1>5, <1>8, <1>9 DEF TableAt
<1>11. DurableTable' = TableAt(p)
  BY <1>5, <1>9, <1>10 DEF DurableTable
<1>12. RecentTables' = {TableAt(q) : q \in synced .. p}
  <2>1. RecentTables' = {TableAt(q)' : q \in synced' .. Len(log)'}
    BY DEF RecentTables
  <2>2. \A q \in synced .. p : q \in 0 .. p
    BY <1>9
  <2> QED BY <2>1, <2>2, <1>4, <1>5, <1>10
<1>13. p \in synced .. p /\ \A q \in synced .. p : q \in synced .. Len(log)
  BY <1>5, <1>9
<1> QED BY <1>11, <1>12, <1>13 DEF RecentTables
-----------------------------------------------------------------------------
(***************************************************************************)
(* Every step is a step of the durable map, or leaves it alone.            *)
(***************************************************************************)

\* The map's variables, as functions of the state of the store.
View == IF pc \in {"down", "creating", "loading"} THEN EmptyTable ELSE mem
Mode == CASE pc \in {"down", "creating", "loading"} -> "down"
          [] pc = "ready" -> "ready"
          [] OTHER -> "busy"

\* What the map's variables are at each place of the process.
LEMMA Modes ==
  /\ pc \in {"down", "creating", "loading"} => Mode = "down" /\ View = EmptyTable
  /\ pc = "ready" => Mode = "ready" /\ View = mem
  /\ pc \in {"log", "checkpoint", "fallback", "clear", "cleanup"} => Mode = "busy" /\ View = mem
  BY DEF Mode, View

\* The same, after a step.
LEMMA ModesNext ==
  /\ pc' \in {"down", "creating", "loading"} => Mode' = "down" /\ View' = EmptyTable
  /\ pc' = "ready" => Mode' = "ready" /\ View' = mem'
  /\ pc' \in {"log", "checkpoint", "fallback", "clear", "cleanup"} => Mode' = "busy" /\ View' = mem'
  BY DEF Mode, View, EmptyTable

\* A step that changes none of the map's variables.
LEMMA MapStutter ==
  ASSUME View' = View, Mode' = Mode, DurableTable' = DurableTable, RecentTables' = RecentTables,
         result' = result
  PROVE  UNCHANGED DM!vars
  BY DEF DM!vars, View, Mode

\* Opening the store.
LEMMA MapOpen ==
  ASSUME IInv, NoDamage, Open
  PROVE  DM!Next \/ UNCHANGED DM!vars
<1>0. TypeOK
  BY DEF IInv
<1>1. PICK b \in TxIDs, s \in 0 .. Len(log) : DiskShape(b, s) /\ ProcShape(b, s)
  BY DEF IInv
<1>2. CASE CreateHome \/ WriteMetaFails \/ OpenFails \/ OpenStore \/ LoadAborts
  <2>1. UNCHANGED <<data, log, synced>>
    <3>1. CASE OpenStore
      <4>1. Files # {} => Newest = b /\ data[Newest] # Corrupt
        BY <1>0, <1>1, DiskReads DEF DiskShape
      <4> QED BY <3>1, <4>1 DEF OpenStore
    <3> QED BY <1>2, <3>1 DEF CreateHome, WriteMetaFails, OpenFails, LoadAborts, disk
  <2>2. pc \in {"down", "creating", "loading"} /\ pc' \in {"down", "creating", "loading"}
          /\ result' \in {"none", "err"}
    BY <1>2 DEF CreateHome, WriteMetaFails, OpenFails, OpenStore, LoadAborts, Stop
  <2>3. Mode = "down" /\ Mode' = "down" /\ View' = View
    BY <2>2, Modes, ModesNext
  <2>4. DM!NotOpened
    BY <2>1, <2>2, <2>3, SameTables DEF DM!NotOpened, View, Mode
  <2> QED BY <2>4 DEF DM!Next
<1>3. CASE WriteMetaFile \/ LoadRecord
  <2>1. UNCHANGED <<data, log, synced, result>> /\ pc \in {"creating", "loading"}
          /\ pc' \in {"down", "loading"}
    BY <1>3 DEF WriteMetaFile, LoadRecord, disk
  <2> QED BY <2>1, SameTables, Modes, ModesNext, MapStutter
<1>4. CASE LoadEnd
  <2>1. pc = "loading" /\ pos = Len(log) /\ pc' = "ready" /\ UNCHANGED <<data, log, synced, mem, result>>
    BY <1>4 DEF LoadEnd, NewDiskStore, disk
  <2>2. result = "none" /\ mem = Committed(b, s, Len(log))
    BY <2>1, <1>1 DEF ProcShape
  <2>3. Len(log) \in 0 .. Len(log)
    BY <1>0, RecordTypes
  <2>4. mem = DurableTable
    BY <2>2, <2>3, <1>0, <1>1, DiskReads DEF DurableTable
  <2>5. DM!Open
    BY <2>1, <2>2, <2>4, SameTables, Modes, ModesNext DEF DM!Open, View, Mode
  <2> QED BY <2>5 DEF DM!Next
<1>5. CASE LoadGap
  BY <1>5, <1>0, <1>1, StepLoadGap
<1>6. CASE LogReadFails
  BY <1>6 DEF LogReadFails, NoDamage
<1> QED BY <1>2, <1>3, <1>4, <1>5, <1>6 DEF Open

\* Beginning an update or a checkpoint.
LEMMA MapBegin ==
  ASSUME IInv, Checkpoint \/ \E op \in Op : Update(op)
  PROVE  DM!Next
<1>1. pc = "ready" /\ pc' \in {"log", "checkpoint"} /\ result' = "none" /\ UNCHANGED <<data, log, synced>>
  BY DEF Checkpoint, Update, disk
<1>2. mem' = mem \/ \E k \in Keys, v \in Vals \cup {NoVal} : mem' = [mem EXCEPT ![k] = v]
  <2>1. CASE Checkpoint
    BY <2>1 DEF Checkpoint
  <2>2. CASE \E op \in Op : Update(op)
    <3>1. PICK op \in Op : mem' = Apply(mem, op)
      BY <2>2 DEF Update
    <3>2. op.k \in Keys /\ op.v \in Vals \cup {NoVal} /\ mem' = [mem EXCEPT ![op.k] = op.v]
      BY <3>1 DEF Op, Apply
    <3> QED BY <3>2
  <2> QED BY <2>1, <2>2
<1>3. Mode = "ready" /\ View = mem /\ Mode' = "busy" /\ View' = mem'
  BY <1>1, Modes, ModesNext
<1>4. DM!Begin
  BY <1>1, <1>2, <1>3, SameTables DEF DM!Begin, View, Mode
<1> QED BY <1>4 DEF DM!Next

\* A call that returns, in the terms of the map.
LEMMA MapReturn ==
  ASSUME pc \in {"log", "checkpoint", "fallback", "clear", "cleanup"}, pc' = "ready", UNCHANGED mem,
         \/ DurableTable' = DurableTable /\ RecentTables' = RecentTables
         \/ DurableTable' = mem /\ RecentTables' = RecentTables \cup {mem},
         result' \in {"ok", "err"}, result' = "ok" => DurableTable' = mem
  PROVE  DM!Next
<1>1. Mode = "busy" /\ View = mem /\ Mode' = "ready" /\ View' = mem
  BY Modes, ModesNext
<1>2. DM!Return
  BY <1>1 DEF DM!Return, View, Mode
<1> QED BY <1>2 DEF DM!Next

\* Appending to the log.
LEMMA MapLog ==
  ASSUME IInv, IInv', Log
  PROVE  DM!Next \/ UNCHANGED DM!vars
<1>0. TypeOK /\ TypeOK'
  BY DEF IInv
<1>1. PICK b \in TxIDs, s \in 0 .. Len(log) : DiskShape(b, s) /\ ProcShape(b, s)
  BY DEF IInv
<1>2. UNCHANGED <<data, mem>> /\ pc \in {"log", "fallback"}
  BY DEF Log, LogRejected, LogOpenFails, LogReopen, LogAppend, LogEncodeFails, LogWriteFails,
         CanWrite, Logging, disk
<1>3. CASE LogRejected \/ LogOpenFails \/ LogReopen
  <2>1. DurableTable' = DurableTable /\ RecentTables' = RecentTables
    <3>1. CASE UNCHANGED <<log, synced>>
      BY <3>1, <1>2, SameTables
    <3>2. CASE logNeedsTruncate /\ log' = <<>> /\ synced' = 0
      <4>1. s = Len(log)
        BY <3>2, <1>1, <1>2 DEF ProcShape
      <4> QED BY <4>1, <3>2, <1>0, <1>1, <1>2, EmptyTables
    <3> QED BY <1>3, <3>1, <3>2 DEF LogRejected, LogOpenFails, LogReopen, TruncateOnOpen, disk
  <2>2. CASE LogReopen
    <3>1. UNCHANGED <<pc, result>>
      BY <2>2 DEF LogReopen
    <3>2. Mode' = Mode /\ View' = View
      BY <3>1, <1>2, Modes, ModesNext
    <3> QED BY <3>1, <3>2, <2>1, MapStutter
  <2>3. CASE LogRejected \/ LogOpenFails
    <3>1. pc' = "ready" /\ result' = "err"
      BY <2>3 DEF LogRejected, LogOpenFails, Return
    <3> QED BY <3>1, <2>1, <1>2, MapReturn
  <2> QED BY <1>3, <2>2, <2>3
<1>4. CASE LogAppend
  <2>1. pc' = "ready" /\ result' \in {"ok", "err"} /\ CanWrite /\ Append1
    BY <1>4 DEF LogAppend, Return
  <2>2. DurableTable' = mem /\ RecentTables' = RecentTables \cup {mem}
    BY <2>1, <1>0, <1>2, AppendTables
  <2> QED BY <2>1, <2>2, <1>2, MapReturn
<1>5. CASE LogEncodeFails \/ LogWriteFails
  <2>1. pc' = "ready" /\ result' = "err" /\ CanWrite
    BY <1>5 DEF LogEncodeFails, LogWriteFails, Return
  <2>2. CASE Append1
    BY <2>1, <2>2, <1>0, <1>2, AppendTables, MapReturn
  <2>3. CASE UNCHANGED <<log, synced>>
    BY <2>1, <2>3, <1>2, SameTables, MapReturn
  <2> QED BY <1>5, <2>2, <2>3 DEF LogEncodeFails, LogWriteFails, Tear
<1> QED BY <1>3, <1>4, <1>5 DEF Log

\* Writing a checkpoint.
LEMMA MapCheckpoint ==
  ASSUME IInv, WriteCheckpoint
  PROVE  DM!Next \/ UNCHANGED DM!vars
<1>0. TypeOK
  BY DEF IInv
<1>1. PICK b \in TxIDs, s \in 0 .. Len(log) : DiskShape(b, s) /\ ProcShape(b, s)
  BY DEF IInv
<1>2. CASE CheckpointFails
  <2>1. pc = "checkpoint" /\ UNCHANGED <<data, log, synced, mem>>
    BY <1>2 DEF CheckpointFails, disk
  <2>2. DurableTable' = DurableTable /\ RecentTables' = RecentTables
    BY <2>1, SameTables
  <2>3. CASE pc' = "fallback" /\ result' = result
    <3>1. Mode' = Mode /\ View' = View
      BY <2>1, <2>3, Modes, ModesNext
    <3> QED BY <3>1, <2>2, <2>3, MapStutter
  <2>4. CASE pc' = "ready" /\ result' = "err"
    BY <2>1, <2>2, <2>4, MapReturn
  <2> QED BY <1>2, <2>1, <2>3, <2>4 DEF CheckpointFails, Return
<1>3. CASE CheckpointRename
  <2>1. pc = "checkpoint" /\ pc' = "clear" /\ UNCHANGED <<mem, result>>
    BY <1>3 DEF CheckpointRename
  <2>2. DurableTable' = mem /\ RecentTables' = {mem}
    BY <1>3, RenameTables
  <2>3. Mode = "busy" /\ Mode' = "busy" /\ View = mem /\ View' = View
    BY <2>1, Modes, ModesNext
  <2>4. DM!Persist
    BY <2>1, <2>2, <2>3 DEF DM!Persist, View, Mode
  <2> QED BY <2>4 DEF DM!Next
<1>4. CASE CheckpointClearLog
  <2>1. pc = "clear" /\ pc' = "cleanup" /\ UNCHANGED <<data, mem, result>>
    BY <1>4 DEF CheckpointClearLog
  <2>2. DurableTable' = DurableTable /\ RecentTables' = RecentTables
    <3>1. CASE UNCHANGED <<log, synced>>
      BY <3>1, <2>1, SameTables
    <3>2. CASE log' = <<>> /\ synced' = 0
      <4>1. s = Len(log)
        BY <2>1, <1>1 DEF ProcShape
      <4> QED BY <4>1, <3>2, <2>1, <1>0, <1>1, EmptyTables
    <3> QED BY <1>4, <3>1, <3>2 DEF CheckpointClearLog, ClearLog
  <2>3. Mode' = Mode /\ View' = View
    BY <2>1, Modes, ModesNext
  <2> QED BY <2>1, <2>2, <2>3, MapStutter
<1>5. CASE RemoveOldDataFiles
  <2>1. pc = "cleanup" /\ pc' = "ready" /\ result' = "ok" /\ UNCHANGED mem
    BY <1>5 DEF RemoveOldDataFiles, Return
  <2> QED BY <2>1, <1>5, RemoveTables, MapReturn
<1> QED BY <1>2, <1>3, <1>4, <1>5 DEF WriteCheckpoint

\* The end of the process.
LEMMA MapStop ==
  ASSUME IInv, IInv', Close \/ Crash \/ PowerLoss
  PROVE  DM!Next
<1>0. TypeOK /\ TypeOK' /\ Len(log) \in Nat /\ synced \in 0 .. Len(log)
  BY RecordTypes DEF IInv, TypeOK
<1>1. Mode' = "down" /\ View' = EmptyTable
  BY ModesNext DEF Close, Crash, PowerLoss, Stop
<1>2. CASE Close
  <2>1. pc = "ready" /\ UNCHANGED <<data, log>> /\ result' \in {"ok", "err"}
          /\ synced' \in {synced, Len(log)}
    BY <1>2 DEF Close
  <2>2. RecentTables' \in {RecentTables, {DurableTable}} /\ DurableTable' = DurableTable
    <3>1. CASE synced' = synced
      BY <3>1, <2>1, SameTables
    <3>2. CASE synced' = Len(log)
      <4>1. synced' .. Len(log)' = {Len(log)'}
        BY <3>2, <2>1, <1>0
      <4>2. RecentTables' = {TableAt(p)' : p \in synced' .. Len(log)'}
        BY DEF RecentTables
      <4>3. \A p \in {Len(log)'} : TableAt(p)' = DurableTable'
        BY DEF DurableTable
      <4>4. RecentTables' = {DurableTable'}
        BY <4>1, <4>2, <4>3
      <4> QED BY <4>4, <2>1, SameTables
    <3> QED BY <2>1, <3>1, <3>2
  <2>3. Mode = "ready"
    BY <2>1, Modes
  <2>4. DM!Close
    BY <2>1, <2>2, <2>3, <1>1 DEF DM!Close, DM!EmptyTable, EmptyTable, View, Mode
  <2> QED BY <2>4 DEF DM!Next
<1>3. CASE Crash
  <2>1. pc # "down" /\ UNCHANGED data /\ result' = "none" /\ pc' = "down"
    BY <1>3 DEF Crash, Stop
  <2>2. CASE UNCHANGED <<log, synced>>
    <3>1. DurableTable' = DurableTable /\ RecentTables' = RecentTables
      BY <2>1, <2>2, SameTables
    <3>2. CASE pc \in {"creating", "loading"}
      <4>1. Mode = "down" /\ View = EmptyTable
        BY <3>2, Modes
      <4>2. DM!NotOpened
        BY <4>1, <3>1, <2>1, <1>1 DEF DM!NotOpened, View, Mode
      <4> QED BY <4>2 DEF DM!Next
    <3>3. CASE pc \notin {"creating", "loading"}
      <4>1. Mode # "down"
        BY <3>3, <2>1 DEF Mode
      <4>2. DM!Crash
        BY <4>1, <3>1, <2>1, <1>1 DEF DM!Crash, DM!EmptyTable, EmptyTable, View, Mode
      <4> QED BY <4>2 DEF DM!Next
    <3> QED BY <3>2, <3>3
  <2>3. CASE CanWrite /\ Append1
    <3>1. DurableTable' = mem /\ RecentTables' = RecentTables \cup {mem}
      BY <2>1, <2>3, <1>0, AppendTables
    <3>2. Mode = "busy" /\ View = mem
      BY <2>3, Modes DEF CanWrite, Logging
    <3>3. DM!Crash
      BY <3>1, <3>2, <2>1, <1>1 DEF DM!Crash, DM!EmptyTable, EmptyTable, View, Mode
    <3> QED BY <3>3 DEF DM!Next
  <2> QED BY <1>3, <2>2, <2>3 DEF Crash, Tear
<1>4. CASE PowerLoss
  <2>1. result' = "none"
    BY <1>4 DEF PowerLoss
  <2>2. DM!PowerLoss
    BY <2>1, <1>1, <1>4, PowerTables DEF DM!PowerLoss, DM!EmptyTable, EmptyTable, View, Mode
  <2> QED BY <2>2 DEF DM!Next
<1> QED BY <1>2, <1>3, <1>4

\* An empty directory is an empty map.
LEMMA MapInit == Init => DM!Init
<1> SUFFICES ASSUME Init PROVE DM!Init
  OBVIOUS
<1>1. Files = {} /\ Len(log) = 0 /\ synced = 0 /\ pc = "down" /\ result = "none"
  BY DEF Init, Stopped, Files
<1>2. BaseTable = EmptyTable
  BY <1>1 DEF BaseTable
<1>3. \A p \in {0} : TableAt(p) = EmptyTable
  BY <1>2 DEF TableAt
<1>4. DurableTable = EmptyTable
  BY <1>1, <1>3 DEF DurableTable
<1>5. RecentTables = {EmptyTable}
  <2>1. synced .. Len(log) = {0}
    BY <1>1
  <2> QED BY <2>1, <1>3 DEF RecentTables
<1>6. View = EmptyTable /\ Mode = "down"
  BY <1>1, Modes
<1> QED BY <1>1, <1>4, <1>5, <1>6 DEF DM!Init, DM!EmptyTable, EmptyTable, View, Mode

\* The backend implements the durable map: through every failure of the file
\* system but damaged files, every crash and every loss of power, what a restart
\* loads moves only to the table in memory, has got there when a call says "ok",
\* and falls back only to tables written since the last sync.
THEOREM Refinement == ASSUME NoDamage PROVE Spec => ImplementsDurableMap
<1>1. IInv /\ IInv' /\ [Next]_vars => [DM!Next]_(DM!vars)
  <2> SUFFICES ASSUME IInv, IInv', [Next]_vars PROVE DM!Next \/ UNCHANGED DM!vars
    OBVIOUS
  <2>1. CASE Open
    BY <2>1, MapOpen
  <2>2. CASE Checkpoint \/ \E op \in Op : Update(op)
    BY <2>2, MapBegin
  <2>3. CASE Log
    BY <2>3, MapLog
  <2>4. CASE WriteCheckpoint
    BY <2>4, MapCheckpoint
  <2>5. CASE Close \/ Crash \/ PowerLoss
    BY <2>5, MapStop
  <2>6. CASE CorruptDataFile
    BY <2>6 DEF CorruptDataFile, NoDamage
  <2>7. CASE UNCHANGED vars
    <3>1. UNCHANGED <<data, log, synced, pc, mem, result>>
      BY <2>7 DEF vars
    <3>2. Mode' = Mode /\ View' = View
      BY <3>1 DEF Mode, View
    <3> QED BY <3>1, <3>2, SameTables, MapStutter
  <2> QED BY <2>1, <2>2, <2>3, <2>4, <2>5, <2>6, <2>7 DEF Next
<1> QED BY <1>1, MapInit, InductiveInvariant, PTL DEF Spec, ImplementsDurableMap, DM!Spec
=============================================================================
