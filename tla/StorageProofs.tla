--------------------------- MODULE StorageProofs ----------------------------
(***************************************************************************)
(* TLAPS proofs about the storage path, for every set of streams, kinds of *)
(* frames and flush threads and every value of the bounds.                 *)
(***************************************************************************)
EXTENDS Storage, SequenceTheorems, FiniteSetTheorems, WellFoundedInduction, TLAPS

\* The log with what WalProofs proves about it.
WP == INSTANCE WalProofs

-----------------------------------------------------------------------------
(* The storage path keeps the log's assumptions about its constants.          *)
LEMMA LogAssumptions ==
    /\ Size \in [Ops -> Nat \ {0}]
    /\ FsyncEvery \in Nat \ {0}
    /\ SegMax \in Nat
    /\ NoOp \notin Ops
    /\ MaxRecords \in Nat /\ MaxCrashes \in Nat /\ MaxLosses \in Nat
BY UnitAssumption, LogAssumption DEF Size, Ops, MaxLosses

(* W, the log that Storage runs, and WP, the log of the proofs, are instances *)
(* of one module.                                                             *)
LEMMA SameLog ==
    /\ W!Init <=> WP!Init
    /\ W!Next <=> WP!Next
    /\ W!TypeOK /\ W!WalInv <=> WP!TypeOK /\ WP!WalInv
<1>1. W!Dir = WP!Dir /\ W!Segno = WP!Segno
  BY DEF W!Dir, WP!Dir, W!Segno, WP!Segno, W!Max, WP!Max
<1>2. W!IdleFlush = WP!IdleFlush /\ W!Flush = WP!Flush /\ W!Record = WP!Record
  BY DEF W!IdleFlush, WP!IdleFlush, W!Flush, WP!Flush, W!PC, WP!PC, W!Record, WP!Record
<1>3. \A s : W!MaxLsn(s) = WP!MaxLsn(s)
  BY DEF W!MaxLsn, WP!MaxLsn, W!Last, WP!Last
<1>4. \A t, g : W!IsNext(t, g) <=> WP!IsNext(t, g)
  BY DEF W!IsNext, WP!IsNext
<1>5. W!Init <=> WP!Init
  BY <1>2 DEF W!Init, WP!Init
<1>6. W!TypeOK /\ W!WalInv <=> WP!TypeOK /\ WP!WalInv
  BY <1>1, <1>2, <1>3, <1>4
  DEF W!TypeOK, WP!TypeOK, W!WalInv, WP!WalInv, W!SegmentLsnSorted, WP!SegmentLsnSorted,
      W!ActiveIsNewest, WP!ActiveIsNewest, W!DirBelowFd, WP!DirBelowFd,
      W!ActiveLsn, WP!ActiveLsn, W!QuietWhenDown, WP!QuietWhenDown,
      W!SparedIsOld, WP!SparedIsOld, W!TodoSpares, WP!TodoSpares,
      W!RemoveChecked, WP!RemoveChecked
<1>7. W!Create <=> WP!Create
  <2>1. \A s : W!Bytes(s) = WP!Bytes(s)
    BY DEF W!Bytes, WP!Bytes, W!FoldLeft, WP!FoldLeft, W!MapThenFoldSet, WP!MapThenFoldSet,
       W!Max, WP!Max
  <2>2. W!WalOpenSegno = WP!WalOpenSegno
    BY <1>1, <2>1 DEF W!WalOpenSegno, WP!WalOpenSegno
  <2>3. W!Unsynced = WP!Unsynced
    BY <1>1 DEF W!Unsynced, WP!Unsynced
  <2> QED
    BY <1>3, <2>2, <2>3 DEF W!Create, WP!Create, W!Created, WP!Created
<1>8. ASSUME NEW op
      PROVE  (W!Rotate(op) <=> WP!Rotate(op)) /\ (W!Write(op) <=> WP!Write(op))
  BY <1>1 DEF W!Rotate, WP!Rotate, W!Write, WP!Write, W!Created, WP!Created
<1>14. W!Fsync <=> WP!Fsync
  BY DEF W!Fsync, WP!Fsync
<1>9. W!FlushLsns = WP!FlushLsns
  BY DEF W!FlushLsns, WP!FlushLsns
<1>10. ASSUME NEW t, NEW l
       PROVE  W!FlushStart(t, l) <=> WP!FlushStart(t, l)
  BY <1>2, <1>9 DEF W!FlushStart, WP!FlushStart, W!WalUnchanged, WP!WalUnchanged,
     W!RestUnchanged, WP!RestUnchanged
<1>11. ASSUME NEW t
       PROVE  W!FlushStep(t) <=> WP!FlushStep(t)
  <2> USE DEF W!WalUnchanged, WP!WalUnchanged, W!RestUnchanged, WP!RestUnchanged,
              W!Goto, WP!Goto
  <2>1. /\ W!ManifestOpen(t) <=> WP!ManifestOpen(t)
        /\ W!ManifestWrite(t) <=> WP!ManifestWrite(t)
        /\ W!SstableWrite(t) <=> WP!SstableWrite(t)
        /\ W!TruncDone(t) <=> WP!TruncDone(t)
    BY <1>2 DEF W!ManifestOpen, WP!ManifestOpen, W!ManifestWrite, WP!ManifestWrite,
       W!SstableWrite, WP!SstableWrite, W!TruncDone, WP!TruncDone
  <2>2. /\ W!TruncSegno(t) <=> WP!TruncSegno(t)
        /\ W!TruncCheckpoint(t) <=> WP!TruncCheckpoint(t)
        /\ W!TruncList(t) <=> WP!TruncList(t)
    BY <1>1 DEF W!TruncSegno, WP!TruncSegno, W!TruncCheckpoint, WP!TruncCheckpoint,
       W!TruncList, WP!TruncList
  <2>3. ASSUME NEW g
        PROVE  /\ W!TruncKeep(t, g) <=> WP!TruncKeep(t, g)
               /\ W!TruncInspect(t, g) <=> WP!TruncInspect(t, g)
               /\ W!TruncRemove(t, g) <=> WP!TruncRemove(t, g)
    BY <1>1, <1>3, <1>4 DEF W!TruncKeep, WP!TruncKeep, W!TruncInspect, WP!TruncInspect,
       W!TruncRemove, WP!TruncRemove
  <2> QED
    BY <2>1, <2>2, <2>3 DEF W!FlushStep, WP!FlushStep
<1>12. W!Crash <=> WP!Crash
  BY <1>2 DEF W!Crash, WP!Crash
<1>13. ASSUME NEW cut
       PROVE  W!PowerLoss(cut) <=> WP!PowerLoss(cut)
  BY <1>1, <1>2 DEF W!PowerLoss, WP!PowerLoss
<1> QED
  BY <1>1, <1>5, <1>6, <1>7, <1>8, <1>9, <1>10, <1>11, <1>12, <1>13, <1>14
  DEF W!Next, WP!Next

(* The invariant of the log, restated for W.                                  *)
LEMMA LogInit == W!Init => W!TypeOK /\ W!WalInv
BY SameLog, LogAssumptions, WP!WalInitInv

LEMMA LogNext == W!TypeOK /\ W!WalInv /\ [W!Next]_(W!vars) => W!TypeOK' /\ W!WalInv'
<1>1. [W!Next]_(W!vars) => [WP!Next]_(WP!vars)
  BY SameLog DEF W!vars, WP!vars
<1>2. WP!TypeOK /\ WP!WalInv /\ [WP!Next]_(WP!vars) => WP!TypeOK' /\ WP!WalInv'
  BY LogAssumptions, WP!WalNextInv
<1>3. (W!TypeOK /\ W!WalInv <=> WP!TypeOK /\ WP!WalInv)'
  BY SameLog, PTL
<1> QED
  BY <1>1, <1>2, <1>3, SameLog

-----------------------------------------------------------------------------
(* The inductive invariant of the storage path *)

Sst == [table : Seq(Entry), step : {"open", "write", "rename"}, ino : Nat]
ReplayState == [ckpt : Nat, todo : SUBSET Nat, recs : Seq(W!Record), pos : Nat]

\* TypeOK with the types of what it leaves open.
Typed ==
    /\ main \in {"down", "replay", "serve", "apply", "dead"}
    /\ cur \in Ops \cup {NoOp}
    /\ mem \in Seq(Entry) /\ Len(mem) <= Capacity
    /\ sst \in [Flushers -> Sst]
    /\ body \in Seq(Seq(Entry))
    /\ \A t \in Flushers : sst[t].ino <= Len(body)
    /\ \A x \in DOMAIN tmp : tmp[x] \in 1..Len(body)
    /\ \A x \in DOMAIN seg : seg[x] \in 1..Len(body)
    /\ IsFiniteSet(DOMAIN tmp) /\ IsFiniteSet(DOMAIN seg)
    /\ offsets \in [Streams -> Nat]
    /\ rp \in ReplayState

\* The event loop and the log: when the process is up, what is being applied
\* is the record written last, and nothing has been appended during a replay.
InStep ==
    /\ up <=> main \in {"replay", "serve", "apply"}
    /\ ~up => mem = << >>
    /\ main = "replay" => fresh
    /\ main = "apply" => cur \in Ops /\ cur[1] = records /\ ~fresh

\* The LSNs of the memtable: wal->lsn when each entry was put in.
MemLsns ==
    \A i \in 1..Len(mem) : mem[i].lsn <= IF main = "apply" THEN lsn - 1 ELSE lsn

\* The records of the log carry the numbers of their appends in the order of
\* segments and positions, none beyond the last append.
Id(r) == r.op[1]
LogInOrder ==
    /\ \A g \in DOMAIN segs : \A i, j \in 1..Len(segs[g]) :
         i < j => Id(segs[g][i]) < Id(segs[g][j])
    /\ \A g, h \in DOMAIN segs : g < h =>
         \A i \in 1..Len(segs[g]), j \in 1..Len(segs[h]) : Id(segs[g][i]) < Id(segs[h][j])
    /\ \A g \in DOMAIN segs : \A i \in 1..Len(segs[g]) : Id(segs[g][i]) <= records

\* The numbers of the blocks in memory, against those of the appends.
MemoryIds == {e.id : e \in MemoryEntries}
MemoryBelow ==
    \A n \in MemoryIds : n <= records /\ (main = "apply" => n < records)

\* A replay is in the middle of the log: what is in memory comes before what it
\* still has of the segment it reads, and that before the segments to come.
ReplayInOrder ==
    main = "replay" =>
        /\ \A i, j \in 1..Len(rp.recs) : i < j => Id(rp.recs[i]) < Id(rp.recs[j])
        /\ \A i \in 1..Len(rp.recs) :
             /\ Id(rp.recs[i]) <= records
             /\ \A n \in MemoryIds : n < Id(rp.recs[i])
        /\ \A g \in rp.todo \cap DOMAIN segs : \A j \in 1..Len(segs[g]) :
             /\ \A i \in 1..Len(rp.recs) : Id(rp.recs[i]) < Id(segs[g][j])
             /\ \A n \in MemoryIds : n < Id(segs[g][j])

StorageInv ==
    /\ W!TypeOK /\ W!WalInv
    /\ Typed /\ InStep /\ MemLsns
    /\ LogInOrder /\ MemoryInLogOrder /\ MemoryBelow /\ ReplayInOrder

\* The files, while no two tables start in the same millisecond: the temporary
\* file of a thread's time is its own until the rename, and complete once
\* written.
FilesInv ==
    /\ FilesWhole
    /\ \A x \in DOMAIN tmp, y \in DOMAIN seg : tmp[x] # seg[y]
    /\ \A x, y \in DOMAIN tmp : tmp[x] = tmp[y] => x = y
    /\ \A t \in Unwritten :
         /\ Len(sst[t].table) = Capacity
         /\ sst[t].step # "open" =>
              /\ fl[t].pc = "sstable"
              /\ FileTime(t) \in DOMAIN tmp /\ tmp[FileTime(t)] = sst[t].ino
         /\ sst[t].step = "rename" => body[sst[t].ino] = sst[t].table

-----------------------------------------------------------------------------
(* The fsync of an append changes nothing but what is synced.                 *)
LEMMA SyncKeeps ==
    ASSUME AppendSync
    PROVE  /\ main = "apply"
           /\ UNCHANGED <<segs, fd, linked, lsn, size, pend, manifest, fl, up, fresh, records,
                          crashes, losses, old, stray>>
           /\ UNCHANGED <<main, cur, mem, sst, tmp, seg, body, offsets, rp, acked>>
BY DEF AppendSync, W!Fsync, disk

(* Every step of the storage path is a step of the log, or leaves it alone.   *)
LEMMA LogStep ==
    ASSUME W!TypeOK, [Next]_vars
    PROVE  [W!Next]_(W!vars)
<1>2. ASSUME NEW kind \in Kinds, records < MaxRecords
      PROVE  <<records + 1, kind>> \in Ops
  BY <1>2, LogAssumption DEF W!TypeOK, Ops
<1>3. ASSUME NEW kind \in Kinds, AppendRotate(kind) PROVE W!Next
  <2>1. records < MaxRecords /\ W!Rotate(<<records + 1, kind>>)
    BY <1>3 DEF AppendRotate, W!Rotate
  <2> QED
    BY <1>2, <2>1 DEF W!Next
<1>4. ASSUME NEW kind \in Kinds, AppendLog(kind) PROVE W!Next
  <2>1. records < MaxRecords /\ W!Write(<<records + 1, kind>>)
    BY <1>4 DEF AppendLog
  <2> QED
    BY <1>2, <2>1 DEF W!Next
<1>11. ASSUME AppendSync PROVE W!Next
  BY <1>11 DEF AppendSync, W!Next
<1>5. ASSUME NEW e, MemtableAppend(e) PROVE W!Next \/ UNCHANGED wal
  <2>1. CASE \E t \in Flushers : MemtableFlush(t)
    <3>1. PICK t \in Flushers : W!FlushStart(t, Last(mem).lsn)
      BY <2>1 DEF MemtableFlush
    <3>2. Last(mem).lsn \in W!FlushLsns
      BY <3>1 DEF W!FlushStart
    <3> QED
      BY <3>1, <3>2 DEF W!Next
  <2> QED
    BY <1>5, <2>1 DEF MemtableAppend
<1>6. ASSUME NEW t \in Flushers, FlushStep(t) PROVE W!Next \/ UNCHANGED wal
  <2>1. W!FlushStep(t) \/ UNCHANGED wal
    BY <1>6 DEF FlushStep, FlushLog, SstableOpen, SstableWrite, SstableRename, FlushEnd,
       W!FlushStep
  <2> QED
    BY <2>1 DEF W!Next
<1>7. ASSUME Crash \/ Start PROVE W!Next
  BY <1>7 DEF Crash, Start, W!Next
<1>8. ASSUME StartFails \/ (\E g \in rp.todo : ReplayOpen(g)) \/ ReplaySkip \/ ReplayDone
      PROVE  UNCHANGED wal
  BY <1>8 DEF StartFails, ReplayOpen, ReplaySkip, ReplayDone
<1>9. ASSUME AppendApply \/ ReplayApply PROVE W!Next \/ UNCHANGED wal
  BY <1>5, <1>9 DEF AppendApply, ReplayApply
<1>10. CASE UNCHANGED vars
  BY <1>10 DEF vars, wal, W!vars
<1> QED
  BY <1>3, <1>4, <1>6, <1>7, <1>8, <1>9, <1>10, <1>11
  DEF Next, Replay, wal, W!vars

(* What the steps of a flush thread leave of the log: the segments that stay  *)
(* keep their records, and the other threads their state.                     *)
LEMMA FlushKeeps ==
    ASSUME W!TypeOK, NEW t \in Flushers,
           FlushLog(t) \/ W!SstableWrite(t) \/ W!TruncDone(t)
    PROVE  /\ UNCHANGED <<lsn, up, fresh, records>>
           /\ DOMAIN segs' \subseteq DOMAIN segs
           /\ \A g \in DOMAIN segs' : segs'[g] = segs[g]
           /\ \A u \in Flushers : u # t => fl'[u] = fl[u]
           /\ t \in Unwritten' => t \in Unwritten
           /\ t \in Unwritten => t \in Unwritten' \/ W!SstableWrite(t)
<1>1. fl \in [Flushers -> W!Flush]
  BY DEF W!TypeOK
<1> USE DEF W!WalUnchanged, W!RestUnchanged, W!Goto, Unwritten
<1>2. CASE W!ManifestOpen(t) \/ W!ManifestWrite(t)
  BY <1>1, <1>2 DEF W!ManifestOpen, W!ManifestWrite, W!Flush
<1>3. CASE W!TruncSegno(t) \/ W!TruncCheckpoint(t) \/ W!TruncList(t)
  BY <1>1, <1>3 DEF W!TruncSegno, W!TruncCheckpoint, W!TruncList, W!Flush
<1>4. ASSUME NEW g \in fl[t].todo, W!TruncKeep(t, g) \/ W!TruncInspect(t, g)
      PROVE  /\ UNCHANGED <<segs, lsn, up, fresh, records>>
             /\ \A u \in Flushers : u # t => fl'[u] = fl[u]
             /\ t \notin Unwritten /\ t \notin Unwritten'
  BY <1>1, <1>4 DEF W!TruncKeep, W!TruncInspect, W!Flush
<1>5. ASSUME NEW g \in fl[t].todo, W!TruncRemove(t, g)
      PROVE  /\ UNCHANGED <<lsn, up, fresh, records>>
             /\ segs' = [h \in DOMAIN segs \ {g} |-> segs[h]]
             /\ \A u \in Flushers : u # t => fl'[u] = fl[u]
             /\ t \notin Unwritten /\ t \notin Unwritten'
  BY <1>1, <1>5 DEF W!TruncRemove, W!Flush, W!Dir
<1>6. CASE W!SstableWrite(t)
  BY <1>1, <1>6 DEF W!SstableWrite, W!Flush, FlushLog
<1>7. CASE W!TruncDone(t)
  BY <1>1, <1>7 DEF W!TruncDone, W!IdleFlush, W!Flush
<1> QED
  BY <1>2, <1>3, <1>4, <1>5, <1>6, <1>7 DEF FlushLog

-----------------------------------------------------------------------------
(* Types *)

(* racs_offsets_init counts finitely many blocks.                             *)
LEMMA StoredBytesNat ==
    ASSUME Typed, NEW s
    PROVE  StoredBytes(s) \in Nat
<1> DEFINE F == DOMAIN FileBodies
           U == {{f} \X DOMAIN FileBodies[f] : f \in F}
<1>1. F = ({"seg"} \X DOMAIN seg) \cup ({"tmp"} \X DOMAIN tmp)
  <2>1. /\ {<<"seg", x>> : x \in DOMAIN seg} = {"seg"} \X DOMAIN seg
        /\ {<<"tmp", x>> : x \in DOMAIN tmp} = {"tmp"} \X DOMAIN tmp
    OBVIOUS
  <2>2. F = {<<"seg", x>> : x \in DOMAIN seg} \cup {<<"tmp", x>> : x \in DOMAIN tmp}
    BY DEF FileBodies
  <2> QED
    BY <2>1, <2>2
<1>2. IsFiniteSet(F)
  <2>1. IsFiniteSet({"seg"} \X DOMAIN seg) /\ IsFiniteSet({"tmp"} \X DOMAIN tmp)
    <3>1. /\ IsFiniteSet({"seg"}) /\ IsFiniteSet({"tmp"})
          /\ IsFiniteSet(DOMAIN seg) /\ IsFiniteSet(DOMAIN tmp)
      BY FS_Singleton, Zenon DEF Typed
    <3> QED
      BY <3>1, FS_Product
  <2>2. IsFiniteSet(({"seg"} \X DOMAIN seg) \cup ({"tmp"} \X DOMAIN tmp))
    BY <2>1, FS_Union
  <2> QED
    BY <1>1, <2>2
<1>3. ASSUME NEW f \in F PROVE IsFiniteSet({f} \X DOMAIN FileBodies[f])
  <2>1. PICK n \in 1..Len(body) : FileBodies[f] = body[n]
    BY <1>1 DEF FileBodies, Typed
  <2>2. body[n] \in Seq(Entry)
    BY <2>1 DEF Typed
  <2>3. DOMAIN FileBodies[f] = 1..Len(body[n]) /\ Len(body[n]) \in Nat
    BY <2>1, <2>2
  <2>4. IsFiniteSet(1..Len(body[n]))
    BY <2>3, FS_Interval
  <2> QED
    BY <2>3, <2>4, FS_Singleton, FS_Product
<1>4. IsFiniteSet(U)
  <2> DEFINE m == [f \in F |-> {f} \X DOMAIN FileBodies[f]]
  <2>1. m \in Surjection(F, U)
    BY DEF Surjection
  <2> HIDE DEF m, F, U
  <2> QED
    BY <1>2, <2>1, FS_Surjection
<1>5. IsFiniteSet(UNION U)
  <2>1. \A T \in U : IsFiniteSet(T)
    BY <1>3
  <2> HIDE DEF U
  <2> QED
    BY <1>4, <2>1, FS_UNION
<1>6. StoredBlocks(s) \in SUBSET (UNION U)
  BY DEF StoredBlocks
<1>7. Cardinality(StoredBlocks(s)) \in Nat
  <2> HIDE DEF U
  <2> QED
    BY <1>5, <1>6, FS_Subset, FS_CardinalityType
<1> QED
  BY <1>7, UnitAssumption DEF StoredBytes

(* An entry put into the memtable: the memtable keeps its capacity, and only  *)
(* the thread that takes over a full table gets one.                          *)
LEMMA MemtableAppendKeeps ==
    ASSUME Typed, NEW e \in Entry, MemtableAppend(e)
    PROVE  /\ mem' \in Seq(Entry) /\ Len(mem') <= Capacity
           /\ sst' \in [Flushers -> Sst]
           /\ \A t \in Flushers : sst'[t].ino <= Len(body)
<1>1. mem \in Seq(Entry) /\ Len(mem) \in Nat /\ sst \in [Flushers -> Sst]
  BY DEF Typed
<1>2. CASE MemtableHasRoom /\ mem' = Append(mem, e) /\ sst' = sst
  <2>1. mem' \in Seq(Entry) /\ Len(mem') = Len(mem) + 1
    BY <1>1, <1>2, AppendProperties
  <2> QED
    BY <1>1, <1>2, <2>1, UnitAssumption DEF MemtableHasRoom, Typed
<1>3. ASSUME mem' = <<e>>, NEW t \in Flushers, MemtableFlush(t)
      PROVE  /\ mem' \in Seq(Entry) /\ Len(mem') <= Capacity
             /\ sst' \in [Flushers -> Sst]
             /\ \A u \in Flushers : sst'[u].ino <= Len(body)
  <2>1. mem' \in Seq(Entry) /\ Len(mem') = 1
    BY <1>3
  <2>2. [IdleSst EXCEPT !.table = mem] = [table |-> mem, step |-> "open", ino |-> 0]
    BY DEF IdleSst
  <2>3. [IdleSst EXCEPT !.table = mem] \in Sst
    BY <1>1, <2>2 DEF Sst
  <2>4. sst' = [sst EXCEPT ![t] = [IdleSst EXCEPT !.table = mem]]
    BY <1>3 DEF MemtableFlush
  <2>5. sst' \in [Flushers -> Sst]
    BY <1>1, <2>3, <2>4
  <2>6. \A u \in Flushers : sst'[u].ino <= Len(body)
    BY <1>1, <2>2, <2>4 DEF Typed
  <2> QED
    BY <2>1, <2>5, <2>6, UnitAssumption
<1> QED
  BY <1>2, <1>3 DEF MemtableAppend

(* racs_metadata_timestamp gives a time.                                      *)
LEMMA TimestampNat ==
    ASSUME NEW s \in Streams, NEW n \in Nat
    PROVE  Timestamp(s, n) \in Nat
<1>1. n \div Rate \in Nat
  BY UnitAssumption
<1> QED
  BY <1>1, UnitAssumption DEF Timestamp

(* The entry of an operation, put in at a time.                               *)
LEMMA EntryOfType ==
    ASSUME W!TypeOK, NEW op \in Ops, NEW ts \in Nat
    PROVE  /\ EntryOf(op, ts) \in Entry
           /\ EntryOf(op, ts).id = op[1] /\ EntryOf(op, ts).lsn = lsn
BY DEF EntryOf, Entry, Ops, W!TypeOK

(* An append and a replayed record put an entry into the memtable.            *)
LEMMA ApplyTypes ==
    ASSUME StorageInv, AppendApply \/ ReplayApply
    PROVE  \E e \in Entry :
             /\ MemtableAppend(e) /\ e.lsn = lsn
             /\ AppendApply => e.id = cur[1]
             /\ ReplayApply => e.id = Id(Head(rp.recs))
<1> DEFINE op == IF AppendApply THEN cur ELSE Head(rp.recs).op
           at == IF AppendApply THEN offsets[StreamOf[op[2]]] ELSE (rp.pos + 1) * RecBytes
           e == EntryOf(op, Timestamp(StreamOf[op[2]], at))
<1>1. ~(AppendApply /\ ReplayApply)
  BY DEF AppendApply, ReplayApply
<1>2. MemtableAppend(e)
  <2>1. CASE AppendApply
    BY <2>1 DEF AppendApply
  <2>2. CASE ReplayApply /\ ~AppendApply
    BY <2>2 DEF ReplayApply
  <2> QED
    BY <2>1, <2>2
<1>3. op \in Ops
  <2>1. CASE AppendApply
    BY <2>1 DEF AppendApply, StorageInv, InStep
  <2>2. CASE ReplayApply /\ ~AppendApply
    <3>1. rp.recs \in Seq(W!Record) /\ rp.recs # << >>
      BY <2>2 DEF ReplayApply, StorageInv, Typed, ReplayState
    <3>2. Head(rp.recs) \in W!Record
      BY <3>1
    <3> QED
      BY <2>2, <3>2 DEF W!Record
  <2> QED
    BY <2>1, <2>2
<1>4. StreamOf[op[2]] \in Streams
  BY <1>3, KindAssumption DEF Ops
<1>5. at \in Nat
  <2>1. rp.pos \in Nat /\ offsets \in [Streams -> Nat]
    BY DEF StorageInv, Typed, ReplayState
  <2> QED
    BY <1>4, <2>1, UnitAssumption
<1>6. Timestamp(StreamOf[op[2]], at) \in Nat
  <2> HIDE DEF at, op
  <2> QED
    BY <1>4, <1>5, TimestampNat
<1>7. e \in Entry /\ e.id = op[1] /\ e.lsn = lsn
  <2> HIDE DEF at, op
  <2> QED
    BY <1>3, <1>6, EntryOfType DEF StorageInv
<1>8. /\ AppendApply => op[1] = cur[1]
      /\ ReplayApply => op[1] = Id(Head(rp.recs))
  BY <1>1 DEF Id
<1> HIDE DEF e, op
<1> QED
  BY <1>2, <1>7, <1>8

(* Opening the temporary file and writing it keep the inodes a sequence.      *)
LEMMA SstableTypes ==
    ASSUME Typed, NEW t \in Flushers, SstableOpen(t) \/ SstableWrite(t)
    PROVE  /\ sst' \in [Flushers -> Sst]
           /\ \A u \in Flushers : sst'[u].table = sst[u].table
           /\ body' \in Seq(Seq(Entry)) /\ Len(body') \in Nat /\ Len(body') >= Len(body)
           /\ \A u \in Flushers : sst'[u].ino <= Len(body')
           /\ \A x \in DOMAIN tmp' : tmp'[x] \in 1..Len(body')
           /\ IsFiniteSet(DOMAIN tmp')
<1>1. /\ body \in Seq(Seq(Entry)) /\ Len(body) \in Nat /\ DOMAIN body = 1..Len(body)
      /\ sst \in [Flushers -> Sst] /\ \A u \in Flushers : sst[u].ino <= Len(body)
      /\ \A x \in DOMAIN tmp : tmp[x] \in 1..Len(body)
      /\ IsFiniteSet(DOMAIN tmp)
  BY DEF Typed
<1>2. CASE SstableOpen(t)
  <2> DEFINE ino == IF FileTime(t) \in DOMAIN tmp THEN tmp[FileTime(t)] ELSE Len(body) + 1
  <2>1. /\ tmp' = Extended(tmp, FileTime(t), ino)
        /\ body' = Extended(body, ino, << >>)
        /\ sst' = [sst EXCEPT ![t].step = "write", ![t].ino = ino]
    BY <1>2 DEF SstableOpen
  <2>2. ino \in 1..(Len(body) + 1) /\ ino \in Nat
    BY <1>1
  <2> HIDE DEF ino
  <2>3. PICK n \in Nat : /\ n >= Len(body) /\ n <= Len(body) + 1 /\ ino \in 1..n
                         /\ 1..Len(body) \cup {ino} = 1..n
    <3>1. CASE ino = Len(body) + 1
      <4>1. 1..Len(body) \cup {ino} = 1..(Len(body) + 1)
        BY <1>1, <3>1
      <4> QED
        BY <1>1, <3>1, <4>1
    <3>2. CASE ino \in 1..Len(body)
      <4>1. 1..Len(body) \cup {ino} = 1..Len(body)
        BY <3>2
      <4>2. /\ Len(body) \in Nat /\ Len(body) >= Len(body) /\ Len(body) <= Len(body) + 1
            /\ ino \in 1..Len(body)
        BY <1>1, <3>2
      <4> QED
        BY <4>1, <4>2, Zenon
    <3> QED
      BY <1>1, <2>2, <3>1, <3>2
  <2>4. body' = [m \in 1..n |-> IF m = ino THEN << >> ELSE body[m]]
    BY <1>1, <2>1, <2>3 DEF Extended
  <2>5. body' \in Seq(Seq(Entry)) /\ Len(body') = n
    <3>1. \A m \in 1..n : (IF m = ino THEN << >> ELSE body[m]) \in Seq(Entry)
      BY <1>1, <2>3
    <3> QED
      BY <2>4, <3>1
  <2>6. sst' \in [Flushers -> Sst] /\ \A u \in Flushers : sst'[u].table = sst[u].table
    BY <1>1, <2>1, <2>2 DEF Sst
  <2>7. \A u \in Flushers : sst'[u].ino <= n
    <3>1. \A u \in Flushers : sst'[u].ino = IF u = t THEN ino ELSE sst[u].ino
      BY <1>1, <2>1 DEF Sst
    <3>2. \A u \in Flushers : sst[u].ino \in Nat
      BY <1>1 DEF Sst
    <3> QED
      BY <1>1, <2>3, <3>1, <3>2
  <2>8. /\ DOMAIN tmp' = DOMAIN tmp \cup {FileTime(t)}
        /\ \A x \in DOMAIN tmp' : tmp'[x] = IF x = FileTime(t) THEN ino ELSE tmp[x]
    BY <2>1 DEF Extended
  <2>9. \A x \in DOMAIN tmp' : tmp'[x] \in 1..n
    BY <1>1, <2>3, <2>8
  <2>10. IsFiniteSet(DOMAIN tmp')
    <3>1. IsFiniteSet(DOMAIN tmp \cup {FileTime(t)})
      BY <1>1, FS_AddElement
    <3> QED
      BY <2>8, <3>1
  <2> QED
    BY <2>3, <2>5, <2>6, <2>7, <2>9, <2>10
<1>3. CASE SstableWrite(t)
  <2>1. /\ tmp' = tmp
        /\ body' = [body EXCEPT ![sst[t].ino] = sst[t].table]
        /\ sst' = [sst EXCEPT ![t].step = "rename"]
    BY <1>3 DEF SstableWrite
  <2>2. sst[t].table \in Seq(Entry)
    BY <1>1 DEF Sst
  <2>3. body' = [m \in 1..Len(body) |-> IF m = sst[t].ino THEN sst[t].table ELSE body[m]]
    BY <1>1, <2>1
  <2>4. body' \in Seq(Seq(Entry)) /\ Len(body') = Len(body)
    <3>1. \A m \in 1..Len(body) :
             (IF m = sst[t].ino THEN sst[t].table ELSE body[m]) \in Seq(Entry)
      BY <1>1, <2>2
    <3> QED
      BY <1>1, <2>3, <3>1
  <2>5. /\ sst' \in [Flushers -> Sst]
        /\ \A u \in Flushers : sst'[u].table = sst[u].table /\ sst'[u].ino = sst[u].ino
    BY <1>1, <2>1 DEF Sst
  <2> QED
    BY <1>1, <2>1, <2>4, <2>5
<1> QED
  BY <1>2, <1>3

(* Putting an entry into the memtable leaves the log alone: at most a flush   *)
(* thread starts.                                                             *)
LEMMA MemtableAppendLog ==
    ASSUME NEW e, MemtableAppend(e)
    PROVE  UNCHANGED <<segs, lsn, up, fresh, records>>
BY DEF MemtableAppend, MemtableFlush, W!FlushStart, W!WalUnchanged, W!RestUnchanged, wal

(* Every step keeps the types.                                                *)
LEMMA TypedStep ==
    ASSUME StorageInv, Next, W!TypeOK'
    PROVE  Typed'
<1>1. Typed /\ W!TypeOK
  BY DEF StorageInv
<1>2. IdleSst \in Sst /\ IdleSst.ino = 0 /\ IdleReplay \in ReplayState
  BY DEF IdleSst, Sst, IdleReplay, ReplayState
<1>3. /\ rp \in ReplayState /\ rp.recs \in Seq(W!Record) /\ rp.pos \in Nat
      /\ rp.todo \subseteq Nat /\ rp.ckpt \in Nat
  BY <1>1 DEF Typed, ReplayState
<1>4. ASSUME rp.recs # << >>, ReplayAdvance PROVE rp' \in ReplayState
  <2>1. Tail(rp.recs) \in Seq(W!Record)
    BY <1>3, <1>4
  <2> QED
    <3> DEFINE q == Tail(rp.recs)
               n == rp.pos + 1
    <3>1. q \in Seq(W!Record) /\ n \in Nat
      BY <1>3, <2>1
    <3>2. rp' = [rp EXCEPT !.recs = q, !.pos = n]
      BY <1>4 DEF ReplayAdvance
    <3> HIDE DEF q, n
    <3> QED
      BY <1>3, <3>1, <3>2 DEF ReplayState
<1>20. ASSUME AppendSync PROVE Typed'
  BY <1>1, <1>20, SyncKeeps DEF Typed
<1>5. ASSUME NEW kind \in Kinds, AppendRotate(kind) \/ AppendLog(kind) PROVE Typed'
  <2>1. <<records + 1, kind>> \in Ops
    BY <1>1, <1>5, LogAssumption DEF AppendRotate, AppendLog, W!Rotate, W!TypeOK, Ops
  <2>2. UNCHANGED <<mem, sst, tmp, seg, body, offsets, rp>>
    BY <1>5 DEF AppendRotate, AppendLog, disk
  <2>3. /\ main' \in {"down", "replay", "serve", "apply", "dead"}
        /\ cur' \in Ops \cup {NoOp}
    BY <1>1, <1>5, <2>1 DEF AppendRotate, AppendLog, Typed
  <2> QED
    BY <1>1, <2>2, <2>3 DEF Typed
<1>6. ASSUME AppendApply \/ ReplayApply PROVE Typed'
  <2>1. PICK e \in Entry : MemtableAppend(e)
    BY <1>6, ApplyTypes
  <2>2. /\ mem' \in Seq(Entry) /\ Len(mem') <= Capacity
        /\ sst' \in [Flushers -> Sst]
        /\ \A t \in Flushers : sst'[t].ino <= Len(body)
    BY <1>1, <2>1, MemtableAppendKeeps
  <2>3. UNCHANGED <<tmp, seg, body>>
    BY <1>6 DEF AppendApply, ReplayApply, disk
  <2>4. offsets' \in [Streams -> Nat]
    <3>1. ASSUME NEW op \in Ops,
                 offsets' = [offsets EXCEPT ![StreamOf[op[2]]] = @ + RawOf[op[2]]]
          PROVE  offsets' \in [Streams -> Nat]
      <4> DEFINE s == StreamOf[op[2]]
                 n == offsets[s] + RawOf[op[2]]
      <4>1. s \in Streams /\ RawOf[op[2]] \in Nat
        BY KindAssumption DEF Ops
      <4>2. offsets \in [Streams -> Nat]
        BY <1>1 DEF Typed
      <4>3. n \in Nat
        BY <4>1, <4>2
      <4>4. offsets' = [offsets EXCEPT ![s] = n]
        BY <3>1
      <4> HIDE DEF s, n
      <4> QED
        BY <4>1, <4>2, <4>3, <4>4
    <3>2. CASE AppendApply
      BY <3>1, <3>2 DEF AppendApply, StorageInv, InStep
    <3>3. CASE ReplayApply
      <4>1. rp.recs # << >> /\ Head(rp.recs) \in W!Record
        BY <1>3, <3>3 DEF ReplayApply
      <4> QED
        BY <3>1, <3>3, <4>1 DEF ReplayApply, W!Record
    <3> QED
      BY <1>6, <3>2, <3>3
  <2>5. rp' \in ReplayState
    BY <1>3, <1>4, <1>6 DEF AppendApply, ReplayApply
  <2>6. main' \in {"down", "replay", "serve", "apply", "dead"} /\ cur' \in Ops \cup {NoOp}
    BY <1>1, <1>6 DEF AppendApply, ReplayApply, Typed
  <2> QED
    BY <1>1, <2>2, <2>3, <2>4, <2>5, <2>6 DEF Typed
<1>7. ASSUME NEW t \in Flushers, FlushLog(t) PROVE Typed'
  BY <1>1, <1>7 DEF FlushLog, Typed, disk
<1>8. ASSUME NEW t \in Flushers, SstableOpen(t) \/ SstableWrite(t) PROVE Typed'
  <2>1. UNCHANGED <<main, cur, mem, seg, offsets, rp>>
    BY <1>8 DEF SstableOpen, SstableWrite
  <2>2. /\ sst' \in [Flushers -> Sst]
        /\ body' \in Seq(Seq(Entry)) /\ Len(body') \in Nat /\ Len(body') >= Len(body)
        /\ \A u \in Flushers : sst'[u].ino <= Len(body')
        /\ \A x \in DOMAIN tmp' : tmp'[x] \in 1..Len(body')
        /\ IsFiniteSet(DOMAIN tmp')
    BY <1>1, <1>8, SstableTypes
  <2>3. \A x \in DOMAIN seg : seg[x] \in 1..Len(body')
    <3>1. Len(body) \in Nat
      BY <1>1 DEF Typed
    <3> QED
      BY <1>1, <2>2, <3>1 DEF Typed
  <2> QED
    BY <1>1, <2>1, <2>2, <2>3 DEF Typed
<1>9. ASSUME NEW t \in Flushers, SstableRename(t) PROVE Typed'
  <2>1. UNCHANGED <<main, cur, mem, sst, body, offsets, rp>>
    BY <1>9 DEF SstableRename
  <2>2. CASE FileTime(t) \in DOMAIN tmp
    <3>1. /\ seg' = Extended(seg, FileTime(t), tmp[FileTime(t)])
          /\ tmp' = Without(tmp, FileTime(t))
      BY <1>9, <2>2 DEF SstableRename
    <3>2. /\ DOMAIN seg' = DOMAIN seg \cup {FileTime(t)}
          /\ \A x \in DOMAIN seg' :
               seg'[x] = IF x = FileTime(t) THEN tmp[FileTime(t)] ELSE seg[x]
          /\ DOMAIN tmp' = DOMAIN tmp \ {FileTime(t)}
          /\ \A x \in DOMAIN tmp' : tmp'[x] = tmp[x]
      BY <3>1 DEF Extended, Without
    <3>3. IsFiniteSet(DOMAIN seg \cup {FileTime(t)}) /\ IsFiniteSet(DOMAIN tmp \ {FileTime(t)})
      BY <1>1, FS_AddElement, FS_RemoveElement DEF Typed
    <3>4. IsFiniteSet(DOMAIN seg') /\ IsFiniteSet(DOMAIN tmp')
      BY <3>2, <3>3
    <3>5. /\ \A x \in DOMAIN tmp' : tmp'[x] \in 1..Len(body)
          /\ \A x \in DOMAIN seg' : seg'[x] \in 1..Len(body)
      BY <1>1, <2>2, <3>2 DEF Typed
    <3> QED
      BY <1>1, <2>1, <3>4, <3>5 DEF Typed
  <2>3. CASE FileTime(t) \notin DOMAIN tmp
    BY <1>1, <1>9, <2>1, <2>3 DEF SstableRename, Typed
  <2> QED
    BY <2>2, <2>3
<1>10. ASSUME NEW t \in Flushers, FlushEnd(t) PROVE Typed'
  <2>1. sst' \in [Flushers -> Sst] /\ \A u \in Flushers : sst'[u].ino <= Len(body)
    BY <1>1, <1>2, <1>10 DEF FlushEnd, Typed
  <2> QED
    BY <1>1, <1>10, <2>1 DEF FlushEnd, Typed, disk
<1>11. ASSUME Crash PROVE Typed'
  <2>1. /\ mem' = << >> /\ sst' = [t \in Flushers |-> IdleSst]
        /\ offsets' = [s \in Streams |-> 0] /\ rp' = IdleReplay
        /\ main' = "down" /\ cur' = NoOp /\ UNCHANGED <<tmp, seg, body>>
    BY <1>11 DEF Crash, disk
  <2>2. mem' \in Seq(Entry) /\ Len(mem') <= Capacity
    BY <2>1, UnitAssumption
  <2>3. sst' \in [Flushers -> Sst] /\ \A t \in Flushers : sst'[t].ino <= Len(body)
    BY <1>1, <1>2, <2>1 DEF Typed
  <2>4. offsets' \in [Streams -> Nat]
    BY <2>1
  <2> QED
    BY <1>1, <1>2, <2>1, <2>2, <2>3, <2>4 DEF Typed
<1>12. ASSUME Start PROVE Typed'
  <2>1. /\ offsets' = [s \in Streams |-> StoredBytes(s)] /\ main' = "replay"
        /\ rp' = [IdleReplay EXCEPT !.ckpt = manifest, !.todo = DOMAIN segs']
        /\ UNCHANGED <<cur, mem, sst, tmp, seg, body>>
    BY <1>12 DEF Start, disk
  <2>2. offsets' \in [Streams -> Nat]
    BY <1>1, <2>1, StoredBytesNat
  <2>3. manifest \in Nat /\ DOMAIN segs' \subseteq Nat
    BY <1>1 DEF W!TypeOK, W!Dir
  <2>4. rp' \in ReplayState
    BY <1>2, <2>1, <2>3 DEF ReplayState
  <2> QED
    BY <1>1, <2>1, <2>2, <2>4 DEF Typed
<1>13. ASSUME StartFails PROVE Typed'
  BY <1>1, <1>13 DEF StartFails, Typed, disk
<1>14. ASSUME (\E g \in rp.todo : ReplayOpen(g)) \/ ReplaySkip \/ ReplayDone PROVE Typed'
  <2>1. UNCHANGED <<cur, mem, sst, tmp, seg, body, offsets>>
    BY <1>14 DEF ReplayOpen, ReplaySkip, ReplayDone, disk
  <2>2. main' \in {"down", "replay", "serve", "apply", "dead"}
    BY <1>1, <1>14 DEF ReplayOpen, ReplaySkip, ReplayDone, Typed
  <2>3. ASSUME NEW g \in rp.todo, ReplayOpen(g) PROVE rp' \in ReplayState
    <3>1. (IF g \in DOMAIN segs THEN segs[g] ELSE << >>) \in Seq(W!Record)
      BY <1>1 DEF W!TypeOK, W!Dir
    <3> QED
      BY <1>3, <2>3, <3>1 DEF ReplayOpen, ReplayState
  <2>4. rp' \in ReplayState
    BY <1>2, <1>4, <1>14, <2>3 DEF ReplaySkip, ReplayDone
  <2> QED
    BY <1>1, <2>1, <2>2, <2>4 DEF Typed
<1> QED
  BY <1>5, <1>6, <1>7, <1>8, <1>9, <1>10, <1>11, <1>12, <1>13, <1>14, <1>20
  DEF Next, FlushStep, Replay

-----------------------------------------------------------------------------
(* The event loop *)

(* Every step keeps the event loop and the log in step.                       *)
LEMMA InStepStep ==
    ASSUME StorageInv, Next
    PROVE  InStep'
<1>1. Typed /\ InStep /\ W!TypeOK
  BY DEF StorageInv
<1>2. up \in BOOLEAN /\ fresh \in BOOLEAN /\ records \in Nat
  BY <1>1 DEF W!TypeOK
<1>3. ASSUME NEW kind \in Kinds, AppendRotate(kind) PROVE InStep'
  BY <1>1, <1>3 DEF AppendRotate, W!Rotate, InStep
<1>4. ASSUME NEW kind \in Kinds, AppendLog(kind) PROVE InStep'
  <2>1. /\ cur' = <<records + 1, kind>> /\ records' = records + 1 /\ fresh' = FALSE
        /\ up' = up /\ up /\ main' = "apply" /\ records < MaxRecords
    BY <1>4 DEF AppendLog, W!Write
  <2>2. cur' \in Ops /\ cur'[1] = records'
    BY <1>2, <2>1, LogAssumption DEF Ops
  <2> QED
    BY <2>1, <2>2 DEF InStep
<1>20. ASSUME AppendSync PROVE InStep'
  BY <1>1, <1>20, SyncKeeps DEF InStep
<1>5. ASSUME AppendApply \/ ReplayApply PROVE InStep'
  <2>1. UNCHANGED <<up, fresh, records>>
    BY <1>5, ApplyTypes, MemtableAppendLog
  <2> QED
    BY <1>1, <1>5, <2>1 DEF AppendApply, ReplayApply, InStep
<1>6. ASSUME NEW t \in Flushers, FlushLog(t) PROVE InStep'
  <2>1. UNCHANGED <<up, fresh, records>>
    BY <1>1, <1>6, FlushKeeps
  <2> QED
    BY <1>1, <1>6, <2>1 DEF FlushLog, InStep
<1>7. ASSUME NEW t \in Flushers, SstableRename(t) \/ FlushEnd(t) PROVE InStep'
  <2>1. UNCHANGED <<up, fresh, records>>
    BY <1>1, <1>7, FlushKeeps DEF SstableRename, FlushEnd
  <2> QED
    BY <1>1, <1>7, <2>1 DEF SstableRename, FlushEnd, InStep
<1>8. ASSUME NEW t \in Flushers, SstableOpen(t) \/ SstableWrite(t) PROVE InStep'
  BY <1>1, <1>8 DEF SstableOpen, SstableWrite, InStep, wal
<1>9. ASSUME Crash \/ Start PROVE InStep'
  BY <1>1, <1>9 DEF Crash, Start, W!Crash, W!Create, InStep
<1>10. ASSUME StartFails \/ (\E g \in rp.todo : ReplayOpen(g)) \/ ReplaySkip \/ ReplayDone
       PROVE  InStep'
  <2>1. UNCHANGED <<up, fresh, records, mem, cur>>
    BY <1>10 DEF StartFails, ReplayOpen, ReplaySkip, ReplayDone, wal
  <2>2. \/ main' = main
        \/ main = "down" /\ main' = "dead"
        \/ main = "replay" /\ main' = "serve"
    BY <1>10 DEF StartFails, ReplayOpen, ReplaySkip, ReplayDone
  <2> QED
    BY <1>1, <2>1, <2>2 DEF InStep
<1> QED
  BY <1>3, <1>4, <1>5, <1>6, <1>7, <1>8, <1>9, <1>10, <1>20 DEF Next, FlushStep, Replay

(* Every step keeps the LSNs of the memtable at or below wal->lsn, and below  *)
(* it between the append to the log and the one to the memtable.              *)
LEMMA MemLsnsStep ==
    ASSUME StorageInv, Next
    PROVE  MemLsns'
<1>1. Typed /\ InStep /\ W!TypeOK /\ MemLsns
  BY DEF StorageInv
<1>2. /\ lsn \in Nat /\ mem \in Seq(Entry) /\ Len(mem) \in Nat
      /\ \A i \in 1..Len(mem) : mem[i].lsn \in Nat /\ mem[i].lsn <= lsn
  <2>1. lsn \in Nat /\ mem \in Seq(Entry) /\ Len(mem) \in Nat
    BY <1>1 DEF W!TypeOK, Typed
  <2>2. \A i \in 1..Len(mem) : mem[i] \in Entry
    BY <2>1
  <2> QED
    BY <1>1, <2>1, <2>2 DEF MemLsns, Entry
<1>3. ASSUME mem' = mem, lsn' = lsn, main' # "apply" PROVE MemLsns'
  BY <1>2, <1>3 DEF MemLsns
<1>4. ASSUME mem' = mem, lsn' = lsn, main' = main PROVE MemLsns'
  BY <1>1, <1>4 DEF MemLsns
<1>5. ASSUME NEW kind \in Kinds, AppendRotate(kind) PROVE MemLsns'
  BY <1>4, <1>5 DEF AppendRotate, W!Rotate
<1>6. ASSUME NEW kind \in Kinds, AppendLog(kind) PROVE MemLsns'
  <2>1. lsn' = lsn + 1 /\ mem' = mem /\ main' = "apply"
    BY <1>6 DEF AppendLog, W!Write
  <2> QED
    BY <1>2, <2>1 DEF MemLsns
<1>20. ASSUME AppendSync PROVE MemLsns'
  BY <1>4, <1>20, SyncKeeps
<1>7. ASSUME AppendApply \/ ReplayApply PROVE MemLsns'
  <2>1. PICK e \in Entry : MemtableAppend(e) /\ e.lsn = lsn
    BY <1>7, ApplyTypes
  <2>2. lsn' = lsn /\ main' # "apply"
    BY <1>7, <2>1, MemtableAppendLog DEF AppendApply, ReplayApply
  <2>3. mem' = Append(mem, e) \/ mem' = <<e>>
    BY <2>1 DEF MemtableAppend
  <2>4. \A i \in 1..Len(mem') : mem'[i].lsn <= lsn
    <3>1. CASE mem' = Append(mem, e)
      <4>1. Len(mem') = Len(mem) + 1 /\ mem'[Len(mem) + 1] = e
            /\ \A i \in 1..Len(mem) : mem'[i] = mem[i]
        BY <1>2, <3>1, AppendProperties
      <4> QED
        BY <1>2, <2>1, <4>1
    <3>2. CASE mem' = <<e>>
      BY <1>2, <2>1, <3>2
    <3> QED
      BY <2>3, <3>1, <3>2
  <2> QED
    BY <2>2, <2>4 DEF MemLsns
<1>8. ASSUME NEW t \in Flushers, FlushLog(t) PROVE MemLsns'
  BY <1>1, <1>4, <1>8, FlushKeeps DEF FlushLog
<1>9. ASSUME NEW t \in Flushers, SstableRename(t) \/ FlushEnd(t) PROVE MemLsns'
  BY <1>1, <1>4, <1>9, FlushKeeps DEF SstableRename, FlushEnd
<1>10. ASSUME NEW t \in Flushers, SstableOpen(t) \/ SstableWrite(t) PROVE MemLsns'
  BY <1>4, <1>10 DEF SstableOpen, SstableWrite, wal
<1>11. ASSUME Crash \/ Start PROVE MemLsns'
  <2>1. mem' = << >>
    BY <1>1, <1>11 DEF Crash, Start, InStep
  <2> QED
    BY <2>1 DEF MemLsns
<1>12. ASSUME StartFails \/ (\E g \in rp.todo : ReplayOpen(g)) \/ ReplaySkip \/ ReplayDone
       PROVE  MemLsns'
  BY <1>3, <1>12 DEF StartFails, ReplayOpen, ReplaySkip, ReplayDone, wal
<1> QED
  BY <1>5, <1>6, <1>7, <1>8, <1>9, <1>10, <1>11, <1>12, <1>20 DEF Next, FlushStep, Replay

-----------------------------------------------------------------------------
(* The order of the log *)

(* A log of which segments are removed, and none changed, stays in order.     *)
LEMMA LogShrinks ==
    ASSUME LogInOrder, records' = records, DOMAIN segs' \subseteq DOMAIN segs,
           \A g \in DOMAIN segs' : segs'[g] = segs[g]
    PROVE  LogInOrder'
BY DEF LogInOrder

(* A log that gets an empty segment stays in order.                           *)
LEMMA LogCreated ==
    ASSUME LogInOrder, records' = records, NEW f, segs' = W!Created(segs, f, << >>)
    PROVE  LogInOrder'
<1>1. /\ DOMAIN segs' = DOMAIN segs \cup {f}
      /\ \A g \in DOMAIN segs : segs'[g] = segs[g]
      /\ f \notin DOMAIN segs => segs'[f] = << >>
  BY DEF W!Created
<1>2. Len(<< >>) = 0
  OBVIOUS
<1>3. ASSUME NEW g \in DOMAIN segs', NEW i \in 1..Len(segs'[g])
      PROVE  g \in DOMAIN segs /\ segs'[g] = segs[g]
  BY <1>1, <1>2
<1> QED
  BY <1>3 DEF LogInOrder

(* The record of the next append goes behind all others.                      *)
LEMMA LogWritten ==
    ASSUME W!TypeOK, W!WalInv, LogInOrder, NEW op, op[1] = records + 1, W!Write(op)
    PROVE  LogInOrder'
<1>1. records \in Nat /\ records' = records + 1
  BY DEF W!TypeOK, W!Write
<1>2. ASSUME NEW g \in DOMAIN segs
      PROVE  /\ g \in Nat /\ segs[g] \in Seq(W!Record) /\ Len(segs[g]) \in Nat
             /\ \A i \in 1..Len(segs[g]) : Id(segs[g][i]) \in Nat
  <2>1. g \in Nat /\ segs[g] \in Seq(W!Record) /\ Len(segs[g]) \in Nat
    BY DEF W!TypeOK, W!Dir
  <2>2. \A i \in 1..Len(segs[g]) : segs[g][i] \in W!Record
    BY <2>1
  <2>3. \A i \in 1..Len(segs[g]) : Id(segs[g][i]) \in Nat
    BY <2>2, LogAssumption DEF W!Record, Ops, Id
  <2> QED
    BY <2>1, <2>3
<1>3. CASE ~linked
  <2>1. segs' = segs
    BY <1>3 DEF W!Write
  <2>2. ASSUME NEW g \in DOMAIN segs, NEW i \in 1..Len(segs[g])
        PROVE  Id(segs[g][i]) <= records'
    <3>1. Id(segs[g][i]) \in Nat
      BY <1>2
    <3>2. Id(segs[g][i]) <= records
      BY DEF LogInOrder
    <3> QED
      BY <1>1, <3>1, <3>2
  <2> QED
    BY <2>1, <2>2 DEF LogInOrder
<1>4. CASE linked
  <2> DEFINE r == [lsn |-> lsn, op |-> op]
  <2>1. fd \in DOMAIN segs /\ \A g \in DOMAIN segs : g <= fd
    BY <1>4 DEF W!WalInv, W!ActiveIsNewest, W!Write, W!Dir
  <2>2. segs' = [segs EXCEPT ![fd] = Append(segs[fd], r)]
    BY <1>4 DEF W!Write
  <2>3. /\ DOMAIN segs' = DOMAIN segs
        /\ \A g \in DOMAIN segs : g # fd => segs'[g] = segs[g]
        /\ segs'[fd] = Append(segs[fd], r)
    BY <2>1, <2>2
  <2>4. Id(r) = records + 1
    BY DEF Id
  <2> HIDE DEF r
  <2>5. /\ Len(segs'[fd]) = Len(segs[fd]) + 1
        /\ \A i \in 1..Len(segs[fd]) : segs'[fd][i] = segs[fd][i]
        /\ segs'[fd][Len(segs[fd]) + 1] = r
    <3>1. segs[fd] \in Seq(W!Record \cup {r}) /\ r \in W!Record \cup {r}
      BY <1>2, <2>1, SeqMonotonic
    <3> QED
      BY <2>3, <3>1, AppendProperties
  <2>6. ASSUME NEW g \in DOMAIN segs, NEW i \in 1..Len(segs'[g])
        PROVE  \/ i \in 1..Len(segs[g]) /\ segs'[g][i] = segs[g][i]
               \/ g = fd /\ i = Len(segs[fd]) + 1 /\ Id(segs'[g][i]) = records + 1
    BY <1>2, <2>1, <2>3, <2>4, <2>5
  <2>7. ASSUME NEW g \in DOMAIN segs, NEW i \in 1..Len(segs[g])
        PROVE  Id(segs[g][i]) \in Nat /\ Id(segs[g][i]) < records + 1
    <3>1. Id(segs[g][i]) \in Nat
      BY <1>2
    <3>2. Id(segs[g][i]) <= records
      BY DEF LogInOrder
    <3> QED
      BY <1>1, <3>1, <3>2
  <2>8. ASSUME NEW g \in DOMAIN segs', NEW i \in 1..Len(segs'[g]),
               NEW j \in 1..Len(segs'[g]), i < j
        PROVE  Id(segs'[g][i]) < Id(segs'[g][j])
    <3>1. i \in 1..Len(segs[g]) /\ segs'[g][i] = segs[g][i]
      BY <1>2, <2>3, <2>5, <2>6, <2>8
    <3>2. CASE j \in 1..Len(segs[g]) /\ segs'[g][j] = segs[g][j]
      BY <2>3, <2>8, <3>1, <3>2 DEF LogInOrder
    <3>3. CASE Id(segs'[g][j]) = records + 1
      BY <2>3, <2>7, <3>1, <3>3
    <3> QED
      BY <2>3, <2>6, <3>2, <3>3
  <2>9. ASSUME NEW g \in DOMAIN segs', NEW h \in DOMAIN segs', g < h,
               NEW i \in 1..Len(segs'[g]), NEW j \in 1..Len(segs'[h])
        PROVE  Id(segs'[g][i]) < Id(segs'[h][j])
    <3>1. g # fd
      BY <1>2, <2>1, <2>3, <2>9
    <3>2. i \in 1..Len(segs[g]) /\ segs'[g][i] = segs[g][i]
      BY <2>3, <2>6, <3>1
    <3>3. CASE j \in 1..Len(segs[h]) /\ segs'[h][j] = segs[h][j]
      BY <2>3, <2>9, <3>2, <3>3 DEF LogInOrder
    <3>4. CASE Id(segs'[h][j]) = records + 1
      BY <2>3, <2>7, <3>2, <3>4
    <3> QED
      BY <2>3, <2>6, <3>3, <3>4
  <2>10. ASSUME NEW g \in DOMAIN segs', NEW i \in 1..Len(segs'[g])
         PROVE  Id(segs'[g][i]) <= records'
    BY <1>1, <2>3, <2>6, <2>7
  <2> QED
    BY <2>8, <2>9, <2>10 DEF LogInOrder
<1> QED
  BY <1>3, <1>4

(* Every step keeps the log in the order of the appends.                      *)
LEMMA LogInOrderStep ==
    ASSUME StorageInv, Next
    PROVE  LogInOrder'
<1>1. LogInOrder /\ W!TypeOK /\ W!WalInv
  BY DEF StorageInv
<1>2. ASSUME NEW kind \in Kinds, AppendRotate(kind) PROVE LogInOrder'
  <2>1. records' = records /\ segs' = W!Created(segs, fd', << >>)
    BY <1>2 DEF AppendRotate, W!Rotate
  <2> QED
    BY <1>1, <2>1, LogCreated
<1>3. ASSUME NEW kind \in Kinds, AppendLog(kind) PROVE LogInOrder'
  <2>1. W!Write(<<records + 1, kind>>) /\ <<records + 1, kind>>[1] = records + 1
    BY <1>3 DEF AppendLog
  <2> QED
    BY <1>1, <2>1, LogWritten
<1>20. ASSUME AppendSync PROVE LogInOrder'
  BY <1>1, <1>20, SyncKeeps, LogShrinks
<1>4. ASSUME AppendApply \/ ReplayApply PROVE LogInOrder'
  BY <1>1, <1>4, ApplyTypes, MemtableAppendLog, LogShrinks
<1>5. ASSUME NEW t \in Flushers, FlushLog(t) \/ SstableRename(t) \/ FlushEnd(t)
      PROVE  LogInOrder'
  BY <1>1, <1>5, FlushKeeps, LogShrinks DEF SstableRename, FlushEnd
<1>6. ASSUME NEW t \in Flushers, SstableOpen(t) \/ SstableWrite(t) PROVE LogInOrder'
  BY <1>1, <1>6, LogShrinks DEF SstableOpen, SstableWrite, wal
<1>7. ASSUME Crash PROVE LogInOrder'
  BY <1>1, <1>7, LogShrinks DEF Crash, W!Crash
<1>8. ASSUME Start PROVE LogInOrder'
  <2>1. records' = records /\ segs' = W!Created(segs, fd', << >>)
    BY <1>8 DEF Start, W!Create
  <2> QED
    BY <1>1, <2>1, LogCreated
<1>9. ASSUME StartFails \/ (\E g \in rp.todo : ReplayOpen(g)) \/ ReplaySkip \/ ReplayDone
      PROVE  LogInOrder'
  BY <1>1, <1>9, LogShrinks DEF StartFails, ReplayOpen, ReplaySkip, ReplayDone, wal
<1> QED
  BY <1>2, <1>3, <1>4, <1>5, <1>6, <1>7, <1>8, <1>9, <1>20 DEF Next, FlushStep, Replay

-----------------------------------------------------------------------------
(* The order of what is in memory *)

(* Tables that leave memory, and none that changes, keep the order.           *)
LEMMA MemoryShrinks ==
    ASSUME MemoryInLogOrder, mem' = mem, Unwritten' \subseteq Unwritten,
           \A t \in Unwritten' : sst'[t].table = sst[t].table
    PROVE  MemoryInLogOrder' /\ MemoryIds' \subseteq MemoryIds
<1>1. MemoryInLogOrder'
  BY DEF MemoryInLogOrder, Precedes, Increasing
<1>2. MemoryEntries' \subseteq MemoryEntries
  BY DEF MemoryEntries
<1> QED
  BY <1>1, <1>2 DEF MemoryIds

(* An entry with a number above all in memory comes last, whether the         *)
(* memtable has room or goes to a flush thread.                               *)
LEMMA MemoryGrows ==
    ASSUME StorageInv, NEW e \in Entry, MemtableAppend(e), \A n \in MemoryIds : n < e.id
    PROVE  MemoryInLogOrder' /\ MemoryIds' \subseteq MemoryIds \cup {e.id}
<1>1. /\ mem \in Seq(Entry) /\ Len(mem) \in Nat /\ DOMAIN mem = 1..Len(mem)
      /\ sst \in [Flushers -> Sst] /\ fl \in [Flushers -> W!Flush]
      /\ MemoryInLogOrder
  BY DEF StorageInv, Typed, W!TypeOK
<1>2. \A f \in Range(mem) : f \in Entry /\ f.id < e.id
  <2>1. \A f \in Range(mem) : f.id \in MemoryIds
    BY DEF MemoryIds, MemoryEntries
  <2> QED
    BY <1>1, <2>1 DEF Range
<1>3. \A u \in Unwritten : \A f \in Range(sst[u].table) : f.id < e.id
  <2>1. \A u \in Unwritten : \A f \in Range(sst[u].table) : f.id \in MemoryIds
    BY DEF MemoryIds, MemoryEntries
  <2> QED
    BY <2>1
<1>4. CASE MemtableHasRoom /\ mem' = Append(mem, e) /\ UNCHANGED <<wal, sst>>
  <2>1. /\ mem' \in Seq(Entry) /\ Len(mem') = Len(mem) + 1 /\ DOMAIN mem' = 1..(Len(mem) + 1)
        /\ mem'[Len(mem) + 1] = e /\ \A i \in 1..Len(mem) : mem'[i] = mem[i]
    BY <1>1, <1>4, AppendProperties
  <2>2. Range(mem') = Range(mem) \cup {e}
    <3>1. 1..(Len(mem) + 1) = 1..Len(mem) \cup {Len(mem) + 1}
      BY <1>1
    <3> QED
      BY <1>1, <2>1, <3>1 DEF Range
  <2>3. Unwritten' = Unwritten /\ sst' = sst
    BY <1>4 DEF Unwritten, wal
  <2>4. Increasing(mem')
    <3> SUFFICES ASSUME NEW i \in 1..(Len(mem) + 1), NEW j \in 1..(Len(mem) + 1), i < j
                 PROVE  mem'[i].id < mem'[j].id
      BY <2>1 DEF Increasing
    <3>1. i \in 1..Len(mem) /\ mem'[i] = mem[i] /\ mem[i] \in Range(mem)
      BY <1>1, <2>1 DEF Range
    <3>2. CASE j \in 1..Len(mem)
      BY <1>1, <2>1, <3>1, <3>2 DEF MemoryInLogOrder, Increasing
    <3>3. CASE j = Len(mem) + 1
      BY <1>2, <2>1, <3>1, <3>3
    <3> QED
      BY <1>1, <3>2, <3>3
  <2>5. \A u \in Unwritten : Precedes(sst[u].table, mem')
    BY <1>1, <1>3, <2>2 DEF MemoryInLogOrder, Precedes
  <2>6. MemoryInLogOrder'
    BY <1>1, <2>3, <2>4, <2>5 DEF MemoryInLogOrder
  <2>7. MemoryEntries' = MemoryEntries \cup {e}
    BY <2>2, <2>3 DEF MemoryEntries
  <2> QED
    BY <2>6, <2>7 DEF MemoryIds
<1>5. ASSUME mem' = <<e>>, NEW t \in Flushers, MemtableFlush(t)
      PROVE  MemoryInLogOrder' /\ MemoryIds' \subseteq MemoryIds \cup {e.id}
  <2>1. Range(mem') = {e} /\ Increasing(mem')
    BY <1>5 DEF Range, Increasing
  <2>2. /\ t \notin Unwritten
        /\ fl' = [fl EXCEPT ![t] = [W!IdleFlush EXCEPT !.pc = "manifest_open",
                                                        !.max_lsn = Last(mem).lsn]]
    BY <1>5 DEF MemtableFlush, W!FlushStart, Unwritten
  <2>3. Unwritten' = Unwritten \cup {t}
    BY <1>1, <2>2 DEF Unwritten, W!IdleFlush
  <2>4. /\ sst'[t].table = mem
        /\ \A u \in Unwritten : sst'[u].table = sst[u].table
    BY <1>1, <1>5, <2>2 DEF MemtableFlush, IdleSst, Unwritten
  <2>5. /\ \A u \in Unwritten' : Increasing(sst'[u].table) /\ Precedes(sst'[u].table, mem')
    BY <1>1, <1>2, <1>3, <2>1, <2>3, <2>4 DEF MemoryInLogOrder, Precedes
  <2>6. \A u, v \in Unwritten' :
          u # v => \/ Precedes(sst'[u].table, sst'[v].table)
                   \/ Precedes(sst'[v].table, sst'[u].table)
    BY <1>1, <2>3, <2>4 DEF MemoryInLogOrder
  <2>7. MemoryInLogOrder'
    BY <2>1, <2>5, <2>6 DEF MemoryInLogOrder
  <2>8. MemoryEntries' \subseteq MemoryEntries \cup {e}
    BY <2>1, <2>3, <2>4 DEF MemoryEntries
  <2> QED
    BY <2>7, <2>8 DEF MemoryIds
<1> QED
  BY <1>4, <1>5 DEF MemtableAppend

(* Nothing is in memory while the process is down.                            *)
LEMMA MemoryEmptyWhenDown ==
    ASSUME StorageInv, ~up
    PROVE  Unwritten = {} /\ MemoryIds = {} /\ mem = << >>
<1>1. mem = << >> /\ \A t \in Flushers : fl[t] = W!IdleFlush
  BY DEF StorageInv, InStep, W!WalInv, W!QuietWhenDown
<1>2. Unwritten = {}
  BY <1>1 DEF Unwritten, W!IdleFlush
<1>3. MemoryEntries = {}
  BY <1>1, <1>2 DEF MemoryEntries, Range
<1> QED
  BY <1>1, <1>2, <1>3 DEF MemoryIds

(* The numbers in memory are numbers of appends.                              *)
LEMMA MemoryIdsType ==
    ASSUME StorageInv
    PROVE  MemoryIds \subseteq Nat
<1>1. mem \in Seq(Entry) /\ sst \in [Flushers -> Sst]
  BY DEF StorageInv, Typed
<1>2. Range(mem) \subseteq Entry
  BY <1>1 DEF Range
<1>3. ASSUME NEW t \in Flushers PROVE Range(sst[t].table) \subseteq Entry
  <2>1. sst[t].table \in Seq(Entry)
    BY <1>1 DEF Sst
  <2> QED
    BY <2>1 DEF Range
<1>4. MemoryEntries \subseteq Entry
  BY <1>2, <1>3 DEF MemoryEntries, Unwritten
<1> QED
  BY <1>4, LogAssumption DEF MemoryIds, Entry

(* A step of a flush thread keeps the order.                                  *)
LEMMA FlushOrder ==
    ASSUME StorageInv, NEW t \in Flushers, FlushStep(t)
    PROVE  MemoryInLogOrder' /\ MemoryBelow' /\ ReplayInOrder'
<1>1. UNCHANGED <<main, mem, rp>>
  BY DEF FlushStep, FlushLog, SstableOpen, SstableWrite, SstableRename, FlushEnd
<1>2. /\ records' = records /\ DOMAIN segs' \subseteq DOMAIN segs
      /\ \A g \in DOMAIN segs' : segs'[g] = segs[g]
      /\ Unwritten' \subseteq Unwritten
      /\ \A u \in Unwritten' : sst'[u].table = sst[u].table
  <2>1. CASE SstableOpen(t) \/ SstableWrite(t)
    <3>1. \A u \in Flushers : sst'[u].table = sst[u].table
      BY <2>1, SstableTypes DEF StorageInv
    <3>2. UNCHANGED <<segs, fl, records>>
      BY <2>1 DEF SstableOpen, SstableWrite, wal
    <3> QED
      BY <3>1, <3>2 DEF Unwritten
  <2>2. CASE FlushLog(t) \/ SstableRename(t) \/ FlushEnd(t)
    <3>1. FlushLog(t) \/ W!SstableWrite(t) \/ W!TruncDone(t)
      BY <2>2 DEF SstableRename, FlushEnd
    <3>2. /\ records' = records /\ DOMAIN segs' \subseteq DOMAIN segs
          /\ \A g \in DOMAIN segs' : segs'[g] = segs[g]
          /\ \A u \in Flushers : u # t => fl'[u] = fl[u]
          /\ t \in Unwritten' => t \in Unwritten
      BY <3>1, FlushKeeps DEF StorageInv
    <3>3. Unwritten' \subseteq Unwritten
      BY <3>2 DEF Unwritten
    <3>4. \A u \in Unwritten' : sst'[u].table = sst[u].table
      <4>1. CASE sst' = sst
        BY <4>1
      <4>2. CASE FlushEnd(t)
        <5>1. t \notin Unwritten
          BY <4>2 DEF FlushEnd, W!TruncDone, Unwritten
        <5>2. \A u \in Flushers : u # t => sst'[u] = sst[u]
          BY <4>2 DEF FlushEnd, StorageInv, Typed
        <5> QED
          BY <3>3, <5>1, <5>2 DEF Unwritten
      <4> QED
        BY <2>2, <4>1, <4>2 DEF FlushLog, SstableRename
    <3> QED
      BY <3>2, <3>3, <3>4
  <2> QED
    BY <2>1, <2>2 DEF FlushStep
<1>3. MemoryInLogOrder' /\ MemoryIds' \subseteq MemoryIds
  BY <1>1, <1>2, MemoryShrinks DEF StorageInv
<1>4. MemoryBelow'
  BY <1>1, <1>2, <1>3 DEF StorageInv, MemoryBelow
<1>5. ReplayInOrder'
  BY <1>1, <1>2, <1>3 DEF StorageInv, ReplayInOrder
<1> QED
  BY <1>3, <1>4, <1>5

(* Every step keeps memory, and what a replay still has to do, in order.      *)
LEMMA OrderStep ==
    ASSUME StorageInv, Next
    PROVE  MemoryInLogOrder' /\ MemoryBelow' /\ ReplayInOrder'
<1>1. Typed /\ InStep /\ W!TypeOK /\ W!WalInv /\ LogInOrder
      /\ MemoryInLogOrder /\ MemoryBelow /\ ReplayInOrder
  BY DEF StorageInv
<1>2. records \in Nat /\ MemoryIds \subseteq Nat
  BY <1>1, MemoryIdsType DEF W!TypeOK
<1>3. ASSUME mem' = mem, sst' = sst, fl' = fl
      PROVE  MemoryInLogOrder' /\ MemoryIds' \subseteq MemoryIds
  BY <1>1, <1>3, MemoryShrinks DEF Unwritten
<1>4. ASSUME NEW kind \in Kinds, AppendRotate(kind)
      PROVE  MemoryInLogOrder' /\ MemoryBelow' /\ ReplayInOrder'
  <2>1. UNCHANGED <<mem, sst, fl, records, main>> /\ main = "serve"
    BY <1>4 DEF AppendRotate, W!Rotate
  <2> QED
    BY <1>1, <1>3, <2>1 DEF MemoryBelow, ReplayInOrder
<1>5. ASSUME NEW kind \in Kinds, AppendLog(kind)
      PROVE  MemoryInLogOrder' /\ MemoryBelow' /\ ReplayInOrder'
  <2>1. UNCHANGED <<mem, sst, fl>> /\ main' = "apply" /\ records' = records + 1
    BY <1>5 DEF AppendLog, W!Write
  <2>2. MemoryInLogOrder' /\ MemoryIds' \subseteq MemoryIds
    BY <1>3, <2>1
  <2>3. ASSUME NEW n \in MemoryIds PROVE n <= records + 1 /\ n < records + 1
    BY <1>1, <1>2 DEF MemoryBelow
  <2>4. MemoryBelow'
    BY <2>1, <2>2, <2>3 DEF MemoryBelow
  <2> QED
    BY <2>1, <2>2, <2>4 DEF ReplayInOrder
<1>20. ASSUME AppendSync PROVE MemoryInLogOrder' /\ MemoryBelow' /\ ReplayInOrder'
  BY <1>1, <1>3, <1>20, SyncKeeps DEF MemoryBelow, ReplayInOrder
<1>6. ASSUME AppendApply PROVE MemoryInLogOrder' /\ MemoryBelow' /\ ReplayInOrder'
  <2>1. main = "apply" /\ main' = "serve" /\ cur[1] = records
    BY <1>1, <1>6 DEF AppendApply, InStep
  <2>2. PICK e \in Entry : MemtableAppend(e) /\ e.id = records
    BY <1>6, <2>1, ApplyTypes
  <2>3. records' = records
    BY <2>2, MemtableAppendLog
  <2>4. \A n \in MemoryIds : n < e.id
    BY <1>1, <2>1, <2>2 DEF MemoryBelow
  <2>5. MemoryInLogOrder' /\ MemoryIds' \subseteq MemoryIds \cup {e.id}
    BY <2>2, <2>4, MemoryGrows
  <2> QED
    BY <1>1, <1>2, <2>1, <2>2, <2>3, <2>5 DEF MemoryBelow, ReplayInOrder
<1>7. ASSUME ReplayApply PROVE MemoryInLogOrder' /\ MemoryBelow' /\ ReplayInOrder'
  <2> DEFINE q == rp.recs
  <2>1. main = "replay" /\ main' = main /\ q # << >> /\ q \in Seq(W!Record)
    BY <1>1, <1>7 DEF ReplayApply, Typed, ReplayState
  <2>2. PICK e \in Entry : MemtableAppend(e) /\ e.id = Id(q[1])
    BY <1>7, <2>1, ApplyTypes
  <2>3. UNCHANGED <<records, segs>>
    BY <2>2, MemtableAppendLog
  <2>4. rp'.recs = Tail(q) /\ rp'.todo = rp.todo
    BY <1>1, <1>7 DEF ReplayApply, ReplayAdvance, Typed, ReplayState
  <2> HIDE DEF q
  <2>5. /\ 1 \in 1..Len(q) /\ Len(Tail(q)) = Len(q) - 1 /\ Len(q) \in Nat
        /\ \A i \in 1..Len(Tail(q)) : Tail(q)[i] = q[i + 1] /\ i + 1 \in 1..Len(q)
    BY <2>1
  <2>6. /\ \A i, j \in 1..Len(q) : i < j => Id(q[i]) < Id(q[j])
        /\ \A i \in 1..Len(q) : Id(q[i]) <= records /\ \A n \in MemoryIds : n < Id(q[i])
        /\ \A g \in rp.todo \cap DOMAIN segs : \A j \in 1..Len(segs[g]) :
             /\ \A i \in 1..Len(q) : Id(q[i]) < Id(segs[g][j])
             /\ \A n \in MemoryIds : n < Id(segs[g][j])
    BY <1>1, <2>1 DEF ReplayInOrder, q
  <2>7. MemoryInLogOrder' /\ MemoryIds' \subseteq MemoryIds \cup {Id(q[1])}
    BY <2>2, <2>5, <2>6, MemoryGrows
  <2>8. MemoryBelow'
    BY <1>1, <2>1, <2>3, <2>5, <2>6, <2>7 DEF MemoryBelow
  <2>9. \A i \in 1..Len(Tail(q)) : Id(q[1]) < Id(Tail(q)[i])
    BY <2>5, <2>6
  <2>10. ASSUME NEW i \in 1..Len(Tail(q)), NEW j \in 1..Len(Tail(q)), i < j
         PROVE  Id(Tail(q)[i]) < Id(Tail(q)[j])
    <3>1. i + 1 < j + 1 /\ i + 1 \in 1..Len(q) /\ j + 1 \in 1..Len(q)
      BY <2>5, <2>10
    <3> QED
      BY <2>5, <2>6, <3>1
  <2>11. \A i \in 1..Len(Tail(q)) :
            Id(Tail(q)[i]) <= records' /\ \A n \in MemoryIds' : n < Id(Tail(q)[i])
    BY <2>3, <2>5, <2>6, <2>7, <2>9
  <2>12. \A g \in rp.todo \cap DOMAIN segs : \A j \in 1..Len(segs[g]) :
            /\ \A i \in 1..Len(Tail(q)) : Id(Tail(q)[i]) < Id(segs[g][j])
            /\ \A n \in MemoryIds' : n < Id(segs[g][j])
    BY <2>5, <2>6, <2>7
  <2>13. ReplayInOrder'
    BY <2>3, <2>4, <2>10, <2>11, <2>12 DEF ReplayInOrder
  <2> QED
    BY <2>7, <2>8, <2>13
<1>8. ASSUME NEW t \in Flushers, FlushStep(t)
      PROVE  MemoryInLogOrder' /\ MemoryBelow' /\ ReplayInOrder'
  BY <1>8, FlushOrder
<1>9. ASSUME Crash PROVE MemoryInLogOrder' /\ MemoryBelow' /\ ReplayInOrder'
  <2>1. mem' = << >> /\ main' = "down" /\ fl' = [t \in Flushers |-> W!IdleFlush]
    BY <1>9 DEF Crash, W!Crash
  <2>2. Unwritten' = {}
    BY <2>1 DEF Unwritten, W!IdleFlush
  <2>3. MemoryEntries' = {}
    BY <2>1, <2>2 DEF MemoryEntries, Range
  <2>4. MemoryIds' = {}
    BY <2>3 DEF MemoryIds
  <2>5. MemoryInLogOrder'
    BY <2>1, <2>2 DEF MemoryInLogOrder, Increasing
  <2> QED
    BY <2>1, <2>4, <2>5 DEF MemoryBelow, ReplayInOrder
<1>10. ASSUME Start PROVE MemoryInLogOrder' /\ MemoryBelow' /\ ReplayInOrder'
  <2>1. ~up /\ UNCHANGED <<mem, sst, fl>>
    BY <1>10 DEF Start, W!Create
  <2>2. MemoryIds' = {} /\ MemoryInLogOrder'
    BY <1>3, <2>1, MemoryEmptyWhenDown
  <2>3. rp'.recs = << >>
    BY <1>10 DEF Start, IdleReplay
  <2> QED
    BY <2>2, <2>3 DEF MemoryBelow, ReplayInOrder
<1>11. ASSUME StartFails \/ ReplayDone
       PROVE  MemoryInLogOrder' /\ MemoryBelow' /\ ReplayInOrder'
  <2>1. UNCHANGED <<mem, sst, fl, records>> /\ main' \in {"dead", "serve"}
    BY <1>11 DEF StartFails, ReplayDone, wal
  <2> QED
    BY <1>1, <1>3, <2>1 DEF MemoryBelow, ReplayInOrder
<1>12. ASSUME NEW g \in rp.todo, ReplayOpen(g)
       PROVE  MemoryInLogOrder' /\ MemoryBelow' /\ ReplayInOrder'
  <2>1. /\ UNCHANGED <<mem, sst, fl, records, main, segs>> /\ main = "replay"
        /\ \A h \in rp.todo : g <= h
    BY <1>12 DEF ReplayOpen, wal
  <2>2. /\ rp'.todo = rp.todo \ {g}
        /\ rp'.recs = IF g \in DOMAIN segs THEN segs[g] ELSE << >>
    BY <1>1, <1>12 DEF ReplayOpen, Typed, ReplayState
  <2>3. MemoryInLogOrder' /\ MemoryIds' \subseteq MemoryIds
    BY <1>3, <2>1
  <2>4. MemoryBelow'
    BY <1>1, <2>1, <2>3 DEF MemoryBelow
  <2>5. \A h \in rp'.todo : g < h
    <3>1. g \in Nat /\ rp.todo \subseteq Nat
      BY <1>1 DEF Typed, ReplayState
    <3> QED
      BY <2>1, <2>2, <3>1
  <2>6. ReplayInOrder'
    <3>1. CASE g \in DOMAIN segs
      <4>1. rp'.recs = segs[g]
        BY <2>2, <3>1
      <4> QED
        BY <1>1, <2>1, <2>2, <2>3, <2>5, <3>1, <4>1 DEF ReplayInOrder, LogInOrder
    <3>2. CASE g \notin DOMAIN segs
      <4>1. rp'.recs = << >>
        BY <2>2, <3>2
      <4> QED
        BY <1>1, <2>1, <2>2, <2>3, <4>1 DEF ReplayInOrder
    <3> QED
      BY <3>1, <3>2
  <2> QED
    BY <2>3, <2>4, <2>6
<1>13. ASSUME ReplaySkip PROVE MemoryInLogOrder' /\ MemoryBelow' /\ ReplayInOrder'
  <2> DEFINE q == rp.recs
  <2>1. /\ UNCHANGED <<mem, sst, fl, records, main, segs>> /\ main = "replay"
        /\ q # << >> /\ q \in Seq(W!Record)
    BY <1>1, <1>13 DEF ReplaySkip, wal, Typed, ReplayState
  <2>2. rp'.recs = Tail(q) /\ rp'.todo = rp.todo
    BY <1>1, <1>13 DEF ReplaySkip, ReplayAdvance, Typed, ReplayState
  <2>3. MemoryInLogOrder' /\ MemoryIds' \subseteq MemoryIds
    BY <1>3, <2>1
  <2>4. MemoryBelow'
    BY <1>1, <2>1, <2>3 DEF MemoryBelow
  <2>5. /\ \A i, j \in 1..Len(q) : i < j => Id(q[i]) < Id(q[j])
        /\ \A i \in 1..Len(q) : Id(q[i]) <= records /\ \A n \in MemoryIds : n < Id(q[i])
        /\ \A g \in rp.todo \cap DOMAIN segs : \A j \in 1..Len(segs[g]) :
             /\ \A i \in 1..Len(q) : Id(q[i]) < Id(segs[g][j])
             /\ \A n \in MemoryIds : n < Id(segs[g][j])
    BY <1>1, <2>1 DEF ReplayInOrder
  <2> HIDE DEF q
  <2>6. /\ Len(Tail(q)) = Len(q) - 1 /\ Len(q) \in Nat
        /\ \A i \in 1..Len(Tail(q)) : Tail(q)[i] = q[i + 1] /\ i + 1 \in 1..Len(q)
    BY <2>1
  <2>7. ASSUME NEW i \in 1..Len(Tail(q)), NEW j \in 1..Len(Tail(q)), i < j
        PROVE  Id(Tail(q)[i]) < Id(Tail(q)[j])
    <3>1. i + 1 < j + 1 /\ i + 1 \in 1..Len(q) /\ j + 1 \in 1..Len(q)
      BY <2>6, <2>7
    <3> QED
      BY <2>5, <2>6, <3>1
  <2>8. ReplayInOrder'
    BY <2>1, <2>2, <2>3, <2>5, <2>6, <2>7 DEF ReplayInOrder
  <2> QED
    BY <2>3, <2>4, <2>8
<1> QED
  BY <1>4, <1>5, <1>6, <1>7, <1>8, <1>9, <1>10, <1>11, <1>12, <1>13, <1>20
  DEF Next, Replay

-----------------------------------------------------------------------------
(* The inductive invariant holds initially and is kept by every step.         *)
LEMMA StorageInitInv == Init => StorageInv
<1> SUFFICES ASSUME Init PROVE StorageInv
  OBVIOUS
<1>1. W!TypeOK /\ W!WalInv
  BY LogInit DEF Init
<1>2. /\ main = "down" /\ cur = NoOp /\ mem = << >> /\ rp = IdleReplay
      /\ sst = [t \in Flushers |-> IdleSst]
      /\ tmp = << >> /\ seg = << >> /\ body = << >>
      /\ offsets = [s \in Streams |-> 0]
      /\ up = FALSE /\ DOMAIN segs = {}
  BY DEF Init, W!Init
<1>3. Typed
  <2>1. IdleSst \in Sst /\ IdleSst.ino = 0 /\ IdleReplay \in ReplayState
    BY DEF IdleSst, Sst, IdleReplay, ReplayState
  <2>2. DOMAIN tmp = {} /\ DOMAIN seg = {} /\ IsFiniteSet({})
    BY <1>2, FS_EmptySet
  <2> QED
    BY <1>2, <2>1, <2>2, UnitAssumption DEF Typed
<1>4. InStep /\ MemLsns /\ LogInOrder
  BY <1>2 DEF InStep, MemLsns, LogInOrder
<1>5. Unwritten = {}
  BY DEF Init, W!Init, Unwritten, W!IdleFlush
<1>6. MemoryEntries = {}
  BY <1>2, <1>5 DEF MemoryEntries, Range
<1>7. MemoryIds = {} /\ MemoryInLogOrder
  BY <1>2, <1>5, <1>6 DEF MemoryIds, MemoryInLogOrder, Increasing
<1> QED
  BY <1>1, <1>2, <1>3, <1>4, <1>7 DEF StorageInv, MemoryBelow, ReplayInOrder

LEMMA StorageNextInv == StorageInv /\ [Next]_vars => StorageInv'
<1> SUFFICES ASSUME StorageInv, [Next]_vars PROVE StorageInv'
  OBVIOUS
<1>1. W!TypeOK' /\ W!WalInv'
  <2>1. [W!Next]_(W!vars)
    BY LogStep DEF StorageInv
  <2> QED
    BY <2>1, LogNext DEF StorageInv
<1>2. CASE Next
  BY <1>1, <1>2, TypedStep, InStepStep, MemLsnsStep, LogInOrderStep, OrderStep DEF StorageInv
<1>3. CASE UNCHANGED vars
  <2>1. /\ Typed' /\ InStep' /\ MemLsns' /\ LogInOrder'
    BY <1>3 DEF vars, wal, disk, StorageInv, Typed, InStep, MemLsns, LogInOrder
  <2>2. MemoryEntries' = MemoryEntries /\ Unwritten' = Unwritten
    BY <1>3 DEF vars, wal, MemoryEntries, Unwritten
  <2>3. MemoryIds' = MemoryIds
    BY <2>2 DEF MemoryIds
  <2>4. MemoryInLogOrder' /\ MemoryBelow' /\ ReplayInOrder'
    BY <1>3, <2>2, <2>3 DEF vars, wal, StorageInv, MemoryInLogOrder, MemoryBelow, ReplayInOrder,
       Increasing, Precedes
  <2> QED
    BY <1>1, <2>1, <2>4 DEF StorageInv
<1> QED
  BY <1>2, <1>3

-----------------------------------------------------------------------------
(* For all streams, frames, flush threads and bounds, through any number of   *)
(* crashes: the storage path keeps its inductive invariant.                   *)
THEOREM StorageInvariant == Spec => []StorageInv
<1>1. Init => StorageInv
  BY StorageInitInv
<1>2. StorageInv /\ [Next]_vars => StorageInv'
  BY StorageNextInv
<1> QED
  BY <1>1, <1>2, PTL DEF Spec

(* The storage path drives the log only through the log's own steps: what     *)
(* holds of Wal, its theorems included, holds of the log under the memtable,  *)
(* the flush threads and the replay.                                          *)
THEOREM StorageRunsLog == Spec => W!Spec
<1>1. Init => W!Init
  BY DEF Init
<1>2. StorageInv /\ [Next]_vars => [W!Next]_(W!vars)
  BY LogStep DEF StorageInv
<1> QED
  BY <1>1, <1>2, StorageInvariant, PTL DEF Spec, W!Spec

(* The state of the storage path keeps its types: in particular the memtable  *)
(* never exceeds its capacity, and no file name leads to an inode that is not *)
(* there.                                                                     *)
THEOREM StorageTypes == Spec => []TypeOK
<1>1. StorageInv => TypeOK
  <2> SUFFICES ASSUME StorageInv PROVE TypeOK
    OBVIOUS
  <2>1. Typed /\ W!TypeOK
    BY DEF StorageInv
  <2>2. body \in Seq(Seq(Entry)) /\ DOMAIN body = 1..Len(body) /\ Len(body) \in Nat
    BY <2>1 DEF Typed
  <2>3. \A n \in DOMAIN body : body[n] \in Seq(Entry)
    BY <2>2
  <2>4. \A t \in Flushers : /\ sst[t].table \in Seq(Entry)
                            /\ sst[t].step \in {"open", "write", "rename"}
                            /\ sst[t].ino \in 0..Len(body)
    BY <2>1, <2>2 DEF Typed, Sst
  <2> QED
    BY <2>1, <2>2, <2>3, <2>4 DEF TypeOK, Typed
<1> QED
  BY <1>1, StorageInvariant, PTL

(* The LSN that a flush puts into the manifest is one the log has left        *)
(* behind or, during a replay, reached: what Wal assumes of its callers.      *)
THEOREM FlushLsnAlwaysReached == Spec => []FlushLsnReached
<1>1. StorageInv => FlushLsnReached
  <2> SUFFICES ASSUME StorageInv, Len(mem) = Capacity,
                      main = "apply" \/ main = "replay"
               PROVE  Last(mem).lsn \in W!FlushLsns
    BY DEF FlushLsnReached
  <2>1. mem \in Seq(Entry) /\ Len(mem) \in Nat /\ lsn \in Nat
    BY DEF StorageInv, Typed, W!TypeOK
  <2>2. Len(mem) \in 1..Len(mem) /\ mem[Len(mem)] \in Entry
    BY <2>1, UnitAssumption
  <2>3. Last(mem) = mem[Len(mem)]
    BY DEF Last
  <2>4. mem[Len(mem)].lsn \in Nat
    BY <2>2 DEF Entry
  <2>5. CASE main = "apply"
    <3>1. mem[Len(mem)].lsn <= lsn - 1 /\ ~fresh
      BY <2>2, <2>5 DEF StorageInv, MemLsns, InStep
    <3> QED
      BY <2>1, <2>3, <2>4, <3>1 DEF W!FlushLsns
  <2>6. CASE main = "replay"
    <3>1. mem[Len(mem)].lsn <= lsn /\ fresh
      BY <2>2, <2>6 DEF StorageInv, MemLsns, InStep
    <3> QED
      BY <2>1, <2>3, <2>4, <3>1 DEF W!FlushLsns
  <2> QED
    BY <2>5, <2>6
<1> QED
  BY <1>1, StorageInvariant, PTL

(* Blocks come into memory in the order of the log and never twice, through   *)
(* rotations, crashes, replays and the flushes a replay starts itself, with   *)
(* any number of flush threads truncating the log meanwhile.                  *)
THEOREM MemoryAlwaysInLogOrder == Spec => []MemoryInLogOrder
<1>1. StorageInv => MemoryInLogOrder
  BY DEF StorageInv
<1> QED
  BY <1>1, StorageInvariant, PTL

-----------------------------------------------------------------------------
(* The files *)

(* Steps that leave the files, the tables under way and the threads alone, or *)
(* end threads that have renamed their file, keep the invariant of the files. *)
LEMMA FilesQuiet ==
    ASSUME FilesInv, UNCHANGED <<tmp, seg, body>>, Unwritten' \subseteq Unwritten,
           \A u \in Unwritten' :
             sst'[u] = sst[u] /\ (sst[u].step # "open" => fl'[u].pc = fl[u].pc)
    PROVE  FilesInv'
BY DEF FilesInv, FilesWhole, FileTime

(* A table handed to a thread is full, and its file not opened yet.           *)
LEMMA FilesGrow ==
    ASSUME StorageInv, FilesInv, NEW e, MemtableAppend(e), UNCHANGED <<tmp, seg, body>>
    PROVE  FilesInv'
<1>1. /\ sst \in [Flushers -> Sst] /\ fl \in [Flushers -> W!Flush]
      /\ Len(mem) \in Nat /\ Len(mem) <= Capacity
  BY DEF StorageInv, Typed, W!TypeOK
<1>2. CASE UNCHANGED <<wal, sst>>
  <2>1. fl' = fl /\ sst' = sst
    BY <1>2 DEF wal
  <2> QED
    BY <2>1, FilesQuiet DEF Unwritten
<1>3. ASSUME ~MemtableHasRoom, NEW t \in Flushers, MemtableFlush(t) PROVE FilesInv'
  <2>1. /\ t \notin Unwritten
        /\ fl' = [fl EXCEPT ![t] = [W!IdleFlush EXCEPT !.pc = "manifest_open",
                                                        !.max_lsn = Last(mem).lsn]]
    BY <1>3 DEF MemtableFlush, W!FlushStart, Unwritten
  <2>2. Unwritten' = Unwritten \cup {t} /\ \A u \in Unwritten : fl'[u] = fl[u]
    BY <1>1, <2>1 DEF Unwritten, W!IdleFlush
  <2>3. /\ sst'[t].table = mem /\ sst'[t].step = "open"
        /\ \A u \in Unwritten : sst'[u] = sst[u]
    BY <1>1, <1>3, <2>1 DEF MemtableFlush, IdleSst, Unwritten
  <2>4. Len(mem) = Capacity
    BY <1>1, <1>3, UnitAssumption DEF MemtableHasRoom
  <2> QED
    BY <2>2, <2>3, <2>4 DEF FilesInv, FilesWhole, FileTime
<1> QED
  BY <1>2, <1>3 DEF MemtableAppend

(* Opening the temporary file of the table's time (O_TRUNC): it empties a     *)
(* left-over of a crash, never the file of another thread.                    *)
LEMMA FilesOpen ==
    ASSUME StorageInv, FilesInv, DistinctTimes, NEW t \in Flushers, SstableOpen(t)
    PROVE  FilesInv'
<1> DEFINE T == FileTime(t)
           ino == IF T \in DOMAIN tmp THEN tmp[T] ELSE Len(body) + 1
<1>1. /\ body \in Seq(Seq(Entry)) /\ Len(body) \in Nat /\ DOMAIN body = 1..Len(body)
      /\ sst \in [Flushers -> Sst]
      /\ \A x \in DOMAIN tmp : tmp[x] \in 1..Len(body)
      /\ \A x \in DOMAIN seg : seg[x] \in 1..Len(body)
  BY DEF StorageInv, Typed
<1>2. /\ tmp' = Extended(tmp, T, ino)
      /\ body' = Extended(body, ino, << >>)
      /\ sst' = [sst EXCEPT ![t].step = "write", ![t].ino = ino]
      /\ seg' = seg /\ fl' = fl /\ fl[t].pc = "sstable"
  BY DEF SstableOpen, wal
<1>3. /\ \A y \in DOMAIN seg : seg[y] # ino
      /\ \A x \in DOMAIN tmp : x # T => tmp[x] # ino
  BY <1>1 DEF FilesInv
<1>4. /\ DOMAIN tmp' = DOMAIN tmp \cup {T} /\ tmp'[T] = ino
      /\ \A x \in DOMAIN tmp : x # T => tmp'[x] = tmp[x]
      /\ \A m \in 1..Len(body) : m # ino => body'[m] = body[m]
  <2> HIDE DEF ino, T
  <2> QED
    BY <1>1, <1>2 DEF Extended
<1>5. /\ sst'[t].table = sst[t].table /\ sst'[t].step = "write" /\ sst'[t].ino = ino
      /\ \A u \in Flushers : u # t => sst'[u] = sst[u]
  BY <1>1, <1>2 DEF Sst
<1>6. Unwritten' = Unwritten /\ t \in Unwritten
  BY <1>2 DEF Unwritten
<1>7. FileTime(t)' = T /\ \A u \in Unwritten : u # t => FileTime(u)' = FileTime(u) /\ FileTime(u) # T
  BY <1>5, <1>6 DEF FileTime, DistinctTimes, Unwritten
<1> HIDE DEF ino, T
<1>8. FilesWhole'
  BY <1>1, <1>2, <1>3, <1>4 DEF FilesInv, FilesWhole
<1>9. /\ \A x \in DOMAIN tmp', y \in DOMAIN seg : tmp'[x] # seg[y]
      /\ \A x, y \in DOMAIN tmp' : tmp'[x] = tmp'[y] => x = y
  BY <1>3, <1>4 DEF FilesInv
<1>10. ASSUME NEW u \in Unwritten, u # t
       PROVE  /\ Len(sst'[u].table) = Capacity
              /\ sst'[u].step # "open" =>
                   /\ fl'[u].pc = "sstable"
                   /\ FileTime(u)' \in DOMAIN tmp' /\ tmp'[FileTime(u)'] = sst'[u].ino
              /\ sst'[u].step = "rename" => body'[sst'[u].ino] = sst'[u].table
  <2>1. sst'[u] = sst[u] /\ fl'[u] = fl[u] /\ FileTime(u)' = FileTime(u) /\ FileTime(u) # T
    BY <1>2, <1>5, <1>7, <1>10 DEF Unwritten
  <2>2. sst[u].step # "open" =>
          /\ fl[u].pc = "sstable" /\ FileTime(u) \in DOMAIN tmp
          /\ tmp[FileTime(u)] = sst[u].ino
    BY DEF FilesInv
  <2>3. sst[u].step # "open" => sst[u].ino # ino /\ sst[u].ino \in 1..Len(body)
    BY <1>1, <1>3, <2>1, <2>2
  <2>4. Len(sst[u].table) = Capacity /\ (sst[u].step = "rename" => body[sst[u].ino] = sst[u].table)
    BY DEF FilesInv
  <2> QED
    BY <1>4, <2>1, <2>2, <2>3, <2>4
<1>11. /\ Len(sst'[t].table) = Capacity
       /\ FileTime(t)' \in DOMAIN tmp' /\ tmp'[FileTime(t)'] = sst'[t].ino
  BY <1>4, <1>5, <1>6, <1>7 DEF FilesInv
<1> QED
  BY <1>2, <1>5, <1>6, <1>8, <1>9, <1>10, <1>11 DEF FilesInv

(* Writing the table to the thread's own temporary file.                      *)
LEMMA FilesWrite ==
    ASSUME StorageInv, FilesInv, DistinctTimes, NEW t \in Flushers, SstableWrite(t)
    PROVE  FilesInv'
<1> DEFINE T == FileTime(t)
           ino == sst[t].ino
<1>1. /\ body \in Seq(Seq(Entry)) /\ DOMAIN body = 1..Len(body)
      /\ sst \in [Flushers -> Sst]
      /\ \A x \in DOMAIN tmp : tmp[x] \in 1..Len(body)
      /\ \A x \in DOMAIN seg : seg[x] \in 1..Len(body)
  BY DEF StorageInv, Typed
<1>2. /\ body' = [body EXCEPT ![ino] = sst[t].table]
      /\ sst' = [sst EXCEPT ![t].step = "rename"]
      /\ tmp' = tmp /\ seg' = seg /\ fl' = fl
      /\ fl[t].pc = "sstable" /\ sst[t].step = "write"
  BY DEF SstableWrite, wal
<1>3. Unwritten' = Unwritten /\ t \in Unwritten
  BY <1>2 DEF Unwritten
<1>4. T \in DOMAIN tmp /\ tmp[T] = ino
  BY <1>2, <1>3 DEF FilesInv
<1>5. body'[ino] = sst[t].table /\ \A m \in 1..Len(body) : m # ino => body'[m] = body[m]
  BY <1>1, <1>2, <1>4
<1>6. /\ sst'[t].table = sst[t].table /\ sst'[t].step = "rename" /\ sst'[t].ino = ino
      /\ \A u \in Flushers : u # t => sst'[u] = sst[u]
  BY <1>1, <1>2 DEF Sst
<1>7. FileTime(t)' = T /\ \A u \in Unwritten : u # t => FileTime(u)' = FileTime(u) /\ FileTime(u) # T
  BY <1>3, <1>6 DEF FileTime, DistinctTimes, Unwritten
<1> HIDE DEF ino, T
<1>8. FilesWhole'
  BY <1>1, <1>2, <1>4, <1>5 DEF FilesInv, FilesWhole
<1>9. ASSUME NEW u \in Unwritten, u # t
      PROVE  /\ sst'[u] = sst[u] /\ FileTime(u)' = FileTime(u)
             /\ sst[u].step = "rename" => body'[sst[u].ino] = sst[u].table
  <2>1. sst'[u] = sst[u] /\ FileTime(u)' = FileTime(u) /\ FileTime(u) # T
    BY <1>6, <1>7, <1>9 DEF Unwritten
  <2>2. sst[u].step = "rename" =>
          /\ FileTime(u) \in DOMAIN tmp /\ tmp[FileTime(u)] = sst[u].ino
          /\ body[sst[u].ino] = sst[u].table
    BY DEF FilesInv
  <2>3. sst[u].step = "rename" => sst[u].ino # ino /\ sst[u].ino \in 1..Len(body)
    BY <1>1, <1>4, <2>1, <2>2 DEF FilesInv
  <2> QED
    BY <1>5, <2>1, <2>2, <2>3
<1> QED
  BY <1>2, <1>3, <1>4, <1>5, <1>6, <1>7, <1>8, <1>9 DEF FilesInv

(* The rename gives a complete file its name, and takes no temporary file     *)
(* from another thread.                                                       *)
LEMMA FilesRename ==
    ASSUME StorageInv, FilesInv, DistinctTimes, NEW t \in Flushers, SstableRename(t)
    PROVE  /\ FilesInv' /\ FileTime(t) \in DOMAIN tmp
           /\ seg' = Extended(seg, FileTime(t), sst[t].ino) /\ body[sst[t].ino] = sst[t].table
           /\ Unwritten' = Unwritten \ {t} /\ t \in Unwritten
<1> DEFINE T == FileTime(t)
           ino == sst[t].ino
<1>1. sst \in [Flushers -> Sst] /\ fl \in [Flushers -> W!Flush]
  BY DEF StorageInv, Typed, W!TypeOK
<1>2. /\ W!SstableWrite(t) /\ sst[t].step = "rename" /\ fl[t].pc = "sstable"
      /\ UNCHANGED <<sst, body>>
      /\ fl' = [fl EXCEPT ![t].pc = "segno"]
  BY DEF SstableRename, W!SstableWrite, W!Goto
<1>3. t \in Unwritten /\ Unwritten' = Unwritten \ {t} /\ \A u \in Unwritten' : fl'[u] = fl[u]
  BY <1>1, <1>2 DEF Unwritten, W!Flush
<1>4. T \in DOMAIN tmp /\ tmp[T] = ino /\ body[ino] = sst[t].table /\ Len(body[ino]) = Capacity
  BY <1>2, <1>3 DEF FilesInv
<1>5. seg' = Extended(seg, T, ino) /\ tmp' = Without(tmp, T)
  BY <1>4 DEF SstableRename
<1>6. \A u \in Unwritten' : FileTime(u)' = FileTime(u) /\ FileTime(u) # T
  BY <1>2, <1>3 DEF FileTime, DistinctTimes
<1> HIDE DEF T, ino
<1>7. /\ DOMAIN seg' = DOMAIN seg \cup {T} /\ seg'[T] = ino
      /\ \A x \in DOMAIN seg : x # T => seg'[x] = seg[x]
      /\ DOMAIN tmp' = DOMAIN tmp \ {T} /\ \A x \in DOMAIN tmp' : tmp'[x] = tmp[x]
  BY <1>5 DEF Extended, Without
<1>8. FilesWhole'
  BY <1>2, <1>4, <1>7 DEF FilesInv, FilesWhole
<1>9. /\ \A x \in DOMAIN tmp', y \in DOMAIN seg' : tmp'[x] # seg'[y]
      /\ \A x, y \in DOMAIN tmp' : tmp'[x] = tmp'[y] => x = y
  BY <1>4, <1>7 DEF FilesInv
<1>10. FilesInv'
  BY <1>2, <1>3, <1>6, <1>7, <1>8, <1>9 DEF FilesInv
<1> QED
  BY <1>3, <1>4, <1>5, <1>10 DEF T, ino

(* Every step keeps the invariant of the files.                               *)
LEMMA FilesStep ==
    ASSUME StorageInv, FilesInv, DistinctTimes, [Next]_vars
    PROVE  FilesInv'
<1>1. W!TypeOK /\ sst \in [Flushers -> Sst]
  BY DEF StorageInv, Typed
<1>2. ASSUME UNCHANGED <<tmp, seg, body, sst, fl>> PROVE FilesInv'
  BY <1>2, FilesQuiet DEF Unwritten
<1>3. ASSUME NEW kind \in Kinds, AppendRotate(kind) \/ AppendLog(kind) PROVE FilesInv'
  BY <1>2, <1>3 DEF AppendRotate, AppendLog, W!Rotate, W!Write, disk
<1>20. ASSUME AppendSync PROVE FilesInv'
  BY <1>2, <1>20, SyncKeeps
<1>4. ASSUME AppendApply \/ ReplayApply PROVE FilesInv'
  <2>1. UNCHANGED <<tmp, seg, body>>
    BY <1>4 DEF AppendApply, ReplayApply, disk
  <2> QED
    BY <1>4, <2>1, ApplyTypes, FilesGrow
<1>5. ASSUME NEW t \in Flushers, FlushLog(t) PROVE FilesInv'
  <2>1. UNCHANGED <<tmp, seg, body, sst>>
    BY <1>5 DEF FlushLog, disk
  <2>2. /\ \A u \in Flushers : u # t => fl'[u] = fl[u]
        /\ t \in Unwritten' => t \in Unwritten
    BY <1>1, <1>5, FlushKeeps
  <2>3. fl[t].pc # "sstable"
    BY <1>5 DEF FlushLog, W!ManifestOpen, W!ManifestWrite, W!TruncSegno, W!TruncCheckpoint,
       W!TruncList, W!TruncKeep, W!TruncInspect, W!TruncRemove
  <2>4. Unwritten' \subseteq Unwritten
    BY <2>2 DEF Unwritten
  <2>5. \A u \in Unwritten' : sst[u].step # "open" => u # t
    BY <2>3, <2>4 DEF FilesInv
  <2> QED
    BY <2>1, <2>2, <2>4, <2>5, FilesQuiet DEF Unwritten
<1>6. ASSUME NEW t \in Flushers, SstableOpen(t) \/ SstableWrite(t) \/ SstableRename(t)
      PROVE  FilesInv'
  BY <1>6, FilesOpen, FilesWrite, FilesRename
<1>7. ASSUME NEW t \in Flushers, FlushEnd(t) PROVE FilesInv'
  <2>1. UNCHANGED <<tmp, seg, body>> /\ sst' = [sst EXCEPT ![t] = IdleSst]
    BY <1>7 DEF FlushEnd, disk
  <2>2. t \notin Unwritten
    BY <1>7 DEF FlushEnd, W!TruncDone, Unwritten
  <2>3. /\ \A u \in Flushers : u # t => fl'[u] = fl[u]
        /\ t \in Unwritten' => t \in Unwritten
    BY <1>1, <1>7, FlushKeeps DEF FlushEnd
  <2>4. Unwritten' \subseteq Unwritten
    BY <2>3 DEF Unwritten
  <2>5. \A u \in Unwritten' : sst'[u] = sst[u] /\ fl'[u] = fl[u]
    BY <1>1, <2>1, <2>2, <2>3, <2>4 DEF Unwritten
  <2> QED
    BY <2>1, <2>4, <2>5, FilesQuiet
<1>8. ASSUME Crash PROVE FilesInv'
  <2>1. UNCHANGED <<tmp, seg, body>> /\ fl' = [t \in Flushers |-> W!IdleFlush]
    BY <1>8 DEF Crash, W!Crash, disk
  <2>2. Unwritten' = {}
    BY <2>1 DEF Unwritten, W!IdleFlush
  <2> QED
    BY <2>1, <2>2, FilesQuiet
<1>9. ASSUME Start PROVE FilesInv'
  BY <1>2, <1>9 DEF Start, W!Create, disk
<1>10. ASSUME StartFails \/ (\E g \in rp.todo : ReplayOpen(g)) \/ ReplaySkip \/ ReplayDone
       PROVE  FilesInv'
  BY <1>2, <1>10 DEF StartFails, ReplayOpen, ReplaySkip, ReplayDone, disk, wal
<1>11. CASE UNCHANGED vars
  BY <1>2, <1>11 DEF vars, wal, disk
<1> QED
  BY <1>3, <1>4, <1>5, <1>6, <1>7, <1>8, <1>9, <1>10, <1>11, <1>20
  DEF Next, FlushStep, Replay

(* While no two tables being written start in the same millisecond, a name    *)
(* never leads to an empty or partial sstable: whatever the interleaving of   *)
(* the flush threads, and through crashes that leave temporary files behind.  *)
THEOREM FilesAlwaysWhole == Spec /\ []DistinctTimes => []FilesWhole
<1>1. Init => FilesInv
  <2> SUFFICES ASSUME Init PROVE FilesInv
    OBVIOUS
  <2>1. DOMAIN tmp = {} /\ DOMAIN seg = {} /\ Unwritten = {}
    BY DEF Init, W!Init, Unwritten, W!IdleFlush
  <2> QED
    BY <2>1 DEF FilesInv, FilesWhole
<1>2. StorageInv /\ FilesInv /\ DistinctTimes /\ [Next]_vars => FilesInv'
  BY FilesStep
<1>3. FilesInv => FilesWhole
  BY DEF FilesInv
<1> QED
  BY <1>1, <1>2, <1>3, StorageInvariant, PTL DEF Spec

-----------------------------------------------------------------------------
(* The files, whatever the times: until a crash every file, named or not, is  *)
(* complete or about to be written, and every table under way is full.        *)
FillInv ==
    crashes = 0 =>
        /\ \A n \in 1..Len(body) : Len(body[n]) = Capacity \/ Filling(n)
        /\ \A t \in Unwritten : Len(sst[t].table) = Capacity

(* Steps that leave the files alone and keep the threads that are about to    *)
(* write one.                                                                 *)
LEMMA FillQuiet ==
    ASSUME FillInv, body' = body, crashes' = 0 => crashes = 0,
           \A u \in Unwritten' : u \in Unwritten /\ sst'[u] = sst[u],
           \A u \in Flushers : fl[u].pc = "sstable" /\ sst[u].step = "write" =>
               fl'[u].pc = "sstable" /\ sst'[u] = sst[u]
    PROVE  FillInv'
BY DEF FillInv, Filling

(* Every step keeps it.                                                       *)
LEMMA FillStep ==
    ASSUME StorageInv, FillInv, [Next]_vars
    PROVE  FillInv'
<1>1. /\ W!TypeOK /\ Typed /\ sst \in [Flushers -> Sst] /\ fl \in [Flushers -> W!Flush]
      /\ body \in Seq(Seq(Entry)) /\ Len(body) \in Nat /\ DOMAIN body = 1..Len(body)
      /\ Len(mem) \in Nat /\ Len(mem) <= Capacity
  BY DEF StorageInv, Typed, W!TypeOK
<1>2. ASSUME UNCHANGED <<body, sst, fl, crashes>> PROVE FillInv'
  BY <1>2, FillQuiet DEF Unwritten
<1>3. ASSUME NEW kind \in Kinds, AppendRotate(kind) \/ AppendLog(kind) PROVE FillInv'
  BY <1>2, <1>3 DEF AppendRotate, AppendLog, W!Rotate, W!Write, disk
<1>4. ASSUME AppendSync PROVE FillInv'
  BY <1>2, <1>4, SyncKeeps
<1>5. ASSUME NEW e, MemtableAppend(e), UNCHANGED <<tmp, seg, body>> PROVE FillInv'
  <2>1. CASE UNCHANGED <<wal, sst>>
    BY <1>2, <1>5, <2>1 DEF wal
  <2>2. ASSUME ~MemtableHasRoom, NEW t \in Flushers, MemtableFlush(t) PROVE FillInv'
    <3>1. /\ fl[t].pc = "idle" /\ crashes' = crashes
          /\ fl' = [fl EXCEPT ![t] = [W!IdleFlush EXCEPT !.pc = "manifest_open",
                                                          !.max_lsn = Last(mem).lsn]]
          /\ sst' = [sst EXCEPT ![t] = [IdleSst EXCEPT !.table = mem]]
      BY <2>2 DEF MemtableFlush, W!FlushStart, W!RestUnchanged
    <3>2. /\ Unwritten' = Unwritten \cup {t} /\ sst'[t].table = mem
          /\ \A u \in Flushers : u # t => fl'[u] = fl[u] /\ sst'[u] = sst[u]
      BY <1>1, <3>1 DEF Unwritten, W!IdleFlush, IdleSst
    <3>3. Len(mem) = Capacity
      BY <1>1, <2>2, UnitAssumption DEF MemtableHasRoom
    <3>4. ASSUME NEW n \in 1..Len(body), Filling(n) PROVE Filling(n)'
      <4>1. PICK u \in Flushers : fl[u].pc = "sstable" /\ sst[u].step = "write" /\ sst[u].ino = n
        BY <3>4 DEF Filling
      <4>2. u # t
        BY <3>1, <4>1
      <4> QED
        BY <3>2, <4>1, <4>2 DEF Filling
    <3>5. ASSUME NEW u \in Unwritten', crashes = 0 PROVE Len(sst'[u].table) = Capacity
      <4>1. CASE u = t
        BY <3>2, <3>3, <4>1
      <4>2. CASE u # t
        BY <3>2, <3>5, <4>2 DEF FillInv, Unwritten
      <4> QED
        BY <4>1, <4>2
    <3> QED
      BY <1>5, <3>1, <3>4, <3>5 DEF FillInv
  <2> QED
    BY <1>5, <2>1, <2>2 DEF MemtableAppend
<1>6. ASSUME AppendApply \/ ReplayApply PROVE FillInv'
  <2>1. UNCHANGED <<tmp, seg, body>>
    BY <1>6 DEF AppendApply, ReplayApply, disk
  <2> QED
    BY <1>5, <1>6, <2>1, ApplyTypes
<1>7. ASSUME NEW t \in Flushers, FlushLog(t) PROVE FillInv'
  <2>1. UNCHANGED <<body, sst>>
    BY <1>7 DEF FlushLog, disk
  <2>2. /\ \A u \in Flushers : u # t => fl'[u] = fl[u]
        /\ t \in Unwritten' => t \in Unwritten
    BY <1>1, <1>7, FlushKeeps
  <2>3. fl[t].pc # "sstable" /\ crashes' = crashes
    BY <1>7 DEF FlushLog, W!ManifestOpen, W!ManifestWrite, W!TruncSegno, W!TruncCheckpoint,
       W!TruncList, W!TruncKeep, W!TruncInspect, W!TruncRemove, W!RestUnchanged
  <2>4. Unwritten' \subseteq Unwritten
    BY <2>2 DEF Unwritten
  <2>5. \A u \in Flushers : fl[u].pc = "sstable" => fl'[u].pc = "sstable"
    BY <2>2, <2>3
  <2> QED
    BY <2>1, <2>3, <2>4, <2>5, FillQuiet
<1>8. ASSUME NEW t \in Flushers, SstableOpen(t) PROVE FillInv'
  <2> DEFINE ino == IF FileTime(t) \in DOMAIN tmp THEN tmp[FileTime(t)] ELSE Len(body) + 1
  <2>1. /\ body' = Extended(body, ino, << >>)
        /\ sst' = [sst EXCEPT ![t].step = "write", ![t].ino = ino]
        /\ fl' = fl /\ crashes' = crashes /\ fl[t].pc = "sstable" /\ sst[t].step = "open"
    BY <1>8 DEF SstableOpen, wal
  <2>2. ino \in 1..(Len(body) + 1)
    BY <1>1 DEF Typed
  <2> HIDE DEF ino
  <2>3. /\ sst'[t].step = "write" /\ sst'[t].ino = ino /\ sst'[t].table = sst[t].table
        /\ \A u \in Flushers : u # t => sst'[u] = sst[u]
    BY <1>1, <2>1 DEF Sst
  <2>4. \A n \in 1..Len(body') : n # ino => n \in 1..Len(body) /\ body'[n] = body[n]
    <3>1. DOMAIN body' = DOMAIN body \cup {ino} /\ \A n \in DOMAIN body : n # ino => body'[n] = body[n]
      BY <2>1 DEF Extended
    <3>2. body' \in Seq(Seq(Entry))
      BY <1>1, <1>8, SstableTypes
    <3>3. DOMAIN body' = 1..Len(body')
      BY <3>2
    <3> QED
      BY <1>1, <2>2, <3>1, <3>3
  <2>5. ASSUME NEW n, n = ino PROVE Filling(n)'
    BY <2>1, <2>3, <2>5 DEF Filling
  <2>6. ASSUME NEW n, Filling(n) PROVE Filling(n)'
    <3>1. PICK u \in Flushers : fl[u].pc = "sstable" /\ sst[u].step = "write" /\ sst[u].ino = n
      BY <2>6 DEF Filling
    <3>2. u # t
      BY <2>1, <3>1
    <3> QED
      BY <2>1, <2>3, <3>1, <3>2 DEF Filling
  <2>7. Unwritten' = Unwritten /\ \A u \in Unwritten : sst'[u].table = sst[u].table
    BY <2>1, <2>3 DEF Unwritten
  <2>8. ASSUME crashes = 0, NEW n \in 1..Len(body') PROVE Len(body'[n]) = Capacity \/ Filling(n)'
    BY <2>4, <2>5, <2>6, <2>8 DEF FillInv
  <2> QED
    BY <2>1, <2>7, <2>8 DEF FillInv
<1>9. ASSUME NEW t \in Flushers, SstableWrite(t) PROVE FillInv'
  <2>1. /\ body' = [body EXCEPT ![sst[t].ino] = sst[t].table]
        /\ sst' = [sst EXCEPT ![t].step = "rename"]
        /\ fl' = fl /\ crashes' = crashes /\ fl[t].pc = "sstable"
    BY <1>9 DEF SstableWrite, wal
  <2>2. /\ sst'[t].table = sst[t].table
        /\ \A u \in Flushers : u # t => sst'[u] = sst[u]
    BY <1>1, <2>1 DEF Sst
  <2>3. /\ Len(body') = Len(body)
        /\ \A n \in 1..Len(body) : body'[n] = IF n = sst[t].ino THEN sst[t].table ELSE body[n]
    BY <1>1, <2>1
  <2>4. Unwritten' = Unwritten /\ t \in Unwritten
        /\ \A u \in Unwritten : sst'[u].table = sst[u].table
    BY <2>1, <2>2 DEF Unwritten
  <2>5. ASSUME NEW n, n # sst[t].ino, Filling(n) PROVE Filling(n)'
    <3>1. PICK u \in Flushers : fl[u].pc = "sstable" /\ sst[u].step = "write" /\ sst[u].ino = n
      BY <2>5 DEF Filling
    <3>2. u # t
      BY <2>5, <3>1
    <3> QED
      BY <2>1, <2>2, <3>1, <3>2 DEF Filling
  <2>6. ASSUME crashes = 0, NEW n \in 1..Len(body) PROVE Len(body'[n]) = Capacity \/ Filling(n)'
    <3>1. CASE n = sst[t].ino
      BY <2>3, <2>4, <2>6, <3>1 DEF FillInv
    <3>2. CASE n # sst[t].ino
      BY <2>3, <2>5, <2>6, <3>2 DEF FillInv
    <3> QED
      BY <3>1, <3>2
  <2> QED
    BY <2>1, <2>3, <2>4, <2>6 DEF FillInv
<1>10. ASSUME NEW t \in Flushers, SstableRename(t) \/ FlushEnd(t) PROVE FillInv'
  <2>1. /\ body' = body /\ crashes' = crashes
        /\ \A u \in Flushers : u # t => sst'[u] = sst[u]
        /\ ~(fl[t].pc = "sstable" /\ sst[t].step = "write")
    BY <1>1, <1>10 DEF SstableRename, FlushEnd, W!SstableWrite, W!TruncDone, W!RestUnchanged, disk
  <2>2. /\ \A u \in Flushers : u # t => fl'[u] = fl[u]
        /\ t \notin Unwritten'
    BY <1>1, <1>10 DEF SstableRename, FlushEnd, W!SstableWrite, W!TruncDone, W!Goto, Unwritten,
       W!IdleFlush, W!Flush
  <2>3. \A u \in Unwritten' : u \in Unwritten /\ sst'[u] = sst[u]
    BY <2>1, <2>2 DEF Unwritten
  <2> QED
    BY <2>1, <2>2, <2>3, FillQuiet
<1>11. ASSUME Crash PROVE FillInv'
  <2>1. crashes' # 0
    BY <1>1, <1>11 DEF Crash, W!Crash, W!TypeOK
  <2> QED
    BY <2>1 DEF FillInv
<1>12. ASSUME Start PROVE FillInv'
  BY <1>2, <1>12 DEF Start, W!Create, disk
<1>13. ASSUME StartFails \/ (\E g \in rp.todo : ReplayOpen(g)) \/ ReplaySkip \/ ReplayDone
       PROVE  FillInv'
  BY <1>2, <1>13 DEF StartFails, ReplayOpen, ReplaySkip, ReplayDone, disk, wal
<1>14. CASE UNCHANGED vars
  BY <1>2, <1>14 DEF vars, wal, disk
<1> QED
  BY <1>3, <1>4, <1>6, <1>7, <1>8, <1>9, <1>10, <1>11, <1>12, <1>13, <1>14
  DEF Next, FlushStep, Replay

(* Until a crash, whatever the times of the tables and however many threads   *)
(* share a temporary file: a file that can be opened by its name is complete  *)
(* or has a thread that is about to write it.                                 *)
THEOREM NamedFilesAlwaysComplete == Spec => []NamedFilesComplete
<1>1. Init => FillInv
  <2> SUFFICES ASSUME Init PROVE FillInv
    OBVIOUS
  <2>1. body = << >> /\ Unwritten = {}
    BY DEF Init, W!Init, Unwritten, W!IdleFlush
  <2> QED
    BY <2>1 DEF FillInv
<1>2. StorageInv /\ FillInv /\ [Next]_vars => FillInv'
  BY FillStep
<1>3. StorageInv /\ FillInv => NamedFilesComplete
  BY DEF StorageInv, Typed, FillInv, NamedFilesComplete
<1> QED
  BY <1>1, <1>2, <1>3, StorageInvariant, PTL DEF Spec

-----------------------------------------------------------------------------
(* The refinement of BlockStore, in a behaviour without a crash *)

HeldEntries == FileEntries \cup MemoryEntries

\* The blocks held have numbers of appends and times that the offsets of their
\* streams have reached; before the server has served nothing is stored.
HeldBelow ==
    \A e \in HeldEntries :
        /\ e \in Entry /\ e.id <= records /\ (main = "apply" => e.id < records)
        /\ e.ts <= Timestamp(StreamOf[e.kind], offsets[StreamOf[e.kind]])
EmptyBefore ==
    /\ main \in {"down", "replay"} => records = 0 /\ DOMAIN seg = {} /\ DOMAIN tmp = {}
    /\ main # "dead"
HeldInv == HeldBelow /\ EmptyBefore

(* Later bytes of a stream have no earlier time (racs_metadata_timestamp).    *)
LEMMA TimestampMonotone ==
    ASSUME NEW s \in Streams, NEW m \in Nat, NEW n \in Nat, m <= n
    PROVE  Timestamp(s, m) <= Timestamp(s, n)
<1> DEFINE p == m \div Rate
           q == n \div Rate
<1>1. Rate \in Nat /\ Rate > 0 /\ Ref[s] \in Nat
  BY UnitAssumption
<1>2. /\ p \in Nat /\ q \in Nat
      /\ Rate * p <= m /\ n < Rate * (q + 1)
  BY <1>1
<1> HIDE DEF p, q
<1>3. ASSUME q < p PROVE FALSE
  <2>1. PICK d \in Nat : p = (q + 1) + d
    <3>1. p - (q + 1) \in Nat /\ p = (q + 1) + (p - (q + 1))
      BY <1>2, <1>3
    <3> QED
      BY <3>1
  <2>2. Rate * p = Rate * (q + 1) + Rate * d
    BY <1>1, <1>2, <2>1
  <2>3. Rate * d \in Nat /\ Rate * (q + 1) \in Nat /\ Rate * p \in Nat
    BY <1>1, <1>2, <2>1
  <2> QED
    BY <1>2, <2>2, <2>3
<1>4. p <= q
  BY <1>2, <1>3
<1> QED
  BY <1>1, <1>2, <1>4 DEF Timestamp, p, q

(* Before the first append there is nothing in memory and nothing to replay.  *)
LEMMA NothingBeforeServing ==
    ASSUME StorageInv, FilesInv, records = 0
    PROVE  /\ MemoryEntries = {} /\ Unwritten = {}
           /\ main = "replay" => rp.recs = << >>
<1>1. mem \in Seq(Entry) /\ sst \in [Flushers -> Sst] /\ rp \in ReplayState
  BY DEF StorageInv, Typed
<1>2. \A e \in MemoryEntries : e.id <= 0
  BY DEF StorageInv, MemoryBelow, MemoryIds
<1>3. \A t \in Flushers : sst[t].table \in Seq(Entry)
  BY <1>1 DEF Sst
<1>4. \A e \in MemoryEntries : e \in Entry
  BY <1>1, <1>3 DEF MemoryEntries, Unwritten, Range
<1>5. MemoryEntries = {}
  BY <1>2, <1>4, LogAssumption DEF Entry
<1>6. Unwritten = {}
  <2> SUFFICES ASSUME NEW t \in Unwritten PROVE FALSE
    OBVIOUS
  <2>1. Len(sst[t].table) = Capacity /\ sst[t].table \in Seq(Entry)
    BY <1>3 DEF FilesInv, Unwritten
  <2>2. 1 \in DOMAIN sst[t].table
    BY <2>1, UnitAssumption
  <2>3. sst[t].table[1] \in MemoryEntries
    BY <2>2 DEF MemoryEntries, Range
  <2> QED
    BY <1>5, <2>3
<1>7. ASSUME main = "replay" PROVE rp.recs = << >>
  <2>1. rp.recs \in Seq(W!Record)
    BY <1>1 DEF ReplayState
  <2>2. ASSUME rp.recs # << >> PROVE FALSE
    <3>1. 1 \in 1..Len(rp.recs) /\ rp.recs[1] \in W!Record
      BY <2>1, <2>2
    <3>2. Id(rp.recs[1]) <= 0
      BY <1>7, <3>1 DEF StorageInv, ReplayInOrder
    <3> QED
      BY <3>1, <3>2, LogAssumption DEF W!Record, Ops, Id
  <2> QED
    BY <2>2
<1> QED
  BY <1>5, <1>6, <1>7

(* Of the steps of a server that does not crash only an append changes what   *)
(* is held, and it adds the block it answers for.                             *)
LEMMA HeldQuiet ==
    ASSUME UNCHANGED <<mem, sst, fl, seg, body>>
    PROVE  HeldEntries' = HeldEntries
BY DEF HeldEntries, FileEntries, MemoryEntries, Unwritten

(* An entry goes behind the others, or a flush thread takes them over.        *)
LEMMA MemtableLists ==
    ASSUME StorageInv, NEW e \in Entry, MemtableAppend(e)
    PROVE  \/ /\ Range(mem') = Range(mem) \cup {e}
              /\ Unwritten' = Unwritten /\ sst' = sst
           \/ /\ Range(mem') = {e}
              /\ \E t \in Flushers :
                   /\ Unwritten' = Unwritten \cup {t} /\ sst'[t].table = mem
                   /\ \A u \in Unwritten : sst'[u].table = sst[u].table
<1>1. /\ mem \in Seq(Entry) /\ Len(mem) \in Nat /\ DOMAIN mem = 1..Len(mem)
      /\ sst \in [Flushers -> Sst] /\ fl \in [Flushers -> W!Flush]
  BY DEF StorageInv, Typed, W!TypeOK
<1>2. CASE mem' = Append(mem, e) /\ UNCHANGED <<wal, sst>>
  <2>1. /\ DOMAIN mem' = 1..(Len(mem) + 1)
        /\ mem'[Len(mem) + 1] = e /\ \A i \in 1..Len(mem) : mem'[i] = mem[i]
    <3>1. mem' \in Seq(Entry) /\ Len(mem') = Len(mem) + 1
      BY <1>1, <1>2, AppendProperties
    <3> QED
      BY <1>1, <1>2, <3>1, AppendProperties
  <2>2. Range(mem') = Range(mem) \cup {e}
    <3>1. 1..(Len(mem) + 1) = 1..Len(mem) \cup {Len(mem) + 1}
      BY <1>1
    <3> QED
      BY <1>1, <2>1, <3>1 DEF Range
  <2>3. Unwritten' = Unwritten /\ sst' = sst
    BY <1>2 DEF Unwritten, wal
  <2> QED
    BY <2>2, <2>3
<1>3. CASE mem' = <<e>> /\ \E t \in Flushers : MemtableFlush(t)
  <2>1. Range(mem') = {e}
    BY <1>3 DEF Range
  <2>2. PICK t \in Flushers : MemtableFlush(t)
    BY <1>3
  <2>3. /\ t \notin Unwritten
        /\ fl' = [fl EXCEPT ![t] = [W!IdleFlush EXCEPT !.pc = "manifest_open",
                                                        !.max_lsn = Last(mem).lsn]]
    BY <2>2 DEF MemtableFlush, W!FlushStart, Unwritten
  <2>4. Unwritten' = Unwritten \cup {t}
    BY <1>1, <2>3 DEF Unwritten, W!IdleFlush
  <2>5. /\ sst'[t].table = mem
        /\ \A u \in Unwritten : sst'[u].table = sst[u].table
    BY <1>1, <2>2, <2>3 DEF MemtableFlush, IdleSst, Unwritten
  <2> QED
    BY <2>1, <2>4, <2>5
<1> QED
  BY <1>2, <1>3 DEF MemtableAppend

(* A table handed to a flush thread stays held.                               *)
LEMMA HeldGrows ==
    ASSUME StorageInv, NEW e \in Entry, MemtableAppend(e), UNCHANGED <<seg, body>>
    PROVE  /\ MemoryEntries' = MemoryEntries \cup {e}
           /\ HeldEntries' = HeldEntries \cup {e}
<1>1. FileEntries' = FileEntries
  BY DEF FileEntries
<1>2. MemoryEntries' = MemoryEntries \cup {e}
  BY MemtableLists DEF MemoryEntries
<1> QED
  BY <1>1, <1>2 DEF HeldEntries

\* A step that leaves files and memory alone, and the one that takes a table from
\* memory to a file of a new name.
FileKept ==
    /\ seg' = seg /\ \A x \in DOMAIN seg : body'[seg[x]] = body[seg[x]]
    /\ mem' = mem /\ Unwritten' = Unwritten
    /\ \A t \in Unwritten : sst'[t].table = sst[t].table
    /\ MemoryEntries' = MemoryEntries
FileNamed(t) ==
    /\ t \in Unwritten /\ Unwritten' = Unwritten \ {t} /\ UNCHANGED <<mem, sst, body>>
    /\ FileTime(t) \notin DOMAIN seg /\ DOMAIN seg' = DOMAIN seg \cup {FileTime(t)}
    /\ \A x \in DOMAIN seg : seg'[x] = seg[x]
    /\ body[seg'[FileTime(t)]] = sst[t].table

(* The steps of a flush thread leave what is held alone: the file that gets   *)
(* its name holds the table that leaves memory, and replaces none.            *)
LEMMA FlushFiles ==
    ASSUME StorageInv, FilesInv, DistinctNames, NEW t \in Flushers, FlushStep(t)
    PROVE  FileKept \/ FileNamed(t)
<1>1. /\ sst \in [Flushers -> Sst] /\ fl \in [Flushers -> W!Flush] /\ W!TypeOK /\ Typed
      /\ body \in Seq(Seq(Entry)) /\ DOMAIN body = 1..Len(body)
      /\ \A x \in DOMAIN seg : seg[x] \in 1..Len(body)
  BY DEF StorageInv, Typed, W!TypeOK
<1>2. mem' = mem
  BY DEF FlushStep, FlushLog, SstableOpen, SstableWrite, SstableRename, FlushEnd
<1>3. CASE FlushLog(t) \/ FlushEnd(t)
  <2>1. UNCHANGED <<seg, body>>
    BY <1>3 DEF FlushLog, FlushEnd, disk
  <2>2. ~W!SstableWrite(t)
    BY <1>3 DEF FlushLog, FlushEnd, W!SstableWrite, W!ManifestOpen, W!ManifestWrite,
       W!TruncSegno, W!TruncCheckpoint, W!TruncList, W!TruncKeep, W!TruncInspect,
       W!TruncRemove, W!TruncDone
  <2>3. /\ \A u \in Flushers : u # t => fl'[u] = fl[u]
        /\ t \in Unwritten' <=> t \in Unwritten
    BY <1>1, <1>3, <2>2, FlushKeeps DEF FlushEnd
  <2>4. Unwritten' = Unwritten
    BY <2>3 DEF Unwritten
  <2>5. \A u \in Unwritten : sst'[u].table = sst[u].table
    <3>1. CASE FlushLog(t)
      BY <3>1 DEF FlushLog
    <3>2. CASE FlushEnd(t)
      BY <1>1, <3>2 DEF FlushEnd, W!TruncDone, Unwritten
    <3> QED
      BY <1>3, <3>1, <3>2
  <2> QED
    BY <1>2, <2>1, <2>4, <2>5 DEF FileKept, MemoryEntries
<1>4. CASE SstableOpen(t) \/ SstableWrite(t)
  <2>1. seg' = seg /\ Unwritten' = Unwritten /\ \A u \in Unwritten : sst'[u].table = sst[u].table
    BY <1>1, <1>4, SstableTypes DEF SstableOpen, SstableWrite, wal, Unwritten
  <2>2. \A x \in DOMAIN seg : body'[seg[x]] = body[seg[x]]
    <3>1. CASE SstableOpen(t)
      <4> DEFINE ino == IF FileTime(t) \in DOMAIN tmp THEN tmp[FileTime(t)] ELSE Len(body) + 1
      <4>1. body' = Extended(body, ino, << >>)
        BY <3>1 DEF SstableOpen
      <4>2. \A x \in DOMAIN seg : seg[x] # ino
        BY <1>1 DEF FilesInv
      <4> HIDE DEF ino
      <4> QED
        BY <1>1, <4>1, <4>2 DEF Extended
    <3>2. CASE SstableWrite(t)
      <4>1. /\ body' = [body EXCEPT ![sst[t].ino] = sst[t].table]
            /\ t \in Unwritten /\ sst[t].step # "open"
        BY <3>2 DEF SstableWrite, Unwritten
      <4>2. \A x \in DOMAIN seg : seg[x] # sst[t].ino
        BY <4>1 DEF FilesInv
      <4> QED
        BY <1>1, <4>1, <4>2
    <3> QED
      BY <1>4, <3>1, <3>2
  <2> QED
    BY <1>2, <2>1, <2>2 DEF FileKept, MemoryEntries
<1>5. CASE SstableRename(t)
  <2>1. /\ seg' = Extended(seg, FileTime(t), sst[t].ino) /\ body[sst[t].ino] = sst[t].table
        /\ Unwritten' = Unwritten \ {t} /\ t \in Unwritten
    BY <1>5, FilesRename DEF DistinctNames
  <2>2. sst' = sst /\ body' = body
    BY <1>5 DEF SstableRename
  <2>3. FileTime(t) \notin DOMAIN seg
    BY <2>1 DEF DistinctNames
  <2>4. /\ DOMAIN seg' = DOMAIN seg \cup {FileTime(t)} /\ seg'[FileTime(t)] = sst[t].ino
        /\ \A x \in DOMAIN seg : seg'[x] = seg[x]
    BY <2>1, <2>3 DEF Extended
  <2> QED
    BY <1>2, <2>1, <2>2, <2>3, <2>4 DEF FileNamed
<1> QED
  BY <1>3, <1>4, <1>5 DEF FlushStep

LEMMA HeldFlush ==
    ASSUME StorageInv, FilesInv, DistinctNames, NEW t \in Flushers, FlushStep(t)
    PROVE  HeldEntries' = HeldEntries
<1>1. CASE FileKept
  BY <1>1 DEF FileKept, HeldEntries, FileEntries
<1>2. CASE FileNamed(t)
  <2>1. FileEntries' = FileEntries \cup Range(sst[t].table)
    BY <1>2 DEF FileNamed, FileEntries
  <2>2. MemoryEntries = MemoryEntries' \cup Range(sst[t].table)
    BY <1>2 DEF FileNamed, MemoryEntries
  <2> QED
    BY <2>1, <2>2 DEF HeldEntries
<1> QED
  BY <1>1, <1>2, FlushFiles

\* The step of an append that was logged: its entry is put in and answered for.
Appended(e) ==
    /\ MemtableAppend(e)
    /\ e \in Entry /\ e.id = records /\ e.lsn = lsn
    /\ e.ts = Timestamp(StreamOf[e.kind], offsets[StreamOf[e.kind]])
    /\ HeldEntries' = HeldEntries \cup {e}
    /\ acked' = acked \cup {Block(e)}

LEMMA HeldAppend ==
    ASSUME StorageInv, HeldInv, AppendApply
    PROVE  HeldInv' /\ \E e \in Entry : Appended(e)
<1> DEFINE s == StreamOf[cur[2]]
           e == EntryOf(cur, Timestamp(s, offsets[s]))
<1>1. /\ main = "apply" /\ main' = "serve" /\ MemtableAppend(e)
      /\ offsets' = [offsets EXCEPT ![s] = @ + RawOf[cur[2]]]
      /\ acked' = acked \cup {Block(e)} /\ UNCHANGED <<seg, tmp, body>>
  BY DEF AppendApply, disk
<1>2. /\ cur \in Ops /\ cur[1] = records /\ W!TypeOK /\ offsets \in [Streams -> Nat]
      /\ records \in Nat
  BY <1>1 DEF StorageInv, InStep, Typed, W!TypeOK
<1>3. s \in Streams /\ RawOf[cur[2]] \in Nat
  BY <1>2, KindAssumption DEF Ops
<1>4. offsets[s] \in Nat /\ Timestamp(s, offsets[s]) \in Nat
  BY <1>2, <1>3, TimestampNat
<1>5. /\ e \in Entry /\ e.id = records /\ e.kind = cur[2] /\ e.ts = Timestamp(s, offsets[s])
      /\ e.lsn = lsn
  <2>1. e \in Entry /\ e.id = cur[1] /\ e.lsn = lsn
    BY <1>2, <1>4, EntryOfType
  <2> QED
    BY <1>2, <2>1 DEF EntryOf
<1>6. e.ts = Timestamp(StreamOf[e.kind], offsets[StreamOf[e.kind]])
  BY <1>5
<1> HIDE DEF e
<1>7. HeldEntries' = HeldEntries \cup {e}
  BY <1>1, <1>5, HeldGrows
<1>8. Appended(e)
  BY <1>1, <1>5, <1>6, <1>7 DEF Appended
<1>9. records' = records
  BY <1>1 DEF MemtableAppend, MemtableFlush, W!FlushStart, W!RestUnchanged, wal
<1>10. \A r \in Streams : /\ offsets[r] \in Nat /\ offsets'[r] \in Nat
                          /\ offsets[r] <= offsets'[r]
  <2> DEFINE n == RawOf[cur[2]]
  <2>1. offsets' = [offsets EXCEPT ![s] = offsets[s] + n] /\ n \in Nat
    BY <1>1, <1>3
  <2> HIDE DEF s, n
  <2>2. \A r \in Streams : offsets'[r] = IF r = s THEN offsets[s] + n ELSE offsets[r]
    BY <1>2, <1>3, <2>1
  <2> QED
    BY <1>2, <1>3, <1>4, <2>1, <2>2
<1>11. \A r \in Streams : /\ Timestamp(r, offsets[r]) <= Timestamp(r, offsets'[r])
                          /\ Timestamp(r, offsets[r]) \in Nat
                          /\ Timestamp(r, offsets'[r]) \in Nat
  BY <1>10, TimestampMonotone, TimestampNat
<1>12. ASSUME NEW f \in HeldEntries'
       PROVE  /\ f \in Entry /\ f.id <= records
              /\ f.ts <= Timestamp(StreamOf[f.kind], offsets'[StreamOf[f.kind]])
  <2>1. /\ f \in Entry /\ f.id <= records
        /\ f.ts <= Timestamp(StreamOf[f.kind], offsets[StreamOf[f.kind]])
    <3>1. CASE f \in HeldEntries
      BY <3>1 DEF HeldInv, HeldBelow
    <3>2. CASE f = e
      BY <1>2, <1>4, <1>5, <1>6, <3>2
    <3> QED
      BY <1>7, <1>12, <3>1, <3>2
  <2>2. StreamOf[f.kind] \in Streams /\ f.ts \in Nat
    BY <2>1, KindAssumption DEF Entry
  <2> QED
    BY <1>11, <2>1, <2>2
<1>13. HeldBelow'
  BY <1>1, <1>9, <1>12 DEF HeldBelow, Timestamp
<1>14. EmptyBefore'
  BY <1>1 DEF EmptyBefore
<1> QED
  BY <1>5, <1>8, <1>13, <1>14 DEF HeldInv

(* Every other step leaves what is held, and what was answered for, alone.    *)
LEMMA HeldOther ==
    ASSUME StorageInv, FilesInv, HeldInv, DistinctNames, [Next]_vars, ~AppendApply,
           crashes' = 0, crashes = 0
    PROVE  HeldInv' /\ HeldEntries' = HeldEntries /\ acked' = acked
<1>1. /\ records \in Nat /\ offsets \in [Streams -> Nat] /\ crashes \in Nat
  BY DEF StorageInv, Typed, W!TypeOK
<1>2. ASSUME HeldEntries' = HeldEntries, UNCHANGED <<records, offsets>>,
             main' = "apply" => main = "apply"
      PROVE  HeldBelow'
  BY <1>2 DEF HeldInv, HeldBelow, Timestamp
<1>3. ASSUME UNCHANGED <<mem, sst, fl, seg, tmp, body, records, offsets, main, acked>>
      PROVE  HeldInv' /\ HeldEntries' = HeldEntries /\ acked' = acked
  <2>1. HeldEntries' = HeldEntries
    BY <1>3, HeldQuiet
  <2>2. HeldBelow'
    BY <1>2, <1>3, <2>1
  <2> QED
    BY <1>3, <2>1, <2>2 DEF HeldInv, EmptyBefore
<1>4. ASSUME NEW kind \in Kinds, AppendRotate(kind)
      PROVE  HeldInv' /\ HeldEntries' = HeldEntries /\ acked' = acked
  BY <1>3, <1>4 DEF AppendRotate, W!Rotate, disk
<1>20. ASSUME AppendSync
       PROVE  HeldInv' /\ HeldEntries' = HeldEntries /\ acked' = acked
  BY <1>3, <1>20, SyncKeeps
<1>5. ASSUME NEW kind \in Kinds, AppendLog(kind)
      PROVE  HeldInv' /\ HeldEntries' = HeldEntries /\ acked' = acked
  <2>1. /\ UNCHANGED <<mem, sst, fl, seg, tmp, body, offsets, acked>>
        /\ records' = records + 1 /\ main' = "apply" /\ main = "serve"
    BY <1>5 DEF AppendLog, W!Write, disk
  <2>2. HeldEntries' = HeldEntries
    BY <2>1, HeldQuiet
  <2>3. ASSUME NEW e \in HeldEntries
        PROVE  /\ e \in Entry /\ e.id <= records' /\ e.id < records'
               /\ e.ts <= Timestamp(StreamOf[e.kind], offsets'[StreamOf[e.kind]])
    <3>1. /\ e \in Entry /\ e.id <= records
          /\ e.ts <= Timestamp(StreamOf[e.kind], offsets[StreamOf[e.kind]])
      BY <2>3 DEF HeldInv, HeldBelow
    <3>2. e.id \in Nat
      BY <3>1, LogAssumption DEF Entry
    <3> QED
      BY <1>1, <2>1, <3>1, <3>2
  <2>4. HeldBelow'
    BY <2>1, <2>2, <2>3 DEF HeldBelow, Timestamp
  <2> QED
    BY <2>1, <2>2, <2>4 DEF HeldInv, EmptyBefore
<1>6. ASSUME NEW t \in Flushers, FlushStep(t)
      PROVE  HeldInv' /\ HeldEntries' = HeldEntries /\ acked' = acked
  <2>1. UNCHANGED <<main, offsets, acked>>
    BY <1>6 DEF FlushStep, FlushLog, SstableOpen, SstableWrite, SstableRename, FlushEnd, wal
  <2>2. records' = records
    <3>1. ASSUME FlushLog(t) PROVE records' = records
      BY <3>1 DEF FlushLog, W!ManifestOpen, W!ManifestWrite, W!TruncSegno,
         W!TruncCheckpoint, W!TruncList, W!TruncKeep, W!TruncInspect, W!TruncRemove,
         W!RestUnchanged
    <3>2. ASSUME SstableOpen(t) \/ SstableWrite(t) PROVE records' = records
      BY <3>2 DEF SstableOpen, SstableWrite, wal
    <3>3. ASSUME SstableRename(t) \/ FlushEnd(t) PROVE records' = records
      BY <3>3 DEF SstableRename, FlushEnd, W!SstableWrite, W!TruncDone, W!RestUnchanged
    <3> QED
      BY <1>6, <3>1, <3>2, <3>3 DEF FlushStep
  <2>3. HeldEntries' = HeldEntries
    BY <1>6, HeldFlush
  <2>4. HeldBelow'
    BY <1>2, <2>1, <2>2, <2>3
  <2>5. CASE t \in Unwritten
    <3>1. records # 0
      BY <2>5, NothingBeforeServing
    <3>2. main \notin {"down", "replay"}
      BY <3>1 DEF HeldInv, EmptyBefore
    <3> QED
      BY <2>1, <2>3, <2>4, <3>2 DEF HeldInv, EmptyBefore
  <2>6. CASE t \notin Unwritten
    <3>1. UNCHANGED <<seg, tmp>>
      BY <1>6, <2>6 DEF FlushStep, FlushLog, SstableOpen, SstableWrite, SstableRename,
         FlushEnd, disk, W!SstableWrite, Unwritten
    <3> QED
      BY <2>1, <2>2, <2>3, <2>4, <3>1 DEF HeldInv, EmptyBefore
  <2> QED
    BY <2>5, <2>6
<1>7. ~Crash
  BY <1>1 DEF Crash, W!Crash
<1>8. ASSUME Start PROVE HeldInv' /\ HeldEntries' = HeldEntries /\ acked' = acked
  <2>1. /\ UNCHANGED <<mem, sst, fl, seg, tmp, body, acked, records>>
        /\ main = "down" /\ main' = "replay"
    BY <1>8 DEF Start, W!Create, disk
  <2>2. records = 0 /\ DOMAIN seg = {} /\ DOMAIN tmp = {}
    BY <2>1 DEF HeldInv, EmptyBefore
  <2>3. HeldEntries' = HeldEntries
    BY <2>1, HeldQuiet
  <2>4. HeldEntries = {}
    BY <2>2, NothingBeforeServing DEF HeldEntries, FileEntries
  <2> QED
    BY <2>1, <2>2, <2>3, <2>4 DEF HeldInv, HeldBelow, EmptyBefore
<1>9. ~StartFails
  BY DEF StartFails, HeldInv, EmptyBefore, FileBodies
<1>10. ~ReplayApply
  BY NothingBeforeServing DEF ReplayApply, HeldInv, EmptyBefore
<1>11. ASSUME (\E g \in rp.todo : ReplayOpen(g)) \/ ReplaySkip
       PROVE  HeldInv' /\ HeldEntries' = HeldEntries /\ acked' = acked
  <2>1. UNCHANGED <<wal, main, mem, sst, disk, offsets, acked>>
    <3>1. ASSUME NEW g \in rp.todo, ReplayOpen(g)
          PROVE  UNCHANGED <<wal, main, mem, sst, disk, offsets, acked>>
      BY <3>1 DEF ReplayOpen
    <3>2. ASSUME ReplaySkip PROVE UNCHANGED <<wal, main, mem, sst, disk, offsets, acked>>
      BY <3>2 DEF ReplaySkip
    <3> QED
      BY <1>11, <3>1, <3>2
  <2> QED
    BY <1>3, <2>1 DEF wal, disk
<1>12. ASSUME ReplayDone PROVE HeldInv' /\ HeldEntries' = HeldEntries /\ acked' = acked
  <2>1. /\ UNCHANGED <<mem, sst, fl, seg, body, offsets, acked, records>>
        /\ main' = "serve"
    BY <1>12 DEF ReplayDone, wal, disk
  <2>2. HeldEntries' = HeldEntries
    BY <2>1, HeldQuiet
  <2>3. HeldBelow'
    BY <1>2, <2>1, <2>2
  <2> QED
    BY <2>1, <2>2, <2>3 DEF HeldInv, EmptyBefore
<1>13. CASE UNCHANGED vars
  BY <1>3, <1>13 DEF vars, wal, disk
<1> QED
  BY <1>4, <1>5, <1>6, <1>7, <1>8, <1>9, <1>10, <1>11, <1>12, <1>13, <1>20
  DEF Next, Replay

(* Files and memory change only by an append and by a file that gets its name.*)
LEMMA FilesMove ==
    ASSUME StorageInv, FilesInv, HeldInv, DistinctNames, [Next]_vars, ~AppendApply,
           crashes' = 0, crashes = 0
    PROVE  FileKept \/ \E t \in Flushers : FileNamed(t)
<1>1. ASSUME UNCHANGED <<mem, sst, fl, seg, body>> PROVE FileKept
  BY <1>1 DEF FileKept, MemoryEntries, Unwritten
<1>2. ASSUME NEW t \in Flushers, FlushStep(t) PROVE FileKept \/ FileNamed(t)
  BY <1>2, FlushFiles
<1>3. ASSUME NEW kind \in Kinds, AppendRotate(kind) \/ AppendLog(kind) PROVE FileKept
  BY <1>1, <1>3 DEF AppendRotate, AppendLog, W!Rotate, W!Write, disk
<1>20. ASSUME AppendSync PROVE FileKept
  BY <1>1, <1>20, SyncKeeps
<1>4. ASSUME Start PROVE FileKept
  BY <1>1, <1>4 DEF Start, W!Create, disk
<1>5. ASSUME NEW g \in rp.todo, ReplayOpen(g) PROVE FileKept
  BY <1>1, <1>5 DEF ReplayOpen, wal, disk
<1>6. ASSUME StartFails \/ ReplaySkip \/ ReplayDone PROVE FileKept
  BY <1>1, <1>6 DEF StartFails, ReplaySkip, ReplayDone, wal, disk
<1>7. ~Crash /\ ~ReplayApply
  BY NothingBeforeServing DEF Crash, W!Crash, ReplayApply, HeldInv, EmptyBefore
<1>8. CASE UNCHANGED vars
  BY <1>1, <1>8 DEF vars, wal, disk
<1> QED
  BY <1>2, <1>3, <1>4, <1>5, <1>6, <1>7, <1>8, <1>20 DEF Next, Replay

(* Without a crash, and while no table starts in a millisecond that another   *)
(* one being written or an sstable has, the storage path implements           *)
(* BlockStore: appends are stored once, in order, with times that do not go   *)
(* back, and answered for when stored; no flush thread, rename, rotation or   *)
(* truncation, in whatever interleaving, loses or changes a block.            *)
THEOREM StoreImplemented ==
    Spec /\ []DistinctNames /\ [](crashes = 0) => StoreRefined
<1>1. Init => FilesInv /\ HeldInv /\ Store!Init
  <2> SUFFICES ASSUME Init PROVE FilesInv /\ HeldInv /\ Store!Init
    OBVIOUS
  <2>1. /\ DOMAIN tmp = {} /\ DOMAIN seg = {} /\ Unwritten = {} /\ mem = << >> /\ acked = {}
        /\ main = "down" /\ records = 0
    BY DEF Init, W!Init, Unwritten, W!IdleFlush
  <2>2. Range(mem) = {}
    BY <2>1 DEF Range
  <2>3. HeldEntries = {} /\ Held = {}
    BY <2>1, <2>2 DEF HeldEntries, Held, FileEntries, MemoryEntries
  <2> QED
    BY <2>1, <2>3 DEF FilesInv, FilesWhole, HeldInv, HeldBelow, EmptyBefore, Store!Init
<1>2. StorageInv /\ FilesInv /\ DistinctNames /\ [Next]_vars => FilesInv'
  BY FilesStep DEF DistinctNames
<1>3. ASSUME StorageInv, FilesInv, HeldInv, DistinctNames, [Next]_vars,
             crashes = 0, crashes' = 0
      PROVE  HeldInv' /\ [Store!Next]_<<Held, acked>>
  <2>1. CASE ~AppendApply
    <3>1. HeldInv' /\ HeldEntries' = HeldEntries /\ acked' = acked
      BY <1>3, <2>1, HeldOther
    <3>2. Held' = Held
      BY <3>1 DEF Held, HeldEntries
    <3> QED
      BY <3>1, <3>2
  <2>2. CASE AppendApply
    <3>1. HeldInv' /\ \E e \in Entry : Appended(e)
      BY <1>3, <2>2, HeldAppend
    <3>2. PICK e \in Entry : Appended(e)
      BY <3>1
    <3>3. Held' = Held \cup {Block(e)} /\ acked' = acked \cup {Block(e)}
      BY <3>2 DEF Appended, Held, HeldEntries
    <3>4. main = "apply"
      BY <2>2 DEF AppendApply
    <3>5. ASSUME NEW f \in HeldEntries
          PROVE  /\ Block(f).id < Block(e).id
                 /\ StreamOf[Block(f).kind] = StreamOf[Block(e).kind] =>
                        Block(f).ts <= Block(e).ts
      <4>1. /\ f.id < records /\ e.id = records
            /\ f.ts <= Timestamp(StreamOf[f.kind], offsets[StreamOf[f.kind]])
            /\ e.ts = Timestamp(StreamOf[e.kind], offsets[StreamOf[e.kind]])
        BY <1>3, <3>2, <3>4, <3>5 DEF HeldInv, HeldBelow, Appended
      <4> QED
        BY <4>1 DEF Block
    <3>6. \A c \in Held : /\ c.id < Block(e).id
                          /\ StreamOf[c.kind] = StreamOf[Block(e).kind] => c.ts <= Block(e).ts
      BY <3>5 DEF Held, HeldEntries
    <3>7. Block(e) \notin Held
      <4>1. Block(e).id \in Int
        BY LogAssumption DEF Block, Entry
      <4> QED
        BY <3>6, <4>1
    <3>8. Block(e) \in Held' \ Held /\ Store!Store(Block(e))
      BY <3>3, <3>6, <3>7 DEF Store!Store
    <3> QED
      BY <3>1, <3>8 DEF Store!Next
  <2> QED
    BY <2>1, <2>2
<1>4. StorageInv /\ FilesInv /\ HeldInv /\ DistinctNames /\ [Next]_vars
        /\ crashes = 0 /\ (crashes = 0)' => HeldInv' /\ [Store!Next]_<<Held, acked>>
  BY <1>3
<1> QED
  BY <1>1, <1>2, <1>4, StorageInvariant, PTL DEF Spec, StoreRefined, Store!Spec

-----------------------------------------------------------------------------
(* The log and the checkpoint, in a behaviour without a crash *)

\* What stands in the manifest, or will, or a thread has read from it.
Checkpoints == {manifest} \cup {fl[t].max_lsn : t \in Flushers} \cup {fl[t].ckpt : t \in Flushers}

\* The numbers of the appends not answered for yet.
Pending(n) == main = "apply" /\ n = records

\* wal->lsn counts the appends, so a record carries its own number less one
\* and an entry its number.
LsnIsNumber ==
    /\ lsn = records
    /\ main = "down" => DOMAIN segs = {}
    /\ \A g \in DOMAIN segs : \A i \in 1..Len(segs[g]) : segs[g][i].lsn + 1 = Id(segs[g][i])
    /\ \A i \in 1..Len(mem) : mem[i].lsn = mem[i].id

\* No checkpoint vouches for a block of the memtable or one yet to get there.
CheckpointsBelow ==
    \A c \in Checkpoints :
        /\ c <= records /\ ~Pending(c)
        /\ \A i \in 1..Len(mem) : c < mem[i].id

\* What the memtable holds or is to get is in the log.
InLog(n) == \E g \in DOMAIN segs : \E i \in 1..Len(segs[g]) : Id(segs[g][i]) = n
MemoryLogged ==
    ~stray => /\ \A i \in 1..Len(mem) : InLog(mem[i].id)
              /\ main = "apply" => InLog(records)

\* Every append answered for is held.
AllHeld ==
    /\ \A n \in 1..records : Pending(n) \/ \E e \in HeldEntries : e.id = n
    /\ \A b \in acked : b.id \in 1..records /\ ~Pending(b.id)

KeptInv == LsnIsNumber /\ CheckpointsBelow /\ MemoryLogged /\ AllHeld

\* A step that neither writes a record nor puts an entry in.
KeptStutter ==
    /\ UNCHANGED <<lsn, records, mem, acked>> /\ HeldEntries' = HeldEntries
    /\ (main' = "apply" <=> main = "apply")
    /\ main' = "down" => main = "down" /\ DOMAIN segs' \subseteq DOMAIN segs
    /\ \A g \in DOMAIN segs' : \A i \in 1..Len(segs'[g]) :
         g \in DOMAIN segs /\ i \in 1..Len(segs[g]) /\ segs'[g][i] = segs[g][i]
    /\ ~stray' => \/ mem = << >> /\ main' # "apply"
                  \/ /\ ~stray
                     /\ \A g \in DOMAIN segs :
                          \/ g \in DOMAIN segs' /\ segs'[g] = segs[g]
                          \/ \E c \in Checkpoints :
                               \A i \in 1..Len(segs[g]) : segs[g][i].lsn < c
    /\ Checkpoints' \subseteq Checkpoints \cup {0}

(* The types the argument works with.                                         *)
LEMMA KeptTypes ==
    ASSUME StorageInv
    PROVE  /\ records \in Nat /\ lsn \in Nat /\ Len(mem) \in Nat /\ mem \in Seq(Entry)
           /\ \A i \in 1..Len(mem) : mem[i] \in Entry /\ mem[i].id \in Nat /\ mem[i].id >= 1
           /\ \A g \in DOMAIN segs : /\ segs[g] \in Seq(W!Record) /\ Len(segs[g]) \in Nat
                                     /\ \A i \in 1..Len(segs[g]) :
                                          segs[g][i].lsn \in Nat /\ Id(segs[g][i]) \in Nat
           /\ Checkpoints \subseteq Nat
<1>1. records \in Nat /\ lsn \in Nat /\ mem \in Seq(Entry) /\ Len(mem) \in Nat
  BY DEF StorageInv, Typed, W!TypeOK
<1>2. \A i \in 1..Len(mem) : mem[i] \in Entry
  BY <1>1
<1>3. \A i \in 1..Len(mem) : mem[i].id \in Nat /\ mem[i].id >= 1
  BY <1>2, LogAssumption DEF Entry
<1>4. ASSUME NEW g \in DOMAIN segs
      PROVE  /\ segs[g] \in Seq(W!Record) /\ Len(segs[g]) \in Nat
             /\ \A i \in 1..Len(segs[g]) : segs[g][i].lsn \in Nat /\ Id(segs[g][i]) \in Nat
  <2>1. segs[g] \in Seq(W!Record) /\ Len(segs[g]) \in Nat
    BY DEF StorageInv, W!TypeOK, W!Dir
  <2>2. \A i \in 1..Len(segs[g]) : segs[g][i] \in W!Record
    BY <2>1
  <2>3. \A i \in 1..Len(segs[g]) : segs[g][i].lsn \in Nat /\ Id(segs[g][i]) \in Nat
    BY <2>2, LogAssumption DEF W!Record, Ops, Id
  <2> QED
    BY <2>1, <2>3
<1>5. Checkpoints \subseteq Nat
  BY DEF Checkpoints, StorageInv, W!TypeOK, W!Flush
<1> QED
  BY <1>1, <1>2, <1>3, <1>4, <1>5

LEMMA StutterKeeps ==
    ASSUME StorageInv, KeptInv, KeptStutter
    PROVE  KeptInv'
<1>1. LsnIsNumber'
  BY DEF KeptInv, LsnIsNumber, KeptStutter
<1>2. CheckpointsBelow'
  <2> SUFFICES ASSUME NEW c \in Checkpoints'
               PROVE  /\ c <= records /\ ~(main = "apply" /\ c = records)
                      /\ \A i \in 1..Len(mem) : c < mem[i].id
    BY DEF CheckpointsBelow, KeptStutter, Pending
  <2>1. CASE c \in Checkpoints
    BY <2>1 DEF KeptInv, CheckpointsBelow, Pending
  <2>2. CASE c = 0
    <3>1. main = "apply" => records # 0
      BY LogAssumption DEF StorageInv, InStep, Ops
    <3> QED
      BY <2>2, <3>1, KeptTypes
  <2> QED
    BY <2>1, <2>2 DEF KeptStutter
<1>3. MemoryLogged'
  <2> SUFFICES ASSUME ~stray', mem # << >> \/ main = "apply"
               PROVE  /\ \A i \in 1..Len(mem) : InLog(mem[i].id)'
                      /\ main = "apply" => InLog(records)'
    <3>1. mem = << >> => Len(mem) = 0
      OBVIOUS
    <3> QED
      BY <3>1 DEF MemoryLogged, KeptStutter, InLog
  <2>1. ~stray /\ \A g \in DOMAIN segs :
                    \/ g \in DOMAIN segs' /\ segs'[g] = segs[g]
                    \/ \E c \in Checkpoints :
                         \A i \in 1..Len(segs[g]) : segs[g][i].lsn < c
    BY DEF KeptStutter
  <2>2. ASSUME NEW n \in Nat, InLog(n), \A c \in Checkpoints : c < n
        PROVE  InLog(n)'
    <3>1. PICK g \in DOMAIN segs : \E i \in 1..Len(segs[g]) : Id(segs[g][i]) = n
      BY <2>2 DEF InLog
    <3>2. PICK i \in 1..Len(segs[g]) : Id(segs[g][i]) = n
      BY <3>1
    <3>3. segs[g][i].lsn + 1 = n /\ segs[g][i].lsn \in Nat
      BY <3>2, KeptTypes DEF KeptInv, LsnIsNumber
    <3>4. ASSUME NEW c \in Checkpoints, segs[g][i].lsn < c PROVE FALSE
      <4>1. c < n /\ c \in Nat
        BY <2>2, KeptTypes
      <4> QED
        BY <3>3, <3>4, <4>1
    <3>5. g \in DOMAIN segs' /\ segs'[g] = segs[g]
      BY <2>1, <3>4
    <3> QED
      BY <3>2, <3>5 DEF InLog, Id
  <2>3. ASSUME NEW i \in 1..Len(mem) PROVE InLog(mem[i].id)'
    <3>1. mem[i].id \in Nat /\ InLog(mem[i].id) /\ \A c \in Checkpoints : c < mem[i].id
      BY <2>1, KeptTypes DEF KeptInv, MemoryLogged, CheckpointsBelow
    <3>2. \A n \in Nat : InLog(n) /\ (\A c \in Checkpoints : c < n) =>
             \E g \in DOMAIN segs' : \E k \in 1..Len(segs'[g]) : Id(segs'[g][k]) = n
      BY <2>2 DEF InLog, Id
    <3>3. mem' = mem
      BY DEF KeptStutter
    <3> QED
      BY <3>1, <3>2, <3>3 DEF InLog, Id
  <2>4. ASSUME main = "apply" PROVE InLog(records)'
    <3>1. records \in Nat /\ InLog(records) /\ \A c \in Checkpoints : c < records
      BY <2>1, <2>4, KeptTypes DEF KeptInv, MemoryLogged, CheckpointsBelow, Pending
    <3>2. records' = records
      BY DEF KeptStutter
    <3> QED
      BY <2>2, <3>1, <3>2 DEF InLog, Id
  <2> QED
    BY <2>3, <2>4
<1>4. AllHeld'
  BY DEF KeptInv, AllHeld, KeptStutter, Pending
<1> QED
  BY <1>1, <1>2, <1>3, <1>4 DEF KeptInv

(* A new segment is empty, and the others stay.                               *)
LEMMA CreatedKeeps ==
    ASSUME NEW f, segs' = W!Created(segs, f, << >>)
    PROVE  /\ \A g \in DOMAIN segs : g \in DOMAIN segs' /\ segs'[g] = segs[g]
           /\ \A g \in DOMAIN segs' : \A i \in 1..Len(segs'[g]) :
                g \in DOMAIN segs /\ i \in 1..Len(segs[g]) /\ segs'[g][i] = segs[g][i]
<1>1. /\ DOMAIN segs' = DOMAIN segs \cup {f}
      /\ \A g \in DOMAIN segs : segs'[g] = segs[g]
      /\ f \notin DOMAIN segs => segs'[f] = << >>
  BY DEF W!Created
<1>2. Len(<< >>) = 0
  OBVIOUS
<1>3. ASSUME NEW g \in DOMAIN segs', NEW i \in 1..Len(segs'[g])
      PROVE  g \in DOMAIN segs /\ segs'[g] = segs[g]
  BY <1>1, <1>2
<1> QED
  BY <1>1, <1>3

(* Of the segments only what a checkpoint vouches for is removed, until a     *)
(* segment younger than the spared one is.                                    *)
LEMMA FlushRemoves ==
    ASSUME StorageInv, NEW t \in Flushers, NEW g \in fl[t].todo, W!TruncRemove(t, g), ~stray'
    PROVE  /\ ~stray
           /\ g \in DOMAIN segs =>
                \E c \in Checkpoints : \A i \in 1..Len(segs[g]) : segs[g][i].lsn < c
<1>1. /\ fl[t].pc = "remove" /\ W!IsNext(t, g) /\ ~stray /\ ~(g > fl[t].segno)
  BY DEF W!TruncRemove
<1>2. W!TypeOK /\ W!WalInv /\ fl[t] \in W!Flush
  BY DEF StorageInv, W!TypeOK
<1>3. ASSUME g \in DOMAIN segs
      PROVE  \A i \in 1..Len(segs[g]) : segs[g][i].lsn < fl[t].ckpt
  <2>1. g \in Nat /\ fl[t].segno \in Nat /\ fl[t].ckpt \in Nat
    BY <1>2, <1>3 DEF W!TypeOK, W!Flush, W!Dir
  <2>2. W!MaxLsn(segs[g]) < fl[t].ckpt
    BY <1>1, <1>2, <1>3, <2>1 DEF W!WalInv, W!RemoveChecked, W!Dir
  <2>3. /\ segs[g] \in Seq(W!Record) /\ Len(segs[g]) \in Nat
        /\ \A i \in 1..Len(segs[g]) : segs[g][i].lsn \in Nat
    BY <1>3, KeptTypes
  <2>4. ASSUME NEW i \in 1..Len(segs[g]) PROVE segs[g][i].lsn < fl[t].ckpt
    <3>1. segs[g][i].lsn <= segs[g][Len(segs[g])].lsn
      BY <1>2, <1>3, <2>3 DEF W!WalInv, W!SegmentLsnSorted, W!Dir
    <3>2. segs[g] # << >>
      BY <2>3
    <3>3. W!MaxLsn(segs[g]) = segs[g][Len(segs[g])].lsn
      BY <3>2 DEF W!MaxLsn, W!Last
    <3>4. segs[g][Len(segs[g])].lsn \in Nat /\ segs[g][i].lsn \in Nat
      BY <2>3
    <3>5. segs[g][Len(segs[g])].lsn < fl[t].ckpt
      BY <2>2, <3>3
    <3>6. \A a, b, c \in Nat : a <= b /\ b < c => a < c
      OBVIOUS
    <3> QED
      BY <2>1, <3>1, <3>4, <3>5, <3>6
  <2> QED
    BY <2>4
<1>4. fl[t].ckpt \in Checkpoints
  BY DEF Checkpoints
<1> QED
  BY <1>1, <1>3, <1>4

(* A flush thread moves checkpoints about and makes up none but 0.            *)
LEMMA FlushCheckpoints ==
    ASSUME StorageInv, NEW t \in Flushers, FlushStep(t)
    PROVE  Checkpoints' \subseteq Checkpoints \cup {0}
<1>1. fl \in [Flushers -> W!Flush]
  BY DEF StorageInv, W!TypeOK
<1>2. ASSUME \A u \in Flushers : u # t => fl'[u] = fl[u],
             fl'[t].max_lsn \in Checkpoints \cup {0}, fl'[t].ckpt \in Checkpoints \cup {0},
             manifest' \in Checkpoints \cup {0}
      PROVE  Checkpoints' \subseteq Checkpoints \cup {0}
  BY <1>2 DEF Checkpoints
<1>3. /\ manifest \in Checkpoints /\ fl[t].max_lsn \in Checkpoints /\ fl[t].ckpt \in Checkpoints
      /\ fl[t] \in W!Flush
  BY <1>1 DEF Checkpoints
<1>4. ASSUME W!ManifestOpen(t) \/ W!ManifestWrite(t) \/ W!SstableWrite(t)
      PROVE  Checkpoints' \subseteq Checkpoints \cup {0}
  <2>1. /\ \A u \in Flushers : u # t => fl'[u] = fl[u]
        /\ fl'[t].max_lsn = fl[t].max_lsn /\ fl'[t].ckpt = fl[t].ckpt
    BY <1>1, <1>4 DEF W!ManifestOpen, W!ManifestWrite, W!SstableWrite, W!Goto, W!Flush
  <2>2. manifest' \in {0, fl[t].max_lsn, manifest}
    BY <1>4 DEF W!ManifestOpen, W!ManifestWrite, W!SstableWrite
  <2> QED
    BY <1>2, <1>3, <2>1, <2>2
<1>5. ASSUME W!TruncSegno(t) \/ W!TruncCheckpoint(t) \/ W!TruncList(t)
      PROVE  Checkpoints' \subseteq Checkpoints \cup {0}
  <2>1. /\ \A u \in Flushers : u # t => fl'[u] = fl[u]
        /\ fl'[t].max_lsn = fl[t].max_lsn /\ fl'[t].ckpt \in {fl[t].ckpt, manifest}
    <3>1. CASE W!TruncSegno(t)
      BY <1>1, <3>1 DEF W!TruncSegno, W!Flush
    <3>2. CASE W!TruncCheckpoint(t)
      BY <1>1, <3>2 DEF W!TruncCheckpoint, W!Flush
    <3>3. CASE W!TruncList(t)
      BY <1>1, <3>3 DEF W!TruncList, W!Flush
    <3> QED
      BY <1>5, <3>1, <3>2, <3>3
  <2>2. manifest' = manifest
    BY <1>5 DEF W!TruncSegno, W!TruncCheckpoint, W!TruncList
  <2> QED
    BY <1>2, <1>3, <2>1, <2>2
<1>6. ASSUME NEW g \in fl[t].todo,
             W!TruncKeep(t, g) \/ W!TruncInspect(t, g) \/ W!TruncRemove(t, g)
      PROVE  Checkpoints' \subseteq Checkpoints \cup {0}
  <2>1. /\ \A u \in Flushers : u # t => fl'[u] = fl[u]
        /\ fl'[t].max_lsn = fl[t].max_lsn /\ fl'[t].ckpt = fl[t].ckpt
    BY <1>1, <1>6 DEF W!TruncKeep, W!TruncInspect, W!TruncRemove, W!Goto, W!Flush
  <2>2. manifest' = manifest
    BY <1>6 DEF W!TruncKeep, W!TruncInspect, W!TruncRemove
  <2> QED
    BY <1>2, <1>3, <2>1, <2>2
<1>7. ASSUME W!TruncDone(t) PROVE Checkpoints' \subseteq Checkpoints \cup {0}
  <2>1. /\ \A u \in Flushers : u # t => fl'[u] = fl[u]
        /\ fl'[t].max_lsn = 0 /\ fl'[t].ckpt = 0 /\ manifest' = manifest
    BY <1>1, <1>7 DEF W!TruncDone, W!IdleFlush
  <2> QED
    BY <1>2, <1>3, <2>1
<1>8. ASSUME SstableOpen(t) \/ SstableWrite(t) PROVE Checkpoints' \subseteq Checkpoints \cup {0}
  BY <1>8 DEF SstableOpen, SstableWrite, wal, Checkpoints
<1> QED
  BY <1>4, <1>5, <1>6, <1>7, <1>8 DEF FlushStep, FlushLog, SstableRename, FlushEnd

(* All steps but the two of an append are such steps.                         *)
LEMMA OtherStutters ==
    ASSUME StorageInv, FilesInv, HeldInv, KeptInv, DistinctNames, [Next]_vars,
           ~AppendApply, \A kind \in Kinds : ~AppendLog(kind), crashes' = 0, crashes = 0
    PROVE  KeptStutter
<1>1. HeldEntries' = HeldEntries /\ acked' = acked
  BY HeldOther
<1>2. ASSUME UNCHANGED <<wal, mem>>, main' = "apply" <=> main = "apply",
             main' = "down" => main = "down"
      PROVE  KeptStutter
  <2>1. UNCHANGED <<lsn, records, segs, stray, manifest, fl>>
    BY <1>2 DEF wal
  <2>2. Checkpoints' = Checkpoints
    BY <2>1 DEF Checkpoints
  <2> QED
    BY <1>1, <1>2, <2>1, <2>2 DEF KeptStutter
<1>3. ASSUME NEW kind \in Kinds, AppendRotate(kind) PROVE KeptStutter
  <2>1. /\ UNCHANGED <<lsn, records, mem, stray, manifest, fl, main>> /\ main = "serve"
        /\ segs' = W!Created(segs, fd', << >>)
    BY <1>3 DEF AppendRotate, W!Rotate
  <2>2. Checkpoints' = Checkpoints
    BY <2>1 DEF Checkpoints
  <2> QED
    BY <1>1, <2>1, <2>2, CreatedKeeps DEF KeptStutter
<1>20. ASSUME AppendSync PROVE KeptStutter
  <2>1. UNCHANGED <<lsn, records, segs, stray, manifest, fl, mem, main>>
    BY <1>20, SyncKeeps
  <2>2. Checkpoints' = Checkpoints
    BY <2>1 DEF Checkpoints
  <2> QED
    BY <1>1, <2>1, <2>2 DEF KeptStutter
<1>4. ASSUME NEW t \in Flushers, FlushStep(t) PROVE KeptStutter
  <2>1. UNCHANGED <<main, mem>> /\ Checkpoints' \subseteq Checkpoints \cup {0}
    <3>1. UNCHANGED <<main, mem>>
      BY <1>4 DEF FlushStep, FlushLog, SstableOpen, SstableWrite, SstableRename, FlushEnd
    <3> QED
      BY <1>4, <3>1, FlushCheckpoints
  <2>2. /\ UNCHANGED <<lsn, records>> /\ DOMAIN segs' \subseteq DOMAIN segs
        /\ \A g \in DOMAIN segs' : segs'[g] = segs[g]
    <3>1. CASE FlushLog(t) \/ SstableRename(t) \/ FlushEnd(t)
      BY <3>1, FlushKeeps DEF SstableRename, FlushEnd, StorageInv
    <3>2. CASE SstableOpen(t) \/ SstableWrite(t)
      BY <3>2 DEF SstableOpen, SstableWrite, wal
    <3> QED
      BY <1>4, <3>1, <3>2 DEF FlushStep
  <2>3. ASSUME ~stray'
        PROVE  ~stray /\ \A g \in DOMAIN segs :
                  \/ g \in DOMAIN segs' /\ segs'[g] = segs[g]
                  \/ \E c \in Checkpoints : \A i \in 1..Len(segs[g]) : segs[g][i].lsn < c
    <3>1. CASE \E h \in fl[t].todo : W!TruncRemove(t, h)
      <4>1. PICK h \in fl[t].todo : W!TruncRemove(t, h)
        BY <3>1
      <4>2. segs' = [g \in DOMAIN segs \ {h} |-> segs[g]]
        BY <4>1 DEF W!TruncRemove, W!Dir
      <4>3. /\ ~stray
            /\ h \in DOMAIN segs =>
                 \E c \in Checkpoints : \A i \in 1..Len(segs[h]) : segs[h][i].lsn < c
        BY <2>3, <4>1, FlushRemoves
      <4>4. \A g \in DOMAIN segs : g # h => g \in DOMAIN segs' /\ segs'[g] = segs[g]
        BY <4>2
      <4> QED
        BY <4>3, <4>4
    <3>2. CASE ~\E h \in fl[t].todo : W!TruncRemove(t, h)
      <4>1. ASSUME FlushLog(t) PROVE UNCHANGED <<segs, stray>>
        BY <3>2, <4>1 DEF FlushLog, W!ManifestOpen, W!ManifestWrite, W!TruncSegno,
           W!TruncCheckpoint, W!TruncList, W!TruncKeep, W!TruncInspect, W!WalUnchanged,
           W!RestUnchanged
      <4>2. ASSUME SstableRename(t) \/ FlushEnd(t) PROVE UNCHANGED <<segs, stray>>
        BY <4>2 DEF SstableRename, FlushEnd, W!SstableWrite, W!TruncDone, W!WalUnchanged,
           W!RestUnchanged
      <4>3. ASSUME SstableOpen(t) \/ SstableWrite(t) PROVE UNCHANGED <<segs, stray>>
        BY <4>3 DEF SstableOpen, SstableWrite, wal
      <4>4. UNCHANGED <<segs, stray>>
        BY <1>4, <4>1, <4>2, <4>3 DEF FlushStep
      <4> QED
        BY <2>3, <4>4
    <3> QED
      BY <3>1, <3>2
  <2> QED
    BY <1>1, <2>1, <2>2, <2>3 DEF KeptStutter
<1>5. ASSUME Start PROVE KeptStutter
  <2>1. /\ UNCHANGED <<records, mem, manifest, fl>> /\ main = "down" /\ main' = "replay"
        /\ segs' = W!Created(segs, fd', << >>) /\ lsn' = W!MaxLsn(segs'[fd'])
    BY <1>5 DEF Start, W!Create
  <2>2. DOMAIN segs = {} /\ records = 0 /\ lsn = 0
    BY <2>1 DEF KeptInv, LsnIsNumber, HeldInv, EmptyBefore
  <2>3. segs'[fd'] = << >>
    BY <2>1, <2>2 DEF W!Created
  <2>4. lsn' = lsn
    BY <2>1, <2>2, <2>3 DEF W!MaxLsn
  <2>5. Checkpoints' = Checkpoints
    BY <2>1 DEF Checkpoints
  <2>6. mem = << >>
    BY <2>1 DEF StorageInv, InStep
  <2> QED
    BY <1>1, <2>1, <2>4, <2>5, <2>6, CreatedKeeps DEF KeptStutter
<1>6. ASSUME Replay PROVE KeptStutter
  <2>1. ~ReplayApply
    BY NothingBeforeServing DEF ReplayApply, HeldInv, EmptyBefore
  <2>2. UNCHANGED <<wal, mem>> /\ main = "replay" /\ main' \in {"replay", "serve"}
    <3>1. ASSUME NEW g \in rp.todo, ReplayOpen(g)
          PROVE  UNCHANGED <<wal, mem, main>> /\ main = "replay"
      BY <3>1 DEF ReplayOpen
    <3>2. ASSUME ReplaySkip PROVE UNCHANGED <<wal, mem, main>> /\ main = "replay"
      BY <3>2 DEF ReplaySkip
    <3>3. ASSUME ReplayDone PROVE UNCHANGED <<wal, mem>> /\ main = "replay" /\ main' = "serve"
      BY <3>3 DEF ReplayDone
    <3> QED
      BY <1>6, <2>1, <3>1, <3>2, <3>3 DEF Replay
  <2> QED
    BY <1>2, <2>2
<1>7. ~Crash
  BY DEF Crash, W!Crash
<1>8. ~StartFails
  BY DEF StartFails, HeldInv, EmptyBefore, FileBodies
<1>9. CASE UNCHANGED vars
  BY <1>2, <1>9 DEF vars
<1> QED
  BY <1>3, <1>4, <1>5, <1>6, <1>7, <1>8, <1>9, <1>20 DEF Next

(* The record of an append goes into the log.                                 *)
LEMMA KeptWrite ==
    ASSUME StorageInv, HeldInv, KeptInv, NEW kind \in Kinds, AppendLog(kind),
           HeldEntries' = HeldEntries
    PROVE  KeptInv'
<1> DEFINE r == [lsn |-> lsn, op |-> <<records + 1, kind>>]
<1>1. /\ UNCHANGED <<mem, acked, manifest, fl, stray, linked>> /\ main = "serve" /\ main' = "apply"
      /\ lsn' = lsn + 1 /\ records' = records + 1 /\ up
      /\ records \in Nat /\ lsn \in Nat
  BY KeptTypes DEF AppendLog, W!Write
<1>2. Checkpoints' = Checkpoints /\ Checkpoints \subseteq Nat
  BY <1>1, KeptTypes DEF Checkpoints
<1>3. /\ DOMAIN segs' = DOMAIN segs
      /\ ~stray => linked /\ fd \in DOMAIN segs
      /\ IF linked THEN segs' = [segs EXCEPT ![fd] = Append(segs[fd], r)] ELSE segs' = segs
      /\ linked => fd \in DOMAIN segs
  BY <1>1 DEF AppendLog, W!Write, StorageInv, W!WalInv, W!SparedIsOld, W!ActiveIsNewest, W!Dir
<1>4. r.lsn = lsn /\ Id(r) = records + 1 /\ r.lsn + 1 = Id(r)
  BY <1>1 DEF Id, KeptInv, LsnIsNumber
<1> HIDE DEF r
<1>5. linked => /\ Len(segs'[fd]) = Len(segs[fd]) + 1
                /\ \A i \in 1..Len(segs[fd]) : segs'[fd][i] = segs[fd][i]
                /\ segs'[fd][Len(segs[fd]) + 1] = r
                /\ Len(segs[fd]) \in Nat
  <2> SUFFICES ASSUME linked
               PROVE  /\ Len(segs'[fd]) = Len(segs[fd]) + 1
                      /\ \A i \in 1..Len(segs[fd]) : segs'[fd][i] = segs[fd][i]
                      /\ segs'[fd][Len(segs[fd]) + 1] = r
                      /\ Len(segs[fd]) \in Nat
    OBVIOUS
  <2>1. fd \in DOMAIN segs /\ segs[fd] \in Seq(W!Record) /\ Len(segs[fd]) \in Nat
    BY <1>3, KeptTypes
  <2>2. segs[fd] \in Seq(W!Record \cup {r}) /\ r \in W!Record \cup {r}
    BY <2>1, SeqMonotonic
  <2>3. segs'[fd] = Append(segs[fd], r)
    BY <1>3, <2>1
  <2> QED
    BY <2>1, <2>2, <2>3, AppendProperties
<1>6. \A g \in DOMAIN segs : g # fd \/ ~linked => segs'[g] = segs[g]
  BY <1>3
<1>7. \A g \in DOMAIN segs : \A i \in 1..Len(segs[g]) :
         i \in 1..Len(segs'[g]) /\ segs'[g][i] = segs[g][i]
  BY <1>5, <1>6
<1>8. ASSUME NEW g \in DOMAIN segs, NEW i \in 1..Len(segs'[g])
      PROVE  segs'[g][i] = r \/ (i \in 1..Len(segs[g]) /\ segs'[g][i] = segs[g][i])
  BY <1>5, <1>6
<1>9. LsnIsNumber'
  <2>1. \A g \in DOMAIN segs : \A i \in 1..Len(segs'[g]) :
           segs'[g][i].lsn + 1 = Id(segs'[g][i])
    BY <1>4, <1>8 DEF KeptInv, LsnIsNumber
  <2>2. lsn' = records' /\ main' # "down"
    BY <1>1 DEF KeptInv, LsnIsNumber
  <2> QED
    BY <1>1, <1>3, <2>1, <2>2 DEF KeptInv, LsnIsNumber, Id
<1>10. CheckpointsBelow'
  <2>1. ASSUME NEW c \in Checkpoints PROVE c <= records' /\ c # records'
    <3>1. c <= records /\ c \in Nat
      BY <1>2 DEF KeptInv, CheckpointsBelow
    <3> QED
      BY <1>1, <3>1
  <2> QED
    BY <1>1, <1>2, <2>1 DEF KeptInv, CheckpointsBelow, Pending
<1>11. MemoryLogged'
  <2> SUFFICES ASSUME ~stray
               PROVE  /\ \A i \in 1..Len(mem) : InLog(mem[i].id)'
                      /\ InLog(records)'
    BY <1>1 DEF MemoryLogged, InLog
  <2>1. ASSUME NEW n, InLog(n)
        PROVE  \E g \in DOMAIN segs' : \E i \in 1..Len(segs'[g]) : Id(segs'[g][i]) = n
    BY <1>3, <1>7, <2>1 DEF InLog
  <2>2. \A i \in 1..Len(mem) : InLog(mem[i].id)
    BY DEF KeptInv, MemoryLogged
  <2>3. \A i \in 1..Len(mem) : InLog(mem[i].id)'
    BY <1>1, <2>1, <2>2 DEF InLog, Id
  <2>4. /\ fd \in DOMAIN segs' /\ Len(segs[fd]) + 1 \in 1..Len(segs'[fd])
        /\ Id(segs'[fd][Len(segs[fd]) + 1]) = records'
    BY <1>1, <1>3, <1>4, <1>5
  <2>5. InLog(records)'
    BY <2>4 DEF InLog, Id
  <2> QED
    BY <2>3, <2>5
<1>12. AllHeld'
  <2>1. ASSUME NEW n \in 1..records', n # records' PROVE \E e \in HeldEntries : e.id = n
    <3>1. n \in 1..records /\ ~Pending(n)
      BY <1>1, <2>1 DEF Pending
    <3> QED
      BY <3>1 DEF KeptInv, AllHeld
  <2>2. ASSUME NEW b \in acked PROVE b.id \in 1..records' /\ b.id # records'
    <3>1. b.id \in 1..records
      BY DEF KeptInv, AllHeld
    <3> QED
      BY <1>1, <3>1
  <2> QED
    BY <1>1, <2>1, <2>2 DEF AllHeld, Pending
<1> QED
  BY <1>9, <1>10, <1>11, <1>12 DEF KeptInv

(* The entry of an append goes into the memtable, or starts a new one while   *)
(* the checkpoint of the full one is still below it.                          *)
LEMMA KeptApply ==
    ASSUME StorageInv, HeldInv, KeptInv, AppendApply, NEW e \in Entry, Appended(e)
    PROVE  KeptInv'
<1>1. /\ main = "apply" /\ main' = "serve" /\ MemtableAppend(e)
      /\ e.id = records /\ e.lsn = lsn
      /\ HeldEntries' = HeldEntries \cup {e} /\ acked' = acked \cup {Block(e)}
  BY DEF AppendApply, Appended
<1>2. /\ records \in Nat /\ records >= 1 /\ lsn = records
      /\ \A i \in 1..Len(mem) : mem[i].id \in Nat /\ mem[i].id < records
  <2>1. records \in Nat /\ records >= 1
    BY <1>1, KeptTypes, LogAssumption DEF StorageInv, InStep, Ops
  <2>2. \A i \in 1..Len(mem) : mem[i].id \in Nat /\ mem[i].id < records
    <3>1. \A i \in 1..Len(mem) : mem[i] \in MemoryEntries
      BY KeptTypes DEF MemoryEntries, Range
    <3> QED
      BY <1>1, <3>1, KeptTypes DEF StorageInv, MemoryBelow, MemoryIds
  <2> QED
    BY <2>1, <2>2 DEF KeptInv, LsnIsNumber
<1>3. UNCHANGED <<lsn, records, segs, stray>>
  <2>1. CASE UNCHANGED wal
    BY <2>1 DEF wal
  <2>2. CASE \E t \in Flushers : MemtableFlush(t)
    BY <2>2 DEF MemtableFlush, W!FlushStart, W!WalUnchanged, W!RestUnchanged
  <2> QED
    BY <1>1, <2>1, <2>2 DEF MemtableAppend
<1>4. \A c \in Checkpoints : c < records /\ c \in Nat
  BY <1>1, <1>2, KeptTypes DEF KeptInv, CheckpointsBelow, Pending
<1>5. /\ \A i \in 1..Len(mem') : mem'[i] = e \/ \E j \in 1..Len(mem) : mem'[i] = mem[j]
      /\ \A c \in Checkpoints' : /\ c < records /\ c \in Nat
                                 /\ \A i \in 1..Len(mem') : c < mem'[i].id
  <2>1. CASE mem' = Append(mem, e) /\ UNCHANGED wal
    <3>1. mem \in Seq(Entry) /\ Len(mem) \in Nat
      BY KeptTypes
    <3>2. /\ Len(mem') = Len(mem) + 1 /\ mem'[Len(mem) + 1] = e
          /\ \A i \in 1..Len(mem) : mem'[i] = mem[i]
      BY <2>1, <3>1, AppendProperties
    <3>3. \A i \in 1..Len(mem') : mem'[i] = e \/ \E j \in 1..Len(mem) : mem'[i] = mem[j]
      BY <3>1, <3>2
    <3>4. Checkpoints' = Checkpoints
      BY <2>1 DEF Checkpoints, wal
    <3>5. ASSUME NEW c \in Checkpoints, NEW i \in 1..Len(mem') PROVE c < mem'[i].id
      <4>1. CASE mem'[i] = e
        BY <1>1, <1>4, <4>1
      <4>2. ASSUME NEW j \in 1..Len(mem), mem'[i] = mem[j] PROVE c < mem'[i].id
        BY <4>2 DEF KeptInv, CheckpointsBelow
      <4> QED
        BY <3>3, <4>1, <4>2
    <3> QED
      BY <1>4, <3>3, <3>4, <3>5
  <2>2. ASSUME mem' = <<e>>, ~MemtableHasRoom, NEW t \in Flushers, MemtableFlush(t)
        PROVE  /\ \A i \in 1..Len(mem') : mem'[i] = e
               /\ \A c \in Checkpoints' : c < records /\ c \in Nat
    <3>1. /\ manifest' = manifest
          /\ fl' = [fl EXCEPT ![t] = [W!IdleFlush EXCEPT !.pc = "manifest_open",
                                                          !.max_lsn = Last(mem).lsn]]
      BY <2>2 DEF MemtableFlush, W!FlushStart
    <3>2. fl \in [Flushers -> W!Flush]
      BY DEF StorageInv, W!TypeOK
    <3>3. /\ \A u \in Flushers : u # t => fl'[u] = fl[u]
          /\ fl'[t].max_lsn = Last(mem).lsn /\ fl'[t].ckpt = 0
      BY <3>1, <3>2 DEF W!IdleFlush
    <3>4. Checkpoints' \subseteq Checkpoints \cup {0, Last(mem).lsn}
      BY <3>1, <3>3 DEF Checkpoints
    <3>5. Last(mem).lsn < records /\ Last(mem).lsn \in Nat
      <4>1. Len(mem) \in Nat /\ Len(mem) \in 1..Len(mem)
        BY <2>2, KeptTypes, UnitAssumption DEF MemtableHasRoom
      <4>2. Last(mem).lsn = mem[Len(mem)].id
        BY <4>1 DEF Last, KeptInv, LsnIsNumber
      <4> QED
        BY <1>2, <4>1, <4>2
    <3> QED
      BY <1>2, <1>4, <2>2, <3>4, <3>5
  <2> QED
    BY <1>1, <2>1, <2>2 DEF MemtableAppend
<1>6. LsnIsNumber'
  <2>1. \A i \in 1..Len(mem') : mem'[i].lsn = mem'[i].id
    BY <1>1, <1>2, <1>5 DEF KeptInv, LsnIsNumber
  <2> QED
    BY <1>1, <1>3, <2>1 DEF KeptInv, LsnIsNumber, Id
<1>7. CheckpointsBelow'
  <2>1. \A c \in Checkpoints' : c <= records
    BY <1>2, <1>5
  <2> QED
    BY <1>1, <1>3, <1>5, <2>1 DEF CheckpointsBelow, Pending
<1>8. MemoryLogged'
  <2> SUFFICES ASSUME ~stray PROVE \A i \in 1..Len(mem') : InLog(mem'[i].id)
    BY <1>1, <1>3 DEF MemoryLogged, InLog, Id
  <2> QED
    BY <1>1, <1>5 DEF KeptInv, MemoryLogged
<1>9. AllHeld'
  <2>1. \A n \in 1..records : n # records => \E f \in HeldEntries : f.id = n
    BY DEF KeptInv, AllHeld, Pending
  <2>2. Block(e).id = records /\ records \in 1..records
    BY <1>1, <1>2 DEF Block
  <2> QED
    BY <1>1, <1>3, <2>1, <2>2 DEF KeptInv, AllHeld, Pending
<1> QED
  BY <1>6, <1>7, <1>8, <1>9 DEF KeptInv

(* The invariant gives both properties.                                       *)
LEMMA KeptImplies ==
    ASSUME StorageInv, HeldInv, KeptInv
    PROVE  LogKept /\ CheckpointCovered
<1>1. \A n : InLog(n) => n \in LogIds
  <2> SUFFICES ASSUME NEW g \in DOMAIN segs, NEW i \in 1..Len(segs[g])
               PROVE  Id(segs[g][i]) \in LogIds
    BY DEF InLog
  <2>1. segs[g][i] \in Range(segs[g])
    BY KeptTypes DEF Range
  <2> QED
    BY <2>1 DEF LogIds, Id
<1>2. ASSUME NEW e \in HeldEntries
      PROVE  \/ e.id \in FileIds
             \/ e.id \in {f.id : f \in UNION {Range(sst[t].table) : t \in Unwritten}}
             \/ \E i \in 1..Len(mem) : e = mem[i]
  BY KeptTypes DEF HeldEntries, MemoryEntries, FileIds, Range
<1>3. LogKept
  <2> SUFFICES ASSUME ~stray, NEW b \in acked
               PROVE  b.id \in LogIds \cup FileIds \cup
                        {e.id : e \in UNION {Range(sst[t].table) : t \in Unwritten}}
    BY DEF LogKept, AckedIds
  <2>1. PICK e \in HeldEntries : e.id = b.id
    BY DEF KeptInv, AllHeld
  <2>2. ASSUME NEW i \in 1..Len(mem), e = mem[i] PROVE b.id \in LogIds
    BY <1>1, <2>1, <2>2 DEF KeptInv, MemoryLogged
  <2> QED
    BY <1>2, <2>1, <2>2
<1>4. CheckpointCovered
  <2> SUFFICES ASSUME \A t \in Flushers : fl[t].pc = "idle", NEW g \in DOMAIN segs,
                      NEW i \in 1..Len(segs[g]), segs[g][i].lsn < manifest
               PROVE  Id(segs[g][i]) \in FileIds
    BY KeptTypes DEF CheckpointCovered, Range, Id
  <2> DEFINE n == Id(segs[g][i])
  <2>1. Unwritten = {}
    BY DEF Unwritten
  <2>2. manifest \in Checkpoints /\ manifest \in Nat /\ records \in Nat
    BY KeptTypes DEF Checkpoints
  <2>3. n \in Nat /\ segs[g][i].lsn + 1 = n /\ segs[g][i].lsn \in Nat
    BY KeptTypes DEF KeptInv, LsnIsNumber
  <2>4. n >= 1 /\ n <= manifest
    <3> HIDE DEF n
    <3> QED
      BY <2>2, <2>3
  <2>5. manifest <= records /\ ~Pending(manifest) /\ \A j \in 1..Len(mem) : manifest < mem[j].id
    BY <2>2 DEF KeptInv, CheckpointsBelow
  <2> HIDE DEF n
  <2>6. n \in 1..records /\ ~Pending(n)
    BY <2>2, <2>3, <2>4, <2>5 DEF Pending
  <2>7. PICK e \in HeldEntries : e.id = n
    BY <2>6 DEF KeptInv, AllHeld
  <2>8. ASSUME NEW j \in 1..Len(mem), e = mem[j] PROVE FALSE
    <3>1. manifest < n
      BY <2>5, <2>7, <2>8
    <3> QED
      BY <2>2, <2>3, <2>4, <3>1
  <2> QED
    BY <1>2, <2>1, <2>7, <2>8 DEF n
<1> QED
  BY <1>3, <1>4

LEMMA KeptStep ==
    ASSUME StorageInv, FilesInv, HeldInv, KeptInv, DistinctNames, [Next]_vars,
           crashes = 0, crashes' = 0
    PROVE  FilesInv' /\ HeldInv' /\ KeptInv'
<1>1. FilesInv'
  BY FilesStep DEF DistinctNames
<1>2. CASE AppendApply
  <2>1. HeldInv' /\ \E e \in Entry : Appended(e)
    BY <1>2, HeldAppend
  <2> QED
    BY <1>1, <1>2, <2>1, KeptApply
<1>3. CASE ~AppendApply
  <2>1. HeldInv' /\ HeldEntries' = HeldEntries
    BY <1>3, HeldOther
  <2>2. ASSUME NEW kind \in Kinds, AppendLog(kind) PROVE KeptInv'
    BY <2>1, <2>2, KeptWrite
  <2>3. CASE \A kind \in Kinds : ~AppendLog(kind)
    <3>1. KeptStutter
      BY <1>3, <2>3, OtherStutters
    <3> QED
      BY <1>1, <2>1, <3>1, StutterKeeps
  <2> QED
    BY <1>1, <2>1, <2>2, <2>3
<1> QED
  BY <1>2, <1>3

(* The invariants of a behaviour without a crash and with distinct names.     *)
LEMMA KeptInvariant ==
    Spec /\ []DistinctNames /\ [](crashes = 0) => [](StorageInv /\ HeldInv /\ KeptInv)
<1>1. Init => FilesInv /\ HeldInv /\ KeptInv
  <2> SUFFICES ASSUME Init PROVE FilesInv /\ HeldInv /\ KeptInv
    OBVIOUS
  <2>1. /\ DOMAIN tmp = {} /\ DOMAIN seg = {} /\ Unwritten = {} /\ mem = << >> /\ acked = {}
        /\ main = "down" /\ records = 0 /\ lsn = 0 /\ DOMAIN segs = {} /\ Len(mem) = 0
    BY DEF Init, W!Init, Unwritten, W!IdleFlush
  <2>2. Range(mem) = {}
    BY <2>1 DEF Range
  <2>3. HeldEntries = {}
    BY <2>1, <2>2 DEF HeldEntries, FileEntries, MemoryEntries
  <2>4. Checkpoints \subseteq {0}
    BY DEF Init, W!Init, Checkpoints, W!IdleFlush
  <2>5. KeptInv
    BY <2>1, <2>3, <2>4 DEF KeptInv, LsnIsNumber, CheckpointsBelow, MemoryLogged, AllHeld,
       Pending
  <2> QED
    BY <2>1, <2>3, <2>5 DEF FilesInv, FilesWhole, HeldInv, HeldBelow, EmptyBefore
<1>2. StorageInv /\ FilesInv /\ HeldInv /\ KeptInv /\ DistinctNames /\ [Next]_vars
        /\ crashes = 0 /\ (crashes = 0)' => FilesInv' /\ HeldInv' /\ KeptInv'
  BY KeptStep
<1> QED
  BY <1>1, <1>2, StorageInvariant, PTL DEF Spec

(* Without a crash, and with distinct names, truncation and rotation keep     *)
(* what only the log holds, until a segment younger than the spared one goes: *)
(* for any number of flush threads that write the manifest and truncate.      *)
THEOREM LogAlwaysKept == Spec /\ []DistinctNames /\ [](crashes = 0) => []LogKept
<1>1. StorageInv /\ HeldInv /\ KeptInv => LogKept
  BY KeptImplies
<1> QED
  BY <1>1, KeptInvariant, PTL

(* Without a crash, and with distinct names, the checkpoint of a server with  *)
(* no flush under way vouches only for blocks that are in sstables, in        *)
(* whatever order the threads wrote the manifest.                             *)
THEOREM CheckpointAlwaysCovered ==
    Spec /\ []DistinctNames /\ [](crashes = 0) => []CheckpointCovered
<1>1. StorageInv /\ HeldInv /\ KeptInv => CheckpointCovered
  BY KeptImplies
<1> QED
  BY <1>1, KeptInvariant, PTL

-----------------------------------------------------------------------------
(* The order that a query sees *)

\* All of one list is before all of the other.
Apart(p, q) == Precedes(p, q) \/ Precedes(q, p)

\* Files are cut out of the log one behind the other, in some order, and before
\* the memtable; they are named after their first block, and the times of a
\* stream do not go back.
FileOrder ==
    /\ \A x \in DOMAIN seg :
         /\ Increasing(body[seg[x]]) /\ body[seg[x]][1].ts = x /\ Precedes(body[seg[x]], mem)
         /\ \A t \in Unwritten : Apart(body[seg[x]], sst[t].table)
         /\ \A y \in DOMAIN seg : x # y => Apart(body[seg[x]], body[seg[y]])
    /\ \A e, f \in HeldEntries :
         StreamOf[e.kind] = StreamOf[f.kind] /\ e.id < f.id => e.ts <= f.ts

\* A file has blocks of one stream only.
Unmixed ==
    \A x \in DOMAIN seg : \A e \in Range(body[seg[x]]) :
        StreamOf[e.kind] = StreamOf[body[seg[x]][1].kind]

LEMMA OrderAppend ==
    ASSUME StorageInv, HeldInv, FileOrder, AppendApply, NEW e \in Entry, Appended(e)
    PROVE  FileOrder'
<1>1. main = "apply" /\ UNCHANGED <<seg, body>> /\ MemtableAppend(e)
  BY DEF AppendApply, Appended, disk
<1>2. /\ e.id = records /\ records \in Nat /\ HeldEntries' = HeldEntries \cup {e}
      /\ e.ts = Timestamp(StreamOf[e.kind], offsets[StreamOf[e.kind]])
  BY DEF Appended, StorageInv, W!TypeOK
<1>3. \A f \in HeldEntries : /\ f.id < e.id /\ f.id \in Int
                             /\ StreamOf[f.kind] = StreamOf[e.kind] => f.ts <= e.ts
  <2>1. \A f \in HeldEntries :
          /\ f \in Entry /\ f.id < records
          /\ f.ts <= Timestamp(StreamOf[f.kind], offsets[StreamOf[f.kind]])
    BY <1>1 DEF HeldInv, HeldBelow
  <2> QED
    BY <1>2, <2>1, LogAssumption DEF Entry
<1>4. ASSUME NEW x \in DOMAIN seg, NEW f \in Range(body[seg[x]]) PROVE f.id < e.id
  BY <1>3 DEF HeldEntries, FileEntries
<1>5. ASSUME NEW x \in DOMAIN seg
      PROVE  /\ Precedes(body[seg[x]], mem')
             /\ \A t \in Unwritten' : Apart(body[seg[x]], sst'[t].table)
  <2>1. Precedes(body[seg[x]], mem) /\ \A t \in Unwritten : Apart(body[seg[x]], sst[t].table)
    BY DEF FileOrder
  <2>2. CASE Range(mem') = Range(mem) \cup {e} /\ Unwritten' = Unwritten /\ sst' = sst
    BY <1>4, <2>1, <2>2 DEF Precedes
  <2>3. ASSUME Range(mem') = {e}, NEW t \in Flushers,
               Unwritten' = Unwritten \cup {t}, sst'[t].table = mem,
               \A u \in Unwritten : sst'[u].table = sst[u].table
        PROVE  /\ Precedes(body[seg[x]], mem')
               /\ \A u \in Unwritten' : Apart(body[seg[x]], sst'[u].table)
    <3>1. Precedes(body[seg[x]], mem')
      BY <1>4, <2>3 DEF Precedes
    <3>2. Apart(body[seg[x]], sst'[t].table)
      BY <2>1, <2>3 DEF Apart
    <3>3. \A u \in Unwritten : Apart(body[seg[x]], sst'[u].table)
      BY <2>1, <2>3
    <3> QED
      BY <2>3, <3>1, <3>2, <3>3
  <2> QED
    BY <1>1, <2>2, <2>3, MemtableLists
<1>6. ASSUME NEW f \in HeldEntries', NEW h \in HeldEntries',
             StreamOf[f.kind] = StreamOf[h.kind], f.id < h.id
      PROVE  f.ts <= h.ts
  <2>1. CASE f \in HeldEntries /\ h \in HeldEntries
    BY <1>6, <2>1 DEF FileOrder
  <2>2. CASE f \in HeldEntries /\ h = e
    BY <1>3, <1>6, <2>2
  <2>3. CASE f = e
    <3>1. ~ (e.id < e.id) /\ \A g \in HeldEntries : ~ (e.id < g.id)
      BY <1>2, <1>3
    <3> QED
      BY <1>2, <1>6, <2>3, <3>1
  <2> QED
    BY <1>2, <2>1, <2>2, <2>3
<1>7. \A x \in DOMAIN seg' :
        /\ Increasing(body'[seg'[x]]) /\ body'[seg'[x]][1].ts = x
        /\ \A y \in DOMAIN seg' : x # y => Apart(body'[seg'[x]], body'[seg'[y]])
  BY <1>1 DEF FileOrder
<1>8. \A x \in DOMAIN seg' :
        /\ Precedes(body'[seg'[x]], mem')
        /\ \A t \in Unwritten' : Apart(body'[seg'[x]], sst'[t].table)
  BY <1>1, <1>5
<1> QED
  BY <1>6, <1>7, <1>8 DEF FileOrder, Apart, Precedes, Increasing

LEMMA OrderOther ==
    ASSUME StorageInv, FileOrder, HeldEntries' = HeldEntries,
           FileKept \/ \E t \in Flushers : FileNamed(t)
    PROVE  FileOrder'
<1>1. \A e, f \in HeldEntries' :
        StreamOf[e.kind] = StreamOf[f.kind] /\ e.id < f.id => e.ts <= f.ts
  BY DEF FileOrder
<1>2. ASSUME NEW x \in DOMAIN seg, seg'[x] = seg[x], body'[seg[x]] = body[seg[x]], mem' = mem,
             Unwritten' \subseteq Unwritten,
             \A t \in Unwritten' : sst'[t].table = sst[t].table
      PROVE  /\ Increasing(body'[seg'[x]]) /\ body'[seg'[x]][1].ts = x
             /\ Precedes(body'[seg'[x]], mem')
             /\ \A t \in Unwritten' : Apart(body'[seg'[x]], sst'[t].table)
  <2>1. /\ Increasing(body[seg[x]]) /\ body[seg[x]][1].ts = x /\ Precedes(body[seg[x]], mem)
        /\ \A t \in Unwritten : Apart(body[seg[x]], sst[t].table)
    BY DEF FileOrder
  <2> QED
    BY <1>2, <2>1
<1>3. CASE FileKept
  <2>1. \A x \in DOMAIN seg' :
          /\ Increasing(body'[seg'[x]]) /\ body'[seg'[x]][1].ts = x
          /\ Precedes(body'[seg'[x]], mem')
          /\ \A t \in Unwritten' : Apart(body'[seg'[x]], sst'[t].table)
    BY <1>2, <1>3 DEF FileKept
  <2>2. \A x, y \in DOMAIN seg' : x # y => Apart(body'[seg'[x]], body'[seg'[y]])
    BY <1>3 DEF FileKept, FileOrder
  <2> QED
    BY <1>1, <2>1, <2>2 DEF FileOrder, Apart, Precedes, Increasing
<1>4. ASSUME NEW t \in Flushers, FileNamed(t) PROVE FileOrder'
  <2> DEFINE n == FileTime(t)
             q == sst[t].table
  <2>1. /\ t \in Unwritten /\ Unwritten' = Unwritten \ {t} /\ mem' = mem /\ sst' = sst /\ body' = body
        /\ n \notin DOMAIN seg /\ DOMAIN seg' = DOMAIN seg \cup {n}
        /\ \A x \in DOMAIN seg : seg'[x] = seg[x]
        /\ body'[seg'[n]] = q
    BY <1>4 DEF FileNamed
  <2>2. ASSUME NEW x \in DOMAIN seg
        PROVE  /\ Increasing(body'[seg'[x]]) /\ body'[seg'[x]][1].ts = x
               /\ Precedes(body'[seg'[x]], mem')
               /\ \A u \in Unwritten' : Apart(body'[seg'[x]], sst'[u].table)
    BY <1>2, <2>1
  <2>3. /\ Increasing(q) /\ q[1].ts = n /\ Precedes(q, mem')
        /\ \A u \in Unwritten' : Apart(q, sst'[u].table)
    BY <2>1 DEF StorageInv, MemoryInLogOrder, FileTime, Apart
  <2>4. ASSUME NEW x \in DOMAIN seg' , NEW y \in DOMAIN seg', x # y
        PROVE  Apart(body'[seg'[x]], body'[seg'[y]])
    <3>1. CASE x \in DOMAIN seg /\ y \in DOMAIN seg
      BY <2>1, <2>4, <3>1 DEF FileOrder
    <3>2. CASE x \in DOMAIN seg /\ y = n
      <4>1. Apart(body[seg[x]], q)
        BY <2>1, <3>2 DEF FileOrder
      <4> QED
        BY <2>1, <3>2, <4>1
    <3>3. CASE x = n /\ y \in DOMAIN seg
      <4>1. Apart(body[seg[y]], q)
        BY <2>1, <3>3 DEF FileOrder
      <4>2. Apart(q, body[seg[y]])
        BY <4>1 DEF Apart
      <4> QED
        BY <2>1, <3>3, <4>2
    <3> QED
      BY <2>1, <2>4, <3>1, <3>2, <3>3
  <2> HIDE DEF n, q
  <2>5. \A x \in DOMAIN seg' :
          /\ Increasing(body'[seg'[x]]) /\ body'[seg'[x]][1].ts = x
          /\ Precedes(body'[seg'[x]], mem')
          /\ \A u \in Unwritten' : Apart(body'[seg'[x]], sst'[u].table)
    BY <2>1, <2>2, <2>3
  <2> QED
    BY <1>1, <2>4, <2>5 DEF FileOrder, Apart, Precedes, Increasing
<1> QED
  BY <1>3, <1>4

(* Names in order are appends in order, if each file is of one stream.        *)
LEMMA OrderSeen ==
    ASSUME StorageInv, FilesInv, FileOrder, Unmixed
    PROVE  VisibleInOrder
<1>1. Increasing(mem)
  BY DEF StorageInv, MemoryInLogOrder
<1>2. ASSUME NEW x \in DOMAIN seg
      PROVE  /\ Increasing(body[seg[x]]) /\ Follows(mem, body[seg[x]])
             /\ body[seg[x]][1] \in Range(body[seg[x]]) /\ body[seg[x]][1] \in HeldEntries
             /\ body[seg[x]][1] \in Entry /\ body[seg[x]][1].ts = x /\ x \in Nat
  <2>1. Increasing(body[seg[x]]) /\ body[seg[x]][1].ts = x /\ Precedes(body[seg[x]], mem)
    BY DEF FileOrder
  <2>2. body[seg[x]] \in Seq(Entry) /\ Len(body[seg[x]]) = Capacity
    BY DEF StorageInv, Typed, FilesInv, FilesWhole
  <2>3. 1 \in DOMAIN body[seg[x]] /\ body[seg[x]][1] \in Entry
    BY <2>2, UnitAssumption
  <2>4. body[seg[x]][1] \in Range(body[seg[x]])
    BY <2>3 DEF Range
  <2>5. x \in Nat
    BY <2>1, <2>3 DEF Entry
  <2> QED
    BY <2>1, <2>3, <2>4, <2>5 DEF Precedes, Follows, HeldEntries, FileEntries
<1>3. ASSUME NEW x \in DOMAIN seg, NEW y \in DOMAIN seg, x < y
      PROVE  Follows(body[seg[y]], body[seg[x]])
  <2> DEFINE p == body[seg[x]]
             q == body[seg[y]]
  <2> SUFFICES ASSUME NEW e \in Range(p), NEW f \in Range(q),
                      StreamOf[e.kind] = StreamOf[f.kind]
               PROVE  e.id < f.id
    BY DEF Follows
  <2>1. x # y /\ x \in Nat /\ y \in Nat
    BY <1>2, <1>3
  <2>2. StreamOf[p[1].kind] = StreamOf[q[1].kind]
    BY DEF Unmixed
  <2>3. CASE Precedes(p, q)
    BY <2>3 DEF Precedes
  <2>4. CASE Precedes(q, p)
    <3>1. q[1].id < p[1].id
      BY <1>2, <2>4 DEF Precedes
    <3>2. q[1].ts <= p[1].ts
      BY <1>2, <2>2, <3>1 DEF FileOrder
    <3> QED
      BY <1>2, <1>3, <2>1, <3>2
  <2> QED
    BY <2>1, <2>3, <2>4 DEF FileOrder, Apart
<1> QED
  BY <1>1, <1>2, <1>3 DEF VisibleInOrder

(* VisibleInOrder: without a crash, with distinct names and with files of one *)
(* stream each, a query that reads files by name and then the memtable meets  *)
(* the blocks of a stream in the order of their appends, whichever of any     *)
(* number of flush threads came first.                                        *)
THEOREM VisibleAlwaysInOrder ==
    Spec /\ []DistinctNames /\ [](crashes = 0) /\ []Unmixed => []VisibleInOrder
<1>1. Init => FilesInv /\ HeldInv /\ FileOrder
  <2> SUFFICES ASSUME Init PROVE FilesInv /\ HeldInv /\ FileOrder
    OBVIOUS
  <2>1. /\ DOMAIN tmp = {} /\ DOMAIN seg = {} /\ Unwritten = {} /\ mem = << >>
        /\ main = "down" /\ records = 0
    BY DEF Init, W!Init, Unwritten, W!IdleFlush
  <2>2. Range(mem) = {}
    BY <2>1 DEF Range
  <2>3. HeldEntries = {}
    BY <2>1, <2>2 DEF HeldEntries, FileEntries, MemoryEntries
  <2> QED
    BY <2>1, <2>3 DEF FilesInv, FilesWhole, HeldInv, HeldBelow, EmptyBefore, FileOrder
<1>2. StorageInv /\ FilesInv /\ HeldInv /\ FileOrder /\ DistinctNames /\ [Next]_vars
        /\ crashes = 0 /\ (crashes = 0)' => FilesInv' /\ HeldInv' /\ FileOrder'
  <2> SUFFICES ASSUME StorageInv, FilesInv, HeldInv, FileOrder, DistinctNames, [Next]_vars,
                      crashes = 0, crashes' = 0
               PROVE  FilesInv' /\ HeldInv' /\ FileOrder'
    OBVIOUS
  <2>1. FilesInv'
    BY FilesStep DEF DistinctNames
  <2>2. HeldInv'
    BY HeldAppend, HeldOther
  <2>3. CASE AppendApply
    BY <2>1, <2>2, <2>3, HeldAppend, OrderAppend
  <2>4. CASE ~AppendApply
    BY <2>1, <2>2, <2>4, HeldOther, FilesMove, OrderOther
  <2> QED
    BY <2>3, <2>4
<1>3. StorageInv /\ FilesInv /\ FileOrder /\ Unmixed => VisibleInOrder
  BY OrderSeen
<1> QED
  BY <1>1, <1>2, <1>3, StorageInvariant, PTL DEF Spec

-----------------------------------------------------------------------------
(* When names are distinct *)

\* One stream, and no frame shorter than a millisecond.
SpacedFrames ==
    /\ \A r, s \in Streams : r = s
    /\ \A k \in Kinds : RawOf[k] >= Rate

\* The times of the blocks held follow their numbers, all of them before the
\* time of the next; a file has the time of its first block as its name, and
\* that block is no longer in memory.
TimesInv ==
    /\ \A e \in HeldEntries :
         e.ts < Timestamp(StreamOf[e.kind], offsets[StreamOf[e.kind]])
    /\ \A e, f \in HeldEntries : e.id < f.id => e.ts < f.ts
    /\ \A x \in DOMAIN seg :
         /\ body[seg[x]][1].ts = x /\ body[seg[x]][1] \in FileEntries
         /\ \A e \in MemoryEntries : e.id # body[seg[x]][1].id

(* A frame of a millisecond or more moves the time on.                        *)
LEMMA TimestampAdvances ==
    ASSUME NEW s \in Streams, NEW n \in Nat, NEW d \in Nat, d >= Rate
    PROVE  Timestamp(s, n) < Timestamp(s, n + d)
<1> DEFINE p == n \div Rate
           q == (n + d) \div Rate
<1>1. Rate \in Nat /\ Rate > 0 /\ Ref[s] \in Nat
  BY UnitAssumption
<1>2. /\ p \in Nat /\ q \in Nat
      /\ Rate * p <= n /\ n + d < Rate * (q + 1)
  BY <1>1
<1> HIDE DEF p, q
<1>3. ASSUME q <= p PROVE FALSE
  <2>1. PICK c \in Nat : p = q + c
    <3>1. p - q \in Nat /\ p = q + (p - q)
      BY <1>2, <1>3
    <3> QED
      BY <3>1
  <2>2. Rate * p = Rate * q + Rate * c /\ Rate * (q + 1) = Rate * q + Rate
    BY <1>1, <1>2, <2>1
  <2>3. Rate * c \in Nat /\ Rate * q \in Nat
    BY <1>1, <1>2, <2>1
  <2> QED
    BY <1>1, <1>2, <2>2, <2>3
<1>4. p < q
  BY <1>2, <1>3
<1> QED
  BY <1>1, <1>2, <1>4 DEF Timestamp, p, q

(* The first block of the table of a thread is in memory.                     *)
LEMMA TableFirst ==
    ASSUME StorageInv, FilesInv, NEW t \in Unwritten
    PROVE  /\ sst[t].table[1] \in MemoryEntries /\ sst[t].table[1] \in Range(sst[t].table)
           /\ sst[t].table[1] \in Entry
<1>1. sst[t].table \in Seq(Entry) /\ Len(sst[t].table) = Capacity
  BY DEF StorageInv, Typed, Sst, FilesInv, Unwritten
<1>2. 1 \in DOMAIN sst[t].table /\ sst[t].table[1] \in Entry
  BY <1>1, UnitAssumption
<1> QED
  BY <1>2 DEF MemoryEntries, Range

(* Then no two tables under way, and no table and file, have the same time.   *)
LEMMA TimesDistinct ==
    ASSUME StorageInv, FilesInv, HeldInv, TimesInv
    PROVE  DistinctNames
<1>1. ASSUME NEW t \in Unwritten, NEW u \in Unwritten, t # u PROVE FileTime(t) # FileTime(u)
  <2> DEFINE e == sst[t].table[1]
             f == sst[u].table[1]
  <2>1. /\ e \in HeldEntries /\ f \in HeldEntries /\ e \in Entry /\ f \in Entry
        /\ e \in Range(sst[t].table) /\ f \in Range(sst[u].table)
    BY TableFirst DEF HeldEntries
  <2>2. e.id < f.id \/ f.id < e.id
    BY <1>1, <2>1 DEF StorageInv, MemoryInLogOrder, Precedes
  <2>3. e.ts \in Nat /\ f.ts \in Nat
    BY <2>1 DEF Entry
  <2>4. e.ts < f.ts \/ f.ts < e.ts
    BY <2>1, <2>2 DEF TimesInv
  <2> QED
    BY <2>3, <2>4 DEF FileTime
<1>2. ASSUME NEW t \in Unwritten, FileTime(t) \in DOMAIN seg PROVE FALSE
  <2> DEFINE x == FileTime(t)
             e == sst[t].table[1]
             f == body[seg[x]][1]
  <2>1. e \in HeldEntries /\ e \in MemoryEntries /\ e \in Entry
    BY TableFirst DEF HeldEntries
  <2>2. f \in HeldEntries /\ f.ts = x /\ e.id # f.id
    BY <1>2, <2>1 DEF TimesInv, HeldEntries
  <2>3. f \in Entry
    BY <2>2 DEF HeldInv, HeldBelow
  <2>4. e.ts = x
    BY DEF FileTime
  <2> HIDE DEF e, f, x
  <2>5. e.id \in Int /\ f.id \in Int /\ e.ts \in Nat /\ f.ts \in Nat
    BY <2>1, <2>3, LogAssumption DEF Entry
  <2>6. e.id < f.id \/ f.id < e.id
    BY <2>2, <2>5
  <2>7. e.ts < f.ts \/ f.ts < e.ts
    BY <2>1, <2>2, <2>6 DEF TimesInv
  <2> QED
    BY <2>2, <2>4, <2>5, <2>7
<1> QED
  BY <1>1, <1>2 DEF DistinctNames, DistinctTimes

(* Every step keeps the times in order.                                       *)
LEMMA TimesAppend ==
    ASSUME StorageInv, FilesInv, HeldInv, TimesInv, SpacedFrames, AppendApply,
           NEW e \in Entry, Appended(e)
    PROVE  TimesInv'
<1> DEFINE s == StreamOf[cur[2]]
           d == RawOf[cur[2]]
<1>1. /\ main = "apply" /\ UNCHANGED <<seg, body>>
      /\ offsets' = [offsets EXCEPT ![s] = offsets[s] + d]
      /\ MemtableAppend(e) /\ HeldEntries' = HeldEntries \cup {e}
      /\ e.id = records /\ e.ts = Timestamp(StreamOf[e.kind], offsets[StreamOf[e.kind]])
  BY DEF AppendApply, Appended, disk
<1>2. s \in Streams /\ d \in Nat /\ d >= Rate /\ offsets \in [Streams -> Nat]
  BY <1>1, KindAssumption DEF StorageInv, InStep, Typed, Ops, SpacedFrames
<1>3. \A f \in HeldEntries' : f \in Entry /\ StreamOf[f.kind] = s
  <2>1. \A f \in HeldEntries' : f \in Entry
    BY <1>1 DEF HeldInv, HeldBelow
  <2> QED
    BY <1>2, <2>1, KindAssumption DEF SpacedFrames, Entry
<1>4. /\ offsets'[s] = offsets[s] + d /\ offsets[s] \in Nat
  BY <1>1, <1>2
<1> DEFINE now == Timestamp(s, offsets[s])
           then == Timestamp(s, offsets[s] + d)
<1>5. now < then /\ now \in Nat /\ then \in Nat
  <2> HIDE DEF s, d
  <2>1. offsets[s] + d \in Nat
    BY <1>2, <1>4
  <2> QED
    BY <1>2, <1>4, <2>1, TimestampAdvances, TimestampNat
<1>6. e.ts = now
  BY <1>1, <1>3
<1>7. \A f \in HeldEntries : f.ts < now /\ f.ts \in Nat /\ f.id < records /\ f.id \in Int
  <2>1. \A f \in HeldEntries : f \in Entry /\ StreamOf[f.kind] = s
    BY <1>1, <1>3
  <2>2. \A f \in HeldEntries : f.ts < now /\ f.id < records
    BY <1>1, <2>1 DEF TimesInv, HeldInv, HeldBelow
  <2> QED
    BY <2>1, <2>2, LogAssumption DEF Entry
<1>8. Timestamp(s, offsets'[s]) = then
  BY <1>4
<1> HIDE DEF s, d, now, then
<1>9. ASSUME NEW f \in HeldEntries' PROVE f.ts < then /\ StreamOf[f.kind] = s
  BY <1>1, <1>3, <1>5, <1>6, <1>7, <1>9
<1>10. ASSUME NEW f \in HeldEntries', NEW h \in HeldEntries', f.id < h.id PROVE f.ts < h.ts
  <2>1. CASE f \in HeldEntries /\ h \in HeldEntries
    BY <1>10, <2>1 DEF TimesInv
  <2>2. CASE f \in HeldEntries /\ h = e
    BY <1>6, <1>7, <2>2
  <2>3. CASE f = e
    <3>1. records \in Nat
      BY DEF StorageInv, W!TypeOK
    <3>2. ~(e.id < e.id) /\ \A g \in HeldEntries : ~(e.id < g.id)
      BY <1>1, <1>7, <3>1
    <3> QED
      BY <1>1, <1>10, <2>3, <3>2
  <2> QED
    BY <1>1, <1>10, <2>1, <2>2, <2>3
<1>11. FileEntries' = FileEntries /\ MemoryEntries' = MemoryEntries \cup {e}
  BY <1>1, HeldGrows DEF FileEntries
<1>12. ASSUME NEW x \in DOMAIN seg
       PROVE  /\ body[seg[x]][1].ts = x /\ body[seg[x]][1] \in FileEntries
              /\ \A f \in MemoryEntries' : f.id # body[seg[x]][1].id
  <2>1. body[seg[x]][1] \in FileEntries
    BY DEF TimesInv
  <2>2. e.id # body[seg[x]][1].id
    <3>1. body[seg[x]][1].id < records /\ body[seg[x]][1].id \in Int
      BY <1>7, <2>1 DEF HeldEntries
    <3>2. records \in Nat
      BY DEF StorageInv, W!TypeOK
    <3> QED
      BY <1>1, <3>1, <3>2
  <2> QED
    BY <1>11, <2>2 DEF TimesInv
<1>13. \A f \in HeldEntries' : f.ts < Timestamp(StreamOf[f.kind], offsets'[StreamOf[f.kind]])
  BY <1>8, <1>9
<1>14. \A x \in DOMAIN seg' : /\ body'[seg'[x]][1].ts = x /\ body'[seg'[x]][1] \in FileEntries'
                              /\ \A f \in MemoryEntries' : f.id # body'[seg'[x]][1].id
  BY <1>1, <1>11, <1>12
<1> QED
  BY <1>10, <1>13, <1>14 DEF TimesInv, Timestamp

LEMMA TimesStep ==
    ASSUME StorageInv, FilesInv, HeldInv, TimesInv, SpacedFrames, [Next]_vars,
           crashes = 0, crashes' = 0
    PROVE  TimesInv'
<1>1. CASE AppendApply
  <2>1. \E e \in Entry : Appended(e)
    BY <1>1, HeldAppend
  <2> QED
    BY <1>1, <2>1, TimesAppend
<1>2. CASE ~AppendApply
  <2>1. DistinctNames
    BY TimesDistinct
  <2>2. HeldEntries' = HeldEntries
    BY <1>2, <2>1, HeldOther
  <2>3. \A f \in HeldEntries' : f.ts < Timestamp(StreamOf[f.kind], offsets'[StreamOf[f.kind]])
    <3>1. CASE offsets' = offsets
      BY <2>2, <3>1 DEF TimesInv
    <3>2. CASE Start
      <4>1. main = "down"
        BY <3>2 DEF Start
      <4>2. HeldEntries = {}
        BY <4>1, NothingBeforeServing DEF HeldInv, EmptyBefore, HeldEntries, FileEntries
      <4> QED
        BY <2>2, <4>2
    <3>3. ~Crash /\ ~ReplayApply
      BY NothingBeforeServing DEF Crash, W!Crash, ReplayApply, HeldInv, EmptyBefore
    <3>4. offsets' = offsets \/ Start
      <4>1. ASSUME NEW t \in Flushers, FlushStep(t) PROVE offsets' = offsets
        BY <4>1 DEF FlushStep, FlushLog, SstableOpen, SstableWrite, SstableRename, FlushEnd
      <4>2. ASSUME NEW kind \in Kinds, AppendRotate(kind) \/ AppendLog(kind)
            PROVE  offsets' = offsets
        BY <4>2 DEF AppendRotate, AppendLog
      <4>6. ASSUME AppendSync PROVE offsets' = offsets
        BY <4>6 DEF AppendSync
      <4>3. ASSUME NEW g \in rp.todo, ReplayOpen(g) PROVE offsets' = offsets
        BY <4>3 DEF ReplayOpen
      <4>4. ASSUME StartFails \/ ReplaySkip \/ ReplayDone PROVE offsets' = offsets
        BY <4>4 DEF StartFails, ReplaySkip, ReplayDone
      <4>5. CASE UNCHANGED vars
        BY <4>5 DEF vars
      <4> QED
        BY <1>2, <3>3, <4>1, <4>2, <4>3, <4>4, <4>5, <4>6 DEF Next, Replay
    <3> QED
      BY <3>1, <3>2, <3>4
  <2>4. FileKept \/ \E t \in Flushers : FileNamed(t)
    BY <1>2, <2>1, FilesMove
  <2>5. \A x \in DOMAIN seg' : /\ body'[seg'[x]][1].ts = x /\ body'[seg'[x]][1] \in FileEntries'
                               /\ \A f \in MemoryEntries' : f.id # body'[seg'[x]][1].id
    <3>1. CASE FileKept
      <4>1. FileEntries' = FileEntries
        BY <3>1 DEF FileKept, FileEntries
      <4> QED
        BY <3>1, <4>1 DEF FileKept, TimesInv
    <3>2. ASSUME NEW t \in Flushers, FileNamed(t)
          PROVE  \A x \in DOMAIN seg' :
                   /\ body'[seg'[x]][1].ts = x /\ body'[seg'[x]][1] \in FileEntries'
                   /\ \A f \in MemoryEntries' : f.id # body'[seg'[x]][1].id
      <4>1. /\ FileEntries' = FileEntries \cup Range(sst[t].table)
            /\ MemoryEntries' \subseteq MemoryEntries
        BY <3>2 DEF FileNamed, FileEntries, MemoryEntries
      <4>2. ASSUME NEW x \in DOMAIN seg
            PROVE  /\ body'[seg'[x]][1].ts = x /\ body'[seg'[x]][1] \in FileEntries'
                   /\ \A f \in MemoryEntries' : f.id # body'[seg'[x]][1].id
        BY <3>2, <4>1, <4>2 DEF FileNamed, TimesInv
      <4>3. /\ t \in Unwritten /\ sst[t].table[1] \in Range(sst[t].table)
            /\ sst[t].table[1] \in Entry
        BY <3>2, TableFirst DEF FileNamed
      <4>4. ASSUME NEW f \in MemoryEntries' PROVE f.id # sst[t].table[1].id
        <5>1. f \in Range(mem) \/ \E u \in Unwritten \ {t} : f \in Range(sst[u].table)
          BY <3>2, <4>4 DEF FileNamed, MemoryEntries
        <5>2. f.id < sst[t].table[1].id \/ sst[t].table[1].id < f.id
          BY <4>3, <5>1 DEF StorageInv, MemoryInLogOrder, Precedes
        <5>3. sst[t].table[1].id \in Int
          BY <4>3, LogAssumption DEF Entry
        <5> QED
          BY <5>2, <5>3
      <4>5. body'[seg'[FileTime(t)]] = sst[t].table
        BY <3>2 DEF FileNamed
      <4>6. sst[t].table[1].ts = FileTime(t)
        BY DEF FileTime
      <4> QED
        BY <3>2, <4>1, <4>2, <4>3, <4>4, <4>5, <4>6 DEF FileNamed
    <3> QED
      BY <2>4, <3>1, <3>2
  <2>6. \A e, f \in HeldEntries' : e.id < f.id => e.ts < f.ts
    BY <2>2 DEF TimesInv
  <2> QED
    BY <2>3, <2>5, <2>6 DEF TimesInv, Timestamp
<1> QED
  BY <1>1, <1>2

(* A server with one stream and no frame shorter than a millisecond keeps the *)
(* names of its files distinct as long as it does not crash; so the theorems  *)
(* above apply to it without that hypothesis.                                 *)
THEOREM NamesAlwaysDistinct ==
    ASSUME SpacedFrames
    PROVE  Spec /\ [](crashes = 0) => []DistinctNames
<1>1. Init => FilesInv /\ HeldInv /\ TimesInv
  <2> SUFFICES ASSUME Init PROVE FilesInv /\ HeldInv /\ TimesInv
    OBVIOUS
  <2>1. /\ DOMAIN tmp = {} /\ DOMAIN seg = {} /\ Unwritten = {} /\ mem = << >>
        /\ main = "down" /\ records = 0
    BY DEF Init, W!Init, Unwritten, W!IdleFlush
  <2>2. Range(mem) = {}
    BY <2>1 DEF Range
  <2>3. HeldEntries = {}
    BY <2>1, <2>2 DEF HeldEntries, FileEntries, MemoryEntries
  <2> QED
    BY <2>1, <2>3 DEF FilesInv, FilesWhole, HeldInv, HeldBelow, EmptyBefore, TimesInv
<1>2. StorageInv /\ FilesInv /\ HeldInv /\ TimesInv => DistinctNames
  BY TimesDistinct
<1>3. StorageInv /\ FilesInv /\ HeldInv /\ TimesInv /\ [Next]_vars
        /\ crashes = 0 /\ (crashes = 0)' => FilesInv' /\ HeldInv' /\ TimesInv'
  <2> SUFFICES ASSUME StorageInv, FilesInv, HeldInv, TimesInv, [Next]_vars,
                      crashes = 0, crashes' = 0
               PROVE  FilesInv' /\ HeldInv' /\ TimesInv'
    OBVIOUS
  <2>1. DistinctNames
    BY TimesDistinct
  <2>2. FilesInv'
    BY <2>1, FilesStep DEF DistinctNames
  <2>3. HeldInv'
    BY <2>1, HeldAppend, HeldOther
  <2>4. TimesInv'
    BY TimesStep
  <2> QED
    BY <2>2, <2>3, <2>4
<1> QED
  BY <1>1, <1>2, <1>3, StorageInvariant, PTL DEF Spec
(* With one stream whose frames last at least a millisecond nothing more than *)
(* the absence of crashes is needed: the blocks are an append-only store      *)
(* (racs_stream_append, racs_memtable_flush), the log keeps what is in no     *)
(* file, and the checkpoint vouches for files only (racs_wal_truncate).       *)
THEOREM SpacedStreamIsSafe ==
    ASSUME SpacedFrames
    PROVE  Spec /\ [](crashes = 0) =>
               /\ StoreRefined
               /\ []LogKept
               /\ []CheckpointCovered
               /\ []FilesWhole
               /\ []VisibleInOrder
<1>1. Spec /\ [](crashes = 0) => []DistinctNames
  BY NamesAlwaysDistinct
<1>2. DistinctNames => DistinctTimes
  BY DEF DistinctNames
<1>3. StorageInv => Unmixed
  <2> SUFFICES ASSUME StorageInv, NEW x \in DOMAIN seg, NEW e \in Range(body[seg[x]])
               PROVE  StreamOf[e.kind] = StreamOf[body[seg[x]][1].kind]
    BY DEF Unmixed
  <2>1. body[seg[x]] \in Seq(Entry)
    BY DEF StorageInv, Typed
  <2>2. PICK i \in DOMAIN body[seg[x]] : e = body[seg[x]][i]
    BY DEF Range
  <2>3. 1 \in DOMAIN body[seg[x]]
    BY <2>1, <2>2
  <2>4. e \in Entry /\ body[seg[x]][1] \in Entry
    BY <2>1, <2>2, <2>3
  <2> QED
    BY <2>4, KindAssumption DEF SpacedFrames, Entry
<1> QED
  BY <1>1, <1>2, <1>3, StorageInvariant, StoreImplemented, LogAlwaysKept,
     CheckpointAlwaysCovered, FilesAlwaysWhole, VisibleAlwaysInOrder, PTL

=============================================================================
