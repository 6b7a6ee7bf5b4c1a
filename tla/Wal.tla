-------------------------------- MODULE Wal --------------------------------
(***************************************************************************)
(* The write-ahead log of RACS (src/src/wal.c) together with the steps of  *)
(* the memtable flush that touch it (src/src/memtable.c: the manifest,     *)
(* then racs_wal_truncate).                                                *)
(*                                                                         *)
(* One thread appends: the event loop, in racs_wal_append_.  Any number of *)
(* detached flush threads write the manifest and truncate the log, without *)
(* any lock shared with the appender or with each other: every system call *)
(* that another thread can observe is an action of its own.                *)
(*                                                                         *)
(* Bytes are abstracted: a record is its LSN and its operation, and        *)
(* Size[op] is what the record occupies in the file (24 bytes + the op).   *)
(***************************************************************************)
EXTENDS Integers, Sequences, FiniteSets, FiniteSetsExt, SequencesExt

CONSTANTS
    Ops,         \* the operations a record can carry
    Size,        \* bytes of the record of each operation
    SegMax,      \* RACS_WAL_SIZE_64MB
    FsyncEvery,  \* racs_wal_fsync
    Flushers,    \* detached flush threads
    NoOp,        \* "no operation is between rotation and write"
    MaxRecords,  \* bound: records written in a behaviour
    MaxCrashes,  \* bound: process crashes in a behaviour
    MaxLosses    \* bound: power losses in a behaviour

ASSUME SizeAssumption == Size \in [Ops -> Nat \ {0}]
ASSUME FsyncAssumption == FsyncEvery \in Nat \ {0}
ASSUME SegMaxAssumption == SegMax \in Nat
ASSUME NoOpAssumption == NoOp \notin Ops
ASSUME BoundAssumption == MaxRecords \in Nat /\ MaxCrashes \in Nat /\ MaxLosses \in Nat

VARIABLES
    segs,      \* the wal directory: segment number -> its records
    synced,    \* how many records of each segment an fsync has covered
    fd,        \* number of the segment the server's descriptor was opened on
    linked,    \* the file behind fd still has a directory entry
    lsn,       \* wal->lsn
    size,      \* wal->size
    pend,      \* the operation being appended, once its rotation is done
    due,       \* the last record is written and its fsync is still to come
    manifest,  \* checkpoint in the manifest; 0 when absent or truncated
    fl,        \* local state of each flush thread
    up,        \* the process is running
    fresh,     \* history: nothing appended since the log was opened
    records,   \* history: records written
    crashes,   \* history: process crashes
    losses,    \* history: power losses
    old,       \* history: unsynced records when the log was opened
    stray      \* history: a segment younger than the spared one was removed

vars == <<segs, synced, fd, linked, lsn, size, pend, due, manifest, fl, up,
          fresh, records, crashes, losses, old, stray>>

Record == [lsn : Nat, op : Ops]
PC == {"idle", "manifest_open", "manifest_write", "sstable", "segno",
       "checkpoint", "list", "scan", "remove"}
Flush == [pc : PC, max_lsn : Nat, segno : Nat, ckpt : Nat, todo : SUBSET Nat]
IdleFlush == [pc |-> "idle", max_lsn |-> 0, segno |-> 0, ckpt |-> 0, todo |-> {}]

-----------------------------------------------------------------------------
(* Operators on the directory *)

Dir == DOMAIN segs

\* Mutant: the comparison in the loop over the directory is the wrong way round.
SegnoLowest == IF Dir = {} THEN 0 ELSE Min(Dir)

\* racs_wal_segno: the highest segment number, 0 in an empty directory.
Segno == IF Dir = {} THEN 0 ELSE Max(Dir)

\* Mutant: the LSN of the first record.
MaxLsnFirst(s) == IF s = << >> THEN 0 ELSE Head(s).lsn

\* racs_wal_segment_max_lsn: the last eight bytes of the file, 0 when short.
MaxLsn(s) == IF s = << >> THEN 0 ELSE Last(s).lsn

Bytes(s) == FoldLeft(LAMBDA n, r : n + Size[r.op], 0, s)

\* open(path, O_CREAT | O_APPEND): an existing file keeps its contents.
Created(f, g, v) == [h \in DOMAIN f \cup {g} |-> IF h \in DOMAIN f THEN f[h] ELSE v]

\* The records, as segment and position, that no fsync has covered.
Unsynced == UNION {{<<g, i>> : i \in (synced[g] + 1)..Len(segs[g])} : g \in Dir}

-----------------------------------------------------------------------------
(* The appending thread *)

\* racs_wal_create: racs_wal_open picks the newest segment, or the next number
\* when that file is full; racs_wal_init_lsn takes the LSN of the last record
\* of the file just opened.  wal->size stays 0 whatever the file holds.
WalOpenSegno ==
    IF Segno \in Dir /\ Bytes(segs[Segno]) >= SegMax THEN Segno + 1 ELSE Segno

Create ==
    /\ ~up
    /\ up' = TRUE
    /\ fd' = WalOpenSegno
    /\ linked' = TRUE
    /\ segs' = Created(segs, fd', << >>)
    /\ synced' = Created(synced, fd', 0)
    /\ lsn' = MaxLsn(segs'[fd'])
    /\ size' = 0
    /\ pend' = NoOp /\ due' = FALSE
    /\ fresh' = TRUE /\ stray' = FALSE
    /\ old' = Unsynced
    /\ UNCHANGED <<manifest, fl, records, crashes, losses>>

\* Mutant: the old file is closed without an fsync.
RotateUnsynced(op) ==
    /\ up /\ pend = NoOp /\ ~due /\ records < MaxRecords
    /\ size + Size[op] >= SegMax
    /\ fd' = Segno + 1
    /\ linked' = TRUE
    /\ size' = 0
    /\ segs' = Created(segs, fd', << >>)
    /\ synced' = Created(synced, fd', 0)
    /\ pend' = op
    /\ UNCHANGED <<lsn, due, manifest, fl, up, fresh, records, crashes, losses, old, stray>>

\* racs_wal_rotate, called by racs_wal_append_ when the record would bring the
\* segment to its limit: fsync and close the old file, open the next number.
Rotate(op) ==
    /\ up /\ pend = NoOp /\ ~due /\ records < MaxRecords
    /\ size + Size[op] >= SegMax
    /\ fd' = Segno + 1
    /\ linked' = TRUE
    /\ size' = 0
    /\ segs' = Created(segs, fd', << >>)
    /\ synced' = Created(IF linked THEN [synced EXCEPT ![fd] = Len(segs[fd])]
                                   ELSE synced, fd', 0)
    /\ pend' = op
    /\ UNCHANGED <<lsn, due, manifest, fl, up, fresh, records, crashes, losses, old, stray>>

\* Mutant: the record goes to the start of the file.
WriteFront(op) ==
    /\ up /\ ~due /\ records < MaxRecords
    /\ pend = op \/ (pend = NoOp /\ size + Size[op] < SegMax)
    /\ size' = size + Size[op]
    /\ segs' = IF linked THEN [segs EXCEPT ![fd] = <<[lsn |-> lsn, op |-> op]>> \o @]
                         ELSE segs
    /\ due' = (lsn % FsyncEvery = 0)
    /\ lsn' = lsn + 1
    /\ pend' = NoOp
    /\ records' = records + 1
    /\ fresh' = FALSE
    /\ UNCHANGED <<synced, fd, linked, manifest, fl, up, crashes, losses, old, stray>>

\* The rest of racs_wal_append_: write, size and lsn++; every FsyncEvery-th LSN
\* asks for an fsync, which is a step of its own because the power can fail
\* before it.  The code increments lsn behind the fsync, but only the appending
\* thread reads it.  A record written through an unlinked descriptor reaches no
\* file that can be opened again.
Write(op) ==
    /\ up /\ ~due /\ records < MaxRecords
    /\ pend = op \/ (pend = NoOp /\ size + Size[op] < SegMax)
    /\ size' = size + Size[op]
    /\ segs' = IF linked THEN [segs EXCEPT ![fd] = Append(@, [lsn |-> lsn, op |-> op])]
                         ELSE segs
    /\ due' = (lsn % FsyncEvery = 0)
    /\ lsn' = lsn + 1
    /\ pend' = NoOp
    /\ records' = records + 1
    /\ fresh' = FALSE
    /\ UNCHANGED <<synced, fd, linked, manifest, fl, up, crashes, losses, old, stray>>

\* fsync(wal->fd), before racs_wal_append_ returns.
Fsync ==
    /\ up /\ due
    /\ synced' = IF linked THEN [synced EXCEPT ![fd] = Len(segs[fd])] ELSE synced
    /\ due' = FALSE
    /\ UNCHANGED <<segs, fd, linked, lsn, size, pend, manifest, fl, up, fresh, records,
                   crashes, losses, old, stray>>

-----------------------------------------------------------------------------
(* A flush thread: racs_memtable_flush *)

Goto(t, pc) == fl' = [fl EXCEPT ![t].pc = pc]

WalUnchanged == UNCHANGED <<segs, synced, fd, linked, lsn, size, pend, due>>
RestUnchanged == UNCHANGED <<up, fresh, records, crashes, losses, old, stray>>

\* pthread_create in racs_memtable_flush_async.  l is the LSN of the table's
\* last entry, the value of wal->lsn when that entry was put in: an append puts
\* its record into the log before it finds the table full, so wal->lsn has moved
\* on since, except during replay, which appends nothing to the log.
FlushLsns == 0..(IF fresh THEN lsn ELSE lsn - 1)

FlushStart(t, l) ==
    /\ up /\ pend = NoOp /\ ~due /\ fl[t].pc = "idle" /\ l \in FlushLsns
    /\ fl' = [fl EXCEPT ![t] = [IdleFlush EXCEPT !.pc = "manifest_open", !.max_lsn = l]]
    /\ WalUnchanged /\ RestUnchanged /\ UNCHANGED manifest

\* racs_memtable_write_lsn, first half: open(..., O_TRUNC) empties the manifest.
ManifestOpen(t) ==
    /\ fl[t].pc = "manifest_open"
    /\ manifest' = 0
    /\ Goto(t, "manifest_write")
    /\ WalUnchanged /\ RestUnchanged

\* Mutant: the manifest gets the LSN the log has reached meanwhile.
ManifestWriteLive(t) ==
    /\ fl[t].pc = "manifest_write"
    /\ manifest' = lsn
    /\ Goto(t, "sstable")
    /\ WalUnchanged /\ RestUnchanged

\* racs_memtable_write_lsn, second half: write and fsync.
ManifestWrite(t) ==
    /\ fl[t].pc = "manifest_write"
    /\ manifest' = fl[t].max_lsn
    /\ Goto(t, "sstable")
    /\ WalUnchanged /\ RestUnchanged

\* racs_memtable_write, which touches nothing of the log.
SstableWrite(t) ==
    /\ fl[t].pc = "sstable"
    /\ Goto(t, "segno")
    /\ WalUnchanged /\ RestUnchanged /\ UNCHANGED manifest

\* racs_wal_truncate reads the highest segment number ...
TruncSegno(t) ==
    /\ fl[t].pc = "segno"
    /\ fl' = [fl EXCEPT ![t].pc = "checkpoint", ![t].segno = Segno]
    /\ WalUnchanged /\ RestUnchanged /\ UNCHANGED manifest

\* ... then the checkpoint in the manifest ...
TruncCheckpoint(t) ==
    /\ fl[t].pc = "checkpoint"
    /\ fl' = [fl EXCEPT ![t].pc = "list", ![t].ckpt = manifest]
    /\ WalUnchanged /\ RestUnchanged /\ UNCHANGED manifest

\* Mutant: no segment is left out.
TruncListAll(t) ==
    /\ fl[t].pc = "list"
    /\ fl' = [fl EXCEPT ![t].pc = "scan", ![t].todo = Dir]
    /\ WalUnchanged /\ RestUnchanged /\ UNCHANGED manifest

\* ... then the directory, and walks it in ascending order, leaving out the
\* segment it takes for the active one.
TruncList(t) ==
    /\ fl[t].pc = "list"
    /\ fl' = [fl EXCEPT ![t].pc = "scan", ![t].todo = Dir \ {fl[t].segno}]
    /\ WalUnchanged /\ RestUnchanged /\ UNCHANGED manifest

IsNext(t, g) == g \in fl[t].todo /\ \A h \in fl[t].todo : g <= h

\* open fails (another thread removed the file), or the segment still holds a
\* record at or above the checkpoint: go on to the next file.
TruncKeep(t, g) ==
    /\ fl[t].pc = "scan" /\ IsNext(t, g)
    /\ g \in Dir => MaxLsn(segs[g]) >= fl[t].ckpt
    /\ fl' = [fl EXCEPT ![t].todo = @ \ {g}]
    /\ WalUnchanged /\ RestUnchanged /\ UNCHANGED manifest

\* The segment ends below the checkpoint: it will be removed.
TruncInspect(t, g) ==
    /\ fl[t].pc = "scan" /\ IsNext(t, g)
    /\ g \in Dir /\ MaxLsn(segs[g]) < fl[t].ckpt
    /\ Goto(t, "remove")
    /\ WalUnchanged /\ RestUnchanged /\ UNCHANGED manifest

\* Mutant: every segment below the spared one goes with it.
TruncRemoveBelow(t, g) ==
    /\ fl[t].pc = "remove" /\ IsNext(t, g)
    /\ segs' = [h \in {h \in Dir : h >= fl[t].segno} |-> segs[h]]
    /\ synced' = [h \in {h \in Dir : h >= fl[t].segno} |-> synced[h]]
    /\ linked' = (linked /\ (up => fd >= fl[t].segno))
    /\ fl' = [fl EXCEPT ![t].pc = "scan", ![t].todo = @ \ {g}]
    /\ stray' = (stray \/ g > fl[t].segno)
    /\ UNCHANGED <<fd, lsn, size, pend, due, manifest, up, fresh, records, crashes, losses, old>>

\* remove(list->files[i]): fails harmlessly when the file is already gone.
TruncRemove(t, g) ==
    /\ fl[t].pc = "remove" /\ IsNext(t, g)
    /\ segs' = [h \in Dir \ {g} |-> segs[h]]
    /\ synced' = [h \in Dir \ {g} |-> synced[h]]
    /\ linked' = (linked /\ (up => g # fd))
    /\ fl' = [fl EXCEPT ![t].pc = "scan", ![t].todo = @ \ {g}]
    /\ stray' = (stray \/ g > fl[t].segno)
    /\ UNCHANGED <<fd, lsn, size, pend, due, manifest, up, fresh, records, crashes, losses, old>>

\* End of racs_wal_truncate and of the thread.
TruncDone(t) ==
    /\ fl[t].pc = "scan" /\ fl[t].todo = {}
    /\ fl' = [fl EXCEPT ![t] = IdleFlush]
    /\ WalUnchanged /\ RestUnchanged /\ UNCHANGED manifest

FlushStep(t) ==
    \/ ManifestOpen(t) \/ ManifestWrite(t) \/ SstableWrite(t)
    \/ TruncSegno(t) \/ TruncCheckpoint(t) \/ TruncList(t)
    \/ \E g \in fl[t].todo :
         TruncKeep(t, g) \/ TruncInspect(t, g) \/ TruncRemove(t, g)
    \/ TruncDone(t)

-----------------------------------------------------------------------------
(* The environment *)

\* The process dies: every thread stops where it is, the files stay.
Crash ==
    /\ up /\ crashes < MaxCrashes
    /\ up' = FALSE
    /\ pend' = NoOp /\ due' = FALSE
    /\ fl' = [t \in Flushers |-> IdleFlush]
    /\ crashes' = crashes + 1
    /\ UNCHANGED <<segs, synced, fd, linked, lsn, size, manifest, fresh, records, losses, old, stray>>

\* The machine dies: each segment is cut to some prefix that contains every
\* record an fsync has covered.
PowerLoss(cut) ==
    /\ up /\ losses < MaxLosses
    /\ \A g \in Dir : cut[g] \in synced[g]..Len(segs[g])
    /\ up' = FALSE
    /\ pend' = NoOp /\ due' = FALSE
    /\ fl' = [t \in Flushers |-> IdleFlush]
    /\ losses' = losses + 1
    /\ segs' = [g \in Dir |-> SubSeq(segs[g], 1, cut[g])]
    /\ synced' = [g \in Dir |-> cut[g]]
    /\ UNCHANGED <<fd, linked, lsn, size, manifest, fresh, records, crashes, old, stray>>

-----------------------------------------------------------------------------

Init ==
    /\ segs = [g \in {} |-> << >>] /\ synced = [g \in {} |-> 0]
    /\ fd = 0 /\ linked = FALSE /\ lsn = 0 /\ size = 0
    /\ pend = NoOp /\ due = FALSE
    /\ manifest = 0
    /\ fl = [t \in Flushers |-> IdleFlush]
    /\ up = FALSE
    /\ records = 0 /\ crashes = 0 /\ losses = 0
    /\ old = {} /\ fresh = FALSE /\ stray = FALSE

Next ==
    \/ Create
    \/ \E op \in Ops : Rotate(op) \/ Write(op)
    \/ Fsync
    \/ \E t \in Flushers : (\E l \in FlushLsns : FlushStart(t, l)) \/ FlushStep(t)
    \/ Crash
    \/ \E cut \in [Dir -> 0..MaxRecords] : PowerLoss(cut)

\* Safety only: that a flush thread ends is checked where its whole path is
\* modelled, in Storage (FlushEnds).
Spec == Init /\ [][Next]_vars

-----------------------------------------------------------------------------
(* Properties *)

TypeOK ==
    /\ Dir \subseteq Nat
    /\ segs \in [Dir -> Seq(Record)]
    /\ synced \in [Dir -> Nat]
    /\ fd \in Nat /\ linked \in BOOLEAN /\ lsn \in Nat /\ size \in Nat
    /\ pend \in Ops \cup {NoOp} /\ due \in BOOLEAN
    /\ manifest \in Nat
    /\ fl \in [Flushers -> Flush]
    /\ up \in BOOLEAN
    /\ records \in Nat /\ crashes \in Nat /\ losses \in Nat /\ fresh \in BOOLEAN /\ stray \in BOOLEAN
    /\ old \subseteq Nat \X Nat

(* The last record of a segment carries the segment's highest LSN, through    *)
(* rotations, restarts that reuse an LSN, and power losses: without it        *)
(* racs_wal_segment_max_lsn, which reads the last eight bytes only, would     *)
(* let racs_wal_truncate remove records above the checkpoint.                 *)
SegmentLsnSorted ==
    \A g \in Dir : \A i, j \in 1..Len(segs[g]) :
        i <= j => segs[g][i].lsn <= segs[g][j].lsn

(* While the descriptor has a directory entry it is the newest segment, so    *)
(* that rotation never reopens a file that already holds records and a        *)
(* restart finds the segment that was being written.                          *)
ActiveIsNewest == up /\ linked => fd \in Dir /\ \A g \in Dir : g <= fd

(* racs_wal_truncate removes a segment only when every record in it lies      *)
(* below the checkpoint the thread read, whatever the other threads did       *)
(* between the inspection and the removal, unless some thread has removed a   *)
(* segment younger than the one it spares: rotation may have opened that one  *)
(* after the thread read the segment number.                                  *)
CheckedRemoval ==
    ~stray' =>
        \A g \in Dir \ Dir' : \E t \in Flushers :
            /\ fl[t].pc = "remove"
            /\ \A i \in 1..Len(segs[g]) : segs[g][i].lsn < fl[t].ckpt

RemovalSafe == [][CheckedRemoval]_vars

(* What makes SegmentLsnSorted, ActiveIsNewest and RemovalSafe inductive.  No *)
(* segment is younger than the descriptor; every LSN of the active segment is *)
(* at most wal->lsn; no flush thread outlives the process; until a stray      *)
(* removal the segment a thread spares is no younger than the active one, so  *)
(* what it found out about an older segment stays true until it removes it.   *)
DirBelowFd == \A g \in Dir : g <= fd

ActiveLsn == up /\ linked => \A i \in 1..Len(segs[fd]) : segs[fd][i].lsn <= lsn

QuietWhenDown == ~up => \A t \in Flushers : fl[t] = IdleFlush

SparedIsOld ==
    up /\ ~stray =>
        /\ linked
        /\ \A t \in Flushers : fl[t].segno <= fd

TodoSpares ==
    \A t \in Flushers :
        /\ fl[t].segno \notin fl[t].todo
        /\ fl[t].pc \in {"scan", "remove"} \/ fl[t].todo = {}

RemoveChecked ==
    ~stray => \A t \in Flushers : \A g \in Dir :
        fl[t].pc = "remove" /\ IsNext(t, g) /\ g <= fl[t].segno =>
            MaxLsn(segs[g]) < fl[t].ckpt

WalInv ==
    /\ SegmentLsnSorted /\ ActiveIsNewest
    /\ DirBelowFd /\ ActiveLsn /\ QuietWhenDown
    /\ SparedIsOld /\ TodoSpares /\ RemoveChecked

(* However often the log is rotated, segments are removed or the log is       *)
(* opened at another LSN, a power loss takes at most FsyncEvery of the        *)
(* records the running process has written, and that many only between the    *)
(* write of a record whose LSN asks for an fsync and that fsync; otherwise at *)
(* most FsyncEvery - 1 (racs_wal_append_ decides by lsn % racs_wal_fsync,     *)
(* racs_wal_rotate syncs the old segment).                                    *)
SessionFsync ==
    up => Cardinality(Unsynced \ old) <= IF due THEN FsyncEvery ELSE FsyncEvery - 1
=============================================================================
