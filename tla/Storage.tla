------------------------------ MODULE Storage -------------------------------
(***************************************************************************)
(* The storage path of RACS: an APPEND goes through the write-ahead log    *)
(* (module Wal) into the memtable; full memtables are written to sstables  *)
(* by flush threads; a restart rebuilds the stream offsets from the        *)
(* sstables and replays the log.  Sources: src/src/stream.c, memtable.c,   *)
(* offsets.c, wal_replay.c, server.c (main).                               *)
(*                                                                         *)
(* The list of memtables is one table (theorem AlwaysOneResident of        *)
(* MemtablesProofs), here the sequence mem.  A block is the number of its  *)
(* append.  All blocks have the same stored size, and only full tables are *)
(* flushed, so two sstables always have the same length in bytes.          *)
(***************************************************************************)
EXTENDS Integers, Sequences, FiniteSets, FiniteSetsExt, SequencesExt

CONSTANTS
    Streams,      \* stream ids, every one with a metadata file
    Kinds,        \* the frames clients send, apart from their contents
    StreamOf,     \* stream of each kind of frame
    RawOf,        \* uncompressed bytes of each kind of frame
    BlockSize,    \* stored bytes of a block (frame.header.block_size)
    RecBytes,     \* bytes of its log record
    Rate,         \* bytes of audio in a millisecond
    Ref,          \* reference timestamp of each stream
    Capacity,     \* memtable.entries of conf.yaml
    SegMax, FsyncEvery, Flushers, NoOp, MaxRecords, MaxCrashes

ASSUME KindAssumption == StreamOf \in [Kinds -> Streams] /\ RawOf \in [Kinds -> Nat \ {0}]
ASSUME UnitAssumption ==
    /\ BlockSize \in Nat \ {0} /\ RecBytes \in Nat \ {0} /\ Rate \in Nat \ {0}
    /\ Capacity \in Nat \ {0} /\ Ref \in [Streams -> Nat]
ASSUME LogAssumption ==
    /\ SegMax \in Nat /\ FsyncEvery \in Nat \ {0}
    /\ MaxRecords \in Nat /\ MaxCrashes \in Nat
    /\ NoOp \notin (1..MaxRecords) \X Kinds

\* A logged operation: the block, and the kind of frame it came in.
Ops == (1..MaxRecords) \X Kinds
Size == [op \in Ops |-> RecBytes]
MaxLosses == 0

VARIABLES
    segs, synced, fd, linked, lsn, size, pend, due, manifest, fl, up, fresh,
    records, crashes, losses, old, stray,   \* the log, see Wal
    main,     \* the event loop: down, replay, serve, apply, dead
    cur,      \* the operation logged but not yet in the memtable
    mem,      \* entries of the memtable
    sst,      \* per flush thread: its table and its place in racs_memtable_write
    tmp,      \* temporary file of each timestamp: its inode
    seg,      \* sstable file of each timestamp: its inode
    body,     \* contents of each inode
    offsets,  \* racs_offsets: bytes of each stream
    rp,       \* local state of racs_wal_replay
    acked     \* history: blocks whose append returned, with kind and time

W == INSTANCE Wal

wal == <<segs, synced, fd, linked, lsn, size, pend, due, manifest, fl, up, fresh,
         records, crashes, losses, old, stray>>
disk == <<tmp, seg, body>>
vars == <<wal, main, cur, mem, sst, disk, offsets, rp, acked>>

Entry == [id : 1..MaxRecords, kind : Kinds, ts : Nat, lsn : Nat]
IdleSst == [table |-> << >>, step |-> "open", ino |-> 0]
IdleReplay == [ckpt |-> 0, todo |-> {}, recs |-> << >>, pos |-> 0]

-----------------------------------------------------------------------------
(* Operators *)

\* Mutant: the offset passes through an integer of two bits.
TimestampNarrow(s, offset) == Ref[s] + (offset % 4) \div Rate

\* racs_metadata_timestamp
Timestamp(s, offset) == Ref[s] + offset \div Rate

\* Mutant: the LSN is incremented a second time.
EntryOfNext(op, ts) == [id |-> op[1], kind |-> op[2], ts |-> ts, lsn |-> lsn + 1]

\* racs_memtable_append copies wal->lsn, which the log append has already
\* advanced past the record's own LSN.
EntryOf(op, ts) == [id |-> op[1], kind |-> op[2], ts |-> ts, lsn |-> lsn]

\* What a client knows of an entry.
Block(e) == [id |-> e.id, kind |-> e.kind, ts |-> e.ts]

Extended(f, x, v) == [y \in DOMAIN f \cup {x} |-> IF y = x THEN v ELSE f[y]]
Without(f, x) == [y \in DOMAIN f \ {x} |-> f[y]]

\* racs_offsets_init: for every stream the sum of block_size over all entries
\* of all files under seg, temporary files included.
FileBodies == [f \in {<<"seg", x>> : x \in DOMAIN seg} \cup {<<"tmp", x>> : x \in DOMAIN tmp} |->
                  body[IF f[1] = "seg" THEN seg[f[2]] ELSE tmp[f[2]]]]
StoredBlocks(s) ==
    {p \in UNION {{f} \X DOMAIN FileBodies[f] : f \in DOMAIN FileBodies} :
        StreamOf[FileBodies[p[1]][p[2]].kind] = s}
StoredBytes(s) == BlockSize * Cardinality(StoredBlocks(s))

-----------------------------------------------------------------------------
(* The memtable: racs_multi_memtable_append and racs_memtable_append *)

\* Mutant: a table takes one entry more than its capacity.
MemtableHasRoomForOneMore == Len(mem) <= Capacity

MemtableHasRoom == Len(mem) < Capacity

\* The table is full: its flush thread starts, and a new table takes the entry.
MemtableFlush(t) ==
    /\ sst' = [sst EXCEPT ![t] = [IdleSst EXCEPT !.table = mem]]
    /\ W!FlushStart(t, Last(mem).lsn)

\* Mutant: entries are put in at the front.
MemtableAppendFront(e) ==
    \/ /\ MemtableHasRoom
       /\ mem' = <<e>> \o mem
       /\ UNCHANGED <<wal, sst>>
    \/ /\ ~MemtableHasRoom
       /\ mem' = <<e>>
       /\ \E t \in Flushers : MemtableFlush(t)

MemtableAppend(e) ==
    \/ /\ MemtableHasRoom
       /\ mem' = Append(mem, e)
       /\ UNCHANGED <<wal, sst>>
    \/ /\ ~MemtableHasRoom
       /\ mem' = <<e>>
       /\ \E t \in Flushers : MemtableFlush(t)

-----------------------------------------------------------------------------
(* Serving: racs_stream_append *)

\* racs_wal_append when the segment has to be rotated first ...
AppendRotate(kind) ==
    /\ main = "serve"
    /\ W!Rotate(<<records + 1, kind>>)
    /\ UNCHANGED <<main, cur, mem, sst, disk, offsets, rp, acked>>

\* ... and the write of the record, for a frame that has passed the checks of
\* session and metadata.
AppendLog(kind) ==
    /\ main = "serve" /\ records < MaxRecords
    /\ W!Write(<<records + 1, kind>>)
    /\ main' = "apply"
    /\ cur' = <<records + 1, kind>>
    /\ UNCHANGED <<mem, sst, disk, offsets, rp, acked>>

\* The fsync that every FsyncEvery-th record asks for.
AppendSync ==
    /\ main = "apply"
    /\ W!Fsync
    /\ UNCHANGED <<main, cur, mem, sst, disk, offsets, rp, acked>>

\* The rest of racs_stream_append: memtable, then offset, then the answer.  The
\* time is that of the offset before this block.
AppendApply ==
    LET s == StreamOf[cur[2]]
        e == EntryOf(cur, Timestamp(s, offsets[s]))
    IN  /\ main = "apply" /\ ~due
        /\ MemtableAppend(e)
        /\ offsets' = [offsets EXCEPT ![s] = @ + RawOf[cur[2]]]
        /\ acked' = acked \cup {Block(e)}
        /\ main' = "serve"
        /\ cur' = NoOp
        /\ UNCHANGED <<disk, rp>>

-----------------------------------------------------------------------------
(* A flush thread *)

FileTime(t) == sst[t].table[1].ts

\* The steps on the log: manifest, then truncation after the sstable.
FlushLog(t) ==
    /\ \/ W!ManifestOpen(t) \/ W!ManifestWrite(t)
       \/ W!TruncSegno(t) \/ W!TruncCheckpoint(t) \/ W!TruncList(t)
       \/ \E g \in fl[t].todo :
            W!TruncKeep(t, g) \/ W!TruncInspect(t, g) \/ W!TruncRemove(t, g)
    /\ UNCHANGED <<main, cur, mem, sst, disk, offsets, rp, acked>>

\* Mutant: the file is renamed before the table is written to it.
SstableOpenUnwritten(t) ==
    /\ fl[t].pc = "sstable" /\ sst[t].step = "open"
    /\ LET ino == IF FileTime(t) \in DOMAIN tmp THEN tmp[FileTime(t)] ELSE Len(body) + 1
       IN  /\ tmp' = Extended(tmp, FileTime(t), ino)
           /\ body' = Extended(body, ino, << >>)
           /\ sst' = [sst EXCEPT ![t].step = "rename", ![t].ino = ino]
    /\ UNCHANGED <<wal, main, cur, mem, seg, offsets, rp, acked>>

\* racs_sstable_open: open(tmp_path, O_CREAT | O_TRUNC).
SstableOpen(t) ==
    /\ fl[t].pc = "sstable" /\ sst[t].step = "open"
    /\ LET ino == IF FileTime(t) \in DOMAIN tmp THEN tmp[FileTime(t)] ELSE Len(body) + 1
       IN  /\ tmp' = Extended(tmp, FileTime(t), ino)
           /\ body' = Extended(body, ino, << >>)
           /\ sst' = [sst EXCEPT ![t].step = "write", ![t].ino = ino]
    /\ UNCHANGED <<wal, main, cur, mem, seg, offsets, rp, acked>>

\* Under flock: serialise, write, fsync.
SstableWrite(t) ==
    /\ fl[t].pc = "sstable" /\ sst[t].step = "write"
    /\ body' = [body EXCEPT ![sst[t].ino] = sst[t].table]
    /\ sst' = [sst EXCEPT ![t].step = "rename"]
    /\ UNCHANGED <<wal, main, cur, mem, tmp, seg, offsets, rp, acked>>

\* Mutant: the two paths of rename are exchanged.
SstableRenameBack(t) ==
    /\ sst[t].step = "rename"
    /\ W!SstableWrite(t)
    /\ IF FileTime(t) \in DOMAIN seg
         THEN /\ tmp' = Extended(tmp, FileTime(t), seg[FileTime(t)])
              /\ seg' = Without(seg, FileTime(t))
         ELSE UNCHANGED <<seg, tmp>>
    /\ UNCHANGED <<main, cur, mem, sst, body, offsets, rp, acked>>

\* rename(tmp_path, final_path): fails when another thread has renamed the file
\* of that time already, replaces the sstable of that time when there is one.
SstableRename(t) ==
    /\ sst[t].step = "rename"
    /\ W!SstableWrite(t)
    /\ IF FileTime(t) \in DOMAIN tmp
         THEN /\ seg' = Extended(seg, FileTime(t), tmp[FileTime(t)])
              /\ tmp' = Without(tmp, FileTime(t))
         ELSE UNCHANGED <<seg, tmp>>
    /\ UNCHANGED <<main, cur, mem, sst, body, offsets, rp, acked>>

\* racs_memtable_destroy and the end of the thread.
FlushEnd(t) ==
    /\ W!TruncDone(t)
    /\ sst' = [sst EXCEPT ![t] = IdleSst]
    /\ UNCHANGED <<main, cur, mem, disk, offsets, rp, acked>>

FlushStep(t) ==
    \/ FlushLog(t) \/ SstableOpen(t) \/ SstableWrite(t) \/ SstableRename(t) \/ FlushEnd(t)

-----------------------------------------------------------------------------
(* Crash, start, replay *)

Crash ==
    /\ W!Crash
    /\ main' = "down" /\ cur' = NoOp /\ mem' = << >> /\ rp' = IdleReplay
    /\ sst' = [t \in Flushers |-> IdleSst]
    /\ offsets' = [s \in Streams |-> 0]
    /\ UNCHANGED <<disk, acked>>

\* racs_offsets_init dereferences the NULL that racs_sstable_read returns for
\* an empty file.
EmptyFile == \E f \in DOMAIN FileBodies : FileBodies[f] = << >>

\* racs_context_init (offsets), racs_wal_instance, and the head of
\* racs_wal_replay: the checkpoint, and the list of segments.
Start ==
    /\ main = "down" /\ ~EmptyFile
    /\ W!Create
    /\ offsets' = [s \in Streams |-> StoredBytes(s)]
    /\ rp' = [IdleReplay EXCEPT !.ckpt = manifest,
                                !.todo = DOMAIN segs']
    /\ main' = "replay"
    /\ UNCHANGED <<cur, mem, sst, disk, acked>>

\* The start ends at an empty file.  It may end at any other file too:
\* racs_offsets_init reads sst->data of a racs_sstable whose data nobody has
\* set, and only where malloc returns the chunk freed just before does it find
\* the right pointer there.
StartFails ==
    /\ main = "down" /\ DOMAIN FileBodies # {}
    /\ main' = "dead"
    /\ UNCHANGED <<wal, cur, mem, sst, disk, offsets, rp, acked>>

\* Mutant: the segments are replayed newest first.
ReplayOpenNewest(g) ==
    /\ main = "replay" /\ rp.recs = << >>
    /\ g \in rp.todo /\ \A h \in rp.todo : h <= g
    /\ rp' = [rp EXCEPT !.todo = @ \ {g}, !.pos = 0,
                        !.recs = IF g \in DOMAIN segs THEN segs[g] ELSE << >>]
    /\ UNCHANGED <<wal, main, cur, mem, sst, disk, offsets, acked>>

\* The segments come in ascending order (get_sorted_filelist);
\* racs_wal_segment_read takes a copy of the next one, if it is still there.
ReplayOpen(g) ==
    /\ main = "replay" /\ rp.recs = << >>
    /\ g \in rp.todo /\ \A h \in rp.todo : g <= h
    /\ rp' = [rp EXCEPT !.todo = @ \ {g}, !.pos = 0,
                        !.recs = IF g \in DOMAIN segs THEN segs[g] ELSE << >>]
    /\ UNCHANGED <<wal, main, cur, mem, sst, disk, offsets, acked>>

ReplayAdvance == rp' = [rp EXCEPT !.recs = Tail(@), !.pos = @ + 1]

\* Mutant: the loop goes on without moving behind the skipped record.
ReplaySkipStays ==
    /\ main = "replay" /\ rp.recs # << >>
    /\ Head(rp.recs).lsn <= rp.ckpt
    /\ UNCHANGED rp
    /\ UNCHANGED <<wal, main, cur, mem, sst, disk, offsets, acked>>

\* A record at or below the checkpoint is skipped.
ReplaySkip ==
    /\ main = "replay" /\ rp.recs # << >>
    /\ Head(rp.recs).lsn <= rp.ckpt
    /\ ReplayAdvance
    /\ UNCHANGED <<wal, main, cur, mem, sst, disk, offsets, acked>>

\* Any other record goes into the memtable.  Its time is computed from offset,
\* the position in the segment behind the record; _offset, the position in the
\* stream, only goes back into racs_offsets.
ReplayApply ==
    LET op == Head(rp.recs).op
        s  == StreamOf[op[2]]
    IN  /\ main = "replay" /\ rp.recs # << >>
        /\ Head(rp.recs).lsn > rp.ckpt
        /\ MemtableAppend(EntryOf(op, Timestamp(s, (rp.pos + 1) * RecBytes)))
        /\ offsets' = [offsets EXCEPT ![s] = @ + RawOf[op[2]]]
        /\ ReplayAdvance
        /\ UNCHANGED <<main, cur, disk, acked>>

ReplayDone ==
    /\ main = "replay" /\ rp.recs = << >> /\ rp.todo = {}
    /\ main' = "serve"
    /\ rp' = IdleReplay
    /\ UNCHANGED <<wal, cur, mem, sst, disk, offsets, acked>>

Replay == (\E g \in rp.todo : ReplayOpen(g)) \/ ReplaySkip \/ ReplayApply \/ ReplayDone

-----------------------------------------------------------------------------

Init ==
    /\ W!Init
    /\ main = "down" /\ cur = NoOp /\ mem = << >> /\ rp = IdleReplay
    /\ sst = [t \in Flushers |-> IdleSst]
    /\ tmp = << >> /\ seg = << >> /\ body = << >>
    /\ offsets = [s \in Streams |-> 0]
    /\ acked = {}

Next ==
    \/ \E kind \in Kinds : AppendRotate(kind) \/ AppendLog(kind)
    \/ AppendSync \/ AppendApply
    \/ \E t \in Flushers : FlushStep(t)
    \/ Crash \/ Start \/ StartFails \/ Replay

\* Flush threads run while the process does; the event loop finishes a started
\* append and the replay, and the server is started again after a crash.
Fairness ==
    /\ \A t \in Flushers : WF_vars(FlushStep(t))
    /\ WF_vars(AppendSync \/ AppendApply \/ Start \/ StartFails \/ Replay)

Spec == Init /\ [][Next]_vars /\ Fairness

-----------------------------------------------------------------------------
(* Where a block is: in the memtable, in the table of a flush thread that has *)
(* not renamed its file yet, or in an sstable.                                *)

Unwritten == {t \in Flushers : fl[t].pc \in {"manifest_open", "manifest_write", "sstable"}}
FileEntries == UNION {Range(body[seg[x]]) : x \in DOMAIN seg}
MemoryEntries == Range(mem) \cup UNION {Range(sst[t].table) : t \in Unwritten}
Held == {Block(e) : e \in FileEntries \cup MemoryEntries}
HeldIds == {b.id : b \in Held}

\* No two tables start in the same millisecond: neither two that are being
\* written, nor one of them and an sstable.
DistinctTimes == \A t, u \in Unwritten : FileTime(t) = FileTime(u) => t = u
DistinctNames ==
    DistinctTimes /\ \A t \in Unwritten : FileTime(t) \notin DOMAIN seg

Increasing(q) == \A i, j \in DOMAIN q : i < j => q[i].id < q[j].id

-----------------------------------------------------------------------------
(* Properties *)

TypeOK ==
    /\ W!TypeOK
    /\ main \in {"down", "replay", "serve", "apply", "dead"}
    /\ cur \in Ops \cup {NoOp}
    /\ mem \in Seq(Entry) /\ Len(mem) <= Capacity
    /\ \A t \in Flushers : /\ sst[t].table \in Seq(Entry)
                           /\ sst[t].step \in {"open", "write", "rename"}
                           /\ sst[t].ino \in 0..Len(body)
    /\ \A x \in DOMAIN tmp : tmp[x] \in DOMAIN body
    /\ \A x \in DOMAIN seg : seg[x] \in DOMAIN body
    /\ \A n \in DOMAIN body : body[n] \in Seq(Entry)
    /\ offsets \in [Streams -> Nat]

(* The log's assumption about its callers: the LSN a flush puts into the      *)
(* manifest is one wal->lsn has left behind, or, in replay, reached.          *)
FlushLsnReached ==
    Len(mem) = Capacity /\ (main = "apply" \/ (main = "replay" /\ rp.recs # << >>)) =>
        Last(mem).lsn \in W!FlushLsns

(* Without crashes, and while no two tables start in the same millisecond,    *)
(* memory and sstables together are the append-only store of BlockStore: no   *)
(* hand-over to a flush thread, rename or table end loses or changes a block. *)
Store == INSTANCE BlockStore WITH stored <- Held
StoreRefined == Store!Spec

(* Until a crash, an sstable that can be opened by its name is complete, or a *)
(* thread has emptied it and is about to write it: two tables that start in   *)
(* the same millisecond share a temporary file, and the one may rename it     *)
(* while the other is between open(O_TRUNC) and write.  No interleaving       *)
(* leaves a named file short once its writers are done.                       *)
Filling(n) == \E t \in Flushers : fl[t].pc = "sstable" /\ sst[t].step = "write" /\ sst[t].ino = n
NamedFilesComplete ==
    crashes = 0 => \A x \in DOMAIN seg : Len(body[seg[x]]) = Capacity \/ Filling(seg[x])

\* What a reader relies on, and gets where DistinctTimes holds.
FilesWhole == \A x \in DOMAIN seg : Len(body[seg[x]]) = Capacity

\* The blocks that q and r hold of the same stream are in their order.
Follows(r, q) ==
    \A e \in Range(q), f \in Range(r) : StreamOf[e.kind] = StreamOf[f.kind] => e.id < f.id

(* A RANGE, which reads the sstables in the order of their names and then the *)
(* memtable (racs_range), sees the blocks of a stream in the order they were  *)
(* appended, whichever flush thread finished first.                           *)
VisibleInOrder ==
    /\ Increasing(mem)
    /\ \A x \in DOMAIN seg :
         /\ Increasing(body[seg[x]]) /\ Follows(mem, body[seg[x]])
         /\ \A y \in DOMAIN seg : x < y => Follows(body[seg[y]], body[seg[x]])

(* Replay and serving put records into memory in log order and never twice,   *)
(* across segments, a crash, and the flushes a replay starts itself: the      *)
(* memtable is sorted, and two tables in memory hold separate stretches of    *)
(* the log, the memtable the latest.                                          *)
Precedes(p, q) == \A e \in Range(p), f \in Range(q) : e.id < f.id
MemoryInLogOrder ==
    /\ Increasing(mem)
    /\ \A t \in Unwritten : Increasing(sst[t].table) /\ Precedes(sst[t].table, mem)
    /\ \A t, u \in Unwritten :
         t # u => \/ Precedes(sst[t].table, sst[u].table)
                  \/ Precedes(sst[u].table, sst[t].table)

(* A server that goes down comes up again or finds its files unreadable: the  *)
(* replay ends although flush threads remove segments under it.               *)
StartupEnds == main = "down" ~> main \in {"serve", "dead"}


(* Truncation and rotation keep what only the log holds: until a segment      *)
(* younger than the spared one is removed, every acknowledged block is in a   *)
(* log segment, in a named sstable, or in the table of a flush under way.     *)
(* The blocks of the memtable are always in the log.                          *)
LogIds == UNION {{r.op[1] : r \in Range(segs[g])} : g \in DOMAIN segs}
FileIds == {e.id : e \in FileEntries}
AckedIds == {b.id : b \in acked}
LogKept ==
    ~stray => AckedIds \subseteq
        LogIds \cup FileIds \cup {e.id : e \in UNION {Range(sst[t].table) : t \in Unwritten}}

(* A flush thread writes, names and truncates to its end, although the        *)
(* appender keeps adding segments to the log it truncates, and every block of *)
(* its table is then in a named sstable, unless the process crashes first; as *)
(* long as the names of the files are distinct.                               *)
TableNamed(t) ==
    /\ fl[t].pc = "scan" /\ fl[t].todo = {}
    /\ {e.id : e \in Range(sst[t].table)} \subseteq FileIds
FlushEnds ==
    []DistinctNames =>
        \A t \in Flushers : fl[t].pc = "manifest_open" ~> main = "down" \/ TableNamed(t)

(* With no flush under way the checkpoint vouches only for blocks that are in *)
(* sstables, whichever of several flushes wrote the manifest last: a record   *)
(* below it is in a named file.                                               *)
CheckpointCovered ==
    (\A t \in Flushers : fl[t].pc = "idle") =>
        \A g \in DOMAIN segs : \A r \in Range(segs[g]) :
            r.lsn < manifest => r.op[1] \in FileIds

-----------------------------------------------------------------------------
(* What the documentation says and the code does not do *)

(* README.md: "Write-ahead log for crash recovery."  A server that serves     *)
(* again after a crash holds every block it has acknowledged.                 *)
RecoveryComplete == main = "serve" => AckedIds \subseteq HeldIds
=============================================================================
