-------------------------------- MODULE Range -------------------------------
(***************************************************************************)
(* RANGE (src/src/range.c): the query lists the files below the directory  *)
(* that the two ends of the range share, reads every file whose name is a  *)
(* time in the range, through the cache, and then the memtable.  Flush     *)
(* threads rename finished sstables while it runs; appends do not, they    *)
(* are executed by the same event loop.                                    *)
(*                                                                         *)
(* A block is the number of its append.  The write of a file (module       *)
(* Storage) is here the rename that makes it visible.  The list of         *)
(* memtables is one table (theorem AlwaysOneResident).                     *)
(***************************************************************************)
EXTENDS Integers, Sequences, SequencesExt, FiniteSets, Sstable

CONSTANTS
    Streams,     \* stream ids, every one with a metadata file
    Ref,         \* metadata.ref of each stream
    Kinds,       \* the frames clients send, apart from their contents
    Audio,       \* units of audio of a kind; 0 if its block does not decompress
    Bytes,       \* stored size of the block of a kind
    TableSize,   \* memtable.entries
    CacheSize,   \* cache.entries
    Units,       \* weights of the components of a path, the last one is 1
    Starts, Durations,  \* arguments of RANGE, for times that are not before 1970
    MaxBlocks,   \* bound: appends
    NoQuery

ASSUME RangeAssumption ==
    /\ Ref \in [Streams -> Nat] /\ Audio \in [Kinds -> Nat] /\ Bytes \in [Kinds -> Nat]
    /\ TableSize \in Nat \ {0} /\ CacheSize \in Nat \ {0}
    /\ Units \in Seq(Nat \ {0}) /\ Units # <<>> /\ Last(Units) = 1
    /\ \A i \in 2 .. Len(Units) : Units[i - 1] % Units[i] = 0
    /\ \A s \in Streams, start \in Starts, duration \in Durations :
           Ref[s] + start \in Nat /\ (Ref[s] + start) + duration \in Nat

VARIABLES
    mem,      \* entries of the memtable
    flights,  \* tables handed to flush threads and not renamed yet
    seg,      \* the files: per time of a name, the sstable
    offsets,  \* racs_offsets, in units of audio
    order, value, \* the cache, see Lru
    query,    \* local state of racs_range_as_timestamp, or NoQuery
    reply,    \* the query answered last, with its output, or NoQuery
    log       \* history: every entry appended

vars == <<mem, flights, seg, offsets, order, value, query, reply, log>>

\* The key used last is the first in the order.
Cache == INSTANCE Lru WITH Keys <- Streams \X Nat, Values <- {}, Capacity <- CacheSize,
                           recent <- SubSeq(order, 1, IF order = <<>> THEN 0 ELSE 1)

Indices(entries) == {entries[i].id : i \in DOMAIN entries}

-----------------------------------------------------------------------------
(* Times and paths *)

\* racs_metadata_timestamp
Timestamp(s) == Ref[s] + offsets[s]

\* racs_time_to_path: year, month, ..., millisecond, a number with leading
\* zeros for each, so that strcmp orders paths like times.
PathOf(t) ==
    [i \in DOMAIN Units |->
        IF i = 1 THEN t \div Units[1] ELSE (t % Units[i - 1]) \div Units[i]]

\* Mutant: the shared path keeps the first component that differs.
SharedPathLong(p, q) ==
    LET same == {n \in 1 .. Len(p) : \A i \in 1 .. n : p[i] = q[i]}
    IN  SubSeq(p, 1, Len(p) - IF same = {} THEN 1 ELSE 0)

\* racs_resolve_shared_path: the common part, cut at the last separator; of
\* two equal paths, their directory.
SharedPath(p, q) ==
    LET same == {n \in 0 .. Len(p) - 1 : \A i \in 1 .. n : p[i] = q[i]}
    IN  SubSeq(p, 1, Max(same))

\* get_sorted_filelist of the directory the two times share; the loop takes the
\* lowest first.  Temporary files, which it skips, are left out; a directory that
\* does not exist lists nothing.
FileList(from, to) ==
    {t \in DOMAIN seg : IsPrefix(SharedPath(PathOf(from), PathOf(to)), PathOf(t))}

-----------------------------------------------------------------------------
(* Ingest, as far as queries see it *)

Full == Len(mem) >= TableSize

\* racs_stream_append and racs_multi_memtable_append: a full table is handed to
\* a flush thread and is in no list any more.
Append_(s, k) ==
    /\ query = NoQuery /\ Len(log) < MaxBlocks
    /\ LET e == [id |-> Len(log) + 1, stream |-> s, ts |-> Timestamp(s),
                 bytes |-> Bytes[k], audio |-> Audio[k]]
       IN  /\ mem' = IF Full THEN <<e>> ELSE Append(mem, e)
           /\ flights' = IF Full THEN flights \cup {mem} ELSE flights
           /\ log' = Append(log, e)
    /\ offsets' = [offsets EXCEPT ![s] = @ + Audio[k]]
    /\ reply' = NoQuery
    /\ UNCHANGED <<seg, order, value, query>>

\* racs_memtable_write: the file is named after the time of its first entry and
\* replaces a file of that name.
FlushRename(table) ==
    /\ flights' = flights \ {table}
    /\ seg' = [t \in DOMAIN seg \cup {table[1].ts} |->
                  IF t = table[1].ts THEN SstableWrite(table) ELSE seg[t]]
    /\ UNCHANGED <<mem, offsets, order, value, query, reply, log>>

-----------------------------------------------------------------------------
(* The query *)

\* racs_range and the list of racs_range_as_timestamp.
RangeBegin(s, start, duration) ==
    /\ query = NoQuery
    /\ LET from == Ref[s] + start  to == from + duration IN
       query' = [stream |-> s, from |-> from, to |-> to, files |-> FileList(from, to),
                 out |-> <<>>, unseen |-> flights]
    /\ reply' = NoQuery
    /\ UNCHANGED <<mem, flights, seg, offsets, order, value, log>>

InRange(q, t) == q.from <= t /\ t <= q.to

\* What the query takes of a table: entries of its stream in its range.  One that
\* does not decompress writes nothing.
Asked(q, e) == e.stream = q.stream /\ InRange(q, e.ts) /\ e.audio > 0

\* Mutant: blocks of other streams in the same file are taken for the stream's.
SelectedAnyStream(q, entries) ==
    SelectSeq(entries, LAMBDA e : InRange(q, e.ts) /\ e.audio > 0)

\* racs_range_process_sstable and the loop over the memtable.
Selected(q, entries) ==
    LET out[i \in 0 .. Len(entries)] ==
            IF i = 0 THEN <<>>
            ELSE IF Asked(q, entries[i]) THEN Append(out[i - 1], entries[i])
            ELSE out[i - 1]
    IN  out[Len(entries)]

\* A file whose time is not in the range is passed over.
RangeSkip ==
    /\ query # NoQuery /\ query.files # {} /\ ~ InRange(query, Min(query.files))
    /\ query' = [query EXCEPT !.files = @ \ {Min(@)}]
    /\ UNCHANGED <<mem, flights, seg, offsets, order, value, reply, log>>

\* Mutant: one cache entry per stream, whatever the time of the file.
CacheKeyStream(q, t) == <<q.stream, 0>>
\* racs_range_from_cache_or_sstable: key of the cache.
CacheKey(q, t) == <<q.stream, t>>

\* racs_cache_get finds the file ...
RangeHit ==
    /\ query # NoQuery /\ query.files # {}
    /\ LET t == Min(query.files)  key == CacheKey(query, t) IN
       /\ InRange(query, t)
       /\ Cache!Use(key)
       /\ query' = [query EXCEPT !.files = @ \ {Min(@)},
                                 !.out = @ \o Selected(query, SstableRead(value[key]))]
    /\ UNCHANGED <<mem, flights, seg, offsets, reply, log>>

\* ... or it is read, and put in the cache.
RangeMiss ==
    /\ query # NoQuery /\ query.files # {}
    /\ LET t == Min(query.files)  key == CacheKey(query, t) IN
       /\ InRange(query, t)
       /\ Cache!Insert(key, seg[t])
       /\ query' = [query EXCEPT !.files = @ \ {Min(@)},
                                 !.out = @ \o Selected(query, SstableRead(seg[t]))]
    /\ UNCHANGED <<mem, flights, seg, offsets, reply, log>>

\* Mutant: the memtable is read first.
RangeMemtableFirst ==
    /\ query # NoQuery /\ query.files = {}
    /\ reply' = [query EXCEPT !.out = Selected(query, mem) \o @]
    /\ query' = NoQuery
    /\ UNCHANGED <<mem, flights, seg, offsets, order, value, log>>

\* Behind the last file, the memtable.
RangeMemtable ==
    /\ query # NoQuery /\ query.files = {}
    /\ reply' = [query EXCEPT !.out = @ \o Selected(query, mem)]
    /\ query' = NoQuery
    /\ UNCHANGED <<mem, flights, seg, offsets, order, value, log>>

-----------------------------------------------------------------------------

Init ==
    /\ mem = <<>> /\ flights = {} /\ seg = <<>>
    /\ offsets = [s \in Streams |-> 0]
    /\ Cache!LruInit
    /\ query = NoQuery /\ reply = NoQuery
    /\ log = <<>>

Next ==
    \/ \E s \in Streams :
        \/ \E k \in Kinds : Append_(s, k)
        \/ \E start \in Starts, duration \in Durations : RangeBegin(s, start, duration)
    \/ \E table \in flights : FlushRename(table)
    \/ RangeSkip \/ RangeHit \/ RangeMiss \/ RangeMemtable

Spec == Init /\ [][Next]_vars

-----------------------------------------------------------------------------
(* Properties *)

Replied == reply # NoQuery

\* Blocks of the stream of the reply that lie in its range and hold audio.
Wanted ==
    {i \in DOMAIN log : /\ log[i].stream = reply.stream /\ log[i].audio > 0
                        /\ reply.from <= log[i].ts /\ log[i].ts <= reply.to}

\* Tables whose entries no file and no memtable showed when the reply was made.
InFlight(i) == \E table \in reply.unseen : i \in Indices(table)

\* A reply holds blocks of the stream in the range, and none of them twice, also
\* when a flush thread renames its file between the list and the memtable
\* (racs_range_as_timestamp reads the two places one after the other).
NoDuplicates ==
    Replied => /\ IsInjective([i \in DOMAIN reply.out |-> reply.out[i].id])
               /\ Indices(reply.out) \subseteq Wanted

\* No two tables have the name of a file in common.
NamesDistinct ==
    \A i, j \in 1 .. Len(log) \div TableSize :
        i # j => log[(i - 1) * TableSize + 1].ts # log[(j - 1) * TableSize + 1].ts

\* A range that starts no later than every file name and ends no earlier holds
\* every block of the stream in it, except those of tables that a flush thread
\* had not renamed when the query began: files under other directories
\* (racs_resolve_shared_path), other streams in the same file, eviction from the
\* cache and the change from memtable to file hide nothing.
CoveringComplete ==
    Replied /\ NamesDistinct /\ (\A t \in DOMAIN seg : reply.from <= t /\ t <= reply.to) =>
        \A i \in Wanted : i \in Indices(reply.out) \/ InFlight(i)

\* Blocks come in the order of their appends, in whatever order the threads
\* renamed their files, if every file with blocks of the stream begins with one
\* and no file ever had the name of another (the cache may still have the other):
\* the order of file names is the order of the times of the first entries, and
\* the memtable is read last.
InOrder ==
    Replied /\ NamesDistinct /\ (\A t \in DOMAIN seg : LET e == SstableRead(seg[t]) IN
                  (\E i \in DOMAIN e : e[i].stream = reply.stream) =>
                      e[1].stream = reply.stream)
      => \A i, j \in DOMAIN reply.out : i < j => reply.out[i].id < reply.out[j].id

\* What the cache holds is the file of that name, as long as no two tables ever
\* had the same name (the key is the stream and the time of the name).
CacheCoherent ==
    NamesDistinct => \A key \in DOMAIN value :
                         key[2] \in DOMAIN seg /\ value[key] = seg[key[2]]

\* What RANGE promises: all blocks of the stream in the range
\* (docs/source/commands/range.rst), tables being flushed aside.  It fails for a
\* file that starts before the range: its blocks in the range are left out.
RangeComplete == Replied => \A i \in Wanted : i \in Indices(reply.out) \/ InFlight(i)
=============================================================================
