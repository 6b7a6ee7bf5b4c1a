# A TLA+ model of RACS

RACS (Remote Audio Caching Server) stores blocks of PCM audio under a stream id
and a time, and answers queries over time ranges. This directory models it in
TLA+ from the socket to the log: the server loop, the execution of requests, the
commands and audio operations, sessions, range queries with their cache, and the
storage core. TLC checks the models on small instances; TLAPS proves the
properties of the log, the memtable list, the storage core, the hash table, the
sstable cache, the sessions, range queries and the server for every instance.
Source paths below are relative to `src/src/`.

## 1. The system

One process, one event loop (libevent) that executes every command, and one
detached thread per memtable that is being written to disk. There is no other
thread. Nothing joins the flush threads, and they share no lock with the event
loop: they meet it in the file system (`.racs/wal`, `.racs/seg`) and in the
memtable they were given.

| Part | Source | State | Operations | Hard part |
|---|---|---|---|---|
| Write-ahead log | `wal.c` | segments, descriptor, `lsn`, `size`, manifest | open, append (fsync, rotate), truncate, checkpoint | rotation against truncation, LSN across restarts, power loss |
| Memtable list | `memtable.c` | head, tail, links, entry counts | create, append, hand over, relink, flush at shutdown | the table goes to its thread before the list is relinked |
| Flush and sstables | `memtable.c`, `time.c` | temporary and final files | manifest, open, write, rename, truncate, free | two flushes at a time, crash between two steps |
| Stream append | `stream.c`, `offsets.c`, `metadata.c` | offset of each stream | log, memtable, offset | order of blocks, what survives |
| Start-up and replay | `server.c`, `offsets.c`, `wal_replay.c` | position in the log | offsets from files, open log, replay | replay starts flushes that truncate the log under it |
| Sessions | `stream.c`, `metadata.c` | session of each stream, metadata files | CREATE, OPEN, CLOSE, append gate | two clients in any order |
| Hash table | `kvstore.c` | bins of linked entries | put, get, delete | collisions, replacement |
| Sstable cache | `cache.c` | LRU list, index | get, put, evict | relinking at capacity, replaced files |
| Range queries | `range.c`, `filelist.c`, `time.c` | none | walk of a path prefix, merge of sources | blocks between two sources |
| Server, replication | `server.c` | buffers, replica connections | accept, read, forward, disconnect | partial and coalesced messages |
| Parser and plan | `parser.c`, `exec.c` | plan of a pipeline, output buffer | build, check names, execute, destroy | one buffer is input and output of every stage |
| Commands | `command.c`, `pack.c` | none of their own | sixteen commands | early returns that clear the buffer or do not |
| Audio operations | `ops.c`, `pcm.c`, `types.c`, `wav.c` | none | mix, gain, trim, fade, pan, pad, clip, split, merge, convert, encode | boundaries, header words in front of the samples |
| Scheme bindings | `scm.c`, `scm_bindings.c` | none | the operations again, evaluation, packing | the same checks written twice, NULL results |
| MP3 and Opus encoders, config, log, checksums | `mp3.c`, `ogg.c`, ... | none of interest | library calls, formatting | outside the process's own logic |

What makes the core correct, and where it is stated:

* log: the last record of a segment has its highest LSN, the descriptor is on
  the newest segment, truncation removes only what is below the checkpoint, and
  at most `wal.fsync - 1` records of a process are without fsync, or `wal.fsync`
  between a write and the fsync it asks for;
* memtables: the list never leads to a table another thread owns, no table is
  freed twice, every accepted entry is in exactly one place;
* storage: memory and sstables together are an append-only store; a named
  sstable is complete or about to be written again; truncation never removes the
  only copy of a block; replay applies records in log order and once; start-up and
  flushes end;
* streams: one writer between OPEN and CLOSE, a batch stores every frame it can,
  a metadata file is complete and listed once;
* cache: links and table agree and the cache is an LRU; what it holds is the file;
* queries: no block twice or of another stream, blocks in order, a covering range
  complete;
* server: requests stay aligned in the byte stream, replies are in order, a
  single replica executes a prefix, a patient client is answered;
* requests: executed as written or not at all, no failure hidden, every request
  ends; pipes of filters do to each channel what they promise; where a command and
  the binding of the same name check alike, they agree.

## 2. Modules

    Server          sockets, message framing, replicas
    Exec            one request: tokens, plan, calls, reply
      Commands      the command functions
        Scheme      EVAL and the bindings; look-up of streams
          Audio     operations on buffers, conversions, WAV sizes
    Streams         metadata files, sessions, batches       uses KvStore
    Range           RANGE against flushes                   uses Sstable, Lru
    Sstable         layout of a file
    LruCache        the pointer list of the cache           uses KvStore, implements Lru
    Lru             abstract: a least-recently-used cache
    KvStore         the chained hash table
    Storage         append, flush, crash, replay            uses Wal, implements BlockStore
    BlockStore      abstract: an append-only set of blocks
    Wal             the log
    Memtables       the list of memtables
    MC*             instances for TLC
    *Proofs         theorems about the module of that name
    RequestProofs   theorems about Streams, Exec and Audio

`RequestProofs` and `LruCacheProofs` extend `KvStoreProofs`; `StorageProofs`
instantiates `WalProofs`.

**Wal** has one action per system call that another thread can observe.
`Create` is `racs_wal_create` (with `racs_wal_open` and `racs_wal_init_lsn`);
`Rotate`, `Write` and, if the LSN asks for it, `Fsync` are the parts of
`racs_wal_append_`, which flush threads can fall between because truncation does not
take `wal->mutex`, and the power loss too (`due` is set between the last two). A flush
thread is `racs_memtable_flush`: `ManifestOpen` (the `O_TRUNC`),
`ManifestWrite`, `SstableWrite`, then `racs_wal_truncate` as `TruncSegno`,
`TruncCheckpoint`, `TruncList` and, for each file in ascending order,
`TruncKeep` or `TruncInspect` and `TruncRemove`. `segs` is the directory;
`linked` tells whether the open descriptor still has a name in it. `Crash`
keeps the files, `PowerLoss` cuts each segment to a prefix that contains what
was synced. `records`, `crashes`, `losses`, `fresh`, `old` and `stray` are
history variables. A record is its LSN and its operation; `Size` gives its bytes.

**Memtables** follows `racs_multi_memtable_*` pointer by pointer: `MoveToHead`
writes the fields in the order of the statements. `FlushAsync` and `Link` are the
two halves of an append to a full table, so that the thread can write and free
the table in between; `LinkFault` is the read of a freed table (undefined
behaviour) that this allows. Entries are counted, not represented.

**Storage** composes the log with the rest of the storage path through
`W == INSTANCE Wal`: `AppendRotate`, `AppendLog`, `AppendSync` and `AppendApply`
are `racs_stream_append`; `FlushLog`, `SstableOpen`, `SstableWrite`, `SstableRename`
and `FlushEnd` a flush thread; `Start` or `StartFails`, then `ReplayOpen`,
`ReplaySkip`, `ReplayApply` and `ReplayDone` a start of the server. Replay takes the
lowest segment it has not read. Files are inodes under names, because two threads can open the same temporary file. The
memtable list is one sequence, which theorem `AlwaysOneResident` justifies, and
the fault of `LinkFault` is left to Memtables. Sizes keep two units apart: the
stored (perhaps compressed) size, and the raw size that time is computed from.
`StartFails` is also possible, as undefined behaviour, at any sstable:
`racs_offsets_init` reads a field of a fresh `racs_sstable` that nobody set.

**BlockStore** is what a client may rely on while the server stays up. `Storage`
implements it with `stored <- Held`: the blocks in the memtable, in tables whose
file has no name yet, and in sstables (`StoreRefined`).

**KvStore** has a bin as a sequence of entries, the first of the chain first; put
deletes a match and prepends, as `racs_kvstore_put` does. **LruCache** writes
`prev`, `next`, `head` and `tail` in the order of the statements of
`racs_cache_move_to_head` and `racs_cache_evict`; a freed node may be the next one
`malloc` returns. The lock of the cache makes each operation one step. `Lru` is
the promise: the order of last use. The history variable `recent` makes a get
visible, without which a cache that never moves anything would be an LRU too.

**Streams**: `CreateBegin` and `CreateRename` are the two sides of the temporary
metadata file in `racs_metadata_flush`, so that a crash can fall between them;
`Open`, `Close`, and for a batch `BatchArrives` and one `BatchStep` per frame with
the checks of `racs_stream_append` in their order. A session is bound by the
first frame after OPEN (`racs_session_cmp` lets 16 zero bytes match any id).

**Range**: `RangeBegin` lists the files below the directory the two times share;
`RangeSkip`, `RangeHit` and `RangeMiss` handle one file, `RangeMemtable` ends the
query. `FlushRename` of a flush thread can fall between any two of them. The
cache is `Lru`, which `LruRefined` justifies; a file is a value of **Sstable**, so
that every read goes through the byte offsets of the index. A path is the
sequence of its components, of which the instance has three; each counts a fixed
number of the next, where the months of the calendar differ in length. The list
of files is a set of times, of which the loop takes the lowest.

**Server**: a connection is the sequence of requests its peer has written and
three positions in units of bytes: arrived, drained, and the end. One
`ClientReadable` is one run of `racs_read_callback`, which takes at most one
request; `BroadcastFault` is the write to the buffer of a replica that
`racs_event_callback` has freed. A replica runs the same callback, for each link to
it: `handled` is what is executed for a link, `executed` what the node at its end
executes, of all links. `NodeOf` is the node a link is connected to, the first of
the configuration for every link.

**Exec**: `Receive`, then one `Build*` step per token (`racs_exec_plan_build`),
`Check` (the loop over names), `Call` per command, `Destroy`, `Reply`. The plan
holds references to command objects, as in the code, because a stray pipe adds an
object twice and `racs_exec_plan_destroy` frees it twice (undefined: it may end
the process). `NameOverflow` is the copy of a long name into the array for it, also
undefined. **Commands** maps a call to the set of its results. Where an
operation returns NULL its size is not set and packing it may read from address
0; that is a result with `down`. **Scheme** evaluates an expression as a stack
program, the calls in the order Guile makes them. Encoding as MP3 or Opus has the
results the callers tell apart: nothing, some bytes, or the end of the process
(`Fatal`), which the copy of Opus pages without a bound, an encoder that was not
created and one destroyed twice can bring about. **Audio** has samples as integers
and floating-point arguments as fractions. A negative duration becomes a huge
`size_t`: sums with it come out as if it were negative, comparisons as if it were
huge, and what is read or written outside a buffer then is a result with `down`.

Operators marked "Mutant" in the modules are faulty variants of the definition
that follows them. No specification uses them; they show that the properties
can fail: with the variant in place of the definition, TLC reports a violation.

## 3. Runs

Run them in this directory: `tlc -config MCWal_restart.cfg MCWal`, and so on.

| Run | Checks | Instance |
|---|---|---|
| `MCWal_restart` | `SegmentLsnSorted`, `ActiveIsNewest`, `SessionFsync`, `WalInv`, `RemovalSafe` | 2 flush threads, 5 records, 2 crashes, 1 power loss |
| `MCMemtables_list` | `ListInv`, `EntriesConserved`, `FlushedTablesFreed` | 5 addresses, tables of 2, 7 appends |
| `MCStorage_ingest` | `TypeOK`, `VisibleInOrder`, `LogKept`, `CheckpointCovered`, `StoreRefined` | 2 flush threads, tables of 2, segments of 3, 6 blocks, raw and compressed |
| `MCStorage_recover` | `NamedFilesComplete`, `FlushLsnReached`, `MemoryInLogOrder`, `StartupEnds`, `FlushEnds` | 2 flush threads, 2 streams with the same reference time, tables of 2, segments of 2, 5 blocks, 1 crash |
| `MCLruCache_lru` | `CacheInv` (`ListLinked` and `TableMatchesList`), `LruRefined` | capacity 3, 4 nodes, 4 keys of which two collide |
| `MCStreams_sessions` | `OneWriter`, `BatchIndependent`, `ListedOnce` | 2 streams whose hashes fall into the same of 2 bins, two sessions and the zero session, batches of 2, 3 accepted frames per stream, 1 crash |
| `MCRange_query` | `NoDuplicates`, `CoveringComplete`, `InOrder`, `CacheCoherent` | 2 streams, tables of 2, a cache that evicts, paths of 3 components |
| `MCServer_loop` | `FramesAligned`, `RepliesInOrder`, `ReplicaPrefix`, `Answered` | 2 clients, one of them pipelining, a replica |
| `MCExec_requests` | `PlanIsRequest`, `AllOrNothing`, `FailureShown`, `Composed`, `AudioLaws` (`PadTrim`, `SplitMerge`, `FadeNeverLouder`, `EncodeFits`), `DownCause`, `EvalMatchesPipe`, `RequestEnds` | requests of up to 4 stages from 70 pieces, over a stereo 16-bit and a mono 24-bit stream |

`TypeOK` of Storage contains the one of Wal; those of Wal and Memtables are part of
the proved invariants (section 4).

The largest take one to three minutes (`MCWal_restart`, `MCStorage_recover`,
`MCExec_requests`).

Bounds. Records: enough for two rotations, and for a segment that outgrows its
limit across a restart because `wal->size` starts at 0 again. Tables of two
against segments of three records (two in `recover`): checkpoints fall inside
and at the end of segments. Two flush threads: every race between flushes in
this code is between two of them. In `ingest` the streams are far apart and frames
last at least a millisecond, so that names are distinct; `recover` has two streams
with the same times, so that both threads may have the same temporary file, and
behaviours of one stream, whose names are distinct. Two crashes of the log: the
second one meets LSNs the first restart has reused. When all flush threads of an
instance are busy an append has to wait in the model, where the code starts one
more; that is the bound `Flushers`.
A cache of three: the smallest with a first, a middle and a last node. Batches of
two: a frame that is refused and one that is not, in both orders. Requests of
four stages: two stages between the first and the last, so that a filter works
on the output of a filter and passes it on. Durations that are no whole number of
samples are tried by `PadTrim` and `FadeNeverLouder` on every buffer that occurs.
Samples of the instances have 30-bit range, since TLC's integers have 32 bits.
Deadlock is checked in the cache and the streams, where some operation is always
possible; elsewhere the bounded appends run out, and a server without requests
rests. Symmetry is used over flush threads and over table addresses,
only in runs without liveness.

Fairness. A started flush thread keeps taking steps while the process runs
(operating-system scheduling; nothing it calls waits for another thread, the
`flock` is released within a step). In Storage the event loop finishes the
append or replay it is in (sequential code), and the server is started again
after a crash. In Server the loop serves every readable socket and writes every
output buffer; in Exec the read callback runs to its end. No fairness is assumed
of clients, crashes, disconnects or rotation.

### What the documentation says and the code does not do

Each of these runs ends in a counterexample; the property states the quoted
sentence, and `PROJECT.json` gives file and line under `findings`.

| Run | What TLC shows |
|---|---|
| `MCStorage_RecoveryComplete` | the record with LSN 0 is never replayed |
| `MCRange_RangeComplete` | blocks are left out when their file starts before the range |
| `MCExec_RangeExact` | RANGE converts the eight bytes kept for a header as samples |

Other places where code and documentation part, visible as actions, as theorems or
as preconditions of the models:

* of the tables that `racs_multi_memtable_create` allocates only one stays in the
  list (`memtable.c:39`), whatever `memtable.tables` says (`conf.yaml:42`: "Number
  of memtables that can reside in memory simultaneously"); theorem
  `AlwaysOneResident` has it for every number of tables;
* every link to a slave is connected to the first of the configuration
  (`server.c:182`): with two slaves the first executes each request twice and the
  second none. Theorem `OnlyFirstSlaveExecutes` has it for every number of slaves;
* rotation between the two directory reads of `racs_wal_truncate` makes it unlink
  the segment being written (`wal.c:131`, variable `stray`);
* the manifest is written before the sstable it vouches for (`memtable.c:243`);
* the flush at shutdown skips the head of the list (`memtable.c:77`);
* a crash can leave an empty temporary file that no later start survives
  (`offsets.c:94`, action `StartFails`);
* replay computes times from positions in the log (`wal_replay.c:44`);
* two tables that start in the same millisecond share one file (`memtable.c:301`);
* a request behind another in one read waits for further bytes, and one of length
  0 blocks its connection (`server.c:85`);
* a message is written to the freed buffer of a replica that left
  (`server.c:138`, action `BroadcastFault`);
* a pipe with nothing behind it frees a command twice (`exec.c:78`); a name of
  more than 254 characters overflows its array (`exec.c:292`);
* TRIM of everything, CLIP with its limits swapped and PAN of a mono buffer pack
  a NULL result (`command.c:394`); ENCODE subtracts from an unchecked length
  (`command.c:280`), and Opus output is copied without a bound (`ogg.c:27`);
* a negative duration wraps around and makes TRIM and PAD touch memory outside their
  buffers (`ops.c:66`, `ops.c:189`).

The properties that hold are stated with the preconditions this code needs:

* `RemovalSafe` and `LogKept` hold until a segment younger than the spared one
  is removed (`stray`). `LogKept` exempts the tables of flushes under way, since
  a later flush may truncate the log of an earlier one (`wal.c:132`).
* `SessionFsync` is about the records of one process: a restart repeats the
  last LSN and leaves earlier records unsynced (`wal.c:238`), so `wal.fsync`
  records and more can be without fsync.
* `CheckpointCovered` is about records below the checkpoint. Replay also skips
  the record at the checkpoint (`memtable.c:228`, `wal_replay.c:28`), which is in
  no sstable. A restart on an empty or new segment even continues with LSNs
  below the checkpoint.
* `NamedFilesComplete` admits a file that a thread has emptied and is about to
  write: with equal times the other thread may rename it in between. It holds until
  a crash, which can make such a file permanent.
* `FlushEnds` (the blocks of a table handed over are in named sstables when its
  thread ends) assumes distinct names, since otherwise a rename replaces another
  table, and admits that the process crashes first.
* `ReplicaPrefix` speaks of a slave node only when one link leads to it.
* `StoreRefined` and the other properties of `ingest` are
  checked without crashes, in an instance where no two tables start in the same
  millisecond. After a restart offsets count compressed sizes (`offsets.c:109`).
* `VisibleInOrder` is about what a query sees; a table being flushed is not seen.
* `CoveringComplete` exempts tables being flushed, which are in neither place a
  query reads, and together with `CacheCoherent` assumes that no two tables have
  the same name. `InOrder` assumes it too: without it, nine blocks are enough for
  the cache to bring an old file between newer ones. It is about streams whose files begin
  with their own blocks: files are ordered by their first entry, whatever stream
  it is of.
* `LruRefined` is for a capacity of at least 2: with 1, eviction leaves the head on
  the freed node (`cache.c:84`).
* `Answered` is about clients that wait for each reply and send no empty request.
* `FailureShown` admits that a filter with a wrong number of arguments leaves the
  audio in front of its error (`command.h:41`).
* `Composed` is about durations of whole frames: TRIM and PAD count samples, so
  others shift the channels (`ops.c:66`). A fade runs over the samples of all
  channels and is left to `FadeNeverLouder`.
* `DownCause` says which commands a request that ends the process must have: a
  command in the plan twice, a long name, SHUTDOWN, TRIM, CLIP, PAN, EVAL, PAD by a
  negative duration, or ENCODE in a compressed format or behind one of these. It
  does not say that each of them does end it, nor anything about failing
  allocations (section 5).
* `EvalMatchesPipe` compares where command and binding check alike. They do not for
  PAN of one channel (`command.c:488`, `scm_bindings.c:124`), for limits of CLIP
  outside 32 bits or of both signs (`command.c:562`, `scm_bindings.c:159`), for an
  integer as GAIN (`command.c:335`, `scm_bindings.c:41`), for ENCODE of one sample
  or in an unknown format, and for LIST without a stream. Both sides of these are in
  Commands and Scheme as they are.

## 4. Proofs

`tlapm WalProofs.tla`, and so on; `StorageProofs` and `RequestProofs` take the longest. The theorems
hold for every value of the constants that satisfies the named assumptions of the
modules: sizes, intervals, capacities and bounds are natural numbers, positive
where the code divides by them or loops over them; `NoOp` and `NULL` are distinct
from operations, tables and nodes; hashes are natural numbers; a client writes
requests of natural length; a cache has at least two entries; tokens carry values
of their type, samples are words of at least 24 bits, a stream has a sound header,
and the durations of the laws are not negative. A long name is no command, and the
slaves are at most as many as the server has room for. All were checked by
TLC as invariants before they were proved.

**Log** (`WalProofs`).
* `WalInvariant`: `Spec => [](TypeOK /\ WalInv)`. `SegmentLsnSorted` is not
  inductive alone. A write appends `lsn`, so the active segment must not hold a
  higher one (`ActiveLsn`); rotation appends to a file that is new only if no
  segment is above the descriptor (`DirBelowFd`, `ActiveIsNewest`).
  `RemovalSafe` needs that what a thread found out about a segment stays true
  until it removes it (`RemoveChecked`): only the active segment grows, and until
  a stray removal a segment at or below the spared one is not active
  (`SparedIsOld`, `TodoSpares`). `QuietWhenDown` lets a restart begin without
  threads. From it follow `SegmentsSorted`, `ActiveNewest` and, as an action
  property, `RemovalIsSafe`.
* `SessionAlwaysSynced` (`SessionFsync`) counts. `SessionTail`: what this process
  has written and not synced is the end of the active segment, has consecutive
  LSNs, and none but a last one whose fsync is due is a multiple of `wal.fsync`. So
  the LSNs of two unsynced records differ modulo `wal.fsync`, and only that last
  one is 0.

**Memtables** (`MemtablesProofs`).
* `ListInvariant`: `Spec => [](TypeOK /\ ListInv)`, from which
  `AlwaysOneResident`, which contradicts what `conf.yaml` says of `memtable.tables`.
  `MoveToHead` reads `tail->prev` just after writing `head->prev`; with
  `tail = head` this makes the new table the tail. So the list has one element
  before and after, also in the half-done append (`OneReplaced`), and thread-owned
  tables are separate from it (`OwnedIsLive`, `EmptyUnlessOwned`).
* `EntriesAlwaysConserved` (`EntriesConserved`) is about a sum over all tables.
  Lemmas show that changing the count of one table changes the sum by the
  difference.

**Storage** (`StorageProofs`).
* `StorageRunsLog`: `Spec => W!Spec`. Every action is an action of the log or
  leaves it alone, and keeps the log's assumption about its callers, so that
  everything proved about Wal holds here.
* `StorageInvariant`: `Spec => []StorageInv`, through any number of crashes and
  replays. The state of the log and the program counter agree (`InStep`); records
  are numbered in the order of the segments (`LogInOrder`); what is in memory
  carries LSNs the log has reached (`MemLsns`) and numbers below what is still to
  be read or written (`MemoryBelow`, `ReplayInOrder`). From it: `StorageTypes`,
  `FlushLsnAlwaysReached` and `MemoryAlwaysInLogOrder`.
* `NamedFilesAlwaysComplete`: `Spec => []NamedFilesComplete`, without a hypothesis:
  a file that is short has a thread that will write it, whoever renames it
  meanwhile. `FilesAlwaysWhole`: `Spec /\ []DistinctTimes => []FilesWhole`, also
  through crashes. `FilesInv` ties a thread to its temporary file from open to
  rename. The hypothesis (no two flushes under way have tables that start in the
  same millisecond) is needed: threads with the same time truncate each other's file.
* `StoreImplemented`: `Spec /\ []DistinctNames /\ [](crashes = 0) => StoreRefined`.
  `DistinctNames` adds that no table starts in a millisecond that has a file
  already, which the rename would replace. A crash empties the memory, so the
  refinement ends there. `HeldBelow` shows that an append adds a block that is
  new and no earlier than those of its stream.
* `LogAlwaysKept` and `CheckpointAlwaysCovered`, under the same hypotheses, from
  `KeptInv`: without a crash LSNs are numbers of appends (`LsnIsNumber`),
  checkpoints are below what is in the memtable (`CheckpointsBelow`), which is in
  the log until a stray removal (`MemoryLogged`), and every acknowledged block is
  held (`AllHeld`).
* `VisibleAlwaysInOrder`: `Spec /\ []DistinctNames /\ [](crashes = 0) /\ []Unmixed
  => []VisibleInOrder`. Flush threads may rename in any order, so files come
  out of order; but each was cut out of the log in one piece and before the
  memtable, is named by its first block, and the times of a stream do not go back
  (`FileOrder`). So of two files the one with the lower name has the lower numbers.
  `Unmixed` (a file holds blocks of one stream) is needed: a file that begins
  with another stream's block is named by a time that says nothing of this one,
  and offsets of streams are independent. Without `DistinctNames` a rename can
  replace a file by a later one; after a crash offsets are computed anew from the
  stored sizes.
* `NamesAlwaysDistinct`: one stream with frames of at least a millisecond has
  distinct names as long as nothing crashes (`TimesInv`: times follow the
  numbers). `SpacedStreamIsSafe` puts it together: for such a stream the five
  properties hold without a hypothesis about names or files. Two streams, or frames of
  less than a millisecond, can share a name.

**Hash table** (`KvStoreProofs`). `KvActsAsMap`: for any hash and any number of
bins, while every key is in its bin and only once, put, get and delete are those
of a map, and they keep it so. Streams and LruCache use the lemmas through
`Binds(kv, k, v)`.

**Sessions** (`RequestProofs`). `StreamsInvariant`, then `OneWriterAlways`,
`BatchIndependentAlways` and `ListedOnceAlways`. The table is bound to the session
of the last accepted frame (`BoundToLast`); a sound frame that was refused met
another session, and that one is bound still (`RefusedByOther`), because CREATE
and CLOSE do not run inside a batch (`CreateAlone`); a temporary metadata file is
never beside the named one (`TmpUnnamed`).

**Requests** (`RequestProofs`), for every set of tokens, requests and streams.
* `RequestInvariant`: `ExecSpec => []RequestInv`. What the parser has read is the
  beginning of the text and was acceptable token by token (`Behind`, `Builder`);
  the names that were read are the names of the objects, and every object but the
  one being built is in the plan (`NamesKept`, `Planned`); nothing is called
  before the whole text is accepted and every name known (`Quiet`); while commands
  run, all before have succeeded and left one object (`Succeeding`); a reply
  is an error in the right cases (`Ended`). From it
  `RefusedChangesNothing` (`AllOrNothing`) and `FailuresAreShown`
  (`FailureShown`). The work is in the commands: each returns an error object
  exactly with the code "error", whatever it finds in the buffer (`Fine`).
* `PlansAreRequests` (`PlanIsRequest`) needs more: the objects are the commands of
  the text so far, the last of them as far as it was read, and the plan lists them
  in order (`Written`). That the builder goes on filling an object the plan
  already points to is harmless in a well-formed request, since a pipe is followed
  by a name.

**Audio** (`RequestProofs`). `AudioInvariant`: `ExecSpec /\ []ProperAudio =>
[]AudioInv`. A buffer on its way between two stages is a header and words, or
empty, and if no command that may lose a header was called (`MayLose`) the header names
at least one channel (`Piped`). From it:
* `ProcessEndsForCause` (`DownCause`): each other command, given such a
  buffer, returns. ENCODE divides by the channels of the header and subtracts its
  two words from the length, so it depends on who made the buffer, and in a
  compressed format on the library.
* `OperationsObeyLaws` (`AudioLaws`), from lemmas about the operators for every
  buffer: `PadThenTrim`, `SplitThenMerge`, `FadeSofter`, `WavFits`.

`ProperAudio` states one restriction: the vector that an expression yields, where
it yields one, consists of 32-bit words. Its value comes from a fold over a program
of any length, which would need an induction. It holds in every state of the
instance of `MCExec_requests`. Durations may have any sign.

**Cache** (`LruCacheProofs`). `LruInvariant`: there is a sequence of nodes without
repetition that `head`, `tail`, `prev` and `next` lead through, its nodes are the
allocated ones, and the table binds each to the key of its entry. A lemma follows
each list operation on that sequence: taking out a node, pushing one to the front,
dropping the last. From it `CacheAlwaysConsistent` (`CacheInv`) and the
refinement `LruImplemented` (`LruRefined`): a get is `Use`, a put is `Insert`.

**Server** (`ServerProofs`). `ServerInvariant`, then `FramesAlwaysAligned`,
`RepliesAlwaysInOrder` and `ReplicasArePrefixes`. What was handled is the beginning
of what was sent, and the read position is behind it (`Aligned`); replies read and
replies buffered together number the requests handled (`Numbered`); what a replica
was sent and what is buffered for it is what the server executed, as long as the
link is open (`Copied`). What a node executes is what its link handles if it has
only one (`NodeInv`); with several `ReplicasArePrefixes` says nothing of the node,
and `OnlyFirstSlaveExecutes` shows that all of them lead to the first.

**Range queries** (`RangeProofs`). `RangeInvariant`: the log of appends is cut into
stretches of the size of a memtable; each is with a flush thread or a file has its
name, the memtable is what is behind the last, and a cached file is a stretch under
its name (`StoreInv`). What a query has put out comes from files whose turn is over
(`Origin`), in the order of their names and inside a file in the order of the
appends (`Before`); every table has had its turn, will have it, has a name outside
the range, or was with a thread when the query began (`Handled`). From it
`RepliesHaveNoDuplicates`, `CoveringAlwaysComplete`, `RepliesAreOrdered` (times of a
stream do not decrease, so files that begin with it are named in the order of the
appends) and `CacheAlwaysCoherent`. Two results about operators carry it:
`ReadWritten`, reading a file through its index gives back the table, since offsets
increase; and `SharedPathCovers`, the directory that two times share has every time
between them, since quotients by a unit are monotone. `RangeAssumption` asks that
each unit of a path divides the one before it and that no time asked for is before
1970.

Recursive functions (the start of a request in the byte stream, the walk along the
list, the offsets in a file, the entries selected from a table) are handled without an induction rule: a solution is written down, and
two solutions agree because there is no least place where they differ
(`LeastNat`).

Only model-checked:
* all liveness properties, since fairness is outside the prover's reach;
* `Composed`, which follows a pipe of any length by a fold over its stages and
  flattens the frames at the end. It also depends on the instance: durations and
  stored blocks of whole frames, gains that do not leave the range of a word;
* `EvalMatchesPipe`, which compares two such folds, one of them over a program of
  Scheme.

## 5. Not modelled

Failing system calls and allocations (a PAD too long for the memory fails in the
code and succeeds in the model), torn log records and the checksum that detects
them, which a restart does not look at when it takes the LSN from the end of the
last segment (`wal.c:251`), lengths of a request within eight of 2^64, whose sum
with the prefix wraps (`server.c:70`), more than `RACS_MAX_SLAVES` slaves, which
leave their number unset (`server.c:173`), the arithmetic of checksums and hashes, MessagePack bytes, the
wording of errors, the regular expressions of tokens other than the pipe, what
LAME and libopusenc write, Guile and the limits of its sandbox, configuration
parsing and logging. Stream names stand for their hashes, which are assumed not
to collide. Times are natural numbers in milliseconds computed with integer
division, where the code divides doubles and truncates; arithmetic on samples is
exact, where the code rounds to `float` or `double`. File descriptors that
`racs_sstable_read` leaves open, and a text request without a final zero byte
(`server.c:104`), are outside the models.

## 6. Plan

The models are complete as far as the code has control of its own, and every
component has its inductive invariant proved. Worth adding if the code changes:
theorems for `Composed` stage by stage, with whole frames and gains without
overflow as hypotheses, and a model of the sandbox limits of EVAL.
