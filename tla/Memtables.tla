------------------------------ MODULE Memtables -----------------------------
(***************************************************************************)
(* The list of memtables (src/src/memtable.c), pointer by pointer: its     *)
(* creation, appends that fill a table and hand it to a detached flush     *)
(* thread, the thread's write and free, and the flush at shutdown.         *)
(*                                                                         *)
(* Entries are counted, not represented.  The event loop is the only       *)
(* thread that touches the list, and holds mmt->mutex while it does; a     *)
(* flush thread never takes that mutex, so its steps interleave with an    *)
(* append that is between pthread_create and the relinking of the list.    *)
(***************************************************************************)
EXTENDS Integers, FiniteSets, FiniteSetsExt

CONSTANTS
    Tables,      \* addresses malloc can return for a racs_memtable
    NULL,
    NumTables,   \* memtable.tables of conf.yaml
    Capacity,    \* memtable.entries of conf.yaml
    MaxAppends   \* bound: appends in a behaviour

ASSUME NullAssumption == NULL \notin Tables
ASSUME TablesAssumption == IsFiniteSet(Tables)
ASSUME NumTablesAssumption == NumTables \in Nat \ {0}
ASSUME CapacityAssumption == Capacity \in Nat \ {0}
ASSUME MaxAppendsAssumption == MaxAppends \in Nat

VARIABLES
    head, tail,  \* mmt->head, mmt->tail
    next, prev,  \* the link fields of every table
    entries,     \* mt->num_entries of every table
    live,        \* tables malloc has returned and nobody has freed
    th,          \* per table: what its flush thread will do next
    pc,          \* the event loop: create, run, link, walk, down, dead
    created,     \* loop counter of racs_multi_memtable_create
    cursor,      \* loop variable of racs_multi_memtable_flush
    appended,    \* history: entries appended
    flushed      \* history: entries written to sstables

vars == <<head, tail, next, prev, entries, live, th, pc, created, cursor,
          appended, flushed>>

Ptr == Tables \cup {NULL}

-----------------------------------------------------------------------------
(* racs_multi_memtable_move_to_head(mmt, t), in the order of its statements:   *)
(* each operator is a field after the statements that write it.  tail->prev   *)
(* is read after head->prev has been written.                                 *)

NextLinked(t) == [next EXCEPT ![t] = head]
PrevLinked(t) ==
    IF head = NULL THEN [prev EXCEPT ![t] = NULL]
                   ELSE [prev EXCEPT ![t] = NULL, ![head] = t]
\* Mutant: the tail stays where it is.
TailKept(t) == IF head = NULL THEN t ELSE tail
TailMoved(t) == IF head = NULL THEN t ELSE PrevLinked(t)[tail]

MoveToHead(t) ==
    /\ prev' = PrevLinked(t)
    /\ tail' = TailMoved(t)
    /\ next' = IF head = NULL THEN NextLinked(t)
                              ELSE [NextLinked(t) EXCEPT ![TailMoved(t)] = NULL]
    /\ head' = t

-----------------------------------------------------------------------------
(* The event loop *)

\* One turn of the loop in racs_multi_memtable_create.
CreateTable(t) ==
    /\ pc = "create" /\ t \notin live
    /\ MoveToHead(t)
    /\ live' = live \cup {t}
    /\ entries' = [entries EXCEPT ![t] = 0]
    /\ created' = created + 1
    /\ pc' = IF created' = NumTables THEN "run" ELSE "create"
    /\ UNCHANGED <<th, cursor, appended, flushed>>

\* racs_multi_memtable_append with room in the head table.
Append ==
    /\ pc = "run" /\ appended < MaxAppends
    /\ entries[head] < Capacity
    /\ entries' = [entries EXCEPT ![head] = @ + 1]
    /\ appended' = appended + 1
    /\ UNCHANGED <<head, tail, next, prev, live, th, pc, created, cursor, flushed>>

\* The head table is full: racs_memtable_flush_async(mmt->tail).
FlushAsync ==
    /\ pc = "run" /\ appended < MaxAppends
    /\ entries[head] >= Capacity
    /\ th' = [th EXCEPT ![tail] = "write"]
    /\ pc' = "link"
    /\ UNCHANGED <<head, tail, next, prev, entries, live, created, cursor,
                   appended, flushed>>

\* The rest of that append: a new table (malloc may return the one the thread
\* has freed meanwhile) becomes the head and takes the entry.
Link(t) ==
    /\ pc = "link" /\ t \notin live
    /\ MoveToHead(t)
    /\ live' = live \cup {t}
    /\ entries' = [entries EXCEPT ![t] = 1]
    /\ appended' = appended + 1
    /\ pc' = "run"
    /\ UNCHANGED <<th, created, cursor, flushed>>

\* The thread has already freed the table whose links move_to_head reads: what
\* it reads there may be anything.
LinkFault ==
    /\ pc = "link" /\ tail \notin live
    /\ pc' = "dead"
    /\ UNCHANGED <<head, tail, next, prev, entries, live, th, created, cursor,
                   appended, flushed>>

\* racs_multi_memtable_flush at shutdown, which flushes mt->next, not mt ...
ShutdownStart ==
    /\ pc = "run"
    /\ cursor' = head
    /\ pc' = "walk"
    /\ UNCHANGED <<head, tail, next, prev, entries, live, th, created,
                   appended, flushed>>

\* ... and stops when there is no next table.  racs_memtable_flush returns at
\* once for an empty table, otherwise it writes, empties and frees it.
ShutdownStep ==
    /\ pc = "walk" /\ cursor # NULL
    /\ cursor' = next[cursor]
    /\ IF cursor' # NULL /\ entries[cursor'] > 0
         THEN /\ flushed' = flushed + entries[cursor']
              /\ entries' = [entries EXCEPT ![cursor'] = 0]
              /\ live' = live \ {cursor'}
         ELSE UNCHANGED <<flushed, entries, live>>
    /\ UNCHANGED <<head, tail, next, prev, th, pc, created, appended>>

ShutdownDone ==
    /\ pc = "walk" /\ cursor = NULL
    /\ pc' = "down"
    /\ UNCHANGED <<head, tail, next, prev, entries, live, th, created, cursor,
                   appended, flushed>>

-----------------------------------------------------------------------------
(* A flush thread: racs_memtable_flush *)

\* Mutant: num_entries is reset before the table is written.
ThreadWriteEmptied(t) ==
    /\ th[t] = "write" /\ pc \notin {"down", "dead"}
    /\ entries' = [entries EXCEPT ![t] = 0]
    /\ th' = [th EXCEPT ![t] = "free"]
    /\ UNCHANGED <<head, tail, next, prev, live, pc, created, cursor, appended, flushed>>

\* racs_memtable_write and num_entries = 0.
ThreadWrite(t) ==
    /\ th[t] = "write" /\ pc \notin {"down", "dead"}
    /\ flushed' = flushed + entries[t]
    /\ entries' = [entries EXCEPT ![t] = 0]
    /\ th' = [th EXCEPT ![t] = "free"]
    /\ UNCHANGED <<head, tail, next, prev, live, pc, created, cursor, appended>>

\* Mutant: the early return for an empty table comes after the write.
ThreadFreeIfFull(t) ==
    /\ th[t] = "free" /\ pc \notin {"down", "dead"} /\ entries[t] > 0
    /\ live' = live \ {t}
    /\ th' = [th EXCEPT ![t] = "none"]
    /\ UNCHANGED <<head, tail, next, prev, entries, pc, created, cursor,
                   appended, flushed>>

\* racs_wal_truncate and racs_memtable_destroy.
ThreadFree(t) ==
    /\ th[t] = "free" /\ pc \notin {"down", "dead"}
    /\ live' = live \ {t}
    /\ th' = [th EXCEPT ![t] = "none"]
    /\ UNCHANGED <<head, tail, next, prev, entries, pc, created, cursor,
                   appended, flushed>>

-----------------------------------------------------------------------------

Init ==
    /\ head = NULL /\ tail = NULL
    /\ next \in [Tables -> {NULL}] /\ prev \in [Tables -> {NULL}]
    /\ entries = [t \in Tables |-> 0]
    /\ live = {}
    /\ th = [t \in Tables |-> "none"]
    /\ pc = "create" /\ created = 0 /\ cursor = NULL
    /\ appended = 0 /\ flushed = 0

ThreadStep(t) == ThreadWrite(t) \/ ThreadFree(t)

Next ==
    \/ \E t \in Tables : CreateTable(t) \/ Link(t) \/ ThreadStep(t)
    \/ Append \/ FlushAsync \/ LinkFault
    \/ ShutdownStart \/ ShutdownStep \/ ShutdownDone

\* A started thread runs on, and the walk at shutdown goes on, until the
\* process ends.
Fairness ==
    /\ \A t \in Tables : WF_vars(ThreadStep(t))
    /\ WF_vars(ShutdownStep \/ ShutdownDone)

Spec == Init /\ [][Next]_vars /\ Fairness

-----------------------------------------------------------------------------
(* Properties *)

TypeOK ==
    /\ head \in Ptr /\ tail \in Ptr /\ cursor \in Ptr
    /\ next \in [Tables -> Ptr] /\ prev \in [Tables -> Ptr]
    /\ entries \in [Tables -> 0..Capacity]
    /\ live \subseteq Tables
    /\ th \in [Tables -> {"none", "write", "free"}]
    /\ pc \in {"create", "run", "link", "walk", "down", "dead"}
    /\ created \in Nat /\ appended \in Nat /\ flushed \in Nat

(* The parts of ListInv.  Between two appends head and tail are one live      *)
(* table that no flush thread owns (racs_multi_memtable_move_to_head cuts the *)
(* old head off, because the tail it steps back from is that head).           *)
OneResident ==
    pc \in {"run", "walk"} =>
        /\ head \in live /\ tail = head /\ next[head] = NULL
        /\ th[head] = "none"

(* While a full table is being replaced, the table that goes to the thread is *)
(* the only one the list still refers to.                                     *)
OneReplaced == pc = "link" => head # NULL /\ tail = head /\ next[head] = NULL

(* A table handed to a thread is still allocated until that thread frees it:  *)
(* no table is freed twice or flushed by two threads.                         *)
OwnedIsLive == \A t \in Tables : th[t] # "none" => t \in live

(* A freed table, and a table that only leaked, holds no entries.             *)
EmptyUnlessOwned ==
    \A t \in Tables :
        entries[t] > 0 =>
            t \in live /\ (th[t] = "write" \/ (t = head /\ pc # "link"))

(* The pointers of the list through creation, appends, hand-overs and the     *)
(* walk at shutdown: they never lead to a table that a flush thread owns or   *)
(* has freed, no table is freed or flushed twice, and none but the head and   *)
(* those handed over holds entries.                                           *)
ListInv ==
    /\ OneResident /\ OneReplaced /\ OwnedIsLive /\ EmptyUnlessOwned
    /\ pc = "create" => /\ head = NULL \/ (head \in live /\ tail = head /\ next[head] = NULL)
                        /\ head = NULL => tail = NULL
                        /\ \A t \in Tables : th[t] = "none" /\ entries[t] = 0
                        /\ created < NumTables
    /\ pc = "walk" => cursor \in {head, NULL}

(* Every entry accepted is in exactly one place: in the head table, in a      *)
(* table whose thread has not written it yet, or in an sstable.               *)
EntriesConserved ==
    appended = flushed + MapThenSumSet(LAMBDA t : entries[t], Tables)

(* A full table is written and freed, unless the process ends first.          *)
FlushedTablesFreed ==
    \A t \in Tables : th[t] = "write" ~> th[t] = "none" \/ pc \in {"down", "dead"}

=============================================================================
