------------------------------ MODULE LruCache ------------------------------
(***************************************************************************)
(* The sstable cache (src/src/cache.c): a hash table of nodes that a       *)
(* doubly linked list keeps in the order of their use.                     *)
(*                                                                         *)
(* Every operation holds cache->rwlock for writing, so each is one step;   *)
(* within a step the fields change in the order of the statements.  A      *)
(* freed node may be the one malloc returns next.                          *)
(***************************************************************************)
EXTENDS KvStore, TLC

CONSTANTS
    Nodes,      \* addresses malloc can return for a racs_cache_node
    NULL,
    Keys,       \* pairs of stream id and sstable time
    Values,     \* blocks of data read from sstables
    Capacity    \* cache.entries of conf.yaml, also the number of bins

ASSUME NodesAssumption == NULL \notin Nodes
ASSUME CapacityAssumption == Capacity \in Nat \ {0, 1} /\ BinCount = Capacity
ASSUME HashAssumption == \A k \in Keys : HashOf(k) \in Nat

VARIABLES
    cache,      \* the fields head, tail and size of racs_cache
    prev, next, \* link fields of every node
    entry,      \* entry field of every node
    kv,         \* cache->kv, with nodes as values
    live,       \* nodes malloc has returned and nobody has freed
    recent      \* history: the key last found or put, or <<>>

vars == <<cache, prev, next, entry, kv, live, recent>>

Ptr == Nodes \cup {NULL}

-----------------------------------------------------------------------------
(* The list, as a record of the fields the list operations write *)

List == [head |-> cache.head, tail |-> cache.tail, prev |-> prev, next |-> next]

\* racs_cache_move_to_head, cases of its early returns first.
FirstNode(l, n) ==
    [l EXCEPT !.head = n, !.tail = n, !.prev[n] = NULL, !.next[n] = NULL]

OffTail(l, n) ==
    IF l.tail # n THEN l
    ELSE IF l.prev[n] = NULL THEN [l EXCEPT !.tail = NULL]
    ELSE [l EXCEPT !.tail = l.prev[n], !.next[l.prev[n]] = NULL]

\* Mutant: only the forward link of the neighbours is repaired.
UnlinkedForward(l, n) ==
    [l EXCEPT !.next = IF l.prev[n] = NULL THEN @ ELSE [@ EXCEPT ![l.prev[n]] = l.next[n]]]
Unlinked(l, n) ==
    [l EXCEPT
        !.next = IF l.prev[n] = NULL THEN @ ELSE [@ EXCEPT ![l.prev[n]] = l.next[n]],
        !.prev = IF l.next[n] = NULL THEN @ ELSE [@ EXCEPT ![l.next[n]] = l.prev[n]]]

PushFront(l, n) ==
    [l EXCEPT !.prev = [@ EXCEPT ![n] = NULL, ![l.head] = n],
              !.next[n] = l.head, !.head = n]

\* Mutant: a new node goes to the head, a node already in the list stays.
MoveToHeadOnce(l, n) ==
    IF l.head = NULL THEN FirstNode(l, n)
    ELSE IF l.head = n \/ l.next[n] # NULL \/ l.prev[n] # NULL THEN l
    ELSE PushFront(l, n)

MoveToHead(l, n) ==
    IF l.head = NULL THEN FirstNode(l, n)
    ELSE IF l.head = n THEN l
    ELSE PushFront(Unlinked(OffTail(l, n), n), n)

\* racs_cache_evict on the list: the node before the tail becomes the tail.
\* The head is left alone, which is why Capacity must be at least 2.  The fields
\* of the freed node are forgotten: nothing reads them.
EvictTail(l) ==
    [l EXCEPT !.tail = l.prev[l.tail],
              !.next = IF l.prev[l.tail] = NULL THEN @
                       ELSE [@ EXCEPT ![l.prev[l.tail]] = NULL],
              !.prev[l.tail] = NULL]

SetList(l, size) ==
    /\ cache' = [head |-> l.head, tail |-> l.tail, size |-> size]
    /\ prev' = l.prev
    /\ next' = l.next

-----------------------------------------------------------------------------
(* The operations *)

\* racs_cache_get of a key the cache has (otherwise it changes nothing), and
\* racs_cache_put of such a key, which drops the new value.
CacheGet(key) ==
    /\ KvHas(kv, key)
    /\ SetList(MoveToHead(List, KvGet(kv, key)), cache.size)
    /\ recent' = <<key>>
    /\ UNCHANGED <<entry, kv, live>>

\* Insertion of a new node: racs_cache_node_create, move_to_head, kvstore_put.
PutNode(l, table, lives, size, key, value) ==
    \E n \in Nodes \ lives :
        /\ SetList(MoveToHead([l EXCEPT !.prev[n] = NULL, !.next[n] = NULL], n), size + 1)
        /\ entry' = [m \in Nodes |-> IF m = n THEN [key |-> key, value |-> value]
                                    ELSE IF m \in lives THEN entry[m] ELSE NULL]
        /\ kv' = KvPut(table, key, n)
        /\ live' = lives \cup {n}
        /\ recent' = <<key>>

\* racs_cache_put with room.
CachePut(key, value) ==
    /\ ~ KvHas(kv, key) /\ cache.size < Capacity
    /\ PutNode(List, kv, live, cache.size, key, value)

\* racs_cache_put at capacity: the tail is deleted from the table, whose destroy
\* callback frees the node, and taken off the list.
CachePutEvict(key, value) ==
    /\ ~ KvHas(kv, key) /\ cache.size >= Capacity
    /\ PutNode(EvictTail(List), KvDelete(kv, entry[cache.tail].key),
               live \ {cache.tail}, cache.size - 1, key, value)

-----------------------------------------------------------------------------

\* racs_scache_create
Init ==
    /\ cache = [head |-> NULL, tail |-> NULL, size |-> 0]
    /\ prev = [n \in Nodes |-> NULL]
    /\ next = [n \in Nodes |-> NULL]
    /\ entry = [n \in Nodes |-> NULL]
    /\ kv = KvEmpty
    /\ live = {} /\ recent = <<>>

Next ==
    \E key \in Keys :
        \/ CacheGet(key)
        \/ \E v \in Values : CachePut(key, v)
        \/ \E v \in Values : CachePutEvict(key, v)

Spec == Init /\ [][Next]_vars

-----------------------------------------------------------------------------
(* Properties *)

\* The first i nodes of the list, from the head.
Walk[i \in 0 .. Capacity + 1] ==
    IF i = 0 THEN <<>>
    ELSE IF i = 1 THEN IF cache.head = NULL THEN <<>> ELSE <<cache.head>>
    ELSE LET w == Walk[i - 1]
         IN  IF w = <<>> \/ next[w[Len(w)]] = NULL THEN w
             ELSE Append(w, next[w[Len(w)]])

Listed == Walk[Capacity + 1]

\* Forward and backward links agree from head to tail, and every node on the
\* list is allocated: no operation leaves a pointer to a node eviction freed
\* (racs_cache_move_to_head, racs_cache_evict).
ListLinked ==
    /\ cache.head = NULL <=> cache.tail = NULL
    /\ Range(Listed) = live
    /\ \A i \in DOMAIN Listed :
        /\ prev[Listed[i]] = IF i = 1 THEN NULL ELSE Listed[i - 1]
        /\ next[Listed[i]] = IF i = Len(Listed) THEN NULL ELSE Listed[i + 1]
    /\ Listed # <<>> => cache.tail = Listed[Len(Listed)]

\* The table and the list hold the same nodes under the same keys: a get never
\* returns a node that eviction has freed (racs_kvstore_delete in racs_cache_evict).
TableMatchesList ==
    /\ KvIsMap(kv)
    /\ {e.value : e \in KvEntries(kv)} = live
    /\ \A e \in KvEntries(kv) : entry[e.value].key = e.key
    /\ cache.size = Len(Listed) /\ cache.size <= Capacity

\* Links, table and size of the cache agree after every get and put: no get and
\* no eviction reaches a node that was freed (racs_cache_get, racs_cache_put).
CacheInv == ListLinked /\ TableMatchesList

Abstract == INSTANCE Lru WITH
    order <- [i \in DOMAIN Listed |-> entry[Listed[i]].key],
    value <- [k \in {entry[n].key : n \in Range(Listed)} |->
                entry[KvGet(kv, k)].value],
    recent <- recent

\* The cache is a least-recently-used cache of Capacity keys: racs_cache_get and
\* racs_cache_put move what they find to the head, and eviction takes the key
\* used longest ago.
LruRefined == Abstract!LruSpec
=============================================================================
