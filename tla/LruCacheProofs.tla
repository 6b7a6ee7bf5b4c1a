--------------------------- MODULE LruCacheProofs ---------------------------
(***************************************************************************)
(* TLAPS proofs about the sstable cache: links, table and size agree after *)
(* every operation, and the cache is the least-recently-used cache of Lru, *)
(* for every capacity from two on, every hash and every set of keys.       *)
(*                                                                         *)
(* The list is followed as the sequence of its nodes from the head.        *)
(***************************************************************************)
EXTENDS LruCache, KvStoreProofs, WellFoundedInduction

\* The fields that the list operations write.
ListRec == [head : Ptr, tail : Ptr, prev : [Nodes -> Ptr], next : [Nodes -> Ptr]]

\* The list l leads through the nodes q, and back.
LinkedAs(l, q) ==
    /\ q \in Seq(Nodes)
    /\ \A i, j \in 1..Len(q) : q[i] = q[j] => i = j
    /\ l.head = IF Len(q) = 0 THEN NULL ELSE q[1]
    /\ l.tail = IF Len(q) = 0 THEN NULL ELSE q[Len(q)]
    /\ \A i \in 1..Len(q) :
        /\ l.prev[q[i]] = IF i = 1 THEN NULL ELSE q[i - 1]
        /\ l.next[q[i]] = IF i = Len(q) THEN NULL ELSE q[i + 1]

-----------------------------------------------------------------------------
(* The list operations *)

(* The first node of an empty list is the list.                               *)
LEMMA FirstLinked ==
    ASSUME NEW l \in ListRec, NEW n \in Nodes
    PROVE  FirstNode(l, n) \in ListRec /\ LinkedAs(FirstNode(l, n), <<n>>)
<1> DEFINE m == FirstNode(l, n)
           q == <<n>>
<1>1. /\ m \in ListRec /\ m.head = n /\ m.tail = n
      /\ m.prev[n] = NULL /\ m.next[n] = NULL
  BY DEF FirstNode, ListRec, Ptr
<1>2. q \in Seq(Nodes) /\ Len(q) = 1 /\ q[1] = n
  OBVIOUS
<1> HIDE DEF m, q
<1>3. LinkedAs(m, q)
  BY <1>1, <1>2 DEF LinkedAs
<1> QED
  BY <1>1, <1>3 DEF m, q

(* A node in front of the list is linked to the former head.                  *)
LEMMA PushLinked ==
    ASSUME NEW l \in ListRec, NEW q \in Seq(Nodes), LinkedAs(l, q), Len(q) > 0,
           NEW n \in Nodes, \A i \in 1..Len(q) : q[i] # n
    PROVE  PushFront(l, n) \in ListRec /\ LinkedAs(PushFront(l, n), <<n>> \o q)
<1> DEFINE p == <<n>> \o q
           m == PushFront(l, n)
<1>1. /\ p \in Seq(Nodes) /\ Len(p) = Len(q) + 1 /\ Len(q) \in Nat /\ p[1] = n
      /\ \A j \in 2..Len(q) + 1 : p[j] = q[j - 1]
  BY ConsProperties, LenProperties
<1>2. /\ l.head = q[1] /\ q[1] \in Nodes /\ q[1] # n /\ l.tail = q[Len(q)]
      /\ l.prev \in [Nodes -> Ptr] /\ l.next \in [Nodes -> Ptr]
  BY ElementOfSeq DEF LinkedAs, ListRec
<1>3. /\ m \in ListRec /\ m.head = n /\ m.tail = l.tail
      /\ m.prev = [[l.prev EXCEPT ![n] = NULL] EXCEPT ![q[1]] = n]
      /\ m.next = [l.next EXCEPT ![n] = q[1]]
  BY <1>2 DEF PushFront, ListRec, Ptr
<1>4. /\ m.prev[n] = NULL /\ m.prev[q[1]] = n /\ m.next[n] = q[1]
      /\ \A x \in Nodes : x # n => m.next[x] = l.next[x]
      /\ \A x \in Nodes : x # n /\ x # q[1] => m.prev[x] = l.prev[x]
  BY <1>2, <1>3
<1>5. \A i, j \in 1..Len(q) : q[i] = q[j] => i = j
  BY DEF LinkedAs
<1>6. \A i \in 1..Len(q) : /\ q[i] \in Nodes
                           /\ l.prev[q[i]] = IF i = 1 THEN NULL ELSE q[i - 1]
                           /\ l.next[q[i]] = IF i = Len(q) THEN NULL ELSE q[i + 1]
  BY ElementOfSeq DEF LinkedAs
<1> HIDE DEF p, m
<1>7. \A i, j \in 1..Len(p) : p[i] = p[j] => i = j
  <2> TAKE i, j \in 1..Len(p)
  <2>1. (i = 1 \/ i \in 2..Len(q) + 1) /\ (j = 1 \/ j \in 2..Len(q) + 1)
    BY <1>1
  <2>2. \A x \in 2..Len(q) + 1 : x - 1 \in 1..Len(q) /\ p[x] = q[x - 1] /\ p[x] # n
    BY <1>1
  <2> QED
    BY <1>1, <1>5, <2>1, <2>2
<1>8. m.head = p[1] /\ m.tail = p[Len(p)]
  <2>1. Len(q) + 1 \in 2..Len(q) + 1 /\ (Len(q) + 1) - 1 = Len(q)
    BY <1>1
  <2> QED
    BY <1>1, <1>2, <1>3, <2>1
<1>9. ASSUME NEW i \in 1..Len(p)
      PROVE  /\ m.prev[p[i]] = IF i = 1 THEN NULL ELSE p[i - 1]
             /\ m.next[p[i]] = IF i = Len(p) THEN NULL ELSE p[i + 1]
  <2>1. CASE i = 1
    <3>1. 2 \in 2..Len(q) + 1 /\ i # Len(p) /\ i + 1 = 2
      BY <1>1, <2>1
    <3> QED
      BY <1>1, <1>4, <2>1, <3>1
  <2>2. CASE i = 2
    <3>1. i \in 2..Len(q) + 1 /\ p[i] = q[1] /\ 1 \in 1..Len(q) /\ i - 1 = 1
      BY <1>1, <2>2
    <3>2. m.prev[p[i]] = p[i - 1]
      BY <1>1, <1>4, <3>1
    <3>3. m.next[p[i]] = l.next[q[1]] /\ l.next[q[1]] = IF 1 = Len(q) THEN NULL ELSE q[1 + 1]
      BY <1>2, <1>4, <1>6, <3>1
    <3>4. 1 # Len(q) => 3 \in 2..Len(q) + 1 /\ p[3] = q[2]
      <4>0. Len(q) \in Nat /\ 3 - 1 = 2
        BY <1>1
      <4>1. \A x \in Nat : x > 0 /\ 1 # x => 3 \in 2..x + 1
        OBVIOUS
      <4>2. 1 # Len(q) => 3 \in 2..Len(q) + 1
        BY <4>0, <4>1
      <4> QED
        BY <1>1, <4>0, <4>2
    <3> QED
      BY <1>1, <2>2, <3>2, <3>3, <3>4
  <2>3. CASE i \in 3..Len(p)
    <3> DEFINE k == i - 1
    <3>1. k \in 2..Len(q) /\ k \in 1..Len(q) /\ i \in 2..Len(q) + 1 /\ p[i] = q[k]
      BY <1>1, <2>3
    <3>2. q[k] # n /\ q[k] # q[1] /\ q[k] \in Nodes
      BY <1>1, <1>5, <1>6, <3>1
    <3>3. m.prev[p[i]] = q[k - 1] /\ m.next[p[i]] = IF k = Len(q) THEN NULL ELSE q[k + 1]
      BY <1>4, <1>6, <3>1, <3>2
    <3>4. k \in 2..Len(q) + 1 /\ p[k] = q[k - 1]
      BY <1>1, <3>1
    <3>5. k # Len(q) => i + 1 \in 2..Len(q) + 1 /\ p[i + 1] = q[k + 1] /\ i # Len(p)
      BY <1>1, <3>1
    <3> QED
      BY <1>1, <2>3, <3>3, <3>4, <3>5
  <2> QED
    BY <1>1, <2>1, <2>2, <2>3
<1>10. LinkedAs(m, p)
  BY <1>1, <1>7, <1>8, <1>9 DEF LinkedAs
<1> QED
  BY <1>3, <1>10 DEF p, m

(* A node that is in no list and has no links is left alone by the unlinking. *)
LEMMA UnlinkNew ==
    ASSUME NEW l \in ListRec, NEW n \in Nodes, l.tail # n,
           l.prev[n] = NULL, l.next[n] = NULL
    PROVE  Unlinked(OffTail(l, n), n) = l
<1>1. OffTail(l, n) = l
  BY DEF OffTail
<1>2. Unlinked(l, n) = [l EXCEPT !.next = l.next, !.prev = l.prev]
  BY DEF Unlinked, ListRec
<1>3. [l EXCEPT !.next = l.next, !.prev = l.prev] = l
  BY DEF ListRec
<1> QED
  BY <1>1, <1>2, <1>3

(* A node behind the head is taken out: its neighbours point at each other.   *)
LEMMA UnlinkLinked ==
    ASSUME NEW l \in ListRec, NEW q \in Seq(Nodes), LinkedAs(l, q),
           NEW k \in 2..Len(q)
    PROVE  /\ Unlinked(OffTail(l, q[k]), q[k]) \in ListRec
           /\ LinkedAs(Unlinked(OffTail(l, q[k]), q[k]), RemoveAt(q, k))
<1> DEFINE n == q[k]
           o == OffTail(l, n)
           m == Unlinked(o, n)
           p == RemoveAt(q, k)
<1>1. /\ Len(q) \in Nat /\ k \in Nat /\ k - 1 \in 1..Len(q) /\ k \in 1..Len(q)
      /\ k >= 2 /\ k <= Len(q) /\ Len(q) # 0
  BY LenProperties
<1>2. /\ p \in Seq(Nodes) /\ Len(p) = Len(q) - 1
      /\ \A j \in 1..Len(q) - 1 : p[j] = IF j < k THEN q[j] ELSE q[j + 1]
  BY <1>1, RemoveAtProperties
<1>3. \A i, j \in 1..Len(q) : q[i] = q[j] => i = j
  BY DEF LinkedAs
<1>4. \A i \in 1..Len(q) : /\ q[i] \in Nodes /\ q[i] # NULL
                           /\ l.prev[q[i]] = IF i = 1 THEN NULL ELSE q[i - 1]
                           /\ l.next[q[i]] = IF i = Len(q) THEN NULL ELSE q[i + 1]
  BY ElementOfSeq, NodesAssumption DEF LinkedAs
<1>5. /\ l.head = q[1] /\ l.tail = q[Len(q)]
      /\ l.head \in Ptr /\ l.tail \in Ptr
      /\ l.prev \in [Nodes -> Ptr] /\ l.next \in [Nodes -> Ptr]
      /\ Len(q) \in 1..Len(q)
  BY <1>1 DEF LinkedAs, ListRec
<1> DEFINE a == q[k - 1]
           b == IF k = Len(q) THEN NULL ELSE q[k + 1]
<1>6. /\ a \in Nodes /\ a # NULL /\ n \in Nodes /\ n # NULL /\ a # n
      /\ l.prev[n] = a /\ l.next[n] = b
      /\ k # Len(q) => k + 1 \in 1..Len(q) /\ b \in Nodes /\ b # NULL /\ b # n /\ b # a
      /\ l.tail = n <=> k = Len(q)
  <2>1. k - 1 # k /\ k # 1
    BY <1>1
  <2>2. a \in Nodes /\ a # NULL /\ n \in Nodes /\ n # NULL /\ a # n
    BY <1>1, <1>3, <1>4, <2>1
  <2>3. l.prev[n] = a /\ l.next[n] = b
    BY <1>1, <1>4, <2>1
  <2>4. k # Len(q) => k + 1 \in 1..Len(q) /\ k + 1 # k /\ k + 1 # k - 1
    BY <1>1
  <2>5. k # Len(q) => b \in Nodes /\ b # NULL /\ b # n /\ b # a
    BY <1>1, <1>3, <1>4, <2>4
  <2>6. l.tail = n <=> k = Len(q)
    BY <1>1, <1>3, <1>5
  <2> QED
    BY <2>2, <2>3, <2>4, <2>5, <2>6
<1> HIDE DEF p, a, b, n
<1>7. /\ o \in ListRec /\ o.head = l.head /\ o.prev = l.prev
      /\ o.tail = IF k = Len(q) THEN a ELSE l.tail
      /\ o.next = IF k = Len(q) THEN [l.next EXCEPT ![a] = NULL] ELSE l.next
  <2>1. CASE k = Len(q)
    <3>1. o = [l EXCEPT !.tail = a, !.next[a] = NULL]
      BY <1>6, <2>1 DEF OffTail
    <3>2. [l.next EXCEPT ![a] = NULL] \in [Nodes -> Ptr] /\ a \in Ptr
      BY <1>5, <1>6 DEF Ptr
    <3>3. /\ o.head = l.head /\ o.prev = l.prev /\ o.tail = a
          /\ o.next = [l.next EXCEPT ![a] = NULL]
      BY <3>1 DEF ListRec
    <3>4. o = [l EXCEPT !.tail = a, !.next = [l.next EXCEPT ![a] = NULL]]
      BY <3>1 DEF ListRec
    <3>5. o \in ListRec
      BY <3>2, <3>4 DEF ListRec
    <3> QED
      BY <2>1, <3>3, <3>5
  <2>2. CASE k # Len(q)
    <3>1. o = l
      BY <1>6, <2>2 DEF OffTail
    <3> QED
      BY <2>2, <3>1
  <2> QED
    BY <2>1, <2>2
<1>8. o.prev[n] = a /\ o.next[n] = b
  BY <1>5, <1>6, <1>7
<1> HIDE DEF o
<1>9. /\ m \in ListRec /\ m.head = l.head
      /\ m.tail = IF k = Len(q) THEN a ELSE l.tail
      /\ m.next = [o.next EXCEPT ![a] = b]
      /\ m.prev = IF k = Len(q) THEN l.prev ELSE [l.prev EXCEPT ![b] = a]
  <2>1. b = NULL <=> k = Len(q)
    BY <1>6 DEF b
  <2>2. m = [o EXCEPT !.next = [o.next EXCEPT ![a] = b],
                      !.prev = IF k = Len(q) THEN l.prev ELSE [l.prev EXCEPT ![b] = a]]
    BY <1>6, <1>7, <1>8, <2>1 DEF Unlinked, ListRec
  <2>3. b \in Ptr /\ a \in Ptr
    BY <1>6, <2>1 DEF Ptr
  <2>4. [o.next EXCEPT ![a] = b] \in [Nodes -> Ptr]
    BY <1>7, <2>3 DEF ListRec
  <2>5. [l.prev EXCEPT ![b] = a] \in [Nodes -> Ptr]
    BY <1>5, <2>3
  <2> QED
    BY <1>5, <1>7, <2>2, <2>4, <2>5 DEF ListRec
<1>10. /\ m.next[a] = b
       /\ \A x \in Nodes : x # a => m.next[x] = l.next[x]
       /\ k # Len(q) => m.prev[b] = a
       /\ \A x \in Nodes : (k # Len(q) => x # b) => m.prev[x] = l.prev[x]
  <2>1. /\ o.next \in [Nodes -> Ptr]
        /\ \A x \in Nodes : x # a => o.next[x] = l.next[x]
    BY <1>5, <1>7 DEF ListRec
  <2> QED
    BY <1>5, <1>6, <1>9, <2>1
<1> HIDE DEF m
<1>11. \A i, j \in 1..Len(p) : p[i] = p[j] => i = j
  <2> TAKE i, j \in 1..Len(p)
  <2> DEFINE I(x) == IF x < k THEN x ELSE x + 1
  <2>1. \A x \in 1..Len(p) : I(x) \in 1..Len(q) /\ p[x] = q[I(x)]
    BY <1>1, <1>2
  <2>2. I(i) = I(j) => i = j
    BY <1>1, <1>2
  <2> HIDE DEF I
  <2> QED
    BY <1>3, <2>1, <2>2
<1>12. Len(p) \in Nat /\ Len(p) # 0 /\ m.head = p[1] /\ m.tail = p[Len(p)]
  <2>1. Len(p) \in Nat /\ Len(p) # 0 /\ 1 \in 1..Len(q) - 1 /\ 1 < k
    BY <1>1, <1>2
  <2>2. m.head = p[1]
    BY <1>2, <1>5, <1>9, <2>1
  <2>3. CASE k = Len(q)
    <3>1. Len(q) - 1 \in 1..Len(q) - 1 /\ Len(q) - 1 < k /\ Len(q) - 1 = k - 1
      BY <1>1, <2>3
    <3>2. p[Len(p)] = q[k - 1] /\ m.tail = a
      BY <1>2, <1>9, <2>3, <3>1
    <3> QED
      BY <2>1, <2>2, <3>2 DEF a
  <2>4. CASE k # Len(q)
    <3>1. Len(q) - 1 \in 1..Len(q) - 1 /\ ~ (Len(q) - 1 < k) /\ (Len(q) - 1) + 1 = Len(q)
      BY <1>1, <2>4
    <3>2. p[Len(p)] = q[Len(q)] /\ m.tail = q[Len(q)]
      BY <1>2, <1>5, <1>9, <2>4, <3>1
    <3> QED
      BY <2>1, <2>2, <3>2
  <2> QED
    BY <2>3, <2>4
<1>13. ASSUME NEW i \in 1..Len(p)
       PROVE  /\ m.prev[p[i]] = IF i = 1 THEN NULL ELSE p[i - 1]
              /\ m.next[p[i]] = IF i = Len(p) THEN NULL ELSE p[i + 1]
  <2>0. /\ i \in Nat /\ Len(p) = Len(q) - 1 /\ i >= 1 /\ i <= Len(p)
        /\ i \in 1..Len(q) - 1 /\ i \in 1..Len(q) /\ i + 1 \in 1..Len(q)
    BY <1>1, <1>2
  <2>1. i # 1 => i - 1 \in 1..Len(q) - 1 /\ p[i - 1] = IF i <= k THEN q[i - 1] ELSE q[i]
    <3>1. i # 1 => /\ i - 1 \in 1..Len(q) - 1 /\ (i - 1 < k <=> i <= k) /\ (i - 1) + 1 = i
      BY <1>1, <2>0
    <3> QED
      BY <1>2, <3>1
  <2>2. i # Len(p) => p[i + 1] = IF i + 1 < k THEN q[i + 1] ELSE q[i + 2]
    <3>1. i # Len(p) => i + 1 \in 1..Len(q) - 1 /\ (i + 1) + 1 = i + 2
      BY <1>1, <2>0
    <3> QED
      BY <1>2, <3>1
  <2>3. CASE i < k - 1
    <3>1. /\ p[i] = q[i] /\ i # Len(p) /\ i # Len(q) /\ i + 1 < k /\ i <= k
          /\ i # k - 1 /\ (k # Len(q) => i # k + 1)
      <4>1. i < k /\ i # Len(q) - 1 /\ i # Len(q) /\ i + 1 < k /\ i <= k /\ i # k - 1 /\ i # k + 1
        BY <1>1, <2>0, <2>3
      <4> QED
        BY <1>2, <2>0, <4>1
    <3>2. q[i] # a /\ (k # Len(q) => q[i] # b) /\ q[i] \in Nodes
      BY <1>1, <1>3, <1>4, <1>6, <2>0, <3>1 DEF a, b
    <3>3. m.prev[p[i]] = l.prev[q[i]] /\ m.next[p[i]] = l.next[q[i]]
      BY <1>10, <3>1, <3>2
    <3> QED
      BY <1>4, <2>0, <2>1, <2>2, <3>1, <3>3
  <2>4. CASE i = k - 1
    <3>1. /\ p[i] = a /\ i <= k /\ i < k /\ ~ (i + 1 < k) /\ i + 2 = k + 1
          /\ (i = Len(p) <=> k = Len(q)) /\ i # k + 1
      BY <1>1, <1>2, <2>0, <2>4 DEF a
    <3>2. m.next[p[i]] = b /\ (k # Len(q) => b = q[k + 1]) /\ (k = Len(q) => b = NULL)
      BY <1>10, <3>1 DEF b
    <3>3. m.prev[p[i]] = l.prev[q[i]]
      BY <1>6, <1>10, <2>4, <3>1 DEF a
    <3> QED
      BY <1>4, <2>0, <2>1, <2>2, <3>1, <3>2, <3>3
  <2>5. CASE i = k
    <3>1. /\ k # Len(q) /\ p[i] = q[k + 1] /\ b = q[k + 1] /\ i <= k /\ ~ (i + 1 < k)
          /\ i # 1 /\ k + 1 \in 1..Len(q) /\ k + 1 # 1
          /\ (i = Len(p) <=> k + 1 = Len(q)) /\ (k + 1) + 1 = i + 2
      BY <1>1, <1>2, <2>0, <2>5 DEF b
    <3>2. m.prev[p[i]] = p[i - 1]
      BY <1>10, <2>1, <2>5, <3>1 DEF a
    <3>3. m.next[p[i]] = l.next[q[k + 1]]
      BY <1>6, <1>10, <3>1
    <3> QED
      BY <1>4, <2>0, <2>2, <3>1, <3>2, <3>3
  <2>6. CASE i > k
    <3> DEFINE j == i + 1
    <3>1. /\ j \in 1..Len(q) /\ p[i] = q[j] /\ j # 1 /\ i # 1 /\ j - 1 = i /\ ~ (i <= k)
          /\ j # k - 1 /\ j # k + 1 /\ ~ (i + 1 < k) /\ j + 1 = i + 2
          /\ (i = Len(p) <=> j = Len(q))
      <4>1. /\ ~ (i < k) /\ j # 1 /\ i # 1 /\ j - 1 = i /\ ~ (i <= k) /\ j # k - 1 /\ j # k + 1
            /\ ~ (i + 1 < k) /\ j + 1 = i + 2 /\ (i = Len(q) - 1 <=> j = Len(q))
        BY <1>1, <2>0, <2>6
      <4> QED
        BY <1>2, <2>0, <4>1
    <3> HIDE DEF j
    <3>2. q[j] # a /\ (k # Len(q) => q[j] # b) /\ q[j] \in Nodes
      BY <1>1, <1>3, <1>4, <1>6, <3>1 DEF a, b
    <3>3. m.prev[p[i]] = l.prev[q[j]] /\ m.next[p[i]] = l.next[q[j]]
      BY <1>10, <3>1, <3>2
    <3> QED
      BY <1>4, <2>0, <2>1, <2>2, <3>1, <3>3
  <2> QED
    BY <1>1, <2>0, <2>3, <2>4, <2>5, <2>6
<1>14. LinkedAs(m, p)
  BY <1>2, <1>11, <1>12, <1>13 DEF LinkedAs
<1> QED
  BY <1>9, <1>14 DEF m, o, p, n

\* A sequence with its element at k in front.
ToFront(q, k) == <<q[k]>> \o RemoveAt(q, k)

(* Moving an element to the front shifts those before it by one place.        *)
LEMMA ToFrontProperties ==
    ASSUME NEW S, NEW q \in Seq(S), NEW k \in 1..Len(q)
    PROVE  /\ ToFront(q, k) \in Seq(S) /\ Len(ToFront(q, k)) = Len(q)
           /\ \A j \in 1..Len(q) :
                ToFront(q, k)[j] = IF j = 1 THEN q[k] ELSE IF j <= k THEN q[j - 1] ELSE q[j]
<1> DEFINE r == RemoveAt(q, k)
           p == <<q[k]>> \o r
<1>1. Len(q) \in Nat /\ k \in Nat /\ k >= 1 /\ k <= Len(q) /\ q[k] \in S
  BY LenProperties, ElementOfSeq
<1>2. /\ r \in Seq(S) /\ Len(r) = Len(q) - 1
      /\ \A j \in 1..Len(q) - 1 : r[j] = IF j < k THEN q[j] ELSE q[j + 1]
  BY RemoveAtProperties
<1> HIDE DEF r
<1>3. /\ p \in Seq(S) /\ Len(p) = Len(r) + 1 /\ p[1] = q[k]
      /\ \A j \in 2..Len(r) + 1 : p[j] = r[j - 1]
  BY <1>1, <1>2, ConsProperties
<1> HIDE DEF p
<1>4. Len(p) = Len(q) /\ Len(r) + 1 = Len(q)
  BY <1>1, <1>2, <1>3
<1>5. ASSUME NEW j \in 1..Len(q), j # 1
      PROVE  p[j] = IF j <= k THEN q[j - 1] ELSE q[j]
  <2>1. j \in 2..Len(q) /\ j - 1 \in 1..Len(q) - 1 /\ (j - 1 < k <=> j <= k) /\ (j - 1) + 1 = j
    BY <1>1, <1>5
  <2>2. p[j] = r[j - 1]
    BY <1>3, <1>4, <2>1
  <2> QED
    BY <1>2, <2>1, <2>2
<1>6. /\ p \in Seq(S) /\ Len(p) = Len(q)
      /\ \A j \in 1..Len(q) : p[j] = IF j = 1 THEN q[k] ELSE IF j <= k THEN q[j - 1] ELSE q[j]
  BY <1>3, <1>4, <1>5
<1> QED
  BY <1>6 DEF ToFront, p, r

(* Neither does it change the elements.                                       *)
LEMMA ToFrontRange ==
    ASSUME NEW S, NEW q \in Seq(S), NEW k \in 1..Len(q)
    PROVE  Range(ToFront(q, k)) = Range(q)
<1> DEFINE p == ToFront(q, k)
<1>1. /\ p \in Seq(S) /\ Len(p) = Len(q)
      /\ \A j \in 1..Len(q) : p[j] = IF j = 1 THEN q[k] ELSE IF j <= k THEN q[j - 1] ELSE q[j]
  BY ToFrontProperties
<1> HIDE DEF p
<1>2. Len(q) \in Nat /\ k \in Nat /\ DOMAIN q = 1..Len(q) /\ DOMAIN p = 1..Len(q)
  BY <1>1, LenProperties
<1>3. \A j \in 1..Len(q) : \E i \in 1..Len(q) : p[j] = q[i]
  <2> TAKE j \in 1..Len(q)
  <2>1. CASE j = 1
    BY <1>1, <2>1
  <2>2. CASE j # 1 /\ j <= k
    <3>1. j - 1 \in 1..Len(q)
      BY <1>2, <2>2
    <3> QED
      BY <1>1, <2>2, <3>1
  <2>3. CASE j # 1 /\ ~ (j <= k)
    BY <1>1, <2>3
  <2> QED
    BY <2>1, <2>2, <2>3
<1>4. \A i \in 1..Len(q) : \E j \in 1..Len(q) : p[j] = q[i]
  <2> TAKE i \in 1..Len(q)
  <2>1. CASE i = k
    <3>1. 1 \in 1..Len(q)
      BY <1>2
    <3> QED
      BY <1>1, <2>1, <3>1
  <2>2. CASE i < k
    <3>1. i + 1 \in 1..Len(q) /\ i + 1 # 1 /\ i + 1 <= k /\ (i + 1) - 1 = i
      BY <1>2, <2>2
    <3> QED
      BY <1>1, <3>1
  <2>3. CASE i > k
    <3>1. i # 1 /\ ~ (i <= k)
      BY <1>2, <2>3
    <3> QED
      BY <1>1, <3>1
  <2> QED
    BY <1>2, <2>1, <2>2, <2>3
<1>5. Range(p) = Range(q)
  <2>1. Range(p) = {p[j] : j \in 1..Len(q)} /\ Range(q) = {q[j] : j \in 1..Len(q)}
    BY <1>2 DEF Range
  <2>2. \A x \in Range(p) : x \in Range(q)
    BY <1>3, <2>1
  <2>3. \A x \in Range(q) : x \in Range(p)
    BY <1>4, <2>1
  <2> QED
    BY <2>2, <2>3
<1> QED
  BY <1>5 DEF p

(* racs_cache_move_to_head of a node of the list.                             *)
LEMMA MoveHeld ==
    ASSUME NEW l \in ListRec, NEW q \in Seq(Nodes), LinkedAs(l, q), NEW k \in 1..Len(q)
    PROVE  /\ MoveToHead(l, q[k]) \in ListRec
           /\ LinkedAs(MoveToHead(l, q[k]), ToFront(q, k))
<1>1. /\ Len(q) \in Nat /\ k \in Nat /\ Len(q) # 0 /\ 1 \in 1..Len(q)
      /\ \A i \in 1..Len(q) : q[i] \in Nodes /\ q[i] # NULL
  BY LenProperties, ElementOfSeq, NodesAssumption
<1>2. /\ \A i, j \in 1..Len(q) : q[i] = q[j] => i = j
      /\ l.head = q[1]
  BY <1>1 DEF LinkedAs
<1>3. CASE k = 1
  <2>1. MoveToHead(l, q[k]) = l
    BY <1>1, <1>2, <1>3 DEF MoveToHead
  <2>2. ToFront(q, k) = q
    <3> DEFINE p == ToFront(q, k)
    <3>1. /\ p \in Seq(Nodes) /\ Len(p) = Len(q)
          /\ \A j \in 1..Len(q) : p[j] = IF j = 1 THEN q[k] ELSE IF j <= k THEN q[j - 1] ELSE q[j]
      BY ToFrontProperties
    <3>2. \A j \in 1..Len(q) : p[j] = q[j]
      BY <1>1, <1>3, <3>1
    <3> HIDE DEF p
    <3>3. p = q
      BY <3>1, <3>2, SeqEqual
    <3> QED
      BY <3>3 DEF p
  <2> QED
    BY <2>1, <2>2
<1>4. CASE k # 1
  <2> DEFINE m == Unlinked(OffTail(l, q[k]), q[k])
             r == RemoveAt(q, k)
  <2>1. k \in 2..Len(q)
    BY <1>1, <1>4
  <2>2. m \in ListRec /\ LinkedAs(m, r)
    BY <2>1, UnlinkLinked
  <2>3. /\ r \in Seq(Nodes) /\ Len(r) = Len(q) - 1
        /\ \A j \in 1..Len(q) - 1 : r[j] = IF j < k THEN q[j] ELSE q[j + 1]
    BY RemoveAtProperties
  <2>4. MoveToHead(l, q[k]) = PushFront(m, q[k])
    BY <1>1, <1>2, <1>4 DEF MoveToHead
  <2> HIDE DEF m, r
  <2>5. Len(r) > 0 /\ Len(r) \in Nat
    BY <1>1, <2>1, <2>3
  <2>6. \A j \in 1..Len(r) : r[j] # q[k]
    <3> TAKE j \in 1..Len(r)
    <3>1. j \in 1..Len(q) - 1 /\ j \in 1..Len(q) /\ j + 1 \in 1..Len(q) /\ (j < k => j # k)
          /\ (~ (j < k) => j + 1 # k)
      BY <1>1, <2>3
    <3> QED
      BY <1>2, <2>3, <3>1
  <2>7. PushFront(m, q[k]) \in ListRec /\ LinkedAs(PushFront(m, q[k]), <<q[k]>> \o r)
    BY <1>1, <2>2, <2>3, <2>5, <2>6, PushLinked
  <2> QED
    BY <2>4, <2>7 DEF r, ToFront
<1> QED
  BY <1>3, <1>4

\* The links of n, as racs_cache_node_create sets them.
Reset(l, n) == [l EXCEPT !.prev[n] = NULL, !.next[n] = NULL]

(* A list is what it is whatever the links of other nodes are.                *)
LEMMA ResetLinked ==
    ASSUME NEW l \in ListRec, NEW q \in Seq(Nodes), LinkedAs(l, q), NEW n \in Nodes,
           \A i \in 1..Len(q) : q[i] # n
    PROVE  LET m == Reset(l, n)
           IN  /\ m \in ListRec /\ LinkedAs(m, q)
               /\ m.prev[n] = NULL /\ m.next[n] = NULL /\ m.head = l.head /\ m.tail = l.tail
<1> DEFINE m == Reset(l, n)
<1>1. /\ m.head = l.head /\ m.tail = l.tail
      /\ m.prev = [l.prev EXCEPT ![n] = NULL] /\ m.next = [l.next EXCEPT ![n] = NULL]
      /\ m = [l EXCEPT !.prev = [l.prev EXCEPT ![n] = NULL], !.next = [l.next EXCEPT ![n] = NULL]]
  BY DEF ListRec, Reset
<1>2. /\ m.prev[n] = NULL /\ m.next[n] = NULL
      /\ \A x \in Nodes : x # n => m.prev[x] = l.prev[x] /\ m.next[x] = l.next[x]
      /\ m \in ListRec
  <2>1. /\ [l.prev EXCEPT ![n] = NULL] \in [Nodes -> Ptr]
        /\ [l.next EXCEPT ![n] = NULL] \in [Nodes -> Ptr]
    BY DEF ListRec, Ptr
  <2>2. m \in ListRec
    BY <1>1, <2>1 DEF ListRec
  <2>3. l.prev \in [Nodes -> Ptr] /\ l.next \in [Nodes -> Ptr]
    BY DEF ListRec
  <2> QED
    BY <1>1, <2>2, <2>3
<1> HIDE DEF m
<1>3. \A i \in 1..Len(q) : q[i] \in Nodes
  BY ElementOfSeq
<1>4. LinkedAs(m, q)
  BY <1>1, <1>2, <1>3 DEF LinkedAs
<1> QED
  BY <1>1, <1>2, <1>4 DEF m

(* racs_cache_move_to_head of a new node.                                     *)
LEMMA MoveNew ==
    ASSUME NEW l \in ListRec, NEW q \in Seq(Nodes), LinkedAs(l, q), NEW n \in Nodes,
           \A i \in 1..Len(q) : q[i] # n, l.prev[n] = NULL, l.next[n] = NULL
    PROVE  MoveToHead(l, n) \in ListRec /\ LinkedAs(MoveToHead(l, n), <<n>> \o q)
<1>1. Len(q) \in Nat /\ n # NULL /\ \A i \in 1..Len(q) : q[i] \in Nodes /\ q[i] # NULL
  BY LenProperties, ElementOfSeq, NodesAssumption
<1>2. CASE Len(q) = 0
  <2>1. q = << >> /\ <<n>> \o q = <<n>>
    BY <1>2, EmptySeq
  <2>2. MoveToHead(l, n) = FirstNode(l, n)
    BY <1>2 DEF MoveToHead, LinkedAs
  <2> QED
    BY <2>1, <2>2, FirstLinked
<1>3. CASE Len(q) # 0
  <2>1. l.head = q[1] /\ l.tail = q[Len(q)] /\ 1 \in 1..Len(q) /\ Len(q) \in 1..Len(q) /\ Len(q) > 0
    BY <1>1, <1>3 DEF LinkedAs
  <2>2. l.head # NULL /\ l.head # n /\ l.tail # n
    BY <1>1, <2>1
  <2>3. MoveToHead(l, n) = PushFront(l, n)
    BY <2>2, UnlinkNew DEF MoveToHead
  <2> QED
    BY <2>1, <2>3, PushLinked
<1> QED
  BY <1>2, <1>3

(* racs_cache_evict takes the last of at least two nodes off the list.        *)
LEMMA EvictLinked ==
    ASSUME NEW l \in ListRec, NEW q \in Seq(Nodes), LinkedAs(l, q), Len(q) >= 2
    PROVE  /\ EvictTail(l) \in ListRec
           /\ LinkedAs(EvictTail(l), SubSeq(q, 1, Len(q) - 1))
           /\ l.tail = q[Len(q)]
<1> DEFINE z == Len(q)
           n == q[z]
           a == q[z - 1]
           m == EvictTail(l)
           p == SubSeq(q, 1, z - 1)
<1>1. Len(q) \in Nat /\ z \in Nat /\ z >= 2 /\ z \in 1..Len(q) /\ z - 1 \in 1..Len(q) /\ z # z - 1
  BY LenProperties
<1>2. /\ \A i, j \in 1..Len(q) : q[i] = q[j] => i = j
      /\ l.head = q[1] /\ l.tail = n
      /\ \A i \in 1..Len(q) : /\ q[i] \in Nodes /\ q[i] # NULL
                              /\ l.prev[q[i]] = IF i = 1 THEN NULL ELSE q[i - 1]
                              /\ l.next[q[i]] = IF i = Len(q) THEN NULL ELSE q[i + 1]
  BY <1>1, ElementOfSeq, NodesAssumption DEF LinkedAs
<1>3. /\ p \in Seq(Nodes) /\ Len(p) = z - 1 /\ \A i \in 1..z - 1 : p[i] = q[i]
  <2>1. \A i \in 1..z - 1 : q[i] \in Nodes
    BY <1>1, <1>2
  <2> QED
    BY <1>1, <2>1
<1>4. l.prev[n] = a /\ a \in Nodes /\ n \in Nodes /\ a # n /\ a # NULL
  BY <1>1, <1>2
<1> HIDE DEF n, a
<1>5. /\ l.prev \in [Nodes -> Ptr] /\ l.next \in [Nodes -> Ptr] /\ l.head \in Ptr
  BY DEF ListRec
<1>6. m = [l EXCEPT !.tail = a, !.next = [l.next EXCEPT ![a] = NULL], !.prev = [l.prev EXCEPT ![n] = NULL]]
  BY <1>2, <1>4 DEF EvictTail, ListRec
<1>7. /\ m.head = l.head /\ m.tail = a
      /\ m.next = [l.next EXCEPT ![a] = NULL] /\ m.prev = [l.prev EXCEPT ![n] = NULL]
  BY <1>6 DEF ListRec
<1>8. m \in ListRec
  <2>1. a \in Ptr /\ [l.next EXCEPT ![a] = NULL] \in [Nodes -> Ptr]
        /\ [l.prev EXCEPT ![n] = NULL] \in [Nodes -> Ptr]
    BY <1>4, <1>5 DEF Ptr
  <2> QED
    BY <1>6, <2>1 DEF ListRec
<1> HIDE DEF m, p
<1>9. /\ m.next[a] = NULL
      /\ \A x \in Nodes : x # a => m.next[x] = l.next[x]
      /\ \A x \in Nodes : x # n => m.prev[x] = l.prev[x]
  BY <1>4, <1>5, <1>7
<1>10. ASSUME NEW i \in 1..Len(p)
       PROVE  /\ m.prev[p[i]] = IF i = 1 THEN NULL ELSE p[i - 1]
              /\ m.next[p[i]] = IF i = Len(p) THEN NULL ELSE p[i + 1]
  <2>1. /\ i \in 1..z - 1 /\ i \in 1..Len(q) /\ i # z /\ (i # 1 => i - 1 \in 1..z - 1)
        /\ (i # z - 1 => i + 1 \in 1..z - 1)
    BY <1>1, <1>3
  <2>2. p[i] = q[i] /\ q[i] \in Nodes /\ q[i] # n
    BY <1>1, <1>2, <1>3, <2>1 DEF n
  <2>3. m.prev[p[i]] = IF i = 1 THEN NULL ELSE p[i - 1]
    <3>1. m.prev[p[i]] = l.prev[q[i]]
      BY <1>9, <2>2
    <3>2. l.prev[q[i]] = IF i = 1 THEN NULL ELSE q[i - 1]
      BY <1>2, <2>1
    <3>3. i # 1 => p[i - 1] = q[i - 1]
      BY <1>3, <2>1
    <3> QED
      BY <3>1, <3>2, <3>3
  <2>4. CASE i = z - 1
    BY <1>3, <1>9, <2>2, <2>3, <2>4 DEF a
  <2>5. CASE i # z - 1
    <3>1. q[i] # a
      BY <1>1, <1>2, <2>1, <2>5 DEF a
    <3> QED
      BY <1>2, <1>3, <1>9, <2>1, <2>2, <2>3, <2>5, <3>1
  <2> QED
    BY <2>4, <2>5
<1>11. \A i, j \in 1..Len(p) : p[i] = p[j] => i = j
  <2>1. \A i \in 1..Len(p) : i \in 1..Len(q) /\ p[i] = q[i]
    BY <1>1, <1>3
  <2> QED
    BY <1>2, <2>1
<1>12. Len(p) # 0 /\ m.head = p[1] /\ m.tail = p[Len(p)]
  <2>1. \A x \in Nat : x >= 2 => 1 \in 1..x - 1 /\ x - 1 \in 1..x - 1 /\ x - 1 # 0
    OBVIOUS
  <2>2. 1 \in 1..z - 1 /\ z - 1 \in 1..z - 1 /\ z - 1 # 0
    BY <1>1, <2>1
  <2> QED
    BY <1>2, <1>3, <1>7, <2>2 DEF a
<1>13. LinkedAs(m, p)
  BY <1>3, <1>10, <1>11, <1>12 DEF LinkedAs
<1> QED
  BY <1>2, <1>8, <1>13 DEF m, p, n

-----------------------------------------------------------------------------
(* The walk along the list.  It is a recursive function: that it exists and   *)
(* has one value is shown by a least counterexample.                          *)

\* What follows the nodes w on a list with the links nx.
Further(w, nx) ==
    IF w = <<>> \/ nx[w[Len(w)]] = NULL THEN w ELSE Append(w, nx[w[Len(w)]])

Start(h) == IF h = NULL THEN <<>> ELSE <<h>>

IsWalk(g, h, nx) ==
    g = [i \in 0..Capacity + 1 |-> IF i = 0 THEN <<>> ELSE IF i = 1 THEN Start(h)
                                   ELSE Further(g[i - 1], nx)]

(* Walk is a solution of its equation, if there is one.                       *)
LEMMA WalkChosen == Walk = CHOOSE g : IsWalk(g, cache.head, next)
BY DEF Walk, IsWalk, Start, Further

(* The same in the next state.                                                *)
LEMMA WalkChosenNext == Walk' = CHOOSE g : IsWalk(g, cache'.head, next')
BY DEF Walk, IsWalk, Start, Further

(* A set of natural numbers that is not empty has a least element.            *)
LEMMA LeastNat ==
    ASSUME NEW B \in SUBSET Nat, B # {}
    PROVE  \E n \in B : \A m \in B : n <= m
<1>1. PICK n \in B : \A m \in B : ~ (<<m, n>> \in OpToRel(<, Nat))
  BY NatLessThanWellFounded, WFMin
<1>2. \A m \in B : ~ (m < n)
  BY <1>1 DEF OpToRel
<1> QED
  BY <1>2

\* The first i elements of q, or all of them.
FirstOf(q, i) == SubSeq(q, 1, IF i <= Len(q) THEN i ELSE Len(q))

(* What FirstOf holds.                                                        *)
LEMMA FirstOfProperties ==
    ASSUME NEW S, NEW q \in Seq(S), NEW i \in Nat
    PROVE  LET z == IF i <= Len(q) THEN i ELSE Len(q) IN
           /\ FirstOf(q, i) \in Seq(S) /\ Len(FirstOf(q, i)) = z
           /\ \A j \in 1..z : FirstOf(q, i)[j] = q[j]
           /\ i >= Len(q) => FirstOf(q, i) = q
<1> DEFINE z == IF i <= Len(q) THEN i ELSE Len(q)
           p == SubSeq(q, 1, z)
<1>1. Len(q) \in Nat /\ z \in Nat /\ z <= Len(q) /\ \A j \in 1..Len(q) : q[j] \in S
  BY LenProperties, ElementOfSeq
<1>2. z \in Int /\ \A j \in 1..z : q[j] \in S
  BY <1>1
<1>3. i >= Len(q) => z = Len(q)
  BY <1>1
<1> HIDE DEF z
<1>4. /\ p \in Seq(S) /\ Len(p) = z /\ \A j \in 1..z : p[j] = q[j]
  <2>1. /\ p \in Seq(S) /\ Len(p) = IF 1 <= z THEN z - 1 + 1 ELSE 0
        /\ \A j \in 1..z - 1 + 1 : p[j] = q[1 + j - 1]
    BY <1>2, SubSeqProperties
  <2>2. \A j \in 1..z : j \in 1..z - 1 + 1 /\ 1 + j - 1 = j
    BY <1>1
  <2>3. Len(p) = z
    BY <1>1, <2>1
  <2> QED
    BY <2>1, <2>2, <2>3
<1> HIDE DEF p
<1>5. i >= Len(q) => p = q
  BY <1>3, <1>4, SeqEqual
<1> QED
  BY <1>4, <1>5 DEF p, z, FirstOf

(* The walk along a linked list visits the nodes of the list.                 *)
LEMMA WalkLinked ==
    ASSUME NEW l \in ListRec, NEW q \in Seq(Nodes), LinkedAs(l, q), Len(q) <= Capacity
    PROVE  (CHOOSE g : IsWalk(g, l.head, l.next))[Capacity + 1] = q
<1> DEFINE f == [i \in 0..Capacity + 1 |-> FirstOf(q, i)]
<1>1. /\ Len(q) \in Nat /\ Capacity \in Nat
      /\ \A i \in 1..Len(q) : q[i] \in Nodes /\ q[i] # NULL
      /\ \A i \in 1..Len(q) : l.next[q[i]] = IF i = Len(q) THEN NULL ELSE q[i + 1]
      /\ l.head = IF Len(q) = 0 THEN NULL ELSE q[1]
  BY LenProperties, ElementOfSeq, NodesAssumption, CapacityAssumption DEF LinkedAs
<1>2. \A i \in 0..Capacity + 1 :
        /\ i \in Nat /\ f[i] = FirstOf(q, i) /\ f[i] \in Seq(Nodes)
        /\ Len(f[i]) = IF i <= Len(q) THEN i ELSE Len(q)
        /\ \A j \in 1..Len(f[i]) : f[i][j] = q[j]
        /\ i >= Len(q) => f[i] = q
  BY FirstOfProperties
<1> HIDE DEF f
<1>3. f[0] = <<>>
  <2>1. 0 \in 0..Capacity + 1 /\ 0 <= Len(q)
    BY <1>1
  <2>2. f[0] \in Seq(Nodes) /\ Len(f[0]) = 0
    BY <1>2, <2>1
  <2> QED
    BY <2>2, EmptySeq
<1>4. f[1] = Start(l.head)
  <2>1. 1 \in 0..Capacity + 1
    BY <1>1
  <2>2. CASE Len(q) = 0
    <3>1. f[1] \in Seq(Nodes) /\ Len(f[1]) = 0
      BY <1>2, <2>1, <2>2
    <3> QED
      BY <1>1, <2>2, <3>1, EmptySeq DEF Start
  <2>3. CASE Len(q) # 0
    <3>1. 1 <= Len(q) /\ 1 \in 1..Len(q)
      BY <1>1, <2>3
    <3>2. f[1] \in Seq(Nodes) /\ Len(f[1]) = 1 /\ f[1][1] = q[1]
      <4>1. f[1] \in Seq(Nodes) /\ Len(f[1]) = 1
        BY <1>2, <2>1, <3>1
      <4>2. \A j \in 1..Len(f[1]) : f[1][j] = q[j]
        BY <1>2, <2>1
      <4> QED
        BY <4>1, <4>2
    <3>3. <<q[1]>> \in Seq(Nodes) /\ Len(<<q[1]>>) = 1 /\ <<q[1]>>[1] = q[1]
      BY <1>1, <3>1
    <3>4. f[1] = <<q[1]>>
      BY <3>2, <3>3, SeqEqual
    <3> QED
      BY <1>1, <2>3, <3>1, <3>4 DEF Start
  <2> QED
    BY <2>2, <2>3
<1>5. ASSUME NEW i \in 1..Capacity PROVE f[i + 1] = Further(f[i], l.next)
  <2>1. i \in 0..Capacity + 1 /\ i + 1 \in 0..Capacity + 1 /\ i \in Nat /\ i >= 1
    BY <1>1
  <2>2. CASE Len(q) <= i
    <3>1. f[i] = q /\ f[i + 1] = q
      BY <1>1, <1>2, <2>1, <2>2
    <3>2. q # <<>> => Len(q) \in 1..Len(q) /\ l.next[q[Len(q)]] = NULL
      <4>1. q # <<>> => Len(q) # 0
        BY EmptySeq
      <4> QED
        BY <1>1, <4>1
    <3> QED
      BY <3>1, <3>2 DEF Further
  <2>3. CASE i < Len(q)
    <3>1. i <= Len(q) /\ i + 1 <= Len(q) /\ i \in 1..Len(q) /\ i # Len(q) /\ i + 1 \in 1..Len(q)
      BY <1>1, <2>1, <2>3
    <3> DEFINE w == f[i]
               y == f[i + 1]
               x == q[i + 1]
    <3>2. /\ w \in Seq(Nodes) /\ Len(w) = i /\ \A j \in 1..i : w[j] = q[j]
          /\ y \in Seq(Nodes) /\ Len(y) = i + 1 /\ \A j \in 1..i + 1 : y[j] = q[j]
      <4>1. w \in Seq(Nodes) /\ Len(w) = i
        BY <1>2, <2>1, <3>1
      <4>2. y \in Seq(Nodes) /\ Len(y) = i + 1
        BY <1>2, <2>1, <3>1
      <4>3. (\A j \in 1..Len(w) : w[j] = q[j]) /\ (\A j \in 1..Len(y) : y[j] = q[j])
        BY <1>2, <2>1
      <4> QED
        BY <4>1, <4>2, <4>3
    <3>3. l.next[w[Len(w)]] = x /\ x # NULL /\ x \in Nodes /\ w # <<>>
      <4>1. w[Len(w)] = q[i] /\ i \in 1..i
        BY <2>1, <3>2
      <4>2. w # <<>>
        BY <2>1, <3>2
      <4> QED
        BY <1>1, <3>1, <4>1, <4>2
    <3> HIDE DEF w, y, x
    <3>4. Further(w, l.next) = Append(w, x)
      BY <3>3 DEF Further
    <3>5. /\ Append(w, x) \in Seq(Nodes) /\ Len(Append(w, x)) = i + 1
          /\ \A j \in 1..i + 1 : Append(w, x)[j] = IF j = i + 1 THEN x ELSE w[j]
      BY <3>2, <3>3
    <3>6. \A j \in 1..i + 1 : y[j] = Append(w, x)[j]
      <4> TAKE j \in 1..i + 1
      <4>1. j = i + 1 \/ (j # i + 1 /\ j \in 1..i)
        BY <2>1
      <4> QED
        BY <3>2, <3>5, <4>1 DEF x
    <3>7. y = Append(w, x)
      BY <3>2, <3>5, <3>6, SeqEqual
    <3> QED
      BY <3>4, <3>7 DEF w, y
  <2> QED
    BY <1>1, <2>1, <2>2, <2>3
<1>6. \A i \in 0..Capacity + 1 : i # 0 /\ i # 1 => i - 1 \in 1..Capacity /\ (i - 1) + 1 = i
  BY <1>1
<1>7. \A i \in 0..Capacity + 1 :
        f[i] = IF i = 0 THEN <<>> ELSE IF i = 1 THEN Start(l.head) ELSE Further(f[i - 1], l.next)
  BY <1>3, <1>4, <1>5, <1>6
<1>8. IsWalk(f, l.head, l.next)
  <2>1. f = [i \in 0..Capacity + 1 |-> f[i]]
    BY DEF f
  <2> QED
    BY <1>7, <2>1 DEF IsWalk
<1>9. ASSUME NEW g, IsWalk(g, l.head, l.next), NEW i \in 0..Capacity + 1 PROVE g[i] = f[i]
  <2> DEFINE B == {j \in Nat : j <= Capacity + 1 /\ g[j] # f[j]}
  <2>1. \A j \in 0..Capacity + 1 :
          g[j] = IF j = 0 THEN <<>> ELSE IF j = 1 THEN Start(l.head) ELSE Further(g[j - 1], l.next)
    BY <1>9 DEF IsWalk
  <2>2. SUFFICES ASSUME B # {} PROVE FALSE
    BY <1>1
  <2>3. PICK j \in B : \A k \in B : j <= k
    BY <2>2, LeastNat
  <2>4. j \in 0..Capacity + 1 /\ g[j] # f[j] /\ j \in Nat
    BY <1>1, <2>3
  <2>5. j # 0 /\ j # 1
    BY <1>7, <2>1, <2>4
  <2>6. j - 1 \in Nat /\ j - 1 <= Capacity + 1 /\ ~ (j <= j - 1) /\ j - 1 \in 0..Capacity + 1
    BY <1>1, <2>4, <2>5
  <2>7. g[j - 1] = f[j - 1]
    BY <2>3, <2>6
  <2> QED
    BY <1>7, <2>1, <2>4, <2>5, <2>7
<1>10. Capacity + 1 \in 0..Capacity + 1 /\ Capacity + 1 >= Len(q)
  BY <1>1
<1>11. f[Capacity + 1] = q
  BY <1>2, <1>10
<1>12. IsWalk(CHOOSE g : IsWalk(g, l.head, l.next), l.head, l.next)
  BY <1>8
<1> QED
  BY <1>9, <1>10, <1>11, <1>12

-----------------------------------------------------------------------------
(* The invariant *)

Fields ==
    /\ cache \in [head : Ptr, tail : Ptr, size : Nat]
    /\ prev \in [Nodes -> Ptr] /\ next \in [Nodes -> Ptr]
    /\ live \subseteq Nodes
    /\ \A n \in live : entry[n] \in [key : Keys, value : Values]
    /\ kv \in KvTables(Keys, Nodes) /\ KvIsMap(kv)

\* The table has exactly the allocated nodes, under the keys of their entries.
Indexed ==
    \A k \in Keys : \A n : Binds(kv, k, n) <=> n \in live /\ entry[n].key = k

\* The list leads through exactly the allocated nodes.
Through(q) ==
    /\ q \in Seq(Nodes) /\ LinkedAs(List, q) /\ Range(q) = live
    /\ Len(q) = cache.size /\ Len(q) <= Capacity

LruInv == Fields /\ Indexed /\ \E q : Through(q)

(* The constants, as the lemmas about the table want them.                    *)
LEMMA Hashes == Hashable(Keys) /\ Capacity \in Nat /\ Capacity >= 2
BY HashAssumption, CapacityAssumption DEF Hashable

(* The fields make a list.                                                    *)
LEMMA ListFields ==
    ASSUME Fields
    PROVE  /\ List \in ListRec /\ List.head = cache.head /\ List.tail = cache.tail
           /\ List.prev = prev /\ List.next = next
BY DEF Fields, List, ListRec

(* The walk of the properties is the list.                                    *)
LEMMA ListedIsList ==
    ASSUME Fields, NEW q, Through(q)
    PROVE  Listed = q
<1>1. (CHOOSE g : IsWalk(g, List.head, List.next))[Capacity + 1] = q
  BY ListFields, WalkLinked DEF Through
<1> QED
  BY <1>1, ListFields, WalkChosen DEF Listed

(* Distinct nodes have distinct keys.                                         *)
LEMMA KeysDistinct ==
    ASSUME Fields, Indexed, NEW n \in live, NEW m \in live, entry[n].key = entry[m].key
    PROVE  n = m
<1>1. entry[n].key \in Keys
  BY DEF Fields
<1>2. Binds(kv, entry[n].key, n) /\ Binds(kv, entry[n].key, m)
  BY <1>1 DEF Indexed
<1> QED
  BY <1>1, <1>2, Hashes, KvGetIsBinding DEF Fields

(* What is known of the position of a node.                                   *)
LEMMA NodeOnList ==
    ASSUME Fields, NEW q, Through(q), NEW n \in live
    PROVE  \E k \in 1..Len(q) : q[k] = n
<1>1. q \in Seq(Nodes) /\ DOMAIN q = 1..Len(q) /\ n \in Range(q)
  BY LenProperties DEF Through
<1> QED
  BY <1>1 DEF Range

(* The invariant implies what the run checks.                                 *)
LEMMA InvImpliesCacheInv == LruInv => CacheInv
<1> SUFFICES ASSUME LruInv PROVE CacheInv
  OBVIOUS
<1>1. PICK q : Through(q)
  BY DEF LruInv
<1>2. Fields /\ Indexed
  BY DEF LruInv
<1>3. Listed = q
  BY <1>1, <1>2, ListedIsList
<1>4. /\ List.head = cache.head /\ List.tail = cache.tail
      /\ List.prev = prev /\ List.next = next
  BY <1>2, ListFields
<1>5. /\ q \in Seq(Nodes) /\ LinkedAs(List, q) /\ Range(q) = live
      /\ Len(q) = cache.size /\ Len(q) <= Capacity
  BY <1>1 DEF Through
<1>6. Len(q) \in Nat /\ DOMAIN q = 1..Len(q) /\ \A i \in 1..Len(q) : q[i] \in Nodes
  BY <1>5, LenProperties, ElementOfSeq
<1>7. ListLinked
  <2>1. cache.head = NULL <=> cache.tail = NULL
    <3>1. Len(q) # 0 => 1 \in 1..Len(q) /\ Len(q) \in 1..Len(q)
      BY <1>6
    <3> QED
      BY <1>4, <1>5, <1>6, <3>1, NodesAssumption DEF LinkedAs
  <2>2. \A i \in DOMAIN q :
          /\ prev[q[i]] = IF i = 1 THEN NULL ELSE q[i - 1]
          /\ next[q[i]] = IF i = Len(q) THEN NULL ELSE q[i + 1]
    BY <1>4, <1>5, <1>6 DEF LinkedAs
  <2>3. q # <<>> => cache.tail = q[Len(q)]
    <3>1. q # <<>> => Len(q) # 0
      BY <1>5, EmptySeq
    <3> QED
      BY <1>4, <1>5, <3>1 DEF LinkedAs
  <2> QED
    BY <1>3, <1>5, <2>1, <2>2, <2>3 DEF ListLinked
<1>8. \A b \in Bins : /\ kv[b] \in Seq([key : Keys, value : Nodes])
                      /\ \A i \in DOMAIN kv[b] : kv[b][i] \in [key : Keys, value : Nodes]
  <2> TAKE b \in Bins
  <2>1. kv[b] \in Seq([key : Keys, value : Nodes])
    BY <1>2 DEF Fields, KvTables
  <2> QED
    BY <2>1, LenProperties, ElementOfSeq
<1>9. ASSUME NEW e \in KvEntries(kv)
      PROVE  e.value \in live /\ entry[e.value].key = e.key
  <2>1. PICK b \in Bins : e \in Range(kv[b])
    BY DEF KvEntries
  <2>2. PICK i \in DOMAIN kv[b] : e = kv[b][i]
    BY <2>1 DEF Range
  <2>3. e.key \in Keys /\ GetBin(e.key) = b
    BY <1>2, <1>8, <2>2 DEF Fields, KvIsMap
  <2>4. Binds(kv, e.key, e.value)
    BY <2>2, <2>3 DEF Binds
  <2> QED
    BY <1>2, <2>3, <2>4 DEF Indexed
<1>10. ASSUME NEW n \in live
       PROVE  \E e \in KvEntries(kv) : e.value = n
  <2>1. entry[n].key \in Keys
    BY <1>2 DEF Fields
  <2> DEFINE b == GetBin(entry[n].key)
  <2>2. b \in Bins
    BY <2>1, Hashes, GetBinInBins
  <2>3. PICK i \in DOMAIN kv[b] : kv[b][i].value = n
    BY <1>2, <2>1 DEF Indexed, Binds
  <2>4. kv[b][i] \in Range(kv[b])
    BY <2>3 DEF Range
  <2>5. kv[b][i] \in KvEntries(kv)
    BY <2>2, <2>4 DEF KvEntries
  <2> QED
    BY <2>3, <2>5
<1>11. TableMatchesList
  <2>1. {e.value : e \in KvEntries(kv)} = live
    BY <1>9, <1>10
  <2> QED
    BY <1>2, <1>3, <1>5, <1>9, <2>1 DEF TableMatchesList, Fields
<1> QED
  BY <1>7, <1>11 DEF CacheInv

-----------------------------------------------------------------------------
(* The operations preserve it *)

(* An empty cache is an empty list and an empty table.                        *)
LEMMA InitInv == Init => Fields /\ Indexed /\ Through(<<>>)
<1> SUFFICES ASSUME Init PROVE Fields /\ Indexed /\ Through(<<>>)
  OBVIOUS
<1>1. KvEmpty \in KvTables(Keys, Nodes) /\ KvIsMap(KvEmpty) /\ \A k \in Keys : ~ KvHas(KvEmpty, k)
  BY Hashes, KvEmptyBinds
<1>2. Fields
  BY <1>1 DEF Init, Fields, Ptr
<1>3. Indexed
  <2>1. \A k \in Keys : \A n : ~ Binds(kv, k, n)
    BY <1>1, Hashes, KvGetIsBinding DEF Init
  <2> QED
    BY <2>1 DEF Init, Indexed
<1>4. List.head = NULL /\ List.tail = NULL
  BY DEF List, Init
<1>5. <<>> \in Seq(Nodes) /\ Len(<<>>) = 0 /\ Range(<<>>) = {}
  BY DEF Range
<1>6. LinkedAs(List, <<>>)
  BY <1>4, <1>5 DEF LinkedAs
<1> QED
  BY <1>2, <1>3, <1>5, <1>6, Hashes DEF Through, Init

(* SetList writes the fields of a list.                                       *)
LEMMA SetListFields ==
    ASSUME NEW l \in ListRec, NEW size \in Nat, SetList(l, size)
    PROVE  /\ List' = l /\ cache'.size = size
           /\ cache' \in [head : Ptr, tail : Ptr, size : Nat]
           /\ prev' \in [Nodes -> Ptr] /\ next' \in [Nodes -> Ptr]
<1>1. /\ l.head \in Ptr /\ l.tail \in Ptr
      /\ l.prev \in [Nodes -> Ptr] /\ l.next \in [Nodes -> Ptr]
      /\ l = [head |-> l.head, tail |-> l.tail, prev |-> l.prev, next |-> l.next]
  BY DEF ListRec
<1>2. /\ cache' = [head |-> l.head, tail |-> l.tail, size |-> size]
      /\ prev' = l.prev /\ next' = l.next
  BY DEF SetList
<1>3. List' = l
  BY <1>1, <1>2 DEF List
<1> QED
  BY <1>1, <1>2, <1>3

(* A get moves the node of its key to the front.                              *)
LEMMA GetStep ==
    ASSUME Fields, Indexed, NEW q, Through(q), NEW key \in Keys, CacheGet(key)
    PROVE  /\ Fields' /\ Indexed'
           /\ \E k \in 1..Len(q) : entry[q[k]].key = key /\ Through(ToFront(q, k))'
<1> DEFINE n == KvGet(kv, key)
<1>1. n \in live /\ entry[n].key = key
  BY Hashes, KvGetIsBinding DEF Fields, Indexed, CacheGet
<1>2. PICK k \in 1..Len(q) : q[k] = n
  BY <1>1, NodeOnList
<1> DEFINE l == MoveToHead(List, q[k])
           p == ToFront(q, k)
<1>3. q \in Seq(Nodes) /\ LinkedAs(List, q)
  BY DEF Through
<1>4. l \in ListRec /\ LinkedAs(l, p)
  BY <1>3, ListFields, MoveHeld
<1>5. p \in Seq(Nodes) /\ Len(p) = Len(q) /\ Range(p) = Range(q)
  BY <1>3, ToFrontProperties, ToFrontRange
<1>6. cache.size \in Nat /\ SetList(l, cache.size) /\ UNCHANGED <<entry, kv, live>>
  BY <1>2 DEF CacheGet, Fields
<1> HIDE DEF n, l, p
<1>7. /\ List' = l /\ cache'.size = cache.size
      /\ cache' \in [head : Ptr, tail : Ptr, size : Nat]
      /\ prev' \in [Nodes -> Ptr] /\ next' \in [Nodes -> Ptr]
  BY <1>4, <1>6, SetListFields
<1>8. Fields' /\ Indexed'
  BY <1>6, <1>7 DEF Fields, Indexed, Binds, GetBin
<1>9. Through(p)'
  BY <1>4, <1>5, <1>6, <1>7 DEF Through
<1> QED
  BY <1>1, <1>2, <1>8, <1>9 DEF p

\* A put finds the list q and a table of its nodes, without the key.
Room(l, q, table, key) ==
    /\ l \in ListRec /\ q \in Seq(Nodes) /\ LinkedAs(l, q) /\ Len(q) < Capacity
    /\ table \in KvTables(Keys, Nodes) /\ KvIsMap(table) /\ ~ KvHas(table, key)
    /\ \A n \in Range(q) : entry[n] \in [key : Keys, value : Values]
    /\ \A k \in Keys : \A n : Binds(table, k, n) <=> n \in Range(q) /\ entry[n].key = k

\* The node n is new at the front of q.
Fronted(q, key, value, n) ==
    /\ n \in Nodes \ Range(q)
    /\ Through(<<n>> \o q)' /\ live' = Range(q) \cup {n}
    /\ entry'[n] = [key |-> key, value |-> value]
    /\ \A m \in Range(q) : entry'[m] = entry[m]
    /\ recent' = <<key>>

(* A new node goes to the front of the list and into the table.               *)
LEMMA PutStep ==
    ASSUME NEW l, NEW q, NEW table, NEW key \in Keys, NEW value \in Values,
           Room(l, q, table, key),
           PutNode(l, table, Range(q), Len(q), key, value)
    PROVE  Fields' /\ Indexed' /\ \E n : Fronted(q, key, value, n)
<1> DEFINE lives == Range(q)
<1>0. /\ l \in ListRec /\ q \in Seq(Nodes) /\ LinkedAs(l, q) /\ Len(q) < Capacity
      /\ table \in KvTables(Keys, Nodes) /\ KvIsMap(table) /\ ~ KvHas(table, key)
      /\ lives \subseteq Nodes
      /\ \A n \in lives : entry[n] \in [key : Keys, value : Values]
      /\ \A k \in Keys : \A n : Binds(table, k, n) <=> n \in lives /\ entry[n].key = k
  <2>1. q \in Seq(Nodes)
    BY DEF Room
  <2>2. lives \subseteq Nodes
    BY <2>1, LenProperties, ElementOfSeq DEF Range
  <2> QED
    BY <2>2 DEF Room
<1> DEFINE r == [key |-> key, value |-> value]
<1>1. PICK n \in Nodes \ lives :
        /\ SetList(MoveToHead(Reset(l, n), n), Len(q) + 1)
        /\ entry' = [m \in Nodes |-> IF m = n THEN r
                                    ELSE IF m \in lives THEN entry[m] ELSE NULL]
        /\ kv' = KvPut(table, key, n)
        /\ live' = lives \cup {n}
        /\ recent' = <<key>>
  BY DEF PutNode, Reset
<1> HIDE DEF lives
<1> DEFINE o == Reset(l, n)
           m == MoveToHead(o, n)
           p == <<n>> \o q
<1>2. Len(q) \in Nat /\ DOMAIN q = 1..Len(q) /\ \A i \in 1..Len(q) : q[i] \in lives /\ q[i] # n
  <2>1. Len(q) \in Nat /\ DOMAIN q = 1..Len(q)
    BY <1>0, LenProperties
  <2> QED
    BY <2>1, <1>1 DEF Range, lives
<1>3. o \in ListRec /\ LinkedAs(o, q) /\ o.prev[n] = NULL /\ o.next[n] = NULL
  BY <1>0, <1>1, <1>2, ResetLinked
<1> HIDE DEF o
<1>4. m \in ListRec /\ LinkedAs(m, p)
  BY <1>0, <1>1, <1>2, <1>3, MoveNew
<1>5. SetList(m, Len(q) + 1)
  BY <1>1 DEF o
<1> HIDE DEF m
<1>6. /\ List' = m /\ cache'.size = Len(q) + 1
      /\ cache' \in [head : Ptr, tail : Ptr, size : Nat]
      /\ prev' \in [Nodes -> Ptr] /\ next' \in [Nodes -> Ptr]
  BY <1>2, <1>4, <1>5, SetListFields
<1>7. /\ p \in Seq(Nodes) /\ Len(p) = Len(q) + 1 /\ p[1] = n
      /\ \A j \in 2..Len(q) + 1 : p[j] = q[j - 1]
  BY <1>0, <1>1, ConsProperties
<1> HIDE DEF p
<1>8. Range(p) = lives \cup {n}
  <2>1. DOMAIN p = 1..Len(q) + 1 /\ 1 \in 1..Len(q) + 1
    BY <1>2, <1>7, LenProperties
  <2>2. \A j \in 1..Len(q) + 1 : p[j] \in lives \cup {n}
    <3> TAKE j \in 1..Len(q) + 1
    <3>1. j = 1 \/ (j \in 2..Len(q) + 1 /\ j - 1 \in 1..Len(q))
      BY <1>2
    <3> QED
      BY <1>2, <1>7, <3>1
  <2>3. \A x \in lives : \E j \in 1..Len(q) + 1 : p[j] = x
    <3> TAKE x \in lives
    <3>1. PICK i \in 1..Len(q) : q[i] = x
      BY <1>2 DEF Range, lives
    <3>2. i + 1 \in 2..Len(q) + 1 /\ i + 1 \in 1..Len(q) + 1 /\ (i + 1) - 1 = i
      BY <1>2
    <3> QED
      <4>1. p[i + 1] = q[i]
        BY <1>7, <3>2
      <4> QED
        BY <3>1, <3>2, <4>1
  <2>4. Range(p) = {p[j] : j \in 1..Len(q) + 1}
    BY <2>1 DEF Range
  <2>5. \A x \in lives \cup {n} : x \in Range(p)
    BY <1>7, <2>1, <2>3, <2>4
  <2>6. \A x \in Range(p) : x \in lives \cup {n}
    BY <2>2, <2>4
  <2> QED
    BY <2>5, <2>6
<1>9. Through(p)'
  BY <1>0, <1>1, <1>2, <1>4, <1>6, <1>7, <1>8, Hashes DEF Through
<1>10. entry'[n] = r /\ \A x \in lives : entry'[x] = entry[x]
  BY <1>0, <1>1
<1>11. /\ kv' \in KvTables(Keys, Nodes) /\ KvIsMap(kv')
       /\ \A x \in Keys : \A v : Binds(kv', x, v) <=> IF x = key THEN v = n ELSE Binds(table, x, v)
  BY <1>0, <1>1, Hashes, KvPutBinds
<1>12. Fields'
  BY <1>0, <1>1, <1>6, <1>10, <1>11 DEF Fields
<1>13. Indexed'
  <2> SUFFICES ASSUME NEW k \in Keys, NEW x
               PROVE  Binds(kv', k, x) <=> x \in live' /\ entry'[x].key = k
    BY DEF Indexed, Binds, GetBin
  <2>1. ~ Binds(table, key, x)
    BY <1>0, Hashes, KvGetIsBinding
  <2>2. live' = lives \cup {n} /\ n \notin lives /\ entry'[n].key = key
    BY <1>1, <1>10
  <2>3. CASE x = n
    BY <1>0, <1>11, <2>2, <2>3
  <2>4. CASE x # n
    <3>1. x \in live' <=> x \in lives
      BY <2>2, <2>4
    <3>2. x \in lives => entry'[x] = entry[x]
      BY <1>10
    <3> QED
      BY <1>0, <1>11, <2>1, <2>4, <3>1, <3>2
  <2> QED
    BY <2>3, <2>4
<1> QED
  BY <1>1, <1>9, <1>10, <1>12, <1>13 DEF p, lives, Fronted

\* The nodes a put leaves in the list: with room all of them, else all but the last.
Kept(q) == SubSeq(q, 1, IF Len(q) < Capacity THEN Len(q) ELSE Len(q) - 1)

(* What Kept holds.                                                           *)
LEMMA KeptProperties ==
    ASSUME NEW q \in Seq(Nodes), Len(q) <= Capacity
    PROVE  LET z == IF Len(q) < Capacity THEN Len(q) ELSE Len(q) - 1 IN
           /\ Kept(q) \in Seq(Nodes) /\ Len(Kept(q)) = z /\ z \in Nat /\ z <= Len(q)
           /\ z < Capacity /\ z + 1 = IF Len(q) < Capacity THEN Len(q) + 1 ELSE Capacity
           /\ \A j \in 1..z : Kept(q)[j] = q[j]
<1> DEFINE z == IF Len(q) < Capacity THEN Len(q) ELSE Len(q) - 1
<1>1. Len(q) \in Nat /\ Capacity \in Nat /\ Capacity >= 2
  BY LenProperties, Hashes
<1>2. /\ z \in Nat /\ z <= Len(q) /\ z < Capacity
      /\ z + 1 = IF Len(q) < Capacity THEN Len(q) + 1 ELSE Capacity
  BY <1>1
<1>3. Kept(q) = FirstOf(q, z)
  BY <1>2 DEF Kept, FirstOf
<1> HIDE DEF z
<1>4. /\ FirstOf(q, z) \in Seq(Nodes) /\ Len(FirstOf(q, z)) = z
      /\ \A j \in 1..z : FirstOf(q, z)[j] = q[j]
  BY <1>2, FirstOfProperties
<1> QED
  BY <1>2, <1>3, <1>4 DEF z

(* A put with room.                                                           *)
LEMMA PutWithRoom ==
    ASSUME Fields, Indexed, NEW q, Through(q), NEW key \in Keys, NEW value \in Values,
           CachePut(key, value)
    PROVE  Fields' /\ Indexed' /\ \E n : Fronted(Kept(q), key, value, n)
<1>1. /\ q \in Seq(Nodes) /\ LinkedAs(List, q) /\ Range(q) = live
      /\ Len(q) = cache.size /\ Len(q) < Capacity /\ List \in ListRec
  BY ListFields DEF Through, CachePut
<1>2. /\ ~ KvHas(kv, key)
      /\ PutNode(List, kv, live, Len(q), key, value)
  BY <1>1 DEF CachePut
<1>3. Kept(q) = q
  BY <1>1, LenProperties, FirstOfProperties DEF Kept, FirstOf
<1>4. /\ kv \in KvTables(Keys, Nodes) /\ KvIsMap(kv) /\ live \in SUBSET Nodes
      /\ \A n \in live : entry[n] \in [key : Keys, value : Values]
      /\ \A k \in Keys : \A n : Binds(kv, k, n) <=> n \in live /\ entry[n].key = k
  BY DEF Fields, Indexed
<1>5. Room(List, q, kv, key)
  BY <1>1, <1>2, <1>4 DEF Room
<1> QED
  BY <1>1, <1>2, <1>3, <1>5, PutStep

(* A put at capacity: the key of the tail leaves the table, the tail the list. *)
LEMMA PutEvicting ==
    ASSUME Fields, Indexed, NEW q, Through(q), NEW key \in Keys, NEW value \in Values,
           CachePutEvict(key, value)
    PROVE  Fields' /\ Indexed' /\ \E n : Fronted(Kept(q), key, value, n)
<1> DEFINE z == Len(q)
           t == cache.tail
           d == KvDelete(kv, entry[t].key)
           l == EvictTail(List)
           p == Kept(q)
           lives == live \ {t}
<1>1. /\ q \in Seq(Nodes) /\ LinkedAs(List, q) /\ Range(q) = live
      /\ z = cache.size /\ z = Capacity /\ List \in ListRec /\ List.tail = t
      /\ z \in Nat /\ z >= 2 /\ DOMAIN q = 1..z
  BY ListFields, Hashes, LenProperties DEF Through, CachePutEvict
<1>2. /\ p \in Seq(Nodes) /\ Len(p) = z - 1 /\ z - 1 < Capacity
      /\ \A j \in 1..z - 1 : p[j] = q[j]
  <2>1. Len(q) <= Capacity /\ ~ (Len(q) < Capacity)
    BY <1>1
  <2> QED
    BY <1>1, <2>1, KeptProperties
<1>3. p = SubSeq(q, 1, Len(q) - 1)
  BY <1>1 DEF Kept
<1>4. l \in ListRec /\ LinkedAs(l, p) /\ t = q[z]
  BY <1>1, <1>3, EvictLinked
<1>5. z \in 1..z /\ t \in live
  BY <1>1, <1>4 DEF Range
<1>6. entry[t].key \in Keys
  BY <1>5 DEF Fields
<1>7. /\ kv \in KvTables(Keys, Nodes) /\ KvIsMap(kv) /\ live \subseteq Nodes
      /\ \A n \in live : entry[n] \in [key : Keys, value : Values]
      /\ \A k \in Keys : \A n : Binds(kv, k, n) <=> n \in live /\ entry[n].key = k
  BY DEF Fields, Indexed
<1>8. /\ d \in KvTables(Keys, Nodes) /\ KvIsMap(d)
      /\ \A x \in Keys : \A v : Binds(d, x, v) <=> x # entry[t].key /\ Binds(kv, x, v)
  BY <1>6, <1>7, Hashes, KvDeleteBinds
<1>9. /\ ~ KvHas(kv, key)
      /\ PutNode(l, d, lives, Len(p), key, value)
  BY <1>1, <1>2 DEF CachePutEvict
<1> HIDE DEF d, l, p, t
<1>10. \A k \in Keys : \A n : Binds(d, k, n) <=> n \in lives /\ entry[n].key = k
  <2> SUFFICES ASSUME NEW k \in Keys, NEW n
               PROVE  Binds(d, k, n) <=> n \in lives /\ entry[n].key = k
    OBVIOUS
  <2>1. Binds(d, k, n) <=> k # entry[t].key /\ n \in live /\ entry[n].key = k
    BY <1>7, <1>8
  <2>2. n \in live /\ entry[n].key = entry[t].key => n = t
    BY <1>5, KeysDistinct
  <2> QED
    BY <2>1, <2>2
<1>11. ~ KvHas(d, key)
  <2>1. KvHas(d, key) => Binds(d, key, KvGet(d, key))
    BY <1>8, Hashes, KvGetIsBinding
  <2>2. \A v : ~ Binds(kv, key, v)
    BY <1>7, <1>9, Hashes, KvGetIsBinding
  <2> QED
    BY <1>8, <2>1, <2>2
<1>12. Range(p) = lives
  <2>1. DOMAIN p = 1..z - 1 /\ \A i, j \in 1..z : q[i] = q[j] => i = j
    BY <1>1, <1>2, LenProperties DEF LinkedAs
  <2>2. Range(p) = {p[j] : j \in 1..z - 1} /\ live = {q[j] : j \in 1..z}
    BY <1>1, <2>1 DEF Range
  <2>3. \A j \in 1..z - 1 : j \in 1..z /\ j # z
    BY <1>1
  <2>4. \A j \in 1..z : j # z => j \in 1..z - 1
    BY <1>1
  <2>5. \A x \in Range(p) : x \in lives
    <3> TAKE x \in Range(p)
    <3>1. PICK j \in 1..z - 1 : x = p[j]
      BY <2>2
    <3>2. x = q[j] /\ j \in 1..z /\ j # z
      BY <1>2, <2>3, <3>1
    <3> QED
      BY <1>4, <1>5, <2>1, <2>2, <3>2
  <2>6. \A x \in lives : x \in Range(p)
    <3> TAKE x \in lives
    <3>1. PICK j \in 1..z : x = q[j]
      BY <2>2
    <3>2. j \in 1..z - 1 /\ x = p[j]
      BY <1>2, <1>4, <2>4, <3>1
    <3> QED
      BY <2>2, <3>2
  <2> QED
    BY <2>5, <2>6
<1>13. Room(l, p, d, key)
  BY <1>2, <1>4, <1>7, <1>8, <1>10, <1>11, <1>12 DEF Room
<1> QED
  BY <1>9, <1>12, <1>13, PutStep DEF p

(* Every step preserves the invariant.                                        *)
LEMMA StepInv == LruInv /\ [Next]_vars => LruInv'
<1> SUFFICES ASSUME LruInv, [Next]_vars PROVE LruInv'
  OBVIOUS
<1>1. Fields /\ Indexed
  BY DEF LruInv
<1>2. PICK q : Through(q)
  BY DEF LruInv
<1>3. ASSUME NEW key \in Keys, CacheGet(key) PROVE LruInv'
  BY <1>1, <1>2, <1>3, GetStep DEF LruInv
<1>4. ASSUME NEW key \in Keys, NEW v \in Values, CachePut(key, v) PROVE LruInv'
  BY <1>1, <1>2, <1>4, PutWithRoom DEF LruInv, Fronted
<1>5. ASSUME NEW key \in Keys, NEW v \in Values, CachePutEvict(key, v) PROVE LruInv'
  BY <1>1, <1>2, <1>5, PutEvicting DEF LruInv, Fronted
<1>6. CASE UNCHANGED vars
  <2>1. Fields' /\ Indexed' /\ List' = List
    BY <1>1, <1>6 DEF Fields, Indexed, List, vars, Binds, GetBin
  <2>2. Through(q)'
    BY <1>2, <1>6, <2>1 DEF Through, vars
  <2> QED
    BY <2>1, <2>2 DEF LruInv
<1> QED
  BY <1>3, <1>4, <1>5, <1>6 DEF Next

(* The inductive invariant: the list leads through the allocated nodes, and   *)
(* the table has them under their keys, after every get and put               *)
(* (racs_cache_get, racs_cache_put, racs_cache_evict).                        *)
THEOREM LruInvariant == Spec => []LruInv
<1>1. Init => LruInv
  BY InitInv DEF LruInv
<1> QED
  BY <1>1, StepInv, PTL DEF Spec

(* Links, table and size of the cache agree after every get and put, so that  *)
(* no pointer to a node eviction has freed is left (racs_cache_move_to_head,  *)
(* racs_cache_evict).                                                         *)
THEOREM CacheAlwaysConsistent == Spec => []CacheInv
BY LruInvariant, InvImpliesCacheInv, PTL

-----------------------------------------------------------------------------
(* The cache is a least-recently-used cache *)

\* The keys of the nodes q.
KeysOf(e, q) == [i \in DOMAIN q |-> e[q[i]].key]

(* What the refinement takes for the state of the abstract cache.             *)
LEMMA ListedIsListNext ==
    ASSUME Fields', NEW q, Through(q)'
    PROVE  Listed' = q
<1>1. /\ List' \in ListRec /\ (List').head = cache'.head /\ (List').next = next'
  BY DEF Fields, List, ListRec
<1>2. q \in Seq(Nodes) /\ LinkedAs(List', q) /\ Len(q) <= Capacity
  BY DEF Through
<1>3. (CHOOSE g : IsWalk(g, (List').head, (List').next))[Capacity + 1] = q
  BY <1>1, <1>2, WalkLinked
<1> QED
  BY <1>1, <1>3, WalkChosenNext DEF Listed

(* The keys of a list that leads through allocated nodes.                     *)
LEMMA KeysOfList ==
    ASSUME Fields, NEW q, Through(q)
    PROVE  /\ KeysOf(entry, q) \in Seq(Keys) /\ Len(KeysOf(entry, q)) = Len(q)
           /\ \A i \in 1..Len(q) : KeysOf(entry, q)[i] = entry[q[i]].key
<1>1. /\ q \in Seq(Nodes) /\ Len(q) \in Nat /\ DOMAIN q = 1..Len(q)
      /\ \A i \in 1..Len(q) : q[i] \in live
  BY LenProperties DEF Through, Range
<1>2. \A i \in 1..Len(q) : entry[q[i]].key \in Keys
  BY <1>1 DEF Fields
<1> QED
  BY <1>1, <1>2 DEF KeysOf

(* The same in the next state.                                                *)
LEMMA KeysOfListNext ==
    ASSUME Fields', NEW q, Through(q)'
    PROVE  /\ KeysOf(entry', q) \in Seq(Keys) /\ Len(KeysOf(entry', q)) = Len(q)
           /\ \A i \in 1..Len(q) : KeysOf(entry', q)[i] = entry'[q[i]].key
<1>1. /\ q \in Seq(Nodes) /\ Len(q) \in Nat /\ DOMAIN q = 1..Len(q)
      /\ \A i \in 1..Len(q) : q[i] \in live'
  BY LenProperties DEF Through, Range
<1>2. \A i \in 1..Len(q) : entry'[q[i]].key \in Keys
  BY <1>1 DEF Fields
<1> QED
  BY <1>1, <1>2 DEF KeysOf

(* A get is a use of the key.                                                 *)
LEMMA GetIsUse ==
    ASSUME Fields, Indexed, NEW q, Through(q), NEW key \in Keys, CacheGet(key)
    PROVE  Abstract!Use(key)
<1>1. /\ Fields' /\ Indexed'
      /\ \E k \in 1..Len(q) : entry[q[k]].key = key /\ Through(ToFront(q, k))'
  BY GetStep
<1>2. PICK k \in 1..Len(q) : entry[q[k]].key = key /\ Through(ToFront(q, k))'
  BY <1>1
<1> DEFINE p == ToFront(q, k)
           a == KeysOf(entry, q)
           b == KeysOf(entry, p)
<1>3. Listed = q /\ Listed' = p
  BY <1>1, <1>2, ListedIsList, ListedIsListNext
<1>4. UNCHANGED <<entry, kv, live>> /\ recent' = <<key>>
  BY DEF CacheGet
<1>5. /\ q \in Seq(Nodes) /\ Len(q) \in Nat /\ DOMAIN q = 1..Len(q)
      /\ Range(q) = live /\ Range(p) = live
  BY <1>2, <1>4, LenProperties DEF Through
<1>6. /\ p \in Seq(Nodes) /\ Len(p) = Len(q)
      /\ \A j \in 1..Len(q) : p[j] = IF j = 1 THEN q[k] ELSE IF j <= k THEN q[j - 1] ELSE q[j]
  BY <1>5, ToFrontProperties
<1>7. /\ a \in Seq(Keys) /\ Len(a) = Len(q) /\ \A i \in 1..Len(q) : a[i] = entry[q[i]].key
  BY KeysOfList
<1>8. /\ b \in Seq(Keys) /\ Len(b) = Len(q) /\ \A i \in 1..Len(q) : b[i] = entry[p[i]].key
  <2>1. /\ KeysOf(entry', p) \in Seq(Keys) /\ Len(KeysOf(entry', p)) = Len(p)
        /\ \A i \in 1..Len(p) : KeysOf(entry', p)[i] = entry'[p[i]].key
    BY <1>1, <1>2, KeysOfListNext
  <2> QED
    BY <1>4, <1>6, <2>1
<1> HIDE DEF a, b, p
<1>9. /\ ToFront(a, k) \in Seq(Keys) /\ Len(ToFront(a, k)) = Len(a)
      /\ \A j \in 1..Len(a) :
            ToFront(a, k)[j] = IF j = 1 THEN a[k] ELSE IF j <= k THEN a[j - 1] ELSE a[j]
  <2>1. k \in 1..Len(a)
    BY <1>7
  <2> QED
    BY <1>7, <2>1, ToFrontProperties
<1>10. \A j \in 1..Len(q) : b[j] = ToFront(a, k)[j]
  <2> TAKE j \in 1..Len(q)
  <2>1. j # 1 => j - 1 \in 1..Len(q)
    BY <1>5
  <2> QED
    BY <1>6, <1>7, <1>8, <1>9, <2>1
<1>11. b = ToFront(a, k)
  BY <1>7, <1>8, <1>9, <1>10, SeqEqual
<1>12. a[k] = key /\ k \in DOMAIN a
  BY <1>2, <1>7, LenProperties
<1>13. b = <<key>> \o RemoveAt(a, k)
  BY <1>11, <1>12 DEF ToFront
<1>14. /\ [i \in DOMAIN Listed |-> entry[Listed[i]].key] = a
       /\ [i \in DOMAIN Listed |-> entry[Listed[i]].key]' = b
  BY <1>3, <1>4 DEF KeysOf, a, b
<1>15. UNCHANGED [k1 \in {entry[n].key : n \in Range(Listed)} |-> entry[KvGet(kv, k1)].value]
  <2>1. Range(Listed) = live /\ Range(Listed)' = live
    BY <1>3, <1>5 DEF Range
  <2> QED
    BY <1>4, <2>1 DEF KvGet, Matches, GetBin
<1>16. b = <<key>> \o Abstract!RemoveAt(a, k)
  BY <1>13 DEF RemoveAt, Abstract!RemoveAt
<1> QED
  BY <1>4, <1>12, <1>14, <1>15, <1>16 DEF Abstract!Use

(* The table finds the node of a key.                                         *)
LEMMA Found ==
    ASSUME Fields, Indexed, NEW n \in live
    PROVE  KvGet(kv, entry[n].key) = n
<1>1. entry[n].key \in Keys /\ Binds(kv, entry[n].key, n)
  BY DEF Fields, Indexed
<1> QED
  BY <1>1, Hashes, KvGetIsBinding DEF Fields

(* The same in the next state.                                                *)
LEMMA FoundNext ==
    ASSUME Fields', Indexed', NEW n \in live'
    PROVE  KvGet(kv', entry'[n].key) = n
<1>1. entry'[n].key \in Keys /\ kv' \in KvTables(Keys, Nodes) /\ KvIsMap(kv')
  BY DEF Fields, KvIsMap, KvTables, Bins, GetBin
<1>2. Binds(kv', entry'[n].key, n)
  BY <1>1 DEF Indexed, Binds, GetBin
<1> QED
  BY <1>1, <1>2, Hashes, KvGetIsBinding

(* A put of a new key is an insertion, which pushes out the key used longest  *)
(* ago when the cache is full.                                                *)
LEMMA PutIsInsert ==
    ASSUME Fields, Indexed, NEW q, Through(q), Fields', Indexed',
           NEW key \in Keys, NEW v \in Values, ~ KvHas(kv, key),
           NEW n, Fronted(Kept(q), key, v, n)
    PROVE  Abstract!Insert(key, v)
<1> DEFINE s == Kept(q)
           p == <<n>> \o s
           a == KeysOf(entry, q)
           b == KeysOf(entry', p)
           c == <<key>> \o a
           z == Len(s)
           y == IF Len(q) < Capacity THEN Len(q) + 1 ELSE Capacity
<1>1. Through(p)'
  BY DEF Fronted
<1>2. Listed = q /\ Listed' = p
  BY <1>1, ListedIsList, ListedIsListNext
<1>3. /\ q \in Seq(Nodes) /\ Len(q) \in Nat /\ DOMAIN q = 1..Len(q) /\ Len(q) <= Capacity
      /\ Range(q) = live
  BY LenProperties DEF Through
<1>4. /\ s \in Seq(Nodes) /\ z \in Nat /\ z <= Len(q) /\ z + 1 = y
      /\ \A j \in 1..z : s[j] = q[j]
  BY <1>3, KeptProperties
<1>5. /\ n \in Nodes /\ n \notin Range(s) /\ live' = Range(s) \cup {n} /\ Range(p) = live'
      /\ entry'[n] = [key |-> key, value |-> v]
      /\ \A m \in Range(s) : entry'[m] = entry[m]
      /\ recent' = <<key>>
  BY <1>1 DEF Fronted, Through
<1>6. /\ p \in Seq(Nodes) /\ Len(p) = z + 1 /\ p[1] = n
      /\ \A j \in 2..z + 1 : p[j] = s[j - 1]
  BY <1>4, <1>5, ConsProperties
<1>7. /\ a \in Seq(Keys) /\ Len(a) = Len(q) /\ \A i \in 1..Len(q) : a[i] = entry[q[i]].key
  BY KeysOfList
<1>8. /\ b \in Seq(Keys) /\ Len(b) = z + 1 /\ \A i \in 1..z + 1 : b[i] = entry'[p[i]].key
  BY <1>1, <1>6, KeysOfListNext
<1> HIDE DEF a, b, p, s
<1>9. /\ c \in Seq(Keys) /\ Len(c) = Len(q) + 1 /\ c[1] = key
      /\ \A j \in 2..Len(q) + 1 : c[j] = a[j - 1]
  BY <1>7, ConsProperties
<1> HIDE DEF c
<1>10. \A j \in 1..z : s[j] \in Range(s) /\ s[j] \in live
  <2>1. DOMAIN s = 1..z /\ \A j \in 1..z : j \in 1..Len(q)
    BY <1>3, <1>4, LenProperties
  <2> QED
    BY <1>3, <1>4, <2>1 DEF Range
<1>11. \A j \in 1..z + 1 : b[j] = c[j]
  <2> TAKE j \in 1..z + 1
  <2>1. CASE j = 1
    BY <1>5, <1>6, <1>8, <1>9, <2>1
  <2>2. CASE j # 1
    <3>1. /\ j \in 2..z + 1 /\ j \in 2..Len(q) + 1 /\ j - 1 \in 1..z /\ j - 1 \in 1..Len(q)
      BY <1>3, <1>4, <2>2
    <3>2. b[j] = entry'[s[j - 1]].key
      BY <1>6, <1>8, <3>1
    <3>3. b[j] = entry[q[j - 1]].key
      BY <1>4, <1>5, <1>10, <3>1, <3>2
    <3> QED
      BY <1>7, <1>9, <3>1, <3>3
  <2> QED
    BY <2>1, <2>2
<1>12. b = SubSeq(c, 1, y)
  <2> DEFINE d == SubSeq(c, 1, z + 1)
  <2>1. z + 1 \in Nat /\ z + 1 <= Len(c)
    BY <1>3, <1>4, <1>9
  <2>2. d = FirstOf(c, z + 1)
    BY <2>1 DEF FirstOf
  <2>3. /\ d \in Seq(Keys) /\ Len(d) = z + 1 /\ \A j \in 1..z + 1 : d[j] = c[j]
    BY <1>9, <2>1, <2>2, FirstOfProperties
  <2> HIDE DEF d
  <2>4. b = d
    BY <1>8, <1>11, <2>3, SeqEqual
  <2> QED
    BY <1>4, <2>4 DEF d
<1>13. /\ [i \in DOMAIN Listed |-> entry[Listed[i]].key] = a
       /\ [i \in DOMAIN Listed |-> entry[Listed[i]].key]' = b
  BY <1>2 DEF KeysOf, a, b
<1>14. \A m \in live : entry[m].key # key
  <2>1. \A m : ~ Binds(kv, key, m)
    BY Hashes, KvGetIsBinding DEF Fields
  <2> QED
    BY <2>1 DEF Indexed
<1>15. ~ (\E i \in 1..Len(a) : a[i] = key)
  <2>1. \A i \in 1..Len(q) : q[i] \in live
    BY <1>3 DEF Range
  <2> QED
    BY <1>7, <1>14, <2>1
<1> DEFINE Old == [k \in {entry[m].key : m \in Range(Listed)} |-> entry[KvGet(kv, k)].value]
           New == [k \in {entry'[m].key : m \in live'} |-> entry'[KvGet(kv', k)].value]
<1>16. Old' = New
  <2>1. Range(Listed)' = live'
    BY <1>2, <1>5 DEF Range
  <2> QED
    BY <2>1
<1>17. Range(b) = {entry'[m].key : m \in live'}
  <2>1. DOMAIN b = 1..z + 1 /\ DOMAIN p = 1..z + 1
    BY <1>6, <1>8, LenProperties
  <2>2. Range(b) = {b[i] : i \in 1..z + 1} /\ live' = {p[i] : i \in 1..z + 1}
    BY <1>5, <2>1 DEF Range
  <2>3. \A x \in Range(b) : x \in {entry'[m].key : m \in live'}
    BY <1>8, <2>2
  <2>4. \A x \in {entry'[m].key : m \in live'} : x \in Range(b)
    BY <1>8, <2>2
  <2> QED
    BY <2>3, <2>4
<1>18. ASSUME NEW m \in live'
       PROVE  New[entry'[m].key] = IF entry'[m].key = key THEN v ELSE Old[entry'[m].key]
  <2>1. New[entry'[m].key] = entry'[m].value
    BY FoundNext
  <2>2. CASE m = n
    BY <1>5, <2>1, <2>2
  <2>3. CASE m \in Range(s)
    <3>1. m \in live
      <4>1. DOMAIN s = 1..z
        BY <1>4, LenProperties
      <4> QED
        BY <1>10, <2>3, <4>1 DEF Range
    <3>2. entry'[m] = entry[m] /\ entry[m].key # key
      BY <1>5, <1>14, <2>3, <3>1
    <3>3. Old[entry[m].key] = entry[m].value
      BY <1>2, <1>3, <3>1, Found
    <3> QED
      BY <2>1, <3>2, <3>3
  <2> QED
    BY <1>5, <2>2, <2>3
<1> HIDE DEF Old
<1>19. New = [k \in Range(b) |-> IF k = key THEN v ELSE Old[k]]
  <2>1. \A k \in Range(b) : New[k] = IF k = key THEN v ELSE Old[k]
    <3> TAKE k \in Range(b)
    <3>1. PICK m \in live' : k = entry'[m].key
      BY <1>17
    <3> QED
      BY <1>18, <3>1
  <2> QED
    BY <1>17, <2>1
<1> HIDE DEF New
<1>20. Abstract!Range(b) = Range(b) /\ Abstract!Contains(a, key) = (\E i \in 1..Len(a) : a[i] = key)
  BY DEF Range, Abstract!Range, Abstract!Contains
<1> QED
  BY <1>5, <1>7, <1>12, <1>13, <1>15, <1>16, <1>19, <1>20 DEF Abstract!Insert, Abstract!Held, Old, c, y

(* The cache is a least-recently-used cache of Capacity keys, whatever the    *)
(* hash and the capacity from two on: racs_cache_get and racs_cache_put move  *)
(* what they find to the head and eviction takes the key used longest ago.    *)
THEOREM LruImplemented == Spec => LruRefined
<1>1. Init => Abstract!LruInit
  <2> SUFFICES ASSUME Init PROVE Abstract!LruInit
    OBVIOUS
  <2>1. Listed = <<>>
    BY InitInv, ListedIsList
  <2>2. DOMAIN Listed = {} /\ Range(Listed) = {}
    BY <2>1 DEF Range
  <2>3. [i \in DOMAIN Listed |-> entry[Listed[i]].key] = <<>>
    BY <2>2
  <2>4. [k \in {entry[n].key : n \in Range(Listed)} |-> entry[KvGet(kv, k)].value] = <<>>
    BY <2>2
  <2> QED
    BY <2>3, <2>4 DEF Init, Abstract!LruInit
<1>2. LruInv /\ [Next]_vars => [Abstract!LruNext]_(Abstract!lruVars)
  <2> SUFFICES ASSUME LruInv, [Next]_vars PROVE [Abstract!LruNext]_(Abstract!lruVars)
    OBVIOUS
  <2>1. Fields /\ Indexed
    BY DEF LruInv
  <2>2. PICK q : Through(q)
    BY DEF LruInv
  <2>3. ASSUME NEW key \in Keys, CacheGet(key) PROVE Abstract!LruNext
    BY <2>1, <2>2, <2>3, GetIsUse DEF Abstract!LruNext
  <2>4. ASSUME NEW key \in Keys, NEW v \in Values, CachePut(key, v) PROVE Abstract!LruNext
    <3>1. Fields' /\ Indexed' /\ \E n : Fronted(Kept(q), key, v, n)
      BY <2>1, <2>2, <2>4, PutWithRoom
    <3>2. Abstract!Insert(key, v)
      BY <2>1, <2>2, <2>4, <3>1, PutIsInsert DEF CachePut
    <3> QED
      BY <3>2 DEF Abstract!LruNext
  <2>5. ASSUME NEW key \in Keys, NEW v \in Values, CachePutEvict(key, v) PROVE Abstract!LruNext
    <3>1. Fields' /\ Indexed' /\ \E n : Fronted(Kept(q), key, v, n)
      BY <2>1, <2>2, <2>5, PutEvicting
    <3>2. Abstract!Insert(key, v)
      BY <2>1, <2>2, <2>5, <3>1, PutIsInsert DEF CachePutEvict
    <3> QED
      BY <3>2 DEF Abstract!LruNext
  <2>6. CASE UNCHANGED vars
    <3>1. Listed' = Listed
      BY <2>6, WalkChosen, WalkChosenNext DEF Listed, vars
    <3>2. UNCHANGED <<entry, kv, recent>>
      BY <2>6 DEF vars
    <3>3. UNCHANGED [i \in DOMAIN Listed |-> entry[Listed[i]].key]
      BY <3>1, <3>2
    <3>4. UNCHANGED [k \in {entry[n].key : n \in Range(Listed)} |-> entry[KvGet(kv, k)].value]
      BY <3>1, <3>2 DEF KvGet, Matches, GetBin, Range
    <3> QED
      BY <3>2, <3>3, <3>4 DEF Abstract!lruVars
  <2> QED
    BY <2>3, <2>4, <2>5, <2>6 DEF Next
<1> QED
  BY <1>1, <1>2, LruInvariant, PTL DEF Spec, LruRefined, Abstract!LruSpec

=============================================================================
