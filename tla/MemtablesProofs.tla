-------------------------- MODULE MemtablesProofs ---------------------------
(***************************************************************************)
(* TLAPS proofs about the list of memtables, for every number of           *)
(* configured tables, every capacity and every set of addresses.           *)
(***************************************************************************)
EXTENDS Memtables, TLAPS, FiniteSetTheorems

(* racs_multi_memtable_move_to_head on an empty list, or on a list of one     *)
(* table, leaves a list of one table: the new one.  It holds even when malloc *)
(* has returned the address of the old table again.                           *)
LEMMA MoveToHeadResult ==
    ASSUME TypeOK, NEW t \in Tables, MoveToHead(t),
           head = NULL \/ (head \in Tables /\ tail = head)
    PROVE  /\ head' = t /\ tail' = t /\ next'[t] = NULL
           /\ next' \in [Tables -> Ptr] /\ prev' \in [Tables -> Ptr]
<1>1. t \in Ptr /\ NULL \in Ptr /\ head \in Ptr
  BY DEF Ptr, TypeOK
<1>2. next \in [Tables -> Ptr] /\ prev \in [Tables -> Ptr]
  BY DEF TypeOK
<1>3. CASE head = NULL
  BY <1>1, <1>2, <1>3 DEF MoveToHead, NextLinked, PrevLinked, TailMoved
<1>4. CASE head \in Tables /\ tail = head
  <2>1. head # NULL
    BY <1>4, NullAssumption
  <2>2. PrevLinked(t) \in [Tables -> Ptr] /\ PrevLinked(t)[head] = t
    BY <1>1, <1>2, <1>4, <2>1 DEF PrevLinked
  <2>3. TailMoved(t) = t
    BY <1>4, <2>1, <2>2 DEF TailMoved
  <2> QED
    BY <1>1, <1>2, <1>4, <2>1, <2>2, <2>3 DEF MoveToHead, NextLinked
<1> QED
  BY <1>3, <1>4

(* The inductive invariant of the list holds initially.                       *)
LEMMA ListInitInv == Init => TypeOK /\ ListInv
<1> SUFFICES ASSUME Init PROVE TypeOK /\ ListInv
  OBVIOUS
<1>1. TypeOK
  BY CapacityAssumption DEF Init, TypeOK, Ptr
<1>2. ListInv
  BY NumTablesAssumption DEF Init, ListInv, OneResident, OneReplaced, OwnedIsLive,
     EmptyUnlessOwned
<1> QED
  BY <1>1, <1>2

(* Creating one of the configured tables preserves it: the table created      *)
(* before it drops out of the list.                                           *)
LEMMA CreateTableInv ==
    ASSUME TypeOK, ListInv, NEW t \in Tables, CreateTable(t)
    PROVE  TypeOK' /\ ListInv'
<1>1. head = NULL \/ (head \in Tables /\ tail = head)
  BY DEF CreateTable, ListInv, TypeOK
<1>2. /\ head' = t /\ tail' = t /\ next'[t] = NULL
      /\ next' \in [Tables -> Ptr] /\ prev' \in [Tables -> Ptr]
  BY <1>1, MoveToHeadResult DEF CreateTable
<1>3. TypeOK'
  <2>1. entries' \in [Tables -> 0..Capacity]
    BY CapacityAssumption DEF TypeOK, CreateTable
  <2>2. live' \subseteq Tables /\ created' \in Nat /\ t \in Ptr
    BY DEF TypeOK, CreateTable, Ptr
  <2>3. pc' \in {"create", "run"} /\ UNCHANGED <<th, cursor, appended, flushed>>
    BY DEF CreateTable
  <2> QED
    BY <1>2, <2>1, <2>2, <2>3 DEF TypeOK
<1>4. \A u \in Tables : entries'[u] = 0 /\ th'[u] = "none"
  BY DEF CreateTable, ListInv, TypeOK
<1>5. created' = NumTables \/ created' < NumTables
  BY NumTablesAssumption DEF CreateTable, ListInv, TypeOK
<1>6. t \in live' /\ t # NULL /\ pc' \in {"run", "create"}
      /\ (pc' = "create" => created' # NumTables)
  BY NullAssumption DEF CreateTable
<1> QED
  BY <1>2, <1>3, <1>4, <1>5, <1>6
  DEF ListInv, OneResident, OneReplaced, OwnedIsLive, EmptyUnlessOwned

(* Replacing a full table preserves it, also when its thread has freed it     *)
(* already.                                                                   *)
LEMMA LinkInv ==
    ASSUME TypeOK, ListInv, NEW t \in Tables, Link(t)
    PROVE  TypeOK' /\ ListInv'
<1>1. head \in Tables /\ tail = head
  BY DEF Link, ListInv, OneReplaced, TypeOK, Ptr
<1>2. /\ head' = t /\ tail' = t /\ next'[t] = NULL
      /\ next' \in [Tables -> Ptr] /\ prev' \in [Tables -> Ptr]
  BY <1>1, MoveToHeadResult DEF Link
<1>3. TypeOK'
  <2>1. entries' \in [Tables -> 0..Capacity]
    BY CapacityAssumption DEF TypeOK, Link
  <2>2. live' \subseteq Tables /\ appended' \in Nat /\ t \in Ptr
    BY DEF TypeOK, Link, Ptr
  <2>3. pc' = "run" /\ UNCHANGED <<th, created, cursor, flushed>>
    BY DEF Link
  <2> QED
    BY <1>2, <2>1, <2>2, <2>3 DEF TypeOK
<1>4. th[t] = "none"
  BY DEF Link, ListInv, OwnedIsLive
<1>5. OneResident' /\ OneReplaced'
  BY <1>2, <1>4 DEF OneResident, OneReplaced, Link
<1>6. OwnedIsLive'
  BY DEF OwnedIsLive, Link, ListInv
<1>7. EmptyUnlessOwned'
  <2> SUFFICES ASSUME NEW u \in Tables, entries'[u] > 0
               PROVE  u \in live' /\ (u = t \/ th'[u] = "write")
    BY <1>2 DEF EmptyUnlessOwned, Link
  <2>1. CASE u = t
    BY <2>1 DEF Link
  <2>2. CASE u # t
    BY <2>2 DEF Link, TypeOK, ListInv, EmptyUnlessOwned
  <2> QED
    BY <2>1, <2>2
<1> QED
  BY <1>3, <1>5, <1>6, <1>7 DEF ListInv, Link

(* Appends into the head table, and handing the full table to a thread,       *)
(* preserve it.                                                               *)
LEMMA AppendInv ==
    ASSUME TypeOK, ListInv, Append \/ FlushAsync \/ LinkFault
    PROVE  TypeOK' /\ ListInv'
<1>1. CASE Append
  <2>1. head \in Tables /\ entries[head] \in 0..Capacity
    BY <1>1 DEF Append, ListInv, OneResident, TypeOK
  <2>2. TypeOK'
    BY <1>1, <2>1, CapacityAssumption DEF Append, TypeOK
  <2>3. EmptyUnlessOwned'
    BY <1>1, <2>1 DEF Append, ListInv, OneResident, EmptyUnlessOwned, TypeOK
  <2> QED
    BY <1>1, <2>2, <2>3 DEF Append, ListInv, OneResident, OneReplaced, OwnedIsLive
<1>2. CASE FlushAsync
  <2>1. head \in Tables /\ tail = head /\ head \in live /\ next[head] = NULL
    BY <1>2 DEF FlushAsync, ListInv, OneResident, TypeOK
  <2>2. TypeOK'
    BY <1>2, <2>1 DEF FlushAsync, TypeOK
  <2>3. EmptyUnlessOwned' /\ OwnedIsLive'
    BY <1>2, <2>1 DEF FlushAsync, ListInv, EmptyUnlessOwned, OwnedIsLive, TypeOK
  <2> QED
    BY <1>2, <2>1, <2>2, <2>3, NullAssumption DEF FlushAsync, ListInv, OneResident, OneReplaced
<1>3. CASE LinkFault
  BY <1>3 DEF LinkFault, TypeOK, ListInv, OneResident, OneReplaced, OwnedIsLive,
     EmptyUnlessOwned
<1> QED
  BY <1>1, <1>2, <1>3

(* The walk at shutdown preserves it: it never reaches a table.               *)
LEMMA ShutdownInv ==
    ASSUME TypeOK, ListInv, ShutdownStart \/ ShutdownStep \/ ShutdownDone
    PROVE  TypeOK' /\ ListInv'
<1>1. CASE ShutdownStart
  BY <1>1 DEF ShutdownStart, TypeOK, ListInv, OneResident, OneReplaced, OwnedIsLive,
     EmptyUnlessOwned
<1>2. CASE ShutdownStep
  <2>1. cursor = head /\ next[head] = NULL
    BY <1>2 DEF ShutdownStep, ListInv, OneResident
  <2>2. cursor' = NULL /\ UNCHANGED <<flushed, entries, live>>
    BY <1>2, <2>1 DEF ShutdownStep
  <2>3. TypeOK'
    BY <1>2, <2>2 DEF ShutdownStep, TypeOK, Ptr
  <2> QED
    BY <1>2, <2>2, <2>3 DEF ShutdownStep, ListInv, OneResident, OneReplaced, OwnedIsLive,
       EmptyUnlessOwned
<1>3. CASE ShutdownDone
  BY <1>3 DEF ShutdownDone, TypeOK, ListInv, OneResident, OneReplaced, OwnedIsLive,
     EmptyUnlessOwned
<1> QED
  BY <1>1, <1>2, <1>3

(* The flush threads preserve it: the table a thread empties and frees is not *)
(* the head, unless the event loop is just replacing it.                      *)
LEMMA ThreadInv ==
    ASSUME TypeOK, ListInv, NEW t \in Tables, ThreadStep(t)
    PROVE  TypeOK' /\ ListInv'
<1>1. t \in live /\ pc \notin {"create", "down", "dead"}
  BY DEF ThreadStep, ThreadWrite, ThreadFree, ListInv, OwnedIsLive
<1>2. pc \in {"run", "walk"} => head # t
  BY DEF ThreadStep, ThreadWrite, ThreadFree, ListInv, OneResident
<1>3. CASE ThreadWrite(t)
  <2>1. TypeOK'
    <3>1. flushed' \in Nat /\ entries' \in [Tables -> 0..Capacity]
      BY <1>3, CapacityAssumption DEF ThreadWrite, TypeOK
    <3> QED
      BY <1>3, <3>1 DEF ThreadWrite, TypeOK
  <2>2. EmptyUnlessOwned' /\ OwnedIsLive'
    BY <1>1, <1>3 DEF ThreadWrite, TypeOK, ListInv, EmptyUnlessOwned, OwnedIsLive
  <2> QED
    BY <1>1, <1>2, <1>3, <2>1, <2>2 DEF ThreadWrite, TypeOK, ListInv, OneResident, OneReplaced
<1>4. CASE ThreadFree(t)
  <2>1. TypeOK'
    BY <1>4 DEF ThreadFree, TypeOK
  <2>2. OwnedIsLive'
    BY <1>4 DEF ThreadFree, TypeOK, ListInv, OwnedIsLive
  <2>3. ~(entries[t] > 0)
    <3>1. th[t] = "free" /\ (pc = "link" \/ pc \in {"run", "walk"})
      BY <1>1, <1>4 DEF ThreadFree, TypeOK
    <3> QED
      BY <1>2, <3>1 DEF ListInv, EmptyUnlessOwned
  <2>4. EmptyUnlessOwned'
    BY <1>4, <2>3 DEF ThreadFree, TypeOK, ListInv, EmptyUnlessOwned
  <2> QED
    BY <1>1, <1>2, <1>4, <2>1, <2>2, <2>4 DEF ThreadFree, TypeOK, ListInv, OneResident, OneReplaced
<1> QED
  BY <1>3, <1>4 DEF ThreadStep

(* For every number of configured tables: the list holds one table between    *)
(* appends, no table is owned twice, and no entry sits in a freed table.      *)
THEOREM ListInvariant == Spec => [](TypeOK /\ ListInv)
<1>1. Init => TypeOK /\ ListInv
  BY ListInitInv
<1>2. TypeOK /\ ListInv /\ [Next]_vars => (TypeOK /\ ListInv)'
  <2> SUFFICES ASSUME TypeOK, ListInv, [Next]_vars PROVE TypeOK' /\ ListInv'
    OBVIOUS
  <2>1. CASE UNCHANGED vars
    BY <2>1 DEF vars, TypeOK, ListInv, OneResident, OneReplaced, OwnedIsLive, EmptyUnlessOwned
  <2> QED
    BY <2>1, CreateTableInv, LinkInv, AppendInv, ShutdownInv, ThreadInv DEF Next
<1> QED
  BY <1>1, <1>2, PTL DEF Spec

(* memtable.tables has no effect after start-up: one table, always.           *)
THEOREM AlwaysOneResident == Spec => []OneResident
<1>1. TypeOK /\ ListInv => OneResident
  BY DEF ListInv
<1> QED
  BY <1>1, ListInvariant, PTL

-----------------------------------------------------------------------------
(* Sums over finite sets.  MapThenSumSet is a recursive function on the       *)
(* subsets of its argument; that such a function exists, and how its value    *)
(* changes with one summand, is shown by a least counterexample.              *)

\* The element that the fold takes out of a set.
Pick(s) == CHOOSE x \in s : TRUE

\* g satisfies the recursion of the sum of f at the set s.
SumAt(g, f, s) == g[s] = IF s = {} THEN 0 ELSE f[Pick(s)] + g[s \ {Pick(s)}]

\* g is the function that the sum of f over subsets of T is defined by.
IsSum(g, f, T) ==
    g = [s \in SUBSET T |-> IF s = {} THEN 0 ELSE f[Pick(s)] + g[s \ {Pick(s)}]]

Sum(f, T) == (CHOOSE g : IsSum(g, f, T))[T]

(* The sum of EntriesConserved is this one.                                   *)
LEMMA SumIsMapThenSumSet ==
    MapThenSumSet(LAMBDA t : entries[t], Tables) = Sum(entries, Tables)
BY DEF MapThenSumSet, MapThenFoldSet, Sum, IsSum, Pick

(* A set of natural numbers that is not empty has a least element.            *)
LEMMA LeastNat ==
    ASSUME NEW B \in SUBSET Nat, B # {}
    PROVE  \E n \in B : \A m \in B : n <= m
<1>1. PICK n \in B : \A m \in B : ~ (<<m, n>> \in OpToRel(<, Nat))
  BY NatLessThanWellFounded, WFMin
<1>2. \A m \in B : ~ (m < n)
  BY <1>1 DEF OpToRel
<1> QED
  BY <1>2

(* The set that is left is smaller by one.                                    *)
LEMMA PickProperties ==
    ASSUME NEW T, IsFiniteSet(T), NEW s \in SUBSET T, s # {}
    PROVE  /\ Pick(s) \in s /\ Pick(s) \in T
           /\ s \ {Pick(s)} \in SUBSET T
           /\ Cardinality(s) \in Nat /\ Cardinality(s) # 0
           /\ Cardinality(s \ {Pick(s)}) = Cardinality(s) - 1
<1>1. Pick(s) \in s
  BY DEF Pick
<1>2. IsFiniteSet(s)
  BY FS_Subset
<1>3. Cardinality(s) \in Nat /\ Cardinality(s) # 0
  BY <1>2, FS_CardinalityType, FS_EmptySet
<1> QED
  BY <1>1, <1>2, <1>3, FS_RemoveElement

(* The recursion has a solution with values in Nat.                           *)
LEMMA SumExists ==
    ASSUME NEW T, IsFiniteSet(T), NEW f \in [T -> Nat]
    PROVE  \E g \in [SUBSET T -> Nat] : IsSum(g, f, T)
<1> DEFINE Solved(n) == \E g \in [SUBSET T -> Nat] :
                            \A s \in SUBSET T : Cardinality(s) <= n => SumAt(g, f, s)
           B == {n \in Nat : ~ Solved(n)}
<1>0. \A s \in SUBSET T : IsFiniteSet(s) /\ Cardinality(s) \in Nat
  BY FS_Subset, FS_CardinalityType
<1>1. Solved(0)
  <2> DEFINE g == [s \in SUBSET T |-> 0]
  <2>1. \A s \in SUBSET T : Cardinality(s) <= 0 => s = {}
    BY <1>0, FS_EmptySet
  <2>2. g \in [SUBSET T -> Nat] /\ \A s \in SUBSET T : Cardinality(s) <= 0 => SumAt(g, f, s)
    BY <2>1 DEF SumAt
  <2> QED
    BY <2>2
<1>2. ASSUME NEW n \in Nat, Solved(n) PROVE Solved(n + 1)
  <2>1. PICK g \in [SUBSET T -> Nat] :
            \A s \in SUBSET T : Cardinality(s) <= n => SumAt(g, f, s)
    BY <1>2
  <2> DEFINE h == [s \in SUBSET T |-> IF Cardinality(s) = n + 1
                                       THEN f[Pick(s)] + g[s \ {Pick(s)}] ELSE g[s]]
  <2>2. h \in [SUBSET T -> Nat]
    <3> SUFFICES ASSUME NEW s \in SUBSET T PROVE h[s] \in Nat
      OBVIOUS
    <3>1. CASE Cardinality(s) = n + 1
      <4>1. s # {}
        BY <1>0, <3>1, FS_EmptySet
      <4>2. f[Pick(s)] \in Nat /\ g[s \ {Pick(s)}] \in Nat
        BY <4>1, PickProperties
      <4> QED
        BY <3>1, <4>2
    <3> QED
      BY <3>1
  <2>3. ASSUME NEW s \in SUBSET T, Cardinality(s) <= n + 1
        PROVE  SumAt(h, f, s)
    <3>1. CASE s = {}
      BY <1>0, <2>1, <3>1, FS_EmptySet DEF SumAt
    <3>2. CASE s # {}
      <4>1. /\ s \ {Pick(s)} \in SUBSET T /\ Cardinality(s) \in Nat
            /\ Cardinality(s \ {Pick(s)}) = Cardinality(s) - 1
        BY <3>2, PickProperties
      <4>2. h[s \ {Pick(s)}] = g[s \ {Pick(s)}]
        <5>1. Cardinality(s \ {Pick(s)}) # n + 1
          BY <2>3, <4>1
        <5> QED
          BY <4>1, <5>1
      <4>3. CASE Cardinality(s) = n + 1
        BY <3>2, <4>2, <4>3 DEF SumAt
      <4>4. CASE Cardinality(s) <= n
        BY <2>1, <3>2, <4>1, <4>2, <4>4 DEF SumAt
      <4> QED
        BY <2>3, <4>1, <4>3, <4>4
    <3> QED
      BY <3>1, <3>2
  <2> HIDE DEF h
  <2> QED
    BY <2>2, <2>3
<1> HIDE DEF Solved
<1>3. B = {}
  <2> SUFFICES ASSUME B # {} PROVE FALSE
    OBVIOUS
  <2>1. PICK n \in B : \A m \in B : n <= m
    BY LeastNat
  <2>2. n # 0 /\ n - 1 \in Nat /\ ~ (n - 1 \in B)
    BY <1>1, <2>1
  <2>3. Solved((n - 1) + 1)
    BY <1>2, <2>2
  <2> QED
    BY <2>1, <2>2, <2>3
<1>4. Solved(Cardinality(T))
  BY <1>0, <1>3
<1>5. PICK g \in [SUBSET T -> Nat] :
          \A s \in SUBSET T : Cardinality(s) <= Cardinality(T) => SumAt(g, f, s)
  BY <1>4 DEF Solved
<1>6. \A s \in SUBSET T : g[s] = IF s = {} THEN 0 ELSE f[Pick(s)] + g[s \ {Pick(s)}]
  BY <1>5, FS_Subset DEF SumAt
<1>7. IsSum(g, f, T)
  BY <1>6 DEF IsSum
<1> QED
  BY <1>7

(* When one summand changes, the sum changes by as much.                      *)
LEMMA SumUpdate ==
    ASSUME NEW T, IsFiniteSet(T), NEW f \in [T -> Nat], NEW h \in [T -> Nat],
           NEW x \in T, \A y \in T : y # x => h[y] = f[y]
    PROVE  Sum(f, T) \in Nat /\ Sum(h, T) = Sum(f, T) - f[x] + h[x]
<1> DEFINE gf == CHOOSE g : IsSum(g, f, T)
           gh == CHOOSE g : IsSum(g, h, T)
           Shift(s) == IF x \in s THEN h[x] - f[x] ELSE 0
           B == {n \in Nat : \E s \in SUBSET T : Cardinality(s) = n /\ gh[s] # gf[s] + Shift(s)}
<1>1. IsSum(gf, f, T) /\ IsSum(gh, h, T)
  BY SumExists
<1> HIDE DEF gf, gh
<1>2. ASSUME NEW s \in SUBSET T
      PROVE  /\ gf[s] = IF s = {} THEN 0 ELSE f[Pick(s)] + gf[s \ {Pick(s)}]
             /\ gh[s] = IF s = {} THEN 0 ELSE h[Pick(s)] + gh[s \ {Pick(s)}]
  BY <1>1 DEF IsSum
<1>3. \A s \in SUBSET T : gf[s] \in Nat
  <2> DEFINE C == {n \in Nat : \E s \in SUBSET T : Cardinality(s) = n /\ ~ (gf[s] \in Nat)}
  <2>1. C = {}
    <3> SUFFICES ASSUME C # {} PROVE FALSE
      OBVIOUS
    <3>1. PICK n \in C : \A m \in C : n <= m
      BY LeastNat
    <3>2. PICK s \in SUBSET T : Cardinality(s) = n /\ ~ (gf[s] \in Nat)
      BY <3>1
    <3>3. s # {}
      <4>1. s = {} => gf[s] = 0
        BY <1>2
      <4> QED
        BY <3>2, <4>1
    <3>4. /\ Pick(s) \in T /\ s \ {Pick(s)} \in SUBSET T
          /\ Cardinality(s \ {Pick(s)}) = n - 1 /\ n - 1 \in Nat
      BY <3>2, <3>3, PickProperties
    <3>5. gf[s \ {Pick(s)}] \in Nat
      BY <3>1, <3>4
    <3>6. f[Pick(s)] \in Nat
      BY <3>4
    <3>7. gf[s] = f[Pick(s)] + gf[s \ {Pick(s)}]
      BY <1>2, <3>3
    <3> QED
      BY <3>2, <3>5, <3>6, <3>7
  <2>2. \A s \in SUBSET T : Cardinality(s) \in Nat
    BY FS_Subset, FS_CardinalityType
  <2> QED
    BY <2>1, <2>2
<1>4. B = {}
  <2> SUFFICES ASSUME B # {} PROVE FALSE
    OBVIOUS
  <2>1. PICK n \in B : \A m \in B : n <= m
    BY LeastNat
  <2>2. PICK s \in SUBSET T : Cardinality(s) = n /\ gh[s] # gf[s] + Shift(s)
    BY <2>1
  <2>3. s # {}
    <3>1. s = {} => gf[s] = 0 /\ gh[s] = 0
      BY <1>2
    <3> QED
      BY <2>2, <3>1
  <2> DEFINE y == Pick(s)
             r == s \ {Pick(s)}
  <2>4. y \in s /\ y \in T /\ r \in SUBSET T /\ Cardinality(r) = n - 1 /\ n - 1 \in Nat
    BY <2>2, <2>3, PickProperties
  <2>5. gh[r] = gf[r] + Shift(r)
    BY <2>1, <2>4
  <2>6. /\ gf[s] = f[y] + gf[r] /\ gh[s] = h[y] + gh[r]
        /\ gf[r] \in Nat /\ f[y] \in Nat /\ h[y] \in Nat /\ f[x] \in Nat /\ h[x] \in Nat
    BY <1>2, <1>3, <2>3, <2>4
  <2>7. (x \in s <=> x \in r \/ x = y) /\ y \notin r
    BY <2>4
  <2>8. y # x => h[y] = f[y]
    BY <2>4
  <2> HIDE DEF y, r
  <2>9. CASE y = x
    BY <2>2, <2>5, <2>6, <2>7, <2>9
  <2>10. CASE y # x
    BY <2>2, <2>5, <2>6, <2>7, <2>8, <2>10
  <2> QED
    BY <2>9, <2>10
<1>5. gh[T] = gf[T] + Shift(T)
  <2>1. Cardinality(T) \in Nat
    BY FS_CardinalityType
  <2> QED
    BY <1>4, <2>1
<1>6. gf[T] \in Nat /\ f[x] \in Nat /\ h[x] \in Nat
  BY <1>3
<1> QED
  BY <1>5, <1>6 DEF Sum, gf, gh

(* The sum of all zeros, at start-up.                                         *)
LEMMA SumZero ==
    ASSUME NEW T, IsFiniteSet(T)
    PROVE  Sum([t \in T |-> 0], T) = 0
<1> DEFINE f == [t \in T |-> 0]
           g == CHOOSE g : IsSum(g, f, T)
           B == {n \in Nat : \E s \in SUBSET T : Cardinality(s) = n /\ g[s] # 0}
<1>1. IsSum(g, f, T)
  BY SumExists
<1> HIDE DEF g
<1>2. \A s \in SUBSET T : g[s] = IF s = {} THEN 0 ELSE f[Pick(s)] + g[s \ {Pick(s)}]
  BY <1>1 DEF IsSum
<1>3. B = {}
  <2> SUFFICES ASSUME B # {} PROVE FALSE
    OBVIOUS
  <2>1. PICK n \in B : \A m \in B : n <= m
    BY LeastNat
  <2>2. PICK s \in SUBSET T : Cardinality(s) = n /\ g[s] # 0
    BY <2>1
  <2>3. s # {}
    BY <1>2, <2>2
  <2>4. /\ Pick(s) \in T /\ s \ {Pick(s)} \in SUBSET T
        /\ Cardinality(s \ {Pick(s)}) = n - 1 /\ n - 1 \in Nat
    <3>1. /\ Pick(s) \in T /\ s \ {Pick(s)} \in SUBSET T
          /\ Cardinality(s) \in Nat /\ Cardinality(s) # 0
          /\ Cardinality(s \ {Pick(s)}) = Cardinality(s) - 1
      BY <2>3, PickProperties
    <3> QED
      BY <2>2, <3>1
  <2>5. g[s \ {Pick(s)}] = 0 /\ f[Pick(s)] = 0
    BY <2>1, <2>4
  <2>6. g[s] = f[Pick(s)] + g[s \ {Pick(s)}]
    BY <1>2, <2>3
  <2> QED
    BY <2>2, <2>5, <2>6
<1>4. g[T] = 0
  BY <1>3, FS_CardinalityType
<1> QED
  BY <1>4 DEF Sum, g

(* No step loses or duplicates an entry: what an append adds to a table, or a *)
(* thread takes out of one, is what the sum changes by.                       *)
LEMMA ConservedStep ==
    ASSUME TypeOK, ListInv, EntriesConserved, [Next]_vars
    PROVE  EntriesConserved'
<1> DEFINE N == Sum(entries, Tables)
<1>1. entries \in [Tables -> Nat] /\ IsFiniteSet(Tables) /\ appended \in Nat /\ flushed \in Nat
  BY TablesAssumption, CapacityAssumption DEF TypeOK
<1>2. appended = flushed + N
  BY SumIsMapThenSumSet DEF EntriesConserved
<1>3. EntriesConserved' <=> appended' = flushed' + Sum(entries', Tables)
  BY DEF EntriesConserved, MapThenSumSet, MapThenFoldSet, Sum, IsSum, Pick
<1> HIDE DEF N
<1>4. ASSUME NEW t \in Tables, NEW v \in Nat, entries' = [entries EXCEPT ![t] = v],
             appended' - flushed' = appended - flushed + v - entries[t],
             appended' \in Nat, flushed' \in Nat
      PROVE  EntriesConserved'
  <2>1. entries' \in [Tables -> Nat] /\ entries'[t] = v
        /\ \A u \in Tables : u # t => entries'[u] = entries[u]
    BY <1>1, <1>4
  <2>2. N \in Nat /\ Sum(entries', Tables) = N - entries[t] + v
    BY <1>1, <2>1, SumUpdate DEF N
  <2>3. entries[t] \in Nat
    BY <1>1
  <2>4. appended' = flushed' + Sum(entries', Tables)
    BY <1>1, <1>2, <1>4, <2>2, <2>3
  <2> QED
    BY <1>3, <2>4
<1>5. ASSUME UNCHANGED <<entries, appended, flushed>> PROVE EntriesConserved'
  BY <1>2, <1>3, <1>5 DEF N
<1>6. ASSUME NEW t \in Tables, CreateTable(t) PROVE EntriesConserved'
  <2>1. entries[t] = 0
    BY <1>6 DEF CreateTable, ListInv
  <2>2. /\ entries' = [entries EXCEPT ![t] = 0] /\ appended' \in Nat /\ flushed' \in Nat
        /\ appended' - flushed' = appended - flushed + 0 - entries[t]
    BY <1>1, <1>6, <2>1 DEF CreateTable
  <2> QED
    BY <1>4, <2>2
<1>7. ASSUME NEW t \in Tables, Link(t) PROVE EntriesConserved'
  <2>1. entries[t] = 0
    BY <1>1, <1>7 DEF Link, ListInv, EmptyUnlessOwned
  <2>2. /\ entries' = [entries EXCEPT ![t] = 1] /\ appended' \in Nat /\ flushed' \in Nat
        /\ appended' - flushed' = appended - flushed + 1 - entries[t]
    BY <1>1, <1>7, <2>1 DEF Link
  <2> QED
    BY <1>4, <2>2
<1>8. ASSUME NEW t \in Tables, ThreadStep(t) PROVE EntriesConserved'
  <2>1. CASE ThreadWrite(t)
    <3>1. /\ entries' = [entries EXCEPT ![t] = 0] /\ appended' \in Nat /\ flushed' \in Nat
          /\ appended' - flushed' = appended - flushed + 0 - entries[t]
      BY <1>1, <2>1 DEF ThreadWrite
    <3> QED
      BY <1>4, <3>1
  <2>2. CASE ThreadFree(t)
    BY <1>5, <2>2 DEF ThreadFree
  <2> QED
    BY <1>8, <2>1, <2>2 DEF ThreadStep
<1>9. CASE Append
  <2>1. head \in Tables
    BY <1>9 DEF Append, ListInv, OneResident, TypeOK
  <2>2. /\ entries' = [entries EXCEPT ![head] = entries[head] + 1]
        /\ entries[head] + 1 \in Nat /\ appended' \in Nat /\ flushed' \in Nat
        /\ appended' - flushed' = appended - flushed + (entries[head] + 1) - entries[head]
    BY <1>1, <1>9, <2>1 DEF Append
  <2> QED
    BY <1>4, <2>1, <2>2
<1>10. CASE ShutdownStep
  <2>1. UNCHANGED <<entries, flushed, appended>>
    BY <1>10 DEF ShutdownStep, ListInv, OneResident
  <2> QED
    BY <1>5, <2>1
<1>11. CASE FlushAsync \/ LinkFault \/ ShutdownStart \/ ShutdownDone \/ UNCHANGED vars
  BY <1>5, <1>11 DEF FlushAsync, LinkFault, ShutdownStart, ShutdownDone, vars
<1> QED
  BY <1>6, <1>7, <1>8, <1>9, <1>10, <1>11 DEF Next

(* Every entry that racs_multi_memtable_append took is in one table or in an  *)
(* sstable, and counted once, whatever tables and threads there are.          *)
THEOREM EntriesAlwaysConserved == Spec => []EntriesConserved
<1>1. Init => EntriesConserved
  <2> SUFFICES ASSUME Init PROVE EntriesConserved
    OBVIOUS
  <2>1. Sum(entries, Tables) = 0
    BY SumZero, TablesAssumption DEF Init
  <2> QED
    BY <2>1, SumIsMapThenSumSet DEF EntriesConserved, Init
<1>2. TypeOK /\ ListInv /\ EntriesConserved /\ [Next]_vars => EntriesConserved'
  BY ConservedStep
<1> QED
  BY <1>1, <1>2, ListInvariant, PTL DEF Spec
=============================================================================
