---------------------------- MODULE KvStoreProofs ---------------------------
(***************************************************************************)
(* TLAPS proofs about the chained hash table: while it is a map, put, get  *)
(* and delete are those of a function from keys to values, for every       *)
(* capacity and every hash, colliding or not.                              *)
(***************************************************************************)
EXTENDS KvStore, SequenceTheorems, TLAPS

\* Tables with keys from K and values from V.
KvTables(K, V) == [Bins -> Seq([key : K, value : V])]

\* The entry (k, v) is in the chain of k.
Binds(kv, k, v) ==
    \E i \in DOMAIN kv[GetBin(k)] :
        kv[GetBin(k)][i].key = k /\ kv[GetBin(k)][i].value = v

\* The hash function is defined on a set of keys.
Hashable(K) == \A k \in K : HashOf(k) \in Nat

(* racs_kvstore_get_bin stays within the capacity.                            *)
LEMMA GetBinInBins ==
    ASSUME NEW K, Hashable(K), NEW k \in K
    PROVE  GetBin(k) \in Bins
BY BinCountAssumption DEF Hashable, GetBin, Bins

(* A chain is a sequence of entries.                                          *)
LEMMA ChainProperties ==
    ASSUME NEW K, NEW V, Hashable(K), NEW kv \in KvTables(K, V), NEW k \in K
    PROVE  LET c == kv[GetBin(k)] IN
           /\ GetBin(k) \in Bins /\ c \in Seq([key : K, value : V])
           /\ DOMAIN c = 1..Len(c) /\ Len(c) \in Nat
           /\ \A i \in DOMAIN c : c[i] \in [key : K, value : V]
<1> DEFINE E == [key : K, value : V]
           c == kv[GetBin(k)]
<1>1. GetBin(k) \in Bins
  BY GetBinInBins
<1>2. c \in Seq(E)
  BY <1>1 DEF KvTables
<1> HIDE DEF c, E
<1>3. Len(c) \in Nat /\ DOMAIN c = 1..Len(c) /\ \A i \in DOMAIN c : c[i] \in E
  BY <1>2, LenProperties
<1> QED
  BY <1>1, <1>2, <1>3 DEF c, E

(* What unlinking entry i of a chain leaves.                                  *)
LEMMA RemoveAtProperties ==
    ASSUME NEW S, NEW s \in Seq(S), NEW i \in 1..Len(s)
    PROVE  /\ RemoveAt(s, i) \in Seq(S)
           /\ Len(RemoveAt(s, i)) = Len(s) - 1
           /\ \A j \in 1..Len(s) - 1 :
                RemoveAt(s, i)[j] = IF j < i THEN s[j] ELSE s[j + 1]
<1> DEFINE a == SubSeq(s, 1, i - 1)
           b == SubSeq(s, i + 1, Len(s))
<1>1. Len(s) \in Nat /\ \A j \in 1..Len(s) : s[j] \in S
  BY LenProperties
<1>2. /\ a \in Seq(S) /\ Len(a) = i - 1
      /\ \A j \in 1..i - 1 : a[j] = s[j]
  BY <1>1
<1>3. /\ b \in Seq(S) /\ Len(b) = Len(s) - i
      /\ \A j \in 1..Len(s) - i : b[j] = s[i + j]
  BY <1>1
<1>4. RemoveAt(s, i) = a \o b
  BY DEF RemoveAt
<1> HIDE DEF a, b
<1>5. /\ a \o b \in Seq(S) /\ Len(a \o b) = Len(a) + Len(b)
      /\ \A j \in 1..Len(a) + Len(b) :
            (a \o b)[j] = IF j <= Len(a) THEN a[j] ELSE b[j - Len(a)]
  BY <1>2, <1>3, ConcatProperties
<1>6. \A j \in 1..Len(s) - 1 :
         RemoveAt(s, i)[j] = IF j < i THEN s[j] ELSE s[j + 1]
  <2> TAKE j \in 1..Len(s) - 1
  <2>1. CASE j < i
    BY <1>1, <1>2, <1>3, <1>4, <1>5, <2>1
  <2>2. CASE ~ (j < i)
    <3>1. /\ j \in 1..Len(a) + Len(b) /\ ~ (j <= Len(a))
          /\ j - Len(a) \in 1..Len(s) - i /\ i + (j - Len(a)) = j + 1
      BY <1>1, <1>2, <1>3, <2>2
    <3>2. (a \o b)[j] = b[j - Len(a)]
      BY <1>5, <3>1
    <3>3. b[j - Len(a)] = s[j + 1]
      BY <1>3, <3>1
    <3> QED
      BY <1>4, <2>2, <3>2, <3>3
  <2> QED
    BY <2>1, <2>2
<1> QED
  BY <1>1, <1>2, <1>3, <1>4, <1>5, <1>6

(* What chaining a new first entry gives.                                     *)
LEMMA ConsProperties ==
    ASSUME NEW S, NEW s \in Seq(S), NEW e \in S
    PROVE  /\ <<e>> \o s \in Seq(S)
           /\ Len(<<e>> \o s) = Len(s) + 1
           /\ (<<e>> \o s)[1] = e
           /\ \A j \in 2..Len(s) + 1 : (<<e>> \o s)[j] = s[j - 1]
<1>1. <<e>> \in Seq(S) /\ Len(<<e>>) = 1 /\ <<e>>[1] = e /\ Len(s) \in Nat
  BY LenProperties
<1>2. /\ <<e>> \o s \in Seq(S) /\ Len(<<e>> \o s) = Len(<<e>>) + Len(s)
      /\ \A j \in 1..Len(<<e>>) + Len(s) :
            (<<e>> \o s)[j] = IF j <= Len(<<e>>) THEN <<e>>[j] ELSE s[j - Len(<<e>>)]
  BY <1>1, ConcatProperties
<1> QED
  BY <1>1, <1>2

(* In a map a key has at most one entry, so racs_kvstore_get returns its      *)
(* value.                                                                     *)
LEMMA KvGetIsBinding ==
    ASSUME NEW K, NEW V, Hashable(K), NEW kv \in KvTables(K, V), KvIsMap(kv),
           NEW k \in K
    PROVE  /\ KvHas(kv, k) => KvGet(kv, k) \in V /\ Binds(kv, k, KvGet(kv, k))
           /\ \A v : Binds(kv, k, v) => KvHas(kv, k) /\ KvGet(kv, k) = v
<1> DEFINE c == kv[GetBin(k)]
<1>1. /\ GetBin(k) \in Bins /\ c \in Seq([key : K, value : V])
      /\ DOMAIN c = 1..Len(c) /\ Len(c) \in Nat
      /\ \A i \in DOMAIN c : c[i] \in [key : K, value : V]
  BY ChainProperties
<1>2. ASSUME NEW i \in DOMAIN c, c[i].key = k
      PROVE  Matches(kv, k) = {i} /\ KvHas(kv, k) /\ KvGet(kv, k) = c[i].value
  <2>1. Matches(kv, k) = {i}
    BY <1>1, <1>2 DEF Matches, KvIsMap
  <2>2. Min({i}) = i
    BY <1>1, <1>2 DEF Min
  <2> QED
    BY <2>1, <2>2 DEF KvHas, KvGet
<1>3. ASSUME KvHas(kv, k)
      PROVE  KvGet(kv, k) \in V /\ Binds(kv, k, KvGet(kv, k))
  <2>1. PICK i \in DOMAIN c : c[i].key = k
    BY <1>3 DEF KvHas, Matches
  <2>2. KvGet(kv, k) = c[i].value
    BY <1>2, <2>1
  <2> QED
    BY <1>1, <2>1, <2>2 DEF Binds
<1>4. ASSUME NEW v, Binds(kv, k, v)
      PROVE  KvHas(kv, k) /\ KvGet(kv, k) = v
  BY <1>2, <1>4 DEF Binds
<1> QED
  BY <1>3, <1>4

(* racs_kvstore_delete removes the key and nothing else, and keeps a map a    *)
(* map.                                                                       *)
LEMMA KvDeleteBinds ==
    ASSUME NEW K, NEW V, Hashable(K), NEW kv \in KvTables(K, V), KvIsMap(kv),
           NEW k \in K
    PROVE  /\ KvDelete(kv, k) \in KvTables(K, V)
           /\ KvIsMap(KvDelete(kv, k))
           /\ \A x \in K : \A v :
                Binds(KvDelete(kv, k), x, v) <=> x # k /\ Binds(kv, x, v)
<1> DEFINE E == [key : K, value : V]
           c == kv[GetBin(k)]
<1>1. /\ GetBin(k) \in Bins /\ c \in Seq(E)
      /\ DOMAIN c = 1..Len(c) /\ Len(c) \in Nat
      /\ \A i \in DOMAIN c : c[i] \in E
  BY ChainProperties
<1>2. CASE ~ KvHas(kv, k)
  BY <1>1, <1>2 DEF KvDelete, KvHas, Matches, Binds
<1>3. CASE KvHas(kv, k)
  <2>1. PICK m \in 1..Len(c) : c[m].key = k
    BY <1>1, <1>3 DEF KvHas, Matches
  <2>2. Min(Matches(kv, k)) = m
    <3>1. Matches(kv, k) = {m}
      BY <1>1, <2>1 DEF Matches, KvIsMap
    <3>2. Min({m}) = m
      BY <1>1 DEF Min
    <3> QED
      BY <3>1, <3>2
  <2> DEFINE d == RemoveAt(c, m)
             kd == KvDelete(kv, k)
  <2>3. /\ d \in Seq(E) /\ DOMAIN d = 1..Len(c) - 1
        /\ \A j \in 1..Len(c) - 1 : d[j] = IF j < m THEN c[j] ELSE c[j + 1]
    <3> HIDE DEF c, E
    <3>1. /\ d \in Seq(E) /\ Len(d) = Len(c) - 1
          /\ \A j \in 1..Len(c) - 1 : d[j] = IF j < m THEN c[j] ELSE c[j + 1]
      BY <1>1, RemoveAtProperties
    <3>2. DOMAIN d = 1..Len(d)
      BY <3>1, LenProperties
    <3> QED
      BY <3>1, <3>2
  <2>4. /\ kd \in KvTables(K, V)
        /\ kd[GetBin(k)] = d
        /\ \A b \in Bins : b # GetBin(k) => kd[b] = kv[b]
    BY <1>1, <1>3, <2>2, <2>3 DEF KvDelete, KvTables
  <2> HIDE DEF d, kd, E
  <2>5. ASSUME NEW j \in DOMAIN d
        PROVE  \E i \in DOMAIN c : i # m /\ d[j] = c[i]
    <3>1. CASE j < m
      BY <1>1, <2>3, <3>1
    <3>2. CASE ~ (j < m)
      <4>1. j + 1 \in DOMAIN c /\ j + 1 # m /\ d[j] = c[j + 1]
        BY <1>1, <2>3, <3>2
      <4> QED
        BY <4>1
    <3> QED
      BY <3>1, <3>2
  <2>6. ASSUME NEW i \in DOMAIN c, i # m
        PROVE  \E j \in DOMAIN d : d[j] = c[i]
    <3>1. CASE i < m
      BY <1>1, <2>3, <2>6, <3>1
    <3>2. CASE ~ (i < m)
      <4>1. i - 1 \in DOMAIN d /\ d[i - 1] = c[i]
        BY <1>1, <2>3, <2>6, <3>2
      <4> QED
        BY <4>1
    <3> QED
      BY <3>1, <3>2
  <2>7. ASSUME NEW i \in DOMAIN d, NEW j \in DOMAIN d
        PROVE  GetBin(d[i].key) = GetBin(k) /\ (d[i].key = d[j].key => i = j)
    <3>1. GetBin(d[i].key) = GetBin(k)
      BY <1>1, <2>5, <2>7 DEF KvIsMap
    <3>2. ASSUME d[i].key = d[j].key PROVE i = j
      <4> DEFINE up(n) == IF n < m THEN n ELSE n + 1
      <4>0. ASSUME NEW n \in DOMAIN d PROVE up(n) \in DOMAIN c /\ d[n] = c[up(n)]
        <5>1. CASE n < m
          BY <1>1, <2>3, <5>1
        <5>2. CASE ~ (n < m)
          BY <1>1, <2>3, <5>2
        <5> QED
          BY <5>1, <5>2
      <4>1. /\ up(i) \in DOMAIN c /\ up(j) \in DOMAIN c
            /\ d[i] = c[up(i)] /\ d[j] = c[up(j)]
        BY <4>0, <2>7
      <4>2. up(i) = up(j)
        BY <1>1, <3>2, <4>1 DEF KvIsMap
      <4> QED
        BY <1>1, <2>3, <2>7, <4>2
    <3> QED
      BY <3>1, <3>2
  <2>8. KvIsMap(kd)
    BY <2>4, <2>7 DEF KvIsMap
  <2>9. ASSUME NEW x \in K, NEW v
        PROVE  Binds(kd, x, v) <=> x # k /\ Binds(kv, x, v)
    <3>1. GetBin(x) \in Bins
      BY GetBinInBins
    <3>2. CASE GetBin(x) # GetBin(k)
      BY <2>4, <3>1, <3>2 DEF Binds
    <3>3. CASE GetBin(x) = GetBin(k)
      <4>1. ASSUME Binds(kd, x, v) PROVE x # k /\ Binds(kv, x, v)
        <5>1. PICK j \in DOMAIN d : d[j].key = x /\ d[j].value = v
          BY <2>4, <3>3, <4>1 DEF Binds
        <5>2. PICK i \in DOMAIN c : i # m /\ d[j] = c[i]
          BY <2>5
        <5>3. x # k
          BY <1>1, <2>1, <5>1, <5>2 DEF KvIsMap
        <5> QED
          BY <3>3, <5>1, <5>2, <5>3 DEF Binds
      <4>2. ASSUME x # k, Binds(kv, x, v) PROVE Binds(kd, x, v)
        <5>1. PICK i \in DOMAIN c : c[i].key = x /\ c[i].value = v
          BY <3>3, <4>2 DEF Binds
        <5>2. i # m
          BY <2>1, <4>2, <5>1
        <5>3. PICK j \in DOMAIN d : d[j] = c[i]
          BY <2>6, <5>2
        <5> QED
          BY <2>4, <3>3, <5>1, <5>3 DEF Binds
      <4> QED
        BY <4>1, <4>2
    <3> QED
      BY <3>2, <3>3
  <2> QED
    BY <2>4, <2>8, <2>9 DEF kd
<1> QED
  BY <1>2, <1>3

(* racs_kvstore_put binds the key to the value, changes no other key, and     *)
(* keeps a map a map: the old entry of the key is gone.                       *)
LEMMA KvPutBinds ==
    ASSUME NEW K, NEW V, Hashable(K), NEW kv \in KvTables(K, V), KvIsMap(kv),
           NEW k \in K, NEW w \in V
    PROVE  /\ KvPut(kv, k, w) \in KvTables(K, V)
           /\ KvIsMap(KvPut(kv, k, w))
           /\ \A x \in K : \A v :
                Binds(KvPut(kv, k, w), x, v) <=>
                    IF x = k THEN v = w ELSE Binds(kv, x, v)
<1> DEFINE E == [key : K, value : V]
           kd == KvDelete(kv, k)
           e == [key |-> k, value |-> w]
           c == kd[GetBin(k)]
           d == <<e>> \o c
           kp == KvPut(kv, k, w)
<1>1. /\ kd \in KvTables(K, V) /\ KvIsMap(kd)
      /\ \A x \in K : \A v : Binds(kd, x, v) <=> x # k /\ Binds(kv, x, v)
  BY KvDeleteBinds
<1>2. /\ GetBin(k) \in Bins /\ c \in Seq(E) /\ DOMAIN c = 1..Len(c) /\ Len(c) \in Nat
      /\ e \in E
  BY <1>1, GetBinInBins, LenProperties DEF KvTables
<1>3. /\ d \in Seq(E) /\ DOMAIN d = 1..Len(c) + 1 /\ d[1] = e
      /\ \A j \in 2..Len(c) + 1 : d[j] = c[j - 1]
  BY <1>2, ConsProperties, LenProperties
<1>4. /\ kp \in KvTables(K, V) /\ kp[GetBin(k)] = d
      /\ \A b \in Bins : b # GetBin(k) => kp[b] = kd[b]
  BY <1>1, <1>2, <1>3 DEF KvPut, KvTables
<1>5. e.key = k /\ e.value = w
  OBVIOUS
<1> HIDE DEF d, kd, kp, e, E
<1>6. ASSUME NEW i \in DOMAIN c PROVE c[i].key # k
  <2>1. Binds(kd, k, c[i].value) \/ c[i].key # k
    BY DEF Binds
  <2> QED
    BY <1>1, <2>1
<1>7. ASSUME NEW i \in DOMAIN d, NEW j \in DOMAIN d
      PROVE  GetBin(d[i].key) = GetBin(k) /\ (d[i].key = d[j].key => i = j)
  <2>1. ASSUME NEW n \in DOMAIN d, n # 1
        PROVE  n - 1 \in DOMAIN c /\ d[n] = c[n - 1] /\ d[n].key # k
    BY <1>2, <1>3, <1>6, <2>1
  <2>2. GetBin(d[i].key) = GetBin(k)
    BY <1>1, <1>2, <1>3, <1>5, <2>1 DEF KvIsMap
  <2>3. ASSUME d[i].key = d[j].key PROVE i = j
    <3>1. CASE i = 1 \/ j = 1
      BY <1>3, <1>5, <2>1, <2>3, <3>1
    <3>2. CASE i # 1 /\ j # 1
      <4>1. i - 1 = j - 1
        BY <1>1, <1>2, <2>1, <2>3, <3>2 DEF KvIsMap
      <4> QED
        BY <1>2, <1>3, <1>7, <4>1
    <3> QED
      BY <3>1, <3>2
  <2> QED
    BY <2>2, <2>3
<1>8. KvIsMap(kp)
  BY <1>1, <1>4, <1>7 DEF KvIsMap
<1>9. ASSUME NEW x \in K, NEW v
      PROVE  Binds(kp, x, v) <=> IF x = k THEN v = w ELSE Binds(kv, x, v)
  <2>1. GetBin(x) \in Bins
    BY GetBinInBins
  <2>2. CASE GetBin(x) # GetBin(k)
    BY <1>1, <1>4, <2>1, <2>2 DEF Binds
  <2>3. CASE x = k
    <3>1. 1 \in DOMAIN d
      BY <1>2, <1>3
    <3>2. \A n \in DOMAIN d : d[n].key = k => n = 1
      BY <1>3, <1>5, <1>7, <3>1
    <3> QED
      BY <1>3, <1>4, <1>5, <2>3, <3>1, <3>2 DEF Binds
  <2>4. CASE x # k /\ GetBin(x) = GetBin(k)
    <3>1. ASSUME Binds(kp, x, v) PROVE Binds(kd, x, v)
      <4>1. PICK n \in DOMAIN d : d[n].key = x /\ d[n].value = v
        BY <1>4, <2>4, <3>1 DEF Binds
      <4>2. n - 1 \in DOMAIN c /\ d[n] = c[n - 1]
        BY <1>2, <1>3, <1>5, <2>4, <4>1
      <4> QED
        BY <2>4, <4>1, <4>2 DEF Binds
    <3>2. ASSUME Binds(kd, x, v) PROVE Binds(kp, x, v)
      <4>1. PICK i \in DOMAIN c : c[i].key = x /\ c[i].value = v
        BY <2>4, <3>2 DEF Binds
      <4>2. i + 1 \in DOMAIN d /\ d[i + 1] = c[i]
        BY <1>2, <1>3
      <4> QED
        BY <1>4, <2>4, <4>1, <4>2 DEF Binds
    <3> QED
      BY <1>1, <2>4, <3>1, <3>2
  <2> QED
    BY <2>2, <2>3, <2>4
<1> QED
  BY <1>4, <1>8, <1>9 DEF kp

(* racs_kvstore_create gives a map that binds nothing.                        *)
LEMMA KvEmptyBinds ==
    ASSUME NEW K, NEW V, Hashable(K)
    PROVE  /\ KvEmpty \in KvTables(K, V) /\ KvIsMap(KvEmpty)
           /\ \A k \in K : ~ KvHas(KvEmpty, k)
<1>1. \A k \in K : GetBin(k) \in Bins
  BY GetBinInBins
<1>2. KvEmpty \in KvTables(K, V)
  BY EmptySeq DEF KvEmpty, KvTables
<1>3. \A b \in Bins : KvEmpty[b] = <<>>
  BY DEF KvEmpty
<1> QED
  BY <1>1, <1>2, <1>3 DEF KvIsMap, KvHas, Matches

(* The table is the map its callers take it for: after a put the key has the  *)
(* value and every other key what it had; after a delete the key is absent    *)
(* and every other key has what it had.                                       *)
THEOREM KvActsAsMap ==
    ASSUME NEW K, NEW V, Hashable(K), NEW kv \in KvTables(K, V), KvIsMap(kv),
           NEW k \in K, NEW w \in V, NEW x \in K
    PROVE  /\ KvIsMap(KvPut(kv, k, w)) /\ KvIsMap(KvDelete(kv, k))
           /\ KvHas(KvPut(kv, k, w), x) <=> x = k \/ KvHas(kv, x)
           /\ KvGet(KvPut(kv, k, w), k) = w
           /\ x # k /\ KvHas(kv, x) => KvGet(KvPut(kv, k, w), x) = KvGet(kv, x)
           /\ KvHas(KvDelete(kv, k), x) <=> x # k /\ KvHas(kv, x)
           /\ x # k /\ KvHas(kv, x) => KvGet(KvDelete(kv, k), x) = KvGet(kv, x)
<1> DEFINE kp == KvPut(kv, k, w)
           kd == KvDelete(kv, k)
<1>1. /\ kp \in KvTables(K, V) /\ KvIsMap(kp)
      /\ \A y \in K : \A v : Binds(kp, y, v) <=> IF y = k THEN v = w ELSE Binds(kv, y, v)
  BY KvPutBinds
<1>2. /\ kd \in KvTables(K, V) /\ KvIsMap(kd)
      /\ \A y \in K : \A v : Binds(kd, y, v) <=> y # k /\ Binds(kv, y, v)
  BY KvDeleteBinds
<1> HIDE DEF kp, kd
<1>3. ASSUME NEW t \in KvTables(K, V), KvIsMap(t), NEW y \in K
      PROVE  /\ KvHas(t, y) => Binds(t, y, KvGet(t, y))
             /\ \A v : Binds(t, y, v) => KvHas(t, y) /\ KvGet(t, y) = v
  BY <1>3, KvGetIsBinding
<1>4. /\ KvHas(kp, x) <=> x = k \/ KvHas(kv, x)
      /\ KvHas(kp, k) /\ KvGet(kp, k) = w
      /\ x # k /\ KvHas(kv, x) => KvGet(kp, x) = KvGet(kv, x)
  BY <1>1, <1>3
<1>5. /\ KvHas(kd, x) <=> x # k /\ KvHas(kv, x)
      /\ x # k /\ KvHas(kv, x) => KvGet(kd, x) = KvGet(kv, x)
  BY <1>2, <1>3
<1> QED
  BY <1>1, <1>2, <1>4, <1>5 DEF kp, kd
=============================================================================
