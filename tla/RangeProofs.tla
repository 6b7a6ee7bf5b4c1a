----------------------------- MODULE RangeProofs ----------------------------
(***************************************************************************)
(* TLAPS proofs about RANGE, for every set of streams, every size of the   *)
(* memtable and of the cache, every layout of paths and any number of      *)
(* blocks.                                                                 *)
(*                                                                         *)
(* The log of appends is cut into stretches of TableSize entries, counted  *)
(* from 0; stretch a is the table of the a-th flush, and its first time is *)
(* the name of its file.  c counts the tables handed to flush threads.     *)
(***************************************************************************)
EXTENDS Range, SequenceTheorems, WellFoundedInduction, TLAPS

Entry == [id : Nat, stream : Streams, ts : Nat, bytes : Nat, audio : Nat]

\* The a-th table, and the time its file is named after.
Chunk(a) == [i \in 1..TableSize |-> log[a * TableSize + i]]
Name(a) == log[a * TableSize + 1].ts

LogTyped ==
    /\ log \in Seq(Entry) /\ \A i \in 1..Len(log) : log[i].id = i
    /\ offsets \in [Streams -> Nat]

\* The times of the blocks of a stream follow each other.
Clocked ==
    /\ \A i \in 1..Len(log) : log[i].ts <= Timestamp(log[i].stream)
    /\ \A i, j \in 1..Len(log) :
            i < j /\ log[i].stream = log[j].stream => log[i].ts <= log[j].ts

\* The memtable is what the log has behind the tables handed over.
Split(c) ==
    /\ mem \in Seq(Entry) /\ Len(mem) <= TableSize
    /\ Len(log) = c * TableSize + Len(mem)
    /\ \A i \in 1..Len(mem) : mem[i] = log[c * TableSize + i]

\* f is the file of one of the first c tables, with the name t.
FileOf(f, t, c) == \E a \in 0..c - 1 : f = SstableWrite(Chunk(a)) /\ Name(a) = t

\* A table handed over is with its thread, or a file has its name.
Tables(c) ==
    /\ \A x \in flights : \E a \in 0..c - 1 : x = Chunk(a)
    /\ \A t \in DOMAIN seg : t \in Nat /\ FileOf(seg[t], t, c)
    /\ \A a \in 0..c - 1 : Chunk(a) \in flights \/ Name(a) \in DOMAIN seg

\* The cache has files of tables under the names of the tables.
Cached(c) ==
    /\ order \in Seq(DOMAIN value)
    /\ \A key \in DOMAIN value : key[2] \in DOMAIN seg /\ FileOf(value[key], key[2], c)

StoreInv(c) == LogTyped /\ Clocked /\ Split(c) /\ Tables(c) /\ Cached(c)

\* The fields of a query.
Fields(q) ==
    /\ q.stream \in Streams /\ q.from \in Nat /\ q.to \in Nat /\ q.out \in Seq(Entry)
    /\ q = [stream |-> q.stream, from |-> q.from, to |-> q.to, files |-> q.files,
            out |-> q.out, unseen |-> q.unseen]

\* e is an entry of table a.
In(a, e) == \E k \in 1..TableSize : e = log[a * TableSize + k]

\* Where an entry of the output comes from: a file whose turn is over, or one of
\* the first m entries of the memtable.
Origin(q, e, m, c) ==
    \/ \E a \in 0..c - 1 : In(a, e) /\ Name(a) \in DOMAIN seg /\ \A t \in q.files : Name(a) < t
    \/ \E k \in 1..m : e = log[c * TableSize + k]

\* d may come before e: it was appended first, or its file has the lower name.
Before(d, e, c) ==
    \/ d.id < e.id
    \/ \E a, b \in 0..c - 1 : /\ In(a, d) /\ In(b, e) /\ Name(a) < Name(b)
                               /\ Name(a) \in DOMAIN seg /\ Name(b) \in DOMAIN seg

\* An entry is in the output if the query asks for it.
Shown(q, e) == Asked(q, e) => \E i \in 1..Len(q.out) : q.out[i] = e

\* What the query makes of table a: it had not been renamed, its turn is to
\* come, its name is not in the range, or a file of its name has been taken.
Handled(q, a, c) ==
    \/ Chunk(a) \in q.unseen
    \/ Name(a) \in q.files
    \/ Name(a) \in DOMAIN seg /\ ~ InRange(q, Name(a))
    \/ \E b \in 0..c - 1 : /\ Name(b) = Name(a)
                            /\ \A k \in 1..TableSize : Shown(q, log[b * TableSize + k])

\* A query with m entries of the memtable in its output.
Answer(q, m, c) ==
    /\ Fields(q) /\ q.files \subseteq DOMAIN seg
    /\ \A i \in 1..Len(q.out) : Asked(q, q.out[i]) /\ Origin(q, q.out[i], m, c)
    /\ \A i, j \in 1..Len(q.out) : i < j => Before(q.out[i], q.out[j], c)
    /\ \A a \in 0..c - 1 : Handled(q, a, c)
    /\ \A k \in 1..m : Shown(q, log[c * TableSize + k])

\* The inductive invariant.
RangeInv ==
    \E c \in Nat : /\ StoreInv(c)
                   /\ query # NoQuery => Answer(query, 0, c)
                   /\ reply # NoQuery => reply.files = {} /\ Answer(reply, Len(mem), c)

-----------------------------------------------------------------------------
(* Stretches *)

(* The constants.                                                             *)
LEMMA Sizes == TableSize \in Nat /\ TableSize >= 1 /\ CacheSize \in Nat /\ CacheSize >= 1
BY RangeAssumption

(* A later table begins behind the end of an earlier one.                     *)
LEMMA Behind ==
    ASSUME NEW a \in Nat, NEW c \in Nat, a < c
    PROVE  /\ a * TableSize \in Nat /\ c * TableSize \in Nat
           /\ a * TableSize + TableSize <= c * TableSize
<1>1. TableSize \in Nat
  BY Sizes
<1>2. PICK d \in Nat : c = a + 1 + d
  <2>1. c - a - 1 \in Nat /\ c = a + 1 + (c - a - 1)
    OBVIOUS
  <2> QED
    BY <2>1
<1>3. \A x, y, z \in Nat : (x + 1 + y) * z = x * z + z + y * z /\ y * z \in Nat /\ x * z \in Nat
  OBVIOUS
<1> QED
  BY <1>1, <1>2, <1>3

(* The entries of the first c tables are among the first entries of the log.  *)
LEMMA Positions ==
    ASSUME NEW c \in Nat, NEW a \in 0..c - 1, NEW i \in 1..TableSize
    PROVE  /\ a * TableSize \in Nat /\ c * TableSize \in Nat
           /\ a * TableSize + i \in 1..c * TableSize
<1>1. a \in Nat /\ a < c /\ TableSize \in Nat
  BY Sizes
<1>2. /\ a * TableSize \in Nat /\ c * TableSize \in Nat
      /\ a * TableSize + TableSize <= c * TableSize
  BY <1>1, Behind
<1>3. \A x, y, z \in Nat : x + z <= y /\ i <= z => x + i \in 1..y
  BY <1>1
<1> QED
  BY <1>1, <1>2, <1>3

(* What the chunks hold.                                                      *)
LEMMA ChunkEntries ==
    ASSUME NEW c \in Nat, LogTyped, Split(c), NEW a \in 0..c - 1
    PROVE  /\ Chunk(a) \in Seq(Entry) /\ Len(Chunk(a)) = TableSize
           /\ Name(a) \in Nat /\ Chunk(a)[1].ts = Name(a)
           /\ \A i \in 1..TableSize :
                /\ a * TableSize + i \in 1..Len(log)
                /\ Chunk(a)[i] = log[a * TableSize + i]
                /\ Chunk(a)[i] \in Entry /\ Chunk(a)[i].id = a * TableSize + i
<1>1. TableSize \in Nat /\ 1 \in 1..TableSize /\ Len(log) \in Nat /\ Len(mem) \in Nat
  BY Sizes, LenProperties DEF LogTyped, Split
<1>2. \A i \in 1..TableSize : a * TableSize + i \in 1..Len(log)
  <2> TAKE i \in 1..TableSize
  <2>1. /\ a * TableSize \in Nat /\ c * TableSize \in Nat
        /\ a * TableSize + i \in 1..c * TableSize
    BY Positions
  <2>2. Len(log) = c * TableSize + Len(mem)
    BY DEF Split
  <2> QED
    BY <1>1, <2>1, <2>2
<1>3. \A i \in 1..TableSize : /\ Chunk(a)[i] = log[a * TableSize + i]
                              /\ Chunk(a)[i] \in Entry /\ Chunk(a)[i].id = a * TableSize + i
  <2> TAKE i \in 1..TableSize
  <2>1. Chunk(a)[i] = log[a * TableSize + i]
    BY DEF Chunk
  <2>2. log[a * TableSize + i] \in Entry /\ log[a * TableSize + i].id = a * TableSize + i
    BY <1>2, ElementOfSeq DEF LogTyped
  <2> QED
    BY <2>1, <2>2
<1>4. Chunk(a) \in Seq(Entry) /\ Len(Chunk(a)) = TableSize
  BY <1>1, <1>3 DEF Chunk
<1>5. Name(a) \in Nat /\ Chunk(a)[1].ts = Name(a)
  BY <1>1, <1>3 DEF Name, Entry
<1> QED
  BY <1>2, <1>3, <1>4, <1>5

-----------------------------------------------------------------------------
(* Recursive functions.  That one exists is shown by a least counterexample.  *)

(* A set of natural numbers that is not empty has a least element.            *)
LEMMA LeastNat ==
    ASSUME NEW B \in SUBSET Nat, B # {}
    PROVE  \E n \in B : \A m \in B : n <= m
<1>1. PICK n \in B : \A m \in B : ~ (<<m, n>> \in OpToRel(<, Nat))
  BY NatLessThanWellFounded, WFMin
<1>2. \A m \in B : ~ (m < n)
  BY <1>1 DEF OpToRel
<1> QED
  BY <1>2

\* f has n steps: it begins with b, and step takes it from one value to the next.
Iterates(f, S, b, step, n) ==
    /\ f \in [0..n -> S] /\ f[0] = b
    /\ \A i \in 1..n : f[i] = step[i][f[i - 1]]

(* Steps can be taken one after the other.                                    *)
LEMMA IteratesExist ==
    ASSUME NEW S, NEW b \in S, NEW n \in Nat, NEW step \in [1..n -> [S -> S]]
    PROVE  \E f : Iterates(f, S, b, step, n)
<1> DEFINE Solved(m) == \E f : Iterates(f, S, b, step, m)
           B == {m \in Nat : m \in 0..n /\ ~ Solved(m)}
<1>1. Solved(0)
  <2> DEFINE f == [i \in 0..0 |-> b]
  <2>1. Iterates(f, S, b, step, 0)
    BY DEF Iterates
  <2> QED
    BY <2>1
<1>2. ASSUME NEW m \in Nat, m < n, Solved(m) PROVE Solved(m + 1)
  <2>1. PICK f : Iterates(f, S, b, step, m)
    BY <1>2
  <2> DEFINE g == [i \in 0..m + 1 |-> IF i = m + 1 THEN step[m + 1][f[m]] ELSE f[i]]
  <2>2. m + 1 \in 1..n /\ m \in 0..m /\ f[m] \in S /\ step[m + 1][f[m]] \in S
    <3>1. m + 1 \in 1..n /\ m \in 0..m
      BY <1>2
    <3>2. f[m] \in S
      BY <2>1, <3>1 DEF Iterates
    <3> QED
      BY <3>1, <3>2
  <2>3. g \in [0..m + 1 -> S] /\ g[0] = b
    BY <2>1, <2>2 DEF Iterates
  <2>4. \A i \in 1..m + 1 : g[i] = step[i][g[i - 1]]
    <3> TAKE i \in 1..m + 1
    <3>1. i - 1 \in 0..m /\ i - 1 # m + 1 /\ i - 1 \in 0..m + 1 /\ i \in 0..m + 1
      OBVIOUS
    <3>2. g[i - 1] = f[i - 1]
      BY <3>1
    <3>3. CASE i = m + 1
      BY <3>1, <3>2, <3>3
    <3>4. CASE i # m + 1
      <4>1. i \in 1..m
        BY <3>4
      <4> QED
        BY <2>1, <3>1, <3>2, <3>4, <4>1 DEF Iterates
    <3> QED
      BY <3>3, <3>4
  <2>5. Iterates(g, S, b, step, m + 1)
    BY <2>3, <2>4 DEF Iterates
  <2> HIDE DEF g
  <2> QED
    BY <2>5
<1> HIDE DEF Solved
<1>3. B = {}
  <2> SUFFICES ASSUME B # {} PROVE FALSE
    OBVIOUS
  <2>1. PICK m \in B : \A k \in B : m <= k
    BY LeastNat
  <2>2. m # 0 /\ m - 1 \in Nat /\ m - 1 < n /\ m - 1 \in 0..n /\ ~ (m <= m - 1)
    BY <1>1, <2>1
  <2>3. Solved(m - 1)
    BY <2>1, <2>2
  <2>4. Solved((m - 1) + 1) /\ (m - 1) + 1 = m
    BY <1>2, <2>1, <2>2, <2>3
  <2> QED
    BY <2>1, <2>4
<1>4. Solved(n)
  BY <1>3
<1> QED
  BY <1>4 DEF Solved

-----------------------------------------------------------------------------
(* A file read is the table written *)

\* The offsets of the entries of a table.
IsOffsets(f, table) ==
    f = [j \in 0..Len(table) |->
            IF j = 0 THEN HeaderSize ELSE f[j - 1] + EntryMetadataSize + table[j].bytes]

(* Entries lie one behind the other.                                          *)
LEMMA OffsetStep ==
    ASSUME NEW table \in Seq(Entry)
    PROVE  /\ \A i \in 1..Len(table) + 1 : EntryOffset(table, i) \in Nat
           /\ \A i \in 1..Len(table) : EntryOffset(table, i) < EntryOffset(table, i + 1)
<1> DEFINE n == Len(table)
           step == [i \in 1..n |-> [x \in Nat |-> x + EntryMetadataSize + table[i].bytes]]
           g == CHOOSE g : IsOffsets(g, table)
<1>1. n \in Nat /\ \A i \in 1..n : table[i] \in Entry /\ table[i].bytes \in Nat
  <2>1. n \in Nat /\ \A i \in 1..n : table[i] \in Entry
    BY LenProperties, ElementOfSeq
  <2> QED
    BY <2>1 DEF Entry
<1>2. step \in [1..n -> [Nat -> Nat]] /\ HeaderSize \in Nat
  BY <1>1 DEF EntryMetadataSize, HeaderSize
<1>3. PICK f : Iterates(f, Nat, HeaderSize, step, n)
  <2> HIDE DEF step, n
  <2> QED
    BY <1>1, <1>2, IteratesExist
<1>4. IsOffsets(f, table)
  <2>1. f \in [0..n -> Nat] /\ f[0] = HeaderSize
    BY <1>3 DEF Iterates
  <2>2. \A j \in 1..n : f[j] = f[j - 1] + EntryMetadataSize + table[j].bytes
    <3> TAKE j \in 1..n
    <3>1. j - 1 \in 0..n
      BY <1>1
    <3>2. f[j - 1] \in Nat
      BY <2>1, <3>1
    <3>3. f[j] = step[j][f[j - 1]]
      BY <1>3 DEF Iterates
    <3> QED
      BY <3>2, <3>3
  <2>3. \A j \in 0..n : j # 0 => j \in 1..n
    BY <1>1
  <2>4. \A j \in 0..n : f[j] = IF j = 0 THEN HeaderSize
                               ELSE f[j - 1] + EntryMetadataSize + table[j].bytes
    BY <2>1, <2>2, <2>3
  <2> QED
    BY <2>1, <2>4 DEF IsOffsets
<1>5. IsOffsets(g, table)
  BY <1>4
<1>6. \A i : EntryOffset(table, i) = g[i - 1]
  BY DEF EntryOffset, IsOffsets
<1> HIDE DEF g
<1>7. g = f
  <2> DEFINE B == {j \in Nat : j \in 0..n /\ g[j] # f[j]}
  <2>1. \A j \in 0..n :
          /\ g[j] = IF j = 0 THEN HeaderSize ELSE g[j - 1] + EntryMetadataSize + table[j].bytes
          /\ f[j] = IF j = 0 THEN HeaderSize ELSE f[j - 1] + EntryMetadataSize + table[j].bytes
    BY <1>4, <1>5 DEF IsOffsets
  <2>2. B = {}
    <3> SUFFICES ASSUME B # {} PROVE FALSE
      OBVIOUS
    <3>1. PICK j \in B : \A k \in B : j <= k
      BY LeastNat
    <3>2. j \in 0..n /\ g[j] # f[j] /\ j # 0
      BY <2>1, <3>1
    <3>3. j - 1 \in 0..n /\ j - 1 \in Nat /\ ~ (j <= j - 1)
      BY <1>1, <3>2
    <3>4. g[j - 1] = f[j - 1]
      BY <3>1, <3>3
    <3> QED
      BY <2>1, <3>2, <3>4
  <2>3. \A j \in 0..n : g[j] = f[j]
    BY <1>1, <2>2
  <2>4. g = [j \in 0..n |-> g[j]] /\ f = [j \in 0..n |-> f[j]]
    BY <1>4, <1>5 DEF IsOffsets
  <2> QED
    BY <2>3, <2>4
<1>8. \A i \in 1..n + 1 : EntryOffset(table, i) \in Nat
  <2> TAKE i \in 1..n + 1
  <2>1. i - 1 \in 0..n
    BY <1>1
  <2> QED
    BY <1>3, <1>6, <1>7, <2>1 DEF Iterates
<1>9. \A i \in 1..n : EntryOffset(table, i) < EntryOffset(table, i + 1)
  <2> TAKE i \in 1..n
  <2>1. /\ i \in 1..n + 1 /\ i + 1 \in 1..n + 1 /\ (i + 1) - 1 = i
        /\ i - 1 \in 0..n /\ i # 0 /\ i \in 0..n
    BY <1>1
  <2>2. EntryOffset(table, i) = f[i - 1] /\ EntryOffset(table, i + 1) = f[i]
    BY <1>6, <1>7, <2>1
  <2>3. f[i] = f[i - 1] + EntryMetadataSize + table[i].bytes
    BY <1>4, <2>1 DEF IsOffsets
  <2>4. f[i - 1] \in Nat /\ table[i].bytes \in Nat
    BY <1>1, <1>3, <2>1 DEF Iterates
  <2> QED
    BY <2>2, <2>3, <2>4 DEF EntryMetadataSize
<1> QED
  BY <1>8, <1>9

(* No two entries lie at the same place.                                      *)
LEMMA OffsetsIncrease ==
    ASSUME NEW table \in Seq(Entry), NEW i \in 1..Len(table), NEW j \in 1..Len(table), i < j
    PROVE  EntryOffset(table, i) < EntryOffset(table, j)
<1> DEFINE B == {k \in Nat : k \in i + 1..Len(table)
                             /\ ~ (EntryOffset(table, i) < EntryOffset(table, k))}
<1>1. Len(table) \in Nat
  BY LenProperties
<1>2. B = {}
  <2> SUFFICES ASSUME B # {} PROVE FALSE
    OBVIOUS
  <2>1. PICK k \in B : \A m \in B : k <= m
    BY LeastNat
  <2>2. k \in 1..Len(table) /\ k - 1 \in 1..Len(table) /\ (k - 1) + 1 = k /\ k - 1 \in Nat
        /\ ~ (k <= k - 1)
    BY <1>1, <2>1
  <2>3. EntryOffset(table, k - 1) < EntryOffset(table, k)
    BY <2>2, OffsetStep
  <2>4. /\ EntryOffset(table, i) \in Nat /\ EntryOffset(table, k) \in Nat
        /\ EntryOffset(table, k - 1) \in Nat
    <3>1. i \in 1..Len(table) + 1 /\ k \in 1..Len(table) + 1 /\ k - 1 \in 1..Len(table) + 1
      BY <1>1, <2>2
    <3> QED
      BY <3>1, OffsetStep
  <2>5. CASE k = i + 1
    <3>1. k - 1 = i
      BY <2>5
    <3> QED
      BY <2>1, <2>3, <3>1
  <2>6. CASE k # i + 1
    <3>1. k - 1 \in i + 1..Len(table)
      BY <1>1, <2>1, <2>6
    <3>2. EntryOffset(table, i) < EntryOffset(table, k - 1)
      BY <2>1, <2>2, <3>1
    <3> QED
      BY <2>1, <2>3, <2>4, <3>2
  <2> QED
    BY <2>5, <2>6
<1> QED
  BY <1>1, <1>2

(* The entries that racs_sstable_read_in_memory and racs_memtable_entry_read  *)
(* find through the index are those that racs_memtable_write wrote.           *)
THEOREM ReadWritten ==
    ASSUME NEW table \in Seq(Entry)
    PROVE  SstableRead(SstableWrite(table)) = table
<1> DEFINE n == Len(table)
           file == SstableWrite(table)
           index == EntryOffset(table, n + 1)
<1>1. n \in Nat /\ table = [i \in 1..n |-> table[i]]
  BY LenProperties
<1>2. \A i \in 1..n : EntryOffset(table, i) \in Nat
  BY <1>1, OffsetStep
<1>3. index \in Nat
  <2>1. n + 1 \in 1..n + 1
    BY <1>1
  <2> QED
    BY <2>1, OffsetStep
<1>4. /\ file.count = n
      /\ file.size = index + n * 24 + 2
      /\ file.entryAt = [o \in {EntryOffset(table, i) : i \in 1..n} |->
                           table[CHOOSE i \in 1..n : EntryOffset(table, i) = o]]
      /\ file.indexAt = [o \in {index + (i - 1) * 24 : i \in 1..n} |->
                           EntryOffset(table, (o - index) \div 24 + 1)]
  BY DEF SstableWrite, IndexEntrySize, TrailerSize
<1> HIDE DEF index, file
<1>5. ASSUME NEW i \in 1..n
      PROVE  file.entryAt[file.indexAt[IndexOffset(file, i)]] = table[i]
  <2>1. IndexOffset(file, i) = index + (i - 1) * 24
    <3>1. \A x, k \in Nat : (x + k * 24 + 2) - k * 24 - 2 + (i - 1) * 24 = x + (i - 1) * 24
      BY <1>1
    <3> QED
      BY <1>1, <1>3, <1>4, <3>1 DEF IndexOffset, IndexEntrySize, TrailerSize
  <2>2. \A x \in Nat : \A o : o = x + (i - 1) * 24 => (o - x) \div 24 + 1 = i
    BY <1>1
  <2>3. file.indexAt[index + (i - 1) * 24] = EntryOffset(table, i)
    <3> DEFINE o == index + (i - 1) * 24
    <3>1. o \in {index + (k - 1) * 24 : k \in 1..n}
      OBVIOUS
    <3>2. (o - index) \div 24 + 1 = i
      BY <1>3, <2>2
    <3> HIDE DEF o
    <3>3. file.indexAt[o] = EntryOffset(table, (o - index) \div 24 + 1)
      BY <1>4, <3>1
    <3> QED
      BY <3>2, <3>3 DEF o
  <2> DEFINE k == CHOOSE k \in 1..n : EntryOffset(table, k) = EntryOffset(table, i)
  <2>4. file.entryAt[EntryOffset(table, i)] = table[k]
    BY <1>4
  <2>5. k \in 1..n /\ EntryOffset(table, k) = EntryOffset(table, i)
    OBVIOUS
  <2> HIDE DEF k
  <2>6. k = i
    <3>1. EntryOffset(table, i) \in Nat
      BY <1>2
    <3>2. ~ (k < i) /\ ~ (i < k)
      BY <2>5, <3>1, OffsetsIncrease
    <3> QED
      BY <1>1, <2>5, <3>2
  <2> QED
    BY <2>1, <2>3, <2>4, <2>6
<1>6. SstableRead(file) = [i \in 1..n |-> file.entryAt[file.indexAt[IndexOffset(file, i)]]]
  BY <1>4 DEF SstableRead
<1>7. SstableRead(file) = [i \in 1..n |-> table[i]]
  BY <1>5, <1>6
<1> QED
  BY <1>1, <1>7 DEF file

-----------------------------------------------------------------------------
(* What a query takes of a table *)

IsSelected(f, q, table) ==
    f = [i \in 0..Len(table) |->
            IF i = 0 THEN <<>>
            ELSE IF Asked(q, table[i]) THEN Append(f[i - 1], table[i]) ELSE f[i - 1]]

\* out has what q asks for of the first i entries, in their order.
Picked(out, q, table, i) ==
    /\ out \in Seq(Entry)
    /\ \A k \in 1..Len(out) : \E j \in 1..i : out[k] = table[j] /\ Asked(q, table[j])
    /\ \A j \in 1..i : Asked(q, table[j]) => \E k \in 1..Len(out) : out[k] = table[j]
    /\ \A k, m \in 1..Len(out) : k < m => out[k].id < out[m].id

(* One more entry.                                                            *)
LEMMA PickedStep ==
    ASSUME NEW q, NEW table \in Seq(Entry), NEW i \in 1..Len(table),
           \A j, k \in 1..Len(table) : j < k => table[j].id < table[k].id,
           NEW out, Picked(out, q, table, i - 1)
    PROVE  Picked(IF Asked(q, table[i]) THEN Append(out, table[i]) ELSE out, q, table, i)
<1>1. Len(table) \in Nat /\ table[i] \in Entry /\ i \in Nat
  BY LenProperties, ElementOfSeq
<1>2. out \in Seq(Entry) /\ Len(out) \in Nat
  BY LenProperties DEF Picked
<1>3. /\ 1..i - 1 \subseteq 1..i /\ i \in 1..i
      /\ \A j \in 1..i : j = i \/ j \in 1..i - 1
      /\ \A j \in 1..i - 1 : j < i /\ j \in 1..Len(table)
  BY <1>1
<1>4. CASE ~ Asked(q, table[i])
  <2>1. \A k \in 1..Len(out) : \E j \in 1..i : out[k] = table[j] /\ Asked(q, table[j])
    BY <1>3 DEF Picked
  <2>2. \A j \in 1..i : Asked(q, table[j]) => \E k \in 1..Len(out) : out[k] = table[j]
    BY <1>3, <1>4 DEF Picked
  <2>3. Picked(out, q, table, i)
    BY <2>1, <2>2 DEF Picked
  <2> QED
    BY <1>4, <2>3
<1>5. CASE Asked(q, table[i])
  <2> DEFINE new == Append(out, table[i])
  <2>1. /\ new \in Seq(Entry) /\ Len(new) = Len(out) + 1 /\ new[Len(out) + 1] = table[i]
        /\ \A k \in 1..Len(out) : new[k] = out[k]
    BY <1>1, <1>2, AppendProperties
  <2> HIDE DEF new
  <2>2. /\ 1..Len(new) = 1..Len(out) \cup {Len(out) + 1}
        /\ Len(out) + 1 \in 1..Len(new)
        /\ \A k \in 1..Len(new) : k = Len(out) + 1 \/ (k \in 1..Len(out) /\ k < Len(out) + 1)
        /\ \A k \in 1..Len(out) : k \in 1..Len(new)
    BY <1>2, <2>1
  <2>3. \A k \in 1..Len(new) : \E j \in 1..i : new[k] = table[j] /\ Asked(q, table[j])
    <3> TAKE k \in 1..Len(new)
    <3>1. CASE k = Len(out) + 1
      BY <1>3, <1>5, <2>1, <3>1
    <3>2. CASE k \in 1..Len(out)
      <4>1. PICK j \in 1..i - 1 : out[k] = table[j] /\ Asked(q, table[j])
        BY <3>2 DEF Picked
      <4> QED
        BY <1>3, <2>1, <3>2, <4>1
    <3> QED
      BY <2>2, <3>1, <3>2
  <2>4. \A j \in 1..i : Asked(q, table[j]) => \E k \in 1..Len(new) : new[k] = table[j]
    BY <1>3, <2>1, <2>2 DEF Picked
  <2>5. ASSUME NEW k \in 1..Len(new), NEW m \in 1..Len(new), k < m
        PROVE  new[k].id < new[m].id
    <3>1. k \in 1..Len(out)
      BY <1>2, <2>1, <2>5
    <3>2. CASE m = Len(out) + 1
      <4>1. PICK j \in 1..i - 1 : out[k] = table[j]
        BY <3>1 DEF Picked
      <4>2. table[j].id < table[i].id
        BY <1>3
      <4> QED
        BY <2>1, <3>1, <3>2, <4>1, <4>2
    <3>3. CASE m \in 1..Len(out)
      BY <2>1, <2>5, <3>1, <3>3 DEF Picked
    <3> QED
      BY <2>2, <3>2, <3>3
  <2>6. Picked(new, q, table, i)
    BY <2>1, <2>3, <2>4, <2>5 DEF Picked
  <2> QED
    BY <1>5, <2>6 DEF new
<1> QED
  BY <1>4, <1>5

(* The loop over the entries of a table takes those the query asks for, in    *)
(* their order.                                                               *)
LEMMA SelectedEntries ==
    ASSUME NEW q, NEW table \in Seq(Entry),
           \A j, k \in 1..Len(table) : j < k => table[j].id < table[k].id
    PROVE  Picked(Selected(q, table), q, table, Len(table))
<1> DEFINE n == Len(table)
           step == [i \in 1..n |-> [x \in Seq(Entry) |->
                        IF Asked(q, table[i]) THEN Append(x, table[i]) ELSE x]]
           g == CHOOSE g : IsSelected(g, q, table)
<1>1. n \in Nat /\ \A i \in 1..n : table[i] \in Entry
  BY LenProperties, ElementOfSeq
<1>2. step \in [1..n -> [Seq(Entry) -> Seq(Entry)]] /\ <<>> \in Seq(Entry)
  <2>1. \A i \in 1..n : \A x \in Seq(Entry) :
            (IF Asked(q, table[i]) THEN Append(x, table[i]) ELSE x) \in Seq(Entry)
    BY <1>1, AppendProperties
  <2> QED
    BY <2>1
<1>3. PICK f : Iterates(f, Seq(Entry), <<>>, step, n)
  <2> HIDE DEF step, n
  <2> QED
    BY <1>1, <1>2, IteratesExist
<1>4. IsSelected(f, q, table)
  <2>1. f \in [0..n -> Seq(Entry)] /\ f[0] = <<>>
    BY <1>3 DEF Iterates
  <2>2. \A i \in 1..n : f[i] = IF Asked(q, table[i]) THEN Append(f[i - 1], table[i]) ELSE f[i - 1]
    <3> TAKE i \in 1..n
    <3>1. i - 1 \in 0..n
      BY <1>1
    <3>2. f[i - 1] \in Seq(Entry)
      BY <2>1, <3>1
    <3>3. f[i] = step[i][f[i - 1]]
      BY <1>3 DEF Iterates
    <3> QED
      BY <3>2, <3>3
  <2>3. \A i \in 0..n : i # 0 => i \in 1..n
    BY <1>1
  <2>4. \A i \in 0..n : f[i] = IF i = 0 THEN <<>>
            ELSE IF Asked(q, table[i]) THEN Append(f[i - 1], table[i]) ELSE f[i - 1]
    BY <2>1, <2>2, <2>3
  <2> QED
    BY <2>1, <2>4 DEF IsSelected
<1>5. IsSelected(g, q, table) /\ Selected(q, table) = g[n]
  BY <1>4 DEF Selected, IsSelected
<1> HIDE DEF g, step
<1>6. \A i \in 0..n : g[i] = IF i = 0 THEN <<>>
          ELSE IF Asked(q, table[i]) THEN Append(g[i - 1], table[i]) ELSE g[i - 1]
  BY <1>5 DEF IsSelected
<1> DEFINE B == {i \in Nat : i \in 0..n /\ ~ Picked(g[i], q, table, i)}
<1>7. Picked(g[0], q, table, 0)
  <2>1. g[0] = <<>>
    BY <1>1, <1>6
  <2> QED
    BY <2>1 DEF Picked
<1>8. B = {}
  <2> SUFFICES ASSUME B # {} PROVE FALSE
    OBVIOUS
  <2>1. PICK i \in B : \A k \in B : i <= k
    BY LeastNat
  <2>2. i # 0 /\ i \in 1..n /\ i \in 0..n /\ i - 1 \in Nat /\ i - 1 \in 0..n /\ ~ (i <= i - 1)
    BY <1>1, <1>7, <2>1
  <2>3. Picked(g[i - 1], q, table, i - 1)
    BY <2>1, <2>2
  <2>4. g[i] = IF Asked(q, table[i]) THEN Append(g[i - 1], table[i]) ELSE g[i - 1]
    BY <1>6, <2>2
  <2>5. Picked(g[i], q, table, i)
    BY <2>2, <2>3, <2>4, PickedStep
  <2> QED
    BY <2>1, <2>5
<1> QED
  BY <1>1, <1>5, <1>8

-----------------------------------------------------------------------------
(* The store *)

(* An append leaves the tables handed over as they were.                      *)
LEMMA ChunksKept ==
    ASSUME NEW c \in Nat, LogTyped, Split(c), NEW e \in Entry, log' = Append(log, e)
    PROVE  \A a \in 0..c - 1 : Chunk(a)' = Chunk(a) /\ Name(a)' = Name(a)
<1> TAKE a \in 0..c - 1
<1>1. \A i \in 1..Len(log) : log'[i] = log[i]
  BY AppendProperties DEF LogTyped
<1>2. \A i \in 1..TableSize : a * TableSize + i \in 1..Len(log)
  BY ChunkEntries
<1>3. 1 \in 1..TableSize
  BY Sizes
<1>4. \A i \in 1..TableSize : log'[a * TableSize + i] = log[a * TableSize + i]
  BY <1>1, <1>2
<1> QED
  BY <1>3, <1>4 DEF Chunk, Name

(* A full memtable is the next table.                                         *)
LEMMA FullTable ==
    ASSUME NEW c \in Nat, LogTyped, Split(c), Len(mem) >= TableSize
    PROVE  Len(mem) = TableSize /\ mem = Chunk(c)
<1>1. Len(mem) = TableSize
  BY Sizes, LenProperties DEF Split
<1>2. mem = [i \in 1..Len(mem) |-> mem[i]]
  BY LenProperties DEF Split
<1> QED
  BY <1>1, <1>2 DEF Chunk, Split

(* The entry of an append.                                                    *)
LEMMA NewEntry ==
    ASSUME LogTyped, Clocked, NEW s \in Streams, NEW k \in Kinds, NEW e,
           e = [id |-> Len(log) + 1, stream |-> s, ts |-> Timestamp(s),
                bytes |-> Bytes[k], audio |-> Audio[k]],
           log' = Append(log, e), offsets' = [offsets EXCEPT ![s] = @ + Audio[k]]
    PROVE  e \in Entry /\ LogTyped' /\ Clocked'
<1>1. /\ Len(log) \in Nat /\ Ref[s] \in Nat /\ offsets[s] \in Nat
      /\ Audio[k] \in Nat /\ Bytes[k] \in Nat
  BY RangeAssumption, LenProperties DEF LogTyped
<1>2. e \in Entry
  BY <1>1 DEF Entry, Timestamp
<1>3. /\ log' \in Seq(Entry) /\ Len(log') = Len(log) + 1 /\ log'[Len(log) + 1] = e
      /\ \A i \in 1..Len(log) : log'[i] = log[i]
  BY <1>2, AppendProperties DEF LogTyped
<1>4. \A i \in 1..Len(log') : i = Len(log) + 1 \/ i \in 1..Len(log)
  BY <1>1, <1>3
<1>5. offsets' \in [Streams -> Nat]
  BY <1>1 DEF LogTyped
<1>6. LogTyped'
  BY <1>2, <1>3, <1>4, <1>5 DEF LogTyped
<1>7. \A r \in Streams : /\ Ref[r] + offsets[r] \in Nat /\ Ref[r] + offsets'[r] \in Nat
                         /\ Ref[r] + offsets[r] <= Ref[r] + offsets'[r]
  <2> TAKE r \in Streams
  <2>1. Ref[r] \in Nat /\ offsets[r] \in Nat /\ offsets'[r] \in Nat /\ offsets[r] <= offsets'[r]
    BY <1>1, <1>5, RangeAssumption DEF LogTyped
  <2> QED
    BY <2>1
<1>8. \A i \in 1..Len(log) : log[i].stream \in Streams /\ log[i].ts \in Nat
  <2>1. \A i \in 1..Len(log) : log[i] \in Entry
    BY ElementOfSeq DEF LogTyped
  <2> QED
    BY <2>1 DEF Entry
<1>9. e.stream = s /\ e.ts = Ref[s] + offsets[s]
  BY DEF Timestamp
<1>10. \A i \in 1..Len(log) : log[i].ts <= Ref[log[i].stream] + offsets[log[i].stream]
  BY DEF Clocked, Timestamp
<1>11. ASSUME NEW i \in 1..Len(log')
       PROVE  log'[i].ts <= Ref[log'[i].stream] + offsets'[log'[i].stream]
  <2>1. CASE i = Len(log) + 1
    BY <1>3, <1>7, <1>9, <2>1
  <2>2. CASE i \in 1..Len(log)
    <3> DEFINE r == log[i].stream
    <3>1. r \in Streams /\ log[i].ts \in Nat /\ log[i].ts <= Ref[r] + offsets[r]
      BY <1>8, <1>10, <2>2
    <3>2. log'[i] = log[i]
      BY <1>3, <2>2
    <3> HIDE DEF r
    <3>3. log[i].ts <= Ref[r] + offsets'[r]
      BY <1>7, <3>1
    <3> QED
      BY <3>2, <3>3 DEF r
  <2> QED
    BY <1>4, <2>1, <2>2
<1>12. ASSUME NEW i \in 1..Len(log'), NEW j \in 1..Len(log'), i < j,
              log'[i].stream = log'[j].stream
       PROVE  log'[i].ts <= log'[j].ts
  <2>1. i \in 1..Len(log) /\ log'[i] = log[i]
    BY <1>1, <1>3, <1>12
  <2>2. CASE j = Len(log) + 1
    BY <1>3, <1>9, <1>10, <1>12, <2>1, <2>2
  <2>3. CASE j \in 1..Len(log)
    BY <1>3, <1>12, <2>1, <2>3 DEF Clocked
  <2> QED
    BY <1>4, <2>2, <2>3
<1>13. Clocked'
  BY <1>11, <1>12 DEF Clocked, Timestamp
<1> QED
  BY <1>2, <1>6, <1>13

(* The memtable stays behind the tables handed over.                          *)
LEMMA AppendSplit ==
    ASSUME NEW c \in Nat, LogTyped, Split(c), NEW e \in Entry, log' = Append(log, e),
           NEW d \in Nat, d = IF Full THEN c + 1 ELSE c,
           mem' = IF Full THEN <<e>> ELSE Append(mem, e)
    PROVE  Split(d)'
<1>1. /\ Len(log) \in Nat /\ Len(mem) \in Nat /\ TableSize \in Nat /\ TableSize >= 1
      /\ Len(mem) <= TableSize /\ Len(log) = c * TableSize + Len(mem)
      /\ log \in Seq(Entry) /\ mem \in Seq(Entry)
  BY Sizes, LenProperties DEF LogTyped, Split
<1>2. /\ log' \in Seq(Entry) /\ Len(log') = Len(log) + 1 /\ log'[Len(log) + 1] = e
      /\ \A i \in 1..Len(log) : log'[i] = log[i]
  BY AppendProperties DEF LogTyped
<1>3. c * TableSize \in Nat /\ (c + 1) * TableSize = c * TableSize + TableSize
  <2>1. \A x, y \in Nat : x * y \in Nat /\ (x + 1) * y = x * y + y
    OBVIOUS
  <2> QED
    BY <1>1, <2>1
<1>4. CASE Full
  <2>1. Len(mem) = TableSize /\ mem' = <<e>> /\ d = c + 1
    BY <1>1, <1>4 DEF Full
  <2>2. mem' \in Seq(Entry) /\ Len(mem') = 1 /\ mem'[1] = e
    BY <2>1
  <2>3. Len(log') = d * TableSize + 1 /\ d * TableSize + 1 = Len(log) + 1
    BY <1>1, <1>2, <1>3, <2>1
  <2>4. \A i \in 1..Len(mem') : mem'[i] = log'[d * TableSize + i]
    <3> TAKE i \in 1..Len(mem')
    <3>1. i = 1
      BY <2>2
    <3> QED
      BY <1>2, <2>2, <2>3, <3>1
  <2> QED
    BY <1>1, <2>2, <2>3, <2>4 DEF Split
<1>5. CASE ~ Full
  <2>1. Len(mem) + 1 <= TableSize /\ mem' = Append(mem, e) /\ d = c
    BY <1>1, <1>5 DEF Full
  <2>2. /\ mem' \in Seq(Entry) /\ Len(mem') = Len(mem) + 1 /\ mem'[Len(mem) + 1] = e
        /\ \A i \in 1..Len(mem) : mem'[i] = mem[i]
    BY <1>1, <2>1, AppendProperties
  <2>3. Len(log') = c * TableSize + Len(mem')
    <3>1. \A x, y \in Nat : (x + y) + 1 = x + (y + 1)
      OBVIOUS
    <3> QED
      BY <1>1, <1>2, <1>3, <2>2, <3>1
  <2>4. ASSUME NEW i \in 1..Len(mem') PROVE mem'[i] = log'[c * TableSize + i]
    <3>1. CASE i = Len(mem) + 1
      <4>1. c * TableSize + i = Len(log) + 1
        BY <1>1, <1>3, <3>1
      <4> QED
        BY <1>2, <2>2, <3>1, <4>1
    <3>2. CASE i \in 1..Len(mem)
      <4>1. c * TableSize + i \in 1..Len(log)
        BY <1>1, <1>3, <3>2
      <4>2. mem[i] = log[c * TableSize + i]
        BY <3>2 DEF Split
      <4> QED
        BY <1>2, <2>2, <3>2, <4>1, <4>2
    <3> QED
      BY <1>1, <2>2, <3>1, <3>2
  <2> QED
    BY <2>1, <2>2, <2>3, <2>4 DEF Split
<1> QED
  BY <1>4, <1>5

(* racs_stream_append keeps the store.                                        *)
LEMMA AppendStore ==
    ASSUME NEW c \in Nat, StoreInv(c), NEW s \in Streams, NEW k \in Kinds, Append_(s, k)
    PROVE  \E d \in Nat : StoreInv(d)'
<1> DEFINE e == [id |-> Len(log) + 1, stream |-> s, ts |-> Timestamp(s),
                 bytes |-> Bytes[k], audio |-> Audio[k]]
<1>0. PICK d \in Nat : d = IF Full THEN c + 1 ELSE c
  OBVIOUS
<1>1. /\ log' = Append(log, e) /\ mem' = IF Full THEN <<e>> ELSE Append(mem, e)
      /\ flights' = IF Full THEN flights \cup {mem} ELSE flights
      /\ offsets' = [offsets EXCEPT ![s] = @ + Audio[k]]
      /\ UNCHANGED <<seg, order, value>>
  BY DEF Append_
<1>2. LogTyped /\ Clocked /\ Split(c) /\ Tables(c) /\ Cached(c)
  BY DEF StoreInv
<1>3. 0..c - 1 \subseteq 0..d - 1
  BY <1>0
<1>4. e \in Entry /\ LogTyped' /\ Clocked'
  BY <1>1, <1>2, NewEntry
<1> HIDE DEF e
<1>5. Split(d)'
  BY <1>0, <1>1, <1>2, <1>4, AppendSplit
<1>6. \A a \in 0..c - 1 : Chunk(a)' = Chunk(a) /\ Name(a)' = Name(a)
  BY <1>1, <1>2, <1>4, ChunksKept
<1>7. Full => c \in 0..d - 1 /\ Chunk(c)' = mem
  <2> SUFFICES ASSUME Full PROVE c \in 0..d - 1 /\ Chunk(c)' = mem
    OBVIOUS
  <2>1. Len(mem) = TableSize /\ mem = Chunk(c)
    BY <1>2, FullTable DEF Full
  <2>2. \A i \in 1..TableSize : log'[c * TableSize + i] = log[c * TableSize + i]
    <3> TAKE i \in 1..TableSize
    <3>1. TableSize \in Nat /\ c * TableSize \in Nat /\ Len(log) = c * TableSize + TableSize
      <4>1. \A x, y \in Nat : x * y \in Nat
        OBVIOUS
      <4> QED
        BY <1>2, <2>1, <4>1, Sizes DEF Split
    <3>2. c * TableSize + i \in 1..Len(log)
      BY <3>1
    <3>3. \A j \in 1..Len(log) : log'[j] = log[j]
      BY <1>1, <1>2, <1>4, AppendProperties DEF LogTyped
    <3> QED
      BY <3>2, <3>3
  <2>3. Chunk(c)' = Chunk(c)
    BY <2>2 DEF Chunk
  <2>4. c \in 0..d - 1
    BY <1>0
  <2> QED
    BY <2>1, <2>3, <2>4
<1>8. \A a \in 0..d - 1 : a \in 0..c - 1 \/ (Full /\ a = c)
  BY <1>0
<1>10. Tables(d)'
  <2>1. \A x \in flights' : \E a \in 0..d - 1 : x = Chunk(a)'
    <3> TAKE x \in flights'
    <3>1. CASE x \in flights
      <4>1. PICK a \in 0..c - 1 : x = Chunk(a)
        BY <1>2, <3>1 DEF Tables
      <4> QED
        BY <1>3, <1>6, <4>1
    <3>2. CASE x \notin flights
      <4>1. Full /\ x = mem
        BY <1>1, <3>2
      <4> QED
        BY <1>7, <4>1
    <3> QED
      BY <3>1, <3>2
  <2>2. \A t \in DOMAIN seg' : t \in Nat /\ FileOf(seg[t], t, d)'
    <3> TAKE t \in DOMAIN seg'
    <3>1. seg' = seg /\ t \in Nat /\ FileOf(seg[t], t, c)
      BY <1>1, <1>2 DEF Tables
    <3>2. FileOf(seg[t], t, d)'
      <4>1. PICK a \in 0..c - 1 : seg[t] = SstableWrite(Chunk(a)) /\ Name(a) = t
        BY <3>1 DEF FileOf
      <4>2. a \in 0..d - 1 /\ Chunk(a)' = Chunk(a) /\ Name(a)' = Name(a)
        BY <1>3, <1>6
      <4>3. \E b \in 0..d - 1 : seg'[t] = SstableWrite(Chunk(b)') /\ Name(b)' = t
        BY <3>1, <4>1, <4>2
      <4> QED
        BY <4>3 DEF FileOf
    <3> QED
      BY <3>1, <3>2
  <2>3. \A a \in 0..d - 1 : Chunk(a)' \in flights' \/ Name(a)' \in DOMAIN seg'
    <3> TAKE a \in 0..d - 1
    <3>1. CASE a \in 0..c - 1
      BY <1>1, <1>2, <1>6, <3>1 DEF Tables
    <3>2. CASE Full /\ a = c
      BY <1>1, <1>7, <3>2
    <3> QED
      BY <1>8, <3>1, <3>2
  <2> QED
    BY <2>1, <2>2, <2>3 DEF Tables
<1>11. Cached(d)'
  <2>1. ASSUME NEW key \in DOMAIN value' 
        PROVE  key[2] \in DOMAIN seg' /\ FileOf(value[key], key[2], d)'
    <3>1. value' = value /\ seg' = seg /\ key[2] \in DOMAIN seg /\ FileOf(value[key], key[2], c)
      BY <1>1, <1>2 DEF Cached
    <3>2. PICK a \in 0..c - 1 : value[key] = SstableWrite(Chunk(a)) /\ Name(a) = key[2]
      BY <3>1 DEF FileOf
    <3>3. a \in 0..d - 1 /\ Chunk(a)' = Chunk(a) /\ Name(a)' = Name(a)
      BY <1>3, <1>6
    <3>4. \E b \in 0..d - 1 : value'[key] = SstableWrite(Chunk(b)') /\ Name(b)' = key[2]
      BY <3>1, <3>2, <3>3
    <3> QED
      BY <3>1, <3>4 DEF FileOf
  <2>2. order' \in Seq(DOMAIN value')
    BY <1>1, <1>2 DEF Cached
  <2> QED
    BY <2>1, <2>2 DEF Cached
<1>12. StoreInv(d)'
  BY <1>4, <1>5, <1>10, <1>11 DEF StoreInv
<1> QED
  BY <1>12

(* A file renamed into place keeps the store.                                 *)
LEMMA RenameStore ==
    ASSUME NEW c \in Nat, StoreInv(c), NEW x \in flights, FlushRename(x)
    PROVE  StoreInv(c)' /\ DOMAIN seg \subseteq DOMAIN seg'
<1>1. /\ flights' = flights \ {x}
      /\ seg' = [t \in DOMAIN seg \cup {x[1].ts} |->
                    IF t = x[1].ts THEN SstableWrite(x) ELSE seg[t]]
      /\ UNCHANGED <<mem, offsets, order, value, log>>
  BY DEF FlushRename
<1>2. LogTyped /\ Clocked /\ Split(c) /\ Tables(c) /\ Cached(c)
  BY DEF StoreInv
<1>3. LogTyped' /\ Clocked' /\ Split(c)'
  BY <1>1, <1>2 DEF LogTyped, Clocked, Split, Timestamp
<1>4. \A a : Chunk(a)' = Chunk(a) /\ Name(a)' = Name(a)
  BY <1>1 DEF Chunk, Name
<1>5. PICK b \in 0..c - 1 : x = Chunk(b)
  BY <1>2 DEF Tables
<1>6. \A a \in 0..c - 1 : Chunk(a)[1].ts = Name(a) /\ Name(a) \in Nat
  BY <1>2, ChunkEntries
<1>7. Tables(c)'
  <2>1. \A y \in flights' : \E a \in 0..c - 1 : y = Chunk(a)'
    BY <1>1, <1>2, <1>4 DEF Tables
  <2>2. ASSUME NEW t \in DOMAIN seg' PROVE t \in Nat /\ FileOf(seg[t], t, c)'
    <3>1. CASE t = x[1].ts
      <4>1. t = Name(b) /\ t \in Nat /\ seg'[t] = SstableWrite(Chunk(b))
        BY <1>1, <1>5, <1>6, <3>1
      <4>2. \E a \in 0..c - 1 : seg'[t] = SstableWrite(Chunk(a)') /\ Name(a)' = t
        BY <1>4, <4>1
      <4> QED
        BY <4>1, <4>2 DEF FileOf
    <3>2. CASE t # x[1].ts
      <4>1. t \in DOMAIN seg /\ seg'[t] = seg[t]
        BY <1>1, <3>2
      <4>2. t \in Nat /\ \E a \in 0..c - 1 : seg[t] = SstableWrite(Chunk(a)) /\ Name(a) = t
        BY <1>2, <4>1 DEF Tables, FileOf
      <4>3. \E a \in 0..c - 1 : seg'[t] = SstableWrite(Chunk(a)') /\ Name(a)' = t
        BY <1>4, <4>1, <4>2
      <4> QED
        BY <4>2, <4>3 DEF FileOf
    <3> QED
      BY <3>1, <3>2
  <2>3. ASSUME NEW a \in 0..c - 1 PROVE Chunk(a)' \in flights' \/ Name(a)' \in DOMAIN seg'
    <3>1. CASE Chunk(a) = x
      BY <1>1, <1>4, <1>6, <3>1
    <3>2. CASE Chunk(a) # x
      BY <1>1, <1>2, <1>4, <3>2 DEF Tables
    <3> QED
      BY <3>1, <3>2
  <2> QED
    BY <2>1, <2>2, <2>3 DEF Tables
<1>8. Cached(c)'
  BY <1>1, <1>2 DEF Cached, FileOf, Chunk, Name
<1> QED
  BY <1>1, <1>3, <1>7, <1>8 DEF StoreInv

\* A state with the same blocks and files.
SameFiles == UNCHANGED <<mem, flights, seg, offsets, log>>

(* Only the cache may change the store then.                                  *)
LEMMA SameStore ==
    ASSUME NEW c \in Nat, StoreInv(c), SameFiles, Cached(c)'
    PROVE  StoreInv(c)'
<1>1. LogTyped' /\ Clocked' /\ Split(c)'
  BY DEF StoreInv, SameFiles, LogTyped, Clocked, Split, Timestamp
<1>2. \A a : Chunk(a)' = Chunk(a) /\ Name(a)' = Name(a)
  BY DEF SameFiles, Chunk, Name
<1>3. \A t \in DOMAIN seg' : t \in Nat /\ FileOf(seg[t], t, c)'
  BY <1>2 DEF StoreInv, SameFiles, Tables, FileOf
<1>4. /\ \A x \in flights' : \E a \in 0..c - 1 : x = Chunk(a)'
      /\ \A a \in 0..c - 1 : Chunk(a)' \in flights' \/ Name(a)' \in DOMAIN seg'
  BY <1>2 DEF StoreInv, SameFiles, Tables
<1>5. Tables(c)'
  BY <1>3, <1>4 DEF Tables
<1> QED
  BY <1>1, <1>5 DEF StoreInv

(* A hit changes the order of the keys only.                                  *)
LEMMA UseCache ==
    ASSUME NEW c \in Nat, StoreInv(c), SameFiles, NEW key, Cache!Use(key)
    PROVE  key \in DOMAIN value /\ StoreInv(c)'
<1> DEFINE S == DOMAIN value
<1>1. order \in Seq(S) /\ Len(order) \in Nat /\ DOMAIN order = 1..Len(order) /\ value' = value
  BY LenProperties DEF StoreInv, Cached, Cache!Use
<1>2. PICK i \in 1..Len(order) :
          /\ order[i] = key
          /\ order' = <<key>> \o (SubSeq(order, 1, i - 1) \o SubSeq(order, i + 1, Len(order)))
  BY <1>1 DEF Cache!Use, Cache!RemoveAt
<1>3. key \in S
  BY <1>1, <1>2, ElementOfSeq
<1>4. SubSeq(order, 1, i - 1) \in Seq(S)
  <2>1. \A k \in 1..i - 1 : k \in 1..Len(order)
    BY <1>1
  <2> QED
    BY <1>1, <2>1, SubSeqProperties
<1>5. SubSeq(order, i + 1, Len(order)) \in Seq(S)
  <2>1. \A k \in i + 1..Len(order) : k \in 1..Len(order)
    BY <1>1
  <2> QED
    BY <1>1, <2>1, SubSeqProperties
<1>6. order' \in Seq(S)
  <2>1. <<key>> \in Seq(S)
    BY <1>3
  <2> QED
    BY <1>2, <1>4, <1>5, <2>1, ConcatProperties
<1>7. Cached(c)'
  <2>1. \A k \in DOMAIN value : k[2] \in DOMAIN seg /\ FileOf(value[k], k[2], c)
    BY DEF StoreInv, Cached
  <2>2. \A k \in DOMAIN value' : k[2] \in DOMAIN seg' /\ FileOf(value[k], k[2], c)'
    BY <1>1, <2>1 DEF SameFiles, FileOf, Chunk, Name
  <2> QED
    BY <1>1, <1>6, <2>2 DEF Cached
<1> QED
  BY <1>3, <1>7, SameStore

(* A miss puts a file under its name.                                         *)
LEMMA InsertCache ==
    ASSUME NEW c \in Nat, StoreInv(c), SameFiles, NEW key, key[2] \in DOMAIN seg,
           Cache!Insert(key, seg[key[2]])
    PROVE  StoreInv(c)'
<1> DEFINE S == DOMAIN value
           m == IF Len(order) < CacheSize THEN Len(order) + 1 ELSE CacheSize
           all == <<key>> \o order
<1>1. order \in Seq(S) /\ Len(order) \in Nat
  BY LenProperties DEF StoreInv, Cached
<1>2. /\ order' = SubSeq(all, 1, m)
      /\ value' = [k \in Cache!Range(order') |-> IF k = key THEN seg[key[2]] ELSE value[k]]
  BY DEF Cache!Insert
<1>3. all \in Seq(S \cup {key}) /\ Len(all) = Len(order) + 1
  <2>1. <<key>> \in Seq(S \cup {key}) /\ order \in Seq(S \cup {key}) /\ Len(<<key>>) = 1
    BY <1>1
  <2> QED
    BY <1>1, <2>1, ConcatProperties
<1>4. m \in 1..Len(order) + 1
  BY <1>1, Sizes
<1> HIDE DEF all, m
<1>5. order' \in Seq(S \cup {key}) /\ Len(order') \in Nat
  BY <1>1, <1>2, <1>3, <1>4, SubSeqProperties
<1>6. DOMAIN value' \subseteq S \cup {key} /\ order' \in Seq(DOMAIN value')
  <2>1. DOMAIN order' = 1..Len(order') /\ \A i \in 1..Len(order') : order'[i] \in S \cup {key}
    BY <1>5, LenProperties, ElementOfSeq
  <2>2. DOMAIN value' = {order'[i] : i \in DOMAIN order'}
    BY <1>2 DEF Cache!Range
  <2>3. order' \in Seq(DOMAIN value')
    BY <1>5, <2>1, <2>2, LenProperties
  <2> QED
    BY <2>1, <2>2, <2>3
<1>7. ASSUME NEW k \in DOMAIN value' PROVE k[2] \in DOMAIN seg /\ FileOf(value'[k], k[2], c)
  <2>1. k \in Cache!Range(order')
    BY <1>2
  <2>2. CASE k = key
    BY <1>2, <2>1, <2>2 DEF StoreInv, Tables
  <2>3. CASE k # key
    BY <1>2, <1>6, <2>1, <2>3 DEF StoreInv, Cached
  <2> QED
    BY <2>2, <2>3
<1>8. Cached(c)'
  <2>1. \A k \in DOMAIN value' : k[2] \in DOMAIN seg' /\ FileOf(value[k], k[2], c)'
    BY <1>7 DEF SameFiles, FileOf, Chunk, Name
  <2> QED
    BY <1>6, <2>1 DEF Cached
<1> QED
  BY <1>8, SameStore

-----------------------------------------------------------------------------
(* Answers *)

\* A state with the same blocks and with every file name there was.
MoreFiles == UNCHANGED <<mem, log>> /\ DOMAIN seg \subseteq DOMAIN seg'

(* The answer of a query is one in the next state.                            *)
LEMMA QueryKept ==
    ASSUME NEW c \in Nat, MoreFiles, Answer(query', 0, c)
    PROVE  Answer(query, 0, c)'
<1>1. log' = log /\ DOMAIN seg \subseteq DOMAIN seg'
  BY DEF MoreFiles
<1>2. \A i \in 1..Len(query'.out) :
        Asked(query', query'.out[i]) /\ Origin(query, query.out[i], 0, c)'
  BY <1>1 DEF Answer, Origin, In, Name
<1>3. ASSUME NEW i \in 1..Len(query'.out), NEW j \in 1..Len(query'.out), i < j
      PROVE  Before(query.out[i], query.out[j], c)'
  <2> DEFINE d == query.out[i]  e == query.out[j]
  <2>1. Before(d', e', c)
    BY <1>3 DEF Answer
  <2>2. \A a : Name(a)' = Name(a)
    BY <1>1 DEF Name
  <2>3. \A a : (In(a, d') => In(a, d)') /\ (In(a, e') => In(a, e)')
    BY <1>1 DEF In
  <2>4. \/ d'.id < e'.id
        \/ \E a, b \in 0..c - 1 : /\ In(a, d)' /\ In(b, e)' /\ Name(a)' < Name(b)'
                                   /\ Name(a)' \in DOMAIN seg' /\ Name(b)' \in DOMAIN seg'
    BY <1>1, <2>1, <2>2, <2>3 DEF Before
  <2> QED
    BY <2>4 DEF Before
<1>4. \A a \in 0..c - 1 : Handled(query, a, c)'
  BY <1>1 DEF Answer, Handled, Shown, Asked, InRange, Chunk, Name
<1>5. \A k \in 1..0 : Shown(query, log[c * TableSize + k])'
  OBVIOUS
<1>6. Fields(query') /\ query'.files \subseteq DOMAIN seg'
  BY <1>1 DEF Answer
<1> QED
  BY <1>2, <1>3, <1>4, <1>5, <1>6 DEF Answer, Asked, InRange, Fields

(* The same for the query answered last.                                      *)
LEMMA ReplyKept ==
    ASSUME NEW c \in Nat, MoreFiles, Answer(reply', Len(mem), c)
    PROVE  Answer(reply, Len(mem), c)'
<1>1. log' = log /\ mem' = mem /\ DOMAIN seg \subseteq DOMAIN seg'
  BY DEF MoreFiles
<1>2. \A i \in 1..Len(reply'.out) :
        Asked(reply', reply'.out[i]) /\ Origin(reply, reply.out[i], Len(mem), c)'
  BY <1>1 DEF Answer, Origin, In, Name
<1>3. ASSUME NEW i \in 1..Len(reply'.out), NEW j \in 1..Len(reply'.out), i < j
      PROVE  Before(reply.out[i], reply.out[j], c)'
  <2> DEFINE d == reply.out[i]  e == reply.out[j]
  <2>1. Before(d', e', c)
    BY <1>3 DEF Answer
  <2>2. \A a : Name(a)' = Name(a)
    BY <1>1 DEF Name
  <2>3. \A a : (In(a, d') => In(a, d)') /\ (In(a, e') => In(a, e)')
    BY <1>1 DEF In
  <2>4. \/ d'.id < e'.id
        \/ \E a, b \in 0..c - 1 : /\ In(a, d)' /\ In(b, e)' /\ Name(a)' < Name(b)'
                                   /\ Name(a)' \in DOMAIN seg' /\ Name(b)' \in DOMAIN seg'
    BY <1>1, <2>1, <2>2, <2>3 DEF Before
  <2> QED
    BY <2>4 DEF Before
<1>4. \A a \in 0..c - 1 : Handled(reply, a, c)'
  BY <1>1 DEF Answer, Handled, Shown, Asked, InRange, Chunk, Name
<1>5. \A k \in 1..Len(mem') : Shown(reply, log[c * TableSize + k])'
  BY <1>1 DEF Answer, Shown, Asked, InRange
<1>6. Fields(reply') /\ reply'.files \subseteq DOMAIN seg'
  BY <1>1 DEF Answer
<1> QED
  BY <1>2, <1>3, <1>4, <1>5, <1>6 DEF Answer, Asked, InRange, Fields

\* r is the query q with more in its output.
Grown(r, q, more) ==
    /\ Fields(q) /\ Fields(r) /\ more \in Seq(Entry)
    /\ r.stream = q.stream /\ r.from = q.from /\ r.to = q.to /\ r.unseen = q.unseen
    /\ r.out = q.out \o more

\* Where the entries of r are, and what is the same for q and r.
Places(r, q, more) ==
    /\ Len(q.out) \in Nat /\ Len(more) \in Nat /\ Len(r.out) = Len(q.out) + Len(more)
    /\ \A i \in 1..Len(q.out) : i \in 1..Len(r.out) /\ r.out[i] = q.out[i]
    /\ \A k \in 1..Len(more) : /\ Len(q.out) + k \in 1..Len(r.out)
                               /\ r.out[Len(q.out) + k] = more[k]
    /\ \A i \in 1..Len(r.out) :
            i \in 1..Len(q.out) \/ \E k \in 1..Len(more) : i = Len(q.out) + k
    /\ \A e : Asked(r, e) <=> Asked(q, e)
    /\ \A e : Shown(q, e) => Shown(r, e)
    /\ \A t : InRange(r, t) <=> InRange(q, t)

(* A longer output begins with the shorter one.                               *)
LEMMA GrownOut ==
    ASSUME NEW q, NEW r, NEW more, Grown(r, q, more)
    PROVE  Places(r, q, more)
<1>1. q.out \in Seq(Entry) /\ more \in Seq(Entry) /\ Len(q.out) \in Nat /\ Len(more) \in Nat
  BY LenProperties DEF Grown, Fields
<1>2. /\ Len(r.out) = Len(q.out) + Len(more)
      /\ \A i \in 1..Len(q.out) + Len(more) :
            r.out[i] = IF i <= Len(q.out) THEN q.out[i] ELSE more[i - Len(q.out)]
  BY <1>1, ConcatProperties DEF Grown
<1>3. \A i \in 1..Len(q.out) : i \in 1..Len(r.out) /\ r.out[i] = q.out[i]
  BY <1>1, <1>2
<1>4. \A k \in 1..Len(more) : /\ Len(q.out) + k \in 1..Len(r.out)
                              /\ r.out[Len(q.out) + k] = more[k]
  <2> TAKE k \in 1..Len(more)
  <2>1. /\ Len(q.out) + k \in 1..Len(q.out) + Len(more) /\ ~ (Len(q.out) + k <= Len(q.out))
        /\ (Len(q.out) + k) - Len(q.out) = k
    BY <1>1
  <2> QED
    BY <1>2, <2>1
<1>5. \A i \in 1..Len(r.out) : i \in 1..Len(q.out) \/ \E k \in 1..Len(more) : i = Len(q.out) + k
  <2> TAKE i \in 1..Len(r.out)
  <2>1. i \in 1..Len(q.out) \/ (i - Len(q.out) \in 1..Len(more) /\ i = Len(q.out) + (i - Len(q.out)))
    BY <1>1, <1>2
  <2> QED
    BY <2>1
<1>6. /\ \A e : Asked(r, e) <=> Asked(q, e)
      /\ \A t : InRange(r, t) <=> InRange(q, t)
  BY DEF Grown, Asked, InRange
<1>7. \A e : Shown(q, e) => Shown(r, e)
  BY <1>3, <1>6 DEF Shown
<1> QED
  BY <1>1, <1>2, <1>3, <1>4, <1>5, <1>6, <1>7 DEF Places

(* The first file of the list.                                                *)
LEMMA FirstFile ==
    ASSUME NEW S \in SUBSET Nat, S # {}
    PROVE  Min(S) \in S /\ \A t \in S \ {Min(S)} : Min(S) < t
<1>1. \E x \in S : \A y \in S : x <= y
  BY LeastNat
<1> DEFINE x == Min(S)
<1>2. x \in S /\ \A y \in S : x <= y
  BY <1>1 DEF Min
<1> HIDE DEF x
<1>3. x \in S /\ \A t \in S \ {x} : x < t
  BY <1>2
<1> QED
  BY <1>3 DEF x

(* What is taken of a file.                                                   *)
LEMMA FilePicked ==
    ASSUME NEW c \in Nat, StoreInv(c), NEW b \in 0..c - 1, NEW q
    PROVE  /\ Picked(Selected(q, Chunk(b)), q, Chunk(b), TableSize)
           /\ SstableRead(SstableWrite(Chunk(b))) = Chunk(b)
           /\ \A k \in 1..TableSize : Chunk(b)[k] = log[b * TableSize + k]
<1>1. LogTyped /\ Split(c)
  BY DEF StoreInv
<1>2. /\ Chunk(b) \in Seq(Entry) /\ Len(Chunk(b)) = TableSize
      /\ \A k \in 1..TableSize :
            Chunk(b)[k].id = b * TableSize + k /\ Chunk(b)[k] = log[b * TableSize + k]
  BY <1>1, ChunkEntries
<1>3. b * TableSize \in Nat
  <2>1. TableSize \in Nat /\ 1 \in 1..TableSize
    BY Sizes
  <2> QED
    BY <2>1, Positions
<1>4. \A j, k \in 1..Len(Chunk(b)) : j < k => Chunk(b)[j].id < Chunk(b)[k].id
  BY <1>2, <1>3
<1> QED
  BY <1>2, <1>4, ReadWritten, SelectedEntries

(* A file read in its turn, from the cache or not.                            *)
LEMMA FileTaken ==
    ASSUME NEW c \in Nat, StoreInv(c), NEW q, NEW r, NEW t, NEW f, Answer(q, 0, c),
           t \in q.files, \A u \in q.files \ {t} : t < u, FileOf(f, t, c),
           Grown(r, q, Selected(q, SstableRead(f))), r.files = q.files \ {t}
    PROVE  Answer(r, 0, c)
<1>1. PICK b \in 0..c - 1 : f = SstableWrite(Chunk(b)) /\ Name(b) = t
  BY DEF FileOf
<1> DEFINE new == Selected(q, SstableRead(f))
<1>2. /\ Picked(new, q, Chunk(b), TableSize)
      /\ \A k \in 1..TableSize : Chunk(b)[k] = log[b * TableSize + k]
  BY <1>1, FilePicked
<1>3. Grown(r, q, new) /\ Places(r, q, new)
  BY GrownOut
<1> HIDE DEF new
<1>4. t \in DOMAIN seg /\ r.files \subseteq DOMAIN seg /\ Fields(r)
  BY <1>3 DEF Answer, Grown
<1>5. \A k \in 1..Len(new) : In(b, new[k]) /\ Asked(q, new[k])
  BY <1>2 DEF Picked, In
<1>6. ASSUME NEW i \in 1..Len(r.out) PROVE Asked(r, r.out[i]) /\ Origin(r, r.out[i], 0, c)
  <2>1. CASE i \in 1..Len(q.out)
    <3>1. Asked(q, q.out[i]) /\ Origin(q, q.out[i], 0, c)
      BY <2>1 DEF Answer
    <3>2. Origin(r, q.out[i], 0, c)
      BY <3>1 DEF Origin
    <3> QED
      BY <1>3, <2>1, <3>1, <3>2 DEF Places
  <2>2. ASSUME NEW k \in 1..Len(new), i = Len(q.out) + k
        PROVE  Asked(r, r.out[i]) /\ Origin(r, r.out[i], 0, c)
    <3>1. r.out[i] = new[k] /\ Asked(r, new[k])
      BY <1>3, <1>5, <2>2 DEF Places
    <3>2. Origin(r, new[k], 0, c)
      BY <1>1, <1>4, <1>5 DEF Origin
    <3> QED
      BY <3>1, <3>2
  <2> QED
    BY <1>3, <2>1, <2>2 DEF Places
<1>7. ASSUME NEW i \in 1..Len(r.out), NEW j \in 1..Len(r.out), i < j
      PROVE  Before(r.out[i], r.out[j], c)
  <2>1. CASE j \in 1..Len(q.out)
    <3>1. i \in 1..Len(q.out)
      BY <1>3, <1>7, <2>1 DEF Places
    <3>2. r.out[i] = q.out[i] /\ r.out[j] = q.out[j]
      BY <1>3, <2>1, <3>1 DEF Places
    <3> QED
      BY <1>7, <2>1, <3>1, <3>2 DEF Answer
  <2>2. ASSUME NEW m \in 1..Len(new), j = Len(q.out) + m, i \in 1..Len(q.out)
        PROVE  Before(r.out[i], r.out[j], c)
    <3>1. r.out[i] = q.out[i] /\ r.out[j] = new[m]
      BY <1>3, <2>2 DEF Places
    <3>2. Origin(q, q.out[i], 0, c)
      BY <2>2 DEF Answer
    <3>3. PICK a \in 0..c - 1 : In(a, q.out[i]) /\ Name(a) < t /\ Name(a) \in DOMAIN seg
      BY <3>2 DEF Origin
    <3> QED
      BY <1>1, <1>4, <1>5, <3>1, <3>3 DEF Before
  <2>3. ASSUME NEW k \in 1..Len(new), i = Len(q.out) + k,
               NEW m \in 1..Len(new), j = Len(q.out) + m
        PROVE  Before(r.out[i], r.out[j], c)
    <3>1. r.out[i] = new[k] /\ r.out[j] = new[m]
      BY <1>3, <2>3 DEF Places
    <3>2. k < m
      <4>1. Len(q.out) \in Nat
        BY <1>3 DEF Places
      <4>2. Len(q.out) + k < Len(q.out) + m
        BY <1>7, <2>3
      <4> QED
        BY <4>1, <4>2
    <3> QED
      BY <1>2, <3>1, <3>2 DEF Before, Picked
  <2> QED
    BY <1>3, <2>1, <2>2, <2>3 DEF Places
<1>8. ASSUME NEW a \in 0..c - 1 PROVE Handled(r, a, c)
  <2>1. Handled(q, a, c)
    BY DEF Answer
  <2>2. CASE Name(a) = t
    <3>1. ASSUME NEW k \in 1..TableSize PROVE Shown(r, log[b * TableSize + k])
      <4> DEFINE e == log[b * TableSize + k]
      <4> SUFFICES ASSUME Asked(r, e) PROVE \E i \in 1..Len(r.out) : r.out[i] = e
        BY DEF Shown
      <4>1. Asked(q, e) /\ Chunk(b)[k] = e
        BY <1>2, <1>3 DEF Places
      <4>2. PICK m \in 1..Len(new) : new[m] = e
        BY <1>2, <4>1 DEF Picked
      <4> QED
        BY <1>3, <4>2 DEF Places
    <3> QED
      BY <1>1, <2>2, <3>1 DEF Handled
  <2>3. CASE Name(a) # t
    <3>1. /\ r.unseen = q.unseen /\ \A e : Shown(q, e) => Shown(r, e)
          /\ \A u : InRange(r, u) <=> InRange(q, u)
      BY <1>3 DEF Grown, Places
    <3> QED
      BY <2>1, <2>3, <3>1 DEF Handled
  <2> QED
    BY <2>2, <2>3
<1> QED
  BY <1>4, <1>6, <1>7, <1>8 DEF Answer

(* A file passed over.                                                        *)
LEMMA FileSkipped ==
    ASSUME NEW c \in Nat, NEW q, NEW r, NEW t, Answer(q, 0, c), t \in q.files,
           ~ InRange(q, t), Grown(r, q, <<>>), r.files = q.files \ {t}
    PROVE  Answer(r, 0, c)
<1>1. Grown(r, q, <<>>) /\ Places(r, q, <<>>) /\ Len(<<>>) = 0
  BY GrownOut
<1>2. Fields(r) /\ t \in DOMAIN seg /\ r.files \subseteq DOMAIN seg /\ r.unseen = q.unseen
  BY DEF Answer, Grown
<1>3. Len(r.out) = Len(q.out) /\ \A i \in 1..Len(r.out) : r.out[i] = q.out[i]
  BY <1>1 DEF Places
<1>4. \A i \in 1..Len(r.out) : Asked(r, r.out[i]) /\ Origin(r, r.out[i], 0, c)
  <2> TAKE i \in 1..Len(r.out)
  <2>1. Asked(q, q.out[i]) /\ Origin(q, q.out[i], 0, c)
    BY <1>3 DEF Answer
  <2>2. Origin(r, q.out[i], 0, c)
    BY <2>1 DEF Origin
  <2> QED
    BY <1>1, <1>3, <2>1, <2>2 DEF Places
<1>5. \A i, j \in 1..Len(r.out) : i < j => Before(r.out[i], r.out[j], c)
  BY <1>3 DEF Answer
<1>6. ASSUME NEW a \in 0..c - 1 PROVE Handled(r, a, c)
  <2>1. Handled(q, a, c)
    BY DEF Answer
  <2>2. (\A e : Shown(q, e) => Shown(r, e)) /\ \A u : InRange(r, u) <=> InRange(q, u)
    BY <1>1 DEF Places
  <2> QED
    BY <1>2, <2>1, <2>2 DEF Handled
<1> QED
  BY <1>2, <1>4, <1>5, <1>6 DEF Answer

(* What is taken of the memtable.                                             *)
LEMMA MemPicked ==
    ASSUME NEW c \in Nat, StoreInv(c), NEW q
    PROVE  /\ Selected(q, mem) \in Seq(Entry) /\ Picked(Selected(q, mem), q, mem, Len(mem))
           /\ Len(mem) \in Nat /\ c * TableSize \in Nat /\ Len(log) = c * TableSize + Len(mem)
           /\ \A k \in 1..Len(mem) : /\ mem[k] = log[c * TableSize + k]
                                     /\ mem[k].id = c * TableSize + k
<1>1. /\ mem \in Seq(Entry) /\ Len(mem) \in Nat /\ TableSize \in Nat /\ c * TableSize \in Nat
      /\ Len(log) = c * TableSize + Len(mem)
      /\ \A k \in 1..Len(mem) : mem[k] = log[c * TableSize + k]
  <2>1. \A x, y \in Nat : x * y \in Nat
    OBVIOUS
  <2> QED
    BY <2>1, Sizes, LenProperties DEF StoreInv, Split
<1>2. \A k \in 1..Len(mem) : mem[k].id = c * TableSize + k
  <2> TAKE k \in 1..Len(mem)
  <2>1. c * TableSize + k \in 1..Len(log)
    BY <1>1
  <2> QED
    BY <1>1, <2>1 DEF StoreInv, LogTyped
<1>3. \A j, k \in 1..Len(mem) : j < k => mem[j].id < mem[k].id
  BY <1>1, <1>2
<1>4. Picked(Selected(q, mem), q, mem, Len(mem))
  BY <1>1, <1>3, SelectedEntries
<1> QED
  BY <1>1, <1>2, <1>4 DEF Picked

(* The memtable, when every file had its turn.                                *)
LEMMA MemtableTaken ==
    ASSUME NEW c \in Nat, StoreInv(c), NEW q, NEW r, Answer(q, 0, c), q.files = {},
           Grown(r, q, Selected(q, mem)), r.files = {}
    PROVE  Answer(r, Len(mem), c)
<1> DEFINE new == Selected(q, mem)
<1>1. /\ Len(mem) \in Nat /\ c * TableSize \in Nat /\ Len(log) = c * TableSize + Len(mem)
      /\ \A k \in 1..Len(mem) : mem[k] = log[c * TableSize + k]
  BY MemPicked
<1>2. \A k \in 1..Len(mem) : mem[k].id = c * TableSize + k
  BY MemPicked
<1>3. Picked(new, q, mem, Len(mem))
  BY MemPicked
<1>4. Grown(r, q, new) /\ Places(r, q, new)
  BY GrownOut
<1> HIDE DEF new
<1>5. Fields(r) /\ r.files \subseteq DOMAIN seg /\ r.unseen = q.unseen
  BY <1>4 DEF Grown
<1>6. ASSUME NEW k \in 1..Len(new)
      PROVE  \E j \in 1..Len(mem) : /\ new[k] = log[c * TableSize + j] /\ Asked(q, new[k])
                                    /\ new[k].id = c * TableSize + j
  <2>1. PICK j \in 1..Len(mem) : new[k] = mem[j] /\ Asked(q, mem[j])
    BY <1>3 DEF Picked
  <2> QED
    BY <1>1, <1>2, <2>1
<1>7. ASSUME NEW i \in 1..Len(r.out) PROVE Asked(r, r.out[i]) /\ Origin(r, r.out[i], Len(mem), c)
  <2>1. CASE i \in 1..Len(q.out)
    <3>1. Asked(q, q.out[i]) /\ Origin(q, q.out[i], 0, c)
      BY <2>1 DEF Answer
    <3>2. Origin(r, q.out[i], Len(mem), c)
      BY <3>1 DEF Origin
    <3> QED
      BY <1>4, <2>1, <3>1, <3>2 DEF Places
  <2>2. ASSUME NEW k \in 1..Len(new), i = Len(q.out) + k
        PROVE  Asked(r, r.out[i]) /\ Origin(r, r.out[i], Len(mem), c)
    <3>1. r.out[i] = new[k] /\ Asked(r, new[k])
      BY <1>4, <1>6, <2>2 DEF Places
    <3>2. Origin(r, new[k], Len(mem), c)
      BY <1>6 DEF Origin
    <3> QED
      BY <3>1, <3>2
  <2> QED
    BY <1>4, <2>1, <2>2 DEF Places
<1>8. ASSUME NEW i \in 1..Len(r.out), NEW j \in 1..Len(r.out), i < j
      PROVE  Before(r.out[i], r.out[j], c)
  <2>1. CASE j \in 1..Len(q.out)
    <3>1. i \in 1..Len(q.out)
      BY <1>4, <1>8, <2>1 DEF Places
    <3>2. r.out[i] = q.out[i] /\ r.out[j] = q.out[j]
      BY <1>4, <2>1, <3>1 DEF Places
    <3> QED
      BY <1>8, <2>1, <3>1, <3>2 DEF Answer
  <2>2. ASSUME NEW m \in 1..Len(new), j = Len(q.out) + m, i \in 1..Len(q.out)
        PROVE  Before(r.out[i], r.out[j], c)
    <3>1. r.out[i] = q.out[i] /\ r.out[j] = new[m]
      BY <1>4, <2>2 DEF Places
    <3>2. Origin(q, q.out[i], 0, c)
      BY <2>2 DEF Answer
    <3>3. PICK a \in 0..c - 1 : In(a, q.out[i])
      BY <3>2 DEF Origin
    <3>4. PICK k \in 1..TableSize : q.out[i] = log[a * TableSize + k]
      BY <3>3 DEF In
    <3>5. a * TableSize + k \in 1..c * TableSize
      BY Positions
    <3>6. a * TableSize + k \in 1..Len(log)
      BY <1>1, <3>5
    <3>7. q.out[i].id = a * TableSize + k
      BY <3>4, <3>6 DEF StoreInv, LogTyped
    <3>8. PICK h \in 1..Len(mem) : new[m].id = c * TableSize + h
      BY <1>6
    <3>9. \A x \in 1..c * TableSize : x < c * TableSize + h
      BY <1>1
    <3>10. q.out[i].id < new[m].id
      BY <3>5, <3>7, <3>8, <3>9
    <3> QED
      BY <3>1, <3>10 DEF Before
  <2>3. ASSUME NEW k \in 1..Len(new), i = Len(q.out) + k,
               NEW m \in 1..Len(new), j = Len(q.out) + m
        PROVE  Before(r.out[i], r.out[j], c)
    <3>1. r.out[i] = new[k] /\ r.out[j] = new[m]
      BY <1>4, <2>3 DEF Places
    <3>2. k < m
      <4>1. Len(q.out) \in Nat
        BY <1>4 DEF Places
      <4>2. Len(q.out) + k < Len(q.out) + m
        BY <1>8, <2>3
      <4> QED
        BY <4>1, <4>2
    <3> QED
      BY <1>3, <3>1, <3>2 DEF Before, Picked
  <2> QED
    BY <1>4, <2>1, <2>2, <2>3 DEF Places
<1>9. ASSUME NEW a \in 0..c - 1 PROVE Handled(r, a, c)
  <2>1. Handled(q, a, c)
    BY DEF Answer
  <2>2. (\A e : Shown(q, e) => Shown(r, e)) /\ \A u : InRange(r, u) <=> InRange(q, u)
    BY <1>4 DEF Places
  <2> QED
    BY <1>5, <2>1, <2>2 DEF Handled
<1>10. ASSUME NEW k \in 1..Len(mem) PROVE Shown(r, log[c * TableSize + k])
  <2> DEFINE e == log[c * TableSize + k]
  <2> SUFFICES ASSUME Asked(r, e) PROVE \E i \in 1..Len(r.out) : r.out[i] = e
    BY DEF Shown
  <2>1. Asked(q, e) /\ mem[k] = e
    BY <1>1, <1>4 DEF Places
  <2>2. PICK m \in 1..Len(new) : new[m] = e
    BY <1>3, <2>1 DEF Picked
  <2> QED
    BY <1>4, <2>2 DEF Places
<1> QED
  BY <1>5, <1>7, <1>8, <1>9, <1>10 DEF Answer

-----------------------------------------------------------------------------
(* Paths *)

(* Division with remainder.                                                   *)
LEMMA DivMod ==
    ASSUME NEW t \in Nat, NEW u \in Nat, u >= 1
    PROVE  /\ t \div u \in Nat /\ t % u \in Nat /\ t % u < u
           /\ t = u * (t \div u) + (t % u)
<1>1. t \div u \in Nat /\ t % u \in 0..u - 1
  OBVIOUS
<1>2. t = u * (t \div u) + (t % u)
  OBVIOUS
<1> QED
  BY <1>1, <1>2

(* Multiples of u are at least u apart.                                       *)
LEMMA Apart ==
    ASSUME NEW u \in Nat, NEW p \in Nat, NEW q \in Nat, p < q
    PROVE  u * p + u <= u * q /\ u * p \in Nat /\ u * q \in Nat
<1>1. PICK d \in Nat : q = p + 1 + d
  <2>1. q - p - 1 \in Nat /\ q = p + 1 + (q - p - 1)
    OBVIOUS
  <2> QED
    BY <2>1
<1>2. \A x, y, z \in Nat : z * (x + 1 + y) = z * x + z + z * y /\ z * y \in Nat /\ z * x \in Nat
  OBVIOUS
<1> QED
  BY <1>1, <1>2

(* The quotient is the only one.                                              *)
LEMMA DivIs ==
    ASSUME NEW t \in Nat, NEW u \in Nat, u >= 1, NEW q \in Nat, NEW e \in Nat, e < u,
           t = u * q + e
    PROVE  t \div u = q
<1> DEFINE p == t \div u
<1>1. p \in Nat /\ t % u \in Nat /\ t % u < u /\ t = u * p + (t % u)
  BY DivMod
<1> HIDE DEF p
<1>2. u * p \in Nat /\ u * q \in Nat
  <2>1. \A x, y \in Nat : x * y \in Nat
    OBVIOUS
  <2> QED
    BY <1>1, <2>1
<1>3. ~ (p < q)
  <2> SUFFICES ASSUME p < q PROVE FALSE
    OBVIOUS
  <2>1. u * p + u <= u * q
    BY <1>1, Apart
  <2> QED
    BY <1>1, <1>2, <2>1
<1>4. ~ (q < p)
  <2> SUFFICES ASSUME q < p PROVE FALSE
    OBVIOUS
  <2>1. u * q + u <= u * p
    BY <1>1, Apart
  <2> QED
    BY <1>1, <1>2, <2>1
<1> QED
  BY <1>1, <1>3, <1>4 DEF p

\* The quotient by a unit u, from the one by the next unit v, k times as large.
Component(t, u, v, k) ==
    /\ t \div v \in Nat /\ (t % v) \div u \in Nat /\ k * (t \div v) \in Nat
    /\ t \div u = k * (t \div v) + ((t % v) \div u)

(* The next component of a path, from the ones before.                        *)
LEMMA Components ==
    ASSUME NEW t \in Nat, NEW u \in Nat, u >= 1, NEW k \in Nat, NEW v \in Nat, v = u * k, v >= 1
    PROVE  Component(t, u, v, k)
<1> DEFINE h == t \div v
           m == t % v
           d == m \div u
           e == m % u
<1>1. h \in Nat /\ m \in Nat /\ t = v * h + m
  BY DivMod
<1> HIDE DEF h, m
<1>2. d \in Nat /\ e \in Nat /\ e < u /\ m = u * d + e
  BY <1>1, DivMod
<1> HIDE DEF d, e
<1>3. k * h \in Nat /\ k * h + d \in Nat
  <2>1. \A x, y \in Nat : x * y \in Nat
    OBVIOUS
  <2> QED
    BY <1>1, <1>2, <2>1
<1>4. t = u * (k * h + d) + e
  <2>1. \A w, x, y, z \in Nat : (w * x) * y + (w * z + e) = w * (x * y + z) + e
    BY <1>2
  <2> QED
    BY <1>1, <1>2, <2>1
<1>5. t \div u = k * h + d
  BY <1>2, <1>3, <1>4, DivIs
<1> QED
  BY <1>1, <1>2, <1>3, <1>5 DEF h, m, d, Component

(* Division is monotone.                                                      *)
LEMMA DivMonotone ==
    ASSUME NEW s \in Nat, NEW t \in Nat, s <= t, NEW u \in Nat, u >= 1
    PROVE  s \div u <= t \div u
<1> DEFINE p == s \div u
           q == t \div u
<1>1. p \in Nat /\ s % u \in Nat /\ s % u < u /\ s = u * p + (s % u)
  BY DivMod
<1>2. q \in Nat /\ t % u \in Nat /\ t % u < u /\ t = u * q + (t % u)
  BY DivMod
<1> HIDE DEF p, q
<1>3. ~ (q < p)
  <2> SUFFICES ASSUME q < p PROVE FALSE
    OBVIOUS
  <2>1. u * q + u <= u * p /\ u * q \in Nat /\ u * p \in Nat
    BY <1>1, <1>2, Apart
  <2> QED
    BY <1>1, <1>2, <2>1
<1> QED
  BY <1>1, <1>2, <1>3 DEF p, q

(* Every component counts a part of the one before it.                        *)
LEMMA UnitSteps ==
    /\ Len(Units) \in Nat /\ Len(Units) >= 1
    /\ \A i \in 1..Len(Units) : Units[i] \in Nat /\ Units[i] >= 1
    /\ \A i \in 1..Len(Units) : i # 1 =>
            i - 1 \in 1..Len(Units) /\ \E k \in Nat : Units[i - 1] = Units[i] * k
<1>1. /\ Units \in Seq(Nat \ {0}) /\ Units # <<>>
      /\ \A i \in 2..Len(Units) : Units[i - 1] % Units[i] = 0
  BY RangeAssumption
<1>2. Len(Units) \in Nat /\ Len(Units) >= 1
  BY <1>1, LenProperties, EmptySeq
<1>3. \A i \in 1..Len(Units) : Units[i] \in Nat /\ Units[i] >= 1
  <2>1. \A i \in 1..Len(Units) : Units[i] \in Nat \ {0}
    BY <1>1, ElementOfSeq
  <2> QED
    BY <2>1
<1>4. ASSUME NEW i \in 1..Len(Units), i # 1
      PROVE  i - 1 \in 1..Len(Units) /\ \E k \in Nat : Units[i - 1] = Units[i] * k
  <2> DEFINE v == Units[i - 1]
             u == Units[i]
  <2>1. i - 1 \in 1..Len(Units) /\ i \in 2..Len(Units)
    BY <1>2, <1>4
  <2>2. v \in Nat /\ u \in Nat /\ u >= 1 /\ v % u = 0
    BY <1>1, <1>3, <2>1
  <2> HIDE DEF u, v
  <2>3. v \div u \in Nat /\ v = u * (v \div u) + 0
    BY <2>2, DivMod
  <2>4. \A x, y \in Nat : x * y + 0 = x * y
    OBVIOUS
  <2>5. v = u * (v \div u)
    BY <2>2, <2>3, <2>4
  <2> QED
    BY <2>1, <2>3, <2>5 DEF u, v
<1> QED
  BY <1>2, <1>3, <1>4

(* The components of a path.                                                  *)
LEMMA PathComponents ==
    ASSUME NEW t \in Nat
    PROVE  /\ PathOf(t) \in Seq(Nat) /\ Len(PathOf(t)) = Len(Units)
           /\ PathOf(t)[1] = t \div Units[1]
           /\ \A i \in 1..Len(Units) : i # 1 => PathOf(t)[i] = (t % Units[i - 1]) \div Units[i]
<1>1. DOMAIN Units = 1..Len(Units)
  BY RangeAssumption, LenProperties
<1>2. \A i \in 1..Len(Units) :
        PathOf(t)[i] = IF i = 1 THEN t \div Units[1] ELSE (t % Units[i - 1]) \div Units[i]
  BY <1>1 DEF PathOf
<1>3. 1 \in 1..Len(Units) /\ Len(Units) \in Nat
  BY UnitSteps
<1>4. ASSUME NEW i \in 1..Len(Units) PROVE PathOf(t)[i] \in Nat
  <2>1. CASE i = 1
    BY <1>2, <1>3, <2>1, UnitSteps, DivMod
  <2>2. CASE i # 1
    <3>1. /\ Units[i - 1] \in Nat /\ Units[i - 1] >= 1 /\ Units[i] \in Nat /\ Units[i] >= 1
      BY <2>2, UnitSteps
    <3>2. t % Units[i - 1] \in Nat
      BY <3>1, DivMod
    <3>3. (t % Units[i - 1]) \div Units[i] \in Nat
      BY <3>1, <3>2, DivMod
    <3> QED
      BY <1>2, <2>2, <3>3
  <2> QED
    BY <2>1, <2>2
<1>5. PathOf(t) = [i \in 1..Len(Units) |-> PathOf(t)[i]]
  BY <1>1 DEF PathOf
<1> DEFINE p == PathOf(t)
<1>6. p \in Seq(Nat) /\ Len(p) = Len(Units)
  <2> HIDE DEF p
  <2>1. p = [i \in 1..Len(Units) |-> p[i]] /\ \A i \in 1..Len(Units) : p[i] \in Nat
    BY <1>4, <1>5 DEF p
  <2> QED
    BY <1>3, <2>1
<1> QED
  BY <1>2, <1>3, <1>6

(* A directory that two times share is one interval of time for both.         *)
LEMMA SameQuotients ==
    ASSUME NEW s \in Nat, NEW t \in Nat, NEW n \in 0..Len(Units),
           \A i \in 1..n : PathOf(s)[i] = PathOf(t)[i]
    PROVE  \A i \in 1..n : s \div Units[i] = t \div Units[i]
<1> DEFINE B == {i \in Nat : i \in 1..n /\ s \div Units[i] # t \div Units[i]}
<1>1. Len(Units) \in Nat /\ 1..n \subseteq 1..Len(Units)
  BY UnitSteps
<1>2. B = {}
  <2> SUFFICES ASSUME B # {} PROVE FALSE
    OBVIOUS
  <2>1. PICK i \in B : \A j \in B : i <= j
    BY LeastNat
  <2>2. i \in 1..n /\ i \in 1..Len(Units) /\ PathOf(s)[i] = PathOf(t)[i]
    BY <1>1, <2>1
  <2>3. i # 1
    BY <2>1, <2>2, PathComponents
  <2>4. i - 1 \in Nat /\ i - 1 \in 1..n /\ i - 1 \in 1..Len(Units) /\ ~ (i <= i - 1)
    BY <1>1, <2>2, <2>3
  <2>5. s \div Units[i - 1] = t \div Units[i - 1]
    BY <2>1, <2>4
  <2>6. PICK k \in Nat : Units[i - 1] = Units[i] * k
    BY <2>2, <2>3, UnitSteps
  <2>7. /\ Units[i - 1] \in Nat /\ Units[i - 1] >= 1 /\ Units[i] \in Nat /\ Units[i] >= 1
    BY <2>2, <2>4, UnitSteps
  <2> DEFINE u == Units[i]
             v == Units[i - 1]
  <2>8. Component(s, u, v, k) /\ Component(t, u, v, k)
    <3>1. u \in Nat /\ u >= 1 /\ v \in Nat /\ v >= 1 /\ v = u * k
      BY <2>6, <2>7
    <3> HIDE DEF u, v
    <3> QED
      BY <3>1, Components
  <2>9. (s % Units[i - 1]) \div Units[i] = (t % Units[i - 1]) \div Units[i]
    BY <2>2, <2>3, PathComponents
  <2>10. s \div Units[i] = t \div Units[i]
    BY <2>5, <2>8, <2>9 DEF Component
  <2> QED
    BY <2>1, <2>10
<1> QED
  BY <1>2

(* A time between the two is in the directory.                                *)
LEMMA BetweenPaths ==
    ASSUME NEW from \in Nat, NEW to \in Nat, NEW t \in Nat, from <= t, t <= to,
           NEW n \in 0..Len(Units), \A i \in 1..n : PathOf(from)[i] = PathOf(to)[i]
    PROVE  \A i \in 1..n : PathOf(from)[i] = PathOf(t)[i]
<1>1. Len(Units) \in Nat /\ 1..n \subseteq 1..Len(Units)
  BY UnitSteps
<1>2. \A i \in 1..n : from \div Units[i] = t \div Units[i]
  <2> TAKE i \in 1..n
  <2>1. Units[i] \in Nat /\ Units[i] >= 1
    BY <1>1, UnitSteps
  <2>2. from \div Units[i] = to \div Units[i]
    BY SameQuotients
  <2>3. from \div Units[i] <= t \div Units[i] /\ t \div Units[i] <= to \div Units[i]
    BY <2>1, DivMonotone
  <2>4. from \div Units[i] \in Nat /\ t \div Units[i] \in Nat
    BY <2>1, DivMod
  <2> QED
    BY <2>2, <2>3, <2>4
<1>3. ASSUME NEW i \in 1..n PROVE PathOf(from)[i] = PathOf(t)[i]
  <2>1. CASE i = 1
    BY <1>2, <2>1, PathComponents
  <2>2. CASE i # 1
    <3>1. i \in 1..Len(Units) /\ i - 1 \in 1..n /\ i - 1 \in 1..Len(Units)
      BY <1>1, <2>2
    <3>2. PICK k \in Nat : Units[i - 1] = Units[i] * k
      BY <2>2, <3>1, UnitSteps
    <3>3. Units[i - 1] \in Nat /\ Units[i - 1] >= 1 /\ Units[i] \in Nat /\ Units[i] >= 1
      BY <3>1, UnitSteps
    <3> DEFINE u == Units[i]
               v == Units[i - 1]
    <3>4. Component(from, u, v, k) /\ Component(t, u, v, k)
      <4>1. u \in Nat /\ u >= 1 /\ v \in Nat /\ v >= 1 /\ v = u * k
        BY <3>2, <3>3
      <4> HIDE DEF u, v
      <4> QED
        BY <4>1, Components
    <3>5. from \div u = t \div u /\ from \div v = t \div v
      BY <1>2, <3>1
    <3>6. (from % v) \div u = (t % v) \div u
      <4>1. \A x, y, z \in Nat : x + y = x + z => y = z
        OBVIOUS
      <4> HIDE DEF u, v
      <4> QED
        BY <3>4, <3>5, <4>1 DEF Component
    <3> QED
      BY <2>2, <3>1, <3>6, PathComponents
  <2> QED
    BY <2>1, <2>2
<1> QED
  BY <1>3

(* racs_resolve_shared_path: the directory that the ends of the range share   *)
(* holds every file with a name in the range.                                 *)
THEOREM SharedPathCovers ==
    ASSUME NEW from \in Nat, NEW to \in Nat, NEW t \in Nat, from <= t, t <= to
    PROVE  IsPrefix(SharedPath(PathOf(from), PathOf(to)), PathOf(t))
<1> DEFINE p == PathOf(from)
           q == PathOf(to)
           r == PathOf(t)
           same == {n \in 0..Len(p) - 1 : \A i \in 1..n : p[i] = q[i]}
           m == Max(same)
<1>1. /\ p \in Seq(Nat) /\ q \in Seq(Nat) /\ r \in Seq(Nat) /\ Len(Units) \in Nat
      /\ Len(p) = Len(Units) /\ Len(q) = Len(Units) /\ Len(r) = Len(Units) /\ Len(Units) >= 1
  BY PathComponents, UnitSteps
<1>2. m \in same
  <2> DEFINE B == {k \in Nat : Len(p) - 1 - k \in same}
  <2>1. 0 \in same
    BY <1>1
  <2> HIDE DEF p, q
  <2>2. Len(p) - 1 \in B
    <3>1. Len(p) - 1 \in Nat /\ (Len(p) - 1) - (Len(p) - 1) = 0
      BY <1>1
    <3> QED
      BY <2>1, <3>1
  <2>3. PICK k \in B : \A j \in B : k <= j
    BY <2>2, LeastNat
  <2> DEFINE x == Len(p) - 1 - k
  <2>4. x \in same
    BY <2>3
  <2>5. ASSUME NEW y \in same PROVE x >= y
    <3>1. y \in Nat /\ y <= Len(p) - 1
      BY <1>1
    <3>2. (Len(p) - 1) - y \in Nat /\ (Len(p) - 1) - ((Len(p) - 1) - y) = y
      BY <1>1, <3>1
    <3>3. (Len(p) - 1) - y \in B
      BY <3>2
    <3>4. k <= (Len(p) - 1) - y
      BY <2>3, <3>3
    <3> QED
      BY <1>1, <2>3, <3>1, <3>4
  <2> HIDE DEF same, x
  <2> QED
    BY <2>4, <2>5 DEF Max
<1>3. m \in 0..Len(Units) /\ m <= Len(Units) /\ \A i \in 1..m : p[i] = q[i]
  <2> HIDE DEF p, q, m
  <2> QED
    BY <1>1, <1>2
<1> HIDE DEF m
<1>4. \A i \in 1..m : p[i] = r[i]
  BY <1>3, BetweenPaths
<1>5. SharedPath(p, q) = SubSeq(p, 1, m)
  BY DEF SharedPath, m
<1> HIDE DEF p, q, r
<1> DEFINE s == SubSeq(p, 1, m)
<1>6. s = [i \in 1..m |-> p[i]] /\ Len(s) = m
  BY <1>1, <1>3
<1>7. SubSeq(s, 1, Len(s)) = [i \in 1..m |-> s[i]]
  BY <1>1, <1>3, <1>6
<1>8. SubSeq(r, 1, Len(s)) = [i \in 1..m |-> r[i]]
  BY <1>1, <1>3, <1>6
<1>9. IsPrefix(s, r)
  <2>1. \A i \in 1..m : s[i] = r[i]
    BY <1>4, <1>6
  <2> HIDE DEF s
  <2>2. SubSeq(s, 1, Len(s)) = SubSeq(r, 1, Len(s))
    BY <1>7, <1>8, <2>1
  <2> QED
    BY <1>1, <1>3, <1>6, <2>2 DEF IsPrefix
<1> QED
  BY <1>5, <1>9 DEF p, q, r

-----------------------------------------------------------------------------
(* The invariant *)

(* A query that begins.                                                       *)
LEMMA QueryBegun ==
    ASSUME NEW c \in Nat, StoreInv(c), NEW q, Fields(q),
           q.files = FileList(q.from, q.to), q.out = <<>>, q.unseen = flights
    PROVE  Answer(q, 0, c)
<1>1. Len(q.out) = 0 /\ q.files \subseteq DOMAIN seg /\ q.from \in Nat /\ q.to \in Nat
  BY DEF FileList, Fields
<1>2. ASSUME NEW a \in 0..c - 1 PROVE Handled(q, a, c)
  <2>1. Chunk(a) \in flights \/ (Name(a) \in DOMAIN seg /\ Name(a) \in Nat)
    BY DEF StoreInv, Tables
  <2>2. CASE Chunk(a) \in flights
    BY <2>2 DEF Handled
  <2>3. CASE Name(a) \in DOMAIN seg /\ ~ InRange(q, Name(a))
    BY <2>3 DEF Handled
  <2>4. CASE Name(a) \in DOMAIN seg /\ Name(a) \in Nat /\ InRange(q, Name(a))
    <3>1. IsPrefix(SharedPath(PathOf(q.from), PathOf(q.to)), PathOf(Name(a)))
      BY <1>1, <2>4, SharedPathCovers DEF InRange
    <3>2. Name(a) \in q.files
      BY <2>4, <3>1 DEF FileList
    <3> QED
      BY <3>2 DEF Handled
  <2> QED
    BY <2>1, <2>2, <2>3, <2>4
<1> QED
  BY <1>1, <1>2 DEF Answer

(* No blocks, no files, no query.                                             *)
LEMMA RangeInit == Init => RangeInv
<1> SUFFICES ASSUME Init PROVE RangeInv
  OBVIOUS
<1>1. /\ mem = <<>> /\ flights = {} /\ seg = <<>> /\ log = <<>> /\ order = <<>> /\ value = <<>>
      /\ offsets = [s \in Streams |-> 0] /\ query = NoQuery /\ reply = NoQuery
  BY DEF Init, Cache!LruInit
<1>2. DOMAIN seg = {} /\ DOMAIN value = {} /\ Len(log) = 0 /\ Len(mem) = 0 /\ 0 * TableSize = 0
  BY <1>1, Sizes
<1>3. LogTyped /\ Clocked
  BY <1>1, <1>2 DEF LogTyped, Clocked
<1>4. Split(0)
  BY <1>1, <1>2, Sizes DEF Split
<1>5. Tables(0) /\ Cached(0)
  BY <1>1, <1>2 DEF Tables, Cached
<1>6. StoreInv(0)
  BY <1>3, <1>4, <1>5 DEF StoreInv
<1> QED
  BY <1>1, <1>6 DEF RangeInv

(* The list of the query loses its first file.                                *)
LEMMA ListedFile ==
    ASSUME NEW c \in Nat, StoreInv(c), query # NoQuery, Answer(query, 0, c), query.files # {}
    PROVE  /\ Min(query.files) \in query.files /\ Min(query.files) \in DOMAIN seg
           /\ \A u \in query.files \ {Min(query.files)} : Min(query.files) < u
<1>1. query.files \subseteq DOMAIN seg /\ query.files \in SUBSET Nat
  BY DEF Answer, StoreInv, Tables
<1> QED
  BY <1>1, FirstFile

(* One step of the loop over the files: the query has the entries of a file   *)
(* with the name of the first.                                                *)
LEMMA LoopStep ==
    ASSUME NEW c \in Nat, StoreInv(c), StoreInv(c)', SameFiles, reply' = reply,
           query # NoQuery, Answer(query, 0, c), query.files # {},
           reply # NoQuery => reply.files = {} /\ Answer(reply, Len(mem), c),
           Answer(query', 0, c)
    PROVE  RangeInv'
<1>1. MoreFiles
  BY DEF SameFiles, MoreFiles
<1>2. Answer(query, 0, c)'
  BY <1>1, QueryKept
<1>3. reply' # NoQuery => reply'.files = {} /\ Answer(reply, Len(mem), c)'
  BY <1>1, ReplyKept
<1> QED
  BY <1>2, <1>3 DEF RangeInv

(* Every step keeps the invariant.                                            *)
LEMMA RangeStep == RangeInv /\ [Next]_vars => RangeInv'
<1> SUFFICES ASSUME RangeInv, [Next]_vars PROVE RangeInv'
  OBVIOUS
<1>1. PICK c \in Nat : /\ StoreInv(c)
                       /\ query # NoQuery => Answer(query, 0, c)
                       /\ reply # NoQuery => reply.files = {} /\ Answer(reply, Len(mem), c)
  BY DEF RangeInv
<1>2. ASSUME NEW s \in Streams, NEW k \in Kinds, Append_(s, k) PROVE RangeInv'
  <2>1. PICK d \in Nat : StoreInv(d)'
    BY <1>1, <1>2, AppendStore
  <2>2. query' = NoQuery /\ reply' = NoQuery
    BY <1>2 DEF Append_
  <2> QED
    BY <2>1, <2>2 DEF RangeInv
<1>3. ASSUME NEW s \in Streams, NEW start \in Starts, NEW duration \in Durations,
             RangeBegin(s, start, duration)
      PROVE  RangeInv'
  <2> DEFINE from == Ref[s] + start
             to == from + duration
  <2>1. /\ query' = [stream |-> s, from |-> from, to |-> to, files |-> FileList(from, to),
                     out |-> <<>>, unseen |-> flights]
        /\ reply' = NoQuery /\ SameFiles /\ UNCHANGED <<order, value>>
    BY <1>3 DEF RangeBegin, SameFiles
  <2>2. from \in Nat /\ to \in Nat
    BY RangeAssumption
  <2> HIDE DEF from, to
  <2>3. /\ Fields(query') /\ query'.files = FileList(query'.from, query'.to)
        /\ query'.out = <<>> /\ query'.unseen = flights
    BY <2>1, <2>2 DEF Fields
  <2>4. Answer(query', 0, c)
    BY <1>1, <2>3, QueryBegun
  <2>5. Answer(query, 0, c)'
    BY <2>1, <2>4, QueryKept DEF MoreFiles, SameFiles
  <2>6. StoreInv(c)'
    <3>1. Cached(c)'
      BY <1>1, <2>1 DEF StoreInv, Cached, SameFiles, FileOf, Chunk, Name
    <3> QED
      BY <1>1, <2>1, <3>1, SameStore
  <2> QED
    BY <2>1, <2>5, <2>6 DEF RangeInv
<1>4. ASSUME NEW x \in flights, FlushRename(x) PROVE RangeInv'
  <2>1. StoreInv(c)' /\ MoreFiles /\ query' = query /\ reply' = reply
    BY <1>1, <1>4, RenameStore DEF FlushRename, MoreFiles
  <2>2. query' # NoQuery => Answer(query, 0, c)'
    BY <1>1, <2>1, QueryKept
  <2>3. reply' # NoQuery => reply'.files = {} /\ Answer(reply, Len(mem), c)'
    BY <1>1, <2>1, ReplyKept
  <2> QED
    BY <2>1, <2>2, <2>3 DEF RangeInv
<1>5. CASE RangeSkip
  <2> DEFINE t == Min(query.files)
  <2>1. /\ query # NoQuery /\ query.files # {} /\ ~ InRange(query, t)
        /\ query' = [query EXCEPT !.files = @ \ {Min(@)}]
        /\ SameFiles /\ UNCHANGED <<order, value, reply>>
    BY <1>5 DEF RangeSkip, SameFiles
  <2>2. Answer(query, 0, c) /\ Fields(query)
    BY <1>1, <2>1 DEF Answer
  <2>3. t \in query.files
    BY <1>1, <2>1, <2>2, ListedFile
  <2>4. query'.files = query.files \ {t} /\ Grown(query', query, <<>>)
    <3>1. query.out \o <<>> = query.out /\ <<>> \in Seq(Entry)
      BY <2>2, ConcatEmptySeq DEF Fields
    <3> QED
      BY <2>1, <2>2, <3>1 DEF Grown, Fields
  <2>5. StoreInv(c)'
    <3>1. Cached(c)'
      BY <1>1, <2>1 DEF StoreInv, Cached, SameFiles, FileOf, Chunk, Name
    <3> QED
      BY <1>1, <2>1, <3>1, SameStore
  <2> HIDE DEF t
  <2>6. Answer(query', 0, c)
    BY <2>1, <2>2, <2>3, <2>4, FileSkipped
  <2> QED
    BY <1>1, <2>1, <2>2, <2>5, <2>6, LoopStep
<1>6. CASE RangeHit
  <2> DEFINE t == Min(query.files)
             f == value[CacheKey(query, t)]
             new == Selected(query, SstableRead(f))
  <2>1. /\ query # NoQuery /\ query.files # {} /\ Cache!Use(CacheKey(query, t))
        /\ query' = [query EXCEPT !.files = @ \ {Min(@)}, !.out = @ \o new]
        /\ SameFiles /\ UNCHANGED reply
    BY <1>6 DEF RangeHit, SameFiles
  <2>2. Answer(query, 0, c) /\ Fields(query)
    BY <1>1, <2>1 DEF Answer
  <2>3. t \in query.files /\ \A u \in query.files \ {t} : t < u
    BY <1>1, <2>1, <2>2, ListedFile
  <2>4. CacheKey(query, t) \in DOMAIN value /\ StoreInv(c)'
    BY <1>1, <2>1, UseCache
  <2>5. FileOf(f, t, c)
    BY <1>1, <2>4 DEF StoreInv, Cached, CacheKey
  <2>6. new \in Seq(Entry)
    BY <1>1, <2>5, FilePicked DEF FileOf, Picked
  <2>7. query'.files = query.files \ {t} /\ Grown(query', query, new)
    <3> HIDE DEF new
    <3>1. query.out \o new \in Seq(Entry)
      BY <2>2, <2>6, ConcatProperties DEF Fields
    <3> QED
      BY <2>1, <2>2, <2>6, <3>1 DEF Grown, Fields
  <2> HIDE DEF t, f
  <2>8. Answer(query', 0, c)
    BY <1>1, <2>2, <2>3, <2>5, <2>7, FileTaken
  <2> QED
    BY <1>1, <2>1, <2>2, <2>4, <2>8, LoopStep
<1>7. CASE RangeMiss
  <2> DEFINE t == Min(query.files)
             f == seg[t]
             new == Selected(query, SstableRead(f))
  <2>1. /\ query # NoQuery /\ query.files # {} /\ Cache!Insert(CacheKey(query, t), f)
        /\ query' = [query EXCEPT !.files = @ \ {Min(@)}, !.out = @ \o new]
        /\ SameFiles /\ UNCHANGED reply
    BY <1>7 DEF RangeMiss, SameFiles
  <2>2. Answer(query, 0, c) /\ Fields(query)
    BY <1>1, <2>1 DEF Answer
  <2>3. t \in query.files /\ t \in DOMAIN seg /\ \A u \in query.files \ {t} : t < u
    BY <1>1, <2>1, <2>2, ListedFile
  <2>4. StoreInv(c)'
    <3>1. CacheKey(query, t)[2] = t
      BY DEF CacheKey
    <3> HIDE DEF t
    <3> QED
      BY <1>1, <2>1, <2>3, <3>1, InsertCache
  <2>5. FileOf(f, t, c)
    BY <1>1, <2>3 DEF StoreInv, Tables
  <2>6. new \in Seq(Entry)
    BY <1>1, <2>5, FilePicked DEF FileOf, Picked
  <2>7. query'.files = query.files \ {t} /\ Grown(query', query, new)
    <3> HIDE DEF new
    <3>1. query.out \o new \in Seq(Entry)
      BY <2>2, <2>6, ConcatProperties DEF Fields
    <3> QED
      BY <2>1, <2>2, <2>6, <3>1 DEF Grown, Fields
  <2> HIDE DEF t, f
  <2>8. Answer(query', 0, c)
    BY <1>1, <2>2, <2>3, <2>5, <2>7, FileTaken
  <2> QED
    BY <1>1, <2>1, <2>2, <2>4, <2>8, LoopStep
<1>8. CASE RangeMemtable
  <2> DEFINE new == Selected(query, mem)
  <2>1. /\ query # NoQuery /\ query.files = {}
        /\ reply' = [query EXCEPT !.out = @ \o new]
        /\ query' = NoQuery /\ SameFiles /\ UNCHANGED <<order, value>>
    BY <1>8 DEF RangeMemtable, SameFiles
  <2>2. Answer(query, 0, c) /\ Fields(query)
    BY <1>1, <2>1 DEF Answer
  <2>3. new \in Seq(Entry)
    BY <1>1, MemPicked
  <2>4. reply'.files = {} /\ Grown(reply', query, new)
    <3> HIDE DEF new
    <3>1. query.out \o new \in Seq(Entry)
      BY <2>2, <2>3, ConcatProperties DEF Fields
    <3> QED
      BY <2>1, <2>2, <2>3, <3>1 DEF Grown, Fields
  <2>5. Answer(reply', Len(mem), c)
    BY <1>1, <2>1, <2>2, <2>4, MemtableTaken
  <2>6. Answer(reply, Len(mem), c)'
    BY <2>1, <2>5, ReplyKept DEF MoreFiles, SameFiles
  <2>7. StoreInv(c)'
    <3>1. Cached(c)'
      BY <1>1, <2>1 DEF StoreInv, Cached, SameFiles, FileOf, Chunk, Name
    <3> QED
      BY <1>1, <2>1, <3>1, SameStore
  <2> QED
    BY <2>1, <2>4, <2>6, <2>7 DEF RangeInv
<1>9. CASE UNCHANGED vars
  <2>1. SameFiles /\ UNCHANGED <<order, value, query, reply>> /\ MoreFiles
    BY <1>9 DEF vars, SameFiles, MoreFiles
  <2>2. Cached(c)'
    BY <1>1, <2>1 DEF StoreInv, Cached, SameFiles, FileOf, Chunk, Name
  <2>3. StoreInv(c)'
    BY <1>1, <2>1, <2>2, SameStore
  <2>4. query' # NoQuery => Answer(query, 0, c)'
    BY <1>1, <2>1, QueryKept
  <2>5. reply' # NoQuery => reply'.files = {} /\ Answer(reply, Len(mem), c)'
    BY <1>1, <2>1, ReplyKept
  <2> QED
    BY <2>3, <2>4, <2>5 DEF RangeInv
<1> QED
  BY <1>2, <1>3, <1>4, <1>5, <1>6, <1>7, <1>8, <1>9 DEF Next

(* The store and the queries are always as RangeInv says.                     *)
THEOREM RangeInvariant == Spec => []RangeInv
BY RangeInit, RangeStep, PTL DEF Spec

-----------------------------------------------------------------------------
(* What follows *)

(* Tables of different names are different, and the other way round if        *)
(* NamesDistinct.                                                             *)
LEMMA NameOfOne ==
    ASSUME NEW c \in Nat, StoreInv(c), NamesDistinct,
           NEW a \in 0..c - 1, NEW b \in 0..c - 1, Name(a) = Name(b)
    PROVE  a = b
<1> DEFINE n == Len(log) \div TableSize
<1>1. /\ Len(log) \in Nat /\ Len(mem) \in Nat /\ TableSize \in Nat /\ TableSize >= 1
      /\ Len(log) = c * TableSize + Len(mem)
  BY Sizes, LenProperties DEF StoreInv, LogTyped, Split
<1>2. n \in Nat /\ Len(log) % TableSize \in Nat /\ Len(log) % TableSize < TableSize
      /\ Len(log) = TableSize * n + (Len(log) % TableSize)
  BY <1>1, DivMod
<1> HIDE DEF n
<1>3. ~ (n < c)
  <2> SUFFICES ASSUME n < c PROVE FALSE
    OBVIOUS
  <2>1. TableSize * n + TableSize <= TableSize * c /\ TableSize * n \in Nat /\ TableSize * c \in Nat
    BY <1>1, <1>2, Apart
  <2>2. c * TableSize = TableSize * c
    BY <1>1
  <2> QED
    BY <1>1, <1>2, <2>1, <2>2
<1>4. a + 1 \in 1..n /\ b + 1 \in 1..n /\ (a + 1) - 1 = a /\ (b + 1) - 1 = b
  BY <1>2, <1>3
<1>5. \A i, j \in 1..n : i # j => log[(i - 1) * TableSize + 1].ts # log[(j - 1) * TableSize + 1].ts
  BY DEF NamesDistinct, n
<1>6. a + 1 # b + 1 => Name(a) # Name(b)
  BY <1>4, <1>5 DEF Name
<1> QED
  BY <1>6

(* An entry of a table is the block of its number.                            *)
LEMMA TableBlock ==
    ASSUME NEW c \in Nat, StoreInv(c), NEW a \in 0..c - 1, NEW e, In(a, e)
    PROVE  /\ e.id \in 1..Len(log) /\ log[e.id] = e /\ a * TableSize \in Nat
           /\ \E k \in 1..TableSize : e.id = a * TableSize + k
<1>1. PICK k \in 1..TableSize : e = log[a * TableSize + k]
  BY DEF In
<1>2. a * TableSize \in Nat /\ a * TableSize + k \in 1..c * TableSize /\ c * TableSize \in Nat
  BY Positions
<1>3. Len(log) = c * TableSize + Len(mem) /\ Len(mem) \in Nat
  BY LenProperties DEF StoreInv, Split
<1>4. a * TableSize + k \in 1..Len(log)
  BY <1>2, <1>3
<1>5. e.id = a * TableSize + k
  BY <1>1, <1>4 DEF StoreInv, LogTyped
<1> QED
  BY <1>1, <1>2, <1>4, <1>5

(* Blocks of an earlier table have lower numbers.                             *)
LEMMA EarlierTable ==
    ASSUME NEW c \in Nat, StoreInv(c), NEW a \in 0..c - 1, NEW b \in 0..c - 1, a < b,
           NEW d, NEW e, In(a, d), In(b, e)
    PROVE  d.id < e.id
<1>1. PICK k \in 1..TableSize : d.id = a * TableSize + k
  BY TableBlock
<1>2. PICK m \in 1..TableSize : e.id = b * TableSize + m
  BY TableBlock
<1>3. a \in Nat /\ b \in Nat /\ TableSize \in Nat
  BY Sizes
<1>4. /\ a * TableSize \in Nat /\ b * TableSize \in Nat
      /\ a * TableSize + TableSize <= b * TableSize
  BY <1>3, Behind
<1>5. \A x, y \in Nat : x + TableSize <= y => x + k < y + m
  BY <1>3
<1> QED
  BY <1>1, <1>2, <1>4, <1>5

(* Every entry of a reply is a block of the log.                              *)
LEMMA ReplyBlock ==
    ASSUME NEW c \in Nat, StoreInv(c), NEW q, Answer(q, Len(mem), c), NEW i \in 1..Len(q.out)
    PROVE  q.out[i].id \in 1..Len(log) /\ log[q.out[i].id] = q.out[i] /\ Asked(q, q.out[i])
<1>1. Origin(q, q.out[i], Len(mem), c) /\ Asked(q, q.out[i])
  BY DEF Answer
<1>2. CASE \E a \in 0..c - 1 : In(a, q.out[i])
  BY <1>1, <1>2, TableBlock
<1>3. CASE \E k \in 1..Len(mem) : q.out[i] = log[c * TableSize + k]
  <2>1. PICK k \in 1..Len(mem) : q.out[i] = log[c * TableSize + k]
    BY <1>3
  <2>2. mem[k].id = c * TableSize + k /\ q.out[i] = mem[k]
    BY <2>1, MemPicked
  <2>3. /\ c * TableSize \in Nat /\ Len(mem) \in Nat /\ Len(log) = c * TableSize + Len(mem)
    BY MemPicked
  <2>4. c * TableSize + k \in 1..Len(log)
    BY <2>3
  <2> QED
    BY <1>1, <2>1, <2>2, <2>4
<1> QED
  BY <1>1, <1>2, <1>3 DEF Origin

(* Two entries of a reply are different blocks.                               *)
LEMMA ReplyDistinct ==
    ASSUME NEW c \in Nat, StoreInv(c), NEW q, Answer(q, Len(mem), c),
           NEW i \in 1..Len(q.out), NEW j \in 1..Len(q.out), i < j
    PROVE  q.out[i].id # q.out[j].id
<1> DEFINE d == q.out[i]
           e == q.out[j]
<1>1. Before(d, e, c)
  BY DEF Answer
<1>2. d.id \in 1..Len(log) /\ e.id \in 1..Len(log)
  BY ReplyBlock
<1>3. CASE d.id < e.id
  BY <1>2, <1>3
<1>4. ASSUME NEW a \in 0..c - 1, NEW b \in 0..c - 1, In(a, d), In(b, e), Name(a) < Name(b)
      PROVE  d.id # e.id
  <2>1. Name(a) \in Nat /\ Name(b) \in Nat
    BY ChunkEntries DEF StoreInv
  <2>2. a # b
    BY <1>4, <2>1
  <2> HIDE DEF d, e
  <2>3. d.id < e.id \/ e.id < d.id
    <3>1. CASE a < b
      BY <1>4, <3>1, EarlierTable
    <3>2. CASE b < a
      BY <1>4, <3>2, EarlierTable
    <3> QED
      BY <2>2, <3>1, <3>2
  <2> QED
    BY <1>2, <2>3
<1> QED
  BY <1>1, <1>3, <1>4 DEF Before

(* A reply has no block twice.                                                *)
LEMMA InvNoDuplicates == RangeInv => NoDuplicates
<1> SUFFICES ASSUME RangeInv, Replied PROVE NoDuplicates
  BY DEF NoDuplicates
<1>1. PICK c \in Nat : StoreInv(c) /\ Answer(reply, Len(mem), c)
  BY DEF RangeInv, Replied
<1>2. reply.out \in Seq(Entry) /\ DOMAIN reply.out = 1..Len(reply.out) /\ Len(reply.out) \in Nat
  BY <1>1, LenProperties DEF Answer, Fields
<1>3. IsInjective([i \in DOMAIN reply.out |-> reply.out[i].id])
  <2>1. \A i, j \in 1..Len(reply.out) : i < j => reply.out[i].id # reply.out[j].id
    BY <1>1, ReplyDistinct
  <2>2. \A i, j \in 1..Len(reply.out) : reply.out[i].id = reply.out[j].id => i = j
    BY <1>2, <2>1
  <2> QED
    BY <1>2, <2>2 DEF IsInjective
<1>4. Indices(reply.out) \subseteq Wanted
  <2> SUFFICES ASSUME NEW i \in 1..Len(reply.out) PROVE reply.out[i].id \in Wanted
    BY <1>2 DEF Indices
  <2>1. /\ reply.out[i].id \in 1..Len(log) /\ log[reply.out[i].id] = reply.out[i]
        /\ Asked(reply, reply.out[i])
    BY <1>1, ReplyBlock
  <2>2. DOMAIN log = 1..Len(log)
    BY <1>1, LenProperties DEF StoreInv, LogTyped
  <2> QED
    BY <2>1, <2>2 DEF Wanted, Asked, InRange
<1> QED
  BY <1>3, <1>4 DEF NoDuplicates

(* What the cache holds is the file, unless names collide.                    *)
LEMMA InvCacheCoherent == RangeInv => CacheCoherent
<1> SUFFICES ASSUME RangeInv, NamesDistinct, NEW key \in DOMAIN value
             PROVE  key[2] \in DOMAIN seg /\ value[key] = seg[key[2]]
  BY DEF CacheCoherent
<1>1. PICK c \in Nat : StoreInv(c)
  BY DEF RangeInv
<1>2. key[2] \in DOMAIN seg /\ FileOf(value[key], key[2], c)
  BY <1>1 DEF StoreInv, Cached
<1>3. FileOf(seg[key[2]], key[2], c)
  BY <1>1, <1>2 DEF StoreInv, Tables
<1>4. PICK a \in 0..c - 1 : value[key] = SstableWrite(Chunk(a)) /\ Name(a) = key[2]
  BY <1>2 DEF FileOf
<1>5. PICK b \in 0..c - 1 : seg[key[2]] = SstableWrite(Chunk(b)) /\ Name(b) = key[2]
  BY <1>3 DEF FileOf
<1>6. a = b
  BY <1>1, <1>4, <1>5, NameOfOne
<1> QED
  BY <1>2, <1>4, <1>5, <1>6

(* A range around every file name holds what it should.                       *)
LEMMA InvCoveringComplete == RangeInv => CoveringComplete
<1> SUFFICES ASSUME RangeInv, Replied, NamesDistinct,
                    \A t \in DOMAIN seg : reply.from <= t /\ t <= reply.to,
                    NEW i \in Wanted
             PROVE  i \in Indices(reply.out) \/ InFlight(i)
  BY DEF CoveringComplete
<1>1. PICK c \in Nat : StoreInv(c) /\ Answer(reply, Len(mem), c) /\ reply.files = {}
  BY DEF RangeInv, Replied
<1>2. /\ DOMAIN log = 1..Len(log) /\ Len(log) \in Nat /\ DOMAIN reply.out = 1..Len(reply.out)
  BY <1>1, LenProperties DEF StoreInv, LogTyped, Answer, Fields
<1>3. i \in 1..Len(log) /\ Asked(reply, log[i]) /\ log[i].id = i
  <2>1. i \in 1..Len(log)
    BY <1>2 DEF Wanted
  <2> QED
    BY <1>1, <2>1 DEF Wanted, Asked, InRange, StoreInv, LogTyped
<1>4. Shown(reply, log[i]) => i \in Indices(reply.out)
  BY <1>2, <1>3 DEF Shown, Indices
<1>5. TableSize \in Nat /\ TableSize >= 1 /\ c * TableSize \in Nat /\ Len(mem) \in Nat
      /\ Len(log) = c * TableSize + Len(mem)
  BY <1>1, MemPicked, Sizes
<1>6. CASE i > c * TableSize
  <2>1. i - c * TableSize \in 1..Len(mem) /\ c * TableSize + (i - c * TableSize) = i
    BY <1>3, <1>5, <1>6
  <2>2. Shown(reply, log[c * TableSize + (i - c * TableSize)])
    BY <1>1, <2>1 DEF Answer
  <2> QED
    BY <1>4, <2>1, <2>2
<1>7. CASE i <= c * TableSize
  <2>1. PICK a \in 0..c - 1 : \E k \in 1..TableSize : i = a * TableSize + k
    <3> DEFINE a == (i - 1) \div TableSize
               k == (i - 1) % TableSize
    <3>1. i - 1 \in Nat
      BY <1>3
    <3>2. a \in Nat /\ k \in Nat /\ k < TableSize /\ i - 1 = TableSize * a + k
      BY <1>5, <3>1, DivMod
    <3> HIDE DEF a, k
    <3>3. TableSize * a = a * TableSize /\ TableSize * c = c * TableSize /\ a * TableSize \in Nat
      BY <1>5, <3>2
    <3>4. ~ (c <= a)
      <4> SUFFICES ASSUME c <= a PROVE FALSE
        OBVIOUS
      <4>1. c = a \/ TableSize * c + TableSize <= TableSize * a
        BY <1>5, <3>2, Apart
      <4>2. c * TableSize <= a * TableSize
        BY <1>5, <3>3, <4>1
      <4> QED
        BY <1>3, <1>5, <1>7, <3>2, <3>3, <4>2
    <3>5. a \in 0..c - 1 /\ k + 1 \in 1..TableSize /\ i = a * TableSize + (k + 1)
      BY <1>3, <1>5, <3>2, <3>3, <3>4
    <3> QED
      BY <3>5
  <2>2. PICK k \in 1..TableSize : i = a * TableSize + k
    BY <2>1
  <2>3. Handled(reply, a, c)
    BY <1>1 DEF Answer
  <2>4. CASE Chunk(a) \in reply.unseen
    <3>1. Len(Chunk(a)) = TableSize /\ Chunk(a) \in Seq(Entry) /\ Chunk(a)[k].id = i
      BY <1>1, <2>2, ChunkEntries DEF StoreInv
    <3>2. k \in DOMAIN Chunk(a)
      BY <3>1, LenProperties
    <3> QED
      BY <2>4, <3>1, <3>2 DEF InFlight, Indices
  <2>5. ASSUME NEW b \in 0..c - 1, Name(b) = Name(a),
               \A m \in 1..TableSize : Shown(reply, log[b * TableSize + m])
        PROVE  i \in Indices(reply.out)
    <3>1. a = b
      BY <1>1, <2>5, NameOfOne
    <3> QED
      BY <1>4, <2>2, <2>5, <3>1
  <2> QED
    BY <1>1, <2>3, <2>4, <2>5 DEF Handled, InRange
<1> QED
  BY <1>3, <1>5, <1>6, <1>7

(* Blocks come in the order of their appends.                                 *)
LEMMA InvInOrder == RangeInv => InOrder
<1> SUFFICES ASSUME RangeInv, Replied, NamesDistinct,
                    \A t \in DOMAIN seg : LET e == SstableRead(seg[t]) IN
                        (\E i \in DOMAIN e : e[i].stream = reply.stream) =>
                            e[1].stream = reply.stream,
                    NEW i \in DOMAIN reply.out, NEW j \in DOMAIN reply.out, i < j
             PROVE  reply.out[i].id < reply.out[j].id
  BY DEF InOrder
<1>1. PICK c \in Nat : StoreInv(c) /\ Answer(reply, Len(mem), c) /\ reply.files = {}
  BY DEF RangeInv, Replied
<1>2. i \in 1..Len(reply.out) /\ j \in 1..Len(reply.out)
  BY <1>1, LenProperties DEF Answer, Fields
<1> DEFINE d == reply.out[i]
           e == reply.out[j]
<1>3. Before(d, e, c)
  BY <1>1, <1>2 DEF Answer
<1>4. d.stream = reply.stream /\ e.stream = reply.stream
  BY <1>1, <1>2 DEF Answer, Asked
<1> HIDE DEF d, e
<1>5. ASSUME NEW a \in 0..c - 1, NEW x, In(a, x), x.stream = reply.stream, Name(a) \in DOMAIN seg
      PROVE  Chunk(a)[1].stream = reply.stream
  <2>1. PICK b \in 0..c - 1 : seg[Name(a)] = SstableWrite(Chunk(b)) /\ Name(b) = Name(a)
    BY <1>1, <1>5 DEF StoreInv, Tables, FileOf
  <2>2. a = b
    BY <1>1, <2>1, NameOfOne
  <2>3. SstableRead(seg[Name(a)]) = Chunk(a)
    BY <1>1, <2>1, <2>2, FilePicked
  <2>4. Chunk(a) \in Seq(Entry) /\ Len(Chunk(a)) = TableSize
    BY <1>1, ChunkEntries DEF StoreInv
  <2>5. DOMAIN Chunk(a) = 1..TableSize
    BY <2>4, LenProperties
  <2>6. PICK k \in 1..TableSize : x = log[a * TableSize + k]
    BY <1>5 DEF In
  <2>7. Chunk(a)[k] = x
    BY <1>1, <2>6, ChunkEntries DEF StoreInv
  <2> QED
    BY <1>5, <2>3, <2>5, <2>6, <2>7
<1>6. ASSUME NEW a \in 0..c - 1, NEW b \in 0..c - 1, In(a, d), In(b, e), Name(a) < Name(b),
             Name(a) \in DOMAIN seg, Name(b) \in DOMAIN seg
      PROVE  d.id < e.id
  <2>1. Chunk(a)[1].stream = reply.stream /\ Chunk(b)[1].stream = reply.stream
    BY <1>4, <1>5, <1>6
  <2>2. 1 \in 1..TableSize /\ a \in Nat /\ b \in Nat
    BY Sizes
  <2>3. /\ a * TableSize + 1 \in 1..Len(log) /\ Chunk(a)[1] = log[a * TableSize + 1]
        /\ b * TableSize + 1 \in 1..Len(log) /\ Chunk(b)[1] = log[b * TableSize + 1]
        /\ Name(a) \in Nat /\ Name(b) \in Nat
    BY <1>1, <2>2, ChunkEntries DEF StoreInv
  <2>4. ~ (b < a)
    <3> SUFFICES ASSUME b < a PROVE FALSE
      OBVIOUS
    <3>1. b * TableSize + 1 < a * TableSize + 1
      <4>1. /\ b * TableSize \in Nat /\ a * TableSize \in Nat
            /\ b * TableSize + TableSize <= a * TableSize
        BY <2>2, Behind
      <4> QED
        BY <4>1, Sizes
    <3>2. log[b * TableSize + 1].ts <= log[a * TableSize + 1].ts
      BY <1>1, <2>1, <2>3, <3>1 DEF StoreInv, Clocked
    <3> QED
      BY <1>6, <2>3, <3>2 DEF Name
  <2>5. a < b
    BY <1>6, <2>2, <2>3, <2>4
  <2> QED
    BY <1>1, <1>6, <2>5, EarlierTable
<1> QED
  BY <1>3, <1>6 DEF Before, d, e

(* A reply holds blocks of the stream in the range, and none of them twice.   *)
THEOREM RepliesHaveNoDuplicates == Spec => []NoDuplicates
BY RangeInvariant, InvNoDuplicates, PTL

(* A range around all file names holds every block of the stream in it that   *)
(* was in a file or in the memtable.                                          *)
THEOREM CoveringAlwaysComplete == Spec => []CoveringComplete
BY RangeInvariant, InvCoveringComplete, PTL

(* Blocks come in the order of their appends, if files begin with the stream. *)
THEOREM RepliesAreOrdered == Spec => []InOrder
BY RangeInvariant, InvInOrder, PTL

(* What the cache holds is the file of that name, unless names collide.       *)
THEOREM CacheAlwaysCoherent == Spec => []CacheCoherent
BY RangeInvariant, InvCacheCoherent, PTL

=============================================================================
