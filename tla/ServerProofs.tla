---------------------------- MODULE ServerProofs ----------------------------
(***************************************************************************)
(* TLAPS proofs about the event loop: requests are cut out of the byte     *)
(* stream at their boundaries, every client reads its own replies in       *)
(* order, and what is executed for every link is a prefix of what the      *)
(* server executed, for any number of clients, slaves and requests, any    *)
(* lengths and any pieces they arrive in.                                  *)
(***************************************************************************)
EXTENDS Server, SequenceTheorems, WellFoundedInduction, TLAPS

Ids == Clients \X Nat
Reqs == [len : Nat, effect : {"run", "exit"}, id : Ids]

\* The types of the variables.
TypeInv ==
    /\ alive \in BOOLEAN
    /\ conn \in [Conns -> {"new", "open", "closed", "unset"}]
    /\ sent \in [Conns -> Seq(Reqs)]
    /\ got \in [Conns -> Nat] /\ pos \in [Conns -> Nat]
    /\ out = [c \in Conns |-> out[c]]
    /\ \A c \in Clients : out[c] \in Seq(Ids)
    /\ \A l \in Links : out[l] \in Seq(Reqs)
    /\ handled \in [Conns -> Seq(Ids)]
    /\ replies \in [Clients -> Seq(Ids)]
    /\ done \in Seq(Ids)

\* The read position is behind the requests handled, the first ones of the
\* connection, and no more has been read than was sent.
Aligned(c) ==
    /\ Len(handled[c]) <= Len(sent[c])
    /\ \A n \in 1..Len(handled[c]) : handled[c][n] = sent[c][n].id
    /\ pos[c] = StartOf(c, Len(handled[c]) + 1)
    /\ pos[c] <= got[c]
    /\ got[c] <= StartOf(c, Len(sent[c]) + 1)

\* The requests of a client are numbered, and so are the replies to them: those
\* read, and then those in the output buffer, up to the last request handled.
Numbered(c) ==
    /\ \A n \in 1..Len(sent[c]) : sent[c][n].id = <<c, n>>
    /\ \A n \in 1..Len(replies[c]) : replies[c][n] = <<c, n>>
    /\ \A n \in 1..Len(out[c]) : out[c][n] = <<c, Len(replies[c]) + n>>
    /\ alive /\ conn[c] # "closed" => Len(replies[c]) + Len(out[c]) = Len(handled[c])

\* What a slave has been sent is a prefix of what the server executed; with an
\* open connection the rest is in the output buffer.
Copied(l) ==
    /\ Len(sent[l]) <= Len(done)
    /\ \A n \in 1..Len(sent[l]) : sent[l][n].id = done[n]
    /\ conn[l] = "open" =>
        /\ Len(sent[l]) + Len(out[l]) = Len(done)
        /\ \A n \in 1..Len(out[l]) : out[l][n].id = done[Len(sent[l]) + n]

\* The inductive invariant.
ServerInv ==
    /\ TypeInv
    /\ \A c \in Conns : Aligned(c)
    /\ \A c \in Clients : Numbered(c)
    /\ \A l \in Links : Copied(l)

-----------------------------------------------------------------------------
(* Where requests start.  StartOf is a recursive function; that it exists,    *)
(* and that it depends on the requests before its argument only, is shown by  *)
(* a least counterexample.                                                    *)

IsStarts(g, w, n) ==
    g = [i \in 1..n |-> IF i = 1 THEN 0 ELSE g[i - 1] + Prefix + w[i - 1].len]

Offset(w, n) == (CHOOSE g : IsStarts(g, w, n))[n]

(* StartOf is the offset in the requests sent.                                *)
LEMMA StartOfIsOffset == \A c, n : StartOf(c, n) = Offset(sent[c], n)
BY DEF StartOf, Offset, IsStarts

(* The same in the next state.                                                *)
LEMMA StartOfIsOffsetNext == \A c, n : StartOf(c, n)' = Offset(sent'[c], n)
BY DEF StartOf, Offset, IsStarts

(* A set of natural numbers that is not empty has a least element.            *)
LEMMA LeastNat ==
    ASSUME NEW B \in SUBSET Nat, B # {}
    PROVE  \E n \in B : \A m \in B : n <= m
<1>1. PICK n \in B : \A m \in B : ~ (<<m, n>> \in OpToRel(<, Nat))
  BY NatLessThanWellFounded, WFMin
<1>2. \A m \in B : ~ (m < n)
  BY <1>1 DEF OpToRel
<1> QED
  BY <1>2

(* The recursion has a solution.                                              *)
LEMMA StartsExist ==
    ASSUME NEW w \in Seq(Reqs), NEW n \in 1..Len(w) + 1
    PROVE  \E g \in [1..n -> Nat] : IsStarts(g, w, n)
<1> DEFINE Solved(m) == \E g \in [1..m -> Nat] : IsStarts(g, w, m)
           B == {m \in Nat : m \in 1..Len(w) + 1 /\ ~ Solved(m)}
<1>1. Len(w) \in Nat /\ Prefix \in Nat /\ \A i \in 1..Len(w) : w[i].len \in Nat
  <2>1. Len(w) \in Nat /\ Prefix \in Nat
    BY LenProperties, ServerAssumption
  <2>2. \A i \in 1..Len(w) : w[i] \in Reqs
    BY ElementOfSeq
  <2> QED
    BY <2>1, <2>2 DEF Reqs
<1>2. Solved(1)
  <2> DEFINE g == [i \in 1..1 |-> 0]
  <2>1. g \in [1..1 -> Nat] /\ IsStarts(g, w, 1)
    BY DEF IsStarts
  <2> QED
    BY <2>1
<1>3. ASSUME NEW m \in 1..Len(w), Solved(m) PROVE Solved(m + 1)
  <2>1. PICK g \in [1..m -> Nat] : IsStarts(g, w, m)
    BY <1>3
  <2>2. \A i \in 1..m : g[i] = IF i = 1 THEN 0 ELSE g[i - 1] + Prefix + w[i - 1].len
    BY <2>1 DEF IsStarts
  <2> DEFINE h == [i \in 1..m + 1 |-> IF i = m + 1 THEN g[m] + Prefix + w[m].len ELSE g[i]]
  <2>3. m \in Nat /\ m \in 1..m /\ g[m] \in Nat /\ w[m].len \in Nat
    BY <1>1
  <2>4. h \in [1..m + 1 -> Nat]
    BY <1>1, <2>3
  <2>5. \A i \in 1..m + 1 : h[i] = IF i = 1 THEN 0 ELSE h[i - 1] + Prefix + w[i - 1].len
    <3> TAKE i \in 1..m + 1
    <3>1. CASE i = m + 1
      <4>1. h[i] = g[m] + Prefix + w[m].len /\ h[m] = g[m] /\ i # 1 /\ i - 1 = m
        BY <2>3, <3>1
      <4> QED
        BY <4>1
    <3>2. CASE i \in 1..m /\ i # 1
      <4>1. i - 1 \in 1..m /\ i - 1 # m + 1 /\ i # m + 1 /\ i - 1 \in 1..m + 1
        BY <2>3, <3>2
      <4>2. h[i] = g[i] /\ h[i - 1] = g[i - 1]
        BY <4>1
      <4> QED
        BY <2>2, <3>2, <4>2
    <3>3. CASE i = 1
      BY <2>2, <2>3, <3>3
    <3> QED
      BY <2>3, <3>1, <3>2, <3>3
  <2>6. IsStarts(h, w, m + 1)
    BY <2>4, <2>5 DEF IsStarts
  <2> HIDE DEF h
  <2> QED
    BY <2>4, <2>6
<1> HIDE DEF Solved
<1>4. B = {}
  <2> SUFFICES ASSUME B # {} PROVE FALSE
    OBVIOUS
  <2>1. PICK m \in B : \A k \in B : m <= k
    BY LeastNat
  <2>2. m # 1 /\ m - 1 \in 1..Len(w) /\ m - 1 \in Nat
    BY <1>1, <1>2, <2>1
  <2>3. Solved(m - 1)
    BY <2>1, <2>2, <1>1
  <2>4. Solved((m - 1) + 1) /\ (m - 1) + 1 = m
    BY <1>3, <2>2, <2>3, <2>1
  <2> QED
    BY <2>1, <2>4
<1>5. Solved(n)
  BY <1>1, <1>4
<1> QED
  BY <1>5 DEF Solved

(* Where a request starts depends on the requests before it only.             *)
LEMMA StartsAgree ==
    ASSUME NEW w, NEW v, NEW g, NEW h, NEW n \in Nat, NEW m \in Nat, n <= m,
           IsStarts(g, w, n), IsStarts(h, v, m),
           \A i \in 1..n - 1 : w[i].len = v[i].len
    PROVE  \A i \in 1..n : g[i] = h[i]
<1> DEFINE B == {i \in Nat : i \in 1..n /\ g[i] # h[i]}
<1>1. \A i \in 1..n :
        /\ g[i] = IF i = 1 THEN 0 ELSE g[i - 1] + Prefix + w[i - 1].len
        /\ h[i] = IF i = 1 THEN 0 ELSE h[i - 1] + Prefix + v[i - 1].len
  BY DEF IsStarts
<1>2. B = {}
  <2> SUFFICES ASSUME B # {} PROVE FALSE
    OBVIOUS
  <2>1. PICK i \in B : \A k \in B : i <= k
    BY LeastNat
  <2>2. i \in 1..n /\ g[i] # h[i]
    BY <2>1
  <2>3. i # 1
    BY <1>1, <2>2
  <2>4. i - 1 \in 1..n - 1 /\ i - 1 \in 1..n /\ i - 1 \in Nat /\ ~ (i <= i - 1)
    BY <2>2, <2>3
  <2>5. g[i - 1] = h[i - 1]
    BY <2>1, <2>4
  <2>6. w[i - 1].len = v[i - 1].len
    BY <2>4
  <2> QED
    BY <1>1, <2>2, <2>3, <2>5, <2>6
<1> QED
  BY <1>2

(* The offset of request n, from the requests before it.                      *)
LEMMA OffsetPrefix ==
    ASSUME NEW w \in Seq(Reqs), NEW v \in Seq(Reqs), NEW n \in 1..Len(w) + 1,
           n <= Len(v) + 1, \A i \in 1..n - 1 : w[i] = v[i]
    PROVE  Offset(w, n) = Offset(v, n)
<1>1. Len(w) \in Nat /\ Len(v) \in Nat /\ n \in Nat /\ n \in 1..Len(v) + 1 /\ n \in 1..n
  BY LenProperties
<1> DEFINE g == CHOOSE g : IsStarts(g, w, n)
           h == CHOOSE h : IsStarts(h, v, n)
<1>2. IsStarts(g, w, n) /\ IsStarts(h, v, n)
  BY <1>1, StartsExist
<1> HIDE DEF g, h
<1>3. \A i \in 1..n - 1 : w[i].len = v[i].len
  OBVIOUS
<1>4. g[n] = h[n]
  BY <1>1, <1>2, <1>3, StartsAgree
<1> QED
  BY <1>4 DEF Offset, g, h

(* Requests follow each other without a gap.                                  *)
LEMMA OffsetStep ==
    ASSUME NEW w \in Seq(Reqs)
    PROVE  /\ Offset(w, 1) = 0
           /\ \A n \in 1..Len(w) + 1 : Offset(w, n) \in Nat
           /\ \A n \in 1..Len(w) : Offset(w, n + 1) = Offset(w, n) + Prefix + w[n].len
<1>1. Len(w) \in Nat
  BY LenProperties
<1>2. ASSUME NEW n \in 1..Len(w) + 1 PROVE IsStarts(CHOOSE g : IsStarts(g, w, n), w, n)
  BY StartsExist
<1>3. ASSUME NEW n \in 1..Len(w)
      PROVE  Offset(w, n + 1) = Offset(w, n) + Prefix + w[n].len
  <2> DEFINE g == CHOOSE g : IsStarts(g, w, n)
             h == CHOOSE h : IsStarts(h, w, n + 1)
  <2>1. n \in Nat /\ n + 1 \in Nat /\ n + 1 \in 1..Len(w) + 1 /\ n <= n + 1
        /\ n \in 1..Len(w) + 1 /\ n \in 1..n /\ n + 1 \in 1..n + 1
        /\ n + 1 # 1 /\ (n + 1) - 1 = n
    BY <1>1
  <2>2. IsStarts(g, w, n) /\ IsStarts(h, w, n + 1)
    BY <1>2, <2>1
  <2>3. Offset(w, n) = g[n] /\ Offset(w, n + 1) = h[n + 1]
    BY DEF Offset
  <2> HIDE DEF g, h
  <2>4. g[n] = h[n]
    BY <2>1, <2>2, StartsAgree
  <2>5. h[n + 1] = h[n] + Prefix + w[n].len
    <3>1. \A i \in 1..n + 1 : h[i] = IF i = 1 THEN 0 ELSE h[i - 1] + Prefix + w[i - 1].len
      BY <2>2 DEF IsStarts
    <3> QED
      BY <2>1, <3>1
  <2> QED
    BY <2>3, <2>4, <2>5
<1>4. Offset(w, 1) = 0
  <2>1. 1 \in 1..Len(w) + 1
    BY <1>1
  <2> DEFINE g == CHOOSE g : IsStarts(g, w, 1)
  <2>2. IsStarts(g, w, 1)
    BY <1>2, <2>1
  <2>3. Offset(w, 1) = g[1]
    BY DEF Offset
  <2> HIDE DEF g
  <2> QED
    BY <2>2, <2>3 DEF IsStarts
<1>5. ASSUME NEW n \in 1..Len(w) + 1 PROVE Offset(w, n) \in Nat
  <2>1. PICK g \in [1..n -> Nat] : IsStarts(g, w, n)
    BY StartsExist
  <2> DEFINE h == CHOOSE h : IsStarts(h, w, n)
  <2>2. IsStarts(h, w, n) /\ Offset(w, n) = h[n]
    BY <1>2 DEF Offset
  <2> HIDE DEF h
  <2>3. n \in Nat /\ n \in 1..n
    BY <1>1
  <2>4. g[n] = h[n]
    BY <2>1, <2>2, <2>3, StartsAgree
  <2> QED
    BY <2>2, <2>3, <2>4
<1> QED
  BY <1>3, <1>4, <1>5

(* Two requests never start at the same place.                                *)
LEMMA OffsetIncreases ==
    ASSUME NEW w \in Seq(Reqs), NEW m \in 1..Len(w) + 1, NEW n \in 1..Len(w) + 1, m < n
    PROVE  Offset(w, m) + Prefix <= Offset(w, n)
<1> DEFINE B == {k \in Nat : k \in m + 1..Len(w) + 1 /\ ~ (Offset(w, m) + Prefix <= Offset(w, k))}
<1>1. Len(w) \in Nat /\ Prefix \in Nat /\ \A i \in 1..Len(w) : w[i].len \in Nat
  <2>1. Len(w) \in Nat /\ Prefix \in Nat
    BY LenProperties, ServerAssumption
  <2>2. \A i \in 1..Len(w) : w[i] \in Reqs
    BY ElementOfSeq
  <2> QED
    BY <2>1, <2>2 DEF Reqs
<1>2. B = {}
  <2> SUFFICES ASSUME B # {} PROVE FALSE
    OBVIOUS
  <2>1. PICK k \in B : \A i \in B : k <= i
    BY LeastNat
  <2>2. k \in m + 1..Len(w) + 1 /\ ~ (Offset(w, m) + Prefix <= Offset(w, k))
    BY <2>1
  <2>3. k - 1 \in 1..Len(w) /\ k - 1 \in Nat /\ (k - 1) + 1 = k
    BY <1>1, <2>2
  <2>4. /\ Offset(w, k) = Offset(w, k - 1) + Prefix + w[k - 1].len
        /\ Offset(w, k - 1) \in Nat /\ Offset(w, m) \in Nat /\ Offset(w, k) \in Nat
        /\ w[k - 1].len \in Nat
    <3>1. Offset(w, (k - 1) + 1) = Offset(w, k - 1) + Prefix + w[k - 1].len
      BY <2>3, OffsetStep
    <3>2. k - 1 \in 1..Len(w) + 1 /\ k \in 1..Len(w) + 1
      BY <1>1, <2>2, <2>3
    <3> QED
      BY <1>1, <2>3, <3>1, <3>2, OffsetStep
  <2>5. CASE k - 1 = m
    BY <1>1, <2>2, <2>4, <2>5
  <2>6. CASE k - 1 # m
    <3>1. k - 1 \in m + 1..Len(w) + 1 /\ ~ (k <= k - 1)
      BY <1>1, <2>2, <2>3, <2>6
    <3>2. Offset(w, m) + Prefix <= Offset(w, k - 1)
      BY <2>1, <2>3, <3>1
    <3> QED
      BY <1>1, <2>2, <2>4, <3>2
  <2> QED
    BY <2>5, <2>6
<1>3. n \in m + 1..Len(w) + 1 /\ n \in Nat
  BY <1>1
<1> QED
  BY <1>2, <1>3

-----------------------------------------------------------------------------
(* Steps *)

(* One element more at the end of a sequence.                                 *)
LEMMA AddOne ==
    ASSUME NEW S, NEW q \in Seq(S), NEW e \in S
    PROVE  /\ q \o <<e>> \in Seq(S) /\ Len(q) \in Nat
           /\ Len(q \o <<e>>) = Len(q) + 1
           /\ \A n \in 1..Len(q) : (q \o <<e>>)[n] = q[n]
           /\ (q \o <<e>>)[Len(q) + 1] = e
<1>1. Append(q, e) = q \o <<e>>
  BY AppendIsConcat
<1> QED
  BY <1>1, AppendProperties, LenProperties

(* The types of the fields of one connection.                                 *)
LEMMA ConnTypes ==
    ASSUME TypeInv, NEW c \in Conns
    PROVE  /\ sent[c] \in Seq(Reqs) /\ Len(sent[c]) \in Nat
           /\ \A n \in 1..Len(sent[c]) : sent[c][n] \in Reqs
           /\ handled[c] \in Seq(Ids) /\ Len(handled[c]) \in Nat
           /\ got[c] \in Nat /\ pos[c] \in Nat
           /\ Prefix \in Nat /\ Prefix > 0
           /\ done \in Seq(Ids) /\ Len(done) \in Nat
<1>1. /\ sent[c] \in Seq(Reqs) /\ handled[c] \in Seq(Ids) /\ done \in Seq(Ids)
      /\ got[c] \in Nat /\ pos[c] \in Nat
  BY DEF TypeInv
<1> QED
  BY <1>1, ServerAssumption, LenProperties, ElementOfSeq

(* What a read callback finds: the request at the read position is the next   *)
(* one, and what is drained of it is all of it or nothing.                    *)
LEMMA ReadsNext ==
    ASSUME ServerInv, NEW c \in Conns, NEW k \in Arrivals(c),
           NEW m, m = Len(handled[c]) + 1, NEW avail, avail = got[c] + k - pos[c]
    PROVE  /\ m \in 1..Len(sent[c]) /\ Request(c) = sent[c][m]
           /\ k \in Nat /\ avail \in Nat
           /\ got[c] + k <= StartOf(c, Len(sent[c]) + 1)
           /\ LengthPrefix(c, avail) > 0 =>
                /\ pos[c] + Drained(c, avail) = StartOf(c, m + 1)
                /\ StartOf(c, m + 1) <= got[c] + k
           /\ ~ (LengthPrefix(c, avail) > 0) => Drained(c, avail) = 0
<1> DEFINE w == sent[c]
<1>1. /\ w \in Seq(Reqs) /\ Len(w) \in Nat /\ Len(handled[c]) \in Nat
      /\ \A n \in 1..Len(w) : w[n] \in Reqs
      /\ got[c] \in Nat /\ pos[c] \in Nat /\ Prefix \in Nat /\ Prefix > 0
  BY ConnTypes DEF ServerInv
<1>2. /\ Len(handled[c]) <= Len(w) /\ pos[c] = Offset(w, m)
      /\ pos[c] <= got[c] /\ got[c] <= Offset(w, Len(w) + 1)
  BY StartOfIsOffset DEF ServerInv, Aligned
<1>3. Len(w) + 1 \in 1..Len(w) + 1
  BY <1>1
<1>4. Offset(w, Len(w) + 1) \in Nat
  BY <1>1, <1>3, OffsetStep
<1>5. k \in 1..Offset(w, Len(w) + 1) - got[c]
  BY StartOfIsOffset DEF Arrivals
<1>6. k \in Nat /\ k > 0 /\ got[c] + k <= Offset(w, Len(w) + 1)
      /\ avail \in Nat /\ avail = got[c] + k - pos[c]
  BY <1>1, <1>2, <1>4, <1>5
<1>7. m \in 1..Len(w)
  <2>1. m # Len(w) + 1
    BY <1>1, <1>2, <1>4, <1>6
  <2> QED
    BY <1>1, <1>2, <2>1
<1> HIDE DEF w
<1>8. AtPos(c) = {m}
  <2>1. AtPos(c) = {n \in 1..Len(w) : Offset(w, n) = Offset(w, m)}
    <3>1. DOMAIN w = 1..Len(w)
      BY <1>1, LenProperties
    <3> QED
      BY <1>2, <3>1, StartOfIsOffset DEF AtPos, w
  <2>2. ASSUME NEW n \in 1..Len(w), Offset(w, n) = Offset(w, m) PROVE n = m
    <3>1. n \in 1..Len(w) + 1 /\ m \in 1..Len(w) + 1
      BY <1>1, <1>7
    <3>2. Offset(w, m) \in Nat
      BY <1>1, <3>1, OffsetStep
    <3>3. ~ (n < m)
      <4>1. n < m => Offset(w, n) + Prefix <= Offset(w, m)
        BY <1>1, <3>1, OffsetIncreases
      <4> QED
        BY <1>1, <2>2, <3>2, <4>1
    <3>4. ~ (m < n)
      <4>1. m < n => Offset(w, m) + Prefix <= Offset(w, n)
        BY <1>1, <3>1, OffsetIncreases
      <4> QED
        BY <1>1, <2>2, <3>2, <4>1
    <3> QED
      BY <1>1, <1>7, <3>3, <3>4
  <2> QED
    BY <1>7, <2>1, <2>2
<1>9. Request(c) = w[m]
  BY <1>8 DEF Request, w
<1>10. w[m].len \in Nat
  BY <1>1, <1>7 DEF Reqs
<1>11. Offset(w, m + 1) = Offset(w, m) + Prefix + w[m].len
  BY <1>1, <1>7, OffsetStep
<1>12. ASSUME LengthPrefix(c, avail) > 0
       PROVE  /\ pos[c] + Drained(c, avail) = Offset(w, m + 1)
              /\ Offset(w, m + 1) <= got[c] + k
  <2>1. LengthPrefix(c, avail) = w[m].len /\ avail >= Prefix + w[m].len
    BY <1>1, <1>6, <1>9, <1>10, <1>12 DEF LengthPrefix
  <2>2. Drained(c, avail) = Prefix + w[m].len
    BY <1>12, <2>1 DEF Drained
  <2>3. pos[c] + Drained(c, avail) = Offset(w, m + 1)
    BY <1>1, <1>2, <1>10, <1>11, <2>2
  <2>4. pos[c] + (Prefix + w[m].len) <= got[c] + k
    <3>1. \A a, l, g, p, j, q \in Nat : a = g + j - p /\ a >= q + l => p + (q + l) <= g + j
      OBVIOUS
    <3>2. Prefix \in Nat /\ got[c] \in Nat /\ pos[c] \in Nat
      BY <1>1
    <3> QED
      BY <1>6, <1>10, <2>1, <3>1, <3>2, Zenon
  <2> QED
    BY <2>2, <2>3, <2>4
<1>13. ~ (LengthPrefix(c, avail) > 0) => Drained(c, avail) = 0
  BY DEF Drained
<1> QED
  BY <1>6, <1>7, <1>9, <1>12, <1>13, StartOfIsOffset DEF w

(* A connection stays aligned when only more requests are sent on it.         *)
LEMMA AlignedSend ==
    ASSUME TypeInv, NEW c \in Conns, Aligned(c),
           handled'[c] = handled[c], pos'[c] = pos[c], got'[c] = got[c],
           sent'[c] \in Seq(Reqs), Len(sent[c]) <= Len(sent'[c]),
           \A n \in 1..Len(sent[c]) : sent'[c][n] = sent[c][n]
    PROVE  Aligned(c)'
<1> DEFINE w == sent[c]
           v == sent'[c]
           m == Len(handled[c]) + 1
<1>1. /\ w \in Seq(Reqs) /\ Len(w) \in Nat /\ Len(handled[c]) \in Nat
      /\ v \in Seq(Reqs) /\ Len(v) \in Nat /\ got[c] \in Nat /\ pos[c] \in Nat
      /\ Prefix \in Nat
  BY ConnTypes, LenProperties
<1>2. /\ Len(handled[c]) <= Len(w) /\ pos[c] = Offset(w, m)
      /\ \A n \in 1..Len(handled[c]) : handled[c][n] = w[n].id
      /\ pos[c] <= got[c] /\ got[c] <= Offset(w, Len(w) + 1)
  BY StartOfIsOffset DEF Aligned
<1>3. Len(w) <= Len(v) /\ \A n \in 1..Len(w) : v[n] = w[n]
  OBVIOUS
<1> HIDE DEF w, v
<1>4. ASSUME NEW n \in 1..Len(w) + 1 PROVE Offset(v, n) = Offset(w, n)
  <2>1. n <= Len(v) + 1 /\ \A i \in 1..n - 1 : w[i] = v[i]
    BY <1>1, <1>3
  <2> QED
    BY <1>1, <2>1, OffsetPrefix
<1>5. m \in 1..Len(w) + 1 /\ Len(w) + 1 \in 1..Len(w) + 1 /\ Len(v) + 1 \in 1..Len(v) + 1
      /\ Len(w) + 1 \in 1..Len(v) + 1
  BY <1>1, <1>2, <1>3
<1>6. Offset(w, Len(w) + 1) <= Offset(v, Len(v) + 1)
  <2>1. Offset(v, Len(w) + 1) = Offset(w, Len(w) + 1)
    BY <1>4, <1>5
  <2>2. Offset(v, Len(w) + 1) \in Nat /\ Offset(v, Len(v) + 1) \in Nat
    BY <1>1, <1>5, OffsetStep
  <2>3. CASE Len(w) = Len(v)
    BY <2>1, <2>2, <2>3
  <2>4. CASE Len(w) < Len(v)
    <3>1. Len(w) + 1 < Len(v) + 1
      BY <1>1, <2>4
    <3>2. Offset(v, Len(w) + 1) + Prefix <= Offset(v, Len(v) + 1)
      BY <1>1, <1>5, <3>1, OffsetIncreases
    <3> QED
      BY <1>1, <2>1, <2>2, <3>2
  <2> QED
    BY <1>1, <1>3, <2>3, <2>4
<1>7. pos[c] = Offset(v, m) /\ got[c] <= Offset(v, Len(v) + 1)
  <2>1. Offset(w, Len(w) + 1) \in Nat /\ Offset(v, Len(v) + 1) \in Nat
    BY <1>1, <1>5, OffsetStep
  <2> QED
    BY <1>1, <1>2, <1>4, <1>5, <1>6, <2>1
<1>8. \A n \in 1..Len(handled[c]) : handled[c][n] = v[n].id
  <2>1. \A n \in 1..Len(handled[c]) : n \in 1..Len(w)
    BY <1>1, <1>2
  <2> QED
    BY <1>2, <1>3, <2>1
<1>9. Len(handled[c]) <= Len(v)
  BY <1>1, <1>2, <1>3
<1> QED
  BY <1>2, <1>7, <1>8, <1>9, StartOfIsOffsetNext DEF Aligned, w, v

(* A read callback keeps its connection aligned: it executes the next request *)
(* and drains it, or does neither.                                            *)
LEMMA AlignedRead ==
    ASSUME ServerInv, NEW c \in Conns, NEW k \in Arrivals(c),
           NEW avail, avail = got[c] + k - pos[c],
           sent' = sent, got'[c] = got[c] + k, pos'[c] = pos[c] + Drained(c, avail),
           handled'[c] = IF LengthPrefix(c, avail) > 0
                         THEN Append(handled[c], Request(c).id) ELSE handled[c]
    PROVE  Aligned(c)' /\ handled'[c] \in Seq(Ids) /\ got'[c] \in Nat /\ pos'[c] \in Nat
<1> DEFINE m == Len(handled[c]) + 1
<1>1. /\ m \in 1..Len(sent[c]) /\ Request(c) = sent[c][m] /\ k \in Nat
      /\ got[c] + k <= StartOf(c, Len(sent[c]) + 1)
      /\ LengthPrefix(c, avail) > 0 => /\ pos[c] + Drained(c, avail) = StartOf(c, m + 1)
                                       /\ StartOf(c, m + 1) <= got[c] + k
      /\ ~ (LengthPrefix(c, avail) > 0) => Drained(c, avail) = 0
  BY ReadsNext
<1>2. /\ sent[c] \in Seq(Reqs) /\ Len(sent[c]) \in Nat
      /\ \A n \in 1..Len(sent[c]) : sent[c][n] \in Reqs
      /\ handled[c] \in Seq(Ids) /\ Len(handled[c]) \in Nat
      /\ got[c] \in Nat /\ pos[c] \in Nat
  BY ConnTypes DEF ServerInv
<1>3. /\ Len(handled[c]) <= Len(sent[c]) /\ pos[c] = StartOf(c, m) /\ pos[c] <= got[c]
      /\ \A n \in 1..Len(handled[c]) : handled[c][n] = sent[c][n].id
  BY DEF ServerInv, Aligned
<1>4. \A n : StartOf(c, n)' = StartOf(c, n)
  BY StartOfIsOffset, StartOfIsOffsetNext
<1>5. CASE LengthPrefix(c, avail) > 0
  <2> DEFINE id == sent[c][m].id
  <2>1. handled'[c] = Append(handled[c], id) /\ id \in Ids
    BY <1>1, <1>2, <1>5 DEF Reqs
  <2> HIDE DEF id
  <2>2. /\ handled'[c] \in Seq(Ids) /\ Len(handled'[c]) = m
        /\ \A n \in 1..Len(handled[c]) : handled'[c][n] = handled[c][n]
        /\ handled'[c][m] = id
    <3>1. /\ Append(handled[c], id) \in Seq(Ids)
          /\ Len(Append(handled[c], id)) = Len(handled[c]) + 1
          /\ \A n \in 1..Len(handled[c]) : Append(handled[c], id)[n] = handled[c][n]
          /\ Append(handled[c], id)[Len(handled[c]) + 1] = id
      BY <1>2, <2>1, AppendProperties
    <3> QED
      BY <2>1, <3>1
  <2>3. \A n \in 1..m : handled'[c][n] = sent[c][n].id
    BY <1>2, <1>3, <2>2 DEF id
  <2>4. pos'[c] = StartOf(c, m + 1) /\ pos'[c] <= got'[c]
    BY <1>1, <1>5
  <2>5. pos'[c] \in Nat
    <3>1. m + 1 \in 1..Len(sent[c]) + 1
      BY <1>1, <1>2
    <3> QED
      BY <1>2, <2>4, <3>1, OffsetStep, StartOfIsOffset
  <2>6. Aligned(c)'
    <3>1. /\ Len(handled'[c]) <= Len(sent'[c])
          /\ \A n \in 1..Len(handled'[c]) : handled'[c][n] = sent'[c][n].id
      BY <1>1, <1>2, <2>2, <2>3
    <3>2. /\ pos'[c] = Offset(sent'[c], Len(handled'[c]) + 1)
          /\ got'[c] <= Offset(sent'[c], Len(sent'[c]) + 1)
      BY <1>1, <2>2, <2>4, StartOfIsOffset
    <3> QED
      BY <2>4, <3>1, <3>2, StartOfIsOffsetNext DEF Aligned
  <2>7. got'[c] \in Nat
    BY <1>1, <1>2
  <2> QED
    BY <2>2, <2>5, <2>6, <2>7
<1>6. CASE ~ (LengthPrefix(c, avail) > 0)
  <2>1. handled'[c] = handled[c] /\ pos'[c] = pos[c] /\ pos'[c] <= got'[c] /\ got'[c] \in Nat
    BY <1>1, <1>2, <1>3, <1>6
  <2> QED
    BY <1>1, <1>2, <1>3, <1>4, <2>1 DEF Aligned
<1> QED
  BY <1>5, <1>6

(* The invariant holds initially.                                             *)
LEMMA ServerInitInv == Init => ServerInv
<1> SUFFICES ASSUME Init PROVE ServerInv
  OBVIOUS
<1>1. TypeInv
  <2>1. <<>> \in Seq(Ids) /\ <<>> \in Seq(Reqs)
    BY EmptySeq
  <2> QED
    BY <2>1 DEF Init, TypeInv, Conns
<1>2. \A c \in Conns : /\ sent[c] = <<>> /\ handled[c] = <<>> /\ out[c] = <<>>
                       /\ got[c] = 0 /\ pos[c] = 0
  BY DEF Init
<1>3. Len(<<>>) = 0 /\ Offset(<<>>, 1) = 0
  <2>1. <<>> \in Seq(Reqs)
    BY EmptySeq
  <2> QED
    BY <2>1, OffsetStep
<1>4. \A c \in Conns : Aligned(c)
  BY <1>2, <1>3, StartOfIsOffset DEF Aligned
<1>5. \A c \in Clients : Numbered(c)
  BY <1>2, <1>3 DEF Numbered, Init, Conns
<1>6. \A l \in Links : Copied(l)
  BY <1>2, <1>3 DEF Copied, Init, Conns
<1> QED
  BY <1>1, <1>4, <1>5, <1>6 DEF ServerInv

(* Connections whose part of the state a step leaves alone keep their part of *)
(* the invariant.                                                             *)
LEMMA AlignedSame ==
    ASSUME NEW c \in Conns, Aligned(c), handled'[c] = handled[c], pos'[c] = pos[c],
           got'[c] = got[c], sent'[c] = sent[c]
    PROVE  Aligned(c)'
BY StartOfIsOffset, StartOfIsOffsetNext DEF Aligned

(* The same for the numbering of a client.                                    *)
LEMMA NumberedSame ==
    ASSUME NEW c \in Clients, Numbered(c), handled'[c] = handled[c], out'[c] = out[c],
           replies'[c] = replies[c], sent'[c] = sent[c],
           alive' => alive, conn'[c] # "closed" => conn[c] # "closed"
    PROVE  Numbered(c)'
BY DEF Numbered

(* The same for the copies of a slave.                                        *)
LEMMA CopiedSame ==
    ASSUME NEW l \in Links, Copied(l), out'[l] = out[l], sent'[l] = sent[l],
           done' = done, conn'[l] = "open" => conn[l] = "open"
    PROVE  Copied(l)'
BY DEF Copied

(* racs_accept_callback, and a fault that ends the process.                   *)
LEMMA AcceptInv ==
    ASSUME ServerInv, (\E c \in Clients : Accept(c))
                        \/ (\E c \in Clients : \E k \in Nat : BroadcastFault(c, k))
    PROVE  ServerInv'
<1>1. /\ UNCHANGED <<sent, got, pos, out, handled, replies, done>>
      /\ alive' \in BOOLEAN /\ (alive' => alive)
      /\ conn' \in [Conns -> {"new", "open", "closed", "unset"}]
      /\ \A c \in Conns : conn'[c] = conn[c] \/ (c \in Clients /\ conn[c] = "new")
  BY DEF Accept, BroadcastFault, ServerInv, TypeInv
<1>2. TypeInv'
  BY <1>1 DEF ServerInv, TypeInv
<1>3. \A c \in Conns : Aligned(c)'
  BY <1>1, AlignedSame DEF ServerInv
<1>4. ASSUME NEW c \in Clients PROVE Numbered(c)'
  BY <1>1, NumberedSame DEF ServerInv, Conns
<1>5. ASSUME NEW l \in Links PROVE Copied(l)'
  <2>1. l \notin Clients /\ l \in Conns
    BY ServerAssumption DEF Conns, Links
  <2> QED
    BY <1>1, <2>1, CopiedSame DEF ServerInv
<1> QED
  BY <1>2, <1>3, <1>4, <1>5 DEF ServerInv

(* A client sends one more request, with the next number.                     *)
LEMMA SendInv ==
    ASSUME ServerInv, NEW c \in Clients, NEW r \in Requests[c], Send(c, r)
    PROVE  ServerInv'
<1> DEFINE q == [len |-> r.len, effect |-> r.effect, id |-> <<c, Len(sent[c]) + 1>>]
<1>1. c \in Conns
  BY DEF Conns
<1>2. /\ sent[c] \in Seq(Reqs) /\ Len(sent[c]) \in Nat
  BY <1>1, ConnTypes DEF ServerInv
<1>3. q \in Reqs /\ q.id = <<c, Len(sent[c]) + 1>>
  BY <1>2, RequestsAssumption DEF Reqs, Ids
<1>4. /\ UNCHANGED <<alive, conn, got, pos, out, handled, replies, done>>
      /\ sent' = [sent EXCEPT ![c] = Append(sent[c], q)]
  BY DEF Send
<1> HIDE DEF q
<1>5. /\ Append(sent[c], q) \in Seq(Reqs) /\ Len(Append(sent[c], q)) = Len(sent[c]) + 1
      /\ \A n \in 1..Len(sent[c]) : Append(sent[c], q)[n] = sent[c][n]
      /\ Append(sent[c], q)[Len(sent[c]) + 1] = q
  BY <1>2, <1>3, AppendProperties
<1>6. TypeInv'
  <2>1. sent' \in [Conns -> Seq(Reqs)]
    BY <1>4, <1>5 DEF ServerInv, TypeInv
  <2> QED
    BY <1>4, <2>1 DEF ServerInv, TypeInv
<1>7. sent'[c] = Append(sent[c], q) /\ \A x \in Conns : x # c => sent'[x] = sent[x]
  BY <1>1, <1>4 DEF ServerInv, TypeInv
<1>8. ASSUME NEW x \in Conns PROVE Aligned(x)'
  <2>1. CASE x = c
    <3>1. Len(sent[c]) <= Len(sent'[c]) /\ sent'[c] \in Seq(Reqs)
          /\ \A n \in 1..Len(sent[c]) : sent'[c][n] = sent[c][n]
      BY <1>2, <1>5, <1>7
    <3> QED
      BY <1>4, <2>1, <3>1, AlignedSend DEF ServerInv
  <2>2. CASE x # c
    BY <1>4, <1>7, <2>2, AlignedSame DEF ServerInv
  <2> QED
    BY <2>1, <2>2
<1>9. ASSUME NEW x \in Clients PROVE Numbered(x)'
  <2>1. CASE x = c
    <3>1. \A n \in 1..Len(sent'[c]) : sent'[c][n].id = <<c, n>>
      <4> SUFFICES ASSUME NEW n \in 1..Len(sent[c]) + 1 PROVE sent'[c][n].id = <<c, n>>
        BY <1>5, <1>7
      <4>1. CASE n = Len(sent[c]) + 1
        BY <1>3, <1>5, <1>7, <4>1
      <4>2. CASE n \in 1..Len(sent[c])
        <5>1. sent[c][n].id = <<c, n>>
          BY <4>2 DEF ServerInv, Numbered
        <5> QED
          BY <1>5, <1>7, <4>2, <5>1
      <4> QED
        BY <1>2, <4>1, <4>2
    <3> QED
      BY <1>4, <2>1, <3>1 DEF ServerInv, Numbered
  <2>2. CASE x # c
    <3>1. x \in Conns
      BY DEF Conns
    <3> QED
      BY <1>4, <1>7, <2>2, <3>1, NumberedSame DEF ServerInv
  <2> QED
    BY <2>1, <2>2
<1>10. ASSUME NEW l \in Links PROVE Copied(l)'
  <2>1. l # c /\ l \in Conns
    BY ServerAssumption DEF Conns, Links
  <2> QED
    BY <1>4, <1>7, <2>1, CopiedSame DEF ServerInv
<1> QED
  BY <1>6, <1>8, <1>9, <1>10 DEF ServerInv

(* racs_event_callback: what was in the output buffer is lost, and the        *)
(* connection is used no more.                                                *)
LEMMA DisconnectInv ==
    ASSUME ServerInv, NEW c \in Conns, Disconnect(c)
    PROVE  ServerInv'
<1>1. /\ UNCHANGED <<alive, sent, got, pos, handled, replies, done>>
      /\ conn' \in [Conns -> {"new", "open", "closed", "unset"}]
      /\ conn'[c] = "closed" /\ out'[c] = <<>> /\ out' = [x \in Conns |-> out'[x]]
      /\ \A x \in Conns : x # c => conn'[x] = conn[x] /\ out'[x] = out[x]
  BY DEF Disconnect, ServerInv, TypeInv
<1>2. TypeInv'
  <2>1. <<>> \in Seq(Ids) /\ <<>> \in Seq(Reqs)
    BY EmptySeq
  <2>2. /\ \A x \in Clients : out'[x] \in Seq(Ids)
        /\ \A l \in Links : out'[l] \in Seq(Reqs)
    BY <1>1, <2>1 DEF ServerInv, TypeInv, Conns
  <2> QED
    BY <1>1, <2>2 DEF ServerInv, TypeInv
<1>3. \A x \in Conns : Aligned(x)'
  BY <1>1, AlignedSame DEF ServerInv
<1>4. ASSUME NEW x \in Clients PROVE Numbered(x)'
  <2>1. CASE x = c
    <3>1. 1..Len(out'[c]) = {}
      BY <1>1
    <3> QED
      BY <1>1, <2>1, <3>1 DEF ServerInv, Numbered
  <2>2. CASE x # c
    BY <1>1, <2>2, NumberedSame DEF ServerInv, Conns
  <2> QED
    BY <2>1, <2>2
<1>5. ASSUME NEW l \in Links PROVE Copied(l)'
  <2>1. CASE l = c
    BY <1>1, <2>1 DEF ServerInv, Copied
  <2>2. CASE l # c
    BY <1>1, <2>2, CopiedSame DEF ServerInv, Conns
  <2> QED
    BY <2>1, <2>2
<1> QED
  BY <1>2, <1>3, <1>4, <1>5 DEF ServerInv

(* libevent writes an output buffer out: replies become read, copies become   *)
(* sent, in their order.                                                      *)
LEMMA FlushInv ==
    ASSUME ServerInv, NEW c \in Conns, Flush(c)
    PROVE  ServerInv'
<1>1. /\ UNCHANGED <<alive, conn, got, pos, handled, done>>
      /\ out'[c] = <<>> /\ out' = [x \in Conns |-> out'[x]]
      /\ \A x \in Conns : x # c => out'[x] = out[x]
      /\ conn[c] = "open" /\ alive
      /\ sent' = IF c \in Links THEN [sent EXCEPT ![c] = sent[c] \o out[c]] ELSE sent
      /\ replies' = IF c \in Clients THEN [replies EXCEPT ![c] = replies[c] \o out[c]]
                    ELSE replies
  BY DEF Flush, ServerInv, TypeInv
<1>2. <<>> \in Seq(Ids) /\ <<>> \in Seq(Reqs) /\ 1..Len(<<>>) = {} /\ Len(<<>>) = 0
  BY EmptySeq
<1>3. /\ \A x \in Clients : out'[x] \in Seq(Ids)
      /\ \A l \in Links : out'[l] \in Seq(Reqs)
  BY <1>1, <1>2 DEF ServerInv, TypeInv, Conns
<1>4. CASE c \in Clients
  <2> DEFINE a == replies[c]
             b == out[c]
  <2>1. c \notin Links /\ a \in Seq(Ids) /\ b \in Seq(Ids)
    BY <1>4, ServerAssumption DEF ServerInv, TypeInv, Links
  <2>2. sent' = sent /\ replies' = [replies EXCEPT ![c] = a \o b]
    BY <1>1, <1>4, <2>1
  <2>3. /\ \A n \in 1..Len(a) : a[n] = <<c, n>>
        /\ \A n \in 1..Len(b) : b[n] = <<c, Len(a) + n>>
        /\ Len(a) + Len(b) = Len(handled[c])
    BY <1>1, <1>4 DEF ServerInv, Numbered
  <2> HIDE DEF a, b
  <2>4. /\ a \o b \in Seq(Ids) /\ Len(a \o b) = Len(a) + Len(b)
        /\ Len(a) \in Nat /\ Len(b) \in Nat
        /\ \A n \in 1..Len(a) + Len(b) :
                (a \o b)[n] = IF n <= Len(a) THEN a[n] ELSE b[n - Len(a)]
    BY <2>1, ConcatProperties, LenProperties
  <2>5. \A n \in 1..Len(a \o b) : (a \o b)[n] = <<c, n>>
    <3> SUFFICES ASSUME NEW n \in 1..Len(a) + Len(b) PROVE (a \o b)[n] = <<c, n>>
      BY <2>4
    <3>1. CASE n <= Len(a)
      BY <2>3, <2>4, <3>1
    <3>2. CASE ~ (n <= Len(a))
      <4>1. n - Len(a) \in 1..Len(b) /\ Len(a) + (n - Len(a)) = n
        BY <2>4, <3>2
      <4>2. (a \o b)[n] = b[n - Len(a)]
        BY <2>4, <3>2
      <4>3. b[n - Len(a)] = <<c, Len(a) + (n - Len(a))>>
        BY <2>3, <4>1
      <4> QED
        BY <4>1, <4>2, <4>3
    <3> QED
      BY <3>1, <3>2
  <2>6. /\ replies' \in [Clients -> Seq(Ids)] /\ replies'[c] = a \o b
        /\ \A x \in Clients : x # c => replies'[x] = replies[x]
    BY <1>4, <2>2, <2>4 DEF ServerInv, TypeInv
  <2>7. TypeInv'
    BY <1>1, <1>3, <2>2, <2>6 DEF ServerInv, TypeInv
  <2>8. \A x \in Conns : Aligned(x)'
    BY <1>1, <2>2, AlignedSame DEF ServerInv
  <2>9. ASSUME NEW x \in Clients PROVE Numbered(x)'
    <3>1. CASE x = c
      <4>1. \A n \in 1..Len(sent[c]) : sent[c][n].id = <<c, n>>
        BY <1>4 DEF ServerInv, Numbered
      <4>2. Len(replies'[c]) + Len(out'[c]) = Len(handled'[c])
        BY <1>1, <1>2, <2>3, <2>4, <2>6
      <4> QED
        BY <1>1, <1>2, <2>2, <2>5, <2>6, <3>1, <4>1, <4>2 DEF Numbered
    <3>2. CASE x # c
      BY <1>1, <2>2, <2>6, <3>2, NumberedSame DEF ServerInv, Conns
    <3> QED
      BY <3>1, <3>2
  <2>10. ASSUME NEW l \in Links PROVE Copied(l)'
    BY <1>1, <2>1, <2>2, CopiedSame DEF ServerInv, Conns
  <2> QED
    BY <2>7, <2>8, <2>9, <2>10 DEF ServerInv
<1>5. CASE c \in Links
  <2> DEFINE a == sent[c]
             b == out[c]
  <2>1. c \notin Clients /\ a \in Seq(Reqs) /\ b \in Seq(Reqs)
    BY <1>5, ServerAssumption DEF ServerInv, TypeInv, Links
  <2>2. replies' = replies /\ sent' = [sent EXCEPT ![c] = a \o b]
    BY <1>1, <1>5, <2>1
  <2>3. /\ \A n \in 1..Len(a) : a[n].id = done[n]
        /\ \A n \in 1..Len(b) : b[n].id = done[Len(a) + n]
        /\ Len(a) + Len(b) = Len(done)
    BY <1>1, <1>5 DEF ServerInv, Copied
  <2> HIDE DEF a, b
  <2>4. /\ a \o b \in Seq(Reqs) /\ Len(a \o b) = Len(a) + Len(b)
        /\ Len(a) \in Nat /\ Len(b) \in Nat
        /\ \A n \in 1..Len(a) + Len(b) :
                (a \o b)[n] = IF n <= Len(a) THEN a[n] ELSE b[n - Len(a)]
    BY <2>1, ConcatProperties, LenProperties
  <2>5. \A n \in 1..Len(a \o b) : (a \o b)[n].id = done[n]
    <3> SUFFICES ASSUME NEW n \in 1..Len(a) + Len(b) PROVE (a \o b)[n].id = done[n]
      BY <2>4
    <3>1. CASE n <= Len(a)
      BY <2>3, <2>4, <3>1
    <3>2. CASE ~ (n <= Len(a))
      <4>1. n - Len(a) \in 1..Len(b) /\ Len(a) + (n - Len(a)) = n
        BY <2>4, <3>2
      <4>2. (a \o b)[n] = b[n - Len(a)]
        BY <2>4, <3>2
      <4>3. b[n - Len(a)].id = done[Len(a) + (n - Len(a))]
        BY <2>3, <4>1
      <4> QED
        BY <4>1, <4>2, <4>3
    <3> QED
      BY <3>1, <3>2
  <2>6. /\ sent' \in [Conns -> Seq(Reqs)] /\ sent'[c] = a \o b
        /\ \A x \in Conns : x # c => sent'[x] = sent[x]
    BY <2>2, <2>4 DEF ServerInv, TypeInv
  <2>7. TypeInv'
    BY <1>1, <1>3, <2>2, <2>6 DEF ServerInv, TypeInv
  <2>8. ASSUME NEW x \in Conns PROVE Aligned(x)'
    <3>1. CASE x = c
      <4>1. /\ Len(sent[c]) <= Len(sent'[c]) /\ sent'[c] \in Seq(Reqs)
            /\ \A n \in 1..Len(sent[c]) : sent'[c][n] = sent[c][n]
        <5>1. Len(a) <= Len(a \o b) /\ \A n \in 1..Len(a) : (a \o b)[n] = a[n]
          BY <2>4
        <5> QED
          BY <2>4, <2>6, <5>1 DEF a
      <4> QED
        BY <1>1, <3>1, <4>1, AlignedSend DEF ServerInv
    <3>2. CASE x # c
      BY <1>1, <2>6, <3>2, AlignedSame DEF ServerInv
    <3> QED
      BY <3>1, <3>2
  <2>9. ASSUME NEW x \in Clients PROVE Numbered(x)'
    BY <1>1, <2>1, <2>2, <2>6, NumberedSame DEF ServerInv, Conns
  <2>10. ASSUME NEW l \in Links PROVE Copied(l)'
    <3>1. CASE l = c
      <4>1. Len(sent'[c]) <= Len(done) /\ Len(sent'[c]) + Len(out'[c]) = Len(done)
        BY <1>1, <1>2, <2>3, <2>4, <2>6
      <4> QED
        BY <1>1, <1>2, <2>5, <2>6, <3>1, <4>1 DEF Copied
    <3>2. CASE l # c
      BY <1>1, <2>6, <3>2, CopiedSame DEF ServerInv, Conns
    <3> QED
      BY <3>1, <3>2
  <2> QED
    BY <2>7, <2>8, <2>9, <2>10 DEF ServerInv
<1> QED
  BY <1>4, <1>5 DEF Conns

(* The read callback on a replica.                                            *)
LEMMA SlaveReadableInv ==
    ASSUME ServerInv, NEW l \in Links, NEW k \in Arrivals(l), SlaveReadable(l, k)
    PROVE  ServerInv'
<1> DEFINE avail == got[l] + k - pos[l]
           whole == LengthPrefix(l, avail) > 0
<1>1. l \in Conns /\ l \notin Clients
  BY ServerAssumption DEF Conns, Links
<1>2. /\ UNCHANGED <<alive, conn, sent, out, replies, done>>
      /\ got' = [got EXCEPT ![l] = got[l] + k]
      /\ pos' = [pos EXCEPT ![l] = pos[l] + Drained(l, avail)]
      /\ handled' = IF whole THEN [handled EXCEPT ![l] = Append(handled[l], Request(l).id)]
                    ELSE handled
  BY DEF SlaveReadable
<1>3. /\ got'[l] = got[l] + k /\ pos'[l] = pos[l] + Drained(l, avail)
      /\ handled'[l] = IF whole THEN Append(handled[l], Request(l).id) ELSE handled[l]
      /\ \A x \in Conns : x # l => got'[x] = got[x] /\ pos'[x] = pos[x] /\ handled'[x] = handled[x]
  BY <1>1, <1>2 DEF ServerInv, TypeInv
<1> HIDE DEF avail
<1>4. Aligned(l)' /\ handled'[l] \in Seq(Ids) /\ got'[l] \in Nat /\ pos'[l] \in Nat
  BY <1>1, <1>2, <1>3, AlignedRead DEF avail
<1>5. TypeInv'
  <2>1. /\ handled' \in [Conns -> Seq(Ids)] /\ got' \in [Conns -> Nat]
        /\ pos' \in [Conns -> Nat]
    BY <1>2, <1>3, <1>4 DEF ServerInv, TypeInv
  <2> QED
    BY <1>2, <2>1 DEF ServerInv, TypeInv
<1>6. \A x \in Conns : Aligned(x)'
  BY <1>2, <1>3, <1>4, AlignedSame DEF ServerInv
<1>7. ASSUME NEW x \in Clients PROVE Numbered(x)'
  BY <1>1, <1>2, <1>3, NumberedSame DEF ServerInv, Conns
<1>8. ASSUME NEW x \in Links PROVE Copied(x)'
  BY <1>2, CopiedSame DEF ServerInv
<1> QED
  BY <1>5, <1>6, <1>7, <1>8 DEF ServerInv

(* The read callback of the server: a request that has arrived in full is     *)
(* executed, copied to every connected slave and answered, in one step.       *)
LEMMA ClientReadableInv ==
    ASSUME ServerInv, NEW c \in Clients, NEW k \in Arrivals(c), ClientReadable(c, k)
    PROVE  ServerInv'
<1> DEFINE avail == got[c] + k - pos[c]
           whole == LengthPrefix(c, avail) > 0
           m == Len(handled[c]) + 1
           q == sent[c][m]
<1>1. c \in Conns /\ c \notin Links /\ c \notin Receivers
  BY ServerAssumption DEF Conns, Links, Receivers
<1>2. /\ UNCHANGED <<conn, sent, replies>>
      /\ got' = [got EXCEPT ![c] = got[c] + k]
      /\ pos' = [pos EXCEPT ![c] = pos[c] + Drained(c, avail)]
      /\ out' = [x \in Conns |-> IF x \in Receivers THEN out[x] \o Forwarded(c, avail)
                                 ELSE IF x = c THEN out[x] \o Reply(c, avail) ELSE out[x]]
      /\ handled' = IF whole THEN [handled EXCEPT ![c] = Append(handled[c], Request(c).id)]
                    ELSE handled
      /\ done' = IF whole THEN Append(done, Request(c).id) ELSE done
      /\ alive' = ~ (whole /\ Request(c).effect = "exit")
      /\ alive /\ conn[c] = "open"
  BY DEF ClientReadable
<1>3. m \in 1..Len(sent[c]) /\ Request(c) = q /\ q \in Reqs /\ q.id = <<c, m>>
  <2>1. m \in 1..Len(sent[c]) /\ Request(c) = q
    BY <1>1, ReadsNext
  <2>2. q \in Reqs
    BY <1>1, <2>1, ConnTypes DEF ServerInv
  <2> QED
    BY <2>1, <2>2 DEF ServerInv, Numbered
<1>4. q.id \in Ids /\ q.effect \in {"run", "exit"}
  BY <1>3 DEF Reqs
<1>5. /\ got'[c] = got[c] + k /\ pos'[c] = pos[c] + Drained(c, avail)
      /\ handled'[c] = IF whole THEN Append(handled[c], Request(c).id) ELSE handled[c]
      /\ \A x \in Conns : x # c => got'[x] = got[x] /\ pos'[x] = pos[x] /\ handled'[x] = handled[x]
  BY <1>1, <1>2 DEF ServerInv, TypeInv
<1>6. Aligned(c)' /\ handled'[c] \in Seq(Ids) /\ got'[c] \in Nat /\ pos'[c] \in Nat
  <2> HIDE DEF avail
  <2> QED
    BY <1>1, <1>2, <1>5, AlignedRead DEF avail
<1>7. /\ Forwarded(c, avail) = IF whole THEN <<q>> ELSE <<>>
      /\ Reply(c, avail) = IF whole /\ q.effect = "run" THEN <<q.id>> ELSE <<>>
  BY <1>3 DEF Forwarded, Reply
<1>8. /\ handled[c] \in Seq(Ids) /\ Len(handled[c]) \in Nat
      /\ done \in Seq(Ids) /\ Len(done) \in Nat
  BY <1>1, ConnTypes DEF ServerInv
<1>9. /\ out[c] \in Seq(Ids) /\ replies[c] \in Seq(Ids)
      /\ \A l \in Links : out[l] \in Seq(Reqs)
  BY DEF ServerInv, TypeInv
<1>10. /\ \A l \in Links : out'[l] = IF conn[l] = "open" /\ whole THEN out[l] \o <<q>> ELSE out[l]
       /\ out'[c] = IF whole /\ q.effect = "run" THEN out[c] \o <<q.id>> ELSE out[c]
       /\ \A x \in Clients : x # c => out'[x] = out[x]
       /\ out' = [x \in Conns |-> out'[x]]
  <2>1. \A l \in Links : l \in Conns /\ l # c /\ (l \in Receivers <=> conn[l] = "open")
    BY <1>1 DEF Conns, Receivers
  <2>2. \A x \in Clients : x \in Conns /\ x \notin Receivers
    BY ServerAssumption DEF Conns, Links, Receivers
  <2>3. out[c] \o <<>> = out[c] /\ \A l \in Links : out[l] \o <<>> = out[l]
    BY <1>9, ConcatEmptySeq
  <2> HIDE DEF whole, q, avail
  <2>4. out' = [x \in Conns |->
                  IF x \in Receivers THEN out[x] \o (IF whole THEN <<q>> ELSE <<>>)
                  ELSE IF x = c
                    THEN out[x] \o (IF whole /\ q.effect = "run" THEN <<q.id>> ELSE <<>>)
                    ELSE out[x]]
    BY <1>2, <1>7
  <2> QED
    BY <1>1, <2>1, <2>2, <2>3, <2>4
<1>11. /\ done' \in Seq(Ids)
       /\ whole => /\ Len(done') = Len(done) + 1 /\ done'[Len(done) + 1] = q.id
                   /\ Len(handled'[c]) = m
       /\ \A n \in 1..Len(done) : done'[n] = done[n]
       /\ ~ whole => done' = done /\ handled'[c] = handled[c]
  <2> HIDE DEF whole, q
  <2>1. CASE whole
    <3>1. done' = Append(done, q.id) /\ handled'[c] = Append(handled[c], q.id)
      BY <1>2, <1>3, <1>5, <2>1
    <3> QED
      BY <1>4, <1>8, <2>1, <3>1, AppendProperties
  <2>2. CASE ~ whole
    BY <1>2, <1>5, <1>8, <2>2
  <2> QED
    BY <2>1, <2>2
<1>12. (alive' => ~ whole \/ q.effect = "run") /\ alive' \in BOOLEAN
  BY <1>2, <1>3, <1>4
<1> HIDE DEF whole, q, avail
<1>13. TypeInv'
  <2>1. /\ handled' \in [Conns -> Seq(Ids)] /\ got' \in [Conns -> Nat]
        /\ pos' \in [Conns -> Nat]
    <3>1. \A x \in Conns : handled'[x] \in Seq(Ids) /\ got'[x] \in Nat /\ pos'[x] \in Nat
      BY <1>5, <1>6 DEF ServerInv, TypeInv
    <3>2. /\ handled' = [x \in Conns |-> handled'[x]] /\ got' = [x \in Conns |-> got'[x]]
          /\ pos' = [x \in Conns |-> pos'[x]]
      BY <1>2 DEF ServerInv, TypeInv
    <3> QED
      BY <3>1, <3>2
  <2>2. \A l \in Links : out'[l] \in Seq(Reqs)
    <3> TAKE l \in Links
    <3>1. out[l] \in Seq(Reqs) /\ q \in Reqs
      BY <1>3, <1>9
    <3>2. out[l] \o <<q>> \in Seq(Reqs)
      BY <3>1, AddOne
    <3> QED
      BY <1>10, <3>1, <3>2
  <2>3. \A x \in Clients : out'[x] \in Seq(Ids)
    <3>1. out'[c] \in Seq(Ids)
      BY <1>4, <1>9, <1>10, AddOne
    <3> QED
      BY <1>10, <3>1 DEF ServerInv, TypeInv
  <2> QED
    BY <1>2, <1>10, <1>11, <1>12, <2>1, <2>2, <2>3 DEF ServerInv, TypeInv
<1>14. \A x \in Conns : Aligned(x)'
  BY <1>2, <1>5, <1>6, AlignedSame DEF ServerInv
<1>15. ASSUME NEW x \in Clients PROVE Numbered(x)'
  <2>1. CASE x # c
    BY <1>2, <1>5, <1>10, <2>1, NumberedSame DEF ServerInv, Conns
  <2>2. CASE x = c
    <3>1. /\ \A n \in 1..Len(sent[c]) : sent[c][n].id = <<c, n>>
          /\ \A n \in 1..Len(replies[c]) : replies[c][n] = <<c, n>>
          /\ \A n \in 1..Len(out[c]) : out[c][n] = <<c, Len(replies[c]) + n>>
          /\ Len(replies[c]) + Len(out[c]) = Len(handled[c])
      BY <1>2 DEF ServerInv, Numbered
    <3>2. Len(replies[c]) \in Nat /\ Len(out[c]) \in Nat
      BY <1>9, LenProperties
    <3>3. CASE whole /\ q.effect = "run"
      <4>1. /\ Len(out'[c]) = Len(out[c]) + 1
            /\ \A n \in 1..Len(out[c]) : out'[c][n] = out[c][n]
            /\ out'[c][Len(out[c]) + 1] = <<c, m>>
        BY <1>3, <1>4, <1>9, <1>10, <3>3, AddOne
      <4>2. m = Len(replies[c]) + (Len(out[c]) + 1)
        <5>1. Len(replies[c]) + Len(out[c]) = Len(handled[c])
          BY <3>1
        <5>2. \A a, b, h \in Nat : a + b = h => h + 1 = a + (b + 1)
          OBVIOUS
        <5> QED
          BY <1>8, <3>2, <5>1, <5>2, Zenon
      <4>3. \A n \in 1..Len(out'[c]) : out'[c][n] = <<c, Len(replies[c]) + n>>
        <5> SUFFICES ASSUME NEW n \in 1..Len(out[c]) + 1
                     PROVE  out'[c][n] = <<c, Len(replies[c]) + n>>
          BY <4>1
        <5>1. CASE n = Len(out[c]) + 1
          BY <4>1, <4>2, <5>1
        <5>2. CASE n \in 1..Len(out[c])
          BY <3>1, <4>1, <5>2
        <5> QED
          BY <3>2, <5>1, <5>2
      <4>4. Len(replies[c]) + Len(out'[c]) = Len(handled'[c])
        BY <1>11, <3>3, <4>1, <4>2
      <4> QED
        BY <1>2, <2>2, <3>1, <4>3, <4>4 DEF Numbered
    <3>4. CASE ~ (whole /\ q.effect = "run")
      <4>1. out'[c] = out[c] /\ (alive' => Len(handled'[c]) = Len(handled[c]))
        BY <1>10, <1>11, <1>12, <3>4
      <4> QED
        BY <1>2, <2>2, <3>1, <4>1 DEF Numbered
    <3> QED
      BY <3>3, <3>4
  <2> QED
    BY <2>1, <2>2
<1>16. ASSUME NEW l \in Links PROVE Copied(l)'
  <2>1. /\ Len(sent[l]) <= Len(done) /\ Len(sent[l]) \in Nat
        /\ \A n \in 1..Len(sent[l]) : sent[l][n].id = done[n]
        /\ out[l] \in Seq(Reqs) /\ Len(out[l]) \in Nat
        /\ conn[l] = "open" =>
            /\ Len(sent[l]) + Len(out[l]) = Len(done)
            /\ \A n \in 1..Len(out[l]) : out[l][n].id = done[Len(sent[l]) + n]
    <3>1. Len(sent[l]) \in Nat
      BY ConnTypes DEF ServerInv, Conns
    <3>2. Len(out[l]) \in Nat
      BY <1>9, LenProperties
    <3> QED
      BY <1>9, <3>1, <3>2 DEF ServerInv, Copied
  <2>2. /\ Len(sent'[l]) <= Len(done')
        /\ \A n \in 1..Len(sent'[l]) : sent'[l][n].id = done'[n]
    <3>1. Len(done) <= Len(done')
      BY <1>8, <1>11
    <3>2. \A n \in 1..Len(sent[l]) : n \in 1..Len(done)
      BY <1>8, <2>1
    <3>3. Len(done') \in Nat
      BY <1>11, LenProperties
    <3> QED
      BY <1>2, <1>8, <1>11, <2>1, <3>1, <3>2, <3>3
  <2>3. ASSUME conn[l] = "open"
        PROVE  /\ Len(sent'[l]) + Len(out'[l]) = Len(done')
               /\ \A n \in 1..Len(out'[l]) : out'[l][n].id = done'[Len(sent'[l]) + n]
    <3>0. /\ Len(sent[l]) + Len(out[l]) = Len(done)
          /\ Len(sent[l]) \in Nat /\ Len(out[l]) \in Nat /\ Len(done) \in Nat
      BY <1>8, <2>1, <2>3
    <3>1. \A n \in 1..Len(out[l]) : Len(sent[l]) + n \in 1..Len(done)
      <4>1. \A a, b, d \in Nat : a + b = d => \A n \in 1..b : a + n \in 1..d
        OBVIOUS
      <4> QED
        BY <3>0, <4>1, Zenon
    <3>2. CASE whole
      <4>1. /\ Len(out'[l]) = Len(out[l]) + 1
            /\ \A n \in 1..Len(out[l]) : out'[l][n] = out[l][n]
            /\ out'[l][Len(out[l]) + 1] = q
        <5>1. out'[l] = out[l] \o <<q>> /\ out[l] \in Seq(Reqs) /\ q \in Reqs
          BY <1>3, <1>9, <1>10, <2>3, <3>2
        <5> QED
          BY <5>1, AddOne
      <4>2. Len(sent[l]) + (Len(out[l]) + 1) = Len(done')
        <5>1. Len(done') = Len(done) + 1
          BY <1>11, <3>2
        <5>2. \A a, b, d \in Nat : a + b = d => a + (b + 1) = d + 1
          OBVIOUS
        <5> QED
          BY <3>0, <5>1, <5>2, Zenon
      <4>3. ASSUME NEW n \in 1..Len(out[l]) + 1
            PROVE  out'[l][n].id = done'[Len(sent[l]) + n]
        <5>1. CASE n = Len(out[l]) + 1
          <6>1. Len(sent[l]) + n = Len(done) + 1
            BY <1>11, <3>2, <4>2, <5>1
          <6> QED
            BY <1>11, <3>2, <4>1, <5>1, <6>1
        <5>2. CASE n \in 1..Len(out[l])
          BY <1>11, <2>1, <2>3, <3>1, <4>1, <5>2
        <5> QED
          BY <2>1, <5>1, <5>2
      <4> QED
        BY <1>2, <4>1, <4>2, <4>3
    <3>3. CASE ~ whole
      BY <1>2, <1>10, <1>11, <2>1, <2>3, <3>3
    <3> QED
      BY <3>2, <3>3
  <2> QED
    BY <1>2, <2>2, <2>3 DEF Copied
<1> QED
  BY <1>13, <1>14, <1>15, <1>16 DEF ServerInv

(* The invariant of the event loop, for any clients, slaves and requests.     *)
THEOREM ServerInvariant == Spec => []ServerInv
<1>1. ASSUME ServerInv, [Next]_vars PROVE ServerInv'
  <2>1. ASSUME NEW c \in Conns, Readable(c) PROVE ServerInv'
    <3>1. PICK k \in Arrivals(c) :
            IF c \in Clients THEN ClientReadable(c, k) \/ BroadcastFault(c, k)
                             ELSE SlaveReadable(c, k)
      BY <2>1 DEF Readable
    <3>2. CASE c \in Clients /\ ClientReadable(c, k)
      BY <1>1, <3>2, ClientReadableInv
    <3>3. CASE c \in Clients /\ BroadcastFault(c, k)
      <4>1. k \in Nat
        BY <1>1, ReadsNext
      <4> QED
        BY <1>1, <3>3, <4>1, AcceptInv
    <3>4. CASE c \notin Clients /\ SlaveReadable(c, k)
      BY <1>1, <3>4, SlaveReadableInv DEF Conns
    <3> QED
      BY <3>1, <3>2, <3>3, <3>4
  <2>2. CASE UNCHANGED vars
    <3>1. /\ UNCHANGED <<alive, conn, sent, got, pos, out, handled, replies, done>>
      BY <2>2 DEF vars
    <3>2. TypeInv'
      BY <1>1, <3>1 DEF ServerInv, TypeInv
    <3>3. \A c \in Conns : Aligned(c)'
      BY <1>1, <3>1, AlignedSame DEF ServerInv
    <3>4. \A c \in Clients : Numbered(c)'
      BY <1>1, <3>1, NumberedSame DEF ServerInv
    <3>5. \A l \in Links : Copied(l)'
      BY <1>1, <3>1, CopiedSame DEF ServerInv
    <3> QED
      BY <3>2, <3>3, <3>4, <3>5 DEF ServerInv
  <2>3. ASSUME NEW c \in Clients, Accept(c) PROVE ServerInv'
    BY <1>1, <2>3, AcceptInv
  <2>4. ASSUME NEW c \in Clients, NEW r \in Requests[c], Send(c, r) PROVE ServerInv'
    BY <1>1, <2>4, SendInv
  <2>5. ASSUME NEW c \in Conns, Flush(c) \/ Disconnect(c) PROVE ServerInv'
    BY <1>1, <2>5, FlushInv, DisconnectInv
  <2> QED
    BY <1>1, <2>1, <2>2, <2>3, <2>4, <2>5 DEF Next
<1> QED
  BY <1>1, ServerInitInv, PTL DEF Spec

(* The input buffer of every connection starts at a request boundary, however *)
(* the bytes arrived: racs_length_prefix never reads a length out of the      *)
(* middle of a request.                                                       *)
THEOREM FramesAlwaysAligned == Spec => []FramesAligned
<1>1. ServerInv => FramesAligned
  BY DEF ServerInv, Aligned, FramesAligned
<1> QED
  BY <1>1, ServerInvariant, PTL

(* Every client reads the replies to its own requests in their order.         *)
THEOREM RepliesAlwaysInOrder == Spec => []RepliesInOrder
<1>1. ServerInv => RepliesInOrder
  <2> SUFFICES ASSUME ServerInv, NEW c \in Clients, NEW n \in DOMAIN replies[c]
               PROVE  replies[c][n] = <<c, n>>
    BY DEF RepliesInOrder
  <2>1. n \in 1..Len(replies[c])
    BY LenProperties DEF ServerInv, TypeInv
  <2> QED
    BY <2>1 DEF ServerInv, Numbered
<1> QED
  BY <1>1, ServerInvariant, PTL

(* Every slave of the configuration but the first has executed nothing.       *)
OthersIdle == \A s \in Range(Slaves) : s # Slaves[1] => executed[s] = <<>>

(* The node at the end of a link that no other link shares has executed what  *)
(* was executed for the link; a node at the end of no link, nothing.          *)
NodeInv ==
    /\ executed = [s \in Range(Slaves) |-> executed[s]]
    /\ OthersIdle
    /\ \A l \in Links : SoleLink(l) => executed[NodeOf(l)] = handled[l]

(* Every step keeps that: one callback on the node appends to both.           *)
LEMMA NodeStep ==
    ASSUME TypeInv, NodeInv, [Next]_vars
    PROVE  NodeInv'
<1> USE DEF SoleLink
<1>1. \A l \in Links : l \in Conns /\ l \notin Clients /\ NodeOf(l) \in Range(Slaves)
  <2>1. ASSUME NEW l \in Links PROVE 1 \in DOMAIN Slaves
    BY <2>1, ServerAssumption DEF Links
  <2> QED
    BY <2>1, ServerAssumption DEF Links, Conns, NodeOf, Range
<1> DEFINE Still == executed' = executed /\ \A l \in Links : handled'[l] = handled[l]
<1>2. Still => NodeInv'
  BY DEF NodeInv, OthersIdle
<1>3. handled \in [Conns -> Seq(Ids)]
  BY DEF TypeInv
<1>4. ASSUME NEW c \in Clients, NEW k, ClientReadable(c, k) \/ BroadcastFault(c, k)
      PROVE  NodeInv'
  BY <1>1, <1>2, <1>3, <1>4 DEF ClientReadable, BroadcastFault
<1>5. ASSUME NEW x \in Links, NEW k, SlaveReadable(x, k) PROVE NodeInv'
  <2> DEFINE whole == LengthPrefix(x, got[x] + k - pos[x]) > 0
  <2>1. /\ handled' = IF whole THEN [handled EXCEPT ![x] = Append(handled[x], Request(x).id)]
                      ELSE handled
        /\ executed' = IF whole
                       THEN [executed EXCEPT ![NodeOf(x)] =
                                Append(executed[NodeOf(x)], Request(x).id)]
                       ELSE executed
    BY <1>5 DEF SlaveReadable
  <2> HIDE DEF whole
  <2>2. CASE ~ whole
    BY <1>2, <2>1, <2>2
  <2>3. CASE whole
    <3>1. /\ handled'[x] = Append(handled[x], Request(x).id)
          /\ \A l \in Links : l # x => handled'[l] = handled[l]
      BY <1>1, <1>3, <2>1, <2>3
    <3>2. /\ executed' = [s \in Range(Slaves) |-> executed'[s]]
          /\ executed'[NodeOf(x)] = Append(executed[NodeOf(x)], Request(x).id)
          /\ \A s \in Range(Slaves) : s # NodeOf(x) => executed'[s] = executed[s]
      BY <1>1, <2>1, <2>3 DEF NodeInv
    <3>3. ASSUME NEW l \in Links, SoleLink(l) PROVE executed'[NodeOf(l)] = handled'[l]
      <4>1. executed[NodeOf(l)] = handled[l]
        BY <3>3 DEF NodeInv
      <4>2. CASE l = x
        BY <3>1, <3>2, <4>1, <4>2
      <4>3. CASE l # x
        BY <1>1, <3>1, <3>2, <3>3, <4>1, <4>3
      <4> QED
        BY <4>2, <4>3
    <3>4. OthersIdle'
      BY <3>2 DEF NodeInv, OthersIdle, NodeOf
    <3> QED
      BY <3>2, <3>3, <3>4 DEF NodeInv
  <2> QED
    BY <2>2, <2>3
<1>6. CASE UNCHANGED vars
  BY <1>2, <1>6 DEF vars
<1>7. ASSUME NEW c \in Conns, Flush(c) \/ Disconnect(c) PROVE NodeInv'
  BY <1>2, <1>7 DEF Flush, Disconnect
<1>8. ASSUME NEW c \in Clients, Accept(c) \/ \E r \in Requests[c] : Send(c, r)
      PROVE  NodeInv'
  BY <1>2, <1>8 DEF Accept, Send
<1> HIDE DEF Still
<1>9. ASSUME NEW c \in Conns, Readable(c) PROVE NodeInv'
  BY <1>1, <1>4, <1>5, <1>9 DEF Readable, Conns
<1> QED
  BY <1>6, <1>7, <1>8, <1>9 DEF Next

(* It holds in every behaviour.                                               *)
LEMMA NodeInvariant == Spec => []NodeInv
<1>1. Init => NodeInv
  <2> SUFFICES ASSUME Init PROVE NodeInv
    OBVIOUS
  <2>1. ASSUME NEW l \in Links PROVE NodeOf(l) \in Range(Slaves) /\ l \in Conns
    BY <2>1, ServerAssumption DEF Links, Conns, NodeOf, Range
  <2> QED
    BY <2>1 DEF Init, NodeInv, OthersIdle
<1>2. ServerInv /\ NodeInv /\ [Next]_vars => NodeInv'
  BY NodeStep DEF ServerInv
<1> QED
  BY <1>1, <1>2, ServerInvariant, PTL DEF Spec

(* What is executed for any link is a prefix of what the server executed: the *)
(* callback that executes a request queues its copy for every open link.  A   *)
(* node reached by one link only has executed such a prefix itself; with two  *)
(* or more entries in the list of slaves there is no such node, because the   *)
(* address of every link is that of the first entry.                          *)
THEOREM ReplicasArePrefixes == Spec => []ReplicaPrefix
<1>1. ServerInv /\ NodeInv => ReplicaPrefix
  <2>1. ASSUME ServerInv, NEW l \in Links PROVE IsPrefix(handled[l], done)
    <3> DEFINE h == handled[l]
    <3>1. /\ h \in Seq(Ids) /\ Len(h) \in Nat /\ Len(sent[l]) \in Nat
          /\ done \in Seq(Ids) /\ Len(done) \in Nat
      BY <2>1, ConnTypes DEF ServerInv, Conns
    <3>2. /\ Len(h) <= Len(sent[l]) /\ Len(sent[l]) <= Len(done)
          /\ \A n \in 1..Len(h) : h[n] = sent[l][n].id
          /\ \A n \in 1..Len(sent[l]) : sent[l][n].id = done[n]
      BY <2>1 DEF ServerInv, Aligned, Copied, Conns
    <3> HIDE DEF h
    <3>3. Len(h) <= Len(done) /\ \A n \in 1..Len(h) : h[n] = done[n]
      BY <3>1, <3>2
    <3>4. SubSeq(h, 1, Len(h)) = SubSeq(done, 1, Len(h))
      BY <3>1, <3>3
    <3> QED
      BY <3>3, <3>4 DEF IsPrefix, h
  <2> QED
    BY <2>1 DEF NodeInv, ReplicaPrefix
<1> QED
  BY <1>1, NodeInvariant, ServerInvariant, PTL

(* Of several slaves in the configuration only the first ever executes a      *)
(* request: racs_slaves_init_addrs reads its address for every link, so the   *)
(* others get no connection, whatever requests arrive.                        *)
THEOREM OnlyFirstSlaveExecutes == Spec => []OthersIdle
<1>1. NodeInv => OthersIdle
  BY DEF NodeInv
<1> QED
  BY <1>1, NodeInvariant, PTL
=============================================================================
