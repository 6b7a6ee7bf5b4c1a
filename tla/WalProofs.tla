----------------------------- MODULE WalProofs -----------------------------
(***************************************************************************)
(* TLAPS proofs about the write-ahead log, for every set of operations and *)
(* flush threads and every value of the bounds.                            *)
(***************************************************************************)
EXTENDS Wal, SequenceTheorems, FiniteSetTheorems, WellFoundedInduction, TLAPS

(* A non-empty bounded set of naturals has the maximum that racs_wal_segno    *)
(* computes.                                                                  *)
LEMMA MaxOfBounded ==
    ASSUME NEW S, S \subseteq Nat, S # {},
           NEW b \in Nat, \A x \in S : x <= b
    PROVE  Max(S) \in S /\ \A x \in S : x <= Max(S)
<1> DEFINE T == {b - x : x \in S}
<1>1. PICK z : z \in S
  OBVIOUS
<1>2. b - z \in T
  BY <1>1
<1>3. ASSUME NEW n \in T PROVE n \in Nat
  <2>1. PICK x \in S : n = b - x
    OBVIOUS
  <2> QED
    BY <2>1
<1>4. PICK m \in T : \A n \in T : ~(<<n, m>> \in OpToRel(<, Nat))
  <2>1. T \subseteq Nat /\ T # {}
    BY <1>2, <1>3
  <2> HIDE DEF T
  <2> QED
    BY <2>1, WFMin, NatLessThanWellFounded
<1>5. PICK y \in S : m = b - y
  OBVIOUS
<1>6. ASSUME NEW x \in S PROVE x <= y
  <2>1. b - x \in T
    OBVIOUS
  <2>2. ~(<<b - x, m>> \in OpToRel(<, Nat)) /\ b - x \in Nat /\ m \in Nat
    BY <1>3, <1>4, <2>1
  <2>3. ~(b - x < m)
    BY <2>2 DEF OpToRel
  <2> QED
    BY <2>3, <1>5
<1> QED
  BY <1>6 DEF Max

-----------------------------------------------------------------------------
(* racs_wal_segno: the number it returns bounds the directory, and is one of  *)
(* its segments unless there is none.                                         *)
LEMMA SegnoProperties ==
    ASSUME TypeOK, DirBelowFd
    PROVE  /\ Segno \in Nat
           /\ \A g \in Dir : g <= Segno
           /\ Dir # {} => Segno \in Dir
<1>1. CASE Dir = {}
  BY <1>1 DEF Segno
<1>2. CASE Dir # {}
  <2>1. Max(Dir) \in Dir /\ \A x \in Dir : x <= Max(Dir)
    BY <1>2, MaxOfBounded DEF TypeOK, DirBelowFd
  <2> QED
    BY <1>2, <2>1 DEF Segno, TypeOK
<1> QED
  BY <1>1, <1>2

(* The LSN at the end of a segment is a natural number and, in a segment      *)
(* sorted by LSN, bounds every LSN of it.                                     *)
LEMMA MaxLsnProperties ==
    ASSUME NEW s \in Seq(Record),
           \A i, j \in 1..Len(s) : i <= j => s[i].lsn <= s[j].lsn
    PROVE  MaxLsn(s) \in Nat /\ \A i \in 1..Len(s) : s[i].lsn <= MaxLsn(s)
<1>1. CASE s = << >>
  BY <1>1 DEF MaxLsn
<1>2. CASE s # << >>
  <2>1. Len(s) \in 1..Len(s) /\ Len(s) \in Nat
    BY <1>2, EmptySeq, LenProperties
  <2>2. s[Len(s)] \in Record
    BY <2>1, ElementOfSeq
  <2> QED
    BY <1>2, <2>1, <2>2 DEF MaxLsn, Last, Record
<1> QED
  BY <1>1, <1>2


-----------------------------------------------------------------------------
(* The inductive invariant of the log holds initially.                        *)
LEMMA WalInitInv == Init => TypeOK /\ WalInv
<1> SUFFICES ASSUME Init PROVE TypeOK /\ WalInv
  OBVIOUS
<1>1. Dir = {} /\ segs \in [{} -> Seq(Record)] /\ synced \in [{} -> Nat]
  BY DEF Init, Dir
<1>2. IdleFlush \in Flush
  BY DEF IdleFlush, Flush, PC
<1>3. TypeOK
  BY <1>1, <1>2 DEF TypeOK, Init
<1>4. WalInv
  BY <1>1 DEF WalInv, Init, SegmentLsnSorted, ActiveIsNewest, DirBelowFd, ActiveLsn,
     QuietWhenDown, SparedIsOld, TodoSpares, RemoveChecked, IdleFlush
<1> QED
  BY <1>3, <1>4

(* Opening the log (racs_wal_create) preserves the invariant: the LSN it      *)
(* resumes from is the highest of the segment it will append to.              *)
LEMMA CreateInv == TypeOK /\ WalInv /\ Create => TypeOK' /\ WalInv'
<1> SUFFICES ASSUME TypeOK, WalInv, Create PROVE TypeOK' /\ WalInv'
  OBVIOUS
<1>1. /\ Segno \in Nat
      /\ \A g \in Dir : g <= Segno
      /\ Dir # {} => Segno \in Dir
  BY SegnoProperties DEF WalInv
<1>2. /\ fd' \in Nat /\ \A g \in Dir : g <= fd'
  BY <1>1 DEF Create, WalOpenSegno, TypeOK
<1>3. << >> \in Seq(Record) /\ Len(<< >>) = 0
  BY EmptySeq
<1>4. /\ Dir' = Dir \cup {fd'}
      /\ segs' \in [Dir \cup {fd'} -> Seq(Record)]
      /\ \A h \in Dir : segs'[h] = segs[h]
      /\ fd' \notin Dir => segs'[fd'] = << >>
  <2>1. segs \in [Dir -> Seq(Record)] /\ segs' = Created(segs, fd', << >>)
    BY DEF TypeOK, Create
  <2>2. /\ DOMAIN segs' = Dir \cup {fd'}
        /\ segs' \in [Dir \cup {fd'} -> Seq(Record)]
        /\ \A h \in Dir : segs'[h] = segs[h]
        /\ fd' \notin Dir => segs'[fd'] = << >>
    BY <1>3, <2>1 DEF Created
  <2> QED
    BY <2>2 DEF Dir
<1>5. /\ DOMAIN synced' = Dir \cup {fd'}
      /\ synced' \in [Dir \cup {fd'} -> Nat]
  <2>1. synced \in [Dir -> Nat] /\ synced' = Created(synced, fd', 0)
    BY DEF TypeOK, Create
  <2> QED
    BY <2>1 DEF Created
<1>6. SegmentLsnSorted'
  <2> SUFFICES ASSUME NEW g \in Dir', NEW i \in 1..Len(segs'[g]),
                      NEW j \in 1..Len(segs'[g]), i <= j
               PROVE  segs'[g][i].lsn <= segs'[g][j].lsn
    BY DEF SegmentLsnSorted
  <2>1. CASE g \in Dir
    BY <2>1, <1>4 DEF WalInv, SegmentLsnSorted
  <2>2. CASE g = fd' /\ fd' \notin Dir
    BY <2>2, <1>3, <1>4
  <2> QED
    BY <2>1, <2>2, <1>4
<1>7. lsn' = MaxLsn(segs'[fd']) /\ segs'[fd'] \in Seq(Record)
  BY <1>4 DEF Create
<1>8. lsn' \in Nat /\ \A i \in 1..Len(segs'[fd']) : segs'[fd'][i].lsn <= lsn'
  <2>1. \A i, j \in 1..Len(segs'[fd']) : i <= j => segs'[fd'][i].lsn <= segs'[fd'][j].lsn
    BY <1>4, <1>6 DEF SegmentLsnSorted
  <2> QED
    BY <1>7, <2>1, MaxLsnProperties
<1>9. old' \subseteq Nat \X Nat
  <2>1. \A g \in Dir : g \in Nat /\ synced[g] \in Nat /\ Len(segs[g]) \in Nat
    BY LenProperties DEF TypeOK
  <2> QED
    BY <2>1 DEF Create, Unsynced
<1>10. TypeOK'
  BY <1>2, <1>4, <1>5, <1>8, <1>9 DEF TypeOK, Create
<1>11. fl' = fl /\ \A t \in Flushers : fl[t] = IdleFlush
  BY DEF Create, WalInv, QuietWhenDown
<1>12. SparedIsOld'
  BY <1>11, <1>2 DEF Create, SparedIsOld, IdleFlush
<1> QED
  BY <1>2, <1>4, <1>6, <1>8, <1>10, <1>11, <1>12
  DEF WalInv, Create, ActiveIsNewest, DirBelowFd, ActiveLsn, QuietWhenDown,
      TodoSpares, RemoveChecked, IdleFlush

(* Rotation (racs_wal_rotate) preserves it: the new segment has a number no   *)
(* file has, so it is empty and the youngest.                                 *)
LEMMA RotateInv ==
    ASSUME TypeOK, WalInv, NEW op \in Ops, Rotate(op)
    PROVE  TypeOK' /\ WalInv'
<1>1. Segno \in Nat /\ \A g \in Dir : g <= Segno
  BY SegnoProperties DEF WalInv
<1>2. fd' \in Nat /\ fd' \notin Dir /\ \A g \in Dir : g <= fd'
  BY <1>1 DEF Rotate, TypeOK
<1>3. << >> \in Seq(Record) /\ Len(<< >>) = 0
  BY EmptySeq
<1>4. /\ Dir' = Dir \cup {fd'}
      /\ segs' \in [Dir \cup {fd'} -> Seq(Record)]
      /\ \A h \in Dir : segs'[h] = segs[h]
      /\ segs'[fd'] = << >>
  <2>1. segs \in [Dir -> Seq(Record)] /\ segs' = Created(segs, fd', << >>)
    BY DEF TypeOK, Rotate
  <2>2. /\ DOMAIN segs' = Dir \cup {fd'}
        /\ segs' \in [Dir \cup {fd'} -> Seq(Record)]
        /\ \A h \in Dir : segs'[h] = segs[h]
        /\ segs'[fd'] = << >>
    BY <1>2, <1>3, <2>1 DEF Created
  <2> QED
    BY <2>2 DEF Dir
<1>5. synced' \in [Dir \cup {fd'} -> Nat]
  <2> DEFINE f == IF linked THEN [synced EXCEPT ![fd] = Len(segs[fd])] ELSE synced
  <2>1. synced' = Created(f, fd', 0)
    BY DEF Rotate
  <2>2. f \in [Dir -> Nat]
    <3>1. CASE linked
      <4>1. \A g \in Dir : segs[g] \in Seq(Record)
        BY DEF TypeOK
      <4>2. \A g \in Dir : Len(segs[g]) \in Nat
        BY <4>1, LenProperties
      <4> QED
        BY <3>1, <4>2 DEF TypeOK, WalInv, ActiveIsNewest, Rotate
    <3>2. CASE ~linked
      BY <3>2 DEF TypeOK
    <3> QED
      BY <3>1, <3>2
  <2> HIDE DEF f
  <2> QED
    BY <2>1, <2>2 DEF Created
<1>6. TypeOK'
  BY <1>2, <1>4, <1>5 DEF TypeOK, Rotate
<1>7. SegmentLsnSorted'
  <2> SUFFICES ASSUME NEW g \in Dir', NEW i \in 1..Len(segs'[g]),
                      NEW j \in 1..Len(segs'[g]), i <= j
               PROVE  segs'[g][i].lsn <= segs'[g][j].lsn
    BY DEF SegmentLsnSorted
  <2>1. CASE g \in Dir
    BY <2>1, <1>4 DEF WalInv, SegmentLsnSorted
  <2>2. CASE g = fd'
    BY <2>2, <1>3, <1>4
  <2> QED
    BY <2>1, <2>2, <1>4
<1>8. SparedIsOld'
  <2>1. up /\ ~stray => fd \in Dir
    BY DEF WalInv, SparedIsOld, ActiveIsNewest
  <2>2. up /\ ~stray => fd <= fd'
    BY <1>2, <2>1
  <2>3. \A t \in Flushers : fl[t].segno \in Nat
    BY DEF TypeOK, Flush
  <2> QED
    BY <1>2, <2>2, <2>3 DEF Rotate, WalInv, SparedIsOld, TypeOK
<1>9. RemoveChecked'
  <2> SUFFICES ASSUME ~stray, NEW t \in Flushers, NEW g \in Dir',
                      fl[t].pc = "remove", IsNext(t, g), g <= fl[t].segno
               PROVE  MaxLsn(segs'[g]) < fl[t].ckpt
    BY DEF RemoveChecked, Rotate, IsNext
  <2>1. fl[t].segno <= fd /\ fd \in Dir /\ fd <= fd' /\ fl[t].segno \in Nat
    BY <1>2 DEF WalInv, SparedIsOld, ActiveIsNewest, Rotate, TypeOK, Flush
  <2>2. g # fd'
    BY <1>2, <2>1 DEF TypeOK
  <2>3. g \in Dir /\ segs'[g] = segs[g]
    BY <2>2, <1>4
  <2> QED
    BY <2>3 DEF WalInv, RemoveChecked
<1> QED
  BY <1>2, <1>3, <1>4, <1>6, <1>7, <1>8, <1>9
  DEF WalInv, Rotate, ActiveIsNewest, DirBelowFd, ActiveLsn, QuietWhenDown, TodoSpares

(* Appending (racs_wal_append_) preserves it: the record gets wal->lsn, which *)
(* is at least every LSN of the active segment.                               *)
LEMMA WriteInv ==
    ASSUME TypeOK, WalInv, NEW op \in Ops, Write(op)
    PROVE  TypeOK' /\ WalInv'
<1> DEFINE r == [lsn |-> lsn, op |-> op]
<1>1. r \in Record
  BY DEF TypeOK, Record
<1>2. size' \in Nat /\ lsn' \in Nat /\ records' \in Nat /\ due' \in BOOLEAN
  BY SizeAssumption DEF Write, TypeOK
<1>3. /\ pend' = NoOp /\ fresh' = FALSE
      /\ UNCHANGED <<synced, fd, linked, manifest, fl, up, crashes, losses, old, stray>>
  BY DEF Write
<1>4. CASE ~linked
  <2>1. TypeOK'
    <3>1. segs' = segs /\ synced' = synced
      BY <1>4 DEF Write
    <3> QED
      BY <1>2, <1>3, <3>1 DEF TypeOK, Dir
  <2> QED
    BY <1>4, <2>1 DEF WalInv, Write, Dir, SegmentLsnSorted, ActiveIsNewest, DirBelowFd,
       ActiveLsn, QuietWhenDown, SparedIsOld, TodoSpares, RemoveChecked, IsNext
<1>5. CASE linked
  <2>1. fd \in Dir /\ segs[fd] \in Seq(Record)
    BY <1>5 DEF Write, WalInv, ActiveIsNewest, TypeOK
  <2>2. /\ Append(segs[fd], r) \in Seq(Record)
        /\ Len(segs[fd]) \in Nat
        /\ Len(Append(segs[fd], r)) = Len(segs[fd]) + 1
        /\ \A i \in 1..Len(segs[fd]) : Append(segs[fd], r)[i] = segs[fd][i]
        /\ Append(segs[fd], r)[Len(segs[fd]) + 1] = r
    BY <1>1, <2>1, AppendProperties, LenProperties
  <2>3. segs' = [segs EXCEPT ![fd] = Append(segs[fd], r)]
    BY <1>5 DEF Write
  <2>4. /\ Dir' = Dir /\ segs' \in [Dir -> Seq(Record)]
        /\ segs'[fd] = Append(segs[fd], r)
        /\ \A g \in Dir \ {fd} : segs'[g] = segs[g]
    <3>1. segs \in [Dir -> Seq(Record)]
      BY DEF TypeOK
    <3> QED
      BY <2>1, <2>2, <2>3, <3>1 DEF Dir
  <2>5. synced' \in [Dir -> Nat]
    BY <1>3 DEF TypeOK
  <2>6. TypeOK'
    BY <1>2, <1>3, <2>4, <2>5 DEF TypeOK
  <2>7. \A i \in 1..Len(segs[fd]) : segs[fd][i].lsn \in Nat /\ segs[fd][i].lsn <= lsn
    <3>1. \A i \in 1..Len(segs[fd]) : segs[fd][i] \in Record
      BY <2>1, ElementOfSeq
    <3> QED
      BY <1>5, <3>1 DEF Write, WalInv, ActiveLsn, Record
  <2>8. SegmentLsnSorted'
    <3> SUFFICES ASSUME NEW g \in Dir, NEW i \in 1..Len(segs'[g]),
                        NEW j \in 1..Len(segs'[g]), i <= j
                 PROVE  segs'[g][i].lsn <= segs'[g][j].lsn
      BY <2>4 DEF SegmentLsnSorted
    <3>1. CASE g # fd
      BY <3>1, <2>4 DEF WalInv, SegmentLsnSorted
    <3>2. CASE g = fd /\ j \in 1..Len(segs[fd])
      <4>1. i \in 1..Len(segs[fd])
        BY <3>2, <2>2
      <4> QED
        BY <3>2, <4>1, <2>1, <2>2, <2>4 DEF WalInv, SegmentLsnSorted
    <3>3. CASE g = fd /\ j = Len(segs[fd]) + 1
      <4>1. segs'[g][j].lsn = lsn
        BY <3>3, <2>2, <2>4
      <4>2. CASE i = j
        BY <4>1, <4>2, <3>3 DEF TypeOK
      <4>3. CASE i \in 1..Len(segs[fd])
        BY <4>1, <4>3, <3>3, <2>2, <2>4, <2>7
      <4> QED
        BY <4>2, <4>3, <3>3, <2>2, <2>4
    <3> QED
      BY <3>1, <3>2, <3>3, <2>2, <2>4
  <2>9. ActiveLsn'
    <3> SUFFICES ASSUME NEW i \in 1..Len(segs'[fd]) PROVE segs'[fd][i].lsn <= lsn + 1
      BY DEF ActiveLsn, Write
    <3>1. CASE i \in 1..Len(segs[fd])
      BY <3>1, <2>2, <2>4, <2>7 DEF TypeOK
    <3>2. CASE i = Len(segs[fd]) + 1
      BY <3>2, <2>2, <2>4 DEF TypeOK
    <3> QED
      BY <3>1, <3>2, <2>2, <2>4
  <2>10. RemoveChecked'
    <3> SUFFICES ASSUME ~stray, NEW t \in Flushers, NEW g \in Dir,
                        fl[t].pc = "remove", IsNext(t, g), g <= fl[t].segno
                 PROVE  MaxLsn(segs'[g]) < fl[t].ckpt
      BY <2>4 DEF RemoveChecked, Write, IsNext
    <3>1. g # fl[t].segno
      BY DEF WalInv, TodoSpares, IsNext
    <3>2. g # fd
      BY <3>1 DEF Write, WalInv, SparedIsOld, TypeOK, Flush
    <3>3. segs'[g] = segs[g]
      BY <3>2, <2>4
    <3> QED
      BY <3>3 DEF WalInv, RemoveChecked
  <2> QED
    BY <2>4, <2>6, <2>8, <2>9, <2>10
    DEF WalInv, Write, ActiveIsNewest, DirBelowFd, QuietWhenDown, SparedIsOld, TodoSpares
<1> QED
  BY <1>4, <1>5 DEF TypeOK

(* The fsync of racs_wal_append_ preserves it.                                *)
LEMMA FsyncInv ==
    ASSUME TypeOK, WalInv, Fsync
    PROVE  TypeOK' /\ WalInv'
<1>1. /\ due' = FALSE
      /\ UNCHANGED <<segs, fd, linked, lsn, size, pend, manifest, fl, up, fresh, records,
                     crashes, losses, old, stray>>
  BY DEF Fsync
<1>2. synced' \in [Dir -> Nat]
  <2>1. linked => fd \in Dir /\ Len(segs[fd]) \in Nat
    BY LenProperties DEF Fsync, WalInv, ActiveIsNewest, TypeOK
  <2> QED
    BY <2>1 DEF Fsync, TypeOK
<1>3. TypeOK'
  BY <1>1, <1>2 DEF TypeOK, Dir
<1> QED
  BY <1>1, <1>3 DEF WalInv, Dir, SegmentLsnSorted, ActiveIsNewest, DirBelowFd,
     ActiveLsn, QuietWhenDown, SparedIsOld, TodoSpares, RemoveChecked, IsNext

(* A step of a flush thread that leaves the segments alone preserves the      *)
(* invariant when the thread's new local state keeps its part of it.          *)
LEMMA LocalStepInv ==
    ASSUME TypeOK, WalInv, up, WalUnchanged, RestUnchanged, manifest' \in Nat,
           NEW t \in Flushers,
           fl' \in [Flushers -> Flush],
           \A u \in Flushers \ {t} : fl'[u] = fl[u],
           ~stray => fl'[t].segno <= fd,
           fl'[t].segno \notin fl'[t].todo,
           fl'[t].pc \in {"scan", "remove"} \/ fl'[t].todo = {},
           fl'[t].pc = "remove" =>
               \A g \in Dir : IsNext(t, g)' => MaxLsn(segs[g]) < fl'[t].ckpt
    PROVE  TypeOK' /\ WalInv'
<1>1. Dir' = Dir /\ segs' = segs
  BY DEF WalUnchanged, Dir
<1>2. TypeOK'
  BY <1>1 DEF TypeOK, WalUnchanged, RestUnchanged
<1>3. SparedIsOld'
  BY DEF WalInv, SparedIsOld, WalUnchanged, RestUnchanged
<1>4. TodoSpares'
  BY DEF WalInv, TodoSpares
<1>5. RemoveChecked'
  <2> SUFFICES ASSUME ~stray, NEW u \in Flushers, NEW g \in Dir,
                      fl'[u].pc = "remove", IsNext(u, g)', g <= fl'[u].segno
               PROVE  MaxLsn(segs[g]) < fl'[u].ckpt
    BY <1>1 DEF RemoveChecked, RestUnchanged
  <2>1. CASE u = t
    BY <2>1
  <2>2. CASE u # t
    BY <2>2 DEF WalInv, RemoveChecked, IsNext
  <2> QED
    BY <2>1, <2>2
<1> QED
  BY <1>1, <1>2, <1>3, <1>4, <1>5
  DEF WalInv, WalUnchanged, RestUnchanged, SegmentLsnSorted, ActiveIsNewest, DirBelowFd,
      ActiveLsn, QuietWhenDown

(* Starting a flush thread preserves it.                                      *)
LEMMA FlushStartInv ==
    ASSUME TypeOK, WalInv, NEW t \in Flushers, NEW l \in FlushLsns, FlushStart(t, l)
    PROVE  TypeOK' /\ WalInv'
<1>1. l \in Nat /\ IdleFlush \in Flush
  BY DEF TypeOK, FlushLsns, IdleFlush, Flush, PC
<1>2. /\ fl' \in [Flushers -> Flush]
      /\ \A u \in Flushers \ {t} : fl'[u] = fl[u]
      /\ fl'[t] = [IdleFlush EXCEPT !.pc = "manifest_open", !.max_lsn = l]
  BY <1>1 DEF FlushStart, TypeOK, IdleFlush, Flush, PC
<1>3. fl'[t].segno = 0 /\ fl'[t].todo = {} /\ fl'[t].pc # "remove"
  BY <1>2 DEF IdleFlush
<1>4. up /\ WalUnchanged /\ RestUnchanged /\ manifest' \in Nat /\ fd >= 0
  BY DEF FlushStart, TypeOK
<1> QED
  BY <1>2, <1>3, <1>4, LocalStepInv

(* The manifest writes and the first three steps of racs_wal_truncate, and    *)
(* the decisions about one segment, preserve it: the thread learns about a    *)
(* segment it will remove that its last record is below the checkpoint.       *)
LEMMA FlushLocalInv ==
    ASSUME TypeOK, WalInv, NEW t \in Flushers,
           \/ ManifestOpen(t) \/ ManifestWrite(t) \/ SstableWrite(t)
           \/ TruncSegno(t) \/ TruncCheckpoint(t) \/ TruncList(t)
           \/ \E g \in fl[t].todo : TruncKeep(t, g) \/ TruncInspect(t, g)
           \/ TruncDone(t)
    PROVE  TypeOK' /\ WalInv'
<1>1. fl[t] \in Flush /\ fl \in [Flushers -> Flush] /\ Dir \subseteq Nat
  BY DEF TypeOK
<1>2. fl[t].pc # "idle" => up
  BY DEF WalInv, QuietWhenDown, IdleFlush
<1>3. ~stray /\ fl[t].pc # "idle" => fl[t].segno <= fd
  BY <1>2 DEF WalInv, SparedIsOld
<1>4. /\ fl[t].segno \notin fl[t].todo
      /\ fl[t].pc \in {"scan", "remove"} \/ fl[t].todo = {}
      /\ manifest \in Nat
  BY DEF WalInv, TodoSpares, TypeOK
<1>5. ASSUME NEW pc \in PC \ {"remove"}, Goto(t, pc), WalUnchanged, RestUnchanged,
             fl[t].pc \notin {"idle", "scan", "remove"}, manifest' \in Nat
      PROVE  TypeOK' /\ WalInv'
  <2>1. /\ fl' \in [Flushers -> Flush]
        /\ \A u \in Flushers \ {t} : fl'[u] = fl[u]
        /\ fl'[t] = [fl[t] EXCEPT !.pc = pc]
    BY <1>1, <1>5 DEF Goto, Flush
  <2>2. fl'[t].segno = fl[t].segno /\ fl'[t].todo = {} /\ fl'[t].pc = pc
    BY <1>4, <1>5, <2>1, <1>1 DEF Flush
  <2> QED
    BY <1>2, <1>3, <1>5, <2>1, <2>2, LocalStepInv
<1>6. CASE ManifestOpen(t)
  BY <1>5, <1>6 DEF ManifestOpen, PC
<1>7. CASE ManifestWrite(t)
  BY <1>1, <1>5, <1>7 DEF ManifestWrite, PC, Flush
<1>8. CASE SstableWrite(t)
  BY <1>4, <1>5, <1>8 DEF SstableWrite, PC
<1>9. CASE TruncSegno(t)
  <2>1. Segno \in Nat /\ (up /\ ~stray => Segno <= fd)
    <3>1. Segno \in Nat /\ (Dir # {} => Segno \in Dir)
      BY SegnoProperties DEF WalInv
    <3> QED
      BY <3>1 DEF WalInv, SparedIsOld, ActiveIsNewest, TypeOK
  <2>2. /\ fl' \in [Flushers -> Flush]
        /\ \A u \in Flushers \ {t} : fl'[u] = fl[u]
        /\ fl'[t] = [fl[t] EXCEPT !.pc = "checkpoint", !.segno = Segno]
    BY <1>1, <1>9, <2>1 DEF TruncSegno, Flush, PC
  <2>3. fl'[t].segno = Segno /\ fl'[t].todo = {} /\ fl'[t].pc = "checkpoint"
    BY <1>1, <1>4, <1>9, <2>2 DEF TruncSegno, Flush
  <2> QED
    BY <1>2, <1>4, <1>9, <2>1, <2>2, <2>3, LocalStepInv DEF TruncSegno
<1>10. CASE TruncCheckpoint(t)
  <2>1. /\ fl' \in [Flushers -> Flush]
        /\ \A u \in Flushers \ {t} : fl'[u] = fl[u]
        /\ fl'[t] = [fl[t] EXCEPT !.pc = "list", !.ckpt = manifest]
    BY <1>1, <1>4, <1>10 DEF TruncCheckpoint, Flush, PC
  <2>2. fl'[t].segno = fl[t].segno /\ fl'[t].todo = {} /\ fl'[t].pc = "list"
    BY <1>1, <1>4, <1>10, <2>1 DEF TruncCheckpoint, Flush
  <2> QED
    BY <1>2, <1>3, <1>4, <1>10, <2>1, <2>2, LocalStepInv DEF TruncCheckpoint
<1>11. CASE TruncList(t)
  <2>1. /\ fl' \in [Flushers -> Flush]
        /\ \A u \in Flushers \ {t} : fl'[u] = fl[u]
        /\ fl'[t] = [fl[t] EXCEPT !.pc = "scan", !.todo = Dir \ {fl[t].segno}]
    BY <1>1, <1>11 DEF TruncList, Flush, PC
  <2>2. /\ fl'[t].segno = fl[t].segno /\ fl'[t].todo = Dir \ {fl[t].segno}
        /\ fl'[t].pc = "scan"
    BY <1>1, <2>1 DEF Flush
  <2> QED
    BY <1>2, <1>3, <1>4, <1>11, <2>1, <2>2, LocalStepInv DEF TruncList
<1>12. ASSUME NEW g \in fl[t].todo, TruncKeep(t, g) PROVE TypeOK' /\ WalInv'
  <2>1. /\ fl' \in [Flushers -> Flush]
        /\ \A u \in Flushers \ {t} : fl'[u] = fl[u]
        /\ fl'[t] = [fl[t] EXCEPT !.todo = fl[t].todo \ {g}]
    BY <1>1, <1>12 DEF TruncKeep, Flush, PC
  <2>2. /\ fl'[t].segno = fl[t].segno /\ fl'[t].todo = fl[t].todo \ {g}
        /\ fl'[t].pc = "scan"
    BY <1>1, <1>12, <2>1 DEF TruncKeep, Flush
  <2> QED
    BY <1>2, <1>3, <1>4, <1>12, <2>1, <2>2, LocalStepInv DEF TruncKeep
<1>13. ASSUME NEW g \in fl[t].todo, TruncInspect(t, g) PROVE TypeOK' /\ WalInv'
  <2>1. /\ fl' \in [Flushers -> Flush]
        /\ \A u \in Flushers \ {t} : fl'[u] = fl[u]
        /\ fl'[t] = [fl[t] EXCEPT !.pc = "remove"]
    BY <1>1, <1>13 DEF TruncInspect, Goto, Flush, PC
  <2>2. /\ fl'[t].segno = fl[t].segno /\ fl'[t].todo = fl[t].todo
        /\ fl'[t].pc = "remove" /\ fl'[t].ckpt = fl[t].ckpt
    BY <1>1, <2>1 DEF Flush
  <2>3. \A h \in Dir : IsNext(t, h)' => h = g
    BY <1>1, <1>13, <2>2 DEF TruncInspect, IsNext, Flush
  <2> QED
    BY <1>2, <1>3, <1>4, <1>13, <2>1, <2>2, <2>3, LocalStepInv DEF TruncInspect
<1>14. CASE TruncDone(t)
  <2>1. IdleFlush \in Flush
    BY DEF IdleFlush, Flush, PC
  <2>2. /\ fl' \in [Flushers -> Flush]
        /\ \A u \in Flushers \ {t} : fl'[u] = fl[u]
        /\ fl'[t] = IdleFlush
    BY <1>1, <1>14, <2>1 DEF TruncDone
  <2>3. fl'[t].segno = 0 /\ fl'[t].todo = {} /\ fl'[t].pc = "idle" /\ 0 <= fd
    BY <2>2 DEF IdleFlush, TypeOK
  <2> QED
    BY <1>2, <1>4, <1>14, <2>2, <2>3, LocalStepInv DEF TruncDone
<1> QED
  BY <1>6, <1>7, <1>8, <1>9, <1>10, <1>11, <1>12, <1>13, <1>14

(* Removing a segment preserves it, also when it is the active one: then the  *)
(* descriptor is no longer linked.                                            *)
LEMMA RemoveInv ==
    ASSUME TypeOK, WalInv, NEW t \in Flushers, NEW g \in fl[t].todo, TruncRemove(t, g)
    PROVE  TypeOK' /\ WalInv'
<1>1. fl[t] \in Flush /\ fl \in [Flushers -> Flush] /\ up
  BY DEF TypeOK, TruncRemove, WalInv, QuietWhenDown, IdleFlush
<1>2. /\ fl' \in [Flushers -> Flush]
      /\ \A u \in Flushers \ {t} : fl'[u] = fl[u]
      /\ fl'[t] = [fl[t] EXCEPT !.pc = "scan", !.todo = fl[t].todo \ {g}]
  BY <1>1 DEF TruncRemove, Flush, PC
<1>3. /\ fl'[t].segno = fl[t].segno /\ fl'[t].todo = fl[t].todo \ {g}
      /\ fl'[t].pc = "scan"
  BY <1>1, <1>2 DEF Flush
<1>4. /\ Dir' = Dir \ {g}
      /\ segs' \in [Dir' -> Seq(Record)]
      /\ synced' \in [Dir' -> Nat]
      /\ \A h \in Dir' : segs'[h] = segs[h]
  <2>1. segs' = [h \in Dir \ {g} |-> segs[h]] /\ synced' = [h \in Dir \ {g} |-> synced[h]]
    BY DEF TruncRemove
  <2>2. Dir' = Dir \ {g}
    BY <2>1 DEF Dir
  <2> QED
    BY <2>1, <2>2 DEF TypeOK
<1>5. /\ UNCHANGED <<fd, lsn, size, pend, due, manifest, up, fresh, records, crashes, losses, old>>
      /\ linked' = (linked /\ (up => g # fd))
      /\ stray' = (stray \/ g > fl[t].segno)
  BY DEF TruncRemove
<1>6. TypeOK'
  BY <1>2, <1>4, <1>5 DEF TypeOK
<1>7. linked' => linked /\ g # fd
  BY <1>1, <1>5
<1>8. SparedIsOld'
  <2> SUFFICES ASSUME ~stray' PROVE linked' /\ \A u \in Flushers : fl'[u].segno <= fd
    BY <1>5 DEF SparedIsOld
  <2>1. ~stray /\ ~(g > fl[t].segno)
    BY <1>5
  <2>2. linked /\ \A u \in Flushers : fl[u].segno <= fd
    BY <1>1, <2>1 DEF WalInv, SparedIsOld
  <2>3. g # fl[t].segno /\ g \in Nat /\ fl[t].segno \in Nat /\ fd \in Nat
    BY <1>1 DEF WalInv, TodoSpares, Flush, TypeOK
  <2>4. g # fd
    BY <2>1, <2>2, <2>3
  <2> QED
    BY <1>2, <1>3, <1>5, <2>2, <2>4
<1>9. TodoSpares'
  BY <1>2, <1>3 DEF WalInv, TodoSpares
<1>10. RemoveChecked'
  <2> SUFFICES ASSUME ~stray', NEW u \in Flushers, NEW h \in Dir',
                      fl'[u].pc = "remove", IsNext(u, h)', h <= fl'[u].segno
               PROVE  MaxLsn(segs'[h]) < fl'[u].ckpt
    BY DEF RemoveChecked
  <2>1. u # t /\ ~stray
    BY <1>3, <1>5
  <2>2. fl'[u] = fl[u] /\ h \in Dir /\ segs'[h] = segs[h]
    BY <1>2, <1>4, <2>1
  <2> QED
    BY <2>1, <2>2 DEF WalInv, RemoveChecked, IsNext
<1>11. SegmentLsnSorted' /\ DirBelowFd'
  BY <1>4, <1>5 DEF WalInv, SegmentLsnSorted, DirBelowFd
<1>12. ActiveIsNewest' /\ ActiveLsn'
  BY <1>4, <1>5, <1>7 DEF WalInv, ActiveIsNewest, ActiveLsn
<1>13. QuietWhenDown'
  BY <1>1, <1>5 DEF QuietWhenDown
<1> QED
  BY <1>6, <1>8, <1>9, <1>10, <1>11, <1>12, <1>13 DEF WalInv

(* What a power loss leaves of a segment: its first n records.                *)
LEMMA PrefixProperties ==
    ASSUME NEW s \in Seq(Record), NEW n \in 0..Len(s)
    PROVE  /\ SubSeq(s, 1, n) \in Seq(Record)
           /\ Len(SubSeq(s, 1, n)) = n
           /\ \A i \in 1..n : SubSeq(s, 1, n)[i] = s[i]
<1>1. Len(s) \in Nat /\ n \in Nat
  BY LenProperties
<1>2. \A i \in 1..n : s[i] \in Record
  BY <1>1, ElementOfSeq
<1> QED
  BY <1>1, <1>2, SubSeqProperties

(* A crash and a power loss preserve it: a prefix of a sorted segment is      *)
(* sorted.                                                                    *)
LEMMA StopInv ==
    ASSUME TypeOK, WalInv,
           Crash \/ \E cut \in [Dir -> 0..MaxRecords] : PowerLoss(cut)
    PROVE  TypeOK' /\ WalInv'
<1>1. IdleFlush \in Flush /\ IdleFlush.todo = {} /\ IdleFlush.pc # "remove"
  BY DEF IdleFlush, Flush, PC
<1>2. /\ up' = FALSE /\ pend' = NoOp /\ due' = FALSE
      /\ fl' = [t \in Flushers |-> IdleFlush]
      /\ crashes' \in Nat /\ losses' \in Nat
      /\ UNCHANGED <<fd, linked, lsn, size, manifest, fresh, records, old, stray>>
  BY DEF Crash, PowerLoss, TypeOK
<1>3. /\ Dir' = Dir
      /\ segs' \in [Dir -> Seq(Record)] /\ synced' \in [Dir -> Nat]
      /\ \A g \in Dir : /\ Len(segs'[g]) <= Len(segs[g])
                        /\ Len(segs'[g]) \in Nat /\ Len(segs[g]) \in Nat
                        /\ \A i \in 1..Len(segs'[g]) : segs'[g][i] = segs[g][i]
  <2>1. CASE Crash
    <3>1. segs' = segs /\ synced' = synced
      BY <2>1 DEF Crash
    <3> QED
      BY <3>1, LenProperties DEF Dir, TypeOK
  <2>2. CASE \E cut \in [Dir -> 0..MaxRecords] : PowerLoss(cut)
    <3>1. PICK cut \in [Dir -> 0..MaxRecords] : PowerLoss(cut)
      BY <2>2
    <3>2. /\ segs' = [g \in Dir |-> SubSeq(segs[g], 1, cut[g])]
          /\ synced' = [g \in Dir |-> cut[g]]
      BY <3>1 DEF PowerLoss
    <3>3. \A g \in Dir : /\ segs[g] \in Seq(Record) /\ Len(segs[g]) \in Nat
                         /\ cut[g] \in 0..Len(segs[g])
      <4>1. \A g \in Dir : segs[g] \in Seq(Record) /\ synced[g] \in Nat
        BY DEF TypeOK
      <4>2. \A g \in Dir : cut[g] \in synced[g]..Len(segs[g])
        BY <3>1 DEF PowerLoss
      <4> QED
        BY <4>1, <4>2, LenProperties
    <3>4. \A g \in Dir : /\ segs'[g] \in Seq(Record) /\ Len(segs'[g]) = cut[g]
                         /\ \A i \in 1..cut[g] : segs'[g][i] = segs[g][i]
      BY <3>2, <3>3, PrefixProperties
    <3>5. Dir' = Dir
      BY <3>2 DEF Dir
    <3> QED
      BY <3>2, <3>3, <3>4, <3>5
  <2> QED
    BY <2>1, <2>2
<1>4. TypeOK'
  BY <1>1, <1>2, <1>3 DEF TypeOK
<1>5. SegmentLsnSorted'
  <2> SUFFICES ASSUME NEW g \in Dir, NEW i \in 1..Len(segs'[g]),
                      NEW j \in 1..Len(segs'[g]), i <= j
               PROVE  segs'[g][i].lsn <= segs'[g][j].lsn
    BY <1>3 DEF SegmentLsnSorted
  <2>1. i \in 1..Len(segs[g]) /\ j \in 1..Len(segs[g])
    BY <1>3
  <2> QED
    BY <1>3, <2>1 DEF WalInv, SegmentLsnSorted
<1> QED
  BY <1>1, <1>2, <1>3, <1>4, <1>5
  DEF WalInv, ActiveIsNewest, DirBelowFd, ActiveLsn, QuietWhenDown, SparedIsOld,
      TodoSpares, RemoveChecked

-----------------------------------------------------------------------------
(* Every step of the system preserves the inductive invariant.                *)
LEMMA WalNextInv == TypeOK /\ WalInv /\ [Next]_vars => TypeOK' /\ WalInv'
<1> SUFFICES ASSUME TypeOK, WalInv, [Next]_vars PROVE TypeOK' /\ WalInv'
  OBVIOUS
<1>1. CASE Create
  BY <1>1, CreateInv
<1>2. ASSUME NEW op \in Ops, Rotate(op) \/ Write(op) PROVE TypeOK' /\ WalInv'
  BY <1>2, RotateInv, WriteInv
<1>8. CASE Fsync
  BY <1>8, FsyncInv
<1>3. ASSUME NEW t \in Flushers, NEW l \in FlushLsns, FlushStart(t, l)
      PROVE  TypeOK' /\ WalInv'
  BY <1>3, FlushStartInv
<1>4. ASSUME NEW t \in Flushers, FlushStep(t) PROVE TypeOK' /\ WalInv'
  BY <1>4, FlushLocalInv, RemoveInv DEF FlushStep
<1>5. CASE Crash \/ \E cut \in [Dir -> 0..MaxRecords] : PowerLoss(cut)
  BY <1>5, StopInv
<1>6. CASE UNCHANGED vars
  BY <1>6 DEF vars, TypeOK, WalInv, Dir, SegmentLsnSorted, ActiveIsNewest, DirBelowFd,
     ActiveLsn, QuietWhenDown, SparedIsOld, TodoSpares, RemoveChecked, IsNext
<1> QED
  BY <1>1, <1>2, <1>3, <1>4, <1>5, <1>6, <1>8 DEF Next

(* For all sets of operations and flush threads and all sizes: the state of   *)
(* the log keeps its types and the inductive invariant.                       *)
THEOREM WalInvariant == Spec => [](TypeOK /\ WalInv)
<1>1. Init => TypeOK /\ WalInv
  BY WalInitInv
<1>2. TypeOK /\ WalInv /\ [Next]_vars => (TypeOK /\ WalInv)'
  BY WalNextInv
<1> QED
  BY <1>1, <1>2, PTL DEF Spec

(* The last eight bytes of a segment are the segment's highest LSN, whatever  *)
(* the interleaving of appends, flushes, crashes and power losses.            *)
THEOREM SegmentsSorted == Spec => []SegmentLsnSorted
<1>1. TypeOK /\ WalInv => SegmentLsnSorted
  BY DEF WalInv
<1> QED
  BY <1>1, WalInvariant, PTL

(* The descriptor, while linked, is the newest segment of the directory.      *)
THEOREM ActiveNewest == Spec => []ActiveIsNewest
<1>1. TypeOK /\ WalInv => ActiveIsNewest
  BY DEF WalInv
<1> QED
  BY <1>1, WalInvariant, PTL

(* A flush thread removes only segments whose every record lies below the     *)
(* checkpoint it read, until a thread removes a segment younger than the one  *)
(* it spares; with any number of threads truncating at once.                  *)
THEOREM RemovalIsSafe == Spec => RemovalSafe
<1>1. TypeOK /\ WalInv /\ [Next]_vars => [CheckedRemoval]_vars
  <2> SUFFICES ASSUME TypeOK, WalInv, [Next]_vars, ~stray', NEW g \in Dir \ Dir'
               PROVE  \E t \in Flushers :
                        /\ fl[t].pc = "remove"
                        /\ \A i \in 1..Len(segs[g]) : segs[g][i].lsn < fl[t].ckpt
    BY DEF CheckedRemoval
  <2>1. ~(Create \/ \E op \in Ops : Rotate(op))
    BY DEF Create, Rotate, Created, Dir
  <2>2. ~(\E op \in Ops : Write(op))
    BY DEF Write, Dir, TypeOK
  <2>3. ~(Fsync \/ Crash \/ \E cut \in [Dir -> 0..MaxRecords] : PowerLoss(cut))
    BY DEF Fsync, Crash, PowerLoss, Dir
  <2>4. segs' # segs
    BY DEF Dir
  <2>5. PICK t \in Flushers : \E h \in fl[t].todo : TruncRemove(t, h)
    <3>1. PICK t \in Flushers :
            \E h \in fl[t].todo : TruncKeep(t, h) \/ TruncInspect(t, h) \/ TruncRemove(t, h)
      BY <2>1, <2>2, <2>3, <2>4 DEF Next, vars, FlushStart, FlushStep, ManifestOpen,
         ManifestWrite, SstableWrite, TruncSegno, TruncCheckpoint, TruncList, TruncDone,
         WalUnchanged
    <3> QED
      BY <2>4, <3>1 DEF TruncKeep, TruncInspect, WalUnchanged
  <2>6. IsNext(t, g) /\ fl[t].pc = "remove" /\ ~stray /\ ~(g > fl[t].segno)
    BY <2>5 DEF TruncRemove, Dir
  <2>7. MaxLsn(segs[g]) < fl[t].ckpt
    <3>1. g \in Nat /\ fl[t].segno \in Nat
      BY DEF TypeOK, Flush
    <3> QED
      BY <2>6, <3>1 DEF WalInv, RemoveChecked
  <2>8. /\ segs[g] \in Seq(Record)
        /\ \A i, j \in 1..Len(segs[g]) : i <= j => segs[g][i].lsn <= segs[g][j].lsn
    BY DEF TypeOK, WalInv, SegmentLsnSorted
  <2>9. MaxLsn(segs[g]) \in Nat /\ \A i \in 1..Len(segs[g]) : segs[g][i].lsn <= MaxLsn(segs[g])
    BY <2>8, MaxLsnProperties
  <2>10. \A i \in 1..Len(segs[g]) : segs[g][i].lsn \in Nat
    <3>1. \A i \in 1..Len(segs[g]) : segs[g][i] \in Record
      BY <2>8, ElementOfSeq
    <3> QED
      BY <3>1 DEF Record
  <2>11. fl[t].ckpt \in Nat
    BY DEF TypeOK, Flush
  <2> QED
    BY <2>6, <2>7, <2>9, <2>10, <2>11
<1> QED
  BY <1>1, WalInvariant, PTL DEF Spec, RemovalSafe

-----------------------------------------------------------------------------
(* What is at the mercy of a power loss *)

\* The records this process has written and not synced are at the end of the
\* active segment, from the first of them on with consecutive LSNs below
\* wal->lsn; none of them asks for an fsync but the last while its fsync is due.
SessionTail ==
    up => \A p \in Unsynced \ old :
        /\ linked /\ p[1] = fd
        /\ \A i \in p[2]..Len(segs[fd]) :
             /\ segs[fd][i].lsn = (lsn - 1) - (Len(segs[fd]) - i)
             /\ segs[fd][i].lsn % FsyncEvery = 0 => due /\ i = Len(segs[fd])

(* Steps that write nothing leave the tail as it is or take it away.          *)
LEMMA TailShrinks ==
    ASSUME TypeOK, WalInv, SessionTail, UNCHANGED <<fd, lsn, due, up, old>>,
           Dir' \subseteq Dir, \A g \in Dir' : segs'[g] = segs[g] /\ synced'[g] = synced[g],
           up /\ linked /\ fd \in Dir' => linked'
    PROVE  SessionTail'
<1> SUFFICES ASSUME up, NEW p \in Unsynced', p \notin old
             PROVE  /\ linked' /\ p[1] = fd
                    /\ \A i \in p[2]..Len(segs'[fd]) :
                         /\ segs'[fd][i].lsn = (lsn - 1) - (Len(segs'[fd]) - i)
                         /\ segs'[fd][i].lsn % FsyncEvery = 0 => due /\ i = Len(segs'[fd])
  BY DEF SessionTail
<1>1. PICK g \in Dir' : \E i \in (synced'[g] + 1)..Len(segs'[g]) : p = <<g, i>>
  BY DEF Unsynced
<1>2. p \in Unsynced /\ p[1] = g
  BY <1>1 DEF Unsynced
<1>3. /\ linked /\ p[1] = fd
      /\ \A k \in p[2]..Len(segs[fd]) :
           /\ segs[fd][k].lsn = (lsn - 1) - (Len(segs[fd]) - k)
           /\ segs[fd][k].lsn % FsyncEvery = 0 => due /\ k = Len(segs[fd])
  BY <1>2 DEF SessionTail
<1>4. fd \in Dir'
  BY <1>2, <1>3
<1> QED
  BY <1>3, <1>4

(* Opening the log: all that is not synced is from before.                    *)
LEMMA TailCreate ==
    ASSUME TypeOK, Create PROVE SessionTail'
<1>1. /\ segs' = Created(segs, fd', << >>) /\ synced' = Created(synced, fd', 0)
      /\ old' = Unsynced
  BY DEF Create
<1>2. DOMAIN segs = Dir /\ DOMAIN synced = Dir /\ Dir' = Dir \cup {fd'}
  BY <1>1 DEF TypeOK, Created, Dir
<1>3. ASSUME NEW g \in Dir', NEW i \in (synced'[g] + 1)..Len(segs'[g])
      PROVE  <<g, i>> \in Unsynced
  <2>1. CASE g \in Dir
    <3>1. segs'[g] = segs[g] /\ synced'[g] = synced[g]
      BY <1>1, <1>2, <2>1 DEF Created
    <3> QED
      BY <1>3, <2>1, <3>1 DEF Unsynced
  <2>2. CASE g \notin Dir
    <3>1. segs'[g] = << >> /\ synced'[g] = 0
      BY <1>1, <1>2, <2>2 DEF Created
    <3> QED
      BY <1>3, <3>1
  <2> QED
    BY <2>1, <2>2
<1>4. Unsynced' \subseteq Unsynced
  BY <1>3 DEF Unsynced
<1> QED
  BY <1>1, <1>4 DEF SessionTail

(* Rotation syncs the segment it leaves, which had all there was.             *)
LEMMA TailRotate ==
    ASSUME TypeOK, WalInv, SessionTail, NEW op \in Ops, Rotate(op) PROVE SessionTail'
<1> DEFINE f == IF linked THEN [synced EXCEPT ![fd] = Len(segs[fd])] ELSE synced
<1>1. /\ segs' = Created(segs, fd', << >>) /\ synced' = Created(f, fd', 0)
      /\ old' = old /\ up' = up /\ up
  BY DEF Rotate
<1>2. DOMAIN segs = Dir /\ DOMAIN f = Dir /\ Dir' = Dir \cup {fd'}
  BY <1>1 DEF TypeOK, Created, Dir
<1>3. ASSUME NEW g \in Dir', NEW i \in (synced'[g] + 1)..Len(segs'[g]), <<g, i>> \notin old
      PROVE  FALSE
  <2>1. CASE g \in Dir
    <3>1. segs'[g] = segs[g] /\ synced'[g] = f[g] /\ Len(segs[g]) \in Nat
      BY <1>1, <1>2, <2>1 DEF Created, TypeOK
    <3>2. CASE linked /\ g = fd
      <4>1. f[g] = Len(segs[g])
        BY <2>1, <3>2 DEF TypeOK
      <4> QED
        BY <1>3, <3>1, <4>1
    <3>3. CASE ~(linked /\ g = fd)
      <4>1. f[g] = synced[g]
        BY <2>1, <3>3 DEF TypeOK
      <4>2. <<g, i>> \in Unsynced \ old
        BY <1>3, <2>1, <3>1, <4>1 DEF Unsynced
      <4>3. linked /\ <<g, i>>[1] = fd
        BY <1>1, <4>2 DEF SessionTail
      <4> QED
        BY <3>3, <4>3
    <3> QED
      BY <3>2, <3>3
  <2>2. CASE g \notin Dir
    <3>1. segs'[g] = << >> /\ synced'[g] = 0
      BY <1>1, <1>2, <2>2 DEF Created
    <3> QED
      BY <1>3, <3>1
  <2> QED
    BY <2>1, <2>2
<1> HIDE DEF f
<1>4. Unsynced' \subseteq old
  BY <1>3 DEF Unsynced
<1> QED
  BY <1>1, <1>4 DEF SessionTail

(* The fsync of racs_wal_append_ covers the whole tail.                       *)
LEMMA TailFsync ==
    ASSUME TypeOK, WalInv, SessionTail, Fsync PROVE SessionTail'
<1>1. /\ up /\ UNCHANGED <<segs, fd, linked, up, old>>
      /\ synced' = IF linked THEN [synced EXCEPT ![fd] = Len(segs[fd])] ELSE synced
  BY DEF Fsync
<1>2. Dir' = Dir /\ synced \in [Dir -> Nat]
  BY <1>1 DEF Dir, TypeOK
<1>3. ASSUME NEW g \in Dir, NEW i \in (synced'[g] + 1)..Len(segs[g]), <<g, i>> \notin old
      PROVE  FALSE
  <2>0. Len(segs[g]) \in Nat
    BY LenProperties DEF TypeOK
  <2>1. CASE linked /\ g = fd
    <3>1. synced'[g] = Len(segs[g])
      BY <1>1, <1>2, <2>1
    <3> QED
      BY <1>3, <2>0, <3>1
  <2>2. CASE ~(linked /\ g = fd)
    <3>1. synced'[g] = synced[g]
      BY <1>1, <1>2, <2>2
    <3>2. <<g, i>> \in Unsynced \ old
      BY <1>3, <3>1 DEF Unsynced
    <3>3. linked /\ <<g, i>>[1] = fd
      BY <1>1, <3>2 DEF SessionTail
    <3> QED
      BY <2>2, <3>3
  <2> QED
    BY <2>1, <2>2
<1>4. Unsynced' \subseteq old
  BY <1>1, <1>2, <1>3 DEF Unsynced
<1> QED
  BY <1>1, <1>4 DEF SessionTail

(* A record is written at the end; one with an LSN that asks for an fsync is  *)
(* the last until that fsync is done.                                         *)
LEMMA TailWrite ==
    ASSUME TypeOK, WalInv, SessionTail, NEW op \in Ops, Write(op) PROVE SessionTail'
<1>1. /\ up /\ up' = up /\ lsn' = lsn + 1 /\ lsn \in Nat /\ ~due
      /\ due' = (lsn % FsyncEvery = 0)
      /\ UNCHANGED <<synced, fd, linked, old>>
  BY DEF Write, TypeOK
<1>2. CASE ~linked
  <2>1. UNCHANGED segs /\ Unsynced \subseteq old
    BY <1>1, <1>2 DEF Write, SessionTail
  <2>2. Unsynced' = Unsynced
    BY <1>1, <2>1 DEF Unsynced, Dir
  <2> QED
    BY <1>1, <2>1, <2>2 DEF SessionTail
<1>3. CASE linked
  <2> DEFINE r == [lsn |-> lsn, op |-> op]
             n == Len(segs[fd])
  <2>1. /\ fd \in Dir /\ segs \in [Dir -> Seq(Record)] /\ synced \in [Dir -> Nat]
        /\ n \in Nat /\ segs[fd] \in Seq(Record) /\ r \in Record
    <3>1. fd \in Dir /\ segs \in [Dir -> Seq(Record)] /\ synced \in [Dir -> Nat]
      BY <1>1, <1>3 DEF WalInv, ActiveIsNewest, TypeOK
    <3>2. r \in Record
      BY <1>1 DEF Record
    <3> QED
      BY <3>1, <3>2, LenProperties
  <2>2. segs' = [segs EXCEPT ![fd] = Append(segs[fd], r)] /\ Dir' = Dir /\ synced' = synced
    BY <1>1, <1>3 DEF Write, Dir
  <2>3. /\ \A g \in Dir : g # fd => segs'[g] = segs[g]
        /\ Len(segs'[fd]) = n + 1 /\ segs'[fd][n + 1] = r
        /\ \A i \in 1..n : segs'[fd][i] = segs[fd][i]
    <3>1. \A g \in Dir : segs'[g] = IF g = fd THEN Append(segs[fd], r) ELSE segs[g]
      BY <2>1, <2>2
    <3>2. segs'[fd] = Append(segs[fd], r)
      BY <2>1, <3>1
    <3> HIDE DEF r
    <3>3. /\ Len(Append(segs[fd], r)) = n + 1 /\ Append(segs[fd], r)[n + 1] = r
          /\ \A i \in 1..n : Append(segs[fd], r)[i] = segs[fd][i]
      BY <2>1, AppendProperties
    <3> QED
      BY <3>1, <3>2, <3>3
  <2> HIDE DEF n, r
  <2>5. ASSUME NEW g \in Dir, NEW k \in (synced[g] + 1)..Len(segs'[g]), <<g, k>> \notin old
        PROVE  /\ g = fd
               /\ \A i \in k..(n + 1) : /\ segs'[fd][i].lsn = lsn - ((n + 1) - i)
                                        /\ i # n + 1 => segs'[fd][i].lsn % FsyncEvery # 0
                                        /\ i = n + 1 => segs'[fd][i].lsn = lsn
    <3>1. g = fd
      <4>1. ASSUME g # fd PROVE FALSE
        <5>1. <<g, k>> \in Unsynced \ old
          BY <2>3, <2>5, <4>1 DEF Unsynced
        <5>2. <<g, k>>[1] = fd
          BY <1>1, <5>1 DEF SessionTail
        <5> QED
          BY <4>1, <5>2
      <4> QED
        BY <4>1
    <3>3. k \in Nat /\ k >= 1 /\ k <= n + 1 /\ k >= synced[fd] + 1
      BY <2>1, <2>3, <2>5, <3>1
    <3>4. segs'[fd][n + 1].lsn = lsn
      BY <2>3 DEF r
    <3>5. ASSUME NEW i \in k..n
          PROVE  segs'[fd][i].lsn = (lsn - 1) - (n - i) /\ segs'[fd][i].lsn % FsyncEvery # 0
      <4>1. k \in (synced[fd] + 1)..Len(segs[fd]) /\ i \in 1..n
        BY <2>1, <3>3 DEF n
      <4>2. <<fd, k>> \in Unsynced \ old
        BY <2>1, <2>5, <3>1, <4>1 DEF Unsynced
      <4>3. <<fd, k>>[2] = k
        OBVIOUS
      <4>4. \A j \in k..n : /\ segs[fd][j].lsn = (lsn - 1) - (n - j)
                            /\ segs[fd][j].lsn % FsyncEvery # 0
        BY <1>1, <4>2, <4>3 DEF SessionTail, n
      <4> QED
        BY <2>3, <4>1, <4>4
    <3>6. ASSUME NEW i \in k..(n + 1)
          PROVE  /\ segs'[fd][i].lsn = lsn - ((n + 1) - i)
                 /\ i # n + 1 => segs'[fd][i].lsn % FsyncEvery # 0
                 /\ i = n + 1 => segs'[fd][i].lsn = lsn
      <4>1. CASE i = n + 1
        <5>1. lsn - ((n + 1) - i) = lsn
          BY <1>1, <2>1, <4>1
        <5> QED
          BY <3>4, <4>1, <5>1
      <4>2. CASE i # n + 1
        <5>1. i \in k..n /\ i \in Int
          BY <2>1, <3>3, <4>2
        <5>2. (lsn - 1) - (n - i) = lsn - ((n + 1) - i)
          BY <1>1, <2>1, <5>1
        <5> QED
          BY <3>5, <4>2, <5>1, <5>2
      <4> QED
        BY <4>1, <4>2
    <3> QED
      BY <3>1, <3>6
  <2>6. ASSUME NEW p \in Unsynced', p \notin old
        PROVE  /\ p[1] = fd
               /\ \A i \in p[2]..(n + 1) : /\ segs'[fd][i].lsn = lsn - ((n + 1) - i)
                                           /\ i # n + 1 => segs'[fd][i].lsn % FsyncEvery # 0
                                           /\ i = n + 1 => segs'[fd][i].lsn = lsn
    <3>1. PICK g \in Dir : \E k \in (synced[g] + 1)..Len(segs'[g]) : p = <<g, k>>
      BY <2>2, <2>6 DEF Unsynced
    <3>2. PICK k \in (synced[g] + 1)..Len(segs'[g]) : p = <<g, k>>
      BY <3>1
    <3>3. p[1] = g /\ p[2] = k
      BY <3>2
    <3> QED
      BY <2>5, <2>6, <3>2, <3>3
  <2>7. lsn' - 1 = lsn /\ Len(segs'[fd]) = n + 1 /\ fd' = fd /\ old' = old /\ linked'
    BY <1>1, <1>3, <2>3
  <2>8. ASSUME NEW p \in (Unsynced \ old)'
        PROVE  /\ linked' /\ p[1] = fd'
               /\ \A i \in p[2]..Len(segs'[fd']) :
                    /\ segs'[fd'][i].lsn = (lsn' - 1) - (Len(segs'[fd']) - i)
                    /\ segs'[fd'][i].lsn % FsyncEvery = 0 => due' /\ i = Len(segs'[fd'])
    <3>1. p \in Unsynced' /\ p \notin old
      BY <2>7, <2>8
    <3>2. /\ p[1] = fd
          /\ \A i \in p[2]..(n + 1) : /\ segs'[fd][i].lsn = lsn - ((n + 1) - i)
                                      /\ i # n + 1 => segs'[fd][i].lsn % FsyncEvery # 0
                                      /\ i = n + 1 => segs'[fd][i].lsn = lsn
      BY <2>6, <3>1
    <3> QED
      <4> DEFINE a == lsn' - 1
                 b == Len(segs'[fd])
      <4>1. a = lsn /\ b = n + 1
        BY <2>7
      <4>2. \A i \in p[2]..b : /\ segs'[fd][i].lsn = a - (b - i)
                               /\ segs'[fd][i].lsn % FsyncEvery = 0 => due' /\ i = b
        <5> HIDE DEF a, b
        <5> QED
          BY <1>1, <3>2, <4>1
      <4> QED
        BY <2>7, <3>2, <4>2
  <2> QED
    BY <2>8 DEF SessionTail
<1> QED
  BY <1>2, <1>3 DEF TypeOK

(* Every step keeps it.                                                       *)
LEMMA TailStep ==
    ASSUME TypeOK, WalInv, SessionTail, [Next]_vars PROVE SessionTail'
<1>1. CASE Create
  BY <1>1, TailCreate
<1>2. ASSUME NEW op \in Ops, Rotate(op) \/ Write(op) PROVE SessionTail'
  BY <1>2, TailRotate, TailWrite
<1>8. CASE Fsync
  BY <1>8, TailFsync
<1>3. ASSUME WalUnchanged, RestUnchanged PROVE SessionTail'
  BY <1>3, TailShrinks DEF WalUnchanged, RestUnchanged, Dir
<1>4. ASSUME NEW t \in Flushers, NEW g \in fl[t].todo, TruncRemove(t, g) PROVE SessionTail'
  <2>1. /\ segs' = [h \in Dir \ {g} |-> segs[h]] /\ synced' = [h \in Dir \ {g} |-> synced[h]]
        /\ UNCHANGED <<fd, lsn, due, up, old>> /\ linked' = (linked /\ (up => g # fd))
    BY <1>4 DEF TruncRemove
  <2>2. Dir' = Dir \ {g}
    BY <2>1 DEF Dir
  <2> QED
    BY <2>1, <2>2, TailShrinks
<1>5. ASSUME NEW t \in Flushers, FlushStep(t) \/ \E l \in FlushLsns : FlushStart(t, l)
      PROVE  SessionTail'
  <2>1. ASSUME NEW g \in fl[t].todo, TruncKeep(t, g) \/ TruncInspect(t, g)
        PROVE  SessionTail'
    BY <1>3, <2>1 DEF TruncKeep, TruncInspect
  <2>2. ASSUME ManifestWrite(t) PROVE SessionTail'
    BY <1>3, <2>2 DEF ManifestWrite
  <2>3. ASSUME \E l \in FlushLsns : FlushStart(t, l) PROVE SessionTail'
    BY <1>3, <2>3 DEF FlushStart
  <2>4. ASSUME ManifestOpen(t) \/ SstableWrite(t) \/ TruncSegno(t) PROVE SessionTail'
    BY <1>3, <2>4 DEF ManifestOpen, SstableWrite, TruncSegno
  <2>5. ASSUME TruncCheckpoint(t) \/ TruncList(t) \/ TruncDone(t) PROVE SessionTail'
    BY <1>3, <2>5 DEF TruncCheckpoint, TruncList, TruncDone
  <2> QED
    BY <1>4, <1>5, <2>1, <2>2, <2>3, <2>4, <2>5 DEF FlushStep
<1>6. CASE Crash \/ \E cut \in [Dir -> 0..MaxRecords] : PowerLoss(cut)
  BY <1>6 DEF Crash, PowerLoss, SessionTail
<1>7. CASE UNCHANGED vars
  BY <1>7, TailShrinks DEF vars, Dir
<1> QED
  BY <1>1, <1>2, <1>5, <1>6, <1>7, <1>8 DEF Next

(* Of any FsyncEvery LSNs in a row one asks for an fsync.                     *)
LEMMA SyncedResidue ==
    ASSUME NEW n \in Nat, NEW m \in Nat \ {0}
    PROVE  (n - (n % m)) % m = 0 /\ n % m \in 0..(m - 1)
<1> DEFINE q == n \div m
           r == n % m
<1>1. /\ q \in Nat /\ r \in Nat /\ r < m /\ n = m * q + r
  OBVIOUS
<1>2. n - r = m * q /\ m * q \in Nat
  BY <1>1
<1>3. (m * q) % m = 0
  <2> DEFINE a == (m * q) \div m
             b == (m * q) % m
  <2>1. a \in Nat /\ b \in Nat /\ b < m /\ m * q = m * a + b
    <3> HIDE DEF q
    <3> QED
      BY <1>1, <1>2
  <2> HIDE DEF q, r, a, b
  <2>2. ASSUME a < q PROVE FALSE
    <3>1. PICK d \in Nat : q = (a + 1) + d
      <4>1. q - (a + 1) \in Nat /\ q = (a + 1) + (q - (a + 1))
        BY <1>1, <2>1, <2>2
      <4> QED
        BY <4>1
    <3>2. m * q = m * a + m + m * d
      BY <1>1, <2>1, <3>1
    <3>3. m * d \in Nat /\ m * a \in Nat
      BY <2>1, <3>1
    <3> QED
      BY <2>1, <3>2, <3>3
  <2>3. ASSUME q < a PROVE FALSE
    <3>1. PICK d \in Nat : a = (q + 1) + d
      <4>1. a - (q + 1) \in Nat /\ a = (q + 1) + (a - (q + 1))
        BY <1>1, <2>1, <2>3
      <4> QED
        BY <4>1
    <3>2. m * a = m * q + m + m * d
      BY <1>1, <2>1, <3>1
    <3>3. m * d \in Nat /\ m * q \in Nat
      BY <1>1, <3>1
    <3> QED
      BY <2>1, <3>2, <3>3
  <2>4. a = q
    BY <1>1, <2>1, <2>2, <2>3
  <2>5. m * q = m * q + b /\ m * q \in Nat
    BY <1>2, <2>1, <2>4
  <2>6. b = 0
    BY <2>1, <2>5
  <2> QED
    BY <2>6 DEF b
<1> QED
  BY <1>1, <1>2, <1>3

(* Hence the tail, without a last record whose fsync is due, is shorter than  *)
(* FsyncEvery.                                                                *)
LEMMA TailBounded ==
    ASSUME TypeOK, WalInv, SessionTail PROVE SessionFsync
<1> DEFINE n == Len(segs[fd])
           F == FsyncEvery
           e == IF due THEN 1 ELSE 0
           bound == IF due THEN FsyncEvery ELSE FsyncEvery - 1
<1> SUFFICES ASSUME up PROVE Cardinality(Unsynced \ old) <= bound
  BY DEF SessionFsync
<1>1. /\ F \in Nat /\ F >= 1 /\ lsn \in Nat
      /\ e \in {0, 1} /\ (e = 0 => ~due) /\ bound = F - 1 + e
  BY FsyncAssumption DEF TypeOK
<1> HIDE DEF e, bound
<1>2. CASE Unsynced \ old = {}
  <2>1. Cardinality(Unsynced \ old) = 0
    BY <1>2, FS_EmptySet
  <2> HIDE DEF F
  <2> QED
    BY <1>1, <2>1
<1>3. CASE Unsynced \ old # {}
  <2>1. linked
    BY <1>3 DEF SessionTail
  <2>2. fd \in Dir /\ segs[fd] \in Seq(Record)
    BY <2>1 DEF WalInv, ActiveIsNewest, TypeOK
  <2>3. n \in Nat /\ \A i \in 1..n : segs[fd][i].lsn \in Nat
    <3>1. \A i \in 1..n : segs[fd][i] \in Record
      BY <2>2, ElementOfSeq
    <3> QED
      BY <2>2, <3>1, LenProperties DEF Record
  <2> DEFINE lo == (n - e) - F + 2
  <2>4. ASSUME NEW p \in Unsynced \ old
        PROVE  \E k \in lo..n : p = <<fd, k>>
    <3>1. PICK g \in Dir : \E k \in (synced[g] + 1)..Len(segs[g]) : p = <<g, k>>
      BY <2>4 DEF Unsynced
    <3>2. PICK k \in (synced[g] + 1)..Len(segs[g]) : p = <<g, k>>
      BY <3>1
    <3>3. g = fd /\ p[2] = k /\ p = <<fd, k>>
      BY <2>4, <3>2 DEF SessionTail
    <3>4. \A i \in k..n : /\ segs[fd][i].lsn = (lsn - 1) - (n - i)
                          /\ i # n \/ e = 0 => segs[fd][i].lsn % F # 0
      BY <1>1, <2>4, <3>3 DEF SessionTail
    <3>5. k \in Nat /\ 1 <= k /\ k <= n
      <4>1. synced[fd] \in Nat
        BY <2>2 DEF TypeOK
      <4> HIDE DEF F
      <4> QED
        BY <2>3, <3>2, <3>3, <4>1
    <3> DEFINE c == n - e
               m == (lsn - 1) - e
               r == m % F
    <3>6. c \in Int /\ (k > c \/ c \in 1..n)
      <4> HIDE DEF F, n
      <4> QED
        BY <1>1, <2>3, <3>5
    <3>7. CASE k > c
      <4>1. k \in lo..n
        <5> HIDE DEF F, n, c
        <5>1. c = n - e
          BY DEF c
        <5> QED
          BY <1>1, <2>3, <3>5, <3>6, <3>7, <5>1
      <4> QED
        BY <3>3, <4>1
    <3>8. CASE k <= c
      <4>1. c \in k..n /\ c \in 1..n
        <5> HIDE DEF F, n
        <5> QED
          BY <1>1, <2>3, <3>5, <3>8
      <4>2. segs[fd][c].lsn = (lsn - 1) - (n - c) /\ segs[fd][c].lsn \in Nat
        BY <2>3, <3>4, <4>1
      <4>3. m \in Nat
        <5>1. n - c = e
          <6> HIDE DEF n, F
          <6> QED
            BY <1>1, <2>3
        <5> QED
          BY <4>2, <5>1
      <4>4. (m - r) % F = 0 /\ r \in 0..(F - 1)
        <5>1. F \in Nat \ {0}
          BY <1>1
        <5> HIDE DEF m, F
        <5> QED
          BY <4>3, <5>1, SyncedResidue DEF r
      <4>5. c = n - e /\ m = (lsn - 1) - e
        OBVIOUS
      <4> HIDE DEF n, F, m, r, c
      <4>6. ~(c - r \in k..c)
        <5>1. ASSUME c - r \in k..c PROVE FALSE
          <6>1. c - r \in k..n /\ (c - r # n \/ e = 0)
            BY <1>1, <2>3, <3>5, <3>6, <4>4, <4>5, <5>1
          <6>2. segs[fd][c - r].lsn = (lsn - 1) - (n - (c - r)) /\ segs[fd][c - r].lsn % F # 0
            BY <3>4, <6>1
          <6>3. (lsn - 1) - (n - (c - r)) = m - r
            BY <1>1, <2>3, <3>6, <4>4, <4>5
          <6> QED
            BY <4>4, <6>2, <6>3
        <5> QED
          BY <5>1
      <4>7. k > c - r /\ r <= F - 1
        BY <1>1, <2>3, <3>5, <3>6, <3>8, <4>4, <4>6
      <4>8. k \in lo..n
        BY <1>1, <2>3, <3>5, <3>6, <4>4, <4>5, <4>7
      <4> QED
        BY <3>3, <4>8
    <3> QED
      BY <3>5, <3>6, <3>7, <3>8
  <2> DEFINE I == lo..n
  <2>5. IsFiniteSet(I) /\ Cardinality(I) = bound
    <3>1. lo \in Int /\ n \in Int
      <4> HIDE DEF n, F
      <4> QED
        BY <1>1, <2>3
    <3>2. /\ IsFiniteSet(lo..n)
          /\ Cardinality(lo..n) = IF lo > n THEN 0 ELSE n - lo + 1
      <4> HIDE DEF n, lo
      <4> QED
        BY <3>1, FS_Interval
    <3>3. (IF lo > n THEN 0 ELSE n - lo + 1) = bound
      <4> HIDE DEF n, F
      <4> QED
        BY <1>1, <2>3
    <3> HIDE DEF n, F, lo
    <3> QED
      BY <3>2, <3>3
  <2>6. IsFiniteSet({fd}) /\ Cardinality({fd}) = 1
    BY FS_Singleton
  <2> HIDE DEF I
  <2>7. IsFiniteSet({fd} \X I) /\ Cardinality({fd} \X I) = 1 * bound
    BY <2>5, <2>6, FS_Product
  <2>8. Unsynced \ old \subseteq {fd} \X I
    BY <2>4 DEF I
  <2>9. /\ IsFiniteSet(Unsynced \ old)
        /\ Cardinality(Unsynced \ old) <= Cardinality({fd} \X I)
    BY <2>7, <2>8, FS_Subset
  <2>10. bound \in Int /\ 1 * bound = bound
    <3> HIDE DEF F
    <3> QED
      BY <1>1
  <2> QED
    BY <2>7, <2>9, <2>10
<1> QED
  BY <1>2, <1>3

(* At most FsyncEvery records of the running process are at the mercy of a    *)
(* power loss, and that many only between a write and the fsync that follows  *)
(* it, however often the log is rotated, segments are removed, and whatever   *)
(* LSN a restart begins with.                                                 *)
THEOREM SessionAlwaysSynced == Spec => []SessionFsync
<1>1. Init => SessionTail
  BY DEF Init, SessionTail
<1>2. TypeOK /\ WalInv /\ SessionTail /\ [Next]_vars => SessionTail'
  BY TailStep
<1>3. TypeOK /\ WalInv /\ SessionTail => SessionFsync
  BY TailBounded
<1> QED
  BY <1>1, <1>2, <1>3, WalInvariant, PTL DEF Spec
=============================================================================
