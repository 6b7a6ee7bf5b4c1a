---------------------------- MODULE RequestProofs ---------------------------
(***************************************************************************)
(* TLAPS proofs about requests.  Streams and sessions: one writer per      *)
(* stream, batches that store what they can, and a LIST without            *)
(* duplicates, for every set of streams and sessions, every table capacity *)
(* and hash, every batch and any number of crashes.  Text requests: a      *)
(* request is executed as written or refused as a whole, no failure is     *)
(* hidden, the audio operations keep their laws and only named commands    *)
(* end the process, for every set of requests, of any length.              *)
(***************************************************************************)
EXTENDS Streams, Exec, KvStoreProofs, FiniteSetTheorems, WellFoundedInduction

Rcs == {"malformed", "conflict", "not_found", "ok"}

\* Streams with a metadata file.
Named == {s \in StreamIds : md[s] # None}

\* The types of the variables; the table of sessions is a map.
TypeInv ==
    /\ md \in [StreamIds -> Refs \cup {None}]
    /\ mdTmp \in [StreamIds -> Refs \cup {None}]
    /\ kv \in KvTables(StreamIds, Sessions) /\ KvIsMap(kv)
    /\ creating \in StreamIds \cup {None}
    /\ batch \in Seq(Frames)
    /\ tried \in Seq([frame : Frames, rc : Rcs])
    /\ accepted \in [StreamIds -> Seq(Sessions)]

\* A stream that is open is bound to the session of its last accepted frame.
BoundToLast ==
    \A s \in StreamIds : KvHas(kv, s) /\ accepted[s] # <<>> =>
        KvGet(kv, s) = accepted[s][Len(accepted[s])]

\* Once a session has written to a stream, it is the only one.
OneSession ==
    \A s \in StreamIds : \A i, j \in DOMAIN accepted[s] :
        i < j /\ accepted[s][i] # ZeroSession => accepted[s][j] = accepted[s][i]

\* A sound frame of an existing stream that was refused met another session,
\* and that session is still the bound one.
RefusedByOther ==
    \A i \in DOMAIN tried :
        LET f == tried[i].frame IN
        tried[i].rc # "ok" /\ f.sound /\ md[f.stream] # None /\ KvHas(kv, f.stream)
          => KvGet(kv, f.stream) \notin {f.session, ZeroSession}

\* The metadata of a stream appears under no running or answered batch.
CreateAlone == creating # None => batch = <<>> /\ tried = <<>>

\* A temporary metadata file is never beside the named file of its stream.
TmpUnnamed == \A s \in StreamIds : mdTmp[s] # None => md[s] = None

\* The inductive invariant.
StreamsInv ==
    /\ TypeInv
    /\ BoundToLast
    /\ OneSession
    /\ RefusedByOther
    /\ CreateAlone
    /\ TmpUnnamed
    /\ IsFiniteSet(Named)

(* The keys of the table of sessions can be hashed.                           *)
LEMMA StreamsHashable == Hashable(StreamIds)
BY HashAssumption DEF Hashable

(* A batch is a sequence of frames.                                           *)
LEMMA BatchIsSeq == BoundedSeq(Frames, MaxBatch) \subseteq Seq(Frames)
BY MaxBatchAssumption, SeqDef DEF BoundedSeq, SeqOf

(* The invariant holds initially.                                             *)
LEMMA StreamsInitInv == Init => StreamsInv
<1> SUFFICES ASSUME Init PROVE StreamsInv
  OBVIOUS
<1>1. /\ KvEmpty \in KvTables(StreamIds, Sessions) /\ KvIsMap(KvEmpty)
      /\ \A s \in StreamIds : ~ KvHas(KvEmpty, s)
  BY StreamsHashable, KvEmptyBinds
<1>2. TypeInv
  BY <1>1, EmptySeq DEF Init, TypeInv
<1>3. BoundToLast /\ OneSession /\ RefusedByOther /\ CreateAlone /\ TmpUnnamed
  BY <1>1 DEF Init, BoundToLast, OneSession, RefusedByOther, CreateAlone, TmpUnnamed
<1>4. Named = {}
  BY DEF Init, Named
<1> QED
  BY <1>2, <1>3, <1>4, FS_EmptySet DEF StreamsInv

(* racs_metadata_flush opens the temporary file only of a stream without      *)
(* metadata.                                                                  *)
LEMMA CreateBeginInv ==
    ASSUME StreamsInv, NEW s \in StreamIds, NEW ref \in Refs, CreateBegin(s, ref)
    PROVE  StreamsInv'
<1>1. TypeInv'
  BY EmptySeq DEF StreamsInv, TypeInv, CreateBegin
<1>2. BoundToLast' /\ OneSession'
  BY DEF StreamsInv, BoundToLast, OneSession, CreateBegin
<1>3. RefusedByOther' /\ CreateAlone'
  BY DEF CreateBegin, RefusedByOther, CreateAlone, Idle
<1>4. TmpUnnamed'
  BY DEF StreamsInv, TypeInv, TmpUnnamed, CreateBegin, MetadataGet
<1>5. Named' = Named
  BY DEF Named, CreateBegin
<1> QED
  BY <1>1, <1>2, <1>3, <1>4, <1>5 DEF StreamsInv

(* The rename leaves no temporary file, and adds at most one stream.          *)
LEMMA CreateRenameInv ==
    ASSUME StreamsInv, CreateRename
    PROVE  StreamsInv'
<1>1. creating \in StreamIds /\ mdTmp[creating] \in Refs \cup {None} /\ tried = <<>>
  BY DEF StreamsInv, TypeInv, CreateRename, CreateAlone
<1>2. TypeInv'
  BY <1>1 DEF StreamsInv, TypeInv, CreateRename
<1>3. BoundToLast' /\ OneSession' /\ CreateAlone'
  BY DEF StreamsInv, BoundToLast, OneSession, CreateRename, CreateAlone
<1>4. RefusedByOther'
  BY <1>1 DEF CreateRename, RefusedByOther
<1>5. TmpUnnamed'
  BY <1>1 DEF StreamsInv, TypeInv, TmpUnnamed, CreateRename
<1>6. IsFiniteSet(Named')
  <2>1. Named' \in SUBSET (Named \cup {creating})
    BY <1>1 DEF Named, CreateRename, StreamsInv, TypeInv
  <2>2. IsFiniteSet(Named \cup {creating})
    BY FS_AddElement DEF StreamsInv
  <2> QED
    BY <2>1, <2>2, FS_Subset
<1> QED
  BY <1>2, <1>3, <1>4, <1>5, <1>6 DEF StreamsInv

(* OPEN starts the life of a session: nothing was accepted in it yet.         *)
LEMMA OpenInv ==
    ASSUME StreamsInv, NEW s \in StreamIds, Open(s)
    PROVE  StreamsInv'
<1>1. /\ kv \in KvTables(StreamIds, Sessions) /\ KvIsMap(kv)
      /\ ZeroSession \in Sessions /\ Hashable(StreamIds)
  BY StreamsHashable, SessionAssumption DEF StreamsInv, TypeInv
<1>2. kv' \in KvTables(StreamIds, Sessions) /\ KvIsMap(kv')
  BY <1>1, KvPutBinds DEF Open
<1>3. \A x \in StreamIds : x # s /\ KvHas(kv', x) =>
        KvHas(kv, x) /\ KvGet(kv', x) = KvGet(kv, x)
  BY <1>1, KvActsAsMap DEF Open
<1>4. TypeInv'
  BY <1>2, EmptySeq DEF StreamsInv, TypeInv, Open
<1>5. \A x \in StreamIds : accepted'[x] = IF x = s THEN <<>> ELSE accepted[x]
  BY DEF StreamsInv, TypeInv, Open
<1>6. BoundToLast' /\ OneSession'
  BY <1>3, <1>5 DEF StreamsInv, BoundToLast, OneSession
<1>7. RefusedByOther' /\ CreateAlone' /\ TmpUnnamed' /\ Named' = Named
  BY DEF Open, RefusedByOther, CreateAlone, TmpUnnamed, Named, Idle, StreamsInv
<1> QED
  BY <1>4, <1>6, <1>7 DEF StreamsInv

(* CLOSE only removes a binding.                                              *)
LEMMA CloseInv ==
    ASSUME StreamsInv, NEW s \in StreamIds, Close(s)
    PROVE  StreamsInv'
<1>1. /\ kv \in KvTables(StreamIds, Sessions) /\ KvIsMap(kv)
      /\ ZeroSession \in Sessions /\ Hashable(StreamIds)
  BY StreamsHashable, SessionAssumption DEF StreamsInv, TypeInv
<1>2. kv' \in KvTables(StreamIds, Sessions) /\ KvIsMap(kv')
  BY <1>1, KvDeleteBinds DEF Close
<1>3. \A x \in StreamIds : KvHas(kv', x) => KvHas(kv, x) /\ KvGet(kv', x) = KvGet(kv, x)
  BY <1>1, KvActsAsMap DEF Close
<1>4. TypeInv'
  BY <1>2, EmptySeq DEF StreamsInv, TypeInv, Close
<1>5. BoundToLast' /\ OneSession'
  BY <1>3 DEF StreamsInv, BoundToLast, OneSession, Close
<1>6. RefusedByOther' /\ CreateAlone' /\ TmpUnnamed' /\ Named' = Named
  BY DEF Close, RefusedByOther, CreateAlone, TmpUnnamed, Named, Idle, StreamsInv
<1> QED
  BY <1>4, <1>5, <1>6 DEF StreamsInv

(* A batch arrives while nothing else runs.                                   *)
LEMMA BatchArrivesInv ==
    ASSUME StreamsInv, NEW frames \in BoundedSeq(Frames, MaxBatch), BatchArrives(frames)
    PROVE  StreamsInv'
<1>1. TypeInv'
  BY BatchIsSeq, EmptySeq DEF StreamsInv, TypeInv, BatchArrives
<1>2. BoundToLast' /\ OneSession'
  BY DEF StreamsInv, BoundToLast, OneSession, BatchArrives
<1>3. RefusedByOther' /\ CreateAlone' /\ TmpUnnamed' /\ Named' = Named
  BY DEF BatchArrives, RefusedByOther, CreateAlone, TmpUnnamed, Named, Idle, StreamsInv
<1> QED
  BY <1>1, <1>2, <1>3 DEF StreamsInv

(* What racs_stream_append finds out about a frame: an accepted one carries   *)
(* the bound session or meets an unbound stream, and a sound one of an open   *)
(* stream with metadata is refused only for another session.                  *)
LEMMA AppendRcProperties ==
    ASSUME NEW f \in Frames
    PROVE  /\ AppendRc(f) \in Rcs
           /\ AppendRc(f) = "ok" =>
                KvHas(kv, f.stream) /\ KvGet(kv, f.stream) \in {f.session, ZeroSession}
           /\ AppendRc(f) # "ok" /\ f.sound /\ md[f.stream] # None
                /\ KvHas(kv, f.stream) =>
                KvGet(kv, f.stream) \notin {f.session, ZeroSession}
BY DEF AppendRc, Rcs, SessionCmp, MetadataGet

(* One frame of a batch: it is bound and recorded, or refused without a       *)
(* trace.                                                                     *)
LEMMA BatchStepInv ==
    ASSUME StreamsInv, BatchStep
    PROVE  StreamsInv'
<1> DEFINE f == Head(batch)
           ok == AppendRc(f) = "ok"
           e == [frame |-> f, rc |-> AppendRc(f)]
           R == [frame : Frames, rc : Rcs]
<1>1. /\ f \in Frames /\ Tail(batch) \in Seq(Frames)
      /\ f.stream \in StreamIds /\ f.session \in Sessions
  <2>1. f \in Frames /\ Tail(batch) \in Seq(Frames)
    BY HeadTailProperties DEF StreamsInv, TypeInv, BatchStep
  <2> QED
    BY <2>1, SessionAssumption DEF Frames
<1>2. /\ kv \in KvTables(StreamIds, Sessions) /\ KvIsMap(kv) /\ Hashable(StreamIds)
      /\ tried \in Seq(R) /\ e \in R
      /\ accepted \in [StreamIds -> Seq(Sessions)]
  BY <1>1, StreamsHashable, AppendRcProperties DEF StreamsInv, TypeInv
<1>3. /\ kv' = IF ok THEN KvPut(kv, f.stream, f.session) ELSE kv
      /\ accepted' = IF ok THEN [accepted EXCEPT ![f.stream] = Append(@, f.session)]
                           ELSE accepted
      /\ tried' = Append(tried, e)
      /\ batch' = Tail(batch)
      /\ UNCHANGED <<md, mdTmp, creating>>
  BY DEF BatchStep, Bind
<1>4. kv' \in KvTables(StreamIds, Sessions) /\ KvIsMap(kv')
  BY <1>1, <1>2, <1>3, KvPutBinds
<1>5. /\ ok => /\ KvHas(kv, f.stream) /\ KvGet(kv, f.stream) \in {f.session, ZeroSession}
               /\ KvHas(kv', f.stream) /\ KvGet(kv', f.stream) = f.session
      /\ ~ ok /\ f.sound /\ md[f.stream] # None /\ KvHas(kv, f.stream) =>
            KvGet(kv, f.stream) \notin {f.session, ZeroSession}
  BY <1>1, <1>2, <1>3, KvActsAsMap, AppendRcProperties
<1>6. ASSUME NEW x \in StreamIds, KvHas(kv', x)
      PROVE  /\ KvHas(kv, x)
             /\ KvGet(kv', x) = KvGet(kv, x)
                  \/ (ok /\ x = f.stream /\ KvGet(kv, x) = ZeroSession)
  BY <1>1, <1>2, <1>3, <1>5, <1>6, KvActsAsMap
<1>7. /\ Len(tried') = Len(tried) + 1 /\ tried' \in Seq(R) /\ Len(tried) \in Nat
      /\ \A i \in 1..Len(tried) : tried'[i] = tried[i]
      /\ tried'[Len(tried) + 1] = e
      /\ DOMAIN tried' = 1..Len(tried) + 1 /\ DOMAIN tried = 1..Len(tried)
  <2> HIDE DEF e, R
  <2>1. /\ Len(tried') = Len(tried) + 1 /\ tried' \in Seq(R)
        /\ \A i \in 1..Len(tried) : tried'[i] = tried[i]
        /\ tried'[Len(tried) + 1] = e
    BY <1>2, <1>3, AppendProperties
  <2>2. /\ Len(tried) \in Nat /\ DOMAIN tried = 1..Len(tried)
        /\ DOMAIN tried' = 1..Len(tried')
    BY <1>2, <2>1, LenProperties
  <2> QED
    BY <2>1, <2>2
<1>8. accepted' \in [StreamIds -> Seq(Sessions)]
  BY <1>1, <1>2, <1>3, AppendProperties
<1>9. TypeInv'
  BY <1>1, <1>3, <1>4, <1>7, <1>8 DEF StreamsInv, TypeInv
<1>10. ASSUME ok, NEW a, a = accepted[f.stream]
       PROVE  /\ a \in Seq(Sessions) /\ Len(a) \in Nat /\ DOMAIN a = 1..Len(a)
              /\ accepted'[f.stream] \in Seq(Sessions)
              /\ Len(accepted'[f.stream]) = Len(a) + 1
              /\ DOMAIN accepted'[f.stream] = 1..Len(a) + 1
              /\ accepted'[f.stream][Len(a) + 1] = f.session
              /\ \A i \in 1..Len(a) : accepted'[f.stream][i] = a[i]
  <2>1. a \in Seq(Sessions) /\ accepted'[f.stream] = Append(a, f.session)
    BY <1>1, <1>2, <1>3, <1>10
  <2>2. Len(a) \in Nat /\ DOMAIN a = 1..Len(a)
    BY <2>1, LenProperties
  <2>3. /\ Append(a, f.session) \in Seq(Sessions)
        /\ Len(Append(a, f.session)) = Len(a) + 1
        /\ Append(a, f.session)[Len(a) + 1] = f.session
        /\ \A i \in 1..Len(a) : Append(a, f.session)[i] = a[i]
    BY <1>1, <2>1, AppendProperties
  <2>4. DOMAIN Append(a, f.session) = 1..Len(Append(a, f.session))
    BY <2>3, LenProperties
  <2> QED
    BY <2>1, <2>2, <2>3, <2>4
<1>11. \A x \in StreamIds : (x # f.stream \/ ~ ok) => accepted'[x] = accepted[x]
  BY <1>1, <1>2, <1>3
<1> HIDE DEF ok, e
<1>12. BoundToLast'
  <2> SUFFICES ASSUME NEW x \in StreamIds, KvHas(kv', x), accepted'[x] # <<>>
               PROVE  KvGet(kv', x) = accepted'[x][Len(accepted'[x])]
    BY DEF BoundToLast
  <2>1. CASE ok /\ x = f.stream
    BY <1>5, <1>10, <2>1
  <2>2. CASE ~ (ok /\ x = f.stream)
    BY <1>6, <1>11, <2>2 DEF StreamsInv, BoundToLast
  <2> QED
    BY <2>1, <2>2
<1>13. OneSession'
  <2> SUFFICES ASSUME NEW x \in StreamIds,
                      NEW i \in DOMAIN accepted'[x], NEW j \in DOMAIN accepted'[x],
                      i < j, accepted'[x][i] # ZeroSession
               PROVE  accepted'[x][j] = accepted'[x][i]
    BY DEF OneSession
  <2>1. CASE ~ (ok /\ x = f.stream)
    BY <1>11, <2>1 DEF StreamsInv, OneSession
  <2>2. CASE ok /\ x = f.stream
    <3> DEFINE a == accepted[x]
    <3>1. /\ Len(a) \in Nat /\ DOMAIN a = 1..Len(a)
          /\ DOMAIN accepted'[x] = 1..Len(a) + 1
          /\ accepted'[x][Len(a) + 1] = f.session
          /\ \A n \in 1..Len(a) : accepted'[x][n] = a[n]
      BY <1>10, <2>2
    <3> HIDE DEF a
    <3>2. i \in 1..Len(a) /\ a[i] # ZeroSession /\ accepted'[x][i] = a[i]
      BY <3>1
    <3>3. CASE j \in 1..Len(a)
      BY <3>1, <3>2, <3>3 DEF StreamsInv, OneSession, a
    <3>4. CASE j = Len(a) + 1
      <4>1. a[Len(a)] = a[i]
        <5>1. CASE i = Len(a)
          BY <5>1
        <5>2. CASE i < Len(a)
          <6>1. Len(a) \in DOMAIN a /\ i \in DOMAIN a
            BY <3>1, <3>2
          <6> QED
            BY <3>2, <5>2, <6>1 DEF StreamsInv, OneSession, a
        <5> QED
          BY <3>1, <3>2, <5>1, <5>2
      <4>2. KvGet(kv, x) = a[Len(a)]
        <5>1. a # <<>>
          BY <3>1, <3>2
        <5> QED
          BY <1>5, <2>2, <5>1 DEF StreamsInv, BoundToLast, a
      <4>3. f.session = a[i]
        BY <1>5, <2>2, <3>2, <4>1, <4>2
      <4> QED
        BY <3>1, <3>2, <3>4, <4>3
    <3> QED
      BY <3>1, <3>3, <3>4
  <2> QED
    BY <2>1, <2>2
<1>14. RefusedByOther'
  <2> SUFFICES ASSUME NEW i \in DOMAIN tried', NEW g, g = tried'[i].frame,
                      tried'[i].rc # "ok", g.sound, md'[g.stream] # None,
                      KvHas(kv', g.stream)
               PROVE  KvGet(kv', g.stream) \notin {g.session, ZeroSession}
    BY DEF RefusedByOther
  <2>0. md' = md
    BY <1>3
  <2>1. CASE i \in 1..Len(tried)
    <3>1. tried[i] \in R /\ tried[i] = tried'[i] /\ i \in DOMAIN tried
      BY <1>2, <1>7, <2>1, ElementOfSeq
    <3>2. g \in Frames /\ g.stream \in StreamIds
      BY <3>1 DEF Frames
    <3>3. KvHas(kv, g.stream)
      BY <1>6, <3>2
    <3>4. KvGet(kv, g.stream) \notin {g.session, ZeroSession}
      BY <2>0, <3>1, <3>3 DEF StreamsInv, RefusedByOther
    <3> QED
      BY <1>6, <3>2, <3>4
  <2>2. CASE i = Len(tried) + 1
    <3>1. g = f /\ tried'[i].rc = AppendRc(f)
      BY <1>7, <2>2 DEF e
    <3>2. ~ ok /\ kv' = kv
      BY <1>3, <3>1 DEF ok
    <3> QED
      BY <1>5, <2>0, <3>1, <3>2
  <2> QED
    BY <1>7, <2>1, <2>2
<1>15. CreateAlone'
  BY <1>3 DEF StreamsInv, CreateAlone, BatchStep
<1>16. TmpUnnamed' /\ Named' = Named
  BY <1>3 DEF StreamsInv, TmpUnnamed, Named
<1> QED
  BY <1>9, <1>12, <1>13, <1>14, <1>15, <1>16 DEF StreamsInv

(* A crash leaves the files and an empty table.                               *)
LEMMA CrashInv ==
    ASSUME StreamsInv, Crash
    PROVE  StreamsInv'
<1>1. /\ KvEmpty \in KvTables(StreamIds, Sessions) /\ KvIsMap(KvEmpty)
      /\ \A s \in StreamIds : ~ KvHas(KvEmpty, s)
  BY StreamsHashable, KvEmptyBinds
<1>2. TypeInv'
  BY <1>1, EmptySeq DEF StreamsInv, TypeInv, Crash
<1>3. BoundToLast' /\ OneSession' /\ RefusedByOther'
  BY <1>1 DEF StreamsInv, BoundToLast, OneSession, RefusedByOther, Crash
<1>4. CreateAlone' /\ TmpUnnamed' /\ Named' = Named
  BY DEF StreamsInv, CreateAlone, TmpUnnamed, Named, Crash
<1> QED
  BY <1>2, <1>3, <1>4 DEF StreamsInv

(* Every behaviour keeps the invariant: the table of sessions stays a map,    *)
(* an open stream is bound to the session of its last accepted frame, and     *)
(* metadata files appear only while no batch runs.                            *)
THEOREM StreamsInvariant == Spec => []StreamsInv
<1>1. ASSUME StreamsInv, [Next]_vars PROVE StreamsInv'
  <2>1. CASE Next
    BY <1>1, <2>1, CreateBeginInv, CreateRenameInv, OpenInv, CloseInv, BatchArrivesInv,
       BatchStepInv, CrashInv DEF Next
  <2>2. CASE UNCHANGED vars
    BY <1>1, <2>2 DEF vars, StreamsInv, TypeInv, BoundToLast, OneSession, RefusedByOther,
       CreateAlone, TmpUnnamed, Named
  <2> QED
    BY <1>1, <2>1, <2>2
<1> QED
  BY <1>1, StreamsInitInv, PTL DEF Spec

(* Between OPEN and CLOSE a stream has one writer: after a frame with a       *)
(* session id every accepted frame has that id, and racs_streamkv_put has     *)
(* bound the stream to it.                                                    *)
THEOREM OneWriterAlways == Spec => []OneWriter
<1>1. StreamsInv => OneWriter
  <2> SUFFICES ASSUME StreamsInv, NEW s \in StreamIds, NEW a, a = accepted[s],
                      NEW i \in DOMAIN a, NEW j \in DOMAIN a, i < j, a[i] # ZeroSession
               PROVE  a[j] = a[i] /\ (KvHas(kv, s) => KvGet(kv, s) = a[i])
    BY DEF OneWriter
  <2>1. a[j] = a[i]
    BY DEF StreamsInv, OneSession
  <2>2. Len(a) \in Nat /\ DOMAIN a = 1..Len(a)
    BY LenProperties DEF StreamsInv, TypeInv
  <2>3. Len(a) \in DOMAIN a /\ i < Len(a) /\ a # <<>>
    BY <2>2
  <2>4. a[Len(a)] = a[i]
    BY <2>3 DEF StreamsInv, OneSession
  <2> QED
    BY <2>1, <2>3, <2>4 DEF StreamsInv, BoundToLast
<1> QED
  BY <1>1, StreamsInvariant, PTL

(* A batch stores every sound frame of the bound session whose stream has     *)
(* metadata, whatever became of the other frames.                             *)
THEOREM BatchIndependentAlways == Spec => []BatchIndependent
<1>1. StreamsInv => BatchIndependent
  BY DEF StreamsInv, RefusedByOther, BatchIndependent, MetadataGet
<1> QED
  BY <1>1, StreamsInvariant, PTL

(* racs_streams_list names every created stream once: what a crash leaves of  *)
(* an unfinished CREATE is never listed.                                      *)
THEOREM ListedOnceAlways == Spec => []ListedOnce
<1>1. StreamsInv => ListedOnce
  <2> SUFFICES ASSUME StreamsInv PROVE ListedOnce
    OBVIOUS
  <2>1. StreamsList = Named \X {"file"}
    BY DEF StreamsInv, TmpUnnamed, StreamsList, Named, MetadataGet
  <2>2. Named = {s \in StreamIds : MetadataGet(s)}
    BY DEF Named, MetadataGet
  <2>3. {f[1] : f \in Named \X {"file"}} = Named
    <3>1. \A s \in Named : <<s, "file">> \in Named \X {"file"} /\ <<s, "file">>[1] = s
      OBVIOUS
    <3>2. \A f \in Named \X {"file"} : f[1] \in Named
      OBVIOUS
    <3> QED
      BY <3>1, <3>2
  <2>4. Cardinality(Named \X {"file"}) = Cardinality(Named)
    <3> DEFINE h == [s \in Named |-> <<s, "file">>]
    <3>1. h \in Bijection(Named, Named \X {"file"})
      <4>1. h \in [Named -> Named \X {"file"}]
        OBVIOUS
      <4>2. \A s, t \in Named : h[s] = h[t] => s = t
        OBVIOUS
      <4>3. \A p \in Named \X {"file"} : \E s \in Named : h[s] = p
        <5> TAKE p \in Named \X {"file"}
        <5>1. p[1] \in Named /\ h[p[1]] = p
          OBVIOUS
        <5> QED
          BY <5>1
      <4> HIDE DEF h
      <4> QED
        BY <4>1, <4>2, <4>3 DEF Bijection, Injection, Surjection, IsInjective
    <3>2. ExistsBijection(Named, Named \X {"file"})
      BY <3>1 DEF ExistsBijection
    <3> QED
      BY <3>2, FS_Bijection DEF StreamsInv
  <2> QED
    BY <2>1, <2>2, <2>3, <2>4 DEF ListedOnce
<1> QED
  BY <1>1, StreamsInvariant, PTL

(* A set of natural numbers that is not empty has a least element.            *)
LEMMA LeastNat ==
    ASSUME NEW B \in SUBSET Nat, B # {}
    PROVE  \E n \in B : \A m \in B : n <= m
<1>1. PICK n \in B : \A m \in B : ~ (<<m, n>> \in OpToRel(<, Nat))
  BY NatLessThanWellFounded, WFMin
<1>2. \A m \in B : ~ (m < n)
  BY <1>1 DEF OpToRel
<1> QED
  BY <1>2

\* f has n steps: it begins with b, and step takes it from one value to the next.
Iterates(f, S, b, step, n) ==
    /\ f \in [0..n -> S] /\ f[0] = b
    /\ \A i \in 1..n : f[i] = step[i][f[i - 1]]

(* Steps can be taken one after the other.                                    *)
LEMMA IteratesExist ==
    ASSUME NEW S, NEW b \in S, NEW n \in Nat, NEW step \in [1..n -> [S -> S]]
    PROVE  \E f : Iterates(f, S, b, step, n)
<1> DEFINE Solved(m) == \E f : Iterates(f, S, b, step, m)
           B == {m \in Nat : m \in 0..n /\ ~ Solved(m)}
<1>1. Solved(0)
  <2> DEFINE f == [i \in 0..0 |-> b]
  <2>1. Iterates(f, S, b, step, 0)
    BY DEF Iterates
  <2> QED
    BY <2>1
<1>2. ASSUME NEW m \in Nat, m < n, Solved(m) PROVE Solved(m + 1)
  <2>1. PICK f : Iterates(f, S, b, step, m)
    BY <1>2
  <2> DEFINE g == [i \in 0..m + 1 |-> IF i = m + 1 THEN step[m + 1][f[m]] ELSE f[i]]
  <2>2. m + 1 \in 1..n /\ m \in 0..m /\ f[m] \in S /\ step[m + 1][f[m]] \in S
    <3>1. m + 1 \in 1..n /\ m \in 0..m
      BY <1>2
    <3>2. f[m] \in S
      BY <2>1, <3>1 DEF Iterates
    <3> QED
      BY <3>1, <3>2
  <2>3. g \in [0..m + 1 -> S] /\ g[0] = b
    BY <2>1, <2>2 DEF Iterates
  <2>4. \A i \in 1..m + 1 : g[i] = step[i][g[i - 1]]
    <3> TAKE i \in 1..m + 1
    <3>1. i - 1 \in 0..m /\ i - 1 # m + 1 /\ i - 1 \in 0..m + 1 /\ i \in 0..m + 1
      OBVIOUS
    <3>2. g[i - 1] = f[i - 1]
      BY <3>1
    <3>3. CASE i = m + 1
      BY <3>1, <3>2, <3>3
    <3>4. CASE i # m + 1
      <4>1. i \in 1..m
        BY <3>4
      <4> QED
        BY <2>1, <3>1, <3>2, <3>4, <4>1 DEF Iterates
    <3> QED
      BY <3>3, <3>4
  <2>5. Iterates(g, S, b, step, m + 1)
    BY <2>3, <2>4 DEF Iterates
  <2> HIDE DEF g
  <2> QED
    BY <2>5
<1> HIDE DEF Solved
<1>3. B = {}
  <2> SUFFICES ASSUME B # {} PROVE FALSE
    OBVIOUS
  <2>1. PICK m \in B : \A k \in B : m <= k
    BY LeastNat
  <2>2. m # 0 /\ m - 1 \in Nat /\ m - 1 < n /\ m - 1 \in 0..n /\ ~ (m <= m - 1)
    BY <1>1, <2>1
  <2>3. Solved(m - 1)
    BY <2>1, <2>2
  <2>4. Solved((m - 1) + 1) /\ (m - 1) + 1 = m
    BY <1>2, <2>1, <2>2, <2>3
  <2> QED
    BY <2>1, <2>4
<1>4. Solved(n)
  BY <1>3
<1> QED
  BY <1>4 DEF Solved

-----------------------------------------------------------------------------
(* Sequences *)

(* A function on 1..n is a sequence of its values.                            *)
LEMMA Listed ==
    ASSUME NEW S, NEW n \in Nat, NEW f, f \in [1 .. n -> S]
    PROVE  f \in Seq(S) /\ Len(f) = n /\ DOMAIN f = 1 .. n
OBVIOUS

(* FlattenSeq makes a sequence of the elements of its parts.                  *)
LEMMA Flattened ==
    ASSUME NEW S, NEW q \in Seq(Seq(S))
    PROVE  FlattenSeq(q) \in Seq(S)
<1> DEFINE n == Len(q)
           step == [i \in 1 .. n |-> [x \in Seq(S) |-> x \o q[i]]]
           sol(f) == f = [i \in 1 .. n |-> IF i = 1 THEN q[i] ELSE f[i - 1] \o q[i]]
<1>1. n \in Nat /\ \A i \in 1 .. n : q[i] \in Seq(S)
  OBVIOUS
<1>2. CASE n = 0
  <2>1. FlattenSeq(q) = q /\ q = <<>>
    BY <1>2 DEF FlattenSeq
  <2> QED
    BY <2>1
<1>3. CASE n # 0
  <2>1. <<>> \in Seq(S) /\ step \in [1 .. n -> [Seq(S) -> Seq(S)]]
    BY <1>1, ConcatProperties
  <2> HIDE DEF step
  <2>2. PICK g : Iterates(g, Seq(S), <<>>, step, n)
    BY <1>1, <2>1, IteratesExist
  <2> DEFINE h == [i \in 1 .. n |-> g[i]]
  <2>3. ASSUME NEW i \in 1 .. n
        PROVE  h[i] \in Seq(S) /\ g[i] = g[i - 1] \o q[i] /\ g[i - 1] \in Seq(S)
    <3>1. i \in 0 .. n /\ i - 1 \in 0 .. n
      BY <1>1
    <3>2. g[i] = step[i][g[i - 1]] /\ g[i] \in Seq(S) /\ g[i - 1] \in Seq(S)
      BY <2>2, <3>1 DEF Iterates
    <3>3. step[i][g[i - 1]] = g[i - 1] \o q[i]
      BY <3>2 DEF step
    <3> QED
      BY <3>2, <3>3
  <2>4. ASSUME NEW i \in 1 .. n PROVE h[i] = IF i = 1 THEN q[i] ELSE h[i - 1] \o q[i]
    <3>1. CASE i = 1
      <4>0. i - 1 = 0
        BY <3>1
      <4>1. g[i] = g[i - 1] \o q[i] /\ q[i] \in Seq(S)
        BY <1>1, <2>3
      <4>2. g[0] = <<>>
        BY <2>2 DEF Iterates
      <4>3. <<>> \o q[i] = q[i]
        BY <4>1, ConcatEmptySeq
      <4>4. h[i] = g[i]
        OBVIOUS
      <4> QED
        BY <3>1, <4>0, <4>1, <4>2, <4>3, <4>4
    <3>2. CASE i # 1
      <4>1. i - 1 \in 1 .. n
        BY <1>1, <3>2
      <4> QED
        BY <2>3, <3>2, <4>1
    <3> QED
      BY <3>1, <3>2
  <2>5. sol(h)
    BY <2>4
  <2> HIDE DEF h
  <2> DEFINE c == CHOOSE f : sol(f)
  <2>6. sol(c)
    BY <2>5
  <2>7. FlattenSeq(q) = c[n]
    BY <1>3 DEF FlattenSeq
  <2> HIDE DEF c
  <2> DEFINE B == {i \in 1 .. n : ~ (c[i] \in Seq(S))}
  <2>8. B = {}
    <3> SUFFICES ASSUME B # {} PROVE FALSE
      OBVIOUS
    <3>1. PICK i \in B : \A j \in B : i <= j
      <4>1. B \in SUBSET Nat
        BY <1>1
      <4> HIDE DEF B
      <4> QED
        BY <4>1, LeastNat
    <3>2. i \in 1 .. n /\ c[i] = IF i = 1 THEN q[i] ELSE c[i - 1] \o q[i]
      BY <2>6
    <3>3. i # 1
      BY <1>1, <3>2
    <3>4. i - 1 \in 1 .. n /\ ~ (i <= i - 1)
      BY <1>1, <3>2, <3>3
    <3>5. c[i - 1] \in Seq(S)
      BY <3>1, <3>4
    <3> QED
      BY <1>1, <3>2, <3>3, <3>5, ConcatProperties
  <2>9. n \in 1 .. n
    BY <1>1, <1>3
  <2> QED
    BY <2>7, <2>8, <2>9
<1> QED
  BY <1>2, <1>3
-----------------------------------------------------------------------------
(* The parser *)

\* Tokens of the request the parser has read.
Done == Len(Text) - Len(toks)

\* Token i as the parser reads it.
LexedAt(T, i) ==
    IF T[i].type # "bar" THEN T[i].type
    ELSE IF \E j \in i .. Len(T) : T[j].type = "pipe" THEN "pipe" ELSE "error"

\* The first n tokens let the parser go on.
Accepted(T, n) ==
    \A i \in 1 .. n :
        /\ LexedAt(T, i) # "error"
        /\ T[i].type = "id" => i \in Starts(T)
        /\ T[i].type \in ArgTokens => i \notin Starts(T)

\* What is not read is the end of the text.
Behind ==
    /\ toks \in Seq(Tokens) /\ Done \in 0 .. Len(Text)
    /\ \A i \in 1 .. Len(toks) : toks[i] = Text[Done + i]
    /\ prev = IF Done = 0 THEN "none" ELSE LexedAt(Text, Done)

\* Every name that was read is the name of an object, and every object has one.
NamesKept ==
    /\ \A i \in 1 .. Done : Text[i].type = "id" => \E k \in DOMAIN cmds : cmds[k].name = Text[i].val
    /\ \A k \in DOMAIN cmds : \E i \in 1 .. Done : Text[i].type = "id" /\ cmds[k].name = Text[i].val

Objects == [name : {t.val : t \in {u \in Tokens : u.type = "id"}}, args : Seq(Tokens)]

\* The objects that are not in the plan: none, or the one that is being built.
Planned ==
    /\ cmds \in Seq(Objects)
    /\ plan \in Seq(DOMAIN cmds)
    /\ cmd \in DOMAIN cmds \cup {0}
    /\ phase \in {"build", "check", "exec"} =>
         \A k \in DOMAIN cmds : k \in Range(plan) \/ (phase = "build" /\ k = cmd)

\* Between two tokens.
Builder ==
    phase = "build" =>
        /\ prev = "none" => cmds = <<>>
        /\ prev = "pipe" => cmd = 0 \/ cmd \in Range(plan)
        /\ prev \notin {"none", "pipe"} => cmd # 0
        /\ Accepted(Text, Done)

\* Nothing is called before the whole request is understood.
Quiet ==
    /\ phase \in {"idle", "build", "check"} => ctx = before /\ out = <<>> /\ rcs = <<>>
    /\ phase \in {"check", "exec"} => toks = <<>> /\ Accepted(Text, Done)
    /\ phase = "exec" => \A k \in DOMAIN plan : Known(cmds[plan[k]].name)

\* Everything so far has succeeded, and left one object.
Succeeding ==
    phase = "exec" =>
        /\ \A i \in DOMAIN rcs : rcs[i] = "ok"
        /\ Len(rcs) < Len(plan) \/ (plan = <<>> /\ rcs = <<>>)
        /\ IF rcs = <<>> THEN out = <<>> ELSE Len(out) = 1 /\ out[1].type # "error"

\* How a request ends.
Ended ==
    phase \in {"destroy", "reply"} =>
        /\ HasError <=> Refused(Text) \/ "error" \in Range(rcs)
        /\ HasError => Last(out).type = "error"
        /\ \A i \in 1 .. Len(rcs) - 1 : rcs[i] = "ok"
        /\ Len(out) > 1 => /\ Last(Called).name \in Filters
                           /\ Len(Last(Called).args) # Len(ArgTypes[Last(Called).name])

RequestInv ==
    /\ phase \in {"idle", "build", "check", "exec", "destroy", "reply", "down"}
    /\ request \in Seq(DOMAIN Chunks)
    /\ rcs \in Seq({"ok", "error"}) /\ Len(rcs) <= Len(plan)
    /\ phase = "idle" => prev = "none" /\ cmds = <<>> /\ cmd = 0 /\ plan = <<>>
    /\ phase \in {"build", "check", "exec"} => Behind /\ NamesKept
    /\ Planned /\ Builder /\ Quiet /\ Succeeding /\ Ended
    /\ AllOrNothing

-----------------------------------------------------------------------------
(* Commands *)

\* Every result is the end of the process, one object that is no error, or one
\* error.
Fine(rs) ==
    \A r \in rs :
        \/ r.down /\ r.rc = "error"
        \/ ~ r.down /\ r.rc = "ok" /\ \E o : r.out = <<o>> /\ o.type # "error"
        \/ ~ r.down /\ r.rc = "error" /\ r.out = <<ErrorObj>>

(* What the parts of commands yield.                                          *)
LEMMA FineParts ==
    /\ \A c : Fine(Fail(c)) /\ Fine(Down(c))
    /\ \A c, o : o.type # "error" => Fine(Ok(c, o))
    /\ \A rs, qs : Fine(rs) /\ Fine(qs) => Fine(rs \cup qs)
    /\ \A Q : (\A rs \in Q : Fine(rs)) => Fine(UNION Q)
<1>1. \A c : Fine(Fail(c)) /\ Fine(Down(c))
  BY DEF Fine, Fail, Down, Result
<1>2. \A c, o : o.type # "error" => Fine(Ok(c, o))
  BY DEF Fine, Ok, Result
<1>3. \A rs, qs : Fine(rs) /\ Fine(qs) => Fine(rs \cup qs)
  BY DEF Fine
<1>4. \A Q : (\A rs \in Q : Fine(rs)) => Fine(UNION Q)
  BY DEF Fine
<1> QED
  BY <1>1, <1>2, <1>3, <1>4

(* Packing a buffer is fine, and so is what the operations of filters do.     *)
LEMMA FinePacked == \A c, b, final : Fine(Packed(c, b, final))
BY FineParts DEF Packed, S32v, Obj

LEMMA FineFilters ==
    \A c, b, a, final :
        /\ Fine(Encode(c, b, a)) /\ Fine(Gain(c, b, a, final)) /\ Fine(Trim(c, b, a, final))
        /\ Fine(Fade(c, b, a, final)) /\ Fine(Pan(c, b, a, final)) /\ Fine(Pad(c, b, a, final))
        /\ Fine(Clip(c, b, a, final)) /\ Fine(Split(c, b, a, final))
<1> TAKE c, b, a, final
<1>1. Fine(Encode(c, b, a))
  <2> DEFINE rs(n) == IF n = Fatal THEN Down(c) ELSE IF n = 0 THEN Fail(c)
                      ELSE Ok(c, Obj("u8v", <<n>>))
  <2>1. \A n : Fine(rs(n))
    BY FineParts DEF Obj
  <2>2. Encode(c, b, a) = IF Len(b) < 2 THEN Down(c) \cup Fail(c) ELSE IF Len(b) = 2 THEN Fail(c)
                          ELSE IF Channels(b) = 0 THEN Down(c)
                          ELSE UNION {rs(n) : n \in EncodePcm(b, a[1].val)}
    BY DEF Encode
  <2> HIDE DEF rs
  <2>3. Fine(UNION {rs(n) : n \in EncodePcm(b, a[1].val)})
    BY <2>1, FineParts
  <2> QED
    BY <2>2, <2>3, FineParts
<1>2. \A rs : Fine(rs) => Fine(Sized(c, b, rs))
  BY FineParts DEF Sized
<1>7. \A rs : Fine(rs) => Fine(rs \cup Stray(c, b, a))
  BY FineParts DEF Stray
<1>3. Fine(Gain(c, b, a, final)) /\ Fine(Trim(c, b, a, final))
  BY <1>2, <1>7, FinePacked DEF Gain, Trim
<1>4. Fine(Fade(c, b, a, final)) /\ Fine(Pan(c, b, a, final))
  BY <1>2, FineParts, FinePacked DEF Fade, Pan
<1>5. Fine(Pad(c, b, a, final)) /\ Fine(Clip(c, b, a, final))
  BY <1>2, <1>7, FinePacked DEF Pad, Clip
<1>6. Fine(Split(c, b, a, final))
  BY <1>2, FineParts, FinePacked DEF Split
<1> QED
  BY <1>1, <1>3, <1>4, <1>5, <1>6

LEMMA FineSources ==
    \A c, a, final :
        /\ Fine(Ping(c)) /\ Fine(StreamCreate(c, a)) /\ Fine(StreamList(c, a))
        /\ Fine(StreamOpen(c, a)) /\ Fine(StreamClose(c, a)) /\ Fine(Metadata(c, a))
        /\ Fine(Eval(c, a, final)) /\ Fine(RangeOf(c, a, final))
<1> TAKE c, a, final
<1>1. Fine(Ping(c)) /\ Fine(StreamList(c, a))
  BY FineParts DEF Ping, StreamList, Obj
<1>2. Fine(StreamCreate(c, a))
  BY FineParts DEF StreamCreate, NullObj, Obj
<1>3. Fine(StreamOpen(c, a)) /\ Fine(StreamClose(c, a)) /\ Fine(Metadata(c, a))
  BY FineParts DEF StreamOpen, StreamClose, Metadata, NullObj, Obj
<1>4. Fine(Eval(c, a, final))
  <2> DEFINE reply(o) == CASE o.type = "s32null" -> Down(c)
                           [] o.type = "error" -> Fail(c)
                           [] OTHER -> Ok(c, o)
  <2>1. \A o : Fine(reply(o))
    BY FineParts
  <2> HIDE DEF reply
  <2>2. Fine(UNION {reply(o) : o \in ScmReply(c, a[1].val, final)})
    BY <2>1, FineParts
  <2> QED
    BY <2>2 DEF Eval, reply
<1>5. Fine(RangeOf(c, a, final))
  <2>1. ASSUME NEW bs PROVE Fine(UNION {Packed(c, b, final) : b \in bs})
    <3>1. \A rs \in {Packed(c, b, final) : b \in bs} : Fine(rs)
      BY FinePacked
    <3> HIDE DEF Fine
    <3> QED
      BY <3>1, FineParts
  <2> QED
    BY <2>1, FineParts DEF RangeOf
<1> QED
  BY <1>1, <1>2, <1>3, <1>4, <1>5

(* A command that is called ends the process, leaves one object, or leaves    *)
(* one error, in front of which only a wrong number of arguments of a filter  *)
(* leaves what was there.                                                     *)
LEMMA CommandOutcome ==
    ASSUME NEW name \in DOMAIN ArgTypes, NEW c, NEW a, NEW o, NEW final,
           NEW r \in Command(name, c, a, o, final)
    PROVE  \/ r.down /\ r.rc = "error"
           \/ r.rc = "ok" /\ \E x : r.out = <<x>> /\ x.type # "error"
           \/ r.rc = "error" /\ r.out = <<ErrorObj>>
           \/ /\ r.rc = "error" /\ r.out = Append(o, ErrorObj)
              /\ name \in Filters /\ Len(a) # Len(ArgTypes[name])
<1>1. DOMAIN ArgTypes = {"PING", "SHUTDOWN", "CREATE", "LIST", "OPEN", "CLOSE", "META", "EVAL",
                         "RANGE", "ENCODE", "GAIN", "TRIM", "FADE", "PAN", "PAD", "CLIP", "SPLIT"}
  BY DEF ArgTypes
<1>2. CASE Len(a) # Len(ArgTypes[name]) /\ name # "SHUTDOWN"
  <2>1. r \in BadArity(name, c, o)
    BY <1>2 DEF Command
  <2>2. r.rc = "error" /\ r.out = Append(IF name \in Filters THEN o ELSE <<>>, ErrorObj)
    BY <2>1 DEF BadArity, Result
  <2>3. Append(<<>>, ErrorObj) = <<ErrorObj>>
    OBVIOUS
  <2> QED
    BY <1>2, <2>2, <2>3
<1>3. CASE Len(a) = Len(ArgTypes[name]) \/ name = "SHUTDOWN"
  <2>1. Fine(Command(name, c, a, o, final))
    BY <1>1, <1>3, FineParts, FineFilters, FineSources DEF Command
  <2> QED
    BY <2>1 DEF Fine
<1> QED
  BY <1>2, <1>3

-----------------------------------------------------------------------------
(* Reading a request *)

(* The text of a request is a sequence of tokens.                             *)
LEMMA TextTokens ==
    ASSUME NEW r \in Seq(DOMAIN Chunks)
    PROVE  TextOf(r) \in Seq(Tokens)
<1> DEFINE q == [i \in DOMAIN r |-> Chunks[r[i]]]
<1>1. q \in Seq(Seq(Tokens))
  <2>1. Len(r) \in Nat /\ DOMAIN r = 1 .. Len(r) /\ \A i \in 1 .. Len(r) : r[i] \in DOMAIN Chunks
    OBVIOUS
  <2>2. q \in [1 .. Len(r) -> Seq(Tokens)]
    BY <2>1, ChunkAssumption
  <2> QED
    BY <2>1, <2>2, Listed
<1> HIDE DEF q
<1>2. FlattenSeq(q) \in Seq(Tokens)
  BY <1>1, Flattened
<1> QED
  BY <1>2 DEF TextOf, q

(* A request that comes in consists of chunks.                                *)
LEMMA RequestChunks ==
    ASSUME NEW r \in Requests
    PROVE  r \in Seq(DOMAIN Chunks)
<1>1. PICK menu \in Menus : r \in RequestsOf(menu)
  BY DEF Requests
<1>2. menu \in Seq(SUBSET DOMAIN Chunks)
  BY MenuAssumption
<1>3. PICK n \in 1 .. Len(menu) :
        r \in [1 .. n -> UNION Range(menu)] /\ \A i \in 1 .. n : r[i] \in menu[i]
  BY <1>1 DEF RequestsOf
<1>4. n \in Nat /\ \A i \in 1 .. n : r[i] \in DOMAIN Chunks
  BY <1>2, <1>3
<1>5. r \in [1 .. n -> DOMAIN Chunks]
  BY <1>3, <1>4
<1> QED
  BY <1>4, <1>5, Listed

LEMMA TextType == RequestInv => Text \in Seq(Tokens) /\ Len(Text) \in Nat
BY TextTokens DEF RequestInv, Text

\* Token i has a type.
Typed(T) == \A i \in 1 .. Len(T) : T[i] \in Tokens /\ T[i].type \in TokenTypes

LEMMA TextTyped == ASSUME NEW T \in Seq(Tokens) PROVE Typed(T)
BY ChunkAssumption DEF Typed

(* A command starts where the parser has read nothing or a pipe.              *)
LEMMA StartsBehindPipe ==
    ASSUME NEW T \in Seq(Tokens), NEW n \in Nat, n + 1 \in 1 .. Len(T), Accepted(T, n),
           NEW p, p = IF n = 0 THEN "none" ELSE LexedAt(T, n)
    PROVE  n + 1 \in Starts(T) <=> p \in {"none", "pipe"}
<1>1. n + 1 \in DOMAIN T /\ (n + 1) - 1 = n /\ (n + 1 = 1 <=> n = 0)
  OBVIOUS
<1>2. n + 1 \in Starts(T) <=> n = 0 \/ T[n].type \in {"pipe", "bar"}
  BY <1>1 DEF Starts
<1>3. CASE n = 0
  BY <1>2, <1>3
<1>4. CASE n # 0
  <2>1. n \in 1 .. n /\ n \in 1 .. Len(T)
    BY <1>4
  <2>2. T[n].type \in TokenTypes /\ LexedAt(T, n) # "error"
    BY <2>1, TextTyped DEF Typed, Accepted
  <2>3. p = LexedAt(T, n)
    BY <1>4
  <2> QED
    BY <1>2, <1>4, <2>2, <2>3 DEF LexedAt, TokenTypes, ArgTokens
<1> QED
  BY <1>3, <1>4

(* One more token is accepted.                                                *)
LEMMA AcceptMore ==
    ASSUME NEW T \in Seq(Tokens), NEW n \in Nat, n + 1 \in 1 .. Len(T), Accepted(T, n),
           LexedAt(T, n + 1) # "error",
           T[n + 1].type = "id" => n + 1 \in Starts(T),
           T[n + 1].type \in ArgTokens => n + 1 \notin Starts(T)
    PROVE  Accepted(T, n + 1)
<1>1. \A i \in 1 .. n + 1 : i \in 1 .. n \/ i = n + 1
  OBVIOUS
<1> QED
  BY <1>1 DEF Accepted

(* What the parser stops at makes a request refused.                          *)
LEMMA RefusedHere ==
    ASSUME NEW T \in Seq(Tokens), NEW i \in 1 .. Len(T),
           \/ LexedAt(T, i) = "error"
           \/ T[i].type = "id" /\ i \notin Starts(T)
           \/ T[i].type \in ArgTokens /\ i \in Starts(T)
    PROVE  Refused(T)
BY DEF Refused, LexedAt

(* Once all tokens are accepted, only an unknown name is left to refuse.      *)
LEMMA RefusedName ==
    ASSUME NEW T \in Seq(Tokens), Accepted(T, Len(T))
    PROVE  Refused(T) <=> \E i \in 1 .. Len(T) : T[i].type = "id" /\ ~ Known(T[i].val)
<1>1. DOMAIN T = 1 .. Len(T)
  OBVIOUS
<1>2. ASSUME NEW i \in DOMAIN T
      PROVE  /\ T[i].type # "error"
             /\ ~ (T[i].type = "bar" /\ \A j \in i .. Len(T) : T[j].type # "pipe")
             /\ T[i].type = "id" => i \in Starts(T)
             /\ ~ (T[i].type \in ArgTokens /\ i \in Starts(T))
  BY <1>1, <1>2 DEF Accepted, LexedAt
<1> QED
  BY <1>1, <1>2 DEF Refused

\* What reading one token does.
HasRead == /\ phase = "build" /\ toks # <<>>
           /\ toks' = Tail(toks) /\ prev' = Lexed(toks) /\ request' = request

LEMMA ReadToken ==
    ASSUME RequestInv, HasRead
    PROVE  /\ Text' = Text /\ Done \in Nat /\ Done + 1 \in 1 .. Len(Text) /\ Done' = Done + 1
           /\ Head(toks) = Text[Done + 1] /\ Head(toks) \in Tokens
           /\ Lexed(toks) = LexedAt(Text, Done + 1)
           /\ Behind'
<1>1. /\ Text \in Seq(Tokens) /\ toks \in Seq(Tokens) /\ Done \in 0 .. Len(Text)
      /\ \A i \in 1 .. Len(toks) : toks[i] = Text[Done + i]
  BY TextType DEF RequestInv, Behind, HasRead
<1>2. Text' = Text
  BY DEF Text, HasRead
<1>3. Len(toks) \in Nat /\ Len(toks) # 0 /\ Len(Text) \in Nat /\ Done = Len(Text) - Len(toks)
  BY <1>1 DEF HasRead, Done
<1>4. /\ Tail(toks) \in Seq(Tokens) /\ Len(Tail(toks)) = Len(toks) - 1
      /\ \A i \in 1 .. Len(toks) - 1 : Tail(toks)[i] = toks[i + 1]
      /\ Head(toks) = toks[1] /\ toks[1] \in Tokens
  BY <1>1, <1>3
<1>5. Done' = Done + 1 /\ Done \in Nat /\ Done + 1 \in 1 .. Len(Text)
  <2>1. Done' = Len(Text) - (Len(toks) - 1)
    BY <1>2, <1>4 DEF Done, HasRead
  <2> QED
    BY <1>1, <1>3, <2>1
<1>6. Head(toks) = Text[Done + 1]
  BY <1>1, <1>3, <1>4
<1>7. Lexed(toks) = LexedAt(Text, Done + 1)
  <2>1. (\E i \in DOMAIN toks : toks[i].type = "pipe")
          <=> \E j \in Done + 1 .. Len(Text) : Text[j].type = "pipe"
    <3>1. ASSUME NEW i \in DOMAIN toks, toks[i].type = "pipe"
          PROVE  \E j \in Done + 1 .. Len(Text) : Text[j].type = "pipe"
      <4>1. i \in 1 .. Len(toks) /\ Done + i \in Done + 1 .. Len(Text)
        BY <1>1, <1>3, <1>5
      <4> QED
        BY <1>1, <3>1, <4>1
    <3>2. ASSUME NEW j \in Done + 1 .. Len(Text), Text[j].type = "pipe"
          PROVE  \E i \in DOMAIN toks : toks[i].type = "pipe"
      <4>1. /\ j - Done \in 1 .. Len(toks) /\ j - Done \in DOMAIN toks
            /\ Done + (j - Done) = j
        BY <1>1, <1>3, <1>5
      <4> QED
        BY <1>1, <3>2, <4>1
    <3> QED
      BY <3>1, <3>2
  <2> QED
    BY <1>6, <2>1 DEF Lexed, LexedAt
<1>8. Behind'
  <2>1. toks' \in Seq(Tokens) /\ Done' \in 0 .. Len(Text')
    BY <1>2, <1>3, <1>4, <1>5 DEF HasRead
  <2>2. ASSUME NEW i \in 1 .. Len(toks') PROVE toks'[i] = Text'[Done' + i]
    <3>1. i \in 1 .. Len(toks) - 1 /\ i + 1 \in 1 .. Len(toks) /\ Done' + i = Done + (i + 1)
      BY <1>3, <1>4, <1>5 DEF HasRead
    <3> QED
      BY <1>1, <1>2, <1>4, <3>1 DEF HasRead
  <2>3. prev' = LexedAt(Text', Done') /\ Done' # 0
    BY <1>2, <1>5, <1>7 DEF HasRead
  <2> QED
    BY <2>1, <2>2, <2>3 DEF Behind, LexedAt
<1> QED
  BY <1>2, <1>4, <1>5, <1>6, <1>7, <1>8

-----------------------------------------------------------------------------
(* The steps of the parser *)

(* One error in an empty buffer.                                              *)
LEMMA OneError ==
    /\ Append(<<>>, ErrorObj) = <<ErrorObj>> /\ Len(<<ErrorObj>>) = 1
    /\ DOMAIN <<ErrorObj>> = {1} /\ Last(<<ErrorObj>>) = ErrorObj /\ <<ErrorObj>>[1] = ErrorObj
    /\ ErrorObj.type = "error"
BY DEF ErrorObj, Obj, Last

(* The parser gives up only on a request that is refused.                     *)
LEMMA AbortKept ==
    ASSUME RequestInv, HasRead, Abort, Refused(Text), cmd' \in {0, cmd},
           rcs' = rcs, ctx' = ctx, before' = before
    PROVE  RequestInv'
<1>1. Text' = Text
  BY DEF Text, HasRead
<1>2. /\ phase = "build" /\ phase' = "destroy" /\ cmds' = cmds /\ plan' = plan
      /\ request' = request /\ out = <<>> /\ rcs = <<>> /\ ctx = before
      /\ out' = <<ErrorObj>>
  BY OneError DEF RequestInv, Quiet, HasRead, Abort
<1>3. Planned'
  BY <1>2 DEF RequestInv, Planned
<1>4. Ended'
  <2>1. Refused(Text')
    BY <1>1
  <2>2. HasError'
    BY <1>2, OneError DEF HasError
  <2>3. Last(out').type = "error" /\ ~ (Len(out') > 1) /\ \A i \in 1 .. Len(rcs') - 1 : rcs'[i] = "ok"
    BY <1>2, OneError
  <2> QED
    BY <2>1, <2>2, <2>3 DEF Ended
<1>5. Builder' /\ Quiet' /\ Succeeding' /\ AllOrNothing'
  BY <1>2 DEF Builder, Quiet, Succeeding, AllOrNothing
<1> QED
  BY <1>2, <1>3, <1>4, <1>5 DEF RequestInv

(* Between two tokens the rest of the invariant follows from the objects.     *)
LEMMA BuildKept ==
    ASSUME RequestInv, HasRead, Behind', NamesKept', Planned', Builder',
           phase' = phase, out' = out, rcs' = rcs, ctx' = ctx, before' = before,
           Len(rcs') <= Len(plan')
    PROVE  RequestInv'
<1>1. /\ phase' = "build" /\ request' = request /\ out = <<>> /\ rcs = <<>> /\ ctx = before
  BY DEF RequestInv, Quiet, HasRead
<1>2. Quiet' /\ Succeeding' /\ Ended' /\ AllOrNothing'
  BY <1>1 DEF Quiet, Succeeding, Ended, AllOrNothing
<1> QED
  BY <1>1, <1>2 DEF RequestInv

LEMMA NameOverflowStep == RequestInv /\ NameOverflow => RequestInv'
<1> SUFFICES ASSUME RequestInv, NameOverflow PROVE RequestInv'
  OBVIOUS
<1>1. /\ phase' = "down" /\ request' = request /\ cmds' = cmds /\ cmd' = cmd /\ plan' = plan
      /\ rcs' = rcs /\ ctx' = ctx /\ before' = before
  BY DEF NameOverflow
<1>2. Planned' /\ AllOrNothing'
  BY <1>1 DEF RequestInv, Planned, AllOrNothing, Text
<1>3. Builder' /\ Quiet' /\ Succeeding' /\ Ended'
  BY <1>1 DEF Builder, Quiet, Succeeding, Ended
<1> QED
  BY <1>1, <1>2, <1>3 DEF RequestInv

LEMMA BuildIdStep == RequestInv /\ BuildId => RequestInv'
<1> SUFFICES ASSUME RequestInv, BuildId PROVE RequestInv'
  OBVIOUS
<1> DEFINE n == Done + 1
<1>1. HasRead /\ Lexed(toks) = "id"
  BY DEF BuildId, Building, Read, HasRead
<1>2. /\ Text' = Text /\ Done \in Nat /\ n \in 1 .. Len(Text) /\ Done' = n
      /\ Head(toks) = Text[n] /\ Head(toks) \in Tokens /\ LexedAt(Text, n) = "id" /\ Behind'
  BY <1>1, ReadToken
<1>3. Text[n].type = "id"
  BY <1>2 DEF LexedAt
<1>4. Text \in Seq(Tokens) /\ Accepted(Text, Done) /\ prev = IF Done = 0 THEN "none" ELSE LexedAt(Text, Done)
  BY <1>1, TextType DEF RequestInv, Builder, Behind, HasRead
<1>5. n \in Starts(Text) <=> prev \in {"none", "pipe"}
  BY <1>2, <1>4, StartsBehindPipe
<1>6. CASE prev \notin {"none", "pipe"}
  <2>1. Abort /\ cmd' = 0 /\ rcs' = rcs /\ ctx' = ctx /\ before' = before
    BY <1>6 DEF BuildId, Read
  <2>2. Refused(Text)
    BY <1>2, <1>3, <1>4, <1>5, <1>6, RefusedHere
  <2> QED
    BY <1>1, <2>1, <2>2, AbortKept
<1>7. CASE prev \in {"none", "pipe"}
  <2> DEFINE o == [name |-> Head(toks).val, args |-> <<>>]
             l == Len(cmds)
  <2>1. /\ cmds' = Append(cmds, o) /\ cmd' = l + 1 /\ phase' = phase /\ plan' = plan /\ out' = out
        /\ rcs' = rcs /\ ctx' = ctx /\ before' = before
    BY <1>7 DEF BuildId, Read
  <2>2. o \in Objects
    BY <1>2, <1>3 DEF Objects
  <2>3. /\ cmds \in Seq(Objects) /\ plan \in Seq(DOMAIN cmds) /\ phase = "build"
        /\ \A k \in DOMAIN cmds : k \in Range(plan) \/ k = cmd
        /\ cmd \in DOMAIN cmds \cup {0} /\ NamesKept
    BY <1>1 DEF RequestInv, Planned, HasRead
  <2> HIDE DEF o
  <2>4. /\ cmds' \in Seq(Objects) /\ Len(cmds') = l + 1 /\ l \in Nat
        /\ DOMAIN cmds = 1 .. l /\ DOMAIN cmds' = 1 .. l + 1
        /\ cmds'[l + 1] = o /\ \A k \in 1 .. l : cmds'[k] = cmds[k]
    BY <2>1, <2>2, <2>3
  <2>5. NamesKept'
    <3>1. ASSUME NEW i \in 1 .. Done', Text'[i].type = "id"
          PROVE  \E k \in DOMAIN cmds' : cmds'[k].name = Text'[i].val
      <4>1. CASE i = n
        <5>1. cmds'[l + 1].name = Text'[i].val
          BY <1>2, <2>4, <4>1 DEF o
        <5> QED
          BY <2>4, <5>1
      <4>2. CASE i # n
        <5>1. i \in 1 .. Done
          BY <1>2, <4>2
        <5>2. PICK k \in DOMAIN cmds : cmds[k].name = Text[i].val
          BY <1>2, <2>3, <3>1, <5>1 DEF NamesKept
        <5> QED
          BY <1>2, <2>4, <5>2
      <4> QED
        BY <4>1, <4>2
    <3>2. ASSUME NEW k \in DOMAIN cmds'
          PROVE  \E i \in 1 .. Done' : Text'[i].type = "id" /\ cmds'[k].name = Text'[i].val
      <4>1. CASE k = l + 1
        <5>1. cmds'[k].name = Text'[n].val /\ Text'[n].type = "id" /\ n \in 1 .. Done'
          BY <1>2, <1>3, <2>4, <4>1 DEF o
        <5> QED
          BY <5>1
      <4>2. CASE k # l + 1
        <5>1. k \in DOMAIN cmds
          BY <2>4, <4>2
        <5>2. PICK i \in 1 .. Done : Text[i].type = "id" /\ cmds[k].name = Text[i].val
          BY <2>3, <5>1 DEF NamesKept
        <5>3. i \in 1 .. Done'
          BY <1>2
        <5> QED
          BY <1>2, <2>4, <5>1, <5>2, <5>3
      <4> QED
        BY <4>1, <4>2
    <3> QED
      BY <3>1, <3>2 DEF NamesKept
  <2>6. \A k \in DOMAIN cmds : k \in Range(plan)
    <3>1. CASE prev = "none"
      <4>1. cmds = <<>>
        BY <2>3, <3>1 DEF RequestInv, Builder
      <4> QED
        BY <4>1
    <3>2. CASE prev = "pipe"
      <4>1. cmd = 0 \/ cmd \in Range(plan)
        BY <2>3, <3>2 DEF RequestInv, Builder
      <4>2. 0 \notin DOMAIN cmds
        BY <2>4
      <4> QED
        BY <2>3, <4>1, <4>2
    <3> QED
      BY <1>7, <3>1, <3>2
  <2>7. Planned'
    <3>1. plan' \in Seq(DOMAIN cmds')
      BY <2>1, <2>3, <2>4
    <3>2. \A k \in DOMAIN cmds' : k \in Range(plan') \/ (phase' = "build" /\ k = cmd')
      BY <2>1, <2>3, <2>4, <2>6
    <3> QED
      BY <2>1, <2>4, <3>1, <3>2 DEF Planned
  <2>8. Builder'
    <3>1. Accepted(Text, n)
      BY <1>2, <1>3, <1>4, <1>5, <1>7, AcceptMore DEF ArgTokens
    <3>2. prev' = "id" /\ cmd' # 0
      BY <1>1, <2>1, <2>4 DEF HasRead
    <3> QED
      BY <1>2, <3>1, <3>2 DEF Builder
  <2>9. Len(rcs') <= Len(plan')
    BY <2>1 DEF RequestInv
  <2> QED
    BY <1>1, <1>2, <2>1, <2>5, <2>7, <2>8, <2>9, BuildKept
<1> QED
  BY <1>6, <1>7

(* Only the arguments of an object change.                                    *)
LEMMA ArgsChanged ==
    ASSUME NEW c \in Objects, NEW args \in Seq(Tokens)
    PROVE  [c EXCEPT !.args = args] \in Objects /\ [c EXCEPT !.args = args].name = c.name
<1> DEFINE Names_ == {t.val : t \in {u \in Tokens : u.type = "id"}}
           Args_ == Seq(Tokens)
<1>1. c \in [name : Names_, args : Args_] /\ args \in Args_
  BY DEF Objects
<1> HIDE DEF Names_, Args_
<1>2. /\ [c EXCEPT !.args = args] \in [name : Names_, args : Args_]
      /\ [c EXCEPT !.args = args].name = c.name
  BY <1>1
<1> QED
  BY <1>2 DEF Objects, Names_, Args_

LEMMA BuildArgStep == RequestInv /\ BuildArg => RequestInv'
<1> SUFFICES ASSUME RequestInv, BuildArg PROVE RequestInv'
  OBVIOUS
<1> DEFINE n == Done + 1
<1>1. HasRead /\ Lexed(toks) \in ArgTokens /\ cmd' = cmd
  BY DEF BuildArg, Building, Read, HasRead
<1>2. /\ Text' = Text /\ Done \in Nat /\ n \in 1 .. Len(Text) /\ Done' = n
      /\ Head(toks) = Text[n] /\ Head(toks) \in Tokens /\ LexedAt(Text, n) \in ArgTokens /\ Behind'
  BY <1>1, ReadToken
<1>3. Text[n].type \in ArgTokens /\ Text[n].type # "id"
  BY <1>2 DEF LexedAt, ArgTokens
<1>4. Text \in Seq(Tokens) /\ Accepted(Text, Done) /\ prev = IF Done = 0 THEN "none" ELSE LexedAt(Text, Done)
  BY <1>1, TextType DEF RequestInv, Builder, Behind, HasRead
<1>5. n \in Starts(Text) <=> prev \in {"none", "pipe"}
  BY <1>2, <1>4, StartsBehindPipe
<1>6. CASE prev \in {"none", "pipe"}
  <2>1. Abort /\ rcs' = rcs /\ ctx' = ctx /\ before' = before
    BY <1>6 DEF BuildArg, Read
  <2>2. Refused(Text)
    BY <1>2, <1>3, <1>4, <1>5, <1>6, RefusedHere
  <2> QED
    BY <1>1, <2>1, <2>2, AbortKept
<1>7. CASE prev \notin {"none", "pipe"}
  <2> DEFINE o == AddArg(cmds[cmd], Head(toks))
  <2>1. /\ cmds' = [cmds EXCEPT ![cmd] = o] /\ phase' = phase /\ plan' = plan /\ out' = out
        /\ rcs' = rcs /\ ctx' = ctx /\ before' = before
    BY <1>7 DEF BuildArg, Read
  <2>2. /\ cmds \in Seq(Objects) /\ plan \in Seq(DOMAIN cmds) /\ phase = "build"
        /\ \A k \in DOMAIN cmds : k \in Range(plan) \/ k = cmd
        /\ cmd \in DOMAIN cmds \cup {0} /\ NamesKept
        /\ cmd # 0
    BY <1>1, <1>7 DEF RequestInv, Planned, HasRead, Builder
  <2>3. cmd \in DOMAIN cmds /\ cmds[cmd] \in Objects
    BY <2>2
  <2>4. o \in Objects /\ o.name = cmds[cmd].name
    <3>1. PICK c \in Objects : c = cmds[cmd]
      BY <2>3
    <3>2. Append(c.args, Head(toks)) \in Seq(Tokens)
      BY <1>2 DEF Objects
    <3>3. AddArg(c, Head(toks)) = [c EXCEPT !.args = Append(c.args, Head(toks))]
      BY DEF AddArg
    <3>4. AddArg(c, Head(toks)) \in Objects /\ AddArg(c, Head(toks)).name = c.name
      BY <3>2, <3>3, ArgsChanged, Zenon
    <3> QED
      BY <3>1, <3>4
  <2> HIDE DEF o
  <2>5. /\ cmds' \in Seq(Objects) /\ DOMAIN cmds' = DOMAIN cmds
        /\ \A k \in DOMAIN cmds : cmds'[k].name = cmds[k].name
    BY <2>1, <2>2, <2>3, <2>4
  <2>6. NamesKept'
    <3>1. ASSUME NEW i \in 1 .. Done', Text'[i].type = "id"
          PROVE  \E k \in DOMAIN cmds' : cmds'[k].name = Text'[i].val
      <4>1. i # n
        BY <1>2, <1>3, <3>1
      <4>2. i \in 1 .. Done
        BY <1>2, <4>1
      <4> QED
        BY <1>2, <2>2, <2>5, <3>1, <4>2 DEF NamesKept
    <3>2. ASSUME NEW k \in DOMAIN cmds'
          PROVE  \E i \in 1 .. Done' : Text'[i].type = "id" /\ cmds'[k].name = Text'[i].val
      <4>1. PICK i \in 1 .. Done : Text[i].type = "id" /\ cmds[k].name = Text[i].val
        BY <2>2, <2>5 DEF NamesKept
      <4>2. i \in 1 .. Done'
        BY <1>2
      <4> QED
        BY <1>2, <2>5, <4>1, <4>2
    <3> QED
      BY <3>1, <3>2 DEF NamesKept
  <2>7. Planned'
    BY <1>1, <2>1, <2>2, <2>5 DEF Planned
  <2>8. Builder'
    <3>1. Accepted(Text, n)
      BY <1>2, <1>3, <1>4, <1>5, <1>7, AcceptMore DEF ArgTokens
    <3>2. prev' \notin {"none", "pipe"} /\ cmd' # 0
      BY <1>1, <2>2 DEF HasRead, ArgTokens
    <3> QED
      BY <1>2, <3>1, <3>2 DEF Builder
  <2>9. Len(rcs') <= Len(plan')
    BY <2>1 DEF RequestInv
  <2> QED
    BY <1>1, <1>2, <2>1, <2>6, <2>7, <2>8, <2>9, BuildKept
<1> QED
  BY <1>6, <1>7

(* The current command is added to the plan, if there is one.                 *)
LEMMA PlanAdd ==
    ASSUME NEW D, NEW p \in Seq(D), NEW c \in D \cup {0}
    PROVE  /\ AddCommand(p, c) \in Seq(D)
           /\ Range(AddCommand(p, c)) = Range(p) \cup ({c} \ {0})
<1>1. CASE c = 0
  BY <1>1 DEF AddCommand
<1>2. CASE c # 0
  <2>1. c \in D /\ AddCommand(p, c) = Append(p, c) /\ Append(p, c) \in Seq(D)
    BY <1>2 DEF AddCommand
  <2>2. DOMAIN Append(p, c) = 1 .. Len(p) + 1 /\ DOMAIN p = 1 .. Len(p) /\ Len(p) \in Nat
    BY <2>1
  <2>3. \A i \in 1 .. Len(p) : Append(p, c)[i] = p[i]
    BY <2>1, <2>2
  <2>4. Append(p, c)[Len(p) + 1] = c
    BY <2>1
  <2>5. Range(Append(p, c)) = Range(p) \cup {c}
    BY <2>2, <2>3, <2>4 DEF Range
  <2> QED
    BY <1>2, <2>1, <2>5
<1> QED
  BY <1>1, <1>2

LEMMA BuildPipeStep == RequestInv /\ BuildPipe => RequestInv'
<1> SUFFICES ASSUME RequestInv, BuildPipe PROVE RequestInv'
  OBVIOUS
<1> DEFINE n == Done + 1
<1>1. /\ HasRead /\ Lexed(toks) = "pipe" /\ plan' = AddCommand(plan, cmd)
      /\ phase' = phase /\ cmds' = cmds /\ cmd' = cmd /\ out' = out
      /\ rcs' = rcs /\ ctx' = ctx /\ before' = before
  BY DEF BuildPipe, Building, Read, HasRead
<1>2. /\ Text' = Text /\ Done \in Nat /\ n \in 1 .. Len(Text) /\ Done' = n
      /\ LexedAt(Text, n) = "pipe" /\ Behind'
  BY <1>1, ReadToken
<1>3. Text[n].type \in {"pipe", "bar"}
  BY <1>2 DEF LexedAt
<1>4. Text \in Seq(Tokens) /\ Accepted(Text, Done)
  BY <1>1, TextType DEF RequestInv, Builder, HasRead
<1>5. /\ cmds \in Seq(Objects) /\ plan \in Seq(DOMAIN cmds) /\ phase = "build"
      /\ \A k \in DOMAIN cmds : k \in Range(plan) \/ k = cmd
      /\ cmd \in DOMAIN cmds \cup {0} /\ NamesKept /\ Len(rcs) <= Len(plan) /\ rcs = <<>>
  BY <1>1 DEF RequestInv, Planned, HasRead, Quiet
<1>6. plan' \in Seq(DOMAIN cmds) /\ Range(plan') = Range(plan) \cup ({cmd} \ {0})
  BY <1>1, <1>5, PlanAdd
<1>7. NamesKept'
  <2>1. ASSUME NEW i \in 1 .. Done', Text'[i].type = "id" PROVE i \in 1 .. Done
    BY <1>2, <1>3, <2>1
  <2>2. \A i \in 1 .. Done : i \in 1 .. Done'
    BY <1>2
  <2> QED
    BY <1>1, <1>2, <1>5, <2>1, <2>2 DEF NamesKept
<1>8. Planned'
  BY <1>1, <1>5, <1>6 DEF Planned
<1>9. Builder'
  <2>1. Accepted(Text, n)
    BY <1>2, <1>3, <1>4, AcceptMore DEF ArgTokens
  <2>2. prev' = "pipe" /\ (cmd' = 0 \/ cmd' \in Range(plan'))
    BY <1>1, <1>6 DEF HasRead
  <2> QED
    BY <1>2, <2>1, <2>2 DEF Builder
<1>10. Len(rcs') <= Len(plan')
  BY <1>1, <1>5, <1>6
<1> QED
  BY <1>1, <1>2, <1>7, <1>8, <1>9, <1>10, BuildKept

LEMMA BuildErrorStep == RequestInv /\ BuildError => RequestInv'
<1> SUFFICES ASSUME RequestInv, BuildError PROVE RequestInv'
  OBVIOUS
<1>1. /\ HasRead /\ Lexed(toks) = "error" /\ Abort /\ cmd' = cmd
      /\ rcs' = rcs /\ ctx' = ctx /\ before' = before
  BY DEF BuildError, Building, Read, HasRead
<1>2. Done + 1 \in 1 .. Len(Text) /\ LexedAt(Text, Done + 1) = "error"
  BY <1>1, ReadToken
<1>3. Refused(Text)
  BY <1>2, TextType, RefusedHere
<1> QED
  BY <1>1, <1>3, AbortKept

LEMMA BuildEndStep == RequestInv /\ BuildEnd => RequestInv'
<1> SUFFICES ASSUME RequestInv, BuildEnd PROVE RequestInv'
  OBVIOUS
<1>1. /\ phase = "build" /\ phase' = "check" /\ toks = <<>> /\ plan' = AddCommand(plan, cmd)
      /\ request' = request /\ toks' = toks /\ prev' = prev /\ cmds' = cmds /\ cmd' = cmd
      /\ rcs' = rcs /\ out' = out /\ ctx' = ctx /\ before' = before
  BY DEF BuildEnd
<1>2. Text' = Text
  BY <1>1 DEF Text
<1>3. Done' = Done
  BY <1>1, <1>2 DEF Done
<1>4. /\ cmds \in Seq(Objects) /\ plan \in Seq(DOMAIN cmds)
      /\ \A k \in DOMAIN cmds : k \in Range(plan) \/ k = cmd
      /\ cmd \in DOMAIN cmds \cup {0} /\ Behind /\ NamesKept /\ rcs = <<>> /\ out = <<>>
      /\ ctx = before /\ Accepted(Text, Done)
  BY <1>1 DEF RequestInv, Planned, Quiet, Builder
<1>5. plan' \in Seq(DOMAIN cmds) /\ Range(plan') = Range(plan) \cup ({cmd} \ {0})
  BY <1>1, <1>4, PlanAdd
<1>6. Behind' /\ NamesKept'
  BY <1>1, <1>2, <1>3, <1>4 DEF Behind, NamesKept
<1>7. Planned'
  <2>1. 0 \notin DOMAIN cmds
    BY <1>4
  <2> QED
    BY <1>1, <1>4, <1>5, <2>1 DEF Planned
<1>8. Builder' /\ Quiet' /\ Succeeding' /\ Ended' /\ AllOrNothing'
  BY <1>1, <1>2, <1>3, <1>4 DEF Builder, Quiet, Succeeding, Ended, AllOrNothing
<1>9. Len(rcs') <= Len(plan')
  BY <1>1, <1>4, <1>5
<1> QED
  BY <1>1, <1>6, <1>7, <1>8, <1>9 DEF RequestInv

-----------------------------------------------------------------------------
(* The steps of the calls *)

(* What is called belongs to a request that is not refused.                   *)
LEMMA CalledUnrefused == RequestInv /\ phase = "exec" => ~ Refused(Text)
<1> SUFFICES ASSUME RequestInv, phase = "exec", Refused(Text) PROVE FALSE
  OBVIOUS
<1>1. /\ Behind /\ NamesKept /\ Planned /\ toks = <<>> /\ Accepted(Text, Done)
      /\ \A k \in DOMAIN plan : Known(cmds[plan[k]].name)
  BY DEF RequestInv, Quiet
<1>2. Text \in Seq(Tokens) /\ Done = Len(Text)
  BY <1>1, TextType DEF Done
<1>3. PICK i \in 1 .. Len(Text) : Text[i].type = "id" /\ ~ Known(Text[i].val)
  BY <1>1, <1>2, RefusedName
<1>4. PICK k \in DOMAIN cmds : cmds[k].name = Text[i].val
  BY <1>1, <1>2, <1>3 DEF NamesKept
<1>5. PICK j \in DOMAIN plan : plan[j] = k
  BY <1>1 DEF Planned, Range
<1> QED
  BY <1>1, <1>3, <1>4, <1>5

LEMMA CheckStep == RequestInv /\ Check => RequestInv'
<1> SUFFICES ASSUME RequestInv, Check PROVE RequestInv'
  OBVIOUS
<1>1. /\ phase = "check"
      /\ request' = request /\ toks' = toks /\ prev' = prev /\ cmds' = cmds /\ cmd' = cmd
      /\ plan' = plan /\ rcs' = rcs /\ ctx' = ctx /\ before' = before
  BY DEF Check
<1>2. Text' = Text
  BY <1>1 DEF Text
<1>3. Done' = Done
  BY <1>1, <1>2 DEF Done
<1>4. /\ Planned /\ Behind /\ NamesKept /\ rcs = <<>> /\ out = <<>> /\ ctx = before
      /\ toks = <<>> /\ Accepted(Text, Done)
  BY <1>1 DEF RequestInv, Quiet
<1>5. Text \in Seq(Tokens) /\ Done = Len(Text)
  BY <1>4, TextType DEF Done
<1>6. phase' \in {"exec", "destroy"}
  BY DEF Check
<1>7. Behind' /\ NamesKept' /\ Planned'
  BY <1>1, <1>2, <1>3, <1>4, <1>6 DEF Behind, NamesKept, Planned
<1>8. CASE \E i \in DOMAIN plan : ~ Known(cmds[plan[i]].name)
  <2>1. phase' = "destroy" /\ out' = <<ErrorObj>>
    BY <1>4, <1>8, OneError DEF Check
  <2>2. Refused(Text)
    <3>1. PICK i \in DOMAIN plan : ~ Known(cmds[plan[i]].name)
      BY <1>8
    <3>2. plan[i] \in DOMAIN cmds
      BY <1>4 DEF Planned
    <3> QED
      BY <1>4, <1>5, <3>1, <3>2, RefusedName DEF NamesKept
  <2>3. HasError'
    BY <2>1, OneError DEF HasError
  <2>4. Ended'
    <3>1. Last(out').type = "error" /\ ~ (Len(out') > 1) /\ \A i \in 1 .. Len(rcs') - 1 : rcs'[i] = "ok"
      BY <1>1, <1>4, <2>1, OneError
    <3> QED
      BY <1>2, <2>2, <2>3, <3>1 DEF Ended
  <2>5. Builder' /\ Quiet' /\ Succeeding' /\ AllOrNothing'
    BY <1>1, <1>4, <2>1 DEF Builder, Quiet, Succeeding, AllOrNothing
  <2> QED
    BY <1>1, <1>7, <2>1, <2>4, <2>5 DEF RequestInv
<1>9. CASE \A i \in DOMAIN plan : Known(cmds[plan[i]].name)
  <2>1. phase' = "exec" /\ out' = out
    BY <1>9 DEF Check
  <2>2. Succeeding'
    <3>1. Len(rcs) = 0 /\ (plan = <<>> \/ 0 < Len(plan))
      BY <1>4 DEF Planned
    <3> QED
      BY <1>1, <1>4, <2>1, <3>1 DEF Succeeding
  <2>3. Builder' /\ Quiet' /\ Ended' /\ AllOrNothing'
    BY <1>1, <1>2, <1>3, <1>4, <1>9, <2>1 DEF Builder, Quiet, Ended, AllOrNothing
  <2> QED
    BY <1>1, <1>7, <2>1, <2>2, <2>3 DEF RequestInv
<1> QED
  BY <1>8, <1>9

LEMMA CallStep == RequestInv /\ Call => RequestInv'
<1> SUFFICES ASSUME RequestInv, Call PROVE RequestInv'
  OBVIOUS
<1> DEFINE at == Len(rcs) + 1
           c == cmds[plan[at]]
<1>1. /\ phase = "exec" /\ plan # <<>>
      /\ request' = request /\ toks' = toks /\ prev' = prev /\ cmds' = cmds /\ cmd' = cmd
      /\ plan' = plan /\ before' = before
  BY DEF Call
<1>2. PICK r \in Func(c, at = Len(plan)) :
        /\ ctx' = r.ctx /\ out' = r.out /\ rcs' = Append(rcs, r.rc)
        /\ phase' = IF r.down THEN "down"
                    ELSE IF GoesOn(r) /\ at < Len(plan) THEN "exec" ELSE "destroy"
  BY DEF Call
<1>3. /\ Planned /\ Behind /\ NamesKept /\ toks = <<>> /\ Accepted(Text, Done)
      /\ \A k \in DOMAIN plan : Known(cmds[plan[k]].name)
      /\ rcs \in Seq({"ok", "error"}) /\ Len(rcs) < Len(plan)
      /\ \A i \in DOMAIN rcs : rcs[i] = "ok"
      /\ IF rcs = <<>> THEN out = <<>> ELSE Len(out) = 1 /\ out[1].type # "error"
  BY <1>1 DEF RequestInv, Quiet, Succeeding
<1>4. /\ Text' = Text /\ ~ Refused(Text)
  BY <1>1, CalledUnrefused DEF Text
<1>5. Done' = Done
  BY <1>1, <1>4 DEF Done
<1>6. at \in DOMAIN plan /\ at \in Nat /\ at \in 1 .. Len(plan)
  BY <1>3 DEF Planned
<1>7. c.name \in DOMAIN ArgTypes /\ r \in Command(c.name, ctx, c.args, out, at = Len(plan))
  BY <1>2, <1>3, <1>6 DEF Func, Known
<1>8. \/ r.down /\ r.rc = "error"
      \/ r.rc = "ok" /\ \E x : r.out = <<x>> /\ x.type # "error"
      \/ r.rc = "error" /\ r.out = <<ErrorObj>>
      \/ /\ r.rc = "error" /\ r.out = Append(out, ErrorObj)
         /\ c.name \in Filters /\ Len(c.args) # Len(ArgTypes[c.name])
  <2> HIDE DEF c, at
  <2> QED
    BY <1>7, CommandOutcome
<1>9. /\ rcs' \in Seq({"ok", "error"}) /\ Len(rcs') = at /\ Len(rcs') <= Len(plan')
      /\ rcs' # <<>> /\ rcs'[at] = r.rc /\ DOMAIN rcs' = 1 .. at
      /\ \A i \in 1 .. at - 1 : rcs'[i] = "ok"
  BY <1>1, <1>2, <1>3, <1>6, <1>8
<1>10. phase' \in {"down", "exec", "destroy"}
  BY <1>2
<1>11. Behind' /\ NamesKept' /\ Planned'
  BY <1>1, <1>3, <1>4, <1>5, <1>10 DEF Behind, NamesKept, Planned
<1>12. Builder' /\ Quiet' /\ AllOrNothing'
  BY <1>1, <1>3, <1>4, <1>5, <1>10 DEF Builder, Quiet, AllOrNothing
<1>13. Succeeding'
  <2> SUFFICES ASSUME phase' = "exec" PROVE Succeeding'
    BY DEF Succeeding
  <2>1. ~ r.down /\ r.rc = "ok" /\ at < Len(plan)
    BY <1>2 DEF GoesOn
  <2>2. PICK x : r.out = <<x>> /\ x.type # "error"
    BY <1>8, <2>1
  <2>3. Len(out') = 1 /\ out'[1].type # "error"
    BY <1>2, <2>2
  <2>4. \A i \in DOMAIN rcs' : rcs'[i] = "ok"
    BY <1>6, <1>9, <2>1
  <2> QED
    BY <1>1, <1>9, <2>1, <2>3, <2>4 DEF Succeeding
<1>14. Ended'
  <2> SUFFICES ASSUME phase' = "destroy" PROVE Ended'
    BY <1>10 DEF Ended
  <2>1. ~ r.down
    BY <1>2
  <2>2. "error" \in Range(rcs') <=> r.rc = "error"
    BY <1>6, <1>9 DEF Range
  <2>3. \A i \in 1 .. Len(rcs') - 1 : rcs'[i] = "ok"
    BY <1>9
  <2>4. Last(Called') = c
    <3>1. Called' = [k \in DOMAIN rcs' |-> cmds[plan[k]]]
      BY <1>1 DEF Called
    <3>2. Called' \in [1 .. at -> Objects] /\ Called'[at] = c
      BY <1>3, <1>6, <1>9, <3>1 DEF Planned
    <3>3. Len(Called') = at
      BY <1>6, <3>2, Listed
    <3> QED
      BY <3>2, <3>3 DEF Last
  <2>5. CASE r.rc = "ok"
    <3>1. PICK x : r.out = <<x>> /\ x.type # "error"
      BY <1>8, <2>1, <2>5
    <3>2. ~ HasError' /\ ~ (Len(out') > 1)
      BY <1>2, <3>1 DEF HasError
    <3> QED
      BY <1>4, <2>2, <2>3, <2>5, <3>2 DEF Ended
  <2>6. CASE r.rc = "error" /\ r.out = <<ErrorObj>>
    <3>1. HasError' /\ Last(out').type = "error" /\ ~ (Len(out') > 1)
      BY <1>2, <2>6, OneError DEF HasError
    <3> QED
      BY <1>4, <2>2, <2>3, <2>6, <3>1 DEF Ended
  <2>7. CASE /\ r.rc = "error" /\ r.out = Append(out, ErrorObj)
             /\ c.name \in Filters /\ Len(c.args) # Len(ArgTypes[c.name])
    <3>1. HasError' /\ Last(out').type = "error"
      <4>1. \E n \in Nat : Len(out) = n
        BY <1>3
      <4> QED
        BY <1>2, <2>7, <4>1, OneError DEF HasError, Last
    <3> QED
      BY <1>4, <2>2, <2>3, <2>4, <2>7, <3>1 DEF Ended
  <2> QED
    BY <1>8, <2>1, <2>5, <2>6, <2>7
<1> QED
  BY <1>1, <1>9, <1>10, <1>11, <1>12, <1>13, <1>14 DEF RequestInv

LEMMA CallNoneStep == RequestInv /\ CallNone => RequestInv'
<1> SUFFICES ASSUME RequestInv, CallNone PROVE RequestInv'
  OBVIOUS
<1>1. /\ phase = "exec" /\ plan = <<>> /\ phase' = "destroy"
      /\ request' = request /\ toks' = toks /\ prev' = prev /\ cmds' = cmds /\ cmd' = cmd
      /\ plan' = plan /\ rcs' = rcs /\ out' = out /\ ctx' = ctx /\ before' = before
  BY DEF CallNone
<1>2. Text' = Text /\ ~ Refused(Text)
  BY <1>1, CalledUnrefused DEF Text
<1>3. Planned /\ rcs = <<>> /\ out = <<>>
  <2>1. Len(plan) = 0 /\ Len(rcs) \in Nat
    BY <1>1 DEF RequestInv
  <2> QED
    BY <1>1, <2>1 DEF RequestInv, Succeeding
<1>4. Planned' /\ Builder' /\ Quiet' /\ Succeeding' /\ AllOrNothing'
  BY <1>1, <1>2, <1>3 DEF Planned, Builder, Quiet, Succeeding, AllOrNothing
<1>5. Ended'
  <2>1. ~ HasError' /\ ~ ("error" \in Range(rcs')) /\ ~ (Len(out') > 1)
    BY <1>1, <1>3 DEF HasError, Range
  <2> QED
    BY <1>1, <1>2, <1>3, <2>1 DEF Ended
<1> QED
  BY <1>1, <1>4, <1>5 DEF RequestInv

LEMMA DestroyStep == RequestInv /\ Destroy => RequestInv'
<1> SUFFICES ASSUME RequestInv, Destroy PROVE RequestInv'
  OBVIOUS
<1>1. /\ phase = "destroy" /\ phase' \in {"reply", "down"}
      /\ request' = request /\ toks' = toks /\ prev' = prev /\ cmds' = cmds /\ cmd' = cmd
      /\ plan' = plan /\ rcs' = rcs /\ out' = out /\ ctx' = ctx /\ before' = before
  BY DEF Destroy
<1>2. Text' = Text /\ (HasError <=> HasError') /\ Called' = Called
  BY <1>1 DEF Text, HasError, Called
<1>3. Planned' /\ Builder' /\ Quiet' /\ Succeeding' /\ AllOrNothing'
  BY <1>1, <1>2 DEF RequestInv, Planned, Builder, Quiet, Succeeding, AllOrNothing
<1>4. Ended'
  BY <1>1, <1>2 DEF RequestInv, Ended
<1> QED
  BY <1>1, <1>3, <1>4 DEF RequestInv

(* An idle server has nothing in hand.                                        *)
LEMMA IdleInv ==
    /\ phase = "idle" /\ request = <<>> /\ toks = <<>> /\ prev = "none" /\ cmds = <<>> /\ cmd = 0
    /\ plan = <<>> /\ rcs = <<>> /\ out = <<>> /\ before = ctx
    => RequestInv
<1> SUFFICES ASSUME phase = "idle", request = <<>>, toks = <<>>, prev = "none", cmds = <<>>,
                    cmd = 0, plan = <<>>, rcs = <<>>, out = <<>>, before = ctx
             PROVE  RequestInv
  OBVIOUS
<1>1. request \in Seq(DOMAIN Chunks) /\ rcs \in Seq({"ok", "error"}) /\ Len(rcs) <= Len(plan)
  OBVIOUS
<1>2. Planned
  BY DEF Planned
<1>3. Builder /\ Quiet /\ Succeeding /\ Ended /\ AllOrNothing
  BY DEF Builder, Quiet, Succeeding, Ended, AllOrNothing
<1> QED
  BY <1>1, <1>2, <1>3 DEF RequestInv

LEMMA ReplyStep == RequestInv /\ Reply => RequestInv'
<1> SUFFICES ASSUME Reply PROVE RequestInv'
  OBVIOUS
<1>1. /\ phase' = "idle" /\ request' = <<>> /\ toks' = <<>> /\ prev' = "none" /\ cmds' = <<>>
      /\ cmd' = 0 /\ plan' = <<>> /\ rcs' = <<>> /\ out' = <<>> /\ before' = ctx'
  BY DEF Reply
<1>2. request' \in Seq(DOMAIN Chunks) /\ rcs' \in Seq({"ok", "error"}) /\ Len(rcs') <= Len(plan')
  BY <1>1
<1>3. Planned'
  BY <1>1 DEF Planned
<1>4. Builder' /\ Quiet' /\ Succeeding' /\ Ended' /\ AllOrNothing'
  BY <1>1 DEF Builder, Quiet, Succeeding, Ended, AllOrNothing
<1> QED
  BY <1>1, <1>2, <1>3, <1>4 DEF RequestInv

LEMMA ReceiveStep == ASSUME NEW r \in Requests, RequestInv, Receive(r) PROVE RequestInv'
<1>1. /\ phase = "idle" /\ phase' = "build" /\ request' = r /\ toks' = TextOf(r)
      /\ prev' = prev /\ cmds' = cmds /\ cmd' = cmd /\ plan' = plan /\ rcs' = rcs /\ out' = out
      /\ ctx' = ctx /\ before' = before
  BY DEF Receive
<1>2. r \in Seq(DOMAIN Chunks)
  BY RequestChunks
<1>3. Text' = toks' /\ toks' \in Seq(Tokens)
  BY <1>1, <1>2, TextTokens DEF Text
<1>4. Done' = 0 /\ Len(Text') \in Nat
  BY <1>3 DEF Done
<1>5. prev = "none" /\ cmds = <<>> /\ cmd = 0 /\ plan = <<>> /\ rcs = <<>> /\ out = <<>> /\ ctx = before
  BY <1>1 DEF RequestInv, Quiet
<1>6. Behind'
  BY <1>1, <1>3, <1>4, <1>5 DEF Behind
<1>7. NamesKept'
  BY <1>1, <1>4, <1>5 DEF NamesKept
<1>8. Planned'
  BY <1>1, <1>5 DEF Planned
<1>9. Builder'
  BY <1>1, <1>4, <1>5 DEF Builder, Accepted
<1>10. Quiet' /\ Succeeding' /\ Ended' /\ AllOrNothing'
  BY <1>1, <1>5 DEF Quiet, Succeeding, Ended, AllOrNothing
<1>11. rcs' \in Seq({"ok", "error"}) /\ Len(rcs') <= Len(plan')
  BY <1>1, <1>5
<1> QED
  BY <1>1, <1>2, <1>6, <1>7, <1>8, <1>9, <1>10, <1>11 DEF RequestInv

LEMMA ExecStutter == RequestInv /\ UNCHANGED execVars => RequestInv'
<1> SUFFICES ASSUME RequestInv, UNCHANGED execVars PROVE RequestInv'
  OBVIOUS
<1>1. /\ phase' = phase /\ request' = request /\ toks' = toks /\ prev' = prev /\ cmds' = cmds
      /\ cmd' = cmd /\ plan' = plan /\ rcs' = rcs /\ out' = out /\ ctx' = ctx /\ before' = before
  BY DEF execVars
<1>2. Text' = Text /\ (HasError <=> HasError') /\ Called' = Called
  BY <1>1 DEF Text, HasError, Called
<1>3. Done' = Done
  BY <1>1, <1>2 DEF Done
<1>4. (Behind <=> Behind') /\ (NamesKept <=> NamesKept') /\ (Planned <=> Planned')
  BY <1>1, <1>2, <1>3 DEF Behind, NamesKept, Planned
<1>5. (Builder <=> Builder') /\ (Quiet <=> Quiet')
  BY <1>1, <1>2, <1>3 DEF Builder, Quiet
<1>6. (Succeeding <=> Succeeding') /\ (Ended <=> Ended') /\ (AllOrNothing <=> AllOrNothing')
  BY <1>1, <1>2 DEF Succeeding, Ended, AllOrNothing
<1> QED
  BY <1>1, <1>4, <1>5, <1>6 DEF RequestInv

-----------------------------------------------------------------------------
(* The theorems about requests *)

(* What is known of a request at every step of its life: the parser has read  *)
(* a prefix of the text that was in order, every name in it has its object    *)
(* and every object but the current one is in the plan (racs_exec_plan_build);*)
(* nothing is called and no stream changes before all of it was read and all  *)
(* names were found; and what the commands have left is one object or one     *)
(* error (racs_exec_plan_exec).                                               *)
THEOREM RequestInvariant == ExecSpec => []RequestInv
<1>1. ExecInit => RequestInv
  BY IdleInv DEF ExecInit
<1>2. RequestInv /\ [ExecNext]_execVars => RequestInv'
  <2> SUFFICES ASSUME RequestInv, [ExecNext]_execVars PROVE RequestInv'
    OBVIOUS
  <2>1. ASSUME NEW r \in Requests, Receive(r) PROVE RequestInv'
    BY <2>1, ReceiveStep
  <2>2. BuildId \/ NameOverflow \/ BuildArg \/ BuildPipe \/ BuildError \/ BuildEnd => RequestInv'
    BY BuildIdStep, NameOverflowStep, BuildArgStep, BuildPipeStep, BuildErrorStep, BuildEndStep
  <2>3. Check \/ Call \/ CallNone \/ Destroy \/ Reply => RequestInv'
    BY CheckStep, CallStep, CallNoneStep, DestroyStep, ReplyStep
  <2> QED
    BY <2>1, <2>2, <2>3, ExecStutter DEF ExecNext, Work
<1> QED
  BY <1>1, <1>2, PTL DEF ExecSpec

(* AllOrNothing: a refused request changes no stream, whatever stands in      *)
(* front of the part that is wrong.                                           *)
THEOREM RefusedChangesNothing == ExecSpec => []AllOrNothing
<1>1. RequestInv => AllOrNothing
  BY DEF RequestInv
<1> QED
  BY <1>1, RequestInvariant, PTL

(* FailureShown: a reply ends in an error exactly if the request was refused  *)
(* or a command failed, and nothing was called behind a failure.              *)
THEOREM FailuresAreShown == ExecSpec => []FailureShown
<1>1. RequestInv => FailureShown
  BY DEF RequestInv, Ended, FailureShown, Replied
<1> QED
  BY <1>1, RequestInvariant, PTL

-----------------------------------------------------------------------------
(* A well-formed request *)

\* A command of the text that ends at token e.
StageTo(T, k, e) == [name |-> T[NameAt(T, k)].val, args |-> SubSeq(T, NameAt(T, k) + 1, e)]

\* The last token of command k, of n that were read.
FilledTo(T, n, k) ==
    IF k < NameCount(T, n) THEN EndAt(T, k) ELSE IF T[n].type = "pipe" THEN n - 1 ELSE n

\* The commands in the plan: the last one comes in at the pipe behind it, or at
\* the end.
InPlan(T, n) ==
    IF phase # "build" \/ n = 0 \/ T[n].type = "pipe" THEN NameCount(T, n) ELSE NameCount(T, n) - 1

\* The objects are the commands that were read.
ObjectsAre(T, n) ==
    /\ Len(cmds) = NameCount(T, n) /\ cmd = NameCount(T, n)
    /\ \A k \in 1 .. NameCount(T, n) :
         NameAt(T, k) \in 1 .. n /\ cmds[k] = StageTo(T, k, FilledTo(T, n, k))
    /\ Len(plan) = InPlan(T, n) /\ \A k \in 1 .. InPlan(T, n) : plan[k] = k

Written ==
    phase \in {"build", "check", "exec"} /\ WellFormed(Text) => ObjectsAre(Text, Done)

(* Counting names.                                                            *)
LEMMA NameCounts ==
    ASSUME NEW T \in Seq(Tokens)
    PROVE  /\ \A i \in Int : NameCount(T, i) \in Nat
           /\ NameCount(T, 0) = 0
           /\ \A i \in 1 .. Len(T) :
                NameCount(T, i) = NameCount(T, i - 1) + (IF i \in Names(T) THEN 1 ELSE 0)
           /\ \A i, j \in Int : i <= j => NameCount(T, i) <= NameCount(T, j)
<1> DEFINE S(i) == {j \in Names(T) : j <= i}
<1>0. DOMAIN T = 1 .. Len(T) /\ Len(T) \in Nat
  OBVIOUS
<1>1. IsFiniteSet(Names(T)) /\ Names(T) \subseteq 1 .. Len(T)
  <2>1. Names(T) \in SUBSET (1 .. Len(T)) /\ IsFiniteSet(1 .. Len(T))
    BY <1>0, FS_Interval DEF Names
  <2> QED
    BY <2>1, FS_Subset
<1>2. ASSUME NEW i \in Int PROVE IsFiniteSet(S(i)) /\ Cardinality(S(i)) \in Nat
  <2>1. S(i) \in SUBSET Names(T)
    OBVIOUS
  <2> QED
    BY <1>1, <2>1, FS_Subset, FS_CardinalityType
<1>3. \A i \in Int : NameCount(T, i) = Cardinality(S(i))
  BY DEF NameCount
<1>4. NameCount(T, 0) = 0
  <2>1. S(0) = {}
    BY <1>1
  <2> QED
    BY <1>3, <2>1, FS_EmptySet
<1>5. ASSUME NEW i \in 1 .. Len(T)
      PROVE  NameCount(T, i) = NameCount(T, i - 1) + (IF i \in Names(T) THEN 1 ELSE 0)
  <2>1. i - 1 \in Int /\ i \in Int
    OBVIOUS
  <2>2. CASE i \in Names(T)
    <3>1. S(i) = S(i - 1) \cup {i} /\ i \notin S(i - 1)
      BY <1>1, <2>2
    <3>2. Cardinality(S(i)) = Cardinality(S(i - 1)) + 1
      <4> HIDE DEF S
      <4> QED
        BY <1>2, <2>1, <3>1, FS_AddElement
    <3> QED
      BY <1>3, <2>1, <2>2, <3>2
  <2>3. CASE i \notin Names(T)
    <3>1. S(i) = S(i - 1)
      BY <1>1, <2>3
    <3>2. NameCount(T, i) = NameCount(T, i - 1) /\ NameCount(T, i - 1) \in Nat
      BY <1>2, <1>3, <2>1, <3>1
    <3> QED
      BY <2>3, <3>2
  <2> QED
    BY <2>2, <2>3
<1>6. ASSUME NEW i \in Int, NEW j \in Int, i <= j PROVE NameCount(T, i) <= NameCount(T, j)
  <2>1. S(i) \in SUBSET S(j)
    BY <1>1, <1>6
  <2> HIDE DEF S
  <2> QED
    BY <1>2, <1>3, <2>1, FS_Subset
<1> QED
  BY <1>2, <1>3, <1>4, <1>5, <1>6

(* The name that is number k is where the count comes to k.                   *)
LEMMA NameFound ==
    ASSUME NEW T \in Seq(Tokens), NEW i \in Names(T)
    PROVE  NameAt(T, NameCount(T, i)) = i
<1>0. Names(T) \subseteq 1 .. Len(T) /\ Len(T) \in Nat
  BY DEF Names
<1>1. ASSUME NEW a \in Names(T), NEW b \in Names(T), a < b PROVE NameCount(T, a) # NameCount(T, b)
  <2>1. NameCount(T, a) <= NameCount(T, b - 1)
    BY <1>0, <1>1, NameCounts
  <2>2. NameCount(T, b) = NameCount(T, b - 1) + 1
    <3>1. b \in 1 .. Len(T)
      BY <1>0
    <3>2. NameCount(T, b) = NameCount(T, b - 1) + (IF b \in Names(T) THEN 1 ELSE 0)
      BY <3>1, NameCounts
    <3> QED
      BY <3>2
  <2>3. NameCount(T, a) \in Nat /\ NameCount(T, b - 1) \in Nat
    <3>1. a \in Int /\ b - 1 \in Int
      BY <1>0
    <3> QED
      BY <3>1, NameCounts
  <2> QED
    BY <2>1, <2>2, <2>3
<1>2. \A j \in Names(T) : NameCount(T, j) = NameCount(T, i) => j = i
  BY <1>0, <1>1
<1> QED
  BY <1>2 DEF NameAt

(* Reading a well-formed text: names come first and behind pipes, and only    *)
(* there.                                                                     *)
LEMMA WellFormedAt ==
    ASSUME NEW T \in Seq(Tokens), WellFormed(T), NEW n \in 1 .. Len(T)
    PROVE  /\ LexedAt(T, n) = T[n].type
           /\ T[n].type = "id" <=> n = 1 \/ T[n - 1].type = "pipe"
           /\ n \in Names(T) <=> T[n].type = "id"
           /\ n = Len(T) => T[n].type # "pipe"
           /\ NameCount(T, n) \in Nat \ {0} /\ NameCount(T, n - 1) \in Nat
           /\ NameCount(T, n) <= NameCount(T, Len(T))
           /\ NameCount(T, n) = IF T[n].type = "id" THEN NameCount(T, n - 1) + 1
                                ELSE NameCount(T, n - 1)
<1>0. /\ DOMAIN T = 1 .. Len(T) /\ Len(T) \in Nat /\ n \in Int /\ n - 1 \in Int /\ 1 \in 1 .. Len(T)
      /\ n >= 1 /\ n <= Len(T) /\ 1 - 1 = 0
  OBVIOUS
<1>1. \A i \in DOMAIN T : T[i].type \notin {"bar", "error"} /\ (T[i].type = "id" <=> i \in Starts(T))
  BY DEF WellFormed
<1>2. LexedAt(T, n) = T[n].type
  BY <1>0, <1>1 DEF LexedAt
<1>3. T[n].type = "id" <=> n = 1 \/ T[n - 1].type = "pipe"
  <2>1. CASE n = 1
    BY <1>0, <1>1, <2>1 DEF Starts
  <2>2. CASE n # 1
    <3>1. n - 1 \in DOMAIN T
      BY <1>0, <2>2
    <3> QED
      BY <1>0, <1>1, <2>2, <3>1 DEF Starts
  <2> QED
    BY <2>1, <2>2
<1>4. \A i \in 1 .. Len(T) : i \in Names(T) <=> T[i].type = "id"
  BY <1>0 DEF Names
<1>5. n = Len(T) => T[n].type # "pipe"
  BY <1>0 DEF WellFormed, Last
<1>6. /\ \A i \in Int : NameCount(T, i) \in Nat
      /\ NameCount(T, 0) = 0
      /\ \A i \in 1 .. Len(T) :
           NameCount(T, i) = NameCount(T, i - 1) + (IF i \in Names(T) THEN 1 ELSE 0)
      /\ \A i, j \in Int : i <= j => NameCount(T, i) <= NameCount(T, j)
  BY NameCounts
<1>7. NameCount(T, n) \in Nat /\ NameCount(T, n - 1) \in Nat /\ NameCount(T, n) <= NameCount(T, Len(T))
  BY <1>0, <1>6
<1>8. NameCount(T, n) # 0
  <2>1. 1 \in Names(T)
    BY <1>0, <1>1, <1>4 DEF Starts
  <2>2. NameCount(T, 1) = NameCount(T, 1 - 1) + 1
    <3>1. NameCount(T, 1) = NameCount(T, 1 - 1) + (IF 1 \in Names(T) THEN 1 ELSE 0)
      BY <1>0, <1>6
    <3> QED
      BY <2>1, <3>1
  <2>3. NameCount(T, 1) = 1
    BY <1>0, <1>6, <2>2
  <2>4. NameCount(T, 1) <= NameCount(T, n)
    BY <1>0, <1>6
  <2> QED
    BY <1>7, <2>3, <2>4
<1>9. NameCount(T, n) = IF T[n].type = "id" THEN NameCount(T, n - 1) + 1 ELSE NameCount(T, n - 1)
  <2>1. NameCount(T, n) = NameCount(T, n - 1) + (IF n \in Names(T) THEN 1 ELSE 0)
    BY <1>6
  <2> QED
    BY <1>4, <1>7, <2>1
<1> QED
  BY <1>2, <1>3, <1>4, <1>5, <1>7, <1>8, <1>9

(* A name closes the command before it and begins the next.                   *)
LEMMA WrittenId == RequestInv /\ Written /\ BuildId => Written'
<1> SUFFICES ASSUME RequestInv, Written, BuildId, phase' \in {"build", "check", "exec"},
                    WellFormed(Text)'
             PROVE  ObjectsAre(Text, Done)'
  BY DEF Written
<1>1. HasRead /\ Lexed(toks) = "id"
  BY DEF BuildId, Building, Read, HasRead
<1>2. /\ Text' = Text /\ Done \in Nat /\ Done + 1 \in 1 .. Len(Text) /\ Done' = Done + 1
      /\ Head(toks) = Text[Done + 1] /\ LexedAt(Text, Done + 1) = "id"
  BY <1>1, ReadToken
<1>3. PICK T \in Seq(Tokens), d \in Nat, n \in Nat :
        T = Text /\ T = Text' /\ d = Done /\ n = d + 1 /\ n = Done' /\ n \in 1 .. Len(T)
  BY <1>2, TextType
<1>4. WellFormed(T) /\ phase = "build" /\ ObjectsAre(T, d)
  BY <1>1, <1>2, <1>3 DEF Written, HasRead
<1>5. n - 1 = d /\ Len(T) \in Nat
  BY <1>3
<1>6. PICK c \in Nat : c = NameCount(T, d)
  BY <1>3, <1>4, <1>5, WellFormedAt
<1>7. /\ T[n].type = "id" /\ n \in Names(T) /\ NameCount(T, n) = c + 1
      /\ c + 1 <= NameCount(T, Len(T)) /\ (d = 0 \/ T[d].type = "pipe")
  <2>1. T[n].type = "id"
    <3>1. LexedAt(T, n) = "id"
      BY <1>2, <1>3
    <3> QED
      BY <1>3, <1>4, <3>1, WellFormedAt
  <2> QED
    BY <1>3, <1>4, <1>5, <1>6, <2>1, WellFormedAt
<1>8. NameAt(T, c + 1) = n
  BY <1>7, NameFound
<1>9. PICK o : o = [name |-> T[n].val, args |-> <<>>]
  OBVIOUS
<1>10. cmds' = Append(cmds, o) /\ cmd' = Len(cmds) + 1 /\ phase' = "build" /\ plan' = plan
  <2>1. phase' # "destroy"
    OBVIOUS
  <2>2. prev \in {"none", "pipe"}
    BY <2>1 DEF BuildId, Abort
  <2> QED
    BY <1>2, <1>3, <1>4, <1>9, <2>2 DEF BuildId
<1>11. cmds \in Seq(Objects) /\ o \in Objects
  <2>1. T[n] \in Tokens
    BY <1>3
  <2> QED
    BY <1>7, <1>9, <2>1 DEF RequestInv, Planned, Objects
<1>12. Len(cmds) = c /\ Len(plan) = c /\ \A k \in 1 .. c : plan[k] = k
  BY <1>4, <1>6, <1>7 DEF ObjectsAre, InPlan
<1>13. /\ Len(cmds') = c + 1 /\ cmds'[c + 1] = o /\ \A k \in 1 .. c : cmds'[k] = cmds[k]
  BY <1>10, <1>11, <1>12
<1>14. ASSUME NEW k \in 1 .. c + 1
       PROVE  NameAt(T, k) \in 1 .. n /\ cmds'[k] = StageTo(T, k, FilledTo(T, n, k))
  <2>1. CASE k = c + 1
    <3>1. FilledTo(T, n, k) = n
      BY <1>7, <2>1 DEF FilledTo
    <3>2. SubSeq(T, n + 1, n) = <<>>
      BY <1>3
    <3> QED
      BY <1>3, <1>8, <1>9, <1>13, <2>1, <3>1, <3>2 DEF StageTo
  <2>2. CASE k \in 1 .. c
    <3>1. NameAt(T, k) \in 1 .. d /\ cmds[k] = StageTo(T, k, FilledTo(T, d, k))
      BY <1>4, <1>6, <2>2 DEF ObjectsAre
    <3>2. FilledTo(T, n, k) = EndAt(T, k)
      BY <1>7, <2>2 DEF FilledTo
    <3>3. FilledTo(T, d, k) = EndAt(T, k)
      <4>1. CASE k < c
        BY <1>6, <4>1 DEF FilledTo
      <4>2. CASE k = c
        <5>1. d # 0 /\ FilledTo(T, d, k) = d - 1
          BY <1>3, <1>6, <1>7, <3>1, <4>2 DEF FilledTo
        <5>2. EndAt(T, k) = n - 2
          BY <1>7, <1>8, <4>2, <1>6 DEF EndAt
        <5>3. n - 2 = d - 1
          BY <1>3
        <5> QED
          BY <5>1, <5>2, <5>3
      <4> QED
        BY <2>2, <4>1, <4>2
    <3>4. NameAt(T, k) \in 1 .. n
      BY <1>3, <3>1
    <3> QED
      BY <1>13, <2>2, <3>1, <3>2, <3>3, <3>4
  <2> QED
    BY <2>1, <2>2
<1>15. InPlan(T, n)' = c
  BY <1>3, <1>7, <1>10 DEF InPlan
<1> QED
  BY <1>3, <1>7, <1>10, <1>12, <1>13, <1>14, <1>15 DEF ObjectsAre

(* A part of a sequence grows by the element behind it.                       *)
LEMMA SubSeqGrows ==
    ASSUME NEW A, NEW T \in Seq(A), NEW a \in Nat, NEW d \in Nat, NEW n \in 1 .. Len(T),
           n = d + 1, 1 <= a, a <= d
    PROVE  Append(SubSeq(T, a + 1, d), T[n]) = SubSeq(T, a + 1, n)
<1> DEFINE s == SubSeq(T, a + 1, d)
           t == SubSeq(T, a + 1, n)
<1>1. s \in Seq(A) /\ Len(s) = d - a /\ \A i \in 1 .. d - a : s[i] = T[a + i]
  <2>1. SubSeq(T, a + 1, d) = [i \in 1 .. d - a |-> T[a + i]]
    OBVIOUS
  <2> QED
    BY <2>1
<1>2. t \in Seq(A) /\ Len(t) = n - a /\ \A i \in 1 .. n - a : t[i] = T[a + i]
  <2>1. SubSeq(T, a + 1, n) = [i \in 1 .. n - a |-> T[a + i]]
    OBVIOUS
  <2> QED
    BY <2>1
<1>3. T[n] \in A /\ n - a = (d - a) + 1 /\ a + (n - a) = n
  OBVIOUS
<1> HIDE DEF s, t
<1>4. Append(s, T[n]) \in Seq(A) /\ Len(Append(s, T[n])) = n - a
  <2>1. Append(s, T[n]) \in Seq(A) /\ Len(Append(s, T[n])) = Len(s) + 1
    BY <1>1, <1>3, AppendProperties
  <2> QED
    BY <1>1, <1>3, <2>1
<1>5. ASSUME NEW i \in 1 .. n - a PROVE Append(s, T[n])[i] = t[i]
  <2>1. CASE i = n - a
    <3>1. t[i] = T[n]
      BY <1>2, <1>3, <2>1
    <3>2. Append(s, T[n])[Len(s) + 1] = T[n]
      BY <1>1, <1>3, AppendProperties
    <3>3. Len(s) + 1 = i
      BY <1>1, <1>3, <2>1
    <3> QED
      BY <3>1, <3>2, <3>3
  <2>2. CASE i \in 1 .. d - a
    <3>1. Append(s, T[n])[i] = s[i]
      BY <1>1, <1>3, <2>2, AppendProperties
    <3>2. i \in 1 .. n - a
      OBVIOUS
    <3> QED
      BY <1>1, <1>2, <2>2, <3>1, <3>2
  <2>3. i = n - a \/ i \in 1 .. d - a
    OBVIOUS
  <2> QED
    BY <2>1, <2>2, <2>3
<1>6. Append(s, T[n]) = t
  BY <1>2, <1>4, <1>5, SeqEqual
<1> QED
  BY <1>6 DEF s, t

(* The plan counts the commands.                                              *)
LEMMA Numbered ==
    ASSUME NEW p, NEW c \in Nat, c # 0, NEW D, p \in Seq(D), Len(p) = c - 1,
           \A k \in 1 .. c - 1 : p[k] = k
    PROVE  Len(AddCommand(p, c)) = c /\ \A k \in 1 .. c : AddCommand(p, c)[k] = k
<1>1. AddCommand(p, c) = Append(p, c)
  BY DEF AddCommand
<1>2. Len(Append(p, c)) = c /\ Append(p, c)[c] = c
  OBVIOUS
<1>3. \A k \in 1 .. c - 1 : Append(p, c)[k] = p[k]
  OBVIOUS
<1> QED
  BY <1>1, <1>2, <1>3

(* An argument goes to the command of the last name.                          *)
LEMMA WrittenArg == RequestInv /\ Written /\ BuildArg => Written'
<1> SUFFICES ASSUME RequestInv, Written, BuildArg, phase' \in {"build", "check", "exec"},
                    WellFormed(Text)'
             PROVE  ObjectsAre(Text, Done)'
  BY DEF Written
<1>1. HasRead /\ Lexed(toks) \in ArgTokens
  BY DEF BuildArg, Building, Read, HasRead
<1>2. /\ Text' = Text /\ Done \in Nat /\ Done + 1 \in 1 .. Len(Text) /\ Done' = Done + 1
      /\ Head(toks) = Text[Done + 1] /\ Lexed(toks) = LexedAt(Text, Done + 1)
  BY <1>1, ReadToken
<1>3. PICK T \in Seq(Tokens), d \in Nat, n \in Nat :
        T = Text /\ T = Text' /\ d = Done /\ n = d + 1 /\ n = Done' /\ n \in 1 .. Len(T)
  BY <1>2, TextType
<1>4. WellFormed(T) /\ phase = "build" /\ ObjectsAre(T, d)
  BY <1>1, <1>2, <1>3 DEF Written, HasRead
<1>5. n - 1 = d /\ Len(T) \in Nat
  BY <1>3
<1>6. PICK c \in Nat : c = NameCount(T, d)
  BY <1>3, <1>4, <1>5, WellFormedAt
<1>7. /\ T[n].type \notin {"id", "pipe"} /\ NameCount(T, n) = c /\ c # 0
      /\ d # 0 /\ T[d].type # "pipe"
  <2>1. T[n].type \in ArgTokens
    <3>1. LexedAt(T, n) \in ArgTokens
      BY <1>1, <1>2, <1>3
    <3> QED
      BY <1>3, <1>4, <3>1, WellFormedAt
  <2>2. T[n].type \notin {"id", "pipe"}
    BY <2>1 DEF ArgTokens
  <2>3. NameCount(T, n) = c /\ NameCount(T, n) # 0 /\ n # 1 /\ T[d].type # "pipe"
    <3>1. T[n].type # "id"
      BY <2>2
    <3> QED
      BY <1>3, <1>4, <1>5, <1>6, <3>1, WellFormedAt
  <2> QED
    BY <1>3, <2>2, <2>3
<1>8. /\ phase' = "build" /\ plan' = plan /\ cmd' = cmd
      /\ cmds' = [cmds EXCEPT ![cmd] = AddArg(@, T[n])]
  <2>1. phase' # "destroy"
    OBVIOUS
  <2>2. prev \notin {"none", "pipe"}
    BY <2>1 DEF BuildArg, Abort
  <2> QED
    BY <1>2, <1>3, <1>4, <2>2 DEF BuildArg
<1>9. cmds \in Seq(Objects)
  BY DEF RequestInv, Planned
<1>10. Len(cmds) = c /\ cmd = c /\ Len(plan) = c - 1 /\ \A k \in 1 .. c - 1 : plan[k] = k
  BY <1>4, <1>6, <1>7 DEF ObjectsAre, InPlan
<1>11. /\ Len(cmds') = c /\ cmds'[c] = AddArg(cmds[c], T[n])
       /\ \A k \in 1 .. c - 1 : cmds'[k] = cmds[k]
  <2>1. DOMAIN cmds = 1 .. c /\ c \in 1 .. c
    BY <1>7, <1>9, <1>10
  <2> QED
    BY <1>8, <1>9, <1>10, <2>1
<1>12. ASSUME NEW k \in 1 .. c
       PROVE  NameAt(T, k) \in 1 .. n /\ cmds'[k] = StageTo(T, k, FilledTo(T, n, k))
  <2>1. NameAt(T, k) \in 1 .. d /\ cmds[k] = StageTo(T, k, FilledTo(T, d, k))
    BY <1>4, <1>6 DEF ObjectsAre
  <2>2. NameAt(T, k) \in 1 .. n
    BY <1>3, <2>1
  <2>3. CASE k = c
    <3>1. FilledTo(T, n, k) = n /\ FilledTo(T, d, k) = d
      BY <1>6, <1>7, <2>3 DEF FilledTo
    <3>2. Append(SubSeq(T, NameAt(T, k) + 1, d), T[n]) = SubSeq(T, NameAt(T, k) + 1, n)
      <4>1. PICK a \in Nat : a = NameAt(T, k) /\ 1 <= a /\ a <= d
        BY <2>1
      <4>2. Append(SubSeq(T, a + 1, d), T[n]) = SubSeq(T, a + 1, n)
        BY <1>3, <4>1, SubSeqGrows
      <4> QED
        BY <4>1, <4>2
    <3>3. AddArg(StageTo(T, k, d), T[n]) = StageTo(T, k, n)
      <4>1. PICK v : v = T[NameAt(T, k)].val
        OBVIOUS
      <4>2. PICK s, t : s = SubSeq(T, NameAt(T, k) + 1, d) /\ t = SubSeq(T, NameAt(T, k) + 1, n)
        OBVIOUS
      <4>3. AddArg([name |-> v, args |-> s], T[n]) = [name |-> v, args |-> Append(s, T[n])]
        <5>1. [name |-> v, args |-> s].args = s
          OBVIOUS
        <5>2. \A w : [[name |-> v, args |-> s] EXCEPT !.args = w] = [name |-> v, args |-> w]
          OBVIOUS
        <5> QED
          BY <5>1, <5>2 DEF AddArg
      <4> QED
        BY <3>2, <4>1, <4>2, <4>3 DEF StageTo
    <3> QED
      BY <1>11, <2>1, <2>2, <2>3, <3>1, <3>3
  <2>4. CASE k \in 1 .. c - 1
    <3>1. FilledTo(T, n, k) = FilledTo(T, d, k)
      BY <1>6, <1>7, <2>4 DEF FilledTo
    <3> QED
      BY <1>11, <2>1, <2>2, <2>4, <3>1
  <2> QED
    BY <2>3, <2>4
<1>13. InPlan(T, n)' = c - 1
  BY <1>3, <1>7, <1>8 DEF InPlan
<1> QED
  BY <1>3, <1>7, <1>8, <1>10, <1>11, <1>12, <1>13 DEF ObjectsAre

(* A pipe puts the command in front of it into the plan.                      *)
LEMMA WrittenPipe == RequestInv /\ Written /\ BuildPipe => Written'
<1> SUFFICES ASSUME RequestInv, Written, BuildPipe, phase' \in {"build", "check", "exec"},
                    WellFormed(Text)'
             PROVE  ObjectsAre(Text, Done)'
  BY DEF Written
<1>1. HasRead /\ Lexed(toks) = "pipe"
  BY DEF BuildPipe, Building, Read, HasRead
<1>2. /\ Text' = Text /\ Done \in Nat /\ Done + 1 \in 1 .. Len(Text) /\ Done' = Done + 1
      /\ LexedAt(Text, Done + 1) = "pipe"
  BY <1>1, ReadToken
<1>3. PICK T \in Seq(Tokens), d \in Nat, n \in Nat :
        T = Text /\ T = Text' /\ d = Done /\ n = d + 1 /\ n = Done' /\ n \in 1 .. Len(T)
  BY <1>2, TextType
<1>4. WellFormed(T) /\ phase = "build" /\ ObjectsAre(T, d)
  BY <1>1, <1>2, <1>3 DEF Written, HasRead
<1>5. n - 1 = d /\ Len(T) \in Nat
  BY <1>3
<1>6. PICK c \in Nat : c = NameCount(T, d)
  BY <1>3, <1>4, <1>5, WellFormedAt
<1>7. /\ T[n].type = "pipe" /\ NameCount(T, n) = c /\ c # 0
      /\ d # 0 /\ T[d].type # "pipe"
  <2>1. T[n].type = "pipe"
    <3>1. LexedAt(T, n) = "pipe"
      BY <1>2, <1>3
    <3> QED
      BY <1>3, <1>4, <3>1, WellFormedAt
  <2>3. NameCount(T, n) = c /\ NameCount(T, n) # 0 /\ n # 1 /\ T[d].type # "pipe"
    BY <1>3, <1>4, <1>5, <1>6, <2>1, WellFormedAt
  <2> QED
    BY <1>3, <2>1, <2>3
<1>8. phase' = "build" /\ plan' = AddCommand(plan, cmd) /\ cmd' = cmd /\ cmds' = cmds
  BY <1>4 DEF BuildPipe
<1>9. cmds \in Seq(Objects) /\ plan \in Seq(DOMAIN cmds)
  BY DEF RequestInv, Planned
<1>10. Len(cmds) = c /\ cmd = c /\ Len(plan) = c - 1 /\ \A k \in 1 .. c - 1 : plan[k] = k
  BY <1>4, <1>6, <1>7 DEF ObjectsAre, InPlan
<1>11. Len(plan') = c /\ \A k \in 1 .. c : plan'[k] = k
  BY <1>7, <1>8, <1>9, <1>10, Numbered
<1>12. ASSUME NEW k \in 1 .. c
       PROVE  NameAt(T, k) \in 1 .. n /\ cmds'[k] = StageTo(T, k, FilledTo(T, n, k))
  <2>1. NameAt(T, k) \in 1 .. d /\ cmds[k] = StageTo(T, k, FilledTo(T, d, k))
    BY <1>4, <1>6 DEF ObjectsAre
  <2>2. NameAt(T, k) \in 1 .. n
    BY <1>3, <2>1
  <2>3. FilledTo(T, n, k) = FilledTo(T, d, k)
    BY <1>5, <1>6, <1>7 DEF FilledTo
  <2> QED
    BY <1>8, <2>1, <2>2, <2>3
<1>13. InPlan(T, n)' = c
  BY <1>3, <1>7, <1>8 DEF InPlan
<1> QED
  BY <1>3, <1>7, <1>8, <1>10, <1>11, <1>12, <1>13 DEF ObjectsAre

(* At the end of the text the last command comes into the plan.               *)
LEMMA WrittenEnd == RequestInv /\ Written /\ BuildEnd => Written'
<1> SUFFICES ASSUME RequestInv, Written, BuildEnd, WellFormed(Text)'
             PROVE  ObjectsAre(Text, Done)'
  BY DEF Written
<1>1. /\ phase = "build" /\ phase' = "check" /\ toks = <<>> /\ plan' = AddCommand(plan, cmd)
      /\ request' = request /\ toks' = toks /\ cmds' = cmds /\ cmd' = cmd
  BY DEF BuildEnd
<1>2. Text' = Text
  BY <1>1 DEF Text
<1>3. Done' = Done
  BY <1>1, <1>2 DEF Done
<1>4. PICK T \in Seq(Tokens), d \in Nat :
        T = Text /\ T = Text' /\ d = Done /\ d = Done' /\ d = Len(T)
  BY <1>1, <1>2, <1>3, TextType DEF Done
<1>5. WellFormed(T) /\ ObjectsAre(T, d)
  BY <1>1, <1>2, <1>4 DEF Written
<1>6. d \in 1 .. Len(T)
  BY <1>4, <1>5 DEF WellFormed
<1>7. PICK c \in Nat : c = NameCount(T, d) /\ c # 0
  BY <1>5, <1>6, WellFormedAt
<1>8. d # 0 /\ T[d].type # "pipe"
  BY <1>4, <1>5, <1>6, WellFormedAt
<1>9. cmds \in Seq(Objects) /\ plan \in Seq(DOMAIN cmds)
  BY DEF RequestInv, Planned
<1>10. Len(cmds) = c /\ cmd = c /\ Len(plan) = c - 1 /\ \A k \in 1 .. c - 1 : plan[k] = k
  BY <1>1, <1>5, <1>7, <1>8 DEF ObjectsAre, InPlan
<1>11. Len(plan') = c /\ \A k \in 1 .. c : plan'[k] = k
  BY <1>1, <1>7, <1>9, <1>10, Numbered
<1>12. InPlan(T, d)' = c
  BY <1>1, <1>7 DEF InPlan
<1> QED
  BY <1>1, <1>4, <1>5, <1>7, <1>10, <1>11, <1>12 DEF ObjectsAre

(* Nothing else changes the objects or the plan.                              *)
LEMMA WrittenKept ==
    ASSUME Written, phase' \in {"build", "check", "exec"} => phase = phase' \/ phase # "build",
           phase' \in {"build", "check", "exec"} => phase \in {"build", "check", "exec"},
           phase' = "build" => phase = "build",
           request' = request, toks' = toks, cmds' = cmds, cmd' = cmd, plan' = plan
    PROVE  Written'
<1>1. Text' = Text
  BY DEF Text
<1>2. Done' = Done
  BY <1>1 DEF Done
<1>3. phase' \in {"build", "check", "exec"} => (phase = "build" <=> phase' = "build")
  OBVIOUS
<1> QED
  BY <1>1, <1>2, <1>3 DEF Written, ObjectsAre, InPlan

LEMMA WrittenReceive == ASSUME NEW r \in Requests, RequestInv, Receive(r) PROVE Written'
<1>1. /\ phase' = "build" /\ request' = r /\ toks' = TextOf(r)
      /\ cmds' = <<>> /\ cmd' = 0 /\ plan' = <<>>
  BY DEF Receive, RequestInv
<1>2. r \in Seq(DOMAIN Chunks)
  BY RequestChunks
<1>3. Text' = toks' /\ Text' \in Seq(Tokens)
  BY <1>1, <1>2, TextTokens DEF Text
<1>4. Done' = 0
  BY <1>3 DEF Done
<1>5. NameCount(Text', 0) = 0
  BY <1>3, NameCounts
<1> QED
  BY <1>1, <1>4, <1>5 DEF Written, ObjectsAre, InPlan

(* PlanIsRequest: a well-formed request is executed as it is written.         *)
THEOREM PlansAreRequests == ExecSpec => []PlanIsRequest
<1>1. ExecInit => Written
  BY DEF ExecInit, Written
<1>2. RequestInv /\ Written /\ [ExecNext]_execVars => Written'
  <2> SUFFICES ASSUME RequestInv, Written, [ExecNext]_execVars PROVE Written'
    OBVIOUS
  <2>1. ASSUME NEW r \in Requests, Receive(r) PROVE Written'
    BY <2>1, WrittenReceive
  <2>2. BuildId \/ BuildArg \/ BuildPipe \/ BuildEnd => Written'
    BY WrittenId, WrittenArg, WrittenPipe, WrittenEnd
  <2>3. NameOverflow \/ BuildError => Written'
    BY DEF NameOverflow, BuildError, Abort, Written
  <2>4. Check => Written'
    BY WrittenKept DEF Check
  <2>5. Call => Written'
    <3>1. ASSUME Call
          PROVE  /\ phase = "exec" /\ phase' \in {"down", "exec", "destroy"}
                 /\ request' = request /\ toks' = toks /\ cmds' = cmds /\ cmd' = cmd /\ plan' = plan
      BY <3>1 DEF Call
    <3> QED
      BY <3>1, WrittenKept
  <2>6. CallNone \/ Destroy \/ Reply => Written'
    BY DEF CallNone, Destroy, Reply, Written
  <2>7. UNCHANGED execVars => Written'
    BY WrittenKept DEF execVars
  <2> QED
    BY <2>1, <2>2, <2>3, <2>4, <2>5, <2>6, <2>7 DEF ExecNext, Work
<1>3. RequestInv /\ Written => PlanIsRequest
  <2> SUFFICES ASSUME RequestInv, Written, phase \in {"check", "exec"}, WellFormed(Text)
               PROVE  [k \in DOMAIN plan |-> cmds[plan[k]]] = StagesOf(Text)
    BY DEF PlanIsRequest
  <2>1. toks = <<>> /\ Text \in Seq(Tokens)
    BY TextType DEF RequestInv, Quiet
  <2>2. Done = Len(Text) /\ Len(Text) \in 1 .. Len(Text)
    BY <2>1 DEF Done, WellFormed
  <2>3. PICK T \in Seq(Tokens), c \in Nat :
          T = Text /\ c = NameCount(T, Len(T)) /\ T[Len(T)].type # "pipe"
    BY <2>1, <2>2, WellFormedAt
  <2>4. /\ Len(plan) = c /\ \A k \in 1 .. c : plan[k] = k
        /\ \A k \in 1 .. c : cmds[k] = StageTo(T, k, FilledTo(T, Len(T), k))
    BY <2>2, <2>3 DEF Written, ObjectsAre, InPlan
  <2>5. DOMAIN plan = 1 .. c
    BY <2>4 DEF RequestInv, Planned
  <2>6. \A k \in 1 .. c : FilledTo(T, Len(T), k) = EndAt(T, k)
    BY <2>3 DEF FilledTo, EndAt
  <2>7. \A k \in 1 .. c : cmds[plan[k]] = StageTo(T, k, EndAt(T, k))
    BY <2>4, <2>6
  <2> QED
    BY <2>3, <2>5, <2>7 DEF StagesOf, StageTo
<1> QED
  BY <1>1, <1>2, <1>3, RequestInvariant, PTL DEF ExecSpec

-----------------------------------------------------------------------------
(* Audio *)

Words == LowInt .. HighInt
Fractions == [n : Int, d : Nat \ {0}]
Durations == [n : Nat, d : Nat \ {0}]

\* A buffer of 32-bit words.
Sound(b) == b \in Seq(Words)

HasHeader(b) == Sound(b) /\ Len(b) >= 2

\* A buffer that an operation made of b, with the same header.
MadeOf(r, b) == HasHeader(r) /\ r[1] = b[1] /\ r[2] = b[2]

LEMMA TruncatedInt ==
    ASSUME NEW n \in Int, NEW d \in Nat \ {0}
    PROVE  Truncated(n, d) \in Int /\ (n \in Nat => Truncated(n, d) \in Nat)
<1>1. n \div d \in Int /\ (- n) \div d \in Int /\ (n \in Nat => n \div d \in Nat)
  OBVIOUS
<1>2. - ((- n) \div d) \in Int
  BY <1>1
<1> QED
  BY <1>1, <1>2 DEF Truncated

(* The conversion of a double yields a word.                                  *)
LEMMA Int32Word ==
    /\ \A n \in Int, d \in Nat \ {0} : Int32(n, d) \in Words
    /\ 0 \in Words /\ Words \subseteq Int
<1>1. 0 \in Words /\ Words \subseteq Int /\ LowInt \in Words
  BY WordAssumption DEF Words
<1>2. ASSUME NEW n \in Int, NEW d \in Nat \ {0} PROVE Int32(n, d) \in Words
  <2>1. PICK q \in Int : q = Truncated(n, d)
    BY TruncatedInt
  <2>2. Int32(n, d) = IF LowInt <= q /\ q <= HighInt THEN q ELSE LowInt
    BY <2>1 DEF Int32
  <2> QED
    BY <1>1, <2>1, <2>2, WordAssumption DEF Words
<1> QED
  BY <1>1, <1>2

(* A list of words.                                                           *)
LEMMA WordList ==
    ASSUME NEW n \in Nat, NEW f \in [1 .. n -> Words]
    PROVE  f \in Seq(Words) /\ Len(f) = n
BY Listed

(* A sample of a buffer, or 0 behind its end.                                 *)
LEMMA SampleWord ==
    ASSUME NEW b, HasHeader(b), NEW i \in Nat \ {0}
    PROVE  At(b, i) \in Words
<1>1. Len(b) \in Nat
  BY DEF HasHeader, Sound
<1>2. CASE i + 2 <= Len(b)
  <2>1. i + 2 \in 3 .. Len(b)
    BY <1>1, <1>2
  <2> QED
    BY <1>2, <2>1 DEF At, HasHeader, Sound
<1>3. CASE ~ (i + 2 <= Len(b))
  BY <1>3, Int32Word DEF At
<1> QED
  BY <1>2, <1>3

\* r is a header in front of samples.
IsFront(r, x, y, s) ==
    /\ HasHeader(r) /\ Len(r) = Len(s) + 2 /\ r[1] = x /\ r[2] = y /\ r # Null
    /\ \A i \in 1 .. Len(s) : r[i + 2] = s[i]

LEMMA HeaderFront ==
    ASSUME NEW x \in Words, NEW y \in Words, NEW s \in Seq(Words)
    PROVE  IsFront(<<x, y>> \o s, x, y, s)
<1> DEFINE h == <<x, y>>
           r == h \o s
<1>1. h \in Seq(Words) /\ Len(h) = 2 /\ h[1] = x /\ h[2] = y
  OBVIOUS
<1>2. Len(s) \in Nat
  OBVIOUS
<1> HIDE DEF h
<1>3. /\ r \in Seq(Words) /\ Len(r) = Len(h) + Len(s)
      /\ \A i \in 1 .. Len(h) + Len(s) : r[i] = IF i <= Len(h) THEN h[i] ELSE s[i - Len(h)]
  BY <1>1, <1>2, ConcatProperties
<1>4. Len(r) = 2 + Len(s) /\ \A i \in 1 .. 2 + Len(s) : r[i] = IF i <= 2 THEN h[i] ELSE s[i - 2]
  BY <1>1, <1>3
<1> HIDE DEF r
<1>5. r[1] = x /\ r[2] = y
  BY <1>1, <1>2, <1>4
<1>6. \A i \in 1 .. Len(s) : r[i + 2] = s[i]
  <2> TAKE i \in 1 .. Len(s)
  <2>1. i + 2 \in 1 .. 2 + Len(s) /\ ~ (i + 2 <= 2) /\ (i + 2) - 2 = i
    BY <1>2
  <2> QED
    BY <1>4, <2>1
<1>8. Len(r) >= 2 /\ Len(r) = Len(s) + 2 /\ r # Null
  BY <1>2, <1>4 DEF Null
<1>9. HasHeader(r)
  BY <1>3, <1>8 DEF HasHeader, Sound
<1> QED
  BY <1>5, <1>6, <1>8, <1>9 DEF r, h, IsFront

LEMMA WithSamples ==
    ASSUME NEW b, HasHeader(b), NEW s \in Seq(Words)
    PROVE  /\ MadeOf(With(b, s), b) /\ Len(With(b, s)) = Len(s) + 2
           /\ \A i \in 1 .. Len(s) : With(b, s)[i + 2] = s[i]
           /\ With(b, s) # Null
<1>1. b[1] \in Words /\ b[2] \in Words
  BY DEF HasHeader, Sound
<1>2. IsFront(With(b, s), b[1], b[2], s)
  BY <1>1, HeaderFront, Zenon DEF With
<1> QED
  BY <1>2 DEF IsFront, MadeOf

(* The samples of a buffer.                                                   *)
LEMMA SamplesOf ==
    ASSUME NEW b, HasHeader(b)
    PROVE  /\ Samples(b) \in Seq(Words) /\ Len(Samples(b)) = Len(b) - 2 /\ Len(b) - 2 \in Nat
           /\ \A i \in 1 .. Len(b) - 2 : Samples(b)[i] = b[i + 2]
           /\ With(b, Samples(b)) = b
<1>1. b \in Seq(Words) /\ Len(b) \in Nat /\ Len(b) >= 2 /\ \A i \in 3 .. Len(b) : b[i] \in Words
  BY DEF HasHeader, Sound
<1>2. Samples(b) = [i \in 1 .. Len(b) - 2 |-> b[i + 2]]
  <2>1. SubSeq(b, 3, Len(b)) = [i \in 1 .. (Len(b) - 3) + 1 |-> b[(3 + i) - 1]]
    BY <1>1
  <2>2. (Len(b) - 3) + 1 = Len(b) - 2 /\ \A i \in 1 .. Len(b) - 2 : (3 + i) - 1 = i + 2
    BY <1>1
  <2> QED
    BY <2>1, <2>2 DEF Samples
<1>3. PICK n \in Nat : n = Len(b) - 2
  BY <1>1
<1>4. [i \in 1 .. n |-> b[i + 2]] \in [1 .. n -> Words]
  <2>1. ASSUME NEW i \in 1 .. n PROVE b[i + 2] \in Words
    <3>1. i + 2 \in 3 .. Len(b)
      BY <1>1, <1>3
    <3> QED
      BY <1>1, <3>1
  <2> QED
    BY <2>1
<1>5. Samples(b) \in Seq(Words) /\ Len(Samples(b)) = n
  BY <1>2, <1>3, <1>4, WordList
<1>6. With(b, Samples(b)) = b
  <2>1. PICK s \in Seq(Words) : s = Samples(b) /\ Len(s) = n
    BY <1>5
  <2>2. PICK w : w = With(b, s)
    OBVIOUS
  <2>3. /\ w \in Seq(Words) /\ Len(w) = n + 2 /\ w[1] = b[1] /\ w[2] = b[2]
        /\ \A i \in 1 .. n : w[i + 2] = s[i]
    BY <2>1, <2>2, WithSamples DEF MadeOf, HasHeader, Sound
  <2>4. ASSUME NEW i \in 1 .. Len(b) PROVE w[i] = b[i]
    <3>1. CASE i > 2
      <4>1. i - 2 \in 1 .. n /\ (i - 2) + 2 = i
        BY <1>1, <1>3, <3>1
      <4>2. w[(i - 2) + 2] = s[i - 2] /\ s[i - 2] = b[(i - 2) + 2]
        BY <1>2, <1>3, <2>1, <2>3, <4>1
      <4> QED
        BY <4>1, <4>2
    <3>2. CASE i = 1 \/ i = 2
      BY <2>3, <3>2
    <3> QED
      BY <1>1, <3>1, <3>2
  <2>5. Len(w) = Len(b)
    BY <1>1, <1>3, <2>3
  <2>6. w = b
    BY <1>1, <2>3, <2>4, <2>5, SeqEqual
  <2> QED
    BY <2>1, <2>2, <2>6
<1> QED
  BY <1>2, <1>3, <1>5, <1>6

(* Division with remainder.                                                   *)
LEMMA Divided ==
    ASSUME NEW y \in Int, NEW h \in Nat \ {0}
    PROVE  /\ y \div h \in Int /\ (y \in Nat => y \div h \in Nat)
           /\ y % h \in 0 .. h - 1 /\ y = (y \div h) * h + (y % h)
<1>1. y \div h \in Int
  OBVIOUS
<1>2. y \in Nat => y \div h \in Nat
  OBVIOUS
<1>3. y % h \in 0 .. h - 1
  OBVIOUS
<1>4. y = (y \div h) * h + (y % h)
  OBVIOUS
<1> QED
  BY <1>1, <1>2, <1>3, <1>4

LEMMA HalfNat == Half \in Nat \ {0} /\ Half > 24
BY DEF Half

(* Header words are read without a sign; a channel count that a CREATE allows *)
(* has no sign bit in it.                                                     *)
LEMMA HeaderFields ==
    ASSUME NEW b, HasHeader(b)
    PROVE  /\ Rate(b) \in Nat /\ Channels(b) \in Nat /\ Depth(b) \in 0 .. Half - 1
           /\ b[1] \in Words /\ b[2] \in Words
           /\ Channels(b) <= 2 => b[2] \in Nat /\ b[2] = Channels(b) * Half + Depth(b)
<1>1. b[1] \in Words /\ b[2] \in Words
  BY DEF HasHeader, Sound
<1>2. PICK h \in Nat \ {0} : h = Half
  BY HalfNat
<1>3. PICK y \in Int : y = b[2]
  BY <1>1, Int32Word
<1>4. Unsigned(b[1]) \in Nat /\ Unsigned(b[2]) \in Nat
  BY <1>1, WordAssumption DEF Unsigned, Width, Words
<1>5. PICK u \in Nat : u = Unsigned(b[2])
  BY <1>4
<1>6. /\ u \div h \in Nat /\ u % h \in 0 .. h - 1 /\ u = (u \div h) * h + (u % h)
      /\ y % h \in 0 .. h - 1
  <2>1. u \in Int
    OBVIOUS
  <2>2. u \div h \in Nat /\ u % h \in 0 .. h - 1 /\ u = (u \div h) * h + (u % h)
    BY <2>1, Divided, Zenon
  <2>3. y % h \in 0 .. h - 1
    BY Divided, Zenon
  <2> QED
    BY <2>2, <2>3
<1>7. PICK c \in Nat : c = u \div h
  BY <1>6
<1>8. c <= 2 => y = u
  <2> SUFFICES ASSUME c <= 2, y # u PROVE FALSE
    OBVIOUS
  <2>1. y < 0 /\ LowInt <= y /\ u = y + Width
    BY <1>1, <1>3, <1>5, WordAssumption DEF Unsigned, Words
  <2>2. u > 3 * h
    BY <1>2, <2>1, WordAssumption, SMT DEF Width, Half
  <2>3. c * h \in Nat /\ c * h <= 2 * h
    <3>1. c = 0 \/ c = 1 \/ c = 2
      OBVIOUS
    <3> QED
      BY <3>1
  <2>4. PICK k \in Nat, r \in 0 .. h - 1 : k = c * h /\ r = u % h
    BY <1>6, <2>3
  <2>5. u = k + r
    BY <1>6, <1>7, <2>4
  <2> QED
    BY <2>2, <2>3, <2>4, <2>5
<1>9. Channels(b) = c /\ Depth(b) = y % h
  BY <1>2, <1>3, <1>5, <1>7 DEF Channels, Depth
<1>10. c <= 2 => b[2] \in Nat /\ b[2] = c * h + (y % h)
  <2> SUFFICES ASSUME c <= 2 PROVE b[2] \in Nat /\ b[2] = c * h + (y % h)
    OBVIOUS
  <2> QED
    BY <1>3, <1>6, <1>7, <1>8, Zenon
<1> QED
  BY <1>1, <1>2, <1>4, <1>6, <1>9, <1>10 DEF Rate

LEMMA SamplesCounted ==
    ASSUME NEW b, HasHeader(b), NEW seconds \in Fractions
    PROVE  /\ SampleCount(b, seconds) \in Int
           /\ seconds \in Durations => SampleCount(b, seconds) \in Nat
<1>1. PICK n \in Int, d \in Nat \ {0} : seconds.n = n /\ seconds.d = d
  BY DEF Fractions
<1>2. PICK r \in Nat, c \in Nat : r = Rate(b) /\ c = Channels(b)
  BY HeaderFields
<1>3. \A x, y \in Nat : x * y \in Nat
  OBVIOUS
<1>4. \A x \in Int, y \in Nat : x * y \in Int
  OBVIOUS
<1>5. n * r * c \in Int /\ (n \in Nat => n * r * c \in Nat)
  BY <1>3, <1>4
<1>6. seconds \in Durations => n \in Nat
  BY <1>1 DEF Durations
<1>7. SampleCount(b, seconds) = Truncated(n * r * c, d)
  BY <1>1, <1>2 DEF SampleCount
<1> QED
  BY <1>5, <1>6, <1>7, TruncatedInt

(* Multiplication of every sample.                                            *)
LEMMA GainMade ==
    ASSUME NEW b, HasHeader(b), NEW gain \in Fractions
    PROVE  MadeOf(OpsGain(b, gain), b) /\ OpsGain(b, gain) # Null
<1>1. PICK n \in Nat : n = Len(b) - 2
  BY SamplesOf
<1>2. gain.n \in Int /\ gain.d \in Nat \ {0}
  BY DEF Fractions
<1>3. \A i \in 1 .. n : Int32(gain.n * At(b, i), gain.d) \in Words
  <2> TAKE i \in 1 .. n
  <2>1. At(b, i) \in Int
    <3>1. i \in Nat \ {0}
      OBVIOUS
    <3>2. At(b, i) \in Words
      BY <3>1, SampleWord
    <3> QED
      BY <3>2, Int32Word
  <2>2. gain.n * At(b, i) \in Int
    BY <1>2, <2>1
  <2> QED
    BY <1>2, <2>2, Int32Word
<1>4. [i \in 1 .. n |-> Int32(gain.n * At(b, i), gain.d)] \in Seq(Words)
  BY <1>3, WordList
<1> QED
  BY <1>1, <1>4, WithSamples DEF OpsGain

(* What is left behind a trim, if anything is, even if it reaches outside.     *)
LEMMA TrimMade ==
    ASSUME NEW b, HasHeader(b), NEW left \in Fractions, NEW right \in Fractions
    PROVE  OpsTrim(b, left, right) = Null \/ MadeOf(OpsTrim(b, left, right), b)
<1>1. PICK l \in Int, r \in Int : l = SampleCount(b, left) /\ r = SampleCount(b, right)
  BY SamplesCounted
<1>2. PICK s \in Seq(Words), n \in Nat : s = Samples(b) /\ n = Len(b) - 2 /\ Len(s) = n
  BY SamplesOf
<1> DEFINE word(i) == IF 2 + l + i \in DOMAIN b THEN b[2 + l + i] ELSE Junk
           t == [i \in 1 .. n - l - r |-> word(i)]
<1>3. CASE l + r >= n \/ l + r < 0
  BY <1>1, <1>2, <1>3 DEF OpsTrim
<1>4. CASE ~ (l + r >= n \/ l + r < 0) /\ Outside(l, r)
  <2>1. OpsTrim(b, left, right) = With(b, t)
    BY <1>1, <1>2, <1>4 DEF OpsTrim
  <2>2. \A i : word(i) \in Words
    BY WordAssumption DEF HasHeader, Sound, Words
  <2>3. PICK m \in Nat : m = n - l - r
    BY <1>4
  <2> HIDE DEF word
  <2>4. t \in Seq(Words)
    BY <2>2, <2>3, WordList
  <2> QED
    BY <2>1, <2>4, WithSamples
<1>5. CASE ~ (l + r >= n \/ l + r < 0) /\ ~ Outside(l, r)
  <2>1. SubSeq(s, l + 1, n - r) \in Seq(Words)
    BY <1>2, <1>5, SubSeqProperties DEF Outside
  <2>2. OpsTrim(b, left, right) = With(b, SubSeq(s, l + 1, n - r))
    BY <1>1, <1>2, <1>5 DEF OpsTrim
  <2> QED
    BY <2>1, <2>2, WithSamples
<1> QED
  BY <1>3, <1>4, <1>5

(* The gain of a fade is a fraction between 0 and 1.                          *)
LEMMA FadeFraction ==
    ASSUME NEW n \in Nat, NEW up \in 0 .. n, NEW down \in 0 .. n, NEW i \in 0 .. n - 1
    PROVE  LET g == FadeGain(n, up, down, i) IN
           /\ g.n \in Nat /\ g.d \in Nat \ {0} /\ g.n <= g.d
           /\ i = 0 /\ up > 0 => g.n = 0
<1> DEFINE u == IF i < up THEN [n |-> i, d |-> up] ELSE [n |-> 1, d |-> 1]
           v == IF i >= n - down THEN [n |-> down - (i - (n - down)), d |-> down]
                ELSE [n |-> 1, d |-> 1]
<1>1. u.n \in Nat /\ u.d \in Nat \ {0} /\ u.n <= u.d /\ (i = 0 /\ up > 0 => u.n = 0)
  OBVIOUS
<1>2. v.n \in Nat \ {0} /\ v.d \in Nat \ {0} /\ v.n <= v.d
  <2>1. CASE i >= n - down
    <3>1. v.n = n - i /\ v.d = down
      BY <2>1
    <3> QED
      BY <2>1, <3>1
  <2>2. CASE ~ (i >= n - down)
    BY <2>2
  <2> QED
    BY <2>1, <2>2
<1>3. FadeGain(n, up, down, i) = IF v.n * u.d < u.n * v.d THEN v ELSE u
  BY DEF FadeGain
<1> HIDE DEF u, v
<1>4. i = 0 /\ up > 0 => ~ (v.n * u.d < u.n * v.d)
  <2> SUFFICES ASSUME i = 0, up > 0 PROVE ~ (v.n * u.d < u.n * v.d)
    OBVIOUS
  <2>1. u.n * v.d = 0
    BY <1>1, <1>2
  <2>2. v.n * u.d \in Nat
    BY <1>1, <1>2
  <2> QED
    BY <2>1, <2>2
<1> QED
  BY <1>1, <1>2, <1>3, <1>4

LEMMA FadeMade ==
    ASSUME NEW b, HasHeader(b), NEW fadeIn \in Fractions, NEW fadeOut \in Fractions
    PROVE  /\ MadeOf(OpsFade(b, fadeIn, fadeOut), b) /\ OpsFade(b, fadeIn, fadeOut) # Null
           /\ Len(OpsFade(b, fadeIn, fadeOut)) = Len(b)
           /\ \A i \in 1 .. Len(b) - 2 : \E g \in Fractions :
                /\ OpsFade(b, fadeIn, fadeOut)[i + 2] = Int32(g.n * At(b, i), g.d)
                /\ g.n \in Nat /\ g.n <= g.d
                /\ i = 1 /\ SampleCount(b, fadeIn) > 0 => g.n = 0
<1>1. PICK l \in Int, r \in Int : l = SampleCount(b, fadeIn) /\ r = SampleCount(b, fadeOut)
  BY SamplesCounted
<1>2. PICK n \in Nat : n = Len(b) - 2
  BY SamplesOf
<1>3. PICK up \in 0 .. n, down \in 0 .. n : up = Capped(l, n) /\ down = Capped(r, n)
  <2>1. \A k \in Int : Capped(k, n) \in 0 .. n
    BY SMT DEF Capped
  <2> QED
    BY <1>1, <2>1
<1> DEFINE g(i) == FadeGain(n, up, down, i - 1)
           f == [i \in 1 .. n |-> Int32(g(i).n * At(b, i), g(i).d)]
<1>4. ASSUME NEW i \in 1 .. n
      PROVE  /\ g(i).n \in Nat /\ g(i).d \in Nat \ {0} /\ g(i).n <= g(i).d
             /\ i = 1 /\ l > 0 => g(i).n = 0
  <2>1. i - 1 \in 0 .. n - 1 /\ (i = 1 => i - 1 = 0) /\ (l > 0 => up > 0)
    BY <1>1, <1>3 DEF Capped
  <2>2. PICK j \in 0 .. n - 1 : j = i - 1
    BY <2>1
  <2>3. LET h == FadeGain(n, up, down, j) IN
           /\ h.n \in Nat /\ h.d \in Nat \ {0} /\ h.n <= h.d
           /\ j = 0 /\ up > 0 => h.n = 0
    BY FadeFraction
  <2> QED
    BY <2>1, <2>2, <2>3
<1>5. OpsFade(b, fadeIn, fadeOut) = With(b, f)
  BY <1>1, <1>2, <1>3 DEF OpsFade
<1> HIDE DEF g
<1>6. \A i \in 1 .. n : Int32(g(i).n * At(b, i), g(i).d) \in Words
  <2> TAKE i \in 1 .. n
  <2>1. At(b, i) \in Int
    <3>1. i \in Nat \ {0}
      OBVIOUS
    <3>2. At(b, i) \in Words
      BY <3>1, SampleWord
    <3> QED
      BY <3>2, Int32Word
  <2>2. g(i).n * At(b, i) \in Int /\ g(i).d \in Nat \ {0}
    BY <1>4, <2>1
  <2> QED
    BY <2>2, Int32Word
<1>7. f \in Seq(Words) /\ Len(f) = n
  BY <1>6, WordList
<1>8. /\ MadeOf(With(b, f), b) /\ Len(With(b, f)) = n + 2 /\ With(b, f) # Null
      /\ \A i \in 1 .. n : With(b, f)[i + 2] = f[i]
  <2> HIDE DEF f
  <2> QED
    BY <1>7, WithSamples
<1>9. ASSUME NEW i \in 1 .. n
      PROVE  \E h \in Fractions :
                /\ With(b, f)[i + 2] = Int32(h.n * At(b, i), h.d)
                /\ h.n \in Nat /\ h.n <= h.d
                /\ i = 1 /\ l > 0 => h.n = 0
  <2>1. PICK h : h = [n |-> g(i).n, d |-> g(i).d]
    OBVIOUS
  <2>2. h \in Fractions /\ h.n = g(i).n /\ h.d = g(i).d
    BY <1>4, <2>1 DEF Fractions
  <2>3. With(b, f)[i + 2] = Int32(g(i).n * At(b, i), g(i).d)
    BY <1>8
  <2> QED
    BY <1>4, <2>2, <2>3
<1>10. n + 2 = Len(b)
  BY <1>2, SamplesOf
<1> QED
  BY <1>1, <1>2, <1>5, <1>8, <1>9, <1>10

LEMMA PanMade ==
    ASSUME NEW b, HasHeader(b), NEW pan \in Fractions
    PROVE  OpsPan(b, pan) = Null \/ MadeOf(OpsPan(b, pan), b)
<1>1. PICK n \in Nat : n = Len(b) - 2
  BY SamplesOf
<1>2. PICK p \in Int, d \in Nat \ {0} : pan.n = p /\ pan.d = d
  BY DEF Fractions
<1> DEFINE word(i) == LET c == (i - 1) % Channels(b) IN
                        IF c = 0 THEN Int32(Smaller(d, d - p) * At(b, i), d)
                        ELSE IF c = 1 THEN Int32(Smaller(d, d + p) * At(b, i), d)
                        ELSE 0
<1>3. \A i \in 1 .. n : word(i) \in Words
  <2> TAKE i \in 1 .. n
  <2>1. At(b, i) \in Int
    <3>1. i \in Nat \ {0}
      OBVIOUS
    <3>2. At(b, i) \in Words
      BY <3>1, SampleWord
    <3> QED
      BY <3>2, Int32Word
  <2>2. Smaller(d, d - p) \in Int /\ Smaller(d, d + p) \in Int
    BY DEF Smaller
  <2>3. Smaller(d, d - p) * At(b, i) \in Int /\ Smaller(d, d + p) * At(b, i) \in Int
    BY <2>1, <2>2
  <2>4. /\ Int32(Smaller(d, d - p) * At(b, i), d) \in Words
        /\ Int32(Smaller(d, d + p) * At(b, i), d) \in Words /\ 0 \in Words
    BY <2>3, Int32Word
  <2> QED
    BY <2>4
<1>4. CASE Channels(b) < 2
  BY <1>4 DEF OpsPan
<1>5. CASE ~ (Channels(b) < 2)
  <2>1. OpsPan(b, pan) = With(b, [i \in 1 .. n |-> word(i)])
    BY <1>1, <1>2, <1>5 DEF OpsPan
  <2> HIDE DEF word
  <2>2. [i \in 1 .. n |-> word(i)] \in Seq(Words)
    BY <1>3, WordList
  <2> QED
    BY <2>1, <2>2, WithSamples
<1> QED
  BY <1>4, <1>5

LEMMA ClipMade ==
    ASSUME NEW b, HasHeader(b), NEW min \in Words, NEW max \in Words
    PROVE  OpsClip(b, min, max) = Null \/ MadeOf(OpsClip(b, min, max), b)
<1>1. PICK n \in Nat : n = Len(b) - 2
  BY SamplesOf
<1>2. \A i \in 1 .. n : Larger(min, Smaller(max, At(b, i))) \in Words
  <2> TAKE i \in 1 .. n
  <2>1. i \in Nat \ {0}
    OBVIOUS
  <2>2. At(b, i) \in Words
    BY <2>1, SampleWord
  <2> QED
    BY <2>2 DEF Larger, Smaller
<1>3. [i \in 1 .. n |-> Larger(min, Smaller(max, At(b, i)))] \in Seq(Words)
  BY <1>2, WordList
<1> QED
  BY <1>1, <1>3, WithSamples DEF OpsClip

(* Silence of a duration.                                                     *)
LEMMA Zeros ==
    ASSUME NEW n \in Nat
    PROVE  [i \in 1 .. n |-> 0] \in Seq(Words) /\ Len([i \in 1 .. n |-> 0]) = n
<1>1. [i \in 1 .. n |-> 0] \in [1 .. n -> Words]
  BY Int32Word
<1> QED
  BY <1>1, WordList

(* A pad by durations that are not negative keeps the header.                 *)
LEMMA PadMade ==
    ASSUME NEW b, HasHeader(b), NEW left \in Durations, NEW right \in Durations
    PROVE  /\ MadeOf(OpsPad(b, left, right), b) /\ OpsPad(b, left, right) # Null
           /\ ~ Strays(b, left, right)
<1>1. PICK l \in Nat, r \in Nat : l = SampleCount(b, left) /\ r = SampleCount(b, right)
  BY SamplesCounted DEF Durations, Fractions
<1>2. PICK u \in Seq(Words), v \in Seq(Words) : u = [i \in 1 .. l |-> 0] /\ v = [i \in 1 .. r |-> 0]
  BY Zeros
<1>3. PICK s \in Seq(Words) : s = Samples(b)
  BY SamplesOf
<1>4. u \o s \o v \in Seq(Words)
  BY ConcatProperties
<1>5. OpsPad(b, left, right) = With(b, u \o s \o v)
  BY <1>1, <1>2, <1>3 DEF OpsPad, Outside
<1>6. ~ Strays(b, left, right)
  BY <1>1 DEF Strays
<1> QED
  BY <1>4, <1>5, <1>6, WithSamples

(* Any other pad has no result or leaves words.                               *)
LEMMA PadWords ==
    ASSUME NEW b, HasHeader(b), NEW left \in Fractions, NEW right \in Fractions
    PROVE  OpsPad(b, left, right) = Null \/ HasHeader(OpsPad(b, left, right))
<1>1. PICK l \in Int, r \in Int : l = SampleCount(b, left) /\ r = SampleCount(b, right)
  BY SamplesCounted
<1>2. b \in Seq(Words) /\ Len(b) \in Nat /\ Len(b) >= 2 /\ \A i \in 1 .. Len(b) : b[i] \in Words
  BY DEF HasHeader, Sound
<1> DEFINE m == Len(b) + l + r
           word(j) == IF 2 < j - l /\ j - l <= Len(b) THEN b[j - l] ELSE IF j <= 2 THEN b[j] ELSE 0
<1>3. CASE ~ Outside(l, r)
  <2>1. PICK u \in Seq(Words), v \in Seq(Words) : u = [i \in 1 .. l |-> 0] /\ v = [i \in 1 .. r |-> 0]
    <3>1. l \in Nat /\ r \in Nat
      BY <1>1, <1>3, SMT DEF Outside
    <3> QED
      BY <3>1, Zeros, Zenon
  <2>2. PICK s \in Seq(Words) : s = Samples(b)
    BY SamplesOf
  <2>3. u \o s \o v \in Seq(Words)
    BY ConcatProperties
  <2>4. OpsPad(b, left, right) = With(b, u \o s \o v)
    BY <1>1, <1>3, <2>1, <2>2 DEF OpsPad
  <2> QED
    BY <2>3, <2>4, WithSamples DEF MadeOf
<1>4. CASE Outside(l, r) /\ m < 2
  BY <1>1, <1>4 DEF OpsPad
<1>5. CASE Outside(l, r) /\ ~ (m < 2)
  <2>1. OpsPad(b, left, right) = [j \in 1 .. m |-> word(j)]
    BY <1>1, <1>5 DEF OpsPad
  <2>2. ASSUME NEW j \in 1 .. m PROVE word(j) \in Words
    <3>1. CASE 2 < j - l /\ j - l <= Len(b)
      <4>1. j - l \in 1 .. Len(b)
        BY <1>2, <3>1
      <4> QED
        BY <1>2, <3>1, <4>1
    <3>2. CASE ~ (2 < j - l /\ j - l <= Len(b)) /\ j <= 2
      <4>1. j \in 1 .. Len(b)
        BY <1>2, <3>2
      <4> QED
        BY <1>2, <3>2, <4>1
    <3>3. CASE ~ (2 < j - l /\ j - l <= Len(b)) /\ ~ (j <= 2)
      BY <3>3, Int32Word
    <3> QED
      BY <3>1, <3>2, <3>3
  <2>3. PICK n \in Nat : n = m /\ n >= 2
    BY <1>2, <1>5
  <2> HIDE DEF word, m
  <2>4. [j \in 1 .. n |-> word(j)] \in Seq(Words) /\ Len([j \in 1 .. n |-> word(j)]) = n
    BY <2>2, <2>3, WordList
  <2> QED
    BY <2>1, <2>3, <2>4 DEF HasHeader, Sound
<1> QED
  BY <1>3, <1>4, <1>5

(* The channel that was asked for, behind a header for one channel.           *)
LEMMA Headers ==
    /\ \A c \in {0, 1, 2}, d \in 0 .. Half - 1 : c * Half + d \in Words \cap Nat
    /\ \A d \in 0 .. Half - 1 : d + Half \in Words \cap Nat
    /\ \A d \in 0 .. Half - 1 : (d + Half) \div Half = 1 /\ (d + Half) % Half = d
    /\ \A c \in {1, 2}, d \in {16, 24} : (c * Half + d) \div Half = c
<1>1. /\ \A c \in {0, 1, 2}, d \in 0 .. Half - 1 : c * Half + d \in Words \cap Nat
      /\ \A d \in 0 .. Half - 1 : d + Half \in Words \cap Nat
  <2>1. PICK h \in Nat \ {0} : h = Half /\ 3 * h <= HighInt
    BY HalfNat, WordAssumption DEF Half
  <2>2. \A k \in Nat : k < 3 * h => k \in Words \cap Nat
    BY <2>1, WordAssumption DEF Words
  <2>3. ASSUME NEW c \in {0, 1, 2}, NEW d \in 0 .. h - 1
        PROVE  c * h + d \in Nat /\ c * h + d < 3 * h
    <3>1. CASE c = 0
      BY <3>1
    <3>2. CASE c = 1
      BY <3>2
    <3>3. CASE c = 2
      BY <3>3
    <3> QED
      BY <3>1, <3>2, <3>3
  <2>4. \A d \in 0 .. h - 1 : d + h \in Nat /\ d + h < 3 * h
    OBVIOUS
  <2>5. \A c \in {0, 1, 2}, d \in 0 .. h - 1 : c * h + d \in Words \cap Nat
    BY <2>2, <2>3
  <2>6. \A d \in 0 .. h - 1 : d + h \in Words \cap Nat
    BY <2>2, <2>4
  <2> QED
    BY <2>1, <2>5, <2>6
<1>2. ASSUME NEW d \in 0 .. Half - 1 PROVE (d + Half) \div Half = 1
  BY SMT DEF Half
<1>3. ASSUME NEW d \in 0 .. Half - 1 PROVE (d + Half) % Half = d
  <2>1. PICK h \in Nat \ {0} : h = Half
    BY HalfNat
  <2>2. PICK y \in Int : y = d + h
    BY <2>1
  <2>3. y = (y \div h) * h + (y % h) /\ y % h \in 0 .. h - 1
    BY Divided
  <2>4. y \div h = 1
    BY <1>2, <2>1, <2>2
  <2>5. y = 1 * h + (y % h) /\ y % h \in Int
    BY <2>3, <2>4
  <2>6. y % h = d
    BY <2>1, <2>2, <2>5
  <2> QED
    BY <2>1, <2>2, <2>6
<1>4. \A c \in {1, 2}, d \in {16, 24} : (c * Half + d) \div Half = c
  BY SMT DEF Half
<1> QED
  BY <1>1, <1>2, <1>3, <1>4

LEMMA SplitMade ==
    ASSUME NEW b, HasHeader(b), Channels(b) = 2, NEW channel \in {0, 1}
    PROVE  LET r == OpsSplit(b, channel) IN
           /\ HasHeader(r) /\ r # Null /\ Rate(r) = Rate(b) /\ Depth(r) = Depth(b) /\ Channels(r) = 1
           /\ Len(r) = (Len(b) - 2) \div 2 + 2
           /\ \A f \in 1 .. (Len(b) - 2) \div 2 : r[f + 2] = At(b, (2 * f - 1) + channel)
<1>1. PICK n \in Nat : n = (Len(b) - 2) \div 2
  BY SamplesOf
<1>2. PICK x \in Words, d \in 0 .. Half - 1 : x = b[1] /\ d = Depth(b)
  BY HeaderFields
<1>3. PICK y \in Words \cap Nat : y = d + Half
  BY Headers
<1>4. y \div Half = 1 /\ y % Half = d
  BY <1>3, Headers
<1> DEFINE s == [f \in 1 .. n |-> At(b, 2 * f - 1 + channel)]
<1>5. \A f \in 1 .. n : At(b, 2 * f - 1 + channel) \in Words
  <2> TAKE f \in 1 .. n
  <2>1. 2 * f - 1 + channel \in Nat \ {0}
    OBVIOUS
  <2> QED
    BY <2>1, SampleWord
<1>6. s \in Seq(Words) /\ Len(s) = n
  BY <1>5, WordList
<1>7. PICK r : r = <<x, y>> \o s
  OBVIOUS
<1>8. OpsSplit(b, channel) = r
  BY <1>1, <1>2, <1>3, <1>7 DEF OpsSplit
<1>9. \A f \in 1 .. n : s[f] = At(b, (2 * f - 1) + channel)
  OBVIOUS
<1> HIDE DEF s
<1>10. /\ HasHeader(r) /\ Len(r) = n + 2 /\ r[1] = x /\ r[2] = y /\ r # Null
       /\ \A f \in 1 .. n : r[f + 2] = s[f]
  <2>1. PICK t \in Seq(Words) : t = s
    BY <1>6
  <2>2. IsFront(<<x, y>> \o t, x, y, t)
    <3>1. y \in Words
      OBVIOUS
    <3> QED
      BY <3>1, HeaderFront, Zenon
  <2>3. IsFront(r, x, y, s)
    BY <1>7, <2>1, <2>2, Zenon
  <2> QED
    BY <1>6, <2>3 DEF IsFront
<1>11. Rate(r) = Rate(b) /\ Depth(r) = d /\ Channels(r) = 1
  <2>1. Unsigned(y) = y
    BY <1>3 DEF Unsigned
  <2> QED
    BY <1>2, <1>4, <1>10, <2>1 DEF Rate, Depth, Channels
<1> QED
  BY <1>1, <1>2, <1>8, <1>9, <1>10, <1>11

-----------------------------------------------------------------------------
(* From stored bytes to words *)

LEMMA Wrapped == ASSUME NEW v \in Int PROVE Wrap32(v) \in Words /\ v % Width \in 0 .. Width - 1
<1>1. PICK h \in Nat \ {0} : h = Width /\ h = HighInt - LowInt + 1
  BY WordAssumption DEF Width
<1>2. PICK y \in Int : y = v - LowInt
  BY WordAssumption
<1>3. y % h \in 0 .. h - 1 /\ v % h \in 0 .. h - 1
  BY Divided
<1>4. Wrap32(v) = LowInt + (y % h)
  BY <1>1, <1>2 DEF Wrap32
<1>5. Wrap32(v) \in Words
  BY <1>1, <1>3, <1>4, WordAssumption DEF Words
<1> QED
  BY <1>1, <1>3, <1>5

LEMMA BytesOf ==
    ASSUME NEW v \in Int, NEW k \in 0 .. 2
    PROVE  ByteOf(v, k) \in 0 .. 255
<1>1. PICK p \in Nat \ {0} : ByteOf(v, k) = (v \div p) % 256
  BY DEF ByteOf
<1>2. v \div p \in Int
  BY Divided
<1>3. PICK q \in Int : q = v \div p
  BY <1>2
<1>4. q % 256 \in 0 .. 255
  OBVIOUS
<1> QED
  BY <1>1, <1>3, <1>4

LEMMA StreamBytes ==
    ASSUME NEW depth \in {16, 24}, NEW audio \in Seq(Int), NEW w \in {2, 3}, w = depth \div 8,
           NEW j \in 1 .. 8 + Len(audio) * w
    PROVE  PcmStream(depth, audio)[j] \in 0 .. 255
<1>1. PcmStream(depth, audio)[j] =
        IF j <= 8 THEN 0 ELSE ByteOf(audio[(j - 9) \div w + 1], (j - 9) % w)
  BY DEF PcmStream
<1>2. CASE j <= 8
  BY <1>1, <1>2
<1>3. CASE ~ (j <= 8)
  <2>1. PICK i \in Nat : i = j - 9 /\ i < Len(audio) * w
    BY <1>3
  <2>2. i \div w + 1 \in 1 .. Len(audio) /\ i % w \in 0 .. 2
    <3>1. CASE w = 2
      BY <2>1, <3>1
    <3>2. CASE w = 3
      BY <2>1, <3>2
    <3> QED
      BY <3>1, <3>2
  <2>3. PICK v \in Int, k \in 0 .. 2 : v = audio[i \div w + 1] /\ k = i % w
    BY <2>2
  <2>4. ByteOf(v, k) \in 0 .. 255
    BY BytesOf
  <2> QED
    BY <1>1, <1>3, <2>1, <2>3, <2>4
<1> QED
  BY <1>2, <1>3

LEMMA BytesAreWord ==
    ASSUME NEW bytes, Len(bytes) \in {2, 3}, \A k \in 1 .. Len(bytes) : bytes[k] \in 0 .. 255
    PROVE  OfBytes(bytes) \in Words
<1>1. PICK x \in 0 .. 255, y \in 0 .. 255 : x = bytes[1] /\ y = bytes[2]
  <2>1. 1 \in 1 .. Len(bytes) /\ 2 \in 1 .. Len(bytes)
    <3>1. PICK n \in {2, 3} : n = Len(bytes)
      OBVIOUS
    <3>2. 1 \in 1 .. n /\ 2 \in 1 .. n
      OBVIOUS
    <3> QED
      BY <3>1, <3>2
  <2>2. bytes[1] \in 0 .. 255 /\ bytes[2] \in 0 .. 255
    BY <2>1
  <2> QED
    BY <2>2
<1>2. CASE Len(bytes) = 2
  <2>1. OfBytes(bytes) = x + y * 256 - (IF y >= 128 THEN 65536 ELSE 0)
    BY <1>1, <1>2 DEF OfBytes
  <2>2. CASE y >= 128
    <3>1. OfBytes(bytes) = x + y * 256 - 65536
      BY <2>1, <2>2
    <3> QED
      BY <2>2, <3>1, WordAssumption DEF Words
  <2>3. CASE ~ (y >= 128)
    <3>1. OfBytes(bytes) = x + y * 256
      BY <2>1, <2>3
    <3> QED
      BY <2>3, <3>1, WordAssumption DEF Words
  <2> QED
    BY <2>2, <2>3
<1>3. CASE Len(bytes) = 3
  <2>1. PICK z \in 0 .. 255 : z = bytes[3]
    BY <1>3
  <2>2. OfBytes(bytes) = x + y * 256 + z * 65536 - (IF z >= 128 THEN 16777216 ELSE 0)
    BY <1>1, <1>3, <2>1 DEF OfBytes
  <2>3. CASE z >= 128
    <3>1. OfBytes(bytes) = x + y * 256 + z * 65536 - 16777216
      BY <2>2, <2>3
    <3> QED
      BY <2>3, <3>1, WordAssumption DEF Words
  <2>4. CASE ~ (z >= 128)
    <3>1. OfBytes(bytes) = x + y * 256 + z * 65536
      BY <2>2, <2>4
    <3> QED
      BY <2>4, <3>1, WordAssumption DEF Words
  <2> QED
    BY <2>3, <2>4
<1> QED
  BY <1>2, <1>3

(* A range has a header with the channels of the stream.                      *)
LEMMA RangeMade ==
    ASSUME NEW rate \in Nat, NEW channels \in {1, 2}, NEW depth \in {16, 24}, NEW audio \in Seq(Int)
    PROVE  LET r == RangeWords(rate, channels, depth, audio) IN
           HasHeader(r) /\ r # Null /\ Channels(r) = channels
<1>1. PICK w \in {2, 3} : w = depth \div 8
  OBVIOUS
<1>2. PICK s : s = PcmStream(depth, audio)
  OBVIOUS
<1>3. \A j \in 1 .. 8 + Len(audio) * w : s[j] \in 0 .. 255
  BY <1>1, <1>2, StreamBytes
<1>4. PICK n \in Nat : n = Len(audio)
  OBVIOUS
<1> DEFINE word(i) == IF i + 2 <= n THEN OfBytes(SubSeq(s, (i + 1) * w + 1, (i + 2) * w)) ELSE Junk
<1>5. \A i \in 1 .. n : word(i) \in Words
  <2> TAKE i \in 1 .. n
  <2>1. CASE i + 2 <= n
    <3>1. PICK a \in Int, e \in Int : /\ a = (i + 1) * w + 1 /\ e = (i + 2) * w
                                      /\ 1 <= a /\ e <= 8 + n * w /\ e - a + 1 = w /\ a <= e
      <4>1. CASE w = 2
        BY <2>1, <4>1
      <4>2. CASE w = 3
        BY <2>1, <4>2
      <4> QED
        BY <4>1, <4>2
    <3>2. \A j \in a .. e : s[j] \in 0 .. 255
      BY <1>3, <1>4, <3>1
    <3>3. PICK t : t = SubSeq(s, a, e)
      OBVIOUS
    <3>4. t \in Seq(0 .. 255) /\ Len(t) = w
      BY <3>1, <3>2, <3>3, SubSeqProperties
    <3>5. OfBytes(t) \in Words
      <4>1. \A k \in 1 .. Len(t) : t[k] \in 0 .. 255
        <5>1. PICK B : B = 0 .. 255
          OBVIOUS
        <5>2. t \in Seq(B)
          BY <3>4, <5>1
        <5>3. \A k \in 1 .. Len(t) : t[k] \in B
          BY <5>2
        <5> QED
          BY <5>1, <5>3
      <4>2. Len(t) \in {2, 3}
        BY <3>4
      <4> QED
        BY <4>1, <4>2, BytesAreWord
    <3> QED
      BY <2>1, <3>1, <3>3, <3>5
  <2>2. CASE ~ (i + 2 <= n)
    BY <2>2, WordAssumption DEF Words
  <2> QED
    BY <2>1, <2>2
<1>6. PICK h \in Words \cap Nat : h = channels * Half + depth /\ h \div Half = channels
  <2>1. channels \in {0, 1, 2} /\ depth \in 0 .. Half - 1
    BY HalfNat
  <2> QED
    BY <2>1, Headers
<1> DEFINE x == Wrap32(rate)
<1>7. RangeWords(rate, channels, depth, audio) = <<x, h>> \o [i \in 1 .. n |-> word(i)]
  BY <1>1, <1>2, <1>4, <1>6 DEF RangeWords
<1> HIDE DEF word
<1>8. PICK t \in Seq(Words) : t = [i \in 1 .. n |-> word(i)]
  BY <1>5, WordList
<1>13. x \in Words /\ h \in Words
  BY Wrapped
<1> HIDE DEF x
<1>9. IsFront(<<x, h>> \o t, x, h, t)
  BY <1>13, HeaderFront, Zenon
<1>10. PICK r : r = <<x, h>> \o t
  OBVIOUS
<1>11. HasHeader(r) /\ r[2] = h /\ r # Null
  <2>1. IsFront(r, x, h, t)
    BY <1>9, <1>10, Zenon
  <2> QED
    BY <2>1 DEF IsFront
<1>12. Channels(r) = channels
  <2>1. Unsigned(h) = h
    BY <1>6 DEF Unsigned
  <2> QED
    BY <1>6, <1>11, <2>1 DEF Channels
<1> QED
  BY <1>7, <1>8, <1>10, <1>11, <1>12, Zenon

(* What is stored for a stream is a sequence of samples.                      *)
LEMMA StoredAudio ==
    ASSUME NEW s, NEW start \in Fractions, NEW duration \in Fractions
    PROVE  RangeAudio(s, start, duration) \in Seq(Int)
<1> DEFINE from == (start.n * 1000) \div start.d
           to == from + (duration.n * 1000) \div duration.d
           held == IF s \in DOMAIN Blocks THEN Blocks[s] ELSE <<>>
           part(i) == IF from <= held[i].at /\ held[i].at <= to THEN held[i].samples ELSE <<>>
<1>1. held \in Seq([at : Int, samples : Seq(Int)])
  BY BlockAssumption
<1>2. \A i \in DOMAIN held : part(i) \in Seq(Int)
  <2> TAKE i \in DOMAIN held
  <2>1. PICK B : B = [at : Int, samples : Seq(Int)]
    OBVIOUS
  <2>2. PICK q \in Seq(B) : q = held
    BY <1>1, <2>1
  <2>3. i \in DOMAIN q
    BY <2>2
  <2>4. q[i] \in B
    <3> HIDE DEF held
    <3> QED
      BY <2>3
  <2>5. q[i].samples \in Seq(Int)
    BY <2>1, <2>4
  <2> QED
    BY <2>2, <2>5
<1>3. PICK n \in Nat : DOMAIN held = 1 .. n
  BY <1>1
<1>4. RangeAudio(s, start, duration) = FlattenSeq([i \in DOMAIN held |-> part(i)])
  BY DEF RangeAudio
<1> HIDE DEF held, part, from, to
<1>5. [i \in DOMAIN held |-> part(i)] \in [1 .. n -> Seq(Int)]
  BY <1>2, <1>3
<1>6. [i \in DOMAIN held |-> part(i)] \in Seq(Seq(Int))
  BY <1>5, Listed
<1> QED
  BY <1>4, <1>6, Flattened

(* Whole frames of a size, in bytes.                                          *)
LEMMA WholeFrames ==
    ASSUME NEW size \in Nat, NEW c \in Nat \ {0}, NEW w \in {2, 3}
    PROVE  /\ (size \div c) * c * w \in Nat /\ (size \div c) * c * w <= size * w
           /\ (size \div c) * c * w > (size - c) * w
<1>1. PICK q \in Nat, k \in 0 .. c - 1 : q = size \div c /\ size = q * c + k
  BY Divided
<1>2. PICK p \in Nat : p = q * c
  OBVIOUS
<1>3. p * w \in Nat /\ p * w <= size * w /\ p * w > (size - c) * w
  <2>1. CASE w = 2
    BY <1>1, <1>2, <2>1
  <2>2. CASE w = 3
    BY <1>1, <1>2, <2>2
  <2> QED
    BY <2>1, <2>2
<1> QED
  BY <1>1, <1>2, <1>3

-----------------------------------------------------------------------------
(* Commands on buffers *)

\* Streams as the program keeps them.
CtxOk(c) ==
    /\ c = [md |-> c.md, size |-> c.size, open |-> c.open]
    /\ \A s \in DOMAIN c.md : c.md[s] \in Metadatas

\* Buffers with a channel in the header: what RANGE makes.
FullHeader(b) == HasHeader(b) /\ Channels(b) >= 1

\* Results that leave the streams in order and a buffer between stages sound,
\* that leave it with a full header, and that do not end the process.
Leaves(rs, final) ==
    \A r \in rs : /\ CtxOk(r.ctx)
                  /\ ~ final /\ r.rc = "ok" /\ r.out[1].type = "s32v" => Sound(r.out[1].data)
LeavesFull(rs, final) ==
    \A r \in rs : ~ final /\ r.rc = "ok" /\ r.out[1].type = "s32v" => FullHeader(r.out[1].data)
Survives(rs) == \A r \in rs : ~ r.down

LEMMA ResultParts ==
    ASSUME NEW c, CtxOk(c), NEW final
    PROVE  /\ Leaves(Fail(c), final) /\ LeavesFull(Fail(c), final) /\ Survives(Fail(c))
           /\ Leaves(Down(c), final) /\ LeavesFull(Down(c), final)
<1>1. Leaves(Fail(c), final) /\ LeavesFull(Fail(c), final) /\ Survives(Fail(c))
  BY DEF Leaves, LeavesFull, Survives, Fail, Result
<1>2. Leaves(Down(c), final) /\ LeavesFull(Down(c), final)
  BY DEF Leaves, LeavesFull, Down
<1> QED
  BY <1>1, <1>2

LEMMA OkParts ==
    ASSUME NEW c, CtxOk(c), NEW final, NEW o
    PROVE  /\ Survives(Ok(c, o))
           /\ o.type # "s32v" => Leaves(Ok(c, o), final) /\ LeavesFull(Ok(c, o), final)
           /\ (~ final /\ o.type = "s32v" => Sound(o.data)) => Leaves(Ok(c, o), final)
           /\ (~ final /\ o.type = "s32v" => FullHeader(o.data)) => LeavesFull(Ok(c, o), final)
<1>1. Ok(c, o) = {[ctx |-> c, out |-> <<o>>, rc |-> "ok", down |-> FALSE]}
  BY DEF Ok, Result
<1>2. PICK r : r = [ctx |-> c, out |-> <<o>>, rc |-> "ok", down |-> FALSE]
  OBVIOUS
<1>3. r.ctx = c /\ r.out[1] = o /\ r.rc = "ok" /\ ~ r.down
  BY <1>2
<1> QED
  BY <1>1, <1>2, <1>3 DEF Leaves, LeavesFull, Survives

(* How a filter packs what its operation made.                                *)
LEMMA PackedParts ==
    ASSUME NEW c, CtxOk(c), NEW final, NEW b
    PROVE  /\ b = Null \/ HasHeader(b) => Leaves(Packed(c, b, final), final)
           /\ FullHeader(b) => LeavesFull(Packed(c, b, final), final)
           /\ b # Null => Survives(Packed(c, b, final))
<1>1. Null = <<>> /\ Sound(<<>>)
  BY DEF Null, Sound
<1> DEFINE o == S32v(IF final THEN Samples(b) ELSE b)
           e == S32v(<<>>)
<1>2. (~ final => o.data = b) /\ o.type = "s32v" /\ e.data = <<>> /\ e.type = "s32v"
  BY DEF S32v, Obj
<1> HIDE DEF o, e
<1>3. CASE b = Null
  <2>1. Packed(c, b, final) = Down(c) \cup Ok(c, e)
    BY <1>3 DEF Packed, e
  <2>2. Leaves(Down(c), final) /\ Leaves(Ok(c, e), final)
    BY <1>1, <1>2, ResultParts, OkParts
  <2>3. Leaves(Packed(c, b, final), final)
    BY <2>1, <2>2 DEF Leaves
  <2>4. ~ FullHeader(b)
    BY <1>1, <1>3 DEF FullHeader, HasHeader
  <2> QED
    BY <1>3, <2>3, <2>4
<1>4. CASE b # Null
  <2>1. Packed(c, b, final) = Ok(c, o)
    BY <1>4 DEF Packed, o
  <2>2. Survives(Ok(c, o)) /\ (HasHeader(b) => Leaves(Ok(c, o), final))
    BY <1>2, OkParts DEF HasHeader
  <2>3. FullHeader(b) => LeavesFull(Ok(c, o), final)
    BY <1>2, OkParts
  <2> QED
    BY <1>4, <2>1, <2>2, <2>3
<1> QED
  BY <1>3, <1>4

(* Arguments of the type that a command wants.                                *)
LEMMA TypedArgs ==
    ASSUME NEW t \in Tokens
    PROVE  /\ ArgType(t) = "float" => t.type = "float" /\ t.val \in Fractions
           /\ ArgType(t) \in {"pos", "neg"} => t.val \in Int
           /\ ArgType(t) = "pos" => t.val \in Nat
<1>1. /\ t.type \in TokenTypes /\ (t.type \in {"int", "time"} => t.val \in Int)
      /\ t.type = "float" => t.val \in Fractions
  BY ChunkAssumption DEF Fractions
<1>2. CASE t.type \in {"int", "time"}
  BY <1>1, <1>2 DEF ArgType
<1>3. CASE t.type \notin {"int", "time"}
  BY <1>1, <1>3 DEF ArgType, TokenTypes, ArgTokens
<1> QED
  BY <1>2, <1>3

(* A header is kept, and with it the channels.                                *)
LEMMA MadeFull == ASSUME NEW b, NEW r, MadeOf(r, b), FullHeader(b) PROVE FullHeader(r)
BY DEF MadeOf, FullHeader, Channels

(* The check of filters for a header.                                         *)
LEMMA SizedParts ==
    ASSUME NEW c, CtxOk(c), NEW final, NEW b, Sound(b), NEW rs
    PROVE  /\ (HasHeader(b) => Leaves(rs, final)) => Leaves(Sized(c, b, rs), final)
           /\ (HasHeader(b) => LeavesFull(rs, final)) => LeavesFull(Sized(c, b, rs), final)
           /\ (HasHeader(b) => Survives(rs)) => Survives(Sized(c, b, rs))
<1>1. Len(b) \in Nat
  BY DEF Sound
<1>2. CASE Len(b) < 2
  BY <1>2, ResultParts DEF Sized
<1>3. CASE ~ (Len(b) < 2)
  <2>1. HasHeader(b) /\ Sized(c, b, rs) = rs
    BY <1>1, <1>3 DEF HasHeader, Sized
  <2> QED
    BY <2>1
<1> QED
  BY <1>2, <1>3

LEMMA GainCommand ==
    ASSUME NEW c, CtxOk(c), NEW final, NEW b, Sound(b), NEW a, a[1].val \in Fractions
    PROVE  /\ Leaves(Gain(c, b, a, final), final) /\ Survives(Gain(c, b, a, final))
           /\ FullHeader(b) => LeavesFull(Gain(c, b, a, final), final)
<1>1. PICK r : r = OpsGain(b, a[1].val)
  OBVIOUS
<1>2. HasHeader(b) => MadeOf(r, b) /\ HasHeader(r) /\ r # Null
  BY <1>1, GainMade DEF MadeOf
<1>3. HasHeader(b) => Leaves(Packed(c, r, final), final) /\ Survives(Packed(c, r, final))
  BY <1>2, PackedParts
<1>4. FullHeader(b) => LeavesFull(Packed(c, r, final), final)
  BY <1>2, MadeFull, PackedParts DEF FullHeader
<1> QED
  BY <1>1, <1>3, <1>4, SizedParts DEF Gain

LEMMA FadeCommand ==
    ASSUME NEW c, CtxOk(c), NEW final, NEW b, Sound(b), NEW a, a[1].val \in Fractions,
           a[2].val \in Fractions
    PROVE  /\ Leaves(Fade(c, b, a, final), final) /\ Survives(Fade(c, b, a, final))
           /\ FullHeader(b) => LeavesFull(Fade(c, b, a, final), final)
<1>1. PICK r : r = OpsFade(b, a[1].val, a[2].val)
  OBVIOUS
<1>2. HasHeader(b) => MadeOf(r, b) /\ HasHeader(r) /\ r # Null
  BY <1>1, FadeMade DEF MadeOf
<1>3. HasHeader(b) => Leaves(Packed(c, r, final), final) /\ Survives(Packed(c, r, final))
  BY <1>2, PackedParts
<1>4. FullHeader(b) => LeavesFull(Packed(c, r, final), final)
  BY <1>2, MadeFull, PackedParts DEF FullHeader
<1> QED
  BY <1>1, <1>3, <1>4, SizedParts DEF Fade

LEMMA PadCommand ==
    ASSUME NEW c, CtxOk(c), NEW final, NEW b, Sound(b), NEW a, a[1].val \in Fractions,
           a[2].val \in Fractions
    PROVE  /\ Leaves(Pad(c, b, a, final), final)
           /\ a[1].val \in Durations /\ a[2].val \in Durations =>
                /\ Survives(Pad(c, b, a, final))
                /\ FullHeader(b) => LeavesFull(Pad(c, b, a, final), final)
<1>1. PICK r : r = OpsPad(b, a[1].val, a[2].val)
  OBVIOUS
<1>2. PICK rs : rs = Packed(c, r, final) \cup Stray(c, b, a)
  OBVIOUS
<1>3. HasHeader(b) => r = Null \/ HasHeader(r)
  BY <1>1, PadWords
<1>4. HasHeader(b) => Leaves(rs, final)
  <2>1. Leaves(Stray(c, b, a), final)
    BY ResultParts DEF Stray, Leaves
  <2>2. HasHeader(b) => Leaves(Packed(c, r, final), final)
    BY <1>3, PackedParts
  <2> QED
    BY <1>2, <2>1, <2>2 DEF Leaves
<1>5. CASE a[1].val \in Durations /\ a[2].val \in Durations
  <2>1. HasHeader(b) => MadeOf(r, b) /\ r # Null /\ ~ Strays(b, a[1].val, a[2].val)
    BY <1>1, <1>5, PadMade
  <2>2. HasHeader(b) => rs = Packed(c, r, final)
    BY <1>2, <2>1 DEF Stray
  <2>3. HasHeader(b) => Survives(rs)
    BY <2>1, <2>2, PackedParts
  <2>4. FullHeader(b) => LeavesFull(rs, final)
    BY <2>1, <2>2, MadeFull, PackedParts DEF FullHeader
  <2> QED
    BY <1>1, <1>2, <1>4, <2>3, <2>4, SizedParts DEF Pad, FullHeader
<1> QED
  BY <1>1, <1>2, <1>4, <1>5, SizedParts DEF Pad

LEMMA SplitCommand ==
    ASSUME NEW c, CtxOk(c), NEW final, NEW b, Sound(b), NEW a, a[1].val \in Nat
    PROVE  /\ Leaves(Split(c, b, a, final), final) /\ Survives(Split(c, b, a, final))
           /\ FullHeader(b) => LeavesFull(Split(c, b, a, final), final)
<1>1. PICK k \in Nat : k = a[1].val % Half
  <2>1. PICK h \in Nat \ {0}, y \in Int : h = Half /\ y = a[1].val
    BY HalfNat
  <2>2. y % h \in 0 .. h - 1
    BY Divided
  <2> QED
    BY <2>1, <2>2
<1>2. PICK rs : rs = IF Channels(b) # 2 \/ k > 1 THEN Fail(c) ELSE Packed(c, OpsSplit(b, k), final)
  OBVIOUS
<1>3. HasHeader(b) => Leaves(rs, final) /\ Survives(rs) /\ LeavesFull(rs, final)
  <2>1. CASE Channels(b) # 2 \/ k > 1
    BY <1>2, <2>1, ResultParts
  <2>2. CASE ~ (Channels(b) # 2 \/ k > 1)
    <3>1. k \in {0, 1} /\ Channels(b) = 2 /\ rs = Packed(c, OpsSplit(b, k), final)
      BY <1>2, <2>2
    <3>2. PICK r : r = OpsSplit(b, k)
      OBVIOUS
    <3>3. HasHeader(b) => HasHeader(r) /\ r # Null /\ Channels(r) = 1
      BY <3>1, <3>2, SplitMade
    <3>4. HasHeader(b) => FullHeader(r)
      BY <3>3 DEF FullHeader
    <3> QED
      BY <3>1, <3>2, <3>3, <3>4, PackedParts
  <2> QED
    BY <2>1, <2>2
<1>4. Split(c, b, a, final) = Sized(c, b, rs)
  BY <1>1, <1>2 DEF Split
<1> QED
  BY <1>3, <1>4, SizedParts

LEMMA TrimCommand ==
    ASSUME NEW c, CtxOk(c), NEW final, NEW b, Sound(b), NEW a, a[1].val \in Fractions,
           a[2].val \in Fractions
    PROVE  Leaves(Trim(c, b, a, final), final)
<1>1. PICK r : r = OpsTrim(b, a[1].val, a[2].val)
  OBVIOUS
<1>2. PICK rs : rs = Packed(c, r, final) \cup Stray(c, b, a)
  OBVIOUS
<1>3. HasHeader(b) => r = Null \/ HasHeader(r)
  BY <1>1, TrimMade DEF MadeOf
<1>4. HasHeader(b) => Leaves(rs, final)
  <2>1. Leaves(Stray(c, b, a), final)
    BY ResultParts DEF Stray, Leaves
  <2>2. HasHeader(b) => Leaves(Packed(c, r, final), final)
    BY <1>3, PackedParts
  <2> QED
    BY <1>2, <2>1, <2>2 DEF Leaves
<1> QED
  BY <1>1, <1>2, <1>4, SizedParts DEF Trim

LEMMA PanCommand ==
    ASSUME NEW c, CtxOk(c), NEW final, NEW b, Sound(b), NEW a, a[1].val \in Fractions
    PROVE  Leaves(Pan(c, b, a, final), final)
<1>1. PICK r : r = OpsPan(b, a[1].val)
  OBVIOUS
<1>2. HasHeader(b) => r = Null \/ HasHeader(r)
  BY <1>1, PanMade DEF MadeOf
<1> QED
  BY <1>1, <1>2, PackedParts, SizedParts, ResultParts DEF Pan

LEMMA ClipCommand ==
    ASSUME NEW c, CtxOk(c), NEW final, NEW b, Sound(b), NEW a, a[1].val \in Int, a[2].val \in Int
    PROVE  Leaves(Clip(c, b, a, final), final)
<1>1. PICK x \in Words, y \in Words : x = Wrap32(a[1].val) /\ y = Wrap32(a[2].val)
  BY Wrapped
<1>2. PICK r : r = OpsClip(b, x, y)
  OBVIOUS
<1>3. HasHeader(b) => r = Null \/ HasHeader(r)
  BY <1>2, ClipMade DEF MadeOf
<1> QED
  BY <1>1, <1>2, <1>3, PackedParts, SizedParts DEF Clip

LEMMA EncodeCommand ==
    ASSUME NEW c, CtxOk(c), NEW final, NEW b, NEW a
    PROVE  /\ Leaves(Encode(c, b, a), final) /\ LeavesFull(Encode(c, b, a), final)
           /\ FullHeader(b) /\ a[1].val \notin Compressed => Survives(Encode(c, b, a))
<1> DEFINE rs(n) == IF n = Fatal THEN Down(c) ELSE IF n = 0 THEN Fail(c) ELSE Ok(c, Obj("u8v", <<n>>))
           all == UNION {rs(n) : n \in EncodePcm(b, a[1].val)}
<1>1. \A n : /\ Leaves(rs(n), final) /\ LeavesFull(rs(n), final)
             /\ n # Fatal => Survives(rs(n))
  <2> TAKE n
  <2>1. Obj("u8v", <<n>>).type # "s32v"
    BY DEF Obj
  <2>2. PICK o : o = Obj("u8v", <<n>>)
    OBVIOUS
  <2> QED
    BY <2>1, <2>2, ResultParts, OkParts
<1>2. Encode(c, b, a) = IF Len(b) < 2 THEN Down(c) \cup Fail(c) ELSE IF Len(b) = 2 THEN Fail(c)
                        ELSE IF Channels(b) = 0 THEN Down(c) ELSE all
  BY DEF Encode
<1> HIDE DEF rs
<1>3. Leaves(all, final) /\ LeavesFull(all, final)
  <2>1. \A r \in all : \E n : r \in rs(n)
    OBVIOUS
  <2> QED
    BY <1>1, <2>1 DEF Leaves, LeavesFull
<1>4. Leaves(Down(c) \cup Fail(c), final) /\ LeavesFull(Down(c) \cup Fail(c), final)
  BY ResultParts DEF Leaves, LeavesFull
<1>5. FullHeader(b) => ~ (Len(b) < 2) /\ Channels(b) # 0
  <2> SUFFICES ASSUME FullHeader(b) PROVE ~ (Len(b) < 2) /\ Channels(b) # 0
    OBVIOUS
  <2>1. Len(b) \in Nat /\ Len(b) >= 2 /\ Channels(b) \in Nat /\ Channels(b) >= 1
    BY HeaderFields DEF FullHeader, HasHeader, Sound
  <2> QED
    BY <2>1
<1>6. FullHeader(b) /\ a[1].val \notin Compressed => Survives(all)
  <2> SUFFICES ASSUME FullHeader(b), a[1].val \notin Compressed PROVE Survives(all)
    OBVIOUS
  <2>1. Fatal \notin EncodePcm(b, a[1].val)
    <3>1. PICK size \in Nat : size = Len(b) - 2
      BY SamplesOf DEF FullHeader
    <3>2. PICK k \in Nat \ {0} : k = Channels(b)
      BY HeaderFields DEF FullHeader
    <3>3. Depth(b) \in {16, 24} => WavBytes(k, Depth(b), size) # Fatal
      <4> SUFFICES ASSUME Depth(b) \in {16, 24} PROVE WavBytes(k, Depth(b), size) # Fatal
        OBVIOUS
      <4>1. PICK w \in {2, 3} : w = Depth(b) \div 8
        OBVIOUS
      <4>2. (size \div k) * k * w \in Nat
        BY WholeFrames
      <4>3. PICK f \in Nat : f = (size \div k) * k * w
        BY <4>2
      <4>4. WavBytes(k, Depth(b), size) = 44 + f
        BY <4>1, <4>3 DEF WavBytes
      <4> QED
        BY <4>4 DEF Fatal
    <3>4. Fatal # 0
      BY DEF Fatal
    <3>5. EncodePcm(b, a[1].val) = IF a[1].val = "audio/wav" /\ Depth(b) \in {16, 24}
                                   THEN {WavBytes(k, Depth(b), size)} ELSE {0}
      BY <3>1, <3>2 DEF EncodePcm, Compressed
    <3> QED
      BY <3>3, <3>4, <3>5
  <2>2. \A r \in all : \E n \in EncodePcm(b, a[1].val) : r \in rs(n)
    OBVIOUS
  <2>3. \A n \in EncodePcm(b, a[1].val) : Survives(rs(n))
    BY <1>1, <2>1
  <2> QED
    BY <2>2, <2>3 DEF Survives
<1> HIDE DEF all
<1> QED
  BY <1>2, <1>3, <1>4, <1>5, <1>6, ResultParts

(* The other commands: the streams stay in order, and RANGE begins a pipe     *)
(* with a full header.                                                        *)
LEMMA PlainCommands ==
    ASSUME NEW c, CtxOk(c), NEW final, NEW a
    PROVE  /\ Leaves(Ping(c), final) /\ LeavesFull(Ping(c), final) /\ Survives(Ping(c))
           /\ Leaves(StreamList(c, a), final) /\ LeavesFull(StreamList(c, a), final)
           /\ Survives(StreamList(c, a))
           /\ Leaves(Metadata(c, a), final) /\ LeavesFull(Metadata(c, a), final)
           /\ Survives(Metadata(c, a))
<1>1. \A t, d : t # "s32v" => /\ Leaves(Ok(c, Obj(t, d)), final)
                              /\ LeavesFull(Ok(c, Obj(t, d)), final)
                              /\ Survives(Ok(c, Obj(t, d)))
  <2> TAKE t, d
  <2>1. PICK o : o = Obj(t, d)
    OBVIOUS
  <2>2. o.type = t
    BY <2>1 DEF Obj
  <2> QED
    BY <2>1, <2>2, OkParts
<1>2. Leaves(Ping(c), final) /\ LeavesFull(Ping(c), final) /\ Survives(Ping(c))
  BY <1>1 DEF Ping
<1>3. Leaves(StreamList(c, a), final) /\ LeavesFull(StreamList(c, a), final)
        /\ Survives(StreamList(c, a))
  BY <1>1 DEF StreamList
<1>4. Leaves(Metadata(c, a), final) /\ LeavesFull(Metadata(c, a), final)
        /\ Survives(Metadata(c, a))
  BY <1>1, ResultParts DEF Metadata
<1> QED
  BY <1>2, <1>3, <1>4

LEMMA NullParts ==
    ASSUME NEW c, CtxOk(c), NEW final
    PROVE  Leaves(Ok(c, NullObj), final) /\ LeavesFull(Ok(c, NullObj), final)
             /\ Survives(Ok(c, NullObj))
<1>1. PICK o : o = NullObj
  OBVIOUS
<1>2. o.type # "s32v"
  BY <1>1 DEF NullObj, Obj
<1> QED
  BY <1>1, <1>2, OkParts

LEMMA OpenCommands ==
    ASSUME NEW c, CtxOk(c), NEW final, NEW a
    PROVE  /\ Leaves(StreamOpen(c, a), final) /\ LeavesFull(StreamOpen(c, a), final)
           /\ Survives(StreamOpen(c, a))
           /\ Leaves(StreamClose(c, a), final) /\ LeavesFull(StreamClose(c, a), final)
           /\ Survives(StreamClose(c, a))
<1>1. \A w : CtxOk([c EXCEPT !.open = w])
  <2> TAKE w
  <2>1. c = [md |-> c.md, size |-> c.size, open |-> c.open]
    BY DEF CtxOk
  <2>2. [c EXCEPT !.open = w] = [md |-> c.md, size |-> c.size, open |-> w]
    BY <2>1
  <2> QED
    BY <2>2 DEF CtxOk
<1>2. \A w : /\ Leaves(Ok([c EXCEPT !.open = w], NullObj), final)
             /\ LeavesFull(Ok([c EXCEPT !.open = w], NullObj), final)
             /\ Survives(Ok([c EXCEPT !.open = w], NullObj))
  BY <1>1, NullParts
<1>3. Leaves(StreamOpen(c, a), final) /\ LeavesFull(StreamOpen(c, a), final)
        /\ Survives(StreamOpen(c, a))
  BY <1>2, ResultParts DEF StreamOpen
<1>4. Leaves(StreamClose(c, a), final) /\ LeavesFull(StreamClose(c, a), final)
        /\ Survives(StreamClose(c, a))
  BY <1>2, ResultParts DEF StreamClose
<1> QED
  BY <1>3, <1>4

LEMMA CreateCommand ==
    ASSUME NEW c, CtxOk(c), NEW final, NEW a, a[2].val \in Nat
    PROVE  /\ Leaves(StreamCreate(c, a), final) /\ LeavesFull(StreamCreate(c, a), final)
           /\ Survives(StreamCreate(c, a))
<1> DEFINE s == a[1].val
           channels == a[3].val % Half
           depth == a[4].val % Half
           m == [sample_rate |-> a[2].val % Width, channels |-> channels, bit_depth |-> depth, ref |-> 1]
           files == [t \in DOMAIN c.md \cup {s} |-> IF t = s THEN m ELSE c.md[t]]
           d == [c EXCEPT !.md = files]
<1>1. CASE depth \notin {16, 24} \/ channels \notin {1, 2} \/ Exists(c, s)
  BY <1>1, ResultParts DEF StreamCreate
<1>2. CASE ~ (depth \notin {16, 24} \/ channels \notin {1, 2} \/ Exists(c, s))
  <2>1. StreamCreate(c, a) = Ok(d, NullObj)
    BY <1>2 DEF StreamCreate
  <2>2. m \in Metadatas
    <3>1. /\ depth \in {16, 24} /\ channels \in {1, 2}
          /\ a[2].val % Width \in 0 .. Width - 1
      BY <1>2, Wrapped
    <3> HIDE DEF depth, channels
    <3> QED
      BY <3>1 DEF Metadatas
  <2>3. \A t \in DOMAIN files : files[t] \in Metadatas
    BY <2>2 DEF CtxOk
  <2>4. c = [md |-> c.md, size |-> c.size, open |-> c.open]
    BY DEF CtxOk
  <2> HIDE DEF files
  <2>5. d = [md |-> files, size |-> c.size, open |-> c.open]
    BY <2>4
  <2> HIDE DEF d
  <2>6. CtxOk(d)
    BY <2>3, <2>5 DEF CtxOk
  <2> QED
    BY <2>1, <2>6, NullParts
<1> QED
  BY <1>1, <1>2

LEMMA RangeCommand ==
    ASSUME NEW c, CtxOk(c), NEW final, NEW a, a[2].val \in Fractions, a[3].val \in Fractions
    PROVE  /\ Leaves(RangeOf(c, a, final), final) /\ LeavesFull(RangeOf(c, a, final), final)
           /\ Survives(RangeOf(c, a, final))
<1> DEFINE s == a[1].val
<1>1. CASE ~ Exists(c, s)
  BY <1>1, ResultParts DEF RangeOf
<1>2. CASE Exists(c, s)
  <2>1. PICK m \in Metadatas : m = c.md[s]
    BY <1>2 DEF CtxOk, Exists
  <2>2. /\ m.sample_rate \in Nat /\ m.channels \in {1, 2} /\ m.bit_depth \in {16, 24}
    BY WordAssumption DEF Metadatas, Width
  <2>3. PICK audio \in Seq(Int) : audio = RangeAudio(s, a[2].val, a[3].val)
    BY StoredAudio
  <2>4. PICK r : r = RangeWords(m.sample_rate, m.channels, m.bit_depth, audio)
    OBVIOUS
  <2>5. HasHeader(r) /\ r # Null /\ Channels(r) = m.channels
    BY <2>2, <2>4, RangeMade
  <2>6. FullHeader(r)
    BY <2>2, <2>5 DEF FullHeader
  <2>7. RangeBuffers(c, s, a[2].val, a[3].val) = {r}
    BY <2>1, <2>2, <2>3, <2>4 DEF RangeBuffers
  <2>8. RangeOf(c, a, final) = Packed(c, r, final)
    BY <1>2, <2>7 DEF RangeOf
  <2> QED
    BY <2>5, <2>6, <2>8, PackedParts
<1> QED
  BY <1>1, <1>2

LEMMA EvalCommand ==
    ASSUME NEW c, CtxOk(c), NEW final, NEW a,
           ~ final => \A o \in ScmReply(c, a[1].val, final) : o.type = "s32v" => Sound(o.data)
    PROVE  Leaves(Eval(c, a, final), final)
<1> DEFINE rs(o) == CASE o.type = "s32null" -> Down(c)
                      [] o.type = "error" -> Fail(c)
                      [] OTHER -> Ok(c, o)
<1>1. ASSUME NEW o \in ScmReply(c, a[1].val, final) PROVE Leaves(rs(o), final)
  <2>1. Leaves(Down(c), final) /\ Leaves(Fail(c), final)
    BY ResultParts
  <2>2. Leaves(Ok(c, o), final)
    BY OkParts
  <2> QED
    BY <2>1, <2>2
<1>2. Eval(c, a, final) = UNION {rs(o) : o \in ScmReply(c, a[1].val, final)}
  BY DEF Eval
<1> HIDE DEF rs
<1>3. \A r \in Eval(c, a, final) : \E o \in ScmReply(c, a[1].val, final) : r \in rs(o)
  BY <1>2
<1> QED
  BY <1>1, <1>3 DEF Leaves

-----------------------------------------------------------------------------
(* Audio on its way through a request *)

\* The restriction of the audio model: an expression whose value is a vector has
\* made it of 32-bit words, as every s32vector is.
ProperAudio ==
    \A k \in DOMAIN cmds : \A i \in DOMAIN cmds[k].args :
        LET t == cmds[k].args[i] IN
        cmds[k].name = "EVAL" /\ t.type = "str" =>
          \A o \in ScmReply(ctx, t.val, FALSE) : o.type = "s32v" => Sound(o.data)

\* What a command finds in the output buffer.
Piped ==
    phase = "exec" /\ out # <<>> /\ Head(out).type = "s32v" =>
        /\ Sound(out[1].data)
        /\ (\A k \in DOMAIN Called : ~ MayLose(Called[k])) => FullHeader(out[1].data)

\* Commands leave one object.
OneObject == phase = "exec" => out = <<>> \/ out = <<out[1]>>

AudioInv == CtxOk(ctx) /\ OneObject /\ Piped /\ DownCause

(* One call: the streams and the buffer for the next stage stay in order; a   *)
(* header with a channel is lost only by the commands of MayLose; and only    *)
(* those, SHUTDOWN and an ENCODE without such a header or in a compressed     *)
(* format end the process.                                                    *)
LEMMA CommandSound ==
    ASSUME NEW c, CtxOk(c), NEW final \in BOOLEAN, NEW name \in DOMAIN ArgTypes,
           NEW a \in Seq(Tokens), NEW o, NEW full, NEW q, name = q.name, a = q.args,
           full = (o # <<>> /\ Head(o).type = "s32v" => FullHeader(o[1].data)),
           o # <<>> /\ Head(o).type = "s32v" => Sound(o[1].data),
           \A i \in DOMAIN a :
             name = "EVAL" /\ a[i].type = "str" =>
               \A x \in ScmReply(c, a[i].val, FALSE) : x.type = "s32v" => Sound(x.data)
    PROVE  LET rs == Command(name, c, a, o, final) IN
           /\ Leaves(rs, final)
           /\ ~ MayLose(q) /\ full => LeavesFull(rs, final)
           /\ name # "SHUTDOWN" /\ ~ MayLose(q)
                /\ (name = "ENCODE" => full /\ a[1].val \notin Compressed) => Survives(rs)
<1> DEFINE want == ArgTypes[name]
           b == o[1].data
           rs == Command(name, c, a, o, final)
<1>1. DOMAIN ArgTypes = {"PING", "SHUTDOWN", "CREATE", "LIST", "OPEN", "CLOSE", "META", "EVAL",
                         "RANGE", "ENCODE", "GAIN", "TRIM", "FADE", "PAN", "PAD", "CLIP", "SPLIT"}
  BY DEF ArgTypes
<1>2. CASE name = "SHUTDOWN"
  <2>1. rs = Down(c)
    BY <1>2 DEF Command
  <2> QED
    BY <1>2, <2>1, ResultParts
<1>3. CASE name # "SHUTDOWN" /\ Len(a) # Len(want)
  <2>1. rs = BadArity(name, c, o)
    BY <1>3 DEF Command
  <2>2. Leaves(rs, final) /\ LeavesFull(rs, final) /\ Survives(rs)
    BY <2>1 DEF BadArity, Result, Leaves, LeavesFull, Survives
  <2> QED
    BY <2>2
<1>4. CASE name # "SHUTDOWN" /\ Len(a) = Len(want) /\ \E i \in DOMAIN want : ArgType(a[i]) # want[i]
  <2>1. rs = Fail(c)
    BY <1>4 DEF Command
  <2> QED
    BY <2>1, ResultParts
<1>5. CASE /\ name # "SHUTDOWN" /\ Len(a) = Len(want)
           /\ ~ \E i \in DOMAIN want : ArgType(a[i]) # want[i]
           /\ name \in Filters /\ (o = <<>> \/ Head(o).type # "s32v")
  <2>1. rs = Fail(c)
    BY <1>5 DEF Command
  <2> QED
    BY <2>1, ResultParts
<1>6. CASE /\ name # "SHUTDOWN" /\ Len(a) = Len(want)
           /\ ~ \E i \in DOMAIN want : ArgType(a[i]) # want[i]
           /\ ~ (name \in Filters /\ (o = <<>> \/ Head(o).type # "s32v"))
  <2>1. \A i \in DOMAIN want : ArgType(a[i]) = want[i]
    BY <1>6
  <2>2. name \in Filters => Sound(b) /\ (full => FullHeader(b))
    BY <1>6
  <2>3. ASSUME NEW i \in DOMAIN a
        PROVE  /\ ArgType(a[i]) = "float" => a[i].val \in Fractions
               /\ ArgType(a[i]) = "float" /\ name = "PAD" /\ ~ MayLose(q) => a[i].val \in Durations
               /\ ArgType(a[i]) \in {"pos", "neg"} => a[i].val \in Int
               /\ ArgType(a[i]) = "pos" => a[i].val \in Nat
    <3>1. PICK t \in Tokens : t = a[i]
      OBVIOUS
    <3>2. /\ ArgType(t) = "float" => t.type = "float" /\ t.val \in Fractions
          /\ ArgType(t) \in {"pos", "neg"} => t.val \in Int
          /\ ArgType(t) = "pos" => t.val \in Nat
      BY TypedArgs
    <3>3. t.val \in Fractions /\ ~ (t.val.n < 0) => t.val \in Durations
      BY DEF Fractions, Durations
    <3>4. name = "PAD" /\ ~ MayLose(q) /\ t.type = "float" => ~ (t.val.n < 0)
      BY <3>1 DEF MayLose
    <3> QED
      BY <3>1, <3>2, <3>3, <3>4
  <2>4. DOMAIN a = 1 .. Len(a)
    OBVIOUS
  <2> HIDE DEF want
  <2>5. CASE name = "PING"
    BY <1>6, <2>5, PlainCommands DEF Command, want
  <2>6. CASE name = "CREATE"
    <3>1. want = <<"str", "pos", "pos", "pos">>
      BY <2>6 DEF want, ArgTypes
    <3>2. a[2].val \in Nat
      BY <1>6, <2>1, <2>3, <2>4, <3>1
    <3> QED
      BY <1>6, <2>6, <3>2, CreateCommand DEF Command, want
  <2>7. CASE name = "LIST"
    BY <1>6, <2>7, PlainCommands DEF Command, want, Filters
  <2>8. CASE name = "OPEN"
    BY <1>6, <2>8, OpenCommands DEF Command, want, Filters
  <2>9. CASE name = "CLOSE"
    BY <1>6, <2>9, OpenCommands DEF Command, want, Filters
  <2>10. CASE name = "META"
    BY <1>6, <2>10, PlainCommands DEF Command, want, Filters
  <2>11. CASE name = "EVAL"
    <3>1. want = <<"str">>
      BY <2>11 DEF want, ArgTypes
    <3>2. 1 \in DOMAIN a /\ ArgType(a[1]) = "str"
      BY <1>6, <2>1, <2>4, <3>1
    <3>3. a[1].type = "str"
      BY <3>2 DEF ArgType
    <3>4. \A x \in ScmReply(c, a[1].val, FALSE) : x.type = "s32v" => Sound(x.data)
      BY <2>11, <3>2, <3>3
    <3>5. ~ final => final = FALSE
      OBVIOUS
    <3>6. Leaves(Eval(c, a, final), final)
      BY <3>4, <3>5, EvalCommand
    <3>7. rs = Eval(c, a, final)
      BY <1>6, <2>11 DEF Command, want
    <3> QED
      BY <2>11, <3>6, <3>7 DEF MayLose
  <2>12. CASE name = "RANGE"
    <3>1. want = <<"str", "float", "float">>
      BY <2>12 DEF want, ArgTypes
    <3>2. a[2].val \in Fractions /\ a[3].val \in Fractions
      BY <1>6, <2>1, <2>3, <2>4, <3>1
    <3> QED
      BY <1>6, <2>12, <3>2, RangeCommand DEF Command, want
  <2>13. CASE name = "ENCODE"
    <3>1. rs = Encode(c, b, a) /\ name \in Filters
      BY <1>6, <2>13 DEF Command, want, Filters
    <3> QED
      BY <2>2, <3>1, <2>13, EncodeCommand
  <2>14. CASE name = "GAIN"
    <3>1. want = <<"float">> /\ name \in Filters
      BY <2>14 DEF want, ArgTypes, Filters
    <3>2. a[1].val \in Fractions
      BY <1>6, <2>1, <2>3, <2>4, <3>1
    <3>3. rs = Gain(c, b, a, final)
      BY <1>6, <2>14 DEF Command, want
    <3> QED
      BY <2>2, <3>1, <3>2, <3>3, GainCommand
  <2>15. CASE name = "TRIM"
    <3>1. want = <<"float", "float">> /\ name \in Filters
      BY <2>15 DEF want, ArgTypes, Filters
    <3>2. a[1].val \in Fractions /\ a[2].val \in Fractions
      BY <1>6, <2>1, <2>3, <2>4, <3>1
    <3>3. rs = Trim(c, b, a, final)
      BY <1>6, <2>15 DEF Command, want
    <3> QED
      BY <2>2, <2>15, <3>1, <3>2, <3>3, TrimCommand DEF MayLose
  <2>16. CASE name = "FADE"
    <3>1. want = <<"float", "float">> /\ name \in Filters
      BY <2>16 DEF want, ArgTypes, Filters
    <3>2. a[1].val \in Fractions /\ a[2].val \in Fractions
      BY <1>6, <2>1, <2>3, <2>4, <3>1
    <3>3. rs = Fade(c, b, a, final)
      BY <1>6, <2>16 DEF Command, want
    <3> QED
      BY <2>2, <3>1, <3>2, <3>3, FadeCommand
  <2>17. CASE name = "PAN"
    <3>1. want = <<"float">> /\ name \in Filters
      BY <2>17 DEF want, ArgTypes, Filters
    <3>2. a[1].val \in Fractions
      BY <1>6, <2>1, <2>3, <2>4, <3>1
    <3>3. rs = Pan(c, b, a, final)
      BY <1>6, <2>17 DEF Command, want
    <3> QED
      BY <2>2, <2>17, <3>1, <3>2, <3>3, PanCommand DEF MayLose
  <2>18. CASE name = "PAD"
    <3>1. want = <<"float", "float">> /\ name \in Filters
      BY <2>18 DEF want, ArgTypes, Filters
    <3>2. /\ a[1].val \in Fractions /\ a[2].val \in Fractions
          /\ ~ MayLose(q) => a[1].val \in Durations /\ a[2].val \in Durations
      BY <1>6, <2>1, <2>3, <2>4, <2>18, <3>1
    <3>3. rs = Pad(c, b, a, final)
      BY <1>6, <2>18 DEF Command, want
    <3> QED
      BY <2>2, <3>1, <3>2, <3>3, PadCommand
  <2>19. CASE name = "CLIP"
    <3>1. want = <<"neg", "pos">> /\ name \in Filters
      BY <2>19 DEF want, ArgTypes, Filters
    <3>2. a[1].val \in Int /\ a[2].val \in Int
      BY <1>6, <2>1, <2>3, <2>4, <3>1
    <3>3. rs = Clip(c, b, a, final)
      BY <1>6, <2>19 DEF Command, want
    <3> QED
      BY <2>2, <2>19, <3>1, <3>2, <3>3, ClipCommand DEF MayLose
  <2>20. CASE name = "SPLIT"
    <3>1. want = <<"pos">> /\ name \in Filters
      BY <2>20 DEF want, ArgTypes, Filters
    <3>2. a[1].val \in Nat
      BY <1>6, <2>1, <2>3, <2>4, <3>1
    <3>3. rs = Split(c, b, a, final)
      BY <1>6, <2>20 DEF Command, want
    <3> QED
      BY <2>2, <3>1, <3>2, <3>3, SplitCommand
  <2> QED
    BY <1>1, <1>6, <2>5, <2>6, <2>7, <2>8, <2>9, <2>10, <2>11, <2>12, <2>13, <2>14, <2>15, <2>16,
       <2>17, <2>18, <2>19, <2>20
<1> QED
  BY <1>2, <1>3, <1>4, <1>5, <1>6

(* A command is called.                                                       *)
LEMMA AudioCall == RequestInv /\ AudioInv /\ ProperAudio /\ Call => AudioInv'
<1> SUFFICES ASSUME RequestInv, AudioInv, ProperAudio, Call PROVE AudioInv'
  OBVIOUS
<1> DEFINE at == Len(rcs) + 1
           c == cmds[plan[at]]
           final == at = Len(plan)
           full == out # <<>> /\ Head(out).type = "s32v" => FullHeader(out[1].data)
<1>1. phase = "exec" /\ plan # <<>> /\ cmds' = cmds /\ plan' = plan
  BY DEF Call
<1>2. PICK r \in Func(c, final) :
        /\ ctx' = r.ctx /\ out' = r.out /\ rcs' = Append(rcs, r.rc)
        /\ phase' = IF r.down THEN "down"
                    ELSE IF GoesOn(r) /\ at < Len(plan) THEN "exec" ELSE "destroy"
  BY DEF Call
<1>3. /\ Planned /\ rcs \in Seq({"ok", "error"}) /\ Len(rcs) < Len(plan)
      /\ \A k \in DOMAIN plan : Known(cmds[plan[k]].name)
  BY <1>1 DEF RequestInv, Quiet, Succeeding
<1>4. at \in DOMAIN plan /\ at \in Nat /\ plan[at] \in DOMAIN cmds /\ c \in Objects
  BY <1>3 DEF Planned
<1>5. c.name \in DOMAIN ArgTypes /\ r \in Command(c.name, ctx, c.args, out, final)
  BY <1>2, <1>3, <1>4 DEF Func, Known
<1>6. c.args \in Seq(Tokens)
  BY <1>4 DEF Objects
<1>7. CtxOk(ctx) /\ Piped
  BY DEF AudioInv
<1>8. \A i \in DOMAIN c.args :
        c.name = "EVAL" /\ c.args[i].type = "str" =>
          \A x \in ScmReply(ctx, c.args[i].val, FALSE) : x.type = "s32v" => Sound(x.data)
  BY <1>4 DEF ProperAudio
<1>9. out # <<>> /\ Head(out).type = "s32v" => Sound(out[1].data)
  BY <1>1, <1>7 DEF Piped
<1>10. PICK last \in BOOLEAN : last = final
  OBVIOUS
<1> DEFINE name == c.name
           args == c.args
<1>11. LET rs == Command(name, ctx, args, out, last) IN
       /\ Leaves(rs, last)
       /\ ~ MayLose(c) /\ full => LeavesFull(rs, last)
       /\ name # "SHUTDOWN" /\ ~ MayLose(c)
            /\ (name = "ENCODE" => full /\ args[1].val \notin Compressed) => Survives(rs)
  <2> HIDE DEF c, final, name, args
  <2>1. /\ name \in DOMAIN ArgTypes /\ args \in Seq(Tokens) /\ name = c.name /\ args = c.args
        /\ \A i \in DOMAIN args :
             name = "EVAL" /\ args[i].type = "str" =>
               \A x \in ScmReply(ctx, args[i].val, FALSE) : x.type = "s32v" => Sound(x.data)
    BY <1>5, <1>6, <1>8 DEF name, args
  <2> HIDE DEF full
  <2>2. full = (out # <<>> /\ Head(out).type = "s32v" => FullHeader(out[1].data))
    BY DEF full
  <2> QED
    BY <1>7, <1>9, <2>1, <2>2, CommandSound
<1>12. /\ CtxOk(r.ctx)
       /\ ~ final /\ r.rc = "ok" /\ r.out[1].type = "s32v" =>
            /\ Sound(r.out[1].data)
            /\ ~ MayLose(c) /\ full => FullHeader(r.out[1].data)
       /\ r.down => \/ c.name = "SHUTDOWN" \/ MayLose(c)
                    \/ c.name = "ENCODE" /\ (~ full \/ c.args[1].val \in Compressed)
  <2> HIDE DEF c, final, full
  <2> QED
    BY <1>5, <1>10, <1>11 DEF Leaves, LeavesFull, Survives
<1>13. /\ Called = [k \in DOMAIN rcs |-> cmds[plan[k]]]
       /\ Called' = [k \in 1 .. at |-> cmds[plan[k]]]
  BY <1>1, <1>2, <1>3 DEF Called
<1>14. /\ DOMAIN Called' = 1 .. at /\ Called'[at] = c /\ at \in 1 .. at
       /\ \A k \in DOMAIN Called : k \in DOMAIN Called' /\ Called'[k] = Called[k]
  BY <1>3, <1>4, <1>13
<1>15. ~ full => \E k \in DOMAIN Called : MayLose(Called[k])
  BY <1>1, <1>7 DEF Piped
<1>16. Last(Called') = c
  <2>1. Called' \in [1 .. at -> Objects]
    BY <1>3, <1>4, <1>13 DEF Planned
  <2>2. Len(Called') = at
    BY <1>4, <2>1, Listed
  <2> QED
    BY <1>14, <2>2 DEF Last
<1>17. OneObject' /\ Piped'
  <2> SUFFICES ASSUME phase' = "exec" PROVE OneObject' /\ Piped'
    BY DEF OneObject, Piped
  <2>1. ~ r.down /\ r.rc = "ok" /\ at < Len(plan)
    BY <1>2 DEF GoesOn
  <2>2. ~ final
    BY <1>3, <1>4, <2>1 DEF Planned
  <2>3. PICK x : r.out = <<x>>
    <3> HIDE DEF c, final
    <3>1. \/ r.down /\ r.rc = "error"
          \/ r.rc = "ok" /\ \E y : r.out = <<y>> /\ y.type # "error"
          \/ r.rc = "error" /\ r.out = <<ErrorObj>>
          \/ r.rc = "error" /\ r.out = Append(out, ErrorObj)
      BY <1>5, CommandOutcome
    <3> QED
      BY <2>1, <3>1
  <2>4. out'[1] = x /\ Head(out') = x /\ r.out[1] = x /\ out' = <<out'[1]>>
    BY <1>2, <2>3
  <2>5. (\A k \in DOMAIN Called' : ~ MayLose(Called'[k])) => ~ MayLose(c) /\ full
    <3> HIDE DEF c, full
    <3> QED
      BY <1>14, <1>15
  <2>6. Piped'
    <3> HIDE DEF c, full, final
    <3> QED
      BY <1>12, <2>1, <2>2, <2>4, <2>5 DEF Piped
  <2> QED
    BY <2>4, <2>6 DEF OneObject
<1>18. DownCause'
  <2> SUFFICES ASSUME phase' = "down"
               PROVE  /\ rcs' # <<>>
                      /\ \/ c.name = "SHUTDOWN" \/ MayLose(c)
                         \/ /\ c.name = "ENCODE"
                            /\ c.args[1].val \in Compressed \/ \E k \in DOMAIN Called' : MayLose(Called'[k])
    BY <1>16 DEF DownCause, MayLose
  <2>1. r.down
    BY <1>2
  <2>2. rcs' # <<>>
    <3>1. Len(rcs) \in Nat /\ DOMAIN Called' = DOMAIN rcs' /\ 1 \in 1 .. at
      BY <1>3, <1>13 DEF Called
    <3> QED
      BY <1>14, <3>1
  <2> HIDE DEF c, full, final
  <2>3. ~ full => \E k \in DOMAIN Called' : MayLose(Called'[k])
    BY <1>14, <1>15
  <2> QED
    BY <1>12, <2>1, <2>2, <2>3
<1> QED
  BY <1>2, <1>12, <1>17, <1>18 DEF AudioInv

(* No other step touches the streams, and none brings a buffer to a command.  *)
LEMMA AudioKept ==
    RequestInv /\ AudioInv /\ [ExecNext]_execVars /\ ~ Call => AudioInv'
<1> SUFFICES ASSUME RequestInv, AudioInv, [ExecNext]_execVars, ~ Call PROVE AudioInv'
  OBVIOUS
<1>1. CtxOk(ctx) /\ OneObject /\ Piped /\ DownCause
  BY DEF AudioInv
<1>2. CASE UNCHANGED execVars
  <2>1. /\ phase' = phase /\ cmds' = cmds /\ plan' = plan /\ rcs' = rcs /\ out' = out /\ ctx' = ctx
    BY <1>2 DEF execVars
  <2>2. Called' = Called /\ Text' = Text
    BY <1>2, <2>1 DEF Called, Text, execVars
  <2> QED
    BY <1>1, <2>1, <2>2 DEF AudioInv, OneObject, Piped, DownCause
<1>3. CASE /\ ctx' = ctx /\ phase' \notin {"exec", "down"}
  BY <1>1, <1>3 DEF AudioInv, OneObject, Piped, DownCause
<1>4. CASE Check
  <2>1. ctx' = ctx /\ phase' # "down" /\ (phase' = "exec" => out' = <<>>)
    BY <1>4 DEF Check, RequestInv, Quiet
  <2> QED
    BY <1>1, <2>1 DEF AudioInv, OneObject, Piped, DownCause
<1>5. CASE Destroy
  <2>1. ctx' = ctx /\ plan' = plan /\ phase' # "exec" /\ (phase' = "down" => ~ IsInjective(plan))
    BY <1>5 DEF Destroy
  <2> QED
    BY <1>1, <2>1 DEF AudioInv, OneObject, Piped, DownCause
<1>10. CASE NameOverflow
  <2>1. /\ phase = "build" /\ phase' = "down" /\ ctx' = ctx /\ Text' = Text /\ toks # <<>>
        /\ Head(toks).type = "id" /\ Head(toks).val \in LongNames
    BY <1>10 DEF NameOverflow, Building, Text, Lexed
  <2>2. toks \in Seq(Tokens) /\ Done \in 0 .. Len(Text) /\ toks[1] = Text[Done + 1] /\ Len(toks) \in Nat \ {0}
    BY <2>1 DEF RequestInv, Behind
  <2>3. Text \in Seq(Tokens) /\ Len(Text) \in Nat
    BY TextType
  <2>4. Done + 1 \in DOMAIN Text
    BY <2>2, <2>3 DEF Done
  <2>5. Head(toks) = Text[Done + 1]
    BY <2>2
  <2>6. \E i \in DOMAIN Text : Text[i].type = "id" /\ Text[i].val \in LongNames
    BY <2>1, <2>4, <2>5
  <2>7. DownCause'
    BY <2>1, <2>6 DEF DownCause
  <2> QED
    BY <1>1, <2>1, <2>7 DEF AudioInv, OneObject, Piped
<1>6. ASSUME NEW q \in Requests, Receive(q) PROVE ctx' = ctx /\ phase' \notin {"exec", "down"}
  BY <1>6 DEF Receive
<1>7. BuildEnd \/ CallNone \/ Reply => ctx' = ctx /\ phase' \notin {"exec", "down"}
  BY DEF BuildEnd, CallNone, Reply
<1>8. BuildId \/ BuildArg => ctx' = ctx /\ phase' \notin {"exec", "down"}
  BY DEF BuildId, BuildArg, Building, Read, Abort
<1>9. BuildPipe \/ BuildError => ctx' = ctx /\ phase' \notin {"exec", "down"}
  BY DEF BuildPipe, BuildError, Building, Read, Abort
<1> QED
  BY <1>2, <1>3, <1>4, <1>5, <1>6, <1>7, <1>8, <1>9, <1>10 DEF ExecNext, Work

(* The streams and the buffer between two commands stay in order.             *)
THEOREM AudioInvariant == ExecSpec /\ []ProperAudio => []AudioInv
<1>1. ExecInit => AudioInv
  BY ContextAssumption DEF ExecInit, AudioInv, OneObject, CtxOk, Piped, DownCause
<1>2. RequestInv /\ AudioInv /\ ProperAudio /\ [ExecNext]_execVars => AudioInv'
  BY AudioCall, AudioKept
<1> QED
  BY <1>1, <1>2, RequestInvariant, PTL DEF ExecSpec

(* DownCause: the process ends only in a request with an overlong name, a     *)
(* command planned twice, SHUTDOWN, a command that may lose the header, or an *)
(* ENCODE behind one of those or in a compressed format; whatever the other   *)
(* arguments are, negative durations among them.  The vectors that            *)
(* expressions make are taken to consist of 32-bit words.                     *)
THEOREM ProcessEndsForCause == ExecSpec /\ []ProperAudio => []DownCause
<1>1. AudioInv => DownCause
  BY DEF AudioInv
<1> QED
  BY <1>1, AudioInvariant, PTL

-----------------------------------------------------------------------------
(* The laws of the operations *)

(* TRIM takes away what PAD has put around the samples.                       *)
LEMMA PadThenTrim ==
    ASSUME NEW b, HasHeader(b), Len(b) > 2, NEW left \in Durations, NEW right \in Durations
    PROVE  OpsTrim(OpsPad(b, left, right), left, right) = b
<1>1. PICK l \in Nat, r \in Nat : l = SampleCount(b, left) /\ r = SampleCount(b, right)
  BY SamplesCounted DEF Durations, Fractions
<1>2. PICK s \in Seq(Words) : /\ s = Samples(b) /\ Len(s) = Len(b) - 2 /\ With(b, s) = b
  BY SamplesOf
<1>3. PICK n \in Nat \ {0} : n = Len(s)
  BY <1>2
<1>4. PICK x \in Seq(Words), y \in Seq(Words) :
        /\ x = [i \in 1 .. l |-> 0] /\ y = [i \in 1 .. r |-> 0] /\ Len(x) = l /\ Len(y) = r
  BY Zeros
<1>5. PICK z \in Seq(Words) : z = (x \o s) \o y
  BY ConcatProperties
<1>6. /\ Len(z) = (l + n) + r
      /\ \A i \in 1 .. n : z[l + i] = s[i]
  <2>1. /\ x \o s \in Seq(Words) /\ Len(x \o s) = l + n
        /\ \A i \in 1 .. n : (x \o s)[l + i] = s[i]
    BY <1>3, <1>4
  <2>2. PICK u \in Seq(Words) : u = x \o s
    BY <2>1
  <2>3. Len(z) = Len(u) + Len(y) /\ \A i \in 1 .. Len(u) : z[i] = u[i]
    BY <1>5, <2>2
  <2>4. \A i \in 1 .. n : l + i \in 1 .. Len(u)
    BY <2>1, <2>2
  <2> QED
    BY <1>4, <2>1, <2>2, <2>3, <2>4
<1>7. PICK p : p = OpsPad(b, left, right)
  OBVIOUS
<1>8. p = With(b, z)
  <2>1. ~ Outside(l, r)
    BY DEF Outside
  <2> QED
    BY <1>1, <1>2, <1>4, <1>5, <1>7, <2>1 DEF OpsPad
<1>9. MadeOf(p, b) /\ Len(p) = Len(z) + 2 /\ \A i \in 1 .. Len(z) : p[i + 2] = z[i]
  BY <1>8, WithSamples
<1>10. HasHeader(p) /\ p[1] = b[1] /\ p[2] = b[2]
  BY <1>9 DEF MadeOf
<1>11. SampleCount(p, left) = l /\ SampleCount(p, right) = r
  BY <1>1, <1>10 DEF SampleCount, Rate, Channels
<1>12. PICK w \in Seq(Words) : /\ w = Samples(p) /\ Len(w) = Len(z)
                               /\ \A i \in 1 .. Len(z) : w[i] = z[i]
  <2>1. /\ Samples(p) \in Seq(Words) /\ Len(Samples(p)) = Len(p) - 2
        /\ \A i \in 1 .. Len(p) - 2 : Samples(p)[i] = p[i + 2]
    BY <1>10, SamplesOf
  <2>2. PICK k \in Nat : k = Len(z) /\ Len(p) - 2 = k
    BY <1>9
  <2>3. \A i \in 1 .. k : p[i + 2] = z[i]
    BY <1>9, <2>2
  <2>4. PICK w \in Seq(Words) : w = Samples(p)
    BY <2>1
  <2>5. Len(w) = k /\ \A i \in 1 .. k : w[i] = z[i]
    BY <2>1, <2>2, <2>3, <2>4
  <2> QED
    BY <2>2, <2>4, <2>5
<1>13. SubSeq(w, l + 1, l + n) = s
  <2>1. PICK v : v = SubSeq(w, l + 1, l + n)
    OBVIOUS
  <2>2. l + 1 \in 1 .. Len(w) + 1 /\ l + n \in 0 .. Len(w)
    BY <1>6, <1>12
  <2>3. v \in Seq(Words) /\ Len(v) = n /\ \A i \in 1 .. n : v[i] = w[l + i]
    <3>1. /\ v \in Seq(Words)
          /\ Len(v) = IF l + 1 <= l + n THEN (l + n) - (l + 1) + 1 ELSE 0
          /\ \A i \in 1 .. ((l + n) - (l + 1)) + 1 : v[i] = w[((l + 1) + i) - 1]
      BY <2>1, <2>2, SubSeqProperties
    <3>2. \A i \in 1 .. n : ((l + 1) + i) - 1 = l + i /\ i \in 1 .. ((l + n) - (l + 1)) + 1
      OBVIOUS
    <3>3. Len(v) = n
      BY <3>1
    <3> QED
      BY <3>1, <3>2, <3>3
  <2>4. \A i \in 1 .. n : l + i \in 1 .. Len(z)
    BY <1>6
  <2>5. \A i \in 1 .. n : v[i] = s[i]
    BY <1>6, <1>12, <2>3, <2>4
  <2> QED
    BY <1>3, <2>1, <2>3, <2>5, SeqEqual
<1>14. ~ (l + r >= Len(p) - 2) /\ ~ (l + r < 0) /\ ~ Outside(l, r) /\ (Len(p) - 2) - r = l + n
  BY <1>6, <1>9 DEF Outside
<1>15. OpsTrim(p, left, right) = With(p, SubSeq(w, l + 1, (Len(p) - 2) - r))
  BY <1>11, <1>12, <1>14 DEF OpsTrim
<1>16. With(p, s) = With(b, s)
  BY <1>10 DEF With
<1> QED
  BY <1>2, <1>7, <1>13, <1>14, <1>15, <1>16

(* Sample i of the two channels of a buffer.                                  *)
LEMMA Interleaved ==
    ASSUME NEW m \in Nat, NEW i \in 1 .. 2 * m, NEW f \in Int, f = (i + 1) \div 2
    PROVE  /\ f \in 1 .. m
           /\ i % 2 = 1 => (2 * f - 1) + 0 = i
           /\ i % 2 # 1 => (2 * f - 1) + 1 = i
OBVIOUS

(* Merging the two channels of a buffer makes the buffer.                     *)
LEMMA SplitThenMerge ==
    ASSUME NEW b, HasHeader(b), Channels(b) = 2, Len(b) % 2 = 0
    PROVE  OpsMerge(OpsSplit(b, 0), OpsSplit(b, 1)) = b
<1>1. Len(b) \in Nat /\ Len(b) >= 2
  BY DEF HasHeader, Sound
<1>2. PICK m \in Nat : m = (Len(b) - 2) \div 2 /\ Len(b) - 2 = 2 * m
  BY <1>1
<1>3. PICK x, y : x = OpsSplit(b, 0) /\ y = OpsSplit(b, 1)
  OBVIOUS
<1>4. /\ Rate(x) = Rate(b) /\ Depth(x) = Depth(b) /\ Channels(x) = 1
      /\ Len(x) = m + 2 /\ \A f \in 1 .. m : x[f + 2] = At(b, (2 * f - 1) + 0)
  BY <1>2, <1>3, SplitMade
<1>5. /\ Rate(y) = Rate(b) /\ Depth(y) = Depth(b) /\ Channels(y) = 1
      /\ Len(y) = m + 2 /\ \A f \in 1 .. m : y[f + 2] = At(b, (2 * f - 1) + 1)
  BY <1>2, <1>3, SplitMade
<1>6. 2 * (Larger(Len(x), Len(y)) - 2) = 2 * m
  BY <1>4, <1>5 DEF Larger
<1> DEFINE s == [i \in 1 .. 2 * m |-> At(IF i % 2 = 1 THEN x ELSE y, (i + 1) \div 2)]
<1>14. x[1] = b[1]
  <2>1. ~ (Channels(b) # 2)
    OBVIOUS
  <2>2. PICK t : t = [f \in 1 .. (Len(b) - 2) \div 2 |-> At(b, 2 * f - 1 + 0)]
    OBVIOUS
  <2>3. x = <<b[1], Depth(b) + Half>> \o t
    BY <1>3, <2>1, <2>2, Zenon DEF OpsSplit
  <2>4. Len(t) \in Nat /\ t \in Seq({t[i] : i \in DOMAIN t})
    <3>1. PICK n \in Nat : n = (Len(b) - 2) \div 2
      BY <1>1, <1>2
    <3> QED
      BY <2>2, <3>1
  <2> QED
    BY <2>3, <2>4
<1>7. OpsMerge(x, y) = <<b[1], Depth(b) + 2 * Half>> \o s
  <2>1. ~ (Channels(x) # 1 \/ Channels(y) # 1 \/ Rate(x) # Rate(y) \/ Depth(x) # Depth(y))
    BY <1>4, <1>5
  <2>2. OpsMerge(x, y) = <<x[1], Depth(x) + 2 * Half>>
           \o [i \in 1 .. 2 * (Larger(Len(x), Len(y)) - 2) |->
                 At(IF i % 2 = 1 THEN x ELSE y, (i + 1) \div 2)]
    BY <2>1, Zenon DEF OpsMerge
  <2> QED
    BY <1>4, <1>6, <1>14, <2>2, Zenon
<1>8. PICK t \in Seq(Words) : /\ t = Samples(b) /\ Len(t) = 2 * m /\ With(b, t) = b
                              /\ \A i \in 1 .. 2 * m : t[i] = b[i + 2]
  BY <1>2, SamplesOf
<1>9. ASSUME NEW i \in 1 .. 2 * m PROVE s[i] = t[i]
  <2>1. PICK f \in Int : f = (i + 1) \div 2
    OBVIOUS
  <2>2. /\ f \in 1 .. m
        /\ i % 2 = 1 => (2 * f - 1) + 0 = i
        /\ i % 2 # 1 => (2 * f - 1) + 1 = i
    BY <2>1, Interleaved
  <2>3. At(x, f) = x[f + 2] /\ At(y, f) = y[f + 2]
    BY <1>4, <1>5, <2>2 DEF At
  <2>4. At(b, i) = b[i + 2]
    BY <1>2, <1>1 DEF At
  <2>5. s[i] = IF i % 2 = 1 THEN At(x, f) ELSE At(y, f)
    BY <2>1
  <2>6. CASE i % 2 = 1
    <3>1. x[f + 2] = At(b, i)
      BY <1>4, <2>2, <2>6
    <3> QED
      BY <1>8, <2>3, <2>4, <2>5, <2>6, <3>1
  <2>7. CASE i % 2 # 1
    <3>1. y[f + 2] = At(b, i)
      BY <1>5, <2>2, <2>7
    <3> QED
      BY <1>8, <2>3, <2>4, <2>5, <2>7, <3>1
  <2> QED
    BY <2>6, <2>7
<1>10. s = t
  <2>1. DOMAIN t = 1 .. 2 * m /\ t = [i \in 1 .. 2 * m |-> t[i]]
    BY <1>8
  <2>2. s = [i \in 1 .. 2 * m |-> s[i]]
    OBVIOUS
  <2> HIDE DEF s
  <2> QED
    BY <1>9, <2>1, <2>2
<1>11. Depth(b) + 2 * Half = b[2]
  <2>1. PICK h \in Nat : h = Half
    BY HalfNat
  <2>2. PICK d \in Nat : d = Depth(b)
    BY HeaderFields, HalfNat
  <2>3. b[2] = 2 * h + d
    BY <2>1, <2>2, HeaderFields
  <2>4. 2 * h + d = d + 2 * h
    BY <2>1, <2>2
  <2> QED
    BY <2>1, <2>2, <2>3, <2>4
<1> HIDE DEF s
<1>12. OpsMerge(x, y) = <<b[1], b[2]>> \o t
  BY <1>7, <1>10, <1>11, Zenon
<1>13. With(b, t) = <<b[1], b[2]>> \o t
  BY DEF With
<1> QED
  BY <1>3, <1>8, <1>12, <1>13, Zenon

(* A gain between nothing and one makes a sample softer, and the conversion   *)
(* does not leave the words.                                                  *)
LEMMA Softer ==
    ASSUME NEW x \in Words, NEW n \in Nat, NEW d \in Nat \ {0}, n <= d
    PROVE  LET y == Int32(n * x, d) IN
           /\ IF x >= 0 THEN 0 <= y /\ y <= x ELSE x <= y /\ y <= 0
           /\ n = 0 => y = 0
<1>1. x \in Int /\ LowInt \in Int /\ HighInt \in Int /\ LowInt <= x /\ x <= HighInt
  BY WordAssumption DEF Words
<1>2. LowInt <= 0 /\ 0 <= HighInt
  BY Int32Word, WordAssumption DEF Words
<1>3. ASSUME NEW v \in Nat
      PROVE  /\ (n * v) \div d \in Nat /\ (n * v) \div d <= v
             /\ n = 0 => (n * v) \div d = 0
  <2>1. PICK p \in Nat : p = n * v
    OBVIOUS
  <2>2. PICK q \in Nat, k \in 0 .. d - 1 : q = p \div d /\ p = q * d + k
    BY Divided
  <2>3. p <= d * v
    <3>1. PICK e \in Nat : d = n + e
      <4>1. d - n \in Nat /\ d = n + (d - n)
        OBVIOUS
      <4> QED
        BY <4>1
    <3>2. d * v = n * v + e * v /\ e * v \in Nat
      BY <3>1
    <3> QED
      BY <2>1, <3>2
  <2>4. q <= v
    <3> SUFFICES ASSUME q > v PROVE FALSE
      OBVIOUS
    <3>1. PICK e \in Nat : q = (v + 1) + e
      <4>1. q - (v + 1) \in Nat /\ q = (v + 1) + (q - (v + 1))
        OBVIOUS
      <4> QED
        BY <4>1
    <3>2. q * d = d * v + d + e * d /\ e * d \in Nat /\ d * v \in Nat
      BY <3>1
    <3> QED
      BY <2>2, <2>3, <3>2
  <2>5. n = 0 => q = 0
    <3> SUFFICES ASSUME n = 0, q # 0 PROVE FALSE
      OBVIOUS
    <3>1. p = 0
      BY <2>1
    <3>2. PICK e \in Nat : q = 1 + e
      <4>1. q - 1 \in Nat /\ q = 1 + (q - 1)
        OBVIOUS
      <4> QED
        BY <4>1
    <3>3. q * d = d + e * d /\ e * d \in Nat
      BY <3>2
    <3> QED
      BY <2>2, <3>1, <3>3
  <2> QED
    BY <2>1, <2>2, <2>4, <2>5
<1>4. CASE x >= 0
  <2>1. PICK q \in Nat : q = (n * x) \div d /\ q <= x /\ (n = 0 => q = 0)
    BY <1>1, <1>3, <1>4
  <2>2. n * x >= 0
    BY <1>1, <1>4
  <2>3. Int32(n * x, d) = q
    BY <1>1, <1>2, <2>1, <2>2 DEF Int32, Truncated
  <2> QED
    BY <1>4, <2>1, <2>3
<1>5. CASE ~ (x >= 0)
  <2>1. PICK v \in Nat : v = - x /\ v > 0 /\ x = - v
    BY <1>1, <1>5
  <2>2. PICK q \in Nat : q = (n * v) \div d /\ q <= v /\ (n = 0 => q = 0)
    BY <1>3
  <2>3. PICK w \in Int : w = n * x
    BY <1>1
  <2>4. - w = n * v
    BY <1>1, <2>1, <2>3
  <2>5. Int32(w, d) = - q
    <3>1. CASE w >= 0
      <4>1. w = 0 /\ n * v = 0
        <5>1. n * v \in Nat
          OBVIOUS
        <5> QED
          BY <2>4, <3>1, <5>1
      <4>2. q = 0
        <5>1. PICK u \in Nat : u = n * v
          OBVIOUS
        <5>2. q = u \div d /\ u = 0
          BY <2>2, <4>1, <5>1
        <5> QED
          BY <5>2
      <4>3. w \div d = 0
        BY <4>1
      <4> QED
        BY <1>2, <3>1, <4>2, <4>3 DEF Int32, Truncated
    <3>2. CASE ~ (w >= 0)
      <4>1. - ((- w) \div d) = - q
        BY <2>2, <2>4
      <4>2. LowInt <= - q /\ - q <= HighInt
        BY <1>1, <1>2, <2>1, <2>2
      <4> QED
        BY <3>2, <4>1, <4>2 DEF Int32, Truncated
    <3> QED
      BY <3>1, <3>2
  <2> QED
    BY <1>5, <2>1, <2>2, <2>3, <2>5
<1> QED
  BY <1>4, <1>5

(* A fade makes every sample softer.                                          *)
LEMMA FadeSofter ==
    ASSUME NEW b, HasHeader(b), NEW left \in Fractions, NEW right \in Fractions,
           NEW i \in 1 .. Len(b) - 2
    PROVE  LET x == At(b, i)  y == At(OpsFade(b, left, right), i) IN
           /\ IF x >= 0 THEN 0 <= y /\ y <= x ELSE x <= y /\ y <= 0
           /\ i = 1 /\ SampleCount(b, left) > 0 => y = 0
<1>1. Len(b) \in Nat
  BY DEF HasHeader, Sound
<1>2. PICK x \in Words : x = At(b, i)
  <2>1. i \in Nat \ {0}
    BY <1>1
  <2> QED
    BY <2>1, SampleWord
<1>3. PICK r : r = OpsFade(b, left, right)
  OBVIOUS
<1>4. PICK g \in Fractions : /\ Len(r) = Len(b) /\ r[i + 2] = Int32(g.n * x, g.d)
                             /\ g.n \in Nat /\ g.n <= g.d
                             /\ i = 1 /\ SampleCount(b, left) > 0 => g.n = 0
  <2>1. Len(OpsFade(b, left, right)) = Len(b)
    BY FadeMade, Zenon
  <2>2. \E g \in Fractions :
          /\ OpsFade(b, left, right)[i + 2] = Int32(g.n * At(b, i), g.d)
          /\ g.n \in Nat /\ g.n <= g.d
          /\ i = 1 /\ SampleCount(b, left) > 0 => g.n = 0
    BY FadeMade, SMTT(30)
  <2> QED
    BY <1>2, <1>3, <2>1, <2>2
<1>5. PICK n \in Nat, d \in Nat \ {0} : n = g.n /\ d = g.d
  BY <1>4 DEF Fractions
<1>6. At(r, i) = r[i + 2]
  BY <1>1, <1>4 DEF At
<1>7. PICK y : y = Int32(n * x, d)
  OBVIOUS
<1>8. /\ IF x >= 0 THEN 0 <= y /\ y <= x ELSE x <= y /\ y <= 0
      /\ n = 0 => y = 0
  BY <1>4, <1>5, <1>7, Softer
<1>9. At(OpsFade(b, left, right), i) = y
  BY <1>3, <1>4, <1>5, <1>6, <1>7
<1> QED
  BY <1>2, <1>4, <1>5, <1>8, <1>9

(* A WAV file of a buffer fits what is allocated for it.                      *)
LEMMA WavFits ==
    ASSUME NEW b, HasHeader(b), Channels(b) > 0, Depth(b) \in {16, 24}
    PROVE  \A n \in EncodePcm(b, "audio/wav") :
             /\ n <= EncodeBytes(Depth(b), Len(b) - 2)
             /\ n > EncodeBytes(Depth(b), Len(b) - 2 - Channels(b))
<1>1. PICK size \in Nat : size = Len(b) - 2
  BY DEF HasHeader, Sound
<1>2. PICK c \in Nat \ {0} : c = Channels(b)
  BY HeaderFields
<1>3. PICK d \in {16, 24} : d = Depth(b)
  OBVIOUS
<1>4. PICK w \in {2, 3} : w = d \div 8
  OBVIOUS
<1>5. PICK f \in Nat : f = (size \div c) * c * w /\ f <= size * w /\ f > (size - c) * w
  BY WholeFrames
<1>6. EncodePcm(b, "audio/wav") = {44 + f}
  <2>1. WavBytes(c, d, size) = 44 + f
    BY <1>4, <1>5 DEF WavBytes
  <2>2. EncodePcm(b, "audio/wav") = {WavBytes(c, d, size)}
    BY <1>1, <1>2, <1>3 DEF EncodePcm
  <2> QED
    BY <2>1, <2>2
<1>7. /\ EncodeBytes(Depth(b), Len(b) - 2) = size * w + 44
      /\ EncodeBytes(Depth(b), Len(b) - 2 - Channels(b)) = (size - c) * w + 44
  BY <1>1, <1>2, <1>3, <1>4 DEF EncodeBytes
<1>8. PICK s \in Int, t \in Int : s = size * w /\ t = (size - c) * w
  OBVIOUS
<1>9. 44 + f <= s + 44 /\ 44 + f > t + 44
  BY <1>5, <1>8
<1> QED
  BY <1>6, <1>7, <1>8, <1>9

(* AudioLaws: on every buffer that passes between two stages, TRIM undoes     *)
(* PAD, the two channels of SPLIT merge into the buffer, a fade never makes a *)
(* sample louder, and a WAV file fits its memory (ops.c, wav.c).              *)
THEOREM OperationsObeyLaws == ExecSpec /\ []ProperAudio => []AudioLaws
<1>1. AudioInv => AudioLaws
  <2> SUFFICES ASSUME AudioInv PROVE AudioLaws
    OBVIOUS
  <2>1. ASSUME NEW b \in Between PROVE HasHeader(b) /\ Len(b) > 2
    <3>1. PICK i \in DOMAIN out : phase = "exec" /\ out[i].type = "s32v" /\ b = out[i].data /\ Len(b) > 2
      BY DEF Between
    <3>2. out # <<>>
      BY <3>1
    <3>3. PICK x : out = <<x>>
      BY <3>1, <3>2 DEF AudioInv, OneObject
    <3>4. i = 1 /\ Head(out) = out[1]
      BY <3>1, <3>3
    <3>5. Sound(b)
      BY <3>1, <3>2, <3>4 DEF AudioInv, Piped
    <3>6. Len(b) \in Nat
      BY <3>5 DEF Sound
    <3> QED
      BY <3>1, <3>5, <3>6 DEF HasHeader
  <2>2. Seconds \subseteq Durations
    BY SecondsAssumption DEF Durations
  <2>3. PadTrim
    BY <2>1, <2>2, PadThenTrim DEF PadTrim
  <2>4. SplitMerge
    BY <2>1, SplitThenMerge DEF SplitMerge
  <2>5. FadeNeverLouder
    <3>1. Seconds \subseteq Fractions
      BY SecondsAssumption DEF Fractions
    <3> QED
      BY <2>1, <3>1, FadeSofter DEF FadeNeverLouder
  <2>6. EncodeFits
    BY <2>1, WavFits DEF EncodeFits
  <2> QED
    BY <2>3, <2>4, <2>5, <2>6 DEF AudioLaws
<1> QED
  BY <1>1, AudioInvariant, PTL
=============================================================================
