------------------------------- MODULE Streams ------------------------------
(***************************************************************************)
(* Streams as their clients see them (src/src/stream.c, metadata.c): the   *)
(* metadata files that CREATE writes and META and LIST read, the table of  *)
(* sessions that OPEN and CLOSE change, and the batches of frames that the *)
(* table lets through.                                                     *)
(*                                                                         *)
(* The event loop runs one request at a time; a crash may end it at any    *)
(* step.  Stream names stand for their 64-bit hashes.  The storage of an   *)
(* accepted frame is the subject of module Storage; here it is one more    *)
(* element of accepted.                                                    *)
(***************************************************************************)
EXTENDS KvStore, FiniteSets

CONSTANTS
    StreamIds,
    Sessions,    \* session ids of clients; ZeroSession is one a client may send
    ZeroSession, \* 16 zero bytes
    None,
    Refs,        \* values of the clock, the ref of a stream
    MaxBatch,    \* bound: frames in a batch
    MaxAccepted, \* bound: frames accepted per stream
    MaxCrashes   \* bound: crashes in a behaviour

ASSUME SessionAssumption == ZeroSession \in Sessions /\ None \notin Sessions \cup Refs
ASSUME HashAssumption == \A s \in StreamIds : HashOf(s) \in Nat
ASSUME MaxBatchAssumption == MaxBatch \in Nat

VARIABLES
    md,       \* per stream: ref of its metadata file, or None
    mdTmp,    \* per stream: ref in its temporary metadata file, or None
    kv,       \* ctx->kv: key stream, value session id
    creating, \* the stream racs_metadata_flush has a temporary file open for
    batch,    \* frames of the batch being appended that are still to come
    tried,    \* history: frames tried since the last other request, with the outcome
    accepted, \* history: sessions of the frames accepted since the last OPEN
    crashes

vars == <<md, mdTmp, kv, creating, batch, tried, accepted, crashes>>

\* A frame: its header fields, and whether its checksum is right; of a frame
\* that is not sound the session is never looked at.
Frames == [stream : StreamIds, session : Sessions, sound : {TRUE}]
            \cup [stream : StreamIds, session : {ZeroSession}, sound : {FALSE}]

\* Requests are executed in the read callback of the one event loop: one at a time.
Idle == creating = None /\ batch = <<>>

-----------------------------------------------------------------------------
(* Metadata *)

\* racs_metadata_get: the named file exists.  A file is renamed after it was
\* written and synced, so what is there can be read.
MetadataGet(s) == md[s] # None

\* racs_stream_create up to the open temporary file of racs_metadata_flush; a
\* stream that exists is an error reply.
CreateBegin(s, ref) ==
    /\ Idle /\ ~ MetadataGet(s)
    /\ mdTmp' = [mdTmp EXCEPT ![s] = ref]
    /\ creating' = s
    /\ tried' = <<>>
    /\ UNCHANGED <<md, kv, batch, accepted, crashes>>

\* Mutant: the temporary file is copied, not renamed.
CreateRenameCopy ==
    /\ creating # None
    /\ md' = [md EXCEPT ![creating] = mdTmp[creating]]
    /\ creating' = None
    /\ UNCHANGED <<mdTmp, kv, batch, tried, accepted, crashes>>

\* rename(tmp_path, final_path), and the reply.
CreateRename ==
    /\ creating # None
    /\ md' = [md EXCEPT ![creating] = mdTmp[creating]]
    /\ mdTmp' = [mdTmp EXCEPT ![creating] = None]
    /\ creating' = None
    /\ UNCHANGED <<kv, batch, tried, accepted, crashes>>

\* racs_streams_list: every regular file of the directory, temporary ones too
\* (strtoull reads the number before ".tmp"), whose stream has metadata.
StreamsList ==
    LET names == {s \in StreamIds : md[s] # None} \X {"file"}
                   \cup {s \in StreamIds : mdTmp[s] # None} \X {"tmp"}
    IN  {f \in names : MetadataGet(f[1])}

-----------------------------------------------------------------------------
(* Sessions *)

\* racs_stream_open: no look at the metadata; the session is not bound yet.
Open(s) ==
    /\ Idle /\ ~ KvHas(kv, s)
    /\ kv' = KvPut(kv, s, ZeroSession)
    /\ accepted' = [accepted EXCEPT ![s] = <<>>]
    /\ tried' = <<>>
    /\ UNCHANGED <<md, mdTmp, creating, batch, crashes>>

\* racs_stream_close: by any client.
Close(s) ==
    /\ Idle /\ KvHas(kv, s)
    /\ kv' = KvDelete(kv, s)
    /\ tried' = <<>>
    /\ UNCHANGED <<md, mdTmp, creating, batch, accepted, crashes>>

\* Mutant: an unbound frame is let through on a bound stream.
SessionCmpEither(src, dest) == dest = ZeroSession \/ src = ZeroSession \/ src = dest
\* racs_session_cmp: an unbound stream takes every session.
SessionCmp(src, dest) == dest = ZeroSession \/ src = dest

-----------------------------------------------------------------------------
(* Batches of frames *)

\* racs_exec_stream hands the batch to racs_stream_batch_append.
BatchArrives(frames) ==
    /\ Idle /\ frames # <<>>
    /\ \A f \in Range(frames) : Len(accepted[f.stream]) + Len(frames) <= MaxAccepted
    /\ batch' = frames
    /\ tried' = <<>>
    /\ UNCHANGED <<md, mdTmp, kv, creating, accepted, crashes>>

\* The checks of racs_stream_append, in its order: checksum, session, metadata.
AppendRc(f) ==
    IF ~ f.sound THEN "malformed"
    ELSE IF ~ KvHas(kv, f.stream) THEN "conflict"
    ELSE IF ~ SessionCmp(f.session, KvGet(kv, f.stream)) THEN "conflict"
    ELSE IF ~ MetadataGet(f.stream) THEN "not_found"
    ELSE "ok"

\* racs_streamkv_put after the last check: the stream is bound to the session.
Bind(f) == IF AppendRc(f) = "ok" THEN KvPut(kv, f.stream, f.session) ELSE kv

\* Mutant: the loop ends at the first frame that is refused.
BatchStepStops ==
    /\ batch # <<>>
    /\ LET f == Head(batch) ok == AppendRc(f) = "ok" IN
       /\ kv' = Bind(f)
       /\ accepted' = IF ok THEN [accepted EXCEPT ![f.stream] = Append(@, f.session)]
                            ELSE accepted
       /\ tried' = IF ok THEN Append(tried, [frame |-> f, rc |-> "ok"])
                   ELSE tried \o [i \in DOMAIN batch |->
                                    [frame |-> batch[i], rc |-> AppendRc(f)]]
       /\ batch' = IF ok THEN Tail(batch) ELSE <<>>
    /\ UNCHANGED <<md, mdTmp, creating, crashes>>

\* One turn of the loop of racs_stream_batch_append.  The result is ignored;
\* after the last frame racs_stream replies OK.
BatchStep ==
    /\ batch # <<>>
    /\ LET f == Head(batch) ok == AppendRc(f) = "ok" IN
       /\ kv' = Bind(f)
       /\ accepted' = IF ok THEN [accepted EXCEPT ![f.stream] = Append(@, f.session)]
                            ELSE accepted
       /\ tried' = Append(tried, [frame |-> f, rc |-> AppendRc(f)])
    /\ batch' = Tail(batch)
    /\ UNCHANGED <<md, mdTmp, creating, crashes>>

-----------------------------------------------------------------------------

\* The process ends and is started again: files stay, the table of sessions and
\* the request are gone.
Crash ==
    /\ crashes < MaxCrashes
    /\ crashes' = crashes + 1
    /\ kv' = KvEmpty
    /\ creating' = None
    /\ batch' = <<>>
    /\ tried' = <<>>
    /\ UNCHANGED <<md, mdTmp, accepted>>

Init ==
    /\ md = [s \in StreamIds |-> None]
    /\ mdTmp = [s \in StreamIds |-> None]
    /\ kv = KvEmpty
    /\ creating = None
    /\ batch = <<>> /\ tried = <<>>
    /\ accepted = [s \in StreamIds |-> <<>>]
    /\ crashes = 0

Next ==
    \/ \E s \in StreamIds :
        \/ \E ref \in Refs : CreateBegin(s, ref)
        \/ Open(s)
        \/ Close(s)
    \/ CreateRename
    \/ \E frames \in BoundedSeq(Frames, MaxBatch) : BatchArrives(frames)
    \/ BatchStep
    \/ Crash

Spec == Init /\ [][Next]_vars

-----------------------------------------------------------------------------
(* Properties *)

\* A stream has one writer between OPEN and CLOSE: once a frame with a session
\* id has been accepted, every later frame has that id, and the table says so
\* (racs_session_cmp, the rebinding in racs_stream_append).
OneWriter ==
    \A s \in StreamIds :
        LET a == accepted[s] IN
        \A i, j \in DOMAIN a : i < j /\ a[i] # ZeroSession =>
            a[j] = a[i] /\ (KvHas(kv, s) => KvGet(kv, s) = a[i])

\* A batch stores what it can: when it has ended, every sound frame of a stream
\* with metadata that carries the session bound now was stored, whatever other
\* frames of the batch were refused (racs_stream_batch_append ignores each
\* result).
BatchIndependent ==
    batch = <<>> =>
        \A i \in DOMAIN tried :
            LET f == tried[i].frame IN
            f.sound /\ MetadataGet(f.stream) /\ KvHas(kv, f.stream)
              /\ KvGet(kv, f.stream) = f.session => tried[i].rc = "ok"

\* LIST names every created stream once and nothing else, also after a crash
\* between the temporary metadata file and its rename.
ListedOnce ==
    {f[1] : f \in StreamsList} = {s \in StreamIds : MetadataGet(s)}
    /\ Cardinality(StreamsList) = Cardinality({s \in StreamIds : MetadataGet(s)})

=============================================================================
