-------------------------------- MODULE Scheme ------------------------------
(***************************************************************************)
(* EVAL: Scheme expressions over the bindings of RACS (src/src/scm.c and   *)
(* scm_bindings.c), and what their values become in a reply.  Commands and *)
(* bindings look up streams in the same places, which come first.          *)
(*                                                                         *)
(* A value is an object [type, data], data a sequence.  An expression is   *)
(* its program for a stack machine: the calls in the order in which Guile  *)
(* makes them.  Results are sets: what an undefined value decides is open. *)
(***************************************************************************)
EXTENDS Audio, FiniteSets

CONSTANTS
    Program,  \* the expressions clients send: name -> sequence of [op, val]
    Blocks    \* stored audio: stream -> sequence of [at, samples], at from the ref

ASSUME BlockAssumption ==
    \A s \in DOMAIN Blocks : Blocks[s] \in Seq([at : Int, samples : Seq(Int)])

Obj(type, data) == [type |-> type, data |-> data]
S32v(words) == Obj("s32v", words)
NullObj == Obj("null", <<>>)
ErrorObj == Obj("error", <<>>)

\* An s32vector around a NULL pointer: its length was never set.
NullVector == Obj("s32null", <<>>)

-----------------------------------------------------------------------------
(* Streams: ctx.md has a record per metadata file, ctx.size the offsets *)

\* racs_metadata as the program writes it: racs_stream_create checks two fields.
Metadatas == [sample_rate : 0 .. Width - 1, channels : {1, 2}, bit_depth : {16, 24}, ref : Nat]

Exists(ctx, s) == s \in DOMAIN ctx.md

\* racs_metadata_attr and, for "size", racs_offsets_get; 0 for any other name.
MetaValue(ctx, s, attr) ==
    IF attr = "size" THEN IF s \in DOMAIN ctx.size THEN ctx.size[s] ELSE 0
    ELSE IF attr \in DOMAIN ctx.md[s] THEN ctx.md[s][attr] ELSE 0

\* racs_range, where files and memory hold all blocks (module Range has the rest).
RangeAudio(s, start, duration) ==
    LET from == (start.n * 1000) \div start.d
        to == from + (duration.n * 1000) \div duration.d
        held == IF s \in DOMAIN Blocks THEN Blocks[s] ELSE <<>>
        inside(b) == from <= b.at /\ b.at <= to
    IN  FlattenSeq([i \in DOMAIN held |-> IF inside(held[i]) THEN held[i].samples ELSE <<>>])

\* What a range becomes: the buffer, or nothing for a depth without a conversion.
RangeBuffers(ctx, s, start, duration) ==
    LET m == ctx.md[s] IN
    IF m.bit_depth \notin {16, 24} THEN {}
    ELSE {RangeWords(m.sample_rate, m.channels, m.bit_depth, audio) :
            audio \in {RangeAudio(s, start, duration)}}

-----------------------------------------------------------------------------
(* Encoders *)

\* A call that ends the process or never returns.
Fatal == -1
Compressed == {"audio/mpeg", "audio/mp3", "audio/ogg"}

\* racs_encode_pcm: the sizes it may return.  LAME and libopusenc are not modelled:
\* they write nothing, or one byte for any number, or fail.  A negative result of
\* LAME is packed as a huge size.  libopusenc's pages are copied without regard to
\* the size of the buffer; an encoder that it did not create is used all the same,
\* one that failed is destroyed twice, and at a depth without a conversion one that
\* was never made is destroyed; below 50 Hz a frame has no samples and the loop
\* does not end.
EncodePcm(b, mime) ==
    LET known == Depth(b) \in {16, 24} IN
    CASE mime = "audio/wav" /\ known -> {WavBytes(Channels(b), Depth(b), Len(b) - 2)}
      [] mime \in {"audio/mpeg", "audio/mp3"} /\ known /\ Channels(b) \in {1, 2} -> {0, 1, Fatal}
      [] mime = "audio/ogg" -> IF known THEN {0, 1, Fatal} ELSE {0, Fatal}
      [] OTHER -> {0}

-----------------------------------------------------------------------------
(* Bindings *)

Return(v) == {[status |-> "ok", value |-> v]}
\* scm_misc_error, and the errors of Guile's own conversions.
Raise == {[status |-> "raise", value |-> NullObj]}
Fault == {[status |-> "fault", value |-> NullObj]}
Vector(b) == Return(IF b = Null THEN NullVector ELSE S32v(b))

IsNumber(x) == x.type \in {"int", "float"}
ToDouble(x) == IF x.type = "int" THEN [n |-> x.data[1], d |-> 1] ELSE x.data[1]
IsInt(x, low, high) == x.type = "int" /\ x.data[1] \in low .. high
IsText(x) == x.type = "string"

\* What every binding does with its buffers before the operation: the type and
\* the length are checked; a NULL vector passes if its length looks large, and
\* then the operation returns NULL, unless the binding itself reads the header.
OnBuffers(buffers, readsHeader, result) ==
    IF \E i \in DOMAIN buffers : buffers[i].type \notin {"s32v", "s32null"} THEN Raise
    ELSE IF \E i \in DOMAIN buffers : buffers[i].type = "s32null"
         THEN Raise \cup IF readsHeader THEN Fault ELSE Vector(Null)
    ELSE IF \E i \in DOMAIN buffers : Len(buffers[i].data) < 2 THEN Raise
    ELSE result

\* Memory outside a buffer was read or written.
Astray(b, left, right) == IF Strays(b, left, right) THEN Fault ELSE {}

ScmMix(a, b) == OnBuffers(<<a, b>>, FALSE, Vector(OpsMix(a.data, b.data)))

ScmGain(x, gain) ==
    IF ~ IsNumber(gain) THEN Raise
    ELSE OnBuffers(<<x>>, FALSE, Vector(OpsGain(x.data, ToDouble(gain))))

ScmTrim(x, l, r) ==
    IF ~ IsNumber(l) \/ ~ IsNumber(r) THEN Raise
    ELSE OnBuffers(<<x>>, FALSE, Vector(OpsTrim(x.data, ToDouble(l), ToDouble(r)))
                                   \cup Astray(x.data, ToDouble(l), ToDouble(r)))

ScmFade(x, l, r) ==
    IF ~ IsNumber(l) \/ ~ IsNumber(r) THEN Raise
    ELSE OnBuffers(<<x>>, FALSE, Vector(OpsFade(x.data, ToDouble(l), ToDouble(r))))

InPan(p) == - p.d <= p.n /\ p.n <= p.d

ScmPan(x, pan) ==
    IF ~ IsNumber(pan) THEN Raise
    ELSE IF ~ InPan(ToDouble(pan)) THEN Raise
    ELSE OnBuffers(<<x>>, TRUE, IF Channels(x.data) < 2 THEN Raise
                                ELSE Vector(OpsPan(x.data, ToDouble(pan))))

ScmPad(x, l, r) ==
    IF ~ IsNumber(l) \/ ~ IsNumber(r) THEN Raise
    ELSE OnBuffers(<<x>>, FALSE, Vector(OpsPad(x.data, ToDouble(l), ToDouble(r)))
                                   \cup Astray(x.data, ToDouble(l), ToDouble(r)))

ScmClip(x, min, max) ==
    IF ~ IsInt(min, LowInt, HighInt) \/ ~ IsInt(max, LowInt, HighInt) THEN Raise
    ELSE OnBuffers(<<x>>, FALSE, Vector(OpsClip(x.data, min.data[1], max.data[1])))

ScmSplit(x, channel) ==
    IF ~ IsInt(channel, 0, Half - 1) THEN Raise
    ELSE OnBuffers(<<x>>, TRUE, IF Channels(x.data) # 2 \/ channel.data[1] > 1 THEN Raise
                                ELSE Vector(OpsSplit(x.data, channel.data[1])))

ScmMerge(a, b) ==
    OnBuffers(<<a, b>>, TRUE,
        IF Channels(a.data) # 1 \/ Channels(b.data) # 1 \/ Rate(a.data) # Rate(b.data)
             \/ Depth(a.data) # Depth(b.data)
        THEN Raise ELSE Vector(OpsMerge(a.data, b.data)))

ScmRange(ctx, s, start, duration) ==
    IF ~ IsText(s) \/ ~ IsNumber(start) \/ ~ IsNumber(duration) THEN Raise
    ELSE IF ~ Exists(ctx, s.data[1]) THEN Raise
    ELSE LET bs == RangeBuffers(ctx, s.data[1], ToDouble(start), ToDouble(duration))
         IN  IF bs = {} THEN Raise ELSE UNION {Vector(b) : b \in bs}

ScmMetadata(ctx, s, attr) ==
    IF ~ IsText(s) \/ ~ IsText(attr) THEN Raise
    ELSE IF ~ Exists(ctx, s.data[1]) THEN Raise
    ELSE LET v == MetaValue(ctx, s.data[1], attr.data[1])
         IN  IF v = 0 THEN Raise ELSE Return(Obj("int", <<v>>))

\* A list of no streams is '(), which packs as null.  The pattern is one name, or
\* "*" for all.
Matching(ctx, pattern) == IF pattern = "*" THEN DOMAIN ctx.md ELSE DOMAIN ctx.md \cap {pattern}

ScmStreamList(ctx, pattern) ==
    IF ~ IsText(pattern) THEN Raise
    ELSE IF Matching(ctx, pattern.data[1]) = {} THEN Return(NullObj)
    ELSE Return(Obj("list", SetToSeq({Obj("string", <<s>>) : s \in Matching(ctx, pattern.data[1])})))

\* Other than the command, the binding wants two samples, and makes an empty
\* vector of a format it does not know.
ScmEncode(x, mime) ==
    IF ~ IsText(mime) THEN Raise
    ELSE OnBuffers(<<x>>, TRUE,
             IF Len(x.data) < 4 THEN Raise
             ELSE IF Channels(x.data) = 0 THEN Fault
             ELSE UNION {IF n = Fatal THEN Fault ELSE Return(Obj("u8v", <<n>>)) :
                           n \in EncodePcm(x.data, mime.data[1])})

\* racs_scm_init_bindings: the number of arguments; "+" stands for Guile's own.
ScmArity == [range |-> 3, meta |-> 2, encode |-> 2, list |-> 1, mix |-> 2, gain |-> 2, trim |-> 3,
             fade |-> 3, pan |-> 2, pad |-> 3, clip |-> 3, split |-> 2, merge |-> 2, plus |-> 2]

ScmCall(ctx, op, a) ==
    CASE op = "range" -> ScmRange(ctx, a[1], a[2], a[3])
      [] op = "meta" -> ScmMetadata(ctx, a[1], a[2])
      [] op = "encode" -> ScmEncode(a[1], a[2])
      [] op = "list" -> ScmStreamList(ctx, a[1])
      [] op = "mix" -> ScmMix(a[1], a[2])
      [] op = "gain" -> ScmGain(a[1], a[2])
      [] op = "trim" -> ScmTrim(a[1], a[2], a[3])
      [] op = "fade" -> ScmFade(a[1], a[2], a[3])
      [] op = "pan" -> ScmPan(a[1], a[2])
      [] op = "pad" -> ScmPad(a[1], a[2], a[3])
      [] op = "clip" -> ScmClip(a[1], a[2], a[3])
      [] op = "split" -> ScmSplit(a[1], a[2])
      [] op = "merge" -> ScmMerge(a[1], a[2])
      [] op = "plus" -> IF a[1].type = "int" /\ a[2].type = "int"
                        THEN Return(Obj("int", <<a[1].data[1] + a[2].data[1]>>)) ELSE Raise

-----------------------------------------------------------------------------
(* Evaluation *)

\* One call: the machine [stack, status] after it.
ScmStep(ctx, m, ins) ==
    IF m.status # "ok" THEN {m}
    ELSE IF ins.op = "lit" THEN {[m EXCEPT !.stack = Append(@, ins.val)]}
    ELSE IF ins.op \notin DOMAIN ScmArity THEN {[m EXCEPT !.status = "raise"]}
    ELSE LET rest == Len(m.stack) - ScmArity[ins.op]
             args == SubSeq(m.stack, rest + 1, Len(m.stack))
         IN  {[stack |-> Append(SubSeq(m.stack, 1, rest), r.value), status |-> r.status] :
                r \in ScmCall(ctx, ins.op, args)}

\* racs_scm_safe_eval in scm_c_catch; text that is no expression is an error too.
\* The limits of the sandbox (10 s, 50 MB) raise as well and are not modelled.
ScmEval(ctx, expr) ==
    IF expr \notin DOMAIN Program THEN Raise
    ELSE {[status |-> m.status, value |-> Last(m.stack)] :
            m \in FoldLeft(LAMBDA ms, ins : UNION {ScmStep(ctx, m, ins) : m \in ms},
                           {[stack |-> <<NullObj>>, status |-> "ok"]}, Program[expr])}

\* Mutant: the header of a buffer is left in the reply.
ScmPackWhole(x, final) == {x}

\* racs_scm_pack: the objects a value may become; NullVector stands for the end
\* of the process (a length below 2 wraps around).
ScmPack(x, final) ==
    CASE x.type = "s32v" -> IF ~ final THEN {x}
                            ELSE IF Len(x.data) < 2 THEN {NullVector} ELSE {S32v(Samples(x.data))}
      [] x.type = "s32null" -> {S32v(<<>>)}
      [] x.type = "list" -> IF \A i \in DOMAIN x.data :
                                   x.data[i].type \in {"string", "int", "float", "bool"}
                            THEN {x} ELSE {ErrorObj}
      [] x.type = "other" -> {ErrorObj}
      [] OTHER -> {x}

\* racs_scm_safe_eval_with_error_handling: #f is taken for an error.
ScmReply(ctx, expr, final) ==
    UNION {CASE r.status = "fault" -> {NullVector}
             [] r.status = "raise" -> {ErrorObj}
             [] r.value.type = "bool" /\ r.value.data = <<FALSE>> -> {ErrorObj}
             [] OTHER -> ScmPack(r.value, final) : r \in ScmEval(ctx, expr)}
=============================================================================
