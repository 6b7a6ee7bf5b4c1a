------------------------------- MODULE Commands -----------------------------
(***************************************************************************)
(* The commands (src/src/command.c): what each makes of its arguments, of  *)
(* the output buffer that the command before it left, and of the streams.  *)
(*                                                                         *)
(* An argument is a token [type, val].  The output buffer is a sequence of *)
(* objects: a command reads the first.  A command yields a set of results  *)
(* [ctx, out, rc, down]; down is the end of the process.                   *)
(***************************************************************************)
EXTENDS Scheme

Result(ctx, out, rc) == [ctx |-> ctx, out |-> out, rc |-> rc, down |-> FALSE]
Ok(ctx, obj) == {Result(ctx, <<obj>>, "ok")}

\* racs_pack_error behind msgpack_sbuffer_clear.
Fail(ctx) == {Result(ctx, <<ErrorObj>>, "error")}
Down(ctx) == {[ctx |-> ctx, out |-> <<>>, rc |-> "error", down |-> TRUE]}

\* How a filter packs the buffer of its operation: the last one drops the header.
\* Of a NULL result the size was never set: packing it reads from address 0, or
\* packs nothing.
Packed(ctx, b, final) ==
    IF b = Null THEN Down(ctx) \cup Ok(ctx, S32v(<<>>))
    ELSE Ok(ctx, S32v(IF final THEN Samples(b) ELSE b))

\* MessagePack has two types for integers; a time is an integer too.
ArgType(t) ==
    IF t.type \in {"int", "time"} THEN IF t.val < 0 THEN "neg" ELSE "pos" ELSE t.type

\* racs_validate_num_args and racs_validate_arg_type, per command.
ArgTypes ==
    [PING |-> <<>>, SHUTDOWN |-> <<>>,
     CREATE |-> <<"str", "pos", "pos", "pos">>,
     LIST |-> <<"str">>, OPEN |-> <<"str">>, CLOSE |-> <<"str">>,
     META |-> <<"str", "str">>, EVAL |-> <<"str">>, RANGE |-> <<"str", "float", "float">>,
     ENCODE |-> <<"str">>, GAIN |-> <<"float">>, TRIM |-> <<"float", "float">>,
     FADE |-> <<"float", "float">>, PAN |-> <<"float">>, PAD |-> <<"float", "float">>,
     CLIP |-> <<"neg", "pos">>, SPLIT |-> <<"pos">>]

Filters == {"ENCODE", "GAIN", "TRIM", "FADE", "PAN", "PAD", "CLIP", "SPLIT"}

-----------------------------------------------------------------------------
(* Sources: the output buffer is cleared first *)

Ping(ctx) == Ok(ctx, Obj("string", <<"PONG">>))

StreamCreate(ctx, a) ==
    LET s == a[1].val  channels == a[3].val % Half  depth == a[4].val % Half IN
    IF depth \notin {16, 24} \/ channels \notin {1, 2} \/ Exists(ctx, s) THEN Fail(ctx)
    ELSE Ok([ctx EXCEPT !.md = [t \in DOMAIN @ \cup {s} |->
                IF t = s THEN [sample_rate |-> a[2].val % Width, channels |-> channels,
                               bit_depth |-> depth, ref |-> 1] ELSE @[t]]], NullObj)

StreamList(ctx, a) == Ok(ctx, Obj("list", SetToSeq(Matching(ctx, a[1].val))))

StreamOpen(ctx, a) ==
    IF a[1].val \in ctx.open THEN Fail(ctx)
    ELSE Ok([ctx EXCEPT !.open = @ \cup {a[1].val}], NullObj)

StreamClose(ctx, a) ==
    IF a[1].val \notin ctx.open THEN Fail(ctx)
    ELSE Ok([ctx EXCEPT !.open = @ \ {a[1].val}], NullObj)

Metadata(ctx, a) ==
    IF ~ Exists(ctx, a[1].val) THEN Fail(ctx)
    ELSE LET v == MetaValue(ctx, a[1].val, a[2].val)
         IN  IF v = 0 THEN Fail(ctx) ELSE Ok(ctx, Obj("int", <<v>>))

Eval(ctx, a, final) ==
    UNION {CASE o.type = "s32null" -> Down(ctx)
             [] o.type = "error" -> Fail(ctx)
             [] OTHER -> Ok(ctx, o) : o \in ScmReply(ctx, a[1].val, final)}

\* racs_command_range
RangeOf(ctx, a, final) ==
    IF ~ Exists(ctx, a[1].val) THEN Fail(ctx)
    ELSE LET bs == RangeBuffers(ctx, a[1].val, a[2].val, a[3].val)
         IN  IF bs = {} THEN Fail(ctx) ELSE UNION {Packed(ctx, b, final) : b \in bs}

-----------------------------------------------------------------------------
(* Filters: b is the s32v that the command before left *)

\* The size is taken two words less, unchecked: below two words it is huge, and
\* the header is read from beyond the buffer.
Encode(ctx, b, a) ==
    IF Len(b) < 2 THEN Down(ctx) \cup Fail(ctx)
    ELSE IF Len(b) = 2 THEN Fail(ctx)
    ELSE IF Channels(b) = 0 THEN Down(ctx)
    ELSE UNION {IF n = Fatal THEN Down(ctx) ELSE IF n = 0 THEN Fail(ctx)
                ELSE Ok(ctx, Obj("u8v", <<n>>)) : n \in EncodePcm(b, a[1].val)}

\* Mutant: the length of the buffer is not checked.
SizedAny(ctx, b, result) == IF Len(b) < 2 THEN Down(ctx) ELSE result
\* The check of the other filters: room for the header.
Sized(ctx, b, result) == IF Len(b) < 2 THEN Fail(ctx) ELSE result

\* Memory outside the buffer was read or written.
Stray(ctx, b, a) == IF Strays(b, a[1].val, a[2].val) THEN Down(ctx) ELSE {}

Gain(ctx, b, a, final) == Sized(ctx, b, Packed(ctx, OpsGain(b, a[1].val), final))
Trim(ctx, b, a, final) ==
    Sized(ctx, b, Packed(ctx, OpsTrim(b, a[1].val, a[2].val), final) \cup Stray(ctx, b, a))
Fade(ctx, b, a, final) == Sized(ctx, b, Packed(ctx, OpsFade(b, a[1].val, a[2].val), final))
Pan(ctx, b, a, final) ==
    IF ~ InPan(a[1].val) THEN Fail(ctx)
    ELSE Sized(ctx, b, Packed(ctx, OpsPan(b, a[1].val), final))
Pad(ctx, b, a, final) ==
    Sized(ctx, b, Packed(ctx, OpsPad(b, a[1].val, a[2].val), final) \cup Stray(ctx, b, a))
Clip(ctx, b, a, final) ==
    Sized(ctx, b, Packed(ctx, OpsClip(b, Wrap32(a[1].val), Wrap32(a[2].val)), final))
Split(ctx, b, a, final) ==
    Sized(ctx, b, IF Channels(b) # 2 \/ a[1].val % Half > 1 THEN Fail(ctx)
                  ELSE Packed(ctx, OpsSplit(b, a[1].val % Half), final))

-----------------------------------------------------------------------------

\* A wrong number of arguments: racs_pack_invalid_num_args does not clear, so
\* behind a pipe the error follows the object that is there.
BadArity(name, ctx, out) ==
    {Result(ctx, Append(IF name \in Filters THEN out ELSE <<>>, ErrorObj), "error")}

\* One call of a command function.
Command(name, ctx, a, out, final) ==
    LET want == ArgTypes[name]
        b == out[1].data
    IN  CASE name = "SHUTDOWN" -> Down(ctx)
          [] name # "SHUTDOWN" /\ Len(a) # Len(want) -> BadArity(name, ctx, out)
          [] name # "SHUTDOWN" /\ Len(a) = Len(want) ->
               IF \E i \in DOMAIN want : ArgType(a[i]) # want[i] THEN Fail(ctx)
               ELSE IF name \in Filters /\ (out = <<>> \/ Head(out).type # "s32v") THEN Fail(ctx)
               ELSE CASE name = "PING" -> Ping(ctx)
                      [] name = "CREATE" -> StreamCreate(ctx, a)
                      [] name = "LIST" -> StreamList(ctx, a)
                      [] name = "OPEN" -> StreamOpen(ctx, a)
                      [] name = "CLOSE" -> StreamClose(ctx, a)
                      [] name = "META" -> Metadata(ctx, a)
                      [] name = "EVAL" -> Eval(ctx, a, final)
                      [] name = "RANGE" -> RangeOf(ctx, a, final)
                      [] name = "ENCODE" -> Encode(ctx, b, a)
                      [] name = "GAIN" -> Gain(ctx, b, a, final)
                      [] name = "TRIM" -> Trim(ctx, b, a, final)
                      [] name = "FADE" -> Fade(ctx, b, a, final)
                      [] name = "PAN" -> Pan(ctx, b, a, final)
                      [] name = "PAD" -> Pad(ctx, b, a, final)
                      [] name = "CLIP" -> Clip(ctx, b, a, final)
                      [] name = "SPLIT" -> Split(ctx, b, a, final)
=============================================================================
