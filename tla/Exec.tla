--------------------------------- MODULE Exec -------------------------------
(***************************************************************************)
(* The execution of a text request (src/src/exec.c, parser.c): its tokens  *)
(* become a plan, a list of commands; if all of them exist they are called *)
(* in turn, each on the output buffer of the one before.  The event loop   *)
(* runs one request at a time.                                             *)
(*                                                                         *)
(* A request is a sequence of chunks, a chunk a sequence of tokens.  A     *)
(* "bar" is a single '|'.                                                  *)
(***************************************************************************)
EXTENDS Commands

CONSTANTS
    Chunks,   \* chunk number -> sequence of tokens [type, val]
    Menus,    \* bound: the requests; a menu has, per position, the chunks there
    Contexts, \* the streams when the server starts
    LongNames, \* names that do not fit the array for a command's name
    Twin,     \* expression -> the chunks that ask for the same
    Seconds   \* durations that properties try

\* The tokens of racs_parser_next_token; an argument is neither a name nor a pipe.
ArgTokens == {"str", "int", "time", "float"}
TokenTypes == {"id", "pipe", "bar", "error"} \cup ArgTokens
Tokens == UNION {Range(Chunks[c]) : c \in DOMAIN Chunks}

ASSUME ChunkAssumption ==
    /\ \A c \in DOMAIN Chunks : Chunks[c] \in Seq(Tokens)
    /\ \A t \in Tokens :
        /\ t.type \in TokenTypes
        /\ t.type \in {"int", "time"} => t.val \in Int
        /\ t.type = "float" => t.val \in [n : Int, d : Nat \ {0}]
ASSUME MenuAssumption == \A menu \in Menus : menu \in Seq(SUBSET DOMAIN Chunks)
ASSUME ContextAssumption ==
    \A c \in Contexts : /\ c = [md |-> c.md, size |-> c.size, open |-> c.open]
                         /\ \A s \in DOMAIN c.md : c.md[s] \in Metadatas
ASSUME LongNameAssumption == LongNames \cap DOMAIN ArgTypes = {}
ASSUME SecondsAssumption == Seconds \subseteq [n : Nat, d : Nat \ {0}]

VARIABLES
    phase,    \* "idle", "build", "check", "exec", "destroy", "reply", "down"
    request,  \* history: the chunks of the request
    toks,     \* tokens the parser has not read
    prev,     \* type of the token before
    cmds,     \* racs_command objects that were made
    cmd,      \* the object being built; 0 is NULL
    plan,     \* racs_exec_plan: numbers of objects
    rcs,      \* status of every command called; the loop counter is its length
    out,      \* out_buf
    ctx,      \* the streams
    before    \* history: the streams when the request came

execVars == <<phase, request, toks, prev, cmds, cmd, plan, rcs, out, ctx, before>>

\* Requests of a menu, also those that end early.
RequestsOf(menu) ==
    UNION {{r \in [1 .. n -> UNION Range(menu)] : \A i \in 1 .. n : r[i] \in menu[i]} :
             n \in 1 .. Len(menu)}
Requests == UNION {RequestsOf(menu) : menu \in Menus}

\* The tokens of a request.
TextOf(r) == FlattenSeq([i \in DOMAIN r |-> Chunks[r[i]]])

-----------------------------------------------------------------------------
(* racs_parser_next_token *)

\* The expression of a pipe is not anchored: a '|', with the blank behind it, is
\* read as a pipe if there is a "|>" anywhere behind it.
Lexed(ts) ==
    IF Head(ts).type # "bar" THEN Head(ts).type
    ELSE IF \E i \in DOMAIN ts : ts[i].type = "pipe" THEN "pipe" ELSE "error"

-----------------------------------------------------------------------------
(* racs_exec_plan_build *)

Receive(r) ==
    /\ phase = "idle"
    /\ phase' = "build"
    /\ request' = r
    /\ toks' = TextOf(r)
    /\ UNCHANGED <<prev, cmds, cmd, plan, rcs, out, ctx, before>>

Building(type) == phase = "build" /\ toks # <<>> /\ Lexed(toks) = type

Read == toks' = Tail(toks) /\ prev' = Lexed(toks) /\ UNCHANGED <<request, rcs, ctx, before>>

\* racs_handle_error and RACS_EXEC_STATUS_ABORT.
Abort ==
    /\ phase' = "destroy"
    /\ out' = Append(out, ErrorObj)
    /\ UNCHANGED <<cmds, plan>>

\* racs_handle_id: a name may only come first or behind a pipe.
BuildId ==
    /\ Building("id") /\ Read
    /\ IF prev \in {"none", "pipe"}
       THEN /\ cmds' = Append(cmds, [name |-> Head(toks).val, args |-> <<>>])
            /\ cmd' = Len(cmds) + 1
            /\ UNCHANGED <<phase, plan, out>>
       ELSE Abort /\ cmd' = 0

\* racs_command_create copies the name whatever its length: what lies behind the
\* array is overwritten, and the process may end.
NameOverflow ==
    /\ Building("id") /\ prev \in {"none", "pipe"} /\ Head(toks).val \in LongNames
    /\ phase' = "down"
    /\ UNCHANGED <<request, toks, prev, cmds, cmd, plan, rcs, out, ctx, before>>

\* Mutant: arguments are put in front of those already there.
AddArgFront(c, t) == [c EXCEPT !.args = <<t>> \o @]
\* racs_command_add_arg
AddArg(c, t) == [c EXCEPT !.args = Append(@, t)]

\* racs_command_handle_str, _time, _int64, _float64.
BuildArg ==
    /\ \E type \in ArgTokens : Building(type)
    /\ Read /\ UNCHANGED cmd
    /\ IF prev \in {"none", "pipe"} THEN Abort
       ELSE /\ cmds' = [cmds EXCEPT ![cmd] = AddArg(@, Head(toks))]
            /\ UNCHANGED <<phase, plan, out>>

\* racs_exec_plan_add_command
AddCommand(p, c) == IF c = 0 THEN p ELSE Append(p, c)

\* Mutant: the command before a pipe takes effect when the pipe is read.
BuildPipeEager ==
    /\ Building("pipe")
    /\ toks' = Tail(toks) /\ prev' = "pipe" /\ plan' = AddCommand(plan, cmd)
    /\ \E r \in IF cmd = 0 \/ cmds[cmd].name \notin DOMAIN ArgTypes THEN Down(ctx)
               ELSE Command(cmds[cmd].name, ctx, cmds[cmd].args, out, FALSE) : ctx' = r.ctx
    /\ UNCHANGED <<phase, request, cmds, cmd, rcs, out, before>>

\* The command before the pipe is added and stays the current one.
BuildPipe ==
    /\ Building("pipe") /\ Read
    /\ plan' = AddCommand(plan, cmd)
    /\ UNCHANGED <<phase, cmds, cmd, out>>

\* Mutant: the error does not end the loop; the parser stays at the token.
BuildErrorStays ==
    /\ Building("error")
    /\ UNCHANGED execVars

BuildError ==
    /\ Building("error") /\ Read /\ UNCHANGED cmd
    /\ Abort

\* The end of the text: the current command is added, whatever came last.
BuildEnd ==
    /\ phase = "build" /\ toks = <<>>
    /\ plan' = AddCommand(plan, cmd)
    /\ phase' = "check"
    /\ UNCHANGED <<request, toks, prev, cmds, cmd, rcs, out, ctx, before>>

-----------------------------------------------------------------------------
(* racs_exec_plan_exec *)

\* racs_exec_get on the table of racs_exec_init; names are in capitals by now.
Known(name) == name \in DOMAIN ArgTypes

\* The first loop: every command must exist before one is called.
Check ==
    /\ phase = "check"
    /\ IF \E i \in DOMAIN plan : ~ Known(cmds[plan[i]].name)
       THEN phase' = "destroy" /\ out' = Append(out, ErrorObj)
       ELSE phase' = "exec" /\ UNCHANGED out
    /\ UNCHANGED <<request, toks, prev, cmds, cmd, plan, rcs, ctx, before>>

\* Mutant: an error does not end the loop.
GoesOnAlways(r) == ~ r.down
\* The status decides whether the loop goes on.
GoesOn(r) == ~ r.down /\ r.rc = "ok"

\* The call through the pointer of the table, which is NULL for an unknown name.
Func(c, final) ==
    IF Known(c.name) THEN Command(c.name, ctx, c.args, out, final) ELSE Down(ctx)

\* The second loop, one turn.
Call ==
    /\ phase = "exec" /\ plan # <<>>
    /\ LET at == Len(rcs) + 1 IN
       \E r \in Func(cmds[plan[at]], at = Len(plan)) :
         /\ ctx' = r.ctx /\ out' = r.out /\ rcs' = Append(rcs, r.rc)
         /\ phase' = IF r.down THEN "down"
                     ELSE IF GoesOn(r) /\ at < Len(plan) THEN "exec" ELSE "destroy"
    /\ UNCHANGED <<request, toks, prev, cmds, cmd, plan, before>>

\* A plan without commands calls nothing.
CallNone ==
    /\ phase = "exec" /\ plan = <<>>
    /\ phase' = "destroy"
    /\ UNCHANGED <<request, toks, prev, cmds, cmd, plan, rcs, out, ctx, before>>

\* racs_exec_plan_destroy.  A command that is in the plan twice is freed twice:
\* the allocator may end the process.
Destroy ==
    /\ phase = "destroy"
    /\ \/ phase' = "reply"
       \/ ~ IsInjective(plan) /\ phase' = "down"
    /\ UNCHANGED <<request, toks, prev, cmds, cmd, plan, rcs, out, ctx, before>>

\* The reply, a copy of out_buf, goes out and the buffers are freed.
Reply ==
    /\ phase = "reply"
    /\ phase' = "idle" /\ request' = <<>> /\ toks' = <<>> /\ prev' = "none"
    /\ cmds' = <<>> /\ cmd' = 0 /\ plan' = <<>> /\ rcs' = <<>> /\ out' = <<>>
    /\ before' = ctx
    /\ UNCHANGED ctx

-----------------------------------------------------------------------------

ExecInit ==
    /\ phase = "idle" /\ request = <<>> /\ toks = <<>> /\ prev = "none"
    /\ cmds = <<>> /\ cmd = 0 /\ plan = <<>> /\ rcs = <<>> /\ out = <<>>
    /\ ctx \in Contexts /\ before = ctx

Work == BuildId \/ NameOverflow \/ BuildArg \/ BuildPipe \/ BuildError \/ BuildEnd \/ Check \/ Call
          \/ CallNone \/ Destroy \/ Reply

ExecNext == (\E r \in Requests : Receive(r)) \/ Work

\* The read callback runs to its end.
ExecSpec == ExecInit /\ [][ExecNext]_execVars /\ WF_execVars(Work)

-----------------------------------------------------------------------------
(* Properties *)

Text == TextOf(request)
Starts(T) == {i \in DOMAIN T : i = 1 \/ T[i - 1].type \in {"pipe", "bar"}}

\* What the language of requests is: commands separated by pipes.
WellFormed(T) ==
    /\ T # <<>> /\ Last(T).type # "pipe"
    /\ \A i \in DOMAIN T :
        /\ T[i].type \notin {"bar", "error"}
        /\ T[i].type = "id" <=> i \in Starts(T)

\* The k-th name of a request, and the last token of its command.
Names(T) == {i \in DOMAIN T : T[i].type = "id"}
NameCount(T, i) == Cardinality({j \in Names(T) : j <= i})
NameAt(T, k) == CHOOSE i \in Names(T) : NameCount(T, i) = k
EndAt(T, k) == IF k = NameCount(T, Len(T)) THEN Len(T) ELSE NameAt(T, k + 1) - 2

StagesOf(T) ==
    [k \in 1 .. NameCount(T, Len(T)) |->
       [name |-> T[NameAt(T, k)].val, args |-> SubSeq(T, NameAt(T, k) + 1, EndAt(T, k))]]

Replied == phase = "reply"
Called == [k \in DOMAIN rcs |-> cmds[plan[k]]]
HasError == \E i \in DOMAIN out : out[i].type = "error"

\* A well-formed request is executed as written: its commands in their order,
\* each once and with its own arguments (the plan keeps pointers to objects that
\* the builder goes on filling).
PlanIsRequest ==
    phase \in {"check", "exec"} /\ WellFormed(Text) =>
        [k \in DOMAIN plan |-> cmds[plan[k]]] = StagesOf(Text)

\* A request with an unknown name, a name or an argument out of place or a text
\* that is no token changes no stream, however far behind a CREATE or OPEN it is.
Refused(T) ==
    \E i \in DOMAIN T :
        \/ T[i].type = "error"
        \/ T[i].type = "bar" /\ \A j \in i .. Len(T) : T[j].type # "pipe"
        \/ T[i].type = "id" /\ (i \in Starts(T) => ~ Known(T[i].val))
        \/ T[i].type \in ArgTokens /\ i \in Starts(T)
AllOrNothing == ctx # before => ~ Refused(Text)

\* No failure is hidden and none is invented: the reply ends in an error exactly
\* if the request was refused or a command failed, nothing is called after a
\* failure, and what an earlier command left is in no reply, except in front of
\* the error of a filter with a wrong number of arguments.
FailureShown ==
    Replied =>
        /\ HasError <=> Refused(Text) \/ "error" \in Range(rcs)
        /\ HasError => Last(out).type = "error"
        /\ \A i \in 1 .. Len(rcs) - 1 : rcs[i] = "ok"
        /\ Len(out) > 1 => /\ Last(Called).name \in Filters
                           /\ Len(Last(Called).args) # Len(ArgTypes[Last(Called).name])

-----------------------------------------------------------------------------
(* Audio in frames: what a pipe promises to do to each channel *)

Signal(b) ==
    LET c == Channels(b) IN
    [rate |-> Rate(b), depth |-> Depth(b), width |-> c,
     frames |-> [f \in 1 .. (Len(b) - 2) \div c |-> SubSeq(b, 3 + (f - 1) * c, 2 + f * c)]]

Each(sig, f(_, _)) ==
    [sig EXCEPT !.frames = [i \in DOMAIN @ |-> [c \in DOMAIN @[i] |-> f(c, @[i][c])]]]
FrameCount(sig, seconds) == (seconds.n * sig.rate) \div seconds.d
Silence(sig, seconds) ==
    [i \in 1 .. FrameCount(sig, seconds) |-> [c \in 1 .. sig.width |-> 0]]
Scaled(x, n, d) == IF x >= 0 THEN (x * n) \div d ELSE - (((- x) * n) \div d)

Promised(sig, stage) ==
    LET a == [i \in DOMAIN stage.args |-> stage.args[i].val] IN
    CASE stage.name = "GAIN" -> Each(sig, LAMBDA c, x : Scaled(x, a[1].n, a[1].d))
      [] stage.name = "TRIM" -> [sig EXCEPT !.frames =
             SubSeq(@, FrameCount(sig, a[1]) + 1, Len(@) - FrameCount(sig, a[2]))]
      [] stage.name = "PAD" -> [sig EXCEPT !.frames = Silence(sig, a[1]) \o @ \o Silence(sig, a[2])]
      [] stage.name = "PAN" -> Each(sig, LAMBDA c, x :
             LET away == IF c = 1 THEN a[1].n ELSE - a[1].n
             IN  IF away <= 0 THEN x ELSE Scaled(x, a[1].d - away, a[1].d))
      [] stage.name = "CLIP" -> Each(sig, LAMBDA c, x :
             IF x < a[1] THEN a[1] ELSE IF x > a[2] THEN a[2] ELSE x)
      [] stage.name = "SPLIT" -> [sig EXCEPT !.width = 1, !.frames =
             [i \in DOMAIN @ |-> <<@[i][a[1] + 1]>>]]

\* Filters with an answer per frame; a fade runs over the samples of all channels.
PerFrame(stage) ==
    /\ stage.name \in {"GAIN", "TRIM", "PAD", "PAN", "CLIP", "SPLIT"}
    /\ stage.name = "CLIP" => stage.args[2].val <= HighInt
    /\ stage.name \in {"TRIM", "PAD"} => \A i \in DOMAIN stage.args : stage.args[i].val.n >= 0

\* Every stage of a pipe behind a RANGE works on whole frames of the right
\* channels, with the header still in front between stages and gone at the end:
\* the buffer is what the frame-by-frame meaning of the stages makes of the range.
Composed ==
    (phase = "exec" \/ Replied) /\ rcs # <<>> /\ Range(rcs) = {"ok"} /\ Called[1].name = "RANGE"
      /\ (\A k \in 2 .. Len(rcs) : PerFrame(Called[k])) /\ Len(out[1].data) > 2 =>
        LET source == (CHOOSE r \in RangeOf(ctx, Called[1].args, FALSE) : TRUE).out[1].data
            promise == FoldLeft(Promised, Signal(source), Tail(Called))
        IN  IF phase = "exec" THEN Signal(out[1].data) = promise
            ELSE out[1].data = FlattenSeq(promise.frames)

\* Buffers on their way from one stage to the next.
Between == {out[i].data : i \in {i \in DOMAIN out : phase = "exec" /\ out[i].type = "s32v"
                                                     /\ Len(out[i].data) > 2}}

\* TRIM undoes PAD, also for durations that are no whole number of samples
\* (both convert seconds to samples the same way).
PadTrim ==
    \A b \in Between : \A l, r \in Seconds : OpsTrim(OpsPad(b, l, r), l, r) = b

\* The two channels that SPLIT extracts merge into the buffer again.
SplitMerge ==
    \A b \in Between : Channels(b) = 2 /\ Len(b) % 2 = 0 =>
        OpsMerge(OpsSplit(b, 0), OpsSplit(b, 1)) = b

\* A fade makes no sample louder and turns none around, also when fade in and
\* fade out overlap or are longer than the buffer; it begins with silence.
FadeNeverLouder ==
    \A b \in Between : \A l, r \in Seconds : \A i \in 1 .. Len(b) - 2 :
        LET x == At(b, i)  y == At(OpsFade(b, l, r), i) IN
        /\ IF x >= 0 THEN 0 <= y /\ y <= x ELSE x <= y /\ y <= 0
        /\ i = 1 /\ SampleCount(b, l) > 0 => y = 0

\* A WAV file fits the memory that the command allocates for it, and leaves out
\* at most a last incomplete frame.
EncodeFits ==
    \A b \in Between : Channels(b) > 0 /\ Depth(b) \in {16, 24} =>
        \A n \in EncodePcm(b, "audio/wav") :
            /\ n <= EncodeBytes(Depth(b), Len(b) - 2)
            /\ n > EncodeBytes(Depth(b), Len(b) - 2 - Channels(b))

\* What the operations and the WAV encoder owe each other, on every buffer that
\* passes between two stages of a request (ops.c, wav.c).
AudioLaws == PadTrim /\ SplitMerge /\ FadeNeverLouder /\ EncodeFits

-----------------------------------------------------------------------------

\* Commands after which a buffer may lack its header, or that find no result: an
\* operation without one, a vector that an expression made, and a PAD by a negative
\* duration, which writes over the header or in front of it.
MayLose(c) ==
    \/ c.name \in {"TRIM", "CLIP", "PAN", "EVAL"}
    \/ c.name = "PAD" /\ \E i \in DOMAIN c.args : c.args[i].type = "float" /\ c.args[i].val.n < 0

\* Whenever the process ends, the request has one of these in it: a command that a
\* stray pipe put into the plan twice, a name too long for its array, SHUTDOWN or a
\* command that may lose the header as the last one called, or an ENCODE as the last
\* one, in a compressed format or behind a command that may lose the header.  So a
\* pipe of RANGE, GAIN, FADE, SPLIT, PAD by no negative duration and ENCODE as WAV
\* never ends it, in any order and with any other arguments (command.c, ops.c).
DownCause ==
    phase = "down" =>
        \/ ~ IsInjective(plan)
        \/ \E i \in DOMAIN Text : Text[i].type = "id" /\ Text[i].val \in LongNames
        \/ rcs # <<>> /\ LET c == Last(Called) IN
             \/ c.name = "SHUTDOWN" \/ MayLose(c)
             \/ c.name = "ENCODE" /\ (c.args[1].val \in Compressed \/ \E k \in DOMAIN Called : MayLose(Called[k]))

\* The reply to the commands of a sequence of chunks.
PipeReply(chunks) ==
    LET stages == StagesOf(TextOf(chunks))
        call(r, k) == IF r.rc # "ok" THEN r
                      ELSE CHOOSE q \in Command(stages[k].name, ctx, stages[k].args, r.out,
                                                 k = Len(stages)) : TRUE
    IN  FoldLeft(call, Result(ctx, <<>>, "ok"), [k \in DOMAIN stages |-> k]).out

\* Where commands and bindings check alike, an expression is answered like the pipe
\* that asks for the same, in its data, its header and its refusals: both are
\* written separately over the same operations (command.c, scm_bindings.c).  Twin
\* has the pairs.  The checks that differ have no pair: PAN of one channel (refused
\* by the binding only), limits of CLIP (taken modulo 2^32 by the command, of one
\* sign each), an integer as GAIN (refused by the command), ENCODE of one sample or
\* in an unknown format, and LIST of no stream.
EvalMatchesPipe ==
    Replied /\ Len(plan) = 1 /\ Len(rcs) = 1 /\ Called[1].name = "EVAL" =>
        \A e \in DOMAIN Twin : Called[1].args = <<[type |-> "str", val |-> e]>> =>
            out = PipeReply(Twin[e])

\* Every request is answered, or ends the process: the parser moves on or stops
\* at every token.
RequestEnds == phase = "build" ~> phase \in {"idle", "down"}

\* What RANGE promises: the samples of the stream (docs/source/commands/range.rst).
\* It fails: the eight bytes kept for the header are converted as samples.
RangeExact ==
    Replied /\ Len(rcs) = 1 /\ rcs = <<"ok">> /\ Called[1].name = "RANGE" =>
        LET a == Called[1].args IN out[1].data = RangeAudio(a[1].val, a[2].val, a[3].val)
=============================================================================
