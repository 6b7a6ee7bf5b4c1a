------------------------------- MODULE MCExec -------------------------------
(* Requests over a stereo 16-bit stream, a mono 24-bit stream and a name     *)
(* without a stream.                                                         *)
EXTENDS Exec

MCLowInt == -536870912

T(type, val) == [type |-> type, val |-> val]
Id(name) == T("id", name)
Str(s) == T("str", s)
Int_(n) == T("int", n)
Flo(n, d) == T("float", [n |-> n, d |-> d])
Pipe == T("pipe", "|>")

MCChunks == <<
    (*  1 *) <<Id("RANGE"), Str("a"), Flo(0, 1), Flo(9, 1)>>,
    (*  2 *) <<Id("RANGE"), Str("m"), Flo(0, 1), Flo(9, 1)>>,
    (*  3 *) <<Id("RANGE"), Str("b"), Flo(0, 1), Flo(1, 1)>>,
    (*  4 *) <<Id("PING")>>,
    (*  5 *) <<Id("CREATE"), Str("b"), Int_(Width + 2), Int_(Half + 2), Int_(16)>>,
    (*  6 *) <<Id("CREATE"), Str("b"), Int_(2), Int_(3), Int_(16)>>,
    (*  7 *) <<Id("OPEN"), Str("a")>>,
    (*  8 *) <<Id("CLOSE"), Str("a")>>,
    (*  9 *) <<Id("META"), Str("a"), Str("channels")>>,
    (* 10 *) <<Id("META"), Str("b"), Str("size")>>,
    (* 11 *) <<Id("LIST"), Str("*")>>,
    (* 12 *) <<Id("FOO"), T("time", 1)>>,
    (* 13 *) <<Id("SHUTDOWN")>>,
    (* 14 *) <<Pipe, Id("GAIN"), Flo(3, 2)>>,
    (* 15 *) <<Pipe, Id("GAIN")>>,
    (* 16 *) <<Pipe, Id("GAIN"), Int_(3)>>,
    (* 17 *) <<Pipe, Id("TRIM"), Flo(1, 2), Flo(1, 2)>>,
    (* 18 *) <<Pipe, Id("TRIM"), Flo(9, 1), Flo(9, 1)>>,
    (* 19 *) <<Pipe, Id("FADE"), Flo(1, 1), Flo(3, 2)>>,
    (* 20 *) <<Pipe, Id("PAN"), Flo(-1, 2)>>,
    (* 21 *) <<Pipe, Id("PAN"), Flo(2, 1)>>,
    (* 22 *) <<Pipe, Id("PAD"), Flo(1, 2), Flo(1, 1)>>,
    (* 23 *) <<Pipe, Id("CLIP"), Int_(-50), Int_(50)>>,
    (* 24 *) <<Pipe, Id("CLIP"), Int_(-50), Int_(HighInt + 1)>>,
    (* 25 *) <<Pipe, Id("SPLIT"), Int_(1)>>,
    (* 26 *) <<Pipe, Id("SPLIT"), Int_(2)>>,
    (* 27 *) <<Pipe, Id("ENCODE"), Str("audio/wav")>>,
    (* 28 *) <<Pipe, Id("ENCODE"), Str("audio/ogg")>>,
    (* 29 *) <<Pipe, Id("ENCODE"), Str("audio/x")>>,
    (* 30 *) <<Pipe, Id("PING")>>,
    (* 31 *) <<Pipe, Id("OPEN"), Str("a")>>,
    (* 32 *) <<Pipe, Id("FOO")>>,
    (* 33 *) <<Pipe>>,
    (* 34 *) <<T("bar", "|")>>,
    (* 35 *) <<T("error", "%")>>,
    (* 36 *) <<Str("b")>>,
    (* 37 *) <<Id("EVAL"), Str("gain")>>,
    (* 38 *) <<Id("EVAL"), Str("trim")>>,
    (* 39 *) <<Id("EVAL"), Str("fade")>>,
    (* 40 *) <<Id("EVAL"), Str("pan")>>,
    (* 41 *) <<Id("EVAL"), Str("pad")>>,
    (* 42 *) <<Id("EVAL"), Str("clip")>>,
    (* 43 *) <<Id("EVAL"), Str("split")>>,
    (* 44 *) <<Id("EVAL"), Str("encode")>>,
    (* 45 *) <<Id("EVAL"), Str("meta")>>,
    (* 46 *) <<Id("EVAL"), Str("merge")>>,
    (* 47 *) <<Id("EVAL"), Str("mix")>>,
    (* 48 *) <<Id("EVAL"), Str("null")>>,
    (* 49 *) <<Id("EVAL"), Str("short")>>,
    (* 50 *) <<Id("EVAL"), Str("false")>>,
    (* 51 *) <<Id("EVAL"), Str("nested")>>,
    (* 52 *) <<Id("EVAL"), Str("sum")>>,
    (* 53 *) <<Id("EVAL"), Str("list")>>,
    (* 54 *) <<Id("EVAL"), Str("unbound")>>,
    (* 55 *) <<Id("EVAL"), Str("none")>>,
    (* 56 *) <<Id("EVAL"), Str("pannull")>>,
    (* 57 *) <<Id("EVAL"), Str("widepan")>>,
    (* 58 *) <<Id("EVAL"), Str("badsplit")>>,
    (* 59 *) <<Id("EVAL"), Str("norange")>>,
    (* 60 *) <<Id("EVAL"), Str("nometa")>>,
    (* 61 *) <<Id("EVAL"), Str("ogg")>>,
    (* 62 *) <<Id("EVAL"), Str("stray")>>,
    (* 63 *) <<Pipe, Id("PAD"), Flo(-1, 4), Flo(0, 1)>>,
    (* 64 *) <<Pipe, Id("PAD"), Flo(1, 4), Flo(-1, 1)>>,
    (* 65 *) <<Pipe, Id("PAD"), Flo(-9, 1), Flo(0, 1)>>,
    (* 66 *) <<Pipe, Id("TRIM"), Flo(-1, 4), Flo(1, 2)>>,
    (* 67 *) <<Pipe, Id("FADE"), Flo(-1, 1), Flo(-1, 4)>>,
    (* 68 *) <<Pipe, Id("ENCODE"), Str("audio/mp3")>>,
    (* 69 *) <<Id("VERYLONG")>>,
    (* 70 *) <<Pipe, Id("VERYLONG")>>
>>

MCMenus == {
    \* pipes of three stages
    << {1, 2}, 14 .. 30, {14, 17, 18, 19, 20, 22, 23, 25, 26, 27, 28, 30} >>,
    \* filters behind what is no audio
    << {3, 9}, {14, 17, 22, 27}, {20, 28} >>,
    \* streams change, and something is wrong later
    << {4, 5, 6, 7, 8, 10, 11, 12, 13}, {30, 31, 32, 33, 34, 35, 36, 4}, {30, 31, 32, 33, 36, 15} >>,
    \* expressions, alone and in front of a filter
    << 37 .. 62 >>, << {37, 43, 48, 49, 50, 53, 62}, {14, 17, 27, 30} >>,
    \* negative durations
    << {1}, 63 .. 68, {14, 22, 27, 64} >>,
    \* names that are too long
    << {5, 7, 69}, {33, 70}, {30, 36} >>,
    \* pipes of four stages
    << {1}, {17, 20, 22}, {22, 23, 33}, {14, 17, 25, 27} >>,
    \* no command first
    << {14, 33, 34, 35, 36}, {14, 4, 33} >> }

L(val) == [op |-> "lit", val |-> val]
F(op) == [op |-> op, val |-> NullObj]
N(n) == L(Obj("int", <<n>>))
R(n, d) == L(Obj("float", <<[n |-> n, d |-> d]>>))
S(s) == L(Obj("string", <<s>>))
RangeA == <<S("a"), N(0), R(9, 1), F("range")>>

MCProgram ==
    [gain |-> RangeA \o <<R(3, 2), F("gain")>>,
     trim |-> RangeA \o <<R(1, 2), R(1, 2), F("trim")>>,
     fade |-> RangeA \o <<N(1), R(3, 2), F("fade")>>,
     pan |-> RangeA \o <<R(-1, 2), F("pan")>>,
     pad |-> RangeA \o <<R(1, 2), N(1), F("pad")>>,
     clip |-> RangeA \o <<N(-50), N(50), F("clip")>>,
     split |-> RangeA \o <<N(1), F("split")>>,
     encode |-> RangeA \o <<S("audio/wav"), F("encode")>>,
     meta |-> <<S("a"), S("channels"), F("meta")>>,
     merge |-> RangeA \o <<N(0), F("split")>> \o RangeA \o <<N(1), F("split"), F("merge")>>,
     mix |-> RangeA \o RangeA \o <<R(-1, 1), F("gain"), F("mix")>>,
     null |-> RangeA \o <<N(9), N(9), F("trim"), N(2), F("gain")>>,
     short |-> <<L(S32v(<<7>>))>>,
     false |-> <<L(Obj("bool", <<FALSE>>))>>,
     nested |-> <<L(Obj("list", <<Obj("int", <<1>>), Obj("list", <<>>)>>))>>,
     sum |-> <<N(1), N(2), F("plus")>>,
     list |-> <<S("b"), F("list")>>,
     unbound |-> <<N(1), F("car")>>,
     pannull |-> RangeA \o <<N(9), N(9), F("trim"), N(0), F("pan")>>,
     widepan |-> RangeA \o <<R(2, 1), F("pan")>>,
     badsplit |-> RangeA \o <<N(2), F("split")>>,
     norange |-> <<S("b"), N(0), N(1), F("range")>>,
     nometa |-> <<S("b"), S("size"), F("meta")>>,
     ogg |-> RangeA \o <<S("audio/ogg"), F("encode")>>,
     stray |-> RangeA \o <<N(-1), N(0), F("pad")>>]

MCTwin == [gain |-> <<1, 14>>, trim |-> <<1, 17>>, fade |-> <<1, 19>>, pan |-> <<1, 20>>,
           pad |-> <<1, 22>>, clip |-> <<1, 23>>, split |-> <<1, 25>>, encode |-> <<1, 27>>,
           meta |-> <<9>>, widepan |-> <<1, 21>>, badsplit |-> <<1, 26>>, norange |-> <<3>>,
           nometa |-> <<10>>]

MCBlocks == [a |-> <<[at |-> 0, samples |-> <<100, -200, 30, -40>>],
                     [at |-> 1000, samples |-> <<5, 60, -7, 8>>]>>,
             m |-> <<[at |-> 0, samples |-> <<1000, -1000, 70000>>]>>]

MCContexts ==
    {[md |-> [a |-> [sample_rate |-> 2, channels |-> 2, bit_depth |-> 16, ref |-> 1],
              m |-> [sample_rate |-> 2, channels |-> 1, bit_depth |-> 24, ref |-> 1]],
      size |-> [a |-> 16, m |-> 9],
      open |-> {}]}

MCSeconds == {[n |-> 0, d |-> 1], [n |-> 1, d |-> 3], [n |-> 1, d |-> 1], [n |-> 5, d |-> 2]}
=============================================================================
