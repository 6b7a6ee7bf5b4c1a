-------------------------------- MODULE Audio -------------------------------
(***************************************************************************)
(* PCM buffers and what the audio operations make of them (src/src/ops.c,  *)
(* types.c, pcm.c, wav.c).  A buffer is a sequence of words: the sample    *)
(* rate, channels and bit depth in one word, and the samples, interleaved. *)
(*                                                                         *)
(* A floating-point argument is a fraction [n, d].  A negative duration is *)
(* converted to size_t and wraps around: sums with it come out as if it    *)
(* were negative, comparisons as if it were huge.                          *)
(***************************************************************************)
EXTENDS Integers, Sequences, SequencesExt

CONSTANTS
    LowInt, HighInt,   \* the 32-bit range of a word
    Junk               \* a word read outside an allocation

\* 24-bit samples are among the words.
ASSUME WordAssumption ==
    /\ LowInt \in Int /\ HighInt \in Int /\ LowInt <= -8388608 /\ 8388607 <= HighInt
    /\ Junk \in LowInt .. HighInt

Half == 65536
Null == <<>>

\* The conversions between the 32-bit types.
Width == HighInt - LowInt + 1
Unsigned(w) == IF w < 0 THEN w + Width ELSE w
Wrap32(v) == LowInt + ((v - LowInt) % Width)

Rate(b) == Unsigned(b[1])
Channels(b) == Unsigned(b[2]) \div Half
Depth(b) == b[2] % Half
Samples(b) == SubSeq(b, 3, Len(b))
With(b, samples) == <<b[1], b[2]>> \o samples
Larger(m, n) == IF m > n THEN m ELSE n
Smaller(m, n) == IF m < n THEN m ELSE n

\* The conversion of a double: towards zero; out of range, the value that the
\* x86-64 instruction delivers.
Truncated(n, d) == IF n >= 0 THEN n \div d ELSE - ((- n) \div d)
Int32(n, d) ==
    LET q == Truncated(n, d) IN IF LowInt <= q /\ q <= HighInt THEN q ELSE LowInt

\* Samples in a duration, of all channels.
SampleCount(b, seconds) == Truncated(seconds.n * Rate(b) * Channels(b), seconds.d)

\* A count in front of or behind the samples that the code subtracts or adds
\* unchecked, and whether memory in front of or behind the buffer is touched then:
\* two words of header come first.
Outside(l, r) == l < 0 \/ r < 0
Strays(b, left, right) == SampleCount(b, left) < -2 \/ SampleCount(b, right) < 0

At(b, i) == IF i + 2 <= Len(b) THEN b[i + 2] ELSE 0

OpsMix(a, b) ==
    With(a, [i \in 1 .. Larger(Len(a), Len(b)) - 2 |-> Int32(At(a, i) + At(b, i), 1)])

\* Mutant: the two words of the header are scaled too.
OpsGainHeader(b, gain) == [i \in 1 .. Len(b) |-> Int32(gain.n * b[i], gain.d)]

OpsGain(b, gain) ==
    With(b, [i \in 1 .. Len(b) - 2 |-> Int32(gain.n * At(b, i), gain.d)])

\* Nothing left is a NULL result, and so is a negative sum.
OpsTrim(b, left, right) ==
    LET l == SampleCount(b, left)  r == SampleCount(b, right)  n == Len(b) - 2 IN
    IF l + r >= n \/ l + r < 0 THEN Null
    ELSE IF Outside(l, r)
         THEN With(b, [i \in 1 .. n - l - r |-> IF 2 + l + i \in DOMAIN b THEN b[2 + l + i] ELSE Junk])
    ELSE With(b, SubSeq(Samples(b), l + 1, n - r))

\* Mutant: the gain of the fade out replaces the smaller gain of the fade in.
FadeGainLast(n, in, out, i) ==
    IF i >= n - out THEN [n |-> out - (i - (n - out)), d |-> out]
    ELSE IF i < in THEN [n |-> i, d |-> in] ELSE [n |-> 1, d |-> 1]

\* Gain of sample i, counted from 0: the smaller of the two ramps.
FadeGain(n, in, out, i) ==
    LET up == IF i < in THEN [n |-> i, d |-> in] ELSE [n |-> 1, d |-> 1]
        down == IF i >= n - out THEN [n |-> out - (i - (n - out)), d |-> out]
                ELSE [n |-> 1, d |-> 1]
    IN  IF down.n * up.d < up.n * down.d THEN down ELSE up

\* At most n; what has wrapped around is more.
Capped(count, n) == IF count \in 0 .. n THEN count ELSE n

OpsFade(b, fadeIn, fadeOut) ==
    LET n == Len(b) - 2
        in == Capped(SampleCount(b, fadeIn), n)
        out == Capped(SampleCount(b, fadeOut), n)
    IN  With(b, [i \in 1 .. n |->
                   LET g == FadeGain(n, in, out, i - 1) IN Int32(g.n * At(b, i), g.d)])

\* A buffer with fewer than two channels is a NULL result.  In a buffer with an
\* odd number of samples the loop touches one word past the end.
OpsPan(b, pan) ==
    IF Channels(b) < 2 THEN Null
    ELSE With(b, [i \in 1 .. Len(b) - 2 |->
                    LET c == (i - 1) % Channels(b) IN
                    IF c = 0 THEN Int32(Smaller(pan.d, pan.d - pan.n) * At(b, i), pan.d)
                    ELSE IF c = 1 THEN Int32(Smaller(pan.d, pan.d + pan.n) * At(b, i), pan.d)
                    ELSE 0])

\* The samples are copied over the header if the left side is negative.  A length
\* below the header wraps around later, one below 0 at once: no result.
OpsPad(b, left, right) ==
    LET l == SampleCount(b, left)  r == SampleCount(b, right)
        zeros(n) == [i \in 1 .. n |-> 0]
    IN  IF ~ Outside(l, r) THEN With(b, zeros(l) \o Samples(b) \o zeros(r))
        ELSE IF Len(b) + l + r < 2 THEN Null
        ELSE [j \in 1 .. Len(b) + l + r |->
                IF 2 < j - l /\ j - l <= Len(b) THEN b[j - l] ELSE IF j <= 2 THEN b[j] ELSE 0]

OpsClip(b, min, max) ==
    IF min > max THEN Null
    ELSE With(b, [i \in 1 .. Len(b) - 2 |-> Larger(min, Smaller(max, At(b, i)))])

OpsSplit(b, channel) ==
    IF Channels(b) # 2 THEN Null
    ELSE <<b[1], Depth(b) + Half>>
           \o [f \in 1 .. (Len(b) - 2) \div 2 |-> At(b, 2 * f - 1 + channel)]

OpsMerge(a, b) ==
    IF Channels(a) # 1 \/ Channels(b) # 1 \/ Rate(a) # Rate(b) \/ Depth(a) # Depth(b)
    THEN Null
    ELSE <<a[1], Depth(a) + 2 * Half>>
           \o [i \in 1 .. 2 * (Larger(Len(a), Len(b)) - 2) |->
                 At(IF i % 2 = 1 THEN a ELSE b, (i + 1) \div 2)]

-----------------------------------------------------------------------------
(* From stored bytes to words *)

\* Byte k of a sample, the low byte being 0, and a sample from its bytes
\* (racs_s16_s32, racs_s24_s32).
ByteOf(v, k) == (v \div (CASE k = 0 -> 1 [] k = 1 -> 256 [] k = 2 -> 65536)) % 256
OfBytes(bytes) ==
    IF Len(bytes) = 2
    THEN bytes[1] + bytes[2] * 256 - (IF bytes[2] >= 128 THEN 65536 ELSE 0)
    ELSE bytes[1] + bytes[2] * 256 + bytes[3] * 65536 - (IF bytes[3] >= 128 THEN 16777216 ELSE 0)

\* racs_pcm_init leaves 8 zero bytes in front of what racs_pcm_write adds.
PcmStream(depth, audio) ==
    LET w == depth \div 8 IN
    [j \in 1 .. 8 + Len(audio) * w |->
       IF j <= 8 THEN 0 ELSE ByteOf(audio[(j - 9) \div w + 1], (j - 9) % w)]

\* racs_command_range and racs_scm_range: as many samples are converted as were
\* written, from the start of the stream; the header replaces the first two, and
\* two words more than were converted are passed on.
RangeWords(rate, channels, depth, audio) ==
    LET w == depth \div 8  stream == PcmStream(depth, audio) IN
    <<Wrap32(rate), channels * Half + depth>>
      \o [i \in 1 .. Len(audio) |->
            IF i + 2 <= Len(audio) THEN OfBytes(SubSeq(stream, (i + 1) * w + 1, (i + 2) * w))
            ELSE Junk]

-----------------------------------------------------------------------------
(* racs_wav_write *)

\* Bytes written for the samples of a buffer, behind 12 + 24 + 8 of headers.
WavBytes(channels, depth, size) == 44 + (size \div channels) * channels * (depth \div 8)
\* Bytes the command allocates.
EncodeBytes(depth, size) == size * (depth \div 8) + 44
=============================================================================
