--------------------------------- MODULE Pcm ---------------------------------
(***************************************************************************)
(* Transcode of codec/pcm/pcm.go: a stream of audio comes in chunks, each  *)
(* call reads the samples of one, passes them through the filters that the *)
(* channels and the sample rates call for, and writes them out again.  A   *)
(* filter is a closure that keeps what is left over for the next call.     *)
(*                                                                         *)
(* The float32 numbers of the filters are rationals here: the factor is    *)
(* num / den, and n counts in units of 1 / den, so that nothing is rounded *)
(* (the instances use factors that a float32 holds exactly).               *)
(*                                                                         *)
(* A chunk has whole samples.  One of a 16-bit format with an odd number   *)
(* of bytes makes the reader panic before any filter has been called       *)
(* (pcm.go:90-96, 106-112), and is not fed here.                           *)
(***************************************************************************)
EXTENDS Law, SequencesExt

CONSTANTS
  Samples,      \* the samples that the stream may have
  Conversions,  \* the codec data for Transcode, as pairs of src and dst
  MaxFed,       \* bound: samples of the stream
  MaxCalls      \* bound: calls of the transcoder

ASSUME PcmAssumption ==
  /\ Samples \subseteq Lowest .. Highest
  /\ \A pair \in Conversions : \A i \in 1 .. 2 :
       /\ DOMAIN pair[i] = {"format", "rate", "channels"}
       /\ pair[i].format \in {"PCM", "PCML", "ULAW", "ALAW"}
       /\ pair[i].rate \in Nat \ {0} /\ pair[i].channels \in Nat \ {0}
  /\ MaxFed \in Nat /\ MaxCalls \in Nat

VARIABLES
  src, dst,  \* the codec data that Transcode was called with
  filters,   \* the filters with what they carry over
  fed,       \* the samples read so far
  got,       \* the bytes written so far, without those of filling zeros
  over,      \* a filter has filled more samples than its result has room for
  pads,      \* the most zeros a filter has left at the end of a result
  calls

pvars == <<src, dst, filters, fed, got, over, pads, calls>>

Ceil(x, y) == (x + y - 1) \div y

(* The conversion of a float32 to an int16 cuts off towards zero. *)
Cut(x, y) == IF x < 0 THEN -(-x \div y) ELSE x \div y

(***************************************************************************)
(* The readers and writers.                                                *)
(***************************************************************************)
High(sample) == (sample % 2 ^ 16) \div 256

Low(sample) == sample % 256

Int16(high, low) ==
  LET word == high * 256 + low IN  IF word > Highest THEN word - 2 ^ 16 ELSE word

Read(format, bytes) ==
  CASE format = "PCML" ->
         [j \in 1 .. Len(bytes) \div 2 |-> Int16(bytes[2 * j], bytes[2 * j - 1])]
    [] format = "PCM" ->
         [j \in 1 .. Len(bytes) \div 2 |-> Int16(bytes[2 * j - 1], bytes[2 * j])]
    [] format = "ULAW" -> [j \in DOMAIN bytes |-> PCMUtoPCM(bytes[j])]
    [] format = "ALAW" -> [j \in DOMAIN bytes |-> PCMAtoPCM(bytes[j])]

Write(format, samples) ==
  CASE format = "PCML" ->
         FlattenSeq([j \in DOMAIN samples |-> <<Low(samples[j]), High(samples[j])>>])
    [] format = "PCM" ->
         FlattenSeq([j \in DOMAIN samples |-> <<High(samples[j]), Low(samples[j])>>])
    [] format = "ULAW" -> [j \in DOMAIN samples |-> PCMtoPCMU(samples[j])]
    [] format = "ALAW" -> [j \in DOMAIN samples |-> PCMtoPCMA(samples[j])]

(***************************************************************************)
(* The filters.  One call gives the filled part of the result, the room    *)
(* that was made for it, and the filter as it is left behind.              *)
(***************************************************************************)
NewFilter(up, num, den) == [up |-> up, num |-> num, den |-> den, n |-> 0, sum |-> 0]

Passed(filter, filled, room) == [filter |-> filter, filled |-> filled, room |-> room]

(* One more sample for a filter that has filled out so far. *)
Average(f, sample) ==
  LET sum == f.filter.sum + sample
      n == f.filter.n + f.filter.den
      num == f.filter.num
  IN  IF n < num
      THEN [f EXCEPT !.filter.sum = sum, !.filter.n = n]
      ELSE [f EXCEPT !.filter.sum = 0, !.filter.n = n - num,
                     !.filled = Append(@, Cut(sum * f.filter.den, num))]

(* Faulty variant: what was summed up in the last call is forgotten. *)
DownsampleAfresh(filter, in) ==
  FoldLeft(Average,
           Passed([filter EXCEPT !.sum = 0], <<>>,
                  Ceil(Len(in) * filter.den + filter.n, filter.num)),
           in)

Downsample(filter, in) ==
  FoldLeft(Average,
           Passed(filter, <<>>, Ceil(Len(in) * filter.den + filter.n, filter.num)),
           in)

(* How often a sample is repeated while n is above 0. *)
Times(n, den) == IF n > 0 THEN Ceil(n, den) ELSE 0

Repeat(f, sample) ==
  LET n == f.filter.n + f.filter.num
      times == Times(n, f.filter.den)
  IN  [f EXCEPT !.filter.n = n - times * f.filter.den,
                !.filled = @ \o [k \in 1 .. times |-> sample]]

Upsample(filter, in) ==
  FoldLeft(Repeat, Passed(filter, <<>>, Ceil(filter.num * Len(in), filter.den)), in)

Pass(filter, in) == IF filter.up THEN Upsample(filter, in) ELSE Downsample(filter, in)

(* The whole result: what is not filled stays zero. *)
Result(passed) ==
  [j \in 1 .. passed.room |->
     IF j <= Len(passed.filled) THEN passed.filled[j] ELSE 0]

FiltersFor(to, from) ==
  (IF from.channels > 1 THEN <<NewFilter(FALSE, from.channels, 1)>> ELSE <<>>)
  \o (IF from.rate > to.rate THEN <<NewFilter(FALSE, from.rate, to.rate)>>
      ELSE IF from.rate < to.rate THEN <<NewFilter(TRUE, to.rate, from.rate)>>
      ELSE <<>>)
  \o (IF to.channels > 1 THEN <<NewFilter(TRUE, to.channels, 1)>> ELSE <<>>)

(***************************************************************************)
(* Transcode, and the calls of the function it returns.                    *)
(***************************************************************************)
(* Before Transcode is called. *)
NoCodec == [format |-> "none", rate |-> 1, channels |-> 1]

PcmInit ==
  /\ src = NoCodec /\ dst = NoCodec /\ filters = <<>>
  /\ fed = <<>> /\ got = <<>> /\ over = FALSE /\ pads = 0 /\ calls = 0

Transcode ==
  /\ src = NoCodec
  /\ \E pair \in Conversions :
       /\ src' = pair[1] /\ dst' = pair[2]
       /\ filters' = FiltersFor(pair[2], pair[1])
  /\ UNCHANGED <<fed, got, over, pads, calls>>

Chunks == UNION {[1 .. k -> Samples] : k \in 1 .. MaxFed - Len(fed)}

(* The calls of the filters so far, and one more on the last one's result. *)
PassOn(passed, filter) == Append(passed, Pass(filter, Result(Last(passed))))

Call ==
  /\ src # NoCodec /\ calls < MaxCalls
  /\ \E chunk \in Chunks :
       LET in == Read(src.format, Write(src.format, chunk))
           passed == FoldLeft(PassOn, <<Passed(<<>>, in, Len(in))>>, filters)
           left == {passed[k].room - Len(passed[k].filled) : k \in DOMAIN passed}
       IN  /\ fed' = fed \o in
           /\ filters' = [k \in DOMAIN filters |-> passed[k + 1].filter]
           /\ got' = got \o Write(dst.format, Last(passed).filled)
           /\ over' = (over \/ \E zeros \in left : zeros < 0)
           /\ pads' = Max(left \cup {pads})
  /\ calls' = calls + 1
  /\ UNCHANGED <<src, dst>>

PcmNext == Transcode \/ Call

PcmSpec == PcmInit /\ [][PcmNext]_pvars

(***************************************************************************)
(* The properties.                                                         *)
(***************************************************************************)
(* What a filter carries over is always less than one sample of its result   *)
(* (pcm.go:26-34, 48-55).                                                    *)
PcmTypeOK ==
  /\ src = NoCodec \/ <<src, dst>> \in Conversions
  /\ calls \in 0 .. MaxCalls
  /\ \A k \in DOMAIN filters :
       LET f == filters[k]
       IN  IF f.up THEN f.n \in -f.den + 1 .. 0 ELSE f.n \in 0 .. f.num - 1

(* However the stream is cut into chunks, a filter never fills more samples  *)
(* than it has made room for, which would be a panic, and never leaves more  *)
(* than one zero at the end of a chunk; what it carries over is less than    *)
(* one sample of its result (pcm.go:24-34, 46-55).                           *)
ChunksFit == PcmTypeOK /\ ~over /\ pads <= 1

Heard(format, sample) ==
  CASE format = "ULAW" -> PCMUtoPCM(PCMtoPCMU(sample))
    [] format = "ALAW" -> PCMAtoPCM(PCMtoPCMA(sample))
    [] OTHER -> sample

SumUpTo(k) ==
  LET sum[i \in 0 .. k] == IF i = 0 THEN 0 ELSE sum[i - 1] + fed[i]
  IN  sum[k]

(* The stream as one filter should give it: the mean of the samples that     *)
(* end in each span of num / den, or the sample that covers each span.       *)
Expected(f) ==
  IF f.up THEN [j \in 1 .. Ceil(Len(fed) * f.num, f.den) |->
                  fed[((j - 1) * f.den) \div f.num + 1]]
  ELSE [j \in 1 .. (Len(fed) * f.den) \div f.num |->
          Cut((SumUpTo(Ceil(j * f.num, f.den)) - SumUpTo(Ceil((j - 1) * f.num, f.den)))
                * f.den, f.num)]

(* With one filter or none, what has been filled in all calls together is    *)
(* what one call on the whole stream would fill: nothing is lost, repeated   *)
(* or summed up twice where the chunks meet, and the bytes mean the same in  *)
(* the other format (pcm.go:19-58, 84-214; the zeros left at the end of a    *)
(* chunk come on top).                                                       *)
SameStream ==
  src # NoCodec /\ Len(filters) <= 1 =>
    LET stream == IF filters = <<>> THEN fed ELSE Expected(filters[1])
    IN  Read(dst.format, got) = [j \in DOMAIN stream |-> Heard(dst.format, stream[j])]

(* However a stream is cut into chunks of whole samples, what comes out is   *)
(* the same stream (a chunk that ends inside a sample of 16 bits makes the   *)
(* code panic, pcm.go:90-96, and is not among them).                         *)
ChunksDoNotShow == ChunksFit /\ SameStream
=============================================================================
