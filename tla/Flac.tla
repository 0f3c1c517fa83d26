--------------------------------- MODULE Flac ---------------------------------
(***************************************************************************)
(* codec/pcm/flac.go: FLACEncoder makes the function that puts every chunk *)
(* of samples into a frame of its own.  Of a frame are kept the numbers by *)
(* which a decoder goes; the samples themselves are those of the laws.     *)
(***************************************************************************)
EXTENDS Integers, Sequences

CONSTANTS
  ChunkSizes, \* lengths of chunks, in bytes
  Clocks,     \* clock rates
  MaxEncoded  \* bound: the frames that are made

ASSUME FlacAssumption ==
  ChunkSizes \subseteq Nat /\ Clocks \subseteq Nat /\ MaxEncoded \in Nat

VARIABLES
  encoder,       \* its codec, its clock rate and whether there is one
  sampleNumber,
  frames,        \* how many there are
  before, last,  \* the last frame but one and the last one
  panicked

fvars == <<encoder, sampleNumber, frames, before, last, panicked>>

NoFrame == [number |-> 0, block |-> 0, bytes |-> 0, code |-> 0]

FlacInit ==
  /\ encoder = [codec |-> "none", rate |-> 0, made |-> FALSE]
  /\ sampleNumber = 0 /\ frames = 0 /\ before = NoFrame /\ last = NoFrame
  /\ panicked = FALSE

CodeTable ==
  {<<8000, 4>>, <<16000, 5>>, <<22050, 6>>, <<24000, 7>>, <<32000, 8>>,
   <<44100, 9>>, <<48000, 10>>, <<96000, 11>>}

Codes ==
  [rate \in {entry[1] : entry \in CodeTable} |->
     CHOOSE code \in 4 .. 11 : <<rate, code>> \in CodeTable]

(* For any other rate there is no encoder. *)
FLACEncoder(codec, rate) ==
  /\ encoder.codec = "none"
  /\ encoder' = [codec |-> codec, rate |-> rate, made |-> rate \in DOMAIN Codes]
  /\ UNCHANGED <<sampleNumber, frames, before, last, panicked>>

(* What utf8.EncodeRune writes of a number: surrogates and numbers beyond    *)
(* the last character become the replacement character.                      *)
Rune(n) ==
  IF 0 <= n /\ n <= 1114111 /\ ~(55296 <= n /\ n <= 57343) THEN n ELSE 65533

RuneLen(n) ==
  IF Rune(n) < 128 THEN 1 ELSE IF Rune(n) < 2048 THEN 2
  ELSE IF Rune(n) < 65536 THEN 3 ELSE 4

Uint16(n) == n % 65536

(* An int32 beyond its end goes on from the other. *)
Int32(n) ==
  IF n <= 2147483647 THEN n ELSE (n - 2147483647 - 1) - 2147483647 - 1

(* Faulty variant: PCM is counted in bytes, as PCML is. *)
SamplesInBytes(codec, size) == Uint16(size)

(* Only of PCM the bytes are halved. *)
Counted(codec, size) == IF codec = "PCM" THEN Uint16(size) \div 2 ELSE Uint16(size)

Bytes(codec, size) == IF codec \in {"ALAW", "ULAW"} THEN 2 * size ELSE size

(* The header, the subframe and the checksum do not fit, or half a sample is *)
(* left to turn around.                                                      *)
Panics(codec, size) ==
  \/ 8 + RuneLen(sampleNumber) + Bytes(codec, size) + 2 > Uint16(2 * Counted(codec, size) + 30)
  \/ codec = "PCML" /\ size % 2 = 1

Encode(size) ==
  /\ encoder.made /\ ~panicked /\ frames < MaxEncoded
  /\ LET samples == Counted(encoder.codec, size)
     IN  IF Panics(encoder.codec, size)
         THEN panicked' = TRUE /\ UNCHANGED <<sampleNumber, frames, before, last>>
         ELSE /\ frames' = frames + 1
              /\ sampleNumber' = Int32(sampleNumber + samples)
              /\ before' = last
              /\ last' = [number |-> Rune(sampleNumber), block |-> Uint16(samples - 1) + 1,
                          bytes |-> Bytes(encoder.codec, size),
                          code |-> Codes[encoder.rate]]
              /\ UNCHANGED panicked
  /\ UNCHANGED encoder

FlacNext ==
  \/ \E codec \in {"ALAW", "ULAW", "PCM", "PCML"}, rate \in Clocks : FLACEncoder(codec, rate)
  \/ \E size \in ChunkSizes : Encode(size)

FlacSpec == FlacInit /\ [][FlacNext]_fvars

(***************************************************************************)
(* The header of the stream: 42 bytes.                                     *)
(***************************************************************************)
Zeros(n) == [k \in 1 .. n |-> 0]

FLACHeader(magic, rate) ==
  (IF magic THEN <<102, 76, 97, 67>> ELSE Zeros(4)) \o <<128, 0, 0, 34, 128, 0, 128, 0>>
  \o Zeros(6)
  \o <<(rate \div 4096) % 256, (rate \div 16) % 256, (rate * 16) % 256, 240>> \o Zeros(20)

(* Its fields, at their places in the format: 20 bits, 3 and 5.              *)
HeaderFields(b) ==
  [rate |-> 4096 * b[19] + 16 * b[20] + (b[21] \div 16),
   channels |-> ((b[21] \div 2) % 8) + 1,
   sampleBits |-> 16 * (b[21] % 2) + (b[22] \div 16) + 1]

(***************************************************************************)
(* Properties.                                                             *)
(***************************************************************************)
Replaced == 65533

IsWhole(frame) == frame.bytes >= 2 /\ frame.bytes % 2 = 0

ShortChunksFit ==
  \A size \in ChunkSizes : size <= 32752 /\ size % 2 = 0 => ~Panics(encoder.codec, size)

BlockIsExact ==
  frames > 0 /\ encoder.codec # "PCML" /\ IsWhole(last) => last.bytes = 2 * last.block

NumbersFollow ==
  frames > 1 /\ IsWhole(before) /\ before.number # Replaced /\ last.number # Replaced =>
    last.number = before.number + before.block

HeaderTellsRate ==
  encoder.made =>
    HeaderFields(FLACHeader(TRUE, encoder.rate)) =
      [rate |-> encoder.rate, channels |-> 1, sampleBits |-> 16]

FrameTellsRate == encoder.made /\ frames > 0 => Codes[encoder.rate] = last.code

(* FLACEncoder: chunks of whole samples, of at most 32752 bytes, are framed  *)
(* whatever came before.  A frame announces just the samples that it holds   *)
(* (of PCML it does not), and its number is where the frame before it ended, *)
(* unless one of the two numbers could not be written as a rune; the header  *)
(* announces the same rate and 16 bits of one channel.                       *)
FramesAreNumbered ==
  ShortChunksFit /\ BlockIsExact /\ NumbersFollow /\ HeaderTellsRate /\ FrameTellsRate
=============================================================================
