# TLA+ models of avsdk

`avsdk` is a Go library for moving compressed audio and video: a stream manager
that fans packets out from sources to sinks, helpers that open, create and copy
files, and parsers and writers for the bit streams involved. This directory
models it in TLA+, checks the models with TLC on small instances, and proves
with TLAPS, for every instance, the safety properties of the stream manager and
its producers, of copying and of the registry, two refinements, and what most of
the data algorithms compute: slices of vectors, FLAC numbering, audio frames, the bit
reader and writer, Exp-Golomb codes, the framing of NAL units, AAC headers, session
descriptions and decoder configuration records.

The repository has no prose documentation (its README is empty), so everything
here is translated from the Go code, and compared with what the comments of
`av/muxer.go`, `av/demuxer.go` and `av/factory.go` require of callers.

## 1. Inventory

### The stream manager (`av/streammanager3`)

Three objects, each with a goroutine of its own, below one another.

| Component | State | Operations |
|---|---|---|
| `StreamManager` (`streammanager.go`) | the map of producers, `started`, `alreadyClosing`, the context and its cancel function, the unbuffered channel `producersToStart` | `Start`, `AddConsumer`, `RemoveConsumer`, `PauseProducer`, `ResumeProducer`, `SignalStop`, `WaitStop`, `Stop`; the goroutine starts producers and sweeps the idle ones every second |
| `Producer` (`producer.go`) | the map of consumers, the demuxer, its streams or its error (`codecsCh`), `started`, `alreadyClosing`, the context, the channel `consumersToStart` | `Start`, `AddConsumer`, `RemoveConsumer`, `Pause`, `Resume`, `Close`; the main goroutine opens the demuxer, starts consumers and sweeps the inactive ones, the read loop copies every packet into every active queue |
| `Consumer` (`consumer.go`) | `inactive`, `lastError`, `alreadyClosing`, the context, `streamsCh`, the queue of 50 packets, the muxer | `Start`, `WriteHeader`, `WritePacket`, `Close`; the goroutine waits for the streams, opens the muxer, and writes what is in the queue |

They interact by calls from several goroutines (callers of `AddConsumer` run
inside the producer and the consumer), by rendezvous on unbuffered channels, by
maps under a lock that is released between reading and deleting, by atomic
flags, and by contexts that are derived from one another. The sources and sinks
are callbacks: factories, removers, `av.DemuxCloser`, `av.MuxCloser`.

What is hard: every pair of the above may interleave. A snapshot of a map is
used after the lock is gone. `Close` may look for a cancel function that
`Start` has yet to set. A call may wait for a goroutine that has ended. A queue
may be full when its reader dies. Every external call may fail. A caller may
cancel at any time.

What makes it correct: the maps and the goroutines agree (what runs can be
found and stopped); one consumer per ID, one demuxer per producer ID, one muxer
per consumer ID; packets arrive in order, at most once, at everyone who is
live; what `AddConsumer` returns is what has become of the consumer; calls
return, sweeps come, `Stop` ends.

### Opening, creating and copying (`av/avutil`)

`Handlers` is a registry: `Open` and `Create` ask each handler in order of
registration, then match the extension, then probe. `HandlerDemuxer` and
`HandlerMuxer` pair a demuxer or muxer with the source or sink below it;
`HandlerMuxer` counts in `stage` whether its header and trailer have been
written. `CopyPackets` and `CopyFile` are loops over calls that may each fail or
return `io.EOF`. Correct means: the first handler that claims a URI gets it, what
was opened can be closed, one header and at most one trailer, packets complete
and in order or an error. `Equal` compares stream lists and has no state.

### Bit streams (`codec`, `utils/bits`, `av/audtioframe.go`)

Sequential code in which the boundaries are hard.

| Component | State | Operations |
|---|---|---|
| NAL unit framing (`codec/parser`) | none | `IsAnnexBOrAVCC`, `SplitNALUs`, `FindNextAnnexBNALUnit`, the two conversions |
| bit reader and writer, Exp-Golomb reader (`utils/bits`) | a register and what is in it | reads and writes of so many bits, of codes |
| byte vectors (`utils/bits/pio/vec.go`) | none | `VecLen`, `VecSliceTo`, `VecSlice` |
| H.264 and H.265 parsers (`codec/h264parser`, `codec/h265parser`) | `CodecData`: the configuration record and what was read of the SPS | `ParseSPS`, the slice header, `Unmarshal`, `Marshal`, the constructors |
| SDP (`codec/sdp.go`) | the sets of a medium, one error | `SdpToCodecs` |
| AAC (`codec/aacparser`) | none | the config and the ADTS header, read and written |
| G.711, transcoder, FLAC (`codec/pcm`) | what is left of a chunk; the number of the next sample | the laws, `Transcode`, `FLACEncoder` |
| audio frames (`av/audtioframe.go`) | planes that may share an array | `Slice`, `Concat` |

Correct means: what one side writes the other reads, every part is found
whatever its length and whatever stands before it, what was cut is not taken for
something whole, what one call leaves behind does not decide about the next, and
nothing that does not fit is made up.

### Not modelled

| Part | Why |
|---|---|
| getters of the `CodecData` types, predicates on types of NAL units but for `IsDataNALU` of H.265 | single expressions over what is modelled |
| `avutil.Equal` | a comparison of types and records, one after the other |
| `pio/reader.go`, `pio/writer.go` | straight-line shifts; the forms in use are part of `Nalu`, `Rbsp` and `Pcm` |
| `mjpeg`, `opus_codec.go`, `speex.go`, `pcml.go`, `FlipEndian` of `pcm.go` | getters, a swap |
| `av/*.go` but for `audtioframe.go` | interfaces, value types, names of codes, `String` methods |
| the checksums of FLAC, the text of an SDP | libraries |
| build files and CI | no program logic |

## 2. Modules

```
Consumer -> Producer -> ProducerProperties -> MCProducer
               |               |
               |            Fanout
               +-> StreamManager -> ManagerProperties -> MCManager
                                       |
                                    Sources

Handlers -----------------------------------+
Copy (and Joins) ---------------------------+-> MCAvutil -+
Words -> BitWriter, BitReader ----------------------------+-> MCUtils
Numbers -> GolombCodes -> Golomb -------------------------+
   |            |        Vec (and Joins) -----------------+
   |            |
   |            +-> Rbsp -> H264Parser, H265Parser -> ParameterSets, Sdp --+   (-> MCSlices)
   |       (and Records, and it Joins)
   +-> Aac ----------------------------------------------------------------+
Nalu (and Joins) -> NaluData, NaluUnits -----------------------------------+-> MCCodec
Law -> LawSweep, Pcm, Flac, Frames ----------------------------------------+

Proofs, and what they extend:

ProducerProperties -> ProducerProofs -> FanoutProofs
ManagerProperties, ProducerProofs ------------------> ManagerProofs
Joins, Numbers -> InductionProofs
Handlers, Copy, InductionProofs --------------------> AvutilProofs
Vec, Flac, Frames, InductionProofs -----------------> DataProofs
BitWriter, BitReader, Golomb, InductionProofs ------> BitsProofs
NaluUnits, Aac, Sdp, ParameterSets, InductionProofs -> CodecProofs
```

`Fanout` and `Sources` are abstract specifications; `ProducerProperties` and
`ManagerProperties` have the refinements. `MCUtils` and `MCCodec` put components
that share no state into one run: `part` names the one that moves while the others
rest in their initial states, so that the states of the run are those of each
component in turn, and their number is the sum, not the product.

An operator whose comment begins with "Faulty variant" is not part of a
specification: it is what a definition could become by a plausible mistake, and
stands beside it to show that a property would notice.

### Consumer, Producer, StreamManager

`con[c]`, `prod[p]` and `mgr` are records whose fields are those of the Go
structs, with a program counter for each goroutine; the comment at the top of
each module lists them. `call[k]` is the frame of an `AddConsumer` on a producer,
`add[k]` that of one on the manager, which runs the former inside it, `rem[r]`
that of a `RemoveConsumer`. There is one action per stretch of code between two
points where another goroutine can be noticed: a lock, an atomic, a channel
operation, an external call. A rendezvous is one action of both sides. The
`defer`s of a goroutine are its program counters after the loop, in reverse
order of their statements.

| Code | Definitions |
|---|---|
| `Consumer.Start` and its goroutine | `DeriveContext`, `Spawned`, `WaitCancelled` ... `RunMuxerRemover`, `ConsumerStep` |
| `Consumer.WriteHeader`, `WritePacket`, `Close`, `setLastError` | `TakeStreams`, `GiveNoStreams`, `CloseStreams`; `HasRoom`, `Enqueue`; `CloseBegin`; `SetLastError` |
| `Producer.Start` and its goroutine | `Launch`, `OpenDemuxer`, `GetStreams`, `ReceiveConsumer`, `SpawnConsumer`, `SweepBegin`, `CloseOne`, `ClosedOne`, `SweepEnd`, `LoopExit`, `ExitBegin`, `ExitEnd`, `RunDemuxerRemover`, `CloseDemuxer`, `Finish` |
| `readWriteLoop` | `ReaderTick`, `ReadPacket`, `ReadError`, `PickTarget`, `DeliverPacket`, `WriteCancelled`, `WriteDone`, `ReaderCancelled` |
| `Producer.AddConsumer` | `CheckClosing` ... `HeaderCancelled`, in the order of the code |
| `RemoveConsumer`, `Pause`, `Resume`, `Close` | `RemoveLookup`, `RemoveClose`, `RemoveReturn`; `Pause`; `Resume`; `ProducerCloseBegin` |
| `StreamManager` | the actions of the same names; `AddGate` ... `AddReturns` for `AddConsumer` |

In `Producer` alone the environment plays the manager (`EnvStart`, `EnvClose`,
`EnvParentDone`, `EnvCall`) and is freer than it; `StreamManager` replaces it.

Abstractions. A consumer is named by the call that makes it, its ID is
`IdOf[k]`. Packets are numbered as the demuxer delivers them; the code has no
bound, the models have `MaxPackets`. The choice of active consumers under the
read lock (`producer.go:190-201`) is one step, as nothing else can write the map,
although `inactive` may change meanwhile; `CloseBegin` merges the
compare-and-swap, the flag and the reading of `cancel`, which no other step of
the models tells apart; `Launch` merges `Start` with the first statement of the
goroutine, and the lookup of the manager's `RemoveConsumer` is one step with that
of the producer's. Timeouts of five seconds bound only the context of a remover
and are left out. Time is left out: a ticker may fire whenever its select is
reached. `MayFail` lets a call with a done context fail, and one with a live
context fail only if named in `Faults`. In `StreamManager` a producer object that
has ended and is referred to by nobody stands for the next new one, which keeps
retries finite (`OutOfObjects` names the case in which the bound bites).
`CanStop` allows `SignalStop` and the end of the context given to `Start`
(`ContextEnds`); a context that has ended before `Start` is one that ends just after it.

### Fanout

What the read loop promises, without queues, goroutines or a consumer map: a packet is
published to all subscribers that have joined and not gone, and to no other; each
accepts it once, and the next one is not published before all have; only who is gone is
forgotten. A publisher that has been cancelled, or has given up, may drop packets and
forget subscribers. `FansOut` states that each producer implements it: its members have
joined, those whose consumers are inactive are gone, what a consumer has accepted is its
log, and a producer gives up when its context is done or there are no codecs.

### Sources

What the manager promises the owners of sources, without producer objects,
goroutines, calls or locks: a source is asked for, started, closed and forgotten;
it is open for one at a time; one that has been started is not forgotten before it
has been closed, nor while it is open; and after the end of the manager nothing is
started or opened. `SourcesAreManaged` states that `StreamManager` implements it: an
ID is in the map or not, its producer in the map has been started, or is being closed,
and its source is open from the call of the demuxer factory that succeeds to the close
of the demuxer; those of producers that were started after they had been closed (`late`)
are in nobody's hands and left out.

### Copy, Handlers

`Copy` runs `CopyFile` as actions between the calls of source and destination,
each of which has any outcome of `Outcomes`; `wrapped` says whether `TakeMuxer` got the
destination from `avutil.Create`, as a `HandlerMuxer`, or the muxer itself; `Changer` whether
the inner muxer is an `av.CodecChanger`.
`log` is what reaches the inner muxer. `Handlers` keeps the registry and, for
every source and sink that was opened, who can close it. A URI is its prefix
`listen:`, whether it has a scheme, and its extension; a handler is the sets of
URIs its callbacks claim.

### Nalu, Words, Numbers, BitWriter, BitReader, Golomb, Vec, Aac, Law, Pcm

Operators with the names of the functions, under a specification that produces
every input within bounds. The register models are state machines of the calls; a
word is a function from the places of its bits, so that shifts and masks are moves of
bits and no arithmetic. The loops of `Nalu` over a byte string are recursive functions of
the place reached: what `SplitAVCC` finds from a place on is the unit there and what it
finds behind it.
In `Vec` the two loops of `VecSliceTo` are functions of the number of turns, with a
record of the code's variables between two turns (`At`) and one operator for a turn of
each loop (`SkipPiece`, `TakePiece`); a turn ends its loop or a piece, so that as many
turns as pieces are enough, and the proofs show it. `Joins` joins sequences, for
properties; `Numbers` has what `GolombCodes` and `Aac` take of bits, powers of two, the
bits of a number and the number in some bits.
Widths are scaled where a full one is out of reach: `Base` values of a byte in
`Nalu` (3 instead of 256: 0 and 1, of which start codes are made, and one other),
`WordBits`/`ByteBits` in `Words` (6/3 instead of 64/8), `UintBits` and `MaxZeros` in
`GolombCodes`. `Law` and the bytes of `Pcm` have their full width. `Pcm` counts in exact
fractions where the code has `float32`, so its instances use factors a `float32`
holds exactly, and is fed whole samples: a chunk of 16-bit samples with an odd number of
bytes makes the reader panic (`pcm.go:93`, `109`). A failing `io.Writer` below the bit writer is left out.

### Rbsp, H264Parser, H265Parser, ParameterSets

Bytes have eight bits here. `Rbsp` has the two functions that take out emulation
bytes, the syntax elements, and what both parsers share. The code reads an element,
returns if that fails, and goes on to the next; a reader is therefore a record in
which the values are collected by name and which stops for good at the first element
that is missing. `H264Parser` and `H265Parser` list the elements in the order and
under the conditions of the code, a part of the syntax to an operator, and
have the configuration records and the constructors of `CodecData`. `Records` has the
lists of units in such a record, each unit behind its length: `Sized` writes one and
`Units` reads one, as both parsers do.

`ParameterSets` is a history of one SPS. An encoder, which is not part of the code,
writes it as the two ITU-T recommendations have it, with emulation bytes; `LoseEnd`
cuts it; `Parse`, `Make` and `MakeAgain` are calls of the parsers, the last one with
a record that may have lost its end as well. `ReceiveSlice` is a call of
`ParseSliceHeaderFromNALU` with a unit of any H.265 type. An index out of range in a
constructor, or in `Unmarshal`, is a result with `panics`: `Unmarshal` of H.265 does not
check that the counts of SPS and PPS are there (`OutOfRange`, `EndsInCount`).
`SetsAssumption` says that a set has octets, fewer than two bytes can count, and as many
as the constructors index without asking: `Marshal` writes a length without looking
whether it fits.

### Sdp

The state is what `SdpToCodecs` holds between two media: `ret` and `err`, and how
it has ended. One action takes one medium through the whole loop body, in one of
the three ways out of it. Of codec data `ret` keeps the medium it came from, the VPS,
SPS and PPS of its record, and what was parsed. A medium is reduced to the attributes that are there, its
encoding and its parameters, a value to the bytes it decodes to, or to none.

### Flac, Frames

A frame of `Flac` is the numbers in it; `RuneLen` and `Rune` are what
`utf8.EncodeRune` makes of a number, `Uint16` the width of the sizes, `Int32` that of
the number that becomes a rune. `Frames` has
memory: an array is a sequence of bytes that are all different, a plane is a slice
of Go, with an offset and a length, and `append` goes into the array if there is room
(`Fits`), else into a new one, with as much spare room as `Spare` says.

## 3. Runs

Every run ends within about three minutes. `CHECK_DEADLOCK FALSE` throughout:
calls and packets are bounded, and a system whose calls have all returned stops.

### Producer and consumers (`MCProducer`)

| Run | Shows | Bounds |
|---|---|---|
| `MCProducer` | types; `InOrder`, `FansOut` | 2 consumers, 2 packets, queues of 1: the second packet meets a full queue, a failing muxer leaves one |
| `MCProducerRemove` | `RunningIsMember`, `OneMuxerPerId`, `RemoverIsHeard`, `FailedAddIsInactive`, and `MembershipInv`, the invariant of the proofs, which implies the first two, `UniqueIds` and `LeftoversNeverRun` | 2 calls for the same ID, the first of which may be cancelled while the producer lives, the second with a nil error channel, a demuxer that may have no codecs, one remover, sweeps and shutdown at any time |
| `MCProducerLive` | `CancelledProducerStops`, `CallReturns`, `LiveTargetTakesPacket`, `InactiveIsSwept`, `NilMeansHeaderTaken` | one cancellable call, every external call failing, pauses, two packets and a queue of 1, so that the reader blocks |

### Stream manager (`MCManager`)

| Run | Shows | Bounds |
|---|---|---|
| `MCManager` | types; `RunningProducerIsMapped`, `StoppedIsQuiet`; the refinement `SourcesAreManaged` | one call, one remover, two producer objects, failing factories, `SignalStop` and the end of the context of `Start` |
| `MCManagerTwo` | `OneDemuxerPerId` | two calls for one producer ID, two objects, failing factories |
| `MCManagerLive` | `StopCompletes`, `IdleIsSwept`, `AddReturnsOrClosed` | one cancellable call, one producer object, which is used again for each retry, failing factories, stop |

`MaxPackets` is 0 here: what happens to packets is a matter of one producer, and
checked there. Two calls and two objects are enough for the races these
properties are about, which are between one call or sweep and another; the
interplay of three calls on one ID is the proofs' for the producer. Liveness has one
object only, since the number of objects changes which of them a retry gets and not
whether it goes on. No run of the manager has a remover together with a
cancellable call: a consumer is named by its call, and a cancelled call that
retries on a producer that is still alive would use the name of a consumer that
another goroutine may hold.

### Exceptions that the properties name

The code does not keep the plain form of some of these, and the properties say
where: a consumer goroutine may outlive its entry in the map if its `Close` came
before its `Start`, or while a `RemoveConsumer` is still waiting for it
(`Detached`; a second `Close` does not wait, `consumer.go:148`). A producer swept
away between its creation and its start is started all the same and runs
unmapped (`late`, `streammanager.go:93-118`). An `AddConsumer` that is closed under
waits until its own context ends (`CallReturns`, `AddReturnsOrClosed`). A failed
consumer with a nil error channel stays in the map, active, until it is removed or the
producer ends (`FailedAddIsInactive`, `consumer.go:172`). Any other failed one is
inactive, which is all that is promised: a producer in its loop sweeps it away
(`InactiveIsSwept`), but once the main goroutine has left the loop no sweep comes, and an
entry that its clean-up does not find (a factory that failed has none, and a call may
insert behind it) stays in the map for good. A dead consumer with a full queue stops
the fan-out for everyone (`LiveTargetTakesPacket`). `AddConsumer` may return nil for
a consumer that will never write (`NilMeansHeaderTaken`). After a stop a retry loop
goes on for ever. The idle sweep may close a producer that a call has just created,
time and again (`SweepsPause`).

### Copying, opening, bits (`MCUtils`)

| Properties | Bounds |
|---|---|
| `Copy`: `CopiesInOrder`, with types, one header and at most one trailer (`OneHeaderOneTrailer`), and behind the trailer only later copies (`TrailerEndsCopy`); `NilMeansCopied` | two `CopyFile` calls and a direct `WriteTrailer` on one muxer, wrapped or not, two packets of every kind, any call failing or returning `io.EOF` |
| `Handlers`: `SinksAreHeld`, with types; `FirstRegisteredWins` | three registrations out of four kinds of handler, three calls, three kinds of URI |
| `BitWriter`: `OutputIsExact`, with types | 10 bits, more than a word of 6 |
| `BitReader`: `ReadIsExact`, with types; `OnlyWideReadsCrowd` | sources of 4 bytes, that is 12 bits, with short reads |
| `GolombIsRead`: the code of a number is read as that number, and as a signed one up to its top bit | 12 bits: every code of up to 4 zeros, with more to follow |
| `Vec`: `SliceIsExact` | 5 pieces of up to 3 bytes, every range and beyond |

### Codecs (`MCCodec`)

| Properties | Bounds |
|---|---|
| `DataKeepsUnits`: the prefixes and the units account for every byte, and converted data has the same units (`NaluData`) | every string of at most 11 bytes: two start codes of 4 with units around them, and two lengths of 4 |
| `UnitsSurvive`: framed units come back from splitting and from converting (`NaluUnits`) | every list of units of at most 5 bytes in all |
| `SpsIsRead`: the size and the rate of the stream are the encoder's, or, of an SPS that was cut, these or an error | every H.264 setting alone and in company: scaling lists, orders of pictures, plane formats, sizes, fields, rates; H.265 with every combination of flags for up to two sub-layers, and with six; cut after any byte |
| `CodecDataSurvives`: codec data is made of the sets that can be parsed, and made again out of its record, which is refused if it lacks a byte, or panics if it ends within a count of H.265 | the same streams, one PPS, one VPS; the record cut anywhere |
| `SdpKeepsCodecs`: a medium described in full has its codec data in the result, whatever stands around it, and no codec data has a VPS, SPS or PPS of another medium | three media out of fourteen: complete ones in both notations, and every kind of gap |
| `Aac`: `ConfigSurvives`, whole or not at all, and the ADTS header | values at the edges of every field |
| `LawsHold`: codes survive, levels are close, and the laws are monotone (`LawSweep`) | all 65536 samples: complete |
| `Pcm`: `ChunksDoNotShow`: the room fits, and the result does not depend on where the stream was cut | 5 samples in up to 3 chunks, every pair of formats, factors 3/2, 2, 5/2 and 3 either way, one to three channels |
| `FramesAreNumbered`: a FLAC frame has the number of its first sample and the length of its samples | chunks at 24000, 32752 and 32754 bytes, 36 of them, so that numbers pass the surrogates and the last character of Unicode |
| `FramesKeepSamples`: the result of `Slice` and `Concat` has the samples it was made of, and other frames keep theirs | 4 frames of up to 2 samples, planes and packed, arrays with room behind them or not |

Where the code is only right within limits the property, or the instance, says which:

- the bit writer loses bits when a value is split over a full register (`spilled`), the
  reader when a read is too wide for what is left (`crowded`), `ReadSE` loses the sign;
- an ADTS frame of 8192 bytes or more gets a wrong length; -32768 becomes silence in
  both laws; a chunk of audio that ends within a sample of the result has a zero added;
- AVCC data whose first length looks like a start code is taken for Annex B;
- the H.264 parser crops in pairs of samples (`parser.go:535-536`), which is right for
  4:2:0 frames only: the streams that are cropped are of this kind, and streams of fields
  have rows that need no cropping; the H.265 parser does not take the
  window off nor read a rate (`Shown`);
- the H.265 record comes back with `LengthSizeMinusOne` 0 where 3 was put in
  (`parser.go:463`, `610`, `500`);
- `SdpToCodecs` returns the error of the last value or medium only, so that no error does
  not mean that every medium was read; a medium of H.264 or H.265 with too short an SPS,
  or none, panics in the constructor (`ended` is "panic");
- FLAC numbers beyond Unicode, or among its surrogates, become U+FFFD (`Replaced`);
  chunks over 32752 bytes panic, as the room is computed in 16 bits; PCML frames
  announce twice their samples; an empty chunk announces 65536;
- `Slice` of packed samples of several channels is too short, as it leaves the
  channels out of account; U8P is not among the planar formats; `Concat` writes over what
  another frame has behind the end of the first one, if they share an array.

### Disagreements with the comments

Four runs each state a sentence of a doc comment, which the code violates.

| Run | Sentence | What the code does |
|---|---|---|
| `MCRemoverOrder` | `factory.go:13`: the remover is called after `Close` | the deferred remover runs first (`producer.go:96-104`) |
| `MCCodecChange` | `muxer.go:36`: `CopyPackets` forwards changed codecs | `HandlerMuxer` hides that its muxer is a changer (`avutil.go:34`, 325) |
| `MCSources` | `demuxer.go:30`: what `Open` returns closes its source | the opened source is dropped (`avutil.go:189-196`) |
| `MCSlices` | `nalutype.go:17`: the type of an H.265 unit is `header[0]>>1 & 0x3f` | `ParseSliceHeaderFromNALU` takes `pkt[0] & 0x1f` (`h265parser/parser.go:689`) and finds no header in most slices |

Five more are in the models and have no run: nothing in the code stands between the
two sides, so that a reader of the lines sees them.

- `muxer.go:16` has `WriteTrailer` called exactly once; a consumer closes its muxer
  without it (`consumer.go:81`, `CloseMuxer`).
- `demuxer.go:19` has `ReadPacket` called until the end or cancellation; the read loop
  may call it after `Close` (`producer.go:182-186`, `CloseDemuxer`, `ReaderTick`).
- `demuxer.go:42` has no packets after `Pause`; `Pause` returns nil before there is a
  demuxer (`producer.go:278-285`, `Pause`).
- `muxer.go:14` has callers follow the order of header, packets and trailer exactly; a
  second `CopyFile` into a `HandlerMuxer` has its header and trailer swallowed and
  writes its packets behind the trailer of the first (`avutil.go:40-62`, 355-376,
  `WritePacket`, `TrailerEndsCopy`).
- `muxer.go:17` has a second trailer return an error; `HandlerMuxer` returns nil
  (`avutil.go:54-61`, `WriteTrailer`).

## 4. Fairness

Weak fairness for each goroutine of the code and each call that has begun: a
goroutine that can go on does, and external calls return. Nothing is assumed of
the environment (nobody need call, close, cancel or stop) nor of a demuxer, except
that `ReadPacket` returns when its context is done. In `Producer` nothing is assumed
of the choice of a `select` among ready cases: packets and calls are bounded, so none
can be passed over for ever. In `StreamManager` retries can bring a goroutine back to
the same `select` without end; there `ManagerExit` and `AwaitCodecsCancelled` get
strong fairness, as Go picks among ready cases at random. That a ticker fires again
and again is part of the weak fairness of its goroutine.

## 5. Proofs

Proved for every value of the constants, under the named assumptions on them:

| Module | Theorems | Inductive invariant |
|---|---|---|
| `ProducerProofs` | `TypeCorrect`; `MembershipCorrect`, and from it `UniqueIds`, `RunningIsMember`, `OneMuxerPerId`, `LeftoversNeverRun` | `ProducerTypeOK`, `MembershipInv` |
| `FanoutProofs` | `RemoverIsHeard`, `FailedAddIsInactive`, `NilMeansHeaderTaken`; `ServingCorrect`, `InOrder`; `FansOut`: the producer implements `Fanout` | `HearingInv`, `CodecsPending`; `OrderInv`, `ServedInv` |
| `ManagerProofs` | `ManagerTypeOK`, `RunningProducerIsMapped`, `OneDemuxerPerId`, `StoppedIsQuiet`; `SourcesAreManaged`: the manager implements `Sources`; what is proved of a producer under any caller holds under the manager | `ManagerInv`, `ManagedInv` |
| `AvutilProofs` | `SinksAreHeld`, `FirstRegisteredWins`; `CopiesInOrder`, `NilMeansCopied` | `SinksAreHeld` itself; `CopyInv` |
| `DataProofs` | `SliceIsExact`, also for every range of integers; `FramesAreNumbered`; `FramesKeepSamples` | after every turn of a loop `SkipInv`, `TakeInv`; `FlacInv`; `FramesInv` |
| `BitsProofs` | `OutputIsExact`, `ReadIsExact`, `OnlyWideReadsCrowd`; `GolombIsRead` | `OutputIsExact`, `ReadIsExact` themselves; that the data are bits |
| `CodecProofs` | `UnitsSurvive`; `ConfigSurvives`; `SdpKeepsCodecs`; `CodecDataSurvives` | `UnitsInv`; `AacInv`; `SdpInv`; `SetsInv` |

### The producer

`ProducerProofs` proves `TypeCorrect`: `ProducerSpec => []ProducerTypeOK`, one lemma
per kind of step.

It then proves `ProducerSpec => []MembershipInv` and, from it, `UniqueIds`,
`RunningIsMember`, `OneMuxerPerId` and `LeftoversNeverRun`, for any number of
producers, calls, removers and IDs and any faults, under the named assumptions on
the constants in `Consumer` and `Producer`. None of the four is inductive. That a
running consumer is a member fails to be kept by the deletion at the end of a sweep
unless one knows that the sweep has closed what it deletes and has waited for it;
hence the parts of `MembershipInv`:

- `SweepProgress`: what a sweep has dealt with is closing, and what came into the
  map after the snapshot of the shutdown has not been started;
- `ClosingIsAwaited`: whoever began to close a running consumer still waits for it;
- `LostIsClosing`: a consumer leaves the map of a live producer only when closing;
- `QuietMembers`: outside the select loop nothing in the map has been started;
- `StartedByCall`: a started consumer was handed over by its call, so that a new entry
  is not started;
- `RunningIsFound`, `OpenMuxerRuns`, `UniqueIds`: what the theorems need.

The proof sorts the steps by what they change: those that leave the consumers and
the map alone (`MainMovesKeep`), those of one consumer goroutine
(`ConsumerStepKept`), and the ones that matter, with a lemma each (`ReceiveKeeps`,
`SpawnKeeps`, `SweepStartsKeep`, `CloseOneKeeps`, `ClosedOneKeeps`, `SweepEndKeeps`,
`ExitEndKeeps`, `InsertKeeps`, `RemoverKeeps`). `MCProducerRemove` checks the same
invariant with TLC.

`StartedByCall` is the only part that depends on who calls. The rest, `MapInv`, is
proved from what any caller keeps to (a step either leaves a call where it was or goes
on in the order of `AddConsumer`), so that `ManagerProofs` can use the same lemmas
under the stream manager, which retries calls and makes producers anew.

`FanoutProofs` proves first, on top of `MembershipInv`, what the calls promise their
callers:

- `RemoverIsHeard`, from the inductive `HearingInv`: a running goroutine has a context,
  and once its consumer is closed that is done or was derived too late (`AllHear`);
  what a RemoveConsumer waits for is closing (`AwaitedAreClosing`), and no
  AddConsumer makes it anew, because a call whose consumer has been in the map never
  comes back to the insertion (`MembersArePast`, `RemovedArePast`);
- `FailedAddIsInactive`, which needs the same: a call that fails before the insertion
  is not past it, so its consumer is not a member;
- `NilMeansHeaderTaken`, with `CodecsPending`: what the codecs channel holds is settled
  once, before the select loop, so that "no streams" stays true.

All three rest on one lemma about the operations on a consumer (`RecordHears`): none of
them makes a consumer deaf, open, active or headerless again. `HearingInv` has been
checked with TLC on the instance of `MCProducerRemove`.

The rest of `FanoutProofs` is about the packets. `InOrder` says of each consumer that what it has
accepted (written or in the queue) goes up. That is not inductive: the next packet
must be later than all of it. Hence `NobodyIsAhead` (who has yet to be served has not
got the packet in hand) and `TargetsAreOut` (the target of the read loop has been
crossed off), together `OrderInv`. `ServedInv` is for the refinement, in which every call
names a subscriber and those are gone whose consumers are inactive: it says whom the
read loop serves. Nothing may have been done to a consumer before its insertion
(`OthersAreUntouched`, `PendingArePast`); one that is served, or has been, and is
active must have been inserted (`ServedAreInserted`), so that a sweep that takes it out
has closed it first (`LostIsClosing`, `ClosingIsInactive`); and the clean-up comes only
once the context is done or there are no codecs (`ContextsAgree`). `FansStep` then maps
each step: the reading of a packet to `Publish`, a delivery to `Accept`, a write that is
given up to `Drop`, an insertion to `Join`, the ends of sweep and clean-up to `Forget`, a
step that makes the producer give up to `Cancel`, and every other one to a `Leave` or a
stutter.

### The manager

`ManagerProofs` goes in three parts.

- `ManagerInv` relates the map, the producers and the frames of the calls. A producer
  that runs unmapped, which only a start after the close brings about, is `late`; for
  `RunningProducerIsMapped` to be kept one has to know that what a sweep deletes it has
  closed and awaited (`SweepAgrees`), that a new producer is offered for its start by
  one call only and is in the map, or has been closed, meanwhile (`Offers`), that no
  `late` one is in the map (`MapAgrees`), and that a demuxer is open only while its
  producer runs (`ProducersAgree`). `OneDemuxerPerId` follows, as the map has one producer for each ID.
- `ManagedInv` adds `MapInv`, for the consumers below, and `FreshCalls`: a call that
  goes on, or will be retried, has no started consumer anywhere, so that it may begin
  again on any producer. `StoppedIsQuiet` is
  about all three levels and needs both.
- The refinement: `SourcesMap` shows of every action that it is a step of `Sources` or
  leaves its variables alone, one lemma for each action that is not a stutter.

### Copying and the registry

In `AvutilProofs` `SinksAreHeld` is inductive as it stands; `FirstRegisteredWins` is an
action property and rests on `FirstIsSmallest` and `FirstStays`: the smallest place
among those that claim a URI stays when places are added behind it. `CopyInv`, which
TLC has checked too, has five parts: types; `StageInv`, which relates the program counter,
the stage of the `HandlerMuxer` and the log; `OrderInv`, which relates the log and what
the packets read ask for, up to the packet in hand; `FirstCopyInv`, the same with
successes, for the first copy; and `TrailerInv`, by which a trailer is the last call of its
copy. What the packets ask for and what the log keeps are joins
of sequences (`Asked`, `Kept`) that grow at their ends (`AskedGrows`, `KeptGrows`).

### Data

The theorems of the library on induction take an operator as a parameter and cannot be
used. That the order of the naturals is well-founded is a fact about sets, though, and
`InductionProofs` takes induction from it: a set of numbers that has 0 and with each
number the next one has them all (`InductionUpTo`), and a function that is defined by
its value before exists (`RecursionExists`), without which nothing is known of a
recursive definition. With these `DataProofs` shows what holds after each turn of the
loops of `VecSliceTo`: that `s` and `e` have gone down by as much as the place has
gone up (`SkipInv`), and that the pieces taken so far have the bytes from `s` to the place
reached (`TakeInv`); and that after as many turns as pieces the loops have ended. So
`VecSlice` is exact for all vectors, and not only those within the bounds, and all
integers, not only those near the range (`EverySliceIsExactCorrect`).
`FramesAreNumberedCorrect` needs no induction over data; the invariant `FlacInv` says how
wide the numbers may have become and that the encoder keeps what it was made with.

`FramesKeepSamplesCorrect` is about memory that frames share. `FramesInv` says that the
planes of every frame lie within their arrays, have at least the bytes of the frame's
samples, and are alike (same offset, length and array length); and that no array has
planes of two channels, of one frame or of several (`Apart`). Both are needed: `Concat`
writes the channels one after the other, and would otherwise change what it has yet to
read. What is behind the end of the first frame may belong to another one, which is the
one exception the property makes. `PlanesFitAlike` shows that `append` finds room for all
planes of a frame or for none, as `Concat` of the model has it.

### Bits

In `BitsProofs` words and bytes have any widths, the one a multiple of the other. What is
said of the writer is that the bits of the bytes that are out, followed by the low bits of the
register, are the bits sent; of the reader, that what has been got, followed by what is
in the register, are the bits of the bytes read, and that the register has nothing
above (`FitsInto`), so that a mask that is too wide would show. Every call then is the
concatenation of three strings in two ways. `PutInIs` and `TakeIs` say it of one shift into
the register and one out of it; `RoundedUp` and `WantIs` that the number of bytes is
rounded up, never down and never by a whole byte; `FilledSteps` follows the loop over the
bytes that a `Read` fetches, in which the register must not overflow. It can: a read
of more bits than a word less a byte and one, that finds bits left over, asks for more than
the word holds, and loses some. `ReadIsExact` excuses those (`crowded`), and
`OnlyWideReadsCrowd` says that there are no others.

### Numbers and their bits

`Powers` and `Number` are recursive functions, of which `InductionProofs` shows that they
exist and what each step is (`PowersSteps`, `NumberSteps`). From there it is one
induction in each direction: the number in the bits of x is x, if x is not too wide
(`NumberOfField`), and the bits of the number in some bits are these (`FieldOfNumber`).

`GolombIsRead` is proved for every string of bits, not only those an encoder writes. What
the reader returns, and one, is the number in the bits from the first 1 on, which has as
many digits as there are bits (`LeadingBit`); so the code that is compared has the same
zeros, and the same bits behind. That no uint overflows on the way is the
assumption on `MaxZeros`, and that a signed code has its value below the highest bit is
linear arithmetic once half the largest power has a name (`SignedIs`).

`ConfigSurvives` follows from where the fields are laid (`ConfigBitsAre`), which depends on
two escapes, and from what is parsed from the first bits of a config, all of them or less
(`ParseIs`): an error if they end before the last field does, and else the fields as
given, wherever each of them is. A cut takes a byte or more, and no more than seven
bits stand behind the last field. `AacInv` says what has been written, cut and parsed at
each place; TLC has checked it.

### NAL units

`UnitsSurvive` is about byte strings as long as one likes, whose loops in `Nalu` recurse from
each place to a later one. `LaterExists` gives such functions (`UnitsFromSteps`,
`CodesFromSteps`, `AVCCFromSteps`, `AnnexBFromSteps`). `FramesLaidOut` says where in the
frames joined each head and each unit is; from there each of the four loops is followed
from the last unit back to the first (`InductionDown`): what a loop finds from the head of a
unit on is that unit and those behind. The rest is arithmetic and a search:

- the length that four bytes say is the length that was put into them, if it is below the
  fourth power of the base (`UnitsInv`, an invariant because all units together stay within
  `MaxUnitBytes`, and the assumption that the code's `uint32` makes of it);
- a length looks like a start code just if it is 1 or has a single 1 above one byte
  (`LooksLikeCode`), and otherwise the kind is AVCC, as the first unit fits;
- in Annex B no start code begins inside a unit, nor at a zero before one, because an encoder
  leaves none inside, and no zero at the end of a unit; so the least start code behind a
  head is the next head, and the last unit ends the data.

### Session descriptions

`SdpKeepsCodecs` says that the one error, which every value sets or clears, decides about
no medium but its own. The proof separates it from the rest. The parameters of a medium,
and the values of one parameter, are taken one after the other by `Each`, whose steps
`ListSteps` and `ParameterSteps` show to exist; started with another error they give the
same sets (`ListKeeps`, `ParameterKeeps`, `SetsAre`), each of them a value of this medium or none
(`HasOrigin`). So whether a medium is complete does not depend on when it is asked:
`IsWhole` says it without a look at `err`, is the same in every state, and stands in the
invariant `SdpInv` in place of `IsComplete`, which does look. What the parsers make of the sets
matters only in that the codec data hold the sets they were given (`ConstructedHas`), each
of which is a value of the medium, or empty.

### Decoder configuration records

`CodecDataSurvives` is proved for all settings of streams and all sets that a record can
hold, under `SetsAssumption`. `SetsInv` says that each result is that of its call, so the
rest is about the records. A unit behind its length comes back if, and only if, it is there
to its last byte (`StandsAt`, `UnitComesBack`); `AvcLaid` and `HevcLaid` say where in a
record its numbers and its units stand, so that of a record with a byte missing some unit,
or the count before it, is missing, and of H.265 also which of these cuts panic
(`AvcUnmarshals`, `HevcUnmarshals`). The constructor of
H.265 makes a buffer of `Len` bytes and keeps what `Marshal` has not filled: `NothingBehind`
shows that `Len` is what `Marshal` writes, with which the last byte of the buffer is
one of the last unit. Nothing is assumed of `ParseSPS` but that it is asked twice about
the same bytes; that it reads the settings back is `SpsIsRead`.

### Only model-checked

- Liveness (`MCProducerLive`, `MCManagerLive`) and what rests on `ENABLED`: out of the
  prover's reach.
- `LawsHold`: it has no parameter that could be larger, and the run has every sample and
  every code; its module uses `Bitwise`, with which the backend for arithmetic is lost.
- `DataKeepsUnits`, `ChunksDoNotShow`, `SpsIsRead`: not attempted.
## 6. Plan

Done, in this order: consumer and producer, their properties, the fan-out, the
manager, the proofs about the producer, copying, the registry, the bit streams; then
`Sources` and its refinement, the H.264 and H.265 parsers, SDP, FLAC, audio frames, the
proofs of what the calls promise; then the proofs of the fan-out and its refinement, of the
manager and its refinement, of copying and the registry, of vectors, FLAC and frames; then the
proofs about the bit writer and reader, Exp-Golomb codes, NAL units, AAC configs, SDP and
decoder configuration records.

What is left, in order of importance:

1. Composition: packets through the manager; two producer IDs; `PauseProducer` and
   `ResumeProducer` in a manager run. The refinement of `Fanout` under the manager.
2. `DataKeepsUnits` as a theorem, for the byte strings that no encoder has made.
3. `Equal` over the records of `ParameterSets`; H.264 slices with emulation bytes.
