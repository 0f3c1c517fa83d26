-------------------------------- MODULE Frames --------------------------------
(***************************************************************************)
(* AudioFrame (av/audtioframe.go): frames are views of arrays of bytes in  *)
(* memory.  Slice makes a view of a part; Concat appends, which goes into  *)
(* the array of the first frame when there is room behind it, whoever else *)
(* looks at that part of it.                                               *)
(***************************************************************************)
EXTENDS Integers, Sequences

CONSTANTS
  Formats,   \* the sample formats and the numbers of channels of streams
  Decoded,   \* how many samples a decoder puts into a frame
  Spare,     \* how many bytes a new array has behind what it is made for
  MaxFrames  \* at most as many frames are made

SampleFormats ==
  {"U8", "U8P", "S16", "S16P", "S32", "S32P", "U32", "FLT", "FLTP", "DBL",
   "DBLP"}

ASSUME FramesAssumption ==
  /\ Formats \subseteq [sample : SampleFormats, channels : Nat \ {0}]
  /\ Decoded \subseteq Nat /\ Spare \subseteq Nat /\ MaxFrames \in Nat

VARIABLES
  format,  \* of all the frames
  arrays,  \* the arrays in memory
  views,   \* a frame: how many samples it has, and its planes, which are
           \* slices of Go: an array, an offset and a length
  call     \* the call that made the last frame

frvars == <<format, arrays, views, call>>

FrameCall(op, s, in, start, end) ==
  [op |-> op, s |-> s, in |-> in, start |-> start, end |-> end]

NoCall == FrameCall("none", 0, 0, 0, 0)

FramesInit ==
  /\ format = [sample |-> "none", channels |-> 0]
  /\ arrays = <<>> /\ views = <<>> /\ call = NoCall

BytesPerSample(sample) ==
  IF sample \in {"U8", "U8P"} THEN 1
  ELSE IF sample \in {"S16", "S16P"} THEN 2
  ELSE IF sample \in {"FLT", "FLTP", "S32", "S32P", "U32"} THEN 4
  ELSE IF sample \in {"DBL", "DBLP"} THEN 8 ELSE 0

IsPlanar(sample) == sample \in {"S16P", "S32P", "FLTP", "DBLP"}

View(plane) ==
  SubSeq(arrays[plane.array], plane.offset + 1, plane.offset + plane.length)

Data(frame) == [i \in DOMAIN frame.planes |-> View(frame.planes[i])]

(* New arrays behind the ones there are, and the planes that view them.      *)
Hold(contents, spare, samples) ==
  /\ arrays' = arrays \o [i \in DOMAIN contents |-> contents[i] \o [n \in 1 .. spare |-> <<0, 0>>]]
  /\ views' = Append(views,
       [samples |-> samples,
        planes |-> [i \in DOMAIN contents |->
                      [array |-> Len(arrays) + i, offset |-> 0, length |-> Len(contents[i])]]])

(* A decoder makes a frame, each plane in an array of its own: all bytes are *)
(* told apart.                                                               *)
Decode(f, samples, spare) ==
  /\ Len(views) < MaxFrames /\ (views = <<>> \/ format = f)
  /\ LET planes == IF IsPlanar(f.sample) THEN f.channels ELSE 1
         size == samples * BytesPerSample(f.sample) * (f.channels \div planes)
     IN  Hold([i \in 1 .. planes |-> [n \in 1 .. size |-> <<Len(arrays) + i, n>>]], spare, samples)
  /\ format' = f
  /\ call' = FrameCall("Decode", 0, 0, 0, 0)

(* It panics for start > end.  The channels of packed samples are not taken  *)
(* into account.                                                             *)
Slice(s, start, end) ==
  /\ Len(views) < MaxFrames
  /\ LET size == BytesPerSample(format.sample)
         part(plane) == [array |-> plane.array, offset |-> plane.offset + start * size,
                         length |-> (end - start) * size]
         planes == views[s].planes
     IN  views' = Append(views, [samples |-> end - start,
                                 planes |-> [i \in DOMAIN planes |-> part(planes[i])]])
  /\ call' = FrameCall("Slice", s, 0, start, end)
  /\ UNCHANGED <<format, arrays>>

(* What append finds behind the plane. *)
Fits(plane, in) == plane.offset + plane.length + in.length <= Len(arrays[plane.array])

Longer(frame, in) ==
  [samples |-> frame.samples + in.samples,
   planes |-> [i \in DOMAIN frame.planes |->
                 [frame.planes[i] EXCEPT !.length = @ + in.planes[i].length]]]

(* The bytes of the array in which frame has plane i. *)
Appended(frame, in, i) ==
  LET plane == frame.planes[i]
      array == arrays[plane.array]
      at == plane.offset + plane.length
      bytes == View(in.planes[i])
  IN  SubSeq(array, 1, at) \o bytes \o SubSeq(array, at + Len(bytes) + 1, Len(array))

(* Faulty variant: the planes of the first frame are not copied before. *)
AppendToFrame(frame, in) ==
  /\ arrays' = [a \in DOMAIN arrays |->
                  LET at == {i \in DOMAIN frame.planes : frame.planes[i].array = a}
                  IN  IF at = {} THEN arrays[a] ELSE Appended(frame, in, CHOOSE i \in at : TRUE)]
  /\ views' = Append([n \in DOMAIN views |-> IF views[n] = frame THEN Longer(frame, in) ELSE views[n]],
                     Longer(frame, in))

AppendInPlace(frame, in) ==
  /\ arrays' = [a \in DOMAIN arrays |->
                  LET at == {i \in DOMAIN frame.planes : frame.planes[i].array = a}
                  IN  IF at = {} THEN arrays[a] ELSE Appended(frame, in, CHOOSE i \in at : TRUE)]
  /\ views' = Append(views, Longer(frame, in))

(* The planes of a frame are alike: either all have the room or none. *)
Concat(s, in, spare) ==
  /\ Len(views) < MaxFrames
  /\ LET fits(i) == Fits(views[s].planes[i], views[in].planes[i])
         planes == DOMAIN views[s].planes
     IN  \/ /\ \A i \in planes : fits(i)
            /\ AppendInPlace(views[s], views[in])
         \/ /\ \A i \in planes : ~fits(i)
            /\ Hold([i \in planes |-> Data(views[s])[i] \o Data(views[in])[i]], spare,
                    views[s].samples + views[in].samples)
  /\ call' = FrameCall("Concat", s, in, 0, 0)
  /\ UNCHANGED format

FramesNext ==
  \/ \E f \in Formats, samples \in Decoded, spare \in Spare : Decode(f, samples, spare)
  \/ \E s \in DOMAIN views : \E end \in 0 .. views[s].samples : \E start \in 0 .. end :
       Slice(s, start, end)
  \/ \E s, in \in DOMAIN views, spare \in Spare : Concat(s, in, spare)

FramesSpec == FramesInit /\ [][FramesNext]_frvars

(***************************************************************************)
(* Properties.                                                             *)
(***************************************************************************)
(* Whether a plane of frame has bytes behind the end of the same plane of s. *)
IsBehind(frame, s) ==
  \E i \in DOMAIN s.planes :
    /\ frame.planes[i].array = s.planes[i].array
    /\ frame.planes[i].offset + frame.planes[i].length > s.planes[i].offset + s.planes[i].length

SamplesKept ==
  LET s == views[call'.s]
      in == views[call'.in]
      made == Data(views[Len(views)])'
      size == BytesPerSample(format.sample)
  IN  /\ call'.op = "Concat" =>
           made = [i \in DOMAIN s.planes |-> Data(s)[i] \o Data(in)[i]]
      /\ call'.op = "Slice" /\ (IsPlanar(format.sample) \/ format.channels = 1) =>
           made = [i \in DOMAIN s.planes |->
                     SubSeq(Data(s)[i], call'.start * size + 1, call'.end * size)]
      /\ \A n \in DOMAIN views :
           Data(views[n])' # Data(views[n]) => call'.op = "Concat" /\ IsBehind(views[n], s)

(* AudioFrame.Slice, Concat: the frame of a call has the samples of the      *)
(* frames that it was made of, also when these overlap in memory; and of the *)
(* frames there are, a call changes no sample, except of those that look at  *)
(* the array behind the end of the first frame of Concat.  (A slice of       *)
(* packed samples of several channels is too short.)                         *)
FramesKeepSamples == [][SamplesKept]_frvars
=============================================================================
