---------------------------- MODULE AvutilProofs -----------------------------
(***************************************************************************)
(* The proofs about avutil: about the registry of handlers, for any URIs   *)
(* and any handlers, and about CopyFile and the HandlerMuxer, for sources  *)
(* of any length, any number of copies and any outcomes of the calls.      *)
(***************************************************************************)
EXTENDS Handlers, Copy, InductionProofs

(***************************************************************************)
(* The registry.  That every sink has its owner is an inductive invariant  *)
(* as it stands; that the handler registered first wins is a fact about    *)
(* First, which needs a smallest element of every set of places.           *)
(***************************************************************************)
(* First returns a place it is given, the smallest; 0 only of no places.     *)
LEMMA FirstIsSmallest ==
  ASSUME NEW T \in SUBSET (Nat \ {0})
  PROVE  /\ T = {} => First(T) = 0
         /\ T # {} => First(T) \in T /\ \A n \in T : First(T) <= n
<1>1. CASE T = {} BY <1>1 DEF First
<1>2. CASE T # {}
  <2>1. \E m \in T : \A n \in T : m <= n
    BY <1>2, SmallestExists
  <2>2. First(T) = CHOOSE m \in T : \A n \in T : m <= n
    BY <1>2 DEF First
  <2> QED BY <1>2, <2>1, <2>2
<1> QED BY <1>1, <1>2

(* What comes behind all the places that match does not become the first.    *)
LEMMA FirstStays ==
  ASSUME NEW len \in Nat, NEW S \in SUBSET (1 .. len),
         NEW T \in SUBSET (1 .. len + 1), T \cap (1 .. len) = S, First(S) # 0
  PROVE  First(T) = First(S)
<1>1. S \in SUBSET (Nat \ {0}) /\ T \in SUBSET (Nat \ {0})
  OBVIOUS
<1>2. S # {} /\ T # {}
  BY <1>1, FirstIsSmallest
<1>3. First(S) \in S /\ \A n \in S : First(S) <= n
  BY <1>1, <1>2, FirstIsSmallest
<1>4. First(T) \in T /\ \A n \in T : First(T) <= n
  BY <1>1, <1>2, FirstIsSmallest
<1>5. First(S) \in 1 .. len /\ First(S) \in T
  BY <1>3
<1>6. First(T) \in 1 .. len
  <2>1. First(T) <= First(S) BY <1>4, <1>5
  <2>2. First(T) \in 1 .. len + 1 BY <1>4
  <2> HIDE DEF First
  <2> QED BY <1>5, <2>1, <2>2
<1>7. First(T) \in S
  BY <1>4, <1>6
<1> QED BY <1>3, <1>4, <1>5, <1>7

(***************************************************************************)
(* Sinks.                                                                  *)
(***************************************************************************)
(* A call that returns gives its caller a handle of the right kind.          *)
LEMMA ReturnsTypeOK ==
  ASSUME NEW kind \in {"demuxer", "muxer"}, NEW src, NEW wrapper,
         HandlersTypeOK, calls < MaxCalls, calls' = calls + 1,
         Returns(kind, src, wrapper),
         \/ src = 0 /\ wrapper = FALSE
         \/ src = 0 /\ wrapper = TRUE /\ kind = "demuxer"
         \/ src = calls + 1 /\ wrapper = TRUE /\ kind = "muxer"
  PROVE  /\ held' \subseteq Handles /\ last' \in {"none", "ok", "err", "panic"}
         /\ calls' \in 0 .. MaxCalls
<1> DEFINE h == [kind |-> kind, src |-> src, wrapper |-> wrapper,
                 call |-> calls + 1]
<1>1. calls + 1 \in 1 .. MaxCalls
  BY HandlersAssumption DEF HandlersTypeOK
<1>2. h \in Handles
  BY <1>1 DEF Handles
<1>3. held' = held \cup {h} /\ last' = "ok"
  BY DEF Returns
<1> QED BY <1>1, <1>2, <1>3 DEF HandlersTypeOK

(* A handle more does not take the sinks from the others.                    *)
LEMMA MoreHandles ==
  ASSUME NEW kind, NEW src, NEW wrapper, SinksAreHeld,
         Returns(kind, src, wrapper)
  PROVE  /\ writers \subseteq Sources("muxer")'
         /\ kind = "muxer" => src \in Sources("muxer")'
BY DEF Returns, SinksAreHeld, Sources

LEMMA AddKeepsSinks ==
  ASSUME NEW h \in Registered, SinksAreHeld, Add(h)
  PROVE  SinksAreHeld'
<1>1. handlers' \in Seq(Registered) /\ Len(handlers') = Len(handlers) + 1
  BY DEF Add, SinksAreHeld, HandlersTypeOK
<1> QED BY <1>1, HandlersAssumption
        DEF Add, SinksAreHeld, HandlersTypeOK, Sources

(* A call that fails opens nothing. *)
LEMMA FailedKeepsSinks ==
  ASSUME SinksAreHeld, calls < MaxCalls, calls' = calls + 1, Failed,
         UNCHANGED handlers
  PROVE  SinksAreHeld'
BY HandlersAssumption DEF Failed, SinksAreHeld, HandlersTypeOK, Sources

(* So does one that another handler has answered by itself. *)
LEMMA DirectKeepsSinks ==
  ASSUME NEW kind \in {"demuxer", "muxer"}, SinksAreHeld, calls < MaxCalls,
         calls' = calls + 1, Returns(kind, 0, FALSE),
         UNCHANGED <<handlers, readers, writers>>
  PROVE  SinksAreHeld'
<1>1. /\ held' \subseteq Handles /\ last' \in {"none", "ok", "err", "panic"}
      /\ calls' \in 0 .. MaxCalls
  BY ReturnsTypeOK DEF SinksAreHeld
<1>2. writers' \subseteq Sources("muxer")'
  BY MoreHandles
<1> QED BY <1>1, <1>2 DEF SinksAreHeld, HandlersTypeOK

LEMMA OpenKeepsSinks ==
  ASSUME NEW uri \in Uris, SinksAreHeld, Open(uri)
  PROVE  SinksAreHeld'
<1>1. /\ calls < MaxCalls /\ calls' = calls + 1 /\ UNCHANGED handlers
      /\ OpenDirect(uri) \/ Failed \/ OpenByExt(uri) \/ OpenByProbe(uri)
  BY DEF Open
<1>2. CASE Failed
  BY <1>1, <1>2, FailedKeepsSinks
<1>3. CASE OpenDirect(uri) /\ ~Failed
  BY <1>1, <1>3, DirectKeepsSinks DEF OpenDirect
<1>4. CASE OpenByExt(uri) /\ ~Failed
  <2>1. /\ Returns("demuxer", 0, TRUE) /\ UNCHANGED writers
        /\ readers' = readers \cup {calls + 1}
    BY <1>4 DEF OpenByExt
  <2>2. /\ held' \subseteq Handles
        /\ last' \in {"none", "ok", "err", "panic"}
        /\ calls' \in 0 .. MaxCalls
    BY <1>1, <2>1, ReturnsTypeOK DEF SinksAreHeld
  <2>3. writers' \subseteq Sources("muxer")'
    BY <2>1, MoreHandles
  <2>4. readers' \subseteq 1 .. calls' /\ writers' \subseteq 1 .. calls'
    BY <1>1, <2>1 DEF SinksAreHeld, HandlersTypeOK
  <2> QED BY <1>1, <2>2, <2>3, <2>4 DEF SinksAreHeld, HandlersTypeOK
<1>5. CASE OpenByProbe(uri) /\ ~Failed
  <2>1. /\ readers' = readers \cup {calls + 1} /\ last' = "panic"
        /\ UNCHANGED <<writers, held>>
    BY <1>5 DEF OpenByProbe
  <2>2. /\ calls' \in 0 .. MaxCalls
        /\ readers' \subseteq 1 .. calls' /\ writers' \subseteq 1 .. calls'
    BY <1>1, <2>1, HandlersAssumption DEF SinksAreHeld, HandlersTypeOK
  <2> QED BY <1>1, <2>1, <2>2 DEF SinksAreHeld, HandlersTypeOK, Sources
<1> QED BY <1>1, <1>2, <1>3, <1>4, <1>5

LEMMA CreateKeepsSinks ==
  ASSUME NEW uri \in Uris, SinksAreHeld, Create(uri)
  PROVE  SinksAreHeld'
<1>1. /\ calls < MaxCalls /\ calls' = calls + 1 /\ UNCHANGED handlers
      /\ CreateDirect(uri) \/ Failed \/ CreateByExt(uri)
  BY DEF Create
<1>2. CASE Failed
  BY <1>1, <1>2, FailedKeepsSinks
<1>3. CASE CreateDirect(uri) /\ ~Failed
  BY <1>1, <1>3, DirectKeepsSinks DEF CreateDirect
<1>4. CASE CreateByExt(uri) /\ ~Failed
  <2>1. /\ Returns("muxer", calls + 1, TRUE) /\ UNCHANGED readers
        /\ writers' = writers \cup {calls + 1}
    BY <1>4 DEF CreateByExt
  <2>2. /\ held' \subseteq Handles
        /\ last' \in {"none", "ok", "err", "panic"}
        /\ calls' \in 0 .. MaxCalls
    BY <1>1, <2>1, ReturnsTypeOK DEF SinksAreHeld
  <2>3. writers' \subseteq Sources("muxer")'
    BY <2>1, MoreHandles
  <2>4. readers' \subseteq 1 .. calls' /\ writers' \subseteq 1 .. calls'
    BY <1>1, <2>1 DEF SinksAreHeld, HandlersTypeOK
  <2> QED BY <1>1, <2>2, <2>3, <2>4 DEF SinksAreHeld, HandlersTypeOK
<1> QED BY <1>1, <1>2, <1>3, <1>4

(* Close takes the handle and the sink away together. *)
LEMMA CloseKeepsSinks ==
  ASSUME NEW h \in held, SinksAreHeld, Close(h)
  PROVE  SinksAreHeld'
<1>1. writers' \subseteq Sources("muxer")'
  BY DEF Close, SinksAreHeld, Sources
<1>2. HandlersTypeOK'
  BY DEF Close, SinksAreHeld, HandlersTypeOK
<1> QED BY <1>1, <1>2 DEF SinksAreHeld

(* A file that Create has opened belongs to a muxer the caller holds, for    *)
(* any URIs, handlers and numbers of calls.                                  *)
THEOREM SinksAreHeldCorrect == HandlersSpec => []SinksAreHeld
<1>1. HandlersInit => SinksAreHeld
  BY HandlersAssumption
  DEF HandlersInit, SinksAreHeld, HandlersTypeOK, Sources
<1>2. SinksAreHeld /\ [HandlersNext]_hvars => SinksAreHeld'
  <2> SUFFICES ASSUME SinksAreHeld, [HandlersNext]_hvars
               PROVE  SinksAreHeld'
    OBVIOUS
  <2>1. CASE UNCHANGED hvars
    BY <2>1 DEF hvars, SinksAreHeld, HandlersTypeOK, Sources
  <2>2. CASE HandlersNext
    BY <2>2, AddKeepsSinks, OpenKeepsSinks, CreateKeepsSinks,
       CloseKeepsSinks DEF HandlersNext
  <2> QED BY <2>1, <2>2
<1> QED BY <1>1, <1>2, PTL DEF HandlersSpec

(***************************************************************************)
(* The order of registration.                                              *)
(***************************************************************************)
(* Only Add changes the list, and it appends. *)
LEMMA HandlersGrow ==
  ASSUME HandlersTypeOK, [HandlersNext]_hvars
  PROVE  /\ handlers \in Seq(Registered) /\ handlers' \in Seq(Registered)
         /\ \/ handlers' = handlers
            \/ Len(handlers') = Len(handlers) + 1
         /\ \A i \in 1 .. Len(handlers) : handlers'[i] = handlers[i]
<1>1. CASE \E h \in Registered : Add(h)
  <2>1. PICK h \in Registered : Add(h) BY <1>1
  <2> QED BY <2>1 DEF Add, HandlersTypeOK
<1>2. CASE UNCHANGED handlers BY <1>2 DEF HandlersTypeOK
<1> QED BY <1>1, <1>2 DEF HandlersNext, Open, Create, Close, hvars

(* Whatever is asked of the handlers, the first that answers stays it.       *)
LEMMA FirstAnswerStays ==
  ASSUME HandlersTypeOK, [HandlersNext]_hvars,
         NEW Answers \in SUBSET Registered,
         First({i \in DOMAIN handlers : handlers[i] \in Answers}) # 0
  PROVE  First({i \in DOMAIN handlers' : handlers'[i] \in Answers})
           = First({i \in DOMAIN handlers : handlers[i] \in Answers})
<1> DEFINE S == {i \in DOMAIN handlers : handlers[i] \in Answers}
           T == {i \in DOMAIN handlers' : handlers'[i] \in Answers}
<1>1. /\ handlers \in Seq(Registered) /\ handlers' \in Seq(Registered)
      /\ \/ handlers' = handlers
         \/ Len(handlers') = Len(handlers) + 1
      /\ \A i \in 1 .. Len(handlers) : handlers'[i] = handlers[i]
  BY HandlersGrow
<1>2. /\ Len(handlers) \in Nat /\ DOMAIN handlers = 1 .. Len(handlers)
      /\ DOMAIN handlers' = 1 .. Len(handlers')
  BY <1>1
<1>3. CASE handlers' = handlers BY <1>3
<1>4. CASE Len(handlers') = Len(handlers) + 1
  <2>1. S \in SUBSET (1 .. Len(handlers)) BY <1>2
  <2>2. T \in SUBSET (1 .. Len(handlers) + 1) BY <1>2, <1>4
  <2>3. T \cap (1 .. Len(handlers)) = S BY <1>1, <1>2, <1>4
  <2>4. First(S) # 0 OBVIOUS
  <2> HIDE DEF S, T
  <2>5. First(T) = First(S)
    BY <1>2, <2>1, <2>2, <2>3, <2>4, FirstStays
  <2> QED BY <2>5 DEF S, T
<1> QED BY <1>1, <1>3, <1>4

(* A handler registered later takes nothing over from an earlier one, in any *)
(* registry.                                                                 *)
THEOREM FirstWinsCorrect == HandlersSpec => FirstRegisteredWins
<1>1. ASSUME HandlersTypeOK, [HandlersNext]_hvars, NEW uri \in Uris
      PROVE  /\ DirectDemuxer(uri) # 0 =>
                  DirectDemuxer(uri)' = DirectDemuxer(uri)
             /\ DirectMuxer(uri) # 0 => DirectMuxer(uri)' = DirectMuxer(uri)
             /\ ExtDemuxer(uri) # 0 => ExtDemuxer(uri)' = ExtDemuxer(uri)
             /\ ExtMuxer(uri) # 0 => ExtMuxer(uri)' = ExtMuxer(uri)
  <2> DEFINE Places(list, Answers) == {i \in DOMAIN list : list[i] \in Answers}
             DD == {h \in Registered : Claims(DemuxerClaims(h), uri)}
             DM == {h \in Registered : Claims(MuxerClaims(h), uri)}
             ED == {h \in Registered : h.ext = uri.ext /\ h.readerDemuxer}
             EM == {h \in Registered : h.ext = uri.ext /\ h.writerMuxer}
  <2>1. handlers \in Seq(Registered) /\ handlers' \in Seq(Registered)
    BY <1>1, HandlersGrow
  <2>2. /\ \A i \in DOMAIN handlers : handlers[i] \in Registered
        /\ \A i \in DOMAIN handlers' : handlers'[i] \in Registered
    BY <2>1
  <2>3. \A Answers \in SUBSET Registered :
          First(Places(handlers, Answers)) # 0 =>
            First(Places(handlers', Answers))
              = First(Places(handlers, Answers))
    BY <1>1, FirstAnswerStays
  <2>4. /\ DirectDemuxer(uri) = First(Places(handlers, DD))
        /\ DirectDemuxer(uri)' = First(Places(handlers', DD))
    <3>1. /\ {i \in DOMAIN handlers : Claims(DemuxerClaims(handlers[i]), uri)}
               = Places(handlers, DD)
          /\ {i \in DOMAIN handlers' :
                Claims(DemuxerClaims(handlers'[i]), uri)}
               = Places(handlers', DD)
      BY <2>2
    <3> QED BY <3>1 DEF DirectDemuxer
  <2>5. /\ DirectMuxer(uri) = First(Places(handlers, DM))
        /\ DirectMuxer(uri)' = First(Places(handlers', DM))
    <3>1. /\ {i \in DOMAIN handlers : Claims(MuxerClaims(handlers[i]), uri)}
               = Places(handlers, DM)
          /\ {i \in DOMAIN handlers' : Claims(MuxerClaims(handlers'[i]), uri)}
               = Places(handlers', DM)
      BY <2>2
    <3> QED BY <3>1 DEF DirectMuxer
  <2>6. /\ ExtDemuxer(uri) = First(Places(handlers, ED))
        /\ ExtDemuxer(uri)' = First(Places(handlers', ED))
    <3>1. /\ {i \in DOMAIN handlers :
                handlers[i].ext = uri.ext /\ handlers[i].readerDemuxer}
               = Places(handlers, ED)
          /\ {i \in DOMAIN handlers' :
                handlers'[i].ext = uri.ext /\ handlers'[i].readerDemuxer}
               = Places(handlers', ED)
      BY <2>2
    <3> QED BY <3>1 DEF ExtDemuxer
  <2>7. /\ ExtMuxer(uri) = First(Places(handlers, EM))
        /\ ExtMuxer(uri)' = First(Places(handlers', EM))
    <3>1. /\ {i \in DOMAIN handlers :
                handlers[i].ext = uri.ext /\ handlers[i].writerMuxer}
               = Places(handlers, EM)
          /\ {i \in DOMAIN handlers' :
                handlers'[i].ext = uri.ext /\ handlers'[i].writerMuxer}
               = Places(handlers', EM)
      BY <2>2
    <3> QED BY <3>1 DEF ExtMuxer
  <2> HIDE DEF Places
  <2>8. /\ DD \in SUBSET Registered /\ DM \in SUBSET Registered
        /\ ED \in SUBSET Registered /\ EM \in SUBSET Registered
    OBVIOUS
  <2> HIDE DEF DD, DM, ED, EM
  <2> QED BY <2>3, <2>4, <2>5, <2>6, <2>7, <2>8
<1>2. SinksAreHeld => HandlersTypeOK BY DEF SinksAreHeld
<1>3. HandlersTypeOK /\ [HandlersNext]_hvars =>
        [\A uri \in Uris :
           /\ DirectDemuxer(uri) # 0 =>
                DirectDemuxer(uri)' = DirectDemuxer(uri)
           /\ DirectMuxer(uri) # 0 => DirectMuxer(uri)' = DirectMuxer(uri)
           /\ ExtDemuxer(uri) # 0 => ExtDemuxer(uri)' = ExtDemuxer(uri)
           /\ ExtMuxer(uri) # 0 => ExtMuxer(uri)' = ExtMuxer(uri)]_hvars
  BY <1>1
<1> QED BY <1>2, <1>3, SinksAreHeldCorrect, PTL
        DEF HandlersSpec, FirstRegisteredWins

(***************************************************************************)
(* Copying.  The inductive invariant CopyInv says how the stage of the     *)
(* wrapper goes with the calls made, what has been written at each place   *)
(* of the loop, and what the first copy has done so far.                   *)
(***************************************************************************)
HeaderTaken == \E i \in CallsOf("header") : Succeeded(i)

Copying == pc \in {"read", "change", "packet"}

(* The stage of the wrapper and the calls made on the muxer inside: without  *)
(* a header nothing is written, and at most one trailer is behind it.        *)
StageInv ==
  /\ pc = "none" => log = <<>> /\ source = <<>> /\ stage = 0 /\ copies = 0
  /\ ~wrapped => stage = 0
  /\ wrapped /\ stage = 0 =>
       ~Copying /\ \A i \in DOMAIN log : log[i].op = "header" /\ ~Succeeded(i)
  /\ wrapped /\ stage # 0 => HeaderTaken
  /\ wrapped /\ stage = 1 => CallsOf("trailer") = {}
  /\ OneHeaderOneTrailer

(* A copy into a wrapped muxer that goes on is later than the one that the   *)
(* trailer has ended.                                                        *)
Busy == pc \in {"codecs", "header", "read", "change", "packet"}

TrailerInv ==
  /\ wrapped /\ Busy => \A i \in CallsOf("trailer") : log[i].copy < copies
  /\ TrailerEndsCopy

(* What has been written, at each place of the loop. *)
OrderInv ==
  /\ \A i \in DOMAIN log : log[i].copy <= copies
  /\ source = <<>> => Written = <<>>
  /\ pc \in {"none", "codecs", "header"} => source = <<>>
  /\ pc = "read" => Written = Wanted
  /\ pc = "change" =>
       /\ source # <<>> /\ ChangeFor(Len(source)) # <<>>
       /\ Written = WantedUpTo[Len(source) - 1]
  /\ pc = "packet" =>
       /\ source # <<>> /\ DataFor(Len(source)) # <<>>
       /\ Written = WantedUpTo[Len(source) - 1] \o ChangeFor(Len(source))
  /\ source # <<>> =>
       Written \in {WantedUpTo[Len(source) - 1],
                    WantedUpTo[Len(source) - 1] \o ChangeFor(Len(source)),
                    Wanted}

(* What the first copy has done on its way to the trailer. *)
FirstCopyInv ==
  /\ copies = 0 => stage = 0 /\ pc \in {"none", "idle", "trailer"}
  /\ copies = 1 =>
       /\ pc \in {"codecs", "header"} => stage = 0
       /\ Copying \/ (pc = "trailer" /\ ~own) =>
            HeaderTaken /\ (wrapped => stage = 1)
       /\ pc = "trailer" /\ ~own /\ ~EofFromMuxer => Written = Wanted
  /\ NilMeansCopied

CopyInv ==
  CopyTypeOK /\ StageInv /\ TrailerInv /\ OrderInv /\ FirstCopyInv

(***************************************************************************)
(* What is wanted and what has been written, as the source and the log     *)
(* grow.                                                                   *)
(***************************************************************************)
Tokens == Operations \X Nat

(* What the packets of src ask for, if the muxer takes changes of codec.     *)
Asked(src, changes) ==
  [i \in DOMAIN src |->
     (IF src[i].change /\ changes THEN <<<<"change", i>>>> ELSE <<>>)
       \o (IF src[i].data THEN <<<<"packet", i>>>> ELSE <<>>)]

(* What the calls of lg have written for copy number copy. *)
Counts(e, copy) ==
  e.copy = copy /\ e.op \in {"change", "packet"} /\ e.result = "ok"

Kept(lg, copy) ==
  [i \in DOMAIN lg |->
     IF Counts(lg[i], copy) THEN <<<<lg[i].op, lg[i].at>>>> ELSE <<>>]

LEMMA AskedTypeOK ==
  ASSUME NEW src \in Seq(Packets), NEW changes \in BOOLEAN
  PROVE  Asked(src, changes) \in Seq(Seq(Tokens))
         /\ Len(Asked(src, changes)) = Len(src)
<1> DEFINE ps == Asked(src, changes)
<1>1. DOMAIN src = 1 .. Len(src) /\ Len(src) \in Nat
  OBVIOUS
<1>2. ASSUME NEW i \in 1 .. Len(src)
      PROVE  (IF src[i].change /\ changes THEN <<<<"change", i>>>> ELSE <<>>)
               \o (IF src[i].data THEN <<<<"packet", i>>>> ELSE <<>>)
                 \in Seq(Tokens)
  <2>1. <<"change", i>> \in Tokens /\ <<"packet", i>> \in Tokens
    BY DEF Tokens, Operations
  <2>2. /\ <<<<"change", i>>>> \in Seq(Tokens)
        /\ <<<<"packet", i>>>> \in Seq(Tokens) /\ <<>> \in Seq(Tokens)
    BY <2>1
  <2> QED BY <2>2
<1>3. ps \in [1 .. Len(src) -> Seq(Tokens)]
  BY <1>1, <1>2 DEF Asked
<1> HIDE DEF ps
<1>4. ps \in Seq(Seq(Tokens)) /\ Len(ps) = Len(src)
  BY <1>1, <1>3
<1> QED BY <1>4 DEF ps

LEMMA KeptTypeOK ==
  ASSUME NEW lg \in Seq(LogEntries), NEW copy \in Nat
  PROVE  Kept(lg, copy) \in Seq(Seq(Tokens)) /\ Len(Kept(lg, copy)) = Len(lg)
<1> DEFINE ps == Kept(lg, copy)
<1>1. DOMAIN lg = 1 .. Len(lg) /\ Len(lg) \in Nat
  OBVIOUS
<1>2. ASSUME NEW i \in 1 .. Len(lg)
      PROVE  (IF Counts(lg[i], copy) THEN <<<<lg[i].op, lg[i].at>>>> ELSE <<>>)
               \in Seq(Tokens)
  <2>1. lg[i] \in LogEntries
    BY <1>1
  <2>2. <<lg[i].op, lg[i].at>> \in Tokens
    BY <2>1 DEF Tokens, LogEntries
  <2> QED BY <2>2
<1>3. ps \in [1 .. Len(lg) -> Seq(Tokens)]
  BY <1>1, <1>2 DEF Kept
<1> HIDE DEF ps
<1>4. ps \in Seq(Seq(Tokens)) /\ Len(ps) = Len(lg)
  BY <1>1, <1>3
<1> QED BY <1>4 DEF ps

(* A packet more asks for its calls, behind all that was asked before.       *)
LEMMA AskedGrows ==
  ASSUME NEW src \in Seq(Packets), NEW pkt \in Packets, NEW changes \in BOOLEAN
  PROVE  Joined(Asked(Append(src, pkt), changes))[Len(src)]
           = Joined(Asked(src, changes))[Len(src)]
<1> DEFINE more == Append(src, pkt)
           ps == Asked(src, changes)
           qs == Asked(more, changes)
<1>1. more \in Seq(Packets) /\ Len(more) = Len(src) + 1 /\ Len(src) \in Nat
  OBVIOUS
<1>2. /\ ps \in Seq(Seq(Tokens)) /\ Len(ps) = Len(src)
      /\ qs \in Seq(Seq(Tokens)) /\ Len(qs) = Len(src) + 1
  <2> HIDE DEF more
  <2> QED BY <1>1, AskedTypeOK
<1>3. \A n \in 1 .. Len(src) : qs[n] = ps[n]
  BY <1>1 DEF Asked
<1> HIDE DEF more, ps, qs
<1>4. Len(ps) <= Len(qs) /\ Len(ps) \in 0 .. Len(ps)
  BY <1>1, <1>2
<1>5. Joined(qs)[Len(ps)] = Joined(ps)[Len(ps)]
  BY <1>2, <1>3, <1>4, JoinedStays
<1> QED BY <1>2, <1>5 DEF more, ps, qs

(* What the packet in hand adds. *)
LEMMA AskedLast ==
  ASSUME NEW src \in Seq(Packets), NEW changes \in BOOLEAN, src # <<>>
  PROVE  /\ Joined(Asked(src, changes))[Len(src)] =
              Joined(Asked(src, changes))[Len(src) - 1]
                \o Asked(src, changes)[Len(src)]
         /\ Joined(Asked(src, changes))[Len(src) - 1] \in Seq(Tokens)
         /\ Joined(Asked(src, changes))[Len(src)] \in Seq(Tokens)
<1> DEFINE ps == Asked(src, changes)
<1>1. /\ Len(src) \in 1 .. Len(src) /\ Len(src) \in 0 .. Len(src)
      /\ Len(src) - 1 \in 0 .. Len(src)
  OBVIOUS
<1>2. ps \in Seq(Seq(Tokens)) /\ Len(ps) = Len(src)
  BY AskedTypeOK
<1> HIDE DEF ps
<1>3. /\ \A n \in 1 .. Len(ps) :
           Joined(ps)[n] = Joined(ps)[n - 1] \o ps[n]
      /\ \A n \in 0 .. Len(ps) : Joined(ps)[n] \in Seq(Tokens)
  BY <1>2, JoinedSteps
<1> QED BY <1>1, <1>2, <1>3 DEF ps

(* A call more that counts has written something more. *)
LEMMA KeptGrows ==
  ASSUME NEW lg \in Seq(LogEntries), NEW e \in LogEntries, NEW copy \in Nat
  PROVE  Joined(Kept(Append(lg, e), copy))[Len(lg) + 1]
           = Joined(Kept(lg, copy))[Len(lg)]
               \o (IF Counts(e, copy) THEN <<<<e.op, e.at>>>> ELSE <<>>)
<1> DEFINE more == Append(lg, e)
           ps == Kept(lg, copy)
           qs == Kept(more, copy)
           n == Len(lg)
<1>1. more \in Seq(LogEntries) /\ Len(more) = n + 1 /\ n \in Nat
  OBVIOUS
<1>2. /\ ps \in Seq(Seq(Tokens)) /\ Len(ps) = n
      /\ qs \in Seq(Seq(Tokens)) /\ Len(qs) = n + 1
  <2> HIDE DEF more
  <2> QED BY <1>1, KeptTypeOK
<1>3. /\ \A k \in 1 .. n : qs[k] = ps[k]
      /\ qs[n + 1] = IF Counts(e, copy) THEN <<<<e.op, e.at>>>> ELSE <<>>
  BY <1>1 DEF Kept
<1> HIDE DEF more, ps, qs, n
<1>4. /\ Len(ps) <= Len(qs) /\ n \in 0 .. Len(ps) /\ n + 1 \in 1 .. Len(qs)
      /\ (n + 1) - 1 = n
  BY <1>1, <1>2
<1>5. Joined(qs)[n] = Joined(ps)[n]
  BY <1>2, <1>3, <1>4, JoinedStays
<1>6. Joined(qs)[n + 1] = Joined(qs)[n] \o qs[n + 1]
  BY <1>2, <1>4, JoinedSteps
<1> QED BY <1>3, <1>5, <1>6 DEF more, ps, qs, n

(* No call of earlier copies counts for a new one. *)
LEMMA KeptFresh ==
  ASSUME NEW lg \in Seq(LogEntries), NEW copy \in Nat,
         \A i \in DOMAIN lg : lg[i].copy < copy
  PROVE  Joined(Kept(lg, copy))[Len(lg)] = <<>>
<1>1. Kept(lg, copy) \in Seq(Seq(Tokens)) /\ Len(Kept(lg, copy)) = Len(lg)
  BY KeptTypeOK
<1>2. \A n \in 1 .. Len(lg) : Kept(lg, copy)[n] = <<>>
  <2>1. ASSUME NEW n \in 1 .. Len(lg)
        PROVE  ~(lg[n].copy = copy)
    <3>1. lg[n] \in LogEntries /\ lg[n].copy < copy
      OBVIOUS
    <3>2. lg[n].copy \in Nat
      BY <3>1 DEF LogEntries
    <3> QED BY <3>1, <3>2
  <2> QED BY <2>1 DEF Kept, Counts
<1> QED BY <1>1, <1>2, JoinedEmpty

LEMMA WantedIsAsked ==
  ASSUME CopyTypeOK
  PROVE  /\ DstCanChangeCodec \in BOOLEAN
         /\ WantedUpTo = Joined(Asked(source, DstCanChangeCodec))
         /\ Wanted = Joined(Asked(source, DstCanChangeCodec))[Len(source)]
         /\ WantedUpTo' = Joined(Asked(source', DstCanChangeCodec'))
         /\ Wanted' = Joined(Asked(source', DstCanChangeCodec'))[Len(source')]
<1>1. [i \in DOMAIN source |-> ChangeFor(i) \o DataFor(i)]
        = Asked(source, DstCanChangeCodec)
  BY DEF Asked, ChangeFor, DataFor
<1>2. [i \in DOMAIN source' |-> ChangeFor(i)' \o DataFor(i)']
        = Asked(source', DstCanChangeCodec')
  BY DEF Asked, ChangeFor, DataFor
<1> QED BY <1>1, <1>2, CopyAssumption
        DEF Wanted, WantedUpTo, CopyTypeOK, DstCanChangeCodec

LEMMA WrittenIsKept ==
  /\ Written = Joined(Kept(log, copies))[Len(log)]
  /\ Written' = Joined(Kept(log', copies'))[Len(log')]
<1>1. [i \in DOMAIN log |-> WrittenBy(i)] = Kept(log, copies)
  BY DEF Kept, Counts, WrittenBy, Succeeded
<1>2. [i \in DOMAIN log' |-> WrittenBy(i)'] = Kept(log', copies')
  BY DEF Kept, Counts, WrittenBy, Succeeded
<1> QED BY <1>1, <1>2 DEF Written

(* The last packet read and what it asks for. *)
LEMMA WantedLast ==
  ASSUME CopyTypeOK
  PROVE  /\ source = <<>> => Wanted = <<>>
         /\ source # <<>> =>
              /\ Wanted = WantedUpTo[Len(source) - 1]
                            \o (ChangeFor(Len(source)) \o DataFor(Len(source)))
              /\ WantedUpTo[Len(source) - 1] \in Seq(Tokens)
              /\ ChangeFor(Len(source)) \in Seq(Tokens)
              /\ DataFor(Len(source)) \in Seq(Tokens)
<1> DEFINE D == DstCanChangeCodec
<1>1. /\ D \in BOOLEAN /\ source \in Seq(Packets)
      /\ WantedUpTo = Joined(Asked(source, D))
      /\ Wanted = Joined(Asked(source, D))[Len(source)]
  BY WantedIsAsked DEF CopyTypeOK
<1>2. CASE source = <<>>
  <2>1. Asked(source, D) \in Seq(Seq(Tokens)) /\ Len(source) = 0
    BY <1>1, <1>2, AskedTypeOK
  <2> QED BY <1>1, <1>2, <2>1, JoinedSteps
<1>3. CASE source # <<>>
  <2>1. Len(source) \in 1 .. Len(source) /\ Len(source) \in Nat
    BY <1>1, <1>3
  <2>2. /\ Wanted =
             WantedUpTo[Len(source) - 1] \o Asked(source, D)[Len(source)]
        /\ WantedUpTo[Len(source) - 1] \in Seq(Tokens)
    BY <1>1, <1>3, AskedLast
  <2>3. Asked(source, D)[Len(source)]
          = ChangeFor(Len(source)) \o DataFor(Len(source))
    BY <1>1, <2>1 DEF Asked, ChangeFor, DataFor
  <2>4. /\ <<"change", Len(source)>> \in Tokens
        /\ <<"packet", Len(source)>> \in Tokens
    BY <2>1 DEF Tokens, Operations
  <2>5. /\ ChangeFor(Len(source)) \in Seq(Tokens)
        /\ DataFor(Len(source)) \in Seq(Tokens)
    BY <2>4 DEF ChangeFor, DataFor
  <2> QED BY <1>3, <2>2, <2>3, <2>5
<1> QED BY <1>2, <1>3

(* Where neither the source nor the log changes, nothing of this does.       *)
LEMMA NothingWritten ==
  ASSUME CopyTypeOK, UNCHANGED <<wrapped, source, log, copies>>
  PROVE  /\ Written' = Written /\ Wanted' = Wanted
         /\ WantedUpTo' = WantedUpTo
         /\ ChangeFor(Len(source))' = ChangeFor(Len(source))
         /\ DataFor(Len(source))' = DataFor(Len(source))
BY WrittenIsKept, WantedIsAsked DEF ChangeFor, DataFor, DstCanChangeCodec

(* A call makes the log longer by one; a change of codec or a packet that    *)
(* succeeds is written.                                                      *)
LEMMA LogGrows ==
  ASSUME CopyTypeOK, NEW op \in Operations, NEW at \in Nat,
         NEW result \in {"ok", "eof", "err"}, Calls(op, at, result),
         UNCHANGED copies
  PROVE  /\ log' \in Seq(LogEntries) /\ Len(log') = Len(log) + 1
         /\ DOMAIN log = 1 .. Len(log) /\ DOMAIN log' = 1 .. Len(log) + 1
         /\ Len(log) \in Nat
         /\ \A i \in 1 .. Len(log) : log'[i] = log[i]
         /\ log'[Len(log) + 1] = [op |-> op, copy |-> copies, at |-> at,
                                  result |-> result]
         /\ op \in {"change", "packet"} /\ result = "ok" =>
              Written' = Written \o <<<<op, at>>>>
         /\ ~(op \in {"change", "packet"} /\ result = "ok") =>
              Written' = Written
<1> DEFINE e == [op |-> op, copy |-> copies, at |-> at, result |-> result]
<1>1. e \in LogEntries /\ log \in Seq(LogEntries) /\ copies \in Nat
  BY CopyAssumption DEF LogEntries, CopyTypeOK
<1>2. log' = Append(log, e)
  BY DEF Calls
<1>3. e.op = op /\ e.copy = copies /\ e.at = at /\ e.result = result
  OBVIOUS
<1>4. Counts(e, copies) <=> op \in {"change", "packet"} /\ result = "ok"
  BY <1>3 DEF Counts
<1> HIDE DEF e
<1>5. /\ log' \in Seq(LogEntries) /\ Len(log') = Len(log) + 1
      /\ DOMAIN log = 1 .. Len(log) /\ DOMAIN log' = 1 .. Len(log) + 1
      /\ Len(log) \in Nat
      /\ \A i \in 1 .. Len(log) : log'[i] = log[i]
      /\ log'[Len(log) + 1] = e
  BY <1>1, <1>2
<1>6. Written' = Written \o (IF Counts(e, copies) THEN <<<<e.op, e.at>>>>
                                                  ELSE <<>>)
  BY <1>1, <1>2, <1>5, KeptGrows, WrittenIsKept
<1>7. Written \in Seq(Tokens)
  <2>1. Kept(log, copies) \in Seq(Seq(Tokens))
        /\ Len(Kept(log, copies)) = Len(log)
    BY <1>1, KeptTypeOK
  <2>2. Len(log) \in 0 .. Len(log)
    BY <1>5
  <2> QED BY <2>1, <2>2, JoinedSteps, WrittenIsKept
<1>8. /\ Counts(e, copies) => Written' = Written \o <<<<op, at>>>>
      /\ ~Counts(e, copies) => Written' = Written
  BY <1>3, <1>6, <1>7
<1>9. log'[Len(log) + 1] = [op |-> op, copy |-> copies, at |-> at,
                            result |-> result]
  BY <1>5 DEF e
<1> QED BY <1>4, <1>5, <1>8, <1>9

(* The caller calls for one copy after the other. *)
LEMMA NewCopyIsEmpty ==
  ASSUME CopyTypeOK, OrderInv, UNCHANGED log, copies' = copies + 1
  PROVE  Written' = <<>> /\ \A i \in DOMAIN log : log[i].copy <= copies'
<1>1. log \in Seq(LogEntries) /\ copies \in Nat /\ copies' \in Nat
  BY CopyAssumption DEF CopyTypeOK
<1>2. ASSUME NEW i \in DOMAIN log
      PROVE  log[i].copy < copies' /\ log[i].copy <= copies'
  <2>1. log[i] \in LogEntries /\ log[i].copy <= copies
    BY <1>1 DEF OrderInv
  <2>2. log[i].copy \in Nat
    BY <2>1 DEF LogEntries
  <2> QED BY <1>1, <2>1, <2>2
<1>3. Written' = <<>>
  BY <1>1, <1>2, KeptFresh, WrittenIsKept
<1> QED BY <1>2, <1>3

(***************************************************************************)
(* Types.                                                                  *)
(***************************************************************************)
LEMMA TypeKept ==
  ASSUME CopyTypeOK, [CopyNext]_cvars
  PROVE  CopyTypeOK'
<1>0. Outcomes \subseteq {"ok", "eof", "err"} /\ MaxCopies \in Nat
      /\ MaxTrailers \in Nat
  BY CopyAssumption
<1>1. CASE TakeMuxer
  BY <1>1 DEF TakeMuxer, CopyTypeOK, CopyPC
<1>2. CASE CallCopyFile
  <2>1. copies' \in 0 .. MaxCopies
    BY <1>0, <1>2 DEF CallCopyFile, CopyTypeOK
  <2>2. source' \in Seq(Packets)
    BY <1>2 DEF CallCopyFile
  <2> QED BY <1>2, <2>1, <2>2 DEF CallCopyFile, CopyTypeOK, CopyPC
<1>3. CASE GetCodecs
  BY <1>3 DEF GetCodecs, Return, CopyTypeOK, CopyPC
<1>4. CASE WriteHeader
  <2>1. CASE stage # 0
    BY <1>4, <2>1 DEF WriteHeader, CopyTypeOK, CopyPC
  <2>2. CASE stage = 0
    <3>1. PICK result \in Outcomes :
            /\ Calls("header", 0, result)
            /\ pc' \in {"read", "idle"} /\ stage' \in {0, 1}
            /\ res' \in {res, "err"}
      BY <1>4, <2>2 DEF WriteHeader, Return
    <3>2. log' \in Seq(LogEntries)
      BY <1>0, <1>4, <3>1, LogGrows DEF WriteHeader, Operations
    <3> QED BY <1>4, <3>1, <3>2 DEF WriteHeader, CopyTypeOK, CopyPC
  <2> QED BY <2>1, <2>2
<1>5. CASE ReadPacket
  BY <1>5 DEF ReadPacket, DataPC, CopyTypeOK, CopyPC
<1>6. CASE ReadFails
  BY <1>6 DEF ReadFails, Return, CopyTypeOK, CopyPC
<1>7. CASE WriteCodecChange \/ WritePacket
  <2>1. PICK op \in {"change", "packet"}, result \in Outcomes :
          /\ Calls(op, Len(source), result)
          /\ pc' \in {"read", "packet", "trailer", "idle"}
          /\ res' \in {res, "err"}
    BY <1>7 DEF WriteCodecChange, WritePacket, PacketsFailed, Return, DataPC
  <2>2. UNCHANGED <<wrapped, stage, copies, source, own, trailers>>
    BY <1>7 DEF WriteCodecChange, WritePacket
  <2>3. Len(source) \in Nat /\ op \in Operations
    BY DEF CopyTypeOK, Operations
  <2>4. log' \in Seq(LogEntries)
    BY <1>0, <2>1, <2>2, <2>3, LogGrows
  <2> QED BY <2>1, <2>2, <2>4 DEF CopyTypeOK, CopyPC
<1>8. CASE CallWriteTrailer
  BY <1>0, <1>8 DEF CallWriteTrailer, CopyTypeOK, CopyPC
<1>9. CASE WriteTrailer
  <2>1. CASE wrapped /\ stage # 1
    BY <1>9, <2>1 DEF WriteTrailer, Return, CopyTypeOK, CopyPC
  <2>2. CASE ~(wrapped /\ stage # 1)
    <3>1. PICK result \in Outcomes :
            /\ Calls("trailer", 0, result)
            /\ pc' = "idle" /\ res' \in {"ok", "err"}
      BY <1>9, <2>2 DEF WriteTrailer, Return
    <3>2. log' \in Seq(LogEntries)
      BY <1>0, <1>9, <3>1, LogGrows DEF WriteTrailer, Operations
    <3>3. stage' \in 0 .. 2
      BY <1>9, <2>2 DEF WriteTrailer, CopyTypeOK
    <3> QED BY <1>9, <3>1, <3>2, <3>3 DEF WriteTrailer, CopyTypeOK, CopyPC
  <2> QED BY <2>1, <2>2
<1>10. CASE UNCHANGED cvars
  BY <1>10 DEF cvars, CopyTypeOK
<1> QED BY <1>1, <1>2, <1>3, <1>4, <1>5, <1>6, <1>7, <1>8, <1>9, <1>10
        DEF CopyNext

(***************************************************************************)
(* The stage of the wrapper.                                               *)
(***************************************************************************)
(* A step that makes no call and leaves the stage alone keeps StageInv, if   *)
(* it does not begin to copy without a header.                               *)
LEMMA StageStays ==
  ASSUME StageInv, UNCHANGED <<wrapped, stage, log>>, pc' # "none",
         Copying' => Copying \/ ~wrapped \/ stage # 0
  PROVE  StageInv'
<1>1. /\ OneHeaderOneTrailer' <=> OneHeaderOneTrailer
      /\ HeaderTaken' <=> HeaderTaken
      /\ CallsOf("trailer")' = CallsOf("trailer")
      /\ (\A i \in DOMAIN log : log[i].op = "header" /\ ~Succeeded(i))' <=>
         (\A i \in DOMAIN log : log[i].op = "header" /\ ~Succeeded(i))
  BY DEF OneHeaderOneTrailer, HeaderTaken, CallsOf, Succeeded
<1> QED BY <1>1 DEF StageInv

(* A call on the muxer itself, which has no stage, keeps it. *)
LEMMA StageOfPlain ==
  ASSUME StageInv, ~wrapped, UNCHANGED <<wrapped, stage>>, pc' # "none"
  PROVE  StageInv'
BY DEF StageInv, OneHeaderOneTrailer

(* So does a call that is neither header nor trailer, behind the header.     *)
LEMMA StageOfPacket ==
  ASSUME CopyTypeOK, StageInv, wrapped, stage # 0,
         NEW op \in {"change", "packet", "trailer"},
         NEW at \in Nat, NEW result \in {"ok", "eof", "err"},
         Calls(op, at, result), UNCHANGED <<wrapped, copies>>, pc' # "none",
         op # "trailer" => stage' = stage,
         op = "trailer" => stage = 1 /\ stage' = 2
  PROVE  StageInv'
<1> DEFINE n == Len(log)
<1>1. op \in Operations
  BY DEF Operations
<1>2. /\ DOMAIN log = 1 .. n /\ DOMAIN log' = 1 .. n + 1 /\ n \in Nat
      /\ \A i \in 1 .. n : log'[i] = log[i]
      /\ log'[n + 1] = [op |-> op, copy |-> copies, at |-> at,
                        result |-> result]
  BY <1>1, LogGrows
<1>3. log'[n + 1].op = op /\ op # "header"
  BY <1>2
<1> HIDE DEF n
<1>4. PICK h \in 1 .. n : log[h].op = "header" /\ log[h].result = "ok"
  BY <1>2 DEF StageInv, HeaderTaken, CallsOf, Succeeded
<1>5. HeaderTaken'
  BY <1>2, <1>4 DEF HeaderTaken, CallsOf, Succeeded
<1>6. op # "trailer" => CallsOf("trailer")' = CallsOf("trailer")
  BY <1>2, <1>3 DEF CallsOf
<1>7. \A i, j \in CallsOf("trailer")' : i = j
  <2>1. CASE op # "trailer"
    BY <1>6, <2>1 DEF StageInv, OneHeaderOneTrailer
  <2>2. CASE op = "trailer"
    <3>1. \A i \in 1 .. n : log[i].op # "trailer"
      BY <1>2, <2>2 DEF StageInv, CallsOf
    <3> QED BY <1>2, <3>1 DEF CallsOf
  <2> QED BY <2>1, <2>2
<1>8. \A i \in CallsOf("header")' :
        Succeeded(i)' => \A j \in DOMAIN log' : j # i /\ Succeeded(j)' => i < j
  <2>1. ASSUME NEW i \in DOMAIN log', log'[i].op = "header",
               log'[i].result = "ok",
               NEW j \in DOMAIN log', j # i, log'[j].result = "ok"
        PROVE  i < j
    <3>1. i \in 1 .. n
      BY <1>2, <1>3, <2>1
    <3>2. CASE j = n + 1
      BY <1>2, <3>1, <3>2
    <3>3. CASE j \in 1 .. n
      BY <1>2, <2>1, <3>1, <3>3
      DEF StageInv, OneHeaderOneTrailer, CallsOf, Succeeded
    <3> QED BY <1>2, <3>2, <3>3
  <2> QED BY <2>1 DEF CallsOf, Succeeded
<1>9. \A j \in DOMAIN log' \ CallsOf("header")' :
        \E i \in CallsOf("header")' : i < j /\ Succeeded(i)'
  <2>1. ASSUME NEW j \in DOMAIN log', log'[j].op # "header"
        PROVE  \E i \in 1 .. n : i < j /\ log[i].op = "header"
                                 /\ log[i].result = "ok"
    <3>1. CASE j = n + 1
      BY <1>2, <1>4, <3>1
    <3>2. CASE j \in 1 .. n
      BY <1>2, <2>1, <3>2
      DEF StageInv, OneHeaderOneTrailer, CallsOf, Succeeded
    <3> QED BY <1>2, <3>1, <3>2
  <2> QED BY <1>2, <2>1 DEF CallsOf, Succeeded
<1>10. OneHeaderOneTrailer'
  BY <1>7, <1>8, <1>9 DEF OneHeaderOneTrailer
<1>11. stage' # 0 /\ (stage' = 1 => op # "trailer")
  OBVIOUS
<1>12. stage' = 1 => CallsOf("trailer")' = {}
  BY <1>6, <1>11 DEF StageInv
<1> QED BY <1>5, <1>10, <1>11, <1>12 DEF StageInv

(* And the header, before which nothing has succeeded. *)
LEMMA StageOfHeader ==
  ASSUME CopyTypeOK, StageInv, wrapped, stage = 0, ~Copying,
         NEW result \in {"ok", "eof", "err"},
         Calls("header", 0, result), UNCHANGED <<wrapped, copies>>,
         pc' # "none", result = "ok" => stage' = 1,
         result # "ok" => stage' = 0 /\ ~Copying'
  PROVE  StageInv'
<1> DEFINE n == Len(log)
<1>1. "header" \in Operations /\ 0 \in Nat
  BY DEF Operations
<1>2. /\ DOMAIN log = 1 .. n /\ DOMAIN log' = 1 .. n + 1 /\ n \in Nat
      /\ \A i \in 1 .. n : log'[i] = log[i]
      /\ log'[n + 1] = [op |-> "header", copy |-> copies, at |-> 0,
                        result |-> result]
  BY <1>1, LogGrows
<1>3. log'[n + 1].op = "header" /\ log'[n + 1].result = result
  BY <1>2
<1> HIDE DEF n
<1>4. \A i \in 1 .. n : log'[i].op = "header" /\ log'[i].result # "ok"
  BY <1>2 DEF StageInv, Succeeded
<1>5. \A i \in DOMAIN log' : log'[i].op = "header"
  BY <1>2, <1>3, <1>4
<1>6. CallsOf("trailer")' = {} /\ DOMAIN log' \ CallsOf("header")' = {}
  BY <1>5 DEF CallsOf
<1>7. \A i \in CallsOf("header")' :
        Succeeded(i)' => \A j \in DOMAIN log' : j # i /\ Succeeded(j)' => i < j
  BY <1>2, <1>4 DEF CallsOf, Succeeded
<1>8. OneHeaderOneTrailer'
  BY <1>6, <1>7 DEF OneHeaderOneTrailer
<1>9. CASE result = "ok"
  <2>1. HeaderTaken'
    BY <1>2, <1>3, <1>9 DEF HeaderTaken, CallsOf, Succeeded
  <2> QED BY <1>6, <1>8, <1>9, <2>1 DEF StageInv
<1>10. CASE result # "ok"
  <2>1. \A i \in DOMAIN log' : log'[i].op = "header" /\ log'[i].result # "ok"
    BY <1>2, <1>3, <1>4, <1>10
  <2> QED BY <1>8, <1>10, <2>1 DEF StageInv, Succeeded
<1> QED BY <1>9, <1>10

LEMMA StageKept ==
  ASSUME CopyTypeOK, StageInv, [CopyNext]_cvars
  PROVE  StageInv'
<1>0. Outcomes \subseteq {"ok", "eof", "err"} /\ stage \in 0 .. 2
      /\ wrapped \in BOOLEAN /\ Len(source) \in Nat
  BY CopyAssumption DEF CopyTypeOK
<1>1. CASE TakeMuxer
  <2>1. log = <<>> /\ log' = <<>> /\ stage' = 0
    BY <1>1 DEF TakeMuxer, StageInv
  <2> QED BY <1>1, <2>1
          DEF TakeMuxer, StageInv, Copying, OneHeaderOneTrailer, CallsOf
<1>2. CASE CallCopyFile
  BY <1>2, StageStays DEF CallCopyFile, Copying
<1>3. CASE GetCodecs
  BY <1>3, StageStays DEF GetCodecs, Return, Copying
<1>4. CASE WriteHeader
  <2>1. CASE stage # 0
    BY <1>4, <2>1, StageStays DEF WriteHeader
  <2>2. CASE stage = 0 /\ ~wrapped
    BY <1>4, <2>2, StageOfPlain DEF WriteHeader, Return
  <2>3. CASE stage = 0 /\ wrapped
    <3>1. PICK result \in Outcomes :
            /\ Calls("header", 0, result)
            /\ result = "ok" => pc' = "read" /\ stage' = 1
            /\ result # "ok" => pc' = "idle" /\ stage' = 0
      BY <1>4, <2>3 DEF WriteHeader, Return
    <3>2. ~Copying /\ pc' # "none" /\ (result # "ok" => ~Copying')
      BY <1>4, <3>1 DEF WriteHeader, Copying
    <3> QED BY <1>0, <1>4, <2>3, <3>1, <3>2, StageOfHeader DEF WriteHeader
  <2> QED BY <1>0, <2>1, <2>2, <2>3
<1>5. CASE ReadPacket
  BY <1>5, StageStays DEF ReadPacket, DataPC, Copying
<1>6. CASE ReadFails
  BY <1>6, StageStays DEF ReadFails, Return, Copying
<1>7. CASE WriteCodecChange \/ WritePacket
  <2>1. PICK op \in {"change", "packet"}, result \in Outcomes :
          /\ Calls(op, Len(source), result)
          /\ pc' \in {"read", "packet", "trailer", "idle"}
    BY <1>7 DEF WriteCodecChange, WritePacket, PacketsFailed, Return, DataPC
  <2>2. UNCHANGED <<wrapped, stage, copies>> /\ Copying
    BY <1>7 DEF WriteCodecChange, WritePacket, Copying
  <2>3. CASE ~wrapped
    BY <2>1, <2>2, <2>3, StageOfPlain
  <2>4. CASE wrapped
    <3>1. stage # 0
      BY <2>2, <2>4 DEF StageInv
    <3> QED BY <1>0, <2>1, <2>2, <2>4, <3>1, StageOfPacket
  <2> QED BY <1>0, <2>3, <2>4
<1>8. CASE CallWriteTrailer
  BY <1>8, StageStays DEF CallWriteTrailer, Copying
<1>9. CASE WriteTrailer
  <2>1. CASE wrapped /\ stage # 1
    BY <1>9, <2>1, StageStays DEF WriteTrailer, Return, Copying
  <2>2. CASE ~wrapped
    BY <1>9, <2>2, StageOfPlain DEF WriteTrailer, Return
  <2>3. CASE wrapped /\ stage = 1
    <3>1. PICK result \in Outcomes :
            Calls("trailer", 0, result) /\ pc' = "idle" /\ stage' = 2
      BY <1>9, <2>3 DEF WriteTrailer, Return
    <3> QED BY <1>0, <1>9, <2>3, <3>1, StageOfPacket DEF WriteTrailer
  <2> QED BY <1>0, <2>1, <2>2, <2>3
<1>10. CASE UNCHANGED cvars
  BY <1>10 DEF cvars, StageInv, Copying, HeaderTaken, OneHeaderOneTrailer,
               CallsOf, Succeeded
<1> QED BY <1>1, <1>2, <1>3, <1>4, <1>5, <1>6, <1>7, <1>8, <1>9, <1>10
        DEF CopyNext

(***************************************************************************)
(* What comes behind the trailer.                                          *)
(***************************************************************************)
LEMMA TrailerStays ==
  ASSUME TrailerInv, UNCHANGED <<wrapped, log, copies>>, Busy' => Busy
  PROVE  TrailerInv'
BY DEF TrailerInv, TrailerEndsCopy, CallsOf

(* A call that a busy copy makes, and one that is made before the trailer.   *)
LEMMA TrailerOfCall ==
  ASSUME CopyTypeOK, TrailerInv, NEW op \in Operations, NEW at \in Nat,
         NEW result \in {"ok", "eof", "err"}, Calls(op, at, result),
         UNCHANGED <<wrapped, copies>>, Busy' => op # "trailer",
         wrapped => (Busy /\ op # "trailer") \/ CallsOf("trailer") = {}
  PROVE  TrailerInv'
<1> DEFINE n == Len(log)
<1>1. /\ DOMAIN log = 1 .. n /\ DOMAIN log' = 1 .. n + 1 /\ n \in Nat
      /\ \A i \in 1 .. n : log'[i] = log[i]
      /\ log'[n + 1].op = op /\ log'[n + 1].copy = copies
  <2>1. log'[n + 1] = [op |-> op, copy |-> copies, at |-> at, result |-> result]
    BY LogGrows
  <2>2. /\ DOMAIN log = 1 .. n /\ DOMAIN log' = 1 .. n + 1 /\ n \in Nat
        /\ \A i \in 1 .. n : log'[i] = log[i]
    BY LogGrows
  <2> HIDE DEF n
  <2> QED BY <2>1, <2>2
<1> HIDE DEF n
<1>2. ASSUME wrapped, NEW i \in CallsOf("trailer")', i # n + 1
      PROVE  i \in CallsOf("trailer") /\ i \in 1 .. n /\ log'[i] = log[i]
  BY <1>1, <1>2 DEF CallsOf
<1>3. ASSUME wrapped, NEW i \in CallsOf("trailer")', i # n + 1
      PROVE  log'[i].copy < copies
  BY <1>2, <1>3 DEF TrailerInv
<1>4. ASSUME wrapped, Busy'
      PROVE  \A i \in CallsOf("trailer")' : log'[i].copy < copies
  BY <1>1, <1>3, <1>4 DEF CallsOf
<1>5. ASSUME wrapped, NEW i \in CallsOf("trailer")', NEW j \in DOMAIN log', i < j
      PROVE  log'[i].copy < log'[j].copy
  <2>1. i # n + 1
    BY <1>1, <1>5 DEF CallsOf
  <2>2. CASE j = n + 1
    BY <1>1, <1>3, <1>5, <2>1, <2>2
  <2>3. CASE j # n + 1
    BY <1>1, <1>2, <1>5, <2>1, <2>3 DEF TrailerInv, TrailerEndsCopy
  <2> QED BY <2>2, <2>3
<1> QED BY <1>4, <1>5 DEF TrailerInv, TrailerEndsCopy

LEMMA TrailerKept ==
  ASSUME CopyTypeOK, StageInv, OrderInv, TrailerInv, [CopyNext]_cvars
  PROVE  TrailerInv'
<1>0. Outcomes \subseteq {"ok", "eof", "err"} /\ Len(source) \in Nat
  BY CopyAssumption DEF CopyTypeOK
<1>1. CASE TakeMuxer
  BY <1>1 DEF TakeMuxer, StageInv, TrailerInv, TrailerEndsCopy, CallsOf
<1>2. CASE CallCopyFile
  <2>1. ASSUME NEW i \in DOMAIN log
        PROVE  log[i].copy < copies'
    <3>1. log[i] \in LogEntries /\ log[i].copy <= copies /\ copies \in Nat
      BY CopyAssumption DEF CopyTypeOK, OrderInv
    <3> QED BY <1>2, <3>1 DEF CallCopyFile, LogEntries
  <2>2. UNCHANGED <<wrapped, log>>
    BY <1>2 DEF CallCopyFile
  <2> QED BY <2>1, <2>2 DEF TrailerInv, TrailerEndsCopy, CallsOf
<1>3. CASE GetCodecs \/ ReadPacket \/ ReadFails \/ CallWriteTrailer
  BY <1>3, TrailerStays
     DEF GetCodecs, ReadPacket, ReadFails, CallWriteTrailer, Return, Busy
<1>4. CASE WriteHeader
  <2>1. CASE stage # 0
    BY <1>4, <2>1, TrailerStays DEF WriteHeader, Busy
  <2>2. CASE stage = 0
    <3>1. PICK result \in Outcomes : Calls("header", 0, result)
      BY <1>4, <2>2 DEF WriteHeader
    <3> QED BY <1>0, <1>4, <3>1, TrailerOfCall
            DEF WriteHeader, Operations, Busy
  <2> QED BY <2>1, <2>2
<1>5. CASE WriteCodecChange \/ WritePacket
  <2>1. PICK op \in {"change", "packet"}, result \in Outcomes :
          Calls(op, Len(source), result)
    BY <1>5 DEF WriteCodecChange, WritePacket
  <2> QED BY <1>0, <1>5, <2>1, TrailerOfCall
          DEF WriteCodecChange, WritePacket, Operations, Busy
<1>6. CASE WriteTrailer
  <2>1. CASE wrapped /\ stage # 1
    BY <1>6, <2>1, TrailerStays DEF WriteTrailer, Return, Busy
  <2>2. CASE ~(wrapped /\ stage # 1)
    <3>1. PICK result \in Outcomes : Calls("trailer", 0, result)
      BY <1>6, <2>2 DEF WriteTrailer
    <3>2. wrapped => CallsOf("trailer") = {}
      BY <2>2 DEF StageInv
    <3>3. ~Busy' /\ UNCHANGED <<wrapped, copies>>
      BY <1>6, <2>2 DEF WriteTrailer, Return, Busy
    <3> QED BY <1>0, <3>1, <3>2, <3>3, TrailerOfCall DEF Operations
  <2> QED BY <2>1, <2>2
<1>7. CASE UNCHANGED cvars
  BY <1>7, TrailerStays DEF cvars, Busy
<1> QED BY <1>1, <1>2, <1>3, <1>4, <1>5, <1>6, <1>7 DEF CopyNext

(***************************************************************************)
(* The order of what is written.                                           *)
(***************************************************************************)
(* A step that leaves the source and the log alone, and does not go on with  *)
(* a packet, keeps OrderInv.                                                 *)
LEMMA OrderStays ==
  ASSUME CopyTypeOK, OrderInv, UNCHANGED <<wrapped, source, log, copies>>,
         pc' \in {"idle", "trailer"} \/ pc' = pc
           \/ (pc \in {"codecs", "header"} /\ pc' \in {"header", "read"})
  PROVE  OrderInv'
<1>1. /\ Written' = Written /\ Wanted' = Wanted /\ WantedUpTo' = WantedUpTo
      /\ ChangeFor(Len(source))' = ChangeFor(Len(source))
      /\ DataFor(Len(source))' = DataFor(Len(source))
  BY NothingWritten
<1>2. source = <<>> => Wanted = <<>>
  BY WantedLast
<1> QED BY <1>1, <1>2 DEF OrderInv

(* So does a call that writes nothing. *)
LEMMA OrderOfCall ==
  ASSUME CopyTypeOK, OrderInv, UNCHANGED <<wrapped, source, copies>>,
         NEW op \in Operations, NEW at \in Nat,
         NEW result \in {"ok", "eof", "err"}, Calls(op, at, result),
         ~(op \in {"change", "packet"} /\ result = "ok"),
         pc' \in {"idle", "trailer"} \/ (pc = "header" /\ pc' = "read")
  PROVE  OrderInv'
<1>1. /\ WantedUpTo' = WantedUpTo /\ Wanted' = Wanted
      /\ ChangeFor(Len(source))' = ChangeFor(Len(source))
  BY WantedIsAsked DEF ChangeFor, DstCanChangeCodec
<1>2. source = <<>> => Wanted = <<>>
  BY WantedLast
<1>3. /\ Written' = Written /\ Len(log) \in Nat
      /\ DOMAIN log = 1 .. Len(log) /\ DOMAIN log' = 1 .. Len(log) + 1
      /\ \A i \in 1 .. Len(log) : log'[i] = log[i]
      /\ log'[Len(log) + 1] = [op |-> op, copy |-> copies, at |-> at,
                               result |-> result]
  BY LogGrows
<1>4. copies \in Nat /\ copies <= copies
  BY CopyAssumption DEF CopyTypeOK
<1>5. \A i \in DOMAIN log' : log'[i].copy <= copies'
  BY <1>3, <1>4 DEF OrderInv
<1> QED BY <1>1, <1>2, <1>3, <1>5 DEF OrderInv

(* A codec change or a packet that the muxer has taken is the next one that  *)
(* is wanted.                                                                *)
LEMMA OrderOfWrite ==
  ASSUME CopyTypeOK, OrderInv, UNCHANGED <<wrapped, source, copies>>,
         NEW op \in {"change", "packet"}, pc = op,
         Calls(op, Len(source), "ok"),
         op = "change" => pc' = DataPC(source[Len(source)]),
         op = "packet" => pc' = "read"
  PROVE  OrderInv'
<1> DEFINE m == Len(source)
           J == WantedUpTo[m - 1]
           C == ChangeFor(m)
           D == DataFor(m)
<1>1. /\ WantedUpTo' = WantedUpTo /\ Wanted' = Wanted
      /\ ChangeFor(m)' = C /\ DataFor(m)' = D
  BY WantedIsAsked DEF ChangeFor, DataFor, DstCanChangeCodec
<1>2. source # <<>> /\ m \in Nat
  BY DEF OrderInv, CopyTypeOK
<1>3. /\ Wanted = J \o (C \o D)
      /\ J \in Seq(Tokens) /\ C \in Seq(Tokens) /\ D \in Seq(Tokens)
  BY <1>2, WantedLast
<1>4. /\ Written' = Written \o <<<<op, m>>>> /\ Len(log) \in Nat
      /\ DOMAIN log = 1 .. Len(log) /\ DOMAIN log' = 1 .. Len(log) + 1
      /\ \A i \in 1 .. Len(log) : log'[i] = log[i]
      /\ log'[Len(log) + 1] = [op |-> op, copy |-> copies, at |-> m,
                               result |-> "ok"]
  BY <1>2, LogGrows DEF Operations
<1>5. copies \in Nat /\ copies <= copies
  BY CopyAssumption DEF CopyTypeOK
<1>6. \A i \in DOMAIN log' : log'[i].copy <= copies'
  BY <1>4, <1>5 DEF OrderInv
<1>7. CASE op = "change"
  <2>1. Written = J /\ C # <<>>
    BY <1>7 DEF OrderInv
  <2>2. C = <<<<op, m>>>>
    BY <1>7, <2>1 DEF ChangeFor
  <2>3. Written' = J \o C
    BY <1>4, <2>1, <2>2
  <2>4. CASE source[m].data
    <3>1. pc' = "packet" /\ D # <<>>
      BY <1>7, <2>4 DEF DataPC, DataFor
    <3> HIDE DEF m, J, C, D
    <3>2. source' = source /\ Len(source') = m
      BY DEF m
    <3> QED BY <1>1, <1>2, <1>6, <2>3, <3>1, <3>2
            DEF OrderInv, m, J, C, D
  <2>5. CASE ~source[m].data
    <3>1. pc' = "read" /\ D = <<>>
      BY <1>7, <2>5 DEF DataPC, DataFor
    <3>2. Wanted = J \o C
      BY <1>3, <3>1
    <3> QED BY <1>1, <1>2, <1>6, <2>3, <3>1, <3>2 DEF OrderInv
  <2> QED BY <2>4, <2>5
<1>8. CASE op = "packet"
  <2>1. Written = J \o C /\ D # <<>> /\ pc' = "read"
    BY <1>8 DEF OrderInv
  <2>2. D = <<<<op, m>>>>
    BY <1>8, <2>1 DEF DataFor
  <2>3. Written' = (J \o C) \o D
    BY <1>4, <2>1, <2>2
  <2>4. (J \o C) \o D = J \o (C \o D)
    <3> HIDE DEF J, C, D
    <3> QED BY <1>3
  <2>5. Written' = Wanted'
    BY <1>1, <1>3, <2>3, <2>4
  <2> QED BY <1>1, <1>2, <1>6, <2>1, <2>5 DEF OrderInv
<1> QED BY <1>7, <1>8

(* A packet that has been read comes behind all that has been written.       *)
LEMMA OrderOfRead ==
  ASSUME CopyTypeOK, OrderInv, ReadPacket
  PROVE  OrderInv'
<1> SUFFICES ASSUME NEW m \in Nat, m = Len(source),
                    NEW D \in BOOLEAN, D = DstCanChangeCodec
             PROVE  OrderInv'
  <2>1. Len(source) \in Nat
    BY DEF CopyTypeOK
  <2>2. DstCanChangeCodec \in BOOLEAN
    BY WantedIsAsked
  <2> QED BY <2>1, <2>2
<1>1. PICK pkt \in Packets :
        /\ source' = Append(source, pkt)
        /\ pc' = IF pkt.change /\ D THEN "change" ELSE DataPC(pkt)
  BY DEF ReadPacket
<1>2. /\ UNCHANGED <<wrapped, log, copies>> /\ Written = Wanted
      /\ source \in Seq(Packets)
  BY DEF ReadPacket, OrderInv, CopyTypeOK
<1>3. /\ source' \in Seq(Packets) /\ Len(source') = m + 1
      /\ source'[m + 1] = pkt /\ source' # <<>> /\ (m + 1) - 1 = m
  BY <1>1, <1>2
<1>4. /\ DstCanChangeCodec' = D
      /\ Wanted = Joined(Asked(source, D))[m]
      /\ WantedUpTo' = Joined(Asked(source', D))
      /\ Wanted' = Joined(Asked(source', D))[m + 1]
  <2>1. DstCanChangeCodec' = D
    BY <1>2 DEF DstCanChangeCodec
  <2> QED BY <1>3, <2>1, WantedIsAsked
<1>5. WantedUpTo'[m] = Wanted
  BY <1>1, <1>2, <1>4, AskedGrows
<1>6. Written' = Written
  BY <1>2, WrittenIsKept
<1> DEFINE C == IF pkt.change /\ D THEN <<<<"change", m + 1>>>> ELSE <<>>
           P == IF pkt.data THEN <<<<"packet", m + 1>>>> ELSE <<>>
<1>7. ChangeFor(m + 1)' = C /\ DataFor(m + 1)' = P
  BY <1>3, <1>4 DEF ChangeFor, DataFor
<1>8. /\ Wanted' = WantedUpTo'[m] \o (C \o P)
      /\ WantedUpTo'[m] \in Seq(Tokens)
  <2>1. Asked(source', D)[m + 1] = C \o P
    BY <1>3 DEF Asked
  <2> HIDE DEF C, P
  <2> QED BY <1>3, <1>4, <2>1, AskedLast
<1>9. /\ \A i \in DOMAIN log' : log'[i].copy <= copies'
      /\ pc' \in {"change", "packet", "read"}
      /\ Written' = WantedUpTo'[m]
  BY <1>1, <1>2, <1>5, <1>6 DEF OrderInv, DataPC
<1>10. pc' = "change" => C # <<>>
  BY <1>1 DEF DataPC
<1>11. pc' = "packet" => P # <<>> /\ C = <<>>
  BY <1>1 DEF DataPC
<1>12. pc' = "read" => P = <<>> /\ C = <<>>
  BY <1>1 DEF DataPC
<1> HIDE DEF C, P
<1>13. /\ pc' = "packet" => Written' = WantedUpTo'[m] \o C
       /\ pc' = "read" => Written' = Wanted'
  <2>1. WantedUpTo'[m] \o <<>> = WantedUpTo'[m]
    BY <1>8
  <2>2. <<>> \o <<>> = <<>>
    OBVIOUS
  <2> QED BY <1>8, <1>9, <1>11, <1>12, <2>1, <2>2
<1>14. /\ pc' = "change" => ChangeFor(m + 1)' # <<>>
       /\ pc' = "packet" => DataFor(m + 1)' # <<>>
                            /\ Written' = WantedUpTo'[m] \o ChangeFor(m + 1)'
  BY <1>7, <1>10, <1>11, <1>13
<1>15. /\ ChangeFor(Len(source))' = ChangeFor(m + 1)'
       /\ DataFor(Len(source))' = DataFor(m + 1)'
       /\ WantedUpTo[Len(source) - 1]' = WantedUpTo'[m]
  BY <1>3
<1> QED BY <1>3, <1>9, <1>13, <1>14, <1>15 DEF OrderInv

LEMMA OrderKept ==
  ASSUME CopyTypeOK, StageInv, OrderInv, [CopyNext]_cvars
  PROVE  OrderInv'
<1>0. Outcomes \subseteq {"ok", "eof", "err"} /\ Len(source) \in Nat
  BY CopyAssumption DEF CopyTypeOK
<1>1. CASE TakeMuxer
  <2>1. log = <<>> /\ source = <<>> /\ log' = <<>> /\ source' = <<>>
        /\ pc' = "idle"
    BY <1>1 DEF TakeMuxer, StageInv
  <2>2. Written' = Written
    BY <1>1, WrittenIsKept DEF TakeMuxer
  <2> QED BY <2>1, <2>2 DEF OrderInv
<1>2. CASE CallCopyFile
  <2>1. Written' = <<>> /\ \A i \in DOMAIN log : log[i].copy <= copies'
    BY <1>2, NewCopyIsEmpty DEF CallCopyFile
  <2> QED BY <1>2, <2>1 DEF CallCopyFile, OrderInv
<1>3. CASE GetCodecs
  BY <1>3, OrderStays DEF GetCodecs, Return
<1>4. CASE WriteHeader
  <2>1. CASE stage # 0
    BY <1>4, <2>1, OrderStays DEF WriteHeader
  <2>2. CASE stage = 0
    <3>1. PICK result \in Outcomes :
            Calls("header", 0, result) /\ pc' \in {"read", "idle"}
      BY <1>4, <2>2 DEF WriteHeader, Return
    <3>2. "header" \in Operations /\ pc = "header"
      BY <1>4 DEF Operations, WriteHeader
    <3> QED BY <1>0, <1>4, <3>1, <3>2, OrderOfCall DEF WriteHeader
  <2> QED BY <2>1, <2>2
<1>5. CASE ReadPacket
  BY <1>5, OrderOfRead
<1>6. CASE ReadFails
  BY <1>6, OrderStays DEF ReadFails, Return
<1>7. CASE WriteCodecChange \/ WritePacket
  <2>1. PICK op \in {"change", "packet"}, result \in Outcomes :
          /\ Calls(op, Len(source), result) /\ pc = op
          /\ result # "ok" => pc' \in {"trailer", "idle"}
          /\ result = "ok" /\ op = "change" =>
               pc' = DataPC(source[Len(source)])
          /\ result = "ok" /\ op = "packet" => pc' = "read"
    BY <1>7 DEF WriteCodecChange, WritePacket, PacketsFailed, Return
  <2>2. UNCHANGED <<wrapped, source, copies>> /\ op \in Operations
    BY <1>7 DEF WriteCodecChange, WritePacket, Operations
  <2>3. CASE result = "ok"
    BY <2>1, <2>2, <2>3, OrderOfWrite
  <2>4. CASE result # "ok"
    BY <1>0, <2>1, <2>2, <2>4, OrderOfCall
  <2> QED BY <2>3, <2>4
<1>8. CASE CallWriteTrailer
  BY <1>8, OrderStays DEF CallWriteTrailer
<1>9. CASE WriteTrailer
  <2>1. CASE wrapped /\ stage # 1
    BY <1>9, <2>1, OrderStays DEF WriteTrailer, Return
  <2>2. CASE ~(wrapped /\ stage # 1)
    <3>1. PICK result \in Outcomes :
            Calls("trailer", 0, result) /\ pc' = "idle"
      BY <1>9, <2>2 DEF WriteTrailer, Return
    <3> QED BY <1>0, <1>9, <3>1, OrderOfCall DEF WriteTrailer, Operations
  <2> QED BY <2>1, <2>2
<1>10. CASE UNCHANGED cvars
  BY <1>10, OrderStays DEF cvars
<1> QED BY <1>1, <1>2, <1>3, <1>4, <1>5, <1>6, <1>7, <1>8, <1>9, <1>10
        DEF CopyNext

(***************************************************************************)
(* The first copy.                                                         *)
(***************************************************************************)
(* Calls once made stay in the log. *)
LEMMA CallsStay ==
  ASSUME CopyTypeOK, NEW op \in Operations, NEW at \in Nat,
         NEW result \in {"ok", "eof", "err"}, Calls(op, at, result),
         UNCHANGED copies
  PROVE  /\ HeaderTaken => HeaderTaken'
         /\ op = "header" /\ result = "ok" => HeaderTaken'
         /\ op = "trailer" /\ result = "ok" =>
              \E i \in CallsOf("trailer")' : Succeeded(i)'
         /\ EofFromMuxer => EofFromMuxer'
         /\ result = "eof" => EofFromMuxer'
<1> DEFINE n == Len(log)
<1>1. /\ DOMAIN log = 1 .. n /\ DOMAIN log' = 1 .. n + 1 /\ n \in Nat
      /\ \A i \in 1 .. n : log'[i] = log[i]
      /\ log'[n + 1] = [op |-> op, copy |-> copies, at |-> at,
                        result |-> result]
  BY LogGrows
<1>2. log'[n + 1].op = op /\ log'[n + 1].result = result
  BY <1>1
<1> HIDE DEF n
<1>3. n + 1 \in 1 .. n + 1
  BY <1>1
<1> QED BY <1>1, <1>2, <1>3
        DEF HeaderTaken, EofFromMuxer, CallsOf, Succeeded

LEMMA FirstCopyKept ==
  ASSUME CopyTypeOK, StageInv, OrderInv, FirstCopyInv, [CopyNext]_cvars
  PROVE  FirstCopyInv'
<1>0. /\ Outcomes \subseteq {"ok", "eof", "err"} /\ Len(source) \in Nat
      /\ copies \in Nat /\ stage \in 0 .. 2 /\ wrapped \in BOOLEAN
  BY CopyAssumption DEF CopyTypeOK
<1> DEFINE Same == /\ Written' = Written /\ Wanted' = Wanted
                   /\ HeaderTaken' = HeaderTaken
                   /\ EofFromMuxer' = EofFromMuxer
                   /\ CallsOf("header")' = CallsOf("header")
                   /\ CallsOf("trailer")' = CallsOf("trailer")
                   /\ \A i : Succeeded(i)' = Succeeded(i)
<1>00. ASSUME UNCHANGED <<wrapped, source, log, copies>>
       PROVE  Same
  BY <1>00, NothingWritten
  DEF HeaderTaken, EofFromMuxer, CallsOf, Succeeded
<1>1. CASE TakeMuxer
  BY <1>1 DEF TakeMuxer, StageInv, FirstCopyInv, NilMeansCopied
<1>2. CASE CallCopyFile
  BY <1>0, <1>2 DEF CallCopyFile, FirstCopyInv, NilMeansCopied, Copying
<1>3. CASE GetCodecs
  <2>1. /\ pc = "codecs" /\ UNCHANGED <<stage, copies>>
        /\ pc' = "header" \/ (pc' = "idle" /\ res' = "err")
    BY <1>3 DEF GetCodecs, Return
  <2> QED BY <2>1 DEF FirstCopyInv, NilMeansCopied, Copying
<1>4. CASE WriteHeader
  <2>1. pc = "header" /\ UNCHANGED <<wrapped, copies>>
    BY <1>4 DEF WriteHeader
  <2>2. CASE copies = 1
    <3>1. stage = 0
      BY <2>1, <2>2 DEF FirstCopyInv
    <3>2. PICK result \in Outcomes :
            /\ Calls("header", 0, result)
            /\ result = "ok" => pc' = "read" /\ (wrapped => stage' = 1)
            /\ result # "ok" => pc' = "idle" /\ res' = "err"
      BY <1>4, <3>1 DEF WriteHeader, Return
    <3>3. result = "ok" => HeaderTaken'
      BY <1>0, <2>1, <3>2, CallsStay DEF Operations
    <3> QED BY <2>1, <2>2, <3>2, <3>3
            DEF FirstCopyInv, NilMeansCopied, Copying
  <2>3. CASE copies # 1
    BY <1>4, <2>1, <2>3 DEF WriteHeader, FirstCopyInv, NilMeansCopied
  <2> QED BY <2>2, <2>3
<1>5. CASE ReadPacket
  <2>1. /\ Copying /\ pc' \in {"change", "packet", "read"}
        /\ UNCHANGED <<wrapped, stage, copies, log>>
    BY <1>5 DEF ReadPacket, DataPC, Copying
  <2>2. HeaderTaken' = HeaderTaken
    BY <2>1 DEF HeaderTaken, CallsOf, Succeeded
  <2> QED BY <2>1, <2>2 DEF FirstCopyInv, NilMeansCopied, Copying
<1>6. CASE ReadFails
  <2>1. /\ pc = "read" /\ Copying
        /\ pc' = "trailer" \/ (pc' = "idle" /\ res' = "err")
        /\ UNCHANGED <<wrapped, stage, copies>>
    BY <1>6 DEF ReadFails, Return, Copying
  <2>2. Written = Wanted
    BY <2>1 DEF OrderInv
  <2>3. Same
    BY <1>00, <1>6 DEF ReadFails
  <2> QED BY <2>1, <2>2, <2>3 DEF FirstCopyInv, NilMeansCopied, Copying
<1>7. CASE WriteCodecChange \/ WritePacket
  <2>1. PICK op \in {"change", "packet"}, result \in Outcomes :
          /\ Calls(op, Len(source), result)
          /\ \/ pc' \in {"read", "packet"}
             \/ pc' = "trailer" /\ result = "eof"
             \/ pc' = "idle" /\ res' = "err"
    BY <1>7 DEF WriteCodecChange, WritePacket, PacketsFailed, Return, DataPC
  <2>2. /\ UNCHANGED <<wrapped, stage, copies>> /\ Copying
        /\ op \in Operations
    BY <1>7 DEF WriteCodecChange, WritePacket, Copying, Operations
  <2>3. /\ HeaderTaken => HeaderTaken'
        /\ result = "eof" => EofFromMuxer'
    BY <1>0, <2>1, <2>2, CallsStay
  <2> QED BY <2>1, <2>2, <2>3 DEF FirstCopyInv, NilMeansCopied, Copying
<1>8. CASE CallWriteTrailer
  <2>1. /\ pc' = "trailer" /\ own' = TRUE /\ UNCHANGED <<stage, copies>>
    BY <1>8 DEF CallWriteTrailer
  <2> QED BY <2>1 DEF FirstCopyInv, NilMeansCopied, Copying
<1>9. CASE WriteTrailer
  <2>1. /\ pc = "trailer" /\ pc' = "idle" /\ UNCHANGED <<wrapped, copies, own>>
        /\ UNCHANGED source
    BY <1>9 DEF WriteTrailer, Return
  <2>2. copies = 0 => stage' = 0 /\ pc' = "idle"
    BY <1>0, <1>9, <2>1 DEF WriteTrailer, FirstCopyInv
  <2>3. NilMeansCopied'
    <3>1. SUFFICES ASSUME res' = "ok", ~own, copies = 1, ~EofFromMuxer'
                   PROVE  /\ \E i \in CallsOf("header")' : Succeeded(i)'
                          /\ Written' = Wanted'
                          /\ \E i \in CallsOf("trailer")' : Succeeded(i)'
      BY <2>1 DEF NilMeansCopied
    <3>2. HeaderTaken /\ ~(wrapped /\ stage # 1)
      BY <2>1, <3>1 DEF FirstCopyInv
    <3>3. PICK result \in Outcomes :
            Calls("trailer", 0, result) /\ result = "ok"
      BY <1>9, <3>1, <3>2 DEF WriteTrailer, Return
    <3>4. "trailer" \in Operations
      BY DEF Operations
    <3>5. /\ HeaderTaken' /\ ~EofFromMuxer
          /\ \E i \in CallsOf("trailer")' : Succeeded(i)'
      BY <2>1, <3>1, <3>2, <3>3, <3>4, CallsStay
    <3>6. Written = Wanted
      BY <2>1, <3>1, <3>5 DEF FirstCopyInv
    <3>7. Written' = Written
      BY <2>1, <3>3, <3>4, LogGrows
    <3>8. Wanted' = Wanted
      BY <2>1, WantedIsAsked DEF DstCanChangeCodec
    <3> QED BY <3>5, <3>6, <3>7, <3>8 DEF HeaderTaken
  <2> QED BY <2>1, <2>2, <2>3 DEF FirstCopyInv, Copying
<1>10. CASE UNCHANGED cvars
  <2>1. Same
    BY <1>00, <1>10 DEF cvars
  <2> QED BY <1>10, <2>1 DEF cvars, FirstCopyInv, NilMeansCopied, Copying
<1> QED BY <1>1, <1>2, <1>3, <1>4, <1>5, <1>6, <1>7, <1>8, <1>9, <1>10
        DEF CopyNext

(***************************************************************************)
(* The theorems.                                                           *)
(***************************************************************************)
(* CopyInv holds in every state: how the stage, the log and the place of the *)
(* loop go together.                                                         *)
THEOREM CopyInvCorrect == CopySpec => []CopyInv
<1>1. CopyInit => CopyInv
  <2> SUFFICES ASSUME CopyInit
               PROVE  CopyInv
    OBVIOUS
  <2>1. CopyTypeOK
    <3>1. <<>> \in Seq(Packets) /\ <<>> \in Seq(LogEntries)
      OBVIOUS
    <3>2. 0 \in 0 .. MaxCopies /\ 0 \in 0 .. MaxTrailers
      BY CopyAssumption
    <3>3. source \in Seq(Packets) /\ log \in Seq(LogEntries)
      BY <3>1 DEF CopyInit
    <3>4. copies \in 0 .. MaxCopies /\ trailers \in 0 .. MaxTrailers
      BY <3>2 DEF CopyInit
    <3>5. wrapped \in BOOLEAN /\ own \in BOOLEAN
      BY Zenon DEF CopyInit
    <3>6. stage \in 0 .. 2
      BY DEF CopyInit
    <3>7. pc \in CopyPC /\ res \in {"none", "ok", "err"}
      BY DEF CopyInit, CopyPC
    <3> QED BY <3>3, <3>4, <3>5, <3>6, <3>7 DEF CopyTypeOK
  <2>2. StageInv
    BY DEF CopyInit, StageInv, OneHeaderOneTrailer
  <2>3. Written = <<>>
    <3>1. Kept(log, copies) \in Seq(Seq(Tokens)) /\ Len(log) = 0
          /\ Len(Kept(log, copies)) = Len(log)
      BY <2>1, CopyAssumption, KeptTypeOK DEF CopyInit, CopyTypeOK
    <3> QED BY <3>1, JoinedSteps, WrittenIsKept
  <2>4. OrderInv
    BY <2>3 DEF CopyInit, OrderInv
  <2>5. FirstCopyInv
    BY DEF CopyInit, FirstCopyInv, NilMeansCopied
  <2>6. TrailerInv
    BY DEF CopyInit, TrailerInv, TrailerEndsCopy
  <2> QED BY <2>1, <2>2, <2>4, <2>5, <2>6 DEF CopyInv
<1>2. CopyInv /\ [CopyNext]_cvars => CopyInv'
  BY TypeKept, StageKept, TrailerKept, OrderKept, FirstCopyKept DEF CopyInv
<1> QED BY <1>1, <1>2, PTL DEF CopySpec

(* What has been written is what has been asked for, in order, up to the     *)
(* packet in hand, behind one header and before the trailer of its copy.     *)
THEOREM CopiesInOrderCorrect == CopySpec => []CopiesInOrder
<1>1. ASSUME CopyInv
      PROVE  CopiesInOrder
  <2>0. CopyTypeOK /\ OneHeaderOneTrailer /\ TrailerEndsCopy /\ OrderInv
    BY <1>1 DEF CopyInv, StageInv, TrailerInv
  <2>1. CASE source = <<>>
    BY <2>0, <2>1, WantedLast DEF CopiesInOrder, OrderInv
  <2>2. CASE source # <<>>
    <3> DEFINE J == WantedUpTo[Len(source) - 1]
               C == ChangeFor(Len(source))
               D == DataFor(Len(source))
    <3>1. /\ Wanted = J \o (C \o D) /\ J \in Seq(Tokens)
          /\ C \in Seq(Tokens) /\ D \in Seq(Tokens)
      BY <2>0, <2>2, WantedLast
    <3>2. Written \in {J, J \o C, Wanted}
      BY <2>0, <2>2 DEF OrderInv
    <3> HIDE DEF J, C, D
    <3>3. /\ Len(Written) <= Len(Wanted) /\ Len(Written) >= Len(J)
          /\ Written = SubSeq(Wanted, 1, Len(Written))
      <4>1. CASE Written = J
        BY <3>1, <4>1
      <4>2. CASE Written = J \o C
        <5>1. Wanted = (J \o C) \o D /\ J \o C \in Seq(Tokens)
          BY <3>1
        <5> QED BY <3>1, <4>2, <5>1
      <4>3. CASE Written = Wanted
        BY <3>1, <4>3
      <4> QED BY <3>2, <4>1, <4>2, <4>3
    <3> QED BY <2>0, <3>3 DEF CopiesInOrder, OrderInv, J
  <2> QED BY <2>1, <2>2
<1> QED BY <1>1, CopyInvCorrect, PTL

(* When the first CopyFile returns nil, the muxer has taken the header, all  *)
(* that was asked for and the trailer.                                       *)
THEOREM NilMeansCopiedCorrect == CopySpec => []NilMeansCopied
<1>1. CopyInv => NilMeansCopied
  BY DEF CopyInv, FirstCopyInv
<1> QED BY <1>1, CopyInvCorrect, PTL
=============================================================================
