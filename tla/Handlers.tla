------------------------------ MODULE Handlers ------------------------------
(***************************************************************************)
(* The registry of av/avutil/avutil.go: Handlers.Add, Open, Create and     *)
(* FindCreate, and what becomes of the files and connections they open.    *)
(*   handlers  the registered handlers, in order                           *)
(*   calls     how many times Open or Create has been called               *)
(*   readers   the calls whose io.ReadCloser is open                       *)
(*   writers   the calls whose io.WriteCloser is open                      *)
(*   held      what the caller holds: the demuxers and muxers returned     *)
(*   last      what the last call did                                      *)
(* The sources and sinks are numbered by the calls that opened them; 0 is  *)
(* the nil interface.                                                      *)
(***************************************************************************)
EXTENDS Naturals, Sequences

CONSTANTS
  Uris,         \* records [listen, scheme, ext]; listen is the prefix
                \* "listen:", and ext is NoExt or an extension
  NoExt,
  Registered,   \* the records that Add may append
  MaxHandlers,  \* bound: handlers registered
  MaxCalls      \* bound: calls of Open and Create

ASSUME HandlersAssumption ==
  /\ \A uri \in Uris : uri.listen \in BOOLEAN /\ uri.scheme \in BOOLEAN
  /\ \A h \in Registered :
       /\ {h.serverDemuxer, h.urlDemuxer, h.urlReader, h.serverMuxer,
           h.urlMuxer} \subseteq SUBSET Uris
       /\ h.readerDemuxer \in BOOLEAN /\ h.writerMuxer \in BOOLEAN
       /\ h.ext # NoExt
  /\ MaxHandlers \in Nat /\ MaxCalls \in Nat

VARIABLES handlers, calls, readers, writers, held, last

hvars == <<handlers, calls, readers, writers, held, last>>

(* What the caller gets: a demuxer or muxer of the handler's own, or a       *)
(* HandlerDemuxer or HandlerMuxer; src is the field r or w of these, and     *)
(* that of a HandlerDemuxer is always nil.                                   *)
Handles ==
  [kind : {"demuxer", "muxer"}, src : {0}, wrapper : {FALSE}, call : 1 .. MaxCalls]
  \cup [kind : {"demuxer"}, src : {0}, wrapper : {TRUE}, call : 1 .. MaxCalls]
  \cup [kind : {"muxer"}, src : 1 .. MaxCalls, wrapper : {TRUE},
        call : 1 .. MaxCalls]

HandlersTypeOK ==
  /\ handlers \in Seq(Registered) /\ Len(handlers) <= MaxHandlers
  /\ calls \in 0 .. MaxCalls
  /\ readers \subseteq 1 .. calls /\ writers \subseteq 1 .. calls
  /\ held \subseteq Handles
  /\ last \in {"none", "ok", "err", "panic"}

HandlersInit ==
  /\ handlers = <<>> /\ calls = 0
  /\ readers = {} /\ writers = {} /\ held = {} /\ last = "none"

(* Faulty variant: the handler registered last is asked first. *)
FirstIsLast(matches) ==
  IF matches = {} THEN 0
  ELSE CHOOSE i \in matches : \A j \in matches : i >= j

(* The loops over handlers stop at the first that matches; 0 is none. *)
First(matches) ==
  IF matches = {} THEN 0
  ELSE CHOOSE i \in matches : \A j \in matches : i <= j

(* ServerDemuxer or URLDemuxer, and ServerMuxer or URLMuxer. *)
DemuxerClaims(h) == [listen |-> h.serverDemuxer, url |-> h.urlDemuxer]
MuxerClaims(h) == [listen |-> h.serverMuxer, url |-> h.urlMuxer]

Claims(claims, uri) ==
  IF uri.listen THEN uri \in claims.listen ELSE uri \in claims.url

DirectDemuxer(uri) ==
  First({i \in DOMAIN handlers : Claims(DemuxerClaims(handlers[i]), uri)})

DirectMuxer(uri) ==
  First({i \in DOMAIN handlers : Claims(MuxerClaims(handlers[i]), uri)})

ExtDemuxer(uri) ==
  First({i \in DOMAIN handlers :
           handlers[i].ext = uri.ext /\ handlers[i].readerDemuxer})

ExtMuxer(uri) ==
  First({i \in DOMAIN handlers :
           handlers[i].ext = uri.ext /\ handlers[i].writerMuxer})

(* openURL finds somebody to ask: a URLReader, or the file system. *)
HasReader(uri) ==
  uri.scheme => \E i \in DOMAIN handlers : uri \in handlers[i].urlReader

Failed == last' = "err" /\ UNCHANGED <<readers, writers, held>>

Returns(kind, src, wrapper) ==
  /\ last' = "ok"
  /\ held' = held \cup {[kind |-> kind, src |-> src, wrapper |-> wrapper,
                         call |-> calls + 1]}

Add(h) ==
  /\ Len(handlers) < MaxHandlers
  /\ handlers' = Append(handlers, h)
  /\ UNCHANGED <<calls, readers, writers, held, last>>

(* The URLDemuxer or ServerDemuxer that claims the URI returns a demuxer or  *)
(* an error of its own.                                                      *)
OpenDirect(uri) ==
  \/ Failed
  \/ Returns("demuxer", 0, FALSE) /\ UNCHANGED <<readers, writers>>

(* What openURL returns is dropped: the variable r of Open stays nil.        *)
OpenByExt(uri) ==
  \/ Failed
  \/ /\ HasReader(uri)
     /\ readers' = readers \cup {calls + 1}
     /\ Returns("demuxer", 0, TRUE)
     /\ UNCHANGED writers

(* Reading the probe from the nil reader panics. *)
OpenByProbe(uri) ==
  \/ Failed
  \/ /\ HasReader(uri)
     /\ readers' = readers \cup {calls + 1}
     /\ last' = "panic"
     /\ UNCHANGED <<writers, held>>

Open(uri) ==
  /\ calls < MaxCalls
  /\ calls' = calls + 1
  /\ CASE DirectDemuxer(uri) # 0 -> OpenDirect(uri)
       [] DirectDemuxer(uri) = 0 /\ uri.ext = NoExt -> Failed
       [] DirectDemuxer(uri) = 0 /\ uri.ext # NoExt ->
            IF ExtDemuxer(uri) # 0 THEN OpenByExt(uri) ELSE OpenByProbe(uri)
  /\ UNCHANGED handlers

CreateDirect(uri) ==
  \/ Failed
  \/ Returns("muxer", 0, FALSE) /\ UNCHANGED <<readers, writers>>

(* createURL, and a HandlerMuxer over the file *)
CreateByExt(uri) ==
  \/ Failed
  \/ /\ writers' = writers \cup {calls + 1}
     /\ Returns("muxer", calls + 1, TRUE)
     /\ UNCHANGED readers

(* Faulty variant: the file is created before the handler is looked for. *)
CreateFileFirst(uri) ==
  /\ calls < MaxCalls
  /\ calls' = calls + 1
  /\ IF DirectMuxer(uri) # 0 THEN CreateDirect(uri)
     ELSE IF ExtMuxer(uri) # 0 THEN CreateByExt(uri)
     ELSE /\ writers' = writers \cup {calls + 1} /\ last' = "err"
          /\ UNCHANGED <<readers, held>>
  /\ UNCHANGED handlers

Create(uri) ==
  /\ calls < MaxCalls
  /\ calls' = calls + 1
  /\ IF DirectMuxer(uri) # 0 THEN CreateDirect(uri)
     ELSE IF ExtMuxer(uri) # 0 THEN CreateByExt(uri)
     ELSE Failed
  /\ UNCHANGED handlers

(* Close of a HandlerDemuxer or HandlerMuxer closes r or w; on nil it panics.*)
Close(h) ==
  /\ h \in held
  /\ held' = held \ {h}
  /\ readers' = readers \ {h.src} /\ writers' = writers \ {h.src}
  /\ last' = IF h.wrapper /\ h.src = 0 THEN "panic" ELSE "ok"
  /\ UNCHANGED <<handlers, calls>>

(* A program that has panicked goes no further. *)
HandlersNext ==
  /\ last # "panic"
  /\ \/ \E h \in Registered : Add(h)
     \/ \E uri \in Uris : Open(uri) \/ Create(uri)
     \/ \E h \in held : Close(h)

HandlersSpec == HandlersInit /\ [][HandlersNext]_hvars

(***************************************************************************)
(* Properties.                                                             *)
(***************************************************************************)
Sources(kind) == {h.src : h \in {g \in held : g.kind = kind}}

(* A file that Create has opened for writing belongs to a muxer the caller   *)
(* holds, whose Close will close it: a Create that fails leaves none behind  *)
(* (avutil.go:295-311).                                                      *)
SinksAreHeld == HandlersTypeOK /\ writers \subseteq Sources("muxer")

(* av/demuxer.go:30-31: the demuxers that avutil.Open returns have an        *)
(* underlying source that is closed with them; so a source that is open has  *)
(* its demuxer.                                                              *)
SourcesAreHeld == last # "panic" => readers \subseteq Sources("demuxer")

(* A handler registered later takes nothing over: not a URI that an earlier  *)
(* one answers itself, nor the extension of an earlier one                   *)
(* (avutil.go:144-170, 186-201, 254-280, 295-309).                           *)
FirstRegisteredWins ==
  [][\A uri \in Uris :
       /\ DirectDemuxer(uri) # 0 => DirectDemuxer(uri)' = DirectDemuxer(uri)
       /\ DirectMuxer(uri) # 0 => DirectMuxer(uri)' = DirectMuxer(uri)
       /\ ExtDemuxer(uri) # 0 => ExtDemuxer(uri)' = ExtDemuxer(uri)
       /\ ExtMuxer(uri) # 0 => ExtMuxer(uri)' = ExtMuxer(uri)]_hvars
=============================================================================
