------------------------------ MODULE MCAvutil ------------------------------
(***************************************************************************)
(* The registry of Handlers and the copying of Copy for TLC, in one run.   *)
(* They share no state: either one goes on while the other rests.          *)
(*                                                                         *)
(* The URIs are a file and a URL with an extension and a listening URI     *)
(* without one; the handlers are of four kinds.                            *)
(***************************************************************************)
EXTENDS Handlers, Copy

File == [listen |-> FALSE, scheme |-> FALSE, ext |-> ".mp4"]
Url == [listen |-> FALSE, scheme |-> TRUE, ext |-> ".flv"]
Listening == [listen |-> TRUE, scheme |-> TRUE, ext |-> ""]

MCUris == {File, Url, Listening}

Silent ==
  [ext |-> ".mp4", readerDemuxer |-> FALSE, writerMuxer |-> FALSE,
   serverDemuxer |-> {}, urlDemuxer |-> {}, urlReader |-> {},
   serverMuxer |-> {}, urlMuxer |-> {}]

MCRegistered ==
  {[Silent EXCEPT !.readerDemuxer = TRUE, !.writerMuxer = TRUE],
   [Silent EXCEPT !.ext = ".flv", !.readerDemuxer = TRUE, !.urlReader = {Url}],
   [Silent EXCEPT !.ext = ".rtsp", !.urlDemuxer = {Url, Listening},
                  !.urlMuxer = {Url}],
   [Silent EXCEPT !.ext = ".rtmp", !.serverDemuxer = {Listening},
                  !.serverMuxer = {Listening}]}

AvutilInit == HandlersInit /\ CopyInit

AvutilNext ==
  \/ CopyInit /\ UNCHANGED cvars /\ HandlersNext
  \/ HandlersInit /\ UNCHANGED hvars /\ CopyNext

AvutilSpec == AvutilInit /\ [][AvutilNext]_<<hvars, cvars>>
=============================================================================
