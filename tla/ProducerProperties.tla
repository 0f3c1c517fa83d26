------------------------- MODULE ProducerProperties -------------------------
(***************************************************************************)
(* The properties of a producer and its consumers.                         *)
(***************************************************************************)
EXTENDS Producer

(***************************************************************************)
(* Safety.                                                                 *)
(***************************************************************************)
SameId(j, k) == IdOf[j] = IdOf[k]

Closers(c) == {r \in Removers : rem[r].pc = "wait" /\ rem[r].con = c}

(* A consumer whose goroutine may outlive its entry in the map: Close began  *)
(* before the goroutine was spawned, or a RemoveConsumer is waiting for it.  *)
Detached(c) == con[c].late \/ Closers(c) # {}

(* No two members of the map have the same consumer ID, whatever calls race  *)
(* between the check and the insertion (producer.go:236-244).                *)
UniqueIds ==
  \A p \in Producers : \A j, k \in prod[p].members : SameId(j, k) => j = k

(* A consumer goroutine that runs is in the map of its producer, where the   *)
(* sweep and the shutdown can find it, unless it is detached: what           *)
(* producer.go:148-166 leaves out, no goroutine is left to stop.             *)
RunningIsMember ==
  \A p \in Producers, k \in Calls :
    Running(<<p, k>>) => k \in prod[p].members \/ Detached(<<p, k>>)

(* Two muxers are open for one consumer ID of a producer only if one of the  *)
(* consumers is detached: a sink is not written by two goroutines.           *)
OneMuxerPerId ==
  \A p \in Producers : \A j, k \in Calls :
    /\ j # k /\ SameId(j, k)
    /\ MuxOpen(<<p, j>>) /\ MuxOpen(<<p, k>>)
    => Detached(<<p, j>>) \/ Detached(<<p, k>>)

ShutDown == {"remover", "demClose", "finish", "done"}

(* An AddConsumer that races with the shutdown can leave a consumer in the   *)
(* map after the deferred clean-up has emptied it (producer.go:105-122); the *)
(* goroutine of such a consumer is never spawned, nor its context derived.   *)
LeftoversNeverRun ==
  \A p \in Producers : \A k \in prod[p].members :
    prod[p].pc \in ShutDown =>
      con[<<p, k>>].pc = "none" /\ ~con[<<p, k>>].cancel

(* A RemoveConsumer waits for nobody who has not heard of it: the goroutine  *)
(* it waits for has its context done, unless that was derived only after     *)
(* Close had looked for the cancel function (consumer.go:49-52, 147-158).    *)
RemoverIsHeard ==
  \A r \in Removers :
    LET c == rem[r].con IN
    rem[r].pc = "wait" /\ Running(c) => con[c].ctxDone \/ con[c].late

(* When AddConsumer returns nil the consumer goroutine has been spawned and   *)
(* has its streams, unless the caller gave up or there are no streams: it is *)
(* not left waiting for a header that nobody will send (consumer.go:66-74,   *)
(* 112-128).                                                                 *)
NilMeansHeaderTaken ==
  \A k \in Calls :
    call[k].pc = "ret" /\ call[k].res = "ok" =>
      \/ con[<<call[k].prod, k>>].pc \notin {"none", "waitHeader"}
      \/ call[k].ctx
      \/ prod[call[k].prod].codecs = "empty"

(* A consumer whose AddConsumer has returned an error is inactive for as     *)
(* long as it is in the map (producer.go:245-254), so that the next sweep of *)
(* a producer in its loop takes it out and its ID can be used again.  Once   *)
(* the producer has left the loop there is no such sweep: what its clean-up  *)
(* does not find stays in the map.  With a nil errChan the consumer is not   *)
(* marked if there are no codecs for it (consumer.go:164-180).               *)
FailedAddIsInactive ==
  \A k \in Calls :
    LET p == call[k].prod IN
    /\ call[k].pc = "ret" /\ call[k].res # "ok"
    /\ k \in prod[p].members /\ <<p, k>> \notin NilErrCh
    => con[<<p, k>>].inactive

(* The packets a consumer has accepted.                                      *)
Accepted(c) == con[c].written \o con[c].queue

(* Every consumer gets the packets in the order in which the demuxer         *)
(* delivered them, none twice (producer.go:186-204 and consumer.go:94-99).   *)
InOrder ==
  \A c \in Consumers : \A i, j \in 1 .. Len(Accepted(c)) :
    i < j => Accepted(c)[i] < Accepted(c)[j]

(***************************************************************************)
(* The inductive invariant behind UniqueIds, RunningIsMember,              *)
(* OneMuxerPerId and LeftoversNeverRun.                                    *)
(***************************************************************************)
Unstarted(c) == con[c].pc = "none" /\ ~con[c].cancel

(* Outside the select loop and the sweeps no member has been started. *)
QuietMembers ==
  \A p \in Producers : \A k \in prod[p].members :
    prod[p].pc \in {"none", "factory", "codecs"} \cup ShutDown =>
      Unstarted(<<p, k>>)

(* A call works on a producer; the consumer of one that has not handed it to *)
(* the main goroutine of that producer has not been started.                 *)
FreshByCall ==
  /\ \A k \in Calls : call[k].pc # "idle" => call[k].prod \in Producers
  /\ \A k \in Calls :
       call[k].pc \notin {"idle", "header", "ret"} =>
         Unstarted(<<call[k].prod, k>>)

Sweeping == {"sweep", "sweepWait", "exitSweep", "exitWait"}

Waiting == {"sweepWait", "exitWait"}

(* What a sweep has dealt with is closing, what came into the map after the  *)
(* snapshot of the shutdown is not started, and the consumer being started   *)
(* has its context but no goroutine yet.                                     *)
SweepProgress ==
  \A p \in Producers :
    /\ prod[p].pc \in Sweeping =>
         /\ prod[p].todo \subseteq prod[p].snap
         /\ prod[p].snap \subseteq prod[p].members
         /\ \A k \in prod[p].snap \ prod[p].todo : con[<<p, k>>].closing
    /\ prod[p].pc \in Waiting => prod[p].cur \in prod[p].snap
    /\ prod[p].pc = "starting" =>
         /\ prod[p].cur \in Calls
         /\ con[<<p, prod[p].cur>>].pc = "none"
         /\ con[<<p, prod[p].cur>>].cancel
    /\ prod[p].pc \in {"exitSweep", "exitWait"} =>
         \A k \in prod[p].members \ prod[p].snap : Unstarted(<<p, k>>)

Inserted(p, k) ==
  \/ call[k].prod = p /\ call[k].pc \in {"getCodecs", "send"}
  \/ ~Unstarted(<<p, k>>)

(* A consumer leaves the map of a live producer only when it is closing. *)
LostIsClosing ==
  \A p \in Producers, k \in Calls :
    Inserted(p, k) /\ prod[p].pc \notin ShutDown =>
      k \in prod[p].members \/ con[<<p, k>>].closing

(* Whoever began to close a running consumer is still waiting for it. *)
ClosingIsAwaited ==
  \A p \in Producers, k \in Calls :
    con[<<p, k>>].closing /\ Running(<<p, k>>) =>
      Detached(<<p, k>>) \/ (prod[p].pc \in Waiting /\ prod[p].cur = k)

RunningIsFound ==
  \A p \in Producers, k \in Calls :
    Running(<<p, k>>) =>
      \/ Detached(<<p, k>>)
      \/ prod[p].pc \notin ShutDown /\ k \in prod[p].members

OpenMuxerRuns ==
  \A c \in Consumers :
    MuxOpen(c) => con[c].pc \in {"header", "loop", "write", "close"}

MapInv ==
  /\ UniqueIds
  /\ QuietMembers
  /\ FreshByCall
  /\ SweepProgress
  /\ LostIsClosing
  /\ ClosingIsAwaited
  /\ RunningIsFound
  /\ OpenMuxerRuns

(* Of a caller that calls once the started consumer tells where it is. *)
StartedByCall ==
  \A p \in Producers, k \in Calls :
    ~Unstarted(<<p, k>>) =>
      call[k].prod = p /\ call[k].pc \in {"header", "ret"}

MembershipInv == MapInv /\ StartedByCall

(***************************************************************************)
(* Each producer implements the abstract fan-out.                          *)
(***************************************************************************)
Pending(p) ==
  IF prod[p].rd = "write"
  THEN prod[p].out \cup ({prod[p].tgt} \ {None})
  ELSE {}

FanoutOf(p) == INSTANCE Fanout WITH
  Subscribers <- Calls,
  LastPacket  <- MaxPackets,
  head        <- prod[p].pkts,
  log         <- [k \in Calls |-> Accepted(<<p, k>>)],
  pend        <- Pending(p),
  joined      <- prod[p].members,
  gone        <- {k \in Calls : ~IsActive(con[<<p, k>>])},
  cancelled   <- prod[p].ctxDone \/ prod[p].codecs = "err"

(* The read loop with its queues (producer.go:177-207) is a lossless,        *)
(* in-order broadcast while the producer lives: each packet goes to all the  *)
(* active consumers of the map, none of which a sweep takes out of it.       *)
FansOut ==
  /\ \A p \in Producers : FanoutOf(p)!FanoutInit
  /\ [][\A p \in Producers :
           [FanoutOf(p)!FanoutNext]_(FanoutOf(p)!fanoutVars)]_pvars

(***************************************************************************)
(* Liveness.                                                               *)
(***************************************************************************)
Stopped(p) ==
  /\ prod[p].pc = "done" /\ prod[p].rd \in {"none", "done"}
  /\ \A k \in Calls : ~Running(<<p, k>>)

(* A producer whose context is done ends with all its goroutines: Close can  *)
(* return (producer.go:32-43), even when the read loop is blocked on a full  *)
(* queue.                                                                    *)
CancelledProducerStops ==
  \A p \in Producers : prod[p].ctxDone ~> Stopped(p)

(* While the producer lives, an inactive consumer leaves the map             *)
(* (producer.go:148-166).                                                    *)
InactiveIsSwept ==
  \A p \in Producers, k \in Calls :
    (k \in prod[p].members /\ con[<<p, k>>].inactive)
      ~> (k \notin prod[p].members \/ prod[p].pc \in ShutDown)

(* An AddConsumer whose context is cancelled returns, and any other does     *)
(* unless the producer ends or the new consumer is closed under it           *)
(* (producer.go:226-258).                                                    *)
CallReturns ==
  \A k \in Calls, p \in Producers :
    /\ (call[k].pc \notin {"idle", "ret"} /\ call[k].prod = p)
         ~> (call[k].pc = "ret" \/ prod[p].ctxDone \/ con[<<p, k>>].closing)
    /\ (call[k].pc \notin {"idle", "ret"} /\ call[k].ctx) ~> (call[k].pc = "ret")

(* The read loop is not held up for ever by a live consumer: only one that   *)
(* has failed, or is closed, with a full queue can block it                  *)
(* (producer.go:202-204 and consumer.go:130-137).                            *)
LiveTargetTakesPacket ==
  \A p \in Producers, k \in Calls :
    (prod[p].tgt = k)
      ~> (prod[p].tgt # k \/ ~IsActive(con[<<p, k>>]))

(***************************************************************************)
(* What the documentation of package av says of the calls this code makes. *)
(***************************************************************************)
(* av/factory.go:12-13: demuxerRemover is called after Close on the demuxer. *)
RemoverAfterClose ==
  \A p \in Producers :
    prod[p].removed /\ prod[p].demuxer # "none" => prod[p].demuxer = "closed"
=============================================================================
