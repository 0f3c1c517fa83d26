------------------------- MODULE ManagerProperties -------------------------
(***************************************************************************)
(* The properties of the stream manager with its producers and consumers.  *)
(***************************************************************************)
EXTENDS StreamManager

(* A producer that runs is in the map of the manager, where AddConsumer      *)
(* finds it and the sweep can stop it, unless it was started after it had    *)
(* been closed: the manager received it from producersToStart when it had    *)
(* already swept it away (streammanager.go:93-118).                          *)
RunningProducerIsMapped ==
  \A p \in Producers : ProducerRunning(p) => p \in Mapped \/ prod[p].late

(* A source is opened once: two demuxers are open for one producer ID only   *)
(* if one of the producers was started after it had been closed.             *)
OneDemuxerPerId ==
  \A p, q \in Producers :
    /\ p # q /\ pid[p] = pid[q]
    /\ prod[p].demuxer = "open" /\ prod[q].demuxer = "open"
    => prod[p].late \/ prod[q].late

(* When WaitStop can return (streammanager.go:223-227) no goroutine of a     *)
(* producer or consumer is left, except below a producer started after it    *)
(* had been closed, a consumer spawned after its Close had begun, or one     *)
(* that a RemoveConsumer is still waiting for.                               *)
StoppedIsQuiet ==
  mgr.pc = "done" =>
    /\ \A p \in Producers : ProducerRunning(p) => prod[p].late
    /\ \A p \in Producers, k \in Calls :
         Running(<<p, k>>) =>
           \/ prod[p].late \/ con[<<p, k>>].late
           \/ \E r \in Removers : rem[r].pc = "wait" /\ rem[r].con = <<p, k>>

(* The sources as their owners see them: what is in the map, and which       *)
(* demuxers are open.  One that was started after it had been closed is in   *)
(* nobody's hands any more.                                                  *)
SourceOf(id) ==
  LET p == pmap[id]
  IN  IF p = None THEN "none"
      ELSE IF prod[p].closing THEN "closing"
      ELSE IF Started(p) THEN "running"
      ELSE "waiting"

AbstractSources == INSTANCE Sources WITH
  Ids    <- ProducerIds,
  source <- [id \in ProducerIds |-> SourceOf(id)],
  open   <- {pid[p] : p \in {q \in Producers : prod[q].demuxer = "open" /\ ~prod[q].late}},
  ended  <- mgr.pc = "done"

(* The map, the goroutine that starts and sweeps producers and the calls of  *)
(* AddConsumer (streammanager.go:55-169) implement Sources: no ID loses or   *)
(* changes its producer while that runs, none is swept that has not been     *)
(* closed and has ended, and nothing is opened when the manager has ended,   *)
(* except by producers that were started after they had been closed.         *)
SourcesAreManaged == AbstractSources!SourcesSpec

(* Stop ends: once the context of the manager is done its goroutine closes   *)
(* every producer and ends (streammanager.go:70-87, 211-235).                *)
StopCompletes == mgr.ctxDone ~> (mgr.pc = "done")

(* A producer without consumers leaves the map unless it gets one, as long   *)
(* as the manager runs (streammanager.go:93-110); after that an AddConsumer  *)
(* past its first checks can leave one there for good.                       *)
IdleIsSwept ==
  \A id \in ProducerIds :
    id \in Idle ~> (id \notin Idle \/ mgr.pc = "done")

(* The bound on producer objects: as many as there are have been started     *)
(* after they had been closed, and still run.                                *)
OutOfObjects(k) ==
  /\ add[k].pc = "lookup" /\ pmap[PidOf[k]] = None
  /\ \A p \in Producers : ~Free(p)

(* The idle sweep stops coming between an AddConsumer and the producer it    *)
(* has just created, as ticks a second apart do.                             *)
SweepsPause == <>[](mgr.pc \notin {"sweep", "sweepWait"})

(* While the manager runs an AddConsumer returns, unless the producer it is  *)
(* on is closed under it; one whose context is cancelled returns even then,  *)
(* through all its retries, unless the idle sweep closes the producer that   *)
(* the call creates again and again (streammanager.go:127-169).              *)
AddReturnsOrClosed ==
  \A k \in Calls :
    LET ends == add[k].pc = "ret" \/ mgr.ctxDone \/ OutOfObjects(k) IN
    /\ (add[k].pc \notin {"idle", "ret"})
         ~> (ends \/ \E p \in Producers : call[k].prod = p /\ prod[p].closing)
    /\ SweepsPause => ((call[k].ctx /\ add[k].pc \notin {"idle", "ret"}) ~> ends)
=============================================================================
