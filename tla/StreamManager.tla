--------------------------- MODULE StreamManager ---------------------------
(***************************************************************************)
(* The stream manager of av/streammanager3/streammanager.go over the       *)
(* producers and consumers of Producer: the map of producers, the          *)
(* goroutine that starts producers and sweeps the idle ones, AddConsumer   *)
(* with its retries, SignalStop and the end of Start's context.            *)
(*                                                                         *)
(* An AddConsumer of the manager runs an AddConsumer of a producer inside  *)
(* it: add[k] is the frame of the outer call and call[k] of Producer that  *)
(* of the inner one.  A producer object that has ended and that nobody     *)
(* refers to any more is used again for the next NewProducer.              *)
(*                                                                         *)
(* mgr has the fields                                                      *)
(*   pc         where the goroutine is; "none" before Start                *)
(*   closing    alreadyClosing                                             *)
(*   ctxDone    whether the context of the goroutine is done               *)
(*   snap,todo  the map inactive of a sweep, and what it has yet to close  *)
(*   cur        the producer whose Close it waits for                      *)
(* pmap is the map producers, and pid[p] the ID of the object p.           *)
(***************************************************************************)
EXTENDS Producer

CONSTANTS
  ProducerIds,  \* the producer IDs
  PidOf,        \* PidOf[k] is the producer ID given to call k
  CanStop       \* whether the manager is stopped at all

ASSUME ManagerAssumption ==
  /\ PidOf \in [Calls -> ProducerIds]
  /\ None \notin ProducerIds
  /\ CanStop \in BOOLEAN

VARIABLES mgr, pmap, pid, add

mvars == <<con, prod, call, rem, mgr, pmap, pid, add>>

managerVars == <<mgr, pmap, pid, add>>

ManagerPC == {"none", "loop", "sweep", "sweepWait", "exitSweep", "exitWait",
              "done"}

ManagerRecords ==
  [pc : ManagerPC, closing : BOOLEAN, ctxDone : BOOLEAN,
   snap : SUBSET ProducerIds, todo : SUBSET Producers,
   cur : Producers \cup {None}]

AddPC == {"idle", "gate", "started", "lookup", "sendProducer", "lastError",
          "producer", "ret"}

AddRecords == [pc : AddPC, res : Results \cup {None}]

ManagerInit ==
  /\ ProducerInit
  /\ mgr = [pc |-> "none", closing |-> FALSE, ctxDone |-> FALSE,
            snap |-> {}, todo |-> {}, cur |-> None]
  /\ pmap = [id \in ProducerIds |-> None]
  /\ pid = [p \in Producers |-> None]
  /\ add = [k \in Calls |-> [pc |-> "idle", res |-> None]]

Mapped == {pmap[id] : id \in ProducerIds} \ {None}

ConsumerCount(p) == Cardinality(prod[p].members)

Idle == {id \in ProducerIds : pmap[id] # None /\ ConsumerCount(pmap[id]) = 0}

(* Nothing refers to the object p: it may stand for a new producer. *)
Free(p) ==
  /\ p \notin Mapped /\ p \notin mgr.todo /\ p # mgr.cur
  /\ ~ProducerRunning(p)
  /\ \A k \in Calls : ~Running(<<p, k>>) /\ call[k].prod # p
  /\ \A r \in Removers : rem[r].con \notin {p} \X Calls

(***************************************************************************)
(* Start, SignalStop and the goroutine.                                    *)
(***************************************************************************)
(* The contexts of the started producers are children of the manager's. *)
CancelManager ==
  /\ prod' = [p \in Producers |->
                [prod[p] EXCEPT !.ctxDone = @ \/ Started(p)]]
  /\ con' = [c \in Consumers |-> ContextDone(con[c])]

Start ==
  /\ mgr.pc = "none"
  /\ mgr' = [mgr EXCEPT !.pc = "loop"]
  /\ UNCHANGED <<con, prod, call, rem, pmap, pid, add>>

(* Before Start there is no cancel function to call. *)
SignalStop ==
  /\ CanStop
  /\ ~mgr.closing
  /\ mgr' = [mgr EXCEPT !.closing = TRUE, !.ctxDone = @ \/ mgr.pc # "none"]
  /\ IF mgr.pc = "none" THEN UNCHANGED <<con, prod>> ELSE CancelManager
  /\ UNCHANGED <<call, rem, pmap, pid, add>>

(* The context given to Start ends: the goroutine stops as after SignalStop, *)
(* and alreadyClosing stays as it is.                                        *)
ContextEnds ==
  /\ CanStop
  /\ mgr.pc # "none" /\ ~mgr.ctxDone
  /\ mgr' = [mgr EXCEPT !.ctxDone = TRUE]
  /\ CancelManager
  /\ UNCHANGED <<call, rem, pmap, pid, add>>

(* The rendezvous on producersToStart, and p.Start(sctx). *)
ReceiveProducer(k) ==
  /\ mgr.pc = "loop"
  /\ add[k].pc = "sendProducer"
  /\ prod' = [prod EXCEPT ![call[k].prod] = Launch(@, mgr.ctxDone)]
  /\ add' = [add EXCEPT ![k].pc = "lastError"]
  /\ UNCHANGED <<con, call, rem, mgr, pmap, pid>>

(* Faulty variant: the sweep remembers producers instead of their IDs. *)
SweepIdleByObject ==
  /\ mgr.pc = "loop"
  /\ Idle # {}
  /\ mgr' = [mgr EXCEPT !.pc = "sweep", !.snap = {pmap[id] : id \in Idle},
                        !.todo = {pmap[id] : id \in Idle}]
  /\ UNCHANGED <<con, prod, call, rem, pmap, pid, add>>

SweepIdle ==
  /\ mgr.pc = "loop"
  /\ Idle # {}
  /\ mgr' = [mgr EXCEPT !.pc = "sweep", !.snap = Idle,
                        !.todo = {pmap[id] : id \in Idle}]
  /\ UNCHANGED <<con, prod, call, rem, pmap, pid, add>>

(* Faulty variant: the shutdown closes the idle producers only. *)
ManagerExitIdle ==
  /\ mgr.pc = "loop"
  /\ mgr.ctxDone
  /\ mgr' = [mgr EXCEPT !.pc = "exitSweep",
                        !.todo = {pmap[id] : id \in Idle}]
  /\ UNCHANGED <<con, prod, call, rem, pmap, pid, add>>

ManagerExit ==
  /\ mgr.pc = "loop"
  /\ mgr.ctxDone
  /\ mgr' = [mgr EXCEPT !.pc = "exitSweep", !.todo = Mapped]
  /\ UNCHANGED <<con, prod, call, rem, pmap, pid, add>>

CloseProducer ==
  /\ mgr.pc \in {"sweep", "exitSweep"}
  /\ \E p \in mgr.todo :
       \/ /\ prod[p].closing
          /\ mgr' = [mgr EXCEPT !.todo = @ \ {p}]
          /\ UNCHANGED <<con, prod>>
       \/ /\ ProducerCloseBegin(p)
          /\ mgr' = [mgr EXCEPT !.todo = @ \ {p}, !.cur = p,
                                !.pc = WaitingPC(@)]
  /\ UNCHANGED <<call, rem, pmap, pid, add>>

(* Faulty variant: Close does not wait for the goroutines. *)
ProducerUnawaited ==
  /\ mgr.pc \in {"sweepWait", "exitWait"}
  /\ mgr' = [mgr EXCEPT !.pc = SweepingPC(@), !.cur = None]
  /\ UNCHANGED <<con, prod, call, rem, pmap, pid, add>>

ProducerClosed ==
  /\ mgr.pc \in {"sweepWait", "exitWait"}
  /\ ~ProducerRunning(mgr.cur)
  /\ mgr' = [mgr EXCEPT !.pc = SweepingPC(@), !.cur = None]
  /\ UNCHANGED <<con, prod, call, rem, pmap, pid, add>>

(* Faulty variant: the closed producers stay in the map. *)
SweepIdleKeeps ==
  /\ mgr.pc = "sweep"
  /\ mgr.todo = {}
  /\ mgr' = [mgr EXCEPT !.pc = "loop", !.snap = {}]
  /\ UNCHANGED <<con, prod, call, rem, pmap, pid, add>>

(* delete(m.producers, producerID) for the IDs of the sweep *)
SweepIdleEnd ==
  /\ mgr.pc = "sweep"
  /\ mgr.todo = {}
  /\ mgr' = [mgr EXCEPT !.pc = "loop", !.snap = {}]
  /\ pmap' = [id \in ProducerIds |->
                IF id \in mgr.snap THEN None ELSE pmap[id]]
  /\ UNCHANGED <<con, prod, call, rem, pid, add>>

(* The map is emptied, and cancel and wg.Done run. *)
ManagerExitEnd ==
  /\ mgr.pc = "exitSweep"
  /\ mgr.todo = {}
  /\ mgr' = [mgr EXCEPT !.pc = "done", !.ctxDone = TRUE]
  /\ pmap' = [id \in ProducerIds |-> None]
  /\ CancelManager
  /\ UNCHANGED <<call, rem, pid, add>>

(***************************************************************************)
(* AddConsumer(ctx, PidOf[k], IdOf[k], ...).                               *)
(***************************************************************************)
AddReturn(k, res) == [add EXCEPT ![k] = [pc |-> "ret", res |-> res]]

AddCall(k) ==
  /\ add[k].pc = "idle"
  /\ add' = [add EXCEPT ![k].pc = "gate"]
  /\ UNCHANGED <<con, prod, call, rem, mgr, pmap, pid>>

AddGate(k) ==
  /\ add[k].pc = "gate"
  /\ add' = IF mgr.closing THEN AddReturn(k, "closing")
                           ELSE [add EXCEPT ![k].pc = "started"]
  /\ UNCHANGED <<con, prod, call, rem, mgr, pmap, pid>>

AddStarted(k) ==
  /\ add[k].pc = "started"
  /\ add' = IF mgr.pc = "none" THEN AddReturn(k, "notStarted")
                               ELSE [add EXCEPT ![k].pc = "lookup"]
  /\ UNCHANGED <<con, prod, call, rem, mgr, pmap, pid>>

AddFound(k) ==
  LET p == pmap[PidOf[k]] IN
  /\ add[k].pc = "lookup"
  /\ p # None
  /\ call' = [call EXCEPT ![k].prod = p]
  /\ add' = [add EXCEPT ![k].pc = "lastError"]
  /\ UNCHANGED <<con, prod, rem, mgr, pmap, pid>>

(* Faulty variant: the lookup and the insertion are not one critical section. *)
AddCreatesAnyway(k, p) ==
  /\ add[k].pc = "lookup"
  /\ Free(p)
  /\ prod' = [prod EXCEPT ![p] = NewProducer]
  /\ con' = [c \in Consumers |-> IF c[1] = p THEN NewConsumer ELSE con[c]]
  /\ pmap' = [pmap EXCEPT ![PidOf[k]] = p]
  /\ pid' = [pid EXCEPT ![p] = PidOf[k]]
  /\ call' = [call EXCEPT ![k].prod = p]
  /\ add' = [add EXCEPT ![k].pc = "sendProducer"]
  /\ UNCHANGED <<rem, mgr>>

AddCreates(k, p) ==
  /\ add[k].pc = "lookup"
  /\ pmap[PidOf[k]] = None
  /\ Free(p)
  /\ prod' = [prod EXCEPT ![p] = NewProducer]
  /\ con' = [c \in Consumers |-> IF c[1] = p THEN NewConsumer ELSE con[c]]
  /\ pmap' = [pmap EXCEPT ![PidOf[k]] = p]
  /\ pid' = [pid EXCEPT ![p] = PidOf[k]]
  /\ call' = [call EXCEPT ![k].prod = p]
  /\ add' = [add EXCEPT ![k].pc = "sendProducer"]
  /\ UNCHANGED <<rem, mgr>>

(* The new producer stays in the map, not started. *)
SendProducerCancelled(k) ==
  /\ add[k].pc = "sendProducer"
  /\ call[k].ctx
  /\ add' = AddReturn(k, "ctx")
  /\ call' = [call EXCEPT ![k].prod = None]
  /\ UNCHANGED <<con, prod, rem, mgr, pmap, pid>>

AddLastError(k) ==
  /\ add[k].pc = "lastError"
  /\ IF prod[call[k].prod].codecs = "err"
     THEN /\ add' = AddReturn(k, "codecsErr")
          /\ call' = [call EXCEPT ![k].prod = None]
     ELSE /\ add' = [add EXCEPT ![k].pc = "producer"]
          /\ call' = [call EXCEPT ![k].pc = "chkClosing"]
  /\ UNCHANGED <<con, prod, rem, mgr, pmap, pid>>

Retried == {"closing", "notStarted"}

(* The inner call returns: two of its errors are retried, for ever. *)
AddReturns(k) ==
  /\ add[k].pc = "producer"
  /\ call[k].pc = "ret"
  /\ call' = [call EXCEPT ![k].pc = "idle", ![k].prod = None, ![k].res = None]
  /\ add' = IF call[k].res \in Retried
            THEN [add EXCEPT ![k].pc = "lookup"]
            ELSE AddReturn(k, call[k].res)
  /\ UNCHANGED <<con, prod, rem, mgr, pmap, pid>>

(***************************************************************************)
(* The processes.                                                          *)
(***************************************************************************)
ManagerReceive == \E k \in Calls : ReceiveProducer(k)

ManagerStep ==
  \/ ManagerReceive \/ SweepIdle \/ ManagerExit \/ CloseProducer
  \/ ProducerClosed \/ SweepIdleEnd \/ ManagerExitEnd

AddStep(k) ==
  \/ AddGate(k) \/ AddStarted(k) \/ AddFound(k)
  \/ \E p \in Producers : AddCreates(k, p)
  \/ SendProducerCancelled(k) \/ AddLastError(k) \/ AddReturns(k)

(* RemoveConsumer, PauseProducer and ResumeProducer find p in the map. *)
MappedSteps ==
  \E p \in Mapped :
    \/ \E r \in Removers, k \in Calls : RemoveLookup(r, p, k)
    \/ Pause(p) \/ Resume(p)

GoroutineSteps ==
  \/ \E p \in Producers : MainStep(p) \/ ReaderStep(p)
  \/ \E k \in Calls : CallStep(k) \/ CancelCall(k)
  \/ \E r \in Removers : RemoverWork(r)
  \/ \E c \in Consumers : ConsumerNext(c)
  \/ MappedSteps

ManagerNext ==
  \/ GoroutineSteps /\ UNCHANGED managerVars
  \/ Start \/ SignalStop \/ ContextEnds \/ ManagerStep
  \/ \E k \in Calls : AddCall(k) \/ AddStep(k)

ManagerSpec == ManagerInit /\ [][ManagerNext]_mvars

ManagerTypeOK ==
  /\ ProducerTypeOK
  /\ mgr \in ManagerRecords
  /\ pmap \in [ProducerIds -> Producers \cup {None}]
  /\ pid \in [Producers -> ProducerIds \cup {None}]
  /\ add \in [Calls -> AddRecords]

(***************************************************************************)
(* As in Producer every goroutine that can move does.  Where retries bring *)
(* a goroutine back to the same select without end (a manager that sweeps  *)
(* and receives new producers, a cancelled call at GetCodecs), the select  *)
(* is assumed not to miss ctx.Done every time: Go picks among the ready    *)
(* cases at random (strong fairness).                                      *)
(***************************************************************************)
Quiet(A) == A /\ UNCHANGED managerVars

ManagerFairness ==
  /\ \A c \in Consumers : WF_mvars(Quiet(ConsumerNext(c)))
  /\ \A p \in Producers :
       /\ WF_mvars(Quiet(MainStep(p)))
       /\ WF_mvars(Quiet(\/ ReaderWork(p) \/ ReaderCancelled(p)
                         \/ WriteCancelled(p)
                         \/ prod[p].ctxDone /\ ReadReturns(p)))
  /\ \A k \in Calls :
       /\ WF_mvars(Quiet(CallStep(k)))
       /\ WF_mvars(AddStep(k))
       /\ SF_mvars(Quiet(AwaitCodecsCancelled(k)))
  /\ \A r \in Removers : WF_mvars(Quiet(RemoverWork(r)))
  /\ WF_mvars(ManagerStep)
  /\ SF_mvars(ManagerExit)

FairManagerSpec == ManagerSpec /\ ManagerFairness
=============================================================================
