---------------------------- MODULE ManagerProofs ----------------------------
(***************************************************************************)
(* RunningProducerIsMapped, OneDemuxerPerId and StoppedIsQuiet of          *)
(* ManagerProperties are invariants of the stream manager, and it          *)
(* implements Sources, for every number of producer IDs, producers, calls  *)
(* and removers.  The first part is about the map of the manager; the      *)
(* second shows that the maps of the producers stay as ProducerProofs      *)
(* has them when the caller is the manager, which creates producers anew   *)
(* and retries calls; the third is the refinement, one action at a time.   *)
(***************************************************************************)
EXTENDS ManagerProperties, ProducerProofs

(***************************************************************************)
(* Types.                                                                  *)
(***************************************************************************)
LEMMA GoroutinesAreProducers ==
  ASSUME pmap \in [ProducerIds -> Producers \cup {None}], GoroutineSteps
  PROVE  ProducerSteps
<1>1. Mapped \subseteq Producers
  BY DEF Mapped
<1> QED
  BY <1>1 DEF GoroutineSteps, MappedSteps, ProducerSteps, RemoverStart

LEMMA StartedType ==
  ASSUME ProducerTypeOK, NEW p \in Producers
  PROVE  /\ [prod[p] EXCEPT !.ctxDone = @ \/ Started(p)] \in ProducerRecords
         /\ [prod[p] EXCEPT !.closing = TRUE, !.ctxDone = @ \/ Started(p)]
              \in ProducerRecords
         /\ \A b \in BOOLEAN : Launch(prod[p], b) \in ProducerRecords
<1>0. prod[p] \in ProducerRecords
  BY DEF ProducerTypeOK
<1> DEFINE b == prod[p].ctxDone \/ Started(p)
<1>1. b \in BOOLEAN
  BY DEF Started
<1>2. /\ [prod[p] EXCEPT !.ctxDone = b] \in ProducerRecords
      /\ [prod[p] EXCEPT !.closing = TRUE, !.ctxDone = b] \in ProducerRecords
  <2> HIDE DEF b
  <2> QED
    BY <1>0, <1>1 DEF ProducerRecords
<1>3. \A done \in BOOLEAN : Launch(prod[p], done) \in ProducerRecords
  BY <1>0 DEF Launch, ProducerRecords, ProducerPC
<1> QED
  BY <1>2, <1>3

LEMMA CancelledTypes ==
  ASSUME ProducerTypeOK, CancelManager
  PROVE  ConsumerTypeOK' /\ prod' \in [Producers -> ProducerRecords]
<1>1. \A c \in Consumers : ContextDone(con[c]) \in ConsumerRecords
  BY RecordOperations DEF ProducerTypeOK, ConsumerTypeOK
<1> QED
  BY <1>1, StartedType DEF CancelManager, ConsumerTypeOK

LEMMA CloseTypes ==
  ASSUME ProducerTypeOK, NEW p \in Producers, ProducerCloseBegin(p)
  PROVE  ConsumerTypeOK' /\ prod' \in [Producers -> ProducerRecords]
<1>1. \A c \in Consumers : ContextDone(con[c]) \in ConsumerRecords
  BY RecordOperations DEF ProducerTypeOK, ConsumerTypeOK
<1>2. ConsumerTypeOK'
  BY <1>1 DEF ProducerCloseBegin, CancelChildren, ProducerTypeOK,
              ConsumerTypeOK
<1>3. prod' = [prod EXCEPT ![p] = [prod[p] EXCEPT !.closing = TRUE,
                                     !.ctxDone = @ \/ Started(p)]]
  BY DEF ProducerCloseBegin, ProducerTypeOK
<1> QED
  BY <1>2, <1>3, StartedType DEF ProducerTypeOK

(* What the manager's own goroutine does, one action at a time.              *)
LEMMA ManagerStepType ==
  ASSUME ManagerTypeOK, Start \/ SignalStop \/ ContextEnds \/ ManagerStep
  PROVE  ManagerTypeOK'
<1> USE DEF ManagerTypeOK, ProducerTypeOK
<1>0. /\ mgr.pc \in ManagerPC /\ mgr.closing \in BOOLEAN
      /\ mgr.ctxDone \in BOOLEAN /\ mgr.snap \subseteq ProducerIds
      /\ mgr.todo \subseteq Producers /\ mgr.cur \in Producers \cup {None}
  BY DEF ManagerRecords
<1>1. CASE Start
  BY <1>1 DEF Start, ManagerRecords, ManagerPC, ConsumerTypeOK
<1>2. CASE SignalStop
  <2>1. mgr' \in ManagerRecords
    <3> DEFINE b == mgr.ctxDone \/ mgr.pc # "none"
    <3>1. b \in BOOLEAN /\ mgr' = [mgr EXCEPT !.closing = TRUE, !.ctxDone = b]
      BY <1>2 DEF SignalStop
    <3> HIDE DEF b
    <3> QED
      BY <3>1 DEF ManagerRecords
  <2>2. ConsumerTypeOK' /\ prod' \in [Producers -> ProducerRecords]
    BY <1>2, CancelledTypes DEF SignalStop, ConsumerTypeOK
  <2> QED
    BY <1>2, <2>1, <2>2 DEF SignalStop
<1>3. ASSUME NEW k \in Calls, ReceiveProducer(k)
      PROVE  ManagerTypeOK'
  <2>1. \A p \in Producers : Launch(prod[p], mgr.ctxDone) \in ProducerRecords
    BY <1>0, StartedType
  <2>2. prod' \in [Producers -> ProducerRecords]
    BY <1>3, <2>1 DEF ReceiveProducer
  <2>3. add' \in [Calls -> AddRecords]
    BY <1>3 DEF ReceiveProducer, AddRecords, AddPC
  <2> QED
    BY <1>3, <2>2, <2>3 DEF ReceiveProducer, ConsumerTypeOK
<1>4. CASE SweepIdle
  <2>1. Idle \in SUBSET ProducerIds
        /\ {pmap[id] : id \in Idle} \in SUBSET Producers
    BY DEF Idle
  <2> QED
    BY <1>4, <2>1 DEF SweepIdle, ManagerRecords, ManagerPC, ConsumerTypeOK
<1>5. CASE ManagerExit
  <2>1. Mapped \in SUBSET Producers
    BY DEF Mapped
  <2> QED
    BY <1>5, <2>1 DEF ManagerExit, ManagerRecords, ManagerPC, ConsumerTypeOK
<1>6. CASE CloseProducer
  <2>1. PICK p \in mgr.todo :
          \/ mgr' = [mgr EXCEPT !.todo = @ \ {p}] /\ UNCHANGED <<con, prod>>
          \/ /\ ProducerCloseBegin(p)
             /\ mgr' = [mgr EXCEPT !.todo = @ \ {p}, !.cur = p,
                                   !.pc = WaitingPC(@)]
    BY <1>6 DEF CloseProducer
  <2>2. WaitingPC(mgr.pc) \in ManagerPC
    BY DEF WaitingPC, ManagerPC
  <2>3. mgr' \in ManagerRecords
    BY <1>0, <2>1, <2>2 DEF ManagerRecords
  <2>4. ConsumerTypeOK' /\ prod' \in [Producers -> ProducerRecords]
    BY <1>0, <2>1, CloseTypes DEF ConsumerTypeOK
  <2> QED
    BY <1>6, <2>3, <2>4 DEF CloseProducer
<1>7. CASE ProducerClosed
  <2>1. SweepingPC(mgr.pc) \in ManagerPC
    BY DEF SweepingPC, ManagerPC
  <2> QED
    BY <1>7, <2>1 DEF ProducerClosed, ManagerRecords, ConsumerTypeOK
<1>8. CASE SweepIdleEnd
  BY <1>8 DEF SweepIdleEnd, ManagerRecords, ManagerPC, ConsumerTypeOK
<1>9. CASE ManagerExitEnd
  <2>1. mgr' \in ManagerRecords
    BY <1>9 DEF ManagerExitEnd, ManagerRecords, ManagerPC
  <2> QED
    BY <1>9, <2>1, CancelledTypes DEF ManagerExitEnd
<1>10. CASE ContextEnds
  <2>1. mgr' \in ManagerRecords
    BY <1>10 DEF ContextEnds, ManagerRecords
  <2> QED
    BY <1>10, <2>1, CancelledTypes DEF ContextEnds
<1> QED
  BY <1>1, <1>2, <1>3, <1>4, <1>5, <1>6, <1>7, <1>8, <1>9, <1>10
     DEF ManagerStep, ManagerReceive

LEMMA AddType ==
  ASSUME ManagerTypeOK, NEW k \in Calls, AddCall(k) \/ AddStep(k)
  PROVE  ManagerTypeOK'
<1> USE DEF ManagerTypeOK, ProducerTypeOK
<1>1. ASSUME NEW res \in Results \cup {None}
      PROVE  AddReturn(k, res) \in [Calls -> AddRecords]
  BY DEF AddReturn, AddRecords, AddPC
<1>2. ASSUME NEW pc \in AddPC
      PROVE  [add EXCEPT ![k].pc = pc] \in [Calls -> AddRecords]
  BY DEF AddRecords
<1>3. ASSUME NEW p \in Producers \cup {None}
      PROVE  /\ [call EXCEPT ![k].prod = p] \in [Calls -> CallRecords]
             /\ [call EXCEPT ![k].pc = "idle", ![k].prod = None,
                             ![k].res = None] \in [Calls -> CallRecords]
  <2>1. [call[k] EXCEPT !.prod = p] \in CallRecords
    BY DEF CallRecords
  <2>2. [call[k] EXCEPT !.pc = "idle", !.prod = None, !.res = None]
          \in CallRecords
    BY DEF CallRecords, CallPC
  <2> QED
    BY <2>1, <2>2
<1>4. /\ {"gate", "started", "lookup", "sendProducer", "lastError", "producer"}
           \subseteq AddPC
      /\ {"closing", "notStarted", "ctx", "codecsErr"} \subseteq Results
  BY DEF AddPC, Results
<1>5. CASE AddCall(k) \/ AddGate(k) \/ AddStarted(k)
  <2>1. add' \in [Calls -> AddRecords]
    BY <1>1, <1>2, <1>4, <1>5 DEF AddCall, AddGate, AddStarted
  <2> QED
    BY <1>5, <2>1 DEF AddCall, AddGate, AddStarted, ConsumerTypeOK
<1>6. CASE AddFound(k)
  <2>1. pmap[PidOf[k]] \in Producers
    BY <1>6, ManagerAssumption DEF AddFound
  <2>2. add' \in [Calls -> AddRecords] /\ call' \in [Calls -> CallRecords]
    BY <1>2, <1>3, <1>4, <1>6, <2>1 DEF AddFound
  <2> QED
    BY <1>6, <2>2 DEF AddFound, ConsumerTypeOK
<1>7. ASSUME NEW p \in Producers, AddCreates(k, p)
      PROVE  ManagerTypeOK'
  <2>1. add' \in [Calls -> AddRecords] /\ call' \in [Calls -> CallRecords]
    BY <1>2, <1>3, <1>4, <1>7 DEF AddCreates
  <2>2. NewProducer \in ProducerRecords
    BY ConsumerAssumption
       DEF NewProducer, ProducerRecords, ProducerPC, ReaderPC
  <2>3. ConsumerTypeOK' /\ prod' \in [Producers -> ProducerRecords]
    BY <1>7, <2>2, NewConsumerType DEF AddCreates, ConsumerTypeOK
  <2>4. /\ pmap' \in [ProducerIds -> Producers \cup {None}]
        /\ pid' \in [Producers -> ProducerIds \cup {None}]
    BY <1>7, ManagerAssumption DEF AddCreates
  <2> QED
    BY <1>7, <2>1, <2>3, <2>4 DEF AddCreates
<1>8. CASE SendProducerCancelled(k)
  <2>1. add' \in [Calls -> AddRecords] /\ call' \in [Calls -> CallRecords]
    BY <1>1, <1>3, <1>4, <1>8 DEF SendProducerCancelled
  <2> QED
    BY <1>8, <2>1 DEF SendProducerCancelled, ConsumerTypeOK
<1>9. CASE AddLastError(k)
  <2>1. [call EXCEPT ![k].pc = "chkClosing"] \in [Calls -> CallRecords]
    BY DEF CallRecords, CallPC
  <2>2. CASE prod[call[k].prod].codecs = "err"
    <3>1. add' = AddReturn(k, "codecsErr")
          /\ call' = [call EXCEPT ![k].prod = None]
      BY <1>9, <2>2 DEF AddLastError
    <3>2. add' \in [Calls -> AddRecords] /\ call' \in [Calls -> CallRecords]
      BY <1>1, <1>3, <1>4, <3>1
    <3> QED
      BY <1>9, <3>2 DEF AddLastError, ConsumerTypeOK
  <2>3. CASE prod[call[k].prod].codecs # "err"
    BY <1>2, <1>4, <1>9, <2>1, <2>3 DEF AddLastError, ConsumerTypeOK
  <2> QED
    BY <2>2, <2>3
<1>10. CASE AddReturns(k)
  <2>1. call[k].res \in Results \cup {None}
    BY DEF CallRecords
  <2>2. add' \in [Calls -> AddRecords] /\ call' \in [Calls -> CallRecords]
    BY <1>1, <1>2, <1>3, <1>4, <1>10, <2>1 DEF AddReturns
  <2> QED
    BY <1>10, <2>2 DEF AddReturns, ConsumerTypeOK
<1> QED
  BY <1>5, <1>6, <1>7, <1>8, <1>9, <1>10 DEF AddStep

LEMMA ManagerTypeInit == ManagerInit => ManagerTypeOK
BY TypeInit DEF ManagerInit, ManagerTypeOK, ManagerRecords, ManagerPC,
                AddRecords, AddPC

LEMMA ManagerTypeStep ==
  ASSUME ManagerTypeOK, [ManagerNext]_mvars
  PROVE  ManagerTypeOK'
<1>1. CASE GoroutineSteps /\ UNCHANGED managerVars
  <2>1. ProducerTypeOK'
    BY <1>1, GoroutinesAreProducers, TypeStep DEF ManagerTypeOK, ProducerNext
  <2> QED
    BY <1>1, <2>1 DEF managerVars, ManagerTypeOK
<1>2. CASE UNCHANGED mvars
  BY <1>2 DEF mvars, ManagerTypeOK, ProducerTypeOK, ConsumerTypeOK
<1> QED
  BY <1>1, <1>2, ManagerStepType, AddType DEF ManagerNext

(* Every variable of the manager always has its type.                        *)
THEOREM ManagerTypeCorrect == ManagerSpec => []ManagerTypeOK
BY ManagerTypeInit, ManagerTypeStep, PTL DEF ManagerSpec

(***************************************************************************)
(* The inductive invariant.                                                *)
(***************************************************************************)
(* The inner call is begun by the outer one and ends before it goes on.      *)
CallsAreNested ==
  \A k \in Calls :
    /\ add[k].pc # "producer" => call[k].pc = "idle"
    /\ add[k].pc \in {"sendProducer", "lastError", "producer"} =>
         call[k].prod \in Producers

(* A producer is in the map under its own ID only, and in time to be closed. *)
MapAgrees ==
  /\ \A id \in ProducerIds : pmap[id] # None => pid[pmap[id]] = id
  /\ \A p \in Mapped : ~prod[p].late

(* The read loop comes after the demuxer, which is closed before the end.    *)
ProducersAgree ==
  \A p \in Producers :
    /\ prod[p].pc \in {"none", "factory", "codecs"} => prod[p].rd = "none"
    /\ prod[p].demuxer = "open" =>
         prod[p].pc \notin {"none", "factory", "finish", "done"}

ManagerSweeping == {"sweep", "sweepWait"}

ManagerExiting == {"exitSweep", "exitWait"}

ManagerWaiting == {"sweepWait", "exitWait"}

(* The Close of p has returned, or is the one the manager waits for.         *)
Dealt(p) == prod[p].closing /\ (p = mgr.cur \/ ~ProducerRunning(p))

(* What is in the map is not closing but for what a sweep has dealt with;    *)
(* what comes into the map during the shutdown is not started.               *)
SweepAgrees ==
  /\ mgr.todo \subseteq Mapped
  /\ \A p \in mgr.todo : ~prod[p].closing
  /\ (mgr.pc \in ManagerWaiting) <=> (mgr.cur # None)
  /\ mgr.pc \notin ManagerSweeping \cup ManagerExiting =>
       mgr.todo = {} /\ \A p \in Mapped : ~prod[p].closing
  /\ mgr.pc \in ManagerSweeping =>
       /\ \A p \in mgr.todo : \E id \in mgr.snap : pmap[id] = p
       /\ \A id \in mgr.snap :
            /\ pmap[id] # None
            /\ pmap[id] \in mgr.todo \/ Dealt(pmap[id])
       /\ \A id \in ProducerIds :
            pmap[id] # None /\ prod[pmap[id]].closing => id \in mgr.snap
  /\ mgr.pc \in ManagerExiting =>
       \A p \in Mapped : p \in mgr.todo \/ Dealt(p) \/ ~Started(p)

(* Each new producer is offered to the manager once, by who created it: if   *)
(* it is no longer in the map it has been closed, or the manager has ended.  *)
Offered(k) == add[k].pc = "sendProducer"

Offers ==
  \A k \in Calls, p \in Producers :
    Offered(k) /\ call[k].prod = p =>
      /\ ~Started(p)
      /\ p \in Mapped \/ prod[p].closing \/ mgr.pc = "done"
      /\ \A j \in Calls \ {k} : Offered(j) => call[j].prod # p

DoneIsOver ==
  mgr.pc = "done" => \A p \in Producers : ProducerRunning(p) => prod[p].late

ManagerInv ==
  /\ CallsAreNested
  /\ MapAgrees
  /\ ProducersAgree
  /\ SweepAgrees
  /\ Offers
  /\ DoneIsOver
  /\ RunningProducerIsMapped

(***************************************************************************)
(* What the manager relies on in the steps of the goroutines.              *)
(***************************************************************************)
Persists(p) ==
  /\ prod[p].closing => prod'[p].closing
  /\ prod'[p].late = prod[p].late
  /\ Started(p)' <=> Started(p)
  /\ ProducerRunning(p)' => ProducerRunning(p)

GoesOn(p) == Persists(p) /\ prod'[p].closing = prod[p].closing

AllGoOn == ProducersAgree' /\ \A p \in Producers : GoesOn(p)

LEMMA SameProducersGoOn == ProducersAgree /\ UNCHANGED prod => AllGoOn
BY DEF AllGoOn, GoesOn, Persists, ProducersAgree, Started, ProducerRunning

LEMMA MainGoesOn ==
  ASSUME ProducerTypeOK, ProducersAgree, NEW p \in Producers, MainStep(p)
  PROVE  AllGoOn
<1> USE DEF ProducerTypeOK, ProducerRecords, AllGoOn, GoesOn, Persists,
            ProducersAgree, Started, ProducerRunning
<1>1. CASE OpenDemuxer(p)
  BY <1>1 DEF OpenDemuxer
<1>2. CASE GetStreams(p)
  <2>1. CASE prod' = [prod EXCEPT ![p].pc = "loop", ![p].codecs = "ok",
                                  ![p].rd = "wait"]
    BY <1>2, <2>1 DEF GetStreams
  <2>2. CASE prod' = [prod EXCEPT ![p].pc = "loop", ![p].codecs = "empty",
                                  ![p].rd = "wait"]
    BY <1>2, <2>2 DEF GetStreams
  <2>3. CASE prod' = [prod EXCEPT ![p].pc = "exit", ![p].codecs = "err"]
    BY <1>2, <2>3 DEF GetStreams
  <2> QED BY <1>2, <2>1, <2>2, <2>3 DEF GetStreams
<1>3. CASE SpawnConsumer(p)
  BY <1>3 DEF SpawnConsumer
<1>4. CASE ExitBegin(p)
  BY <1>4 DEF ExitBegin
<1>5. CASE CloseOne(p)
  BY <1>5 DEF CloseOne, WaitingPC
<1>6. CASE ClosedOne(p)
  BY <1>6 DEF ClosedOne, SweepingPC
<1>7. CASE SweepEnd(p)
  BY <1>7 DEF SweepEnd
<1>8. CASE ExitEnd(p)
  BY <1>8 DEF ExitEnd
<1>9. CASE RunDemuxerRemover(p)
  BY <1>9 DEF RunDemuxerRemover
<1>10. CASE CloseDemuxer(p)
  BY <1>10 DEF CloseDemuxer
<1>11. CASE Finish(p)
  BY <1>11 DEF Finish
<1>12. CASE SweepBegin(p)
  BY <1>12 DEF SweepBegin
<1>13. CASE LoopExit(p)
  BY <1>13 DEF LoopExit
<1>14. CASE MainReceive(p)
  BY <1>14 DEF MainReceive, ReceiveConsumer
<1> QED
  BY <1>1, <1>2, <1>3, <1>4, <1>5, <1>6, <1>7, <1>8, <1>9, <1>10, <1>11,
     <1>12, <1>13, <1>14 DEF MainStep, MainWork

LEMMA ReaderGoesOn ==
  ASSUME ProducerTypeOK, ProducersAgree, NEW p \in Producers, ReaderStep(p)
  PROVE  AllGoOn
<1> USE DEF ProducerTypeOK, ProducerRecords, AllGoOn, GoesOn, Persists,
            ProducersAgree, Started, ProducerRunning
<1>1. CASE ReaderTick(p)
  BY <1>1 DEF ReaderTick
<1>2. CASE DeliverPacket(p)
  BY <1>2 DEF DeliverPacket
<1>3. CASE WriteDone(p)
  BY <1>3 DEF WriteDone
<1>4. CASE ReadPacket(p)
  BY <1>4 DEF ReadPacket
<1>5. CASE ReadError(p)
  BY <1>5 DEF ReadError
<1>6. CASE ReaderCancelled(p)
  BY <1>6 DEF ReaderCancelled
<1>7. CASE WriteCancelled(p)
  BY <1>7 DEF WriteCancelled
<1>8. CASE ReaderPick(p)
  BY <1>8 DEF ReaderPick, PickTarget
<1> QED
  BY <1>1, <1>2, <1>3, <1>4, <1>5, <1>6, <1>7, <1>8
     DEF ReaderStep, ReaderWork, ReadReturns

LEMMA GoroutinesGoOn ==
  ASSUME ProducerTypeOK, ProducersAgree, ProducerSteps
  PROVE  AllGoOn
<1>1. ASSUME NEW p \in Producers, Pause(p) \/ Resume(p)
      PROVE  AllGoOn
  BY <1>1 DEF Pause, Resume, ProducerTypeOK, ProducerRecords, AllGoOn, GoesOn,
              Persists, ProducersAgree, Started, ProducerRunning
<1>2. ASSUME NEW k \in Calls, InsertConsumer(k)
      PROVE  AllGoOn
  <2>1. CASE prod' = [prod EXCEPT ![call[k].prod].members = @ \cup {k}]
    BY <2>1 DEF ProducerTypeOK, ProducerRecords, AllGoOn, GoesOn,
                Persists, ProducersAgree, Started, ProducerRunning
  <2> QED
    BY <1>2, <2>1, SameProducersGoOn DEF InsertConsumer
<1> QED
  BY <1>1, <1>2, MainGoesOn, ReaderGoesOn, CallFrame, SameProducersGoOn
     DEF ProducerSteps, CancelCall, RemoverWork, RemoverStart, RemoveLookup,
         RemoveClose, RemoveReturn, ConsumerNext

CallsStay ==
  /\ CallsAreNested'
  /\ \A k \in Calls : Offered(k)' => Offered(k) /\ call'[k].prod = call[k].prod

(* A step that keeps the map, in which every producer persists, and every    *)
(* offer; what is left to show is where the sweeps are.                      *)
LEMMA MapStays ==
  ASSUME ManagerTypeOK, ManagerInv, \A p \in Producers : Persists(p),
         ProducersAgree', UNCHANGED <<pmap, pid>>, CallsStay,
         (mgr'.pc = "done") <=> (mgr.pc = "done")
  PROVE  /\ CallsAreNested' /\ MapAgrees' /\ ProducersAgree' /\ Offers'
         /\ DoneIsOver' /\ RunningProducerIsMapped'
<1> USE DEF ManagerInv
<1>1. Mapped' = Mapped /\ Mapped \subseteq Producers
  BY DEF Mapped, ManagerTypeOK
<1>2. MapAgrees'
  BY <1>1 DEF MapAgrees, Persists
<1>3. Offers'
  <2> SUFFICES ASSUME NEW k \in Calls, NEW p \in Producers,
                      Offered(k)', call'[k].prod = p
               PROVE  /\ ~Started(p)'
                      /\ p \in Mapped \/ prod'[p].closing \/ mgr'.pc = "done"
                      /\ \A j \in Calls \ {k} :
                           Offered(j)' => call'[j].prod # p
    BY <1>1 DEF Offers
  <2>1. Offered(k) /\ call[k].prod = p
    BY DEF CallsStay
  <2> QED
    BY <2>1 DEF Offers, Persists, CallsStay
<1>4. DoneIsOver' /\ RunningProducerIsMapped'
  BY <1>1 DEF DoneIsOver, RunningProducerIsMapped, Persists
<1> QED
  BY <1>2, <1>3, <1>4 DEF CallsStay

(* A step that changes neither the manager nor its map, in which every       *)
(* producer goes on.                                                         *)
LEMMA QuietManager ==
  ASSUME ManagerTypeOK, ManagerInv, AllGoOn, UNCHANGED <<mgr, pmap, pid>>,
         CallsStay
  PROVE  ManagerInv'
<1>1. Mapped' = Mapped /\ Mapped \subseteq Producers
  BY DEF Mapped, ManagerTypeOK
<1>2. \A p \in Producers : GoesOn(p)
  BY DEF AllGoOn
<1>3. \A p \in Producers : Dealt(p) => Dealt(p)'
  BY <1>2 DEF Dealt, GoesOn, Persists
<1>4. \A id \in ProducerIds : pmap[id] # None => pmap[id] \in Producers
  BY DEF ManagerTypeOK
<1>5. mgr.snap \subseteq ProducerIds
  BY DEF ManagerTypeOK, ManagerRecords
<1>6. SweepAgrees'
  BY <1>1, <1>2, <1>3, <1>4, <1>5
     DEF ManagerInv, SweepAgrees, GoesOn, Persists
<1> QED
  BY <1>2, <1>6, MapStays DEF AllGoOn, GoesOn, ManagerInv

LEMMA GoroutinesKeep ==
  ASSUME ManagerTypeOK, ManagerInv, GoroutineSteps, UNCHANGED managerVars
  PROVE  ManagerInv'
<1>1. ProducerSteps
  BY GoroutinesAreProducers DEF ManagerTypeOK
<1>2. AllGoOn
  BY <1>1, GoroutinesGoOn DEF ManagerTypeOK, ManagerInv
<1>3. \A k \in Calls : CallProceeds(k)
  BY <1>1, CallsProceed DEF ManagerTypeOK
<1>4. CallsAreNested'
  BY <1>3 DEF ManagerInv, CallsAreNested, CallProceeds, managerVars
<1>5. \A k \in Calls : Offered(k)' => /\ Offered(k)
                                      /\ call'[k].prod = call[k].prod
  BY <1>3 DEF Offered, CallProceeds, managerVars
<1> QED
  BY <1>2, <1>4, <1>5, QuietManager DEF managerVars, CallsStay

(* The steps of an AddConsumer that create no producer.                      *)
LEMMA AddsKeep ==
  ASSUME ManagerTypeOK, ManagerInv, NEW k \in Calls,
         \/ AddCall(k) \/ AddGate(k) \/ AddStarted(k) \/ AddFound(k)
         \/ SendProducerCancelled(k) \/ AddLastError(k) \/ AddReturns(k)
  PROVE  ManagerInv'
<1> USE DEF ManagerTypeOK, ProducerTypeOK
<1>1. AllGoOn /\ UNCHANGED <<mgr, pmap, pid>>
  BY SameProducersGoOn
     DEF AddCall, AddGate, AddStarted, AddFound, SendProducerCancelled,
         AddLastError, AddReturns, ManagerInv
<1>2. /\ \A j \in Calls \ {k} : add'[j] = add[j] /\ call'[j] = call[j]
      /\ ~Offered(k)'
  BY DEF AddCall, AddGate, AddStarted, AddFound, SendProducerCancelled,
         AddLastError, AddReturns, AddReturn, AddRecords, Offered
<1>3. /\ add'[k].pc # "producer" => call'[k].pc = "idle"
      /\ add'[k].pc \in {"lastError", "producer"} =>
           call'[k].prod \in Producers
  <2> USE DEF ManagerInv, CallsAreNested
  <2>1. CASE AddCall(k) \/ AddGate(k) \/ AddStarted(k)
    BY <2>1 DEF AddCall, AddGate, AddStarted, AddReturn, AddRecords
  <2>2. CASE AddFound(k)
    <3>1. pmap[PidOf[k]] \in Producers
      BY <2>2, ManagerAssumption DEF AddFound
    <3>2. /\ call'[k] = [call[k] EXCEPT !.prod = pmap[PidOf[k]]]
          /\ call[k].pc = "idle" /\ call[k] \in CallRecords
      BY <2>2 DEF AddFound
    <3>3. call'[k].pc = "idle" /\ call'[k].prod = pmap[PidOf[k]]
      BY <3>2 DEF CallRecords
    <3> QED
      BY <3>1, <3>3
  <2>3. CASE SendProducerCancelled(k)
    BY <2>3 DEF SendProducerCancelled, AddReturn, AddRecords, CallRecords
  <2>4. CASE AddLastError(k)
    BY <2>4 DEF AddLastError, AddReturn, AddRecords, CallRecords
  <2>5. CASE AddReturns(k)
    BY <2>5 DEF AddReturns, AddReturn, AddRecords, CallRecords
  <2> QED
    BY <2>1, <2>2, <2>3, <2>4, <2>5
<1>4. CallsAreNested'
  BY <1>2, <1>3 DEF ManagerInv, CallsAreNested, Offered
<1>5. CallsStay
  BY <1>2, <1>4 DEF CallsStay, Offered
<1> QED
  BY <1>1, <1>5, QuietManager

(* AddConsumer puts a new producer into the map, and offers it.              *)
LEMMA CreatesKeeps ==
  ASSUME ManagerTypeOK, ManagerInv, NEW k \in Calls, NEW p \in Producers,
         AddCreates(k, p)
  PROVE  ManagerInv'
<1> USE DEF ManagerTypeOK, ProducerTypeOK, ManagerInv
<1> DEFINE id0 == PidOf[k]
<1>1. id0 \in ProducerIds /\ pmap[id0] = None
  BY ManagerAssumption DEF AddCreates
<1>2. /\ pmap'[id0] = p /\ pid'[p] = id0
      /\ \A id \in ProducerIds \ {id0} : pmap'[id] = pmap[id]
      /\ \A q \in Producers \ {p} : pid'[q] = pid[q] /\ prod'[q] = prod[q]
      /\ mgr' = mgr
  BY <1>1 DEF AddCreates
<1>3. /\ prod'[p].pc = "none" /\ prod'[p].rd = "none" /\ ~prod'[p].closing
      /\ ~prod'[p].late /\ prod'[p].demuxer = "none"
  BY DEF AddCreates, NewProducer
<1>4. /\ \A j \in Calls \ {k} : add'[j] = add[j] /\ call'[j] = call[j]
      /\ Offered(k)' /\ call'[k].prod = p /\ call'[k].pc = "idle"
      /\ add'[k].pc = "sendProducer"
  BY DEF AddCreates, CallsAreNested, AddRecords, CallRecords, Offered
<1>5. /\ p \notin Mapped /\ p \notin mgr.todo /\ p # mgr.cur
      /\ \A j \in Calls : call[j].prod # p
  BY DEF AddCreates, Free
<1> HIDE DEF id0
<1>6. /\ Mapped' = Mapped \cup {p} /\ Mapped \subseteq Producers
      /\ p # None
  BY <1>1, <1>2, ProducerAssumption DEF Mapped
<1>7. \A id \in ProducerIds : pmap[id] # None => pmap[id] \in Mapped
  BY DEF Mapped
<1>8. \A q \in Producers \ {p} :
        /\ Started(q)' <=> Started(q)
        /\ ProducerRunning(q)' <=> ProducerRunning(q)
        /\ Dealt(q)' <=> Dealt(q)
  BY <1>2 DEF Started, ProducerRunning, Dealt
<1>9. ~Started(p)' /\ ~ProducerRunning(p)'
  BY <1>3 DEF Started, ProducerRunning
<1>10. CallsAreNested'
  BY <1>4 DEF CallsAreNested
<1>11. MapAgrees'
  BY <1>1, <1>2, <1>3, <1>5, <1>6, <1>7 DEF MapAgrees
<1>12. ProducersAgree'
  BY <1>2, <1>3 DEF ProducersAgree
<1>13. SweepAgrees'
  <2>1. mgr.snap \subseteq ProducerIds
    BY DEF ManagerRecords
  <2> QED
    BY <1>1, <1>2, <1>3, <1>5, <1>6, <1>7, <1>8, <1>9, <2>1 DEF SweepAgrees
<1>14. Offers'
  <2> SUFFICES ASSUME NEW j \in Calls, NEW q \in Producers,
                      Offered(j)', call'[j].prod = q
               PROVE  /\ ~Started(q)'
                      /\ q \in Mapped' \/ prod'[q].closing \/ mgr'.pc = "done"
                      /\ \A i \in Calls \ {j} :
                           Offered(i)' => call'[i].prod # q
    BY DEF Offers
  <2>1. CASE j = k
    BY <1>4, <1>5, <1>6, <1>9, <2>1
  <2>2. CASE j # k
    <3>1. Offered(j) /\ call[j].prod = q /\ q # p
      BY <1>4, <1>5, <2>2 DEF Offered
    <3>2. \A i \in Calls \ {j} : Offered(i)' => call'[i].prod # q
      BY <1>4, <3>1 DEF Offered, Offers
    <3> QED
      BY <1>2, <1>6, <1>8, <3>1, <3>2 DEF Offers
  <2> QED
    BY <2>1, <2>2
<1>15. DoneIsOver' /\ RunningProducerIsMapped'
  BY <1>2, <1>6, <1>8, <1>9 DEF DoneIsOver, RunningProducerIsMapped
<1> QED
  BY <1>10, <1>11, <1>12, <1>13, <1>14, <1>15

(* The steps of the manager that leave the producers and the map alone.      *)
LEMMA LooksKeep ==
  ASSUME ManagerTypeOK, ManagerInv,
         Start \/ SweepIdle \/ ManagerExit \/ ProducerClosed
  PROVE  ManagerInv'
<1> USE DEF ManagerTypeOK, ProducerTypeOK, ManagerInv
<1>1. /\ UNCHANGED <<con, prod, call, rem, pmap, pid, add>>
      /\ mgr.pc # "done" /\ mgr'.pc # "done"
  BY DEF Start, SweepIdle, ManagerExit, ProducerClosed, ManagerRecords,
         SweepingPC
<1>2. AllGoOn
  BY <1>1, SameProducersGoOn
<1>3. CallsStay
  BY <1>1 DEF CallsStay, CallsAreNested, Offered
<1>4. Mapped' = Mapped /\ Mapped \subseteq Producers
      /\ \A id \in ProducerIds : pmap[id] # None => pmap[id] \in Mapped
  BY <1>1 DEF Mapped
<1>5. SweepAgrees'
  <2> USE DEF SweepAgrees, ManagerSweeping, ManagerExiting, ManagerWaiting,
              ManagerRecords
  <2>1. CASE Start
    BY <1>1, <1>4, <2>1 DEF Start
  <2>2. CASE SweepIdle
    <3>1. /\ mgr'.pc = "sweep" /\ mgr'.snap = Idle /\ mgr'.cur = mgr.cur
          /\ mgr'.todo = {pmap[id] : id \in Idle}
      BY <2>2 DEF SweepIdle
    <3>2. \A id \in Idle : id \in ProducerIds /\ pmap[id] # None
      BY DEF Idle
    <3> QED
      BY <1>1, <1>4, <2>2, <3>1, <3>2 DEF SweepIdle
  <2>3. CASE ManagerExit
    <3>1. /\ mgr'.pc = "exitSweep" /\ mgr'.cur = mgr.cur
          /\ mgr'.todo = Mapped
      BY <2>3 DEF ManagerExit
    <3> QED
      BY <1>1, <1>4, <2>3, <3>1 DEF ManagerExit
  <2>4. CASE ProducerClosed
    <3>1. /\ mgr'.pc = SweepingPC(mgr.pc) /\ mgr'.cur = None
          /\ mgr'.todo = mgr.todo /\ mgr'.snap = mgr.snap
          /\ mgr.pc \in {"sweepWait", "exitWait"}
          /\ ~ProducerRunning(mgr.cur)
      BY <2>4 DEF ProducerClosed
    <3>2. \A p : Dealt(p) => Dealt(p)'
      BY <1>1, <3>1 DEF Dealt, ProducerRunning
    <3>3. \A p : Started(p)' <=> Started(p)
      BY <1>1 DEF Started
    <3> QED
      BY <1>1, <1>4, <3>1, <3>2, <3>3 DEF SweepingPC
  <2> QED
    BY <2>1, <2>2, <2>3, <2>4
<1> QED
  BY <1>1, <1>2, <1>3, <1>5, MapStays DEF AllGoOn, GoesOn

(* Cancelling the contexts of the producers changes nothing else of them.    *)
LEMMA CancelGoesOn ==
  ASSUME ManagerTypeOK, ManagerInv, CancelManager
  PROVE  AllGoOn
<1> SUFFICES ASSUME NEW p \in Producers
             PROVE  /\ prod'[p].pc = prod[p].pc /\ prod'[p].rd = prod[p].rd
                    /\ prod'[p].closing = prod[p].closing
                    /\ prod'[p].late = prod[p].late
                    /\ prod'[p].demuxer = prod[p].demuxer
  BY DEF ManagerInv, ProducersAgree, AllGoOn, GoesOn, Persists, Started,
         ProducerRunning
<1> DEFINE done == prod[p].ctxDone \/ Started(p)
<1>1. /\ prod'[p] = [prod[p] EXCEPT !.ctxDone = done]
      /\ prod[p] \in ProducerRecords
  BY DEF CancelManager, ManagerTypeOK, ProducerTypeOK
<1> HIDE DEF done
<1> QED
  BY <1>1 DEF ProducerRecords

LEMMA StopKeeps ==
  ASSUME ManagerTypeOK, ManagerInv, SignalStop \/ ContextEnds
  PROVE  ManagerInv'
<1> USE DEF ManagerTypeOK, ProducerTypeOK
<1>1. AllGoOn
  BY CancelGoesOn, SameProducersGoOn DEF SignalStop, ContextEnds, ManagerInv
<1>2. /\ mgr'.pc = mgr.pc /\ mgr'.todo = mgr.todo /\ mgr'.snap = mgr.snap
      /\ mgr'.cur = mgr.cur /\ mgr.snap \subseteq ProducerIds
  BY DEF SignalStop, ContextEnds, ManagerRecords
<1>3. UNCHANGED <<call, add, pmap, pid>>
  BY DEF SignalStop, ContextEnds
<1>4. CallsStay
  BY <1>3 DEF CallsStay, CallsAreNested, Offered, ManagerInv
<1>5. /\ Mapped' = Mapped /\ Mapped \subseteq Producers
      /\ \A id \in ProducerIds : pmap[id] # None => pmap[id] \in Mapped
  BY <1>3 DEF Mapped
<1>6. \A p \in Producers : GoesOn(p) /\ (Dealt(p) => Dealt(p)')
  BY <1>1, <1>2 DEF Dealt, AllGoOn, GoesOn, Persists
<1>7. SweepAgrees'
  BY <1>2, <1>3, <1>5, <1>6
     DEF ManagerInv, SweepAgrees, GoesOn, Persists
<1> QED
  BY <1>1, <1>2, <1>3, <1>4, <1>7, MapStays
     DEF AllGoOn, GoesOn, ManagerInv

(* The manager starts a producer: one in the map, or one already closed.     *)
LEMMA ReceiveProducerKeeps ==
  ASSUME ManagerTypeOK, ManagerInv, NEW k \in Calls, ReceiveProducer(k)
  PROVE  ManagerInv'
<1> USE DEF ManagerTypeOK, ProducerTypeOK, ManagerInv
<1> DEFINE p == call[k].prod
<1>1. p \in Producers /\ Offered(k)
  BY DEF ReceiveProducer, CallsAreNested, Offered
<1>2. prod[p].pc = "none" /\ prod[p].rd = "none" /\ prod[p].demuxer # "open"
  BY <1>1 DEF Offers, Started, ProducersAgree, ProducerRecords
<1>3. /\ prod'[p].pc = "factory" /\ prod'[p].rd = "none"
      /\ prod'[p].closing = prod[p].closing /\ prod'[p].late = prod[p].closing
      /\ prod'[p].demuxer = prod[p].demuxer
      /\ \A q \in Producers \ {p} : prod'[q] = prod[q]
  BY <1>1, <1>2 DEF ReceiveProducer, Launch, ProducerRecords
<1>4. /\ UNCHANGED <<call, mgr, pmap, pid>> /\ mgr.pc = "loop"
      /\ add'[k].pc = "lastError"
      /\ \A j \in Calls \ {k} : add'[j] = add[j]
  BY DEF ReceiveProducer, AddRecords
<1>5. p \in Mapped \/ prod[p].closing
  BY <1>1, <1>4 DEF Offers
<1>6. \A q \in Mapped : q \in Producers /\ ~prod[q].closing
  BY <1>4 DEF SweepAgrees, Mapped, ManagerSweeping, ManagerExiting
<1> HIDE DEF p
<1>7. Mapped' = Mapped
      /\ \A id \in ProducerIds : pmap[id] # None => pmap[id] \in Mapped
  BY <1>4 DEF Mapped
<1>8. \A q \in Producers : prod'[q].closing = prod[q].closing
  BY <1>3
<1>9. CallsAreNested'
  BY <1>1, <1>4 DEF CallsAreNested, Offered, p
<1>10. MapAgrees'
  BY <1>3, <1>4, <1>6, <1>7 DEF MapAgrees
<1>11. ProducersAgree'
  BY <1>2, <1>3 DEF ProducersAgree
<1>12. SweepAgrees'
  BY <1>4, <1>6, <1>7, <1>8
     DEF SweepAgrees, ManagerSweeping, ManagerExiting, ManagerWaiting
<1>13. Offers'
  <2> SUFFICES ASSUME NEW j \in Calls, NEW q \in Producers,
                      Offered(j)', call'[j].prod = q
               PROVE  /\ ~Started(q)'
                      /\ q \in Mapped' \/ prod'[q].closing \/ mgr'.pc = "done"
                      /\ \A i \in Calls \ {j} :
                           Offered(i)' => call'[i].prod # q
    BY DEF Offers
  <2>1. j # k /\ Offered(j) /\ call[j].prod = q
    BY <1>4 DEF Offered
  <2>2. q # p
    BY <1>1, <2>1 DEF Offers, p
  <2>3. \A i \in Calls \ {j} : Offered(i)' => Offered(i) /\ call'[i] = call[i]
    BY <1>4 DEF Offered
  <2> QED
    BY <1>3, <1>4, <1>7, <2>1, <2>2, <2>3 DEF Offers, Started
<1>14. DoneIsOver'
  BY <1>4 DEF DoneIsOver
<1>15. RunningProducerIsMapped'
  BY <1>3, <1>5, <1>7 DEF RunningProducerIsMapped, ProducerRunning
<1> QED
  BY <1>9, <1>10, <1>11, <1>12, <1>13, <1>14, <1>15

(* Close of a producer in the sweep of the idle ones or of the shutdown.     *)
LEMMA CloseProducerKeeps ==
  ASSUME ManagerTypeOK, ManagerInv, CloseProducer
  PROVE  ManagerInv'
<1> USE DEF ManagerTypeOK, ProducerTypeOK, ManagerInv
<1>1. PICK p \in mgr.todo :
        \/ /\ prod[p].closing
           /\ mgr' = [mgr EXCEPT !.todo = @ \ {p}] /\ UNCHANGED <<con, prod>>
        \/ /\ ProducerCloseBegin(p)
           /\ mgr' = [mgr EXCEPT !.todo = @ \ {p}, !.cur = p,
                                 !.pc = WaitingPC(@)]
  BY DEF CloseProducer
<1>2. /\ p \in Mapped /\ ~prod[p].closing /\ p \in Producers
      /\ mgr.pc \in {"sweep", "exitSweep"}
  BY DEF SweepAgrees, CloseProducer, ManagerRecords
<1>3. /\ ProducerCloseBegin(p)
      /\ mgr'.pc = WaitingPC(mgr.pc) /\ mgr'.cur = p
      /\ mgr'.todo = mgr.todo \ {p} /\ mgr'.snap = mgr.snap
  BY <1>1, <1>2 DEF ManagerRecords
<1>4. UNCHANGED <<call, add, pmap, pid>>
  BY DEF CloseProducer
<1>5. /\ prod'[p].closing
      /\ prod'[p].pc = prod[p].pc /\ prod'[p].rd = prod[p].rd
      /\ prod'[p].late = prod[p].late /\ prod'[p].demuxer = prod[p].demuxer
      /\ \A q \in Producers \ {p} : prod'[q] = prod[q]
  <2> DEFINE done == prod[p].ctxDone \/ Started(p)
  <2>1. /\ prod' = [prod EXCEPT ![p] =
                      [prod[p] EXCEPT !.closing = TRUE, !.ctxDone = done]]
        /\ prod[p] \in ProducerRecords
    BY <1>2, <1>3 DEF ProducerCloseBegin
  <2> HIDE DEF done
  <2> QED
    BY <1>2, <2>1 DEF ProducerRecords
<1>6. /\ \A q \in Producers : Persists(q)
      /\ ProducersAgree'
  BY <1>5 DEF Persists, Started, ProducerRunning, ProducersAgree
<1>7. CallsStay
  BY <1>4 DEF CallsStay, CallsAreNested, Offered
<1>8. /\ Mapped' = Mapped
      /\ \A id \in ProducerIds : pmap[id] # None => pmap[id] \in Mapped
      /\ Mapped \subseteq Producers
  BY <1>4 DEF Mapped
<1>9. Dealt(p)'
  BY <1>3, <1>5 DEF Dealt
<1>10. mgr.cur = None /\ p # None
  BY <1>2, ProducerAssumption DEF SweepAgrees, ManagerWaiting
<1>11. \A q \in Producers : Dealt(q) => Dealt(q)'
  BY <1>5, <1>9, <1>10, ProducerAssumption DEF Dealt, ProducerRunning
<1>12. SweepAgrees'
  <2>1. \A q \in Producers : Started(q)' <=> Started(q)
    BY <1>6 DEF Persists
  <2>2. mgr.snap \subseteq ProducerIds
    BY DEF ManagerRecords
  <2>3. CASE mgr.pc = "sweep"
    <3>1. mgr'.pc = "sweepWait"
      BY <1>3, <2>3 DEF WaitingPC
    <3>2. PICK id \in mgr.snap : pmap[id] = p
      BY <2>3 DEF SweepAgrees, ManagerSweeping
    <3>3. \A i \in ProducerIds : pmap[i] = p => i = id
      BY <1>10, <2>2, <3>2 DEF MapAgrees
    <3>4. \A i \in ProducerIds :
            pmap'[i] # None /\ prod'[pmap'[i]].closing => i \in mgr'.snap
      BY <1>3, <1>4, <1>5, <1>8, <2>3, <3>2, <3>3
         DEF SweepAgrees, ManagerSweeping
    <3>5. \A i \in mgr'.snap :
            /\ pmap'[i] # None
            /\ pmap'[i] \in mgr'.todo \/ Dealt(pmap[i])'
      BY <1>3, <1>4, <1>8, <1>9, <1>11, <2>2, <2>3
         DEF SweepAgrees, ManagerSweeping
    <3>6. \A q \in mgr'.todo :
            /\ q \in Mapped' /\ ~prod'[q].closing
            /\ \E i \in mgr'.snap : pmap'[i] = q
      BY <1>3, <1>4, <1>5, <1>8, <2>3 DEF SweepAgrees, ManagerSweeping
    <3> QED
      BY <1>3, <1>4, <1>10, <3>1, <3>4, <3>5, <3>6
         DEF SweepAgrees, ManagerSweeping, ManagerExiting, ManagerWaiting
  <2>4. CASE mgr.pc = "exitSweep"
    <3>1. mgr'.pc = "exitWait"
      BY <1>3, <2>4 DEF WaitingPC
    <3> QED
      BY <1>2, <1>3, <1>4, <1>5, <1>8, <1>9, <1>10, <1>11, <2>1, <2>4, <3>1
         DEF SweepAgrees, ManagerSweeping, ManagerExiting, ManagerWaiting
  <2> QED
    BY <1>2, <2>3, <2>4
<1>13. mgr'.pc # "done" /\ mgr.pc # "done"
  BY <1>2, <1>3 DEF WaitingPC
<1> QED
  BY <1>4, <1>6, <1>7, <1>12, <1>13, MapStays

(* What a sweep takes out of the map has been closed and has ended.          *)
LEMMA SweptHaveEnded ==
  ASSUME ManagerTypeOK, ManagerInv, mgr.todo = {}
  PROVE  /\ mgr.pc = "sweep" =>
              \A id \in mgr.snap :
                /\ pmap[id] # None /\ pmap[id] \in Producers
                /\ prod[pmap[id]].closing /\ ~ProducerRunning(pmap[id])
         /\ mgr.pc = "exitSweep" =>
              \A p \in Mapped : ~ProducerRunning(p)
<1> USE DEF ManagerTypeOK, ManagerInv, ManagerSweeping, ManagerExiting,
            ManagerWaiting
<1>1. mgr.pc \in {"sweep", "exitSweep"} => mgr.cur = None
  BY DEF SweepAgrees
<1>2. mgr.snap \subseteq ProducerIds
  BY DEF ManagerRecords
<1>3. \A p \in Producers : p # None
  BY ProducerAssumption
<1>4. \A p \in Producers : ~Started(p) => ~ProducerRunning(p)
  BY DEF Started, ProducerRunning, ProducersAgree
<1>5. Mapped \subseteq Producers
  BY DEF Mapped
<1> QED
  BY <1>1, <1>2, <1>3, <1>4, <1>5 DEF SweepAgrees, Dealt

LEMMA SweepIdleEndKeeps ==
  ASSUME ManagerTypeOK, ManagerInv, SweepIdleEnd
  PROVE  ManagerInv'
<1> USE DEF ManagerTypeOK, ProducerTypeOK, ManagerInv
<1>1. /\ mgr.pc = "sweep" /\ mgr.todo = {}
      /\ mgr'.pc = "loop" /\ mgr'.todo = {} /\ mgr'.cur = mgr.cur
      /\ UNCHANGED <<prod, call, add, pid>>
  BY DEF SweepIdleEnd, ManagerRecords
<1>2. \A id \in ProducerIds :
        pmap'[id] = IF id \in mgr.snap THEN None ELSE pmap[id]
  BY DEF SweepIdleEnd
<1>3. \A id \in mgr.snap :
        prod[pmap[id]].closing /\ ~ProducerRunning(pmap[id])
  BY <1>1, SweptHaveEnded
<1>4. /\ Mapped' \subseteq Mapped /\ Mapped \subseteq Producers
      /\ \A p \in Mapped \ Mapped' : prod[p].closing /\ ~ProducerRunning(p)
      /\ \A p \in Mapped' : ~prod[p].closing
  <2>1. Mapped' \subseteq Mapped /\ Mapped \subseteq Producers
    BY <1>2 DEF Mapped
  <2>2. ASSUME NEW p \in Mapped, p \notin Mapped'
        PROVE  prod[p].closing /\ ~ProducerRunning(p)
    <3>1. PICK id \in ProducerIds : pmap[id] = p /\ p # None
      BY <2>2 DEF Mapped
    <3>2. id \in mgr.snap
      BY <1>2, <2>2, <3>1 DEF Mapped
    <3> QED
      BY <1>3, <3>1, <3>2
  <2>3. ASSUME NEW p \in Mapped' PROVE ~prod[p].closing
    <3>1. PICK id \in ProducerIds : pmap'[id] = p /\ p # None
      BY <2>3 DEF Mapped
    <3>2. id \notin mgr.snap /\ pmap[id] = p
      BY <1>2, <3>1
    <3> QED
      BY <1>1, <3>1, <3>2 DEF SweepAgrees, ManagerSweeping
  <2> QED
    BY <2>1, <2>2, <2>3
<1>5. CallsAreNested' /\ ProducersAgree'
  BY <1>1 DEF CallsAreNested, ProducersAgree
<1>6. MapAgrees'
  BY <1>1, <1>2, <1>4 DEF MapAgrees
<1>7. SweepAgrees'
  BY <1>1, <1>4
     DEF SweepAgrees, ManagerSweeping, ManagerExiting, ManagerWaiting
<1>8. Offers'
  BY <1>1, <1>4 DEF Offers, Offered, Started
<1>9. DoneIsOver' /\ RunningProducerIsMapped'
  BY <1>1, <1>4 DEF DoneIsOver, RunningProducerIsMapped, ProducerRunning
<1> QED
  BY <1>5, <1>6, <1>7, <1>8, <1>9

LEMMA ManagerExitEndKeeps ==
  ASSUME ManagerTypeOK, ManagerInv, ManagerExitEnd
  PROVE  ManagerInv'
<1> USE DEF ManagerTypeOK, ProducerTypeOK, ManagerInv
<1>1. /\ mgr.pc = "exitSweep" /\ mgr.todo = {}
      /\ mgr'.pc = "done" /\ mgr'.todo = {} /\ mgr'.cur = mgr.cur
      /\ UNCHANGED <<call, add, pid>>
  BY DEF ManagerExitEnd, ManagerRecords
<1>2. \A id \in ProducerIds : pmap'[id] = None
  BY DEF ManagerExitEnd
<1>3. Mapped' = {}
  BY <1>2 DEF Mapped
<1>4. AllGoOn
  BY CancelGoesOn DEF ManagerExitEnd
<1>5. \A p \in Producers : ProducerRunning(p) => prod[p].late
  BY <1>1, SweptHaveEnded DEF RunningProducerIsMapped
<1>6. \A p \in Producers : ProducerRunning(p)' => prod'[p].late
  BY <1>4, <1>5 DEF AllGoOn, GoesOn, Persists
<1>7. CallsAreNested' /\ ProducersAgree'
  BY <1>1, <1>4 DEF CallsAreNested, AllGoOn
<1>8. MapAgrees' /\ DoneIsOver' /\ RunningProducerIsMapped'
  BY <1>2, <1>3, <1>6 DEF MapAgrees, DoneIsOver, RunningProducerIsMapped
<1>9. SweepAgrees'
  BY <1>1, <1>3
     DEF SweepAgrees, ManagerSweeping, ManagerExiting, ManagerWaiting
<1>10. Offers'
  BY <1>1, <1>4 DEF Offers, Offered, AllGoOn, GoesOn, Persists
<1> QED
  BY <1>7, <1>8, <1>9, <1>10

LEMMA ManagerInvInit == ManagerInit => ManagerInv
<1> SUFFICES ASSUME ManagerInit PROVE ManagerInv
  OBVIOUS
<1>1. /\ Mapped = {} /\ mgr.pc = "none" /\ mgr.todo = {} /\ mgr.cur = None
      /\ \A id \in ProducerIds : pmap[id] = None
  BY DEF ManagerInit, Mapped
<1>2. \A k \in Calls : add[k].pc = "idle" /\ call[k].pc = "idle"
  BY DEF ManagerInit, ProducerInit
<1>3. \A p \in Producers :
        prod[p].pc = "none" /\ prod[p].rd = "none" /\ prod[p].demuxer = "none"
  BY DEF ManagerInit, ProducerInit, NewProducer
<1>4. CallsAreNested /\ Offers
  BY <1>2 DEF CallsAreNested, Offers, Offered
<1>5. MapAgrees /\ SweepAgrees
  BY <1>1 DEF MapAgrees, SweepAgrees, ManagerSweeping, ManagerExiting,
              ManagerWaiting
<1>6. ProducersAgree /\ DoneIsOver /\ RunningProducerIsMapped
  BY <1>3 DEF ProducersAgree, DoneIsOver, RunningProducerIsMapped,
              ProducerRunning
<1> QED
  BY <1>4, <1>5, <1>6 DEF ManagerInv

LEMMA ManagerInvStep ==
  ASSUME ManagerTypeOK, ManagerInv, [ManagerNext]_mvars
  PROVE  ManagerInv'
<1>1. CASE UNCHANGED mvars
  BY <1>1 DEF mvars, ManagerInv, CallsAreNested, MapAgrees, ProducersAgree,
              SweepAgrees, Dealt, Offers, Offered, DoneIsOver, Started,
              RunningProducerIsMapped, ProducerRunning, Mapped
<1>2. CASE ManagerStep
  BY <1>2, ReceiveProducerKeeps, LooksKeep, CloseProducerKeeps,
     SweepIdleEndKeeps, ManagerExitEndKeeps DEF ManagerStep, ManagerReceive
<1>3. ASSUME NEW k \in Calls, AddCall(k) \/ AddStep(k)
      PROVE  ManagerInv'
  BY <1>3, AddsKeep, CreatesKeeps DEF AddStep
<1> QED
  BY <1>1, <1>2, <1>3, GoroutinesKeep, LooksKeep, StopKeeps
     DEF ManagerNext

(* The map, the sweeps and the offers of new producers always agree.         *)
THEOREM ManagerInvCorrect == ManagerSpec => []ManagerInv
BY ManagerTypeCorrect, ManagerInvInit, ManagerInvStep, PTL DEF ManagerSpec

(* A producer that runs is in the map, or was started after its Close.       *)
THEOREM RunningProducerIsMappedCorrect ==
  ManagerSpec => []RunningProducerIsMapped
<1>1. ManagerInv => RunningProducerIsMapped
  BY DEF ManagerInv
<1> QED
  BY <1>1, ManagerInvCorrect, PTL

(* One producer ID has one demuxer open, unless a producer was started after *)
(* its Close.                                                                *)
THEOREM OneDemuxerPerIdCorrect == ManagerSpec => []OneDemuxerPerId
<1>1. ASSUME ManagerTypeOK, ManagerInv PROVE OneDemuxerPerId
  <2> SUFFICES ASSUME NEW p \in Producers, NEW q \in Producers,
                      p # q, pid[p] = pid[q],
                      prod[p].demuxer = "open", prod[q].demuxer = "open",
                      ~prod[p].late, ~prod[q].late
               PROVE  FALSE
    BY DEF OneDemuxerPerId, ManagerTypeOK, ProducerTypeOK, ProducerRecords
  <2>1. ProducerRunning(p) /\ ProducerRunning(q)
    BY <1>1 DEF ManagerInv, ProducersAgree, ProducerRunning
  <2>2. p \in Mapped /\ q \in Mapped
    BY <1>1, <2>1 DEF ManagerInv, RunningProducerIsMapped
  <2> QED
    BY <1>1, <2>2 DEF ManagerInv, MapAgrees, Mapped
<1> QED
  BY <1>1, ManagerTypeCorrect, ManagerInvCorrect, PTL

(***************************************************************************)
(* The consumers under the manager.                                        *)
(***************************************************************************)
(* A call that goes on, or will be retried, has no started consumer, so that *)
(* it may begin again on any producer.                                       *)
FreshCalls ==
  \A k \in Calls :
    /\ add[k].pc # "ret"
    /\ call[k].pc # "header"
    /\ call[k].pc = "ret" => call[k].res \in Retried
    => \A p \in Producers : Unstarted(<<p, k>>)

ManagedInv == ManagerInv /\ MapInv /\ FreshCalls

LEMMA CancelKeepsCons ==
  ASSUME ConsumerTypeOK, CancelManager
  PROVE  SameCons
<1>1. ASSUME NEW c \in Consumers PROVE SameFields(con[c], con'[c])
  <2>1. con[c] \in ConsumerRecords /\ con'[c] = ContextDone(con[c])
    BY DEF ConsumerTypeOK, CancelManager
  <2> QED
    BY <2>1, RecordFields
<1> QED
  BY <1>1 DEF SameCons, SameCon

LEMMA CancelKeepsProds ==
  ASSUME ManagerTypeOK, CancelManager
  PROVE  SameProds
<1> SUFFICES ASSUME NEW p \in Producers PROVE SameProd(p)
  BY DEF SameProds
<1> DEFINE done == prod[p].ctxDone \/ Started(p)
<1>1. /\ prod'[p] = [prod[p] EXCEPT !.ctxDone = done]
      /\ prod[p] \in ProducerRecords
  BY DEF CancelManager, ManagerTypeOK, ProducerTypeOK
<1> HIDE DEF done
<1> QED
  BY <1>1 DEF ProducerRecords, SameProd, SameSets

(* The manager's own steps start no consumer and touch no map of them.       *)
LEMMA ManagerStepsMap ==
  ASSUME ManagerTypeOK, ManagedInv,
         Start \/ SignalStop \/ ContextEnds \/ ManagerStep
  PROVE  MapInv' /\ SameCons
<1> USE DEF ManagerTypeOK, ProducerTypeOK, ManagedInv
<1>1. CASE UNCHANGED <<con, prod, call, rem>>
  BY <1>1, Stays, QuietSteps DEF Neutral
<1>2. CASE SignalStop \/ ContextEnds \/ ManagerExitEnd
  <2>1. CancelManager \/ UNCHANGED <<con, prod>>
    BY <1>2 DEF SignalStop, ContextEnds, ManagerExitEnd
  <2>2. SameCons /\ SameProds
    BY <2>1, CancelKeepsCons, CancelKeepsProds, Stays
  <2>3. SameCalls /\ UNCHANGED rem
    BY <1>2, Stays DEF SignalStop, ContextEnds, ManagerExitEnd
  <2> QED
    BY <2>2, <2>3, QuietSteps DEF Neutral
<1>3. CASE CloseProducer
  <2>1. PICK p \in mgr.todo :
          UNCHANGED <<con, prod>> \/ ProducerCloseBegin(p)
    BY <1>3 DEF CloseProducer
  <2>2. p \in Producers
    BY DEF ManagerRecords
  <2>3. UNCHANGED <<con, prod, call, rem>> \/ EnvClose(p)
    BY <1>3, <2>1 DEF CloseProducer, EnvClose
  <2> QED
    BY <1>1, <2>2, <2>3, EnvNeutral, QuietSteps DEF Neutral
<1>4. ASSUME NEW k \in Calls, ReceiveProducer(k)
      PROVE  MapInv' /\ SameCons
  <2> DEFINE p == call[k].prod
  <2>1. p \in Producers /\ ~Started(p)
    BY <1>4
       DEF ReceiveProducer, ManagerInv, CallsAreNested, Offers, Offered
  <2>2. /\ prod'[p].pc = "factory" /\ SameSets(p)
        /\ \A q \in Producers \ {p} : prod'[q] = prod[q]
    BY <1>4, <2>1 DEF ReceiveProducer, Launch, ProducerRecords, SameSets
  <2>3. SameCons /\ SameCalls /\ UNCHANGED rem
    BY <1>4, Stays DEF ReceiveProducer
  <2> HIDE DEF p
  <2>4. MainMoves(p)
    BY <2>1, <2>2, <2>3 DEF MainMoves, Moves, Started, SameProd, SameSets
  <2> QED
    BY <2>1, <2>3, <2>4, MainMovesKeep
<1> QED
  BY <1>1, <1>2, <1>3, <1>4
     DEF ManagerStep, ManagerReceive, Start, SweepIdle, ManagerExit,
         ProducerClosed, SweepIdleEnd

LEMMA AddsMap ==
  ASSUME ManagerTypeOK, ManagedInv, NEW k \in Calls,
         \/ AddCall(k) \/ AddGate(k) \/ AddStarted(k) \/ AddFound(k)
         \/ SendProducerCancelled(k) \/ AddLastError(k) \/ AddReturns(k)
  PROVE  MapInv' /\ FreshCalls'
<1> USE DEF ManagerTypeOK, ProducerTypeOK, ManagedInv, ManagerInv,
            CallsAreNested
<1>1. /\ UNCHANGED <<con, prod, rem>>
      /\ \A j \in Calls \ {k} : call'[j] = call[j] /\ add'[j] = add[j]
      /\ add[k].pc # "ret"
  BY DEF AddCall, AddGate, AddStarted, AddFound, SendProducerCancelled,
         AddLastError, AddReturns, AddReturn
<1>2. \A p \in Producers, j \in Calls :
        Unstarted(<<p, j>>)' <=> Unstarted(<<p, j>>)
  BY <1>1 DEF Unstarted
<1>3. SameCons /\ SameProds /\ \A j \in Calls \ {k} : SameCall(j)
  BY <1>1, Stays DEF SameCall
<1>4. CASE AddReturns(k)
  <2>1. /\ call'[k].pc = "idle" /\ call[k].pc = "ret"
        /\ add'[k].pc # "ret" => call[k].res \in Retried
    BY <1>4 DEF AddReturns, AddReturn, AddRecords, CallRecords
  <2>2. CallMoves(k)
    BY <1>1, <1>3, <2>1 DEF CallMoves
  <2> QED
    BY <1>1, <1>2, <2>1, <2>2, QuietSteps DEF FreshCalls
<1>5. CASE ~AddReturns(k)
  <2>1. call[k].pc = "idle"
    BY <1>5 DEF AddCall, AddGate, AddStarted, AddFound,
                SendProducerCancelled, AddLastError
  <2>2. \A p \in Producers : Unstarted(<<p, k>>)
    BY <1>1, <2>1 DEF FreshCalls
  <2>3. call'[k].pc = "idle" \/ Begins(k)
    <3>1. CASE AddLastError(k)
      <4>1. call[k].prod \in Producers /\ call[k] \in CallRecords
        BY <3>1 DEF AddLastError
      <4>2. \/ call'[k].pc = call[k].pc
            \/ call'[k].pc = "chkClosing" /\ call'[k].prod = call[k].prod
        BY <3>1, <4>1 DEF AddLastError, CallRecords
      <4>3. Unstarted(<<call[k].prod, k>>)
        BY <2>2, <4>1
      <4> QED
        BY <2>1, <4>1, <4>2, <4>3 DEF Begins
    <3>2. CASE ~AddLastError(k)
      BY <1>5, <2>1, <3>2
         DEF AddCall, AddGate, AddStarted, AddFound, SendProducerCancelled,
             CallRecords
    <3> QED
      BY <3>1, <3>2
  <2>4. CallMoves(k)
    BY <1>1, <1>3, <2>1, <2>3 DEF CallMoves
  <2> QED
    BY <1>1, <1>2, <2>2, <2>4, QuietSteps DEF FreshCalls
<1> QED
  BY <1>4, <1>5

(* A new producer comes without consumers, and nobody knew the object.       *)
LEMMA CreatesMap ==
  ASSUME ManagerTypeOK, ManagedInv, NEW k \in Calls, NEW p \in Producers,
         AddCreates(k, p)
  PROVE  MapInv' /\ FreshCalls'
<1> USE DEF ManagerTypeOK, ProducerTypeOK, ManagedInv, MapInv
<1>1. /\ UNCHANGED rem
      /\ prod'[p].pc = "none" /\ prod'[p].members = {}
      /\ \A q \in Producers \ {p} : prod'[q] = prod[q]
  BY DEF AddCreates, NewProducer
<1>2. \A q \in Producers, j \in Calls : <<q, j>> \in Consumers
  BY ProducerAssumption
<1>3. /\ \A j \in Calls : con'[<<p, j>>] = NewConsumer
      /\ \A q \in Producers \ {p}, j \in Calls :
           con'[<<q, j>>] = con[<<q, j>>]
  BY <1>2 DEF AddCreates
<1>4. /\ call[k].pc = "idle" /\ call'[k].pc = "idle"
      /\ add[k].pc # "ret"
      /\ \A j \in Calls \ {k} :
           call'[j] = call[j] /\ call[j].prod # p /\ add'[j] = add[j]
  <2>1. add[k].pc = "lookup" /\ call[k].pc = "idle"
    BY DEF AddCreates, ManagerInv, CallsAreNested
  <2>2. \A j \in Calls : call[j].prod # p
    BY DEF AddCreates, Free
  <2>3. /\ call'[k].pc = call[k].pc
        /\ \A j \in Calls \ {k} : call'[j] = call[j] /\ add'[j] = add[j]
    BY DEF AddCreates, CallRecords
  <2> QED
    BY <2>1, <2>2, <2>3
<1>5. \A j \in Calls :
        /\ Unstarted(<<p, j>>)' /\ ~Running(<<p, j>>)' /\ ~MuxOpen(<<p, j>>)'
        /\ ~con'[<<p, j>>].closing
  BY <1>3 DEF NewConsumer, Unstarted, Running, MuxOpen
<1>6. \A q \in Producers \ {p}, j \in Calls :
        /\ Unstarted(<<q, j>>)' <=> Unstarted(<<q, j>>)
        /\ Running(<<q, j>>)' <=> Running(<<q, j>>)
        /\ MuxOpen(<<q, j>>)' <=> MuxOpen(<<q, j>>)
        /\ Detached(<<q, j>>)' <=> Detached(<<q, j>>)
  BY <1>1, <1>3 DEF Unstarted, Running, MuxOpen, Detached, Closers
<1>7. UniqueIds' /\ QuietMembers'
  BY <1>1, <1>6, MembersTyped DEF UniqueIds, QuietMembers
<1>8. FreshByCall'
  BY <1>4, <1>6 DEF FreshByCall
<1>9. SweepProgress'
  <2>1. prod'[p].pc \notin Sweeping \cup Waiting
                            \cup {"starting", "exitSweep", "exitWait"}
    BY <1>1 DEF Sweeping, Waiting
  <2> QED
    BY <1>1, <1>3, <1>6, <2>1, MembersTyped DEF SweepProgress
<1>10. LostIsClosing'
  BY <1>1, <1>3, <1>4, <1>5, <1>6 DEF LostIsClosing, Inserted
<1>11. ClosingIsAwaited' /\ RunningIsFound'
  BY <1>1, <1>3, <1>5, <1>6 DEF ClosingIsAwaited, RunningIsFound
<1>12. OpenMuxerRuns'
  <2>1. \A c \in Consumers :
          \E q \in Producers, j \in Calls : c = <<q, j>>
    BY ProducerAssumption
  <2>2. \A q \in Producers, j \in Calls :
          MuxOpen(<<q, j>>)' =>
            con'[<<q, j>>].pc \in {"header", "loop", "write", "close"}
    BY <1>2, <1>3, <1>5, <1>6 DEF OpenMuxerRuns
  <2> QED
    BY <2>1, <2>2 DEF OpenMuxerRuns
<1>13. FreshCalls'
  BY <1>4, <1>5, <1>6 DEF FreshCalls
<1> QED
  BY <1>7, <1>8, <1>9, <1>10, <1>11, <1>12, <1>13

LEMMA ManagedInit == ManagerInit => ManagedInv
<1> SUFFICES ASSUME ManagerInit PROVE ManagedInv
  OBVIOUS
<1>1. MapInv /\ StartedByCall
  BY MembershipInit DEF ManagerInit, MembershipInv
<1>2. FreshCalls
  BY ProducerAssumption
     DEF ManagerInit, ProducerInit, ConsumerInit, NewConsumer, FreshCalls,
         Unstarted
<1> QED
  BY <1>1, <1>2, ManagerInvInit DEF ManagedInv

LEMMA ManagedStep ==
  ASSUME ManagerTypeOK, ManagedInv, [ManagerNext]_mvars
  PROVE  ManagedInv'
<1>1. CASE UNCHANGED mvars
  <2>1. MapInv'
    BY <1>1, Stays, QuietSteps DEF mvars, Neutral, ManagerTypeOK, ManagedInv
  <2>2. FreshCalls'
    BY <1>1 DEF mvars, ManagedInv, FreshCalls, Unstarted
  <2> QED
    BY <2>1, <2>2, ManagerInvStep DEF ManagedInv
<1>2. CASE GoroutineSteps /\ UNCHANGED managerVars
  <2>1. ProducerSteps
    BY <1>2, GoroutinesAreProducers DEF ManagerTypeOK
  <2>2. MapInv'
    BY <2>1, StepsKeepMap DEF ManagerTypeOK, ManagedInv
  <2>3. FreshCalls'
    <3> SUFFICES ASSUME NEW k \in Calls, NEW p \in Producers,
                        add[k].pc # "ret", call'[k].pc # "header",
                        call'[k].pc = "ret" => call'[k].res \in Retried
                 PROVE  Unstarted(<<p, k>>)'
      BY <1>2 DEF FreshCalls, managerVars
    <3>1. CallProceeds(k)
      BY <2>1, CallsProceed DEF ManagerTypeOK
    <3>2. Unstarted(<<p, k>>)
      BY <3>1 DEF CallProceeds, ManagedInv, FreshCalls, Retried
    <3>3. ~ReceiveConsumer(p, k)
      BY DEF ReceiveConsumer, ManagerTypeOK, ProducerTypeOK, CallRecords
    <3> QED
      BY <2>1, <3>2, <3>3, OnlyReceiveStarts DEF ManagerTypeOK, ManagedInv
  <2> QED
    BY <1>2, <2>2, <2>3, GoroutinesKeep DEF ManagedInv
<1>3. CASE Start \/ SignalStop \/ ContextEnds \/ ManagerStep
  <2>1. MapInv' /\ SameCons
    BY <1>3, ManagerStepsMap
  <2>2. UNCHANGED call
        /\ \A k \in Calls : (add'[k].pc = "ret") <=> (add[k].pc = "ret")
    BY <1>3 DEF Start, SignalStop, ContextEnds, ManagerStep, ManagerReceive,
                ReceiveProducer, SweepIdle, ManagerExit, CloseProducer,
                ProducerClosed, SweepIdleEnd, ManagerExitEnd, ManagerTypeOK,
                AddRecords
  <2>3. FreshCalls'
    BY <2>1, <2>2, ProducerAssumption
       DEF ManagedInv, FreshCalls, Unstarted, SameCons, SameCon, SameFields
  <2> QED
    BY <1>3, <2>1, <2>3, ManagerInvStep DEF ManagedInv, ManagerNext
<1>4. ASSUME NEW k \in Calls, AddCall(k) \/ AddStep(k)
      PROVE  ManagedInv'
  <2>1. MapInv' /\ FreshCalls'
    BY <1>4, AddsMap, CreatesMap DEF AddStep
  <2> QED
    BY <1>4, <2>1, ManagerInvStep DEF ManagedInv, ManagerNext
<1> QED
  BY <1>1, <1>2, <1>3, <1>4 DEF ManagerNext

(* The maps of the manager and of its producers stay in step with the        *)
(* goroutines, also when producers are closed, swept and created anew.       *)
THEOREM ManagedCorrect == ManagerSpec => []ManagedInv
BY ManagerTypeCorrect, ManagedInit, ManagedStep, PTL DEF ManagerSpec

(* What was shown of the producers under any caller holds under the manager: *)
(* one member and one open muxer for each consumer ID, no running consumer   *)
(* out of reach, and nothing started after the clean-up.                     *)
THEOREM ManagedConsumersCorrect ==
  ManagerSpec =>
    [](UniqueIds /\ RunningIsMember /\ OneMuxerPerId /\ LeftoversNeverRun)
<1>1. ManagedInv =>
        UniqueIds /\ RunningIsMember /\ OneMuxerPerId /\ LeftoversNeverRun
  BY MapKeepsApart DEF ManagedInv
<1> QED
  BY <1>1, ManagedCorrect, PTL

(* When the manager has ended the goroutines that still run are those below  *)
(* a producer started too late, those spawned too late, and those somebody   *)
(* waits for.                                                                *)
THEOREM StoppedIsQuietCorrect == ManagerSpec => []StoppedIsQuiet
<1>1. ASSUME ManagedInv PROVE StoppedIsQuiet
  <2> SUFFICES ASSUME mgr.pc = "done", NEW p \in Producers, NEW k \in Calls,
                      Running(<<p, k>>), ~prod[p].late, ~con[<<p, k>>].late,
                      \A r \in Removers :
                        ~(rem[r].pc = "wait" /\ rem[r].con = <<p, k>>)
               PROVE  FALSE
    BY <1>1 DEF StoppedIsQuiet, ManagedInv, ManagerInv, DoneIsOver
  <2>1. prod[p].pc \in {"none", "done"}
    BY <1>1 DEF ManagedInv, ManagerInv, DoneIsOver, ProducerRunning
  <2>2. ~Detached(<<p, k>>)
    BY DEF Detached, Closers
  <2>3. prod[p].pc \notin ShutDown /\ k \in prod[p].members
    BY <1>1, <2>2 DEF ManagedInv, MapInv, RunningIsFound
  <2>4. Unstarted(<<p, k>>)
    BY <1>1, <2>1, <2>3 DEF ManagedInv, MapInv, QuietMembers, ShutDown
  <2> QED
    BY <2>4 DEF Unstarted, Running
<1> QED
  BY <1>1, ManagedCorrect, PTL

(***************************************************************************)
(* The manager implements Sources: the abstract state after each step.     *)
(***************************************************************************)
SourceMap == [id \in ProducerIds |-> SourceOf(id)]

Opens(p) == prod[p].demuxer = "open" /\ ~prod[p].late

OpenIds == {pid[p] : p \in {q \in Producers : Opens(q)}}

SourcesStep == [AbstractSources!SourcesNext]_(AbstractSources!sourceVars)

LEMMA SourceStutters ==
  ASSUME SourceMap' = SourceMap, OpenIds' = OpenIds,
         (mgr'.pc = "done") <=> (mgr.pc = "done")
  PROVE  SourcesStep
BY DEF SourcesStep, AbstractSources!sourceVars, SourceMap, OpenIds, Opens

LEMMA SourceBecomes ==
  ASSUME NEW id \in ProducerIds, NEW to,
         SourceMap' = [SourceMap EXCEPT ![id] = to], OpenIds' = OpenIds,
         (mgr'.pc = "done") <=> (mgr.pc = "done"),
         \/ SourceMap[id] = "none" /\ to = "waiting"
         \/ SourceMap[id] = "waiting" /\ to = "running" /\ mgr.pc # "done"
         \/ SourceMap[id] \in {"waiting", "running"} /\ to = "closing"
  PROVE  SourcesStep
<1>1. AbstractSources!Ask(id) \/ AbstractSources!StartSource(id)
      \/ AbstractSources!CloseSource(id)
  BY DEF AbstractSources!Ask, AbstractSources!StartSource,
         AbstractSources!CloseSource, AbstractSources!Becomes, SourceMap,
         OpenIds, Opens
<1> QED
  BY <1>1 DEF SourcesStep, AbstractSources!SourcesNext

LEMMA SourceOpens ==
  ASSUME NEW id \in ProducerIds, SourceMap' = SourceMap,
         mgr' = mgr, mgr.pc # "done",
         id \notin OpenIds, OpenIds' = OpenIds \cup {id},
         SourceMap[id] \in {"running", "closing"}
  PROVE  SourcesStep
<1>1. AbstractSources!OpenSource(id)
  BY DEF AbstractSources!OpenSource, SourceMap, OpenIds, Opens
<1> QED
  BY <1>1 DEF SourcesStep, AbstractSources!SourcesNext

LEMMA SourceShuts ==
  ASSUME NEW id \in ProducerIds, SourceMap' = SourceMap, mgr' = mgr,
         id \in OpenIds, OpenIds' = OpenIds \ {id}
  PROVE  SourcesStep
<1>1. AbstractSources!ShutSource(id)
  BY DEF AbstractSources!ShutSource, SourceMap, OpenIds, Opens
<1> QED
  BY <1>1 DEF SourcesStep, AbstractSources!SourcesNext

LEMMA SourcesForgotten ==
  ASSUME NEW ids \in SUBSET ProducerIds, OpenIds' = OpenIds,
         \A id \in ids : id \notin OpenIds /\ SourceMap[id] # "running",
         SourceMap' = [id \in ProducerIds |->
                         IF id \in ids THEN "none" ELSE SourceMap[id]],
         mgr.pc = "done" => mgr'.pc = "done"
  PROVE  SourcesStep
<1>1. AbstractSources!Forget
  <2>1. ids \in SUBSET (ProducerIds \ OpenIds)
    OBVIOUS
  <2> QED
    BY <2>1 DEF AbstractSources!Forget, SourceMap, OpenIds, Opens
<1> QED
  BY <1>1 DEF SourcesStep, AbstractSources!SourcesNext

(* What a step leaves of the abstract state when it leaves the fields behind *)
(* it as they are.                                                           *)
LEMMA SourcesStay ==
  ASSUME pmap \in [ProducerIds -> Producers \cup {None}],
         UNCHANGED pmap, \A p \in Producers : GoesOn(p)
  PROVE  SourceMap' = SourceMap
<1>1. \A id \in ProducerIds : SourceOf(id)' = SourceOf(id)
  BY DEF SourceOf, GoesOn, Persists
<1> QED
  BY <1>1 DEF SourceMap

LEMMA OpensStay ==
  ASSUME \A p \in Producers : /\ Opens(p)' <=> Opens(p)
                              /\ Opens(p) => pid'[p] = pid[p]
  PROVE  OpenIds' = OpenIds
BY DEF OpenIds

(* A demuxer that is open belongs to the producer that the map has for its   *)
(* ID, and that producer runs.                                               *)
LEMMA OpenIsMapped ==
  ASSUME ManagerTypeOK, ManagerInv, NEW p \in Producers, Opens(p)
  PROVE  /\ pid[p] \in ProducerIds /\ pmap[pid[p]] = p /\ p \in Mapped
         /\ ProducerRunning(p) /\ mgr.pc # "done"
<1>1. ProducerRunning(p)
  BY DEF Opens, ManagerInv, ProducersAgree, ProducerRunning
<1>2. p \in Mapped /\ mgr.pc # "done"
  BY <1>1 DEF Opens, ManagerInv, RunningProducerIsMapped, DoneIsOver
<1> QED
  BY <1>1, <1>2 DEF ManagerInv, MapAgrees, Mapped

LEMMA OpenDemuxerMaps ==
  ASSUME ManagerTypeOK, ManagerInv, NEW p \in Producers, OpenDemuxer(p),
         UNCHANGED managerVars
  PROVE  SourcesStep
<1> USE DEF ManagerTypeOK, ProducerTypeOK
<1>1. AllGoOn
  BY MainGoesOn DEF MainStep, MainWork, ManagerInv
<1>2. SourceMap' = SourceMap
  BY <1>1, SourcesStay DEF AllGoOn, managerVars
<1>3. UNCHANGED <<mgr, pmap, pid>>
  BY DEF managerVars
<1>4. /\ prod[p].pc = "factory" /\ ~Opens(p)
      /\ prod'[p].late = prod[p].late
      /\ \A q \in Producers \ {p} : Opens(q)' <=> Opens(q)
  BY DEF OpenDemuxer, Opens, ManagerInv, ProducersAgree, ProducerRecords
<1>5. CASE ~Opens(p)'
  BY <1>2, <1>3, <1>4, <1>5, OpensStay, SourceStutters
<1>6. CASE Opens(p)'
  <2>1. ~prod[p].late /\ ProducerRunning(p)
    BY <1>4, <1>6 DEF Opens, ProducerRunning
  <2>2. p \in Mapped /\ mgr.pc # "done"
    BY <2>1 DEF ManagerInv, RunningProducerIsMapped, DoneIsOver
  <2>3. PICK id \in ProducerIds : pmap[id] = p /\ p # None
    BY <2>2 DEF Mapped
  <2>4. pid[p] = id
    BY <2>3 DEF ManagerInv, MapAgrees
  <2>5. SourceMap[id] \in {"running", "closing"}
    BY <1>4, <2>3 DEF SourceMap, SourceOf, Started
  <2>6. id \notin OpenIds
    <3> SUFFICES ASSUME NEW q \in Producers, Opens(q), pid[q] = id
                 PROVE  FALSE
      BY DEF OpenIds
    <3> QED
      BY <1>4, <2>3, OpenIsMapped
  <2>7. OpenIds' = OpenIds \cup {id}
    BY <1>3, <1>4, <1>6, <2>4 DEF OpenIds
  <2> QED
    BY <1>2, <1>3, <2>2, <2>5, <2>6, <2>7, SourceOpens
<1> QED
  BY <1>5, <1>6

LEMMA CloseDemuxerMaps ==
  ASSUME ManagerTypeOK, ManagerInv, NEW p \in Producers, CloseDemuxer(p),
         UNCHANGED managerVars
  PROVE  SourcesStep
<1> USE DEF ManagerTypeOK, ProducerTypeOK
<1>1. AllGoOn
  BY MainGoesOn DEF MainStep, MainWork, ManagerInv
<1>2. SourceMap' = SourceMap
  BY <1>1, SourcesStay DEF AllGoOn, managerVars
<1>3. UNCHANGED <<mgr, pmap, pid>>
  BY DEF managerVars
<1>4. /\ ~Opens(p)'
      /\ \A q \in Producers \ {p} : Opens(q)' <=> Opens(q)
  BY DEF CloseDemuxer, Opens, ProducerRecords
<1>5. CASE ~Opens(p)
  BY <1>2, <1>3, <1>4, <1>5, OpensStay, SourceStutters
<1>6. CASE Opens(p)
  <2> DEFINE id == pid[p]
  <2>1. id \in ProducerIds /\ pmap[id] = p
    BY <1>6, OpenIsMapped
  <2>2. \A q \in Producers : Opens(q) /\ pid[q] = id => q = p
    BY <2>1, OpenIsMapped
  <2>3. id \in OpenIds
    BY <1>6 DEF OpenIds
  <2>4. OpenIds' = OpenIds \ {id}
    BY <1>3, <1>4, <2>2 DEF OpenIds
  <2> QED
    BY <1>2, <1>3, <2>1, <2>3, <2>4, SourceShuts
<1> QED
  BY <1>5, <1>6

(* The other steps of the goroutines open and close no demuxer.              *)
LEMMA DemuxersStay ==
  ASSUME ProducerTypeOK, ProducerSteps,
         \A p \in Producers : ~OpenDemuxer(p) /\ ~CloseDemuxer(p)
  PROVE  \A p \in Producers : prod'[p].demuxer = prod[p].demuxer
<1> DEFINE Stay == \A p \in Producers : prod'[p].demuxer = prod[p].demuxer
<1> USE DEF ProducerTypeOK, ProducerRecords
<1>1. ASSUME NEW p \in Producers, MainStep(p)
      PROVE  Stay
  <2>1. CASE GetStreams(p) \/ SpawnConsumer(p) \/ ExitBegin(p)
    BY <2>1 DEF GetStreams, SpawnConsumer, ExitBegin
  <2>2. CASE CloseOne(p) \/ ClosedOne(p)
    <3>1. CASE CloseOne(p)
      BY <3>1 DEF CloseOne
    <3>2. CASE ClosedOne(p)
      BY <3>2 DEF ClosedOne
    <3> QED
      BY <2>2, <3>1, <3>2
  <2>3. CASE SweepEnd(p) \/ ExitEnd(p) \/ RunDemuxerRemover(p) \/ Finish(p)
    BY <2>3 DEF SweepEnd, ExitEnd, RunDemuxerRemover, Finish
  <2>4. CASE MainReceive(p)
    BY <2>4 DEF MainReceive, ReceiveConsumer
  <2>5. CASE SweepBegin(p) \/ LoopExit(p)
    BY <2>5 DEF SweepBegin, LoopExit
  <2> QED
    BY <1>1, <2>1, <2>2, <2>3, <2>4, <2>5 DEF MainStep, MainWork
<1>2. ASSUME NEW p \in Producers, ReaderStep(p)
      PROVE  Stay
  <2>1. CASE ReaderTick(p) \/ WriteDone(p)
    BY <2>1 DEF ReaderTick, WriteDone
  <2>2. CASE ReadReturns(p) \/ ReaderCancelled(p) \/ WriteCancelled(p)
    BY <2>2 DEF ReadReturns, ReadPacket, ReadError, ReaderCancelled,
                WriteCancelled
  <2>3. CASE ReaderPick(p)
    BY <2>3 DEF ReaderPick, PickTarget
  <2>4. CASE DeliverPacket(p)
    BY <2>4 DEF DeliverPacket
  <2> QED
    BY <1>2, <2>1, <2>2, <2>3, <2>4 DEF ReaderStep, ReaderWork
<1>3. ASSUME NEW p \in Producers, Pause(p) \/ Resume(p)
      PROVE  Stay
  BY <1>3 DEF Pause, Resume
<1>4. ASSUME NEW k \in Calls, InsertConsumer(k)
      PROVE  Stay
  BY <1>4 DEF InsertConsumer
<1>5. CASE UNCHANGED prod
  BY <1>5
<1> QED
  BY <1>1, <1>2, <1>3, <1>4, <1>5, CallFrame
     DEF ProducerSteps, CancelCall, RemoverWork, RemoverStart, RemoveLookup,
         RemoveClose, RemoveReturn, ConsumerNext

LEMMA GoroutinesMap ==
  ASSUME ManagerTypeOK, ManagerInv, GoroutineSteps, UNCHANGED managerVars
  PROVE  SourcesStep
<1>1. ProducerSteps
  BY GoroutinesAreProducers DEF ManagerTypeOK
<1>2. CASE \A p \in Producers : ~OpenDemuxer(p) /\ ~CloseDemuxer(p)
  <2>1. AllGoOn
    BY <1>1, GoroutinesGoOn DEF ManagerTypeOK, ManagerInv
  <2>2. SourceMap' = SourceMap
    BY <2>1, SourcesStay DEF AllGoOn, managerVars, ManagerTypeOK
  <2>3. \A p \in Producers : Opens(p)' <=> Opens(p)
    BY <1>1, <1>2, <2>1, DemuxersStay
       DEF ManagerTypeOK, AllGoOn, GoesOn, Persists, Opens
  <2>4. UNCHANGED <<mgr, pid>>
    BY DEF managerVars
  <2> QED
    BY <2>2, <2>3, <2>4, OpensStay, SourceStutters
<1> QED
  BY <1>2, OpenDemuxerMaps, CloseDemuxerMaps

(* The steps that change nothing the owner of a source can see.              *)
LEMMA UnseenMaps ==
  ASSUME ManagerTypeOK, ManagerInv, UNCHANGED <<pmap, pid>>, AllGoOn,
         \A p \in Producers : prod'[p].demuxer = prod[p].demuxer,
         (mgr'.pc = "done") <=> (mgr.pc = "done")
  PROVE  SourcesStep
<1>1. SourceMap' = SourceMap
  BY SourcesStay DEF AllGoOn, ManagerTypeOK
<1>2. OpenIds' = OpenIds
  BY OpensStay DEF AllGoOn, GoesOn, Persists, Opens
<1> QED
  BY <1>1, <1>2, SourceStutters

LEMMA CancelKeepsDemuxers ==
  ASSUME ManagerTypeOK, CancelManager
  PROVE  \A p \in Producers : prod'[p].demuxer = prod[p].demuxer
<1> SUFFICES ASSUME NEW p \in Producers
             PROVE  prod'[p].demuxer = prod[p].demuxer
  OBVIOUS
<1> DEFINE done == prod[p].ctxDone \/ Started(p)
<1>1. /\ prod'[p] = [prod[p] EXCEPT !.ctxDone = done]
      /\ prod[p] \in ProducerRecords
  BY DEF CancelManager, ManagerTypeOK, ProducerTypeOK
<1> HIDE DEF done
<1> QED
  BY <1>1 DEF ProducerRecords

LEMMA QuietStepsMap ==
  ASSUME ManagerTypeOK, ManagerInv,
         \/ Start \/ SignalStop \/ ContextEnds \/ SweepIdle \/ ManagerExit
         \/ ProducerClosed
         \/ \E k \in Calls :
              \/ AddCall(k) \/ AddGate(k) \/ AddStarted(k) \/ AddFound(k)
              \/ SendProducerCancelled(k) \/ AddLastError(k) \/ AddReturns(k)
  PROVE  SourcesStep
<1>1. CASE SignalStop \/ ContextEnds
  <2>1. AllGoOn /\ \A p \in Producers : prod'[p].demuxer = prod[p].demuxer
    BY <1>1, CancelGoesOn, CancelKeepsDemuxers, SameProducersGoOn
       DEF SignalStop, ContextEnds, ManagerInv
  <2>2. mgr'.pc = mgr.pc /\ UNCHANGED <<pmap, pid>>
    BY <1>1 DEF SignalStop, ContextEnds, ManagerTypeOK, ManagerRecords
  <2> QED
    BY <2>1, <2>2, UnseenMaps
<1>2. CASE ~SignalStop /\ ~ContextEnds
  <2>1. /\ UNCHANGED <<prod, pmap, pid>>
        /\ (mgr'.pc = "done") <=> (mgr.pc = "done")
    BY <1>2
       DEF Start, SweepIdle, ManagerExit, ProducerClosed, SweepingPC, AddCall,
           AddGate, AddStarted, AddFound, SendProducerCancelled, AddLastError,
           AddReturns, ManagerTypeOK, ManagerRecords
  <2> QED
    BY <2>1, SameProducersGoOn, UnseenMaps DEF ManagerInv
<1> QED
  BY <1>1, <1>2

LEMMA ReceiveProducerMaps ==
  ASSUME ManagerTypeOK, ManagerInv, NEW k \in Calls, ReceiveProducer(k)
  PROVE  SourcesStep
<1> USE DEF ManagerTypeOK, ProducerTypeOK
<1> DEFINE p == call[k].prod
<1>1. p \in Producers /\ ~Started(p)
  BY DEF ReceiveProducer, ManagerInv, CallsAreNested, Offers, Offered
<1>2. /\ prod'[p].pc = "factory" /\ prod'[p].closing = prod[p].closing
      /\ prod'[p].demuxer = prod[p].demuxer /\ prod[p].demuxer # "open"
      /\ \A q \in Producers \ {p} : prod'[q] = prod[q]
  BY <1>1 DEF ReceiveProducer, Launch, ProducerRecords, Started, ManagerInv,
              ProducersAgree
<1>3. UNCHANGED <<mgr, pmap, pid>> /\ mgr.pc = "loop"
  BY DEF ReceiveProducer
<1> HIDE DEF p
<1>4. OpenIds' = OpenIds
  BY <1>2, <1>3, OpensStay DEF Opens
<1>5. \A id \in ProducerIds : pmap[id] # p => SourceOf(id)' = SourceOf(id)
  BY <1>2, <1>3 DEF SourceOf, Started
<1>6. CASE p \in Mapped
  <2>1. PICK id \in ProducerIds : pmap[id] = p /\ p # None
    BY <1>6 DEF Mapped
  <2>2. \A i \in ProducerIds : pmap[i] = p => i = id
    BY <2>1 DEF ManagerInv, MapAgrees
  <2>3. ~prod[p].closing
    BY <1>3, <1>6
       DEF ManagerInv, SweepAgrees, ManagerSweeping, ManagerExiting
  <2>4. SourceOf(id) = "waiting" /\ SourceOf(id)' = "running"
    BY <1>1, <1>2, <1>3, <2>1, <2>3 DEF SourceOf, Started
  <2>5. SourceMap' = [SourceMap EXCEPT ![id] = "running"]
    BY <1>5, <2>2, <2>4 DEF SourceMap
  <2>6. SourceMap[id] = "waiting"
    BY <2>4 DEF SourceMap
  <2> QED
    BY <1>3, <1>4, <2>5, <2>6, SourceBecomes
<1>7. CASE p \notin Mapped
  <2>1. \A id \in ProducerIds : pmap[id] # p
    BY <1>1, <1>7, ProducerAssumption DEF Mapped
  <2>2. SourceMap' = SourceMap
    BY <1>5, <2>1 DEF SourceMap
  <2> QED
    BY <1>3, <1>4, <2>2, SourceStutters
<1> QED
  BY <1>6, <1>7

LEMMA CloseProducerMaps ==
  ASSUME ManagerTypeOK, ManagerInv, CloseProducer
  PROVE  SourcesStep
<1> USE DEF ManagerTypeOK, ProducerTypeOK
<1>1. PICK p \in mgr.todo :
        \/ prod[p].closing
        \/ /\ ProducerCloseBegin(p)
           /\ mgr' = [mgr EXCEPT !.todo = @ \ {p}, !.cur = p,
                                 !.pc = WaitingPC(@)]
  BY DEF CloseProducer
<1>2. /\ p \in Mapped /\ ~prod[p].closing /\ p \in Producers
      /\ mgr.pc # "done"
  BY DEF ManagerInv, SweepAgrees, CloseProducer, ManagerRecords
<1>3. mgr'.pc # "done" /\ UNCHANGED <<pmap, pid>>
  BY <1>1, <1>2 DEF WaitingPC, ManagerRecords, CloseProducer
<1>4. /\ prod'[p].closing
      /\ prod'[p].late = prod[p].late /\ prod'[p].demuxer = prod[p].demuxer
      /\ \A q \in Producers \ {p} : prod'[q] = prod[q]
  <2> DEFINE done == prod[p].ctxDone \/ Started(p)
  <2>1. /\ prod' = [prod EXCEPT ![p] =
                      [prod[p] EXCEPT !.closing = TRUE, !.ctxDone = done]]
        /\ prod[p] \in ProducerRecords
    BY <1>1, <1>2 DEF ProducerCloseBegin
  <2> HIDE DEF done
  <2> QED
    BY <1>2, <2>1 DEF ProducerRecords
<1>5. OpenIds' = OpenIds
  BY <1>3, <1>4, OpensStay DEF Opens
<1>6. PICK id \in ProducerIds : pmap[id] = p /\ p # None
  BY <1>2 DEF Mapped
<1>7. \A i \in ProducerIds : pmap[i] = p => i = id
  BY <1>6 DEF ManagerInv, MapAgrees
<1>8. \A i \in ProducerIds \ {id} : SourceOf(i)' = SourceOf(i)
  BY <1>3, <1>4, <1>7 DEF SourceOf, Started
<1>9. SourceOf(id) \in {"waiting", "running"} /\ SourceOf(id)' = "closing"
  BY <1>2, <1>3, <1>4, <1>6 DEF SourceOf
<1>10. SourceMap' = [SourceMap EXCEPT ![id] = "closing"]
  BY <1>8, <1>9 DEF SourceMap
<1>11. SourceMap[id] \in {"waiting", "running"}
  BY <1>9 DEF SourceMap
<1> QED
  BY <1>2, <1>3, <1>5, <1>10, <1>11, SourceBecomes

LEMMA CreatesMaps ==
  ASSUME ManagerTypeOK, ManagerInv, NEW k \in Calls, NEW p \in Producers,
         AddCreates(k, p)
  PROVE  SourcesStep
<1> USE DEF ManagerTypeOK, ProducerTypeOK
<1> DEFINE id == PidOf[k]
<1>1. id \in ProducerIds /\ pmap[id] = None /\ p \notin Mapped
  BY ManagerAssumption DEF AddCreates, Free
<1>2. /\ prod'[p].pc = "none" /\ ~prod'[p].closing
      /\ prod'[p].demuxer = "none"
  BY DEF AddCreates, NewProducer
<1>3. /\ \A q \in Producers \ {p} : prod'[q] = prod[q] /\ pid'[q] = pid[q]
      /\ pmap'[id] = p
      /\ \A i \in ProducerIds \ {id} : pmap'[i] = pmap[i]
      /\ UNCHANGED mgr
  BY <1>1 DEF AddCreates
<1> HIDE DEF id
<1>4. ~Opens(p) /\ ~Opens(p)'
  BY <1>1, <1>2, OpenIsMapped DEF Opens
<1>5. OpenIds' = OpenIds
  BY <1>3, <1>4, OpensStay DEF Opens
<1>6. \A i \in ProducerIds \ {id} : SourceOf(i)' = SourceOf(i)
  <2>1. \A i \in ProducerIds : pmap[i] # p
    BY <1>1, ProducerAssumption DEF Mapped
  <2> QED
    BY <1>3, <2>1 DEF SourceOf, Started
<1>7. SourceOf(id) = "none" /\ SourceOf(id)' = "waiting"
  BY <1>1, <1>2, <1>3, ProducerAssumption DEF SourceOf, Started
<1>8. SourceMap' = [SourceMap EXCEPT ![id] = "waiting"]
  BY <1>6, <1>7 DEF SourceMap
<1>9. SourceMap[id] = "none"
  BY <1>1, <1>7 DEF SourceMap
<1> QED
  BY <1>1, <1>3, <1>5, <1>8, <1>9, SourceBecomes

LEMMA SweepIdleEndMaps ==
  ASSUME ManagerTypeOK, ManagerInv, SweepIdleEnd
  PROVE  SourcesStep
<1> USE DEF ManagerTypeOK, ProducerTypeOK
<1>1. /\ mgr.pc = "sweep" /\ mgr.todo = {} /\ UNCHANGED <<prod, pid>>
      /\ mgr.snap \subseteq ProducerIds
  BY DEF SweepIdleEnd, ManagerRecords
<1>2. \A id \in mgr.snap :
        /\ pmap[id] # None /\ prod[pmap[id]].closing
        /\ ~ProducerRunning(pmap[id])
  BY <1>1, SweptHaveEnded
<1>3. OpenIds' = OpenIds
  BY <1>1, OpensStay DEF Opens
<1>4. \A id \in mgr.snap : id \notin OpenIds
  BY <1>2, OpenIsMapped DEF OpenIds
<1>5. \A id \in mgr.snap : SourceMap[id] # "running"
  BY <1>1, <1>2 DEF SourceMap, SourceOf
<1>6. SourceMap' = [id \in ProducerIds |->
                      IF id \in mgr.snap THEN "none" ELSE SourceMap[id]]
  <2>1. \A id \in ProducerIds :
          SourceOf(id)' = IF id \in mgr.snap THEN "none" ELSE SourceOf(id)
    BY <1>1 DEF SweepIdleEnd, SourceOf, Started
  <2> QED
    BY <2>1 DEF SourceMap
<1> QED
  BY <1>1, <1>3, <1>4, <1>5, <1>6, SourcesForgotten

LEMMA ManagerExitEndMaps ==
  ASSUME ManagerTypeOK, ManagerInv, ManagerExitEnd
  PROVE  SourcesStep
<1> USE DEF ManagerTypeOK, ProducerTypeOK
<1>1. /\ mgr.pc = "exitSweep" /\ mgr.todo = {} /\ mgr'.pc = "done"
      /\ UNCHANGED pid /\ \A id \in ProducerIds : pmap'[id] = None
  BY DEF ManagerExitEnd, ManagerRecords
<1>2. \A p \in Mapped : ~ProducerRunning(p)
  BY <1>1, SweptHaveEnded
<1>3. \A p \in Producers : ~Opens(p)
  BY <1>2, OpenIsMapped
<1>4. AllGoOn /\ \A p \in Producers : prod'[p].demuxer = prod[p].demuxer
  BY CancelGoesOn, CancelKeepsDemuxers DEF ManagerExitEnd
<1>5. OpenIds' = OpenIds /\ OpenIds = {}
  BY <1>1, <1>3, <1>4 DEF OpenIds, Opens, AllGoOn, GoesOn, Persists
<1>6. \A id \in ProducerIds : SourceMap[id] # "running"
  <2> SUFFICES ASSUME NEW id \in ProducerIds, NEW p \in Mapped, pmap[id] = p
               PROVE  prod[p].closing \/ ~Started(p)
    BY DEF SourceMap, SourceOf, Mapped
  <2> QED
    BY <1>1 DEF ManagerInv, SweepAgrees, ManagerExiting, Dealt
<1>7. SourceMap' = [id \in ProducerIds |->
                      IF id \in ProducerIds THEN "none" ELSE SourceMap[id]]
  BY <1>1 DEF SourceMap, SourceOf
<1> QED
  BY <1>1, <1>5, <1>6, <1>7, SourcesForgotten

LEMMA SourcesMap ==
  ASSUME ManagerTypeOK, ManagerInv, [ManagerNext]_mvars
  PROVE  SourcesStep
<1>1. CASE UNCHANGED mvars
  BY <1>1, SameProducersGoOn, UnseenMaps DEF mvars, ManagerInv
<1>2. CASE ManagerStep
  BY <1>2, ReceiveProducerMaps, QuietStepsMap, CloseProducerMaps,
     SweepIdleEndMaps, ManagerExitEndMaps DEF ManagerStep, ManagerReceive
<1>3. ASSUME NEW k \in Calls, AddCall(k) \/ AddStep(k)
      PROVE  SourcesStep
  BY <1>3, QuietStepsMap, CreatesMaps DEF AddStep
<1> QED
  BY <1>1, <1>2, <1>3, GoroutinesMap, QuietStepsMap DEF ManagerNext

LEMMA SourcesInit == ManagerInit => AbstractSources!SourcesInit
<1> SUFFICES ASSUME ManagerInit PROVE AbstractSources!SourcesInit
  OBVIOUS
<1>1. \A id \in ProducerIds : SourceOf(id) = "none"
  BY DEF ManagerInit, SourceOf
<1>2. \A p \in Producers : ~(prod[p].demuxer = "open" /\ ~prod[p].late)
  BY DEF ManagerInit, ProducerInit, NewProducer
<1>3. mgr.pc # "done"
  BY DEF ManagerInit
<1> QED
  BY <1>1, <1>2, <1>3 DEF AbstractSources!SourcesInit

(* The manager implements Sources: every step is one of a source, or one     *)
(* nobody sees.                                                              *)
THEOREM SourcesAreManagedCorrect == ManagerSpec => SourcesAreManaged
<1>1. ManagerTypeOK /\ ManagerInv /\ [ManagerNext]_mvars
        => [AbstractSources!SourcesNext]_(AbstractSources!sourceVars)
  BY SourcesMap DEF SourcesStep
<1> QED
  BY <1>1, SourcesInit, ManagerTypeCorrect, ManagerInvCorrect, PTL
     DEF ManagerSpec, SourcesAreManaged, AbstractSources!SourcesSpec
=============================================================================
