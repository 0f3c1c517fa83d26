--------------------------- MODULE ProducerProofs ---------------------------
(***************************************************************************)
(* Proofs about the producers and their consumers, for every number of     *)
(* producers, calls and removers: type correctness first, then             *)
(* MembershipInv of ProducerProperties, and with it UniqueIds,             *)
(* RunningIsMember, OneMuxerPerId and LeftoversNeverRun.                   *)
(***************************************************************************)
EXTENDS ProducerProperties, TLAPS

(***************************************************************************)
(* Type correctness.  The operations on a consumer record give a record.   *)
(***************************************************************************)
LEMMA RecordOperations ==
  ASSUME NEW c \in Consumers, NEW r \in ConsumerRecords
  PROVE  /\ SetLastError(c, r) \in ConsumerRecords
         /\ SetInactive(r) \in ConsumerRecords
         /\ CloseBegin(r) \in ConsumerRecords
         /\ \A b \in BOOLEAN : DeriveContext(r, b) \in ConsumerRecords
         /\ Spawned(r) \in ConsumerRecords
         /\ ContextDone(r) \in ConsumerRecords
         /\ TakeStreams(r) \in ConsumerRecords
         /\ CloseStreams(r) \in ConsumerRecords
         /\ GiveNoStreams(c, r) \in ConsumerRecords
         /\ Unwind(r) \in ConsumerRecords
         /\ \A pkt \in Nat : Enqueue(r, pkt) \in ConsumerRecords
<1>1. SetLastError(c, r) \in ConsumerRecords
  BY DEF ConsumerRecords, SetLastError
<1>2. SetInactive(r) \in ConsumerRecords
  BY DEF ConsumerRecords, SetInactive
<1>3. CloseBegin(r) \in ConsumerRecords
  BY DEF ConsumerRecords, CloseBegin
<1>4. \A b \in BOOLEAN : DeriveContext(r, b) \in ConsumerRecords
  BY DEF ConsumerRecords, DeriveContext
<1>5. Spawned(r) \in ConsumerRecords
  BY DEF ConsumerRecords, ConsumerPC, Spawned
<1>6. ContextDone(r) \in ConsumerRecords
  BY DEF ConsumerRecords, ContextDone
<1>7. TakeStreams(r) \in ConsumerRecords
  BY DEF ConsumerRecords, ConsumerPC, TakeStreams
<1>8. CloseStreams(r) \in ConsumerRecords
  BY DEF ConsumerRecords, CloseStreams
<1>9. Unwind(r) \in ConsumerRecords
  BY DEF ConsumerRecords, ConsumerPC, Unwind
<1>10. \A pkt \in Nat : Enqueue(r, pkt) \in ConsumerRecords
  <2>1. \A pkt \in Nat : Append(r.queue, pkt) \in Seq(Nat)
    BY DEF ConsumerRecords
  <2> QED
    BY <2>1 DEF ConsumerRecords, Enqueue
<1>11. GiveNoStreams(c, r) \in ConsumerRecords
  BY <1>1 DEF ConsumerRecords, GiveNoStreams
<1> QED
  BY <1>1, <1>2, <1>3, <1>4, <1>5, <1>6, <1>7, <1>8, <1>9, <1>10, <1>11

(* The steps of a consumer goroutine. *)
LEMMA ConsumerStepType ==
  ASSUME ConsumerTypeOK, NEW c \in Consumers, ConsumerStep(c)
  PROVE  ConsumerTypeOK'
<1> USE DEF ConsumerTypeOK
<1>0. con[c] \in ConsumerRecords
  OBVIOUS
<1>1. CASE WaitCancelled(c)
  BY <1>0, <1>1, RecordOperations DEF WaitCancelled
<1>2. CASE WaitClosed(c)
  BY <1>0, <1>2, RecordOperations DEF WaitClosed
<1>3. CASE OpenMuxer(c)
  <2>1. [con[c] EXCEPT !.pc = "header", !.mux = "open"] \in ConsumerRecords
    BY <1>0 DEF ConsumerRecords, ConsumerPC, MuxStates
  <2> QED
    BY <1>0, <1>3, <2>1, RecordOperations DEF OpenMuxer
<1>4. CASE WriteMuxHeader(c)
  <2>1. [con[c] EXCEPT !.pc = "loop", !.mux = "header"] \in ConsumerRecords
    BY <1>0 DEF ConsumerRecords, ConsumerPC, MuxStates
  <2> QED
    BY <1>0, <1>4, <2>1, RecordOperations DEF WriteMuxHeader
<1>5. CASE LoopCancelled(c)
  BY <1>0, <1>5, RecordOperations DEF LoopCancelled
<1>6. CASE Dequeue(c)
  <2>1. /\ Tail(con[c].queue) \in Seq(Nat)
        /\ Append(con[c].written, Head(con[c].queue)) \in Seq(Nat)
    BY <1>0, <1>6 DEF ConsumerRecords, Dequeue
  <2>2. [con[c] EXCEPT !.pc = "write", !.queue = Tail(@),
                       !.written = Append(@, Head(con[c].queue))]
          \in ConsumerRecords
    BY <1>0, <2>1 DEF ConsumerRecords, ConsumerPC
  <2> QED
    BY <1>6, <2>2 DEF Dequeue
<1>7. CASE WriteMuxPacket(c)
  <2>1. [con[c] EXCEPT !.pc = "loop"] \in ConsumerRecords
    BY <1>0 DEF ConsumerRecords, ConsumerPC
  <2> QED
    BY <1>0, <1>7, <2>1, RecordOperations DEF WriteMuxPacket
<1>8. CASE CloseMuxer(c)
  BY <1>0, <1>8 DEF CloseMuxer, ConsumerRecords, ConsumerPC, MuxStates
<1>9. CASE RunMuxerRemover(c)
  BY <1>0, <1>9 DEF RunMuxerRemover, ConsumerRecords, ConsumerPC
<1> QED
  BY <1>1, <1>2, <1>3, <1>4, <1>5, <1>6, <1>7, <1>8, <1>9 DEF ConsumerStep

(* The main goroutine. *)
LEMMA MainType ==
  ASSUME prod \in [Producers -> ProducerRecords], NEW p \in Producers,
         MainStep(p)
  PROVE  prod' \in [Producers -> ProducerRecords]
<1>0. prod[p] \in ProducerRecords
  OBVIOUS
<1>1. CASE OpenDemuxer(p)
  BY <1>0, <1>1 DEF OpenDemuxer, ProducerRecords, ProducerPC
<1>2. CASE GetStreams(p)
  <2>1. [prod[p] EXCEPT !.pc = "loop", !.codecs = "ok", !.rd = "wait"]
          \in ProducerRecords
    BY <1>0 DEF ProducerRecords, ProducerPC, ReaderPC
  <2>2. [prod[p] EXCEPT !.pc = "loop", !.codecs = "empty", !.rd = "wait"]
          \in ProducerRecords
    BY <1>0 DEF ProducerRecords, ProducerPC, ReaderPC
  <2>3. [prod[p] EXCEPT !.pc = "exit", !.codecs = "err"] \in ProducerRecords
    BY <1>0 DEF ProducerRecords, ProducerPC
  <2> QED
    BY <1>2, <2>1, <2>2, <2>3 DEF GetStreams
<1>3. CASE SpawnConsumer(p)
  BY <1>0, <1>3 DEF SpawnConsumer, ProducerRecords, ProducerPC
<1>4. CASE ExitBegin(p)
  BY <1>0, <1>4 DEF ExitBegin, ProducerRecords, ProducerPC
<1>5. CASE CloseOne(p)
  BY <1>0, <1>5 DEF CloseOne, WaitingPC, ProducerRecords, ProducerPC
<1>6. CASE ClosedOne(p)
  <2>1. SweepingPC(prod[p].pc) \in ProducerPC
    BY DEF ProducerPC, SweepingPC
  <2>2. [prod[p] EXCEPT !.pc = SweepingPC(@), !.cur = None]
          \in ProducerRecords
    BY <1>0, <2>1 DEF ProducerRecords
  <2> QED
    BY <1>6, <2>2 DEF ClosedOne
<1>7. CASE SweepEnd(p)
  <2>1. Without(p, prod[p].snap) \in SUBSET Calls
    BY <1>0 DEF Without, ProducerRecords
  <2>2. [prod[p] EXCEPT !.pc = "loop", !.snap = {},
                        !.members = Without(p, prod[p].snap)]
          \in ProducerRecords
    BY <1>0, <2>1 DEF ProducerRecords, ProducerPC
  <2> QED
    BY <1>7, <2>2 DEF SweepEnd
<1>8. CASE ExitEnd(p)
  BY <1>0, <1>8 DEF ExitEnd, ProducerRecords, ProducerPC
<1>9. CASE RunDemuxerRemover(p)
  BY <1>0, <1>9 DEF RunDemuxerRemover, ProducerRecords, ProducerPC
<1>10. CASE CloseDemuxer(p)
  BY <1>0, <1>10 DEF CloseDemuxer, ProducerRecords, ProducerPC
<1>11. CASE Finish(p)
  BY <1>0, <1>11 DEF Finish, ProducerRecords, ProducerPC
<1>12. CASE SweepBegin(p)
  <2>1. Inactive(p) \in SUBSET Calls
    BY <1>0 DEF Inactive, ProducerRecords
  <2>2. [prod[p] EXCEPT !.pc = "sweep", !.snap = Inactive(p),
                        !.todo = Inactive(p)] \in ProducerRecords
    BY <1>0, <2>1 DEF ProducerRecords, ProducerPC
  <2> QED
    BY <1>12, <2>2 DEF SweepBegin
<1>13. CASE LoopExit(p)
  BY <1>0, <1>13 DEF LoopExit, ProducerRecords, ProducerPC
<1>14. CASE MainReceive(p)
  <2>1. PICK k \in Calls : ReceiveConsumer(p, k)
    BY <1>14 DEF MainReceive
  <2>2. [prod[p] EXCEPT !.pc = "starting", !.cur = k] \in ProducerRecords
    BY <1>0 DEF ProducerRecords, ProducerPC
  <2> QED
    BY <2>1, <2>2 DEF ReceiveConsumer
<1> QED
  BY <1>1, <1>2, <1>3, <1>4, <1>5, <1>6, <1>7, <1>8, <1>9, <1>10, <1>11,
     <1>12, <1>13, <1>14 DEF MainStep, MainWork

(* The read loop. *)
LEMMA ReaderType ==
  ASSUME prod \in [Producers -> ProducerRecords], NEW p \in Producers,
         ReaderStep(p)
  PROVE  prod' \in [Producers -> ProducerRecords]
<1>0. prod[p] \in ProducerRecords
  OBVIOUS
<1>1. CASE ReaderTick(p)
  BY <1>0, <1>1 DEF ReaderTick, ProducerRecords, ReaderPC
<1>2. CASE DeliverPacket(p)
  BY <1>0, <1>2 DEF DeliverPacket, ProducerRecords, ReaderPC
<1>3. CASE WriteDone(p)
  BY <1>0, <1>3 DEF WriteDone, ProducerRecords, ReaderPC
<1>4. CASE ReadPacket(p)
  <2>1. Active(p) \in SUBSET Calls
    BY <1>0 DEF Active, ProducerRecords
  <2>2. prod[p].pkts + 1 \in 0 .. MaxPackets
    BY <1>0, <1>4, ConsumerAssumption DEF ReadPacket, ProducerRecords
  <2>3. [prod[p] EXCEPT !.rd = "write", !.pkts = @ + 1, !.out = Active(p)]
          \in ProducerRecords
    BY <1>0, <2>1, <2>2 DEF ProducerRecords, ReaderPC
  <2> QED
    BY <1>4, <2>3 DEF ReadPacket
<1>5. CASE ReadError(p)
  BY <1>0, <1>5 DEF ReadError, ProducerRecords, ReaderPC
<1>6. CASE ReaderCancelled(p)
  BY <1>0, <1>6 DEF ReaderCancelled, ProducerRecords, ReaderPC
<1>7. CASE WriteCancelled(p)
  BY <1>0, <1>7 DEF WriteCancelled, ProducerRecords, ReaderPC
<1>8. CASE ReaderPick(p)
  BY <1>0, <1>8 DEF ReaderPick, PickTarget, ProducerRecords, ReaderPC
<1> QED
  BY <1>1, <1>2, <1>3, <1>4, <1>5, <1>6, <1>7, <1>8 DEF ReaderStep,
     ReaderWork, ReadReturns

(* Pause, Resume, and what the environment does. *)
LEMMA EnvType ==
  ASSUME prod \in [Producers -> ProducerRecords], NEW p \in Producers,
         Pause(p) \/ Resume(p) \/ EnvStart(p) \/ EnvClose(p) \/ EnvParentDone(p)
  PROVE  prod' \in [Producers -> ProducerRecords]
<1>0. prod[p] \in ProducerRecords
  OBVIOUS
<1>1. CASE Pause(p)
  BY <1>0, <1>1 DEF Pause, ProducerRecords, ProducerPC
<1>2. CASE Resume(p)
  <2> DEFINE b == prod[p].paused /\ prod[p].demuxer = "none"
  <2>1. [prod[p] EXCEPT !.paused = b] \in ProducerRecords
    <3> HIDE DEF b
    <3>1. b \in BOOLEAN
      BY DEF b
    <3> QED
      BY <1>0, <3>1 DEF ProducerRecords
  <2> QED
    BY <1>2, <2>1 DEF Resume
<1>3. CASE EnvStart(p)
  BY <1>0, <1>3 DEF EnvStart, Launch, ProducerRecords, ProducerPC
<1>4. CASE EnvClose(p)
  <2> DEFINE b == prod[p].ctxDone \/ Started(p)
  <2>1. [prod[p] EXCEPT !.closing = TRUE, !.ctxDone = b] \in ProducerRecords
    <3> HIDE DEF b
    <3>1. b \in BOOLEAN
      BY DEF b
    <3> QED
      BY <1>0, <3>1 DEF ProducerRecords
  <2> QED
    BY <1>4, <2>1 DEF EnvClose, ProducerCloseBegin
<1>5. CASE EnvParentDone(p)
  BY <1>0, <1>5 DEF EnvParentDone, ProducerRecords, ProducerPC
<1> QED
  BY <1>1, <1>2, <1>3, <1>4, <1>5

(* The consumers, in the steps that are not their own. *)
LEMMA NewConsumerType == NewConsumer \in ConsumerRecords
BY DEF NewConsumer, ConsumerRecords, ConsumerPC, MuxStates

LEMMA ConsumersType ==
  ASSUME ConsumerTypeOK, prod \in [Producers -> ProducerRecords],
         ProducerNext
  PROVE  ConsumerTypeOK'
<1> USE DEF ConsumerTypeOK
<1>1. ASSUME NEW p \in Producers, MainStep(p)
      PROVE  ConsumerTypeOK'
  <2>1. CASE SpawnConsumer(p)
    BY <2>1, RecordOperations DEF SpawnConsumer
  <2>2. CASE CloseOne(p)
    BY <2>2, RecordOperations DEF CloseOne
  <2>3. CASE Finish(p)
    BY <2>3, RecordOperations DEF Finish, CancelChildren
  <2>4. CASE MainReceive(p)
    <3>1. prod[p].ctxDone \in BOOLEAN
      BY DEF ProducerRecords
    <3>2. PICK k \in Calls : ReceiveConsumer(p, k)
      BY <2>4 DEF MainReceive
    <3>3. <<p, k>> \in Consumers
      BY ProducerAssumption
    <3>4. DeriveContext(con[<<p, k>>], prod[p].ctxDone) \in ConsumerRecords
      BY <3>1, <3>3, RecordOperations
    <3> QED
      BY <3>2, <3>4 DEF ReceiveConsumer
  <2>5. CASE UNCHANGED con
    BY <2>5
  <2> QED
    BY <1>1, <2>1, <2>2, <2>3, <2>4, <2>5
       DEF MainStep, MainWork, OpenDemuxer, GetStreams, ExitBegin, ClosedOne,
           SweepEnd, ExitEnd, RunDemuxerRemover, CloseDemuxer, SweepBegin,
           LoopExit
<1>2. ASSUME NEW p \in Producers, ReaderStep(p)
      PROVE  ConsumerTypeOK'
  <2>1. CASE DeliverPacket(p)
    <3>1. prod[p].pkts \in Nat
      BY ConsumerAssumption DEF ProducerRecords
    <3>2. \A c \in Consumers : Enqueue(con[c], prod[p].pkts) \in ConsumerRecords
      BY <3>1, RecordOperations
    <3> QED
      BY <2>1, <3>2 DEF DeliverPacket
  <2>2. CASE UNCHANGED con
    BY <2>2
  <2> QED
    BY <1>2, <2>1, <2>2
       DEF ReaderStep, ReaderWork, ReadReturns, ReaderTick, ReaderPick,
           PickTarget, WriteDone, ReadPacket, ReadError, ReaderCancelled,
           WriteCancelled
<1>3. ASSUME NEW k \in Calls, CallStep(k)
      PROVE  ConsumerTypeOK'
  <2>1. CASE InsertConsumer(k)
    BY <2>1, NewConsumerType DEF InsertConsumer
  <2>2. CASE AwaitCodecs(k)
    BY <2>2, RecordOperations DEF AwaitCodecs
  <2>3. CASE AwaitCodecsCancelled(k)
    BY <2>3, RecordOperations DEF AwaitCodecsCancelled
  <2>4. CASE SendCancelled(k)
    BY <2>4, RecordOperations DEF SendCancelled
  <2>5. CASE HandHeader(k)
    BY <2>5, RecordOperations DEF HandHeader
  <2>6. CASE HeaderNoStreams(k)
    BY <2>6, RecordOperations DEF HeaderNoStreams
  <2>7. CASE HeaderCancelled(k)
    BY <2>7, RecordOperations DEF HeaderCancelled
  <2>8. CASE UNCHANGED con
    BY <2>8
  <2> QED
    BY <1>3, <2>1, <2>2, <2>3, <2>4, <2>5, <2>6, <2>7, <2>8
       DEF CallStep, CallWork, CallCancelled, CheckClosing, CheckStarted
<1>4. ASSUME NEW r \in Removers, RemoverWork(r) \/ RemoverStart(r)
      PROVE  ConsumerTypeOK'
  <2>1. CASE RemoveClose(r)
    BY <2>1, RecordOperations DEF RemoveClose
  <2>2. CASE UNCHANGED con
    BY <2>2
  <2> QED
    BY <1>4, <2>1, <2>2
       DEF RemoverWork, RemoverStart, RemoveLookup, RemoveReturn
<1>5. ASSUME NEW c \in Consumers, ConsumerNext(c)
      PROVE  ConsumerTypeOK'
  BY <1>5, ConsumerStepType DEF ConsumerNext
<1>6. ASSUME NEW p \in Producers, EnvClose(p) \/ EnvParentDone(p)
      PROVE  ConsumerTypeOK'
  BY <1>6, RecordOperations
     DEF EnvClose, EnvParentDone, ProducerCloseBegin, CancelChildren
<1>7. ASSUME UNCHANGED con
      PROVE  ConsumerTypeOK'
  BY <1>7
<1> QED
  BY <1>1, <1>2, <1>3, <1>4, <1>5, <1>6, <1>7
     DEF ProducerNext, ProducerSteps, Pause, Resume, CancelCall, EnvStart,
         EnvCall

(***************************************************************************)
(* What the steps leave alone.                                             *)
(***************************************************************************)
LEMMA MainFrame ==
  ASSUME NEW p \in Producers, MainStep(p)
  PROVE  UNCHANGED rem /\ (MainReceive(p) \/ UNCHANGED call)
<1>1. CASE OpenDemuxer(p)
  BY <1>1 DEF OpenDemuxer
<1>2. CASE GetStreams(p)
  BY <1>2 DEF GetStreams
<1>3. CASE SpawnConsumer(p)
  BY <1>3 DEF SpawnConsumer
<1>4. CASE ExitBegin(p)
  BY <1>4 DEF ExitBegin
<1>5. CASE CloseOne(p)
  BY <1>5 DEF CloseOne
<1>6. CASE ClosedOne(p)
  BY <1>6 DEF ClosedOne
<1>7. CASE SweepEnd(p)
  BY <1>7 DEF SweepEnd
<1>8. CASE ExitEnd(p)
  BY <1>8 DEF ExitEnd
<1>9. CASE RunDemuxerRemover(p)
  BY <1>9 DEF RunDemuxerRemover
<1>10. CASE CloseDemuxer(p)
  BY <1>10 DEF CloseDemuxer
<1>11. CASE Finish(p)
  BY <1>11 DEF Finish
<1>12. CASE SweepBegin(p)
  BY <1>12 DEF SweepBegin
<1>13. CASE LoopExit(p)
  BY <1>13 DEF LoopExit
<1>14. CASE MainReceive(p)
  BY <1>14 DEF MainReceive, ReceiveConsumer
<1> QED
  BY <1>1, <1>2, <1>3, <1>4, <1>5, <1>6, <1>7, <1>8, <1>9, <1>10, <1>11,
     <1>12, <1>13, <1>14 DEF MainStep, MainWork

LEMMA ReaderFrame ==
  ASSUME NEW p \in Producers, ReaderStep(p)
  PROVE  UNCHANGED <<call, rem>>
<1>1. CASE ReaderTick(p)
  BY <1>1 DEF ReaderTick
<1>2. CASE DeliverPacket(p)
  BY <1>2 DEF DeliverPacket
<1>3. CASE WriteDone(p)
  BY <1>3 DEF WriteDone
<1>4. CASE ReadPacket(p)
  BY <1>4 DEF ReadPacket
<1>5. CASE ReadError(p)
  BY <1>5 DEF ReadError
<1>6. CASE ReaderCancelled(p)
  BY <1>6 DEF ReaderCancelled
<1>7. CASE WriteCancelled(p)
  BY <1>7 DEF WriteCancelled
<1>8. CASE ReaderPick(p)
  BY <1>8 DEF ReaderPick, PickTarget
<1> QED
  BY <1>1, <1>2, <1>3, <1>4, <1>5, <1>6, <1>7, <1>8
     DEF ReaderStep, ReaderWork, ReadReturns

LEMMA CallFrame ==
  ASSUME NEW k \in Calls, CallStep(k)
  PROVE  UNCHANGED rem /\ (InsertConsumer(k) \/ UNCHANGED prod)
<1>1. CASE CheckClosing(k)
  BY <1>1 DEF CheckClosing
<1>2. CASE CheckStarted(k)
  BY <1>2 DEF CheckStarted
<1>3. CASE InsertConsumer(k)
  BY <1>3 DEF InsertConsumer
<1>4. CASE AwaitCodecs(k)
  BY <1>4 DEF AwaitCodecs
<1>5. CASE AwaitCodecsCancelled(k)
  BY <1>5 DEF AwaitCodecsCancelled
<1>6. CASE SendCancelled(k)
  BY <1>6 DEF SendCancelled
<1>7. CASE HandHeader(k)
  BY <1>7 DEF HandHeader
<1>8. CASE HeaderNoStreams(k)
  BY <1>8 DEF HeaderNoStreams
<1>9. CASE HeaderCancelled(k)
  BY <1>9 DEF HeaderCancelled
<1> QED
  BY <1>1, <1>2, <1>3, <1>4, <1>5, <1>6, <1>7, <1>8, <1>9
     DEF CallStep, CallWork, CallCancelled

(* The frames of the calls. *)
LEMMA CallsType ==
  ASSUME call \in [Calls -> CallRecords], ProducerNext
  PROVE  call' \in [Calls -> CallRecords]
<1>1. ASSUME NEW k \in Calls, CallStep(k)
      PROVE  call' \in [Calls -> CallRecords]
  <2>1. \A res \in Results : Return(k, res) \in [Calls -> CallRecords]
    BY DEF Return, CallRecords, CallPC
  <2>2. \A pc \in CallPC : [call EXCEPT ![k].pc = pc] \in [Calls -> CallRecords]
    BY DEF CallRecords
  <2>3. /\ "closing" \in Results /\ "notStarted" \in Results
        /\ "codecsErr" \in Results /\ "exists" \in Results
        /\ "ctx" \in Results /\ "ok" \in Results
        /\ "chkStarted" \in CallPC /\ "insert" \in CallPC
        /\ "getCodecs" \in CallPC /\ "send" \in CallPC
    BY DEF Results, CallPC
  <2>4. CASE CheckClosing(k)
    BY <2>1, <2>2, <2>3, <2>4 DEF CheckClosing
  <2>5. CASE CheckStarted(k)
    BY <2>1, <2>2, <2>3, <2>5 DEF CheckStarted
  <2>6. CASE InsertConsumer(k)
    BY <2>1, <2>2, <2>3, <2>6 DEF InsertConsumer
  <2>7. CASE AwaitCodecs(k)
    BY <2>1, <2>2, <2>3, <2>7 DEF AwaitCodecs
  <2>8. CASE AwaitCodecsCancelled(k)
    BY <2>1, <2>3, <2>8 DEF AwaitCodecsCancelled
  <2>9. CASE SendCancelled(k) \/ HandHeader(k)
    BY <2>1, <2>3, <2>9 DEF SendCancelled, HandHeader
  <2>10. CASE HeaderNoStreams(k) \/ HeaderCancelled(k)
    BY <2>1, <2>3, <2>10 DEF HeaderNoStreams, HeaderCancelled
  <2> QED
    BY <1>1, <2>4, <2>5, <2>6, <2>7, <2>8, <2>9, <2>10
       DEF CallStep, CallWork, CallCancelled
<1>2. ASSUME NEW k \in Calls, CancelCall(k)
      PROVE  call' \in [Calls -> CallRecords]
  BY <1>2 DEF CancelCall, CallRecords
<1>3. ASSUME NEW k \in Calls, NEW p \in Producers,
             EnvCall(k, p) \/ ReceiveConsumer(p, k)
      PROVE  call' \in [Calls -> CallRecords]
  BY <1>3 DEF EnvCall, ReceiveConsumer, CallRecords, CallPC
<1>4. ASSUME UNCHANGED call
      PROVE  call' \in [Calls -> CallRecords]
  BY <1>4
<1>5. ASSUME NEW p \in Producers, MainStep(p)
      PROVE  call' \in [Calls -> CallRecords]
  BY <1>3, <1>4, <1>5, MainFrame DEF MainReceive
<1> QED
  BY <1>1, <1>2, <1>3, <1>4, <1>5, ReaderFrame
     DEF ProducerNext, ProducerSteps, Pause, Resume, RemoverWork,
         RemoverStart, RemoveLookup, RemoveClose, RemoveReturn, ConsumerNext,
         EnvStart, EnvClose, EnvParentDone

(* The frames of the RemoveConsumer calls. *)
LEMMA RemoversType ==
  ASSUME rem \in [Removers -> RemoverRecords], ProducerNext
  PROVE  rem' \in [Removers -> RemoverRecords]
<1>1. ASSUME NEW r \in Removers, RemoverWork(r)
      PROVE  rem' \in [Removers -> RemoverRecords]
  BY <1>1 DEF RemoverRecords, RemoverWork, RemoveClose, RemoveReturn
<1>2. ASSUME NEW r \in Removers, RemoverStart(r)
      PROVE  rem' \in [Removers -> RemoverRecords]
  BY <1>2, ProducerAssumption DEF RemoverRecords, RemoverStart, RemoveLookup
<1>3. ASSUME UNCHANGED rem
      PROVE  rem' \in [Removers -> RemoverRecords]
  BY <1>3
<1> QED
  BY <1>1, <1>2, <1>3, MainFrame, ReaderFrame, CallFrame
     DEF ProducerNext, ProducerSteps, Pause, Resume, ConsumerNext, CancelCall,
         EnvStart, EnvClose, EnvParentDone, EnvCall

(* The producers. *)
LEMMA ProducersType ==
  ASSUME prod \in [Producers -> ProducerRecords], ProducerNext
  PROVE  prod' \in [Producers -> ProducerRecords]
<1>1. ASSUME NEW k \in Calls, InsertConsumer(k)
      PROVE  prod' \in [Producers -> ProducerRecords]
  <2>1. CASE UNCHANGED prod
    BY <2>1
  <2>2. CASE prod' = [prod EXCEPT ![call[k].prod].members = @ \cup {k}]
    <3>1. ASSUME NEW p \in Producers
          PROVE  [prod[p] EXCEPT !.members = @ \cup {k}] \in ProducerRecords
      <4>1. prod[p].members \cup {k} \in SUBSET Calls
        BY DEF ProducerRecords
      <4> QED
        BY <4>1 DEF ProducerRecords
    <3> QED
      BY <2>2, <3>1
  <2> QED
    BY <1>1, <2>1, <2>2 DEF InsertConsumer
<1>2. ASSUME UNCHANGED prod
      PROVE  prod' \in [Producers -> ProducerRecords]
  BY <1>2
<1> QED
  BY <1>1, <1>2, MainType, ReaderType, EnvType, CallFrame
     DEF ProducerNext, ProducerSteps, RemoverWork, RemoverStart, RemoveLookup,
         RemoveClose, RemoveReturn, ConsumerNext, CancelCall, EnvCall

LEMMA TypeInit == ProducerInit => ProducerTypeOK
<1> SUFFICES ASSUME ProducerInit PROVE ProducerTypeOK
  OBVIOUS
<1>1. ConsumerTypeOK
  BY NewConsumerType DEF ProducerInit, ConsumerInit, ConsumerTypeOK
<1>2. NewProducer \in ProducerRecords
  BY ConsumerAssumption
     DEF NewProducer, ProducerRecords, ProducerPC, ReaderPC
<1>3. prod \in [Producers -> ProducerRecords]
  BY <1>2 DEF ProducerInit
<1>4. call \in [Calls -> CallRecords] /\ rem \in [Removers -> RemoverRecords]
  BY DEF ProducerInit, CallRecords, CallPC, RemoverRecords
<1> QED
  BY <1>1, <1>3, <1>4 DEF ProducerTypeOK

LEMMA TypeStep ==
  ASSUME ProducerTypeOK, [ProducerNext]_pvars
  PROVE  ProducerTypeOK'
<1>1. CASE ProducerNext
  BY <1>1, ConsumersType, ProducersType, CallsType, RemoversType
     DEF ProducerTypeOK
<1>2. CASE UNCHANGED pvars
  BY <1>2 DEF pvars, ProducerTypeOK, ConsumerTypeOK
<1> QED
  BY <1>1, <1>2

(* Every variable always has its type. *)
THEOREM TypeCorrect == ProducerSpec => []ProducerTypeOK
BY TypeInit, TypeStep, PTL DEF ProducerSpec

(***************************************************************************)
(* The membership invariant depends on some fields of the records only.    *)
(* Most steps leave them alone or move one program counter; each of the    *)
(* lemmas below says so of a group of steps, and the rest of the proof     *)
(* looks at those groups, and at the actions that do more, one at a time.  *)
(***************************************************************************)
SameFields(r, s) ==
  /\ s.pc = r.pc
  /\ s.cancel = r.cancel
  /\ s.closing = r.closing
  /\ s.late = r.late
  /\ s.mux = r.mux

SameCon(c) == SameFields(con[c], con'[c])

SameCons == \A c \in Consumers : SameCon(c)

SameSets(p) ==
  /\ prod'[p].members = prod[p].members
  /\ prod'[p].snap = prod[p].snap
  /\ prod'[p].todo = prod[p].todo
  /\ prod'[p].cur = prod[p].cur

SameProd(p) == SameSets(p) /\ prod'[p].pc = prod[p].pc

SameProds == \A p \in Producers : SameProd(p)

SameCall(k) == call'[k].pc = call[k].pc /\ call'[k].prod = call[k].prod

SameCalls == \A k \in Calls : SameCall(k)

Neutral == SameCons /\ SameProds /\ SameCalls /\ UNCHANGED rem

(* The fields that the operations on a consumer leave alone. *)
LEMMA RecordFields ==
  ASSUME NEW c \in Consumers, NEW r \in ConsumerRecords
  PROVE  /\ SameFields(r, r)
         /\ SameFields(r, SetLastError(c, r))
         /\ SameFields(r, SetInactive(r))
         /\ SameFields(r, ContextDone(r))
         /\ SameFields(r, CloseStreams(r))
         /\ SameFields(r, GiveNoStreams(c, r))
         /\ \A pkt \in Nat : SameFields(r, Enqueue(r, pkt))
BY DEF ConsumerRecords, SameFields, SetLastError, SetInactive, ContextDone,
       CloseStreams, GiveNoStreams, Enqueue

LEMMA Stays ==
  /\ UNCHANGED con => SameCons
  /\ UNCHANGED prod => SameProds
  /\ UNCHANGED call => SameCalls
BY DEF SameCons, SameCon, SameFields, SameProds, SameProd, SameSets,
       SameCalls, SameCall

(* One consumer is changed, and not in those fields. *)
LEMMA OneConsumer ==
  ASSUME ConsumerTypeOK, NEW c \in Consumers, NEW r, SameFields(con[c], r),
         con' = [con EXCEPT ![c] = r]
  PROVE  SameCons
BY RecordFields DEF ConsumerTypeOK, SameCons, SameCon

LEMMA CancelSame ==
  ASSUME ConsumerTypeOK, NEW p \in Producers, con' = CancelChildren(p)
  PROVE  SameCons
<1>1. ASSUME NEW c \in Consumers PROVE SameFields(con[c], con'[c])
  <2>1. con[c] \in ConsumerRecords
    BY DEF ConsumerTypeOK
  <2>2. con'[c] = ContextDone(con[c]) \/ con'[c] = con[c]
    BY DEF CancelChildren
  <2> QED
    BY <2>1, <2>2, RecordFields
<1> QED
  BY <1>1 DEF SameCons, SameCon

LEMMA ReaderNeutral ==
  ASSUME ProducerTypeOK, NEW p \in Producers, ReaderStep(p)
  PROVE  Neutral
<1> USE DEF ProducerTypeOK
<1>1. SameCalls /\ UNCHANGED rem
  BY ReaderFrame, Stays
<1>2. SameProds
  <2> USE DEF SameProds, SameProd, SameSets
  <2>1. CASE ReaderTick(p)
    BY <2>1 DEF ReaderTick, ProducerRecords
  <2>2. CASE ReaderPick(p)
    BY <2>2 DEF ReaderPick, PickTarget, ProducerRecords
  <2>3. CASE DeliverPacket(p)
    BY <2>3 DEF DeliverPacket, ProducerRecords
  <2>4. CASE WriteDone(p)
    BY <2>4 DEF WriteDone, ProducerRecords
  <2>5. CASE ReadPacket(p)
    BY <2>5 DEF ReadPacket, ProducerRecords
  <2>6. CASE ReadError(p)
    BY <2>6 DEF ReadError, ProducerRecords
  <2>7. CASE ReaderCancelled(p)
    BY <2>7 DEF ReaderCancelled, ProducerRecords
  <2>8. CASE WriteCancelled(p)
    BY <2>8 DEF WriteCancelled, ProducerRecords
  <2> QED
    BY <2>1, <2>2, <2>3, <2>4, <2>5, <2>6, <2>7, <2>8
       DEF ReaderStep, ReaderWork, ReadReturns
<1>3. SameCons
  <2>1. CASE DeliverPacket(p)
    <3> DEFINE c == <<p, prod[p].tgt>>
    <3>1. c \in Consumers
      BY <2>1, ProducerAssumption DEF DeliverPacket, ProducerRecords
    <3>2. prod[p].pkts \in Nat
      BY ConsumerAssumption DEF ProducerRecords
    <3>3. con' = [con EXCEPT ![c] = Enqueue(con[c], prod[p].pkts)]
      BY <2>1 DEF DeliverPacket
    <3>4. SameFields(con[c], Enqueue(con[c], prod[p].pkts))
      BY <3>1, <3>2, RecordFields DEF ConsumerTypeOK
    <3> QED
      BY <3>1, <3>3, <3>4, OneConsumer
  <2>2. CASE UNCHANGED con
    BY <2>2, Stays
  <2> QED
    BY <2>1, <2>2
       DEF ReaderStep, ReaderWork, ReadReturns, ReaderTick, ReaderPick,
           PickTarget, WriteDone, ReadPacket, ReadError, ReaderCancelled,
           WriteCancelled
<1> QED
  BY <1>1, <1>2, <1>3 DEF Neutral

LEMMA EnvNeutral ==
  ASSUME ProducerTypeOK, NEW p \in Producers,
         Pause(p) \/ Resume(p) \/ EnvClose(p) \/ EnvParentDone(p)
  PROVE  Neutral
<1> USE DEF ProducerTypeOK
<1>1. SameCalls /\ UNCHANGED rem
  BY Stays DEF Pause, Resume, EnvClose, EnvParentDone
<1>2. SameProds
  BY DEF Pause, Resume, EnvClose, EnvParentDone, ProducerCloseBegin,
         ProducerRecords, SameProds, SameProd, SameSets
<1>3. con' = CancelChildren(p) \/ UNCHANGED con
  BY DEF Pause, Resume, EnvClose, EnvParentDone, ProducerCloseBegin
<1> QED
  BY <1>1, <1>2, <1>3, CancelSame, Stays DEF Neutral

(* Steps of the main goroutine, and its start, that move its counter only. *)
Moves ==
  {<<"none", "factory">>, <<"factory", "codecs">>, <<"factory", "finish">>,
   <<"codecs", "loop">>, <<"codecs", "exit">>, <<"loop", "exit">>,
   <<"remover", "demClose">>, <<"demClose", "finish">>, <<"finish", "done">>}

MainMoves(p) ==
  /\ <<prod[p].pc, prod'[p].pc>> \in Moves
  /\ SameSets(p)
  /\ \A q \in Producers \ {p} : SameProd(q)
  /\ SameCons /\ SameCalls /\ UNCHANGED rem

LEMMA MainMovesOnly ==
  ASSUME ProducerTypeOK, NEW p \in Producers,
         \/ OpenDemuxer(p) \/ GetStreams(p) \/ LoopExit(p) \/ EnvStart(p)
         \/ RunDemuxerRemover(p) \/ CloseDemuxer(p) \/ Finish(p)
  PROVE  MainMoves(p)
<1> DEFINE Moved == /\ <<prod[p].pc, prod'[p].pc>> \in Moves
                    /\ SameSets(p)
                    /\ \A q \in Producers \ {p} : SameProd(q)
<1> USE DEF ProducerTypeOK
<1>1. CASE OpenDemuxer(p)
  BY <1>1, Stays DEF OpenDemuxer, Moves, SameProd, SameSets, ProducerRecords,
                     MainMoves
<1>2. CASE GetStreams(p)
  BY <1>2, Stays DEF GetStreams, Moves, SameProd, SameSets, ProducerRecords,
                     MainMoves
<1>3. CASE LoopExit(p)
  BY <1>3, Stays DEF LoopExit, Moves, SameProd, SameSets, ProducerRecords,
                     MainMoves
<1>4. CASE EnvStart(p)
  BY <1>4, Stays DEF EnvStart, Launch, Started, Moves, SameProd, SameSets,
                     ProducerRecords, MainMoves
<1>5. CASE RunDemuxerRemover(p)
  BY <1>5, Stays DEF RunDemuxerRemover, Moves, SameProd, SameSets,
                     ProducerRecords, MainMoves
<1>6. CASE CloseDemuxer(p)
  BY <1>6, Stays DEF CloseDemuxer, Moves, SameProd, SameSets,
                     ProducerRecords, MainMoves
<1>7. CASE Finish(p)
  <2>1. Moved
    BY <1>7 DEF Finish, Moves, SameProd, SameSets, ProducerRecords
  <2>2. SameCons /\ SameCalls /\ UNCHANGED rem
    BY <1>7, CancelSame, Stays DEF Finish
  <2> QED
    BY <2>1, <2>2 DEF MainMoves
<1> QED
  BY <1>1, <1>2, <1>3, <1>4, <1>5, <1>6, <1>7

(* Steps of a call that move its counter only. *)
CallMovesPairs ==
  {<<"chkClosing", "chkStarted">>, <<"chkClosing", "ret">>,
   <<"chkStarted", "insert">>, <<"chkStarted", "ret">>, <<"insert", "ret">>,
   <<"getCodecs", "send">>, <<"getCodecs", "ret">>, <<"send", "ret">>,
   <<"header", "ret">>}

(* A call begins on a producer to which it has not added a consumer before.  *)
Begins(k) ==
  /\ call'[k].pc = "chkClosing" /\ call'[k].prod \in Producers
  /\ Unstarted(<<call'[k].prod, k>>)

CallMoves(k) ==
  /\ \/ <<call[k].pc, call'[k].pc>> \in CallMovesPairs
        /\ call'[k].prod = call[k].prod
     \/ call'[k].pc = "idle"
     \/ call[k].pc = "idle" /\ Begins(k)
  /\ \A j \in Calls \ {k} : SameCall(j)
  /\ SameCons /\ SameProds /\ UNCHANGED rem

(* A call past the insertion works on a consumer of its own producer. *)
CallsHaveProducers ==
  \A k \in Calls : call[k].pc # "idle" => call[k].prod \in Producers

LEMMA CallMovesOnly ==
  ASSUME ProducerTypeOK, CallsHaveProducers, NEW k \in Calls,
         \/ CheckClosing(k) \/ CheckStarted(k) \/ AwaitCodecs(k)
         \/ AwaitCodecsCancelled(k) \/ SendCancelled(k) \/ HeaderNoStreams(k)
         \/ HeaderCancelled(k)
         \/ InsertConsumer(k) /\ HasId(call[k].prod, IdOf[k])
  PROVE  CallMoves(k)
<1> USE DEF ProducerTypeOK
<1> DEFINE c == <<call[k].prod, k>>
<1>1. ASSUME NEW r, call' = Return(k, r)
      PROVE  /\ call'[k].pc = "ret" /\ call'[k].prod = call[k].prod
             /\ \A j \in Calls \ {k} : SameCall(j)
  BY <1>1 DEF Return, CallRecords, SameCall
<1>2. ASSUME NEW pc, call' = [call EXCEPT ![k].pc = pc]
      PROVE  /\ call'[k].pc = pc /\ call'[k].prod = call[k].prod
             /\ \A j \in Calls \ {k} : SameCall(j)
  BY <1>2 DEF CallRecords, SameCall
<1>3. UNCHANGED con => SameCons
  BY Stays
<1>4. UNCHANGED prod => SameProds
  BY Stays
<1>5. call[k].pc # "idle" => c \in Consumers /\ con[c] \in ConsumerRecords
  BY ProducerAssumption DEF CallsHaveProducers, ConsumerTypeOK
<1>6. CASE CheckClosing(k)
  BY <1>1, <1>2, <1>3, <1>4, <1>6 DEF CheckClosing, CallMoves, CallMovesPairs
<1>7. CASE CheckStarted(k)
  BY <1>1, <1>2, <1>3, <1>4, <1>7 DEF CheckStarted, CallMoves, CallMovesPairs
<1>8. CASE AwaitCodecs(k)
  <2>1. con' = [con EXCEPT ![c] = SetLastError(c, con[c])] \/ UNCHANGED con
    BY <1>8 DEF AwaitCodecs
  <2>2. SameCons
    BY <1>3, <1>5, <1>8, <2>1, RecordFields, OneConsumer DEF AwaitCodecs
  <2> QED
    BY <1>1, <1>2, <1>4, <1>8, <2>2 DEF AwaitCodecs, CallMoves, CallMovesPairs
<1>9. CASE AwaitCodecsCancelled(k)
  <2>1. con' = [con EXCEPT ![c] = SetLastError(c, con[c])] \/ UNCHANGED con
    BY <1>9 DEF AwaitCodecsCancelled
  <2>2. SameCons
    BY <1>3, <1>5, <1>9, <2>1, RecordFields, OneConsumer
       DEF AwaitCodecsCancelled
  <2> QED
    BY <1>1, <1>2, <1>4, <1>9, <2>2
       DEF AwaitCodecsCancelled, CallMoves, CallMovesPairs
<1>10. CASE SendCancelled(k)
  <2>1. con' = [con EXCEPT ![c] = SetInactive(con[c])] \/ UNCHANGED con
    BY <1>10 DEF SendCancelled
  <2>2. SameCons
    BY <1>3, <1>5, <1>10, <2>1, RecordFields, OneConsumer DEF SendCancelled
  <2> QED
    BY <1>1, <1>2, <1>4, <1>10, <2>2
       DEF SendCancelled, CallMoves, CallMovesPairs
<1>11. CASE HeaderNoStreams(k)
  <2>1. con' = [con EXCEPT ![c] = GiveNoStreams(c, con[c])] \/ UNCHANGED con
    BY <1>11 DEF HeaderNoStreams
  <2>2. c \in Consumers /\ con[c] \in ConsumerRecords
    BY <1>5, <1>11 DEF HeaderNoStreams
  <2>3. SameFields(con[c], GiveNoStreams(c, con[c]))
    BY <2>2, RecordFields
  <2>4. SameCons
    BY <1>3, <2>1, <2>2, <2>3, OneConsumer
  <2> QED
    BY <1>1, <1>4, <1>11, <2>4 DEF HeaderNoStreams, CallMoves, CallMovesPairs
<1>12. CASE HeaderCancelled(k)
  <2>1. con' = [con EXCEPT ![c] = CloseStreams(con[c])] \/ UNCHANGED con
    BY <1>12 DEF HeaderCancelled
  <2>2. SameCons
    BY <1>3, <1>5, <1>12, <2>1, RecordFields, OneConsumer DEF HeaderCancelled
  <2> QED
    BY <1>1, <1>2, <1>4, <1>12, <2>2
       DEF HeaderCancelled, CallMoves, CallMovesPairs
<1>13. CASE InsertConsumer(k) /\ HasId(call[k].prod, IdOf[k])
  BY <1>1, <1>3, <1>4, <1>13 DEF InsertConsumer, CallMoves, CallMovesPairs
<1> QED
  BY <1>6, <1>7, <1>8, <1>9, <1>10, <1>11, <1>12, <1>13

(***************************************************************************)
(* Steps that neither start, close nor insert a consumer.                  *)
(***************************************************************************)
ConKept(c) ==
  /\ con'[c].cancel = con[c].cancel
  /\ con'[c].closing = con[c].closing
  /\ con'[c].late = con[c].late
  /\ (con'[c].pc = "none") <=> (con[c].pc = "none")
  /\ con[c].pc = "done" => con'[c].pc = "done"

ConsKept == \A c \in Consumers : ConKept(c)

CallAdvances(k) ==
  \/ SameCall(k)
  \/ /\ <<call[k].pc, call'[k].pc>> \in CallMovesPairs
     /\ call'[k].prod = call[k].prod
  \/ call'[k].pc = "idle"
  \/ call[k].pc = "idle" /\ Begins(k)

CallsAdvance == \A k \in Calls : CallAdvances(k)

(* What those steps leave as it is. *)
LEMMA KeptPredicates ==
  ASSUME ConsKept, UNCHANGED rem
  PROVE  \A c \in Consumers :
           /\ Unstarted(c)' <=> Unstarted(c)
           /\ Running(c)' => Running(c)
           /\ Detached(c)' <=> Detached(c)
           /\ con'[c].closing = con[c].closing
<1> SUFFICES ASSUME NEW c \in Consumers
             PROVE  /\ Unstarted(c)' <=> Unstarted(c)
                    /\ Running(c)' => Running(c)
                    /\ Detached(c)' <=> Detached(c)
                    /\ con'[c].closing = con[c].closing
  OBVIOUS
<1>1. ConKept(c)
  BY DEF ConsKept
<1>2. Closers(c)' = Closers(c)
  BY DEF Closers
<1> QED
  BY <1>1, <1>2 DEF ConKept, Unstarted, Running, Detached

LEMMA SameConsKept == SameCons => ConsKept
BY DEF SameCons, SameCon, SameFields, ConsKept, ConKept

LEMMA SameConsMuxers == SameCons /\ OpenMuxerRuns => OpenMuxerRuns'
BY DEF SameCons, SameCon, SameFields, OpenMuxerRuns, MuxOpen

LEMMA KeepsMembership ==
  ASSUME ProducerTypeOK, MapInv, ConsKept, OpenMuxerRuns', SameProds,
         CallsAdvance, UNCHANGED rem
  PROVE  MapInv'
<1> USE DEF MapInv
<1>1. \A p \in Producers, k \in Calls : <<p, k>> \in Consumers
  BY ProducerAssumption
<1>2. \A p \in Producers : prod[p].members \subseteq Calls
  BY DEF ProducerTypeOK, ProducerRecords
<1>3. \A p \in Producers :
        /\ prod'[p].members = prod[p].members
        /\ prod'[p].snap = prod[p].snap
        /\ prod'[p].todo = prod[p].todo
        /\ prod'[p].cur = prod[p].cur
        /\ prod'[p].pc = prod[p].pc
  BY DEF SameProds, SameProd, SameSets
<1>4. UniqueIds'
  BY <1>3 DEF UniqueIds
<1>5. QuietMembers'
  BY <1>1, <1>2, <1>3, KeptPredicates DEF QuietMembers
<1>6. FreshByCall'
  BY <1>1, KeptPredicates
     DEF FreshByCall, CallsAdvance, CallAdvances, Begins, SameCall,
         CallMovesPairs
<1>7. SweepProgress'
  <2> SUFFICES ASSUME NEW p \in Producers
               PROVE  /\ prod[p].pc \in Sweeping =>
                           /\ prod[p].todo \subseteq prod[p].snap
                           /\ prod[p].snap \subseteq prod[p].members
                           /\ \A k \in prod[p].snap \ prod[p].todo :
                                con'[<<p, k>>].closing
                      /\ prod[p].pc \in Waiting => prod[p].cur \in prod[p].snap
                      /\ prod[p].pc = "starting" =>
                           /\ prod[p].cur \in Calls
                           /\ con'[<<p, prod[p].cur>>].pc = "none"
                           /\ con'[<<p, prod[p].cur>>].cancel
                      /\ prod[p].pc \in {"exitSweep", "exitWait"} =>
                           \A k \in prod[p].members \ prod[p].snap :
                             Unstarted(<<p, k>>)'
    BY <1>3 DEF SweepProgress
  <2> QED
    BY <1>1, <1>2, KeptPredicates DEF SweepProgress, ConsKept, ConKept
<1>8. LostIsClosing'
  BY <1>1, <1>3, KeptPredicates
     DEF LostIsClosing, Inserted, CallsAdvance, CallAdvances, Begins,
         SameCall, CallMovesPairs
<1>9. ClosingIsAwaited'
  BY <1>1, <1>3, KeptPredicates DEF ClosingIsAwaited
<1>10. RunningIsFound'
  BY <1>1, <1>3, KeptPredicates DEF RunningIsFound
<1> QED
  BY <1>4, <1>5, <1>6, <1>7, <1>8, <1>9, <1>10

LEMMA MainMovesKeep ==
  ASSUME ProducerTypeOK, MapInv, NEW p \in Producers, MainMoves(p)
  PROVE  MapInv'
<1> USE DEF MapInv, MainMoves
<1>1. \A q \in Producers, k \in Calls : <<q, k>> \in Consumers
  BY ProducerAssumption
<1>2. \A q \in Producers : prod[q].members \subseteq Calls
  BY DEF ProducerTypeOK, ProducerRecords
<1>3. \A q \in Producers :
        /\ prod'[q].members = prod[q].members
        /\ prod'[q].snap = prod[q].snap
        /\ prod'[q].todo = prod[q].todo
        /\ prod'[q].cur = prod[q].cur
        /\ q # p => prod'[q].pc = prod[q].pc
  BY DEF SameProd, SameSets
<1>4. ConsKept /\ OpenMuxerRuns'
  BY SameConsKept, SameConsMuxers
<1>5. UniqueIds'
  BY <1>3 DEF UniqueIds
<1>6. QuietMembers'
  BY <1>1, <1>2, <1>3, <1>4, KeptPredicates
     DEF QuietMembers, Moves, ShutDown
<1>7. FreshByCall'
  BY <1>1, <1>4, KeptPredicates DEF FreshByCall, SameCalls, SameCall
<1>8. SweepProgress'
  <2>1. ASSUME NEW q \in Producers \ {p}
        PROVE  /\ prod'[q].pc \in Sweeping =>
                    /\ prod'[q].todo \subseteq prod'[q].snap
                    /\ prod'[q].snap \subseteq prod'[q].members
                    /\ \A k \in prod'[q].snap \ prod'[q].todo :
                         con'[<<q, k>>].closing
               /\ prod'[q].pc \in Waiting => prod'[q].cur \in prod'[q].snap
               /\ prod'[q].pc = "starting" =>
                    /\ prod'[q].cur \in Calls
                    /\ con'[<<q, prod'[q].cur>>].pc = "none"
                    /\ con'[<<q, prod'[q].cur>>].cancel
               /\ prod'[q].pc \in {"exitSweep", "exitWait"} =>
                    \A k \in prod'[q].members \ prod'[q].snap :
                      Unstarted(<<q, k>>)'
    BY <1>1, <1>2, <1>3, <1>4, KeptPredicates
       DEF SweepProgress, ConsKept, ConKept
  <2>2. prod'[p].pc \notin Sweeping \cup Waiting \cup {"starting"}
    BY DEF Moves, Sweeping, Waiting
  <2> QED
    BY <2>1, <2>2 DEF SweepProgress, Sweeping, Waiting
<1>9. LostIsClosing'
  BY <1>1, <1>3, <1>4, KeptPredicates
     DEF LostIsClosing, Inserted, SameCalls, SameCall, Moves, ShutDown
<1>10. ClosingIsAwaited'
  BY <1>1, <1>3, <1>4, KeptPredicates DEF ClosingIsAwaited, Moves, Waiting
<1>11. RunningIsFound'
  <2> SUFFICES ASSUME NEW q \in Producers, NEW k \in Calls,
                      Running(<<q, k>>), ~Detached(<<q, k>>)
               PROVE  prod'[q].pc \notin ShutDown /\ k \in prod'[q].members
    BY <1>1, <1>4, KeptPredicates DEF RunningIsFound
  <2>1. prod[q].pc \notin ShutDown /\ k \in prod[q].members
    BY DEF RunningIsFound
  <2>2. prod[q].pc \notin {"none", "factory", "codecs"}
    BY <2>1 DEF QuietMembers, Unstarted, Running
  <2> QED
    BY <1>3, <2>1, <2>2 DEF Moves, ShutDown
<1> QED
  BY <1>4, <1>5, <1>6, <1>7, <1>8, <1>9, <1>10, <1>11

(* The consumer goroutine: it runs before the step and is never un-spawned,  *)
(* and its muxer is open only between the factory and the deferred close.    *)
LEMMA ConsumerKept ==
  ASSUME ConsumerTypeOK, OpenMuxerRuns, NEW c \in Consumers, NEW r,
         con[c].pc \notin {"none", "done"},
         con' = [con EXCEPT ![c] = r],
         r.cancel = con[c].cancel, r.closing = con[c].closing,
         r.late = con[c].late, r.pc # "none",
         r.mux \in {"open", "header"} =>
           r.pc \in {"header", "loop", "write", "close"}
  PROVE  ConsKept /\ OpenMuxerRuns'
<1>1. \A d \in Consumers : con'[d] = IF d = c THEN r ELSE con[d]
  BY DEF ConsumerTypeOK
<1>2. ConsKept
  BY <1>1 DEF ConsKept, ConKept
<1>3. OpenMuxerRuns'
  BY <1>1 DEF OpenMuxerRuns, MuxOpen
<1> QED
  BY <1>2, <1>3

LEMMA UnwindFields ==
  ASSUME NEW c \in Consumers, NEW r \in ConsumerRecords, NEW s,
         r.pc \notin {"none", "done"},
         s = Unwind(r) \/ s = Unwind(SetLastError(c, r))
  PROVE  /\ s.cancel = r.cancel /\ s.closing = r.closing /\ s.late = r.late
         /\ s.mux = r.mux
         /\ s.pc # "none"
         /\ s.mux # "none" => s.pc = "close"
BY DEF ConsumerRecords, Unwind, SetLastError

LEMMA ConsumerStepKept ==
  ASSUME ConsumerTypeOK, OpenMuxerRuns, NEW c \in Consumers, ConsumerStep(c)
  PROVE  ConsKept /\ OpenMuxerRuns'
<1>0. con[c] \in ConsumerRecords /\ (MuxOpen(c) =>
        con[c].pc \in {"header", "loop", "write", "close"})
  BY DEF ConsumerTypeOK, OpenMuxerRuns
<1>1. ASSUME NEW s, con' = [con EXCEPT ![c] = s],
             s = Unwind(con[c]) \/ s = Unwind(SetLastError(c, con[c])),
             con[c].pc \notin {"none", "done"}
      PROVE  ConsKept /\ OpenMuxerRuns'
  <2>1. /\ s.cancel = con[c].cancel /\ s.closing = con[c].closing
        /\ s.late = con[c].late /\ s.pc # "none"
        /\ s.mux # "none" => s.pc = "close"
    BY <1>0, <1>1, UnwindFields
  <2> QED
    BY <1>1, <2>1, ConsumerKept
<1>2. CASE WaitCancelled(c)
  BY <1>1, <1>2 DEF WaitCancelled
<1>3. CASE WaitClosed(c)
  BY <1>1, <1>3 DEF WaitClosed
<1>4. CASE OpenMuxer(c)
  <2>1. CASE con' = [con EXCEPT ![c].pc = "header", ![c].mux = "open"]
    <3> DEFINE s == [con[c] EXCEPT !.pc = "header", !.mux = "open"]
    <3>1. con' = [con EXCEPT ![c] = s]
      BY <1>0, <2>1 DEF ConsumerTypeOK, ConsumerRecords
    <3>2. /\ s.cancel = con[c].cancel /\ s.closing = con[c].closing
          /\ s.late = con[c].late /\ s.pc = "header"
      BY <1>0 DEF ConsumerRecords
    <3>3. con[c].pc = "factory"
      BY <1>4 DEF OpenMuxer
    <3> HIDE DEF s
    <3> QED
      BY <3>1, <3>2, <3>3, ConsumerKept
  <2> QED
    BY <1>1, <1>4, <2>1 DEF OpenMuxer
<1>5. CASE WriteMuxHeader(c)
  <2>1. CASE con' = [con EXCEPT ![c].pc = "loop", ![c].mux = "header"]
    <3> DEFINE s == [con[c] EXCEPT !.pc = "loop", !.mux = "header"]
    <3>1. con' = [con EXCEPT ![c] = s]
      BY <1>0, <2>1 DEF ConsumerTypeOK, ConsumerRecords
    <3>2. /\ s.cancel = con[c].cancel /\ s.closing = con[c].closing
          /\ s.late = con[c].late /\ s.pc = "loop"
      BY <1>0 DEF ConsumerRecords
    <3>3. con[c].pc = "header"
      BY <1>5 DEF WriteMuxHeader
    <3> HIDE DEF s
    <3> QED
      BY <3>1, <3>2, <3>3, ConsumerKept
  <2> QED
    BY <1>1, <1>5, <2>1 DEF WriteMuxHeader
<1>6. CASE LoopCancelled(c)
  BY <1>1, <1>6 DEF LoopCancelled
<1>7. CASE Dequeue(c)
  <2> DEFINE s == [con[c] EXCEPT !.pc = "write", !.queue = Tail(@),
                                 !.written = Append(@, Head(con[c].queue))]
  <2>1. con' = [con EXCEPT ![c] = s]
    BY <1>0, <1>7 DEF Dequeue, ConsumerTypeOK, ConsumerRecords
  <2>2. /\ s.cancel = con[c].cancel /\ s.closing = con[c].closing
        /\ s.late = con[c].late /\ s.pc = "write"
    BY <1>0 DEF ConsumerRecords
  <2>3. con[c].pc = "loop"
    BY <1>7 DEF Dequeue
  <2> HIDE DEF s
  <2> QED
    BY <2>1, <2>2, <2>3, ConsumerKept
<1>8. CASE WriteMuxPacket(c)
  <2>1. CASE con' = [con EXCEPT ![c].pc = "loop"]
    <3> DEFINE s == [con[c] EXCEPT !.pc = "loop"]
    <3>1. con' = [con EXCEPT ![c] = s]
      BY <2>1
    <3>2. /\ s.cancel = con[c].cancel /\ s.closing = con[c].closing
          /\ s.late = con[c].late /\ s.pc = "loop"
      BY <1>0 DEF ConsumerRecords
    <3>3. con[c].pc = "write"
      BY <1>8 DEF WriteMuxPacket
    <3> HIDE DEF s
    <3> QED
      BY <3>1, <3>2, <3>3, ConsumerKept
  <2> QED
    BY <1>1, <1>8, <2>1 DEF WriteMuxPacket
<1>9. CASE CloseMuxer(c)
  <2> DEFINE s == [con[c] EXCEPT !.pc = "remover", !.mux = "closed",
                                 !.inactive = TRUE]
  <2>1. con' = [con EXCEPT ![c] = s]
    BY <1>0, <1>9 DEF CloseMuxer, ConsumerTypeOK, ConsumerRecords
  <2>2. /\ s.cancel = con[c].cancel /\ s.closing = con[c].closing
        /\ s.late = con[c].late /\ s.pc = "remover" /\ s.mux = "closed"
    BY <1>0 DEF ConsumerRecords
  <2>3. con[c].pc = "close"
    BY <1>9 DEF CloseMuxer
  <2> HIDE DEF s
  <2> QED
    BY <2>1, <2>2, <2>3, ConsumerKept
<1>10. CASE RunMuxerRemover(c)
  <2> DEFINE s == [con[c] EXCEPT !.pc = "done", !.ctxDone = TRUE]
  <2>1. con' = [con EXCEPT ![c] = s]
    BY <1>0, <1>10 DEF RunMuxerRemover, ConsumerTypeOK, ConsumerRecords
  <2>2. /\ s.cancel = con[c].cancel /\ s.closing = con[c].closing
        /\ s.late = con[c].late /\ s.pc = "done" /\ s.mux = con[c].mux
    BY <1>0 DEF ConsumerRecords
  <2>3. con[c].pc = "remover" /\ s.mux \notin {"open", "header"}
    BY <1>0, <1>10, <2>2 DEF RunMuxerRemover, MuxOpen
  <2> HIDE DEF s
  <2> QED
    BY <2>1, <2>2, <2>3, ConsumerKept
<1> QED
  BY <1>2, <1>3, <1>4, <1>5, <1>6, <1>7, <1>8, <1>9, <1>10 DEF ConsumerStep

(* All the steps that KeepsMembership covers. *)
LEMMA QuietSteps ==
  ASSUME ProducerTypeOK, MapInv,
         \/ Neutral
         \/ \E k \in Calls : CallMoves(k)
         \/ \E c \in Consumers : ConsumerNext(c)
         \/ \E k \in Calls : HandHeader(k)
  PROVE  MapInv'
<1>1. CASE Neutral
  <2>1. CallsAdvance
    BY <1>1 DEF Neutral, SameCalls, CallsAdvance, CallAdvances
  <2> QED
    BY <1>1, <2>1, SameConsKept, SameConsMuxers, KeepsMembership
       DEF Neutral, MapInv
<1>2. CASE \E k \in Calls : CallMoves(k)
  <2>1. CallsAdvance
    BY <1>2 DEF CallMoves, CallsAdvance, CallAdvances
  <2>2. SameCons /\ SameProds /\ UNCHANGED rem
    BY <1>2 DEF CallMoves
  <2> QED
    BY <2>1, <2>2, SameConsKept, SameConsMuxers, KeepsMembership
       DEF MapInv
<1>3. CASE \E c \in Consumers : ConsumerNext(c)
  <2>1. SameProds /\ SameCalls /\ UNCHANGED rem
    BY <1>3, Stays DEF ConsumerNext
  <2>2. CallsAdvance
    BY <2>1 DEF SameCalls, CallsAdvance, CallAdvances
  <2>3. ConsKept /\ OpenMuxerRuns'
    BY <1>3, ConsumerStepKept DEF ConsumerNext, ProducerTypeOK, MapInv
  <2> QED
    BY <2>1, <2>2, <2>3, KeepsMembership
<1>4. CASE \E k \in Calls : HandHeader(k)
  <2>1. PICK k \in Calls : HandHeader(k)
    BY <1>4
  <2> DEFINE c == <<call[k].prod, k>>
             s == TakeStreams(con[c])
  <2>2. c \in Consumers /\ con[c] \in ConsumerRecords
    BY <2>1, ProducerAssumption
       DEF HandHeader, MapInv, FreshByCall, ProducerTypeOK,
           ConsumerTypeOK
  <2>3. con' = [con EXCEPT ![c] = s] /\ con[c].pc = "waitHeader"
    BY <2>1 DEF HandHeader
  <2>4. /\ s.cancel = con[c].cancel /\ s.closing = con[c].closing
        /\ s.late = con[c].late /\ s.pc = "factory" /\ s.mux = con[c].mux
    BY <2>2 DEF ConsumerRecords, TakeStreams
  <2>5. con[c].mux \notin {"open", "header"}
    BY <2>2, <2>3 DEF MapInv, OpenMuxerRuns, MuxOpen
  <2> HIDE DEF s, c
  <2>6. ConsKept /\ OpenMuxerRuns'
    BY <2>2, <2>3, <2>4, <2>5, ConsumerKept DEF ProducerTypeOK, MapInv
  <2>7. CallsAdvance
    BY <2>1 DEF HandHeader, Return, CallsAdvance, CallAdvances, SameCall,
                CallMovesPairs, ProducerTypeOK, CallRecords
  <2>8. SameProds /\ UNCHANGED rem
    BY <2>1, Stays DEF HandHeader
  <2> QED
    BY <2>6, <2>7, <2>8, KeepsMembership
<1> QED
  BY <1>1, <1>2, <1>3, <1>4

(***************************************************************************)
(* The steps that start, close, insert or remove a consumer, one by one.   *)
(***************************************************************************)
OtherProducers(p) == \A q \in Producers \ {p} : prod'[q] = prod[q]

LEMMA MembersTyped ==
  ASSUME ProducerTypeOK
  PROVE  \A p \in Producers :
           /\ prod[p].members \subseteq Calls
           /\ prod[p].snap \subseteq Calls
           /\ prod[p].todo \subseteq Calls
BY DEF ProducerTypeOK, ProducerRecords

LEMMA ReceiveKeeps ==
  ASSUME ProducerTypeOK, MapInv, NEW p \in Producers, NEW k \in Calls,
         ReceiveConsumer(p, k)
  PROVE  MapInv'
<1> USE DEF MapInv
<1> DEFINE r == DeriveContext(con[<<p, k>>], prod[p].ctxDone)
<1>1. /\ call[k].pc = "send" /\ call[k].prod = p /\ prod[p].pc = "loop"
      /\ UNCHANGED rem
  BY DEF ReceiveConsumer
<1>2. Unstarted(<<p, k>>)
  BY <1>1 DEF FreshByCall
<1>3. <<p, k>> \in Consumers /\ con[<<p, k>>] \in ConsumerRecords
  BY ProducerAssumption DEF ProducerTypeOK, ConsumerTypeOK
<1>4. /\ r.pc = con[<<p, k>>].pc /\ r.cancel
      /\ r.closing = con[<<p, k>>].closing
      /\ r.late = con[<<p, k>>].late /\ r.mux = con[<<p, k>>].mux
  BY <1>3 DEF DeriveContext, ConsumerRecords
<1>5. con' = [con EXCEPT ![<<p, k>>] = r]
  BY DEF ReceiveConsumer
<1> HIDE DEF r
<1>6. \A q \in Producers, j \in Calls :
        /\ <<q, j>> \in Consumers
        /\ con'[<<q, j>>] = IF q = p /\ j = k THEN r ELSE con[<<q, j>>]
  BY <1>5, ProducerAssumption DEF ProducerTypeOK, ConsumerTypeOK
<1>7. /\ prod'[p].pc = "starting" /\ prod'[p].cur = k
      /\ prod'[p].members = prod[p].members
      /\ OtherProducers(p)
  BY DEF ReceiveConsumer, ProducerTypeOK, ProducerRecords, OtherProducers
<1>8. /\ call'[k].pc = "header" /\ call'[k].prod = p
      /\ \A j \in Calls \ {k} : call'[j] = call[j]
  BY <1>1 DEF ReceiveConsumer, ProducerTypeOK, CallRecords
<1>9. \A q \in Producers, j \in Calls :
        /\ Running(<<q, j>>)' <=> Running(<<q, j>>)
        /\ Detached(<<q, j>>)' <=> Detached(<<q, j>>)
        /\ con'[<<q, j>>].closing = con[<<q, j>>].closing
        /\ q # p \/ j # k => (Unstarted(<<q, j>>)' <=> Unstarted(<<q, j>>))
  BY <1>1, <1>4, <1>6 DEF Running, Detached, Closers, Unstarted
<1>10. UniqueIds'
  BY <1>7 DEF UniqueIds, OtherProducers
<1>11. QuietMembers'
  BY <1>7, <1>9, MembersTyped DEF QuietMembers, OtherProducers, ShutDown
<1>12. FreshByCall'
  BY <1>1, <1>2, <1>8, <1>9 DEF FreshByCall
<1>13. SweepProgress'
  <2>1. /\ prod'[p].pc \notin Sweeping \cup Waiting
        /\ prod'[p].cur \in Calls
        /\ con'[<<p, prod'[p].cur>>].pc = "none"
        /\ con'[<<p, prod'[p].cur>>].cancel
    BY <1>2, <1>4, <1>6, <1>7 DEF Unstarted, Sweeping, Waiting
  <2>2. \A q \in Producers \ {p}, j \in Calls :
          con'[<<q, j>>] = con[<<q, j>>]
    BY <1>6
  <2> QED
    BY <1>7, <1>9, <2>1, <2>2, MembersTyped
       DEF SweepProgress, OtherProducers, Sweeping, Waiting
<1>14. LostIsClosing'
  BY <1>1, <1>7, <1>8, <1>9
     DEF LostIsClosing, Inserted, OtherProducers, ShutDown
<1>15. ClosingIsAwaited'
  BY <1>1, <1>7, <1>9 DEF ClosingIsAwaited, OtherProducers, Waiting
<1>16. RunningIsFound'
  BY <1>7, <1>9 DEF RunningIsFound, OtherProducers, ShutDown
<1>17. OpenMuxerRuns'
  BY <1>4, <1>5 DEF OpenMuxerRuns, MuxOpen, ProducerTypeOK, ConsumerTypeOK
<1> QED
  BY <1>10, <1>11, <1>12, <1>13, <1>14, <1>15, <1>16, <1>17

LEMMA SpawnKeeps ==
  ASSUME ProducerTypeOK, MapInv, NEW p \in Producers, SpawnConsumer(p)
  PROVE  MapInv'
<1> USE DEF MapInv
<1>1. prod[p].pc = "starting" /\ UNCHANGED <<call, rem>>
  BY DEF SpawnConsumer
<1>0. PICK k \in Calls : k = prod[p].cur
  BY <1>1 DEF SweepProgress
<1> DEFINE r == Spawned(con[<<p, k>>])
<1>2. con[<<p, k>>].pc = "none" /\ con[<<p, k>>].cancel
  BY <1>0, <1>1 DEF SweepProgress
<1>3. <<p, k>> \in Consumers /\ con[<<p, k>>] \in ConsumerRecords
  BY <1>2, ProducerAssumption DEF ProducerTypeOK, ConsumerTypeOK
<1>4. /\ r.pc = "waitHeader" /\ r.cancel = con[<<p, k>>].cancel
      /\ r.closing = con[<<p, k>>].closing
      /\ r.late = con[<<p, k>>].closing /\ r.mux = con[<<p, k>>].mux
  BY <1>3 DEF Spawned, ConsumerRecords
<1>5. con' = [con EXCEPT ![<<p, k>>] = r]
  BY <1>0 DEF SpawnConsumer
<1>6. /\ prod'[p].pc = "loop" /\ prod'[p].members = prod[p].members
      /\ OtherProducers(p)
  BY DEF SpawnConsumer, ProducerTypeOK, ProducerRecords, OtherProducers
<1> HIDE DEF r
<1>7. \A q \in Producers, j \in Calls :
        /\ <<q, j>> \in Consumers
        /\ con'[<<q, j>>] = IF q = p /\ j = k THEN r ELSE con[<<q, j>>]
  BY <1>2, <1>5, ProducerAssumption DEF ProducerTypeOK, ConsumerTypeOK
<1>8. ~Unstarted(<<p, k>>) /\ ~Unstarted(<<p, k>>)'
  BY <1>2, <1>4, <1>7 DEF Unstarted
<1>9. \A q \in Producers, j \in Calls :
        /\ Unstarted(<<q, j>>)' <=> Unstarted(<<q, j>>)
        /\ con'[<<q, j>>].closing = con[<<q, j>>].closing
        /\ q # p \/ j # k => /\ Running(<<q, j>>)' <=> Running(<<q, j>>)
                             /\ Detached(<<q, j>>)' <=> Detached(<<q, j>>)
  BY <1>1, <1>2, <1>4, <1>7, <1>8 DEF Running, Detached, Closers, Unstarted
<1>10. con[<<p, k>>].closing => Detached(<<p, k>>)'
  BY <1>2, <1>4, <1>7 DEF Detached
<1>11. UniqueIds'
  BY <1>6 DEF UniqueIds, OtherProducers
<1>12. QuietMembers'
  BY <1>6, <1>9, MembersTyped DEF QuietMembers, OtherProducers, ShutDown
<1>13. FreshByCall'
  BY <1>1, <1>9 DEF FreshByCall
<1>14. SweepProgress'
  <2>1. \A q \in Producers \ {p}, j \in Calls :
          con'[<<q, j>>] = con[<<q, j>>]
    BY <1>7
  <2> QED
    BY <1>6, <1>9, <2>1, MembersTyped
       DEF SweepProgress, OtherProducers, Sweeping, Waiting
<1>15. LostIsClosing'
  BY <1>1, <1>6, <1>9
     DEF LostIsClosing, Inserted, OtherProducers, ShutDown
<1>16. ClosingIsAwaited'
  BY <1>1, <1>6, <1>9, <1>10 DEF ClosingIsAwaited, OtherProducers, Waiting
<1>17. RunningIsFound'
  <2>1. k \in prod[p].members \/ con[<<p, k>>].closing
    BY <1>1, <1>2, <1>8 DEF LostIsClosing, Inserted, ShutDown
  <2> QED
    BY <1>6, <1>9, <1>10, <2>1 DEF RunningIsFound, OtherProducers, ShutDown
<1>18. OpenMuxerRuns'
  BY <1>2, <1>3, <1>4, <1>5
     DEF OpenMuxerRuns, MuxOpen, ProducerTypeOK, ConsumerTypeOK
<1> QED
  BY <1>11, <1>12, <1>13, <1>14, <1>15, <1>16, <1>17, <1>18

(* The steps of a sweep that leave the consumers alone.                      *)
LEMMA StillPredicates ==
  ASSUME UNCHANGED <<con, call, rem>>
  PROVE  /\ \A c \in Consumers :
              /\ Unstarted(c)' <=> Unstarted(c)
              /\ Running(c)' <=> Running(c)
              /\ Detached(c)' <=> Detached(c)
              /\ con'[c].closing = con[c].closing
         /\ FreshByCall => FreshByCall'
         /\ OpenMuxerRuns => OpenMuxerRuns'
BY DEF Unstarted, Running, Detached, Closers, FreshByCall, OpenMuxerRuns,
       MuxOpen

(* SweepProgress of one producer, in the state after a step.                 *)
LEMMA OthersSweep ==
  ASSUME ProducerTypeOK, SweepProgress, NEW p \in Producers,
         OtherProducers(p),
         \A q \in Producers \ {p}, k \in Calls :
           con'[<<q, k>>] = con[<<q, k>>],
         prod'[p].pc \in Sweeping =>
           /\ prod'[p].todo \subseteq prod'[p].snap
           /\ prod'[p].snap \subseteq prod'[p].members
           /\ \A k \in prod'[p].snap \ prod'[p].todo : con'[<<p, k>>].closing,
         prod'[p].pc \in Waiting => prod'[p].cur \in prod'[p].snap,
         prod'[p].pc # "starting",
         prod'[p].pc \in {"exitSweep", "exitWait"} =>
           \A k \in prod'[p].members \ prod'[p].snap : Unstarted(<<p, k>>)'
  PROVE  SweepProgress'
<1>1. \A q \in Producers \ {p}, k \in Calls :
        Unstarted(<<q, k>>)' <=> Unstarted(<<q, k>>)
  BY DEF Unstarted
<1> QED
  BY <1>1, MembersTyped DEF SweepProgress, OtherProducers

LEMMA SweepStartsKeep ==
  ASSUME ProducerTypeOK, MapInv, NEW p \in Producers,
         SweepBegin(p) \/ ExitBegin(p)
  PROVE  MapInv'
<1> USE DEF MapInv
<1>1. UNCHANGED <<con, call, rem>>
  BY DEF SweepBegin, ExitBegin
<1>2. /\ OtherProducers(p)
      /\ prod'[p].members = prod[p].members
      /\ prod'[p].snap = prod'[p].todo
      /\ prod'[p].snap \subseteq prod[p].members
      /\ \/ prod[p].pc = "loop" /\ prod'[p].pc = "sweep"
         \/ /\ prod[p].pc = "exit" /\ prod'[p].pc = "exitSweep"
            /\ prod'[p].snap = prod[p].members
  <2>1. CASE SweepBegin(p)
    <3>1. Inactive(p) \subseteq prod[p].members
      BY DEF Inactive
    <3> QED
      BY <2>1, <3>1 DEF SweepBegin, OtherProducers, ProducerTypeOK,
                        ProducerRecords
  <2>2. CASE ExitBegin(p)
    BY <2>2 DEF ExitBegin, OtherProducers, ProducerTypeOK, ProducerRecords
  <2> QED
    BY <2>1, <2>2
<1>3. \A q \in Producers, k \in Calls : <<q, k>> \in Consumers
  BY ProducerAssumption
<1>4. UniqueIds'
  BY <1>2 DEF UniqueIds, OtherProducers
<1>5. QuietMembers'
  BY <1>1, <1>2, <1>3, StillPredicates, MembersTyped
     DEF QuietMembers, OtherProducers, ShutDown
<1>6. SweepProgress'
  BY <1>1, <1>2, OthersSweep DEF Waiting
<1>7. LostIsClosing'
  BY <1>1, <1>2, <1>3, StillPredicates
     DEF LostIsClosing, Inserted, OtherProducers, ShutDown
<1>8. ClosingIsAwaited'
  BY <1>1, <1>2, <1>3, StillPredicates
     DEF ClosingIsAwaited, OtherProducers, Waiting
<1>9. RunningIsFound'
  BY <1>1, <1>2, <1>3, StillPredicates
     DEF RunningIsFound, OtherProducers, ShutDown
<1> QED
  BY <1>1, <1>4, <1>5, <1>6, <1>7, <1>8, <1>9, StillPredicates

LEMMA ClosedOneKeeps ==
  ASSUME ProducerTypeOK, MapInv, NEW p \in Producers, ClosedOne(p)
  PROVE  MapInv'
<1> USE DEF MapInv
<1>1. UNCHANGED <<con, call, rem>> /\ ~Running(<<p, prod[p].cur>>)
  BY DEF ClosedOne
<1>2. /\ OtherProducers(p)
      /\ prod'[p].members = prod[p].members
      /\ prod'[p].snap = prod[p].snap
      /\ prod'[p].todo = prod[p].todo
      /\ \/ prod[p].pc = "sweepWait" /\ prod'[p].pc = "sweep"
         \/ prod[p].pc = "exitWait" /\ prod'[p].pc = "exitSweep"
  BY DEF ClosedOne, SweepingPC, OtherProducers, ProducerTypeOK,
         ProducerRecords
<1>3. \A q \in Producers, k \in Calls : <<q, k>> \in Consumers
  BY ProducerAssumption
<1>4. UniqueIds'
  BY <1>2 DEF UniqueIds, OtherProducers
<1>5. QuietMembers'
  BY <1>1, <1>2, <1>3, StillPredicates, MembersTyped
     DEF QuietMembers, OtherProducers, ShutDown
<1>6. SweepProgress'
  <2>1. /\ prod[p].todo \subseteq prod[p].snap
        /\ prod[p].snap \subseteq prod[p].members
        /\ \A k \in prod[p].snap \ prod[p].todo : con[<<p, k>>].closing
    BY <1>2 DEF SweepProgress, Sweeping
  <2>2. prod'[p].pc = "exitSweep" =>
          \A k \in prod'[p].members \ prod'[p].snap : Unstarted(<<p, k>>)'
    BY <1>1, <1>2, <1>3, StillPredicates, MembersTyped DEF SweepProgress
  <2> QED
    BY <1>1, <1>2, <2>1, <2>2, OthersSweep DEF Waiting
<1>7. LostIsClosing'
  BY <1>1, <1>2, <1>3, StillPredicates
     DEF LostIsClosing, Inserted, OtherProducers, ShutDown
<1>8. ClosingIsAwaited'
  BY <1>1, <1>2, <1>3, StillPredicates
     DEF ClosingIsAwaited, OtherProducers, Waiting
<1>9. RunningIsFound'
  BY <1>1, <1>2, <1>3, StillPredicates
     DEF RunningIsFound, OtherProducers, ShutDown
<1> QED
  BY <1>1, <1>4, <1>5, <1>6, <1>7, <1>8, <1>9, StillPredicates

LEMMA SweepEndKeeps ==
  ASSUME ProducerTypeOK, MapInv, NEW p \in Producers, SweepEnd(p)
  PROVE  MapInv'
<1> USE DEF MapInv
<1>1. UNCHANGED <<con, call, rem>> /\ prod[p].pc = "sweep" /\ prod[p].todo = {}
  BY DEF SweepEnd
<1>2. /\ OtherProducers(p)
      /\ prod'[p].pc = "loop"
      /\ prod'[p].members = Without(p, prod[p].snap)
  BY DEF SweepEnd, OtherProducers, ProducerTypeOK, ProducerRecords
<1>3. \A q \in Producers, k \in Calls : <<q, k>> \in Consumers
  BY ProducerAssumption
<1>4. /\ prod'[p].members \subseteq prod[p].members
      /\ \A k \in prod[p].members :
           k \in prod'[p].members \/ con[<<p, k>>].closing
  <2>1. /\ prod[p].snap \subseteq prod[p].members
        /\ \A k \in prod[p].snap : con[<<p, k>>].closing
    BY <1>1 DEF SweepProgress, Sweeping
  <2>2. \A j, k \in prod[p].members : IdOf[j] = IdOf[k] => j = k
    BY DEF UniqueIds, SameId
  <2> QED
    BY <1>2, <2>1, <2>2 DEF Without
<1>5. UniqueIds'
  BY <1>2, <1>4 DEF UniqueIds, OtherProducers
<1>6. QuietMembers'
  BY <1>1, <1>2, <1>3, StillPredicates, MembersTyped
     DEF QuietMembers, OtherProducers, ShutDown
<1>7. SweepProgress'
  BY <1>1, <1>2, OthersSweep DEF Sweeping, Waiting
<1>8. LostIsClosing'
  BY <1>1, <1>2, <1>3, <1>4, StillPredicates
     DEF LostIsClosing, Inserted, OtherProducers, ShutDown
<1>9. ClosingIsAwaited'
  BY <1>1, <1>2, <1>3, StillPredicates
     DEF ClosingIsAwaited, OtherProducers, Waiting
<1>10. RunningIsFound'
  <2>1. \A k \in Calls :
          Running(<<p, k>>) /\ con[<<p, k>>].closing => Detached(<<p, k>>)
    BY <1>1 DEF ClosingIsAwaited, Waiting
  <2> QED
    BY <1>1, <1>2, <1>3, <1>4, <2>1, StillPredicates
       DEF RunningIsFound, OtherProducers, ShutDown
<1> QED
  BY <1>1, <1>5, <1>6, <1>7, <1>8, <1>9, <1>10, StillPredicates

LEMMA ExitEndKeeps ==
  ASSUME ProducerTypeOK, MapInv, NEW p \in Producers, ExitEnd(p)
  PROVE  MapInv'
<1> USE DEF MapInv
<1>1. /\ UNCHANGED <<con, call, rem>>
      /\ prod[p].pc = "exitSweep" /\ prod[p].todo = {}
  BY DEF ExitEnd
<1>2. /\ OtherProducers(p)
      /\ prod'[p].pc = "remover" /\ prod'[p].members = {}
  BY DEF ExitEnd, OtherProducers, ProducerTypeOK, ProducerRecords
<1>3. \A q \in Producers, k \in Calls : <<q, k>> \in Consumers
  BY ProducerAssumption
<1>4. \A k \in Calls : Running(<<p, k>>) => Detached(<<p, k>>)
  <2> SUFFICES ASSUME NEW k \in Calls, Running(<<p, k>>), ~Detached(<<p, k>>)
               PROVE  FALSE
    OBVIOUS
  <2>1. k \in prod[p].members
    BY DEF RunningIsFound
  <2>2. k \in prod[p].snap
    BY <1>1, <2>1 DEF SweepProgress, Unstarted, Running
  <2>3. con[<<p, k>>].closing
    BY <1>1, <2>2 DEF SweepProgress, Sweeping
  <2> QED
    BY <1>1, <2>3 DEF ClosingIsAwaited, Waiting
<1>5. UniqueIds'
  BY <1>2 DEF UniqueIds, OtherProducers
<1>6. QuietMembers'
  BY <1>1, <1>2, <1>3, StillPredicates, MembersTyped
     DEF QuietMembers, OtherProducers, ShutDown
<1>7. SweepProgress'
  BY <1>1, <1>2, OthersSweep DEF Sweeping, Waiting
<1>8. LostIsClosing'
  BY <1>1, <1>2, <1>3, StillPredicates
     DEF LostIsClosing, Inserted, OtherProducers, ShutDown
<1>9. ClosingIsAwaited'
  BY <1>1, <1>2, <1>3, StillPredicates
     DEF ClosingIsAwaited, OtherProducers, Waiting
<1>10. RunningIsFound'
  BY <1>1, <1>2, <1>3, <1>4, StillPredicates
     DEF RunningIsFound, OtherProducers
<1> QED
  BY <1>1, <1>5, <1>6, <1>7, <1>8, <1>9, <1>10, StillPredicates

(* Close on a consumer: the record and who waits for it.                     *)
LEMMA CloseFields ==
  ASSUME NEW r \in ConsumerRecords
  PROVE  /\ CloseBegin(r).pc = r.pc /\ CloseBegin(r).cancel = r.cancel
         /\ CloseBegin(r).late = r.late /\ CloseBegin(r).mux = r.mux
         /\ CloseBegin(r).closing
BY DEF CloseBegin, ConsumerRecords

LEMMA CloseOneKeeps ==
  ASSUME ProducerTypeOK, MapInv, NEW p \in Producers, CloseOne(p)
  PROVE  MapInv'
<1> USE DEF MapInv
<1>1. /\ prod[p].pc \in {"sweep", "exitSweep"}
      /\ UNCHANGED <<call, rem>>
  BY DEF CloseOne
<1>2. PICK k \in prod[p].todo :
        IF con[<<p, k>>].closing
        THEN /\ prod' = [prod EXCEPT ![p].todo = @ \ {k}]
             /\ UNCHANGED con
        ELSE /\ prod' = [prod EXCEPT ![p].todo = @ \ {k}, ![p].cur = k,
                                     ![p].pc = WaitingPC(@)]
             /\ con' = [con EXCEPT ![<<p, k>>] = CloseBegin(@)]
  BY DEF CloseOne
<1>3. /\ k \in Calls /\ k \in prod[p].snap
      /\ prod[p].snap \subseteq prod[p].members
  BY <1>1, <1>2, MembersTyped DEF SweepProgress, Sweeping
<1>4. <<p, k>> \in Consumers /\ con[<<p, k>>] \in ConsumerRecords
  BY <1>3, ProducerAssumption DEF ProducerTypeOK, ConsumerTypeOK
<1>5. /\ OtherProducers(p)
      /\ prod'[p].members = prod[p].members
      /\ prod'[p].snap = prod[p].snap
      /\ prod'[p].todo = prod[p].todo \ {k}
  BY <1>2 DEF OtherProducers, ProducerTypeOK, ProducerRecords
<1>6. \/ prod'[p].pc = prod[p].pc /\ con[<<p, k>>].closing
      \/ /\ prod'[p].cur = k
         /\ \/ prod[p].pc = "sweep" /\ prod'[p].pc = "sweepWait"
            \/ prod[p].pc = "exitSweep" /\ prod'[p].pc = "exitWait"
  BY <1>1, <1>2 DEF WaitingPC, ProducerTypeOK, ProducerRecords
<1>7. \A q \in Producers, j \in Calls :
        /\ <<q, j>> \in Consumers
        /\ con'[<<q, j>>].pc = con[<<q, j>>].pc
        /\ con'[<<q, j>>].cancel = con[<<q, j>>].cancel
        /\ con'[<<q, j>>].late = con[<<q, j>>].late
        /\ con'[<<q, j>>].mux = con[<<q, j>>].mux
        /\ q = p /\ j = k => con'[<<q, j>>].closing
        /\ q # p \/ j # k => con'[<<q, j>>] = con[<<q, j>>]
  BY <1>2, <1>4, CloseFields, ProducerAssumption
     DEF ProducerTypeOK, ConsumerTypeOK
<1>8. \A q \in Producers, j \in Calls :
        /\ Unstarted(<<q, j>>)' <=> Unstarted(<<q, j>>)
        /\ Running(<<q, j>>)' <=> Running(<<q, j>>)
        /\ Detached(<<q, j>>)' <=> Detached(<<q, j>>)
        /\ con[<<q, j>>].closing => con'[<<q, j>>].closing
  BY <1>1, <1>7 DEF Unstarted, Running, Detached, Closers
<1>9. UniqueIds'
  BY <1>5 DEF UniqueIds, OtherProducers
<1>10. QuietMembers'
  BY <1>1, <1>5, <1>6, <1>8, MembersTyped
     DEF QuietMembers, OtherProducers, ShutDown
<1>11. FreshByCall'
  BY <1>1, <1>8 DEF FreshByCall
<1>12. SweepProgress'
  <2>1. /\ prod[p].todo \subseteq prod[p].snap
        /\ \A j \in prod[p].snap \ prod[p].todo : con[<<p, j>>].closing
    BY <1>1 DEF SweepProgress, Sweeping
  <2>2. \A j \in prod'[p].snap \ prod'[p].todo : con'[<<p, j>>].closing
    BY <1>3, <1>5, <1>7, <1>8, <2>1, MembersTyped
  <2>3. prod'[p].pc \in {"exitSweep", "exitWait"} =>
          \A j \in prod'[p].members \ prod'[p].snap : Unstarted(<<p, j>>)'
    BY <1>1, <1>5, <1>6, <1>8, MembersTyped DEF SweepProgress
  <2>4. prod'[p].pc # "starting"
    BY <1>1, <1>6
  <2>5. prod'[p].pc \in Waiting => prod'[p].cur \in prod'[p].snap
    BY <1>1, <1>3, <1>5, <1>6 DEF Waiting
  <2>6. \A q \in Producers \ {p}, j \in Calls :
          con'[<<q, j>>] = con[<<q, j>>]
    BY <1>7
  <2> QED
    BY <1>3, <1>5, <2>1, <2>2, <2>3, <2>4, <2>5, <2>6, OthersSweep
<1>13. LostIsClosing'
  BY <1>1, <1>5, <1>6, <1>8
     DEF LostIsClosing, Inserted, OtherProducers, ShutDown
<1>14. ClosingIsAwaited'
  <2> SUFFICES ASSUME NEW q \in Producers, NEW j \in Calls,
                      con'[<<q, j>>].closing, Running(<<q, j>>),
                      ~Detached(<<q, j>>)
               PROVE  prod'[q].pc \in Waiting /\ prod'[q].cur = j
    BY <1>8 DEF ClosingIsAwaited
  <2>1. CASE con[<<q, j>>].closing
    BY <1>1, <1>5, <2>1 DEF ClosingIsAwaited, OtherProducers, Waiting
  <2>2. CASE ~con[<<q, j>>].closing
    BY <1>6, <1>7, <2>2 DEF Waiting
  <2> QED
    BY <2>1, <2>2
<1>15. RunningIsFound'
  BY <1>1, <1>5, <1>6, <1>8 DEF RunningIsFound, OtherProducers, ShutDown
<1>16. OpenMuxerRuns'
  BY <1>7, ProducerAssumption DEF OpenMuxerRuns, MuxOpen
<1> QED
  BY <1>9, <1>10, <1>11, <1>12, <1>13, <1>14, <1>15, <1>16

LEMMA InsertKeeps ==
  ASSUME ProducerTypeOK, MapInv, NEW k \in Calls, InsertConsumer(k),
         ~HasId(call[k].prod, IdOf[k])
  PROVE  MapInv'
<1> USE DEF MapInv
<1>1. call[k].pc = "insert" /\ UNCHANGED rem
  BY DEF InsertConsumer
<1>0. PICK p \in Producers : p = call[k].prod
  BY <1>1 DEF FreshByCall
<1>2. /\ prod' = [prod EXCEPT ![p].members = @ \cup {k}]
      /\ con' = [con EXCEPT ![<<p, k>>] = NewConsumer]
      /\ call' = [call EXCEPT ![k].pc = "getCodecs"]
  BY <1>0 DEF InsertConsumer
<1>3. \A j \in prod[p].members : IdOf[j] # IdOf[k]
  BY <1>0 DEF HasId
<1>4. /\ OtherProducers(p)
      /\ prod'[p].members = prod[p].members \cup {k}
      /\ prod'[p].pc = prod[p].pc /\ prod'[p].cur = prod[p].cur
      /\ prod'[p].snap = prod[p].snap /\ prod'[p].todo = prod[p].todo
  BY <1>2 DEF OtherProducers, ProducerTypeOK, ProducerRecords
<1>5. /\ call'[k].pc = "getCodecs" /\ call'[k].prod = p
      /\ \A j \in Calls \ {k} : call'[j] = call[j]
  BY <1>0, <1>2 DEF ProducerTypeOK, CallRecords
<1>6. Unstarted(<<p, k>>)
  BY <1>0, <1>1 DEF FreshByCall
<1>7. \A q \in Producers, j \in Calls :
        /\ <<q, j>> \in Consumers
        /\ q = p /\ j = k => con'[<<q, j>>] = NewConsumer
        /\ q # p \/ j # k => con'[<<q, j>>] = con[<<q, j>>]
  BY <1>2, ProducerAssumption DEF ProducerTypeOK, ConsumerTypeOK
<1>8. \A q \in Producers, j \in Calls :
        /\ Unstarted(<<q, j>>)' <=> Unstarted(<<q, j>>)
        /\ Running(<<q, j>>)' <=> Running(<<q, j>>)
        /\ Running(<<q, j>>) =>
             /\ con'[<<q, j>>] = con[<<q, j>>]
             /\ Detached(<<q, j>>)' <=> Detached(<<q, j>>)
  <2> SUFFICES ASSUME NEW q \in Producers, NEW j \in Calls
               PROVE  /\ Unstarted(<<q, j>>)' <=> Unstarted(<<q, j>>)
                      /\ Running(<<q, j>>)' <=> Running(<<q, j>>)
                      /\ Running(<<q, j>>) =>
                           /\ con'[<<q, j>>] = con[<<q, j>>]
                           /\ Detached(<<q, j>>)' <=> Detached(<<q, j>>)
    OBVIOUS
  <2>1. CASE q = p /\ j = k
    <3>1. NewConsumer.pc = "none" /\ ~NewConsumer.cancel
      BY DEF NewConsumer
    <3> QED
      BY <1>6, <1>7, <2>1, <3>1 DEF Unstarted, Running
  <2>2. CASE q # p \/ j # k
    <3>1. con'[<<q, j>>] = con[<<q, j>>]
      BY <1>7, <2>2
    <3>2. Closers(<<q, j>>)' = Closers(<<q, j>>)
      BY <1>1 DEF Closers
    <3> QED
      BY <3>1, <3>2 DEF Unstarted, Running, Detached
  <2> QED
    BY <2>1, <2>2
<1>9. UniqueIds'
  BY <1>3, <1>4 DEF UniqueIds, OtherProducers, SameId
<1>10. QuietMembers'
  BY <1>4, <1>6, <1>8, MembersTyped DEF QuietMembers, OtherProducers
<1>11. FreshByCall'
  BY <1>5, <1>6, <1>8 DEF FreshByCall
<1>12. SweepProgress'
  <2>1. prod[p].pc \in Sweeping => k \notin prod[p].snap
    BY <1>3 DEF SweepProgress
  <2>2. prod[p].pc = "starting" => prod[p].cur # k
    BY <1>6 DEF SweepProgress, Unstarted
  <2>3. \A q \in Producers \ {p}, j \in Calls :
          con'[<<q, j>>] = con[<<q, j>>]
    BY <1>7
  <2>4. \A j \in Calls \ {k} : con'[<<p, j>>] = con[<<p, j>>]
    BY <1>7
  <2> QED
    BY <1>4, <1>6, <1>8, <2>1, <2>2, <2>3, <2>4, MembersTyped
       DEF SweepProgress, OtherProducers, Sweeping
<1>13. LostIsClosing'
  <2> SUFFICES ASSUME NEW q \in Producers, NEW j \in Calls,
                      Inserted(q, j)', prod'[q].pc \notin ShutDown
               PROVE  j \in prod'[q].members \/ con'[<<q, j>>].closing
    BY DEF LostIsClosing
  <2>1. CASE j = k
    <3>1. CASE q = p
      BY <1>4, <2>1, <3>1
    <3>2. CASE q # p
      <4>1. Inserted(q, j) /\ prod[q].pc \notin ShutDown
        BY <1>4, <1>5, <1>8, <2>1, <3>2 DEF Inserted, OtherProducers
      <4> QED
        BY <1>4, <1>7, <3>2, <4>1 DEF LostIsClosing, OtherProducers
    <3> QED
      BY <3>1, <3>2
  <2>2. CASE j # k
    <3>1. Inserted(q, j) /\ prod[q].pc \notin ShutDown
      BY <1>4, <1>5, <1>8, <2>2 DEF Inserted, OtherProducers
    <3> QED
      BY <1>4, <1>7, <2>2, <3>1 DEF LostIsClosing, OtherProducers
  <2> QED
    BY <2>1, <2>2
<1>14. ClosingIsAwaited'
  BY <1>4, <1>8 DEF ClosingIsAwaited, OtherProducers
<1>15. RunningIsFound'
  BY <1>4, <1>8 DEF RunningIsFound, OtherProducers
<1>16. OpenMuxerRuns'
  BY <1>7, ProducerAssumption DEF OpenMuxerRuns, MuxOpen, NewConsumer
<1> QED
  BY <1>9, <1>10, <1>11, <1>12, <1>13, <1>14, <1>15, <1>16

(* RemoveConsumer changes who waits, and may begin a Close.                  *)
LEMMA RemoverKeeps ==
  ASSUME ProducerTypeOK, MapInv, NEW r \in Removers,
         RemoverWork(r) \/ RemoverStart(r)
  PROVE  MapInv'
<1> USE DEF MapInv
<1>1. UNCHANGED <<prod, call>>
  BY DEF RemoverWork, RemoverStart, RemoveClose, RemoveReturn, RemoveLookup
<1>2. \A q \in Producers, j \in Calls :
        /\ <<q, j>> \in Consumers
        /\ con'[<<q, j>>].pc = con[<<q, j>>].pc
        /\ con'[<<q, j>>].cancel = con[<<q, j>>].cancel
        /\ con'[<<q, j>>].late = con[<<q, j>>].late
        /\ con'[<<q, j>>].mux = con[<<q, j>>].mux
        /\ con[<<q, j>>].closing => con'[<<q, j>>].closing
        /\ ~con[<<q, j>>].closing /\ con'[<<q, j>>].closing =>
             rem'[r].pc = "wait" /\ rem'[r].con = <<q, j>>
  <2>1. CASE RemoveClose(r)
    BY <2>1, CloseFields, ProducerAssumption
       DEF RemoveClose, ProducerTypeOK, ConsumerTypeOK, RemoverRecords
  <2>2. CASE UNCHANGED con
    BY <2>2, ProducerAssumption
  <2> QED
    BY <2>1, <2>2 DEF RemoverWork, RemoverStart, RemoveReturn, RemoveLookup
<1>3. \A c \in Consumers :
        Running(c) /\ Closers(c) # {} => Closers(c)' # {}
  <2> SUFFICES ASSUME NEW c \in Consumers, Running(c),
                      NEW s \in Removers, rem[s].pc = "wait", rem[s].con = c
               PROVE  rem'[s].pc = "wait" /\ rem'[s].con = c
    BY DEF Closers
  <2> QED
    BY DEF RemoverWork, RemoverStart, RemoveClose, RemoveReturn, RemoveLookup,
           ProducerTypeOK
<1>4. \A q \in Producers, j \in Calls :
        /\ Unstarted(<<q, j>>)' <=> Unstarted(<<q, j>>)
        /\ Running(<<q, j>>)' <=> Running(<<q, j>>)
        /\ Running(<<q, j>>) /\ Detached(<<q, j>>) => Detached(<<q, j>>)'
        /\ ~con[<<q, j>>].closing /\ con'[<<q, j>>].closing =>
             Detached(<<q, j>>)'
  BY <1>2, <1>3 DEF Unstarted, Running, Detached, Closers
<1>5. UniqueIds'
  BY <1>1 DEF UniqueIds
<1>6. QuietMembers'
  BY <1>1, <1>4, MembersTyped DEF QuietMembers
<1>7. FreshByCall'
  BY <1>1, <1>4 DEF FreshByCall
<1>8. SweepProgress'
  BY <1>1, <1>2, <1>4, MembersTyped DEF SweepProgress
<1>9. LostIsClosing'
  BY <1>1, <1>2, <1>4 DEF LostIsClosing, Inserted
<1>10. ClosingIsAwaited'
  BY <1>1, <1>2, <1>4 DEF ClosingIsAwaited
<1>11. RunningIsFound'
  BY <1>1, <1>4 DEF RunningIsFound
<1>12. OpenMuxerRuns'
  BY <1>2, ProducerAssumption DEF OpenMuxerRuns, MuxOpen
<1> QED
  BY <1>5, <1>6, <1>7, <1>8, <1>9, <1>10, <1>11, <1>12

(***************************************************************************)
(* How the calls proceed, and who is started.                              *)
(***************************************************************************)
CallProceeds(k) ==
  /\ call'[k].prod = call[k].prod
  /\ (call'[k].pc = "idle") <=> (call[k].pc = "idle")
  /\ call[k].pc = "header" =>
       \/ call'[k].pc = "header"
       \/ call'[k].pc = "ret" /\ call'[k].res = "ok"
  /\ call[k].pc = "ret" => call'[k].pc = "ret" /\ call'[k].res = call[k].res

LEMMA CallsProceed ==
  ASSUME ProducerTypeOK, ProducerSteps
  PROVE  \A k \in Calls : CallProceeds(k)
<1> DEFINE Proceed == \A k \in Calls : CallProceeds(k)
<1> USE DEF ProducerTypeOK, CallProceeds
<1>1. ASSUME NEW k \in Calls, CallStep(k)
      PROVE  Proceed
  <2>1. ASSUME NEW res, call' = Return(k, res),
               call[k].pc \notin {"idle", "ret"},
               call[k].pc = "header" => res = "ok"
        PROVE  Proceed
    BY <2>1 DEF Return, CallRecords
  <2>2. ASSUME NEW pc \in {"chkStarted", "insert", "getCodecs", "send"},
               call[k].pc \notin {"idle", "header", "ret"},
               call' = [call EXCEPT ![k].pc = pc]
        PROVE  Proceed
    BY <2>2 DEF CallRecords
  <2>3. CASE CheckClosing(k) \/ CheckStarted(k)
    BY <2>1, <2>2, <2>3 DEF CheckClosing, CheckStarted
  <2>4. CASE InsertConsumer(k) \/ AwaitCodecs(k)
    BY <2>1, <2>2, <2>4 DEF InsertConsumer, AwaitCodecs
  <2>5. CASE HandHeader(k) \/ HeaderNoStreams(k) \/ CallCancelled(k)
    BY <2>1, <2>5 DEF HandHeader, HeaderNoStreams, CallCancelled,
                      AwaitCodecsCancelled, SendCancelled, HeaderCancelled
  <2> QED
    BY <1>1, <2>3, <2>4, <2>5 DEF CallStep, CallWork
<1>2. ASSUME NEW k \in Calls, CancelCall(k)
      PROVE  Proceed
  BY <1>2 DEF CancelCall, CallRecords
<1>3. ASSUME UNCHANGED call
      PROVE  Proceed
  BY <1>3
<1>4. ASSUME NEW p \in Producers, MainStep(p)
      PROVE  Proceed
  <2>1. CASE MainReceive(p)
    BY <2>1 DEF MainReceive, ReceiveConsumer, CallRecords
  <2> QED
    BY <1>3, <1>4, <2>1, MainFrame
<1> QED
  BY <1>1, <1>2, <1>3, <1>4, ReaderFrame
     DEF ProducerSteps, Pause, Resume, RemoverWork, RemoverStart,
         RemoveLookup, RemoveClose, RemoveReturn, ConsumerNext

(* Only the rendezvous on consumersToStart starts a consumer.                *)
LEMMA OnlyReceiveStarts ==
  ASSUME ProducerTypeOK, MapInv, ProducerSteps,
         NEW p \in Producers, NEW k \in Calls,
         Unstarted(<<p, k>>), ~ReceiveConsumer(p, k)
  PROVE  Unstarted(<<p, k>>)'
<1> USE DEF ProducerTypeOK
<1> DEFINE c == <<p, k>>
<1>0. c \in Consumers
  BY ProducerAssumption
<1>1. ASSUME con'[c] = con[c] PROVE Unstarted(c)'
  BY <1>1 DEF Unstarted
<1>2. SameCons \/ ConsKept => Unstarted(c)'
  BY <1>0 DEF SameCons, SameCon, SameFields, ConsKept, ConKept, Unstarted
<1>3. ASSUME NEW d \in Consumers, con' = [con EXCEPT ![d] = CloseBegin(con[d])]
      PROVE  Unstarted(c)'
  <2>1. con'[c] = con[c] \/ con'[c] = CloseBegin(con[c])
    BY <1>0, <1>3 DEF ConsumerTypeOK
  <2> QED
    BY <1>0, <1>1, <2>1, CloseFields DEF ConsumerTypeOK, Unstarted
<1>4. ASSUME NEW q \in Producers, MainStep(q)
      PROVE  Unstarted(c)'
  <2>1. CASE \/ OpenDemuxer(q) \/ GetStreams(q) \/ LoopExit(q)
             \/ RunDemuxerRemover(q) \/ CloseDemuxer(q) \/ Finish(q)
    BY <1>2, <2>1, MainMovesOnly DEF MainMoves
  <2>2. CASE MainReceive(q)
    <3>1. PICK j \in Calls : ReceiveConsumer(q, j)
      BY <2>2 DEF MainReceive
    <3>2. <<q, j>> # c
      BY <3>1
    <3> QED
      BY <1>0, <1>1, <3>1, <3>2 DEF ReceiveConsumer, ConsumerTypeOK
  <2>3. CASE SpawnConsumer(q)
    <3>1. /\ con[<<q, prod[q].cur>>].cancel
          /\ con' = [con EXCEPT ![<<q, prod[q].cur>>] = Spawned(@)]
      BY <2>3 DEF SpawnConsumer, MapInv, SweepProgress
    <3>2. <<q, prod[q].cur>> # c
      BY <3>1 DEF Unstarted
    <3> QED
      BY <1>0, <1>1, <3>1, <3>2 DEF ConsumerTypeOK
  <2>4. CASE CloseOne(q)
    <3>1. PICK j \in prod[q].todo :
            \/ UNCHANGED con
            \/ con' = [con EXCEPT ![<<q, j>>] = CloseBegin(@)]
      BY <2>4 DEF CloseOne
    <3>2. <<q, j>> \in Consumers
      BY ProducerAssumption, MembersTyped
    <3> QED
      BY <1>1, <1>3, <3>1, <3>2
  <2>5. CASE UNCHANGED con
    BY <1>1, <2>5
  <2> QED
    BY <1>4, <2>1, <2>2, <2>3, <2>4, <2>5
       DEF MainStep, MainWork, ExitBegin, ClosedOne, SweepEnd, ExitEnd,
           SweepBegin
<1>5. ASSUME NEW j \in Calls, CallStep(j)
      PROVE  Unstarted(c)'
  <2>1. CASE HandHeader(j)
    <3>1. /\ con[<<call[j].prod, j>>].pc = "waitHeader"
          /\ con' = [con EXCEPT ![<<call[j].prod, j>>] = TakeStreams(@)]
      BY <2>1 DEF HandHeader
    <3> QED
      BY <1>0, <1>1, <3>1 DEF Unstarted, ConsumerTypeOK
  <2>2. CASE InsertConsumer(j) /\ ~HasId(call[j].prod, IdOf[j])
    <3>1. con'[c] = con[c] \/ con'[c] = NewConsumer
      BY <1>0, <2>2 DEF InsertConsumer, ConsumerTypeOK
    <3> QED
      BY <1>1, <3>1 DEF Unstarted, NewConsumer
  <2>3. CASE ~HandHeader(j)
             /\ ~(InsertConsumer(j) /\ ~HasId(call[j].prod, IdOf[j]))
    <3>1. CallsHaveProducers
      BY DEF MapInv, FreshByCall, CallsHaveProducers
    <3>2. CallMoves(j)
      BY <1>5, <2>3, <3>1, CallMovesOnly DEF CallStep, CallWork, CallCancelled
    <3> QED
      BY <1>2, <3>2 DEF CallMoves
  <2> QED
    BY <2>1, <2>2, <2>3
<1>6. ASSUME NEW r \in Removers, RemoveClose(r)
      PROVE  Unstarted(c)'
  <2>1. \/ UNCHANGED con
        \/ con' = [con EXCEPT ![rem[r].con] = CloseBegin(@)]
    BY <1>6 DEF RemoveClose
  <2>2. rem[r].con \in Consumers \/ UNCHANGED con
    BY <1>6, <2>1 DEF ConsumerTypeOK, RemoverRecords
  <2> QED
    BY <1>1, <1>3, <2>1, <2>2
<1>7. ASSUME NEW d \in Consumers, ConsumerNext(d)
      PROVE  Unstarted(c)'
  BY <1>2, <1>7, ConsumerStepKept DEF ConsumerNext, MapInv
<1>8. ASSUME NEW q \in Producers, ReaderStep(q)
      PROVE  Unstarted(c)'
  BY <1>2, <1>8, ReaderNeutral DEF Neutral
<1>9. CASE UNCHANGED con
  BY <1>1, <1>9
<1> QED
  BY <1>4, <1>5, <1>6, <1>7, <1>8, <1>9
     DEF ProducerSteps, Pause, Resume, CancelCall, RemoverWork, RemoverStart,
         RemoveLookup, RemoveReturn

(***************************************************************************)
(* The invariant and what follows from it.                                 *)
(***************************************************************************)
LEMMA MembershipInit == ProducerInit => MembershipInv
<1> SUFFICES ASSUME ProducerInit PROVE MembershipInv
  OBVIOUS
<1>1. \A c \in Consumers : con[c] = NewConsumer
  BY DEF ProducerInit, ConsumerInit
<1>2. \A p \in Producers : prod[p] = NewProducer
  BY DEF ProducerInit
<1>3. \A k \in Calls : call[k].pc = "idle"
  BY DEF ProducerInit
<1>4. \A c \in Consumers : Unstarted(c) /\ ~Running(c) /\ ~MuxOpen(c)
  BY <1>1 DEF Unstarted, Running, MuxOpen, NewConsumer
<1>5. \A p \in Producers :
        /\ prod[p].pc = "none" /\ prod[p].members = {}
  BY <1>2 DEF NewProducer
<1>6. \A p \in Producers, k \in Calls : <<p, k>> \in Consumers
  BY ProducerAssumption
<1>7. MapInv
  BY <1>3, <1>4, <1>5, <1>6
     DEF MapInv, UniqueIds, QuietMembers, FreshByCall, SweepProgress,
         LostIsClosing, Inserted, ClosingIsAwaited, RunningIsFound,
         OpenMuxerRuns, Sweeping, Waiting
<1>8. StartedByCall
  BY <1>4, <1>6 DEF StartedByCall
<1> QED
  BY <1>7, <1>8 DEF MembershipInv

(* The steps of the goroutines keep the map in step, whoever calls them.     *)
LEMMA StepsKeepMap ==
  ASSUME ProducerTypeOK, MapInv, ProducerSteps
  PROVE  MapInv'
<1>1. ASSUME NEW p \in Producers, MainStep(p)
      PROVE  MapInv'
  <2>1. CASE \/ OpenDemuxer(p) \/ GetStreams(p) \/ LoopExit(p)
             \/ RunDemuxerRemover(p) \/ CloseDemuxer(p) \/ Finish(p)
    BY <2>1, MainMovesOnly, MainMovesKeep
  <2>2. CASE MainReceive(p)
    BY <2>2, ReceiveKeeps DEF MainReceive
  <2>3. CASE SpawnConsumer(p)
    BY <2>3, SpawnKeeps
  <2>4. CASE SweepBegin(p) \/ ExitBegin(p)
    BY <2>4, SweepStartsKeep
  <2>5. CASE CloseOne(p)
    BY <2>5, CloseOneKeeps
  <2>6. CASE ClosedOne(p)
    BY <2>6, ClosedOneKeeps
  <2>7. CASE SweepEnd(p)
    BY <2>7, SweepEndKeeps
  <2>8. CASE ExitEnd(p)
    BY <2>8, ExitEndKeeps
  <2> QED
    BY <1>1, <2>1, <2>2, <2>3, <2>4, <2>5, <2>6, <2>7, <2>8
       DEF MainStep, MainWork
<1>2. ASSUME NEW p \in Producers,
             ReaderStep(p) \/ Pause(p) \/ Resume(p)
      PROVE  MapInv'
  BY <1>2, ReaderNeutral, EnvNeutral, QuietSteps
<1>3. CallsHaveProducers
  BY DEF MapInv, FreshByCall, CallsHaveProducers
<1>4. ASSUME NEW k \in Calls, CallStep(k)
      PROVE  MapInv'
  <2>1. CASE HandHeader(k)
    BY <2>1, QuietSteps
  <2>2. CASE InsertConsumer(k) /\ ~HasId(call[k].prod, IdOf[k])
    BY <2>2, InsertKeeps
  <2>3. CASE ~HandHeader(k)
             /\ ~(InsertConsumer(k) /\ ~HasId(call[k].prod, IdOf[k]))
    <3>1. CallMoves(k)
      BY <1>3, <1>4, <2>3, CallMovesOnly
         DEF CallStep, CallWork, CallCancelled
    <3> QED
      BY <3>1, QuietSteps
  <2> QED
    BY <2>1, <2>2, <2>3
<1>5. ASSUME NEW k \in Calls, CancelCall(k)
      PROVE  MapInv'
  <2>1. SameCalls
    BY <1>5 DEF CancelCall, SameCalls, SameCall, ProducerTypeOK, CallRecords
  <2>2. Neutral
    BY <1>5, <2>1, Stays DEF CancelCall, Neutral
  <2> QED
    BY <2>2, QuietSteps
<1>6. ASSUME NEW r \in Removers, RemoverWork(r) \/ RemoverStart(r)
      PROVE  MapInv'
  BY <1>6, RemoverKeeps
<1>7. ASSUME NEW c \in Consumers, ConsumerNext(c)
      PROVE  MapInv'
  BY <1>7, QuietSteps
<1> QED
  BY <1>1, <1>2, <1>4, <1>5, <1>6, <1>7 DEF ProducerSteps

LEMMA MapStep ==
  ASSUME ProducerTypeOK, MembershipInv, [ProducerNext]_pvars
  PROVE  MapInv'
<1> USE DEF MembershipInv
<1>1. CASE ProducerSteps
  BY <1>1, StepsKeepMap
<1>2. ASSUME NEW p \in Producers, EnvStart(p)
      PROVE  MapInv'
  BY <1>2, MainMovesOnly, MainMovesKeep
<1>3. ASSUME NEW p \in Producers, EnvClose(p) \/ EnvParentDone(p)
      PROVE  MapInv'
  BY <1>3, EnvNeutral, QuietSteps
<1>4. ASSUME NEW k \in Calls, NEW p \in Producers, EnvCall(k, p)
      PROVE  MapInv'
  <2>1. /\ call[k].pc = "idle" /\ call'[k].pc = "chkClosing"
        /\ call'[k].prod = p
        /\ \A j \in Calls \ {k} : SameCall(j)
    BY <1>4 DEF EnvCall, ProducerTypeOK, CallRecords, SameCall
  <2>2. Unstarted(<<p, k>>)
    BY <2>1 DEF StartedByCall
  <2>3. CallMoves(k)
    BY <1>4, <2>1, <2>2, Stays DEF EnvCall, CallMoves, Begins
  <2> QED
    BY <2>3, QuietSteps
<1>5. CASE UNCHANGED pvars
  <2>1. Neutral
    BY <1>5, Stays DEF pvars, Neutral
  <2> QED
    BY <2>1, QuietSteps
<1> QED
  BY <1>1, <1>2, <1>3, <1>4, <1>5 DEF ProducerNext

LEMMA StartedStep ==
  ASSUME ProducerTypeOK, MembershipInv, [ProducerNext]_pvars
  PROVE  StartedByCall'
<1> USE DEF MembershipInv
<1>1. CASE ProducerSteps
  <2> SUFFICES ASSUME NEW p \in Producers, NEW k \in Calls,
                      ~Unstarted(<<p, k>>)'
               PROVE  call'[k].prod = p /\ call'[k].pc \in {"header", "ret"}
    BY DEF StartedByCall
  <2>1. CASE ReceiveConsumer(p, k)
    BY <2>1 DEF ReceiveConsumer, ProducerTypeOK, CallRecords
  <2>2. CASE ~ReceiveConsumer(p, k)
    BY <1>1, <2>2, OnlyReceiveStarts, CallsProceed
       DEF StartedByCall, CallProceeds
  <2> QED
    BY <2>1, <2>2
<1>2. ASSUME NEW p \in Producers,
             EnvStart(p) \/ EnvClose(p) \/ EnvParentDone(p)
      PROVE  StartedByCall'
  <2>1. SameCons /\ UNCHANGED call
    BY <1>2, EnvNeutral, Stays
       DEF Neutral, EnvStart, EnvClose, EnvParentDone
  <2> QED
    BY <2>1, ProducerAssumption
       DEF SameCons, SameCon, SameFields, StartedByCall, Unstarted
<1>3. ASSUME NEW k \in Calls, NEW p \in Producers, EnvCall(k, p)
      PROVE  StartedByCall'
  BY <1>3 DEF EnvCall, ProducerTypeOK, StartedByCall, Unstarted
<1>4. CASE UNCHANGED pvars
  BY <1>4 DEF pvars, StartedByCall, Unstarted
<1> QED
  BY <1>1, <1>2, <1>3, <1>4 DEF ProducerNext

LEMMA MembershipStep ==
  ASSUME ProducerTypeOK, MembershipInv, [ProducerNext]_pvars
  PROVE  MembershipInv'
BY MapStep, StartedStep DEF MembershipInv

(* In every behaviour, whatever the calls, the sweeps and the shutdown       *)
(* interleave to, the map and the running goroutines stay in step.           *)
THEOREM MembershipCorrect == ProducerSpec => []MembershipInv
BY TypeCorrect, MembershipInit, MembershipStep, PTL DEF ProducerSpec

LEMMA MapKeepsApart ==
  ASSUME MapInv
  PROVE  UniqueIds /\ RunningIsMember /\ OneMuxerPerId /\ LeftoversNeverRun
<1> USE DEF MapInv
<1>1. RunningIsMember
  BY DEF RunningIsFound, RunningIsMember
<1>2. OneMuxerPerId
  <2> SUFFICES ASSUME NEW p \in Producers, NEW j \in Calls, NEW k \in Calls,
                      j # k, SameId(j, k),
                      MuxOpen(<<p, j>>), MuxOpen(<<p, k>>),
                      ~Detached(<<p, j>>), ~Detached(<<p, k>>)
               PROVE  FALSE
    BY DEF OneMuxerPerId
  <2>1. Running(<<p, j>>) /\ Running(<<p, k>>)
    BY ProducerAssumption DEF OpenMuxerRuns, Running
  <2>2. j \in prod[p].members /\ k \in prod[p].members
    BY <2>1 DEF RunningIsFound
  <2> QED
    BY <2>2 DEF UniqueIds
<1>3. LeftoversNeverRun
  BY DEF QuietMembers, Unstarted, LeftoversNeverRun
<1> QED
  BY <1>1, <1>2, <1>3

(* No two members of a producer have the same consumer ID.                   *)
THEOREM UniqueIdsCorrect == ProducerSpec => []UniqueIds
<1>1. MembershipInv => UniqueIds
  BY MapKeepsApart DEF MembershipInv
<1> QED
  BY <1>1, MembershipCorrect, PTL

(* A running consumer can be found in the map, or is detached.               *)
THEOREM RunningIsMemberCorrect == ProducerSpec => []RunningIsMember
<1>1. MembershipInv => RunningIsMember
  BY MapKeepsApart DEF MembershipInv
<1> QED
  BY <1>1, MembershipCorrect, PTL

(* One consumer ID has one muxer open, unless one consumer is detached.      *)
THEOREM OneMuxerPerIdCorrect == ProducerSpec => []OneMuxerPerId
<1>1. MembershipInv => OneMuxerPerId
  BY MapKeepsApart DEF MembershipInv
<1> QED
  BY <1>1, MembershipCorrect, PTL

(* What an AddConsumer leaves behind after the shutdown is never started.    *)
THEOREM LeftoversNeverRunCorrect == ProducerSpec => []LeftoversNeverRun
<1>1. MembershipInv => LeftoversNeverRun
  BY MapKeepsApart DEF MembershipInv
<1> QED
  BY <1>1, MembershipCorrect, PTL
=============================================================================
