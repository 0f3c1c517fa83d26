---------------------------- MODULE FanoutProofs -----------------------------
(***************************************************************************)
(* What the producers promise, for every number of producers, calls,       *)
(* removers and packets and every capacity of the queues.  To the callers: *)
(* RemoverIsHeard, FailedAddIsInactive and NilMeansHeaderTaken of          *)
(* ProducerProperties, about RemoveConsumer and AddConsumer.  To the       *)
(* consumers: InOrder, and that the read loop of each producer, with its   *)
(* queues, implements the abstract broadcast of Fanout (FansOut).          *)
(***************************************************************************)
EXTENDS ProducerProofs

(***************************************************************************)
(* What the callers are promised: the inductive invariant.                 *)
(***************************************************************************)
(* A goroutine has a context, and if its consumer has been closed then that  *)
(* is done, or the goroutine came later.                                     *)
Hears(r) ==
  r.pc \notin {"none", "done"} => r.cancel /\ (r.closing => r.ctxDone \/ r.late)

AllHear == \A c \in Consumers : Hears(con[c])

(* The consumer of the call is in the map, or was: it will not be made again.*)
IsPast(k) == call[k].pc \notin {"idle", "chkClosing", "chkStarted", "insert"}

MembersArePast == \A p \in Producers : \A k \in prod[p].members : IsPast(k)

(* What a RemoveConsumer has looked up was a member.                         *)
RemovedArePast ==
  \A r \in Removers :
    rem[r].pc # "idle" =>
      \E p \in Producers, k \in Calls : rem[r].con = <<p, k>> /\ IsPast(k)

AwaitedAreClosing ==
  \A r \in Removers : rem[r].pc = "wait" => con[rem[r].con].closing

HearingInv ==
  /\ AllHear
  /\ MembersArePast
  /\ RemovedArePast
  /\ AwaitedAreClosing

(***************************************************************************)
(* The operations on a consumer keep its hearing, and what is closing,     *)
(* inactive or past the streams.                                           *)
(***************************************************************************)
StillHears(r, s) ==
  /\ Hears(r) => Hears(s)
  /\ r.closing => s.closing
  /\ r.inactive => s.inactive
  /\ r.pc \notin {"none", "waitHeader"} => s.pc \notin {"none", "waitHeader"}

LEMMA RecordHears ==
  ASSUME NEW c \in Consumers, NEW r \in ConsumerRecords
  PROVE  /\ StillHears(r, r)
         /\ StillHears(r, SetLastError(c, r))
         /\ StillHears(r, SetInactive(r))
         /\ StillHears(r, CloseBegin(r))
         /\ StillHears(r, ContextDone(r))
         /\ StillHears(r, CloseStreams(r))
         /\ StillHears(r, GiveNoStreams(c, r))
         /\ \A pkt \in Nat : StillHears(r, Enqueue(r, pkt))
         /\ r.pc \notin {"none", "done"} =>
              /\ StillHears(r, TakeStreams(r))
              /\ StillHears(r, Unwind(r))
              /\ StillHears(r, Unwind(SetLastError(c, r)))
         /\ r.pc = "none" =>
              \A done \in BOOLEAN : StillHears(r, DeriveContext(r, done))
         /\ r.pc = "none" /\ r.cancel => StillHears(r, Spawned(r))
<1> USE DEF ConsumerRecords, StillHears, Hears
<1>1. /\ StillHears(r, r)
      /\ StillHears(r, SetLastError(c, r))
      /\ StillHears(r, SetInactive(r))
      /\ StillHears(r, CloseBegin(r))
  BY DEF SetLastError, SetInactive, CloseBegin
<1>2. /\ StillHears(r, ContextDone(r))
      /\ StillHears(r, CloseStreams(r))
      /\ StillHears(r, GiveNoStreams(c, r))
  BY DEF ContextDone, CloseStreams, GiveNoStreams, SetLastError
<1>3. \A pkt \in Nat : StillHears(r, Enqueue(r, pkt))
  BY DEF Enqueue
<1>4. r.pc \notin {"none", "done"} =>
        /\ StillHears(r, TakeStreams(r))
        /\ StillHears(r, Unwind(r))
        /\ StillHears(r, Unwind(SetLastError(c, r)))
  BY DEF TakeStreams, Unwind, SetLastError
<1>5. r.pc = "none" =>
        \A done \in BOOLEAN : StillHears(r, DeriveContext(r, done))
  BY DEF DeriveContext
<1>6. r.pc = "none" /\ r.cancel => StillHears(r, Spawned(r))
  BY DEF Spawned
<1> QED
  BY <1>1, <1>2, <1>3, <1>4, <1>5, <1>6

(* What a step does to the consumers, all of them or those of other calls.   *)
ConsHear == \A c \in Consumers : StillHears(con[c], con'[c])

LEMMA OneHears ==
  ASSUME ConsumerTypeOK, NEW c \in Consumers, NEW r, StillHears(con[c], r),
         con' = [con EXCEPT ![c] = r]
  PROVE  ConsHear
BY RecordHears DEF ConsumerTypeOK, ConsHear

LEMMA AllStay == ConsumerTypeOK /\ UNCHANGED con => ConsHear
BY RecordHears DEF ConsumerTypeOK, ConsHear

LEMMA CancelHears ==
  ASSUME ConsumerTypeOK, NEW p \in Producers, con' = CancelChildren(p)
  PROVE  ConsHear
<1>1. ASSUME NEW c \in Consumers PROVE StillHears(con[c], con'[c])
  <2>1. con[c] \in ConsumerRecords
    BY DEF ConsumerTypeOK
  <2>2. con'[c] = ContextDone(con[c]) \/ con'[c] = con[c]
    BY DEF CancelChildren
  <2> QED
    BY <2>1, <2>2, RecordHears
<1> QED
  BY <1>1 DEF ConsHear

LEMMA ConsumerStepHears ==
  ASSUME ConsumerTypeOK, NEW c \in Consumers, ConsumerStep(c)
  PROVE  ConsHear
<1>0. con[c] \in ConsumerRecords
  BY DEF ConsumerTypeOK
<1>1. ASSUME con[c].pc \notin {"none", "done"}, NEW s,
             s = Unwind(con[c]) \/ s = Unwind(SetLastError(c, con[c])),
             con' = [con EXCEPT ![c] = s]
      PROVE  ConsHear
  BY <1>0, <1>1, RecordHears, OneHears
(* The steps that change the counter, the queue or the muxer.                *)
<1>2. ASSUME con[c].pc \notin {"none", "done"}, NEW s,
             con' = [con EXCEPT ![c] = s],
             s.cancel = con[c].cancel, s.closing = con[c].closing,
             s.late = con[c].late, con[c].ctxDone => s.ctxDone,
             con[c].inactive => s.inactive, s.pc \notin {"none", "waitHeader"}
      PROVE  ConsHear
  <2>1. StillHears(con[c], s)
    BY <1>2 DEF StillHears, Hears
  <2> QED
    BY <1>2, <2>1, OneHears
<1> USE DEF ConsumerRecords
<1>3. CASE WaitCancelled(c)
  BY <1>1, <1>3 DEF WaitCancelled
<1>4. CASE WaitClosed(c)
  BY <1>1, <1>4 DEF WaitClosed
<1>5. CASE OpenMuxer(c)
  <2>1. CASE con' = [con EXCEPT ![c].pc = "header", ![c].mux = "open"]
    <3> DEFINE s == [con[c] EXCEPT !.pc = "header", !.mux = "open"]
    <3>1. con' = [con EXCEPT ![c] = s]
      BY <2>1
    <3> QED
      BY <1>0, <1>2, <1>5, <3>1 DEF OpenMuxer
  <2> QED
    BY <1>1, <1>5, <2>1 DEF OpenMuxer
<1>6. CASE WriteMuxHeader(c)
  <2>1. CASE con' = [con EXCEPT ![c].pc = "loop", ![c].mux = "header"]
    <3> DEFINE s == [con[c] EXCEPT !.pc = "loop", !.mux = "header"]
    <3>1. con' = [con EXCEPT ![c] = s]
      BY <2>1
    <3> QED
      BY <1>0, <1>2, <1>6, <3>1 DEF WriteMuxHeader
  <2> QED
    BY <1>1, <1>6, <2>1 DEF WriteMuxHeader
<1>7. CASE LoopCancelled(c)
  BY <1>1, <1>7 DEF LoopCancelled
<1>8. CASE Dequeue(c)
  BY <1>0, <1>2, <1>8 DEF Dequeue
<1>9. CASE WriteMuxPacket(c)
  BY <1>0, <1>1, <1>2, <1>9 DEF WriteMuxPacket
<1>10. CASE CloseMuxer(c)
  BY <1>0, <1>2, <1>10 DEF CloseMuxer
<1>11. CASE RunMuxerRemover(c)
  BY <1>0, <1>2, <1>11 DEF RunMuxerRemover
<1> QED
  BY <1>3, <1>4, <1>5, <1>6, <1>7, <1>8, <1>9, <1>10, <1>11 DEF ConsumerStep

LEMMA MainHears ==
  ASSUME ProducerTypeOK, MembershipInv, NEW p \in Producers, MainStep(p)
  PROVE  ConsHear
<1> USE DEF ProducerTypeOK
<1>0. \A k \in Calls : <<p, k>> \in Consumers /\ con[<<p, k>>] \in ConsumerRecords
  BY ProducerAssumption DEF ConsumerTypeOK
<1>1. CASE MainReceive(p)
  <2>1. PICK k \in Calls : ReceiveConsumer(p, k)
    BY <1>1 DEF MainReceive
  <2>2. con[<<p, k>>].pc = "none"
    BY <2>1
       DEF ReceiveConsumer, MembershipInv, MapInv, FreshByCall, StartedByCall, Unstarted
  <2>3. prod[p].ctxDone \in BOOLEAN
    BY DEF ProducerRecords
  <2>4. StillHears(con[<<p, k>>], DeriveContext(con[<<p, k>>], prod[p].ctxDone))
    BY <1>0, <2>2, <2>3, RecordHears
  <2> QED
    BY <1>0, <2>1, <2>4, OneHears DEF ReceiveConsumer
<1>2. CASE SpawnConsumer(p)
  <2>1. /\ prod[p].cur \in Calls
        /\ con[<<p, prod[p].cur>>].pc = "none"
        /\ con[<<p, prod[p].cur>>].cancel
    BY <1>2 DEF SpawnConsumer, MembershipInv, MapInv, SweepProgress
  <2>2. StillHears(con[<<p, prod[p].cur>>], Spawned(con[<<p, prod[p].cur>>]))
    BY <1>0, <2>1, RecordHears
  <2> QED
    BY <1>0, <1>2, <2>1, <2>2, OneHears DEF SpawnConsumer
<1>3. CASE CloseOne(p)
  <2>1. PICK k \in prod[p].todo :
          \/ UNCHANGED con
          \/ con' = [con EXCEPT ![<<p, k>>] = CloseBegin(con[<<p, k>>])]
    BY <1>3 DEF CloseOne
  <2>2. k \in Calls
    BY DEF ProducerRecords
  <2>3. StillHears(con[<<p, k>>], CloseBegin(con[<<p, k>>]))
    BY <1>0, <2>2, RecordHears
  <2> QED
    BY <1>0, <2>1, <2>2, <2>3, OneHears, AllStay
<1>4. CASE Finish(p)
  BY <1>4, CancelHears DEF Finish
<1>5. CASE UNCHANGED con
  BY <1>5, AllStay
<1> QED
  BY <1>1, <1>2, <1>3, <1>4, <1>5
     DEF MainStep, MainWork, OpenDemuxer, GetStreams, ExitBegin, ClosedOne,
         SweepEnd, ExitEnd, RunDemuxerRemover, CloseDemuxer, SweepBegin,
         LoopExit

LEMMA ReaderHears ==
  ASSUME ProducerTypeOK, NEW p \in Producers, ReaderStep(p)
  PROVE  ConsHear
<1> USE DEF ProducerTypeOK
<1>1. CASE DeliverPacket(p)
  <2> DEFINE c == <<p, prod[p].tgt>>
  <2>1. c \in Consumers
    BY <1>1, ProducerAssumption DEF DeliverPacket, ProducerRecords
  <2>2. prod[p].pkts \in Nat
    BY ConsumerAssumption DEF ProducerRecords
  <2>3. StillHears(con[c], Enqueue(con[c], prod[p].pkts))
    BY <2>1, <2>2, RecordHears DEF ConsumerTypeOK
  <2> QED
    BY <1>1, <2>1, <2>3, OneHears DEF DeliverPacket
<1>2. CASE UNCHANGED con
  BY <1>2, AllStay
<1> QED
  BY <1>1, <1>2
     DEF ReaderStep, ReaderWork, ReadReturns, ReaderTick, ReaderPick,
         PickTarget, WriteDone, ReadPacket, ReadError, ReaderCancelled,
         WriteCancelled

(* The calls other than the insertion, which makes a consumer anew.          *)
LEMMA CallHears ==
  ASSUME ProducerTypeOK, MembershipInv, NEW k \in Calls, CallStep(k),
         ~InsertConsumer(k)
  PROVE  ConsHear
<1> USE DEF ProducerTypeOK
<1> DEFINE c == <<call[k].prod, k>>
<1>0. call[k].pc # "idle" => c \in Consumers /\ con[c] \in ConsumerRecords
  BY ProducerAssumption
     DEF MembershipInv, MapInv, FreshByCall, StartedByCall, ConsumerTypeOK
<1>1. CASE UNCHANGED con
  BY <1>1, AllStay
<1>2. CASE AwaitCodecs(k)
  <2>1. con' = [con EXCEPT ![c] = SetLastError(c, con[c])] \/ UNCHANGED con
    BY <1>2 DEF AwaitCodecs
  <2> QED
    BY <1>0, <1>1, <1>2, <2>1, RecordHears, OneHears DEF AwaitCodecs
<1>3. CASE AwaitCodecsCancelled(k)
  BY <1>0, <1>3, RecordHears, OneHears DEF AwaitCodecsCancelled
<1>4. CASE SendCancelled(k)
  BY <1>0, <1>4, RecordHears, OneHears DEF SendCancelled
<1>5. CASE HandHeader(k)
  <2>1. /\ call[k].pc = "header" /\ con[c].pc = "waitHeader"
        /\ con' = [con EXCEPT ![c] = TakeStreams(con[c])]
    BY <1>5 DEF HandHeader
  <2>2. StillHears(con[c], TakeStreams(con[c]))
    BY <1>0, <2>1, RecordHears
  <2> QED
    BY <1>0, <2>1, <2>2, OneHears
<1>6. CASE HeaderNoStreams(k)
  <2>1. /\ call[k].pc = "header"
        /\ con' = [con EXCEPT ![c] = GiveNoStreams(c, con[c])]
    BY <1>6 DEF HeaderNoStreams
  <2>2. StillHears(con[c], GiveNoStreams(c, con[c]))
    BY <1>0, <2>1, RecordHears
  <2> QED
    BY <1>0, <2>1, <2>2, OneHears
<1>7. CASE HeaderCancelled(k)
  BY <1>0, <1>7, RecordHears, OneHears DEF HeaderCancelled
<1> QED
  BY <1>1, <1>2, <1>3, <1>4, <1>5, <1>6, <1>7
     DEF CallStep, CallWork, CallCancelled, CheckClosing, CheckStarted

(***************************************************************************)
(* Past the insertion a call does not come back.                           *)
(***************************************************************************)
CallsGoOn == \A k \in Calls : IsPast(k) => IsPast(k)'

LEMMA CallsOnlyGoOn ==
  ASSUME ProducerTypeOK, ProducerNext
  PROVE  CallsGoOn
<1> USE DEF ProducerTypeOK, CallsGoOn, IsPast
<1>1. ASSUME NEW k \in Calls, CallStep(k)
      PROVE  CallsGoOn
  <2>1. ASSUME NEW res, call' = Return(k, res)
        PROVE  CallsGoOn
    BY <2>1 DEF Return, CallRecords
  <2>2. ASSUME call[k].pc \in {"chkClosing", "chkStarted", "insert"},
               NEW pc, call' = [call EXCEPT ![k].pc = pc]
        PROVE  CallsGoOn
    BY <2>2 DEF CallRecords
  <2>3. ASSUME NEW pc \in {"getCodecs", "send"},
               call' = [call EXCEPT ![k].pc = pc]
        PROVE  CallsGoOn
    BY <2>3 DEF CallRecords
  <2>4. CASE CheckClosing(k) \/ CheckStarted(k)
    BY <2>1, <2>2, <2>4 DEF CheckClosing, CheckStarted
  <2>5. CASE InsertConsumer(k) \/ AwaitCodecs(k)
    BY <2>1, <2>3, <2>5 DEF InsertConsumer, AwaitCodecs
  <2>6. CASE HandHeader(k) \/ HeaderNoStreams(k) \/ CallCancelled(k)
    BY <2>1, <2>6 DEF HandHeader, HeaderNoStreams, CallCancelled,
                      AwaitCodecsCancelled, SendCancelled, HeaderCancelled
  <2> QED
    BY <1>1, <2>4, <2>5, <2>6 DEF CallStep, CallWork
<1>2. ASSUME NEW k \in Calls, NEW p \in Producers,
             CancelCall(k) \/ EnvCall(k, p) \/ ReceiveConsumer(p, k)
      PROVE  CallsGoOn
  BY <1>2 DEF CancelCall, EnvCall, ReceiveConsumer, CallRecords
<1>3. ASSUME NEW k \in Calls, CancelCall(k)
      PROVE  CallsGoOn
  BY <1>3 DEF CancelCall, CallRecords
<1>4. ASSUME UNCHANGED call
      PROVE  CallsGoOn
  BY <1>4
<1>5. ASSUME NEW p \in Producers, MainStep(p)
      PROVE  CallsGoOn
  BY <1>2, <1>4, <1>5, MainFrame DEF MainReceive
<1> QED
  BY <1>1, <1>2, <1>3, <1>4, <1>5, ReaderFrame
     DEF ProducerNext, ProducerSteps, Pause, Resume, RemoverWork,
         RemoverStart, RemoveLookup, RemoveClose, RemoveReturn, ConsumerNext,
         EnvStart, EnvClose, EnvParentDone

(* A step that takes nobody into a map and looks nobody up.                  *)
MembersShrink ==
  \A p \in Producers : prod'[p].members \subseteq prod[p].members

LEMMA QuietHearing ==
  ASSUME ProducerTypeOK, HearingInv, CallsGoOn, ConsHear, MembersShrink,
         UNCHANGED rem
  PROVE  HearingInv'
<1> USE DEF HearingInv
<1>0. \A p \in Producers, k \in Calls : <<p, k>> \in Consumers
  BY ProducerAssumption
<1>1. AllHear'
  BY DEF AllHear, ConsHear, StillHears
<1>2. MembersArePast'
  BY DEF MembersArePast, MembersShrink, CallsGoOn, ProducerTypeOK,
         ProducerRecords
<1>3. RemovedArePast'
  BY DEF RemovedArePast, CallsGoOn
<1>4. AwaitedAreClosing'
  BY <1>0 DEF AwaitedAreClosing, RemovedArePast, ConsHear, StillHears
<1> QED
  BY <1>1, <1>2, <1>3, <1>4

LEMMA OnlyInsertTakesIn ==
  ASSUME ProducerTypeOK, ProducerNext, ~(\E k \in Calls : InsertConsumer(k))
  PROVE  MembersShrink
<1> USE DEF ProducerTypeOK
<1>1. UNCHANGED prod => MembersShrink
  BY DEF MembersShrink
<1>2. SameProds => MembersShrink
  BY DEF SameProds, SameProd, SameSets, MembersShrink
<1>3. ASSUME NEW p \in Producers, MainStep(p)
      PROVE  MembersShrink
  <2>1. CASE \/ OpenDemuxer(p) \/ GetStreams(p) \/ LoopExit(p)
             \/ RunDemuxerRemover(p) \/ CloseDemuxer(p) \/ Finish(p)
    BY <2>1, MainMovesOnly
       DEF MainMoves, SameSets, SameProd, MembersShrink
  <2>2. CASE MainReceive(p)
    <3>1. PICK k \in Calls : ReceiveConsumer(p, k)
      BY <2>2 DEF MainReceive
    <3> QED
      BY <3>1 DEF ReceiveConsumer, ProducerRecords, MembersShrink
  <2>3. CASE SweepBegin(p) \/ ExitBegin(p)
    BY <2>3 DEF SweepBegin, ExitBegin, ProducerRecords, MembersShrink
  <2>4. CASE SpawnConsumer(p) \/ ClosedOne(p)
    BY <2>4 DEF SpawnConsumer, ClosedOne, ProducerRecords, MembersShrink
  <2>5. CASE SweepEnd(p) \/ ExitEnd(p)
    BY <2>5 DEF SweepEnd, ExitEnd, Without, ProducerRecords, MembersShrink
  <2>6. CASE CloseOne(p)
    <3>1. prod'[p].members = prod[p].members
      BY <2>6 DEF CloseOne, ProducerRecords
    <3>2. \A q \in Producers \ {p} : prod'[q] = prod[q]
      BY <2>6 DEF CloseOne
    <3> QED
      BY <3>1, <3>2 DEF MembersShrink
  <2> QED
    BY <1>3, <2>1, <2>2, <2>3, <2>4, <2>5, <2>6 DEF MainStep, MainWork
<1>4. ASSUME NEW p \in Producers,
             ReaderStep(p) \/ Pause(p) \/ Resume(p) \/ EnvClose(p)
             \/ EnvParentDone(p)
      PROVE  MembersShrink
  BY <1>2, <1>4, ReaderNeutral, EnvNeutral DEF Neutral
<1>5. ASSUME NEW p \in Producers, EnvStart(p)
      PROVE  MembersShrink
  BY <1>5, MainMovesOnly DEF MainMoves, SameSets, SameProd, MembersShrink
<1> QED
  BY <1>1, <1>3, <1>4, <1>5, CallFrame
     DEF ProducerNext, ProducerSteps, CancelCall, RemoverWork, RemoverStart,
         RemoveLookup, RemoveClose, RemoveReturn, ConsumerNext, EnvCall

LEMMA LookedUpExists ==
  ASSUME RemovedArePast, NEW r \in Removers, rem[r].pc # "idle"
  PROVE  rem[r].con \in Consumers
<1>1. PICK p \in Producers, k \in Calls : rem[r].con = <<p, k>> /\ IsPast(k)
  BY DEF RemovedArePast
<1>2. <<p, k>> \in Consumers
  BY ProducerAssumption
<1> QED
  BY <1>1, <1>2

LEMMA RemoverHears ==
  ASSUME ProducerTypeOK, RemovedArePast, NEW r \in Removers,
         RemoverWork(r) \/ RemoverStart(r)
  PROVE  ConsHear
<1> USE DEF ProducerTypeOK
<1>1. CASE RemoveClose(r)
  <2>1. CASE UNCHANGED con
    BY <2>1, AllStay
  <2>2. CASE con' = [con EXCEPT ![rem[r].con] = CloseBegin(con[rem[r].con])]
    <3>1. rem[r].con \in Consumers
      BY <1>1, LookedUpExists DEF RemoveClose
    <3>2. StillHears(con[rem[r].con], CloseBegin(con[rem[r].con]))
      BY <3>1, RecordHears DEF ConsumerTypeOK
    <3> QED
      BY <2>2, <3>1, <3>2, OneHears
  <2> QED
    BY <1>1, <2>1, <2>2 DEF RemoveClose
<1>2. CASE UNCHANGED con
  BY <1>2, AllStay
<1> QED
  BY <1>1, <1>2 DEF RemoverWork, RemoverStart, RemoveReturn, RemoveLookup

(* A RemoveConsumer: it looks up a member, and waits if it is the closer.    *)
LEMMA RemoverHearing ==
  ASSUME ProducerTypeOK, HearingInv, CallsGoOn, NEW r \in Removers,
         RemoverWork(r) \/ RemoverStart(r)
  PROVE  HearingInv'
<1> USE DEF HearingInv, ProducerTypeOK
<1>0. UNCHANGED <<prod, call>> /\ rem \in [Removers -> RemoverRecords]
  BY DEF RemoverWork, RemoverStart, RemoveClose, RemoveReturn, RemoveLookup
<1>1. rem[r].pc # "idle" => rem[r].con \in Consumers
  BY LookedUpExists
<1>2. ConsHear
  BY RemoverHears
<1>3. \A s \in Removers \ {r} : rem'[s] = rem[s]
  BY <1>0
     DEF RemoverWork, RemoverStart, RemoveClose, RemoveReturn, RemoveLookup
<1>4. AllHear'
  BY <1>2 DEF AllHear, ConsHear, StillHears
<1>5. MembersArePast'
  BY <1>0 DEF MembersArePast, IsPast
<1>6. rem'[r].pc # "idle" =>
        \E p \in Producers, k \in Calls : rem'[r].con = <<p, k>> /\ IsPast(k)
  <2>1. CASE RemoverWork(r)
    BY <1>0, <2>1
       DEF RemoverWork, RemoveClose, RemoveReturn, RemovedArePast,
           RemoverRecords
  <2>2. CASE RemoverStart(r)
    BY <1>0, <2>2 DEF RemoverStart, RemoveLookup, MembersArePast
  <2> QED
    BY <2>1, <2>2
<1>7. RemovedArePast'
  BY <1>0, <1>3, <1>6 DEF RemovedArePast, IsPast
<1>8. rem'[r].pc = "wait" => con'[rem'[r].con].closing
  <2>1. CASE RemoveClose(r)
    <3>1. rem[r].con \in Consumers
      BY <1>1, <2>1 DEF RemoveClose
    <3>2. CloseBegin(con[rem[r].con]).closing
      BY <3>1, CloseFields DEF ConsumerTypeOK
    <3> QED
      BY <1>0, <2>1, <3>1, <3>2 DEF RemoveClose, RemoverRecords, ConsumerTypeOK
  <2>2. CASE RemoveReturn(r) \/ RemoverStart(r)
    BY <1>0, <2>2 DEF RemoveReturn, RemoverStart, RemoveLookup
  <2> QED
    BY <2>1, <2>2 DEF RemoverWork
<1>9. AwaitedAreClosing'
  <2>1. ASSUME NEW s \in Removers \ {r}, rem[s].pc = "wait"
        PROVE  con'[rem[s].con].closing
    <3>1. rem[s].con \in Consumers
      BY <2>1, LookedUpExists
    <3> QED
      BY <1>2, <2>1, <3>1 DEF AwaitedAreClosing, ConsHear, StillHears
  <2> QED
    BY <1>3, <1>8, <2>1 DEF AwaitedAreClosing
<1> QED
  BY <1>4, <1>5, <1>7, <1>9

(* The insertion makes a consumer that nobody has looked up.                 *)
LEMMA InsertHearing ==
  ASSUME ProducerTypeOK, MembershipInv, HearingInv, CallsGoOn,
         NEW k \in Calls, InsertConsumer(k)
  PROVE  HearingInv'
<1> USE DEF HearingInv, ProducerTypeOK
<1>1. call[k].pc = "insert" /\ UNCHANGED rem
  BY DEF InsertConsumer
<1>2. PICK p \in Producers : p = call[k].prod
  BY <1>1 DEF MembershipInv, MapInv, FreshByCall, StartedByCall
<1>3. CASE HasId(p, IdOf[k])
  <2>1. UNCHANGED <<con, prod>>
    BY <1>2, <1>3 DEF InsertConsumer
  <2>2. ConsHear /\ MembersShrink
    BY <2>1, AllStay DEF MembersShrink
  <2> QED
    BY <1>1, <2>2, QuietHearing
<1>4. CASE ~HasId(p, IdOf[k])
  <2>1. /\ prod' = [prod EXCEPT ![p].members = @ \cup {k}]
        /\ con' = [con EXCEPT ![<<p, k>>] = NewConsumer]
        /\ call' = [call EXCEPT ![k].pc = "getCodecs"]
    BY <1>2, <1>4 DEF InsertConsumer
  <2>2. \A c \in Consumers :
          con'[c] = IF c = <<p, k>> THEN NewConsumer ELSE con[c]
    BY <2>1 DEF ConsumerTypeOK
  <2>3. Hears(NewConsumer)
    BY DEF Hears, NewConsumer
  <2>4. AllHear'
    BY <2>2, <2>3 DEF AllHear
  <2>5. IsPast(k)'
    BY <2>1 DEF IsPast, CallRecords
  <2>6. MembersArePast'
    BY <2>1, <2>5 DEF MembersArePast, CallsGoOn, ProducerRecords
  <2>7. RemovedArePast'
    BY <1>1 DEF RemovedArePast, CallsGoOn
  <2>8. ASSUME NEW r \in Removers, rem[r].pc = "wait"
        PROVE  con'[rem[r].con].closing
    <3>1. PICK q \in Producers, j \in Calls : rem[r].con = <<q, j>> /\ IsPast(j)
      BY <2>8 DEF RemovedArePast
    <3>2. j # k
      BY <1>1, <3>1 DEF IsPast
    <3>3. rem[r].con \in Consumers /\ rem[r].con # <<p, k>>
      BY <3>1, <3>2, ProducerAssumption
    <3> QED
      BY <2>2, <2>8, <3>3 DEF AwaitedAreClosing
  <2>9. AwaitedAreClosing'
    BY <1>1, <2>8 DEF AwaitedAreClosing
  <2> QED
    BY <2>4, <2>6, <2>7, <2>9
<1> QED
  BY <1>3, <1>4

(***************************************************************************)
(* The invariant and what follows from it.                                 *)
(***************************************************************************)
LEMMA HearingInit == ProducerInit => HearingInv
<1> SUFFICES ASSUME ProducerInit PROVE HearingInv
  OBVIOUS
<1>1. AllHear
  BY DEF ProducerInit, ConsumerInit, NewConsumer, AllHear, Hears
<1>2. MembersArePast
  BY DEF ProducerInit, NewProducer, MembersArePast
<1>3. \A r \in Removers : rem[r].pc = "idle"
  BY DEF ProducerInit
<1> QED
  BY <1>1, <1>2, <1>3 DEF HearingInv, RemovedArePast, AwaitedAreClosing

(* Every step but an insertion.                                              *)
LEMMA StepsHear ==
  ASSUME ProducerTypeOK, MembershipInv, HearingInv, [ProducerNext]_pvars,
         ~(\E k \in Calls : InsertConsumer(k))
  PROVE  ConsHear
<1> USE DEF ProducerTypeOK
<1>1. ASSUME NEW p \in Producers, MainStep(p)
      PROVE  ConsHear
  BY <1>1, MainHears
<1>2. ASSUME NEW p \in Producers, ReaderStep(p)
      PROVE  ConsHear
  BY <1>2, ReaderHears
<1>3. ASSUME NEW k \in Calls, CallStep(k)
      PROVE  ConsHear
  BY <1>3, CallHears
<1>4. ASSUME NEW r \in Removers, RemoverWork(r) \/ RemoverStart(r)
      PROVE  ConsHear
  BY <1>4, RemoverHears DEF HearingInv
<1>5. ASSUME NEW c \in Consumers, ConsumerNext(c)
      PROVE  ConsHear
  BY <1>5, ConsumerStepHears DEF ConsumerNext
<1>6. ASSUME NEW p \in Producers, EnvClose(p) \/ EnvParentDone(p)
      PROVE  ConsHear
  BY <1>6, CancelHears, AllStay
     DEF EnvClose, EnvParentDone, ProducerCloseBegin
<1>7. ASSUME UNCHANGED con
      PROVE  ConsHear
  BY <1>7, AllStay
<1> QED
  BY <1>1, <1>2, <1>3, <1>4, <1>5, <1>6, <1>7
     DEF ProducerNext, ProducerSteps, Pause, Resume, CancelCall, EnvStart,
         EnvCall, pvars

LEMMA HearingStep ==
  ASSUME ProducerTypeOK, MembershipInv, HearingInv, [ProducerNext]_pvars
  PROVE  HearingInv'
<1>1. CASE ProducerNext
  <2>1. CallsGoOn
    BY <1>1, CallsOnlyGoOn
  <2>2. CASE \E k \in Calls : InsertConsumer(k)
    BY <2>1, <2>2, InsertHearing
  <2>3. CASE \E r \in Removers : RemoverWork(r) \/ RemoverStart(r)
    BY <2>1, <2>3, RemoverHearing
  <2>4. CASE /\ ~(\E k \in Calls : InsertConsumer(k))
             /\ ~(\E r \in Removers : RemoverWork(r) \/ RemoverStart(r))
    <3>1. MembersShrink
      BY <1>1, <2>4, OnlyInsertTakesIn
    <3>2. ConsHear
      BY <2>4, StepsHear
    <3>3. UNCHANGED rem
      BY <1>1, <2>4, MainFrame, ReaderFrame, CallFrame
         DEF ProducerNext, ProducerSteps, Pause, Resume, CancelCall,
             ConsumerNext, EnvStart, EnvClose, EnvParentDone, EnvCall
    <3> QED
      BY <2>1, <3>1, <3>2, <3>3, QuietHearing
  <2> QED
    BY <2>2, <2>3, <2>4
<1>2. CASE UNCHANGED pvars
  <2>1. CallsGoOn /\ MembersShrink /\ UNCHANGED rem
    BY <1>2 DEF pvars, CallsGoOn, IsPast, MembersShrink
  <2>2. ConsHear
    BY <1>2, AllStay DEF pvars, ProducerTypeOK
  <2> QED
    BY <2>1, <2>2, QuietHearing
<1> QED
  BY <1>1, <1>2

(* A consumer that has been closed, by whomever, has a goroutine that knows  *)
(* or one that was spawned after the Close (consumer.go:49-52, 147-158).     *)
THEOREM HearingCorrect == ProducerSpec => []HearingInv
BY TypeCorrect, MembershipCorrect, HearingInit, HearingStep, PTL
   DEF ProducerSpec

(* A RemoveConsumer waits for nobody who has not heard of it, however many   *)
(* of them, of sweeps and of AddConsumer calls race for one consumer.        *)
THEOREM RemoverIsHeardCorrect == ProducerSpec => []RemoverIsHeard
<1>1. ASSUME HearingInv PROVE RemoverIsHeard
  <2> SUFFICES ASSUME NEW r \in Removers, rem[r].pc = "wait",
                      Running(rem[r].con)
               PROVE  con[rem[r].con].ctxDone \/ con[rem[r].con].late
    BY DEF RemoverIsHeard
  <2>1. rem[r].con \in Consumers
    BY <1>1, LookedUpExists DEF HearingInv
  <2> QED
    BY <1>1, <2>1 DEF HearingInv, AllHear, Hears, AwaitedAreClosing, Running
<1> QED
  BY <1>1, HearingCorrect, PTL

(***************************************************************************)
(* The AddConsumer calls that fail.                                        *)
(***************************************************************************)
Failed(k) == call[k].pc = "ret" /\ call[k].res # "ok"

(* Only a step of its own makes a call return.                               *)
ReturnsAlone(k) ==
  call'[k].pc = "ret" =>
    /\ call[k].pc = "ret"
    /\ call'[k].prod = call[k].prod /\ call'[k].res = call[k].res
    /\ call[k].ctx => call'[k].ctx

LEMMA OthersReturnAlone ==
  ASSUME ProducerTypeOK, [ProducerNext]_pvars, NEW k \in Calls, ~CallStep(k)
  PROVE  ReturnsAlone(k)
<1> USE DEF ProducerTypeOK, ReturnsAlone
<1>1. ASSUME NEW j \in Calls \ {k}, CallStep(j)
      PROVE  ReturnsAlone(k)
  <2>1. call'[k] = call[k]
    BY <1>1 DEF CallStep, CallWork, CallCancelled, CheckClosing, CheckStarted,
                InsertConsumer, AwaitCodecs, HandHeader, HeaderNoStreams,
                AwaitCodecsCancelled, SendCancelled, HeaderCancelled, Return
  <2> QED
    BY <2>1
<1>2. ASSUME NEW j \in Calls, CancelCall(j)
      PROVE  ReturnsAlone(k)
  BY <1>2 DEF CancelCall, CallRecords
<1>3. ASSUME NEW j \in Calls, NEW p \in Producers,
             EnvCall(j, p) \/ ReceiveConsumer(p, j)
      PROVE  ReturnsAlone(k)
  BY <1>3 DEF EnvCall, ReceiveConsumer, CallRecords
<1>4. ASSUME UNCHANGED call
      PROVE  ReturnsAlone(k)
  BY <1>4
<1>5. ASSUME NEW p \in Producers, MainStep(p)
      PROVE  ReturnsAlone(k)
  BY <1>3, <1>4, <1>5, MainFrame DEF MainReceive
<1> QED
  BY <1>1, <1>2, <1>3, <1>4, <1>5, ReaderFrame
     DEF ProducerNext, ProducerSteps, Pause, Resume, RemoverWork,
         RemoverStart, RemoveLookup, RemoveClose, RemoveReturn, ConsumerNext,
         EnvStart, EnvClose, EnvParentDone, pvars

(* A call that fails was not a member, or leaves its consumer inactive.      *)
LEMMA FailingCall ==
  ASSUME ProducerTypeOK, MembershipInv, HearingInv, NEW k \in Calls,
         CallStep(k), Failed(k)',
         k \in prod'[call'[k].prod].members,
         <<call'[k].prod, k>> \notin NilErrCh
  PROVE  con'[<<call'[k].prod, k>>].inactive
<1> USE DEF ProducerTypeOK
<1> DEFINE c == <<call[k].prod, k>>
<1>1. call[k].pc # "idle"
  BY DEF CallStep, CallWork, CallCancelled, CheckClosing, CheckStarted,
         InsertConsumer, AwaitCodecs, HandHeader, HeaderNoStreams,
         AwaitCodecsCancelled, SendCancelled, HeaderCancelled
<1>2. /\ call[k].prod \in Producers
      /\ c \in Consumers
      /\ con[c] \in ConsumerRecords
  BY <1>1, ProducerAssumption
     DEF MembershipInv, MapInv, FreshByCall, StartedByCall, ConsumerTypeOK
<1>3. ASSUME NEW res, call' = Return(k, res)
      PROVE  call'[k].prod = call[k].prod /\ call'[k].res = res
  BY <1>3 DEF Return, CallRecords
<1>4. ASSUME NEW pc, call' = [call EXCEPT ![k].pc = pc]
      PROVE  call'[k].pc = pc
  BY <1>4 DEF CallRecords
<1>5. CASE UNCHANGED prod /\ ~IsPast(k)
  <2>1. k \notin prod[call[k].prod].members
    BY <1>2, <1>5 DEF HearingInv, MembersArePast
  <2>2. CASE CheckClosing(k) \/ CheckStarted(k) \/ InsertConsumer(k)
    BY <1>3, <1>4, <1>5, <2>1, <2>2
       DEF CheckClosing, CheckStarted, InsertConsumer, Failed
  <2> QED
    BY <1>5, <2>2
       DEF CallStep, CallWork, CallCancelled, AwaitCodecs, HandHeader,
           HeaderNoStreams, AwaitCodecsCancelled, SendCancelled,
           HeaderCancelled, IsPast
<1>6. CASE InsertConsumer(k) /\ ~UNCHANGED prod
  BY <1>4, <1>6 DEF InsertConsumer, Failed
<1>7. CASE AwaitCodecs(k) \/ AwaitCodecsCancelled(k) \/ SendCancelled(k)
  <2>1. call'[k].prod = call[k].prod
    BY <1>3, <1>4, <1>7
       DEF AwaitCodecs, AwaitCodecsCancelled, SendCancelled, Failed
  <2>2. \/ con' = [con EXCEPT ![c] = SetLastError(c, con[c])]
        \/ con' = [con EXCEPT ![c] = SetInactive(con[c])]
    BY <1>4, <1>7
       DEF AwaitCodecs, AwaitCodecsCancelled, SendCancelled, Failed
  <2>3. c \notin NilErrCh
    BY <2>1
  <2>4. SetLastError(c, con[c]).inactive /\ SetInactive(con[c]).inactive
    BY <1>2, <2>3 DEF SetLastError, SetInactive, ConsumerRecords
  <2> QED
    BY <1>2, <2>1, <2>2, <2>4 DEF ConsumerTypeOK
<1>8. CASE HandHeader(k) \/ HeaderNoStreams(k) \/ HeaderCancelled(k)
  BY <1>3, <1>8 DEF HandHeader, HeaderNoStreams, HeaderCancelled, Failed
<1> QED
  BY <1>5, <1>6, <1>7, <1>8
     DEF CallStep, CallWork, CallCancelled, CheckClosing, CheckStarted,
         InsertConsumer, IsPast

(* A consumer that is not inserted keeps what it has, and its place outside. *)
LEMMA OthersKeep ==
  ASSUME ProducerTypeOK, MembershipInv, HearingInv, [ProducerNext]_pvars,
         NEW p \in Producers, NEW k \in Calls, ~InsertConsumer(k)
  PROVE  /\ k \in prod'[p].members => k \in prod[p].members
         /\ StillHears(con[<<p, k>>], con'[<<p, k>>])
<1> USE DEF ProducerTypeOK
<1>0. <<p, k>> \in Consumers
  BY ProducerAssumption
<1>1. CASE \E j \in Calls : InsertConsumer(j)
  <2>1. PICK j \in Calls : InsertConsumer(j)
    BY <1>1
  <2>2. j # k /\ <<p, k>> # <<call[j].prod, j>>
    BY <2>1
  <2>3. con'[<<p, k>>] = con[<<p, k>>]
    BY <1>0, <2>1, <2>2 DEF InsertConsumer, ConsumerTypeOK
  <2>4. prod'[p].members \subseteq prod[p].members \cup {j}
    BY <2>1 DEF InsertConsumer, ProducerRecords
  <2>5. StillHears(con[<<p, k>>], con[<<p, k>>])
    BY <1>0, RecordHears DEF ConsumerTypeOK
  <2> QED
    BY <2>2, <2>3, <2>4, <2>5
<1>2. CASE ~(\E j \in Calls : InsertConsumer(j))
  <2>1. ConsHear
    BY <1>2, StepsHear
  <2>2. MembersShrink
    BY <1>2, OnlyInsertTakesIn DEF pvars, MembersShrink
  <2> QED
    BY <1>0, <2>1, <2>2 DEF ConsHear, MembersShrink
<1> QED
  BY <1>1, <1>2

LEMMA FailedStep ==
  ASSUME ProducerTypeOK, MembershipInv, HearingInv, FailedAddIsInactive,
         [ProducerNext]_pvars
  PROVE  FailedAddIsInactive'
<1> USE DEF ProducerTypeOK
<1> SUFFICES ASSUME NEW k \in Calls, Failed(k)',
                    k \in prod'[call'[k].prod].members,
                    <<call'[k].prod, k>> \notin NilErrCh
             PROVE  con'[<<call'[k].prod, k>>].inactive
  BY DEF FailedAddIsInactive, Failed
<1>1. CASE CallStep(k)
  BY <1>1, FailingCall
<1>2. CASE ~CallStep(k)
  <2> DEFINE p == call[k].prod
  <2>1. Failed(k) /\ call'[k].prod = p
    BY <1>2, OthersReturnAlone DEF ReturnsAlone, Failed
  <2>2. p \in Producers /\ <<p, k>> \in Consumers
    BY <2>1, ProducerAssumption
       DEF Failed, MembershipInv, MapInv, FreshByCall, StartedByCall
  <2>3. ~InsertConsumer(k)
    BY <2>1 DEF InsertConsumer, Failed
  <2>4. /\ k \in prod'[p].members => k \in prod[p].members
        /\ con[<<p, k>>].inactive => con'[<<p, k>>].inactive
    BY <2>2, <2>3, OthersKeep DEF StillHears
  <2>5. con[<<p, k>>].inactive
    BY <2>1, <2>4 DEF FailedAddIsInactive, Failed
  <2> QED
    BY <2>1, <2>4, <2>5
<1> QED
  BY <1>1, <1>2

(* The consumer of an AddConsumer that failed is inactive as long as it is   *)
(* in the map, whatever the call was waiting for when it failed.             *)
THEOREM FailedAddIsInactiveCorrect == ProducerSpec => []FailedAddIsInactive
<1>1. ProducerInit => FailedAddIsInactive
  BY DEF ProducerInit, FailedAddIsInactive
<1> QED
  BY <1>1, TypeCorrect, MembershipCorrect, HearingCorrect, FailedStep, PTL
     DEF ProducerSpec

(***************************************************************************)
(* The AddConsumer calls that return nil.                                  *)
(***************************************************************************)
(* What the channel of the codecs holds is settled once, before the loop.    *)
Early == {"none", "factory", "codecs"}

CodecsPending ==
  \A p \in Producers : prod[p].pc \in Early => prod[p].codecs = "pending"

CodecsStep(p) ==
  \/ /\ prod'[p].codecs = prod[p].codecs
     /\ prod'[p].pc \in Early => prod[p].pc \in Early
  \/ prod[p].pc \in Early /\ prod'[p].pc \notin Early

LEMMA CodecsSteps ==
  ASSUME ProducerTypeOK, [ProducerNext]_pvars, NEW p \in Producers
  PROVE  CodecsStep(p)
<1> USE DEF ProducerTypeOK, CodecsStep, Early, ProducerRecords
<1>1. ASSUME NEW q \in Producers, MainStep(q)
      PROVE  CodecsStep(p)
  <2>1. CASE OpenDemuxer(q)
    BY <2>1 DEF OpenDemuxer
  <2>2. CASE GetStreams(q)
    BY <2>2 DEF GetStreams
  <2>3. CASE MainReceive(q)
    <3>1. PICK k \in Calls : ReceiveConsumer(q, k)
      BY <2>3 DEF MainReceive
    <3> QED
      BY <3>1 DEF ReceiveConsumer
  <2>4. CASE SpawnConsumer(q) \/ SweepBegin(q) \/ LoopExit(q) \/ ExitBegin(q)
    BY <2>4 DEF SpawnConsumer, SweepBegin, LoopExit, ExitBegin
  <2>5. CASE CloseOne(q)
    BY <2>5 DEF CloseOne, WaitingPC
  <2>6. CASE ClosedOne(q)
    BY <2>6 DEF ClosedOne, SweepingPC
  <2>7. CASE SweepEnd(q) \/ ExitEnd(q)
    BY <2>7 DEF SweepEnd, ExitEnd
  <2>8. CASE RunDemuxerRemover(q) \/ CloseDemuxer(q) \/ Finish(q)
    BY <2>8 DEF RunDemuxerRemover, CloseDemuxer, Finish
  <2> QED
    BY <1>1, <2>1, <2>2, <2>3, <2>4, <2>5, <2>6, <2>7, <2>8
       DEF MainStep, MainWork
<1>2. ASSUME NEW q \in Producers, ReaderStep(q)
      PROVE  CodecsStep(p)
  <2>1. CASE ReaderPick(q)
    <3>1. PICK k \in Calls : PickTarget(q, k)
      BY <2>1 DEF ReaderPick
    <3> QED
      BY <3>1 DEF PickTarget
  <2>2. CASE ReaderTick(q) \/ ReaderCancelled(q) \/ ReadError(q)
    BY <2>2 DEF ReaderTick, ReaderCancelled, ReadError
  <2>3. CASE ReadPacket(q)
    BY <2>3 DEF ReadPacket
  <2>4. CASE DeliverPacket(q) \/ WriteCancelled(q) \/ WriteDone(q)
    BY <2>4 DEF DeliverPacket, WriteCancelled, WriteDone
  <2> QED
    BY <1>2, <2>1, <2>2, <2>3, <2>4 DEF ReaderStep, ReaderWork, ReadReturns
<1>3. ASSUME NEW q \in Producers, Pause(q) \/ Resume(q)
      PROVE  CodecsStep(p)
  BY <1>3 DEF Pause, Resume
<1>4. ASSUME NEW q \in Producers,
             EnvStart(q) \/ EnvClose(q) \/ EnvParentDone(q)
      PROVE  CodecsStep(p)
  <2>1. CASE EnvStart(q)
    BY <2>1 DEF EnvStart, Launch, Started
  <2>2. CASE EnvClose(q)
    BY <2>2 DEF EnvClose, ProducerCloseBegin
  <2>3. CASE EnvParentDone(q)
    BY <2>3 DEF EnvParentDone
  <2> QED
    BY <1>4, <2>1, <2>2, <2>3
<1>5. ASSUME NEW k \in Calls, InsertConsumer(k)
      PROVE  CodecsStep(p)
  BY <1>5 DEF InsertConsumer
<1>6. ASSUME UNCHANGED prod
      PROVE  CodecsStep(p)
  BY <1>6
<1> QED
  BY <1>1, <1>2, <1>3, <1>4, <1>5, <1>6, CallFrame
     DEF ProducerNext, ProducerSteps, CancelCall, RemoverWork, RemoverStart,
         RemoveLookup, RemoveClose, RemoveReturn, ConsumerNext, EnvCall, pvars

(* A call that returns nil has handed the streams over, or had no need to.   *)
HeaderTaken(k) ==
  \/ con[<<call[k].prod, k>>].pc \notin {"none", "waitHeader"}
  \/ call[k].ctx
  \/ prod[call[k].prod].codecs = "empty"

LEMMA SucceedingCall ==
  ASSUME ProducerTypeOK, MembershipInv, NEW k \in Calls, CallStep(k),
         call'[k].pc = "ret", call'[k].res = "ok"
  PROVE  HeaderTaken(k)'
<1> USE DEF ProducerTypeOK
<1> DEFINE c == <<call[k].prod, k>>
<1>1. ASSUME NEW res, call' = Return(k, res)
      PROVE  /\ call'[k].prod = call[k].prod /\ call'[k].res = res
             /\ call'[k].ctx = call[k].ctx
  BY <1>1 DEF Return, CallRecords
<1>2. ASSUME NEW pc, call' = [call EXCEPT ![k].pc = pc]
      PROVE  call'[k].pc = pc
  BY <1>2 DEF CallRecords
<1>3. CASE HandHeader(k)
  <2>1. c \in Consumers
    BY <1>3, ProducerAssumption
       DEF HandHeader, MembershipInv, MapInv, FreshByCall, StartedByCall
  <2>2. TakeStreams(con[c]).pc = "factory"
    BY <2>1 DEF TakeStreams, ConsumerTypeOK, ConsumerRecords
  <2>3. con'[c].pc = "factory"
    BY <1>3, <2>1, <2>2 DEF HandHeader, ConsumerTypeOK
  <2> QED
    BY <1>1, <1>3, <2>3 DEF HandHeader, HeaderTaken
<1>4. CASE HeaderNoStreams(k)
  BY <1>1, <1>4 DEF HeaderNoStreams, HeaderTaken
<1>5. CASE HeaderCancelled(k)
  BY <1>1, <1>5 DEF HeaderCancelled, HeaderTaken
<1>6. CASE CheckClosing(k) \/ CheckStarted(k) \/ InsertConsumer(k)
  <2>1. CASE CheckClosing(k)
    BY <1>1, <1>2, <2>1 DEF CheckClosing
  <2>2. CASE CheckStarted(k)
    BY <1>1, <1>2, <2>2 DEF CheckStarted
  <2>3. CASE InsertConsumer(k)
    <3>1. CASE call' = Return(k, "exists")
      BY <1>1, <3>1
    <3>2. CASE call' = [call EXCEPT ![k].pc = "getCodecs"]
      BY <1>2, <3>2
    <3> QED BY <2>3, <3>1, <3>2 DEF InsertConsumer
  <2> QED
    BY <1>6, <2>1, <2>2, <2>3
<1>7. CASE AwaitCodecs(k) \/ AwaitCodecsCancelled(k) \/ SendCancelled(k)
  BY <1>1, <1>2, <1>7 DEF AwaitCodecs, AwaitCodecsCancelled, SendCancelled
<1> QED
  BY <1>3, <1>4, <1>5, <1>6, <1>7 DEF CallStep, CallWork, CallCancelled

LEMMA HeaderStep ==
  ASSUME ProducerTypeOK, MembershipInv, HearingInv, CodecsPending,
         NilMeansHeaderTaken, [ProducerNext]_pvars
  PROVE  CodecsPending' /\ NilMeansHeaderTaken'
<1>1. CodecsPending'
  BY CodecsSteps DEF CodecsPending, CodecsStep
<1>2. ASSUME NEW k \in Calls, call'[k].pc = "ret", call'[k].res = "ok"
      PROVE  HeaderTaken(k)'
  <2>1. CASE CallStep(k)
    BY <1>2, <2>1, SucceedingCall
  <2>2. CASE ~CallStep(k)
    <3> DEFINE p == call[k].prod
    <3>1. /\ call[k].pc = "ret" /\ call[k].res = "ok"
          /\ call'[k].prod = p /\ (call[k].ctx => call'[k].ctx)
      BY <1>2, <2>2, OthersReturnAlone DEF ReturnsAlone
    <3>2. p \in Producers
      BY <3>1 DEF MembershipInv, MapInv, FreshByCall, StartedByCall
    <3>3. ~InsertConsumer(k)
      BY <3>1 DEF InsertConsumer
    <3>4. StillHears(con[<<p, k>>], con'[<<p, k>>])
      BY <3>2, <3>3, OthersKeep
    <3>5. prod[p].codecs = "empty" => prod'[p].codecs = "empty"
      BY <3>2, CodecsSteps DEF CodecsStep, CodecsPending
    <3>6. HeaderTaken(k)
      BY <3>1 DEF NilMeansHeaderTaken, HeaderTaken
    <3> QED
      BY <3>1, <3>4, <3>5, <3>6 DEF HeaderTaken, StillHears
  <2> QED
    BY <2>1, <2>2
<1>3. NilMeansHeaderTaken'
  BY <1>2 DEF NilMeansHeaderTaken, HeaderTaken
<1> QED
  BY <1>1, <1>3

(* When AddConsumer returns nil nobody is left waiting for the streams,      *)
(* whatever the call raced with.                                             *)
THEOREM NilMeansHeaderTakenCorrect == ProducerSpec => []NilMeansHeaderTaken
<1>1. ProducerInit => CodecsPending /\ NilMeansHeaderTaken
  BY DEF ProducerInit, NewProducer, CodecsPending, NilMeansHeaderTaken
<1> QED
  BY <1>1, TypeCorrect, MembershipCorrect, HearingCorrect, HeaderStep, PTL
     DEF ProducerSpec

------------------------------------------------------------------------------

(***************************************************************************)
(* What the consumers are promised: the inductive invariants.              *)
(***************************************************************************)
(* The read loop has a target only while it writes a packet, and has crossed *)
(* it off.                                                                   *)
TargetsAreOut ==
  \A p \in Producers :
    /\ prod[p].rd # "write" => prod[p].tgt = None
    /\ prod[p].tgt \notin prod[p].out

(* Nobody has accepted a packet that has not been read, and who has yet to   *)
(* be served has not accepted the packet in hand.                            *)
NobodyIsAhead ==
  \A p \in Producers, k \in Calls : \A i \in 1 .. Len(Accepted(<<p, k>>)) :
    /\ Accepted(<<p, k>>)[i] <= prod[p].pkts
    /\ k \in Pending(p) => Accepted(<<p, k>>)[i] < prod[p].pkts

OrderInv ==
  /\ InOrder
  /\ TargetsAreOut
  /\ NobodyIsAhead

ClosingIsInactive ==
  \A c \in Consumers : con[c].closing => con[c].inactive

(* Nothing has been done to a consumer that is not yet in a map.             *)
OthersAreUntouched ==
  \A p \in Producers, k \in Calls :
    ~IsPast(k) => Accepted(<<p, k>>) = <<>> /\ IsActive(con[<<p, k>>])

PendingArePast ==
  \A p \in Producers : \A k \in Pending(p) : IsPast(k)

(* Whoever is served, or has been, is inserted or of no interest any more.   *)
ServedAreInserted ==
  \A p \in Producers, k \in Calls :
    /\ \/ k \in prod[p].members \cup Pending(p)
       \/ Accepted(<<p, k>>) # <<>>
    /\ IsActive(con[<<p, k>>])
    => Inserted(p, k)

ShuttingDown == ShutDown \cup {"exit", "exitSweep", "exitWait"}

(* A producer that shuts down has its context done, or has had no codecs and *)
(* no read loop; the context of one that has not been started is not done.   *)
ContextsAgree ==
  \A p \in Producers :
    /\ prod[p].pc \in ShuttingDown =>
         /\ prod[p].ctxDone \/ prod[p].rd = "none"
         /\ prod[p].ctxDone \/ prod[p].codecs = "err"
    /\ prod[p].pc \in {"none", "factory", "codecs"} =>
         prod[p].rd = "none" /\ prod[p].codecs = "pending"
    /\ ~Started(p) => ~prod[p].ctxDone

ServedInv ==
  /\ ClosingIsInactive
  /\ OthersAreUntouched
  /\ PendingArePast
  /\ ServedAreInserted
  /\ ContextsAgree

(***************************************************************************)
(* The operations on a consumer leave what it has accepted, and revive     *)
(* nobody; a packet only moves from the queue to the muxer.                *)
(***************************************************************************)
StillServed(r, s) ==
  /\ s.written \o s.queue = r.written \o r.queue
  /\ IsActive(s) => IsActive(r)
  /\ (r.closing => r.inactive) => (s.closing => s.inactive)
  /\ r.pc # "none" \/ r.cancel => s.pc # "none" \/ s.cancel

LEMMA ConcatAppend ==
  ASSUME NEW s \in Seq(Nat), NEW t \in Seq(Nat), NEW e \in Nat
  PROVE  s \o Append(t, e) = Append(s \o t, e)
OBVIOUS

LEMMA MoveHead ==
  ASSUME NEW s \in Seq(Nat), NEW t \in Seq(Nat), t # <<>>
  PROVE  Append(s, Head(t)) \o Tail(t) = s \o t
OBVIOUS

LEMMA RecordServed ==
  ASSUME NEW c \in Consumers, NEW r \in ConsumerRecords
  PROVE  /\ StillServed(r, r)
         /\ StillServed(r, SetLastError(c, r))
         /\ StillServed(r, SetInactive(r))
         /\ StillServed(r, CloseBegin(r))
         /\ StillServed(r, ContextDone(r))
         /\ StillServed(r, CloseStreams(r))
         /\ StillServed(r, GiveNoStreams(c, r))
         /\ StillServed(r, TakeStreams(r))
         /\ StillServed(r, Unwind(r))
         /\ StillServed(r, Unwind(SetLastError(c, r)))
         /\ StillServed(r, Spawned(r))
         /\ \A done \in BOOLEAN : StillServed(r, DeriveContext(r, done))
<1> USE DEF ConsumerRecords, StillServed, IsActive
<1>1. /\ StillServed(r, r)
      /\ StillServed(r, SetLastError(c, r))
      /\ StillServed(r, SetInactive(r))
      /\ StillServed(r, CloseBegin(r))
  BY DEF SetLastError, SetInactive, CloseBegin
<1>2. /\ StillServed(r, ContextDone(r))
      /\ StillServed(r, CloseStreams(r))
      /\ StillServed(r, GiveNoStreams(c, r))
      /\ StillServed(r, TakeStreams(r))
  BY DEF ContextDone, CloseStreams, GiveNoStreams, SetLastError, TakeStreams
<1>3. /\ StillServed(r, Unwind(r))
      /\ StillServed(r, Unwind(SetLastError(c, r)))
  BY DEF Unwind, SetLastError
<1>4. StillServed(r, Spawned(r))
  BY DEF Spawned
<1>5. \A done \in BOOLEAN : StillServed(r, DeriveContext(r, done))
  BY DEF DeriveContext
<1> QED
  BY <1>1, <1>2, <1>3, <1>4, <1>5

ConsServed == \A c \in Consumers : StillServed(con[c], con'[c])

LEMMA OneServed ==
  ASSUME ConsumerTypeOK, NEW c \in Consumers, NEW r, StillServed(con[c], r),
         con' = [con EXCEPT ![c] = r]
  PROVE  ConsServed
BY RecordServed DEF ConsumerTypeOK, ConsServed

LEMMA AllServed == ConsumerTypeOK /\ UNCHANGED con => ConsServed
BY RecordServed DEF ConsumerTypeOK, ConsServed

LEMMA CancelServed ==
  ASSUME ConsumerTypeOK, NEW p \in Producers, con' = CancelChildren(p)
  PROVE  ConsServed
<1>1. ASSUME NEW c \in Consumers PROVE StillServed(con[c], con'[c])
  <2>1. con[c] \in ConsumerRecords
    BY DEF ConsumerTypeOK
  <2>2. con'[c] = ContextDone(con[c]) \/ con'[c] = con[c]
    BY DEF CancelChildren
  <2> QED
    BY <2>1, <2>2, RecordServed
<1> QED
  BY <1>1 DEF ConsServed

LEMMA ConsumerStepServed ==
  ASSUME ConsumerTypeOK, NEW c \in Consumers, ConsumerStep(c)
  PROVE  ConsServed
<1>0. con[c] \in ConsumerRecords
  BY DEF ConsumerTypeOK
<1>1. ASSUME NEW s, StillServed(con[c], s), con' = [con EXCEPT ![c] = s]
      PROVE  ConsServed
  BY <1>1, OneServed
<1>2. ASSUME NEW s,
             s = Unwind(con[c]) \/ s = Unwind(SetLastError(c, con[c])),
             con' = [con EXCEPT ![c] = s]
      PROVE  ConsServed
  BY <1>0, <1>1, <1>2, RecordServed
<1>3. CASE WaitCancelled(c) \/ WaitClosed(c) \/ LoopCancelled(c)
  BY <1>2, <1>3 DEF WaitCancelled, WaitClosed, LoopCancelled
<1> USE DEF ConsumerRecords, StillServed, IsActive
<1>4. CASE OpenMuxer(c)
  <2> DEFINE s == [con[c] EXCEPT !.pc = "header", !.mux = "open"]
  <2>1. StillServed(con[c], s)
    BY <1>0
  <2>2. CASE con' = [con EXCEPT ![c] = s]
    BY <1>1, <2>1, <2>2
  <2> QED
    BY <1>2, <1>4, <2>2 DEF OpenMuxer
<1>5. CASE WriteMuxHeader(c)
  <2> DEFINE s == [con[c] EXCEPT !.pc = "loop", !.mux = "header"]
  <2>1. StillServed(con[c], s)
    BY <1>0
  <2>2. CASE con' = [con EXCEPT ![c] = s]
    BY <1>1, <2>1, <2>2
  <2> QED
    BY <1>2, <1>5, <2>2 DEF WriteMuxHeader
<1>6. CASE Dequeue(c)
  <2> DEFINE s == [con[c] EXCEPT
                     !.pc = "write", !.queue = Tail(@),
                     !.written = Append(@, Head(con[c].queue))]
  <2>1. con[c].queue # <<>> /\ con' = [con EXCEPT ![c] = s]
    BY <1>6 DEF Dequeue
  <2>2. Append(con[c].written, Head(con[c].queue)) \o Tail(con[c].queue)
          = con[c].written \o con[c].queue
    BY <1>0, <2>1, MoveHead
  <2>3. StillServed(con[c], s)
    BY <1>0, <2>2
  <2> QED
    BY <1>1, <2>1, <2>3
<1>7. CASE WriteMuxPacket(c)
  <2> DEFINE s == [con[c] EXCEPT !.pc = "loop"]
  <2>1. StillServed(con[c], s)
    BY <1>0
  <2>2. CASE con' = [con EXCEPT ![c] = s]
    BY <1>1, <2>1, <2>2
  <2> QED
    BY <1>2, <1>7, <2>2 DEF WriteMuxPacket
<1>8. CASE CloseMuxer(c)
  <2> DEFINE s == [con[c] EXCEPT !.pc = "remover", !.mux = "closed",
                                 !.inactive = TRUE]
  <2>1. StillServed(con[c], s)
    BY <1>0
  <2> QED
    BY <1>1, <1>8, <2>1 DEF CloseMuxer
<1>9. CASE RunMuxerRemover(c)
  <2> DEFINE s == [con[c] EXCEPT !.pc = "done", !.ctxDone = TRUE]
  <2>1. StillServed(con[c], s)
    BY <1>0
  <2> QED
    BY <1>1, <1>9, <2>1 DEF RunMuxerRemover
<1> QED
  BY <1>3, <1>4, <1>5, <1>6, <1>7, <1>8, <1>9 DEF ConsumerStep

LEMMA MainServed ==
  ASSUME ProducerTypeOK, MembershipInv, NEW p \in Producers, MainStep(p)
  PROVE  ConsServed
<1> USE DEF ProducerTypeOK
<1>0. \A k \in Calls : <<p, k>> \in Consumers /\ con[<<p, k>>] \in ConsumerRecords
  BY ProducerAssumption DEF ConsumerTypeOK
<1>1. CASE MainReceive(p)
  <2>1. PICK k \in Calls : ReceiveConsumer(p, k)
    BY <1>1 DEF MainReceive
  <2>2. prod[p].ctxDone \in BOOLEAN
    BY DEF ProducerRecords
  <2>3. StillServed(con[<<p, k>>],
                    DeriveContext(con[<<p, k>>], prod[p].ctxDone))
    BY <1>0, <2>2, RecordServed
  <2> QED
    BY <1>0, <2>1, <2>3, OneServed DEF ReceiveConsumer
<1>2. CASE SpawnConsumer(p)
  <2>1. prod[p].cur \in Calls
    BY <1>2 DEF SpawnConsumer, MembershipInv, MapInv, SweepProgress
  <2>2. StillServed(con[<<p, prod[p].cur>>], Spawned(con[<<p, prod[p].cur>>]))
    BY <1>0, <2>1, RecordServed
  <2> QED
    BY <1>0, <1>2, <2>1, <2>2, OneServed DEF SpawnConsumer
<1>3. CASE CloseOne(p)
  <2>1. PICK k \in prod[p].todo :
          \/ UNCHANGED con
          \/ con' = [con EXCEPT ![<<p, k>>] = CloseBegin(con[<<p, k>>])]
    BY <1>3 DEF CloseOne
  <2>2. k \in Calls
    BY DEF ProducerRecords
  <2>3. StillServed(con[<<p, k>>], CloseBegin(con[<<p, k>>]))
    BY <1>0, <2>2, RecordServed
  <2> QED
    BY <1>0, <2>1, <2>2, <2>3, OneServed, AllServed
<1>4. CASE Finish(p)
  BY <1>4, CancelServed DEF Finish
<1>5. CASE UNCHANGED con
  BY <1>5, AllServed
<1> QED
  BY <1>1, <1>2, <1>3, <1>4, <1>5
     DEF MainStep, MainWork, OpenDemuxer, GetStreams, ExitBegin, ClosedOne,
         SweepEnd, ExitEnd, RunDemuxerRemover, CloseDemuxer, SweepBegin,
         LoopExit

(* The calls other than the insertion, which makes a consumer anew.          *)
LEMMA CallServed ==
  ASSUME ProducerTypeOK, MembershipInv, NEW k \in Calls, CallStep(k),
         ~InsertConsumer(k)
  PROVE  ConsServed
<1> USE DEF ProducerTypeOK
<1> DEFINE c == <<call[k].prod, k>>
<1>0. call[k].pc # "idle" => c \in Consumers /\ con[c] \in ConsumerRecords
  BY ProducerAssumption
     DEF MembershipInv, MapInv, FreshByCall, StartedByCall, ConsumerTypeOK
<1>1. CASE UNCHANGED con
  BY <1>1, AllServed
<1>2. CASE AwaitCodecs(k) \/ AwaitCodecsCancelled(k)
  <2>1. \/ UNCHANGED con
        \/ con' = [con EXCEPT ![c] = SetLastError(c, con[c])]
    BY <1>2 DEF AwaitCodecs, AwaitCodecsCancelled
  <2>2. call[k].pc = "getCodecs"
    BY <1>2 DEF AwaitCodecs, AwaitCodecsCancelled
  <2> QED
    BY <1>0, <1>1, <2>1, <2>2, RecordServed, OneServed
<1>3. CASE SendCancelled(k)
  BY <1>0, <1>3, RecordServed, OneServed DEF SendCancelled
<1>4. CASE HandHeader(k)
  <2>1. call[k].pc = "header" /\ con' = [con EXCEPT ![c] = TakeStreams(con[c])]
    BY <1>4 DEF HandHeader
  <2> QED
    BY <1>0, <2>1, RecordServed, OneServed
<1>5. CASE HeaderNoStreams(k)
  <2>1. /\ call[k].pc = "header"
        /\ con' = [con EXCEPT ![c] = GiveNoStreams(c, con[c])]
    BY <1>5 DEF HeaderNoStreams
  <2> QED
    BY <1>0, <2>1, RecordServed, OneServed
<1>6. CASE HeaderCancelled(k)
  BY <1>0, <1>6, RecordServed, OneServed DEF HeaderCancelled
<1> QED
  BY <1>1, <1>2, <1>3, <1>4, <1>5, <1>6
     DEF CallStep, CallWork, CallCancelled, CheckClosing, CheckStarted

(* Every step but an insertion and a delivery.                               *)
LEMMA StepsServed ==
  ASSUME ProducerTypeOK, MembershipInv, HearingInv, [ProducerNext]_pvars,
         ~(\E k \in Calls : InsertConsumer(k)),
         ~(\E p \in Producers : DeliverPacket(p))
  PROVE  ConsServed
<1> USE DEF ProducerTypeOK
<1>1. ASSUME NEW p \in Producers, MainStep(p)
      PROVE  ConsServed
  BY <1>1, MainServed
<1>2. ASSUME NEW p \in Producers, ReaderStep(p)
      PROVE  ConsServed
  <2>1. UNCHANGED con
    BY <1>2 DEF ReaderStep, ReaderWork, ReadReturns, ReaderTick, ReaderPick,
                PickTarget, WriteDone, ReadPacket, ReadError, ReaderCancelled,
                WriteCancelled
  <2> QED
    BY <2>1, AllServed
<1>3. ASSUME NEW k \in Calls, CallStep(k)
      PROVE  ConsServed
  BY <1>3, CallServed
<1>4. ASSUME NEW r \in Removers, RemoverWork(r) \/ RemoverStart(r)
      PROVE  ConsServed
  <2> DEFINE c == rem[r].con
  <2>1. \/ UNCHANGED con
        \/ rem[r].pc = "close" /\ con' = [con EXCEPT ![c] = CloseBegin(con[c])]
    BY <1>4 DEF RemoverWork, RemoverStart, RemoveClose, RemoveReturn,
                RemoveLookup
  <2>2. rem[r].pc = "close" => c \in Consumers
    BY LookedUpExists DEF HearingInv
  <2>3. c \in Consumers => StillServed(con[c], CloseBegin(con[c]))
    BY RecordServed DEF ConsumerTypeOK
  <2> QED
    BY <2>1, <2>2, <2>3, OneServed, AllServed
<1>5. ASSUME NEW c \in Consumers, ConsumerNext(c)
      PROVE  ConsServed
  BY <1>5, ConsumerStepServed DEF ConsumerNext
<1>6. ASSUME NEW p \in Producers, EnvClose(p) \/ EnvParentDone(p)
      PROVE  ConsServed
  BY <1>6, CancelServed, AllServed
     DEF EnvClose, EnvParentDone, ProducerCloseBegin
<1>7. ASSUME UNCHANGED con
      PROVE  ConsServed
  BY <1>7, AllServed
<1> QED
  BY <1>1, <1>2, <1>3, <1>4, <1>5, <1>6, <1>7
     DEF ProducerNext, ProducerSteps, Pause, Resume, CancelCall, EnvStart,
         EnvCall, pvars

(***************************************************************************)
(* What the other goroutines do to the read loop: they start it, and end   *)
(* its context for good.                                                   *)
(***************************************************************************)
ReaderStays(q) ==
  /\ prod'[q].out = prod[q].out
  /\ prod'[q].tgt = prod[q].tgt
  /\ prod'[q].pkts = prod[q].pkts
  /\ \/ prod'[q].rd = prod[q].rd
     \/ prod[q].rd = "none" /\ prod'[q].rd = "wait"
  /\ prod[q].ctxDone => prod'[q].ctxDone

ReadersStay == \A q \in Producers : ReaderStays(q)

LEMMA MainReader ==
  ASSUME ProducerTypeOK, ContextsAgree, NEW p \in Producers, MainStep(p)
  PROVE  ReadersStay /\ ContextsAgree'
<1> USE DEF ProducerTypeOK, ProducerRecords, ReadersStay, ReaderStays,
            ContextsAgree, Started, ShuttingDown, ShutDown
<1>1. CASE OpenDemuxer(p)
  BY <1>1 DEF OpenDemuxer
<1>2. CASE GetStreams(p)
  BY <1>2 DEF GetStreams
<1>3. CASE SpawnConsumer(p)
  BY <1>3 DEF SpawnConsumer
<1>4. CASE ExitBegin(p)
  BY <1>4 DEF ExitBegin
<1>5. CASE CloseOne(p)
  BY <1>5 DEF CloseOne, WaitingPC
<1>6. CASE ClosedOne(p)
  BY <1>6 DEF ClosedOne, SweepingPC
<1>7. CASE SweepEnd(p)
  BY <1>7 DEF SweepEnd
<1>8. CASE ExitEnd(p)
  BY <1>8 DEF ExitEnd
<1>9. CASE RunDemuxerRemover(p)
  BY <1>9 DEF RunDemuxerRemover
<1>10. CASE CloseDemuxer(p)
  BY <1>10 DEF CloseDemuxer
<1>11. CASE Finish(p)
  BY <1>11 DEF Finish
<1>12. CASE SweepBegin(p)
  BY <1>12 DEF SweepBegin
<1>13. CASE LoopExit(p)
  BY <1>13 DEF LoopExit
<1>14. CASE MainReceive(p)
  BY <1>14 DEF MainReceive, ReceiveConsumer
<1> QED
  BY <1>1, <1>2, <1>3, <1>4, <1>5, <1>6, <1>7, <1>8, <1>9, <1>10, <1>11,
     <1>12, <1>13, <1>14 DEF MainStep, MainWork

LEMMA EnvReader ==
  ASSUME ProducerTypeOK, ContextsAgree, NEW p \in Producers,
         Pause(p) \/ Resume(p) \/ EnvStart(p) \/ EnvClose(p) \/ EnvParentDone(p)
  PROVE  ReadersStay /\ ContextsAgree'
<1> USE DEF ProducerTypeOK, ProducerRecords, ReadersStay, ReaderStays,
            ContextsAgree, Started, ShuttingDown, ShutDown
<1>1. CASE Pause(p)
  BY <1>1 DEF Pause
<1>2. CASE Resume(p)
  BY <1>2 DEF Resume
<1>3. CASE EnvStart(p)
  BY <1>3 DEF EnvStart, Launch
<1>4. CASE EnvClose(p)
  BY <1>4 DEF EnvClose, ProducerCloseBegin
<1>5. CASE EnvParentDone(p)
  BY <1>5 DEF EnvParentDone
<1> QED
  BY <1>1, <1>2, <1>3, <1>4, <1>5

LEMMA InsertReader ==
  ASSUME ProducerTypeOK, ContextsAgree, NEW k \in Calls, InsertConsumer(k)
  PROVE  ReadersStay /\ ContextsAgree'
<1> USE DEF ProducerTypeOK, ProducerRecords, ReadersStay, ReaderStays,
            ContextsAgree, Started, ShuttingDown, ShutDown
<1>1. CASE UNCHANGED prod
  BY <1>1
<1>2. CASE prod' = [prod EXCEPT ![call[k].prod].members = @ \cup {k}]
  BY <1>2
<1> QED
  BY <1>1, <1>2 DEF InsertConsumer

(* The read loop does not decide about the contexts.                         *)
LEMMA ReaderContexts ==
  ASSUME ProducerTypeOK, ContextsAgree, NEW p \in Producers, ReaderStep(p)
  PROVE  ContextsAgree' /\ (\A q \in Producers : prod'[q].ctxDone = prod[q].ctxDone)
<1> USE DEF ProducerTypeOK, ProducerRecords, ContextsAgree, Started,
            ShuttingDown, ShutDown
<1>1. CASE ReaderTick(p)
  BY <1>1 DEF ReaderTick
<1>2. CASE ReaderPick(p)
  BY <1>2 DEF ReaderPick, PickTarget
<1>3. CASE DeliverPacket(p)
  BY <1>3 DEF DeliverPacket
<1>4. CASE WriteDone(p)
  BY <1>4 DEF WriteDone
<1>5. CASE ReadPacket(p)
  BY <1>5 DEF ReadPacket
<1>6. CASE ReadError(p)
  BY <1>6 DEF ReadError
<1>7. CASE ReaderCancelled(p)
  BY <1>7 DEF ReaderCancelled
<1>8. CASE WriteCancelled(p)
  BY <1>8 DEF WriteCancelled
<1> QED
  BY <1>1, <1>2, <1>3, <1>4, <1>5, <1>6, <1>7, <1>8
     DEF ReaderStep, ReaderWork, ReadReturns

LEMMA OthersReader ==
  ASSUME ProducerTypeOK, ContextsAgree, [ProducerNext]_pvars,
         ~(\E p \in Producers : ReaderStep(p))
  PROVE  ReadersStay /\ ContextsAgree'
<1>1. ASSUME UNCHANGED prod
      PROVE  ReadersStay /\ ContextsAgree'
  BY <1>1 DEF ReadersStay, ReaderStays, ContextsAgree, Started
<1>2. ASSUME NEW p \in Producers, MainStep(p)
      PROVE  ReadersStay /\ ContextsAgree'
  BY <1>2, MainReader
<1>3. ASSUME NEW p \in Producers,
             Pause(p) \/ Resume(p) \/ EnvStart(p) \/ EnvClose(p)
             \/ EnvParentDone(p)
      PROVE  ReadersStay /\ ContextsAgree'
  BY <1>3, EnvReader
<1>4. ASSUME NEW k \in Calls, CallStep(k)
      PROVE  ReadersStay /\ ContextsAgree'
  BY <1>1, <1>4, CallFrame, InsertReader
<1> QED
  BY <1>1, <1>2, <1>3, <1>4
     DEF ProducerNext, ProducerSteps, RemoverWork, RemoverStart, RemoveLookup,
         RemoveClose, RemoveReturn, ConsumerNext, CancelCall, EnvCall, pvars

LEMMA ContextsStep ==
  ASSUME ProducerTypeOK, ContextsAgree, [ProducerNext]_pvars
  PROVE  ContextsAgree'
BY OthersReader, ReaderContexts

(***************************************************************************)
(* The order of the packets.                                               *)
(***************************************************************************)
LEMMA AcceptedType ==
  ASSUME ConsumerTypeOK, NEW c \in Consumers
  PROVE  Accepted(c) \in Seq(Nat)
BY DEF ConsumerTypeOK, ConsumerRecords, Accepted

LEMMA AppendOrder ==
  ASSUME NEW s \in Seq(Nat), NEW n \in Nat, \A i \in 1 .. Len(s) : s[i] < n,
         NEW t, t = Append(s, n)
  PROVE  /\ \A i \in 1 .. Len(t) : t[i] <= n
         /\ (\A i, j \in 1 .. Len(s) : i < j => s[i] < s[j]) =>
              \A i, j \in 1 .. Len(t) : i < j => t[i] < t[j]
OBVIOUS

(* Nobody accepts anything, and nobody is added to those to be served.       *)
LEMMA OrderKept ==
  ASSUME ProducerTypeOK, OrderInv, TargetsAreOut',
         \A c \in Consumers : Accepted(c)' = Accepted(c) \/ Accepted(c)' = <<>>,
         \A p \in Producers : /\ prod'[p].pkts = prod[p].pkts
                              /\ Pending(p)' \subseteq Pending(p)
  PROVE  OrderInv'
<1> USE DEF OrderInv
<1>0. \A p \in Producers, k \in Calls : <<p, k>> \in Consumers
  BY ProducerAssumption
<1>1. InOrder'
  <2> SUFFICES ASSUME NEW c \in Consumers,
                      NEW i \in 1 .. Len(Accepted(c)'),
                      NEW j \in 1 .. Len(Accepted(c)'), i < j
               PROVE  Accepted(c)'[i] < Accepted(c)'[j]
    BY DEF InOrder
  <2>1. Accepted(c)' = Accepted(c)
    BY DEF InOrder
  <2> QED
    BY <2>1 DEF InOrder
<1>2. NobodyIsAhead'
  <2> SUFFICES ASSUME NEW p \in Producers, NEW k \in Calls,
                      NEW i \in 1 .. Len(Accepted(<<p, k>>)')
               PROVE  /\ Accepted(<<p, k>>)'[i] <= prod'[p].pkts
                      /\ k \in Pending(p)' =>
                           Accepted(<<p, k>>)'[i] < prod'[p].pkts
    BY DEF NobodyIsAhead
  <2>1. Accepted(<<p, k>>)' = Accepted(<<p, k>>)
    BY <1>0
  <2> QED
    BY <2>1 DEF NobodyIsAhead
<1> QED
  BY <1>1, <1>2

(* What a quiet step leaves of the read loop.                                *)
LEMMA ReadersStayOut ==
  ASSUME ProducerTypeOK, TargetsAreOut, ReadersStay
  PROVE  /\ TargetsAreOut'
         /\ \A p \in Producers : Pending(p)' = Pending(p)
BY DEF TargetsAreOut, ReadersStay, ReaderStays, Pending

LEMMA ServedAccepted ==
  ConsServed => \A c \in Consumers : Accepted(c)' = Accepted(c)
BY DEF ConsServed, StillServed, Accepted

LEMMA InsertedAnew ==
  ASSUME ProducerTypeOK, MembershipInv, NEW k \in Calls, InsertConsumer(k)
  PROVE  /\ call[k].prod \in Producers
         /\ ~IsPast(k)
         /\ \A c \in Consumers :
              \/ con'[c] = con[c]
              \/ c = <<call[k].prod, k>> /\ con'[c] = NewConsumer
BY DEF InsertConsumer, ProducerTypeOK, ConsumerTypeOK, MembershipInv,
       MapInv, FreshByCall, StartedByCall, IsPast

LEMMA NewConsumerIsEmpty ==
  ASSUME NEW c \in Consumers, con'[c] = NewConsumer
  PROVE  Accepted(c)' = <<>> /\ IsActive(con'[c]) /\ ~con'[c].closing
BY DEF NewConsumer, Accepted, IsActive

(* The steps of the read loop that read no packet and deliver none.          *)
LEMMA ReaderMoves ==
  ASSUME ProducerTypeOK, TargetsAreOut, NEW p \in Producers, ReaderStep(p),
         ~ReadPacket(p), ~DeliverPacket(p)
  PROVE  /\ UNCHANGED con
         /\ TargetsAreOut'
         /\ \A q \in Producers : /\ prod'[q].pkts = prod[q].pkts
                                 /\ Pending(q)' \subseteq Pending(q)
         /\ \A q \in Producers \ {p} : prod'[q] = prod[q]
         /\ ~WriteCancelled(p) => Pending(p)' = Pending(p)
<1> USE DEF ProducerTypeOK, ProducerRecords, TargetsAreOut, Pending
<1>1. CASE ReaderTick(p)
  BY <1>1 DEF ReaderTick
<1>2. CASE ReaderPick(p)
  <2>1. PICK k \in Calls : PickTarget(p, k)
    BY <1>2 DEF ReaderPick
  <2>2. k # None
    BY ProducerAssumption
  <2> QED
    BY <2>1, <2>2 DEF PickTarget
<1>3. CASE WriteDone(p)
  BY <1>3 DEF WriteDone
<1>4. CASE ReadError(p)
  BY <1>4 DEF ReadError
<1>5. CASE ReaderCancelled(p)
  BY <1>5 DEF ReaderCancelled
<1>6. CASE WriteCancelled(p)
  BY <1>6, ProducerAssumption DEF WriteCancelled
<1> QED
  BY <1>1, <1>2, <1>3, <1>4, <1>5, <1>6 DEF ReaderStep, ReaderWork, ReadReturns

(* The packet in hand is later than all that has been accepted.              *)
LEMMA ReadOrder ==
  ASSUME ProducerTypeOK, OrderInv, NEW p \in Producers, ReadPacket(p)
  PROVE  OrderInv'
<1> USE DEF ProducerTypeOK, OrderInv
<1>1. /\ prod[p].rd = "read" /\ prod'[p].rd = "write"
      /\ prod[p].pkts \in Nat
      /\ prod'[p].pkts = prod[p].pkts + 1
      /\ prod'[p].tgt = prod[p].tgt
      /\ prod'[p].out = Active(p)
      /\ \A q \in Producers \ {p} : prod'[q] = prod[q]
      /\ UNCHANGED con
  BY ConsumerAssumption DEF ReadPacket, ProducerRecords
<1>2. InOrder'
  BY <1>1 DEF InOrder, Accepted
<1>3. TargetsAreOut'
  <2>1. prod'[p].tgt = None /\ None \notin prod'[p].out
    BY <1>1, ProducerAssumption DEF TargetsAreOut, Active, ProducerRecords
  <2> QED
    BY <1>1, <2>1 DEF TargetsAreOut
<1>4. NobodyIsAhead'
  <2> SUFFICES ASSUME NEW q \in Producers, NEW k \in Calls,
                      NEW i \in 1 .. Len(Accepted(<<q, k>>))
               PROVE  /\ Accepted(<<q, k>>)[i] <= prod'[q].pkts
                      /\ k \in Pending(q)' =>
                           Accepted(<<q, k>>)[i] < prod'[q].pkts
    BY <1>1 DEF NobodyIsAhead, Accepted
  <2>1. Accepted(<<q, k>>)[i] \in Nat
    BY AcceptedType, ProducerAssumption
  <2>2. CASE q = p
    BY <1>1, <2>1, <2>2 DEF NobodyIsAhead
  <2>3. CASE q # p
    BY <1>1, <2>3 DEF NobodyIsAhead, Pending
  <2> QED
    BY <2>2, <2>3
<1> QED
  BY <1>2, <1>3, <1>4

LEMMA TargetType ==
  ASSUME ProducerTypeOK, NEW p \in Producers, DeliverPacket(p)
  PROVE  prod[p].tgt \in Calls
BY DEF DeliverPacket, ProducerTypeOK, ProducerRecords

(* What a delivery does: one consumer accepts the packet in hand.            *)
LEMMA DeliveryIs ==
  ASSUME ProducerTypeOK, TargetsAreOut, NEW p \in Producers, DeliverPacket(p),
         NEW k \in Calls, k = prod[p].tgt
  PROVE  /\ k \in Pending(p)
         /\ prod[p].pkts \in Nat
         /\ Accepted(<<p, k>>)' = Append(Accepted(<<p, k>>), prod[p].pkts)
         /\ \A c \in Consumers \ {<<p, k>>} : con'[c] = con[c]
         /\ \A c \in Consumers : /\ con'[c].pc = con[c].pc
                                 /\ con'[c].cancel = con[c].cancel
                                 /\ con'[c].closing = con[c].closing
                                 /\ con'[c].inactive = con[c].inactive
                                 /\ IsActive(con'[c]) = IsActive(con[c])
         /\ TargetsAreOut'
         /\ Pending(p)' = Pending(p) \ {k}
         /\ \A q \in Producers : /\ prod'[q].pkts = prod[q].pkts
                                 /\ Pending(q)' \subseteq Pending(q)
                                 /\ prod'[q].members = prod[q].members
                                 /\ prod'[q].ctxDone = prod[q].ctxDone
         /\ UNCHANGED <<call, rem>>
<1> USE DEF ProducerTypeOK
<1> DEFINE c == <<p, k>>
           s == Enqueue(con[c], prod[p].pkts)
<1>1. prod[p].pkts \in Nat /\ c \in Consumers
  BY ConsumerAssumption, ProducerAssumption DEF ProducerRecords
<1>2. con[c] \in ConsumerRecords
  BY <1>1 DEF ConsumerTypeOK
<1>3. con' = [con EXCEPT ![c] = s]
  BY DEF DeliverPacket
<1>4. /\ s.written = con[c].written
      /\ s.queue = Append(con[c].queue, prod[p].pkts)
      /\ s.pc = con[c].pc /\ s.cancel = con[c].cancel
      /\ s.closing = con[c].closing /\ s.inactive = con[c].inactive
      /\ s.lastError = con[c].lastError
  BY <1>2 DEF Enqueue, ConsumerRecords
<1>5. con'[c] = s /\ \A d \in Consumers \ {c} : con'[d] = con[d]
  BY <1>1, <1>3 DEF ConsumerTypeOK
<1>6. con[c].written \in Seq(Nat) /\ con[c].queue \in Seq(Nat)
  BY <1>2 DEF ConsumerRecords
<1>7. s.written \o s.queue
        = Append(con[c].written \o con[c].queue, prod[p].pkts)
  <2> HIDE DEF c, s
  <2> QED
    BY <1>1, <1>4, <1>6, ConcatAppend
<1>8. Accepted(c)' = Append(Accepted(c), prod[p].pkts)
  BY <1>5, <1>7 DEF Accepted
<1>9. \A d \in Consumers : /\ con'[d].pc = con[d].pc
                           /\ con'[d].cancel = con[d].cancel
                           /\ con'[d].closing = con[d].closing
                           /\ con'[d].inactive = con[d].inactive
                           /\ IsActive(con'[d]) = IsActive(con[d])
  BY <1>4, <1>5 DEF IsActive
<1>10. /\ prod[p].rd = "write" /\ prod'[p].rd = "write"
       /\ prod'[p].tgt = None /\ prod'[p].out = prod[p].out
       /\ prod'[p].pkts = prod[p].pkts
       /\ prod'[p].members = prod[p].members
       /\ prod'[p].ctxDone = prod[p].ctxDone
       /\ \A q \in Producers \ {p} : prod'[q] = prod[q]
       /\ UNCHANGED <<call, rem>>
  BY DEF DeliverPacket, ProducerRecords
<1>11. TargetsAreOut'
  BY <1>10, ProducerAssumption DEF TargetsAreOut, ProducerRecords
<1>12. k \in Pending(p) /\ Pending(p)' = Pending(p) \ {k}
  BY <1>1, <1>10, ProducerAssumption DEF Pending, TargetsAreOut
<1>13. \A q \in Producers : /\ prod'[q].pkts = prod[q].pkts
                            /\ Pending(q)' \subseteq Pending(q)
                            /\ prod'[q].members = prod[q].members
                            /\ prod'[q].ctxDone = prod[q].ctxDone
  BY <1>10, <1>12 DEF Pending
<1> QED
  BY <1>1, <1>5, <1>8, <1>9, <1>10, <1>11, <1>12, <1>13

LEMMA DeliveryOrder ==
  ASSUME ProducerTypeOK, OrderInv, NEW p \in Producers, DeliverPacket(p)
  PROVE  OrderInv'
<1> USE DEF ProducerTypeOK, OrderInv
<1>1. PICK k \in Calls : k = prod[p].tgt
  BY TargetType
<1> DEFINE c == <<p, k>>
<1>2. c \in Consumers
  BY ProducerAssumption
<1>3. Accepted(c) \in Seq(Nat)
  BY <1>2, AcceptedType
<1>4. /\ prod[p].pkts \in Nat
      /\ Accepted(c)' = Append(Accepted(c), prod[p].pkts)
      /\ \A i \in 1 .. Len(Accepted(c)) : Accepted(c)[i] < prod[p].pkts
  BY <1>1, DeliveryIs DEF NobodyIsAhead
<1>5. ASSUME NEW d \in Consumers \ {c}
      PROVE  Accepted(d)' = Accepted(d)
  BY <1>1, DeliveryIs DEF Accepted
<1>6. InOrder'
  <2> SUFFICES ASSUME NEW d \in Consumers,
                      NEW i \in 1 .. Len(Accepted(d)'),
                      NEW j \in 1 .. Len(Accepted(d)'), i < j
               PROVE  Accepted(d)'[i] < Accepted(d)'[j]
    BY DEF InOrder
  <2>1. CASE d # c
    BY <1>5, <2>1 DEF InOrder
  <2>2. CASE d = c
    <3>1. \A m, n \in 1 .. Len(Accepted(c)) :
            m < n => Accepted(c)[m] < Accepted(c)[n]
      BY <1>2 DEF InOrder
    <3> QED
      BY <1>3, <1>4, <2>2, <3>1, AppendOrder
  <2> QED
    BY <2>1, <2>2
<1>7. NobodyIsAhead'
  <2> SUFFICES ASSUME NEW q \in Producers, NEW j \in Calls,
                      NEW i \in 1 .. Len(Accepted(<<q, j>>)')
               PROVE  /\ Accepted(<<q, j>>)'[i] <= prod'[q].pkts
                      /\ j \in Pending(q)' =>
                           Accepted(<<q, j>>)'[i] < prod'[q].pkts
    BY DEF NobodyIsAhead
  <2>1. prod'[q].pkts = prod[q].pkts /\ Pending(q)' \subseteq Pending(q)
    BY <1>1, DeliveryIs
  <2>2. CASE <<q, j>> # c
    <3>1. Accepted(<<q, j>>)' = Accepted(<<q, j>>)
      BY <1>5, <2>2, ProducerAssumption
    <3> QED
      BY <2>1, <3>1 DEF NobodyIsAhead
  <2>3. CASE q = p /\ j = k
    <3>1. j \notin Pending(q)'
      BY <1>1, <2>3, DeliveryIs
    <3>2. Accepted(c)'[i] <= prod[p].pkts
      BY <1>3, <1>4, <2>3, AppendOrder
    <3> QED
      BY <2>1, <2>3, <3>1, <3>2
  <2> QED
    BY <2>2, <2>3
<1>8. TargetsAreOut'
  BY <1>1, DeliveryIs
<1> QED
  BY <1>6, <1>7, <1>8

LEMMA OrderStep ==
  ASSUME ProducerTypeOK, MembershipInv, HearingInv, ContextsAgree, OrderInv,
         [ProducerNext]_pvars
  PROVE  OrderInv'
<1> USE DEF OrderInv
<1>1. CASE \E p \in Producers : ReaderStep(p)
  <2>1. PICK p \in Producers : ReaderStep(p)
    BY <1>1
  <2>2. CASE ReadPacket(p)
    BY <2>2, ReadOrder
  <2>3. CASE DeliverPacket(p)
    BY <2>3, DeliveryOrder
  <2>4. CASE ~ReadPacket(p) /\ ~DeliverPacket(p)
    <3>1. /\ UNCHANGED con
          /\ TargetsAreOut'
          /\ \A q \in Producers : /\ prod'[q].pkts = prod[q].pkts
                                  /\ Pending(q)' \subseteq Pending(q)
      BY <2>1, <2>4, ReaderMoves
    <3>2. \A c \in Consumers : Accepted(c)' = Accepted(c)
      BY <3>1 DEF Accepted
    <3> QED
      BY <3>1, <3>2, OrderKept
  <2> QED
    BY <2>2, <2>3, <2>4
<1>2. CASE ~(\E p \in Producers : ReaderStep(p))
  <2>1. /\ TargetsAreOut'
        /\ \A p \in Producers : /\ prod'[p].pkts = prod[p].pkts
                                /\ Pending(p)' = Pending(p)
    BY <1>2, OthersReader, ReadersStayOut DEF ReadersStay, ReaderStays
  <2>2. ASSUME NEW k \in Calls, InsertConsumer(k)
        PROVE  \A c \in Consumers :
                 Accepted(c)' = Accepted(c) \/ Accepted(c)' = <<>>
    <3> SUFFICES ASSUME NEW c \in Consumers
                 PROVE  Accepted(c)' = Accepted(c) \/ Accepted(c)' = <<>>
      OBVIOUS
    <3>1. con'[c] = con[c] \/ con'[c] = NewConsumer
      BY <2>2, InsertedAnew
    <3> QED
      BY <3>1, NewConsumerIsEmpty DEF Accepted
  <2>3. CASE ~(\E k \in Calls : InsertConsumer(k))
    <3>1. ~(\E p \in Producers : DeliverPacket(p))
      BY <1>2 DEF ReaderStep, ReaderWork
    <3> QED
      BY <2>1, <2>3, <3>1, StepsServed, ServedAccepted, OrderKept
  <2> QED
    BY <2>1, <2>2, <2>3, OrderKept
<1> QED
  BY <1>1, <1>2

(***************************************************************************)
(* Who is served.                                                          *)
(***************************************************************************)
(* What is inserted stays so, or is of no interest any more.                 *)
LEMMA InsertedStays ==
  ASSUME ProducerTypeOK, MembershipInv, ConsServed, [ProducerNext]_pvars,
         NEW p \in Producers, NEW k \in Calls, ~InsertConsumer(k),
         Inserted(p, k), IsActive(con'[<<p, k>>])
  PROVE  Inserted(p, k)'
<1> USE DEF ProducerTypeOK
<1>0. <<p, k>> \in Consumers /\ con[<<p, k>>] \in ConsumerRecords
  BY ProducerAssumption DEF ConsumerTypeOK
<1>1. CASE ~Unstarted(<<p, k>>)
  BY <1>0, <1>1 DEF ConsServed, StillServed, Unstarted, Inserted
<1>2. CASE Unstarted(<<p, k>>)
  <2>1. call[k].prod = p /\ call[k].pc \in {"getCodecs", "send"}
    BY <1>2 DEF Inserted
  <2>2. ASSUME call'[k].prod = p, call'[k].pc \in {"getCodecs", "send"}
        PROVE  Inserted(p, k)'
    BY <2>2 DEF Inserted
  <2>3. ASSUME CallStep(k)
        PROVE  Inserted(p, k)'
    <3>1. ASSUME con' = [con EXCEPT ![<<p, k>>] = SetInactive(con[<<p, k>>])]
          PROVE  FALSE
      BY <1>0, <3>1 DEF SetInactive, IsActive, ConsumerRecords, ConsumerTypeOK
    <3>2. ASSUME con' = [con EXCEPT ![<<p, k>>]
                           = SetLastError(<<p, k>>, con[<<p, k>>])]
          PROVE  FALSE
      BY <1>0, <3>2 DEF SetLastError, IsActive, ConsumerRecords, ConsumerTypeOK
    <3>3. CASE AwaitCodecs(k) /\ call' = [call EXCEPT ![k].pc = "send"]
      BY <2>1, <2>2, <3>3 DEF CallRecords
    <3>4. CASE SendCancelled(k)
      BY <2>1, <3>1, <3>4 DEF SendCancelled
    <3>5. CASE AwaitCodecsCancelled(k)
      BY <2>1, <3>2, <3>5 DEF AwaitCodecsCancelled
    <3>6. CASE AwaitCodecs(k) /\ call' # [call EXCEPT ![k].pc = "send"]
      BY <2>1, <3>2, <3>6 DEF AwaitCodecs
    <3> QED
      BY <2>1, <2>3, <3>3, <3>4, <3>5, <3>6
         DEF CallStep, CallWork, CallCancelled, CheckClosing, CheckStarted,
             HandHeader, HeaderNoStreams, HeaderCancelled
  <2>4. ASSUME NEW j \in Calls \ {k}, CallStep(j)
        PROVE  Inserted(p, k)'
    <3>1. call'[k] = call[k]
      BY <2>4 DEF CallStep, CallWork, CallCancelled, CheckClosing,
                  CheckStarted, InsertConsumer, AwaitCodecs, HandHeader,
                  HeaderNoStreams, AwaitCodecsCancelled, SendCancelled,
                  HeaderCancelled, Return
    <3> QED
      BY <2>1, <2>2, <3>1
  <2>5. ASSUME NEW j \in Calls, CancelCall(j)
        PROVE  Inserted(p, k)'
    BY <2>1, <2>2, <2>5 DEF CancelCall, CallRecords
  <2>6. ASSUME NEW j \in Calls, NEW q \in Producers, EnvCall(j, q)
        PROVE  Inserted(p, k)'
    BY <2>1, <2>2, <2>6 DEF EnvCall, CallRecords
  <2>7. ASSUME NEW j \in Calls, NEW q \in Producers, ReceiveConsumer(q, j)
        PROVE  Inserted(p, k)'
    <3>1. CASE j # k
      BY <2>1, <2>2, <2>7, <3>1 DEF ReceiveConsumer, CallRecords
    <3>2. CASE j = k
      <4>1. con' = [con EXCEPT ![<<p, k>>]
                      = DeriveContext(con[<<p, k>>], prod[p].ctxDone)]
        BY <2>1, <2>7, <3>2 DEF ReceiveConsumer
      <4>2. con'[<<p, k>>].cancel
        BY <1>0, <4>1 DEF DeriveContext, ConsumerTypeOK, ConsumerRecords
      <4> QED
        BY <4>2 DEF Inserted, Unstarted
    <3> QED
      BY <3>1, <3>2
  <2>8. ASSUME UNCHANGED call
        PROVE  Inserted(p, k)'
    BY <2>1, <2>2, <2>8
  <2>9. ASSUME NEW q \in Producers, MainStep(q)
        PROVE  Inserted(p, k)'
    BY <2>7, <2>8, <2>9, MainFrame DEF MainReceive
  <2> QED
    BY <2>3, <2>4, <2>5, <2>6, <2>8, <2>9, ReaderFrame
       DEF ProducerNext, ProducerSteps, Pause, Resume, RemoverWork,
           RemoverStart, RemoveLookup, RemoveClose, RemoveReturn,
           ConsumerNext, EnvStart, EnvClose, EnvParentDone, pvars
<1> QED
  BY <1>1, <1>2

LEMMA StepGoesOn ==
  ASSUME ProducerTypeOK, [ProducerNext]_pvars
  PROVE  CallsGoOn
BY CallsOnlyGoOn DEF CallsGoOn, IsPast, pvars

(* Nothing is done to the consumer of a call before its insertion, but that  *)
(* its context may be said to be done, which it does not have.               *)
LEMMA OthersUntouched ==
  ASSUME ProducerTypeOK, MembershipInv, HearingInv, PendingArePast,
         [ProducerNext]_pvars, NEW p \in Producers, NEW k \in Calls,
         ~IsPast(k), ~InsertConsumer(k)
  PROVE  con'[<<p, k>>] \in {con[<<p, k>>], ContextDone(con[<<p, k>>])}
<1> USE DEF ProducerTypeOK
<1> DEFINE Untouched ==
             con'[<<p, k>>] \in {con[<<p, k>>], ContextDone(con[<<p, k>>])}
<1>0. <<p, k>> \in Consumers
  BY ProducerAssumption
<1>1. ASSUME NEW q, NEW j, j # k, NEW r, con' = [con EXCEPT ![<<q, j>>] = r]
      PROVE  Untouched
  BY <1>0, <1>1 DEF ConsumerTypeOK
<1>2. ASSUME UNCHANGED con
      PROVE  Untouched
  BY <1>2
<1>3. ASSUME NEW q \in Producers, con' = CancelChildren(q)
      PROVE  Untouched
  BY <1>0, <1>3 DEF CancelChildren
<1>4. \A q \in Producers, j \in Calls : ~Unstarted(<<q, j>>) => j # k
  BY DEF MembershipInv, MapInv, FreshByCall, StartedByCall, IsPast
<1>5. ASSUME NEW q \in Producers, MainStep(q)
      PROVE  Untouched
  <2>1. CASE MainReceive(q)
    <3>1. PICK j \in Calls : ReceiveConsumer(q, j)
      BY <2>1 DEF MainReceive
    <3>2. j # k
      BY <3>1 DEF ReceiveConsumer, IsPast
    <3> QED
      BY <1>1, <3>1, <3>2 DEF ReceiveConsumer
  <2>2. CASE SpawnConsumer(q)
    <3>1. prod[q].cur \in Calls /\ con[<<q, prod[q].cur>>].cancel
      BY <2>2 DEF SpawnConsumer, MembershipInv, MapInv, SweepProgress
    <3>2. prod[q].cur # k
      BY <1>4, <3>1 DEF Unstarted
    <3> QED
      BY <1>1, <2>2, <3>2 DEF SpawnConsumer
  <2>3. CASE CloseOne(q)
    <3>1. PICK j \in prod[q].todo :
            \/ UNCHANGED con
            \/ con' = [con EXCEPT ![<<q, j>>] = CloseBegin(con[<<q, j>>])]
      BY <2>3 DEF CloseOne
    <3>2. j \in prod[q].members
      BY <2>3 DEF CloseOne, MembershipInv, MapInv, SweepProgress, Sweeping
    <3>3. j # k
      BY <3>2 DEF HearingInv, MembersArePast
    <3> QED
      BY <1>1, <1>2, <3>1, <3>3
  <2>4. CASE Finish(q)
    BY <1>3, <2>4 DEF Finish
  <2>5. CASE UNCHANGED con
    BY <1>2, <2>5
  <2> QED
    BY <1>5, <2>1, <2>2, <2>3, <2>4, <2>5
       DEF MainStep, MainWork, OpenDemuxer, GetStreams, ExitBegin, ClosedOne,
           SweepEnd, ExitEnd, RunDemuxerRemover, CloseDemuxer, SweepBegin,
           LoopExit
<1>6. ASSUME NEW q \in Producers, ReaderStep(q)
      PROVE  Untouched
  <2>1. CASE DeliverPacket(q)
    <3>1. prod[q].tgt \in Pending(q)
      BY <2>1 DEF DeliverPacket, Pending
    <3>2. prod[q].tgt # k
      BY <3>1 DEF PendingArePast
    <3> QED
      BY <1>1, <2>1, <3>2 DEF DeliverPacket
  <2>2. CASE UNCHANGED con
    BY <1>2, <2>2
  <2> QED
    BY <1>6, <2>1, <2>2
       DEF ReaderStep, ReaderWork, ReadReturns, ReaderTick, ReaderPick,
           PickTarget, WriteDone, ReadPacket, ReadError, ReaderCancelled,
           WriteCancelled
<1>7. ASSUME NEW j \in Calls, CallStep(j)
      PROVE  Untouched
  <2>1. CASE j = k
    BY <1>2, <1>7, <2>1
       DEF CallStep, CallWork, CallCancelled, CheckClosing, CheckStarted,
           AwaitCodecs, HandHeader, HeaderNoStreams, AwaitCodecsCancelled,
           SendCancelled, HeaderCancelled, IsPast
  <2>2. CASE j # k
    <3>1. UNCHANGED con \/ \E r : con' = [con EXCEPT ![<<call[j].prod, j>>] = r]
      BY <1>7 DEF CallStep, CallWork, CallCancelled, CheckClosing,
                  CheckStarted, InsertConsumer, AwaitCodecs, HandHeader,
                  HeaderNoStreams, AwaitCodecsCancelled, SendCancelled,
                  HeaderCancelled
    <3> QED
      BY <1>1, <1>2, <2>2, <3>1
  <2> QED
    BY <2>1, <2>2
<1>8. ASSUME NEW r \in Removers, RemoverWork(r) \/ RemoverStart(r)
      PROVE  Untouched
  <2>1. CASE RemoveClose(r)
    <3>1. PICK q \in Producers, j \in Calls : rem[r].con = <<q, j>> /\ IsPast(j)
      BY <2>1 DEF RemoveClose, HearingInv, RemovedArePast
    <3>2. \/ UNCHANGED con
          \/ con' = [con EXCEPT ![<<q, j>>] = CloseBegin(con[<<q, j>>])]
      BY <2>1, <3>1 DEF RemoveClose
    <3> QED
      BY <1>1, <1>2, <3>1, <3>2
  <2>2. CASE UNCHANGED con
    BY <1>2, <2>2
  <2> QED
    BY <1>8, <2>1, <2>2
       DEF RemoverWork, RemoverStart, RemoveReturn, RemoveLookup
<1>9. ASSUME NEW c \in Consumers, ConsumerNext(c)
      PROVE  Untouched
  <2>1. PICK q \in Producers, j \in Calls : c = <<q, j>>
    BY ProducerAssumption
  <2>2. con[c].pc # "none"
    BY <1>9 DEF ConsumerNext, ConsumerStep, WaitCancelled, WaitClosed,
                OpenMuxer, WriteMuxHeader, LoopCancelled, Dequeue,
                WriteMuxPacket, CloseMuxer, RunMuxerRemover
  <2>3. j # k
    BY <1>4, <2>1, <2>2 DEF Unstarted
  <2>4. <<p, k>> # c
    BY <2>1, <2>3
  <2>5. con'[<<p, k>>] = con[<<p, k>>]
    BY <1>0, <1>9, <2>4
       DEF ConsumerNext, ConsumerStep, WaitCancelled, WaitClosed, OpenMuxer,
           WriteMuxHeader, LoopCancelled, Dequeue, WriteMuxPacket, CloseMuxer,
           RunMuxerRemover, ConsumerTypeOK
  <2> QED
    BY <2>5
<1>10. ASSUME NEW q \in Producers, EnvClose(q) \/ EnvParentDone(q)
       PROVE  Untouched
  BY <1>2, <1>3, <1>10 DEF EnvClose, EnvParentDone, ProducerCloseBegin
<1> QED
  BY <1>2, <1>5, <1>6, <1>7, <1>8, <1>9, <1>10
     DEF ProducerNext, ProducerSteps, Pause, Resume, CancelCall, EnvStart,
         EnvCall, pvars

LEMMA UntouchedKeeps ==
  ASSUME NEW r \in ConsumerRecords
  PROVE  /\ ContextDone(r).written \o ContextDone(r).queue
              = r.written \o r.queue
         /\ IsActive(ContextDone(r)) = IsActive(r)
BY DEF ContextDone, IsActive, ConsumerRecords

(* A step that inserts nobody and delivers nothing.                          *)
LEMMA QuietServed ==
  ASSUME ProducerTypeOK, MembershipInv, HearingInv, ServedInv,
         [ProducerNext]_pvars, ConsServed, MembersShrink,
         ~(\E k \in Calls : InsertConsumer(k)),
         \A p \in Producers :
           Pending(p)' \subseteq Pending(p) \cup prod[p].members
  PROVE  ServedInv'
<1> USE DEF ServedInv
<1>0. \A p \in Producers, k \in Calls :
        <<p, k>> \in Consumers /\ con[<<p, k>>] \in ConsumerRecords
  BY ProducerAssumption DEF ProducerTypeOK, ConsumerTypeOK
<1>1. ClosingIsInactive'
  BY DEF ClosingIsInactive, ConsServed, StillServed
<1>2. CallsGoOn
  BY StepGoesOn
<1>3. OthersAreUntouched'
  <2> SUFFICES ASSUME NEW p \in Producers, NEW k \in Calls, ~IsPast(k)'
               PROVE  Accepted(<<p, k>>)' = <<>> /\ IsActive(con'[<<p, k>>])
    BY DEF OthersAreUntouched
  <2>1. ~IsPast(k)
    BY <1>2 DEF CallsGoOn
  <2>2. Accepted(<<p, k>>) = <<>> /\ IsActive(con[<<p, k>>])
    BY <2>1 DEF OthersAreUntouched
  <2>3. con'[<<p, k>>] \in {con[<<p, k>>], ContextDone(con[<<p, k>>])}
    BY <2>1, OthersUntouched
  <2> QED
    BY <1>0, <2>2, <2>3, UntouchedKeeps DEF Accepted
<1>4. PendingArePast'
  <2> SUFFICES ASSUME NEW p \in Producers, NEW k \in Pending(p)'
               PROVE  IsPast(k)'
    BY DEF PendingArePast
  <2>1. k \in Pending(p) \cup prod[p].members
    OBVIOUS
  <2>2. k \in Calls
    BY <2>1 DEF Pending, ProducerTypeOK, ProducerRecords
  <2>3. IsPast(k)
    BY <2>1 DEF PendingArePast, HearingInv, MembersArePast
  <2> QED
    BY <1>2, <2>2, <2>3 DEF CallsGoOn
<1>5. ServedAreInserted'
  <2> SUFFICES ASSUME NEW p \in Producers, NEW k \in Calls,
                      \/ k \in prod'[p].members \cup Pending(p)'
                      \/ Accepted(<<p, k>>)' # <<>>,
                      IsActive(con'[<<p, k>>])
               PROVE  Inserted(p, k)'
    BY DEF ServedAreInserted
  <2>1. /\ Accepted(<<p, k>>)' = Accepted(<<p, k>>)
        /\ IsActive(con[<<p, k>>])
    BY <1>0 DEF ConsServed, StillServed, Accepted
  <2>2. Inserted(p, k)
    BY <2>1 DEF ServedAreInserted, MembersShrink
  <2> QED
    BY <2>2, InsertedStays
<1>6. ContextsAgree'
  BY ContextsStep
<1> QED
  BY <1>1, <1>3, <1>4, <1>5, <1>6

LEMMA DeliveryServed ==
  ASSUME ProducerTypeOK, OrderInv, ServedInv, NEW p \in Producers,
         DeliverPacket(p), ContextsAgree'
  PROVE  ServedInv'
<1> USE DEF ServedInv
<1>1. PICK k \in Calls : k = prod[p].tgt
  BY TargetType
<1>2. /\ k \in Pending(p)
      /\ \A c \in Consumers \ {<<p, k>>} : con'[c] = con[c]
      /\ \A c \in Consumers : /\ con'[c].pc = con[c].pc
                              /\ con'[c].cancel = con[c].cancel
                              /\ con'[c].closing = con[c].closing
                              /\ con'[c].inactive = con[c].inactive
                              /\ IsActive(con'[c]) = IsActive(con[c])
      /\ \A q \in Producers : /\ Pending(q)' \subseteq Pending(q)
                              /\ prod'[q].members = prod[q].members
      /\ UNCHANGED <<call, rem>>
  BY <1>1, DeliveryIs DEF OrderInv
<1>3. \A q \in Producers, j \in Calls : <<q, j>> \in Consumers
  BY ProducerAssumption
<1>4. \A q \in Producers, j \in Calls :
        <<q, j>> # <<p, k>> => Accepted(<<q, j>>)' = Accepted(<<q, j>>)
  BY <1>2, <1>3 DEF Accepted
<1>5. \A j \in Calls : IsPast(j)' = IsPast(j)
  BY <1>2 DEF IsPast
<1>6. ClosingIsInactive'
  BY <1>2 DEF ClosingIsInactive
<1>7. OthersAreUntouched'
  <2>1. IsPast(k)
    BY <1>2 DEF PendingArePast
  <2> QED
    BY <1>2, <1>3, <1>4, <1>5, <2>1 DEF OthersAreUntouched
<1>8. PendingArePast'
  BY <1>2, <1>5 DEF PendingArePast, Pending, ProducerTypeOK, ProducerRecords
<1>9. ServedAreInserted'
  <2> SUFFICES ASSUME NEW q \in Producers, NEW j \in Calls,
                      \/ j \in prod'[q].members \cup Pending(q)'
                      \/ Accepted(<<q, j>>)' # <<>>,
                      IsActive(con'[<<q, j>>])
               PROVE  Inserted(q, j)'
    BY DEF ServedAreInserted
  <2>1. Inserted(q, j)
    BY <1>2, <1>3, <1>4 DEF ServedAreInserted
  <2> QED
    BY <1>2, <1>3, <2>1 DEF Inserted, Unstarted
<1> QED
  BY <1>6, <1>7, <1>8, <1>9

LEMMA InsertServed ==
  ASSUME ProducerTypeOK, MembershipInv, HearingInv, OrderInv, ServedInv,
         NEW k \in Calls, InsertConsumer(k)
  PROVE  ServedInv'
<1> USE DEF ServedInv, ProducerTypeOK
<1> DEFINE p == call[k].prod
<1>0. \A q \in Producers, j \in Calls : <<q, j>> \in Consumers
  BY ProducerAssumption
<1>1. /\ p \in Producers
      /\ ~IsPast(k)
      /\ \A c \in Consumers :
           con'[c] = con[c] \/ (c = <<p, k>> /\ con'[c] = NewConsumer)
  BY InsertedAnew
<1>2. ReadersStay /\ ContextsAgree'
  BY InsertReader
<1>3. \A q \in Producers : Pending(q)' = Pending(q)
  BY <1>2, ReadersStayOut DEF OrderInv
<1>4. \A j \in Calls \ {k} : call'[j] = call[j]
  BY DEF InsertConsumer, Return
<1>5. IsPast(k)'
  BY DEF InsertConsumer, Return, CallRecords, IsPast
<1>6. \A j \in Calls : IsPast(j) => IsPast(j)'
  BY <1>4, <1>5 DEF IsPast
<1>7. \A q \in Producers, j \in Calls :
        j # k => con'[<<q, j>>] = con[<<q, j>>]
  BY <1>0, <1>1
<1>8. ClosingIsInactive'
  BY <1>1 DEF ClosingIsInactive, NewConsumer
<1>9. OthersAreUntouched'
  <2> SUFFICES ASSUME NEW q \in Producers, NEW j \in Calls, ~IsPast(j)'
               PROVE  Accepted(<<q, j>>)' = <<>> /\ IsActive(con'[<<q, j>>])
    BY DEF OthersAreUntouched
  <2>1. j # k /\ ~IsPast(j)
    BY <1>5, <1>6
  <2> QED
    BY <1>7, <2>1 DEF OthersAreUntouched, Accepted
<1>10. PendingArePast'
  <2> SUFFICES ASSUME NEW q \in Producers, NEW j \in Pending(q)'
               PROVE  IsPast(j)'
    BY DEF PendingArePast
  <2>1. j \in Pending(q)
    BY <1>3
  <2>2. j \in Calls
    BY <2>1 DEF Pending, ProducerRecords
  <2> QED
    BY <1>6, <2>1, <2>2 DEF PendingArePast
<1>11. ServedAreInserted'
  <2> SUFFICES ASSUME NEW q \in Producers, NEW j \in Calls,
                      \/ j \in prod'[q].members \cup Pending(q)'
                      \/ Accepted(<<q, j>>)' # <<>>,
                      IsActive(con'[<<q, j>>])
               PROVE  Inserted(q, j)'
    BY DEF ServedAreInserted
  <2>1. CASE j # k
    <3>1. j \in prod'[q].members => j \in prod[q].members
      <4>1. CASE UNCHANGED prod
        BY <4>1
      <4>2. CASE prod' = [prod EXCEPT ![p].members = @ \cup {k}]
        BY <1>1, <2>1, <4>2 DEF ProducerRecords
      <4> QED
        BY <4>1, <4>2 DEF InsertConsumer
    <3>2. Inserted(q, j)
      BY <1>3, <1>7, <2>1, <3>1 DEF ServedAreInserted, Accepted
    <3> QED
      BY <1>4, <1>7, <2>1, <3>2 DEF Inserted, Unstarted
  <2>2. CASE j = k
    <3>1. /\ k \notin prod[q].members /\ k \notin Pending(q)
          /\ Accepted(<<q, k>>) = <<>>
      BY <1>1 DEF HearingInv, MembersArePast, PendingArePast,
                  OthersAreUntouched
    <3>2. Accepted(<<q, k>>)' = <<>>
      <4>1. CASE con'[<<q, k>>] = con[<<q, k>>]
        BY <3>1, <4>1 DEF Accepted
      <4>2. CASE con'[<<q, k>>] = NewConsumer
        BY <1>0, <4>2, NewConsumerIsEmpty
      <4> QED
        BY <1>0, <1>1, <4>1, <4>2
    <3>3. k \in prod'[q].members
      BY <1>3, <2>2, <3>1, <3>2
    <3>4. q = p /\ call' = [call EXCEPT ![k].pc = "getCodecs"]
      BY <3>1, <3>3 DEF InsertConsumer, ProducerRecords
    <3> QED
      BY <2>2, <3>4 DEF Inserted, CallRecords
  <2> QED
    BY <2>1, <2>2
<1> QED
  BY <1>2, <1>8, <1>9, <1>10, <1>11

LEMMA ServedStep ==
  ASSUME ProducerTypeOK, MembershipInv, HearingInv, OrderInv, ServedInv,
         [ProducerNext]_pvars
  PROVE  ServedInv'
<1>0. ContextsAgree'
  BY ContextsStep DEF ServedInv
<1>1. CASE \E k \in Calls : InsertConsumer(k)
  BY <1>1, InsertServed
<1>2. CASE \E p \in Producers : DeliverPacket(p)
  BY <1>0, <1>2, DeliveryServed
<1>3. CASE /\ ~(\E k \in Calls : InsertConsumer(k))
           /\ ~(\E p \in Producers : DeliverPacket(p))
  <2>1. ConsServed
    BY <1>3, StepsServed
  <2>2. MembersShrink
    BY <1>3, OnlyInsertTakesIn DEF MembersShrink, pvars
  <2>3. ASSUME NEW p \in Producers
        PROVE  Pending(p)' \subseteq Pending(p) \cup prod[p].members
    <3>1. CASE ~(\E q \in Producers : ReaderStep(q))
      BY <3>1, OthersReader, ReadersStayOut DEF OrderInv, ServedInv
    <3>2. ASSUME NEW q \in Producers, ReadPacket(q)
          PROVE  Pending(p)' \subseteq Pending(p) \cup prod[p].members
      <4>1. /\ prod'[q].out = Active(q) /\ prod'[q].tgt = prod[q].tgt
            /\ prod[q].rd = "read"
            /\ p # q => prod'[p] = prod[p]
        BY <3>2 DEF ReadPacket, ProducerTypeOK, ProducerRecords
      <4>2. prod[q].tgt = None
        BY <4>1 DEF OrderInv, TargetsAreOut
      <4> QED
        BY <4>1, <4>2 DEF Pending, Active
    <3>3. ASSUME NEW q \in Producers, ReaderStep(q), ~ReadPacket(q)
          PROVE  Pending(p)' \subseteq Pending(p) \cup prod[p].members
      BY <1>3, <3>3, ReaderMoves DEF OrderInv
    <3> QED
      BY <3>1, <3>2, <3>3
  <2> QED
    BY <1>3, <2>1, <2>2, <2>3, QuietServed
<1> QED
  BY <1>1, <1>2, <1>3

(***************************************************************************)
(* The invariants and what follows from them.                              *)
(***************************************************************************)
LEMMA ServingInit == ProducerInit => OrderInv /\ ServedInv
<1> SUFFICES ASSUME ProducerInit PROVE OrderInv /\ ServedInv
  OBVIOUS
<1>1. /\ \A p \in Producers : prod[p] = NewProducer
      /\ \A k \in Calls : call[k].pc = "idle"
  BY DEF ProducerInit
<1>2. \A c \in Consumers : /\ Accepted(c) = <<>>
                           /\ IsActive(con[c])
                           /\ ~con[c].closing
  BY DEF ProducerInit, ConsumerInit, NewConsumer, Accepted, IsActive
<1>3. \A p \in Producers, k \in Calls : <<p, k>> \in Consumers
  BY ProducerAssumption
<1>4. \A p \in Producers : Pending(p) = {}
  BY <1>1 DEF Pending, NewProducer
<1>5. OrderInv
  BY <1>1, <1>2, <1>3, <1>4
     DEF OrderInv, InOrder, TargetsAreOut, NobodyIsAhead, NewProducer
<1>6. ServedInv
  BY <1>1, <1>2, <1>3, <1>4
     DEF ServedInv, ClosingIsInactive, OthersAreUntouched, PendingArePast,
         ServedAreInserted, ContextsAgree, Started, ShuttingDown, ShutDown,
         NewProducer
<1> QED
  BY <1>5, <1>6

(* Whom the read loop serves, what it has given them and who has not come to *)
(* the map yet stay in step with the calls, the sweeps and the shutdown      *)
(* (producer.go:177-207, 226-258).                                           *)
THEOREM ServingCorrect == ProducerSpec => [](OrderInv /\ ServedInv)
<1>1. ProducerTypeOK /\ MembershipInv /\ HearingInv /\ OrderInv /\ ServedInv
        /\ [ProducerNext]_pvars => OrderInv' /\ ServedInv'
  BY OrderStep, ServedStep DEF ServedInv
<1> QED
  BY <1>1, TypeCorrect, MembershipCorrect, HearingCorrect, ServingInit, PTL
     DEF ProducerSpec

(* Every consumer gets the packets in the order of the demuxer, none twice,  *)
(* whatever the read loop races with (producer.go:186-204).                  *)
THEOREM InOrderCorrect == ProducerSpec => []InOrder
<1>1. OrderInv => InOrder
  BY DEF OrderInv
<1> QED
  BY <1>1, ServingCorrect, PTL

(***************************************************************************)
(* Each producer implements the abstract fan-out.                          *)
(***************************************************************************)
FansOn(p) == [FanoutOf(p)!FanoutNext]_(FanoutOf(p)!fanoutVars)

GivenUp(p) == prod[p].ctxDone \/ prod[p].codecs = "err"

Gone(p) == {k \in Calls : ~IsActive(con[<<p, k>>])}

AllAccepted(p) == [k \in Calls |-> Accepted(<<p, k>>)]

(* Nothing is given to the consumers of p, and none is revived.              *)
Undisturbed(p) ==
  /\ prod'[p].pkts = prod[p].pkts
  /\ Pending(p)' = Pending(p)
  /\ GivenUp(p) => GivenUp(p)'
  /\ \A k \in Calls : /\ Accepted(<<p, k>>)' = Accepted(<<p, k>>)
                      /\ IsActive(con'[<<p, k>>]) => IsActive(con[<<p, k>>])

LEMMA UndisturbedFans ==
  ASSUME NEW p \in Producers, Undisturbed(p), prod'[p].members = prod[p].members
  PROVE  FansOn(p)
<1>1. /\ Gone(p)' = Gone(p) \cup Gone(p)'
      /\ Gone(p)' \in SUBSET Calls
  BY DEF Undisturbed, Gone
<1>2. AllAccepted(p)' = AllAccepted(p)
  BY DEF Undisturbed, AllAccepted
<1>3. GivenUp(p) \in BOOLEAN /\ GivenUp(p)' \in BOOLEAN
  BY DEF GivenUp
<1>4. CASE GivenUp(p)' = GivenUp(p)
  <2>1. FanoutOf(p)!Leave
    BY <1>1, <1>2, <1>4
       DEF FanoutOf!Leave, Undisturbed, Gone, AllAccepted, GivenUp
  <2> QED
    BY <2>1 DEF FansOn, FanoutOf!FanoutNext
<1>5. CASE GivenUp(p)' # GivenUp(p)
  <2>1. GivenUp(p)' = TRUE
    BY <1>3, <1>5 DEF Undisturbed
  <2>2. FanoutOf(p)!Cancel
    BY <1>1, <1>2, <2>1
       DEF FanoutOf!Cancel, Undisturbed, Gone, AllAccepted, GivenUp
  <2> QED
    BY <2>2 DEF FansOn, FanoutOf!FanoutNext
<1> QED
  BY <1>4, <1>5

(* A packet that is read is published to the active members.                 *)
LEMMA ReadPublishes ==
  ASSUME ProducerTypeOK, OrderInv, NEW p \in Producers, ReadPacket(p)
  PROVE  FanoutOf(p)!Publish
<1> USE DEF ProducerTypeOK, ProducerRecords
<1>1. /\ prod[p].rd = "read" /\ prod'[p].rd = "write"
      /\ prod[p].pkts < MaxPackets /\ prod'[p].pkts = prod[p].pkts + 1
      /\ prod'[p].out = Active(p) /\ prod'[p].tgt = prod[p].tgt
      /\ prod'[p].ctxDone = prod[p].ctxDone
      /\ prod'[p].codecs = prod[p].codecs
      /\ prod'[p].members = prod[p].members
      /\ UNCHANGED con
  BY DEF ReadPacket
<1>2. prod[p].tgt = None
  BY <1>1 DEF OrderInv, TargetsAreOut
<1>3. Pending(p) = {} /\ Pending(p)' = Active(p)
  BY <1>1, <1>2 DEF Pending
<1>4. Active(p) = prod[p].members \ {k \in Calls : ~IsActive(con[<<p, k>>])}
  BY DEF Active
<1>5. [k \in Calls |-> Accepted(<<p, k>>)]'
        = [k \in Calls |-> Accepted(<<p, k>>)]
  BY <1>1 DEF Accepted
<1> QED
  BY <1>1, <1>3, <1>4, <1>5 DEF FanoutOf!Publish

(* A packet that is put into a queue is accepted by the target.              *)
LEMMA DeliveryAccepts ==
  ASSUME ProducerTypeOK, OrderInv, NEW p \in Producers, DeliverPacket(p)
  PROVE  \E k \in Calls : FanoutOf(p)!Accept(k)
<1>1. PICK k \in Calls : k = prod[p].tgt
  BY TargetType
<1> DEFINE log == [j \in Calls |-> Accepted(<<p, j>>)]
           gone == {j \in Calls : ~IsActive(con[<<p, j>>])}
<1>2. /\ k \in Pending(p)
      /\ Accepted(<<p, k>>)' = Append(Accepted(<<p, k>>), prod[p].pkts)
      /\ \A c \in Consumers \ {<<p, k>>} : con'[c] = con[c]
      /\ \A c \in Consumers : IsActive(con'[c]) = IsActive(con[c])
      /\ Pending(p)' = Pending(p) \ {k}
      /\ prod'[p].pkts = prod[p].pkts /\ prod'[p].ctxDone = prod[p].ctxDone
  BY <1>1, DeliveryIs DEF OrderInv
<1>7. prod'[p].codecs = prod[p].codecs /\ prod'[p].members = prod[p].members
  BY DEF DeliverPacket, ProducerTypeOK, ProducerRecords
<1>3. \A j \in Calls : <<p, j>> \in Consumers
  BY ProducerAssumption
<1>4. \A j \in Calls \ {k} : Accepted(<<p, j>>)' = Accepted(<<p, j>>)
  BY <1>2, <1>3 DEF Accepted
<1>5. log' = [log EXCEPT ![k] = Append(@, prod[p].pkts)]
  BY <1>2, <1>4
<1>6. gone' = gone
  BY <1>2, <1>3
<1> QED
  BY <1>2, <1>5, <1>6, <1>7 DEF FanoutOf!Accept

(* A write that is given up drops the packet for its target.                 *)
LEMMA CancelDrops ==
  ASSUME ProducerTypeOK, OrderInv, NEW p \in Producers, WriteCancelled(p)
  PROVE  \E k \in Calls : FanoutOf(p)!Drop(k)
<1> USE DEF ProducerTypeOK, ProducerRecords
<1>1. PICK k \in Calls : k = prod[p].tgt
  BY DEF WriteCancelled
<1>2. /\ prod[p].rd = "write" /\ prod'[p].rd = "write"
      /\ prod'[p].tgt = None /\ prod'[p].out = prod[p].out
      /\ prod[p].ctxDone /\ prod'[p].ctxDone = prod[p].ctxDone
      /\ prod'[p].pkts = prod[p].pkts /\ prod'[p].codecs = prod[p].codecs
      /\ prod'[p].members = prod[p].members
      /\ UNCHANGED con
  BY DEF WriteCancelled
<1>3. k \in Pending(p) /\ Pending(p)' = Pending(p) \ {k}
  BY <1>1, <1>2, ProducerAssumption DEF Pending, OrderInv, TargetsAreOut
<1>4. [j \in Calls |-> Accepted(<<p, j>>)]'
        = [j \in Calls |-> Accepted(<<p, j>>)]
  BY <1>2 DEF Accepted
<1> QED
  BY <1>2, <1>3, <1>4 DEF FanoutOf!Drop

(* Who is put into the map joins. *)
LEMMA InsertJoins ==
  ASSUME ProducerTypeOK, MembershipInv, HearingInv, OrderInv, ServedInv,
         NEW p \in Producers, NEW k \in Calls, InsertConsumer(k),
         prod'[p].members # prod[p].members
  PROVE  FanoutOf(p)!Join(k)
<1> USE DEF ProducerTypeOK
<1>0. \A j \in Calls : <<p, j>> \in Consumers
  BY ProducerAssumption
<1>1. call[k].prod = p /\ prod' = [prod EXCEPT ![p].members = @ \cup {k}]
  BY DEF InsertConsumer, ProducerRecords
<1>2. /\ prod'[p].members = prod[p].members \cup {k}
      /\ prod'[p].pkts = prod[p].pkts /\ Pending(p)' = Pending(p)
      /\ prod'[p].ctxDone = prod[p].ctxDone /\ prod'[p].codecs = prod[p].codecs
  BY <1>1 DEF ProducerRecords, Pending
<1>3. /\ ~IsPast(k)
      /\ \A j \in Calls : \/ con'[<<p, j>>] = con[<<p, j>>]
                          \/ j = k /\ con'[<<p, j>>] = NewConsumer
  BY <1>0, InsertedAnew
<1>4. /\ k \notin prod[p].members
      /\ Accepted(<<p, k>>) = <<>> /\ IsActive(con[<<p, k>>])
  BY <1>3 DEF HearingInv, MembersArePast, ServedInv, OthersAreUntouched
<1>5. ASSUME NEW j \in Calls
      PROVE  /\ Accepted(<<p, j>>)' = Accepted(<<p, j>>)
             /\ IsActive(con'[<<p, j>>]) <=> IsActive(con[<<p, j>>])
  <2>1. CASE con'[<<p, j>>] = con[<<p, j>>]
    BY <2>1 DEF Accepted
  <2>2. CASE j = k /\ con'[<<p, j>>] = NewConsumer
    BY <1>0, <1>4, <2>2, NewConsumerIsEmpty
  <2> QED
    BY <1>3, <2>1, <2>2
<1>6. Gone(p)' = Gone(p) /\ AllAccepted(p)' = AllAccepted(p) /\ k \notin Gone(p)
  BY <1>4, <1>5 DEF Gone, AllAccepted
<1> QED
  BY <1>2, <1>4, <1>6 DEF FanoutOf!Join, Gone, AllAccepted

(* Who is taken out of the map by a sweep is inactive.                       *)
LEMMA SweepForgets ==
  ASSUME ProducerTypeOK, MembershipInv', ServedInv, NEW p \in Producers,
         SweepEnd(p)
  PROVE  FanoutOf(p)!Forget
<1> USE DEF ProducerTypeOK, ProducerRecords
<1>1. /\ prod'[p].members \subseteq prod[p].members
      /\ prod'[p].pkts = prod[p].pkts /\ Pending(p)' = Pending(p)
      /\ prod'[p].ctxDone = prod[p].ctxDone /\ prod'[p].codecs = prod[p].codecs
      /\ prod'[p].pc = "loop" /\ UNCHANGED <<con, call>>
  BY DEF SweepEnd, Without, Pending
<1>2. ASSUME NEW k \in prod[p].members \ prod'[p].members,
             IsActive(con[<<p, k>>])
      PROVE  FALSE
  <2>1. k \in Calls
    OBVIOUS
  <2>2. <<p, k>> \in Consumers
    BY <2>1, ProducerAssumption
  <2>3. Inserted(p, k)
    BY <1>2, <2>1 DEF ServedInv, ServedAreInserted
  <2>4. Inserted(p, k)'
    BY <1>1, <2>3 DEF Inserted, Unstarted
  <2>5. prod'[p].pc \notin ShutDown
    BY <1>1 DEF ShutDown
  <2>6. con'[<<p, k>>].closing
    BY <1>2, <2>1, <2>4, <2>5 DEF MembershipInv, MapInv, LostIsClosing
  <2>7. con[<<p, k>>].inactive
    BY <1>1, <2>2, <2>6 DEF ServedInv, ClosingIsInactive
  <2> QED
    BY <1>2, <2>7 DEF IsActive
<1> DEFINE S == prod[p].members \ prod'[p].members
<1>3. S \subseteq Gone(p) /\ S \in SUBSET prod[p].members
      /\ prod'[p].members = prod[p].members \ S
  BY <1>1, <1>2 DEF Gone
<1>4. Gone(p)' = Gone(p) /\ AllAccepted(p)' = AllAccepted(p)
  BY <1>1 DEF Gone, AllAccepted, Accepted
<1> HIDE DEF S
<1> QED
  BY <1>1, <1>3, <1>4 DEF FanoutOf!Forget, Gone, AllAccepted

(* Who is in the map when the producer ends is forgotten.                    *)
LEMMA ExitForgets ==
  ASSUME ProducerTypeOK, ServedInv, NEW p \in Producers, ExitEnd(p)
  PROVE  FanoutOf(p)!Forget
<1> USE DEF ProducerTypeOK, ProducerRecords
<1>1. /\ prod'[p].members = prod[p].members \ prod[p].members
      /\ prod'[p].pkts = prod[p].pkts /\ Pending(p)' = Pending(p)
      /\ prod'[p].ctxDone = prod[p].ctxDone /\ prod'[p].codecs = prod[p].codecs
      /\ prod[p].pc = "exitSweep" /\ UNCHANGED con
  BY DEF ExitEnd, Pending
<1>2. prod[p].ctxDone \/ prod[p].codecs = "err"
  BY <1>1 DEF ServedInv, ContextsAgree, ShuttingDown
<1>3. Gone(p)' = Gone(p) /\ AllAccepted(p)' = AllAccepted(p)
  BY <1>1 DEF Gone, AllAccepted, Accepted
<1> QED
  BY <1>1, <1>2, <1>3 DEF FanoutOf!Forget, Gone, AllAccepted

(* Nobody else comes to the map or is taken out of it.                       *)
LEMMA OthersKeepMembers ==
  ASSUME ProducerTypeOK, [ProducerNext]_pvars, NEW p \in Producers,
         ~(\E k \in Calls : InsertConsumer(k)), ~SweepEnd(p), ~ExitEnd(p)
  PROVE  prod'[p].members = prod[p].members
<1> USE DEF ProducerTypeOK
<1>1. CASE UNCHANGED prod
  BY <1>1
<1>2. CASE SameProds
  BY <1>2 DEF SameProds, SameProd, SameSets
<1>3. ASSUME NEW q \in Producers, MainStep(q)
      PROVE  prod'[p].members = prod[p].members
  <2>1. CASE \/ OpenDemuxer(q) \/ GetStreams(q) \/ LoopExit(q)
             \/ RunDemuxerRemover(q) \/ CloseDemuxer(q) \/ Finish(q)
    BY <2>1, MainMovesOnly DEF MainMoves, SameSets, SameProd
  <2>2. CASE MainReceive(q)
    <3>1. PICK k \in Calls : ReceiveConsumer(q, k)
      BY <2>2 DEF MainReceive
    <3> QED
      BY <3>1 DEF ReceiveConsumer, ProducerRecords
  <2>3. CASE SweepBegin(q) \/ ExitBegin(q)
    BY <2>3 DEF SweepBegin, ExitBegin, ProducerRecords
  <2>4. CASE SpawnConsumer(q) \/ ClosedOne(q)
    BY <2>4 DEF SpawnConsumer, ClosedOne, ProducerRecords
  <2>5. CASE SweepEnd(q) \/ ExitEnd(q)
    BY <2>5 DEF SweepEnd, ExitEnd
  <2>6. CASE CloseOne(q)
    <3>1. prod'[q].members = prod[q].members
      BY <2>6 DEF CloseOne, ProducerRecords
    <3>2. p # q => prod'[p] = prod[p]
      BY <2>6 DEF CloseOne
    <3> QED
      BY <3>1, <3>2
  <2> QED
    BY <1>3, <2>1, <2>2, <2>3, <2>4, <2>5, <2>6 DEF MainStep, MainWork
<1>4. ASSUME NEW q \in Producers,
             ReaderStep(q) \/ Pause(q) \/ Resume(q) \/ EnvClose(q)
             \/ EnvParentDone(q)
      PROVE  prod'[p].members = prod[p].members
  BY <1>2, <1>4, ReaderNeutral, EnvNeutral DEF Neutral
<1>5. ASSUME NEW q \in Producers, EnvStart(q)
      PROVE  prod'[p].members = prod[p].members
  BY <1>5, MainMovesOnly DEF MainMoves, SameSets, SameProd
<1> QED
  BY <1>1, <1>3, <1>4, <1>5, CallFrame
     DEF ProducerNext, ProducerSteps, CancelCall, RemoverWork, RemoverStart,
         RemoveLookup, RemoveClose, RemoveReturn, ConsumerNext, EnvCall, pvars

(* A context that is done stays so, and codecs that have failed have.        *)
LEMMA GivenUpStays ==
  ASSUME ProducerTypeOK, ServedInv, [ProducerNext]_pvars, NEW p \in Producers,
         prod[p].ctxDone => prod'[p].ctxDone
  PROVE  GivenUp(p) => GivenUp(p)'
<1>1. prod[p].codecs = "err" => prod[p].pc \notin Early
  BY DEF ServedInv, ContextsAgree, Early
<1>2. prod[p].codecs = "err" => prod'[p].codecs = "err"
  BY <1>1, CodecsSteps DEF CodecsStep
<1> QED
  BY <1>2 DEF GivenUp

(* Every step but those by which the read loop of p serves its consumers.    *)
LEMMA OthersDoNotDisturb ==
  ASSUME ProducerTypeOK, MembershipInv, HearingInv, OrderInv, ServedInv,
         [ProducerNext]_pvars, NEW p \in Producers,
         ~ReadPacket(p), ~DeliverPacket(p), ~WriteCancelled(p)
  PROVE  Undisturbed(p)
<1>0. \A k \in Calls : <<p, k>> \in Consumers
  BY ProducerAssumption
<1>1. ASSUME /\ prod'[p].pkts = prod[p].pkts
             /\ Pending(p)' = Pending(p)
             /\ prod[p].ctxDone => prod'[p].ctxDone,
             \A k \in Calls :
               /\ Accepted(<<p, k>>)' = Accepted(<<p, k>>)
               /\ IsActive(con'[<<p, k>>]) => IsActive(con[<<p, k>>])
      PROVE  Undisturbed(p)
  BY <1>1, GivenUpStays DEF Undisturbed
<1>2. ASSUME ~(\E q \in Producers : ReaderStep(q))
      PROVE  /\ prod'[p].pkts = prod[p].pkts
             /\ Pending(p)' = Pending(p)
             /\ prod[p].ctxDone => prod'[p].ctxDone
  BY <1>2, OthersReader, ReadersStayOut
     DEF ReadersStay, ReaderStays, OrderInv, ServedInv
<1>3. CASE \E k \in Calls : InsertConsumer(k)
  <2>1. PICK k \in Calls : InsertConsumer(k)
    BY <1>3
  <2>2. /\ prod'[p].pkts = prod[p].pkts
        /\ Pending(p)' = Pending(p)
        /\ prod[p].ctxDone => prod'[p].ctxDone
    BY <2>1, InsertReader, ReadersStayOut
       DEF ReadersStay, ReaderStays, OrderInv, ServedInv
  <2>3. ASSUME NEW j \in Calls
        PROVE  /\ Accepted(<<p, j>>)' = Accepted(<<p, j>>)
               /\ IsActive(con'[<<p, j>>]) => IsActive(con[<<p, j>>])
    <3>1. CASE con'[<<p, j>>] = con[<<p, j>>]
      BY <3>1 DEF Accepted
    <3>2. CASE j = k /\ con'[<<p, j>>] = NewConsumer
      <4>1. Accepted(<<p, j>>) = <<>> /\ IsActive(con[<<p, j>>])
        BY <2>1, <3>2, InsertedAnew DEF ServedInv, OthersAreUntouched
      <4> QED
        BY <1>0, <3>2, <4>1, NewConsumerIsEmpty
    <3> QED
      BY <1>0, <2>1, <3>1, <3>2, InsertedAnew
  <2> QED
    BY <1>1, <2>2, <2>3
<1>4. ASSUME NEW q \in Producers, ReaderStep(q)
      PROVE  Undisturbed(p)
  <2>1. CASE ReadPacket(q)
    <3>1. UNCHANGED con /\ prod'[p] = prod[p]
      BY <2>1 DEF ReadPacket, ProducerTypeOK
    <3> QED
      BY <1>1, <3>1 DEF Accepted, Pending
  <2>2. CASE DeliverPacket(q)
    <3>1. PICK k \in Calls : k = prod[q].tgt
      BY <2>2, TargetType
    <3>2. prod'[p] = prod[p]
      BY <2>2 DEF DeliverPacket, ProducerTypeOK
    <3>3. \A j \in Calls : con'[<<p, j>>] = con[<<p, j>>]
      BY <1>0, <2>2, <3>1, DeliveryIs DEF OrderInv
    <3> QED
      BY <1>1, <3>2, <3>3 DEF Accepted, Pending
  <2>3. CASE ~ReadPacket(q) /\ ~DeliverPacket(q)
    <3>1. /\ UNCHANGED con
          /\ prod'[p].pkts = prod[p].pkts
          /\ Pending(p)' = Pending(p)
      <4>1. CASE p = q
        BY <1>4, <2>3, <4>1, ReaderMoves DEF OrderInv
      <4>2. CASE p # q
        BY <1>4, <2>3, <4>2, ReaderMoves DEF OrderInv, Pending
      <4> QED
        BY <4>1, <4>2
    <3>2. prod'[p].ctxDone = prod[p].ctxDone
      BY <1>4, ReaderContexts DEF ServedInv
    <3> QED
      BY <1>1, <3>1, <3>2 DEF Accepted
  <2> QED
    BY <2>1, <2>2, <2>3
<1>5. CASE /\ ~(\E k \in Calls : InsertConsumer(k))
           /\ ~(\E q \in Producers : ReaderStep(q))
  <2>1. ~(\E q \in Producers : DeliverPacket(q))
    BY <1>5 DEF ReaderStep, ReaderWork
  <2>2. ConsServed
    BY <1>5, <2>1, StepsServed
  <2>3. \A k \in Calls :
          /\ Accepted(<<p, k>>)' = Accepted(<<p, k>>)
          /\ IsActive(con'[<<p, k>>]) => IsActive(con[<<p, k>>])
    BY <1>0, <2>2 DEF ConsServed, StillServed, Accepted
  <2> QED
    BY <1>1, <1>2, <1>5, <2>3
<1> QED
  BY <1>3, <1>4, <1>5

LEMMA FansStep ==
  ASSUME ProducerTypeOK, MembershipInv, MembershipInv', HearingInv, OrderInv,
         ServedInv, [ProducerNext]_pvars, NEW p \in Producers
  PROVE  FansOn(p)
<1>1. CASE ReadPacket(p)
  BY <1>1, ReadPublishes DEF FansOn, FanoutOf!FanoutNext
<1>2. CASE DeliverPacket(p)
  BY <1>2, DeliveryAccepts DEF FansOn, FanoutOf!FanoutNext
<1>3. CASE WriteCancelled(p)
  BY <1>3, CancelDrops DEF FansOn, FanoutOf!FanoutNext
<1>4. CASE SweepEnd(p) \/ ExitEnd(p)
  BY <1>4, SweepForgets, ExitForgets DEF FansOn, FanoutOf!FanoutNext
<1>5. CASE /\ \E k \in Calls : InsertConsumer(k)
           /\ prod'[p].members # prod[p].members
  BY <1>5, InsertJoins DEF FansOn, FanoutOf!FanoutNext
<1>6. CASE /\ ~ReadPacket(p) /\ ~DeliverPacket(p) /\ ~WriteCancelled(p)
           /\ prod'[p].members = prod[p].members
  BY <1>6, OthersDoNotDisturb, UndisturbedFans
<1>7. CASE /\ ~(\E k \in Calls : InsertConsumer(k))
           /\ ~SweepEnd(p) /\ ~ExitEnd(p)
           /\ prod'[p].members # prod[p].members
  BY <1>7, OthersKeepMembers
<1> QED
  BY <1>1, <1>2, <1>3, <1>4, <1>5, <1>6, <1>7

LEMMA FansInit ==
  ASSUME ProducerInit, NEW p \in Producers
  PROVE  FanoutOf(p)!FanoutInit
<1>1. prod[p] = NewProducer
  BY DEF ProducerInit
<1>2. \A k \in Calls : <<p, k>> \in Consumers
  BY ProducerAssumption
<1>3. \A k \in Calls :
        Accepted(<<p, k>>) = <<>> /\ IsActive(con[<<p, k>>])
  BY <1>2 DEF ProducerInit, ConsumerInit, NewConsumer, Accepted, IsActive
<1>4. [k \in Calls |-> Accepted(<<p, k>>)] = [k \in Calls |-> <<>>]
  BY <1>3
<1>5. {k \in Calls : ~IsActive(con[<<p, k>>])} = {}
  BY <1>3
<1> QED
  BY <1>1, <1>4, <1>5 DEF FanoutOf!FanoutInit, Pending, NewProducer

(* The read loop with its queues is a lossless, in-order broadcast to all    *)
(* the active consumers of the map while the producer lives, and no sweep    *)
(* takes one of them out, whoever joins, fails, is swept or removed          *)
(* meanwhile (producer.go:130-154, 177-207).                                 *)
THEOREM FansOutCorrect == ProducerSpec => FansOut
<1>1. ProducerInit => \A p \in Producers : FanoutOf(p)!FanoutInit
  BY FansInit
<1>2. ProducerTypeOK /\ MembershipInv /\ MembershipInv' /\ HearingInv
        /\ OrderInv /\ ServedInv /\ [ProducerNext]_pvars
        => [\A p \in Producers :
              [FanoutOf(p)!FanoutNext]_(FanoutOf(p)!fanoutVars)]_pvars
  BY FansStep DEF FansOn
<1> QED
  BY <1>1, <1>2, TypeCorrect, MembershipCorrect, HearingCorrect,
     ServingCorrect, PTL DEF ProducerSpec, FansOut

=============================================================================
