------------------------------ MODULE Producer ------------------------------
(***************************************************************************)
(* The producer of av/streammanager3/producer.go with its consumers: the   *)
(* main goroutine that opens the demuxer, starts consumers and sweeps the  *)
(* inactive ones, the read loop that fans every packet out, and the        *)
(* AddConsumer, RemoveConsumer, Pause and Resume calls of other goroutines.*)
(*                                                                         *)
(* An AddConsumer call k adds the consumer IdOf[k]; the object it creates  *)
(* on producer p is con[<<p, k>>].  prod[p] has the fields                 *)
(*   pc        where the main goroutine is; "none" before Start            *)
(*   rd        where the read loop is                                      *)
(*   closing   alreadyClosing                                              *)
(*   ctxDone   whether the context of the producer is done                 *)
(*   codecs    what codecsCh, streams and codecsErr hold                   *)
(*   demuxer   the field demuxer: nil, open, or closed                     *)
(*   members   the map consumers, as the set of the calls that made them   *)
(*   snap,todo the map inactive of a sweep, and what it has yet to close   *)
(*   cur       the consumer being started or waited for                    *)
(*   out, tgt  the map active of the read loop, and who it is writing to   *)
(*   pkts      how many packets the demuxer has delivered                  *)
(* and, for the properties,                                                *)
(*   removed   whether demuxerRemover has been called                      *)
(*   late      whether Start came after Close had begun                    *)
(*   paused    whether the demuxer is paused                               *)
(***************************************************************************)
EXTENDS Consumer

CONSTANTS
  Producers,    \* the producer objects
  Calls,        \* the AddConsumer calls
  Removers,     \* the goroutines that call RemoveConsumer
  Cancellable,  \* the calls whose caller may cancel their context
  IdOf,         \* IdOf[k] is the consumer ID given to call k
  CanPause,     \* whether Pause and Resume are called
  None          \* no call, no producer, no consumer

ASSUME ProducerAssumption ==
  /\ Consumers = Producers \X Calls
  /\ Cancellable \subseteq Calls
  /\ DOMAIN IdOf = Calls
  /\ CanPause \in BOOLEAN
  /\ None \notin Producers /\ None \notin Calls /\ None \notin Consumers

VARIABLES prod, call, rem

pvars == <<con, prod, call, rem>>

ProducerPC == {"none", "factory", "codecs", "loop", "starting", "sweep",
               "sweepWait", "exit", "exitSweep", "exitWait", "remover",
               "demClose", "finish", "done"}

ReaderPC == {"none", "wait", "read", "write", "done"}

ProducerRecords ==
  [pc : ProducerPC, rd : ReaderPC, closing : BOOLEAN, ctxDone : BOOLEAN,
   codecs : {"pending", "ok", "empty", "err"},
   demuxer : {"none", "open", "closed"}, members : SUBSET Calls,
   snap : SUBSET Calls, todo : SUBSET Calls, cur : Calls \cup {None},
   out : SUBSET Calls, tgt : Calls \cup {None}, pkts : 0 .. MaxPackets,
   removed : BOOLEAN, late : BOOLEAN, paused : BOOLEAN]

NewProducer ==
  [pc |-> "none", rd |-> "none", closing |-> FALSE, ctxDone |-> FALSE,
   codecs |-> "pending", demuxer |-> "none", members |-> {},
   snap |-> {}, todo |-> {}, cur |-> None, out |-> {}, tgt |-> None,
   pkts |-> 0, removed |-> FALSE, late |-> FALSE, paused |-> FALSE]

CallPC == {"idle", "chkClosing", "chkStarted", "insert", "getCodecs", "send",
           "header", "ret"}

Results == {"ok", "closing", "notStarted", "codecsErr", "exists", "ctx"}

CallRecords ==
  [pc : CallPC, prod : Producers \cup {None}, ctx : BOOLEAN,
   res : Results \cup {None}]

RemoverRecords ==
  [pc : {"idle", "close", "wait"}, con : Consumers \cup {None}]

ProducerInit ==
  /\ ConsumerInit
  /\ prod = [p \in Producers |-> NewProducer]
  /\ call = [k \in Calls |-> [pc |-> "idle", prod |-> None, ctx |-> FALSE,
                              res |-> None]]
  /\ rem = [r \in Removers |-> [pc |-> "idle", con |-> None]]

Started(p) == prod[p].pc # "none"

(* The counter of the producer's WaitGroup is positive. *)
ProducerRunning(p) ==
  prod[p].pc \notin {"none", "done"} \/ prod[p].rd \notin {"none", "done"}

HasId(p, id) == \E k \in prod[p].members : IdOf[k] = id

Inactive(p) == {k \in prod[p].members : con[<<p, k>>].inactive}

Active(p) == {k \in prod[p].members : IsActive(con[<<p, k>>])}

(* Faulty variant: nothing is deleted. *)
WithoutNone(p, ks) == prod[p].members

(* delete(m.consumers, consumerID) for the IDs of the given consumers *)
Without(p, ks) ==
  {k \in prod[p].members : IdOf[k] \notin {IdOf[j] : j \in ks}}

(* The contexts of the consumers are children of the producer's. *)
CancelChildren(p) ==
  [c \in Consumers |-> IF c[1] = p THEN ContextDone(con[c]) ELSE con[c]]

(***************************************************************************)
(* What the manager does to a producer.                                    *)
(***************************************************************************)
(* Start, and started.Store, the first thing the goroutine does *)
Launch(r, parentDone) ==
  [r EXCEPT !.pc = "factory", !.ctxDone = parentDone, !.late = r.closing]

(* Close up to wg.Wait, when it wins the compare-and-swap *)
ProducerCloseBegin(p) ==
  /\ ~prod[p].closing
  /\ prod' = [prod EXCEPT ![p].closing = TRUE,
                          ![p].ctxDone = @ \/ Started(p)]
  /\ con' = IF Started(p) THEN CancelChildren(p) ELSE con

(***************************************************************************)
(* The main goroutine.                                                     *)
(***************************************************************************)
OpenDemuxer(p) ==
  /\ prod[p].pc = "factory"
  /\ \/ prod' = [prod EXCEPT ![p].pc = "codecs", ![p].demuxer = "open"]
     \/ /\ MayFail("demuxFactory", prod[p].ctxDone)
        /\ prod' = [prod EXCEPT ![p].pc = "finish", ![p].codecs = "err"]
  /\ UNCHANGED <<con, call, rem>>

(* demuxer.GetCodecs, close(codecsCh), and the go statement of the read loop *)
GetStreams(p) ==
  /\ prod[p].pc = "codecs"
  /\ \/ prod' = [prod EXCEPT ![p].pc = "loop", ![p].codecs = "ok",
                             ![p].rd = "wait"]
     \/ /\ "noStreams" \in Faults
        /\ prod' = [prod EXCEPT ![p].pc = "loop", ![p].codecs = "empty",
                                ![p].rd = "wait"]
     \/ /\ MayFail("getCodecs", prod[p].ctxDone)
        /\ prod' = [prod EXCEPT ![p].pc = "exit", ![p].codecs = "err"]
  /\ UNCHANGED <<con, call, rem>>

(* The rendezvous on consumersToStart, and the first half of c.Start. *)
ReceiveConsumer(p, k) ==
  /\ prod[p].pc = "loop"
  /\ call[k].pc = "send" /\ call[k].prod = p
  /\ prod' = [prod EXCEPT ![p].pc = "starting", ![p].cur = k]
  /\ call' = [call EXCEPT ![k].pc = "header"]
  /\ con' = [con EXCEPT ![<<p, k>>] = DeriveContext(@, prod[p].ctxDone)]
  /\ UNCHANGED rem

SpawnConsumer(p) ==
  /\ prod[p].pc = "starting"
  /\ prod' = [prod EXCEPT ![p].pc = "loop", ![p].cur = None]
  /\ con' = [con EXCEPT ![<<p, prod[p].cur>>] = Spawned(@)]
  /\ UNCHANGED <<call, rem>>

(* Faulty variant: the inactive consumers are deleted but not closed. *)
SweepWithoutClose(p) ==
  /\ prod[p].pc = "loop"
  /\ Inactive(p) # {}
  /\ prod' = [prod EXCEPT ![p].pc = "sweep", ![p].snap = Inactive(p)]
  /\ UNCHANGED <<con, call, rem>>

(* Faulty variant: the sweep remembers consumers instead of their IDs. *)
SweepByObject(p) ==
  /\ prod[p].pc = "loop"
  /\ Inactive(p) # {}
  /\ prod' = [prod EXCEPT ![p].pc = "sweep",
                          ![p].snap = {<<p, k>> : k \in Inactive(p)},
                          ![p].todo = Inactive(p)]
  /\ UNCHANGED <<con, call, rem>>

(* A tick of the one-second ticker that finds inactive consumers. *)
SweepBegin(p) ==
  /\ prod[p].pc = "loop"
  /\ Inactive(p) # {}
  /\ prod' = [prod EXCEPT ![p].pc = "sweep", ![p].snap = Inactive(p),
                          ![p].todo = Inactive(p)]
  /\ UNCHANGED <<con, call, rem>>

LoopExit(p) ==
  /\ prod[p].pc = "loop"
  /\ prod[p].ctxDone
  /\ prod' = [prod EXCEPT ![p].pc = "exit"]
  /\ UNCHANGED <<con, call, rem>>

(* Faulty variant: the shutdown closes the inactive consumers only. *)
ExitInactive(p) ==
  /\ prod[p].pc = "exit"
  /\ prod' = [prod EXCEPT ![p].pc = "exitSweep", ![p].snap = Inactive(p),
                          ![p].todo = Inactive(p)]
  /\ UNCHANGED <<con, call, rem>>

ExitBegin(p) ==
  /\ prod[p].pc = "exit"
  /\ prod' = [prod EXCEPT ![p].pc = "exitSweep", ![p].snap = prod[p].members,
                          ![p].todo = prod[p].members]
  /\ UNCHANGED <<con, call, rem>>

WaitingPC(pc) == IF pc = "sweep" THEN "sweepWait" ELSE "exitWait"

SweepingPC(pc) == IF pc = "sweepWait" THEN "sweep" ELSE "exitSweep"

(* c.Close() of a sweep: the loser of the compare-and-swap does not wait. *)
CloseOne(p) ==
  /\ prod[p].pc \in {"sweep", "exitSweep"}
  /\ \E k \in prod[p].todo :
       IF con[<<p, k>>].closing
       THEN /\ prod' = [prod EXCEPT ![p].todo = @ \ {k}]
            /\ UNCHANGED con
       ELSE /\ prod' = [prod EXCEPT ![p].todo = @ \ {k}, ![p].cur = k,
                                    ![p].pc = WaitingPC(@)]
            /\ con' = [con EXCEPT ![<<p, k>>] = CloseBegin(@)]
  /\ UNCHANGED <<call, rem>>

(* Faulty variant: Close does not wait for the goroutine. *)
ClosedUnawaited(p) ==
  /\ prod[p].pc \in {"sweepWait", "exitWait"}
  /\ prod' = [prod EXCEPT ![p].pc = SweepingPC(@), ![p].cur = None]
  /\ UNCHANGED <<con, call, rem>>

ClosedOne(p) ==
  /\ prod[p].pc \in {"sweepWait", "exitWait"}
  /\ ~Running(<<p, prod[p].cur>>)
  /\ prod' = [prod EXCEPT ![p].pc = SweepingPC(@), ![p].cur = None]
  /\ UNCHANGED <<con, call, rem>>

SweepEnd(p) ==
  /\ prod[p].pc = "sweep"
  /\ prod[p].todo = {}
  /\ prod' = [prod EXCEPT ![p].pc = "loop", ![p].snap = {},
                          ![p].members = Without(p, prod[p].snap)]
  /\ UNCHANGED <<con, call, rem>>

ExitEnd(p) ==
  /\ prod[p].pc = "exitSweep"
  /\ prod[p].todo = {}
  /\ prod' = [prod EXCEPT ![p].pc = "remover", ![p].snap = {},
                          ![p].members = {}]
  /\ UNCHANGED <<con, call, rem>>

RunDemuxerRemover(p) ==
  /\ prod[p].pc = "remover"
  /\ prod' = [prod EXCEPT ![p].pc = "demClose", ![p].removed = TRUE]
  /\ UNCHANGED <<con, call, rem>>

CloseDemuxer(p) ==
  /\ prod[p].pc = "demClose"
  /\ prod' = [prod EXCEPT ![p].pc = "finish", ![p].demuxer = "closed"]
  /\ UNCHANGED <<con, call, rem>>

(* The deferred cancel and wg.Done *)
Finish(p) ==
  /\ prod[p].pc = "finish"
  /\ prod' = [prod EXCEPT ![p].pc = "done", ![p].ctxDone = TRUE]
  /\ con' = CancelChildren(p)
  /\ UNCHANGED <<call, rem>>

(***************************************************************************)
(* The read loop.                                                          *)
(***************************************************************************)
ReaderTick(p) ==
  /\ prod[p].rd = "wait"
  /\ prod' = [prod EXCEPT ![p].rd = "read"]
  /\ UNCHANGED <<con, call, rem>>

ReaderCancelled(p) ==
  /\ prod[p].rd = "wait"
  /\ prod[p].ctxDone
  /\ prod' = [prod EXCEPT ![p].rd = "done"]
  /\ UNCHANGED <<con, call, rem>>

(* ReadPacket returns a packet, and the loop collects the active consumers. *)
ReadPacket(p) ==
  /\ prod[p].rd = "read"
  /\ prod[p].pkts < MaxPackets
  /\ ~prod[p].paused
  /\ prod' = [prod EXCEPT ![p].rd = "write", ![p].pkts = @ + 1,
                          ![p].out = Active(p)]
  /\ UNCHANGED <<con, call, rem>>

ReadError(p) ==
  /\ prod[p].rd = "read"
  /\ MayFail("read", prod[p].ctxDone)
  /\ prod' = [prod EXCEPT ![p].rd = "done"]
  /\ UNCHANGED <<con, call, rem>>

(* Faulty variant: a target is not crossed off. *)
PickTargetAgain(p, k) ==
  /\ prod[p].rd = "write" /\ prod[p].tgt = None
  /\ k \in prod[p].out
  /\ prod' = [prod EXCEPT ![p].tgt = k]
  /\ UNCHANGED <<con, call, rem>>

PickTarget(p, k) ==
  /\ prod[p].rd = "write" /\ prod[p].tgt = None
  /\ k \in prod[p].out
  /\ prod' = [prod EXCEPT ![p].tgt = k, ![p].out = @ \ {k}]
  /\ UNCHANGED <<con, call, rem>>

(* Faulty variant: the packet is dropped when the queue is full. *)
DeliverOrDrop(p) ==
  LET c == <<p, prod[p].tgt>> IN
  /\ prod[p].rd = "write" /\ prod[p].tgt # None
  /\ con' = IF HasRoom(con[c])
            THEN [con EXCEPT ![c] = Enqueue(@, prod[p].pkts)] ELSE con
  /\ prod' = [prod EXCEPT ![p].tgt = None]
  /\ UNCHANGED <<call, rem>>

(* WritePacket blocks while the queue of the target is full. *)
DeliverPacket(p) ==
  LET c == <<p, prod[p].tgt>> IN
  /\ prod[p].rd = "write" /\ prod[p].tgt # None
  /\ HasRoom(con[c])
  /\ con' = [con EXCEPT ![c] = Enqueue(@, prod[p].pkts)]
  /\ prod' = [prod EXCEPT ![p].tgt = None]
  /\ UNCHANGED <<call, rem>>

(* Faulty variant: a full queue blocks the read loop even when cancelled. *)
WriteUncancelled(p) ==
  /\ prod[p].rd = "write" /\ prod[p].tgt # None
  /\ prod[p].ctxDone
  /\ HasRoom(con[<<p, prod[p].tgt>>])
  /\ prod' = [prod EXCEPT ![p].tgt = None]
  /\ UNCHANGED <<con, call, rem>>

WriteCancelled(p) ==
  /\ prod[p].rd = "write" /\ prod[p].tgt # None
  /\ prod[p].ctxDone
  /\ prod' = [prod EXCEPT ![p].tgt = None]
  /\ UNCHANGED <<con, call, rem>>

WriteDone(p) ==
  /\ prod[p].rd = "write" /\ prod[p].tgt = None /\ prod[p].out = {}
  /\ prod' = [prod EXCEPT ![p].rd = "wait"]
  /\ UNCHANGED <<con, call, rem>>

(***************************************************************************)
(* AddConsumer(ctx, IdOf[k], ...) on the producer call[k].prod.            *)
(***************************************************************************)
Return(k, res) == [call EXCEPT ![k].pc = "ret", ![k].res = res]

CheckClosing(k) ==
  /\ call[k].pc = "chkClosing"
  /\ call' = IF prod[call[k].prod].closing
             THEN Return(k, "closing")
             ELSE [call EXCEPT ![k].pc = "chkStarted"]
  /\ UNCHANGED <<con, prod, rem>>

(* started and lastError only ever change once, so one step reads both. *)
CheckStarted(k) ==
  LET p == call[k].prod IN
  /\ call[k].pc = "chkStarted"
  /\ call' = IF ~Started(p) THEN Return(k, "notStarted")
             ELSE IF prod[p].codecs = "err" THEN Return(k, "codecsErr")
             ELSE [call EXCEPT ![k].pc = "insert"]
  /\ UNCHANGED <<con, prod, rem>>

InsertConsumer(k) ==
  LET p == call[k].prod IN
  /\ call[k].pc = "insert"
  /\ IF HasId(p, IdOf[k])
     THEN /\ call' = Return(k, "exists")
          /\ UNCHANGED <<con, prod>>
     ELSE /\ prod' = [prod EXCEPT ![p].members = @ \cup {k}]
          /\ con' = [con EXCEPT ![<<p, k>>] = NewConsumer]
          /\ call' = [call EXCEPT ![k].pc = "getCodecs"]
  /\ UNCHANGED rem

AwaitCodecs(k) ==
  LET p == call[k].prod IN
  /\ call[k].pc = "getCodecs"
  /\ \/ /\ prod[p].codecs \in {"ok", "empty"}
        /\ call' = [call EXCEPT ![k].pc = "send"]
        /\ UNCHANGED con
     \/ /\ prod[p].codecs = "err"
        /\ call' = Return(k, "codecsErr")
        /\ con' = [con EXCEPT ![<<p, k>>] = SetLastError(<<p, k>>, @)]
  /\ UNCHANGED <<prod, rem>>

AwaitCodecsCancelled(k) ==
  LET c == <<call[k].prod, k>> IN
  /\ call[k].pc = "getCodecs"
  /\ call[k].ctx
  /\ call' = Return(k, "ctx")
  /\ con' = [con EXCEPT ![c] = SetLastError(c, @)]
  /\ UNCHANGED <<prod, rem>>

(* Faulty variant: the send does not look at the caller's context. *)
SendBlocks(k) == call[k].pc = "send" /\ FALSE /\ UNCHANGED pvars

(* The caller's own cancellation is reported as ErrProducerClosing. *)
SendCancelled(k) ==
  /\ call[k].pc = "send"
  /\ call[k].ctx
  /\ call' = Return(k, "closing")
  /\ con' = [con EXCEPT ![<<call[k].prod, k>>] = SetInactive(@)]
  /\ UNCHANGED <<prod, rem>>

(* Faulty variant: streamsCh does not wait for its receiver. *)
HandHeaderBuffered(k) ==
  LET c == <<call[k].prod, k>> IN
  /\ call[k].pc = "header"
  /\ prod[call[k].prod].codecs = "ok"
  /\ con' = [con EXCEPT ![c].chClosed = TRUE]
  /\ call' = Return(k, "ok")
  /\ UNCHANGED <<prod, rem>>

(* WriteHeader with streams: the rendezvous on streamsCh. *)
HandHeader(k) ==
  LET c == <<call[k].prod, k>> IN
  /\ call[k].pc = "header"
  /\ prod[call[k].prod].codecs = "ok"
  /\ con[c].pc = "waitHeader"
  /\ con' = [con EXCEPT ![c] = TakeStreams(@)]
  /\ call' = Return(k, "ok")
  /\ UNCHANGED <<prod, rem>>

HeaderNoStreams(k) ==
  LET c == <<call[k].prod, k>> IN
  /\ call[k].pc = "header"
  /\ prod[call[k].prod].codecs = "empty"
  /\ con' = [con EXCEPT ![c] = GiveNoStreams(c, @)]
  /\ call' = Return(k, "ok")
  /\ UNCHANGED <<prod, rem>>

(* The caller's cancellation is not reported: WriteHeader returns nil. *)
HeaderCancelled(k) ==
  LET c == <<call[k].prod, k>> IN
  /\ call[k].pc = "header"
  /\ prod[call[k].prod].codecs = "ok"
  /\ call[k].ctx
  /\ con' = [con EXCEPT ![c] = CloseStreams(@)]
  /\ call' = Return(k, "ok")
  /\ UNCHANGED <<prod, rem>>

CancelCall(k) ==
  /\ k \in Cancellable
  /\ ~call[k].ctx
  /\ call' = [call EXCEPT ![k].ctx = TRUE]
  /\ UNCHANGED <<con, prod, rem>>

(***************************************************************************)
(* RemoveConsumer, Pause and Resume.                                       *)
(***************************************************************************)
RemoveLookup(r, p, k) ==
  /\ rem[r].pc = "idle"
  /\ k \in prod[p].members
  /\ rem' = [rem EXCEPT ![r] = [pc |-> "close", con |-> <<p, k>>]]
  /\ UNCHANGED <<con, prod, call>>

RemoveClose(r) ==
  LET c == rem[r].con IN
  /\ rem[r].pc = "close"
  /\ IF con[c].closing
     THEN /\ rem' = [rem EXCEPT ![r] = [pc |-> "idle", con |-> None]]
          /\ UNCHANGED con
     ELSE /\ rem' = [rem EXCEPT ![r].pc = "wait"]
          /\ con' = [con EXCEPT ![c] = CloseBegin(@)]
  /\ UNCHANGED <<prod, call>>

RemoveReturn(r) ==
  /\ rem[r].pc = "wait"
  /\ ~Running(rem[r].con)
  /\ rem' = [rem EXCEPT ![r] = [pc |-> "idle", con |-> None]]
  /\ UNCHANGED <<con, prod, call>>

(* A demuxer that is still nil is not an av.Pauser: the call returns nil. *)
Pause(p) ==
  /\ CanPause /\ Started(p) /\ ~prod[p].closing
  /\ prod' = [prod EXCEPT ![p].paused = @ \/ prod[p].demuxer # "none"]
  /\ UNCHANGED <<con, call, rem>>

Resume(p) ==
  /\ CanPause /\ Started(p) /\ ~prod[p].closing
  /\ prod' = [prod EXCEPT ![p].paused = @ /\ prod[p].demuxer = "none"]
  /\ UNCHANGED <<con, call, rem>>

(***************************************************************************)
(* The processes.                                                          *)
(***************************************************************************)
MainWork(p) ==
  \/ OpenDemuxer(p) \/ GetStreams(p) \/ SpawnConsumer(p) \/ ExitBegin(p)
  \/ CloseOne(p) \/ ClosedOne(p) \/ SweepEnd(p) \/ ExitEnd(p)
  \/ RunDemuxerRemover(p) \/ CloseDemuxer(p) \/ Finish(p)

MainReceive(p) == \E k \in Calls : ReceiveConsumer(p, k)

MainStep(p) == MainWork(p) \/ MainReceive(p) \/ SweepBegin(p) \/ LoopExit(p)

ReaderPick(p) == \E k \in Calls : PickTarget(p, k)

ReaderWork(p) ==
  ReaderTick(p) \/ ReaderPick(p) \/ DeliverPacket(p) \/ WriteDone(p)

ReadReturns(p) == ReadPacket(p) \/ ReadError(p)

ReaderStep(p) ==
  ReaderWork(p) \/ ReadReturns(p) \/ ReaderCancelled(p) \/ WriteCancelled(p)

CallWork(k) ==
  \/ CheckClosing(k) \/ CheckStarted(k) \/ InsertConsumer(k)
  \/ AwaitCodecs(k) \/ HandHeader(k) \/ HeaderNoStreams(k)

CallCancelled(k) ==
  AwaitCodecsCancelled(k) \/ SendCancelled(k) \/ HeaderCancelled(k)

CallStep(k) == CallWork(k) \/ CallCancelled(k)

RemoverWork(r) == RemoveClose(r) \/ RemoveReturn(r)

RemoverStart(r) == \E p \in Producers, k \in Calls : RemoveLookup(r, p, k)

ConsumerNext(c) == ConsumerStep(c) /\ UNCHANGED <<prod, call, rem>>

(* The steps of every goroutine the producers and their callers run. *)
ProducerSteps ==
  \/ \E p \in Producers : MainStep(p) \/ ReaderStep(p) \/ Pause(p) \/ Resume(p)
  \/ \E k \in Calls : CallStep(k) \/ CancelCall(k)
  \/ \E r \in Removers : RemoverWork(r) \/ RemoverStart(r)
  \/ \E c \in Consumers : ConsumerNext(c)

ProducerTypeOK ==
  /\ ConsumerTypeOK
  /\ prod \in [Producers -> ProducerRecords]
  /\ call \in [Calls -> CallRecords]
  /\ rem \in [Removers -> RemoverRecords]

(***************************************************************************)
(* The producers under a caller that stands for the manager: it starts     *)
(* each producer once, closes it at any time, and may end the context it   *)
(* was started with; the AddConsumer calls arrive at any time.             *)
(***************************************************************************)
EnvStart(p) ==
  /\ ~Started(p)
  /\ prod' = [prod EXCEPT ![p] = Launch(@, FALSE)]
  /\ UNCHANGED <<con, call, rem>>

EnvClose(p) == ProducerCloseBegin(p) /\ UNCHANGED <<call, rem>>

EnvParentDone(p) ==
  /\ Started(p)
  /\ ~prod[p].ctxDone
  /\ prod' = [prod EXCEPT ![p].ctxDone = TRUE]
  /\ con' = CancelChildren(p)
  /\ UNCHANGED <<call, rem>>

EnvCall(k, p) ==
  /\ call[k].pc = "idle"
  /\ call' = [call EXCEPT ![k].pc = "chkClosing", ![k].prod = p]
  /\ UNCHANGED <<con, prod, rem>>

ProducerNext ==
  \/ ProducerSteps
  \/ \E p \in Producers :
       \/ EnvStart(p) \/ EnvClose(p) \/ EnvParentDone(p)
       \/ \E k \in Calls : EnvCall(k, p)

ProducerSpec == ProducerInit /\ [][ProducerNext]_pvars

(***************************************************************************)
(* Every goroutine that can take a step takes one, and external calls      *)
(* return (weak fairness).  Nothing is assumed of the environment, nor of  *)
(* which ready case a select takes: within the bounds on packets and calls *)
(* no case can be passed over for ever.  Of a demuxer it is only assumed   *)
(* that ReadPacket returns when its context is done.                       *)
(***************************************************************************)
MainFair(p) == WF_pvars(MainStep(p))

ReaderFair(p) ==
  WF_pvars(\/ ReaderWork(p) \/ ReaderCancelled(p) \/ WriteCancelled(p)
           \/ prod[p].ctxDone /\ ReadReturns(p))

ProducerFairness ==
  /\ \A c \in Consumers : WF_pvars(ConsumerNext(c))
  /\ \A p \in Producers : MainFair(p) /\ ReaderFair(p)
  /\ \A k \in Calls : WF_pvars(CallStep(k))
  /\ \A r \in Removers : WF_pvars(RemoverWork(r))

FairProducerSpec == ProducerSpec /\ ProducerFairness
=============================================================================
