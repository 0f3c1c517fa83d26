------------------------------ MODULE Consumer ------------------------------
(***************************************************************************)
(* The consumer of av/streammanager3/consumer.go: one goroutine that waits *)
(* for the stream headers, opens a muxer, and writes to it the packets the *)
(* producer puts into a bounded queue.  A consumer object is a record      *)
(* con[c]; the operators below return the record an operation leaves, and  *)
(* the actions are the steps of the goroutine.  The calls that another     *)
(* goroutine makes on a consumer (Start, WriteHeader, WritePacket, Close)  *)
(* are operators, because their callers, in Producer, do them as part of   *)
(* steps of their own.                                                     *)
(*                                                                         *)
(* con[c] has the fields of the Go struct that decide what happens:        *)
(*   pc         where the goroutine is; "none" before it is spawned        *)
(*   closing    alreadyClosing                                             *)
(*   inactive   inactive                                                   *)
(*   cancel     whether the field cancel is non-nil                        *)
(*   ctxDone    whether the context of the goroutine is done               *)
(*   lastError  whether lastError is non-nil                               *)
(*   chClosed   whether streamsCh is closed                                *)
(*   queue      the channel queue                                          *)
(* and, for the properties,                                                *)
(*   written    the packets passed to muxer.WritePacket, in order          *)
(*   mux        what has been done to the muxer (the lifecycle of          *)
(*              av/muxer.go)                                               *)
(*   late       whether the goroutine was spawned after Close had begun    *)
(***************************************************************************)
EXTENDS Naturals, Sequences, FiniteSets

CONSTANTS
  Consumers,    \* the consumer objects
  NilErrCh,     \* those given a nil errChan
  QueueCap,     \* capacity of the channel queue (50 in the code)
  MaxPackets,   \* bound: packets a demuxer delivers, numbered from 1
  Faults        \* the external calls that may fail with a live context

ASSUME ConsumerAssumption ==
  /\ NilErrCh \subseteq Consumers
  /\ QueueCap \in Nat \ {0}
  /\ MaxPackets \in Nat

VARIABLE con

ConsumerPC == {"none", "waitHeader", "factory", "header", "loop", "write",
               "close", "remover", "done"}

MuxStates == {"none", "open", "header", "trailer", "closed"}

ConsumerRecords ==
  [pc : ConsumerPC, closing : BOOLEAN, inactive : BOOLEAN, cancel : BOOLEAN,
   ctxDone : BOOLEAN, lastError : BOOLEAN, chClosed : BOOLEAN,
   queue : Seq(Nat), written : Seq(Nat), mux : MuxStates,
   late : BOOLEAN]

NewConsumer ==
  [pc |-> "none", closing |-> FALSE, inactive |-> FALSE, cancel |-> FALSE,
   ctxDone |-> FALSE, lastError |-> FALSE, chClosed |-> FALSE,
   queue |-> <<>>, written |-> <<>>, mux |-> "none", late |-> FALSE]

ConsumerInit == con = [c \in Consumers |-> NewConsumer]

(* The counter of the consumer's WaitGroup is positive. *)
Running(c) == con[c].pc \notin {"none", "done"}

MuxOpen(c) == con[c].mux \in {"open", "header"}

(***************************************************************************)
(* Operations, as functions from the record before to the record after.    *)
(***************************************************************************)
(* Faulty variant: the error does not deactivate the consumer. *)
SetLastErrorOnly(c, r) == [r EXCEPT !.lastError = TRUE]

(* A nil errChan returns before inactive is stored. *)
SetLastError(c, r) ==
  [r EXCEPT !.lastError = TRUE, !.inactive = @ \/ c \notin NilErrCh]

SetInactive(r) == [r EXCEPT !.inactive = TRUE]

(* Faulty variant: Close does not cancel the context. *)
CloseWithoutCancel(r) == [r EXCEPT !.closing = TRUE, !.inactive = TRUE]

(* Close up to wg.Wait: a cancel that is still nil is not called. *)
CloseBegin(r) ==
  [r EXCEPT !.closing = TRUE, !.inactive = TRUE, !.ctxDone = @ \/ r.cancel]

(* The first half of Start: the context and the field cancel. *)
DeriveContext(r, parentDone) ==
  [r EXCEPT !.cancel = TRUE, !.ctxDone = parentDone]

(* The second half of Start: wg.Add and the go statement. *)
Spawned(r) == [r EXCEPT !.pc = "waitHeader", !.late = r.closing]

(* A context is done as soon as its parent is. *)
ContextDone(r) == [r EXCEPT !.ctxDone = @ \/ r.cancel]

(* The goroutine receives the streams that WriteHeader sends, and           *)
(* WriteHeader closes the channel after it.                                *)
TakeStreams(r) == [r EXCEPT !.pc = "factory", !.chClosed = TRUE]

(* WriteHeader without a receiver: no streams, or the caller's context.     *)
GiveNoStreams(c, r) == [SetLastError(c, r) EXCEPT !.chClosed = TRUE]
CloseStreams(r) == [r EXCEPT !.chClosed = TRUE]

HasRoom(r) == Len(r.queue) < QueueCap

Enqueue(r, pkt) == [r EXCEPT !.queue = Append(@, pkt)]

(* The goroutine returns: a muxer is closed first, then inactive is stored. *)
Unwind(r) ==
  IF r.mux = "none" THEN [r EXCEPT !.pc = "remover", !.inactive = TRUE]
                    ELSE [r EXCEPT !.pc = "close"]

(* The reader of the packets skips a consumer that has failed or is inactive.*)
IsActive(r) == ~r.lastError /\ ~r.inactive

(***************************************************************************)
(* The steps of the goroutine.                                             *)
(***************************************************************************)
(* An external call made with context ctxDone may fail. *)
MayFail(call, ctxDone) == call \in Faults \/ ctxDone

WaitCancelled(c) ==
  /\ con[c].pc = "waitHeader"
  /\ con[c].ctxDone
  /\ con' = [con EXCEPT ![c] = Unwind(SetLastError(c, @))]

WaitClosed(c) ==
  /\ con[c].pc = "waitHeader"
  /\ con[c].chClosed
  /\ con' = [con EXCEPT ![c] = Unwind(@)]

OpenMuxer(c) ==
  /\ con[c].pc = "factory"
  /\ \/ con' = [con EXCEPT ![c].pc = "header", ![c].mux = "open"]
     \/ /\ MayFail("muxFactory", con[c].ctxDone)
        /\ con' = [con EXCEPT ![c] = Unwind(SetLastError(c, @))]

WriteMuxHeader(c) ==
  /\ con[c].pc = "header"
  /\ \/ con' = [con EXCEPT ![c].pc = "loop", ![c].mux = "header"]
     \/ /\ MayFail("muxHeader", con[c].ctxDone)
        /\ con' = [con EXCEPT ![c] = Unwind(SetLastError(c, @))]

(* Faulty variant: the context is looked at when a packet arrives. *)
LoopCancelledLate(c) ==
  /\ con[c].pc = "loop"
  /\ con[c].ctxDone /\ con[c].queue # <<>>
  /\ con' = [con EXCEPT ![c] = Unwind(@)]

LoopCancelled(c) ==
  /\ con[c].pc = "loop"
  /\ con[c].ctxDone
  /\ con' = [con EXCEPT ![c] = Unwind(@)]

(* Faulty variant: the goroutine waits for two packets. *)
DequeueLate(c) ==
  /\ con[c].pc = "loop"
  /\ Len(con[c].queue) > 1
  /\ con' = [con EXCEPT ![c].pc = "write",
                        ![c].queue = Tail(@),
                        ![c].written = Append(@, Head(con[c].queue))]

Dequeue(c) ==
  /\ con[c].pc = "loop"
  /\ con[c].queue # <<>>
  /\ con' = [con EXCEPT ![c].pc = "write",
                        ![c].queue = Tail(@),
                        ![c].written = Append(@, Head(con[c].queue))]

WriteMuxPacket(c) ==
  /\ con[c].pc = "write"
  /\ \/ con' = [con EXCEPT ![c].pc = "loop"]
     \/ /\ MayFail("muxPacket", con[c].ctxDone)
        /\ con' = [con EXCEPT ![c] = Unwind(SetLastError(c, @))]

CloseMuxer(c) ==
  /\ con[c].pc = "close"
  /\ con' = [con EXCEPT ![c].pc = "remover", ![c].mux = "closed",
                        ![c].inactive = TRUE]

(* muxerRemover, cancel and wg.Done *)
RunMuxerRemover(c) ==
  /\ con[c].pc = "remover"
  /\ con' = [con EXCEPT ![c].pc = "done", ![c].ctxDone = TRUE]

ConsumerStep(c) ==
  \/ WaitCancelled(c) \/ WaitClosed(c) \/ OpenMuxer(c) \/ WriteMuxHeader(c)
  \/ LoopCancelled(c) \/ Dequeue(c) \/ WriteMuxPacket(c)
  \/ CloseMuxer(c) \/ RunMuxerRemover(c)

ConsumerTypeOK == con \in [Consumers -> ConsumerRecords]
=============================================================================
