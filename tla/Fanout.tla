------------------------------- MODULE Fanout -------------------------------
(***************************************************************************)
(* What the read loop of a producer promises its subscribers, without      *)
(* queues, goroutines or a consumer map: packets 1, 2, 3, ... are          *)
(* published one at a time; a packet goes to every subscriber that has     *)
(* joined and not gone, to each at most once; and the next one is not      *)
(* published before all of them have accepted it, unless the publisher has *)
(* been cancelled, which lets it drop packets and forget subscribers.      *)
(***************************************************************************)
EXTENDS Naturals, Sequences

CONSTANTS Subscribers, LastPacket

VARIABLES
  head,       \* the packets published so far
  log,        \* log[s]: the packets s has accepted
  pend,       \* who has yet to accept the head packet
  joined,     \* who has joined and not been forgotten
  gone,       \* who has failed or left, for good
  cancelled   \* whether the publisher has been cancelled, or has given up

fanoutVars == <<head, log, pend, joined, gone, cancelled>>

FanoutInit ==
  /\ head = 0
  /\ log = [s \in Subscribers |-> <<>>]
  /\ pend = {} /\ joined = {} /\ gone = {}
  /\ cancelled = FALSE

Join(s) ==
  /\ s \notin joined \cup gone
  /\ joined' = joined \cup {s}
  /\ UNCHANGED <<head, log, pend, gone, cancelled>>

(* All that have joined and not gone, and nobody else. *)
Publish ==
  /\ pend = {}
  /\ head < LastPacket
  /\ head' = head + 1
  /\ pend' = joined \ gone
  /\ UNCHANGED <<log, joined, gone, cancelled>>

Accept(s) ==
  /\ s \in pend
  /\ log' = [log EXCEPT ![s] = Append(@, head)]
  /\ pend' = pend \ {s}
  /\ UNCHANGED <<head, joined, gone, cancelled>>

Drop(s) ==
  /\ cancelled
  /\ s \in pend
  /\ pend' = pend \ {s}
  /\ UNCHANGED <<head, log, joined, gone, cancelled>>

Leave ==
  /\ \E S \in SUBSET Subscribers : gone' = gone \cup S
  /\ UNCHANGED <<head, log, pend, joined, cancelled>>

(* Nobody but who has gone is forgotten by a publisher that goes on.         *)
Forget ==
  /\ \E S \in SUBSET joined :
       /\ cancelled \/ S \subseteq gone
       /\ joined' = joined \ S
  /\ UNCHANGED <<head, log, pend, gone, cancelled>>

Cancel ==
  /\ cancelled' = TRUE
  /\ \E S \in SUBSET Subscribers : gone' = gone \cup S
  /\ UNCHANGED <<head, log, pend, joined>>

FanoutNext ==
  \/ Publish \/ Leave \/ Forget \/ Cancel
  \/ \E s \in Subscribers : Join(s) \/ Accept(s) \/ Drop(s)

FanoutSpec == FanoutInit /\ [][FanoutNext]_fanoutVars
=============================================================================
