------------------------------- MODULE Sources -------------------------------
(***************************************************************************)
(* What a stream manager promises those who own the sources, without       *)
(* producer objects, goroutines or locks: for each ID a source is asked    *)
(* for, started, closed and forgotten; it is opened while it is started or *)
(* being closed, by one at a time; it is not forgotten while it is open,   *)
(* nor one that was started unless it has been closed; and once the        *)
(* manager has ended no source is started or opened any more.              *)
(***************************************************************************)
CONSTANT Ids

VARIABLES
  source,  \* source[id]: "none", "waiting", "running" or "closing"
  open,    \* the IDs whose source is open
  ended    \* whether the manager has ended

sourceVars == <<source, open, ended>>

SourcesInit ==
  /\ source = [id \in Ids |-> "none"]
  /\ open = {}
  /\ ended = FALSE

Becomes(id, from, to) ==
  /\ source[id] \in from
  /\ source' = [source EXCEPT ![id] = to]
  /\ UNCHANGED <<open, ended>>

Ask(id) == Becomes(id, {"none"}, "waiting")

StartSource(id) == ~ended /\ Becomes(id, {"waiting"}, "running")

CloseSource(id) == Becomes(id, {"waiting", "running"}, "closing")

OpenSource(id) ==
  /\ ~ended
  /\ id \notin open /\ source[id] \in {"running", "closing"}
  /\ open' = open \cup {id}
  /\ UNCHANGED <<source, ended>>

ShutSource(id) ==
  /\ id \in open
  /\ open' = open \ {id}
  /\ UNCHANGED <<source, ended>>

(* Of those that were never started the end of the manager forgets too. *)
Forget ==
  /\ \E ids \in SUBSET (Ids \ open) :
       /\ \A id \in ids : source[id] # "running"
       /\ source' = [id \in Ids |-> IF id \in ids THEN "none" ELSE source[id]]
  /\ ended' \in {ended, TRUE}
  /\ UNCHANGED open

SourcesNext ==
  \/ \E id \in Ids :
       \/ Ask(id) \/ StartSource(id) \/ CloseSource(id)
       \/ OpenSource(id) \/ ShutSource(id)
  \/ Forget

SourcesSpec == SourcesInit /\ [][SourcesNext]_sourceVars
=============================================================================
