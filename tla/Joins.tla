-------------------------------- MODULE Joins --------------------------------
(***************************************************************************)
(* Sequences that are put behind each other and numbers that are added up, *)
(* for the properties that compare a whole with its parts, and steps that  *)
(* are taken one for each item of a list.                                  *)
(***************************************************************************)
EXTENDS Naturals, Sequences

(* Sequences joined one after the other: the first n of the parts. *)
Joined(parts) ==
  LET upTo[n \in 0 .. Len(parts)] ==
        IF n = 0 THEN <<>> ELSE upTo[n - 1] \o parts[n]
  IN  upTo

(* Numbers added up: the first n of them. *)
Sums(numbers) ==
  LET upTo[n \in 0 .. Len(numbers)] ==
        IF n = 0 THEN 0 ELSE upTo[n - 1] + numbers[n]
  IN  upTo

(* One step for each item of a list, first to last. *)
Each(step(_, _), r, list) ==
  LET upTo[k \in 0 .. Len(list)] ==
        IF k = 0 THEN r ELSE step(upTo[k - 1], list[k])
  IN  upTo[Len(list)]
=============================================================================
