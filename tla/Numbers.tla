------------------------------- MODULE Numbers -------------------------------
(***************************************************************************)
(* Numbers and their bits, the most significant one first.                 *)
(***************************************************************************)
EXTENDS Naturals, Sequences

(* 2 ^ k *)
Powers[k \in Nat] == IF k = 0 THEN 1 ELSE 2 * Powers[k - 1]

(* The low n bits of x. *)
Field(x, n) == [i \in 1 .. n |-> (x \div Powers[n - i]) % 2]

(* The number in the n bits of s from place i on. *)
Number(s, i, n) ==
  LET upTo[k \in 0 .. n] ==
        IF k = 0 THEN 0 ELSE 2 * upTo[k - 1] + s[i + k - 1]
  IN  upTo[n]
=============================================================================
