------------------------------- MODULE Records -------------------------------
(***************************************************************************)
(* The decoder configuration records of h264parser and h265parser hold     *)
(* lists of units, each behind its length.                                 *)
(***************************************************************************)
EXTENDS Integers, Joins

U16(n) == <<(n \div 256) % 256, n % 256>>

Sized(units) ==
  Joined([k \in DOMAIN units |-> U16(Len(units[k])) \o units[k]])[Len(units)]

Sizes(units) == Sums([k \in DOMAIN units |-> Len(units[k])])[Len(units)]

(* A cursor of Unmarshal: n bytes have been read.                            *)
Cursor(b, n) == [b |-> b, n |-> n, ok |-> TRUE, units |-> <<>>]

Refused(c) == [b |-> c.b, n |-> c.n, ok |-> FALSE, units |-> c.units]

LengthAt(c) == 256 * c.b[c.n + 1] + c.b[c.n + 2]

Past(c, length) ==
  [b |-> c.b, n |-> c.n + 2 + length, ok |-> TRUE,
   units |-> Append(c.units, SubSeq(c.b, c.n + 3, c.n + 2 + length))]

(* Faulty variant: a unit may be shorter than it says. *)
UnitCut(c, k) ==
  IF ~c.ok \/ Len(c.b) < c.n + 2 THEN Refused(c)
  ELSE IF Len(c.b) < c.n + 2 + LengthAt(c) THEN Past(c, Len(c.b) - c.n - 2)
  ELSE Past(c, LengthAt(c))

Unit(c, k) ==
  IF ~c.ok \/ Len(c.b) < c.n + 2 THEN Refused(c)
  ELSE IF Len(c.b) < c.n + 2 + LengthAt(c) THEN Refused(c)
  ELSE Past(c, LengthAt(c))

(* What comes of a record that is refused, and of one in which a byte behind *)
(* its end is asked for: the index panics.                                   *)
BadRecord == [ok |-> FALSE, panics |-> FALSE]

OutOfRange == [ok |-> FALSE, panics |-> TRUE]

(* count units from byte n on *)
Units(b, n, count) == Each(Unit, Cursor(b, n), [k \in 1 .. count |-> k])
=============================================================================
