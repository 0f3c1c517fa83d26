------------------------------ MODULE LawSweep -------------------------------
(***************************************************************************)
(* Every sample of 16 bits, one after the other, through both laws of Law. *)
(***************************************************************************)
EXTENDS Law

VARIABLE sample

SweepInit == sample = Lowest

NextSample == sample < Highest /\ sample' = sample + 1

SweepSpec == SweepInit /\ [][NextSample]_sample

Distance(x, y) == IF x < y THEN y - x ELSE x - y

ThroughA(x) == PCMAtoPCM(PCMtoPCMA(x))

ThroughU(x) == PCMUtoPCM(PCMtoPCMU(x))

(* Every code stands for a level that is coded as itself: audio that was     *)
(* decoded and is encoded again keeps its bytes (pcma.go:14-60,              *)
(* pcmu.go:16-60).                                                           *)
CodesSurvive ==
  sample \in 0 .. 255 =>
    PCMtoPCMA(PCMAtoPCM(sample)) = sample /\ PCMtoPCMU(PCMUtoPCM(sample)) = sample

(* A sample comes back within a 32nd of its size, or within the smallest     *)
(* step where it is quiet; the lowest sample of all, whose negation          *)
(* overflows, comes back as silence instead (pcma.go:39-42, pcmu.go:36-43).  *)
LevelIsClose ==
  IF sample = Lowest THEN ThroughA(sample) = -8 /\ ThroughU(sample) = -1
  ELSE /\ \/ 32 * Distance(ThroughA(sample), sample) <= Magnitude(sample)
          \/ Distance(ThroughA(sample), sample) <= 8
       /\ 32 * Distance(ThroughU(sample), sample) <= Magnitude(sample) + Bias

(* Above the lowest sample a louder sample never comes back quieter: no      *)
(* segment of a law overlaps the next (pcma.go:48-57, pcmu.go:45-57).        *)
LawIsMonotone ==
  sample \in Lowest + 1 .. Highest - 1 =>
    ThroughA(sample) <= ThroughA(sample + 1) /\ ThroughU(sample) <= ThroughU(sample + 1)

(* Both laws of G.711 (pcma.go:14-60, pcmu.go:16-60).                        *)
LawsHold == CodesSurvive /\ LevelIsClose /\ LawIsMonotone
=============================================================================
