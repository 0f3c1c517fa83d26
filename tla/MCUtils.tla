------------------------------- MODULE MCUtils -------------------------------
(***************************************************************************)
(* The registry and the copying of avutil and the readers, the writer and  *)
(* the vectors of utils/bits for TLC, in one run.  They share no state:    *)
(* each one goes on while the others rest.                                 *)
(***************************************************************************)
EXTENDS MCAvutil, BitWriter, BitReader, Golomb, Vec

VARIABLE part

MCParts == {"avutil", "BitWriter", "BitReader", "Golomb", "Vec"}

UtilsInit ==
  /\ part \in MCParts
  /\ AvutilInit /\ WriterInit /\ ReaderInit /\ GolombInit /\ VecInit

(* All but the part of that name. *)
OthersRest ==
  /\ UNCHANGED part
  /\ part # "avutil" => UNCHANGED <<hvars, cvars>>
  /\ part # "BitWriter" => UNCHANGED wvars
  /\ part # "BitReader" => UNCHANGED rvars
  /\ part # "Golomb" => UNCHANGED data
  /\ part # "Vec" => UNCHANGED lens

UtilsNext ==
  \/ part = "avutil" /\ OthersRest /\ AvutilNext
  \/ part = "BitWriter" /\ OthersRest /\ WriterNext
  \/ part = "BitReader" /\ OthersRest /\ ReaderNext
  \/ part = "Golomb" /\ OthersRest /\ ReceiveBit
  \/ part = "Vec" /\ OthersRest /\ AddPiece

UtilsSpec == UtilsInit /\ [][UtilsNext]_<<part, hvars, cvars, wvars, rvars, data, lens>>
=============================================================================
