------------------------------ MODULE MCSlices ------------------------------
(***************************************************************************)
(* The H.265 slices of ParameterSets for TLC.  No stream has sent its sets,*)
(* so the constructors are never called; the sets are those of MCCodec.    *)
(***************************************************************************)
EXTENDS ParameterSets

MCPictureSet == <<104, 206>>

MCVideoSet == <<64, 1, 12>>
=============================================================================
