------------------------------- MODULE MCVolume -------------------------------
(***************************************************************************)
(* Volume with interchangeable names.                                      *)
(***************************************************************************)
EXTENDS Volume, TLC

Names == Permutations(Name)
=============================================================================
