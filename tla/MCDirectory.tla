----------------------------- MODULE MCDirectory -----------------------------
(***************************************************************************)
(* Instances of Directory: two names of 8.3 form, and for some runs a      *)
(* long one that is cut to the first of them.                              *)
(***************************************************************************)
EXTENDS Directory

CONSTANTS f, g, long

ShortOnly == [n \in {f, g} |-> n]
ShortAndLong == [n \in {f, g, long} |-> IF n = long THEN f ELSE n]
=============================================================================
