----------------------------- MODULE MCFatCache -----------------------------
(* The TLC instances of FatCache.  The cache moves entries and looks at none *)
(* of them, so one value besides Bad tells a right entry from a wrong one.   *)
EXTENDS FatCache

CONSTANTS bad, good                         \* model values

MCEntry == {bad, good}
=============================================================================
