------------------------------ MODULE MCWorkDir ------------------------------
(***************************************************************************)
(* A tree for WorkDir: under the root (cluster 2) one directory made by    *)
(* mtools and one made by fat32_create_dir, and one under the first.       *)
(***************************************************************************)
EXTENDS WorkDir

CONSTANTS a, b

Leaf == [s \in {a, b} |-> NoDir]
Tree == (2 :> [s \in {a, b} |-> IF s = a THEN 3 ELSE 4])
          @@ (3 :> [s \in {a, b} |-> IF s = a THEN NoDir ELSE 5])
          @@ (4 :> Leaf) @@ (5 :> Leaf)
DotDots == 3 :> 0 @@ 4 :> 2 @@ 5 :> 3
=============================================================================
