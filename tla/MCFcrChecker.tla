----------------------------- MODULE MCFcrChecker -----------------------------
(* Small instances of FcrChecker: two blocks, a log in each; a reorganisation *)
(* may include it in another block, or never again.                           *)
EXTENDS FcrChecker

CONSTANTS l1, l2

MCHeight == [l \in Log |-> IF l = l1 THEN 1 ELSE 2]
=============================================================================
