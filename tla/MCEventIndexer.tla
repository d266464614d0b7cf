---------------------------- MODULE MCEventIndexer ----------------------------
(* Small instances of EventIndexer: blocks and one or two logs, which a        *)
(* reorganisation may move anywhere above the finalized block, or drop.       *)
EXTENDS EventIndexer

CONSTANTS l1, l2

MCHeight == [l \in Log |-> IF l = l1 THEN 2 ELSE 3]
=============================================================================
