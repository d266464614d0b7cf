------------------------------ MODULE MCService ------------------------------
(* A small instance of Service: one block that is replaced twice, its log,    *)
(* and one processor.                                                         *)
EXTENDS Service

CONSTANTS l1, p1

MCHeight == [l \in Log |-> 1]
MCBridgeMode == [l \in Log |-> "AMB_ETH"]
MCExecConfigs == {{}}
=============================================================================
