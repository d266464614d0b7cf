--------------------------- MODULE MCRelayPipeline ---------------------------
(* Small instances of RelayPipeline: two or three events, two processors.    *)
EXTENDS RelayPipeline

CONSTANTS m1, m2, p1, p2

MCRank == [m \in Msg |-> IF m = m1 THEN 1 ELSE 2]

\* One event from each chain, or both from Gnosis Chain.
MCMixed == [m \in Msg |-> IF m = m1 THEN "XDAI_ETH" ELSE "AMB_GC"]
MCGnosis == [m \in Msg |-> IF m = m1 THEN "XDAI_GC" ELSE "AMB_GC"]

MCForeignOn == {{"AMB", "XDAI"}}
MCForeignAny == {{}, {"AMB", "XDAI"}}
=============================================================================
