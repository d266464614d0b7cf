------------------------------ MODULE MCStartup ------------------------------
(* Small instance of Startup: a fallback on one chain, a beacon on the other. *)
EXTENDS Startup

MCUrls == [c \in Chains |-> IF c = "eth" THEN 2 ELSE 1]
=============================================================================
