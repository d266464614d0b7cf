-------------------------------- MODULE Chain --------------------------------
(***************************************************************************)
(* One bridge chain as the tasks of the validator read it: which block is  *)
(* at a number, which block includes a log, and how far finality has come. *)
(* A reorganisation replaces every block from some number above the        *)
(* finalized one, and the transactions of the old blocks are included      *)
(* again in a new one, or never.                                           *)
(***************************************************************************)
EXTENDS Naturals

CONSTANTS
    MaxBlock,        \* bound: the highest block the chain reaches
    Log,             \* event logs, named by (transaction_hash, log_index)
    Height,          \* Height[l]: the block that includes l at first
    MaxReorgs        \* bound: reorganisations

Blocks == 1 .. MaxBlock

\* A block hash is the number of the reorganisation that brought the block.
Hashes == 0 .. MaxReorgs
NoBlock == <<0, MaxReorgs + 1>>

ASSUME BlockAssumption == MaxBlock \in Nat
ASSUME HeightAssumption == Height \in [Log -> Blocks]
ASSUME ReorgAssumption == MaxReorgs \in Nat

VARIABLES
    canon,           \* canon[b]: hash of the block at number b
    place,           \* place[l]: number of the block that includes l, 0 if none
    finalized,       \* number of the finalized block
    reorgs           \* reorganisations so far

Canonical(block) == canon[block[1]] = block[2]

\* The block a log of the canonical chain is in.
BlockOf(l) == <<place[l], canon[place[l]]>>

ReplaceFrom(from) ==
    /\ reorgs < MaxReorgs /\ reorgs' = reorgs + 1
    /\ from > finalized
    /\ canon' = [b \in Blocks |-> IF b >= from THEN reorgs' ELSE canon[b]]
    /\ place' \in [Log -> 0 .. MaxBlock]
    /\ \A l \in Log : IF 0 < place[l] /\ place[l] < from
                      THEN place'[l] = place[l]
                      ELSE place'[l] = 0 \/ place'[l] >= from
    /\ UNCHANGED finalized

ChainInit ==
    /\ canon = [b \in Blocks |-> 0] /\ place = Height /\ reorgs = 0

ChainTypeOK ==
    /\ canon \in [Blocks -> Hashes]
    /\ place \in [Log -> 0 .. MaxBlock]
    /\ finalized \in 0 .. MaxBlock
    /\ reorgs \in 0 .. MaxReorgs

=============================================================================
