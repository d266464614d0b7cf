------------------------------- MODULE Service -------------------------------
(***************************************************************************)
(* The whole service as one chain sees it: Validator (indexer and checker) *)
(* and RelayPipeline (processors, channel and sender) in one process, over *)
(* one event_logs table.  A row has the columns of both: what the indexer  *)
(* stores is what the processors claim, what the checker judges is what    *)
(* the sender signs and deletes, and the row locks of each hold up the     *)
(* others.  The rows of the other chain only keep the pipeline busy, and   *)
(* are left out.                                                           *)
(***************************************************************************)
EXTENDS Validator

CONSTANTS
    NoMsg, BridgeMode, Processor, ChannelCap, MaxRetry, Keys, ExecConfigs,
    Required, MaxOthers, MaxInserts, MaxSignals, MaxCrashes,  \* as in the pipeline
    MaxEnds,         \* bound: signals and crashes together
    PipelineFaults   \* failures of the pipeline's calls and statements

ASSUME PipelineAssumption ==
    /\ NoMsg \notin Log
    /\ BridgeMode \in [Log -> {"AMB_ETH", "AMB_GC", "XDAI_ETH", "XDAI_GC"}]
    /\ ChannelCap \in Nat \ {0} /\ MaxRetry \in Nat \ {0}
    /\ Keys \subseteq {"AMB", "XDAI"}
    /\ ExecConfigs \subseteq SUBSET {"AMB", "XDAI"} /\ ExecConfigs # {}
    /\ Required \in Nat \ {0} /\ MaxOthers \in Nat
    /\ MaxInserts \in Nat
    /\ MaxSignals \in Nat /\ MaxCrashes \in Nat /\ MaxEnds \in Nat

\* The checker's row locks, and the block a row was stored from, are known here:
\* to the pipeline alone they are rows its claim query passes over.
ASSUME PipelineFaultAssumption ==
    /\ PipelineFaults \subseteq {"rpc", "lostsend", "receipt", "revert", "db",
                                 "lostack", "lostcommit", "decode", "rowlock"}
    /\ "rowlock" \in PipelineFaults

VARIABLES
    isProcessed, retryCount, stage, indexed, ppc, pmsg, pstage, chan, spc, smsg,
    sstage, stx, loose, signed, others, byUs, relayed, exec, signals, crashes,
    stranded

Relay == INSTANCE RelayPipeline
    WITH Msg <- Log, Faults <- PipelineFaults, Rank <- [l \in Log |-> 0]

pipelineVars == <<isProcessed, retryCount, stage, indexed, ppc, pmsg, pstage, chan,
                  spc, smsg, sstage, stx, loose, signed, others, byUs, relayed,
                  exec, signals, crashes, stranded>>
serviceVars == <<vars, pipelineVars>>

-----------------------------------------------------------------------------
\* The indexer and the chain, as far as they do not touch the table.
Watch ==
    /\ Poll \/ GetLogs \/ ChainMoves
    /\ UNCHANGED pipelineVars

\* Mutant: the columns of the checker only, as before migration 001.
StoreWithoutQueue(l) == InsertRow(l) /\ UNCHANGED pipelineVars

\* One INSERT fills the columns of both.
Store(l) ==
    /\ InsertRow(l)
    /\ Relay!Index(l)

StoreFails(l) ==
    /\ InsertFails(l)
    /\ UNCHANGED pipelineVars

\* A statement of the checker waits for a row that a processor's claim has locked;
\* it may fail while it waits.
RowsInUse ==
    /\ checkerPc \in {"confirm", "begin", "record"}
    /\ \E l \in Checker!PendingRows : Relay!Locked(l)

\* Mutant: a false positive is put back into the queue.
RevalidateAndRelease ==
    /\ Check /\ (RowsInUse => Checker!CycleFails)
    /\ isProcessed' = [l \in Log |-> IF status'[l] = "reverted" THEN "false"
                                     ELSE isProcessed[l]]
    /\ UNCHANGED <<retryCount, stage, indexed, ppc, pmsg, pstage, chan, spc, smsg,
                   sstage, stx, loose, signed, others, byUs, relayed, exec, signals,
                   crashes, stranded>>
RevalidateAndDrop ==    \* mutant: the checker removes what it has judged
    /\ Check /\ (RowsInUse => Checker!CycleFails)
    /\ isProcessed' = [l \in Log |-> IF status[l] = "pending" /\ status'[l] # "pending"
                                     THEN "absent" ELSE isProcessed[l]]
    /\ UNCHANGED <<retryCount, stage, indexed, ppc, pmsg, pstage, chan, spc, smsg,
                   sstage, stx, loose, signed, others, byUs, relayed, exec, signals,
                   crashes, stranded>>
Revalidate ==
    /\ Check
    /\ RowsInUse => Checker!CycleFails
    /\ UNCHANGED pipelineVars

\* What the claim query may return: SKIP LOCKED passes over the rows of an open
\* claim and over those the checker's transaction has selected FOR UPDATE.
Free(l) == Relay!Claimable(l) /\ ~Relay!Locked(l) /\ l \notin affected

\* ... ORDER BY block_number
FirstFree(l) ==
    Free(l) /\ \A o \in Log : Free(o) => logBlock[l][1] <= logBlock[o][1]

Process(p) ==
    /\ Relay!ProcessorStep(p)
    /\ ppc'[p] = "locked" => FirstFree(pmsg'[p])
    /\ Relay!NoRow(p) => "db" \in PipelineFaults \/ ~ \E l \in Log : Free(l)
    /\ UNCHANGED vars

\* A statement of the sender waits for the checker's transaction; the DELETE takes
\* the row from both, if it was still there.
RowHeld == spc \in {"stage", "delete", "retry", "release"} /\ smsg \in affected
Gone(l) == Relay!Stored(l) /\ isProcessed'[l] = "absent"

Send ==
    /\ Relay!SenderStep
    /\ RowHeld => Relay!UpdateRowFails \/ Relay!ReleaseFails
    /\ \/ \E l \in Log : Gone(l) /\ DeleteRow(l)
       \/ (\A l \in Log : ~Gone(l)) /\ UNCHANGED vars

BridgesMove ==
    /\ Relay!ChainStep
    /\ UNCHANGED vars

StopAll ==
    /\ signals + crashes < MaxEnds
    /\ Shutdown
    /\ Relay!Shutdown

\* join! ends when the last task has; a crash ends all of them at any point.
StartAgain ==
    /\ Restart
    /\ \/ Relay!Crash /\ crashes' + signals <= MaxEnds
       \/ Relay!Restart /\ indexerPc = "stopped" /\ checkerPc = "stopped"

ServiceInit == Init /\ Relay!Init

ServiceNext ==
    \/ Watch \/ Revalidate \/ Send \/ BridgesMove \/ StopAll \/ StartAgain
    \/ \E l \in Log : Store(l) \/ StoreFails(l)
    \/ \E p \in Processor : Process(p)

ServiceSpec == ServiceInit /\ [][ServiceNext]_serviceVars

-----------------------------------------------------------------------------
\* The parts stay in their types, and a row is there for both or for none.
ServiceTypeOK ==
    /\ TypeOK /\ Relay!TypeOK
    /\ \A l \in Log : Relay!Stored(l) <=> status[l] # "absent"

\* No log is forgotten between the indexer and the home chain: below the cursor of
\* a process each log is still in the table, or the home chain has our signature or
\* needs it no more, however claims, retries, verdicts, reorganisations, crashes and
\* restarts met it.  The exceptions are those of NoGap: an INSERT that failed, a node
\* that lagged, and blocks at or above a broken safe one.
NoLogIsForgotten ==
    cursor > 0 => \A l \in Log :
        /\ origin <= place[l] /\ place[l] <= cursor
        /\ mode = "fcr" => place[l] < broken
        => Relay!Stored(l) \/ Relay!Settled(l) \/ l \in lost

\* The indexer and the checker see of the pipeline a sender that deletes rows.
ImplementsValidator == Spec

\* The pipeline sees of them INSERTs and rows it passes over: it deletes, signs
\* and claims as it does alone, also while rows are judged under its hands.
ImplementsPipeline == Relay!Spec

\* What the bridge is for: our signature reaches a home chain only for a log that
\* the source chain included, in a block that is on it at this moment, unless the
\* chain broke its promise of safety at or below that block.  A row stored in
\* block-finality mode is beyond even that: its block is final.  From eth_getLogs
\* over the row, the claim, the channel and the mempool to the inclusion.
SignaturesAreJustified ==
    [][\A l \in Log : ~signed[l] /\ signed'[l] =>
          /\ logBlock[l] # NoBlock
          /\ Canonical(logBlock[l]) \/ broken <= logBlock[l][1]
          /\ status[l] \in {"final", "confirmed"} => Canonical(logBlock[l])]_serviceVars

=============================================================================
