------------------------------ MODULE Validator ------------------------------
(***************************************************************************)
(* What one chain's tasks do together: the indexer and the checker of one  *)
(* process, over the same chain, the same table, the same mode and the     *)
(* same shutdown signal.  The steps are those of EventIndexer and          *)
(* FcrChecker; a step both modules describe is taken jointly: what the     *)
(* indexer gets from the provider is what the checker finds in the table.  *)
(***************************************************************************)
EXTENDS Chain

CONSTANTS
    Modes, MaxRange, ProviderLimit, Pruned, MaxRestarts,    \* as in the parts
    IndexerFaults,   \* failures of the endpoints and INSERTs of the indexer
    CheckerFaults    \* failures of the calls and statements of the checker

ASSUME ModeAssumption == Modes \subseteq {"block-finality", "fcr"}
ASSUME RangeAssumption == MaxRange \in Nat \ {0} /\ ProviderLimit \in Nat
ASSUME PrunedAssumption == Pruned \subseteq Blocks
ASSUME RestartAssumption == MaxRestarts \in Nat

\* The parts name the same failure of an INSERT, and the composition knows no
\* bound on how long one takes.
ASSUME FaultAssumption ==
    /\ IndexerFaults \subseteq {"resolve", "getlogs", "lag", "insert"}
    /\ CheckerFaults \subseteq {"rpc", "db", "lostack", "insert", "slowinsert"}
    /\ "slowinsert" \in CheckerFaults

VARIABLES
    safe, broken,                                        \* the chain's safe head
    indexerPc, cursor, upper, startBlock, chunkStart, indexedThrough, origin,
    stored, lost,
    fetched,                                             \* the chunk in hand
    status, logBlock, alerts,                            \* the tables
    checkerPc, bound, todo, block, affected,
    mode, shutdown, restarts

Indexer == INSTANCE EventIndexer
    WITH pc <- indexerPc, Faults <- IndexerFaults,
         batch <- {l \in Log : fetched[l] # NoBlock}
Checker == INSTANCE FcrChecker
    WITH pc <- checkerPc, Faults <- CheckerFaults

headVars == <<safe, broken>>
indexerVars == <<indexerPc, cursor, upper, startBlock, chunkStart, indexedThrough,
                 origin, stored, lost>>
tableVars == <<status, logBlock, alerts>>
checkerVars == <<checkerPc, bound, todo, block, affected>>
vars == <<canon, place, finalized, reorgs, headVars, indexerVars, fetched, tableVars,
          checkerVars, mode, shutdown, restarts>>

-----------------------------------------------------------------------------
\* The steps of the indexer that touch neither the provider's logs nor the table.
Poll ==
    /\ UNCHANGED <<fetched, tableVars, checkerVars>>
    /\ \/ Indexer!ResolveUpperBound \/ Indexer!ResolveFails \/ Indexer!NoNewBlocks
       \/ Indexer!BeginPoll \/ Indexer!GetLogsFails \/ Indexer!NextChunk
       \/ Indexer!EndPoll \/ Indexer!SleepOrStop

\* eth_getLogs: every log comes with the number and the hash of its block.
GetLogs ==
    /\ \E logs \in SUBSET {l \in Log : 0 < place[l]} :
          fetched' = [l \in Log |-> IF l \in logs THEN BlockOf(l) ELSE NoBlock]
    /\ Indexer!GetLogs
    /\ UNCHANGED <<tableVars, checkerVars>>

InsertRow(l) ==
    /\ Checker!InsertRow(l)
    /\ Indexer!InsertLog(l)

InsertFails(l) ==
    /\ Checker!InsertFails(l)
    /\ Indexer!InsertFails(l)

DeleteRow(l) ==
    /\ Checker!DeleteRow(l)
    /\ UNCHANGED <<headVars, indexerVars>>

\* Every step of the checker leaves the indexer alone.
Check ==
    /\ Checker!CheckerStep
    /\ UNCHANGED <<headVars, indexerVars>>

ChainMoves ==
    /\ UNCHANGED <<fetched, tableVars, checkerVars>>
    /\ Indexer!ChainGrows \/ Indexer!ChainReorganises

\* Ctrl-C reaches both tasks.
Shutdown ==
    /\ Checker!Shutdown
    /\ Indexer!Shutdown

RestartWithLogs ==    \* mutant: the logs in hand outlive the process
    /\ restarts < MaxRestarts /\ restarts' = restarts + 1
    /\ mode' \in Modes /\ checkerPc' = Checker!FirstPc(mode') /\ indexerPc' = "resolve"
    /\ shutdown' = FALSE
    /\ cursor' = 0 /\ upper' = 0 /\ startBlock' = 0 /\ chunkStart' = 0
    /\ indexedThrough' = 0 /\ origin' = 0
    /\ bound' = 0 /\ todo' = {} /\ block' = NoBlock /\ affected' = {}
    /\ UNCHANGED <<canon, place, finalized, reorgs, headVars, stored, lost, fetched,
                   tableVars>>
Restart ==
    /\ Checker!Restart
    /\ Indexer!Restart

Init == Checker!Init /\ Indexer!Init

Next ==
    \/ Poll \/ GetLogs \/ Check \/ ChainMoves \/ Shutdown \/ Restart
    \/ \E l \in Log : InsertRow(l) \/ InsertFails(l) \/ DeleteRow(l)

Spec == Init /\ [][Next]_vars

-----------------------------------------------------------------------------
\* The two bodies of state both parts describe stay in step, and the hand of the
\* indexer is empty when it asks for more.
TypeOK ==
    /\ Indexer!TypeOK /\ Checker!TypeOK
    /\ indexerPc # "insert" => \A l \in Log : fetched[l] = NoBlock

\* "Records a false positive if the block did not survive" (README): an alert,
\* and a row whose block is off the chain, is always one of a block that was
\* replaced after the chain had called it safe, or replaced another such one.
\* The validator raises no alarm, and stores no orphan, that a correct safe head
\* would have spared it, although it resolves the bound, asks for the logs and
\* inserts them at three different moments.
AlarmMeansBrokenSafety ==
    \A l \in Log :
        /\ logBlock[l] # NoBlock /\ ~Canonical(logBlock[l]) => broken <= logBlock[l][1]
        /\ \A pair \in Checker!ForkBlocks : alerts[l][pair] > 0 => broken <= pair[1]

\* What the checker relies on is what the indexer does: only logs at the bound of
\* its mode are fetched.
ImplementsChecker == Checker!Spec

=============================================================================
