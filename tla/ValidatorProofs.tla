--------------------------- MODULE ValidatorProofs ---------------------------
(***************************************************************************)
(* Theorems about Validator: the composition implements both of its parts, *)
(* so that what is proved of the indexer and of the checker holds of them  *)
(* together, and an alarm always means that a safe block was replaced.     *)
(***************************************************************************)
EXTENDS Validator, TLAPS

IndexerFacts == INSTANCE EventIndexerProofs
    WITH pc <- indexerPc, Faults <- IndexerFaults,
         batch <- {l \in Log : fetched[l] # NoBlock}
CheckerFacts == INSTANCE FcrCheckerProofs
    WITH pc <- checkerPc, Faults <- CheckerFaults

-----------------------------------------------------------------------------
\* Every step of the composition is one of the indexer, or leaves it alone.
LEMMA IndexerStepSimulation == [Next]_vars => [Indexer!Next]_(Indexer!vars)
<1> SUFFICES ASSUME [Next]_vars PROVE Indexer!Next \/ UNCHANGED Indexer!vars
  OBVIOUS
<1>1. CASE Poll
  BY <1>1 DEF Poll, Indexer!Next, Indexer!IndexerStep
<1>2. CASE GetLogs
  BY <1>2 DEF GetLogs, Indexer!Next, Indexer!IndexerStep
<1>3. ASSUME NEW l \in Log, InsertRow(l) \/ InsertFails(l) PROVE Indexer!Next
  BY <1>3 DEF InsertRow, InsertFails, Indexer!Next, Indexer!IndexerStep
<1>4. CASE ChainMoves
  BY <1>4 DEF ChainMoves, Indexer!Next
<1>5. CASE Shutdown \/ Restart
  BY <1>5 DEF Shutdown, Restart, Indexer!Next
<1>6. CASE \/ Check \/ UNCHANGED vars \/ \E l \in Log : DeleteRow(l)
  <2>1. UNCHANGED <<canon, place, finalized, reorgs, headVars, indexerVars, fetched,
                    mode, shutdown, restarts>>
    BY <1>6 DEF Check, DeleteRow, vars, Checker!CheckerStep, Checker!ResolveFinalized,
                Checker!QueryPending, Checker!LookUp, Checker!Unavailable,
                Checker!Finished, Checker!MarkConfirmed, Checker!SelectAffected,
                Checker!RecordFalsePositive, Checker!CycleFails, Checker!SleepOrStop,
                Checker!DeleteRow, Checker!chainVars, Checker!lifeVars
  <2> QED
    BY <2>1 DEF Indexer!vars, Indexer!chainVars, Indexer!cycleVars, Indexer!lifeVars,
                headVars, indexerVars
<1> QED
  BY <1>1, <1>2, <1>3, <1>4, <1>5, <1>6 DEF Next

\* What is proved of the indexer can be used of the composition.
LEMMA IndexerSimulation == Spec => Indexer!Spec
<1>1. Init => Indexer!Init
  BY DEF Init
<1> QED
  BY <1>1, IndexerStepSimulation, PTL DEF Spec, Indexer!Spec

-----------------------------------------------------------------------------
\* The proof modules speak of the parts under a name of their own.
LEMMA SameIndexer == Indexer!Spec => IndexerFacts!Spec
<1>1. Indexer!Init => IndexerFacts!Init
  BY DEF Indexer!Init, IndexerFacts!Init, ChainInit, Indexer!ChainInit,
         IndexerFacts!ChainInit, Blocks, Indexer!Blocks, IndexerFacts!Blocks
<1>2. [Indexer!Next]_(Indexer!vars) => [IndexerFacts!Next]_(IndexerFacts!vars)
  <2> USE DEF Indexer!chainVars, Indexer!cycleVars, Indexer!lifeVars,
              IndexerFacts!chainVars, IndexerFacts!cycleVars, IndexerFacts!lifeVars
  <2> QED
    BY DEF Indexer!Next, Indexer!vars, IndexerFacts!Next, IndexerFacts!vars,
         Indexer!IndexerStep, IndexerFacts!IndexerStep,
         Indexer!ResolveUpperBound, IndexerFacts!ResolveUpperBound,
         Indexer!UpperBound, IndexerFacts!UpperBound,
         Indexer!ResolveFails, IndexerFacts!ResolveFails,
         Indexer!NoNewBlocks, IndexerFacts!NoNewBlocks,
         Indexer!BeginPoll, IndexerFacts!BeginPoll,
         Indexer!RangeStart, IndexerFacts!RangeStart,
         Indexer!GetLogs, IndexerFacts!GetLogs, Indexer!LogsIn, IndexerFacts!LogsIn,
         Indexer!Lesser, IndexerFacts!Lesser, Indexer!ChunkEnd, IndexerFacts!ChunkEnd,
         Indexer!GetLogsFails, IndexerFacts!GetLogsFails,
         Indexer!KeepProgress, IndexerFacts!KeepProgress,
         Indexer!MoveCursor, IndexerFacts!MoveCursor,
         Indexer!InsertLog, IndexerFacts!InsertLog,
         Indexer!InsertFails, IndexerFacts!InsertFails,
         Indexer!NextChunk, IndexerFacts!NextChunk, Indexer!EndPoll, IndexerFacts!EndPoll,
         Indexer!SleepOrStop, IndexerFacts!SleepOrStop,
         Indexer!ChainGrows, IndexerFacts!ChainGrows,
         Indexer!ChainReorganises, IndexerFacts!ChainReorganises,
         Indexer!ReplaceFrom, IndexerFacts!ReplaceFrom,
         Indexer!Blocks, IndexerFacts!Blocks,
         Indexer!Shutdown, IndexerFacts!Shutdown, Indexer!Restart, IndexerFacts!Restart
<1> QED
  BY <1>1, <1>2, PTL DEF Indexer!Spec, IndexerFacts!Spec

\* What is proved of the indexer holds in the composition.
LEMMA IndexerInvariants == Spec => [](IndexerFacts!TypeOK /\ IndexerFacts!AnchorInv)
<1>1. Blocks = IndexerFacts!Blocks
  BY DEF Blocks, IndexerFacts!Blocks
<1>2. IndexerFacts!Spec => []IndexerFacts!TypeOK
  BY <1>1, IndexerFacts!TypeCorrect, BlockAssumption, HeightAssumption, ReorgAssumption,
     RangeAssumption, RestartAssumption, ModeAssumption, FaultAssumption
     DEF IndexerFacts!FaultKinds
<1>3. IndexerFacts!Spec => []IndexerFacts!AnchorInv
  BY <1>1, IndexerFacts!AnchorInductive, BlockAssumption, HeightAssumption, ReorgAssumption,
     RangeAssumption, RestartAssumption, ModeAssumption, FaultAssumption
     DEF IndexerFacts!FaultKinds
<1> QED
  BY <1>2, <1>3, IndexerSimulation, SameIndexer, PTL

-----------------------------------------------------------------------------
\* The indexer asks for logs with empty hands only: index_block_range has inserted
\* the whole answer, or logged the errors, before it returns.
HandEmpty ==
    /\ fetched = [l \in Log |-> fetched[l]]
    /\ indexerPc # "insert" => \A l \in Log : fetched[l] = NoBlock

LEMMA HandEmptyInductive == Spec => []HandEmpty
<1>1. Init => HandEmpty
  BY DEF Init, Checker!Init, HandEmpty, NoBlock, Checker!NoBlock
<1>2. HandEmpty /\ [Next]_vars => HandEmpty'
  <2> SUFFICES ASSUME HandEmpty, [Next]_vars PROVE HandEmpty'
    OBVIOUS
  <2>1. CASE Poll
    <3>1. indexerPc = "insert" => {l \in Log : fetched[l] # NoBlock} = {}
      BY <2>1 DEF Poll, Indexer!ResolveUpperBound, Indexer!ResolveFails,
                  Indexer!NoNewBlocks, Indexer!BeginPoll, Indexer!GetLogsFails,
                  Indexer!NextChunk, Indexer!EndPoll, Indexer!SleepOrStop
    <3>2. \A l \in Log : fetched[l] = NoBlock
      BY <3>1 DEF HandEmpty
    <3>3. UNCHANGED fetched
      BY <2>1 DEF Poll
    <3> QED
      BY <3>2, <3>3 DEF HandEmpty
  <2>2. CASE GetLogs
    BY <2>2 DEF GetLogs, Indexer!GetLogs, HandEmpty
  <2>3. ASSUME NEW l \in Log, InsertRow(l) \/ InsertFails(l) PROVE HandEmpty'
    <3>1. fetched' = [fetched EXCEPT ![l] = NoBlock] /\ indexerPc' = "insert"
      BY <2>3 DEF InsertRow, InsertFails, Checker!InsertRow, Checker!InsertFails,
                  Checker!Inserted, Indexer!InsertLog, Indexer!InsertFails, NoBlock,
                  Checker!NoBlock
    <3> QED
      BY <3>1 DEF HandEmpty
  <2>4. CASE ChainMoves
    BY <2>4 DEF ChainMoves, Indexer!ChainGrows, Indexer!ChainReorganises, HandEmpty
  <2>5. CASE Restart
    BY <2>5 DEF Restart, Checker!Restart, HandEmpty, NoBlock, Checker!NoBlock
  <2>6. CASE Shutdown
    BY <2>6 DEF Shutdown, Checker!Shutdown, Indexer!Shutdown, HandEmpty
  <2>7. CASE Check \/ UNCHANGED vars \/ \E l \in Log : DeleteRow(l)
    <3>1. UNCHANGED <<fetched, indexerPc>>
      BY <2>7 DEF Check, DeleteRow, vars, indexerVars, Checker!CheckerStep,
                  Checker!ResolveFinalized, Checker!QueryPending, Checker!LookUp,
                  Checker!Unavailable, Checker!Finished, Checker!MarkConfirmed,
                  Checker!SelectAffected, Checker!RecordFalsePositive,
                  Checker!CycleFails, Checker!SleepOrStop, Checker!DeleteRow
    <3> QED
      BY <3>1 DEF HandEmpty
  <2> QED
    BY <2>1, <2>2, <2>3, <2>4, <2>5, <2>6, <2>7 DEF Next
<1> QED
  BY <1>1, <1>2, PTL DEF Spec

-----------------------------------------------------------------------------
\* What the indexer gets is what its mode lets it read: the bound it resolved is
\* still at or below the finalized block when the answer arrives.
LEMMA ReadsWhatIsReadable ==
    ASSUME IndexerFacts!TypeOK, IndexerFacts!AnchorInv, HandEmpty, GetLogs
    PROVE  \E logs \in SUBSET Log : \/ Checker!Fetch(logs) /\ fetched' # fetched
                                    \/ UNCHANGED Checker!vars
<1>1. PICK logs \in SUBSET {l \in Log : 0 < place[l]} :
         fetched' = [l \in Log |-> IF l \in logs THEN BlockOf(l) ELSE NoBlock]
  BY DEF GetLogs
<1>2. indexerPc = "fetch" /\ chunkStart <= upper
  BY DEF GetLogs, Indexer!GetLogs
<1>3. UNCHANGED <<canon, place, finalized, reorgs, tableVars, checkerVars, mode, shutdown,
                  restarts>>
  BY DEF GetLogs, Indexer!GetLogs, Indexer!chainVars, Indexer!lifeVars
<1>4. \A l \in Log : fetched[l] = NoBlock
  BY <1>2 DEF HandEmpty
<1>5. \A l \in logs : BlockOf(l) # NoBlock
  BY ReorgAssumption DEF BlockOf, NoBlock
<1>6. ASSUME NEW l \in logs, mode # "fcr" PROVE place[l] <= finalized
  <2>1. PICK head \in 0 .. MaxBlock :
           {k \in Log : fetched[k] # NoBlock}' =
               Indexer!LogsIn(chunkStart, Indexer!Lesser(head, Indexer!ChunkEnd))
    BY DEF GetLogs, Indexer!GetLogs, NoBlock
  <2>2. l \in Indexer!LogsIn(chunkStart, Indexer!Lesser(head, Indexer!ChunkEnd))
    <3>1. l \in Log /\ fetched'[l] = BlockOf(l)
      BY <1>1
    <3> QED
      BY <1>5, <2>1, <3>1
  <2>3. place[l] <= IndexerFacts!ChunkEnd
    <3>1. place[l] <= Indexer!Lesser(head, Indexer!ChunkEnd)
      BY <2>2 DEF Indexer!LogsIn
    <3>2. IndexerFacts!ChunkEnd \in Nat /\ place[l] \in Nat
      BY <2>2, RangeAssumption, BlockAssumption
         DEF IndexerFacts!TypeOK, IndexerFacts!ChainTypeOK, IndexerFacts!ChunkEnd,
             IndexerFacts!Lesser, Indexer!LogsIn
    <3>3. Indexer!ChunkEnd = IndexerFacts!ChunkEnd
      BY DEF Indexer!ChunkEnd, IndexerFacts!ChunkEnd, Indexer!Lesser, IndexerFacts!Lesser
    <3> QED
      BY <3>1, <3>2, <3>3 DEF Indexer!Lesser
  <2>4. upper <= finalized /\ IndexerFacts!ChunkEnd <= upper
    BY <1>2, <1>6, RangeAssumption, BlockAssumption
       DEF IndexerFacts!AnchorInv, IndexerFacts!Anchored, IndexerFacts!ChunkEnd,
           IndexerFacts!Lesser, IndexerFacts!TypeOK
  <2> QED
    BY <2>3, <2>4, <1>2, RangeAssumption, BlockAssumption
       DEF IndexerFacts!TypeOK, IndexerFacts!ChainTypeOK, IndexerFacts!ChunkEnd,
           IndexerFacts!Lesser
<1>7. CASE logs = {}
  <2>1. UNCHANGED fetched
    BY <1>1, <1>4, <1>7 DEF HandEmpty
  <2> QED
    BY <1>3, <2>1 DEF Checker!vars, Checker!chainVars, Checker!tableVars,
                      Checker!checkerVars, Checker!lifeVars, tableVars, checkerVars
<1>8. CASE logs # {}
  <2>1. Checker!Fetch(logs)
    BY <1>1, <1>3, <1>4, <1>6
       DEF Checker!Fetch, Checker!Readable, Checker!chainVars, Checker!tableVars,
           Checker!checkerVars, Checker!lifeVars, tableVars, checkerVars, NoBlock,
           Checker!NoBlock, BlockOf, Checker!BlockOf
  <2>2. fetched' # fetched
    BY <1>1, <1>4, <1>5, <1>8
  <2> QED
    BY <2>1, <2>2
<1> QED
  BY <1>7, <1>8

\* Every other step of the composition is one of the checker's environment, one
\* of the checker, or leaves its state alone.
LEMMA CheckerStepSimulation ==
    ASSUME IndexerFacts!TypeOK, IndexerFacts!AnchorInv, HandEmpty, [Next]_vars
    PROVE  [Checker!Next]_(Checker!vars)
<1>0. SUFFICES Checker!Next \/ UNCHANGED Checker!vars
  OBVIOUS
<1>1. CASE GetLogs
  <2>1. ASSUME NEW logs \in SUBSET Log, Checker!Fetch(logs), fetched' # fetched
        PROVE  logs # {}
    BY <2>1 DEF Checker!Fetch, HandEmpty
  <2> QED
    BY <1>1, <2>1, ReadsWhatIsReadable DEF Checker!Next
<1>2. CASE \/ Poll \/ UNCHANGED vars
  <2>1. UNCHANGED <<canon, place, finalized, reorgs, fetched, tableVars, checkerVars,
                    mode, shutdown, restarts>>
    BY <1>2 DEF Poll, vars, Indexer!ResolveUpperBound, Indexer!ResolveFails,
                Indexer!NoNewBlocks, Indexer!BeginPoll, Indexer!GetLogsFails,
                Indexer!NextChunk, Indexer!EndPoll, Indexer!SleepOrStop,
                Indexer!chainVars, Indexer!lifeVars
  <2> QED
    BY <2>1 DEF Checker!vars, Checker!chainVars, Checker!tableVars,
                Checker!checkerVars, Checker!lifeVars, tableVars, checkerVars
<1>3. CASE ChainMoves
  <2>1. UNCHANGED <<fetched, tableVars, checkerVars, mode, shutdown, restarts>>
    BY <1>3 DEF ChainMoves, Indexer!ChainGrows, Indexer!ChainReorganises,
                Indexer!lifeVars
  <2>2. CASE Indexer!ChainReorganises
    <3>1. \E from \in Blocks : Checker!ReplaceFrom(from)
      BY <2>2 DEF Indexer!ChainReorganises, Indexer!ReplaceFrom, Checker!ReplaceFrom,
                  Indexer!Blocks, Checker!Blocks, Blocks
    <3>2. Checker!Reorg
      BY <2>1, <3>1 DEF Checker!Reorg, Checker!tableVars, Checker!checkerVars,
                        Checker!lifeVars, tableVars, checkerVars, Blocks, Checker!Blocks
    <3> QED
      BY <3>2 DEF Checker!Next
  <2>3. CASE Indexer!ChainGrows
    <3>1. UNCHANGED <<canon, place, reorgs>>
      BY <2>3 DEF Indexer!ChainGrows
    <3>2. CASE UNCHANGED finalized
      BY <2>1, <3>1, <3>2 DEF Checker!vars, Checker!chainVars, Checker!tableVars,
                              Checker!checkerVars, Checker!lifeVars, tableVars, checkerVars
    <3>3. CASE finalized < safe /\ finalized' = finalized + 1
      <4>1. finalized < MaxBlock
        BY <3>3, BlockAssumption DEF IndexerFacts!TypeOK, IndexerFacts!ChainTypeOK
      <4>2. Checker!Finalize
        BY <2>1, <3>1, <3>3, <4>1, FaultAssumption
           DEF Checker!Finalize, Checker!tableVars, Checker!checkerVars,
               Checker!lifeVars, tableVars, checkerVars
      <4> QED
        BY <4>2 DEF Checker!Next
    <3> QED
      BY <2>3, <3>2, <3>3 DEF Indexer!ChainGrows
  <2> QED
    BY <1>3, <2>2, <2>3 DEF ChainMoves
<1>4. CASE Check \/ Shutdown \/ Restart
  BY <1>4 DEF Check, Shutdown, Restart, Checker!Next
<1>5. ASSUME NEW l \in Log, InsertRow(l) \/ InsertFails(l) \/ DeleteRow(l)
      PROVE  Checker!Next
  BY <1>5 DEF InsertRow, InsertFails, DeleteRow, Checker!Next
<1> QED
  BY <1>1, <1>2, <1>3, <1>4, <1>5 DEF Next

\* What FcrChecker assumes of the indexers of its chain (in block-finality mode
\* they read finalized blocks only, a hand is filled when it is empty) is what
\* event_indexer.rs does, with no bound on how long an INSERT takes.
THEOREM ValidatorImplementsChecker == Spec => ImplementsChecker
<1>1. Init => Checker!Init
  BY DEF Init
<1> QED
  BY <1>1, CheckerStepSimulation, IndexerInvariants, HandEmptyInductive, PTL
     DEF Spec, ImplementsChecker, Checker!Spec

LEMMA SameChecker == Checker!Spec => CheckerFacts!Spec
<1>1. Checker!Init => CheckerFacts!Init
  BY DEF Checker!Init, CheckerFacts!Init, Checker!ChainInit, CheckerFacts!ChainInit,
         Checker!Blocks, CheckerFacts!Blocks, Checker!ForkBlocks, CheckerFacts!ForkBlocks,
         Checker!Hashes, CheckerFacts!Hashes, Checker!NoBlock, CheckerFacts!NoBlock,
         Checker!FirstPc, CheckerFacts!FirstPc
<1>2. [Checker!Next]_(Checker!vars) => [CheckerFacts!Next]_(CheckerFacts!vars)
  <2> USE DEF Checker!chainVars, Checker!tableVars, Checker!checkerVars, Checker!lifeVars,
              CheckerFacts!chainVars, CheckerFacts!tableVars, CheckerFacts!checkerVars,
              CheckerFacts!lifeVars
  <2>1. Checker!CheckerStep => CheckerFacts!CheckerStep
    BY DEF Checker!CheckerStep, CheckerFacts!CheckerStep,
           Checker!ResolveFinalized, CheckerFacts!ResolveFinalized,
           Checker!QueryPending, CheckerFacts!QueryPending,
           Checker!PendingBlocks, CheckerFacts!PendingBlocks,
           Checker!LookUp, CheckerFacts!LookUp, Checker!VerdictFor, CheckerFacts!VerdictFor,
           Checker!First, CheckerFacts!First,
           Checker!Unavailable, CheckerFacts!Unavailable,
           Checker!Finished, CheckerFacts!Finished, Checker!EndCycle, CheckerFacts!EndCycle,
           Checker!NoBlock, CheckerFacts!NoBlock,
           Checker!MarkConfirmed, CheckerFacts!MarkConfirmed,
           Checker!SetStatus, CheckerFacts!SetStatus,
           Checker!PendingRows, CheckerFacts!PendingRows,
           Checker!SelectAffected, CheckerFacts!SelectAffected,
           Checker!RecordFalsePositive, CheckerFacts!RecordFalsePositive,
           Checker!AddAlerts, CheckerFacts!AddAlerts,
           Checker!CycleFails, CheckerFacts!CycleFails,
           Checker!SleepOrStop, CheckerFacts!SleepOrStop
  <2>2. ASSUME NEW logs \in SUBSET Log
        PROVE  Checker!Fetch(logs) => CheckerFacts!Fetch(logs)
    BY DEF Checker!Fetch, CheckerFacts!Fetch, Checker!Readable, CheckerFacts!Readable,
           Checker!BlockOf, CheckerFacts!BlockOf, Checker!NoBlock, CheckerFacts!NoBlock
  <2>3. ASSUME NEW l \in Log
        PROVE  Checker!InsertRow(l) \/ Checker!InsertFails(l) \/ Checker!DeleteRow(l)
               => \/ CheckerFacts!InsertRow(l) \/ CheckerFacts!InsertFails(l)
                  \/ CheckerFacts!DeleteRow(l)
    BY DEF Checker!InsertRow, CheckerFacts!InsertRow, Checker!Inserted,
           CheckerFacts!Inserted, Checker!NewStatus, CheckerFacts!NewStatus,
           Checker!InsertFails, CheckerFacts!InsertFails, Checker!NoBlock,
           CheckerFacts!NoBlock, Checker!DeleteRow, CheckerFacts!DeleteRow
  <2>4. \/ Checker!Reorg \/ Checker!Finalize \/ Checker!Shutdown \/ Checker!Restart
        => \/ CheckerFacts!Reorg \/ CheckerFacts!Finalize \/ CheckerFacts!Shutdown
           \/ CheckerFacts!Restart
    BY DEF Checker!Reorg, CheckerFacts!Reorg, Checker!ReplaceFrom,
           CheckerFacts!ReplaceFrom, Checker!Blocks, CheckerFacts!Blocks,
           Checker!Finalize, CheckerFacts!Finalize, Checker!NoBlock, CheckerFacts!NoBlock,
           Checker!Shutdown, CheckerFacts!Shutdown, Checker!Restart,
           CheckerFacts!Restart, Checker!FirstPc, CheckerFacts!FirstPc
  <2>5. Checker!vars = CheckerFacts!vars /\ (UNCHANGED Checker!vars => UNCHANGED CheckerFacts!vars)
    BY DEF Checker!vars, CheckerFacts!vars
  <2> QED
    BY <2>1, <2>2, <2>3, <2>4, <2>5 DEF Checker!Next, CheckerFacts!Next
<1> QED
  BY <1>1, <1>2, PTL DEF Checker!Spec, CheckerFacts!Spec

LEMMA CheckerInvariants ==
    Spec => [](CheckerFacts!TypeOK /\ CheckerFacts!VerdictMatchesChain)
<1>1. Blocks = CheckerFacts!Blocks
  BY DEF Blocks, CheckerFacts!Blocks
<1>2. CheckerFacts!Spec => []CheckerFacts!TypeOK
  BY <1>1, CheckerFacts!TypeCorrect, BlockAssumption, HeightAssumption, ReorgAssumption,
     PrunedAssumption, RestartAssumption, ModeAssumption, FaultAssumption
     DEF CheckerFacts!FaultKinds
<1>3. CheckerFacts!Spec => []CheckerFacts!VerdictMatchesChain
  BY <1>1, CheckerFacts!VerdictsAreTrue, BlockAssumption, HeightAssumption,
     ReorgAssumption, PrunedAssumption, RestartAssumption, ModeAssumption, FaultAssumption
     DEF CheckerFacts!FaultKinds
<1> QED
  BY <1>2, <1>3, ValidatorImplementsChecker, SameChecker, PTL DEF ImplementsChecker

\* The parts agree on the state they share, and the hand of the indexer is empty
\* when it asks for more, in every state of the composition.
THEOREM TypeCorrect == Spec => []TypeOK
<1>1. IndexerFacts!TypeOK => Indexer!TypeOK
  BY DEF IndexerFacts!TypeOK, Indexer!TypeOK, IndexerFacts!ChainTypeOK,
         Indexer!ChainTypeOK, IndexerFacts!Blocks, Indexer!Blocks, IndexerFacts!Hashes,
         Indexer!Hashes
<1>2. CheckerFacts!TypeOK => Checker!TypeOK
  BY DEF CheckerFacts!TypeOK, Checker!TypeOK, CheckerFacts!ChainTypeOK,
         Checker!ChainTypeOK, CheckerFacts!Blocks, Checker!Blocks, CheckerFacts!Hashes,
         Checker!Hashes, CheckerFacts!NoBlock, Checker!NoBlock,
         CheckerFacts!ForkBlocks, Checker!ForkBlocks
<1>3. HandEmpty => (indexerPc # "insert" => \A l \in Log : fetched[l] = NoBlock)
  BY DEF HandEmpty
<1>4. IndexerFacts!TypeOK /\ CheckerFacts!TypeOK /\ HandEmpty => TypeOK
  BY <1>1, <1>2, <1>3 DEF TypeOK
<1> QED
  BY <1>4, IndexerInvariants, CheckerInvariants, HandEmptyInductive, PTL

-----------------------------------------------------------------------------
\* What is proved of each part holds of them together: no log is skipped below the
\* cursor, and the verdicts in the table are those of the finalized chain.
THEOREM PartsKeepTheirPromises ==
    Spec => [](Indexer!NoGap /\ Checker!VerdictMatchesChain)
<1>1. Blocks = IndexerFacts!Blocks
  BY DEF Blocks, IndexerFacts!Blocks
<1>2. IndexerFacts!Spec => []IndexerFacts!NoGap
  BY <1>1, IndexerFacts!NoLogIsSkipped, BlockAssumption, HeightAssumption,
     ReorgAssumption, RangeAssumption, RestartAssumption, ModeAssumption, FaultAssumption
     DEF IndexerFacts!FaultKinds
<1>3. IndexerFacts!NoGap => Indexer!NoGap
  BY DEF IndexerFacts!NoGap, Indexer!NoGap
<1>4. CheckerFacts!VerdictMatchesChain => Checker!VerdictMatchesChain
  BY DEF CheckerFacts!VerdictMatchesChain, Checker!VerdictMatchesChain,
         CheckerFacts!Canonical, Checker!Canonical
<1> QED
  BY <1>2, <1>3, <1>4, IndexerSimulation, SameIndexer, CheckerInvariants, PTL

\* A block some task holds or the table names was safe when it was read, or a
\* safe block below it had been replaced; and it is off the chain only after
\* such a replacement.
Sound(pair) ==
    pair # NoBlock =>
        /\ pair[1] <= safe \/ broken <= safe + 1
        /\ ~Canonical(pair) => broken <= pair[1]

AlarmInv ==
    /\ \A l \in Log : Sound(fetched[l]) /\ Sound(logBlock[l])
    /\ \A pair \in todo : Sound(pair)
    /\ Sound(block)
    /\ checkerPc \in {"begin", "record"} => broken <= block[1]
    /\ \A l \in Log : \A pair \in Checker!ForkBlocks :
          alerts[l][pair] > 0 => broken <= pair[1]

\* The chain cannot make a sound block unsound: a reorganisation that takes it,
\* or leaves it above the safe head, replaces a safe block at or below it.
LEMMA SoundIsStable ==
    ASSUME TypeOK, ChainMoves, NEW pair \in Checker!ForkBlocks, Sound(pair)
    PROVE  Sound(pair)' /\ broken' <= broken
<1> USE BlockAssumption, ReorgAssumption
<1>1. /\ pair[1] \in Blocks /\ safe \in Nat /\ broken \in Nat
      /\ canon \in [Blocks -> Hashes] /\ pair = <<pair[1], pair[2]>>
  BY DEF TypeOK, Indexer!TypeOK, Checker!ForkBlocks, Checker!Blocks, Blocks,
         Checker!TypeOK, Checker!ChainTypeOK, Hashes, Checker!Hashes
<1>2. pair # NoBlock
  BY <1>1 DEF NoBlock, Blocks
<1>3. CASE Indexer!ChainGrows
  <2>1. safe' >= safe /\ safe' \in Nat /\ UNCHANGED <<canon, broken>>
    BY <1>1, <1>3 DEF Indexer!ChainGrows
  <2> QED
    BY <1>1, <1>2, <2>1 DEF Sound, Canonical, Blocks
<1>4. CASE Indexer!ChainReorganises
  <2>1. PICK from \in Blocks :
          /\ canon' = [b \in Blocks |-> IF b >= from THEN reorgs' ELSE canon[b]]
          /\ safe' \in Indexer!Lesser(safe, from - 1) .. safe
          /\ broken' = IF from <= safe THEN Indexer!Lesser(broken, from) ELSE broken
    BY <1>4 DEF Indexer!ChainReorganises, Indexer!ReplaceFrom, Indexer!Blocks, Blocks
  <2>2. from \in Nat /\ safe' \in Nat /\ broken' \in Nat /\ broken' <= broken
    BY <1>1, <2>1 DEF Blocks, Indexer!Lesser
  <2>3. CASE from <= safe
    <3>1. broken' <= from /\ broken' <= safe' + 1
      BY <1>1, <2>1, <2>2, <2>3 DEF Indexer!Lesser, Blocks
    <3>2. ~Canonical(pair)' => broken' <= pair[1]
      <4>1. pair[1] < from => canon'[pair[1]] = canon[pair[1]]
        BY <1>1, <2>1, <2>2 DEF Blocks
      <4>2. pair[1] \in Nat
        BY <1>1 DEF Blocks
      <4> QED
        BY <1>1, <1>2, <2>2, <3>1, <4>1, <4>2 DEF Sound, Canonical
    <3> QED
      BY <2>2, <3>1, <3>2 DEF Sound, NoBlock, Canonical
  <2>4. CASE ~(from <= safe)
    <3>1. safe' = safe /\ broken' = broken
      BY <1>1, <2>1, <2>2, <2>4 DEF Indexer!Lesser
    <3>2. pair[1] < from => canon'[pair[1]] = canon[pair[1]]
      BY <1>1, <2>1, <2>2 DEF Blocks
    <3>3. pair[1] \in Nat
      BY <1>1 DEF Blocks
    <3> QED
      BY <1>1, <1>2, <2>2, <2>4, <3>1, <3>2, <3>3 DEF Sound, Canonical
  <2> QED
    BY <2>3, <2>4
<1> QED
  BY <1>3, <1>4 DEF ChainMoves

LEMMA AlarmInvInductive == Spec => []AlarmInv
<1> USE BlockAssumption, ReorgAssumption
<1>1. Init => AlarmInv
  BY DEF Init, Checker!Init, AlarmInv, Sound, NoBlock, Checker!NoBlock,
         Checker!FirstPc, Checker!ForkBlocks
<1>2. TypeOK /\ IndexerFacts!TypeOK /\ IndexerFacts!AnchorInv /\ AlarmInv /\ [Next]_vars
      => AlarmInv'
  <2> SUFFICES ASSUME TypeOK, IndexerFacts!TypeOK, IndexerFacts!AnchorInv, AlarmInv,
                      [Next]_vars
               PROVE  AlarmInv'
    OBVIOUS
  <2>0. NoBlock = Checker!NoBlock
    BY DEF NoBlock, Checker!NoBlock
  <2>1. CASE GetLogs
    <3>1. UNCHANGED <<canon, safe, broken, tableVars, checkerVars>>
      BY <2>1 DEF GetLogs, Indexer!GetLogs, Indexer!chainVars
    <3>2. PICK logs \in SUBSET {l \in Log : 0 < place[l]} :
            fetched' = [l \in Log |-> IF l \in logs THEN BlockOf(l) ELSE NoBlock]
      BY <2>1 DEF GetLogs
    <3>3. ASSUME NEW l \in logs PROVE Sound(BlockOf(l))
      <4>1. BlockOf(l) # NoBlock /\ Canonical(BlockOf(l))
        BY <3>3 DEF BlockOf, NoBlock, Canonical
      <4>2. IndexerFacts!Anchored(upper) /\ place[l] <= upper
        PROOF
        <5>1. l \in Log /\ fetched'[l] # NoBlock
          BY <3>2, <3>3, <4>1
        <5>2. PICK head \in 0 .. MaxBlock :
                l \in Indexer!LogsIn(chunkStart, Indexer!Lesser(head, Indexer!ChunkEnd))
          BY <2>1, <5>1 DEF GetLogs, Indexer!GetLogs, NoBlock
        <5>3. place[l] <= Indexer!Lesser(head, Indexer!ChunkEnd) /\ place[l] \in Nat
          BY <5>2 DEF Indexer!LogsIn, IndexerFacts!TypeOK, IndexerFacts!ChainTypeOK
        <5>4. Indexer!ChunkEnd \in Nat /\ Indexer!ChunkEnd <= upper
          BY <2>1, RangeAssumption
             DEF GetLogs, Indexer!GetLogs, Indexer!ChunkEnd, Indexer!Lesser,
                 IndexerFacts!TypeOK
        <5>5. IndexerFacts!Anchored(upper)
          BY <2>1 DEF GetLogs, Indexer!GetLogs, IndexerFacts!AnchorInv
        <5> QED
          BY <5>3, <5>4, <5>5 DEF Indexer!Lesser, IndexerFacts!TypeOK
      <4>3. place[l] <= safe \/ broken <= safe + 1
        BY <3>3, <4>2 DEF IndexerFacts!Anchored, IndexerFacts!TypeOK,
                          IndexerFacts!ChainTypeOK
      <4> QED
        BY <4>1, <4>3 DEF Sound, BlockOf
    <3>4. \A l \in Log : Sound(fetched[l])'
      BY <3>1, <3>2, <3>3 DEF Sound, NoBlock, Canonical
    <3> QED
      BY <3>1, <3>4 DEF AlarmInv, Sound, NoBlock, Canonical, tableVars, checkerVars,
                        Checker!ForkBlocks, Checker!Blocks, Checker!Hashes
  <2>2. CASE ChainMoves
    <3>1. UNCHANGED <<fetched, tableVars, checkerVars>>
      BY <2>2 DEF ChainMoves
    <3>2. broken' <= broken /\ broken' \in Nat /\ broken \in Nat
      BY <2>2 DEF ChainMoves, Indexer!ChainGrows, Indexer!ChainReorganises,
                  Indexer!Lesser, TypeOK, Indexer!TypeOK, Indexer!Blocks
    <3>3. ASSUME NEW pair \in Checker!ForkBlocks \cup {NoBlock}, Sound(pair)
          PROVE  Sound(pair)'
      BY <2>2, <3>3, SoundIsStable DEF Sound, NoBlock
    <3>4. /\ \A l \in Log : fetched[l] \in Checker!ForkBlocks \cup {NoBlock}
          /\ \A l \in Log : logBlock[l] \in Checker!ForkBlocks \cup {NoBlock}
          /\ todo \subseteq Checker!ForkBlocks
          /\ block \in Checker!ForkBlocks \cup {NoBlock}
      BY <2>0 DEF TypeOK, Checker!TypeOK
    <3>5. \A l \in Log : Sound(fetched[l])' /\ Sound(logBlock[l])'
      BY <3>1, <3>3, <3>4 DEF AlarmInv, Sound, tableVars
    <3>6. \A pair \in todo : Sound(pair)'
      BY <3>3, <3>4 DEF AlarmInv
    <3>7. Sound(block)'
      BY <3>1, <3>3, <3>4 DEF AlarmInv, Sound, checkerVars
    <3>8. checkerPc \in {"begin", "record"} => broken' <= block[1]
      <4>1. checkerPc \in {"begin", "record"} => block # NoBlock
        BY <2>0 DEF TypeOK, Checker!TypeOK
      <4>2. block # NoBlock => block[1] \in Nat
        BY <3>4 DEF Checker!ForkBlocks, Checker!Blocks
      <4> QED
        BY <3>2, <4>1, <4>2 DEF AlarmInv
    <3>9. \A l \in Log : \A pair \in Checker!ForkBlocks :
             alerts[l][pair] > 0 => broken' <= pair[1]
      <4>1. \A pair \in Checker!ForkBlocks : pair[1] \in Nat
        BY DEF Checker!ForkBlocks, Checker!Blocks
      <4> QED
        BY <3>2, <4>1 DEF AlarmInv
    <3> QED
      BY <3>1, <3>5, <3>6, <3>7, <3>8, <3>9
         DEF AlarmInv, tableVars, checkerVars, Checker!ForkBlocks, Checker!Blocks,
             Checker!Hashes
  <2>3. ASSUME NEW l \in Log, InsertRow(l) \/ InsertFails(l) \/ DeleteRow(l)
        PROVE  AlarmInv'
    <3>1. UNCHANGED <<canon, safe, broken, alerts, checkerVars>>
      BY <2>3 DEF InsertRow, InsertFails, DeleteRow, Checker!InsertRow,
                  Checker!InsertFails, Checker!DeleteRow, Checker!chainVars,
                  Checker!tableVars, Checker!checkerVars, checkerVars,
                  Indexer!InsertLog, Indexer!InsertFails, Indexer!chainVars, headVars
    <3>2. \A k \in Log : /\ fetched'[k] \in {fetched[k], NoBlock}
                         /\ logBlock'[k] \in {fetched[k], logBlock[k], NoBlock}
      BY <2>0, <2>3 DEF InsertRow, InsertFails, DeleteRow, Checker!InsertRow,
                        Checker!InsertFails, Checker!DeleteRow, Checker!Inserted,
                        Checker!tableVars, TypeOK, Checker!TypeOK
    <3> QED
      BY <3>1, <3>2 DEF AlarmInv, Sound, NoBlock, Canonical, checkerVars,
                        Checker!ForkBlocks, Checker!Blocks, Checker!Hashes
  <2>4. CASE Check
    <3>1. UNCHANGED <<canon, safe, broken, fetched, logBlock>>
      BY <2>4 DEF Check, headVars, Checker!CheckerStep, Checker!ResolveFinalized,
                  Checker!QueryPending, Checker!LookUp, Checker!Unavailable,
                  Checker!Finished, Checker!MarkConfirmed, Checker!SelectAffected,
                  Checker!RecordFalsePositive, Checker!CycleFails,
                  Checker!SleepOrStop, Checker!chainVars, Checker!tableVars
    <3>2. \A pair \in todo' : Sound(pair)
      <4>1. todo' \subseteq todo \cup {logBlock[l] : l \in Log}
        BY <2>4 DEF Check, Checker!CheckerStep, Checker!ResolveFinalized,
                    Checker!QueryPending, Checker!PendingBlocks, Checker!LookUp,
                    Checker!VerdictFor, Checker!Unavailable, Checker!Finished,
                    Checker!EndCycle, Checker!MarkConfirmed, Checker!SelectAffected,
                    Checker!RecordFalsePositive, Checker!CycleFails,
                    Checker!SleepOrStop
      <4> QED
        BY <4>1 DEF AlarmInv
    <3>3. Sound(block') /\ (checkerPc' \in {"begin", "record"} => broken <= block'[1])
      <4>1. CASE Checker!LookUp
        <5>1. PICK pair \in todo : Checker!VerdictFor(pair)
          BY <4>1 DEF Checker!LookUp
        <5>2. pair # NoBlock
          BY DEF TypeOK, Checker!TypeOK, Checker!ForkBlocks, Checker!Blocks, NoBlock
        <5>3. /\ block' = pair
              /\ checkerPc' \in {"begin", "record"} => ~Canonical(pair)
          BY <5>1 DEF Checker!VerdictFor, Canonical
        <5> QED
          BY <5>2, <5>3 DEF AlarmInv, Sound
      <4>2. CASE ~Checker!LookUp
        <5>1. /\ block' \in {block, NoBlock}
              /\ checkerPc' \in {"begin", "record"} =>
                    checkerPc \in {"begin", "record"} /\ block' = block
          BY <2>0, <2>4, <4>2
             DEF Check, Checker!CheckerStep, Checker!ResolveFinalized,
                 Checker!QueryPending, Checker!Unavailable, Checker!Finished,
                 Checker!EndCycle, Checker!MarkConfirmed, Checker!SelectAffected,
                 Checker!RecordFalsePositive, Checker!CycleFails, Checker!SleepOrStop
        <5> QED
          BY <5>1 DEF AlarmInv, Sound
      <4> QED
        BY <4>1, <4>2
    <3>4. \A l \in Log : \A pair \in Checker!ForkBlocks :
             alerts'[l][pair] > 0 => broken <= pair[1]
      <4>1. CASE Checker!RecordFalsePositive
        <5> SUFFICES ASSUME NEW l \in Log, NEW pair \in Checker!ForkBlocks,
                            alerts'[l][pair] > 0
                     PROVE  broken <= pair[1]
          OBVIOUS
        <5>1. checkerPc = "record"
          BY <4>1 DEF Checker!RecordFalsePositive
        <5>2. \/ alerts'[l][pair] = alerts[l][pair]
              \/ pair = block
          BY <4>1 DEF Checker!RecordFalsePositive, Checker!AddAlerts, TypeOK,
                      Checker!TypeOK
        <5> QED
          BY <5>1, <5>2 DEF AlarmInv
      <4>2. CASE ~Checker!RecordFalsePositive
        <5>1. UNCHANGED alerts
          BY <2>4, <4>2
             DEF Check, Checker!CheckerStep, Checker!ResolveFinalized,
                 Checker!QueryPending, Checker!LookUp, Checker!Unavailable,
                 Checker!Finished, Checker!MarkConfirmed, Checker!SelectAffected,
                 Checker!CycleFails, Checker!SleepOrStop, Checker!tableVars
        <5> QED
          BY <5>1 DEF AlarmInv
      <4> QED
        BY <4>1, <4>2
    <3> QED
      BY <3>1, <3>2, <3>3, <3>4
         DEF AlarmInv, Sound, NoBlock, Canonical, Checker!ForkBlocks, Checker!Blocks,
             Checker!Hashes
  <2>5. CASE Restart
    <3>1. /\ UNCHANGED <<canon, safe, broken, logBlock, alerts>>
          /\ fetched' = [l \in Log |-> NoBlock] /\ todo' = {} /\ block' = NoBlock
          /\ checkerPc' \in {"start", "stopped"}
      BY <2>0, <2>5 DEF Restart, Checker!Restart, Checker!chainVars, Checker!tableVars,
                        Checker!FirstPc, Indexer!Restart, Indexer!chainVars
    <3> QED
      BY <3>1 DEF AlarmInv, Sound, NoBlock, Canonical, Checker!ForkBlocks,
                  Checker!Blocks, Checker!Hashes
  <2>6. CASE Poll \/ Shutdown \/ UNCHANGED vars
    <3>1. UNCHANGED <<canon, safe, broken, fetched, tableVars, checkerVars>>
      BY <2>6 DEF Poll, Shutdown, vars, Indexer!ResolveUpperBound, Indexer!ResolveFails,
                  Indexer!NoNewBlocks, Indexer!BeginPoll, Indexer!GetLogsFails,
                  Indexer!NextChunk, Indexer!EndPoll, Indexer!SleepOrStop,
                  Indexer!chainVars, Indexer!Shutdown, Checker!Shutdown,
                  Checker!tableVars, Checker!checkerVars, tableVars, checkerVars, headVars
    <3> QED
      BY <3>1 DEF AlarmInv, Sound, NoBlock, Canonical, tableVars, checkerVars,
                  Checker!ForkBlocks, Checker!Blocks, Checker!Hashes
  <2> QED
    BY <2>1, <2>2, <2>3, <2>4, <2>5, <2>6 DEF Next
<1> QED
  BY <1>1, <1>2, TypeCorrect, IndexerInvariants, PTL DEF Spec

\* No alarm, and no orphan in the table, that a correct safe head would have
\* spared, for every interleaving of the two tasks with the chain.
THEOREM AlarmsMeanBrokenSafety == Spec => []AlarmMeansBrokenSafety
<1>1. AlarmInv => AlarmMeansBrokenSafety
  BY DEF AlarmInv, Sound, AlarmMeansBrokenSafety
<1> QED
  BY <1>1, AlarmInvInductive, PTL

=============================================================================
