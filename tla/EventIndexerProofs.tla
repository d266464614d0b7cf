-------------------------- MODULE EventIndexerProofs --------------------------
(***************************************************************************)
(* Theorems about EventIndexer, for every chain and every reorganisation   *)
(* above its finalized block, every set of logs, chunk size and provider   *)
(* limit: types, the cursor, the chunks, block finality, and that no log   *)
(* below the cursor is missing.                                            *)
(***************************************************************************)
EXTENDS EventIndexer, TLAPS

\* Cites every assumption on the constants.
LEMMA ConstantsTyped ==
    /\ MaxBlock \in Nat /\ Height \in [Log -> 1 .. MaxBlock]
    /\ MaxRange \in Nat /\ MaxRange # 0 /\ ProviderLimit \in Nat
    /\ MaxRestarts \in Nat /\ MaxReorgs \in Nat
BY BlockAssumption, HeightAssumption, RangeAssumption, RestartAssumption,
   ReorgAssumption DEF Blocks

\* A chunk ends within the range of its cycle and not before it starts.
LEMMA ChunkEndBounds ==
    ASSUME TypeOK, pc \in {"fetch", "insert"}
    PROVE  /\ ChunkEnd \in Nat /\ ChunkEnd <= upper /\ ChunkEnd + 1 >= chunkStart
           /\ chunkStart <= upper => ChunkEnd >= chunkStart
           /\ ChunkEnd < chunkStart + MaxRange
BY ConstantsTyped DEF TypeOK, ChainTypeOK, ChunkEnd, Lesser

-----------------------------------------------------------------------------
\* Every state has the types, and the order of the loop variables, that TypeOK
\* states of event_indexer.rs.
THEOREM TypeCorrect == Spec => []TypeOK
<1>1. Init => TypeOK
  <2> SUFFICES ASSUME Init PROVE TypeOK
    OBVIOUS
  <2>1. shutdown \in BOOLEAN
    BY Zenon DEF Init
  <2>2. ChainTypeOK
    BY ConstantsTyped DEF Init, ChainInit, ChainTypeOK, Blocks, Hashes
  <2> QED
    BY <2>1, <2>2, ConstantsTyped DEF Init, TypeOK
<1>2. TypeOK /\ [Next]_vars => TypeOK'
  <2> SUFFICES ASSUME TypeOK, [Next]_vars PROVE TypeOK'
    OBVIOUS
  <2> USE ConstantsTyped DEF ChainTypeOK, lifeVars
  <2>1. CASE ResolveUpperBound
    BY <2>1 DEF TypeOK, ResolveUpperBound, chainVars
  <2>2. CASE ResolveFails
    BY <2>2 DEF TypeOK, ResolveFails, chainVars, cycleVars
  <2>3. CASE NoNewBlocks
    BY <2>3 DEF TypeOK, NoNewBlocks, chainVars, cycleVars
  <2>4. CASE BeginPoll
    <3>1. RangeStart \in 1 .. upper
      BY <2>4 DEF TypeOK, BeginPoll, RangeStart
    <3> QED
      BY <2>4, <3>1 DEF TypeOK, BeginPoll, chainVars
  <2>5. CASE GetLogs
    BY <2>5 DEF TypeOK, GetLogs, LogsIn, chainVars, cycleVars
  <2>6. CASE GetLogsFails
    BY <2>6 DEF TypeOK, GetLogsFails, KeepProgress, MoveCursor, chainVars, cycleVars
  <2>7. ASSUME NEW l \in Log, InsertLog(l) \/ InsertFails(l) PROVE TypeOK'
    BY <2>7 DEF TypeOK, InsertLog, InsertFails, chainVars, cycleVars
  <2>8. CASE NextChunk
    <3>1. /\ ChunkEnd \in Nat /\ ChunkEnd <= upper
          /\ ChunkEnd + 1 >= chunkStart
      BY <2>8, ChunkEndBounds DEF NextChunk
    <3> QED
      BY <2>8, <3>1 DEF TypeOK, NextChunk, chainVars
  <2>9. CASE EndPoll
    BY <2>9 DEF TypeOK, EndPoll, MoveCursor, chainVars, cycleVars
  <2>10. CASE SleepOrStop
    BY <2>10 DEF TypeOK, SleepOrStop, chainVars, cycleVars
  <2>11. CASE ChainGrows
    BY <2>11 DEF TypeOK, ChainGrows, cycleVars
  <2>12. CASE ChainReorganises
    <3>1. PICK from \in Blocks :
            /\ ReplaceFrom(from)
            /\ safe' \in Lesser(safe, from - 1) .. safe
            /\ broken' = IF from <= safe THEN Lesser(broken, from) ELSE broken
      BY <2>12 DEF ChainReorganises
    <3>2. canon' \in [Blocks -> Hashes] /\ reorgs' \in 0 .. MaxReorgs
      BY <3>1 DEF TypeOK, ReplaceFrom, Hashes
    <3>3. place' \in [Log -> 0 .. MaxBlock] /\ finalized' = finalized
      BY <3>1 DEF ReplaceFrom
    <3>4. /\ safe' \in 0 .. MaxBlock /\ finalized <= safe'
          /\ broken' \in 1 .. MaxBlock + 1
      BY <3>1 DEF TypeOK, ReplaceFrom, Blocks, Lesser
    <3> QED
      BY <2>12, <3>2, <3>3, <3>4 DEF TypeOK, ChainReorganises, cycleVars
  <2>13. CASE Shutdown
    BY <2>13 DEF TypeOK, Shutdown, chainVars, cycleVars
  <2>14. CASE Restart
    <3>1. shutdown' \in BOOLEAN
      BY <2>14, Zenon DEF Restart
    <3> QED
      BY <2>14, <3>1 DEF TypeOK, Restart, chainVars
  <2>15. CASE UNCHANGED vars
    BY <2>15 DEF TypeOK, vars, chainVars, cycleVars
  <2> QED
    BY <2>1, <2>2, <2>3, <2>4, <2>5, <2>6, <2>7, <2>8, <2>9, <2>10, <2>11,
       <2>12, <2>13, <2>14, <2>15 DEF Next, IndexerStep
<1> QED
  BY <1>1, <1>2, PTL DEF Spec

-----------------------------------------------------------------------------
\* The range of a poll starts right above the cursor; only the first cycle of a
\* process starts at the bound instead.
RangeFollowsCursor ==
    pc \in {"fetch", "insert"} =>
        cursor < startBlock /\ (cursor = 0 \/ startBlock = cursor + 1)

LEMMA RangeFollowsCursorInductive == Spec => []RangeFollowsCursor
<1>1. Init => RangeFollowsCursor
  BY DEF Init, RangeFollowsCursor
<1>2. TypeOK /\ RangeFollowsCursor /\ [Next]_vars => RangeFollowsCursor'
  <2> SUFFICES ASSUME TypeOK, RangeFollowsCursor, [Next]_vars
               PROVE  RangeFollowsCursor'
    OBVIOUS
  <2>1. CASE BeginPoll
    BY <2>1 DEF TypeOK, RangeFollowsCursor, BeginPoll, RangeStart
  <2>2. CASE GetLogs
    BY <2>2 DEF RangeFollowsCursor, GetLogs, cycleVars
  <2>3. ASSUME NEW l \in Log, InsertLog(l) \/ InsertFails(l)
       PROVE  RangeFollowsCursor'
    BY <2>3 DEF RangeFollowsCursor, InsertLog, InsertFails, cycleVars
  <2>4. CASE NextChunk
    BY <2>4 DEF RangeFollowsCursor, NextChunk
  <2>5. CASE ChainGrows \/ ChainReorganises \/ Shutdown \/ UNCHANGED vars
    BY <2>5 DEF RangeFollowsCursor, ChainGrows, ChainReorganises, Shutdown, vars,
                cycleVars
  <2>6. CASE ResolveUpperBound \/ ResolveFails \/ NoNewBlocks \/ SleepOrStop
             \/ GetLogsFails \/ EndPoll \/ Restart
    <3>1. pc' \notin {"fetch", "insert"}
      BY <2>6 DEF ResolveUpperBound, ResolveFails, NoNewBlocks, SleepOrStop,
                  GetLogsFails, EndPoll, Restart
    <3> QED
      BY <3>1 DEF RangeFollowsCursor
  <2> QED
    BY <2>1, <2>2, <2>3, <2>4, <2>5, <2>6 DEF Next, IndexerStep
<1> QED
  BY <1>1, <1>2, TypeCorrect, PTL DEF Spec

\* The cursor of a process never moves back, whatever the bound does and
\* whichever chunk fails (poll_events returns the cursor or a later block).
THEOREM CursorIsMonotone == Spec => CursorNeverMovesBack
<1>1. TypeOK /\ RangeFollowsCursor /\ [Next]_vars
      => [restarts' = restarts => cursor' >= cursor]_vars
  <2> SUFFICES ASSUME TypeOK, RangeFollowsCursor, Next, restarts' = restarts
               PROVE  cursor' >= cursor
    BY DEF TypeOK
  <2>1. CASE GetLogsFails
    BY <2>1 DEF TypeOK, RangeFollowsCursor, GetLogsFails, KeepProgress, MoveCursor
  <2>2. CASE EndPoll
    BY <2>2 DEF TypeOK, RangeFollowsCursor, EndPoll, MoveCursor
  <2>3. CASE Restart
    BY <2>3, ConstantsTyped DEF TypeOK, Restart
  <2>4. CASE ResolveUpperBound \/ ResolveFails \/ NoNewBlocks \/ BeginPoll
             \/ GetLogs \/ (\E l \in Log : InsertLog(l) \/ InsertFails(l))
             \/ NextChunk \/ SleepOrStop \/ ChainGrows \/ ChainReorganises \/ Shutdown
    <3>1. cursor' = cursor
      BY <2>4 DEF ResolveUpperBound, ResolveFails, NoNewBlocks, BeginPoll, GetLogs,
                  InsertLog, InsertFails, NextChunk, SleepOrStop, ChainGrows,
                  ChainReorganises, Shutdown
    <3> QED
      BY <3>1 DEF TypeOK
  <2> QED
    BY <2>1, <2>2, <2>3, <2>4 DEF Next, IndexerStep
<1> QED
  BY <1>1, TypeCorrect, RangeFollowsCursorInductive, PTL
     DEF Spec, CursorNeverMovesBack

-----------------------------------------------------------------------------
\* No call asks for more than MAX_BLOCK_RANGE blocks, for a block above the
\* bound of the cycle, or for one the cursor has passed.
THEOREM ChunksBounded == Spec => []ChunksAreBounded
<1>1. TypeOK /\ RangeFollowsCursor => ChunksAreBounded
  <2> SUFFICES ASSUME TypeOK, RangeFollowsCursor, pc = "insert"
               PROVE  /\ cursor < chunkStart /\ ChunkEnd <= upper
                      /\ ChunkEnd - chunkStart < MaxRange
    BY DEF ChunksAreBounded
  <2>1. ChunkEnd \in Nat /\ ChunkEnd <= upper /\ ChunkEnd < chunkStart + MaxRange
    BY ChunkEndBounds
  <2> QED
    BY <2>1, ConstantsTyped DEF TypeOK, RangeFollowsCursor
<1> QED
  BY <1>1, TypeCorrect, RangeFollowsCursorInductive, PTL

-----------------------------------------------------------------------------
\* What a reorganisation cannot reach: in block-finality mode the blocks up to
\* the cursor and the bound in hand are final.  In fcr mode they were safe, and
\* stay below the safe head unless a block below was replaced.
Anchored(x) ==
    IF mode = "fcr" THEN x <= safe \/ broken <= safe + 1 ELSE x <= finalized

AnchorInv ==
    /\ Anchored(cursor)
    /\ pc \in {"poll", "fetch", "insert"} => Anchored(upper)

\* A block the chain moved over stays anchored as the heads grow or fall back.
LEMMA AnchoredIsStable ==
    ASSUME TypeOK, NEW x \in 0 .. MaxBlock, Anchored(x), ChainGrows \/ ChainReorganises
    PROVE  Anchored(x)'
<1>1. CASE ChainGrows
  BY <1>1, ConstantsTyped DEF ChainGrows, Anchored, TypeOK, ChainTypeOK, lifeVars
<1>2. CASE ChainReorganises
  <2>1. PICK from \in Blocks :
          /\ ReplaceFrom(from)
          /\ safe' \in Lesser(safe, from - 1) .. safe
          /\ broken' = IF from <= safe THEN Lesser(broken, from) ELSE broken
    BY <1>2 DEF ChainReorganises
  <2>2. mode' = mode /\ finalized' = finalized
    BY <1>2, <2>1 DEF ChainReorganises, ReplaceFrom, lifeVars
  <2>3. /\ MaxBlock \in Nat /\ from \in Nat /\ safe \in Nat /\ broken \in Nat
        /\ from - 1 \in Nat /\ x \in Nat
    BY ConstantsTyped DEF TypeOK, Blocks
  <2>4. x <= safe \/ broken <= safe + 1 => x <= safe' \/ broken' <= safe' + 1
    <3>1. CASE from <= safe
      <4>1. broken' = Lesser(broken, from) /\ safe' \in (from - 1) .. safe
        BY <2>1, <2>3, <3>1 DEF Lesser
      <4>2. broken' <= from /\ broken' \in Nat
        BY <4>1, <2>3 DEF Lesser
      <4> QED
        BY <4>1, <4>2, <2>3
    <3>2. CASE ~(from <= safe)
      <4>1. broken' = broken /\ safe' \in safe .. safe
        BY <2>1, <2>3, <3>2 DEF Lesser
      <4> QED
        BY <4>1, <2>3
    <3> QED
      BY <3>1, <3>2
  <2> QED
    BY <2>2, <2>4 DEF Anchored
<1> QED
  BY <1>1, <1>2

LEMMA AnchorInductive == Spec => []AnchorInv
<1>1. Init => AnchorInv
  BY DEF Init, AnchorInv, Anchored
<1>2. TypeOK /\ AnchorInv /\ [Next]_vars => AnchorInv'
  <2> SUFFICES ASSUME TypeOK, AnchorInv, [Next]_vars PROVE AnchorInv'
    OBVIOUS
  <2>1. CASE ResolveUpperBound
    <3>1. UpperBound(upper') /\ UNCHANGED <<chainVars, cursor, mode>>
      BY <2>1 DEF ResolveUpperBound, lifeVars
    <3>2. Anchored(upper)'
      BY <3>1 DEF UpperBound, Anchored, chainVars, TypeOK, ChainTypeOK
    <3>3. Anchored(cursor)'
      BY <3>1 DEF AnchorInv, Anchored, chainVars
    <3> QED
      BY <3>2, <3>3 DEF AnchorInv
  <2>2. CASE \/ ResolveFails \/ NoNewBlocks \/ BeginPoll \/ GetLogs \/ NextChunk
             \/ (\E l \in Log : InsertLog(l) \/ InsertFails(l)) \/ SleepOrStop
             \/ Shutdown \/ UNCHANGED vars
    <3>1. /\ UNCHANGED <<chainVars, cursor, upper, mode>>
          /\ pc' \in {"poll", "fetch", "insert"} => pc \in {"poll", "fetch", "insert"}
      BY <2>2 DEF ResolveFails, NoNewBlocks, BeginPoll, GetLogs, NextChunk, InsertLog,
                  InsertFails, SleepOrStop, Shutdown, vars, cycleVars, lifeVars
    <3> QED
      BY <3>1 DEF AnchorInv, Anchored, chainVars
  <2>3. CASE GetLogsFails \/ EndPoll
    <3>1. /\ UNCHANGED <<chainVars, mode>> /\ pc = "fetch" /\ pc' = "sleep"
          /\ cursor' = cursor \/ cursor' = indexedThrough
      BY <2>3 DEF GetLogsFails, KeepProgress, EndPoll, MoveCursor, lifeVars
    <3>2. Anchored(upper) /\ Anchored(cursor) /\ indexedThrough <= upper
      BY <3>1 DEF AnchorInv, TypeOK
    <3>3. Anchored(indexedThrough)
      BY <3>2, ConstantsTyped DEF Anchored, TypeOK, ChainTypeOK
    <3> QED
      BY <3>1, <3>2, <3>3 DEF AnchorInv, Anchored, chainVars
  <2>4. CASE ChainGrows \/ ChainReorganises
    <3>1. UNCHANGED <<pc, cursor, upper>>
      BY <2>4 DEF ChainGrows, ChainReorganises, cycleVars
    <3>2. cursor \in 0 .. MaxBlock /\ upper \in 0 .. MaxBlock
      BY DEF TypeOK
    <3>3. \A x \in 0 .. MaxBlock : Anchored(x) => (Anchored(x))'
      BY <2>4, AnchoredIsStable
    <3> QED
      BY <3>1, <3>2, <3>3 DEF AnchorInv, Anchored
  <2>5. CASE Restart
    BY <2>5, ConstantsTyped DEF Restart, AnchorInv, Anchored, TypeOK, ChainTypeOK, chainVars
  <2> QED
    BY <2>1, <2>2, <2>3, <2>4, <2>5 DEF Next, IndexerStep
<1> QED
  BY <1>1, <1>2, TypeCorrect, PTL DEF Spec

\* A log at or below an anchored block, and in fcr mode below every replaced
\* one, is where it was before the chain moved.
LEMMA AnchoredLogStays ==
    ASSUME TypeOK, ChainGrows \/ ChainReorganises, NEW x \in 0 .. MaxBlock,
           Anchored(x), NEW l \in Log, 0 < place'[l], place'[l] <= x,
           mode = "fcr" => place'[l] < broken'
    PROVE  place[l] = place'[l] /\ (mode = "fcr" => place[l] < broken)
<1> USE ConstantsTyped DEF TypeOK, ChainTypeOK
<1>1. CASE ChainGrows
  BY <1>1 DEF ChainGrows
<1>2. CASE ChainReorganises
  <2>1. PICK from \in Blocks :
          /\ ReplaceFrom(from)
          /\ broken' = IF from <= safe THEN Lesser(broken, from) ELSE broken
    BY <1>2 DEF ChainReorganises
  <2>2. /\ place' \in [Log -> 0 .. MaxBlock] /\ from > finalized
        /\ IF 0 < place[l] /\ place[l] < from THEN place'[l] = place[l]
           ELSE place'[l] = 0 \/ place'[l] >= from
    BY <2>1 DEF ReplaceFrom
  <2>3. place'[l] < from
    BY <2>1, <2>2 DEF Anchored, Blocks, Lesser
  <2>4. place[l] = place'[l]
    BY <2>2, <2>3 DEF Blocks
  <2>5. broken' <= broken
    BY <2>1 DEF Blocks, Lesser
  <2> QED
    BY <2>1, <2>2, <2>4, <2>5 DEF Blocks, Lesser
<1> QED
  BY <1>1, <1>2

-----------------------------------------------------------------------------
\* In block-finality mode the logs in hand are in final blocks: they stay there
\* while they are inserted one by one.
BatchIsFinal ==
    mode = "block-finality" /\ pc = "insert" =>
        \A l \in batch : 0 < place[l] /\ place[l] <= finalized

LEMMA BatchIsFinalInductive == Spec => []BatchIsFinal
<1>1. Init => BatchIsFinal
  BY DEF Init, BatchIsFinal
<1>2. TypeOK /\ AnchorInv /\ BatchIsFinal /\ [Next]_vars => BatchIsFinal'
  <2> SUFFICES ASSUME TypeOK, AnchorInv, BatchIsFinal, [Next]_vars,
                      mode' = "block-finality", pc' = "insert", NEW l \in batch'
               PROVE  0 < place'[l] /\ place'[l] <= finalized'
    BY DEF BatchIsFinal
  <2>1. CASE GetLogs
    <3>1. PICK head \in 0 .. MaxBlock : batch' = LogsIn(chunkStart, Lesser(head, ChunkEnd))
      BY <2>1 DEF GetLogs
    <3>2. ChunkEnd \in Nat /\ ChunkEnd <= upper /\ upper <= finalized
      BY <2>1, ChunkEndBounds DEF GetLogs, AnchorInv, Anchored, lifeVars
    <3>3. l \in Log /\ chunkStart <= place[l] /\ place[l] <= ChunkEnd /\ place[l] \in Nat
      BY <3>1, <3>2, ConstantsTyped DEF LogsIn, Lesser, TypeOK, ChainTypeOK
    <3>4. 0 < chunkStart
      BY <2>1 DEF GetLogs, TypeOK
    <3> QED
      BY <2>1, <3>2, <3>3, <3>4 DEF GetLogs, chainVars, TypeOK, ChainTypeOK
  <2>2. CASE \/ (\E k \in Log : InsertLog(k) \/ InsertFails(k))
             \/ Shutdown \/ UNCHANGED vars
    <3>1. l \in batch /\ UNCHANGED <<chainVars, mode>> /\ pc = "insert"
      BY <2>2 DEF InsertLog, InsertFails, Shutdown, vars, lifeVars
    <3> QED
      BY <3>1 DEF BatchIsFinal, chainVars
  <2>3. CASE ChainGrows
    <3>1. l \in batch /\ UNCHANGED <<place, mode, pc>> /\ finalized' >= finalized
      BY <2>3 DEF ChainGrows, lifeVars, TypeOK, ChainTypeOK
    <3>2. finalized' \in Nat /\ finalized \in Nat /\ place[l] \in Nat
      BY <2>3, <3>1, ConstantsTyped DEF ChainGrows, TypeOK, ChainTypeOK
    <3> QED
      BY <3>1, <3>2 DEF BatchIsFinal
  <2>4. CASE ChainReorganises
    <3>1. l \in batch /\ UNCHANGED <<finalized, mode, pc>>
      BY <2>4 DEF ChainReorganises, ReplaceFrom, lifeVars
    <3>2. l \in Log /\ 0 < place[l] /\ place[l] <= finalized
      BY <3>1 DEF BatchIsFinal, TypeOK
    <3>3. PICK from \in Blocks : ReplaceFrom(from)
      BY <2>4 DEF ChainReorganises
    <3>4. place[l] < from
      BY <3>2, <3>3, ConstantsTyped DEF ReplaceFrom, Blocks, TypeOK, ChainTypeOK
    <3>5. place'[l] = place[l]
      BY <3>2, <3>3, <3>4 DEF ReplaceFrom
    <3> QED
      BY <3>1, <3>2, <3>5
  <2>5. CASE ResolveUpperBound \/ ResolveFails \/ NoNewBlocks \/ BeginPoll
             \/ GetLogsFails \/ NextChunk \/ EndPoll \/ SleepOrStop \/ Restart
    BY <2>5 DEF ResolveUpperBound, ResolveFails, NoNewBlocks, BeginPoll,
                GetLogsFails, NextChunk, EndPoll, SleepOrStop, Restart
  <2> QED
    BY <2>1, <2>2, <2>3, <2>4, <2>5 DEF Next, IndexerStep
<1> QED
  BY <1>1, <1>2, TypeCorrect, AnchorInductive, PTL DEF Spec

\* In block-finality mode a log is final when it is stored, whichever endpoints
\* fail, however far the safe head runs ahead, and whatever is reorganised
\* between the answer and the INSERT (resolve_upper_bound, index_block_range).
THEOREM FinalityModeIsFinal == Spec => FinalityModeStoresFinal
<1>1. BatchIsFinal /\ [Next]_vars
      => [\A l \in stored' \ stored :
             mode = "block-finality" => 0 < place[l] /\ place[l] <= finalized]_vars
  <2> SUFFICES ASSUME BatchIsFinal, Next, mode = "block-finality",
                      NEW l \in stored' \ stored
               PROVE  0 < place[l] /\ place[l] <= finalized
    OBVIOUS
  <2>1. \E k \in Log : InsertLog(k)
    BY DEF Next, IndexerStep, ResolveUpperBound, ResolveFails, NoNewBlocks,
           BeginPoll, GetLogs, GetLogsFails, InsertFails, NextChunk, EndPoll,
           SleepOrStop, Shutdown, Restart, ChainGrows, ChainReorganises
  <2>2. l \in batch /\ pc = "insert"
    BY <2>1 DEF InsertLog
  <2> QED
    BY <2>2 DEF BatchIsFinal
<1> QED
  BY <1>1, BatchIsFinalInductive, PTL DEF Spec, FinalityModeStoresFinal

-----------------------------------------------------------------------------
\* NoGap is not inductive: a poll stores logs above the cursor before it moves
\* the cursor over them.  Inside a poll everything from its first block up to
\* the last finished chunk is settled, and the logs of the chunk in hand are
\* settled or still in hand.
Settled(from, to, logs) ==
    \A l \in Log :
        /\ from <= place[l] /\ place[l] <= to
        /\ mode = "fcr" => place[l] < broken
        => l \in logs

GapInv ==
    /\ cursor > 0 => origin > 0 /\ Settled(origin, cursor, stored \cup lost)
    /\ pc \in {"fetch", "insert"} => Settled(startBlock, indexedThrough, stored \cup lost)
    /\ pc = "insert" => Settled(chunkStart, ChunkEnd, batch \cup stored \cup lost)

\* The cursor may move over the finished chunks of a poll.
LEMMA MoveCursorKeepsGapInv ==
    ASSUME TypeOK, RangeFollowsCursor, GapInv, pc = "fetch", pc' = "sleep",
           MoveCursor(indexedThrough), UNCHANGED <<chainVars, stored, lost, mode>>
    PROVE  GapInv'
<1>1. SUFFICES ASSUME cursor' > 0
               PROVE  origin' > 0 /\ Settled(origin, cursor, stored \cup lost)'
  BY DEF GapInv
<1>2. origin' > 0
  BY DEF MoveCursor, GapInv, TypeOK
<1>3. ASSUME NEW l \in Log, origin' <= place[l], place[l] <= indexedThrough,
             mode = "fcr" => place[l] < broken
      PROVE  l \in stored \cup lost
  <2>1. place[l] \in Nat
    BY DEF TypeOK, ChainTypeOK
  <2>2. CASE cursor = 0
    BY <1>3, <2>2 DEF MoveCursor, GapInv, Settled
  <2>3. CASE cursor # 0 /\ place[l] <= cursor
    BY <1>3, <2>3 DEF MoveCursor, GapInv, Settled, TypeOK
  <2>4. CASE cursor # 0 /\ place[l] > cursor
    <3>1. startBlock <= place[l]
      BY <2>1, <2>4 DEF RangeFollowsCursor, TypeOK
    <3> QED
      BY <3>1, <1>3 DEF GapInv, Settled
  <2> QED
    BY <2>1, <2>2, <2>3, <2>4 DEF TypeOK
<1> QED
  BY <1>2, <1>3 DEF Settled, MoveCursor, chainVars

\* What is settled up to an anchored block stays so as the chain moves.
LEMMA SettledIsStable ==
    ASSUME TypeOK, ChainGrows \/ ChainReorganises, NEW from \in Nat, from > 0,
           NEW to \in 0 .. MaxBlock, Anchored(to), NEW logs, Settled(from, to, logs)
    PROVE  \A l \in Log :
              /\ from <= place'[l] /\ place'[l] <= to
              /\ mode = "fcr" => place'[l] < broken'
              => l \in logs
<1> SUFFICES ASSUME NEW l \in Log, from <= place'[l], place'[l] <= to,
                    mode = "fcr" => place'[l] < broken'
             PROVE  l \in logs
  OBVIOUS
<1>1. place'[l] \in Nat
  BY ConstantsTyped DEF ChainGrows, ChainReorganises, ReplaceFrom, TypeOK, ChainTypeOK
<1>2. place[l] = place'[l] /\ (mode = "fcr" => place[l] < broken)
  BY <1>1, AnchoredLogStays
<1> QED
  BY <1>2 DEF Settled

\* "Blocks are never skipped" (README, Event Indexer): every log from the block
\* the process started at up to its cursor has been stored, or an INSERT or a
\* lagging node left it out, whichever calls fail, however the range is chunked,
\* across restarts, and whatever is reorganised; in fcr mode as far as no block
\* was replaced after it was safe.
THEOREM NoLogIsSkipped == Spec => []NoGap
<1>1. Init => GapInv
  BY DEF Init, GapInv
<1>2. TypeOK /\ RangeFollowsCursor /\ AnchorInv /\ GapInv /\ [Next]_vars => GapInv'
  <2> SUFFICES ASSUME TypeOK, RangeFollowsCursor, AnchorInv, GapInv, [Next]_vars
               PROVE  GapInv'
    OBVIOUS
  <2>1. CASE ResolveUpperBound \/ ResolveFails \/ NoNewBlocks \/ SleepOrStop
    <3>1. /\ UNCHANGED <<chainVars, cursor, origin, stored, lost, mode>>
          /\ pc' \notin {"fetch", "insert"}
      BY <2>1 DEF ResolveUpperBound, ResolveFails, NoNewBlocks, SleepOrStop, lifeVars
    <3> QED
      BY <3>1 DEF GapInv, Settled, chainVars
  <2>2. CASE BeginPoll
    <3>1. /\ UNCHANGED <<chainVars, cursor, origin, stored, lost, mode>> /\ pc' = "fetch"
          /\ startBlock' = RangeStart /\ indexedThrough' = RangeStart - 1
          /\ RangeStart \in Nat
      BY <2>2 DEF TypeOK, BeginPoll, RangeStart, lifeVars
    <3>2. Settled(startBlock, indexedThrough, stored \cup lost)'
      BY <3>1 DEF Settled, chainVars, TypeOK, ChainTypeOK
    <3> QED
      BY <3>1, <3>2 DEF GapInv, Settled, chainVars
  <2>3. CASE GetLogs
    <3>1. /\ UNCHANGED <<chainVars, cursor, origin, stored, mode, cycleVars>>
          /\ pc = "fetch" /\ pc' = "insert"
          /\ lost' = lost \cup (LogsIn(chunkStart, ChunkEnd) \ batch')
      BY <2>3 DEF GetLogs, lifeVars
    <3>2. ChunkEnd' = ChunkEnd
      BY <3>1 DEF cycleVars, ChunkEnd, Lesser
    <3>3. Settled(chunkStart, ChunkEnd, batch \cup stored \cup lost)'
      BY <3>1, <3>2 DEF Settled, LogsIn, chainVars, cycleVars
    <3> QED
      BY <3>1, <3>3 DEF GapInv, Settled, chainVars, cycleVars
  <2>4. CASE GetLogsFails
    <3>1. /\ UNCHANGED <<chainVars, stored, lost, mode>>
          /\ pc = "fetch" /\ pc' = "sleep" /\ KeepProgress
      BY <2>4 DEF GetLogsFails, lifeVars
    <3>2. CASE indexedThrough >= startBlock
      BY <3>1, <3>2, MoveCursorKeepsGapInv DEF KeepProgress
    <3>3. CASE ~(indexedThrough >= startBlock)
      BY <3>1, <3>3 DEF KeepProgress, GapInv, Settled, chainVars
    <3> QED
      BY <3>2, <3>3
  <2>5. ASSUME NEW l \in Log, InsertLog(l) \/ InsertFails(l) PROVE GapInv'
    <3>1. /\ UNCHANGED <<chainVars, cursor, origin, mode, cycleVars, pc>>
          /\ stored \cup lost \subseteq stored' \cup lost'
          /\ batch \cup stored \cup lost = batch' \cup stored' \cup lost'
      BY <2>5 DEF InsertLog, InsertFails, lifeVars
    <3>2. ChunkEnd' = ChunkEnd
      BY <3>1 DEF cycleVars, ChunkEnd, Lesser
    <3> QED
      BY <3>1, <3>2 DEF GapInv, Settled, chainVars, cycleVars
  <2>6. CASE NextChunk
    <3>1. /\ UNCHANGED <<chainVars, cursor, origin, stored, lost, mode, startBlock>>
          /\ indexedThrough' = ChunkEnd /\ batch = {} /\ pc = "insert" /\ pc' = "fetch"
      BY <2>6 DEF NextChunk, lifeVars
    <3>2. Settled(startBlock, ChunkEnd, stored \cup lost)
      <4> SUFFICES ASSUME NEW l \in Log, startBlock <= place[l], place[l] <= ChunkEnd,
                          mode = "fcr" => place[l] < broken
                   PROVE  l \in stored \cup lost
        BY DEF Settled
      <4>1. CASE place[l] <= indexedThrough
        BY <4>1, <3>1 DEF GapInv, Settled
      <4>2. CASE ~(place[l] <= indexedThrough)
        <5>1. chunkStart <= place[l]
          BY <4>2, <3>1 DEF TypeOK, ChainTypeOK
        <5> QED
          BY <5>1, <3>1 DEF GapInv, Settled
      <4> QED
        BY <4>1, <4>2
    <3> QED
      BY <3>1, <3>2 DEF GapInv, Settled, chainVars
  <2>7. CASE EndPoll
    BY <2>7, MoveCursorKeepsGapInv DEF EndPoll, lifeVars
  <2>8. CASE ChainGrows \/ ChainReorganises
    <3>1. UNCHANGED <<cursor, cycleVars, pc, origin, stored, lost, batch, mode>>
      BY <2>8 DEF ChainGrows, ChainReorganises, lifeVars
    <3>2. ChunkEnd' = ChunkEnd
      BY <3>1 DEF cycleVars, ChunkEnd, Lesser
    <3>3. cursor > 0 => origin' > 0 /\ Settled(origin, cursor, stored \cup lost)'
      <4> SUFFICES ASSUME cursor > 0
                   PROVE  origin' > 0 /\ Settled(origin, cursor, stored \cup lost)'
        OBVIOUS
      <4>1. /\ origin \in Nat /\ origin > 0 /\ cursor \in 0 .. MaxBlock
            /\ Anchored(cursor) /\ Settled(origin, cursor, stored \cup lost)
        BY DEF GapInv, AnchorInv, TypeOK
      <4> QED
        BY <2>8, <3>1, <4>1, SettledIsStable DEF Settled
    <3>4. ASSUME pc \in {"fetch", "insert"}
          PROVE  Settled(startBlock, indexedThrough, stored \cup lost)'
      <4>1. /\ startBlock \in Nat /\ startBlock > 0 /\ indexedThrough \in 0 .. MaxBlock
            /\ indexedThrough <= upper /\ Anchored(upper)
            /\ Settled(startBlock, indexedThrough, stored \cup lost)
        BY <3>4 DEF GapInv, AnchorInv, TypeOK
      <4>2. Anchored(indexedThrough)
        BY <4>1, ConstantsTyped DEF Anchored, TypeOK, ChainTypeOK
      <4> QED
        BY <2>8, <3>1, <4>1, <4>2, SettledIsStable DEF Settled, cycleVars
    <3>5. ASSUME pc = "insert"
          PROVE  Settled(chunkStart, ChunkEnd, batch \cup stored \cup lost)'
      <4>1. /\ chunkStart \in Nat /\ chunkStart > 0 /\ ChunkEnd \in 0 .. MaxBlock
            /\ ChunkEnd <= upper /\ Anchored(upper)
            /\ Settled(chunkStart, ChunkEnd, batch \cup stored \cup lost)
        BY <3>5, ChunkEndBounds, ConstantsTyped DEF GapInv, AnchorInv, TypeOK
      <4>2. Anchored(ChunkEnd)
        BY <4>1, ConstantsTyped DEF Anchored, TypeOK, ChainTypeOK
      <4> QED
        BY <2>8, <3>1, <3>2, <4>1, <4>2, SettledIsStable DEF Settled, cycleVars
    <3> QED
      BY <3>1, <3>3, <3>4, <3>5 DEF GapInv
  <2>9. CASE Restart
    BY <2>9 DEF Restart, GapInv
  <2>10. CASE Shutdown \/ UNCHANGED vars
    <3>1. UNCHANGED <<chainVars, cursor, cycleVars, pc, origin, stored, lost, batch, mode>>
      BY <2>10 DEF Shutdown, vars, lifeVars
    <3>2. ChunkEnd' = ChunkEnd
      BY <3>1 DEF cycleVars, ChunkEnd, Lesser
    <3> QED
      BY <3>1, <3>2 DEF GapInv, Settled, chainVars, cycleVars
  <2> QED
    BY <2>1, <2>2, <2>3, <2>4, <2>5, <2>6, <2>7, <2>8, <2>9, <2>10 DEF Next, IndexerStep
<1>3. GapInv => NoGap
  BY DEF GapInv, NoGap, Settled
<1> QED
  BY <1>1, <1>2, <1>3, TypeCorrect, RangeFollowsCursorInductive, AnchorInductive, PTL
     DEF Spec

-----------------------------------------------------------------------------
(* The README's sentence without exceptions.  It is false of the service; with *)
(* the exceptions excluded it is true, so there are no others.                 *)

NothingLost == lost = {}
SafetyUnbroken == reorgs = 0 /\ broken = MaxBlock + 1

\* Only a failed INSERT or a node behind the bound leaves a log out.
LEMMA NextLosesNothing ==
    ASSUME TypeOK, NothingLost, [Next]_vars, Faults \cap {"lag", "insert"} = {}
    PROVE  NothingLost'
<1> USE DEF NothingLost
<1>1. CASE GetLogs
  <2>1. PICK head \in 0 .. MaxBlock :
          head >= ChunkEnd /\ batch' = LogsIn(chunkStart, Lesser(head, ChunkEnd))
    BY <1>1 DEF GetLogs
  <2>2. ChunkEnd \in Nat
    BY <1>1, ChunkEndBounds DEF GetLogs
  <2>3. Lesser(head, ChunkEnd) = ChunkEnd
    BY <2>1, <2>2, ConstantsTyped DEF Lesser
  <2>4. lost' = lost \cup (LogsIn(chunkStart, ChunkEnd) \ batch')
    BY <1>1 DEF GetLogs
  <2> QED
    BY <2>1, <2>3, <2>4
<1>2. CASE ~GetLogs
  BY <1>2 DEF Next, IndexerStep, ResolveUpperBound, ResolveFails, NoNewBlocks,
     BeginPoll, GetLogsFails, InsertLog, InsertFails, NextChunk, EndPoll,
     SleepOrStop, ChainGrows, ChainReorganises, Shutdown, Restart, vars
<1> QED
  BY <1>1, <1>2

\* Without reorganisations no safe block is replaced.
LEMMA NextBreaksNothing ==
    ASSUME TypeOK, SafetyUnbroken, [Next]_vars, MaxReorgs = 0
    PROVE  SafetyUnbroken'
<1>1. ~ChainReorganises
  BY DEF ChainReorganises, ReplaceFrom, SafetyUnbroken
<1> QED
  BY <1>1 DEF SafetyUnbroken, Next, IndexerStep, ResolveUpperBound, ResolveFails,
     NoNewBlocks, BeginPoll, GetLogs, GetLogsFails, InsertLog, InsertFails,
     NextChunk, EndPoll, SleepOrStop, ChainGrows, Shutdown, Restart, vars, chainVars

\* "Blocks are never skipped" as it stands, for a process that indexes final
\* blocks only, or a chain that is not reorganised: whatever calls fail, at
\* whatever chunk of whatever range, however far the safe head runs ahead.  The
\* exceptions are a failed INSERT, a node behind the bound, and fcr mode on a
\* chain whose safe blocks are replaced.
THEOREM NothingIsSkipped ==
    ASSUME Faults \cap {"lag", "insert"} = {},
           "fcr" \notin Modes \/ MaxReorgs = 0
    PROVE  Spec => []NothingSkipped
<1>1. Init => NothingLost
  BY DEF Init, NothingLost
<1>2. TypeOK /\ NothingLost /\ [Next]_vars => NothingLost'
  BY NextLosesNothing
<1>3. CASE "fcr" \notin Modes
  <2>1. TypeOK /\ NoGap /\ NothingLost => NothingSkipped
    BY <1>3 DEF TypeOK, NoGap, NothingLost, NothingSkipped
  <2> QED
    BY <1>1, <1>2, <2>1, TypeCorrect, NoLogIsSkipped, PTL DEF Spec
<1>4. CASE MaxReorgs = 0
  <2>1. Init => SafetyUnbroken
    BY DEF Init, ChainInit, SafetyUnbroken
  <2>2. TypeOK /\ SafetyUnbroken /\ [Next]_vars => SafetyUnbroken'
    BY <1>4, NextBreaksNothing
  <2>3. TypeOK /\ NoGap /\ NothingLost /\ SafetyUnbroken => NothingSkipped
    <3>1. TypeOK => \A l \in Log : place[l] \in 0 .. MaxBlock
      BY DEF TypeOK, ChainTypeOK
    <3> QED
      BY <3>1, ConstantsTyped DEF NoGap, NothingLost, SafetyUnbroken, NothingSkipped
  <2> QED
    BY <1>1, <1>2, <2>1, <2>2, <2>3, TypeCorrect, NoLogIsSkipped, PTL DEF Spec
<1> QED
  BY <1>3, <1>4

=============================================================================
