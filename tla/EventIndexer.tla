----------------------------- MODULE EventIndexer -----------------------------
(***************************************************************************)
(* One EventIndexer task: it resolves the highest block it may index       *)
(* (finalized, or safe in fcr mode), walks the range above its in-memory   *)
(* cursor in chunks, one eth_getLogs each, and inserts what it finds.  The *)
(* heads of the chain grow while it does, and blocks above the finalized   *)
(* one are reorganised, safe ones included.  An action ends where the code *)
(* awaits.                                                                 *)
(***************************************************************************)
EXTENDS Chain

CONSTANTS
    Modes,           \* what a start may settle on: "block-finality", "fcr"
    MaxRange,        \* MAX_BLOCK_RANGE, blocks per eth_getLogs
    ProviderLimit,   \* widest range the provider answers
    MaxRestarts,     \* bound: restarts of the process
    Faults           \* the failures the environment may inject

\* resolve: an endpoint for safe or finalized fails, all endpoints included;
\* getlogs: an eth_getLogs call fails; lag: it is answered by a node that has not
\* seen the newest blocks yet; insert: an INSERT fails.
FaultKinds == {"resolve", "getlogs", "lag", "insert"}

ASSUME ModeAssumption == Modes \subseteq {"block-finality", "fcr"}
ASSUME RangeAssumption == MaxRange \in Nat \ {0} /\ ProviderLimit \in Nat
ASSUME RestartAssumption == MaxRestarts \in Nat
ASSUME FaultAssumption == Faults \subseteq FaultKinds

VARIABLES
    safe,                \* number of the safe block
    mode,                \* the mode of this process lifetime
    pc,
    cursor,              \* last_processed_block, 0 before the first success
    upper,               \* the bound of this cycle
    startBlock, chunkStart, indexedThrough,
    batch,               \* logs of the current chunk still to insert
    stored,              \* logs ever inserted (the sender's deletes left out)
    shutdown, restarts,
    broken,              \* history: lowest block replaced after it was safe
    lost,                \* history: logs an INSERT or a lagging node left out
    origin               \* history: first block of the cycle that set the cursor

chainVars == <<canon, place, finalized, reorgs, safe, broken>>
cycleVars == <<upper, startBlock, chunkStart, indexedThrough>>
lifeVars == <<mode, shutdown, restarts>>
vars == <<chainVars, pc, cursor, cycleVars, batch, stored, lost, lifeVars, origin>>

LogsIn(from, to) == {l \in Log : from <= place[l] /\ place[l] <= to}

-----------------------------------------------------------------------------
\* resolve_upper_bound: in fcr mode `safe', falling back to `finalized' when no
\* provider has it; in block-finality mode `finalized' only.
SafeForFinalized(bound) ==    \* mutant: the mode is not looked at
    bound = safe \/ ("resolve" \in Faults /\ bound = finalized)
LatestForSafe(bound) ==       \* mutant: any head will do in fcr mode
    mode = "fcr" \/ bound = finalized
UpperBound(bound) ==
    IF mode = "fcr"
    THEN bound = safe \/ ("resolve" \in Faults /\ bound = finalized)
    ELSE bound = finalized

ResolveUpperBound ==
    /\ pc = "resolve"
    /\ \E bound \in 0 .. MaxBlock : UpperBound(bound) /\ upper' = bound
    /\ pc' = "poll"
    /\ UNCHANGED <<chainVars, cursor, startBlock, chunkStart, indexedThrough,
                   batch, stored, lost, lifeVars, origin>>

ResolveFails ==
    /\ pc = "resolve" /\ "resolve" \in Faults
    /\ pc' = "sleep"
    /\ UNCHANGED <<chainVars, cursor, cycleVars, batch, stored, lost, lifeVars,
                   origin>>

AdoptLowerBound ==    \* mutant: the cursor follows the bound down
    /\ pc = "poll" /\ upper <= cursor
    /\ cursor' = upper /\ pc' = "sleep"
    /\ UNCHANGED <<chainVars, cycleVars, batch, stored, lost, lifeVars, origin>>
NoNewBlocks ==
    /\ pc = "poll" /\ upper <= cursor
    /\ pc' = "sleep"
    /\ UNCHANGED <<chainVars, cursor, cycleVars, batch, stored, lost, lifeVars,
                   origin>>

RangeStartPastCursor == IF cursor = 0 THEN upper ELSE cursor + 2    \* mutant
RangeStart == IF cursor = 0 THEN upper ELSE cursor + 1

BeginPoll ==
    /\ pc = "poll" /\ upper > cursor
    /\ startBlock' = RangeStart
    /\ chunkStart' = RangeStart
    /\ indexedThrough' = RangeStart - 1
    /\ pc' = "fetch"
    /\ UNCHANGED <<chainVars, cursor, upper, batch, stored, lost, lifeVars, origin>>

Lesser(a, b) == IF a <= b THEN a ELSE b
WholeRange == upper    \* mutant: one call for the whole backlog
ChunkPastBound == chunkStart + (MaxRange - 1)    \* mutant: no .min(upper)
ChunkEnd == Lesser(chunkStart + (MaxRange - 1), upper)

\* index_block_range: the eth_getLogs call answers with the logs the chunk has by
\* now, as far as the head of the node that serves it.
GetLogs ==
    /\ pc = "fetch" /\ chunkStart <= upper
    /\ ChunkEnd - chunkStart + 1 <= ProviderLimit
    /\ \E head \in 0 .. MaxBlock :
          /\ head >= ChunkEnd \/ "lag" \in Faults
          /\ batch' = LogsIn(chunkStart, Lesser(head, ChunkEnd))
    /\ lost' = lost \cup (LogsIn(chunkStart, ChunkEnd) \ batch')
    /\ pc' = "insert"
    /\ UNCHANGED <<chainVars, cursor, cycleVars, stored, lifeVars, origin>>

\* The caller of poll_events takes over the block it returns.
MoveCursor(block) ==
    /\ cursor' = block
    /\ origin' = IF cursor = 0 THEN startBlock ELSE origin

\* The call fails: progress of earlier chunks is kept, otherwise the error
\* propagates and the cursor stays.
ForgetProgress == UNCHANGED <<cursor, origin>>    \* mutant: all or nothing
SkipFailedChunk == MoveCursor(ChunkEnd)    \* mutant: the chunk counts as done
KeepProgress ==
    IF indexedThrough >= startBlock THEN MoveCursor(indexedThrough)
    ELSE UNCHANGED <<cursor, origin>>

GetLogsFails ==
    /\ pc = "fetch" /\ chunkStart <= upper
    /\ "getlogs" \in Faults \/ ChunkEnd - chunkStart + 1 > ProviderLimit
    /\ KeepProgress
    /\ pc' = "sleep"
    /\ UNCHANGED <<chainVars, cycleVars, batch, stored, lost, lifeVars>>

\* INSERT ... ON CONFLICT DO NOTHING, log by log.
InsertLog(l) ==
    /\ pc = "insert" /\ l \in batch
    /\ batch' = batch \ {l}
    /\ stored' = stored \cup {l}
    /\ UNCHANGED <<chainVars, pc, cursor, cycleVars, lost, lifeVars, origin>>

\* An error is only logged.
InsertFails(l) ==
    /\ pc = "insert" /\ l \in batch /\ "insert" \in Faults
    /\ batch' = batch \ {l}
    /\ lost' = lost \cup {l}
    /\ UNCHANGED <<chainVars, pc, cursor, cycleVars, stored, lifeVars, origin>>

NextChunk ==
    /\ pc = "insert" /\ batch = {}
    /\ indexedThrough' = ChunkEnd
    /\ chunkStart' = ChunkEnd + 1
    /\ pc' = "fetch"
    /\ UNCHANGED <<chainVars, cursor, upper, startBlock, batch, stored, lost,
                   lifeVars, origin>>

EndPoll ==
    /\ pc = "fetch" /\ chunkStart > upper
    /\ MoveCursor(indexedThrough)
    /\ pc' = "sleep"
    /\ UNCHANGED <<chainVars, cycleVars, batch, stored, lost, lifeVars>>

\* The select! between the poll interval and the shutdown signal.
WakeAlways ==    \* mutant: the shutdown branch is missing
    /\ pc = "sleep"
    /\ pc' = "resolve"
    /\ UNCHANGED <<chainVars, cursor, cycleVars, batch, stored, lost, lifeVars,
                   origin>>
SleepOrStop ==
    /\ pc = "sleep"
    /\ pc' = IF shutdown THEN "stopped" ELSE "resolve"
    /\ UNCHANGED <<chainVars, cursor, cycleVars, batch, stored, lost, lifeVars,
                   origin>>

-----------------------------------------------------------------------------
ChainGrows ==
    /\ \/ safe < MaxBlock /\ safe' = safe + 1 /\ UNCHANGED finalized
       \/ finalized < safe /\ finalized' = finalized + 1 /\ UNCHANGED safe
    /\ UNCHANGED <<canon, place, reorgs, broken, pc, cursor, cycleVars, batch,
                   stored, lost, lifeVars, origin>>

\* The safe head stays on the new branch, or falls back as far as the common
\* ancestor.
ChainReorganises ==
    /\ \E from \in Blocks :
          /\ ReplaceFrom(from)
          /\ safe' \in Lesser(safe, from - 1) .. safe
          /\ broken' = IF from <= safe THEN Lesser(broken, from) ELSE broken
    /\ UNCHANGED <<pc, cursor, cycleVars, batch, stored, lost, lifeVars, origin>>

Shutdown ==
    /\ ~shutdown /\ shutdown' = TRUE
    /\ UNCHANGED <<chainVars, pc, cursor, cycleVars, batch, stored, lost, mode,
                   restarts, origin>>

\* A stopped or killed process starts again: the cursor lived in memory only,
\* and the preflight may settle on another mode.
Restart ==
    /\ restarts < MaxRestarts /\ restarts' = restarts + 1
    /\ pc' = "resolve" /\ cursor' = 0 /\ upper' = 0 /\ startBlock' = 0
    /\ chunkStart' = 0 /\ indexedThrough' = 0 /\ batch' = {}
    /\ mode' \in Modes /\ shutdown' = FALSE /\ origin' = 0
    /\ UNCHANGED <<chainVars, stored, lost>>

Init ==
    /\ ChainInit /\ broken = MaxBlock + 1
    /\ safe = 0 /\ finalized = 0
    /\ pc = "resolve" /\ cursor = 0 /\ upper = 0 /\ startBlock = 0
    /\ chunkStart = 0 /\ indexedThrough = 0 /\ batch = {} /\ stored = {}
    /\ lost = {} /\ mode \in Modes /\ shutdown = FALSE /\ restarts = 0
    /\ origin = 0

IndexerStep ==
    \/ ResolveUpperBound \/ ResolveFails \/ NoNewBlocks \/ BeginPoll
    \/ GetLogs \/ GetLogsFails \/ (\E l \in Log : InsertLog(l) \/ InsertFails(l))
    \/ NextChunk \/ EndPoll \/ SleepOrStop

Next == IndexerStep \/ ChainGrows \/ ChainReorganises \/ Shutdown \/ Restart

Spec == Init /\ [][Next]_vars

\* The task is polled whenever it can run, and an endpoint that is asked again
\* and again answers in the end, if the call is one it can answer at all.
Fairness ==
    /\ WF_vars(IndexerStep)
    /\ SF_vars(ResolveUpperBound)
    /\ SF_vars(GetLogs)

FairSpec == Spec /\ Fairness

-----------------------------------------------------------------------------
\* The cursor and the chunk bookkeeping stay within the blocks of the chain,
\* and inside a poll they keep the order the loop of poll_events relies on.
TypeOK ==
    /\ ChainTypeOK
    /\ safe \in 0 .. MaxBlock /\ finalized <= safe /\ broken \in 1 .. MaxBlock + 1
    /\ mode \in Modes
    /\ pc \in {"resolve", "poll", "fetch", "insert", "sleep", "stopped"}
    /\ cursor \in 0 .. MaxBlock /\ upper \in 0 .. MaxBlock
    /\ startBlock \in 0 .. MaxBlock /\ indexedThrough \in 0 .. MaxBlock
    /\ chunkStart \in 0 .. MaxBlock + 1
    /\ batch \subseteq Log /\ stored \subseteq Log /\ lost \subseteq Log
    /\ shutdown \in BOOLEAN /\ restarts \in 0 .. MaxRestarts
    /\ origin \in 0 .. MaxBlock
    /\ pc \in {"fetch", "insert"} =>
          /\ 0 < startBlock /\ startBlock <= upper
          /\ chunkStart = indexedThrough + 1 /\ startBlock <= chunkStart
          /\ chunkStart <= upper + 1

\* "Blocks are never skipped" (README, Event Indexer), as far as a block number
\* can promise it: every log between the block the process started at and its
\* cursor has been stored, or was left out by an INSERT or a node, whichever
\* chunks failed, in which order, and however the bound moved.  In fcr mode it
\* holds below the lowest block that was replaced after it was safe: what a
\* reorganisation brings there is never asked for.
NoGap ==
    cursor > 0 => \A l \in Log :
        /\ origin <= place[l] /\ place[l] <= cursor
        /\ mode = "fcr" => place[l] < broken
        => l \in stored \cup lost

\* The same without the exceptions, as the README has it.
NothingSkipped ==
    cursor > 0 => \A l \in Log : origin <= place[l] /\ place[l] <= cursor
                                 => l \in stored

\* In block-finality mode a log can never leave the chain once it is stored,
\* also when the safe head runs ahead, the endpoints fail, and the chain is
\* reorganised between the answer and the INSERT.
FinalityModeStoresFinal ==
    [][\A l \in stored' \ stored :
          mode = "block-finality" => 0 < place[l] /\ place[l] <= finalized]_vars

\* No call asks for more than MAX_BLOCK_RANGE blocks, for a block above the
\* bound of the cycle, or for one the cursor has passed.
ChunksAreBounded ==
    pc = "insert" => /\ cursor < chunkStart /\ ChunkEnd <= upper
                     /\ ChunkEnd - chunkStart < MaxRange

\* The cursor of a process never moves back, although the bound may (a cycle on
\* the safe head followed by one that fell back to the finalized head).
CursorNeverMovesBack == [][restarts' = restarts => cursor' >= cursor]_vars

\* A provider that answers MAX_BLOCK_RANGE blocks at a time suffices to catch up
\* with any backlog, whatever calls fail in between: the cursor is level with the
\* finalized block again and again, hence for good once the chain rests.
CatchesUp == []<>(cursor >= finalized \/ shutdown)

\* The task stops after the cycle it is in.
StopsOnShutdown == shutdown ~> (pc = "stopped" \/ ~shutdown)

=============================================================================
