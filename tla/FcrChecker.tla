------------------------------ MODULE FcrChecker ------------------------------
(***************************************************************************)
(* Revalidation of the rows a chain in fcr mode stores from safe blocks:   *)
(* an indexer that stores logs of blocks that may still be reorganised,    *)
(* the sender that deletes settled rows under the checker, and the         *)
(* FcrChecker that compares the stored hash with the canonical one once    *)
(* the block is finalized.  One chain; an action ends where the code       *)
(* awaits.  Which blocks a node calls safe is left open: any may be read.  *)
(***************************************************************************)
EXTENDS Chain

CONSTANTS
    Modes,           \* what a start may settle on: "block-finality", "fcr"
    Pruned,          \* blocks no provider can produce
    MaxRestarts,     \* bound: crashes or restarts of the process
    Faults           \* the failures the environment may inject

\* rpc: a call to the finality source or a lookup fails; db: a statement or
\* the COMMIT fails and the transaction rolls back; lostack: the COMMIT took
\* effect and its reply is lost; insert: an INSERT fails; slowinsert: one takes
\* longer than its block needs to finalize.
FaultKinds == {"rpc", "db", "lostack", "insert", "slowinsert"}

ASSUME ModeAssumption == Modes \subseteq {"block-finality", "fcr"}
ASSUME PrunedAssumption == Pruned \subseteq Blocks
ASSUME RestartAssumption == MaxRestarts \in Nat
ASSUME FaultAssumption == Faults \subseteq FaultKinds

VARIABLES
    status,          \* event_logs.fcr_status; "final" for NULL, "absent" for no row
    logBlock,        \* event_logs.block_number and block_hash
    fetched,         \* the blocks of logs got from the provider, not inserted yet
    alerts,          \* rows of fcr_false_positives, per event log and block
    pc, bound,       \* checker: program counter, finalized block of the cycle
    todo, block,     \* checker: pairs still to visit, the pair in hand
    affected,        \* checker: rows its open transaction selected FOR UPDATE
    mode,            \* the mode of this process lifetime
    shutdown, restarts

chainVars == <<canon, place, finalized, reorgs>>
tableVars == <<status, logBlock, alerts>>
checkerVars == <<pc, bound, todo, block, affected>>
lifeVars == <<mode, shutdown, restarts>>
vars == <<chainVars, tableVars, fetched, checkerVars, lifeVars>>

ForkBlocks == Blocks \X Hashes

-----------------------------------------------------------------------------
(***************************************************************************)
(* The chain.  Finality is final; everything above may be replaced.        *)
(***************************************************************************)
Reorg ==
    /\ \E from \in Blocks : ReplaceFrom(from)
    /\ UNCHANGED <<tableVars, fetched, checkerVars, lifeVars>>

Finalize ==
    /\ finalized < MaxBlock /\ finalized' = finalized + 1
    /\ "slowinsert" \in Faults
       \/ \A l \in Log : fetched[l] # NoBlock => fetched[l][1] # finalized'
    /\ UNCHANGED <<canon, place, reorgs, tableVars, fetched, checkerVars, lifeVars>>

-----------------------------------------------------------------------------
(***************************************************************************)
(* The other users of the table: the indexers of the chain, whose logs     *)
(* carry the block they were read from, and the sender.                    *)
(***************************************************************************)
Readable(l) == 0 < place[l] /\ (mode = "fcr" \/ place[l] <= finalized)

\* One eth_getLogs; a log may be read again after a restart, or because it was
\* included again.
Fetch(logs) ==
    /\ \A l \in logs : fetched[l] = NoBlock /\ Readable(l)
    /\ fetched' = [l \in Log |-> IF l \in logs THEN BlockOf(l) ELSE fetched[l]]
    /\ UNCHANGED <<chainVars, tableVars, checkerVars, lifeVars>>

Inserted(l) == fetched' = [fetched EXCEPT ![l] = NoBlock]

\* In fcr mode a row enters the revalidation lifecycle.
NewStatus == IF mode = "fcr" THEN "pending" ELSE "final"

InsertWithoutHash(l) ==    \* mutant: block_number and block_hash stay NULL
    /\ fetched[l] # NoBlock /\ Inserted(l)
    /\ status' = [status EXCEPT ![l] = IF @ = "absent" THEN NewStatus ELSE @]
    /\ UNCHANGED <<chainVars, logBlock, alerts, checkerVars, lifeVars>>

\* INSERT ... ON CONFLICT (transaction_hash, log_index) DO NOTHING
InsertRow(l) ==
    /\ fetched[l] # NoBlock /\ Inserted(l)
    /\ IF status[l] = "absent"
       THEN /\ status' = [status EXCEPT ![l] = NewStatus]
            /\ logBlock' = [logBlock EXCEPT ![l] = fetched[l]]
       ELSE UNCHANGED <<status, logBlock>>
    /\ UNCHANGED <<chainVars, alerts, checkerVars, lifeVars>>

\* An error is only logged.
InsertFails(l) ==
    /\ "insert" \in Faults /\ fetched[l] # NoBlock /\ Inserted(l)
    /\ UNCHANGED <<chainVars, tableVars, checkerVars, lifeVars>>

\* The sender settles the message; it waits for the lock of the checker only.
DeleteRow(l) ==
    /\ status[l] # "absent" /\ l \notin affected
    /\ status' = [status EXCEPT ![l] = "absent"]
    /\ logBlock' = [logBlock EXCEPT ![l] = NoBlock]
    /\ UNCHANGED <<chainVars, alerts, fetched, checkerVars, lifeVars>>

-----------------------------------------------------------------------------
(***************************************************************************)
(* FcrChecker::start and check_chain.                                      *)
(***************************************************************************)
EndCycle ==
    pc' = "sleep" /\ todo' = {} /\ block' = NoBlock /\ affected' = {}

ResolveFinalized ==
    /\ pc = "start"
    /\ bound' = finalized /\ pc' = "query"
    /\ UNCHANGED <<chainVars, tableVars, fetched, todo, block, affected, lifeVars>>

PendingBlocks ==
    {logBlock[l] : l \in {k \in Log : status[k] = "pending" /\ logBlock[k][1] <= bound}}

\* report_backlog reads only; an empty selection ends the cycle.
QueryPending ==
    /\ pc = "query"
    /\ todo' = PendingBlocks
    /\ pc' = IF PendingBlocks = {} THEN "sleep" ELSE "next"
    /\ UNCHANGED <<chainVars, tableVars, fetched, bound, block, affected, lifeVars>>

\* ORDER BY block_number: forks at one number come in any order.
First(pair) == pair \in todo /\ \A other \in todo : pair[1] <= other[1]

\* get_canonical_block_hash answers; the pair is compared with it.
VerdictFor(pair) ==
    /\ First(pair) /\ pair[1] \notin Pruned
    /\ todo' = todo \ {pair} /\ block' = pair
    /\ pc' = IF canon[pair[1]] = pair[2] THEN "confirm" ELSE "begin"

LookUp ==
    /\ pc = "next"
    /\ \E pair \in todo : VerdictFor(pair)
    /\ UNCHANGED <<chainVars, tableVars, fetched, bound, affected, lifeVars>>

\* Mutant: an unavailable block ends the cycle.
UnavailableEndsCycle ==
    /\ pc = "next"
    /\ \E pair \in todo : First(pair) /\ (pair[1] \in Pruned \/ "rpc" \in Faults)
    /\ EndCycle
    /\ UNCHANGED <<chainVars, tableVars, fetched, bound, lifeVars>>

\* No provider produces the block: it stays pending, the next one is visited.
Unavailable ==
    /\ pc = "next"
    /\ \E pair \in todo :
          /\ First(pair) /\ (pair[1] \in Pruned \/ "rpc" \in Faults)
          /\ todo' = todo \ {pair}
    /\ UNCHANGED <<chainVars, tableVars, fetched, pc, bound, block, affected,
                   lifeVars>>

Finished ==
    /\ pc = "next" /\ todo = {}
    /\ EndCycle
    /\ UNCHANGED <<chainVars, tableVars, fetched, bound, lifeVars>>

AnyHashAtBlock ==    \* mutant: AND block_hash = $3 is missing
    {l \in Log : status[l] = "pending" /\ logBlock[l][1] = block[1]}

\* The rows WHERE fcr_status = 'pending' AND block_number = $2 AND block_hash = $3
PendingRows ==
    {l \in Log : status[l] = "pending" /\ logBlock[l] = block}

SetStatus(rows, value) ==
    status' = [l \in Log |-> IF l \in rows THEN value ELSE status[l]]

MarkConfirmed ==
    /\ pc = "confirm"
    /\ SetStatus(PendingRows, "confirmed")
    /\ pc' = "next"
    /\ UNCHANGED <<chainVars, logBlock, alerts, fetched, bound, todo, block,
                   affected, lifeVars>>

\* record_false_positive: BEGIN and SELECT ... FOR UPDATE.
SelectAffected ==
    /\ pc = "begin"
    /\ affected' = PendingRows
    /\ pc' = "record"
    /\ UNCHANGED <<chainVars, tableVars, fetched, bound, todo, block, lifeVars>>

AddAlerts(rows) ==
    alerts' = [l \in Log |-> IF l \in rows THEN [alerts[l] EXCEPT ![block] = @ + 1]
                             ELSE alerts[l]]

\* Mutants: the audit rows or the status update are outside the transaction.
AuditFirst ==
    /\ pc = "record"
    /\ \/ AddAlerts(affected) /\ "db" \in Faults /\ UNCHANGED status /\ EndCycle
       \/ /\ AddAlerts(affected) /\ SetStatus(PendingRows, "reverted")
          /\ pc' = "next" /\ affected' = {} /\ UNCHANGED <<todo, block>>
    /\ UNCHANGED <<chainVars, logBlock, fetched, bound, lifeVars>>
StatusFirst ==
    /\ pc = "record"
    /\ \/ UNCHANGED alerts /\ "db" \in Faults /\ EndCycle
       \/ /\ AddAlerts(affected)
          /\ pc' = "next" /\ affected' = {} /\ UNCHANGED <<todo, block>>
    /\ SetStatus(PendingRows, "reverted")
    /\ UNCHANGED <<chainVars, logBlock, fetched, bound, lifeVars>>

\* An INSERT into fcr_false_positives per selected row, the UPDATE over whatever
\* matches by then, and the COMMIT that makes both visible.
RecordFalsePositive ==
    /\ pc = "record"
    /\ AddAlerts(affected)
    /\ SetStatus(PendingRows, "reverted")
    /\ \/ pc' = "next" /\ affected' = {} /\ UNCHANGED <<todo, block>>
       \/ "lostack" \in Faults /\ EndCycle
    /\ UNCHANGED <<chainVars, logBlock, fetched, bound, lifeVars>>

\* An error that `?' propagates ends the cycle; an open transaction rolls back.
CycleFails ==
    /\ \/ pc = "start" /\ "rpc" \in Faults
       \/ pc \in {"query", "confirm", "begin", "record"} /\ "db" \in Faults
    /\ EndCycle
    /\ UNCHANGED <<chainVars, tableVars, fetched, bound, lifeVars>>

WakeAlways ==    \* mutant: the shutdown branch is missing
    /\ pc = "sleep" /\ pc' = "start"
    /\ UNCHANGED <<chainVars, tableVars, fetched, bound, todo, block, affected,
                   lifeVars>>

\* The select! between the check interval and the shutdown signal.
SleepOrStop ==
    /\ pc = "sleep"
    /\ pc' = IF shutdown THEN "stopped" ELSE "start"
    /\ UNCHANGED <<chainVars, tableVars, fetched, bound, todo, block, affected,
                   lifeVars>>

-----------------------------------------------------------------------------
Shutdown ==
    /\ ~shutdown /\ shutdown' = TRUE
    /\ UNCHANGED <<chainVars, tableVars, fetched, checkerVars, mode, restarts>>

\* The task ends at once when no chain is in fcr mode.
FirstPc(m) == IF m = "fcr" THEN "start" ELSE "stopped"

\* The process dies at any point, or has stopped, and starts again.
Restart ==
    /\ restarts < MaxRestarts /\ restarts' = restarts + 1
    /\ mode' \in Modes /\ pc' = FirstPc(mode')
    /\ bound' = 0 /\ todo' = {} /\ block' = NoBlock /\ affected' = {}
    /\ shutdown' = FALSE /\ fetched' = [l \in Log |-> NoBlock]
    /\ UNCHANGED <<chainVars, tableVars>>

Init ==
    /\ ChainInit /\ finalized = 0
    /\ status = [l \in Log |-> "absent"] /\ logBlock = [l \in Log |-> NoBlock]
    /\ alerts = [l \in Log |-> [pair \in ForkBlocks |-> 0]]
    /\ fetched = [l \in Log |-> NoBlock]
    /\ mode \in Modes /\ pc = FirstPc(mode)
    /\ bound = 0 /\ todo = {} /\ block = NoBlock /\ affected = {}
    /\ shutdown = FALSE /\ restarts = 0

CheckerStep ==
    \/ ResolveFinalized \/ QueryPending \/ LookUp \/ Unavailable \/ Finished
    \/ MarkConfirmed \/ SelectAffected \/ RecordFalsePositive \/ CycleFails
    \/ SleepOrStop

Next ==
    \/ CheckerStep
    \/ \E logs \in SUBSET Log : logs # {} /\ Fetch(logs)
    \/ \E l \in Log : InsertRow(l) \/ InsertFails(l) \/ DeleteRow(l)
    \/ Reorg \/ Finalize \/ Shutdown \/ Restart

Spec == Init /\ [][Next]_vars

\* The task is polled whenever it can run, and a call or a statement that is
\* tried again and again succeeds in the end, on the blocks the providers have.
Fairness ==
    /\ WF_vars(CheckerStep)
    /\ SF_vars(ResolveFinalized) /\ SF_vars(QueryPending)
    /\ \A pair \in ForkBlocks : SF_vars(LookUp /\ block' = pair)
    /\ SF_vars(MarkConfirmed) /\ SF_vars(SelectAffected)
    /\ SF_vars(RecordFalsePositive)

FairSpec == Spec /\ Fairness

-----------------------------------------------------------------------------
\* The columns take the values migration 004 lists, and the checker holds a
\* block exactly between its verdict and the statement that settles it.
TypeOK ==
    /\ ChainTypeOK
    /\ status \in [Log -> {"absent", "final", "pending", "confirmed", "reverted"}]
    /\ logBlock \in [Log -> ForkBlocks \cup {NoBlock}]
    /\ fetched \in [Log -> ForkBlocks \cup {NoBlock}]
    /\ alerts \in [Log -> [ForkBlocks -> Nat]]
    /\ pc \in {"start", "query", "next", "confirm", "begin", "record", "sleep",
               "stopped"}
    /\ bound \in 0 .. MaxBlock
    /\ todo \subseteq ForkBlocks
    /\ block \in ForkBlocks \cup {NoBlock}
    /\ affected \subseteq Log
    /\ mode \in Modes /\ shutdown \in BOOLEAN /\ restarts \in 0 .. MaxRestarts
    /\ \A l \in Log : status[l] = "absent" <=> logBlock[l] = NoBlock
    /\ pc \in {"confirm", "begin", "record"} => block # NoBlock
    /\ affected # {} => pc = "record"

\* The verdict in the table is the one the finalized chain gives for good: a
\* confirmed row is canonical, a reverted one is not, whatever was reorganised,
\* deleted, stored again or finalized while the checker was at it.  A row
\* stored in block-finality mode needs no verdict: it is on that chain.
VerdictMatchesChain ==
    \A l \in Log :
        /\ status[l] \in {"final", "confirmed", "reverted"} => logBlock[l][1] <= finalized
        /\ status[l] \in {"final", "confirmed"} => Canonical(logBlock[l])
        /\ status[l] = "reverted" => ~Canonical(logBlock[l])

\* "An alert can never be lost while the rows are quietly marked resolved"
\* (record_false_positive): every reverted row has its audit row.
NoLostAlert ==
    \A l \in Log : status[l] = "reverted" => alerts[l][logBlock[l]] > 0

\* One audit row per affected event log (migration 004), also when cycles fail
\* half way, replies get lost and the process restarts; none for a block that
\* is on the finalized chain.
OneAlertPerFalsePositive ==
    \A l \in Log, pair \in ForkBlocks :
        /\ alerts[l][pair] <= 1
        /\ alerts[l][pair] > 0 => pair[1] <= finalized /\ ~Canonical(pair)

\* A row whose block is finalized gets its verdict unless it is deleted first:
\* failing calls, failing statements and blocks no provider has do not hold up
\* the rest.
FinalizedRowIsChecked ==
    \A l \in Log, b \in Blocks \ Pruned :
        (status[l] = "pending" /\ logBlock[l][1] = b /\ b <= finalized)
            ~> (status[l] # "pending" \/ logBlock[l][1] # b \/ shutdown
                \/ mode = "block-finality")

\* The task stops after the cycle it is in.
StopsOnShutdown == shutdown ~> (pc = "stopped" \/ ~shutdown)

=============================================================================
