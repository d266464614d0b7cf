--------------------------- MODULE FcrCheckerProofs ---------------------------
(***************************************************************************)
(* Theorems about FcrChecker, for every chain, set of logs and number of   *)
(* reorganisations and restarts: types, verdicts, and the audit trail.     *)
(***************************************************************************)
EXTENDS FcrChecker, TLAPS

\* Cites every assumption on the constants.
LEMMA ConstantsTyped ==
    /\ MaxBlock \in Nat /\ Height \in [Log -> 1 .. MaxBlock]
    /\ MaxReorgs \in Nat /\ MaxRestarts \in Nat
BY BlockAssumption, HeightAssumption, ReorgAssumption, RestartAssumption DEF Blocks

\* Counting one more occurrence keeps a function of counters one.
LEMMA CountOne ==
    ASSUME NEW S, NEW f \in [S -> Nat], NEW x
    PROVE  [f EXCEPT ![x] = @ + 1] \in [S -> Nat]
<1> DEFINE g == [f EXCEPT ![x] = @ + 1]
<1>1. g = [y \in S |-> IF y = x THEN f[x] + 1 ELSE f[y]]
  OBVIOUS
<1>2. ASSUME NEW y \in S PROVE (IF y = x THEN f[x] + 1 ELSE f[y]) \in Nat
  OBVIOUS
<1> HIDE DEF g
<1>3. g \in [S -> Nat]
  BY <1>1, <1>2
<1> QED
  BY <1>3 DEF g

\* The pair of a block is never the placeholder for none.
LEMMA NoBlockIsNoForkBlock == NoBlock \notin ForkBlocks
BY ConstantsTyped DEF NoBlock, ForkBlocks, Blocks, Hashes

\* A log on the chain is in a block of the chain, which is the canonical one.
LEMMA BlockOfIsCanonical ==
    ASSUME ChainTypeOK, NEW l \in Log, 0 < place[l]
    PROVE  /\ BlockOf(l) \in ForkBlocks /\ BlockOf(l)[1] = place[l]
           /\ Canonical(BlockOf(l))
BY ConstantsTyped DEF ChainTypeOK, BlockOf, ForkBlocks, Blocks, Canonical

-----------------------------------------------------------------------------
\* Every state has the types that TypeOK states of the table and of
\* fcr_checker.rs.
THEOREM TypeCorrect == Spec => []TypeOK
<1> USE ConstantsTyped, NoBlockIsNoForkBlock
<1>1. Init => TypeOK
  <2> SUFFICES ASSUME Init PROVE TypeOK
    OBVIOUS
  <2>1. shutdown \in BOOLEAN
    BY Zenon DEF Init
  <2>2. alerts \in [Log -> [ForkBlocks -> Nat]]
    BY DEF Init
  <2>3. ChainTypeOK
    BY DEF Init, ChainInit, ChainTypeOK, Blocks, Hashes
  <2> QED
    BY <2>1, <2>2, <2>3 DEF Init, TypeOK, FirstPc
<1>2. TypeOK /\ [Next]_vars => TypeOK'
  <2> SUFFICES ASSUME TypeOK, [Next]_vars PROVE TypeOK'
    OBVIOUS
  <2> USE DEF ChainTypeOK, lifeVars
  <2>1. CASE ResolveFinalized
    BY <2>1 DEF TypeOK, ResolveFinalized, chainVars, tableVars
  <2>2. CASE QueryPending
    <3>1. PendingBlocks \subseteq ForkBlocks
      BY DEF TypeOK, PendingBlocks
    <3> QED
      BY <2>2, <3>1 DEF TypeOK, QueryPending, chainVars, tableVars
  <2>3. CASE LookUp
    <3>1. PICK pair \in todo : todo' = todo \ {pair} /\ block' = pair
      BY <2>3 DEF LookUp, VerdictFor
    <3>2. pair \in ForkBlocks /\ pair # NoBlock
      BY <3>1 DEF TypeOK
    <3>3. affected = {} /\ affected' = {} /\ pc' \in {"confirm", "begin"}
      BY <2>3 DEF TypeOK, LookUp, VerdictFor
    <3> QED
      BY <2>3, <3>1, <3>2, <3>3 DEF TypeOK, LookUp, chainVars, tableVars
  <2>4. CASE Unavailable
    BY <2>4 DEF TypeOK, Unavailable, chainVars, tableVars
  <2>5. CASE Finished \/ CycleFails
    BY <2>5 DEF TypeOK, Finished, CycleFails, EndCycle, chainVars, tableVars
  <2>6. CASE MarkConfirmed
    BY <2>6 DEF TypeOK, MarkConfirmed, SetStatus, PendingRows, chainVars
  <2>7. CASE SelectAffected
    BY <2>7 DEF TypeOK, SelectAffected, PendingRows, chainVars, tableVars
  <2>8. CASE RecordFalsePositive
    <3>1. alerts' \in [Log -> [ForkBlocks -> Nat]]
      <4>1. alerts' = [l \in Log |-> IF l \in affected
                                     THEN [alerts[l] EXCEPT ![block] = @ + 1]
                                     ELSE alerts[l]]
        BY <2>8 DEF RecordFalsePositive, AddAlerts
      <4>2. ASSUME NEW l \in Log PROVE alerts'[l] \in [ForkBlocks -> Nat]
        <5>1. alerts[l] \in [ForkBlocks -> Nat]
          BY DEF TypeOK
        <5>2. [alerts[l] EXCEPT ![block] = @ + 1] \in [ForkBlocks -> Nat]
          BY <5>1, CountOne
        <5>3. \/ alerts'[l] = alerts[l]
              \/ alerts'[l] = [alerts[l] EXCEPT ![block] = @ + 1]
          BY <4>1
        <5> QED
          BY <5>1, <5>2, <5>3
      <4> QED
        BY <4>1, <4>2
    <3> QED
      BY <2>8, <3>1 DEF TypeOK, RecordFalsePositive, SetStatus, PendingRows, EndCycle,
                        chainVars
  <2>9. CASE SleepOrStop
    BY <2>9 DEF TypeOK, SleepOrStop, chainVars, tableVars
  <2>10. ASSUME NEW logs \in SUBSET Log, Fetch(logs) PROVE TypeOK'
    <3>1. \A l \in logs : BlockOf(l) \in ForkBlocks
      BY <2>10, BlockOfIsCanonical DEF Fetch, Readable, TypeOK
    <3>2. fetched' \in [Log -> ForkBlocks \cup {NoBlock}]
      BY <2>10, <3>1 DEF Fetch, TypeOK
    <3> QED
      BY <2>10, <3>2 DEF TypeOK, Fetch, chainVars, tableVars, checkerVars
  <2>11. ASSUME NEW l \in Log, InsertRow(l) PROVE TypeOK'
    <3>1. fetched[l] \in ForkBlocks
      BY <2>11 DEF InsertRow, TypeOK
    <3>2. NewStatus \in {"pending", "final"}
      BY DEF NewStatus
    <3>3. fetched' \in [Log -> ForkBlocks \cup {NoBlock}]
      BY <2>11 DEF InsertRow, Inserted, TypeOK
    <3>4. /\ UNCHANGED <<chainVars, alerts, checkerVars, mode, shutdown, restarts>>
          /\ \A k \in Log : status'[k] = "absent" <=> logBlock'[k] = NoBlock
          /\ status' \in [Log -> {"absent", "final", "pending", "confirmed", "reverted"}]
          /\ logBlock' \in [Log -> ForkBlocks \cup {NoBlock}]
      BY <2>11, <3>1, <3>2 DEF TypeOK, InsertRow
    <3> QED
      BY <3>3, <3>4 DEF TypeOK, chainVars, checkerVars
  <2>12. ASSUME NEW l \in Log, InsertFails(l) PROVE TypeOK'
    BY <2>12 DEF TypeOK, InsertFails, Inserted, chainVars, tableVars, checkerVars
  <2>13. ASSUME NEW l \in Log, DeleteRow(l) PROVE TypeOK'
    BY <2>13 DEF TypeOK, DeleteRow, chainVars, checkerVars
  <2>14. CASE Reorg
    <3>1. PICK from \in Blocks : ReplaceFrom(from)
      BY <2>14 DEF Reorg
    <3>2. reorgs' \in 0 .. MaxReorgs /\ canon' \in [Blocks -> Hashes]
      BY <3>1 DEF TypeOK, ReplaceFrom, Hashes
    <3> QED
      BY <2>14, <3>1, <3>2 DEF TypeOK, Reorg, ReplaceFrom, tableVars, checkerVars
  <2>15. CASE Finalize
    BY <2>15 DEF TypeOK, Finalize, tableVars, checkerVars
  <2>16. CASE Shutdown
    BY <2>16 DEF TypeOK, Shutdown, chainVars, tableVars, checkerVars
  <2>17. CASE Restart
    <3>1. shutdown' \in BOOLEAN
      BY <2>17, Zenon DEF Restart
    <3>2. UNCHANGED <<canon, place, finalized, reorgs, status, logBlock, alerts>>
      BY <2>17 DEF Restart, chainVars, tableVars
    <3>3. fetched' \in [Log -> ForkBlocks \cup {NoBlock}] /\ mode' \in Modes
      BY <2>17 DEF Restart
    <3>4. /\ pc' \in {"start", "stopped"} /\ block' = NoBlock
          /\ affected' = {} /\ todo' = {}
      BY <2>17 DEF Restart, FirstPc
    <3>5. bound' \in 0 .. MaxBlock /\ restarts' \in 0 .. MaxRestarts
      BY <2>17 DEF TypeOK, Restart
    <3> QED
      BY <3>1, <3>2, <3>3, <3>4, <3>5 DEF TypeOK
  <2>18. CASE UNCHANGED vars
    BY <2>18 DEF TypeOK, vars, chainVars, tableVars, checkerVars
  <2> QED
    BY <2>1, <2>2, <2>3, <2>4, <2>5, <2>6, <2>7, <2>8, <2>9, <2>10, <2>11,
       <2>12, <2>13, <2>14, <2>15, <2>16, <2>17, <2>18 DEF Next, CheckerStep
<1> QED
  BY <1>1, <1>2, PTL DEF Spec

-----------------------------------------------------------------------------
\* Finality is final: no step takes back a finalized block or replaces one.
LEMMA FinalityHolds ==
    ASSUME TypeOK, [Next]_vars
    PROVE  /\ finalized \in Nat /\ finalized' \in Nat /\ finalized <= finalized'
           /\ \A b \in Blocks : b <= finalized => canon'[b] = canon[b]
<1>1. CASE Reorg
  BY <1>1, ConstantsTyped DEF Reorg, ReplaceFrom, TypeOK, ChainTypeOK, Blocks
<1>2. CASE Finalize
  BY <1>2, ConstantsTyped DEF Finalize, TypeOK, ChainTypeOK
<1>3. CASE ~Reorg /\ ~Finalize
  <2>1. canon' = canon /\ finalized' = finalized
    BY <1>3 DEF Next, CheckerStep, ResolveFinalized, QueryPending, LookUp, Unavailable,
                Finished, MarkConfirmed, SelectAffected, RecordFalsePositive,
                CycleFails, SleepOrStop, Fetch, InsertRow, InsertFails, DeleteRow,
                Shutdown, Restart, vars, chainVars
  <2> QED
    BY <2>1 DEF TypeOK, ChainTypeOK
<1> QED
  BY <1>1, <1>2, <1>3

\* Whether a finalized block is canonical is settled.
LEMMA VerdictIsStable ==
    ASSUME TypeOK, [Next]_vars, NEW pair \in ForkBlocks, pair[1] <= finalized
    PROVE  pair[1] <= finalized' /\ canon'[pair[1]] = canon[pair[1]]
<1>1. pair[1] \in Blocks /\ pair[1] \in Nat
  BY DEF ForkBlocks, Blocks
<1> QED
  BY <1>1, FinalityHolds

\* What the checker has decided stays true while it acts on it: the blocks it
\* visits are finalized, and the verdict on the block in hand is the chain's.
VerdictInHand ==
    /\ bound <= finalized
    /\ \A pair \in todo : pair[1] <= finalized
    /\ pc \in {"confirm", "begin", "record"} => block[1] <= finalized
    /\ pc = "confirm" => Canonical(block)
    /\ pc \in {"begin", "record"} => ~Canonical(block)

LEMMA VerdictInHandInductive == Spec => []VerdictInHand
<1> USE ConstantsTyped
<1>1. Init => VerdictInHand
  BY DEF Init, VerdictInHand, FirstPc
<1>2. TypeOK /\ VerdictInHand /\ [Next]_vars => VerdictInHand'
  <2> SUFFICES ASSUME TypeOK, VerdictInHand, [Next]_vars PROVE VerdictInHand'
    OBVIOUS
  <2> USE DEF Canonical
  <2>1. CASE ResolveFinalized
    BY <2>1 DEF TypeOK, ChainTypeOK, VerdictInHand, ResolveFinalized, chainVars
  <2>2. CASE QueryPending
    <3>1. \A pair \in PendingBlocks : pair[1] <= finalized
      <4> SUFFICES ASSUME NEW l \in Log, status[l] = "pending", logBlock[l][1] <= bound
                   PROVE  logBlock[l][1] <= finalized
        BY DEF PendingBlocks
      <4>1. logBlock[l] \in ForkBlocks
        BY DEF TypeOK
      <4>2. logBlock[l][1] \in Nat /\ bound \in Nat /\ finalized \in Nat
        BY <4>1 DEF TypeOK, ChainTypeOK, ForkBlocks, Blocks
      <4> QED
        BY <4>2 DEF VerdictInHand
    <3> QED
      BY <2>2, <3>1 DEF VerdictInHand, QueryPending, chainVars
  <2>3. CASE LookUp
    BY <2>3 DEF TypeOK, VerdictInHand, LookUp, VerdictFor, First, chainVars
  <2>4. CASE Unavailable
    BY <2>4 DEF VerdictInHand, Unavailable, chainVars
  <2>5. CASE Finished \/ CycleFails
    BY <2>5 DEF VerdictInHand, Finished, CycleFails, EndCycle, chainVars
  <2>6. CASE MarkConfirmed \/ SelectAffected
    BY <2>6 DEF VerdictInHand, MarkConfirmed, SelectAffected, chainVars
  <2>7. CASE RecordFalsePositive
    BY <2>7 DEF VerdictInHand, RecordFalsePositive, EndCycle, chainVars
  <2>8. CASE SleepOrStop
    BY <2>8 DEF VerdictInHand, SleepOrStop, chainVars
  <2>9. CASE Restart
    BY <2>9 DEF TypeOK, ChainTypeOK, VerdictInHand, Restart, FirstPc, chainVars
  <2>10. CASE \/ Reorg \/ Finalize \/ Shutdown \/ UNCHANGED vars
              \/ \E logs \in SUBSET Log : Fetch(logs)
              \/ \E l \in Log : InsertRow(l) \/ InsertFails(l) \/ DeleteRow(l)
    <3>1. UNCHANGED <<pc, bound, todo, block>>
      BY <2>10 DEF Reorg, Finalize, Shutdown, Fetch, InsertRow, InsertFails, DeleteRow,
                   vars, checkerVars
    <3>2. pc \in {"confirm", "begin", "record"} => block \in ForkBlocks
      BY DEF TypeOK
    <3>3. bound' <= finalized'
      <4>1. bound \in Nat /\ bound <= finalized
        BY DEF TypeOK, VerdictInHand
      <4> QED
        BY <3>1, <4>1, FinalityHolds
    <3>4. pc \in {"confirm", "begin", "record"} =>
             block[1] <= finalized' /\ canon'[block[1]] = canon[block[1]]
      BY <3>2, VerdictIsStable DEF VerdictInHand
    <3>5. \A pair \in todo : pair[1] <= finalized'
      BY VerdictIsStable DEF VerdictInHand, TypeOK
    <3> QED
      BY <3>1, <3>3, <3>4, <3>5 DEF VerdictInHand
  <2> QED
    BY <2>1, <2>2, <2>3, <2>4, <2>5, <2>6, <2>7, <2>8, <2>9, <2>10
       DEF Next, CheckerStep
<1> QED
  BY <1>1, <1>2, TypeCorrect, PTL DEF Spec

\* A log that is read in block-finality mode is on the finalized chain.
FinalLogsAreFinal ==
    mode # "fcr" => \A l \in Log : fetched[l] # NoBlock
                        => fetched[l][1] <= finalized /\ Canonical(fetched[l])

LEMMA FinalLogsInductive == Spec => []FinalLogsAreFinal
<1>1. Init => FinalLogsAreFinal
  BY DEF Init, FinalLogsAreFinal
<1>2. TypeOK /\ FinalLogsAreFinal /\ [Next]_vars => FinalLogsAreFinal'
  <2> SUFFICES ASSUME TypeOK, FinalLogsAreFinal, [Next]_vars, mode' # "fcr",
                      NEW l \in Log, fetched'[l] # NoBlock
               PROVE  fetched'[l][1] <= finalized' /\ canon'[fetched'[l][1]] = fetched'[l][2]
    BY DEF FinalLogsAreFinal, Canonical, NoBlock
  <2>1. CASE fetched'[l] = fetched[l] /\ mode' = mode
    <3>1. fetched[l] \in ForkBlocks
      BY <2>1 DEF TypeOK
    <3>2. fetched[l][1] <= finalized /\ Canonical(fetched[l])
      BY <2>1 DEF FinalLogsAreFinal
    <3> QED
      BY <2>1, <3>1, <3>2, VerdictIsStable DEF Canonical
  <2>2. ASSUME NEW logs \in SUBSET Log, Fetch(logs), l \in logs
        PROVE  fetched'[l][1] <= finalized' /\ canon'[fetched'[l][1]] = fetched'[l][2]
    <3>1. /\ fetched'[l] = BlockOf(l) /\ UNCHANGED chainVars /\ Readable(l) /\ mode # "fcr"
      BY <2>2 DEF Fetch, lifeVars
    <3> QED
      BY <3>1, BlockOfIsCanonical DEF Readable, chainVars, Canonical, TypeOK
  <2>3. ASSUME NEW logs \in SUBSET Log, Fetch(logs), l \notin logs
        PROVE  fetched'[l] = fetched[l] /\ mode' = mode
    BY <2>3 DEF Fetch, lifeVars
  <2>4. ASSUME NEW q \in Log, InsertRow(q) \/ InsertFails(q)
        PROVE  fetched'[l] = fetched[l] /\ mode' = mode
    BY <2>4 DEF InsertRow, InsertFails, Inserted, TypeOK, lifeVars
  <2>5. CASE Restart
    BY <2>5 DEF Restart
  <2>6. CASE \/ CheckerStep \/ Reorg \/ Finalize \/ Shutdown \/ UNCHANGED vars
             \/ \E q \in Log : DeleteRow(q)
    BY <2>1, <2>6
       DEF CheckerStep, ResolveFinalized, QueryPending, LookUp, Unavailable, Finished,
           MarkConfirmed, SelectAffected, RecordFalsePositive, CycleFails, SleepOrStop,
           DeleteRow, Reorg, Finalize, Shutdown, vars, lifeVars
  <2> QED
    BY <2>1, <2>2, <2>3, <2>4, <2>5, <2>6 DEF Next
<1> QED
  BY <1>1, <1>2, TypeCorrect, PTL DEF Spec

\* The verdict in the table is the one the finalized chain gives for good,
\* whatever is reorganised, deleted, stored again or finalized while the checker
\* is at it, wherever a cycle fails, and whichever modes the process was started
\* in (check_chain, index_block_range).
THEOREM VerdictsAreTrue == Spec => []VerdictMatchesChain
<1>1. Init => VerdictMatchesChain
  BY DEF Init, VerdictMatchesChain
<1>2. TypeOK /\ VerdictInHand /\ FinalLogsAreFinal /\ VerdictMatchesChain /\ [Next]_vars
      => VerdictMatchesChain'
  <2> SUFFICES ASSUME TypeOK, VerdictInHand, FinalLogsAreFinal, VerdictMatchesChain,
                      [Next]_vars, NEW l \in Log,
                      status'[l] \in {"final", "confirmed", "reverted"}
               PROVE  /\ logBlock'[l][1] <= finalized'
                      /\ status'[l] \in {"final", "confirmed"}
                         => canon'[logBlock'[l][1]] = logBlock'[l][2]
                      /\ status'[l] = "reverted"
                         => canon'[logBlock'[l][1]] # logBlock'[l][2]
    BY DEF VerdictMatchesChain, Canonical
  <2>1. CASE status'[l] = status[l] /\ logBlock'[l] = logBlock[l]
    <3>1. logBlock[l] \in ForkBlocks /\ logBlock[l][1] <= finalized
      BY <2>1 DEF TypeOK, VerdictMatchesChain
    <3> QED
      BY <2>1, <3>1, VerdictIsStable DEF VerdictMatchesChain, Canonical
  <2>2. CASE MarkConfirmed /\ status'[l] # status[l]
    <3>1. /\ logBlock[l] = block /\ status'[l] = "confirmed" /\ logBlock' = logBlock
          /\ UNCHANGED chainVars /\ pc = "confirm"
      BY <2>2 DEF MarkConfirmed, SetStatus, PendingRows
    <3> QED
      BY <3>1 DEF VerdictInHand, Canonical, chainVars
  <2>3. CASE RecordFalsePositive /\ status'[l] # status[l]
    <3>1. /\ logBlock[l] = block /\ status'[l] = "reverted" /\ logBlock' = logBlock
          /\ UNCHANGED chainVars /\ pc = "record"
      BY <2>3 DEF RecordFalsePositive, SetStatus, PendingRows
    <3> QED
      BY <3>1 DEF VerdictInHand, Canonical, chainVars
  <2>4. CASE MarkConfirmed \/ RecordFalsePositive
    BY <2>1, <2>2, <2>3, <2>4 DEF MarkConfirmed, RecordFalsePositive
  <2>5. ASSUME NEW q \in Log, InsertRow(q)
        PROVE  \/ status'[l] = status[l] /\ logBlock'[l] = logBlock[l]
               \/ /\ status'[l] = "final" /\ mode # "fcr" /\ fetched[l] # NoBlock
                  /\ logBlock'[l] = fetched[l] /\ UNCHANGED chainVars
    BY <2>5 DEF InsertRow, NewStatus, TypeOK
  <2>6. CASE \E q \in Log : InsertRow(q)
    <3>1. CASE /\ status'[l] = "final" /\ mode # "fcr" /\ fetched[l] # NoBlock
               /\ logBlock'[l] = fetched[l] /\ UNCHANGED chainVars
      BY <3>1 DEF FinalLogsAreFinal, Canonical, chainVars
    <3> QED
      BY <2>1, <2>5, <2>6, <3>1
  <2>7. ASSUME NEW q \in Log, DeleteRow(q)
        PROVE  status'[l] = status[l] /\ logBlock'[l] = logBlock[l]
    BY <2>7 DEF DeleteRow, TypeOK
  <2>8. CASE ~MarkConfirmed /\ ~RecordFalsePositive
             /\ ~(\E q \in Log : InsertRow(q) \/ DeleteRow(q))
    BY <2>1, <2>8
       DEF Next, CheckerStep, ResolveFinalized, QueryPending, LookUp, Unavailable,
           Finished, SelectAffected, CycleFails, SleepOrStop, Fetch, InsertFails, Reorg,
           Finalize, Shutdown, Restart, vars, tableVars
  <2> QED
    BY <2>1, <2>4, <2>6, <2>7, <2>8
<1> QED
  BY <1>1, <1>2, TypeCorrect, VerdictInHandInductive, FinalLogsInductive, PTL DEF Spec

-----------------------------------------------------------------------------
\* The invariant of the audit trail.  A log is in hand with a block of the chain
\* unless that block is still open; so no row of a false positive can appear
\* while its transaction is open, and none can be stored again later.
SnapshotsAreCurrent ==
    \A l \in Log : fetched[l] # NoBlock /\ fetched[l][1] <= finalized
                   => Canonical(fetched[l])

AffectedArePending == pc = "record" => affected = PendingRows

AlertedIsNotPending ==
    \A l \in Log : status[l] = "pending" => alerts[l][logBlock[l]] = 0

AuditInv ==
    /\ SnapshotsAreCurrent /\ AffectedArePending /\ AlertedIsNotPending
    /\ NoLostAlert /\ OneAlertPerFalsePositive

\* Where an INSERT does not outlast the finalization of its block, a log in hand
\* always carries the hash the chain will keep, once the block is finalized.
LEMMA SnapshotsStayCurrent ==
    ASSUME "slowinsert" \notin Faults, TypeOK, SnapshotsAreCurrent, [Next]_vars
    PROVE  SnapshotsAreCurrent'
<1> SUFFICES ASSUME NEW l \in Log, fetched'[l] # NoBlock, fetched'[l][1] <= finalized'
             PROVE  canon'[fetched'[l][1]] = fetched'[l][2]
  BY DEF SnapshotsAreCurrent, NoBlock, Canonical
<1>1. CASE fetched'[l] = fetched[l] /\ fetched[l][1] <= finalized
  <2>1. fetched[l] \in ForkBlocks
    BY <1>1 DEF TypeOK
  <2> QED
    BY <1>1, <2>1, VerdictIsStable DEF SnapshotsAreCurrent, Canonical
<1>2. ASSUME NEW logs \in SUBSET Log, Fetch(logs)
      PROVE  canon'[fetched'[l][1]] = fetched'[l][2]
  <2>1. CASE l \in logs
    <3>1. fetched'[l] = BlockOf(l) /\ UNCHANGED chainVars /\ Readable(l)
      BY <1>2, <2>1 DEF Fetch
    <3> QED
      BY <3>1, BlockOfIsCanonical DEF Readable, chainVars, Canonical, TypeOK
  <2>2. CASE l \notin logs
    <3>1. fetched'[l] = fetched[l] /\ finalized' = finalized
      BY <1>2, <2>2 DEF Fetch, chainVars
    <3> QED
      BY <1>1, <3>1
  <2> QED
    BY <2>1, <2>2
<1>3. ASSUME NEW q \in Log, InsertRow(q) \/ InsertFails(q)
      PROVE  fetched'[l] = fetched[l] /\ finalized' = finalized
  BY <1>3 DEF InsertRow, InsertFails, Inserted, TypeOK, chainVars
<1>4. CASE Finalize
  <2>1. /\ fetched' = fetched /\ finalized' = finalized + 1
        /\ \A k \in Log : fetched[k] # NoBlock => fetched[k][1] # finalized'
    BY <1>4 DEF Finalize
  <2>2. fetched[l] \in ForkBlocks /\ finalized \in Nat
    BY <2>1 DEF TypeOK, ChainTypeOK
  <2>3. fetched[l][1] \in Nat
    BY <2>2 DEF ForkBlocks, Blocks
  <2> QED
    BY <1>1, <2>1, <2>2, <2>3
<1>5. CASE Restart
  BY <1>5 DEF Restart
<1>6. CASE \/ CheckerStep \/ Reorg \/ Shutdown \/ UNCHANGED vars
           \/ \E q \in Log : DeleteRow(q)
  <2>1. fetched' = fetched /\ finalized' = finalized
    BY <1>6
       DEF CheckerStep, ResolveFinalized, QueryPending, LookUp, Unavailable,
           Finished, MarkConfirmed, SelectAffected, RecordFalsePositive, CycleFails,
           SleepOrStop, DeleteRow, Reorg, ReplaceFrom, Shutdown, vars, chainVars
  <2> QED
    BY <1>1, <2>1
<1> QED
  BY <1>1, <1>2, <1>3, <1>4, <1>5, <1>6 DEF Next

\* The rows selected FOR UPDATE are exactly those the UPDATE of the same
\* transaction will match.
LEMMA AffectedStayPending ==
    ASSUME TypeOK, VerdictInHand, SnapshotsAreCurrent, AffectedArePending, [Next]_vars
    PROVE  AffectedArePending'
<1> SUFFICES ASSUME pc' = "record" PROVE affected' = PendingRows'
  BY DEF AffectedArePending
<1>1. CASE SelectAffected
  BY <1>1 DEF SelectAffected, PendingRows, tableVars
<1>2. ASSUME NEW q \in Log, InsertRow(q) PROVE affected' = PendingRows'
  <2>1. pc = "record" /\ UNCHANGED <<affected, block>>
    BY <1>2 DEF InsertRow, checkerVars
  <2>2. block[1] <= finalized /\ ~Canonical(block)
    BY <2>1 DEF VerdictInHand
  <2>3. fetched[q] # block
    BY <1>2, <2>2 DEF InsertRow, SnapshotsAreCurrent
  <2>4. /\ q \in PendingRows' <=> q \in PendingRows
        /\ \A l \in Log : l # q => status'[l] = status[l] /\ logBlock'[l] = logBlock[l]
    BY <1>2, <2>1, <2>3 DEF InsertRow, PendingRows, TypeOK
  <2>5. PendingRows' = PendingRows
    BY <2>1, <2>4 DEF PendingRows
  <2> QED
    BY <2>1, <2>5 DEF AffectedArePending
<1>3. ASSUME NEW q \in Log, DeleteRow(q) PROVE affected' = PendingRows'
  <2>1. pc = "record" /\ affected' = affected /\ block' = block /\ q \notin PendingRows
    BY <1>3 DEF DeleteRow, checkerVars, AffectedArePending
  <2>2. status'[q] = "absent"
        /\ \A l \in Log : l # q => status'[l] = status[l] /\ logBlock'[l] = logBlock[l]
    BY <1>3 DEF DeleteRow, TypeOK
  <2>3. PendingRows' = PendingRows
    BY <2>1, <2>2 DEF PendingRows
  <2> QED
    BY <2>1, <2>3 DEF AffectedArePending
<1>4. CASE \/ Reorg \/ Finalize \/ Shutdown \/ UNCHANGED vars
           \/ \E logs \in SUBSET Log : Fetch(logs)
           \/ \E q \in Log : InsertFails(q)
  <2>1. UNCHANGED <<pc, affected, block, status, logBlock>>
    BY <1>4 DEF Reorg, Finalize, Shutdown, Fetch, InsertFails, vars, checkerVars, tableVars
  <2> QED
    BY <2>1 DEF AffectedArePending, PendingRows
<1> QED
  BY <1>1, <1>2, <1>3, <1>4
     DEF Next, CheckerStep, ResolveFinalized, QueryPending, LookUp, VerdictFor,
         Unavailable, Finished, MarkConfirmed, RecordFalsePositive, CycleFails,
         EndCycle, SleepOrStop, Restart, FirstPc

\* A step that leaves the table and its audit rows alone leaves the audit trail
\* complete: finality protects what was recorded.
LEMMA AuditUnchanged ==
    ASSUME TypeOK, [Next]_vars, UNCHANGED tableVars,
           AlertedIsNotPending, NoLostAlert, OneAlertPerFalsePositive
    PROVE  AlertedIsNotPending' /\ NoLostAlert' /\ OneAlertPerFalsePositive'
<1>1. status' = status /\ logBlock' = logBlock /\ alerts' = alerts
  BY DEF tableVars
<1>2. AlertedIsNotPending' /\ NoLostAlert'
  BY <1>1 DEF AlertedIsNotPending, NoLostAlert
<1>3. ASSUME NEW l \in Log, NEW pair \in ForkBlocks
      PROVE  /\ alerts'[l][pair] <= 1
             /\ alerts'[l][pair] > 0 => pair[1] <= finalized' /\ canon'[pair[1]] # pair[2]
  BY <1>1, VerdictIsStable DEF OneAlertPerFalsePositive, Canonical
<1> QED
  BY <1>2, <1>3 DEF OneAlertPerFalsePositive, Canonical

\* The transaction of record_false_positive leaves the audit trail complete.
LEMMA RecordKeepsAudit ==
    ASSUME TypeOK, VerdictInHand, AuditInv, RecordFalsePositive
    PROVE  AlertedIsNotPending' /\ NoLostAlert' /\ OneAlertPerFalsePositive'
<1>1. /\ pc = "record" /\ affected = PendingRows /\ logBlock' = logBlock
      /\ canon' = canon /\ finalized' = finalized
      /\ block[1] <= finalized /\ canon[block[1]] # block[2]
      /\ status' = [l \in Log |-> IF l \in PendingRows THEN "reverted" ELSE status[l]]
      /\ alerts' = [l \in Log |-> IF l \in PendingRows
                                  THEN [alerts[l] EXCEPT ![block] = @ + 1]
                                  ELSE alerts[l]]
  BY DEF RecordFalsePositive, SetStatus, AddAlerts, AuditInv, AffectedArePending,
         VerdictInHand, Canonical, chainVars
<1>1a. logBlock' = logBlock /\ canon' = canon /\ finalized' = finalized
      /\ block[1] <= finalized /\ canon[block[1]] # block[2]
  BY <1>1
<1>2. ASSUME NEW l \in Log, l \notin PendingRows
      PROVE  status'[l] = status[l] /\ alerts'[l] = alerts[l]
  BY <1>1, <1>2
<1>3. ASSUME NEW l \in PendingRows
      PROVE  /\ l \in Log /\ status'[l] = "reverted" /\ logBlock[l] = block
             /\ alerts'[l][block] = 1
             /\ \A pair \in ForkBlocks : pair # block => alerts'[l][pair] = alerts[l][pair]
  <2>1. /\ l \in Log /\ status[l] = "pending" /\ logBlock[l] = block
    BY DEF PendingRows
  <2>2. block \in ForkBlocks /\ alerts[l][block] = 0
    BY <2>1 DEF TypeOK, AuditInv, AlertedIsNotPending
  <2>3. alerts[l] \in [ForkBlocks -> Nat]
    BY <2>1 DEF TypeOK
  <2>4. alerts'[l] = [alerts[l] EXCEPT ![block] = @ + 1]
    BY <1>1, <2>1
  <2>5. alerts'[l][block] = 1
    BY <2>2, <2>3, <2>4
  <2>6. ASSUME NEW pair \in ForkBlocks, pair # block
        PROVE  alerts'[l][pair] = alerts[l][pair]
    BY <2>3, <2>4, <2>6
  <2> QED
    BY <1>1, <2>1, <2>5, <2>6
<1>4. NoLostAlert'
  <2> SUFFICES ASSUME NEW l \in Log, status'[l] = "reverted"
               PROVE  alerts'[l][logBlock'[l]] > 0
    BY DEF NoLostAlert
  <2>1. CASE l \in PendingRows
    BY <1>1a, <1>3, <2>1
  <2>2. CASE l \notin PendingRows
    BY <1>1a, <1>2, <2>2 DEF AuditInv, NoLostAlert
  <2> QED
    BY <2>1, <2>2
<1>5. AlertedIsNotPending'
  BY <1>1a, <1>2, <1>3 DEF AuditInv, AlertedIsNotPending
<1>6. OneAlertPerFalsePositive'
  <2> SUFFICES ASSUME NEW l \in Log, NEW pair \in ForkBlocks
               PROVE  /\ alerts'[l][pair] <= 1
                      /\ alerts'[l][pair] > 0
                         => pair[1] <= finalized /\ canon[pair[1]] # pair[2]
    BY <1>1a DEF OneAlertPerFalsePositive, Canonical
  <2>1. CASE l \in PendingRows /\ pair = block
    BY <1>1a, <1>3, <2>1
  <2>2. CASE ~(l \in PendingRows /\ pair = block)
    <3>1. alerts'[l][pair] = alerts[l][pair]
      BY <1>2, <1>3, <2>2
    <3> QED
      BY <3>1 DEF AuditInv, OneAlertPerFalsePositive, Canonical
  <2> QED
    BY <2>1, <2>2
<1> QED
  BY <1>4, <1>5, <1>6

\* Where an INSERT does not outlast the finalization of its block, the audit
\* invariant holds in every state.
THEOREM AuditInvariant ==
    ASSUME "slowinsert" \notin Faults
    PROVE  Spec => []AuditInv
<1>1. Init => AuditInv
  BY DEF Init, AuditInv, SnapshotsAreCurrent, AffectedArePending, AlertedIsNotPending,
         NoLostAlert, OneAlertPerFalsePositive, FirstPc
<1>2. TypeOK /\ VerdictInHand /\ AuditInv /\ [Next]_vars => AuditInv'
  <2> SUFFICES ASSUME TypeOK, VerdictInHand, AuditInv, [Next]_vars PROVE AuditInv'
    OBVIOUS
  <2>1. SnapshotsAreCurrent'
    BY SnapshotsStayCurrent DEF AuditInv
  <2>2. AffectedArePending'
    BY AffectedStayPending DEF AuditInv
  <2>3. AlertedIsNotPending' /\ NoLostAlert' /\ OneAlertPerFalsePositive'
    <3> USE DEF Canonical
    <3>1. CASE UNCHANGED tableVars
      BY <3>1, AuditUnchanged DEF AuditInv
    <3>2. CASE RecordFalsePositive
      BY <3>2, RecordKeepsAudit
    <3>3. CASE MarkConfirmed
      <4>1. /\ UNCHANGED <<logBlock, alerts, canon, finalized>>
            /\ \A l \in Log : status'[l] = status[l] \/ status'[l] = "confirmed"
        BY <3>3 DEF MarkConfirmed, SetStatus, chainVars
      <4> QED
        BY <4>1 DEF AuditInv, AlertedIsNotPending, NoLostAlert, OneAlertPerFalsePositive
    <3>4. ASSUME NEW q \in Log, DeleteRow(q)
          PROVE  AlertedIsNotPending' /\ NoLostAlert' /\ OneAlertPerFalsePositive'
      <4>1. /\ UNCHANGED <<alerts, canon, finalized>> /\ status'[q] = "absent"
            /\ \A l \in Log : l # q => status'[l] = status[l] /\ logBlock'[l] = logBlock[l]
        BY <3>4 DEF DeleteRow, TypeOK, chainVars
      <4> QED
        BY <4>1 DEF AuditInv, AlertedIsNotPending, NoLostAlert, OneAlertPerFalsePositive
    <3>5. ASSUME NEW q \in Log, InsertRow(q), status[q] = "absent"
          PROVE  AlertedIsNotPending' /\ NoLostAlert' /\ OneAlertPerFalsePositive'
      <4>1. /\ UNCHANGED <<alerts, canon, finalized>>
            /\ status'[q] \in {"pending", "final"} /\ logBlock'[q] = fetched[q]
            /\ \A l \in Log : l # q => status'[l] = status[l] /\ logBlock'[l] = logBlock[l]
        BY <3>5 DEF InsertRow, NewStatus, TypeOK, chainVars
      <4>2. alerts[q][fetched[q]] = 0
        <5>1. fetched[q] \in ForkBlocks /\ alerts[q][fetched[q]] \in Nat
          BY <3>5 DEF InsertRow, TypeOK
        <5>2. ~(alerts[q][fetched[q]] > 0)
          BY <3>5, <5>1 DEF InsertRow, AuditInv, OneAlertPerFalsePositive,
                            SnapshotsAreCurrent
        <5> QED
          BY <5>1, <5>2
      <4> QED
        BY <4>1, <4>2
           DEF AuditInv, AlertedIsNotPending, NoLostAlert, OneAlertPerFalsePositive
    <3>6. ASSUME NEW q \in Log, InsertRow(q), status[q] # "absent"
          PROVE  UNCHANGED tableVars
      BY <3>6 DEF InsertRow, tableVars
    <3> QED
      BY <3>1, <3>2, <3>3, <3>4, <3>5, <3>6
         DEF Next, CheckerStep, ResolveFinalized, QueryPending, LookUp, Unavailable,
             Finished, SelectAffected, CycleFails, SleepOrStop, Fetch, InsertFails,
             Reorg, Finalize, Shutdown, Restart, vars
  <2> QED
    BY <2>1, <2>2, <2>3 DEF AuditInv
<1> QED
  BY <1>1, <1>2, TypeCorrect, VerdictInHandInductive, PTL DEF Spec

\* "An alert can never be lost while the rows are quietly marked resolved"
\* (record_false_positive), where an INSERT does not outlast the finalization
\* of its block.
THEOREM AlertsAreKept ==
    ASSUME "slowinsert" \notin Faults
    PROVE  Spec => []NoLostAlert
BY AuditInvariant, PTL DEF AuditInv

\* One audit row per affected event log and none for a canonical block
\* (migration 004), under the same assumption.
THEOREM AlertsAreUnique ==
    ASSUME "slowinsert" \notin Faults
    PROVE  Spec => []OneAlertPerFalsePositive
BY AuditInvariant, PTL DEF AuditInv

=============================================================================
