------------------------ MODULE RelayCompletionProofs ------------------------
(***************************************************************************)
(* The validator whose signature completes a message also executes it on   *)
(* the foreign chain before it lets go of the row.  The duty arises in the *)
(* mempool and travels with the sender's program counter, the stage column *)
(* and the copies of it in processors and channel, so the invariant has to *)
(* find it in one of these places at any time.                             *)
(***************************************************************************)
EXTENDS RelayPipelineProofs

\* We owe the foreign chain the execution of a message we completed.
Owed(m) == ForeignOn(m) /\ byUs[m] /\ ~relayed[m]

\* Between the inclusion of our signature and the statement that says so.
Completing(m) == smsg = m /\ (spc = "stage" \/ (spc = "receipt" /\ stx = "ok"))

\* The row says `foreign', and so does whoever works on it.
Resumes(m) ==
  /\ Stored(m) /\ stage[m] = "foreign"
  /\ \A p \in Processor : Holds(p, m) => pstage[p] = "foreign"
  /\ \A i \in 1 .. Len(chan) : chan[i].msg = m => chan[i].stage = "foreign"
  /\ SenderHolds(m) =>
        \/ spc = "prepare" /\ sstage = "foreign"
        \/ spc \in {"collect", "execute", "execReceipt", "retry", "release"}

DebtIsKnown ==
  \A m \in Msg : Owed(m) => Collected(m) /\ (Lost(m) \/ Completing(m) \/ Resumes(m))

\* A transaction on the foreign chain succeeds or finds its message executed.
ForeignLegIsPaid ==
  spc = "execReceipt" => Collected(smsg) /\ (stx \in {"ok", "reverted"} => relayed[smsg])

DebtInv == DebtIsKnown /\ ForeignLegIsPaid

\* Every start has the same *_EXECUTE_MESSAGE_ON_FOREIGN.
SameConfig == \A e, f \in ExecConfigs : e = f

-----------------------------------------------------------------------------
(* What the chains remember.                                                *)

\* Signatures are not taken back: a message that has enough keeps them.
LEMMA CollectedStays ==
  ASSUME TypeOK, [Next]_vars, NEW m \in Msg, Collected(m)
  PROVE  Collected(m)'
<1>1. /\ signed[m] => signed'[m]
      /\ others'[m] >= others[m] /\ others'[m] \in Nat
  BY SignaturesAccumulate
<1>2. others[m] \in Nat /\ Required \in Nat
  BY RequiredAssumption DEF TypeOK
<1> QED
  BY <1>1, <1>2 DEF Collected, SignatureCount

\* Outside the inclusion of one of our transactions nothing about us changes.
LEMMA OursUnchanged ==
  ASSUME [Next]_vars, ~TxIncluded, ~LooseIncluded
  PROVE  /\ UNCHANGED <<signed, byUs>>
         /\ relayed' = relayed
            \/ \E m \in Msg : relayed' = [relayed EXCEPT ![m] = TRUE]
<1>1. CASE ChainStep
  BY <1>1 DEF ChainStep, OthersSign, OthersRelay
<1>2. CASE ~ChainStep
  BY <1>2 DEF Next, vars, Index, ProcessorStep, ProcessorLoop, SelectRow,
     NoRow, CommitClaim, RollbackClaim, ClaimAckLost, ProcessMessage,
     ProcessMessageFails, SendToChannel, SenderStep, Receive, SenderStops,
     Prepare, ForeignDisabled, CheckAffirmed, CheckAffirmations,
     CheckSignatures, CheckSigned, Check, CollectSignatures, CallFails,
     Submit, SubmitFails, Receipt, ReceiptFails, UpdateRow, UpdateRowFails,
     UpdateAckLost, Release, ReleaseFails, Shutdown, Restart, Crash, Start,
     chainVars
<1> QED
  BY <1>1, <1>2

\* What a transaction of ours does, if it takes effect.
LEMMA InclusionApplies ==
  ASSUME TypeOK, TxIncluded \/ LooseIncluded
  PROVE  \/ UNCHANGED chainVars
         \/ \E tx \in Msg \X {"home", "foreign"} :
               /\ Apply(tx[1], tx[2])
               /\ \/ TxIncluded /\ tx = <<smsg, Leg>> /\ stx' = "ok"
                  \/ LooseIncluded /\ \E l \in loose : tx = <<l[1], l[2]>>
<1>1. CASE TxIncluded
  <2>1. smsg \in Msg /\ Leg \in {"home", "foreign"}
    BY <1>1 DEF TxIncluded, TypeOK, Leg
  <2>2. <<smsg, Leg>> \in Msg \X {"home", "foreign"}
    BY <2>1
  <2> QED
    BY <1>1, <2>2 DEF TxIncluded
<1>2. CASE LooseIncluded
  <2>1. PICK l \in loose : Apply(l[1], l[2]) \/ UNCHANGED chainVars
    BY <1>2 DEF LooseIncluded
  <2>2. <<l[1], l[2]>> \in Msg \X {"home", "foreign"}
    BY DEF TypeOK
  <2> QED
    BY <1>2, <2>1, <2>2
<1> QED
  BY <1>1, <1>2

\* An execution on the foreign chain is not undone.
LEMMA RelayedStays ==
  ASSUME TypeOK, [Next]_vars, NEW m \in Msg, relayed[m]
  PROVE  relayed'[m]
<1>1. CASE TxIncluded \/ LooseIncluded
  BY <1>1, InclusionApplies DEF Apply, chainVars, TypeOK
<1>2. CASE ~TxIncluded /\ ~LooseIncluded
  BY <1>2, OursUnchanged DEF TypeOK
<1> QED
  BY <1>1, <1>2

-----------------------------------------------------------------------------
(* A debt on a row at the foreign stage stays with the row.                 *)

\* A processor copies the stage it reads and hands it on as it is.
LEMMA ProcessorResumes ==
  ASSUME TypeOK, NEW p \in Processor, ProcessorStep(p), NEW m \in Msg, Resumes(m)
  PROVE  Resumes(m)'
<1> USE DEF Resumes, Stored, Holds, Busy, SenderHolds, BackToLoop, rowVars, senderVars
<1>1. CASE SelectRow(p)
  <2>1. PICK o \in Msg : /\ ppc' = [ppc EXCEPT ![p] = "locked"]
                         /\ pmsg' = [pmsg EXCEPT ![p] = o]
                         /\ pstage' = [pstage EXCEPT ![p] = stage[o]]
    BY <1>1 DEF SelectRow
  <2>2. /\ pmsg'[p] = o /\ pstage'[p] = stage[o]
        /\ \A q \in Processor : q # p => /\ ppc'[q] = ppc[q] /\ pmsg'[q] = pmsg[q]
                                        /\ pstage'[q] = pstage[q]
        /\ UNCHANGED <<rowVars, chan, senderVars>>
    BY <1>1, <2>1 DEF SelectRow, TypeOK
  <2> QED
    BY <2>2
<1>2. CASE SendToChannel(p)
  <2>1. /\ Len(chan) \in Nat /\ Len(chan') = Len(chan) + 1
        /\ \A i \in 1 .. Len(chan) : chan'[i] = chan[i]
        /\ chan'[Len(chan) + 1].msg = pmsg[p]
    BY ONLY TypeOK, <1>2, SendPositions
  <2>2. chan'[Len(chan) + 1].stage = pstage[p]
    <3>1. chan \in Seq(Job) /\ [msg |-> pmsg[p], stage |-> pstage[p]] \in Job
      BY <1>2 DEF TypeOK, SendToChannel, Job
    <3> QED
      BY <1>2, <3>1 DEF SendToChannel
  <2>3. pmsg[p] = m => pstage[p] = "foreign"
    BY <1>2 DEF SendToChannel
  <2>4. \A i \in 1 .. Len(chan') : chan'[i].msg = m => chan'[i].stage = "foreign"
    BY <2>1, <2>2, <2>3
  <2>5. /\ ppc'[p] = "loop" /\ UNCHANGED <<rowVars, senderVars>>
        /\ \A q \in Processor : q # p => /\ ppc'[q] = ppc[q] /\ pmsg'[q] = pmsg[q]
                                        /\ pstage'[q] = pstage[q]
    BY <1>2 DEF SendToChannel, TypeOK
  <2> QED
    BY <2>4, <2>5
<1>3. CASE ~SelectRow(p) /\ ~SendToChannel(p)
  <2>1. /\ UNCHANGED <<stage, chan, senderVars>>
        /\ \A q \in Processor : Busy(q)' => /\ Busy(q) /\ pmsg'[q] = pmsg[q]
                                           /\ pstage'[q] = pstage[q]
    BY <1>3 DEF ProcessorStep, ProcessorLoop, NoRow, CommitClaim, RollbackClaim,
       ClaimAckLost, MarkClaimed, ProcessMessage, ProcessMessageFails, TypeOK
  <2>2. isProcessed'[m] # "absent"
    BY <1>3 DEF ProcessorStep, ProcessorLoop, NoRow, CommitClaim, RollbackClaim,
       ClaimAckLost, MarkClaimed, ProcessMessage, ProcessMessageFails, TypeOK
  <2> QED
    BY <2>1, <2>2
<1> QED
  BY <1>1, <1>2, <1>3

\* The sender goes from the claim to the foreign transaction, and back to the
\* table: it does not reach the deletion while the debt stands.
LEMMA SenderResumes ==
  ASSUME TypeOK, ForeignLegIsPaid, SenderStep, NEW m \in Msg, Resumes(m),
         Owed(m), Collected(m)
  PROVE  Resumes(m)'
<1> USE DEF Resumes, Stored, Holds, Busy, SenderHolds, SenderGoto, SenderDone,
        rowVars, procVars
<1>1. CASE Receive
  <2>1. /\ Len(chan) \in Nat /\ Len(chan) > 0 /\ Len(chan') = Len(chan) - 1
        /\ \A i \in 1 .. Len(chan') : chan'[i] = chan[i + 1]
        /\ smsg' = chan[1].msg /\ sstage' = chan[1].stage
    BY <1>1, ReceivePositions
  <2>2. 1 \in 1 .. Len(chan) /\ \A i \in 1 .. Len(chan') : i + 1 \in 1 .. Len(chan)
    BY <2>1
  <2>3. /\ smsg' = m => sstage' = "foreign"
        /\ \A i \in 1 .. Len(chan') : chan'[i].msg = m => chan'[i].stage = "foreign"
    BY <2>1, <2>2
  <2>4. UNCHANGED <<rowVars, procVars>> /\ spc' = "prepare"
    BY <1>1 DEF Receive
  <2> QED
    BY <2>3, <2>4
<1>2. CASE UpdateRow \/ UpdateAckLost \/ Release
  <2>1. /\ smsg \in Msg /\ UNCHANGED <<procVars, chan>>
        /\ smsg = m => spc \in {"retry", "release"} /\ spc' \in {"idle", "release"}
        /\ smsg # m => spc' = "idle" \/ smsg' = smsg
    BY <1>2 DEF UpdateRow, UpdateAckLost, Release, Statement, TypeOK
  <2>2. stage'[m] = stage[m] /\ isProcessed'[m] # "absent"
    BY <1>2, <2>1 DEF UpdateRow, UpdateAckLost, Release, Statement, DeleteEventLog,
       IncrementRetryCount, SetStageForeign, TypeOK
  <2> QED
    BY <2>1, <2>2
<1>3. CASE ~Receive /\ ~UpdateRow /\ ~UpdateAckLost /\ ~Release
  <2>1. UNCHANGED <<rowVars, procVars, chan>>
    BY <1>3 DEF SenderStep, SenderStops, Prepare, ForeignDisabled, CheckAffirmed,
       CheckAffirmations, CheckSignatures, CheckSigned, Check, CollectSignatures,
       CallFails, Submit, SubmitFails, Receipt, ReceiptFails, UpdateRowFails,
       ReleaseFails
  <2>2. CASE ~SenderHolds(m)
    <3>1. ~SenderHolds(m)'
      BY <1>3, <2>2 DEF SenderStep, SenderStops, Prepare, ForeignDisabled,
         CheckAffirmed, CheckAffirmations, CheckSignatures, CheckSigned, Check,
         CollectSignatures, CallFails, Submit, SubmitFails, Receipt, ReceiptFails,
         UpdateRowFails, ReleaseFails
    <3> QED
      BY <2>1, <3>1
  <2>3. CASE SenderHolds(m)
    <3>1. /\ smsg = m /\ FromGnosis(smsg) /\ Collected(smsg) /\ ~relayed[smsg]
          /\ spc = "prepare" => AtForeignStage
      BY <2>3 DEF Owed, ForeignOn, AtForeignStage
    <3>2. ~Receipt
      BY <2>3, <3>1 DEF Receipt, ForeignLegIsPaid
    <3>3. spc' \in {"collect", "execute", "execReceipt", "retry", "release", "idle"}
      BY <1>3, <2>3, <3>1, <3>2 DEF SenderStep, SenderStops, Prepare, ForeignDisabled,
         CheckAffirmed, CheckAffirmations, CheckSignatures, CheckSigned, Check,
         CollectSignatures, EnoughSignatures, CallFails, Submit, SubmitFails,
         ReceiptFails, UpdateRowFails, ReleaseFails
    <3> QED
      BY <2>1, <3>3
  <2> QED
    BY <2>2, <2>3
<1> QED
  BY <1>1, <1>2, <1>3

\* Chains, indexer and process leave the row as it is.
LEMMA NextResumes ==
  ASSUME TypeOK, ForeignLegIsPaid, [Next]_vars, NEW m \in Msg, Resumes(m),
         Owed(m), Collected(m)
  PROVE  Resumes(m)'
<1> USE DEF Resumes, Stored, Holds, Busy, SenderHolds, rowVars, procVars
<1>1. ASSUME NEW o \in Msg, Index(o) PROVE Resumes(m)'
  <2>1. isProcessed'[m] = isProcessed[m] /\ stage'[m] = stage[m]
    BY <1>1 DEF Index, InsertRow, TypeOK
  <2>2. UNCHANGED <<procVars, chan, senderVars>>
    BY <1>1 DEF Index
  <2> QED
    BY <2>1, <2>2 DEF senderVars
<1>2. CASE ChainStep \/ Shutdown \/ UNCHANGED vars
  <2>1. UNCHANGED <<rowVars, procVars, chan, spc, smsg, sstage>>
    BY <1>2 DEF ChainStep, TxIncluded, LooseIncluded, OthersSign, OthersRelay,
       Shutdown, vars, senderVars
  <2> QED
    BY <2>1
<1>3. CASE Restart \/ Crash
  <2>1. /\ UNCHANGED rowVars /\ chan' = <<>> /\ spc' = "idle"
        /\ \A p \in Processor : ppc'[p] = "loop"
    BY <1>3 DEF Restart, Crash, Start, SenderDone
  <2> QED
    BY <2>1
<1> QED
  BY <1>1, <1>2, <1>3, ProcessorResumes, SenderResumes DEF Next

-----------------------------------------------------------------------------
(* From the inclusion of our signature to the stage column.                 *)

\* The receipt leads to the statement and the statement to the column; a
\* process that dies in between leaves the row lost.
LEMMA NextCompleting ==
  ASSUME TypeOK, Ownership, [Next]_vars, NEW m \in Msg, Completing(m), Owed(m),
         Faults \cap {"receipt", "db", "lostack"} = {}
  PROVE  Completing(m)' \/ Resumes(m)' \/ Lost(m)'
<1> USE DEF Completing
<1>0. SenderHolds(m) /\ isProcessed[m] = "true"
  BY DEF SenderHolds, InFlight, Ownership, OwnedRowsAreClaimed
<1>1. CASE UNCHANGED senderVars
  BY <1>1 DEF senderVars
<1>2. CASE SenderStep
  <2>1. CASE spc = "receipt"
    BY <1>2, <2>1 DEF SenderStep, Receive, SenderStops, Prepare, ForeignDisabled,
       CheckAffirmed, CheckAffirmations, CheckSignatures, CheckSigned, Check,
       CollectSignatures, CallFails, Submit, SubmitFails, Receipt, AfterHomeReceipt,
       ReceiptFails, UpdateRow, Statement, UpdateRowFails, UpdateAckLost, Release,
       ReleaseFails, Owed
  <2>2. CASE spc = "stage"
    <3>1. UpdateRow
      BY <1>2, <2>2 DEF SenderStep, Receive, SenderStops, Prepare, ForeignDisabled,
         CheckAffirmed, CheckAffirmations, CheckSignatures, CheckSigned, Check,
         CollectSignatures, CallFails, Submit, SubmitFails, Receipt, ReceiptFails,
         UpdateRowFails, UpdateAckLost, Release, ReleaseFails
    <3>2. /\ SetStageForeign(m) /\ spc' = "collect" /\ smsg' = m
          /\ UNCHANGED <<procVars, chan>>
      BY <2>2, <3>1 DEF UpdateRow, Statement, SenderGoto
    <3>3. Stored(m)' /\ stage'[m] = "foreign"
      BY <1>0, <3>2 DEF SetStageForeign, Stored, TypeOK
    <3>4. (\A p \in Processor : ~Holds(p, m)) /\ ~Queued(m)
      BY <1>0 DEF Ownership, OneOwner
    <3> QED
      BY <3>2, <3>3, <3>4 DEF Resumes, Holds, Busy, Queued, SenderHolds, procVars
  <2> QED
    BY <2>1, <2>2
<1>3. CASE Crash
  <2>1. /\ UNCHANGED rowVars /\ chan' = <<>> /\ spc' = "idle"
        /\ \A p \in Processor : ppc'[p] = "loop"
    BY <1>3 DEF Crash, Start, SenderDone
  <2> QED
    BY <1>0, <2>1 DEF Lost, InFlight, Holds, Busy, SenderHolds, Queued, rowVars
<1>4. CASE ~SenderStep /\ ~Crash
  <2>1. stx # "pending" /\ spc # "stopped"
    BY DEF TypeOK
  <2>2. UNCHANGED senderVars
    BY <1>4, <2>1 DEF Next, vars, Index, ProcessorStep, ProcessorLoop, SelectRow,
       NoRow, CommitClaim, RollbackClaim, ClaimAckLost, ProcessMessage,
       ProcessMessageFails, SendToChannel, ChainStep, TxIncluded, LooseIncluded,
       OthersSign, OthersRelay, Shutdown, Restart
  <2> QED
    BY <1>1, <2>2
<1> QED
  BY <1>2, <1>3, <1>4

\* If every reply to a submission and every receipt arrives, only a crash leaves
\* a transaction in the mempool that nobody waits for, and loses its row with it.
LooseIsLost == \A tx \in loose : tx[3] = "crash" /\ Lost(tx[1])

LEMMA NextLooseIsLost ==
  ASSUME TypeOK, Ownership, LooseIsLost, [Next]_vars,
         "receipt" \notin Faults, "lostsend" \notin Faults
  PROVE  LooseIsLost'
<1>1. AbandonedIsLost'
  BY NextAbandoned DEF LooseIsLost, AbandonedIsLost
<1>2. \A tx \in loose' : tx[3] = "crash"
  BY LooseGrows DEF LooseIsLost
<1> QED
  BY <1>1, <1>2 DEF LooseIsLost, AbandonedIsLost

\* A debt arises when our signature is included: the sender waits for it, or the
\* row was lost with the process that submitted it.
LEMMA DebtArises ==
  ASSUME TypeOK, TypeOK', Ownership, LooseIsLost, SameConfig, [Next]_vars,
         NEW m \in Msg, ~Owed(m), Owed(m)'
  PROVE  Collected(m)' /\ (Completing(m)' \/ Lost(m)')
<1>1. exec' = exec
  BY DEF SameConfig, TypeOK
<1>2. ForeignOn(m)' <=> ForeignOn(m)
  BY <1>1 DEF ForeignOn
<1>3. TxIncluded \/ LooseIncluded
  <2> SUFFICES ASSUME ~TxIncluded, ~LooseIncluded PROVE FALSE
    OBVIOUS
  <2>1. byUs'[m] = byUs[m] /\ (relayed[m] => relayed'[m])
    BY OursUnchanged, RelayedStays
  <2> QED
    BY <1>2, <2>1 DEF Owed
<1>4. PICK tx \in Msg \X {"home", "foreign"} :
        /\ Apply(tx[1], tx[2])
        /\ \/ TxIncluded /\ tx = <<smsg, Leg>> /\ stx' = "ok"
           \/ LooseIncluded /\ \E l \in loose : tx = <<l[1], l[2]>>
  BY <1>2, <1>3, InclusionApplies DEF Owed, chainVars
<1>5. byUs'[m] # byUs[m]
  BY <1>2, RelayedStays DEF Owed, TypeOK
<1>6. tx[2] = "home" /\ tx[1] = m
  BY <1>4, <1>5 DEF Apply, TypeOK
<1>7. Collected(m)'
  <2>1. /\ signed'[m] /\ others' = others
        /\ byUs'[m] = (others[m] + 1 >= Required)
    BY <1>4, <1>6 DEF Apply, TypeOK
  <2> QED
    BY <2>1 DEF Owed, Collected, SignatureCount
<1>8. CASE TxIncluded /\ tx = <<smsg, Leg>> /\ stx' = "ok"
  <2>1. smsg = m /\ Leg = "home"
    BY <1>6, <1>8
  <2>2. spc = "receipt" /\ UNCHANGED <<spc, smsg>>
    BY <1>8, <2>1 DEF TxIncluded, Leg, TypeOK
  <2> QED
    BY <1>7, <1>8, <2>1, <2>2 DEF Completing
<1>9. CASE LooseIncluded /\ \E l \in loose : tx = <<l[1], l[2]>>
  <2>1. PICK l \in loose : tx = <<l[1], l[2]>>
    BY <1>9
  <2>2. Lost(m)
    BY <1>6, <2>1 DEF LooseIsLost
  <2> QED
    BY <1>7, <2>2, NextLeavesLost
<1> QED
  BY <1>4, <1>8, <1>9

-----------------------------------------------------------------------------
\* The sender submits the execution only for a message with all its signatures,
\* and learns of its inclusion only when it is done.
LEMMA NextForeignLeg ==
  ASSUME TypeOK, TypeOK', ForeignLegIsPaid, [Next]_vars, "revert" \notin Faults
  PROVE  ForeignLegIsPaid'
<1> SUFFICES ASSUME spc' = "execReceipt"
             PROVE  Collected(smsg)' /\ (stx' \in {"ok", "reverted"} => relayed'[smsg'])
  BY DEF ForeignLegIsPaid
<1>1. CASE Submit
  <2>1. /\ smsg \in Msg /\ smsg' = smsg /\ stx' = "pending" /\ UNCHANGED chainVars
        /\ Collected(smsg)
    BY <1>1 DEF Submit, Accepts, Leg, TypeOK
  <2> QED
    BY <2>1 DEF Collected, SignatureCount, chainVars
<1>2. CASE ~Submit
  <2>1. spc = "execReceipt" /\ smsg' = smsg
    BY <1>2 DEF Next, vars, Index, ProcessorStep, ProcessorLoop, SelectRow,
       NoRow, CommitClaim, RollbackClaim, ClaimAckLost, ProcessMessage,
       ProcessMessageFails, SendToChannel, SenderStep, SenderGoto, SenderDone,
       Receive, SenderStops, Prepare, ForeignDisabled, CheckAffirmed,
       CheckAffirmations, CheckSignatures, CheckSigned, Check, CollectSignatures,
       CallFails, SubmitFails, Receipt, AfterHomeReceipt, ReceiptFails, UpdateRow,
       UpdateRowFails, UpdateAckLost, Release, ReleaseFails, ChainStep, TxIncluded,
       LooseIncluded, OthersSign, OthersRelay, Shutdown, Restart, Crash, Start,
       senderVars
  <2>2. smsg \in Msg /\ Collected(smsg) /\ Collected(smsg)'
    <3>1. smsg \in Msg /\ Collected(smsg)
      BY <2>1 DEF TypeOK, ForeignLegIsPaid
    <3>2. \A m \in Msg : m = smsg => Collected(m)'
      BY <3>1, CollectedStays
    <3> QED
      BY <2>1, <3>1, <3>2 DEF Collected, SignatureCount
  <2>3. CASE TxIncluded
    <3>1. CASE Apply(smsg, Leg)
      BY <2>1, <2>2, <3>1 DEF Apply, Leg, TypeOK
    <3>2. CASE ~Accepts(smsg, Leg)
      BY <2>1, <2>2, <3>2, RelayedStays DEF Accepts, Leg
    <3> QED
      BY <2>2, <2>3, <3>1, <3>2 DEF TxIncluded
  <2>4. CASE ~TxIncluded
    <3>1. stx' = stx
      BY <1>2, <2>1, <2>4 DEF Next, vars, Index, ProcessorStep, ProcessorLoop,
         SelectRow, NoRow, CommitClaim, RollbackClaim, ClaimAckLost,
         ProcessMessage, ProcessMessageFails, SendToChannel, SenderStep,
         SenderGoto, SenderDone, Receive, SenderStops, Prepare, ForeignDisabled,
         CheckAffirmed, CheckAffirmations, CheckSignatures, CheckSigned, Check,
         CollectSignatures, CallFails, SubmitFails, Receipt, ReceiptFails,
         UpdateRow, Statement, UpdateRowFails, UpdateAckLost, Release,
         ReleaseFails, ChainStep, LooseIncluded, OthersSign, OthersRelay,
         Shutdown, Restart, Crash, Start, senderVars
    <3> QED
      BY <2>1, <2>2, <3>1, RelayedStays DEF ForeignLegIsPaid
  <2> QED
    BY <2>3, <2>4
<1> QED
  BY <1>1, <1>2

\* Every debt is known after a step: a new one is with the sender or lost, an
\* old one stays lost, moves to the stage column, or stays there.
LEMMA NextDebt ==
  ASSUME TypeOK, TypeOK', Ownership, LooseIsLost, SameConfig, DebtInv,
         [Next]_vars, Faults \cap {"receipt", "revert", "db", "lostack"} = {}
  PROVE  DebtInv'
<1>1. ForeignLegIsPaid'
  BY NextForeignLeg DEF DebtInv
<1>2. ASSUME NEW m \in Msg, Owed(m)'
      PROVE  Collected(m)' /\ (Lost(m)' \/ Completing(m)' \/ Resumes(m)')
  <2>1. CASE ~Owed(m)
    BY <1>2, <2>1, DebtArises
  <2>2. CASE Owed(m)
    <3>1. Collected(m) /\ (Lost(m) \/ Completing(m) \/ Resumes(m))
      BY <2>2 DEF DebtInv, DebtIsKnown
    <3>2. Collected(m)'
      BY <3>1, CollectedStays
    <3>3. CASE Lost(m)
      BY <3>2, <3>3, NextLeavesLost
    <3>4. CASE Completing(m)
      BY <2>2, <3>2, <3>4, NextCompleting
    <3>5. CASE Resumes(m)
      BY <2>2, <3>1, <3>2, <3>5, NextResumes DEF DebtInv
    <3> QED
      BY <3>1, <3>3, <3>4, <3>5
  <2> QED
    BY <2>1, <2>2
<1> QED
  BY <1>1, <1>2 DEF DebtInv, DebtIsKnown

\* A row whose message our signature completed stays until the message has been
\* executed on the foreign chain, for any number of events, processors and
\* validators, across failing calls, crashes and restarts.  The exceptions:
\* after a lost receipt, a lost reply to the submission or a failed stage
\* statement the row is back at the home leg, where its message is found signed and the row deleted;
\* a reverted execution counts as done; and a start with another configuration
\* brings a foreign leg for messages whose rows are deleted without one.  A lost
\* reply to a statement may release a row twice and have it claimed twice; the
\* copy that is still at the home leg finds the message signed and deletes the row.
THEOREM CompletersRelay ==
  ASSUME Faults \cap {"lostsend", "receipt", "revert", "db", "lostack"} = {}, SameConfig
  PROVE  Spec => CompleterRelays
<1>1. Init => LooseIsLost /\ DebtInv
  BY DEF Init, LooseIsLost, DebtInv, DebtIsKnown, Owed, ForeignLegIsPaid
<1>2. TypeOK /\ TypeOK' /\ Ownership /\ LooseIsLost /\ DebtInv /\ [Next]_vars
        => LooseIsLost' /\ DebtInv'
  BY NextLooseIsLost, NextDebt
<1>3. TypeOK /\ Ownership /\ DebtInv /\ [Next]_vars
        => [\A m \in Msg : Stored(m) /\ isProcessed'[m] = "absent"
                           /\ ForeignOn(m) /\ byUs[m] => relayed[m]]_vars
  <2> SUFFICES ASSUME TypeOK, Ownership, DebtInv, [Next]_vars, NEW m \in Msg,
                      Stored(m), isProcessed'[m] = "absent", Owed(m)
               PROVE  FALSE
    BY DEF Owed
  <2>1. spc = "delete" /\ m = smsg
    BY DeletedBySender
  <2>2. Lost(m) \/ Completing(m) \/ Resumes(m)
    BY DEF DebtInv, DebtIsKnown
  <2> QED
    BY <2>1, <2>2 DEF Lost, InFlight, SenderHolds, Completing, Resumes
<1>4. Spec => []Ownership
  BY OwnershipHolds
<1> QED
  BY <1>1, <1>2, <1>3, <1>4, TypeCorrect, PTL DEF Spec, CompleterRelays

-----------------------------------------------------------------------------
(* The documents promise that no claim is left without an owner; the code      *)
(* leaves one on five paths.  Without these paths the promise holds, so there  *)
(* is no sixth.                                                                *)

NothingStranded == stranded = {}

\* Every copy of stage 'foreign' was made while foreign execution was on.
ForeignCopiesExecute ==
  /\ \A m \in Msg : stage[m] = "foreign" => ForeignOn(m)
  /\ \A p \in Processor : Busy(p) /\ pstage[p] = "foreign" => ForeignOn(pmsg[p])
  /\ \A i \in 1 .. Len(chan) : chan[i].stage = "foreign" => ForeignOn(chan[i].msg)
  /\ spc = "prepare" /\ sstage = "foreign" => ForeignOn(smsg)
  /\ spc = "stage" => ForeignOn(smsg)

\* The processor copies the stage of the row it locks.
LEMMA ProcessorExecutes ==
  ASSUME TypeOK, ForeignCopiesExecute, NEW p \in Processor, ProcessorStep(p)
  PROVE  ForeignCopiesExecute'
<1> USE DEF ForeignCopiesExecute, Busy
<1>0. UNCHANGED <<stage, exec, senderVars>>
  BY DEF ProcessorStep, ProcessorLoop, SelectRow, NoRow, CommitClaim,
     RollbackClaim, ClaimAckLost, MarkClaimed, ProcessMessage,
     ProcessMessageFails, SendToChannel, rowVars, lifeVars
<1>1. \A m : ForeignOn(m)' <=> ForeignOn(m)
  BY <1>0 DEF ForeignOn
<1>2. CASE SelectRow(p)
  <2>1. PICK m \in Msg : /\ pmsg' = [pmsg EXCEPT ![p] = m]
                         /\ pstage' = [pstage EXCEPT ![p] = stage[m]]
                         /\ ppc' = [ppc EXCEPT ![p] = "locked"]
    BY <1>2 DEF SelectRow
  <2>2. /\ pmsg'[p] = m /\ pstage'[p] = stage[m] /\ chan' = chan
        /\ \A q \in Processor : q # p => /\ pmsg'[q] = pmsg[q]
                                        /\ pstage'[q] = pstage[q]
                                        /\ ppc'[q] = ppc[q]
    BY <1>2, <2>1 DEF SelectRow, TypeOK
  <2> QED
    BY <1>0, <1>1, <2>2 DEF senderVars
<1>3. CASE SendToChannel(p)
  <2>1. /\ ppc'[p] = "loop"
        /\ \A q \in Processor : q # p => /\ pmsg'[q] = pmsg[q]
                                        /\ pstage'[q] = pstage[q]
                                        /\ ppc'[q] = ppc[q]
    BY <1>3 DEF SendToChannel, BackToLoop, TypeOK
  <2>2. /\ Len(chan) \in Nat /\ Len(chan') = Len(chan) + 1
        /\ \A i \in 1 .. Len(chan) : chan'[i] = chan[i]
        /\ chan'[Len(chan) + 1].msg = pmsg[p]
    BY <1>3, SendPositions
  <2>3. chan'[Len(chan) + 1].stage = pstage[p]
    <3>1. chan \in Seq(Job) /\ [msg |-> pmsg[p], stage |-> pstage[p]] \in Job
      BY <1>3 DEF TypeOK, SendToChannel, Job
    <3> QED
      BY <1>3, <3>1 DEF SendToChannel
  <2>4. pstage[p] = "foreign" => ForeignOn(pmsg[p])
    BY <1>3 DEF SendToChannel
  <2>5. \A i \in 1 .. Len(chan') : chan'[i].stage = "foreign" => ForeignOn(chan'[i].msg)
    BY <2>2, <2>3, <2>4
  <2> QED
    BY <1>0, <1>1, <2>1, <2>5 DEF senderVars
<1>4. CASE ~SelectRow(p) /\ ~SendToChannel(p)
  <2>1. /\ chan' = chan
        /\ \A q \in Processor : Busy(q)' => /\ Busy(q) /\ pmsg'[q] = pmsg[q]
                                           /\ pstage'[q] = pstage[q]
    BY <1>4 DEF ProcessorStep, ProcessorLoop, NoRow, CommitClaim, RollbackClaim,
       ClaimAckLost, ProcessMessage, ProcessMessageFails, BackToLoop, TypeOK
  <2> QED
    BY <1>0, <1>1, <2>1 DEF senderVars
<1> QED
  BY <1>2, <1>3, <1>4

\* The sender sets the column only where the home receipt sent it there, which
\* is where this process executes on the foreign chain.
LEMMA SenderExecutes ==
  TypeOK /\ ForeignCopiesExecute /\ SenderStep => ForeignCopiesExecute'
<1> SUFFICES ASSUME TypeOK, ForeignCopiesExecute, SenderStep
             PROVE  ForeignCopiesExecute'
  OBVIOUS
<1> USE DEF ForeignCopiesExecute, Busy
<1>0. \A m : ForeignOn(m)' <=> ForeignOn(m)
  <2>1. exec' = exec
    BY DEF SenderStep, Receive, SenderStops, Prepare, ForeignDisabled,
       CheckAffirmed, CheckAffirmations, CheckSignatures, CheckSigned, Check,
       CollectSignatures, CallFails, Submit, SubmitFails, Receipt, ReceiptFails,
       UpdateRow, UpdateRowFails, UpdateAckLost, Release, ReleaseFails, lifeVars
  <2> QED
    BY <2>1 DEF ForeignOn
<1>1. CASE Receive
  <2>1. /\ Len(chan) \in Nat /\ Len(chan) > 0 /\ Len(chan') = Len(chan) - 1
        /\ \A i \in 1 .. Len(chan') : chan'[i] = chan[i + 1]
        /\ smsg' = chan[1].msg /\ sstage' = chan[1].stage
    BY <1>1, ReceivePositions
  <2>2. 1 \in 1 .. Len(chan) /\ \A i \in 1 .. Len(chan') : i + 1 \in 1 .. Len(chan)
    BY <2>1
  <2>3. /\ UNCHANGED <<stage, procVars, exec>> /\ spc' = "prepare"
    BY <1>1 DEF Receive, rowVars, lifeVars
  <2>4. sstage' = "foreign" => ForeignOn(smsg)'
    BY <2>1, <2>2, <2>3 DEF ForeignOn
  <2>5. \A i \in 1 .. Len(chan') : chan'[i].stage = "foreign" => ForeignOn(chan'[i].msg)
    BY <2>1, <2>2
  <2> QED
    BY <1>0, <2>3, <2>4, <2>5 DEF procVars
<1>2. CASE UpdateRow \/ UpdateAckLost \/ Release
  <2>1. /\ UNCHANGED <<procVars, chan>> /\ smsg \in Msg
        /\ spc' \notin {"prepare", "stage"}
    BY <1>2 DEF UpdateRow, UpdateAckLost, Release, SenderGoto, SenderDone,
       Statement, TypeOK
  <2>2. \A m \in Msg : stage'[m] = "foreign" =>
                         stage[m] = "foreign" \/ (m = smsg /\ spc = "stage")
    <3>1. \/ UNCHANGED stage
          \/ stage' = [stage EXCEPT ![smsg] = "home"]
          \/ spc = "stage" /\ SetStageForeign(smsg)
      BY <1>2 DEF UpdateRow, UpdateAckLost, Release, Statement, DeleteEventLog,
         IncrementRetryCount
    <3>2. CASE spc = "stage" /\ SetStageForeign(smsg)
      BY <2>1, <3>2 DEF SetStageForeign, TypeOK
    <3>3. CASE stage' = [stage EXCEPT ![smsg] = "home"]
      BY <2>1, <3>3 DEF TypeOK
    <3> QED
      BY <3>1, <3>2, <3>3
  <2> QED
    BY <1>0, <2>1, <2>2 DEF procVars
<1>3. CASE ~Receive /\ ~UpdateRow /\ ~UpdateAckLost /\ ~Release
  <2>1. UNCHANGED <<stage, procVars, chan>>
    BY <1>3 DEF SenderStep, SenderStops, Prepare, ForeignDisabled,
       CheckAffirmed, CheckAffirmations, CheckSignatures, CheckSigned, Check,
       CollectSignatures, CallFails, Submit, SubmitFails, Receipt, ReceiptFails,
       UpdateRowFails, ReleaseFails, rowVars
  <2>2. /\ spc' # "prepare"
        /\ spc' = "stage" => smsg' = smsg /\ ForeignOn(smsg)
    BY <1>3 DEF SenderStep, SenderStops, Prepare, ForeignDisabled,
       CheckAffirmed, CheckAffirmations, CheckSignatures, CheckSigned, Check,
       CollectSignatures, CallFails, Submit, SubmitFails, Receipt,
       AfterHomeReceipt, ReceiptFails, UpdateRowFails, ReleaseFails, SenderGoto,
       SenderDone
  <2> QED
    BY <1>0, <2>1, <2>2 DEF procVars
<1> QED
  BY <1>1, <1>2, <1>3

\* Every step preserves it, if every start has the same configuration.
LEMMA NextExecutes ==
  ASSUME TypeOK, ForeignCopiesExecute, [Next]_vars, SameConfig
  PROVE  ForeignCopiesExecute'
<1> USE DEF ForeignCopiesExecute, Busy
<1>0. \A m : ForeignOn(m)' <=> ForeignOn(m)
  <2>1. exec' \in ExecConfigs /\ exec \in ExecConfigs
    BY NextTypeOK DEF TypeOK
  <2> QED
    BY <2>1 DEF SameConfig, ForeignOn
<1>1. ASSUME NEW m \in Msg, Index(m) PROVE ForeignCopiesExecute'
  <2>1. \A o \in Msg : stage'[o] = "foreign" => stage[o] = "foreign"
    BY <1>1 DEF Index, InsertRow, TypeOK, rowVars
  <2>2. UNCHANGED <<procVars, chan, senderVars>>
    BY <1>1 DEF Index
  <2> QED
    BY <1>0, <2>1, <2>2 DEF procVars, senderVars
<1>2. CASE ChainStep \/ Shutdown \/ UNCHANGED vars
  <2>1. UNCHANGED <<stage, procVars, chan, spc, smsg, sstage>>
    BY <1>2 DEF ChainStep, TxIncluded, LooseIncluded, OthersSign, OthersRelay,
       Shutdown, vars, senderVars, rowVars
  <2> QED
    BY <1>0, <2>1 DEF procVars
<1>3. CASE Restart \/ Crash
  <2>1. /\ UNCHANGED rowVars /\ chan' = <<>> /\ spc' = "idle"
        /\ \A p \in Processor : ppc'[p] = "loop"
    BY <1>3 DEF Restart, Crash, Start, SenderDone
  <2> QED
    BY <1>0, <2>1 DEF rowVars
<1> QED
  BY <1>1, <1>2, <1>3, ProcessorExecutes, SenderExecutes DEF Next

\* The five paths, with what closes each of them.
LEMMA NextStrandsNothing ==
  ASSUME TypeOK, ForeignCopiesExecute, NothingStranded, [Next]_vars,
         Faults \cap {"lostcommit", "decode", "db"} = {}, MaxCrashes = 0,
         \A m \in Msg : CanProcess(m)
  PROVE  NothingStranded'
<1> USE DEF NothingStranded
<1>1. ASSUME NEW p \in Processor PROVE ~ClaimAckLost(p) /\ ~ProcessMessageFails(p)
  BY DEF ClaimAckLost, ProcessMessageFails, TypeOK, Busy
<1>2. ~ForeignDisabled
  BY DEF ForeignDisabled, AtForeignStage, ForeignCopiesExecute
<1>3. ~ReleaseFails
  BY DEF ReleaseFails
<1>4. ~Crash
  BY DEF Crash, TypeOK
<1> QED
  BY <1>1, <1>2, <1>3, <1>4 DEF Next, vars, Index, ProcessorStep, ProcessorLoop,
     SelectRow, NoRow, CommitClaim, RollbackClaim, ProcessMessage,
     SendToChannel, SenderStep, Receive, SenderStops, Prepare, CheckAffirmed,
     CheckAffirmations, CheckSignatures, CheckSigned, Check, CollectSignatures,
     CallFails, Submit, SubmitFails, Receipt, ReceiptFails, UpdateRow,
     UpdateRowFails, UpdateAckLost, Release, ChainStep, TxIncluded,
     LooseIncluded, OthersSign, OthersRelay, Shutdown, Restart

\* What the documents promise holds once their five exceptions are excluded: no
\* lost COMMIT, no stored log that does not decode or whose key is missing, no
\* failed release, no crash, no start with foreign execution switched off.
\* Failing calls, lost receipts, reverts and lost replies leave no claim behind.
THEOREM ClaimsAreOwned ==
  ASSUME Faults \cap {"lostcommit", "decode", "db"} = {}, MaxCrashes = 0,
         \A m \in Msg : CanProcess(m), SameConfig
  PROVE  Spec => []EveryClaimIsOwned
<1>1. Init => ForeignCopiesExecute /\ NothingStranded
  BY DEF Init, ForeignCopiesExecute, NothingStranded, Busy
<1>2. TypeOK /\ ForeignCopiesExecute /\ NothingStranded /\ [Next]_vars
        => ForeignCopiesExecute' /\ NothingStranded'
  BY NextExecutes, NextStrandsNothing
<1>3. ClaimHasOwner /\ NothingStranded => EveryClaimIsOwned
  BY DEF ClaimHasOwner, NothingStranded, EveryClaimIsOwned
<1> QED
  BY <1>1, <1>2, <1>3, TypeCorrect, ClaimsHaveOwners, PTL DEF Spec

=============================================================================
