------------------------- MODULE RelayPipelineProofs -------------------------
(***************************************************************************)
(* Proofs about RelayPipeline, for every value of its constants.           *)
(***************************************************************************)
EXTENDS RelayPipeline, TLAPS

-----------------------------------------------------------------------------
(* Type correctness.  TypeOK is inductive as it stands: its last three      *)
(* conjuncts tie a task's program counter to the message in its hands.      *)

\* The initial state is well typed.
LEMMA InitTypeOK == Init => TypeOK
<1> SUFFICES ASSUME Init PROVE TypeOK
  OBVIOUS
<1>1. chan \in Seq(Job)
  BY DEF Init
<1>2. /\ signed \in [Msg -> BOOLEAN] /\ byUs \in [Msg -> BOOLEAN]
      /\ relayed \in [Msg -> BOOLEAN] /\ shutdown \in BOOLEAN
  BY Zenon DEF Init
<1>3. /\ isProcessed \in [Msg -> {"absent", "false", "true"}]
      /\ retryCount \in [Msg -> Nat] /\ stage \in [Msg -> Stages]
      /\ others \in [Msg -> Nat]
  BY DEF Init, Stages
<1>4. /\ ppc \in [Processor -> PPcs] /\ pmsg \in [Processor -> Msg \cup {NoMsg}]
      /\ pstage \in [Processor -> Stages]
      /\ \A p \in Processor : Busy(p) <=> pmsg[p] \in Msg
  BY MsgAssumption DEF Init, PPcs, Stages, Busy
<1> QED
  BY <1>1, <1>2, <1>3, <1>4, MsgAssumption DEF Init, TypeOK, SPcs, Stages

\* A step of a processor preserves the types.
LEMMA ProcessorTypeOK ==
  ASSUME TypeOK, NEW p \in Processor, ProcessorStep(p)
  PROVE  TypeOK'
<1> USE MsgAssumption DEF TypeOK, Busy, PPcs, BackToLoop, rowVars, senderVars,
        chainVars, lifeVars
<1>1. CASE ProcessorLoop(p)
  BY <1>1 DEF ProcessorLoop
<1>2. CASE SelectRow(p)
  BY <1>2 DEF SelectRow
<1>3. CASE NoRow(p)
  BY <1>3 DEF NoRow, Stages
<1>4. CASE CommitClaim(p)
  BY <1>4 DEF CommitClaim, MarkClaimed
<1>5. CASE RollbackClaim(p)
  BY <1>5 DEF RollbackClaim, Stages
<1>6. CASE ClaimAckLost(p)
  BY <1>6 DEF ClaimAckLost, MarkClaimed, Stages
<1>7. CASE ProcessMessage(p)
  BY <1>7 DEF ProcessMessage
<1>8. CASE ProcessMessageFails(p)
  BY <1>8 DEF ProcessMessageFails, Stages
<1>9. CASE SendToChannel(p)
  <2>1. [msg |-> pmsg[p], stage |-> pstage[p]] \in Job
    BY <1>9 DEF SendToChannel, Job
  <2>2. chan' \in Seq(Job)
    BY <1>9, <2>1 DEF SendToChannel
  <2> QED
    BY <1>9, <2>2 DEF SendToChannel, Stages
<1> QED
  BY <1>1, <1>2, <1>3, <1>4, <1>5, <1>6, <1>7, <1>8, <1>9 DEF ProcessorStep

\* The three statements of process_message keep the columns in their types.
LEMMA StatementTypeOK ==
  ASSUME TypeOK, NEW m \in Msg,
         IncrementRetryCount(m) \/ DeleteEventLog(m) \/ SetStageForeign(m)
  PROVE  /\ isProcessed' \in [Msg -> {"absent", "false", "true"}]
         /\ retryCount' \in [Msg -> Nat]
         /\ stage' \in [Msg -> Stages]
<1> USE DEF TypeOK, Stages
<1>1. CASE IncrementRetryCount(m)
  BY <1>1 DEF IncrementRetryCount
<1>2. CASE DeleteEventLog(m)
  BY <1>2 DEF DeleteEventLog
<1>3. CASE SetStageForeign(m)
  BY <1>3 DEF SetStageForeign
<1> QED
  BY <1>1, <1>2, <1>3

\* A step of the sender preserves the types.
LEMMA SenderTypeOK == TypeOK /\ SenderStep => TypeOK'
<1> SUFFICES ASSUME TypeOK, SenderStep PROVE TypeOK'
  OBVIOUS
<1> USE MsgAssumption DEF TypeOK, Busy, SPcs, SenderGoto, SenderDone, rowVars,
        procVars, chainVars, lifeVars
<1>1. CASE Receive
  <2>1. Head(chan) \in Job /\ Tail(chan) \in Seq(Job)
    BY <1>1 DEF Receive
  <2> QED
    BY <1>1, <2>1 DEF Receive, Job
<1>2. CASE SenderStops
  BY <1>2 DEF SenderStops
<1>3. CASE Prepare
  BY <1>3 DEF Prepare
<1>4. CASE ForeignDisabled
  BY <1>4 DEF ForeignDisabled, Stages
<1>5. CASE CheckAffirmed \/ CheckAffirmations \/ CheckSignatures \/ CheckSigned
  BY <1>5 DEF CheckAffirmed, CheckAffirmations, CheckSignatures, CheckSigned, Check
<1>6. CASE CollectSignatures
  BY <1>6 DEF CollectSignatures
<1>7. CASE CallFails
  BY <1>7 DEF CallFails
<1>8. CASE Submit
  BY <1>8 DEF Submit
<1>9. CASE SubmitFails
  BY <1>9 DEF SubmitFails, Leg
<1>10. CASE Receipt
  BY <1>10 DEF Receipt, AfterHomeReceipt
<1>11. CASE ReceiptFails
  BY <1>11 DEF ReceiptFails, Abandon, Leg
<1>12. CASE UpdateRow \/ UpdateAckLost
  <2>1. smsg \in Msg /\ stx = "none"
    BY <1>12 DEF UpdateRow, UpdateAckLost, Statement
  <2>2. IncrementRetryCount(smsg) \/ DeleteEventLog(smsg) \/ SetStageForeign(smsg)
    BY <1>12 DEF UpdateRow, UpdateAckLost, Statement
  <2> QED
    BY <1>12, <2>1, <2>2, StatementTypeOK
    DEF UpdateRow, UpdateAckLost, Statement, Stages
<1>13. CASE UpdateRowFails
  BY <1>13 DEF UpdateRowFails
<1>14. CASE Release
  BY <1>14, StatementTypeOK DEF Release, Stages
<1>15. CASE ReleaseFails
  BY <1>15 DEF ReleaseFails, Stages
<1> QED
  BY <1>1, <1>2, <1>3, <1>4, <1>5, <1>6, <1>7, <1>8, <1>9, <1>10, <1>11, <1>12,
     <1>13, <1>14, <1>15 DEF SenderStep

\* A transaction of ours changes the chain within its types.
LEMMA ApplyTypeOK ==
  ASSUME TypeOK, NEW m \in Msg, NEW leg, Apply(m, leg)
  PROVE  /\ signed' \in [Msg -> BOOLEAN] /\ byUs' \in [Msg -> BOOLEAN]
         /\ relayed' \in [Msg -> BOOLEAN] /\ others' = others
<1>1. /\ signed \in [Msg -> BOOLEAN] /\ byUs \in [Msg -> BOOLEAN]
      /\ relayed \in [Msg -> BOOLEAN]
  BY DEF TypeOK
<1>2. (others[m] + 1 >= Required) \in BOOLEAN
  OBVIOUS
<1>3. CASE leg = "home"
  BY <1>1, <1>2, <1>3, Zenon DEF Apply
<1>4. CASE leg # "home"
  BY <1>1, <1>4, Zenon DEF Apply
<1> QED
  BY <1>3, <1>4

\* A step of the chains preserves the types.
LEMMA ChainTypeOK == TypeOK /\ ChainStep => TypeOK'
<1> SUFFICES ASSUME TypeOK, ChainStep PROVE TypeOK'
  OBVIOUS
<1> USE DEF Busy, rowVars, procVars, senderVars, chainVars, lifeVars
<1>1. CASE TxIncluded
  <2>1. /\ signed' \in [Msg -> BOOLEAN] /\ byUs' \in [Msg -> BOOLEAN]
        /\ relayed' \in [Msg -> BOOLEAN] /\ others' \in [Msg -> Nat]
    <3>1. smsg \in Msg
      BY <1>1 DEF TxIncluded, TypeOK
    <3>2. Apply(smsg, Leg) \/ UNCHANGED chainVars
      BY <1>1 DEF TxIncluded
    <3> QED
      BY <3>1, <3>2, ApplyTypeOK DEF TypeOK
  <2>2. stx' \in {"ok", "reverted"}
    BY <1>1 DEF TxIncluded
  <2> QED
    BY <1>1, <2>1, <2>2 DEF TxIncluded, TypeOK
<1>2. CASE LooseIncluded
  <2>1. PICK tx \in loose : /\ loose' = loose \ {tx}
                            /\ Apply(tx[1], tx[2]) \/ UNCHANGED chainVars
    BY <1>2 DEF LooseIncluded
  <2>2. tx[1] \in Msg
    BY DEF TypeOK
  <2>3. /\ signed' \in [Msg -> BOOLEAN] /\ byUs' \in [Msg -> BOOLEAN]
        /\ relayed' \in [Msg -> BOOLEAN] /\ others' \in [Msg -> Nat]
    BY <2>1, <2>2, ApplyTypeOK DEF TypeOK
  <2> QED
    BY <1>2, <2>1, <2>3 DEF LooseIncluded, TypeOK
<1>3. ASSUME NEW m \in Msg, OthersSign(m) PROVE TypeOK'
  <2>1. others' \in [Msg -> Nat]
    BY <1>3 DEF OthersSign, TypeOK
  <2> QED
    BY <1>3, <2>1 DEF OthersSign, TypeOK
<1>4. ASSUME NEW m \in Msg, OthersRelay(m) PROVE TypeOK'
  <2>1. relayed' \in [Msg -> BOOLEAN]
    BY <1>4, Zenon DEF OthersRelay, TypeOK
  <2> QED
    BY <1>4, <2>1 DEF OthersRelay, TypeOK
<1> QED
  BY <1>1, <1>2, <1>3, <1>4 DEF ChainStep

\* The start of a process, after a drain or a crash, preserves the types.
LEMMA StartTypeOK == TypeOK /\ (Restart \/ Crash) => TypeOK'
<1> SUFFICES ASSUME TypeOK, Restart \/ Crash PROVE TypeOK'
  OBVIOUS
<1>1. loose' \subseteq Msg \X {"home", "foreign"} \X {"error", "crash"}
  <2>1. stx = "pending" => smsg \in Msg
    BY DEF TypeOK
  <2>2. Leg \in {"home", "foreign"}
    BY DEF Leg
  <2> QED
    BY <2>1, <2>2 DEF Restart, Crash, Abandon, TypeOK
<1>2. /\ ppc' \in [Processor -> PPcs] /\ pmsg' \in [Processor -> Msg \cup {NoMsg}]
      /\ pstage' \in [Processor -> Stages]
      /\ \A p \in Processor : (Busy(p) <=> pmsg[p] \in Msg)'
  BY MsgAssumption DEF Restart, Crash, Start, PPcs, Stages, Busy
<1>3. chan' \in Seq(Job)
  <2>1. chan' = <<>>
    BY DEF Restart, Crash, Start
  <2> QED
    BY <2>1
<1>4. stranded' \subseteq Msg /\ crashes' \in Nat
  BY DEF Restart, Crash, TypeOK
<1>5. indexed' \in [Msg -> Nat]
  BY DEF Restart, Crash, Start
<1> QED
  BY <1>1, <1>2, <1>3, <1>4, <1>5, MsgAssumption
  DEF Restart, Crash, Start, SenderDone, TypeOK, SPcs, Stages, rowVars, chainVars

\* Every step preserves the types.
LEMMA NextTypeOK == TypeOK /\ [Next]_vars => TypeOK'
<1> SUFFICES ASSUME TypeOK, [Next]_vars PROVE TypeOK'
  OBVIOUS
<1>1. ASSUME NEW m \in Msg, Index(m) PROVE TypeOK'
  <2>1. /\ isProcessed' \in [Msg -> {"absent", "false", "true"}]
        /\ retryCount' \in [Msg -> Nat] /\ stage' \in [Msg -> Stages]
    <3>1. CASE Stored(m)
      BY <1>1, <3>1 DEF Index, InsertRow, TypeOK, rowVars
    <3>2. CASE ~Stored(m)
      <4>1. /\ isProcessed' = [isProcessed EXCEPT ![m] = "false"]
            /\ retryCount' = [retryCount EXCEPT ![m] = 0]
            /\ stage' = [stage EXCEPT ![m] = "home"]
        BY <1>1, <3>2 DEF Index, InsertRow
      <4> QED
        BY <4>1 DEF TypeOK, Stages
    <3> QED
      BY <3>1, <3>2
  <2>2. indexed' \in [Msg -> Nat]
    BY <1>1 DEF Index, TypeOK
  <2> QED
    BY <1>1, <2>1, <2>2 DEF Index, TypeOK, Busy, procVars, senderVars, chainVars, lifeVars
<1>2. ASSUME NEW p \in Processor, ProcessorStep(p) PROVE TypeOK'
  BY <1>2, ProcessorTypeOK
<1>3. CASE Shutdown
  BY <1>3 DEF Shutdown, TypeOK, Busy, rowVars, procVars, senderVars, chainVars
<1>4. CASE UNCHANGED vars
  BY <1>4 DEF vars, TypeOK, Busy, rowVars, procVars, senderVars, chainVars, lifeVars
<1> QED
  BY <1>1, <1>2, <1>3, <1>4, SenderTypeOK, ChainTypeOK, StartTypeOK DEF Next

\* Every reachable state is well typed, for any set of messages, processors
\* and faults, any channel capacity and any retry ceiling.
THEOREM TypeCorrect == Spec => []TypeOK
BY InitTypeOK, NextTypeOK, PTL DEF Spec

-----------------------------------------------------------------------------
(* What the two ends of the channel do to it, position by position.         *)

\* send() adds its job at the end.
LEMMA SendPositions ==
  ASSUME TypeOK, NEW p \in Processor, SendToChannel(p)
  PROVE  /\ Len(chan) \in Nat /\ Len(chan') = Len(chan) + 1
         /\ \A i \in 1 .. Len(chan) : chan'[i] = chan[i]
         /\ chan'[Len(chan) + 1].msg = pmsg[p]
         /\ pmsg[p] \in Msg
<1>1. chan \in Seq(Job) /\ pmsg[p] \in Msg /\ pstage[p] \in Stages
  BY DEF TypeOK, Busy, SendToChannel
<1>2. [msg |-> pmsg[p], stage |-> pstage[p]] \in Job
  BY <1>1 DEF Job
<1> QED
  BY <1>1, <1>2 DEF SendToChannel

\* recv() takes the job at the front.
LEMMA ReceivePositions ==
  ASSUME TypeOK, Receive
  PROVE  /\ Len(chan) \in Nat /\ Len(chan) > 0 /\ Len(chan') = Len(chan) - 1
         /\ \A i \in 1 .. Len(chan') : chan'[i] = chan[i + 1]
         /\ smsg' = chan[1].msg /\ smsg' \in Msg
         /\ sstage' = chan[1].stage
<1>1. chan \in Seq(Job) /\ chan # <<>>
  BY DEF TypeOK, Receive
<1>2. chan[1] \in Job
  BY <1>1
<1> QED
  BY <1>1, <1>2 DEF Receive, Job

-----------------------------------------------------------------------------
(* The graceful exit: when the sender has stopped there is nothing left to  *)
(* work on, so that the next process finds no claim it does not own.        *)

DrainedBeforeExit ==
  spc = "stopped" => chan = <<>> /\ \A p \in Processor : ppc[p] = "stopped"

\* A step keeps the drained process drained.
LEMMA NextDrained == TypeOK /\ DrainedBeforeExit /\ [Next]_vars => DrainedBeforeExit'
<1> SUFFICES ASSUME TypeOK, DrainedBeforeExit, [Next]_vars PROVE DrainedBeforeExit'
  OBVIOUS
<1> USE DEF DrainedBeforeExit, procVars, senderVars
<1>1. ASSUME NEW m \in Msg, Index(m) PROVE DrainedBeforeExit'
  BY <1>1 DEF Index
<1>2. ASSUME NEW p \in Processor, ProcessorStep(p) PROVE DrainedBeforeExit'
  <2>1. spc' = spc
    BY <1>2 DEF ProcessorStep, ProcessorLoop, SelectRow, NoRow, CommitClaim,
       RollbackClaim, ClaimAckLost, ProcessMessage, ProcessMessageFails,
       SendToChannel
  <2>2. ppc[p] # "stopped"
    BY <1>2 DEF ProcessorStep, ProcessorLoop, SelectRow, NoRow, CommitClaim,
       RollbackClaim, ClaimAckLost, ProcessMessage, ProcessMessageFails,
       SendToChannel
  <2> QED
    BY <2>1, <2>2
<1>3. CASE SenderStep
  <2>1. CASE SenderStops
    BY <2>1 DEF SenderStops
  <2>2. CASE ~SenderStops
    <3>1. spc' # "stopped"
      BY <1>3, <2>2 DEF SenderStep, Receive, Prepare, ForeignDisabled,
         CheckAffirmed, CheckAffirmations, CheckSignatures, CheckSigned, Check,
         CollectSignatures, CallFails, Submit, SubmitFails, Receipt,
         AfterHomeReceipt, ReceiptFails, UpdateRow, UpdateRowFails,
         UpdateAckLost, Release, ReleaseFails, SenderGoto, SenderDone
    <3> QED
      BY <3>1
  <2> QED
    BY <2>1, <2>2
<1>4. CASE ChainStep
  BY <1>4 DEF ChainStep, TxIncluded, LooseIncluded, OthersSign, OthersRelay
<1>5. CASE Shutdown
  BY <1>5 DEF Shutdown
<1>6. CASE Restart \/ Crash
  BY <1>6 DEF Restart, Crash, Start, SenderDone
<1>7. CASE UNCHANGED vars
  BY <1>7 DEF vars
<1> QED
  BY <1>1, <1>2, <1>3, <1>4, <1>5, <1>6, <1>7 DEF Next

\* The sender outlives the processors and the channel (README, Graceful
\* Shutdown): once it has stopped, no task holds a row and none is queued.
THEOREM ExitIsDrained == Spec => []DrainedBeforeExit
<1>1. Init => DrainedBeforeExit
  BY DEF Init, DrainedBeforeExit
<1> QED
  BY <1>1, NextDrained, TypeCorrect, PTL DEF Spec

-----------------------------------------------------------------------------
(* Every claim has an owner, or was given up in a way the code documents.   *)

\* A step of a processor leaves no claim behind.
LEMMA ProcessorKeepsOwner ==
  ASSUME TypeOK, ClaimHasOwner, NEW p \in Processor, ProcessorStep(p)
  PROVE  ClaimHasOwner'
<1> SUFFICES ASSUME NEW m \in Msg, isProcessed'[m] = "true"
             PROVE  InFlight(m)' \/ m \in stranded'
  BY DEF ClaimHasOwner
<1> USE DEF Holds, Busy, SenderHolds, Queued, BackToLoop, rowVars, senderVars
<1>0. isProcessed[m] = "true" => InFlight(m) \/ m \in stranded
  BY DEF ClaimHasOwner
<1>1. CASE ProcessorLoop(p) \/ SelectRow(p) \/ NoRow(p) \/ RollbackClaim(p)
           \/ ProcessMessage(p)
  BY <1>0, <1>1 DEF InFlight, TypeOK, ProcessorLoop, SelectRow, NoRow,
     RollbackClaim, ProcessMessage
<1>2. CASE CommitClaim(p)
  <2>1. CASE m = pmsg[p]
    BY <1>2, <2>1 DEF CommitClaim, InFlight, TypeOK
  <2>2. CASE m # pmsg[p]
    BY <1>0, <1>2, <2>2 DEF CommitClaim, MarkClaimed, InFlight, TypeOK
  <2> QED
    BY <2>1, <2>2
<1>3. CASE ClaimAckLost(p)
  <2>1. CASE m = pmsg[p]
    BY <1>3, <2>1 DEF ClaimAckLost
  <2>2. CASE m # pmsg[p]
    BY <1>0, <1>3, <2>2 DEF ClaimAckLost, MarkClaimed, InFlight, TypeOK
  <2> QED
    BY <2>1, <2>2
<1>4. CASE ProcessMessageFails(p)
  BY <1>0, <1>4 DEF ProcessMessageFails, InFlight, TypeOK
<1>5. CASE SendToChannel(p)
  <2>1. isProcessed' = isProcessed /\ stranded' = stranded /\ Len(chan) \in Nat
    BY <1>5 DEF SendToChannel, TypeOK
  <2>2. CASE m = pmsg[p]
    <3>1. Queued(m)'
      BY <1>5, <2>1, <2>2, SendPositions
    <3> QED
      BY <3>1 DEF InFlight
  <2>3. Queued(m) => Queued(m)'
    BY <1>5, <2>1, SendPositions
  <2>4. SenderHolds(m) => SenderHolds(m)'
    BY <1>5 DEF SendToChannel
  <2>5. ASSUME NEW q \in Processor, Holds(q, m), ppc[q] # "locked", m # pmsg[p]
        PROVE  Holds(q, m)' /\ ppc'[q] # "locked"
    BY <1>5, <2>5 DEF SendToChannel, TypeOK
  <2> QED
    BY <1>0, <2>1, <2>2, <2>3, <2>4, <2>5 DEF InFlight
<1> QED
  BY <1>1, <1>2, <1>3, <1>4, <1>5 DEF ProcessorStep

\* A step of the sender leaves no claim behind.
LEMMA SenderKeepsOwner ==
  TypeOK /\ ClaimHasOwner /\ SenderStep => ClaimHasOwner'
<1> SUFFICES ASSUME TypeOK, ClaimHasOwner, SenderStep,
                    NEW m \in Msg, isProcessed'[m] = "true"
             PROVE  InFlight(m)' \/ m \in stranded'
  BY DEF ClaimHasOwner
<1> USE DEF Holds, Busy, SenderHolds, SenderGoto, SenderDone, rowVars, procVars
<1>0. isProcessed[m] = "true" => InFlight(m) \/ m \in stranded
  BY DEF ClaimHasOwner
<1>1. CASE Receive
  <2>1. Queued(m) => Queued(m)' \/ SenderHolds(m)'
    <3> SUFFICES ASSUME NEW i \in 1 .. Len(chan), chan[i].msg = m
                 PROVE  Queued(m)' \/ SenderHolds(m)'
      BY DEF Queued
    <3>1. CASE i = 1
      BY <1>1, <3>1, ReceivePositions DEF Receive
    <3>2. CASE i # 1
      <4>1. i - 1 \in 1 .. Len(chan') /\ chan'[i - 1] = chan[i]
        BY <1>1, <3>2, ReceivePositions
      <4> QED
        BY <4>1 DEF Queued
    <3> QED
      BY <3>1, <3>2
  <2>2. ~SenderHolds(m)
    BY <1>1 DEF Receive
  <2> QED
    BY <1>0, <1>1, <2>1, <2>2 DEF Receive, InFlight
<1>2. CASE ForeignDisabled
  BY <1>0, <1>2 DEF ForeignDisabled, InFlight, Queued
<1>3. CASE SenderStops \/ Prepare \/ CheckAffirmed \/ CheckAffirmations
           \/ CheckSignatures \/ CheckSigned \/ CollectSignatures \/ CallFails
  BY <1>0, <1>3 DEF SenderStops, Prepare, CheckAffirmed, CheckAffirmations,
     CheckSignatures, CheckSigned, Check, CollectSignatures, CallFails,
     InFlight, Queued
<1>4. CASE Submit \/ SubmitFails \/ Receipt \/ ReceiptFails \/ UpdateRowFails
  BY <1>0, <1>4 DEF Submit, SubmitFails, Receipt, AfterHomeReceipt,
     ReceiptFails, UpdateRowFails, InFlight, Queued
<1>5. CASE UpdateRow \/ UpdateAckLost
  <2>1. spc \in {"stage", "delete", "retry"} /\ smsg \in Msg
    BY <1>5 DEF UpdateRow, UpdateAckLost, Statement, TypeOK
  <2>2. CASE spc = "stage"
    BY <1>0, <1>5, <2>2 DEF UpdateRow, UpdateAckLost, Statement,
       SetStageForeign, InFlight, Queued
  <2>3. CASE spc \in {"delete", "retry"}
    <3>1. isProcessed'[smsg] # "true"
      BY <1>5, <2>1, <2>3 DEF UpdateRow, UpdateAckLost, Statement,
         DeleteEventLog, IncrementRetryCount, Stored, TypeOK
    <3>2. isProcessed'[m] = isProcessed[m] /\ m # smsg
      BY <1>5, <2>1, <2>3, <3>1 DEF UpdateRow, UpdateAckLost, Statement,
         DeleteEventLog, IncrementRetryCount, TypeOK
    <3> QED
      BY <1>0, <1>5, <3>2 DEF UpdateRow, UpdateAckLost, InFlight, Queued
  <2> QED
    BY <2>1, <2>2, <2>3
<1>6. CASE Release
  <2>1. smsg \in Msg
    BY <1>6 DEF Release, TypeOK
  <2>2. isProcessed'[smsg] # "true"
    BY <1>6, <2>1 DEF Release, IncrementRetryCount, Stored, TypeOK
  <2>3. isProcessed'[m] = isProcessed[m] /\ m # smsg
    BY <1>6, <2>1, <2>2 DEF Release, IncrementRetryCount, TypeOK
  <2> QED
    BY <1>0, <1>6, <2>3 DEF Release, InFlight, Queued
<1>7. CASE ReleaseFails
  BY <1>0, <1>7 DEF ReleaseFails, InFlight, Queued
<1> QED
  BY <1>1, <1>2, <1>3, <1>4, <1>5, <1>6, <1>7 DEF SenderStep

\* Every step leaves no claim behind.
LEMMA NextKeepsOwner ==
  TypeOK /\ DrainedBeforeExit /\ ClaimHasOwner /\ [Next]_vars => ClaimHasOwner'
<1> SUFFICES ASSUME TypeOK, DrainedBeforeExit, ClaimHasOwner, [Next]_vars
             PROVE  ClaimHasOwner'
  OBVIOUS
<1> USE DEF ClaimHasOwner, InFlight, Holds, Busy, SenderHolds, Queued, procVars,
        senderVars
<1>1. ASSUME NEW m \in Msg, Index(m) PROVE ClaimHasOwner'
  <2>1. \A o \in Msg : isProcessed'[o] = "true" => isProcessed[o] = "true"
    BY <1>1 DEF Index, InsertRow, TypeOK, rowVars
  <2> QED
    BY <1>1, <2>1 DEF Index
<1>2. CASE ChainStep
  BY <1>2 DEF ChainStep, TxIncluded, LooseIncluded, OthersSign, OthersRelay, rowVars
<1>3. CASE Shutdown
  BY <1>3 DEF Shutdown, rowVars
<1>4. CASE Restart
  <2>1. \A m \in Msg : ~InFlight(m)
    BY <1>4 DEF Restart, DrainedBeforeExit
  <2> QED
    BY <1>4, <2>1 DEF Restart, Start, rowVars
<1>5. CASE Crash
  BY <1>5 DEF Crash, rowVars
<1>6. CASE UNCHANGED vars
  BY <1>6 DEF vars, rowVars
<1> QED
  BY <1>1, <1>2, <1>3, <1>4, <1>5, <1>6, ProcessorKeepsOwner, SenderKeepsOwner
  DEF Next

\* No release is forgotten: in every reachable state, whatever faults occur, a
\* claimed row is in the hands of a task, in the channel, or stranded by one of
\* the four events the history variable records.
THEOREM ClaimsHaveOwners == Spec => []ClaimHasOwner
<1>1. Init => ClaimHasOwner
  BY DEF Init, ClaimHasOwner
<1> QED
  BY <1>1, NextKeepsOwner, TypeCorrect, ExitIsDrained, PTL DEF Spec

-----------------------------------------------------------------------------
(* One owner per row.  OneOwner is not inductive alone: that SelectRow finds *)
(* a row nobody holds follows from what the table says of held rows, which   *)
(* is OwnedRowsAreClaimed, and that in turn needs the unique owner when an   *)
(* owner lets go.  The two are proved together, for a sender whose failed    *)
(* statements had no effect.                                                 *)

Ownership == OneOwner /\ OwnedRowsAreClaimed

\* Nobody works on a claimable row that is not locked.
LEMMA ClaimableIsFree ==
  ASSUME TypeOK, Ownership, NEW m \in Msg, Claimable(m), ~Locked(m)
  PROVE  /\ \A q \in Processor : ~Holds(q, m)
         /\ ~Queued(m) /\ ~SenderHolds(m)
<1>1. ~InFlight(m)
  BY DEF Ownership, OwnedRowsAreClaimed, Claimable
<1> QED
  BY <1>1 DEF InFlight, Locked, Holds, Busy

\* A step of a processor preserves the ownership of rows.
LEMMA ProcessorOwnership ==
  ASSUME TypeOK, Ownership, NEW p \in Processor, ProcessorStep(p)
  PROVE  Ownership'
<1> USE DEF Ownership, OneOwner, NoDoubleClaim, OwnedRowsAreClaimed, InFlight,
        Holds, Busy, Locked, SenderHolds, Queued, BackToLoop, rowVars, senderVars
<1>1. CASE ProcessorLoop(p) \/ NoRow(p) \/ RollbackClaim(p)
  <2>1. /\ ppc'[p] \in {"loop", "query", "stopped"}
        /\ \A q \in Processor : q # p => ppc'[q] = ppc[q] /\ pmsg'[q] = pmsg[q]
        /\ UNCHANGED <<rowVars, chan, senderVars>>
    BY <1>1 DEF TypeOK, ProcessorLoop, NoRow, RollbackClaim
  <2>2. OneOwner'
    BY <2>1
  <2>3. OwnedRowsAreClaimed'
    BY <2>1 DEF Claimable
  <2> QED
    BY <2>2, <2>3
<1>2. CASE SelectRow(p)
  <2>1. PICK m \in Msg : /\ NextRow(m)
                         /\ ppc' = [ppc EXCEPT ![p] = "locked"]
                         /\ pmsg' = [pmsg EXCEPT ![p] = m]
    BY <1>2 DEF SelectRow
  <2>2. /\ \A q \in Processor : ~Holds(q, m)
        /\ ~Queued(m) /\ ~SenderHolds(m) /\ Claimable(m)
    BY <2>1, ClaimableIsFree DEF NextRow
  <2>3. UNCHANGED <<rowVars, chan, senderVars>>
    BY <1>2 DEF SelectRow
  <2>4. ppc'[p] = "locked" /\ pmsg'[p] = m
    BY <2>1 DEF TypeOK
  <2>5. \A q \in Processor : q # p => ppc'[q] = ppc[q] /\ pmsg'[q] = pmsg[q]
    BY <2>1 DEF TypeOK
  <2>6. OneOwner'
    BY <2>2, <2>3, <2>4, <2>5
  <2>7. OwnedRowsAreClaimed'
    BY <2>2, <2>3, <2>4, <2>5 DEF Claimable
  <2> QED
    BY <2>6, <2>7
<1>3. CASE CommitClaim(p)
  <2>1. /\ Holds(p, pmsg[p]) /\ pmsg[p] \in Msg /\ Claimable(pmsg[p])
    BY <1>3 DEF CommitClaim, TypeOK
  <2>2. /\ ppc'[p] = "claimed" /\ pmsg' = pmsg
        /\ \A q \in Processor : q # p => ppc'[q] = ppc[q]
        /\ isProcessed'[pmsg[p]] = "true"
        /\ \A m \in Msg : m # pmsg[p] => isProcessed'[m] = isProcessed[m]
        /\ UNCHANGED <<retryCount, chan, senderVars>>
    BY <1>3 DEF CommitClaim, MarkClaimed, TypeOK
  <2>3. OneOwner'
    BY <1>3, <2>1, <2>2 DEF CommitClaim
  <2>4. OwnedRowsAreClaimed'
    BY <1>3, <2>1, <2>2 DEF CommitClaim, Claimable
  <2> QED
    BY <2>3, <2>4
<1>4. CASE ClaimAckLost(p)
  <2>1. Holds(p, pmsg[p]) /\ pmsg[p] \in Msg
    BY <1>4 DEF ClaimAckLost, TypeOK
  <2>2. /\ ppc'[p] = "loop"
        /\ \A q \in Processor : q # p => ppc'[q] = ppc[q] /\ pmsg'[q] = pmsg[q]
        /\ \A m \in Msg : m # pmsg[p] => isProcessed'[m] = isProcessed[m]
        /\ UNCHANGED <<retryCount, chan, senderVars>>
    BY <1>4 DEF ClaimAckLost, MarkClaimed, TypeOK
  <2>3. OneOwner'
    BY <2>1, <2>2
  <2>4. OwnedRowsAreClaimed'
    BY <1>4, <2>1, <2>2 DEF Claimable
  <2> QED
    BY <2>3, <2>4
<1>5. CASE ProcessMessage(p) \/ ProcessMessageFails(p)
  <2>1. /\ ppc[p] = "claimed"
        /\ \/ ppc'[p] = "send" /\ pmsg'[p] = pmsg[p]
           \/ ppc'[p] = "loop"
        /\ \A q \in Processor : q # p => ppc'[q] = ppc[q] /\ pmsg'[q] = pmsg[q]
        /\ UNCHANGED <<rowVars, chan, senderVars>>
    BY <1>5 DEF TypeOK, ProcessMessage, ProcessMessageFails
  <2>2. OneOwner'
    BY <2>1
  <2>3. OwnedRowsAreClaimed'
    BY <2>1 DEF Claimable
  <2> QED
    BY <2>2, <2>3
<1>6. CASE SendToChannel(p)
  <2> DEFINE n == Len(chan)
  <2>1. n \in Nat /\ Len(chan') = n + 1
    BY <1>6, SendPositions DEF TypeOK
  <2>2. /\ \A i \in 1 .. n : chan'[i] = chan[i]
        /\ chan'[n + 1].msg = pmsg[p] /\ pmsg[p] \in Msg /\ Holds(p, pmsg[p])
    BY <1>6, SendPositions DEF SendToChannel
  <2>3. /\ ppc'[p] = "loop"
        /\ \A q \in Processor : q # p => ppc'[q] = ppc[q] /\ pmsg'[q] = pmsg[q]
        /\ UNCHANGED <<isProcessed, retryCount, senderVars>>
    BY <1>6 DEF SendToChannel, TypeOK
  <2>4. \A m \in Msg : Queued(m)' => Queued(m) \/ m = pmsg[p]
    BY <2>1, <2>2
  <2>5. \A i, j \in 1 .. Len(chan') : chan'[i].msg = chan'[j].msg => i = j
    BY <2>1, <2>2
  <2>6. OneOwner'
    BY <2>2, <2>3, <2>4, <2>5
  <2>7. ppc[p] = "send"
    BY <1>6 DEF SendToChannel
  <2>8. OwnedRowsAreClaimed'
    BY <2>2, <2>3, <2>4, <2>7 DEF Claimable
  <2> QED
    BY <2>6, <2>8
<1> QED
  BY <1>1, <1>2, <1>3, <1>4, <1>5, <1>6 DEF ProcessorStep

\* A step of the sender preserves it, unless a statement of its takes effect
\* and is reported as failed.
LEMMA SenderOwnership ==
  ASSUME TypeOK, Ownership, SenderStep, "lostack" \notin Faults
  PROVE  Ownership'
<1> USE DEF Ownership, OneOwner, NoDoubleClaim, OwnedRowsAreClaimed, InFlight,
        Holds, Busy, Locked, SenderHolds, Queued, SenderGoto, SenderDone,
        rowVars, procVars
<1>1. CASE Receive
  <2>1. /\ UNCHANGED <<rowVars, procVars>> /\ spc = "idle"
        /\ spc' = "prepare" /\ smsg' = chan[1].msg
    BY <1>1, ReceivePositions DEF Receive
  <2>2. /\ Len(chan) \in Nat /\ Len(chan) > 0 /\ Len(chan') = Len(chan) - 1
        /\ \A i \in 1 .. Len(chan') : chan'[i] = chan[i + 1]
    BY <1>1, ReceivePositions
  <2>3. \A m \in Msg : Queued(m)' => Queued(m) /\ m # chan[1].msg
    BY <2>2
  <2>4. \A i, j \in 1 .. Len(chan') : chan'[i].msg = chan'[j].msg => i = j
    <3> SUFFICES ASSUME NEW i \in 1 .. Len(chan'), NEW j \in 1 .. Len(chan'),
                        chan'[i].msg = chan'[j].msg
                 PROVE  i = j
      OBVIOUS
    <3>1. i + 1 \in 1 .. Len(chan) /\ j + 1 \in 1 .. Len(chan)
      BY <2>2
    <3> QED
      BY <2>2, <3>1
  <2>5. \A m \in Msg : SenderHolds(m)' => Queued(m)
    <3>1. 1 \in 1 .. Len(chan)
      BY <2>2
    <3>2. \A m \in Msg : SenderHolds(m)' => chan[1].msg = m
      BY <2>1
    <3> QED
      BY <3>1, <3>2
  <2>6. OneOwner'
    BY <2>1, <2>3, <2>4, <2>5
  <2>7. OwnedRowsAreClaimed'
    BY <2>1, <2>3, <2>5 DEF Claimable
  <2> QED
    BY <2>6, <2>7
<1>2. CASE SenderStops \/ Prepare \/ ForeignDisabled \/ CheckAffirmed
           \/ CheckAffirmations \/ CheckSignatures \/ CheckSigned
           \/ CollectSignatures \/ CallFails
  BY <1>2 DEF SenderStops, Prepare, ForeignDisabled, CheckAffirmed,
     CheckAffirmations, CheckSignatures, CheckSigned, Check, CollectSignatures,
     CallFails, Claimable
<1>3. CASE Submit \/ SubmitFails \/ Receipt \/ ReceiptFails \/ UpdateRowFails
           \/ ReleaseFails
  BY <1>3 DEF Submit, SubmitFails, Receipt, AfterHomeReceipt, ReceiptFails,
     UpdateRowFails, ReleaseFails, Claimable
<1>4. CASE UpdateRow \/ Release
  <2>1. /\ smsg \in Msg /\ SenderHolds(smsg) /\ ~Locked(smsg)
        /\ UNCHANGED <<procVars, chan>>
    BY <1>4 DEF UpdateRow, Release, Statement, TypeOK
  <2>2. \A m \in Msg : m # smsg => /\ isProcessed'[m] = isProcessed[m]
                                   /\ retryCount'[m] = retryCount[m]
    BY <1>4, <2>1 DEF UpdateRow, Release, Statement, DeleteEventLog,
       IncrementRetryCount, SetStageForeign, TypeOK
  <2>3. \/ /\ UNCHANGED <<isProcessed, retryCount, smsg>>
           /\ spc = "stage" /\ spc' = "collect"
        \/ spc' = "idle"
    BY <1>4 DEF UpdateRow, Release, Statement, SetStageForeign
  <2>4. OneOwner'
    BY <2>1, <2>3
  <2>5. OwnedRowsAreClaimed'
    BY <2>1, <2>2, <2>3 DEF Claimable
  <2> QED
    BY <2>4, <2>5
<1>5. CASE UpdateAckLost
  BY <1>5 DEF UpdateAckLost
<1> QED
  BY <1>1, <1>2, <1>3, <1>4, <1>5 DEF SenderStep

\* Every step preserves the ownership of rows.
LEMMA NextOwnership ==
  ASSUME "lostack" \notin Faults
  PROVE  TypeOK /\ Ownership /\ [Next]_vars => Ownership'
<1> SUFFICES ASSUME TypeOK, Ownership, [Next]_vars PROVE Ownership'
  OBVIOUS
<1> USE DEF Ownership, OneOwner, NoDoubleClaim, OwnedRowsAreClaimed, InFlight,
        Holds, Busy, Locked, SenderHolds, Queued, Claimable, rowVars, procVars,
        senderVars
<1>1. ASSUME NEW m \in Msg, Index(m) PROVE Ownership'
  <2>1. \A o \in Msg : Stored(o) => /\ isProcessed'[o] = isProcessed[o]
                                    /\ retryCount'[o] = retryCount[o]
    BY <1>1 DEF Index, InsertRow, Stored, TypeOK
  <2>2. UNCHANGED <<procVars, chan, senderVars>>
    BY <1>1 DEF Index
  <2> QED
    BY <2>1, <2>2 DEF Stored
<1>2. CASE ChainStep
  BY <1>2 DEF ChainStep, TxIncluded, LooseIncluded, OthersSign, OthersRelay
<1>3. CASE Shutdown
  BY <1>3 DEF Shutdown
<1>4. CASE Restart \/ Crash
  BY <1>4 DEF Restart, Crash, Start, SenderDone
<1>5. CASE UNCHANGED vars
  BY <1>5 DEF vars
<1> QED
  BY <1>1, <1>2, <1>3, <1>4, <1>5, ProcessorOwnership, SenderOwnership DEF Next

\* The ownership invariant holds of every behaviour.
LEMMA OwnershipHolds ==
  ASSUME "lostack" \notin Faults
  PROVE  Spec => []Ownership
<1>1. Init => Ownership
  BY DEF Init, Ownership, OneOwner, NoDoubleClaim, OwnedRowsAreClaimed,
     InFlight, Holds, Busy, Locked, SenderHolds, Queued
<1>2. TypeOK /\ Ownership /\ [Next]_vars => Ownership'
  BY NextOwnership
<1> QED
  BY <1>1, <1>2, TypeCorrect, PTL DEF Spec

\* "Two processors never claim the same row" (README): as long as no statement
\* of the sender both takes effect and reports a failure, every row has at most
\* one owner, from the lock to the last statement, across crashes and restarts.
THEOREM RowsHaveOneOwner ==
  ASSUME "lostack" \notin Faults
  PROVE  Spec => []OneOwner
<1>1. Ownership => OneOwner
  BY DEF Ownership
<1> QED
  BY <1>1, OwnershipHolds, PTL

\* Under the same assumption a row somebody works on is claimed in the table, so
\* that no processor, of this life or the next, finds it a second time.
THEOREM WorkIsOnClaimedRows ==
  ASSUME "lostack" \notin Faults
  PROVE  Spec => []OwnedRowsAreClaimed
<1>1. Ownership => OwnedRowsAreClaimed
  BY DEF Ownership
<1> QED
  BY <1>1, OwnershipHolds, PTL

-----------------------------------------------------------------------------
(* The retry budget.  A release is the only thing that counts, and a row that *)
(* is released had an owner, hence was below the ceiling when it was claimed. *)

\* A step never takes a row past the ceiling.
LEMMA NextRetry ==
  TypeOK /\ Ownership /\ RetryWithinBudget /\ [Next]_vars /\ "lostack" \notin Faults
    => RetryWithinBudget'
<1> SUFFICES ASSUME TypeOK, Ownership, RetryWithinBudget, [Next]_vars,
                    "lostack" \notin Faults
             PROVE  RetryWithinBudget'
  OBVIOUS
<1> USE DEF RetryWithinBudget, rowVars
<1>1. ASSUME NEW m \in Msg, Index(m) PROVE RetryWithinBudget'
  <2>1. CASE Stored(m)
    BY <1>1, <2>1 DEF Index, InsertRow
  <2>2. CASE ~Stored(m)
    <3>1. retryCount' = [retryCount EXCEPT ![m] = 0]
      BY <1>1, <2>2 DEF Index, InsertRow
    <3> QED
      BY <3>1, RetryAssumption DEF TypeOK
  <2> QED
    BY <2>1, <2>2
<1>2. ASSUME NEW p \in Processor, ProcessorStep(p) PROVE RetryWithinBudget'
  BY <1>2 DEF ProcessorStep, ProcessorLoop, SelectRow, NoRow, CommitClaim,
     RollbackClaim, ClaimAckLost, MarkClaimed, ProcessMessage,
     ProcessMessageFails, SendToChannel
<1>3. CASE SenderStep
  <2>1. CASE UpdateRow \/ Release
    <3>1. smsg \in Msg /\ retryCount[smsg] < MaxRetry
      BY <2>1 DEF UpdateRow, Release, Statement, TypeOK, Ownership,
         OwnedRowsAreClaimed, InFlight, SenderHolds
    <3>2. \/ IncrementRetryCount(smsg)
          \/ DeleteEventLog(smsg)
          \/ SetStageForeign(smsg)
      BY <2>1 DEF UpdateRow, Release, Statement
    <3>3. \/ UNCHANGED retryCount
          \/ retryCount' = [retryCount EXCEPT ![smsg] = 0]
          \/ retryCount' = [retryCount EXCEPT ![smsg] = @ + 1]
          \/ retryCount' = [retryCount EXCEPT ![smsg] = @]
      BY <3>2 DEF IncrementRetryCount, DeleteEventLog, SetStageForeign
    <3>4. MaxRetry \in Nat /\ retryCount \in [Msg -> Nat]
      BY RetryAssumption DEF TypeOK
    <3> QED
      BY <3>1, <3>3, <3>4
  <2>2. CASE ~(UpdateRow \/ Release)
    <3>1. UNCHANGED retryCount
      BY <1>3, <2>2 DEF SenderStep, Receive, SenderStops, Prepare,
         ForeignDisabled, CheckAffirmed, CheckAffirmations, CheckSignatures,
         CheckSigned, Check, CollectSignatures, CallFails, Submit, SubmitFails,
         Receipt, ReceiptFails, UpdateRowFails, UpdateAckLost, ReleaseFails
    <3> QED
      BY <3>1
  <2> QED
    BY <2>1, <2>2
<1>4. CASE ChainStep
  BY <1>4 DEF ChainStep, TxIncluded, LooseIncluded, OthersSign, OthersRelay
<1>5. CASE Shutdown \/ Restart \/ Crash
  BY <1>5 DEF Shutdown, Restart, Crash
<1>6. CASE UNCHANGED vars
  BY <1>6 DEF vars
<1> QED
  BY <1>1, <1>2, <1>3, <1>4, <1>5, <1>6 DEF Next

\* MAX_RETRY_COUNT is never exceeded, however the inner and the outer release
\* of the sender alternate.
THEOREM RetriesAreBounded ==
  ASSUME "lostack" \notin Faults
  PROVE  Spec => []RetryWithinBudget
<1>1. Init => RetryWithinBudget
  <2> SUFFICES ASSUME Init, NEW m \in Msg PROVE retryCount[m] <= MaxRetry
    BY DEF RetryWithinBudget
  <2>1. retryCount[m] = 0
    BY DEF Init
  <2>2. MaxRetry \in Nat
    BY RetryAssumption
  <2> QED
    BY <2>1, <2>2
<1>2. TypeOK /\ Ownership /\ RetryWithinBudget /\ [Next]_vars => RetryWithinBudget'
  BY NextRetry
<1>3. Spec => []Ownership
  BY OwnershipHolds
<1> QED
  BY <1>1, <1>2, <1>3, TypeCorrect, PTL DEF Spec

-----------------------------------------------------------------------------
(* No second submission after a crash.  What a dead process left in the       *)
(* mempool belongs to a row it left claimed, and such a row never comes back  *)
(* into any task's hands: this is what the missing claim lease buys.          *)

Lost(m) == isProcessed[m] = "true" /\ ~InFlight(m)
AbandonedIsLost == \A tx \in loose : tx[3] = "crash" => Lost(tx[1])

\* A transaction is given up by a process that dies, and by a sender that loses
\* its receipt or the reply to its submission.
LEMMA LooseGrows ==
  ASSUME [Next]_vars, NEW tx \in loose', tx \notin loose
  PROVE  \/ Crash /\ stx = "pending" /\ tx = <<smsg, Leg, "crash">>
         \/ ReceiptFails /\ "receipt" \in Faults /\ tx = <<smsg, Leg, "error">>
         \/ SubmitFails /\ "lostsend" \in Faults /\ tx = <<smsg, Leg, "error">>
<1>1. CASE Crash
  BY <1>1 DEF Crash, Abandon
<1>2. CASE ReceiptFails
  BY <1>2 DEF ReceiptFails, Abandon
<1>3. CASE SubmitFails
  BY <1>3 DEF SubmitFails
<1>4. CASE ~Crash /\ ~ReceiptFails /\ ~SubmitFails
  BY <1>4 DEF Next, vars, Index, ProcessorStep, ProcessorLoop, SelectRow,
     NoRow, CommitClaim, RollbackClaim, ClaimAckLost, ProcessMessage,
     ProcessMessageFails, SendToChannel, SenderStep, Receive, SenderStops,
     Prepare, ForeignDisabled, CheckAffirmed, CheckAffirmations,
     CheckSignatures, CheckSigned, Check, CollectSignatures, CallFails,
     Submit, Receipt, UpdateRow, UpdateRowFails, UpdateAckLost, Release,
     ReleaseFails, ChainStep, TxIncluded, LooseIncluded, OthersSign, OthersRelay,
     Shutdown, Restart
<1> QED
  BY <1>1, <1>2, <1>3, <1>4

\* A step of a processor takes free rows only, hence none that is lost.
LEMMA ProcessorLeavesLost ==
  ASSUME TypeOK, Ownership, NEW p \in Processor, ProcessorStep(p),
         NEW m \in Msg, Lost(m)
  PROVE  Lost(m)'
<1> USE DEF Lost, InFlight, Holds, Busy, SenderHolds, Queued, BackToLoop,
        rowVars, senderVars
<1>1. ~Locked(m)
  BY DEF Ownership, OwnedRowsAreClaimed, Claimable
<1>2. CASE CommitClaim(p) \/ ClaimAckLost(p)
  <2>1. pmsg[p] # m
    BY <1>1, <1>2 DEF CommitClaim, ClaimAckLost, Locked
  <2>2. /\ isProcessed'[m] = isProcessed[m]
        /\ UNCHANGED <<chan, senderVars>>
        /\ \A q \in Processor : q # p => ppc'[q] = ppc[q] /\ pmsg'[q] = pmsg[q]
        /\ pmsg'[p] = pmsg[p] \/ ppc'[p] = "loop"
    BY <1>2, <2>1 DEF CommitClaim, ClaimAckLost, MarkClaimed, TypeOK
  <2> QED
    BY <2>1, <2>2
<1>3. CASE SendToChannel(p)
  <2>1. ppc[p] = "send" /\ pmsg[p] # m
    BY <1>3 DEF SendToChannel
  <2>2. /\ isProcessed' = isProcessed /\ UNCHANGED senderVars
        /\ ppc'[p] = "loop"
        /\ \A q \in Processor : q # p => ppc'[q] = ppc[q] /\ pmsg'[q] = pmsg[q]
    BY <1>3 DEF SendToChannel, TypeOK
  <2>3. /\ Len(chan) \in Nat /\ Len(chan') = Len(chan) + 1
        /\ \A i \in 1 .. Len(chan) : chan'[i] = chan[i]
        /\ chan'[Len(chan) + 1].msg = pmsg[p]
    BY <1>3, SendPositions DEF TypeOK
  <2>4. ~Queued(m)'
    BY <2>1, <2>3
  <2> QED
    BY <2>1, <2>2, <2>4
<1>4. CASE ProcessorLoop(p) \/ SelectRow(p) \/ NoRow(p) \/ RollbackClaim(p)
           \/ ProcessMessage(p) \/ ProcessMessageFails(p)
  <2>1. /\ UNCHANGED <<isProcessed, chan, senderVars>>
        /\ \A q \in Processor : q # p => ppc'[q] = ppc[q] /\ pmsg'[q] = pmsg[q]
        /\ \/ ppc'[p] \in {"loop", "query", "locked", "stopped"}
           \/ ppc[p] = "claimed" /\ pmsg'[p] = pmsg[p]
    BY <1>4 DEF ProcessorLoop, SelectRow, NoRow, RollbackClaim, ProcessMessage,
       ProcessMessageFails, TypeOK
  <2> QED
    BY <2>1
<1> QED
  BY <1>2, <1>3, <1>4 DEF ProcessorStep

\* A step of the sender changes the row in its hand only, hence none that is lost.
LEMMA SenderLeavesLost ==
  ASSUME TypeOK, SenderStep, NEW m \in Msg, Lost(m)
  PROVE  Lost(m)'
<1> USE DEF Lost, InFlight, Holds, Busy, SenderHolds, Queued, SenderGoto,
        SenderDone, rowVars, procVars
<1>1. CASE Receive
  <2>1. /\ Len(chan) \in Nat /\ Len(chan) > 0 /\ Len(chan') = Len(chan) - 1
        /\ \A i \in 1 .. Len(chan') : chan'[i] = chan[i + 1]
        /\ smsg' = chan[1].msg
    BY <1>1, ReceivePositions
  <2>2. 1 \in 1 .. Len(chan) /\ \A i \in 1 .. Len(chan') : i + 1 \in 1 .. Len(chan)
    BY <2>1
  <2>3. smsg' # m /\ ~Queued(m)'
    BY <2>1, <2>2
  <2> QED
    BY <1>1, <2>3 DEF Receive
<1>2. CASE UpdateRow \/ UpdateAckLost \/ Release
  <2>1. /\ smsg \in Msg /\ smsg # m
        /\ UNCHANGED <<procVars, chan>>
        /\ spc' = "idle" \/ smsg' = smsg
    BY <1>2 DEF UpdateRow, UpdateAckLost, Release, Statement, TypeOK
  <2>2. isProcessed'[m] = isProcessed[m]
    BY <1>2, <2>1 DEF UpdateRow, UpdateAckLost, Release, Statement, DeleteEventLog,
       IncrementRetryCount, SetStageForeign, TypeOK
  <2> QED
    BY <2>1, <2>2
<1>3. CASE ~Receive /\ ~UpdateRow /\ ~UpdateAckLost /\ ~Release
  <2>1. /\ UNCHANGED <<isProcessed, procVars, chan>>
        /\ \/ spc' \in {"idle", "stopped"}
           \/ spc \notin {"idle", "stopped"} /\ smsg' = smsg
    BY <1>3 DEF SenderStep, SenderStops, Prepare, ForeignDisabled, CheckAffirmed,
       CheckAffirmations, CheckSignatures, CheckSigned, Check, CollectSignatures,
       CallFails, Submit, SubmitFails, Receipt, ReceiptFails, UpdateRowFails,
       ReleaseFails
  <2> QED
    BY <2>1
<1> QED
  BY <1>1, <1>2, <1>3

\* A lost row stays lost, whatever task, chain or process moves.
LEMMA NextLeavesLost ==
  ASSUME TypeOK, Ownership, [Next]_vars, NEW m \in Msg, Lost(m)
  PROVE  Lost(m)'
<1> USE DEF Lost, InFlight, Holds, Busy, SenderHolds, Queued, rowVars, procVars,
        senderVars
<1>1. ASSUME NEW o \in Msg, Index(o) PROVE Lost(m)'
  <2>1. isProcessed'[m] = isProcessed[m]
    BY <1>1 DEF Index, InsertRow, Stored, TypeOK
  <2> QED
    BY <1>1, <2>1 DEF Index
<1>2. CASE ChainStep
  BY <1>2 DEF ChainStep, TxIncluded, LooseIncluded, OthersSign, OthersRelay
<1>3. CASE Shutdown \/ UNCHANGED vars
  BY <1>3 DEF Shutdown, vars
<1>4. CASE Restart \/ Crash
  <2>1. /\ UNCHANGED rowVars /\ chan' = <<>> /\ spc' = "idle"
        /\ \A p \in Processor : ppc'[p] = "loop"
    BY <1>4 DEF Restart, Crash, Start, SenderDone
  <2> QED
    BY <2>1
<1> QED
  BY <1>1, <1>2, <1>3, <1>4, ProcessorLeavesLost, SenderLeavesLost DEF Next

\* A transaction that a crash left behind is one of a row that is lost with it.
LEMMA NextAbandoned ==
  ASSUME TypeOK, Ownership, AbandonedIsLost, [Next]_vars
  PROVE  AbandonedIsLost'
<1> SUFFICES ASSUME NEW tx \in loose', tx[3] = "crash" PROVE Lost(tx[1])'
  BY DEF AbandonedIsLost
<1>1. CASE tx \in loose
  <2>1. tx[1] \in Msg /\ Lost(tx[1])
    BY <1>1 DEF AbandonedIsLost, TypeOK
  <2> QED
    BY <2>1, NextLeavesLost
<1>2. CASE tx \notin loose
  <2>1. Crash /\ stx = "pending" /\ tx = <<smsg, Leg, "crash">>
    BY <1>2, LooseGrows
  <2>2. smsg \in Msg /\ SenderHolds(smsg)
    BY <2>1 DEF TypeOK, SenderHolds
  <2>3. isProcessed[smsg] = "true"
    BY <2>2 DEF Ownership, OwnedRowsAreClaimed, InFlight
  <2>4. /\ UNCHANGED rowVars /\ chan' = <<>> /\ spc' = "idle"
        /\ \A p \in Processor : ppc'[p] = "loop"
    BY <2>1 DEF Crash, Start, SenderDone
  <2>5. tx[1] = smsg
    BY <2>1
  <2> QED
    BY <2>3, <2>4, <2>5 DEF Lost, InFlight, Holds, Busy, SenderHolds, Queued, rowVars
<1> QED
  BY <1>1, <1>2

\* What a dead process left in the mempool is never submitted again while it is
\* pending, over any number of crashes and of lost replies of the nodes: the
\* process that comes back never works on a claim it did not take.
THEOREM CrashesResubmitNothing ==
  ASSUME "lostack" \notin Faults
  PROVE  Spec => []CrashNeverResubmits
<1>1. Init => AbandonedIsLost
  BY DEF Init, AbandonedIsLost
<1>2. TypeOK /\ Ownership /\ AbandonedIsLost /\ [Next]_vars => AbandonedIsLost'
  BY NextAbandoned
<1>3. TypeOK /\ AbandonedIsLost => CrashNeverResubmits
  <2> SUFFICES ASSUME TypeOK, AbandonedIsLost, spc \in {"receipt", "execReceipt"},
                      <<smsg, Leg, "crash">> \in loose
               PROVE  FALSE
    BY DEF CrashNeverResubmits
  <2>1. SenderHolds(smsg)
    BY DEF SenderHolds
  <2>2. Lost(smsg)
    BY DEF AbandonedIsLost
  <2> QED
    BY <2>1, <2>2 DEF Lost, InFlight
<1>4. Spec => []Ownership
  BY OwnershipHolds
<1> QED
  BY <1>1, <1>2, <1>3, <1>4, TypeCorrect, PTL DEF Spec

-----------------------------------------------------------------------------
(* No message is dropped unsigned.  The stage column is copied into the claim *)
(* and into the channel, and a resumed row skips the home chain's checks on   *)
(* the strength of it, so the invariant says of every copy, and of every      *)
(* program counter past the receipt, that the home chain has settled.         *)

SettledPcs == {"delete", "stage", "collect", "execute", "execReceipt"}

SettledCopies ==
  /\ StageMatchesChain
  /\ \A p \in Processor : Busy(p) /\ pstage[p] = "foreign" => Settled(pmsg[p])
  /\ \A i \in 1 .. Len(chan) : chan[i].stage = "foreign" => Settled(chan[i].msg)
  /\ spc \in SettledPcs => Settled(smsg)
  /\ spc = "prepare" /\ sstage = "foreign" => Settled(smsg)
  /\ spc = "receipt" /\ stx \in {"ok", "reverted"} => Settled(smsg)

\* No signature is taken back.
LEMMA SignaturesAccumulate ==
  ASSUME TypeOK, [Next]_vars, NEW m \in Msg
  PROVE  (signed[m] => signed'[m]) /\ others'[m] >= others[m] /\ others'[m] \in Nat
<1>1. CASE ChainStep
  <2>1. ASSUME NEW o \in Msg, NEW leg, Apply(o, leg)
        PROVE  (signed[m] => signed'[m]) /\ others' = others
    BY <2>1 DEF Apply, TypeOK
  <2>2. CASE TxIncluded
    BY <2>1, <2>2 DEF TxIncluded, TypeOK, chainVars
  <2>3. CASE LooseIncluded
    <3>1. PICK tx \in loose : Apply(tx[1], tx[2]) \/ UNCHANGED chainVars
      BY <2>3 DEF LooseIncluded
    <3>2. tx[1] \in Msg
      BY DEF TypeOK
    <3> QED
      BY <2>1, <3>1, <3>2 DEF TypeOK, chainVars
  <2>4. ASSUME NEW o \in Msg, OthersSign(o) \/ OthersRelay(o)
        PROVE  (signed[m] => signed'[m]) /\ others'[m] >= others[m]
    <3>1. others \in [Msg -> Nat]
      BY DEF TypeOK
    <3>2. /\ UNCHANGED signed
          /\ others' = others \/ others' = [others EXCEPT ![o] = @ + 1]
      BY <2>4 DEF OthersSign, OthersRelay
    <3> QED
      BY <3>1, <3>2
  <2>5. others' \in [Msg -> Nat]
    BY NextTypeOK DEF TypeOK
  <2> QED
    BY <1>1, <2>2, <2>3, <2>4, <2>5 DEF ChainStep
<1>2. CASE ~ChainStep
  <2>1. UNCHANGED chainVars
    BY <1>2 DEF Next, vars, Index, ProcessorStep, ProcessorLoop, SelectRow,
       NoRow, CommitClaim, RollbackClaim, ClaimAckLost, ProcessMessage,
       ProcessMessageFails, SendToChannel, SenderStep, Receive, SenderStops,
       Prepare, ForeignDisabled, CheckAffirmed, CheckAffirmations,
       CheckSignatures, CheckSigned, Check, CollectSignatures, CallFails,
       Submit, SubmitFails, Receipt, ReceiptFails, UpdateRow, UpdateRowFails,
       UpdateAckLost, Release, ReleaseFails, Shutdown, Restart, Crash, Start
  <2> QED
    BY <2>1 DEF chainVars, TypeOK
<1> QED
  BY <1>1, <1>2

\* What the home chain has settled stays settled.
LEMMA SettledMonotone ==
  TypeOK /\ [Next]_vars => \A m \in Msg : Settled(m) => Settled(m)'
<1> SUFFICES ASSUME TypeOK, [Next]_vars, NEW m \in Msg
             PROVE  Settled(m) => Settled(m)'
  OBVIOUS
<1>1. (signed[m] => signed'[m]) /\ others'[m] >= others[m] /\ others'[m] \in Nat
  BY SignaturesAccumulate
<1>2. others[m] \in Nat /\ Required \in Nat
  BY RequiredAssumption DEF TypeOK
<1> QED
  BY <1>1, <1>2 DEF Settled, Collected, SignatureCount

\* A step of a processor copies the stage it read and settles nothing.
LEMMA ProcessorSettled ==
  ASSUME TypeOK, SettledCopies, NEW p \in Processor, ProcessorStep(p)
  PROVE  SettledCopies'
<1> USE DEF SettledCopies, StageMatchesChain, BackToLoop, Busy, chainVars, senderVars
<1>0. /\ \A m : Settled(m)' <=> Settled(m)
      /\ UNCHANGED <<stage, senderVars>>
  <2>1. UNCHANGED <<chainVars, stage, senderVars>>
    BY DEF ProcessorStep, ProcessorLoop, SelectRow, NoRow, CommitClaim,
       RollbackClaim, ClaimAckLost, MarkClaimed, ProcessMessage,
       ProcessMessageFails, SendToChannel, rowVars
  <2> QED
    BY <2>1 DEF Settled, Collected, SignatureCount
<1>1. CASE SelectRow(p)
  <2>1. PICK m \in Msg : /\ pmsg' = [pmsg EXCEPT ![p] = m]
                         /\ pstage' = [pstage EXCEPT ![p] = stage[m]]
                         /\ ppc' = [ppc EXCEPT ![p] = "locked"]
    BY <1>1 DEF SelectRow
  <2>2. /\ pmsg'[p] = m /\ pstage'[p] = stage[m]
        /\ \A q \in Processor : q # p => /\ pmsg'[q] = pmsg[q]
                                        /\ pstage'[q] = pstage[q]
                                        /\ ppc'[q] = ppc[q]
    BY <2>1 DEF TypeOK
  <2>3. chan' = chan
    BY <1>1 DEF SelectRow
  <2> QED
    BY <1>0, <2>2, <2>3
<1>2. CASE SendToChannel(p)
  <2>1. /\ ppc'[p] = "loop"
        /\ \A q \in Processor : q # p => /\ pmsg'[q] = pmsg[q]
                                        /\ pstage'[q] = pstage[q]
                                        /\ ppc'[q] = ppc[q]
    BY <1>2 DEF SendToChannel, TypeOK
  <2>2. /\ Len(chan) \in Nat /\ Len(chan') = Len(chan) + 1
        /\ \A i \in 1 .. Len(chan) : chan'[i] = chan[i]
        /\ chan'[Len(chan) + 1].msg = pmsg[p]
    BY <1>2, SendPositions DEF TypeOK
  <2>3. chan'[Len(chan) + 1].stage = pstage[p]
    <3>1. chan \in Seq(Job) /\ [msg |-> pmsg[p], stage |-> pstage[p]] \in Job
      BY <1>2 DEF TypeOK, SendToChannel, Job
    <3> QED
      BY <1>2, <3>1 DEF SendToChannel
  <2>4. pstage[p] = "foreign" => Settled(pmsg[p])
    BY <1>2 DEF SendToChannel
  <2>5. \A i \in 1 .. Len(chan') : chan'[i].stage = "foreign" => Settled(chan'[i].msg)
    BY <2>2, <2>3, <2>4
  <2> QED
    BY <1>0, <2>1, <2>5
<1>3. CASE ~SelectRow(p) /\ ~SendToChannel(p)
  <2>1. /\ chan' = chan
        /\ \A q \in Processor : Busy(q)' => /\ Busy(q) /\ pmsg'[q] = pmsg[q]
                                           /\ pstage'[q] = pstage[q]
    BY <1>3 DEF ProcessorStep, ProcessorLoop, NoRow, CommitClaim, RollbackClaim,
       ClaimAckLost, ProcessMessage, ProcessMessageFails, TypeOK
  <2> QED
    BY <1>0, <2>1
<1> QED
  BY <1>1, <1>2, <1>3

\* A step of the sender reaches a settled program counter only by a check that
\* found the message settled, a receipt, or a settled stage.
LEMMA SenderSettled ==
  TypeOK /\ SettledCopies /\ SenderStep => SettledCopies'
<1> SUFFICES ASSUME TypeOK, SettledCopies, SenderStep PROVE SettledCopies'
  OBVIOUS
<1> USE DEF SettledCopies, SettledPcs, StageMatchesChain, Busy, SenderGoto,
        SenderDone, rowVars, procVars, chainVars
<1>0. \A m : Settled(m)' <=> Settled(m)
  <2>1. UNCHANGED chainVars
    BY DEF SenderStep, Receive, SenderStops, Prepare, ForeignDisabled,
       CheckAffirmed, CheckAffirmations, CheckSignatures, CheckSigned, Check,
       CollectSignatures, CallFails, Submit, SubmitFails, Receipt, ReceiptFails,
       UpdateRow, UpdateRowFails, UpdateAckLost, Release, ReleaseFails
  <2> QED
    BY <2>1 DEF Settled, Collected, SignatureCount
<1>1. CASE Receive
  <2>1. /\ Len(chan) \in Nat /\ Len(chan) > 0 /\ Len(chan') = Len(chan) - 1
        /\ \A i \in 1 .. Len(chan') : chan'[i] = chan[i + 1]
        /\ smsg' = chan[1].msg /\ sstage' = chan[1].stage
    BY <1>1, ReceivePositions
  <2>2. 1 \in 1 .. Len(chan) /\ \A i \in 1 .. Len(chan') : i + 1 \in 1 .. Len(chan)
    BY <2>1
  <2>3. sstage' = "foreign" => Settled(smsg')
    BY <2>1, <2>2
  <2>4. \A i \in 1 .. Len(chan') : chan'[i].stage = "foreign" => Settled(chan'[i].msg)
    BY <2>1, <2>2
  <2>5. /\ UNCHANGED <<stage, procVars>> /\ spc' = "prepare"
    BY <1>1 DEF Receive
  <2>6. Settled(smsg') <=> Settled(smsg)'
    BY <1>1 DEF Receive, Settled, Collected, SignatureCount
  <2> QED
    BY <1>0, <2>3, <2>4, <2>5, <2>6
<1>2. CASE SenderStops \/ Prepare \/ ForeignDisabled \/ CallFails \/ Submit
           \/ SubmitFails \/ ReceiptFails \/ UpdateRowFails \/ ReleaseFails
  BY <1>0, <1>2 DEF SenderStops, Prepare, AtForeignStage, ForeignDisabled,
     CallFails, Submit, SubmitFails, ReceiptFails, UpdateRowFails, ReleaseFails
<1>3. CASE CheckAffirmed \/ CheckAffirmations \/ CheckSignatures \/ CheckSigned
  BY <1>0, <1>3 DEF CheckAffirmed, CheckAffirmations, CheckSignatures,
     CheckSigned, Check, Settled
<1>4. CASE CollectSignatures
  BY <1>0, <1>4 DEF CollectSignatures
<1>5. CASE Receipt
  BY <1>0, <1>5 DEF Receipt, AfterHomeReceipt
<1>6. CASE UpdateRow \/ UpdateAckLost \/ Release
  <2>1. /\ UNCHANGED <<procVars, chan>> /\ smsg \in Msg
        /\ \/ spc' \in {"idle", "release"}
           \/ spc = "stage" /\ spc' = "collect" /\ smsg' = smsg
    BY <1>6 DEF UpdateRow, UpdateAckLost, Release, Statement, TypeOK
  <2>2. \A m \in Msg : stage'[m] = "foreign" =>
                         stage[m] = "foreign" \/ (m = smsg /\ spc = "stage")
    <3>1. \/ UNCHANGED stage
          \/ stage' = [stage EXCEPT ![smsg] = "home"]
          \/ spc = "stage" /\ SetStageForeign(smsg)
      BY <1>6 DEF UpdateRow, UpdateAckLost, Release, Statement, DeleteEventLog,
         IncrementRetryCount
    <3>2. CASE spc = "stage" /\ SetStageForeign(smsg)
      BY <2>1, <3>2 DEF SetStageForeign, TypeOK
    <3>3. CASE stage' = [stage EXCEPT ![smsg] = "home"]
      BY <2>1, <3>3 DEF TypeOK
    <3> QED
      BY <3>1, <3>2, <3>3
  <2> QED
    BY <1>0, <2>1, <2>2
<1> QED
  BY <1>1, <1>2, <1>3, <1>4, <1>5, <1>6 DEF SenderStep

\* Every step preserves SettledCopies, if a transaction of ours only reverts
\* when the contract's own conditions no longer hold.
LEMMA NextSettled ==
  TypeOK /\ SettledCopies /\ [Next]_vars /\ "revert" \notin Faults => SettledCopies'
<1> SUFFICES ASSUME TypeOK, SettledCopies, [Next]_vars, "revert" \notin Faults
             PROVE  SettledCopies'
  OBVIOUS
<1> USE DEF SettledCopies, SettledPcs, StageMatchesChain, Busy, procVars, rowVars
<1>0. \A m \in Msg : Settled(m) => Settled(m)'
  BY SettledMonotone
<1>1. ASSUME NEW m \in Msg, Index(m) PROVE SettledCopies'
  <2>1. \A o \in Msg : stage'[o] = "foreign" => stage[o] = "foreign"
    BY <1>1 DEF Index, InsertRow, TypeOK
  <2>2. UNCHANGED <<procVars, chan, senderVars, chainVars>>
    BY <1>1 DEF Index
  <2>3. \A o : Settled(o)' <=> Settled(o)
    BY <2>2 DEF chainVars, Settled, Collected, SignatureCount
  <2> QED
    BY <2>1, <2>2, <2>3 DEF senderVars
<1>2. CASE ChainStep
  <2>1. UNCHANGED <<rowVars, procVars, chan, spc, smsg, sstage>>
    BY <1>2 DEF ChainStep, TxIncluded, LooseIncluded, OthersSign, OthersRelay,
       senderVars
  <2>2. /\ \A p \in Processor : Busy(p) => pmsg[p] \in Msg
        /\ \A i \in 1 .. Len(chan) : chan[i].msg \in Msg
        /\ spc \notin {"idle", "stopped"} => smsg \in Msg
    <3>1. \A i \in 1 .. Len(chan) : chan[i] \in Job
      BY DEF TypeOK
    <3> QED
      BY <3>1 DEF TypeOK, Job
  <2>3. spc = "receipt" /\ stx' \in {"ok", "reverted"} => Settled(smsg)'
    <3>1. CASE TxIncluded
      <4> SUFFICES ASSUME spc = "receipt" PROVE Settled(smsg)'
        OBVIOUS
      <4>1. smsg \in Msg /\ Leg = "home" /\ smsg' = smsg
        BY <2>1, <2>2 DEF Leg
      <4>2. CASE Apply(smsg, Leg)
        BY <4>1, <4>2 DEF Apply, Settled, TypeOK
      <4>3. CASE ~Accepts(smsg, Leg)
        BY <1>0, <4>1, <4>3 DEF Accepts, Settled
      <4> QED
        BY <3>1, <4>2, <4>3 DEF TxIncluded
    <3>2. CASE ~TxIncluded
      BY <1>0, <1>2, <2>1, <2>2, <3>2 DEF ChainStep, LooseIncluded, OthersSign,
         OthersRelay, senderVars
    <3> QED
      BY <3>1, <3>2
  <2> QED
    BY <1>0, <2>1, <2>2, <2>3
<1>3. CASE Shutdown \/ UNCHANGED vars
  <2>1. UNCHANGED <<rowVars, procVars, chan, senderVars, chainVars>>
    BY <1>3 DEF Shutdown, vars
  <2>2. \A o : Settled(o)' <=> Settled(o)
    BY <2>1 DEF chainVars, Settled, Collected, SignatureCount
  <2> QED
    BY <2>1, <2>2 DEF senderVars
<1>4. CASE Restart \/ Crash
  <2>1. /\ UNCHANGED rowVars /\ chan' = <<>> /\ spc' = "idle"
        /\ \A p \in Processor : ppc'[p] = "loop"
    BY <1>4 DEF Restart, Crash, Start, SenderDone
  <2> QED
    BY <1>0, <2>1
<1> QED
  BY <1>1, <1>2, <1>3, <1>4, ProcessorSettled, SenderSettled DEF Next

\* A row leaves the table by one statement of the sender only.
LEMMA DeletedBySender ==
  ASSUME TypeOK, [Next]_vars, NEW m \in Msg, Stored(m), isProcessed'[m] = "absent"
  PROVE  spc = "delete" /\ m = smsg /\ (UpdateRow \/ UpdateAckLost)
<1> USE DEF Stored, rowVars
<1>1. UpdateRow \/ UpdateAckLost
  <2>1. CASE UNCHANGED vars
    BY <2>1 DEF vars
  <2>2. CASE \E o \in Msg : Index(o)
    BY <2>2 DEF Index, InsertRow, TypeOK
  <2>3. CASE \E p \in Processor : ProcessorStep(p)
    BY <2>3 DEF ProcessorStep, ProcessorLoop, SelectRow, NoRow, CommitClaim,
       RollbackClaim, ClaimAckLost, MarkClaimed, ProcessMessage,
       ProcessMessageFails, SendToChannel, TypeOK
  <2>4. CASE Release
    BY <2>4 DEF Release, IncrementRetryCount, TypeOK
  <2>5. CASE SenderStep /\ ~Release
    BY <2>5 DEF SenderStep, Receive, SenderStops, Prepare, ForeignDisabled,
       CheckAffirmed, CheckAffirmations, CheckSignatures, CheckSigned, Check,
       CollectSignatures, CallFails, Submit, SubmitFails, Receipt,
       ReceiptFails, UpdateRowFails, ReleaseFails
  <2>6. CASE ChainStep
    BY <2>6 DEF ChainStep, TxIncluded, LooseIncluded, OthersSign, OthersRelay
  <2>7. CASE Shutdown \/ Restart \/ Crash
    BY <2>7 DEF Shutdown, Restart, Crash
  <2> QED
    BY <2>1, <2>2, <2>3, <2>4, <2>5, <2>6, <2>7 DEF Next
<1>2. spc = "delete" /\ m = smsg
  BY <1>1 DEF UpdateRow, UpdateAckLost, Statement, DeleteEventLog,
     IncrementRetryCount, SetStageForeign, TypeOK
<1> QED
  BY <1>1, <1>2

\* No message is dropped unsigned, for any number of messages, processors and
\* validators, across lost receipts, failed statements, crashes and restarts
\* with another configuration.
THEOREM NoUnsignedDrop ==
  ASSUME "revert" \notin Faults
  PROVE  Spec => DeleteOnlyWhenSettled
<1>1. Init => SettledCopies
  BY DEF Init, SettledCopies, SettledPcs, StageMatchesChain, Busy
<1>2. TypeOK /\ SettledCopies /\ [Next]_vars => SettledCopies'
  BY NextSettled
<1>3. TypeOK /\ SettledCopies /\ [Next]_vars
        => [\A m \in Msg : Stored(m) /\ isProcessed'[m] = "absent" => Settled(m)]_vars
  <2> SUFFICES ASSUME TypeOK, SettledCopies, [Next]_vars, NEW m \in Msg,
                      Stored(m), isProcessed'[m] = "absent"
               PROVE  Settled(m)
    OBVIOUS
  <2>1. spc = "delete" /\ m = smsg
    BY DeletedBySender
  <2> QED
    BY <2>1 DEF SettledCopies, SettledPcs
<1> QED
  BY <1>1, <1>2, <1>3, TypeCorrect, PTL DEF Spec, DeleteOnlyWhenSettled

\* A row resumes at the foreign stage only if the home chain has settled it.
THEOREM StageIsTruthful ==
  ASSUME "revert" \notin Faults
  PROVE  Spec => []StageMatchesChain
<1>1. Init => SettledCopies
  BY DEF Init, SettledCopies, SettledPcs, StageMatchesChain, Busy
<1>2. TypeOK /\ SettledCopies /\ [Next]_vars => SettledCopies'
  BY NextSettled
<1>3. SettledCopies => StageMatchesChain
  BY DEF SettledCopies
<1> QED
  BY <1>1, <1>2, <1>3, TypeCorrect, PTL DEF Spec

-----------------------------------------------------------------------------
(* Our signature is only ever for a stored row.  A copy of a claim outlives   *)
(* its row when the COMMIT or a release was lost on the way, and a            *)
(* transaction outlives its sender; what holds of each is that the row is     *)
(* there or the home chain wants no signature of ours any more.               *)

Backed(m) == Stored(m) \/ Settled(m)

WorkIsBacked ==
  /\ \A p \in Processor : Busy(p) => Backed(pmsg[p])
  /\ \A i \in 1 .. Len(chan) : Backed(chan[i].msg)
  /\ spc \notin {"idle", "stopped"} => Backed(smsg)
  /\ \A tx \in loose : Backed(tx[1])

\* A row is deleted when its message is settled, and that is for good.
LEMMA BackedMonotone ==
  ASSUME TypeOK, SettledCopies, [Next]_vars, NEW m \in Msg, Backed(m)
  PROVE  Backed(m)'
<1>1. CASE Settled(m)
  BY <1>1, SettledMonotone DEF Backed
<1>2. CASE Stored(m) /\ isProcessed'[m] = "absent"
  <2>1. spc = "delete" /\ m = smsg
    BY <1>2, DeletedBySender
  <2>2. Settled(m)
    BY <2>1 DEF SettledCopies, SettledPcs
  <2> QED
    BY <1>1, <2>2
<1>3. CASE Stored(m) /\ isProcessed'[m] # "absent"
  BY <1>3 DEF Backed, Stored
<1> QED
  BY <1>1, <1>2, <1>3 DEF Backed

\* Every step preserves WorkIsBacked: a task takes up a row of the table, or
\* what another task hands it.
LEMMA NextBacked ==
  TypeOK /\ SettledCopies /\ WorkIsBacked /\ [Next]_vars => WorkIsBacked'
<1> SUFFICES ASSUME TypeOK, SettledCopies, WorkIsBacked, [Next]_vars
             PROVE  WorkIsBacked'
  OBVIOUS
<1> USE DEF Busy
<1>0. \A m \in Msg : Backed(m) => Backed(m)'
  BY BackedMonotone
<1>1. (\A p \in Processor : Busy(p) => Backed(pmsg[p]))'
  <2> SUFFICES ASSUME NEW q \in Processor, Busy(q)'
               PROVE  \E m \in Msg : pmsg'[q] = m /\ Backed(m)
    BY <1>0 DEF Backed, Stored, Settled, Collected, SignatureCount
  <2>0. pmsg[q] = pmsg'[q] /\ Busy(q) => pmsg[q] \in Msg /\ Backed(pmsg[q])
    BY DEF WorkIsBacked, TypeOK
  <2>1. ASSUME NEW p \in Processor, SelectRow(p) PROVE \E m \in Msg : pmsg'[q] = m /\ Backed(m)
    <3>1. PICK m \in Msg : /\ Claimable(m)
                           /\ pmsg' = [pmsg EXCEPT ![p] = m]
                           /\ ppc' = [ppc EXCEPT ![p] = "locked"]
      BY <2>1 DEF SelectRow, NextRow
    <3>2. CASE q = p
      BY <3>1, <3>2 DEF TypeOK, Claimable, Backed, Stored
    <3>3. CASE q # p
      BY <2>0, <3>1, <3>3 DEF TypeOK
    <3> QED
      BY <3>2, <3>3
  <2>2. ASSUME NEW p \in Processor, ProcessorStep(p), ~SelectRow(p)
        PROVE  pmsg'[q] = pmsg[q] /\ Busy(q)
    BY <2>2 DEF ProcessorStep, ProcessorLoop, NoRow, CommitClaim, RollbackClaim,
       ClaimAckLost, ProcessMessage, ProcessMessageFails, SendToChannel,
       BackToLoop, TypeOK
  <2>3. CASE ~ \E p \in Processor : ProcessorStep(p)
    <3>1. Restart \/ Crash \/ UNCHANGED procVars
      BY <2>3 DEF Next, vars, Index, SenderStep, Receive, SenderStops, Prepare,
         ForeignDisabled, CheckAffirmed, CheckAffirmations, CheckSignatures,
         CheckSigned, Check, CollectSignatures, CallFails, Submit, SubmitFails,
         Receipt, ReceiptFails, UpdateRow, UpdateRowFails, UpdateAckLost,
         Release, ReleaseFails, ChainStep, TxIncluded, LooseIncluded,
         OthersSign, OthersRelay, Shutdown
    <3>2. ~Restart /\ ~Crash
      BY DEF Restart, Crash, Start
    <3> QED
      BY <2>0, <3>1, <3>2 DEF procVars
  <2> QED
    BY <2>0, <2>1, <2>2, <2>3
<1>2. (\A i \in 1 .. Len(chan) : Backed(chan[i].msg))'
  <2> SUFFICES ASSUME NEW i \in 1 .. Len(chan')
               PROVE  \E m \in Msg : chan'[i].msg = m /\ Backed(m)
    BY <1>0 DEF Backed, Stored, Settled, Collected, SignatureCount
  <2>0. \A j \in 1 .. Len(chan) : chan[j].msg \in Msg /\ Backed(chan[j].msg)
    <3>1. \A j \in 1 .. Len(chan) : chan[j] \in Job
      BY DEF TypeOK
    <3> QED
      BY <3>1 DEF WorkIsBacked, Job
  <2>1. ASSUME NEW p \in Processor, SendToChannel(p)
        PROVE  \E m \in Msg : chan'[i].msg = m /\ Backed(m)
    <3>1. Backed(pmsg[p])
      BY <2>1 DEF WorkIsBacked, SendToChannel
    <3> QED
      BY <2>0, <2>1, <3>1, SendPositions
  <2>2. CASE Receive
    BY <2>0, <2>2, ReceivePositions
  <2>3. CASE ~Receive /\ ~ \E p \in Processor : SendToChannel(p)
    <3>1. Restart \/ Crash \/ UNCHANGED chan
      BY <2>3 DEF Next, vars, Index, ProcessorStep, ProcessorLoop, SelectRow,
         NoRow, CommitClaim, RollbackClaim, ClaimAckLost, ProcessMessage,
         ProcessMessageFails, SenderStep, SenderStops, Prepare, ForeignDisabled,
         CheckAffirmed, CheckAffirmations, CheckSignatures, CheckSigned, Check,
         CollectSignatures, CallFails, Submit, SubmitFails, Receipt,
         ReceiptFails, UpdateRow, UpdateRowFails, UpdateAckLost, Release,
         ReleaseFails, ChainStep, TxIncluded, LooseIncluded, OthersSign,
         OthersRelay, Shutdown
    <3>2. ~Restart /\ ~Crash
      <4>1. Restart \/ Crash => chan' = <<>>
        BY DEF Restart, Crash, Start
      <4> QED
        BY <4>1
    <3> QED
      BY <2>0, <3>1, <3>2
  <2> QED
    BY <2>1, <2>2, <2>3
<1>3. (spc \notin {"idle", "stopped"} => Backed(smsg))'
  <2> SUFFICES ASSUME spc' \notin {"idle", "stopped"}
               PROVE  \E m \in Msg : smsg' = m /\ Backed(m)
    BY <1>0 DEF Backed, Stored, Settled, Collected, SignatureCount
  <2>1. CASE Receive
    <3>1. smsg' = chan[1].msg /\ smsg' \in Msg /\ Len(chan) \in Nat /\ Len(chan) > 0
      BY <2>1, ReceivePositions
    <3> QED
      BY <3>1 DEF WorkIsBacked
  <2>2. CASE ~Receive
    <3>1. smsg' = smsg /\ spc \notin {"idle", "stopped"}
      <4>1. CASE SenderStep
        BY <2>2, <4>1 DEF SenderStep, SenderStops, Prepare, ForeignDisabled,
           CheckAffirmed, CheckAffirmations, CheckSignatures, CheckSigned,
           Check, CollectSignatures, CallFails, Submit, SubmitFails, Receipt,
           ReceiptFails, UpdateRow, UpdateRowFails, UpdateAckLost, Statement,
           Release, ReleaseFails, SenderGoto, SenderDone
      <4>2. CASE \E p \in Processor : ProcessorStep(p)
        BY <4>2 DEF ProcessorStep, ProcessorLoop, SelectRow, NoRow, CommitClaim,
           RollbackClaim, ClaimAckLost, ProcessMessage, ProcessMessageFails,
           SendToChannel, senderVars
      <4>3. CASE ~SenderStep /\ ~ \E p \in Processor : ProcessorStep(p)
        BY <4>3 DEF Next, vars, Index, ChainStep, TxIncluded, LooseIncluded,
           OthersSign, OthersRelay, Shutdown, Restart, Crash, Start, SenderDone,
           senderVars
      <4> QED
        BY <4>1, <4>2, <4>3
    <3> QED
      BY <3>1 DEF WorkIsBacked, TypeOK
  <2> QED
    BY <2>1, <2>2
<1>4. (\A tx \in loose : Backed(tx[1]))'
  <2> SUFFICES ASSUME NEW tx \in loose'
               PROVE  \E m \in Msg : tx[1] = m /\ Backed(m)
    BY <1>0 DEF Backed, Stored, Settled, Collected, SignatureCount
  <2>1. CASE tx \in loose
    BY <2>1 DEF WorkIsBacked, TypeOK
  <2>2. CASE tx \notin loose
    <3>1. /\ (Crash /\ stx = "pending") \/ ReceiptFails \/ SubmitFails
          /\ tx[1] = smsg
      BY <2>2, LooseGrows
    <3> QED
      BY <3>1 DEF WorkIsBacked, TypeOK, ReceiptFails, SubmitFails
  <2> QED
    BY <2>1, <2>2
<1> QED
  BY <1>1, <1>2, <1>3, <1>4 DEF WorkIsBacked

\* Our signature appears by the inclusion of a transaction of ours, awaited or
\* not, that the home chain still accepts.
LEMMA SignedByInclusion ==
  ASSUME TypeOK, [Next]_vars, NEW m \in Msg, ~signed[m], signed'[m]
  PROVE  /\ ~Settled(m)
         /\ \/ spc \notin {"idle", "stopped"} /\ smsg = m
            \/ \E tx \in loose : tx[1] = m
<1>1. TxIncluded \/ LooseIncluded
  BY DEF Next, vars, Index, ProcessorStep, ProcessorLoop, SelectRow, NoRow,
     CommitClaim, RollbackClaim, ClaimAckLost, ProcessMessage,
     ProcessMessageFails, SendToChannel, SenderStep, Receive, SenderStops,
     Prepare, ForeignDisabled, CheckAffirmed, CheckAffirmations,
     CheckSignatures, CheckSigned, Check, CollectSignatures, CallFails,
     Submit, SubmitFails, Receipt, ReceiptFails, UpdateRow, UpdateRowFails,
     UpdateAckLost, Release, ReleaseFails, ChainStep, OthersSign, OthersRelay,
     Shutdown, Restart, Crash, Start, chainVars
<1>2. ASSUME NEW o \in Msg, NEW leg, Accepts(o, leg), Apply(o, leg)
      PROVE  o = m /\ ~Settled(m)
  <2>1. o = m /\ leg = "home"
    BY <1>2 DEF Apply, TypeOK
  <2> QED
    BY <1>2, <2>1 DEF Accepts, Settled
<1>3. CASE TxIncluded
  <2>1. smsg \in Msg /\ spc \notin {"idle", "stopped"}
    BY <1>3 DEF TxIncluded, TypeOK
  <2>2. Accepts(smsg, Leg) /\ Apply(smsg, Leg)
    BY <1>3 DEF TxIncluded, chainVars
  <2> QED
    BY <1>2, <2>1, <2>2
<1>4. CASE LooseIncluded
  <2>1. PICK tx \in loose : Accepts(tx[1], tx[2]) /\ Apply(tx[1], tx[2])
    BY <1>4 DEF LooseIncluded, chainVars
  <2>2. tx[1] \in Msg
    BY DEF TypeOK
  <2> QED
    BY <1>2, <2>1, <2>2
<1> QED
  BY <1>1, <1>3, <1>4

\* No signature without its row, whatever is lost between the indexer's INSERT
\* and the inclusion of the transaction, and for every transaction that a crash,
\* a failed receipt or a lost reply of send() left behind.
THEOREM SignsStoredRows ==
  ASSUME "revert" \notin Faults
  PROVE  Spec => OnlyStoredRowsAreSigned
<1>1. Init => SettledCopies /\ WorkIsBacked
  BY DEF Init, SettledCopies, SettledPcs, StageMatchesChain, Busy, WorkIsBacked
<1>2. TypeOK /\ SettledCopies /\ [Next]_vars => SettledCopies'
  BY NextSettled
<1>3. TypeOK /\ SettledCopies /\ WorkIsBacked /\ [Next]_vars => WorkIsBacked'
  BY NextBacked
<1>4. TypeOK /\ WorkIsBacked /\ [Next]_vars
        => [\A m \in Msg : ~signed[m] /\ signed'[m] => Stored(m)]_vars
  BY SignedByInclusion DEF WorkIsBacked, Backed
<1> QED
  BY <1>1, <1>2, <1>3, <1>4, TypeCorrect, PTL DEF Spec, OnlyStoredRowsAreSigned

=============================================================================
