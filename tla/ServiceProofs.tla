---------------------------- MODULE ServiceProofs ----------------------------
(***************************************************************************)
(* Theorems about Service: the process as a whole does to the indexer, the *)
(* checker and the pipeline nothing that they do not do alone, so what is  *)
(* proved of each holds of all; and from their agreement on the rows, what *)
(* no part can promise alone: a signature of ours is justified by a block. *)
(***************************************************************************)
EXTENDS Service, ValidatorProofs

RelayFacts == INSTANCE RelayPipelineProofs
    WITH Msg <- Log, Faults <- PipelineFaults, Rank <- [l \in Log |-> 0]

-----------------------------------------------------------------------------
\* To the indexer and the checker the pipeline is a sender that deletes rows, and
\* a process that starts and stops with them.
LEMMA ValidatorStepSimulation == [ServiceNext]_serviceVars => [Next]_vars
<1> SUFFICES ASSUME [ServiceNext]_serviceVars PROVE Next \/ UNCHANGED vars
  OBVIOUS
<1>1. CASE Watch
  BY <1>1 DEF Watch, Next
<1>2. CASE Revalidate
  BY <1>2 DEF Revalidate, Next
<1>3. CASE Send
  BY <1>3 DEF Send, Next
<1>4. CASE BridgesMove \/ UNCHANGED serviceVars \/ \E p \in Processor : Process(p)
  BY <1>4 DEF BridgesMove, serviceVars, Process
<1>5. CASE StopAll \/ StartAgain
  BY <1>5 DEF StopAll, StartAgain, Next
<1>6. ASSUME NEW l \in Log, Store(l) \/ StoreFails(l) PROVE Next
  BY <1>6 DEF Store, StoreFails, Next
<1> QED
  BY <1>1, <1>2, <1>3, <1>4, <1>5, <1>6 DEF ServiceNext

THEOREM ServiceImplementsValidator == ServiceSpec => ImplementsValidator
<1>1. ServiceInit => Init
  BY DEF ServiceInit
<1> QED
  BY <1>1, ValidatorStepSimulation, PTL DEF ServiceSpec, ImplementsValidator, Spec

\* What no part that the pipeline leaves out can change: its rows' columns, its
\* tasks, the bridges; and the shutdown flag, but for the signal and a new start.
LEMMA ShutdownIsShared ==
    ASSUME Poll \/ GetLogs \/ ChainMoves \/ Check \/ \E l \in Log : InsertFails(l)
    PROVE  UNCHANGED shutdown
BY DEF Poll, GetLogs, ChainMoves, Check, InsertFails, Checker!InsertFails,
       Checker!CheckerStep, Checker!ResolveFinalized, Checker!QueryPending,
       Checker!LookUp, Checker!Unavailable, Checker!Finished, Checker!MarkConfirmed,
       Checker!SelectAffected, Checker!RecordFalsePositive, Checker!CycleFails,
       Checker!SleepOrStop, Checker!lifeVars, Indexer!ResolveUpperBound,
       Indexer!ResolveFails, Indexer!NoNewBlocks, Indexer!BeginPoll,
       Indexer!GetLogsFails, Indexer!NextChunk, Indexer!EndPoll, Indexer!SleepOrStop,
       Indexer!GetLogs, Indexer!ChainGrows, Indexer!ChainReorganises, Indexer!lifeVars

\* To the pipeline the indexer is its INSERTs, and the checker a lock it passes over.
LEMMA RelayStepSimulation == [ServiceNext]_serviceVars => [Relay!Next]_(Relay!vars)
<1> SUFFICES ASSUME [ServiceNext]_serviceVars
             PROVE  Relay!Next \/ UNCHANGED Relay!vars
  OBVIOUS
<1>1. CASE Watch \/ Revalidate \/ UNCHANGED serviceVars \/ \E l \in Log : StoreFails(l)
  <2>1. UNCHANGED <<pipelineVars, shutdown>>
    BY <1>1, ShutdownIsShared DEF Watch, Revalidate, StoreFails, serviceVars, vars
  <2> QED
    BY <2>1 DEF pipelineVars, Relay!vars, Relay!rowVars, Relay!procVars,
                Relay!senderVars, Relay!chainVars, Relay!lifeVars
<1>2. ASSUME NEW l \in Log, Store(l) PROVE Relay!Next
  BY <1>2 DEF Store, Relay!Next
<1>3. ASSUME NEW p \in Processor, Process(p) PROVE Relay!Next
  BY <1>3 DEF Process, Relay!Next
<1>4. CASE Send \/ BridgesMove \/ StopAll \/ StartAgain
  BY <1>4 DEF Send, BridgesMove, StopAll, StartAgain, Relay!Next
<1> QED
  BY <1>1, <1>2, <1>3, <1>4 DEF ServiceNext

\* What is proved of the pipeline on its own holds while the rows it works on
\* are stored late, judged under its hands, and held back by the checker.
THEOREM ServiceImplementsPipeline == ServiceSpec => ImplementsPipeline
<1>1. ServiceInit => Relay!Init
  BY DEF ServiceInit
<1> QED
  BY <1>1, RelayStepSimulation, PTL DEF ServiceSpec, ImplementsPipeline, Relay!Spec

-----------------------------------------------------------------------------
\* The proof module speaks of the pipeline under a name of its own.
LEMMA SameSender == Relay!SenderStep => RelayFacts!SenderStep
<1> USE DEF Relay!rowVars, Relay!procVars, Relay!senderVars, Relay!chainVars,
            Relay!lifeVars, RelayFacts!rowVars, RelayFacts!procVars,
            RelayFacts!senderVars, RelayFacts!chainVars, RelayFacts!lifeVars,
            Relay!SenderGoto, RelayFacts!SenderGoto, Relay!SenderDone,
            RelayFacts!SenderDone, Relay!Bridge, RelayFacts!Bridge,
            Relay!FromGnosis, RelayFacts!FromGnosis, Relay!ForeignOn,
            RelayFacts!ForeignOn, Relay!Stored, RelayFacts!Stored,
            Relay!SignatureCount, RelayFacts!SignatureCount, Relay!Collected,
            RelayFacts!Collected, Relay!Accepts, RelayFacts!Accepts, Relay!Leg,
            RelayFacts!Leg, Relay!Locked, RelayFacts!Locked
<1>1. Relay!Receive \/ Relay!SenderStops => RelayFacts!Receive \/ RelayFacts!SenderStops
  BY DEF Relay!Receive, RelayFacts!Receive, Relay!SenderStops, RelayFacts!SenderStops
<1>2. Relay!Prepare \/ Relay!ForeignDisabled
      => RelayFacts!Prepare \/ RelayFacts!ForeignDisabled
  BY DEF Relay!Prepare, RelayFacts!Prepare, Relay!ForeignDisabled,
         RelayFacts!ForeignDisabled, Relay!KeyUsable, RelayFacts!KeyUsable,
         Relay!AtForeignStage, RelayFacts!AtForeignStage
<1>3. \/ Relay!CheckAffirmed \/ Relay!CheckAffirmations \/ Relay!CheckSignatures
      \/ Relay!CheckSigned \/ Relay!CollectSignatures
      => \/ RelayFacts!CheckAffirmed \/ RelayFacts!CheckAffirmations
         \/ RelayFacts!CheckSignatures \/ RelayFacts!CheckSigned
         \/ RelayFacts!CollectSignatures
  BY DEF Relay!CheckAffirmed, RelayFacts!CheckAffirmed, Relay!CheckAffirmations,
         RelayFacts!CheckAffirmations, Relay!CheckSignatures,
         RelayFacts!CheckSignatures, Relay!CheckSigned, RelayFacts!CheckSigned,
         Relay!Check, RelayFacts!Check, Relay!CollectSignatures,
         RelayFacts!CollectSignatures, Relay!EnoughSignatures,
         RelayFacts!EnoughSignatures
<1>4. \/ Relay!CallFails \/ Relay!Submit \/ Relay!SubmitFails \/ Relay!Receipt
      \/ Relay!ReceiptFails
      => \/ RelayFacts!CallFails \/ RelayFacts!Submit \/ RelayFacts!SubmitFails
         \/ RelayFacts!Receipt \/ RelayFacts!ReceiptFails
  BY DEF Relay!CallFails, RelayFacts!CallFails, Relay!Submit, RelayFacts!Submit,
         Relay!SubmitFails, RelayFacts!SubmitFails, Relay!Receipt, RelayFacts!Receipt,
         Relay!AfterHomeReceipt, RelayFacts!AfterHomeReceipt, Relay!ReceiptFails,
         RelayFacts!ReceiptFails, Relay!Abandon, RelayFacts!Abandon,
         Relay!KeyUsable, RelayFacts!KeyUsable
<1>5. \/ Relay!UpdateRow \/ Relay!UpdateRowFails \/ Relay!UpdateAckLost
      \/ Relay!Release \/ Relay!ReleaseFails
      => \/ RelayFacts!UpdateRow \/ RelayFacts!UpdateRowFails
         \/ RelayFacts!UpdateAckLost \/ RelayFacts!Release \/ RelayFacts!ReleaseFails
  BY DEF Relay!UpdateRow, RelayFacts!UpdateRow, Relay!UpdateRowFails,
         RelayFacts!UpdateRowFails, Relay!UpdateAckLost, RelayFacts!UpdateAckLost,
         Relay!Release, RelayFacts!Release, Relay!ReleaseFails,
         RelayFacts!ReleaseFails, Relay!Statement, RelayFacts!Statement,
         Relay!SetStageForeign, RelayFacts!SetStageForeign, Relay!DeleteEventLog,
         RelayFacts!DeleteEventLog, Relay!IncrementRetryCount,
         RelayFacts!IncrementRetryCount
<1> QED
  BY <1>1, <1>2, <1>3, <1>4, <1>5 DEF Relay!SenderStep, RelayFacts!SenderStep

LEMMA SameProcessor ==
    ASSUME NEW p \in Processor, Relay!ProcessorStep(p)
    PROVE  RelayFacts!ProcessorStep(p)
<1> USE DEF Relay!rowVars, Relay!procVars, Relay!senderVars, Relay!chainVars,
            Relay!lifeVars, RelayFacts!rowVars, RelayFacts!procVars,
            RelayFacts!senderVars, RelayFacts!chainVars, RelayFacts!lifeVars,
            Relay!BackToLoop, RelayFacts!BackToLoop
<1>1. Relay!ProcessorLoop(p) => RelayFacts!ProcessorLoop(p)
  BY DEF Relay!ProcessorLoop, RelayFacts!ProcessorLoop
<1>2. Relay!SelectRow(p) \/ Relay!NoRow(p) => RelayFacts!SelectRow(p) \/ RelayFacts!NoRow(p)
  <2>1. \A l \in Log : Relay!NextRow(l) <=> RelayFacts!NextRow(l)
    BY DEF Relay!NextRow, RelayFacts!NextRow, Relay!Claimable, RelayFacts!Claimable,
           Relay!Locked, RelayFacts!Locked
  <2> QED
    BY <2>1 DEF Relay!SelectRow, RelayFacts!SelectRow, Relay!NoRow, RelayFacts!NoRow
<1>3. \/ Relay!CommitClaim(p) \/ Relay!RollbackClaim(p) \/ Relay!ClaimAckLost(p)
      => \/ RelayFacts!CommitClaim(p) \/ RelayFacts!RollbackClaim(p)
         \/ RelayFacts!ClaimAckLost(p)
  BY DEF Relay!CommitClaim, RelayFacts!CommitClaim, Relay!RollbackClaim,
         RelayFacts!RollbackClaim, Relay!ClaimAckLost, RelayFacts!ClaimAckLost,
         Relay!MarkClaimed, RelayFacts!MarkClaimed
<1>4. \/ Relay!ProcessMessage(p) \/ Relay!ProcessMessageFails(p) \/ Relay!SendToChannel(p)
      => \/ RelayFacts!ProcessMessage(p) \/ RelayFacts!ProcessMessageFails(p)
         \/ RelayFacts!SendToChannel(p)
  BY DEF Relay!ProcessMessage, RelayFacts!ProcessMessage, Relay!ProcessMessageFails,
         RelayFacts!ProcessMessageFails, Relay!SendToChannel, RelayFacts!SendToChannel,
         Relay!CanProcess, RelayFacts!CanProcess, Relay!FromGnosis,
         RelayFacts!FromGnosis, Relay!Bridge, RelayFacts!Bridge
<1> QED
  BY <1>1, <1>2, <1>3, <1>4 DEF Relay!ProcessorStep, RelayFacts!ProcessorStep

LEMMA SameRelay == Relay!Spec => RelayFacts!Spec
<1> USE DEF Relay!rowVars, Relay!procVars, Relay!senderVars, Relay!chainVars,
            Relay!lifeVars, RelayFacts!rowVars, RelayFacts!procVars,
            RelayFacts!senderVars, RelayFacts!chainVars, RelayFacts!lifeVars
<1>1. Relay!Init => RelayFacts!Init
  BY DEF Relay!Init, RelayFacts!Init
<1>2. [Relay!Next]_(Relay!vars) => [RelayFacts!Next]_(RelayFacts!vars)
  <2>1. ASSUME NEW l \in Log, Relay!Index(l) PROVE RelayFacts!Index(l)
    BY <2>1 DEF Relay!Index, RelayFacts!Index, Relay!InsertRow, RelayFacts!InsertRow,
                Relay!Stored, RelayFacts!Stored
  <2>2. Relay!ChainStep => RelayFacts!ChainStep
    <3> USE DEF Relay!SignatureCount, RelayFacts!SignatureCount, Relay!Collected,
                RelayFacts!Collected, Relay!Accepts, RelayFacts!Accepts, Relay!Apply,
                RelayFacts!Apply, Relay!Leg, RelayFacts!Leg, Relay!FromGnosis,
                RelayFacts!FromGnosis
    <3>1. Relay!TxIncluded => RelayFacts!TxIncluded
      BY DEF Relay!TxIncluded, RelayFacts!TxIncluded
    <3>2. Relay!LooseIncluded => RelayFacts!LooseIncluded
      BY DEF Relay!LooseIncluded, RelayFacts!LooseIncluded
    <3>3. ASSUME NEW l \in Log, Relay!OthersSign(l) \/ Relay!OthersRelay(l)
          PROVE  RelayFacts!OthersSign(l) \/ RelayFacts!OthersRelay(l)
      BY <3>3 DEF Relay!OthersSign, RelayFacts!OthersSign, Relay!OthersRelay,
                  RelayFacts!OthersRelay
    <3> QED
      BY <3>1, <3>2, <3>3 DEF Relay!ChainStep, RelayFacts!ChainStep
  <2>3. Relay!Shutdown \/ Relay!Restart \/ Relay!Crash
        => RelayFacts!Shutdown \/ RelayFacts!Restart \/ RelayFacts!Crash
    BY DEF Relay!Shutdown, RelayFacts!Shutdown, Relay!Restart, RelayFacts!Restart,
           Relay!Crash, RelayFacts!Crash, Relay!Start, RelayFacts!Start,
           Relay!SenderDone, RelayFacts!SenderDone, Relay!Abandon, RelayFacts!Abandon,
           Relay!Leg, RelayFacts!Leg
  <2>4. UNCHANGED Relay!vars => UNCHANGED RelayFacts!vars
    BY DEF Relay!vars, RelayFacts!vars
  <2> QED
    BY <2>1, <2>2, <2>3, <2>4, SameSender, SameProcessor
       DEF Relay!Next, RelayFacts!Next
<1> QED
  BY <1>1, <1>2, PTL DEF Relay!Spec, RelayFacts!Spec

\* What is proved of the pipeline holds in the service.
LEMMA RelayAssumptions ==
    /\ NoMsg \notin Log /\ [l \in Log |-> 0] \in [Log -> Nat]
    /\ BridgeMode \in [Log -> RelayFacts!BridgeModes]
    /\ ChannelCap \in Nat \ {0} /\ MaxRetry \in Nat \ {0}
    /\ Keys \subseteq RelayFacts!Bridges
    /\ ExecConfigs \subseteq SUBSET RelayFacts!Bridges /\ ExecConfigs # {}
    /\ Required \in Nat \ {0} /\ MaxOthers \in Nat
    /\ MaxInserts \in Nat /\ MaxSignals \in Nat /\ MaxCrashes \in Nat
    /\ PipelineFaults \subseteq RelayFacts!FaultKinds
BY PipelineAssumption, PipelineFaultAssumption
   DEF RelayFacts!BridgeModes, RelayFacts!Bridges, RelayFacts!FaultKinds

LEMMA RelayTypeOK == ServiceSpec => []RelayFacts!TypeOK
<1>1. RelayFacts!Spec => []RelayFacts!TypeOK
  BY RelayFacts!TypeCorrect, RelayAssumptions
<1> QED
  BY <1>1, ServiceImplementsPipeline, SameRelay, PTL DEF ImplementsPipeline

-----------------------------------------------------------------------------
\* The two halves of a row are there together, and a row under the lock of a claim
\* is there: the DELETE of the sender waits for it.
RowsAgree == \A l \in Log : Relay!Stored(l) <=> status[l] # "absent"
LockedIsStored == \A p \in Processor : ppc[p] = "locked" => Relay!Stored(pmsg[p])

\* A statement of the sender removes the row in its hand, or none, and brings none.
LEMMA SenderRows ==
    ASSUME RelayFacts!TypeOK, Relay!SenderStep
    PROVE  /\ \A l \in Log :
                 /\ Relay!Stored(l)' => Relay!Stored(l)
                 /\ Relay!Stored(l) /\ ~Relay!Stored(l)' => l = smsg /\ ~Relay!Locked(l)
           /\ UNCHANGED <<ppc, pmsg>>
<1> USE DEF Relay!Stored, Relay!rowVars, Relay!procVars
<1>1. CASE Relay!UpdateRow \/ Relay!UpdateAckLost \/ Relay!Release
  <2>1. ~Relay!Locked(smsg) /\ smsg \in Log /\ UNCHANGED <<ppc, pmsg>>
    BY <1>1 DEF Relay!UpdateRow, Relay!UpdateAckLost, Relay!Release, Relay!Statement,
                RelayFacts!TypeOK
  <2>2. \/ Relay!SetStageForeign(smsg) \/ Relay!DeleteEventLog(smsg)
        \/ Relay!IncrementRetryCount(smsg)
    BY <1>1 DEF Relay!UpdateRow, Relay!UpdateAckLost, Relay!Release, Relay!Statement
  <2>3. isProcessed \in [Log -> {"absent", "false", "true"}]
    BY DEF RelayFacts!TypeOK
  <2> QED
    BY <2>1, <2>2, <2>3 DEF Relay!SetStageForeign, Relay!DeleteEventLog,
                            Relay!IncrementRetryCount
<1>2. CASE ~(Relay!UpdateRow \/ Relay!UpdateAckLost \/ Relay!Release)
  <2>1. UNCHANGED <<isProcessed, ppc, pmsg>>
    BY <1>2 DEF Relay!SenderStep, Relay!Receive, Relay!SenderStops, Relay!Prepare,
                Relay!ForeignDisabled, Relay!CheckAffirmed, Relay!CheckAffirmations,
                Relay!CheckSignatures, Relay!CheckSigned, Relay!Check,
                Relay!CollectSignatures, Relay!CallFails, Relay!Submit,
                Relay!SubmitFails, Relay!Receipt, Relay!ReceiptFails,
                Relay!UpdateRowFails, Relay!ReleaseFails
  <2> QED
    BY <2>1
<1> QED
  BY <1>1, <1>2

\* A claim changes no row but the one under its lock, which is there.
LEMMA ProcessorRows ==
    ASSUME RelayFacts!TypeOK, LockedIsStored, NEW p \in Processor,
           Relay!ProcessorStep(p)
    PROVE  /\ \A l \in Log : Relay!Stored(l)' <=> Relay!Stored(l)
           /\ LockedIsStored'
<1> USE DEF Relay!Stored, Relay!rowVars
<1>1. \A q \in Processor : ppc[q] = "locked" => pmsg[q] \in Log
  BY DEF RelayFacts!TypeOK, RelayFacts!Busy
<1>2. CASE Relay!CommitClaim(p) \/ Relay!ClaimAckLost(p)
  <2>1. ppc[p] = "locked" /\ isProcessed' = [isProcessed EXCEPT ![pmsg[p]] = "true"]
    BY <1>2 DEF Relay!CommitClaim, Relay!ClaimAckLost, Relay!MarkClaimed
  <2>2. \A l \in Log : Relay!Stored(l)' <=> Relay!Stored(l)
    BY <1>1, <2>1 DEF LockedIsStored, RelayFacts!TypeOK
  <2>3. ppc'[p] # "locked" /\ \A q \in Processor : q # p => UNCHANGED <<ppc[q], pmsg[q]>>
    BY <1>2 DEF Relay!CommitClaim, Relay!ClaimAckLost, Relay!BackToLoop,
                RelayFacts!TypeOK
  <2> QED
    BY <1>1, <2>2, <2>3 DEF LockedIsStored
<1>3. CASE Relay!SelectRow(p)
  <2>1. PICK l \in Log : /\ Relay!Claimable(l)
                         /\ ppc' = [ppc EXCEPT ![p] = "locked"]
                         /\ pmsg' = [pmsg EXCEPT ![p] = l]
    BY <1>3 DEF Relay!SelectRow, Relay!NextRow
  <2>2. UNCHANGED isProcessed
    BY <1>3 DEF Relay!SelectRow
  <2> QED
    BY <2>1, <2>2 DEF LockedIsStored, Relay!Claimable, RelayFacts!TypeOK
<1>4. CASE ~(Relay!CommitClaim(p) \/ Relay!ClaimAckLost(p) \/ Relay!SelectRow(p))
  <2>1. /\ UNCHANGED isProcessed /\ ppc'[p] # "locked"
        /\ \A q \in Processor : q # p => UNCHANGED <<ppc[q], pmsg[q]>>
    BY <1>4 DEF Relay!ProcessorStep, Relay!ProcessorLoop, Relay!NoRow,
                Relay!RollbackClaim, Relay!ProcessMessage, Relay!ProcessMessageFails,
                Relay!SendToChannel, Relay!BackToLoop, RelayFacts!TypeOK
  <2> QED
    BY <2>1 DEF LockedIsStored
<1> QED
  BY <1>2, <1>3, <1>4

\* The checker judges rows that are there, and removes none.
LEMMA CheckerRows ==
    ASSUME CheckerFacts!TypeOK, Check, NEW l \in Log
    PROVE  status'[l] = "absent" <=> status[l] = "absent"
<1>1. CASE Checker!MarkConfirmed \/ Checker!RecordFalsePositive
  BY <1>1 DEF Checker!MarkConfirmed, Checker!RecordFalsePositive, Checker!SetStatus,
              Checker!PendingRows
<1>2. CASE ~(Checker!MarkConfirmed \/ Checker!RecordFalsePositive)
  BY <1>2 DEF Check, Checker!CheckerStep, Checker!ResolveFinalized,
              Checker!QueryPending, Checker!LookUp, Checker!Unavailable,
              Checker!Finished, Checker!SelectAffected, Checker!CycleFails,
              Checker!SleepOrStop, Checker!tableVars
<1> QED
  BY <1>1, <1>2

\* Every step of the service keeps the halves together: an INSERT fills both, a
\* DELETE empties both, and no claim, verdict or release touches a missing row.
LEMMA RowsStayTogether ==
    ASSUME RelayFacts!TypeOK, CheckerFacts!TypeOK, RowsAgree, LockedIsStored,
           [ServiceNext]_serviceVars
    PROVE  RowsAgree' /\ LockedIsStored'
<1>1. ASSUME NEW l \in Log, Store(l) PROVE RowsAgree' /\ LockedIsStored'
  <2>1. /\ status' = [status EXCEPT ![l] = IF @ = "absent" THEN Checker!NewStatus ELSE @]
        /\ UNCHANGED <<ppc, pmsg>>
        /\ isProcessed' = [isProcessed EXCEPT ![l] = IF @ = "absent" THEN "false" ELSE @]
    BY <1>1 DEF Store, InsertRow, Checker!InsertRow, Relay!Index, Relay!InsertRow,
                Relay!Stored, Relay!rowVars, Relay!procVars, CheckerFacts!TypeOK,
                RelayFacts!TypeOK
  <2>2. Checker!NewStatus # "absent"
    BY DEF Checker!NewStatus
  <2>3. \A p \in Processor : ppc[p] = "locked" => pmsg[p] \in Log
    BY DEF RelayFacts!TypeOK, RelayFacts!Busy
  <2> QED
    BY <2>1, <2>2, <2>3 DEF RowsAgree, LockedIsStored, Relay!Stored,
                            CheckerFacts!TypeOK, RelayFacts!TypeOK
<1>2. CASE Revalidate
  BY <1>2, CheckerRows DEF Revalidate, pipelineVars, RowsAgree, LockedIsStored,
                           Relay!Stored
<1>3. ASSUME NEW p \in Processor, Process(p) PROVE RowsAgree' /\ LockedIsStored'
  BY <1>3, ProcessorRows DEF Process, vars, tableVars, RowsAgree
<1>4. CASE Send
  <2>1. LockedIsStored'
    <3> SUFFICES ASSUME NEW p \in Processor, ppc'[p] = "locked"
                 PROVE  isProcessed'[pmsg'[p]] # "absent"
      BY DEF LockedIsStored, Relay!Stored
    <3>1. pmsg'[p] = pmsg[p] /\ ppc[p] = "locked" /\ pmsg[p] \in Log
      BY <1>4, SenderRows DEF Send, RelayFacts!TypeOK, RelayFacts!Busy
    <3>2. Relay!Stored(pmsg[p]) /\ Relay!Locked(pmsg[p])
      BY <3>1 DEF LockedIsStored, Relay!Locked
    <3> QED
      BY <1>4, <3>1, <3>2, SenderRows DEF Send, Relay!Stored
  <2>2. CASE \E l \in Log : Gone(l) /\ DeleteRow(l)
    <3>1. PICK l \in Log : Gone(l) /\ DeleteRow(l)
      BY <2>2
    <3>2. status' = [status EXCEPT ![l] = "absent"] /\ l = smsg
      BY <1>4, <3>1, SenderRows DEF Send, Gone, DeleteRow, Checker!DeleteRow, Relay!Stored
    <3>3. \A k \in Log : k # l => (Relay!Stored(k)' <=> Relay!Stored(k))
      BY <1>4, <3>2, SenderRows DEF Send
    <3> QED
      BY <2>1, <3>1, <3>2, <3>3 DEF RowsAgree, Gone, Relay!Stored, CheckerFacts!TypeOK
  <2>3. CASE (\A l \in Log : ~Gone(l)) /\ UNCHANGED vars
    <3>1. \A l \in Log : Relay!Stored(l)' <=> Relay!Stored(l)
      BY <1>4, <2>3, SenderRows DEF Send, Gone, Relay!Stored
    <3> QED
      BY <2>1, <2>3, <3>1 DEF RowsAgree, vars, tableVars
  <2> QED
    BY <1>4, <2>2, <2>3 DEF Send
<1>5. CASE \/ Watch \/ BridgesMove \/ StopAll \/ UNCHANGED serviceVars
           \/ \E l \in Log : StoreFails(l)
  <2>1. UNCHANGED <<status, isProcessed, ppc, pmsg>>
    BY <1>5 DEF Watch, BridgesMove, StopAll, serviceVars, vars, tableVars, pipelineVars,
                StoreFails, Poll, GetLogs, ChainMoves, InsertFails, Checker!InsertFails,
                Checker!tableVars, Shutdown, Checker!Shutdown, Relay!Shutdown,
                Relay!ChainStep, Relay!TxIncluded, Relay!LooseIncluded,
                Relay!OthersSign, Relay!OthersRelay, Relay!rowVars, Relay!procVars
  <2> QED
    BY <2>1 DEF RowsAgree, LockedIsStored, Relay!Stored
<1>6. CASE StartAgain
  <2>1. UNCHANGED <<status, isProcessed>> /\ ppc' = [p \in Processor |-> "loop"]
    BY <1>6 DEF StartAgain, Restart, Checker!Restart, Checker!tableVars, Relay!Crash,
                Relay!Restart, Relay!Start, Relay!rowVars
  <2> QED
    BY <2>1 DEF RowsAgree, LockedIsStored, Relay!Stored
<1> QED
  BY <1>1, <1>2, <1>3, <1>4, <1>5, <1>6 DEF ServiceNext

LEMMA RowsAreTogether == ServiceSpec => [](RowsAgree /\ LockedIsStored)
<1>1. ServiceInit => RowsAgree /\ LockedIsStored
  BY DEF ServiceInit, Init, Checker!Init, Relay!Init, RowsAgree, LockedIsStored,
         Relay!Stored
<1>2. ServiceSpec => []CheckerFacts!TypeOK
  BY ServiceImplementsValidator, CheckerInvariants, PTL DEF ImplementsValidator
<1>3. /\ RelayFacts!TypeOK /\ CheckerFacts!TypeOK /\ RowsAgree /\ LockedIsStored
      /\ [ServiceNext]_serviceVars
      => RowsAgree' /\ LockedIsStored'
  BY RowsStayTogether
<1> QED
  BY <1>1, <1>2, <1>3, RelayTypeOK, PTL DEF ServiceSpec

\* The parts keep their types, and the columns the indexer and the checker use are
\* filled and emptied with those the pipeline uses, whatever holds a row up.
THEOREM ServiceTypeCorrect == ServiceSpec => []ServiceTypeOK
<1>1. RelayFacts!TypeOK => Relay!TypeOK
  BY DEF RelayFacts!TypeOK, Relay!TypeOK, RelayFacts!Stages, Relay!Stages,
         RelayFacts!PPcs, Relay!PPcs, RelayFacts!SPcs, Relay!SPcs, RelayFacts!Job,
         Relay!Job, RelayFacts!Busy, Relay!Busy
<1>2. ServiceSpec => []TypeOK
  BY ServiceImplementsValidator, TypeCorrect, PTL DEF ImplementsValidator
<1>3. TypeOK /\ RelayFacts!TypeOK /\ RowsAgree => ServiceTypeOK
  BY <1>1 DEF ServiceTypeOK, RowsAgree
<1> QED
  BY <1>2, <1>3, RelayTypeOK, RowsAreTogether, PTL

-----------------------------------------------------------------------------
\* What is proved of the indexer, the checker and the two together.
THEOREM ServiceKeepsItsPromises ==
    ServiceSpec => [](AlarmMeansBrokenSafety /\ Indexer!NoGap /\ Checker!VerdictMatchesChain)
BY ServiceImplementsValidator, AlarmsMeanBrokenSafety, PartsKeepTheirPromises, PTL
   DEF ImplementsValidator

THEOREM ServiceImplementsChecker == ServiceSpec => ImplementsChecker
BY ServiceImplementsValidator, ValidatorImplementsChecker, PTL DEF ImplementsValidator

\* And of the pipeline: no claim without an owner, no row dropped unsigned.
THEOREM PipelineKeepsItsPromises ==
    ASSUME "revert" \notin PipelineFaults
    PROVE  ServiceSpec => []Relay!ClaimHasOwner /\ Relay!DeleteOnlyWhenSettled
<1>1. RelayFacts!Spec => []RelayFacts!ClaimHasOwner
  BY RelayFacts!ClaimsHaveOwners, RelayAssumptions
<1>2. RelayFacts!Spec => RelayFacts!DeleteOnlyWhenSettled
  BY RelayFacts!NoUnsignedDrop, RelayAssumptions
<1>3. RelayFacts!ClaimHasOwner => Relay!ClaimHasOwner
  BY DEF RelayFacts!ClaimHasOwner, Relay!ClaimHasOwner, RelayFacts!InFlight,
         Relay!InFlight, RelayFacts!Holds, Relay!Holds, RelayFacts!Busy, Relay!Busy,
         RelayFacts!Queued, Relay!Queued, RelayFacts!SenderHolds, Relay!SenderHolds
<1>4. [\A m \in Log : RelayFacts!Stored(m) /\ isProcessed'[m] = "absent"
                      => RelayFacts!Settled(m)]_(RelayFacts!vars)
      => [\A m \in Log : Relay!Stored(m) /\ isProcessed'[m] = "absent"
                         => Relay!Settled(m)]_(Relay!vars)
  BY DEF RelayFacts!Stored, Relay!Stored, RelayFacts!Settled, Relay!Settled,
         RelayFacts!Collected, Relay!Collected, RelayFacts!SignatureCount,
         Relay!SignatureCount, RelayFacts!vars, Relay!vars, RelayFacts!rowVars,
         Relay!rowVars
<1> QED
  BY <1>1, <1>2, <1>3, <1>4, ServiceImplementsPipeline, SameRelay, PTL
     DEF ImplementsPipeline, RelayFacts!DeleteOnlyWhenSettled,
         Relay!DeleteOnlyWhenSettled

\* The sender is all that removes a row, and removes it when it is settled, so a
\* log that was stored once is there or settled for good.
StoredIsKept == \A l \in stored : Relay!Stored(l) \/ Relay!Settled(l)

\* Only the INSERT adds to what the indexer has stored, and it fills the row.
LEMMA InsertStores ==
    ASSUME RelayFacts!TypeOK, [ServiceNext]_serviceVars, NEW l \in Log,
           l \in stored', l \notin stored
    PROVE  Relay!Stored(l)'
<1>1. ASSUME NEW k \in Log, Store(k) PROVE Relay!Stored(l)'
  <2>1. stored' = stored \cup {k}
    BY <1>1 DEF Store, InsertRow, Indexer!InsertLog
  <2>2. k = l
    BY <2>1
  <2> QED
    BY <1>1, <2>2 DEF Store, Relay!Index, Relay!InsertRow, Relay!Stored,
                      Relay!rowVars, RelayFacts!TypeOK
<1>2. CASE ~ \E k \in Log : Store(k)
  <2>1. UNCHANGED stored
    BY <1>2 DEF ServiceNext, Watch, Poll, GetLogs, ChainMoves, StoreFails, InsertFails,
                Revalidate, Check, Process, Send, DeleteRow, BridgesMove, StopAll,
                Shutdown, StartAgain, Restart, serviceVars, vars, indexerVars,
                Indexer!ResolveUpperBound, Indexer!ResolveFails, Indexer!NoNewBlocks,
                Indexer!BeginPoll, Indexer!GetLogsFails, Indexer!NextChunk,
                Indexer!EndPoll, Indexer!SleepOrStop, Indexer!GetLogs,
                Indexer!InsertFails, Indexer!ChainGrows, Indexer!ChainReorganises,
                Indexer!Shutdown, Indexer!Restart
  <2> QED
    BY <2>1
<1> QED
  BY <1>1, <1>2

\* Every log below the cursor is in the table or settled, but for failed INSERTs,
\* lagging nodes and broken safe blocks: what NoLogIsSkipped says of the indexer and
\* NoUnsignedDrop of the pipeline, put together.
THEOREM NothingIsForgotten ==
    ASSUME "revert" \notin PipelineFaults
    PROVE  ServiceSpec => []NoLogIsForgotten
<1>1. ServiceSpec => RelayFacts!DeleteOnlyWhenSettled
  <2>1. RelayFacts!Spec => RelayFacts!DeleteOnlyWhenSettled
    BY RelayFacts!NoUnsignedDrop, RelayAssumptions
  <2> QED
    BY <2>1, ServiceImplementsPipeline, SameRelay, PTL DEF ImplementsPipeline
<1>2. ServiceSpec => []StoredIsKept
  <2>1. ServiceInit => StoredIsKept
    BY DEF ServiceInit, Init, Indexer!Init, StoredIsKept
  <2>2. /\ RelayFacts!TypeOK /\ TypeOK /\ StoredIsKept /\ [ServiceNext]_serviceVars
        /\ [RelayFacts!Next]_(RelayFacts!vars)
        /\ [\A m \in Log : RelayFacts!Stored(m) /\ isProcessed'[m] = "absent"
                          => RelayFacts!Settled(m)]_(RelayFacts!vars)
        /\ TypeOK'
        => StoredIsKept'
    <3> SUFFICES ASSUME RelayFacts!TypeOK, TypeOK, TypeOK', StoredIsKept,
                        [ServiceNext]_serviceVars, [RelayFacts!Next]_(RelayFacts!vars),
                        [\A m \in Log : RelayFacts!Stored(m) /\ isProcessed'[m] = "absent"
                                        => RelayFacts!Settled(m)]_(RelayFacts!vars),
                        NEW l \in stored'
                 PROVE  Relay!Stored(l)' \/ Relay!Settled(l)'
      BY DEF StoredIsKept
    <3>1. l \in Log
      BY DEF TypeOK, Indexer!TypeOK
    <3>2. CASE l \notin stored
      BY <3>1, <3>2, InsertStores
    <3>3. CASE l \in stored
      <4>1. RelayFacts!Settled(l) => RelayFacts!Settled(l)'
        BY <3>1, RelayFacts!SettledMonotone, RelayAssumptions
      <4>2. Relay!Settled(l) <=> RelayFacts!Settled(l)
        BY DEF Relay!Settled, Relay!Collected, Relay!SignatureCount, RelayFacts!Settled,
               RelayFacts!Collected, RelayFacts!SignatureCount
      <4>3. Relay!Settled(l)' <=> RelayFacts!Settled(l)'
        BY DEF Relay!Settled, Relay!Collected, Relay!SignatureCount, RelayFacts!Settled,
               RelayFacts!Collected, RelayFacts!SignatureCount
      <4>4. Relay!Stored(l) /\ ~Relay!Stored(l)' => RelayFacts!Settled(l)
        BY <3>1 DEF Relay!Stored, RelayFacts!Stored, RelayFacts!vars, RelayFacts!rowVars
      <4> QED
        BY <3>3, <4>1, <4>2, <4>3, <4>4 DEF StoredIsKept
    <3> QED
      BY <3>2, <3>3
  <2>3. ServiceSpec => []TypeOK
    BY ServiceImplementsValidator, TypeCorrect, PTL DEF ImplementsValidator
  <2>4. ServiceSpec => [][RelayFacts!Next]_(RelayFacts!vars)
    BY ServiceImplementsPipeline, SameRelay, PTL DEF ImplementsPipeline, RelayFacts!Spec
  <2> QED
    BY <1>1, <2>1, <2>2, <2>3, <2>4, RelayTypeOK, PTL
       DEF ServiceSpec, RelayFacts!DeleteOnlyWhenSettled
<1>3. TypeOK /\ StoredIsKept /\ Indexer!NoGap => NoLogIsForgotten
  BY DEF StoredIsKept, Indexer!NoGap, NoLogIsForgotten
<1>4. ServiceSpec => []TypeOK
  BY ServiceImplementsValidator, TypeCorrect, PTL DEF ImplementsValidator
<1> QED
  BY <1>2, <1>3, <1>4, ServiceKeepsItsPromises, PTL

\* The end of it all: no interleaving of the indexer's answer, its INSERT, the
\* verdicts, the claims, retries and crashes with the chain brings our signature
\* to a home chain for a log of an orphan that the safe head had not vouched for.
THEOREM SignaturesJustified ==
    ASSUME "revert" \notin PipelineFaults
    PROVE  ServiceSpec => SignaturesAreJustified
<1>1. ServiceSpec => RelayFacts!OnlyStoredRowsAreSigned
  <2>1. RelayFacts!Spec => RelayFacts!OnlyStoredRowsAreSigned
    BY RelayFacts!SignsStoredRows, RelayAssumptions
  <2> QED
    BY <2>1, ServiceImplementsPipeline, SameRelay, PTL DEF ImplementsPipeline
<1>2. /\ TypeOK /\ RowsAgree /\ AlarmMeansBrokenSafety /\ Checker!VerdictMatchesChain
      /\ [\A m \in Log : ~signed[m] /\ signed'[m] => RelayFacts!Stored(m)]_(RelayFacts!vars)
      => [\A l \in Log : ~signed[l] /\ signed'[l] =>
             /\ logBlock[l] # NoBlock
             /\ Canonical(logBlock[l]) \/ broken <= logBlock[l][1]
             /\ status[l] \in {"final", "confirmed"} => Canonical(logBlock[l])]_serviceVars
  <2> SUFFICES ASSUME TypeOK, RowsAgree, AlarmMeansBrokenSafety,
                      Checker!VerdictMatchesChain,
                      [\A m \in Log : ~signed[m] /\ signed'[m]
                                      => RelayFacts!Stored(m)]_(RelayFacts!vars),
                      NEW l \in Log, ~signed[l], signed'[l]
               PROVE  /\ logBlock[l] # NoBlock
                      /\ Canonical(logBlock[l]) \/ broken <= logBlock[l][1]
                      /\ status[l] \in {"final", "confirmed"} => Canonical(logBlock[l])
    OBVIOUS
  <2>1. RelayFacts!Stored(l)
    BY DEF RelayFacts!vars, RelayFacts!chainVars
  <2>2. status[l] # "absent"
    BY <2>1 DEF RowsAgree, Relay!Stored, RelayFacts!Stored
  <2>3. logBlock[l] # NoBlock
    BY <2>2 DEF TypeOK, Checker!TypeOK, NoBlock, Checker!NoBlock
  <2> QED
    BY <2>3 DEF AlarmMeansBrokenSafety, Checker!VerdictMatchesChain, Canonical,
                Checker!Canonical
<1>3. ServiceSpec => []TypeOK
  BY ServiceImplementsValidator, TypeCorrect, PTL DEF ImplementsValidator
<1> QED
  BY <1>1, <1>2, <1>3, RowsAreTogether, ServiceKeepsItsPromises, PTL
     DEF SignaturesAreJustified, RelayFacts!OnlyStoredRowsAreSigned

=============================================================================
