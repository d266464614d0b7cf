------------------------ MODULE RelayRefinementProofs ------------------------
(***************************************************************************)
(* RelayPipeline implements EventLogs: every step of a task, of the chains *)
(* or of the process is one move of one row, all claims lost together, or  *)
(* nothing, under the mapping `Queue'.                                     *)
(***************************************************************************)
EXTENDS RelayPipelineProofs

-----------------------------------------------------------------------------
(* What the mapping says, now and after the step.                           *)

\* The life of a row from its columns and its owner.
LEMMA LifeNow ==
  ASSUME TypeOK, NEW m \in Msg
  PROVE  /\ isProcessed[m] = "absent" => Life(m) = "absent"
         /\ Claimable(m) => Life(m) = "waiting"
         /\ Parked(m) => Life(m) = "parked"
         /\ isProcessed[m] = "true" /\ InFlight(m) => Life(m) = "held"
         /\ isProcessed[m] = "true" /\ ~InFlight(m) => Life(m) = "lost"
<1>1. retryCount[m] \in Nat /\ MaxRetry \in Nat
  BY RetryAssumption DEF TypeOK
<1> QED
  BY <1>1 DEF Life, Claimable, Parked

\* The same of the next state.
LEMMA LifeNext ==
  ASSUME TypeOK', NEW m \in Msg
  PROVE  /\ isProcessed'[m] = "absent" => Life(m)' = "absent"
         /\ Claimable(m)' => Life(m)' = "waiting"
         /\ Parked(m)' => Life(m)' = "parked"
         /\ isProcessed'[m] = "true" /\ InFlight(m)' => Life(m)' = "held"
         /\ isProcessed'[m] = "true" /\ ~InFlight(m)' => Life(m)' = "lost"
<1>1. retryCount'[m] \in Nat /\ MaxRetry \in Nat
  BY RetryAssumption DEF TypeOK
<1> QED
  BY <1>1 DEF Life, Claimable, Parked

\* A row whose columns and whose being in flight a step leaves alone keeps its
\* life.
LEMMA SameLife ==
  ASSUME NEW m \in Msg, isProcessed'[m] = isProcessed[m],
         retryCount'[m] = retryCount[m], InFlight(m)' <=> InFlight(m)
  PROVE  Life(m)' = Life(m)
BY DEF Life, Claimable, Parked

\* A step that only moves control between tasks is a stutter.
LEMMA StutterStep ==
  ASSUME UNCHANGED rowVars,
         \A m \in Msg : InFlight(m)' <=> InFlight(m),
         \A m \in Msg : Settled(m)' <=> Settled(m)
  PROVE  UNCHANGED Queue!vars
<1>1. \A m \in Msg : Life(m)' = Life(m)
  BY SameLife DEF rowVars
<1>2. [m \in Msg |-> Life(m)]' = [m \in Msg |-> Life(m)]
  BY <1>1
<1>3. \A m \in Msg : Settled(m)' = Settled(m)
  <2> TAKE m \in Msg
  <2>1. Settled(m) \in BOOLEAN /\ Settled(m)' \in BOOLEAN
    BY DEF Settled
  <2> QED
    BY <2>1
<1>4. [m \in Msg |-> Settled(m)]' = [m \in Msg |-> Settled(m)]
  BY <1>3
<1> QED
  BY <1>2, <1>4 DEF Queue!vars, rowVars

\* A step that leaves the chains alone settles nothing.
LEMMA SameSettled ==
  ASSUME UNCHANGED chainVars
  PROVE  /\ \A m \in Msg : Settled(m)' <=> Settled(m)
         /\ [m \in Msg |-> Settled(m)]' = [m \in Msg |-> Settled(m)]
<1>1. \A m : Settled(m)' <=> Settled(m)
  BY DEF chainVars, Settled, Collected, SignatureCount
<1>2. \A m \in Msg : Settled(m)' = Settled(m)
  BY <1>1
<1> QED
  BY <1>1, <1>2

\* A step that changes the life of one row at most, as a function.
LEMMA OneRow ==
  ASSUME NEW m \in Msg,
         \A o \in Msg : o # m => /\ isProcessed'[o] = isProcessed[o]
                                 /\ retryCount'[o] = retryCount[o]
                                 /\ InFlight(o)' <=> InFlight(o)
  PROVE  [o \in Msg |-> Life(o)]' = [[o \in Msg |-> Life(o)] EXCEPT ![m] = Life(m)']
<1>1. \A o \in Msg : o # m => Life(o)' = Life(o)
  BY SameLife
<1> QED
  BY <1>1

-----------------------------------------------------------------------------
(* The steps.                                                               *)

\* Indexing an event stores it, or finds it stored.
LEMMA IndexRefines ==
  ASSUME TypeOK, TypeOK', NEW m \in Msg, Index(m)
  PROVE  Queue!Store(m) \/ UNCHANGED Queue!vars
<1>1. /\ UNCHANGED <<chainVars, procVars, chan, senderVars>>
      /\ \A o \in Msg : InFlight(o)' <=> InFlight(o)
  BY DEF Index, InFlight, Holds, Busy, SenderHolds, Queued, procVars, senderVars
<1>2. CASE Stored(m)
  BY <1>1, <1>2, SameSettled, StutterStep DEF Index, InsertRow
<1>3. CASE ~Stored(m)
  <2>1. /\ isProcessed' = [isProcessed EXCEPT ![m] = "false"]
        /\ retryCount' = [retryCount EXCEPT ![m] = 0]
        /\ stage' = [stage EXCEPT ![m] = "home"]
    BY <1>3 DEF Index, InsertRow
  <2>2. Claimable(m)'
    BY <2>1, RetryAssumption DEF Claimable, TypeOK
  <2>3. Life(m) = "absent" /\ Life(m)' = "waiting"
    BY <1>3, <2>2, LifeNow, LifeNext DEF Stored
  <2>4. [o \in Msg |-> Life(o)]' = [[o \in Msg |-> Life(o)] EXCEPT ![m] = "waiting"]
    BY <1>1, <2>1, <2>3, OneRow DEF TypeOK
  <2> QED
    BY <1>1, <2>1, <2>3, <2>4, SameSettled DEF Queue!Store, Queue!Move
<1> QED
  BY <1>2, <1>3

\* Taking the lock and sending move the row between places of its owner; the
\* COMMIT takes it; a COMMIT whose reply is lost, and a message that cannot be
\* processed, lose it.
LEMMA ProcessorRefines ==
  ASSUME TypeOK, TypeOK', Ownership, NEW p \in Processor, ProcessorStep(p)
  PROVE  \/ \E m \in Msg : Queue!Take(m) \/ Queue!Lose(m)
         \/ UNCHANGED Queue!vars
<1> USE DEF InFlight, Holds, Busy, SenderHolds, Queued, BackToLoop, senderVars
<1>1. UNCHANGED chainVars
  BY DEF ProcessorStep, ProcessorLoop, SelectRow, NoRow, CommitClaim,
     RollbackClaim, ClaimAckLost, ProcessMessage, ProcessMessageFails,
     SendToChannel
<1>2. /\ \A m \in Msg : InFlight(m) => isProcessed[m] = "true"
      /\ \A m \in Msg : Locked(m) => Claimable(m)
  BY DEF Ownership, OwnedRowsAreClaimed
<1>3. CASE CommitClaim(p) \/ ClaimAckLost(p)
  <2>0. PICK m \in Msg : m = pmsg[p]
    BY <1>3 DEF CommitClaim, ClaimAckLost, TypeOK
  <2>1. /\ m \in Msg /\ Claimable(m) /\ ~InFlight(m)
        /\ isProcessed' = [isProcessed EXCEPT ![m] = "true"]
        /\ UNCHANGED <<retryCount, stage, chan, senderVars>>
        /\ \A q \in Processor : q # p => ppc'[q] = ppc[q] /\ pmsg'[q] = pmsg[q]
        /\ (ppc'[p] = "claimed" /\ pmsg'[p] = m) \/ ppc'[p] = "loop"
    <3>1. m \in Msg /\ ppc[p] = "locked" /\ pmsg[p] = m
      BY <1>3, <2>0 DEF CommitClaim, ClaimAckLost, TypeOK
    <3>2. Claimable(m) /\ ~InFlight(m)
      BY <1>2, <3>1 DEF Locked, Claimable
    <3>3. /\ isProcessed' = [isProcessed EXCEPT ![m] = "true"]
          /\ UNCHANGED <<retryCount, stage, chan, senderVars>>
      BY <1>3, <3>1 DEF CommitClaim, ClaimAckLost, MarkClaimed
    <3>4. /\ ppc \in [Processor -> PPcs] /\ pmsg \in [Processor -> Msg \cup {NoMsg}]
      BY DEF TypeOK
    <3>5. \/ ppc' = [ppc EXCEPT ![p] = "claimed"] /\ UNCHANGED pmsg
          \/ /\ ppc' = [ppc EXCEPT ![p] = "loop"]
             /\ pmsg' = [pmsg EXCEPT ![p] = NoMsg]
      BY <1>3 DEF CommitClaim, ClaimAckLost
    <3>6. \A q \in Processor : q # p => ppc'[q] = ppc[q] /\ pmsg'[q] = pmsg[q]
      BY <3>4, <3>5
    <3>7. (ppc'[p] = "claimed" /\ pmsg'[p] = m) \/ ppc'[p] = "loop"
      BY <3>1, <3>4, <3>5
    <3> QED
      BY <3>1, <3>2, <3>3, <3>6, <3>7
  <2>2. \A o \in Msg : o # m => /\ isProcessed'[o] = isProcessed[o]
                                /\ retryCount'[o] = retryCount[o]
                                /\ InFlight(o)' <=> InFlight(o)
    <3> TAKE o \in Msg
    <3> HAVE o # m
    <3>1. (\E q \in Processor : ppc'[q] # "locked" /\ Holds(q, o)') <=>
             \E q \in Processor : ppc[q] # "locked" /\ Holds(q, o)
      BY <1>3, <2>1 DEF CommitClaim, ClaimAckLost
    <3>2. isProcessed'[o] = isProcessed[o] /\ retryCount'[o] = retryCount[o]
      BY <2>1 DEF TypeOK
    <3>3. UNCHANGED <<chan, spc, smsg>>
      BY <2>1
    <3> QED
      BY <3>1, <3>2, <3>3
  <2>3. Life(m) = "waiting" /\ isProcessed'[m] = "true"
    BY <2>1, LifeNow DEF TypeOK
  <2>4. [o \in Msg |-> Life(o)]' = [[o \in Msg |-> Life(o)] EXCEPT ![m] = Life(m)']
    BY <2>1, <2>2, OneRow
  <2>5. Life(m)' = "held" \/ Life(m)' = "lost"
    BY <2>1, <2>3, LifeNext
  <2>6. CASE CommitClaim(p)
    <3>1. InFlight(m)'
      BY <2>0, <2>6 DEF CommitClaim, TypeOK
    <3>2. Life(m)' = "held"
      BY <2>1, <2>3, <3>1, LifeNext
    <3> QED
      BY <1>1, <2>1, <2>3, <2>4, <3>2, SameSettled DEF Queue!Take, Queue!Move
  <2>7. CASE ClaimAckLost(p)
    <3>1. ppc'[p] = "loop"
      BY <2>7 DEF ClaimAckLost, TypeOK
    <3>2. ~InFlight(m)'
      BY <2>1, <3>1
    <3>3. Life(m)' = "lost"
      BY <2>1, <2>3, <3>2, LifeNext
    <3> QED
      BY <1>1, <2>1, <2>3, <2>4, <3>3, SameSettled DEF Queue!Lose, Queue!Move
  <2> QED
    BY <1>3, <2>6, <2>7
<1>4. CASE ProcessMessageFails(p)
  <2>0. PICK m \in Msg : m = pmsg[p]
    BY <1>4 DEF ProcessMessageFails, TypeOK
  <2>1. /\ m \in Msg /\ InFlight(m) /\ ~Queued(m) /\ ~SenderHolds(m)
        /\ \A q \in Processor : Holds(q, m) => q = p
        /\ UNCHANGED <<rowVars, chan, senderVars>>
        /\ \A q \in Processor : q # p => ppc'[q] = ppc[q] /\ pmsg'[q] = pmsg[q]
        /\ ppc'[p] = "loop"
    BY <1>4, <2>0 DEF ProcessMessageFails, TypeOK, Ownership, OneOwner, NoDoubleClaim
  <2>2. ~InFlight(m)'
    BY <2>1
  <2>3. \A o \in Msg : o # m => /\ isProcessed'[o] = isProcessed[o]
                                /\ retryCount'[o] = retryCount[o]
                                /\ InFlight(o)' <=> InFlight(o)
    BY <2>1 DEF rowVars
  <2>4. isProcessed[m] = "true" /\ isProcessed'[m] = "true"
    BY <1>2, <2>1 DEF rowVars
  <2>5. Life(m) = "held" /\ Life(m)' = "lost"
    BY <2>1, <2>2, <2>4, LifeNow, LifeNext
  <2>6. [o \in Msg |-> Life(o)]' = [[o \in Msg |-> Life(o)] EXCEPT ![m] = "lost"]
    BY <2>1, <2>3, <2>5, OneRow
  <2> QED
    BY <1>1, <2>1, <2>5, <2>6, SameSettled DEF Queue!Lose, Queue!Move, rowVars
<1>5. CASE SendToChannel(p)
  <2>1. /\ Len(chan) \in Nat /\ Len(chan') = Len(chan) + 1
        /\ \A i \in 1 .. Len(chan) : chan'[i] = chan[i]
        /\ chan'[Len(chan) + 1].msg = pmsg[p]
        /\ pmsg[p] \in Msg
    BY ONLY TypeOK, <1>5, SendPositions
  <2>2. /\ ppc[p] = "send" /\ ppc'[p] = "loop"
        /\ UNCHANGED <<rowVars, senderVars>>
        /\ \A q \in Processor : q # p => ppc'[q] = ppc[q] /\ pmsg'[q] = pmsg[q]
    BY <1>5 DEF SendToChannel, TypeOK
  <2>3. \A m \in Msg : Queued(m)' <=> Queued(m) \/ m = pmsg[p]
    <3>1. \A i \in 1 .. Len(chan') : i \in 1 .. Len(chan) \/ i = Len(chan) + 1
      BY <2>1
    <3>2. /\ \A i \in 1 .. Len(chan) : i \in 1 .. Len(chan')
          /\ Len(chan) + 1 \in 1 .. Len(chan')
      BY <2>1
    <3> QED
      BY <2>1, <3>1, <3>2
  <2>4. \A m \in Msg : InFlight(m)' <=> InFlight(m)
    BY <2>2, <2>3
  <2> QED
    BY <1>1, <2>2, <2>4, SameSettled, StutterStep
<1>6. CASE ProcessorLoop(p) \/ SelectRow(p) \/ NoRow(p) \/ RollbackClaim(p)
           \/ ProcessMessage(p)
  <2>1. UNCHANGED <<rowVars, chan, senderVars>>
    BY <1>6 DEF ProcessorLoop, SelectRow, NoRow, RollbackClaim, ProcessMessage
  <2>2. /\ \A q \in Processor : q # p => ppc'[q] = ppc[q] /\ pmsg'[q] = pmsg[q]
        /\ \/ /\ ppc[p] \in {"loop", "query", "locked"}
              /\ ppc'[p] \in {"loop", "query", "locked", "stopped"}
           \/ ppc[p] = "claimed" /\ ppc'[p] = "send" /\ pmsg'[p] = pmsg[p]
    BY <1>6 DEF ProcessorLoop, SelectRow, NoRow, RollbackClaim, ProcessMessage,
       TypeOK
  <2>3. \A m \in Msg : InFlight(m)' <=> InFlight(m)
    BY <2>1, <2>2
  <2> QED
    BY <1>1, <2>1, <2>3, SameSettled, StutterStep
<1> QED
  BY <1>3, <1>4, <1>5, <1>6 DEF ProcessorStep


\* The steps of the sender that touch no row keep the message in hand.
LEMMA SenderStutters ==
  ASSUME TypeOK, SenderStep, spc' \notin {"idle", "stopped"}, UNCHANGED rowVars,
         ~Receive
  PROVE  UNCHANGED Queue!vars
<1> USE DEF SenderGoto, SenderDone
<1>1. UNCHANGED <<chainVars, procVars, chan, smsg>> /\ spc \notin {"idle", "stopped"}
  BY DEF SenderStep, SenderStops, Prepare, ForeignDisabled,
     CheckAffirmed, CheckAffirmations, CheckSignatures, CheckSigned, Check,
     CollectSignatures, CallFails, Submit, SubmitFails, Receipt, ReceiptFails,
     UpdateRow, UpdateRowFails, UpdateAckLost, Release, ReleaseFails, Statement
<1>2. \A m \in Msg : InFlight(m)' <=> InFlight(m)
  BY <1>1 DEF InFlight, Holds, Busy, SenderHolds, Queued, procVars
<1> QED
  BY <1>1, <1>2, SameSettled, StutterStep

\* Receiving moves the row from the head of the channel into the hand.
LEMMA ReceiveStutters ==
  ASSUME TypeOK, Receive
  PROVE  UNCHANGED Queue!vars
<1>1. /\ Len(chan) \in Nat /\ Len(chan) > 0 /\ Len(chan') = Len(chan) - 1
      /\ \A i \in 1 .. Len(chan') : chan'[i] = chan[i + 1]
      /\ smsg' = chan[1].msg
  BY ReceivePositions
<1>2. /\ UNCHANGED <<rowVars, procVars, chainVars>>
      /\ spc = "idle" /\ spc' = "prepare"
  BY DEF Receive
<1>3. \A m \in Msg : InFlight(m)' <=> InFlight(m)
  <2> TAKE m \in Msg
  <2>1. Queued(m) <=> Queued(m)' \/ m = smsg'
    <3>1. ASSUME NEW i \in 1 .. Len(chan), chan[i].msg = m
          PROVE  Queued(m)' \/ m = smsg'
      <4>1. i = 1 \/ (i - 1 \in 1 .. Len(chan') /\ chan'[i - 1] = chan[i])
        BY <1>1
      <4> QED
        BY <1>1, <3>1, <4>1 DEF Queued
    <3>2. \A i \in 1 .. Len(chan') : i + 1 \in 1 .. Len(chan)
      BY <1>1
    <3>3. 1 \in 1 .. Len(chan)
      BY <1>1
    <3> QED
      BY <1>1, <3>1, <3>2, <3>3 DEF Queued
  <2> QED
    BY <1>2, <2>1 DEF InFlight, Holds, Busy, SenderHolds, procVars
<1> QED
  BY <1>2, <1>3, SameSettled, StutterStep

\* When the sender lets go of its message, nobody has it, and the others are
\* where they were.
LEMMA LettingGo ==
  ASSUME TypeOK, Ownership, UNCHANGED <<procVars, chan>>,
         smsg \in Msg, spc \notin {"idle", "stopped"}, spc' \in {"idle", "stopped"}
  PROVE  /\ isProcessed[smsg] = "true" /\ InFlight(smsg)
         /\ retryCount[smsg] < MaxRetry
         /\ \A o \in Msg : o = smsg => ~InFlight(o)'
         /\ \A o \in Msg : o # smsg => (InFlight(o)' <=> InFlight(o))
<1> USE DEF InFlight, Holds, Busy, SenderHolds, Queued, procVars
<1>1. InFlight(smsg)
  OBVIOUS
<1>2. ~Queued(smsg) /\ \A p \in Processor : ~Holds(p, smsg)
  BY DEF Ownership, OneOwner
<1>3. isProcessed[smsg] = "true" /\ retryCount[smsg] < MaxRetry
  BY <1>1 DEF Ownership, OwnedRowsAreClaimed
<1> QED
  BY <1>1, <1>2, <1>3

\* The statements of the sender: stage advances the row, delete finishes it,
\* the others return it or lose it.
LEMMA SenderRefines ==
  ASSUME TypeOK, TypeOK', Ownership, SettledCopies, SenderStep,
         "lostack" \notin Faults
  PROVE  \/ \E m \in Msg : \/ Queue!Return(m) \/ Queue!Advance(m)
                           \/ Queue!Finish(m) \/ Queue!Lose(m)
         \/ UNCHANGED Queue!vars
<1> USE DEF SenderGoto, SenderDone
<1>1. CASE Receive
  BY <1>1, ReceiveStutters
<1>2. CASE SenderStops
  <2>1. UNCHANGED <<rowVars, procVars, chan, chainVars>> /\ spc = "idle" /\ spc' = "stopped"
    BY <1>2 DEF SenderStops
  <2>2. \A m \in Msg : InFlight(m)' <=> InFlight(m)
    BY <2>1 DEF InFlight, Holds, Busy, SenderHolds, Queued, procVars
  <2> QED
    BY <2>1, <2>2, SameSettled, StutterStep
<1>3. CASE ForeignDisabled \/ ReleaseFails
  <2>0. PICK m \in Msg : m = smsg
    BY <1>3 DEF ForeignDisabled, ReleaseFails, TypeOK
  <2>1. /\ UNCHANGED <<rowVars, procVars, chan, chainVars>>
        /\ spc \notin {"idle", "stopped"} /\ spc' = "idle"
    BY <1>3 DEF ForeignDisabled, ReleaseFails
  <2>2. /\ isProcessed[m] = "true" /\ InFlight(m) /\ ~InFlight(m)'
        /\ \A o \in Msg : o # m => (InFlight(o)' <=> InFlight(o))
    BY <2>0, <2>1, LettingGo
  <2>3. Life(m) = "held" /\ Life(m)' = "lost"
    BY <2>1, <2>2, LifeNow, LifeNext DEF rowVars
  <2>4. [o \in Msg |-> Life(o)]' = [[o \in Msg |-> Life(o)] EXCEPT ![m] = "lost"]
    BY <2>1, <2>2, <2>3, OneRow DEF rowVars
  <2>5. Queue!Lose(m)
    BY <2>1, <2>3, <2>4, SameSettled DEF Queue!Lose, Queue!Move, rowVars
  <2> QED
    BY <2>5
<1>4. CASE UpdateRow /\ spc = "stage"
  <2>0. PICK m \in Msg : m = smsg
    BY <1>4 DEF TypeOK
  <2>1. /\ UNCHANGED <<isProcessed, retryCount, procVars, chan, chainVars, smsg>>
        /\ stage' = [stage EXCEPT ![m] = IF Stored(m) THEN "foreign" ELSE @]
        /\ spc' = "collect"
    BY <1>4, <2>0 DEF UpdateRow, Statement, SetStageForeign
  <2>2. \A o \in Msg : InFlight(o)' <=> InFlight(o)
    BY <1>4, <2>1 DEF InFlight, Holds, Busy, SenderHolds, Queued, procVars
  <2>3. [o \in Msg |-> Life(o)]' = [o \in Msg |-> Life(o)]
    BY <2>1, <2>2, SameLife
  <2>4. InFlight(m) /\ Settled(m)
    BY <1>4, <2>0 DEF InFlight, SenderHolds, SettledCopies, SettledPcs
  <2>5. isProcessed[m] = "true"
    BY <2>4 DEF Ownership, OwnedRowsAreClaimed
  <2>6. Life(m) = "held" /\ Stored(m)
    BY <2>4, <2>5, LifeNow DEF Stored
  <2>7. Queue!Advance(m)
    BY <2>1, <2>3, <2>4, <2>6, SameSettled DEF Queue!Advance
  <2> QED
    BY <2>7
<1>5. CASE (UpdateRow /\ spc \in {"delete", "retry"}) \/ Release
  <2>0. PICK m \in Msg : m = smsg
    BY <1>5 DEF Release, TypeOK
  <2>1. /\ UNCHANGED <<procVars, chan, chainVars>>
        /\ spc \notin {"idle", "stopped"} /\ spc' = "idle"
    BY <1>5 DEF UpdateRow, Release
  <2>2. /\ isProcessed[m] = "true" /\ InFlight(m) /\ ~InFlight(m)'
        /\ retryCount[m] < MaxRetry
        /\ \A o \in Msg : o # m => (InFlight(o)' <=> InFlight(o))
    BY <2>0, <2>1, LettingGo
  <2>3. Life(m) = "held"
    BY <2>2, LifeNow
  <2>4. CASE spc = "delete"
    <3>1. DeleteEventLog(m) /\ Settled(m)
      BY <1>5, <2>0, <2>4 DEF UpdateRow, Release, Statement, SettledCopies,
         SettledPcs
    <3>2. /\ isProcessed' = [isProcessed EXCEPT ![m] = "absent"]
          /\ retryCount' = [retryCount EXCEPT ![m] = 0]
          /\ stage' = [stage EXCEPT ![m] = "home"]
      BY <3>1 DEF DeleteEventLog
    <3>3. Life(m)' = "absent"
      <4>1. isProcessed'[m] = "absent"
        BY <3>2 DEF TypeOK
      <4> QED
        BY <4>1, LifeNext
    <3>4. [o \in Msg |-> Life(o)]' = [[o \in Msg |-> Life(o)] EXCEPT ![m] = "absent"]
      BY <2>2, <3>2, <3>3, OneRow DEF TypeOK
    <3>5. Queue!Finish(m)
      BY <2>1, <2>3, <3>1, <3>2, <3>4, SameSettled DEF Queue!Finish, Queue!Move
    <3> QED
      BY <3>5
  <2>5. CASE spc # "delete"
    <3>1. IncrementRetryCount(m)
      BY <1>5, <2>0, <2>5 DEF UpdateRow, Release, Statement
    <3>2. /\ isProcessed' = [isProcessed EXCEPT ![m] = "false"]
          /\ retryCount' = [retryCount EXCEPT ![m] = @ + 1]
          /\ UNCHANGED stage
      BY <2>2, <3>1 DEF IncrementRetryCount, Stored
    <3>3. isProcessed'[m] = "false" /\ retryCount'[m] \in Nat /\ MaxRetry \in Nat
      BY <3>2, RetryAssumption DEF TypeOK
    <3>4. Life(m)' = IF retryCount'[m] < MaxRetry THEN "waiting" ELSE "parked"
      BY <3>3, LifeNext DEF Claimable, Parked
    <3>5. [o \in Msg |-> Life(o)]' = [[o \in Msg |-> Life(o)] EXCEPT ![m] = Life(m)']
      BY <2>2, <3>2, OneRow DEF TypeOK
    <3>6. Queue!Return(m)
      BY <2>1, <2>3, <3>2, <3>4, <3>5, SameSettled DEF Queue!Return, Queue!Move
    <3> QED
      BY <3>6
  <2> QED
    BY <2>4, <2>5
<1>6. CASE /\ ~Receive /\ ~SenderStops /\ ~ForeignDisabled /\ ~ReleaseFails
           /\ ~UpdateRow /\ ~Release
  <2>1. spc' \notin {"idle", "stopped"} /\ UNCHANGED rowVars
    BY <1>6 DEF SenderStep, Prepare, CheckAffirmed, CheckAffirmations,
       CheckSignatures, CheckSigned, Check, CollectSignatures, CallFails, Submit,
       SubmitFails, Receipt, AfterHomeReceipt, ReceiptFails, UpdateRowFails,
       UpdateAckLost
  <2> QED
    BY <1>6, <2>1, SenderStutters
<1>7. UpdateRow => spc \in {"stage", "delete", "retry"}
  BY DEF UpdateRow, Statement
<1> QED
  BY <1>1, <1>2, <1>3, <1>4, <1>5, <1>6, <1>7


\* A transaction or signature settles one message at most.
LEMMA ChainRefines ==
  ASSUME TypeOK, TypeOK', ChainStep
  PROVE  (\E m \in Msg : Queue!Settle(m)) \/ UNCHANGED Queue!vars
<1>1. /\ UNCHANGED <<rowVars, procVars, chan>> /\ smsg' = smsg /\ spc' = spc
      /\ \A o \in Msg : InFlight(o)' <=> InFlight(o)
  BY DEF ChainStep, TxIncluded, LooseIncluded, OthersSign, OthersRelay, senderVars,
     InFlight, Holds, Busy, SenderHolds, Queued, procVars
<1>2. [o \in Msg |-> Life(o)]' = [o \in Msg |-> Life(o)]
  BY <1>1, SameLife DEF rowVars
<1>3. ASSUME NEW m \in Msg,
             \A o \in Msg : o # m => signed'[o] = signed[o] /\ others'[o] = others[o]
      PROVE  Queue!Settle(m) \/ UNCHANGED Queue!vars
  <2>1. \A o \in Msg : o # m => Settled(o)' = Settled(o)
    BY <1>3 DEF Settled, Collected, SignatureCount
  <2>2. [Next]_vars
    BY DEF Next
  <2>3. Settled(m) => Settled(m)'
    BY <2>2, SettledMonotone
  <2>4. Settled(m) \in BOOLEAN /\ Settled(m)' \in BOOLEAN
    BY DEF Settled
  <2>5. CASE Settled(m)' = Settled(m)
    <3>1. [o \in Msg |-> Settled(o)]' = [o \in Msg |-> Settled(o)]
      BY <2>1, <2>5
    <3> QED
      BY <1>1, <1>2, <3>1 DEF Queue!vars, rowVars
  <2>6. CASE Settled(m)' = TRUE
    <3>1. [o \in Msg |-> Settled(o)]' = [[o \in Msg |-> Settled(o)] EXCEPT ![m] = TRUE]
      BY <2>1, <2>6
    <3> QED
      BY <1>1, <1>2, <3>1 DEF Queue!Settle, rowVars
  <2> QED
    BY <2>3, <2>4, <2>5, <2>6
<1>4. CASE UNCHANGED chainVars
  BY <1>1, <1>4, SameSettled, StutterStep
<1>5. ASSUME NEW m \in Msg, NEW leg, Apply(m, leg)
      PROVE  Queue!Settle(m) \/ UNCHANGED Queue!vars
  <2>1. \A o \in Msg : o # m => signed'[o] = signed[o] /\ others'[o] = others[o]
    BY <1>5 DEF Apply, TypeOK
  <2> QED
    BY <1>3, <2>1
<1>6. CASE TxIncluded
  <2>1. smsg \in Msg
    BY <1>6 DEF TxIncluded, TypeOK
  <2> QED
    BY <1>4, <1>5, <1>6, <2>1 DEF TxIncluded
<1>7. CASE LooseIncluded
  <2>1. PICK tx \in loose : Apply(tx[1], tx[2]) \/ UNCHANGED chainVars
    BY <1>7 DEF LooseIncluded
  <2>2. tx[1] \in Msg
    BY DEF TypeOK
  <2> QED
    BY <1>4, <1>5, <2>1, <2>2
<1>8. ASSUME NEW m \in Msg, OthersSign(m) \/ OthersRelay(m)
      PROVE  Queue!Settle(m) \/ UNCHANGED Queue!vars
  <2>1. \A o \in Msg : o # m => signed'[o] = signed[o] /\ others'[o] = others[o]
    BY <1>8 DEF OthersSign, OthersRelay, TypeOK
  <2> QED
    BY <1>3, <2>1
<1> QED
  BY <1>6, <1>7, <1>8 DEF ChainStep

\* A crash takes every claim with it; a drained process has none to take.
LEMMA LifecycleRefines ==
  ASSUME TypeOK, TypeOK', DrainedBeforeExit, Shutdown \/ Restart \/ Crash
  PROVE  Queue!Die \/ UNCHANGED Queue!vars
<1> USE DEF InFlight, Holds, Busy, SenderHolds, Queued, procVars
<1>1. UNCHANGED <<rowVars, chainVars>>
  BY DEF Shutdown, Restart, Crash, Start
<1>2. CASE Shutdown
  <2>1. \A m \in Msg : InFlight(m)' <=> InFlight(m)
    BY <1>2 DEF Shutdown, senderVars
  <2> QED
    BY <1>1, <2>1, SameSettled, StutterStep
<1>3. CASE Restart \/ Crash
  <2>1. \A m \in Msg : ~InFlight(m)'
    BY <1>3 DEF Restart, Crash, Start, SenderDone
  <2>2. CASE Restart
    <3>1. \A m \in Msg : ~InFlight(m)
      BY <2>2 DEF Restart, DrainedBeforeExit
    <3> QED
      BY <1>1, <2>1, <3>1, SameSettled, StutterStep
  <2>3. CASE Crash
    <3>1. \A m \in Msg : Life(m)' = IF Life(m) = "held" THEN "lost" ELSE Life(m)
      <4> TAKE m \in Msg
      <4>1. isProcessed'[m] = isProcessed[m] /\ retryCount'[m] = retryCount[m]
        BY <1>1 DEF rowVars
      <4>2. Claimable(m)' = Claimable(m) /\ Parked(m)' = Parked(m)
        BY <4>1 DEF Claimable, Parked
      <4> QED
        BY <2>1, <4>1, <4>2 DEF Life
    <3>2. [m \in Msg |-> Life(m)]' =
            [m \in Msg |-> IF [o \in Msg |-> Life(o)][m] = "held" THEN "lost"
                           ELSE [o \in Msg |-> Life(o)][m]]
      BY <3>1
    <3> QED
      BY <1>1, <3>2, SameSettled DEF Queue!Die, rowVars
  <2> QED
    BY <1>3, <2>2, <2>3
<1> QED
  BY <1>2, <1>3

\* A process that starts on an empty table has an empty queue.
LEMMA InitRefines == Init => Queue!Init
<1> SUFFICES ASSUME Init PROVE Queue!Init
  OBVIOUS
<1>1. \A m \in Msg : Life(m) = "absent" /\ Settled(m) = FALSE
  <2> TAKE m \in Msg
  <2>1. Life(m) = "absent"
    BY InitTypeOK, LifeNow DEF Init
  <2>2. ~signed[m] /\ ~(SignatureCount(m) >= Required)
    BY RequiredAssumption DEF Init, SignatureCount
  <2> QED
    BY <2>1, <2>2 DEF Settled, Collected
<1> QED
  BY <1>1 DEF Init, Queue!Init

\* Every step is one of the steps above.
LEMMA NextRefines ==
  ASSUME TypeOK, TypeOK', Ownership, SettledCopies, DrainedBeforeExit, [Next]_vars,
         "lostack" \notin Faults
  PROVE  [Queue!Next]_(Queue!vars)
<1>1. ASSUME NEW m \in Msg, Index(m) PROVE [Queue!Next]_(Queue!vars)
  BY <1>1, IndexRefines DEF Queue!Next
<1>2. ASSUME NEW p \in Processor, ProcessorStep(p) PROVE [Queue!Next]_(Queue!vars)
  BY <1>2, ProcessorRefines DEF Queue!Next
<1>3. CASE SenderStep
  BY <1>3, SenderRefines DEF Queue!Next
<1>4. CASE ChainStep
  BY <1>4, ChainRefines DEF Queue!Next
<1>5. CASE Shutdown \/ Restart \/ Crash
  BY <1>5, LifecycleRefines DEF Queue!Next
<1>6. CASE UNCHANGED vars
  <2>1. \A m \in Msg : InFlight(m)' <=> InFlight(m)
    BY <1>6 DEF vars, InFlight, Holds, Busy, SenderHolds, Queued, procVars, senderVars
  <2>2. UNCHANGED <<rowVars, chainVars>>
    BY <1>6 DEF vars
  <2> QED
    BY <2>1, <2>2, SameSettled, StutterStep
<1> QED
  BY <1>1, <1>2, <1>3, <1>4, <1>5, <1>6 DEF Next

\* The relay pipeline is the work queue of EventLogs.tla, for any number of
\* events, processors and validators, any channel capacity and retry ceiling,
\* across lost COMMITs, failed statements, crashes and restarts with another
\* configuration, as long as no statement of the sender both takes effect and
\* reports a failure, and no transaction reverts without cause.
THEOREM RelayImplementsEventLogs ==
  ASSUME "lostack" \notin Faults, "revert" \notin Faults
  PROVE  Spec => ImplementsEventLogs
<1>1. Init => Ownership /\ SettledCopies /\ DrainedBeforeExit
  BY DEF Init, Ownership, OneOwner, NoDoubleClaim, OwnedRowsAreClaimed, InFlight,
     Holds, Busy, Locked, SenderHolds, Queued, SettledCopies, SettledPcs,
     StageMatchesChain, DrainedBeforeExit
<1>2. TypeOK /\ Ownership /\ SettledCopies /\ DrainedBeforeExit /\ [Next]_vars
        => (Ownership /\ SettledCopies /\ DrainedBeforeExit)'
  BY NextOwnership, NextSettled, NextDrained
<1>3. TypeOK /\ TypeOK' /\ Ownership /\ SettledCopies /\ DrainedBeforeExit /\ [Next]_vars
        => [Queue!Next]_(Queue!vars)
  BY NextRefines
<1> QED
  BY <1>1, <1>2, <1>3, InitRefines, TypeCorrect, PTL
     DEF Spec, ImplementsEventLogs, Queue!Spec

=============================================================================
