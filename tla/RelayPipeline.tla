---------------------------- MODULE RelayPipeline ----------------------------
(***************************************************************************)
(* The relay pipeline of the bridge validator: the event_logs table, the   *)
(* MessageProcessors that claim its rows, the bounded mpsc channel, the    *)
(* OnChainSender that settles a row on the home chain (and, when the       *)
(* operator asked for it, on the foreign chain), and the chains as the     *)
(* sender sees them.  An action ends where the code awaits: the tasks are  *)
(* joined in one task, so they interleave at awaits and nowhere else.      *)
(***************************************************************************)
EXTENDS Naturals, Sequences

CONSTANTS
    Msg,             \* the bridge events; one row of event_logs each
    NoMsg,           \* not a message
    Rank,            \* Rank[m]: the claim order, (block_number, log_index)
    BridgeMode,      \* BridgeMode[m]: "AMB_ETH", "AMB_GC", "XDAI_ETH", "XDAI_GC"
    Processor,       \* the MessageProcessor tasks
    ChannelCap,      \* capacity of the mpsc channel
    MaxRetry,        \* MAX_RETRY_COUNT
    Keys,            \* the bridges whose validator key is present and parses
    ExecConfigs,     \* what *_EXECUTE_MESSAGE_ON_FOREIGN may be at a start:
                     \* a set of sets of bridges
    Required,        \* requiredSignatures() of the bridges
    MaxOthers,       \* bound: signatures of the other validators per message
    MaxInserts,      \* bound: INSERTs of an event per process lifetime
    MaxSignals,      \* bound: SIGTERMs the environment sends
    MaxCrashes,      \* bound: crashes (SIGKILL, OOM)
    Faults           \* the failures the environment may inject

Bridges == {"AMB", "XDAI"}
BridgeModes == {"AMB_ETH", "AMB_GC", "XDAI_ETH", "XDAI_GC"}
Stages == {"home", "foreign"}

\* rpc: a view call, a connect or a send() fails and has no effect; lostsend: the
\* node accepts the transaction and the reply to send() is lost; receipt:
\* get_receipt() fails whatever became of the transaction; revert: a transaction
\* is included with a failed status although the bridge's own conditions hold
\* (out of gas, daily limit, paused); db: a statement fails and has no effect;
\* lostack: a sender's statement takes effect and its reply is lost; lostcommit:
\* the same for the COMMIT of a claim; decode: a stored log does not decode;
\* rowlock: the FCR checker's transaction holds a row, and the claim query skips it.
FaultKinds ==
    {"rpc", "lostsend", "receipt", "revert", "db", "lostack", "lostcommit", "decode",
     "rowlock"}

ASSUME MsgAssumption == NoMsg \notin Msg
ASSUME RankAssumption == Rank \in [Msg -> Nat]
ASSUME ModeAssumption == BridgeMode \in [Msg -> BridgeModes]
ASSUME CapAssumption == ChannelCap \in Nat \ {0}
ASSUME RetryAssumption == MaxRetry \in Nat \ {0}
ASSUME KeysAssumption == Keys \subseteq Bridges
ASSUME ExecAssumption == ExecConfigs \subseteq SUBSET Bridges /\ ExecConfigs # {}
ASSUME RequiredAssumption == Required \in Nat \ {0} /\ MaxOthers \in Nat
ASSUME BoundAssumption ==
    MaxInserts \in Nat /\ MaxSignals \in Nat /\ MaxCrashes \in Nat
ASSUME FaultAssumption == Faults \subseteq FaultKinds

VARIABLES
    isProcessed,     \* event_logs.is_processed, "absent" when there is no row
    retryCount,      \* event_logs.retry_count
    stage,           \* event_logs.stage
    indexed,         \* indexed[m]: INSERTs of the event in this process lifetime
    ppc, pmsg, pstage,          \* processor: program counter, claimed row
    chan,                       \* the mpsc channel
    spc, smsg, sstage,          \* sender: program counter, message in hand
    stx,                        \* sender: the transaction it waits for
    loose,           \* our transactions nobody waits for any more, with the
                     \* reason: an error, or a crash of the process
    signed,          \* signed[m]: our signature or affirmation is on chain
    others,          \* others[m]: signatures of the other validators
    byUs,            \* byUs[m]: ours was the signature that met the threshold
    relayed,         \* relayed[m]: executed on the foreign chain
    exec,            \* bridges with foreign execution on, this lifetime
    shutdown, signals, crashes,
    stranded         \* history: claims whose owner gave them up unreleased

rowVars == <<isProcessed, retryCount, stage>>
procVars == <<ppc, pmsg, pstage>>
senderVars == <<spc, smsg, sstage, stx>>
chainVars == <<signed, others, byUs, relayed>>
lifeVars == <<exec, shutdown, signals, crashes>>
vars == <<rowVars, indexed, procVars, chan, senderVars, loose, chainVars,
          lifeVars, stranded>>

Bridge(m) == IF BridgeMode[m] \in {"AMB_ETH", "AMB_GC"} THEN "AMB" ELSE "XDAI"
FromGnosis(m) == BridgeMode[m] \in {"AMB_GC", "XDAI_GC"}
ForeignOn(m) == FromGnosis(m) /\ Bridge(m) \in exec

PPcs == {"loop", "query", "locked", "claimed", "send", "stopped"}
SPcs == {"idle", "prepare", "check1", "check2", "submit", "receipt", "stage",
         "collect", "execute", "execReceipt", "delete", "retry", "release",
         "stopped"}
Job == [msg: Msg, stage: Stages]

-----------------------------------------------------------------------------
(***************************************************************************)
(* The bridge contracts, as the sender's pre-flight comments quote them.   *)
(* A message is collected once `Required' validators have signed it, and   *)
(* takes no signature after that.                                          *)
(***************************************************************************)
SignatureCount(m) == others[m] + (IF signed[m] THEN 1 ELSE 0)
Collected(m) == SignatureCount(m) >= Required

Accepts(m, leg) ==
    IF leg = "home" THEN ~signed[m] /\ ~Collected(m)
                    ELSE Collected(m) /\ ~relayed[m]

\* A transaction of ours is included and its calls succeed.
Apply(m, leg) ==
    /\ IF leg = "home"
       THEN /\ signed' = [signed EXCEPT ![m] = TRUE]
            /\ byUs' = [byUs EXCEPT ![m] = others[m] + 1 >= Required]
            /\ UNCHANGED relayed
       ELSE /\ relayed' = [relayed EXCEPT ![m] = TRUE]
            /\ UNCHANGED <<signed, byUs>>
    /\ UNCHANGED others

-----------------------------------------------------------------------------
(***************************************************************************)
(* The statements on event_logs.                                           *)
(***************************************************************************)
Stored(m) == isProcessed[m] # "absent"
Locked(m) == \E p \in Processor : ppc[p] = "locked" /\ pmsg[p] = m
ClaimableAtCeiling(m) ==    \* mutant: <= for <
    isProcessed[m] = "false" /\ retryCount[m] <= MaxRetry
Claimable(m) == isProcessed[m] = "false" /\ retryCount[m] < MaxRetry
Parked(m) == isProcessed[m] = "false" /\ retryCount[m] >= MaxRetry

\* INSERT ... ON CONFLICT (transaction_hash, log_index) DO NOTHING
InsertRow(m) ==
    IF Stored(m) THEN UNCHANGED rowVars
    ELSE /\ isProcessed' = [isProcessed EXCEPT ![m] = "false"]
         /\ retryCount' = [retryCount EXCEPT ![m] = 0]
         /\ stage' = [stage EXCEPT ![m] = "home"]

DeleteEventLog(m) ==
    /\ isProcessed' = [isProcessed EXCEPT ![m] = "absent"]
    /\ retryCount' = [retryCount EXCEPT ![m] = 0]
    /\ stage' = [stage EXCEPT ![m] = "home"]

\* Mutants: the release forgets the counter, or the literal's case.
ReleaseWithoutCount(m) ==
    /\ isProcessed' = [isProcessed EXCEPT ![m] = IF Stored(m) THEN "false" ELSE @]
    /\ UNCHANGED <<retryCount, stage>>
ReleaseAsBoolean(m) ==
    /\ isProcessed' = [isProcessed EXCEPT ![m] = IF Stored(m) THEN "FALSE" ELSE @]
    /\ retryCount' = [retryCount EXCEPT ![m] = IF Stored(m) THEN @ + 1 ELSE @]
    /\ UNCHANGED stage

IncrementRetryCount(m) ==
    /\ isProcessed' = [isProcessed EXCEPT ![m] = IF Stored(m) THEN "false" ELSE @]
    /\ retryCount' = [retryCount EXCEPT ![m] = IF Stored(m) THEN @ + 1 ELSE @]
    /\ UNCHANGED stage

SetStageForeign(m) ==
    /\ stage' = [stage EXCEPT ![m] = IF Stored(m) THEN "foreign" ELSE @]
    /\ UNCHANGED <<isProcessed, retryCount>>

-----------------------------------------------------------------------------
(***************************************************************************)
(* The event indexer, reduced to its INSERTs (EventIndexer.tla has the     *)
(* rest).  An event is inserted again when a restarted indexer reads its   *)
(* block once more, or when a reorganisation includes its log in a block   *)
(* above the cursor.                                                       *)
(***************************************************************************)
Index(m) ==
    /\ indexed[m] < MaxInserts
    /\ indexed' = [indexed EXCEPT ![m] = @ + 1]
    /\ InsertRow(m)
    /\ UNCHANGED <<procVars, chan, senderVars, loose, chainVars, lifeVars, stranded>>

-----------------------------------------------------------------------------
(***************************************************************************)
(* MessageProcessor::start, read_from_db and process_message_or_skip.      *)
(***************************************************************************)
ProcessorIgnoresShutdown(p) ==    \* mutant: the flag is not looked at
    /\ ppc[p] = "loop"
    /\ ppc' = [ppc EXCEPT ![p] = "query"]
    /\ UNCHANGED <<rowVars, indexed, pmsg, pstage, chan, senderVars, loose,
                   chainVars, lifeVars, stranded>>

ProcessorLoop(p) ==
    /\ ppc[p] = "loop"
    /\ ppc' = [ppc EXCEPT ![p] = IF shutdown THEN "stopped" ELSE "query"]
    /\ UNCHANGED <<rowVars, indexed, pmsg, pstage, chan, senderVars, loose,
                   chainVars, lifeVars, stranded>>

NextRowUnlocked(m) ==    \* mutant: no FOR UPDATE SKIP LOCKED
    /\ Claimable(m)
    /\ \A o \in Msg : Claimable(o) => Rank[m] <= Rank[o]

\* The row SELECT ... ORDER BY ... LIMIT 1 FOR UPDATE SKIP LOCKED returns.
NextRow(m) ==
    /\ Claimable(m) /\ ~Locked(m)
    /\ \/ "rowlock" \in Faults
       \/ \A o \in Msg : Claimable(o) /\ ~Locked(o) => Rank[m] <= Rank[o]

SelectRow(p) ==
    /\ ppc[p] = "query"
    /\ \E m \in Msg :
          /\ NextRow(m)
          /\ ppc' = [ppc EXCEPT ![p] = "locked"]
          /\ pmsg' = [pmsg EXCEPT ![p] = m]
          /\ pstage' = [pstage EXCEPT ![p] = stage[m]]
    /\ UNCHANGED <<rowVars, indexed, chan, senderVars, loose, chainVars,
                   lifeVars, stranded>>

BackToLoop(p) ==
    /\ ppc' = [ppc EXCEPT ![p] = "loop"]
    /\ pmsg' = [pmsg EXCEPT ![p] = NoMsg]
    /\ pstage' = [pstage EXCEPT ![p] = "home"]

\* No row to claim, or the query failed: sleep, then look again.
NoRow(p) ==
    /\ ppc[p] = "query"
    /\ (Faults \cap {"db", "rowlock"} # {} \/ ~ \E m \in Msg : NextRow(m))
    /\ BackToLoop(p)
    /\ UNCHANGED <<rowVars, indexed, chan, senderVars, loose, chainVars,
                   lifeVars, stranded>>

SelectOnly(m) == UNCHANGED rowVars    \* mutant: the UPDATE is missing

MarkClaimed(m) ==
    /\ isProcessed' = [isProcessed EXCEPT ![m] = "true"]
    /\ UNCHANGED <<retryCount, stage>>

CommitClaim(p) ==
    /\ ppc[p] = "locked"
    /\ MarkClaimed(pmsg[p])
    /\ ppc' = [ppc EXCEPT ![p] = "claimed"]
    /\ UNCHANGED <<indexed, pmsg, pstage, chan, senderVars, loose, chainVars,
                   lifeVars, stranded>>

\* The UPDATE or the COMMIT fails and the transaction rolls back.
RollbackClaim(p) ==
    /\ ppc[p] = "locked" /\ "db" \in Faults
    /\ BackToLoop(p)
    /\ UNCHANGED <<rowVars, indexed, chan, senderVars, loose, chainVars,
                   lifeVars, stranded>>

\* The COMMIT took effect and the processor sees an error.
ClaimAckLost(p) ==
    /\ ppc[p] = "locked" /\ "lostcommit" \in Faults
    /\ MarkClaimed(pmsg[p])
    /\ BackToLoop(p)
    /\ stranded' = stranded \cup {pmsg[p]}
    /\ UNCHANGED <<indexed, chan, senderVars, loose, chainVars, lifeVars>>

\* Only the rows from Gnosis Chain are signed by the processor.
CanProcess(m) == FromGnosis(m) => Bridge(m) \in Keys

ProcessMessage(p) ==
    /\ ppc[p] = "claimed" /\ CanProcess(pmsg[p])
    /\ ppc' = [ppc EXCEPT ![p] = "send"]
    /\ UNCHANGED <<rowVars, indexed, pmsg, pstage, chan, senderVars, loose,
                   chainVars, lifeVars, stranded>>

\* The error is logged and the processor moves on; the row stays claimed.
ProcessMessageFails(p) ==
    /\ ppc[p] = "claimed"
    /\ ("decode" \in Faults \/ ~CanProcess(pmsg[p]))
    /\ stranded' = stranded \cup {pmsg[p]}
    /\ BackToLoop(p)
    /\ UNCHANGED <<rowVars, indexed, chan, senderVars, loose, chainVars, lifeVars>>

SendToChannel(p) ==
    /\ ppc[p] = "send" /\ Len(chan) < ChannelCap
    /\ chan' = Append(chan, [msg |-> pmsg[p], stage |-> pstage[p]])
    /\ BackToLoop(p)
    /\ UNCHANGED <<rowVars, indexed, senderVars, loose, chainVars, lifeVars, stranded>>

ProcessorStep(p) ==
    \/ ProcessorLoop(p) \/ SelectRow(p) \/ NoRow(p)
    \/ CommitClaim(p) \/ RollbackClaim(p) \/ ClaimAckLost(p)
    \/ ProcessMessage(p) \/ ProcessMessageFails(p) \/ SendToChannel(p)

-----------------------------------------------------------------------------
(***************************************************************************)
(* OnChainSender::start and process_message.  "delete", "retry" and        *)
(* "stage" are the statements inside process_message; an error of theirs,  *)
(* of a view call or of a connect propagates to start(), which releases    *)
(* the row ("release").                                                    *)
(***************************************************************************)
SenderGoto(pc) == spc' = pc /\ UNCHANGED <<smsg, sstage, stx>>

SenderDone ==
    spc' = "idle" /\ smsg' = NoMsg /\ sstage' = "home" /\ stx' = "none"

Receive ==
    /\ spc = "idle" /\ chan # <<>>
    /\ chan' = Tail(chan)
    /\ spc' = "prepare" /\ smsg' = Head(chan).msg /\ sstage' = Head(chan).stage
    /\ UNCHANGED <<rowVars, indexed, procVars, stx, loose, chainVars, lifeVars,
                   stranded>>

\* recv() yields None once both processors have dropped their end.
SenderStops ==
    /\ spc = "idle" /\ chan = <<>>
    /\ \A p \in Processor : ppc[p] = "stopped"
    /\ SenderGoto("stopped")
    /\ UNCHANGED <<rowVars, indexed, procVars, chan, loose, chainVars, lifeVars,
                   stranded>>

KeyUsable == Bridge(smsg) \in Keys
AtForeignStage == FromGnosis(smsg) /\ sstage = "foreign"

\* Key, connection and requiredSignatures().
Prepare ==
    /\ spc = "prepare" /\ KeyUsable
    /\ AtForeignStage => ForeignOn(smsg)
    /\ SenderGoto(IF AtForeignStage THEN "collect" ELSE "check1")
    /\ UNCHANGED <<rowVars, indexed, procVars, chan, loose, chainVars, lifeVars,
                   stranded>>

\* A row resumed at the foreign stage by a process that no longer executes
\* there: process_message returns Ok(()) without touching the row.
ForeignDisabled ==
    /\ spc = "prepare" /\ KeyUsable
    /\ AtForeignStage /\ ~ForeignOn(smsg)
    /\ SenderDone
    /\ stranded' = stranded \cup {smsg}
    /\ UNCHANGED <<rowVars, indexed, procVars, chan, loose, chainVars, lifeVars>>

Check(pc, fromGnosis, settled, next) ==
    /\ spc = pc /\ FromGnosis(smsg) = fromGnosis
    /\ SenderGoto(IF settled THEN "delete" ELSE next)
    /\ UNCHANGED <<rowVars, indexed, procVars, chan, loose, chainVars, lifeVars,
                   stranded>>

\* Affirmations: affirmationsSigned, then numAffirmationsSigned.
CheckAffirmed == Check("check1", FALSE, signed[smsg], "check2")
CheckAffirmations == Check("check2", FALSE, Collected(smsg), "submit")

\* Signatures: numMessagesSigned, then messagesSigned.
CheckSignatures == Check("check1", TRUE, Collected(smsg), "check2")
CheckSigned == Check("check2", TRUE, signed[smsg], "submit")

\* The helper returns one signature per signer up to the threshold.
EnoughSignatures == Collected(smsg)

CollectSignatures ==
    /\ spc = "collect"
    /\ SenderGoto(IF EnoughSignatures THEN "execute" ELSE "delete")
    /\ UNCHANGED <<rowVars, indexed, procVars, chan, loose, chainVars, lifeVars,
                   stranded>>

\* An error that `?' propagates out of process_message.
CallFails ==
    /\ \/ spc = "prepare" /\ ~KeyUsable
       \/ spc \in {"prepare", "check1", "check2", "collect"} /\ "rpc" \in Faults
    /\ SenderGoto("release")
    /\ UNCHANGED <<rowVars, indexed, procVars, chan, loose, chainVars, lifeVars,
                   stranded>>

Leg == IF spc \in {"submit", "receipt"} THEN "home" ELSE "foreign"

\* send(): the gas estimation refuses a call the contract would reject.
Submit ==
    /\ spc \in {"submit", "execute"} /\ Accepts(smsg, Leg)
    /\ spc' = IF spc = "submit" THEN "receipt" ELSE "execReceipt"
    /\ stx' = "pending"
    /\ UNCHANGED <<rowVars, indexed, procVars, chan, smsg, sstage, loose,
                   chainVars, lifeVars, stranded>>

\* Mutants: a failed send() counts as done, or as half done.
DropOnSubmitError ==
    /\ spc \in {"submit", "execute"}
    /\ "rpc" \in Faults \/ ~Accepts(smsg, Leg)
    /\ SenderGoto("delete")
    /\ UNCHANGED <<rowVars, indexed, procVars, chan, loose, chainVars, lifeVars,
                   stranded>>
StageOnSubmitError ==
    /\ spc \in {"submit", "execute"}
    /\ "rpc" \in Faults \/ ~Accepts(smsg, Leg)
    /\ SenderGoto(IF spc = "submit" /\ ForeignOn(smsg) THEN "stage" ELSE "retry")
    /\ UNCHANGED <<rowVars, indexed, procVars, chan, loose, chainVars, lifeVars,
                   stranded>>

\* An Err of send(): nothing was submitted, or the reply to
\* eth_sendRawTransaction was lost and the transaction is in the mempool.
SubmitFails ==
    /\ spc \in {"submit", "execute"}
    /\ \/ /\ "rpc" \in Faults \/ ~Accepts(smsg, Leg)
          /\ UNCHANGED loose
       \/ /\ "lostsend" \in Faults /\ Accepts(smsg, Leg)
          /\ loose' = loose \cup {<<smsg, Leg, "error">>}
    /\ SenderGoto("retry")
    /\ UNCHANGED <<rowVars, indexed, procVars, chan, chainVars, lifeVars, stranded>>

AlwaysDelete(m) == "delete"    \* mutant: the foreign leg is forgotten

AfterHomeReceipt(m) ==
    IF ForeignOn(m) THEN "stage" ELSE "delete"

\* get_receipt() is Ok for an included transaction, reverted or not.
Receipt ==
    /\ spc \in {"receipt", "execReceipt"} /\ stx \in {"ok", "reverted"}
    /\ spc' = IF spc = "receipt" THEN AfterHomeReceipt(smsg) ELSE "delete"
    /\ stx' = "none"
    /\ UNCHANGED <<rowVars, indexed, procVars, chan, smsg, sstage, loose,
                   chainVars, lifeVars, stranded>>

Abandon(why) == IF stx = "pending" THEN loose \cup {<<smsg, Leg, why>>} ELSE loose

DropOnReceiptError ==    \* mutant: a receipt that is not obtained counts as one
    /\ spc \in {"receipt", "execReceipt"} /\ "receipt" \in Faults
    /\ spc' = "delete" /\ stx' = "none" /\ loose' = Abandon("error")
    /\ UNCHANGED <<rowVars, indexed, procVars, chan, smsg, sstage, chainVars,
                   lifeVars, stranded>>

ReceiptFails ==
    /\ spc \in {"receipt", "execReceipt"} /\ "receipt" \in Faults
    /\ spc' = "retry" /\ stx' = "none" /\ loose' = Abandon("error")
    /\ UNCHANGED <<rowVars, indexed, procVars, chan, smsg, sstage, chainVars,
                   lifeVars, stranded>>

\* What each statement inside process_message does to the row.
Statement ==
    \/ spc = "stage" /\ SetStageForeign(smsg)
    \/ spc = "delete" /\ DeleteEventLog(smsg)
    \/ spc = "retry" /\ IncrementRetryCount(smsg)

UpdateRow ==
    /\ ~Locked(smsg)
    /\ Statement
    /\ IF spc = "stage" THEN SenderGoto("collect") ELSE SenderDone
    /\ UNCHANGED <<indexed, procVars, chan, loose, chainVars, lifeVars, stranded>>

UpdateRowFails ==
    /\ spc \in {"stage", "delete", "retry"} /\ "db" \in Faults
    /\ SenderGoto("release")
    /\ UNCHANGED <<rowVars, indexed, procVars, chan, loose, chainVars, lifeVars,
                   stranded>>

UpdateAckLost ==
    /\ ~Locked(smsg) /\ "lostack" \in Faults
    /\ Statement
    /\ SenderGoto("release")
    /\ UNCHANGED <<indexed, procVars, chan, loose, chainVars, lifeVars, stranded>>

ForgetOnError ==    \* mutant: the handler only logs
    /\ spc = "release"
    /\ SenderDone
    /\ UNCHANGED <<rowVars, indexed, procVars, chan, loose, chainVars, lifeVars,
                   stranded>>

\* The handler of start(): put the row back under the retry ceiling.
Release ==
    /\ spc = "release" /\ ~Locked(smsg)
    /\ IncrementRetryCount(smsg)
    /\ SenderDone
    /\ UNCHANGED <<indexed, procVars, chan, loose, chainVars, lifeVars, stranded>>

\* "The row stays claimed and needs manual intervention"
ReleaseFails ==
    /\ spc = "release" /\ "db" \in Faults
    /\ SenderDone
    /\ stranded' = stranded \cup {smsg}
    /\ UNCHANGED <<rowVars, indexed, procVars, chan, loose, chainVars, lifeVars>>

SenderStep ==
    \/ Receive \/ SenderStops \/ Prepare \/ ForeignDisabled
    \/ CheckAffirmed \/ CheckAffirmations \/ CheckSignatures \/ CheckSigned
    \/ CollectSignatures \/ CallFails
    \/ Submit \/ SubmitFails \/ Receipt \/ ReceiptFails
    \/ UpdateRow \/ UpdateRowFails \/ UpdateAckLost
    \/ Release \/ ReleaseFails

-----------------------------------------------------------------------------
(***************************************************************************)
(* The chains.                                                             *)
(***************************************************************************)
TxIncluded ==
    /\ stx = "pending"
    /\ \/ Accepts(smsg, Leg) /\ Apply(smsg, Leg) /\ stx' = "ok"
       \/ /\ ~Accepts(smsg, Leg) \/ "revert" \in Faults
          /\ stx' = "reverted" /\ UNCHANGED chainVars
    /\ UNCHANGED <<rowVars, indexed, procVars, chan, spc, smsg, sstage, loose,
                   lifeVars, stranded>>

\* A transaction nobody waits for takes effect, or is dropped or reverts.
LooseIncluded ==
    /\ \E tx \in loose :
          /\ loose' = loose \ {tx}
          /\ \/ Accepts(tx[1], tx[2]) /\ Apply(tx[1], tx[2])
             \/ UNCHANGED chainVars
    /\ UNCHANGED <<rowVars, indexed, procVars, chan, senderVars, lifeVars, stranded>>

OthersSign(m) ==
    /\ others[m] < MaxOthers /\ ~Collected(m)
    /\ others' = [others EXCEPT ![m] = @ + 1]
    /\ UNCHANGED <<rowVars, indexed, procVars, chan, senderVars, loose, signed,
                   byUs, relayed, lifeVars, stranded>>

OthersRelay(m) ==
    /\ FromGnosis(m) /\ Accepts(m, "foreign")
    /\ relayed' = [relayed EXCEPT ![m] = TRUE]
    /\ UNCHANGED <<rowVars, indexed, procVars, chan, senderVars, loose, signed,
                   others, byUs, lifeVars, stranded>>

ChainStep == TxIncluded \/ LooseIncluded \/ \E m \in Msg : OthersSign(m) \/ OthersRelay(m)

-----------------------------------------------------------------------------
(***************************************************************************)
(* Life and death of the process.                                          *)
(***************************************************************************)
Shutdown ==
    /\ ~shutdown /\ signals < MaxSignals
    /\ shutdown' = TRUE /\ signals' = signals + 1
    /\ UNCHANGED <<rowVars, indexed, procVars, chan, senderVars, loose,
                   chainVars, exec, crashes, stranded>>

\* The tasks of a new process; the table and the chains survive.
Start ==
    /\ indexed' = [m \in Msg |-> 0] /\ chan' = <<>>
    /\ ppc' = [p \in Processor |-> "loop"]
    /\ pmsg' = [p \in Processor |-> NoMsg]
    /\ pstage' = [p \in Processor |-> "home"]
    /\ SenderDone
    /\ exec' \in ExecConfigs /\ shutdown' = FALSE
    /\ UNCHANGED <<chainVars, signals>>

Restart ==
    /\ spc = "stopped"
    /\ Start
    /\ UNCHANGED <<rowVars, crashes, loose, stranded>>

\* Mutant: a claim lease, so that a new process frees every claim at once.
CrashFreesClaims ==
    /\ crashes < MaxCrashes /\ crashes' = crashes + 1
    /\ Start
    /\ isProcessed' = [m \in Msg |-> IF Stored(m) THEN "false" ELSE "absent"]
    /\ loose' = Abandon("crash")
    /\ UNCHANGED <<retryCount, stage, stranded>>

\* A claim is released only by the process that took it: no handler runs.
Crash ==
    /\ crashes < MaxCrashes /\ crashes' = crashes + 1
    /\ Start
    /\ UNCHANGED rowVars
    /\ loose' = Abandon("crash")
    /\ stranded' = stranded \cup {m \in Msg : isProcessed[m] = "true"}

Init ==
    /\ isProcessed = [m \in Msg |-> "absent"]
    /\ retryCount = [m \in Msg |-> 0]
    /\ stage = [m \in Msg |-> "home"]
    /\ indexed = [m \in Msg |-> 0] /\ chan = <<>> /\ loose = {}
    /\ ppc = [p \in Processor |-> "loop"]
    /\ pmsg = [p \in Processor |-> NoMsg]
    /\ pstage = [p \in Processor |-> "home"]
    /\ spc = "idle" /\ smsg = NoMsg /\ sstage = "home" /\ stx = "none"
    /\ signed = [m \in Msg |-> FALSE]
    /\ others = [m \in Msg |-> 0]
    /\ byUs = [m \in Msg |-> FALSE]
    /\ relayed = [m \in Msg |-> FALSE]
    /\ exec \in ExecConfigs /\ shutdown = FALSE
    /\ signals = 0 /\ crashes = 0 /\ stranded = {}

Next ==
    \/ \E m \in Msg : Index(m)
    \/ \E p \in Processor : ProcessorStep(p)
    \/ SenderStep
    \/ ChainStep
    \/ Shutdown \/ Restart \/ Crash

Spec == Init /\ [][Next]_vars

\* The runtime polls every task that can run, and a transaction of ours is
\* included sooner or later.  Nothing is assumed of the other validators.
Fairness ==
    /\ \A p \in Processor : WF_vars(ProcessorStep(p))
    /\ WF_vars(SenderStep)
    /\ WF_vars(TxIncluded)

FairSpec == Spec /\ Fairness

-----------------------------------------------------------------------------
(***************************************************************************)
(* Properties.                                                             *)
(***************************************************************************)

Busy(p) == ppc[p] \in {"locked", "claimed", "send"}

\* Every variable stays in its type: the columns take the values the schema
\* comments list, and a task holds a message exactly while it works on one.
TypeOK ==
    /\ isProcessed \in [Msg -> {"absent", "false", "true"}]
    /\ retryCount \in [Msg -> Nat]
    /\ stage \in [Msg -> Stages]
    /\ indexed \in [Msg -> Nat]
    /\ ppc \in [Processor -> PPcs]
    /\ pmsg \in [Processor -> Msg \cup {NoMsg}]
    /\ pstage \in [Processor -> Stages]
    /\ chan \in Seq(Job)
    /\ spc \in SPcs
    /\ smsg \in Msg \cup {NoMsg}
    /\ sstage \in Stages
    /\ stx \in {"none", "pending", "ok", "reverted"}
    /\ loose \subseteq Msg \X {"home", "foreign"} \X {"error", "crash"}
    /\ signed \in [Msg -> BOOLEAN]
    /\ others \in [Msg -> Nat]
    /\ byUs \in [Msg -> BOOLEAN]
    /\ relayed \in [Msg -> BOOLEAN]
    /\ exec \in ExecConfigs
    /\ shutdown \in BOOLEAN
    /\ signals \in Nat /\ crashes \in Nat
    /\ stranded \subseteq Msg
    /\ \A p \in Processor : Busy(p) <=> pmsg[p] \in Msg
    /\ spc \notin {"idle", "stopped"} <=> smsg \in Msg
    /\ stx # "none" => spc \in {"receipt", "execReceipt"}

Holds(p, m) == Busy(p) /\ pmsg[p] = m
SenderHolds(m) == spc \notin {"idle", "stopped"} /\ smsg = m
Queued(m) == \E i \in 1 .. Len(chan) : chan[i].msg = m
InFlight(m) ==
    \/ \E p \in Processor : ppc[p] # "locked" /\ Holds(p, m)
    \/ Queued(m)
    \/ SenderHolds(m)

\* "Two processors never claim the same row" (README, Message Processor).
NoDoubleClaim ==
    \A m \in Msg : \A p, q \in Processor : Holds(p, m) /\ Holds(q, m) => p = q

\* From the SELECT ... FOR UPDATE SKIP LOCKED to the sender's last statement a
\* row is in the hands of one task or in one place of the channel, never in two:
\* no message is worked on twice at a time.
OneOwner ==
    /\ NoDoubleClaim
    /\ \A i, j \in 1 .. Len(chan) : chan[i].msg = chan[j].msg => i = j
    /\ \A m \in Msg : \A p \in Processor : Holds(p, m) => ~Queued(m) /\ ~SenderHolds(m)
    /\ \A m \in Msg : SenderHolds(m) => ~Queued(m)

\* A row some task works on is claimed in the table, so nobody else takes it
\* and no ceiling has been passed; a row under lock is still unclaimed.
OwnedRowsAreClaimed ==
    \A m \in Msg :
        /\ InFlight(m) => isProcessed[m] = "true" /\ retryCount[m] < MaxRetry
        /\ Locked(m) => Claimable(m)

\* A claimed row is on its way to settlement or release, or its owner gave it
\* up in one of the ways the code leaves to an operator: no release is ever
\* forgotten on the sender's many early returns (on_chain_sender.rs, start).
ClaimHasOwner ==
    \A m \in Msg : isProcessed[m] = "true" => InFlight(m) \/ m \in stranded

\* The ceiling of the claim query bounds the retries of a row whatever mixes
\* of inner and outer release its failures go through.
RetryWithinBudget == \A m \in Msg : retryCount[m] <= MaxRetry

Settled(m) == signed[m] \/ Collected(m)

\* stage = 'foreign' means "home-chain submitSignature succeeded, only foreign
\* execution pending" (migration 002), also when ours lost the race and the
\* other validators had met the threshold.
StageMatchesChain == \A m \in Msg : stage[m] = "foreign" => Settled(m)

\* A row leaves the table only when the home chain has our signature or needs
\* it no more: no message is dropped unsigned.
DeleteOnlyWhenSettled ==
    [][\A m \in Msg : Stored(m) /\ isProcessed'[m] = "absent" => Settled(m)]_vars

\* If ours is the signature that met the threshold and this validator executes
\* on the foreign chain, the row stays until the message has been executed
\* there: nobody else can be counted on to do it.
CompleterRelays ==
    [][\A m \in Msg : Stored(m) /\ isProcessed'[m] = "absent"
                      /\ ForeignOn(m) /\ byUs[m] => relayed[m]]_vars

\* No signature of ours reaches the home chain without the row it is for: what
\* the sender submits, waits for, or left in the mempool when it lost a reply or
\* died, has its row to show for it until the chain needs no signature any more.
OnlyStoredRowsAreSigned ==
    [][\A m \in Msg : ~signed[m] /\ signed'[m] => Stored(m)]_vars

\* "It never double-submits a signature" (TECHNICAL_WORKFLOW, 7.2, of a process
\* that restarts with a row in flight): what a dead process left in the mempool
\* is not submitted a second time while it is still pending there.
CrashNeverResubmits ==
    spc \in {"receipt", "execReceipt"} /\ stx = "pending" => <<smsg, Leg, "crash">> \notin loose

\* A row parks at the ceiling "as a permanent record of a failed message"
\* (README, Retry and Failure Handling): never for a message that went through.
Parks(m) == ~Parked(m) /\ isProcessed'[m] = "false" /\ retryCount'[m] >= MaxRetry
ParkedMeansFailed ==
    [][\A m \in Msg : Parks(m) => ~(Settled(m) /\ (ForeignOn(m) => relayed[m]))]_vars

\* Every stored row is settled, parked or stranded in the end, unless the
\* process is told to stop: nothing starves in the claim order, waits for ever
\* for the channel or is retried for ever.
EveryRowLeavesTheQueue ==
    \A m \in Msg : Stored(m) ~> (~Stored(m) \/ Parked(m) \/ m \in stranded \/ shutdown)

\* SIGTERM is answered: the processors stop, the channel drains, the sender
\* stops (README, Graceful Shutdown).
ShutdownCompletes == shutdown ~> spc = "stopped"

\* No claim is left without an owner: what the code's comments and
\* TECHNICAL_WORKFLOW promise of errors that are not failed UPDATEs or crashes.
EveryClaimIsOwned == \A m \in Msg : isProcessed[m] = "true" => InFlight(m)

\* "The row comes back with stage='foreign' and the sender skips straight to
\* the foreign leg" (TECHNICAL_WORKFLOW, 7.2, of a process that dies between
\* the two legs): a claim at the foreign stage always has an owner.
ForeignStageResumes ==
    \A m \in Msg : isProcessed[m] = "true" /\ stage[m] = "foreign" => InFlight(m)

-----------------------------------------------------------------------------
(***************************************************************************)
(* What the table promises: EventLogs.tla, with this mapping of the rows.  *)
(***************************************************************************)
Life(m) ==
    CASE isProcessed[m] = "absent" -> "absent"
      [] Parked(m) -> "parked"
      [] Claimable(m) -> "waiting"
      [] OTHER -> IF InFlight(m) THEN "held" ELSE "lost"

Queue == INSTANCE EventLogs WITH
    life <- [m \in Msg |-> Life(m)],
    attempts <- retryCount,
    leg <- stage,
    settled <- [m \in Msg |-> Settled(m)]

\* Locks, tasks, the channel, lost COMMITs, failed statements and crashes
\* amount to the life of a row in EventLogs: it is taken once, comes back
\* counted, leaves or changes its leg only settled, and stays where it is parked
\* or lost.
ImplementsEventLogs == Queue!Spec

=============================================================================
