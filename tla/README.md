# Bridge validator: models, checks and proofs

TLA+ models of the Gnosis Chain bridge validator (`src/bridge_validator`), the TLC
configurations that check them on small instances, and theorems that hold for every value of
the constants, checked by TLAPS. `PROJECT.json` relates every definition to the lines it
stands for, and lists runs, mutants, findings, hazards and theorems.

```
tlc -workers 2 -config MCRelayBase.cfg MCRelayPipeline      # one run
tlapm RelayPipelineProofs.tla                               # one module of proofs
```

## 1. The system

The validator is one process. `main` joins eight tasks **in one task** (`tokio::join!`), so
they interleave at `await` points and nowhere else; they share a PostgreSQL database and one
bounded channel.

| Component | State | Operations | Talks to |
|---|---|---|---|
| Event indexer, four tasks (`event_indexer.rs`) | cursor, in memory only | resolve the bound, poll the range in chunks, insert logs | safe and finality resolvers, providers, `event_logs` |
| Message processor, two tasks (`msg_processor.rs`) | the row in hand | claim the next row, decode and sign, send to the channel | `event_logs`, channel |
| On-chain sender (`on_chain_sender.rs`) | the message in hand | pre-flight checks, home transaction, stage change, foreign transaction, delete or retry | channel, both chains, `event_logs` |
| FCR checker (`fcr_checker.rs`) | none between cycles | find pending rows that are final, compare hashes, confirm, or record a false positive | resolvers, `event_logs`, `fcr_false_positives` |
| `event_logs` (migrations 001-004) | `is_processed`, `retry_count`, `stage`, `block_hash`, `fcr_status` | the statements of the four above | |
| Finality resolver (`finality.rs`) | none | beacon node first, then each execution node | indexer, checker |
| Safe-block resolver and preflight (`safe.rs`) | none; downgrades the configuration once | classify the answers of the nodes, canonical hash of a number | indexer, checker, `main` |
| Configuration (`config/mod.rs`) | constants of the process | parse the environment | everything |
| RPC provider (`provider.rs`) | none | one node, or a fallback layer over several | indexer |
| Startup and shutdown (`main.rs`) | shutdown flag | signals, migrations, channel, join | everything |
| Contract bindings, error types | none | | |

What is hard about it, and what makes each component correct:

* **Rows as a queue.** Two processors claim rows under `FOR UPDATE SKIP LOCKED`; the claim
  outlives the transaction as `is_processed = 'true'` and is released by the sender only.
  Correct means: one owner per row, and no claim without an owner on any error path.
* **Two transactions per message, on two chains**, next to other validators that sign the same
  message. Correct means: no row is deleted before its message is settled, no foreign leg is
  forgotten, no signature appears without its row, and a leg is not submitted again because the
  process died, although replies of nodes get lost at every step.
* **Retries without backoff in block order**, which could starve later rows, under a ceiling that
  two different releases (inside and around `process_message`) count towards.
* **A cursor in memory** over a bound that may go back (safe, then finalized), ranges that fail
  in the middle, providers with limits, and a chain that reorganises between the bound, the
  logs and the INSERT. Correct means: no log is missed below the cursor, no stall.
* **Reorganisations under the checker.** Rows are deleted and stored again while a verdict is
  being reached. Correct means: each verdict agrees with the finalized chain for good, each
  false positive is recorded exactly once, and none is raised that a correct safe head would
  have spared.
* **Endpoints that fail, refuse or have nothing**, at boot and in every cycle. Correct means: a
  chain loses its mode only to a provider's verdict, a safe bound is used only where somebody
  revalidates, and a lookup gives up only after everyone was asked.
* **Shutdown** by dropping the ends of the channel, while processors wait for room in it or
  `main` is still connecting.

The hazards this gives, each at its line, are in `PROJECT.json`.

## 2. Modules

| Module | Models |
|---|---|
| `EventLogs` | what the table promises of an event: an abstract work queue |
| `RelayPipeline` | table, processors, channel, sender, both chains, shutdown, restart, crash; all four message kinds; implements `EventLogs` |
| `Chain` | one chain with its reorganisations, shared by the next three |
| `EventIndexer` | one indexer task |
| `FcrChecker` | the checker of one chain, with the other users of the table |
| `Validator` | indexer and checker of one process over one chain and one table; implements both |
| `Service` | the whole process as one chain sees it: `Validator` and `RelayPipeline` over one table; implements both |
| `Startup` | configuration, preflight, the rest of `main`, the walks over the endpoints |
| `MCRelayPipeline`, `MCEventIndexer`, `MCFcrChecker`, `MCService`, `MCStartup` | small instances |
| `RelayPipelineProofs`, `RelayCompletionProofs`, `RelayRefinementProofs`, `EventIndexerProofs`, `FcrCheckerProofs`, `ValidatorProofs`, `ServiceProofs`, `StartupProofs` | theorems and proofs |

An action is what a task does from one `await` to the next, whole: the statements that follow
a call without awaiting belong to the action of the call. Definitions marked `mutant` are
plausible bugs; no specification uses them. They are there to show that the
property beside them in `PROJECT.json` would notice.

### RelayPipeline and EventLogs

| State | Code |
|---|---|
| `isProcessed`, `retryCount`, `stage` | columns of `event_logs`; `"absent"` is no row. `is_processed` is text, compared with `'false'`, and stays text here |
| `ppc`, `pmsg`, `pstage` | where a processor is, the row it holds and the stage it read with it |
| `chan` | the channel, at most `ChannelCap` messages (32 in `main`) |
| `spc`, `smsg`, `sstage`, `stx` | where the sender is, its message, its transaction |
| `loose` | transactions of ours still in the mempool that nobody waits for: the reply of `send()` or the receipt was an error (`"error"`), or the process died (`"crash"`) |
| `signed`, `others`, `byUs`, `relayed` | what the chains know of a message |
| `exec`, `shutdown`, `signals`, `crashes` | this process's `*_EXECUTE_MESSAGE_ON_FOREIGN`, its life |
| `stranded` | history: claims given up without a release |

Processor: `ProcessorLoop`, `SelectRow`/`NoRow` (the locking SELECT), `CommitClaim`,
`RollbackClaim`, `ClaimAckLost`, `ProcessMessage`/`ProcessMessageFails`, `SendToChannel`.
Sender: `Receive`, `Prepare` (key, connection, `requiredSignatures`), the checks of the two
directions, `Submit`/`SubmitFails`, `Receipt`/`ReceiptFails`, `CollectSignatures`, `UpdateRow`
with its two failures, and the release of `start()` as `Release`/`ReleaseFails`. The two bridges
run through the same actions; `Bridge` keeps their keys and their switches apart.

Choices a reader may ask about:

* `get_receipt()` is `Ok` for a transaction that was included and reverted; `stx = "reverted"`
  therefore leads where `"ok"` does, as in the code.
* `send()` estimates gas, so a call the contract would refuse is refused there (`Accepts`); a
  call that was acceptable may no longer be when it is included (`TxIncluded`).
* `Err` of `send()` says nothing about the transaction: the call may have failed before it took
  effect (`"rpc"`), or the node took the transaction and its reply was lost (`"lostsend"`). The
  code retries the row in both cases; in the second our transaction is `loose` meanwhile.
* A statement of the sender waits for a row a processor has locked (`~Locked(smsg)`).
* The connection to the foreign chain fails in `CallFails` at `"collect"`, with the calls before it.
* An unknown bridge mode and a malformed xDai message cannot occur: the contract addresses
  come from the same configuration, and `create_xdai_message` always builds 124 bytes.
* The indexer is at most `MaxInserts` successful INSERTs per event and process lifetime. An event
  whose row was deleted is inserted again by a restarted indexer at its first block, and
  within one lifetime when a reorganisation includes the log once more.
* Under `"rowlock"` the claim query passes over a row that is claimable: the checker's
  transaction holds it, and `SKIP LOCKED` skips it.

`EventLogs` says nothing of tasks, locks and channels: an event is `"absent"`, `"waiting"`,
`"held"`, `"parked"` or `"lost"`; it is taken once, comes back counted, changes its leg or leaves
only settled, and stays where it is parked or lost. `RelayPipeline!Life` reads this off the
columns and off who has the row; `Queue` is the instance with that mapping, and
`ImplementsEventLogs` its specification.

### EventIndexer

`cursor` is `last_processed_block`; `upper`, `startBlock`, `chunkStart` and `indexedThrough`
are the locals of `poll_events`; `batch` holds the logs of a chunk still to insert and
`stored` all that ever were inserted. `ResolveUpperBound`, `NoNewBlocks`, `BeginPoll`, `GetLogs`,
`GetLogsFails`, `InsertLog`, `InsertFails`, `NextChunk`, `EndPoll` and `SleepOrStop` follow the
task's loop. Which of several nodes answers is a nondeterministic choice: in `fcr` mode the
bound may be the finalized head whenever `safe` can fail, and under `"lag"` the logs come from
a node that has not seen the newest blocks. `ChainGrows` moves the two heads and
`ChainReorganises` replaces any blocks above the finalized one, at any moment between the
bound, the logs and the INSERT. The mode is chosen at each start. `broken` (lowest block
replaced after it was safe), `lost` (logs a failed INSERT or a lagging node left out) and
`origin` are history.

### FcrChecker

A block is a number and a hash (the reorganisation that brought it); `finalized` and everything
below it is fixed. `Fetch`, `InsertRow` and `InsertFails` are the indexers, in two steps because
the chain can change between `eth_getLogs` and the INSERT; `DeleteRow` is the sender. `todo`,
`block` and `affected` are the locals of `check_chain`: pairs to visit, pair in hand, rows
selected `FOR UPDATE`. Rows of `block-finality` mode have status `"final"` (NULL in the column);
a restart may change the mode and finds the rows of the other. Two chains do not interact in the
checker, so one is modelled. Which head a node calls safe is left open: any block may be read.

### Validator

`EventIndexer` and `FcrChecker` each leave the other's part open. `Validator` instantiates both
over one `Chain`, one table and one process, and takes joint steps: `GetLogs` is the indexer's
`GetLogs` **and** fills `fetched`, from which the checker's `InsertRow` stores; shutdown, restart
and mode are shared; the indexer's `batch` is the set of logs with something in `fetched`.
What one of them does alone leaves the other's variables unchanged.

### Service

`Service` extends `Validator` with an instance of `RelayPipeline` whose messages are the logs, and
gives the row the columns of both. `Store` is the INSERT of both (`InsertRow` **and**
`Relay!Index`), a DELETE in `Send` is also the checker's `DeleteRow`, and `StopAll` and `StartAgain`
end and begin the life of all tasks together. Row locks cross the border in both directions: a
statement of the checker waits while a claim has one of its rows locked (`RowsInUse`), a
statement of the sender waits while the row is selected `FOR UPDATE` by the checker (`RowHeld`),
and the claim query skips it (`Free`) and takes the lowest block of the rest. A statement that waits
may still fail. Rows of the other chain only keep the processors busy and are left out; the
pipeline alone has them. `MaxEnds` bounds signals and crashes together.

`ImplementsValidator` and `ImplementsPipeline` say that each half sees of the other what its own
module assumes: a sender that deletes rows, and INSERTs and rows that are passed over.
`SignaturesAreJustified` is the promise only the whole can make: what reaches the home chain under
our signature is a log the source chain still includes, unless the chain broke its own promise
of safety at or below that block. `NoLogIsForgotten` follows a log the other way: once the
cursor has passed its block it is in the table until the home chain has our signature or needs none.

### Startup

`setting` is the spelling of the two modes in the environment, `mode` what is in effect.
`ReadConfig`/`BadConfig` are `Config::from_env`; `Probe` and `DecideMode` the preflight, one
`probe_safe_block` per step, `SafeProbe` its classification; `OpenDatabase`, `BootFails`,
`StartTasks`, `Signal` and `AllStopped` the rest of `main`. Before the signal task listens a
signal kills the process; from then on it is kept in the watch channel. Then the walks: `AskSafe`,
`FallBack`, `AskFinalized` and `AskHash` ask one endpoint each, the beacon node (endpoint 0)
first where `get_finalized_block_number` does so, and `GiveUp` when nobody is left. `RetryCeiling` is
`positive_u64_from_env` followed by the clamp in `read_from_db`. `due` counts the lookups that the
cycles in progress have yet to make, of all tasks together: `StartTasks` begins the first cycles
whether or not a signal came meanwhile, `WakeUp` begins later ones, and only a task whose cycle is
over looks at the flag (`AllStopped`). `probed` and `heard` are history. Each answer is chosen anew at each call from the five a node can give (`Answers`).

## 3. Runs

All runs set `CHECK_DEADLOCK FALSE`: the process may really stop, and the bounded
environment runs out of steps.

| Run | Checks | What it shows | States |
|---|---|---|---|
| `relay_base` | `TypeOK OwnedRowsAreClaimed StageMatchesChain CompleterRelays` | calls that fail before they take effect, shutdown with restart, crash | 3.3 M |
| `relay_faults` | `OneOwner ClaimHasOwner RetryWithinBudget CrashNeverResubmits DeleteOnlyWhenSettled OnlyStoredRowsAreSigned ImplementsEventLogs` | failing RPC, lost replies of `send()`, receipts, failing statements, lost COMMITs, undecodable logs, crash; the whole is a work queue | 1.0 M |
| `relay_live` | `EveryRowLeavesTheQueue ShutdownCompletes` | no starvation, no endless retry, drained shutdown, under lost replies, reverts and foreign execution switched off | 420 k |
| `relay_bad_key`, `relay_receipt`, `relay_revert` | one property each | violated: section 6 | |
| `indexer` | `TypeOK NoGap ChunksAreBounded FinalityModeStoresFinal CursorNeverMovesBack CatchesUp StopsOnShutdown` | both modes, all faults, a reorganisation, a backlog in front of a provider's limit, a restart in another mode | 932 k |
| `indexer_insert` | `NothingSkipped` | violated: section 6 | |
| `fcr_faults` | `TypeOK VerdictMatchesChain NoLostAlert OneAlertPerFalsePositive` | two reorganisations, failing calls and statements, lost COMMIT reply, restart in another mode | 1.3 M |
| `fcr_live` | `FinalizedRowIsChecked StopsOnShutdown` | a pruned block, a reorganisation, failing calls and statements | 28 k |
| `service` | `ServiceTypeOK AlarmMeansBrokenSafety NoLogIsForgotten ImplementsChecker ImplementsPipeline SignaturesAreJustified` | the whole process over one table, its chain reorganised between any two steps | 636 k |
| `startup` | `TypeOK ModeIsConfiguredOrVerdict SafeBoundIsChecked FailsLast CeilingIsUsable SignalEndsProcess` | every spelling, every answer of every endpoint, a signal at any moment of boot or of a cycle | 653 k |

### Bounds, and why they are enough

* Two events and two processors: the claim order, the row lock and double ownership relate two
  rows or two tasks. One event comes from each chain (`MCMixed`), so that both kinds of
  message and both bridges occur, except where a run is about Gnosis Chain rows (`MCGnosis`).
* A channel of one: it is full with one message, and waiting for room is the only thing its
  capacity decides.
* `MaxRetry = 2`: a first retry, a last one, and the ceiling.
* `Required = 2` in `relay_base`: our signature may come first, complete the threshold, or come
  too late, and `MaxOthers = 2` lets the others meet it alone. The runs with more faults use a
  threshold of one.
* `MaxInserts = 1`: an event comes back once per restart. A second time within one life needs a
  log that moves up to a block the cursor has not passed; the theorems cover it.
* One signal and one crash: a restart that finds the table and mempool as the first life left
  them. The theorems have no such bound.
* Indexer: four blocks, chunks of two and a provider that answers two (`MaxRange`,
  `ProviderLimit`). After a first cycle at block 1 the backlog is up to 2..4: three blocks, wider
  than the provider answers, so that an unchunked range is refused for good, and cut into a
  full chunk and a short one. The log sits in the middle and one reorganisation may move it down,
  up or away.
* Checker: two blocks with a log each and two reorganisations: a log moves from one block into the
  other and back, so that a row's block comes back into question after it was stored again.
* Composition (`service`): one block that is replaced twice with its log, one processor, one
  signal or crash and the restart after it. A row is judged, claimed, signed and deleted in every
  order these allow, and its log is stored again. The arithmetic of blocks and the order of claims are the
  business of the runs of the parts, and so are failing calls of the indexer, `"lag"`, lost replies
  and receipts; the theorems of section 4 cover all of them for the composition.
* `MaxLookups = 2` in `startup`: a cycle with more than one lookup, or two tasks with one each.
* Startup: a chain with a fallback RPC and one with a beacon node, so that each walk has a first, a
  next and a last endpoint. `MaxI32 = 7` and `MaxU64 = 17` stand for the widths: with 17 a cast
  wraps to a negative value and once around.

### Fairness, and why the code justifies it

* Weak fairness of each processor, the sender, the indexer and the checker: the runtime polls
  every task whose future is ready, and no loop of theirs blocks the thread.
* Weak fairness of `TxIncluded`: `get_receipt()` returns once the transaction is included. A
  transaction that never is included keeps the sender in `get_receipt()` for ever (there is no
  timeout in the code), so `EveryRowLeavesTheQueue` and `ShutdownCompletes` depend on it.
* Strong fairness of the calls of the indexer (`ResolveUpperBound`, `GetLogs`) and of the
  calls and statements of the checker: a call that is made again and again succeeds in the
  end. `CatchesUp` says that the cursor reaches the finalized head again and again, unless the
  process is shut down. `GetLogs` is only enabled for ranges the provider answers, and `LookUp` only for blocks
  the providers have. Fairness of `LookUp` is per pair, since the loop goes over all of them.
* Weak fairness of `BootStep`, `WalkStep` and `AllStopped` in `Startup`: every call returns, with
  whatever answer. The HTTP clients have no timeout of their own, so this is an assumption
  about the nodes; a node that accepts a call and never answers stops its task, and a shutdown
  with it, or the boot when it is asked by the preflight. That `main` starts is therefore not
  claimed.
* Nothing is assumed of other validators, of signals, of crashes, or of INSERTs.

## 4. What is proved

Every theorem is for any number of messages, rows, blocks, processors, endpoints and
validators and for any capacity, ceiling and chunk size, from the named assumptions of the modules
(types of the constants; `MaxRange`, `MaxRetry`, `ChannelCap` and `Required` positive, as
`positive_u64_from_env` and `main` ensure).

| Theorem | Says | Besides |
|---|---|---|
| `RelayPipelineProofs!TypeCorrect` | `[]TypeOK` | |
| `ExitIsDrained` | a stopped sender leaves no message in a task or in the channel | |
| `ClaimsHaveOwners` | `[]ClaimHasOwner` | |
| `RowsHaveOneOwner`, `WorkIsOnClaimedRows` | `[]OneOwner`, `[]OwnedRowsAreClaimed` | no `"lostack"` |
| `RetriesAreBounded` | `[]RetryWithinBudget` | no `"lostack"` |
| `CrashesResubmitNothing` | `[]CrashNeverResubmits` | no `"lostack"` |
| `NoUnsignedDrop` | `DeleteOnlyWhenSettled` | no `"revert"` |
| `StageIsTruthful` | `[]StageMatchesChain` | no `"revert"` |
| `SignsStoredRows` | `OnlyStoredRowsAreSigned` | no `"revert"` |
| `RelayCompletionProofs!CompletersRelay` | `CompleterRelays` | no `"lostsend"`, `"receipt"`, `"revert"`, `"db"`, `"lostack"`; one setting of foreign execution |
| `ClaimsAreOwned` | `[]EveryClaimIsOwned` | no `"lostcommit"`, `"decode"`, `"db"`; no crash, all keys, one setting of foreign execution |
| `RelayRefinementProofs!RelayImplementsEventLogs` | `ImplementsEventLogs` | no `"lostack"`, no `"revert"` |
| `EventIndexerProofs!TypeCorrect` | `[]TypeOK` | |
| `CursorIsMonotone` | `CursorNeverMovesBack` | |
| `ChunksBounded` | `[]ChunksAreBounded` | |
| `FinalityModeIsFinal` | `FinalityModeStoresFinal` | |
| `NoLogIsSkipped` | `[]NoGap` | |
| `NothingIsSkipped` | `[]NothingSkipped` | no `"insert"`, no `"lag"`; no `fcr` mode or no reorganisation |
| `FcrCheckerProofs!TypeCorrect` | `[]TypeOK` | |
| `VerdictsAreTrue` | `[]VerdictMatchesChain` | |
| `AlertsAreKept`, `AlertsAreUnique` | `[]NoLostAlert`, `[]OneAlertPerFalsePositive` | no `"slowinsert"` |
| `ValidatorProofs!TypeCorrect` | `[]TypeOK` | |
| `ValidatorImplementsChecker` | `ImplementsChecker` | |
| `PartsKeepTheirPromises` | `NoGap` and `VerdictMatchesChain` hold in the composition | |
| `AlarmsMeanBrokenSafety` | `[]AlarmMeansBrokenSafety` | |
| `ServiceProofs!ServiceTypeCorrect` | `[]ServiceTypeOK` | |
| `ServiceImplementsValidator`, `ServiceImplementsChecker` | `ImplementsValidator`, `ImplementsChecker` | |
| `ServiceImplementsPipeline` | `ImplementsPipeline` | |
| `ServiceKeepsItsPromises` | `[]AlarmMeansBrokenSafety`; `NoGap` and `VerdictMatchesChain` hold in the whole | |
| `PipelineKeepsItsPromises` | `ClaimHasOwner` and `DeleteOnlyWhenSettled` hold in the whole | no `"revert"` |
| `SignaturesJustified` | `SignaturesAreJustified` | no `"revert"` |
| `NothingIsForgotten` | `[]NoLogIsForgotten` | no `"revert"` |
| `StartupProofs!TypeCorrect` | `[]TypeOK` | |
| `ModesAreSound` | `[]ModeIsConfiguredOrVerdict` | |
| `SafeBoundsAreChecked` | `[]SafeBoundIsChecked` | |
| `CeilingsAreUsable` | `[]CeilingIsUsable` | |
| `LookupsFailLast` | `[]FailsLast` | |

The assumptions in the last column are needed: with the fault the property is false
(section 6). `NoGap` needs none because what a failed INSERT, a lagging node or a broken safe
head leaves out is in its statement (`lost`, `broken`); `NothingSkipped` is the same without
these exceptions, which is what the README promises and is false in general. `NothingIsSkipped`
says where it is true, and `ClaimsAreOwned` does the same for `EveryClaimIsOwned`.

**Ownership.** `OneOwner` is not inductive. The strengthening adds that a held row is claimed
below the ceiling, that a locked row is still claimable, and that after the sender's exit
everybody has stopped (so a restart finds no owners). A row's owner then changes hands in one
step (lock, commit, send, receive, statement), and each step is shown to leave the others
empty. `ClaimHasOwner` needs no such strengthening; it holds under all faults because
`stranded` grows in exactly the steps that drop a claim.

**No second submission after a crash.** `CrashNeverResubmits` relates the mempool to the sender's
hand. The invariant is `AbandonedIsLost`: a message of which a crash left a transaction behind is
one nobody holds and nobody can claim (`Lost`). It is inductive because the crash leaves the row
claimed, and nothing but its owner releases a row. A transaction that is loose for another
reason, an error of `send()` or of `get_receipt()`, has had its row released by the sender, which
may submit the leg again while it is pending (section 6).

**Settlement.** `DeleteOnlyWhenSettled` rests on an invariant on the sender's program counter:
at `"delete"`, `"stage"` and after, the message is settled on the home chain, and it stays so
because signatures are never taken back. The transaction in `stx` carries the fact from its
inclusion to its receipt.

**Backing.** `OnlyStoredRowsAreSigned` (no signature of ours without the row it was claimed
from) spans the whole pipeline, so its invariant `WorkIsBacked` does too: whatever a task, the
channel, the sender or the mempool holds has a stored row, or is settled. A row is deleted only when
its message is settled, and then every stray copy of it is refused as a second signature.

**Claims.** A claim can be stranded by a crash, a lost COMMIT reply, a row that does not
decode, a missing key, a release that fails, or foreign execution switched off. Without
these `stranded` stays empty (`NothingStranded`), and a copy at stage `'foreign'` belongs to a
bridge that executes (`ForeignCopiesExecute`), so that `ClaimHasOwner` becomes
`EveryClaimIsOwned`.

**Completion.** That our signature completed a message is decided in the mempool, and what follows
from it has to survive the sender's program counter, the stage column and the copies of it that
processors and the channel carry. The invariant `DebtInv` says where an execution we owe is to be
found: with the sender between inclusion and stage statement, in a row at stage `'foreign'` all of
whose copies say the same, or in a row a crash left claimed. A start that switches foreign
execution on would owe executions for rows that are gone, hence the assumption on `ExecConfigs`.

**The queue.** `RelayImplementsEventLogs` is a step simulation: the initial states map to the
initial state, and each action, under the ownership and settlement invariants, to one step of
`EventLogs` or a stutter. `CommitClaim` is `Take`, every release is `Return`, the stage change
`Advance`, the deletion `Finish`; `Settle` is a signature collected by us or the others; a
crash is `Die`. Ownership is what makes `Life` change for one message at a time.

**Cursor.** `NoGap` needs the loop invariant of `poll_events`: everything from `startBlock` to
`indexedThrough` is stored, lost or in `batch`, the cycle starts one past the cursor (or sets
`origin`), and the chunk is contiguous with what precedes it. A reorganisation disturbs it only at
or above `broken`, or above the bound of the cycle.

Without failed INSERTs and lagging nodes `lost` stays empty (`NothingLost`). The exception for
`broken` is about `fcr` mode only, and without reorganisations no safe block is replaced
(`SafetyUnbroken`): either way nothing of it is left, which is `NothingIsSkipped`.

**Verdicts.** The pair in the checker's hand is at or below `finalized`, and its comparison
with the chain, once made, stays true: finality only grows and fixes what is below it. Rows
that change meanwhile are safe because the statements select by number **and** hash. For the
audit trail: rows selected `FOR UPDATE` are all the rows the UPDATE finds, which holds exactly
when no log of a finalized block is still waiting for its INSERT (`SnapshotsAreCurrent`).

**Composition.** Each step of `Validator` is shown to be a step of each part or to leave it
alone. The one that is not immediate is `GetLogs`: the checker allows only what `Readable` says,
so the indexer's bound must still be final (or the mode `fcr`) when the answer comes; that is
the anchor of `FinalityModeIsFinal`. The invariants of the parts then hold of the whole by PTL,
and serve to prove `AlarmMeansBrokenSafety`, which neither part can state: a row or fetched log
was on the chain at or below the safe head when it was read, so whatever took it off the chain
broke safety at or below its block.

**The whole service.** Each step of `Service` is shown to be a step of `Validator` or to
leave it alone, and the same for `RelayPipeline`; the row locks only take steps away. What is not
immediate is that the two agree on the rows: `RowsAgree` (stored for one means stored for the
other) makes a DELETE of the sender a `DeleteRow` of the checker, and `LockedIsStored` keeps a row in
place while a processor's claim has it locked. The theorems about the parts then hold of the whole, and
`SignaturesJustified` puts four of them together: a signature is for a stored row
(`SignsStoredRows`), a stored row is one the checker knows (`RowsAgree`), its block is on the chain
or safety was broken at or below it (`AlarmsMeanBrokenSafety`), and a row that is final or
confirmed is in a canonical block (`VerdictsAreTrue`).

`NothingIsForgotten` joins the indexer's half to the pipeline's. `NoGap` says of a log behind the
cursor that it was stored once; that it still is, or was settled before its row went, is the
invariant `StoredIsKept` of the whole: rows leave the table by the sender's DELETE only,
and `NoUnsignedDrop` says when. No verdict, release, crash or restart removes one.

**Startup.** `ModeIsConfiguredOrVerdict` needs that `supported` and `reachable` are what the
answers in `probed` say of the chain in hand, and that a chain not yet decided is still in its
configured mode. `FailsLast` needs that a walk at endpoint `next` has heard from all before it.

## 5. What is only model-checked

Liveness under fairness (`EveryRowLeavesTheQueue`, `ShutdownCompletes`, `CatchesUp`,
`FinalizedRowIsChecked`, `StopsOnShutdown`, `SignalEndsProcess`) is beyond the
prover, as is ENABLED. Induction over recursively defined data is too, and the modules have none.
Every safety property and every action property of the passing runs is also a theorem, but for
the faults the table names.

## 6. Deviations

Runs that TLC is expected to find violated; `PROJECT.json` quotes the documents.

* `relay_bad_key`: a row from Gnosis Chain whose key is missing is stranded by the processor
  (`msg_processor.rs:87`), where the documents say it burns its retries and parks. (Keys stay
  text in the configuration, so a bad one is not found at boot either.)
* `relay_receipt`: after a lost receipt the retry finds the message signed and deletes the row;
  the foreign leg is forgotten. (A lost reply of `send()` has the same end: the table below.)
* `relay_revert`: the status in a receipt is not looked at; a reverted transaction deletes the row.
* `indexer_insert`: a failed INSERT is logged and the cursor passes its block.

Further ones the models show; each needs only other constants, and has no run of its own:

| Property | Constants | What happens |
|---|---|---|
| `NoDoubleClaim` | `"lostack"` | the release of `increment_retry_count` takes effect, its reply is lost, and `start()` releases the row again after a processor claimed it |
| `EveryClaimIsOwned` | `ExecConfigs` with and without the bridge | a row at stage `'foreign'` meets a process with foreign execution off: `process_message` returns without touching it |
| `ForeignStageResumes` | `MaxCrashes = 1` | a row whose process died between the two legs stays claimed (`TECHNICAL_WORKFLOW.md` 7.2 says it resumes; its section 12 admits the claim is stuck) |
| `ParkedMeansFailed` | none | someone else executes on the foreign chain first; our row retries to the ceiling |
| `CompleterRelays` | `"lostsend"` | the node takes submitSignature although `send()` fails, and it completes the threshold; the retry finds the message signed and deletes the row without the foreign leg |
| `CompleterRelays` | `"db"` | the stage statement fails after the receipt; the retry finds the message signed and deletes the row |
| `CompleterRelays` | `"lostack"`, `MaxRetry = 3` | a row is claimed twice; the copy still at stage `'home'` finds the message signed and deletes the row |
| `OnlyStoredRowsAreSigned` | `"revert"`, `"receipt"` | the retry's transaction reverts and deletes the row while the first one is still pending |
| `NothingSkipped` | `"lag"` | a node behind the bound answers with no logs and the cursor passes them |
| `NothingSkipped` | `MaxReorgs = 1`, mode `fcr` | a reorganisation below the cursor brings blocks that are never asked for (`README.md:94`: "never skipped") |
| `NoLostAlert` | `"slowinsert"` | a row inserted between the SELECT and the UPDATE becomes `'reverted'` without an audit row |

Met while modelling, and not properties of the models:

* After an error of `send()` or of `get_receipt()` the row is retried while its transaction may still be
  pending, so that two transactions for one leg can be; the second signature reverts when it is
  included. `TECHNICAL_WORKFLOW.md` 7.2 says "never double-submits" of a process that died, where
  `CrashNeverResubmits` holds.
* While the cursor is 0, a range that fails is not retried: the next cycle starts at its own bound.
* The sender deletes a settled row before the checker can see its block finalize, so an orphan may
  have been signed without a false positive on record.
* The preflight logs "no configured EL RPC can serve the 'safe' block tag" (`safe.rs:385`) also when
  the capable provider was only down; the README says "reachable".
* `get_finalized_block_from_el` takes a block that comes beside a JSON-RPC error; the two lookups
  of `safe.rs` do not.
* `FCR_INTEGRATION.md` gives `block-finality` as the default of both chains; the code and the README
  have `fcr` for Ethereum.
* Rows left `'pending'` by a process in `fcr` mode are not revalidated by one whose chain was
  downgraded or reconfigured, until the chain is in `fcr` mode again.

## 7. Not modelled, and why

* Bytes: signatures, hashing, ABI coding, the xDai message; only success and failure matter to
  the properties here.
* Account nonces, gas prices and replacement of transactions: library and node behaviour.
* A reorganisation of the home chain after our receipt, and governance of the contracts.
* An execution node behind the beacon node's finalized number, which would make the checker
  compare with an orphaned block: all nodes show one chain, apart from `"lag"`.
* The scoring and the parallel requests of the provider's fallback layer: library code. The sender
  uses the first URL of the array only; its failures are the fault `"rpc"`.
* Calls that never return. No client of the service sets a timeout: a node that accepts a call and is
  silent holds up the boot, the task that asked, and a shutdown.
* A `select!` that finds interval and signal ready in the same poll: it may begin one more cycle
  before it stops.
* Two bridge addresses that are equal (`Config::from_env` does not compare them).
* A log that gets another index when its transaction is included again: it is another log here.
* What the migrations do, intervals and sleeps, which variable fails to parse.
* The helper contract's blob of signatures: the length check in the sender takes it to hold no
  more signatures than the threshold.
* Error types, build files and documents: no behaviour.

## 8. Plan

Done: `RelayPipeline`, `EventIndexer` and `FcrChecker` with their theorems; `EventLogs` and the
refinement; `Chain` and reorganisations in the indexer; `Validator`; `Startup` with
configuration, preflight, resolvers and boot; `Service`, in which the row the checker judges
is the row the sender signs and deletes.

Left:

1. Nodes with different views of the chain in the checker and the resolvers.
2. `Service` with the rows of both chains, and foreign execution in its run.
3. The layout of the xDai message and its parser as inverse functions.
