------------------------------- MODULE Startup -------------------------------
(***************************************************************************)
(* From the environment variables to the running tasks, and what the tasks *)
(* ask their endpoints ever after: the configuration, the preflight that   *)
(* decides the mode of each chain for the lifetime of the process, and the *)
(* walks over a chain's RPC array for the safe block, the finalized block  *)
(* and a canonical hash.  Every call is answered anew, so an endpoint may  *)
(* fail, recover or change between two calls.  The tasks share nothing in  *)
(* these walks, so one at a time stands for all.                           *)
(***************************************************************************)
EXTENDS Integers

CONSTANTS
    Urls,            \* Urls[c]: number of execution-layer RPCs of a chain
    Beacons,         \* chains with a beacon RPC
    MaxLookups,      \* bound: lookups the cycles in progress have still to make
    MaxI32, MaxU64   \* widths of the retry_count column and of the settings

Chains == {"eth", "gc"}

ASSUME UrlsAssumption == Urls \in [Chains -> Nat \ {0}]
ASSUME BeaconAssumption == Beacons \subseteq Chains
ASSUME LookupAssumption == MaxLookups \in Nat \ {0}
ASSUME WidthAssumption == MaxI32 \in Nat /\ MaxU64 \in Nat /\ 5 <= MaxI32

VARIABLES
    setting,         \* {ETH,GC}_BLOCK_PROCESSING_MODE as the operator spells it
    pc,              \* how far main() has come
    mode,            \* the mode in effect, per chain
    toProbe,         \* preflight: fcr chains still to decide
    supported, reachable,    \* preflight: ChainSafeSupport of the chain in hand
    checked,         \* chains the FcrChecker owns
    walk, chain,     \* the walk in progress and whose array it walks
    next,            \* the next endpoint to ask, 0 for the beacon node
    found,           \* what the walk came to
    due,             \* lookups the cycles in progress make yet, of all tasks
    shutdown,
    probed,          \* history: what the providers of each chain answered at boot
    heard            \* history: the answers of this walk, <<tag, endpoint, answer>>

bootVars == <<setting, mode, toProbe, supported, reachable, checked, probed>>
walkVars == <<walk, chain, next, found, heard, due>>
vars == <<bootVars, pc, walkVars, shutdown>>

-----------------------------------------------------------------------------
(***************************************************************************)
(* Config::from_env.                                                       *)
(***************************************************************************)
Spellings == {"", "fcr", "block-finality", "typo"}    \* "" for unset and empty

DefaultMode(c) == IF c = "eth" THEN "fcr" ELSE "block-finality"

ParseMode(c, value) == IF value = "" THEN DefaultMode(c) ELSE value

\* The positive integers of the configuration: a bad value is the default.
RawNumbers == {-1} \cup 0 .. MaxU64    \* -1 for unset, empty and unparseable
DefaultMaxRetryCount == 5
PositiveU64(raw, default) == IF raw \in {-1, 0} THEN default ELSE raw

\* read_from_db compares retry_count, an i32, with the ceiling.
WrappedCeiling(raw) ==    \* mutant: the value is cast with `as i32'
    LET n == PositiveU64(raw, DefaultMaxRetryCount)
    IN  ((n + MaxI32 + 1) % (2 * (MaxI32 + 1))) - (MaxI32 + 1)
RetryCeiling(raw) ==
    LET n == PositiveU64(raw, DefaultMaxRetryCount)
    IN  IF n <= MaxI32 THEN n ELSE MaxI32

ReadLeniently ==    \* mutant: a typo is the conservative mode
    /\ pc = "config"
    /\ mode' = [c \in Chains |-> IF setting[c] = "typo" THEN "block-finality"
                                 ELSE ParseMode(c, setting[c])]
    /\ toProbe' = {c \in Chains : mode'[c] = "fcr"}
    /\ pc' = "preflight"
    /\ UNCHANGED <<setting, supported, reachable, checked, probed, walkVars, shutdown>>
ReadConfig ==
    /\ pc = "config"
    /\ \A c \in Chains : setting[c] # "typo"
    /\ mode' = [c \in Chains |-> ParseMode(c, setting[c])]
    /\ toProbe' = {c \in Chains : mode'[c] = "fcr"}
    /\ pc' = "preflight"
    /\ UNCHANGED <<setting, supported, reachable, checked, probed, walkVars, shutdown>>

\* An unknown mode; an empty RPC list or an unparseable address does the same.
BadConfig ==
    /\ pc = "config"
    /\ pc' = "exited"
    /\ UNCHANGED <<bootVars, walkVars, shutdown>>

-----------------------------------------------------------------------------
(***************************************************************************)
(* What an execution node answers to eth_getBlockByNumber: nothing usable  *)
(* (no HTTP success, no JSON, no such field), a JSON-RPC error with or     *)
(* without a block beside it, null, a block.                               *)
(***************************************************************************)
Answers == {"down", "error", "errorAndBlock", "null", "block"}

\* probe_safe_block: the error object decides, never null-ness of the result.
NullIsUnsupported(answer) ==    \* mutant: null-ness decides
    CASE answer \in {"error", "errorAndBlock", "null"} -> "Unsupported"
      [] answer = "block" -> "Block"
      [] OTHER -> "Unreachable"
SafeProbe(answer) ==
    CASE answer \in {"error", "errorAndBlock"} -> "Unsupported"
      [] answer = "null" -> "Empty"
      [] answer = "block" -> "Block"
      [] OTHER -> "Unreachable"

\* get_finalized_block_from_el reads the number and does not look for an error;
\* the beacon node either sends the block or fails.
HasNumber(endpoint, answer) ==
    answer = "block" \/ (endpoint > 0 /\ answer = "errorAndBlock")

-----------------------------------------------------------------------------
(***************************************************************************)
(* run_fcr_preflight: every provider of every fcr chain is asked once.     *)
(***************************************************************************)
ProbedChain == IF "eth" \in toProbe THEN "eth" ELSE "gc"

Probe ==
    /\ pc = "preflight" /\ toProbe # {} /\ next <= Urls[ProbedChain]
    /\ \E answer \in Answers :
          LET outcome == SafeProbe(answer) IN
          /\ supported' = (supported \/ outcome \in {"Block", "Empty"})
          /\ reachable' = (reachable \/ outcome # "Unreachable")
          /\ probed' = [probed EXCEPT ![ProbedChain] = @ \cup {answer}]
    /\ next' = next + 1
    /\ UNCHANGED <<setting, pc, mode, toProbe, checked, walk, chain, found, heard,
                   due, shutdown>>

\* keeps_fcr: only a verdict downgrades, silence does not.
SilenceDowngrades == supported    \* mutant
KeepsFcr == supported \/ ~reachable

\* One verdict per chain; a downgrade holds until the process ends.
KeepFlags ==    \* mutant: the flags are not those of the next chain
    /\ pc = "preflight" /\ toProbe # {} /\ next > Urls[ProbedChain]
    /\ mode' = IF KeepsFcr THEN mode
               ELSE [mode EXCEPT ![ProbedChain] = "block-finality"]
    /\ toProbe' = toProbe \ {ProbedChain} /\ next' = 1
    /\ UNCHANGED <<setting, pc, supported, reachable, checked, probed, walk, chain, found,
                   heard, due, shutdown>>
DecideMode ==
    /\ pc = "preflight" /\ toProbe # {} /\ next > Urls[ProbedChain]
    /\ mode' = IF KeepsFcr THEN mode
               ELSE [mode EXCEPT ![ProbedChain] = "block-finality"]
    /\ toProbe' = toProbe \ {ProbedChain}
    /\ supported' = FALSE /\ reachable' = FALSE /\ next' = 1
    /\ UNCHANGED <<setting, pc, checked, probed, walk, chain, found, heard, due,
                   shutdown>>

PreflightDone ==
    /\ pc = "preflight" /\ toProbe = {}
    /\ pc' = "database"
    /\ UNCHANGED <<bootVars, walkVars, shutdown>>

-----------------------------------------------------------------------------
(***************************************************************************)
(* The rest of main().                                                     *)
(***************************************************************************)
\* Connection, migrations, a second of sleep, then the signal task is spawned.
OpenDatabase ==
    /\ pc = "database"
    /\ pc' = "providers"
    /\ UNCHANGED <<bootVars, walkVars, shutdown>>

\* DATABASE_URL is missing, the database does not answer, a migration fails, or
\* one of the four setup_provider calls does: main returns.
BootFails ==
    /\ pc \in {"database", "providers"}
    /\ pc' = "exited"
    /\ UNCHANGED <<bootVars, walkVars, shutdown>>

\* Every task has its clone of the configuration and begins its first cycle
\* without a look at the signal; FcrChecker::start owns the chains that are in fcr
\* mode now.
FirstCycles ==
    /\ due' \in 1 .. MaxLookups
    /\ UNCHANGED <<walk, chain, next, found, heard>>

ForgetSignal ==    \* mutant: the receivers are created after the signal
    /\ pc = "providers" /\ pc' = "running"
    /\ checked' = {c \in Chains : mode[c] = "fcr"} /\ shutdown' = FALSE
    /\ FirstCycles
    /\ UNCHANGED <<setting, mode, toProbe, supported, reachable, probed>>
CheckSupportedOnly ==    \* mutant: the chains no provider of which answered are left out
    /\ pc = "providers" /\ pc' = "running"
    /\ checked' = {c \in Chains : probed[c] \cap {"block", "null"} # {}}
    /\ FirstCycles
    /\ UNCHANGED <<setting, mode, toProbe, supported, reachable, probed, shutdown>>
StartTasks ==
    /\ pc = "providers"
    /\ pc' = "running"
    /\ checked' = {c \in Chains : mode[c] = "fcr"}
    /\ FirstCycles
    /\ UNCHANGED <<setting, mode, toProbe, supported, reachable, probed, shutdown>>

\* SIGTERM or Ctrl-C: until the signal task listens, the process dies of it.
Signal ==
    /\ pc # "exited" /\ ~shutdown
    /\ \/ pc \in {"providers", "running"} /\ shutdown' = TRUE /\ UNCHANGED pc
       \/ pc # "running" /\ pc' = "exited" /\ UNCHANGED shutdown
    /\ UNCHANGED <<bootVars, walkVars>>

\* The select! of a task between its interval and the signal: it sleeps through the
\* interval and begins another cycle.
WakeUp ==
    /\ pc = "running" /\ ~shutdown
    /\ due' \in due + 1 .. MaxLookups
    /\ UNCHANGED <<bootVars, pc, walk, chain, next, found, heard, shutdown>>

\* Every task finds the signal when its cycle is over and it waits, and main()
\* returns.
AllStopped ==
    /\ pc = "running" /\ shutdown /\ walk = "idle" /\ due = 0
    /\ pc' = "exited"
    /\ UNCHANGED <<bootVars, walkVars, shutdown>>

-----------------------------------------------------------------------------
(***************************************************************************)
(* resolve_upper_bound of an indexer: safe in fcr mode, finalized if there *)
(* is none; the beacon node first, then the array in order.                *)
(***************************************************************************)
FirstSource(c) == IF c \in Beacons THEN 0 ELSE 1

Begin(kind, c, endpoint) ==
    /\ pc = "running" /\ walk = "idle" /\ due > 0
    /\ due' = due - 1
    /\ walk' = kind /\ chain' = c /\ next' = endpoint
    /\ found' = "nothing" /\ heard' = {}
    /\ UNCHANGED <<bootVars, pc, shutdown>>

ResolveUpperBound(c) ==
    IF mode[c] = "fcr" THEN Begin("safe", c, 1)
    ELSE Begin("finalized", c, FirstSource(c))

\* One call of a walk: the answer ends it with what it found, or the next
\* endpoint is asked.
Ask(kind, usable) ==
    /\ walk = kind /\ next <= Urls[chain]
    /\ \E answer \in Answers :
          /\ heard' = heard \cup {<<kind, next, answer>>}
          /\ IF answer \in usable
             THEN found' = kind /\ walk' = "idle" /\ UNCHANGED next
             ELSE next' = next + 1 /\ UNCHANGED <<found, walk>>
    /\ UNCHANGED <<bootVars, pc, chain, due, shutdown>>

\* get_safe_block_number
AskSafe == Ask("safe", {answer \in Answers : SafeProbe(answer) = "Block"})

\* No provider has a safe block, legitimately or not.
SkipCycle ==    \* mutant: the error is returned instead
    /\ walk = "safe" /\ next > Urls[chain]
    /\ found' = "none" /\ walk' = "idle"
    /\ UNCHANGED <<bootVars, pc, chain, next, heard, due, shutdown>>
FallBack ==
    /\ walk = "safe" /\ next > Urls[chain]
    /\ walk' = "finalized" /\ next' = FirstSource(chain)
    /\ UNCHANGED <<bootVars, pc, chain, found, heard, due, shutdown>>

\* get_finalized_block_number
AskFinalized == Ask("finalized", {answer \in Answers : HasNumber(next, answer)})

\* get_canonical_block_hash, for the FcrChecker.
LookUpHash(c) == c \in checked /\ Begin("hash", c, 1)

AskHash == Ask("hash", {"block"})

\* Every endpoint was asked: the round is skipped, the block stays pending.
GiveUp ==
    /\ walk \in {"finalized", "hash"} /\ next > Urls[chain]
    /\ found' = "none" /\ walk' = "idle"
    /\ UNCHANGED <<bootVars, pc, chain, next, heard, due, shutdown>>

-----------------------------------------------------------------------------
Init ==
    /\ setting \in [Chains -> Spellings]
    /\ pc = "config" /\ mode = [c \in Chains |-> "block-finality"]
    /\ toProbe = {} /\ supported = FALSE /\ reachable = FALSE /\ checked = {}
    /\ walk = "idle" /\ chain = "eth" /\ next = 1 /\ found = "nothing"
    /\ due = 0 /\ shutdown = FALSE
    /\ probed = [c \in Chains |-> {}] /\ heard = {}

BootStep ==
    \/ ReadConfig \/ BadConfig \/ Probe \/ DecideMode \/ PreflightDone
    \/ OpenDatabase \/ BootFails \/ StartTasks

WalkStep ==
    \/ \E c \in Chains : ResolveUpperBound(c) \/ LookUpHash(c)
    \/ AskSafe \/ FallBack \/ AskFinalized \/ AskHash \/ GiveUp

Next == BootStep \/ WalkStep \/ WakeUp \/ Signal \/ AllStopped

Spec == Init /\ [][Next]_vars

\* Every call returns, with an answer or with an error, and a cycle makes finitely
\* many: main() and the tasks are polled whenever they can run.
FairSpec == Spec /\ WF_vars(BootStep) /\ WF_vars(WalkStep) /\ WF_vars(AllStopped)

-----------------------------------------------------------------------------
\* A walk stays on the array of its chain, and the flags of the preflight are
\* about the chain in hand.
TypeOK ==
    /\ setting \in [Chains -> Spellings]
    /\ pc \in {"config", "preflight", "database", "providers", "running", "exited"}
    /\ mode \in [Chains -> {"fcr", "block-finality"}]
    /\ toProbe \subseteq Chains /\ checked \subseteq Chains
    /\ supported \in BOOLEAN /\ reachable \in BOOLEAN /\ shutdown \in BOOLEAN
    /\ walk \in {"idle", "safe", "finalized", "hash"} /\ chain \in Chains
    /\ next \in Nat /\ due \in Nat
    /\ walk # "idle" => next <= Urls[chain] + 1
    /\ toProbe # {} => next \in 1 .. Urls[ProbedChain] + 1
    /\ found \in {"nothing", "none", "safe", "finalized", "hash"}
    /\ probed \in [Chains -> SUBSET Answers]
    /\ walk # "idle" => pc = "running"
    /\ supported => reachable
    /\ reachable => toProbe # {} /\ next > 1
    /\ pc \in {"config", "database", "providers", "running"} => toProbe = {}
    /\ pc = "config" => next = 1

\* The mode a chain runs in is the one its operator asked for, unless some
\* provider refused the safe tag while none accepted it: no process gets past its
\* configuration on a typo, a network that is down never costs a chain its mode,
\* and nothing turns fcr on.
ModeIsConfiguredOrVerdict ==
    pc \in {"database", "providers", "running"} => \A c \in Chains :
        LET configured == IF setting[c] = "" THEN DefaultMode(c) ELSE setting[c]
            refused == /\ probed[c] \cap {"error", "errorAndBlock"} # {}
                       /\ probed[c] \cap {"block", "null"} = {}
        IN  /\ setting[c] # "typo"
            /\ mode[c] = IF configured = "fcr" /\ ~refused THEN "fcr" ELSE "block-finality"

\* A bound above the finalized block is used only on a chain whose rows the
\* checker of this process revalidates.
SafeBoundIsChecked == found = "safe" => chain \in checked

Asked(kind, endpoints) ==
    \A i \in endpoints : \E answer \in Answers : <<kind, i, answer>> \in heard

\* A lookup fails only when nobody can answer it: every endpoint of the chain was
\* asked for its finalized block, or for the hash, and sent none; and in fcr mode
\* no finalized block is settled for while a provider sends a safe one.
FailsLast ==
    /\ found = "none" =>
          \/ Asked("hash", 1 .. Urls[chain])
             /\ \A i \in 1 .. Urls[chain] : <<"hash", i, "block">> \notin heard
          \/ /\ Asked("finalized", FirstSource(chain) .. Urls[chain])
             /\ \A i \in 0 .. Urls[chain] : <<"finalized", i, "block">> \notin heard
    /\ found \in {"none", "finalized"} /\ mode[chain] = "fcr" =>
          \/ Asked("hash", 1 .. Urls[chain])
          \/ Asked("safe", 1 .. Urls[chain])
             /\ \A i \in 1 .. Urls[chain] : <<"safe", i, "block">> \notin heard

\* Whatever MAX_RETRY_COUNT says, the ceiling the processors run with admits a
\* first attempt and fits the column it is compared with; a value that fits is
\* taken as it is.
CeilingIsUsable ==
    pc = "running" => \A raw \in RawNumbers :
        /\ RetryCeiling(raw) \in 1 .. MaxI32
        /\ raw \in 1 .. MaxI32 => RetryCeiling(raw) = raw

\* A signal ends the process, also when it comes while main() still sets up the
\* providers and no task waits for it yet, or in the middle of a cycle.
SignalEndsProcess == shutdown ~> pc = "exited"

=============================================================================
