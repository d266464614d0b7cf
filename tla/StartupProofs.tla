---------------------------- MODULE StartupProofs ----------------------------
(***************************************************************************)
(* Theorems about Startup: the mode of a chain is the configured one or a  *)
(* verdict of the preflight, only rows of a checked chain come from a safe *)
(* block, and a lookup fails only when every endpoint did, for RPC arrays  *)
(* of any length.                                                          *)
(***************************************************************************)
EXTENDS Startup, TLAPS

\* A walk moves over positions of the array of its chain.
LEMMA ArrayBounds ==
    /\ \A c \in Chains : Urls[c] \in Nat /\ Urls[c] >= 1 /\ FirstSource(c) \in {0, 1}
    /\ ProbedChain \in Chains
BY UrlsAssumption DEF Chains, FirstSource, ProbedChain

-----------------------------------------------------------------------------
\* Every state has the types TypeOK states of main() and the resolvers.
THEOREM TypeCorrect == Spec => []TypeOK
<1> USE ArrayBounds DEF TypeOK, bootVars, walkVars
<1>1. Init => TypeOK
  <2> SUFFICES ASSUME Init PROVE TypeOK
    OBVIOUS
  <2>1. /\ supported \in BOOLEAN /\ reachable \in BOOLEAN /\ shutdown \in BOOLEAN
        /\ ~supported /\ ~reachable
    BY DEF Init
  <2> QED
    BY <2>1 DEF Init, Chains
<1>2. TypeOK /\ [Next]_vars => TypeOK'
  <2> SUFFICES ASSUME TypeOK, [Next]_vars PROVE TypeOK'
    OBVIOUS
  <2>1. CASE ReadConfig
    <3>1. mode' \in [Chains -> {"fcr", "block-finality"}]
      BY <2>1 DEF ReadConfig, ParseMode, DefaultMode, Spellings
    <3>2. next' = 1 /\ ProbedChain' \in Chains
      BY <2>1 DEF ReadConfig, ProbedChain, Chains
    <3> QED
      BY <2>1, <3>1, <3>2 DEF ReadConfig
  <2>2. CASE BadConfig \/ OpenDatabase \/ BootFails \/ PreflightDone
    BY <2>2 DEF BadConfig, OpenDatabase, BootFails, PreflightDone, ProbedChain
  <2>3. CASE Probe
    <3>1. PICK answer \in Answers :
            /\ supported' = (supported \/ SafeProbe(answer) \in {"Block", "Empty"})
            /\ reachable' = (reachable \/ SafeProbe(answer) # "Unreachable")
            /\ probed' = [probed EXCEPT ![ProbedChain] = @ \cup {answer}]
      BY <2>3 DEF Probe
    <3>2. /\ supported' \in BOOLEAN /\ reachable' \in BOOLEAN
          /\ supported' => reachable'
      BY <3>1
    <3>3. probed' \in [Chains -> SUBSET Answers]
      BY <3>1
    <3>4. ProbedChain' = ProbedChain
      BY <2>3 DEF Probe, ProbedChain
    <3>5. /\ next' = next + 1 /\ next <= Urls[ProbedChain] /\ toProbe # {}
          /\ pc = "preflight" /\ walk = "idle"
          /\ UNCHANGED <<setting, pc, mode, toProbe, checked, walk, chain, found, due, shutdown>>
      BY <2>3 DEF Probe
    <3> QED
      BY <3>2, <3>3, <3>4, <3>5
  <2>4. CASE DecideMode
    <3>1. mode' \in [Chains -> {"fcr", "block-finality"}]
      BY <2>4 DEF DecideMode
    <3>2. next' = 1 /\ ProbedChain' \in Chains
      BY <2>4 DEF DecideMode, ProbedChain, Chains
    <3>3. /\ supported' \in BOOLEAN /\ reachable' \in BOOLEAN
          /\ ~supported' /\ ~reachable' /\ toProbe' \subseteq Chains
      BY <2>4 DEF DecideMode
    <3>4. pc' = "preflight" /\ walk' = "idle"
          /\ UNCHANGED <<setting, checked, probed, chain, found, due, shutdown>>
      BY <2>4 DEF DecideMode
    <3> QED
      BY <3>1, <3>2, <3>3, <3>4
  <2>5. CASE StartTasks \/ AllStopped
    BY <2>5 DEF StartTasks, FirstCycles, AllStopped, ProbedChain
  <2>12. CASE Signal
    <3>1. shutdown' \in BOOLEAN
      BY <2>12 DEF Signal
    <3> QED
      BY <2>12, <3>1 DEF Signal, ProbedChain
  <2>6. CASE AskSafe
    BY <2>6 DEF AskSafe, Ask, ProbedChain
  <2>7. CASE AskFinalized
    BY <2>7 DEF AskFinalized, Ask, ProbedChain
  <2>8. CASE AskHash
    BY <2>8 DEF AskHash, Ask, ProbedChain
  <2>9. CASE FallBack \/ GiveUp
    BY <2>9 DEF FallBack, GiveUp, ProbedChain
  <2>13. CASE WakeUp
    BY <2>13 DEF WakeUp, ProbedChain
  <2>10. ASSUME NEW c \in Chains, ResolveUpperBound(c) \/ LookUpHash(c)
         PROVE  TypeOK'
    BY <2>10 DEF ResolveUpperBound, LookUpHash, Begin, ProbedChain
  <2>11. CASE UNCHANGED vars
    BY <2>11 DEF vars, ProbedChain
  <2> QED
    BY <2>1, <2>2, <2>3, <2>4, <2>5, <2>6, <2>7, <2>8, <2>9, <2>10, <2>11,
       <2>12, <2>13 DEF Next, BootStep, WalkStep
<1> QED
  BY <1>1, <1>2, PTL DEF Spec

-----------------------------------------------------------------------------
\* What the preflight has come to for a chain, from what its operator asked for
\* and what its providers answered.
Configured(c) == ParseMode(c, setting[c])

Refused(c) ==
    /\ probed[c] \cap {"error", "errorAndBlock"} # {}
    /\ probed[c] \cap {"block", "null"} = {}

Verdict(c) == IF Configured(c) = "fcr" /\ ~Refused(c) THEN "fcr" ELSE "block-finality"

\* While the preflight runs, the decided chains have their verdict, the others
\* are in fcr mode and unasked, and the flags sum up the answers of the chain in
\* hand.
PreflightInv ==
    /\ \A c \in toProbe : Configured(c) = "fcr" /\ mode[c] = "fcr"
    /\ \A c \in Chains \ toProbe : mode[c] = Verdict(c)
    /\ \A c \in toProbe : c # ProbedChain => probed[c] = {}
    /\ supported <=> toProbe # {} /\ probed[ProbedChain] \cap {"block", "null"} # {}
    /\ reachable <=> toProbe # {} /\ probed[ProbedChain] \ {"down"} # {}

ModeInv ==
    /\ pc \in {"config"} => \A c \in Chains : probed[c] = {}
    /\ pc = "config" => ~supported /\ ~reachable
    /\ pc \in {"preflight", "database", "providers", "running"} =>
          \A c \in Chains : setting[c] # "typo"
    /\ pc = "preflight" => PreflightInv
    /\ pc \in {"database", "providers", "running"} => \A c \in Chains : mode[c] = Verdict(c)

LEMMA ProbeKeepsModeInv == ASSUME TypeOK, ModeInv, Probe PROVE ModeInv'
<1> USE ArrayBounds DEF TypeOK
<1>1. /\ pc = "preflight" /\ toProbe # {} /\ ProbedChain' = ProbedChain
      /\ UNCHANGED <<pc, toProbe, setting, mode>>
  BY DEF Probe, ProbedChain
<1>2. ProbedChain \in toProbe
  BY <1>1 DEF ProbedChain, Chains
<1>3. PICK answer \in Answers :
        /\ supported' = (supported \/ SafeProbe(answer) \in {"Block", "Empty"})
        /\ reachable' = (reachable \/ SafeProbe(answer) # "Unreachable")
        /\ probed' = [probed EXCEPT ![ProbedChain] = @ \cup {answer}]
  BY DEF Probe
<1>4. probed'[ProbedChain] = probed[ProbedChain] \cup {answer}
      /\ \A c \in Chains : c # ProbedChain => probed'[c] = probed[c]
  BY <1>3
<1>5. /\ SafeProbe(answer) \in {"Block", "Empty"} <=> answer \in {"block", "null"}
      /\ SafeProbe(answer) # "Unreachable" <=> answer # "down"
  BY DEF SafeProbe, Answers
<1>6. /\ supported' <=> probed'[ProbedChain] \cap {"block", "null"} # {}
      /\ reachable' <=> probed'[ProbedChain] \ {"down"} # {}
  <2>1. /\ supported <=> probed[ProbedChain] \cap {"block", "null"} # {}
        /\ reachable <=> probed[ProbedChain] \ {"down"} # {}
    BY <1>1 DEF ModeInv, PreflightInv
  <2>2. /\ supported' <=> supported \/ answer \in {"block", "null"}
        /\ reachable' <=> reachable \/ answer # "down"
    BY <1>3, <1>5
  <2> QED
    BY <1>4, <2>1, <2>2
<1>7. \A c \in Chains \ toProbe : probed'[c] = probed[c]
  BY <1>2, <1>4
<1> QED
  BY <1>1, <1>2, <1>4, <1>6, <1>7
     DEF ModeInv, PreflightInv, Verdict, Refused, Configured, ParseMode, DefaultMode

LEMMA DecideKeepsModeInv == ASSUME TypeOK, ModeInv, DecideMode PROVE ModeInv'
<1> USE ArrayBounds DEF TypeOK
<1> DEFINE c0 == ProbedChain
<1>1. /\ pc = "preflight" /\ c0 \in toProbe /\ PreflightInv
      /\ toProbe' = toProbe \ {c0} /\ UNCHANGED <<pc, setting, probed>>
      /\ ~supported' /\ ~reachable'
  BY DEF DecideMode, ModeInv, ProbedChain, Chains
<1>2. mode'[c0] = Verdict(c0) /\ \A c \in Chains : c # c0 => mode'[c] = mode[c]
  <2>1. Configured(c0) = "fcr" /\ mode[c0] = "fcr"
    BY <1>1 DEF PreflightInv
  <2>2. probed[c0] \subseteq Answers
    OBVIOUS
  <2>3. KeepsFcr <=> ~Refused(c0)
    BY <1>1, <2>2 DEF KeepsFcr, Refused, PreflightInv, Answers
  <2> QED
    BY <2>1, <2>3 DEF DecideMode, Verdict
<1>3. \A c \in Chains : Verdict(c)' = Verdict(c) /\ Configured(c)' = Configured(c)
  BY <1>1 DEF Verdict, Refused, Configured, ParseMode, DefaultMode
<1>4. \A c \in toProbe' : probed'[c] = {}
  BY <1>1 DEF PreflightInv
<1>5. toProbe' # {} => ProbedChain' \in toProbe'
  BY DEF ProbedChain, Chains, DecideMode
<1>6. PreflightInv'
  <2>1. \A c \in toProbe' : Configured(c)' = "fcr" /\ mode'[c] = "fcr"
    BY <1>1, <1>2, <1>3 DEF PreflightInv
  <2>2. \A c \in Chains \ toProbe' : mode'[c] = Verdict(c)'
    BY <1>1, <1>2, <1>3 DEF PreflightInv
  <2> QED
    BY <1>1, <1>4, <1>5, <2>1, <2>2 DEF PreflightInv
<1> QED
  BY <1>1, <1>6 DEF ModeInv

LEMMA ModeInvInductive == Spec => []ModeInv
<1> USE ArrayBounds
<1>1. Init => ModeInv
  BY DEF Init, ModeInv
<1>2. TypeOK /\ ModeInv /\ [Next]_vars => ModeInv'
  <2> SUFFICES ASSUME TypeOK, ModeInv, [Next]_vars PROVE ModeInv'
    OBVIOUS
  <2>1. CASE ReadConfig
    <3>1. /\ pc = "config" /\ pc' = "preflight"
          /\ toProbe' = {c \in Chains : mode'[c] = "fcr"}
          /\ mode' = [c \in Chains |-> ParseMode(c, setting[c])]
          /\ \A c \in Chains : setting[c] # "typo"
          /\ UNCHANGED <<setting, supported, reachable, probed>>
      BY <2>1 DEF ReadConfig
    <3>2. \A c \in Chains : /\ Configured(c)' = mode'[c] /\ probed'[c] = {}
                           /\ mode'[c] \in {"fcr", "block-finality"}
      BY <3>1 DEF Configured, ParseMode, DefaultMode, ModeInv, TypeOK, Spellings
    <3>3. toProbe' # {} => ProbedChain' \in Chains
      BY DEF ProbedChain, Chains
    <3>4. ~supported' /\ ~reachable'
      BY <3>1 DEF ModeInv
    <3> QED
      BY <3>1, <3>2, <3>3, <3>4 DEF ModeInv, PreflightInv, Verdict, Refused
  <2>2. CASE Probe
    BY <2>2, ProbeKeepsModeInv
  <2>3. CASE DecideMode
    BY <2>3, DecideKeepsModeInv
  <2>4. CASE PreflightDone
    <3>1. /\ pc = "preflight" /\ pc' = "database" /\ toProbe = {}
          /\ UNCHANGED <<setting, mode, probed>>
      BY <2>4 DEF PreflightDone, bootVars
    <3> QED
      BY <3>1 DEF ModeInv, PreflightInv, Verdict, Refused, Configured, ParseMode,
                  DefaultMode
  <2>5. CASE \/ BadConfig \/ OpenDatabase \/ BootFails \/ StartTasks \/ Signal
             \/ AllStopped \/ WalkStep \/ WakeUp \/ UNCHANGED vars
    <3>1. /\ UNCHANGED <<setting, mode, toProbe, supported, reachable, probed>>
          /\ \/ pc' = pc \/ pc' = "exited"
             \/ pc \in {"database", "providers"} /\ pc' \in {"providers", "running"}
      BY <2>5 DEF BadConfig, OpenDatabase, BootFails, StartTasks, Signal, AllStopped,
                  WalkStep, AskSafe, AskFinalized, AskHash, Ask, FallBack, GiveUp,
                  ResolveUpperBound, LookUpHash, Begin, WakeUp, vars, bootVars
    <3> QED
      BY <3>1 DEF ModeInv, PreflightInv, Verdict, Refused, Configured, ParseMode,
                  DefaultMode, ProbedChain
  <2> QED
    BY <2>1, <2>2, <2>3, <2>4, <2>5 DEF Next, BootStep
<1> QED
  BY <1>1, <1>2, TypeCorrect, PTL DEF Spec

\* For every array of providers and every answer they give at boot, the mode in
\* effect is the configured one or a verdict, and nothing starts on a typo.
THEOREM ModesAreSound == Spec => []ModeIsConfiguredOrVerdict
<1>1. ModeInv => ModeIsConfiguredOrVerdict
  BY DEF ModeInv, ModeIsConfiguredOrVerdict, Verdict, Refused, Configured, ParseMode
<1> QED
  BY <1>1, ModeInvInductive, PTL

-----------------------------------------------------------------------------
\* The checker owns the fcr chains, and only those are asked for a safe block.
CheckedInv ==
    /\ pc = "running" => checked = {c \in Chains : mode[c] = "fcr"}
    /\ walk = "safe" => chain \in checked
    /\ found = "safe" => chain \in checked
    /\ pc \in {"config", "preflight", "database", "providers"} => found = "nothing"

LEMMA CheckedInvInductive == Spec => []CheckedInv
<1>1. Init => CheckedInv
  BY DEF Init, CheckedInv
<1>2. TypeOK /\ CheckedInv /\ [Next]_vars => CheckedInv'
  <2> SUFFICES ASSUME TypeOK, CheckedInv, [Next]_vars PROVE CheckedInv'
    OBVIOUS
  <2> USE DEF CheckedInv
  <2>1. CASE StartTasks
    BY <2>1 DEF StartTasks, FirstCycles, TypeOK
  <2>2. ASSUME NEW c \in Chains, ResolveUpperBound(c) \/ LookUpHash(c)
        PROVE  CheckedInv'
    BY <2>2 DEF ResolveUpperBound, LookUpHash, Begin, bootVars
  <2>3. CASE AskSafe
    BY <2>3 DEF AskSafe, Ask, bootVars, TypeOK
  <2>4. CASE AskFinalized \/ AskHash
    BY <2>4 DEF AskFinalized, AskHash, Ask, bootVars, TypeOK
  <2>5. CASE FallBack \/ GiveUp
    BY <2>5 DEF FallBack, GiveUp, bootVars, TypeOK
  <2>6. CASE ReadConfig \/ BadConfig \/ Probe \/ DecideMode \/ PreflightDone \/ OpenDatabase
    BY <2>6 DEF ReadConfig, BadConfig, Probe, DecideMode, PreflightDone, OpenDatabase,
                bootVars, walkVars
  <2>7. CASE BootFails \/ Signal \/ WakeUp \/ AllStopped \/ UNCHANGED vars
    BY <2>7 DEF BootFails, Signal, WakeUp, AllStopped, vars, bootVars, walkVars
  <2> QED
    BY <2>1, <2>2, <2>3, <2>4, <2>5, <2>6, <2>7 DEF Next, BootStep, WalkStep
<1> QED
  BY <1>1, <1>2, TypeCorrect, PTL DEF Spec

\* No row is taken from a merely safe block unless the checker of the process
\* will look at it again.
THEOREM SafeBoundsAreChecked == Spec => []SafeBoundIsChecked
<1>1. CheckedInv => SafeBoundIsChecked
  BY DEF CheckedInv, SafeBoundIsChecked
<1> QED
  BY <1>1, CheckedInvInductive, PTL

-----------------------------------------------------------------------------
\* The ceiling the processors compare retry_count with, for every width of the
\* setting and of the column.
LEMMA CeilingIsInRange ==
    ASSUME NEW raw \in RawNumbers
    PROVE  /\ RetryCeiling(raw) \in 1 .. MaxI32
           /\ raw \in 1 .. MaxI32 => RetryCeiling(raw) = raw
BY WidthAssumption DEF RawNumbers, RetryCeiling, PositiveU64, DefaultMaxRetryCount

THEOREM CeilingsAreUsable == Spec => []CeilingIsUsable
<1>1. CeilingIsUsable
  BY CeilingIsInRange DEF CeilingIsUsable
<1> QED
  BY <1>1, PTL

-----------------------------------------------------------------------------
\* A walk has asked every endpoint it moved past, in vain, and the walk for a
\* finalized block comes after one for a safe block on a chain in fcr mode.
Kinds == {"safe", "finalized", "hash"}

AskedForSafe == mode[chain] = "fcr" => Asked("safe", 1 .. Urls[chain])

AskedForFinalized == Asked("finalized", FirstSource(chain) .. Urls[chain])

WalkInv ==
    /\ walk # "idle" => found = "nothing"
    /\ \A kind \in Kinds : found # kind => \A i \in Nat : <<kind, i, "block">> \notin heard
    /\ walk = "safe" => Asked("safe", 1 .. next - 1)
    /\ walk = "finalized" =>
          Asked("finalized", FirstSource(chain) .. next - 1) /\ AskedForSafe
    /\ walk = "hash" => Asked("hash", 1 .. next - 1)
    /\ found = "finalized" => AskedForSafe
    /\ found = "none" => \/ Asked("hash", 1 .. Urls[chain])
                         \/ AskedForFinalized /\ AskedForSafe

\* One more answer extends what was asked.
LEMMA AskExtends ==
    ASSUME TypeOK, NEW kind \in Kinds, NEW answer \in Answers, NEW first \in Nat,
           heard' = heard \cup {<<kind, next, answer>>},
           Asked(kind, first .. next - 1)
    PROVE  \A i \in first .. next : \E a \in Answers : <<kind, i, a>> \in heard'
<1> SUFFICES ASSUME NEW i \in first .. next
             PROVE  \E a \in Answers : <<kind, i, a>> \in heard'
  OBVIOUS
<1>1. CASE i = next
  BY <1>1
<1>2. CASE i # next
  <2>1. i \in first .. next - 1
    BY <1>2 DEF TypeOK
  <2> QED
    BY <2>1 DEF Asked
<1> QED
  BY <1>1, <1>2

\* A call that ends the walk, or moves it to the next endpoint.
LEMMA AskKeepsWalkInv ==
    ASSUME TypeOK, WalkInv, NEW kind \in Kinds, walk = kind, NEW answer \in Answers,
           NEW usable \in BOOLEAN, answer = "block" => usable,
           next <= Urls[chain],
           heard' = heard \cup {<<kind, next, answer>>},
           IF usable THEN found' = kind /\ walk' = "idle" /\ UNCHANGED next
                     ELSE next' = next + 1 /\ UNCHANGED <<found, walk>>,
           UNCHANGED <<mode, chain>>
    PROVE  WalkInv'
<1> USE ArrayBounds DEF Kinds
<1>1. \A k \in Kinds : found' # k => \A i \in Nat : <<k, i, "block">> \notin heard'
  BY DEF WalkInv
<1>2. \A k \in Kinds, S \in SUBSET Nat : Asked(k, S) => Asked(k, S)'
  BY DEF Asked
<1>3. AskedForSafe => AskedForSafe'
  <2>1. 1 .. Urls[chain] \in SUBSET Nat
    BY DEF TypeOK
  <2> QED
    BY <1>2, <2>1 DEF AskedForSafe
<1>4. CASE usable
  BY <1>1, <1>3, <1>4 DEF WalkInv
<1>5. CASE ~usable
  <2>1. next' - 1 = next /\ next' = next + 1 /\ found' = found /\ walk' = kind
    BY <1>5 DEF TypeOK
  <2>2. FirstSource(chain) \in Nat /\ 1 \in Nat /\ FirstSource(chain)' = FirstSource(chain)
    BY DEF TypeOK, FirstSource
  <2>3. walk = "safe" =>
            \A i \in 1 .. next : \E a \in Answers : <<"safe", i, a>> \in heard'
    BY <2>2, AskExtends DEF WalkInv
  <2>4. walk = "hash" =>
            \A i \in 1 .. next : \E a \in Answers : <<"hash", i, a>> \in heard'
    BY <2>2, AskExtends DEF WalkInv
  <2>5. walk = "finalized" =>
            \A i \in FirstSource(chain) .. next : \E a \in Answers : <<"finalized", i, a>> \in heard'
    BY <2>2, AskExtends DEF WalkInv
  <2> QED
    <3>1. walk' = walk /\ chain' = chain /\ found' = found /\ found = "nothing"
      BY <2>1 DEF WalkInv
    <3>2. /\ walk = "safe" => Asked("safe", 1 .. next - 1)'
          /\ walk = "hash" => Asked("hash", 1 .. next - 1)'
          /\ walk = "finalized" => Asked("finalized", FirstSource(chain) .. next - 1)'
      BY <2>1, <2>2, <2>3, <2>4, <2>5 DEF Asked
    <3> QED
      BY <1>1, <1>3, <3>1, <3>2 DEF WalkInv
<1> QED
  BY <1>4, <1>5

LEMMA WalkInvInductive == Spec => []WalkInv
<1> USE ArrayBounds
<1>1. Init => WalkInv
  BY DEF Init, WalkInv, Kinds
<1>2. TypeOK /\ CheckedInv /\ WalkInv /\ [Next]_vars => WalkInv'
  <2> SUFFICES ASSUME TypeOK, CheckedInv, WalkInv, [Next]_vars PROVE WalkInv'
    OBVIOUS
  <2>1. CASE AskSafe
    <3>1. PICK answer \in Answers :
            /\ heard' = heard \cup {<<"safe", next, answer>>}
            /\ IF SafeProbe(answer) = "Block"
               THEN found' = "safe" /\ walk' = "idle" /\ UNCHANGED next
               ELSE next' = next + 1 /\ UNCHANGED <<found, walk>>
      BY <2>1 DEF AskSafe, Ask
    <3>2. answer = "block" => SafeProbe(answer) = "Block"
      BY DEF SafeProbe
    <3>3. walk = "safe" /\ next <= Urls[chain] /\ UNCHANGED <<mode, chain>>
      BY <2>1 DEF AskSafe, Ask, bootVars
    <3> QED
      BY <3>1, <3>2, <3>3, AskKeepsWalkInv DEF Kinds
  <2>2. CASE AskFinalized
    <3>1. PICK answer \in Answers :
            /\ heard' = heard \cup {<<"finalized", next, answer>>}
            /\ IF HasNumber(next, answer)
               THEN found' = "finalized" /\ walk' = "idle" /\ UNCHANGED next
               ELSE next' = next + 1 /\ UNCHANGED <<found, walk>>
      BY <2>2 DEF AskFinalized, Ask
    <3>2. (answer = "block" => HasNumber(next, answer)) /\ HasNumber(next, answer) \in BOOLEAN
      BY DEF HasNumber
    <3>3. walk = "finalized" /\ next <= Urls[chain] /\ UNCHANGED <<mode, chain>>
      BY <2>2 DEF AskFinalized, Ask, bootVars
    <3> QED
      BY <3>1, <3>2, <3>3, AskKeepsWalkInv DEF Kinds
  <2>3. CASE AskHash
    <3>1. PICK answer \in Answers :
            /\ heard' = heard \cup {<<"hash", next, answer>>}
            /\ IF answer = "block"
               THEN found' = "hash" /\ walk' = "idle" /\ UNCHANGED next
               ELSE next' = next + 1 /\ UNCHANGED <<found, walk>>
      BY <2>3 DEF AskHash, Ask
    <3>2. walk = "hash" /\ next <= Urls[chain] /\ UNCHANGED <<mode, chain>>
      BY <2>3 DEF AskHash, Ask, bootVars
    <3> QED
      BY <3>1, <3>2, AskKeepsWalkInv DEF Kinds
  <2>4. CASE FallBack
    <3>1. /\ walk = "safe" /\ walk' = "finalized" /\ next > Urls[chain]
          /\ next' = FirstSource(chain) /\ UNCHANGED <<mode, chain, found, heard>>
      BY <2>4 DEF FallBack, bootVars
    <3>2. next - 1 = Urls[chain]
      BY <3>1 DEF TypeOK
    <3>3. Asked("safe", 1 .. Urls[chain])'
      BY <3>1, <3>2 DEF WalkInv, Asked
    <3>4. FirstSource(chain)' .. next' - 1 = {}
      BY <3>1 DEF FirstSource, TypeOK
    <3> QED
      BY <3>1, <3>3, <3>4 DEF WalkInv, AskedForSafe, Asked, Kinds
  <2>5. CASE GiveUp
    <3>1. /\ walk \in {"finalized", "hash"} /\ walk' = "idle" /\ next > Urls[chain]
          /\ found' = "none" /\ UNCHANGED <<mode, chain, heard>>
      BY <2>5 DEF GiveUp, bootVars
    <3>2. next - 1 = Urls[chain]
      BY <3>1 DEF TypeOK
    <3>3. found = "nothing"
      BY <3>1 DEF WalkInv
    <3> QED
      BY <3>1, <3>2, <3>3
         DEF WalkInv, AskedForSafe, AskedForFinalized, Asked, Kinds, FirstSource
  <2>6. ASSUME NEW c \in Chains, ResolveUpperBound(c) \/ LookUpHash(c)
        PROVE  WalkInv'
    <3>1. /\ chain' = c /\ found' = "nothing" /\ heard' = {} /\ mode' = mode
          /\ \/ walk' = "safe" /\ next' = 1
             \/ walk' = "finalized" /\ next' = FirstSource(c) /\ mode[c] # "fcr"
             \/ walk' = "hash" /\ next' = 1
      BY <2>6 DEF ResolveUpperBound, LookUpHash, Begin, bootVars
    <3>2. 1 .. 1 - 1 = {} /\ FirstSource(c) .. FirstSource(c) - 1 = {}
      BY DEF FirstSource
    <3> QED
      BY <3>1, <3>2 DEF WalkInv, AskedForSafe, Asked, Kinds, FirstSource
  <2>7. CASE ReadConfig \/ DecideMode
    <3>1. found = "nothing" /\ walk = "idle" /\ UNCHANGED <<walk, found, heard, chain>>
      BY <2>7 DEF ReadConfig, DecideMode, CheckedInv, TypeOK, walkVars
    <3> QED
      BY <3>1 DEF WalkInv, Kinds
  <2>8. CASE \/ BadConfig \/ PreflightDone \/ OpenDatabase \/ BootFails \/ StartTasks
             \/ Signal \/ WakeUp \/ AllStopped \/ UNCHANGED vars
    <3>1. UNCHANGED <<mode, walk, chain, next, found, heard>>
      BY <2>8 DEF BadConfig, PreflightDone, OpenDatabase, BootFails, StartTasks,
                  FirstCycles, Signal, WakeUp, AllStopped, vars, bootVars, walkVars
    <3> QED
      BY <3>1 DEF WalkInv, AskedForSafe, AskedForFinalized, Asked, FirstSource
  <2>9. CASE Probe
    <3>1. walk = "idle" /\ UNCHANGED <<mode, walk, chain, found, heard>>
      BY <2>9 DEF Probe, TypeOK
    <3> QED
      BY <3>1 DEF WalkInv, AskedForSafe, AskedForFinalized, Asked, FirstSource
  <2> QED
    BY <2>1, <2>2, <2>3, <2>4, <2>5, <2>6, <2>7, <2>8, <2>9
       DEF Next, BootStep, WalkStep
<1> QED
  BY <1>1, <1>2, TypeCorrect, CheckedInvInductive, PTL DEF Spec

\* No lookup gives up, and no indexer settles for a finalized block, while an
\* endpoint it has not asked is left or one it asked had what it looked for.
THEOREM LookupsFailLast == Spec => []FailsLast
<1>1. TypeOK /\ WalkInv => FailsLast
  <2> SUFFICES ASSUME TypeOK, WalkInv PROVE FailsLast
    OBVIOUS
  <2>1. 1 .. Urls[chain] \subseteq Nat /\ 0 .. Urls[chain] \subseteq Nat
    BY ArrayBounds DEF TypeOK
  <2> QED
    BY <2>1 DEF FailsLast, WalkInv, AskedForSafe, AskedForFinalized, Kinds
<1> QED
  BY <1>1, TypeCorrect, WalkInvInductive, PTL

=============================================================================
