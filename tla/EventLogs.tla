------------------------------ MODULE EventLogs ------------------------------
(***************************************************************************)
(* What the event_logs table promises of every bridge event, as a work     *)
(* queue: a stored event waits, is held by one worker at a time, and comes *)
(* back counted, leaves settled, or is lost with the worker.  Nothing is   *)
(* said of tasks, channels, locks or transactions; RelayPipeline.tla has   *)
(* those, and implements this.                                             *)
(***************************************************************************)
EXTENDS Naturals

CONSTANTS
    Msg,             \* the bridge events
    MaxRetry         \* MAX_RETRY_COUNT

VARIABLES
    life,            \* where each event is
    attempts,        \* how often a worker has given it back
    leg,             \* the leg the next worker starts with
    settled          \* events the home chain needs no signature for any more

vars == <<life, attempts, leg, settled>>

Lives == {"absent", "waiting", "held", "parked", "lost"}

Move(m, from, to) ==
    life[m] = from /\ life' = [life EXCEPT ![m] = to]

Store(m) ==
    /\ Move(m, "absent", "waiting")
    /\ attempts' = [attempts EXCEPT ![m] = 0]
    /\ leg' = [leg EXCEPT ![m] = "home"]
    /\ UNCHANGED settled

Take(m) ==
    /\ Move(m, "waiting", "held")
    /\ UNCHANGED <<attempts, leg, settled>>

\* A failed attempt is counted; the one that reaches the ceiling parks the event.
Return(m) ==
    /\ attempts' = [attempts EXCEPT ![m] = @ + 1]
    /\ Move(m, "held", IF attempts'[m] < MaxRetry THEN "waiting" ELSE "parked")
    /\ UNCHANGED <<leg, settled>>

\* Only an event the home chain has settled goes on to the foreign leg...
Advance(m) ==
    /\ life[m] = "held" /\ settled[m]
    /\ leg' = [leg EXCEPT ![m] = "foreign"]
    /\ UNCHANGED <<life, attempts, settled>>

\* ... or leaves the table.
Finish(m) ==
    /\ settled[m]
    /\ Move(m, "held", "absent")
    /\ attempts' = [attempts EXCEPT ![m] = 0]
    /\ leg' = [leg EXCEPT ![m] = "home"]
    /\ UNCHANGED settled

\* The worker gives the event up without giving it back; a claim whose COMMIT
\* seemed to fail is lost before anyone has held it.
Lose(m) ==
    /\ Move(m, "held", "lost") \/ Move(m, "waiting", "lost")
    /\ UNCHANGED <<attempts, leg, settled>>

\* All workers die.
Die ==
    /\ life' = [m \in Msg |-> IF life[m] = "held" THEN "lost" ELSE life[m]]
    /\ UNCHANGED <<attempts, leg, settled>>

Settle(m) ==
    /\ settled' = [settled EXCEPT ![m] = TRUE]
    /\ UNCHANGED <<life, attempts, leg>>

Init ==
    /\ life = [m \in Msg |-> "absent"]
    /\ attempts = [m \in Msg |-> 0]
    /\ leg = [m \in Msg |-> "home"]
    /\ settled = [m \in Msg |-> FALSE]

Next ==
    \/ \E m \in Msg : \/ Store(m) \/ Take(m) \/ Return(m) \/ Advance(m)
                      \/ Finish(m) \/ Lose(m) \/ Settle(m)
    \/ Die

Spec == Init /\ [][Next]_vars

=============================================================================
