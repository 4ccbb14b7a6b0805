--------------------------- MODULE TurnLifecycle ---------------------------
(***************************************************************************)
(* What a writing task promises to the person who started it, with no word *)
(* about executions, leases, checkpoints or restarts: a turn works, may    *)
(* ask, and ends; each round of it produces one result; an instruction     *)
(* accepted while it works opens a new round before any result is shown;   *)
(* and once it has been stopped or has answered, only its user moves it.   *)
(***************************************************************************)
EXTENDS Naturals

CONSTANTS Turns, Instructions

VARIABLES
    phase,    \* what the user sees
    round,    \* the round of the conversation within the turn
    shown,    \* does its text show a choice the user can answer?
    owed,     \* instructions accepted and not yet taken up
    results   \* <<turn, round>> pairs that have a result

lifecycleVars == <<phase, round, shown, owed, results>>

Phases == {"none", "working", "asking", "done", "failed", "stopped"}

LifecycleTypeOK ==
    /\ phase \in [Turns -> Phases]
    /\ round \in [Turns -> Nat]
    /\ shown \in [Turns -> BOOLEAN]
    /\ owed \in [Turns -> SUBSET Instructions]
    /\ results \subseteq Turns \X Nat

LifecycleInit ==
    /\ phase = [t \in Turns |-> "none"]
    /\ round = [t \in Turns |-> 1]
    /\ shown = [t \in Turns |-> FALSE]
    /\ owed = [t \in Turns |-> {}]
    /\ results = {}

Open(t) ==
    /\ phase[t] = "none"
    /\ phase' = [phase EXCEPT ![t] = "working"]
    /\ UNCHANGED <<round, shown, owed, results>>

\* Text appears, and is given up when a run starts over.
Write(t) ==
    /\ phase[t] = "working"
    /\ shown' \in {shown, [shown EXCEPT ![t] = TRUE], [shown EXCEPT ![t] = FALSE]}
    /\ UNCHANGED <<phase, round, owed, results>>

Instruct(t) ==
    /\ phase[t] = "working"
    /\ \E i \in Instructions : owed' = [owed EXCEPT ![t] = @ \cup {i}]
    /\ UNCHANGED <<phase, round, shown, results>>

\* The round in progress is abandoned for the next one.
TakeUp(t) ==
    /\ phase[t] \in {"working", "failed"}
    /\ owed[t] # {}
    /\ phase' = [phase EXCEPT ![t] = "working"]
    /\ round' = [round EXCEPT ![t] = @ + 1]
    /\ shown' = [shown EXCEPT ![t] = FALSE]
    /\ owed' = [owed EXCEPT ![t] = {}]
    /\ UNCHANGED results

\* A result, or a question: once a round, and never over an instruction.
Conclude(t, p) ==
    /\ phase[t] \in {"working", "failed"}
    /\ owed[t] = {}
    /\ <<t, round[t]>> \notin results
    /\ phase' = [phase EXCEPT ![t] = p]
    /\ shown' = [shown EXCEPT ![t] = @ /\ p = "done"]
    /\ results' = results \cup {<<t, round[t]>>}
    /\ UNCHANGED <<round, owed>>

\* The user answers what the turn shows, a question or a choice in its text.
Reply(t) ==
    /\ phase[t] = "asking" \/ shown[t]
    /\ phase' = [phase EXCEPT ![t] = "working"]
    /\ round' = [round EXCEPT ![t] = @ + 1]
    /\ shown' = [shown EXCEPT ![t] = FALSE]
    /\ UNCHANGED <<owed, results>>

Stop(t) ==
    /\ phase[t] \in {"working", "asking"}
    /\ phase' = [phase EXCEPT ![t] = "stopped"]
    /\ owed' = [owed EXCEPT ![t] = {}]
    /\ UNCHANGED <<round, shown, results>>

\* The queue refused the turn.  A run may have it all the same, and be the one
\* that takes up its instructions, concludes it or gives it back.
Refuse(t) ==
    /\ phase[t] = "working"
    /\ phase' = [phase EXCEPT ![t] = "failed"]
    /\ UNCHANGED <<round, shown, owed, results>>

GiveBack(t) ==
    /\ phase[t] = "failed"
    /\ phase' = [phase EXCEPT ![t] = "working"]
    /\ UNCHANGED <<round, shown, owed, results>>

LifecycleNext ==
    \E t \in Turns :
        \/ Open(t) \/ Write(t) \/ Instruct(t) \/ TakeUp(t)
        \/ \E p \in {"asking", "done"} : Conclude(t, p)
        \/ Reply(t) \/ Stop(t) \/ Refuse(t) \/ GiveBack(t)

Lifecycle == LifecycleInit /\ [][LifecycleNext]_lifecycleVars
=============================================================================
