----------------------------- MODULE TaskRecord -----------------------------
(***************************************************************************)
(* One element of db.writingTasks and the pure updates the server applies  *)
(* to it inside a store transaction (updateDb).  Every operator takes a    *)
(* record and returns the record the transaction writes; who may apply it, *)
(* and when, is the business of TaskExecution and of the runtimes.         *)
(*                                                                         *)
(* Abstracted: the prompt, the result and the event list.  What is kept of *)
(* the text a run produces is its author (output) and whether it holds a   *)
(* <choice_request> block (choice); what is kept of the steering messages  *)
(* is their revision numbers.                                              *)
(***************************************************************************)
EXTENDS Naturals

CONSTANTS
    Executions,    \* execution ids: one fresh UUID for each run of the executor
    NoExecution,   \* activeExecutionId = null
    MaxSteers      \* most steering messages a task accepts (8 in the code)

ASSUME TaskRecordAssumption ==
    /\ NoExecution \notin Executions
    /\ MaxSteers \in Nat

Runnable   == {"queued", "running"}
Unfinished == Runnable \cup {"waiting_input"}
Finished   == {"completed", "failed", "cancelled"}
Status     == {"absent"} \cup Unfinished \cup Finished

Revisions == 1..MaxSteers

Record ==
    [ status          : Status,
      gen             : Nat,                           \* executionGeneration
      attempt         : Nat,                           \* interactionAttempt
      active          : Executions \cup {NoExecution}, \* activeExecutionId
      cancelRequested : BOOLEAN,
      resume          : BOOLEAN,                       \* resumeFromCheckpoint
      output          : Executions \cup {NoExecution}, \* author of partialOutput
      choice          : BOOLEAN,                       \* legacyChoiceRecovery # null
      steerRevision   : 0..MaxSteers,
      pending         : SUBSET Revisions,              \* steers still "pending"
      merged          : SUBSET Revisions ]             \* steers in the task's input

-----------------------------------------------------------------------------
(* Creation.                                                               *)

Fresh(status) ==
    [ status |-> status, gen |-> 1, attempt |-> 1, active |-> NoExecution,
      cancelRequested |-> FALSE, resume |-> FALSE, output |-> NoExecution,
      choice |-> FALSE, steerRevision |-> 0, pending |-> {}, merged |-> {} ]

Absent  == Fresh("absent")
Created == Fresh("queued")

-----------------------------------------------------------------------------
(* The executor's transactions.                                            *)

\* A run may write only while it is the one the record names as its owner.
ExecutionMatches(r, e, g) == r.active = e /\ r.gen = g

Claimable(r, takeover) ==
    /\ ~ r.cancelRequested
    /\ \/ r.status = "queued"
       \/ takeover /\ r.status = "running"

\* The text of the previous run survives only as a checkpoint to resume from.
Claimed(r, e, takeover) ==
    LET recover == r.resume \/ (takeover /\ r.status = "running") IN
    [r EXCEPT !.status = "running",
              !.gen    = IF takeover /\ r.status = "running" THEN @ + 1 ELSE @,
              !.active = e,
              !.resume = FALSE,
              !.output = IF recover THEN @ ELSE NoExecution,
              !.choice = IF recover THEN @ ELSE FALSE]

\* Looking at the task and not at its owner.
WritableByAnyone(r, e, g) == r.status = "running" /\ ~ r.cancelRequested

Writable(r, e, g) ==
    /\ r.status = "running"
    /\ ~ r.cancelRequested
    /\ ExecutionMatches(r, e, g)

Checkpointed(r, e, choice) ==
    [r EXCEPT !.output = e, !.choice = IF choice THEN TRUE ELSE @]

\* Steers marked applied, but the record keeps its owner and its attempt.
SteersAppliedInPlace(r) ==
    [r EXCEPT !.status = "queued", !.merged = @ \cup r.pending, !.pending = {}]

\* Pending steers enter the input, and the turn goes back to the queue as a
\* new attempt of a new generation that nobody owns.
SteersApplied(r) ==
    [r EXCEPT !.status  = "queued",
              !.gen     = @ + 1,
              !.attempt = @ + 1,
              !.active  = NoExecution,
              !.output  = NoExecution,
              !.choice  = FALSE,
              !.merged  = @ \cup r.pending,
              !.pending = {}]

\* kind is the status of the model's result: "completed" or "needs_input".
Delivered(r, e, kind) ==
    [r EXCEPT !.status = IF kind = "needs_input" THEN "waiting_input" ELSE "completed",
              !.active = NoExecution,
              !.output = e,
              !.choice = IF kind = "completed" THEN @ ELSE FALSE]

RequeuedOnAbort(r) ==
    [r EXCEPT !.status = "queued",
              !.gen    = @ + 1,
              !.active = NoExecution,
              !.resume = TRUE]

-----------------------------------------------------------------------------
(* The API's transactions.                                                 *)

\* The steer reaches the input of a queued task at once; a running one keeps
\* it for the boundary of the current generation.
Steered(r) ==
    LET revision == r.steerRevision + 1 IN
    IF r.status = "queued"
    THEN [r EXCEPT !.steerRevision = revision, !.merged = @ \cup {revision}]
    ELSE [r EXCEPT !.steerRevision = revision, !.pending = @ \cup {revision}]

\* The answer continues the same attempt.
AnsweredInSameAttempt(r) ==
    [r EXCEPT !.status = "queued", !.active = NoExecution,
              !.cancelRequested = FALSE, !.output = NoExecution, !.choice = FALSE]

Answered(r) ==
    [r EXCEPT !.status  = "queued",
              !.gen     = @ + 1,
              !.attempt = @ + 1,
              !.active  = NoExecution,
              !.cancelRequested = FALSE,
              !.output  = NoExecution,
              !.choice  = FALSE]

Interrupted(r) ==
    [r EXCEPT !.status = "cancelled", !.cancelRequested = TRUE, !.pending = {}]

DispatchFailed(r) == [r EXCEPT !.status = "failed"]

\* A restarted API without a queue: whatever ran in the old process resumes
\* from its checkpoint.
Recovered(r) ==
    [r EXCEPT !.status = "queued",
              !.active = NoExecution,
              !.resume = IF r.status = "running" THEN TRUE ELSE @]

\* What the API shows and accepts as a question to the user: a task that waits
\* for input, or any task whose visible text holds a choice block.
Answerable(r) == r.status = "waiting_input" \/ r.choice
=============================================================================
