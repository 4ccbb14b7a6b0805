--------------------------- MODULE TaskExecution ---------------------------
(***************************************************************************)
(* Writing tasks, the thread whose turns they answer, and the executions   *)
(* that run them (executeWritingTask), under the weakest runtime: any      *)
(* execution may be started for any task at any time, told to abort, or    *)
(* lost with its process.  LocalRuntime and QueueRuntime are the two       *)
(* runtimes the server has; both refine this module, so what holds here    *)
(* holds whatever the scheduling of the queue, the workers and the API.    *)
(*                                                                         *)
(* One step is one store transaction (updateDb serialises them), together  *)
(* with the in-memory effects its caller has before it awaits again.       *)
(*                                                                         *)
(* Abstracted: one user with one active thread; fewer turns than the 40 a  *)
(* thread keeps and fewer tasks than the 500 the store keeps; quota        *)
(* refusals (a refused request changes nothing); requests repeated with an *)
(* idempotency key (they change nothing either).                           *)
(***************************************************************************)
EXTENDS TaskRecord, Sequences, FiniteSets

CONSTANTS
    Tasks,          \* writing task ids
    NoTask,
    MaxAttempts,    \* bound on interactionAttempt: no answer is given beyond it
    ModelFailures,  \* may a model call fail or time out without an abort?
    ChoiceBlocks    \* may streamed text hold a <choice_request> block?

ASSUME TaskExecutionAssumption ==
    /\ NoTask \notin Tasks
    /\ MaxAttempts \in Nat
    /\ ModelFailures \in BOOLEAN
    /\ ChoiceBlocks \in BOOLEAN

VARIABLES
    tasks,      \* the stored records
    parent,     \* parentTaskId
    turns,      \* thread.turns: the task that answers each turn
    execs,      \* the executions, each used once
    delivered   \* history: the results written to tasks

storeVars == <<tasks, parent, turns>>
vars == <<tasks, parent, turns, execs, delivered>>

-----------------------------------------------------------------------------
\* What executeWritingTask returns, as far as its callers look at it: a requeue
\* with its reason, or anything else.  "none": it did not return.
Outcomes == {"none", "settled", "requeued_steer", "requeued_worker", "failed"}

Execution ==
    [ pc       : {"unused", "starting", "running", "done"},
      task     : Tasks \cup {NoTask},
      gen      : Nat,                 \* prepared.executionGeneration
      heard    : SUBSET Revisions,    \* the steers in prepared.input
      base     : Executions \cup {NoExecution},  \* author of checkpointOutput
      takeover : BOOLEAN,             \* resumeRunning, until the claim reads it
      aborted  : BOOLEAN,             \* controller.signal.aborted
      outcome  : Outcomes ]

Unused ==
    [ pc |-> "unused", task |-> NoTask, gen |-> 0, heard |-> {},
      base |-> NoExecution, takeover |-> FALSE, aborted |-> FALSE,
      outcome |-> "none" ]

\* An execution that is over: its locals are gone.
Returned(t, outcome) ==
    [Unused EXCEPT !.pc = "done", !.task = t, !.outcome = outcome]

Delivery ==
    [ task : Tasks, attempt : Nat, execution : Executions, heard : SUBSET Revisions ]

Live(e) == execs[e].pc \in {"starting", "running"}

\* The executor's view of its task.
Owns(e) == ExecutionMatches(tasks[execs[e].task], e, execs[e].gen)

TypeOK ==
    /\ tasks \in [Tasks -> Record]
    /\ parent \in [Tasks -> Tasks \cup {NoTask}]
    /\ turns \in Seq(Tasks)
    /\ execs \in [Executions -> Execution]
    /\ delivered \subseteq Delivery

Init ==
    /\ tasks = [t \in Tasks |-> Absent]
    /\ parent = [t \in Tasks |-> NoTask]
    /\ turns = << >>
    /\ execs = [e \in Executions |-> Unused]
    /\ delivered = {}

-----------------------------------------------------------------------------
(* What the runtime does to executions.                                    *)

Spawn(e, t, takeover) ==
    /\ execs[e].pc = "unused"
    /\ execs' = [execs EXCEPT ![e] =
                    [Unused EXCEPT !.pc = "starting", !.task = t, !.takeover = takeover]]

Abort(E) ==
    execs' = [e \in Executions |->
                 IF e \in E /\ Live(e) THEN [execs[e] EXCEPT !.aborted = TRUE]
                 ELSE execs[e]]

\* With its process, an execution loses what it still had to do, and so does
\* the caller it had returned to.
Lose(E) ==
    execs' = [e \in Executions |->
                 IF e \in E /\ execs[e].pc # "unused" THEN Returned(execs[e].task, "none")
                 ELSE execs[e]]

\* The caller has dealt with what an execution returned.  To run the task again
\* it starts another one.
Handled(e) == [execs EXCEPT ![e].outcome = "settled"]

HandledAndRestarted(e, f) ==
    [execs EXCEPT ![e].outcome = "settled",
                  ![f] = [Unused EXCEPT !.pc = "starting", !.task = execs[e].task]]

HandleReturn(e) ==
    /\ execs[e].pc = "done"
    /\ \/ execs' = Handled(e)
       \/ \E f \in Executions :
            execs[f].pc = "unused" /\ execs' = HandledAndRestarted(e, f)

-----------------------------------------------------------------------------
(* The API's handlers: their store transaction.  execs is left to the      *)
(* caller, which dispatches the task or aborts its execution.              *)

TurnUnfinished(i) == tasks[turns[i]].status \in Unfinished

StartTurn(t) ==
    /\ tasks[t].status = "absent"
    /\ \A i \in DOMAIN turns : ~ TurnUnfinished(i)
    /\ tasks' = [tasks EXCEPT ![t] = Created]
    /\ turns' = Append(turns, t)
    /\ UNCHANGED <<parent, delivered>>

\* POST /tasks/:id/retry does not look at the thread's other turns.
Retry(o, t) ==
    /\ tasks[o].status \in {"failed", "cancelled"}
    /\ tasks[t].status = "absent"
    /\ \A c \in Tasks : ~ (parent[c] = o /\ tasks[c].status \in Runnable)
    /\ tasks' = [tasks EXCEPT ![t] = Created]
    /\ parent' = [parent EXCEPT ![t] = o]
    /\ turns' = Append(turns, t)
    /\ UNCHANGED delivered

\* The last turn's task is replaced whether or not it still works.
RegenerateAnyTime(t) ==
    /\ turns # << >>
    /\ tasks[t].status = "absent"
    /\ tasks' = [tasks EXCEPT ![t] = Created]
    /\ parent' = [parent EXCEPT ![t] = turns[Len(turns)]]
    /\ turns' = [turns EXCEPT ![Len(turns)] = t]
    /\ UNCHANGED delivered

\* The last turn only; its task is replaced.
Regenerate(t) ==
    /\ turns # << >>
    /\ tasks[t].status = "absent"
    /\ LET o == turns[Len(turns)] IN
        /\ tasks[o].status \in Finished
        /\ tasks' = [tasks EXCEPT ![t] = Created]
        /\ parent' = [parent EXCEPT ![t] = o]
        /\ turns' = [turns EXCEPT ![Len(turns)] = t]
    /\ UNCHANGED delivered

Answer(i) ==
    /\ Answerable(tasks[turns[i]])
    /\ tasks[turns[i]].attempt < MaxAttempts
    /\ tasks' = [tasks EXCEPT ![turns[i]] = Answered(@)]
    /\ UNCHANGED <<parent, turns, delivered>>

\* The limit on the task's steers forgotten.
SteerUnlimited(i) ==
    /\ tasks[turns[i]].status \in Runnable
    /\ tasks[turns[i]].steerRevision <= MaxSteers
    /\ tasks' = [tasks EXCEPT ![turns[i]] = Steered(@)]
    /\ UNCHANGED <<parent, turns, delivered>>

Steer(i) ==
    /\ tasks[turns[i]].status \in Runnable
    /\ \A j \in DOMAIN turns : j > i => tasks[turns[j]].status \notin Runnable
    /\ tasks[turns[i]].steerRevision < MaxSteers
    /\ tasks' = [tasks EXCEPT ![turns[i]] = Steered(@)]
    /\ UNCHANGED <<parent, turns, delivered>>

Interrupt(t) ==
    /\ tasks[t].status \in Unfinished
    /\ tasks' = [tasks EXCEPT ![t] = Interrupted(@)]
    /\ UNCHANGED <<parent, turns, delivered>>

\* The handler that created or requeued t could not hand it to the queue.
DispatchFails(t) ==
    /\ tasks[t].status \in Runnable
    /\ tasks' = [tasks EXCEPT ![t] = DispatchFailed(@)]
    /\ UNCHANGED <<parent, turns, delivered>>

\* The boot transaction of an API that runs tasks itself.
RecoverAll ==
    /\ tasks' = [t \in Tasks |->
                    IF tasks[t].status \in Runnable THEN Recovered(tasks[t])
                    ELSE tasks[t]]
    /\ UNCHANGED <<parent, turns, delivered>>

-----------------------------------------------------------------------------
(* executeWritingTask.                                                     *)

Settle(e, outcome) ==
    execs' = [execs EXCEPT ![e] = Returned(@.task, outcome)]

Claim(e) ==
    LET t == execs[e].task
        r == Claimed(tasks[t], e, execs[e].takeover) IN
    /\ execs[e].pc = "starting"
    /\ Claimable(tasks[t], execs[e].takeover)
    /\ tasks' = [tasks EXCEPT ![t] = r]
    /\ execs' = [execs EXCEPT ![e].pc    = "running",
                              ![e].gen   = r.gen,
                              ![e].heard = r.merged,
                              ![e].base  = r.output,
                              ![e].takeover = FALSE]
    /\ UNCHANGED <<parent, turns, delivered>>

Skip(e) ==
    /\ execs[e].pc = "starting"
    /\ ~ Claimable(tasks[execs[e].task], execs[e].takeover)
    /\ Settle(e, "settled")
    /\ UNCHANGED <<storeVars, delivered>>

\* Each write while the model streams re-reads the record and gives up unless
\* it is still this execution's; the write that gives up changes nothing.
Checkpoint(e, choice) ==
    LET t == execs[e].task IN
    /\ execs[e].pc = "running"
    /\ choice => ChoiceBlocks
    /\ Writable(tasks[t], e, execs[e].gen)
    /\ tasks' = [tasks EXCEPT ![t] = Checkpointed(@, e, choice)]
    /\ UNCHANGED <<parent, turns, execs, delivered>>

\* The model has answered: the final transaction, its early returns in order.
FinishCancelled(e) ==
    LET r == tasks[execs[e].task] IN
    /\ execs[e].pc = "running"
    /\ r.status = "cancelled" \/ r.cancelRequested
    /\ Settle(e, "settled")
    /\ UNCHANGED <<storeVars, delivered>>

FinishSuperseded(e) ==
    LET r == tasks[execs[e].task] IN
    /\ execs[e].pc = "running"
    /\ ~ (r.status = "cancelled" \/ r.cancelRequested)
    /\ ~ Owns(e)
    /\ Settle(e, "settled")
    /\ UNCHANGED <<storeVars, delivered>>

\* The final transaction looks at the owner, not at the cancellation.
MayFinishCancelled(e) == execs[e].pc = "running" /\ Owns(e)

MayFinish(e) ==
    LET r == tasks[execs[e].task] IN
    /\ execs[e].pc = "running"
    /\ ~ (r.status = "cancelled" \/ r.cancelRequested)
    /\ Owns(e)

FinishForSteer(e) ==
    LET t == execs[e].task IN
    /\ MayFinish(e)
    /\ tasks[t].pending # {}
    /\ tasks' = [tasks EXCEPT ![t] = SteersApplied(@)]
    /\ Settle(e, "requeued_steer")
    /\ UNCHANGED <<parent, turns, delivered>>

\* Delivering although a steer was accepted while the model ran.
DeliverOverSteers(e, kind) ==
    LET t == execs[e].task IN
    /\ MayFinish(e)
    /\ tasks' = [tasks EXCEPT ![t] = Delivered(@, e, kind)]
    /\ delivered' = delivered \cup
            {[task |-> t, attempt |-> tasks[t].attempt, execution |-> e,
              heard |-> execs[e].heard]}
    /\ Settle(e, "settled")
    /\ UNCHANGED <<parent, turns>>

\* The result and the story artifacts are written in one transaction.
Deliver(e, kind) ==
    LET t == execs[e].task IN
    /\ MayFinish(e)
    /\ tasks[t].pending = {}
    /\ tasks' = [tasks EXCEPT ![t] = Delivered(@, e, kind)]
    /\ delivered' = delivered \cup
            {[task |-> t, attempt |-> tasks[t].attempt, execution |-> e,
              heard |-> execs[e].heard]}
    /\ Settle(e, "settled")
    /\ UNCHANGED <<parent, turns>>

(* The catch block.  Its transaction names deltaRunLog, a const of the try *)
(* block's scope: the branches for a cancelled task, a superseded run,     *)
(* pending steers and a terminal failure raise a ReferenceError, which     *)
(* rolls the transaction back and is swallowed.  The requeue of an aborted *)
(* run is the one branch that does not name it.                            *)

\* The abort looked at before the pending steers.
RequeueAfterAbortFirst(e) ==
    LET t == execs[e].task IN
    /\ execs[e].pc = "running"
    /\ execs[e].aborted
    /\ Owns(e)
    /\ ~ tasks[t].cancelRequested
    /\ tasks' = [tasks EXCEPT ![t] = RequeuedOnAbort(@)]
    /\ Settle(e, "requeued_worker")
    /\ UNCHANGED <<parent, turns, delivered>>

RequeueAfterAbort(e) ==
    LET t == execs[e].task IN
    /\ execs[e].pc = "running"
    /\ execs[e].aborted
    /\ Owns(e)
    /\ ~ tasks[t].cancelRequested
    /\ tasks[t].pending = {}
    /\ tasks' = [tasks EXCEPT ![t] = RequeuedOnAbort(@)]
    /\ Settle(e, "requeued_worker")
    /\ UNCHANGED <<parent, turns, delivered>>

FailUnrecorded(e) ==
    LET t == execs[e].task IN
    /\ execs[e].pc = "running"
    /\ execs[e].aborted \/ ModelFailures
    /\ ~ ( /\ execs[e].aborted
           /\ Owns(e)
           /\ ~ tasks[t].cancelRequested
           /\ tasks[t].pending = {} )
    /\ Settle(e, "failed")
    /\ UNCHANGED <<storeVars, delivered>>

-----------------------------------------------------------------------------
DispatchTo(t) == UNCHANGED execs \/ \E e \in Executions : Spawn(e, t, FALSE)

ApiStep ==
    \/ \E t \in Tasks :
        /\ \/ StartTurn(t)
           \/ \E o \in Tasks : Retry(o, t)
           \/ Regenerate(t)
        /\ DispatchTo(t)
    \/ \E i \in DOMAIN turns : Answer(i) /\ DispatchTo(turns[i])
    \/ \E i \in DOMAIN turns : Steer(i) /\ UNCHANGED execs
    \/ \E t \in Tasks, E \in SUBSET Executions : Interrupt(t) /\ Abort(E)
    \/ \E t \in Tasks : DispatchFails(t) /\ UNCHANGED execs
    \/ RecoverAll /\ UNCHANGED execs

RuntimeStep ==
    /\ \/ \E e \in Executions, t \in Tasks, takeover \in BOOLEAN : Spawn(e, t, takeover)
       \/ \E E \in SUBSET Executions : Abort(E) \/ Lose(E)
       \/ \E e \in Executions : HandleReturn(e)
    /\ UNCHANGED <<storeVars, delivered>>

ExecutionStep(e) ==
    \/ Claim(e)
    \/ Skip(e)
    \/ \E choice \in BOOLEAN : Checkpoint(e, choice)
    \/ FinishCancelled(e)
    \/ FinishSuperseded(e)
    \/ FinishForSteer(e)
    \/ \E kind \in {"completed", "needs_input"} : Deliver(e, kind)
    \/ RequeueAfterAbort(e)
    \/ FailUnrecorded(e)

Next == ApiStep \/ RuntimeStep \/ \E e \in Executions : ExecutionStep(e)

Spec == Init /\ [][Next]_vars

-----------------------------------------------------------------------------
(* What of it the user sees.                                               *)

Phase(r) ==
    CASE r.status = "absent"        -> "none"
      [] r.status \in Runnable      -> "working"
      [] r.status = "waiting_input" -> "asking"
      [] r.status = "completed"     -> "done"
      [] r.status = "failed"        -> "failed"
      [] r.status = "cancelled"     -> "stopped"

Promise == INSTANCE TurnLifecycle WITH
    Turns        <- Tasks,
    Instructions <- Revisions,
    phase        <- [t \in Tasks |-> Phase(tasks[t])],
    round        <- [t \in Tasks |-> tasks[t].attempt],
    shown        <- [t \in Tasks |-> tasks[t].choice],
    owed         <- [t \in Tasks |-> tasks[t].pending],
    results      <- {<<d.task, d.attempt>> : d \in delivered}

\* The tasks and their executions keep the promise made to the user: crashes,
\* takeovers, duplicate starts, aborts and restarts are invisible in it.
KeepsPromise == Promise!Lifecycle

-----------------------------------------------------------------------------
(* Safety.                                                                 *)

\* However many executions a task gets, through crashes, takeovers, duplicate
\* queue entries and restarts, each round of the conversation (attempt) gets
\* at most one result, and its artifacts are applied at most once.
OneDeliveryPerAttempt ==
    \A c, d \in delivered :
        c.task = d.task /\ c.attempt = d.attempt => c = d

\* A steer the API acknowledged is never dropped by the turn that was running
\* when it arrived: when a result stands, everything merged into the input was
\* in the input of the execution that produced it, and nothing is left pending.
DeliveryHeardEverySteer ==
    \A t \in Tasks :
        tasks[t].status \in {"waiting_input", "completed"} =>
            /\ tasks[t].pending = {}
            /\ \E d \in delivered :
                /\ d.task = t /\ d.attempt = tasks[t].attempt
                /\ d.heard = tasks[t].merged

\* The visible text of a running task was written by the live execution that owns
\* it, or is the checkpoint that execution resumed from: a superseded run
\* never shows through.
OutputLineage ==
    \A t \in Tasks :
        tasks[t].status = "running" =>
            LET e == tasks[t].active IN
            /\ e # NoExecution
            /\ Live(e) => tasks[t].output \in {e, execs[e].base}

\* Stopping a task, or finishing it, is final: no execution that is still
\* running, starting or requeued for it brings it back.  Only the user does,
\* by answering a choice its text shows.
FinishedStaysFinished ==
    [][\A t \in Tasks :
        tasks[t].status \in {"completed", "cancelled"} /\ tasks'[t].status # tasks[t].status
            => tasks[t].choice /\ tasks'[t].attempt = tasks[t].attempt + 1]_vars
=============================================================================
