---------------------------- MODULE LocalRuntime ----------------------------
(***************************************************************************)
(* The API process that runs writing tasks itself (no REDIS_URL): handlers *)
(* start an execution in the process for every task they queue, keep its   *)
(* AbortController in writingTaskControllers, and the boot transaction     *)
(* puts back what the previous process left behind.                        *)
(*                                                                         *)
(* A handler's transaction and the start of its execution are one step:    *)
(* the continuation that dispatches runs as microtasks, and the next       *)
(* transaction of the store has to read the store first.                   *)
(***************************************************************************)
EXTENDS TaskExecution

CONSTANT MaxCrashes   \* bound on the process deaths considered

ASSUME LocalRuntimeAssumption == MaxCrashes \in Nat

VARIABLES
    proc,         \* "booting", "up", "stopping" (after SIGTERM) or "down"
    recovered,    \* recoverableTasks whose execution the boot has yet to start
    controllers,  \* writingTaskControllers
    crashes

localVars == <<proc, recovered, controllers, crashes>>
allVars == <<vars, localVars>>

LocalTypeOK ==
    /\ TypeOK
    /\ proc \in {"booting", "up", "stopping", "down"}
    /\ recovered \subseteq Tasks
    /\ controllers \in [Tasks -> Executions \cup {NoExecution}]
    /\ crashes \in 0..MaxCrashes

LocalInit ==
    /\ Init
    /\ proc = "up"
    /\ recovered = {}
    /\ controllers = [t \in Tasks |-> NoExecution]
    /\ crashes = 0

-----------------------------------------------------------------------------
Serving == proc \in {"up", "stopping"}   \* open connections outlive SIGTERM
Running == proc # "down"

\* executeWritingTaskLocally, up to its first await.
ExecuteLocally(t) ==
    \E e \in Executions :
        /\ Spawn(e, t, FALSE)
        /\ controllers' = [controllers EXCEPT ![t] = e]

\* Its finally block: the entry goes only if it is still this execution's.
Unregister(e) ==
    controllers' = [t \in Tasks |->
                       IF controllers[t] = e THEN NoExecution ELSE controllers[t]]

LocalApi ==
    /\ Serving
    /\ \/ \E t \in Tasks :
            /\ \/ StartTurn(t)
               \/ \E o \in Tasks : Retry(o, t)
               \/ Regenerate(t)
            /\ ExecuteLocally(t)
       \/ \E i \in DOMAIN turns : Answer(i) /\ ExecuteLocally(turns[i])
       \/ \E i \in DOMAIN turns : Steer(i) /\ UNCHANGED <<execs, controllers>>
    /\ UNCHANGED <<proc, recovered, crashes>>

\* Comparing ids without allowing for a task that nobody had claimed yet.
InterruptTargetsClaimedOnly(t) ==
    IF tasks[t].active = controllers[t] THEN {controllers[t]} ELSE {}

\* The registered execution, if it was the active one when the task was
\* cancelled or if none was.
InterruptTargets(t) ==
    IF tasks[t].active \in {NoExecution, controllers[t]} THEN {controllers[t]} ELSE {}

LocalInterrupt(t) ==
    /\ Serving
    /\ Interrupt(t)
    /\ Abort(InterruptTargets(t))
    /\ UNCHANGED localVars

-----------------------------------------------------------------------------
LocalExecution(e) ==
    /\ Running
    /\ ExecutionStep(e)
    /\ IF execs'[e].pc = "done" THEN Unregister(e) ELSE UNCHANGED controllers
    /\ UNCHANGED <<proc, recovered, crashes>>

\* Looking for a task that runs, where the steer has just requeued it.
RedispatchIfRunning(e) ==
    LET t == execs[e].task IN
    /\ Running
    /\ execs[e].outcome = "requeued_steer"
    /\ IF tasks[t].status = "running"
       THEN \E f \in Executions :
                /\ execs[f].pc = "unused"
                /\ execs' = HandledAndRestarted(e, f)
                /\ controllers' = [controllers EXCEPT ![t] = f]
       ELSE execs' = Handled(e) /\ UNCHANGED controllers
    /\ UNCHANGED <<storeVars, delivered, proc, recovered, crashes>>

\* A run that returned for a steer is run again, if its task is still queued.
\* A run that returned "worker" is left to the next boot.
Redispatch(e) ==
    LET t == execs[e].task IN
    /\ Running
    /\ execs[e].outcome = "requeued_steer"
    /\ IF tasks[t].status = "queued"
       THEN \E f \in Executions :
                /\ execs[f].pc = "unused"
                /\ execs' = HandledAndRestarted(e, f)
                /\ controllers' = [controllers EXCEPT ![t] = f]
       ELSE execs' = Handled(e) /\ UNCHANGED controllers
    /\ UNCHANGED <<storeVars, delivered, proc, recovered, crashes>>

-----------------------------------------------------------------------------
\* SIGTERM: shutdown aborts every registered execution and stops listening.
Shutdown ==
    /\ proc = "up"
    /\ crashes < MaxCrashes
    /\ proc' = "stopping"
    /\ Abort({controllers[t] : t \in Tasks})
    /\ UNCHANGED <<storeVars, delivered, recovered, controllers, crashes>>

\* The process is gone: killed, or at the end of its shutdown.
ProcessDies ==
    /\ Running
    /\ crashes < MaxCrashes
    /\ proc' = "down"
    /\ crashes' = crashes + 1
    /\ Lose(Executions)
    /\ recovered' = {}
    /\ controllers' = [t \in Tasks |-> NoExecution]
    /\ UNCHANGED <<storeVars, delivered>>

\* Connections are closed within 8 s of the signal, and the process ends.
ShutdownEnds == proc = "stopping" /\ ProcessDies

\* Resuming what ran, but leaving it to whoever owned it.
RecoverQueuedOnly ==
    /\ proc = "down"
    /\ proc' = "booting"
    /\ recovered' = {t \in Tasks : tasks[t].status = "queued"}
    /\ UNCHANGED <<vars, controllers, crashes>>

\* Putting tasks back and starting none of them.
BootWithoutRestart ==
    /\ proc = "down"
    /\ proc' = "booting"
    /\ RecoverAll
    /\ recovered' = {}
    /\ UNCHANGED <<execs, controllers, crashes>>

\* Putting back the questions, too.
BootRequeuingQuestions ==
    /\ proc = "down"
    /\ proc' = "booting"
    /\ tasks' = [t \in Tasks |->
                    IF tasks[t].status \in Unfinished THEN Recovered(tasks[t])
                    ELSE tasks[t]]
    /\ recovered' = {t \in Tasks : tasks[t].status \in Unfinished}
    /\ UNCHANGED <<parent, turns, delivered, execs, controllers, crashes>>

Boot ==
    /\ proc = "down"
    /\ proc' = "booting"
    /\ RecoverAll
    /\ recovered' = {t \in Tasks : tasks[t].status \in Runnable}
    /\ UNCHANGED <<execs, controllers, crashes>>

StartRecovered(t) ==
    /\ proc = "booting"
    /\ t \in recovered
    /\ ExecuteLocally(t)
    /\ recovered' = recovered \ {t}
    /\ UNCHANGED <<storeVars, delivered, proc, crashes>>

\* Requests arrive after the recovered executions queued their claims.
Listen ==
    /\ proc = "booting"
    /\ recovered = {}
    /\ \A e \in Executions : execs[e].pc # "starting"
    /\ proc' = "up"
    /\ UNCHANGED <<vars, recovered, controllers, crashes>>

-----------------------------------------------------------------------------
LocalNext ==
    \/ LocalApi
    \/ \E t \in Tasks : LocalInterrupt(t) \/ StartRecovered(t)
    \/ \E e \in Executions : LocalExecution(e) \/ Redispatch(e)
    \/ Shutdown
    \/ ProcessDies
    \/ Boot
    \/ Listen

\* A supervisor ends a process it told to stop and starts the next one, the event loop runs what is ready, and a
\* model call returns or, once aborted, throws.  Nothing obliges the user.
LocalFairness ==
    /\ WF_allVars(ShutdownEnds)
    /\ WF_allVars(Boot)
    /\ WF_allVars(Listen)
    /\ \A t \in Tasks : WF_allVars(StartRecovered(t))
    /\ \A e \in Executions :
        /\ WF_allVars(Redispatch(e))
        /\ WF_allVars(LocalExecution(e) /\ execs'[e] # execs[e])

LocalSafetySpec == LocalInit /\ [][LocalNext]_allVars
LocalSpec == LocalSafetySpec /\ LocalFairness

-----------------------------------------------------------------------------
(* Properties.                                                             *)

\* Outside a restart, a task that is shown as running has a live execution
\* that owns it; nothing else would ever move it again.
RunningIsOwned ==
    \A t \in Tasks :
        proc = "up" /\ tasks[t].status = "running" =>
            \E e \in Executions : execs[e].pc = "running" /\ execs[e].task = t /\ Owns(e)

\* While the process serves, a queued task has an execution on its way: one
\* that has yet to claim it, or one whose requeue has yet to be dispatched.
QueuedIsDispatched ==
    \A t \in Tasks :
        proc = "up" /\ tasks[t].status = "queued" =>
            \E e \in Executions :
                /\ execs[e].task = t
                /\ execs[e].pc = "starting" \/ execs[e].outcome = "requeued_steer"

\* Stopping a task reaches whatever runs it: no model call goes on, unaborted,
\* for a task the user has stopped, but one that lost its task when a choice in
\* its text was answered before it ended.
StopReachesTheRun ==
    \A e \in Executions :
        LET t == execs[e].task IN
        proc = "up" /\ Live(e) /\ tasks[t].status = "cancelled" =>
            \/ execs[e].aborted
            \/ ChoiceBlocks /\ execs[e].pc = "running" /\ ~ Owns(e)

\* A steer given later is never merged into the input before an earlier one,
\* crash or not.
SteersMergeInOrder ==
    \A t \in Tasks : \A p \in tasks[t].pending, m \in tasks[t].merged : m < p

\* A task that still works, or asks, is one the thread shows: none goes on
\* behind a turn that was answered anew, whatever restarts and regenerations
\* there were.
UnfinishedTaskHasTurn ==
    \A t \in Tasks :
        tasks[t].status \in Unfinished => \E i \in DOMAIN turns : turns[i] = t

\* A run that failed leaves its task in a state the user can retry from, and
\* not under the name of an execution that is over.
FailureIsRecorded ==
    \A t \in Tasks :
        LET e == tasks[t].active IN
        proc = "up" /\ tasks[t].status = "running" /\ e # NoExecution =>
            execs[e].outcome # "failed"

\* The single-process server is one of the runtimes TaskExecution allows.
RefinesTaskExecution == Spec

\* Whatever the process goes through, a task that was accepted comes to rest:
\* with a result, a question, or the user's cancellation.
EveryTaskComesToRest ==
    \A t \in Tasks :
        tasks[t].status \in Runnable ~> tasks[t].status \in Finished \cup {"waiting_input"}
=============================================================================
