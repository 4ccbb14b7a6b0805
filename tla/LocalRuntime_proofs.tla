------------------------ MODULE LocalRuntime_proofs ------------------------
(***************************************************************************)
(* The single-process server is one of the runtimes of TaskExecution, for  *)
(* any number of tasks, executions and restarts: whatever TaskExecution    *)
(* guarantees holds of it.                                                 *)
(***************************************************************************)
EXTENDS LocalRuntime, TaskExecution_proofs

\* An execution that returned for a steer is restarted, or not, as any caller
\* may do it.
LEMMA RedispatchHandles ==
  ASSUME ReturnsAreOver, NEW e \in Executions, Redispatch(e)
  PROVE  RuntimeStep
<1>1. execs[e].pc = "done"
  BY DEF Redispatch, ReturnsAreOver
<1>2. HandleReturn(e)
  BY <1>1 DEF Redispatch, HandleReturn
<1> QED
  BY <1>2 DEF Redispatch, RuntimeStep

\* Every step of the process is a step of TaskExecution, or none of its business.
LEMMA LocalSimulates ==
  ASSUME IInv, ReturnsAreOver, controllers \in [Tasks -> Executions \cup {NoExecution}],
         [LocalNext]_allVars
  PROVE  [Next]_vars
<1>1. CASE LocalApi
  <2>1. ASSUME NEW t \in Tasks, ExecuteLocally(t)
        PROVE  DispatchTo(t)
    BY <2>1 DEF ExecuteLocally, DispatchTo
  <2>2. \A i \in DOMAIN turns : turns[i] \in Tasks
    BY DEF IInv, TypeOK
  <2>3. ApiStep
    BY <1>1, <2>1, <2>2 DEF LocalApi, ApiStep
  <2> QED
    BY <2>3 DEF Next
<1>2. ASSUME NEW t \in Tasks, LocalInterrupt(t)
      PROVE  Next
  <2> DEFINE E == InterruptTargets(t) \cap Executions
  <2>1. Abort(E)
    BY <1>2 DEF LocalInterrupt, Abort
  <2>2. ApiStep
    BY <1>2, <2>1 DEF LocalInterrupt, ApiStep
  <2> QED
    BY <2>2 DEF Next
<1>3. ASSUME NEW t \in Tasks, StartRecovered(t)
      PROVE  Next
  BY <1>3 DEF StartRecovered, ExecuteLocally, RuntimeStep, Next
<1>4. ASSUME NEW e \in Executions, LocalExecution(e)
      PROVE  Next
  BY <1>4 DEF LocalExecution, Next
<1>5. ASSUME NEW e \in Executions, Redispatch(e)
      PROVE  Next
  BY <1>5, RedispatchHandles DEF Next
<1>6. CASE Shutdown
  <2> DEFINE E == {controllers[t] : t \in Tasks} \cap Executions
  <2>1. Abort(E)
    BY <1>6 DEF Shutdown, Abort
  <2> QED
    BY <1>6, <2>1 DEF Shutdown, RuntimeStep, Next
<1>7. CASE ProcessDies
  BY <1>7 DEF ProcessDies, RuntimeStep, Next
<1>8. CASE Boot
  BY <1>8 DEF Boot, ApiStep, Next
<1>9. CASE Listen \/ UNCHANGED allVars
  BY <1>9 DEF Listen, allVars
<1> QED
  BY <1>1, <1>2, <1>3, <1>4, <1>5, <1>6, <1>7, <1>8, <1>9 DEF LocalNext

-----------------------------------------------------------------------------
(***************************************************************************)
(* The invariant of TaskExecution, of its callers, and the registry: an    *)
(* abort names executions, and what is restarted was over.                 *)
(***************************************************************************)
LocalTypes ==
    /\ proc \in {"booting", "up", "stopping", "down"}
    /\ recovered \subseteq Tasks
    /\ controllers \in [Tasks -> Executions \cup {NoExecution}]

LocalInv == IInv /\ ReturnsAreOver /\ LocalTypes

CrashesAreBounded == crashes \in 0..MaxCrashes

LEMMA LocalInitInv == LocalInit => LocalInv
  BY InitInv DEF LocalInit, LocalInv, LocalTypes, ReturnsAreOver, Init, Unused

\* What the process keeps in memory.
LEMMA LocalTypesStep ==
  ASSUME LocalInv, [LocalNext]_allVars
  PROVE  LocalTypes'
<1> USE DEF LocalTypes, LocalInv
<1>1. CASE LocalApi
  <2>1. \A i \in DOMAIN turns : turns[i] \in Tasks
    BY DEF IInv, TypeOK
  <2>2. ASSUME NEW t \in Tasks, ExecuteLocally(t)
        PROVE  controllers' \in [Tasks -> Executions \cup {NoExecution}]
    BY <2>2 DEF ExecuteLocally
  <2> QED
    BY <1>1, <2>1, <2>2 DEF LocalApi
<1>2. ASSUME NEW t \in Tasks, LocalInterrupt(t) \/ StartRecovered(t)
      PROVE  LocalTypes'
  BY <1>2 DEF LocalInterrupt, StartRecovered, ExecuteLocally, localVars
<1>3. ASSUME NEW e \in Executions, LocalExecution(e)
      PROVE  LocalTypes'
  BY <1>3 DEF LocalExecution, Unregister
<1>4. ASSUME NEW e \in Executions, Redispatch(e)
      PROVE  LocalTypes'
  BY <1>4 DEF Redispatch
<1>5. CASE Shutdown \/ ProcessDies \/ Boot \/ Listen \/ UNCHANGED allVars
  BY <1>5 DEF Shutdown, ProcessDies, Boot, Listen, allVars, localVars
<1> QED
  BY <1>1, <1>2, <1>3, <1>4, <1>5 DEF LocalNext

LEMMA LocalNextInv == LocalInv /\ [LocalNext]_allVars => LocalInv' /\ [Next]_vars
<1> SUFFICES ASSUME LocalInv, [LocalNext]_allVars PROVE LocalInv' /\ [Next]_vars
  OBVIOUS
<1>1. [Next]_vars
  BY LocalSimulates DEF LocalInv, LocalTypes
<1>2. IInv' /\ ReturnsAreOver'
  BY <1>1, NextInv, ReturnsStep DEF LocalInv
<1> QED
  BY <1>1, <1>2, LocalTypesStep DEF LocalInv

-----------------------------------------------------------------------------
(***************************************************************************)
(* Where texts hold no choice blocks, a task has one execution at work at  *)
(* most.  It is the registered one, and nobody else owns the task: so      *)
(* aborting it stops the task.                                             *)
(***************************************************************************)

\* An execution that will go on, or that will be started again.
Engaged(e) == Live(e) \/ execs[e].outcome = "requeued_steer"

OneIsEngaged ==
    \A e, f \in Executions :
        Engaged(e) /\ Engaged(f) /\ execs[e].task = execs[f].task => e = f

EngagedAreCalledFor ==
    \A e \in Executions :
        Engaged(e) =>
            /\ execs[e].task \in Tasks
            /\ tasks[execs[e].task].status \notin {"absent", "waiting_input"}
            /\ execs[e].task \notin recovered
            /\ proc # "down"

LiveAreRegistered ==
    \A e \in Executions : Live(e) => controllers[execs[e].task] = e

LiveHaveNoRival ==
    \A e \in Executions :
        Live(e) => tasks[execs[e].task].active \in {NoExecution, e}

StoppedAreAborted ==
    \A e \in Executions :
        Live(e) /\ tasks[execs[e].task].status = "cancelled" => execs[e].aborted

RecoveredAreQueued ==
    \A t \in recovered : proc = "booting" /\ tasks[t].status = "queued"

WorkInv ==
    /\ OneIsEngaged
    /\ EngagedAreCalledFor
    /\ LiveAreRegistered
    /\ LiveHaveNoRival
    /\ StoppedAreAborted
    /\ RecoveredAreQueued

\* A task nobody works for is given an execution.
LEMMA WorkStarts ==
  ASSUME LocalInv, WorkInv, NEW e \in Executions, NEW t \in Tasks,
         Spawn(e, t, FALSE), controllers' = [controllers EXCEPT ![t] = e],
         \A f \in Executions : Engaged(f) => execs[f].task # t,
         tasks'[t].status = "queued", tasks'[t].active = NoExecution,
         \A u \in Tasks \ {t} : tasks'[u] = tasks[u],
         recovered' = recovered \ {t}, proc' = proc, proc # "down"
  PROVE  WorkInv'
<1>1. execs \in [Executions -> Execution] /\ recovered \subseteq Tasks
      /\ controllers \in [Tasks -> Executions \cup {NoExecution}]
  BY DEF LocalInv, IInv, TypeOK, LocalTypes
<1>2. /\ execs'[e].pc = "starting" /\ execs'[e].task = t /\ execs'[e].outcome = "none"
      /\ \A f \in Executions \ {e} : execs'[f] = execs[f]
  BY <1>1 DEF Spawn, Unused
<1>3. Engaged(e)' /\ \A f \in Executions \ {e} :
          (Engaged(f)' <=> Engaged(f)) /\ (Live(f)' <=> Live(f))
  BY <1>2 DEF Engaged, Live
<1>4. \A f \in Executions \ {e} : Engaged(f) => execs'[f].task # t /\ tasks'[execs'[f].task] = tasks[execs[f].task]
  BY <1>2 DEF WorkInv, EngagedAreCalledFor
<1>5. \A f \in Executions : Live(f) => Engaged(f)
  BY DEF Engaged
<1>6. OneIsEngaged'
  BY <1>2, <1>3, <1>4 DEF WorkInv, OneIsEngaged
<1>7. EngagedAreCalledFor'
  BY <1>2, <1>3, <1>4 DEF WorkInv, EngagedAreCalledFor
<1>8. LiveAreRegistered'
  BY <1>1, <1>2, <1>3, <1>4, <1>5 DEF WorkInv, LiveAreRegistered, EngagedAreCalledFor
<1>9. LiveHaveNoRival' /\ StoppedAreAborted'
  BY <1>2, <1>3, <1>4, <1>5 DEF WorkInv, LiveHaveNoRival, StoppedAreAborted
<1>10. RecoveredAreQueued'
  BY <1>1 DEF WorkInv, RecoveredAreQueued
<1> QED
  BY <1>6, <1>7, <1>8, <1>9, <1>10 DEF WorkInv

\* Nobody starts or ends, but a task may be stopped, whose executions are aborted.
LEMMA WorkGoesOn ==
  ASSUME LocalInv, WorkInv,
         \A e \in Executions :
            /\ execs'[e].pc = execs[e].pc
            /\ execs'[e].task = execs[e].task
            /\ execs'[e].outcome = execs[e].outcome
            /\ execs[e].aborted => execs'[e].aborted,
         \A t \in Tasks :
            \/ tasks'[t].status = tasks[t].status /\ tasks'[t].active = tasks[t].active
            \/ /\ tasks'[t].status = "cancelled" /\ tasks'[t].active = tasks[t].active
               /\ \A e \in Executions : Live(e) /\ execs[e].task = t => execs'[e].aborted
               /\ t \notin recovered,
         controllers' = controllers, recovered' = recovered, proc' # "down",
         proc' = proc \/ recovered = {}
  PROVE  WorkInv'
<1>1. \A e \in Executions : (Engaged(e)' <=> Engaged(e)) /\ (Live(e)' <=> Live(e))
  BY DEF Engaged, Live
<1>2. \A e \in Executions : Live(e) => Engaged(e)
  BY DEF Engaged
<1>3. recovered \subseteq Tasks
  BY DEF LocalInv, LocalTypes
<1>4. OneIsEngaged'
  BY <1>1 DEF WorkInv, OneIsEngaged
<1>5. EngagedAreCalledFor'
  BY <1>1 DEF WorkInv, EngagedAreCalledFor
<1>6. LiveAreRegistered'
  BY <1>1 DEF WorkInv, LiveAreRegistered
<1>7. LiveHaveNoRival' /\ StoppedAreAborted'
  BY <1>1, <1>2 DEF WorkInv, LiveHaveNoRival, StoppedAreAborted, EngagedAreCalledFor
<1>8. RecoveredAreQueued'
  BY <1>3 DEF WorkInv, RecoveredAreQueued
<1> QED
  BY <1>4, <1>5, <1>6, <1>7, <1>8 DEF WorkInv

\* The one execution of a task is over; what it leaves of the task is nobody's.
LEMMA WorkEnds ==
  ASSUME LocalInv, WorkInv, NEW e \in Executions, NEW o \in Outcomes,
         Live(e), Settle(e, o), Unregister(e),
         \A u \in Tasks \ {execs[e].task} : tasks'[u] = tasks[u],
         o = "requeued_steer" => tasks'[execs[e].task].status = "queued",
         recovered' = recovered, proc' = proc
  PROVE  WorkInv'
<1> DEFINE t == execs[e].task
<1>1. execs \in [Executions -> Execution] /\ recovered \subseteq Tasks
      /\ controllers \in [Tasks -> Executions \cup {NoExecution}]
  BY DEF LocalInv, IInv, TypeOK, LocalTypes
<1>2. /\ execs'[e].pc = "done" /\ execs'[e].task = t /\ execs'[e].outcome = o
      /\ \A f \in Executions \ {e} : execs'[f] = execs[f]
  BY <1>1 DEF Settle, Returned, Unused
<1>3. Engaged(e) /\ ~ Live(e)' /\ (Engaged(e)' => o = "requeued_steer")
  BY <1>2 DEF Engaged, Live
<1>4. \A f \in Executions \ {e} : (Engaged(f)' <=> Engaged(f)) /\ (Live(f)' <=> Live(f))
  BY <1>2 DEF Engaged, Live
<1>5. \A f \in Executions \ {e} :
        Engaged(f) => execs[f].task # t /\ tasks'[execs'[f].task] = tasks[execs[f].task]
  BY <1>2, <1>3 DEF WorkInv, OneIsEngaged, EngagedAreCalledFor
<1>6. \A f \in Executions : Live(f) => Engaged(f)
  BY DEF Engaged
<1>7. t \in Tasks /\ t \notin recovered /\ proc # "down"
  BY <1>3 DEF WorkInv, EngagedAreCalledFor
<1> HIDE DEF t
<1>8. OneIsEngaged'
  BY <1>2, <1>4, <1>5 DEF WorkInv, OneIsEngaged
<1>9. EngagedAreCalledFor'
  BY <1>2, <1>3, <1>4, <1>5, <1>7 DEF WorkInv, EngagedAreCalledFor, t
<1>10. LiveAreRegistered'
  BY <1>1, <1>2, <1>3, <1>4, <1>6 DEF WorkInv, LiveAreRegistered, EngagedAreCalledFor, Unregister
<1>11. LiveHaveNoRival' /\ StoppedAreAborted'
  BY <1>2, <1>3, <1>4, <1>5, <1>6 DEF WorkInv, LiveHaveNoRival, StoppedAreAborted
<1>12. RecoveredAreQueued'
  BY <1>1, <1>7 DEF WorkInv, RecoveredAreQueued, t
<1> QED
  BY <1>8, <1>9, <1>10, <1>11, <1>12 DEF WorkInv

\* The one execution of a task, started for it, becomes its owner.
LEMMA WorkClaims ==
  ASSUME LocalInv, WorkInv, NEW e \in Executions, Claim(e),
         UNCHANGED <<controllers, recovered, proc>>
  PROVE  WorkInv'
<1> DEFINE t == execs[e].task
<1>1. execs \in [Executions -> Execution] /\ recovered \subseteq Tasks /\ tasks \in [Tasks -> Record]
  BY DEF LocalInv, IInv, TypeOK, LocalTypes
<1>2. /\ execs[e].pc = "starting" /\ execs'[e].pc = "running" /\ execs'[e].task = t
      /\ execs'[e].outcome = execs[e].outcome /\ execs'[e].aborted = execs[e].aborted
      /\ \A f \in Executions \ {e} : execs'[f] = execs[f]
  BY <1>1 DEF Claim, Execution
<1>3. Engaged(e) /\ t \in Tasks /\ t \notin recovered /\ proc # "down"
  BY <1>2 DEF Engaged, Live, WorkInv, EngagedAreCalledFor
<1>4. /\ tasks'[t].status = "running" /\ tasks'[t].active = e
      /\ \A u \in Tasks \ {t} : tasks'[u] = tasks[u]
  BY <1>1, <1>3 DEF Claim, Claimed, Record
<1>5. \A f \in Executions : (Engaged(f)' <=> Engaged(f)) /\ (Live(f)' <=> Live(f))
  BY <1>2 DEF Engaged, Live
<1>6. \A f \in Executions \ {e} :
        Engaged(f) => execs[f].task # t /\ tasks'[execs'[f].task] = tasks[execs[f].task]
  BY <1>2, <1>3, <1>4 DEF WorkInv, OneIsEngaged, EngagedAreCalledFor
<1>7. \A f \in Executions : Live(f) => Engaged(f)
  BY DEF Engaged
<1> HIDE DEF t
<1>8. OneIsEngaged'
  BY <1>2, <1>5 DEF WorkInv, OneIsEngaged, t
<1>9. EngagedAreCalledFor'
  BY <1>2, <1>3, <1>4, <1>5, <1>6 DEF WorkInv, EngagedAreCalledFor
<1>10. LiveAreRegistered'
  BY <1>2, <1>5 DEF WorkInv, LiveAreRegistered, t
<1>11. LiveHaveNoRival' /\ StoppedAreAborted'
  BY <1>2, <1>4, <1>5, <1>6, <1>7 DEF WorkInv, LiveHaveNoRival, StoppedAreAborted
<1>12. RecoveredAreQueued'
  BY <1>1, <1>3, <1>4 DEF WorkInv, RecoveredAreQueued
<1> QED
  BY <1>8, <1>9, <1>10, <1>11, <1>12 DEF WorkInv

\* An execution that returned for a steer hands its task to another one.
LEMMA WorkIsPassedOn ==
  ASSUME LocalInv, WorkInv, NEW e \in Executions, Redispatch(e)
  PROVE  WorkInv'
<1> DEFINE t == execs[e].task
<1>1. execs \in [Executions -> Execution] /\ controllers \in [Tasks -> Executions \cup {NoExecution}]
  BY DEF LocalInv, IInv, TypeOK, LocalTypes
<1>2. /\ Engaged(e) /\ execs[e].pc = "done" /\ ~ Live(e)
      /\ UNCHANGED <<tasks, recovered, proc>>
  BY DEF Redispatch, Engaged, Live, LocalInv, ReturnsAreOver, storeVars
<1>3. t \in Tasks /\ t \notin recovered /\ proc # "down"
  BY <1>2 DEF WorkInv, EngagedAreCalledFor
<1>4. \A f \in Executions \ {e} : Engaged(f) => execs[f].task # t
  BY <1>2 DEF WorkInv, OneIsEngaged
<1>5. \A f \in Executions : Live(f) => Engaged(f)
  BY DEF Engaged
<1>6. CASE execs' = Handled(e) /\ UNCHANGED controllers
  <2>1. /\ ~ Engaged(e)'
        /\ \A f \in Executions \ {e} : execs'[f] = execs[f]
    BY <1>1, <1>2, <1>6 DEF Handled, Engaged, Live, Execution
  <2>2. \A f \in Executions \ {e} : (Engaged(f)' <=> Engaged(f)) /\ (Live(f)' <=> Live(f))
    BY <2>1 DEF Engaged, Live
  <2>3. \A f \in Executions : Live(f)' => Engaged(f)'
    BY DEF Engaged
  <2> QED
    BY <1>2, <1>6, <2>1, <2>2, <2>3
       DEF WorkInv, OneIsEngaged, EngagedAreCalledFor, LiveAreRegistered, LiveHaveNoRival,
           StoppedAreAborted, RecoveredAreQueued
<1>7. CASE tasks[t].status = "queued" /\ \E f \in Executions :
                /\ execs[f].pc = "unused"
                /\ execs' = HandledAndRestarted(e, f)
                /\ controllers' = [controllers EXCEPT ![t] = f]
  <2>1. PICK f \in Executions :
                /\ execs[f].pc = "unused"
                /\ execs' = HandledAndRestarted(e, f)
                /\ controllers' = [controllers EXCEPT ![t] = f]
    BY <1>7
  <2>2. /\ f # e /\ execs'[f].pc = "starting" /\ execs'[f].task = t /\ execs'[f].outcome = "none"
        /\ execs'[e].pc = "done" /\ execs'[e].outcome = "settled" /\ execs'[e].task = t
        /\ \A g \in Executions \ {e, f} : execs'[g] = execs[g]
    BY <1>1, <1>2, <2>1 DEF HandledAndRestarted, Unused, Execution
  <2>3. /\ Engaged(f)' /\ ~ Engaged(e)' /\ ~ Live(e)'
        /\ \A g \in Executions \ {e, f} : (Engaged(g)' <=> Engaged(g)) /\ (Live(g)' <=> Live(g))
    BY <2>2 DEF Engaged, Live
  <2>4. tasks[t].active = NoExecution
    BY <1>3, <1>7 DEF LocalInv, IInv, Strengthening, QueuedHasNoOwner
  <2> HIDE DEF t
  <2>5. OneIsEngaged'
    BY <1>4, <2>2, <2>3 DEF WorkInv, OneIsEngaged
  <2>6. EngagedAreCalledFor'
    BY <1>2, <1>3, <1>7, <2>2, <2>3 DEF WorkInv, EngagedAreCalledFor
  <2>7. LiveAreRegistered'
    BY <1>1, <1>3, <1>4, <1>5, <2>1, <2>2, <2>3
       DEF WorkInv, LiveAreRegistered, EngagedAreCalledFor
  <2>8. LiveHaveNoRival' /\ StoppedAreAborted'
    BY <1>2, <1>7, <2>2, <2>3, <2>4 DEF WorkInv, LiveHaveNoRival, StoppedAreAborted
  <2>9. RecoveredAreQueued'
    BY <1>2 DEF WorkInv, RecoveredAreQueued
  <2> QED
    BY <2>5, <2>6, <2>7, <2>8, <2>9 DEF WorkInv
<1> QED
  BY <1>6, <1>7 DEF Redispatch

\* A process that dies takes its executions along, and the next one finds none.
LEMMA WorkRestarts ==
  ASSUME LocalInv, WorkInv, ProcessDies \/ Boot
  PROVE  WorkInv'
<1>1. CASE ProcessDies
  <2>1. \A e \in Executions : ~ Engaged(e)' /\ ~ Live(e)'
    <3>1. ASSUME NEW e \in Executions
          PROVE  \/ execs'[e].pc = "done" /\ execs'[e].outcome = "none"
                 \/ execs'[e] = execs[e] /\ execs[e].pc = "unused"
      BY <1>1 DEF ProcessDies, Lose, Returned, Unused
    <3> QED
      BY <3>1 DEF Engaged, Live, LocalInv, ReturnsAreOver
  <2> QED
    BY <1>1, <2>1
       DEF ProcessDies, WorkInv, OneIsEngaged, EngagedAreCalledFor, LiveAreRegistered,
           LiveHaveNoRival, StoppedAreAborted, RecoveredAreQueued
<1>2. CASE Boot
  <2>1. \A e \in Executions : ~ Engaged(e)
    BY <1>2 DEF Boot, WorkInv, EngagedAreCalledFor
  <2>2. \A e \in Executions : ~ Engaged(e)' /\ ~ Live(e)'
    BY <1>2, <2>1 DEF Boot, Engaged, Live
  <2>3. ASSUME NEW t \in recovered'
        PROVE  tasks'[t].status = "queued"
    <3>1. t \in Tasks /\ tasks[t] \in Record /\ tasks'[t] = Recovered(tasks[t])
      BY <1>2, <2>3 DEF Boot, RecoverAll, LocalInv, IInv, TypeOK
    <3> QED
      BY <3>1 DEF Recovered, Record
  <2> QED
    BY <1>2, <2>2, <2>3
       DEF Boot, WorkInv, OneIsEngaged, EngagedAreCalledFor, LiveAreRegistered,
           LiveHaveNoRival, StoppedAreAborted, RecoveredAreQueued
<1> QED
  BY <1>1, <1>2

-----------------------------------------------------------------------------
(***************************************************************************)
(* The order of steers: a queued task takes a steer into its input at      *)
(* once, so nothing given earlier may still be pending then.  Only a       *)
(* restart leaves pending steers with a queued task, and the process       *)
(* listens when it has claimed all of those.                               *)
(***************************************************************************)
Orderly(r) ==
    /\ ~ r.choice
    /\ r.status \in Unfinished => ~ r.cancelRequested
    /\ r.status = "waiting_input" => r.pending = {}
    /\ \A p \in r.pending \cup r.merged : p <= r.steerRevision
    /\ \A p \in r.pending, m \in r.merged : m < p

RecordsAreOrderly == \A t \in Tasks : Orderly(tasks[t])

OldSteersWait ==
    \A t \in Tasks :
        tasks[t].status = "queued" /\ tasks[t].pending # {} =>
            \/ proc = "down"
            \/ /\ proc = "booting"
               /\ \/ t \in recovered
                  \/ \E e \in Executions : execs[e].pc = "starting" /\ execs[e].task = t

OneExecutionInv == LocalInv /\ WorkInv /\ RecordsAreOrderly /\ OldSteersWait

\* While the process serves, nothing is left of its boot.
LEMMA ServingIsBooted ==
  ASSUME OneExecutionInv, Serving
  PROVE  /\ recovered = {} /\ proc # "down" /\ proc # "booting"
         /\ \A t \in Tasks : tasks[t].status = "queued" => tasks[t].pending = {}
  BY DEF Serving, OneExecutionInv, WorkInv, RecoveredAreQueued, OldSteersWait

\* The updates of the executor keep a record in order.
LEMMA ExecutorKeepsOrder ==
  ASSUME NEW r \in Record, Orderly(r), NEW e \in Executions, ~ r.cancelRequested
  PROVE  /\ \A b \in BOOLEAN : r.status \in Runnable => Orderly(Claimed(r, e, b))
         /\ Orderly(Checkpointed(r, e, FALSE))
         /\ Orderly(SteersApplied(r))
         /\ \A kind \in {"completed", "needs_input"} :
                r.pending = {} => Orderly(Delivered(r, e, kind))
         /\ r.pending = {} => Orderly(RequeuedOnAbort(r))
<1> USE DEF Orderly, Record, Unfinished, Runnable
<1>1. ASSUME NEW b \in BOOLEAN PROVE Orderly(Claimed(r, e, b))
  <2>1. PICK s : s = Claimed(r, e, b)
    OBVIOUS
  <2>2. /\ s.status = "running" /\ s.choice = FALSE /\ s.pending = r.pending /\ s.merged = r.merged
        /\ s.steerRevision = r.steerRevision /\ s.cancelRequested = r.cancelRequested
    BY <2>1 DEF Claimed
  <2> QED
    BY <2>1, <2>2
<1>2. Orderly(Checkpointed(r, e, FALSE))
  BY DEF Checkpointed
<1>3. Orderly(SteersApplied(r))
  <2>1. PICK s : s = SteersApplied(r)
    OBVIOUS
  <2>2. /\ s.status = "queued" /\ s.choice = FALSE /\ s.pending = {}
        /\ s.merged = r.merged \cup r.pending
        /\ s.steerRevision = r.steerRevision /\ s.cancelRequested = r.cancelRequested
    BY <2>1 DEF SteersApplied
  <2> QED
    BY <2>1, <2>2
<1>4. ASSUME NEW kind \in {"completed", "needs_input"}, r.pending = {}
      PROVE  Orderly(Delivered(r, e, kind))
  <2>1. PICK s : s = Delivered(r, e, kind)
    OBVIOUS
  <2>2. /\ s.choice = FALSE /\ s.pending = {} /\ s.merged = r.merged
        /\ s.steerRevision = r.steerRevision /\ s.cancelRequested = r.cancelRequested
    BY <1>4, <2>1 DEF Delivered
  <2> QED
    BY <2>1, <2>2
<1>5. r.pending = {} => Orderly(RequeuedOnAbort(r))
  BY DEF RequeuedOnAbort
<1> QED
  BY <1>1, <1>2, <1>3, <1>4, <1>5

\* So do the updates of the handlers and the boot.
LEMMA ApiKeepsOrder ==
  ASSUME NEW r \in Record, Orderly(r)
  PROVE  /\ Orderly(Absent) /\ Orderly(Created)
         /\ r.status \in Runnable /\ (r.status = "queued" => r.pending = {})
                => Orderly(Steered(r))
         /\ r.status = "waiting_input" => Orderly(Answered(r))
         /\ Orderly(Interrupted(r))
         /\ r.status \in Runnable => Orderly(Recovered(r))
<1> USE DEF Orderly, Record, Unfinished, Runnable
<1>1. Orderly(Absent) /\ Orderly(Created)
  BY TaskRecordAssumption DEF Absent, Created, Fresh
<1>2. ASSUME r.status \in Runnable, r.status = "queued" => r.pending = {}
      PROVE  Orderly(Steered(r))
  <2>1. r.steerRevision \in Nat /\ \A p \in r.pending \cup r.merged : p \in Nat
    BY TaskRecordAssumption DEF Revisions
  <2>2. PICK s, v : s = Steered(r) /\ v = r.steerRevision + 1
    OBVIOUS
  <2>3. /\ s.status = r.status /\ s.choice = r.choice /\ s.cancelRequested = r.cancelRequested
        /\ s.steerRevision = v
        /\ \/ r.status = "queued" /\ s.merged = r.merged \cup {v} /\ s.pending = {}
           \/ r.status # "queued" /\ s.merged = r.merged /\ s.pending = r.pending \cup {v}
    BY <1>2, <2>2 DEF Steered
  <2>4. v \in Nat /\ r.steerRevision < v /\ \A p \in r.pending \cup r.merged : p <= v /\ p < v
    BY <2>1, <2>2
  <2>5. ~ s.choice /\ s.status \in {"queued", "running"} /\ ~ s.cancelRequested
    BY <1>2, <2>3
  <2>6. CASE s.merged = r.merged \cup {v} /\ s.pending = {}
    BY <2>2, <2>3, <2>4, <2>5, <2>6
  <2>7. CASE s.merged = r.merged /\ s.pending = r.pending \cup {v}
    BY <2>2, <2>3, <2>4, <2>5, <2>7
  <2> QED
    BY <2>3, <2>6, <2>7
<1>3. r.status = "waiting_input" => Orderly(Answered(r))
  BY DEF Answered
<1>4. Orderly(Interrupted(r))
  BY DEF Interrupted
<1>5. r.status \in Runnable => Orderly(Recovered(r))
  BY DEF Recovered
<1> QED
  BY <1>1, <1>2, <1>3, <1>4, <1>5

\* One record changes, and stays in order.
LEMMA OrderlyPut ==
  ASSUME OneExecutionInv, NEW t \in Tasks, NEW r, Orderly(r),
         tasks' = [tasks EXCEPT ![t] = r]
  PROVE  /\ RecordsAreOrderly'
         /\ tasks'[t] = r
         /\ \A u \in Tasks \ {t} : tasks'[u] = tasks[u]
  BY DEF OneExecutionInv, LocalInv, IInv, TypeOK, RecordsAreOrderly

WorkIsKept == WorkInv' /\ RecordsAreOrderly' /\ OldSteersWait'

\* A handler starts a task nobody works for: a new one, or one that was answered.
LEMMA ApiStartKeeps ==
  ASSUME OneExecutionInv, Serving, NEW t \in Tasks,
         tasks[t].status \in {"absent", "waiting_input"}, RecordsAreOrderly',
         tasks'[t].status = "queued", tasks'[t].active = NoExecution, tasks'[t].pending = {},
         \A u \in Tasks \ {t} : tasks'[u] = tasks[u],
         ExecuteLocally(t), UNCHANGED <<proc, recovered>>
  PROVE  WorkIsKept
<1>1. recovered = {} /\ proc # "down"
  BY ServingIsBooted
<1>2. \A f \in Executions : Engaged(f) => execs[f].task # t
  BY DEF OneExecutionInv, WorkInv, EngagedAreCalledFor
<1>3. PICK e \in Executions :
        Spawn(e, t, FALSE) /\ controllers' = [controllers EXCEPT ![t] = e]
  BY DEF ExecuteLocally
<1>4. recovered' = recovered \ {t}
  BY <1>1
<1>5. WorkInv'
  BY <1>1, <1>2, <1>3, <1>4, WorkStarts DEF OneExecutionInv
<1>6. OldSteersWait'
  BY <1>1, ServingIsBooted DEF OldSteersWait
<1> QED
  BY <1>5, <1>6 DEF WorkIsKept

LEMMA ApiKeepsWork ==
  ASSUME OneExecutionInv, LocalApi
  PROVE  WorkIsKept
<1>1. Serving /\ UNCHANGED <<proc, recovered>>
  BY DEF LocalApi
<1>2. ASSUME NEW t \in Tasks, tasks[t].status = "absent",
             tasks' = [tasks EXCEPT ![t] = Created], ExecuteLocally(t)
      PROVE  WorkIsKept
  <2>1. tasks[t] \in Record /\ Orderly(tasks[t])
    BY DEF OneExecutionInv, LocalInv, IInv, TypeOK, RecordsAreOrderly
  <2>2. Orderly(Created)
    BY <2>1, ApiKeepsOrder
  <2>3. Created.status = "queued" /\ Created.active = NoExecution /\ Created.pending = {}
    BY DEF Created, Fresh
  <2>4. /\ RecordsAreOrderly' /\ tasks'[t] = Created
        /\ \A u \in Tasks \ {t} : tasks'[u] = tasks[u]
    BY <1>2, <2>2, OrderlyPut
  <2> QED
    BY <1>1, <1>2, <2>3, <2>4, ApiStartKeeps
<1>3. ASSUME NEW i \in DOMAIN turns, Answer(i), ExecuteLocally(turns[i])
      PROVE  WorkIsKept
  <2>1. turns[i] \in Tasks /\ tasks[turns[i]] \in Record /\ Orderly(tasks[turns[i]])
    BY DEF OneExecutionInv, LocalInv, IInv, TypeOK, RecordsAreOrderly
  <2>2. tasks[turns[i]].status = "waiting_input" /\ tasks[turns[i]].pending = {}
    BY <1>3, <2>1 DEF Answer, Answerable, Orderly
  <2>3. Orderly(Answered(tasks[turns[i]]))
    BY <2>1, <2>2, ApiKeepsOrder
  <2>4. PICK r : r = Answered(tasks[turns[i]])
    OBVIOUS
  <2>5. r.status = "queued" /\ r.active = NoExecution /\ r.pending = {}
    BY <2>1, <2>2, <2>4 DEF Answered, Record
  <2>6. tasks' = [tasks EXCEPT ![turns[i]] = r]
    BY <1>3, <2>4 DEF Answer
  <2>7. /\ RecordsAreOrderly' /\ tasks'[turns[i]] = r
        /\ \A u \in Tasks \ {turns[i]} : tasks'[u] = tasks[u]
    BY <2>1, <2>3, <2>4, <2>6, OrderlyPut
  <2> QED
    BY <1>1, <1>3, <2>1, <2>2, <2>5, <2>7, ApiStartKeeps
<1>4. ASSUME NEW i \in DOMAIN turns, Steer(i), UNCHANGED <<execs, controllers>>
      PROVE  WorkIsKept
  <2>1. turns[i] \in Tasks /\ tasks[turns[i]] \in Record /\ Orderly(tasks[turns[i]])
    BY DEF OneExecutionInv, LocalInv, IInv, TypeOK, RecordsAreOrderly
  <2>2. /\ tasks[turns[i]].status \in Runnable
        /\ tasks[turns[i]].status = "queued" => tasks[turns[i]].pending = {}
    BY <1>1, <1>4, <2>1, ServingIsBooted DEF Steer
  <2>3. PICK r : r = Steered(tasks[turns[i]])
    OBVIOUS
  <2>4. Orderly(r)
    BY <2>1, <2>2, <2>3, ApiKeepsOrder
  <2>5. /\ r.status = tasks[turns[i]].status /\ r.active = tasks[turns[i]].active
        /\ r.status = "queued" => r.pending = {}
    BY <2>1, <2>2, <2>3 DEF Steered, Record
  <2>6. tasks' = [tasks EXCEPT ![turns[i]] = r]
    BY <1>4, <2>3 DEF Steer
  <2>7. /\ RecordsAreOrderly' /\ tasks'[turns[i]] = r
        /\ \A u \in Tasks \ {turns[i]} : tasks'[u] = tasks[u]
    BY <2>1, <2>4, <2>6, OrderlyPut
  <2>8. proc # "down" /\ \A t \in Tasks : tasks[t].status = "queued" => tasks[t].pending = {}
    BY <1>1, ServingIsBooted
  <2>9. \A t \in Tasks :
            tasks'[t].status = tasks[t].status /\ tasks'[t].active = tasks[t].active
    BY <2>5, <2>7
  <2>10. \A e \in Executions :
            /\ execs'[e].pc = execs[e].pc
            /\ execs'[e].task = execs[e].task
            /\ execs'[e].outcome = execs[e].outcome
            /\ execs[e].aborted => execs'[e].aborted
    BY <1>4
  <2>11. proc' = proc /\ recovered' = recovered /\ controllers' = controllers
    BY <1>1, <1>4
  <2>12. WorkInv'
    BY <2>8, <2>9, <2>10, <2>11, WorkGoesOn DEF OneExecutionInv
  <2>13. OldSteersWait'
    BY <2>5, <2>7, <2>8 DEF OldSteersWait
  <2> QED
    BY <2>7, <2>12, <2>13 DEF WorkIsKept
<1> QED
  BY <1>2, <1>3, <1>4 DEF LocalApi, StartTurn, Retry, Regenerate

\* Stopping a task: the registry knows the one execution at work, and nobody else
\* owns the task.
LEMMA InterruptKeeps ==
  ASSUME OneExecutionInv, NEW t \in Tasks, LocalInterrupt(t)
  PROVE  WorkIsKept
<1>1. /\ Serving /\ UNCHANGED <<proc, recovered, controllers>> /\ Abort(InterruptTargets(t))
      /\ tasks' = [tasks EXCEPT ![t] = Interrupted(tasks[t])]
  BY DEF LocalInterrupt, Interrupt, localVars
<1>2. recovered = {} /\ proc # "down"
      /\ \A u \in Tasks : tasks[u].status = "queued" => tasks[u].pending = {}
  BY <1>1, ServingIsBooted
<1>3. tasks[t] \in Record /\ Orderly(tasks[t]) /\ execs \in [Executions -> Execution]
  BY DEF OneExecutionInv, LocalInv, IInv, TypeOK, RecordsAreOrderly
<1>4. PICK r : r = Interrupted(tasks[t])
  OBVIOUS
<1>5. Orderly(r)
  BY <1>3, <1>4, ApiKeepsOrder
<1>6. r.status = "cancelled" /\ r.active = tasks[t].active
  BY <1>3, <1>4 DEF Interrupted, Record
<1>7. /\ RecordsAreOrderly' /\ tasks'[t] = r
      /\ \A u \in Tasks \ {t} : tasks'[u] = tasks[u]
  BY <1>1, <1>4, <1>5, OrderlyPut
<1>8. \A e \in Executions :
        /\ execs'[e].pc = execs[e].pc
        /\ execs'[e].task = execs[e].task
        /\ execs'[e].outcome = execs[e].outcome
        /\ execs[e].aborted => execs'[e].aborted
        /\ Live(e) /\ e \in InterruptTargets(t) => execs'[e].aborted
  BY <1>1, <1>3 DEF Abort, Execution
<1>9. \A e \in Executions : Live(e) /\ execs[e].task = t => e \in InterruptTargets(t)
  BY DEF OneExecutionInv, WorkInv, LiveAreRegistered, LiveHaveNoRival, InterruptTargets
<1>10. WorkInv'
  BY <1>1, <1>2, <1>6, <1>7, <1>8, <1>9, WorkGoesOn DEF OneExecutionInv
<1>11. OldSteersWait'
  BY <1>2, <1>6, <1>7 DEF OldSteersWait
<1> QED
  BY <1>7, <1>10, <1>11 DEF WorkIsKept

\* A step of one execution leaves the steers of the other tasks where they are.
LEMMA OldSteersKept ==
  ASSUME OneExecutionInv, NEW e \in Executions, UNCHANGED <<proc, recovered>>,
         \A f \in Executions \ {e} : execs'[f] = execs[f],
         \A u \in Tasks \ {execs[e].task} : tasks'[u] = tasks[u],
         \/ tasks'[execs[e].task].status # "queued"
         \/ tasks'[execs[e].task].pending = {}
         \/ execs[e].pc # "starting" /\ tasks'[execs[e].task] = tasks[execs[e].task]
  PROVE  OldSteersWait'
<1> SUFFICES ASSUME NEW u \in Tasks, tasks'[u].status = "queued", tasks'[u].pending # {}
             PROVE  \/ proc' = "down"
                    \/ /\ proc' = "booting"
                       /\ \/ u \in recovered'
                          \/ \E f \in Executions : execs'[f].pc = "starting" /\ execs'[f].task = u
  BY DEF OldSteersWait
<1>1. tasks'[u] = tasks[u] /\ (u = execs[e].task => execs[e].pc # "starting")
  OBVIOUS
<1>2. \A f \in Executions : execs[f].pc = "starting" /\ execs[f].task = u => f # e
  BY <1>1
<1> QED
  BY <1>1, <1>2 DEF OneExecutionInv, OldSteersWait

\* An execution is over: the registry drops it, and the record it wrote is in order.
LEMMA EndKeeps ==
  ASSUME OneExecutionInv, NEW e \in Executions, NEW o \in Outcomes, Live(e),
         Settle(e, o), Unregister(e), UNCHANGED <<proc, recovered>>, RecordsAreOrderly',
         \A u \in Tasks \ {execs[e].task} : tasks'[u] = tasks[u],
         o = "requeued_steer" => tasks'[execs[e].task].status = "queued",
         \/ tasks'[execs[e].task].status # "queued"
         \/ tasks'[execs[e].task].pending = {}
         \/ execs[e].pc # "starting" /\ tasks'[execs[e].task] = tasks[execs[e].task]
  PROVE  WorkIsKept
<1>1. WorkInv'
  BY WorkEnds DEF OneExecutionInv
<1>2. \A f \in Executions \ {e} : execs'[f] = execs[f]
  BY DEF Settle, OneExecutionInv, LocalInv, IInv, TypeOK
<1>3. OldSteersWait'
  BY <1>2, OldSteersKept
<1> QED
  BY <1>1, <1>3 DEF WorkIsKept

\* What becomes of an execution that is over.
LEMMA Ended ==
  ASSUME execs \in [Executions -> Execution], NEW e \in Executions, NEW o, Settle(e, o)
  PROVE  execs'[e].pc = "done"
  BY DEF Settle, Returned, Unused

\* An execution that gives up without a word, or with its task's result or requeue.
LEMMA ExecutionKeepsWork ==
  ASSUME OneExecutionInv, ~ ChoiceBlocks, NEW e \in Executions, LocalExecution(e)
  PROVE  WorkIsKept
<1> DEFINE t == execs[e].task
<1>1. /\ execs \in [Executions -> Execution] /\ tasks \in [Tasks -> Record]
      /\ RecordsAreOrderly /\ ExecutionsHaveTasks /\ UNCHANGED <<proc, recovered>>
  BY DEF OneExecutionInv, LocalInv, IInv, TypeOK, Strengthening, LocalExecution
<1>2. execs[e].pc \in {"starting", "running"} =>
        t \in Tasks /\ tasks[t] \in Record /\ Orderly(tasks[t]) /\ Live(e)
  BY <1>1 DEF ExecutionsHaveTasks, RecordsAreOrderly, Live
<1>3. \A o \in Outcomes : Settle(e, o) => Unregister(e)
  BY <1>1, Ended DEF LocalExecution
<1>4. UNCHANGED tasks => RecordsAreOrderly'
  BY <1>1 DEF RecordsAreOrderly
<1>5. CASE Claim(e)
  <2>1. execs[e].pc = "starting" /\ Claimable(tasks[t], execs[e].takeover)
    BY <1>5 DEF Claim
  <2>2. PICK r : r = Claimed(tasks[t], e, execs[e].takeover)
    OBVIOUS
  <2>3. tasks' = [tasks EXCEPT ![t] = r] /\ execs'[e].pc = "running"
        /\ \A f \in Executions \ {e} : execs'[f] = execs[f]
    BY <1>1, <1>5, <2>2 DEF Claim
  <2>4. Orderly(r) /\ r.status = "running"
    <3>1. execs[e].takeover \in BOOLEAN
      BY <1>1 DEF Execution
    <3> QED
      BY <1>2, <2>1, <2>2, <3>1, ExecutorKeepsOrder DEF Claimable, Claimed, Record, Runnable
  <2>5. /\ RecordsAreOrderly' /\ tasks'[t] = r
        /\ \A u \in Tasks \ {t} : tasks'[u] = tasks[u]
    BY <1>2, <2>1, <2>3, <2>4, OrderlyPut
  <2>6. UNCHANGED controllers
    BY <2>3 DEF LocalExecution
  <2>7. WorkInv'
    BY <1>1, <1>5, <2>6, WorkClaims DEF OneExecutionInv
  <2>8. OldSteersWait'
    BY <1>1, <2>3, <2>4, <2>5, OldSteersKept
  <2> QED
    BY <2>5, <2>7, <2>8 DEF WorkIsKept
<1>6. CASE Skip(e)
  <2>1. execs[e].pc = "starting" /\ Settle(e, "settled") /\ UNCHANGED tasks
        /\ ~ Claimable(tasks[t], execs[e].takeover)
    BY <1>6 DEF Skip, storeVars
  <2>2. tasks[t].status # "queued"
    BY <1>2, <2>1 DEF Claimable, Orderly, Unfinished, Runnable
  <2> QED
    BY <1>1, <1>2, <1>3, <1>4, <2>1, <2>2, EndKeeps DEF Outcomes
<1>7. CASE FinishCancelled(e) \/ FinishSuperseded(e) \/ FailUnrecorded(e)
  <2>1. PICK o \in {"settled", "failed"} : Settle(e, o)
    BY <1>7 DEF FinishCancelled, FinishSuperseded, FailUnrecorded
  <2>2. execs[e].pc = "running" /\ UNCHANGED tasks
    BY <1>7 DEF FinishCancelled, FinishSuperseded, FailUnrecorded, storeVars
  <2> QED
    BY <1>1, <1>2, <1>3, <1>4, <2>1, <2>2, EndKeeps DEF Outcomes
<1>8. ASSUME NEW choice \in BOOLEAN, Checkpoint(e, choice)
      PROVE  WorkIsKept
  <2>1. /\ execs[e].pc = "running" /\ ~ choice /\ UNCHANGED execs
        /\ tasks[t].status = "running" /\ ~ tasks[t].cancelRequested
    BY <1>8 DEF Checkpoint, Writable
  <2>2. PICK r : r = Checkpointed(tasks[t], e, FALSE)
    OBVIOUS
  <2>3. tasks' = [tasks EXCEPT ![t] = r]
    BY <1>8, <2>1, <2>2 DEF Checkpoint
  <2>4. Orderly(r) /\ r.status = "running" /\ r.active = tasks[t].active
    BY <1>2, <2>1, <2>2, ExecutorKeepsOrder DEF Checkpointed, Record
  <2>5. /\ RecordsAreOrderly' /\ tasks'[t] = r
        /\ \A u \in Tasks \ {t} : tasks'[u] = tasks[u]
    BY <1>2, <2>1, <2>3, <2>4, OrderlyPut
  <2>6. controllers' = controllers
    BY <2>1 DEF LocalExecution
  <2>7. \A u \in Tasks : tasks'[u].status = tasks[u].status /\ tasks'[u].active = tasks[u].active
    BY <2>1, <2>4, <2>5
  <2>8. proc # "down"
    BY <2>1 DEF OneExecutionInv, WorkInv, EngagedAreCalledFor, Engaged, Live
  <2>9. WorkInv'
    BY <1>1, <2>1, <2>6, <2>7, <2>8, WorkGoesOn DEF OneExecutionInv
  <2>10. OldSteersWait'
    BY <1>1, <2>1, <2>4, <2>5, OldSteersKept
  <2> QED
    BY <2>5, <2>9, <2>10 DEF WorkIsKept
<1>9. ASSUME execs[e].pc = "running", NEW r, NEW o \in Outcomes, Orderly(r), Settle(e, o),
             tasks' = [tasks EXCEPT ![t] = r],
             o = "requeued_steer" => r.status = "queued", r.pending = {}
      PROVE  WorkIsKept
  <2>1. /\ RecordsAreOrderly' /\ tasks'[t] = r
        /\ \A u \in Tasks \ {t} : tasks'[u] = tasks[u]
    BY <1>2, <1>9, OrderlyPut
  <2> QED
    BY <1>1, <1>2, <1>3, <1>9, <2>1, EndKeeps
<1>10. CASE FinishForSteer(e)
  <2>1. PICK r : r = SteersApplied(tasks[t])
    OBVIOUS
  <2>2. execs[e].pc = "running" /\ ~ tasks[t].cancelRequested
    BY <1>10 DEF FinishForSteer, MayFinish
  <2>3. Orderly(r) /\ r.status = "queued" /\ r.pending = {}
    BY <1>2, <2>1, <2>2, ExecutorKeepsOrder DEF SteersApplied, Record
  <2>4. tasks' = [tasks EXCEPT ![t] = r] /\ Settle(e, "requeued_steer")
    BY <1>10, <2>1 DEF FinishForSteer
  <2> QED
    BY <1>9, <2>2, <2>3, <2>4 DEF Outcomes
<1>11. ASSUME NEW kind \in {"completed", "needs_input"}, Deliver(e, kind)
       PROVE  WorkIsKept
  <2>1. PICK r : r = Delivered(tasks[t], e, kind)
    OBVIOUS
  <2>2. /\ execs[e].pc = "running" /\ ~ tasks[t].cancelRequested
        /\ tasks[t].pending = {}
    BY <1>11 DEF Deliver, MayFinish
  <2>3. Orderly(r) /\ r.pending = {}
    BY <1>2, <2>1, <2>2, ExecutorKeepsOrder DEF Delivered, Record
  <2>4. tasks' = [tasks EXCEPT ![t] = r] /\ Settle(e, "settled")
    BY <1>11, <2>1 DEF Deliver
  <2> QED
    BY <1>9, <2>2, <2>3, <2>4 DEF Outcomes
<1>12. CASE RequeueAfterAbort(e)
  <2>1. PICK r : r = RequeuedOnAbort(tasks[t])
    OBVIOUS
  <2>2. /\ execs[e].aborted /\ execs[e].pc = "running" /\ ~ tasks[t].cancelRequested
        /\ tasks[t].pending = {}
    BY <1>12 DEF RequeueAfterAbort
  <2>3. Orderly(r) /\ r.pending = {}
    BY <1>2, <2>1, <2>2, ExecutorKeepsOrder DEF RequeuedOnAbort, Record
  <2>4. tasks' = [tasks EXCEPT ![t] = r] /\ Settle(e, "requeued_worker")
    BY <1>12, <2>1 DEF RequeueAfterAbort
  <2> QED
    BY <1>9, <2>2, <2>3, <2>4 DEF Outcomes
<1> QED
  BY <1>5, <1>6, <1>7, <1>8, <1>10, <1>11, <1>12 DEF LocalExecution, ExecutionStep

\* The boot starts what it put back; a return is dealt with.
LEMMA RestartKeeps ==
  ASSUME OneExecutionInv,
         \/ \E t \in Tasks : StartRecovered(t)
         \/ \E e \in Executions : Redispatch(e)
         \/ ProcessDies \/ Boot
  PROVE  WorkIsKept
<1>1. ASSUME NEW t \in Tasks, StartRecovered(t)
      PROVE  WorkIsKept
  <2>1. /\ UNCHANGED <<tasks, proc>> /\ t \in recovered /\ proc # "down"
        /\ recovered' = recovered \ {t}
    BY <1>1 DEF StartRecovered, storeVars
  <2>2. PICK e \in Executions :
            Spawn(e, t, FALSE) /\ controllers' = [controllers EXCEPT ![t] = e]
    BY <1>1 DEF StartRecovered, ExecuteLocally
  <2>3. /\ tasks'[t].status = "queued" /\ tasks'[t].active = NoExecution
        /\ \A f \in Executions : Engaged(f) => execs[f].task # t
    BY <2>1 DEF OneExecutionInv, LocalInv, IInv, Strengthening, QueuedHasNoOwner, WorkInv,
                RecoveredAreQueued, EngagedAreCalledFor
  <2>4. WorkInv'
    BY <2>1, <2>2, <2>3, WorkStarts DEF OneExecutionInv
  <2>5. /\ execs[e].pc = "unused" /\ execs'[e].pc = "starting" /\ execs'[e].task = t
        /\ \A f \in Executions \ {e} : execs'[f] = execs[f]
    BY <2>2 DEF OneExecutionInv, LocalInv, IInv, TypeOK, Spawn, Unused
  <2>6. RecordsAreOrderly' /\ OldSteersWait'
    BY <2>1, <2>5 DEF OneExecutionInv, RecordsAreOrderly, OldSteersWait
  <2> QED
    BY <2>4, <2>6 DEF WorkIsKept
<1>2. ASSUME NEW e \in Executions, Redispatch(e)
      PROVE  WorkIsKept
  <2>1. UNCHANGED <<tasks, recovered, proc>> /\ execs[e].pc = "done"
    BY <1>2 DEF Redispatch, storeVars, OneExecutionInv, LocalInv, ReturnsAreOver
  <2>2. \A f \in Executions : execs[f].pc = "starting" => execs'[f] = execs[f]
    BY <1>2, <2>1
       DEF Redispatch, Handled, HandledAndRestarted, OneExecutionInv, LocalInv, IInv, TypeOK
  <2>3. WorkInv'
    BY <1>2, WorkIsPassedOn DEF OneExecutionInv
  <2>4. RecordsAreOrderly' /\ OldSteersWait'
    BY <2>1, <2>2 DEF OneExecutionInv, RecordsAreOrderly, OldSteersWait
  <2> QED
    BY <2>3, <2>4 DEF WorkIsKept
<1>3. CASE ProcessDies
  <2>1. WorkInv'
    BY <1>3, WorkRestarts DEF OneExecutionInv
  <2>2. UNCHANGED tasks /\ proc' = "down"
    BY <1>3 DEF ProcessDies, storeVars
  <2>3. RecordsAreOrderly' /\ OldSteersWait'
    BY <2>2 DEF OneExecutionInv, RecordsAreOrderly, OldSteersWait
  <2> QED
    BY <2>1, <2>3 DEF WorkIsKept
<1>4. CASE Boot
  <2>1. WorkInv'
    BY <1>4, WorkRestarts DEF OneExecutionInv
  <2>2. ASSUME NEW t \in Tasks
        PROVE  Orderly(tasks'[t]) /\ (tasks'[t].status = "queued" => t \in recovered')
    <3>1. tasks[t] \in Record /\ Orderly(tasks[t])
      BY DEF OneExecutionInv, LocalInv, IInv, TypeOK, RecordsAreOrderly
    <3>2. tasks'[t] = IF tasks[t].status \in Runnable THEN Recovered(tasks[t]) ELSE tasks[t]
      BY <1>4 DEF Boot, RecoverAll
    <3>3. Orderly(tasks'[t])
      BY <3>1, <3>2, ApiKeepsOrder
    <3> QED
      BY <1>4, <3>2, <3>3 DEF Boot, Runnable
  <2>3. proc' = "booting"
    BY <1>4 DEF Boot
  <2>4. RecordsAreOrderly' /\ OldSteersWait'
    BY <2>2, <2>3 DEF RecordsAreOrderly, OldSteersWait
  <2> QED
    BY <2>1, <2>4 DEF WorkIsKept
<1> QED
  BY <1>1, <1>2, <1>3, <1>4

\* The process stops listening, or begins to: no pending steer is left with a queued
\* task then.
LEMMA ListeningKeeps ==
  ASSUME OneExecutionInv, Shutdown \/ Listen \/ UNCHANGED allVars
  PROVE  WorkIsKept
<1>1. UNCHANGED <<tasks, controllers, recovered>>
  BY DEF Shutdown, Listen, vars, storeVars, allVars, localVars
<1>2. \A t \in Tasks : tasks'[t].status = tasks[t].status /\ tasks'[t].active = tasks[t].active
  BY <1>1
<1>3. RecordsAreOrderly'
  BY <1>1 DEF OneExecutionInv, RecordsAreOrderly
<1>4. CASE Shutdown
  <2>1. Abort({controllers[t] : t \in Tasks}) /\ proc = "up" /\ proc' = "stopping"
    BY <1>4 DEF Shutdown
  <2>2. \A e \in Executions :
            /\ execs'[e].pc = execs[e].pc /\ execs'[e].task = execs[e].task
            /\ execs'[e].outcome = execs[e].outcome
            /\ execs[e].aborted => execs'[e].aborted
    <3>1. execs \in [Executions -> Execution]
      BY DEF OneExecutionInv, LocalInv, IInv, TypeOK
    <3> QED
      BY <2>1, <3>1 DEF Abort, Execution
  <2>3. /\ recovered = {}
        /\ \A t \in Tasks : tasks[t].status = "queued" => tasks[t].pending = {}
    BY <2>1, ServingIsBooted DEF Serving
  <2>4. WorkInv'
    BY <1>1, <1>2, <2>1, <2>2, <2>3, WorkGoesOn DEF OneExecutionInv
  <2>5. OldSteersWait'
    BY <1>1, <2>3 DEF OldSteersWait
  <2> QED
    BY <1>3, <2>4, <2>5 DEF WorkIsKept
<1>5. CASE Listen
  <2>1. /\ proc = "booting" /\ proc' = "up" /\ recovered = {} /\ UNCHANGED execs
        /\ \A e \in Executions : execs[e].pc # "starting"
    BY <1>5 DEF Listen, vars
  <2>2. WorkInv'
    BY <1>1, <1>2, <2>1, WorkGoesOn DEF OneExecutionInv
  <2>3. OldSteersWait'
    BY <1>1, <2>1 DEF OneExecutionInv, OldSteersWait
  <2> QED
    BY <1>3, <2>2, <2>3 DEF WorkIsKept
<1>6. CASE UNCHANGED allVars
  <2>1. UNCHANGED <<execs, proc>>
    BY <1>6 DEF allVars, vars, localVars
  <2>2. WorkInv'
    BY <1>1, <2>1
       DEF OneExecutionInv, WorkInv, OneIsEngaged, EngagedAreCalledFor, LiveAreRegistered,
           LiveHaveNoRival, StoppedAreAborted, RecoveredAreQueued, Engaged, Live
  <2>3. OldSteersWait'
    BY <1>1, <2>1 DEF OneExecutionInv, OldSteersWait
  <2> QED
    BY <1>3, <2>2, <2>3 DEF WorkIsKept
<1> QED
  BY <1>4, <1>5, <1>6

LEMMA OneExecutionInit == LocalInit => OneExecutionInv
<1> SUFFICES ASSUME LocalInit PROVE OneExecutionInv
  OBVIOUS
<1>1. LocalInv
  BY LocalInitInv
<1>2. \A e \in Executions : ~ Engaged(e) /\ ~ Live(e)
  BY DEF LocalInit, Init, Unused, Engaged, Live
<1>3. WorkInv
  BY <1>2 DEF LocalInit, WorkInv, OneIsEngaged, EngagedAreCalledFor, LiveAreRegistered,
              LiveHaveNoRival, StoppedAreAborted, RecoveredAreQueued
<1>4. Orderly(Absent) /\ Absent.status = "absent"
  BY TaskRecordAssumption DEF Absent, Fresh, Orderly, Unfinished, Runnable
<1>5. RecordsAreOrderly /\ OldSteersWait
  BY <1>4 DEF LocalInit, Init, RecordsAreOrderly, OldSteersWait
<1> QED
  BY <1>1, <1>3, <1>5 DEF OneExecutionInv

LEMMA OneExecutionNext ==
  ASSUME ~ ChoiceBlocks
  PROVE  OneExecutionInv /\ [LocalNext]_allVars => OneExecutionInv'
<1> SUFFICES ASSUME OneExecutionInv, [LocalNext]_allVars PROVE OneExecutionInv'
  OBVIOUS
<1>1. LocalInv'
  BY LocalNextInv DEF OneExecutionInv
<1>2. WorkIsKept
  BY ApiKeepsWork, InterruptKeeps, ExecutionKeepsWork, RestartKeeps, ListeningKeeps DEF LocalNext
<1> QED
  BY <1>1, <1>2 DEF OneExecutionInv, WorkIsKept

-----------------------------------------------------------------------------
(***************************************************************************)
(* With choice blocks, a task may be worked for by several executions: the *)
(* one whose choice was answered before it ended, and the one the answer   *)
(* started.  What is invariant then is said task by task.                  *)
(***************************************************************************)

\* Going to claim the task, or about to be started again for it.
Queues(e, t) ==
    /\ execs[e].task = t
    /\ execs[e].pc = "starting" \/ execs[e].outcome = "requeued_steer"

\* At work for the task, and its owner.
Writes(e, t) ==
    /\ execs[e].task = t /\ execs[e].pc = "running"
    /\ ExecutionMatches(tasks[t], e, execs[e].gen)

\* Only a running task, or one that was stopped, has an owner.
RecordInOrder(t) ==
    /\ tasks[t].status \in Unfinished => ~ tasks[t].cancelRequested
    /\ tasks[t].active # NoExecution => tasks[t].status = "running" \/ tasks[t].cancelRequested

RegistryInOrder(t) ==
    controllers[t] # NoExecution =>
        execs[controllers[t]].task = t /\ execs[controllers[t]].pc # "unused"

BootInOrder(t) ==
    /\ t \in recovered => proc = "booting" /\ tasks[t].status = "queued"
    /\ proc = "down" =>
        \A e \in Executions : execs[e].task = t => ~ Live(e) /\ ~ Queues(e, t)

\* At most one execution is on its way to the task ...
OneQueues(t) == \A e, f \in Executions : Queues(e, t) /\ Queues(f, t) => e = f

\* ... which is queued, or stopped, and whose text holds no choice to answer ...
QueuesInOrder(t) ==
    \A e \in Executions : Queues(e, t) =>
        /\ t \notin recovered
        /\ tasks[t].status = "queued" \/ (proc = "up" /\ tasks[t].status = "cancelled")
        /\ ~ tasks[t].choice \/ (proc = "booting" /\ execs[e].pc = "starting")
        /\ execs[e].pc = "starting" =>
              controllers[t] = e /\ (execs[e].aborted <=> tasks[t].status = "cancelled")

\* ... and one is, as long as the task is queued.
QueuedHasOne(t) ==
    tasks[t].status = "queued" => t \in recovered \/ \E e \in Executions : Queues(e, t)

\* The owner at work is the registered one, and aborted when the task is stopped.
WritesInOrder(t) ==
    \A e \in Executions : Writes(e, t) =>
        controllers[t] = e /\ (execs[e].aborted <=> tasks[t].status = "cancelled")

\* (A failure of the model ends it without a trace.)
RunningHasOne(t) ==
    tasks[t].status = "running" => ModelFailures \/ \E e \in Executions : Writes(e, t)

Attended(t) ==
    /\ OneQueues(t)
    /\ QueuesInOrder(t)
    /\ QueuedHasOne(t)
    /\ WritesInOrder(t)
    /\ RunningHasOne(t)

Cared(t) ==
    /\ RecordInOrder(t)
    /\ RegistryInOrder(t)
    /\ BootInOrder(t)
    /\ proc \in {"booting", "up"} => Attended(t)

CareInv == LocalInv /\ \A t \in Tasks : Cared(t)

\* An execution on its way to a task was started.
LEMMA QueuesStarted ==
  ASSUME LocalInv, NEW e \in Executions, NEW t, Queues(e, t)
  PROVE  /\ execs[e].pc \in {"starting", "done"}
         /\ execs[e].pc = "done" <=> execs[e].outcome = "requeued_steer"
  BY DEF LocalInv, ReturnsAreOver, Queues

\* A task that a step does not touch is cared for as before.
LEMMA CareOther ==
  ASSUME LocalInv, NEW t \in Tasks, Cared(t), tasks'[t] = tasks[t],
         controllers'[t] = controllers[t], t \in recovered' <=> t \in recovered, proc' = proc,
         \A e \in Executions :
            \/ execs'[e] = execs[e]
            \/ /\ execs'[e].task # t
               /\ execs[e].task # t \/ execs[e].pc = "unused"
  PROVE  Cared(t)'
<1>1. \A e \in Executions : /\ Queues(e, t)' <=> Queues(e, t)
                            /\ Writes(e, t)' <=> Writes(e, t)
                            /\ Queues(e, t) \/ Writes(e, t) => execs'[e] = execs[e]
                            /\ execs'[e].task = t => execs'[e] = execs[e]
  BY QueuesStarted DEF Queues, Writes
<1>2. RecordInOrder(t)' 
  BY DEF Cared, RecordInOrder
<1>3. RegistryInOrder(t)'
  BY DEF Cared, RegistryInOrder, LocalInv, LocalTypes
<1>4. BootInOrder(t)'
  BY <1>1 DEF Cared, BootInOrder, Live
<1>5. Attended(t) => Attended(t)'
  BY <1>1 DEF Attended, OneQueues, QueuesInOrder, QueuedHasOne, WritesInOrder, RunningHasOne
<1> QED
  BY <1>2, <1>3, <1>4, <1>5 DEF Cared

\* A queued task no execution is on its way to is given one.
LEMMA CareStarts ==
  ASSUME CareInv, NEW t \in Tasks, NEW e \in Executions, Spawn(e, t, FALSE),
         controllers' = [controllers EXCEPT ![t] = e], recovered' = recovered \ {t},
         proc' = proc, proc # "down",
         proc \in {"booting", "up"} => \A f \in Executions : ~ Queues(f, t),
         tasks'[t].status = "queued", ~ tasks'[t].cancelRequested,
         tasks'[t].active = NoExecution, ~ tasks'[t].choice \/ proc = "booting",
         \A u \in Tasks \ {t} : tasks'[u] = tasks[u]
  PROVE  \A u \in Tasks : Cared(u)'
<1>1. execs \in [Executions -> Execution] /\ recovered \subseteq Tasks
      /\ controllers \in [Tasks -> Executions \cup {NoExecution}] /\ NoExecution \notin Executions
  BY TaskRecordAssumption DEF CareInv, LocalInv, IInv, TypeOK, LocalTypes
<1>2. /\ execs[e].pc = "unused" /\ execs'[e].pc = "starting" /\ execs'[e].task = t
      /\ execs'[e].outcome = "none" /\ ~ execs'[e].aborted
      /\ \A f \in Executions \ {e} : execs'[f] = execs[f]
  BY <1>1 DEF Spawn, Unused
<1>3. ASSUME NEW u \in Tasks \ {t} PROVE Cared(u)'
  <2>1. controllers'[u] = controllers[u] /\ tasks'[u] = tasks[u] /\ (u \in recovered' <=> u \in recovered)
    BY <1>1
  <2> QED
    BY <1>2, <2>1, CareOther DEF CareInv
<1>4. RecordInOrder(t)' /\ RegistryInOrder(t)' /\ BootInOrder(t)'
  BY <1>1, <1>2 DEF RecordInOrder, RegistryInOrder, BootInOrder
<1>5. CASE proc \in {"booting", "up"}
  <2>1. \A f \in Executions : /\ Queues(f, t)' <=> f = e
                              /\ ~ Writes(f, t)'
    BY <1>1, <1>2, <1>5 DEF Queues, Writes, ExecutionMatches
  <2>2. Attended(t)'
    BY <1>1, <1>2, <2>1
       DEF Attended, OneQueues, QueuesInOrder, QueuedHasOne, WritesInOrder, RunningHasOne
  <2> QED
    BY <1>3, <1>4, <2>2 DEF Cared
<1> QED
  BY <1>3, <1>4, <1>5 DEF Cared

\* The handlers give a task to run to an execution.
LEMMA CareApi ==
  ASSUME CareInv, LocalApi
  PROVE  \A t \in Tasks : Cared(t)'
<1>1. /\ Serving /\ proc' = proc /\ recovered' = recovered
      /\ \A i \in DOMAIN turns : turns[i] \in Tasks
      /\ tasks \in [Tasks -> Record] /\ recovered = {}
  BY DEF LocalApi, CareInv, LocalInv, IInv, TypeOK, LocalTypes, Serving, Cared, BootInOrder
<1>2. ASSUME NEW t \in Tasks, NEW r, tasks' = [tasks EXCEPT ![t] = r], ExecuteLocally(t),
             r.status = "queued", ~ r.cancelRequested, r.active = NoExecution, ~ r.choice,
             proc = "up" => \A f \in Executions : ~ Queues(f, t)
      PROVE  \A u \in Tasks : Cared(u)'
  <2>1. PICK e \in Executions :
            Spawn(e, t, FALSE) /\ controllers' = [controllers EXCEPT ![t] = e]
    BY <1>2 DEF ExecuteLocally
  <2>2. tasks'[t] = r /\ \A u \in Tasks \ {t} : tasks'[u] = tasks[u]
    BY <1>1, <1>2
  <2>3. proc # "down" /\ proc # "booting" /\ recovered' = recovered \ {t}
    BY <1>1 DEF Serving
  <2> QED
    BY <1>1, <1>2, <2>1, <2>2, <2>3, CareStarts
<1>3. ASSUME NEW t \in Tasks, tasks[t].status = "absent",
             tasks' = [tasks EXCEPT ![t] = Created], ExecuteLocally(t)
      PROVE  \A u \in Tasks : Cared(u)'
  <2>1. proc = "up" => \A f \in Executions : ~ Queues(f, t)
    BY <1>3 DEF CareInv, Cared, Attended, QueuesInOrder
  <2>2. /\ Created.status = "queued" /\ ~ Created.cancelRequested
        /\ Created.active = NoExecution /\ ~ Created.choice
    BY DEF Created, Fresh
  <2> QED
    BY <1>2, <1>3, <2>1, <2>2
<1>4. ASSUME NEW i \in DOMAIN turns, Answer(i), ExecuteLocally(turns[i])
      PROVE  \A u \in Tasks : Cared(u)'
  <2> DEFINE t == turns[i]
  <2>1. t \in Tasks /\ tasks[t] \in Record /\ Answerable(tasks[t])
        /\ tasks' = [tasks EXCEPT ![t] = Answered(tasks[t])]
    BY <1>1, <1>4 DEF Answer
  <2> HIDE DEF t
  <2>2. proc = "up" => \A f \in Executions : ~ Queues(f, t)
    BY <2>1 DEF Answerable, CareInv, Cared, Attended, QueuesInOrder
  <2>3. /\ Answered(tasks[t]).status = "queued" /\ ~ Answered(tasks[t]).cancelRequested
        /\ Answered(tasks[t]).active = NoExecution /\ ~ Answered(tasks[t]).choice
    BY <2>1 DEF Answered, Record
  <2> QED
    BY <1>2, <1>4, <2>1, <2>2, <2>3 DEF t
<1>5. ASSUME NEW i \in DOMAIN turns, Steer(i), UNCHANGED <<execs, controllers>>
      PROVE  \A u \in Tasks : Cared(u)'
  <2> DEFINE t == turns[i]
  <2>1. t \in Tasks /\ tasks[t] \in Record
        /\ tasks' = [tasks EXCEPT ![t] = Steered(tasks[t])]
    BY <1>1, <1>5 DEF Steer
  <2> HIDE DEF t
  <2>2. /\ Steered(tasks[t]).status = tasks[t].status /\ Steered(tasks[t]).active = tasks[t].active
        /\ Steered(tasks[t]).choice = tasks[t].choice /\ Steered(tasks[t]).gen = tasks[t].gen
        /\ Steered(tasks[t]).cancelRequested = tasks[t].cancelRequested
    BY <2>1 DEF Steered, Record
  <2>3. ASSUME NEW u \in Tasks
        PROVE  /\ tasks'[u].status = tasks[u].status /\ tasks'[u].active = tasks[u].active
               /\ tasks'[u].choice = tasks[u].choice /\ tasks'[u].gen = tasks[u].gen
               /\ tasks'[u].cancelRequested = tasks[u].cancelRequested
    BY <1>1, <2>1, <2>2
  <2>4. ASSUME NEW u \in Tasks PROVE Cared(u)'
    <3>1. \A e \in Executions : /\ Queues(e, u)' <=> Queues(e, u)
                                /\ Writes(e, u)' <=> Writes(e, u)
                                /\ Live(e)' <=> Live(e)
      BY <1>5, <2>3 DEF Queues, Writes, ExecutionMatches, Live
    <3>2. Cared(u)
      BY DEF CareInv
    <3> QED
      BY <1>1, <1>5, <2>3, <3>1, <3>2
         DEF Cared, RecordInOrder, RegistryInOrder, BootInOrder, Attended, OneQueues,
             QueuesInOrder, QueuedHasOne, WritesInOrder, RunningHasOne
  <2> QED
    BY <2>4
<1> QED
  BY <1>3, <1>4, <1>5 DEF LocalApi, StartTurn, Retry, Regenerate

\* Stopping a task aborts the execution that is on its way to it, or owns it.
LEMMA CareInterrupts ==
  ASSUME CareInv, NEW t \in Tasks, LocalInterrupt(t)
  PROVE  \A u \in Tasks : Cared(u)'
<1>1. /\ Serving /\ UNCHANGED <<proc, recovered, controllers>> /\ Abort(InterruptTargets(t))
      /\ tasks' = [tasks EXCEPT ![t] = Interrupted(tasks[t])]
      /\ tasks[t].status \in Unfinished
  BY DEF LocalInterrupt, Interrupt, localVars
<1>2. /\ execs \in [Executions -> Execution] /\ tasks[t] \in Record /\ Cared(t)
      /\ NoExecution \notin Executions
      /\ controllers \in [Tasks -> Executions \cup {NoExecution}] /\ DOMAIN tasks = Tasks
  BY TaskRecordAssumption DEF CareInv, LocalInv, IInv, TypeOK, LocalTypes
<1>3. /\ tasks'[t].status = "cancelled" /\ tasks'[t].cancelRequested
      /\ tasks'[t].active = tasks[t].active /\ tasks'[t].gen = tasks[t].gen
      /\ tasks'[t].choice = tasks[t].choice
      /\ \A u \in Tasks \ {t} : tasks'[u] = tasks[u]
  BY <1>1, <1>2 DEF Interrupted, Record
<1>4. \A e \in Executions :
        /\ execs'[e].pc = execs[e].pc /\ execs'[e].task = execs[e].task
        /\ execs'[e].outcome = execs[e].outcome /\ execs'[e].gen = execs[e].gen
        /\ execs'[e] = execs[e] \/ e \in InterruptTargets(t)
        /\ e \in InterruptTargets(t) /\ Live(e) => execs'[e].aborted
  BY <1>1, <1>2 DEF Abort, Execution
<1>5. InterruptTargets(t) \subseteq {controllers[t]}
  BY DEF InterruptTargets
<1>6. ASSUME NEW u \in Tasks \ {t} PROVE Cared(u)'
  <2>1. \A e \in Executions :
            execs'[e] = execs[e] \/ (execs'[e].task # u /\ execs[e].task # u)
    BY <1>2, <1>4, <1>5 DEF Cared, RegistryInOrder
  <2> QED
    BY <1>1, <1>3, <2>1, CareOther DEF CareInv
<1>7. \A e \in Executions : /\ Queues(e, t)' <=> Queues(e, t)
                            /\ Writes(e, t)' <=> Writes(e, t)
                            /\ Live(e)' <=> Live(e)
  BY <1>3, <1>4 DEF Queues, Writes, ExecutionMatches, Live
<1>8. RecordInOrder(t)' /\ RegistryInOrder(t)' /\ BootInOrder(t)'
  BY <1>1, <1>2, <1>3, <1>4, <1>7
     DEF RecordInOrder, Unfinished, Runnable, Cared, RegistryInOrder, BootInOrder, Serving
<1>9. CASE proc = "up"
  <2>1. Attended(t)
    BY <1>2, <1>9 DEF Cared
  <2>2. ASSUME NEW e \in Executions, Queues(e, t), execs[e].pc = "starting"
        PROVE  controllers[t] = e /\ execs'[e].aborted
    <3>1. tasks[t].status = "queued"
      BY <1>1, <1>9, <2>1, <2>2 DEF Attended, QueuesInOrder, Unfinished, Runnable
    <3>2. tasks[t].active = NoExecution
      BY <3>1 DEF CareInv, LocalInv, IInv, Strengthening, QueuedHasNoOwner
    <3> QED
      BY <1>4, <2>1, <2>2, <3>2 DEF Attended, QueuesInOrder, InterruptTargets, Live
  <2>3. ASSUME NEW e \in Executions, Writes(e, t)
        PROVE  controllers[t] = e /\ execs'[e].aborted
    BY <1>4, <2>1, <2>3
       DEF Attended, WritesInOrder, InterruptTargets, Live, Writes, ExecutionMatches
  <2>4. OneQueues(t)' /\ QueuedHasOne(t)' /\ RunningHasOne(t)'
    BY <1>3, <1>7, <2>1 DEF Attended, OneQueues, QueuedHasOne, RunningHasOne
  <2>5. QueuesInOrder(t)'
    BY <1>1, <1>3, <1>4, <1>7, <1>9, <2>1, <2>2 DEF Attended, QueuesInOrder
  <2>6. WritesInOrder(t)'
    BY <1>1, <1>3, <1>7, <2>3 DEF WritesInOrder
  <2> QED
    BY <1>6, <1>8, <2>4, <2>5, <2>6 DEF Cared, Attended
<1> QED
  BY <1>1, <1>6, <1>8, <1>9 DEF Cared, Serving

\* An execution is over, and the task it leaves is not its own: nobody on its way
\* to the task, and no owner of it, is lost.
LEMMA CareLeaves ==
  ASSUME CareInv, NEW e \in Executions, NEW o \in Outcomes, Live(e),
         Settle(e, o), Unregister(e), UNCHANGED <<tasks, proc, recovered>>,
         o # "requeued_steer",
         proc \in {"booting", "up"} =>
            \/ execs[e].pc = "starting" /\ tasks[execs[e].task].status # "queued"
            \/ /\ execs[e].pc = "running"
               /\ \/ tasks[execs[e].task].status # "running" \/ ~ Writes(e, execs[e].task)
                  \/ ModelFailures
  PROVE  \A u \in Tasks : Cared(u)'
<1>0. PICK t \in Tasks : execs[e].task = t
  BY DEF CareInv, LocalInv, IInv, Strengthening, ExecutionsHaveTasks, Live
<1>1. /\ execs \in [Executions -> Execution] /\ ReturnsAreOver
      /\ NoExecution \notin Executions
      /\ controllers \in [Tasks -> Executions \cup {NoExecution}]
  BY TaskRecordAssumption DEF CareInv, LocalInv, IInv, TypeOK, LocalTypes
<1>2. /\ execs'[e].pc = "done" /\ execs'[e].task = t /\ execs'[e].outcome = o
      /\ \A f \in Executions \ {e} : execs'[f] = execs[f]
      /\ \A u \in Tasks : controllers'[u] = IF controllers[u] = e THEN NoExecution ELSE controllers[u]
  BY <1>0, <1>1 DEF Settle, Returned, Unused, Unregister
<1>3. execs[e].outcome = "none"
  BY <1>1 DEF ReturnsAreOver, Live
<1>4. ASSUME NEW u \in Tasks \ {t} PROVE Cared(u)'
  <2>1. controllers'[u] = controllers[u]
    BY <1>0, <1>1, <1>2 DEF CareInv, Cared, RegistryInOrder
  <2> QED
    BY <1>0, <1>2, <2>1, CareOther DEF CareInv
<1>5. \A f \in Executions : /\ Queues(f, t)' <=> Queues(f, t) /\ f # e
                            /\ Writes(f, t)' <=> Writes(f, t) /\ f # e
  BY <1>2 DEF Queues, Writes
<1>6. Cared(t)
  BY DEF CareInv
<1>7. RecordInOrder(t)' /\ RegistryInOrder(t)' /\ BootInOrder(t)'
  <2>1. RegistryInOrder(t)'
    BY <1>1, <1>2, <1>3, <1>6 DEF Cared, RegistryInOrder
  <2>2. BootInOrder(t)'
    BY <1>0, <1>2, <1>5, <1>6 DEF Cared, BootInOrder, Live
  <2> QED
    BY <1>6, <2>1, <2>2 DEF Cared, RecordInOrder
<1>8. CASE proc \in {"booting", "up"}
  <2>1. Attended(t)
    BY <1>6, <1>8 DEF Cared
  <2>2. OneQueues(t)' /\ QueuesInOrder(t)'
    BY <1>1, <1>2, <1>3, <1>5, <2>1 DEF Attended, OneQueues, QueuesInOrder
  <2>3. QueuedHasOne(t)'
    BY <1>0, <1>3, <1>5, <1>8, <2>1 DEF Attended, QueuedHasOne, Queues
  <2>4. WritesInOrder(t)'
    BY <1>1, <1>2, <1>3, <1>5, <2>1 DEF Attended, WritesInOrder
  <2>5. RunningHasOne(t)'
    BY <1>0, <1>5, <1>8, <2>1 DEF Attended, RunningHasOne, QueuesInOrder, Queues
  <2> QED
    BY <1>4, <1>7, <2>2, <2>3, <2>4, <2>5 DEF Cared, Attended
<1> QED
  BY <1>4, <1>7, <1>8 DEF Cared

\* The owner of a task is over, and has given the task up.
LEMMA CareGivesUp ==
  ASSUME CareInv, NEW e \in Executions, NEW o \in Outcomes, execs[e].pc = "running",
         Writes(e, execs[e].task), tasks[execs[e].task].status = "running",
         Settle(e, o), Unregister(e), UNCHANGED <<proc, recovered>>,
         NEW r, tasks' = [tasks EXCEPT ![execs[e].task] = r],
         r.active = NoExecution, r.status \in Unfinished => ~ r.cancelRequested,
         r.status \notin {"running", "cancelled"},
         r.status = "queued" /\ proc \in {"booting", "up"} =>
            o = "requeued_steer" /\ ~ r.choice,
         o = "requeued_steer" => r.status = "queued"
  PROVE  \A u \in Tasks : Cared(u)'
<1>0. PICK t \in Tasks : execs[e].task = t
  BY DEF CareInv, LocalInv, IInv, Strengthening, ExecutionsHaveTasks, Live
<1>1. /\ execs \in [Executions -> Execution] /\ ReturnsAreOver
      /\ NoExecution \notin Executions /\ DOMAIN tasks = Tasks
      /\ controllers \in [Tasks -> Executions \cup {NoExecution}]
  BY TaskRecordAssumption DEF CareInv, LocalInv, IInv, TypeOK, LocalTypes
<1>2. /\ execs'[e].pc = "done" /\ execs'[e].task = t /\ execs'[e].outcome = o
      /\ \A f \in Executions \ {e} : execs'[f] = execs[f]
      /\ \A u \in Tasks : controllers'[u] = IF controllers[u] = e THEN NoExecution ELSE controllers[u]
  BY <1>0, <1>1 DEF Settle, Returned, Unused, Unregister
<1>3. execs[e].outcome = "none"
  BY <1>1 DEF ReturnsAreOver
<1>4. tasks'[t] = r /\ \A u \in Tasks \ {t} : tasks'[u] = tasks[u]
  BY <1>0, <1>1
<1>5. Cared(t) /\ t \notin recovered
  BY <1>0 DEF CareInv, Cared, BootInOrder
<1>6. ASSUME NEW u \in Tasks \ {t} PROVE Cared(u)'
  <2>1. controllers'[u] = controllers[u]
    BY <1>0, <1>1, <1>2 DEF CareInv, Cared, RegistryInOrder
  <2> QED
    BY <1>0, <1>2, <1>4, <2>1, CareOther DEF CareInv
<1>7. \A f \in Executions : /\ Queues(f, t)' <=> \/ Queues(f, t) /\ f # e
                                                 \/ f = e /\ o = "requeued_steer"
                            /\ ~ Writes(f, t)'
  BY <1>1, <1>2, <1>4 DEF Queues, Writes, ExecutionMatches
<1>8. RecordInOrder(t)' /\ RegistryInOrder(t)' /\ BootInOrder(t)'
  <2>1. RecordInOrder(t)'
    BY <1>4 DEF RecordInOrder
  <2>2. RegistryInOrder(t)'
    BY <1>1, <1>2, <1>3, <1>5 DEF Cared, RegistryInOrder
  <2>3. proc # "down"
    BY <1>0, <1>5 DEF Cared, BootInOrder, Live
  <2>4. BootInOrder(t)'
    BY <1>5, <2>3 DEF BootInOrder
  <2> QED
    BY <2>1, <2>2, <2>4
<1>9. CASE proc \in {"booting", "up"}
  <2>1. Attended(t)
    BY <1>5, <1>9 DEF Cared
  <2>2. \A f \in Executions : ~ Queues(f, t)
    BY <1>0, <2>1 DEF Attended, QueuesInOrder
  <2>3. OneQueues(t)' /\ WritesInOrder(t)' /\ RunningHasOne(t)'
    BY <1>4, <1>7, <2>2 DEF OneQueues, WritesInOrder, RunningHasOne
  <2>4. QueuesInOrder(t)' /\ QueuedHasOne(t)'
    BY <1>2, <1>4, <1>5, <1>7, <1>9, <2>2 DEF QueuesInOrder, QueuedHasOne
  <2> QED
    BY <1>6, <1>8, <2>3, <2>4 DEF Cared, Attended
<1> QED
  BY <1>6, <1>8, <1>9 DEF Cared

\* The one execution on its way to a queued task becomes its owner.
LEMMA CareClaims ==
  ASSUME CareInv, NEW e \in Executions, Claim(e), UNCHANGED <<controllers, recovered, proc>>
  PROVE  \A u \in Tasks : Cared(u)'
<1>0. PICK t \in Tasks : execs[e].task = t
  BY DEF CareInv, LocalInv, IInv, Strengthening, ExecutionsHaveTasks, Claim
<1>1. /\ execs \in [Executions -> Execution] /\ tasks \in [Tasks -> Record] /\ ReturnsAreOver
      /\ NoExecution \notin Executions /\ execs[e] \in Execution /\ tasks[t] \in Record
      /\ controllers \in [Tasks -> Executions \cup {NoExecution}]
  BY TaskRecordAssumption DEF CareInv, LocalInv, IInv, TypeOK, LocalTypes
<1>2. /\ execs[e].pc = "starting" /\ execs'[e].pc = "running" /\ execs'[e].task = t
      /\ execs'[e].outcome = "none" /\ execs'[e].aborted = execs[e].aborted
      /\ execs'[e].gen = tasks'[t].gen
      /\ \A f \in Executions \ {e} : execs'[f] = execs[f]
      /\ ~ tasks[t].cancelRequested
  BY <1>0, <1>1 DEF Claim, Execution, ReturnsAreOver, Claimable
<1>3. /\ tasks'[t].status = "running" /\ tasks'[t].active = e
      /\ tasks'[t].cancelRequested = tasks[t].cancelRequested
      /\ \A u \in Tasks \ {t} : tasks'[u] = tasks[u]
  BY <1>0, <1>1 DEF Claim, Claimed, Record
<1>4. ASSUME NEW u \in Tasks \ {t} PROVE Cared(u)'
  BY <1>0, <1>2, <1>3, CareOther DEF CareInv
<1>5. /\ \A f \in Executions : Queues(f, t)' <=> Queues(f, t) /\ f # e
      /\ \A f \in Executions : Writes(f, t)' => f = e
      /\ Writes(e, t)' /\ Queues(e, t)
  BY <1>0, <1>1, <1>2, <1>3 DEF Queues, Writes, ExecutionMatches
<1>6. Cared(t) /\ proc # "down"
  BY <1>0, <1>2 DEF CareInv, Cared, BootInOrder, Live
<1>7. tasks[t].status # "cancelled"
  BY <1>2 DEF CareInv, LocalInv, IInv, Strengthening, CancelledIsRequested
<1>8. RecordInOrder(t)' /\ RegistryInOrder(t)'
  BY <1>0, <1>1, <1>2, <1>3, <1>6 DEF Cared, RecordInOrder, RegistryInOrder
<1>9. CASE proc \in {"booting", "up"}
  <2>1. Attended(t)
    BY <1>6, <1>9 DEF Cared
  <2>2. t \notin recovered /\ \A f \in Executions : ~ Queues(f, t)'
    BY <1>5, <2>1 DEF Attended, OneQueues, QueuesInOrder
  <2>3. controllers[t] = e /\ ~ execs[e].aborted
    BY <1>2, <1>5, <1>7, <2>1 DEF Attended, QueuesInOrder
  <2>4. BootInOrder(t)'
    BY <1>9, <2>2 DEF BootInOrder
  <2>5. Attended(t)'
    BY <1>2, <1>3, <1>5, <2>2, <2>3
       DEF Attended, OneQueues, QueuesInOrder, QueuedHasOne, WritesInOrder, RunningHasOne
  <2> QED
    BY <1>4, <1>8, <2>4, <2>5 DEF Cared
<1>10. CASE proc \notin {"booting", "up"}
  <2>1. BootInOrder(t)'
    BY <1>6, <1>10 DEF Cared, BootInOrder
  <2> QED
    BY <1>4, <1>8, <1>10, <2>1 DEF Cared
<1> QED
  BY <1>9, <1>10

\* Its checkpoints leave the task with its owner, at work.
LEMMA CareCheckpoints ==
  ASSUME CareInv, NEW e \in Executions, NEW choice \in BOOLEAN, Checkpoint(e, choice),
         UNCHANGED <<controllers, recovered, proc>>
  PROVE  \A u \in Tasks : Cared(u)'
<1>0. PICK t \in Tasks : execs[e].task = t
  BY DEF CareInv, LocalInv, IInv, Strengthening, ExecutionsHaveTasks, Checkpoint
<1>1. tasks \in [Tasks -> Record] /\ tasks[t] \in Record /\ UNCHANGED execs
  BY DEF CareInv, LocalInv, IInv, TypeOK, Checkpoint
<1>2. /\ tasks[t].status = "running" /\ tasks'[t].status = "running"
      /\ tasks'[t].active = tasks[t].active /\ tasks'[t].gen = tasks[t].gen
      /\ tasks'[t].cancelRequested = tasks[t].cancelRequested
      /\ \A u \in Tasks \ {t} : tasks'[u] = tasks[u]
  BY <1>0, <1>1 DEF Checkpoint, Checkpointed, Writable, Record
<1>3. ASSUME NEW u \in Tasks \ {t} PROVE Cared(u)'
  BY <1>1, <1>2, CareOther DEF CareInv
<1>4. \A f \in Executions : /\ Queues(f, t)' <=> Queues(f, t)
                            /\ Writes(f, t)' <=> Writes(f, t)
                            /\ Live(f)' <=> Live(f)
  BY <1>1, <1>2 DEF Queues, Writes, ExecutionMatches, Live
<1>5. Cared(t)
  BY DEF CareInv
<1>6. RecordInOrder(t)' /\ RegistryInOrder(t)' /\ BootInOrder(t)'
  BY <1>1, <1>2, <1>4, <1>5 DEF Cared, RecordInOrder, RegistryInOrder, BootInOrder
<1>7. Attended(t) => Attended(t)'
  BY <1>1, <1>2, <1>4
     DEF Attended, OneQueues, QueuesInOrder, QueuedHasOne, WritesInOrder, RunningHasOne
<1> QED
  BY <1>3, <1>5, <1>6, <1>7 DEF Cared

\* An execution ends with its task's result or requeue, or finds the task stopped
\* or taken over; or the model has failed.
LEMMA CareExecutes ==
  ASSUME CareInv, NEW e \in Executions, LocalExecution(e)
  PROVE  \A u \in Tasks : Cared(u)'
<1>1. /\ execs \in [Executions -> Execution] /\ UNCHANGED <<proc, recovered>>
      /\ \A o \in Outcomes : Settle(e, o) => Unregister(e)
      /\ {"settled", "failed", "requeued_steer", "requeued_worker"} \subseteq Outcomes
  BY Ended DEF CareInv, LocalInv, IInv, TypeOK, LocalExecution, Outcomes
<1>2. CASE Claim(e)
  <2>1. UNCHANGED controllers
    BY <1>1, <1>2 DEF LocalExecution, Claim, Execution
  <2> QED
    BY <1>1, <1>2, <2>1, CareClaims
<1>3. ASSUME NEW choice \in BOOLEAN, Checkpoint(e, choice)
      PROVE  \A u \in Tasks : Cared(u)'
  <2>1. UNCHANGED controllers
    BY <1>1, <1>3 DEF LocalExecution, Checkpoint
  <2> QED
    BY <1>1, <1>3, <2>1, CareCheckpoints
<1>4. ASSUME ~ Claim(e), \A choice \in BOOLEAN : ~ Checkpoint(e, choice)
      PROVE  \A u \in Tasks : Cared(u)'
  <2>0. PICK t \in Tasks : execs[e].task = t
    BY <1>4 DEF CareInv, LocalInv, IInv, Strengthening, ExecutionsHaveTasks, LocalExecution,
        ExecutionStep, Skip, FinishCancelled, FinishSuperseded, FinishForSteer, MayFinish,
        Deliver, RequeueAfterAbort, FailUnrecorded
  <2>1. Cared(t) /\ tasks[t] \in Record /\ (tasks[t].status = "cancelled" => tasks[t].cancelRequested)
    BY DEF CareInv, LocalInv, IInv, TypeOK, Strengthening, CancelledIsRequested
  <2>2. Owns(e) /\ execs[e].pc = "running" /\ ~ tasks[t].cancelRequested =>
            Writes(e, t) /\ tasks[t].status = "running"
    BY <2>0, <2>1, TaskRecordAssumption
       DEF Owns, Writes, ExecutionMatches, Cared, RecordInOrder
  <2>3. CASE Skip(e)
    <3>1. tasks[t].status # "queued"
      BY <2>0, <2>1, <2>3 DEF Skip, Claimable, Cared, RecordInOrder, Unfinished, Runnable
    <3> QED
      BY <1>1, <2>0, <2>3, <3>1, CareLeaves DEF Skip, Live, storeVars
  <2>4. CASE FinishCancelled(e) \/ FinishSuperseded(e)
    <3>1. /\ execs[e].pc = "running" /\ Settle(e, "settled") /\ UNCHANGED tasks
          /\ tasks[t].status # "running" \/ ~ Writes(e, t)
      BY <2>0, <2>1, <2>4
         DEF FinishCancelled, FinishSuperseded, storeVars, Owns, Writes, Cared, RecordInOrder,
             Unfinished, Runnable
    <3> QED
      BY <1>1, <2>0, <3>1, CareLeaves DEF Live
  <2>5. CASE FailUnrecorded(e)
    <3>1. /\ execs[e].pc = "running" /\ Settle(e, "failed") /\ UNCHANGED tasks
          /\ execs[e].aborted \/ ModelFailures
      BY <2>5 DEF FailUnrecorded, storeVars
    <3>2. proc \in {"booting", "up"} =>
            tasks[t].status # "running" \/ ~ Writes(e, t) \/ ModelFailures
      BY <2>1, <3>1 DEF Cared, Attended, WritesInOrder
    <3> QED
      BY <1>1, <2>0, <3>1, <3>2, CareLeaves DEF Live
  <2>6. CASE FinishForSteer(e)
    <3>1. /\ execs[e].pc = "running" /\ Writes(e, t) /\ tasks[t].status = "running"
          /\ Settle(e, "requeued_steer") /\ ~ tasks[t].cancelRequested
          /\ tasks' = [tasks EXCEPT ![t] = SteersApplied(tasks[t])]
      BY <2>0, <2>2, <2>6 DEF FinishForSteer, MayFinish
    <3>2. /\ SteersApplied(tasks[t]).status = "queued" /\ ~ SteersApplied(tasks[t]).choice
          /\ SteersApplied(tasks[t]).active = NoExecution
          /\ ~ SteersApplied(tasks[t]).cancelRequested
      BY <2>1, <3>1 DEF SteersApplied, Record
    <3> QED
      BY <1>1, <2>0, <3>1, <3>2, CareGivesUp
  <2>7. ASSUME NEW kind \in {"completed", "needs_input"}, Deliver(e, kind)
        PROVE  \A u \in Tasks : Cared(u)'
    <3>1. /\ execs[e].pc = "running" /\ Writes(e, t) /\ tasks[t].status = "running"
          /\ Settle(e, "settled") /\ ~ tasks[t].cancelRequested
          /\ tasks' = [tasks EXCEPT ![t] = Delivered(tasks[t], e, kind)]
      BY <2>0, <2>2, <2>7 DEF Deliver, MayFinish
    <3>2. /\ Delivered(tasks[t], e, kind).status \in {"waiting_input", "completed"}
          /\ Delivered(tasks[t], e, kind).active = NoExecution
          /\ ~ Delivered(tasks[t], e, kind).cancelRequested
      BY <2>1, <3>1 DEF Delivered, Record
    <3> QED
      BY <1>1, <2>0, <3>1, <3>2, CareGivesUp
  <2>8. CASE RequeueAfterAbort(e)
    <3>1. /\ execs[e].pc = "running" /\ Writes(e, t) /\ tasks[t].status = "running"
          /\ Settle(e, "requeued_worker") /\ ~ tasks[t].cancelRequested /\ execs[e].aborted
          /\ tasks' = [tasks EXCEPT ![t] = RequeuedOnAbort(tasks[t])]
      BY <2>0, <2>2, <2>8 DEF RequeueAfterAbort
    <3>2. proc \notin {"booting", "up"}
      BY <2>1, <3>1 DEF Cared, Attended, WritesInOrder
    <3>3. /\ RequeuedOnAbort(tasks[t]).status = "queued"
          /\ RequeuedOnAbort(tasks[t]).active = NoExecution
          /\ ~ RequeuedOnAbort(tasks[t]).cancelRequested
      BY <2>1, <3>1 DEF RequeuedOnAbort, Record
    <3> QED
      BY <1>1, <2>0, <3>1, <3>2, <3>3, CareGivesUp
  <2> QED
    BY <1>4, <2>3, <2>4, <2>5, <2>6, <2>7, <2>8 DEF LocalExecution, ExecutionStep
<1> QED
  BY <1>2, <1>3, <1>4

\* What a steer requeued is started again.
LEMMA CareRedispatches ==
  ASSUME CareInv, NEW e \in Executions, Redispatch(e)
  PROVE  \A u \in Tasks : Cared(u)'
<1>1. /\ execs \in [Executions -> Execution] /\ NoExecution \notin Executions
      /\ controllers \in [Tasks -> Executions \cup {NoExecution}]
      /\ execs[e].outcome = "requeued_steer" /\ execs[e].pc = "done"
      /\ UNCHANGED <<tasks, recovered, proc>> /\ proc # "down"
  BY TaskRecordAssumption
     DEF CareInv, LocalInv, IInv, TypeOK, LocalTypes, ReturnsAreOver, Redispatch, storeVars, Running
<1>2. PICK t \in Tasks : execs[e].task = t
  BY <1>1 DEF CareInv, LocalInv, IInv, Strengthening, ExecutionsHaveTasks
<1>3. Queues(e, t) /\ Cared(t)
  BY <1>1, <1>2 DEF Queues, CareInv
<1>4. CASE tasks[t].status # "queued" /\ execs' = Handled(e) /\ UNCHANGED controllers
  <2>1. /\ execs'[e].pc = "done" /\ execs'[e].task = t /\ execs'[e].outcome = "settled"
        /\ \A f \in Executions \ {e} : execs'[f] = execs[f]
    BY <1>1, <1>2, <1>4 DEF Handled, Execution
  <2>2. \A f \in Executions : /\ Queues(f, t)' <=> Queues(f, t) /\ f # e
                              /\ Writes(f, t)' <=> Writes(f, t)
                              /\ Live(f)' <=> Live(f)
    BY <1>1, <2>1 DEF Queues, Writes, Live
  <2>3. ASSUME NEW u \in Tasks \ {t} PROVE Cared(u)'
    BY <1>1, <1>2, <1>4, <2>1, CareOther DEF CareInv
  <2>4. RecordInOrder(t)' /\ RegistryInOrder(t)' /\ BootInOrder(t)'
    BY <1>1, <1>2, <1>3, <1>4, <2>1 DEF Cared, RecordInOrder, RegistryInOrder, BootInOrder
  <2>5. Attended(t) => Attended(t)'
    <3> SUFFICES ASSUME Attended(t) PROVE Attended(t)'
      OBVIOUS
    <3>1. \A f \in Executions : Queues(f, t) \/ Writes(f, t) => f = e \/ execs'[f] = execs[f]
      BY <2>1
    <3>2. ~ Writes(e, t)
      BY <1>1 DEF Writes
    <3> QED
      BY <1>1, <1>4, <2>2, <3>1, <3>2
         DEF Attended, OneQueues, QueuesInOrder, QueuedHasOne, WritesInOrder, RunningHasOne
  <2> QED
    BY <1>1, <1>3, <2>3, <2>4, <2>5 DEF Cared
<1>5. ASSUME tasks[t].status = "queued",
             NEW f \in Executions, execs[f].pc = "unused", execs' = HandledAndRestarted(e, f),
             controllers' = [controllers EXCEPT ![t] = f]
      PROVE  \A u \in Tasks : Cared(u)'
  <2>1. /\ execs'[e].pc = "done" /\ execs'[e].task = t /\ execs'[e].outcome = "settled"
        /\ execs'[f].pc = "starting" /\ execs'[f].task = t /\ execs'[f].outcome = "none"
        /\ ~ execs'[f].aborted /\ e # f
        /\ \A g \in Executions \ {e, f} : execs'[g] = execs[g]
    BY <1>1, <1>2, <1>5 DEF HandledAndRestarted, Unused, Execution
  <2>2. ASSUME NEW u \in Tasks \ {t} PROVE Cared(u)'
    <3>1. controllers'[u] = controllers[u]
      BY <1>1, <1>5
    <3> QED
      BY <1>1, <1>2, <1>5, <2>1, <3>1, CareOther DEF CareInv
  <2>3. RecordInOrder(t)' /\ RegistryInOrder(t)' /\ BootInOrder(t)'
    BY <1>1, <1>3, <1>5, <2>1 DEF Cared, RecordInOrder, RegistryInOrder, BootInOrder
  <2>4. CASE Attended(t)
    <3>1. t \notin recovered /\ ~ tasks[t].choice
      BY <1>1, <1>3, <2>4 DEF Attended, QueuesInOrder
    <3>2. tasks[t].active = NoExecution
      BY <1>5 DEF CareInv, LocalInv, IInv, Strengthening, QueuedHasNoOwner
    <3>3. \A g \in Executions : (Queues(g, t)' <=> g = f) /\ ~ Writes(g, t)'
      BY <1>1, <1>3, <2>1, <2>4, <3>2, QueuesStarted
         DEF CareInv, Attended, OneQueues, Queues, Writes, ExecutionMatches
    <3>4. Attended(t)'
      BY <1>1, <1>5, <2>1, <3>1, <3>3
         DEF Attended, OneQueues, QueuesInOrder, QueuedHasOne, WritesInOrder, RunningHasOne
    <3> QED
      BY <2>2, <2>3, <3>4 DEF Cared
  <2> QED
    BY <1>1, <1>3, <2>2, <2>3, <2>4 DEF Cared
<1> QED
  BY <1>2, <1>4, <1>5 DEF Redispatch

\* The process dies, the next one boots, starts what it found and listens.
LEMMA CareRestarts ==
  ASSUME CareInv,
         \/ \E t \in Tasks : StartRecovered(t)
         \/ ProcessDies \/ Boot \/ Listen \/ Shutdown \/ UNCHANGED allVars
  PROVE  \A u \in Tasks : Cared(u)'
<1>1. /\ execs \in [Executions -> Execution] /\ NoExecution \notin Executions
      /\ tasks \in [Tasks -> Record] /\ ReturnsAreOver /\ QueuedHasNoOwner
      /\ controllers \in [Tasks -> Executions \cup {NoExecution}]
      /\ \A u \in Tasks : Cared(u)
  BY TaskRecordAssumption
     DEF CareInv, LocalInv, IInv, TypeOK, LocalTypes, Strengthening
<1>2. ASSUME NEW t \in Tasks, StartRecovered(t)
      PROVE  \A u \in Tasks : Cared(u)'
  <2>1. PICK e \in Executions :
            Spawn(e, t, FALSE) /\ controllers' = [controllers EXCEPT ![t] = e]
    BY <1>2 DEF StartRecovered, ExecuteLocally
  <2>2. /\ UNCHANGED <<tasks, proc>> /\ t \in recovered /\ proc = "booting"
        /\ recovered' = recovered \ {t} /\ tasks[t].status = "queued"
    BY <1>1, <1>2 DEF StartRecovered, storeVars, Cared, BootInOrder
  <2>3. ~ tasks[t].cancelRequested /\ tasks[t].active = NoExecution
    BY <1>1, <2>2 DEF Cared, RecordInOrder, QueuedHasNoOwner, Unfinished, Runnable
  <2>4. \A f \in Executions : ~ Queues(f, t)
    BY <1>1, <2>2 DEF Cared, Attended, QueuesInOrder
  <2> QED
    BY <2>1, <2>2, <2>3, <2>4, CareStarts
<1>3. CASE ProcessDies
  <2>1. /\ proc' = "down" /\ recovered' = {} /\ UNCHANGED tasks
        /\ controllers' = [t \in Tasks |-> NoExecution] /\ Lose(Executions)
    BY <1>3 DEF ProcessDies, storeVars
  <2>2. \A e \in Executions : /\ execs'[e].pc \in {"unused", "done"}
                              /\ execs'[e].outcome = "none"
    BY <1>1, <2>1 DEF Lose, Returned, Unused, Execution, ReturnsAreOver
  <2> QED
    BY <1>1, <2>1, <2>2
       DEF Cared, RecordInOrder, RegistryInOrder, BootInOrder, Queues, Live
<1>4. CASE Boot
  <2>1. /\ proc = "down" /\ proc' = "booting" /\ UNCHANGED <<execs, controllers>>
        /\ recovered' = {t \in Tasks : tasks[t].status \in Runnable}
        /\ tasks' = [t \in Tasks |-> IF tasks[t].status \in Runnable THEN Recovered(tasks[t])
                                     ELSE tasks[t]]
    BY <1>4 DEF Boot, RecoverAll
  <2>2. ASSUME NEW t \in Tasks PROVE Cared(t)'
    <3>1. Cared(t) /\ tasks[t] \in Record
      BY <1>1
    <3>2. /\ tasks'[t].cancelRequested = tasks[t].cancelRequested
          /\ \/ /\ t \in recovered' /\ tasks[t].status \in Runnable
                /\ tasks'[t].status = "queued" /\ tasks'[t].active = NoExecution
             \/ /\ t \notin recovered' /\ tasks[t].status \notin Runnable
                /\ tasks'[t].status = tasks[t].status /\ tasks'[t].active = tasks[t].active
      BY <2>1, <3>1 DEF Recovered, Record
    <3>3. \A e \in Executions : ~ Queues(e, t)' /\ ~ Writes(e, t)'
      <4>1. \A e \in Executions : execs[e].task = t => ~ Live(e) /\ ~ Queues(e, t)
        BY <2>1, <3>1 DEF Cared, BootInOrder
      <4> QED
        BY <2>1, <4>1 DEF Queues, Writes, Live
    <3>4. RecordInOrder(t)'
      BY <3>1, <3>2 DEF Cared, RecordInOrder, Unfinished, Runnable
    <3>5. RegistryInOrder(t)' /\ BootInOrder(t)'
      BY <2>1, <3>1, <3>2 DEF Cared, RegistryInOrder, BootInOrder
    <3>6. Attended(t)'
      BY <3>2, <3>3
         DEF Attended, OneQueues, QueuesInOrder, QueuedHasOne, WritesInOrder, RunningHasOne, Runnable
    <3> QED
      BY <3>4, <3>5, <3>6 DEF Cared
  <2> QED
    BY <2>2
<1>5. ASSUME UNCHANGED <<tasks, execs, controllers, recovered>>, NEW t \in Tasks
      PROVE  /\ \A e \in Executions : /\ Queues(e, t)' <=> Queues(e, t)
                                      /\ Writes(e, t)' <=> Writes(e, t)
                                      /\ Live(e)' <=> Live(e)
             /\ RecordInOrder(t)' /\ RegistryInOrder(t)'
  BY <1>1, <1>5 DEF Queues, Writes, Live, ExecutionMatches, Cared, RecordInOrder, RegistryInOrder
<1>6. CASE Listen
  <2>1. /\ proc = "booting" /\ proc' = "up" /\ recovered = {}
        /\ \A e \in Executions : execs[e].pc # "starting"
        /\ UNCHANGED <<tasks, execs, controllers, recovered>>
    BY <1>6 DEF Listen, vars
  <2>2. ASSUME NEW t \in Tasks PROVE Cared(t)'
    <3>1. Attended(t)
      BY <1>1, <2>1 DEF Cared
    <3>2. Attended(t)'
      BY <1>5, <2>1, <3>1
         DEF Attended, OneQueues, QueuesInOrder, QueuedHasOne, WritesInOrder, RunningHasOne
    <3> QED
      BY <1>5, <2>1, <3>2 DEF Cared, BootInOrder
  <2> QED
    BY <2>2
<1>7. CASE UNCHANGED allVars
  <2>1. UNCHANGED <<tasks, execs, controllers, recovered, proc>>
    BY <1>7 DEF allVars, vars, localVars
  <2> QED
    BY <1>1, <2>1, CareOther DEF CareInv
<1>8. CASE Shutdown
  <2>1. /\ proc = "up" /\ proc' = "stopping" /\ UNCHANGED <<tasks, controllers, recovered>>
        /\ Abort({controllers[t] : t \in Tasks})
    BY <1>8 DEF Shutdown, storeVars
  <2>2. \A e \in Executions : execs'[e].pc = execs[e].pc /\ execs'[e].task = execs[e].task
    BY <1>1, <2>1 DEF Abort, Execution
  <2> QED
    BY <1>1, <2>1, <2>2 DEF Cared, RecordInOrder, RegistryInOrder, BootInOrder
<1> QED
  BY <1>2, <1>3, <1>4, <1>6, <1>7, <1>8

LEMMA CareInit == LocalInit => CareInv
<1> SUFFICES ASSUME LocalInit PROVE CareInv
  OBVIOUS
<1>1. \A e \in Executions, t \in Tasks : ~ Queues(e, t) /\ ~ Writes(e, t)
  BY DEF LocalInit, Init, Unused, Queues, Writes
<1>2. /\ Absent.status = "absent" /\ Absent.active = NoExecution
      /\ proc = "up" /\ recovered = {} /\ tasks = [t \in Tasks |-> Absent]
      /\ controllers = [t \in Tasks |-> NoExecution]
  BY DEF Absent, Fresh, LocalInit, Init
<1>3. \A t \in Tasks : Cared(t)
  BY <1>1, <1>2
     DEF Cared, RecordInOrder, Unfinished, Runnable, RegistryInOrder, BootInOrder, Attended,
         OneQueues, QueuesInOrder, QueuedHasOne, WritesInOrder, RunningHasOne
<1> QED
  BY <1>3, LocalInitInv DEF CareInv

LEMMA CareNext == CareInv /\ [LocalNext]_allVars => CareInv'
<1> SUFFICES ASSUME CareInv, [LocalNext]_allVars PROVE CareInv'
  OBVIOUS
<1>1. LocalInv'
  BY LocalNextInv DEF CareInv
<1>2. \A u \in Tasks : Cared(u)'
  BY CareApi, CareInterrupts, CareExecutes, CareRedispatches, CareRestarts DEF LocalNext
<1> QED
  BY <1>1, <1>2 DEF CareInv

-----------------------------------------------------------------------------
(* The turns of the thread.                                                *)

\* No turn goes, and only a task that still works, or has a turn, works on.
LEMMA ShownKept ==
  ASSUME UnfinishedTaskHasTurn, UNCHANGED turns,
         \A t \in Tasks : tasks'[t].status \in Unfinished =>
            tasks[t].status \in Unfinished \/ \E i \in DOMAIN turns : turns[i] = t
  PROVE  UnfinishedTaskHasTurn'
  BY DEF UnfinishedTaskHasTurn

\* A new turn is the last one, or takes the place of a last one that was over.
LEMMA ShownByApi ==
  ASSUME CareInv, UnfinishedTaskHasTurn, LocalApi
  PROVE  UnfinishedTaskHasTurn'
<1>1. turns \in Seq(Tasks) /\ tasks \in [Tasks -> Record]
  BY DEF CareInv, LocalInv, IInv, TypeOK
<1>2. ASSUME NEW t \in Tasks, tasks' = [tasks EXCEPT ![t] = Created],
             \/ turns' = Append(turns, t)
             \/ /\ turns # << >> /\ turns' = [turns EXCEPT ![Len(turns)] = t]
                /\ tasks[turns[Len(turns)]].status \in Finished
      PROVE  UnfinishedTaskHasTurn'
  <2> SUFFICES ASSUME NEW u \in Tasks, tasks'[u].status \in Unfinished
               PROVE  \E i \in DOMAIN turns' : turns'[i] = u
    BY DEF UnfinishedTaskHasTurn
  <2>1. CASE u = t
    <3>1. CASE turns' = Append(turns, t)
      <4>1. Len(turns) + 1 \in DOMAIN turns' /\ turns'[Len(turns) + 1] = t
        BY <1>1, <3>1
      <4> QED
        BY <2>1, <4>1
    <3>2. CASE turns # << >> /\ turns' = [turns EXCEPT ![Len(turns)] = t]
      <4>1. Len(turns) \in DOMAIN turns
        BY <1>1, <3>2
      <4> QED
        BY <1>1, <2>1, <3>2, <4>1
    <3> QED
      BY <1>2, <3>1, <3>2
  <2>2. CASE u # t
    <3>1. tasks[u].status \in Unfinished
      BY <1>1, <1>2, <2>2
    <3>2. PICK i \in DOMAIN turns : turns[i] = u
      BY <3>1 DEF UnfinishedTaskHasTurn
    <3>3. CASE turns' = Append(turns, t)
      BY <1>1, <3>2, <3>3
    <3>4. CASE /\ turns' = [turns EXCEPT ![Len(turns)] = t]
               /\ tasks[turns[Len(turns)]].status \in Finished
      <4>1. i # Len(turns)
        BY <3>1, <3>2, <3>4 DEF Unfinished, Runnable, Finished
      <4> QED
        BY <1>1, <3>2, <3>4, <4>1
    <3> QED
      BY <1>2, <3>3, <3>4
  <2> QED
    BY <2>1, <2>2
<1>3. ASSUME NEW i \in DOMAIN turns, Answer(i) \/ Steer(i)
      PROVE  UnfinishedTaskHasTurn'
  <2>1. /\ turns[i] \in Tasks
        /\ UNCHANGED turns
        /\ \A u \in Tasks \ {turns[i]} : tasks'[u] = tasks[u]
    BY <1>1, <1>3 DEF Answer, Steer
  <2> QED
    BY <2>1, ShownKept
<1> QED
  BY <1>2, <1>3 DEF LocalApi, StartTurn, Retry, Regenerate

LEMMA ShownNext ==
  ASSUME CareInv, UnfinishedTaskHasTurn, [LocalNext]_allVars
  PROVE  UnfinishedTaskHasTurn'
<1>1. tasks \in [Tasks -> Record] /\ \A t \in Tasks : Cared(t)
  BY DEF CareInv, LocalInv, IInv, TypeOK
<1>2. ASSUME NEW t \in Tasks, LocalInterrupt(t)
      PROVE  UnfinishedTaskHasTurn'
  <2>1. /\ UNCHANGED turns
        /\ tasks[t].status \in Unfinished
        /\ \A u \in Tasks \ {t} : tasks'[u] = tasks[u]
    BY <1>1, <1>2 DEF LocalInterrupt, Interrupt
  <2>2. \A u \in Tasks : tasks'[u] = tasks[u] \/ tasks[u].status \in Unfinished
    BY <2>1
  <2> QED
    BY <2>1, <2>2, ShownKept
<1>3. ASSUME NEW e \in Executions, LocalExecution(e)
      PROVE  UnfinishedTaskHasTurn'
  <2>1. ExecutionStep(e) /\ UNCHANGED turns
    BY <1>3 DEF LocalExecution, ExecutionStep, Claim, Skip, Checkpoint, FinishCancelled,
                FinishSuperseded, FinishForSteer, Deliver, RequeueAfterAbort, FailUnrecorded,
                storeVars
  <2>2. PICK t : t = execs[e].task
    OBVIOUS
  <2>3. \/ UNCHANGED tasks
        \/ /\ \A u \in Tasks \ {t} : tasks'[u] = tasks[u]
           /\ \/ Claimable(tasks[t], execs[e].takeover)
              \/ tasks[t].status = "running"
              \/ tasks[t].active = e /\ ~ tasks[t].cancelRequested
    BY <1>1, <2>1, <2>2
       DEF ExecutionStep, Claim, Skip, Checkpoint, Writable, FinishCancelled, FinishSuperseded,
           FinishForSteer, MayFinish, Deliver, RequeueAfterAbort, FailUnrecorded, storeVars, Owns,
           ExecutionMatches
  <2>4. \A u \in Tasks : tasks'[u] = tasks[u] \/ tasks[u].status \in Unfinished
    BY <1>1, <2>3, TaskRecordAssumption
       DEF Claimable, Cared, RecordInOrder, Unfinished, Runnable
  <2> QED
    BY <2>1, <2>4, ShownKept
<1>4. CASE \/ \E t \in Tasks : StartRecovered(t)
           \/ \E e \in Executions : Redispatch(e)
           \/ Shutdown \/ ProcessDies \/ Listen \/ UNCHANGED allVars
  <2>1. UNCHANGED <<tasks, turns>>
    BY <1>4 DEF StartRecovered, Redispatch, Shutdown, ProcessDies, Listen, allVars, vars, storeVars
  <2> QED
    BY <2>1, ShownKept
<1>5. CASE Boot
  <2>1. UNCHANGED turns /\ \A t \in Tasks : tasks'[t] = tasks[t] \/ tasks[t].status \in Unfinished
    BY <1>5 DEF Boot, RecoverAll, Unfinished
  <2> QED
    BY <2>1, ShownKept
<1> QED
  BY <1>2, <1>3, <1>4, <1>5, ShownByApi DEF LocalNext

-----------------------------------------------------------------------------
(* Theorems.                                                               *)

\* The registry, the boot and the shutdown of the process start, abort and lose
\* executions in no way TaskExecution does not allow.
THEOREM LocalRefinement == LocalSafetySpec => RefinesTaskExecution
<1>1. LocalInit => LocalInv /\ Init
  BY LocalInitInv DEF LocalInit
<1> QED
  BY <1>1, LocalNextInv, PTL DEF LocalSafetySpec, Spec, RefinesTaskExecution

\* So the server that runs tasks itself keeps what a turn promises its user.
THEOREM LocalKeepsPromise == LocalSafetySpec => KeepsPromise
  BY LocalRefinement, Refinement, PTL DEF RefinesTaskExecution

\* The store, the executions and the registry have the shape the handlers, the
\* boot and the shutdown assume.
THEOREM LocalTypeCorrect == LocalSafetySpec => []LocalTypeOK
<1> USE LocalRuntimeAssumption
<1>1. LocalInit => LocalInv /\ CrashesAreBounded
  BY LocalInitInv DEF LocalInit, CrashesAreBounded
<1>2. CrashesAreBounded /\ [LocalNext]_allVars => CrashesAreBounded'
  BY DEF CrashesAreBounded, LocalNext, LocalApi, LocalInterrupt, StartRecovered, LocalExecution, Redispatch,
         Shutdown, ProcessDies, Boot, Listen, allVars, localVars
<1>3. LocalInv /\ CrashesAreBounded => LocalTypeOK
  BY DEF LocalInv, LocalTypes, CrashesAreBounded, IInv, LocalTypeOK
<1> QED
  BY <1>1, <1>2, <1>3, LocalNextInv, PTL DEF LocalSafetySpec

\* Stopping a task reaches whatever runs it: interruptWritingTask and
\* writingTaskControllers, through steers, answers and restarts.  Where texts
\* hold no choice blocks there is one execution at most; where they do, the
\* registered one is the one that may still write.
THEOREM StopsReachTheRun == LocalSafetySpec => []StopReachesTheRun
<1>1. CASE ChoiceBlocks
  <2>1. ASSUME CareInv PROVE StopReachesTheRun
    <3> SUFFICES ASSUME NEW e \in Executions, proc = "up", Live(e),
                        tasks[execs[e].task].status = "cancelled",
                        execs[e].pc = "starting" \/ Owns(e)
                 PROVE  execs[e].aborted
      BY <1>1 DEF StopReachesTheRun, Live
    <3>1. PICK t \in Tasks : execs[e].task = t
      BY <2>1 DEF CareInv, LocalInv, IInv, Strengthening, ExecutionsHaveTasks, Live
    <3>2. Attended(t)
      BY <2>1 DEF CareInv, Cared
    <3> QED
      BY <3>1, <3>2 DEF Attended, QueuesInOrder, WritesInOrder, Queues, Writes, Owns, Live
  <2> QED
    BY <2>1, CareInit, CareNext, PTL DEF LocalSafetySpec
<1>2. CASE ~ ChoiceBlocks
  <2>1. OneExecutionInv /\ [LocalNext]_allVars => OneExecutionInv'
    BY <1>2, OneExecutionNext
  <2>2. OneExecutionInv => StopReachesTheRun
    BY DEF OneExecutionInv, WorkInv, StoppedAreAborted, StopReachesTheRun
  <2> QED
    BY <2>1, <2>2, OneExecutionInit, PTL DEF LocalSafetySpec
<1> QED
  BY <1>1, <1>2

\* While the process serves, a queued task has an execution on its way: no
\* handler, requeue, crash or boot leaves it behind, choices answered while they
\* are streamed included.
THEOREM QueuedTasksAreDispatched == LocalSafetySpec => []QueuedIsDispatched
<1>1. CareInv => QueuedIsDispatched
  BY DEF CareInv, Cared, BootInOrder, Attended, QueuedHasOne, Queues, QueuedIsDispatched
<1> QED
  BY <1>1, CareInit, CareNext, PTL DEF LocalSafetySpec

\* And a task that is shown as running has a live execution that owns it, unless
\* a model call failed (run local_failure shows what its catch block does then).
THEOREM RunningTasksAreOwned == ~ ModelFailures => (LocalSafetySpec => []RunningIsOwned)
<1> SUFFICES ASSUME ~ ModelFailures PROVE LocalSafetySpec => []RunningIsOwned
  OBVIOUS
<1>1. CareInv => RunningIsOwned
  BY DEF CareInv, Cared, Attended, RunningHasOne, Writes, Owns, RunningIsOwned
<1> QED
  BY <1>1, CareInit, CareNext, PTL DEF LocalSafetySpec

\* No task works on, or asks, behind a turn that was answered anew: regeneration
\* replaces tasks that are over, and those stay over when nothing shows them.
THEOREM UnfinishedTasksAreShown == LocalSafetySpec => []UnfinishedTaskHasTurn
<1>1. LocalInit => UnfinishedTaskHasTurn
  BY DEF LocalInit, Init, Absent, Fresh, UnfinishedTaskHasTurn, Unfinished, Runnable
<1>2. CareInv /\ UnfinishedTaskHasTurn /\ [LocalNext]_allVars => UnfinishedTaskHasTurn'
  BY ShownNext
<1> QED
  BY <1>1, <1>2, CareInit, CareNext, PTL DEF LocalSafetySpec

\* Where texts hold no choice blocks, steers enter a task's input in the order
\* given, through requeues, crashes and the boot.
THEOREM SteersKeepTheirOrder == ~ ChoiceBlocks => (LocalSafetySpec => []SteersMergeInOrder)
<1> SUFFICES ASSUME ~ ChoiceBlocks PROVE LocalSafetySpec => []SteersMergeInOrder
  OBVIOUS
<1>1. OneExecutionInv /\ [LocalNext]_allVars => OneExecutionInv'
  BY OneExecutionNext
<1>2. OneExecutionInv => SteersMergeInOrder
  BY DEF OneExecutionInv, RecordsAreOrderly, Orderly, SteersMergeInOrder
<1> QED
  BY <1>1, <1>2, OneExecutionInit, PTL DEF LocalSafetySpec
=============================================================================
