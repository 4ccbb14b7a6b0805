------------------------ MODULE TaskExecution_proofs ------------------------
(***************************************************************************)
(* What TaskExecution guarantees for any number of tasks, executions and   *)
(* steers, proved from an inductive invariant.                             *)
(***************************************************************************)
EXTENDS TaskExecution, TLAPS

(***************************************************************************)
(* The records.                                                            *)
(***************************************************************************)

\* A record that does not exist yet, and one createWritingTask makes, are records.
LEMMA CreationTyped ==
    Absent \in Record /\ Created \in Record
  BY TaskRecordAssumption
     DEF Absent, Created, Fresh, Record, Status, Unfinished, Runnable, Finished, Revisions

\* The counters that updates count up, and the sets that steers move through.
LEMMA Fields ==
  ASSUME NEW r \in Record
  PROVE  /\ r.gen \in Nat /\ r.gen + 1 \in Nat
         /\ r.attempt \in Nat /\ r.attempt + 1 \in Nat
         /\ r.pending \in SUBSET Revisions /\ r.merged \in SUBSET Revisions
         /\ r.merged \cup r.pending \in SUBSET Revisions
         /\ r.active \in Executions \cup {NoExecution}
         /\ r.status \in Status
         /\ r.steerRevision \in 0..MaxSteers
  BY DEF Record

\* Every update of the executor keeps a record a record.
LEMMA ExecutorUpdatesTyped ==
  ASSUME NEW r \in Record, NEW e \in Executions, NEW b \in BOOLEAN,
         NEW kind \in {"completed", "needs_input"}
  PROVE  /\ Claimed(r, e, b) \in Record
         /\ Checkpointed(r, e, b) \in Record
         /\ SteersApplied(r) \in Record
         /\ Delivered(r, e, kind) \in Record
         /\ RequeuedOnAbort(r) \in Record
<1> USE DEF Status, Unfinished, Runnable, Finished
<1>1. Claimed(r, e, b) \in Record
  <2> DEFINE recover == r.resume \/ (b /\ r.status = "running")
             g == IF b /\ r.status = "running" THEN r.gen + 1 ELSE r.gen
             o == IF recover THEN r.output ELSE NoExecution
             c == IF recover THEN r.choice ELSE FALSE
  <2>1. g \in Nat
    BY Fields
  <2>2. o \in Executions \cup {NoExecution} /\ c \in BOOLEAN
    BY DEF Record
  <2>3. Claimed(r, e, b) =
           [r EXCEPT !.status = "running", !.gen = g, !.active = e,
                     !.resume = FALSE, !.output = o, !.choice = c]
    BY Zenon DEF Claimed
  <2> HIDE DEF recover, g, o, c
  <2> QED
    BY <2>1, <2>2, <2>3 DEF Record
<1>2. Checkpointed(r, e, b) \in Record
  BY DEF Checkpointed, Record
<1>3. SteersApplied(r) \in Record
  BY Fields, Zenon DEF SteersApplied, Record
<1>4. Delivered(r, e, kind) \in Record
  BY DEF Delivered, Record
<1>5. RequeuedOnAbort(r) \in Record
  BY Fields, Zenon DEF RequeuedOnAbort, Record
<1> QED
  BY <1>1, <1>2, <1>3, <1>4, <1>5

\* So does every update of the API's handlers.
LEMMA ApiUpdatesTyped ==
  ASSUME NEW r \in Record
  PROVE  /\ r.steerRevision < MaxSteers => Steered(r) \in Record
         /\ Answered(r) \in Record
         /\ Interrupted(r) \in Record
         /\ DispatchFailed(r) \in Record
         /\ Recovered(r) \in Record
<1> USE DEF Status, Unfinished, Runnable, Finished
<1>1. r.steerRevision < MaxSteers => Steered(r) \in Record
  <2> DEFINE rev == r.steerRevision + 1
  <2>1. r.steerRevision < MaxSteers => rev \in 0..MaxSteers /\ rev \in Revisions
    <3>1. r.steerRevision \in 0..MaxSteers
      BY Fields
    <3> QED
      BY <3>1, TaskRecordAssumption DEF Revisions
  <2>2. rev \in Revisions => /\ r.merged \cup {rev} \in SUBSET Revisions
                             /\ r.pending \cup {rev} \in SUBSET Revisions
    <3>1. r.pending \in SUBSET Revisions /\ r.merged \in SUBSET Revisions
      BY Fields
    <3> HIDE DEF rev
    <3> QED
      BY <3>1
  <2> DEFINE m == r.merged \cup {rev}
             q == r.pending \cup {rev}
  <2>3. Steered(r) \in {[r EXCEPT !.steerRevision = rev, !.merged = m],
                        [r EXCEPT !.steerRevision = rev, !.pending = q]}
    BY Zenon DEF Steered
  <2> SUFFICES ASSUME r.steerRevision < MaxSteers PROVE Steered(r) \in Record
    OBVIOUS
  <2>4. rev \in 0..MaxSteers /\ m \in SUBSET Revisions /\ q \in SUBSET Revisions
    BY <2>1, <2>2
  <2> HIDE DEF rev, m, q
  <2>5. [r EXCEPT !.steerRevision = rev, !.merged = m] \in Record
    BY <2>4 DEF Record
  <2>6. [r EXCEPT !.steerRevision = rev, !.pending = q] \in Record
    BY <2>4 DEF Record
  <2> QED
    BY <2>3, <2>5, <2>6, Zenon
<1>2. Answered(r) \in Record
  BY Fields, Zenon DEF Answered, Record
<1>3. Interrupted(r) \in Record
  BY DEF Interrupted, Record
<1>4. DispatchFailed(r) \in Record
  BY DEF DispatchFailed, Record
<1>5. Recovered(r) \in Record
  BY DEF Recovered, Record
<1> QED
  BY <1>1, <1>2, <1>3, <1>4, <1>5
-----------------------------------------------------------------------------
(***************************************************************************)
(* The inductive invariant.  The properties of TaskExecution are not       *)
(* inductive: what rules a second result out is that a round with a result *)
(* has no owner, and what makes a result hear every steer is that the      *)
(* owner of a task read the input as it still is.                          *)
(***************************************************************************)

\* An execution that was ever started has a task, so the record it reads exists.
ExecutionsHaveTasks ==
    \A e \in Executions : execs[e].pc # "unused" => execs[e].task \in Tasks

\* Whatever requeues a task disowns it.
QueuedHasNoOwner ==
    \A t \in Tasks : tasks[t].status = "queued" => tasks[t].active = NoExecution

\* The owner of a task has claimed it: an execution id is no owner before its
\* execution claims, so a claim never makes an old claim valid again.
OwnersHaveRun ==
    \A t \in Tasks, e \in Executions :
        tasks[t].active = e => execs[e].pc \in {"running", "done"}

\* What the owner read at its claim is still the whole input.
OwnersHeardTheInput ==
    \A e \in Executions :
        execs[e].pc = "running" /\ Owns(e) =>
            execs[e].heard = tasks[execs[e].task].merged

\* A round with a result has no owner, and only a later round can get one.
DeliveredRoundIsOver ==
    \A d \in delivered :
        LET r == tasks[d.task] IN
        /\ r.status # "absent"
        /\ d.attempt <= r.attempt
        /\ d.attempt = r.attempt =>
                /\ r.active = NoExecution
                /\ r.status \in {"waiting_input", "completed", "cancelled"}

\* A cancelled task refuses every claim and every final update.
CancelledIsRequested ==
    \A t \in Tasks : tasks[t].status = "cancelled" => tasks[t].cancelRequested

Strengthening ==
    /\ ExecutionsHaveTasks
    /\ QueuedHasNoOwner
    /\ OwnersHaveRun
    /\ OwnersHeardTheInput
    /\ DeliveredRoundIsOver
    /\ CancelledIsRequested

IInv ==
    /\ TypeOK
    /\ Strengthening
    /\ OneDeliveryPerAttempt
    /\ DeliveryHeardEverySteer
    /\ OutputLineage
-----------------------------------------------------------------------------
(***************************************************************************)
(* All but two actions, Claim and Deliver, are quiet: they start no round  *)
(* and end none with a result, and take nothing from an owner but its task.*)
(***************************************************************************)

\* An update that makes nobody an owner and leaves no new result.
QuietUpdate(r, s) ==
    /\ s \in Record
    /\ s.status = "queued" => s.active = NoExecution
    /\ s.active \in {r.active, NoExecution}
    /\ s.active # NoExecution => s.gen = r.gen /\ s.merged = r.merged
    /\ r.status # "absent" => s.status # "absent" /\ r.attempt <= s.attempt
    /\ r.active = NoExecution /\ r.status \in {"waiting_input", "completed", "cancelled"} =>
        \/ r.attempt < s.attempt
        \/ s.active = NoExecution /\ s.status = "cancelled"
    /\ s.status \notin {"waiting_input", "completed"}
    /\ s.status = "running" =>
        /\ r.status = "running"
        /\ s.active = r.active
        /\ s.output \in {r.output, s.active}
    /\ s.status = "cancelled" => s.cancelRequested
    /\ r.status \in {"completed", "cancelled"} /\ s.status # r.status =>
        r.choice /\ s.attempt = r.attempt + 1

QuietTasks ==
    /\ DOMAIN tasks' = Tasks
    /\ tasks' = [t \in Tasks |-> tasks'[t]]
    /\ \A t \in Tasks : tasks'[t] = tasks[t] \/ QuietUpdate(tasks[t], tasks'[t])

QuietExecs ==
    /\ execs' \in [Executions -> Execution]
    /\ \A e \in Executions :
        /\ execs'[e].pc # "unused" => execs'[e].task \in Tasks
        /\ execs[e].pc \in {"running", "done"} => execs'[e].pc \in {"running", "done"}
        /\ execs'[e].pc = "running" =>
            /\ execs[e].pc = "running"
            /\ execs'[e].task = execs[e].task
            /\ execs'[e].gen = execs[e].gen
            /\ execs'[e].heard = execs[e].heard
            /\ execs'[e].base = execs[e].base

QuietThread ==
    /\ parent' \in [Tasks -> Tasks \cup {NoTask}]
    /\ turns' \in Seq(Tasks)
    /\ delivered' = delivered

Quiet == QuietTasks /\ QuietExecs /\ QuietThread

\* A quiet step preserves the invariant, and undoes nothing that is finished.
LEMMA QuietStep ==
  ASSUME IInv, Quiet
  PROVE  /\ IInv'
         /\ \A t \in Tasks :
                tasks[t].status \in {"completed", "cancelled"} /\ tasks'[t].status # tasks[t].status
                    => tasks[t].choice /\ tasks'[t].attempt = tasks[t].attempt + 1
<1> USE DEF IInv, Quiet, QuietTasks, QuietThread
<1>1. \A t \in Tasks : tasks[t] \in Record /\ tasks'[t] \in Record
  BY DEF TypeOK, QuietUpdate
<1>2. TypeOK'
  BY <1>1, Zenon DEF TypeOK, QuietExecs
<1>3. ExecutionsHaveTasks'
  BY DEF ExecutionsHaveTasks, QuietExecs
<1>4. QueuedHasNoOwner'
  BY DEF Strengthening, QueuedHasNoOwner, QuietUpdate
<1>5. OwnersHaveRun'
  <2> SUFFICES ASSUME NEW t \in Tasks, NEW e \in Executions, tasks'[t].active = e
               PROVE  execs'[e].pc \in {"running", "done"}
    BY DEF OwnersHaveRun
  <2>1. tasks[t].active = e
    BY TaskRecordAssumption DEF QuietUpdate
  <2> QED
    BY <2>1 DEF Strengthening, OwnersHaveRun, QuietExecs
<1>6. OwnersHeardTheInput'
  <2> SUFFICES ASSUME NEW e \in Executions, execs'[e].pc = "running", Owns(e)'
               PROVE  execs'[e].heard = tasks'[execs'[e].task].merged
    BY DEF OwnersHeardTheInput
  <2> DEFINE t == execs[e].task
  <2>1. /\ execs[e].pc = "running" /\ execs'[e].task = t
        /\ execs'[e].gen = execs[e].gen /\ execs'[e].heard = execs[e].heard
        /\ t \in Tasks
    BY DEF QuietExecs, Strengthening, ExecutionsHaveTasks
  <2>2. tasks'[t].active = e /\ tasks'[t].gen = execs[e].gen
    BY <2>1 DEF Owns, ExecutionMatches
  <2>3. tasks[t].active = e /\ tasks[t].gen = execs[e].gen /\ tasks'[t].merged = tasks[t].merged
    BY <2>1, <2>2, TaskRecordAssumption DEF QuietUpdate
  <2> QED
    BY <2>1, <2>3 DEF Strengthening, OwnersHeardTheInput, Owns, ExecutionMatches
<1>7. DeliveredRoundIsOver'
  <2> SUFFICES ASSUME NEW d \in delivered
               PROVE  /\ tasks'[d.task].status # "absent"
                      /\ d.attempt <= tasks'[d.task].attempt
                      /\ d.attempt = tasks'[d.task].attempt =>
                            /\ tasks'[d.task].active = NoExecution
                            /\ tasks'[d.task].status \in {"waiting_input", "completed", "cancelled"}
    BY DEF DeliveredRoundIsOver
  <2> DEFINE r == tasks[d.task]  s == tasks'[d.task]
  <2>1. d.task \in Tasks /\ d.attempt \in Nat
    BY DEF TypeOK, Delivery
  <2>2. r.attempt \in Nat /\ s.attempt \in Nat
    BY <1>1, <2>1, Fields
  <2>3. /\ r.status # "absent"
        /\ d.attempt <= r.attempt
        /\ d.attempt = r.attempt =>
              /\ r.active = NoExecution
              /\ r.status \in {"waiting_input", "completed", "cancelled"}
    BY DEF Strengthening, DeliveredRoundIsOver
  <2>4. s = r \/ QuietUpdate(r, s)
    BY <2>1
  <2> QED
    BY <2>1, <2>2, <2>3, <2>4 DEF QuietUpdate
<1>8. CancelledIsRequested'
  BY DEF Strengthening, CancelledIsRequested, QuietUpdate
<1>9. OneDeliveryPerAttempt'
  BY DEF OneDeliveryPerAttempt
<1>10. DeliveryHeardEverySteer'
  BY DEF DeliveryHeardEverySteer, QuietUpdate
<1>11. OutputLineage'
  <2> SUFFICES ASSUME NEW t \in Tasks, tasks'[t].status = "running"
               PROVE  /\ tasks'[t].active # NoExecution
                      /\ execs'[tasks'[t].active].pc \in {"starting", "running"} =>
                            tasks'[t].output \in {tasks'[t].active, execs'[tasks'[t].active].base}
    BY Zenon DEF OutputLineage, Live
  <2> DEFINE e == tasks[t].active
  <2>1. /\ tasks[t].status = "running" /\ tasks'[t].active = e
        /\ tasks'[t].output \in {tasks[t].output, e}
    BY DEF QuietUpdate
  <2>2. e # NoExecution /\ (Live(e) => tasks[t].output \in {e, execs[e].base})
    BY <2>1 DEF OutputLineage
  <2>3. e \in Executions
    BY <1>1, <2>2, Fields
  <2>4. execs[e].pc \in {"running", "done"} /\ execs'[e].pc \in {"running", "done"}
    BY <2>3 DEF Strengthening, OwnersHaveRun, QuietExecs
  <2>5. execs'[e].pc \in {"starting", "running"} => Live(e) /\ execs'[e].base = execs[e].base
    BY <2>3, <2>4 DEF Live, QuietExecs
  <2> QED
    BY <2>1, <2>2, <2>5
<1>12. ASSUME NEW t \in Tasks,
              tasks[t].status \in {"completed", "cancelled"}, tasks'[t].status # tasks[t].status
       PROVE  tasks[t].choice /\ tasks'[t].attempt = tasks[t].attempt + 1
  BY <1>12 DEF QuietUpdate
<1> QED
  BY <1>2, <1>3, <1>4, <1>5, <1>6, <1>7, <1>8, <1>9, <1>10, <1>11, <1>12 DEF Strengthening
-----------------------------------------------------------------------------
(* What the runtime does to executions is quiet.                           *)

\* So are the executions that start and the ones that return.
LEMMA UnusedTyped ==
  /\ Unused \in Execution
  /\ \A t \in Tasks, b \in BOOLEAN :
        [Unused EXCEPT !.pc = "starting", !.task = t, !.takeover = b] \in Execution
  /\ \A t \in Tasks :
        [Unused EXCEPT !.pc = "starting", !.task = t] \in Execution
  /\ \A t \in Tasks, o \in Outcomes : Returned(t, o) \in Execution
  BY DEF Unused, Execution, Returned, Outcomes

\* Spawning, aborting, losing an execution and handling its return claim nothing
\* and deliver nothing.
LEMMA QuietRuntime ==
  ASSUME TypeOK, ExecutionsHaveTasks
  PROVE  /\ UNCHANGED execs => QuietExecs
         /\ \A e \in Executions, t \in Tasks, b \in BOOLEAN : Spawn(e, t, b) => QuietExecs
         /\ \A E \in SUBSET Executions : Abort(E) \/ Lose(E) => QuietExecs
         /\ \A e \in Executions : HandleReturn(e) => QuietExecs
         /\ \A e \in Executions, o \in Outcomes :
                execs[e].pc \in {"starting", "running"} /\ Settle(e, o) => QuietExecs
<1> USE DEF TypeOK, ExecutionsHaveTasks, QuietExecs
<1>1. UNCHANGED execs => QuietExecs
  OBVIOUS
<1>2. ASSUME NEW e \in Executions, NEW t \in Tasks, NEW b \in BOOLEAN, Spawn(e, t, b)
      PROVE  QuietExecs
  <2> DEFINE x == [Unused EXCEPT !.pc = "starting", !.task = t, !.takeover = b]
  <2>1. x \in Execution /\ x.pc = "starting" /\ x.task = t
    BY UnusedTyped DEF Unused
  <2>2. execs[e].pc = "unused" /\ execs' = [execs EXCEPT ![e] = x]
    BY <1>2 DEF Spawn
  <2> HIDE DEF x
  <2> QED
    BY <2>1, <2>2
<1>3. ASSUME NEW E \in SUBSET Executions, Abort(E)
      PROVE  QuietExecs
  <2>1. \A e \in Executions :
            /\ [execs[e] EXCEPT !.aborted = TRUE] \in Execution
            /\ [execs[e] EXCEPT !.aborted = TRUE].pc = execs[e].pc
            /\ [execs[e] EXCEPT !.aborted = TRUE].task = execs[e].task
            /\ [execs[e] EXCEPT !.aborted = TRUE].gen = execs[e].gen
            /\ [execs[e] EXCEPT !.aborted = TRUE].heard = execs[e].heard
            /\ [execs[e] EXCEPT !.aborted = TRUE].base = execs[e].base
    BY DEF Execution
  <2>2. \A e \in Executions : execs'[e] \in {execs[e], [execs[e] EXCEPT !.aborted = TRUE]}
    BY <1>3 DEF Abort
  <2>3. execs' \in [Executions -> Execution]
    BY <1>3, <2>1 DEF Abort
  <2> QED
    BY <2>1, <2>2, <2>3
<1>4. ASSUME NEW E \in SUBSET Executions, Lose(E)
      PROVE  QuietExecs
  <2>1. \A t : Returned(t, "none").pc = "done" /\ Returned(t, "none").task = t
    BY DEF Returned, Unused
  <2>2. \A t \in Tasks : Returned(t, "none") \in Execution
    BY UnusedTyped DEF Outcomes
  <2>3. execs' \in [Executions -> Execution]
    BY <1>4, <2>2 DEF Lose
  <2> QED
    BY <1>4, <2>1, <2>3 DEF Lose
<1>5. ASSUME NEW e \in Executions, HandleReturn(e)
      PROVE  QuietExecs
  <2> DEFINE x == [execs[e] EXCEPT !.outcome = "settled"]
             y == [Unused EXCEPT !.pc = "starting", !.task = execs[e].task]
  <2>1. execs[e].pc = "done" /\ execs[e].task \in Tasks
    BY <1>5 DEF HandleReturn
  <2>2. x \in Execution /\ x.pc = "done" /\ x.task = execs[e].task
    BY <2>1 DEF Execution, Outcomes
  <2>3. y \in Execution /\ y.pc = "starting" /\ y.task = execs[e].task
    BY <2>1, UnusedTyped DEF Unused
  <2>4. CASE execs' = Handled(e)
    <3>1. execs' = [execs EXCEPT ![e] = x]
      BY <2>4 DEF Handled
    <3> HIDE DEF x, y
    <3> QED
      BY <2>1, <2>2, <3>1
  <2>5. CASE \E f \in Executions :
                execs[f].pc = "unused" /\ execs' = HandledAndRestarted(e, f)
    <3>1. PICK f \in Executions :
                execs[f].pc = "unused" /\ execs' = HandledAndRestarted(e, f)
      BY <2>5
    <3>2. e # f /\ execs' = [execs EXCEPT ![e] = x, ![f] = y]
      BY <2>1, <3>1 DEF HandledAndRestarted
    <3> HIDE DEF x, y
    <3> QED
      BY <2>1, <2>2, <2>3, <3>1, <3>2
  <2> QED
    BY <1>5, <2>4, <2>5 DEF HandleReturn
<1>6. ASSUME NEW e \in Executions, NEW o \in Outcomes,
             execs[e].pc \in {"starting", "running"}, Settle(e, o)
      PROVE  QuietExecs
  <2> DEFINE x == Returned(execs[e].task, o)
  <2>1. execs[e].task \in Tasks
    BY <1>6
  <2>2. x \in Execution /\ x.pc = "done" /\ x.task = execs[e].task
    BY <2>1, UnusedTyped DEF Returned, Unused
  <2>3. execs' = [execs EXCEPT ![e] = x]
    BY <1>6 DEF Settle
  <2> HIDE DEF x
  <2> QED
    BY <2>1, <2>2, <2>3
<1> QED
  BY <1>1, <1>2, <1>3, <1>4, <1>5, <1>6
-----------------------------------------------------------------------------
(* The quiet updates of a record, each under the guard of its action.      *)

RecordInv(r) ==
    /\ r \in Record
    /\ r.status = "queued" => r.active = NoExecution
    /\ r.status = "cancelled" => r.cancelRequested
    /\ r.status = "completed" => r.active = NoExecution

\* Each update of the API's handlers, and the boot's, takes a record to one that is
\* owned by no other execution and loses no cancellation.
LEMMA QuietApiUpdates ==
  ASSUME NEW r, RecordInv(r)
  PROVE  /\ r.status = "absent" => QuietUpdate(r, Created)
         /\ Answerable(r) => QuietUpdate(r, Answered(r))
         /\ r.status \in Runnable /\ r.steerRevision < MaxSteers => QuietUpdate(r, Steered(r))
         /\ r.status \in Unfinished => QuietUpdate(r, Interrupted(r))
         /\ r.status \in Runnable => QuietUpdate(r, DispatchFailed(r))
         /\ r.status \in Runnable => QuietUpdate(r, Recovered(r))
<1> USE DEF RecordInv, QuietUpdate, Runnable
<1>0. /\ r \in Record /\ r.attempt \in Nat
      /\ Answered(r) \in Record /\ Interrupted(r) \in Record
      /\ DispatchFailed(r) \in Record /\ Recovered(r) \in Record
      /\ r.steerRevision < MaxSteers => Steered(r) \in Record
  BY ApiUpdatesTyped, Fields
<1>1. r.status = "absent" => QuietUpdate(r, Created)
  BY CreationTyped DEF Created, Fresh
<1>2. Answerable(r) => QuietUpdate(r, Answered(r))
  <2> SUFFICES ASSUME Answerable(r) PROVE QuietUpdate(r, Answered(r))
    OBVIOUS
  <2> DEFINE s == Answered(r)
  <2>1. /\ s.status = "queued" /\ s.active = NoExecution
        /\ s.attempt = r.attempt + 1
        /\ s \in Record
    BY <1>0 DEF Answered, Record
  <2>2. r.status \in {"completed", "cancelled"} => r.choice
    BY DEF Answerable
  <2>3. QuietUpdate(r, s)
    <3> HIDE DEF s
    <3> QED
      BY <1>0, <2>1, <2>2
  <2> QED
    BY <2>3
<1>3. ASSUME r.status \in Runnable, r.steerRevision < MaxSteers
      PROVE  QuietUpdate(r, Steered(r))
  <2> DEFINE s == Steered(r)
  <2>1. /\ s.status = r.status /\ s.active = r.active /\ s.gen = r.gen
        /\ s.attempt = r.attempt /\ s.output = r.output
        /\ r.status # "queued" => s.merged = r.merged
    BY <1>0 DEF Steered, Record
  <2>2. s \in Record
    BY <1>0, <1>3
  <2>3. QuietUpdate(r, s)
    <3> HIDE DEF s
    <3> QED
      BY <1>0, <1>3, <2>1, <2>2
  <2> QED
    BY <2>3
<1>4. r.status \in Unfinished => QuietUpdate(r, Interrupted(r))
  <2> DEFINE s == Interrupted(r)
  <2>1. s.status = "cancelled" /\ s.cancelRequested /\ s.active = r.active
        /\ s.gen = r.gen /\ s.merged = r.merged /\ s.attempt = r.attempt
    BY <1>0 DEF Interrupted, Record
  <2>2. s \in Record
    BY <1>0
  <2>3. r.status \in Unfinished => QuietUpdate(r, s)
    <3> HIDE DEF s
    <3> QED
      BY <1>0, <2>1, <2>2 DEF Unfinished
  <2> QED
    BY <2>3
<1>5. r.status \in Runnable => QuietUpdate(r, DispatchFailed(r))
  <2> DEFINE s == DispatchFailed(r)
  <2>1. s.status = "failed" /\ s.active = r.active
        /\ s.gen = r.gen /\ s.merged = r.merged /\ s.attempt = r.attempt
    BY <1>0 DEF DispatchFailed, Record
  <2>2. s \in Record
    BY <1>0
  <2>3. r.status \in Runnable => QuietUpdate(r, s)
    <3> HIDE DEF s
    <3> QED
      BY <1>0, <2>1, <2>2
  <2> QED
    BY <2>3
<1>6. r.status \in Runnable => QuietUpdate(r, Recovered(r))
  <2> DEFINE s == Recovered(r)
  <2>1. s.status = "queued" /\ s.active = NoExecution /\ s.attempt = r.attempt
    BY <1>0 DEF Recovered, Record
  <2>2. s \in Record
    BY <1>0
  <2>3. r.status \in Runnable => QuietUpdate(r, s)
    <3> HIDE DEF s
    <3> QED
      BY <1>0, <2>1, <2>2
  <2> QED
    BY <2>3
<1> QED
  BY <1>1, <1>2, <1>3, <1>4, <1>5, <1>6

\* So do a checkpoint of the owner, a requeue for a steer and a requeue after an
\* abort.
LEMMA QuietExecutorUpdates ==
  ASSUME NEW r, RecordInv(r), NEW e \in Executions, NEW g, NEW choice \in BOOLEAN,
         ExecutionMatches(r, e, g)
  PROVE  /\ Writable(r, e, g) => QuietUpdate(r, Checkpointed(r, e, choice))
         /\ r.status # "cancelled" => QuietUpdate(r, SteersApplied(r))
         /\ ~ r.cancelRequested => QuietUpdate(r, RequeuedOnAbort(r))
<1> USE DEF RecordInv, QuietUpdate, ExecutionMatches
<1>0. /\ r \in Record /\ r.attempt \in Nat /\ r.active # NoExecution
      /\ Checkpointed(r, e, choice) \in Record /\ SteersApplied(r) \in Record
      /\ RequeuedOnAbort(r) \in Record
  BY ExecutorUpdatesTyped, Fields, TaskRecordAssumption
<1>1. Writable(r, e, g) => QuietUpdate(r, Checkpointed(r, e, choice))
  <2> SUFFICES ASSUME Writable(r, e, g) PROVE QuietUpdate(r, Checkpointed(r, e, choice))
    OBVIOUS
  <2> DEFINE s == Checkpointed(r, e, choice)
  <2>1. /\ s.status = "running" /\ s.active = e /\ s.gen = r.gen
        /\ s.merged = r.merged /\ s.attempt = r.attempt /\ s.output = e
        /\ r.status = "running" /\ r.active = e
    BY <1>0 DEF Checkpointed, Writable, Record
  <2>2. s \in Record
    BY <1>0
  <2>3. QuietUpdate(r, s)
    <3> HIDE DEF s
    <3> QED
      BY <1>0, <2>1, <2>2
  <2> QED
    BY <2>3
<1>2. r.status # "cancelled" => QuietUpdate(r, SteersApplied(r))
  <2> SUFFICES ASSUME r.status # "cancelled" PROVE QuietUpdate(r, SteersApplied(r))
    OBVIOUS
  <2> DEFINE s == SteersApplied(r)
  <2>1. /\ s.status = "queued" /\ s.active = NoExecution /\ s.attempt = r.attempt + 1
    BY <1>0 DEF SteersApplied, Record
  <2>2. s \in Record
    BY <1>0
  <2>3. QuietUpdate(r, s)
    <3> HIDE DEF s
    <3> QED
      BY <1>0, <2>1, <2>2
  <2> QED
    BY <2>3
<1>3. ~ r.cancelRequested => QuietUpdate(r, RequeuedOnAbort(r))
  <2> SUFFICES ASSUME ~ r.cancelRequested PROVE QuietUpdate(r, RequeuedOnAbort(r))
    OBVIOUS
  <2> DEFINE s == RequeuedOnAbort(r)
  <2>1. /\ s.status = "queued" /\ s.active = NoExecution /\ s.attempt = r.attempt
    BY <1>0 DEF RequeuedOnAbort, Record
  <2>2. s \in Record
    BY <1>0
  <2>3. QuietUpdate(r, s)
    <3> HIDE DEF s
    <3> QED
      BY <1>0, <2>1, <2>2
  <2> QED
    BY <2>3
<1> QED
  BY <1>1, <1>2, <1>3

\* The invariant, read at one record.
LEMMA RecordsInv ==
  ASSUME IInv
  PROVE  \A t \in Tasks : RecordInv(tasks[t])
<1> SUFFICES ASSUME NEW t \in Tasks PROVE RecordInv(tasks[t])
  OBVIOUS
<1>1. tasks[t] \in Record
  BY DEF IInv, TypeOK
<1>2. tasks[t].status = "completed" => tasks[t].active = NoExecution
  BY DEF IInv, DeliveryHeardEverySteer, Strengthening, DeliveredRoundIsOver
<1> QED
  BY <1>1, <1>2 DEF IInv, Strengthening, QueuedHasNoOwner, CancelledIsRequested, RecordInv
-----------------------------------------------------------------------------
(* The quiet steps.                                                        *)

\* To write one task quietly is to write the tasks quietly.
LEMMA QuietPut ==
  ASSUME TypeOK, NEW t \in Tasks, NEW x,
         tasks' = [tasks EXCEPT ![t] = x], QuietUpdate(tasks[t], x)
  PROVE  QuietTasks
  BY DEF TypeOK, QuietTasks

\* Writing nothing is quiet.
LEMMA QuietTasksUnchanged ==
  ASSUME TypeOK, UNCHANGED tasks
  PROVE  QuietTasks
  BY DEF TypeOK, QuietTasks

\* What a handler of the API does to the store.
LEMMA QuietApi ==
  ASSUME IInv
  PROVE  /\ \A t \in Tasks : StartTurn(t) => QuietTasks /\ QuietThread
         /\ \A o, t \in Tasks : Retry(o, t) => QuietTasks /\ QuietThread
         /\ \A t \in Tasks : Regenerate(t) => QuietTasks /\ QuietThread
         /\ \A i \in DOMAIN turns : Answer(i) => QuietTasks /\ QuietThread
         /\ \A i \in DOMAIN turns : Steer(i) => QuietTasks /\ QuietThread
         /\ \A t \in Tasks : Interrupt(t) => QuietTasks /\ QuietThread
         /\ \A t \in Tasks : DispatchFails(t) => QuietTasks /\ QuietThread
         /\ RecoverAll => QuietTasks /\ QuietThread
<1>0. /\ TypeOK
      /\ turns \in Seq(Tasks)
      /\ parent \in [Tasks -> Tasks \cup {NoTask}]
      /\ \A i \in DOMAIN turns : turns[i] \in Tasks
      /\ \A t \in Tasks : RecordInv(tasks[t])
  BY RecordsInv DEF IInv, TypeOK
<1>1. ASSUME NEW t \in Tasks, StartTurn(t)
      PROVE  QuietTasks /\ QuietThread
  <2>1. QuietTasks
    BY <1>0, <1>1, QuietApiUpdates, QuietPut DEF StartTurn
  <2>2. QuietThread
    BY <1>0, <1>1 DEF StartTurn, QuietThread
  <2> QED
    BY <2>1, <2>2
<1>2. ASSUME NEW o \in Tasks, NEW t \in Tasks, Retry(o, t)
      PROVE  QuietTasks /\ QuietThread
  <2>1. QuietTasks
    BY <1>0, <1>2, QuietApiUpdates, QuietPut DEF Retry
  <2>2. QuietThread
    BY <1>0, <1>2 DEF Retry, QuietThread
  <2> QED
    BY <2>1, <2>2
<1>3. ASSUME NEW t \in Tasks, Regenerate(t)
      PROVE  QuietTasks /\ QuietThread
  <2>1. QuietTasks
    BY <1>0, <1>3, QuietApiUpdates, QuietPut DEF Regenerate
  <2>2. Len(turns) \in DOMAIN turns
    BY <1>0, <1>3 DEF Regenerate
  <2>3. QuietThread
    BY <1>0, <1>3, <2>2 DEF Regenerate, QuietThread
  <2> QED
    BY <2>1, <2>3
<1>4. ASSUME NEW i \in DOMAIN turns, Answer(i)
      PROVE  QuietTasks /\ QuietThread
  <2>1. turns[i] \in Tasks /\ RecordInv(tasks[turns[i]]) /\ Answerable(tasks[turns[i]])
    BY <1>0, <1>4 DEF Answer
  <2>2. QuietUpdate(tasks[turns[i]], Answered(tasks[turns[i]]))
    BY <2>1, QuietApiUpdates
  <2>3. QuietTasks
    BY <1>0, <1>4, <2>1, <2>2, QuietPut DEF Answer
  <2>4. QuietThread
    BY <1>0, <1>4 DEF Answer, QuietThread
  <2> QED
    BY <2>3, <2>4
<1>5. ASSUME NEW i \in DOMAIN turns, Steer(i)
      PROVE  QuietTasks /\ QuietThread
  <2>1. turns[i] \in Tasks /\ RecordInv(tasks[turns[i]])
    BY <1>0
  <2>2. QuietUpdate(tasks[turns[i]], Steered(tasks[turns[i]]))
    BY <1>5, <2>1, QuietApiUpdates DEF Steer
  <2>3. QuietTasks
    BY <1>0, <1>5, <2>1, <2>2, QuietPut DEF Steer
  <2>4. QuietThread
    BY <1>0, <1>5 DEF Steer, QuietThread
  <2> QED
    BY <2>3, <2>4
<1>6. ASSUME NEW t \in Tasks, Interrupt(t)
      PROVE  QuietTasks /\ QuietThread
  <2>1. QuietUpdate(tasks[t], Interrupted(tasks[t]))
    BY <1>0, <1>6, QuietApiUpdates DEF Interrupt
  <2>2. QuietTasks
    BY <1>0, <1>6, <2>1, QuietPut DEF Interrupt
  <2>3. QuietThread
    BY <1>0, <1>6 DEF Interrupt, QuietThread
  <2> QED
    BY <2>2, <2>3
<1>7. ASSUME NEW t \in Tasks, DispatchFails(t)
      PROVE  QuietTasks /\ QuietThread
  <2>1. QuietUpdate(tasks[t], DispatchFailed(tasks[t]))
    BY <1>0, <1>7, QuietApiUpdates DEF DispatchFails
  <2>2. QuietTasks
    BY <1>0, <1>7, <2>1, QuietPut DEF DispatchFails
  <2>3. QuietThread
    BY <1>0, <1>7 DEF DispatchFails, QuietThread
  <2> QED
    BY <2>2, <2>3
<1>8. ASSUME RecoverAll
      PROVE  QuietTasks /\ QuietThread
  <2>1. \A t \in Tasks :
            tasks[t].status \in Runnable => QuietUpdate(tasks[t], Recovered(tasks[t]))
    BY <1>0, QuietApiUpdates
  <2>2. QuietTasks
    BY <1>8, <2>1 DEF RecoverAll, QuietTasks
  <2>3. QuietThread
    BY <1>0, <1>8 DEF RecoverAll, QuietThread
  <2> QED
    BY <2>2, <2>3
<1> QED
  BY <1>1, <1>2, <1>3, <1>4, <1>5, <1>6, <1>7, <1>8

\* A handler with its dispatch or its abort is quiet.
LEMMA QuietApiStep ==
  ASSUME IInv, ApiStep
  PROVE  Quiet
<1>0. /\ TypeOK /\ ExecutionsHaveTasks
      /\ \A i \in DOMAIN turns : turns[i] \in Tasks
  BY DEF IInv, Strengthening, TypeOK
<1>1. ASSUME NEW t \in Tasks, DispatchTo(t)
      PROVE  QuietExecs
  BY <1>0, <1>1, QuietRuntime DEF DispatchTo
<1>2. CASE \E t \in Tasks :
              /\ StartTurn(t) \/ (\E o \in Tasks : Retry(o, t)) \/ Regenerate(t)
              /\ DispatchTo(t)
  BY <1>1, <1>2, QuietApi DEF Quiet
<1>3. CASE \E i \in DOMAIN turns : Answer(i) /\ DispatchTo(turns[i])
  BY <1>0, <1>1, <1>3, QuietApi DEF Quiet
<1>4. CASE \E i \in DOMAIN turns : Steer(i) /\ UNCHANGED execs
  BY <1>0, <1>4, QuietApi, QuietRuntime DEF Quiet
<1>5. CASE \E t \in Tasks, E \in SUBSET Executions : Interrupt(t) /\ Abort(E)
  BY <1>0, <1>5, QuietApi, QuietRuntime DEF Quiet
<1>6. CASE \E t \in Tasks : DispatchFails(t) /\ UNCHANGED execs
  BY <1>0, <1>6, QuietApi, QuietRuntime DEF Quiet
<1>7. CASE RecoverAll /\ UNCHANGED execs
  BY <1>0, <1>7, QuietApi, QuietRuntime DEF Quiet
<1> QED
  BY <1>2, <1>3, <1>4, <1>5, <1>6, <1>7 DEF ApiStep

\* A step that leaves the store alone leaves the thread and its tasks alone.
LEMMA StoreUnchanged ==
  ASSUME TypeOK, UNCHANGED <<storeVars, delivered>>
  PROVE  QuietTasks /\ QuietThread
  BY QuietTasksUnchanged DEF TypeOK, storeVars, QuietThread

\* The steps of the runtime are quiet.
LEMMA QuietRuntimeStep ==
  ASSUME IInv, RuntimeStep
  PROVE  Quiet
<1>1. QuietTasks /\ QuietThread
  BY StoreUnchanged DEF IInv, RuntimeStep
<1>2. QuietExecs
  BY QuietRuntime DEF IInv, Strengthening, RuntimeStep
<1> QED
  BY <1>1, <1>2 DEF Quiet

\* Every step of an execution but Claim and Deliver.
LEMMA QuietExecutionStep ==
  ASSUME IInv, NEW e \in Executions, ExecutionStep(e)
  PROVE  \/ Claim(e)
         \/ \E kind \in {"completed", "needs_input"} : Deliver(e, kind)
         \/ Quiet
<1> DEFINE t == execs[e].task
<1>0. /\ TypeOK /\ ExecutionsHaveTasks
      /\ execs[e].pc \in {"starting", "running"} => t \in Tasks /\ RecordInv(tasks[t])
  BY RecordsInv DEF IInv, Strengthening, ExecutionsHaveTasks
<1>1. ASSUME execs[e].pc \in {"starting", "running"}, NEW o \in Outcomes, Settle(e, o)
      PROVE  QuietExecs
  BY <1>0, <1>1, QuietRuntime
<1>2. ASSUME Skip(e) \/ FinishCancelled(e) \/ FinishSuperseded(e) \/ FailUnrecorded(e)
      PROVE  Quiet
  <2>1. QuietTasks /\ QuietThread
    BY <1>0, <1>2, StoreUnchanged DEF Skip, FinishCancelled, FinishSuperseded, FailUnrecorded
  <2>2. QuietExecs
    BY <1>1, <1>2 DEF Skip, FinishCancelled, FinishSuperseded, FailUnrecorded, Outcomes
  <2> QED
    BY <2>1, <2>2 DEF Quiet
<1>3. ASSUME NEW choice \in BOOLEAN, Checkpoint(e, choice)
      PROVE  Quiet
  <2>1. /\ t \in Tasks /\ RecordInv(tasks[t])
        /\ Writable(tasks[t], e, execs[e].gen)
        /\ ExecutionMatches(tasks[t], e, execs[e].gen)
    BY <1>0, <1>3 DEF Checkpoint, Writable
  <2>2. QuietTasks
    BY <1>0, <1>3, <2>1, QuietExecutorUpdates, QuietPut DEF Checkpoint
  <2>3. QuietExecs
    BY <1>0, <1>3, QuietRuntime DEF Checkpoint
  <2> QED
    BY <1>0, <1>3, <2>2, <2>3 DEF Checkpoint, Quiet, QuietThread, TypeOK
<1>4. ASSUME FinishForSteer(e)
      PROVE  Quiet
  <2>1. /\ t \in Tasks /\ RecordInv(tasks[t])
        /\ ExecutionMatches(tasks[t], e, execs[e].gen)
        /\ tasks[t].status # "cancelled"
    BY <1>0, <1>4 DEF FinishForSteer, MayFinish, Owns
  <2>2. QuietTasks
    BY <1>0, <1>4, <2>1, QuietExecutorUpdates, QuietPut DEF FinishForSteer
  <2>3. QuietExecs
    BY <1>1, <1>4 DEF FinishForSteer, MayFinish, Outcomes
  <2> QED
    BY <1>0, <1>4, <2>2, <2>3 DEF FinishForSteer, Quiet, QuietThread, TypeOK
<1>5. ASSUME RequeueAfterAbort(e)
      PROVE  Quiet
  <2>1. /\ t \in Tasks /\ RecordInv(tasks[t])
        /\ ExecutionMatches(tasks[t], e, execs[e].gen)
        /\ ~ tasks[t].cancelRequested
    BY <1>0, <1>5 DEF RequeueAfterAbort, Owns
  <2>2. QuietTasks
    BY <1>0, <1>5, <2>1, QuietExecutorUpdates, QuietPut DEF RequeueAfterAbort
  <2>3. QuietExecs
    BY <1>1, <1>5 DEF RequeueAfterAbort, Outcomes
  <2> QED
    BY <1>0, <1>5, <2>2, <2>3 DEF RequeueAfterAbort, Quiet, QuietThread, TypeOK
<1> QED
  BY <1>2, <1>3, <1>4, <1>5 DEF ExecutionStep
-----------------------------------------------------------------------------
(* The claim: the task gets its owner, which reads the input.              *)

\* prepare() in executeWritingTask: the new owner reads text and input from the
\* record it claims, so lineage and steers start right; an older owner loses the
\* record, and a round that has a result is never claimed.
LEMMA ClaimPreserves ==
  ASSUME IInv, NEW e \in Executions, Claim(e)
  PROVE  /\ IInv'
         /\ \A t \in Tasks :
                tasks[t].status \in {"completed", "cancelled"} => tasks'[t] = tasks[t]
<1> DEFINE t == execs[e].task
           r == tasks[t]
           s == Claimed(r, e, execs[e].takeover)
           x == [execs[e] EXCEPT !.pc = "running", !.gen = s.gen, !.heard = s.merged,
                                 !.base = s.output, !.takeover = FALSE]
<1>1. /\ TypeOK /\ execs[e] \in Execution /\ execs[e].pc = "starting"
      /\ t \in Tasks /\ RecordInv(r) /\ r \in Record
      /\ execs[e].takeover \in BOOLEAN
  BY RecordsInv DEF IInv, Strengthening, ExecutionsHaveTasks, TypeOK, Claim, Execution, RecordInv
<1>2. s \in Record
  BY <1>1, ExecutorUpdatesTyped, Zenon
<1>3. /\ r.status \in Runnable
      /\ s.status = "running" /\ s.active = e /\ s.merged = r.merged
      /\ s.attempt = r.attempt /\ s.pending = r.pending
  BY <1>1 DEF Claim, Claimable, Claimed, Record, Runnable
<1>4. /\ x \in Execution /\ x.pc = "running" /\ x.task = t /\ x.gen = s.gen
      /\ x.heard = s.merged /\ x.base = s.output
  <2>1. s.gen \in Nat /\ s.merged \in SUBSET Revisions
        /\ s.output \in Executions \cup {NoExecution}
    BY <1>2 DEF Record
  <2> HIDE DEF s
  <2> QED
    BY <1>1, <2>1 DEF Execution
<1>5. /\ tasks' = [tasks EXCEPT ![t] = s]
      /\ execs' = [execs EXCEPT ![e] = x]
      /\ UNCHANGED <<parent, turns, delivered>>
  BY DEF Claim
<1>6. e # NoExecution
  BY TaskRecordAssumption
<1> HIDE DEF s, x
<1> USE DEF IInv
<1>7. /\ tasks'[t] = s /\ \A u \in Tasks : u # t => tasks'[u] = tasks[u]
      /\ execs'[e] = x /\ \A f \in Executions : f # e => execs'[f] = execs[f]
  BY <1>1, <1>5 DEF TypeOK
<1>8. TypeOK'
  BY <1>1, <1>2, <1>4, <1>5 DEF TypeOK
<1>9. ExecutionsHaveTasks'
  BY <1>1, <1>4, <1>7 DEF Strengthening, ExecutionsHaveTasks
<1>10. QueuedHasNoOwner'
  BY <1>3, <1>7 DEF Strengthening, QueuedHasNoOwner
<1>11. OwnersHaveRun'
  BY <1>3, <1>4, <1>7 DEF Strengthening, OwnersHaveRun
<1>12. OwnersHeardTheInput'
  <2> SUFFICES ASSUME NEW f \in Executions, execs'[f].pc = "running", Owns(f)'
               PROVE  execs'[f].heard = tasks'[execs'[f].task].merged
    BY DEF OwnersHeardTheInput
  <2>1. CASE f = e
    BY <1>4, <1>7, <2>1
  <2>2. CASE f # e
    <3>1. execs[f].pc = "running" /\ execs'[f] = execs[f] /\ execs[f].task \in Tasks
      BY <1>7, <2>2 DEF Strengthening, ExecutionsHaveTasks
    <3>2. tasks'[execs[f].task].active = f
      BY <3>1 DEF Owns, ExecutionMatches
    <3>3. tasks'[execs[f].task] = tasks[execs[f].task]
      BY <1>3, <1>7, <2>2, <3>1, <3>2
    <3> QED
      BY <3>1, <3>3 DEF Strengthening, OwnersHeardTheInput, Owns, ExecutionMatches
  <2> QED
    BY <2>1, <2>2
<1>13. DeliveredRoundIsOver'
  <2> SUFFICES ASSUME NEW d \in delivered
               PROVE  /\ tasks'[d.task].status # "absent"
                      /\ d.attempt <= tasks'[d.task].attempt
                      /\ d.attempt = tasks'[d.task].attempt =>
                            /\ tasks'[d.task].active = NoExecution
                            /\ tasks'[d.task].status \in {"waiting_input", "completed", "cancelled"}
    BY <1>5 DEF DeliveredRoundIsOver
  <2>1. d.task \in Tasks
    BY DEF TypeOK, Delivery
  <2> QED
    BY <1>3, <1>7, <2>1 DEF Strengthening, DeliveredRoundIsOver, Runnable
<1>14. CancelledIsRequested'
  BY <1>3, <1>7 DEF Strengthening, CancelledIsRequested
<1>15. OneDeliveryPerAttempt'
  BY <1>5 DEF OneDeliveryPerAttempt
<1>16. DeliveryHeardEverySteer'
  BY <1>3, <1>5, <1>7 DEF DeliveryHeardEverySteer
<1>17. OutputLineage'
  <2> SUFFICES ASSUME NEW u \in Tasks, tasks'[u].status = "running"
               PROVE  /\ tasks'[u].active # NoExecution
                      /\ execs'[tasks'[u].active].pc \in {"starting", "running"} =>
                            tasks'[u].output \in {tasks'[u].active, execs'[tasks'[u].active].base}
    BY Zenon DEF OutputLineage, Live
  <2>1. CASE u = t
    BY <1>3, <1>4, <1>6, <1>7, <2>1
  <2>2. CASE u # t
    <3>1. tasks'[u] = tasks[u]
      BY <1>7, <2>2
    <3>2. tasks[u].active # NoExecution
      BY <3>1 DEF OutputLineage
    <3>3. tasks[u].active \in Executions
      BY <1>1, <3>2, Fields DEF TypeOK
    <3>4. tasks[u].active # e
      BY <1>1, <3>3 DEF Strengthening, OwnersHaveRun
    <3> QED
      BY <1>7, <3>1, <3>3, <3>4 DEF OutputLineage, Live
  <2> QED
    BY <2>1, <2>2
<1>18. \A u \in Tasks :
            tasks[u].status \in {"completed", "cancelled"} => tasks'[u] = tasks[u]
  BY <1>3, <1>7 DEF Runnable
<1> QED
  BY <1>8, <1>9, <1>10, <1>11, <1>12, <1>13, <1>14, <1>15, <1>16, <1>17, <1>18
     DEF Strengthening

-----------------------------------------------------------------------------
(* The delivery: the round ends with the result of its owner.              *)

\* The final update in executeWritingTask: only the owner of the round gets here, it
\* read every merged steer at its claim, and none is pending.
LEMMA DeliverPreserves ==
  ASSUME IInv, NEW e \in Executions, NEW kind \in {"completed", "needs_input"},
         Deliver(e, kind)
  PROVE  /\ IInv'
         /\ \A t \in Tasks :
                tasks[t].status \in {"completed", "cancelled"} => tasks'[t] = tasks[t]
<1> DEFINE t == execs[e].task
           r == tasks[t]
           s == Delivered(r, e, kind)
           x == Returned(t, "settled")
           n == [task |-> t, attempt |-> r.attempt, execution |-> e, heard |-> execs[e].heard]
<1>1. /\ TypeOK /\ execs[e] \in Execution /\ execs[e].pc = "running"
      /\ t \in Tasks /\ RecordInv(r) /\ r \in Record /\ r.attempt \in Nat
      /\ r.active = e /\ r.pending = {} /\ r.status # "cancelled" /\ Owns(e)
  BY RecordsInv, Fields
     DEF IInv, Strengthening, ExecutionsHaveTasks, TypeOK, Deliver, MayFinish, RecordInv,
         Owns, ExecutionMatches
<1>2. s \in Record
  BY <1>1, ExecutorUpdatesTyped, Zenon
<1>3. /\ s.status \in {"waiting_input", "completed"} /\ s.active = NoExecution
      /\ s.merged = r.merged /\ s.attempt = r.attempt /\ s.pending = {}
  BY <1>1 DEF Delivered, Record
<1>4. x \in Execution /\ x.pc = "done" /\ x.task = t
  BY <1>1, UnusedTyped DEF Returned, Unused, Outcomes
<1>5. /\ n \in Delivery /\ n.task = t /\ n.attempt = r.attempt
      /\ n.heard = r.merged
  <2>1. execs[e].heard = r.merged /\ execs[e].heard \in SUBSET Revisions
    BY <1>1 DEF IInv, Strengthening, OwnersHeardTheInput, Execution
  <2> QED
    BY <1>1, <2>1 DEF Delivery
<1>6. /\ tasks' = [tasks EXCEPT ![t] = s]
      /\ execs' = [execs EXCEPT ![e] = x]
      /\ delivered' = delivered \cup {n}
      /\ UNCHANGED <<parent, turns>>
  BY DEF Deliver, Settle
<1>7. e # NoExecution
  BY TaskRecordAssumption
<1> HIDE DEF s, x, n
<1> USE DEF IInv
<1>8. /\ tasks'[t] = s /\ \A u \in Tasks : u # t => tasks'[u] = tasks[u]
      /\ execs'[e] = x /\ \A f \in Executions : f # e => execs'[f] = execs[f]
  BY <1>1, <1>6 DEF TypeOK
<1>9. \A d \in delivered : ~ (d.task = t /\ d.attempt = r.attempt)
  BY <1>1, <1>7 DEF Strengthening, DeliveredRoundIsOver
<1>10. TypeOK'
  BY <1>1, <1>2, <1>4, <1>5, <1>6 DEF TypeOK
<1>11. ExecutionsHaveTasks'
  BY <1>1, <1>4, <1>8 DEF Strengthening, ExecutionsHaveTasks
<1>12. QueuedHasNoOwner'
  BY <1>3, <1>8 DEF Strengthening, QueuedHasNoOwner
<1>13. OwnersHaveRun'
  BY <1>3, <1>4, <1>7, <1>8, TaskRecordAssumption DEF Strengthening, OwnersHaveRun
<1>14. OwnersHeardTheInput'
  <2> SUFFICES ASSUME NEW f \in Executions, execs'[f].pc = "running", Owns(f)'
               PROVE  execs'[f].heard = tasks'[execs'[f].task].merged
    BY DEF OwnersHeardTheInput
  <2>1. f # e
    BY <1>4, <1>8
  <2>2. execs[f].pc = "running" /\ execs'[f] = execs[f] /\ execs[f].task \in Tasks
    BY <1>8, <2>1 DEF Strengthening, ExecutionsHaveTasks
  <2>3. tasks'[execs[f].task].active = f
    BY <2>2 DEF Owns, ExecutionMatches
  <2>4. tasks'[execs[f].task] = tasks[execs[f].task]
    BY <1>3, <1>8, <2>2, <2>3, TaskRecordAssumption
  <2> QED
    BY <2>2, <2>4 DEF Strengthening, OwnersHeardTheInput, Owns, ExecutionMatches
<1>15. DeliveredRoundIsOver'
  <2> SUFFICES ASSUME NEW d \in delivered'
               PROVE  /\ tasks'[d.task].status # "absent"
                      /\ d.attempt <= tasks'[d.task].attempt
                      /\ d.attempt = tasks'[d.task].attempt =>
                            /\ tasks'[d.task].active = NoExecution
                            /\ tasks'[d.task].status \in {"waiting_input", "completed", "cancelled"}
    BY <1>6 DEF DeliveredRoundIsOver
  <2>1. CASE d = n
    BY <1>1, <1>3, <1>5, <1>8, <2>1
  <2>2. CASE d \in delivered
    <3>1. d.task \in Tasks
      BY <2>2 DEF TypeOK, Delivery
    <3> QED
      BY <1>3, <1>8, <1>9, <2>2, <3>1 DEF Strengthening, DeliveredRoundIsOver
  <2> QED
    BY <1>6, <2>1, <2>2
<1>16. CancelledIsRequested'
  BY <1>3, <1>8 DEF Strengthening, CancelledIsRequested
<1>17. OneDeliveryPerAttempt'
  BY <1>5, <1>6, <1>9 DEF OneDeliveryPerAttempt
<1>18. DeliveryHeardEverySteer'
  <2> SUFFICES ASSUME NEW u \in Tasks, tasks'[u].status \in {"waiting_input", "completed"}
               PROVE  /\ tasks'[u].pending = {}
                      /\ \E d \in delivered' :
                            /\ d.task = u /\ d.attempt = tasks'[u].attempt
                            /\ d.heard = tasks'[u].merged
    BY DEF DeliveryHeardEverySteer
  <2>1. CASE u = t
    BY <1>3, <1>5, <1>6, <1>8, <2>1
  <2>2. CASE u # t
    BY <1>6, <1>8, <2>2 DEF DeliveryHeardEverySteer
  <2> QED
    BY <2>1, <2>2
<1>19. OutputLineage'
  <2> SUFFICES ASSUME NEW u \in Tasks, tasks'[u].status = "running"
               PROVE  /\ tasks'[u].active # NoExecution
                      /\ execs'[tasks'[u].active].pc \in {"starting", "running"} =>
                            tasks'[u].output \in {tasks'[u].active, execs'[tasks'[u].active].base}
    BY Zenon DEF OutputLineage, Live
  <2>1. u # t /\ tasks'[u] = tasks[u]
    BY <1>3, <1>8
  <2>2. tasks[u].active # NoExecution
    BY <2>1 DEF OutputLineage
  <2>3. tasks[u].active \in Executions
    BY <1>1, <2>2, Fields DEF TypeOK
  <2> QED
    BY <1>4, <1>8, <2>1, <2>2, <2>3 DEF OutputLineage, Live
<1>20. r.status # "completed"
  BY <1>1, <1>7 DEF RecordInv
<1>21. \A u \in Tasks :
            tasks[u].status \in {"completed", "cancelled"} => tasks'[u] = tasks[u]
  BY <1>1, <1>8, <1>20
<1> QED
  BY <1>10, <1>11, <1>12, <1>13, <1>14, <1>15, <1>16, <1>17, <1>18, <1>19, <1>21
     DEF Strengthening

-----------------------------------------------------------------------------
(***************************************************************************)
(* The theorems.                                                           *)
(***************************************************************************)

\* The empty store satisfies the invariant.
LEMMA InitInv == Init => IInv
<1> SUFFICES ASSUME Init PROVE IInv
  OBVIOUS
<1>1. \A t \in Tasks : /\ tasks[t] = Absent /\ Absent \in Record
                       /\ Absent.status = "absent" /\ Absent.active = NoExecution
  BY CreationTyped DEF Init, Absent, Fresh
<1>2. \A e \in Executions : /\ execs[e] = Unused /\ Unused \in Execution
                            /\ Unused.pc = "unused"
  BY UnusedTyped DEF Init, Unused
<1>3. TypeOK
  BY <1>1, <1>2 DEF Init, TypeOK
<1>4. Strengthening
  BY <1>1, <1>2, TaskRecordAssumption
     DEF Init, Strengthening, ExecutionsHaveTasks, QueuedHasNoOwner, OwnersHaveRun,
         OwnersHeardTheInput, DeliveredRoundIsOver, CancelledIsRequested
<1> QED
  BY <1>1, <1>3, <1>4
     DEF Init, IInv, OneDeliveryPerAttempt, DeliveryHeardEverySteer, OutputLineage

FinishedStep ==
    \A t \in Tasks :
        tasks[t].status \in {"completed", "cancelled"} /\ tasks'[t].status # tasks[t].status
            => tasks[t].choice /\ tasks'[t].attempt = tasks[t].attempt + 1

\* Every step preserves the invariant, and undoes nothing that is finished.
LEMMA NextInv == IInv /\ [Next]_vars => IInv' /\ [FinishedStep]_vars
<1> SUFFICES ASSUME IInv, [Next]_vars PROVE IInv' /\ [FinishedStep]_vars
  OBVIOUS
<1>1. CASE UNCHANGED vars
  <2>1. Quiet
    BY <1>1, StoreUnchanged, QuietRuntime
       DEF vars, storeVars, IInv, Strengthening, Quiet
  <2> QED
    BY <2>1, QuietStep DEF FinishedStep
<1>2. ASSUME Quiet
      PROVE  IInv' /\ FinishedStep
  BY <1>2, QuietStep DEF FinishedStep
<1>3. CASE Next
  <2>1. CASE ApiStep
    BY <1>2, <2>1, QuietApiStep
  <2>2. CASE RuntimeStep
    BY <1>2, <2>2, QuietRuntimeStep
  <2>3. CASE \E e \in Executions : ExecutionStep(e)
    BY <1>2, <2>3, QuietExecutionStep, ClaimPreserves, DeliverPreserves DEF FinishedStep
  <2> QED
    BY <1>3, <2>1, <2>2, <2>3 DEF Next
<1> QED
  BY <1>1, <1>3

\* The inductive invariant holds in every reachable state: the type, the three
\* safety invariants and the conjuncts that make them inductive.
THEOREM Invariance == Spec => []IInv
<1>1. Init => IInv
  BY InitInv
<1>2. IInv /\ [Next]_vars => IInv'
  BY NextInv
<1> QED
  BY <1>1, <1>2, PTL DEF Spec

\* The store, the executions and the history always have the shape that the
\* handlers assume, whatever is spawned, aborted or lost.
THEOREM TypeCorrect == Spec => []TypeOK
<1>1. IInv => TypeOK
  BY DEF IInv
<1> QED
  BY <1>1, Invariance, PTL

\* Each round of a task gets at most one result, and its story artifacts are
\* applied at most once: the final transaction of executeWritingTask.
THEOREM OneDelivery == Spec => []OneDeliveryPerAttempt
<1>1. IInv => OneDeliveryPerAttempt
  BY DEF IInv
<1> QED
  BY <1>1, Invariance, PTL

\* A result that stands was produced from every steer the API had acknowledged:
\* steerAgentTurn against the final transaction of executeWritingTask.
THEOREM SteersAreHeard == Spec => []DeliveryHeardEverySteer
<1>1. IInv => DeliveryHeardEverySteer
  BY DEF IInv
<1> QED
  BY <1>1, Invariance, PTL

\* The text of a running task is its owner's, or what its owner resumed from:
\* the fence of flushCheckpoint.
THEOREM TextHasOneAuthor == Spec => []OutputLineage
<1>1. IInv => OutputLineage
  BY DEF IInv
<1> QED
  BY <1>1, Invariance, PTL

\* No execution undoes a cancellation or a result: interruptWritingTask against
\* whatever still runs, is queued or is requeued.
THEOREM FinishedIsFinal == Spec => FinishedStaysFinished
<1>1. IInv /\ [Next]_vars => [FinishedStep]_vars
  BY NextInv
<1> QED
  BY <1>1, Invariance, PTL DEF Spec, FinishedStaysFinished, FinishedStep

-----------------------------------------------------------------------------
(* What the runtimes' callers rely on: only an execution that is over has  *)
(* returned something.                                                     *)

ReturnsAreOver == \A e \in Executions : execs[e].outcome # "none" => execs[e].pc = "done"

\* An execution that starts has returned nothing, and one that is over stays so.
LEMMA ReturnsStep ==
  ASSUME IInv, ReturnsAreOver, [Next]_vars
  PROVE  ReturnsAreOver'
<1> USE DEF ReturnsAreOver
<1>1. execs \in [Executions -> Execution]
  BY DEF IInv, TypeOK
<1>2. Unused.outcome = "none" /\ \A t, o : Returned(t, o).pc = "done"
  BY DEF Unused, Returned
<1>3. CASE execs' = execs
  BY <1>3
<1>4. ASSUME NEW e \in Executions, NEW t \in Tasks, NEW b \in BOOLEAN, Spawn(e, t, b)
      PROVE  ReturnsAreOver'
  <2> DEFINE x == [Unused EXCEPT !.pc = "starting", !.task = t, !.takeover = b]
  <2>1. x.outcome = "none"
    BY DEF Unused
  <2>2. execs' = [execs EXCEPT ![e] = x]
    BY <1>4 DEF Spawn
  <2> HIDE DEF x
  <2> QED
    BY <1>1, <2>1, <2>2
<1>5. ASSUME NEW E \in SUBSET Executions, Abort(E) \/ Lose(E)
      PROVE  ReturnsAreOver'
  <2>1. CASE Abort(E)
    <3>1. \A e \in Executions :
              /\ [execs[e] EXCEPT !.aborted = TRUE].pc = execs[e].pc
              /\ [execs[e] EXCEPT !.aborted = TRUE].outcome = execs[e].outcome
      BY <1>1 DEF Execution
    <3>2. \A e \in Executions : execs'[e].pc = execs[e].pc /\ execs'[e].outcome = execs[e].outcome
      BY <2>1, <3>1 DEF Abort
    <3> QED
      BY <3>2
  <2>2. CASE Lose(E)
    <3>1. \A e \in Executions : execs'[e].pc = "done" \/ execs'[e] = execs[e]
      BY <1>2, <2>2 DEF Lose
    <3> QED
      BY <3>1
  <2> QED
    BY <1>5, <2>1, <2>2
<1>6. ASSUME NEW e \in Executions, HandleReturn(e)
      PROVE  ReturnsAreOver'
  <2> DEFINE x == [execs[e] EXCEPT !.outcome = "settled"]
             y == [Unused EXCEPT !.pc = "starting", !.task = execs[e].task]
  <2>1. execs[e].pc = "done" /\ x.pc = "done" /\ y.outcome = "none"
    BY <1>1, <1>6 DEF HandleReturn, Execution, Unused
  <2>2. CASE execs' = Handled(e)
    <3>1. execs' = [execs EXCEPT ![e] = x]
      BY <2>2 DEF Handled
    <3> HIDE DEF x, y
    <3> QED
      BY <1>1, <2>1, <3>1
  <2>3. CASE \E f \in Executions :
                execs[f].pc = "unused" /\ execs' = HandledAndRestarted(e, f)
    <3>1. PICK f \in Executions :
                execs[f].pc = "unused" /\ execs' = HandledAndRestarted(e, f)
      BY <2>3
    <3>2. e # f /\ execs' = [execs EXCEPT ![e] = x, ![f] = y]
      BY <2>1, <3>1 DEF HandledAndRestarted
    <3> HIDE DEF x, y
    <3> QED
      BY <1>1, <2>1, <3>1, <3>2
  <2> QED
    BY <1>6, <2>2, <2>3 DEF HandleReturn
<1>7. ASSUME NEW e \in Executions, NEW o \in Outcomes, Settle(e, o)
      PROVE  ReturnsAreOver'
  BY <1>1, <1>2, <1>7 DEF Settle
<1>8. ASSUME NEW e \in Executions, Claim(e)
      PROVE  ReturnsAreOver'
  <2>1. execs[e].outcome = "none"
    BY <1>8 DEF Claim
  <2>2. execs'[e].outcome = execs[e].outcome
    BY <1>1, <1>8 DEF Claim, Execution
  <2>3. \A f \in Executions \ {e} : execs'[f] = execs[f]
    BY <1>1, <1>8 DEF Claim
  <2> QED
    BY <2>1, <2>2, <2>3
<1>9. CASE ApiStep
  <2>1. ASSUME NEW t \in Tasks, DispatchTo(t)
        PROVE  ReturnsAreOver'
    BY <1>3, <1>4, <2>1 DEF DispatchTo
  <2>2. \A i \in DOMAIN turns : turns[i] \in Tasks
    BY DEF IInv, TypeOK
  <2> QED
    BY <1>3, <1>5, <1>9, <2>1, <2>2 DEF ApiStep
<1>10. CASE RuntimeStep
  BY <1>4, <1>5, <1>6, <1>10 DEF RuntimeStep
<1>11. ASSUME NEW e \in Executions, ExecutionStep(e)
       PROVE  ReturnsAreOver'
  BY <1>3, <1>7, <1>8, <1>11
     DEF ExecutionStep, Skip, Checkpoint, FinishCancelled, FinishSuperseded,
         FinishForSteer, Deliver, RequeueAfterAbort, FailUnrecorded, Outcomes
<1> QED
  BY <1>3, <1>9, <1>10, <1>11 DEF Next, vars

-----------------------------------------------------------------------------
(***************************************************************************)
(* TaskExecution implements TurnLifecycle: what executions, crashes,       *)
(* takeovers and restarts do to a task, its user sees as the steps of a    *)
(* turn, or does not see at all.                                           *)
(***************************************************************************)

Promised == Promise!LifecycleNext \/ UNCHANGED Promise!lifecycleVars

\* What the user sees of one update of one record, step by step of TurnLifecycle.
Unseen(r, s) ==
    /\ Phase(s) = Phase(r) /\ s.attempt = r.attempt
    /\ s.choice = r.choice /\ s.pending = r.pending

SeenInPlace(r, s) ==
    /\ s.attempt = r.attempt
    /\ \/ /\ Phase(r) = "none" /\ Phase(s) = "working"
          /\ s.choice = r.choice /\ s.pending = r.pending
       \/ /\ Phase(r) = "working" /\ Phase(s) = "working"
          /\ s.choice \in BOOLEAN /\ s.pending = r.pending
       \/ /\ Phase(r) = "working" /\ Phase(s) = "working"
          /\ s.choice = r.choice
          /\ \E i \in Revisions : s.pending = r.pending \cup {i}
       \/ /\ Phase(r) \in {"working", "asking"} /\ Phase(s) = "stopped"
          /\ s.choice = r.choice /\ s.pending = {}
       \/ /\ Phase(r) = "working" /\ Phase(s) = "failed"
          /\ s.choice = r.choice /\ s.pending = r.pending
       \/ /\ Phase(r) = "failed" /\ Phase(s) = "working"
          /\ s.choice = r.choice /\ s.pending = r.pending

SeenAsNextRound(r, s) ==
    /\ Phase(s) = "working" /\ s.attempt = r.attempt + 1 /\ s.choice = FALSE
    /\ \/ Phase(r) \in {"working", "failed"} /\ r.pending # {} /\ s.pending = {}
       \/ (Phase(r) = "asking" \/ r.choice) /\ s.pending = r.pending

Seen(r, s) == Unseen(r, s) \/ SeenInPlace(r, s) \/ SeenAsNextRound(r, s)

\* A status and its phase.
LEMMA PhaseOf ==
  ASSUME NEW r \in Record
  PROVE  /\ r.status = "absent" => Phase(r) = "none"
         /\ r.status \in Runnable => Phase(r) = "working"
         /\ r.status = "waiting_input" => Phase(r) = "asking"
         /\ r.status = "completed" => Phase(r) = "done"
         /\ r.status = "failed" => Phase(r) = "failed"
         /\ r.status = "cancelled" => Phase(r) = "stopped"
  BY DEF Phase, Runnable

\* A record in which only one task changes is a lifecycle in which only one turn does.
LEMMA ViewOfPut ==
  ASSUME TypeOK, NEW t \in Tasks, NEW s, tasks' = [tasks EXCEPT ![t] = s]
  PROVE  /\ [u \in Tasks |-> Phase(tasks[u])]' =
                [[u \in Tasks |-> Phase(tasks[u])] EXCEPT ![t] = Phase(s)]
         /\ [u \in Tasks |-> tasks[u].attempt]' =
                [[u \in Tasks |-> tasks[u].attempt] EXCEPT ![t] = s.attempt]
         /\ [u \in Tasks |-> tasks[u].choice]' =
                [[u \in Tasks |-> tasks[u].choice] EXCEPT ![t] = s.choice]
         /\ [u \in Tasks |-> tasks[u].pending]' =
                [[u \in Tasks |-> tasks[u].pending] EXCEPT ![t] = s.pending]
<1>1. \A u \in Tasks : tasks'[u] = IF u = t THEN s ELSE tasks[u]
  BY DEF TypeOK
<1>2. \A u \in Tasks : Phase(tasks'[u]) = IF u = t THEN Phase(s) ELSE Phase(tasks[u])
  <2> TAKE u \in Tasks
  <2>1. CASE u = t
    <3>1. tasks'[u] = s
      BY <1>1, <2>1
    <3> QED
      BY <2>1, <3>1
  <2>2. CASE u # t
    <3>1. tasks'[u] = tasks[u]
      BY <1>1, <2>2
    <3> QED
      BY <2>2, <3>1
  <2> QED
    BY <2>1, <2>2
<1>3. [u \in Tasks |-> Phase(tasks[u])]' =
          [[u \in Tasks |-> Phase(tasks[u])] EXCEPT ![t] = Phase(s)]
  BY <1>2
<1>4. [u \in Tasks |-> tasks[u].attempt]' =
          [[u \in Tasks |-> tasks[u].attempt] EXCEPT ![t] = s.attempt]
  <2>1. \A u \in Tasks : tasks'[u].attempt = IF u = t THEN s.attempt ELSE tasks[u].attempt
    BY <1>1
  <2> QED
    BY <2>1
<1>5. [u \in Tasks |-> tasks[u].choice]' =
          [[u \in Tasks |-> tasks[u].choice] EXCEPT ![t] = s.choice]
  <2>1. \A u \in Tasks : tasks'[u].choice = IF u = t THEN s.choice ELSE tasks[u].choice
    BY <1>1
  <2> QED
    BY <2>1
<1>6. [u \in Tasks |-> tasks[u].pending]' =
          [[u \in Tasks |-> tasks[u].pending] EXCEPT ![t] = s.pending]
  <2>1. \A u \in Tasks : tasks'[u].pending = IF u = t THEN s.pending ELSE tasks[u].pending
    BY <1>1
  <2> QED
    BY <2>1
<1> QED
  BY <1>3, <1>4, <1>5, <1>6, Zenon

\* An update that is seen is a step of the lifecycle.
LEMMA SeenIsPromised ==
  ASSUME TypeOK, NEW t \in Tasks, NEW s, tasks' = [tasks EXCEPT ![t] = s],
         delivered' = delivered, Seen(tasks[t], s)
  PROVE  Promised
<1> DEFINE r == tasks[t]
           ph == [u \in Tasks |-> Phase(tasks[u])]
           ro == [u \in Tasks |-> tasks[u].attempt]
           sh == [u \in Tasks |-> tasks[u].choice]
           ow == [u \in Tasks |-> tasks[u].pending]
           re == {<<d.task, d.attempt>> : d \in delivered}
<1>1. /\ ph' = [ph EXCEPT ![t] = Phase(s)]
      /\ ro' = [ro EXCEPT ![t] = s.attempt]
      /\ sh' = [sh EXCEPT ![t] = s.choice]
      /\ ow' = [ow EXCEPT ![t] = s.pending]
      /\ re' = re
  BY ViewOfPut
<1>2. /\ ph[t] = Phase(r) /\ ro[t] = r.attempt /\ sh[t] = r.choice /\ ow[t] = r.pending
      /\ r.choice \in BOOLEAN
  BY DEF TypeOK, Record
<1>3. /\ s.attempt = r.attempt => ro' = ro
      /\ s.choice = r.choice => sh' = sh
      /\ s.pending = r.pending => ow' = ow
      /\ Phase(s) = Phase(r) => ph' = ph
  BY <1>1, <1>2
<1> HIDE DEF ph, ro, sh, ow, re
<1>4. CASE Unseen(r, s)
  <2>1. ph' = ph /\ ro' = ro /\ sh' = sh /\ ow' = ow /\ re' = re
    BY <1>1, <1>3, <1>4 DEF Unseen
  <2> QED
    BY <2>1 DEF Promised, Promise!lifecycleVars, ph, ro, sh, ow, re
<1>5. CASE SeenInPlace(r, s)
  <2>0. ro' = ro /\ re' = re
    BY <1>1, <1>3, <1>5 DEF SeenInPlace
  <2>1. CASE /\ Phase(r) = "none" /\ Phase(s) = "working"
             /\ s.choice = r.choice /\ s.pending = r.pending
    <3>1. ph[t] = "none" /\ ph' = [ph EXCEPT ![t] = "working"] /\ sh' = sh /\ ow' = ow
      BY <1>1, <1>2, <1>3, <2>1
    <3> QED
      BY <2>0, <3>1 DEF Promised, Promise!LifecycleNext, Promise!Open, ph, ro, sh, ow, re
  <2>2. CASE /\ Phase(r) = "working" /\ Phase(s) = "working"
             /\ s.choice \in BOOLEAN /\ s.pending = r.pending
    <3>1. /\ ph[t] = "working" /\ ph' = ph /\ ow' = ow
          /\ sh' \in {sh, [sh EXCEPT ![t] = TRUE], [sh EXCEPT ![t] = FALSE]}
      BY <1>1, <1>2, <1>3, <2>2
    <3> QED
      BY <2>0, <3>1 DEF Promised, Promise!LifecycleNext, Promise!Write, ph, ro, sh, ow, re
  <2>3. CASE /\ Phase(r) = "working" /\ Phase(s) = "working"
             /\ s.choice = r.choice
             /\ \E i \in Revisions : s.pending = r.pending \cup {i}
    <3>1. /\ ph[t] = "working" /\ ph' = ph /\ sh' = sh
          /\ \E i \in Revisions : ow' = [ow EXCEPT ![t] = @ \cup {i}]
      BY <1>1, <1>2, <1>3, <2>3
    <3> QED
      BY <2>0, <3>1 DEF Promised, Promise!LifecycleNext, Promise!Instruct, ph, ro, sh, ow, re
  <2>4. CASE /\ Phase(r) \in {"working", "asking"} /\ Phase(s) = "stopped"
             /\ s.choice = r.choice /\ s.pending = {}
    <3>1. /\ ph[t] \in {"working", "asking"} /\ ph' = [ph EXCEPT ![t] = "stopped"]
          /\ sh' = sh /\ ow' = [ow EXCEPT ![t] = {}]
      BY <1>1, <1>2, <1>3, <2>4
    <3> QED
      BY <2>0, <3>1 DEF Promised, Promise!LifecycleNext, Promise!Stop, ph, ro, sh, ow, re
  <2>5. CASE /\ Phase(r) = "working" /\ Phase(s) = "failed"
             /\ s.choice = r.choice /\ s.pending = r.pending
    <3>1. ph[t] = "working" /\ ph' = [ph EXCEPT ![t] = "failed"] /\ sh' = sh /\ ow' = ow
      BY <1>1, <1>2, <1>3, <2>5
    <3> QED
      BY <2>0, <3>1 DEF Promised, Promise!LifecycleNext, Promise!Refuse, ph, ro, sh, ow, re
  <2>6. CASE /\ Phase(r) = "failed" /\ Phase(s) = "working"
             /\ s.choice = r.choice /\ s.pending = r.pending
    <3>1. ph[t] = "failed" /\ ph' = [ph EXCEPT ![t] = "working"] /\ sh' = sh /\ ow' = ow
      BY <1>1, <1>2, <1>3, <2>6
    <3> QED
      BY <2>0, <3>1 DEF Promised, Promise!LifecycleNext, Promise!GiveBack, ph, ro, sh, ow, re
  <2> QED
    BY <1>5, <2>1, <2>2, <2>3, <2>4, <2>5, <2>6 DEF SeenInPlace
<1>6. CASE SeenAsNextRound(r, s)
  <2>0. /\ ph' = [ph EXCEPT ![t] = "working"] /\ ro' = [ro EXCEPT ![t] = @ + 1]
        /\ sh' = [sh EXCEPT ![t] = FALSE] /\ re' = re
    BY <1>1, <1>2, <1>6 DEF SeenAsNextRound
  <2>1. CASE Phase(r) \in {"working", "failed"} /\ r.pending # {} /\ s.pending = {}
    <3>1. ph[t] \in {"working", "failed"} /\ ow[t] # {} /\ ow' = [ow EXCEPT ![t] = {}]
      BY <1>1, <1>2, <2>1
    <3> QED
      BY <2>0, <3>1 DEF Promised, Promise!LifecycleNext, Promise!TakeUp, ph, ro, sh, ow, re
  <2>2. CASE (Phase(r) = "asking" \/ r.choice) /\ s.pending = r.pending
    <3>1. (ph[t] = "asking" \/ sh[t]) /\ ow' = ow
      BY <1>2, <1>3, <2>2
    <3> QED
      BY <2>0, <3>1 DEF Promised, Promise!LifecycleNext, Promise!Reply, ph, ro, sh, ow, re
  <2> QED
    BY <1>6, <2>1, <2>2 DEF SeenAsNextRound
<1> QED
  BY <1>4, <1>5, <1>6 DEF Seen
-----------------------------------------------------------------------------
(* What each update of a record shows to the user.                         *)

Shows(r, s) == s.status # "absent" /\ Seen(r, s)

\* The updates of the API's handlers, each under the guard of its action.
LEMMA ApiUpdatesSeen ==
  ASSUME NEW r, RecordInv(r), r.status = "absent" => r = Absent
  PROVE  /\ r.status = "absent" => Shows(r, Created)
         /\ Answerable(r) => Shows(r, Answered(r))
         /\ r.status \in Runnable /\ r.steerRevision < MaxSteers => Shows(r, Steered(r))
         /\ r.status \in Unfinished => Shows(r, Interrupted(r))
         /\ r.status \in Runnable => Shows(r, DispatchFailed(r))
<1> USE DEF Shows, Seen, Runnable
<1>0. r \in Record /\ r.choice \in BOOLEAN /\ r.attempt \in Nat
  BY Fields DEF RecordInv, Record
<1>1. r.status = "absent" => Shows(r, Created)
  <2>1. Phase(Absent) = "none" /\ Phase(Created) = "working" /\ Created.status # "absent"
    BY DEF Phase, Absent, Created, Fresh
  <2>2. /\ Created.attempt = Absent.attempt /\ Created.choice = Absent.choice
        /\ Created.pending = Absent.pending
    BY DEF Absent, Created, Fresh
  <2> QED
    BY <2>1, <2>2 DEF SeenInPlace
<1>2. Answerable(r) => Shows(r, Answered(r))
  <2> DEFINE s == Answered(r)
  <2>1. /\ s.status = "queued" /\ s.attempt = r.attempt + 1 /\ s.choice = FALSE
        /\ s.pending = r.pending
    BY <1>0 DEF Answered, Record
  <2>2. Phase(s) = "working"
    BY <2>1 DEF Phase
  <2>3. Answerable(r) => Phase(r) = "asking" \/ r.choice
    BY <1>0, PhaseOf DEF Answerable
  <2> HIDE DEF s
  <2>4. Answerable(r) => Shows(r, s)
    BY <2>1, <2>2, <2>3 DEF SeenAsNextRound
  <2> QED
    BY <2>4 DEF s
<1>3. ASSUME r.status \in Runnable, r.steerRevision < MaxSteers
      PROVE  Shows(r, Steered(r))
  <2> DEFINE s == Steered(r)
             i == r.steerRevision + 1
  <2>1. i \in Revisions
    BY <1>0, <1>3, Fields, TaskRecordAssumption DEF Revisions
  <2>2. /\ s.status = r.status /\ s.attempt = r.attempt /\ s.choice = r.choice
        /\ IF r.status = "queued" THEN s.pending = r.pending
           ELSE s.pending = r.pending \cup {i}
    BY <1>0 DEF Steered, Record
  <2>3. Phase(r) = "working" /\ Phase(s) = "working"
    BY <1>3, <2>2 DEF Phase
  <2> HIDE DEF s, i
  <2>4. Shows(r, s)
    BY <1>3, <2>1, <2>2, <2>3 DEF Unseen, SeenInPlace
  <2> QED
    BY <2>4 DEF s
<1>4. r.status \in Unfinished => Shows(r, Interrupted(r))
  <2> DEFINE s == Interrupted(r)
  <2>1. /\ s.status = "cancelled" /\ s.attempt = r.attempt /\ s.choice = r.choice
        /\ s.pending = {}
    BY <1>0 DEF Interrupted, Record
  <2>2. Phase(s) = "stopped"
    BY <2>1 DEF Phase
  <2>3. r.status \in Unfinished => Phase(r) \in {"working", "asking"}
    BY <1>0, PhaseOf DEF Unfinished
  <2> HIDE DEF s
  <2>4. r.status \in Unfinished => Shows(r, s)
    BY <2>1, <2>2, <2>3 DEF SeenInPlace
  <2> QED
    BY <2>4 DEF s
<1>5. r.status \in Runnable => Shows(r, DispatchFailed(r))
  <2> DEFINE s == DispatchFailed(r)
  <2>1. /\ s.status = "failed" /\ s.attempt = r.attempt /\ s.choice = r.choice
        /\ s.pending = r.pending
    BY <1>0 DEF DispatchFailed, Record
  <2>2. Phase(s) = "failed"
    BY <2>1 DEF Phase
  <2>3. r.status \in Runnable => Phase(r) = "working"
    BY <1>0, PhaseOf
  <2> HIDE DEF s
  <2>4. r.status \in Runnable => Shows(r, s)
    BY <2>1, <2>2, <2>3 DEF SeenInPlace
  <2> QED
    BY <2>4 DEF s
<1> QED
  BY <1>1, <1>2, <1>3, <1>4, <1>5

\* The updates of an execution, each under the guard of its action.
LEMMA ExecutorUpdatesSeen ==
  ASSUME NEW r, r \in Record, NEW e \in Executions, NEW b \in BOOLEAN
  PROVE  /\ r.status \in Runnable => Shows(r, Claimed(r, e, b))
         /\ r.status = "running" => Shows(r, Checkpointed(r, e, b))
         /\ r.status \in {"running", "failed"} /\ r.pending # {} =>
                Shows(r, SteersApplied(r))
         /\ r.status \in {"running", "failed"} => Shows(r, RequeuedOnAbort(r))
<1> USE DEF Shows, Seen
<1>0. r.choice \in BOOLEAN /\ r.attempt \in Nat
  BY Fields DEF Record
<1>1. r.status \in Runnable => Shows(r, Claimed(r, e, b))
  <2> DEFINE s == Claimed(r, e, b)
  <2>1. /\ s.status = "running" /\ s.attempt = r.attempt /\ s.choice \in BOOLEAN
        /\ s.pending = r.pending
    BY <1>0 DEF Claimed, Record
  <2>2. Phase(s) = "working"
    BY <2>1 DEF Phase, Runnable
  <2>3. r.status \in Runnable => Phase(r) = "working"
    BY PhaseOf
  <2> HIDE DEF s
  <2>4. r.status \in Runnable => Shows(r, s)
    BY <2>1, <2>2, <2>3 DEF SeenInPlace
  <2> QED
    BY <2>4 DEF s
<1>2. r.status = "running" => Shows(r, Checkpointed(r, e, b))
  <2> DEFINE s == Checkpointed(r, e, b)
  <2>1. /\ s.status = r.status /\ s.attempt = r.attempt /\ s.choice \in BOOLEAN
        /\ s.pending = r.pending
    BY <1>0 DEF Checkpointed, Record
  <2>2. r.status = "running" => Phase(r) = "working" /\ Phase(s) = "working"
    BY <2>1 DEF Phase, Runnable
  <2> HIDE DEF s
  <2>3. r.status = "running" => Shows(r, s)
    BY <2>1, <2>2 DEF SeenInPlace
  <2> QED
    BY <2>3 DEF s
<1>3. r.status \in {"running", "failed"} /\ r.pending # {} => Shows(r, SteersApplied(r))
  <2> DEFINE s == SteersApplied(r)
  <2>1. /\ s.status = "queued" /\ s.attempt = r.attempt + 1 /\ s.choice = FALSE
        /\ s.pending = {}
    BY <1>0 DEF SteersApplied, Record
  <2>2. Phase(s) = "working"
    BY <2>1 DEF Phase, Runnable
  <2>3. r.status \in {"running", "failed"} => Phase(r) \in {"working", "failed"}
    BY PhaseOf DEF Runnable
  <2> HIDE DEF s
  <2>4. r.status \in {"running", "failed"} /\ r.pending # {} => Shows(r, s)
    BY <2>1, <2>2, <2>3 DEF SeenAsNextRound
  <2> QED
    BY <2>4 DEF s
<1>4. r.status \in {"running", "failed"} => Shows(r, RequeuedOnAbort(r))
  <2> DEFINE s == RequeuedOnAbort(r)
  <2>1. /\ s.status = "queued" /\ s.attempt = r.attempt /\ s.choice = r.choice
        /\ s.pending = r.pending
    BY <1>0 DEF RequeuedOnAbort, Record
  <2>2. Phase(s) = "working"
    BY <2>1 DEF Phase, Runnable
  <2>3. r.status \in {"running", "failed"} => Phase(r) \in {"working", "failed"}
    BY PhaseOf DEF Runnable
  <2> HIDE DEF s
  <2>4. r.status \in {"running", "failed"} => Shows(r, s)
    BY <2>1, <2>2, <2>3 DEF Unseen, SeenInPlace
  <2> QED
    BY <2>4 DEF s
<1> QED
  BY <1>1, <1>2, <1>3, <1>4
-----------------------------------------------------------------------------
(***************************************************************************)
(* The steps.  A task that was never created must look like one: else its  *)
(* creation would open a turn in a later round, or with a choice in it.    *)
(***************************************************************************)

AbsentIsFresh == \A t \in Tasks : tasks[t].status = "absent" => tasks[t] = Absent

RInv == IInv /\ AbsentIsFresh

Kept == AbsentIsFresh' /\ Promised

\* To update one record so that it shows is to keep the promise.
LEMMA KeptByPut ==
  ASSUME RInv, NEW t \in Tasks, NEW s, tasks' = [tasks EXCEPT ![t] = s],
         delivered' = delivered, Shows(tasks[t], s)
  PROVE  Kept
<1>1. AbsentIsFresh'
  BY DEF RInv, IInv, TypeOK, AbsentIsFresh, Shows
<1>2. Promised
  BY SeenIsPromised DEF RInv, IInv, Shows
<1> QED
  BY <1>1, <1>2 DEF Kept

\* An update of all records that the user cannot see.
LEMMA KeptUnseen ==
  ASSUME RInv, tasks' = [t \in Tasks |-> tasks'[t]], delivered' = delivered,
         \A t \in Tasks : tasks'[t] = tasks[t] \/
                (tasks'[t].status # "absent" /\ Unseen(tasks[t], tasks'[t]))
  PROVE  Kept
<1>1. AbsentIsFresh'
  BY DEF RInv, AbsentIsFresh
<1>2. \A t \in Tasks : Phase(tasks'[t]) = Phase(tasks[t])
  <2> TAKE t \in Tasks
  <2>1. CASE tasks'[t] = tasks[t]
    BY <2>1
  <2>2. CASE Unseen(tasks[t], tasks'[t])
    BY <2>2 DEF Unseen
  <2> QED
    BY <2>1, <2>2
<1>3. \A t \in Tasks : /\ tasks'[t].attempt = tasks[t].attempt
                       /\ tasks'[t].choice = tasks[t].choice
                       /\ tasks'[t].pending = tasks[t].pending
  BY DEF Unseen
<1>4. UNCHANGED Promise!lifecycleVars
  BY <1>2, <1>3 DEF Promise!lifecycleVars
<1> QED
  BY <1>1, <1>4 DEF Kept, Promised

\* What the owner of a task can find it doing.
LEMMA OwnedStatus ==
  ASSUME RInv, NEW t \in Tasks, NEW e \in Executions, tasks[t].active = e
  PROVE  /\ tasks[t].status \in {"running", "failed", "cancelled"}
         /\ tasks[t].status = "cancelled" => tasks[t].cancelRequested
<1>1. e # NoExecution /\ tasks[t].status \in Status
  BY TaskRecordAssumption, Fields DEF RInv, IInv, TypeOK
<1>2. tasks[t].status # "absent"
  BY <1>1 DEF RInv, AbsentIsFresh, Absent, Fresh
<1>3. tasks[t].status \notin {"waiting_input", "completed"}
  BY <1>1 DEF RInv, IInv, DeliveryHeardEverySteer, Strengthening, DeliveredRoundIsOver
<1>4. RecordInv(tasks[t])
  BY RecordsInv DEF RInv
<1> QED
  BY <1>1, <1>2, <1>3, <1>4 DEF RecordInv, Status, Unfinished, Runnable, Finished

\* A delivery concludes the round: it is the first of its round, and no
\* instruction is left.
LEMMA KeptByDeliver ==
  ASSUME RInv, NEW e \in Executions, NEW kind \in {"completed", "needs_input"},
         Deliver(e, kind)
  PROVE  Kept
<1> DEFINE t == execs[e].task
           r == tasks[t]
           s == Delivered(r, e, kind)
           p == IF kind = "needs_input" THEN "asking" ELSE "done"
           n == [task |-> t, attempt |-> r.attempt, execution |-> e, heard |-> execs[e].heard]
           ph == [u \in Tasks |-> Phase(tasks[u])]
           ro == [u \in Tasks |-> tasks[u].attempt]
           sh == [u \in Tasks |-> tasks[u].choice]
           ow == [u \in Tasks |-> tasks[u].pending]
           re == {<<d.task, d.attempt>> : d \in delivered}
<1>1. /\ TypeOK /\ t \in Tasks /\ r \in Record /\ r.choice \in BOOLEAN
      /\ r.active = e /\ r.pending = {} /\ r.status # "cancelled"
  BY DEF RInv, IInv, Strengthening, ExecutionsHaveTasks, TypeOK, Record,
         Deliver, MayFinish, Owns, ExecutionMatches
<1>2. r.status \in {"running", "failed"} /\ Phase(r) \in {"working", "failed"}
  BY <1>1, OwnedStatus, PhaseOf DEF Runnable
<1>3. /\ s.status = (IF kind = "needs_input" THEN "waiting_input" ELSE "completed")
      /\ s.attempt = r.attempt /\ s.pending = r.pending
      /\ s.choice = (IF kind = "completed" THEN r.choice ELSE FALSE)
  BY <1>1 DEF Delivered, Record
<1>4. Phase(s) = p /\ s.status # "absent"
  BY <1>3 DEF Phase, Runnable
<1>5. tasks' = [tasks EXCEPT ![t] = s] /\ delivered' = delivered \cup {n}
  BY DEF Deliver
<1> HIDE DEF s
<1>6. AbsentIsFresh'
  BY <1>1, <1>4, <1>5 DEF RInv, AbsentIsFresh, TypeOK
<1>7. <<t, r.attempt>> \notin re
  <2>1. \A d \in delivered : ~ (d.task = t /\ d.attempt = r.attempt)
    BY <1>1, TaskRecordAssumption DEF RInv, IInv, Strengthening, DeliveredRoundIsOver
  <2> QED
    BY <2>1
<1>8. /\ ph' = [ph EXCEPT ![t] = Phase(s)]
      /\ ro' = [ro EXCEPT ![t] = s.attempt]
      /\ sh' = [sh EXCEPT ![t] = s.choice]
      /\ ow' = [ow EXCEPT ![t] = s.pending]
  BY <1>1, <1>5, ViewOfPut
<1>9. re' = re \cup {<<t, r.attempt>>}
  <2>1. n.task = t /\ n.attempt = r.attempt
    OBVIOUS
  <2> HIDE DEF n
  <2>2. re' = {<<d.task, d.attempt>> : d \in delivered \cup {n}}
    BY <1>5
  <2>3. re' = re \cup {<<n.task, n.attempt>>}
    BY <2>2
  <2> QED
    BY <2>1, <2>3
<1>10. ph[t] = Phase(r) /\ ro[t] = r.attempt /\ sh[t] = r.choice /\ ow[t] = r.pending
  BY <1>1
<1>11. ro' = ro /\ ow' = ow
  BY <1>1, <1>3, <1>8
<1>12. p \in {"asking", "done"} /\ s.choice = (r.choice /\ p = "done")
  BY <1>1, <1>3
<1> HIDE DEF ph, ro, sh, ow, re, p, r
<1>13. /\ ph[t] \in {"working", "failed"} /\ ow[t] = {} /\ <<t, ro[t]>> \notin re
       /\ ph' = [ph EXCEPT ![t] = p] /\ sh' = [sh EXCEPT ![t] = @ /\ p = "done"]
       /\ re' = re \cup {<<t, ro[t]>>} /\ ro' = ro /\ ow' = ow
  BY <1>1, <1>2, <1>4, <1>7, <1>8, <1>9, <1>10, <1>11, <1>12
<1>14. Promise!Conclude(t, p)
  BY <1>13 DEF Promise!Conclude, ph, ro, sh, ow, re
<1> QED
  BY <1>1, <1>6, <1>12, <1>14 DEF Kept, Promised, Promise!LifecycleNext

\* The handlers of the API.
LEMMA ApiKeeps ==
  ASSUME RInv, ApiStep
  PROVE  Kept
<1>0. /\ TypeOK
      /\ \A i \in DOMAIN turns : turns[i] \in Tasks
      /\ \A t \in Tasks :
            RecordInv(tasks[t]) /\ (tasks[t].status = "absent" => tasks[t] = Absent)
  BY RecordsInv DEF RInv, IInv, TypeOK, AbsentIsFresh
<1>1. ASSUME NEW t \in Tasks, tasks[t].status = "absent",
             tasks' = [tasks EXCEPT ![t] = Created], delivered' = delivered
      PROVE  Kept
  <2>1. Shows(tasks[t], Created)
    BY <1>0, <1>1, ApiUpdatesSeen
  <2> QED
    BY <1>1, <2>1, KeptByPut
<1>2. CASE \E t \in Tasks :
              /\ StartTurn(t) \/ (\E o \in Tasks : Retry(o, t)) \/ Regenerate(t)
              /\ DispatchTo(t)
  BY <1>1, <1>2 DEF StartTurn, Retry, Regenerate
<1>3. ASSUME NEW i \in DOMAIN turns, Answer(i)
      PROVE  Kept
  <2>1. Shows(tasks[turns[i]], Answered(tasks[turns[i]]))
    BY <1>0, <1>3, ApiUpdatesSeen DEF Answer
  <2> QED
    BY <1>0, <1>3, <2>1, KeptByPut DEF Answer
<1>4. ASSUME NEW i \in DOMAIN turns, Steer(i)
      PROVE  Kept
  <2>1. Shows(tasks[turns[i]], Steered(tasks[turns[i]]))
    BY <1>0, <1>4, ApiUpdatesSeen DEF Steer
  <2> QED
    BY <1>0, <1>4, <2>1, KeptByPut DEF Steer
<1>5. ASSUME NEW t \in Tasks, Interrupt(t)
      PROVE  Kept
  <2>1. Shows(tasks[t], Interrupted(tasks[t]))
    BY <1>0, <1>5, ApiUpdatesSeen DEF Interrupt
  <2> QED
    BY <1>5, <2>1, KeptByPut DEF Interrupt
<1>6. ASSUME NEW t \in Tasks, DispatchFails(t)
      PROVE  Kept
  <2>1. Shows(tasks[t], DispatchFailed(tasks[t]))
    BY <1>0, <1>6, ApiUpdatesSeen DEF DispatchFails
  <2> QED
    BY <1>6, <2>1, KeptByPut DEF DispatchFails
<1>7. ASSUME RecoverAll
      PROVE  Kept
  <2>1. ASSUME NEW r \in Record, r.status \in Runnable
        PROVE  Recovered(r).status # "absent" /\ Unseen(r, Recovered(r))
    <3> DEFINE s == Recovered(r)
    <3>1. /\ s.status = "queued" /\ s.attempt = r.attempt /\ s.choice = r.choice
          /\ s.pending = r.pending
      BY DEF Recovered, Record
    <3>2. Phase(s) = "working" /\ Phase(r) = "working"
      BY <2>1, <3>1 DEF Phase, Runnable
    <3> QED
      BY <3>1, <3>2 DEF Unseen
  <2>2. \A t \in Tasks : tasks'[t] = tasks[t] \/
            (tasks'[t].status # "absent" /\ Unseen(tasks[t], tasks'[t]))
    BY <1>0, <1>7, <2>1 DEF RecoverAll, RecordInv
  <2> QED
    BY <1>7, <2>2, KeptUnseen DEF RecoverAll
<1> QED
  BY <1>2, <1>3, <1>4, <1>5, <1>6, <1>7 DEF ApiStep

\* A step that leaves the store alone.
LEMMA IdleKeeps ==
  ASSUME RInv, UNCHANGED <<storeVars, delivered>>
  PROVE  Kept
  BY KeptUnseen DEF storeVars, RInv, IInv, TypeOK

\* The steps of an execution.
LEMMA ExecutionKeeps ==
  ASSUME RInv, NEW e \in Executions, ExecutionStep(e)
  PROVE  Kept
<1> DEFINE t == execs[e].task
<1>0. /\ execs[e].pc \in {"starting", "running"} => t \in Tasks /\ tasks[t] \in Record
      /\ execs[e].takeover \in BOOLEAN
  BY DEF RInv, IInv, Strengthening, ExecutionsHaveTasks, TypeOK, Execution
<1>1. ASSUME Skip(e) \/ FinishCancelled(e) \/ FinishSuperseded(e) \/ FailUnrecorded(e)
      PROVE  Kept
  BY <1>1, IdleKeeps DEF Skip, FinishCancelled, FinishSuperseded, FailUnrecorded
<1>2. ASSUME Claim(e)
      PROVE  Kept
  <2>1. t \in Tasks /\ tasks[t] \in Record /\ tasks[t].status \in Runnable
    BY <1>0, <1>2 DEF Claim, Claimable, Runnable
  <2>2. Shows(tasks[t], Claimed(tasks[t], e, execs[e].takeover))
    BY <1>0, <2>1, ExecutorUpdatesSeen
  <2> QED
    BY <1>2, <2>1, <2>2, KeptByPut DEF Claim
<1>3. ASSUME NEW choice \in BOOLEAN, Checkpoint(e, choice)
      PROVE  Kept
  <2>1. t \in Tasks /\ tasks[t] \in Record /\ tasks[t].status = "running"
    BY <1>0, <1>3 DEF Checkpoint, Writable
  <2>2. Shows(tasks[t], Checkpointed(tasks[t], e, choice))
    BY <2>1, ExecutorUpdatesSeen
  <2> QED
    BY <1>3, <2>1, <2>2, KeptByPut DEF Checkpoint
<1>4. ASSUME FinishForSteer(e)
      PROVE  Kept
  <2>1. t \in Tasks /\ tasks[t] \in Record /\ tasks[t].active = e
    BY <1>0, <1>4 DEF FinishForSteer, MayFinish, Owns, ExecutionMatches
  <2>2. tasks[t].status \in {"running", "failed"} /\ tasks[t].pending # {}
    BY <1>4, <2>1, OwnedStatus DEF FinishForSteer, MayFinish
  <2>3. Shows(tasks[t], SteersApplied(tasks[t]))
    BY <2>1, <2>2, ExecutorUpdatesSeen
  <2> QED
    BY <1>4, <2>1, <2>3, KeptByPut DEF FinishForSteer
<1>5. ASSUME RequeueAfterAbort(e)
      PROVE  Kept
  <2>1. t \in Tasks /\ tasks[t] \in Record /\ tasks[t].active = e
    BY <1>0, <1>5 DEF RequeueAfterAbort, Owns, ExecutionMatches
  <2>2. tasks[t].status \in {"running", "failed"}
    BY <1>5, <2>1, OwnedStatus DEF RequeueAfterAbort
  <2>3. Shows(tasks[t], RequeuedOnAbort(tasks[t]))
    BY <2>1, <2>2, ExecutorUpdatesSeen
  <2> QED
    BY <1>5, <2>1, <2>3, KeptByPut DEF RequeueAfterAbort
<1> QED
  BY <1>1, <1>2, <1>3, <1>4, <1>5, KeptByDeliver DEF ExecutionStep

\* A step of the tasks and their executions is a step of their user's view, or none.
LEMMA RNext == RInv /\ [Next]_vars => RInv' /\ Promised
<1> SUFFICES ASSUME RInv, [Next]_vars PROVE RInv' /\ Promised
  OBVIOUS
<1>1. IInv'
  BY NextInv DEF RInv
<1>2. Kept
  <2>1. CASE UNCHANGED vars
    BY <2>1, IdleKeeps DEF vars, storeVars
  <2>2. CASE ApiStep
    BY <2>2, ApiKeeps
  <2>3. CASE RuntimeStep
    BY <2>3, IdleKeeps DEF RuntimeStep
  <2>4. CASE \E e \in Executions : ExecutionStep(e)
    BY <2>4, ExecutionKeeps
  <2> QED
    BY <2>1, <2>2, <2>3, <2>4 DEF Next
<1> QED
  BY <1>1, <1>2 DEF Kept, RInv

\* The empty store is a user's empty view.
LEMMA RInit == Init => RInv /\ Promise!LifecycleInit
<1> SUFFICES ASSUME Init PROVE RInv /\ Promise!LifecycleInit
  OBVIOUS
<1>1. IInv /\ AbsentIsFresh
  BY InitInv DEF Init, AbsentIsFresh
<1>2. /\ Phase(Absent) = "none" /\ Absent.attempt = 1
      /\ Absent.choice = FALSE /\ Absent.pending = {}
  <2>1. /\ Absent.status = "absent" /\ Absent.attempt = 1
        /\ Absent.choice = FALSE /\ Absent.pending = {}
    BY DEF Absent, Fresh
  <2>2. Phase(Absent) = "none"
    BY <2>1, CreationTyped, PhaseOf
  <2> QED
    BY <2>1, <2>2
<1>3. \A t \in Tasks : tasks[t] = Absent
  BY DEF Init
<1>4. \A t \in Tasks : Phase(tasks[t]) = "none"
  <2> TAKE t \in Tasks
  <2>1. tasks[t] = Absent
    BY <1>3
  <2> QED
    BY <1>2, <2>1
<1>5. Promise!LifecycleInit
  BY <1>2, <1>3, <1>4 DEF Init, Promise!LifecycleInit
<1> QED
  BY <1>1, <1>5 DEF RInv

\* The tasks and their executions implement the life of a turn: whatever
\* crashes, is taken over, started twice, aborted or restarted, the user sees
\* the steps TurnLifecycle allows and no others.
THEOREM Refinement == Spec => KeepsPromise
<1>1. Init => RInv /\ Promise!LifecycleInit
  BY RInit
<1>2. RInv /\ [Next]_vars => RInv' /\ [Promise!LifecycleNext]_(Promise!lifecycleVars)
  BY RNext DEF Promised
<1> QED
  BY <1>1, <1>2, PTL DEF Spec, KeepsPromise, Promise!Lifecycle
=============================================================================
