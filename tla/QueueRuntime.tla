---------------------------- MODULE QueueRuntime ----------------------------
(***************************************************************************)
(* The API and its workers with Redis between them (REDIS_URL set): the    *)
(* API adds an entry to the stream for every task it queues, the workers   *)
(* of the consumer group read the entries one at a time, keep the lease of *)
(* the one they execute alive, and take over the entries whose lease ran   *)
(* out.  Cancellations travel by publish/subscribe.                        *)
(*                                                                         *)
(* Redis (a stream, a consumer group and a channel) is outside the         *)
(* repository and modelled as the code uses it.  An entry knows no owner:  *)
(* no call the code makes looks at it (XCLAIM, XACK and XDEL do not, and   *)
(* XAUTOCLAIM looks at the idle time only).  A worker restarts under a new *)
(* consumer name.  Which of several entries is served first is left open.  *)
(***************************************************************************)
EXTENDS TaskExecution

CONSTANTS
    Workers,
    Entries,        \* stream entry ids: one for each XADD
    NoEntry,
    MaxKills,       \* bounds on the faults considered: workers killed,
    MaxStops,       \* workers told to stop,
    MaxApiCrashes   \* API processes that died

ASSUME QueueRuntimeAssumption ==
    /\ NoEntry \notin Entries
    /\ MaxKills \in Nat /\ MaxStops \in Nat /\ MaxApiCrashes \in Nat

VARIABLES
    api,         \* "up", "down", or "booting" (re-queuing what it found)
    dispatches,  \* tasks a handler has committed and not yet added to the stream
    cancels,     \* cancellations published and not yet heard
    stream,
    workers,
    faults

queueVars == <<api, dispatches, cancels, stream, workers, faults>>
allVars == <<vars, queueVars>>

\* "leased" and "expired" entries are pending in the group; "gone" ones have
\* been acknowledged and deleted.
Entry ==
    [ state : {"free", "undelivered", "leased", "expired", "gone"},
      task  : Tasks \cup {NoTask} ]

Worker ==
    [ run   : {"up", "stopping", "down"},
      stage : {"idle", "executing", "handing", "acking"},
      entry : Entries \cup {NoEntry},
      exec  : Executions \cup {NoExecution},
      batch : SUBSET Entries ]   \* claimed by XAUTOCLAIM, not yet processed

IdleWorker ==
    [run |-> "up", stage |-> "idle", entry |-> NoEntry, exec |-> NoExecution, batch |-> {}]

DownWorker == [IdleWorker EXCEPT !.run = "down"]

Cancellation == [task : Tasks, execution : Executions \cup {NoExecution}]

QueueTypeOK ==
    /\ TypeOK
    /\ api \in {"up", "down", "booting"}
    /\ dispatches \subseteq Tasks
    /\ cancels \subseteq Cancellation
    /\ stream \in [Entries -> Entry]
    /\ workers \in [Workers -> Worker]
    /\ faults \in [kill : 0..MaxKills, stop : 0..MaxStops, api : 0..MaxApiCrashes]

QueueInit ==
    /\ Init
    /\ api = "up"
    /\ dispatches = {}
    /\ cancels = {}
    /\ stream = [n \in Entries |-> [state |-> "free", task |-> NoTask]]
    /\ workers = [w \in Workers |-> IdleWorker]
    /\ faults = [kill |-> 0, stop |-> 0, api |-> 0]

-----------------------------------------------------------------------------
(* The stream.                                                             *)

AddEntry(t) ==
    \E n \in Entries :
        /\ stream[n].state = "free"
        /\ stream' = [stream EXCEPT ![n] = [state |-> "undelivered", task |-> t]]

EntriesIn(state) == {n \in Entries : stream[n].state = state}

MovedTo(S, state) ==
    [n \in Entries |-> IF n \in S THEN [stream[n] EXCEPT !.state = state] ELSE stream[n]]

-----------------------------------------------------------------------------
(* The API.                                                                *)

\* A request that queues a task; the handler goes on to add the entry.
QueueApi ==
    /\ api = "up"
    /\ \/ \E t \in Tasks :
            /\ \/ StartTurn(t)
               \/ \E o \in Tasks : Retry(o, t)
               \/ Regenerate(t)
            /\ dispatches' = dispatches \cup {t}
       \/ \E i \in DOMAIN turns :
            Answer(i) /\ dispatches' = dispatches \cup {turns[i]}
       \/ \E i \in DOMAIN turns :
            Steer(i) /\ UNCHANGED dispatches
    /\ UNCHANGED <<execs, api, cancels, stream, workers, faults>>

Enqueue(t) ==
    /\ api # "down"
    /\ t \in dispatches
    /\ AddEntry(t)
    /\ dispatches' = dispatches \ {t}
    /\ UNCHANGED <<vars, api, cancels, workers, faults>>

\* The task fails whatever has become of it meanwhile.
EnqueueFailsAlways(t) ==
    /\ api = "up"
    /\ t \in dispatches
    /\ dispatches' = dispatches \ {t}
    /\ tasks' = [tasks EXCEPT ![t] = DispatchFailed(@)]
    /\ UNCHANGED <<parent, turns, execs, delivered, api, cancels, stream, workers, faults>>

\* Redis refused the entry: the task fails, unless it has ended meanwhile.
EnqueueFails(t) ==
    /\ api = "up"
    /\ t \in dispatches
    /\ dispatches' = dispatches \ {t}
    /\ IF tasks[t].status \in Runnable
       THEN DispatchFails(t) /\ UNCHANGED execs
       ELSE UNCHANGED vars
    /\ UNCHANGED <<api, cancels, stream, workers, faults>>

\* The cancellation names the execution that was active when the task was
\* cancelled.  No execution runs in the API's own process.
QueueInterrupt(t) ==
    /\ api = "up"
    /\ Interrupt(t)
    /\ cancels' = cancels \cup {[task |-> t, execution |-> tasks[t].active]}
    /\ UNCHANGED <<execs, api, dispatches, stream, workers, faults>>

ApiCrash ==
    /\ api # "down"
    /\ faults.api < MaxApiCrashes
    /\ api' = "down"
    /\ dispatches' = {}
    /\ faults' = [faults EXCEPT !.api = @ + 1]
    /\ UNCHANGED <<vars, cancels, stream, workers>>

\* Queued tasks, too, are left to their entries.
ApiBootTrustingQueue ==
    /\ api = "down"
    /\ api' = "booting"
    /\ dispatches' = {}
    /\ UNCHANGED <<vars, cancels, stream, workers, faults>>

\* Running tasks are left to the lease of their entry; queued ones get another.
ApiBoot ==
    /\ api = "down"
    /\ api' = "booting"
    /\ dispatches' = {t \in Tasks : tasks[t].status = "queued"}
    /\ UNCHANGED <<vars, cancels, stream, workers, faults>>

ApiListen ==
    /\ api = "booting"
    /\ dispatches = {}
    /\ api' = "up"
    /\ UNCHANGED <<vars, dispatches, cancels, stream, workers, faults>>

-----------------------------------------------------------------------------
(* A worker.                                                               *)

\* The worker's loop ends here once it has been told to stop.
Rested(w) ==
    IF workers[w].run = "stopping" /\ workers[w].batch = {} THEN DownWorker
    ELSE [workers[w] EXCEPT !.stage = "idle", !.entry = NoEntry, !.exec = NoExecution]

\* processEntry, up to its first await.
Begin(w, n, takeover) ==
    \E e \in Executions :
        /\ Spawn(e, stream[n].task, takeover)
        /\ workers' = [workers EXCEPT ![w].stage = "executing",
                                      ![w].entry = n,
                                      ![w].exec  = e,
                                      ![w].batch = @ \ {n}]

Idle(w) == workers[w].run # "down" /\ workers[w].stage = "idle"

\* A worker told to stop while it waits for an entry still takes the one that
\* arrives.
Read(w) ==
    /\ Idle(w)
    /\ workers[w].batch = {}
    /\ \E n \in EntriesIn("undelivered") :
        /\ stream' = MovedTo({n}, "leased")
        /\ Begin(w, n, FALSE)
    /\ UNCHANGED <<storeVars, delivered, api, dispatches, cancels, faults>>

\* XAUTOCLAIM takes every expired entry (COUNT 10, then the next cursor) and
\* starts all their leases over; they are processed one after the other.
ClaimStale(w) ==
    /\ Idle(w)
    /\ workers[w].batch = {}
    /\ EntriesIn("expired") # {}
    /\ stream' = MovedTo(EntriesIn("expired"), "leased")
    /\ workers' = [workers EXCEPT ![w].batch = EntriesIn("expired")]
    /\ UNCHANGED <<vars, api, dispatches, cancels, faults>>

\* A claimed entry is read like a new one: a task still marked running under
\* its dead worker is skipped.
BeginClaimedAsNew(w) ==
    /\ Idle(w)
    /\ \E n \in workers[w].batch : Begin(w, n, FALSE)
    /\ UNCHANGED <<storeVars, delivered, api, dispatches, cancels, stream, faults>>

\* A claimed entry whose task has ended is dropped with no acknowledgement.
BeginClaimedOrDrop(w) ==
    /\ Idle(w)
    /\ \E n \in workers[w].batch :
        IF tasks[stream[n].task].status \in Runnable THEN Begin(w, n, TRUE)
        ELSE /\ workers' = [workers EXCEPT ![w].batch = @ \ {n}]
             /\ UNCHANGED execs
    /\ UNCHANGED <<storeVars, delivered, api, dispatches, cancels, stream, faults>>

BeginClaimed(w) ==
    /\ Idle(w)
    /\ \E n \in workers[w].batch : Begin(w, n, TRUE)
    /\ UNCHANGED <<storeVars, delivered, api, dispatches, cancels, stream, faults>>

WorkerExecutes(w) ==
    LET e == workers[w].exec IN
    /\ workers[w].stage = "executing"
    /\ ExecutionStep(e)
    /\ workers' =
        IF execs'[e].pc # "done" THEN workers
        ELSE [workers EXCEPT ![w].stage =
                IF execs'[e].outcome \in {"requeued_steer", "requeued_worker"}
                THEN "handing" ELSE "acking"]
    /\ UNCHANGED <<api, dispatches, cancels, stream, faults>>

\* What was requeued gets its new entry before the old one is given up.
HandBack(w) ==
    /\ workers[w].stage = "handing"
    /\ AddEntry(stream[workers[w].entry].task)
    /\ workers' = [workers EXCEPT ![w].stage = "acking"]
    /\ UNCHANGED <<vars, api, dispatches, cancels, faults>>

\* XACK and XDEL; between the two the entry is already out of reach.
Ack(w) ==
    /\ workers[w].stage = "acking"
    /\ stream' = MovedTo({workers[w].entry}, "gone")
    /\ workers' = [workers EXCEPT ![w] = Rested(w)]
    /\ UNCHANGED <<vars, api, dispatches, cancels, faults>>

\* XCLAIM with idle time 0, as long as the worker is not stopping.  It finds
\* nothing to refresh once the entry is gone.
Heartbeat(w) ==
    LET n == workers[w].entry IN
    /\ workers[w].run = "up"
    /\ workers[w].stage = "executing"
    /\ stream[n].state = "expired"
    /\ stream' = MovedTo({n}, "leased")
    /\ UNCHANGED <<vars, api, dispatches, cancels, workers, faults>>

\* 180 s are long against everything a worker does but a model call.  While one
\* lasts, neither the rest of the worker's batch has a heartbeat nor, once the
\* worker is stopping, the entry it executes.
Neglects(w, n) ==
    LET e == workers[w].exec IN
    /\ workers[w].stage = "executing"
    /\ \/ n \in workers[w].batch
       \/ /\ workers[w].run = "stopping"
          /\ execs[e].pc = "running" /\ ~ execs[e].aborted

Holds(w, n) == n = workers[w].entry \/ n \in workers[w].batch

LeaseExpires(n) ==
    /\ stream[n].state = "leased"
    /\ \A w \in Workers : Holds(w, n) => Neglects(w, n)
    /\ stream' = MovedTo({n}, "expired")
    /\ UNCHANGED <<vars, api, dispatches, cancels, workers, faults>>

\* A cancellation reaches the workers in W, or none: there is no redelivery.
\* A worker heeds one that names its task and no other execution than its own.
CancelArrives(c) ==
    /\ c \in cancels
    /\ cancels' = cancels \ {c}
    /\ \E W \in SUBSET Workers :
        Abort({workers[w].exec : w \in
                  {v \in W : /\ workers[v].stage = "executing"
                             /\ stream[workers[v].entry].task = c.task
                             /\ c.execution \in {NoExecution, workers[v].exec}}})
    /\ UNCHANGED <<storeVars, delivered, api, dispatches, stream, workers, faults>>

WorkerKilled(w) ==
    /\ workers[w].run # "down"
    /\ faults.kill < MaxKills
    /\ faults' = [faults EXCEPT !.kill = @ + 1]
    /\ workers' = [workers EXCEPT ![w] = DownWorker]
    /\ Lose({workers[w].exec})
    /\ UNCHANGED <<storeVars, delivered, api, dispatches, cancels, stream>>

WorkerStops(w) ==
    /\ workers[w].run = "up"
    /\ faults.stop < MaxStops
    /\ faults' = [faults EXCEPT !.stop = @ + 1]
    /\ workers' = [workers EXCEPT ![w].run = "stopping"]
    /\ Abort({workers[w].exec})
    /\ UNCHANGED <<storeVars, delivered, api, dispatches, cancels, stream>>

\* A stopping worker with nothing to do exits.
WorkerExits(w) ==
    /\ workers[w].run = "stopping"
    /\ workers[w].stage = "idle"
    /\ workers[w].batch = {}
    /\ workers' = [workers EXCEPT ![w] = DownWorker]
    /\ UNCHANGED <<vars, api, dispatches, cancels, stream, faults>>

WorkerBoots(w) ==
    /\ workers[w].run = "down"
    /\ workers' = [workers EXCEPT ![w] = IdleWorker]
    /\ UNCHANGED <<vars, api, dispatches, cancels, stream, faults>>

-----------------------------------------------------------------------------
QueueNext ==
    \/ QueueApi
    \/ \E t \in Tasks : Enqueue(t) \/ EnqueueFails(t) \/ QueueInterrupt(t)
    \/ ApiCrash
    \/ ApiBoot
    \/ ApiListen
    \/ \E w \in Workers :
        \/ Read(w) \/ ClaimStale(w) \/ BeginClaimed(w) \/ WorkerExecutes(w)
        \/ HandBack(w) \/ Ack(w) \/ Heartbeat(w)
        \/ WorkerKilled(w) \/ WorkerStops(w) \/ WorkerExits(w) \/ WorkerBoots(w)
    \/ \E n \in Entries : LeaseExpires(n)
    \/ \E c \in cancels : CancelArrives(c)

QueueSafetySpec == QueueInit /\ [][QueueNext]_allVars

\* Processes that died are restarted, a worker goes on with what it has, reads
\* what there is and scans for stale entries, time passes, and a model call
\* returns.  Nothing obliges the user, a fault, or a cancellation to arrive.
QueueFairness ==
    /\ WF_allVars(ApiBoot)
    /\ WF_allVars(ApiListen)
    /\ \A t \in Tasks : WF_allVars(Enqueue(t))
    /\ \A n \in Entries : WF_allVars(LeaseExpires(n))
    /\ \A w \in Workers :
        /\ WF_allVars(Read(w))
        /\ WF_allVars(ClaimStale(w))
        /\ WF_allVars(BeginClaimed(w))
        /\ WF_allVars(WorkerExecutes(w) /\ execs' # execs)
        /\ WF_allVars(HandBack(w))
        /\ WF_allVars(Ack(w))
        /\ WF_allVars(Heartbeat(w))
        /\ WF_allVars(WorkerExits(w))
        /\ WF_allVars(WorkerBoots(w))

QueueSpec == QueueSafetySpec /\ QueueFairness

-----------------------------------------------------------------------------
(* Properties.                                                             *)

\* The API, the queue and its workers are one of the runtimes TaskExecution
\* allows: whatever is lost, duplicated or taken over, a task goes through
\* nothing but the steps of the store's transactions.
RefinesTaskExecution == Spec

\* While the API serves, a queued task is on its way to a worker: its handler
\* is about to add an entry, an entry awaits delivery or recovery, or a worker
\* is handing it back.  The order of XADD and XACK, and the API's boot, are
\* there for this.  What breaks it is the death of a worker that hands a task
\* back whose entry another one has acknowledged.  No two workers have the same
\* entry until two were killed, or one was told to stop: hence the faults.
QueuedIsReachable ==
    \A t \in Tasks :
        /\ api = "up"
        /\ faults.kill = 0 \/ (faults.stop = 0 /\ faults.kill <= 2)
        /\ tasks[t].status = "queued"
        =>
            \/ t \in dispatches
            \/ \E n \in Entries :
                /\ stream[n].task = t
                /\ stream[n].state \in {"undelivered", "leased", "expired"}
                /\ \A w \in Workers :
                    workers[w].entry = n => workers[w].stage # "acking"
            \/ \E w \in Workers :
                workers[w].stage = "handing" /\ stream[workers[w].entry].task = t

\* A task that was accepted comes to rest although its worker dies at any
\* moment (README: the stale-task takeover of AI_TASK_CLAIM_IDLE_MS).
CrashedWorkIsTakenOver ==
    \A t \in Tasks :
        tasks[t].status \in Runnable ~> tasks[t].status \in Finished \cup {"waiting_input"}

\* Every entry of the stream is acknowledged in the end; none is passed from
\* worker to worker for ever, or left behind by a worker that died.
EveryEntryIsAcknowledged ==
    \A n \in Entries : stream[n].state = "undelivered" ~> stream[n].state = "gone"

\* What README.md says of the heartbeat: the worker that runs a task, alive and
\* not told to stop, is not taken for a lost one while its call lasts.
HealthyNotTakenOver ==
    \A w \in Workers :
        LET e == workers[w].exec IN
        /\ workers[w].run = "up"
        /\ workers[w].stage = "executing"
        /\ execs[e].pc = "running"
        /\ tasks[execs[e].task].status = "running"
        => tasks[execs[e].task].active = e

\* What the boot of the API counts on: a running task whose worker is gone has
\* a pending entry, whose lease brings it back.
RunningHasEntry ==
    \A t \in Tasks :
        tasks[t].status = "running" =>
            \/ \E e \in Executions : execs[e].pc = "running" /\ execs[e].task = t /\ Owns(e)
            \/ \E n \in EntriesIn("leased") \cup EntriesIn("expired") : stream[n].task = t
=============================================================================
