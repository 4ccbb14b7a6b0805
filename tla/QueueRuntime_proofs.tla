------------------------ MODULE QueueRuntime_proofs ------------------------
(***************************************************************************)
(* The API, the stream and the workers are one of the runtimes of          *)
(* TaskExecution, for any number of tasks, executions, entries, workers    *)
(* and faults: whatever TaskExecution guarantees holds of them.  And a     *)
(* queued task is on its way to a worker, for as long as QueuedIsReachable *)
(* says.                                                                   *)
(***************************************************************************)
EXTENDS QueueRuntime, TaskExecution_proofs

\* An entry that was added has a task to run.
EntriesHaveTasks ==
    \A n \in Entries : stream[n].state # "free" => stream[n].task \in Tasks

\* What a worker claimed, and what it is at work on, was added.
HoldsEntries(x) ==
    /\ \A n \in x.batch : stream[n].state # "free"
    /\ x.stage # "idle" =>
        /\ x.entry \in Entries
        /\ stream[x.entry].state # "free"
        /\ x.exec \in Executions

WorkersHoldEntries == \A w \in Workers : HoldsEntries(workers[w])

QueueTypes ==
    /\ api \in {"up", "down", "booting"}
    /\ dispatches \subseteq Tasks
    /\ cancels \subseteq Cancellation
    /\ stream \in [Entries -> Entry]
    /\ workers \in [Workers -> Worker]

Held == QueueTypes /\ EntriesHaveTasks /\ WorkersHoldEntries

QueueInv == IInv /\ ReturnsAreOver /\ Held
-----------------------------------------------------------------------------
\* Aborting what is no execution aborts nothing.
LEMMA AbortOfExecutions ==
  ASSUME NEW E, Abort(E)
  PROVE  \E F \in SUBSET Executions : Abort(F)
<1>1. Abort(E \cap Executions)
  BY DEF Abort
<1> QED
  BY <1>1

LEMMA LoseOfExecutions ==
  ASSUME NEW E, Lose(E)
  PROVE  \E F \in SUBSET Executions : Lose(F)
<1>1. Lose(E \cap Executions)
  BY DEF Lose
<1> QED
  BY <1>1

\* What a handler does to the store, when nothing runs in its own process.
LEMMA QueueApiSimulates ==
  ASSUME IInv
  PROVE  /\ QueueApi => ApiStep
         /\ \A t \in Tasks : EnqueueFails(t) => ApiStep \/ UNCHANGED vars
         /\ \A t \in Tasks : QueueInterrupt(t) => ApiStep
<1>1. UNCHANGED execs => Abort({})
  <2> SUFFICES ASSUME execs' = execs PROVE Abort({})
    OBVIOUS
  <2>1. execs = [e \in Executions |-> execs[e]]
    BY DEF IInv, TypeOK
  <2> QED
    BY <2>1 DEF Abort
<1>2. QueueApi => ApiStep
  BY DEF QueueApi, ApiStep, DispatchTo
<1>3. ASSUME NEW t \in Tasks, EnqueueFails(t)
      PROVE  ApiStep \/ UNCHANGED vars
  BY <1>3 DEF EnqueueFails, ApiStep
<1>4. ASSUME NEW t \in Tasks, QueueInterrupt(t)
      PROVE  ApiStep
  BY <1>1, <1>4 DEF QueueInterrupt, ApiStep
<1> QED
  BY <1>2, <1>3, <1>4

\* What a worker does to the store and its executions.
LEMMA WorkerSimulates ==
  ASSUME Held, NEW w \in Workers
  PROVE  /\ Read(w) => RuntimeStep
         /\ BeginClaimed(w) => RuntimeStep
         /\ WorkerExecutes(w) => \E e \in Executions : ExecutionStep(e)
         /\ WorkerKilled(w) => RuntimeStep
         /\ WorkerStops(w) => RuntimeStep
<1> USE DEF Held, QueueTypes, EntriesHaveTasks, WorkersHoldEntries, HoldsEntries
<1>1. ASSUME NEW n, stream[n].task \in Tasks, NEW takeover \in BOOLEAN,
             Begin(w, n, takeover), UNCHANGED <<storeVars, delivered>>
      PROVE  RuntimeStep
  BY <1>1 DEF Begin, RuntimeStep
<1>2. ASSUME Read(w)
      PROVE  RuntimeStep
  BY <1>1, <1>2 DEF Read, EntriesIn
<1>3. ASSUME BeginClaimed(w)
      PROVE  RuntimeStep
  <2>1. workers[w].batch \in SUBSET Entries
    BY DEF Worker
  <2> QED
    BY <1>1, <1>3, <2>1 DEF BeginClaimed
<1>4. ASSUME WorkerExecutes(w)
      PROVE  \E e \in Executions : ExecutionStep(e)
  BY <1>4 DEF WorkerExecutes
<1>5. ASSUME WorkerKilled(w)
      PROVE  RuntimeStep
  BY <1>5, LoseOfExecutions DEF WorkerKilled, RuntimeStep
<1>6. ASSUME WorkerStops(w)
      PROVE  RuntimeStep
  BY <1>6, AbortOfExecutions DEF WorkerStops, RuntimeStep
<1> QED
  BY <1>2, <1>3, <1>4, <1>5, <1>6

\* Every step of the runtime is a step of TaskExecution, or none of its business.
LEMMA QueueSimulates ==
  ASSUME IInv, Held, [QueueNext]_allVars
  PROVE  [Next]_vars
<1>1. CASE QueueApi \/ \E t \in Tasks : EnqueueFails(t) \/ QueueInterrupt(t)
  BY <1>1, QueueApiSimulates DEF Next
<1>2. CASE \E w \in Workers : \/ Read(w) \/ BeginClaimed(w) \/ WorkerExecutes(w)
                              \/ WorkerKilled(w) \/ WorkerStops(w)
  BY <1>2, WorkerSimulates DEF Next
<1>3. ASSUME NEW c \in cancels, CancelArrives(c)
      PROVE  Next
  BY <1>3, AbortOfExecutions DEF CancelArrives, RuntimeStep, Next
<1>4. CASE \E t \in Tasks : Enqueue(t)
  BY <1>4 DEF Enqueue
<1>5. CASE \E w \in Workers : \/ ClaimStale(w) \/ HandBack(w) \/ Ack(w) \/ Heartbeat(w)
                              \/ WorkerExits(w) \/ WorkerBoots(w)
  BY <1>5 DEF ClaimStale, HandBack, Ack, Heartbeat, WorkerExits, WorkerBoots
<1>6. CASE ApiCrash \/ ApiBoot \/ ApiListen \/ UNCHANGED allVars
           \/ \E n \in Entries : LeaseExpires(n)
  BY <1>6 DEF ApiCrash, ApiBoot, ApiListen, LeaseExpires, allVars
<1> QED
  BY <1>1, <1>2, <1>3, <1>4, <1>5, <1>6 DEF QueueNext
-----------------------------------------------------------------------------
(* The stream and the workers.                                             *)

\* A step that leaves the entries where they are, or further on.
StreamGoesOn ==
    /\ stream' \in [Entries -> Entry]
    /\ EntriesHaveTasks'
    /\ \A n \in Entries : stream[n].state # "free" => stream'[n].state # "free"

LEMMA Added ==
  ASSUME Held, NEW t \in Tasks, AddEntry(t)
  PROVE  StreamGoesOn
  BY DEF AddEntry, Held, QueueTypes, EntriesHaveTasks, Entry, StreamGoesOn

LEMMA Moved ==
  ASSUME Held, NEW S, NEW state \in {"leased", "expired", "gone"},
         \A n \in S : stream[n].state # "free",
         stream' = MovedTo(S, state)
  PROVE  StreamGoesOn
<1> USE DEF Held, QueueTypes, EntriesHaveTasks, StreamGoesOn
<1>1. \A n \in Entries :
        LET m == [stream[n] EXCEPT !.state = state] IN
        m \in Entry /\ m.state = state /\ m.task = stream[n].task
  BY DEF Entry
<1>2. \A n \in Entries :
        stream'[n] = IF n \in S THEN [stream[n] EXCEPT !.state = state] ELSE stream[n]
  BY DEF MovedTo
<1>3. stream' \in [Entries -> Entry]
  BY <1>1 DEF MovedTo
<1> QED
  BY <1>1, <1>2, <1>3

LEMMA WorkersWait ==
  ASSUME Held, StreamGoesOn, UNCHANGED workers
  PROVE  workers' \in [Workers -> Worker] /\ WorkersHoldEntries'
  BY DEF Held, QueueTypes, Worker, WorkersHoldEntries, HoldsEntries, StreamGoesOn

LEMMA WorkerPut ==
  ASSUME Held, StreamGoesOn, NEW w \in Workers, NEW x \in Worker, HoldsEntries(x)',
         workers' = [workers EXCEPT ![w] = x]
  PROVE  workers' \in [Workers -> Worker] /\ WorkersHoldEntries'
<1>1. ASSUME NEW v \in Workers
      PROVE  HoldsEntries(workers[v])'
  <2>1. CASE v = w
    <3>1. workers'[v] = x
      BY <2>1 DEF Held, QueueTypes
    <3> QED
      BY <3>1 DEF HoldsEntries
  <2>2. CASE v # w
    <3>1. workers'[v] = workers[v] /\ HoldsEntries(workers[v]) /\ workers[v] \in Worker
      BY <2>2 DEF Held, QueueTypes, WorkersHoldEntries
    <3> QED
      BY <3>1 DEF HoldsEntries, StreamGoesOn, Worker
  <2> QED
    BY <2>1, <2>2
<1> QED
  BY <1>1 DEF Held, QueueTypes, WorkersHoldEntries

\* What a worker does to its own record.
LEMMA WorkerUpdatesTyped ==
  ASSUME NEW x \in Worker, NEW n \in Entries, NEW e \in Executions,
         NEW S \in SUBSET Entries
  PROVE  /\ [x EXCEPT !.stage = "executing", !.entry = n, !.exec = e, !.batch = @ \ {n}] \in Worker
         /\ [x EXCEPT !.batch = S] \in Worker
         /\ [x EXCEPT !.run = "stopping"] \in Worker
         /\ \A stage \in {"handing", "acking"} : [x EXCEPT !.stage = stage] \in Worker
         /\ [x EXCEPT !.stage = "idle", !.entry = NoEntry, !.exec = NoExecution] \in Worker
         /\ IdleWorker \in Worker /\ DownWorker \in Worker
  BY DEF Worker, IdleWorker, DownWorker

\* Reading an entry, or going on with one that was claimed.
LEMMA BeginHeld ==
  ASSUME Held, StreamGoesOn, NEW w \in Workers, NEW n \in Entries,
         NEW takeover \in BOOLEAN, stream'[n].state # "free", Begin(w, n, takeover)
  PROVE  workers' \in [Workers -> Worker] /\ WorkersHoldEntries'
<1>1. PICK e \in Executions :
        workers' = [workers EXCEPT ![w].stage = "executing", ![w].entry = n,
                                   ![w].exec  = e, ![w].batch = @ \ {n}]
  BY DEF Begin
<1>2. workers[w] \in Worker /\ HoldsEntries(workers[w])
  BY DEF Held, QueueTypes, WorkersHoldEntries
<1>3. PICK x : x = [workers[w] EXCEPT !.stage = "executing", !.entry = n, !.exec = e,
                                      !.batch = @ \ {n}]
  OBVIOUS
<1>4. x \in Worker
  BY <1>2, <1>3, WorkerUpdatesTyped
<1>5. /\ x.batch = workers[w].batch \ {n} /\ x.entry = n /\ x.exec = e
      /\ workers[w].batch \in SUBSET Entries
  BY <1>2, <1>3 DEF Worker
<1>6. workers' = [workers EXCEPT ![w] = x]
  BY <1>1, <1>3 DEF Held, QueueTypes, Worker
<1>7. HoldsEntries(x)'
  BY <1>2, <1>5 DEF HoldsEntries, StreamGoesOn
<1> QED
  BY <1>4, <1>6, <1>7, WorkerPut

LEMMA StreamWaits ==
  ASSUME Held, UNCHANGED stream
  PROVE  StreamGoesOn
  BY DEF Held, QueueTypes, EntriesHaveTasks, StreamGoesOn

\* A change of its run or stage, or of its batch, by a worker that takes up no entry.
LEMMA WorkerMoves ==
  ASSUME Held, StreamGoesOn, NEW w \in Workers, NEW x \in Worker,
         workers' = [workers EXCEPT ![w] = x],
         \A n \in x.batch : n \in workers[w].batch \/ stream'[n].state # "free",
         x.stage # "idle" =>
            /\ workers[w].stage # "idle"
            /\ x.entry = workers[w].entry /\ x.exec = workers[w].exec
  PROVE  workers' \in [Workers -> Worker] /\ WorkersHoldEntries'
<1>1. workers[w] \in Worker /\ HoldsEntries(workers[w])
  BY DEF Held, QueueTypes, WorkersHoldEntries
<1>2. HoldsEntries(x)'
  BY <1>1 DEF HoldsEntries, StreamGoesOn, Worker
<1> QED
  BY <1>2, WorkerPut

\* The API: what it owes the stream, and the cancellations it publishes.
LEMMA ApiHeld ==
  ASSUME IInv, Held,
         \/ QueueApi \/ ApiCrash \/ ApiBoot \/ ApiListen
         \/ \E t \in Tasks : Enqueue(t) \/ EnqueueFails(t) \/ QueueInterrupt(t)
  PROVE  Held'
<1>1. CASE QueueApi
  <2>1. \A i \in DOMAIN turns : turns[i] \in Tasks
    BY DEF IInv, TypeOK
  <2>2. dispatches' \subseteq Tasks /\ UNCHANGED <<api, cancels, stream, workers>>
    BY <1>1, <2>1 DEF QueueApi, Held, QueueTypes
  <2> QED
    BY <2>2, StreamWaits, WorkersWait DEF Held, QueueTypes, StreamGoesOn
<1>2. CASE ApiCrash \/ ApiBoot \/ ApiListen
  <2>1. /\ api' \in {"up", "down", "booting"} /\ dispatches' \subseteq Tasks
        /\ UNCHANGED <<cancels, stream, workers>>
    BY <1>2 DEF ApiCrash, ApiBoot, ApiListen, Held, QueueTypes
  <2> QED
    BY <2>1, StreamWaits, WorkersWait DEF Held, QueueTypes, StreamGoesOn
<1>3. ASSUME NEW t \in Tasks, Enqueue(t)
      PROVE  Held'
  <2>1. AddEntry(t) /\ dispatches' \subseteq Tasks /\ UNCHANGED <<api, cancels, workers>>
    BY <1>3 DEF Enqueue, Held, QueueTypes
  <2>2. StreamGoesOn
    BY <2>1, Added
  <2> QED
    BY <2>1, <2>2, WorkersWait DEF Held, QueueTypes, StreamGoesOn
<1>4. ASSUME NEW t \in Tasks, EnqueueFails(t)
      PROVE  Held'
  <2>1. dispatches' \subseteq Tasks /\ UNCHANGED <<api, cancels, stream, workers>>
    BY <1>4 DEF EnqueueFails, Held, QueueTypes
  <2> QED
    BY <2>1, StreamWaits, WorkersWait DEF Held, QueueTypes, StreamGoesOn
<1>5. ASSUME NEW t \in Tasks, QueueInterrupt(t)
      PROVE  Held'
  <2>1. tasks[t].active \in Executions \cup {NoExecution}
    BY Fields DEF IInv, TypeOK
  <2>2. cancels' \subseteq Cancellation /\ UNCHANGED <<api, dispatches, stream, workers>>
    BY <1>5, <2>1 DEF QueueInterrupt, Cancellation, Held, QueueTypes
  <2> QED
    BY <2>2, StreamWaits, WorkersWait DEF Held, QueueTypes, StreamGoesOn
<1> QED
  BY <1>1, <1>2, <1>3, <1>4, <1>5

\* A worker takes up an entry.
LEMMA TakingUpHeld ==
  ASSUME Held, NEW w \in Workers, Read(w) \/ BeginClaimed(w)
  PROVE  Held'
<1>1. CASE Read(w)
  <2>1. PICK n \in EntriesIn("undelivered") :
            stream' = MovedTo({n}, "leased") /\ Begin(w, n, FALSE)
    BY <1>1 DEF Read
  <2>2. n \in Entries /\ stream[n].state = "undelivered"
    BY <2>1 DEF EntriesIn
  <2>3. StreamGoesOn
    BY <2>1, <2>2, Moved
  <2>4. workers' \in [Workers -> Worker] /\ WorkersHoldEntries'
    BY <2>1, <2>2, <2>3, BeginHeld DEF StreamGoesOn
  <2> QED
    BY <1>1, <2>3, <2>4 DEF Read, Held, QueueTypes, StreamGoesOn
<1>2. CASE BeginClaimed(w)
  <2>1. PICK n \in workers[w].batch : Begin(w, n, TRUE)
    BY <1>2 DEF BeginClaimed
  <2>2. n \in Entries /\ stream[n].state # "free"
    BY <2>1 DEF Held, QueueTypes, Worker, WorkersHoldEntries, HoldsEntries
  <2>3. StreamGoesOn
    BY <1>2, StreamWaits DEF BeginClaimed
  <2>4. workers' \in [Workers -> Worker] /\ WorkersHoldEntries'
    BY <2>1, <2>2, <2>3, BeginHeld DEF StreamGoesOn
  <2> QED
    BY <1>2, <2>3, <2>4 DEF BeginClaimed, Held, QueueTypes, StreamGoesOn
<1> QED
  BY <1>1, <1>2

\* A worker goes on, gives an entry up, stops or dies.
LEMMA WorkingHeld ==
  ASSUME Held, NEW w \in Workers,
         \/ ClaimStale(w) \/ WorkerExecutes(w) \/ HandBack(w) \/ Ack(w)
         \/ WorkerKilled(w) \/ WorkerStops(w) \/ WorkerExits(w) \/ WorkerBoots(w)
  PROVE  Held'
<1> DEFINE y == workers[w]
<1>1. y \in Worker /\ HoldsEntries(y)
  BY DEF Held, QueueTypes, WorkersHoldEntries
<1>2. ASSUME NEW x \in Worker, StreamGoesOn, workers' = [workers EXCEPT ![w] = x],
             \A n \in x.batch : n \in y.batch \/ stream'[n].state # "free",
             x.stage # "idle" => y.stage # "idle" /\ x.entry = y.entry /\ x.exec = y.exec,
             UNCHANGED <<api, dispatches, cancels>>
      PROVE  Held'
  <2>1. workers' \in [Workers -> Worker] /\ WorkersHoldEntries'
    BY <1>2, WorkerMoves
  <2> QED
    BY <1>2, <2>1 DEF Held, QueueTypes, StreamGoesOn
<1>3. /\ IdleWorker \in Worker /\ IdleWorker.batch = {} /\ IdleWorker.stage = "idle"
      /\ DownWorker \in Worker /\ DownWorker.batch = {} /\ DownWorker.stage = "idle"
  BY DEF IdleWorker, DownWorker, Worker
<1>4. CASE ClaimStale(w)
  <2>1. PICK x : x = [y EXCEPT !.batch = EntriesIn("expired")]
    OBVIOUS
  <2>2. EntriesIn("expired") \in SUBSET Entries
    BY DEF EntriesIn
  <2>3. x \in Worker /\ x.batch = EntriesIn("expired") /\ x.stage = y.stage
    BY <1>1, <2>1, <2>2, WorkerUpdatesTyped DEF Worker
  <2>4. StreamGoesOn /\ \A n \in EntriesIn("expired") : stream'[n].state # "free"
    <3>1. \A n \in EntriesIn("expired") : n \in Entries /\ stream[n].state = "expired"
      BY DEF EntriesIn
    <3>2. StreamGoesOn
      BY <1>4, <3>1, Moved DEF ClaimStale
    <3> QED
      BY <3>1, <3>2 DEF StreamGoesOn
  <2>5. workers' = [workers EXCEPT ![w] = x] /\ y.stage = "idle"
    BY <1>4, <2>1 DEF ClaimStale, Idle, Held, QueueTypes, Worker
  <2> HIDE DEF y
  <2> QED
    BY <1>2, <1>4, <2>3, <2>4, <2>5 DEF ClaimStale
<1>5. CASE WorkerExecutes(w)
  <2>1. PICK x : x = IF execs'[y.exec].pc # "done" THEN y
                     ELSE [y EXCEPT !.stage =
                              IF execs'[y.exec].outcome \in {"requeued_steer", "requeued_worker"}
                              THEN "handing" ELSE "acking"]
    OBVIOUS
  <2>2. /\ x \in Worker /\ x.batch = y.batch
        /\ x.entry = y.entry /\ x.exec = y.exec
    BY <1>1, <2>1 DEF Worker
  <2>3. workers' = [workers EXCEPT ![w] = x] /\ y.stage # "idle"
    BY <1>5, <2>1 DEF WorkerExecutes, Held, QueueTypes, Worker
  <2>4. StreamGoesOn
    BY <1>5, StreamWaits DEF WorkerExecutes
  <2> HIDE DEF y
  <2> QED
    BY <1>2, <1>5, <2>2, <2>3, <2>4 DEF WorkerExecutes
<1>6. CASE HandBack(w)
  <2>1. PICK x : x = [y EXCEPT !.stage = "acking"]
    OBVIOUS
  <2>2. /\ x \in Worker /\ x.batch = y.batch
        /\ x.entry = y.entry /\ x.exec = y.exec
    BY <1>1, <2>1 DEF Worker
  <2>3. workers' = [workers EXCEPT ![w] = x] /\ y.stage # "idle"
    BY <1>6, <2>1 DEF HandBack, Held, QueueTypes, Worker
  <2>4. stream[y.entry].task \in Tasks
    BY <1>1, <2>3 DEF HoldsEntries, Held, EntriesHaveTasks
  <2>5. StreamGoesOn
    BY <1>6, <2>4, Added DEF HandBack
  <2> HIDE DEF y
  <2> QED
    BY <1>2, <1>6, <2>2, <2>3, <2>5 DEF HandBack
<1>7. CASE Ack(w)
  <2>1. PICK x : x = Rested(w)
    OBVIOUS
  <2>2. x \in Worker /\ x.stage = "idle" /\ x.batch \in SUBSET y.batch
    BY <1>1, <1>3, <2>1 DEF Rested, Worker
  <2>3. workers' = [workers EXCEPT ![w] = x] /\ stream[y.entry].state # "free"
    BY <1>1, <1>7, <2>1 DEF Ack, HoldsEntries
  <2>4. StreamGoesOn
    BY <1>7, <2>3, Moved DEF Ack
  <2> HIDE DEF y
  <2> QED
    BY <1>2, <1>7, <2>2, <2>3, <2>4 DEF Ack
<1>8. CASE WorkerKilled(w) \/ WorkerExits(w) \/ WorkerBoots(w)
  <2>1. PICK x \in {IdleWorker, DownWorker} : workers' = [workers EXCEPT ![w] = x]
    BY <1>8 DEF WorkerKilled, WorkerExits, WorkerBoots
  <2>2. StreamGoesOn /\ UNCHANGED <<api, dispatches, cancels>>
    BY <1>8, StreamWaits DEF WorkerKilled, WorkerExits, WorkerBoots
  <2> HIDE DEF y
  <2> QED
    BY <1>2, <1>3, <2>1, <2>2
<1>9. CASE WorkerStops(w)
  <2>1. PICK x : x = [y EXCEPT !.run = "stopping"]
    OBVIOUS
  <2>2. /\ x \in Worker /\ x.batch = y.batch /\ x.stage = y.stage
        /\ x.entry = y.entry /\ x.exec = y.exec
    BY <1>1, <2>1 DEF Worker
  <2>3. workers' = [workers EXCEPT ![w] = x]
    BY <1>9, <2>1 DEF WorkerStops, Held, QueueTypes, Worker
  <2>4. StreamGoesOn
    BY <1>9, StreamWaits DEF WorkerStops
  <2> HIDE DEF y
  <2> QED
    BY <1>2, <1>9, <2>2, <2>3, <2>4 DEF WorkerStops
<1> QED
  BY <1>4, <1>5, <1>6, <1>7, <1>8, <1>9

\* Redis: leases start over and run out, cancellations arrive.
LEMMA LeasesHeld ==
  ASSUME Held,
         \/ \E w \in Workers : Heartbeat(w)
         \/ \E n \in Entries : LeaseExpires(n)
         \/ \E c \in cancels : CancelArrives(c)
         \/ UNCHANGED allVars
  PROVE  Held'
<1>1. ASSUME StreamGoesOn, UNCHANGED <<api, dispatches, workers>>, cancels' \subseteq cancels
      PROVE  Held'
  BY <1>1, WorkersWait DEF Held, QueueTypes, StreamGoesOn
<1>2. ASSUME NEW w \in Workers, Heartbeat(w)
      PROVE  Held'
  <2>1. stream[workers[w].entry].state = "expired"
    BY <1>2 DEF Heartbeat
  <2>2. StreamGoesOn
    BY <1>2, <2>1, Moved DEF Heartbeat
  <2> QED
    BY <1>1, <1>2, <2>2 DEF Heartbeat
<1>3. ASSUME NEW n \in Entries, LeaseExpires(n)
      PROVE  Held'
  <2>1. StreamGoesOn
    BY <1>3, Moved DEF LeaseExpires
  <2> QED
    BY <1>1, <1>3, <2>1 DEF LeaseExpires
<1>4. ASSUME NEW c \in cancels, CancelArrives(c)
      PROVE  Held'
  BY <1>1, <1>4, StreamWaits DEF CancelArrives
<1>5. CASE UNCHANGED allVars
  BY <1>1, <1>5, StreamWaits DEF allVars, queueVars
<1> QED
  BY <1>2, <1>3, <1>4, <1>5

LEMMA QueueInitInv == QueueInit => QueueInv
<1> SUFFICES ASSUME QueueInit PROVE QueueInv
  OBVIOUS
<1>1. IInv /\ ReturnsAreOver
  BY InitInv DEF QueueInit, ReturnsAreOver, Init, Unused
<1>2. /\ IdleWorker \in Worker /\ IdleWorker.batch = {} /\ IdleWorker.stage = "idle"
      /\ [state |-> "free", task |-> NoTask] \in Entry
  BY DEF IdleWorker, Worker, Entry
<1>3. Held
  BY <1>2 DEF QueueInit, Held, QueueTypes, EntriesHaveTasks, WorkersHoldEntries, HoldsEntries
<1> QED
  BY <1>1, <1>3 DEF QueueInv

LEMMA QueueNextInv == QueueInv /\ [QueueNext]_allVars => QueueInv' /\ [Next]_vars
<1> SUFFICES ASSUME QueueInv, [QueueNext]_allVars PROVE QueueInv' /\ [Next]_vars
  OBVIOUS
<1>1. [Next]_vars
  BY QueueSimulates DEF QueueInv
<1>2. IInv' /\ ReturnsAreOver'
  BY <1>1, NextInv, ReturnsStep DEF QueueInv
<1>3. Held'
  BY ApiHeld, TakingUpHeld, WorkingHeld, LeasesHeld DEF QueueInv, QueueNext
<1> QED
  BY <1>1, <1>2, <1>3 DEF QueueInv

-----------------------------------------------------------------------------
(* A queued task is on its way to a worker.                                *)

\* A task that was told to stop works no more.
StopsAreTaken ==
    \A t \in Tasks : tasks[t].status \in Unfinished => ~ tasks[t].cancelRequested

Tends(w, n) ==
    \/ workers[w].stage # "idle" /\ workers[w].entry = n
    \/ n \in workers[w].batch

\* A worker at work runs an execution of its own, for its entry's task.
PostsInOrder ==
    /\ \A w \in Workers :
        /\ workers[w].run = "down" => workers[w].stage = "idle" /\ workers[w].batch = {}
        /\ workers[w].stage = "idle" => workers[w].exec = NoExecution
        /\ workers[w].stage # "idle" =>
            /\ execs[workers[w].exec].pc # "unused"
            /\ execs[workers[w].exec].task = stream[workers[w].entry].task
    /\ \A w, v \in Workers :
        /\ workers[w].stage # "idle" /\ workers[v].stage # "idle"
        /\ workers[w].exec = workers[v].exec
        => w = v

\* Pending with nobody at it.
Orphan(n) ==
    /\ stream[n].state \in {"leased", "expired"}
    /\ \A w \in Workers : ~ Tends(w, n)

\* One worker at most tends an entry, whose lease it keeps ...
OneTends ==
    /\ \A w \in Workers, n \in Entries : Tends(w, n) => stream[n].state = "leased"
    /\ \A w, v \in Workers, n \in Entries : Tends(w, n) /\ Tends(v, n) => w = v

\* ... and one entry at most, ...
TendsOne ==
    \A w \in Workers :
        /\ workers[w].run # "stopping"
        /\ workers[w].batch # {} => workers[w].stage = "idle"
        /\ \A n, m \in workers[w].batch : n = m

\* ... as long as one worker at most was killed, which left one entry behind, and
\* none was told to stop.
OneOrphan ==
    /\ \A n, m \in Entries : Orphan(n) /\ Orphan(m) => n = m
    /\ faults.kill = 0 => \A n \in Entries : ~ Orphan(n)

LeasesInOrder == OneTends /\ TendsOne /\ OneOrphan

\* Pending, and whoever is at work on it has not yet looked at its task.
Awaits(n) ==
    /\ stream[n].state \in {"undelivered", "leased", "expired"}
    /\ \A w \in Workers :
        workers[w].stage # "idle" /\ workers[w].entry = n =>
            workers[w].stage = "executing" /\ execs[workers[w].exec].pc = "starting"

HandsBack(w, t) == workers[w].stage = "handing" /\ stream[workers[w].entry].task = t

OnItsWay(t) ==
    \/ t \in dispatches
    \/ \E n \in Entries : stream[n].task = t /\ Awaits(n)
    \/ \E w \in Workers : HandsBack(w, t)

AllOnTheirWay == \A t \in Tasks : tasks[t].status = "queued" => OnItsWay(t)

FaultsAreCounted == faults \in [kill : Nat, stop : Nat, api : Nat]

FewFaults == faults.kill = 0 \/ (faults.stop = 0 /\ faults.kill <= 2)

WayInv ==
    /\ QueueInv
    /\ FaultsAreCounted
    /\ StopsAreTaken
    /\ PostsInOrder
    /\ faults.stop = 0 /\ faults.kill <= 1 => LeasesInOrder
    /\ api # "down" /\ FewFaults => AllOnTheirWay

LEMMA StopsAreTakenStep ==
  ASSUME IInv, StopsAreTaken, [Next]_vars
  PROVE  StopsAreTaken'
<1> USE DEF StopsAreTaken
<1>1. tasks \in [Tasks -> Record] /\ \A i \in DOMAIN turns : turns[i] \in Tasks
  BY DEF IInv, TypeOK
<1>2. CASE UNCHANGED tasks
  BY <1>2
<1>3. ASSUME NEW t \in Tasks, NEW r, tasks' = [tasks EXCEPT ![t] = r],
             r.status \in Unfinished => ~ r.cancelRequested
      PROVE  StopsAreTaken'
  BY <1>1, <1>3
<1>4. CASE ApiStep
  <2>1. ASSUME NEW t \in Tasks, StartTurn(t) \/ Regenerate(t) \/ \E o \in Tasks : Retry(o, t)
        PROVE  StopsAreTaken'
    <3>1. tasks' = [tasks EXCEPT ![t] = Created] /\ ~ Created.cancelRequested
      BY <2>1 DEF StartTurn, Regenerate, Retry, Created, Fresh
    <3> QED
      BY <1>3, <3>1
  <2>2. ASSUME NEW i \in DOMAIN turns, Answer(i) \/ Steer(i)
        PROVE  StopsAreTaken'
    <3>1. PICK t \in Tasks : t = turns[i]
      BY <1>1
    <3>2. /\ ~ Answered(tasks[t]).cancelRequested
          /\ Steered(tasks[t]).cancelRequested = tasks[t].cancelRequested
      BY <1>1 DEF Answered, Steered, Record
    <3>3. CASE Answer(i)
      BY <1>3, <3>1, <3>2, <3>3 DEF Answer
    <3>4. CASE Steer(i)
      BY <1>3, <3>1, <3>2, <3>4 DEF Steer, Unfinished
    <3> QED
      BY <2>2, <3>3, <3>4
  <2>3. ASSUME NEW t \in Tasks, Interrupt(t) \/ DispatchFails(t)
        PROVE  StopsAreTaken'
    <3>1. PICK r \in {Interrupted(tasks[t]), DispatchFailed(tasks[t])} :
              tasks' = [tasks EXCEPT ![t] = r]
      BY <2>3 DEF Interrupt, DispatchFails
    <3>2. r.status \in {"cancelled", "failed"}
      BY <1>1, <3>1 DEF Interrupted, DispatchFailed, Record
    <3> QED
      BY <1>3, <3>1, <3>2 DEF Unfinished, Runnable
  <2>4. CASE RecoverAll
    <3>1. \A t \in Tasks : Recovered(tasks[t]).cancelRequested = tasks[t].cancelRequested
      BY <1>1 DEF Recovered, Record
    <3> QED
      BY <1>1, <2>4, <3>1 DEF RecoverAll, Unfinished
  <2> QED
    BY <1>4, <2>1, <2>2, <2>3, <2>4 DEF ApiStep
<1>5. ASSUME NEW e \in Executions, ExecutionStep(e)
      PROVE  StopsAreTaken'
  <2>1. PICK t : t = execs[e].task
    OBVIOUS
  <2>2. CASE t \notin Tasks \/ execs[e].pc = "unused"
    <3>1. execs[e].pc \in {"starting", "running"}
      BY <1>5 DEF ExecutionStep, Claim, Skip, Checkpoint, FinishCancelled, FinishSuperseded,
                  FinishForSteer, MayFinish, Deliver, RequeueAfterAbort, FailUnrecorded
    <3> QED
      BY <2>1, <2>2, <3>1 DEF IInv, Strengthening, ExecutionsHaveTasks
  <2>3. CASE t \in Tasks
    <3>1. /\ \A b \in BOOLEAN : /\ Claimed(tasks[t], e, b).cancelRequested = tasks[t].cancelRequested
                                /\ Checkpointed(tasks[t], e, b).cancelRequested
                                        = tasks[t].cancelRequested
          /\ SteersApplied(tasks[t]).cancelRequested = tasks[t].cancelRequested
          /\ RequeuedOnAbort(tasks[t]).cancelRequested = tasks[t].cancelRequested
          /\ \A kind : Delivered(tasks[t], e, kind).cancelRequested = tasks[t].cancelRequested
      BY <1>1, <2>3
         DEF Claimed, Checkpointed, SteersApplied, RequeuedOnAbort, Delivered, Record
    <3>2. execs[e].takeover \in BOOLEAN
      BY DEF IInv, TypeOK, Execution
    <3>3. CASE UNCHANGED tasks
      BY <1>2, <3>3
    <3>4. CASE Claim(e)
      BY <1>3, <2>1, <2>3, <3>1, <3>2, <3>4 DEF Claim, Claimable
    <3>5. ASSUME NEW choice \in BOOLEAN, Checkpoint(e, choice)
          PROVE  StopsAreTaken'
      BY <1>3, <2>1, <2>3, <3>1, <3>5 DEF Checkpoint, Writable
    <3>6. CASE FinishForSteer(e) \/ RequeueAfterAbort(e)
      BY <1>3, <2>1, <2>3, <3>1, <3>6 DEF FinishForSteer, MayFinish, RequeueAfterAbort
    <3>7. ASSUME NEW kind, Deliver(e, kind)
          PROVE  StopsAreTaken'
      BY <1>3, <2>1, <2>3, <3>1, <3>7 DEF Deliver, MayFinish
    <3> QED
      BY <1>5, <3>3, <3>4, <3>5, <3>6, <3>7
         DEF ExecutionStep, Skip, FinishCancelled, FinishSuperseded, FailUnrecorded, storeVars
  <2> QED
    BY <2>2, <2>3
<1> QED
  BY <1>2, <1>4, <1>5 DEF Next, RuntimeStep, vars, storeVars

\* What an execution step leaves queued: the task it requeues, or one that was
\* queued and it did not look at.
LEMMA ExecutionQueues ==
  ASSUME IInv, StopsAreTaken, NEW e \in Executions, ExecutionStep(e)
  PROVE  /\ execs[e].pc \in {"starting", "running"}
         /\ execs'[e].pc # "unused" /\ execs'[e].task = execs[e].task
         /\ \A f \in Executions \ {e} : execs'[f] = execs[f]
         /\ \A t \in Tasks : tasks'[t].status = "queued" =>
              \/ /\ execs[e].task = t
                 /\ execs'[e].pc = "done"
                 /\ execs'[e].outcome \in {"requeued_steer", "requeued_worker"}
              \/ /\ tasks[t].status = "queued"
                 /\ ~ (execs[e].pc = "starting" /\ execs[e].task = t)
<1>1. tasks \in [Tasks -> Record] /\ execs \in [Executions -> Execution]
  BY DEF IInv, TypeOK
<1>2. execs[e].pc \in {"starting", "running"}
  BY DEF ExecutionStep, Claim, Skip, Checkpoint, FinishCancelled, FinishSuperseded,
         FinishForSteer, MayFinish, Deliver, RequeueAfterAbort, FailUnrecorded
<1>3. PICK t \in Tasks : execs[e].task = t
  BY <1>2 DEF IInv, Strengthening, ExecutionsHaveTasks
<1>4. /\ \A b : Claimed(tasks[t], e, b).status = "running"
      /\ \A b : Checkpointed(tasks[t], e, b).status = tasks[t].status
      /\ \A kind : Delivered(tasks[t], e, kind).status # "queued"
  BY <1>1 DEF Claimed, Checkpointed, Delivered, Record
<1>5. \A o : /\ Returned(t, o).pc = "done" /\ Returned(t, o).task = t
             /\ Returned(t, o).outcome = o
  BY DEF Returned, Unused
<1>6. /\ \A f \in Executions \ {e} : execs'[f] = execs[f]
      /\ execs'[e].pc # "unused" /\ execs'[e].task = t
  <2>1. CASE \E o : Settle(e, o)
    <3>1. PICK o : execs' = [execs EXCEPT ![e] = Returned(t, o)]
      BY <1>1, <1>3, <2>1 DEF Settle
    <3> QED
      BY <1>1, <1>5, <3>1
  <2>2. CASE UNCHANGED execs
    BY <1>2, <1>3, <2>2
  <2>3. CASE Claim(e)
    BY <1>1, <1>3, <2>3 DEF Claim, Execution
  <2> QED
    BY <2>1, <2>2, <2>3
       DEF ExecutionStep, Skip, Checkpoint, FinishCancelled, FinishSuperseded, FinishForSteer,
           Deliver, RequeueAfterAbort, FailUnrecorded
<1>7. ASSUME NEW u \in Tasks, tasks'[u].status = "queued"
      PROVE  \/ /\ t = u /\ execs'[e].pc = "done"
                /\ execs'[e].outcome \in {"requeued_steer", "requeued_worker"}
             \/ tasks[u].status = "queued" /\ ~ (execs[e].pc = "starting" /\ t = u)
  <2>1. CASE FinishForSteer(e) \/ RequeueAfterAbort(e)
    <3>1. PICK o \in {"requeued_steer", "requeued_worker"} : Settle(e, o)
      BY <2>1 DEF FinishForSteer, RequeueAfterAbort
    <3>2. execs'[e] = Returned(t, o)
      BY <1>1, <1>3, <3>1 DEF Settle
    <3>3. u # t => tasks'[u] = tasks[u]
      BY <1>1, <1>3, <2>1 DEF FinishForSteer, RequeueAfterAbort
    <3> QED
      BY <1>5, <1>7, <3>1, <3>2, <3>3
  <2>2. CASE Claim(e)
    BY <1>1, <1>3, <1>4, <1>7, <2>2 DEF Claim
  <2>3. CASE Skip(e)
    BY <1>3, <1>7, <2>3 DEF Skip, Claimable, StopsAreTaken, Unfinished, Runnable, storeVars
  <2>4. ASSUME NEW choice, Checkpoint(e, choice)
        PROVE  tasks[u].status = "queued" /\ execs[e].pc = "running"
    BY <1>1, <1>3, <1>4, <1>7, <2>4 DEF Checkpoint
  <2>5. ASSUME NEW kind, Deliver(e, kind)
        PROVE  tasks[u].status = "queued" /\ execs[e].pc = "running"
    BY <1>1, <1>3, <1>4, <1>7, <2>5 DEF Deliver, MayFinish
  <2>6. CASE FinishCancelled(e) \/ FinishSuperseded(e) \/ FailUnrecorded(e)
    BY <1>7, <2>6 DEF FinishCancelled, FinishSuperseded, FailUnrecorded, storeVars
  <2> QED
    BY <2>1, <2>2, <2>3, <2>4, <2>5, <2>6 DEF ExecutionStep
<1> QED
  BY <1>2, <1>3, <1>6, <1>7

-----------------------------------------------------------------------------
(* What the steps of the workers and the API do to entries and posts.      *)

\* Executions that were started stay so, for the same task.
ExecsGoOn ==
    \A e \in Executions :
        execs[e].pc # "unused" => execs'[e].pc # "unused" /\ execs'[e].task = execs[e].task

\* ... and those that have not looked at their task have not now either.
StartsGoOn ==
    \A e \in Executions :
        execs[e].pc # "unused" => (execs[e].pc = "starting" => execs'[e].pc = "starting")

TasksGoOn ==
    \A n \in Entries : stream[n].state # "free" => stream'[n].task = stream[n].task

LEMMA RuntimeExecsGoOn ==
  ASSUME IInv, NEW E, Abort(E) \/ Lose(E)
  PROVE  /\ ExecsGoOn
         /\ \A e \in Executions \ E : execs'[e] = execs[e]
         /\ Abort(E) => StartsGoOn
<1>1. execs \in [Executions -> Execution]
  BY DEF IInv, TypeOK
<1>2. \A e \in Executions :
        /\ [execs[e] EXCEPT !.aborted = TRUE].pc = execs[e].pc
        /\ [execs[e] EXCEPT !.aborted = TRUE].task = execs[e].task
        /\ Returned(execs[e].task, "none").pc = "done"
        /\ Returned(execs[e].task, "none").task = execs[e].task
  BY <1>1 DEF Execution, Returned, Unused
<1>3. CASE Abort(E)
  BY <1>2, <1>3 DEF Abort, ExecsGoOn, StartsGoOn, Live
<1>4. CASE Lose(E)
  <2>1. \A e \in Executions : execs'[e] = execs[e] \/ execs'[e] = Returned(execs[e].task, "none")
    BY <1>4 DEF Lose
  <2>2. ExecsGoOn /\ \A e \in Executions \ E : execs'[e] = execs[e]
    BY <1>2, <1>4, <2>1 DEF Lose, ExecsGoOn
  <2>3. Abort(E) => StartsGoOn
    BY <1>3
  <2> QED
    BY <2>2, <2>3
<1> QED
  BY <1>3, <1>4

\* Reading an entry, or going on with one that was claimed.
LEMMA TakesUp ==
  ASSUME IInv, Held, NEW w \in Workers, Read(w) \/ BeginClaimed(w)
  PROVE  \E n \in Entries, e \in Executions :
           /\ workers[w].run # "down" /\ workers[w].stage = "idle"
           /\ execs[e].pc = "unused"
           /\ execs'[e].pc = "starting" /\ execs'[e].task = stream[n].task
           /\ \A f \in Executions \ {e} : execs'[f] = execs[f]
           /\ workers'[w].run = workers[w].run /\ workers'[w].stage = "executing"
           /\ workers'[w].entry = n /\ workers'[w].exec = e
           /\ workers'[w].batch = workers[w].batch \ {n}
           /\ \A v \in Workers \ {w} : workers'[v] = workers[v]
           /\ \A m \in Entries \ {n} : stream'[m] = stream[m]
           /\ stream'[n].task = stream[n].task
           /\ \/ /\ workers[w].batch = {}
                 /\ stream[n].state = "undelivered" /\ stream'[n].state = "leased"
              \/ n \in workers[w].batch /\ stream'[n] = stream[n]
           /\ UNCHANGED <<tasks, api, dispatches, faults>>
<1>1. /\ stream \in [Entries -> Entry] /\ workers \in [Workers -> Worker]
      /\ execs \in [Executions -> Execution]
  BY DEF Held, QueueTypes, IInv, TypeOK
<1>2. ASSUME NEW n \in Entries, NEW takeover \in BOOLEAN, Begin(w, n, takeover)
      PROVE  \E e \in Executions :
               /\ execs[e].pc = "unused"
               /\ execs'[e].pc = "starting" /\ execs'[e].task = stream[n].task
               /\ \A f \in Executions \ {e} : execs'[f] = execs[f]
               /\ workers'[w].run = workers[w].run /\ workers'[w].stage = "executing"
               /\ workers'[w].entry = n /\ workers'[w].exec = e
               /\ workers'[w].batch = workers[w].batch \ {n}
               /\ \A v \in Workers \ {w} : workers'[v] = workers[v]
  <2>1. PICK e \in Executions :
            /\ Spawn(e, stream[n].task, takeover)
            /\ workers' = [workers EXCEPT ![w].stage = "executing", ![w].entry = n,
                                          ![w].exec  = e, ![w].batch = @ \ {n}]
    BY <1>2 DEF Begin
  <2>2. /\ execs'[e].pc = "starting" /\ execs'[e].task = stream[n].task
        /\ execs[e].pc = "unused" /\ \A f \in Executions \ {e} : execs'[f] = execs[f]
    BY <1>1, <2>1 DEF Spawn, Unused
  <2> QED
    BY <1>1, <2>1, <2>2 DEF Worker
<1>3. CASE Read(w)
  <2>1. PICK n \in EntriesIn("undelivered") :
            stream' = MovedTo({n}, "leased") /\ Begin(w, n, FALSE)
    BY <1>3 DEF Read
  <2>2. n \in Entries /\ stream[n].state = "undelivered"
    BY <2>1 DEF EntriesIn
  <2>3. /\ \A m \in Entries \ {n} : stream'[m] = stream[m]
        /\ stream'[n].task = stream[n].task /\ stream'[n].state = "leased"
    BY <1>1, <2>1, <2>2 DEF MovedTo, Entry
  <2> QED
    BY <1>2, <1>3, <2>1, <2>2, <2>3 DEF Read, Idle, storeVars
<1>4. CASE BeginClaimed(w)
  <2>1. PICK n \in workers[w].batch : Begin(w, n, TRUE)
    BY <1>4 DEF BeginClaimed
  <2>2. /\ n \in Entries /\ stream' = stream
        /\ workers[w].run # "down" /\ workers[w].stage = "idle"
        /\ UNCHANGED <<tasks, api, dispatches, faults>>
    BY <1>1, <1>4, <2>1 DEF Worker, BeginClaimed, Idle, storeVars
  <2>3. PICK e \in Executions :
            /\ execs[e].pc = "unused"
            /\ execs'[e].pc = "starting" /\ execs'[e].task = stream[n].task
            /\ \A f \in Executions \ {e} : execs'[f] = execs[f]
            /\ workers'[w].run = workers[w].run /\ workers'[w].stage = "executing"
            /\ workers'[w].entry = n /\ workers'[w].exec = e
            /\ workers'[w].batch = workers[w].batch \ {n}
            /\ \A v \in Workers \ {w} : workers'[v] = workers[v]
    BY <1>2, <2>1, <2>2
  <2>4. stream'[n] = stream[n] /\ \A m \in Entries \ {n} : stream'[m] = stream[m]
    BY <2>2
  <2> QED
    BY <2>1, <2>2, <2>3, <2>4
<1> QED
  BY <1>3, <1>4

\* Adding an entry.
LEMMA AddsOne ==
  ASSUME Held, NEW t \in Tasks, AddEntry(t)
  PROVE  \E n \in Entries :
           /\ stream[n].state = "free"
           /\ stream'[n].state = "undelivered" /\ stream'[n].task = t
           /\ \A m \in Entries \ {n} : stream'[m] = stream[m]
  BY DEF Held, QueueTypes, Entry, AddEntry

\* Moving entries.
LEMMA Moves ==
  ASSUME Held, NEW S, NEW state, stream' = MovedTo(S, state)
  PROVE  \A n \in Entries :
           /\ stream'[n].task = stream[n].task
           /\ stream'[n].state = IF n \in S THEN state ELSE stream[n].state
  BY DEF Held, QueueTypes, Entry, MovedTo

\* A worker's record after what it does to it.
LEMMA WorkerBecomes ==
  ASSUME Held, NEW w \in Workers, NEW x, workers' = [workers EXCEPT ![w] = x]
  PROVE  workers'[w] = x /\ \A v \in Workers \ {w} : workers'[v] = workers[v]
  BY DEF Held, QueueTypes

LEMMA RestingWorkers ==
  /\ IdleWorker.run = "up" /\ IdleWorker.stage = "idle"
  /\ IdleWorker.exec = NoExecution /\ IdleWorker.batch = {}
  /\ DownWorker.run = "down" /\ DownWorker.stage = "idle"
  /\ DownWorker.exec = NoExecution /\ DownWorker.batch = {}
  BY DEF IdleWorker, DownWorker

\* A worker that gives up its entry.
LEMMA RestedWorker ==
  ASSUME Held, NEW w \in Workers
  PROVE  /\ Rested(w).stage = "idle" /\ Rested(w).exec = NoExecution
         /\ Rested(w).batch = workers[w].batch
         /\ Rested(w).run \in {workers[w].run, "down"}
         /\ Rested(w).run = "down" => workers[w].run = "down" \/ workers[w].batch = {}
<1>1. workers[w] \in Worker
  BY DEF Held, QueueTypes
<1> QED
  BY <1>1, RestingWorkers DEF Worker, Rested

\* A worker at work goes on to another stage.
LEMMA WorkerGoesOn ==
  ASSUME Held, NEW w \in Workers, NEW stage,
         workers' = [workers EXCEPT ![w].stage = stage]
  PROVE  /\ workers'[w].stage = stage /\ workers'[w].run = workers[w].run
         /\ workers'[w].entry = workers[w].entry /\ workers'[w].exec = workers[w].exec
         /\ workers'[w].batch = workers[w].batch
         /\ \A v \in Workers \ {w} : workers'[v] = workers[v]
  BY DEF Held, QueueTypes, Worker

\* An execution's step, and where it leaves its worker.
LEMMA Works ==
  ASSUME Held, NEW w \in Workers, WorkerExecutes(w)
  PROVE  /\ workers[w].stage = "executing" /\ workers[w].exec \in Executions
         /\ ExecutionStep(workers[w].exec)
         /\ workers'[w].stage \in {"executing", "handing", "acking"}
         /\ LET e == workers[w].exec IN
              execs'[e].pc = "done" /\ execs'[e].outcome \in {"requeued_steer", "requeued_worker"}
                => workers'[w].stage = "handing"
         /\ workers'[w].run = workers[w].run /\ workers'[w].entry = workers[w].entry
         /\ workers'[w].exec = workers[w].exec /\ workers'[w].batch = workers[w].batch
         /\ \A v \in Workers \ {w} : workers'[v] = workers[v]
         /\ UNCHANGED <<stream, api, dispatches, faults>>
<1>1. workers[w].stage = "executing" /\ workers[w].exec \in Executions
  BY DEF WorkerExecutes, Held, WorkersHoldEntries, HoldsEntries
<1>2. \/ execs'[workers[w].exec].pc # "done" /\ UNCHANGED workers
      \/ \E stage \in {"handing", "acking"} :
            /\ workers' = [workers EXCEPT ![w].stage = stage]
            /\ execs'[workers[w].exec].outcome \in {"requeued_steer", "requeued_worker"}
                 => stage = "handing"
  BY DEF WorkerExecutes
<1>3. CASE execs'[workers[w].exec].pc # "done" /\ UNCHANGED workers
  BY <1>1, <1>3 DEF WorkerExecutes
<1>4. ASSUME NEW stage \in {"handing", "acking"},
             workers' = [workers EXCEPT ![w].stage = stage],
             execs'[workers[w].exec].outcome \in {"requeued_steer", "requeued_worker"}
                 => stage = "handing"
      PROVE  /\ workers'[w].stage \in {"executing", "handing", "acking"}
             /\ LET e == workers[w].exec IN
                  execs'[e].pc = "done" /\ execs'[e].outcome \in {"requeued_steer", "requeued_worker"}
                    => workers'[w].stage = "handing"
             /\ workers'[w].run = workers[w].run /\ workers'[w].entry = workers[w].entry
             /\ workers'[w].exec = workers[w].exec /\ workers'[w].batch = workers[w].batch
             /\ \A v \in Workers \ {w} : workers'[v] = workers[v]
  BY <1>4, WorkerGoesOn
<1> QED
  BY <1>1, <1>2, <1>3, <1>4 DEF WorkerExecutes

-----------------------------------------------------------------------------
(* Posts.                                                                  *)

\* The workers but w stay as they are.
LEMMA PostsPut ==
  ASSUME Held, PostsInOrder, ExecsGoOn, TasksGoOn, NEW w \in Workers,
         \A v \in Workers \ {w} : workers'[v] = workers[v],
         workers'[w].run = "down" => workers'[w].stage = "idle" /\ workers'[w].batch = {},
         workers'[w].stage = "idle" => workers'[w].exec = NoExecution,
         workers'[w].stage # "idle" =>
            /\ execs'[workers'[w].exec].pc # "unused"
            /\ execs'[workers'[w].exec].task = stream'[workers'[w].entry].task
            /\ \A v \in Workers \ {w} : workers[v].stage # "idle" =>
                    workers[v].exec # workers'[w].exec
  PROVE  PostsInOrder'
<1>1. \A v \in Workers : workers[v].stage # "idle" =>
        /\ execs'[workers[v].exec].pc # "unused"
        /\ execs'[workers[v].exec].task = stream'[workers[v].entry].task
  BY DEF Held, WorkersHoldEntries, HoldsEntries, PostsInOrder, ExecsGoOn, TasksGoOn
<1> QED
  BY <1>1 DEF PostsInOrder

LEMMA PostsKept ==
  ASSUME Held, PostsInOrder, ExecsGoOn, TasksGoOn, UNCHANGED workers
  PROVE  PostsInOrder'
<1>1. \A v \in Workers : workers[v].stage # "idle" =>
        /\ execs'[workers[v].exec].pc # "unused"
        /\ execs'[workers[v].exec].task = stream'[workers[v].entry].task
  BY DEF Held, WorkersHoldEntries, HoldsEntries, PostsInOrder, ExecsGoOn, TasksGoOn
<1> QED
  BY <1>1 DEF PostsInOrder

\* No step of the runtime undoes a start or gives an entry to another task.
LEMMA GoesOn ==
  ASSUME QueueInv, StopsAreTaken, [QueueNext]_allVars
  PROVE  ExecsGoOn /\ TasksGoOn
<1>1. IInv /\ Held
  BY DEF QueueInv
<1>2. UNCHANGED execs => ExecsGoOn
  BY DEF ExecsGoOn
<1>3. UNCHANGED stream => TasksGoOn
  BY DEF TasksGoOn
<1>4. ASSUME NEW S, NEW state, stream' = MovedTo(S, state)
      PROVE  TasksGoOn
  BY <1>1, <1>4, Moves DEF TasksGoOn
<1>5. ASSUME NEW t \in Tasks, AddEntry(t)
      PROVE  TasksGoOn
  BY <1>1, <1>5, AddsOne DEF TasksGoOn
<1>6. CASE \/ QueueApi \/ ApiCrash \/ ApiBoot \/ ApiListen
           \/ \E t \in Tasks : EnqueueFails(t) \/ QueueInterrupt(t)
           \/ UNCHANGED allVars
  BY <1>2, <1>3, <1>6
     DEF QueueApi, ApiCrash, ApiBoot, ApiListen, EnqueueFails, QueueInterrupt, allVars, vars,
         queueVars
<1>7. ASSUME NEW t \in Tasks, Enqueue(t)
      PROVE  ExecsGoOn /\ TasksGoOn
  BY <1>2, <1>5, <1>7 DEF Enqueue, vars
<1>8. ASSUME NEW n \in Entries, LeaseExpires(n)
      PROVE  ExecsGoOn /\ TasksGoOn
  BY <1>2, <1>4, <1>8 DEF LeaseExpires, vars
<1>9. ASSUME NEW c \in cancels, CancelArrives(c)
      PROVE  ExecsGoOn /\ TasksGoOn
  BY <1>1, <1>3, <1>9, RuntimeExecsGoOn DEF CancelArrives
<1>10. ASSUME NEW w \in Workers, Read(w) \/ BeginClaimed(w)
       PROVE  ExecsGoOn /\ TasksGoOn
  BY <1>1, <1>10, TakesUp DEF ExecsGoOn, TasksGoOn
<1>11. ASSUME NEW w \in Workers, WorkerExecutes(w)
       PROVE  ExecsGoOn /\ TasksGoOn
  BY <1>1, <1>3, <1>11, Works, ExecutionQueues DEF ExecsGoOn
<1>12. ASSUME NEW w \in Workers, HandBack(w)
       PROVE  ExecsGoOn /\ TasksGoOn
  <2>1. stream[workers[w].entry].task \in Tasks
    BY <1>1, <1>12 DEF HandBack, Held, EntriesHaveTasks, WorkersHoldEntries, HoldsEntries
  <2> QED
    BY <1>2, <1>5, <1>12, <2>1 DEF HandBack, vars
<1>13. ASSUME NEW w \in Workers, ClaimStale(w) \/ Ack(w) \/ Heartbeat(w)
       PROVE  ExecsGoOn /\ TasksGoOn
  BY <1>2, <1>4, <1>13 DEF ClaimStale, Ack, Heartbeat, vars
<1>14. ASSUME NEW w \in Workers, WorkerKilled(w) \/ WorkerStops(w)
       PROVE  ExecsGoOn /\ TasksGoOn
  BY <1>1, <1>3, <1>14, RuntimeExecsGoOn DEF WorkerKilled, WorkerStops
<1>15. ASSUME NEW w \in Workers, WorkerExits(w) \/ WorkerBoots(w)
       PROVE  ExecsGoOn /\ TasksGoOn
  BY <1>2, <1>3, <1>15 DEF WorkerExits, WorkerBoots, vars
<1> QED
  BY <1>6, <1>7, <1>8, <1>9, <1>10, <1>11, <1>12, <1>13, <1>14, <1>15 DEF QueueNext

LEMMA PostsNext ==
  ASSUME QueueInv, StopsAreTaken, PostsInOrder, [QueueNext]_allVars
  PROVE  PostsInOrder'
<1>1. IInv /\ Held /\ ExecsGoOn /\ TasksGoOn
  BY GoesOn DEF QueueInv
<1>2. CASE UNCHANGED workers
  BY <1>1, <1>2, PostsKept
<1>3. ASSUME NEW w \in Workers, Read(w) \/ BeginClaimed(w)
      PROVE  PostsInOrder'
  <2>1. PICK n \in Entries, e \in Executions :
          /\ workers[w].run # "down"
          /\ execs[e].pc = "unused"
          /\ execs'[e].pc = "starting" /\ execs'[e].task = stream[n].task
          /\ workers'[w].run = workers[w].run /\ workers'[w].stage = "executing"
          /\ workers'[w].entry = n /\ workers'[w].exec = e
          /\ \A v \in Workers \ {w} : workers'[v] = workers[v]
          /\ stream'[n].task = stream[n].task
    BY <1>1, <1>3, TakesUp
  <2>2. \A v \in Workers : workers[v].stage # "idle" => workers[v].exec # e
    BY <2>1 DEF PostsInOrder
  <2> QED
    BY <1>1, <2>1, <2>2, PostsPut
<1>4. ASSUME NEW w \in Workers,
             /\ workers[w].stage # "idle" /\ workers'[w].stage # "idle"
             /\ workers'[w].run = workers[w].run
             /\ workers'[w].entry = workers[w].entry /\ workers'[w].exec = workers[w].exec
             /\ \A v \in Workers \ {w} : workers'[v] = workers[v]
      PROVE  PostsInOrder'
  <2>1. /\ workers[w].run # "down"
        /\ execs[workers[w].exec].pc # "unused"
        /\ execs[workers[w].exec].task = stream[workers[w].entry].task
        /\ workers[w].exec \in Executions /\ workers[w].entry \in Entries
        /\ stream[workers[w].entry].state # "free"
        /\ \A v \in Workers \ {w} : workers[v].stage # "idle" => workers[v].exec # workers[w].exec
    BY <1>1, <1>4 DEF PostsInOrder, Held, WorkersHoldEntries, HoldsEntries
  <2>2. /\ execs'[workers[w].exec].pc # "unused"
        /\ execs'[workers[w].exec].task = stream'[workers[w].entry].task
    BY <1>1, <2>1 DEF ExecsGoOn, TasksGoOn
  <2> QED
    BY <1>1, <1>4, <2>1, <2>2, PostsPut
<1>5. ASSUME NEW w \in Workers, WorkerExecutes(w)
      PROVE  PostsInOrder'
  BY <1>1, <1>4, <1>5, Works
<1>6. ASSUME NEW w \in Workers, HandBack(w)
      PROVE  PostsInOrder'
  <2>1. workers[w].stage = "handing" /\ workers' = [workers EXCEPT ![w].stage = "acking"]
    BY <1>6 DEF HandBack
  <2> QED
    BY <1>1, <1>4, <2>1, WorkerGoesOn
<1>7. ASSUME NEW w \in Workers, Ack(w)
      PROVE  PostsInOrder'
  <2>1. workers[w].run # "down" /\ workers[w].stage # "idle"
    BY <1>7 DEF Ack, PostsInOrder
  <2>2. workers'[w] = Rested(w) /\ \A v \in Workers \ {w} : workers'[v] = workers[v]
    BY <1>1, <1>7, WorkerBecomes DEF Ack
  <2> QED
    BY <1>1, <2>1, <2>2, RestedWorker, PostsPut
<1>8. ASSUME NEW w \in Workers, ClaimStale(w)
      PROVE  PostsInOrder'
  <2>1. /\ workers[w].run # "down" /\ workers[w].stage = "idle"
        /\ workers' = [workers EXCEPT ![w].batch = EntriesIn("expired")]
    BY <1>8 DEF ClaimStale, Idle
  <2>2. /\ workers'[w].run = workers[w].run /\ workers'[w].stage = "idle"
        /\ workers'[w].exec = workers[w].exec
        /\ \A v \in Workers \ {w} : workers'[v] = workers[v]
    BY <1>1, <2>1 DEF Held, QueueTypes, Worker
  <2>3. workers[w].exec = NoExecution
    BY <2>1 DEF PostsInOrder
  <2> QED
    BY <1>1, <2>1, <2>2, <2>3, PostsPut
<1>9. ASSUME NEW w \in Workers, WorkerKilled(w) \/ WorkerExits(w) \/ WorkerBoots(w)
      PROVE  PostsInOrder'
  <2>1. PICK x \in {IdleWorker, DownWorker} : workers' = [workers EXCEPT ![w] = x]
    BY <1>9 DEF WorkerKilled, WorkerExits, WorkerBoots
  <2>2. workers'[w] = x /\ \A v \in Workers \ {w} : workers'[v] = workers[v]
    BY <1>1, <2>1, WorkerBecomes
  <2>3. x.stage = "idle" /\ x.exec = NoExecution /\ x.batch = {}
    BY <2>1, RestingWorkers
  <2> QED
    BY <1>1, <2>2, <2>3, PostsPut
<1>10. ASSUME NEW w \in Workers, WorkerStops(w)
       PROVE  PostsInOrder'
  <2>1. /\ workers'[w].run = "stopping" /\ workers'[w].stage = workers[w].stage
        /\ workers'[w].entry = workers[w].entry /\ workers'[w].exec = workers[w].exec
        /\ \A v \in Workers \ {w} : workers'[v] = workers[v]
    BY <1>1, <1>10 DEF WorkerStops, Held, QueueTypes, Worker
  <2>2. \A v \in Workers \ {w} :
            workers[w].stage # "idle" /\ workers[v].stage # "idle"
                => workers[v].exec # workers[w].exec
    BY DEF PostsInOrder
  <2>3. workers[w].stage # "idle" =>
            /\ execs'[workers[w].exec].pc # "unused"
            /\ execs'[workers[w].exec].task = stream'[workers[w].entry].task
    BY <1>1 DEF Held, WorkersHoldEntries, HoldsEntries, PostsInOrder, ExecsGoOn, TasksGoOn
  <2>4. workers[w].stage = "idle" => workers[w].exec = NoExecution
    BY DEF PostsInOrder
  <2> QED
    BY <1>1, <2>1, <2>2, <2>3, <2>4, PostsPut
<1> QED
  BY <1>2, <1>3, <1>5, <1>6, <1>7, <1>8, <1>9, <1>10
     DEF QueueNext, QueueApi, Enqueue, EnqueueFails, QueueInterrupt, ApiCrash, ApiBoot,
         ApiListen, Heartbeat, LeaseExpires, CancelArrives, allVars, queueVars

-----------------------------------------------------------------------------
(* Leases, while few faults have happened.                                 *)

\* Whoever tended an entry tends it still, and pending entries stay pending.
LEMMA LeasesKept ==
  ASSUME Held, LeasesInOrder, UNCHANGED faults,
         \A w \in Workers :
            /\ workers'[w].run # "stopping"
            /\ workers'[w].batch = workers[w].batch
            /\ workers'[w].batch # {} => workers'[w].stage = "idle",
         \A w \in Workers, n \in Entries : Tends(w, n)' <=> Tends(w, n),
         \A n \in Entries :
            \/ stream'[n].state = stream[n].state
            \/ stream[n].state = "free" /\ stream'[n].state = "undelivered"
            \/ Orphan(n) /\ stream'[n].state = "expired"
  PROVE  LeasesInOrder'
<1>1. OneTends'
  BY DEF LeasesInOrder, OneTends, Orphan
<1>2. TendsOne'
  BY DEF LeasesInOrder, TendsOne
<1>3. \A n \in Entries : Orphan(n)' => Orphan(n)
  BY DEF Orphan
<1>4. OneOrphan'
  BY <1>3 DEF LeasesInOrder, OneOrphan
<1> QED
  BY <1>1, <1>2, <1>4 DEF LeasesInOrder

LEMMA LeasesNext ==
  ASSUME QueueInv, FaultsAreCounted, PostsInOrder, [QueueNext]_allVars,
         faults.stop = 0 /\ faults.kill <= 1 => LeasesInOrder
  PROVE  (faults.stop = 0 /\ faults.kill <= 1)' => LeasesInOrder'
<1>1. /\ IInv /\ Held
      /\ workers \in [Workers -> Worker] /\ stream \in [Entries -> Entry]
      /\ faults \in [kill : Nat, stop : Nat, api : Nat]
  BY DEF QueueInv, Held, QueueTypes, FaultsAreCounted
<1>2. ASSUME UNCHANGED faults, LeasesInOrder => LeasesInOrder'
      PROVE  (faults.stop = 0 /\ faults.kill <= 1)' => LeasesInOrder'
  BY <1>2
<1>3. CASE UNCHANGED <<workers, stream>> /\ faults'.kill = faults.kill /\ faults'.stop = faults.stop
  BY <1>3 DEF LeasesInOrder, OneTends, TendsOne, OneOrphan, Tends, Orphan
<1>4. CASE QueueApi \/ \E t \in Tasks : EnqueueFails(t) \/ QueueInterrupt(t)
  BY <1>3, <1>4 DEF QueueApi, EnqueueFails, QueueInterrupt
<1>5. CASE ApiCrash \/ ApiBoot \/ ApiListen \/ UNCHANGED allVars
  <2>1. [faults EXCEPT !.api = @ + 1].kill = faults.kill /\ [faults EXCEPT !.api = @ + 1].stop = faults.stop
    BY <1>1
  <2> QED
    BY <1>3, <1>5, <2>1 DEF ApiCrash, ApiBoot, ApiListen, allVars, queueVars
<1>6. ASSUME NEW c \in cancels, CancelArrives(c)
      PROVE  (faults.stop = 0 /\ faults.kill <= 1)' => LeasesInOrder'
  BY <1>3, <1>6 DEF CancelArrives
<1>7. ASSUME NEW t \in Tasks, Enqueue(t), LeasesInOrder
      PROVE  LeasesInOrder'
  <2>1. AddEntry(t) /\ UNCHANGED <<workers, faults>>
    BY <1>7 DEF Enqueue
  <2>2. \A w \in Workers, n \in Entries : Tends(w, n)' <=> Tends(w, n)
    BY <2>1 DEF Tends
  <2>3. \A n \in Entries : \/ stream'[n].state = stream[n].state
                           \/ stream[n].state = "free" /\ stream'[n].state = "undelivered"
    BY <1>1, <2>1, AddsOne
  <2>4. \A w \in Workers :
            /\ workers'[w].run # "stopping"
            /\ workers'[w].batch = workers[w].batch
            /\ workers'[w].batch # {} => workers'[w].stage = "idle"
    BY <1>7, <2>1 DEF LeasesInOrder, TendsOne
  <2>5. UNCHANGED faults /\ LeasesInOrder
    BY <1>7, <2>1
  <2> QED
    BY <1>1, <2>2, <2>3, <2>4, <2>5, LeasesKept
<1>8. ASSUME NEW n \in Entries, LeaseExpires(n), LeasesInOrder
      PROVE  LeasesInOrder'
  <2>1. /\ stream[n].state = "leased" /\ stream' = MovedTo({n}, "expired")
        /\ \A w \in Workers : Holds(w, n) => Neglects(w, n)
        /\ UNCHANGED <<workers, faults>>
    BY <1>8 DEF LeaseExpires
  <2>2. \A w \in Workers : ~ Neglects(w, n)
    BY <1>8 DEF LeasesInOrder, TendsOne, Neglects
  <2>3. Orphan(n)
    BY <2>1, <2>2 DEF Orphan, Tends, Holds
  <2>4. \A m \in Entries : stream'[m].state = IF m \in {n} THEN "expired" ELSE stream[m].state
    BY <1>1, <2>1, Moves
  <2>5. \A w \in Workers, m \in Entries : Tends(w, m)' <=> Tends(w, m)
    BY <2>1 DEF Tends
  <2> QED
    BY <1>1, <1>8, <2>1, <2>3, <2>4, <2>5, LeasesKept DEF LeasesInOrder, TendsOne
<1>9. ASSUME NEW w \in Workers, Heartbeat(w), LeasesInOrder
      PROVE  FALSE
  <2>1. workers[w].stage = "executing" /\ stream[workers[w].entry].state = "expired"
    BY <1>9 DEF Heartbeat
  <2>2. workers[w].entry \in Entries /\ Tends(w, workers[w].entry)
    BY <1>1, <2>1 DEF Held, WorkersHoldEntries, HoldsEntries, Tends
  <2> QED
    BY <1>9, <2>1, <2>2 DEF LeasesInOrder, OneTends
<1>10. ASSUME NEW w \in Workers, WorkerExecutes(w) \/ HandBack(w), LeasesInOrder
       PROVE  LeasesInOrder'
  <2>1. /\ workers[w].stage # "idle" /\ workers'[w].stage # "idle"
        /\ workers'[w].run = workers[w].run /\ workers'[w].entry = workers[w].entry
        /\ workers'[w].batch = workers[w].batch
        /\ \A v \in Workers \ {w} : workers'[v] = workers[v]
        /\ UNCHANGED faults
    <3>1. CASE WorkerExecutes(w)
      BY <1>1, <3>1, Works
    <3>2. CASE HandBack(w)
      <4>1. /\ workers[w].stage = "handing" /\ workers' = [workers EXCEPT ![w].stage = "acking"]
            /\ UNCHANGED faults
        BY <3>2 DEF HandBack
      <4> QED
        BY <1>1, <4>1, WorkerGoesOn
    <3> QED
      BY <1>10, <3>1, <3>2
  <2>2. \A n \in Entries : \/ stream'[n].state = stream[n].state
                           \/ stream[n].state = "free" /\ stream'[n].state = "undelivered"
    <3>1. CASE WorkerExecutes(w)
      BY <1>1, <3>1, Works
    <3>2. CASE HandBack(w)
      <4>1. stream[workers[w].entry].task \in Tasks /\ AddEntry(stream[workers[w].entry].task)
        BY <1>1, <2>1, <3>2
           DEF HandBack, Held, EntriesHaveTasks, WorkersHoldEntries, HoldsEntries
      <4> QED
        BY <1>1, <4>1, AddsOne
    <3> QED
      BY <1>10, <3>1, <3>2
  <2>3. \A v \in Workers, n \in Entries : Tends(v, n)' <=> Tends(v, n)
    BY <2>1 DEF Tends
  <2>4. \A v \in Workers :
            /\ workers'[v].run # "stopping"
            /\ workers'[v].batch = workers[v].batch
            /\ workers'[v].batch # {} => workers'[v].stage = "idle"
    BY <1>10, <2>1 DEF LeasesInOrder, TendsOne
  <2> QED
    BY <1>1, <1>10, <2>1, <2>2, <2>3, <2>4, LeasesKept
<1>11. ASSUME NEW w \in Workers, Read(w) \/ BeginClaimed(w), LeasesInOrder
       PROVE  LeasesInOrder'
  <2>1. PICK n \in Entries :
          /\ workers[w].stage = "idle"
          /\ workers'[w].run = workers[w].run /\ workers'[w].stage = "executing"
          /\ workers'[w].entry = n
          /\ workers'[w].batch = workers[w].batch \ {n}
          /\ \A v \in Workers \ {w} : workers'[v] = workers[v]
          /\ \A m \in Entries \ {n} : stream'[m] = stream[m]
          /\ \/ /\ workers[w].batch = {}
                /\ stream[n].state = "undelivered" /\ stream'[n].state = "leased"
             \/ n \in workers[w].batch /\ stream'[n] = stream[n]
          /\ UNCHANGED faults
    BY <1>1, <1>11, TakesUp
  <2>2. /\ workers'[w].batch = {}
        /\ stream'[n].state = "leased"
        /\ \A m \in Entries \ {n} : ~ Tends(w, m)
    BY <1>11, <2>1 DEF LeasesInOrder, TendsOne, OneTends, Tends
  <2>3. \A v \in Workers \ {w} : ~ Tends(v, n)
    BY <1>11, <2>1 DEF LeasesInOrder, OneTends, Tends
  <2>4. /\ \A m \in Entries : Tends(w, m)' <=> m = n
        /\ \A v \in Workers \ {w}, m \in Entries : Tends(v, m)' <=> Tends(v, m)
    BY <2>1, <2>2 DEF Tends
  <2>5. \A m \in Entries : Orphan(m)' => Orphan(m)
    BY <2>1, <2>2, <2>4 DEF Orphan
  <2>6. OneTends'
    BY <1>11, <2>1, <2>2, <2>3, <2>4 DEF LeasesInOrder, OneTends
  <2>7. TendsOne'
    BY <1>11, <2>1, <2>2 DEF LeasesInOrder, TendsOne
  <2>8. OneOrphan'
    BY <1>11, <2>1, <2>5 DEF LeasesInOrder, OneOrphan
  <2> QED
    BY <2>6, <2>7, <2>8 DEF LeasesInOrder
<1>12. ASSUME NEW w \in Workers, ClaimStale(w), LeasesInOrder
       PROVE  LeasesInOrder'
  <2>1. /\ workers[w].stage = "idle" /\ workers[w].batch = {}
        /\ stream' = MovedTo(EntriesIn("expired"), "leased")
        /\ workers' = [workers EXCEPT ![w].batch = EntriesIn("expired")]
        /\ UNCHANGED faults
    BY <1>12 DEF ClaimStale, Idle
  <2>2. /\ workers'[w].run = workers[w].run /\ workers'[w].stage = "idle"
        /\ workers'[w].batch = EntriesIn("expired")
        /\ \A v \in Workers \ {w} : workers'[v] = workers[v]
    BY <1>1, <2>1 DEF Worker
  <2>3. \A n : n \in EntriesIn("expired") <=> n \in Entries /\ stream[n].state = "expired"
    BY DEF EntriesIn
  <2>4. \A n \in Entries : stream'[n].state = IF stream[n].state = "expired" THEN "leased"
                                              ELSE stream[n].state
    BY <1>1, <2>1, <2>3, Moves
  <2>5. \A n \in EntriesIn("expired") : Orphan(n)
    BY <1>12, <2>3 DEF LeasesInOrder, OneTends, Orphan
  <2>6. /\ \A n \in Entries : Tends(w, n)' <=> stream[n].state = "expired"
        /\ \A n \in Entries : ~ Tends(w, n)
        /\ \A v \in Workers \ {w}, n \in Entries : Tends(v, n)' <=> Tends(v, n)
    BY <2>1, <2>2, <2>3 DEF Tends
  <2>7. \A n \in Entries : Orphan(n)' => Orphan(n)
    BY <2>4, <2>6 DEF Orphan
  <2>8. OneTends'
    BY <1>12, <2>3, <2>4, <2>5, <2>6 DEF LeasesInOrder, OneTends, Orphan
  <2>9. TendsOne'
    BY <1>12, <2>2, <2>3, <2>5 DEF LeasesInOrder, TendsOne, OneOrphan
  <2>10. OneOrphan'
    BY <1>12, <2>1, <2>7 DEF LeasesInOrder, OneOrphan
  <2> QED
    BY <2>8, <2>9, <2>10 DEF LeasesInOrder
<1>13. ASSUME NEW w \in Workers, Ack(w), LeasesInOrder
       PROVE  LeasesInOrder'
  <2>1. /\ workers[w].stage # "idle"
        /\ stream' = MovedTo({workers[w].entry}, "gone")
        /\ workers' = [workers EXCEPT ![w] = Rested(w)]
        /\ UNCHANGED faults
    BY <1>13 DEF Ack
  <2>2. workers'[w] = Rested(w) /\ \A v \in Workers \ {w} : workers'[v] = workers[v]
    BY <1>1, <2>1, WorkerBecomes
  <2>3. workers[w].batch = {}
    BY <1>13, <2>1 DEF LeasesInOrder, TendsOne
  <2>4. /\ workers'[w].stage = "idle" /\ workers'[w].batch = {} /\ workers'[w].run # "stopping"
        /\ \A n \in Entries : Tends(w, n) <=> n = workers[w].entry
    BY <1>1, <1>13, <2>1, <2>2, <2>3, RestedWorker DEF LeasesInOrder, TendsOne, Tends
  <2>5. \A n \in Entries : stream'[n].state = IF n = workers[w].entry THEN "gone"
                                              ELSE stream[n].state
    <3>1. PICK S : S = {workers[w].entry}
      OBVIOUS
    <3>2. stream' = MovedTo(S, "gone")
      BY <2>1, <3>1
    <3>3. \A n \in Entries : stream'[n].state = IF n \in S THEN "gone" ELSE stream[n].state
      BY <1>1, <3>2, Moves
    <3> QED
      BY <3>1, <3>3
  <2>6. /\ \A n \in Entries : ~ Tends(w, n)'
        /\ \A v \in Workers \ {w}, n \in Entries : Tends(v, n)' <=> Tends(v, n)
    BY <2>2, <2>4 DEF Tends
  <2>7. \A n \in Entries : Orphan(n)' => Orphan(n)
    BY <2>4, <2>5, <2>6 DEF Orphan
  <2>8. OneTends'
    BY <1>13, <2>1, <2>4, <2>5, <2>6 DEF LeasesInOrder, OneTends
  <2>9. TendsOne'
    BY <1>13, <2>2, <2>4 DEF LeasesInOrder, TendsOne
  <2>10. OneOrphan'
    BY <1>13, <2>1, <2>7 DEF LeasesInOrder, OneOrphan
  <2> QED
    BY <2>8, <2>9, <2>10 DEF LeasesInOrder
<1>14. ASSUME NEW w \in Workers, WorkerBoots(w), LeasesInOrder
       PROVE  LeasesInOrder'
  <2>1. workers[w].stage = "idle" /\ workers[w].batch = {}
    BY <1>14 DEF WorkerBoots, PostsInOrder
  <2>2. workers'[w] = IdleWorker /\ \A v \in Workers \ {w} : workers'[v] = workers[v]
    BY <1>1, <1>14, WorkerBecomes DEF WorkerBoots
  <2>3. \A v \in Workers, n \in Entries : Tends(v, n)' <=> Tends(v, n)
    BY <2>1, <2>2, RestingWorkers DEF Tends
  <2>4. \A v \in Workers :
            /\ workers'[v].run # "stopping"
            /\ workers'[v].batch = workers[v].batch
            /\ workers'[v].batch # {} => workers'[v].stage = "idle"
    <3>1. /\ workers'[w].run = "up" /\ workers'[w].batch = workers[w].batch
          /\ workers'[w].stage = "idle"
      BY <2>1, <2>2, RestingWorkers
    <3>2. \A v \in Workers : workers[v].run # "stopping" /\ (workers[v].batch # {} => workers[v].stage = "idle")
      BY <1>14 DEF LeasesInOrder, TendsOne
    <3> QED
      BY <2>2, <3>1, <3>2
  <2> QED
    BY <1>1, <1>14, <2>3, <2>4, LeasesKept DEF WorkerBoots
<1>15. ASSUME NEW w \in Workers, WorkerExits(w), LeasesInOrder
       PROVE  FALSE
  BY <1>15 DEF WorkerExits, LeasesInOrder, TendsOne
<1>16. ASSUME NEW w \in Workers, WorkerStops(w), (faults.stop = 0)'
       PROVE  FALSE
  BY <1>1, <1>16 DEF WorkerStops
<1>17. ASSUME NEW w \in Workers, WorkerKilled(w), (faults.stop = 0 /\ faults.kill <= 1)'
       PROVE  LeasesInOrder'
  <2>1. /\ faults'.kill = faults.kill + 1 /\ faults'.stop = faults.stop
        /\ UNCHANGED stream
        /\ workers' = [workers EXCEPT ![w] = DownWorker]
    BY <1>1, <1>17 DEF WorkerKilled
  <2>2. faults.kill = 0 /\ faults'.kill # 0 /\ LeasesInOrder
    BY <1>1, <1>17, <2>1
  <2>3. workers'[w] = DownWorker /\ \A v \in Workers \ {w} : workers'[v] = workers[v]
    BY <1>1, <2>1, WorkerBecomes
  <2>4. /\ \A n \in Entries : ~ Tends(w, n)'
        /\ \A v \in Workers \ {w}, n \in Entries : Tends(v, n)' <=> Tends(v, n)
    BY <2>3, RestingWorkers DEF Tends
  <2>5. \A n \in Entries : Orphan(n)' => Tends(w, n)
    BY <2>1, <2>2, <2>4 DEF LeasesInOrder, OneOrphan, Orphan
  <2>6. \A n, m \in Entries : Tends(w, n) /\ Tends(w, m) => n = m
    BY <2>2 DEF LeasesInOrder, TendsOne, Tends
  <2>7. OneTends'
    BY <2>1, <2>2, <2>4 DEF LeasesInOrder, OneTends
  <2>8. TendsOne'
    BY <2>2, <2>3, RestingWorkers DEF LeasesInOrder, TendsOne
  <2>9. OneOrphan'
    BY <2>2, <2>5, <2>6 DEF OneOrphan
  <2> QED
    BY <2>7, <2>8, <2>9 DEF LeasesInOrder
<1>18. ASSUME NEW w \in Workers, ~ WorkerKilled(w), ~ WorkerStops(w),
              \/ Read(w) \/ ClaimStale(w) \/ BeginClaimed(w) \/ WorkerExecutes(w)
              \/ HandBack(w) \/ Ack(w) \/ Heartbeat(w) \/ WorkerExits(w) \/ WorkerBoots(w)
       PROVE  (faults.stop = 0 /\ faults.kill <= 1)' => LeasesInOrder'
  <2>1. UNCHANGED faults
    BY <1>18 DEF Read, ClaimStale, BeginClaimed, WorkerExecutes, HandBack, Ack, Heartbeat,
                 WorkerExits, WorkerBoots
  <2> QED
    BY <1>2, <1>9, <1>10, <1>11, <1>12, <1>13, <1>14, <1>15, <1>18, <2>1
<1>19. (\E t \in Tasks : Enqueue(t)) \/ (\E n \in Entries : LeaseExpires(n))
         => ((faults.stop = 0 /\ faults.kill <= 1)' => LeasesInOrder')
  BY <1>2, <1>7, <1>8 DEF Enqueue, LeaseExpires
<1> QED
  BY <1>4, <1>5, <1>6, <1>16, <1>17, <1>18, <1>19 DEF QueueNext

-----------------------------------------------------------------------------
(* The way of a queued task.                                               *)

Pending == {"undelivered", "leased", "expired"}

\* What awaits a worker goes on to, and whoever hands the task back does or has.
LEMMA WayKept ==
  ASSUME NEW t, OnItsWay(t), TasksGoOn,
         t \in dispatches => OnItsWay(t)',
         \A w \in Workers : HandsBack(w, t) => OnItsWay(t)',
         \A n \in Entries : stream[n].task = t /\ Awaits(n) => stream'[n].state \in Pending,
         \A w \in Workers, n \in Entries :
            /\ stream[n].task = t /\ Awaits(n)
            /\ workers'[w].stage # "idle" /\ workers'[w].entry = n
            => workers'[w].stage = "executing" /\ execs'[workers'[w].exec].pc = "starting"
  PROVE  OnItsWay(t)'
<1>1. ASSUME NEW n \in Entries, stream[n].task = t, Awaits(n)
      PROVE  OnItsWay(t)'
  <2>1. Awaits(n)'
    BY <1>1 DEF Awaits, Pending
  <2>2. stream'[n].task = t
    BY <1>1 DEF Awaits, TasksGoOn
  <2> QED
    BY <2>1, <2>2 DEF OnItsWay
<1> QED
  BY <1>1 DEF OnItsWay

\* A task that is handed back is, unless its worker goes on.
LEMMA HandsBackKept ==
  ASSUME Held, TasksGoOn, NEW t, NEW w \in Workers, HandsBack(w, t),
         workers'[w].stage = "handing", workers'[w].entry = workers[w].entry
  PROVE  OnItsWay(t)'
<1>1. workers[w].entry \in Entries /\ stream[workers[w].entry].state # "free"
  BY DEF Held, WorkersHoldEntries, HoldsEntries, HandsBack
<1>2. HandsBack(w, t)'
  BY <1>1 DEF HandsBack, TasksGoOn
<1> QED
  BY <1>2 DEF OnItsWay

\* The API: who is queued is dispatched, and keeps the way it had.
LEMMA ApiKeepsWay ==
  ASSUME QueueInv, NEW t \in Tasks, api # "down" /\ tasks[t].status = "queued" => OnItsWay(t),
         \/ QueueApi \/ ApiCrash \/ ApiBoot \/ ApiListen \/ UNCHANGED allVars
         \/ \E u \in Tasks : EnqueueFails(u) \/ QueueInterrupt(u),
         api' # "down", tasks'[t].status = "queued"
  PROVE  OnItsWay(t)'
<1>1. UNCHANGED <<stream, workers, execs>>
  BY DEF QueueApi, ApiCrash, ApiBoot, ApiListen, EnqueueFails, QueueInterrupt, allVars, vars,
         queueVars
<1>2. /\ tasks \in [Tasks -> Record]
      /\ \A i \in DOMAIN turns : turns[i] \in Tasks
  BY DEF QueueInv, IInv, TypeOK
<1>3. t \in dispatches' => OnItsWay(t)'
  BY DEF OnItsWay
<1>4. OnItsWay(t) /\ (t \in dispatches => t \in dispatches') => OnItsWay(t)'
  BY <1>1 DEF OnItsWay, Awaits, HandsBack
<1>5. CASE QueueApi
  <2>1. dispatches \subseteq dispatches' /\ api # "down"
    BY <1>5 DEF QueueApi
  <2>2. tasks[t].status = "queued" \/ t \in dispatches'
    <3>1. ASSUME NEW u \in Tasks, StartTurn(u) \/ Regenerate(u) \/ \E o \in Tasks : Retry(o, u)
          PROVE  t = u \/ tasks'[t] = tasks[t]
      BY <1>2, <3>1 DEF StartTurn, Regenerate, Retry
    <3>2. ASSUME NEW i \in DOMAIN turns, Answer(i)
          PROVE  t = turns[i] \/ tasks'[t] = tasks[t]
      BY <1>2, <3>2 DEF Answer
    <3>3. ASSUME NEW i \in DOMAIN turns, Steer(i)
          PROVE  tasks'[t].status = tasks[t].status
      <4>1. \A u \in Tasks : Steered(tasks[u]).status = tasks[u].status
        BY <1>2 DEF Steered, Record
      <4> QED
        BY <1>2, <3>3, <4>1 DEF Steer
    <3> QED
      BY <1>5, <3>1, <3>2, <3>3 DEF QueueApi
  <2> QED
    BY <1>3, <1>4, <2>1, <2>2
<1>6. ASSUME NEW u \in Tasks, EnqueueFails(u)
      PROVE  OnItsWay(t)'
  <2>1. api # "down" /\ dispatches' = dispatches \ {u}
    BY <1>6 DEF EnqueueFails
  <2>2. t # u /\ tasks'[t] = tasks[t]
    <3>1. DispatchFailed(tasks[u]).status = "failed"
      BY <1>2 DEF DispatchFailed, Record
    <3>2. CASE tasks[u].status \in Runnable
      BY <1>2, <1>6, <3>1, <3>2 DEF EnqueueFails, DispatchFails
    <3>3. CASE tasks[u].status \notin Runnable
      BY <1>6, <3>3 DEF EnqueueFails, vars, Runnable
    <3> QED
      BY <3>2, <3>3
  <2> QED
    BY <1>4, <2>1, <2>2
<1>7. ASSUME NEW u \in Tasks, QueueInterrupt(u)
      PROVE  OnItsWay(t)'
  <2>1. Interrupted(tasks[u]).status = "cancelled"
    BY <1>2 DEF Interrupted, Record
  <2>2. /\ api # "down" /\ UNCHANGED dispatches
        /\ tasks' = [tasks EXCEPT ![u] = Interrupted(tasks[u])]
    BY <1>7 DEF QueueInterrupt, Interrupt
  <2>3. tasks[t].status = "queued"
    BY <1>2, <2>1, <2>2
  <2> QED
    BY <1>4, <2>2, <2>3
<1>8. CASE ApiBoot
  BY <1>3, <1>8 DEF ApiBoot, vars
<1>9. CASE ApiCrash \/ ApiListen \/ UNCHANGED allVars
  BY <1>4, <1>9 DEF ApiCrash, ApiListen, allVars, vars, queueVars
<1> QED
  BY <1>5, <1>6, <1>7, <1>8, <1>9

\* A new entry leads to its task, and takes the way of no other.
LEMMA AddingKeepsWay ==
  ASSUME QueueInv, TasksGoOn, NEW t \in Tasks, NEW u \in Tasks, AddEntry(u),
         UNCHANGED execs,
         t # u => OnItsWay(t), t # u /\ t \in dispatches => t \in dispatches',
         \/ UNCHANGED workers
         \/ \E w \in Workers : HandsBack(w, u) /\ workers' = [workers EXCEPT ![w].stage = "acking"]
  PROVE  OnItsWay(t)'
<1>1. Held
  BY DEF QueueInv
<1>2. PICK n \in Entries :
        /\ stream[n].state = "free"
        /\ stream'[n].state = "undelivered" /\ stream'[n].task = u
        /\ \A m \in Entries \ {n} : stream'[m] = stream[m]
  BY <1>1, AddsOne
<1>3. \A v \in Workers :
        /\ workers'[v].entry = workers[v].entry /\ workers'[v].exec = workers[v].exec
        /\ \/ workers'[v].stage = workers[v].stage
           \/ HandsBack(v, u) /\ workers'[v].stage = "acking"
  BY <1>1, WorkerGoesOn
<1>4. CASE t = u
  <2>1. \A v \in Workers : workers'[v].stage # "idle" => workers'[v].entry # n
    BY <1>1, <1>2, <1>3 DEF Held, WorkersHoldEntries, HoldsEntries, HandsBack
  <2>2. Awaits(n)'
    BY <1>2, <2>1 DEF Awaits
  <2> QED
    BY <1>2, <1>4, <2>2 DEF OnItsWay
<1>5. CASE t # u
  <2>1. \A v \in Workers : HandsBack(v, t) => OnItsWay(t)'
    BY <1>1, <1>3, <1>5, HandsBackKept DEF HandsBack
  <2>2. t \in dispatches => OnItsWay(t)'
    BY <1>5 DEF OnItsWay
  <2>3. \A m \in Entries : stream[m].task = t /\ Awaits(m) => stream'[m].state \in Pending
    BY <1>2 DEF Awaits, Pending
  <2>4. \A v \in Workers, m \in Entries :
            /\ stream[m].task = t /\ Awaits(m)
            /\ workers'[v].stage # "idle" /\ workers'[v].entry = m
            => workers'[v].stage = "executing" /\ execs'[workers'[v].exec].pc = "starting"
    BY <1>3, <1>5 DEF Awaits, HandsBack
  <2> QED
    BY <1>5, <2>1, <2>2, <2>3, <2>4, WayKept
<1> QED
  BY <1>4, <1>5

\* Leases that start over or run out, claims, and the news that reaches a worker.
LEMMA LeasesKeepWay ==
  ASSUME QueueInv, PostsInOrder, TasksGoOn, NEW t \in Tasks, OnItsWay(t),
         \/ \E w \in Workers : \/ ClaimStale(w) \/ Heartbeat(w)
                               \/ WorkerStops(w) \/ WorkerExits(w) \/ WorkerBoots(w)
         \/ \E n \in Entries : LeaseExpires(n)
         \/ \E c \in cancels : CancelArrives(c)
  PROVE  OnItsWay(t)'
<1>1. /\ IInv /\ Held /\ UNCHANGED dispatches
      /\ workers \in [Workers -> Worker]
  BY DEF QueueInv, Held, QueueTypes, ClaimStale, Heartbeat, WorkerStops, WorkerExits, WorkerBoots,
         LeaseExpires, CancelArrives
<1>2. \A n \in Entries : stream[n].state \in Pending => stream'[n].state \in Pending
  <2>1. \/ UNCHANGED stream
        \/ \E S : stream' = MovedTo(S, "leased") \/ stream' = MovedTo(S, "expired")
    BY DEF ClaimStale, Heartbeat, WorkerStops, WorkerExits, WorkerBoots, LeaseExpires,
           CancelArrives
  <2> QED
    BY <1>1, <2>1, Moves DEF Pending
<1>3. StartsGoOn
  <2>1. UNCHANGED execs \/ \E E : Abort(E)
    BY DEF ClaimStale, Heartbeat, WorkerStops, WorkerExits, WorkerBoots, LeaseExpires,
           CancelArrives, vars
  <2> QED
    BY <1>1, <2>1, RuntimeExecsGoOn DEF StartsGoOn
<1> DEFINE Stays(v) ==
        \/ workers[v].stage = "idle" /\ workers'[v].stage = "idle"
        \/ /\ workers'[v].stage = workers[v].stage
           /\ workers'[v].entry = workers[v].entry /\ workers'[v].exec = workers[v].exec
<1>4. \A v \in Workers : Stays(v)
  <2>1. CASE UNCHANGED workers
    BY <2>1
  <2>2. ASSUME NEW w \in Workers, WorkerExits(w) \/ WorkerBoots(w)
        PROVE  \A v \in Workers : Stays(v)
    <3>1. PICK x \in {IdleWorker, DownWorker} :
              workers' = [workers EXCEPT ![w] = x] /\ workers[w].stage = "idle"
      BY <2>2 DEF WorkerExits, WorkerBoots, PostsInOrder
    <3> QED
      BY <1>1, <3>1, WorkerBecomes, RestingWorkers
  <2>3. ASSUME NEW w \in Workers, ClaimStale(w) \/ WorkerStops(w)
        PROVE  \A v \in Workers : Stays(v)
    BY <1>1, <2>3 DEF ClaimStale, WorkerStops, Worker
  <2> QED
    BY <2>1, <2>2, <2>3 DEF Heartbeat, LeaseExpires, CancelArrives
<1>5. \A v \in Workers : HandsBack(v, t) => OnItsWay(t)'
  BY <1>1, <1>4, HandsBackKept DEF HandsBack
<1>6. \A n \in Entries : stream[n].task = t /\ Awaits(n) => stream'[n].state \in Pending
  BY <1>2 DEF Awaits, Pending
<1>7. \A v \in Workers, n \in Entries :
        /\ stream[n].task = t /\ Awaits(n)
        /\ workers'[v].stage # "idle" /\ workers'[v].entry = n
        => workers'[v].stage = "executing" /\ execs'[workers'[v].exec].pc = "starting"
  BY <1>1, <1>3, <1>4 DEF Awaits, StartsGoOn, Held, WorkersHoldEntries, HoldsEntries
<1> QED
  BY <1>1, <1>5, <1>6, <1>7, WayKept DEF OnItsWay

\* A worker that takes up an entry has not yet looked at its task.
LEMMA TakingUpKeepsWay ==
  ASSUME QueueInv, TasksGoOn, NEW t \in Tasks, OnItsWay(t),
         NEW w \in Workers, Read(w) \/ BeginClaimed(w)
  PROVE  OnItsWay(t)'
<1>1. IInv /\ Held
  BY DEF QueueInv
<1>2. PICK n \in Entries, e \in Executions :
        /\ workers[w].stage = "idle"
        /\ execs[e].pc = "unused" /\ execs'[e].pc = "starting"
        /\ \A f \in Executions \ {e} : execs'[f] = execs[f]
        /\ workers'[w].stage = "executing" /\ workers'[w].entry = n /\ workers'[w].exec = e
        /\ \A v \in Workers \ {w} : workers'[v] = workers[v]
        /\ \A m \in Entries \ {n} : stream'[m] = stream[m]
        /\ \/ stream'[n].state = "leased"
           \/ stream'[n] = stream[n]
        /\ UNCHANGED dispatches
  BY <1>1, TakesUp
<1>3. \A v \in Workers : HandsBack(v, t) => OnItsWay(t)'
  BY <1>1, <1>2, HandsBackKept DEF HandsBack
<1>4. \A m \in Entries : stream[m].task = t /\ Awaits(m) => stream'[m].state \in Pending
  BY <1>2 DEF Awaits, Pending
<1>5. \A v \in Workers, m \in Entries :
        /\ stream[m].task = t /\ Awaits(m)
        /\ workers'[v].stage # "idle" /\ workers'[v].entry = m
        => workers'[v].stage = "executing" /\ execs'[workers'[v].exec].pc = "starting"
  BY <1>1, <1>2 DEF Awaits, Held, WorkersHoldEntries, HoldsEntries
<1> QED
  BY <1>2, <1>3, <1>4, <1>5, WayKept DEF OnItsWay

\* An execution requeues its task and leaves it to its worker, or leaves queued
\* what it has not looked at.
LEMMA WorkingKeepsWay ==
  ASSUME QueueInv, StopsAreTaken, PostsInOrder, TasksGoOn, NEW t \in Tasks,
         tasks[t].status = "queued" => OnItsWay(t),
         NEW w \in Workers, WorkerExecutes(w), tasks'[t].status = "queued"
  PROVE  OnItsWay(t)'
<1>1. IInv /\ Held
  BY DEF QueueInv
<1>2. PICK e \in Executions : e = workers[w].exec
  BY <1>1, Works
<1>3. /\ workers[w].stage = "executing" /\ ExecutionStep(e)
      /\ workers'[w].stage \in {"executing", "handing", "acking"}
      /\ execs'[e].pc = "done" /\ execs'[e].outcome \in {"requeued_steer", "requeued_worker"}
            => workers'[w].stage = "handing"
      /\ workers'[w].entry = workers[w].entry /\ workers'[w].exec = workers[w].exec
      /\ \A v \in Workers \ {w} : workers'[v] = workers[v]
      /\ UNCHANGED <<stream, dispatches>>
  BY <1>1, <1>2, Works
<1>4. execs[e].task = stream[workers[w].entry].task
  BY <1>2, <1>3 DEF PostsInOrder
<1>5. CASE execs[e].task = t /\ workers'[w].stage = "handing"
  BY <1>3, <1>4, <1>5 DEF OnItsWay, HandsBack
<1>6. CASE tasks[t].status = "queued" /\ ~ (execs[e].pc = "starting" /\ execs[e].task = t)
  <2>1. OnItsWay(t)
    BY <1>6
  <2>2. \A v \in Workers : HandsBack(v, t) => OnItsWay(t)'
    BY <1>1, <1>3, HandsBackKept DEF HandsBack
  <2>3. \A n \in Entries : stream[n].task = t /\ Awaits(n) =>
          /\ stream'[n].state \in Pending
          /\ n # workers[w].entry
    BY <1>2, <1>3, <1>4, <1>6 DEF Awaits, Pending
  <2>4. \A v \in Workers \ {w} : workers[v].stage # "idle" =>
            execs'[workers[v].exec] = execs[workers[v].exec]
    BY <1>1, <1>2, <1>3, ExecutionQueues
       DEF PostsInOrder, Held, WorkersHoldEntries, HoldsEntries
  <2>5. \A v \in Workers, n \in Entries :
          /\ stream[n].task = t /\ Awaits(n)
          /\ workers'[v].stage # "idle" /\ workers'[v].entry = n
          => workers'[v].stage = "executing" /\ execs'[workers'[v].exec].pc = "starting"
    BY <1>3, <2>3, <2>4 DEF Awaits
  <2> QED
    BY <1>3, <2>1, <2>2, <2>3, <2>5, WayKept DEF OnItsWay
<1> QED
  BY <1>1, <1>3, <1>5, <1>6, ExecutionQueues

\* The entry a worker gives up was no way any more.
LEMMA AckKeepsWay ==
  ASSUME QueueInv, TasksGoOn, NEW t \in Tasks, OnItsWay(t), NEW w \in Workers, Ack(w)
  PROVE  OnItsWay(t)'
<1>1. IInv /\ Held
  BY DEF QueueInv
<1>2. /\ workers[w].stage = "acking"
      /\ stream' = MovedTo({workers[w].entry}, "gone")
      /\ workers' = [workers EXCEPT ![w] = Rested(w)]
      /\ UNCHANGED <<execs, dispatches>>
  BY DEF Ack, vars
<1>3. workers'[w].stage = "idle" /\ \A v \in Workers \ {w} : workers'[v] = workers[v]
  BY <1>1, <1>2, WorkerBecomes, RestedWorker
<1>4. \A n \in Entries : n # workers[w].entry => stream'[n].state = stream[n].state
  BY <1>1, <1>2, Moves
<1>5. \A v \in Workers : HandsBack(v, t) => OnItsWay(t)'
  BY <1>1, <1>2, <1>3, HandsBackKept DEF HandsBack
<1>6. \A n \in Entries : stream[n].task = t /\ Awaits(n) => stream'[n].state \in Pending
  BY <1>2, <1>4 DEF Awaits, Pending
<1>7. \A v \in Workers, n \in Entries :
        /\ stream[n].task = t /\ Awaits(n)
        /\ workers'[v].stage # "idle" /\ workers'[v].entry = n
        => workers'[v].stage = "executing" /\ execs'[workers'[v].exec].pc = "starting"
  BY <1>2, <1>3 DEF Awaits
<1> QED
  BY <1>2, <1>5, <1>6, <1>7, WayKept DEF OnItsWay

\* A worker that is killed leaves an entry that nobody else has.
LEMMA KillKeepsWay ==
  ASSUME QueueInv, PostsInOrder, LeasesInOrder, TasksGoOn, NEW t \in Tasks, OnItsWay(t),
         NEW w \in Workers, WorkerKilled(w)
  PROVE  OnItsWay(t)'
<1>1. IInv /\ Held
  BY DEF QueueInv
<1>2. /\ workers' = [workers EXCEPT ![w] = DownWorker]
      /\ Lose({workers[w].exec}) /\ UNCHANGED <<stream, dispatches>>
  BY DEF WorkerKilled
<1>3. workers'[w].stage = "idle" /\ \A v \in Workers \ {w} : workers'[v] = workers[v]
  BY <1>1, <1>2, WorkerBecomes, RestingWorkers
<1>4. \A v \in Workers \ {w} : workers[v].stage # "idle" =>
          execs'[workers[v].exec] = execs[workers[v].exec]
  BY <1>1, <1>2, RuntimeExecsGoOn, TaskRecordAssumption
     DEF PostsInOrder, Held, WorkersHoldEntries, HoldsEntries
<1>5. \A v \in Workers : HandsBack(v, t) => OnItsWay(t)'
  <2>1. ASSUME HandsBack(w, t)
        PROVE  OnItsWay(t)'
    <3>1. PICK n \in Entries : n = workers[w].entry /\ stream[n].task = t
      BY <1>1, <2>1 DEF Held, WorkersHoldEntries, HoldsEntries, HandsBack
    <3>2. Tends(w, n)
      BY <2>1, <3>1 DEF Tends, HandsBack
    <3>3. stream[n].state = "leased" /\ \A v \in Workers \ {w} : ~ Tends(v, n)
      BY <3>2 DEF LeasesInOrder, OneTends
    <3>4. Awaits(n)'
      BY <1>2, <1>3, <3>3 DEF Awaits, Tends
    <3> QED
      BY <1>2, <3>1, <3>4 DEF OnItsWay
  <2> QED
    BY <1>1, <1>3, <2>1, HandsBackKept DEF HandsBack
<1>6. \A n \in Entries : stream[n].task = t /\ Awaits(n) => stream'[n].state \in Pending
  BY <1>2 DEF Awaits, Pending
<1>7. \A v \in Workers, n \in Entries :
        /\ stream[n].task = t /\ Awaits(n)
        /\ workers'[v].stage # "idle" /\ workers'[v].entry = n
        => workers'[v].stage = "executing" /\ execs'[workers'[v].exec].pc = "starting"
  BY <1>3, <1>4 DEF Awaits
<1> QED
  BY <1>2, <1>5, <1>6, <1>7, WayKept DEF OnItsWay

\* Faults are only ever added.
LEMMA FaultsNext ==
  ASSUME FaultsAreCounted, [QueueNext]_allVars
  PROVE  FaultsAreCounted' /\ (FewFaults' => FewFaults)
<1> USE DEF FaultsAreCounted
<1>1. CASE UNCHANGED faults
  BY <1>1 DEF FewFaults
<1>2. CASE ApiCrash
  <2>1. faults' = [faults EXCEPT !.api = @ + 1]
    BY <1>2 DEF ApiCrash
  <2> QED
    BY <2>1 DEF FewFaults
<1>3. ASSUME NEW w \in Workers, WorkerKilled(w) \/ WorkerStops(w)
      PROVE  FaultsAreCounted' /\ (FewFaults' => FewFaults)
  <2>1. faults' = [faults EXCEPT !.kill = @ + 1] \/ faults' = [faults EXCEPT !.stop = @ + 1]
    BY <1>3 DEF WorkerKilled, WorkerStops
  <2> QED
    BY <2>1 DEF FewFaults
<1> QED
  BY <1>1, <1>2, <1>3
     DEF QueueNext, QueueApi, Enqueue, EnqueueFails, QueueInterrupt, ApiBoot, ApiListen, Read,
         ClaimStale, BeginClaimed, WorkerExecutes, HandBack, Ack, Heartbeat, WorkerExits,
         WorkerBoots, LeaseExpires, CancelArrives, allVars, queueVars

LEMMA WayNext ==
  ASSUME WayInv, [QueueNext]_allVars
  PROVE  (api # "down" /\ FewFaults)' => AllOnTheirWay'
<1>1. /\ QueueInv /\ IInv /\ Held /\ StopsAreTaken /\ PostsInOrder /\ TasksGoOn
      /\ tasks \in [Tasks -> Record] /\ faults \in [kill : Nat, stop : Nat, api : Nat]
  BY GoesOn DEF WayInv, QueueInv, IInv, TypeOK, FaultsAreCounted
<1> SUFFICES ASSUME (api # "down" /\ FewFaults)', NEW t \in Tasks, tasks'[t].status = "queued"
             PROVE  OnItsWay(t)'
  BY DEF AllOnTheirWay
<1>2. FewFaults
  BY <1>1, FaultsNext DEF FaultsAreCounted
<1>3. api # "down" /\ tasks[t].status = "queued" => OnItsWay(t)
  BY <1>2 DEF WayInv, AllOnTheirWay
<1>4. CASE \/ QueueApi \/ ApiCrash \/ ApiBoot \/ ApiListen \/ UNCHANGED allVars
           \/ \E u \in Tasks : EnqueueFails(u) \/ QueueInterrupt(u)
  BY <1>1, <1>3, <1>4, ApiKeepsWay
<1>5. ASSUME NEW u \in Tasks, Enqueue(u)
      PROVE  OnItsWay(t)'
  <2>1. /\ api # "down" /\ AddEntry(u) /\ dispatches' = dispatches \ {u}
        /\ UNCHANGED <<tasks, execs, workers>>
    BY <1>5 DEF Enqueue, vars
  <2> QED
    BY <1>1, <1>3, <2>1, AddingKeepsWay
<1>6. ASSUME NEW w \in Workers, HandBack(w)
      PROVE  OnItsWay(t)'
  <2>1. PICK u \in Tasks : u = stream[workers[w].entry].task
    BY <1>1, <1>6 DEF HandBack, Held, EntriesHaveTasks, WorkersHoldEntries, HoldsEntries
  <2>2. /\ HandsBack(w, u) /\ AddEntry(u)
        /\ workers' = [workers EXCEPT ![w].stage = "acking"]
        /\ UNCHANGED <<tasks, execs, api, dispatches>>
    BY <1>6, <2>1 DEF HandBack, HandsBack, vars
  <2> QED
    BY <1>1, <1>3, <2>2, AddingKeepsWay
<1>7. ASSUME \/ \E w \in Workers : \/ ClaimStale(w) \/ Heartbeat(w)
                                   \/ WorkerStops(w) \/ WorkerExits(w) \/ WorkerBoots(w)
             \/ \E n \in Entries : LeaseExpires(n)
             \/ \E c \in cancels : CancelArrives(c)
      PROVE  OnItsWay(t)'
  <2>1. UNCHANGED <<tasks, api>>
    BY <1>7 DEF ClaimStale, Heartbeat, WorkerStops, WorkerExits, WorkerBoots, LeaseExpires,
                CancelArrives, vars, storeVars
  <2> QED
    BY <1>1, <1>3, <1>7, <2>1, LeasesKeepWay
<1>8. ASSUME NEW w \in Workers, Read(w) \/ BeginClaimed(w)
      PROVE  OnItsWay(t)'
  <2>1. UNCHANGED <<tasks, api>>
    BY <1>8 DEF Read, BeginClaimed, storeVars
  <2> QED
    BY <1>1, <1>3, <1>8, <2>1, TakingUpKeepsWay
<1>9. ASSUME NEW w \in Workers, WorkerExecutes(w)
      PROVE  OnItsWay(t)'
  <2>1. UNCHANGED api
    BY <1>9 DEF WorkerExecutes
  <2> QED
    BY <1>1, <1>3, <1>9, <2>1, WorkingKeepsWay
<1>10. ASSUME NEW w \in Workers, Ack(w)
       PROVE  OnItsWay(t)'
  <2>1. UNCHANGED <<tasks, api>>
    BY <1>10 DEF Ack, vars
  <2> QED
    BY <1>1, <1>3, <1>10, <2>1, AckKeepsWay
<1>11. ASSUME NEW w \in Workers, WorkerKilled(w)
       PROVE  OnItsWay(t)'
  <2>1. /\ UNCHANGED <<tasks, api>>
        /\ faults'.kill = faults.kill + 1 /\ faults'.stop = faults.stop
    BY <1>1, <1>11 DEF WorkerKilled, storeVars
  <2>2. LeasesInOrder
    BY <1>1, <2>1 DEF WayInv, FewFaults
  <2> QED
    BY <1>1, <1>3, <1>11, <2>1, <2>2, KillKeepsWay
<1> QED
  BY <1>4, <1>5, <1>6, <1>7, <1>8, <1>9, <1>10, <1>11 DEF QueueNext

LEMMA WayInit == QueueInit => WayInv
<1> SUFFICES ASSUME QueueInit PROVE WayInv
  OBVIOUS
<1>1. /\ QueueInv
      /\ \A t \in Tasks : tasks[t].status = "absent"
      /\ \A w \in Workers : workers[w] = IdleWorker
      /\ \A n \in Entries : stream[n].state = "free"
  BY QueueInitInv DEF QueueInit, Init, Absent, Fresh
<1>2. FaultsAreCounted /\ StopsAreTaken /\ AllOnTheirWay
  BY <1>1 DEF QueueInit, FaultsAreCounted, StopsAreTaken, AllOnTheirWay, Unfinished, Runnable
<1>3. PostsInOrder
  BY <1>1, RestingWorkers DEF PostsInOrder
<1>4. OneTends /\ TendsOne /\ OneOrphan
  BY <1>1, RestingWorkers DEF OneTends, TendsOne, OneOrphan, Orphan, Tends
<1> QED
  BY <1>1, <1>2, <1>3, <1>4 DEF WayInv, LeasesInOrder

LEMMA WayNextInv == WayInv /\ [QueueNext]_allVars => WayInv'
<1> SUFFICES ASSUME WayInv, [QueueNext]_allVars PROVE WayInv'
  OBVIOUS
<1>1. QueueInv /\ FaultsAreCounted /\ StopsAreTaken /\ PostsInOrder
  BY DEF WayInv
<1>2. QueueInv' /\ [Next]_vars
  BY <1>1, QueueNextInv
<1>3. FaultsAreCounted'
  BY <1>1, FaultsNext
<1>4. StopsAreTaken'
  BY <1>1, <1>2, StopsAreTakenStep DEF QueueInv
<1>5. PostsInOrder'
  BY <1>1, PostsNext
<1>6. (faults.stop = 0 /\ faults.kill <= 1)' => LeasesInOrder'
  BY <1>1, LeasesNext DEF WayInv
<1>7. (api # "down" /\ FewFaults)' => AllOnTheirWay'
  BY WayNext
<1> QED
  BY <1>2, <1>3, <1>4, <1>5, <1>6, <1>7 DEF WayInv

-----------------------------------------------------------------------------
(* Theorems.                                                               *)

\* However entries are read, claimed, duplicated and dropped, and whatever worker or
\* API dies, the store goes through nothing but the steps TaskExecution allows.
THEOREM QueueRefinement == QueueSafetySpec => RefinesTaskExecution
<1>1. QueueInit => QueueInv /\ Init
  BY QueueInitInv DEF QueueInit
<1> QED
  BY <1>1, QueueNextInv, PTL DEF QueueSafetySpec, Spec, RefinesTaskExecution

\* So the API and its workers keep what a turn promises its user.
THEOREM QueueKeepsPromise == QueueSafetySpec => KeepsPromise
  BY QueueRefinement, Refinement, PTL DEF RefinesTaskExecution

FaultsAreBounded == faults \in [kill : 0..MaxKills, stop : 0..MaxStops, api : 0..MaxApiCrashes]

\* The stream, the workers and what the API owes them have the shape the code
\* assumes, for any number of faults.
THEOREM QueueTypeCorrect == QueueSafetySpec => []QueueTypeOK
<1> USE QueueRuntimeAssumption
<1>1. QueueInit => QueueInv /\ FaultsAreBounded
  BY QueueInitInv DEF QueueInit, FaultsAreBounded
<1>2. FaultsAreBounded /\ [QueueNext]_allVars => FaultsAreBounded'
  <2> SUFFICES ASSUME FaultsAreBounded, [QueueNext]_allVars PROVE FaultsAreBounded'
    OBVIOUS
  <2> USE DEF FaultsAreBounded
  <2>1. CASE UNCHANGED faults
    BY <2>1
  <2>2. CASE ApiCrash
    BY <2>2 DEF ApiCrash
  <2>3. ASSUME NEW w \in Workers, WorkerKilled(w) \/ WorkerStops(w)
        PROVE  FaultsAreBounded'
    BY <2>3 DEF WorkerKilled, WorkerStops
  <2> QED
    BY <2>1, <2>2, <2>3
       DEF QueueNext, QueueApi, Enqueue, EnqueueFails, QueueInterrupt, ApiBoot, ApiListen,
           Read, ClaimStale, BeginClaimed, WorkerExecutes, HandBack, Ack, Heartbeat,
           WorkerExits, WorkerBoots, LeaseExpires, CancelArrives, allVars, queueVars
<1>3. QueueInv /\ FaultsAreBounded => QueueTypeOK
  BY DEF QueueInv, Held, QueueTypes, IInv, QueueTypeOK, FaultsAreBounded
<1> QED
  BY <1>1, <1>2, <1>3, QueueNextInv, PTL DEF QueueSafetySpec

\* While the API serves, a queued task is dispatched, has an entry in the stream
\* that somebody will look at, or is being handed back: for as long as no worker
\* was killed, or none was told to stop and two at most were killed.
THEOREM QueuedTasksAreReachable == QueueSafetySpec => []QueuedIsReachable
<1>1. WayInv => QueuedIsReachable
  BY DEF WayInv, AllOnTheirWay, OnItsWay, Awaits, HandsBack, QueuedIsReachable, FewFaults
<1> QED
  BY <1>1, WayInit, WayNextInv, PTL DEF QueueSafetySpec
=============================================================================
