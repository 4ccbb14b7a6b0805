----------------------------- MODULE TaskStream -----------------------------
(***************************************************************************)
(* The live text of one turn, from the executions that write it to the     *)
(* items on its reader's screen.  It travels on two paths: as events,      *)
(* coalesced in the writing process (task-stream.mjs) and, with REDIS_URL, *)
(* bridged to the API; and as checkpoints of the task, which the turn's    *)
(* SSE route polls.  The route merges the two, the client folds the result *)
(* into items.                                                             *)
(*                                                                         *)
(* A delta is one token, a token is a number used once.  Reasoning, tools  *)
(* and activity travel like text and are left out.  The execution of       *)
(* generation g is run g.                                                  *)
(***************************************************************************)
EXTENDS Naturals, Sequences, SequencesExt, FiniteSets, FiniteSetsExt

CONSTANTS
    Deployments,    \* the installations looked at, with the bounds of each
    PendingCap      \* 2000 in the code

\* bridged: isTaskQueueEnabled(), the runs are in worker processes; lossy: a
\* bridged message may be lost (Redis down, reconnecting).  The rest are bounds.
Deployment ==
    [ bridged : BOOLEAN, lossy : BOOLEAN, maxRuns : Nat \ {0}, maxTokens : Nat,
      maxSegments : Nat, maxConnects : Nat, maxInFlight : Nat ]

ASSUME TaskStreamAssumption ==
    /\ Deployments \subseteq Deployment
    /\ \A d \in Deployments : d.lossy => d.bridged
    /\ PendingCap \in Nat

VARIABLES
    deployment,
    task,      \* the stored task: what checkpoints and final updates write
    runs,      \* the executions: the segments each has streamed
    buffer,    \* pendingLocal of the task, in the process of each run
    outbox,    \* pendingRedisEvents of that process
    channel,   \* messages on their way through Redis
    sse,       \* the reader's connection: the locals of the stream route
    screen,    \* the items of the turn, as the client has folded them
    heard,     \* history, where nothing is lost: what reached the API of each run
    connects

storeVars == <<task, runs>>
wireVars == <<buffer, outbox, channel, heard>>
vars == <<deployment, storeVars, wireVars, sse, screen, connects>>

Bridged == deployment.bridged
Lossy == deployment.lossy
MaxRuns == deployment.maxRuns
MaxTokens == deployment.maxTokens
MaxSegments == deployment.maxSegments
MaxConnects == deployment.maxConnects
MaxInFlight == deployment.maxInFlight

Runs == 1..MaxRuns
Tokens == 0..MaxTokens   \* 0 is a result the model did not stream
Segments == [text: Seq(Tokens), status: {"inProgress", "completed", "interrupted"}]
NoTask == [status |-> "none"]

-----------------------------------------------------------------------------
(* Texts and items.                                                        *)

Put(f, k, v) == [x \in DOMAIN f \cup {k} |-> IF x = k THEN v ELSE f[x]]

\* `${turnId}:agent:${attempt}` (ordinal 0) and `${turnId}:agent:${attempt}:${ordinal}`.
WholeItem(attempt) == <<attempt, 0>>
SegmentItem(attempt, ordinal) == <<attempt, ordinal>>

\* Has the stored task output segments of this attempt?
HasSegments(t, attempt) == \E id \in DOMAIN t.events : id[1] = attempt

\* agentTurnItems: the stored segments and, at the end, the result if they do not contain it.
StoredItems(t) ==
    IF t.status = "completed" /\ ~t.streamed
    THEN Put(t.events, WholeItem(t.attempt), [text |-> <<0>>, status |-> "completed"])
    ELSE t.events

\* applyAgentItemStreamEvent, on item/started and item/completed, and on a delta.
ShowItem(items, id, item) == Put(items, id, item)
ShowDelta(items, id, text) ==
    IF id \in DOMAIN items
    THEN [items EXCEPT ![id].text = @ \o text]
    ELSE Put(items, id, [text |-> text, status |-> "inProgress"])

\* reconcileAgentTurnItems: the stored items, each with the longer text, and
\* the ones in progress that are not stored.
Reconcile(items, stored) ==
    LET kept == {id \in DOMAIN items \ DOMAIN stored : items[id].status = "inProgress"} IN
    IF DOMAIN stored = {} THEN items
    ELSE [id \in DOMAIN stored \cup kept |->
             IF id \in kept THEN items[id]
             ELSE IF id \in DOMAIN items /\ Len(items[id].text) > Len(stored[id].text)
                  THEN [stored[id] EXCEPT !.text = items[id].text]
                  ELSE stored[id]]

-----------------------------------------------------------------------------
(* Events of a run, and the route that shows them.                         *)

Event(r, phase, ordinal, text) ==
    [run |-> r, attempt |-> runs[r].attempt, phase |-> phase, ordinal |-> ordinal, text |-> text]

Closed == [pc |-> "closed", ready |-> FALSE, attempt |-> 0, gen |-> 0, segmented |-> FALSE,
           sent |-> 0, started |-> FALSE, versions |-> <<>>, pending |-> <<>>,
           seen |-> NoTask, last |-> NoTask]

\* The version of an item that was completed by an event: unlike any stored one's.
LiveVersion == [text |-> <<>>, status |-> "live"]

Passes(s, e) == s.ready /\ e.attempt = s.attempt /\ e.run = s.gen

\* The output_event branch of emitLiveEvent; c is the connection with its screen.
ShowEvent(c, e) ==
    LET id == SegmentItem(e.attempt, e.ordinal)
        s == [c.sse EXCEPT !.segmented = TRUE] IN
    CASE e.phase = "start" ->
            [sse |-> s, screen |-> ShowItem(c.screen, id, [text |-> <<>>, status |-> "inProgress"])]
      [] e.phase = "delta" ->
            [sse |-> [s EXCEPT !.sent = @ + Len(e.text)], screen |-> ShowDelta(c.screen, id, e.text)]
      [] e.phase = "end" ->
            [sse |-> [s EXCEPT !.versions = Put(@, id, LiveVersion)],
             screen |-> ShowItem(c.screen, id, [text |-> e.text, status |-> "completed"])]

\* The listener of subscribeTaskStream, which drainLiveEvents repeats: gate is the state
\* of the route, whose part that Passes looks at no event changes.
Listen(gate, c, e) ==
    IF Passes(gate, e) THEN ShowEvent(c, e)
    ELSE [c EXCEPT !.sse.pending = Append(@, e)]

ListenAll(gate, c, events) == FoldLeft(LAMBDA d, e : Listen(gate, d, e), c, events)

Subscribed == sse.pc \in {"reading", "handling"}

\* What an event says, delta by delta.
Atoms(e) ==
    IF e.phase = "delta" THEN [i \in DOMAIN e.text |-> <<"delta", e.ordinal, e.text[i]>>]
    ELSE <<<<e.phase, e.ordinal, 0>>>>
AtomsOf(events) == FlattenSeq([i \in DOMAIN events |-> Atoms(events[i])])

\* localEvent in the process of the API, for each event that run r sent together.
Emit(r, events) ==
    LET c == ListenAll(sse, [sse |-> sse, screen |-> screen], events) IN
    /\ heard' = IF Lossy THEN heard ELSE [heard EXCEPT ![r] = @ \o AtomsOf(events)]
    /\ IF Subscribed THEN sse' = c.sse /\ screen' = c.screen ELSE UNCHANGED <<sse, screen>>

-----------------------------------------------------------------------------
(* publishTaskStreamEvent.                                                 *)

\* A delta joins the last buffered event if that is a delta of the same item.
Coalesce(list, e) ==
    IF list # <<>> /\ Last(list).phase = "delta" /\ Last(list).ordinal = e.ordinal
                   /\ Last(list).attempt = e.attempt
    THEN [list EXCEPT ![Len(list)].text = @ \o e.text]
    ELSE Append(list, e)

\* The buffer with the delta that was published, if one was.
Gather(list, delta) == IF delta = <<>> THEN list ELSE Coalesce(list, delta[1])

\* flushTaskEvents: to the local listeners, or to the next message.
Send(r, events) ==
    IF Bridged
    THEN outbox' = [outbox EXCEPT ![r] = @ \o events] /\ UNCHANGED <<heard, sse, screen>>
    ELSE Emit(r, events) /\ UNCHANGED outbox

\* Lifecycle events that do not wait for the deltas before them.
PublishAtOnce(r, boundary, delta) ==
    /\ buffer' = [buffer EXCEPT ![r] = Gather(@, delta)]
    /\ IF boundary = <<>> THEN UNCHANGED <<outbox, heard, sse, screen>> ELSE Send(r, boundary)

\* An event that is no delta goes out behind what was buffered; a delta is buffered.
Publish(r, boundary, delta) ==
    IF boundary = <<>>
    THEN /\ buffer' = [buffer EXCEPT ![r] = Gather(@, delta)]
         /\ UNCHANGED <<outbox, heard, sse, screen>>
    ELSE /\ buffer' = [buffer EXCEPT ![r] = Gather(<<>>, delta)]
         /\ Send(r, buffer[r] \o boundary)

\* scheduleFlush: 12 ms after a delta.
FlushTick(r) ==
    /\ buffer[r] # <<>>
    /\ buffer' = [buffer EXCEPT ![r] = <<>>]
    /\ Send(r, buffer[r])
    /\ UNCHANGED <<deployment, storeVars, channel, connects>>

\* flushRedisEvents: what has gathered becomes one message; a publish that fails is swallowed.
PublishMessage(r) ==
    /\ outbox[r] # <<>>
    /\ outbox' = [outbox EXCEPT ![r] = <<>>]
    /\ \/ Len(channel) < MaxInFlight /\ channel' = Append(channel, outbox[r])
       \/ Lossy /\ UNCHANGED channel
    /\ UNCHANGED <<deployment, storeVars, buffer, heard, sse, screen, connects>>

\* The subscriber of startTaskStreamBridge.
BridgeMessage ==
    /\ channel # <<>>
    /\ channel' = Tail(channel)
    /\ Emit(Head(channel)[1].run, Head(channel))
    /\ UNCHANGED <<deployment, storeVars, buffer, outbox, connects>>

-----------------------------------------------------------------------------
(* The executions.                                                         *)

Unstarted == [pc |-> "waiting", attempt |-> 0, base |-> <<>>, segs |-> <<>>, saved |-> TRUE,
              found |-> {}]

\* A run that has claimed the task, with the text it goes on from and what was stored.
Started(base) ==
    [pc |-> "streaming", attempt |-> task.attempt, base |-> base, segs |-> <<>>, saved |-> TRUE,
     found |-> DOMAIN task.events]

RunText(r) == runs[r].base \o FlattenSeq([i \in DOMAIN runs[r].segs |-> runs[r].segs[i].text])
Written == UNION {Range(FlattenSeq([i \in DOMAIN runs[r].segs |-> runs[r].segs[i].text])) : r \in Runs}
NextToken == Cardinality(Written) + 1
OpenSegment(r) == runs[r].segs # <<>> /\ Last(runs[r].segs).status = "inProgress"

\* executeWritingTask claims a queued task.
Claim ==
    /\ task.status = "queued" /\ task.gen \in Runs
    /\ task' = [task EXCEPT !.status = "running"]
    /\ runs' = [runs EXCEPT ![task.gen] = Started(<<>>)]
    /\ UNCHANGED <<deployment, wireVars, sse, screen, connects>>

\* finishRunningEvent(task, 'interrupted') ends the last running event.  That is a segment
\* if the run taken over has stored one in progress, unless it found one of that id: then
\* the segment stands in the old one's place, before the events the run began with.
Interrupt(events, found) ==
    [id \in DOMAIN events |->
        IF id \notin found /\ events[id].status = "inProgress"
        THEN [events[id] EXCEPT !.status = "interrupted"] ELSE events[id]]

\* Another worker takes a running task over, from its checkpoint.
TakeOver ==
    LET g == task.gen + 1 IN
    /\ Bridged
    /\ task.status = "running" /\ g \in Runs
    /\ task' = [task EXCEPT !.gen = g, !.events = Interrupt(@, runs[task.gen].found)]
    /\ runs' = [runs EXCEPT ![g] = Started(task.partial)]
    /\ UNCHANGED <<deployment, wireVars, sse, screen, connects>>

\* flushOutputSegment: the first delta of a message opens its segment.
Write(r) ==
    LET text == <<NextToken>>
        n == Len(runs[r].segs) IN
    /\ runs[r].pc = "streaming"
    /\ NextToken <= MaxTokens
    /\ IF OpenSegment(r)
       THEN /\ runs' = [runs EXCEPT ![r].segs[n].text = @ \o text, ![r].saved = FALSE]
            /\ Publish(r, <<>>, <<Event(r, "delta", n, text)>>)
       ELSE /\ n < MaxSegments
            /\ runs' = [runs EXCEPT ![r].segs = Append(@, [text |-> text, status |-> "inProgress"]),
                                    ![r].saved = FALSE]
            /\ Publish(r, <<Event(r, "start", n + 1, <<>>)>>, <<Event(r, "delta", n + 1, text)>>)
    /\ UNCHANGED <<deployment, task, channel, connects>>

\* completeOutputSegment: the message has ended.
EndSegment(r) ==
    LET n == Len(runs[r].segs) IN
    /\ runs[r].pc = "streaming" /\ OpenSegment(r)
    /\ runs' = [runs EXCEPT ![r].segs[n].status = "completed", ![r].saved = FALSE]
    /\ Publish(r, <<Event(r, "end", n, runs[r].segs[n].text)>>, <<>>)
    /\ UNCHANGED <<deployment, task, channel, connects>>

\* The segments of a run, under their ids, over the events already stored.
StoreSegments(r) ==
    LET ids == {SegmentItem(runs[r].attempt, i) : i \in DOMAIN runs[r].segs} IN
    [id \in DOMAIN task.events \cup ids |->
        IF id \in ids THEN runs[r].segs[id[2]] ELSE task.events[id]]

\* flushCheckpoint: the text and the segments, if the run still owns the task.
Checkpoint(r) ==
    /\ runs[r].pc = "streaming" /\ ~runs[r].saved
    /\ runs' = [runs EXCEPT ![r].saved = TRUE]
    /\ IF task.status = "running" /\ task.gen = r
       THEN task' = [task EXCEPT !.partial = RunText(r), !.events = StoreSegments(r)]
       ELSE UNCHANGED task
    /\ UNCHANGED <<deployment, wireVars, sse, screen, connects>>

\* Requeuing for the next attempt under the same generation.
FinishKeepingGeneration(r) ==
    /\ runs[r].pc = "streaming" /\ ~OpenSegment(r) /\ runs[r].saved
    /\ runs' = [runs EXCEPT ![r].pc = "over"]
    /\ IF task.status = "running" /\ task.gen = r
       THEN task' = [task EXCEPT !.status = "queued", !.attempt = @ + 1, !.partial = <<>>]
       ELSE UNCHANGED task
    /\ UNCHANGED <<deployment, wireVars, sse, screen, connects>>

\* The final update: a result (streamed or not), the next attempt if the task
\* was steered, nothing if the run was superseded.
Finish(r) ==
    /\ runs[r].pc = "streaming" /\ ~OpenSegment(r) /\ runs[r].saved
    /\ runs' = [runs EXCEPT ![r].pc = "over"]
    /\ IF task.status = "running" /\ task.gen = r
       THEN \/ \E streamed \in {FALSE, runs[r].segs # <<>>} :
                  task' = [task EXCEPT !.status = "completed", !.streamed = streamed]
            \/ task.gen < MaxRuns /\
               task' = [task EXCEPT !.status = "queued", !.gen = @ + 1, !.attempt = @ + 1, !.partial = <<>>]
       ELSE UNCHANGED task
    /\ UNCHANGED <<deployment, wireVars, sse, screen, connects>>

\* A worker dies; what it had not published dies with it.
WorkerDies(r) ==
    /\ Bridged
    /\ runs[r].pc = "streaming"
    /\ r < MaxRuns   \* some worker finishes the task
    /\ runs' = [runs EXCEPT ![r].pc = "over"]
    /\ buffer' = [buffer EXCEPT ![r] = <<>>]
    /\ outbox' = [outbox EXCEPT ![r] = <<>>]
    /\ UNCHANGED <<deployment, task, channel, heard, sse, screen, connects>>

-----------------------------------------------------------------------------
(* GET /api/ai/threads/:threadId/turns/:turnId/stream                      *)

\* The route reads the task, subscribes, and starts to poll.  The client
\* connects again when a connection ends early, with the items it has.
Connect ==
    /\ sse.pc # "done"
    /\ connects < MaxConnects
    /\ connects' = connects + 1
    /\ sse' = [Closed EXCEPT !.pc = "reading", !.gen = task.gen,
                             !.segmented = HasSegments(task, task.attempt)]
    /\ UNCHANGED <<deployment, storeVars, wireVars, screen>>

\* await loadDb(): events arrive until the poll goes on with what it has read.
PollRead ==
    /\ sse.pc = "reading"
    /\ sse' = [sse EXCEPT !.pc = "handling", !.seen = task]
    /\ UNCHANGED <<deployment, storeVars, wireVars, screen, connects>>

\* The first poll: turn/started, and the gate opens.
StartTurn(c) ==
    LET t == c.sse.seen IN
    IF c.sse.ready THEN c
    ELSE [sse |-> [c.sse EXCEPT !.ready = TRUE, !.attempt = t.attempt],
          screen |-> Reconcile(c.screen, StoredItems(t))]

\* A poll that finds another attempt: turn/steered.
ChangeAttempt(c) ==
    LET t == c.sse.seen
        whole == WholeItem(c.sse.attempt) IN
    IF t.attempt = c.sse.attempt THEN c
    ELSE [sse |-> [c.sse EXCEPT !.attempt = t.attempt, !.sent = 0, !.started = FALSE,
                                !.segmented = HasSegments(t, t.attempt)],
          screen |-> IF c.sse.started
                     THEN ShowItem(c.screen, whole, [text |-> <<>>, status |-> "completed"])
                     ELSE c.screen]

\* The text beyond what was sent, as one item, unless it comes in segments.
SendWholeText(c) ==
    LET t == c.sse.seen
        whole == WholeItem(c.sse.attempt)
        rest == SubSeq(t.partial, c.sse.sent + 1, Len(t.partial))
        begun == IF c.sse.started THEN c.screen
                 ELSE ShowItem(c.screen, whole, [text |-> <<>>, status |-> "inProgress"]) IN
    IF c.sse.segmented \/ rest = <<>> THEN c
    ELSE [sse |-> [c.sse EXCEPT !.sent = Len(t.partial), !.started = TRUE],
          screen |-> ShowDelta(begun, whole, rest)]

\* drainLiveEvents: what passes the gate by now is shown, the rest is kept up to the cap.
Drain(c) ==
    LET drained == ListenAll(c.sse, [c EXCEPT !.sse.pending = <<>>], c.sse.pending)
        left == drained.sse.pending
        excess == IF Len(left) > PendingCap THEN Len(left) - PendingCap ELSE 0 IN
    [drained EXCEPT !.sse.pending = SubSeq(left, excess + 1, Len(left))]

\* item/started or item/completed for every stored item not sent in this version.
SendItems(c) ==
    LET stored == StoredItems(c.sse.seen)
        sent == c.sse.versions
        news == {id \in DOMAIN stored : id \notin DOMAIN sent \/ sent[id] # stored[id]} IN
    [sse |-> [c.sse EXCEPT !.versions = [id \in DOMAIN sent \cup news |->
                                            IF id \in news THEN stored[id] ELSE sent[id]]],
     screen |-> [id \in DOMAIN c.screen \cup news |->
                    IF id \in news THEN stored[id] ELSE c.screen[id]]]

\* turn/updated from the record of the round before.
UpdateTurnFromLastRound(c) ==
    [sse |-> [c.sse EXCEPT !.last = c.sse.seen],
     screen |-> IF c.sse.last.status = "none" THEN c.screen
                ELSE Reconcile(c.screen, StoredItems(c.sse.last))]

\* turn/updated, if the task was touched since the last one.
UpdateTurn(c) ==
    [sse |-> [c.sse EXCEPT !.last = c.sse.seen],
     screen |-> Reconcile(c.screen, StoredItems(c.sse.seen))]

\* Ending only when nothing is left that was not shown.
EndedAndDrained(s) == s.seen.status = "completed" /\ s.pending = <<>>

\* turn/completed
Ended(s) == s.seen.status = "completed"

\* One round of the route's loop, from the read to the next one.
PollHandle ==
    LET c0 == [sse |-> [sse EXCEPT !.gen = sse.seen.gen], screen |-> screen]
        ended == Ended(sse) IN
    /\ sse.pc = "handling"
    /\ \E c1 \in {StartTurn(c0)} : \E c2 \in {ChangeAttempt(c1)} : \E c3 \in {SendWholeText(c2)} :
       \E c4 \in {Drain(c3)} : \E c5 \in {SendItems(c4)} :
       \E c \in {UpdateTurn(c5)} \cup (IF ended \/ sse.last # sse.seen THEN {} ELSE {c5}) :
        /\ sse' = [c.sse EXCEPT !.pc = IF ended THEN "done" ELSE "reading", !.seen = NoTask]
        /\ screen' = c.screen
    /\ UNCHANGED <<deployment, storeVars, wireVars, connects>>

-----------------------------------------------------------------------------
Init ==
    /\ deployment \in Deployments
    /\ task = [status |-> "queued", gen |-> 1, attempt |-> 1, partial |-> <<>>,
               events |-> <<>>, streamed |-> FALSE]
    /\ runs = [r \in Runs |-> Unstarted]
    /\ buffer = [r \in Runs |-> <<>>]
    /\ outbox = [r \in Runs |-> <<>>]
    /\ channel = <<>>
    /\ sse = Closed
    /\ screen = <<>>
    /\ heard = [r \in Runs |-> <<>>]
    /\ connects = 0

RunStep(r) ==
    \/ Write(r) \/ EndSegment(r) \/ Checkpoint(r) \/ Finish(r)

WireStep(r) == FlushTick(r) \/ PublishMessage(r)

Next ==
    \/ Claim \/ TakeOver
    \/ \E r \in Runs : RunStep(r) \/ WorkerDies(r) \/ WireStep(r)
    \/ BridgeMessage
    \/ Connect \/ PollRead \/ PollHandle

SafetySpec == Init /\ [][Next]_vars

MostRuns == Max({d.maxRuns : d \in Deployments})

\* A live run ends, timers fire, messages arrive or are lost, and a connected
\* reader is polled for; nothing obliges a reader to connect, or a worker to die.
Fairness ==
    /\ WF_vars(Claim)
    /\ WF_vars(TakeOver /\ runs[task.gen].pc = "over")
    /\ WF_vars(PollRead) /\ WF_vars(PollHandle)
    /\ \A r \in 1..MostRuns :
        /\ WF_vars(r \in Runs /\ EndSegment(r))
        /\ WF_vars(r \in Runs /\ Checkpoint(r))
        /\ WF_vars(r \in Runs /\ Finish(r))
        /\ WF_vars(r \in Runs /\ WireStep(r))
    /\ WF_vars(BridgeMessage)

Spec == SafetySpec /\ Fairness

-----------------------------------------------------------------------------
(* Properties.                                                             *)

Events == [run: Runs, attempt: Runs, phase: {"start", "delta", "end"},
           ordinal: 1..MaxSegments, text: Seq(Tokens)]
Ids == Runs \X (0..MaxSegments)

\* Every variable holds what the code keeps in it.
TypeOK ==
    /\ deployment \in Deployments
    /\ task.status \in {"queued", "running", "completed"}
    /\ task.gen \in Runs /\ task.attempt \in 1..task.gen /\ task.streamed \in BOOLEAN
    /\ task.partial \in Seq(Tokens)
    /\ DOMAIN task.events \subseteq Ids /\ Range(task.events) \subseteq Segments
    /\ \A r \in Runs :
        /\ runs[r].pc \in {"waiting", "streaming", "over"} /\ runs[r].saved \in BOOLEAN
        /\ runs[r].base \in Seq(Tokens) /\ runs[r].segs \in Seq(Segments)
        /\ runs[r].found \subseteq Ids
        /\ buffer[r] \in Seq(Events) /\ outbox[r] \in Seq(Events)
    /\ channel \in Seq(Seq(Events))
    /\ sse.pc \in {"closed", "reading", "handling", "done"}
    /\ sse.pending \in Seq(Events)
    /\ DOMAIN screen \subseteq Ids /\ Range(screen) \subseteq Segments

\* All a run has published, in order.
Published(r) ==
    FlattenSeq([i \in DOMAIN runs[r].segs |->
        LET seg == runs[r].segs[i] IN
        <<<<"start", i, 0>>>> \o [k \in DOMAIN seg.text |-> <<"delta", i, seg.text[k]>>]
        \o (IF seg.status = "completed" THEN <<<<"end", i, 0>>>> ELSE <<>>)])

\* Coalescing, batching and bridging neither reorder nor repeat nor drop: what
\* the API has heard of a run is a beginning of what the run has published.
HeardInOrder == \A r \in Runs : IsPrefix(heard[r], Published(r))

\* Where nothing comes late over Redis: when the stream of a turn has ended, each
\* stored item is on the screen as it is stored, whatever of it was shown live,
\* buffered while the route was reading, or shown before a reconnection.
FinalScreenIsRecord ==
    sse.pc = "done" /\ ~Bridged =>
        \A id \in DOMAIN StoredItems(task) :
            id \in DOMAIN screen /\ screen[id] = StoredItems(task)[id]

\* No other run has taken the task over from run r.
NotTakenOver(r) == \A q \in Runs : q > r => runs[q].attempt # runs[r].attempt

\* Whatever was lost, late or repeated on the way, when the stream has ended no stored
\* item is missing, nor a word of a run that kept the task to the end of its round, nor
\* the result: the checkpoints make good for the events.
NoWordMissing ==
    sse.pc = "done" =>
        /\ DOMAIN StoredItems(task) \subseteq DOMAIN screen
        /\ ~task.streamed => 0 \in Range(screen[WholeItem(task.attempt)].text)
        /\ \A r \in Runs : NotTakenOver(r) =>
              \A i \in DOMAIN runs[r].segs :
                 Range(runs[r].segs[i].text)
                    \subseteq Range(screen[SegmentItem(runs[r].attempt, i)].text)

\* A connected reader of a turn that ends sees it end.
ReaderSeesTheEnd ==
    (task.status = "completed" /\ Subscribed) ~> sse.pc = "done"
=============================================================================
