# A TLA+ verification project for YeMuAINoval

YeMuAINoval is a novel-writing studio: a React front end, a Node/Express API (`server/index.mjs`), a store (`server/store.mjs`,
a JSON file or PostgreSQL), and a *writing agent* that answers the turns of a conversation with a model provider. What is hard
in it is not any single handler but what happens to a **writing task** between the request that creates it and the result the
user sees: it may be executed by the API process or, through a Redis stream, by any of several workers; it may be steered,
stopped, answered, retried or regenerated while a model call is under way; and processes may die, stop or be restarted at any
point of it. Around it stand the parts that carry its words and its memory: the live stream, the resumption log, the thread's history,
the quota, the store, the agent that edits the story's files, and the author's editor. This directory models both.

All paths below are relative to the repository; `executor` is `server/writing-task-executor.mjs`, `index` is `server/index.mjs`,
`worker` is `server/ai-worker.mjs`.

## 1. Inventory

| Component | State | Operations | Interacts by | Hard because |
|---|---|---|---|---|
| Executor (`executor`) | per run: id, generation, input it read, text so far, abort signal | claim, streaming writes, final update, catch block | store transactions; stream events | many runs of one task: takeover, duplicate entries, answers to running tasks |
| Turn handlers (`index` 1181–1727, 3002–3044) | `db.writingTasks`, `db.agentThreads[].turns` | start, retry, regenerate, answer, steer, interrupt | store transaction, then dispatch or abort | act on a task that a run is about to finish |
| Single-process runtime (`index` 107, 1315–1363, 3873–3963) | `writingTaskControllers` | execute, redispatch, boot recovery, shutdown | microtasks, AbortController | process death; aborted runs; boot against leftovers |
| Queue and worker (`worker`, `server/task-queue.mjs`) | stream entries, pending list, leases; active task of a worker | XADD, XREADGROUP, XAUTOCLAIM, XCLAIM heartbeat, XACK/XDEL, publish | Redis | crash between two calls, stale leases, lost messages |
| Live stream (`server/task-stream.mjs`, `index` 2382–2991, `src/editor-agent.mjs` 731–807) | pending deltas per task, batch for Redis, the route's buffer, gate and last poll, the client's items | publish, coalesce, flush, bridge, poll, merge, fold | Redis pub/sub, SSE, the stored task | the same text comes twice, as events and as checkpoints |
| Delta run log (`server/delta-run-log.mjs`) | packed runs | record, drop oldest, snapshot, resume | the checkpoint | two copies of one text, written at different moments |
| Thread history, compaction (`server/agent-thread.mjs`, `server/context-compaction.mjs`) | `turns`, `contextSummary`, `compactedTurnIds` | read for a new turn, plan, call, compact | model call between read and write | turns are answered, regenerated or evicted meanwhile; several processes compact |
| Store (`server/store.mjs`) | `db.json`, or one row and the tables of PostgreSQL | `loadDb`, `updateDb`, first insertion, migration | everything | reads statement by statement, locks, failures between two statements |
| AI quota (`index` 276–336) | usage events; the tasks' records | reserve, call, complete; record the uses of a task | store | counts and leases of calls whose process died |
| Sandboxed story agent (`src/agent-runtime.ts`, `src/story-file-workspace.ts`, loop of `packages/agent`) | workspace files, changes, tool calls, repair budgets | model call, batch of tools, file read, write, edit, question, submission, repair prompts | the stored files, before and after each tool | tools of a batch run side by side; the author saves meanwhile |
| Artifacts, chapters, drafts, history (`server/story-artifacts.mjs`, `index` 354–488, 2925–2960, 3203–3560) | drafts, edit history, pending artifacts | save, apply, approve | final update of the run | what a proposal was made from is old when it is approved |
| Chapter editor (`src/App.jsx` 600–1030, 2979–3205, 3350–3600, 4647–4678) | `draft`, `savedDraftRef`, `saveQueueRef`, timers, `historyRef`, `historySnapshots`, `lastAiRestore` | load, type, save, select, undo, bring back a snapshot, apply the agent's revision, hear of the agent's change | requests | loads, saves, histories and revisions that return after another chapter was selected |
| Sessions (`server/auth.mjs`, `index` 760–1087) | users, refresh tokens, codes | register, login, refresh, reset | store, email | rotation |
| Skill market (`server/skill-*.mjs`, `index` 1875–2090) | items, installs, files | upload, review, publish, install, remove | files, store, review model | file against record |
| Memories, foreshadows, ideas; writing assistant; settings; prompts; email; rest of the front end | see `PROJECT.json` | – | – | – |

What makes the modelled components correct:

* *Executor and handlers*: one result per round of the conversation; no acknowledged steer is lost; the text on the screen belongs
  to the run that owns the task; what was stopped or answered stays so.
* *Single process*: nothing that the store shows as working is without a live execution; a stop reaches the run; every accepted task
  comes to rest, through any restart.
* *Queue*: the same, although entries are duplicated, leases expire and workers die; every entry is acknowledged.
* *Stream*: what reaches the reader of a run is a beginning of what the run published; at the end the screen holds the stored answer, with no
  word missing; a connected reader sees the end.
* *Log*: a run that resumes is shown the end of the text it continues, and nothing that text does not hold.
* *Thread*: a turn that is no longer told word by word is in the summary, none is told twice, and a new turn knows the one before it.
* *Quota*: no day and no moment exceeds its limit, whoever starts what, and whoever dies.
* *Store*: an acknowledged update stays; a mutator sees the last state, whole; reads never go back; only the migration can deadlock.
* *Story agent*: no text of the author's is lost to it; a proposal is applied once, when the client asks for it; nothing is done after a question.
* *Editor*: the text of a chapter is stored as that chapter's, and its history holds texts of its own. The code keeps this only until one of three things it does not guard against happens (finding 6).

`PROJECT.json` lists the hazards of the code, each at its line and with the properties that would catch it.

## 2. Modules

| Module | What it is |
|---|---|
| `TaskRecord` | one element of `db.writingTasks` and the pure updates transactions apply to it |
| `TurnLifecycle` | the abstract specification: what a turn promises its user, with no word about executions |
| `TaskExecution` | tasks, thread and executions under the weakest runtime: anything may be started, aborted or lost at any time |
| `LocalRuntime` | the API that runs tasks itself (no `REDIS_URL`) |
| `QueueRuntime` | the API, the Redis stream and the workers |
| `TaskStream` | the live text of a turn: events of its runs, coalesced and bridged; checkpoints, polled; the SSE route that merges them; the client's items |
| `ResumeLog` | the two copies of the text a run leaves to the run that resumes it |
| `ThreadMemory` | turns, conversation and summary of a thread; compaction by several processes |
| `AiQuota` | calls and tasks of a user under the daily and the concurrent limit |
| `Store` | `loadDb` and `updateDb`, on the file and on PostgreSQL, statement by statement |
| `StoryAgent` | one run of the story agent over the files of a work, with the author saving meanwhile and approving afterwards |
| `Editor` | the chapter editor: loads, saves, undo and revisions under way while the author selects and types and the agent writes |
| `MCTaskExecution`, `MCLocalRuntime`, `MCQueueRuntime` | symmetry sets for TLC |
| `MCLocalScenarios`, `MCQueueScenarios` | a runtime narrowed to two scenarios, each with bounds of its own: each behaviour is one of either |
| `MCRest` | both runtimes under their fairness, each behaviour one of either |
| `MCTaskStream` | the deployments of `TaskStream` and their bounds |
| `MCStudio` | the six components that share no state (`ThreadMemory` … `Editor`), each behaviour one of one of them |
| `…_proofs` | theorems and proofs of the module they are named after; `Saving_proofs` those of `Store`, `StoryAgent` and `Editor`, `Limits_proofs` those of `AiQuota`, `ResumeLog` and `ThreadMemory`, `TaskStreamWords_proofs` a further one of `TaskStream`, `Studio_proofs` those of `MCStudio` (§4) |

```
 TurnLifecycle  <==(KeepsPromise)==  TaskExecution  <==(RefinesTaskExecution)==  LocalRuntime
                                      EXTENDS TaskRecord                          QueueRuntime
 around it, by what they take from the code of a task's life:
   TaskStream (claim, takeover, checkpoint, final update)   ResumeLog (checkpoint, abort, resumption)
   ThreadMemory (start, retry, regenerate, answer, eviction) AiQuota (start, steer, answer, end)
   StoryAgent (the run's tools and its final update)         Editor (its requests; the agent's news)
   Store (the transaction that is one step everywhere else)
```

`LocalRuntime` and `QueueRuntime` EXTEND `TaskExecution`, reuse its actions and add the scheduling. Both are shown to implement
it, by TLC and by proof, so that each property of `TaskExecution`, and each theorem, holds of the two runtimes as well. The modules below them
take the part of a task's life they depend on as it is in `TaskExecution` (who may claim, take over, finish), and leave out the rest.

### State

| Variable or field | Code |
|---|---|
| `tasks[t].status`, `.gen`, `.attempt`, `.active`, `.cancelRequested`, `.resume` | `status`, `executionGeneration`, `interactionAttempt`, `activeExecutionId`, `cancelRequested`, `resumeFromCheckpoint` |
| `.output` | who wrote `partialOutput` (the text itself is abstracted) |
| `.choice` | does that text, or the result, hold a `<choice_request>` block: `legacyChoiceRecovery(task) !== null` |
| `.steerRevision`, `.pending`, `.merged` | `steerRevision`; revisions of `steeringHistory` still `pending`; those in `input.payload.steering_messages` |
| `parent`, `turns` | `parentTaskId`; the `taskId` of each turn of the active thread |
| `execs[e]` | the locals of one call of `executeWritingTask`: `prepared` (`gen`, `heard`, `base`), `resumeRunning` (`takeover`), `controller.signal.aborted`, what it returned |
| `delivered` | history variable: every result ever written, with its round, its author and the steers the author had read |
| `controllers`, `recovered`, `proc` | `writingTaskControllers`, `recoverableTasks`, the life of the process |
| `stream`, `workers`, `cancels`, `dispatches`, `api` | stream and pending list; the module state of each worker; published cancellations; handlers between commit and XADD; the life of the API |
| `TaskStream`: `task`, `runs` | `partialOutput`, `events`, status and generation of the stored task; the output segments each execution has streamed |
| `buffer`, `outbox`, `channel` | `pendingLocal`, `pendingRedisEvents` of each process; messages in Redis |
| `sse`, `screen` | the locals of the turn's stream route: buffered events, snapshot read, last one handled; the items the client has folded |
| `ResumeLog`: `stored`, `resumeRuns` | `partialOutput`, `deltaRuns` and owner of the task; `partialOutput`, `deltaRunLog` and `checkpointQueue` of each execution |
| `ThreadMemory`: `threadTurns`, `summary`, `compactedIds` | `thread.turns`, `contextSummary`, `compactedTurnIds` |
| `compactions`, `requests` | a compaction between its read and its write; a request between its read of the thread and its transaction |
| `AiQuota`: `calls`, `uses`, `quotaTasks` | `db.aiUsage`: the events of direct calls and of tasks; the tasks' records |
| `Store`: `file`, `row`, `tables`, `rowLock`, `advisoryLock` | `db.json`; `story_state`, the relational tables, `FOR UPDATE` (or an insertion not committed), `pg_advisory_xact_lock` |
| `txns` | each `loadDb` or `updateDb` under way: its next statement, what it has read, what it has written and not committed |
| `StoryAgent`: `drafts`, `history`, `proposal`, `applied` | `db.drafts` and ideas, `db.editHistory`, `pendingArtifacts`, `artifactApplication` |
| `workspace`, `changes`, `toolCalls`, `agentRun` | `files` and `written()` of the workspace; the tool calls of the run; the locals of `runRuntime` |
| `Editor`: `onServer`, `editHistory` | the project's part of `db.drafts` and `db.editHistory` |
| `editor`, `loads`, `saveQueue`, `refresh`, `news` | `draft`, `savedDraftRef`, `draftLoading`, timer; the load effect's requests; `saveQueueRef`; `refreshGeneratedArtifacts`; the news of an agent's change |
| `undo`, `revision`, `restore` | `historyRef`, `historyPendingRef`, `historySnapshots` and `historyLoading`; the locals of `applyAssistantRevision` while it waits; `lastAiRestore` |
| `lapses` | history variable, read by no step: what happened that the editor does not guard against |

### Granularity

One step is one store transaction. `updateDb` serialises them (a promise queue in the process, `SELECT … FOR UPDATE` across
processes), and a mutator that throws changes nothing (`store` 543–576); `Store` models that code statement by statement and shows it, so that the others may rely on it. What the caller does before it next awaits belongs to the
step; what it does after (XADD, publish, redispatch, XACK) is a step of its own, and everything may happen in between.

The writes a run makes while the model streams (skill and activity updates, `flushCheckpoint`, tool events, delegates, finalizing)
share one fence and, in this model, one effect: `Checkpoint`. The final update and the catch block keep their early returns in
order: `FinishCancelled`, `FinishSuperseded`, `FinishForSteer`, `Deliver`; `RequeueAfterAbort`, `FailUnrecorded`.

### Abstractions

One user with one active thread; fewer than 40 turns and fewer than 500 tasks; requests refused by the quota, or repeated with an
idempotency key, change nothing and are left out; a task's limit of 8 steers is `MaxSteers`. Artifacts are part of `Deliver`
because the code applies them in the same transaction. Stream events and telemetry are left out there.

The other modules abstract texts to what their properties tell apart:

* `TaskStream`: a delta is one token, a token a number used once; so an order, a repetition and a loss can be seen. Reasoning, tools and activity
  travel like text and are left out.
* `ResumeLog`: a character is the number of its streaming, so a text is a sequence of numbers that grow.
* `ThreadMemory`: what a turn says is `<<turn, task, version>>`, a summary the set of what it was made from. How many turns a compaction takes depends on
  their length and is left open; the last completed one stays. An id is the number of its task, so ids grow with time; the code's are random, and nothing compares them.
* `AiQuota`: time in ticks, a lease of one and a day of two; uses older than 30 days and beyond 20 000 are not dropped.
* `Store`: a state is the set of updates it holds, the same in each of its parts; READ COMMITTED is a statement that reads what is committed when it runs.
* `StoryAgent`: a file's text is a set of passages; a tool call adds one of its own, a write replaces all, the excerpt lacks `Middle`. What the model answers is open.
* `Editor`: a text is the chapter it was written for and the moment of its last change. Undo, redo and the list of snapshots are one set of texts that may be brought back; a snapshot is recorded when its request is sent.

Smaller simplifications, none of which a property depends on: `ChangeAttempt` (`TaskStream`) ends the stream of an interrupted, waiting, failed or cancelled task like that of a completed one; `Redispatch` (`LocalRuntime`) includes
the `loadDb` before it; `RetryTurn` and `Conversation` (`ThreadMemory`) take a cancelled turn for a failed one and leave out the cap of 24 messages; `FlushCheckpoint` (`ResumeLog`) is not skipped when the output is unchanged; `ResumeTask` (`AiQuota`)
leaves out the answers to tasks that show a choice without waiting for it; `InsertRow` (`Store`) waits for the lock of a row that exists.

In `QueueRuntime` an entry has no owner, because no call of the code looks at it: `XCLAIM` with idle time 0, `XACK` and `XDEL` work for
any consumer, `XAUTOCLAIM` looks at the idle time. One assumption about time is made, and named `Neglects`: the 180 s of
`AI_TASK_CLAIM_IDLE_MS` (the code's minimum) are long against everything a worker does but a model call. So the lease of an entry held by a
live worker expires only while a call lasts and nothing refreshes it: it waits in the worker's batch, or the worker is stopping.

## 3. Runs

| Run | Configuration | Shows |
|---|---|---|
| `task_execution` | 3 executions, 1 task, 1 steer, 2 attempts, model failures, choice blocks | type; one result per attempt; every steer heard; author of the text; finality; refinement of `TurnLifecycle` |
| `local_safe` | 3 attempts; scenario "one": 4 executions, 1 task without choice blocks, 2 steers, 2 deaths; scenario "two": 3 executions, 2 tasks, 1 steer, choice blocks, 1 death | type; a stop reaches the run; steers merge in order (where no choice is shown); running tasks are owned, queued ones on their way, no task works behind the thread's back; refinement of `TaskExecution` |
| `queue_safe` | 2 workers, 3 entries; scenario "stops": 3 executions, a kill, a stop, an API death; scenario "kills": 4 executions, two kills, an API death | type; refinement of `TaskExecution`; queued tasks keep a way to a worker |
| `rest` | single process: 4 executions, 1 steer, 2 attempts, 1 death; queue: 2 workers, 2 entries, 3 executions, a kill; fairness | every accepted task comes to rest; a dead worker's task is taken over; every entry is acknowledged |
| `stream` | a single process with 2 runs, 2 tokens, 2 segments, 2 reconnections; workers whose messages arrive; workers whose messages may be lost (2 tokens, or 2 runs), 1 reconnection; `PendingCap` = 1; fairness | type; order of what is heard; the final screen is the record; no word missing; a reader sees the end |
| `studio`: thread | 4 tasks, 2 turns kept, 1 told word by word, 2 compacting processes, 1 request, 1 answer or eviction | compacted turns are summarised; none is told twice; the turn before is known |
| `studio`: resume | 3 runs, 4 characters, log of 3 characters and 2 segments of 2, tail of 2, with and without the log | a successor knows the end; the log keeps the tail |
| `studio`: quota | 4 uses a day, 2 at once, 2 calls, 2 tasks of 3 provider calls, 3 ticks | no day over its limit; never more at once |
| `studio`: store | 2 updates, 2 reads, 2 tables; file, empty database, current schema, first schema | no update lost; mutators see the last state; reads never go back; no deadlock once migrated |
| `studio`: agent | 1 chapter of 2 passages, 3 tool calls in batches of 2, 1 save, both policies, `LoadedFiles` empty | the author's text is kept; a proposal is applied once; nothing after a question |
| `studio`: editor | 2 chapters, 2 changes, 2 selections, 2 saves; until a lapse; 3 changes and selections together (`MaxEditorWork`) | until a lapse, drafts and histories hold texts of their own chapter |
| `local_failure` | 1 execution, model failures | finding 1 |
| `queue_healthy`, `queue_lost` | 2 workers, 1 or 2 entries, a kill (and a stop) | findings 2 and 3 |
| `resume_gap` | 3 runs, 5 characters, the log enabled or not | finding 4 |
| `agent_edits` | as `studio`, with the chapter in the prompt | finding 5 |
| `editor_load` | as `studio`, lapses or not | finding 6 |

`studio` is one run whose behaviours each belong to one of six components; the invariants of all are checked in it, and `StudioTypeOK` is the conjunction of
their types. `rest` likewise holds two instances, and `local_safe` and `queue_safe` two scenarios of one.

**Bounds.** An execution id is used once, so the number of executions bounds the runs of a task: three are a run, one that
replaces it and one that replaces that; the fence compares a run with the one that owns the task, so no property relates more than
two at a time. Two workers are enough for every takeover, three entries for a requeue and a duplicate from the API's boot. `MaxSteers` = 2
is what an order among steers needs; `local_safe` gives each scenario the bounds its properties need. `MaxAttempts` stops answers, never the runs. The fault bounds (`MaxCrashes`, `MaxKills`, `MaxStops`,
`MaxApiCrashes`) are the number of independent faults of a run. `CHECK_DEADLOCK FALSE` everywhere: the system rests when its user does, and bounded
ids run out.

In `stream`, two tokens show an order, two segments an end before a start, two runs a takeover, a buffer of one an overflow. In the thread, two kept turns with four tasks make every
turn leave, and two compactors make each other's summaries stale. In the log, a limit below the number of characters makes it drop, and three runs let a superseded one meet its
successor's successor. Two calls and two tasks cover the pairs the limits compare. Two updates and two reads on two tables cover a read between the statements of an update and an update between
those of a read. Two passages are the part an excerpt keeps and the part it drops; three tool calls are a batch of two and one after it. Two chapters with two selections give a load overtaken by another. `MaxEditorWork` bounds the *sum* of changes and selections in `studio`: three without a
save under way, two while up to two saves are (without it the editor has too many states for the run). So a revision may wait while its chapter is left and selected again, two loads may overtake each other before a change, and two saves of a chapter may be under way when another is selected. The proof has no such bound, and neither has `editor_load`. 

`ModelFailures` is FALSE in the runs that need the code to record a failure (`RunningIsOwned`, the liveness runs): finding 1 shows
what happens otherwise. `ChoiceBlocks` is FALSE where steers must merge in order: the answer to a choice shown by a *running* task
leaves the pending steers pending, and a steer given to the task once queued is then merged before them. `LoadedFiles` is empty in `studio`, since
finding 5 shows what happens otherwise.
`TextsStayUnlessLapsed` is promised until a *lapse*, recorded in `lapses` when it happens: "unread" (the text of the chapter selected could not be loaded), "early" (a button, undo or the list of snapshots changed the text, or
the text was kept for restoring, before the chapter's text or history had arrived), "late" (a revision was applied after another chapter was selected). These are what finding 6 is about; TLC finds `TextStaysInItsChapter` violated with
each of them alone. The property and its theorem say that they are all there is: nothing else the editor does (saves under way, timers of the chapter left, overtaken loads and histories, refreshes, texts brought back in time) brings one
chapter's text under another's name. `studio` does not follow the editor past a lapse, since nothing is claimed there; `editor_load` does.
`QueuedIsReachable` is promised for as long as no worker was killed, or two at most were and none was told to stop. That is as far as it goes: a worker that dies while it hands a task back leaves the task to the entry it
had, and if another worker has acknowledged that entry meanwhile, nothing is left. No two workers tend one entry before two were killed (or one killed and one stopped: finding 3), so it takes three deaths, or a stop and one; TLC finds
both as soon as the condition is dropped. `NoTurnToldTwice` is promised while fewer ids are compacted than are kept (`KeptTurns`, 40 in the code), and beyond that if turns were worked on one after the other.
That too is as far as it goes: `compactedTurnIds` keeps the newest ids in the order in which turns were *compacted*, so two older turns that were reopened by an answered choice and compacted after a newer one push its id out
while the thread still shows it, and it is then told word by word as well as summarised. `FinalScreenIsRecord` speaks of installations without workers: over Redis an event may arrive after the item that replaces it.
`NoWordMissing` promises the words of a run that kept its task to the end of its round, and every result that was not streamed. It cannot promise those of a run that was taken over: a takeover ends only the last running
output event (`executor` 204–212), and a run that lost its task but lives streams on under ids the record already uses, so in place of such an item the screen may show other words until the turn is loaded again. That takes a third run, or a second
takeover; the property as stated is proved for any number of each (§4).

**Fairness.** `LocalFairness`: the event loop runs what is ready (each step of an execution, redispatch, boot); a model call
returns or, aborted, throws; a supervisor ends a process it told to stop and starts the next. `QueueFairness`: the same of the
workers, a live worker reads and scans for stale entries, time passes (leases expire when nothing refreshes them), processes that
died are restarted. Weak fairness is enough: each of these stays enabled until it happens. Nothing is assumed of the user, of
faults, or of the delivery of a cancellation. `MCRest` states both; the installation a behaviour is not of stays at its beginning, where none of its fair actions is enabled.
`Fairness` of `TaskStream`: a claim is made, a run that is over is taken over, a live run ends its segments, writes its checkpoints and finishes; timers fire, messages arrive (or are lost),
a connected reader's route polls. Nothing obliges a reader to connect, a model to write, or a worker to die or not to.

**Symmetry** is used in safety runs only (`task_execution`, `local_safe`, `queue_safe`, and the two queue findings).

### Findings

1. `FailureIsRecorded` (`local_failure`): the catch block of `executeWritingTask` names `deltaRunLog`, a `const` of the try block. Its
   transaction raises a ReferenceError in every branch but the requeue of an aborted run, changes nothing, and the error is swallowed. A
   failed or timed-out model call leaves its task `running` for ever (until a boot resumes it).
2. `HealthyNotTakenOver` (`queue_healthy`): a worker killed between the XADD of a requeued task and the XACK of the old entry
   leaves the old one pending; its lease expires and it takes the healthy run of the new entry over, against README.md:230. No result is lost or doubled (the fence
   holds), the model call is.
3. `RunningHasEntry` (`queue_lost`): a worker that is stopping refreshes no lease; superseded, it acknowledges and deletes the entry it shares with its
   successor. If that one dies, the running task has no entry, and the API's boot relies on one (`index` 3883–3884).
4. `LogIsNoSecondTruth` (`resume_gap`): a checkpoint fixes its output when it is queued (executor 412) and takes the log's snapshot inside its transaction (422), when more may have been streamed.
   After a crash the resumed run continues the stored output and is shown a tail that goes beyond it, as text not to repeat: those words are in no result. `delta-run-log.mjs` 60–62 calls
   the log "never a second source of truth".
5. `EditKeepsTheRest` (`agent_edits`): the workspace takes the texts of the prompt for the files, and those of long chapters are excerpts (`writing-context.mjs` 129,
   `story-file-workspace.ts` 85–88). An edit stores the excerpt as the chapter; its middle is left in the edit history only.
6. `TextStaysInItsChapter` (`editor_load`): README.md:25 says that chapter texts and edit histories are kept separately. One chapter's text is stored as another's in three ways, each sufficient alone.
   *Unread*: when the text of a selected chapter cannot be loaded, the previous chapter's stays on the screen, editable (`App.jsx` 651–657), and the autosave stores it under the new chapter at the next keystroke (680–691).
   *Early*: the change of chapter clears undo (2979–2985), and the effect at 3198–3205 then fills it with the snapshots at hand, which are those of the chapter left until the new ones are answered; an undo before that (3430–3440) puts a
   text of the chapter left on the screen of the new one. *Late*: `applyAssistantRevision`, which the client calls by itself (3176–3196), compares the chapter at 4651, waits for its snapshot at 4664 and commits at 4673 with the draft it began with, whatever
   chapter is selected by then. TLC's counterexample (six steps) is one of the first two; the third takes seven. The overwritten text is left in its chapter's history.

Met while modelling, and no run: live events lost on their way leave words in two items until the turn is loaded again (`index` 2815–2834); what is typed while a selection waits for its save is
dropped when the chapter changes (`App.jsx` 974; the editor's properties say where a text is stored, not that each keystroke is); a completed run's proposal is applied by the client itself (`App.jsx` 3190), so its approval is not the author's; `refreshGeneratedArtifacts` may replace unsaved text by the agent's; a summary may hold an older text than a choice answered after it was made.
Nothing in the repository says otherwise of these. And a compacted turn may be told word by word again once its id is pushed out (above): TLC finds it as soon as the condition of `NoTurnToldTwice` is dropped and four turns are kept of six, with two
answers. The test at `agent-thread.test.mjs` 136 says that summarised turns are excluded, of a thread with one compacted id.

## 4. Proofs

Every theorem holds for all values of the constants: any sets of tasks, executions, workers, entries, calls, files, passages, chapters, any bounds and limits.

| Module | Theorem | Statement |
|---|---|---|
| `TaskExecution_proofs` | `Invariance`, `TypeCorrect` | `Spec => []IInv`, `Spec => []TypeOK` |
| | `OneDelivery` | `Spec => []OneDeliveryPerAttempt` |
| | `SteersAreHeard` | `Spec => []DeliveryHeardEverySteer` |
| | `TextHasOneAuthor` | `Spec => []OutputLineage` |
| | `FinishedIsFinal` | `Spec => FinishedStaysFinished` |
| | `Refinement` | `Spec => KeepsPromise` |
| `LocalRuntime_proofs` | `LocalRefinement`, `LocalKeepsPromise` | `LocalSafetySpec => RefinesTaskExecution`, hence `KeepsPromise` |
| | `LocalTypeCorrect` | `LocalSafetySpec => []LocalTypeOK` |
| | `StopsReachTheRun` | `LocalSafetySpec => []StopReachesTheRun` |
| | `QueuedTasksAreDispatched` | `LocalSafetySpec => []QueuedIsDispatched` |
| | `RunningTasksAreOwned` | `~ ModelFailures => (LocalSafetySpec => []RunningIsOwned)` |
| | `UnfinishedTasksAreShown` | `LocalSafetySpec => []UnfinishedTaskHasTurn` |
| | `SteersKeepTheirOrder` | `~ ChoiceBlocks => (LocalSafetySpec => []SteersMergeInOrder)` |
| `QueueRuntime_proofs` | `QueueRefinement`, `QueueKeepsPromise` | `QueueSafetySpec => RefinesTaskExecution`, hence `KeepsPromise` |
| | `QueueTypeCorrect` | `QueueSafetySpec => []QueueTypeOK` |
| | `QueuedTasksAreReachable` | `QueueSafetySpec => []QueuedIsReachable` |
| `Saving_proofs` | `StoreInvariance`, `StoreTypeCorrect` | `StoreSpec => []StoreInv`, `[]StoreTypeOK` |
| | `NoUpdateIsLost` | `StoreSpec => []NoUpdateLost` |
| | `UpdatesAreCurrent` | `StoreSpec => []UpdatesSeeTheLastState` |
| | `ReadsAreMonotonic` | `StoreSpec => []ReadsNeverGoBack` |
| | `NoDeadlockOnceMigrated` | `StoreSpec => []NoCircleOnceMigrated` |
| | `AgentInvariance`, `AgentTypeCorrect` | `AgentSpec => []AgentInv`, `[]AgentTypeOK` |
| | `AuthorKeepsEveryVersion` | `AgentSpec => []AuthorTextIsKept` |
| | `ProposalsAreAppliedOnce` | `AgentSpec => []ProposalAppliedOnce` |
| | `QuestionIsTheLastCall` | `AgentSpec => NothingAfterTheQuestion` |
| | `EditorInvariance`, `TextsAreTheirChapters` | `EditorSpec => []EditorInv`, `[]TextsStayUnlessLapsed` |
| | `EditorTypeCorrect` | `EditorSpec => []EditorTypeOK` |
| `Limits_proofs` | `NeverMoreThanTheLimit` | `QuotaSpec => []NeverMoreAtOnce` |
| | `NoDayIsOverTheLimit` | `QuotaSpec => []NoDayOverLimit` |
| | `ResumeTypeCorrect` | `ResumeSpec => []ResumeTypeOK` |
| | `SuccessorsKnowTheEnd` | `ResumeSpec => []SuccessorKnowsTheEnd` |
| | `LogsKeepTheTail` | `ResumeSpec => []LogKeepsTheTail` |
| | `ThreadTypeCorrect` | `ThreadSpec => []ThreadTypeOK` |
| | `CompactedAreSummarised` | `ThreadSpec => []CompactedTurnsAreSummarised` |
| | `TurnsAreToldOnce` | `ThreadSpec => []NoTurnToldTwice` |
| | `TheTurnBeforeIsKnown` | `ThreadSpec => KnowsTheTurnBefore` |
| `TaskStream_proofs` | `StreamTypeCorrect` | `SafetySpec => []TypeOK` |
| | `StreamHeardInOrder` | `SafetySpec => []HeardInOrder` |
| | `FinalScreenShowsTheRecord` | `SafetySpec => []FinalScreenIsRecord` |
| `TaskStreamWords_proofs` | `NoWordIsMissing` | `SafetySpec => []NoWordMissing` |
| `Studio_proofs` | `StudioTypesCorrect` | `StudioSpec => []StudioTypeOK` |

Assumptions: the ASSUMEs of the modules (null values are no ids; bounds are naturals; sets that are counted are finite), which TLC evaluates in the runs.
`~ ChoiceBlocks` and `~ ModelFailures` are real restrictions, explained in §3: without them TLC finds the property violated.

### TaskExecution

None of the properties is inductive. A second result for a round is ruled out because a round with a result
has no owner, and only a later round gets one (`DeliveredRoundIsOver`); that holds because nobody is an owner without having claimed
(`OwnersHaveRun`) and a queued task has none (`QueuedHasNoOwner`). A result has heard every steer because its author still owns the task, hence
read the whole input (`OwnersHeardTheInput`), and nothing is pending. A cancelled task refuses claims and final updates
(`CancelledIsRequested`). `IInv` is the conjunction of these and of the properties; TLC agrees with it on the instance of `task_execution`.

All actions but `Claim` and `Deliver` make nobody an owner and leave no result. They are shown to be `Quiet`, record by record
(`QuietApiUpdates`, `QuietExecutorUpdates`), and one lemma (`QuietStep`) shows that a quiet step preserves `IInv` and undoes nothing finished. `ClaimPreserves` and
`DeliverPreserves` do the two others; `NextInv` puts them together.

### The refinement of TurnLifecycle

What a user sees of a record is its phase, attempt, choice block and pending steers. `ApiUpdatesSeen` and `ExecutorUpdatesSeen` say of each update
which step of `TurnLifecycle` it shows, or that it shows nothing (`Unseen`); `SeenIsPromised` lifts that from one record to the state. `KeptByDeliver` needs
`DeliveredRoundIsOver` (the round has no result yet) and `OwnedStatus` (who owns a task finds it running, cancelled, or failed by a refused dispatch). The invariant is `IInv` with
`AbsentIsFresh`: a task that was never created has no round, choice or steer its creation could bring into view.

### The runtimes

`LocalSimulates` and `QueueSimulates` show that each step of a runtime is a step of `TaskExecution`, or changes nothing of it. A runtime aborts or loses the executions its registry or a
worker names, so the proof must know that these are executions, and that what is restarted was over: `LocalTypes` and `ReturnsAreOver`; in the queue `Held`, by which an entry that was added has a task
and a worker is at work only on such an entry (`EntriesHaveTasks`, `WorkersHoldEntries`). `IInv` of `TaskExecution` comes along by `NextInv`, so every theorem about it holds of both runtimes.

*One process.* Where texts hold no choice blocks, a task has *one* execution at work. `WorkInv` says so in six parts: at most one execution of a task is engaged (it will go on, or will be started
again for a steer); it was called for; it is the registered one; nobody else owns its task; stopped, it is aborted; and what a boot found waits only while it boots. One lemma per kind of step keeps it
(`WorkStarts`, `WorkGoesOn`, `WorkEnds`, `WorkClaims`, `WorkIsPassedOn`, `WorkRestarts`), then one per handler. For the order of steers the invariant adds that records are orderly and that old steers wait
(`RecordsAreOrderly`, `OldSteersWait`): only a boot leaves pending steers with a queued task, and the server accepts no steer before those are claimed.

With choice blocks the answer to a choice that a *running* task shows starts a second execution beside the first, and `WorkInv` is false. `CareInv` is what remains, task by task: at most one execution is *on its way* to the task
(`OneQueues`: about to claim it, or to be started again for a steer), that one is registered and finds no choice to answer (`QueuesInOrder`), a queued task has one (`QueuedHasOne`), whoever may still write to a
task is the registered one and is aborted when the task is stopped (`WritesInOrder`), and a running task has such a one unless a model call failed (`RunningHasOne`). From it follow `QueuedIsDispatched`, `RunningIsOwned` and, for
all texts, `StopReachesTheRun`: an execution that lost its task to an answer is the exception that property names. An answer keeps `OneQueues` only because nobody on its way to a task leaves it a choice to answer, hence `QueuesInOrder`.

*The queue.* `QueuedIsReachable` speaks of entries that somebody will look at. The invariant, `WayInv`, says it of entries that nobody has looked at in vain (`Awaits`: pending, and whoever is at work on it is about to claim the task),
and adds who tends which entry: a worker at work runs an execution of its own (`PostsInOrder`), and while one worker at most was killed and none was stopped, one worker at most tends an entry, whose lease is alive, and one
entry at most is pending with nobody at it (`LeasesInOrder`). (With two such entries a worker would read both, and the lease of the second would expire while it works on the first.) So a second worker that is killed while it hands a task back was alone with its entry, which stays
pending. With no kill at all, workers that stop finish what they hand back, and no count is needed.

### Store

`Stored` (what is stored is what was committed, in every part the schema has), `LocksAreHeld`, `OneWriter` on the file, and `Sane` of each transaction: what it has read lies between what it knew and what is
committed; who has writes holds the row; an update past its lock has read what is committed. Steps that change nothing stored are `Quiet` and handled by `QuietStep`; `CommitPreserves` and `WriteFilePreserves`
do the rest. What a commit must not disturb is the view of the others: an update among them would hold the same row, and a read's view only has to be older.

### StoryAgent, Editor

`StoryAgent`: a call that is under way belongs to the batch and names a file, a question ends the phase in which the model is called (`QuestionEndsTheRun`), and a proposal is what a completed run left
until it is applied (`ProposalIsNew`); `DocumentsKeep` shows once that replacing documents puts the author's version into the history.
`Editor`: the invariant, `EditorInv`, is its types and, while nothing has lapsed, `TextsAreTheChapters`: drafts, histories, answers (`AnswersAreTheChapters`), queued saves (`SavesAreTheChapters`), texts kept by a refresh or for restoring and the revision that waits
(`NotesAreTheChapters`) carry the text of the chapter they name; the load still mounted is for the chapter selected (`MountedLoad`); the screen shows the selected chapter's text unless a load is under way, when no timer runs (`ScreenIsTheChapters`); and undo
holds the selected chapter's unless its history is awaited (`UndoIsTheChapters`). Lapses are never taken back (`LapsesStay`), so each step is looked at from a state without one. A revision that waits names its own chapter, whatever is selected; applied with that chapter
selected it keeps the screen, applied with another it lapses. The types need no such condition: a load that fails brings no text, and the screen takes one only from a load that was answered (`AnswersAreTexts`).

### AiQuota, ResumeLog

`AiQuota`: a call under way has an open event (`CallsAreOpen`), so what a reservation counts is at least what is at work. `DayInv` says of the day's limit that nothing is recorded in the future and that no day, past or to come, is over it: a day
that is over gets nothing more, and whatever a later day holds was in the day the last reservation counted (`LaterDaysAreCounted`).

`ResumeLog`: a log is `Segmented` (each of its characters lies in a segment of at most `SegmentLimit`), `Ends` its run's output, and has lost nothing or is `Full`: within one segment of `LogLimit`, or at `LogRunLimit` segments. `BoundedIs` shows that
dropping the oldest segments until the rest fits leaves such a log: the segment dropped last did not fit. The assumption `SegmentLimit + TailLimit <= LogLimit + 1` (200 000 + 12 000 against 512 000) makes a log full of characters long enough; nothing in the
code makes 4 096 segments hold 12 000 characters, so `LogKeepsTheTail` promises a character for each of them and no more. A checkpoint that waits is a beginning of the run's output and the log its end, so the log `Covers` whatever output is stored with
it, at whichever moment each was taken (`EndCoversBeginning`); `RunOK` and `StoredOK` say so of every run and of the record.

### ThreadMemory

Ids grow along the thread (`TurnsAreInOrder`), and what is compacted, summarised or planned is older than its last turn (`CompactedArePast`), which a plan leaves out. As only the last turn can be regenerated, a plan's messages are still what the
turns say when the model has answered (`PlansAreTold`), and a summary that is current when it is written loses none: `CompactedTurnsAreSummarised`. For the same reason the last turn is in every conversation that is read, and
stays what the request knows until another turn takes its place (`LastIsRemembered`): `KnowsTheTurnBefore`.

`NoTurnToldTwice` has two halves. While not all places for ids are taken, each summarised turn is among them (`SummaryIsKept`), and the conversation leaves those out. Beyond that ids are dropped, and it must be shown that no dropped one is
of a turn the thread still shows. `SequenceInv` holds while turns are worked on one after the other: only the last is at work (`WorkIsAtTheEnd`), the ids kept grow and leave no gap among the turns shown, whose open ones come after all that was
compacted or summarised (`CompactedInOrder`), and so they do after a plan that can still be written (`PlansInOrder`). Were the id of a shown turn dropped, it and the `KeptTurns` ids after it would all be of turns shown, more than
the thread has places (`NoShownIdIsDropped`, by the pigeonhole principle).

### TaskStream

The invariant, `WireInv`, is an equation for each run whose messages cannot be lost: what a reader has heard of it, what flies to that reader, what waits in the outbox and what is buffered, one after the other (`OnTheWay`), followed by what died
with a killed worker, is what the run has said, segment by segment (`NothingLost`). Coalescing two deltas, handing one over, publishing and delivering each move the boundary between two of these parts and no word; only a run that
is over has lost any (`RunsInTurn`, `OwnEvents` and `WireInUse` say whose the events are). What is heard is a beginning of what was said, hence in order and once. What the folds of the model compute for a sequence of
events is shown one event at a time (`FoldOfListen`, `FlattenGathers`), by induction on a set of lengths. Where messages may be lost the readers record nothing heard, and the theorem says nothing.

`FinalScreenIsRecord` needs `AloneInv`, the invariant of an installation without workers. There one run is at work at a time, on the round of its own number; a segment ends before the next begins; what is in the buffer is about the open
segment; what a run has saved is stored (`RunAlone`); and the stored task has segments in progress only of the round at work (`TaskAlone`). For the reader (`ReaderAlone`) that gives the point of the proof: an item that was shown in a completed version
is on the screen and in the record in that version, and no event that is buffered, or waits at the gate of the route, is about it; so neither `drainLiveEvents`, nor the item of the whole text, nor `reconcileAgentTurnItems` changes it any more.
What the route has read stays true while it handles it, since completed segments stay as they are and a completed task does not change (`TrueRecord`, `Grows`). A poll is followed through its steps (`StartTurnAlone`, `ChangeAttemptAlone`,
`SendWholeTextAlone`, `DrainAlone`, `SendItemsAlone`, `UpdateTurnAlone`); the last one finds only completed items in the record and leaves each of them on the screen (`LastRoundShows`).

`NoWordMissing` is about everything else: a bridge that loses messages, workers that die with what they buffered, runs that are taken over, clients that connect again. Here nothing can be said of what was heard, and no equation
holds. A word of a run that is not taken over reaches the screen on one of two paths: as an event, which is on the wire (buffered, in the outbox, in the channel, or pending at the gate of the route) until it is shown, and as text of the record, which a
poll sends. `WordsInv` says of each part what the end needs:

* *The record.* A run that was not taken over is at work, or has stored all it wrote (`RunStored`), and has done so before the task is completed. What the route has read of the record is of the round it is serving or a later one, and an end that it
  has read is the end (`SeenWords`).
* *What was sent.* A reader has been sent a segment in its last version only by a poll of that run's round or a later one (`KnownItems`), where words tell a later version from an earlier one because each word is new when it is written (`Numbered`).
* *The screen.* The trouble is a segment that was sent whole and is then begun anew by live events older than that: the route does not send it again, since it remembers having sent this version (`versions`). `Fits` says why that does no harm:
  the item on the screen still has every word, or is so short that all words of it that are left on the wire cannot make it longer than the record's, so that `reconcileAgentTurnItems`, which keeps the longer text, puts the record's in its place at the end. For
  that the words left must never be more than the segment has (`WordsLeft`): losing a message, dying and disconnecting take words from the wire, and only `Write` adds one, to the segment and to the wire at once.
* *The end.* `DoneWords`, from which `NoWordMissing` follows.

The counting lemmas (`CountAppend`, `CountConcat`, `CountCoalesce`, `CountGather`, `ListenFits`, `FoldHolds`) say how many words of a segment a sequence of events holds when it is extended, joined to another, coalesced, gathered into messages or shown.
Each action has a lemma of its own (`FlushTickWords` … `ConnectWords`); one that leaves the texts alone, or makes the wire shorter, goes by `QuietWords`. A poll is followed through its steps (`StartTurnWords`, `ChangeAttemptWords`, `SendWholeTextWords`,
`DrainWords`, `SendItemsWords`, `UpdateTurnWords`, `LastRoundWords`).

### The parts that share no state

A behaviour of `studio` is one of a single part; the others stay as they begin, so nothing is said of parts that work at the same time, and nothing needs to be: they share no variable. `StudioTypesCorrect` collects the parts' type theorems for `StudioTypeOK`.

### Only model-checked

Liveness (`ReaderSeesTheEnd` and the properties of `rest`): temporal reasoning under fairness is outside the prover's reach. Every invariant and every action property that a passing run checks is a theorem.

## 5. Plan

1. (done) `TaskRecord`, `TaskExecution`, `TurnLifecycle`, `LocalRuntime`, `QueueRuntime`.
2. (done) What surrounds a task: `TaskStream`, `ResumeLog`, `ThreadMemory`, `AiQuota`, `Store`, `StoryAgent`, `Editor`.
3. (done) Theorems: `TaskExecution` implements `TurnLifecycle`; both runtimes implement `TaskExecution`; stops, queued and running tasks and the order of steers in the single process; queued tasks in the queue; the store, the story agent, the editor, the limits of the quota and of the log; compaction; the order of the stream and its last screen.
4. (done) The words of the stream (`NoWordMissing`) and the types of all parts (`StudioTypeOK`).
5. Left to model: package files of the skill market against its records; rotation of sessions; the caps `normalizeDb` puts on every table.

## 6. Not modelled

* Pure I/O and data: email, prompt texts, validation of settings, single-record handlers (memories, foreshadows, ideas), review and publication of skills.
* Sessions: the handlers of `index` 760–1087 read and change records of their own, each change in a single transaction that checks what it changes; what is left open is the order of two of them, and no document promises one.
* The store's mapping of records to rows and `normalizeDb` with its caps. The eviction of tasks and turns is an action of `ThreadMemory`.
* Of the stream, the older route of a single task (`index` 2954–2991), reasoning, tool and activity items. Of the front end, everything but the chapter editor and the folding of items; its requests are those
  the models of the server allow. In the editor: creating, splitting and deleting chapters; the order among the texts undo brings back.
* Of `packages/`, the server loads what `src/agent-runtime.ts` imports: the loop of `packages/agent`, modelled in `StoryAgent` as far as that file uses it, and the provider calls of
  `packages/ai`, where a model call is a step that answers or fails. The rest of `packages/` (the command-line coding agent, its model catalogue with generated protocol code), `crates/`, `python/` and `src-tauri/` is
  not loaded by the server and takes no part in the system described here. It is by far the larger part of the tree, so the share of all lines that the models cover is small, and covering the studio's own protocols completely
  would not change that.
