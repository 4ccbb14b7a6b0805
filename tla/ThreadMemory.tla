---------------------------- MODULE ThreadMemory ----------------------------
(***************************************************************************)
(* What an agent thread remembers: the turns it keeps, the conversation    *)
(* and the rolling summary a new turn is given, and the compaction that    *)
(* moves turns from the one to the other with a model call between its     *)
(* read and its write.                                                     *)
(*                                                                         *)
(* One active thread.  A text is known by its origin: what a turn says is  *)
(* <<turn, task, version>>, the version being the number of answers the    *)
(* task was given; a summary is the set of what it was made from, so two   *)
(* summaries are the same text only if nothing was added.  How many turns  *)
(* a compaction keeps depends on their length and is left open; the last   *)
(* completed one is always kept.  The execution of a task is one step.     *)
(***************************************************************************)
EXTENDS Naturals, Sequences, FiniteSets, SequencesExt

CONSTANTS
    MaxWorks,       \* bound: tasks ever created in the thread
    MaxIntrusions,  \* bound: answers given in the thread, and records pushed out by
                    \* the tasks of others, together
    KeptTurns,      \* turns a thread keeps, and ids of compacted turns (40)
    SpokenTurns,    \* turns a conversation repeats word by word (12)
    Compactors,     \* the processes that compact, one thread at most each
    Requests        \* requests for a new turn, under way at the same time

ASSUME ThreadMemoryAssumption ==
    /\ MaxWorks \in Nat /\ MaxIntrusions \in Nat
    /\ KeptTurns \in Nat \ {0} /\ SpokenTurns \in Nat \ {0}

Works == 1..MaxWorks
TurnIds == Works    \* a turn is named after the first task that answers it

VARIABLES
    works,          \* db.writingTasks, as far as the thread's history reads it
    threadTurns,    \* thread.turns
    summary,        \* thread.contextSummary: what it was made from
    compactedIds,   \* thread.compactedTurnIds
    compactions,    \* per process: the compaction under way
    requests,       \* requests between their read of the thread and their write, with
                    \* the turns completed since (history)
    intrusions      \* answers and evictions so far

threadVars ==
    <<works, threadTurns, summary, compactedIds, compactions, requests, intrusions>>

-----------------------------------------------------------------------------
Content == [turn : TurnIds, task : Works, version : 0..MaxIntrusions]

\* What startWritingTask read and will put into the input of the new task; a
\* retry and a regeneration repeat that input.
Memory == [conversation : SUBSET Content, summary : SUBSET Content, late : SUBSET TurnIds]

WorkStatuses == {"absent", "working", "waiting", "completed", "failed"}
Work ==
    [ status : WorkStatuses, version : 0..MaxIntrusions, choice : BOOLEAN,
      parent : Works \cup {0} ]
NoWork ==
    [status |-> "absent", version |-> 0, choice |-> FALSE, parent |-> 0]

Unplanned == [active |-> FALSE, previous |-> {}, plan |-> {}, messages |-> {}]

\* seq.slice(-n)
Newest(seq, n) == SubSeq(seq, 1 + (IF Len(seq) > n THEN Len(seq) - n ELSE 0), Len(seq))

Says(turn) ==
    [turn |-> turn.id, task |-> turn.task, version |-> works[turn.task].version]

Told(places) == {Says(threadTurns[i]) : i \in places}

\* The places of the turns completed, ...
CompletedTurns == {i \in DOMAIN threadTurns : works[threadTurns[i].task].status = "completed"}

\* ... and of those not yet compacted: told word by word or compacted.
OpenTurns == {i \in CompletedTurns : ~ Contains(compactedIds, threadTurns[i].id)}

LastOf(places, n) == {i \in places : Cardinality({j \in places : j > i}) < n}

\* The first turns instead of the last ones.
FirstTurnsConversation ==
    Told({i \in OpenTurns : Cardinality({j \in OpenTurns : j < i}) < SpokenTurns})

\* The compacted turns told word by word too.
ConversationWithCompacted == Told(LastOf(CompletedTurns, SpokenTurns))

\* threadConversation
Conversation == Told(LastOf(OpenTurns, SpokenTurns))

ThreadInit ==
    /\ works = [t \in Works |-> NoWork]
    /\ threadTurns = << >>
    /\ summary = {}
    /\ compactedIds = << >>
    /\ compactions = [p \in Compactors |-> Unplanned]
    /\ requests = [q \in Requests |-> << >>]
    /\ intrusions = 0

-----------------------------------------------------------------------------
(* New turns.                                                              *)

\* Ids are handed out in order, so the smallest one is the oldest record.
UsedIds ==
    {t \in Works : works[t].status # "absent"} \cup {works[t].parent : t \in Works} \cup
    {turn.id : turn \in ToSet(threadTurns)} \cup {turn.task : turn \in ToSet(threadTurns)} \cup
    {c.task : c \in summary}

NextWork(t) == (\A u \in UsedIds : u < t) /\ t - 1 \in UsedIds \cup {0}

CreatedWork(parent) == [NoWork EXCEPT !.status = "working", !.parent = parent]

\* appendAgentTurn
AppendTurn(t) ==
    threadTurns' = Newest(Append(threadTurns, [id |-> t, task |-> t]), KeptTurns)

\* startWritingTask reads conversation and summary from one snapshot ...
ReadThread(q) ==
    /\ requests[q] = << >>
    /\ requests' = [requests EXCEPT ![q] =
                       <<[conversation |-> Conversation, summary |-> summary, late |-> {}]>>]
    /\ UNCHANGED <<works, threadTurns, summary, compactedIds, compactions, intrusions>>

\* ... and writes them with the new task in a later transaction, which looks
\* for an unfinished turn and not at whether the thread has moved on.
StartTurn(q) ==
    /\ requests[q] # << >>
    /\ \A turn \in ToSet(threadTurns) : works[turn.task].status \notin {"working", "waiting"}
    /\ \E t \in Works :
        /\ NextWork(t)
        /\ works' = [works EXCEPT ![t] = CreatedWork(0)]
        /\ AppendTurn(t)
    /\ requests' = [requests EXCEPT ![q] = << >>]
    /\ UNCHANGED <<summary, compactedIds, compactions, intrusions>>

RefuseTurn(q) ==
    /\ requests[q] # << >>
    /\ \E turn \in ToSet(threadTurns) : works[turn.task].status \in {"working", "waiting"}
    /\ requests' = [requests EXCEPT ![q] = << >>]
    /\ UNCHANGED <<works, threadTurns, summary, compactedIds, compactions, intrusions>>

\* Retry repeats the input of the failed task, its memory included, as a turn
\* of its own, whatever the thread's other turns are doing.
RetryTurn(o) ==
    /\ works[o].status = "failed"
    /\ \A t \in Works : works[t].parent = o => works[t].status # "working"
    /\ \E t \in Works :
        /\ NextWork(t)
        /\ works' = [works EXCEPT ![t] = CreatedWork(o)]
        /\ AppendTurn(t)
    /\ UNCHANGED <<summary, compactedIds, compactions, requests, intrusions>>

Replace(i) ==
    LET o == threadTurns[i].task IN
    /\ works[o].status \in {"completed", "failed"}
    /\ \E t \in Works :
        /\ NextWork(t)
        /\ works' = [works EXCEPT ![t] = CreatedWork(o)]
        /\ threadTurns' = [threadTurns EXCEPT ![i].task = t]
    /\ UNCHANGED <<summary, compactedIds, compactions, requests, intrusions>>

\* Any turn may be regenerated.
RegenerateAny(i) == Replace(i)

RegenerateTurn(i) == i = Len(threadTurns) /\ Replace(i)

\* A task that waits is answered; so is one whose visible text holds a choice.
AnswerTurn(i) ==
    LET t == threadTurns[i].task IN
    /\ works[t].status = "waiting" \/ works[t].choice
    /\ intrusions < MaxIntrusions
    /\ intrusions' = intrusions + 1
    /\ works' = [works EXCEPT ![t].status = "working", ![t].choice = FALSE,
                              ![t].version = @ + 1]
    /\ UNCHANGED <<threadTurns, summary, compactedIds, compactions, requests>>

\* The execution of a task ends.
FinishWork(t, status, choice) ==
    /\ works[t].status = "working"
    /\ choice => status = "completed"
    /\ works' = [works EXCEPT ![t].status = status, ![t].choice = choice]
    /\ requests' = [q \in Requests |->
            IF requests[q] = << >> \/ status # "completed" THEN requests[q]
            ELSE <<[requests[q][1] EXCEPT !.late =
                       @ \cup {turn.id : turn \in {u \in ToSet(threadTurns) : u.task = t}}]>>]
    /\ UNCHANGED <<threadTurns, summary, compactedIds, compactions, intrusions>>

\* [created, ...db.writingTasks].slice(0, 500): the tasks of all users push out
\* the oldest record, whatever its state.
EvictOldest ==
    /\ intrusions < MaxIntrusions
    /\ \E t \in Works :
        /\ works[t].status # "absent"
        /\ \A u \in Works : works[u].status # "absent" => t <= u
        /\ works' = [works EXCEPT ![t] = [NoWork EXCEPT !.parent = works[t].parent]]
    /\ intrusions' = intrusions + 1
    /\ UNCHANGED <<threadTurns, summary, compactedIds, compactions, requests>>

-----------------------------------------------------------------------------
(* compactThread                                                           *)

\* The read and the plan, then the call of the model.  The turns at these places
\* are compacted.
BeginCompaction(p, places) ==
    /\ ~ compactions[p].active
    /\ compactions' = [compactions EXCEPT ![p] =
            [ active   |-> TRUE,
              previous |-> summary,
              plan     |-> {threadTurns[i].id : i \in places},
              messages |-> Told(places) ]]
    /\ UNCHANGED <<works, threadTurns, summary, compactedIds, requests, intrusions>>

PlanCompaction(p) ==
    \E kept \in OpenTurns :
        LET older == {i \in OpenTurns : i < kept} IN
        older # {} /\ BeginCompaction(p, older)

NewlyCompacted(p) == compactions[p].plan \ ToSet(compactedIds)

\* The ids of turns in the order of the thread, which is the order of the ids.
InThreadOrder(ids) ==
    {seq \in [1 .. Cardinality(ids) -> ids] :
        /\ ToSet(seq) = ids
        /\ \A i, j \in DOMAIN seq : i < j => seq[i] < seq[j]}

WriteSummary(p) ==
    /\ NewlyCompacted(p) # {}
    /\ summary' = compactions[p].previous \cup compactions[p].messages
    /\ \E ids \in InThreadOrder(NewlyCompacted(p)) :
        compactedIds' = Newest(compactedIds \o ids, KeptTurns)
    /\ compactions' = [compactions EXCEPT ![p] = Unplanned]
    /\ UNCHANGED <<works, threadTurns, requests, intrusions>>

WriteSummaryIfCurrent(p) ==
    /\ compactions[p].active
    /\ summary = compactions[p].previous
    /\ WriteSummary(p)

\* The model fails or times out, the summary has moved on, or nothing is new.
DropCompaction(p) ==
    /\ compactions[p].active
    /\ compactions' = [compactions EXCEPT ![p] = Unplanned]
    /\ UNCHANGED <<works, threadTurns, summary, compactedIds, requests, intrusions>>

-----------------------------------------------------------------------------
ThreadNext ==
    \/ \E q \in Requests : ReadThread(q) \/ StartTurn(q) \/ RefuseTurn(q)
    \/ \E o \in Works : RetryTurn(o)
    \/ \E i \in DOMAIN threadTurns : RegenerateTurn(i) \/ AnswerTurn(i)
    \/ \E t \in Works, status \in {"completed", "failed", "waiting"}, choice \in BOOLEAN :
            FinishWork(t, status, choice)
    \/ EvictOldest
    \/ \E p \in Compactors :
            PlanCompaction(p) \/ WriteSummaryIfCurrent(p) \/ DropCompaction(p)

ThreadSpec == ThreadInit /\ [][ThreadNext]_threadVars

-----------------------------------------------------------------------------
(* Properties.                                                             *)

ThreadTypeOK ==
    /\ works \in [Works -> Work]
    /\ threadTurns \in Seq([id : TurnIds, task : Works]) /\ Len(threadTurns) <= KeptTurns
    /\ summary \subseteq Content
    /\ requests \in [Requests -> Seq(Memory)] /\ \A q \in Requests : Len(requests[q]) <= 1
    /\ compactedIds \in Seq(TurnIds) /\ Len(compactedIds) <= KeptTurns
    /\ compactions \in
          [Compactors -> [ active : BOOLEAN, previous : SUBSET Content,
                           plan : SUBSET TurnIds, messages : SUBSET Content ]]
    /\ intrusions \in 0..MaxIntrusions

\* A turn the thread still shows and no longer tells word by word is in the
\* summary, as answered by the task that answers it now: neither a compaction of
\* another process, nor a regeneration during the model call, nor the limit on
\* the compacted ids may lose or replace it.  (Its text may be newer: a choice in
\* the text of a completed turn can be answered after it was summarised.)
CompactedTurnsAreSummarised ==
    \A turn \in ToSet(threadTurns) :
        Contains(compactedIds, turn.id) =>
            \E c \in summary : c.turn = turn.id /\ c.task = turn.task

\* Nothing was retried, regenerated or answered, and no record pushed out: the
\* turns of the thread were worked on one after the other.
OneAfterTheOther == intrusions = 0 /\ \A t \in Works : works[t].parent = 0

\* What a task is given says no turn twice, once word by word and once in the
\* summary, though turns move from the one to the other while it is read: for as
\* long as the ids of all compacted turns are kept, and beyond that if turns were
\* worked on one after the other, which are then compacted in order, so that the
\* ids dropped are those of turns the thread shows no more.
NoTurnToldTwice ==
    Len(compactedIds) < KeptTurns \/ OneAfterTheOther =>
        \A q \in Requests : \A memory \in ToSet(requests[q]) :
            {c.turn : c \in memory.conversation} \cap {c.turn : c \in memory.summary} = {}

\* A turn that starts knows the turn before it word by word, if that one was
\* completed, unless it ended after the request had read the thread: whatever
\* was compacted, retried, answered or regenerated in between.
KnowsTheTurnBefore ==
    [][ \A q \in Requests :
          StartTurn(q) =>
            \A turn \in ToSet(Newest(threadTurns, 1)) :
                \/ works[turn.task].status # "completed"
                \/ turn.id \in requests[q][1].late
                \/ Says(turn) \in requests[q][1].conversation
      ]_threadVars
=============================================================================
