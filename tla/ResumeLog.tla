----------------------------- MODULE ResumeLog ------------------------------
(***************************************************************************)
(* What an interrupted writing task gives the run that resumes it: the     *)
(* text streamed so far, kept twice.  partialOutput is the output as last  *)
(* checkpointed; deltaRuns, if the log is enabled, the same text packed by *)
(* output segment and bounded by dropping its oldest segments.  A resumed  *)
(* run continues partialOutput, and is shown the tail of the log, or of    *)
(* partialOutput if there is no log.                                       *)
(*                                                                         *)
(* One task, one attempt.  A character is the number of its streaming, so  *)
(* a text is a sequence of numbers that grow.  Any number of runs may be   *)
(* alive (a worker that lost its lease goes on); TaskExecution says when.  *)
(***************************************************************************)
EXTENDS Naturals, Sequences, FiniteSets, SequencesExt

CONSTANTS
    ResumeRuns,     \* the runs of the task, each used once
    NoRun,
    MaxChars,       \* bound: characters streamed by all runs
    MaxPending,     \* bound: checkpoints of a run waiting for the store
    SegmentLimit,   \* outputSegmentMaxChars
    LogLimit,       \* DELTA_RUN_MAX_CHARS
    LogRunLimit,    \* DELTA_RUN_MAX_RUNS
    TailLimit       \* RESUME_TAIL_CHARS

\* A log that may hold no further segment still holds what a resumption shows:
\* 512 000 characters against 200 000 and 12 000.
ASSUME ResumeAssumption ==
    /\ {MaxChars, MaxPending, LogLimit} \subseteq Nat
    /\ {SegmentLimit, LogRunLimit, TailLimit} \subseteq Nat \ {0}
    /\ SegmentLimit + TailLimit <= LogLimit + 1

VARIABLES
    logEnabled,     \* YEMU_DELTA_RUN_LOG, the same in every process
    stored,         \* the task's record
    resumeRuns,     \* the executions' locals
    streamed        \* how many characters were streamed

resumeVars == <<logEnabled, stored, resumeRuns, streamed>>

Chars == 1..MaxChars

\* The packed segments, oldest first: their text, and the first character of each.
EmptyLog == [text |-> << >>, heads |-> {}]

FreshRun ==
    [ pc      |-> "unused",
      output  |-> << >>,    \* partialOutput, the local
      base    |-> 0,        \* length of checkpointOutput
      log     |-> EmptyLog,
      open    |-> 0,        \* characters of the open output segment
      pending |-> << >> ]   \* checkpointQueue: the outputs to be written

ResumeInit ==
    /\ logEnabled \in BOOLEAN
    /\ stored = [ status |-> "queued", owner |-> NoRun, recover |-> FALSE,
                  output |-> << >>, log |-> EmptyLog ]
    /\ resumeRuns = [r \in ResumeRuns |-> FreshRun]
    /\ streamed = 0

-----------------------------------------------------------------------------
(* delta-run-log                                                           *)

TailOf(text, n) == SubSeq(text, 1 + (IF Len(text) > n THEN Len(text) - n ELSE 0), Len(text))

\* The segments between two cuts.
Part(log, first, last) ==
    LET text == SubSeq(log.text, first, last) IN
    [text |-> text, heads |-> log.heads \cap ToSet(text)]

From(log, first) == Part(log, first, Len(log.text))

Fits(log) == Len(log.text) <= LogLimit /\ Cardinality(log.heads) <= LogRunLimit

\* Where a segment begins, or would begin.
Cuts(log) ==
    {i \in 1 .. Len(log.text) : log.text[i] \in log.heads} \cup {Len(log.text) + 1}

\* The limits forgotten.
Unbounded(log) == log

\* Everything is dropped when a limit is reached.
BoundedByClearing(log) == IF Fits(log) THEN log ELSE EmptyLog

\* What does not fit any more is not recorded: the oldest segments stay.
BoundedByRefusing(log) ==
    LET Start(cut) == Part(log, 1, cut - 1) IN
    Start(CHOOSE cut \in Cuts(log) :
              /\ Fits(Start(cut))
              /\ \A other \in Cuts(log) : Fits(Start(other)) => other <= cut)

\* dropOldest: the newest segments that fit.
Bounded(log) ==
    From(log, CHOOSE first \in Cuts(log) :
                 /\ Fits(From(log, first))
                 /\ \A cut \in Cuts(log) : Fits(From(log, cut)) => first <= cut)

Record(log, c, opens) ==
    Bounded([ text  |-> Append(log.text, c),
              heads |-> IF opens \/ log.text = << >> THEN log.heads \cup {c} ELSE log.heads ])

\* resumeAssistantTail
ResumeTail(record) ==
    IF record.log.text # << >> THEN TailOf(record.log.text, TailLimit)
    ELSE TailOf(record.output, TailLimit)

-----------------------------------------------------------------------------
OwnsStored(r) == stored.status = "running" /\ stored.owner = r

\* The claim of a queued task, or the takeover of a running one: resumption in
\* the second case and after an abort, shown ResumeTail(stored).  No earlier text is
\* left otherwise.
ClaimRun(r) ==
    LET recover == stored.recover \/ stored.status = "running"
        output  == IF recover THEN stored.output ELSE << >> IN
    /\ resumeRuns[r].pc = "unused"
    /\ stored.status \in {"queued", "running"}
    /\ stored' = [stored EXCEPT !.status = "running", !.owner = r, !.recover = FALSE,
                                !.output = output]
    /\ resumeRuns' = [resumeRuns EXCEPT ![r].pc = "running", ![r].output = output,
                                      ![r].base = Len(output)]
    /\ UNCHANGED <<logEnabled, streamed>>

\* flushOutputSegment: one character, in the open segment or in a new one.
StreamChar(r, opens) ==
    LET run  == resumeRuns[r]
        open == IF opens THEN 0 ELSE run.open
        c    == streamed + 1 IN
    /\ run.pc = "running"
    /\ opens \/ run.open > 0
    /\ open < SegmentLimit
    /\ c \in Chars
    /\ streamed' = c
    /\ resumeRuns' = [resumeRuns EXCEPT
                        ![r].output = Append(@, c),
                        ![r].open   = open + 1,
                        ![r].log    = IF logEnabled THEN Record(@, c, opens) ELSE @]
    /\ UNCHANGED <<logEnabled, stored>>

\* flushCheckpoint takes the output as it is now ...
FlushCheckpoint(r) ==
    LET run == resumeRuns[r] IN
    /\ run.pc = "running"
    /\ Len(run.pending) < MaxPending
    /\ run.output # (IF run.pending = << >> THEN stored.output ELSE Last(run.pending))
    /\ resumeRuns' = [resumeRuns EXCEPT ![r].pending = Append(@, run.output)]
    /\ UNCHANGED <<logEnabled, stored, streamed>>

\* ... and its transaction the log as it is then.
WriteCheckpoint(r) ==
    LET run == resumeRuns[r] IN
    /\ run.pending # << >>
    /\ stored' = IF OwnsStored(r)
                 THEN [stored EXCEPT !.output = Head(run.pending),
                                     !.log = IF logEnabled THEN run.log ELSE @]
                 ELSE stored
    /\ resumeRuns' = [resumeRuns EXCEPT ![r].pending = Tail(@)]
    /\ UNCHANGED <<logEnabled, streamed>>

EndRun(r) == resumeRuns' = [resumeRuns EXCEPT ![r] = [FreshRun EXCEPT !.pc = "done"]]

\* The final transaction drops the log before it looks whose task it is.
FinishRun(r) ==
    /\ resumeRuns[r].pc = "running"
    /\ resumeRuns[r].pending = << >>
    /\ LET cleared == [stored EXCEPT !.log = IF logEnabled THEN EmptyLog ELSE @] IN
       stored' = IF OwnsStored(r)
                 THEN [cleared EXCEPT !.status = "finished", !.owner = NoRun,
                                      !.output = resumeRuns[r].output]
                 ELSE cleared
    /\ EndRun(r)
    /\ UNCHANGED <<logEnabled, streamed>>

\* Aborted by a shutdown: the task waits for its next claim; or superseded.
AbortRun(r) ==
    /\ resumeRuns[r].pc = "running"
    /\ stored' = IF OwnsStored(r)
                 THEN [stored EXCEPT !.status = "queued", !.owner = NoRun, !.recover = TRUE]
                 ELSE stored
    /\ EndRun(r)
    /\ UNCHANGED <<logEnabled, streamed>>

\* The process dies; the record stays as last written.
LoseRun(r) ==
    /\ resumeRuns[r].pc = "running"
    /\ EndRun(r)
    /\ UNCHANGED <<logEnabled, stored, streamed>>

ResumeNext ==
    \E r \in ResumeRuns :
        \/ ClaimRun(r)
        \/ \E opens \in BOOLEAN : StreamChar(r, opens)
        \/ FlushCheckpoint(r) \/ WriteCheckpoint(r)
        \/ FinishRun(r) \/ AbortRun(r) \/ LoseRun(r)

ResumeSpec == ResumeInit /\ [][ResumeNext]_resumeVars

-----------------------------------------------------------------------------
(* Properties.                                                             *)

Increasing(text) == \A i, j \in DOMAIN text : i < j => text[i] < text[j]

ResumeTypeOK ==
    /\ stored.status \in {"queued", "running", "finished"}
    /\ stored.owner \in ResumeRuns \cup {NoRun}
    /\ Increasing(stored.output) /\ Increasing(stored.log.text)
    /\ \A r \in ResumeRuns : Fits(resumeRuns[r].log)

\* Whatever happens to the run that works, its successor is shown a text that
\* ends where the output it has to continue ends, or later, and has no hole up
\* to there: whichever run wrote it, whichever copy of the text is used, and
\* although a superseded run deletes its successor's log.
SuccessorKnowsTheEnd ==
    (stored.status = "running" \/ stored.recover) /\ stored.output # << >> =>
        LET tail == ResumeTail(stored) IN
        /\ tail # << >>
        /\ Last(tail) >= Last(stored.output)
        /\ \A c \in ToSet(stored.output) : c >= Head(tail) => c \in ToSet(tail)

\* However often the limits make the log drop segments, what is left is the end
\* of the run's text without a hole, and as much of it as a resumption shows, or
\* at least a character for every segment the log may hold.
LogKeepsTheTail ==
    \A r \in ResumeRuns :
        LET run == resumeRuns[r]
            own == Len(run.output) - run.base IN
        logEnabled /\ run.pc = "running" =>
            /\ run.log.text = TailOf(run.output, Len(run.log.text))
            /\ \E least \in {own, TailLimit, LogRunLimit} : Len(run.log.text) >= least

\* What a resumed run is shown as already written is in the output it continues:
\* the log is "never a second source of truth" (delta-run-log.mjs).
LogIsNoSecondTruth ==
    stored.status = "running" \/ stored.recover =>
        ToSet(ResumeTail(stored)) \subseteq ToSet(stored.output)
=============================================================================
