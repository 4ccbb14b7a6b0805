------------------------------ MODULE AiQuota -------------------------------
(***************************************************************************)
(* What one user may ask of the models: a number of calls a day and a      *)
(* number at a time.  A direct call reserves a usage event, calls, and     *)
(* completes the event; a call whose process dies, or that runs for long,  *)
(* stops counting when its lease ends.  A queued task counts once a day    *)
(* per provider call and is active as long as its record says so.          *)
(*                                                                         *)
(* Time passes in ticks.  Abstracted: the 30 days and 20 000 events of all *)
(* users after which the oldest events are dropped.                        *)
(***************************************************************************)
EXTENDS Naturals, Sequences, FiniteSets

CONSTANTS
    DailyLimit,         \* AI_DAILY_REQUEST_LIMIT, 0: none
    ConcurrentLimit,    \* AI_CONCURRENT_REQUEST_LIMIT
    Lease,              \* ticks a call counts without being completed
    Day,                \* ticks a use counts
    Calls,              \* direct calls, each made once
    QuotaTasks,         \* writing tasks
    ProviderCalls,      \* uses a multi-agent task records
    MaxTime             \* bound: the clock

ASSUME AiQuotaAssumption ==
    /\ {DailyLimit, ConcurrentLimit, Lease, Day, MaxTime} \subseteq Nat
    /\ ProviderCalls \in Nat \ {0}
    /\ IsFiniteSet(Calls) /\ IsFiniteSet(QuotaTasks)

VARIABLES
    clock,
    calls,      \* per direct call: its event, and the process that makes it
    uses,       \* db.aiUsage of the tasks: when each was recorded
    quotaTasks  \* the tasks' records: "none", "active", "waiting", "over"

quotaVars == <<clock, calls, uses, quotaTasks>>

-----------------------------------------------------------------------------
Moments == 0..MaxTime

\* pc: "calling" while the callback runs; event: "open", or "closed" once
\* completedAt is written.
Call ==
    [ pc : {"unmade", "calling", "answered", "over", "lost"},
      event : {"none", "open", "closed"}, at : Moments ]

Within(at, span) == at + span >= clock

CallsIn(span) == {c \in Calls : calls[c].event # "none" /\ Within(calls[c].at, span)}

UsesIn(span) == {i \in DOMAIN uses : Within(uses[i], span)}

\* aiUsageSummary
Used == Cardinality(CallsIn(Day)) + Cardinality(UsesIn(Day))

ActiveTasks == {t \in QuotaTasks : quotaTasks[t] = "active"}

Active ==
    Cardinality({c \in CallsIn(Lease) : calls[c].event = "open"}) + Cardinality(ActiveTasks)

\* The tasks are left out of the count.
CapacityWithoutTasks(extra) ==
    /\ DailyLimit = 0 \/ Used + extra < DailyLimit
    /\ Cardinality({c \in CallsIn(Lease) : calls[c].event = "open"}) < ConcurrentLimit

\* Only the first provider call is checked.
CapacityOfFirst(extra) ==
    /\ DailyLimit = 0 \/ Used < DailyLimit
    /\ Active < ConcurrentLimit

\* assertAiCapacity, when extra uses were recorded by the same transaction.
Capacity(extra) ==
    /\ DailyLimit = 0 \/ Used + extra < DailyLimit
    /\ Active < ConcurrentLimit

QuotaInit ==
    /\ clock = 0
    /\ calls = [c \in Calls |-> [pc |-> "unmade", event |-> "none", at |-> 0]]
    /\ uses = << >>
    /\ quotaTasks = [t \in QuotaTasks |-> "none"]

-----------------------------------------------------------------------------
(* runWithAiQuota                                                          *)

ReserveCall(c) ==
    /\ calls[c].pc = "unmade"
    /\ Capacity(0)
    /\ calls' = [calls EXCEPT ![c] = [pc |-> "calling", event |-> "open", at |-> clock]]
    /\ UNCHANGED <<clock, uses, quotaTasks>>

\* The callback returns or throws; either way the event is to be completed.
AnswerCall(c) ==
    /\ calls[c].pc = "calling"
    /\ calls' = [calls EXCEPT ![c].pc = "answered"]
    /\ UNCHANGED <<clock, uses, quotaTasks>>

CompleteCall(c) ==
    /\ calls[c].pc = "answered"
    /\ calls' = [calls EXCEPT ![c].pc = "over", ![c].event = "closed"]
    /\ UNCHANGED <<clock, uses, quotaTasks>>

\* The store refuses the completion, or the process dies before it: the event
\* stays open.
LoseCall(c) ==
    /\ calls[c].pc \in {"calling", "answered"}
    /\ calls' = [calls EXCEPT ![c].pc = "lost"]
    /\ UNCHANGED <<clock, uses, quotaTasks>>

-----------------------------------------------------------------------------
(* Tasks: recordQueuedAiUsage, once per provider call, with the change of   *)
(* the record in one transaction that a refusal undoes.                     *)

RecordUses(n) ==
    /\ \A k \in 0 .. n - 1 : Capacity(k)
    /\ uses' = uses \o [i \in 1..n |-> clock]

\* startWritingTask, regenerateAgentTurn, retry.
QueueTask(t, n) ==
    /\ quotaTasks[t] = "none"
    /\ RecordUses(n)
    /\ quotaTasks' = [quotaTasks EXCEPT ![t] = "active"]
    /\ UNCHANGED <<clock, calls>>

\* The first steer of a run pays for the run that will hear it.
SteerTask(t, n) ==
    /\ quotaTasks[t] = "active"
    /\ RecordUses(n)
    /\ UNCHANGED <<clock, calls, quotaTasks>>

\* resumeAgentTurnWithInput
ResumeTask(t) ==
    /\ quotaTasks[t] = "waiting"
    /\ RecordUses(1)
    /\ quotaTasks' = [quotaTasks EXCEPT ![t] = "active"]
    /\ UNCHANGED <<clock, calls>>

\* The execution ends, or the task is stopped.
EndTask(t, status) ==
    /\ quotaTasks[t] = "active"
    /\ quotaTasks' = [quotaTasks EXCEPT ![t] = status]
    /\ UNCHANGED <<clock, calls, uses>>

QuotaTick ==
    /\ clock < MaxTime
    /\ clock' = clock + 1
    /\ UNCHANGED <<calls, uses, quotaTasks>>

QuotaNext ==
    \/ \E c \in Calls : ReserveCall(c) \/ AnswerCall(c) \/ CompleteCall(c) \/ LoseCall(c)
    \/ \E t \in QuotaTasks :
        \/ \E n \in {1, ProviderCalls} : QueueTask(t, n) \/ SteerTask(t, n)
        \/ ResumeTask(t)
        \/ \E status \in {"waiting", "over"} : EndTask(t, status)
    \/ QuotaTick

QuotaSpec == QuotaInit /\ [][QuotaNext]_quotaVars

-----------------------------------------------------------------------------
(* Properties.                                                             *)

QuotaTypeOK ==
    /\ clock \in Moments
    /\ calls \in [Calls -> Call]
    /\ \A c \in Calls : calls[c].event = "closed" <=> calls[c].pc = "over"
    /\ uses \in Seq(Moments)
    /\ quotaTasks \in [QuotaTasks -> {"none", "active", "waiting", "over"}]

\* In no span of a day does the user make more uses than the limit, though a
\* task pays for all of its provider calls at once, steers and answers pay again
\* and a call that died is never given back.
NoDayOverLimit ==
    DailyLimit > 0 =>
        \A now \in Moments :
            LET InDay(at) == at <= now /\ at + Day >= now IN
            Cardinality({c \in Calls : calls[c].event # "none" /\ InDay(calls[c].at)})
              + Cardinality({i \in DOMAIN uses : InDay(uses[i])})
              <= DailyLimit

\* The tasks that work and the calls that are under way and not older than a
\* lease are never more than the limit, whoever starts them: a new task, an
\* answer that wakes one, a direct call.
NeverMoreAtOnce ==
    Cardinality(ActiveTasks)
      + Cardinality({c \in CallsIn(Lease) : calls[c].pc \in {"calling", "answered"}})
      <= ConcurrentLimit
=============================================================================
