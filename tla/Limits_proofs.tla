---------------------------- MODULE Limits_proofs ----------------------------
(***************************************************************************)
(* What is guaranteed where something is limited: by the AI quota and the  *)
(* delta run log, for every set of calls, tasks and runs, every limit,     *)
(* lease and length (no day and no moment over its limit; and a log that,  *)
(* whatever its limits made it drop, ends and goes back as far as a        *)
(* resumption needs); and by the memory of a thread, for threads of any    *)
(* length, any limits and any number of processes and requests.            *)
(***************************************************************************)
EXTENDS AiQuota, ResumeLog, ThreadMemory, FiniteSetTheorems, WellFoundedInduction, TLAPS

(***************************************************************************)
(* AiQuota.                                                                *)
(***************************************************************************)

\* A call that is under way has an open event.
CallsAreOpen ==
    \A c \in Calls : calls[c].pc \in {"calling", "answered"} => calls[c].event = "open"

QuotaInv == QuotaTypeOK /\ CallsAreOpen /\ NeverMoreAtOnce

CallsUnderWay == {c \in CallsIn(Lease) : calls[c].pc \in {"calling", "answered"}}
OpenCalls == {c \in CallsIn(Lease) : calls[c].event = "open"}

-----------------------------------------------------------------------------
LEMMA Finite ==
    /\ \A S \in SUBSET Calls : IsFiniteSet(S) /\ Cardinality(S) \in Nat
    /\ \A S \in SUBSET QuotaTasks : IsFiniteSet(S) /\ Cardinality(S) \in Nat
  BY AiQuotaAssumption, FS_Subset, FS_CardinalityType

\* What is counted is never less than what is under way.
LEMMA ActiveCounts ==
    ASSUME CallsAreOpen
    PROVE  /\ CallsUnderWay \in SUBSET OpenCalls /\ OpenCalls \in SUBSET Calls
           /\ ActiveTasks \in SUBSET QuotaTasks
           /\ Cardinality(CallsUnderWay) \in Nat /\ Cardinality(OpenCalls) \in Nat
           /\ Cardinality(ActiveTasks) \in Nat
           /\ Cardinality(CallsUnderWay) <= Cardinality(OpenCalls)
           /\ Active = Cardinality(OpenCalls) + Cardinality(ActiveTasks)
<1>1. CallsUnderWay \in SUBSET OpenCalls /\ OpenCalls \in SUBSET Calls
  BY DEF CallsUnderWay, OpenCalls, CallsIn, CallsAreOpen
<1>2. ActiveTasks \in SUBSET QuotaTasks
  BY DEF ActiveTasks
<1>3. Cardinality(CallsUnderWay) <= Cardinality(OpenCalls)
  BY <1>1, Finite, FS_Subset
<1> QED
  BY <1>1, <1>2, <1>3, Finite DEF Active, OpenCalls


\* A step that starts no call and no task.
LEMMA NothingStarts ==
    ASSUME QuotaInv, QuotaTypeOK', CallsAreOpen', clock' >= clock,
           \A c \in Calls : calls'[c].pc \in {"calling", "answered"} =>
               calls[c].pc \in {"calling", "answered"} /\ calls'[c].at = calls[c].at,
           \A t \in QuotaTasks : quotaTasks'[t] = "active" => quotaTasks[t] = "active"
    PROVE  QuotaInv'
<1>1. clock \in Nat /\ clock' \in Nat /\ \A c \in Calls : calls[c].at \in Nat
  BY DEF QuotaInv, QuotaTypeOK, Moments, Call
<1>2. CallsUnderWay' \in SUBSET CallsUnderWay
  <2> SUFFICES ASSUME NEW c \in Calls, c \in CallsUnderWay' PROVE c \in CallsUnderWay
    BY DEF CallsUnderWay, CallsIn
  <2>1. /\ calls'[c].pc \in {"calling", "answered"} /\ calls'[c].at + Lease >= clock'
    BY DEF CallsUnderWay, CallsIn, Within
  <2>2. calls[c].at + Lease >= clock
    BY <1>1, <2>1, AiQuotaAssumption
  <2>3. calls[c].event = "open"
    BY <2>1 DEF QuotaInv, CallsAreOpen
  <2> QED
    BY <2>1, <2>2, <2>3 DEF CallsUnderWay, CallsIn, Within
<1>3. ActiveTasks' \in SUBSET ActiveTasks
  BY DEF ActiveTasks
<1>4. Cardinality(CallsUnderWay') <= Cardinality(CallsUnderWay)
      /\ Cardinality(CallsUnderWay') \in Nat
  BY <1>2, ActiveCounts, Finite, FS_Subset DEF QuotaInv
<1>5. Cardinality(ActiveTasks') <= Cardinality(ActiveTasks) /\ Cardinality(ActiveTasks') \in Nat
  BY <1>3, ActiveCounts, Finite, FS_Subset DEF QuotaInv
<1>6. Cardinality(ActiveTasks) + Cardinality(CallsUnderWay) <= ConcurrentLimit
  BY DEF QuotaInv, NeverMoreAtOnce, CallsUnderWay
<1>7. Cardinality(ActiveTasks') + Cardinality(CallsUnderWay') <= ConcurrentLimit
  BY <1>4, <1>5, <1>6, ActiveCounts, AiQuotaAssumption DEF QuotaInv
<1> QED
  BY <1>7 DEF QuotaInv, NeverMoreAtOnce, CallsUnderWay

LEMMA UsesKeepTheirType ==
    ASSUME QuotaTypeOK, NEW n \in Nat, uses' = uses \o [i \in 1..n |-> clock]
    PROVE  uses' \in Seq(Moments)
<1>1. [i \in 1..n |-> clock] \in Seq(Moments)
  BY DEF QuotaTypeOK
<1> QED
  BY <1>1 DEF QuotaTypeOK

LEMMA ReserveCallStep ==
    ASSUME QuotaInv, NEW c \in Calls, ReserveCall(c)
    PROVE  QuotaInv'
<1> DEFINE call == [pc |-> "calling", event |-> "open", at |-> clock]
<1>1. /\ calls' = [calls EXCEPT ![c] = call] /\ Active < ConcurrentLimit
      /\ UNCHANGED <<clock, uses, quotaTasks>>
  BY DEF ReserveCall, Capacity
<1>2. call \in Call /\ call.pc = "calling" /\ call.event = "open"
  BY DEF QuotaInv, QuotaTypeOK, Call
<1> HIDE DEF call
<1>3. calls'[c] = call /\ \A d \in Calls : d # c => calls'[d] = calls[d]
  BY <1>1 DEF QuotaInv, QuotaTypeOK
<1>4. QuotaTypeOK'
  BY <1>1, <1>2, <1>3 DEF QuotaInv, QuotaTypeOK
<1>5. CallsAreOpen'
  BY <1>2, <1>3 DEF QuotaInv, CallsAreOpen
<1>6. CallsUnderWay' \in SUBSET (CallsUnderWay \cup {c})
  BY <1>1, <1>3 DEF CallsUnderWay, CallsIn, Within
<1>7. /\ Cardinality(CallsUnderWay') <= Cardinality(CallsUnderWay) + 1
      /\ Cardinality(CallsUnderWay') \in Nat
  <2>1. IsFiniteSet(CallsUnderWay) /\ CallsUnderWay \cup {c} \in SUBSET Calls
    BY ActiveCounts, Finite DEF QuotaInv
  <2>2. Cardinality(CallsUnderWay \cup {c}) <= Cardinality(CallsUnderWay) + 1
    BY <2>1, ActiveCounts, FS_AddElement DEF QuotaInv
  <2>3. /\ Cardinality(CallsUnderWay') <= Cardinality(CallsUnderWay \cup {c})
        /\ Cardinality(CallsUnderWay') \in Nat
        /\ Cardinality(CallsUnderWay \cup {c}) \in Nat
    BY <1>6, <2>1, Finite, FS_Subset
  <2> QED
    BY <2>2, <2>3, ActiveCounts DEF QuotaInv
<1>8. ActiveTasks' = ActiveTasks
  BY <1>1 DEF ActiveTasks
<1>9. Cardinality(ActiveTasks') + Cardinality(CallsUnderWay') <= ConcurrentLimit
  BY <1>1, <1>7, <1>8, ActiveCounts, AiQuotaAssumption DEF QuotaInv
<1> QED
  BY <1>4, <1>5, <1>9 DEF QuotaInv, NeverMoreAtOnce, CallsUnderWay

\* A call ends, or goes on: its event stays open while it is under way.
LEMMA CallGoesOn ==
    ASSUME QuotaInv, NEW c \in Calls, NEW pc \in {"answered", "over", "lost"},
           NEW event \in {"open", "closed"}, event = "closed" <=> pc = "over",
           calls[c].pc \in {"calling", "answered"},
           calls' = [calls EXCEPT ![c] = [calls[c] EXCEPT !.pc = pc, !.event = event]],
           UNCHANGED <<clock, uses, quotaTasks>>
    PROVE  QuotaInv'
<1> DEFINE call == [calls[c] EXCEPT !.pc = pc, !.event = event]
<1>1. calls[c] \in Call /\ calls[c].event = "open"
  BY DEF QuotaInv, QuotaTypeOK, CallsAreOpen
<1>2. call \in Call /\ call.pc = pc /\ call.event = event /\ call.at = calls[c].at
  BY <1>1 DEF Call
<1>3. calls' = [calls EXCEPT ![c] = call]
  OBVIOUS
<1> HIDE DEF call
<1>4. calls'[c] = call /\ \A d \in Calls : d # c => calls'[d] = calls[d]
  BY <1>3 DEF QuotaInv, QuotaTypeOK
<1>5. QuotaTypeOK'
  <2>1. calls' \in [Calls -> Call]
    BY <1>2, <1>3 DEF QuotaInv, QuotaTypeOK
  <2>2. \A d \in Calls : calls'[d].event = "closed" <=> calls'[d].pc = "over"
    BY <1>2, <1>4 DEF QuotaInv, QuotaTypeOK
  <2> QED
    BY <2>1, <2>2 DEF QuotaInv, QuotaTypeOK
<1>6. CallsAreOpen'
  BY <1>2, <1>4 DEF QuotaInv, CallsAreOpen
<1>7. \A d \in Calls : calls'[d].pc \in {"calling", "answered"} =>
          calls[d].pc \in {"calling", "answered"} /\ calls'[d].at = calls[d].at
  BY <1>2, <1>4
<1>8. clock' >= clock
  BY DEF QuotaInv, QuotaTypeOK, Moments
<1> QED
  BY <1>5, <1>6, <1>7, <1>8, NothingStarts

\* A task starts to work after it was counted.
LEMMA TaskStarts ==
    ASSUME QuotaInv, NEW t \in QuotaTasks, NEW n \in Nat \ {0}, RecordUses(n),
           quotaTasks' = [quotaTasks EXCEPT ![t] = "active"], UNCHANGED <<clock, calls>>
    PROVE  QuotaInv'
<1>1. uses' = uses \o [i \in 1..n |-> clock] /\ Active < ConcurrentLimit
  <2>1. 0 \in 0 .. n - 1
    OBVIOUS
  <2> QED
    BY <2>1 DEF RecordUses, Capacity
<1>2. QuotaTypeOK'
  BY <1>1, UsesKeepTheirType DEF QuotaInv, QuotaTypeOK
<1>3. CallsAreOpen'
  BY DEF QuotaInv, CallsAreOpen
<1>4. CallsUnderWay' = CallsUnderWay
  BY DEF CallsUnderWay, CallsIn, Within
<1>5. ActiveTasks' \in SUBSET (ActiveTasks \cup {t})
  BY DEF QuotaInv, QuotaTypeOK, ActiveTasks
<1>6. /\ Cardinality(ActiveTasks') <= Cardinality(ActiveTasks) + 1
      /\ Cardinality(ActiveTasks') \in Nat
  <2>1. IsFiniteSet(ActiveTasks) /\ ActiveTasks \cup {t} \in SUBSET QuotaTasks
    BY ActiveCounts, Finite DEF QuotaInv
  <2>2. Cardinality(ActiveTasks \cup {t}) <= Cardinality(ActiveTasks) + 1
    BY <2>1, ActiveCounts, FS_AddElement DEF QuotaInv
  <2>3. /\ Cardinality(ActiveTasks') <= Cardinality(ActiveTasks \cup {t})
        /\ Cardinality(ActiveTasks') \in Nat
        /\ Cardinality(ActiveTasks \cup {t}) \in Nat
    BY <1>5, <2>1, Finite, FS_Subset
  <2> QED
    BY <2>2, <2>3, ActiveCounts DEF QuotaInv
<1>7. Cardinality(ActiveTasks') + Cardinality(CallsUnderWay') <= ConcurrentLimit
  BY <1>1, <1>4, <1>6, ActiveCounts, AiQuotaAssumption DEF QuotaInv
<1> QED
  BY <1>2, <1>3, <1>7 DEF QuotaInv, NeverMoreAtOnce, CallsUnderWay

-----------------------------------------------------------------------------
LEMMA QuotaInitInv == QuotaInit => QuotaInv
<1> SUFFICES ASSUME QuotaInit PROVE QuotaInv
  OBVIOUS
<1>1. QuotaTypeOK
  BY AiQuotaAssumption DEF QuotaInit, QuotaTypeOK, Moments, Call
<1>2. CallsAreOpen
  BY DEF QuotaInit, CallsAreOpen
<1>3. ActiveTasks = {} /\ CallsUnderWay = {}
  BY DEF QuotaInit, ActiveTasks, CallsUnderWay, CallsIn
<1>4. Cardinality(ActiveTasks) + Cardinality(CallsUnderWay) <= ConcurrentLimit
  BY <1>3, FS_EmptySet, AiQuotaAssumption
<1> QED
  BY <1>1, <1>2, <1>4 DEF QuotaInv, NeverMoreAtOnce, CallsUnderWay

LEMMA QuotaNextInv == QuotaInv /\ [QuotaNext]_quotaVars => QuotaInv'
<1> SUFFICES ASSUME QuotaInv, [QuotaNext]_quotaVars PROVE QuotaInv'
  OBVIOUS
<1>1. CASE UNCHANGED quotaVars
  BY <1>1 DEF quotaVars, QuotaInv, QuotaTypeOK, CallsAreOpen, NeverMoreAtOnce, ActiveTasks,
              CallsIn, Within
<1>2. ASSUME NEW c \in Calls, ReserveCall(c) PROVE QuotaInv'
  BY <1>2, ReserveCallStep
<1>3. ASSUME NEW c \in Calls, AnswerCall(c) \/ CompleteCall(c) \/ LoseCall(c) PROVE QuotaInv'
  <2>1. /\ calls[c] \in Call /\ calls \in [Calls -> Call]
        /\ calls[c].pc \in {"calling", "answered"} /\ calls[c].event = "open"
        /\ UNCHANGED <<clock, uses, quotaTasks>>
    BY <1>3 DEF AnswerCall, CompleteCall, LoseCall, QuotaInv, QuotaTypeOK, CallsAreOpen
  <2>2. ASSUME NEW pc \in {"answered", "lost"}, calls' = [calls EXCEPT ![c].pc = pc]
        PROVE  QuotaInv'
    <3>1. [calls[c] EXCEPT !.pc = pc] = [calls[c] EXCEPT !.pc = pc, !.event = "open"]
      BY <2>1 DEF Call
    <3>2. calls' = [calls EXCEPT ![c] = [calls[c] EXCEPT !.pc = pc, !.event = "open"]]
      BY <2>2, <3>1
    <3> QED
      BY <2>1, <3>2, CallGoesOn
  <2>3. ASSUME calls' = [calls EXCEPT ![c].pc = "over", ![c].event = "closed"]
        PROVE  QuotaInv'
    <3>1. calls' = [calls EXCEPT ![c] = [calls[c] EXCEPT !.pc = "over", !.event = "closed"]]
      BY <2>1, <2>3
    <3> QED
      BY <2>1, <3>1, CallGoesOn
  <2> QED
    BY <1>3, <2>2, <2>3 DEF AnswerCall, CompleteCall, LoseCall
<1>4. ASSUME NEW t \in QuotaTasks, NEW n \in {1, ProviderCalls},
             QueueTask(t, n) \/ SteerTask(t, n)
      PROVE  QuotaInv'
  <2>1. n \in Nat \ {0}
    BY AiQuotaAssumption
  <2>2. CASE QueueTask(t, n)
    BY <2>1, <2>2, TaskStarts DEF QueueTask
  <2>3. CASE SteerTask(t, n)
    <3>1. quotaTasks' = [quotaTasks EXCEPT ![t] = "active"]
      BY <2>3 DEF SteerTask, QuotaInv, QuotaTypeOK
    <3> QED
      BY <2>1, <2>3, <3>1, TaskStarts DEF SteerTask
  <2> QED
    BY <1>4, <2>2, <2>3
<1>5. ASSUME NEW t \in QuotaTasks, ResumeTask(t) PROVE QuotaInv'
  <2>1. 1 \in Nat \ {0}
    OBVIOUS
  <2> QED
    BY <1>5, <2>1, TaskStarts DEF ResumeTask
<1>6. ASSUME NEW t \in QuotaTasks, NEW status \in {"waiting", "over"}, EndTask(t, status)
      PROVE  QuotaInv'
  <2>1. /\ quotaTasks' = [quotaTasks EXCEPT ![t] = status]
        /\ UNCHANGED <<clock, calls, uses>>
    BY <1>6 DEF EndTask
  <2>2. QuotaTypeOK' /\ CallsAreOpen'
    BY <2>1 DEF QuotaInv, QuotaTypeOK, CallsAreOpen
  <2>3. \A s \in QuotaTasks : quotaTasks'[s] = "active" => quotaTasks[s] = "active"
    BY <2>1 DEF QuotaInv, QuotaTypeOK
  <2>4. clock' >= clock
    BY <2>1 DEF QuotaInv, QuotaTypeOK, Moments
  <2> QED
    BY <2>1, <2>2, <2>3, <2>4, NothingStarts
<1>7. CASE QuotaTick
  <2>1. /\ clock < MaxTime /\ clock' = clock + 1 /\ UNCHANGED <<calls, uses, quotaTasks>>
    BY <1>7 DEF QuotaTick
  <2>2. clock' \in Moments /\ clock' >= clock
    BY <2>1, AiQuotaAssumption DEF QuotaInv, QuotaTypeOK, Moments
  <2>3. QuotaTypeOK' /\ CallsAreOpen'
    BY <2>1, <2>2 DEF QuotaInv, QuotaTypeOK, CallsAreOpen
  <2> QED
    BY <2>1, <2>2, <2>3, NothingStarts
<1> QED
  BY <1>1, <1>2, <1>3, <1>4, <1>5, <1>6, <1>7 DEF QuotaNext

-----------------------------------------------------------------------------
(* The day's limit: what the next moments see was counted when it was recorded. *)

CallsOn(now) ==
    {c \in Calls : calls[c].event # "none" /\ calls[c].at <= now /\ calls[c].at + Day >= now}

UsesOn(now) == {i \in DOMAIN uses : uses[i] <= now /\ uses[i] + Day >= now}

DayInv ==
    /\ \A c \in Calls : calls[c].event # "none" => calls[c].at <= clock
    /\ \A i \in DOMAIN uses : uses[i] <= clock
    /\ NoDayOverLimit

LEMMA UsesAreMoments ==
    ASSUME QuotaTypeOK
    PROVE  /\ Len(uses) \in Nat /\ DOMAIN uses = 1 .. Len(uses)
           /\ \A i \in DOMAIN uses : uses[i] \in Nat
<1>1. uses \in Seq(Moments)
  BY DEF QuotaTypeOK
<1>2. \A i \in DOMAIN uses : uses[i] \in Moments
  BY <1>1
<1> QED
  BY <1>1, <1>2 DEF Moments

LEMMA Appended ==
    ASSUME NEW S, NEW s \in Seq(S), NEW n \in Nat, NEW x \in S
    PROVE  LET t == s \o [i \in 1..n |-> x] IN
           /\ DOMAIN t = 1 .. Len(s) + n
           /\ \A i \in 1 .. Len(s) : t[i] = s[i]
           /\ \A i \in Len(s) + 1 .. Len(s) + n : t[i] = x
<1> DEFINE more == [i \in 1..n |-> x]
<1>1. more \in Seq(S) /\ Len(more) = n /\ \A i \in 1..n : more[i] = x
  OBVIOUS
<1> HIDE DEF more
<1>2. DOMAIN (s \o more) = 1 .. Len(s) + n /\ \A i \in 1 .. Len(s) : (s \o more)[i] = s[i]
  BY <1>1
<1>3. ASSUME NEW i \in Len(s) + 1 .. Len(s) + n PROVE (s \o more)[i] = x
  <2>1. (s \o more)[i] = more[i - Len(s)] /\ i - Len(s) \in 1..n
    BY <1>1
  <2> QED
    BY <1>1, <2>1
<1> QED
  BY <1>2, <1>3 DEF more

LEMMA DayCounts ==
    ASSUME QuotaTypeOK, NEW now
    PROVE  /\ IsFiniteSet(CallsOn(now)) /\ Cardinality(CallsOn(now)) \in Nat
           /\ IsFiniteSet(UsesOn(now)) /\ Cardinality(UsesOn(now)) \in Nat
           /\ IsFiniteSet(CallsIn(Day)) /\ Cardinality(CallsIn(Day)) \in Nat
           /\ IsFiniteSet(UsesIn(Day)) /\ Cardinality(UsesIn(Day)) \in Nat
<1>1. CallsOn(now) \in SUBSET Calls /\ CallsIn(Day) \in SUBSET Calls
  BY DEF CallsOn, CallsIn
<1>2. DOMAIN uses = 1 .. Len(uses) /\ Len(uses) \in Nat
  BY DEF QuotaTypeOK
<1>3. IsFiniteSet(1 .. Len(uses))
  BY <1>2, FS_Interval
<1>4. UsesOn(now) \in SUBSET (1 .. Len(uses)) /\ UsesIn(Day) \in SUBSET (1 .. Len(uses))
  BY <1>2 DEF UsesOn, UsesIn
<1> QED
  BY <1>1, <1>3, <1>4, Finite, FS_Subset, FS_CardinalityType

\* A day that holds this moment or begins after it has nothing that is not counted now.
LEMMA LaterDaysAreCounted ==
    ASSUME QuotaTypeOK, DayInv, NEW now \in Moments, now >= clock
    PROVE  /\ Cardinality(CallsOn(now)) <= Cardinality(CallsIn(Day))
           /\ Cardinality(UsesOn(now)) <= Cardinality(UsesIn(Day))
<1>1. now \in Nat /\ clock \in Nat /\ Day \in Nat
  BY AiQuotaAssumption DEF QuotaTypeOK, Moments
<1>2. CallsOn(now) \subseteq CallsIn(Day)
  <2> SUFFICES ASSUME NEW c \in CallsOn(now) PROVE c \in CallsIn(Day)
    OBVIOUS
  <2>1. calls[c].at \in Nat
    BY DEF QuotaTypeOK, CallsOn, Call, Moments
  <2> QED
    BY <1>1, <2>1 DEF CallsOn, CallsIn, Within
<1>3. UsesOn(now) \subseteq UsesIn(Day)
  <2> SUFFICES ASSUME NEW i \in UsesOn(now) PROVE i \in UsesIn(Day)
    OBVIOUS
  <2>1. uses[i] \in Nat
    BY UsesAreMoments DEF UsesOn
  <2> QED
    BY <1>1, <2>1 DEF UsesOn, UsesIn, Within
<1> QED
  BY <1>2, <1>3, DayCounts, FS_Subset

\* What has room for one more than was recorded before it leaves a full day at most.
LEMMA RoomIsEnough ==
    ASSUME QuotaTypeOK, DayInv, NEW n \in Nat \ {0}, Capacity(n - 1), DailyLimit > 0,
           NEW now \in Moments, now >= clock
    PROVE  Cardinality(CallsOn(now)) + Cardinality(UsesOn(now)) + n <= DailyLimit
<1>1. Cardinality(CallsIn(Day)) + Cardinality(UsesIn(Day)) + (n - 1) < DailyLimit
  BY AiQuotaAssumption DEF Capacity, Used
<1> QED
  BY <1>1, LaterDaysAreCounted, DayCounts, AiQuotaAssumption

\* A step that records nothing.
LEMMA NothingIsUsed ==
    ASSUME QuotaTypeOK, DayInv, clock' \in Nat, clock' >= clock, uses' = uses,
           \A c \in Calls : /\ calls'[c].event # "none" <=> calls[c].event # "none"
                            /\ calls'[c].at = calls[c].at
    PROVE  DayInv'
<1>1. /\ clock \in Nat /\ \A c \in Calls : calls[c].at \in Nat
      /\ \A i \in DOMAIN uses : uses[i] \in Nat
  BY UsesAreMoments DEF QuotaTypeOK, Call, Moments
<1>2. \A now : CallsOn(now)' = CallsOn(now) /\ UsesOn(now)' = UsesOn(now)
  BY DEF CallsOn, UsesOn
<1>3. NoDayOverLimit'
  BY <1>2 DEF DayInv, NoDayOverLimit, CallsOn, UsesOn
<1>4. \A c \in Calls : calls'[c].event # "none" => calls'[c].at <= clock'
  BY <1>1 DEF DayInv
<1>5. \A i \in DOMAIN uses' : uses'[i] <= clock'
  BY <1>1 DEF DayInv
<1> QED
  BY <1>3, <1>4, <1>5 DEF DayInv

LEMMA UsesAreRecorded ==
    ASSUME QuotaTypeOK, DayInv, NEW n \in Nat \ {0}, RecordUses(n), UNCHANGED <<clock, calls>>
    PROVE  DayInv'
<1> DEFINE new == Len(uses) + 1 .. Len(uses) + n
<1>1. uses' = uses \o [i \in 1..n |-> clock] /\ Capacity(n - 1)
  <2>1. n - 1 \in 0 .. n - 1
    OBVIOUS
  <2> QED
    BY <2>1 DEF RecordUses
<1>2. /\ Len(uses) \in Nat /\ DOMAIN uses = 1 .. Len(uses) /\ clock \in Nat
      /\ DOMAIN uses' = 1 .. Len(uses) + n
      /\ \A i \in 1 .. Len(uses) : uses'[i] = uses[i] /\ uses[i] \in Nat
      /\ \A i \in new : uses'[i] = clock
  <2>1. uses \in Seq(Moments) /\ clock \in Moments /\ clock \in Nat
    BY DEF QuotaTypeOK, Moments
  <2>2. LET t == uses \o [i \in 1..n |-> clock] IN
        /\ DOMAIN t = 1 .. Len(uses) + n
        /\ \A i \in 1 .. Len(uses) : t[i] = uses[i]
        /\ \A i \in Len(uses) + 1 .. Len(uses) + n : t[i] = clock
    <3> HIDE <1>1
    <3> QED
      BY <2>1, Appended
  <2> QED
    BY <1>1, <2>1, <2>2, UsesAreMoments
<1>3. \A i \in DOMAIN uses' : uses'[i] <= clock'
  BY <1>2 DEF DayInv
<1>4. \A c \in Calls : calls'[c].event # "none" => calls'[c].at <= clock'
  BY DEF DayInv
<1>5. \A now : CallsOn(now)' = CallsOn(now)
  BY DEF CallsOn
<1>6. IsFiniteSet(new) /\ Cardinality(new) = n
  BY <1>2, FS_Interval
<1>7. ASSUME NEW now \in Moments, DailyLimit > 0
      PROVE  Cardinality(CallsOn(now)') + Cardinality(UsesOn(now)') <= DailyLimit
  <2>1. now \in Nat
    BY DEF Moments
  <2>2. CASE now >= clock
    <3>1. UsesOn(now)' \subseteq UsesOn(now) \cup new
      BY <1>2 DEF UsesOn
    <3>2. /\ IsFiniteSet(UsesOn(now) \cup new)
          /\ Cardinality(UsesOn(now) \cup new) <= Cardinality(UsesOn(now)) + n
      <4>1. Cardinality(UsesOn(now) \cap new) \in Nat
        BY <1>6, DayCounts, FS_Intersection, FS_CardinalityType
      <4>2. Cardinality(UsesOn(now) \cup new)
              = Cardinality(UsesOn(now)) + n - Cardinality(UsesOn(now) \cap new)
        BY <1>6, DayCounts, FS_Union
      <4> HIDE DEF new
      <4> QED
        BY <1>6, <4>1, <4>2, DayCounts, FS_Union
    <3>3. /\ Cardinality(UsesOn(now)') <= Cardinality(UsesOn(now) \cup new)
          /\ Cardinality(UsesOn(now)') \in Nat /\ Cardinality(UsesOn(now) \cup new) \in Nat
      BY <3>1, <3>2, FS_Subset, FS_CardinalityType
    <3>4. Cardinality(CallsOn(now)) + Cardinality(UsesOn(now)) + n <= DailyLimit
      BY <1>1, <1>7, <2>2, RoomIsEnough
    <3> QED
      BY <1>5, <3>2, <3>3, <3>4, DayCounts, AiQuotaAssumption
  <2>3. CASE ~ (now >= clock)
    <3>1. UsesOn(now)' = UsesOn(now)
      BY <1>2, <2>1, <2>3 DEF UsesOn
    <3> QED
      BY <1>5, <1>7, <3>1 DEF DayInv, NoDayOverLimit, CallsOn, UsesOn
  <2> QED
    BY <2>2, <2>3
<1>8. NoDayOverLimit'
  BY <1>7 DEF NoDayOverLimit, CallsOn, UsesOn
<1> QED
  BY <1>3, <1>4, <1>8 DEF DayInv

LEMMA CallIsReserved ==
    ASSUME QuotaTypeOK, DayInv, NEW c \in Calls, ReserveCall(c)
    PROVE  DayInv'
<1>1. /\ Capacity(0) /\ UNCHANGED <<clock, uses>>
      /\ calls' = [calls EXCEPT ![c] = [pc |-> "calling", event |-> "open", at |-> clock]]
  BY DEF ReserveCall
<1>2. calls'[c].at = clock /\ \A d \in Calls : d # c => calls'[d] = calls[d]
  BY <1>1 DEF QuotaTypeOK
<1>3. clock \in Nat /\ \A d \in Calls : calls[d].at \in Nat
  BY DEF QuotaTypeOK, Call, Moments
<1>4. \A d \in Calls : calls'[d].event # "none" => calls'[d].at <= clock'
  BY <1>1, <1>2, <1>3 DEF DayInv
<1>5. \A i \in DOMAIN uses' : uses'[i] <= clock'
  BY <1>1 DEF DayInv
<1>6. \A now : UsesOn(now)' = UsesOn(now)
  BY <1>1 DEF UsesOn
<1>7. ASSUME NEW now \in Moments, DailyLimit > 0
      PROVE  Cardinality(CallsOn(now)') + Cardinality(UsesOn(now)') <= DailyLimit
  <2>1. now \in Nat
    BY DEF Moments
  <2>2. CASE now >= clock
    <3>1. CallsOn(now)' \subseteq CallsOn(now) \cup {c}
      BY <1>2 DEF CallsOn
    <3>2. /\ IsFiniteSet(CallsOn(now) \cup {c})
          /\ Cardinality(CallsOn(now) \cup {c}) <= Cardinality(CallsOn(now)) + 1
      <4>1. IsFiniteSet(CallsOn(now)) /\ Cardinality(CallsOn(now)) \in Nat
        BY DayCounts
      <4>2. /\ IsFiniteSet(CallsOn(now) \cup {c})
            /\ \/ Cardinality(CallsOn(now) \cup {c}) = Cardinality(CallsOn(now))
               \/ Cardinality(CallsOn(now) \cup {c}) = Cardinality(CallsOn(now)) + 1
        BY <4>1, FS_AddElement
      <4> QED
        BY <4>1, <4>2
    <3>3. /\ Cardinality(CallsOn(now)') <= Cardinality(CallsOn(now) \cup {c})
          /\ Cardinality(CallsOn(now)') \in Nat /\ Cardinality(CallsOn(now) \cup {c}) \in Nat
      BY <3>1, <3>2, FS_Subset, FS_CardinalityType
    <3>4. Cardinality(CallsOn(now)) + Cardinality(UsesOn(now)) + 1 <= DailyLimit
      <4>1. 1 \in Nat \ {0} /\ 1 - 1 = 0
        OBVIOUS
      <4> QED
        BY <1>1, <1>7, <2>2, <4>1, RoomIsEnough
    <3> QED
      BY <1>6, <3>2, <3>3, <3>4, DayCounts, AiQuotaAssumption
  <2>3. CASE ~ (now >= clock)
    <3>1. CallsOn(now)' \subseteq CallsOn(now)
      BY <1>2, <1>3, <2>1, <2>3 DEF CallsOn
    <3>2. /\ Cardinality(CallsOn(now)') <= Cardinality(CallsOn(now))
          /\ Cardinality(CallsOn(now)') \in Nat
      BY <3>1, DayCounts, FS_Subset, FS_CardinalityType
    <3>3. Cardinality(CallsOn(now)) + Cardinality(UsesOn(now)) <= DailyLimit
      BY <1>7 DEF DayInv, NoDayOverLimit, CallsOn, UsesOn
    <3> QED
      BY <1>6, <3>2, <3>3, DayCounts, AiQuotaAssumption
  <2> QED
    BY <2>2, <2>3
<1>8. NoDayOverLimit'
  BY <1>7 DEF NoDayOverLimit, CallsOn, UsesOn
<1> QED
  BY <1>4, <1>5, <1>8 DEF DayInv

LEMMA DayInitInv == QuotaInit => DayInv
<1> SUFFICES ASSUME QuotaInit PROVE DayInv
  OBVIOUS
<1>1. \A now : CallsOn(now) = {} /\ UsesOn(now) = {}
  BY DEF QuotaInit, CallsOn, UsesOn
<1>2. NoDayOverLimit
  <2>1. Cardinality({}) = 0 /\ DailyLimit \in Nat
    BY FS_EmptySet, AiQuotaAssumption
  <2>2. ASSUME NEW now \in Moments, DailyLimit > 0
        PROVE  Cardinality(CallsOn(now)) + Cardinality(UsesOn(now)) <= DailyLimit
    BY <1>1, <2>1, <2>2
  <2> QED
    BY <2>2 DEF NoDayOverLimit, CallsOn, UsesOn
<1> QED
  BY <1>2 DEF QuotaInit, DayInv

LEMMA DayNextInv == QuotaInv /\ DayInv /\ [QuotaNext]_quotaVars => DayInv'
<1> SUFFICES ASSUME QuotaInv, DayInv, [QuotaNext]_quotaVars PROVE DayInv'
  OBVIOUS
<1>t. QuotaTypeOK /\ clock \in Nat /\ \A c \in Calls : calls[c] \in Call
  BY DEF QuotaInv, QuotaTypeOK, Moments
<1>1. CASE UNCHANGED quotaVars
  BY <1>t, <1>1, NothingIsUsed DEF quotaVars
<1>2. ASSUME NEW c \in Calls, ReserveCall(c) PROVE DayInv'
  BY <1>t, <1>2, CallIsReserved
<1>3. ASSUME NEW c \in Calls, AnswerCall(c) \/ CompleteCall(c) \/ LoseCall(c) PROVE DayInv'
  <2>1. /\ calls[c].event = "open" /\ UNCHANGED <<clock, uses>>
    BY <1>3 DEF AnswerCall, CompleteCall, LoseCall, QuotaInv, QuotaTypeOK, CallsAreOpen
  <2>2. \A d \in Calls : /\ calls'[d].event # "none" <=> calls[d].event # "none"
                         /\ calls'[d].at = calls[d].at
    BY <1>t, <1>3, <2>1 DEF AnswerCall, CompleteCall, LoseCall, QuotaTypeOK, Call
  <2> QED
    BY <1>t, <2>1, <2>2, NothingIsUsed
<1>4. ASSUME NEW t \in QuotaTasks, NEW n \in {1, ProviderCalls},
             QueueTask(t, n) \/ SteerTask(t, n)
      PROVE  DayInv'
  BY <1>t, <1>4, UsesAreRecorded, AiQuotaAssumption DEF QueueTask, SteerTask
<1>5. ASSUME NEW t \in QuotaTasks, ResumeTask(t) PROVE DayInv'
  BY <1>t, <1>5, UsesAreRecorded DEF ResumeTask
<1>6. ASSUME NEW t \in QuotaTasks, NEW status \in {"waiting", "over"}, EndTask(t, status)
      PROVE  DayInv'
  BY <1>t, <1>6, NothingIsUsed DEF EndTask
<1>7. CASE QuotaTick
  BY <1>t, <1>7, NothingIsUsed DEF QuotaTick
<1> QED
  BY <1>1, <1>2, <1>3, <1>4, <1>5, <1>6, <1>7 DEF QuotaNext

-----------------------------------------------------------------------------
(* Theorems.                                                               *)

\* The clock, the events of direct calls, the uses recorded and the tasks at work have
\* the types aiUsageEvents and writingTasks keep, for any number of tasks and calls.
THEOREM QuotaTypeCorrect == QuotaSpec => []QuotaTypeOK
<1>1. QuotaInv => QuotaTypeOK
  BY DEF QuotaInv
<1> QED
  BY <1>1, QuotaInitInv, QuotaNextInv, PTL DEF QuotaSpec

\* The tasks at work and the direct calls under way and not older than a lease are
\* never more than AI_CONCURRENT_REQUEST_LIMIT (assertAiCapacity), whoever starts
\* them and whichever of them die.
THEOREM NeverMoreThanTheLimit == QuotaSpec => []NeverMoreAtOnce
<1>1. QuotaInv => NeverMoreAtOnce
  BY DEF QuotaInv
<1> QED
  BY <1>1, QuotaInitInv, QuotaNextInv, PTL DEF QuotaSpec

\* In no span of a day does a user make more uses than AI_DAILY_REQUEST_LIMIT: a day
\* that is not over was counted with what is recorded into it (assertAiCapacity,
\* recordQueuedAiUsage), and a day that is over gets nothing more.
THEOREM NoDayIsOverTheLimit == QuotaSpec => []NoDayOverLimit
<1>1. DayInv => NoDayOverLimit
  BY DEF DayInv
<1> QED
  BY <1>1, QuotaInitInv, QuotaNextInv, DayInitInv, DayNextInv, PTL DEF QuotaSpec

-----------------------------------------------------------------------------
(***************************************************************************)
(* ResumeLog.                                                              *)
(***************************************************************************)

(***************************************************************************)
(* The least number, and sequences.                                        *)
(***************************************************************************)

LEMMA LeastNumber ==
    ASSUME NEW T, T \subseteq Nat, T # {}
    PROVE  \E m \in T : \A n \in T : m <= n
<1> DEFINE R == {ss \in Nat \X Nat : ss[1] < ss[2]}
<1>1. IsWellFoundedOn(R, Nat)
  BY NatLessThanWellFounded DEF OpToRel
<1>2. \A x, y \in Nat : y < x => <<y, x>> \in R
  OBVIOUS
<1> HIDE DEF R
<1>3. \E x \in T : \A y \in T : ~ (<<y, x>> \in R)
  BY <1>1, WFMin
<1>4. PICK x \in T : \A y \in T : ~ (<<y, x>> \in R)
  BY <1>3
<1>5. x \in Nat /\ \A y \in T : y \in Nat /\ ~ (y < x)
  BY <1>2, <1>4
<1>6. \A y \in T : x <= y
  <2> SUFFICES ASSUME NEW y \in T PROVE x <= y
    OBVIOUS
  <2>1. x \in Nat /\ y \in Nat /\ ~ (y < x)
    BY <1>5
  <2> QED
    BY <2>1
<1> QED
  BY <1>6

LEMMA Members ==
    ASSUME NEW text \in Seq(Nat)
    PROVE  /\ Len(text) \in Nat /\ DOMAIN text = 1 .. Len(text)
           /\ \A i \in 1 .. Len(text) : text[i] \in Nat /\ text[i] \in ToSet(text)
           /\ \A c \in ToSet(text) : c \in Nat /\ \E i \in 1 .. Len(text) : text[i] = c
           /\ (text = << >>) <=> (Len(text) = 0)
  BY DEF ToSet

LEMMA MembersFinite ==
    ASSUME NEW text \in Seq(Nat), NEW S, S \subseteq ToSet(text)
    PROVE  /\ IsFiniteSet(S) /\ Cardinality(S) \in Nat /\ Cardinality(S) <= Len(text)
<1>1. text \in Surjection(1 .. Len(text), ToSet(text))
  BY Members DEF Surjection
<1>2. IsFiniteSet(1 .. Len(text)) /\ Cardinality(1 .. Len(text)) = Len(text)
  <2>1. Len(text) \in Nat
    OBVIOUS
  <2>2. 1 \in Int /\ Len(text) \in Int /\ (IF 1 > Len(text) THEN 0 ELSE Len(text) - 1 + 1) = Len(text)
    BY <2>1
  <2> QED
    BY <2>2, FS_Interval
<1>3. /\ IsFiniteSet(ToSet(text)) /\ Cardinality(ToSet(text)) <= Len(text)
      /\ Cardinality(ToSet(text)) \in Nat
  BY <1>1, <1>2, FS_Surjection, FS_CardinalityType
<1>4. IsFiniteSet(S) /\ Cardinality(S) <= Cardinality(ToSet(text)) /\ Cardinality(S) \in Nat
  BY <1>3, FS_Subset, FS_CardinalityType
<1> QED
  BY <1>3, <1>4, Members

\* The end of a text from one of its characters on.
LEMMA SuffixIs ==
    ASSUME NEW text \in Seq(Nat), NEW first \in 1 .. Len(text) + 1
    PROVE  LET end == SubSeq(text, first, Len(text)) IN
           /\ end \in Seq(Nat) /\ Len(end) = Len(text) - first + 1
           /\ \A i \in 1 .. Len(end) : end[i] = text[first + i - 1]
<1> DEFINE end == SubSeq(text, first, Len(text))
<1>1. first \in Nat /\ Len(text) \in Nat /\ first >= 1 /\ first <= Len(text) + 1
  BY Members
<1>2. \A i \in first .. Len(text) : text[i] \in Nat
  BY <1>1, Members
<1>3. /\ end \in Seq(Nat) /\ Len(end) = (IF first <= Len(text) THEN Len(text) - first + 1 ELSE 0)
      /\ \A i \in 1 .. Len(text) - first + 1 : end[i] = text[first + i - 1]
  BY <1>1, <1>2
<1>4. Len(end) = Len(text) - first + 1
  BY <1>1, <1>3
<1> QED
  BY <1>3, <1>4

LEMMA AppendedText ==
    ASSUME NEW text \in Seq(Nat), NEW c \in Nat
    PROVE  /\ Append(text, c) \in Seq(Nat) /\ Len(Append(text, c)) = Len(text) + 1
           /\ \A i \in 1 .. Len(text) : Append(text, c)[i] = text[i]
           /\ Append(text, c)[Len(text) + 1] = c
           /\ ToSet(Append(text, c)) = ToSet(text) \cup {c}
<1>1. /\ Append(text, c) \in Seq(Nat) /\ Len(Append(text, c)) = Len(text) + 1
      /\ \A i \in 1 .. Len(text) : Append(text, c)[i] = text[i]
      /\ Append(text, c)[Len(text) + 1] = c
  OBVIOUS
<1>2. 1 .. Len(text) + 1 = (1 .. Len(text)) \cup {Len(text) + 1}
  BY Members
<1> HIDE <1>2
<1>3. ASSUME NEW x PROVE x \in ToSet(Append(text, c)) <=> x \in ToSet(text) \cup {c}
  <2>1. x \in ToSet(Append(text, c)) <=> \E i \in 1 .. Len(text) + 1 : Append(text, c)[i] = x
    BY <1>1 DEF ToSet
  <2>2. x \in ToSet(text) <=> \E i \in 1 .. Len(text) : text[i] = x
    BY DEF ToSet
  <2> QED
    BY <1>1, <1>2, <2>1, <2>2
<1> QED
  BY <1>1, <1>3

(***************************************************************************)
(* The log.                                                                *)
(***************************************************************************)

LogType == [text : Seq(Nat), heads : SUBSET Nat]

\* Position s begins the segment that position i is in.
Begins(log, s, i) ==
    /\ s <= i /\ i - s < SegmentLimit /\ log.text[s] \in log.heads
    /\ \A t \in s + 1 .. i : log.text[t] \notin log.heads

Segmented(log) ==
    /\ log \in LogType /\ log.heads \subseteq ToSet(log.text)
    /\ \A i \in 1 .. Len(log.text) : \E s \in 1 .. i : Begins(log, s, i)

\* The last segment has at most n characters.
LastIsShort(log, n) ==
    log.text # << >> =>
        \E s \in 1 .. Len(log.text) : Begins(log, s, Len(log.text)) /\ Len(log.text) - s < n

\* A limit is reached: all that a resumption shows is there.
Full(log) ==
    Len(log.text) + SegmentLimit >= LogLimit + 1 \/ Cardinality(log.heads) = LogRunLimit

\* tail is the end of text.
Ends(text, tail) ==
    /\ Len(tail) <= Len(text)
    /\ \A i \in 1 .. Len(tail) : tail[i] = text[Len(text) - Len(tail) + i]

LEMMA LogConstants ==
    /\ MaxChars \in Nat /\ MaxPending \in Nat /\ LogLimit \in Nat
    /\ SegmentLimit \in Nat /\ SegmentLimit >= 1 /\ LogRunLimit \in Nat /\ LogRunLimit >= 1
    /\ TailLimit \in Nat /\ TailLimit >= 1 /\ SegmentLimit + TailLimit <= LogLimit + 1
  BY ResumeAssumption

LEMMA FromIs ==
    ASSUME NEW log, Segmented(log), NEW first \in Cuts(log)
    PROVE  LET end == From(log, first) IN
           /\ first \in 1 .. Len(log.text) + 1
           /\ Segmented(end) /\ Ends(log.text, end.text)
           /\ Len(end.text) = Len(log.text) - first + 1
           /\ \A i \in 1 .. Len(end.text) : end.text[i] = log.text[first + i - 1]
           /\ \A n \in Nat : LastIsShort(log, n) => LastIsShort(end, n)
<1> DEFINE end == From(log, first)
<1>1. log.text \in Seq(Nat) /\ log.heads \subseteq Nat
  BY DEF Segmented, LogType
<1>2. Len(log.text) \in Nat
  BY <1>1
<1>3. first \in 1 .. Len(log.text) + 1
  BY <1>2 DEF Cuts
<1>4. /\ end.text = SubSeq(log.text, first, Len(log.text))
      /\ end.heads = log.heads \cap ToSet(end.text)
      /\ end = [text |-> end.text, heads |-> end.heads]
  BY DEF From, Part
<1>5. /\ end.text \in Seq(Nat) /\ Len(end.text) = Len(log.text) - first + 1
      /\ \A i \in 1 .. Len(end.text) : end.text[i] = log.text[first + i - 1]
  BY <1>1, <1>3, <1>4, SuffixIs
<1>6. end \in LogType /\ end.heads \subseteq ToSet(end.text)
  BY <1>1, <1>4, <1>5 DEF LogType
<1> HIDE DEF end
<1>7. first <= Len(log.text) => log.text[first] \in log.heads
  BY <1>2, <1>3 DEF Cuts
<1>8. ASSUME NEW i \in 1 .. Len(end.text), NEW s \in 1 .. first + i - 1,
             Begins(log, s, first + i - 1)
      PROVE  s - first + 1 \in 1 .. i /\ Begins(end, s - first + 1, i)
  <2>1. /\ i \in Nat /\ first \in Nat /\ s \in Nat /\ s <= first + i - 1 /\ first >= 1
        /\ first + i - 1 <= Len(log.text) /\ Len(end.text) \in Nat
    BY <1>2, <1>3, <1>5
  <2>2. s >= first
    <3>1. CASE s < first
      <4>1. first \in s + 1 .. first + i - 1
        BY <2>1, <3>1
      <4>2. log.text[first] \notin log.heads
        BY <1>8, <4>1 DEF Begins
      <4> QED
        BY <1>7, <2>1, <4>2
    <3> QED
      BY <2>1, <3>1
  <2>3. s - first + 1 \in 1 .. i /\ first + (s - first + 1) - 1 = s
    BY <2>1, <2>2
  <2>4. end.text[s - first + 1] = log.text[s]
    BY <1>5, <2>1, <2>3
  <2>5. end.text[s - first + 1] \in end.heads
    <3>1. end.text[s - first + 1] \in ToSet(end.text)
      <4>1. s - first + 1 \in 1 .. Len(end.text)
        BY <2>1, <2>3
      <4> QED
        BY <1>5, <4>1, Members
    <3> QED
      BY <1>4, <1>8, <2>4, <3>1 DEF Begins
  <2>6. ASSUME NEW t \in (s - first + 1) + 1 .. i PROVE end.text[t] \notin end.heads
    <3>1. t \in 1 .. Len(end.text) /\ first + t - 1 \in s + 1 .. first + i - 1
      BY <2>1, <2>2
    <3>2. log.text[first + t - 1] \notin log.heads
      BY <1>8, <3>1 DEF Begins
    <3> QED
      BY <1>4, <1>5, <3>1, <3>2
  <2>7. s - first + 1 <= i /\ i - (s - first + 1) < SegmentLimit
    BY <1>8, <2>1, <2>3, LogConstants DEF Begins
  <2> QED
    BY <2>3, <2>5, <2>6, <2>7 DEF Begins
<1>9. ASSUME NEW i \in 1 .. Len(end.text) PROVE \E s \in 1 .. i : Begins(end, s, i)
  <2>1. first + i - 1 \in 1 .. Len(log.text)
    BY <1>2, <1>3, <1>5
  <2>2. PICK s \in 1 .. first + i - 1 : Begins(log, s, first + i - 1)
    BY <2>1 DEF Segmented
  <2> QED
    BY <1>8, <2>2
<1>10. Segmented(end)
  BY <1>6, <1>9 DEF Segmented
<1>11. Ends(log.text, end.text)
  <2>1. Len(end.text) <= Len(log.text)
    BY <1>2, <1>3, <1>5
  <2>2. ASSUME NEW i \in 1 .. Len(end.text)
        PROVE  end.text[i] = log.text[Len(log.text) - Len(end.text) + i]
    <3>1. Len(log.text) - Len(end.text) + i = first + i - 1
      BY <1>2, <1>3, <1>5
    <3> QED
      BY <1>5, <3>1
  <2> QED
    BY <2>1, <2>2 DEF Ends
<1>12. ASSUME NEW n \in Nat, LastIsShort(log, n), end.text # << >>
       PROVE  \E s \in 1 .. Len(end.text) :
                 Begins(end, s, Len(end.text)) /\ Len(end.text) - s < n
  <2>1. /\ Len(end.text) \in 1 .. Len(end.text) /\ Len(log.text) >= 1
        /\ first + Len(end.text) - 1 = Len(log.text)
    BY <1>2, <1>3, <1>5, <1>12, Members
  <2>2. log.text # << >>
    BY <1>1, <2>1, Members
  <2>3. PICK s \in 1 .. Len(log.text) : Begins(log, s, Len(log.text)) /\ Len(log.text) - s < n
    BY <1>12, <2>2 DEF LastIsShort
  <2>4. /\ s - first + 1 \in 1 .. Len(end.text)
        /\ Begins(end, s - first + 1, Len(end.text))
    BY <1>8, <2>1, <2>3
  <2>5. Len(end.text) - (s - first + 1) < n
    BY <1>2, <1>3, <1>5, <2>3
  <2> QED
    BY <2>4, <2>5
<1>13. \A n \in Nat : LastIsShort(log, n) => LastIsShort(end, n)
  BY <1>12 DEF LastIsShort
<1> QED
  BY <1>3, <1>5, <1>10, <1>11, <1>13 DEF end

\* Dropping the oldest segments until the rest fits leaves a full log, or drops nothing.
LEMMA BoundedIs ==
    ASSUME NEW log, Segmented(log)
    PROVE  \E first \in Cuts(log) :
               /\ Bounded(log) = From(log, first) /\ Fits(Bounded(log))
               /\ first = 1 \/ Full(Bounded(log))
<1> DEFINE fitting == {cut \in Cuts(log) : Fits(From(log, cut))}
           size == Len(log.text)
<1>1. log.text \in Seq(Nat) /\ size \in Nat
  BY DEF Segmented, LogType
<1>2. Cuts(log) \subseteq Nat /\ \A cut \in Cuts(log) : cut \in 1 .. size + 1
  BY <1>1 DEF Cuts
<1>3. size + 1 \in fitting
  <2>1. size + 1 \in Cuts(log)
    BY DEF Cuts
  <2>2. Segmented(From(log, size + 1)) /\ Len(From(log, size + 1).text) = 0
    BY <1>1, <2>1, FromIs
  <2>3. /\ From(log, size + 1).text \in Seq(Nat)
        /\ From(log, size + 1).heads \subseteq ToSet(From(log, size + 1).text)
    BY <2>2 DEF Segmented, LogType
  <2>4. Cardinality(From(log, size + 1).heads) \in Nat /\ Cardinality(From(log, size + 1).heads) <= 0
    BY <2>2, <2>3, MembersFinite
  <2> QED
    BY <2>1, <2>2, <2>4, LogConstants DEF Fits
<1> DEFINE Least(x) == x \in Cuts(log) /\ Fits(From(log, x))
                       /\ \A cut \in Cuts(log) : Fits(From(log, cut)) => x <= cut
<1>4. PICK first \in Cuts(log) :
          /\ Bounded(log) = From(log, first) /\ Fits(From(log, first))
          /\ \A cut \in Cuts(log) : Fits(From(log, cut)) => first <= cut
  <2>1. fitting \subseteq Nat /\ fitting # {}
    BY <1>2, <1>3
  <2>2. \E m \in fitting : \A n \in fitting : m <= n
    <3> HIDE DEF fitting
    <3> QED
      BY <2>1, LeastNumber
  <2>3. \E x \in Cuts(log) : /\ Fits(From(log, x))
                             /\ \A cut \in Cuts(log) : Fits(From(log, cut)) => x <= cut
    BY <2>2
  <2> DEFINE x == CHOOSE x \in Cuts(log) :
                    /\ Fits(From(log, x))
                    /\ \A cut \in Cuts(log) : Fits(From(log, cut)) => x <= cut
  <2>4. /\ x \in Cuts(log) /\ Fits(From(log, x))
        /\ \A cut \in Cuts(log) : Fits(From(log, cut)) => x <= cut
    BY <2>3
  <2>5. Bounded(log) = From(log, x)
    BY DEF Bounded
  <2> HIDE DEF x
  <2> QED
    BY <2>4, <2>5
<1>5. ASSUME first # 1 PROVE Full(From(log, first))
  <2>1. first \in Nat /\ first >= 2 /\ first <= size + 1 /\ first - 1 \in 1 .. size
    BY <1>1, <1>2, <1>5
  <2>2. PICK p \in 1 .. first - 1 : Begins(log, p, first - 1)
    BY <2>1 DEF Segmented
  <2>3. p \in Nat /\ p >= 1 /\ p < first /\ first - p <= SegmentLimit /\ p \in 1 .. size
    BY <2>1, <2>2, LogConstants DEF Begins
  <2>4. p \in Cuts(log)
    BY <2>2, <2>3 DEF Begins, Cuts
  <2>5. ~ Fits(From(log, p))
    BY <1>4, <2>1, <2>3, <2>4
  <2> DEFINE old == From(log, p)
             end == From(log, first)
  <2>6. /\ Segmented(old) /\ Len(old.text) = size - p + 1
        /\ \A i \in 1 .. Len(old.text) : old.text[i] = log.text[p + i - 1]
    BY <2>4, FromIs
  <2>7. /\ Segmented(end) /\ Len(end.text) = size - first + 1
        /\ \A i \in 1 .. Len(end.text) : end.text[i] = log.text[first + i - 1]
    BY <1>4, FromIs
  <2>8. /\ old.heads = log.heads \cap ToSet(old.text) /\ end.heads = log.heads \cap ToSet(end.text)
    BY DEF From, Part
  <2>9. old.text \in Seq(Nat) /\ end.text \in Seq(Nat)
    BY <2>6, <2>7 DEF Segmented, LogType
  <2> HIDE DEF old, end
  <2>10. old.heads \subseteq end.heads \cup {log.text[p]}
    <3> SUFFICES ASSUME NEW c \in old.heads, c # log.text[p] PROVE c \in end.heads
      OBVIOUS
    <3>1. PICK i \in 1 .. Len(old.text) : old.text[i] = c
      BY <2>8, <2>9, Members
    <3>2. c \in log.heads /\ log.text[p + i - 1] = c
      BY <2>6, <2>8, <3>1
    <3>3. i \in Nat /\ i >= 1 /\ i <= size - p + 1
      BY <1>1, <2>3, <2>6
    <3>4. i # 1
      BY <2>3, <3>2
    <3>5. ~ (p + i - 1 \in p + 1 .. first - 1)
      BY <2>2, <3>2 DEF Begins
    <3>6. p + i - 1 >= first
      BY <2>1, <2>3, <3>3, <3>4, <3>5
    <3> DEFINE j == p + i - first
    <3>7. j \in 1 .. Len(end.text) /\ first + j - 1 = p + i - 1
      BY <1>1, <2>1, <2>3, <2>7, <3>3, <3>6
    <3>8. end.text[j] = c
      BY <2>7, <3>2, <3>7
    <3>9. c \in ToSet(end.text)
      BY <2>9, <3>7, <3>8, Members
    <3> QED
      BY <2>8, <3>2, <3>9
  <2>11. Cardinality(old.heads) \in Nat /\ Cardinality(end.heads) \in Nat
         /\ Cardinality(old.heads) <= Cardinality(end.heads) + 1
    <3>1. /\ IsFiniteSet(end.heads) /\ Cardinality(end.heads) \in Nat
          /\ IsFiniteSet(old.heads) /\ Cardinality(old.heads) \in Nat
      BY <2>8, <2>9, MembersFinite
    <3>2. IsFiniteSet(end.heads \cup {log.text[p]})
      BY <3>1, FS_AddElement
    <3>3. \/ Cardinality(end.heads \cup {log.text[p]}) = Cardinality(end.heads)
          \/ Cardinality(end.heads \cup {log.text[p]}) = Cardinality(end.heads) + 1
      BY <3>1, FS_AddElement
    <3>4. Cardinality(old.heads) <= Cardinality(end.heads \cup {log.text[p]})
      BY <2>10, <3>2, FS_Subset
    <3> QED
      BY <3>1, <3>3, <3>4
  <2>12. Len(old.text) > LogLimit \/ Cardinality(old.heads) > LogRunLimit
    BY <2>5, <2>6, <2>11, <1>1, <2>3, LogConstants DEF Fits, old
  <2>13. Cardinality(end.heads) <= LogRunLimit
    BY <1>4 DEF Fits, end
  <2>14. CASE Len(old.text) > LogLimit
    <3>1. Len(end.text) + SegmentLimit >= LogLimit + 1
      BY <1>1, <2>1, <2>3, <2>6, <2>7, <2>14, LogConstants
    <3> QED
      BY <3>1 DEF Full, end
  <2>15. CASE Cardinality(old.heads) > LogRunLimit
    <3>1. Cardinality(end.heads) = LogRunLimit
      BY <2>11, <2>13, <2>15, LogConstants
    <3> QED
      BY <3>1 DEF Full, end
  <2> QED
    BY <2>12, <2>14, <2>15
<1> QED
  BY <1>4, <1>5

LEMMA EndsOfEnds ==
    ASSUME NEW a \in Seq(Nat), NEW b \in Seq(Nat), NEW c \in Seq(Nat), Ends(a, b), Ends(b, c)
    PROVE  Ends(a, c)
<1>1. /\ Len(a) \in Nat /\ Len(b) \in Nat /\ Len(c) \in Nat
      /\ Len(b) <= Len(a) /\ Len(c) <= Len(b)
  BY DEF Ends
<1>2. ASSUME NEW i \in 1 .. Len(c) PROVE c[i] = a[Len(a) - Len(c) + i]
  <2> DEFINE j == Len(b) - Len(c) + i
  <2>1. j \in 1 .. Len(b) /\ Len(a) - Len(b) + j = Len(a) - Len(c) + i
    BY <1>1
  <2>2. c[i] = b[j]
    BY DEF Ends
  <2> HIDE DEF j
  <2>3. b[j] = a[Len(a) - Len(b) + j]
    BY <2>1 DEF Ends
  <2> QED
    BY <2>1, <2>2, <2>3
<1> QED
  BY <1>1, <1>2 DEF Ends

LEMMA EndsAppended ==
    ASSUME NEW a \in Seq(Nat), NEW b \in Seq(Nat), NEW c \in Nat, Ends(a, b)
    PROVE  Ends(Append(a, c), Append(b, c))
<1>1. Len(a) \in Nat /\ Len(b) \in Nat /\ Len(b) <= Len(a)
  BY DEF Ends
<1>2. Len(Append(a, c)) = Len(a) + 1 /\ Len(Append(b, c)) = Len(b) + 1
  BY AppendedText
<1>3. ASSUME NEW i \in 1 .. Len(b) + 1 PROVE Append(b, c)[i] = Append(a, c)[Len(a) - Len(b) + i]
  <2>1. CASE i = Len(b) + 1
    <3>1. Len(a) - Len(b) + i = Len(a) + 1
      BY <1>1, <2>1
    <3> QED
      BY <2>1, <3>1, AppendedText
  <2>2. CASE i # Len(b) + 1
    <3>1. i \in 1 .. Len(b) /\ Len(a) - Len(b) + i \in 1 .. Len(a)
      BY <1>1, <2>2
    <3> QED
      BY <3>1, AppendedText DEF Ends
  <2> QED
    BY <2>1, <2>2
<1>4. \A i \in 1 .. Len(b) + 1 : (Len(a) + 1) - (Len(b) + 1) + i = Len(a) - Len(b) + i
  BY <1>1
<1>5. Len(b) + 1 <= Len(a) + 1
  BY <1>1
<1>6. \A i \in 1 .. Len(b) + 1 :
          Append(b, c)[i] = Append(a, c)[(Len(a) + 1) - (Len(b) + 1) + i]
  BY <1>3, <1>4
<1> QED
  BY <1>2, <1>5, <1>6 DEF Ends

LEMMA EndIncreases ==
    ASSUME NEW a \in Seq(Nat), NEW b \in Seq(Nat), Increasing(a), Ends(a, b)
    PROVE  Increasing(b)
<1>1. Len(a) \in Nat /\ Len(b) \in Nat /\ Len(b) <= Len(a)
      /\ DOMAIN a = 1 .. Len(a) /\ DOMAIN b = 1 .. Len(b)
  BY DEF Ends
<1>2. ASSUME NEW i \in 1 .. Len(b), NEW j \in 1 .. Len(b), i < j PROVE b[i] < b[j]
  <2> DEFINE d == Len(a) - Len(b)
  <2>1. d + i \in 1 .. Len(a) /\ d + j \in 1 .. Len(a) /\ d + i < d + j
    BY <1>1, <1>2
  <2>2. b[i] = a[d + i] /\ b[j] = a[d + j]
    BY DEF Ends
  <2> HIDE DEF d
  <2> QED
    BY <1>1, <2>1, <2>2 DEF Increasing
<1> QED
  BY <1>1, <1>2 DEF Increasing

\* A character recorded: whole segments were dropped and the log is full, or nothing was.
LEMMA RecordIs ==
    ASSUME NEW log, Segmented(log), NEW c \in Nat, \A i \in 1 .. Len(log.text) : log.text[i] < c,
           NEW opens \in BOOLEAN, NEW open \in Nat, open < SegmentLimit,
           ~ opens => LastIsShort(log, open)
    PROVE  LET new == Record(log, c, opens) IN
           /\ Segmented(new) /\ Fits(new) /\ LastIsShort(new, open + 1)
           /\ Ends(Append(log.text, c), new.text)
           /\ Full(new) \/ (Len(new.text) = Len(log.text) + 1 /\ ~ Full(log))
<1> DEFINE whole == [ text  |-> Append(log.text, c),
                      heads |-> IF opens \/ log.text = << >> THEN log.heads \cup {c} ELSE log.heads ]
           size == Len(log.text)
<1>1. log.text \in Seq(Nat) /\ log.heads \subseteq ToSet(log.text) /\ size \in Nat
  BY DEF Segmented, LogType
<1>2. /\ whole.text \in Seq(Nat) /\ Len(whole.text) = size + 1
      /\ \A i \in 1 .. size : whole.text[i] = log.text[i]
      /\ whole.text[size + 1] = c /\ ToSet(whole.text) = ToSet(log.text) \cup {c}
  BY <1>1, AppendedText
<1>3. /\ log.heads \subseteq whole.heads /\ whole.heads \subseteq log.heads \cup {c}
      /\ (c \in whole.heads) <=> (opens \/ log.text = << >>)
  <2>1. c \notin log.heads
    <3>1. ASSUME c \in ToSet(log.text) PROVE FALSE
      <4>1. PICK i \in 1 .. size : log.text[i] = c
        BY <1>1, <3>1, Members
      <4> QED
        BY <4>1
    <3> QED
      BY <1>1, <3>1
  <2> QED
    BY <2>1
<1>4. Record(log, c, opens) = Bounded(whole)
  BY DEF Record
<1>5. whole \in LogType /\ whole.heads \subseteq ToSet(whole.text) /\ whole.text # << >>
  <2>1. whole.heads \subseteq ToSet(whole.text)
    BY <1>1, <1>2, <1>3
  <2>2. ToSet(whole.text) \subseteq Nat
    BY <1>2, Members
  <2>3. whole.heads \in SUBSET Nat
    BY <2>1, <2>2
  <2>4. whole.text # << >>
    BY <1>1, <1>2, Members
  <2>5. whole = [text |-> whole.text, heads |-> whole.heads]
    OBVIOUS
  <2> HIDE DEF whole
  <2> QED
    BY <1>2, <2>1, <2>3, <2>4, <2>5 DEF LogType
<1> HIDE DEF whole
<1>6. ASSUME NEW i \in 1 .. size, NEW s \in 1 .. i, Begins(log, s, i) PROVE Begins(whole, s, i)
  <2>1. s \in 1 .. size /\ \A t \in s + 1 .. i : t \in 1 .. size
    BY <1>1
  <2>2. whole.text[s] \in whole.heads
    BY <1>2, <1>3, <1>6, <2>1 DEF Begins
  <2>3. ASSUME NEW t \in s + 1 .. i PROVE whole.text[t] \notin whole.heads
    <3>1. log.text[t] \notin log.heads /\ t \in 1 .. size
      BY <1>6, <2>1 DEF Begins
    <3>2. log.text[t] # c
      <4>1. log.text[t] < c /\ log.text[t] \in Nat
        BY <1>1, <3>1, Members
      <4> QED
        BY <4>1
    <3> QED
      BY <1>2, <1>3, <3>1, <3>2
  <2> QED
    BY <1>6, <2>2, <2>3 DEF Begins
<1>7. \E s \in 1 .. size + 1 : Begins(whole, s, size + 1) /\ size + 1 - s < open + 1
  <2>1. CASE opens \/ log.text = << >>
    <3>1. Begins(whole, size + 1, size + 1)
      <4>1. whole.text[size + 1] \in whole.heads
        BY <1>2, <1>3, <2>1
      <4>2. /\ size + 1 <= size + 1 /\ (size + 1) - (size + 1) < SegmentLimit
            /\ ~ \E t \in size + 1 + 1 .. size + 1 : TRUE
        BY <1>1, LogConstants
      <4> QED
        BY <4>1, <4>2 DEF Begins
    <3>2. size + 1 \in 1 .. size + 1 /\ size + 1 - (size + 1) < open + 1
      BY <1>1
    <3> QED
      BY <3>1, <3>2
  <2>2. CASE ~ (opens \/ log.text = << >>)
    <3>1. PICK s \in 1 .. size : Begins(log, s, size) /\ size - s < open
      BY <2>2 DEF LastIsShort
    <3>2. s \in 1 .. size + 1 /\ s <= size + 1 /\ size + 1 - s < open + 1
          /\ size + 1 - s < SegmentLimit /\ size \in 1 .. size
      BY <1>1, <3>1, LogConstants
    <3>3. Begins(whole, s, size)
      BY <1>6, <3>1, <3>2
    <3>4. whole.text[size + 1] \notin whole.heads
      BY <1>2, <1>3, <2>2
    <3>5. ASSUME NEW t \in s + 1 .. size + 1, t # size + 1 PROVE t \in s + 1 .. size
      <4>1. s \in Nat /\ size \in Nat
        BY <1>1
      <4> QED
        BY <3>5, <4>1
    <3>6. Begins(whole, s, size + 1)
      BY <3>2, <3>3, <3>4, <3>5 DEF Begins
    <3> QED
      BY <3>2, <3>6
  <2> QED
    BY <2>1, <2>2
<1>8. Segmented(whole) /\ LastIsShort(whole, open + 1)
  <2>1. ASSUME NEW i \in 1 .. size + 1 PROVE \E s \in 1 .. i : Begins(whole, s, i)
    <3>1. CASE i = size + 1
      BY <1>7, <3>1
    <3>2. CASE i # size + 1
      <4>1. i \in 1 .. size
        BY <1>1, <3>2
      <4> QED
        BY <1>6, <4>1 DEF Segmented
    <3> QED
      BY <3>1, <3>2
  <2> QED
    BY <1>2, <1>5, <1>7, <2>1 DEF Segmented, LastIsShort
<1>9. PICK first \in Cuts(whole) : /\ Bounded(whole) = From(whole, first) /\ Fits(Bounded(whole))
                                   /\ first = 1 \/ Full(Bounded(whole))
  BY <1>8, BoundedIs
<1> DEFINE new == Bounded(whole)
<1>10. /\ Segmented(new) /\ Ends(whole.text, new.text) /\ Len(new.text) = size + 1 - first + 1
       /\ LastIsShort(new, open + 1)
       /\ \A i \in 1 .. Len(new.text) : new.text[i] = whole.text[first + i - 1]
  <2>1. open + 1 \in Nat
    OBVIOUS
  <2> DEFINE end == From(whole, first)
  <2>2. /\ Segmented(end) /\ Ends(whole.text, end.text)
        /\ Len(end.text) = Len(whole.text) - first + 1
        /\ \A i \in 1 .. Len(end.text) : end.text[i] = whole.text[first + i - 1]
        /\ LastIsShort(end, open + 1)
    BY <1>8, <2>1, FromIs
  <2>3. new = end
    BY <1>9
  <2> HIDE DEF new, end
  <2>4. Len(end.text) = size + 1 - first + 1
    <3>1. Len(whole.text) = size + 1
      BY <1>2
    <3>2. size \in Nat /\ first \in Nat
      BY <1>1, <1>2, <1>8, FromIs
    <3> HIDE DEF size
    <3> QED
      BY <2>2, <3>1, <3>2
  <2> QED
    BY <2>2, <2>3, <2>4
<1>11. ASSUME first = 1, Full(log) PROVE Full(new)
  <2>1. Len(new.text) = size + 1
    BY <1>1, <1>10, <1>11
  <2>2. CASE size + SegmentLimit >= LogLimit + 1
    BY <1>1, <2>1, <2>2, LogConstants DEF Full
  <2>3. CASE Cardinality(log.heads) = LogRunLimit
    <3>1. new.text \in Seq(Nat) /\ new.heads = whole.heads \cap ToSet(new.text)
      BY <1>9, <1>10 DEF Segmented, LogType, From, Part
    <3>2. ToSet(log.text) \subseteq ToSet(new.text)
      <4> SUFFICES ASSUME NEW x \in ToSet(log.text) PROVE x \in ToSet(new.text)
        OBVIOUS
      <4>1. PICK i \in 1 .. size : log.text[i] = x
        BY <1>1, Members
      <4>2. i \in 1 .. Len(new.text) /\ 1 + i - 1 = i
        BY <1>1, <2>1
      <4>3. new.text[i] = x
        BY <1>2, <1>10, <1>11, <4>1, <4>2
      <4> HIDE DEF new
      <4> QED
        BY <3>1, <4>2, <4>3, Members
    <3>3. log.heads \subseteq new.heads
      BY <1>1, <1>3, <3>1, <3>2
    <3>4. IsFiniteSet(new.heads) /\ Cardinality(new.heads) \in Nat
      <4> HIDE DEF new
      <4> QED
        BY <3>1, MembersFinite
    <3>5. Cardinality(log.heads) <= Cardinality(new.heads)
      <4> HIDE DEF new
      <4> QED
        BY <3>3, <3>4, FS_Subset
    <3>6. Cardinality(new.heads) <= LogRunLimit
      BY <1>9 DEF Fits
    <3>7. Cardinality(new.heads) = LogRunLimit
      BY <2>3, <3>4, <3>5, <3>6, LogConstants
    <3> QED
      BY <3>7 DEF Full
  <2> QED
    BY <1>11, <2>2, <2>3 DEF Full
<1>12. Full(new) \/ (Len(new.text) = size + 1 /\ ~ Full(log))
  <2>1. first = 1 => Len(new.text) = size + 1
    BY <1>1, <1>10
  <2> QED
    BY <1>9, <1>11, <2>1
<1>13. whole.text = Append(log.text, c)
  BY DEF whole
<1> QED
  BY <1>4, <1>9, <1>10, <1>12, <1>13

-----------------------------------------------------------------------------
(***************************************************************************)
(* The invariant.  A checkpoint that waits is the beginning of what its    *)
(* run has now, the run's log the end of it; so whichever of the two is    *)
(* written first, the stored log covers the end of the stored output.      *)
(***************************************************************************)

Run == [ pc : {"unused", "running", "done"}, output : Seq(Nat), base : Nat, log : LogType,
         open : Nat, pending : Seq(Seq(Nat)) ]

StoredRecord == [ status : {"queued", "running", "finished"}, owner : ResumeRuns \cup {NoRun},
                  recover : BOOLEAN, output : Seq(Nat), log : LogType ]

\* A text of characters streamed so far, in their order.
Streamed(text, n) ==
    /\ text \in Seq(Nat) /\ Increasing(text)
    /\ \A i \in 1 .. Len(text) : text[i] <= n

Prefix(beginning, text) ==
    /\ Len(beginning) <= Len(text)
    /\ \A i \in 1 .. Len(beginning) : beginning[i] = text[i]

\* text reaches the end of output and has no hole up to there.
Covers(text, output) ==
    text # << >> /\ output # << >> =>
        /\ text[Len(text)] >= output[Len(output)]
        /\ \A i \in 1 .. Len(output) : output[i] >= text[1] =>
               \E j \in 1 .. Len(text) : text[j] = output[i]

RunOK(run, enabled, n) ==
    /\ run \in Run
    /\ Streamed(run.output, n) /\ run.base <= Len(run.output)
    /\ \A k \in 1 .. Len(run.pending) : Prefix(run.pending[k], run.output)
    /\ Segmented(run.log) /\ Fits(run.log) /\ LastIsShort(run.log, run.open)
    /\ Ends(run.output, run.log.text)
    /\ enabled => Full(run.log) \/ Len(run.log.text) = Len(run.output) - run.base
    /\ ~ enabled => run.log.text = << >>
    /\ run.pc = "unused" => run = FreshRun

StoredOK(record, enabled, n) ==
    /\ record \in StoredRecord
    /\ Streamed(record.output, n) /\ Streamed(record.log.text, n)
    /\ Covers(record.log.text, record.output)
    /\ ~ enabled => record.log.text = << >>

ResumeInv ==
    /\ logEnabled \in BOOLEAN /\ streamed \in Nat
    /\ StoredOK(stored, logEnabled, streamed)
    /\ resumeRuns \in [ResumeRuns -> Run]
    /\ \A r \in ResumeRuns : RunOK(resumeRuns[r], logEnabled, streamed)

-----------------------------------------------------------------------------
LEMMA EmptyText ==
    /\ << >> \in Seq(Nat) /\ Len(<< >>) = 0 /\ << >> \in Seq(Seq(Nat))
    /\ \A n : Streamed(<< >>, n)
    /\ \A text : Covers(<< >>, text) /\ Covers(text, << >>)
    /\ \A text \in Seq(Nat) : Ends(text, << >>) /\ Prefix(<< >>, text) /\ Prefix(text, text)
<1>1. << >> \in Seq(Nat) /\ Len(<< >>) = 0 /\ << >> \in Seq(Seq(Nat))
  OBVIOUS
<1>2. \A i : i \notin 1 .. Len(<< >>)
  BY <1>1
<1>3. \A n : Streamed(<< >>, n)
  BY <1>1 DEF Streamed, Increasing
<1>4. \A text \in Seq(Nat) : Ends(text, << >>) /\ Prefix(<< >>, text) /\ Prefix(text, text)
  <2> SUFFICES ASSUME NEW text \in Seq(Nat)
               PROVE  Ends(text, << >>) /\ Prefix(<< >>, text) /\ Prefix(text, text)
    OBVIOUS
  <2>1. Len(text) \in Nat
    OBVIOUS
  <2> QED
    BY <1>1, <1>2, <2>1 DEF Ends, Prefix
<1> QED
  BY <1>1, <1>3, <1>4 DEF Covers

LEMMA EmptyLogIs ==
    /\ EmptyLog \in LogType /\ Segmented(EmptyLog) /\ Fits(EmptyLog) /\ EmptyLog.text = << >>
    /\ \A n : LastIsShort(EmptyLog, n)
<1>1. EmptyLog.text = << >> /\ EmptyLog.heads = {} /\ EmptyLog \in LogType
  BY EmptyText DEF EmptyLog, LogType
<1>2. \A i : i \notin 1 .. Len(EmptyLog.text)
  BY <1>1
<1>3. Fits(EmptyLog)
  BY <1>1, EmptyText, FS_EmptySet, LogConstants DEF Fits
<1> QED
  BY <1>1, <1>2, <1>3 DEF Segmented, LastIsShort

LEMMA FreshRunOK ==
    ASSUME NEW pc \in {"unused", "running", "done"}, NEW output, NEW enabled \in BOOLEAN,
           NEW n \in Nat, Streamed(output, n),
           pc = "unused" => output = << >>
    PROVE  LET run == [FreshRun EXCEPT !.pc = pc, !.output = output, !.base = Len(output)] IN
           RunOK(run, enabled, n)
<1> DEFINE run == [FreshRun EXCEPT !.pc = pc, !.output = output, !.base = Len(output)]
<1>1. /\ run.pc = pc /\ run.output = output /\ run.base = Len(output) /\ run.log = EmptyLog
      /\ run.open = 0 /\ run.pending = << >>
  BY DEF FreshRun
<1>2. output \in Seq(Nat) /\ Len(output) \in Nat
  BY DEF Streamed
<1>3. run \in Run
  <2>1. FreshRun \in Run
    BY EmptyText, EmptyLogIs DEF Run, FreshRun
  <2> QED
    BY <1>2, <2>1 DEF Run
<1>4. pc = "unused" => run = FreshRun
  <2> SUFFICES ASSUME pc = "unused" PROVE run = FreshRun
    OBVIOUS
  <2>1. output = << >> /\ Len(output) = 0
    BY EmptyText
  <2>2. run = [FreshRun EXCEPT !.pc = "unused", !.output = << >>, !.base = 0]
    BY <2>1
  <2>3. FreshRun.pc = "unused" /\ FreshRun.output = << >> /\ FreshRun.base = 0
    BY DEF FreshRun
  <2>4. FreshRun \in Run
    BY EmptyText, EmptyLogIs DEF Run, FreshRun
  <2> HIDE DEF run
  <2> QED
    BY <2>2, <2>3, <2>4 DEF Run
<1> HIDE DEF run
<1>5. \A k : k \notin 1 .. Len(run.pending)
  BY <1>1
<1>6. Len(run.log.text) = Len(run.output) - run.base
  BY <1>1, <1>2, EmptyLogIs, EmptyText
<1> QED
  BY <1>1, <1>2, <1>3, <1>4, <1>5, <1>6, EmptyText, EmptyLogIs DEF RunOK, run

LEMMA LaterStreamed ==
    ASSUME NEW text, NEW n \in Nat, NEW m \in Nat, n <= m, Streamed(text, n)
    PROVE  Streamed(text, m)
<1>1. \A i \in 1 .. Len(text) : text[i] \in Nat
  BY DEF Streamed
<1> QED
  BY <1>1 DEF Streamed

LEMMA StreamedOneMore ==
    ASSUME NEW text, NEW n \in Nat, Streamed(text, n)
    PROVE  Streamed(Append(text, n + 1), n + 1)
<1> DEFINE more == Append(text, n + 1)
           size == Len(text)
<1>1. /\ text \in Seq(Nat) /\ size \in Nat /\ DOMAIN text = 1 .. size
      /\ \A i \in 1 .. size : text[i] \in Nat /\ text[i] <= n
      /\ \A i, j \in 1 .. size : i < j => text[i] < text[j]
  BY DEF Streamed, Increasing
<1>2. /\ more \in Seq(Nat) /\ Len(more) = size + 1 /\ more[size + 1] = n + 1
      /\ \A i \in 1 .. size : more[i] = text[i]
  BY <1>1, AppendedText
<1> HIDE DEF more, size
<1>3. ASSUME NEW i \in 1 .. size + 1 PROVE i = size + 1 \/ i \in 1 .. size
  BY <1>1
<1>4. \A i \in 1 .. size : more[i] \in Nat /\ more[i] < n + 1
  BY <1>1, <1>2
<1>5. ASSUME NEW i \in 1 .. size + 1, NEW j \in 1 .. size + 1, i < j
      PROVE  more[i] < more[j]
  <2>1. i \in 1 .. size
    BY <1>1, <1>5
  <2>2. CASE j = size + 1
    BY <1>2, <1>4, <2>1, <2>2
  <2>3. CASE j \in 1 .. size
    BY <1>1, <1>2, <1>5, <2>1, <2>3
  <2> QED
    BY <1>3, <2>2, <2>3
<1>6. ASSUME NEW i \in 1 .. size + 1 PROVE more[i] <= n + 1
  <2>1. CASE i = size + 1
    BY <1>2, <2>1
  <2>2. CASE i \in 1 .. size
    BY <1>4, <2>2
  <2> QED
    BY <1>3, <2>1, <2>2
<1> QED
  BY <1>2, <1>5, <1>6 DEF Streamed, Increasing, more

LEMMA PrefixOfMore ==
    ASSUME NEW text \in Seq(Nat), NEW c \in Nat, NEW beginning \in Seq(Nat),
           Prefix(beginning, text)
    PROVE  Prefix(beginning, Append(text, c))
<1>1. /\ Len(text) \in Nat /\ Len(beginning) \in Nat /\ Len(beginning) <= Len(text)
      /\ Len(Append(text, c)) = Len(text) + 1
  BY AppendedText DEF Prefix
<1>2. \A i \in 1 .. Len(beginning) : i \in 1 .. Len(text)
  BY <1>1
<1>3. \A i \in 1 .. Len(beginning) : beginning[i] = Append(text, c)[i]
  BY <1>2, AppendedText DEF Prefix
<1>4. Len(beginning) <= Len(Append(text, c))
  BY <1>1
<1> QED
  BY <1>3, <1>4 DEF Prefix

\* One run's step.
LEMMA LogRunStep ==
    ASSUME ResumeInv, NEW r \in ResumeRuns, NEW run,
           resumeRuns' = [resumeRuns EXCEPT ![r] = run],
           logEnabled' = logEnabled, streamed' \in Nat, streamed' >= streamed,
           RunOK(run, logEnabled, streamed'), StoredOK(stored', logEnabled, streamed')
    PROVE  ResumeInv'
<1>1. run \in Run
  BY DEF RunOK
<1>2. resumeRuns' \in [ResumeRuns -> Run] /\ resumeRuns'[r] = run
      /\ \A s \in ResumeRuns : s # r => resumeRuns'[s] = resumeRuns[s]
  BY <1>1 DEF ResumeInv
<1>3. ASSUME NEW s \in ResumeRuns PROVE RunOK(resumeRuns'[s], logEnabled, streamed')
  <2>1. CASE s = r
    BY <1>2, <2>1
  <2>2. CASE s # r
    <3>1. RunOK(resumeRuns[s], logEnabled, streamed)
      BY DEF ResumeInv
    <3>2. Streamed(resumeRuns[s].output, streamed')
      BY <3>1, LaterStreamed DEF ResumeInv, RunOK
    <3> QED
      BY <1>2, <2>2, <3>1, <3>2 DEF RunOK
  <2> QED
    BY <2>1, <2>2
<1> QED
  BY <1>2, <1>3 DEF ResumeInv

LEMMA RunIs ==
    ASSUME ResumeInv, NEW r \in ResumeRuns
    PROVE  /\ RunOK(resumeRuns[r], logEnabled, streamed) /\ resumeRuns[r] \in Run
           /\ resumeRuns[r].output \in Seq(Nat) /\ resumeRuns[r].pending \in Seq(Seq(Nat))
           /\ resumeRuns[r].base \in Nat /\ resumeRuns[r].open \in Nat
           /\ resumeRuns[r].log \in LogType /\ resumeRuns[r].log.text \in Seq(Nat)
           /\ stored \in StoredRecord /\ stored.output \in Seq(Nat) /\ stored.log \in LogType
           /\ stored.log.text \in Seq(Nat)
           /\ streamed \in Nat /\ logEnabled \in BOOLEAN
  BY DEF ResumeInv, RunOK, StoredOK, Run, StoredRecord, LogType

LEMMA ClaimRunStep ==
    ASSUME ResumeInv, NEW r \in ResumeRuns, ClaimRun(r)
    PROVE  ResumeInv'
<1> DEFINE recover == stored.recover \/ stored.status = "running"
           output == IF recover THEN stored.output ELSE << >>
           run == [FreshRun EXCEPT !.pc = "running", !.output = output, !.base = Len(output)]
<1>1. /\ stored' = [stored EXCEPT !.status = "running", !.owner = r, !.recover = FALSE,
                                  !.output = output]
      /\ resumeRuns' = [resumeRuns EXCEPT ![r].pc = "running", ![r].output = output,
                                          ![r].base = Len(output)]
      /\ resumeRuns[r] = FreshRun /\ logEnabled' = logEnabled /\ streamed' = streamed
  BY RunIs DEF ClaimRun, RunOK
<1>2. resumeRuns' = [resumeRuns EXCEPT ![r] = run]
  BY <1>1
<1>3. Streamed(output, streamed) /\ Covers(stored.log.text, output)
  BY EmptyText DEF ResumeInv, StoredOK
<1>4. RunOK(run, logEnabled, streamed')
  <2> HIDE DEF output
  <2> QED
    BY <1>1, <1>3, RunIs, FreshRunOK
<1> HIDE DEF output
<1>5. StoredOK(stored', logEnabled, streamed')
  <2>1. output \in Seq(Nat) /\ stored \in StoredRecord
    BY <1>3, RunIs DEF Streamed
  <2>2. stored' \in StoredRecord /\ stored'.output = output /\ stored'.log = stored.log
    BY <1>1, <2>1 DEF StoredRecord
  <2> QED
    BY <1>1, <1>3, <2>2 DEF ResumeInv, StoredOK
<1> HIDE DEF run
<1>6. streamed' \in Nat /\ streamed' >= streamed /\ logEnabled' = logEnabled
  BY <1>1, RunIs
<1> QED
  BY <1>2, <1>4, <1>5, <1>6, LogRunStep

LEMMA StreamCharStep ==
    ASSUME ResumeInv, NEW r \in ResumeRuns, NEW opens \in BOOLEAN, StreamChar(r, opens)
    PROVE  ResumeInv'
<1> DEFINE old == resumeRuns[r]
           open == IF opens THEN 0 ELSE old.open
           c == streamed + 1
           log == IF logEnabled THEN Record(old.log, c, opens) ELSE old.log
           output == Append(old.output, c)
           run == [old EXCEPT !.output = output, !.open = open + 1, !.log = log]
<1>1. /\ old.pc = "running" /\ open < SegmentLimit /\ streamed' = c
      /\ resumeRuns' = [resumeRuns EXCEPT ![r].output = output, ![r].open = open + 1,
                                          ![r].log = log]
      /\ logEnabled' = logEnabled /\ stored' = stored
  BY RunIs DEF StreamChar
<1>2. resumeRuns' = [resumeRuns EXCEPT ![r] = run]
  BY <1>1
<1>3. c \in Nat /\ c > streamed /\ streamed \in Nat /\ open \in Nat
  BY RunIs
<1>4. /\ output \in Seq(Nat) /\ Len(output) = Len(old.output) + 1
      /\ \A i \in 1 .. Len(old.output) : output[i] = old.output[i]
      /\ output[Len(old.output) + 1] = c
  BY <1>3, RunIs, AppendedText
<1>5. RunOK(old, logEnabled, streamed) /\ old \in Run
  BY RunIs
<1>6. Streamed(output, c)
  BY <1>5, RunIs, StreamedOneMore DEF RunOK
<1>7. ASSUME logEnabled
      PROVE  /\ Segmented(log) /\ Fits(log) /\ LastIsShort(log, open + 1) /\ Ends(output, log.text)
             /\ Full(log) \/ Len(log.text) = Len(output) - old.base
  <2>1. log = Record(old.log, c, opens)
    BY <1>7
  <2>2. \A i \in 1 .. Len(old.log.text) : old.log.text[i] < c
    <3> SUFFICES ASSUME NEW i \in 1 .. Len(old.log.text) PROVE old.log.text[i] < c
      OBVIOUS
    <3> DEFINE j == Len(old.output) - Len(old.log.text) + i
    <3>1. old.log.text[i] = old.output[j] /\ Len(old.log.text) <= Len(old.output)
      BY <1>5 DEF RunOK, Ends
    <3>2. j \in 1 .. Len(old.output)
      <4>1. Len(old.output) \in Nat /\ Len(old.log.text) \in Nat
        BY RunIs
      <4>2. \A a, b \in Nat : \A k \in 1 .. b : b <= a => a - b + k \in 1 .. a
        OBVIOUS
      <4> QED
        BY <3>1, <4>1, <4>2
    <3> HIDE DEF j, old
    <3>3. old.output[j] <= streamed /\ old.output[j] \in Nat
      <4>1. Streamed(old.output, streamed)
        BY <1>5 DEF RunOK
      <4> QED
        BY <3>2, <4>1, Members DEF Streamed
    <3> QED
      BY <1>3, <3>1, <3>3
  <2>3. Segmented(old.log) /\ (~ opens => LastIsShort(old.log, open))
    BY <1>5 DEF RunOK
  <2>4. /\ Segmented(log) /\ Fits(log) /\ LastIsShort(log, open + 1)
        /\ Ends(Append(old.log.text, c), log.text)
        /\ Full(log) \/ (Len(log.text) = Len(old.log.text) + 1 /\ ~ Full(old.log))
    <3> HIDE DEF log, open
    <3> QED
      BY <1>1, <1>3, <2>1, <2>2, <2>3, RecordIs
  <2>5. Ends(output, Append(old.log.text, c))
    BY <1>3, <1>5, RunIs, EndsAppended DEF RunOK
  <2>6. Append(old.log.text, c) \in Seq(Nat) /\ log.text \in Seq(Nat)
    BY <1>3, <2>4, RunIs, AppendedText DEF Segmented, LogType
  <2>7. Ends(output, log.text)
    <3> HIDE DEF log, output
    <3> QED
      BY <1>4, <2>4, <2>5, <2>6, EndsOfEnds
  <2>8. Full(old.log) \/ Len(old.log.text) = Len(old.output) - old.base
    BY <1>5, <1>7 DEF RunOK
  <2>9. Len(old.output) \in Nat /\ Len(old.log.text) \in Nat /\ old.base \in Nat
    BY RunIs
  <2>10. Full(log) \/ Len(log.text) = Len(output) - old.base
    <3>1. Len(output) = Len(old.output) + 1
      BY <1>4
    <3> HIDE DEF log, output, old
    <3> QED
      BY <2>4, <2>8, <2>9, <3>1
  <2> QED
    BY <2>4, <2>7, <2>10
<1>8. ASSUME ~ logEnabled
      PROVE  /\ log = old.log /\ log.text = << >> /\ Segmented(log) /\ Fits(log)
             /\ LastIsShort(log, open + 1) /\ Ends(output, log.text)
  BY <1>4, <1>5, <1>8, EmptyText DEF RunOK, LastIsShort
<1>9. log \in LogType
  BY <1>7, <1>8 DEF Segmented
<1>10. /\ run \in Run /\ run.pc = "running" /\ run.output = output /\ run.open = open + 1
       /\ run.log = log /\ run.base = old.base /\ run.pending = old.pending
  <2>1. open + 1 \in Nat
    BY <1>3
  <2> HIDE DEF log, output, open
  <2> QED
    BY <1>1, <1>4, <1>5, <1>9, <2>1 DEF Run
<1>11. ASSUME NEW k \in 1 .. Len(old.pending) PROVE Prefix(old.pending[k], output)
  <2>1. Prefix(old.pending[k], old.output) /\ old.pending[k] \in Seq(Nat)
    BY <1>5, RunIs DEF RunOK
  <2> HIDE DEF c, old
  <2> QED
    BY <1>3, <1>5, <2>1, PrefixOfMore DEF Run
<1>12. old.base <= Len(output)
  <2>1. old.base \in Nat /\ Len(old.output) \in Nat /\ old.base <= Len(old.output)
    BY <1>5, RunIs DEF RunOK
  <2> HIDE DEF output, old
  <2> QED
    BY <1>4, <2>1
<1>13. RunOK(run, logEnabled, c)
  <2> HIDE DEF log, output, open, run, c, old
  <2> QED
    BY <1>6, <1>7, <1>8, <1>10, <1>11, <1>12 DEF RunOK
<1>14. StoredOK(stored', logEnabled, c)
  <2>1. streamed <= c
    BY <1>3
  <2> HIDE DEF c
  <2> QED
    BY <1>1, <1>3, <2>1, LaterStreamed DEF ResumeInv, StoredOK
<1>15. streamed' = c /\ streamed' \in Nat /\ streamed' >= streamed /\ logEnabled' = logEnabled
  <2> HIDE DEF c
  <2> QED
    BY <1>1, <1>3
<1> HIDE DEF run, c
<1> QED
  BY <1>2, <1>13, <1>14, <1>15, LogRunStep

LEMMA FlushCheckpointStep ==
    ASSUME ResumeInv, NEW r \in ResumeRuns, FlushCheckpoint(r)
    PROVE  ResumeInv'
<1> DEFINE old == resumeRuns[r]
           pending == Append(old.pending, old.output)
           run == [old EXCEPT !.pending = pending]
<1>1. /\ resumeRuns' = [resumeRuns EXCEPT ![r].pending = pending] /\ old.pc = "running"
      /\ stored' = stored /\ streamed' = streamed /\ logEnabled' = logEnabled
  BY DEF FlushCheckpoint
<1>2. resumeRuns' = [resumeRuns EXCEPT ![r] = run]
  BY <1>1
<1>3. old \in Run /\ old.output \in Seq(Nat) /\ old.pending \in Seq(Seq(Nat))
      /\ RunOK(old, logEnabled, streamed)
  BY RunIs
<1> HIDE DEF old
<1>4. /\ pending \in Seq(Seq(Nat)) /\ Len(pending) = Len(old.pending) + 1
      /\ \A k \in 1 .. Len(old.pending) : pending[k] = old.pending[k]
      /\ pending[Len(old.pending) + 1] = old.output /\ Len(old.pending) \in Nat
  BY <1>3
<1> HIDE DEF pending
<1>5. ASSUME NEW k \in 1 .. Len(pending) PROVE Prefix(pending[k], old.output)
  <2>1. CASE k = Len(old.pending) + 1
    BY <1>3, <1>4, <2>1, EmptyText
  <2>2. CASE k # Len(old.pending) + 1
    <3>1. k \in 1 .. Len(old.pending)
      BY <1>4, <2>2
    <3> QED
      BY <1>3, <1>4, <3>1 DEF RunOK
  <2> QED
    BY <2>1, <2>2
<1>6. /\ run \in Run /\ run.pc = "running" /\ run.output = old.output /\ run.open = old.open
      /\ run.log = old.log /\ run.base = old.base /\ run.pending = pending
  BY <1>1, <1>3, <1>4 DEF Run
<1> HIDE DEF run
<1>7. RunOK(run, logEnabled, streamed)
  BY <1>3, <1>5, <1>6 DEF RunOK
<1>8. StoredOK(stored, logEnabled, streamed) /\ streamed \in Nat
  BY DEF ResumeInv
<1>9. streamed' \in Nat /\ streamed' >= streamed /\ logEnabled' = logEnabled
  BY <1>1, <1>8
<1>10. RunOK(run, logEnabled, streamed') /\ StoredOK(stored', logEnabled, streamed')
  BY <1>1, <1>7, <1>8
<1> QED
  BY <1>2, <1>9, <1>10, LogRunStep

\* What a checkpoint writes: the log of its moment covers the end of the older output.
LEMMA EndCoversBeginning ==
    ASSUME NEW output \in Seq(Nat), Increasing(output),
           NEW beginning \in Seq(Nat), Prefix(beginning, output),
           NEW text \in Seq(Nat), Ends(output, text)
    PROVE  Covers(text, beginning)
<1>1. /\ Len(output) \in Nat /\ Len(beginning) \in Nat /\ Len(text) \in Nat
      /\ Len(beginning) <= Len(output) /\ Len(text) <= Len(output)
      /\ DOMAIN output = 1 .. Len(output)
      /\ \A i \in 1 .. Len(output) : output[i] \in Nat
  BY DEF Prefix, Ends
<1> SUFFICES ASSUME text # << >>, beginning # << >>
             PROVE  /\ text[Len(text)] >= beginning[Len(beginning)]
                    /\ \A i \in 1 .. Len(beginning) : beginning[i] >= text[1] =>
                           \E j \in 1 .. Len(text) : text[j] = beginning[i]
  BY DEF Covers
<1>2. Len(text) >= 1 /\ Len(beginning) >= 1
  BY <1>1, Members
<1>3. text[Len(text)] >= beginning[Len(beginning)]
  <2>1. Len(text) \in 1 .. Len(text) /\ Len(beginning) \in 1 .. Len(beginning)
        /\ Len(output) - Len(text) + Len(text) = Len(output)
        /\ Len(output) \in 1 .. Len(output) /\ Len(beginning) \in 1 .. Len(output)
    BY <1>1, <1>2
  <2>2. text[Len(text)] = output[Len(output)] /\ beginning[Len(beginning)] = output[Len(beginning)]
    BY <2>1 DEF Ends, Prefix
  <2>3. CASE Len(beginning) = Len(output)
    BY <1>1, <2>1, <2>2, <2>3
  <2>4. CASE Len(beginning) < Len(output)
    <3>1. output[Len(beginning)] < output[Len(output)]
      BY <1>1, <2>1, <2>4 DEF Increasing
    <3> QED
      BY <1>1, <2>1, <2>2, <3>1
  <2> QED
    BY <1>1, <2>3, <2>4
<1>4. ASSUME NEW i \in 1 .. Len(beginning), beginning[i] >= text[1]
      PROVE  \E j \in 1 .. Len(text) : text[j] = beginning[i]
  <2> DEFINE d == Len(output) - Len(text)
  <2>1. d \in Nat /\ d + 1 \in 1 .. Len(output) /\ i \in 1 .. Len(output) /\ 1 \in 1 .. Len(text)
    BY <1>1, <1>2
  <2>2. text[1] = output[d + 1] /\ beginning[i] = output[i]
    BY <2>1 DEF Ends, Prefix
  <2> HIDE DEF d
  <2>3. i >= d + 1
    <3>1. CASE i < d + 1
      <4>1. output[i] < output[d + 1]
        BY <1>1, <2>1, <3>1 DEF Increasing
      <4> QED
        BY <1>1, <1>4, <2>1, <2>2, <4>1
    <3> QED
      BY <2>1, <3>1
  <2>4. i - d \in 1 .. Len(text) /\ d + (i - d) = i
    BY <1>1, <2>1, <2>3 DEF d
  <2>5. text[i - d] = output[d + (i - d)]
    BY <2>4 DEF Ends, d
  <2> QED
    BY <2>2, <2>4, <2>5
<1> QED
  BY <1>3, <1>4

LEMMA WriteCheckpointStep ==
    ASSUME ResumeInv, NEW r \in ResumeRuns, WriteCheckpoint(r)
    PROVE  ResumeInv'
<1> DEFINE old == resumeRuns[r]
           pending == Tail(old.pending)
           run == [old EXCEPT !.pending = pending]
           output == Head(old.pending)
           log == IF logEnabled THEN old.log ELSE stored.log
<1>1. /\ resumeRuns' = [resumeRuns EXCEPT ![r].pending = pending] /\ old.pending # << >>
      /\ \/ stored' = [stored EXCEPT !.output = output, !.log = log]
         \/ stored' = stored
      /\ streamed' = streamed /\ logEnabled' = logEnabled
  BY DEF WriteCheckpoint
<1>2. resumeRuns' = [resumeRuns EXCEPT ![r] = run]
  BY <1>1
<1>3. old \in Run /\ old.output \in Seq(Nat) /\ old.pending \in Seq(Seq(Nat))
      /\ RunOK(old, logEnabled, streamed) /\ old.log \in LogType /\ old.log.text \in Seq(Nat)
      /\ stored \in StoredRecord /\ StoredOK(stored, logEnabled, streamed) /\ streamed \in Nat
  BY RunIs DEF ResumeInv
<1> HIDE DEF old
<1>4. /\ pending \in Seq(Seq(Nat)) /\ Len(pending) = Len(old.pending) - 1
      /\ \A k \in 1 .. Len(old.pending) - 1 : pending[k] = old.pending[k + 1]
      /\ Len(old.pending) \in Nat /\ Len(old.pending) >= 1
      /\ output = old.pending[1] /\ output \in Seq(Nat)
  BY <1>1, <1>3
<1> HIDE DEF pending, output
<1>5. ASSUME NEW k \in 1 .. Len(pending) PROVE Prefix(pending[k], old.output)
  <2>1. k + 1 \in 1 .. Len(old.pending) /\ k \in 1 .. Len(old.pending) - 1
    BY <1>4
  <2> QED
    BY <1>3, <1>4, <2>1 DEF RunOK
<1>6. /\ run \in Run /\ run.pc = old.pc /\ run.output = old.output /\ run.open = old.open
      /\ run.log = old.log /\ run.base = old.base /\ run.pending = pending
  BY <1>3, <1>4 DEF Run
<1>7. run.pc # "unused"
  <2> SUFFICES ASSUME old.pc = "unused" PROVE FALSE
    BY <1>6
  <2>1. old.pending = << >>
    BY <1>3 DEF RunOK, FreshRun
  <2> QED
    BY <1>1, <2>1
<1> HIDE DEF run
<1>8. RunOK(run, logEnabled, streamed)
  BY <1>3, <1>5, <1>6, <1>7 DEF RunOK
<1>9. Prefix(output, old.output)
  <2>1. 1 \in 1 .. Len(old.pending)
    BY <1>4
  <2> QED
    BY <1>3, <1>4, <2>1 DEF RunOK
<1>10. Streamed(old.output, streamed) /\ Ends(old.output, old.log.text)
  BY <1>3 DEF RunOK
<1>11. Streamed(output, streamed)
  <2>1. /\ Len(output) \in Nat /\ Len(old.output) \in Nat /\ Len(output) <= Len(old.output)
        /\ DOMAIN output = 1 .. Len(output) /\ DOMAIN old.output = 1 .. Len(old.output)
        /\ \A i \in 1 .. Len(output) : output[i] = old.output[i]
    BY <1>3, <1>4, <1>9 DEF Prefix
  <2>2. \A i \in 1 .. Len(output) : i \in 1 .. Len(old.output)
    BY <2>1
  <2>3. Increasing(output)
    BY <1>10, <2>1, <2>2 DEF Streamed, Increasing
  <2>4. \A i \in 1 .. Len(output) : output[i] <= streamed
    BY <1>10, <2>1, <2>2 DEF Streamed
  <2> QED
    BY <1>4, <2>3, <2>4 DEF Streamed
<1>12. Streamed(old.log.text, streamed)
  <2>1. Increasing(old.log.text)
    BY <1>3, <1>10, EndIncreases DEF Streamed
  <2>2. ASSUME NEW i \in 1 .. Len(old.log.text) PROVE old.log.text[i] <= streamed
    <3>1. Len(old.output) \in Nat /\ Len(old.log.text) \in Nat
      BY <1>3
    <3>2. \A a, b \in Nat : \A k \in 1 .. b : b <= a => a - b + k \in 1 .. a
      OBVIOUS
    <3>3. Len(old.log.text) <= Len(old.output)
          /\ old.log.text[i] = old.output[Len(old.output) - Len(old.log.text) + i]
      BY <1>10 DEF Ends
    <3>4. Len(old.output) - Len(old.log.text) + i \in 1 .. Len(old.output)
      BY <3>1, <3>2, <3>3
    <3> QED
      BY <1>10, <3>3, <3>4 DEF Streamed
  <2> QED
    BY <1>3, <2>1, <2>2 DEF Streamed
<1>13. /\ log \in LogType /\ Streamed(log.text, streamed) /\ Covers(log.text, output)
       /\ ~ logEnabled => log.text = << >>
  <2>1. CASE logEnabled
    <3>1. Covers(old.log.text, output)
      BY <1>3, <1>4, <1>9, <1>10, EndCoversBeginning DEF Streamed
    <3> QED
      BY <1>3, <1>12, <2>1, <3>1
  <2>2. CASE ~ logEnabled
    <3>1. stored.log.text = << >> /\ stored.log \in LogType /\ Streamed(stored.log.text, streamed)
      BY <1>3, <2>2 DEF StoredOK, StoredRecord
    <3> QED
      BY <2>2, <3>1, EmptyText
  <2> QED
    BY <2>1, <2>2
<1> HIDE DEF log
<1>14. StoredOK(stored', logEnabled, streamed)
  <2>1. CASE stored' = [stored EXCEPT !.output = output, !.log = log]
    <3>1. stored' \in StoredRecord /\ stored'.output = output /\ stored'.log = log
      BY <1>3, <1>4, <1>13, <2>1 DEF StoredRecord
    <3> QED
      BY <1>11, <1>13, <3>1 DEF StoredOK
  <2>2. CASE stored' = stored
    BY <1>3, <2>2
  <2> QED
    BY <1>1, <2>1, <2>2
<1>15. streamed' \in Nat /\ streamed' >= streamed /\ logEnabled' = logEnabled
  BY <1>1, <1>3
<1>16. RunOK(run, logEnabled, streamed') /\ StoredOK(stored', logEnabled, streamed')
  BY <1>1, <1>8, <1>14
<1> QED
  BY <1>2, <1>15, <1>16, LogRunStep

\* A run is over; what it leaves in the record is as good as before.
LEMMA EndRunStep ==
    ASSUME ResumeInv, NEW r \in ResumeRuns, EndRun(r), UNCHANGED <<logEnabled, streamed>>,
           StoredOK(stored', logEnabled, streamed)
    PROVE  ResumeInv'
<1> DEFINE run == [FreshRun EXCEPT !.pc = "done", !.output = << >>, !.base = Len(<< >>)]
<1>1. RunOK(run, logEnabled, streamed)
  BY RunIs, FreshRunOK, EmptyText
<1>2. run = [FreshRun EXCEPT !.pc = "done"]
  <2>1. run = [FreshRun EXCEPT !.pc = "done", !.output = << >>, !.base = 0]
    BY EmptyText
  <2>2. FreshRun.output = << >> /\ FreshRun.base = 0
    BY DEF FreshRun
  <2>3. FreshRun \in Run
    BY EmptyText, EmptyLogIs DEF Run, FreshRun
  <2> HIDE DEF run
  <2> QED
    BY <2>1, <2>2, <2>3 DEF Run
<1>3. resumeRuns' = [resumeRuns EXCEPT ![r] = run]
  BY <1>2 DEF EndRun
<1> HIDE DEF run
<1>4. streamed' \in Nat /\ streamed' >= streamed /\ logEnabled' = logEnabled
  BY RunIs
<1>5. RunOK(run, logEnabled, streamed') /\ StoredOK(stored', logEnabled, streamed')
  BY <1>1
<1> QED
  BY <1>3, <1>4, <1>5, LogRunStep

LEMMA FinishRunStep ==
    ASSUME ResumeInv, NEW r \in ResumeRuns, FinishRun(r)
    PROVE  ResumeInv'
<1> DEFINE log == IF logEnabled THEN EmptyLog ELSE stored.log
           cleared == [stored EXCEPT !.log = log]
           output == resumeRuns[r].output
<1>1. /\ EndRun(r) /\ UNCHANGED <<logEnabled, streamed>>
      /\ \/ stored' = [cleared EXCEPT !.status = "finished", !.owner = NoRun, !.output = output]
         \/ stored' = cleared
  BY DEF FinishRun
<1>2. /\ log \in LogType /\ log.text = << >>
  BY RunIs, EmptyLogIs DEF ResumeInv, StoredOK
<1>3. /\ Streamed(output, streamed) /\ output \in Seq(Nat) /\ stored \in StoredRecord
      /\ Streamed(stored.output, streamed)
  BY RunIs DEF RunOK, ResumeInv, StoredOK
<1> HIDE DEF log, output
<1>4. /\ stored' \in StoredRecord /\ stored'.log = log
      /\ stored'.output = output \/ stored'.output = stored.output
  BY <1>1, <1>2, <1>3 DEF StoredRecord
<1>5. StoredOK(stored', logEnabled, streamed)
  BY <1>2, <1>3, <1>4, EmptyText DEF StoredOK
<1> QED
  BY <1>1, <1>5, EndRunStep

LEMMA AbortRunStep ==
    ASSUME ResumeInv, NEW r \in ResumeRuns, AbortRun(r) \/ LoseRun(r)
    PROVE  ResumeInv'
<1>1. /\ EndRun(r) /\ UNCHANGED <<logEnabled, streamed>>
      /\ \/ stored' = [stored EXCEPT !.status = "queued", !.owner = NoRun, !.recover = TRUE]
         \/ stored' = stored
  BY DEF AbortRun, LoseRun
<1>2. stored \in StoredRecord /\ StoredOK(stored, logEnabled, streamed)
  BY RunIs DEF ResumeInv
<1>3. stored' \in StoredRecord /\ stored'.output = stored.output /\ stored'.log = stored.log
  BY <1>1, <1>2 DEF StoredRecord
<1>4. StoredOK(stored', logEnabled, streamed)
  BY <1>2, <1>3 DEF StoredOK
<1> QED
  BY <1>1, <1>4, EndRunStep

-----------------------------------------------------------------------------
LEMMA ResumeInitInv == ResumeInit => ResumeInv
<1> SUFFICES ASSUME ResumeInit PROVE ResumeInv
  OBVIOUS
<1>1. streamed \in Nat /\ logEnabled \in BOOLEAN
  BY DEF ResumeInit
<1>2. StoredOK(stored, logEnabled, streamed)
  <2>1. stored \in StoredRecord /\ stored.output = << >> /\ stored.log = EmptyLog
    BY EmptyText, EmptyLogIs DEF ResumeInit, StoredRecord
  <2> QED
    BY <2>1, EmptyText, EmptyLogIs DEF StoredOK
<1>3. RunOK(FreshRun, logEnabled, streamed)
  <2> DEFINE run == [FreshRun EXCEPT !.pc = "unused", !.output = << >>, !.base = Len(<< >>)]
  <2>1. RunOK(run, logEnabled, streamed)
    BY <1>1, FreshRunOK, EmptyText
  <2>2. run.pc = "unused"
    BY DEF FreshRun
  <2> HIDE DEF run
  <2>3. run = FreshRun
    BY <2>1, <2>2 DEF RunOK
  <2> QED
    BY <2>1, <2>3
<1>4. FreshRun \in Run
  BY <1>3 DEF RunOK
<1> QED
  BY <1>1, <1>2, <1>3, <1>4 DEF ResumeInit, ResumeInv

LEMMA ResumeNextInv == ResumeInv /\ [ResumeNext]_resumeVars => ResumeInv'
<1> SUFFICES ASSUME ResumeInv, [ResumeNext]_resumeVars PROVE ResumeInv'
  OBVIOUS
<1>1. CASE UNCHANGED resumeVars
  BY <1>1 DEF resumeVars, ResumeInv
<1>2. ASSUME NEW r \in ResumeRuns, ClaimRun(r) PROVE ResumeInv'
  BY <1>2, ClaimRunStep
<1>3. ASSUME NEW r \in ResumeRuns, NEW opens \in BOOLEAN, StreamChar(r, opens) PROVE ResumeInv'
  BY <1>3, StreamCharStep
<1>4. ASSUME NEW r \in ResumeRuns, FlushCheckpoint(r) PROVE ResumeInv'
  BY <1>4, FlushCheckpointStep
<1>5. ASSUME NEW r \in ResumeRuns, WriteCheckpoint(r) PROVE ResumeInv'
  BY <1>5, WriteCheckpointStep
<1>6. ASSUME NEW r \in ResumeRuns, FinishRun(r) PROVE ResumeInv'
  BY <1>6, FinishRunStep
<1>7. ASSUME NEW r \in ResumeRuns, AbortRun(r) \/ LoseRun(r) PROVE ResumeInv'
  BY <1>7, AbortRunStep
<1> QED
  BY <1>1, <1>2, <1>3, <1>4, <1>5, <1>6, <1>7 DEF ResumeNext

\* The last n characters of a text, or all of it.
LEMMA TailIs ==
    ASSUME NEW text \in Seq(Nat), NEW n \in Nat
    PROVE  /\ TailOf(text, n) \in Seq(Nat) /\ Ends(text, TailOf(text, n))
           /\ Len(TailOf(text, n)) = IF Len(text) > n THEN n ELSE Len(text)
<1> DEFINE first == 1 + (IF Len(text) > n THEN Len(text) - n ELSE 0)
           end == SubSeq(text, first, Len(text))
<1>1. Len(text) \in Nat
  OBVIOUS
<1>2. /\ first \in 1 .. Len(text) + 1
      /\ Len(text) - first + 1 = IF Len(text) > n THEN n ELSE Len(text)
  BY <1>1
<1> HIDE DEF first
<1>3. /\ end \in Seq(Nat) /\ Len(end) = Len(text) - first + 1
      /\ \A i \in 1 .. Len(end) : end[i] = text[first + i - 1]
  BY <1>2, SuffixIs
<1>4. TailOf(text, n) = end
  BY DEF TailOf, first
<1> HIDE DEF end
<1>5. Len(end) <= Len(text) /\ \A i \in 1 .. Len(end) : Len(text) - Len(end) + i = first + i - 1
  BY <1>1, <1>2, <1>3
<1>6. Ends(text, end)
  BY <1>3, <1>5 DEF Ends
<1> QED
  BY <1>2, <1>3, <1>4, <1>6

LEMMA CoveringTail ==
    ASSUME NEW text \in Seq(Nat), Increasing(text), NEW output \in Seq(Nat), Covers(text, output),
           text # << >>, output # << >>
    PROVE  LET tail == TailOf(text, TailLimit) IN
           /\ tail # << >> /\ Last(tail) >= Last(output)
           /\ \A c \in ToSet(output) : c >= Head(tail) => c \in ToSet(tail)
<1> DEFINE tail == TailOf(text, TailLimit)
<1>1. /\ tail \in Seq(Nat) /\ Ends(text, tail)
      /\ Len(tail) = IF Len(text) > TailLimit THEN TailLimit ELSE Len(text)
  BY TailIs, LogConstants
<1> HIDE DEF tail
<1>2. /\ Len(text) \in Nat /\ Len(tail) \in Nat /\ Len(text) >= 1 /\ Len(output) \in Nat
      /\ Len(tail) >= 1 /\ Len(tail) <= Len(text)
      /\ DOMAIN text = 1 .. Len(text) /\ tail # << >>
  BY <1>1, Members, LogConstants
<1>3. Last(tail) >= Last(output)
  <2>1. Len(tail) \in 1 .. Len(tail) /\ Len(text) - Len(tail) + Len(tail) = Len(text)
    BY <1>2
  <2>2. tail[Len(tail)] = text[Len(text)]
    BY <1>1, <2>1 DEF Ends
  <2> QED
    BY <2>2 DEF Covers, Last
<1>4. ASSUME NEW c \in ToSet(output), c >= Head(tail) PROVE c \in ToSet(tail)
  <2> DEFINE d == Len(text) - Len(tail)
  <2>1. PICK i \in 1 .. Len(output) : output[i] = c
    BY Members
  <2>2. d \in Nat /\ d + 1 \in 1 .. Len(text) /\ 1 \in 1 .. Len(tail) /\ 1 \in 1 .. Len(text)
    BY <1>2
  <2>3. Head(tail) = tail[1] /\ tail[1] = text[d + 1]
    BY <1>1, <1>2, <2>2 DEF Ends
  <2> HIDE DEF d
  <2>4. c \in Nat /\ text[1] \in Nat /\ text[d + 1] \in Nat
    BY <2>2, Members
  <2>5. text[d + 1] >= text[1]
    <3>1. CASE d = 0
      BY <2>4, <3>1
    <3>2. CASE d > 0
      <4>1. 1 < d + 1
        BY <2>2, <3>2
      <4>2. text[1] < text[d + 1]
        BY <1>2, <2>2, <4>1 DEF Increasing
      <4> QED
        BY <2>4, <4>2
    <3> QED
      BY <2>2, <3>1, <3>2
  <2>6. c >= text[1]
    BY <1>4, <2>3, <2>4, <2>5
  <2>7. PICK j \in 1 .. Len(text) : text[j] = c
    BY <2>1, <2>6 DEF Covers
  <2>8. j >= d + 1
    <3>1. CASE j < d + 1
      <4>1. text[j] < text[d + 1]
        BY <1>2, <2>2, <3>1 DEF Increasing
      <4> QED
        BY <1>4, <2>3, <2>4, <2>7, <4>1
    <3> QED
      BY <2>2, <3>1
  <2>9. j - d \in 1 .. Len(tail) /\ d + (j - d) = j
    BY <1>2, <2>2, <2>8 DEF d
  <2>10. tail[j - d] = text[d + (j - d)]
    BY <1>1, <2>9 DEF Ends, d
  <2>11. tail[j - d] = c
    BY <2>7, <2>9, <2>10
  <2> HIDE DEF d
  <2> QED
    BY <1>1, <2>9, <2>11, Members
<1> QED
  BY <1>2, <1>3, <1>4 DEF tail

LEMMA InvKnowsTheEnd == ResumeInv => SuccessorKnowsTheEnd
<1> SUFFICES ASSUME ResumeInv, stored.output # << >>
             PROVE  LET tail == ResumeTail(stored) IN
                    /\ tail # << >> /\ Last(tail) >= Last(stored.output)
                    /\ \A c \in ToSet(stored.output) : c >= Head(tail) => c \in ToSet(tail)
  BY DEF SuccessorKnowsTheEnd
<1>1. /\ Streamed(stored.output, streamed) /\ Streamed(stored.log.text, streamed)
      /\ Covers(stored.log.text, stored.output)
  BY DEF ResumeInv, StoredOK
<1>2. CASE stored.log.text # << >>
  BY <1>1, <1>2, CoveringTail DEF Streamed, ResumeTail
<1>3. CASE stored.log.text = << >>
  <2>1. Ends(stored.output, stored.output)
    <3>1. Len(stored.output) \in Nat
      BY <1>1 DEF Streamed
    <3> QED
      BY <3>1 DEF Ends
  <2>2. Covers(stored.output, stored.output)
    BY <1>1, <2>1, EmptyText, EndCoversBeginning DEF Streamed
  <2> QED
    BY <1>1, <1>3, <2>2, CoveringTail DEF Streamed, ResumeTail
<1> QED
  BY <1>2, <1>3

LEMMA InvKeepsTheTail == ResumeInv => LogKeepsTheTail
<1> SUFFICES ASSUME ResumeInv, NEW r \in ResumeRuns, logEnabled
             PROVE  LET run == resumeRuns[r]
                        own == Len(run.output) - run.base IN
                    /\ run.log.text = TailOf(run.output, Len(run.log.text))
                    /\ \E least \in {own, TailLimit, LogRunLimit} : Len(run.log.text) >= least
  BY DEF LogKeepsTheTail
<1> DEFINE run == resumeRuns[r]
           text == run.log.text
           tail == TailOf(run.output, Len(text))
<1>1. /\ RunOK(run, logEnabled, streamed) /\ run.output \in Seq(Nat) /\ text \in Seq(Nat)
      /\ Ends(run.output, text) /\ Len(text) \in Nat /\ Len(run.output) \in Nat
  BY RunIs DEF RunOK
<1>2. run.log.heads \subseteq ToSet(text)
  BY <1>1 DEF RunOK, Segmented
<1> HIDE DEF run
<1>3. text = tail
  <2>1. tail \in Seq(Nat) /\ Ends(run.output, tail)
        /\ Len(tail) = IF Len(run.output) > Len(text) THEN Len(text) ELSE Len(run.output)
    BY <1>1, TailIs
  <2>2. Len(tail) = Len(text)
    BY <1>1, <2>1 DEF Ends
  <2>3. \A i \in 1 .. Len(text) : text[i] = tail[i]
    BY <1>1, <2>1, <2>2 DEF Ends
  <2> HIDE DEF text, tail
  <2> QED
    BY <1>1, <2>1, <2>2, <2>3
<1>4. CASE Len(text) + SegmentLimit >= LogLimit + 1
  <2>1. Len(text) >= TailLimit
    BY <1>1, <1>4, LogConstants
  <2> QED
    BY <1>3, <2>1 DEF run
<1>5. CASE Cardinality(run.log.heads) = LogRunLimit
  <2>1. Len(text) >= LogRunLimit
    <3>1. Cardinality(run.log.heads) <= Len(text)
      <4> HIDE DEF text
      <4> QED
        BY <1>1, <1>2, MembersFinite
    <3> QED
      BY <1>1, <1>5, <3>1, LogConstants
  <2> QED
    BY <1>3, <2>1 DEF run
<1>6. CASE Len(text) = Len(run.output) - run.base
  <2>1. Len(text) >= Len(run.output) - run.base
    BY <1>1, <1>6
  <2> QED
    BY <1>3, <2>1 DEF run
<1> QED
  BY <1>1, <1>4, <1>5, <1>6 DEF RunOK, Full

(***************************************************************************)
(* Theorems.                                                               *)
(***************************************************************************)

\* The record and the runs' locals hold what the code keeps in them, texts grow in
\* the order of their streaming, and no log is over its limits (dropOldest).
THEOREM ResumeTypeCorrect == ResumeSpec => []ResumeTypeOK
<1>1. ResumeInv => ResumeTypeOK
  BY DEF ResumeInv, RunOK, StoredOK, Streamed, StoredRecord, ResumeTypeOK
<1> QED
  BY <1>1, ResumeInitInv, ResumeNextInv, PTL DEF ResumeSpec

\* Whichever run wrote the output and the log last, and whatever a superseded run
\* deleted, the run that resumes (resumeAssistantTail) is shown a text that reaches
\* the end of the output it continues and has no hole up to there.
THEOREM SuccessorsKnowTheEnd == ResumeSpec => []SuccessorKnowsTheEnd
  BY ResumeInitInv, ResumeNextInv, InvKnowsTheEnd, PTL DEF ResumeSpec

\* However often dropOldest drops segments, the log is the end of its run's text, and
\* of it what a resumption shows or a character for each segment it may hold.
THEOREM LogsKeepTheTail == ResumeSpec => []LogKeepsTheTail
  BY ResumeInitInv, ResumeNextInv, InvKeepsTheTail, PTL DEF ResumeSpec

(***************************************************************************)
(* ThreadMemory.                                                           *)
(***************************************************************************)

(***************************************************************************)
(* Sequences.                                                              *)
(***************************************************************************)

\* How many elements slice(-n) drops.
Dropped(seq, n) == IF Len(seq) > n THEN Len(seq) - n ELSE 0

\* What is left are the last elements, in their order.
LEMMA NewestAre ==
  ASSUME NEW S, NEW seq \in Seq(S), NEW n \in Nat
  PROVE  /\ Dropped(seq, n) \in 0..Len(seq)
         /\ Newest(seq, n) \in Seq(S)
         /\ Len(Newest(seq, n)) = Len(seq) - Dropped(seq, n)
         /\ Len(Newest(seq, n)) <= n
         /\ \A i \in 1..Len(Newest(seq, n)) : Newest(seq, n)[i] = seq[i + Dropped(seq, n)]
<1> DEFINE d == Dropped(seq, n)
<1>1. d \in 0..Len(seq) /\ Len(seq) - d <= n
  BY DEF Dropped
<1>2. Newest(seq, n) = SubSeq(seq, 1 + d, Len(seq))
  BY DEF Newest, Dropped
<1>3. SubSeq(seq, 1 + d, Len(seq)) \in Seq(S) /\ Len(SubSeq(seq, 1 + d, Len(seq))) = Len(seq) - d
  BY <1>1
<1>4. \A i \in 1..(Len(seq) - d) : SubSeq(seq, 1 + d, Len(seq))[i] = seq[i + d]
  BY <1>1
<1> QED
  BY <1>1, <1>2, <1>3, <1>4

LEMMA MembersOf ==
  ASSUME NEW S, NEW seq \in Seq(S), NEW x
  PROVE  /\ x \in ToSet(seq) <=> \E i \in 1..Len(seq) : seq[i] = x
         /\ Contains(seq, x) <=> x \in ToSet(seq)
         /\ x \in ToSet(seq) => x \in S
  BY DEF ToSet, Contains

\* All of them, if there are fewer.
LEMMA NewestAll ==
  ASSUME NEW S, NEW seq \in Seq(S), NEW n \in Nat, Len(Newest(seq, n)) < n
  PROVE  Len(Newest(seq, n)) = Len(seq) /\ ToSet(Newest(seq, n)) = ToSet(seq)
<1> DEFINE new == Newest(seq, n)
<1>1. /\ new \in Seq(S) /\ Len(new) = Len(seq) - Dropped(seq, n)
      /\ \A i \in 1..Len(new) : new[i] = seq[i + Dropped(seq, n)]
  BY NewestAre
<1>2. Dropped(seq, n) = 0
  BY <1>1 DEF Dropped
<1>3. Len(new) = Len(seq) /\ \A i \in 1..Len(seq) : new[i] = seq[i]
  BY <1>1, <1>2
<1> HIDE DEF new
<1>4. \A x : x \in ToSet(new) <=> x \in ToSet(seq)
  BY <1>1, <1>3, MembersOf
<1> QED
  BY <1>3, <1>4 DEF new

\* What slice(-n) leaves was there before.
LEMMA NewestMembers ==
  ASSUME NEW S, NEW seq \in Seq(S), NEW n \in Nat, NEW x \in ToSet(Newest(seq, n))
  PROVE  x \in ToSet(seq)
<1>1. PICK i \in 1..Len(Newest(seq, n)) : Newest(seq, n)[i] = x
  BY NewestAre, MembersOf
<1>2. i + Dropped(seq, n) \in 1..Len(seq) /\ seq[i + Dropped(seq, n)] = x
  BY <1>1, NewestAre
<1> QED
  BY <1>2, MembersOf

LEMMA MembersOfBoth ==
  ASSUME NEW S, NEW s \in Seq(S), NEW t \in Seq(S), NEW x
  PROVE  x \in ToSet(s \o t) <=> x \in ToSet(s) \/ x \in ToSet(t)
<1>1. s \o t \in Seq(S) /\ Len(s \o t) = Len(s) + Len(t)
  OBVIOUS
<1>2. \A i \in 1..Len(s) : i \in 1..Len(s \o t) /\ (s \o t)[i] = s[i]
  OBVIOUS
<1>3. \A i \in 1..Len(t) : Len(s) + i \in 1..Len(s \o t) /\ (s \o t)[Len(s) + i] = t[i]
  OBVIOUS
<1>4. \A i \in 1..Len(s \o t) : i \in 1..Len(s) \/ (i - Len(s) \in 1..Len(t) /\ i = Len(s) + (i - Len(s)))
  BY <1>1
<1>5. x \in ToSet(s \o t) <=> \E i \in 1..Len(s \o t) : (s \o t)[i] = x
  BY <1>1, MembersOf
<1>6. /\ x \in ToSet(s) <=> \E i \in 1..Len(s) : s[i] = x
      /\ x \in ToSet(t) <=> \E i \in 1..Len(t) : t[i] = x
  BY MembersOf
<1>7. ASSUME NEW i \in 1..Len(s \o t), (s \o t)[i] = x
      PROVE  x \in ToSet(s) \/ x \in ToSet(t)
  <2>1. CASE i \in 1..Len(s)
    BY <1>2, <1>6, <1>7, <2>1
  <2>2. CASE i - Len(s) \in 1..Len(t) /\ i = Len(s) + (i - Len(s))
    BY <1>3, <1>6, <1>7, <2>2
  <2> QED
    BY <1>4, <2>1, <2>2
<1>8. x \in ToSet(s) => \E i \in 1..Len(s \o t) : (s \o t)[i] = x
  BY <1>2, <1>6
<1>9. x \in ToSet(t) => \E i \in 1..Len(s \o t) : (s \o t)[i] = x
  BY <1>3, <1>6
<1> QED
  BY <1>5, <1>7, <1>8, <1>9

\* The ids a compaction adds, in a sequence.
LEMMA SortedTyped ==
  ASSUME NEW S, NEW T, S \subseteq T, IsFiniteSet(S), NEW seq \in InThreadOrder(S)
  PROVE  /\ seq \in Seq(T) /\ Len(seq) \in Nat /\ ToSet(seq) = S
         /\ \A i, j \in 1..Len(seq) : i < j => seq[i] < seq[j]
<1>1. Cardinality(S) \in Nat
  BY FS_CardinalityType
<1>2. seq \in [1..Cardinality(S) -> S] /\ ToSet(seq) = S
      /\ \A i, j \in DOMAIN seq : i < j => seq[i] < seq[j]
  BY DEF InThreadOrder
<1> QED
  BY <1>1, <1>2

-----------------------------------------------------------------------------
(***************************************************************************)
(* Types, and a thread that grows at its end.                              *)
(***************************************************************************)

Turn == [id : TurnIds, task : Works]

LEMMA ThreadConstants ==
  /\ Works \subseteq Nat /\ TurnIds \subseteq Nat /\ 0 \notin Works
  /\ KeptTurns \in Nat /\ KeptTurns >= 1 /\ SpokenTurns \in Nat /\ SpokenTurns >= 1
  /\ MaxIntrusions \in Nat
  BY ThreadMemoryAssumption DEF Works, TurnIds

LEMMA TurnsTyped ==
  ASSUME ThreadTypeOK
  PROVE  /\ threadTurns \in Seq(Turn) /\ Len(threadTurns) \in Nat /\ Len(threadTurns) <= KeptTurns
         /\ DOMAIN threadTurns = 1..Len(threadTurns)
         /\ \A i \in 1..Len(threadTurns) :
              /\ threadTurns[i] \in Turn
              /\ threadTurns[i].id \in TurnIds /\ threadTurns[i].id \in Nat
              /\ threadTurns[i].task \in Works
<1>1. threadTurns \in Seq(Turn) /\ Len(threadTurns) <= KeptTurns
  BY DEF ThreadTypeOK, Turn
<1>2. \A i \in 1..Len(threadTurns) : threadTurns[i] \in Turn
  BY <1>1
<1>3. \A turn \in Turn : turn.id \in TurnIds /\ turn.id \in Nat /\ turn.task \in Works
  BY ThreadConstants DEF Turn
<1> QED
  BY <1>1, <1>2, <1>3

\* The thread with a new last turn, d turns dropped at its beginning.
LEMMA ThreadGrows ==
  ASSUME ThreadTypeOK, NEW t \in Works, AppendTurn(t)
  PROVE  /\ threadTurns' \in Seq(Turn) /\ Len(threadTurns') <= KeptTurns
         /\ \E d \in 0..1 :
              /\ Len(threadTurns') = Len(threadTurns) + 1 - d
              /\ Len(threadTurns') >= 1
              /\ \A i \in 1..(Len(threadTurns') - 1) :
                    i + d \in 1..Len(threadTurns) /\ threadTurns'[i] = threadTurns[i + d]
              /\ threadTurns'[Len(threadTurns')] = [id |-> t, task |-> t]
<1> DEFINE turn == [id |-> t, task |-> t]
           seq == Append(threadTurns, turn)
<1>1. threadTurns \in Seq(Turn) /\ Len(threadTurns) <= KeptTurns /\ turn \in Turn
  BY DEF ThreadTypeOK, Turn, TurnIds
<1>2. /\ seq \in Seq(Turn) /\ Len(seq) = Len(threadTurns) + 1
      /\ \A i \in 1..Len(threadTurns) : seq[i] = threadTurns[i]
      /\ seq[Len(threadTurns) + 1] = turn
  BY <1>1
<1> HIDE DEF seq, turn
<1>3. threadTurns' = Newest(seq, KeptTurns)
  BY DEF AppendTurn, seq, turn
<1>4. PICK d \in 0..Len(seq) :
        /\ d = Dropped(seq, KeptTurns)
        /\ threadTurns' \in Seq(Turn) /\ Len(threadTurns') <= KeptTurns
        /\ Len(threadTurns') = Len(seq) - d
        /\ \A i \in 1..Len(threadTurns') : threadTurns'[i] = seq[i + d]
  BY <1>2, <1>3, NewestAre, ThreadConstants
<1>5. Len(threadTurns) \in Nat /\ Len(seq) \in Nat /\ d \in 0..1 /\ Len(threadTurns') = Len(threadTurns) + 1 - d
      /\ Len(threadTurns') >= 1
  BY <1>1, <1>2, <1>4, ThreadConstants DEF Dropped
<1>6. ASSUME NEW i \in 1..(Len(threadTurns') - 1)
      PROVE  i + d \in 1..Len(threadTurns) /\ threadTurns'[i] = threadTurns[i + d]
  <2>1. i + d \in 1..Len(threadTurns) /\ i \in 1..Len(threadTurns')
    BY <1>5
  <2> QED
    BY <1>2, <1>4, <2>1
<1>7. threadTurns'[Len(threadTurns')] = turn
  <2>1. Len(threadTurns') \in 1..Len(threadTurns') /\ Len(threadTurns') + d = Len(threadTurns) + 1
    BY <1>5
  <2> QED
    BY <1>2, <1>4, <2>1
<1> QED
  BY <1>4, <1>5, <1>6, <1>7 DEF turn

\* A regeneration gives the last turn another task.
LEMMA ThreadIsRenewed ==
  ASSUME ThreadTypeOK, NEW t \in Works, NEW i \in DOMAIN threadTurns,
         threadTurns' = [threadTurns EXCEPT ![i].task = t]
  PROVE  /\ threadTurns' \in Seq(Turn) /\ Len(threadTurns') = Len(threadTurns)
         /\ \A j \in 1..Len(threadTurns) : threadTurns'[j].id = threadTurns[j].id
         /\ \A j \in 1..Len(threadTurns) : j # i => threadTurns'[j] = threadTurns[j]
         /\ threadTurns'[i].task = t
<1>1. threadTurns \in Seq(Turn) /\ i \in 1..Len(threadTurns)
  BY TurnsTyped
<1>a. threadTurns[i] \in Turn
  BY <1>1
<1> DEFINE turn == [threadTurns[i] EXCEPT !.task = t]
<1>2. turn \in Turn /\ turn.id = threadTurns[i].id /\ turn.task = t
  BY <1>a DEF Turn
<1> HIDE DEF turn
<1>3. threadTurns' = [threadTurns EXCEPT ![i] = turn]
  BY DEF turn
<1>4. threadTurns' \in Seq(Turn) /\ Len(threadTurns') = Len(threadTurns)
  BY <1>1, <1>2, <1>3
<1> QED
  BY <1>1, <1>2, <1>3, <1>4

\* The steps of a thread's history.
WorkStep ==
    \/ \E q \in Requests : ReadThread(q) \/ StartTurn(q) \/ RefuseTurn(q)
    \/ \E o \in Works : RetryTurn(o)
    \/ \E i \in DOMAIN threadTurns : RegenerateTurn(i) \/ AnswerTurn(i)
    \/ \E t \in Works, status \in {"completed", "failed", "waiting"}, choice \in BOOLEAN :
            FinishWork(t, status, choice)
    \/ EvictOldest

\* How the thread may change.
Renews(t) ==
    /\ Len(threadTurns) \in DOMAIN threadTurns
    /\ threadTurns' = [threadTurns EXCEPT ![Len(threadTurns)].task = t]

Moves ==
    \/ threadTurns' = threadTurns
    \/ \E t \in Works : NextWork(t) /\ AppendTurn(t)
    \/ \E t \in Works : Renews(t)

LEMMA WorkMovesTheThread ==
  ASSUME WorkStep
  PROVE  Moves /\ UNCHANGED <<summary, compactedIds, compactions>>
  BY DEF WorkStep, Moves, Renews, ReadThread, StartTurn, RefuseTurn, RetryTurn, RegenerateTurn, Replace,
         AnswerTurn, FinishWork, EvictOldest

LEMMA ConversationTyped ==
  ASSUME ThreadTypeOK, NEW places \in SUBSET (1..Len(threadTurns))
  PROVE  Told(places) \subseteq Content /\ Conversation \subseteq Content
<1>1. \A i \in 1..Len(threadTurns) : Says(threadTurns[i]) \in Content
  <2> SUFFICES ASSUME NEW i \in 1..Len(threadTurns) PROVE Says(threadTurns[i]) \in Content
    OBVIOUS
  <2>1. threadTurns[i].id \in TurnIds /\ threadTurns[i].task \in Works
    BY TurnsTyped
  <2>2. works[threadTurns[i].task] \in Work
    BY <2>1 DEF ThreadTypeOK
  <2>3. works[threadTurns[i].task].version \in 0..MaxIntrusions
    BY <2>2 DEF Work
  <2> QED
    BY <2>1, <2>3 DEF Says, Content
<1>2. LastOf(OpenTurns, SpokenTurns) \subseteq 1..Len(threadTurns)
  BY DEF LastOf, OpenTurns, CompletedTurns, ThreadTypeOK
<1> QED
  BY <1>1, <1>2 DEF Told, Conversation

LEMMA CreatedTyped ==
  ASSUME NEW parent \in Works \cup {0}
  PROVE  CreatedWork(parent) \in Work /\ NoWork \in Work
<1>1. 0 \in 0..MaxIntrusions
  BY ThreadConstants
<1> QED
  BY <1>1 DEF CreatedWork, NoWork, Work, WorkStatuses

\* Each answer makes one text newer.
VersionsAreCounted == \A t \in Works : works[t].version <= intrusions

LEMMA WorksTyped ==
  ASSUME ThreadTypeOK, VersionsAreCounted, WorkStep
  PROVE  /\ works' \in [Works -> Work] /\ intrusions' \in 0..MaxIntrusions
         /\ VersionsAreCounted'
<1>1. works \in [Works -> Work] /\ intrusions \in 0..MaxIntrusions /\ MaxIntrusions \in Nat
  BY ThreadConstants DEF ThreadTypeOK
<1>2. CASE UNCHANGED <<works, intrusions>>
  BY <1>1, <1>2 DEF VersionsAreCounted
<1>3. ASSUME NEW t \in Works, NEW parent \in Works \cup {0},
             works' = [works EXCEPT ![t] = CreatedWork(parent)], intrusions' = intrusions
      PROVE  works' \in [Works -> Work] /\ intrusions' \in 0..MaxIntrusions /\ VersionsAreCounted'
  <2>1. CreatedWork(parent) \in Work /\ CreatedWork(parent).version = 0
    BY CreatedTyped DEF CreatedWork, NoWork
  <2> QED
    BY <1>1, <1>3, <2>1 DEF VersionsAreCounted
<1>4. ASSUME NEW i \in DOMAIN threadTurns, AnswerTurn(i)
      PROVE  works' \in [Works -> Work] /\ intrusions' \in 0..MaxIntrusions /\ VersionsAreCounted'
  <2>1. PICK t \in Works : /\ works' = [works EXCEPT ![t] = [works[t] EXCEPT
                                  !.status = "working", !.choice = FALSE, !.version = @ + 1]]
                           /\ intrusions' = intrusions + 1 /\ intrusions < MaxIntrusions
    <3>1. threadTurns[i].task \in Works
      BY TurnsTyped
    <3> QED
      BY <1>1, <1>4, <3>1 DEF AnswerTurn, Work
  <2>2. works[t].version + 1 <= intrusions + 1 /\ works[t].version \in 0..MaxIntrusions
    BY <1>1 DEF VersionsAreCounted, Work
  <2>3. [works[t] EXCEPT !.status = "working", !.choice = FALSE, !.version = @ + 1] \in Work
    <3>1. works[t] \in Work /\ works[t].version + 1 \in 0..MaxIntrusions
      BY <1>1, <2>1, <2>2
    <3> QED
      BY <3>1 DEF Work, WorkStatuses
  <2>4. [works[t] EXCEPT !.status = "working", !.choice = FALSE, !.version = @ + 1].version = works[t].version + 1
    BY <1>1 DEF Work
  <2>5. \A u \in Works : works[u].version \in Nat
    BY <1>1 DEF Work
  <2> QED
    BY <1>1, <2>1, <2>2, <2>3, <2>4, <2>5 DEF VersionsAreCounted
<1>5. ASSUME NEW t \in Works, NEW status \in {"completed", "failed", "waiting"}, NEW choice \in BOOLEAN,
             FinishWork(t, status, choice)
      PROVE  works' \in [Works -> Work] /\ intrusions' \in 0..MaxIntrusions /\ VersionsAreCounted'
  <2>1. works' = [works EXCEPT ![t] = [works[t] EXCEPT !.status = status, !.choice = choice]]
        /\ intrusions' = intrusions
    BY <1>1, <1>5 DEF FinishWork
  <2>2. [works[t] EXCEPT !.status = status, !.choice = choice] \in Work
        /\ [works[t] EXCEPT !.status = status, !.choice = choice].version = works[t].version
    BY <1>1 DEF Work, WorkStatuses
  <2> QED
    BY <1>1, <2>1, <2>2 DEF VersionsAreCounted
<1>6. ASSUME EvictOldest
      PROVE  works' \in [Works -> Work] /\ intrusions' \in 0..MaxIntrusions /\ VersionsAreCounted'
  <2>1. PICK t \in Works : works' = [works EXCEPT ![t] = [NoWork EXCEPT !.parent = works[t].parent]]
    BY <1>6 DEF EvictOldest
  <2>2. [NoWork EXCEPT !.parent = works[t].parent] \in Work
        /\ [NoWork EXCEPT !.parent = works[t].parent].version = 0
    <3>1. works[t] \in Work /\ 0 \in 0..MaxIntrusions
      BY <1>1
    <3> QED
      BY <3>1 DEF NoWork, Work, WorkStatuses
  <2>3. intrusions' = intrusions + 1 /\ intrusions < MaxIntrusions
    BY <1>6 DEF EvictOldest
  <2>4. \A u \in Works : works[u].version \in Nat
    BY <1>1 DEF Work
  <2> QED
    BY <1>1, <2>1, <2>2, <2>3, <2>4 DEF VersionsAreCounted
<1>7. CASE \E q \in Requests : ReadThread(q) \/ StartTurn(q) \/ RefuseTurn(q)
  BY <1>2, <1>3, <1>7 DEF ReadThread, StartTurn, RefuseTurn
<1>8. CASE \E o \in Works : RetryTurn(o)
  BY <1>3, <1>8 DEF RetryTurn
<1>9. CASE \E i \in DOMAIN threadTurns : RegenerateTurn(i)
  <2>1. \A i \in DOMAIN threadTurns : threadTurns[i].task \in Works
    BY TurnsTyped
  <2> QED
    BY <1>3, <1>9, <2>1 DEF RegenerateTurn, Replace
<1> QED
  BY <1>4, <1>5, <1>6, <1>7, <1>8, <1>9 DEF WorkStep

\* A memory that reads the thread, and one that learns of a turn's end.
LEMMA RequestsTyped ==
  ASSUME ThreadTypeOK, WorkStep
  PROVE  requests' \in [Requests -> Seq(Memory)] /\ \A q \in Requests : Len(requests'[q]) <= 1
<1>1. requests \in [Requests -> Seq(Memory)] /\ \A q \in Requests : Len(requests[q]) <= 1
  BY DEF ThreadTypeOK
<1>2. CASE UNCHANGED requests
  BY <1>1, <1>2
<1>3. << >> \in Seq(Memory) /\ Len(<< >>) = 0
  OBVIOUS
<1>4. \A q \in Requests : requests' = [requests EXCEPT ![q] = << >>] =>
        requests' \in [Requests -> Seq(Memory)] /\ \A r \in Requests : Len(requests'[r]) <= 1
  BY <1>1, <1>3
<1>5. ASSUME NEW q \in Requests, ReadThread(q)
      PROVE  requests' \in [Requests -> Seq(Memory)] /\ \A r \in Requests : Len(requests'[r]) <= 1
  <2> DEFINE m == [conversation |-> Conversation, summary |-> summary, late |-> {}]
  <2>1. m \in Memory
    BY ConversationTyped DEF Memory, ThreadTypeOK
  <2> HIDE DEF m
  <2>2. <<m>> \in Seq(Memory) /\ Len(<<m>>) = 1
    BY <2>1
  <2>3. requests' = [requests EXCEPT ![q] = <<m>>]
    BY <1>5 DEF ReadThread, m
  <2> QED
    BY <1>1, <2>2, <2>3
<1>6. ASSUME NEW t \in Works, NEW status \in {"completed", "failed", "waiting"}, NEW choice \in BOOLEAN,
             FinishWork(t, status, choice)
      PROVE  requests' \in [Requests -> Seq(Memory)] /\ \A r \in Requests : Len(requests'[r]) <= 1
  <2> DEFINE ended == {turn.id : turn \in {u \in ToSet(threadTurns) : u.task = t}}
  <2>1. ended \subseteq TurnIds
    <3>1. \A turn \in ToSet(threadTurns) : turn.id \in TurnIds
      BY TurnsTyped, MembersOf
    <3> QED
      BY <3>1
  <2> HIDE DEF ended
  <2>2. \A q \in Requests :
          requests'[q] = IF requests[q] = << >> \/ status # "completed" THEN requests[q]
                         ELSE <<[requests[q][1] EXCEPT !.late = @ \cup ended]>>
    BY <1>6 DEF FinishWork, ended
  <2>3. requests' = [q \in Requests |-> requests'[q]]
    BY <1>6 DEF FinishWork
  <2>4. ASSUME NEW q \in Requests
        PROVE  requests'[q] \in Seq(Memory) /\ Len(requests'[q]) <= 1
    <3>1. CASE requests[q] = << >> \/ status # "completed"
      BY <1>1, <2>2, <3>1
    <3>2. CASE ~ (requests[q] = << >> \/ status # "completed")
      <4> DEFINE m == [requests[q][1] EXCEPT !.late = @ \cup ended]
      <4>1. requests[q][1] \in Memory
        BY <1>1, <3>2
      <4>2. m \in Memory
        BY <2>1, <4>1 DEF Memory
      <4>3. requests'[q] = <<m>>
        BY <2>2, <3>2
      <4> HIDE DEF m
      <4> QED
        BY <4>2, <4>3
    <3> QED
      BY <3>1, <3>2
  <2> QED
    BY <2>3, <2>4
<1> QED
  BY <1>2, <1>4, <1>5, <1>6
     DEF WorkStep, StartTurn, RefuseTurn, RetryTurn, RegenerateTurn, Replace, AnswerTurn, EvictOldest

\* The ids that are kept with a new summary.
LEMMA WrittenIds ==
  ASSUME ThreadTypeOK, NEW p \in Compactors, WriteSummaryIfCurrent(p)
  PROVE  \E ids \in Seq(TurnIds) :
            /\ compactedIds' = Newest(compactedIds \o ids, KeptTurns)
            /\ ToSet(ids) = NewlyCompacted(p)
            /\ \A i, j \in 1..Len(ids) : i < j => ids[i] < ids[j]
            /\ compactedIds \o ids \in Seq(TurnIds)
            /\ compactedIds' \in Seq(TurnIds) /\ Len(compactedIds') <= KeptTurns
            /\ \A id \in ToSet(compactedIds') : id \in ToSet(compactedIds) \cup compactions[p].plan
<1>1. PICK ids \in InThreadOrder(NewlyCompacted(p)) :
          compactedIds' = Newest(compactedIds \o ids, KeptTurns)
  BY DEF WriteSummaryIfCurrent, WriteSummary
<1>2. NewlyCompacted(p) \subseteq TurnIds /\ NewlyCompacted(p) \subseteq compactions[p].plan
  BY DEF NewlyCompacted, ThreadTypeOK
<1>3. IsFiniteSet(NewlyCompacted(p))
  <2>1. IsFiniteSet(TurnIds)
    BY FS_Interval, ThreadMemoryAssumption DEF TurnIds, Works
  <2> QED
    BY <1>2, <2>1, FS_Subset
<1>4. /\ ids \in Seq(TurnIds) /\ ToSet(ids) = NewlyCompacted(p)
      /\ \A i, j \in 1..Len(ids) : i < j => ids[i] < ids[j]
  BY <1>2, <1>3, SortedTyped
<1>5. compactedIds \in Seq(TurnIds) /\ compactedIds \o ids \in Seq(TurnIds)
  BY <1>4 DEF ThreadTypeOK
<1>6. ASSUME NEW id \in ToSet(compactedIds')
      PROVE  id \in ToSet(compactedIds) \cup compactions[p].plan
  <2>1. id \in ToSet(compactedIds \o ids)
    BY <1>1, <1>5, <1>6, NewestMembers, ThreadConstants
  <2> QED
    BY <1>2, <1>4, <1>5, <2>1, MembersOfBoth
<1>7. compactedIds' \in Seq(TurnIds) /\ Len(compactedIds') <= KeptTurns
  BY <1>1, <1>5, NewestAre, ThreadConstants
<1> QED
  BY <1>1, <1>4, <1>5, <1>6, <1>7

LEMMA TypesKept ==
  ASSUME ThreadTypeOK, VersionsAreCounted, [ThreadNext]_threadVars
  PROVE  ThreadTypeOK' /\ VersionsAreCounted'
<1>1. CASE WorkStep
  <2>1. UNCHANGED <<summary, compactedIds, compactions>>
    BY <1>1, WorkMovesTheThread
  <2>2. threadTurns' \in Seq(Turn) /\ Len(threadTurns') <= KeptTurns
    <3>1. CASE threadTurns' = threadTurns
      BY <3>1, TurnsTyped
    <3>2. CASE \E t \in Works : AppendTurn(t)
      BY <3>2, ThreadGrows
    <3>3. CASE \E t \in Works : Renews(t)
      BY <3>3, ThreadIsRenewed, TurnsTyped DEF Renews
    <3> QED
      BY <1>1, <3>1, <3>2, <3>3, WorkMovesTheThread DEF Moves
  <2> QED
    BY <1>1, <2>1, <2>2, WorksTyped, RequestsTyped DEF ThreadTypeOK, Turn
<1>2. ASSUME NEW p \in Compactors, PlanCompaction(p)
      PROVE  ThreadTypeOK' /\ VersionsAreCounted'
  <2>1. PICK places : /\ places \subseteq OpenTurns /\ BeginCompaction(p, places)
    BY <1>2 DEF PlanCompaction
  <2>2. places \in SUBSET (1..Len(threadTurns))
    BY <2>1, TurnsTyped DEF OpenTurns, CompletedTurns
  <2>3. Told(places) \subseteq Content /\ {threadTurns[i].id : i \in places} \subseteq TurnIds
    BY <2>2, TurnsTyped, ConversationTyped
  <2> QED
    BY <2>1, <2>3 DEF BeginCompaction, ThreadTypeOK, VersionsAreCounted
<1>3. ASSUME NEW p \in Compactors, WriteSummaryIfCurrent(p)
      PROVE  ThreadTypeOK' /\ VersionsAreCounted'
  <2>4. compactedIds' \in Seq(TurnIds) /\ Len(compactedIds') <= KeptTurns
    BY <1>3, WrittenIds
  <2>5. Unplanned \in [ active : BOOLEAN, previous : SUBSET Content,
                        plan : SUBSET TurnIds, messages : SUBSET Content ]
    BY DEF Unplanned
  <2> QED
    BY <1>3, <2>4, <2>5 DEF WriteSummaryIfCurrent, WriteSummary, ThreadTypeOK, VersionsAreCounted
<1>4. ASSUME NEW p \in Compactors, DropCompaction(p)
      PROVE  ThreadTypeOK' /\ VersionsAreCounted'
  BY <1>4 DEF DropCompaction, Unplanned, ThreadTypeOK, VersionsAreCounted
<1>5. CASE UNCHANGED threadVars
  BY <1>5 DEF threadVars, ThreadTypeOK, VersionsAreCounted
<1> QED
  BY <1>1, <1>2, <1>3, <1>4, <1>5 DEF ThreadNext, WorkStep

-----------------------------------------------------------------------------
(***************************************************************************)
(* The order of a thread, and what a compaction has read of it.            *)
(***************************************************************************)

\* Ids grow along the thread.
TurnsAreInOrder ==
    \A i, j \in 1..Len(threadTurns) : i < j => threadTurns[i].id < threadTurns[j].id

\* The turn is not the last one.  (It may have left the thread.)
Past(id) == threadTurns # << >> /\ id < threadTurns[Len(threadTurns)].id

\* The last turn is never compacted.
CompactedArePast ==
    /\ \A id \in ToSet(compactedIds) : Past(id)
    /\ \A c \in summary : Past(c.turn)
    /\ \A p \in Compactors : \A id \in compactions[p].plan : Past(id)

\* The model is told the turns of the plan, each as the task answers it that
\* answers it still: a turn that is not the last one is not regenerated.
PlansAreTold ==
    \A p \in Compactors :
        /\ \A c \in compactions[p].messages : c.turn \in compactions[p].plan
        /\ \A id \in compactions[p].plan : \E c \in compactions[p].messages : c.turn = id
        /\ \A i \in 1..Len(threadTurns) : threadTurns[i].id \in compactions[p].plan =>
              \E c \in compactions[p].messages :
                  c.turn = threadTurns[i].id /\ c.task = threadTurns[i].task

\* What a step of the thread's history leaves as it was.
LEMMA MovesKeepThePast ==
  ASSUME ThreadTypeOK, TurnsAreInOrder, CompactedArePast, Moves
  PROVE  /\ TurnsAreInOrder'
         /\ \A id \in Nat : Past(id) => Past(id)'
         /\ \A i \in 1..Len(threadTurns') : Past(threadTurns'[i].id) =>
                \E j \in 1..Len(threadTurns) : threadTurns[j] = threadTurns'[i]
<1>1. CASE threadTurns' = threadTurns
  BY <1>1 DEF TurnsAreInOrder, Past
<1>2. ASSUME NEW t \in Works, NextWork(t), AppendTurn(t)
      PROVE  /\ TurnsAreInOrder'
             /\ \A id \in Nat : Past(id) => Past(id)'
             /\ \A i \in 1..Len(threadTurns') : Past(threadTurns'[i].id) =>
                    \E j \in 1..Len(threadTurns) : threadTurns[j] = threadTurns'[i]
  <2>1. \A i \in 1..Len(threadTurns) : threadTurns[i].id < t
    BY <1>2, TurnsTyped, MembersOf DEF NextWork, UsedIds
  <2>2. threadTurns' \in Seq(Turn) /\ t \in Nat
    BY <1>2, ThreadGrows, ThreadConstants
  <2>3. PICK d \in 0..1 :
              /\ Len(threadTurns') = Len(threadTurns) + 1 - d
              /\ Len(threadTurns') >= 1
              /\ \A i \in 1..(Len(threadTurns') - 1) :
                    i + d \in 1..Len(threadTurns) /\ threadTurns'[i] = threadTurns[i + d]
              /\ threadTurns'[Len(threadTurns')] = [id |-> t, task |-> t]
    BY <1>2, ThreadGrows
  <2>4. threadTurns'[Len(threadTurns')].id = t
    BY <2>3
  <2>5. TurnsAreInOrder'
    <3>1. ASSUME NEW i \in 1..Len(threadTurns'), NEW j \in 1..Len(threadTurns'), i < j
          PROVE  threadTurns'[i].id < threadTurns'[j].id
      <4>1. i + d \in 1..Len(threadTurns) /\ threadTurns'[i] = threadTurns[i + d]
        BY <2>2, <2>3, <3>1
      <4>2. CASE j = Len(threadTurns')
        BY <2>1, <2>4, <4>1, <4>2
      <4>3. CASE j # Len(threadTurns')
        <5>1. j + d \in 1..Len(threadTurns) /\ threadTurns'[j] = threadTurns[j + d] /\ i + d < j + d
          <6>1. j \in 1..(Len(threadTurns') - 1) /\ d \in Int /\ i \in Int /\ j \in Int
            BY <2>2, <3>1, <4>3
          <6> QED
            BY <2>3, <3>1, <6>1
        <5> QED
          BY <4>1, <5>1 DEF TurnsAreInOrder
      <4> QED
        BY <4>2, <4>3
    <3> QED
      BY <3>1 DEF TurnsAreInOrder
  <2>6. \A id \in Nat : Past(id) => Past(id)'
    <3>1. threadTurns # << >> => Len(threadTurns) \in 1..Len(threadTurns)
      BY TurnsTyped
    <3>2. threadTurns' # << >>
      BY <2>2, <2>3
    <3>3. threadTurns # << >> =>
            threadTurns[Len(threadTurns)].id \in Nat /\ threadTurns[Len(threadTurns)].id < t
      BY <2>1, <3>1, TurnsTyped
    <3> QED
      BY <2>2, <2>4, <3>2, <3>3 DEF Past
  <2>7. ASSUME NEW i \in 1..Len(threadTurns'), Past(threadTurns'[i].id)
        PROVE  \E j \in 1..Len(threadTurns) : threadTurns[j] = threadTurns'[i]
    <3>1. threadTurns # << >> /\ Len(threadTurns) \in 1..Len(threadTurns)
      BY <2>7, TurnsTyped DEF Past
    <3>2. i # Len(threadTurns')
      BY <2>1, <2>2, <2>4, <2>7, <3>1, TurnsTyped DEF Past
    <3>3. i + d \in 1..Len(threadTurns) /\ threadTurns'[i] = threadTurns[i + d]
      BY <2>2, <2>3, <3>2
    <3> QED
      BY <3>3
  <2> QED
    BY <2>5, <2>6, <2>7
<1>3. ASSUME NEW t \in Works, Renews(t)
      PROVE  /\ TurnsAreInOrder'
             /\ \A id \in Nat : Past(id) => Past(id)'
             /\ \A i \in 1..Len(threadTurns') : Past(threadTurns'[i].id) =>
                    \E j \in 1..Len(threadTurns) : threadTurns[j] = threadTurns'[i]
  <2>1. Len(threadTurns) \in 1..Len(threadTurns)
    BY <1>3, TurnsTyped DEF Renews
  <2>2. /\ threadTurns' \in Seq(Turn) /\ Len(threadTurns') = Len(threadTurns)
        /\ \A j \in 1..Len(threadTurns) : threadTurns'[j].id = threadTurns[j].id
        /\ \A j \in 1..Len(threadTurns) : j # Len(threadTurns) => threadTurns'[j] = threadTurns[j]
    BY <1>3, <2>1, ThreadIsRenewed DEF Renews
  <2>3. threadTurns' # << >>
    BY <2>1, <2>2
  <2>4. TurnsAreInOrder'
    BY <2>2 DEF TurnsAreInOrder
  <2>5. \A id \in Nat : Past(id) => Past(id)'
    BY <2>1, <2>2, <2>3 DEF Past
  <2>6. ASSUME NEW i \in 1..Len(threadTurns'), Past(threadTurns'[i].id)
        PROVE  \E j \in 1..Len(threadTurns) : threadTurns[j] = threadTurns'[i]
    <3>1. i # Len(threadTurns)
      BY <2>1, <2>2, <2>6, TurnsTyped DEF Past
    <3> QED
      BY <2>2, <3>1
  <2> QED
    BY <2>4, <2>5, <2>6
<1> QED
  BY <1>1, <1>2, <1>3 DEF Moves

\* So the history of the thread takes nothing from what was compacted, ...
LEMMA WorkKeepsCompaction ==
  ASSUME ThreadTypeOK, TurnsAreInOrder, CompactedArePast, PlansAreTold,
         CompactedTurnsAreSummarised, WorkStep
  PROVE  TurnsAreInOrder' /\ CompactedArePast' /\ PlansAreTold' /\ CompactedTurnsAreSummarised'
<1>1. Moves /\ UNCHANGED <<summary, compactedIds, compactions>>
  BY WorkMovesTheThread
<1>2. /\ TurnsAreInOrder'
      /\ \A id \in Nat : Past(id) => Past(id)'
      /\ \A i \in 1..Len(threadTurns') : Past(threadTurns'[i].id) =>
             \E j \in 1..Len(threadTurns) : threadTurns[j] = threadTurns'[i]
  BY <1>1, MovesKeepThePast
<1>3. /\ ToSet(compactedIds) \subseteq Nat
      /\ \A c \in summary : c.turn \in Nat
      /\ \A p \in Compactors : compactions[p].plan \subseteq Nat
  <2>1. \A id \in ToSet(compactedIds) : id \in TurnIds
    BY MembersOf DEF ThreadTypeOK
  <2> QED
    BY <2>1, ThreadConstants DEF ThreadTypeOK, Content
<1>4. CompactedArePast'
  BY <1>1, <1>2, <1>3 DEF CompactedArePast
<1>5. PlansAreTold'
  BY <1>1, <1>2 DEF PlansAreTold, CompactedArePast
<1>6. CompactedTurnsAreSummarised'
  <2>1. threadTurns' \in Seq(Turn)
    BY <1>1, ThreadGrows, ThreadIsRenewed, TurnsTyped DEF Moves, Renews
  <2>2. ASSUME NEW turn \in ToSet(threadTurns'), Contains(compactedIds', turn.id)
        PROVE  \E c \in summary' : c.turn = turn.id /\ c.task = turn.task
    <3>1. PICK i \in 1..Len(threadTurns') : threadTurns'[i] = turn
      BY <2>1, MembersOf
    <3>2. turn.id \in ToSet(compactedIds)
      BY <1>1, <2>2, MembersOf DEF ThreadTypeOK
    <3>3. PICK j \in 1..Len(threadTurns) : threadTurns[j] = turn
      BY <1>2, <3>1, <3>2 DEF CompactedArePast
    <3>4. turn \in ToSet(threadTurns)
      BY <3>3, TurnsTyped, MembersOf
    <3> QED
      BY <1>1, <2>2, <3>4 DEF CompactedTurnsAreSummarised
  <2> QED
    BY <2>2 DEF CompactedTurnsAreSummarised
<1> QED
  BY <1>2, <1>4, <1>5, <1>6

\* ... a plan reads the turns as they are, ...
LEMMA PlanKeepsCompaction ==
  ASSUME ThreadTypeOK, TurnsAreInOrder, CompactedArePast, PlansAreTold,
         CompactedTurnsAreSummarised, NEW p \in Compactors, PlanCompaction(p)
  PROVE  TurnsAreInOrder' /\ CompactedArePast' /\ PlansAreTold' /\ CompactedTurnsAreSummarised'
<1>1. PICK kept \in OpenTurns : BeginCompaction(p, {i \in OpenTurns : i < kept})
  BY DEF PlanCompaction
<1> DEFINE older == {i \in OpenTurns : i < kept}
<1>2. /\ UNCHANGED <<threadTurns, summary, compactedIds>>
      /\ \A r \in Compactors \ {p} : compactions'[r] = compactions[r]
      /\ compactions'[p].plan = {threadTurns[i].id : i \in older}
      /\ compactions'[p].messages = Told(older)
  BY <1>1 DEF BeginCompaction, ThreadTypeOK
<1>3. kept \in 1..Len(threadTurns) /\ older \subseteq 1..Len(threadTurns)
  BY TurnsTyped DEF OpenTurns, CompletedTurns
<1>4. \A i \in older : Past(threadTurns[i].id)
  <2>1. Len(threadTurns) \in 1..Len(threadTurns) /\ threadTurns # << >>
    BY <1>3, TurnsTyped
  <2>2. \A i \in older : i \in 1..Len(threadTurns) /\ i < Len(threadTurns)
    BY <1>3
  <2> QED
    BY <2>1, <2>2 DEF Past, TurnsAreInOrder
<1> HIDE DEF older
<1>5. CompactedArePast'
  BY <1>2, <1>4 DEF CompactedArePast, Past
<1>6. PlansAreTold'
  <2>1. \A i \in older : Says(threadTurns[i]) \in Told(older)
            /\ Says(threadTurns[i]).turn = threadTurns[i].id
            /\ Says(threadTurns[i]).task = threadTurns[i].task
    BY DEF Told, Says
  <2>2. \A c \in Told(older) : \E i \in older : c = Says(threadTurns[i])
    BY DEF Told
  <2>3. \A i \in 1..Len(threadTurns) : \A j \in older : threadTurns[i].id = threadTurns[j].id => i = j
    BY <1>3, TurnsTyped DEF TurnsAreInOrder
  <2>4. \A r \in Compactors \ {p} :
            compactions'[r].plan = compactions[r].plan /\ compactions'[r].messages = compactions[r].messages
    BY <1>2
  <2>5. /\ \A c \in compactions'[p].messages : c.turn \in compactions'[p].plan
        /\ \A id \in compactions'[p].plan : \E c \in compactions'[p].messages : c.turn = id
        /\ \A i \in 1..Len(threadTurns) : threadTurns[i].id \in compactions'[p].plan =>
              \E c \in compactions'[p].messages :
                  c.turn = threadTurns[i].id /\ c.task = threadTurns[i].task
    BY <1>2, <2>1, <2>2, <2>3
  <2>6. ASSUME NEW r \in Compactors
        PROVE  /\ \A c \in compactions'[r].messages : c.turn \in compactions'[r].plan
               /\ \A id \in compactions'[r].plan : \E c \in compactions'[r].messages : c.turn = id
               /\ \A i \in 1..Len(threadTurns') : threadTurns'[i].id \in compactions'[r].plan =>
                     \E c \in compactions'[r].messages :
                         c.turn = threadTurns'[i].id /\ c.task = threadTurns'[i].task
    <3>1. CASE r = p
      BY <1>2, <2>5, <3>1
    <3>2. CASE r # p
      BY <1>2, <2>4, <3>2 DEF PlansAreTold
    <3> QED
      BY <3>1, <3>2
  <2> QED
    BY <2>6 DEF PlansAreTold
<1> QED
  BY <1>2, <1>5, <1>6 DEF TurnsAreInOrder, CompactedTurnsAreSummarised

\* ... and a summary that is written tells of every turn whose id is added.
LEMMA WriteKeepsCompaction ==
  ASSUME ThreadTypeOK, TurnsAreInOrder, CompactedArePast, PlansAreTold,
         CompactedTurnsAreSummarised, NEW p \in Compactors, WriteSummaryIfCurrent(p)
  PROVE  TurnsAreInOrder' /\ CompactedArePast' /\ PlansAreTold' /\ CompactedTurnsAreSummarised'
<1>1. PICK ids \in Seq(TurnIds) :
            \A id \in ToSet(compactedIds') : id \in ToSet(compactedIds) \cup compactions[p].plan
  BY WrittenIds
<1>2. /\ summary = compactions[p].previous
      /\ summary' = summary \cup compactions[p].messages
      /\ compactions' = [compactions EXCEPT ![p] = Unplanned]
      /\ threadTurns' = threadTurns
  BY DEF WriteSummaryIfCurrent, WriteSummary
<1>3. /\ \A r \in Compactors \ {p} : compactions'[r] = compactions[r]
      /\ compactions'[p].plan = {} /\ compactions'[p].messages = {}
  BY <1>2 DEF ThreadTypeOK, Unplanned
<1>4. CompactedArePast'
  <2>1. \A c \in summary' : Past(c.turn)
    BY <1>2 DEF CompactedArePast, PlansAreTold
  <2> QED
    BY <1>1, <1>2, <1>3, <2>1 DEF CompactedArePast, Past
<1>5. PlansAreTold'
  <2>1. ASSUME NEW r \in Compactors
        PROVE  /\ \A c \in compactions'[r].messages : c.turn \in compactions'[r].plan
               /\ \A id \in compactions'[r].plan : \E c \in compactions'[r].messages : c.turn = id
               /\ \A i \in 1..Len(threadTurns') : threadTurns'[i].id \in compactions'[r].plan =>
                     \E c \in compactions'[r].messages :
                         c.turn = threadTurns'[i].id /\ c.task = threadTurns'[i].task
    BY <1>2, <1>3 DEF PlansAreTold
  <2> QED
    BY <2>1 DEF PlansAreTold
<1>6. CompactedTurnsAreSummarised'
  <2>1. compactedIds' \in Seq(TurnIds)
    BY WrittenIds
  <2>2. ASSUME NEW turn \in ToSet(threadTurns), Contains(compactedIds', turn.id)
        PROVE  \E c \in summary' : c.turn = turn.id /\ c.task = turn.task
    <3>1. turn.id \in ToSet(compactedIds')
      BY <2>1, <2>2, MembersOf
    <3>2. CASE turn.id \in ToSet(compactedIds)
      <4>1. Contains(compactedIds, turn.id)
        BY <3>2, MembersOf DEF ThreadTypeOK
      <4> QED
        BY <1>2, <4>1 DEF CompactedTurnsAreSummarised
    <3>3. CASE turn.id \in compactions[p].plan
      <4>1. PICK i \in 1..Len(threadTurns) : threadTurns[i] = turn
        BY TurnsTyped, MembersOf
      <4> QED
        BY <1>2, <3>3, <4>1 DEF PlansAreTold
    <3> QED
      BY <1>1, <3>1, <3>2, <3>3
  <2> QED
    BY <1>2, <2>2 DEF CompactedTurnsAreSummarised
<1> QED
  BY <1>2, <1>4, <1>5, <1>6 DEF TurnsAreInOrder

-----------------------------------------------------------------------------
(***************************************************************************)
(* The turn before.                                                        *)
(***************************************************************************)

\* Who has read the thread knows its last turn, if that one is completed, or has
\* been told that it was completed since.
LastIsRemembered ==
    \A q \in Requests : requests[q] # << >> /\ threadTurns # << >> =>
        LET last == threadTurns[Len(threadTurns)] IN
        \/ works[last.task].status # "completed"
        \/ last.id \in requests[q][1].late
        \/ Says(last) \in requests[q][1].conversation

\* The last turn, if completed, is in every conversation.
LEMMA ConversationEndsWithTheLast ==
  ASSUME ThreadTypeOK, CompactedArePast, threadTurns # << >>,
         works[threadTurns[Len(threadTurns)].task].status = "completed"
  PROVE  Says(threadTurns[Len(threadTurns)]) \in Conversation
<1> DEFINE n == Len(threadTurns)
<1>1. n \in 1..Len(threadTurns) /\ threadTurns[n].id \in Nat
  BY TurnsTyped
<1>2. ~ Contains(compactedIds, threadTurns[n].id)
  BY <1>1, MembersOf DEF ThreadTypeOK, CompactedArePast, Past
<1>3. n \in OpenTurns
  BY <1>1, <1>2, TurnsTyped DEF OpenTurns, CompletedTurns
<1>4. {j \in OpenTurns : j > n} = {}
  BY <1>1, TurnsTyped DEF OpenTurns, CompletedTurns
<1>5. Cardinality({j \in OpenTurns : j > n}) = 0
  BY <1>4, FS_EmptySet
<1>6. n \in LastOf(OpenTurns, SpokenTurns)
  BY <1>3, <1>5, ThreadConstants DEF LastOf
<1> QED
  BY <1>6 DEF Conversation, Told

\* A step that gives the last turn a task at work leaves nothing to remember.
LEMMA NewTurnsAreAtWork ==
  ASSUME ThreadTypeOK, NEW t \in Works, NEW parent \in Works \cup {0},
         works' = [works EXCEPT ![t] = CreatedWork(parent)],
         AppendTurn(t) \/ Renews(t)
  PROVE  LastIsRemembered'
<1>1. threadTurns'[Len(threadTurns')].task = t
  <2>1. CASE AppendTurn(t)
    <3>1. threadTurns'[Len(threadTurns')] = [id |-> t, task |-> t]
      BY <2>1, ThreadGrows
    <3> QED
      BY <3>1
  <2>2. CASE Renews(t)
    <3>1. Len(threadTurns) \in DOMAIN threadTurns
      BY <2>2 DEF Renews
    <3> QED
      BY <2>2, <3>1, ThreadIsRenewed DEF Renews
  <2> QED
    BY <2>1, <2>2
<1>2. works'[t].status = "working"
  BY DEF ThreadTypeOK, CreatedWork, NoWork
<1> QED
  BY <1>1, <1>2 DEF LastIsRemembered

LEMMA LastIsRememberedStep ==
  ASSUME ThreadTypeOK, CompactedArePast, LastIsRemembered, [ThreadNext]_threadVars
  PROVE  LastIsRemembered'
<1> DEFINE last == threadTurns[Len(threadTurns)]
<1>1. /\ requests \in [Requests -> Seq(Memory)] /\ works \in [Works -> Work]
      /\ threadTurns # << >> => last \in Turn /\ last.task \in Works /\ last \in ToSet(threadTurns)
  BY TurnsTyped, MembersOf DEF ThreadTypeOK
<1>2. CASE UNCHANGED <<works, threadTurns, requests>>
  BY <1>2 DEF LastIsRemembered, Says
<1>3. ASSUME NEW q \in Requests, ReadThread(q)
      PROVE  LastIsRemembered'
  <2>1. /\ UNCHANGED <<works, threadTurns>>
        /\ requests'[q] = <<[conversation |-> Conversation, summary |-> summary, late |-> {}]>>
        /\ \A r \in Requests \ {q} : requests'[r] = requests[r]
    BY <1>1, <1>3 DEF ReadThread
  <2>2. requests'[q][1].conversation = Conversation
    BY <2>1
  <2> QED
    BY <2>1, <2>2, ConversationEndsWithTheLast DEF LastIsRemembered, Says
<1>4. ASSUME NEW q \in Requests, StartTurn(q)
      PROVE  LastIsRemembered'
  BY <1>4, NewTurnsAreAtWork DEF StartTurn
<1>5. ASSUME NEW q \in Requests, RefuseTurn(q)
      PROVE  LastIsRemembered'
  <2>1. /\ UNCHANGED <<works, threadTurns>> /\ requests'[q] = << >>
        /\ \A r \in Requests \ {q} : requests'[r] = requests[r]
    BY <1>1, <1>5 DEF RefuseTurn
  <2> QED
    BY <2>1 DEF LastIsRemembered, Says
<1>6. ASSUME NEW o \in Works, RetryTurn(o)
      PROVE  LastIsRemembered'
  BY <1>6, NewTurnsAreAtWork DEF RetryTurn
<1>7. ASSUME NEW i \in DOMAIN threadTurns, RegenerateTurn(i)
      PROVE  LastIsRemembered'
  <2>1. i = Len(threadTurns) /\ threadTurns[i].task \in Works
    BY <1>7, TurnsTyped DEF RegenerateTurn
  <2> QED
    BY <1>7, <2>1, NewTurnsAreAtWork DEF RegenerateTurn, Replace, Renews
<1>8. ASSUME NEW i \in DOMAIN threadTurns, AnswerTurn(i)
      PROVE  LastIsRemembered'
  <2>1. UNCHANGED <<threadTurns, requests>> /\ threadTurns[i].task \in Works
    BY <1>8, TurnsTyped DEF AnswerTurn
  <2>2. /\ works'[threadTurns[i].task].status = "working"
        /\ \A t \in Works \ {threadTurns[i].task} : works'[t] = works[t]
    BY <1>1, <1>8, <2>1 DEF AnswerTurn, Work
  <2> QED
    BY <1>1, <2>1, <2>2 DEF LastIsRemembered, Says
<1>9. ASSUME NEW t \in Works, NEW status \in {"completed", "failed", "waiting"}, NEW choice \in BOOLEAN,
             FinishWork(t, status, choice)
      PROVE  LastIsRemembered'
  <2>1. /\ threadTurns' = threadTurns /\ works'[t].status = status
        /\ \A u \in Works \ {t} : works'[u] = works[u]
    BY <1>1, <1>9 DEF FinishWork, Work
  <2>2. ASSUME NEW q \in Requests, requests'[q] # << >>, threadTurns # << >>
        PROVE  \/ works'[last.task].status # "completed"
               \/ last.id \in requests'[q][1].late
               \/ Says(last)' \in requests'[q][1].conversation
    <3>1. requests'[q] = IF requests[q] = << >> \/ status # "completed" THEN requests[q]
                         ELSE <<[requests[q][1] EXCEPT !.late =
                                    @ \cup {turn.id : turn \in {u \in ToSet(threadTurns) : u.task = t}}]>>
      BY <1>9 DEF FinishWork
    <3>2. requests[q] # << >> /\ requests[q][1] \in Memory
      BY <1>1, <2>2, <3>1
    <3>3. /\ requests'[q][1].conversation = requests[q][1].conversation
          /\ requests[q][1].late \subseteq requests'[q][1].late
          /\ status = "completed" /\ last.task = t => last.id \in requests'[q][1].late
      <4>1. CASE status # "completed"
        BY <3>1, <4>1
      <4>2. CASE status = "completed"
        <5>1. requests'[q][1] = [requests[q][1] EXCEPT !.late =
                    @ \cup {turn.id : turn \in {u \in ToSet(threadTurns) : u.task = t}}]
          BY <3>1, <3>2, <4>2
        <5> QED
          BY <1>1, <2>2, <3>2, <5>1 DEF Memory
      <4> QED
        BY <4>1, <4>2
    <3>4. CASE last.task = t
      BY <2>1, <3>3, <3>4
    <3>5. CASE last.task # t
      BY <1>1, <2>1, <2>2, <3>2, <3>3, <3>5 DEF LastIsRemembered, Says
    <3> QED
      BY <3>4, <3>5
  <2> QED
    BY <2>1, <2>2 DEF LastIsRemembered, Says
<1>10. ASSUME EvictOldest
       PROVE  LastIsRemembered'
  <2>1. PICK t \in Works : works' = [works EXCEPT ![t] = [NoWork EXCEPT !.parent = works[t].parent]]
    BY <1>10 DEF EvictOldest
  <2>2. works'[t].status = "absent" /\ \A u \in Works \ {t} : works'[u] = works[u]
    BY <1>1, <2>1 DEF NoWork
  <2>3. UNCHANGED <<threadTurns, requests>>
    BY <1>10 DEF EvictOldest
  <2> QED
    BY <1>1, <2>2, <2>3 DEF LastIsRemembered, Says
<1>11. ASSUME NEW p \in Compactors, PlanCompaction(p) \/ WriteSummaryIfCurrent(p) \/ DropCompaction(p)
       PROVE  LastIsRemembered'
  BY <1>2, <1>11 DEF PlanCompaction, BeginCompaction, WriteSummaryIfCurrent, WriteSummary, DropCompaction
<1> QED
  BY <1>2, <1>3, <1>4, <1>5, <1>6, <1>7, <1>8, <1>9, <1>10, <1>11 DEF ThreadNext, threadVars

-----------------------------------------------------------------------------
(***************************************************************************)
(* No turn is told twice: while all ids are kept, ...                      *)
(***************************************************************************)

SummaryIsKept ==
    Len(compactedIds) < KeptTurns => \A c \in summary : c.turn \in ToSet(compactedIds)

\* Ids are only added, until there are as many as are kept.
LEMMA IdsAreAdded ==
  ASSUME ThreadTypeOK, NEW p \in Compactors, WriteSummaryIfCurrent(p),
         Len(compactedIds') < KeptTurns
  PROVE  /\ Len(compactedIds) < KeptTurns
         /\ \A id : id \in ToSet(compactedIds') <=>
                        id \in ToSet(compactedIds) \/ id \in compactions[p].plan
<1>1. PICK ids \in Seq(TurnIds) :
            /\ compactedIds' = Newest(compactedIds \o ids, KeptTurns)
            /\ ToSet(ids) = NewlyCompacted(p)
            /\ compactedIds \o ids \in Seq(TurnIds)
            /\ compactedIds' \in Seq(TurnIds)
  BY WrittenIds
<1> DEFINE both == compactedIds \o ids
<1>2. compactedIds \in Seq(TurnIds) /\ both \in Seq(TurnIds) /\ Len(both) = Len(compactedIds) + Len(ids)
  BY <1>1 DEF ThreadTypeOK
<1> HIDE DEF both
<1>3. compactedIds' = Newest(both, KeptTurns)
  BY <1>1 DEF both
<1>4. Len(compactedIds') = Len(both) /\ ToSet(compactedIds') = ToSet(both)
  BY <1>2, <1>3, NewestAll, ThreadConstants
<1>5. \A id : id \in ToSet(compactedIds') <=> id \in ToSet(both)
  BY <1>4
<1>6. \A id : id \in ToSet(both) <=> id \in ToSet(compactedIds) \/ id \in ToSet(ids)
  BY <1>1, <1>2, MembersOfBoth DEF both
<1>7. \A id : id \in ToSet(compactedIds) \/ id \in ToSet(ids)
                <=> id \in ToSet(compactedIds) \/ id \in compactions[p].plan
  BY <1>1 DEF NewlyCompacted
<1>8. Len(compactedIds) < KeptTurns
  BY <1>1, <1>2, <1>4, ThreadConstants
<1> QED
  BY <1>5, <1>6, <1>7, <1>8

LEMMA SummaryIsKeptStep ==
  ASSUME ThreadTypeOK, PlansAreTold, SummaryIsKept, [ThreadNext]_threadVars
  PROVE  /\ SummaryIsKept'
         /\ Len(compactedIds') < KeptTurns => Len(compactedIds) < KeptTurns
<1>1. CASE UNCHANGED <<summary, compactedIds>>
  BY <1>1 DEF SummaryIsKept
<1>2. ASSUME NEW p \in Compactors, WriteSummaryIfCurrent(p)
      PROVE  /\ SummaryIsKept'
             /\ Len(compactedIds') < KeptTurns => Len(compactedIds) < KeptTurns
  <2>1. summary' = summary \cup compactions[p].messages
    BY <1>2 DEF WriteSummaryIfCurrent, WriteSummary
  <2>2. \A c \in compactions[p].messages : c.turn \in compactions[p].plan
    BY DEF PlansAreTold
  <2> QED
    BY <1>2, <2>1, <2>2, IdsAreAdded DEF SummaryIsKept
<1>3. CASE WorkStep
  BY <1>1, <1>3, WorkMovesTheThread
<1>4. ASSUME NEW p \in Compactors, PlanCompaction(p) \/ DropCompaction(p)
      PROVE  UNCHANGED <<summary, compactedIds>>
  BY <1>4 DEF PlanCompaction, BeginCompaction, DropCompaction
<1> QED
  BY <1>1, <1>2, <1>3, <1>4 DEF ThreadNext, WorkStep, threadVars

\* What the conversation tells is of open turns.
LEMMA ConversationIsOpen ==
  ASSUME ThreadTypeOK, NEW c \in Conversation
  PROVE  \E i \in 1..Len(threadTurns) : /\ i \in OpenTurns /\ c.turn = threadTurns[i].id
                                        /\ threadTurns[i].id \notin ToSet(compactedIds)
<1>1. PICK i \in OpenTurns : c = Says(threadTurns[i])
  BY DEF Conversation, Told, LastOf
<1>2. i \in 1..Len(threadTurns) /\ ~ Contains(compactedIds, threadTurns[i].id)
  BY TurnsTyped DEF OpenTurns, CompletedTurns
<1>3. threadTurns[i].id \notin ToSet(compactedIds)
  BY <1>2, MembersOf DEF ThreadTypeOK
<1> QED
  BY <1>1, <1>2, <1>3 DEF Says

-----------------------------------------------------------------------------
(***************************************************************************)
(* ... and while turns are worked on one after the other.                  *)
(***************************************************************************)

\* No record was handed out twice.
AbsentAreNew == intrusions = 0 => \A t \in Works : works[t].status = "absent" => works[t].parent = 0

\* Only the last turn is worked on, and no turn has another task than its first.
WorkIsAtTheEnd ==
    /\ \A t \in Works : works[t].status \in {"working", "waiting"} =>
          threadTurns # << >> /\ t = threadTurns[Len(threadTurns)].task
    /\ \A i \in 1..Len(threadTurns) : threadTurns[i].task = threadTurns[i].id

Ascending(seq) == \A i, j \in 1..Len(seq) : i < j => seq[i] < seq[j]

\* The thread has no gap.
WereShown(ids) ==
    \A id \in ids : threadTurns # << >> /\ threadTurns[1].id <= id =>
        \E i \in 1..Len(threadTurns) : threadTurns[i].id = id

After(ids, i) == \A id \in ids : id < threadTurns[i].id

SummaryTurns == {c.turn : c \in summary}

\* Turns are compacted from the beginning on, ...
CompactedInOrder ==
    /\ Ascending(compactedIds)
    /\ WereShown(ToSet(compactedIds))
    /\ \A i \in OpenTurns : After(ToSet(compactedIds) \cup SummaryTurns, i)

\* ... and a plan that may still be written takes the next ones.
PlansInOrder ==
    \A p \in Compactors :
        /\ WereShown(compactions[p].plan)
        /\ compactions[p].previous \subseteq summary
        /\ compactions[p].active /\ compactions[p].previous = summary =>
            /\ \A id \in compactions[p].plan, old \in ToSet(compactedIds) \cup SummaryTurns : old < id
            /\ \A i \in OpenTurns :
                  threadTurns[i].id \in compactions[p].plan \/ After(compactions[p].plan, i)

SequenceInv == WorkIsAtTheEnd /\ CompactedInOrder /\ PlansInOrder

\* More ids than the thread has places, growing and none older than a turn that is
\* shown, are not all shown.
LEMMA NoShownIdIsDropped ==
  ASSUME ThreadTypeOK, NEW seq \in Seq(TurnIds), Ascending(seq), WereShown(ToSet(seq)),
         TurnsAreInOrder,
         NEW i \in 1..Dropped(seq, KeptTurns), NEW j \in 1..Len(threadTurns)
  PROVE  seq[i] # threadTurns[j].id
<1> SUFFICES ASSUME seq[i] = threadTurns[j].id PROVE FALSE
  OBVIOUS
<1> DEFINE S == i..Len(seq)
           T == 1..Len(threadTurns)
           f == [k \in S |-> CHOOSE l \in T : threadTurns[l].id = seq[k]]
<1>1. /\ Len(seq) \in Nat /\ Len(threadTurns) \in Nat /\ Len(threadTurns) <= KeptTurns
      /\ i \in 1..Len(seq) /\ Len(seq) - i >= KeptTurns
  BY TurnsTyped, ThreadConstants DEF Dropped
<1>2. /\ IsFiniteSet(S) /\ IsFiniteSet(T)
      /\ Cardinality(S) = Len(seq) - i + 1 /\ Cardinality(T) = Len(threadTurns)
  <2>1. i \in Int /\ Len(seq) \in Int /\ i <= Len(seq)
    BY <1>1
  <2>2. IsFiniteSet(S) /\ Cardinality(S) = Len(seq) - i + 1
    <3>1. IsFiniteSet(i..Len(seq))
            /\ Cardinality(i..Len(seq)) = IF i > Len(seq) THEN 0 ELSE Len(seq) - i + 1
      BY <2>1, FS_Interval
    <3> QED
      BY <2>1, <3>1
  <2>3. IsFiniteSet(T) /\ Cardinality(T) = Len(threadTurns)
    <3>1. IsFiniteSet(1..Len(threadTurns))
            /\ Cardinality(1..Len(threadTurns)) =
                  IF 1 > Len(threadTurns) THEN 0 ELSE Len(threadTurns) - 1 + 1
      BY <1>1, FS_Interval
    <3> QED
      BY <1>1, <3>1
  <2> QED
    BY <2>2, <2>3
<1>3. Cardinality(T) < Cardinality(S)
  BY <1>1, <1>2, ThreadConstants
<1>4. \A k \in S : k \in 1..Len(seq) /\ seq[k] \in Nat /\ seq[i] <= seq[k]
  <2>0. \A k \in 1..Len(seq) : seq[k] \in Nat
    <3>1. \A k \in 1..Len(seq) : seq[k] \in TurnIds
      OBVIOUS
    <3> QED
      BY <3>1, ThreadConstants
  <2>1. \A k \in S : k \in 1..Len(seq) /\ seq[k] \in Nat /\ seq[i] \in Nat
    BY <1>1, <2>0
  <2> QED
    BY <1>1, <2>1 DEF Ascending
<1>5. threadTurns[1].id <= seq[i] /\ threadTurns # << >> /\ threadTurns[1].id \in Nat
  BY TurnsTyped DEF TurnsAreInOrder
<1>6. ASSUME NEW k \in S
      PROVE  \E l \in T : threadTurns[l].id = seq[k]
  <2>1. seq[k] \in ToSet(seq)
    BY <1>4, MembersOf
  <2>2. threadTurns[1].id <= seq[k]
    BY <1>1, <1>4, <1>5, ThreadConstants
  <2> QED
    BY <1>5, <2>1, <2>2 DEF WereShown
<1>7. f \in [S -> T] /\ \A k \in S : threadTurns[f[k]].id = seq[k]
  BY <1>6
<1> HIDE DEF f
<1> HIDE DEF S, T
<1>8. PICK k \in S, l \in S : k # l /\ f[k] = f[l]
  BY <1>2, <1>3, <1>7, FS_PigeonHole
<1> USE DEF S, T
<1>9. seq[k] = seq[l]
  BY <1>7, <1>8
<1> QED
  BY <1>4, <1>8, <1>9 DEF Ascending

\* A task is created for a record that was never used.
LEMMA CreatesOne ==
  ASSUME ThreadTypeOK, NEW t \in Works, NextWork(t)
  PROVE  works[t].status = "absent"
<1>1. t \notin UsedIds
  BY ThreadConstants DEF NextWork
<1> QED
  BY <1>1 DEF UsedIds

\* Where turns are worked on one after the other, they were before.
LEMMA AloneBefore ==
  ASSUME ThreadTypeOK, AbsentAreNew, [ThreadNext]_threadVars
  PROVE  AbsentAreNew' /\ (OneAfterTheOther' => OneAfterTheOther)
<1>0. works \in [Works -> Work] /\ intrusions \in Nat
  BY ThreadConstants DEF ThreadTypeOK
<1>1. CASE UNCHANGED <<works, intrusions>>
  BY <1>1 DEF AbsentAreNew, OneAfterTheOther
<1>2. ASSUME NEW t \in Works, NEW parent \in Works \cup {0}, NextWork(t),
             works' = [works EXCEPT ![t] = CreatedWork(parent)], intrusions' = intrusions
      PROVE  AbsentAreNew' /\ (OneAfterTheOther' => OneAfterTheOther)
  <2>1. works[t].status = "absent"
    BY <1>2, CreatesOne
  <2>2. works'[t].status = "working" /\ \A u \in Works \ {t} : works'[u] = works[u]
    BY <1>0, <1>2 DEF CreatedWork, NoWork
  <2> QED
    BY <1>2, <2>1, <2>2 DEF AbsentAreNew, OneAfterTheOther
<1>3. ASSUME intrusions' = intrusions + 1
      PROVE  AbsentAreNew' /\ (OneAfterTheOther' => OneAfterTheOther)
  BY <1>0, <1>3 DEF AbsentAreNew, OneAfterTheOther
<1>4. ASSUME NEW t \in Works, NEW status \in {"completed", "failed", "waiting"}, NEW choice \in BOOLEAN,
             FinishWork(t, status, choice)
      PROVE  AbsentAreNew' /\ (OneAfterTheOther' => OneAfterTheOther)
  <2>1. /\ works'[t].status = status /\ works'[t].parent = works[t].parent /\ intrusions' = intrusions
        /\ \A u \in Works \ {t} : works'[u] = works[u]
    BY <1>0, <1>4 DEF FinishWork, Work
  <2> QED
    BY <1>4, <2>1 DEF AbsentAreNew, OneAfterTheOther
<1>5. CASE \E q \in Requests : ReadThread(q) \/ StartTurn(q) \/ RefuseTurn(q)
  BY <1>1, <1>2, <1>5 DEF ReadThread, StartTurn, RefuseTurn
<1>6. CASE \E o \in Works : RetryTurn(o)
  BY <1>2, <1>6 DEF RetryTurn
<1>7. CASE \E i \in DOMAIN threadTurns : RegenerateTurn(i)
  BY <1>2, <1>7, TurnsTyped DEF RegenerateTurn, Replace
<1>8. CASE (\E i \in DOMAIN threadTurns : AnswerTurn(i)) \/ EvictOldest
  BY <1>3, <1>8 DEF AnswerTurn, EvictOldest
<1>9. CASE \E p \in Compactors : PlanCompaction(p) \/ WriteSummaryIfCurrent(p) \/ DropCompaction(p)
  BY <1>1, <1>9 DEF PlanCompaction, BeginCompaction, WriteSummaryIfCurrent, WriteSummary, DropCompaction
<1> QED
  BY <1>1, <1>4, <1>5, <1>6, <1>7, <1>8, <1>9 DEF ThreadNext, threadVars

\* Nothing is retried, regenerated, answered or pushed out then.
LEMMA NoDetour ==
  ASSUME ThreadTypeOK, OneAfterTheOther', WorkStep
  PROVE  \/ \E q \in Requests : StartTurn(q)
         \/ \E t \in Works, status \in {"completed", "failed", "waiting"}, choice \in BOOLEAN :
                FinishWork(t, status, choice)
         \/ UNCHANGED <<works, threadTurns>>
<1>0. works \in [Works -> Work] /\ intrusions \in Nat
  BY ThreadConstants DEF ThreadTypeOK
<1>1. ASSUME NEW t \in Works, NEW parent \in Works, works' = [works EXCEPT ![t] = CreatedWork(parent)]
      PROVE  FALSE
  <2>1. works'[t].parent = parent
    BY <1>0, <1>1 DEF CreatedWork, NoWork
  <2> QED
    BY <2>1, ThreadConstants DEF OneAfterTheOther
<1>2. ~ \E o \in Works : RetryTurn(o)
  BY <1>1 DEF RetryTurn
<1>3. ~ \E i \in DOMAIN threadTurns : RegenerateTurn(i)
  BY <1>1, TurnsTyped DEF RegenerateTurn, Replace
<1>4. ~ ((\E i \in DOMAIN threadTurns : AnswerTurn(i)) \/ EvictOldest)
  <2>1. intrusions' # intrusions + 1
    BY <1>0 DEF OneAfterTheOther
  <2> QED
    BY <2>1 DEF AnswerTurn, EvictOldest
<1> QED
  BY <1>2, <1>3, <1>4 DEF WorkStep, ReadThread, RefuseTurn

\* What is shown stays so, or is older than what the thread begins with.
LEMMA ShownStays ==
  ASSUME ThreadTypeOK, TurnsAreInOrder, NEW t \in Works, NextWork(t), AppendTurn(t),
         NEW ids \in SUBSET Nat, WereShown(ids),
         \A id \in ids : Past(id)
  PROVE  WereShown(ids)'
<1>1. threadTurns' \in Seq(Turn)
  BY ThreadGrows
<1>2. PICK d \in 0..1 :
            /\ Len(threadTurns') = Len(threadTurns) + 1 - d
            /\ Len(threadTurns') >= 1
            /\ \A i \in 1..(Len(threadTurns') - 1) :
                  i + d \in 1..Len(threadTurns) /\ threadTurns'[i] = threadTurns[i + d]
            /\ threadTurns'[Len(threadTurns')] = [id |-> t, task |-> t]
  BY ThreadGrows
<1>3. ASSUME NEW id \in ids, threadTurns'[1].id <= id
      PROVE  \E i \in 1..Len(threadTurns') : threadTurns'[i].id = id
  <2>1. /\ Len(threadTurns) \in 1..Len(threadTurns) /\ id < threadTurns[Len(threadTurns)].id
        /\ threadTurns # << >> /\ id \in Nat
    <3>1. Past(id) /\ (threadTurns # << >> => Len(threadTurns) \in 1..Len(threadTurns))
      BY <1>3, TurnsTyped
    <3> QED
      BY <1>3, <3>1 DEF Past
  <2>2. \A i \in 1..Len(threadTurns) : threadTurns[i].id < t /\ threadTurns[i].id \in Nat
    BY TurnsTyped, MembersOf DEF NextWork, UsedIds
  <2>3. Len(threadTurns') > 1
    <3>1. Len(threadTurns') = 1 => threadTurns'[1].id = t
      <4>1. threadTurns'[Len(threadTurns')].id = t
        BY <1>2
      <4> QED
        BY <4>1
    <3>2. t \in Nat /\ Len(threadTurns') \in Nat
      BY <1>1, ThreadConstants
    <3> QED
      BY <1>2, <1>3, <2>1, <2>2, <3>1, <3>2
  <2>4. 1 + d \in 1..Len(threadTurns) /\ threadTurns'[1].id = threadTurns[1 + d].id
    <3>1. 1 \in 1..(Len(threadTurns') - 1)
      BY <1>1, <2>3
    <3> QED
      BY <1>2, <3>1
  <2>5. \A j \in 1..Len(threadTurns) : j < 1 + d => threadTurns[j].id < id
    <3>1. \A j \in 1..Len(threadTurns) : j < 1 + d => threadTurns[j].id < threadTurns[1 + d].id
      BY <2>4 DEF TurnsAreInOrder
    <3>2. threadTurns[1 + d].id <= id /\ threadTurns[1 + d].id \in Nat
      BY <1>3, <2>2, <2>4
    <3> QED
      BY <2>1, <2>2, <3>1, <3>2
  <2>6. threadTurns[1].id <= id
    <3>1. CASE d = 0
      BY <1>3, <2>4, <3>1
    <3>2. CASE d # 0
      BY <2>1, <2>2, <2>5, <3>2
    <3> QED
      BY <3>1, <3>2
  <2>7. PICK j \in 1..Len(threadTurns) : threadTurns[j].id = id
    BY <2>1, <2>6 DEF WereShown
  <2>8. j # Len(threadTurns) /\ ~ (j < 1 + d)
    BY <2>1, <2>2, <2>5, <2>7
  <2>9. j - d \in 1..(Len(threadTurns') - 1) /\ (j - d) + d = j
    BY <1>2, <2>1, <2>8
  <2>10. threadTurns'[j - d] = threadTurns[j]
    BY <1>2, <2>9
  <2> QED
    BY <1>1, <2>7, <2>9, <2>10
<1> QED
  BY <1>3 DEF WereShown

\* Where a turn that is completed was completed and shown before, the open turns are
\* some of those before.
LEMMA OpenTurnsWere ==
  ASSUME ThreadTypeOK, compactedIds' = compactedIds, threadTurns' \in Seq(Turn),
         NEW i \in OpenTurns', NEW j \in 1..Len(threadTurns),
         threadTurns[j] = threadTurns'[i],
         works'[threadTurns[j].task] = works[threadTurns[j].task]
  PROVE  j \in OpenTurns
<1>1. /\ i \in 1..Len(threadTurns') /\ works'[threadTurns'[i].task].status = "completed"
      /\ ~ Contains(compactedIds', threadTurns'[i].id)
  BY DEF OpenTurns, CompletedTurns
<1>2. Contains(compactedIds', threadTurns'[i].id) <=> Contains(compactedIds, threadTurns[j].id)
  BY DEF Contains
<1> QED
  BY <1>1, <1>2, TurnsTyped DEF OpenTurns, CompletedTurns

MemoryInv ==
    /\ ThreadTypeOK
    /\ VersionsAreCounted
    /\ TurnsAreInOrder
    /\ CompactedArePast
    /\ PlansAreTold
    /\ CompactedTurnsAreSummarised
    /\ LastIsRemembered
    /\ SummaryIsKept
    /\ AbsentAreNew
    /\ OneAfterTheOther => SequenceInv

\* What a step of the thread's history has to leave as it was.
LEMMA SequenceGoesOn ==
  ASSUME MemoryInv, SequenceInv, UNCHANGED <<summary, compactedIds, compactions>>,
         WorkIsAtTheEnd',
         \A ids \in SUBSET Nat : WereShown(ids) /\ (\A id \in ids : Past(id)) => WereShown(ids)',
         \A i \in OpenTurns' :
            \/ \A id \in Nat : Past(id) => id < threadTurns'[i].id
            \/ \E j \in OpenTurns : threadTurns'[i].id = threadTurns[j].id
  PROVE  SequenceInv'
<1>1. /\ ToSet(compactedIds) \in SUBSET Nat /\ SummaryTurns \in SUBSET Nat
      /\ \A p \in Compactors : compactions[p].plan \in SUBSET Nat
  <2>1. \A id \in ToSet(compactedIds) : id \in TurnIds
    BY MembersOf DEF MemoryInv, ThreadTypeOK
  <2> QED
    BY <2>1, ThreadConstants DEF MemoryInv, ThreadTypeOK, Content, SummaryTurns
<1>2. /\ \A id \in ToSet(compactedIds) \cup SummaryTurns : Past(id)
      /\ \A p \in Compactors : \A id \in compactions[p].plan : Past(id)
  BY DEF MemoryInv, CompactedArePast, SummaryTurns
<1>3. CompactedInOrder'
  <2>1. WereShown(ToSet(compactedIds))'
    BY <1>1, <1>2 DEF SequenceInv, CompactedInOrder
  <2>2. \A i \in OpenTurns' : After(ToSet(compactedIds) \cup SummaryTurns, i)'
    BY <1>1, <1>2 DEF SequenceInv, CompactedInOrder, After, SummaryTurns
  <2> QED
    BY <2>1, <2>2 DEF SequenceInv, CompactedInOrder, Ascending
<1>4. PlansInOrder'
  <2>1. ASSUME NEW p \in Compactors
        PROVE  /\ WereShown(compactions[p].plan)'
               /\ \A i \in OpenTurns' :
                    (\A j \in OpenTurns : threadTurns[j].id \in compactions[p].plan
                                            \/ After(compactions[p].plan, j)) =>
                    \/ threadTurns'[i].id \in compactions[p].plan
                    \/ After(compactions[p].plan, i)'
    BY <1>1, <1>2 DEF SequenceInv, PlansInOrder, After
  <2> QED
    BY <2>1 DEF SequenceInv, PlansInOrder, SummaryTurns
<1> QED
  BY <1>3, <1>4 DEF SequenceInv

LEMMA StartKeepsSequence ==
  ASSUME MemoryInv, SequenceInv, OneAfterTheOther', NEW q \in Requests, StartTurn(q)
  PROVE  SequenceInv'
<1>1. /\ ThreadTypeOK /\ TurnsAreInOrder /\ works \in [Works -> Work]
      /\ UNCHANGED <<summary, compactedIds, compactions>>
  BY DEF MemoryInv, ThreadTypeOK, StartTurn
<1>2. PICK t \in Works : NextWork(t) /\ works' = [works EXCEPT ![t] = CreatedWork(0)] /\ AppendTurn(t)
  BY DEF StartTurn
<1>3. threadTurns' \in Seq(Turn)
  BY <1>1, <1>2, ThreadGrows
<1>4. PICK d \in 0..1 :
            /\ Len(threadTurns') = Len(threadTurns) + 1 - d
            /\ Len(threadTurns') >= 1
            /\ \A i \in 1..(Len(threadTurns') - 1) :
                  i + d \in 1..Len(threadTurns) /\ threadTurns'[i] = threadTurns[i + d]
            /\ threadTurns'[Len(threadTurns')] = [id |-> t, task |-> t]
  BY <1>1, <1>2, ThreadGrows
<1>5. works'[t].status = "working" /\ \A u \in Works \ {t} : works'[u] = works[u]
  BY <1>1, <1>2 DEF CreatedWork, NoWork
<1>6. threadTurns'[Len(threadTurns')].id = t /\ threadTurns'[Len(threadTurns')].task = t
  BY <1>4
<1>7. \A i \in 1..Len(threadTurns) : threadTurns[i].task # t
  <2>1. \A i \in 1..Len(threadTurns) : threadTurns[i].task \in UsedIds
    BY <1>1, TurnsTyped, MembersOf DEF UsedIds
  <2> QED
    BY <1>2, <2>1, ThreadConstants DEF NextWork
<1>8. WorkIsAtTheEnd'
  <2>1. \A u \in Works : works[u].status \notin {"working", "waiting"}
    <3>1. \A i \in 1..Len(threadTurns) : works[threadTurns[i].task].status \notin {"working", "waiting"}
      BY <1>1, TurnsTyped, MembersOf DEF StartTurn
    <3>2. threadTurns # << >> => Len(threadTurns) \in 1..Len(threadTurns)
      BY <1>1, TurnsTyped
    <3> QED
      BY <3>1, <3>2 DEF SequenceInv, WorkIsAtTheEnd
  <2>2. threadTurns' # << >>
    BY <1>3, <1>4
  <2>3. \A i \in 1..Len(threadTurns') : threadTurns'[i].task = threadTurns'[i].id
    <3>1. \A i \in 1..Len(threadTurns') : i # Len(threadTurns') => i \in 1..(Len(threadTurns') - 1)
      BY <1>3
    <3> QED
      BY <1>4, <1>6, <3>1 DEF SequenceInv, WorkIsAtTheEnd
  <2> QED
    BY <1>5, <1>6, <2>1, <2>2, <2>3 DEF WorkIsAtTheEnd
<1>9. \A ids \in SUBSET Nat : WereShown(ids) /\ (\A id \in ids : Past(id)) => WereShown(ids)'
  BY <1>1, <1>2, ShownStays
<1>10. ASSUME NEW i \in OpenTurns'
       PROVE  \E j \in OpenTurns : threadTurns'[i].id = threadTurns[j].id
  <2>1. i \in 1..Len(threadTurns') /\ works'[threadTurns'[i].task].status = "completed"
    BY <1>3 DEF OpenTurns, CompletedTurns
  <2>2. i # Len(threadTurns')
    BY <1>5, <1>6, <2>1
  <2>3. i + d \in 1..Len(threadTurns) /\ threadTurns'[i] = threadTurns[i + d]
    <3>1. i \in 1..(Len(threadTurns') - 1)
      BY <1>3, <2>1, <2>2
    <3> QED
      BY <1>4, <3>1
  <2>4. works'[threadTurns[i + d].task] = works[threadTurns[i + d].task]
    BY <1>1, <1>5, <1>7, <2>3, TurnsTyped
  <2>5. i + d \in OpenTurns
    BY <1>1, <1>3, <2>3, <2>4, OpenTurnsWere
  <2> QED
    BY <2>3, <2>5
<1> QED
  BY <1>1, <1>8, <1>9, <1>10, SequenceGoesOn

LEMMA FinishKeepsSequence ==
  ASSUME MemoryInv, SequenceInv, OneAfterTheOther',
         NEW t \in Works, NEW status \in {"completed", "failed", "waiting"}, NEW choice \in BOOLEAN,
         FinishWork(t, status, choice)
  PROVE  SequenceInv'
<1>1. /\ ThreadTypeOK /\ TurnsAreInOrder /\ works \in [Works -> Work] /\ works[t].status = "working"
      /\ UNCHANGED <<threadTurns, summary, compactedIds, compactions>>
  BY DEF MemoryInv, ThreadTypeOK, FinishWork
<1>2. works'[t].status = status /\ \A u \in Works \ {t} : works'[u] = works[u]
  BY <1>1 DEF FinishWork, Work
<1>3. threadTurns # << >> /\ t = threadTurns[Len(threadTurns)].task /\ Len(threadTurns) \in 1..Len(threadTurns)
  BY <1>1, TurnsTyped DEF SequenceInv, WorkIsAtTheEnd
<1>4. WorkIsAtTheEnd'
  BY <1>1, <1>2, <1>3 DEF SequenceInv, WorkIsAtTheEnd
<1>5. \A ids \in SUBSET Nat : WereShown(ids) => WereShown(ids)'
  BY <1>1 DEF WereShown
<1>6. ASSUME NEW i \in OpenTurns'
      PROVE  \/ \A id \in Nat : Past(id) => id < threadTurns'[i].id
             \/ \E j \in OpenTurns : threadTurns'[i].id = threadTurns[j].id
  <2>1. i \in 1..Len(threadTurns)
    BY <1>1, TurnsTyped DEF OpenTurns, CompletedTurns
  <2>2. CASE i = Len(threadTurns)
    BY <1>1, <2>2 DEF Past
  <2>3. CASE i # Len(threadTurns)
    <3>1. threadTurns[i].task # t
      <4>1. threadTurns[i].id < threadTurns[Len(threadTurns)].id
        BY <1>1, <1>3, <2>1, <2>3 DEF TurnsAreInOrder
      <4>2. threadTurns[i].id \in Nat
        BY <1>1, <2>1, TurnsTyped
      <4> QED
        BY <1>3, <2>1, <4>1, <4>2 DEF SequenceInv, WorkIsAtTheEnd
    <3>2. works'[threadTurns[i].task] = works[threadTurns[i].task]
      BY <1>1, <1>2, <2>1, <3>1, TurnsTyped
    <3>3. i \in OpenTurns
      BY <1>1, <2>1, <3>2, TurnsTyped, OpenTurnsWere
    <3> QED
      BY <1>1, <3>3
  <2> QED
    BY <2>2, <2>3
<1> QED
  BY <1>1, <1>4, <1>5, <1>6, SequenceGoesOn

LEMMA PlanKeepsSequence ==
  ASSUME MemoryInv, SequenceInv, NEW p \in Compactors, PlanCompaction(p)
  PROVE  SequenceInv'
<1>1. PICK kept \in OpenTurns : BeginCompaction(p, {i \in OpenTurns : i < kept})
  BY DEF PlanCompaction
<1> DEFINE older == {i \in OpenTurns : i < kept}
<1>2. /\ UNCHANGED <<works, threadTurns, summary, compactedIds>>
      /\ \A r \in Compactors \ {p} : compactions'[r] = compactions[r]
      /\ compactions'[p].plan = {threadTurns[i].id : i \in older}
      /\ compactions'[p].previous = summary
  BY <1>1 DEF BeginCompaction, MemoryInv, ThreadTypeOK
<1>3. /\ TurnsAreInOrder /\ OpenTurns \subseteq 1..Len(threadTurns)
      /\ \A i \in 1..Len(threadTurns) : threadTurns[i].id \in Nat
      /\ threadTurns # << >>
  <2>1. ThreadTypeOK
    BY DEF MemoryInv
  <2> QED
    BY <2>1, TurnsTyped DEF MemoryInv, OpenTurns, CompletedTurns
<1>4. WorkIsAtTheEnd' /\ CompactedInOrder'
  BY <1>2 DEF SequenceInv, WorkIsAtTheEnd, CompactedInOrder, Ascending, WereShown, After, SummaryTurns,
              OpenTurns, CompletedTurns
<1>5. OpenTurns' = OpenTurns /\ SummaryTurns' = SummaryTurns
  BY <1>2 DEF OpenTurns, CompletedTurns, SummaryTurns
<1>6. \A i \in OpenTurns : i \in older \/ \A j \in older : threadTurns[j].id < threadTurns[i].id
  <2>1. ASSUME NEW i \in OpenTurns, i \notin older, NEW j \in older
        PROVE  threadTurns[j].id < threadTurns[i].id
    <3>1. i \in Nat /\ j \in Nat /\ kept \in Nat /\ j < i
      BY <1>3, <2>1
    <3> QED
      BY <1>3, <2>1, <3>1 DEF TurnsAreInOrder
  <2> QED
    BY <2>1
<1>7. \A i \in older : i \in OpenTurns
  OBVIOUS
<1> HIDE DEF older
<1>8. WereShown(compactions[p].plan)'
  BY <1>2, <1>3, <1>7 DEF WereShown
<1>9. \A id \in compactions'[p].plan, old \in ToSet(compactedIds) \cup SummaryTurns : old < id
  BY <1>2, <1>7 DEF SequenceInv, CompactedInOrder, After
<1>10. \A i \in OpenTurns : threadTurns[i].id \in compactions'[p].plan \/ After(compactions'[p].plan, i)
  BY <1>2, <1>6 DEF After
<1>11. ASSUME NEW r \in Compactors
       PROVE  /\ WereShown(compactions[r].plan)'
              /\ compactions'[r].previous \subseteq summary'
  <2>1. CASE r = p
    BY <1>2, <1>8, <2>1
  <2>2. CASE r # p
    BY <1>2, <2>2 DEF SequenceInv, PlansInOrder, WereShown
  <2> QED
    BY <2>1, <2>2
<1>12. ASSUME NEW r \in Compactors, compactions'[r].active, compactions'[r].previous = summary'
       PROVE  /\ \A id \in compactions'[r].plan, old \in ToSet(compactedIds) \cup SummaryTurns : old < id
              /\ \A i \in OpenTurns :
                    threadTurns[i].id \in compactions'[r].plan \/ After(compactions'[r].plan, i)
  <2>1. CASE r = p
    BY <1>9, <1>10, <2>1
  <2>2. CASE r # p
    BY <1>2, <1>12, <2>2 DEF SequenceInv, PlansInOrder
  <2> QED
    BY <2>1, <2>2
<1>13. PlansInOrder'
  <2>1. ToSet(compactedIds') = ToSet(compactedIds)
    BY <1>2
  <2>2. \A r \in Compactors, i \in OpenTurns :
          After(compactions'[r].plan, i) => After(compactions[r].plan, i)'
    BY <1>2 DEF After
  <2> QED
    BY <1>2, <1>5, <1>11, <1>12, <2>1, <2>2 DEF PlansInOrder
<1> QED
  BY <1>4, <1>13 DEF SequenceInv

\* What a compaction adds comes after what was compacted, ...
LEMMA AddedInOrder ==
  ASSUME NEW s \in Seq(TurnIds), NEW t \in Seq(TurnIds), Ascending(s), Ascending(t),
         \A id \in ToSet(t), old \in ToSet(s) : old < id
  PROVE  Ascending(s \o t)
<1>1. /\ Len(s) \in Nat /\ Len(t) \in Nat /\ Len(s \o t) = Len(s) + Len(t)
      /\ \A i \in 1..Len(s) : (s \o t)[i] = s[i]
      /\ \A i \in 1..Len(t) : (s \o t)[Len(s) + i] = t[i]
  OBVIOUS
<1>2. \A i \in 1..Len(s \o t) : i > Len(s) => /\ i - Len(s) \in 1..Len(t)
                                            /\ (s \o t)[i] = t[i - Len(s)]
  <2>1. \A i \in 1..Len(s \o t) : i > Len(s) => i - Len(s) \in 1..Len(t) /\ i = Len(s) + (i - Len(s))
    BY <1>1
  <2> QED
    BY <1>1, <2>1
<1>3. ASSUME NEW i \in 1..Len(s \o t), NEW j \in 1..Len(s \o t), i < j
      PROVE  (s \o t)[i] < (s \o t)[j]
  <2>1. CASE j <= Len(s)
    <3>1. i \in 1..Len(s) /\ j \in 1..Len(s)
      BY <1>1, <1>3, <2>1
    <3> QED
      BY <1>1, <1>3, <3>1 DEF Ascending
  <2>2. CASE i <= Len(s) /\ j > Len(s)
    <3>1. i \in 1..Len(s) /\ s[i] \in ToSet(s)
      BY <1>1, <2>2, MembersOf
    <3>2. j - Len(s) \in 1..Len(t) /\ t[j - Len(s)] \in ToSet(t)
      BY <1>2, <2>2, MembersOf
    <3> QED
      BY <1>1, <1>2, <2>2, <3>1, <3>2
  <2>3. CASE i > Len(s)
    <3>1. j > Len(s) /\ i - Len(s) < j - Len(s)
      BY <1>1, <1>3, <2>3
    <3> QED
      BY <1>2, <2>3, <3>1 DEF Ascending
  <2> QED
    BY <1>1, <2>1, <2>2, <2>3
<1> QED
  BY <1>3 DEF Ascending

\* ... and the order stays when the oldest are dropped.
LEMMA NewestInOrder ==
  ASSUME NEW seq \in Seq(TurnIds), Ascending(seq)
  PROVE  Ascending(Newest(seq, KeptTurns))
<1> DEFINE new == Newest(seq, KeptTurns)
           d == Dropped(seq, KeptTurns)
<1>1. /\ d \in 0..Len(seq) /\ new \in Seq(TurnIds) /\ Len(new) = Len(seq) - d
      /\ \A i \in 1..Len(new) : new[i] = seq[i + d]
  BY NewestAre, ThreadConstants
<1> HIDE DEF new, d
<1>2. \A i \in 1..Len(new) : i + d \in 1..Len(seq)
  BY <1>1
<1>3. ASSUME NEW i \in 1..Len(new), NEW j \in 1..Len(new), i < j
      PROVE  new[i] < new[j]
  <2>1. i + d < j + d
    BY <1>1, <1>3
  <2> QED
    BY <1>1, <1>2, <2>1 DEF Ascending
<1> QED
  BY <1>3 DEF Ascending, new

\* The ids that are dropped are those of turns the thread shows no more.
LEMMA DroppedAreNotShown ==
  ASSUME ThreadTypeOK, TurnsAreInOrder,
         NEW seq \in Seq(TurnIds), Ascending(seq), WereShown(ToSet(seq)),
         NEW j \in 1..Len(threadTurns), threadTurns[j].id \in ToSet(seq)
  PROVE  threadTurns[j].id \in ToSet(Newest(seq, KeptTurns))
<1> DEFINE new == Newest(seq, KeptTurns)
           d == Dropped(seq, KeptTurns)
<1>1. /\ d \in 0..Len(seq) /\ new \in Seq(TurnIds) /\ Len(new) = Len(seq) - d
      /\ \A i \in 1..Len(new) : new[i] = seq[i + d]
  BY NewestAre, ThreadConstants
<1>2. PICK k \in 1..Len(seq) : seq[k] = threadTurns[j].id
  BY MembersOf
<1>3. k \notin 1..d
  BY <1>2, NoShownIdIsDropped
<1> HIDE DEF new, d
<1>4. k - d \in 1..Len(new) /\ (k - d) + d = k
  BY <1>1, <1>3
<1>5. new[k - d] = threadTurns[j].id
  BY <1>1, <1>2, <1>4
<1> QED
  BY <1>1, <1>4, <1>5, MembersOf DEF new

LEMMA WriteKeepsSequence ==
  ASSUME MemoryInv, SequenceInv, NEW p \in Compactors, WriteSummaryIfCurrent(p)
  PROVE  SequenceInv'
<1>1. ThreadTypeOK /\ TurnsAreInOrder /\ PlansAreTold
  BY DEF MemoryInv
<1>2. PICK ids \in Seq(TurnIds) :
            /\ compactedIds' = Newest(compactedIds \o ids, KeptTurns)
            /\ ToSet(ids) = NewlyCompacted(p)
            /\ \A i, j \in 1..Len(ids) : i < j => ids[i] < ids[j]
            /\ compactedIds \o ids \in Seq(TurnIds)
            /\ compactedIds' \in Seq(TurnIds)
            /\ \A id \in ToSet(compactedIds') : id \in ToSet(compactedIds) \cup compactions[p].plan
  BY <1>1, WrittenIds
<1>3. /\ compactions[p].active /\ summary = compactions[p].previous /\ NewlyCompacted(p) # {}
      /\ summary' = summary \cup compactions[p].messages
      /\ compactions' = [compactions EXCEPT ![p] = Unplanned]
      /\ UNCHANGED <<works, threadTurns>>
  BY DEF WriteSummaryIfCurrent, WriteSummary
<1>4. /\ \A r \in Compactors \ {p} : compactions'[r] = compactions[r]
      /\ compactions'[p] = Unplanned
  BY <1>1, <1>3 DEF ThreadTypeOK
<1>5. /\ \A id \in compactions[p].plan, old \in ToSet(compactedIds) \cup SummaryTurns : old < id
      /\ \A i \in OpenTurns : threadTurns[i].id \in compactions[p].plan \/ After(compactions[p].plan, i)
      /\ WereShown(compactions[p].plan)
  BY <1>3 DEF SequenceInv, PlansInOrder
<1> DEFINE both == compactedIds \o ids
<1>6. /\ compactedIds \in Seq(TurnIds)
      /\ \A id : id \in ToSet(both) <=> id \in ToSet(compactedIds) \/ id \in compactions[p].plan
  <2>1. compactedIds \in Seq(TurnIds)
    BY <1>1 DEF ThreadTypeOK
  <2>2. \A id : id \in ToSet(both) <=> id \in ToSet(compactedIds) \/ id \in ToSet(ids)
    BY <2>1, MembersOfBoth
  <2> QED
    BY <1>2, <2>1, <2>2 DEF NewlyCompacted
<1>7. Ascending(both)
  BY <1>2, <1>5, <1>6, AddedInOrder DEF SequenceInv, CompactedInOrder, Ascending, NewlyCompacted
<1> HIDE DEF both
<1>8. both \in Seq(TurnIds) /\ compactedIds' = Newest(both, KeptTurns)
  BY <1>2 DEF both
<1>9. WereShown(ToSet(both))
  BY <1>5, <1>6 DEF SequenceInv, CompactedInOrder, WereShown
<1>10. Ascending(compactedIds)'
  BY <1>7, <1>8, NewestInOrder DEF Ascending
<1>11. WereShown(ToSet(compactedIds))'
  BY <1>2, <1>3, <1>5 DEF SequenceInv, CompactedInOrder, WereShown
<1>12. ASSUME NEW i \in OpenTurns'
       PROVE  i \in OpenTurns /\ After(compactions[p].plan, i)
  <2>1. /\ i \in 1..Len(threadTurns) /\ works[threadTurns[i].task].status = "completed"
        /\ ~ Contains(compactedIds', threadTurns[i].id)
    BY <1>1, <1>3, TurnsTyped DEF OpenTurns, CompletedTurns
  <2>2. threadTurns[i].id \notin ToSet(compactedIds')
    BY <1>2, <2>1, MembersOf
  <2>3. threadTurns[i].id \notin ToSet(both)
    BY <1>1, <1>7, <1>8, <1>9, <2>1, <2>2, DroppedAreNotShown
  <2>4. ~ Contains(compactedIds, threadTurns[i].id) /\ threadTurns[i].id \notin compactions[p].plan
    BY <1>6, <2>3, MembersOf
  <2>5. i \in OpenTurns
    BY <1>1, <2>1, <2>4, TurnsTyped DEF OpenTurns, CompletedTurns
  <2> QED
    BY <1>5, <2>4, <2>5
<1>13. /\ \A id \in SummaryTurns' : id \in SummaryTurns \/ id \in compactions[p].plan
       /\ \A id \in ToSet(compactedIds') : id \in ToSet(compactedIds) \/ id \in compactions[p].plan
  BY <1>1, <1>2, <1>3 DEF SummaryTurns, PlansAreTold
<1>14. CompactedInOrder'
  <2>1. ASSUME NEW i \in OpenTurns'
        PROVE  After(ToSet(compactedIds) \cup SummaryTurns, i)'
    BY <1>3, <1>12, <1>13 DEF After, SequenceInv, CompactedInOrder
  <2> QED
    BY <1>10, <1>11, <2>1 DEF CompactedInOrder
<1>15. \A r \in Compactors : compactions[r].previous # summary'
  <2>1. PICK id \in compactions[p].plan : TRUE
    BY <1>3 DEF NewlyCompacted
  <2>2. PICK c \in compactions[p].messages : c.turn = id
    BY <1>1, <2>1 DEF PlansAreTold
  <2>3. c \in summary' /\ id \in Nat
    BY <1>1, <1>3, <2>2, ThreadConstants DEF ThreadTypeOK
  <2>4. c \notin summary
    <3>1. c \in summary => id \in SummaryTurns
      BY <2>2 DEF SummaryTurns
    <3>2. id \in SummaryTurns => id < id
      BY <1>5, <2>1
    <3> QED
      BY <2>3, <3>1, <3>2
  <2> QED
    BY <2>3, <2>4 DEF SequenceInv, PlansInOrder
<1>16. PlansInOrder'
  <2>1. ASSUME NEW r \in Compactors
        PROVE  /\ WereShown(compactions[r].plan)'
               /\ compactions'[r].previous \subseteq summary'
               /\ ~ (compactions'[r].active /\ compactions'[r].previous = summary')
    <3>1. CASE r = p
      BY <1>4, <3>1 DEF Unplanned, WereShown
    <3>2. CASE r # p
      BY <1>3, <1>4, <1>15, <3>2 DEF SequenceInv, PlansInOrder, WereShown
    <3> QED
      BY <3>1, <3>2
  <2> QED
    BY <2>1 DEF PlansInOrder
<1>17. WorkIsAtTheEnd'
  BY <1>3 DEF SequenceInv, WorkIsAtTheEnd
<1> QED
  BY <1>14, <1>16, <1>17 DEF SequenceInv

\* What a step that writes nothing leaves as it was.
LEMMA IdleKeepsSequence ==
  ASSUME MemoryInv, SequenceInv,
         UNCHANGED <<works, threadTurns, summary, compactedIds>>,
         \A p \in Compactors : compactions'[p] = compactions[p] \/ compactions'[p] = Unplanned
  PROVE  SequenceInv'
<1>1. OpenTurns' = OpenTurns /\ SummaryTurns' = SummaryTurns
  BY DEF OpenTurns, CompletedTurns, SummaryTurns
<1>2. WorkIsAtTheEnd' /\ CompactedInOrder'
  BY <1>1 DEF SequenceInv, WorkIsAtTheEnd, CompactedInOrder, Ascending, WereShown, After
<1>3. ASSUME NEW p \in Compactors
      PROVE  /\ WereShown(compactions[p].plan)'
             /\ compactions'[p].previous \subseteq summary'
             /\ compactions'[p].active => compactions'[p] = compactions[p]
  <2>1. CASE compactions'[p] = compactions[p]
    BY <2>1 DEF SequenceInv, PlansInOrder, WereShown
  <2>2. CASE compactions'[p] = Unplanned
    BY <2>2 DEF Unplanned, WereShown
  <2> QED
    BY <2>1, <2>2
<1>4. \A p \in Compactors, i \in OpenTurns : compactions'[p] = compactions[p] =>
        (After(compactions[p].plan, i) => After(compactions[p].plan, i)')
  BY DEF After
<1>5. PlansInOrder'
  BY <1>1, <1>3, <1>4 DEF SequenceInv, PlansInOrder
<1> QED
  BY <1>2, <1>5 DEF SequenceInv

LEMMA SequenceStep ==
  ASSUME MemoryInv, [ThreadNext]_threadVars
  PROVE  (OneAfterTheOther => SequenceInv)'
<1> SUFFICES ASSUME OneAfterTheOther' PROVE SequenceInv'
  OBVIOUS
<1>1. ThreadTypeOK /\ SequenceInv
  BY AloneBefore DEF MemoryInv
<1>2. CASE UNCHANGED threadVars
  BY <1>1, <1>2, IdleKeepsSequence DEF threadVars
<1>3. CASE WorkStep
  <2>1. CASE UNCHANGED <<works, threadTurns>>
    BY <1>1, <1>3, <2>1, WorkMovesTheThread, IdleKeepsSequence
  <2> QED
    BY <1>1, <1>3, <2>1, NoDetour, StartKeepsSequence, FinishKeepsSequence
<1>4. ASSUME NEW p \in Compactors, PlanCompaction(p) \/ WriteSummaryIfCurrent(p)
      PROVE  SequenceInv'
  BY <1>1, <1>4, PlanKeepsSequence, WriteKeepsSequence
<1>5. ASSUME NEW p \in Compactors, DropCompaction(p)
      PROVE  SequenceInv'
  <2>1. /\ UNCHANGED <<works, threadTurns, summary, compactedIds>>
        /\ \A r \in Compactors : compactions'[r] = compactions[r] \/ compactions'[r] = Unplanned
    BY <1>1, <1>5 DEF DropCompaction, ThreadTypeOK
  <2> QED
    BY <1>1, <2>1, IdleKeepsSequence
<1> QED
  BY <1>2, <1>3, <1>4, <1>5 DEF ThreadNext, WorkStep

-----------------------------------------------------------------------------
(***************************************************************************)
(* All together.                                                           *)
(***************************************************************************)

LEMMA CompactionStep ==
  ASSUME ThreadTypeOK, TurnsAreInOrder, CompactedArePast, PlansAreTold,
         CompactedTurnsAreSummarised, [ThreadNext]_threadVars
  PROVE  TurnsAreInOrder' /\ CompactedArePast' /\ PlansAreTold' /\ CompactedTurnsAreSummarised'
<1>1. ASSUME UNCHANGED <<threadTurns, summary, compactedIds>>,
             \A p \in Compactors : compactions'[p] = compactions[p] \/ compactions'[p] = Unplanned
      PROVE  TurnsAreInOrder' /\ CompactedArePast' /\ PlansAreTold' /\ CompactedTurnsAreSummarised'
  <2>1. TurnsAreInOrder' /\ CompactedTurnsAreSummarised'
    BY <1>1 DEF TurnsAreInOrder, CompactedTurnsAreSummarised
  <2>2. Unplanned.plan = {} /\ Unplanned.messages = {}
    BY DEF Unplanned
  <2>3. CompactedArePast'
    BY <1>1, <2>2 DEF CompactedArePast, Past
  <2>4. PlansAreTold'
    BY <1>1, <2>2 DEF PlansAreTold
  <2> QED
    BY <2>1, <2>3, <2>4
<1>2. CASE UNCHANGED threadVars
  BY <1>1, <1>2 DEF threadVars
<1>3. ASSUME NEW p \in Compactors, DropCompaction(p)
      PROVE  TurnsAreInOrder' /\ CompactedArePast' /\ PlansAreTold' /\ CompactedTurnsAreSummarised'
  <2>1. /\ UNCHANGED <<threadTurns, summary, compactedIds>>
        /\ \A r \in Compactors : compactions'[r] = compactions[r] \/ compactions'[r] = Unplanned
    BY <1>3 DEF DropCompaction, ThreadTypeOK
  <2> QED
    BY <1>1, <2>1
<1> QED
  BY <1>2, <1>3, WorkKeepsCompaction, PlanKeepsCompaction, WriteKeepsCompaction
     DEF ThreadNext, WorkStep

\* Where all ids are kept, or turns are compacted in order, what is summarised is
\* not told word by word.
LEMMA ReadingsAreDisjoint ==
  ASSUME MemoryInv, Len(compactedIds) < KeptTurns \/ OneAfterTheOther
  PROVE  {c.turn : c \in Conversation} \cap {c.turn : c \in summary} = {}
<1>1. ThreadTypeOK /\ SummaryIsKept /\ (OneAfterTheOther => SequenceInv)
  BY DEF MemoryInv
<1>2. ASSUME NEW c \in Conversation, NEW d \in summary, c.turn = d.turn
      PROVE  FALSE
  <2>1. PICK i \in 1..Len(threadTurns) : /\ i \in OpenTurns /\ c.turn = threadTurns[i].id
                                         /\ threadTurns[i].id \notin ToSet(compactedIds)
    BY <1>1, ConversationIsOpen
  <2>2. CASE Len(compactedIds) < KeptTurns
    BY <1>1, <1>2, <2>1, <2>2 DEF SummaryIsKept
  <2>3. CASE OneAfterTheOther
    <3>1. d.turn \in SummaryTurns
      BY DEF SummaryTurns
    <3>2. d.turn < threadTurns[i].id
      BY <1>1, <2>1, <2>3, <3>1 DEF SequenceInv, CompactedInOrder, After
    <3>3. threadTurns[i].id \in Nat
      BY <1>1, TurnsTyped
    <3> QED
      BY <1>2, <2>1, <3>2, <3>3
  <2> QED
    BY <2>2, <2>3
<1> QED
  BY <1>2

LEMMA ToldOnceStep ==
  ASSUME MemoryInv, NoTurnToldTwice, [ThreadNext]_threadVars
  PROVE  NoTurnToldTwice'
<1> DEFINE Once(memory) == {c.turn : c \in memory.conversation} \cap {c.turn : c \in memory.summary} = {}
<1> SUFFICES ASSUME (Len(compactedIds) < KeptTurns \/ OneAfterTheOther)',
                    NEW q \in Requests, NEW memory \in ToSet(requests'[q])
             PROVE  Once(memory)
  BY DEF NoTurnToldTwice
<1>1. /\ ThreadTypeOK /\ requests \in [Requests -> Seq(Memory)]
      /\ Len(compactedIds) < KeptTurns \/ OneAfterTheOther
  BY AloneBefore, SummaryIsKeptStep DEF MemoryInv, ThreadTypeOK
<1>2. \A old \in ToSet(requests[q]) : Once(old)
  BY <1>1 DEF NoTurnToldTwice
<1>3. requests[q] # << >> => requests[q][1] \in ToSet(requests[q]) /\ requests[q][1] \in Memory
  <2>1. requests[q] \in Seq(Memory)
    BY <1>1
  <2>2. requests[q] # << >> => 1 \in 1..Len(requests[q])
    BY <2>1
  <2> QED
    BY <2>1, <2>2, MembersOf
<1>4. ~ \E old : memory = old /\ requests'[q] = << >>
  BY DEF ToSet
<1>5. CASE requests'[q] = requests[q]
  BY <1>2, <1>5
<1>6. ASSUME ReadThread(q)
      PROVE  Once(memory)
  <2> DEFINE read == [conversation |-> Conversation, summary |-> summary, late |-> {}]
  <2>1. requests'[q] = <<read>>
    BY <1>1, <1>6 DEF ReadThread
  <2>2. memory = read
    BY <2>1 DEF ToSet
  <2>3. memory.conversation = Conversation /\ memory.summary = summary
    BY <2>2
  <2> QED
    BY <1>1, <2>3, ReadingsAreDisjoint
<1>7. ASSUME NEW t \in Works, NEW status \in {"completed", "failed", "waiting"}, NEW choice \in BOOLEAN,
             FinishWork(t, status, choice), requests'[q] # requests[q]
      PROVE  Once(memory)
  <2> DEFINE ended == {turn.id : turn \in {u \in ToSet(threadTurns) : u.task = t}}
             told == [requests[q][1] EXCEPT !.late = @ \cup ended]
  <2>1. requests[q] # << >> /\ requests'[q] = <<told>>
    BY <1>7 DEF FinishWork
  <2>2. memory = told
    BY <2>1 DEF ToSet
  <2>3. memory.conversation = requests[q][1].conversation /\ memory.summary = requests[q][1].summary
    BY <1>3, <2>1, <2>2 DEF Memory
  <2> QED
    BY <1>2, <1>3, <2>1, <2>3
<1>8. CASE \E r \in Requests : ReadThread(r) \/ StartTurn(r) \/ RefuseTurn(r)
  BY <1>1, <1>4, <1>5, <1>6, <1>8 DEF ReadThread, StartTurn, RefuseTurn
<1>9. CASE \E p \in Compactors : PlanCompaction(p) \/ WriteSummaryIfCurrent(p) \/ DropCompaction(p)
  BY <1>5, <1>9 DEF PlanCompaction, BeginCompaction, WriteSummaryIfCurrent, WriteSummary, DropCompaction
<1> HIDE DEF Once
<1> QED
  BY <1>5, <1>7, <1>8, <1>9
     DEF ThreadNext, threadVars, RetryTurn, RegenerateTurn, Replace, AnswerTurn, EvictOldest

LEMMA MemoryInit ==
  ASSUME ThreadInit
  PROVE  MemoryInv /\ NoTurnToldTwice
<1>1. /\ threadTurns = << >> /\ compactedIds = << >> /\ summary = {} /\ intrusions = 0
      /\ Len(threadTurns) = 0 /\ Len(compactedIds) = 0 /\ ToSet(compactedIds) = {}
      /\ \A t \in Works : works[t] = NoWork
      /\ \A p \in Compactors : compactions[p] = Unplanned
      /\ \A q \in Requests : requests[q] = << >>
  BY DEF ThreadInit, ToSet
<1>2. NoWork \in Work /\ NoWork.version = 0 /\ NoWork.status = "absent" /\ NoWork.parent = 0
  BY CreatedTyped DEF NoWork
<1>3. Unplanned \in [ active : BOOLEAN, previous : SUBSET Content,
                      plan : SUBSET TurnIds, messages : SUBSET Content ]
      /\ Unplanned.plan = {} /\ Unplanned.messages = {} /\ Unplanned.previous = {}
      /\ Unplanned.active = FALSE
  BY DEF Unplanned
<1>4. ThreadTypeOK
  BY <1>1, <1>2, <1>3, ThreadConstants DEF ThreadInit, ThreadTypeOK
<1>5. VersionsAreCounted /\ LastIsRemembered /\ SummaryIsKept /\ AbsentAreNew
  BY <1>1, <1>2 DEF VersionsAreCounted, LastIsRemembered, SummaryIsKept, AbsentAreNew
<1>6. TurnsAreInOrder /\ CompactedArePast /\ PlansAreTold /\ CompactedTurnsAreSummarised
  BY <1>1, <1>3 DEF TurnsAreInOrder, CompactedArePast, PlansAreTold, CompactedTurnsAreSummarised, ToSet
<1>7. SequenceInv
  <2>1. WorkIsAtTheEnd
    BY <1>1, <1>2 DEF WorkIsAtTheEnd
  <2>2. OpenTurns = {}
    BY <1>1 DEF OpenTurns, CompletedTurns
  <2>3. CompactedInOrder
    BY <1>1, <2>2 DEF CompactedInOrder, Ascending, WereShown
  <2>4. PlansInOrder
    BY <1>1, <1>3, <2>2 DEF PlansInOrder, WereShown
  <2> QED
    BY <2>1, <2>3, <2>4 DEF SequenceInv
<1>8. NoTurnToldTwice
  BY <1>1 DEF NoTurnToldTwice, ToSet
<1> QED
  BY <1>4, <1>5, <1>6, <1>7, <1>8 DEF MemoryInv

LEMMA MemoryStep ==
  ASSUME MemoryInv, [ThreadNext]_threadVars
  PROVE  MemoryInv'
<1>1. /\ ThreadTypeOK /\ VersionsAreCounted /\ TurnsAreInOrder /\ CompactedArePast /\ PlansAreTold
      /\ CompactedTurnsAreSummarised /\ LastIsRemembered /\ SummaryIsKept /\ AbsentAreNew
  BY DEF MemoryInv
<1>2. ThreadTypeOK' /\ VersionsAreCounted'
  BY <1>1, TypesKept
<1>3. TurnsAreInOrder' /\ CompactedArePast' /\ PlansAreTold' /\ CompactedTurnsAreSummarised'
  BY <1>1, CompactionStep
<1>4. LastIsRemembered' /\ SummaryIsKept' /\ AbsentAreNew'
  BY <1>1, LastIsRememberedStep, SummaryIsKeptStep, AloneBefore
<1>5. (OneAfterTheOther => SequenceInv)'
  BY SequenceStep
<1> QED
  BY <1>2, <1>3, <1>4, <1>5 DEF MemoryInv

\* The last element is all of slice(-1).
LEMMA TheTurnBefore ==
  ASSUME ThreadTypeOK, NEW turn \in ToSet(Newest(threadTurns, 1))
  PROVE  threadTurns # << >> /\ turn = threadTurns[Len(threadTurns)]
<1> DEFINE new == Newest(threadTurns, 1)
           d == Dropped(threadTurns, 1)
<1>1. threadTurns \in Seq(Turn) /\ Len(threadTurns) \in Nat
  BY TurnsTyped
<1>2. /\ d \in 0..Len(threadTurns) /\ new \in Seq(Turn) /\ Len(new) = Len(threadTurns) - d
      /\ Len(new) <= 1 /\ \A i \in 1..Len(new) : new[i] = threadTurns[i + d]
  BY <1>1, NewestAre
<1> HIDE DEF new, d
<1>3. PICK i \in 1..Len(new) : new[i] = turn
  BY <1>2, MembersOf DEF new
<1>4. i = 1 /\ i + d = Len(threadTurns) /\ Len(threadTurns) >= 1
  BY <1>1, <1>2
<1> QED
  BY <1>1, <1>2, <1>3, <1>4

-----------------------------------------------------------------------------
(***************************************************************************)
(* Theorems.                                                               *)
(***************************************************************************)

\* The invariant that the theorems rest on.
LEMMA MemoryInvariance ==
  ThreadSpec => [](MemoryInv /\ NoTurnToldTwice)
<1>1. ThreadInit => MemoryInv /\ NoTurnToldTwice
  BY MemoryInit
<1>2. (MemoryInv /\ NoTurnToldTwice) /\ [ThreadNext]_threadVars => (MemoryInv /\ NoTurnToldTwice)'
  BY MemoryStep, ToldOnceStep
<1> QED
  BY <1>1, <1>2, PTL DEF ThreadSpec

\* What a thread keeps, what its requests and compactions have read, and the tasks
\* it asks for have the types of agentThreads and writingTasks, and neither the turns
\* nor the ids of compacted turns exceed their limit, for any number of tasks.
THEOREM ThreadTypeCorrect ==
  ThreadSpec => []ThreadTypeOK
<1>1. MemoryInv /\ NoTurnToldTwice => ThreadTypeOK
  BY DEF MemoryInv
<1> QED
  BY <1>1, MemoryInvariance, PTL

\* Turns that left the conversation for the summary are in it, as answered by the
\* task that answers them now: compactThread may run in any number of processes, and
\* turns may be started, retried, regenerated and answered while the model is asked.
THEOREM CompactedAreSummarised ==
  ThreadSpec => []CompactedTurnsAreSummarised
<1>1. MemoryInv /\ NoTurnToldTwice => CompactedTurnsAreSummarised
  BY DEF MemoryInv
<1> QED
  BY <1>1, MemoryInvariance, PTL

\* What threadConversation and contextSummary put before a new task says no turn
\* twice, while the list of compacted ids is not full or the turns were worked on one
\* after the other, for threads of any length.
THEOREM TurnsAreToldOnce ==
  ThreadSpec => []NoTurnToldTwice
<1>1. MemoryInv /\ NoTurnToldTwice => NoTurnToldTwice
  OBVIOUS
<1> QED
  BY <1>1, MemoryInvariance, PTL

\* A turn that starts was given the turn before it word by word, if that one was
\* completed when startWritingTask read the thread.
THEOREM TheTurnBeforeIsKnown ==
  ThreadSpec => KnowsTheTurnBefore
<1> DEFINE Known == \A q \in Requests :
                      StartTurn(q) =>
                        \A turn \in ToSet(Newest(threadTurns, 1)) :
                            \/ works[turn.task].status # "completed"
                            \/ turn.id \in requests[q][1].late
                            \/ Says(turn) \in requests[q][1].conversation
<1>1. MemoryInv /\ NoTurnToldTwice /\ [ThreadNext]_threadVars => [Known]_threadVars
  <2> SUFFICES ASSUME MemoryInv, NEW q \in Requests, StartTurn(q),
                      NEW turn \in ToSet(Newest(threadTurns, 1))
               PROVE  \/ works[turn.task].status # "completed"
                      \/ turn.id \in requests[q][1].late
                      \/ Says(turn) \in requests[q][1].conversation
    OBVIOUS
  <2>1. threadTurns # << >> /\ turn = threadTurns[Len(threadTurns)]
    BY TheTurnBefore DEF MemoryInv
  <2>2. requests[q] # << >>
    BY DEF StartTurn
  <2> QED
    BY <2>1, <2>2 DEF MemoryInv, LastIsRemembered
<1> QED
  BY <1>1, MemoryInvariance, PTL DEF ThreadSpec, KnowsTheTurnBefore
=============================================================================
