-------------------------- MODULE TaskStream_proofs --------------------------
(***************************************************************************)
(* Proofs about TaskStream, for every set of deployments and every number  *)
(* of runs, words, segments, messages and connections: every variable has  *)
(* its type; what the API has heard of a run is the beginning of what the  *)
(* run has published; and, in a single process, when the stream of a turn  *)
(* has ended its screen shows the record.                                  *)
(***************************************************************************)
EXTENDS TaskStream, FiniteSetTheorems, WellFoundedInduction, TLAPS

-----------------------------------------------------------------------------
(* The invariant: types.                                                   *)

ItemMaps == UNION {[I -> Segments] : I \in SUBSET Ids}
VersionMaps == UNION {[I -> Segments \cup {LiveVersion}] : I \in SUBSET Ids}
Atom == {"start", "delta", "end"} \X Nat \X Nat

Tasks ==
    [ status : {"queued", "running", "completed"}, gen : Runs, attempt : Runs,
      partial : Seq(Tokens), events : ItemMaps, streamed : BOOLEAN ]

RunStates ==
    [ pc : {"waiting", "streaming", "over"}, attempt : 0..MaxRuns, base : Seq(Tokens),
      segs : Seq(Segments), saved : BOOLEAN, found : SUBSET Ids ]

Routes ==
    [ pc : {"closed", "reading", "handling", "done"}, ready : BOOLEAN, attempt : 0..MaxRuns,
      gen : 0..MaxRuns, segmented : BOOLEAN, sent : Nat, started : BOOLEAN,
      versions : VersionMaps, pending : Seq(Events),
      seen : Tasks \cup {NoTask}, last : Tasks \cup {NoTask} ]

\* A connection, with its screen; once the gate is open it has an attempt.
Connections ==
    {c \in [sse : Routes, screen : ItemMaps] : c.sse.ready => c.sse.attempt \in Runs}

StreamTypeOK ==
    /\ deployment \in Deployments
    /\ task \in Tasks /\ task.attempt <= task.gen
    /\ runs \in [Runs -> RunStates]
    /\ \A r \in Runs : runs[r].pc # "waiting" => runs[r].attempt \in Runs
    /\ \A r \in Runs : Len(runs[r].segs) <= MaxSegments
    /\ buffer \in [Runs -> Seq(Events)] /\ outbox \in [Runs -> Seq(Events)]
    /\ channel \in Seq(Seq(Events)) /\ \A i \in DOMAIN channel : channel[i] # << >>
    /\ heard \in [Runs -> Seq(Atom)]
    /\ [sse |-> sse, screen |-> screen] \in Connections
    /\ sse.pc = "handling" => sse.seen \in Tasks

-----------------------------------------------------------------------------
(* The invariant: what is on the way.                                      *)

\* What a message says of run r, and all that is on its way through Redis.
Says(m, r) == IF m[1].run = r THEN AtomsOf(m) ELSE << >>
Flying(messages, r) == FlattenSeq([i \in DOMAIN messages |-> Says(messages[i], r)])

\* What a run publishes of its segment of number i, and of all of them.
Deltas(i, text) == [k \in DOMAIN text |-> <<"delta", i, text[k]>>]
EndOf(i, seg) == IF seg.status = "completed" THEN <<<<"end", i, 0>>>> ELSE <<>>
Said(i, seg) == <<<<"start", i, 0>>>> \o Deltas(i, seg.text) \o EndOf(i, seg)
SaidOf(segs) == FlattenSeq([i \in DOMAIN segs |-> Said(i, segs[i])])

\* Events of one run only.
AllOf(events, r) == \A k \in DOMAIN events : events[k].run = r

\* What was heard of run r, is on its way, and waits for the next message; with what is buffered.
Sent(r) == (heard[r] \o Flying(channel, r)) \o AtomsOf(outbox[r])
OnTheWay(r) == Sent(r) \o AtomsOf(buffer[r])

\* Runs start one after the other, each from nothing.
RunsInTurn ==
    /\ \A r \in Runs : r > task.gen => runs[r] = Unstarted
    /\ task.status = "queued" => runs[task.gen] = Unstarted

\* A process sends the events of its own run.
OwnEvents == \A r \in Runs : AllOf(outbox[r], r) /\ AllOf(buffer[r], r)

\* The bridge is used with REDIS_URL only; what is lost is not counted as heard.
WireInUse ==
    /\ ~Bridged => channel = <<>> /\ \A r \in Runs : outbox[r] = <<>>
    /\ Lossy => \A r \in Runs : heard[r] = <<>>

\* What was published is on the way, in order, but for the end that died with a worker.
Lost(r, rest) == OnTheWay(r) \o rest = SaidOf(runs[r].segs) /\ (runs[r].pc # "over" => rest = <<>>)
NothingLost == ~Lossy => \A r \in Runs : \E rest \in Seq(Atom) : Lost(r, rest)

WireInv == RunsInTurn /\ OwnEvents /\ WireInUse /\ NothingLost

-----------------------------------------------------------------------------
(* Induction, sequences and flattening.                                    *)

LEMMA LeastNumber ==
    ASSUME NEW T, T \subseteq Nat, T # {}
    PROVE  \E m \in T : \A n \in T : m <= n
<1> DEFINE R == {ss \in Nat \X Nat : ss[1] < ss[2]}
<1>1. IsWellFoundedOn(R, Nat)
  BY NatLessThanWellFounded DEF OpToRel
<1>2. \A x, y \in Nat : y < x => <<y, x>> \in R
  OBVIOUS
<1> HIDE DEF R
<1>3. \E x \in T : \A y \in T : ~ (<<y, x>> \in R)
  BY <1>1, WFMin
<1>4. PICK x \in T : \A y \in T : ~ (<<y, x>> \in R)
  BY <1>3
<1>5. x \in Nat /\ \A y \in T : y \in Nat /\ ~ (y < x)
  BY <1>2, <1>4
<1>6. \A y \in T : x <= y
  <2> SUFFICES ASSUME NEW y \in T PROVE x <= y
    OBVIOUS
  <2>1. x \in Nat /\ y \in Nat /\ ~ (y < x)
    BY <1>5
  <2> QED
    BY <2>1
<1> QED
  BY <1>6

LEMMA SetInduction ==
  ASSUME NEW S, 0 \in S, \A n \in Nat : n \in S => n + 1 \in S
  PROVE  Nat \subseteq S
<1> SUFFICES ASSUME NEW k \in Nat, k \notin S PROVE FALSE
  OBVIOUS
<1> DEFINE T == {n \in Nat : n \notin S}
<1>1. PICK m \in T : \A n \in T : m <= n
  <2>1. T \subseteq Nat /\ T # {}
    OBVIOUS
  <2> HIDE DEF T
  <2> QED
    BY <2>1, LeastNumber
<1>2. m # 0 /\ m - 1 \in Nat /\ m - 1 \in S
  BY <1>1
<1> QED
  BY <1>1, <1>2

LEMMA Concat ==
    ASSUME NEW S, NEW s \in Seq(S), NEW t \in Seq(S)
    PROVE  /\ s \o t \in Seq(S) /\ Len(s \o t) = Len(s) + Len(t)
           /\ \A i \in 1 .. Len(s) : (s \o t)[i] = s[i]
           /\ \A i \in 1 .. Len(t) : (s \o t)[Len(s) + i] = t[i]
  OBVIOUS

LEMMA SameSeq ==
    ASSUME NEW S, NEW s \in Seq(S), NEW t \in Seq(S), Len(s) = Len(t),
           \A i \in 1 .. Len(s) : s[i] = t[i]
    PROVE  s = t
  OBVIOUS

LEMMA ConcatAssoc ==
    ASSUME NEW S, NEW s \in Seq(S), NEW t \in Seq(S), NEW u \in Seq(S)
    PROVE  (s \o t) \o u = s \o (t \o u)
  OBVIOUS

LEMMA ConcatEmpty ==
    ASSUME NEW S, NEW s \in Seq(S)
    PROVE  s \o << >> = s /\ << >> \o s = s
  OBVIOUS

\* f gathers the first n of the sequences, one after the other.
Gathers(f, seqs, n) ==
    /\ DOMAIN f = 1..n
    /\ n >= 1 => f[1] = seqs[1]
    /\ \A i \in 1..n : i > 1 => f[i] = f[i - 1] \o seqs[i]

LEMMA GatheredType ==
    ASSUME NEW S, NEW seqs \in Seq(Seq(S)), NEW n \in Nat, n <= Len(seqs),
           NEW f, Gathers(f, seqs, n)
    PROVE  \A i \in 1..n : f[i] \in Seq(S)
<1> DEFINE G == {k \in Nat : k \in 1..n => f[k] \in Seq(S)}
<1>1. 0 \in G
  OBVIOUS
<1>2. ASSUME NEW k \in Nat, k \in G PROVE k + 1 \in G
  <2> SUFFICES ASSUME k + 1 \in 1..n PROVE f[k + 1] \in Seq(S)
    OBVIOUS
  <2>1. seqs[k + 1] \in Seq(S) /\ n >= 1
    OBVIOUS
  <2>2. CASE k = 0
    BY <2>1, <2>2 DEF Gathers
  <2>3. CASE k # 0
    <3>1. k + 1 > 1 /\ k \in 1..n /\ (k + 1) - 1 = k
      BY <2>3
    <3>2. f[k] \in Seq(S)
      BY <1>2, <3>1
    <3>3. f[k + 1] = f[k] \o seqs[k + 1]
      BY <3>1 DEF Gathers
    <3> QED
      BY <2>1, <3>2, <3>3, Concat
  <2> QED
    BY <2>2, <2>3
<1> HIDE DEF G
<1>3. Nat \subseteq G
  BY <1>1, <1>2, SetInduction
<1> QED
  BY <1>3 DEF G

\* Two sequences, or functions, agree on their first n elements.
Agree(f, g, n) == \A i \in 1..n : f[i] = g[i]

LEMMA GatheredOnce ==
    ASSUME NEW seqs, NEW more, NEW n \in Nat, NEW m \in Nat, n <= m,
           Agree(more, seqs, n), NEW f, Gathers(f, seqs, n), NEW g, Gathers(g, more, m)
    PROVE  Agree(g, f, n)
<1> USE DEF Agree
<1> DEFINE G == {k \in Nat : k \in 1..n => g[k] = f[k]}
<1>1. 0 \in G
  OBVIOUS
<1>2. ASSUME NEW k \in Nat, k \in G PROVE k + 1 \in G
  <2> SUFFICES ASSUME k + 1 \in 1..n PROVE g[k + 1] = f[k + 1]
    OBVIOUS
  <2>1. more[k + 1] = seqs[k + 1] /\ n >= 1 /\ m >= 1 /\ k + 1 \in 1..m
    OBVIOUS
  <2>2. CASE k = 0
    BY <2>1, <2>2 DEF Gathers
  <2>3. CASE k # 0
    <3>1. k + 1 > 1 /\ k \in 1..n /\ (k + 1) - 1 = k
      BY <2>3
    <3>2. g[k] = f[k]
      BY <1>2, <3>1
    <3>3. f[k + 1] = f[k] \o seqs[k + 1] /\ g[k + 1] = g[k] \o more[k + 1]
      BY <2>1, <3>1 DEF Gathers
    <3> QED
      BY <2>1, <3>2, <3>3
  <2> QED
    BY <2>2, <2>3
<1> HIDE DEF G
<1>3. Nat \subseteq G
  BY <1>1, <1>2, SetInduction
<1> QED
  BY <1>3 DEF G

LEMMA SomethingGathers ==
    ASSUME NEW seqs
    PROVE  \A n \in Nat : \E f : Gathers(f, seqs, n)
<1> DEFINE G == {n \in Nat : \E f : Gathers(f, seqs, n)}
<1>1. 0 \in G
  <2>1. Gathers(<< >>, seqs, 0)
    BY DEF Gathers
  <2> QED
    BY <2>1
<1>2. ASSUME NEW n \in Nat, n \in G PROVE n + 1 \in G
  <2>1. PICK f : Gathers(f, seqs, n)
    BY <1>2
  <2> DEFINE next == IF n = 0 THEN seqs[1] ELSE f[n] \o seqs[n + 1]
             g == [i \in 1..(n + 1) |-> IF i = n + 1 THEN next ELSE f[i]]
  <2> HIDE DEF next
  <2>2. DOMAIN g = 1..(n + 1) /\ g[n + 1] = next /\ \A i \in 1..n : g[i] = f[i]
    OBVIOUS
  <2> HIDE DEF g
  <2>3. g[1] = seqs[1]
    <3>1. CASE n = 0
      BY <2>2, <3>1 DEF next
    <3>2. CASE n # 0
      <4>1. n >= 1 /\ 1 \in 1..n
        BY <3>2
      <4> QED
        BY <2>1, <2>2, <4>1 DEF Gathers
    <3> QED
      BY <3>1, <3>2
  <2>4. ASSUME NEW i \in 1..(n + 1), i > 1 PROVE g[i] = g[i - 1] \o seqs[i]
    <3>1. i - 1 \in 1..n
      BY <2>4
    <3>2. CASE i = n + 1
      <4>1. n # 0 /\ i - 1 = n
        BY <2>4, <3>2
      <4> QED
        BY <2>2, <3>1, <3>2, <4>1 DEF next
    <3>3. CASE i # n + 1
      <4>1. i \in 1..n
        BY <3>3
      <4>2. f[i] = f[i - 1] \o seqs[i]
        BY <2>1, <2>4, <4>1 DEF Gathers
      <4> QED
        BY <2>2, <3>1, <4>1, <4>2
    <3> QED
      BY <3>2, <3>3
  <2>5. Gathers(g, seqs, n + 1)
    BY <2>2, <2>3, <2>4 DEF Gathers
  <2> QED
    BY <2>5
<1> HIDE DEF G
<1>3. Nat \subseteq G
  BY <1>1, <1>2, SetInduction
<1> QED
  BY <1>3 DEF G

LEMMA FlattenGathers ==
    ASSUME NEW seqs, Len(seqs) \in Nat, Len(seqs) # 0
    PROVE  \E f : Gathers(f, seqs, Len(seqs)) /\ FlattenSeq(seqs) = f[Len(seqs)]
<1> DEFINE Def(f) == f = [i \in 1..Len(seqs) |-> IF i = 1 THEN seqs[i] ELSE f[i-1] \o seqs[i]]
           flatten == CHOOSE f : Def(f)
           n == Len(seqs)
<1>1. PICK f : Gathers(f, seqs, n)
  BY SomethingGathers
<1>2. \E h : Def(h)
  <2> DEFINE h == [i \in 1..n |-> f[i]]
  <2>1. \A i \in 1..n : h[i] = f[i]
    OBVIOUS
  <2>2. \A i \in 1..n : h[i] = IF i = 1 THEN seqs[i] ELSE h[i-1] \o seqs[i]
    <3> SUFFICES ASSUME NEW i \in 1..n PROVE h[i] = IF i = 1 THEN seqs[i] ELSE h[i-1] \o seqs[i]
      OBVIOUS
    <3>1. CASE i = 1
      BY <1>1, <2>1, <3>1 DEF Gathers
    <3>2. CASE i # 1
      <4>1. i > 1 /\ i - 1 \in 1..n
        BY <3>2
      <4>2. f[i] = f[i - 1] \o seqs[i]
        BY <1>1, <4>1 DEF Gathers
      <4> QED
        BY <2>1, <3>2, <4>1, <4>2
    <3> QED
      BY <3>1, <3>2
  <2>3. Def(h)
    BY <2>2
  <2> QED
    BY <2>3
<1>3. Def(flatten)
  BY <1>2
<1>4. FlattenSeq(seqs) = flatten[Len(seqs)]
  BY DEF FlattenSeq
<1> HIDE DEF flatten
<1>5. Gathers(flatten, seqs, n)
  <2>1. DOMAIN flatten = 1..n
    BY <1>3
  <2>2. \A i \in 1..n : flatten[i] = IF i = 1 THEN seqs[i] ELSE flatten[i-1] \o seqs[i]
    BY <1>3
  <2>3. n >= 1 => 1 \in 1..n
    OBVIOUS
  <2>6. n \in Nat
    OBVIOUS
  <2> HIDE DEF n
  <2>4. n >= 1 => flatten[1] = seqs[1]
    BY <2>2, <2>3
  <2>5. ASSUME NEW i \in 1..n, i > 1 PROVE flatten[i] = flatten[i-1] \o seqs[i]
    <3>1. i # 1
      BY <2>5, <2>6
    <3> QED
      BY <2>2, <3>1
  <2> QED
    BY <2>1, <2>4, <2>5 DEF Gathers
<1> QED
  BY <1>4, <1>5

LEMMA FlattenEmpty == FlattenSeq(<< >>) = << >>
  BY DEF FlattenSeq

LEMMA FlattenType ==
    ASSUME NEW S, NEW seqs \in Seq(Seq(S))
    PROVE  FlattenSeq(seqs) \in Seq(S)
<1>1. Len(seqs) \in Nat
  OBVIOUS
<1>2. CASE Len(seqs) = 0
  <2>1. seqs = << >> /\ << >> \in Seq(S)
    BY <1>2
  <2> QED
    BY <2>1, FlattenEmpty
<1>3. CASE Len(seqs) # 0
  <2>1. PICK f : Gathers(f, seqs, Len(seqs)) /\ FlattenSeq(seqs) = f[Len(seqs)]
    BY <1>1, <1>3, FlattenGathers
  <2>2. Len(seqs) \in 1..Len(seqs) /\ Len(seqs) <= Len(seqs)
    BY <1>1, <1>3
  <2> QED
    BY <1>1, <2>1, <2>2, GatheredType
<1> QED
  BY <1>2, <1>3

LEMMA AppendIs ==
    ASSUME NEW S, NEW s \in Seq(S), NEW e \in S
    PROVE  /\ Len(s) \in Nat /\ Append(s, e) \in Seq(S) /\ Len(Append(s, e)) = Len(s) + 1
           /\ Append(s, e)[Len(s) + 1] = e /\ \A i \in 1..Len(s) : Append(s, e)[i] = s[i]
  OBVIOUS

LEMMA FlattenOneMore ==
    ASSUME NEW seqs, NEW all, NEW n \in Nat, NEW m \in Nat, n # 0, m = n + 1,
           Len(seqs) = n, Len(all) = m, Agree(all, seqs, n)
    PROVE  FlattenSeq(all) = FlattenSeq(seqs) \o all[m]
<1>1. PICK g : Gathers(g, all, m) /\ FlattenSeq(all) = g[m]
  BY FlattenGathers
<1>2. PICK f : Gathers(f, seqs, n) /\ FlattenSeq(seqs) = f[n]
  BY FlattenGathers
<1>3. n <= m
  OBVIOUS
<1>4. Agree(g, f, n)
  BY <1>1, <1>2, <1>3, GatheredOnce
<1>5. n \in 1..n /\ m \in 1..m /\ m > 1 /\ m - 1 = n
  OBVIOUS
<1>6. g[m] = g[n] \o all[m]
  BY <1>1, <1>5 DEF Gathers
<1> QED
  BY <1>1, <1>2, <1>4, <1>5, <1>6 DEF Agree

LEMMA FlattenAppend ==
    ASSUME NEW S, NEW seqs \in Seq(Seq(S)), NEW s \in Seq(S)
    PROVE  FlattenSeq(Append(seqs, s)) = FlattenSeq(seqs) \o s
<1> DEFINE T == Seq(S)
<1>1. seqs \in Seq(T) /\ s \in T
  OBVIOUS
<1> HIDE DEF T
<1>2. PICK all : all = Append(seqs, s)
  OBVIOUS
<1>3. /\ Len(seqs) \in Nat /\ Len(all) = Len(seqs) + 1 /\ Len(all) \in Nat
      /\ all[Len(seqs) + 1] = s /\ \A i \in 1..Len(seqs) : all[i] = seqs[i]
  BY <1>1, <1>2, AppendIs
<1>4. CASE Len(seqs) = 0
  <2>1. seqs = << >> /\ Len(all) = 1 /\ Len(all) # 0 /\ all[1] = s
    BY <1>1, <1>3, <1>4
  <2>2. PICK g : Gathers(g, all, Len(all)) /\ FlattenSeq(all) = g[Len(all)]
    BY <1>3, <2>1, FlattenGathers
  <2>3. FlattenSeq(all) = s
    BY <2>1, <2>2 DEF Gathers
  <2> QED
    BY <1>2, <2>1, <2>3, FlattenEmpty, ConcatEmpty
<1>5. CASE Len(seqs) # 0
  <2>1. Agree(all, seqs, Len(seqs))
    BY <1>3 DEF Agree
  <2>2. ASSUME NEW n \in Nat, n = Len(seqs), NEW m \in Nat, m = Len(all)
        PROVE  FlattenSeq(all) = FlattenSeq(seqs) \o all[m]
    <3>1. Agree(all, seqs, n) /\ n # 0 /\ m = n + 1
      BY <1>3, <1>5, <2>1, <2>2
    <3> QED
      BY <2>2, <3>1, FlattenOneMore
  <2> QED
    BY <1>2, <1>3, <2>2
<1> QED
  BY <1>4, <1>5

LEMMA FrontAndLast ==
    ASSUME NEW S, NEW s \in Seq(S), s # << >>
    PROVE  \E front \in Seq(S) : \E last \in S :
              /\ s = Append(front, last) /\ Len(front) = Len(s) - 1 /\ last = s[Len(s)]
              /\ \A i \in 1..Len(front) : front[i] = s[i]
<1> DEFINE n == Len(s) - 1
           front == [i \in 1..n |-> s[i]]
<1>1. n \in Nat /\ Len(s) = n + 1
  OBVIOUS
<1>2. front \in Seq(S) /\ Len(front) = n
  BY <1>1
<1>3. \A i \in 1..n : front[i] = s[i]
  OBVIOUS
<1>4. s[n + 1] \in S
  BY <1>1
<1> HIDE DEF front
<1> DEFINE e == s[n + 1]
<1> HIDE DEF e, n
<1>5. /\ Append(front, e) \in Seq(S) /\ Len(Append(front, e)) = n + 1
      /\ Append(front, e)[n + 1] = e /\ \A i \in 1..n : Append(front, e)[i] = front[i]
  BY <1>2, <1>4, AppendIs DEF e
<1>6. \A i \in 1..(n + 1) : Append(front, s[n + 1])[i] = s[i]
  BY <1>1, <1>3, <1>5 DEF e
<1>7. Append(front, s[n + 1]) = s
  BY <1>1, <1>5, <1>6, SameSeq DEF e
<1>8. Len(front) = Len(s) - 1 /\ s[n + 1] = s[Len(s)]
  BY <1>1, <1>2 DEF n
<1> QED
  BY <1>2, <1>3, <1>4, <1>7, <1>8

LEMMA FlattenConcat ==
    ASSUME NEW S, NEW seqs \in Seq(Seq(S)), NEW more \in Seq(Seq(S))
    PROVE  FlattenSeq(seqs \o more) = FlattenSeq(seqs) \o FlattenSeq(more)
<1> DEFINE Good(t) == FlattenSeq(seqs \o t) = FlattenSeq(seqs) \o FlattenSeq(t)
           G == {n \in Nat : \A t \in Seq(Seq(S)) : Len(t) = n => Good(t)}
<1>1. 0 \in G
  <2> SUFFICES ASSUME NEW t \in Seq(Seq(S)), Len(t) = 0 PROVE Good(t)
    OBVIOUS
  <2>1. t = << >> /\ seqs \o t = seqs
    OBVIOUS
  <2>2. FlattenSeq(seqs) \in Seq(S)
    BY FlattenType
  <2> QED
    BY <2>1, <2>2, FlattenEmpty, ConcatEmpty
<1>2. ASSUME NEW n \in Nat, n \in G PROVE n + 1 \in G
  <2> SUFFICES ASSUME NEW t \in Seq(Seq(S)), Len(t) = n + 1 PROVE Good(t)
    OBVIOUS
  <2>1. t # << >> /\ Len(t) - 1 = n
    OBVIOUS
  <2>2. PICK front \in Seq(Seq(S)), last \in Seq(S) : t = Append(front, last) /\ Len(front) = n
    BY <2>1, FrontAndLast
  <2>3. Good(front)
    BY <1>2, <2>2
  <2>4. seqs \o t = Append(seqs \o front, last) /\ seqs \o front \in Seq(Seq(S))
    BY <2>2
  <2>5. FlattenSeq(seqs \o t) = FlattenSeq(seqs \o front) \o last
    BY <2>2, <2>4, FlattenAppend
  <2>6. FlattenSeq(t) = FlattenSeq(front) \o last
    BY <2>2, FlattenAppend
  <2>7. FlattenSeq(seqs) \in Seq(S) /\ FlattenSeq(front) \in Seq(S)
    BY <2>2, FlattenType
  <2> QED
    BY <2>2, <2>3, <2>5, <2>6, <2>7, ConcatAssoc
<1> HIDE DEF G
<1>3. Len(more) \in G
  <2>1. Len(more) \in Nat
    OBVIOUS
  <2> QED
    BY <1>1, <1>2, <2>1, SetInduction
<1> QED
  BY <1>3 DEF G

-----------------------------------------------------------------------------
(* What ListenAll shows.                                                   *)

LEMMA MaxOfOneMore ==
    ASSUME NEW k \in Nat, NEW s \in SUBSET (1..(k + 1)), k + 1 \in s
    PROVE  Max(s) = k + 1
<1>1. \A y \in s : k + 1 >= y
  OBVIOUS
<1>2. \A x \in s : (\A y \in s : x >= y) => x = k + 1
  OBVIOUS
<1> QED
  BY <1>1, <1>2 DEF Max

\* What folding Listen over the events whose places are in a set gives, for every set.
Folds(g, gate, c, events, n) ==
    /\ DOMAIN g = SUBSET (1..n)
    /\ \A s \in SUBSET (1..n) :
          g[s] = IF s = {} THEN c ELSE Listen(gate, g[s \ {Max(s)}], events[Max(s)])

LEMMA SomethingFolds ==
    ASSUME NEW gate, NEW c, NEW events
    PROVE  \A n \in Nat : \E g : Folds(g, gate, c, events, n)
<1> DEFINE G == {n \in Nat : \E g : Folds(g, gate, c, events, n)}
<1>1. 0 \in G
  <2> DEFINE g == [s \in SUBSET (1..0) |-> c]
  <2>1. \A s \in SUBSET (1..0) : s = {} /\ g[s] = c
    OBVIOUS
  <2>2. DOMAIN g = SUBSET (1..0)
    OBVIOUS
  <2> HIDE DEF g
  <2>3. Folds(g, gate, c, events, 0)
    BY <2>1, <2>2 DEF Folds
  <2> QED
    BY <2>3
<1>2. ASSUME NEW k \in Nat, k \in G PROVE k + 1 \in G
  <2>1. PICK f : Folds(f, gate, c, events, k)
    BY <1>2
  <2> DEFINE g == [s \in SUBSET (1..(k + 1)) |->
                      IF k + 1 \in s THEN Listen(gate, f[s \ {k + 1}], events[k + 1]) ELSE f[s]]
  <2>2. DOMAIN g = SUBSET (1..(k + 1))
    OBVIOUS
  <2>3. ASSUME NEW s \in SUBSET (1..(k + 1))
        PROVE  g[s] = IF s = {} THEN c ELSE Listen(gate, g[s \ {Max(s)}], events[Max(s)])
    <3>1. CASE k + 1 \in s
      <4>1. Max(s) = k + 1
        BY <3>1, MaxOfOneMore
      <4> DEFINE t == s \ {k + 1}
      <4>2. t \in SUBSET (1..(k + 1)) /\ k + 1 \notin t /\ s # {}
        BY <3>1
      <4> HIDE DEF t
      <4>3. g[t] = f[t]
        BY <4>2
      <4>4. g[s] = Listen(gate, f[t], events[k + 1])
        BY <3>1 DEF t
      <4> HIDE DEF g
      <4> QED
        BY <4>1, <4>2, <4>3, <4>4 DEF t
    <3>2. CASE k + 1 \notin s
      <4> DEFINE t == s \ {Max(s)}
      <4>1. s \in SUBSET (1..k)
        <5> SUFFICES ASSUME NEW i \in s PROVE i \in 1..k
          OBVIOUS
        <5>1. i \in 1..(k + 1) /\ i # k + 1
          BY <3>2
        <5> QED
          BY <5>1
      <4>2. t \in SUBSET (1..k) /\ k + 1 \notin t /\ t \in SUBSET (1..(k + 1))
        BY <3>2, <4>1
      <4>3. g[s] = f[s] /\ g[t] = f[t]
        <5> HIDE DEF t
        <5> QED
          BY <3>2, <4>2
      <4>4. f[s] = IF s = {} THEN c ELSE Listen(gate, f[t], events[Max(s)])
        BY <2>1, <4>1 DEF Folds
      <4> HIDE DEF g
      <4> QED
        BY <4>3, <4>4
    <3> QED
      BY <3>1, <3>2
  <2> HIDE DEF g
  <2>4. Folds(g, gate, c, events, k + 1)
    BY <2>2, <2>3 DEF Folds
  <2> QED
    BY <2>4
<1> HIDE DEF G
<1>3. Nat \subseteq G
  BY <1>1, <1>2, SetInduction
<1> QED
  BY <1>3 DEF G

\* h shows what Listen makes of c, event by event.
ListensTo(h, gate, c, events, n) ==
    /\ h[0] = c
    /\ \A i \in Nat : i + 1 \in 1..n => h[i + 1] = Listen(gate, h[i], events[i + 1])

LEMMA FoldOfListen ==
    ASSUME NEW gate, NEW c, NEW events, NEW n \in Nat, DOMAIN events = 1..n
    PROVE  \E h : ListensTo(h, gate, c, events, n) /\ ListenAll(gate, c, events) = h[n]
<1> DEFINE Def(g) == g = [s \in SUBSET DOMAIN events |->
                             IF s = {} THEN c
                             ELSE LET x == Max(s) IN Listen(gate, g[s \ {x}], events[x])]
           iter == CHOOSE g : Def(g)
<1>1. ListenAll(gate, c, events) = iter[DOMAIN events]
  BY DEF ListenAll, FoldLeft, MapThenFoldSet
<1>2. \E g : Def(g)
  <2>1. PICK f : Folds(f, gate, c, events, n)
    BY SomethingFolds
  <2> DEFINE g == [s \in SUBSET DOMAIN events |-> f[s]]
  <2>2. \A s \in SUBSET DOMAIN events : g[s] = f[s]
    OBVIOUS
  <2>3. ASSUME NEW s \in SUBSET DOMAIN events
        PROVE  g[s] = IF s = {} THEN c ELSE LET x == Max(s) IN Listen(gate, g[s \ {x}], events[x])
    <3>1. s \in SUBSET (1..n) /\ s \ {Max(s)} \in SUBSET DOMAIN events
      OBVIOUS
    <3> HIDE DEF g
    <3>2. f[s] = IF s = {} THEN c ELSE Listen(gate, f[s \ {Max(s)}], events[Max(s)])
      BY <2>1, <3>1 DEF Folds
    <3>3. g[s \ {Max(s)}] = f[s \ {Max(s)}] /\ g[s] = f[s]
      BY <2>2, <3>1
    <3> QED
      BY <3>2, <3>3
  <2>4. Def(g)
    BY <2>3
  <2> QED
    BY <2>4
<1>3. Def(iter)
  BY <1>2
<1> HIDE DEF iter
<1> DEFINE h == [i \in 0..n |-> iter[1..i]]
<1>4. h[0] = c
  <2>1. 1..0 = {} /\ {} \in SUBSET DOMAIN events /\ 0 \in 0..n
    OBVIOUS
  <2>2. h[0] = iter[{}]
    BY <2>1
  <2> QED
    BY <1>3, <2>1, <2>2
<1>5. ASSUME NEW i \in Nat, i + 1 \in 1..n PROVE h[i + 1] = Listen(gate, h[i], events[i + 1])
  <2>1. /\ 1..(i + 1) \in SUBSET DOMAIN events /\ 1..(i + 1) # {}
        /\ (1..(i + 1)) \ {i + 1} = 1..i /\ i \in 0..n /\ i + 1 \in 0..n /\ i + 1 \in 1..(i + 1)
    BY <1>5
  <2>2. Max(1..(i + 1)) = i + 1
    BY <2>1, MaxOfOneMore
  <2>3. iter[1..(i + 1)] = Listen(gate, iter[(1..(i + 1)) \ {Max(1..(i + 1))}], events[Max(1..(i + 1))])
    BY <1>3, <2>1
  <2>4. h[i] = iter[1..i] /\ h[i + 1] = iter[1..(i + 1)]
    BY <2>1
  <2> HIDE DEF h
  <2> QED
    BY <2>1, <2>2, <2>3, <2>4
<1>6. ListensTo(h, gate, c, events, n)
  <2> HIDE DEF h
  <2> QED
    BY <1>4, <1>5 DEF ListensTo
<1>7. h[n] = iter[DOMAIN events]
  OBVIOUS
<1> QED
  BY <1>1, <1>6, <1>7

-----------------------------------------------------------------------------
(* Items and types.                                                        *)

LEMMA Bounds ==
    ASSUME deployment \in Deployments
    PROVE  /\ MaxRuns \in Nat \ {0} /\ MaxTokens \in Nat /\ MaxSegments \in Nat
           /\ Bridged \in BOOLEAN /\ Lossy \in BOOLEAN /\ (Lossy => Bridged)
           /\ 1 \in Runs /\ Runs \subseteq 0..MaxRuns /\ 0 \in Tokens
<1>1. deployment \in Deployment /\ (deployment.lossy => deployment.bridged)
  BY TaskStreamAssumption
<1>2. /\ deployment.maxRuns \in Nat \ {0} /\ deployment.maxTokens \in Nat
      /\ deployment.maxSegments \in Nat /\ deployment.bridged \in BOOLEAN
      /\ deployment.lossy \in BOOLEAN
  BY <1>1 DEF Deployment
<1> QED
  BY <1>1, <1>2 DEF MaxRuns, MaxTokens, MaxSegments, Bridged, Lossy, Runs, Tokens

LEMMA SameBounds ==
    ASSUME deployment' = deployment
    PROVE  /\ Runs' = Runs /\ Tokens' = Tokens /\ MaxRuns' = MaxRuns /\ MaxTokens' = MaxTokens
           /\ MaxSegments' = MaxSegments /\ Segments' = Segments /\ Events' = Events
           /\ Ids' = Ids /\ ItemMaps' = ItemMaps /\ Tasks' = Tasks /\ RunStates' = RunStates
           /\ VersionMaps' = VersionMaps /\ Routes' = Routes /\ Connections' = Connections
           /\ Bridged' = Bridged /\ Lossy' = Lossy
<1>1. /\ Runs' = Runs /\ Tokens' = Tokens /\ MaxRuns' = MaxRuns /\ MaxTokens' = MaxTokens
      /\ MaxSegments' = MaxSegments /\ Bridged' = Bridged /\ Lossy' = Lossy
  BY DEF Runs, Tokens, MaxRuns, MaxTokens, MaxSegments, Bridged, Lossy
<1>2. Segments' = Segments /\ Ids' = Ids
  BY <1>1 DEF Segments, Ids
<1>3. Events' = Events
  BY <1>1 DEF Events
<1>4. ItemMaps' = ItemMaps /\ VersionMaps' = VersionMaps
  BY <1>2 DEF ItemMaps, VersionMaps, LiveVersion
<1>5. Tasks' = Tasks /\ RunStates' = RunStates
  BY <1>1, <1>2, <1>4 DEF Tasks, RunStates
<1>6. Routes' = Routes
  BY <1>1, <1>3, <1>4, <1>5 DEF Routes, NoTask
<1>7. Connections' = Connections
  BY <1>1, <1>4, <1>6 DEF Connections
<1> QED
  BY <1>1, <1>2, <1>3, <1>4, <1>5, <1>6, <1>7

LEMMA ItemMapIs ==
    ASSUME NEW items
    PROVE  items \in ItemMaps <=>
           /\ items = [id \in DOMAIN items |-> items[id]] /\ DOMAIN items \subseteq Ids
           /\ \A id \in DOMAIN items : items[id] \in Segments
  BY DEF ItemMaps

LEMMA VersionMapIs ==
    ASSUME NEW items
    PROVE  items \in VersionMaps <=>
           /\ items = [id \in DOMAIN items |-> items[id]] /\ DOMAIN items \subseteq Ids
           /\ \A id \in DOMAIN items : items[id] \in Segments \cup {LiveVersion}
  BY DEF VersionMaps

LEMMA PutType ==
    ASSUME NEW items \in ItemMaps, NEW id \in Ids, NEW item \in Segments
    PROVE  Put(items, id, item) \in ItemMaps
<1>1. DOMAIN items \subseteq Ids /\ \A x \in DOMAIN items : items[x] \in Segments
  BY ItemMapIs
<1> DEFINE put == [x \in DOMAIN items \cup {id} |-> IF x = id THEN item ELSE items[x]]
<1>2. DOMAIN put \subseteq Ids /\ put = [x \in DOMAIN put |-> put[x]]
  BY <1>1
<1>3. \A x \in DOMAIN put : put[x] \in Segments
  BY <1>1
<1>4. put = Put(items, id, item)
  BY DEF Put
<1> HIDE DEF put
<1> QED
  BY <1>2, <1>3, <1>4, ItemMapIs

LEMMA VersionPutType ==
    ASSUME NEW items \in VersionMaps, NEW id \in Ids, NEW item \in Segments \cup {LiveVersion}
    PROVE  Put(items, id, item) \in VersionMaps
<1>1. DOMAIN items \subseteq Ids /\ \A x \in DOMAIN items : items[x] \in Segments \cup {LiveVersion}
  BY VersionMapIs
<1> DEFINE put == [x \in DOMAIN items \cup {id} |-> IF x = id THEN item ELSE items[x]]
<1>2. DOMAIN put \subseteq Ids /\ put = [x \in DOMAIN put |-> put[x]]
  BY <1>1
<1>3. \A x \in DOMAIN put : put[x] \in Segments \cup {LiveVersion}
  BY <1>1
<1>4. put = Put(items, id, item)
  BY DEF Put
<1> HIDE DEF put
<1> QED
  BY <1>2, <1>3, <1>4, VersionMapIs

LEMMA ShowItemType ==
    ASSUME NEW items \in ItemMaps, NEW id \in Ids, NEW item \in Segments
    PROVE  ShowItem(items, id, item) \in ItemMaps
  BY PutType DEF ShowItem

LEMMA ShowDeltaType ==
    ASSUME NEW items \in ItemMaps, NEW id \in Ids, NEW text \in Seq(Tokens)
    PROVE  ShowDelta(items, id, text) \in ItemMaps
<1>1. CASE id \in DOMAIN items
  <2>1. items[id] \in Segments /\ DOMAIN items \subseteq Ids
    BY <1>1, ItemMapIs
  <2>2. items[id].text \in Seq(Tokens)
    BY <2>1 DEF Segments
  <2>3. items[id].text \o text \in Seq(Tokens)
    BY <2>2, Concat
  <2> DEFINE item == [items[id] EXCEPT !.text = @ \o text]
             shown == [items EXCEPT ![id] = item]
  <2>4. item \in Segments
    BY <2>1, <2>3 DEF Segments
  <2>5. ShowDelta(items, id, text) = shown
    BY <1>1 DEF ShowDelta
  <2> HIDE DEF item
  <2>6. DOMAIN shown \subseteq Ids /\ shown = [x \in DOMAIN shown |-> shown[x]]
    BY <2>1
  <2>7. \A x \in DOMAIN shown : shown[x] \in Segments
    BY <1>1, <2>4, ItemMapIs
  <2> HIDE DEF shown
  <2> QED
    BY <2>5, <2>6, <2>7, ItemMapIs
<1>2. CASE id \notin DOMAIN items
  <2>1. [text |-> text, status |-> "inProgress"] \in Segments
    BY DEF Segments
  <2> QED
    BY <1>2, <2>1, PutType DEF ShowDelta
<1> QED
  BY <1>1, <1>2

LEMMA ReconcileType ==
    ASSUME NEW items \in ItemMaps, NEW stored \in ItemMaps
    PROVE  Reconcile(items, stored) \in ItemMaps
<1>1. /\ DOMAIN items \subseteq Ids /\ \A x \in DOMAIN items : items[x] \in Segments
      /\ DOMAIN stored \subseteq Ids /\ \A x \in DOMAIN stored : stored[x] \in Segments
  BY ItemMapIs
<1>2. CASE DOMAIN stored = {}
  BY <1>2 DEF Reconcile
<1>3. CASE DOMAIN stored # {}
  <2> DEFINE kept == {id \in DOMAIN items \ DOMAIN stored : items[id].status = "inProgress"}
             all == [id \in DOMAIN stored \cup kept |->
                        IF id \in kept THEN items[id]
                        ELSE IF id \in DOMAIN items /\ Len(items[id].text) > Len(stored[id].text)
                             THEN [stored[id] EXCEPT !.text = items[id].text]
                             ELSE stored[id]]
  <2>1. Reconcile(items, stored) = all
    BY <1>3 DEF Reconcile
  <2>2. DOMAIN all \subseteq Ids /\ all = [x \in DOMAIN all |-> all[x]]
    BY <1>1
  <2>3. ASSUME NEW id \in DOMAIN all PROVE all[id] \in Segments
    <3>1. CASE id \in kept
      BY <1>1, <3>1
    <3>2. CASE id \notin kept
      <4>1. id \in DOMAIN stored /\ stored[id] \in Segments
        BY <1>1, <3>2
      <4>2. ASSUME id \in DOMAIN items
            PROVE  [stored[id] EXCEPT !.text = items[id].text] \in Segments
        BY <1>1, <4>1, <4>2 DEF Segments
      <4> QED
        BY <3>2, <4>1, <4>2
    <3> QED
      BY <3>1, <3>2
  <2> HIDE DEF all
  <2> QED
    BY <2>1, <2>2, <2>3, ItemMapIs
<1> QED
  BY <1>2, <1>3

LEMMA StoredItemsType ==
    ASSUME deployment \in Deployments, NEW t \in Tasks
    PROVE  StoredItems(t) \in ItemMaps
<1>1. t.events \in ItemMaps /\ t.attempt \in Runs
  BY DEF Tasks
<1>2. WholeItem(t.attempt) \in Ids
  BY <1>1, Bounds DEF WholeItem, Ids
<1>3. <<0>> \in Seq(Tokens)
  BY Bounds
<1>4. [text |-> <<0>>, status |-> "completed"] \in Segments
  BY <1>3 DEF Segments
<1> QED
  BY <1>1, <1>2, <1>4, PutType DEF StoredItems

-----------------------------------------------------------------------------
(* What is shown of an event.                                              *)

LEMMA ConnectionIs ==
    ASSUME NEW s, NEW items
    PROVE  [sse |-> s, screen |-> items] \in Connections <=>
           s \in Routes /\ items \in ItemMaps /\ (s.ready => s.attempt \in Runs)
  BY DEF Connections

LEMMA ConnectionParts ==
    ASSUME NEW c \in Connections
    PROVE  /\ c.sse \in Routes /\ c.screen \in ItemMaps /\ (c.sse.ready => c.sse.attempt \in Runs)
           /\ c = [sse |-> c.sse, screen |-> c.screen]
  BY DEF Connections

\* What Listen leaves alone: the gate and what the last poll has read.
SameGate(s, t) ==
    /\ s.pc = t.pc /\ s.ready = t.ready /\ s.attempt = t.attempt /\ s.gen = t.gen
    /\ s.started = t.started /\ s.seen = t.seen /\ s.last = t.last

LEMMA ShowEventType ==
    ASSUME deployment \in Deployments, NEW c \in Connections, NEW e \in Events
    PROVE  /\ ShowEvent(c, e) \in Connections
           /\ SameGate(ShowEvent(c, e).sse, c.sse)
           /\ ShowEvent(c, e).sse.pending = c.sse.pending
<1> DEFINE id == SegmentItem(e.attempt, e.ordinal)
           s == [c.sse EXCEPT !.segmented = TRUE]
<1>1. /\ c.sse \in Routes /\ c.screen \in ItemMaps /\ (c.sse.ready => c.sse.attempt \in Runs)
  BY ConnectionParts
<1>2. s \in Routes /\ SameGate(s, c.sse) /\ s.pending = c.sse.pending
      /\ s.sent = c.sse.sent /\ s.versions = c.sse.versions
  BY <1>1 DEF Routes, SameGate
<1>3. /\ e.phase \in {"start", "delta", "end"} /\ e.text \in Seq(Tokens) /\ Len(e.text) \in Nat
      /\ e.attempt \in Runs /\ e.ordinal \in 1..MaxSegments
  BY DEF Events
<1>4. id \in Ids
  BY <1>3, Bounds DEF SegmentItem, Ids
<1> HIDE DEF s, id
<1>5. CASE e.phase = "start"
  <2>1. ShowEvent(c, e) = [sse |-> s, screen |-> ShowItem(c.screen, id, [text |-> <<>>, status |-> "inProgress"])]
    BY <1>5 DEF ShowEvent, s, id
  <2>2. [text |-> <<>>, status |-> "inProgress"] \in Segments
    BY DEF Segments
  <2>3. ShowItem(c.screen, id, [text |-> <<>>, status |-> "inProgress"]) \in ItemMaps
    BY <1>1, <1>4, <2>2, ShowItemType
  <2> QED
    BY <1>1, <1>2, <2>1, <2>3, ConnectionIs DEF SameGate
<1>6. CASE e.phase = "delta"
  <2> DEFINE all == s.sent + Len(e.text)
             u == [s EXCEPT !.sent = all]
  <2>1. ShowEvent(c, e) = [sse |-> u, screen |-> ShowDelta(c.screen, id, e.text)]
    BY <1>6 DEF ShowEvent, s, id
  <2>4. all \in Nat
    <3>1. s.sent \in Nat
      BY <1>2 DEF Routes
    <3> QED
      BY <1>3, <3>1
  <2> HIDE DEF all
  <2>2. u \in Routes /\ SameGate(u, s) /\ u.pending = s.pending
    BY <1>2, <2>4 DEF Routes, SameGate
  <2> HIDE DEF u
  <2>3. ShowDelta(c.screen, id, e.text) \in ItemMaps
    BY <1>1, <1>3, <1>4, ShowDeltaType
  <2> QED
    BY <1>1, <1>2, <2>1, <2>2, <2>3, ConnectionIs DEF SameGate
<1>7. CASE e.phase = "end"
  <2> DEFINE u == [s EXCEPT !.versions = Put(@, id, LiveVersion)]
             item == [text |-> e.text, status |-> "completed"]
  <2>1. ShowEvent(c, e) = [sse |-> u, screen |-> ShowItem(c.screen, id, item)]
    BY <1>7 DEF ShowEvent, s, id
  <2>2. Put(s.versions, id, LiveVersion) \in VersionMaps
    <3>1. s.versions \in VersionMaps
      BY <1>2 DEF Routes
    <3> QED
      BY <1>4, <3>1, VersionPutType
  <2>3. u \in Routes /\ SameGate(u, s) /\ u.pending = s.pending
    BY <1>2, <2>2 DEF Routes, SameGate
  <2> HIDE DEF u
  <2>4. item \in Segments
    BY <1>3 DEF Segments
  <2>5. ShowItem(c.screen, id, item) \in ItemMaps
    BY <1>1, <1>4, <2>4, ShowItemType
  <2> QED
    BY <1>1, <1>2, <2>1, <2>3, <2>5, ConnectionIs DEF SameGate
<1> QED
  BY <1>3, <1>5, <1>6, <1>7

LEMMA ListenType ==
    ASSUME deployment \in Deployments, NEW gate, NEW c \in Connections, NEW e \in Events
    PROVE  Listen(gate, c, e) \in Connections /\ SameGate(Listen(gate, c, e).sse, c.sse)
<1>1. CASE Passes(gate, e)
  BY <1>1, ShowEventType DEF Listen
<1>2. CASE ~Passes(gate, e)
  <2> DEFINE more == Append(c.sse.pending, e)
             u == [c.sse EXCEPT !.pending = more]
  <2>1. c.sse \in Routes /\ c.screen \in ItemMaps /\ (c.sse.ready => c.sse.attempt \in Runs)
    BY ConnectionParts
  <2>2. more \in Seq(Events)
    BY <2>1 DEF Routes
  <2> HIDE DEF more
  <2>3. u \in Routes /\ SameGate(u, c.sse)
    BY <2>1, <2>2 DEF Routes, SameGate
  <2>4. Listen(gate, c, e) = [sse |-> u, screen |-> c.screen]
    BY <1>2, ConnectionParts DEF Listen, more
  <2> HIDE DEF u
  <2> QED
    BY <2>1, <2>3, <2>4, ConnectionIs DEF SameGate
<1> QED
  BY <1>1, <1>2

LEMMA FoldListenType ==
    ASSUME deployment \in Deployments, NEW gate, NEW c \in Connections, NEW events \in Seq(Events)
    PROVE  ListenAll(gate, c, events) \in Connections
           /\ SameGate(ListenAll(gate, c, events).sse, c.sse)
<1>1. PICK n \in Nat : n = Len(events)
  OBVIOUS
<1>2. PICK h : ListensTo(h, gate, c, events, n) /\ ListenAll(gate, c, events) = h[n]
  BY <1>1, FoldOfListen
<1> DEFINE Good(d) == d \in Connections /\ SameGate(d.sse, c.sse)
           G == {k \in Nat : k <= n => Good(h[k])}
<1>3. 0 \in G
  <2>1. Good(h[0])
    BY <1>2 DEF ListensTo, SameGate
  <2> QED
    BY <2>1
<1>4. ASSUME NEW k \in Nat, k \in G PROVE k + 1 \in G
  <2> SUFFICES ASSUME k + 1 <= n PROVE Good(h[k + 1])
    OBVIOUS
  <2>1. k + 1 \in 1..n /\ events[k + 1] \in Events /\ Good(h[k])
    BY <1>1, <1>4
  <2>2. h[k + 1] = Listen(gate, h[k], events[k + 1])
    BY <1>2, <2>1 DEF ListensTo
  <2>3. h[k + 1] \in Connections /\ SameGate(h[k + 1].sse, h[k].sse)
    BY <2>1, <2>2, ListenType
  <2> QED
    BY <2>1, <2>3 DEF SameGate
<1> HIDE DEF G
<1>5. Nat \subseteq G
  BY <1>3, <1>4, SetInduction
<1> QED
  BY <1>1, <1>2, <1>5 DEF G

-----------------------------------------------------------------------------
(* One round of the route.                                                 *)

\* A connection in the middle of a poll, and one whose gate is open.
Polling(c) == c \in Connections /\ c.sse.seen \in Tasks
OpenPolling(c) == Polling(c) /\ c.sse.ready

LEMMA PollingParts ==
    ASSUME NEW c, OpenPolling(c)
    PROVE  /\ c.sse \in Routes /\ c.screen \in ItemMaps /\ c.sse.seen \in Tasks
           /\ c.sse.ready /\ c.sse.attempt \in Runs
           /\ c = [sse |-> c.sse, screen |-> c.screen]
  BY ConnectionParts DEF OpenPolling, Polling

LEMMA IsOpenPolling ==
    ASSUME NEW s \in Routes, NEW items \in ItemMaps, s.seen \in Tasks, s.ready, s.attempt \in Runs
    PROVE  OpenPolling([sse |-> s, screen |-> items])
  BY ConnectionIs DEF OpenPolling, Polling

LEMMA StartTurnType ==
    ASSUME deployment \in Deployments, NEW c, Polling(c)
    PROVE  OpenPolling(StartTurn(c))
<1>1. CASE c.sse.ready
  BY <1>1 DEF StartTurn, OpenPolling
<1>2. CASE ~c.sse.ready
  <2> DEFINE t == c.sse.seen
             s == [c.sse EXCEPT !.ready = TRUE, !.attempt = t.attempt]
  <2>1. c.sse \in Routes /\ c.screen \in ItemMaps /\ t \in Tasks
    BY ConnectionParts DEF Polling
  <2>2. t.attempt \in Runs /\ t.attempt \in 0..MaxRuns
    <3>1. t.attempt \in Runs
      BY <2>1 DEF Tasks
    <3> QED
      BY <3>1, Bounds
  <2>3. s \in Routes /\ s.seen = t /\ s.ready /\ s.attempt \in Runs
    <3> DEFINE a == t.attempt
    <3> HIDE DEF a
    <3>1. a \in Runs /\ a \in 0..MaxRuns
      BY <2>2 DEF a
    <3>2. s = [c.sse EXCEPT !.ready = TRUE, !.attempt = a]
      BY DEF a
    <3> HIDE DEF s
    <3> QED
      BY <2>1, <3>1, <3>2 DEF Routes
  <2>4. Reconcile(c.screen, StoredItems(t)) \in ItemMaps
    BY <2>1, ReconcileType, StoredItemsType
  <2>5. StartTurn(c) = [sse |-> s, screen |-> Reconcile(c.screen, StoredItems(t))]
    BY <1>2 DEF StartTurn
  <2> HIDE DEF s, t
  <2> QED
    BY <2>1, <2>3, <2>4, <2>5, IsOpenPolling
<1> QED
  BY <1>1, <1>2

LEMMA ChangeAttemptType ==
    ASSUME deployment \in Deployments, NEW c, OpenPolling(c)
    PROVE  OpenPolling(ChangeAttempt(c))
<1> DEFINE t == c.sse.seen
           a == t.attempt
           segmented == HasSegments(t, t.attempt)
           whole == WholeItem(c.sse.attempt)
           s == [c.sse EXCEPT !.attempt = a, !.sent = 0, !.started = FALSE,
                              !.segmented = segmented]
           items == IF c.sse.started
                    THEN ShowItem(c.screen, whole, [text |-> <<>>, status |-> "completed"])
                    ELSE c.screen
<1>1. c.sse \in Routes /\ c.screen \in ItemMaps /\ t \in Tasks /\ c.sse.ready /\ c.sse.attempt \in Runs
  BY PollingParts
<1>2. a \in Runs /\ a \in 0..MaxRuns
  <2>1. t.attempt \in Runs
    BY <1>1 DEF Tasks
  <2> QED
    BY <2>1, Bounds
<1>3. segmented \in BOOLEAN
  BY DEF HasSegments
<1>4. whole \in Ids
  BY <1>1, Bounds DEF WholeItem, Ids
<1>5. [text |-> <<>>, status |-> "completed"] \in Segments
  BY DEF Segments
<1>6. items \in ItemMaps
  BY <1>1, <1>4, <1>5, ShowItemType
<1>7. CASE t.attempt = c.sse.attempt
  BY <1>7 DEF ChangeAttempt
<1>8. CASE t.attempt # c.sse.attempt
  <2>1. ChangeAttempt(c) = [sse |-> s, screen |-> items]
    BY <1>8 DEF ChangeAttempt
  <2>2. s \in Routes /\ s.seen = c.sse.seen /\ s.ready /\ s.attempt = a
    <3> HIDE DEF a, segmented
    <3> QED
      BY <1>1, <1>2, <1>3 DEF Routes
  <2> HIDE DEF s, items, a
  <2> QED
    BY <1>1, <1>2, <1>6, <2>1, <2>2, IsOpenPolling
<1> QED
  BY <1>7, <1>8

LEMMA SendWholeTextType ==
    ASSUME deployment \in Deployments, NEW c, OpenPolling(c)
    PROVE  OpenPolling(SendWholeText(c))
<1> DEFINE t == c.sse.seen
           whole == WholeItem(c.sse.attempt)
           rest == SubSeq(t.partial, c.sse.sent + 1, Len(t.partial))
           size == Len(t.partial)
           begun == IF c.sse.started THEN c.screen
                    ELSE ShowItem(c.screen, whole, [text |-> <<>>, status |-> "inProgress"])
           s == [c.sse EXCEPT !.sent = size, !.started = TRUE]
<1>1. c.sse \in Routes /\ c.screen \in ItemMaps /\ t \in Tasks /\ c.sse.ready /\ c.sse.attempt \in Runs
  BY PollingParts
<1>2. t.partial \in Seq(Tokens) /\ size \in Nat /\ c.sse.sent \in Nat
  <2>1. t.partial \in Seq(Tokens) /\ c.sse.sent \in Nat
    BY <1>1 DEF Tasks, Routes
  <2> QED
    BY <2>1
<1>3. rest \in Seq(Tokens)
  <2> HIDE DEF t
  <2> QED
    BY <1>2
<1>4. whole \in Ids
  BY <1>1, Bounds DEF WholeItem, Ids
<1>5. [text |-> <<>>, status |-> "inProgress"] \in Segments
  BY DEF Segments
<1>6. begun \in ItemMaps
  BY <1>1, <1>4, <1>5, ShowItemType
<1>7. CASE c.sse.segmented \/ rest = <<>>
  BY <1>7 DEF SendWholeText
<1>8. CASE ~(c.sse.segmented \/ rest = <<>>)
  <2>1. SendWholeText(c) = [sse |-> s, screen |-> ShowDelta(begun, whole, rest)]
    BY <1>8 DEF SendWholeText
  <2>2. s \in Routes /\ s.seen = c.sse.seen /\ s.ready /\ s.attempt = c.sse.attempt
    <3> HIDE DEF size
    <3> QED
      BY <1>1, <1>2 DEF Routes
  <2> HIDE DEF s, begun, whole, rest
  <2>3. ShowDelta(begun, whole, rest) \in ItemMaps
    BY <1>3, <1>4, <1>6, ShowDeltaType
  <2> QED
    BY <1>1, <2>1, <2>2, <2>3, IsOpenPolling
<1> QED
  BY <1>7, <1>8

LEMMA DrainType ==
    ASSUME deployment \in Deployments, NEW c, OpenPolling(c)
    PROVE  OpenPolling(Drain(c))
<1> DEFINE empty == [c.sse EXCEPT !.pending = <<>>]
           drained == ListenAll(c.sse, [c EXCEPT !.sse.pending = <<>>], c.sse.pending)
           left == drained.sse.pending
           excess == IF Len(left) > PendingCap THEN Len(left) - PendingCap ELSE 0
           kept == SubSeq(left, excess + 1, Len(left))
           s == [drained.sse EXCEPT !.pending = kept]
<1>1. c.sse \in Routes /\ c.screen \in ItemMaps /\ c.sse.seen \in Tasks /\ c.sse.ready /\ c.sse.attempt \in Runs
      /\ c = [sse |-> c.sse, screen |-> c.screen]
  BY PollingParts
<1>2. empty \in Routes /\ SameGate(empty, c.sse)
  <2>1. <<>> \in Seq(Events)
    OBVIOUS
  <2> QED
    BY <1>1, <2>1 DEF Routes, SameGate
<1>3. [c EXCEPT !.sse.pending = <<>>] = [sse |-> empty, screen |-> c.screen]
  BY <1>1
<1> HIDE DEF empty
<1>4. [c EXCEPT !.sse.pending = <<>>] \in Connections
  BY <1>1, <1>2, <1>3, ConnectionIs DEF SameGate
<1>5. [c EXCEPT !.sse.pending = <<>>].sse = empty
  BY <1>3
<1>6. c.sse.pending \in Seq(Events)
  BY <1>1 DEF Routes
<1>7. drained \in Connections /\ SameGate(drained.sse, empty)
  BY <1>4, <1>5, <1>6, FoldListenType
<1> HIDE DEF drained
<1>8. drained.sse \in Routes /\ drained.screen \in ItemMaps
      /\ drained = [sse |-> drained.sse, screen |-> drained.screen]
  BY <1>7, ConnectionParts
<1>9. left \in Seq(Events)
  BY <1>8 DEF Routes
<1>10. kept \in Seq(Events)
  <2>1. Len(left) \in Nat /\ excess \in Nat
    BY <1>9, TaskStreamAssumption
  <2> HIDE DEF left, excess
  <2> QED
    BY <1>9, <2>1
<1>11. Drain(c) = [sse |-> s, screen |-> drained.screen]
  <2>1. Drain(c) = [drained EXCEPT !.sse.pending = kept]
    BY DEF Drain, drained
  <2> HIDE DEF kept
  <2> QED
    BY <1>8, <2>1
<1> HIDE DEF kept
<1>12. s \in Routes /\ SameGate(s, drained.sse)
  BY <1>8, <1>10 DEF Routes, SameGate
<1>13. s.seen = c.sse.seen /\ s.ready = c.sse.ready /\ s.attempt = c.sse.attempt
  BY <1>2, <1>7, <1>12 DEF SameGate
<1> HIDE DEF s
<1> QED
  BY <1>1, <1>8, <1>11, <1>12, <1>13, IsOpenPolling

LEMMA SendItemsType ==
    ASSUME deployment \in Deployments, NEW c, OpenPolling(c)
    PROVE  OpenPolling(SendItems(c))
<1> DEFINE stored == StoredItems(c.sse.seen)
           sent == c.sse.versions
           news == {id \in DOMAIN stored : id \notin DOMAIN sent \/ sent[id] # stored[id]}
           versions == [id \in DOMAIN sent \cup news |-> IF id \in news THEN stored[id] ELSE sent[id]]
           items == [id \in DOMAIN c.screen \cup news |->
                        IF id \in news THEN stored[id] ELSE c.screen[id]]
           s == [c.sse EXCEPT !.versions = versions]
<1>1. c.sse \in Routes /\ c.screen \in ItemMaps /\ c.sse.seen \in Tasks /\ c.sse.ready /\ c.sse.attempt \in Runs
  BY PollingParts
<1>2. /\ DOMAIN stored \subseteq Ids /\ \A id \in DOMAIN stored : stored[id] \in Segments
      /\ DOMAIN sent \subseteq Ids /\ \A id \in DOMAIN sent : sent[id] \in Segments \cup {LiveVersion}
      /\ DOMAIN c.screen \subseteq Ids /\ \A id \in DOMAIN c.screen : c.screen[id] \in Segments
  <2>1. sent \in VersionMaps
    BY <1>1 DEF Routes
  <2>2. stored \in ItemMaps
    BY <1>1, StoredItemsType
  <2> HIDE DEF stored, sent
  <2> QED
    BY <1>1, <2>1, <2>2, ItemMapIs, VersionMapIs
<1>3. news \subseteq DOMAIN stored
  OBVIOUS
<1>4. SendItems(c) = [sse |-> s, screen |-> items]
  BY DEF SendItems
<1> HIDE DEF news, stored, sent
<1>5. versions \in VersionMaps
  <2>1. DOMAIN versions \subseteq Ids /\ versions = [x \in DOMAIN versions |-> versions[x]]
    BY <1>2, <1>3
  <2>2. \A id \in DOMAIN versions : versions[id] \in Segments \cup {LiveVersion}
    BY <1>2, <1>3
  <2> HIDE DEF versions
  <2> QED
    BY <2>1, <2>2, VersionMapIs
<1>6. items \in ItemMaps
  <2>1. DOMAIN items \subseteq Ids /\ items = [x \in DOMAIN items |-> items[x]]
    BY <1>2, <1>3
  <2>2. \A id \in DOMAIN items : items[id] \in Segments
    BY <1>2, <1>3
  <2> HIDE DEF items
  <2> QED
    BY <2>1, <2>2, ItemMapIs
<1> HIDE DEF versions, items
<1>7. s \in Routes /\ s.seen = c.sse.seen /\ s.ready /\ s.attempt = c.sse.attempt
  BY <1>1, <1>5 DEF Routes
<1> HIDE DEF s
<1> QED
  BY <1>1, <1>4, <1>6, <1>7, IsOpenPolling

LEMMA UpdateTurnType ==
    ASSUME deployment \in Deployments, NEW c, OpenPolling(c)
    PROVE  OpenPolling(UpdateTurn(c))
<1> DEFINE s == [c.sse EXCEPT !.last = c.sse.seen]
<1>1. c.sse \in Routes /\ c.screen \in ItemMaps /\ c.sse.seen \in Tasks /\ c.sse.ready /\ c.sse.attempt \in Runs
  BY PollingParts
<1>2. s \in Routes /\ s.seen = c.sse.seen /\ s.ready /\ s.attempt = c.sse.attempt
  BY <1>1 DEF Routes
<1>3. Reconcile(c.screen, StoredItems(c.sse.seen)) \in ItemMaps
  BY <1>1, ReconcileType, StoredItemsType
<1>4. UpdateTurn(c) = [sse |-> s, screen |-> Reconcile(c.screen, StoredItems(c.sse.seen))]
  BY DEF UpdateTurn
<1> HIDE DEF s
<1> QED
  BY <1>1, <1>2, <1>3, <1>4, IsOpenPolling

-----------------------------------------------------------------------------
(* What events say.                                                        *)

LEMMA WiderSeq ==
    ASSUME NEW S, NEW T, S \subseteq T, NEW s \in Seq(S)
    PROVE  s \in Seq(T)
<1>1. Len(s) \in Nat /\ DOMAIN s = 1..Len(s) /\ \A i \in 1..Len(s) : s[i] \in T
  OBVIOUS
<1> QED
  BY <1>1

LEMMA AtomsType ==
    ASSUME deployment \in Deployments, NEW e \in Events
    PROVE  Atoms(e) \in Seq(Atom)
<1>1. /\ e.phase \in {"start", "delta", "end"} /\ e.ordinal \in Nat /\ e.text \in Seq(Nat)
  <2>1. e.ordinal \in 1..MaxSegments /\ e.text \in Seq(Tokens) /\ e.phase \in {"start", "delta", "end"}
    BY DEF Events
  <2>2. Tokens \subseteq Nat /\ MaxSegments \in Nat
    BY Bounds DEF Tokens
  <2>3. e.text \in Seq(Nat)
    BY <2>1, <2>2, WiderSeq
  <2> QED
    BY <2>1, <2>2, <2>3
<1>2. CASE e.phase = "delta"
  <2> DEFINE n == Len(e.text)
             atoms == [i \in 1..n |-> <<"delta", e.ordinal, e.text[i]>>]
  <2>1. n \in Nat /\ DOMAIN e.text = 1..n /\ \A i \in 1..n : e.text[i] \in Nat
    BY <1>1
  <2>2. \A i \in 1..n : <<"delta", e.ordinal, e.text[i]>> \in Atom
    BY <1>1, <2>1 DEF Atom
  <2>3. Atoms(e) = atoms
    BY <1>2, <2>1 DEF Atoms
  <2> HIDE DEF n
  <2>4. atoms \in Seq(Atom)
    BY <2>1, <2>2
  <2> QED
    BY <2>3, <2>4
<1>3. CASE e.phase # "delta"
  <2>1. <<e.phase, e.ordinal, 0>> \in Atom
    BY <1>1 DEF Atom
  <2>2. Atoms(e) = <<<<e.phase, e.ordinal, 0>>>>
    BY <1>3 DEF Atoms
  <2> DEFINE a == <<e.phase, e.ordinal, 0>>
  <2> HIDE DEF a
  <2>3. a \in Atom /\ Atoms(e) = <<a>>
    BY <2>1, <2>2 DEF a
  <2> QED
    BY <2>3
<1> QED
  BY <1>2, <1>3

\* The atoms of each event, in order.
LEMMA AtomSeqs ==
    ASSUME deployment \in Deployments, NEW events \in Seq(Events)
    PROVE  /\ [i \in DOMAIN events |-> Atoms(events[i])] \in Seq(Seq(Atom))
           /\ Len([i \in DOMAIN events |-> Atoms(events[i])]) = Len(events)
           /\ \A i \in 1..Len(events) : [j \in DOMAIN events |-> Atoms(events[j])][i] = Atoms(events[i])
           /\ AtomsOf(events) \in Seq(Atom)
<1> DEFINE n == Len(events)
           seqs == [i \in 1..n |-> Atoms(events[i])]
<1>1. n \in Nat /\ DOMAIN events = 1..n /\ \A i \in 1..n : events[i] \in Events
  OBVIOUS
<1>2. \A i \in 1..n : Atoms(events[i]) \in Seq(Atom)
  BY <1>1, AtomsType
<1>3. seqs = [i \in DOMAIN events |-> Atoms(events[i])]
  BY <1>1
<1> HIDE DEF n
<1>4. seqs \in Seq(Seq(Atom)) /\ Len(seqs) = n /\ \A i \in 1..n : seqs[i] = Atoms(events[i])
  <2> DEFINE S == Seq(Atom)
  <2> HIDE DEF S
  <2>1. \A i \in 1..n : Atoms(events[i]) \in S
    BY <1>2 DEF S
  <2>2. seqs \in Seq(S) /\ Len(seqs) = n
    BY <1>1, <2>1
  <2> QED
    BY <2>2 DEF S
<1>5. AtomsOf(events) = FlattenSeq(seqs)
  BY <1>3 DEF AtomsOf
<1> HIDE DEF seqs
<1>6. AtomsOf(events) \in Seq(Atom)
  BY <1>4, <1>5, FlattenType
<1> QED
  BY <1>3, <1>4, <1>6 DEF n

LEMMA AtomsOfNone == AtomsOf(<< >>) = << >>
<1>1. [i \in DOMAIN << >> |-> Atoms(<< >>[i])] = << >>
  OBVIOUS
<1> QED
  BY <1>1, FlattenEmpty DEF AtomsOf

LEMMA AtomsOfAppend ==
    ASSUME deployment \in Deployments, NEW events \in Seq(Events), NEW e \in Events
    PROVE  AtomsOf(Append(events, e)) = AtomsOf(events) \o Atoms(e)
<1> DEFINE more == Append(events, e)
           one == [i \in DOMAIN events |-> Atoms(events[i])]
           all == [i \in DOMAIN more |-> Atoms(more[i])]
           S == Seq(Atom)
<1>1. /\ Len(events) \in Nat /\ more \in Seq(Events) /\ Len(more) = Len(events) + 1
      /\ more[Len(events) + 1] = e /\ \A i \in 1..Len(events) : more[i] = events[i]
  BY AppendIs
<1> HIDE DEF more
<1>2. one \in Seq(S) /\ Len(one) = Len(events) /\ \A i \in 1..Len(events) : one[i] = Atoms(events[i])
  BY AtomSeqs
<1>3. all \in Seq(S) /\ Len(all) = Len(more) /\ \A i \in 1..Len(more) : all[i] = Atoms(more[i])
  BY <1>1, AtomSeqs
<1>4. Atoms(e) \in S
  BY AtomsType
<1>5. AtomsOf(events) = FlattenSeq(one) /\ AtomsOf(more) = FlattenSeq(all)
  BY DEF AtomsOf
<1>6. all = Append(one, Atoms(e))
  <2> HIDE DEF one, all, S
  <2>1. /\ Append(one, Atoms(e)) \in Seq(S) /\ Len(Append(one, Atoms(e))) = Len(events) + 1
        /\ Append(one, Atoms(e))[Len(events) + 1] = Atoms(e)
        /\ \A i \in 1..Len(events) : Append(one, Atoms(e))[i] = one[i]
    BY <1>2, <1>4, AppendIs
  <2>2. \A i \in 1..Len(more) : all[i] = Append(one, Atoms(e))[i]
    <3> SUFFICES ASSUME NEW i \in 1..Len(more) PROVE all[i] = Append(one, Atoms(e))[i]
      OBVIOUS
    <3>1. i \in 1..Len(events) \/ i = Len(events) + 1
      BY <1>1
    <3> QED
      BY <1>1, <1>2, <1>3, <2>1, <3>1
  <2> QED
    BY <1>1, <1>3, <2>1, <2>2, SameSeq
<1> HIDE DEF one, all
<1>7. FlattenSeq(Append(one, Atoms(e))) = FlattenSeq(one) \o Atoms(e)
  BY <1>2, <1>4, FlattenAppend
<1> QED
  BY <1>5, <1>6, <1>7 DEF more

LEMMA AtomsOfConcat ==
    ASSUME deployment \in Deployments, NEW s \in Seq(Events), NEW t \in Seq(Events)
    PROVE  AtomsOf(s \o t) = AtomsOf(s) \o AtomsOf(t)
<1> DEFINE n == Len(s)
           m == Len(t)
           both == s \o t
           one == [i \in DOMAIN s |-> Atoms(s[i])]
           two == [i \in DOMAIN t |-> Atoms(t[i])]
           all == [i \in DOMAIN both |-> Atoms(both[i])]
           S == Seq(Atom)
<1>1. /\ n \in Nat /\ m \in Nat /\ both \in Seq(Events) /\ Len(both) = n + m
      /\ \A i \in 1..n : both[i] = s[i]
      /\ \A i \in 1..m : both[n + i] = t[i]
  <2>1. n \in Nat /\ m \in Nat
    OBVIOUS
  <2> QED
    BY <2>1, Concat
<1> HIDE DEF both
<1>2. one \in Seq(S) /\ Len(one) = n /\ \A i \in 1..n : one[i] = Atoms(s[i])
  BY AtomSeqs
<1>3. two \in Seq(S) /\ Len(two) = m /\ \A i \in 1..m : two[i] = Atoms(t[i])
  BY AtomSeqs
<1>4. all \in Seq(S) /\ Len(all) = n + m /\ \A i \in 1..(n + m) : all[i] = Atoms(both[i])
  <2>1. all \in Seq(S) /\ Len(all) = Len(both) /\ \A i \in 1..Len(both) : all[i] = Atoms(both[i])
    BY <1>1, AtomSeqs
  <2> QED
    BY <1>1, <2>1
<1>5. /\ AtomsOf(s) = FlattenSeq(one) /\ AtomsOf(t) = FlattenSeq(two)
      /\ AtomsOf(both) = FlattenSeq(all)
  BY DEF AtomsOf
<1>6. all = one \o two
  <2> HIDE DEF one, two, all, S, n, m
  <2>1. /\ one \o two \in Seq(S) /\ Len(one \o two) = n + m
        /\ \A i \in 1..n : (one \o two)[i] = one[i]
        /\ \A i \in 1..m : (one \o two)[n + i] = two[i]
    <3>1. /\ one \o two \in Seq(S) /\ Len(one \o two) = Len(one) + Len(two)
          /\ \A i \in 1..Len(one) : (one \o two)[i] = one[i]
          /\ \A i \in 1..Len(two) : (one \o two)[Len(one) + i] = two[i]
      <4> SUFFICES ASSUME NEW u \in Seq(S), u = one, NEW v \in Seq(S), v = two
                   PROVE  /\ u \o v \in Seq(S) /\ Len(u \o v) = Len(u) + Len(v)
                          /\ \A i \in 1..Len(u) : (u \o v)[i] = u[i]
                          /\ \A i \in 1..Len(v) : (u \o v)[Len(u) + i] = v[i]
        BY <1>2, <1>3
      <4> QED
        BY Concat
    <3> QED
      BY <1>2, <1>3, <3>1
  <2>2. \A i \in 1..(n + m) : all[i] = (one \o two)[i]
    <3> SUFFICES ASSUME NEW i \in 1..(n + m) PROVE all[i] = (one \o two)[i]
      OBVIOUS
    <3>1. CASE i <= n
      <4>1. i \in 1..n
        BY <1>1, <3>1
      <4> QED
        BY <1>1, <1>2, <1>4, <2>1, <4>1
    <3>2. CASE ~(i <= n)
      <4>1. PICK k \in 1..m : i = n + k
        <5>1. i - n \in 1..m /\ i = n + (i - n)
          BY <1>1, <3>2
        <5> QED
          BY <5>1
      <4> QED
        BY <1>1, <1>3, <1>4, <2>1, <4>1
    <3> QED
      BY <3>1, <3>2
  <2> QED
    BY <1>4, <2>1, <2>2, SameSeq
<1> HIDE DEF one, two, all
<1>7. FlattenSeq(one \o two) = FlattenSeq(one) \o FlattenSeq(two)
  BY <1>2, <1>3, FlattenConcat
<1> QED
  BY <1>5, <1>6, <1>7 DEF both

-----------------------------------------------------------------------------
(* Types: what is published.                                               *)

ReaderOK(s, items) ==
    /\ [sse |-> s, screen |-> items] \in Connections
    /\ s.pc = "handling" => s.seen \in Tasks

LEMMA StepTypes ==
    ASSUME deployment \in Deployments, deployment' = deployment,
           task' \in Tasks, task'.attempt <= task'.gen,
           runs' \in [Runs -> RunStates],
           \A r \in Runs : runs'[r].pc # "waiting" => runs'[r].attempt \in Runs,
           \A r \in Runs : Len(runs'[r].segs) <= MaxSegments,
           buffer' \in [Runs -> Seq(Events)], outbox' \in [Runs -> Seq(Events)],
           channel' \in Seq(Seq(Events)), \A i \in DOMAIN channel' : channel'[i] # << >>,
           heard' \in [Runs -> Seq(Atom)], ReaderOK(sse', screen')
    PROVE  StreamTypeOK'
<1> USE SameBounds
<1>1. Atom' = Atom
  BY DEF Atom
<1>2. StreamTypeOK' <=>
      /\ deployment' \in Deployments
      /\ task' \in Tasks' /\ task'.attempt <= task'.gen
      /\ runs' \in [Runs' -> RunStates']
      /\ \A r \in Runs' : runs'[r].pc # "waiting" => runs'[r].attempt \in Runs'
      /\ \A r \in Runs' : Len(runs'[r].segs) <= MaxSegments'
      /\ buffer' \in [Runs' -> Seq(Events')] /\ outbox' \in [Runs' -> Seq(Events')]
      /\ channel' \in Seq(Seq(Events')) /\ \A i \in DOMAIN channel' : channel'[i] # << >>
      /\ heard' \in [Runs' -> Seq(Atom')]
      /\ [sse |-> sse', screen |-> screen'] \in Connections'
      /\ sse'.pc = "handling" => sse'.seen \in Tasks'
  BY DEF StreamTypeOK
<1> QED
  BY <1>1, <1>2 DEF ReaderOK

LEMMA Unchanged ==
    ASSUME StreamTypeOK
    PROVE  /\ deployment \in Deployments
           /\ task \in Tasks /\ task.attempt <= task.gen
           /\ runs \in [Runs -> RunStates]
           /\ \A r \in Runs : runs[r].pc # "waiting" => runs[r].attempt \in Runs
           /\ \A r \in Runs : Len(runs[r].segs) <= MaxSegments
           /\ buffer \in [Runs -> Seq(Events)] /\ outbox \in [Runs -> Seq(Events)]
           /\ channel \in Seq(Seq(Events)) /\ \A i \in DOMAIN channel : channel[i] # << >>
           /\ heard \in [Runs -> Seq(Atom)] /\ ReaderOK(sse, screen)
  BY DEF StreamTypeOK, ReaderOK

LEMMA EmitType ==
    ASSUME StreamTypeOK, NEW r \in Runs, NEW events \in Seq(Events), Emit(r, events)
    PROVE  heard' \in [Runs -> Seq(Atom)] /\ ReaderOK(sse', screen')
<1> DEFINE c == ListenAll(sse, [sse |-> sse, screen |-> screen], events)
           atoms == AtomsOf(events)
<1>1. c \in Connections /\ SameGate(c.sse, sse)
  BY Unchanged, FoldListenType DEF ReaderOK
<1>2. atoms \in Seq(Atom)
  BY Unchanged, AtomSeqs
<1>3. /\ heard' = IF Lossy THEN heard ELSE [heard EXCEPT ![r] = @ \o atoms]
      /\ (sse' = c.sse /\ screen' = c.screen) \/ (sse' = sse /\ screen' = screen)
  BY DEF Emit
<1> HIDE DEF c, atoms
<1>4. heard' \in [Runs -> Seq(Atom)]
  <2>1. heard \in [Runs -> Seq(Atom)] /\ heard[r] \o atoms \in Seq(Atom)
    BY <1>2, Unchanged, Concat
  <2> QED
    BY <1>3, <2>1
<1>5. ReaderOK(c.sse, c.screen)
  <2>1. c.sse.pc = "handling" => c.sse.seen \in Tasks
    BY <1>1, Unchanged DEF SameGate, ReaderOK
  <2> QED
    BY <1>1, <2>1, ConnectionParts DEF ReaderOK
<1> QED
  BY <1>3, <1>4, <1>5, Unchanged

LEMMA SendType ==
    ASSUME StreamTypeOK, NEW r \in Runs, NEW events \in Seq(Events), Send(r, events)
    PROVE  /\ outbox' \in [Runs -> Seq(Events)] /\ heard' \in [Runs -> Seq(Atom)]
           /\ ReaderOK(sse', screen')
<1>1. CASE Bridged
  <2>1. outbox \in [Runs -> Seq(Events)] /\ outbox[r] \o events \in Seq(Events)
    BY Unchanged, Concat
  <2> QED
    BY <1>1, <2>1, Unchanged DEF Send
<1>2. CASE ~Bridged
  BY <1>2, EmitType, Unchanged DEF Send
<1> QED
  BY <1>1, <1>2

LEMMA CoalesceType ==
    ASSUME NEW list \in Seq(Events), NEW e \in Events
    PROVE  Coalesce(list, e) \in Seq(Events)
<1>1. CASE list # <<>> /\ Last(list).phase = "delta" /\ Last(list).ordinal = e.ordinal
                       /\ Last(list).attempt = e.attempt
  <2> DEFINE n == Len(list)
             last == list[n]
             text == last.text \o e.text
             longer == [last EXCEPT !.text = text]
  <2>1. n \in 1..Len(list) /\ last \in Events
    BY <1>1
  <2>2. text \in Seq(Tokens)
    <3>1. last.text \in Seq(Tokens) /\ e.text \in Seq(Tokens)
      BY <2>1 DEF Events
    <3> QED
      BY <3>1, Concat
  <2>3. longer \in Events
    <3> HIDE DEF text, last
    <3> QED
      BY <2>1, <2>2 DEF Events
  <2>4. Coalesce(list, e) = [list EXCEPT ![n] = longer]
    BY <1>1 DEF Coalesce
  <2> HIDE DEF longer
  <2> QED
    BY <2>1, <2>3, <2>4
<1>2. CASE ~(list # <<>> /\ Last(list).phase = "delta" /\ Last(list).ordinal = e.ordinal
                         /\ Last(list).attempt = e.attempt)
  <2>1. Coalesce(list, e) = Append(list, e)
    BY <1>2 DEF Coalesce
  <2> QED
    BY <2>1
<1> QED
  BY <1>1, <1>2

LEMMA GatherType ==
    ASSUME NEW list \in Seq(Events), NEW delta \in Seq(Events)
    PROVE  Gather(list, delta) \in Seq(Events)
<1>1. CASE delta = <<>>
  BY <1>1 DEF Gather
<1>2. CASE delta # <<>>
  <2>1. delta[1] \in Events
    BY <1>2
  <2> QED
    BY <1>2, <2>1, CoalesceType DEF Gather
<1> QED
  BY <1>1, <1>2

LEMMA PublishType ==
    ASSUME StreamTypeOK, NEW r \in Runs, NEW boundary \in Seq(Events), NEW delta \in Seq(Events),
           Publish(r, boundary, delta)
    PROVE  /\ buffer' \in [Runs -> Seq(Events)] /\ outbox' \in [Runs -> Seq(Events)]
           /\ heard' \in [Runs -> Seq(Atom)] /\ ReaderOK(sse', screen')
<1>1. buffer \in [Runs -> Seq(Events)] /\ buffer[r] \in Seq(Events) /\ <<>> \in Seq(Events)
  BY Unchanged
<1>2. CASE boundary = <<>>
  <2>1. Gather(buffer[r], delta) \in Seq(Events)
    BY <1>1, GatherType
  <2> QED
    BY <1>1, <1>2, <2>1, Unchanged DEF Publish
<1>3. CASE boundary # <<>>
  <2>1. Gather(<<>>, delta) \in Seq(Events) /\ buffer[r] \o boundary \in Seq(Events)
    BY <1>1, GatherType, Concat
  <2>2. buffer' = [buffer EXCEPT ![r] = Gather(<<>>, delta)] /\ Send(r, buffer[r] \o boundary)
    BY <1>3 DEF Publish
  <2> QED
    BY <1>1, <2>1, <2>2, SendType
<1> QED
  BY <1>2, <1>3

LEMMA EventType ==
    ASSUME StreamTypeOK, NEW r \in Runs, runs[r].pc # "waiting",
           NEW phase \in {"start", "delta", "end"}, NEW n \in 1..MaxSegments,
           NEW text \in Seq(Tokens)
    PROVE  Event(r, phase, n, text) \in Events /\ Event(r, phase, n, text).run = r
  BY Unchanged DEF Event, Events

LEMMA SegmentTexts ==
    ASSUME NEW segs \in Seq(Segments)
    PROVE  FlattenSeq([i \in DOMAIN segs |-> segs[i].text]) \in Seq(Tokens)
<1> DEFINE n == Len(segs)
           S == Seq(Tokens)
           texts == [i \in 1..n |-> segs[i].text]
<1>1. n \in Nat /\ DOMAIN segs = 1..n /\ \A i \in 1..n : segs[i] \in Segments
  OBVIOUS
<1>2. \A i \in 1..n : segs[i].text \in S
  BY <1>1 DEF Segments
<1> HIDE DEF n, S
<1>3. texts \in Seq(S)
  BY <1>1, <1>2
<1>4. texts = [i \in DOMAIN segs |-> segs[i].text]
  BY <1>1
<1> QED
  BY <1>3, <1>4, FlattenType DEF S

LEMMA NextTokenType ==
    ASSUME StreamTypeOK, NextToken <= MaxTokens
    PROVE  <<NextToken>> \in Seq(Tokens)
<1>1. Written \subseteq Tokens
  <2> SUFFICES ASSUME NEW r \in Runs
               PROVE  Range(FlattenSeq([i \in DOMAIN runs[r].segs |-> runs[r].segs[i].text])) \subseteq Tokens
    BY DEF Written
  <2>1. runs[r].segs \in Seq(Segments)
    BY Unchanged DEF RunStates
  <2> DEFINE all == FlattenSeq([i \in DOMAIN runs[r].segs |-> runs[r].segs[i].text])
  <2>2. all \in Seq(Tokens)
    BY <2>1, SegmentTexts
  <2> HIDE DEF all
  <2>3. Range(all) \subseteq Tokens
    BY <2>2 DEF Range
  <2> QED
    BY <2>3 DEF all
<1>2. IsFiniteSet(Tokens)
  <2>1. 0 \in Int /\ MaxTokens \in Int
    BY Bounds, Unchanged
  <2> QED
    BY <2>1, FS_Interval DEF Tokens
<1>3. Cardinality(Written) \in Nat
  BY <1>1, <1>2, FS_Subset, FS_CardinalityType
<1>4. NextToken \in Nat /\ MaxTokens \in Nat
  BY <1>3, Bounds, Unchanged DEF NextToken
<1>5. NextToken \in Tokens
  BY <1>4 DEF Tokens
<1> QED
  BY <1>5

-----------------------------------------------------------------------------
(* Types: the runs.                                                        *)

LEMMA InitTypes == Init => StreamTypeOK
<1> SUFFICES ASSUME Init PROVE StreamTypeOK
  OBVIOUS
<1>1. deployment \in Deployments
  BY DEF Init
<1>2. <<>> \in ItemMaps /\ <<>> \in VersionMaps
  <2>1. DOMAIN <<>> = {} /\ <<>> = [x \in DOMAIN <<>> |-> <<>>[x]]
    OBVIOUS
  <2> QED
    BY <2>1, ItemMapIs, VersionMapIs
<1>3. task \in Tasks /\ task.attempt <= task.gen
  <2>1. 1 \in Runs /\ <<>> \in Seq(Tokens)
    BY <1>1, Bounds
  <2>2. task = [status |-> "queued", gen |-> 1, attempt |-> 1, partial |-> <<>>,
                events |-> <<>>, streamed |-> FALSE]
    BY DEF Init
  <2> QED
    BY <1>2, <2>1, <2>2 DEF Tasks
<1>4. Unstarted \in RunStates
  <2>1. 0 \in 0..MaxRuns /\ <<>> \in Seq(Tokens) /\ <<>> \in Seq(Segments)
    BY <1>1, Bounds
  <2> QED
    BY <2>1 DEF Unstarted, RunStates
<1>5. runs \in [Runs -> RunStates] /\ \A r \in Runs : runs[r] = Unstarted
  BY <1>4 DEF Init
<1>6. \A r \in Runs : runs[r].pc = "waiting" /\ Len(runs[r].segs) <= MaxSegments
  <2>1. 0 <= MaxSegments
    BY <1>1, Bounds
  <2> QED
    BY <1>5, <2>1 DEF Unstarted
<1>7. /\ buffer \in [Runs -> Seq(Events)] /\ outbox \in [Runs -> Seq(Events)]
      /\ heard \in [Runs -> Seq(Atom)]
  <2>1. buffer = [r \in Runs |-> <<>>] /\ outbox = [r \in Runs |-> <<>>] /\ heard = [r \in Runs |-> <<>>]
    BY DEF Init
  <2> QED
    BY <2>1
<1>8. channel \in Seq(Seq(Events)) /\ \A i \in DOMAIN channel : channel[i] # << >>
  BY DEF Init
<1>9. sse = Closed /\ screen = <<>>
  BY DEF Init
<1>10. Closed \in Routes
  <2>1. 0 \in 0..MaxRuns /\ <<>> \in Seq(Events)
    BY <1>1, Bounds
  <2> QED
    BY <1>2, <2>1 DEF Closed, Routes
<1>11. [sse |-> sse, screen |-> screen] \in Connections
  <2>1. ~Closed.ready
    BY DEF Closed
  <2> QED
    BY <1>2, <1>9, <1>10, <2>1, ConnectionIs
<1>12. sse.pc # "handling"
  BY <1>9 DEF Closed
<1> QED
  BY <1>1, <1>3, <1>5, <1>6, <1>7, <1>8, <1>11, <1>12 DEF StreamTypeOK

LEMMA RunFields ==
    ASSUME StreamTypeOK, NEW r \in Runs
    PROVE  /\ runs[r] \in RunStates /\ runs[r].segs \in Seq(Segments) /\ runs[r].base \in Seq(Tokens)
           /\ Len(runs[r].segs) \in Nat /\ Len(runs[r].segs) <= MaxSegments
           /\ MaxSegments \in Nat /\ (runs[r].pc # "waiting" => runs[r].attempt \in Runs)
<1>1. runs[r] \in RunStates
  BY Unchanged
<1>2. runs[r].segs \in Seq(Segments) /\ runs[r].base \in Seq(Tokens)
  BY <1>1 DEF RunStates
<1>3. Len(runs[r].segs) \in Nat
  BY <1>2
<1> QED
  BY <1>1, <1>2, <1>3, Bounds, Unchanged

LEMMA OneRunTypes ==
    ASSUME StreamTypeOK, NEW r \in Runs, NEW run \in RunStates, runs' = [runs EXCEPT ![r] = run],
           run.pc # "waiting" => run.attempt \in Runs, Len(run.segs) <= MaxSegments
    PROVE  /\ runs' \in [Runs -> RunStates]
           /\ \A q \in Runs : runs'[q].pc # "waiting" => runs'[q].attempt \in Runs
           /\ \A q \in Runs : Len(runs'[q].segs) <= MaxSegments
<1>1. runs \in [Runs -> RunStates]
  BY Unchanged
<1>2. \A q \in Runs : runs'[q] = IF q = r THEN run ELSE runs[q]
  BY <1>1
<1>3. runs' \in [Runs -> RunStates]
  BY <1>1
<1> QED
  BY <1>2, <1>3, Unchanged

LEMMA StartedRun ==
    ASSUME StreamTypeOK, NEW base \in Seq(Tokens)
    PROVE  /\ Started(base) \in RunStates /\ Started(base).attempt \in Runs
           /\ Len(Started(base).segs) <= MaxSegments
<1>1. task.attempt \in Runs /\ DOMAIN task.events \subseteq Ids
  BY Unchanged, ItemMapIs DEF Tasks
<1>2. task.attempt \in 0..MaxRuns /\ <<>> \in Seq(Segments) /\ 0 <= MaxSegments
  BY <1>1, Unchanged, Bounds
<1> QED
  BY <1>1, <1>2 DEF Started, RunStates

LEMMA ClaimTypes ==
    ASSUME StreamTypeOK, Claim PROVE StreamTypeOK'
<1> DEFINE run == Started(<<>>)
<1>1. task' \in Tasks /\ task'.attempt <= task'.gen
  BY Unchanged DEF Tasks, Claim
<1>2. task.gen \in Runs /\ <<>> \in Seq(Tokens)
  BY Unchanged DEF Tasks
<1>3. runs' = [runs EXCEPT ![task.gen] = run]
      /\ UNCHANGED <<deployment, buffer, outbox, channel, heard, sse, screen>>
  BY DEF Claim, wireVars
<1>4. run \in RunStates /\ run.attempt \in Runs /\ Len(run.segs) <= MaxSegments
  BY <1>2, StartedRun
<1> HIDE DEF run
<1>6. /\ runs' \in [Runs -> RunStates]
      /\ \A q \in Runs : runs'[q].pc # "waiting" => runs'[q].attempt \in Runs
      /\ \A q \in Runs : Len(runs'[q].segs) <= MaxSegments
  BY <1>2, <1>3, <1>4, OneRunTypes
<1> QED
  BY <1>1, <1>3, <1>6, Unchanged, StepTypes

LEMMA InterruptType ==
    ASSUME NEW events \in ItemMaps, NEW found
    PROVE  Interrupt(events, found) \in ItemMaps
<1> DEFINE left == Interrupt(events, found)
<1>1. DOMAIN events \subseteq Ids /\ \A id \in DOMAIN events : events[id] \in Segments
  BY ItemMapIs
<1>2. left = [id \in DOMAIN left |-> left[id]] /\ DOMAIN left = DOMAIN events
  BY DEF Interrupt
<1>3. ASSUME NEW id \in DOMAIN events PROVE left[id] \in Segments
  <2>1. left[id] \in {events[id], [events[id] EXCEPT !.status = "interrupted"]}
    BY DEF Interrupt
  <2> HIDE DEF left
  <2> QED
    BY <1>1, <2>1 DEF Segments
<1> HIDE DEF left
<1>4. left \in ItemMaps
  BY <1>1, <1>2, <1>3, ItemMapIs
<1> QED
  BY <1>4 DEF left

LEMMA TakeOverTypes ==
    ASSUME StreamTypeOK, TakeOver PROVE StreamTypeOK'
<1> DEFINE g == task.gen + 1
           run == Started(task.partial)
           left == Interrupt(task.events, runs[task.gen].found)
<1>1. /\ g \in Runs /\ task' = [task EXCEPT !.gen = g, !.events = left] /\ runs' = [runs EXCEPT ![g] = run]
      /\ UNCHANGED <<deployment, buffer, outbox, channel, heard, sse, screen>>
  BY DEF TakeOver, wireVars
<1>2. /\ task.attempt \in Runs /\ task.gen \in Runs /\ task.partial \in Seq(Tokens)
      /\ task.events \in ItemMaps
  BY Unchanged DEF Tasks
<1>3. Runs \subseteq Nat
  BY Unchanged, Bounds
<1>4. left \in ItemMaps
  BY <1>2, InterruptType
<1> HIDE DEF left
<1>5. task' \in Tasks /\ task'.attempt <= task'.gen
  <2>1. task.attempt <= g
    <3>1. task.attempt \in Nat /\ task.gen \in Nat /\ task.attempt <= task.gen
      BY <1>2, <1>3, Unchanged
    <3> QED
      BY <3>1
  <2> HIDE DEF g
  <2> QED
    BY <1>1, <1>4, <2>1, Unchanged DEF Tasks
<1>6. run \in RunStates /\ run.attempt \in Runs /\ Len(run.segs) <= MaxSegments
  BY <1>2, StartedRun
<1> HIDE DEF run, g
<1>7. /\ runs' \in [Runs -> RunStates]
      /\ \A q \in Runs : runs'[q].pc # "waiting" => runs'[q].attempt \in Runs
      /\ \A q \in Runs : Len(runs'[q].segs) <= MaxSegments
  BY <1>1, <1>6, OneRunTypes
<1> QED
  BY <1>1, <1>5, <1>7, Unchanged, StepTypes

\* The segments of a run after one word, and after a segment's end.
Longer(r) == [runs[r].segs[Len(runs[r].segs)] EXCEPT !.text = @ \o <<NextToken>>]
Begun == [text |-> <<NextToken>>, status |-> "inProgress"]
Ending(r) == [runs[r].segs[Len(runs[r].segs)] EXCEPT !.status = "completed"]

LEMMA WriteIs ==
    ASSUME StreamTypeOK, NEW r \in Runs, Write(r)
    PROVE  LET n == Len(runs[r].segs) IN
           /\ <<NextToken>> \in Seq(Tokens) /\ runs[r].pc = "streaming"
           /\ UNCHANGED <<deployment, task, channel>>
           /\ \/ /\ n \in 1..MaxSegments /\ runs[r].segs[n].status = "inProgress"
                 /\ Longer(r) \in Segments /\ Longer(r).status = "inProgress"
                 /\ Longer(r).text = runs[r].segs[n].text \o <<NextToken>>
                 /\ runs' = [runs EXCEPT ![r] = [runs[r] EXCEPT !.segs = [@ EXCEPT ![n] = Longer(r)],
                                                                !.saved = FALSE]]
                 /\ Publish(r, <<>>, <<Event(r, "delta", n, <<NextToken>>)>>)
              \/ /\ ~OpenSegment(r) /\ n + 1 \in 1..MaxSegments /\ Begun \in Segments
                 /\ runs' = [runs EXCEPT ![r] = [runs[r] EXCEPT !.segs = Append(@, Begun), !.saved = FALSE]]
                 /\ Publish(r, <<Event(r, "start", n + 1, <<>>)>>, <<Event(r, "delta", n + 1, <<NextToken>>)>>)
<1> DEFINE n == Len(runs[r].segs)
<1>1. runs \in [Runs -> RunStates] /\ runs[r] \in RunStates /\ runs[r].segs \in Seq(Segments)
      /\ n \in Nat /\ n <= MaxSegments /\ MaxSegments \in Nat
  BY Unchanged, RunFields
<1>2. <<NextToken>> \in Seq(Tokens) /\ runs[r].pc = "streaming" /\ UNCHANGED <<deployment, task, channel>>
  BY NextTokenType DEF Write
<1>3. CASE OpenSegment(r)
  <2>1. n \in 1..MaxSegments /\ n \in DOMAIN runs[r].segs /\ runs[r].segs[n].status = "inProgress"
    BY <1>1, <1>3 DEF OpenSegment, Last
  <2>2. runs[r].segs[n] \in Segments /\ runs[r].segs[n].text \in Seq(Tokens)
    <3>1. \A i \in DOMAIN runs[r].segs : runs[r].segs[i] \in Segments
      BY <1>1
    <3> HIDE DEF n
    <3> QED
      BY <2>1, <3>1 DEF Segments
  <2> DEFINE text == runs[r].segs[n].text \o <<NextToken>>
  <2>3. text \in Seq(Tokens)
    BY <1>2, <2>2, Concat
  <2>4. Longer(r) = [runs[r].segs[n] EXCEPT !.text = text]
    BY DEF Longer
  <2> HIDE DEF text
  <2>5. Longer(r) \in Segments /\ Longer(r).status = "inProgress" /\ Longer(r).text = text
    BY <2>1, <2>2, <2>3, <2>4 DEF Segments
  <2>6. runs' = [runs EXCEPT ![r].segs[n].text = @ \o <<NextToken>>, ![r].saved = FALSE]
        /\ Publish(r, <<>>, <<Event(r, "delta", n, <<NextToken>>)>>)
    BY <1>3 DEF Write
  <2>7. runs' = [runs EXCEPT ![r] = [runs[r] EXCEPT !.segs = [@ EXCEPT ![n] = Longer(r)], !.saved = FALSE]]
    <3> HIDE DEF n
    <3> QED
      BY <1>1, <2>4, <2>6 DEF RunStates, text
  <2> QED
    BY <1>2, <2>1, <2>5, <2>6, <2>7 DEF text
<1>4. CASE ~OpenSegment(r)
  <2>1. /\ n < MaxSegments
        /\ runs' = [runs EXCEPT ![r].segs = Append(@, Begun), ![r].saved = FALSE]
        /\ Publish(r, <<Event(r, "start", n + 1, <<>>)>>, <<Event(r, "delta", n + 1, <<NextToken>>)>>)
    BY <1>4 DEF Write, Begun
  <2>2. n + 1 \in 1..MaxSegments
    BY <1>1, <2>1
  <2>3. Begun \in Segments
    BY <1>2 DEF Begun, Segments
  <2>4. runs' = [runs EXCEPT ![r] = [runs[r] EXCEPT !.segs = Append(@, Begun), !.saved = FALSE]]
    BY <1>1, <2>1 DEF RunStates
  <2> QED
    BY <1>2, <1>4, <2>1, <2>2, <2>3, <2>4
<1> QED
  BY <1>3, <1>4

-----------------------------------------------------------------------------
(* Types: what a run writes and stores.                                    *)

LEMMA RunWithSegments ==
    ASSUME StreamTypeOK, NEW r \in Runs, runs[r].pc = "streaming",
           NEW segs \in Seq(Segments), Len(segs) <= MaxSegments, NEW saved \in BOOLEAN
    PROVE  LET run == [runs[r] EXCEPT !.segs = segs, !.saved = saved] IN
           /\ run \in RunStates /\ run.attempt \in Runs /\ Len(run.segs) <= MaxSegments
           /\ run.pc = "streaming" /\ run.segs = segs /\ run.attempt = runs[r].attempt
<1>1. runs[r] \in RunStates /\ runs[r].attempt \in Runs
  BY RunFields
<1> DEFINE run == [runs[r] EXCEPT !.segs = segs, !.saved = saved]
<1>2. run \in RunStates /\ run.pc = "streaming" /\ run.segs = segs /\ run.attempt = runs[r].attempt
  BY <1>1 DEF RunStates
<1> HIDE DEF run
<1>3. run.attempt \in Runs /\ Len(run.segs) <= MaxSegments
  BY <1>1, <1>2
<1> QED
  BY <1>2, <1>3 DEF run

LEMMA OneEvent ==
    ASSUME NEW e \in Events
    PROVE  <<e>> \in Seq(Events) /\ <<>> \in Seq(Events)
  OBVIOUS

LEMMA WriteTypes ==
    ASSUME StreamTypeOK, NEW r \in Runs, Write(r) PROVE StreamTypeOK'
<1> DEFINE n == Len(runs[r].segs)
           longer == [runs[r].segs EXCEPT ![n] = Longer(r)]
           more == Append(runs[r].segs, Begun)
<1>1. runs[r].segs \in Seq(Segments) /\ n \in Nat /\ n <= MaxSegments /\ MaxSegments \in Nat
  BY RunFields
<1>2. <<NextToken>> \in Seq(Tokens) /\ runs[r].pc = "streaming" /\ runs[r].pc # "waiting"
      /\ UNCHANGED <<deployment, task, channel>>
  BY WriteIs
<1>3. CASE /\ n \in 1..MaxSegments /\ Longer(r) \in Segments
           /\ runs' = [runs EXCEPT ![r] = [runs[r] EXCEPT !.segs = longer, !.saved = FALSE]]
           /\ Publish(r, <<>>, <<Event(r, "delta", n, <<NextToken>>)>>)
  <2>1. longer \in Seq(Segments) /\ Len(longer) = n
    BY <1>1, <1>3
  <2> DEFINE e == Event(r, "delta", n, <<NextToken>>)
             run == [runs[r] EXCEPT !.segs = longer, !.saved = FALSE]
  <2>2. e \in Events
    BY <1>2, <1>3, EventType
  <2> HIDE DEF longer, e
  <2>3. run \in RunStates /\ run.attempt \in Runs /\ Len(run.segs) <= MaxSegments
    BY <1>1, <1>2, <2>1, RunWithSegments
  <2>4. Publish(r, <<>>, <<e>>)
    BY <1>3 DEF e
  <2>5. /\ buffer' \in [Runs -> Seq(Events)] /\ outbox' \in [Runs -> Seq(Events)]
        /\ heard' \in [Runs -> Seq(Atom)] /\ ReaderOK(sse', screen')
    BY <2>2, <2>4, OneEvent, PublishType
  <2> HIDE DEF run
  <2>6. /\ runs' \in [Runs -> RunStates]
        /\ \A q \in Runs : runs'[q].pc # "waiting" => runs'[q].attempt \in Runs
        /\ \A q \in Runs : Len(runs'[q].segs) <= MaxSegments
    BY <1>3, <2>3, OneRunTypes DEF longer, run
  <2> QED
    BY <1>2, <2>5, <2>6, Unchanged, StepTypes
<1>4. CASE /\ n + 1 \in 1..MaxSegments /\ Begun \in Segments
           /\ runs' = [runs EXCEPT ![r] = [runs[r] EXCEPT !.segs = more, !.saved = FALSE]]
           /\ Publish(r, <<Event(r, "start", n + 1, <<>>)>>, <<Event(r, "delta", n + 1, <<NextToken>>)>>)
  <2>1. more \in Seq(Segments) /\ Len(more) <= MaxSegments
    BY <1>1, <1>4
  <2> DEFINE s == Event(r, "start", n + 1, <<>>)
             e == Event(r, "delta", n + 1, <<NextToken>>)
             run == [runs[r] EXCEPT !.segs = more, !.saved = FALSE]
  <2>2. e \in Events /\ s \in Events
    <3>1. <<>> \in Seq(Tokens)
      OBVIOUS
    <3> QED
      BY <1>2, <1>4, <3>1, EventType
  <2> HIDE DEF more, e, s
  <2>3. run \in RunStates /\ run.attempt \in Runs /\ Len(run.segs) <= MaxSegments
    BY <1>1, <1>2, <2>1, RunWithSegments
  <2>4. Publish(r, <<s>>, <<e>>)
    BY <1>4 DEF e, s
  <2>5. /\ buffer' \in [Runs -> Seq(Events)] /\ outbox' \in [Runs -> Seq(Events)]
        /\ heard' \in [Runs -> Seq(Atom)] /\ ReaderOK(sse', screen')
    BY <2>2, <2>4, OneEvent, PublishType
  <2> HIDE DEF run
  <2>6. /\ runs' \in [Runs -> RunStates]
        /\ \A q \in Runs : runs'[q].pc # "waiting" => runs'[q].attempt \in Runs
        /\ \A q \in Runs : Len(runs'[q].segs) <= MaxSegments
    BY <1>4, <2>3, OneRunTypes DEF more, run
  <2> QED
    BY <1>2, <2>5, <2>6, Unchanged, StepTypes
<1> QED
  BY <1>3, <1>4, WriteIs

LEMMA EndSegmentIs ==
    ASSUME StreamTypeOK, NEW r \in Runs, EndSegment(r)
    PROVE  LET n == Len(runs[r].segs) IN
           /\ runs[r].pc = "streaming" /\ n \in 1..MaxSegments /\ n \in DOMAIN runs[r].segs
           /\ runs[r].segs[n].status = "inProgress" /\ runs[r].segs[n] \in Segments
           /\ Ending(r) \in Segments /\ Ending(r).text = runs[r].segs[n].text
           /\ Ending(r).status = "completed"
           /\ runs' = [runs EXCEPT ![r] = [runs[r] EXCEPT !.segs = [@ EXCEPT ![n] = Ending(r)],
                                                          !.saved = FALSE]]
           /\ Publish(r, <<Event(r, "end", n, runs[r].segs[n].text)>>, <<>>)
           /\ UNCHANGED <<deployment, task, channel>>
<1> DEFINE n == Len(runs[r].segs)
<1>1. runs \in [Runs -> RunStates] /\ runs[r] \in RunStates /\ runs[r].segs \in Seq(Segments)
      /\ n \in Nat /\ n <= MaxSegments /\ MaxSegments \in Nat
  BY Unchanged, RunFields
<1>2. n \in 1..MaxSegments /\ n \in DOMAIN runs[r].segs /\ runs[r].segs[n].status = "inProgress"
  BY <1>1 DEF EndSegment, OpenSegment, Last
<1>3. runs[r].segs[n] \in Segments
  <2>1. \A i \in DOMAIN runs[r].segs : runs[r].segs[i] \in Segments
    BY <1>1
  <2> HIDE DEF n
  <2> QED
    BY <1>2, <2>1
<1>4. Ending(r) \in Segments /\ Ending(r).text = runs[r].segs[n].text /\ Ending(r).status = "completed"
  BY <1>3 DEF Ending, Segments
<1>5. /\ runs[r].pc = "streaming"
      /\ runs' = [runs EXCEPT ![r].segs[n].status = "completed", ![r].saved = FALSE]
      /\ Publish(r, <<Event(r, "end", n, runs[r].segs[n].text)>>, <<>>)
      /\ UNCHANGED <<deployment, task, channel>>
  BY DEF EndSegment
<1>6. runs' = [runs EXCEPT ![r] = [runs[r] EXCEPT !.segs = [@ EXCEPT ![n] = Ending(r)], !.saved = FALSE]]
  BY <1>1, <1>5 DEF RunStates, Ending
<1> QED
  BY <1>2, <1>3, <1>4, <1>5, <1>6

LEMMA EndSegmentTypes ==
    ASSUME StreamTypeOK, NEW r \in Runs, EndSegment(r) PROVE StreamTypeOK'
<1> DEFINE n == Len(runs[r].segs)
           ended == [runs[r].segs EXCEPT ![n] = Ending(r)]
           e == Event(r, "end", n, runs[r].segs[n].text)
           run == [runs[r] EXCEPT !.segs = ended, !.saved = FALSE]
<1>1. runs[r].segs \in Seq(Segments) /\ n \in Nat /\ n <= MaxSegments /\ MaxSegments \in Nat
  BY RunFields
<1>2. /\ runs[r].pc = "streaming" /\ n \in 1..MaxSegments /\ n \in DOMAIN runs[r].segs
      /\ runs[r].segs[n] \in Segments /\ Ending(r) \in Segments
      /\ runs' = [runs EXCEPT ![r] = run] /\ Publish(r, <<e>>, <<>>)
      /\ UNCHANGED <<deployment, task, channel>>
  BY EndSegmentIs
<1>3. ended \in Seq(Segments) /\ Len(ended) <= MaxSegments
  BY <1>1, <1>2
<1>4. e \in Events
  <2>1. runs[r].segs[n].text \in Seq(Tokens) /\ runs[r].pc # "waiting"
    BY <1>2 DEF Segments
  <2> QED
    BY <1>2, <2>1, EventType
<1> HIDE DEF ended, e
<1>5. run \in RunStates /\ run.attempt \in Runs /\ Len(run.segs) <= MaxSegments
  BY <1>1, <1>2, <1>3, RunWithSegments
<1>6. /\ buffer' \in [Runs -> Seq(Events)] /\ outbox' \in [Runs -> Seq(Events)]
      /\ heard' \in [Runs -> Seq(Atom)] /\ ReaderOK(sse', screen')
  BY <1>2, <1>4, OneEvent, PublishType
<1> HIDE DEF run
<1>7. /\ runs' \in [Runs -> RunStates]
      /\ \A q \in Runs : runs'[q].pc # "waiting" => runs'[q].attempt \in Runs
      /\ \A q \in Runs : Len(runs'[q].segs) <= MaxSegments
  BY <1>2, <1>5, OneRunTypes
<1> QED
  BY <1>2, <1>6, <1>7, Unchanged, StepTypes

LEMMA StoreSegmentsType ==
    ASSUME StreamTypeOK, NEW r \in Runs, runs[r].pc = "streaming"
    PROVE  StoreSegments(r) \in ItemMaps
<1> DEFINE ids == {SegmentItem(runs[r].attempt, i) : i \in DOMAIN runs[r].segs}
           all == [id \in DOMAIN task.events \cup ids |->
                      IF id \in ids THEN runs[r].segs[id[2]] ELSE task.events[id]]
<1>1. runs[r].segs \in Seq(Segments) /\ Len(runs[r].segs) \in Nat /\ Len(runs[r].segs) <= MaxSegments
      /\ MaxSegments \in Nat /\ runs[r].attempt \in Runs
  BY RunFields
<1>2. ASSUME NEW id \in ids PROVE id \in Ids /\ runs[r].segs[id[2]] \in Segments
  <2>1. PICK i \in DOMAIN runs[r].segs : id = <<runs[r].attempt, i>>
    BY DEF SegmentItem
  <2>2. i \in 0..MaxSegments /\ id[2] = i
    BY <1>1, <2>1
  <2> QED
    BY <1>1, <2>1, <2>2 DEF Ids
<1>3. DOMAIN task.events \subseteq Ids /\ \A id \in DOMAIN task.events : task.events[id] \in Segments
  <2>1. task.events \in ItemMaps
    BY Unchanged DEF Tasks
  <2> QED
    BY <2>1, ItemMapIs
<1>4. StoreSegments(r) = all
  BY DEF StoreSegments
<1> HIDE DEF ids
<1>5. DOMAIN all \subseteq Ids /\ all = [x \in DOMAIN all |-> all[x]]
  BY <1>2, <1>3
<1>6. \A id \in DOMAIN all : all[id] \in Segments
  BY <1>2, <1>3
<1> HIDE DEF all
<1> QED
  BY <1>4, <1>5, <1>6, ItemMapIs

LEMMA CheckpointTypes ==
    ASSUME StreamTypeOK, NEW r \in Runs, Checkpoint(r) PROVE StreamTypeOK'
<1> DEFINE run == [runs[r] EXCEPT !.saved = TRUE]
           text == RunText(r)
           events == StoreSegments(r)
<1>1. runs[r].segs \in Seq(Segments) /\ runs[r].base \in Seq(Tokens) /\ runs[r] \in RunStates
      /\ runs[r].attempt \in Runs /\ Len(runs[r].segs) <= MaxSegments /\ runs[r].pc = "streaming"
  BY RunFields DEF Checkpoint
<1>2. text \in Seq(Tokens)
  BY <1>1, SegmentTexts, Concat DEF RunText
<1>3. events \in ItemMaps
  BY <1>1, StoreSegmentsType
<1>4. runs' = [runs EXCEPT ![r] = run]
  <2>1. runs \in [Runs -> RunStates]
    BY Unchanged
  <2> QED
    BY <1>1, <2>1 DEF Checkpoint, RunStates
<1>5. run \in RunStates /\ run.attempt \in Runs /\ Len(run.segs) <= MaxSegments
  BY <1>1 DEF RunStates
<1>6. UNCHANGED <<deployment, buffer, outbox, channel, heard, sse, screen>>
      /\ (task' = task \/ task' = [task EXCEPT !.partial = text, !.events = events])
  BY DEF Checkpoint, wireVars
<1> HIDE DEF run, text, events
<1>7. task' \in Tasks /\ task'.attempt <= task'.gen
  BY <1>2, <1>3, <1>6, Unchanged DEF Tasks
<1>8. /\ runs' \in [Runs -> RunStates]
      /\ \A q \in Runs : runs'[q].pc # "waiting" => runs'[q].attempt \in Runs
      /\ \A q \in Runs : Len(runs'[q].segs) <= MaxSegments
  BY <1>4, <1>5, OneRunTypes
<1> QED
  BY <1>6, <1>7, <1>8, Unchanged, StepTypes

LEMMA OverRun ==
    ASSUME StreamTypeOK, NEW r \in Runs, runs[r].pc = "streaming",
           runs' = [runs EXCEPT ![r].pc = "over"]
    PROVE  /\ runs' \in [Runs -> RunStates]
           /\ \A q \in Runs : runs'[q].pc # "waiting" => runs'[q].attempt \in Runs
           /\ \A q \in Runs : Len(runs'[q].segs) <= MaxSegments
<1> DEFINE run == [runs[r] EXCEPT !.pc = "over"]
<1>1. runs[r] \in RunStates /\ runs[r].attempt \in Runs /\ Len(runs[r].segs) <= MaxSegments
  BY RunFields
<1>2. runs' = [runs EXCEPT ![r] = run]
  BY Unchanged
<1>3. run \in RunStates /\ run.attempt \in Runs /\ Len(run.segs) <= MaxSegments
  BY <1>1 DEF RunStates
<1> HIDE DEF run
<1> QED
  BY <1>2, <1>3, OneRunTypes

LEMMA FinishTypes ==
    ASSUME StreamTypeOK, NEW r \in Runs, Finish(r) PROVE StreamTypeOK'
<1>1. /\ runs' \in [Runs -> RunStates]
      /\ \A q \in Runs : runs'[q].pc # "waiting" => runs'[q].attempt \in Runs
      /\ \A q \in Runs : Len(runs'[q].segs) <= MaxSegments
  BY OverRun DEF Finish
<1>2. UNCHANGED <<deployment, buffer, outbox, channel, heard, sse, screen>>
  BY DEF Finish, wireVars
<1>3. task \in Tasks /\ task.gen \in Runs /\ task.attempt \in Runs /\ task.attempt <= task.gen
      /\ <<>> \in Seq(Tokens)
  BY Unchanged DEF Tasks
<1>4. CASE UNCHANGED task
  BY <1>1, <1>2, <1>4, Unchanged, StepTypes
<1>5. CASE \E streamed \in {FALSE, runs[r].segs # <<>>} :
              task' = [task EXCEPT !.status = "completed", !.streamed = streamed]
  <2>1. PICK streamed \in BOOLEAN : task' = [task EXCEPT !.status = "completed", !.streamed = streamed]
    BY <1>5
  <2>2. task' \in Tasks /\ task'.attempt <= task'.gen
    BY <1>3, <2>1 DEF Tasks
  <2> QED
    BY <1>1, <1>2, <2>2, Unchanged, StepTypes
<1>6. CASE /\ task.gen < MaxRuns
           /\ task' = [task EXCEPT !.status = "queued", !.gen = @ + 1, !.attempt = @ + 1, !.partial = <<>>]
  <2> DEFINE g == task.gen + 1
             a == task.attempt + 1
  <2>1. g \in Runs /\ a \in Runs /\ a <= g
    <3>1. MaxRuns \in Nat
      BY Bounds, Unchanged
    <3> QED
      BY <1>3, <1>6, <3>1 DEF Runs
  <2>2. task' = [task EXCEPT !.status = "queued", !.gen = g, !.attempt = a, !.partial = <<>>]
    BY <1>3, <1>6 DEF Tasks
  <2> HIDE DEF g, a
  <2>3. task' \in Tasks /\ task'.attempt <= task'.gen
    BY <1>3, <2>1, <2>2 DEF Tasks
  <2> QED
    BY <1>1, <1>2, <2>3, Unchanged, StepTypes
<1> QED
  BY <1>4, <1>5, <1>6 DEF Finish

-----------------------------------------------------------------------------
(* Types: messages and the reader.                                         *)

LEMMA WorkerDiesTypes ==
    ASSUME StreamTypeOK, NEW r \in Runs, WorkerDies(r) PROVE StreamTypeOK'
<1>1. /\ runs' \in [Runs -> RunStates]
      /\ \A q \in Runs : runs'[q].pc # "waiting" => runs'[q].attempt \in Runs
      /\ \A q \in Runs : Len(runs'[q].segs) <= MaxSegments
  BY OverRun DEF WorkerDies
<1>2. buffer' \in [Runs -> Seq(Events)] /\ outbox' \in [Runs -> Seq(Events)]
  <2>1. <<>> \in Seq(Events)
    OBVIOUS
  <2> QED
    BY <2>1, Unchanged DEF WorkerDies
<1>3. UNCHANGED <<deployment, task, channel, heard, sse, screen>>
  BY DEF WorkerDies
<1> QED
  BY <1>1, <1>2, <1>3, Unchanged, StepTypes

LEMMA FlushTickTypes ==
    ASSUME StreamTypeOK, NEW r \in Runs, FlushTick(r) PROVE StreamTypeOK'
<1>1. /\ buffer' = [buffer EXCEPT ![r] = <<>>] /\ Send(r, buffer[r])
      /\ UNCHANGED <<deployment, task, runs, channel>>
  BY DEF FlushTick, storeVars
<1>2. buffer' \in [Runs -> Seq(Events)] /\ buffer[r] \in Seq(Events)
  <2>1. <<>> \in Seq(Events)
    OBVIOUS
  <2> QED
    BY <1>1, <2>1, Unchanged
<1>3. outbox' \in [Runs -> Seq(Events)] /\ heard' \in [Runs -> Seq(Atom)] /\ ReaderOK(sse', screen')
  BY <1>1, <1>2, SendType
<1> QED
  BY <1>1, <1>2, <1>3, Unchanged, StepTypes

LEMMA PublishMessageTypes ==
    ASSUME StreamTypeOK, NEW r \in Runs, PublishMessage(r) PROVE StreamTypeOK'
<1>1. /\ outbox[r] # <<>> /\ outbox' = [outbox EXCEPT ![r] = <<>>]
      /\ channel' = Append(channel, outbox[r]) \/ UNCHANGED channel
      /\ UNCHANGED <<deployment, task, runs, buffer, heard, sse, screen>>
  BY DEF PublishMessage, storeVars
<1>2. outbox' \in [Runs -> Seq(Events)] /\ outbox[r] \in Seq(Events)
  <2>1. <<>> \in Seq(Events)
    OBVIOUS
  <2> QED
    BY <1>1, <2>1, Unchanged
<1>3. channel' \in Seq(Seq(Events)) /\ \A i \in DOMAIN channel' : channel'[i] # << >>
  <2>1. CASE UNCHANGED channel
    BY <2>1, Unchanged
  <2>2. CASE channel' = Append(channel, outbox[r])
    <3> DEFINE S == Seq(Events)
               m == outbox[r]
    <3>1. channel \in Seq(S) /\ m \in S /\ m # <<>> /\ \A i \in DOMAIN channel : channel[i] # << >>
      BY <1>1, <1>2, Unchanged
    <3> HIDE DEF S, m
    <3>2. /\ Len(channel) \in Nat /\ Append(channel, m) \in Seq(S)
          /\ Len(Append(channel, m)) = Len(channel) + 1
          /\ Append(channel, m)[Len(channel) + 1] = m
          /\ \A i \in 1..Len(channel) : Append(channel, m)[i] = channel[i]
      BY <3>1, AppendIs
    <3>3. DOMAIN Append(channel, m) = 1..(Len(channel) + 1) /\ DOMAIN channel = 1..Len(channel)
      BY <3>1, <3>2
    <3>4. \A i \in 1..(Len(channel) + 1) : i \in 1..Len(channel) \/ i = Len(channel) + 1
      BY <3>2
    <3>5. \A i \in DOMAIN Append(channel, m) : Append(channel, m)[i] # << >>
      BY <3>1, <3>2, <3>3, <3>4
    <3> QED
      BY <2>2, <3>2, <3>5 DEF S, m
  <2> QED
    BY <1>1, <2>1, <2>2
<1> QED
  BY <1>1, <1>2, <1>3, Unchanged, StepTypes

LEMMA FirstMessage ==
    ASSUME StreamTypeOK, channel # <<>>
    PROVE  /\ Head(channel) \in Seq(Events) /\ Head(channel) # <<>> /\ Head(channel)[1] \in Events
           /\ Head(channel)[1].run \in Runs
           /\ Tail(channel) \in Seq(Seq(Events)) /\ \A i \in DOMAIN Tail(channel) : Tail(channel)[i] # << >>
<1> DEFINE S == Seq(Events)
<1>1. channel \in Seq(S) /\ \A i \in DOMAIN channel : channel[i] # << >>
  BY Unchanged
<1> HIDE DEF S
<1>2. /\ Head(channel) = channel[1] /\ 1 \in DOMAIN channel /\ channel[1] \in S /\ Tail(channel) \in Seq(S)
      /\ Len(Tail(channel)) = Len(channel) - 1 /\ Len(channel) \in Nat
      /\ DOMAIN channel = 1..Len(channel) /\ DOMAIN Tail(channel) = 1..(Len(channel) - 1)
  BY <1>1
<1>3. \A i \in DOMAIN Tail(channel) : Tail(channel)[i] = channel[i + 1] /\ i + 1 \in DOMAIN channel
  BY <1>1, <1>2
<1>4. channel[1] \in Seq(Events) /\ channel[1] # <<>>
  BY <1>1, <1>2 DEF S
<1>5. channel[1][1] \in Events
  BY <1>4
<1>6. channel[1][1].run \in Runs
  BY <1>5 DEF Events
<1> QED
  BY <1>1, <1>2, <1>3, <1>4, <1>5, <1>6 DEF S

LEMMA BridgeMessageTypes ==
    ASSUME StreamTypeOK, BridgeMessage PROVE StreamTypeOK'
<1>1. /\ channel # <<>> /\ channel' = Tail(channel) /\ Emit(Head(channel)[1].run, Head(channel))
      /\ UNCHANGED <<deployment, task, runs, buffer, outbox>>
  BY DEF BridgeMessage, storeVars
<1>2. channel' \in Seq(Seq(Events)) /\ \A i \in DOMAIN channel' : channel'[i] # << >>
  BY <1>1, FirstMessage
<1>3. heard' \in [Runs -> Seq(Atom)] /\ ReaderOK(sse', screen')
  BY <1>1, FirstMessage, EmitType
<1> QED
  BY <1>1, <1>2, <1>3, Unchanged, StepTypes

LEMMA ConnectTypes ==
    ASSUME StreamTypeOK, Connect PROVE StreamTypeOK'
<1> DEFINE segmented == HasSegments(task, task.attempt)
<1>1. /\ sse' = [Closed EXCEPT !.pc = "reading", !.gen = task.gen, !.segmented = segmented]
      /\ UNCHANGED <<deployment, task, runs, buffer, outbox, channel, heard, screen>>
  BY DEF Connect, storeVars, wireVars
<1>2. segmented \in BOOLEAN
  BY DEF HasSegments
<1>3. task.gen \in 0..MaxRuns /\ 0 \in 0..MaxRuns /\ <<>> \in Seq(Events)
  <2>1. task.gen \in Runs
    BY Unchanged DEF Tasks
  <2> QED
    BY <2>1, Bounds, Unchanged
<1>4. <<>> \in VersionMaps
  <2>1. DOMAIN <<>> = {} /\ <<>> = [x \in DOMAIN <<>> |-> <<>>[x]]
    OBVIOUS
  <2> QED
    BY <2>1, VersionMapIs
<1> HIDE DEF segmented
<1>5. Closed \in Routes /\ Closed.ready = FALSE
  BY <1>3, <1>4 DEF Closed, Routes
<1>6. sse' \in Routes /\ sse'.ready = FALSE /\ sse'.pc = "reading"
  BY <1>1, <1>2, <1>3, <1>5 DEF Routes
<1>7. screen \in ItemMaps
  BY Unchanged, ConnectionIs DEF ReaderOK
<1>8. ReaderOK(sse', screen')
  BY <1>1, <1>6, <1>7, ConnectionIs DEF ReaderOK
<1> QED
  BY <1>1, <1>8, Unchanged, StepTypes

LEMMA PollReadTypes ==
    ASSUME StreamTypeOK, PollRead PROVE StreamTypeOK'
<1>1. /\ sse' = [sse EXCEPT !.pc = "handling", !.seen = task]
      /\ UNCHANGED <<deployment, task, runs, buffer, outbox, channel, heard, screen>>
  BY DEF PollRead, storeVars, wireVars
<1>2. sse \in Routes /\ screen \in ItemMaps /\ (sse.ready => sse.attempt \in Runs) /\ task \in Tasks
  BY Unchanged, ConnectionIs DEF ReaderOK
<1>3. sse' \in Routes /\ sse'.ready = sse.ready /\ sse'.attempt = sse.attempt /\ sse'.seen = task
  BY <1>1, <1>2 DEF Routes
<1>4. ReaderOK(sse', screen')
  BY <1>1, <1>2, <1>3, ConnectionIs DEF ReaderOK
<1> QED
  BY <1>1, <1>4, Unchanged, StepTypes

LEMMA PollHandleTypes ==
    ASSUME StreamTypeOK, PollHandle PROVE StreamTypeOK'
<1> DEFINE c0 == [sse |-> [sse EXCEPT !.gen = sse.seen.gen], screen |-> screen]
           c1 == StartTurn(c0)
           c2 == ChangeAttempt(c1)
           c3 == SendWholeText(c2)
           c4 == Drain(c3)
           c5 == SendItems(c4)
           end == IF Ended(sse) THEN "done" ELSE "reading"
<1>1. /\ sse.pc = "handling" /\ UNCHANGED <<deployment, task, runs, buffer, outbox, channel, heard>>
      /\ \E c \in {UpdateTurn(c5), c5} :
            sse' = [c.sse EXCEPT !.pc = end, !.seen = NoTask] /\ screen' = c.screen
  BY DEF PollHandle, storeVars, wireVars
<1>2. deployment \in Deployments
  BY Unchanged
<1>3. Polling(c0)
  <2> DEFINE g == sse.seen.gen
             s == [sse EXCEPT !.gen = g]
  <2>1. sse \in Routes /\ screen \in ItemMaps /\ (sse.ready => sse.attempt \in Runs) /\ sse.seen \in Tasks
    BY <1>1, Unchanged, ConnectionIs DEF ReaderOK
  <2>2. g \in 0..MaxRuns
    <3>1. g \in Runs
      BY <2>1 DEF Tasks
    <3> QED
      BY <1>2, <3>1, Bounds
  <2> HIDE DEF g
  <2>3. s \in Routes /\ s.ready = sse.ready /\ s.attempt = sse.attempt /\ s.seen = sse.seen
    BY <2>1, <2>2 DEF Routes
  <2>4. c0 = [sse |-> s, screen |-> screen]
    BY DEF g
  <2> HIDE DEF s, c0
  <2>5. c0 \in Connections /\ c0.sse = s
    BY <2>1, <2>3, <2>4, ConnectionIs
  <2> QED
    BY <2>1, <2>3, <2>5 DEF Polling
<1> HIDE DEF c0
<1>4. OpenPolling(c1)
  BY <1>2, <1>3, StartTurnType
<1> HIDE DEF c1
<1>5. OpenPolling(c2)
  BY <1>2, <1>4, ChangeAttemptType
<1> HIDE DEF c2
<1>6. OpenPolling(c3)
  BY <1>2, <1>5, SendWholeTextType
<1> HIDE DEF c3
<1>7. OpenPolling(c4)
  BY <1>2, <1>6, DrainType
<1> HIDE DEF c4
<1>8. OpenPolling(c5)
  BY <1>2, <1>7, SendItemsType
<1> HIDE DEF c5
<1>9. OpenPolling(UpdateTurn(c5))
  BY <1>2, <1>8, UpdateTurnType
<1>10. PICK c : OpenPolling(c) /\ sse' = [c.sse EXCEPT !.pc = end, !.seen = NoTask] /\ screen' = c.screen
  BY <1>1, <1>8, <1>9
<1>11. c.sse \in Routes /\ c.screen \in ItemMaps /\ c.sse.attempt \in Runs
  BY <1>10, PollingParts
<1>12. end \in {"done", "reading"}
  OBVIOUS
<1> HIDE DEF end
<1>13. sse' \in Routes /\ sse'.pc = end /\ sse'.attempt = c.sse.attempt
  BY <1>10, <1>11, <1>12 DEF Routes
<1>14. ReaderOK(sse', screen')
  BY <1>10, <1>11, <1>12, <1>13, ConnectionIs DEF ReaderOK
<1> QED
  BY <1>1, <1>14, Unchanged, StepTypes

LEMMA StepKeepsTypes ==
    ASSUME StreamTypeOK, [Next]_vars PROVE StreamTypeOK'
<1>1. CASE UNCHANGED vars
  <2>1. UNCHANGED <<deployment, task, runs, buffer, outbox, channel, heard, sse, screen>>
    BY <1>1 DEF vars, storeVars, wireVars
  <2> QED
    BY <2>1, Unchanged, StepTypes
<1>2. CASE Claim
  BY <1>2, ClaimTypes
<1>3. CASE TakeOver
  BY <1>3, TakeOverTypes
<1>4. CASE \E r \in Runs : RunStep(r) \/ WorkerDies(r) \/ WireStep(r)
  BY <1>4, WriteTypes, EndSegmentTypes, CheckpointTypes, FinishTypes, WorkerDiesTypes,
     FlushTickTypes, PublishMessageTypes DEF RunStep, WireStep
<1>5. CASE BridgeMessage
  BY <1>5, BridgeMessageTypes
<1>6. CASE Connect \/ PollRead \/ PollHandle
  BY <1>6, ConnectTypes, PollReadTypes, PollHandleTypes
<1> QED
  BY <1>1, <1>2, <1>3, <1>4, <1>5, <1>6 DEF Next

LEMMA StreamTypesImply == StreamTypeOK => TypeOK
<1> SUFFICES ASSUME StreamTypeOK PROVE TypeOK
  OBVIOUS
<1>1. /\ task.status \in {"queued", "running", "completed"}
      /\ task.gen \in Runs /\ task.attempt \in 1..task.gen /\ task.streamed \in BOOLEAN
      /\ task.partial \in Seq(Tokens) /\ task.events \in ItemMaps
  <2>1. /\ task.status \in {"queued", "running", "completed"}
        /\ task.gen \in Runs /\ task.attempt \in Runs /\ task.streamed \in BOOLEAN
        /\ task.partial \in Seq(Tokens) /\ task.events \in ItemMaps
    BY Unchanged DEF Tasks
  <2>2. task.attempt <= task.gen
    BY Unchanged
  <2>3. MaxRuns \in Nat
    BY Bounds, Unchanged
  <2> QED
    BY <2>1, <2>2, <2>3 DEF Runs
<1>2. \A items \in ItemMaps : DOMAIN items \subseteq Ids /\ Range(items) \subseteq Segments
  BY ItemMapIs DEF Range
<1>3. \A r \in Runs :
        /\ runs[r].pc \in {"waiting", "streaming", "over"} /\ runs[r].saved \in BOOLEAN
        /\ runs[r].base \in Seq(Tokens) /\ runs[r].segs \in Seq(Segments)
        /\ runs[r].found \subseteq Ids
        /\ buffer[r] \in Seq(Events) /\ outbox[r] \in Seq(Events)
  BY Unchanged, RunFields DEF RunStates
<1>4. sse.pc \in {"closed", "reading", "handling", "done"} /\ sse.pending \in Seq(Events)
      /\ screen \in ItemMaps
  <2>1. sse \in Routes /\ screen \in ItemMaps
    BY Unchanged, ConnectionIs DEF ReaderOK
  <2> QED
    BY <2>1 DEF Routes
<1> QED
  BY <1>1, <1>2, <1>3, <1>4, Unchanged DEF TypeOK

\* Every variable of the stream holds what the code keeps in it: the stored task and the
\* segments of its runs (executeWritingTask), the events buffered, batched and published
\* (task-stream.mjs), the locals of the turn's route and the items its client has folded.
THEOREM StreamTypeCorrect == SafetySpec => []TypeOK
<1>1. StreamTypeOK /\ [Next]_vars => StreamTypeOK'
  BY StepKeepsTypes
<1> QED
  BY <1>1, InitTypes, StreamTypesImply, PTL DEF SafetySpec

-----------------------------------------------------------------------------
(* What a run says of its segments.                                        *)

LEMMA PublishedIs == \A r : Published(r) = SaidOf(runs[r].segs)
  BY DEF Published, SaidOf, Said, Deltas, EndOf

LEMMA OneAtom ==
    ASSUME NEW phase \in {"start", "delta", "end"}, NEW i \in Nat, NEW t \in Nat
    PROVE  <<<<phase, i, t>>>> \in Seq(Atom)
<1> DEFINE a == <<phase, i, t>>
<1>1. a \in Atom
  BY DEF Atom
<1> HIDE DEF a
<1>2. <<a>> \in Seq(Atom)
  BY <1>1
<1> QED
  BY <1>2 DEF a

LEMMA DeltasType ==
    ASSUME NEW i \in Nat, NEW text \in Seq(Nat)
    PROVE  Deltas(i, text) \in Seq(Atom)
<1> DEFINE n == Len(text)
           atoms == [k \in 1..n |-> <<"delta", i, text[k]>>]
<1>1. n \in Nat /\ DOMAIN text = 1..n /\ \A k \in 1..n : text[k] \in Nat
  OBVIOUS
<1>2. \A k \in 1..n : <<"delta", i, text[k]>> \in Atom
  BY <1>1 DEF Atom
<1>3. Deltas(i, text) = atoms
  BY <1>1 DEF Deltas
<1> HIDE DEF n
<1>4. atoms \in Seq(Atom)
  BY <1>1, <1>2
<1> QED
  BY <1>3, <1>4

LEMMA DeltasOfConcat ==
    ASSUME NEW i \in Nat, NEW s \in Seq(Nat), NEW t \in Seq(Nat)
    PROVE  Deltas(i, s \o t) = Deltas(i, s) \o Deltas(i, t)
<1> DEFINE both == s \o t
           d == Deltas(i, both)
           e == Deltas(i, s) \o Deltas(i, t)
<1>1. /\ both \in Seq(Nat) /\ Len(both) = Len(s) + Len(t) /\ Len(s) \in Nat /\ Len(t) \in Nat
      /\ DOMAIN s = 1..Len(s) /\ DOMAIN t = 1..Len(t) /\ DOMAIN both = 1..(Len(s) + Len(t))
  OBVIOUS
<1>2. /\ d \in Seq(Atom) /\ Deltas(i, s) \in Seq(Atom) /\ Deltas(i, t) \in Seq(Atom)
  BY <1>1, DeltasType
<1>3. /\ DOMAIN d = 1..(Len(s) + Len(t)) /\ DOMAIN Deltas(i, s) = 1..Len(s)
      /\ DOMAIN Deltas(i, t) = 1..Len(t)
  BY <1>1 DEF Deltas
<1>4. Len(d) = Len(s) + Len(t) /\ Len(Deltas(i, s)) = Len(s) /\ Len(Deltas(i, t)) = Len(t)
  <2> HIDE DEF d
  <2> QED
    BY <1>1, <1>2, <1>3
<1>5. e \in Seq(Atom) /\ Len(e) = Len(s) + Len(t)
  <2> SUFFICES ASSUME NEW u \in Seq(Atom), u = Deltas(i, s), NEW v \in Seq(Atom), v = Deltas(i, t)
               PROVE  u \o v \in Seq(Atom) /\ Len(u \o v) = Len(s) + Len(t)
    BY <1>2
  <2>1. Len(u) = Len(s) /\ Len(v) = Len(t)
    BY <1>4
  <2>2. u \o v \in Seq(Atom) /\ Len(u \o v) = Len(u) + Len(v)
    BY Concat
  <2> QED
    BY <2>1, <2>2
<1>6. ASSUME NEW k \in 1..(Len(s) + Len(t)) PROVE d[k] = e[k]
  <2>1. d[k] = <<"delta", i, both[k]>>
    BY <1>1 DEF Deltas
  <2>2. CASE k <= Len(s)
    <3>1. k \in 1..Len(s) /\ both[k] = s[k]
      BY <1>1, <2>2
    <3>2. e[k] = Deltas(i, s)[k]
      BY <1>2, <1>4, <3>1
    <3>3. Deltas(i, s)[k] = <<"delta", i, s[k]>>
      BY <1>1, <3>1 DEF Deltas
    <3> QED
      BY <2>1, <3>1, <3>2, <3>3
  <2>3. CASE ~(k <= Len(s))
    <3>1. k - Len(s) \in 1..Len(t) /\ both[k] = t[k - Len(s)]
      BY <1>1, <2>3
    <3>2. e[k] = Deltas(i, t)[k - Len(s)]
      BY <1>1, <1>2, <1>4, <2>3
    <3>3. Deltas(i, t)[k - Len(s)] = <<"delta", i, t[k - Len(s)]>>
      BY <1>1, <3>1 DEF Deltas
    <3> QED
      BY <2>1, <3>1, <3>2, <3>3
  <2> QED
    BY <2>2, <2>3
<1> HIDE DEF d, e
<1>7. d = e
  BY <1>2, <1>4, <1>5, <1>6, SameSeq
<1> QED
  BY <1>7 DEF d, e

LEMMA SaidType ==
    ASSUME deployment \in Deployments, NEW i \in Nat, NEW seg \in Segments
    PROVE  /\ seg.text \in Seq(Nat) /\ seg.text \in Seq(Tokens)
           /\ EndOf(i, seg) \in Seq(Atom) /\ Said(i, seg) \in Seq(Atom)
           /\ <<<<"start", i, 0>>>> \in Seq(Atom) /\ Deltas(i, seg.text) \in Seq(Atom)
<1>1. seg.text \in Seq(Tokens) /\ Tokens \subseteq Nat
  <2>1. seg.text \in Seq(Tokens) /\ MaxTokens \in Nat
    BY Bounds DEF Segments
  <2> QED
    BY <2>1 DEF Tokens
<1>2. seg.text \in Seq(Nat)
  BY <1>1, WiderSeq
<1>3. <<<<"start", i, 0>>>> \in Seq(Atom) /\ <<<<"end", i, 0>>>> \in Seq(Atom) /\ <<>> \in Seq(Atom)
  BY OneAtom
<1>4. EndOf(i, seg) \in Seq(Atom) /\ Deltas(i, seg.text) \in Seq(Atom)
  BY <1>2, <1>3, DeltasType DEF EndOf
<1>5. <<<<"start", i, 0>>>> \o Deltas(i, seg.text) \in Seq(Atom)
  BY <1>3, <1>4, Concat
<1>6. Said(i, seg) \in Seq(Atom)
  BY <1>4, <1>5, Concat DEF Said
<1> QED
  BY <1>1, <1>2, <1>3, <1>4, <1>6

LEMMA SaidSeqs ==
    ASSUME deployment \in Deployments, NEW segs \in Seq(Segments)
    PROVE  /\ [i \in DOMAIN segs |-> Said(i, segs[i])] \in Seq(Seq(Atom))
           /\ Len([i \in DOMAIN segs |-> Said(i, segs[i])]) = Len(segs)
           /\ \A i \in 1..Len(segs) : [j \in DOMAIN segs |-> Said(j, segs[j])][i] = Said(i, segs[i])
           /\ SaidOf(segs) \in Seq(Atom)
<1> DEFINE n == Len(segs)
           seqs == [i \in 1..n |-> Said(i, segs[i])]
           S == Seq(Atom)
<1>1. n \in Nat /\ DOMAIN segs = 1..n /\ \A i \in 1..n : segs[i] \in Segments
  OBVIOUS
<1>2. ASSUME NEW i \in 1..n PROVE Said(i, segs[i]) \in S
  <2>1. i \in Nat /\ segs[i] \in Segments
    BY <1>1
  <2> QED
    BY <2>1, SaidType
<1>3. seqs = [i \in DOMAIN segs |-> Said(i, segs[i])]
  BY <1>1
<1> HIDE DEF n, S
<1>4. seqs \in Seq(S) /\ Len(seqs) = n /\ \A i \in 1..n : seqs[i] = Said(i, segs[i])
  BY <1>1, <1>2
<1>5. SaidOf(segs) = FlattenSeq(seqs)
  BY <1>3 DEF SaidOf
<1> HIDE DEF seqs
<1>6. SaidOf(segs) \in Seq(Atom)
  BY <1>4, <1>5, FlattenType DEF S
<1> QED
  BY <1>3, <1>4, <1>6 DEF n, S

LEMMA SaidOfNone == SaidOf(<< >>) = << >>
<1>1. [i \in DOMAIN << >> |-> Said(i, << >>[i])] = << >>
  OBVIOUS
<1> QED
  BY <1>1, FlattenEmpty DEF SaidOf

LEMMA SaidOfAppend ==
    ASSUME deployment \in Deployments, NEW segs \in Seq(Segments), NEW seg \in Segments
    PROVE  SaidOf(Append(segs, seg)) = SaidOf(segs) \o Said(Len(segs) + 1, seg)
<1> DEFINE more == Append(segs, seg)
           one == [i \in DOMAIN segs |-> Said(i, segs[i])]
           all == [i \in DOMAIN more |-> Said(i, more[i])]
           S == Seq(Atom)
           last == Said(Len(segs) + 1, seg)
<1>1. /\ Len(segs) \in Nat /\ more \in Seq(Segments) /\ Len(more) = Len(segs) + 1
      /\ more[Len(segs) + 1] = seg /\ \A i \in 1..Len(segs) : more[i] = segs[i]
  BY AppendIs
<1> HIDE DEF more
<1>2. one \in Seq(S) /\ Len(one) = Len(segs) /\ \A i \in 1..Len(segs) : one[i] = Said(i, segs[i])
  BY SaidSeqs
<1>3. all \in Seq(S) /\ Len(all) = Len(more) /\ \A i \in 1..Len(more) : all[i] = Said(i, more[i])
  BY <1>1, SaidSeqs
<1>4. last \in S
  <2>1. Len(segs) + 1 \in Nat
    BY <1>1
  <2> QED
    BY <2>1, SaidType
<1>5. SaidOf(segs) = FlattenSeq(one) /\ SaidOf(more) = FlattenSeq(all)
  BY DEF SaidOf
<1>6. all = Append(one, last)
  <2> HIDE DEF one, all, S
  <2>1. /\ Append(one, last) \in Seq(S) /\ Len(Append(one, last)) = Len(segs) + 1
        /\ Append(one, last)[Len(segs) + 1] = last
        /\ \A i \in 1..Len(segs) : Append(one, last)[i] = one[i]
    <3> HIDE DEF last
    <3> QED
      BY <1>2, <1>4, AppendIs
  <2>2. \A i \in 1..Len(more) : all[i] = Append(one, last)[i]
    <3> SUFFICES ASSUME NEW i \in 1..Len(more) PROVE all[i] = Append(one, last)[i]
      OBVIOUS
    <3>1. i \in 1..Len(segs) \/ i = Len(segs) + 1
      BY <1>1
    <3> QED
      BY <1>1, <1>2, <1>3, <2>1, <3>1
  <2> HIDE DEF last
  <2> QED
    BY <1>1, <1>3, <2>1, <2>2, SameSeq
<1> HIDE DEF one, all, last
<1>7. FlattenSeq(Append(one, last)) = FlattenSeq(one) \o last
  BY <1>2, <1>4, FlattenAppend
<1> QED
  BY <1>5, <1>6, <1>7 DEF more, last

LEMMA SaidWithLast ==
    ASSUME deployment \in Deployments, NEW segs \in Seq(Segments), segs # <<>>,
           NEW seg \in Segments, NEW extra \in Seq(Atom),
           Said(Len(segs), seg) = Said(Len(segs), segs[Len(segs)]) \o extra
    PROVE  SaidOf([segs EXCEPT ![Len(segs)] = seg]) = SaidOf(segs) \o extra
<1> DEFINE n == Len(segs)
           changed == [segs EXCEPT ![n] = seg]
<1>1. PICK front \in Seq(Segments), last \in Segments :
        /\ segs = Append(front, last) /\ Len(front) = n - 1 /\ last = segs[n]
        /\ \A i \in 1..Len(front) : front[i] = segs[i]
  BY FrontAndLast
<1>2. n \in Nat /\ n # 0 /\ Len(front) \in Nat /\ Len(front) + 1 = n
  BY <1>1
<1>3. changed \in Seq(Segments) /\ Len(changed) = n /\ \A i \in 1..n : changed[i] = IF i = n THEN seg ELSE segs[i]
  BY <1>2
<1>4. changed = Append(front, seg)
  <2>1. /\ Append(front, seg) \in Seq(Segments) /\ Len(Append(front, seg)) = Len(front) + 1
        /\ Append(front, seg)[Len(front) + 1] = seg
        /\ \A i \in 1..Len(front) : Append(front, seg)[i] = front[i]
    BY AppendIs
  <2> HIDE DEF changed
  <2>2. \A i \in 1..Len(changed) : changed[i] = Append(front, seg)[i]
    <3> SUFFICES ASSUME NEW i \in 1..n PROVE changed[i] = Append(front, seg)[i]
      BY <1>3
    <3>1. i = n \/ (i # n /\ i \in 1..Len(front))
      BY <1>2
    <3> QED
      BY <1>1, <1>2, <1>3, <2>1, <3>1
  <2> QED
    BY <1>2, <1>3, <2>1, <2>2, SameSeq
<1> HIDE DEF changed
<1>5. SaidOf(changed) = SaidOf(front) \o Said(n, seg) /\ SaidOf(segs) = SaidOf(front) \o Said(n, segs[n])
  BY <1>1, <1>2, <1>4, SaidOfAppend
<1>6. SaidOf(front) \in Seq(Atom) /\ Said(n, segs[n]) \in Seq(Atom)
  BY <1>1, <1>2, SaidSeqs, SaidType
<1>7. SaidOf(changed) = SaidOf(segs) \o extra
  <2>1. Said(n, seg) = Said(n, segs[n]) \o extra
    OBVIOUS
  <2>2. (SaidOf(front) \o Said(n, segs[n])) \o extra = SaidOf(front) \o (Said(n, segs[n]) \o extra)
    <3> SUFFICES ASSUME NEW u \in Seq(Atom), u = SaidOf(front), NEW v \in Seq(Atom), v = Said(n, segs[n])
                 PROVE  (u \o v) \o extra = u \o (v \o extra)
      BY <1>6
    <3> QED
      BY ConcatAssoc
  <2> QED
    BY <1>5, <2>1, <2>2
<1> QED
  BY <1>7 DEF changed

-----------------------------------------------------------------------------
(* What is buffered and what is flying.                                    *)

LEMMA ReplaceLast ==
    ASSUME NEW S, NEW front \in Seq(S), NEW last \in S, NEW e \in S,
           NEW s \in Seq(S), s # <<>>, s = Append(front, last)
    PROVE  [s EXCEPT ![Len(s)] = e] = Append(front, e)
<1>1. /\ Len(front) \in Nat /\ s \in Seq(S) /\ Len(s) = Len(front) + 1 /\ s[Len(front) + 1] = last
      /\ \A i \in 1..Len(front) : s[i] = front[i]
  BY AppendIs
<1>2. /\ Append(front, e) \in Seq(S) /\ Len(Append(front, e)) = Len(front) + 1
      /\ Append(front, e)[Len(front) + 1] = e
      /\ \A i \in 1..Len(front) : Append(front, e)[i] = front[i]
  BY AppendIs
<1> SUFFICES ASSUME NEW t, t = [s EXCEPT ![Len(s)] = e] PROVE t = Append(front, e)
  OBVIOUS
<1>3. t \in Seq(S) /\ Len(t) = Len(s) /\ \A i \in 1..Len(s) : t[i] = IF i = Len(s) THEN e ELSE s[i]
  <2> DEFINE n == Len(s)
  <2>1. n \in Nat /\ n # 0 /\ DOMAIN s = 1..n /\ \A i \in 1..n : s[i] \in S
    OBVIOUS
  <2>2. t = [s EXCEPT ![n] = e]
    OBVIOUS
  <2> HIDE DEF n
  <2>3. t = [i \in 1..n |-> IF i = n THEN e ELSE s[i]]
    BY <2>1, <2>2
  <2>4. \A i \in 1..n : t[i] \in S
    BY <2>1, <2>3
  <2>5. t \in Seq(S) /\ Len(t) = n
    BY <2>1, <2>3, <2>4
  <2> QED
    BY <2>3, <2>5 DEF n
<1>4. \A i \in 1..Len(t) : t[i] = Append(front, e)[i]
  <2> SUFFICES ASSUME NEW i \in 1..Len(s) PROVE t[i] = Append(front, e)[i]
    BY <1>3
  <2>1. i = Len(s) \/ (i # Len(s) /\ i \in 1..Len(front))
    BY <1>1
  <2> QED
    BY <1>1, <1>2, <1>3, <2>1
<1> QED
  BY <1>1, <1>2, <1>3, <1>4, SameSeq

LEMMA AllOfAppend ==
    ASSUME NEW events \in Seq(Events), NEW e \in Events, NEW r, AllOf(events, r), e.run = r
    PROVE  AllOf(Append(events, e), r)
<1> DEFINE n == Len(events)
           more == Append(events, e)
<1>1. /\ n \in Nat /\ DOMAIN events = 1..n /\ DOMAIN more = 1..(n + 1) /\ more[n + 1] = e
      /\ \A i \in 1..n : more[i] = events[i]
  OBVIOUS
<1> HIDE DEF n, more
<1>2. \A k \in 1..(n + 1) : k \in 1..n \/ k = n + 1
  BY <1>1
<1>3. \A k \in 1..(n + 1) : more[k].run = r
  BY <1>1, <1>2 DEF AllOf
<1>4. AllOf(more, r)
  BY <1>1, <1>3 DEF AllOf
<1> QED
  BY <1>4 DEF more

LEMMA AllOfConcat ==
    ASSUME NEW s \in Seq(Events), NEW t \in Seq(Events), NEW r, AllOf(s, r), AllOf(t, r)
    PROVE  AllOf(s \o t, r)
<1> DEFINE both == s \o t
<1>1. /\ Len(s) \in Nat /\ Len(t) \in Nat /\ DOMAIN s = 1..Len(s) /\ DOMAIN t = 1..Len(t)
      /\ DOMAIN both = 1..(Len(s) + Len(t))
  OBVIOUS
<1>2. ASSUME NEW k \in DOMAIN both PROVE both[k].run = r
  <2>1. CASE k \in 1..Len(s)
    <3>1. both[k] = s[k]
      BY <2>1
    <3> QED
      BY <1>1, <2>1, <3>1 DEF AllOf
  <2>2. CASE k \notin 1..Len(s)
    <3>1. k - Len(s) \in 1..Len(t)
      BY <1>1, <1>2, <2>2
    <3>2. both[k] = t[k - Len(s)]
      BY <1>1, <1>2, <2>2
    <3> QED
      BY <1>1, <3>1, <3>2 DEF AllOf
  <2> QED
    BY <2>1, <2>2
<1> HIDE DEF both
<1>3. AllOf(both, r)
  BY <1>2 DEF AllOf
<1> QED
  BY <1>3 DEF both

LEMMA AtomsOfOne ==
    ASSUME deployment \in Deployments, NEW e \in Events
    PROVE  AtomsOf(<<e>>) = Atoms(e)
<1>1. <<e>> = Append(<<>>, e) /\ <<>> \in Seq(Events)
  OBVIOUS
<1>2. AtomsOf(<<e>>) = AtomsOf(<<>>) \o Atoms(e)
  BY <1>1, AtomsOfAppend
<1>3. Atoms(e) \in Seq(Atom)
  BY AtomsType
<1> QED
  BY <1>2, <1>3, AtomsOfNone, ConcatEmpty

LEMMA DeltaAtoms ==
    ASSUME NEW e, e.phase = "delta"
    PROVE  Atoms(e) = Deltas(e.ordinal, e.text)
  BY DEF Atoms, Deltas

LEMMA CoalesceSays ==
    ASSUME deployment \in Deployments, NEW list \in Seq(Events), NEW e \in Events,
           e.phase = "delta", NEW r, AllOf(list, r), e.run = r
    PROVE  AtomsOf(Coalesce(list, e)) = AtomsOf(list) \o Atoms(e) /\ AllOf(Coalesce(list, e), r)
<1>1. CASE list # <<>> /\ Last(list).phase = "delta" /\ Last(list).ordinal = e.ordinal
                       /\ Last(list).attempt = e.attempt
  <2>1. PICK front \in Seq(Events), last \in Events :
          /\ list = Append(front, last) /\ Len(front) = Len(list) - 1 /\ last = list[Len(list)]
          /\ \A i \in 1..Len(front) : front[i] = list[i]
    BY <1>1, FrontAndLast
  <2> DEFINE text == last.text \o e.text
             longer == [last EXCEPT !.text = text]
  <2>2. last.phase = "delta" /\ last.ordinal = e.ordinal
    BY <1>1, <2>1 DEF Last
  <2>3. /\ last.text \in Seq(Tokens) /\ e.text \in Seq(Tokens) /\ e.ordinal \in Nat
        /\ last.text \in Seq(Nat) /\ e.text \in Seq(Nat)
    <3>1. last.text \in Seq(Tokens) /\ e.text \in Seq(Tokens) /\ e.ordinal \in 1..MaxSegments
      BY DEF Events
    <3>2. Tokens \subseteq Nat /\ MaxSegments \in Nat
      BY Bounds DEF Tokens
    <3>3. last.text \in Seq(Nat)
      BY <3>1, <3>2, WiderSeq
    <3>4. e.text \in Seq(Nat)
      BY <3>1, <3>2, WiderSeq
    <3>5. e.ordinal \in Nat
      BY <3>1, <3>2
    <3> QED
      BY <3>1, <3>3, <3>4, <3>5
  <2>4. text \in Seq(Tokens)
    BY <2>3, Concat
  <2>5. /\ longer \in Events /\ longer.phase = "delta" /\ longer.ordinal = e.ordinal
        /\ longer.text = text /\ longer.run = last.run
    <3> HIDE DEF text
    <3> QED
      BY <2>2, <2>4 DEF Events
  <2>6. Atoms(longer) = Atoms(last) \o Atoms(e)
    <3>1. Deltas(e.ordinal, text) = Deltas(e.ordinal, last.text) \o Deltas(e.ordinal, e.text)
      BY <2>3, DeltasOfConcat
    <3> HIDE DEF text, longer
    <3>2. Atoms(longer) = Deltas(e.ordinal, text)
      BY <2>5, DeltaAtoms
    <3>3. Atoms(last) = Deltas(e.ordinal, last.text)
      BY <2>2, DeltaAtoms
    <3>4. Atoms(e) = Deltas(e.ordinal, e.text)
      BY DeltaAtoms
    <3> QED
      BY <3>1, <3>2, <3>3, <3>4
  <2>7. Coalesce(list, e) = [list EXCEPT ![Len(list)] = longer]
    BY <1>1, <2>1 DEF Coalesce
  <2> HIDE DEF longer
  <2>8. Coalesce(list, e) = Append(front, longer)
    <3>1. list # <<>> /\ list = Append(front, last)
      BY <1>1, <2>1
    <3>2. [list EXCEPT ![Len(list)] = longer] = Append(front, longer)
      BY <2>5, <3>1, ReplaceLast
    <3> QED
      BY <2>7, <3>2
  <2>9. AtomsOf(list) = AtomsOf(front) \o Atoms(last)
        /\ AtomsOf(Coalesce(list, e)) = AtomsOf(front) \o Atoms(longer)
    BY <2>1, <2>5, <2>8, AtomsOfAppend
  <2>10. AtomsOf(front) \in Seq(Atom) /\ Atoms(last) \in Seq(Atom) /\ Atoms(e) \in Seq(Atom)
    BY AtomSeqs, AtomsType
  <2>11. AtomsOf(Coalesce(list, e)) = AtomsOf(list) \o Atoms(e)
    <3>1. (AtomsOf(front) \o Atoms(last)) \o Atoms(e) = AtomsOf(front) \o (Atoms(last) \o Atoms(e))
      BY <2>10, ConcatAssoc
    <3> QED
      BY <2>6, <2>9, <3>1
  <2>12. AllOf(front, r) /\ last.run = r
    <3>1. Len(list) \in Nat /\ Len(list) # 0 /\ DOMAIN list = 1..Len(list) /\ DOMAIN front = 1..Len(front)
      BY <1>1
    <3>2. Len(list) \in DOMAIN list /\ \A i \in DOMAIN front : i \in DOMAIN list
      BY <2>1, <3>1
    <3> QED
      BY <2>1, <3>1, <3>2 DEF AllOf
  <2> QED
    BY <2>5, <2>8, <2>11, <2>12, AllOfAppend
<1>2. CASE ~(list # <<>> /\ Last(list).phase = "delta" /\ Last(list).ordinal = e.ordinal
                         /\ Last(list).attempt = e.attempt)
  <2>1. Coalesce(list, e) = Append(list, e)
    BY <1>2 DEF Coalesce
  <2> QED
    BY <2>1, AtomsOfAppend, AllOfAppend
<1> QED
  BY <1>1, <1>2

LEMMA GatherSays ==
    ASSUME deployment \in Deployments, NEW list \in Seq(Events), NEW r, AllOf(list, r),
           NEW delta, delta = <<>> \/ \E e \in Events : delta = <<e>> /\ e.phase = "delta" /\ e.run = r
    PROVE  /\ AtomsOf(Gather(list, delta)) = AtomsOf(list) \o AtomsOf(delta)
           /\ AllOf(Gather(list, delta), r)
<1>1. CASE delta = <<>>
  <2>1. AtomsOf(list) \in Seq(Atom)
    BY AtomSeqs
  <2> QED
    BY <1>1, <2>1, AtomsOfNone, ConcatEmpty DEF Gather
<1>2. ASSUME NEW e \in Events, delta = <<e>>, e.phase = "delta", e.run = r
      PROVE  /\ AtomsOf(Gather(list, delta)) = AtomsOf(list) \o AtomsOf(delta)
             /\ AllOf(Gather(list, delta), r)
  <2>1. Gather(list, delta) = Coalesce(list, e)
    BY <1>2 DEF Gather
  <2> QED
    BY <1>2, <2>1, CoalesceSays, AtomsOfOne
<1> QED
  BY <1>1, <1>2

-----------------------------------------------------------------------------
LEMMA SaysType ==
    ASSUME deployment \in Deployments, NEW m \in Seq(Events), NEW r
    PROVE  Says(m, r) \in Seq(Atom)
<1>1. AtomsOf(m) \in Seq(Atom)
  BY AtomSeqs
<1>2. <<>> \in Seq(Atom)
  OBVIOUS
<1> QED
  BY <1>1, <1>2 DEF Says

LEMMA SaysSeqs ==
    ASSUME deployment \in Deployments, NEW messages \in Seq(Seq(Events)), NEW r
    PROVE  /\ [i \in DOMAIN messages |-> Says(messages[i], r)] \in Seq(Seq(Atom))
           /\ Len([i \in DOMAIN messages |-> Says(messages[i], r)]) = Len(messages)
           /\ \A i \in 1..Len(messages) : [j \in DOMAIN messages |-> Says(messages[j], r)][i] = Says(messages[i], r)
           /\ Flying(messages, r) \in Seq(Atom)
<1> DEFINE n == Len(messages)
           seqs == [i \in 1..n |-> Says(messages[i], r)]
           S == Seq(Atom)
           T == Seq(Events)
<1>1. n \in Nat /\ DOMAIN messages = 1..n /\ \A i \in 1..n : messages[i] \in T
  <2>1. messages \in Seq(T)
    OBVIOUS
  <2> HIDE DEF T
  <2> QED
    BY <2>1
<1>2. \A i \in 1..n : Says(messages[i], r) \in S
  BY <1>1, SaysType
<1>3. seqs = [i \in DOMAIN messages |-> Says(messages[i], r)]
  BY <1>1
<1> HIDE DEF n, S
<1>4. seqs \in Seq(S) /\ Len(seqs) = n /\ \A i \in 1..n : seqs[i] = Says(messages[i], r)
  BY <1>1, <1>2
<1>5. Flying(messages, r) = FlattenSeq(seqs)
  BY <1>3 DEF Flying
<1> HIDE DEF seqs
<1>6. Flying(messages, r) \in Seq(Atom)
  BY <1>4, <1>5, FlattenType DEF S
<1> QED
  BY <1>3, <1>4, <1>6 DEF n, S

LEMMA FlyingNone == \A r : Flying(<< >>, r) = << >>
<1>1. \A r : [i \in DOMAIN << >> |-> Says(<< >>[i], r)] = << >>
  OBVIOUS
<1> QED
  BY <1>1, FlattenEmpty DEF Flying

LEMMA FlyingAppend ==
    ASSUME deployment \in Deployments, NEW messages \in Seq(Seq(Events)), NEW m \in Seq(Events), NEW r
    PROVE  Flying(Append(messages, m), r) = Flying(messages, r) \o Says(m, r)
<1> DEFINE more == Append(messages, m)
           one == [i \in DOMAIN messages |-> Says(messages[i], r)]
           all == [i \in DOMAIN more |-> Says(more[i], r)]
           S == Seq(Atom)
           T == Seq(Events)
           last == Says(m, r)
<1>1. /\ Len(messages) \in Nat /\ more \in Seq(T) /\ Len(more) = Len(messages) + 1
      /\ more[Len(messages) + 1] = m /\ \A i \in 1..Len(messages) : more[i] = messages[i]
  <2>1. messages \in Seq(T) /\ m \in T
    OBVIOUS
  <2> HIDE DEF T
  <2> QED
    BY <2>1, AppendIs
<1> HIDE DEF more
<1>2. one \in Seq(S) /\ Len(one) = Len(messages) /\ \A i \in 1..Len(messages) : one[i] = Says(messages[i], r)
  BY SaysSeqs
<1>3. all \in Seq(S) /\ Len(all) = Len(more) /\ \A i \in 1..Len(more) : all[i] = Says(more[i], r)
  BY <1>1, SaysSeqs
<1>4. last \in S
  BY SaysType
<1>5. Flying(messages, r) = FlattenSeq(one) /\ Flying(more, r) = FlattenSeq(all)
  BY DEF Flying
<1>6. all = Append(one, last)
  <2> HIDE DEF one, all, S
  <2>1. /\ Append(one, last) \in Seq(S) /\ Len(Append(one, last)) = Len(messages) + 1
        /\ Append(one, last)[Len(messages) + 1] = last
        /\ \A i \in 1..Len(messages) : Append(one, last)[i] = one[i]
    <3> HIDE DEF last
    <3> QED
      BY <1>2, <1>4, AppendIs
  <2>2. \A i \in 1..Len(more) : all[i] = Append(one, last)[i]
    <3> SUFFICES ASSUME NEW i \in 1..Len(more) PROVE all[i] = Append(one, last)[i]
      OBVIOUS
    <3>1. i \in 1..Len(messages) \/ i = Len(messages) + 1
      BY <1>1
    <3> QED
      BY <1>1, <1>2, <1>3, <2>1, <3>1
  <2> HIDE DEF last
  <2> QED
    BY <1>1, <1>3, <2>1, <2>2, SameSeq
<1> HIDE DEF one, all, last
<1>7. FlattenSeq(Append(one, last)) = FlattenSeq(one) \o last
  BY <1>2, <1>4, FlattenAppend
<1> QED
  BY <1>5, <1>6, <1>7 DEF more, last

LEMMA FlyingHead ==
    ASSUME deployment \in Deployments, NEW messages \in Seq(Seq(Events)), messages # <<>>, NEW r
    PROVE  Flying(messages, r) = Says(Head(messages), r) \o Flying(Tail(messages), r)
<1> DEFINE h == Head(messages)
           rest == Tail(messages)
           n == Len(rest)
           two == [i \in DOMAIN rest |-> Says(rest[i], r)]
           all == [i \in DOMAIN messages |-> Says(messages[i], r)]
           one == <<Says(h, r)>>
           S == Seq(Atom)
           T == Seq(Events)
<1>1. /\ n \in Nat /\ rest \in Seq(T) /\ Len(messages) = n + 1 /\ h = messages[1] /\ h \in T
      /\ \A i \in 1..n : rest[i] = messages[i + 1]
  <2>1. messages \in Seq(T)
    OBVIOUS
  <2> HIDE DEF T
  <2> QED
    BY <2>1
<1> HIDE DEF h, rest
<1>2. Says(h, r) \in S
  BY <1>1, SaysType
<1>3. two \in Seq(S) /\ Len(two) = n /\ \A i \in 1..n : two[i] = Says(rest[i], r)
  BY <1>1, SaysSeqs
<1>4. all \in Seq(S) /\ Len(all) = Len(messages) /\ \A i \in 1..Len(messages) : all[i] = Says(messages[i], r)
  BY SaysSeqs
<1>5. Flying(messages, r) = FlattenSeq(all) /\ Flying(rest, r) = FlattenSeq(two)
  BY DEF Flying
<1>6. one \in Seq(S) /\ Len(one) = 1 /\ one[1] = Says(h, r) /\ one = Append(<<>>, Says(h, r))
  <2> HIDE DEF S
  <2> QED
    BY <1>2
<1>7. all = one \o two
  <2> HIDE DEF one, two, all, S, n
  <2>1. /\ one \o two \in Seq(S) /\ Len(one \o two) = n + 1
        /\ (one \o two)[1] = Says(h, r)
        /\ \A i \in 1..n : (one \o two)[i + 1] = two[i]
    <3> SUFFICES ASSUME NEW u \in Seq(S), u = one, NEW v \in Seq(S), v = two
                 PROVE  /\ u \o v \in Seq(S) /\ Len(u \o v) = n + 1 /\ (u \o v)[1] = Says(h, r)
                        /\ \A i \in 1..n : (u \o v)[i + 1] = v[i]
      BY <1>3, <1>6
    <3> QED
      BY <1>1, <1>3, <1>6
  <2>2. \A i \in 1..Len(messages) : all[i] = (one \o two)[i]
    <3> SUFFICES ASSUME NEW i \in 1..(n + 1) PROVE all[i] = (one \o two)[i]
      BY <1>1
    <3>1. CASE i = 1
      BY <1>1, <1>4, <2>1, <3>1
    <3>2. CASE i # 1
      <4>1. PICK k \in 1..n : i = k + 1
        <5>1. i - 1 \in 1..n /\ i = (i - 1) + 1
          BY <1>1, <3>2
        <5> QED
          BY <5>1
      <4> QED
        BY <1>1, <1>3, <1>4, <2>1, <4>1
    <3> QED
      BY <3>1, <3>2
  <2> QED
    BY <1>1, <1>4, <2>1, <2>2, SameSeq
<1>8. FlattenSeq(one) = Says(h, r)
  <2>0. <<>> \in Seq(S)
    OBVIOUS
  <2>1. FlattenSeq(Append(<<>>, Says(h, r))) = FlattenSeq(<<>>) \o Says(h, r)
    BY <1>2, <2>0, FlattenAppend
  <2> QED
    BY <1>2, <1>6, <2>1, FlattenEmpty, ConcatEmpty
<1> HIDE DEF one, two, all
<1>9. FlattenSeq(one \o two) = FlattenSeq(one) \o FlattenSeq(two)
  BY <1>3, <1>6, FlattenConcat
<1> QED
  BY <1>5, <1>7, <1>8, <1>9 DEF h, rest

-----------------------------------------------------------------------------
(* What is sent.                                                           *)

LEMMA WireTypes ==
    ASSUME StreamTypeOK, NEW r \in Runs
    PROVE  /\ heard[r] \in Seq(Atom) /\ Flying(channel, r) \in Seq(Atom)
           /\ outbox[r] \in Seq(Events) /\ AtomsOf(outbox[r]) \in Seq(Atom)
           /\ buffer[r] \in Seq(Events) /\ AtomsOf(buffer[r]) \in Seq(Atom)
           /\ heard[r] \o Flying(channel, r) \in Seq(Atom)
           /\ Sent(r) \in Seq(Atom) /\ OnTheWay(r) \in Seq(Atom)
<1>1. /\ heard[r] \in Seq(Atom) /\ outbox[r] \in Seq(Events) /\ buffer[r] \in Seq(Events)
      /\ channel \in Seq(Seq(Events)) /\ deployment \in Deployments
  BY Unchanged
<1>2. Flying(channel, r) \in Seq(Atom)
  BY <1>1, SaysSeqs
<1>3. AtomsOf(outbox[r]) \in Seq(Atom) /\ AtomsOf(buffer[r]) \in Seq(Atom)
  BY <1>1, AtomSeqs
<1>4. heard[r] \o Flying(channel, r) \in Seq(Atom)
  BY <1>1, <1>2, Concat
<1>5. Sent(r) \in Seq(Atom)
  BY <1>3, <1>4, Concat DEF Sent
<1>6. OnTheWay(r) \in Seq(Atom)
  BY <1>3, <1>5, Concat DEF OnTheWay
<1> QED
  BY <1>1, <1>2, <1>3, <1>4, <1>5, <1>6

\* The next step's wire, in terms of its variables.
LEMMA WireNext ==
    ASSUME NEW r
    PROVE  /\ Sent(r)' = (heard'[r] \o Flying(channel', r)) \o AtomsOf(outbox'[r])
           /\ OnTheWay(r)' = Sent(r)' \o AtomsOf(buffer'[r])
  BY DEF Sent, OnTheWay

LEMMA SendSays ==
    ASSUME StreamTypeOK, OwnEvents, WireInUse, NEW r \in Runs, NEW events \in Seq(Events),
           AllOf(events, r), Send(r, events), UNCHANGED <<deployment, channel>>
    PROVE  /\ \A q \in Runs : AllOf(outbox'[q], q)
           /\ ~Bridged => \A q \in Runs : outbox'[q] = <<>>
           /\ Lossy => heard' = heard
           /\ \A q \in Runs : q # r => Sent(q)' = Sent(q)
           /\ ~Lossy => Sent(r)' = Sent(r) \o AtomsOf(events)
<1>1. /\ outbox \in [Runs -> Seq(Events)] /\ heard \in [Runs -> Seq(Atom)] /\ deployment \in Deployments
  BY Unchanged
<1>2. AtomsOf(events) \in Seq(Atom)
  BY <1>1, AtomSeqs
<1> DEFINE said == AtomsOf(events)
<1>3. CASE Bridged
  <2>1. /\ outbox' = [outbox EXCEPT ![r] = outbox[r] \o events] /\ UNCHANGED <<heard, channel>>
    BY <1>3 DEF Send
  <2> DEFINE longer == outbox[r] \o events
  <2>2. AllOf(longer, r)
    BY WireTypes, AllOfConcat DEF OwnEvents
  <2>3. AtomsOf(longer) = AtomsOf(outbox[r]) \o said
    BY <1>1, WireTypes, AtomsOfConcat
  <2> HIDE DEF longer
  <2>4. outbox'[r] = longer /\ \A q \in Runs : q # r => outbox'[q] = outbox[q]
    BY <1>1, <2>1 DEF longer
  <2>5. \A q \in Runs : AllOf(outbox'[q], q)
    BY <2>2, <2>4 DEF OwnEvents
  <2>6. \A q \in Runs : q # r => Sent(q)' = Sent(q)
    BY <2>1, <2>4, WireNext DEF Sent
  <2>7. Sent(r)' = Sent(r) \o said
    <3> HIDE DEF said
    <3> DEFINE u == heard[r] \o Flying(channel, r)
    <3>1. u \in Seq(Atom) /\ AtomsOf(outbox[r]) \in Seq(Atom) /\ said \in Seq(Atom)
      BY <1>2, WireTypes DEF said
    <3>2. Sent(r) = u \o AtomsOf(outbox[r])
      BY DEF Sent
    <3>3. Sent(r)' = u \o (AtomsOf(outbox[r]) \o said)
      BY <2>1, <2>3, <2>4, WireNext
    <3> HIDE DEF u
    <3>4. (u \o AtomsOf(outbox[r])) \o said = u \o (AtomsOf(outbox[r]) \o said)
      BY <3>1, ConcatAssoc
    <3> QED
      BY <3>2, <3>3, <3>4
  <2> QED
    BY <1>3, <2>1, <2>5, <2>6, <2>7
<1>4. CASE ~Bridged
  <2>1. /\ Emit(r, events) /\ UNCHANGED <<outbox, channel>> /\ ~Lossy
        /\ channel = <<>> /\ \A q \in Runs : outbox[q] = <<>>
    BY <1>1, <1>4, Bounds DEF Send, WireInUse
  <2>2. heard' = [heard EXCEPT ![r] = heard[r] \o said]
    BY <2>1 DEF Emit
  <2> HIDE DEF said
  <2>3. heard'[r] = heard[r] \o said /\ \A q \in Runs : q # r => heard'[q] = heard[q]
    BY <1>1, <2>2
  <2>4. \A q \in Runs : q # r => Sent(q)' = Sent(q)
    BY <2>1, <2>3, WireNext DEF Sent
  <2>5. Flying(channel, r) = <<>> /\ AtomsOf(outbox[r]) = <<>>
    BY <2>1, FlyingNone, AtomsOfNone
  <2>6. heard[r] \in Seq(Atom) /\ said \in Seq(Atom)
    BY <1>1, <1>2 DEF said
  <2>7. Sent(r) = heard[r]
    BY <2>5, <2>6, ConcatEmpty DEF Sent
  <2>8. Sent(r)' = heard[r] \o said
    <3>1. Sent(r)' = ((heard[r] \o said) \o <<>>) \o <<>>
      BY <2>1, <2>3, <2>5, WireNext
    <3>2. heard[r] \o said \in Seq(Atom)
      BY <2>6, Concat
    <3> QED
      BY <3>1, <3>2, ConcatEmpty
  <2>9. \A q \in Runs : AllOf(outbox'[q], q)
    BY <2>1 DEF OwnEvents
  <2> QED
    BY <1>4, <2>1, <2>4, <2>7, <2>8, <2>9 DEF said
<1> QED
  BY <1>3, <1>4

-----------------------------------------------------------------------------
(* What is published, flushed and bridged.                                 *)

\* Publish: what run r has on the way grows at its end by what is published; nothing else
\* of the wire changes.
LEMMA PublishSays ==
    ASSUME StreamTypeOK, OwnEvents, WireInUse, NEW r \in Runs, NEW boundary \in Seq(Events),
           AllOf(boundary, r), NEW delta \in Seq(Events),
           delta = <<>> \/ \E e \in Events : delta = <<e>> /\ e.phase = "delta" /\ e.run = r,
           Publish(r, boundary, delta), UNCHANGED <<deployment, channel>>
    PROVE  /\ \A q \in Runs : AllOf(outbox'[q], q) /\ AllOf(buffer'[q], q)
           /\ ~Bridged => \A q \in Runs : outbox'[q] = <<>>
           /\ Lossy => heard' = heard
           /\ \A q \in Runs : q # r => OnTheWay(q)' = OnTheWay(q)
           /\ ~Lossy => OnTheWay(r)' = OnTheWay(r) \o (AtomsOf(boundary) \o AtomsOf(delta))
<1> DEFINE said == AtomsOf(boundary)
           word == AtomsOf(delta)
           held == AtomsOf(buffer[r])
<1>1. /\ buffer \in [Runs -> Seq(Events)] /\ deployment \in Deployments /\ buffer[r] \in Seq(Events)
      /\ AllOf(buffer[r], r)
  BY Unchanged DEF OwnEvents
<1>2. said \in Seq(Atom) /\ word \in Seq(Atom) /\ held \in Seq(Atom) /\ Sent(r) \in Seq(Atom)
  BY <1>1, AtomSeqs, WireTypes
<1>3. CASE boundary = <<>>
  <2> DEFINE gathered == Gather(buffer[r], delta)
  <2>1. buffer' = [buffer EXCEPT ![r] = gathered] /\ UNCHANGED <<outbox, heard, channel>>
    BY <1>3 DEF Publish
  <2>2. AtomsOf(gathered) = held \o word /\ AllOf(gathered, r)
    BY <1>1, GatherSays
  <2> HIDE DEF gathered, word, held
  <2>3. buffer'[r] = gathered /\ \A q \in Runs : q # r => buffer'[q] = buffer[q]
    BY <1>1, <2>1
  <2>4. \A q \in Runs : AllOf(outbox'[q], q) /\ AllOf(buffer'[q], q)
    BY <2>1, <2>2, <2>3 DEF OwnEvents
  <2>5. \A q \in Runs : Sent(q)' = Sent(q)
    BY <2>1, WireNext DEF Sent
  <2>6. \A q \in Runs : q # r => OnTheWay(q)' = OnTheWay(q)
    BY <2>3, <2>5, WireNext DEF OnTheWay
  <2>7. OnTheWay(r)' = OnTheWay(r) \o word
    <3>1. OnTheWay(r)' = Sent(r) \o (held \o word)
      BY <2>2, <2>3, <2>5, WireNext
    <3>2. (Sent(r) \o held) \o word = Sent(r) \o (held \o word)
      <4> DEFINE u == Sent(r)
      <4>1. u \in Seq(Atom) /\ held \in Seq(Atom) /\ word \in Seq(Atom)
        BY <1>2 DEF held, word
      <4> HIDE DEF u
      <4>2. (u \o held) \o word = u \o (held \o word)
        BY <4>1, ConcatAssoc
      <4> QED
        BY <4>2 DEF u
    <3>3. OnTheWay(r) = Sent(r) \o held
      BY DEF OnTheWay, held
    <3> QED
      BY <3>1, <3>2, <3>3
  <2>8. said \o word = word
    <3>1. said = <<>>
      BY <1>3, AtomsOfNone
    <3> QED
      BY <1>2, <3>1, ConcatEmpty
  <2>9. ~Bridged => \A q \in Runs : outbox'[q] = <<>>
    BY <2>1 DEF WireInUse
  <2> QED
    BY <2>1, <2>4, <2>6, <2>7, <2>8, <2>9 DEF word
<1>4. CASE boundary # <<>>
  <2> DEFINE sent == buffer[r] \o boundary
             gathered == Gather(<<>>, delta)
  <2>1. buffer' = [buffer EXCEPT ![r] = gathered] /\ Send(r, sent)
    BY <1>4 DEF Publish
  <2>2. sent \in Seq(Events) /\ AllOf(sent, r)
    BY <1>1, Concat, AllOfConcat
  <2>3. AtomsOf(sent) = held \o said
    BY <1>1, AtomsOfConcat
  <2>4. AtomsOf(gathered) = word /\ AllOf(gathered, r)
    <3>1. <<>> \in Seq(Events) /\ AllOf(<<>>, r)
      BY DEF AllOf
    <3>2. AtomsOf(gathered) = AtomsOf(<<>>) \o word /\ AllOf(gathered, r)
      BY <1>1, <3>1, GatherSays
    <3> HIDE DEF word, gathered
    <3> QED
      BY <1>2, <3>2, AtomsOfNone, ConcatEmpty
  <2> HIDE DEF sent, gathered, held, said, word
  <2>5. /\ \A q \in Runs : AllOf(outbox'[q], q)
        /\ ~Bridged => \A q \in Runs : outbox'[q] = <<>>
        /\ Lossy => heard' = heard
        /\ \A q \in Runs : q # r => Sent(q)' = Sent(q)
        /\ ~Lossy => Sent(r)' = Sent(r) \o (held \o said)
    BY <2>1, <2>2, <2>3, SendSays
  <2>6. buffer'[r] = gathered /\ \A q \in Runs : q # r => buffer'[q] = buffer[q]
    BY <1>1, <2>1
  <2>7. \A q \in Runs : AllOf(buffer'[q], q)
    BY <2>4, <2>6 DEF OwnEvents
  <2>8. \A q \in Runs : q # r => OnTheWay(q)' = OnTheWay(q)
    BY <2>5, <2>6, WireNext DEF OnTheWay
  <2>9. ASSUME ~Lossy PROVE OnTheWay(r)' = OnTheWay(r) \o (said \o word)
    <3>1. OnTheWay(r)' = (Sent(r) \o (held \o said)) \o word
      BY <2>4, <2>5, <2>6, <2>9, WireNext
    <3>2. OnTheWay(r) = Sent(r) \o held
      BY DEF OnTheWay, held
    <3>3. (Sent(r) \o (held \o said)) \o word = (Sent(r) \o held) \o (said \o word)
      <4> DEFINE u == Sent(r)
      <4>1. u \in Seq(Atom) /\ held \in Seq(Atom) /\ said \in Seq(Atom) /\ word \in Seq(Atom)
        BY <1>2 DEF held, said, word
      <4> HIDE DEF u
      <4>2. (u \o (held \o said)) \o word = (u \o held) \o (said \o word)
        <5> DEFINE uh == u \o held
        <5>1. u \o (held \o said) = uh \o said
          BY <4>1, ConcatAssoc
        <5>2. uh \in Seq(Atom) /\ said \in Seq(Atom) /\ word \in Seq(Atom)
          BY <4>1, Concat
        <5> HIDE DEF uh
        <5>3. (uh \o said) \o word = uh \o (said \o word)
          BY <5>2, ConcatAssoc
        <5> QED
          BY <5>1, <5>3 DEF uh
      <4> QED
        BY <4>2 DEF u
    <3> QED
      BY <3>1, <3>2, <3>3
  <2> QED
    BY <2>5, <2>7, <2>8, <2>9 DEF said, word
<1> QED
  BY <1>3, <1>4

LEMMA FlushTickSays ==
    ASSUME StreamTypeOK, OwnEvents, WireInUse, NEW r \in Runs, FlushTick(r)
    PROVE  OwnEvents' /\ WireInUse' /\ \A q \in Runs : ~Lossy => OnTheWay(q)' = OnTheWay(q)
<1> DEFINE held == AtomsOf(buffer[r])
<1>1. /\ buffer' = [buffer EXCEPT ![r] = <<>>] /\ Send(r, buffer[r])
      /\ UNCHANGED <<deployment, channel>>
  BY DEF FlushTick
<1>2. /\ buffer \in [Runs -> Seq(Events)] /\ deployment \in Deployments
      /\ buffer[r] \in Seq(Events) /\ AllOf(buffer[r], r)
  BY Unchanged DEF OwnEvents
<1>3. held \in Seq(Atom) /\ Sent(r) \in Seq(Atom)
  BY WireTypes
<1>4. /\ \A q \in Runs : AllOf(outbox'[q], q)
      /\ ~Bridged => \A q \in Runs : outbox'[q] = <<>>
      /\ Lossy => heard' = heard
      /\ \A q \in Runs : q # r => Sent(q)' = Sent(q)
      /\ ~Lossy => Sent(r)' = Sent(r) \o held
  BY <1>1, <1>2, SendSays
<1> HIDE DEF held
<1>5. buffer'[r] = <<>> /\ \A q \in Runs : q # r => buffer'[q] = buffer[q]
  BY <1>1, <1>2
<1>6. AllOf(<<>>, r)
  BY DEF AllOf
<1>7. \A q \in Runs : AllOf(buffer'[q], q)
  BY <1>5, <1>6 DEF OwnEvents
<1>8. Runs' = Runs /\ Bridged' = Bridged /\ Lossy' = Lossy
  BY <1>1, SameBounds
<1>9. OwnEvents'
  BY <1>4, <1>7, <1>8 DEF OwnEvents
<1>10. WireInUse'
  BY <1>1, <1>4, <1>8 DEF WireInUse
<1>11. ASSUME NEW q \in Runs, ~Lossy PROVE OnTheWay(q)' = OnTheWay(q)
  <2>1. CASE q # r
    BY <1>4, <1>5, <2>1, WireNext DEF OnTheWay
  <2>2. CASE q = r
    <3>1. OnTheWay(r)' = (Sent(r) \o held) \o <<>>
      BY <1>4, <1>5, <1>11, WireNext, AtomsOfNone
    <3>2. Sent(r) \o held \in Seq(Atom)
      BY <1>3, Concat
    <3> QED
      BY <2>2, <3>1, <3>2, ConcatEmpty DEF OnTheWay, held
  <2> QED
    BY <2>1, <2>2
<1> QED
  BY <1>9, <1>10, <1>11

LEMMA PublishMessageSays ==
    ASSUME StreamTypeOK, OwnEvents, WireInUse, NEW r \in Runs, PublishMessage(r)
    PROVE  OwnEvents' /\ WireInUse' /\ \A q \in Runs : ~Lossy => OnTheWay(q)' = OnTheWay(q)
<1> DEFINE m == outbox[r]
<1>1. /\ m # <<>> /\ outbox' = [outbox EXCEPT ![r] = <<>>]
      /\ channel' = Append(channel, m) \/ (Lossy /\ UNCHANGED channel)
      /\ UNCHANGED <<deployment, buffer, heard>>
  BY DEF PublishMessage
<1>2. /\ outbox \in [Runs -> Seq(Events)] /\ deployment \in Deployments /\ channel \in Seq(Seq(Events))
      /\ m \in Seq(Events) /\ AllOf(m, r)
  BY Unchanged DEF OwnEvents
<1>3. m[1].run = r
  <2>1. 1 \in DOMAIN m
    BY <1>1, <1>2
  <2> QED
    BY <1>2, <2>1 DEF AllOf
<1>4. Bridged
  BY <1>1 DEF WireInUse
<1> HIDE DEF m
<1>5. outbox'[r] = <<>> /\ \A q \in Runs : q # r => outbox'[q] = outbox[q]
  BY <1>1, <1>2
<1>6. Runs' = Runs /\ Bridged' = Bridged /\ Lossy' = Lossy
  BY <1>1, SameBounds
<1>7. OwnEvents'
  <2>1. AllOf(<<>>, r)
    BY DEF AllOf
  <2> QED
    BY <1>1, <1>5, <1>6, <2>1 DEF OwnEvents
<1>8. WireInUse'
  BY <1>1, <1>4, <1>6 DEF WireInUse
<1>9. ASSUME NEW q \in Runs, ~Lossy PROVE OnTheWay(q)' = OnTheWay(q)
  <2> DEFINE u == heard[q]
             f == Flying(channel, q)
  <2>1. u \in Seq(Atom) /\ f \in Seq(Atom) /\ AtomsOf(outbox[q]) \in Seq(Atom)
    BY WireTypes
  <2>2. Flying(channel', q) = f \o Says(m, q)
    BY <1>1, <1>2, <1>9, FlyingAppend
  <2> HIDE DEF u, f
  <2>3. Sent(q)' = (u \o (f \o Says(m, q))) \o AtomsOf(outbox'[q])
    BY <1>1, <2>2, WireNext DEF u
  <2>4. Sent(q) = (u \o f) \o AtomsOf(outbox[q])
    BY DEF Sent, u, f
  <2>5. u \o f \in Seq(Atom)
    BY <2>1, Concat
  <2>6. Sent(q)' = Sent(q)
    <3>1. CASE q = r
      <4>1. Says(m, q) = AtomsOf(outbox[q])
        BY <1>3, <3>1 DEF Says, m
      <4>2. Sent(q)' = (u \o (f \o AtomsOf(outbox[q]))) \o <<>>
        BY <1>5, <2>3, <3>1, <4>1, AtomsOfNone
      <4>3. u \o (f \o AtomsOf(outbox[q])) = (u \o f) \o AtomsOf(outbox[q])
        BY <2>1, ConcatAssoc
      <4>4. (u \o f) \o AtomsOf(outbox[q]) \in Seq(Atom)
        BY <2>1, <2>5, Concat
      <4> QED
        BY <2>4, <4>2, <4>3, <4>4, ConcatEmpty
    <3>2. CASE q # r
      <4>1. Says(m, q) = <<>> /\ outbox'[q] = outbox[q]
        BY <1>3, <1>5, <3>2 DEF Says
      <4>2. f \o <<>> = f
        BY <2>1, ConcatEmpty
      <4> QED
        BY <2>3, <2>4, <4>1, <4>2
    <3> QED
      BY <3>1, <3>2
  <2> QED
    BY <1>1, <2>6, WireNext DEF OnTheWay
<1> QED
  BY <1>7, <1>8, <1>9

LEMMA BridgeMessageSays ==
    ASSUME StreamTypeOK, OwnEvents, WireInUse, BridgeMessage
    PROVE  OwnEvents' /\ WireInUse' /\ \A q \in Runs : ~Lossy => OnTheWay(q)' = OnTheWay(q)
<1> DEFINE m == Head(channel)
           r == m[1].run
           said == AtomsOf(m)
<1>1. /\ channel # <<>> /\ channel' = Tail(channel) /\ Emit(r, m)
      /\ UNCHANGED <<deployment, buffer, outbox>>
  BY DEF BridgeMessage
<1>2. /\ heard \in [Runs -> Seq(Atom)] /\ deployment \in Deployments /\ channel \in Seq(Seq(Events))
      /\ m \in Seq(Events) /\ r \in Runs
  BY <1>1, FirstMessage, Unchanged
<1>3. said \in Seq(Atom)
  BY <1>2, AtomSeqs
<1>4. heard' = IF Lossy THEN heard ELSE [heard EXCEPT ![r] = heard[r] \o said]
  BY <1>1 DEF Emit
<1>5. Bridged
  BY <1>1 DEF WireInUse
<1>6. Runs' = Runs /\ Bridged' = Bridged /\ Lossy' = Lossy
  BY <1>1, SameBounds
<1> HIDE DEF said
<1>7. OwnEvents'
  BY <1>1, <1>6 DEF OwnEvents
<1>8. WireInUse'
  BY <1>4, <1>5, <1>6 DEF WireInUse
<1>9. ASSUME NEW q \in Runs, ~Lossy PROVE OnTheWay(q)' = OnTheWay(q)
  <2> DEFINE f == Flying(channel', q)
  <2>1. Flying(channel, q) = Says(m, q) \o f
    BY <1>1, <1>2, FlyingHead
  <2>2. heard[q] \in Seq(Atom)
    BY <1>2
  <2>3. f \in Seq(Atom)
    <3>1. Tail(channel) \in Seq(Seq(Events))
      BY <1>1, FirstMessage
    <3> QED
      BY <1>1, <1>2, <3>1, SaysSeqs
  <2>4. Says(m, q) = IF q = r THEN said ELSE <<>>
    BY DEF Says, said
  <2>5. heard'[q] = IF q = r THEN heard[q] \o said ELSE heard[q]
    BY <1>2, <1>4, <1>9
  <2> HIDE DEF m, r, f
  <2>6. heard'[q] \o f = heard[q] \o Flying(channel, q)
    <3>1. CASE q = r
      <4>1. (heard[q] \o said) \o f = heard[q] \o (said \o f)
        <5> DEFINE u == heard[q]
        <5>1. u \in Seq(Atom) /\ said \in Seq(Atom) /\ f \in Seq(Atom)
          BY <1>3, <2>2, <2>3
        <5> HIDE DEF u
        <5>2. (u \o said) \o f = u \o (said \o f)
          BY <5>1, ConcatAssoc
        <5> QED
          BY <5>2 DEF u
      <4> QED
        BY <2>1, <2>4, <2>5, <3>1, <4>1
    <3>2. CASE q # r
      <4>1. <<>> \o f = f
        BY <2>3, ConcatEmpty
      <4> QED
        BY <2>1, <2>4, <2>5, <3>2, <4>1
    <3> QED
      BY <3>1, <3>2
  <2>7. Sent(q)' = Sent(q)
    BY <1>1, <2>6, WireNext DEF Sent, f
  <2> QED
    BY <1>1, <2>7, WireNext DEF OnTheWay
<1> QED
  BY <1>7, <1>8, <1>9

-----------------------------------------------------------------------------
(* Runs and what they have said.                                           *)

\* Steps that publish nothing and lose nothing.
LEMMA SameSaid ==
    ASSUME StreamTypeOK, NothingLost, UNCHANGED deployment,
           \A q \in Runs : ~Lossy => OnTheWay(q)' = OnTheWay(q),
           \A q \in Runs : runs'[q].segs = runs[q].segs /\ (runs'[q].pc # "over" => runs[q].pc # "over")
    PROVE  NothingLost'
<1>1. Runs' = Runs /\ Lossy' = Lossy
  BY SameBounds
<1>2. ASSUME NEW q \in Runs, ~Lossy PROVE \E rest \in Seq(Atom) : Lost(q, rest)'
  <2>1. PICK rest \in Seq(Atom) : Lost(q, rest)
    BY <1>2 DEF NothingLost
  <2>2. Lost(q, rest)'
    BY <1>2, <2>1 DEF Lost
  <2> QED
    BY <2>2
<1> QED
  BY <1>1, <1>2 DEF NothingLost

\* Steps that publish: what the run has said grows by what is sent after the rest.
LEMMA MoreSaid ==
    ASSUME StreamTypeOK, StreamTypeOK', NothingLost, UNCHANGED deployment,
           NEW r \in Runs, runs[r].pc # "over", NEW extra,
           ~Lossy => OnTheWay(r)' = OnTheWay(r) \o extra,
           SaidOf(runs'[r].segs) = SaidOf(runs[r].segs) \o extra,
           \A q \in Runs : q # r => OnTheWay(q)' = OnTheWay(q) /\ runs'[q] = runs[q]
    PROVE  NothingLost'
<1>1. Runs' = Runs /\ Lossy' = Lossy
  BY SameBounds
<1>2. ASSUME NEW q \in Runs, ~Lossy PROVE \E rest \in Seq(Atom) : Lost(q, rest)'
  <2>1. PICK rest \in Seq(Atom) : Lost(q, rest)
    BY <1>2 DEF NothingLost
  <2>2. CASE q # r
    BY <2>1, <2>2 DEF Lost
  <2>3. CASE q = r
    <3>1. rest = <<>> /\ OnTheWay(r) \o <<>> = SaidOf(runs[r].segs)
      BY <2>1, <2>3 DEF Lost
    <3>2. OnTheWay(r) = SaidOf(runs[r].segs)
      <4>1. OnTheWay(r) \in Seq(Atom)
        BY WireTypes
      <4> QED
        BY <3>1, <4>1, ConcatEmpty
    <3>3. OnTheWay(r)' = SaidOf(runs'[r].segs)
      BY <1>2, <3>2
    <3>4. SaidOf(runs'[r].segs) \in Seq(Atom)
      <4>1. runs'[r].segs \in Seq(Segments)
        <5>1. runs' \in [Runs -> RunStates]
          BY SameBounds DEF StreamTypeOK
        <5>2. runs'[r] \in RunStates
          BY <5>1
        <5> QED
          BY <5>2 DEF RunStates
      <4> QED
        BY <4>1, Unchanged, SaidSeqs
    <3>5. OnTheWay(r)' \o <<>> = SaidOf(runs'[r].segs)
      BY <3>3, <3>4, ConcatEmpty
    <3>6. Lost(r, <<>>)' /\ <<>> \in Seq(Atom)
      BY <3>5 DEF Lost
    <3> QED
      BY <2>3, <3>6
  <2> QED
    BY <2>2, <2>3
<1> QED
  BY <1>1, <1>2 DEF NothingLost

LEMMA SameWire ==
    ASSUME UNCHANGED <<deployment, heard, channel, outbox, buffer>>, OwnEvents, WireInUse
    PROVE  OwnEvents' /\ WireInUse' /\ \A q \in Runs : OnTheWay(q)' = OnTheWay(q)
<1>1. Runs' = Runs /\ Bridged' = Bridged /\ Lossy' = Lossy
  BY SameBounds
<1> QED
  BY <1>1, WireNext DEF OwnEvents, WireInUse, OnTheWay, Sent

-----------------------------------------------------------------------------
\* A run's step leaves the runs still to come as they are.
LEMMA TurnOfRun ==
    ASSUME StreamTypeOK, RunsInTurn, NEW r \in Runs, runs[r].pc = "streaming", NEW run,
           runs' = [runs EXCEPT ![r] = run], UNCHANGED deployment, task'.gen \in Runs,
           \/ UNCHANGED task
           \/ task'.status # "queued" /\ task'.gen = task.gen
           \/ task'.gen = task.gen + 1
    PROVE  RunsInTurn'
<1>1. Runs' = Runs
  BY SameBounds
<1>2. task.gen \in Nat /\ Runs \subseteq Nat
  <2>1. task.gen \in Runs /\ MaxRuns \in Nat
    BY Unchanged, Bounds DEF Tasks
  <2> QED
    BY <2>1 DEF Runs
<1>3. ~(r > task.gen) /\ ~(task.status = "queued" /\ r = task.gen)
  <2>1. runs[r] # Unstarted
    BY DEF Unstarted
  <2> QED
    BY <2>1 DEF RunsInTurn
<1>4. \A q \in Runs : q # r => runs'[q] = runs[q]
  BY Unchanged
<1>5. \A q \in Runs : q > task'.gen => q > task.gen
  BY <1>2
<1>6. \A q \in Runs : q > task'.gen => runs'[q] = Unstarted
  BY <1>3, <1>4, <1>5 DEF RunsInTurn
<1>7. ASSUME task'.status = "queued" PROVE runs'[task'.gen] = Unstarted
  <2>0. task.gen \in Runs
    BY Unchanged DEF Tasks
  <2>1. CASE UNCHANGED task
    BY <1>3, <1>4, <1>7, <2>0, <2>1 DEF RunsInTurn
  <2>2. CASE task'.gen = task.gen + 1
    <3>1. task'.gen > task.gen
      BY <1>2, <2>2
    <3> QED
      BY <1>3, <1>4, <3>1 DEF RunsInTurn
  <2> QED
    BY <1>7, <2>1, <2>2
<1> QED
  BY <1>1, <1>6, <1>7 DEF RunsInTurn

-----------------------------------------------------------------------------
(* The steps that publish nothing.                                         *)

\* The generation of a task is that of a run.
LEMMA TaskGen ==
    ASSUME StreamTypeOK
    PROVE  task.gen \in Runs /\ task.gen \in Nat /\ Runs \subseteq Nat
<1>1. task.gen \in Runs /\ MaxRuns \in Nat
  BY Unchanged, Bounds DEF Tasks
<1> QED
  BY <1>1 DEF Runs

LEMMA ClaimSays ==
    ASSUME StreamTypeOK, WireInv, Claim PROVE WireInv'
<1> DEFINE run == Started(<<>>)
           g == task.gen
<1>1. /\ runs' = [runs EXCEPT ![g] = run] /\ task.status = "queued"
      /\ task' = [task EXCEPT !.status = "running"]
      /\ UNCHANGED <<deployment, heard, channel, outbox, buffer>>
  BY DEF Claim, wireVars
<1>2. runs \in [Runs -> RunStates] /\ g \in Runs /\ g \in Nat /\ Runs \subseteq Nat /\ Runs' = Runs
  BY <1>1, Unchanged, TaskGen, SameBounds
<1>3. task'.gen = g /\ task'.status = "running"
  <2>1. task \in Tasks
    BY Unchanged
  <2> QED
    BY <1>1, <2>1 DEF Tasks
<1>4. runs[g] = Unstarted
  BY <1>1 DEF WireInv, RunsInTurn
<1>5. run.segs = <<>> /\ run.pc = "streaming" /\ Unstarted.segs = <<>> /\ Unstarted.pc = "waiting"
  BY DEF Started, Unstarted
<1> HIDE DEF run, g
<1>6. runs'[g] = run /\ \A q \in Runs : q # g => runs'[q] = runs[q]
  BY <1>1, <1>2
<1>7. RunsInTurn'
  <2>1. \A q \in Runs : q > g => q # g
    BY <1>2
  <2>2. \A q \in Runs : q > g => runs'[q] = Unstarted
    BY <1>6, <2>1 DEF WireInv, RunsInTurn, g
  <2> QED
    BY <1>2, <1>3, <2>2 DEF RunsInTurn
<1>8. NothingLost'
  <2>1. \A q \in Runs : runs'[q].segs = runs[q].segs /\ (runs'[q].pc # "over" => runs[q].pc # "over")
    BY <1>4, <1>5, <1>6
  <2> QED
    BY <1>1, <2>1, SameWire, SameSaid DEF WireInv
<1> QED
  BY <1>1, <1>7, <1>8, SameWire DEF WireInv

LEMMA TakeOverSays ==
    ASSUME StreamTypeOK, WireInv, TakeOver PROVE WireInv'
<1> DEFINE run == Started(task.partial)
           g == task.gen + 1
<1>1. /\ runs' = [runs EXCEPT ![g] = run] /\ task.status = "running" /\ g \in Runs
      /\ task' = [task EXCEPT !.gen = g, !.events = Interrupt(@, runs[task.gen].found)]
      /\ UNCHANGED <<deployment, heard, channel, outbox, buffer>>
  BY DEF TakeOver, wireVars
<1>2. runs \in [Runs -> RunStates] /\ g \in Nat /\ g > task.gen /\ Runs \subseteq Nat /\ Runs' = Runs
      /\ task.gen \in Nat
  BY <1>1, Unchanged, TaskGen, SameBounds
<1>3. task'.gen = g /\ task'.status = "running"
  <2>1. task \in Tasks
    BY Unchanged
  <2> QED
    BY <1>1, <2>1 DEF Tasks
<1>4. runs[g] = Unstarted
  BY <1>1, <1>2 DEF WireInv, RunsInTurn
<1>5. run.segs = <<>> /\ run.pc = "streaming" /\ Unstarted.segs = <<>> /\ Unstarted.pc = "waiting"
  BY DEF Started, Unstarted
<1> HIDE DEF run
<1>6. runs'[g] = run /\ \A q \in Runs : q # g => runs'[q] = runs[q]
  BY <1>1, <1>2
<1>7. RunsInTurn'
  <2>1. \A q \in Runs : q > g => q # g /\ q > task.gen
    BY <1>2
  <2>2. \A q \in Runs : q > g => runs'[q] = Unstarted
    BY <1>6, <2>1 DEF WireInv, RunsInTurn
  <2> QED
    BY <1>2, <1>3, <2>2 DEF RunsInTurn
<1> HIDE DEF g
<1>8. NothingLost'
  <2>1. \A q \in Runs : runs'[q].segs = runs[q].segs /\ (runs'[q].pc # "over" => runs[q].pc # "over")
    BY <1>4, <1>5, <1>6
  <2> QED
    BY <1>1, <2>1, SameWire, SameSaid DEF WireInv
<1> QED
  BY <1>1, <1>7, <1>8, SameWire DEF WireInv

LEMMA CheckpointSays ==
    ASSUME StreamTypeOK, WireInv, NEW r \in Runs, Checkpoint(r) PROVE WireInv'
<1> DEFINE run == [runs[r] EXCEPT !.saved = TRUE]
           text == RunText(r)
           events == StoreSegments(r)
<1>1. /\ runs' = [runs EXCEPT ![r] = run] /\ runs[r].pc = "streaming"
      /\ UNCHANGED <<deployment, heard, channel, outbox, buffer>>
      /\ UNCHANGED task \/ (task.status = "running" /\ task' = [task EXCEPT !.partial = text, !.events = events])
  BY Unchanged DEF Checkpoint, wireVars
<1>2. runs \in [Runs -> RunStates] /\ runs[r] \in RunStates
  BY Unchanged
<1> HIDE DEF text, events
<1>3. UNCHANGED task \/ (task'.status # "queued" /\ task'.gen = task.gen)
  <2>1. task \in Tasks
    BY Unchanged
  <2> QED
    BY <1>1, <2>1 DEF Tasks
<1>4. RunsInTurn'
  <2>1. task'.gen \in Runs
    BY <1>3, TaskGen
  <2> HIDE DEF run
  <2> QED
    BY <1>1, <1>3, <2>1, TurnOfRun DEF WireInv
<1>5. run.segs = runs[r].segs
  BY <1>2 DEF RunStates
<1>6. \A q \in Runs : runs'[q].segs = runs[q].segs /\ (runs'[q].pc # "over" => runs[q].pc # "over")
  <2> HIDE DEF run
  <2> QED
    BY <1>1, <1>2, <1>5
<1>7. NothingLost'
  BY <1>1, <1>6, SameWire, SameSaid DEF WireInv
<1> QED
  BY <1>1, <1>4, <1>7, SameWire DEF WireInv

LEMMA FinishSays ==
    ASSUME StreamTypeOK, StreamTypeOK', WireInv, NEW r \in Runs, Finish(r) PROVE WireInv'
<1> DEFINE run == [runs[r] EXCEPT !.pc = "over"]
<1>1. /\ runs' = [runs EXCEPT ![r] = run] /\ runs[r].pc = "streaming"
      /\ UNCHANGED <<deployment, heard, channel, outbox, buffer>>
      /\ \/ UNCHANGED task
         \/ \E streamed : task' = [task EXCEPT !.status = "completed", !.streamed = streamed]
         \/ task' = [task EXCEPT !.status = "queued", !.gen = @ + 1, !.attempt = @ + 1, !.partial = <<>>]
  BY Unchanged DEF Finish, wireVars
<1>2. runs \in [Runs -> RunStates] /\ runs[r] \in RunStates
  BY Unchanged
<1>3. \/ UNCHANGED task
      \/ task'.status # "queued" /\ task'.gen = task.gen
      \/ task'.gen = task.gen + 1
  <2>1. task \in Tasks
    BY Unchanged
  <2> QED
    BY <1>1, <2>1 DEF Tasks
<1>4. RunsInTurn'
  <2>1. task'.gen \in Runs
    BY <1>1, SameBounds DEF StreamTypeOK, Tasks
  <2> HIDE DEF run
  <2> QED
    BY <1>1, <1>3, <2>1, TurnOfRun DEF WireInv
<1>5. run.segs = runs[r].segs
  BY <1>2 DEF RunStates
<1>6. \A q \in Runs : runs'[q].segs = runs[q].segs /\ (runs'[q].pc # "over" => runs[q].pc # "over")
  <2> HIDE DEF run
  <2> QED
    BY <1>1, <1>2, <1>5
<1>7. NothingLost'
  BY <1>1, <1>6, SameWire, SameSaid DEF WireInv
<1> QED
  BY <1>1, <1>4, <1>7, SameWire DEF WireInv

\* What a worker that dies had not published is the rest.
LEMMA WorkerDiesSays ==
    ASSUME StreamTypeOK, WireInv, NEW r \in Runs, WorkerDies(r) PROVE WireInv'
<1> DEFINE run == [runs[r] EXCEPT !.pc = "over"]
<1>1. /\ runs' = [runs EXCEPT ![r] = run] /\ runs[r].pc = "streaming"
      /\ outbox' = [outbox EXCEPT ![r] = <<>>] /\ buffer' = [buffer EXCEPT ![r] = <<>>]
      /\ UNCHANGED <<deployment, task, heard, channel>>
  BY Unchanged DEF WorkerDies
<1>2. runs \in [Runs -> RunStates] /\ runs[r] \in RunStates
      /\ outbox \in [Runs -> Seq(Events)] /\ buffer \in [Runs -> Seq(Events)]
      /\ Runs' = Runs /\ Bridged' = Bridged /\ Lossy' = Lossy
  BY <1>1, Unchanged, SameBounds
<1>3. run.segs = runs[r].segs /\ run.pc = "over"
  BY <1>2 DEF RunStates
<1> HIDE DEF run
<1>4. RunsInTurn'
  BY <1>1, TaskGen, TurnOfRun DEF WireInv
<1>5. /\ runs'[r] = run /\ outbox'[r] = <<>> /\ buffer'[r] = <<>>
      /\ \A q \in Runs : q # r => runs'[q] = runs[q] /\ outbox'[q] = outbox[q] /\ buffer'[q] = buffer[q]
  BY <1>1, <1>2
<1>6. OwnEvents'
  <2>1. AllOf(<<>>, r)
    BY DEF AllOf
  <2> QED
    BY <1>2, <1>5, <2>1 DEF OwnEvents, WireInv
<1>7. WireInUse'
  BY <1>1, <1>2, <1>5 DEF WireInUse, WireInv
<1>8. ASSUME NEW q \in Runs, ~Lossy PROVE \E rest \in Seq(Atom) : Lost(q, rest)'
  <2>1. PICK rest \in Seq(Atom) : Lost(q, rest)
    BY <1>8 DEF NothingLost, WireInv
  <2>2. CASE q # r
    <3>1. OnTheWay(q)' = OnTheWay(q)
      BY <1>1, <1>5, <2>2, WireNext DEF OnTheWay, Sent
    <3> QED
      BY <1>5, <2>1, <2>2, <3>1 DEF Lost
  <2>3. CASE q = r
    <3> DEFINE u == heard[r] \o Flying(channel, r)
               waiting == AtomsOf(outbox[r])
               held == AtomsOf(buffer[r])
               dead == waiting \o held
    <3>1. u \in Seq(Atom) /\ waiting \in Seq(Atom) /\ held \in Seq(Atom)
      BY WireTypes
    <3>2. dead \in Seq(Atom)
      BY <3>1, Concat
    <3>3. OnTheWay(r) \o rest = SaidOf(runs[r].segs) /\ rest = <<>>
      BY <1>1, <2>1, <2>3 DEF Lost
    <3>4. OnTheWay(r) = SaidOf(runs[r].segs)
      <4>1. OnTheWay(r) \in Seq(Atom)
        BY WireTypes
      <4> QED
        BY <3>3, <4>1, ConcatEmpty
    <3>5. OnTheWay(r) = (u \o waiting) \o held
      BY DEF OnTheWay, Sent
    <3>6. OnTheWay(r)' = (u \o <<>>) \o <<>>
      <4>1. heard'[r] \o Flying(channel', r) = u
        BY <1>1
      <4>2. AtomsOf(outbox'[r]) = <<>> /\ AtomsOf(buffer'[r]) = <<>>
        BY <1>5, AtomsOfNone
      <4> HIDE DEF u
      <4> QED
        BY <4>1, <4>2, WireNext
    <3> HIDE DEF u, waiting, held
    <3>7. OnTheWay(r)' = u
      BY <3>1, <3>6, ConcatEmpty
    <3>8. (u \o waiting) \o held = u \o dead
      BY <3>1, ConcatAssoc
    <3>9. OnTheWay(r)' \o dead = SaidOf(runs'[r].segs)
      BY <1>3, <1>5, <3>4, <3>5, <3>7, <3>8
    <3> HIDE DEF dead
    <3>10. PICK end \in Seq(Atom) : end = dead
      BY <3>2
    <3>11. Lost(r, end)'
      BY <1>3, <1>5, <3>9, <3>10 DEF Lost
    <3> QED
      BY <2>3, <3>11
  <2> QED
    BY <2>2, <2>3
<1>9. NothingLost'
  BY <1>2, <1>8 DEF NothingLost
<1> QED
  BY <1>4, <1>6, <1>7, <1>9 DEF WireInv

-----------------------------------------------------------------------------
(* The steps that publish.                                                 *)

\* A step of a run that publishes exactly what it adds to its segments.
LEMMA PublishingSays ==
    ASSUME StreamTypeOK, StreamTypeOK', WireInv, NEW r \in Runs, runs[r].pc = "streaming",
           NEW segs, runs' = [runs EXCEPT ![r] = [runs[r] EXCEPT !.segs = segs, !.saved = FALSE]],
           NEW boundary \in Seq(Events), AllOf(boundary, r), NEW delta \in Seq(Events),
           delta = <<>> \/ \E e \in Events : delta = <<e>> /\ e.phase = "delta" /\ e.run = r,
           Publish(r, boundary, delta), UNCHANGED <<deployment, task, channel>>,
           SaidOf(segs) = SaidOf(runs[r].segs) \o (AtomsOf(boundary) \o AtomsOf(delta))
    PROVE  WireInv'
<1> DEFINE run == [runs[r] EXCEPT !.segs = segs, !.saved = FALSE]
           extra == AtomsOf(boundary) \o AtomsOf(delta)
<1>1. runs \in [Runs -> RunStates] /\ runs[r] \in RunStates
      /\ Runs' = Runs /\ Bridged' = Bridged /\ Lossy' = Lossy
  BY Unchanged, SameBounds
<1>2. run.segs = segs
  BY <1>1 DEF RunStates
<1> HIDE DEF run
<1>3. runs' = [runs EXCEPT ![r] = run]
  BY DEF run
<1>4. runs'[r] = run /\ \A q \in Runs : q # r => runs'[q] = runs[q]
  BY <1>1, <1>3
<1>5. /\ \A q \in Runs : AllOf(outbox'[q], q) /\ AllOf(buffer'[q], q)
      /\ ~Bridged => \A q \in Runs : outbox'[q] = <<>>
      /\ Lossy => heard' = heard
      /\ \A q \in Runs : q # r => OnTheWay(q)' = OnTheWay(q)
      /\ ~Lossy => OnTheWay(r)' = OnTheWay(r) \o extra
  BY PublishSays DEF WireInv
<1> HIDE DEF extra
<1>6. RunsInTurn'
  BY <1>3, TaskGen, TurnOfRun DEF WireInv
<1>7. OwnEvents'
  BY <1>1, <1>5 DEF OwnEvents
<1>8. WireInUse'
  BY <1>1, <1>5 DEF WireInUse, WireInv
<1>9. NothingLost'
  <2>1. SaidOf(runs'[r].segs) = SaidOf(runs[r].segs) \o extra
    BY <1>2, <1>4 DEF extra
  <2> QED
    BY <1>4, <1>5, <2>1, MoreSaid DEF WireInv
<1> QED
  BY <1>6, <1>7, <1>8, <1>9 DEF WireInv

-----------------------------------------------------------------------------
LEMMA SaidLonger ==
    ASSUME deployment \in Deployments, NEW i \in Nat, NEW seg \in Segments, NEW longer \in Segments,
           seg.status = "inProgress", longer.status = "inProgress", NEW more \in Seq(Nat),
           longer.text = seg.text \o more
    PROVE  Said(i, longer) = Said(i, seg) \o Deltas(i, more)
<1> DEFINE start == <<<<"start", i, 0>>>>
           d == Deltas(i, seg.text)
           m == Deltas(i, more)
<1>1. start \in Seq(Atom) /\ d \in Seq(Atom) /\ m \in Seq(Atom) /\ seg.text \in Seq(Nat)
  BY SaidType, DeltasType
<1>2. EndOf(i, seg) = <<>> /\ EndOf(i, longer) = <<>>
  BY DEF EndOf
<1>3. Deltas(i, longer.text) = d \o m
  BY <1>1, DeltasOfConcat
<1> HIDE DEF start, d, m
<1>4. Said(i, seg) = (start \o d) \o <<>> /\ Said(i, longer) = (start \o (d \o m)) \o <<>>
  BY <1>2, <1>3 DEF Said, start, d
<1>5. start \o d \in Seq(Atom) /\ d \o m \in Seq(Atom)
  BY <1>1, Concat
<1>6. start \o (d \o m) \in Seq(Atom)
  BY <1>1, <1>5, Concat
<1>7. Said(i, seg) = start \o d /\ Said(i, longer) = start \o (d \o m)
  BY <1>4, <1>5, <1>6, ConcatEmpty
<1>8. (start \o d) \o m = start \o (d \o m)
  BY <1>1, ConcatAssoc
<1> QED
  BY <1>7, <1>8 DEF m

LEMMA SaidBegun ==
    ASSUME NEW i \in Nat, NEW seg, seg.status = "inProgress", seg.text \in Seq(Nat)
    PROVE  Said(i, seg) = <<<<"start", i, 0>>>> \o Deltas(i, seg.text)
<1> DEFINE start == <<<<"start", i, 0>>>>
           d == Deltas(i, seg.text)
<1>1. start \in Seq(Atom) /\ d \in Seq(Atom)
  BY OneAtom, DeltasType
<1>2. Said(i, seg) = (start \o d) \o <<>>
  BY DEF Said, EndOf
<1> HIDE DEF start, d
<1>3. start \o d \in Seq(Atom)
  BY <1>1, Concat
<1>4. Said(i, seg) = start \o d
  BY <1>2, <1>3, ConcatEmpty
<1> QED
  BY <1>4 DEF start, d

LEMMA SaidEnded ==
    ASSUME deployment \in Deployments, NEW i \in Nat, NEW seg \in Segments, NEW ended \in Segments,
           seg.status = "inProgress", ended.status = "completed", ended.text = seg.text
    PROVE  Said(i, ended) = Said(i, seg) \o <<<<"end", i, 0>>>>
<1> DEFINE begun == <<<<"start", i, 0>>>> \o Deltas(i, seg.text)
<1>1. Said(i, seg) = begun
  BY SaidType, SaidBegun
<1>2. Said(i, ended) = begun \o <<<<"end", i, 0>>>>
  BY DEF Said, EndOf
<1> QED
  BY <1>1, <1>2

LEMMA EventSays ==
    ASSUME StreamTypeOK, NEW r \in Runs, runs[r].pc # "waiting",
           NEW phase \in {"start", "delta", "end"}, NEW n \in 1..MaxSegments, NEW text \in Seq(Tokens)
    PROVE  LET e == Event(r, phase, n, text) IN
           /\ e \in Events /\ <<e>> \in Seq(Events) /\ AllOf(<<e>>, r) /\ e.run = r /\ e.phase = phase
           /\ phase = "delta" => AtomsOf(<<e>>) = Deltas(n, text)
           /\ phase # "delta" => AtomsOf(<<e>>) = <<<<phase, n, 0>>>>
<1> DEFINE e == Event(r, phase, n, text)
<1>1. e \in Events /\ e.run = r /\ e.phase = phase /\ e.ordinal = n /\ e.text = text
  BY EventType DEF Event
<1> HIDE DEF e
<1>2. AllOf(<<e>>, r) /\ <<e>> \in Seq(Events)
  BY <1>1 DEF AllOf
<1>3. AtomsOf(<<e>>) = Atoms(e)
  BY <1>1, Unchanged, AtomsOfOne
<1>4. /\ phase = "delta" => Atoms(e) = Deltas(n, text)
      /\ phase # "delta" => Atoms(e) = <<<<phase, n, 0>>>>
  BY <1>1 DEF Atoms, Deltas
<1> QED
  BY <1>1, <1>2, <1>3, <1>4 DEF e

LEMMA DeltaSays ==
    ASSUME StreamTypeOK, NEW r \in Runs, runs[r].pc # "waiting",
           NEW n \in 1..MaxSegments, NEW text \in Seq(Tokens),
           NEW e, e = Event(r, "delta", n, text)
    PROVE  /\ e \in Events /\ <<e>> \in Seq(Events) /\ e.run = r /\ e.phase = "delta"
           /\ AtomsOf(<<e>>) = Deltas(n, text)
  BY EventSays

LEMMA StartSays ==
    ASSUME StreamTypeOK, NEW r \in Runs, runs[r].pc # "waiting", NEW n \in 1..MaxSegments,
           NEW e, e = Event(r, "start", n, <<>>)
    PROVE  <<e>> \in Seq(Events) /\ AllOf(<<e>>, r) /\ AtomsOf(<<e>>) = <<<<"start", n, 0>>>>
<1> DEFINE text == <<>>
           phase == "start"
<1>1. text \in Seq(Tokens) /\ phase \in {"start", "delta", "end"}
  OBVIOUS
<1>2. e = Event(r, phase, n, text)
  OBVIOUS
<1> HIDE DEF text, phase
<1>3. <<e>> \in Seq(Events) /\ AllOf(<<e>>, r)
  BY <1>1, <1>2, EventSays
<1>4. phase # "delta" => AtomsOf(<<e>>) = <<<<phase, n, 0>>>>
  BY <1>1, <1>2, EventSays
<1> QED
  BY <1>3, <1>4 DEF phase

LEMMA WordSays ==
    ASSUME StreamTypeOK, NEW word \in Seq(Tokens)
    PROVE  word \in Seq(Nat)
<1>1. Tokens \subseteq Nat
  BY Bounds, Unchanged DEF Tokens
<1> QED
  BY <1>1, WiderSeq

LEMMA WriteSays ==
    ASSUME StreamTypeOK, StreamTypeOK', WireInv, NEW r \in Runs, Write(r) PROVE WireInv'
<1> DEFINE n == Len(runs[r].segs)
           word == <<NextToken>>
           longer == [runs[r].segs EXCEPT ![n] = Longer(r)]
           more == Append(runs[r].segs, Begun)
           said == SaidOf(runs[r].segs)
<1>1. runs[r].segs \in Seq(Segments) /\ n \in Nat /\ deployment \in Deployments /\ MaxSegments \in Nat
  BY RunFields, Unchanged
<1>2. word \in Seq(Tokens) /\ word \in Seq(Nat) /\ runs[r].pc = "streaming" /\ runs[r].pc # "waiting"
      /\ UNCHANGED <<deployment, task, channel>>
  BY WriteIs, WordSays
<1>3. said \in Seq(Atom)
  BY <1>1, SaidSeqs
<1>4. CASE /\ n \in 1..MaxSegments /\ runs[r].segs[n].status = "inProgress"
           /\ Longer(r) \in Segments /\ Longer(r).status = "inProgress"
           /\ Longer(r).text = runs[r].segs[n].text \o word
           /\ runs' = [runs EXCEPT ![r] = [runs[r] EXCEPT !.segs = longer, !.saved = FALSE]]
           /\ Publish(r, <<>>, <<Event(r, "delta", n, word)>>)
  <2> DEFINE e == Event(r, "delta", n, word)
             d == Deltas(n, word)
  <2>1. e \in Events /\ <<e>> \in Seq(Events) /\ e.run = r /\ e.phase = "delta" /\ AtomsOf(<<e>>) = d
    <3> HIDE DEF n, word
    <3>1. n \in 1..MaxSegments
      BY <1>4
    <3>2. \A x : x = Event(r, "delta", n, word) =>
            x \in Events /\ <<x>> \in Seq(Events) /\ x.run = r /\ x.phase = "delta"
            /\ AtomsOf(<<x>>) = Deltas(n, word)
      BY <1>2, <3>1, DeltaSays
    <3> QED
      BY <3>2
  <2>2. d \in Seq(Atom)
    BY <1>1, <1>2, DeltasType
  <2> HIDE DEF e
  <2>3. runs[r].segs[n] \in Segments /\ runs[r].segs # <<>>
    BY <1>1, <1>4
  <2>4. Said(n, Longer(r)) = Said(n, runs[r].segs[n]) \o d
    <3> HIDE DEF n, word
    <3> QED
      BY <1>1, <1>2, <1>4, <2>3, SaidLonger
  <2> HIDE DEF d
  <2>5. SaidOf(longer) = said \o d
    BY <1>1, <1>4, <2>2, <2>3, <2>4, SaidWithLast
  <2>6. AtomsOf(<<>>) \o AtomsOf(<<e>>) = d
    BY <2>1, <2>2, AtomsOfNone, ConcatEmpty
  <2>7. <<>> \in Seq(Events) /\ AllOf(<<>>, r)
    BY DEF AllOf
  <2>8. Publish(r, <<>>, <<e>>)
    BY <1>4 DEF e
  <2> HIDE DEF longer
  <2>9. runs' = [runs EXCEPT ![r] = [runs[r] EXCEPT !.segs = longer, !.saved = FALSE]]
    BY <1>4
  <2> QED
    BY <1>2, <2>1, <2>5, <2>6, <2>7, <2>8, <2>9, PublishingSays
<1>5. CASE /\ n + 1 \in 1..MaxSegments /\ Begun \in Segments
           /\ runs' = [runs EXCEPT ![r] = [runs[r] EXCEPT !.segs = more, !.saved = FALSE]]
           /\ Publish(r, <<Event(r, "start", n + 1, <<>>)>>, <<Event(r, "delta", n + 1, word)>>)
  <2> DEFINE s == Event(r, "start", n + 1, <<>>)
             e == Event(r, "delta", n + 1, word)
             d == Deltas(n + 1, word)
             start == <<<<"start", n + 1, 0>>>>
  <2>2. e \in Events /\ <<e>> \in Seq(Events) /\ e.run = r /\ e.phase = "delta" /\ AtomsOf(<<e>>) = d
    <3> DEFINE m == n + 1
    <3>1. m \in 1..MaxSegments
      BY <1>5
    <3> HIDE DEF m, word
    <3>2. \A x : x = Event(r, "delta", m, word) =>
            x \in Events /\ <<x>> \in Seq(Events) /\ x.run = r /\ x.phase = "delta"
            /\ AtomsOf(<<x>>) = Deltas(m, word)
      BY <1>2, <3>1, DeltaSays
    <3> QED
      BY <3>2 DEF m
  <2>3. <<s>> \in Seq(Events) /\ AllOf(<<s>>, r) /\ AtomsOf(<<s>>) = start
    <3> DEFINE m == n + 1
    <3>1. m \in 1..MaxSegments
      BY <1>5
    <3> HIDE DEF m
    <3>2. \A x : x = Event(r, "start", m, <<>>) =>
            <<x>> \in Seq(Events) /\ AllOf(<<x>>, r) /\ AtomsOf(<<x>>) = <<<<"start", m, 0>>>>
      BY <1>2, <3>1, StartSays
    <3> QED
      BY <3>2 DEF m
  <2> HIDE DEF e, s
  <2>4. Said(n + 1, Begun) = start \o d
    <3>1. Begun.text = word /\ Begun.status = "inProgress"
      BY DEF Begun
    <3>2. n + 1 \in Nat
      BY <1>1
    <3> HIDE DEF word
    <3> QED
      BY <1>2, <3>1, <3>2, SaidBegun
  <2>5. SaidOf(more) = said \o (start \o d)
    BY <1>1, <1>5, <2>4, SaidOfAppend
  <2> HIDE DEF start, d, more, said
  <2>6. SaidOf(more) = said \o (AtomsOf(<<s>>) \o AtomsOf(<<e>>))
    BY <2>2, <2>3, <2>5
  <2>7. Publish(r, <<s>>, <<e>>)
    BY <1>5 DEF e, s
  <2> QED
    BY <1>2, <1>5, <2>2, <2>3, <2>6, <2>7, PublishingSays DEF said
<1> QED
  BY <1>4, <1>5, WriteIs

LEMMA EndSegmentSays ==
    ASSUME StreamTypeOK, StreamTypeOK', WireInv, NEW r \in Runs, EndSegment(r) PROVE WireInv'
<1> DEFINE n == Len(runs[r].segs)
           ended == [runs[r].segs EXCEPT ![n] = Ending(r)]
           text == runs[r].segs[n].text
           e == Event(r, "end", n, text)
           end == <<<<"end", n, 0>>>>
           said == SaidOf(runs[r].segs)
<1>1. runs[r].segs \in Seq(Segments) /\ n \in Nat /\ deployment \in Deployments /\ MaxSegments \in Nat
  BY RunFields, Unchanged
<1>2. /\ runs[r].pc = "streaming" /\ n \in 1..MaxSegments /\ runs[r].segs[n] \in Segments
      /\ runs[r].segs[n].status = "inProgress" /\ Ending(r) \in Segments
      /\ Ending(r).text = text /\ Ending(r).status = "completed"
      /\ runs' = [runs EXCEPT ![r] = [runs[r] EXCEPT !.segs = ended, !.saved = FALSE]]
      /\ Publish(r, <<e>>, <<>>) /\ UNCHANGED <<deployment, task, channel>>
  BY EndSegmentIs
<1>3. text \in Seq(Tokens) /\ runs[r].pc # "waiting" /\ runs[r].segs # <<>>
  BY <1>1, <1>2 DEF Segments
<1>4. <<e>> \in Seq(Events) /\ AllOf(<<e>>, r) /\ AtomsOf(<<e>>) = end
  BY <1>2, <1>3, EventSays
<1>5. end \in Seq(Atom)
  BY <1>1, OneAtom
<1>6. Said(n, Ending(r)) = Said(n, runs[r].segs[n]) \o end
  <2> HIDE DEF n
  <2> QED
    BY <1>1, <1>2, SaidEnded
<1> HIDE DEF end, e, text
<1>7. SaidOf(ended) = said \o end
  BY <1>1, <1>2, <1>3, <1>5, <1>6, SaidWithLast
<1>8. AtomsOf(<<e>>) \o AtomsOf(<<>>) = end
  BY <1>4, <1>5, AtomsOfNone, ConcatEmpty
<1>9. <<>> \in Seq(Events)
  OBVIOUS
<1> HIDE DEF ended
<1> QED
  BY <1>2, <1>4, <1>7, <1>8, <1>9, PublishingSays

-----------------------------------------------------------------------------
(* The invariant holds, and what was heard is a beginning.                 *)

LEMMA InitSays == Init => WireInv
<1> SUFFICES ASSUME Init PROVE WireInv
  OBVIOUS
<1>0. deployment \in Deployments
  BY DEF Init
<1>1. \A r \in Runs : /\ runs[r] = Unstarted /\ outbox[r] = <<>> /\ buffer[r] = <<>>
                      /\ heard[r] = <<>> /\ runs[r].segs = <<>>
  BY DEF Init, Unstarted
<1>2. channel = <<>> /\ task.gen = 1 /\ 1 \in Runs
  BY <1>0, Bounds DEF Init
<1>3. RunsInTurn
  BY <1>1, <1>2 DEF RunsInTurn
<1>4. OwnEvents /\ WireInUse
  BY <1>1, <1>2 DEF OwnEvents, WireInUse, AllOf
<1>5. ASSUME NEW r \in Runs PROVE \E rest \in Seq(Atom) : Lost(r, rest)
  <2>1. <<>> \in Seq(Atom)
    OBVIOUS
  <2>2. Flying(channel, r) = <<>> /\ AtomsOf(outbox[r]) = <<>> /\ AtomsOf(buffer[r]) = <<>>
    BY <1>1, <1>2, FlyingNone, AtomsOfNone
  <2>3. <<>> \o <<>> = <<>>
    BY <2>1, ConcatEmpty
  <2>4. OnTheWay(r) = <<>>
    BY <1>1, <2>2, <2>3 DEF OnTheWay, Sent
  <2>5. SaidOf(runs[r].segs) = <<>>
    BY <1>1, SaidOfNone
  <2> QED
    BY <2>1, <2>3, <2>4, <2>5 DEF Lost
<1> QED
  BY <1>3, <1>4, <1>5 DEF WireInv, NothingLost

\* A step of the wire or of the reader changes no run and no task.
LEMMA QuietSays ==
    ASSUME StreamTypeOK, WireInv, UNCHANGED <<deployment, task, runs>>, OwnEvents', WireInUse',
           \A q \in Runs : ~Lossy => OnTheWay(q)' = OnTheWay(q)
    PROVE  WireInv'
<1>1. Runs' = Runs /\ Unstarted' = Unstarted
  BY SameBounds DEF Unstarted
<1>2. RunsInTurn'
  BY <1>1 DEF WireInv, RunsInTurn
<1>3. NothingLost'
  BY SameSaid DEF WireInv
<1> QED
  BY <1>2, <1>3 DEF WireInv

LEMMA StepSays ==
    ASSUME StreamTypeOK, StreamTypeOK', WireInv, [Next]_vars PROVE WireInv'
<1>1. CASE UNCHANGED vars \/ Connect \/ PollRead \/ PollHandle
  <2>1. UNCHANGED <<deployment, task, runs>> /\ UNCHANGED <<deployment, heard, channel, outbox, buffer>>
    BY <1>1 DEF vars, storeVars, wireVars, Connect, PollRead, PollHandle
  <2> QED
    BY <2>1, SameWire, QuietSays DEF WireInv
<1>2. CASE Claim
  BY <1>2, ClaimSays
<1>3. CASE TakeOver
  BY <1>3, TakeOverSays
<1>4. ASSUME NEW r \in Runs, RunStep(r) \/ WorkerDies(r) PROVE WireInv'
  BY <1>4, WriteSays, EndSegmentSays, CheckpointSays, FinishSays, WorkerDiesSays DEF RunStep
<1>5. ASSUME NEW r \in Runs, WireStep(r) PROVE WireInv'
  <2>1. OwnEvents /\ WireInUse
    BY DEF WireInv
  <2>2. CASE FlushTick(r)
    <3>1. UNCHANGED <<deployment, task, runs>>
      BY <2>2 DEF FlushTick, storeVars
    <3> QED
      BY <2>1, <2>2, <3>1, FlushTickSays, QuietSays
  <2>3. CASE PublishMessage(r)
    <3>1. UNCHANGED <<deployment, task, runs>>
      BY <2>3 DEF PublishMessage, storeVars
    <3> QED
      BY <2>1, <2>3, <3>1, PublishMessageSays, QuietSays
  <2> QED
    BY <1>5, <2>2, <2>3 DEF WireStep
<1>6. CASE BridgeMessage
  <2>1. OwnEvents /\ WireInUse
    BY DEF WireInv
  <2>2. UNCHANGED <<deployment, task, runs>>
    BY <1>6 DEF BridgeMessage, storeVars
  <2> QED
    BY <1>6, <2>1, <2>2, BridgeMessageSays, QuietSays
<1> QED
  BY <1>1, <1>2, <1>3, <1>4, <1>5, <1>6 DEF Next

-----------------------------------------------------------------------------
LEMMA Beginning ==
    ASSUME NEW S, NEW s \in Seq(S), NEW t \in Seq(S)
    PROVE  IsPrefix(s, s \o t)
  BY DEF IsPrefix

LEMMA HeardIsBeginning ==
    ASSUME StreamTypeOK, WireInv PROVE HeardInOrder
<1> SUFFICES ASSUME NEW r \in Runs PROVE IsPrefix(heard[r], SaidOf(runs[r].segs))
  BY PublishedIs DEF HeardInOrder
<1> DEFINE h == heard[r]
           f == Flying(channel, r)
           o == AtomsOf(outbox[r])
           b == AtomsOf(buffer[r])
           said == SaidOf(runs[r].segs)
<1>1. h \in Seq(Atom) /\ f \in Seq(Atom) /\ o \in Seq(Atom) /\ b \in Seq(Atom)
  BY WireTypes
<1>2. said \in Seq(Atom)
  BY RunFields, Unchanged, SaidSeqs
<1>3. OnTheWay(r) = ((h \o f) \o o) \o b
  BY DEF OnTheWay, Sent
<1>4. CASE ~Lossy
  <2>1. PICK rest \in Seq(Atom) : OnTheWay(r) \o rest = said
    BY <1>4 DEF WireInv, NothingLost, Lost
  <2> HIDE DEF h, f, o, b, said
  <2> DEFINE hf == h \o f
             hfo == hf \o o
             br == b \o rest
             obr == o \o br
             all == f \o obr
  <2>2. hf \in Seq(Atom) /\ br \in Seq(Atom)
    BY <1>1, Concat
  <2>3. hfo \in Seq(Atom)
    BY <1>1, <2>2, Concat
  <2>4. obr \in Seq(Atom)
    BY <1>1, <2>2, Concat
  <2>5. all \in Seq(Atom)
    BY <1>1, <2>4, Concat
  <2>6. said = (hfo \o b) \o rest
    BY <1>3, <2>1
  <2> HIDE DEF hfo, hf
  <2>7. (hfo \o b) \o rest = hfo \o br
    BY <1>1, <2>3, ConcatAssoc
  <2> HIDE DEF br
  <2>8. (hf \o o) \o br = hf \o obr
    <3>1. hf \in Seq(Atom) /\ o \in Seq(Atom) /\ br \in Seq(Atom)
      BY <1>1, <2>2
    <3> QED
      BY <3>1, ConcatAssoc
  <2> HIDE DEF obr
  <2>9. (h \o f) \o obr = h \o all
    <3>1. h \in Seq(Atom) /\ f \in Seq(Atom) /\ obr \in Seq(Atom)
      BY <1>1, <2>4
    <3>2. (h \o f) \o obr = h \o (f \o obr)
      BY <3>1, ConcatAssoc
    <3> HIDE DEF hfo, hf
    <3> QED
      BY <3>2
  <2>10. said = h \o all
    BY <2>6, <2>7, <2>8, <2>9 DEF hfo, hf
  <2> HIDE DEF all
  <2>11. IsPrefix(h, h \o all)
    BY <1>1, <2>5, Beginning
  <2> QED
    BY <2>10, <2>11 DEF h, said
<1>5. CASE Lossy
  <2>1. h = <<>>
    BY <1>5 DEF WireInv, WireInUse
  <2>2. <<>> \o said = said /\ <<>> \in Seq(Atom)
    BY <1>2, ConcatEmpty
  <2> HIDE DEF h, said
  <2>3. IsPrefix(<<>>, <<>> \o said)
    BY <1>2, <2>2, Beginning
  <2> QED
    BY <2>1, <2>2, <2>3 DEF h, said
<1> QED
  BY <1>4, <1>5

\* What the API has heard of a run, by localEvent or through Redis, is a beginning of what
\* the run has published: coalescing deltas, flushing them on a tick or before a lifecycle
\* event, batching messages and bridging them leave no word out, repeat none and change no
\* order (publishTaskStreamEvent, flushTaskEvents, flushRedisEvents, startTaskStreamBridge).
\* Of a deployment whose messages may get lost, what was heard is not recorded.
THEOREM StreamHeardInOrder == SafetySpec => []HeardInOrder
<1>1. Init => StreamTypeOK /\ WireInv
  BY InitTypes, InitSays
<1>2. StreamTypeOK /\ WireInv /\ [Next]_vars => StreamTypeOK' /\ WireInv'
  BY StepKeepsTypes, StepSays
<1>3. StreamTypeOK /\ WireInv => HeardInOrder
  BY HeardIsBeginning
<1> QED
  BY <1>1, <1>2, <1>3, PTL DEF SafetySpec

-----------------------------------------------------------------------------
(* The invariant of a single process: what was shown in its completed      *)
(* version is on the screen and in the record, and no event about it is    *)
(* left.                                                                   *)

\* An item in its completed version.
IsDone(item) == item.status = "completed"

\* What was written under an id.
HasSegment(rs, id) == id[2] \in DOMAIN rs[id[1]].segs
Segment(rs, id) == rs[id[1]].segs[id[2]]

\* What was read of the stored task, now that task k is stored and the runs are rs.
TrueRecord(t, k, rs) ==
    /\ t.gen = t.attempt /\ t.attempt <= k.attempt
    /\ t.status = "completed" => t = k
    /\ \A id \in DOMAIN t.events :
          /\ id[1] <= t.attempt /\ HasSegment(rs, id)
          /\ IsDone(t.events[id]) =>
                /\ t.events[id] = Segment(rs, id)
                /\ id \in DOMAIN k.events /\ k.events[id] = t.events[id]

\* Run r of a single process, with the task k, all runs rs and their buffers b: it is the
\* only one at work, on the round of its number; segments end before the next begins; what is
\* saved is stored; and deltas wait for the open segment only.
RunAlone(r, k, rs, b) ==
    /\ rs[r].pc # "waiting" => r <= k.gen /\ rs[r].attempt = r
    /\ rs[r].pc = "streaming" => r = k.gen /\ k.status = "running"
    /\ \A i \in DOMAIN rs[r].segs :
          \/ IsDone(rs[r].segs[i])
          \/ rs[r].pc = "streaming" /\ i = Len(rs[r].segs) /\ rs[r].segs[i].status = "inProgress"
    /\ rs[r].pc = "streaming" /\ rs[r].saved =>
          \A i \in DOMAIN rs[r].segs :
             SegmentItem(r, i) \in DOMAIN k.events /\ k.events[SegmentItem(r, i)] = rs[r].segs[i]
    /\ b[r] # <<>> => /\ rs[r].pc = "streaming" /\ Len(rs[r].segs) \in DOMAIN rs[r].segs
                      /\ rs[r].segs[Len(rs[r].segs)].status = "inProgress"
    /\ \A e \in Range(b[r]) : e.run = r /\ e.attempt = r /\ e.ordinal = Len(rs[r].segs)

\* The stored task of a single process: only the round at work has segments in progress.
TaskAlone(k, rs) ==
    /\ TrueRecord(k, k, rs)
    /\ \A id \in DOMAIN k.events : IsDone(k.events[id]) \/ (id[1] = k.attempt /\ k.status = "running")

Settled(s) == {id \in DOMAIN s.versions : IsDone(s.versions[id])}

ShownSettled(s, items) ==
    \A id \in Settled(s) : /\ id[1] <= s.attempt
                           /\ id \in DOMAIN items /\ items[id] = s.versions[id]
Recorded(t, s) == \A id \in Settled(s) : id \in DOMAIN t.events /\ t.events[id] = s.versions[id]

\* The connection s and its screen.
ReaderAlone(s, items, k, rs) ==
    s.pc \in {"reading", "handling"} =>
        /\ IF s.ready THEN s.gen = s.attempt ELSE DOMAIN s.versions = {}
        /\ \A e \in Range(s.pending) : e.run = e.attempt /\ (s.ready => e.attempt # s.attempt)
        /\ ShownSettled(s, items) /\ Recorded(k, s)
        /\ s.ready /\ s.pc = "reading" => s.attempt <= k.attempt
        /\ s.pc = "handling" =>
              /\ TrueRecord(s.seen, k, rs) /\ Recorded(s.seen, s)
              /\ s.ready => s.attempt <= s.seen.attempt

DoneAlone(s, items, k) ==
    s.pc = "done" =>
        /\ k.status = "completed"
        /\ \A id \in DOMAIN StoredItems(k) : id \in DOMAIN items /\ items[id] = StoredItems(k)[id]

AloneInv ==
    ~Bridged => /\ TaskAlone(task, runs) /\ \A r \in Runs : RunAlone(r, task, runs, buffer)
                /\ ReaderAlone(sse, screen, task, runs) /\ DoneAlone(sse, screen, task)

-----------------------------------------------------------------------------
(* What is shown in a completed version, no event changes.                 *)

\* d shows all that c had settled, as c showed it.
KeepsSettled(c, d) ==
    \A id \in Settled(d.sse) :
        /\ id \in Settled(c.sse) /\ d.sse.versions[id] = c.sse.versions[id]
        /\ id \in DOMAIN c.screen => id \in DOMAIN d.screen /\ d.screen[id] = c.screen[id]

ItemOf(e) == SegmentItem(e.attempt, e.ordinal)

LEMMA ShowDeltaKeeps ==
    ASSUME NEW items, NEW id, NEW text
    PROVE  \A x \in DOMAIN items : x # id => /\ x \in DOMAIN ShowDelta(items, id, text)
                                             /\ ShowDelta(items, id, text)[x] = items[x]
<1>1. CASE id \in DOMAIN items
  <2> DEFINE item == [items[id] EXCEPT !.text = @ \o text]
             shown == [items EXCEPT ![id] = item]
  <2>1. ShowDelta(items, id, text) = shown
    BY <1>1 DEF ShowDelta
  <2> HIDE DEF item
  <2>2. DOMAIN shown = DOMAIN items /\ \A x \in DOMAIN items : x # id => shown[x] = items[x]
    OBVIOUS
  <2> QED
    BY <2>1, <2>2
<1>2. CASE id \notin DOMAIN items
  <2> DEFINE item == [text |-> text, status |-> "inProgress"]
  <2>1. ShowDelta(items, id, text) = Put(items, id, item)
    BY <1>2 DEF ShowDelta
  <2> HIDE DEF item
  <2> QED
    BY <2>1 DEF Put
<1> QED
  BY <1>1, <1>2

LEMMA ShowEventKeeps ==
    ASSUME NEW c \in Connections, NEW e \in Events, ItemOf(e) \notin Settled(c.sse)
    PROVE  KeepsSettled(c, ShowEvent(c, e))
<1> DEFINE id == ItemOf(e)
           s == [c.sse EXCEPT !.segmented = TRUE]
           d == ShowEvent(c, e)
<1>1. c.sse \in Routes
  BY ConnectionParts
<1>2. s.versions = c.sse.versions /\ s.sent = c.sse.sent
  BY <1>1 DEF Routes
<1>3. e.phase \in {"start", "delta", "end"} /\ id \notin Settled(c.sse)
  BY DEF Events
<1> HIDE DEF s
<1>4. CASE e.phase = "start"
  <2> DEFINE item == [text |-> <<>>, status |-> "inProgress"]
  <2>1. d = [sse |-> s, screen |-> ShowItem(c.screen, id, item)]
    BY <1>4 DEF ShowEvent, ItemOf, s
  <2> HIDE DEF item, d, id
  <2>2. d.sse = s /\ d.screen = Put(c.screen, id, item)
    BY <2>1 DEF ShowItem
  <2>3. KeepsSettled(c, d)
    BY <1>2, <1>3, <2>2 DEF KeepsSettled, Settled, Put
  <2> QED
    BY <2>3 DEF d
<1>5. CASE e.phase = "delta"
  <2> DEFINE u == [s EXCEPT !.sent = @ + Len(e.text)]
  <2>1. d = [sse |-> u, screen |-> ShowDelta(c.screen, id, e.text)]
    BY <1>5 DEF ShowEvent, ItemOf, s
  <2>2. u.versions = s.versions
    <3>1. s = [c.sse EXCEPT !.segmented = TRUE]
      BY DEF s
    <3> QED
      BY <1>1, <3>1 DEF Routes
  <2> HIDE DEF u, d, id
  <2>3. d.sse = u /\ d.screen = ShowDelta(c.screen, id, e.text)
    BY <2>1
  <2>4. KeepsSettled(c, d)
    BY <1>2, <1>3, <2>2, <2>3, ShowDeltaKeeps DEF KeepsSettled, Settled
  <2> QED
    BY <2>4 DEF d
<1>6. CASE e.phase = "end"
  <2> DEFINE u == [s EXCEPT !.versions = Put(@, id, LiveVersion)]
             item == [text |-> e.text, status |-> "completed"]
  <2>1. d = [sse |-> u, screen |-> ShowItem(c.screen, id, item)]
    BY <1>6 DEF ShowEvent, ItemOf, s
  <2>2. u.versions = Put(c.sse.versions, id, LiveVersion)
    <3>1. s = [c.sse EXCEPT !.segmented = TRUE]
      BY DEF s
    <3> QED
      BY <1>1, <1>2, <3>1 DEF Routes
  <2> HIDE DEF item, d, u, id
  <2>3. d.sse = u /\ d.screen = Put(c.screen, id, item)
    BY <2>1 DEF ShowItem
  <2>4. ~IsDone(LiveVersion)
    BY DEF LiveVersion, IsDone
  <2>5. /\ DOMAIN d.sse.versions = DOMAIN c.sse.versions \cup {id} /\ d.sse.versions[id] = LiveVersion
        /\ \A x \in DOMAIN c.sse.versions : x # id => d.sse.versions[x] = c.sse.versions[x]
    BY <2>2, <2>3 DEF Put
  <2>6. ASSUME NEW x \in Settled(d.sse)
        PROVE  x # id /\ x \in Settled(c.sse) /\ d.sse.versions[x] = c.sse.versions[x]
    BY <2>4, <2>5 DEF Settled
  <2>7. \A x \in DOMAIN c.screen : x # id => x \in DOMAIN d.screen /\ d.screen[x] = c.screen[x]
    BY <2>3 DEF Put
  <2>8. KeepsSettled(c, d)
    BY <2>6, <2>7 DEF KeepsSettled
  <2> QED
    BY <2>8 DEF d
<1> QED
  BY <1>3, <1>4, <1>5, <1>6

LEMMA KeepsSettledTwice ==
    ASSUME NEW c, NEW d, NEW e, KeepsSettled(c, d), KeepsSettled(d, e)
    PROVE  KeepsSettled(c, e)
  BY DEF KeepsSettled

LEMMA ListenKeeps ==
    ASSUME deployment \in Deployments, NEW gate, NEW c \in Connections, NEW e \in Events,
           Passes(gate, e) => ItemOf(e) \notin Settled(c.sse), NEW d, d = Listen(gate, c, e)
    PROVE  /\ KeepsSettled(c, d)
           /\ \A x \in Range(d.sse.pending) :
                 x \in Range(c.sse.pending) \/ (x = e /\ ~Passes(gate, e))
<1>1. CASE Passes(gate, e)
  <2>1. d = ShowEvent(c, e)
    BY <1>1 DEF Listen
  <2> QED
    BY <1>1, <2>1, ShowEventKeeps, ShowEventType
<1>2. CASE ~Passes(gate, e)
  <2> DEFINE more == Append(c.sse.pending, e)
             u == [c.sse EXCEPT !.pending = more]
  <2>1. c.sse \in Routes /\ c = [sse |-> c.sse, screen |-> c.screen]
    BY ConnectionParts
  <2>2. Listen(gate, c, e) = [sse |-> u, screen |-> c.screen]
    <3> HIDE DEF more
    <3>1. Listen(gate, c, e) = [c EXCEPT !.sse.pending = more]
      BY <1>2 DEF Listen, more
    <3> QED
      BY <2>1, <3>1
  <2>3. u.versions = c.sse.versions /\ u.pending = more /\ c.sse.pending \in Seq(Events)
    <3> HIDE DEF more
    <3> QED
      BY <2>1 DEF Routes
  <2> HIDE DEF u
  <2>4. Range(more) \subseteq Range(c.sse.pending) \cup {e}
    <3> DEFINE p == c.sse.pending
    <3>1. p \in Seq(Events)
      BY <2>3
    <3> HIDE DEF p
    <3>2. \A i \in DOMAIN Append(p, e) : (i \in DOMAIN p /\ Append(p, e)[i] = p[i]) \/ Append(p, e)[i] = e
      BY <3>1
    <3>3. Range(Append(p, e)) \subseteq Range(p) \cup {e}
      BY <3>2 DEF Range
    <3> QED
      BY <3>3 DEF p
  <2> HIDE DEF more
  <2>5. KeepsSettled(c, d) /\ d.sse.pending = more
    BY <2>2, <2>3 DEF KeepsSettled, Settled
  <2> QED
    BY <1>2, <2>4, <2>5
<1> QED
  BY <1>1, <1>2

LEMMA FoldListenKeeps ==
    ASSUME deployment \in Deployments, NEW gate, NEW c \in Connections, NEW events \in Seq(Events),
           \A e \in Range(events) : Passes(gate, e) => ItemOf(e) \notin Settled(c.sse)
    PROVE  LET d == ListenAll(gate, c, events) IN
           /\ KeepsSettled(c, d)
           /\ \A e \in Range(d.sse.pending) :
                 e \in Range(c.sse.pending) \/ (e \in Range(events) /\ ~Passes(gate, e))
<1>1. PICK n \in Nat : n = Len(events)
  OBVIOUS
<1>2. PICK h : ListensTo(h, gate, c, events, n) /\ ListenAll(gate, c, events) = h[n]
  BY <1>1, FoldOfListen
<1> DEFINE Good(d) == /\ d \in Connections /\ KeepsSettled(c, d)
                      /\ \A e \in Range(d.sse.pending) :
                            e \in Range(c.sse.pending) \/ (e \in Range(events) /\ ~Passes(gate, e))
           G == {k \in Nat : k <= n => Good(h[k])}
<1>3. 0 \in G
  <2>1. Good(h[0])
    BY <1>2 DEF ListensTo, KeepsSettled
  <2> QED
    BY <2>1
<1>4. ASSUME NEW k \in Nat, k \in G PROVE k + 1 \in G
  <2> SUFFICES ASSUME k + 1 <= n PROVE Good(h[k + 1])
    OBVIOUS
  <2>1. k + 1 \in 1..n /\ events[k + 1] \in Events /\ Good(h[k])
    BY <1>1, <1>4
  <2>2. h[k + 1] = Listen(gate, h[k], events[k + 1])
    BY <1>2, <2>1 DEF ListensTo
  <2>3. h[k + 1] \in Connections
    BY <2>1, <2>2, ListenType
  <2> DEFINE e == events[k + 1]
             b == h[k]
  <2>4. e \in Range(events)
    BY <1>1, <2>1 DEF Range
  <2>5. Passes(gate, e) => ItemOf(e) \notin Settled(h[k].sse)
    BY <2>1, <2>4 DEF KeepsSettled
  <2>6. KeepsSettled(h[k], h[k + 1])
        /\ \A x \in Range(h[k + 1].sse.pending) :
              x \in Range(h[k].sse.pending) \/ (x = e /\ ~Passes(gate, e))
    <3>1. b \in Connections /\ e \in Events /\ h[k + 1] = Listen(gate, b, e)
          /\ (Passes(gate, e) => ItemOf(e) \notin Settled(b.sse))
      BY <2>1, <2>2, <2>5
    <3> HIDE DEF b, e
    <3> DEFINE d == h[k + 1]
    <3> HIDE DEF d
    <3>0. d = Listen(gate, b, e)
      BY <3>1 DEF d
    <3>2. KeepsSettled(b, d)
          /\ \A x \in Range(d.sse.pending) :
                x \in Range(b.sse.pending) \/ (x = e /\ ~Passes(gate, e))
      BY <3>0, <3>1, ListenKeeps
    <3> QED
      BY <3>2 DEF b, e, d
  <2>7. KeepsSettled(c, h[k + 1])
    BY <2>1, <2>6, KeepsSettledTwice
  <2>8. \A x \in Range(h[k + 1].sse.pending) :
            x \in Range(c.sse.pending) \/ (x \in Range(events) /\ ~Passes(gate, x))
    BY <2>1, <2>4, <2>6
  <2> QED
    BY <2>3, <2>7, <2>8
<1> HIDE DEF G
<1>5. Nat \subseteq G
  BY <1>3, <1>4, SetInduction
<1> QED
  BY <1>1, <1>2, <1>5 DEF G

\* A gate that is closed shows nothing.
LEMMA ClosedGateShowsNothing ==
    ASSUME deployment \in Deployments, NEW gate, NEW c \in Connections, NEW events \in Seq(Events),
           \A e \in Range(events) : ~Passes(gate, e)
    PROVE  ListenAll(gate, c, events).sse.versions = c.sse.versions
<1>1. PICK n \in Nat : n = Len(events)
  OBVIOUS
<1>2. PICK h : ListensTo(h, gate, c, events, n) /\ ListenAll(gate, c, events) = h[n]
  BY <1>1, FoldOfListen
<1> DEFINE Good(d) == d \in Connections /\ d.sse.versions = c.sse.versions
           G == {k \in Nat : k <= n => Good(h[k])}
<1>3. 0 \in G
  BY <1>2 DEF ListensTo
<1>4. ASSUME NEW k \in Nat, k \in G PROVE k + 1 \in G
  <2> SUFFICES ASSUME k + 1 <= n PROVE Good(h[k + 1])
    OBVIOUS
  <2> DEFINE e == events[k + 1]
             b == h[k]
             more == Append(b.sse.pending, e)
  <2>1. k + 1 \in 1..n /\ e \in Events /\ Good(b)
    BY <1>1, <1>4
  <2>2. h[k + 1] = Listen(gate, b, e) /\ ~Passes(gate, e)
    <3>1. e \in Range(events)
      BY <1>1, <2>1 DEF Range
    <3> QED
      BY <1>2, <2>1, <3>1 DEF ListensTo
  <2>3. h[k + 1] \in Connections
    BY <2>1, <2>2, ListenType
  <2> HIDE DEF b, e
  <2>4. b \in Connections /\ b.sse \in Routes /\ b = [sse |-> b.sse, screen |-> b.screen]
    BY <2>1, ConnectionParts
  <2>5. Listen(gate, b, e) = [b EXCEPT !.sse.pending = more]
    BY <2>2 DEF Listen
  <2> HIDE DEF more
  <2>6. Listen(gate, b, e).sse = [b.sse EXCEPT !.pending = more]
    BY <2>4, <2>5
  <2>7. [b.sse EXCEPT !.pending = more].versions = b.sse.versions
    BY <2>4 DEF Routes
  <2> QED
    BY <2>1, <2>2, <2>3, <2>6, <2>7
<1> HIDE DEF G
<1>5. Nat \subseteq G
  BY <1>3, <1>4, SetInduction
<1> QED
  BY <1>1, <1>2, <1>5 DEF G

-----------------------------------------------------------------------------
(* One round of the route, in a single process.                            *)

\* A record without items of later rounds, or of a whole text.
CleanRecord(t) == \A id \in DOMAIN t.events : id[1] <= t.attempt /\ id[2] # 0

\* A round of the route that has set its gate: what was settled is in the record it has
\* read and on the screen, and no event in wait is about it.
RoundAlone(c) ==
    /\ OpenPolling(c) /\ c.sse.gen = c.sse.seen.gen
    /\ c.sse.seen.gen = c.sse.seen.attempt /\ CleanRecord(c.sse.seen)
    /\ ShownSettled(c.sse, c.screen) /\ Recorded(c.sse.seen, c.sse)
    /\ c.sse.attempt <= c.sse.seen.attempt
    /\ \A e \in Range(c.sse.pending) :
          e.run = e.attempt /\ (e.attempt = c.sse.attempt => ItemOf(e) \notin Settled(c.sse))

\* The gate is that of the round that was read, and what passes it was shown.
RoundDrained(c) ==
    /\ RoundAlone(c) /\ c.sse.attempt = c.sse.seen.attempt
    /\ \A e \in Range(c.sse.pending) : e.attempt # c.sse.attempt

LEMMA SettledIds ==
    ASSUME deployment \in Deployments, NEW c \in Connections
    PROVE  /\ Settled(c.sse) \subseteq Ids
           /\ \A id \in Ids : id[1] \in Nat /\ id[1] \in Runs /\ id[2] \in Nat /\ id = <<id[1], id[2]>>
<1>1. c.sse \in Routes
  BY ConnectionParts
<1>2. c.sse.versions \in VersionMaps
  BY <1>1 DEF Routes
<1>3. Settled(c.sse) \subseteq Ids
  BY <1>2, VersionMapIs DEF Settled
<1>4. MaxRuns \in Nat /\ MaxSegments \in Nat
  BY Bounds
<1>5. \A id \in Ids : id[1] \in Runs /\ id[2] \in 0..MaxSegments /\ id = <<id[1], id[2]>>
  BY DEF Ids
<1> QED
  BY <1>3, <1>4, <1>5 DEF Runs

LEMMA TaskRounds ==
    ASSUME deployment \in Deployments, NEW t \in Tasks
    PROVE  /\ t.attempt \in Runs /\ t.attempt \in Nat /\ t.gen \in Runs /\ t.gen \in Nat
           /\ t.events \in ItemMaps
<1>1. t.attempt \in Runs /\ t.gen \in Runs /\ t.events \in ItemMaps
  BY DEF Tasks
<1>2. MaxRuns \in Nat
  BY Bounds
<1> QED
  BY <1>1, <1>2 DEF Runs

\* Items of a record that were shown as they are stored stay on the screen.
LEMMA ReconcileKeeps ==
    ASSUME NEW items, NEW stored, NEW id \in DOMAIN stored, id \in DOMAIN items,
           items[id] = stored[id], stored \in ItemMaps
    PROVE  id \in DOMAIN Reconcile(items, stored) /\ Reconcile(items, stored)[id] = stored[id]
<1> DEFINE kept == {x \in DOMAIN items \ DOMAIN stored : items[x].status = "inProgress"}
           all == [x \in DOMAIN stored \cup kept |->
                      IF x \in kept THEN items[x]
                      ELSE IF x \in DOMAIN items /\ Len(items[x].text) > Len(stored[x].text)
                           THEN [stored[x] EXCEPT !.text = items[x].text]
                           ELSE stored[x]]
<1>1. Reconcile(items, stored) = all
  BY DEF Reconcile
<1>2. id \in DOMAIN all /\ id \notin kept
  OBVIOUS
<1>3. ~(Len(items[id].text) > Len(stored[id].text))
  <2>1. stored[id] \in Segments
    BY ItemMapIs
  <2>2. stored[id].text \in Seq(Tokens)
    BY <2>1 DEF Segments
  <2>3. Len(stored[id].text) \in Nat
    BY <2>2
  <2>4. items[id].text = stored[id].text
    OBVIOUS
  <2> QED
    BY <2>3, <2>4
<1>4. all[id] = stored[id]
  <2> HIDE DEF kept
  <2> QED
    BY <1>2, <1>3
<1> HIDE DEF all
<1> QED
  BY <1>1, <1>2, <1>4

LEMMA StartTurnAlone ==
    ASSUME deployment \in Deployments, NEW c, Polling(c), c.sse.gen = c.sse.seen.gen,
           c.sse.seen.gen = c.sse.seen.attempt, CleanRecord(c.sse.seen),
           ShownSettled(c.sse, c.screen), Recorded(c.sse.seen, c.sse),
           \A e \in Range(c.sse.pending) : e.run = e.attempt,
           IF c.sse.ready
           THEN /\ c.sse.attempt <= c.sse.seen.attempt
                /\ \A e \in Range(c.sse.pending) : e.attempt # c.sse.attempt
           ELSE DOMAIN c.sse.versions = {}
    PROVE  RoundAlone(StartTurn(c)) /\ StartTurn(c).sse.seen = c.sse.seen
<1>1. OpenPolling(StartTurn(c))
  BY StartTurnType
<1>2. CASE c.sse.ready
  BY <1>1, <1>2 DEF StartTurn, RoundAlone
<1>3. CASE ~c.sse.ready
  <2> DEFINE t == c.sse.seen
             a == t.attempt
             s == [c.sse EXCEPT !.ready = TRUE, !.attempt = a]
             d == StartTurn(c)
  <2>1. c.sse \in Routes /\ t \in Tasks
    BY ConnectionParts DEF Polling
  <2>2. d = [sse |-> s, screen |-> Reconcile(c.screen, StoredItems(t))]
    BY <1>3 DEF StartTurn
  <2>3. a \in Nat
    BY <2>1, TaskRounds
  <2> HIDE DEF a
  <2>4. /\ s.gen = c.sse.gen /\ s.seen = t /\ s.versions = c.sse.versions /\ s.pending = c.sse.pending
        /\ s.attempt = a
    BY <2>1 DEF Routes
  <2> HIDE DEF s, d
  <2>5. d.sse = s
    BY <2>2
  <2>6. Settled(d.sse) = {}
    BY <1>3, <2>4, <2>5 DEF Settled
  <2>7. ShownSettled(d.sse, d.screen) /\ Recorded(d.sse.seen, d.sse)
    BY <2>6 DEF ShownSettled, Recorded
  <2>8. a <= a
    BY <2>3
  <2>9. RoundAlone(d)
    BY <1>1, <2>4, <2>5, <2>6, <2>7, <2>8 DEF RoundAlone, a, d
  <2> QED
    BY <2>4, <2>5, <2>9 DEF d
<1> QED
  BY <1>2, <1>3

LEMMA ChangeAttemptAlone ==
    ASSUME deployment \in Deployments, NEW c, RoundAlone(c)
    PROVE  LET d == ChangeAttempt(c) IN
           RoundAlone(d) /\ d.sse.seen = c.sse.seen /\ d.sse.attempt = d.sse.seen.attempt
<1> DEFINE d == ChangeAttempt(c)
           t == c.sse.seen
           a == t.attempt
           old == c.sse.attempt
<1>1. OpenPolling(d)
  BY ChangeAttemptType DEF RoundAlone
<1>2. c \in Connections /\ c.sse \in Routes /\ t \in Tasks /\ old \in Runs
  BY PollingParts DEF RoundAlone, OpenPolling, Polling
<1>3. CASE a = old
  BY <1>3 DEF ChangeAttempt, RoundAlone
<1>4. CASE a # old
  <2> DEFINE segmented == HasSegments(t, t.attempt)
             s == [c.sse EXCEPT !.attempt = a, !.sent = 0, !.started = FALSE, !.segmented = segmented]
             whole == WholeItem(old)
             item == [text |-> <<>>, status |-> "completed"]
             items == IF c.sse.started THEN ShowItem(c.screen, whole, item) ELSE c.screen
  <2>1. d = [sse |-> s, screen |-> items]
    BY <1>4 DEF ChangeAttempt
  <2>2. a \in Nat /\ old \in Nat /\ old < a
    <3>1. a \in Nat /\ old \in Nat /\ old <= a
      <4>1. MaxRuns \in Nat
        BY Bounds
      <4> QED
        BY <1>2, <4>1, TaskRounds DEF RoundAlone, Runs
    <3> QED
      BY <1>4, <3>1
  <2> HIDE DEF a, old, segmented
  <2>3. /\ s.gen = c.sse.gen /\ s.seen = t /\ s.versions = c.sse.versions /\ s.pending = c.sse.pending
        /\ s.attempt = a
    BY <1>2 DEF Routes
  <2> HIDE DEF s, d
  <2>4. d.sse = s /\ d.screen = items /\ Settled(d.sse) = Settled(c.sse)
    BY <2>1, <2>3 DEF Settled
  <2>5. ASSUME NEW id \in Settled(c.sse)
        PROVE  id[1] <= a /\ id[1] # a /\ id \in DOMAIN items /\ items[id] = d.sse.versions[id]
    <3>1. id \in Ids /\ id[1] \in Nat /\ id[1] <= old /\ id \in DOMAIN c.screen
          /\ c.screen[id] = c.sse.versions[id]
      BY <1>2, SettledIds DEF RoundAlone, ShownSettled, old
    <3>2. id[2] # 0
      BY DEF RoundAlone, Recorded, CleanRecord
    <3>3. id # whole
      BY <3>2 DEF WholeItem
    <3>4. id \in DOMAIN items /\ items[id] = c.screen[id]
      <4> HIDE DEF whole, item
      <4> QED
        BY <3>1, <3>3 DEF ShowItem, Put
    <3> QED
      BY <2>2, <2>3, <2>4, <3>1, <3>4
  <2> HIDE DEF items
  <2>6. ShownSettled(d.sse, d.screen)
    BY <2>3, <2>4, <2>5 DEF ShownSettled
  <2>7. Recorded(d.sse.seen, d.sse)
    BY <2>3, <2>4 DEF RoundAlone, Recorded
  <2>8. ASSUME NEW e \in Range(d.sse.pending)
        PROVE  e.run = e.attempt /\ (e.attempt = a => ItemOf(e) \notin Settled(d.sse))
    <3>1. e \in Range(c.sse.pending)
      BY <2>3, <2>4
    <3>2. ItemOf(e)[1] = e.attempt
      BY DEF ItemOf, SegmentItem
    <3> QED
      BY <2>4, <2>5, <3>1, <3>2 DEF RoundAlone
  <2>9. RoundAlone(d) /\ d.sse.seen = t /\ d.sse.attempt = a
    <3>1. a <= a
      BY <2>2
    <3> QED
      BY <1>1, <2>3, <2>4, <2>6, <2>7, <2>8, <3>1 DEF RoundAlone, a
  <2> QED
    BY <2>9 DEF a, d
<1> QED
  BY <1>3, <1>4

LEMMA SendWholeTextAlone ==
    ASSUME deployment \in Deployments, NEW c, RoundAlone(c)
    PROVE  LET d == SendWholeText(c) IN
           RoundAlone(d) /\ d.sse.seen = c.sse.seen /\ d.sse.attempt = c.sse.attempt
<1> DEFINE d == SendWholeText(c)
           t == c.sse.seen
           whole == WholeItem(c.sse.attempt)
           rest == SubSeq(t.partial, c.sse.sent + 1, Len(t.partial))
           size == Len(t.partial)
           item == [text |-> <<>>, status |-> "inProgress"]
           begun == IF c.sse.started THEN c.screen ELSE ShowItem(c.screen, whole, item)
           s == [c.sse EXCEPT !.sent = size, !.started = TRUE]
<1>1. OpenPolling(d)
  BY SendWholeTextType DEF RoundAlone
<1>2. c \in Connections /\ c.sse \in Routes
  BY PollingParts DEF RoundAlone, OpenPolling, Polling
<1>3. CASE c.sse.segmented \/ rest = <<>>
  BY <1>3 DEF SendWholeText
<1>4. CASE ~(c.sse.segmented \/ rest = <<>>)
  <2>1. d = [sse |-> s, screen |-> ShowDelta(begun, whole, rest)]
    BY <1>4 DEF SendWholeText
  <2> HIDE DEF size
  <2>2. /\ s.gen = c.sse.gen /\ s.seen = t /\ s.versions = c.sse.versions /\ s.pending = c.sse.pending
        /\ s.attempt = c.sse.attempt
    BY <1>2 DEF Routes
  <2> HIDE DEF s, d, rest
  <2>3. d.sse = s /\ d.screen = ShowDelta(begun, whole, rest) /\ Settled(d.sse) = Settled(c.sse)
    BY <2>1, <2>2 DEF Settled
  <2>4. ASSUME NEW id \in Settled(c.sse)
        PROVE  id \in DOMAIN d.screen /\ d.screen[id] = c.sse.versions[id]
    <3>1. id \in DOMAIN c.screen /\ c.screen[id] = c.sse.versions[id]
      BY DEF RoundAlone, ShownSettled
    <3>2. id[2] # 0
      BY DEF RoundAlone, Recorded, CleanRecord
    <3>3. id # whole
      BY <3>2 DEF WholeItem
    <3> HIDE DEF whole, item
    <3>4. id \in DOMAIN begun /\ begun[id] = c.screen[id]
      BY <3>1, <3>3 DEF ShowItem, Put
    <3> HIDE DEF begun
    <3> QED
      BY <2>3, <3>1, <3>3, <3>4, ShowDeltaKeeps
  <2>5. ShownSettled(d.sse, d.screen)
    BY <2>2, <2>3, <2>4 DEF RoundAlone, ShownSettled
  <2>6. Recorded(d.sse.seen, d.sse)
    BY <2>2, <2>3 DEF RoundAlone, Recorded
  <2>7. RoundAlone(d)
    BY <1>1, <2>2, <2>3, <2>5, <2>6 DEF RoundAlone
  <2> QED
    BY <2>2, <2>3, <2>7 DEF d
<1> QED
  BY <1>3, <1>4

LEMMA DrainAlone ==
    ASSUME deployment \in Deployments, NEW c, RoundAlone(c), c.sse.attempt = c.sse.seen.attempt
    PROVE  RoundDrained(Drain(c)) /\ Drain(c).sse.seen = c.sse.seen
<1> DEFINE empty == [c.sse EXCEPT !.pending = <<>>]
           begun == [c EXCEPT !.sse.pending = <<>>]
           drained == ListenAll(c.sse, begun, c.sse.pending)
           left == drained.sse.pending
           excess == IF Len(left) > PendingCap THEN Len(left) - PendingCap ELSE 0
           kept == SubSeq(left, excess + 1, Len(left))
           s == [drained.sse EXCEPT !.pending = kept]
           d == Drain(c)
<1>1. OpenPolling(d)
  BY DrainType DEF RoundAlone
<1>2. /\ c \in Connections /\ c.sse \in Routes /\ c.screen \in ItemMaps /\ c.sse.ready
      /\ c.sse.attempt \in Runs /\ c = [sse |-> c.sse, screen |-> c.screen]
  BY PollingParts DEF RoundAlone, OpenPolling, Polling
<1>3. empty \in Routes /\ SameGate(empty, c.sse) /\ empty.versions = c.sse.versions /\ empty.pending = <<>>
  <2>1. <<>> \in Seq(Events)
    OBVIOUS
  <2> QED
    BY <1>2, <2>1 DEF Routes, SameGate
<1>4. begun = [sse |-> empty, screen |-> c.screen]
  BY <1>2
<1> HIDE DEF empty
<1>5. begun \in Connections
  BY <1>2, <1>3, <1>4, ConnectionIs DEF SameGate
<1>6. begun.sse = empty /\ begun.screen = c.screen
  BY <1>4
<1> HIDE DEF begun
<1>7. c.sse.pending \in Seq(Events)
  BY <1>2 DEF Routes
<1>8. drained \in Connections /\ SameGate(drained.sse, empty)
  BY <1>5, <1>6, <1>7, FoldListenType
<1>9. Settled(begun.sse) = Settled(c.sse)
  BY <1>3, <1>6 DEF Settled
<1>10. \A e \in Range(c.sse.pending) : Passes(c.sse, e) => ItemOf(e) \notin Settled(begun.sse)
  BY <1>9 DEF Passes, RoundAlone
<1>11. /\ KeepsSettled(begun, drained)
       /\ \A e \in Range(left) :
             e \in Range(begun.sse.pending) \/ (e \in Range(c.sse.pending) /\ ~Passes(c.sse, e))
  BY <1>5, <1>7, <1>10, FoldListenKeeps
<1>12. Range(begun.sse.pending) = {}
  BY <1>3, <1>6 DEF Range
<1>13. d = [drained EXCEPT !.sse.pending = kept]
  BY DEF Drain, begun
<1> HIDE DEF drained
<1>14. drained.sse \in Routes /\ drained = [sse |-> drained.sse, screen |-> drained.screen]
  BY <1>8, ConnectionParts
<1>15. left \in Seq(Events)
  BY <1>14 DEF Routes
<1>16. kept \in Seq(Events) /\ Range(kept) \subseteq Range(left)
  <2>1. Len(left) \in Nat /\ excess \in Nat
    BY <1>15, TaskStreamAssumption
  <2> SUFFICES ASSUME NEW l \in Seq(Events), NEW n \in Nat
               PROVE  LET k == SubSeq(l, n + 1, Len(l)) IN k \in Seq(Events) /\ Range(k) \subseteq Range(l)
    BY <1>15, <2>1
  <2> DEFINE k == SubSeq(l, n + 1, Len(l))
  <2>2. k \in Seq(Events) /\ \A i \in DOMAIN k : n + i \in DOMAIN l /\ k[i] = l[n + i]
    OBVIOUS
  <2> HIDE DEF k
  <2>3. Range(k) \subseteq Range(l)
    BY <2>2 DEF Range
  <2> QED
    BY <2>2, <2>3 DEF k
<1> HIDE DEF kept, left, d
<1>17. d = [sse |-> s, screen |-> drained.screen]
  BY <1>13, <1>14
<1>18. s.pending = kept /\ SameGate(s, drained.sse) /\ s.versions = drained.sse.versions
  BY <1>14 DEF Routes, SameGate
<1> HIDE DEF s
<1>19. d.sse = s /\ d.screen = drained.screen /\ Settled(d.sse) = Settled(drained.sse)
  BY <1>17, <1>18 DEF Settled
<1>20. s.seen = c.sse.seen /\ s.gen = c.sse.gen /\ s.attempt = c.sse.attempt
  BY <1>3, <1>8, <1>18 DEF SameGate
<1>21. ASSUME NEW id \in Settled(d.sse)
       PROVE  /\ id \in Settled(c.sse) /\ d.sse.versions[id] = c.sse.versions[id]
              /\ id \in DOMAIN d.screen /\ d.screen[id] = c.sse.versions[id]
  <2>1. /\ id \in Settled(c.sse) /\ drained.sse.versions[id] = c.sse.versions[id]
        /\ id \in DOMAIN c.screen => id \in DOMAIN drained.screen /\ drained.screen[id] = c.screen[id]
    BY <1>3, <1>6, <1>9, <1>11, <1>19 DEF KeepsSettled
  <2>2. id \in DOMAIN c.screen /\ c.screen[id] = c.sse.versions[id]
    BY <2>1 DEF RoundAlone, ShownSettled
  <2> QED
    BY <1>18, <1>19, <2>1, <2>2
<1>22. ShownSettled(d.sse, d.screen)
  BY <1>19, <1>20, <1>21 DEF ShownSettled, RoundAlone
<1>23. Recorded(d.sse.seen, d.sse)
  BY <1>19, <1>20, <1>21 DEF Recorded, RoundAlone
<1>24. ASSUME NEW e \in Range(d.sse.pending)
       PROVE  e.run = e.attempt /\ e.attempt # d.sse.attempt
  <2>1. e \in Range(left)
    BY <1>16, <1>18, <1>19
  <2>2. e \in Range(c.sse.pending) /\ ~Passes(c.sse, e)
    BY <1>11, <1>12, <2>1 DEF left
  <2> QED
    BY <1>2, <1>19, <1>20, <2>2 DEF Passes, RoundAlone
<1>25. RoundDrained(d)
  BY <1>1, <1>19, <1>20, <1>22, <1>23, <1>24 DEF RoundDrained, RoundAlone
<1> QED
  BY <1>19, <1>20, <1>25 DEF d

LEMMA SendItemsIs ==
    ASSUME deployment \in Deployments, NEW c, RoundDrained(c),
           NEW stored, stored = StoredItems(c.sse.seen)
    PROVE  LET d == SendItems(c) IN
           /\ d.sse.seen = c.sse.seen /\ d.sse.gen = c.sse.gen /\ d.sse.attempt = c.sse.attempt
           /\ d.sse.pending = c.sse.pending
           /\ \A id \in DOMAIN stored : /\ d.sse.versions[id] = stored[id]
                                        /\ \/ id \in DOMAIN d.screen /\ d.screen[id] = stored[id]
                                           \/ id \in DOMAIN c.sse.versions /\ c.sse.versions[id] = stored[id]
           /\ \A id \in DOMAIN d.sse.versions :
                 id \in DOMAIN stored \/ (id \in DOMAIN c.sse.versions /\ d.sse.versions[id] = c.sse.versions[id])
           /\ \A id \in DOMAIN c.screen :
                 id \in DOMAIN d.screen /\ (d.screen[id] = c.screen[id] \/ (id \in DOMAIN stored /\ d.screen[id] = stored[id]))
<1> DEFINE sent == c.sse.versions
           news == {id \in DOMAIN stored : id \notin DOMAIN sent \/ sent[id] # stored[id]}
           versions == [id \in DOMAIN sent \cup news |-> IF id \in news THEN stored[id] ELSE sent[id]]
           items == [id \in DOMAIN c.screen \cup news |->
                        IF id \in news THEN stored[id] ELSE c.screen[id]]
           s == [c.sse EXCEPT !.versions = versions]
           d == SendItems(c)
<1>1. c.sse \in Routes
  BY PollingParts DEF RoundDrained, RoundAlone
<1>2. d = [sse |-> s, screen |-> items]
  BY DEF SendItems
<1>3. \A id \in DOMAIN stored : versions[id] = stored[id]
  OBVIOUS
<1>4. \A id \in DOMAIN stored : \/ id \in DOMAIN items /\ items[id] = stored[id]
                                \/ id \in DOMAIN sent /\ sent[id] = stored[id]
  OBVIOUS
<1>5. \A id \in DOMAIN versions : id \in DOMAIN stored \/ (id \in DOMAIN sent /\ versions[id] = sent[id])
  OBVIOUS
<1>6. \A id \in DOMAIN c.screen :
         id \in DOMAIN items /\ (items[id] = c.screen[id] \/ (id \in DOMAIN stored /\ items[id] = stored[id]))
  OBVIOUS
<1> HIDE DEF versions, items
<1>7. /\ s.seen = c.sse.seen /\ s.gen = c.sse.gen /\ s.attempt = c.sse.attempt
      /\ s.pending = c.sse.pending /\ s.versions = versions
  BY <1>1 DEF Routes
<1> HIDE DEF s, d
<1>8. d.sse = s /\ d.screen = items
  BY <1>2
<1> HIDE DEF news
<1>9. /\ d.sse.seen = c.sse.seen /\ d.sse.gen = c.sse.gen /\ d.sse.attempt = c.sse.attempt
      /\ d.sse.pending = c.sse.pending /\ d.sse.versions = versions
  BY <1>7, <1>8
<1> QED
  BY <1>3, <1>4, <1>5, <1>6, <1>8, <1>9 DEF d

\* A round that has not read the end.
LEMMA SendItemsAlone ==
    ASSUME deployment \in Deployments, NEW c, RoundDrained(c), c.sse.seen.status # "completed"
    PROVE  RoundDrained(SendItems(c)) /\ SendItems(c).sse.seen = c.sse.seen
<1> DEFINE d == SendItems(c)
           t == c.sse.seen
           stored == StoredItems(t)
<1>1. OpenPolling(d)
  BY SendItemsType DEF RoundDrained, RoundAlone
<1>2. stored = t.events
  BY DEF StoredItems
<1>3. /\ d.sse.seen = t /\ d.sse.gen = c.sse.gen /\ d.sse.attempt = c.sse.attempt
      /\ d.sse.pending = c.sse.pending
      /\ \A id \in DOMAIN stored : /\ d.sse.versions[id] = stored[id]
                                   /\ \/ id \in DOMAIN d.screen /\ d.screen[id] = stored[id]
                                      \/ id \in DOMAIN c.sse.versions /\ c.sse.versions[id] = stored[id]
      /\ \A id \in DOMAIN d.sse.versions :
            id \in DOMAIN stored \/ (id \in DOMAIN c.sse.versions /\ d.sse.versions[id] = c.sse.versions[id])
      /\ \A id \in DOMAIN c.screen :
            id \in DOMAIN d.screen /\ (d.screen[id] = c.screen[id] \/ (id \in DOMAIN stored /\ d.screen[id] = stored[id]))
  BY SendItemsIs
<1> HIDE DEF d, stored
<1>4. ASSUME NEW id \in Settled(d.sse)
      PROVE  /\ id \in DOMAIN stored /\ d.sse.versions[id] = stored[id]
             /\ id \in DOMAIN d.screen /\ d.screen[id] = stored[id]
  <2>1. id \in DOMAIN d.sse.versions /\ IsDone(d.sse.versions[id])
    BY DEF Settled
  <2>2. CASE id \in DOMAIN stored
    <3>1. d.sse.versions[id] = stored[id]
      BY <1>3, <2>2
    <3>2. CASE id \in DOMAIN d.screen /\ d.screen[id] = stored[id]
      BY <2>2, <3>1, <3>2
    <3>3. CASE id \in DOMAIN c.sse.versions /\ c.sse.versions[id] = stored[id]
      <4>1. id \in Settled(c.sse)
        BY <2>1, <3>1, <3>3 DEF Settled
      <4>2. id \in DOMAIN c.screen /\ c.screen[id] = c.sse.versions[id]
        BY <4>1 DEF RoundDrained, RoundAlone, ShownSettled
      <4> QED
        BY <1>3, <2>2, <3>1, <3>3, <4>2
    <3> QED
      BY <1>3, <2>2, <3>2, <3>3
  <2>3. CASE id \notin DOMAIN stored
    <3>1. id \in DOMAIN c.sse.versions /\ d.sse.versions[id] = c.sse.versions[id]
      BY <1>3, <2>1, <2>3
    <3>2. id \in Settled(c.sse)
      BY <2>1, <3>1 DEF Settled
    <3>3. id \in DOMAIN t.events
      BY <3>2 DEF RoundDrained, RoundAlone, Recorded
    <3> QED
      BY <1>2, <2>3, <3>3
  <2> QED
    BY <2>2, <2>3
<1>5. ShownSettled(d.sse, d.screen) /\ Recorded(d.sse.seen, d.sse)
  <2>1. \A id \in DOMAIN t.events : id[1] <= d.sse.attempt
    BY <1>3 DEF RoundDrained, RoundAlone, CleanRecord
  <2> QED
    BY <1>2, <1>3, <1>4, <2>1 DEF ShownSettled, Recorded
<1>6. RoundDrained(d)
  BY <1>1, <1>3, <1>5 DEF RoundDrained, RoundAlone
<1> QED
  BY <1>3, <1>6 DEF d

LEMMA UpdateTurnAlone ==
    ASSUME deployment \in Deployments, NEW c, RoundDrained(c), c.sse.seen.status # "completed"
    PROVE  RoundDrained(UpdateTurn(c)) /\ UpdateTurn(c).sse.seen = c.sse.seen
<1> DEFINE d == UpdateTurn(c)
           t == c.sse.seen
           s == [c.sse EXCEPT !.last = c.sse.seen]
           items == Reconcile(c.screen, StoredItems(t))
<1>1. OpenPolling(d)
  BY UpdateTurnType DEF RoundDrained, RoundAlone
<1>2. c.sse \in Routes /\ t \in Tasks
  BY PollingParts DEF RoundDrained, RoundAlone
<1>3. StoredItems(t) = t.events /\ t.events \in ItemMaps
  BY <1>2, TaskRounds DEF StoredItems
<1>4. d = [sse |-> s, screen |-> items]
  BY DEF UpdateTurn
<1>5. /\ s.gen = c.sse.gen /\ s.seen = t /\ s.versions = c.sse.versions /\ s.pending = c.sse.pending
      /\ s.attempt = c.sse.attempt
  BY <1>2 DEF Routes
<1> HIDE DEF s, d
<1>6. d.sse = s /\ d.screen = items /\ Settled(d.sse) = Settled(c.sse)
  BY <1>4, <1>5 DEF Settled
<1>7. ASSUME NEW id \in Settled(c.sse)
      PROVE  id \in DOMAIN d.screen /\ d.screen[id] = c.sse.versions[id]
  <2>1. id \in DOMAIN t.events /\ t.events[id] = c.sse.versions[id]
    BY DEF RoundDrained, RoundAlone, Recorded
  <2>2. id \in DOMAIN c.screen /\ c.screen[id] = c.sse.versions[id]
    BY DEF RoundDrained, RoundAlone, ShownSettled
  <2> HIDE DEF t
  <2> QED
    BY <1>3, <1>6, <2>1, <2>2, ReconcileKeeps
<1>8. ShownSettled(d.sse, d.screen) /\ Recorded(d.sse.seen, d.sse)
  BY <1>5, <1>6, <1>7 DEF RoundDrained, RoundAlone, ShownSettled, Recorded
<1>9. RoundDrained(d)
  BY <1>1, <1>5, <1>6, <1>8 DEF RoundDrained, RoundAlone
<1> QED
  BY <1>5, <1>6, <1>9 DEF d

\* A round that has read the end shows the record.
LEMMA LastRoundShows ==
    ASSUME deployment \in Deployments, NEW c, RoundDrained(c),
           NEW stored, stored = StoredItems(c.sse.seen), \A id \in DOMAIN stored : IsDone(stored[id])
    PROVE  LET items == UpdateTurn(SendItems(c)).screen IN
           \A id \in DOMAIN stored : id \in DOMAIN items /\ items[id] = stored[id]
<1> DEFINE d == SendItems(c)
           items == UpdateTurn(d).screen
<1>1. stored \in ItemMaps
  BY StoredItemsType, PollingParts DEF RoundDrained, RoundAlone
<1>2. /\ d.sse.seen = c.sse.seen
      /\ \A id \in DOMAIN stored : \/ id \in DOMAIN d.screen /\ d.screen[id] = stored[id]
                                   \/ id \in DOMAIN c.sse.versions /\ c.sse.versions[id] = stored[id]
      /\ \A id \in DOMAIN c.screen :
            id \in DOMAIN d.screen /\ (d.screen[id] = c.screen[id] \/ (id \in DOMAIN stored /\ d.screen[id] = stored[id]))
  BY SendItemsIs
<1> HIDE DEF d
<1>3. ASSUME NEW id \in DOMAIN stored
      PROVE  id \in DOMAIN d.screen /\ d.screen[id] = stored[id]
  <2>1. CASE id \in DOMAIN c.sse.versions /\ c.sse.versions[id] = stored[id]
    <3>1. id \in Settled(c.sse)
      BY <2>1 DEF Settled
    <3>2. id \in DOMAIN c.screen /\ c.screen[id] = stored[id]
      BY <2>1, <3>1 DEF RoundDrained, RoundAlone, ShownSettled
    <3> QED
      BY <1>2, <3>2
  <2> QED
    BY <1>2, <2>1
<1>4. items = Reconcile(d.screen, stored)
  BY <1>2 DEF UpdateTurn
<1> QED
  BY <1>1, <1>3, <1>4, ReconcileKeeps DEF d

-----------------------------------------------------------------------------
(* What stays true as a single process goes on.                            *)

\* From task k and runs rs to task k2 and runs rs2, completed segments stay, and a
\* completed task.
Grows(k, rs, k2, rs2) ==
    /\ k.attempt <= k2.attempt
    /\ k.status = "completed" => k2 = k
    /\ \A id \in DOMAIN k.events :
          IsDone(k.events[id]) => id \in DOMAIN k2.events /\ k2.events[id] = k.events[id]
    /\ \A id \in Ids : HasSegment(rs, id) =>
          HasSegment(rs2, id) /\ (IsDone(Segment(rs, id)) => Segment(rs2, id) = Segment(rs, id))

LEMMA TrueRecordStays ==
    ASSUME deployment \in Deployments, NEW t \in Tasks, NEW k \in Tasks, NEW rs, NEW k2 \in Tasks, NEW rs2,
           TrueRecord(t, k, rs), Grows(k, rs, k2, rs2)
    PROVE  TrueRecord(t, k2, rs2)
<1>1. /\ t.attempt \in Nat /\ k.attempt \in Nat /\ k2.attempt \in Nat
      /\ DOMAIN t.events \subseteq Ids
  BY TaskRounds, ItemMapIs
<1>2. t.gen = t.attempt /\ t.attempt <= k2.attempt
  BY <1>1 DEF TrueRecord, Grows
<1>3. t.status = "completed" => t = k2
  BY DEF TrueRecord, Grows
<1>4. ASSUME NEW id \in DOMAIN t.events
      PROVE  /\ id[1] <= t.attempt /\ HasSegment(rs2, id)
             /\ IsDone(t.events[id]) =>
                   /\ t.events[id] = Segment(rs2, id)
                   /\ id \in DOMAIN k2.events /\ k2.events[id] = t.events[id]
  BY <1>1 DEF TrueRecord, Grows
<1> QED
  BY <1>2, <1>3, <1>4 DEF TrueRecord

\* The task's own record, when only the runs have changed.
LEMMA SameTaskAlone ==
    ASSUME deployment \in Deployments, NEW k \in Tasks, NEW rs, NEW rs2,
           TaskAlone(k, rs), Grows(k, rs, k, rs2)
    PROVE  TaskAlone(k, rs2)
  BY TrueRecordStays DEF TaskAlone

LEMMA ReaderStays ==
    ASSUME deployment \in Deployments, NEW s, NEW items, NEW k \in Tasks, NEW rs, NEW k2 \in Tasks, NEW rs2,
           s.pc = "handling" => s.seen \in Tasks, s.ready => s.attempt \in Runs,
           ReaderAlone(s, items, k, rs), DoneAlone(s, items, k), Grows(k, rs, k2, rs2)
    PROVE  ReaderAlone(s, items, k2, rs2) /\ DoneAlone(s, items, k2)
<1>1. k.attempt \in Nat /\ k2.attempt \in Nat /\ Runs \subseteq Nat
  <2>1. MaxRuns \in Nat
    BY Bounds
  <2> QED
    BY <2>1, TaskRounds DEF Runs
<1>2. DoneAlone(s, items, k2)
  BY DEF DoneAlone, Grows
<1>3. CASE s.pc \in {"reading", "handling"}
  <2>1. Recorded(k2, s)
    BY <1>3 DEF ReaderAlone, Recorded, Grows, Settled
  <2>2. s.ready /\ s.pc = "reading" => s.attempt <= k2.attempt
    <3> SUFFICES ASSUME s.ready, s.pc = "reading" PROVE s.attempt <= k2.attempt
      OBVIOUS
    <3>1. s.attempt <= k.attempt /\ k.attempt <= k2.attempt /\ s.attempt \in Nat
      BY <1>1, <1>3 DEF ReaderAlone, Grows
    <3> QED
      BY <1>1, <3>1
  <2>3. s.pc = "handling" => TrueRecord(s.seen, k2, rs2)
    BY <1>3, TrueRecordStays DEF ReaderAlone
  <2> QED
    BY <1>2, <1>3, <2>1, <2>2, <2>3 DEF ReaderAlone
<1>4. CASE s.pc \notin {"reading", "handling"}
  BY <1>2, <1>4 DEF ReaderAlone
<1> QED
  BY <1>3, <1>4

\* An event about a segment that has not ended.
Unsettled(e, rs) ==
    e.run = e.attempt /\ ~(HasSegment(rs, ItemOf(e)) /\ IsDone(Segment(rs, ItemOf(e))))

LEMMA EmitAlone ==
    ASSUME StreamTypeOK, NEW r \in Runs, NEW events \in Seq(Events), Emit(r, events),
           TaskAlone(task, runs), ReaderAlone(sse, screen, task, runs), DoneAlone(sse, screen, task),
           \A e \in Range(events) : Unsettled(e, runs)
    PROVE  /\ ReaderAlone(sse', screen', task, runs) /\ DoneAlone(sse', screen', task)
           /\ (sse'.pc = "handling" => sse'.seen \in Tasks) /\ (sse'.ready => sse'.attempt \in Runs)
<1> DEFINE b == [sse |-> sse, screen |-> screen]
           c == ListenAll(sse, b, events)
<1>1. b \in Connections /\ deployment \in Deployments /\ (sse.pc = "handling" => sse.seen \in Tasks)
  BY Unchanged DEF ReaderOK
<1>2. b.sse = sse /\ b.screen = screen
  OBVIOUS
<1>3. IF Subscribed THEN sse' = c.sse /\ screen' = c.screen ELSE sse' = sse /\ screen' = screen
  BY DEF Emit
<1> HIDE DEF b
<1>4. c \in Connections /\ SameGate(c.sse, sse)
  BY <1>1, <1>2, FoldListenType
<1>5. CASE Subscribed
  <2>1. \A e \in Range(events) : Passes(sse, e) => ItemOf(e) \notin Settled(b.sse)
    <3> SUFFICES ASSUME NEW e \in Range(events), ItemOf(e) \in Settled(sse) PROVE FALSE
      BY <1>2
    <3>1. ItemOf(e) \in DOMAIN task.events /\ IsDone(task.events[ItemOf(e)])
      BY <1>5 DEF ReaderAlone, Recorded, Subscribed, Settled
    <3>2. HasSegment(runs, ItemOf(e)) /\ IsDone(Segment(runs, ItemOf(e)))
      BY <3>1 DEF TaskAlone, TrueRecord
    <3> QED
      BY <3>2 DEF Unsettled
  <2>2. /\ KeepsSettled(b, c)
        /\ \A e \in Range(c.sse.pending) :
              e \in Range(b.sse.pending) \/ (e \in Range(events) /\ ~Passes(sse, e))
    BY <1>1, <2>1, FoldListenKeeps
  <2> HIDE DEF c
  <2> DEFINE s == c.sse
             items == c.screen
  <2>3. sse' = s /\ screen' = items
    BY <1>3, <1>5
  <2>4. s.pc = sse.pc /\ s.ready = sse.ready /\ s.attempt = sse.attempt /\ s.gen = sse.gen /\ s.seen = sse.seen
    BY <1>4 DEF SameGate
  <2>5. \A id \in Settled(s) :
           /\ id \in Settled(sse) /\ s.versions[id] = sse.versions[id]
           /\ id \in DOMAIN screen => id \in DOMAIN items /\ items[id] = screen[id]
    BY <1>2, <2>2 DEF KeepsSettled
  <2>6. \A e \in Range(s.pending) : e \in Range(sse.pending) \/ (e \in Range(events) /\ ~Passes(sse, e))
    BY <1>2, <2>2
  <2>7. s.ready => s.attempt \in Runs
    BY <1>4, ConnectionParts
  <2>8. ~sse.ready => DOMAIN s.versions = {}
    <3> SUFFICES ASSUME ~sse.ready PROVE DOMAIN s.versions = {}
      OBVIOUS
    <3>1. \A e \in Range(events) : ~Passes(sse, e)
      BY DEF Passes
    <3>2. DOMAIN sse.versions = {}
      BY <1>5 DEF ReaderAlone, Subscribed
    <3> QED
      BY <1>1, <1>2, <3>1, <3>2, ClosedGateShowsNothing DEF c
  <2> HIDE DEF s, items
  <2>9. \A e \in Range(s.pending) : e.run = e.attempt /\ (s.ready => e.attempt # s.attempt)
    <3> SUFFICES ASSUME NEW e \in Range(s.pending)
                 PROVE  e.run = e.attempt /\ (s.ready => e.attempt # s.attempt)
      OBVIOUS
    <3>1. CASE e \in Range(sse.pending)
      BY <1>5, <2>4, <3>1 DEF ReaderAlone, Subscribed
    <3>2. CASE e \in Range(events) /\ ~Passes(sse, e)
      BY <1>5, <2>4, <3>2 DEF ReaderAlone, Subscribed, Passes, Unsettled
    <3> QED
      BY <2>6, <3>1, <3>2
  <2>10. ShownSettled(s, items) /\ Recorded(task, s)
    BY <1>5, <2>4, <2>5 DEF ReaderAlone, Subscribed, ShownSettled, Recorded
  <2>11. s.pc = "handling" => Recorded(s.seen, s)
    BY <1>5, <2>4, <2>5 DEF ReaderAlone, Subscribed, Recorded
  <2>12. ReaderAlone(s, items, task, runs)
    BY <1>5, <2>4, <2>8, <2>9, <2>10, <2>11 DEF ReaderAlone, Subscribed
  <2>13. DoneAlone(s, items, task)
    BY <1>5, <2>4 DEF DoneAlone, Subscribed
  <2> QED
    BY <1>1, <2>3, <2>4, <2>7, <2>12, <2>13
<1>6. CASE ~Subscribed
  BY <1>1, <1>2, <1>3, <1>6, ConnectionParts
<1> QED
  BY <1>5, <1>6

-----------------------------------------------------------------------------
(* The steps of a single process.                                          *)

LEMMA AloneNext ==
    ASSUME UNCHANGED deployment,
           ~Bridged => /\ TaskAlone(task', runs') /\ \A r \in Runs : RunAlone(r, task', runs', buffer')
                       /\ ReaderAlone(sse', screen', task', runs') /\ DoneAlone(sse', screen', task')
    PROVE  AloneInv'
<1>1. Bridged' = Bridged /\ Runs' = Runs
  BY SameBounds
<1>2. AloneInv' <=>
      (~Bridged' => /\ TaskAlone(task', runs') /\ \A r \in Runs' : RunAlone(r, task', runs', buffer')
                    /\ ReaderAlone(sse', screen', task', runs') /\ DoneAlone(sse', screen', task'))
  BY DEF AloneInv, TaskAlone, TrueRecord, HasSegment, Segment, IsDone, RunAlone, SegmentItem, ReaderAlone,
         ShownSettled, Recorded, Settled, DoneAlone, StoredItems, Put, WholeItem, Range
<1> QED
  BY <1>1, <1>2

LEMMA AloneParts ==
    ASSUME StreamTypeOK, AloneInv, ~Bridged
    PROVE  /\ TaskAlone(task, runs) /\ \A r \in Runs : RunAlone(r, task, runs, buffer)
           /\ ReaderAlone(sse, screen, task, runs) /\ DoneAlone(sse, screen, task)
           /\ deployment \in Deployments /\ task \in Tasks /\ task.events \in ItemMaps
           /\ (sse.pc = "handling" => sse.seen \in Tasks) /\ (sse.ready => sse.attempt \in Runs)
<1>1. deployment \in Deployments /\ task \in Tasks
  BY Unchanged
<1>2. (sse.pc = "handling" => sse.seen \in Tasks) /\ (sse.ready => sse.attempt \in Runs)
  BY Unchanged, ConnectionIs DEF ReaderOK
<1> QED
  BY <1>1, <1>2, TaskRounds DEF AloneInv

\* Ids, and the segments of a run.
LEMMA IdsAre ==
    ASSUME deployment \in Deployments
    PROVE  \A id \in Ids : id[1] \in Runs /\ id[1] \in Nat /\ id[2] \in Nat /\ id = <<id[1], id[2]>>
<1>1. MaxRuns \in Nat /\ MaxSegments \in Nat
  BY Bounds
<1>2. \A id \in Ids : id[1] \in Runs /\ id[2] \in 0..MaxSegments /\ id = <<id[1], id[2]>>
  BY DEF Ids
<1> QED
  BY <1>1, <1>2 DEF Runs

\* The completed segments of a run stay.
SegmentsStay(old, new) ==
    \A i \in DOMAIN old : i \in DOMAIN new /\ (IsDone(old[i]) => new[i] = old[i])

\* Runs of which only one has changed.
LEMMA OneRunGrows ==
    ASSUME StreamTypeOK, NEW r \in Runs, NEW run \in RunStates, runs' = [runs EXCEPT ![r] = run],
           SegmentsStay(runs[r].segs, run.segs)
    PROVE  /\ Grows(task, runs, task, runs')
           /\ runs'[r] = run /\ \A q \in Runs : q # r => runs'[q] = runs[q]
<1>1. runs'[r] = run /\ \A q \in Runs : q # r => runs'[q] = runs[q]
  BY Unchanged
<1>2. ASSUME NEW id \in Ids, HasSegment(runs, id)
      PROVE  HasSegment(runs', id) /\ (IsDone(Segment(runs, id)) => Segment(runs', id) = Segment(runs, id))
  <2>1. id[1] \in Runs
    BY IdsAre, Unchanged
  <2>2. CASE id[1] = r
    BY <1>1, <1>2, <2>2 DEF HasSegment, Segment, SegmentsStay
  <2>3. CASE id[1] # r
    BY <1>1, <1>2, <2>1, <2>3 DEF HasSegment, Segment
  <2> QED
    BY <2>2, <2>3
<1>3. task.attempt <= task.attempt
  <2>1. task.attempt \in Nat
    BY Unchanged, TaskRounds
  <2> QED
    BY <2>1
<1> QED
  BY <1>1, <1>2, <1>3 DEF Grows

\* A run that is not at work has nothing to do with the task.
LEMMA OtherRunAlone ==
    ASSUME StreamTypeOK, NEW q \in Runs, task' \in Tasks, task.gen <= task'.gen,
           RunAlone(q, task, runs, buffer), runs[q].pc # "streaming",
           runs'[q] = runs[q], buffer'[q] = buffer[q]
    PROVE  RunAlone(q, task', runs', buffer')
<1>1. q \in Nat /\ task.gen \in Nat /\ task'.gen \in Nat
  <2>1. MaxRuns \in Nat
    BY Bounds, Unchanged
  <2> QED
    BY <2>1, TaskRounds, Unchanged DEF Runs
<1>2. runs[q].pc # "waiting" => q <= task'.gen /\ runs[q].attempt = q
  BY <1>1 DEF RunAlone
<1> QED
  BY <1>2 DEF RunAlone

\* In a single process nothing is sent over Redis, nobody is taken over and no worker dies.
LEMMA NoWire ==
    ASSUME StreamTypeOK, WireInv, ~Bridged
    PROVE  ~BridgeMessage /\ ~TakeOver /\ \A r \in Runs : ~PublishMessage(r) /\ ~WorkerDies(r)
  BY DEF WireInv, WireInUse, BridgeMessage, TakeOver, PublishMessage, WorkerDies

LEMMA ClaimAlone ==
    ASSUME StreamTypeOK, StreamTypeOK', WireInv, AloneInv, Claim PROVE AloneInv'
<1> SUFFICES ASSUME ~Bridged
             PROVE  /\ TaskAlone(task', runs') /\ \A r \in Runs : RunAlone(r, task', runs', buffer')
                    /\ ReaderAlone(sse', screen', task', runs') /\ DoneAlone(sse', screen', task')
  BY AloneNext DEF Claim
<1> DEFINE g == task.gen
           run == Started(<<>>)
<1>1. /\ task.status = "queued" /\ g \in Runs /\ runs' = [runs EXCEPT ![g] = run]
      /\ task' = [task EXCEPT !.status = "running"]
      /\ UNCHANGED <<deployment, buffer, sse, screen>>
  BY DEF Claim, wireVars
<1>2. /\ task \in Tasks /\ TaskAlone(task, runs) /\ \A r \in Runs : RunAlone(r, task, runs, buffer)
      /\ deployment \in Deployments
  BY AloneParts
<1>3. /\ task'.status = "running" /\ task'.gen = g /\ task'.attempt = task.attempt
      /\ task'.events = task.events
  BY <1>1, <1>2 DEF Tasks
<1>4. runs[g] = Unstarted
  BY <1>1 DEF WireInv, RunsInTurn
<1>5. run.segs = <<>> /\ run.pc = "streaming" /\ run.attempt = task.attempt /\ run.saved
      /\ runs[g].segs = <<>> /\ runs[g].pc = "waiting" /\ run \in RunStates
  <2>1. <<>> \in Seq(Tokens)
    OBVIOUS
  <2>2. run \in RunStates
    BY <2>1, StartedRun
  <2> QED
    BY <1>4, <2>2 DEF Started, Unstarted
<1> HIDE DEF run
<1>6. /\ Grows(task, runs, task, runs') /\ runs'[g] = run
      /\ \A q \in Runs : q # g => runs'[q] = runs[q]
  <2>1. SegmentsStay(runs[g].segs, run.segs)
    BY <1>5 DEF SegmentsStay
  <2> QED
    BY <1>1, <1>2, <1>5, <2>1, OneRunGrows
<1>7. task' \in Tasks
  BY <1>1, <1>2 DEF Tasks
<1>8. Grows(task, runs, task', runs')
  BY <1>1, <1>3, <1>6 DEF Grows
<1>9. TaskAlone(task', runs')
  <2>1. TrueRecord(task, task', runs')
    BY <1>2, <1>7, <1>8, TrueRecordStays DEF TaskAlone
  <2>2. \A id \in DOMAIN task.events : IsDone(task.events[id])
    BY <1>1, <1>2 DEF TaskAlone
  <2> QED
    BY <1>3, <2>1, <2>2 DEF TaskAlone, TrueRecord
<1>10. ASSUME NEW q \in Runs PROVE RunAlone(q, task', runs', buffer')
  <2>1. RunAlone(q, task, runs, buffer)
    BY <1>2
  <2>2. CASE q # g
    <3>1. runs[q].pc # "streaming"
      BY <1>1, <2>1 DEF RunAlone
    <3> QED
      BY <1>1, <1>3, <1>6, <2>1, <2>2, <3>1 DEF RunAlone
  <2>3. CASE q = g
    <3>1. buffer[g] = <<>>
      BY <1>5, <2>1, <2>3 DEF RunAlone
    <3>2. g <= g /\ task.attempt = g
      <4>1. g \in Nat
        BY <1>2, TaskRounds
      <4> QED
        BY <1>2, <4>1 DEF TaskAlone, TrueRecord
    <3>3. Range(buffer'[g]) = {} /\ buffer'[g] = <<>>
      BY <1>1, <3>1 DEF Range
    <3> HIDE DEF g
    <3> QED
      BY <1>3, <1>5, <1>6, <2>3, <3>2, <3>3 DEF RunAlone
  <2> QED
    BY <2>2, <2>3
<1>11. ReaderAlone(sse', screen', task', runs') /\ DoneAlone(sse', screen', task')
  BY <1>1, <1>2, <1>7, <1>8, AloneParts, ReaderStays
<1> QED
  BY <1>9, <1>10, <1>11

LEMMA CheckpointAlone ==
    ASSUME StreamTypeOK, StreamTypeOK', WireInv, AloneInv, NEW r \in Runs, Checkpoint(r) PROVE AloneInv'
<1> SUFFICES ASSUME ~Bridged
             PROVE  /\ TaskAlone(task', runs') /\ \A q \in Runs : RunAlone(q, task', runs', buffer')
                    /\ ReaderAlone(sse', screen', task', runs') /\ DoneAlone(sse', screen', task')
  BY AloneNext DEF Checkpoint
<1> DEFINE run == [runs[r] EXCEPT !.saved = TRUE]
           text == RunText(r)
           ids == {SegmentItem(r, i) : i \in DOMAIN runs[r].segs}
           events == [id \in DOMAIN task.events \cup ids |->
                         IF id \in ids THEN runs[r].segs[id[2]] ELSE task.events[id]]
<1>1. /\ task \in Tasks /\ TaskAlone(task, runs) /\ \A q \in Runs : RunAlone(q, task, runs, buffer)
      /\ deployment \in Deployments /\ DOMAIN task.events \subseteq Ids
  BY AloneParts, ItemMapIs
<1>2. /\ runs[r].pc = "streaming" /\ r = task.gen /\ task.status = "running" /\ runs[r].attempt = r
      /\ r = task.attempt
  BY <1>1 DEF Checkpoint, RunAlone, TaskAlone, TrueRecord
<1>3. /\ runs' = [runs EXCEPT ![r] = run] /\ task' = [task EXCEPT !.partial = text, !.events = events]
      /\ UNCHANGED <<deployment, buffer, sse, screen>>
  <2>1. runs' = [runs EXCEPT ![r].saved = TRUE]
        /\ task' = [task EXCEPT !.partial = text, !.events = StoreSegments(r)]
        /\ UNCHANGED <<deployment, buffer, sse, screen>>
    BY <1>2 DEF Checkpoint, wireVars
  <2>2. StoreSegments(r) = events
    BY <1>2 DEF StoreSegments
  <2> HIDE DEF events, text
  <2> QED
    BY <2>1, <2>2, Unchanged
<1>4. /\ DOMAIN events = DOMAIN task.events \cup ids
      /\ \A id \in ids : events[id] = runs[r].segs[id[2]]
      /\ \A id \in DOMAIN task.events : id \notin ids => events[id] = task.events[id]
  OBVIOUS
<1>5. \A id \in ids : id[1] = r /\ id[2] \in DOMAIN runs[r].segs
  BY DEF SegmentItem
<1>6. \A i \in DOMAIN runs[r].segs : SegmentItem(r, i) \in ids /\ SegmentItem(r, i)[2] = i
  BY DEF SegmentItem
<1>7. /\ run.segs = runs[r].segs /\ run.pc = runs[r].pc /\ run.attempt = runs[r].attempt
      /\ run \in RunStates
  <2>1. runs[r] \in RunStates
    BY RunFields
  <2> QED
    BY <2>1 DEF RunStates
<1> HIDE DEF run, text, ids, events
<1>8. /\ Grows(task, runs, task, runs') /\ runs'[r] = run
      /\ \A q \in Runs : q # r => runs'[q] = runs[q]
  <2>1. SegmentsStay(runs[r].segs, run.segs)
    BY <1>7 DEF SegmentsStay
  <2> QED
    BY <1>1, <1>3, <1>7, <2>1, OneRunGrows
<1>9. task'.status = "running" /\ task'.gen = task.gen /\ task'.attempt = task.attempt /\ task'.events = events
  BY <1>1, <1>2, <1>3 DEF Tasks
<1>10. task' \in Tasks
  BY SameBounds, Unchanged, <1>3 DEF StreamTypeOK
<1>11. ASSUME NEW id \in DOMAIN task.events, IsDone(task.events[id]) PROVE events[id] = task.events[id]
  <2>1. CASE id \in ids
    <3>1. task.events[id] = Segment(runs, id)
      BY <1>1, <1>11 DEF TaskAlone, TrueRecord
    <3> QED
      BY <1>4, <1>5, <2>1, <3>1 DEF Segment
  <2> QED
    BY <1>4, <2>1
<1>12. Grows(task, runs, task', runs')
  BY <1>2, <1>4, <1>8, <1>9, <1>11 DEF Grows
<1>13. ASSUME NEW id \in DOMAIN events
       PROVE  /\ id[1] <= task.attempt /\ HasSegment(runs, id)
              /\ IsDone(events[id]) => events[id] = Segment(runs, id)
              /\ IsDone(events[id]) \/ id[1] = task.attempt
  <2>1. CASE id \in ids
    <3>1. task.attempt <= task.attempt
      <4>1. task.attempt \in Nat
        BY <1>1, TaskRounds
      <4> QED
        BY <4>1
    <3> QED
      BY <1>2, <1>4, <1>5, <2>1, <3>1 DEF HasSegment, Segment
  <2>2. CASE id \notin ids
    <3>1. id \in DOMAIN task.events /\ events[id] = task.events[id]
      BY <1>4, <2>2
    <3> QED
      BY <1>1, <3>1 DEF TaskAlone, TrueRecord
  <2> QED
    BY <2>1, <2>2
<1>14. TaskAlone(task', runs')
  <2>1. ASSUME NEW id \in DOMAIN events
        PROVE  (HasSegment(runs', id) <=> HasSegment(runs, id)) /\ Segment(runs', id) = Segment(runs, id)
    <3>1. CASE id[1] = r
      BY <1>7, <1>8, <3>1 DEF HasSegment, Segment
    <3>2. CASE id[1] # r
      <4>1. id \in Ids
        BY <1>1, <1>4, <1>5, <3>2
      <4>2. id[1] \in Runs
        BY <1>1, <4>1, IdsAre
      <4> QED
        BY <1>8, <3>2, <4>2 DEF HasSegment, Segment
    <3> QED
      BY <3>1, <3>2
  <2>2. task.gen = task.attempt /\ task.attempt <= task.attempt /\ task'.attempt = task.attempt
    <3>1. task.attempt \in Nat
      BY <1>1, TaskRounds
    <3> QED
      BY <1>2, <1>9, <3>1
  <2>3. TrueRecord(task', task', runs')
    BY <1>9, <1>13, <2>1, <2>2 DEF TrueRecord
  <2>4. \A id \in DOMAIN events : IsDone(events[id]) \/ id[1] = task'.attempt
    BY <1>9, <1>13
  <2> QED
    BY <1>9, <2>3, <2>4 DEF TaskAlone
<1>15. ASSUME NEW q \in Runs PROVE RunAlone(q, task', runs', buffer')
  <2>1. RunAlone(q, task, runs, buffer)
    BY <1>1
  <2>2. CASE q # r
    <3>1. runs[q].pc # "streaming" /\ task.gen <= task'.gen /\ buffer'[q] = buffer[q]
      <4>1. task.gen \in Nat
        BY <1>1, TaskRounds
      <4> QED
        BY <1>2, <1>3, <1>9, <2>1, <2>2, <4>1 DEF RunAlone
    <3> QED
      BY <1>1, <1>8, <1>10, <2>1, <2>2, <3>1, OtherRunAlone
  <2>3. CASE q = r
    <3>1. \A i \in DOMAIN runs[r].segs :
             SegmentItem(r, i) \in DOMAIN events /\ events[SegmentItem(r, i)] = runs[r].segs[i]
      BY <1>4, <1>6
    <3>2. r <= r /\ buffer'[r] = buffer[r]
      BY <1>3 DEF Runs
    <3> QED
      <4>1. runs'[r].pc = "streaming" /\ runs'[r].segs = runs[r].segs /\ runs'[r].attempt = r
        BY <1>2, <1>7, <1>8
      <4>2. RunAlone(r, task, runs, buffer)
        BY <1>1
      <4>3. \A i \in DOMAIN runs[r].segs :
               IsDone(runs[r].segs[i]) \/ (i = Len(runs[r].segs) /\ runs[r].segs[i].status = "inProgress")
        BY <4>2 DEF RunAlone
      <4>4. /\ buffer[r] # <<>> => /\ Len(runs[r].segs) \in DOMAIN runs[r].segs
                                   /\ runs[r].segs[Len(runs[r].segs)].status = "inProgress"
            /\ \A e \in Range(buffer[r]) : e.run = r /\ e.attempt = r /\ e.ordinal = Len(runs[r].segs)
        BY <4>2 DEF RunAlone
      <4>5. r <= task'.gen /\ r = task'.gen
        BY <1>2, <1>9, <3>2
      <4>6. RunAlone(r, task', runs', buffer')
        BY <1>9, <3>1, <3>2, <4>1, <4>3, <4>4, <4>5 DEF RunAlone
      <4> QED
        BY <2>3, <4>6
  <2> QED
    BY <2>2, <2>3
<1>16. ReaderAlone(sse', screen', task', runs') /\ DoneAlone(sse', screen', task')
  BY <1>1, <1>3, <1>10, <1>12, AloneParts, ReaderStays
<1> QED
  BY <1>14, <1>15, <1>16

\* A run at work: it has the task.
LEMMA WorkAlone ==
    ASSUME StreamTypeOK, AloneInv, ~Bridged, NEW r \in Runs, runs[r].pc = "streaming"
    PROVE  /\ r = task.gen /\ r = task.attempt /\ task.status = "running" /\ runs[r].attempt = r
           /\ r \in Nat /\ task.gen <= task.gen
           /\ \A q \in Runs : q # r => runs[q].pc # "streaming"
<1>1. TaskAlone(task, runs) /\ \A q \in Runs : RunAlone(q, task, runs, buffer)
  BY AloneParts
<1>2. r = task.gen /\ task.status = "running" /\ runs[r].attempt = r
  BY <1>1 DEF RunAlone
<1>3. task.gen = task.attempt
  BY <1>1 DEF TaskAlone, TrueRecord
<1>4. task.gen \in Nat
  BY Unchanged, TaskRounds
<1>5. \A q \in Runs : q # r => runs[q].pc # "streaming"
  BY <1>1, <1>2 DEF RunAlone
<1> QED
  BY <1>2, <1>3, <1>4, <1>5

LEMMA FinishAlone ==
    ASSUME StreamTypeOK, StreamTypeOK', WireInv, AloneInv, NEW r \in Runs, Finish(r) PROVE AloneInv'
<1> SUFFICES ASSUME ~Bridged
             PROVE  /\ TaskAlone(task', runs') /\ \A q \in Runs : RunAlone(q, task', runs', buffer')
                    /\ ReaderAlone(sse', screen', task', runs') /\ DoneAlone(sse', screen', task')
  BY AloneNext DEF Finish
<1> DEFINE run == [runs[r] EXCEPT !.pc = "over"]
<1>1. /\ task \in Tasks /\ TaskAlone(task, runs) /\ \A q \in Runs : RunAlone(q, task, runs, buffer)
      /\ deployment \in Deployments /\ DOMAIN task.events \subseteq Ids
  BY AloneParts, ItemMapIs
<1>2. runs[r].pc = "streaming" /\ ~OpenSegment(r) /\ runs[r].saved
  BY DEF Finish
<1>3. /\ r = task.gen /\ r = task.attempt /\ task.status = "running" /\ r \in Nat
      /\ \A q \in Runs : q # r => runs[q].pc # "streaming"
  BY <1>2, WorkAlone
<1>4. runs' = [runs EXCEPT ![r] = run] /\ UNCHANGED <<deployment, buffer, sse, screen>>
  <2>1. runs' = [runs EXCEPT ![r].pc = "over"] /\ UNCHANGED <<deployment, buffer, sse, screen>>
    BY DEF Finish, wireVars
  <2> QED
    BY <2>1, Unchanged
<1>5. run.segs = runs[r].segs /\ run.pc = "over" /\ run.attempt = runs[r].attempt /\ run \in RunStates
  BY RunFields DEF RunStates
<1> HIDE DEF run
<1>6. /\ Grows(task, runs, task, runs') /\ runs'[r] = run
      /\ \A q \in Runs : q # r => runs'[q] = runs[q]
  <2>1. SegmentsStay(runs[r].segs, run.segs)
    BY <1>5 DEF SegmentsStay
  <2> QED
    BY <1>1, <1>4, <1>5, <2>1, OneRunGrows
<1>7. task' \in Tasks
  BY SameBounds, Unchanged, <1>4 DEF StreamTypeOK
<1>8. \/ /\ task'.status = "completed" /\ task'.gen = task.gen /\ task'.attempt = task.attempt
         /\ task'.events = task.events
      \/ /\ task'.status = "queued" /\ task'.gen = task.gen + 1 /\ task'.attempt = task.attempt + 1
         /\ task'.events = task.events
  <2>1. \/ \E streamed \in {FALSE, runs[r].segs # <<>>} :
              task' = [task EXCEPT !.status = "completed", !.streamed = streamed]
        \/ task' = [task EXCEPT !.status = "queued", !.gen = @ + 1, !.attempt = @ + 1, !.partial = <<>>]
    BY <1>3 DEF Finish
  <2> QED
    BY <1>1, <2>1 DEF Tasks
<1>9. /\ task'.events = task.events /\ task'.gen = task'.attempt /\ task'.status # "running"
      /\ task.attempt <= task'.attempt /\ task.gen <= task'.gen /\ r <= task'.gen
  BY <1>3, <1>8
<1>10. Grows(task, runs, task', runs')
  BY <1>3, <1>6, <1>9 DEF Grows
<1>11. \A i \in DOMAIN runs[r].segs : IsDone(runs[r].segs[i])
  <2>1. RunAlone(r, task, runs, buffer) /\ runs[r].segs \in Seq(Segments)
    BY <1>1, RunFields
  <2> SUFFICES ASSUME NEW i \in DOMAIN runs[r].segs, ~IsDone(runs[r].segs[i]) PROVE FALSE
    OBVIOUS
  <2>2. i = Len(runs[r].segs) /\ runs[r].segs[i].status = "inProgress"
    BY <2>1 DEF RunAlone
  <2>3. runs[r].segs # <<>>
    BY <2>1, <2>2
  <2> QED
    BY <1>2, <2>2, <2>3 DEF OpenSegment, Last
<1>12. buffer[r] = <<>>
  <2>1. buffer[r] # <<>> => /\ Len(runs[r].segs) \in DOMAIN runs[r].segs
                            /\ runs[r].segs[Len(runs[r].segs)].status = "inProgress"
    BY <1>1 DEF RunAlone
  <2> QED
    BY <1>11, <2>1 DEF IsDone
<1>13. ASSUME NEW id \in DOMAIN task.events PROVE IsDone(task.events[id])
  <2>1. CASE id[1] = r
    <3>1. id[2] \in DOMAIN runs[r].segs
      BY <1>1, <2>1 DEF TaskAlone, TrueRecord, HasSegment
    <3>2. SegmentItem(r, id[2]) = id
      <4>1. id \in Ids
        BY <1>1
      <4> QED
        BY <1>1, <2>1, <4>1, IdsAre DEF SegmentItem
    <3>3. task.events[SegmentItem(r, id[2])] = runs[r].segs[id[2]]
      BY <1>1, <1>2, <3>1 DEF RunAlone
    <3> QED
      BY <1>11, <3>1, <3>2, <3>3
  <2>2. CASE id[1] # r
    BY <1>1, <1>3, <2>2 DEF TaskAlone
  <2> QED
    BY <2>1, <2>2
<1>14. TaskAlone(task', runs')
  <2>1. TrueRecord(task, task', runs')
    BY <1>1, <1>7, <1>10, TrueRecordStays DEF TaskAlone
  <2>2. task'.attempt <= task'.attempt
    <3>1. task'.attempt \in Nat
      BY <1>1, <1>7, TaskRounds
    <3> QED
      BY <3>1
  <2>3. ASSUME NEW id \in DOMAIN task.events PROVE id[1] <= task'.attempt
    <3>1. id[1] <= task.attempt /\ id \in Ids
      BY <1>1, <2>1 DEF TrueRecord
    <3>2. id[1] \in Nat /\ task.attempt \in Nat /\ task'.attempt \in Nat
      BY <1>1, <1>7, <3>1, TaskRounds, IdsAre
    <3> QED
      BY <1>9, <3>1, <3>2
  <2>4. \A id \in DOMAIN task.events : HasSegment(runs', id) /\ task.events[id] = Segment(runs', id)
    BY <1>13, <2>1 DEF TrueRecord
  <2>5. TrueRecord(task', task', runs')
    BY <1>9, <2>2, <2>3, <2>4 DEF TrueRecord
  <2> QED
    BY <1>9, <1>13, <2>5 DEF TaskAlone
<1>15. ASSUME NEW q \in Runs PROVE RunAlone(q, task', runs', buffer')
  <2>1. CASE q # r
    BY <1>1, <1>3, <1>4, <1>6, <1>7, <1>9, <2>1, OtherRunAlone
  <2>2. CASE q = r
    <3>1. Range(buffer'[r]) = {} /\ buffer'[r] = <<>>
      BY <1>4, <1>12 DEF Range
    <3>2. runs[r].attempt = r
      BY <1>2, WorkAlone
    <3>3. RunAlone(r, task', runs', buffer')
      BY <1>5, <1>6, <1>9, <1>11, <3>1, <3>2 DEF RunAlone
    <3> QED
      BY <2>2, <3>3
  <2> QED
    BY <2>1, <2>2
<1>16. ReaderAlone(sse', screen', task', runs') /\ DoneAlone(sse', screen', task')
  BY <1>1, <1>4, <1>7, <1>10, AloneParts, ReaderStays
<1> QED
  BY <1>14, <1>15, <1>16

\* What the open segment of a run has in the buffer.
Buffered(list, r, n) == \A e \in Range(list) : e.run = r /\ e.attempt = r /\ e.ordinal = n

LEMMA GatherBuffers ==
    ASSUME NEW list \in Seq(Events), NEW r \in Nat, NEW n \in Nat, Buffered(list, r, n),
           NEW e \in Events, e.run = r, e.attempt = r, e.ordinal = n
    PROVE  Buffered(Gather(list, <<e>>), r, n)
<1>1. Gather(list, <<e>>) = Coalesce(list, e)
  BY DEF Gather
<1>2. CASE list # <<>> /\ Last(list).phase = "delta" /\ Last(list).ordinal = e.ordinal
                       /\ Last(list).attempt = e.attempt
  <2> DEFINE k == Len(list)
             last == list[k]
             text == last.text \o e.text
             longer == [last EXCEPT !.text = text]
  <2>1. Coalesce(list, e) = [list EXCEPT ![k] = longer]
    BY <1>2 DEF Coalesce
  <2>2. k \in DOMAIN list /\ last \in Events /\ last \in Range(list)
    BY <1>2 DEF Range
  <2> HIDE DEF text, last
  <2>3. longer.run = last.run /\ longer.attempt = last.attempt /\ longer.ordinal = last.ordinal
    BY <2>2 DEF Events
  <2> HIDE DEF longer, k
  <2>4. DOMAIN [list EXCEPT ![k] = longer] = DOMAIN list
        /\ \A i \in DOMAIN list : [list EXCEPT ![k] = longer][i] \in {list[i], longer}
    OBVIOUS
  <2>5. \A x \in Range([list EXCEPT ![k] = longer]) : x \in Range(list) \/ x = longer
    BY <2>4 DEF Range
  <2>6. longer.run = r /\ longer.attempt = r /\ longer.ordinal = n
    BY <2>2, <2>3 DEF Buffered
  <2> QED
    BY <1>1, <2>1, <2>5, <2>6 DEF Buffered
<1>3. CASE ~(list # <<>> /\ Last(list).phase = "delta" /\ Last(list).ordinal = e.ordinal
                         /\ Last(list).attempt = e.attempt)
  <2>1. Coalesce(list, e) = Append(list, e)
    BY <1>3 DEF Coalesce
  <2>2. \A i \in DOMAIN Append(list, e) : (i \in DOMAIN list /\ Append(list, e)[i] = list[i]) \/ Append(list, e)[i] = e
    OBVIOUS
  <2>3. \A x \in Range(Append(list, e)) : x \in Range(list) \/ x = e
    BY <2>2 DEF Range
  <2> QED
    BY <1>1, <2>1, <2>3 DEF Buffered
<1> QED
  BY <1>2, <1>3

LEMMA SendAlone ==
    ASSUME StreamTypeOK, AloneInv, ~Bridged, NEW r \in Runs, NEW events \in Seq(Events), Send(r, events),
           \A e \in Range(events) : Unsettled(e, runs)
    PROVE  /\ ReaderAlone(sse', screen', task, runs) /\ DoneAlone(sse', screen', task)
           /\ (sse'.pc = "handling" => sse'.seen \in Tasks) /\ (sse'.ready => sse'.attempt \in Runs)
<1>1. Emit(r, events)
  BY DEF Send
<1> QED
  BY <1>1, AloneParts, EmitAlone

\* What is buffered is about the segment that is open.
LEMMA BufferUnsettled ==
    ASSUME StreamTypeOK, AloneInv, ~Bridged, NEW r \in Runs
    PROVE  /\ buffer[r] \in Seq(Events) /\ \A e \in Range(buffer[r]) : Unsettled(e, runs)
           /\ Buffered(buffer[r], r, Len(runs[r].segs))
<1>1. RunAlone(r, task, runs, buffer)
  BY AloneParts
<1>2. ASSUME NEW e \in Range(buffer[r]) PROVE Unsettled(e, runs)
  <2>1. buffer[r] # <<>>
    BY DEF Range
  <2>2. /\ runs[r].segs[Len(runs[r].segs)].status = "inProgress"
        /\ e.run = r /\ e.attempt = r /\ e.ordinal = Len(runs[r].segs)
    BY <1>1, <2>1 DEF RunAlone
  <2>3. Segment(runs, ItemOf(e)) = runs[r].segs[Len(runs[r].segs)]
    BY <2>2 DEF Segment, ItemOf, SegmentItem
  <2> QED
    BY <2>2, <2>3 DEF Unsettled, IsDone
<1> QED
  BY <1>1, <1>2, Unchanged DEF RunAlone, Buffered

LEMMA PublishAlone ==
    ASSUME StreamTypeOK, AloneInv, ~Bridged, NEW r \in Runs, NEW boundary \in Seq(Events), NEW delta,
           Publish(r, boundary, delta), \A e \in Range(boundary) : Unsettled(e, runs)
    PROVE  /\ ReaderAlone(sse', screen', task, runs) /\ DoneAlone(sse', screen', task)
           /\ (sse'.pc = "handling" => sse'.seen \in Tasks) /\ (sse'.ready => sse'.attempt \in Runs)
<1>1. CASE boundary = <<>>
  <2>1. UNCHANGED <<sse, screen>>
    BY <1>1 DEF Publish
  <2> QED
    BY <2>1, AloneParts
<1>2. CASE boundary # <<>>
  <2> DEFINE events == buffer[r] \o boundary
  <2>1. events \in Seq(Events) /\ \A e \in Range(events) : e \in Range(buffer[r]) \/ e \in Range(boundary)
    <3> DEFINE b == buffer[r]
    <3>1. b \in Seq(Events)
      BY Unchanged
    <3> HIDE DEF b
    <3>2. /\ b \o boundary \in Seq(Events)
          /\ \A i \in DOMAIN (b \o boundary) :
                \/ i \in DOMAIN b /\ (b \o boundary)[i] = b[i]
                \/ (i - Len(b)) \in DOMAIN boundary /\ (b \o boundary)[i] = boundary[i - Len(b)]
      BY <3>1
    <3>3. \A e \in Range(b \o boundary) : e \in Range(b) \/ e \in Range(boundary)
      BY <3>2 DEF Range
    <3> QED
      BY <3>2, <3>3 DEF b
  <2>2. Send(r, events)
    BY <1>2 DEF Publish
  <2>3. \A e \in Range(events) : Unsettled(e, runs)
    BY <2>1, BufferUnsettled
  <2> HIDE DEF events
  <2> QED
    BY <2>1, <2>2, <2>3, SendAlone
<1> QED
  BY <1>1, <1>2

\* A run at work that has written, or ended a segment.
LEMMA WorkGoesOn ==
    ASSUME StreamTypeOK, StreamTypeOK', AloneInv, NEW r \in Runs, runs[r].pc = "streaming",
           UNCHANGED <<deployment, task>>, ~Bridged,
           NEW segs \in Seq(Segments), Len(segs) <= MaxSegments,
           runs' = [runs EXCEPT ![r] = [runs[r] EXCEPT !.segs = segs, !.saved = FALSE]],
           NEW list \in Seq(Events), buffer' = [buffer EXCEPT ![r] = list],
           SegmentsStay(runs[r].segs, segs),
           \A i \in DOMAIN segs : IsDone(segs[i]) \/ (i = Len(segs) /\ segs[i].status = "inProgress"),
           list # <<>> => Len(segs) \in DOMAIN segs /\ segs[Len(segs)].status = "inProgress",
           Buffered(list, r, Len(segs)),
           ReaderAlone(sse', screen', task, runs), DoneAlone(sse', screen', task),
           sse'.pc = "handling" => sse'.seen \in Tasks, sse'.ready => sse'.attempt \in Runs
    PROVE  /\ TaskAlone(task', runs') /\ \A q \in Runs : RunAlone(q, task', runs', buffer')
           /\ ReaderAlone(sse', screen', task', runs') /\ DoneAlone(sse', screen', task')
<1> DEFINE run == [runs[r] EXCEPT !.segs = segs, !.saved = FALSE]
<1>1. /\ task \in Tasks /\ TaskAlone(task, runs) /\ \A q \in Runs : RunAlone(q, task, runs, buffer)
      /\ deployment \in Deployments
  BY AloneParts
<1>2. /\ r = task.gen /\ task.status = "running" /\ runs[r].attempt = r /\ task.gen <= task.gen
      /\ \A q \in Runs : q # r => runs[q].pc # "streaming"
  BY WorkAlone
<1>3. run.segs = segs /\ run.pc = "streaming" /\ run.attempt = r /\ run.saved = FALSE /\ run \in RunStates
  <2>1. runs[r] \in RunStates
    BY RunFields
  <2> QED
    BY <1>2, <2>1 DEF RunStates
<1> HIDE DEF run
<1>4. runs' = [runs EXCEPT ![r] = run]
  BY DEF run
<1>5. /\ Grows(task, runs, task, runs') /\ runs'[r] = run
      /\ \A q \in Runs : q # r => runs'[q] = runs[q]
  <2>1. SegmentsStay(runs[r].segs, run.segs)
    BY <1>3
  <2> QED
    BY <1>1, <1>3, <1>4, <2>1, OneRunGrows
<1>6. TaskAlone(task', runs')
  BY <1>1, <1>5, SameTaskAlone
<1>7. buffer'[r] = list /\ \A q \in Runs : q # r => buffer'[q] = buffer[q]
  BY Unchanged
<1>8. ASSUME NEW q \in Runs PROVE RunAlone(q, task', runs', buffer')
  <2>1. CASE q # r
    BY <1>1, <1>2, <1>5, <1>7, <2>1, OtherRunAlone
  <2>2. CASE q = r
    <3>1. runs'[r].segs = segs /\ runs'[r].pc = "streaming" /\ runs'[r].attempt = r /\ runs'[r].saved = FALSE
      BY <1>3, <1>5
    <3>2. RunAlone(r, task', runs', buffer')
      BY <1>2, <1>7, <3>1 DEF RunAlone, Buffered
    <3> QED
      BY <2>2, <3>2
  <2> QED
    BY <2>1, <2>2
<1>9. ReaderAlone(sse', screen', task', runs') /\ DoneAlone(sse', screen', task')
  BY <1>1, <1>5, ReaderStays
<1> QED
  BY <1>6, <1>8, <1>9

\* The segments of a run at work, but for the open one, have ended.
LEMMA SegmentsAlone ==
    ASSUME StreamTypeOK, AloneInv, ~Bridged, NEW r \in Runs, runs[r].pc = "streaming"
    PROVE  /\ \A i \in DOMAIN runs[r].segs : IsDone(runs[r].segs[i]) \/ i = Len(runs[r].segs)
           /\ ~OpenSegment(r) => /\ \A i \in DOMAIN runs[r].segs : IsDone(runs[r].segs[i])
                                 /\ buffer[r] = <<>>
<1>1. RunAlone(r, task, runs, buffer) /\ runs[r].segs \in Seq(Segments)
  BY AloneParts, RunFields
<1>2. \A i \in DOMAIN runs[r].segs :
         \/ IsDone(runs[r].segs[i])
         \/ i = Len(runs[r].segs) /\ runs[r].segs[i].status = "inProgress" /\ runs[r].segs # <<>>
  BY <1>1 DEF RunAlone
<1>3. buffer[r] # <<>> => /\ Len(runs[r].segs) \in DOMAIN runs[r].segs
                          /\ runs[r].segs[Len(runs[r].segs)].status = "inProgress"
  BY <1>1 DEF RunAlone
<1> QED
  BY <1>2, <1>3 DEF OpenSegment, Last, IsDone

LEMMA EventIs ==
    ASSUME StreamTypeOK, AloneInv, ~Bridged, NEW r \in Runs, runs[r].pc = "streaming",
           NEW phase, NEW ordinal, NEW text, NEW e, e = Event(r, phase, ordinal, text)
    PROVE  /\ e.run = r /\ e.attempt = r /\ e.ordinal = ordinal
           /\ HasSegment(runs, ItemOf(e)) => ordinal \in DOMAIN runs[r].segs
           /\ Segment(runs, ItemOf(e)) = runs[r].segs[ordinal]
<1>1. runs[r].attempt = r
  BY WorkAlone
<1>2. e.run = r /\ e.attempt = r /\ e.ordinal = ordinal
  BY <1>1 DEF Event
<1> QED
  BY <1>2 DEF ItemOf, SegmentItem, HasSegment, Segment

LEMMA WriteAlone ==
    ASSUME StreamTypeOK, StreamTypeOK', WireInv, AloneInv, NEW r \in Runs, Write(r) PROVE AloneInv'
<1> SUFFICES ASSUME ~Bridged
             PROVE  /\ TaskAlone(task', runs') /\ \A q \in Runs : RunAlone(q, task', runs', buffer')
                    /\ ReaderAlone(sse', screen', task', runs') /\ DoneAlone(sse', screen', task')
  BY AloneNext DEF Write
<1> DEFINE n == Len(runs[r].segs)
           longer == [runs[r].segs EXCEPT ![n] = Longer(r)]
           more == Append(runs[r].segs, Begun)
<1>1. /\ runs[r].segs \in Seq(Segments) /\ n \in Nat /\ n <= MaxSegments /\ MaxSegments \in Nat
      /\ runs[r].pc = "streaming" /\ runs[r].pc # "waiting" /\ <<NextToken>> \in Seq(Tokens)
      /\ UNCHANGED <<deployment, task>> /\ deployment \in Deployments
  BY RunFields, WriteIs, AloneParts
<1>2. \A i \in DOMAIN runs[r].segs : IsDone(runs[r].segs[i]) \/ i = n
  BY <1>1, SegmentsAlone
<1>3. CASE /\ n \in 1..MaxSegments /\ runs[r].segs[n].status = "inProgress"
           /\ Longer(r) \in Segments /\ Longer(r).status = "inProgress"
           /\ runs' = [runs EXCEPT ![r] = [runs[r] EXCEPT !.segs = longer, !.saved = FALSE]]
           /\ Publish(r, <<>>, <<Event(r, "delta", n, <<NextToken>>)>>)
  <2> DEFINE e == Event(r, "delta", n, <<NextToken>>)
             list == Gather(buffer[r], <<e>>)
  <2>1. longer \in Seq(Segments) /\ Len(longer) = n /\ DOMAIN longer = DOMAIN runs[r].segs
        /\ n \in DOMAIN longer /\ longer[n] = Longer(r)
        /\ \A i \in DOMAIN longer : i # n => longer[i] = runs[r].segs[i]
    BY <1>1, <1>3
  <2>2. e \in Events
    BY <1>1, <1>3, EventType
  <2>3. e.run = r /\ e.attempt = r /\ e.ordinal = n
    BY <1>1, EventIs
  <2>4. Publish(r, <<>>, <<e>>) /\ buffer' = [buffer EXCEPT ![r] = list]
    BY <1>3 DEF Publish
  <2> HIDE DEF longer, e
  <2>5. list \in Seq(Events) /\ Buffered(list, r, n)
    <3>1. buffer[r] \in Seq(Events) /\ Buffered(buffer[r], r, n)
      BY BufferUnsettled
    <3>2. r \in Nat
      BY <1>1, WorkAlone
    <3> HIDE DEF n
    <3>3. Buffered(list, r, n)
      BY <1>1, <2>2, <2>3, <3>1, <3>2, GatherBuffers
    <3>4. list \in Seq(Events)
      BY <2>2, <3>1, OneEvent, GatherType
    <3> QED
      BY <3>3, <3>4
  <2>6. /\ ReaderAlone(sse', screen', task, runs) /\ DoneAlone(sse', screen', task)
        /\ (sse'.pc = "handling" => sse'.seen \in Tasks) /\ (sse'.ready => sse'.attempt \in Runs)
    <3>1. <<>> \in Seq(Events) /\ \A x \in Range(<<>>) : Unsettled(x, runs)
      BY DEF Range
    <3> QED
      BY <2>4, <3>1, PublishAlone
  <2> HIDE DEF list, n
  <2>7. SegmentsStay(runs[r].segs, longer)
    BY <1>3, <2>1 DEF IsDone, SegmentsStay
  <2>8. \A i \in DOMAIN longer : IsDone(longer[i]) \/ (i = Len(longer) /\ longer[i].status = "inProgress")
    BY <1>2, <1>3, <2>1
  <2>9. Len(longer) <= MaxSegments /\ Len(longer) \in DOMAIN longer /\ longer[Len(longer)].status = "inProgress"
        /\ Buffered(list, r, Len(longer))
    BY <1>1, <1>3, <2>1, <2>5
  <2>10. runs' = [runs EXCEPT ![r] = [runs[r] EXCEPT !.segs = longer, !.saved = FALSE]]
    BY <1>3 DEF longer
  <2> QED
    BY <1>1, <2>1, <2>4, <2>5, <2>6, <2>7, <2>8, <2>9, <2>10, WorkGoesOn
<1>4. CASE /\ ~OpenSegment(r) /\ n + 1 \in 1..MaxSegments /\ Begun \in Segments
           /\ runs' = [runs EXCEPT ![r] = [runs[r] EXCEPT !.segs = more, !.saved = FALSE]]
           /\ Publish(r, <<Event(r, "start", n + 1, <<>>)>>, <<Event(r, "delta", n + 1, <<NextToken>>)>>)
  <2> DEFINE s == Event(r, "start", n + 1, <<>>)
             e == Event(r, "delta", n + 1, <<NextToken>>)
             list == Gather(<<>>, <<e>>)
  <2>1. more \in Seq(Segments) /\ Len(more) = n + 1 /\ n + 1 \in DOMAIN more /\ more[n + 1] = Begun
        /\ \A i \in DOMAIN more : i # n + 1 => i \in DOMAIN runs[r].segs /\ more[i] = runs[r].segs[i]
    BY <1>1, <1>4
  <2>2. SegmentsStay(runs[r].segs, more)
    BY <1>1 DEF SegmentsStay
  <2>3. e \in Events /\ s \in Events
    <3>1. <<>> \in Seq(Tokens)
      OBVIOUS
    <3> QED
      BY <1>1, <1>4, <3>1, EventType
  <2>4. e.run = r /\ e.attempt = r /\ e.ordinal = n + 1
    BY <1>1, EventIs
  <2>5. Unsettled(s, runs)
    <3>1. s.run = s.attempt /\ (HasSegment(runs, ItemOf(s)) => n + 1 \in DOMAIN runs[r].segs)
      BY <1>1, EventIs
    <3>2. n + 1 \notin DOMAIN runs[r].segs
      BY <1>1
    <3> QED
      BY <3>1, <3>2 DEF Unsettled
  <2>6. Publish(r, <<s>>, <<e>>) /\ buffer' = [buffer EXCEPT ![r] = list]
    BY <1>4 DEF Publish
  <2> HIDE DEF more, e, s
  <2>7. list \in Seq(Events) /\ Buffered(list, r, n + 1)
    <3>1. <<>> \in Seq(Events) /\ Buffered(<<>>, r, n + 1)
      BY DEF Buffered, Range
    <3>2. r \in Nat /\ n + 1 \in Nat
      BY <1>1, WorkAlone
    <3> DEFINE m == n + 1
    <3> HIDE DEF m
    <3>3. m \in Nat /\ Buffered(<<>>, r, m) /\ e.ordinal = m
      BY <2>4, <3>1, <3>2 DEF m
    <3>4. Buffered(list, r, m)
      BY <2>3, <2>4, <3>1, <3>2, <3>3, GatherBuffers
    <3>5. list \in Seq(Events)
      BY <2>3, <3>1, OneEvent, GatherType
    <3> QED
      BY <3>4, <3>5 DEF m
  <2>8. /\ ReaderAlone(sse', screen', task, runs) /\ DoneAlone(sse', screen', task)
        /\ (sse'.pc = "handling" => sse'.seen \in Tasks) /\ (sse'.ready => sse'.attempt \in Runs)
    <3>1. <<s>> \in Seq(Events) /\ \A x \in Range(<<s>>) : Unsettled(x, runs)
      BY <2>3, <2>5 DEF Range
    <3> QED
      BY <2>6, <3>1, PublishAlone
  <2> HIDE DEF list, n
  <2>9. \A i \in DOMAIN runs[r].segs : IsDone(runs[r].segs[i])
    BY <1>1, <1>4, SegmentsAlone
  <2>10. Begun.status = "inProgress"
    BY DEF Begun
  <2>11. \A i \in DOMAIN more : IsDone(more[i]) \/ (i = Len(more) /\ more[i].status = "inProgress")
    BY <2>1, <2>9, <2>10
  <2>12. Len(more) <= MaxSegments /\ Len(more) \in DOMAIN more /\ more[Len(more)].status = "inProgress"
         /\ Buffered(list, r, Len(more))
    BY <1>1, <1>4, <2>1, <2>7, <2>10
  <2>13. runs' = [runs EXCEPT ![r] = [runs[r] EXCEPT !.segs = more, !.saved = FALSE]]
    BY <1>4 DEF more
  <2> QED
    BY <1>1, <2>1, <2>2, <2>6, <2>7, <2>8, <2>11, <2>12, <2>13, WorkGoesOn
<1> QED
  BY <1>3, <1>4, WriteIs

LEMMA EndSegmentAlone ==
    ASSUME StreamTypeOK, StreamTypeOK', WireInv, AloneInv, NEW r \in Runs, EndSegment(r) PROVE AloneInv'
<1> SUFFICES ASSUME ~Bridged
             PROVE  /\ TaskAlone(task', runs') /\ \A q \in Runs : RunAlone(q, task', runs', buffer')
                    /\ ReaderAlone(sse', screen', task', runs') /\ DoneAlone(sse', screen', task')
  BY AloneNext DEF EndSegment
<1> DEFINE n == Len(runs[r].segs)
           ended == [runs[r].segs EXCEPT ![n] = Ending(r)]
           e == Event(r, "end", n, runs[r].segs[n].text)
<1>1. /\ runs[r].segs \in Seq(Segments) /\ n \in Nat /\ n <= MaxSegments /\ MaxSegments \in Nat
      /\ deployment \in Deployments
  BY RunFields, AloneParts
<1>2. /\ runs[r].pc = "streaming" /\ n \in 1..MaxSegments /\ n \in DOMAIN runs[r].segs
      /\ runs[r].segs[n].status = "inProgress" /\ runs[r].segs[n] \in Segments
      /\ Ending(r) \in Segments /\ Ending(r).status = "completed"
      /\ runs' = [runs EXCEPT ![r] = [runs[r] EXCEPT !.segs = ended, !.saved = FALSE]]
      /\ Publish(r, <<e>>, <<>>) /\ UNCHANGED <<deployment, task>>
  BY EndSegmentIs
<1>3. /\ ended \in Seq(Segments) /\ Len(ended) = n /\ DOMAIN ended = DOMAIN runs[r].segs
      /\ ended[n] = Ending(r) /\ \A i \in DOMAIN ended : i # n => ended[i] = runs[r].segs[i]
  BY <1>1, <1>2
<1>4. e \in Events
  <2>1. runs[r].segs[n].text \in Seq(Tokens) /\ runs[r].pc # "waiting"
    BY <1>2 DEF Segments
  <2> QED
    BY <1>2, <2>1, EventType
<1>5. Unsettled(e, runs)
  BY <1>2, EventIs DEF Unsettled, IsDone
<1>6. buffer' = [buffer EXCEPT ![r] = <<>>]
  BY <1>2 DEF Publish, Gather
<1> HIDE DEF ended, e
<1>7. /\ ReaderAlone(sse', screen', task, runs) /\ DoneAlone(sse', screen', task)
      /\ (sse'.pc = "handling" => sse'.seen \in Tasks) /\ (sse'.ready => sse'.attempt \in Runs)
  <2>1. <<e>> \in Seq(Events) /\ \A x \in Range(<<e>>) : Unsettled(x, runs)
    BY <1>4, <1>5 DEF Range
  <2> QED
    BY <1>2, <2>1, PublishAlone
<1>8. \A i \in DOMAIN runs[r].segs : IsDone(runs[r].segs[i]) \/ i = n
  BY <1>2, SegmentsAlone
<1> HIDE DEF n
<1>9. SegmentsStay(runs[r].segs, ended)
  BY <1>2, <1>3 DEF IsDone, SegmentsStay
<1>10. \A i \in DOMAIN ended : IsDone(ended[i])
  BY <1>2, <1>3, <1>8 DEF IsDone
<1>11. Len(ended) <= MaxSegments /\ <<>> \in Seq(Events) /\ Buffered(<<>>, r, Len(ended))
  BY <1>1, <1>3 DEF Buffered, Range
<1>12. runs' = [runs EXCEPT ![r] = [runs[r] EXCEPT !.segs = ended, !.saved = FALSE]]
  BY <1>2
<1> QED
  BY <1>2, <1>3, <1>6, <1>7, <1>9, <1>10, <1>11, <1>12, WorkGoesOn

LEMMA FlushTickAlone ==
    ASSUME StreamTypeOK, StreamTypeOK', WireInv, AloneInv, NEW r \in Runs, FlushTick(r) PROVE AloneInv'
<1> SUFFICES ASSUME ~Bridged
             PROVE  /\ TaskAlone(task', runs') /\ \A q \in Runs : RunAlone(q, task', runs', buffer')
                    /\ ReaderAlone(sse', screen', task', runs') /\ DoneAlone(sse', screen', task')
  BY AloneNext DEF FlushTick
<1>1. /\ buffer' = [buffer EXCEPT ![r] = <<>>] /\ Send(r, buffer[r]) /\ UNCHANGED <<task, runs>>
  BY DEF FlushTick, storeVars
<1>2. TaskAlone(task, runs) /\ \A q \in Runs : RunAlone(q, task, runs, buffer)
  BY AloneParts
<1>3. ReaderAlone(sse', screen', task, runs) /\ DoneAlone(sse', screen', task)
  BY <1>1, BufferUnsettled, SendAlone
<1>4. /\ buffer'[r] = <<>> /\ Range(buffer'[r]) = {}
      /\ \A q \in Runs : q # r => buffer'[q] = buffer[q]
  BY <1>1, Unchanged DEF Range
<1>5. ASSUME NEW q \in Runs PROVE RunAlone(q, task, runs, buffer')
  <2>1. CASE q # r
    BY <1>2, <1>4, <2>1 DEF RunAlone
  <2>2. CASE q = r
    BY <1>2, <1>4, <2>2 DEF RunAlone
  <2> QED
    BY <2>1, <2>2
<1> QED
  BY <1>1, <1>2, <1>3, <1>5

LEMMA ConnectAlone ==
    ASSUME StreamTypeOK, StreamTypeOK', WireInv, AloneInv, Connect PROVE AloneInv'
<1> SUFFICES ASSUME ~Bridged
             PROVE  /\ TaskAlone(task', runs') /\ \A q \in Runs : RunAlone(q, task', runs', buffer')
                    /\ ReaderAlone(sse', screen', task', runs') /\ DoneAlone(sse', screen', task')
  BY AloneNext DEF Connect
<1> DEFINE segmented == HasSegments(task, task.attempt)
<1>1. /\ sse' = [Closed EXCEPT !.pc = "reading", !.gen = task.gen, !.segmented = segmented]
      /\ UNCHANGED <<task, runs, buffer, screen>>
  BY DEF Connect, storeVars, wireVars
<1> HIDE DEF segmented
<1>2. sse'.pc = "reading" /\ sse'.ready = FALSE /\ sse'.versions = <<>> /\ sse'.pending = <<>>
  BY <1>1 DEF Closed
<1>3. Settled(sse') = {} /\ Range(sse'.pending) = {} /\ DOMAIN sse'.versions = {}
  BY <1>2 DEF Settled, Range
<1>4. ReaderAlone(sse', screen', task, runs) /\ DoneAlone(sse', screen', task)
  BY <1>2, <1>3 DEF ReaderAlone, DoneAlone, ShownSettled, Recorded
<1> QED
  BY <1>1, <1>4, AloneParts

LEMMA PollReadAlone ==
    ASSUME StreamTypeOK, StreamTypeOK', WireInv, AloneInv, PollRead PROVE AloneInv'
<1> SUFFICES ASSUME ~Bridged
             PROVE  /\ TaskAlone(task', runs') /\ \A q \in Runs : RunAlone(q, task', runs', buffer')
                    /\ ReaderAlone(sse', screen', task', runs') /\ DoneAlone(sse', screen', task')
  BY AloneNext DEF PollRead
<1>1. /\ sse.pc = "reading" /\ sse' = [sse EXCEPT !.pc = "handling", !.seen = task]
      /\ UNCHANGED <<task, runs, buffer, screen>>
  BY DEF PollRead, storeVars, wireVars
<1>2. TaskAlone(task, runs) /\ ReaderAlone(sse, screen, task, runs)
  BY AloneParts
<1>3. /\ sse'.pc = "handling" /\ sse'.seen = task /\ sse'.ready = sse.ready /\ sse'.gen = sse.gen
      /\ sse'.attempt = sse.attempt /\ sse'.versions = sse.versions /\ sse'.pending = sse.pending
  <2>1. sse \in Routes
    BY Unchanged, ConnectionIs DEF ReaderOK
  <2> QED
    BY <1>1, <2>1 DEF Routes
<1>4. Settled(sse') = Settled(sse)
  BY <1>3 DEF Settled
<1>5. ShownSettled(sse', screen) /\ Recorded(task, sse')
  BY <1>1, <1>2, <1>3, <1>4 DEF ReaderAlone, ShownSettled, Recorded
<1>6. ReaderAlone(sse', screen', task, runs) /\ DoneAlone(sse', screen', task)
  BY <1>1, <1>2, <1>3, <1>5 DEF ReaderAlone, DoneAlone, TaskAlone
<1> QED
  BY <1>1, <1>6, AloneParts

\* What is in a record is about segments, in rounds up to its own.
LEMMA CleanSeen ==
    ASSUME StreamTypeOK, NEW t \in Tasks, TrueRecord(t, task, runs)
    PROVE  CleanRecord(t)
<1> SUFFICES ASSUME NEW id \in DOMAIN t.events PROVE id[1] <= t.attempt /\ id[2] # 0
  BY DEF CleanRecord
<1>1. id \in Ids /\ deployment \in Deployments
  BY Unchanged, TaskRounds, ItemMapIs
<1>2. id[1] \in Runs
  BY <1>1, IdsAre
<1>3. runs[id[1]].segs \in Seq(Segments)
  BY <1>2, RunFields
<1>4. id[2] \in DOMAIN runs[id[1]].segs
  BY DEF TrueRecord, HasSegment
<1>5. id[2] # 0
  BY <1>3, <1>4
<1> QED
  BY <1>5 DEF TrueRecord

\* What a round that has not read the end leaves.
LEMMA RoundLeaves ==
    ASSUME StreamTypeOK, NEW c, RoundDrained(c), TrueRecord(c.sse.seen, task, runs),
           NEW s, s = [c.sse EXCEPT !.pc = "reading", !.seen = NoTask]
    PROVE  ReaderAlone(s, c.screen, task, runs) /\ DoneAlone(s, c.screen, task)
<1>1. c.sse \in Routes /\ c.sse.ready
  BY PollingParts DEF RoundDrained, RoundAlone
<1>2. /\ s.pc = "reading" /\ s.ready /\ s.gen = c.sse.gen /\ s.attempt = c.sse.attempt
      /\ s.versions = c.sse.versions /\ s.pending = c.sse.pending
  BY <1>1 DEF Routes
<1>3. Settled(s) = Settled(c.sse)
  BY <1>2 DEF Settled
<1>4. ShownSettled(s, c.screen)
  BY <1>2, <1>3 DEF RoundDrained, RoundAlone, ShownSettled
<1>5. Recorded(task, s)
  <2> SUFFICES ASSUME NEW id \in Settled(s)
               PROVE  id \in DOMAIN task.events /\ task.events[id] = s.versions[id]
    BY DEF Recorded
  <2>1. id \in DOMAIN c.sse.seen.events /\ c.sse.seen.events[id] = s.versions[id]
    BY <1>2, <1>3 DEF RoundDrained, RoundAlone, Recorded
  <2>2. IsDone(c.sse.seen.events[id])
    BY <2>1 DEF Settled
  <2> QED
    BY <2>1, <2>2 DEF TrueRecord
<1>6. s.gen = s.attempt /\ s.attempt <= task.attempt
  BY <1>2 DEF RoundDrained, RoundAlone, TrueRecord
<1>7. \A e \in Range(s.pending) : e.run = e.attempt /\ e.attempt # s.attempt
  BY <1>2 DEF RoundDrained, RoundAlone
<1> QED
  BY <1>2, <1>4, <1>5, <1>6, <1>7 DEF ReaderAlone, DoneAlone

LEMMA PollHandleAlone ==
    ASSUME StreamTypeOK, StreamTypeOK', WireInv, AloneInv, PollHandle PROVE AloneInv'
<1> SUFFICES ASSUME ~Bridged
             PROVE  /\ TaskAlone(task', runs') /\ \A q \in Runs : RunAlone(q, task', runs', buffer')
                    /\ ReaderAlone(sse', screen', task', runs') /\ DoneAlone(sse', screen', task')
  BY AloneNext DEF PollHandle
<1> DEFINE c0 == [sse |-> [sse EXCEPT !.gen = sse.seen.gen], screen |-> screen]
           c1 == StartTurn(c0)
           c2 == ChangeAttempt(c1)
           c3 == SendWholeText(c2)
           c4 == Drain(c3)
           c5 == SendItems(c4)
           end == IF Ended(sse) THEN "done" ELSE "reading"
           t == sse.seen
<1>1. /\ sse.pc = "handling" /\ UNCHANGED <<task, runs, buffer>>
      /\ \E c \in {UpdateTurn(c5), c5} :
            /\ Ended(sse) => c = UpdateTurn(c5)
            /\ sse' = [c.sse EXCEPT !.pc = end, !.seen = NoTask] /\ screen' = c.screen
  BY DEF PollHandle, storeVars, wireVars
<1>2. /\ deployment \in Deployments /\ t \in Tasks /\ task \in Tasks
      /\ TaskAlone(task, runs) /\ ReaderAlone(sse, screen, task, runs)
      /\ sse \in Routes /\ screen \in ItemMaps /\ (sse.ready => sse.attempt \in Runs)
  BY <1>1, AloneParts, Unchanged, ConnectionIs DEF ReaderOK
<1>3. TrueRecord(t, task, runs)
  BY <1>1, <1>2 DEF ReaderAlone
<1>4. CleanRecord(t)
  BY <1>2, <1>3, CleanSeen
<1>5. RoundAlone(c1) /\ c1.sse.seen = t
  <2> DEFINE g == t.gen
             s == [sse EXCEPT !.gen = g]
  <2>1. g \in 0..MaxRuns
    <3>1. g \in Runs
      BY <1>2 DEF Tasks
    <3> QED
      BY <1>2, <3>1, Bounds
  <2> HIDE DEF g
  <2>2. /\ s \in Routes /\ s.ready = sse.ready /\ s.attempt = sse.attempt /\ s.seen = t
        /\ s.gen = g /\ s.versions = sse.versions /\ s.pending = sse.pending
    BY <1>2, <2>1 DEF Routes
  <2>3. c0 = [sse |-> s, screen |-> screen]
    BY DEF g
  <2> HIDE DEF s, c0
  <2>4. c0.sse = s /\ c0.screen = screen /\ Polling(c0)
    <3>1. c0.sse = s /\ c0.screen = screen /\ c0 \in Connections
      BY <1>2, <2>2, <2>3, ConnectionIs
    <3> QED
      BY <1>2, <2>2, <3>1 DEF Polling
  <2>5. Settled(c0.sse) = Settled(sse)
    BY <2>2, <2>4 DEF Settled
  <2>6. ShownSettled(c0.sse, c0.screen) /\ Recorded(c0.sse.seen, c0.sse)
    BY <1>1, <1>2, <2>2, <2>4, <2>5 DEF ReaderAlone, ShownSettled, Recorded
  <2>7. /\ \A e \in Range(c0.sse.pending) : e.run = e.attempt
        /\ IF c0.sse.ready
           THEN /\ c0.sse.attempt <= c0.sse.seen.attempt
                /\ \A e \in Range(c0.sse.pending) : e.attempt # c0.sse.attempt
           ELSE DOMAIN c0.sse.versions = {}
    BY <1>1, <1>2, <2>2, <2>4 DEF ReaderAlone
  <2>8. c0.sse.gen = c0.sse.seen.gen /\ c0.sse.seen.gen = c0.sse.seen.attempt /\ CleanRecord(c0.sse.seen)
    BY <1>3, <1>4, <2>2, <2>4 DEF TrueRecord, g
  <2> QED
    BY <1>2, <2>2, <2>4, <2>6, <2>7, <2>8, StartTurnAlone
<1> HIDE DEF c1
<1>6. RoundAlone(c2) /\ c2.sse.seen = t /\ c2.sse.attempt = c2.sse.seen.attempt
  BY <1>2, <1>5, ChangeAttemptAlone
<1> HIDE DEF c2
<1>7. RoundAlone(c3) /\ c3.sse.seen = t /\ c3.sse.attempt = c3.sse.seen.attempt
  BY <1>2, <1>6, SendWholeTextAlone
<1> HIDE DEF c3
<1>8. RoundDrained(c4) /\ c4.sse.seen = t
  BY <1>2, <1>7, DrainAlone
<1> HIDE DEF c4
<1>9. ReaderAlone(sse', screen', task, runs) /\ DoneAlone(sse', screen', task)
  <2>1. CASE ~Ended(sse)
    <3>1. t.status # "completed" /\ end = "reading"
      BY <2>1 DEF Ended
    <3>2. RoundDrained(c5) /\ c5.sse.seen = t
      BY <1>2, <1>8, <3>1, SendItemsAlone
    <3> HIDE DEF c5
    <3>3. RoundDrained(UpdateTurn(c5)) /\ UpdateTurn(c5).sse.seen = t
      BY <1>2, <3>1, <3>2, UpdateTurnAlone
    <3>4. PICK c : /\ RoundDrained(c) /\ c.sse.seen = t
                   /\ sse' = [c.sse EXCEPT !.pc = "reading", !.seen = NoTask] /\ screen' = c.screen
      BY <1>1, <3>1, <3>2, <3>3
    <3> QED
      BY <1>3, <3>4, RoundLeaves
  <2>2. CASE Ended(sse)
    <3>1. t.status = "completed" /\ t = task /\ end = "done"
      BY <1>3, <2>2 DEF Ended, TrueRecord
    <3> DEFINE stored == StoredItems(task)
    <3>2. \A id \in DOMAIN stored : IsDone(stored[id])
      <4>1. \A id \in DOMAIN task.events : IsDone(task.events[id])
        BY <1>2, <3>1 DEF TaskAlone
      <4> DEFINE item == [text |-> <<0>>, status |-> "completed"]
                 whole == WholeItem(task.attempt)
      <4>2. stored = Put(task.events, whole, item) \/ stored = task.events
        BY DEF StoredItems
      <4>3. IsDone(item)
        BY DEF IsDone
      <4> HIDE DEF item, whole, stored
      <4> QED
        BY <4>1, <4>2, <4>3 DEF Put
    <3> HIDE DEF stored
    <3>3. stored = StoredItems(c4.sse.seen)
      BY <1>8, <3>1 DEF stored
    <3>4. LET items == UpdateTurn(c5).screen IN
          \A id \in DOMAIN stored : id \in DOMAIN items /\ items[id] = stored[id]
      BY <1>2, <1>8, <3>2, <3>3, LastRoundShows
    <3> HIDE DEF c5
    <3>5. PICK c : c = UpdateTurn(c5) /\ sse' = [c.sse EXCEPT !.pc = "done", !.seen = NoTask] /\ screen' = c.screen
      BY <1>1, <2>2, <3>1
    <3>6. OpenPolling(c)
      <4>1. OpenPolling(c5)
        BY <1>2, <1>8, SendItemsType DEF c5, RoundDrained, RoundAlone
      <4> QED
        BY <1>2, <3>5, <4>1, UpdateTurnType
    <3>7. sse'.pc = "done"
      BY <3>5, <3>6, PollingParts DEF Routes
    <3> QED
      BY <3>1, <3>4, <3>5, <3>7 DEF ReaderAlone, DoneAlone, stored
  <2> QED
    BY <2>1, <2>2
<1> QED
  BY <1>1, <1>9, AloneParts

LEMMA InitAlone == Init => AloneInv
<1> SUFFICES ASSUME Init PROVE AloneInv
  OBVIOUS
<1>1. /\ task.gen = 1 /\ task.attempt = 1 /\ task.status = "queued" /\ task.events = <<>>
      /\ sse = Closed
  BY DEF Init
<1>2. DOMAIN task.events = {}
  BY <1>1
<1>3. TaskAlone(task, runs)
  BY <1>1, <1>2 DEF TaskAlone, TrueRecord
<1>4. ASSUME NEW r \in Runs PROVE RunAlone(r, task, runs, buffer)
  <2>1. runs[r] = Unstarted /\ buffer[r] = <<>>
    BY DEF Init
  <2>2. runs[r].pc = "waiting" /\ DOMAIN runs[r].segs = {} /\ Range(buffer[r]) = {}
    BY <2>1 DEF Unstarted, Range
  <2> QED
    BY <2>1, <2>2 DEF RunAlone
<1>5. sse.pc = "closed"
  BY <1>1 DEF Closed
<1> QED
  BY <1>3, <1>4, <1>5 DEF AloneInv, ReaderAlone, DoneAlone

LEMMA StepAlone ==
    ASSUME StreamTypeOK, StreamTypeOK', WireInv, AloneInv, [Next]_vars PROVE AloneInv'
<1>1. CASE UNCHANGED vars
  <2>1. UNCHANGED <<deployment, task, runs, buffer, sse, screen>>
    BY <1>1 DEF vars, storeVars, wireVars
  <2> QED
    BY <2>1, AloneNext, AloneParts
<1>2. CASE Bridged
  <2>1. deployment' = deployment
    BY DEF Next, vars, Claim, TakeOver, RunStep, Write, EndSegment, Checkpoint, Finish, WorkerDies,
           WireStep, FlushTick, PublishMessage, BridgeMessage, Connect, PollRead, PollHandle
  <2> QED
    BY <1>2, <2>1, AloneNext
<1>3. CASE ~Bridged /\ Next
  <2>1. CASE Claim
    BY <2>1, ClaimAlone
  <2>2. ASSUME NEW r \in Runs, RunStep(r) \/ FlushTick(r) PROVE AloneInv'
    BY <2>2, WriteAlone, EndSegmentAlone, CheckpointAlone, FinishAlone, FlushTickAlone DEF RunStep
  <2>3. CASE Connect \/ PollRead \/ PollHandle
    BY <2>3, ConnectAlone, PollReadAlone, PollHandleAlone
  <2> QED
    BY <1>3, <2>1, <2>2, <2>3, NoWire DEF Next, WireStep
<1> QED
  BY <1>1, <1>2, <1>3

\* In a single process: when the stream of a turn has ended (turn/completed), every stored
\* item is on the screen as it is stored.
THEOREM FinalScreenShowsTheRecord == SafetySpec => []FinalScreenIsRecord
<1>1. Init => StreamTypeOK /\ WireInv /\ AloneInv
  BY InitTypes, InitSays, InitAlone
<1>2. StreamTypeOK /\ WireInv /\ AloneInv /\ [Next]_vars => (StreamTypeOK /\ WireInv /\ AloneInv)'
  BY StepKeepsTypes, StepSays, StepAlone
<1>3. AloneInv => FinalScreenIsRecord
  BY DEF AloneInv, DoneAlone, FinalScreenIsRecord
<1> QED
  BY <1>1, <1>2, <1>3, PTL DEF SafetySpec
=============================================================================
