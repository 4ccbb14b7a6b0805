----------------------- MODULE TaskStreamWords_proofs -----------------------
(***************************************************************************)
(* Proof that no word is missing (NoWordMissing of TaskStream), for every  *)
(* set of deployments and every number of runs, words, segments, messages  *)
(* and connections: in one process or with a bridge, with messages lost,   *)
(* workers dying, runs taken over and the client connecting again.         *)
(***************************************************************************)
EXTENDS TaskStream_proofs

-----------------------------------------------------------------------------
(* The invariant: no word is missing.  A word is on one of two paths.  As  *)
(* an event it is on the wire until it is shown; as text of the record it  *)
(* is sent when the reader polls.  What is sent whole may be shown again   *)
(* by late events, and is then either still whole, or so short that all    *)
(* that is left on the wire cannot make it longer than the record, which   *)
(* takes its place in the end.                                             *)

\* The words of segment i of run r in an event, among some events, and their number.
WordsIn(e, r, i) == IF e.run = r /\ e.phase = "delta" /\ e.ordinal = i THEN e.text ELSE <<>>
WordsOfEach(events, r, i) == [k \in DOMAIN events |-> WordsIn(events[k], r, i)]
WordsAmong(events, r, i) == FlattenSeq(WordsOfEach(events, r, i))
Count(events, r, i) == Len(WordsAmong(events, r, i))

\* The number of words of each segment that are on their way to the API, and of those it has.
Wire(ch, out, buf) ==
    [p \in Runs \X (1..MaxSegments) |->
        (Count(FlattenSeq(ch), p[1], p[2]) + Count(out[p[1]], p[1], p[2])) + Count(buf[p[1]], p[1], p[2])]
Size(rs, r, i) == IF i \in DOMAIN rs[r].segs THEN Len(rs[r].segs[i].text) ELSE 0

\* The id of a segment, and its text; whether the runs that came after r left its task alone.
Place(rs, r, i) == SegmentItem(rs[r].attempt, i)
TextOf(rs, r, i) == rs[r].segs[i].text
Kept(rs, r) == \A q \in Runs : q > r => rs[q].attempt # rs[r].attempt

\* An event names the attempt of its run.
Tagged(events, rs) == \A e \in Range(events) : e.attempt = rs[e.run].attempt

\* Is this text among some items, under this id?
HasText(items, id, text) == id \in DOMAIN items /\ items[id].text = text

\* What was written, and items that say no more than that, and have a segment as it is now
\* only if its run began by generation g.
WrittenBy(rs) == UNION {UNION {Range(TextOf(rs, r, i)) : i \in DOMAIN rs[r].segs} : r \in Runs}
KnownItems(items, g, rs) ==
    /\ \A id \in DOMAIN items : id[2] # 0 /\ Range(items[id].text) \subseteq WrittenBy(rs)
    /\ \A r \in Runs : \A i \in DOMAIN rs[r].segs :
          HasText(items, Place(rs, r, i), TextOf(rs, r, i)) => r <= g

\* A text that was sent whole is shown whole, or what is left of it fits behind what is shown.
Whole(c, id, text) == Range(text) \subseteq Range(c.screen[id].text)
Fits(c, r, id, text, left) ==
    HasText(c.sse.versions, id, text) /\ id \in DOMAIN c.screen =>
        \/ Whole(c, id, text)
        \/ Len(c.screen[id].text) + (Count(c.sse.pending, r, id[2]) + left) <= Len(text)

\* No more words of a segment are left than it has.
WordsLeft(c, rs, w) ==
    \A r \in Runs : \A i \in 1..MaxSegments : Count(c.sse.pending, r, i) + w[<<r, i>>] <= Size(rs, r, i)

\* A connected reader, with the words w on the wire.
Connected(s) == s.pc \in {"reading", "handling"}
ReaderWords(c, rs, w) ==
    /\ Tagged(c.sse.pending, rs) /\ WordsLeft(c, rs, w)
    /\ Connected(c.sse) =>
          /\ KnownItems(c.sse.versions, c.sse.gen, rs)
          /\ ~c.sse.ready => DOMAIN c.sse.versions = {}
          /\ \A r \in Runs : Kept(rs, r) => \A i \in DOMAIN rs[r].segs :
                Fits(c, r, Place(rs, r, i), TextOf(rs, r, i), w[<<r, i>>])

\* What the reader has read is of its round or a later one; an end that it has read is the end.
SeenWords(s, k, rs) ==
    /\ Connected(s) => s.gen <= k.gen
    /\ s.pc = "handling" =>
          /\ s.gen <= s.seen.gen /\ s.seen.gen <= k.gen
          /\ KnownItems(s.seen.events, s.seen.gen, rs)
          /\ s.seen.status = "completed" => s.seen = k

\* Is run r the one at work on task k, and is all it wrote stored?
AtWork(k, r) == r = k.gen /\ k.status = "running"
StoredAll(k, rs, r) ==
    \A i \in DOMAIN rs[r].segs : HasText(k.events, Place(rs, r, i), TextOf(rs, r, i))

\* A run that was not taken over is at work, or has stored all it wrote.
RunStored(k, rs, r) ==
    /\ rs[r].pc = "waiting" => rs[r] = Unstarted
    /\ \A i \in DOMAIN rs[r].segs : TextOf(rs, r, i) # <<>>
    /\ rs[r].pc = "streaming" => AtWork(k, r) \/ ~Kept(rs, r)
    /\ rs[r].pc # "waiting" /\ Kept(rs, r) /\ ~AtWork(k, r) => StoredAll(k, rs, r)
    /\ rs[r].pc = "streaming" /\ AtWork(k, r) /\ rs[r].saved => StoredAll(k, rs, r)
TaskStored(k, rs) ==
    /\ k.status = "running" => rs[k.gen].attempt = k.attempt
    /\ KnownItems(k.events, k.gen, rs)
    /\ \A r \in Runs : RunStored(k, rs, r)

\* Words are numbered as they are written.
Numbered(rs) == WrittenBy(rs) \subseteq 1..Cardinality(WrittenBy(rs))

\* When the stream has ended, no word is missing.
DoneWords(s, items, k, rs) ==
    s.pc = "done" =>
        /\ k.status = "completed" /\ DOMAIN StoredItems(k) \subseteq DOMAIN items
        /\ ~k.streamed => 0 \in Range(items[WholeItem(k.attempt)].text)
        /\ \A r \in Runs : Kept(rs, r) => \A i \in DOMAIN rs[r].segs :
              Range(TextOf(rs, r, i)) \subseteq Range(items[Place(rs, r, i)].text)

WireTagged(ch, out, buf, rs) ==
    /\ Tagged(FlattenSeq(ch), rs)
    /\ \A r \in Runs : Tagged(out[r], rs) /\ Tagged(buf[r], rs)

WordsInv ==
    /\ TaskStored(task, runs) /\ Numbered(runs)
    /\ WireTagged(channel, outbox, buffer, runs)
    /\ ReaderWords([sse |-> sse, screen |-> screen], runs, Wire(channel, outbox, buffer))
    /\ SeenWords(sse, task, runs) /\ DoneWords(sse, screen, task, runs)

-----------------------------------------------------------------------------
(* Counting the words of a segment.                                        *)

LEMMA EventFields ==
    ASSUME NEW e \in Events
    PROVE  /\ e.run \in Runs /\ e.attempt \in Runs /\ e.phase \in {"start", "delta", "end"}
           /\ e.ordinal \in 1..MaxSegments /\ e.text \in Seq(Tokens) /\ Len(e.text) \in Nat
  BY DEF Events

LEMMA WordsInType ==
    ASSUME NEW e \in Events, NEW r, NEW i
    PROVE  WordsIn(e, r, i) \in Seq(Tokens)
  BY EventFields DEF WordsIn

LEMMA WordSeqs ==
    ASSUME NEW events \in Seq(Events), NEW r, NEW i
    PROVE  LET all == WordsOfEach(events, r, i) IN
           /\ all \in Seq(Seq(Tokens)) /\ Len(all) = Len(events)
           /\ \A k \in 1..Len(events) : all[k] = WordsIn(events[k], r, i)
<1> DEFINE n == Len(events)
           S == Seq(Tokens)
           all == [k \in 1..n |-> WordsIn(events[k], r, i)]
<1>1. n \in Nat /\ DOMAIN events = 1..n /\ \A k \in 1..n : events[k] \in Events
  OBVIOUS
<1>2. \A k \in 1..n : WordsIn(events[k], r, i) \in S
  BY <1>1, WordsInType
<1> HIDE DEF n, S
<1>3. all \in Seq(S) /\ Len(all) = n /\ \A k \in 1..n : all[k] = WordsIn(events[k], r, i)
  BY <1>1, <1>2
<1>4. all = WordsOfEach(events, r, i)
  BY <1>1 DEF WordsOfEach
<1> HIDE DEF all
<1> QED
  BY <1>3, <1>4 DEF n, S

LEMMA WordsAmongType ==
    ASSUME NEW events \in Seq(Events), NEW r, NEW i
    PROVE  WordsAmong(events, r, i) \in Seq(Tokens) /\ Count(events, r, i) \in Nat
<1> DEFINE all == WordsOfEach(events, r, i)
<1>1. all \in Seq(Seq(Tokens))
  BY WordSeqs
<1>2. WordsAmong(events, r, i) = FlattenSeq(all)
  BY DEF WordsAmong
<1> HIDE DEF all
<1>3. WordsAmong(events, r, i) \in Seq(Tokens)
  BY <1>1, <1>2, FlattenType
<1> QED
  BY <1>3 DEF Count

LEMMA CountNone == \A r, i : Count(<< >>, r, i) = 0
<1> SUFFICES ASSUME NEW r, NEW i PROVE Count(<< >>, r, i) = 0
  OBVIOUS
<1>1. WordsOfEach(<< >>, r, i) = << >>
  BY DEF WordsOfEach
<1>2. WordsAmong(<< >>, r, i) = << >>
  BY <1>1, FlattenEmpty DEF WordsAmong
<1> QED
  BY <1>2 DEF Count

LEMMA CountAppend ==
    ASSUME NEW events \in Seq(Events), NEW e \in Events, NEW r, NEW i
    PROVE  /\ Count(Append(events, e), r, i) = Count(events, r, i) + Len(WordsIn(e, r, i))
           /\ Count(events, r, i) \in Nat /\ Len(WordsIn(e, r, i)) \in Nat
<1> DEFINE more == Append(events, e)
           one == WordsOfEach(events, r, i)
           all == WordsOfEach(more, r, i)
           word == WordsIn(e, r, i)
           S == Seq(Tokens)
<1>1. /\ Len(events) \in Nat /\ more \in Seq(Events) /\ Len(more) = Len(events) + 1
      /\ more[Len(events) + 1] = e /\ \A k \in 1..Len(events) : more[k] = events[k]
  BY AppendIs
<1> HIDE DEF more
<1>2. one \in Seq(S) /\ Len(one) = Len(events) /\ \A k \in 1..Len(events) : one[k] = WordsIn(events[k], r, i)
  BY WordSeqs
<1>3. all \in Seq(S) /\ Len(all) = Len(more) /\ \A k \in 1..Len(more) : all[k] = WordsIn(more[k], r, i)
  <2>1. more \in Seq(Events)
    BY <1>1
  <2> QED
    BY <2>1, WordSeqs
<1>4. word \in S
  BY WordsInType
<1>5. WordsAmong(events, r, i) = FlattenSeq(one) /\ WordsAmong(more, r, i) = FlattenSeq(all)
  BY DEF WordsAmong
<1>6. all = Append(one, word)
  <2> HIDE DEF one, all, S
  <2>1. /\ Append(one, word) \in Seq(S) /\ Len(Append(one, word)) = Len(events) + 1
        /\ Append(one, word)[Len(events) + 1] = word
        /\ \A k \in 1..Len(events) : Append(one, word)[k] = one[k]
    BY <1>2, <1>4, AppendIs
  <2> HIDE DEF word
  <2>2. \A k \in 1..Len(more) : all[k] = Append(one, word)[k]
    <3> SUFFICES ASSUME NEW k \in 1..Len(more) PROVE all[k] = Append(one, word)[k]
      OBVIOUS
    <3>1. k \in 1..Len(events) \/ k = Len(events) + 1
      BY <1>1
    <3> QED
      BY <1>1, <1>2, <1>3, <2>1, <3>1 DEF word
  <2> QED
    BY <1>1, <1>3, <2>1, <2>2, SameSeq
<1> HIDE DEF one, all
<1>7. FlattenSeq(Append(one, word)) = FlattenSeq(one) \o word
  BY <1>2, <1>4, FlattenAppend
<1>8. WordsAmong(more, r, i) = WordsAmong(events, r, i) \o word
  BY <1>5, <1>6, <1>7
<1>9. WordsAmong(events, r, i) \in S
  BY WordsAmongType
<1> QED
  BY <1>4, <1>8, <1>9, Concat DEF Count, more

LEMMA CountConcat ==
    ASSUME NEW s \in Seq(Events), NEW t \in Seq(Events), NEW r, NEW i
    PROVE  /\ Count(s \o t, r, i) = Count(s, r, i) + Count(t, r, i)
           /\ Count(s, r, i) \in Nat /\ Count(t, r, i) \in Nat
<1> DEFINE Good(u) == Count(s \o u, r, i) = Count(s, r, i) + Count(u, r, i)
           G == {n \in Nat : \A u \in Seq(Events) : Len(u) = n => Good(u)}
<1>0. Count(s, r, i) \in Nat
  BY WordsAmongType
<1>1. 0 \in G
  <2> SUFFICES ASSUME NEW u \in Seq(Events), Len(u) = 0 PROVE Good(u)
    OBVIOUS
  <2>1. u = << >> /\ s \o u = s
    OBVIOUS
  <2> QED
    BY <1>0, <2>1, CountNone
<1>2. ASSUME NEW n \in Nat, n \in G PROVE n + 1 \in G
  <2> SUFFICES ASSUME NEW u \in Seq(Events), Len(u) = n + 1 PROVE Good(u)
    OBVIOUS
  <2>1. u # << >> /\ Len(u) - 1 = n
    OBVIOUS
  <2>2. PICK front \in Seq(Events), last \in Events : u = Append(front, last) /\ Len(front) = n
    BY <2>1, FrontAndLast
  <2>3. Good(front)
    BY <1>2, <2>2
  <2>4. s \o u = Append(s \o front, last) /\ s \o front \in Seq(Events)
    BY <2>2
  <2> DEFINE more == Len(WordsIn(last, r, i))
             both == s \o front
  <2> HIDE DEF both
  <2>5. Count(s \o u, r, i) = Count(s \o front, r, i) + more
    <3>1. both \in Seq(Events) /\ s \o u = Append(both, last)
      BY <2>4 DEF both
    <3>2. Count(Append(both, last), r, i) = Count(both, r, i) + more
      BY <2>2, <3>1, CountAppend
    <3> QED
      BY <3>1, <3>2 DEF both
  <2>6. Count(u, r, i) = Count(front, r, i) + more /\ Count(front, r, i) \in Nat /\ more \in Nat
    BY <2>2, CountAppend
  <2> HIDE DEF more
  <2> QED
    BY <1>0, <2>3, <2>5, <2>6
<1> HIDE DEF G
<1>3. Len(t) \in G
  <2>1. Len(t) \in Nat
    OBVIOUS
  <2> QED
    BY <1>1, <1>2, <2>1, SetInduction
<1> QED
  BY <1>0, <1>3, WordsAmongType DEF G

LEMMA CountOne ==
    ASSUME NEW e \in Events, NEW r, NEW i
    PROVE  Count(<<e>>, r, i) = Len(WordsIn(e, r, i)) /\ Len(WordsIn(e, r, i)) \in Nat
<1>1. PICK none \in Seq(Events) : none = << >>
  <2>1. << >> \in Seq(Events)
    OBVIOUS
  <2> QED
    BY <2>1
<1>2. <<e>> = Append(none, e)
  BY <1>1
<1>3. /\ Count(Append(none, e), r, i) = Count(none, r, i) + Len(WordsIn(e, r, i))
      /\ Len(WordsIn(e, r, i)) \in Nat
  BY CountAppend
<1> QED
  BY <1>1, <1>2, <1>3, CountNone

\* What is left when the oldest events are dropped.
LEMMA CountEnd ==
    ASSUME NEW s \in Seq(Events), NEW n \in Nat, NEW r, NEW i
    PROVE  Count(SubSeq(s, n + 1, Len(s)), r, i) <= Count(s, r, i)
<1> DEFINE end == SubSeq(s, n + 1, Len(s))
           front == SubSeq(s, 1, n)
<1>1. CASE n <= Len(s)
  <2>0. Len(s) \in Nat /\ \A k \in 1..Len(s) : s[k] \in Events
    OBVIOUS
  <2>1. end \in Seq(Events) /\ front \in Seq(Events) /\ s = front \o end
    <3>1. front \in Seq(Events) /\ Len(front) = n /\ \A k \in 1..n : front[k] = s[k]
      BY <1>1, <2>0
    <3>2. end \in Seq(Events) /\ Len(end) = Len(s) - n /\ \A k \in 1..(Len(s) - n) : end[k] = s[n + k]
      BY <1>1, <2>0
    <3> HIDE DEF front, end
    <3>3. /\ front \o end \in Seq(Events) /\ Len(front \o end) = Len(s)
          /\ \A k \in 1..n : (front \o end)[k] = front[k]
          /\ \A k \in 1..(Len(s) - n) : (front \o end)[n + k] = end[k]
      BY <1>1, <2>0, <3>1, <3>2, Concat
    <3>4. ASSUME NEW k \in 1..Len(s) PROVE (front \o end)[k] = s[k]
      <4>1. CASE k <= n
        BY <3>1, <3>3, <4>1
      <4>2. CASE ~(k <= n)
        <5>1. k - n \in 1..(Len(s) - n) /\ n + (k - n) = k
          BY <1>1, <2>0, <4>2
        <5> QED
          BY <3>2, <3>3, <5>1
      <4> QED
        BY <4>1, <4>2
    <3> QED
      BY <3>1, <3>2, <3>3, <3>4, SameSeq
  <2> HIDE DEF end, front
  <2>2. Count(s, r, i) = Count(front, r, i) + Count(end, r, i) /\ Count(front, r, i) \in Nat /\ Count(end, r, i) \in Nat
    BY <2>1, CountConcat
  <2> QED
    BY <2>2 DEF end
<1>2. CASE ~(n <= Len(s))
  <2>1. end = << >>
    <3>1. Len(s) \in Nat /\ n + 1 > Len(s)
      BY <1>2
    <3> QED
      BY <3>1
  <2>2. Count(s, r, i) \in Nat
    BY WordsAmongType
  <2>3. Count(end, r, i) = 0
    BY <2>1, CountNone
  <2> QED
    BY <2>2, <2>3
<1> QED
  BY <1>1, <1>2

\* Events of other runs, or of other segments, have no words of this one.
LEMMA CountOfOthers ==
    ASSUME NEW s \in Seq(Events), NEW r, NEW i, \A e \in Range(s) : WordsIn(e, r, i) = << >>
    PROVE  Count(s, r, i) = 0
<1> DEFINE G == {n \in Nat : \A u \in Seq(Events) :
                    Len(u) = n /\ (\A e \in Range(u) : WordsIn(e, r, i) = << >>) => Count(u, r, i) = 0}
<1>1. 0 \in G
  <2> SUFFICES ASSUME NEW u \in Seq(Events), Len(u) = 0 PROVE Count(u, r, i) = 0
    OBVIOUS
  <2>1. u = << >>
    OBVIOUS
  <2> QED
    BY <2>1, CountNone
<1>2. ASSUME NEW n \in Nat, n \in G PROVE n + 1 \in G
  <2> SUFFICES ASSUME NEW u \in Seq(Events), Len(u) = n + 1, \A e \in Range(u) : WordsIn(e, r, i) = << >>
               PROVE  Count(u, r, i) = 0
    OBVIOUS
  <2>1. u # << >> /\ Len(u) - 1 = n
    OBVIOUS
  <2>2. PICK front \in Seq(Events), last \in Events :
            /\ u = Append(front, last) /\ Len(front) = n /\ last = u[Len(u)]
            /\ \A k \in 1..Len(front) : front[k] = u[k]
    BY <2>1, FrontAndLast
  <2>3. last \in Range(u) /\ \A e \in Range(front) : e \in Range(u)
    BY <2>2 DEF Range
  <2>4. Count(front, r, i) = 0
    BY <1>2, <2>2, <2>3
  <2>5. Len(WordsIn(last, r, i)) = 0
    BY <2>3
  <2>6. Count(u, r, i) = Count(front, r, i) + Len(WordsIn(last, r, i))
    BY <2>2, CountAppend
  <2> QED
    BY <2>4, <2>5, <2>6
<1> HIDE DEF G
<1>3. Len(s) \in G
  <2>1. Len(s) \in Nat
    OBVIOUS
  <2> QED
    BY <1>1, <1>2, <2>1, SetInduction
<1> QED
  BY <1>3 DEF G

\* A delta that joins the one before it adds its words.
LEMMA CountCoalesce ==
    ASSUME NEW list \in Seq(Events), NEW e \in Events, e.phase = "delta", AllOf(list, e.run), NEW r, NEW i
    PROVE  Count(Coalesce(list, e), r, i) = Count(list, r, i) + Len(WordsIn(e, r, i))
<1>1. CASE list # <<>> /\ Last(list).phase = "delta" /\ Last(list).ordinal = e.ordinal
                       /\ Last(list).attempt = e.attempt
  <2>1. PICK front \in Seq(Events), last \in Events :
            /\ list = Append(front, last) /\ Len(front) = Len(list) - 1 /\ last = list[Len(list)]
    BY <1>1, FrontAndLast
  <2>2. last.phase = "delta" /\ last.ordinal = e.ordinal /\ last.run = e.run
    BY <1>1, <2>1 DEF Last, AllOf
  <2> DEFINE text == last.text \o e.text
             longer == [last EXCEPT !.text = text]
  <2>3. last.text \in Seq(Tokens) /\ e.text \in Seq(Tokens) /\ text \in Seq(Tokens) /\ Len(text) = Len(last.text) + Len(e.text)
    BY EventFields, Concat
  <2> HIDE DEF text
  <2>4. longer \in Events /\ longer.phase = "delta" /\ longer.ordinal = e.ordinal /\ longer.run = e.run /\ longer.text = text
    BY <2>2, <2>3 DEF Events
  <2>5. Coalesce(list, e) = [list EXCEPT ![Len(list)] = longer]
    BY <1>1, <2>1 DEF Coalesce, text
  <2> HIDE DEF longer
  <2>6. [list EXCEPT ![Len(list)] = longer] = Append(front, longer)
    <3> DEFINE n == Len(list)
               new == [list EXCEPT ![n] = longer]
               app == Append(front, longer)
    <3>1. n \in 1..n /\ n \in Nat /\ Len(front) + 1 = n
      BY <1>1, <2>1
    <3>2. new \in Seq(Events) /\ Len(new) = n /\ new[n] = longer /\ \A k \in 1..n : k # n => new[k] = list[k]
      BY <2>4, <3>1
    <3>3. app \in Seq(Events) /\ Len(app) = n /\ app[n] = longer /\ \A k \in 1..Len(front) : app[k] = front[k]
      BY <2>1, <2>4, <3>1, AppendIs
    <3>4. \A k \in 1..Len(front) : list[k] = front[k]
      BY <2>1, <3>1, AppendIs
    <3> HIDE DEF new, app, n
    <3>5. \A k \in 1..n : new[k] = app[k]
      BY <3>1, <3>2, <3>3, <3>4
    <3>6. new = app
      BY <3>2, <3>3, <3>5, SameSeq
    <3> QED
      BY <3>6 DEF new, app, n
  <2>7. /\ Count(Append(front, longer), r, i) = Count(front, r, i) + Len(WordsIn(longer, r, i))
        /\ Count(list, r, i) = Count(front, r, i) + Len(WordsIn(last, r, i))
        /\ Count(front, r, i) \in Nat /\ Len(WordsIn(longer, r, i)) \in Nat /\ Len(WordsIn(last, r, i)) \in Nat
        /\ Len(WordsIn(e, r, i)) \in Nat
    BY <2>1, <2>4, CountAppend
  <2>8. Len(WordsIn(longer, r, i)) = Len(WordsIn(last, r, i)) + Len(WordsIn(e, r, i))
    <3>1. CASE e.run = r /\ e.ordinal = i
      BY <2>2, <2>3, <2>4, <3>1 DEF WordsIn, text
    <3>2. CASE ~(e.run = r /\ e.ordinal = i)
      <4>1. WordsIn(longer, r, i) = << >> /\ WordsIn(last, r, i) = << >> /\ WordsIn(e, r, i) = << >>
        BY <2>2, <2>4, <3>2 DEF WordsIn
      <4> QED
        BY <4>1
    <3> QED
      BY <3>1, <3>2
  <2> DEFINE f == Count(front, r, i)
             a == Len(WordsIn(last, r, i))
             b == Len(WordsIn(e, r, i))
             l == Len(WordsIn(longer, r, i))
  <2>9. Count(Coalesce(list, e), r, i) = f + l
    BY <2>5, <2>6, <2>7
  <2>10. Count(list, r, i) = f + a /\ f \in Nat /\ a \in Nat /\ b \in Nat /\ l = a + b
    BY <2>7, <2>8
  <2> HIDE DEF f, a, b, l
  <2>11. Count(Coalesce(list, e), r, i) = Count(list, r, i) + b
    BY <2>9, <2>10
  <2> QED
    BY <2>11 DEF b
<1>2. CASE ~(list # <<>> /\ Last(list).phase = "delta" /\ Last(list).ordinal = e.ordinal
                         /\ Last(list).attempt = e.attempt)
  BY <1>2, CountAppend DEF Coalesce
<1> QED
  BY <1>1, <1>2

LEMMA CountGather ==
    ASSUME NEW list \in Seq(Events), NEW e \in Events, e.phase = "delta", AllOf(list, e.run), NEW r, NEW i
    PROVE  Count(Gather(list, <<e>>), r, i) = Count(list, r, i) + Len(WordsIn(e, r, i))
<1>1. Gather(list, <<e>>) = Coalesce(list, e)
  BY DEF Gather
<1> QED
  BY <1>1, CountCoalesce

-----------------------------------------------------------------------------
(* What showing events does to the words of a segment.                     *)

LEMMA ListenIs ==
    ASSUME deployment \in Deployments, NEW gate, NEW c \in Connections, NEW e \in Events
    PROVE  LET d == Listen(gate, c, e) IN
           /\ ~Passes(gate, e) => /\ d.sse.versions = c.sse.versions /\ d.screen = c.screen
                                  /\ d.sse.pending = Append(c.sse.pending, e)
           /\ Passes(gate, e) => d.sse.pending = c.sse.pending
           /\ Passes(gate, e) /\ e.phase = "start" =>
                 /\ d.sse.versions = c.sse.versions
                 /\ d.screen = ShowItem(c.screen, ItemOf(e), [text |-> <<>>, status |-> "inProgress"])
           /\ Passes(gate, e) /\ e.phase = "delta" =>
                 d.sse.versions = c.sse.versions /\ d.screen = ShowDelta(c.screen, ItemOf(e), e.text)
           /\ Passes(gate, e) /\ e.phase = "end" =>
                 /\ d.sse.versions = Put(c.sse.versions, ItemOf(e), LiveVersion)
                 /\ d.screen = ShowItem(c.screen, ItemOf(e), [text |-> e.text, status |-> "completed"])
<1> DEFINE d == Listen(gate, c, e)
           id == ItemOf(e)
           s == [c.sse EXCEPT !.segmented = TRUE]
<1>1. c.sse \in Routes /\ c = [sse |-> c.sse, screen |-> c.screen]
  BY ConnectionParts
<1>2. s \in Routes /\ s.versions = c.sse.versions /\ s.pending = c.sse.pending
  BY <1>1 DEF Routes
<1> HIDE DEF s, d
<1>3. CASE ~Passes(gate, e)
  <2> DEFINE more == Append(c.sse.pending, e)
             u == [c.sse EXCEPT !.pending = more]
  <2> HIDE DEF more
  <2>1. d = [c EXCEPT !.sse.pending = more]
    BY <1>3 DEF Listen, more, d
  <2>2. d = [sse |-> u, screen |-> c.screen]
    BY <1>1, <2>1
  <2>3. u.versions = c.sse.versions /\ u.pending = more
    BY <1>1 DEF Routes
  <2> HIDE DEF u
  <2> QED
    BY <1>3, <2>2, <2>3 DEF more, d
<1>4. CASE Passes(gate, e)
  <2>1. d = ShowEvent(c, e)
    BY <1>4 DEF Listen, d
  <2>2. CASE e.phase = "start"
    <3>1. d = [sse |-> s, screen |-> ShowItem(c.screen, id, [text |-> <<>>, status |-> "inProgress"])]
      BY <2>1, <2>2 DEF ShowEvent, s, ItemOf
    <3> QED
      BY <1>2, <1>4, <2>2, <3>1 DEF d
  <2>3. CASE e.phase = "delta"
    <3> DEFINE all == s.sent + Len(e.text)
               u == [s EXCEPT !.sent = all]
    <3>1. d = [sse |-> u, screen |-> ShowDelta(c.screen, id, e.text)]
      BY <2>1, <2>3 DEF ShowEvent, s, ItemOf
    <3> HIDE DEF all
    <3>2. u.versions = s.versions /\ u.pending = s.pending
      BY <1>2 DEF Routes
    <3> HIDE DEF u
    <3> QED
      BY <1>2, <1>4, <2>3, <3>1, <3>2 DEF d
  <2>4. CASE e.phase = "end"
    <3> DEFINE put == Put(s.versions, id, LiveVersion)
               u == [s EXCEPT !.versions = put]
               items == ShowItem(c.screen, id, [text |-> e.text, status |-> "completed"])
    <3>1. d = [sse |-> u, screen |-> items]
      BY <2>1, <2>4 DEF ShowEvent, s, ItemOf
    <3> HIDE DEF put, items
    <3>2. u.versions = put /\ u.pending = s.pending
      BY <1>2 DEF Routes
    <3> HIDE DEF u
    <3> QED
      BY <1>2, <1>4, <2>4, <3>1, <3>2 DEF put, items, d
  <2> QED
    BY <2>2, <2>3, <2>4, EventFields
<1> QED
  BY <1>3, <1>4 DEF d

LEMMA ShownItem ==
    ASSUME NEW items, NEW x, NEW item, NEW id
    PROVE  LET shown == ShowItem(items, x, item) IN
           /\ id = x => id \in DOMAIN shown /\ shown[id] = item
           /\ id # x /\ id \in DOMAIN shown => id \in DOMAIN items /\ shown[id] = items[id]
  BY DEF ShowItem, Put

LEMMA ShownDelta ==
    ASSUME NEW items \in ItemMaps, NEW x, NEW more \in Seq(Tokens)
    PROVE  /\ x \in DOMAIN items => ShowDelta(items, x, more)[x].text = items[x].text \o more
           /\ x \notin DOMAIN items => ShowDelta(items, x, more)[x].text = more
           /\ \A y \in DOMAIN ShowDelta(items, x, more) :
                 y # x => y \in DOMAIN items /\ ShowDelta(items, x, more)[y] = items[y]
<1> DEFINE shown == ShowDelta(items, x, more)
<1>1. CASE x \in DOMAIN items
  <2> DEFINE text == items[x].text \o more
             item == [items[x] EXCEPT !.text = text]
  <2>1. shown = [items EXCEPT ![x] = item]
    BY <1>1 DEF ShowDelta
  <2>2. items[x] \in Segments
    BY <1>1, ItemMapIs
  <2> HIDE DEF text
  <2>3. item.text = text
    BY <2>2 DEF Segments
  <2> HIDE DEF item
  <2>4. shown[x] = item /\ \A y \in DOMAIN shown : y # x => y \in DOMAIN items /\ shown[y] = items[y]
    <3>1. items = [y \in DOMAIN items |-> items[y]]
      BY ItemMapIs
    <3> QED
      BY <1>1, <2>1, <3>1
  <2> HIDE DEF shown
  <2> QED
    BY <1>1, <2>3, <2>4 DEF text, shown
<1>2. CASE x \notin DOMAIN items
  BY <1>2 DEF ShowDelta, Put
<1> QED
  BY <1>1, <1>2

\* More words do not take any away.
LEMMA RangeOfMore ==
    ASSUME NEW S, NEW s \in Seq(S), NEW t \in Seq(S)
    PROVE  Range(s \o t) = Range(s) \cup Range(t)
<1> DEFINE u == s \o t
<1>1. /\ u \in Seq(S) /\ Len(u) = Len(s) + Len(t) /\ Len(s) \in Nat /\ Len(t) \in Nat
      /\ \A i \in 1 .. Len(s) : u[i] = s[i]
      /\ \A i \in 1 .. Len(t) : u[Len(s) + i] = t[i]
  BY Concat
<1>2. DOMAIN u = 1..Len(u) /\ DOMAIN s = 1..Len(s) /\ DOMAIN t = 1..Len(t)
  BY <1>1
<1> HIDE DEF u
<1>3. ASSUME NEW x \in Range(u) PROVE x \in Range(s) \cup Range(t)
  <2>1. PICK i \in 1..Len(u) : x = u[i]
    BY <1>2 DEF Range
  <2>2. CASE i <= Len(s)
    BY <1>1, <1>2, <2>1, <2>2 DEF Range
  <2>3. CASE ~(i <= Len(s))
    <3>1. i - Len(s) \in 1..Len(t) /\ Len(s) + (i - Len(s)) = i
      BY <1>1, <2>3
    <3> QED
      BY <1>1, <1>2, <2>1, <3>1 DEF Range
  <2> QED
    BY <2>2, <2>3
<1>4. ASSUME NEW x \in Range(s) \cup Range(t) PROVE x \in Range(u)
  <2>1. CASE x \in Range(s)
    <3>1. PICK i \in 1..Len(s) : x = s[i]
      BY <1>2, <2>1 DEF Range
    <3>2. i \in 1..Len(u)
      BY <1>1
    <3> QED
      BY <1>1, <1>2, <3>1, <3>2 DEF Range
  <2>2. CASE x \in Range(t)
    <3>1. PICK i \in 1..Len(t) : x = t[i]
      BY <1>2, <2>2 DEF Range
    <3>2. Len(s) + i \in 1..Len(u)
      BY <1>1
    <3> QED
      BY <1>1, <1>2, <3>1, <3>2 DEF Range
  <2> QED
    BY <2>1, <2>2
<1> QED
  BY <1>3, <1>4 DEF u

LEMMA ListenFits ==
    ASSUME deployment \in Deployments, NEW gate, NEW c \in Connections, NEW e \in Events,
           NEW d, d = Listen(gate, c, e), gate.gen \in Nat,
           NEW r \in Runs, NEW a, NEW i \in 1..MaxSegments, NEW id, id = SegmentItem(a, i),
           NEW text \in Seq(Tokens), text # << >>, NEW left \in Nat,
           e.run = r => e.attempt = a, e.attempt = a => e.run <= r,
           HasText(c.sse.versions, id, text) => r <= gate.gen,
           Count(c.sse.pending, r, i) + (Len(WordsIn(e, r, i)) + left) <= Len(text),
           Fits(c, r, id, text, Len(WordsIn(e, r, i)) + left)
    PROVE  Fits(d, r, id, text, left)
<1> DEFINE here == Len(WordsIn(e, r, i))
           wait == Count(c.sse.pending, r, i)
<1>1. /\ c.sse \in Routes /\ c.screen \in ItemMaps /\ d \in Connections /\ d.screen \in ItemMaps
      /\ c.sse.pending \in Seq(Events)
  <2>1. c.sse \in Routes /\ c.screen \in ItemMaps /\ d \in Connections
    BY ConnectionParts, ListenType
  <2> QED
    BY <2>1, ConnectionParts DEF Routes
<1>2. wait \in Nat /\ here \in Nat /\ Len(text) \in Nat
  BY <1>1, WordsAmongType, CountOne
<1>3. id[1] = a /\ id[2] = i /\ ItemOf(e)[1] = e.attempt /\ ItemOf(e)[2] = e.ordinal
      /\ ItemOf(e) = <<e.attempt, e.ordinal>> /\ id = <<a, i>>
  BY DEF SegmentItem, ItemOf
<1> SUFFICES ASSUME HasText(d.sse.versions, id, text), id \in DOMAIN d.screen
             PROVE  Whole(d, id, text) \/ Len(d.screen[id].text) + (Count(d.sse.pending, r, i) + left) <= Len(text)
  BY <1>3 DEF Fits
<1>4. \A x \in DOMAIN c.screen : c.screen[x].text \in Seq(Tokens) /\ Len(c.screen[x].text) \in Nat
  <2> SUFFICES ASSUME NEW x \in DOMAIN c.screen PROVE c.screen[x].text \in Seq(Tokens)
    OBVIOUS
  <2>1. c.screen[x] \in Segments
    BY <1>1, ItemMapIs
  <2> QED
    BY <2>1 DEF Segments
<1>5. CASE ~Passes(gate, e)
  <2>1. /\ d.sse.versions = c.sse.versions /\ d.screen = c.screen
        /\ d.sse.pending = Append(c.sse.pending, e)
    BY <1>5, ListenIs
  <2>2. Count(d.sse.pending, r, i) = wait + here
    BY <1>1, <2>1, CountAppend
  <2> HIDE DEF wait, here
  <2>3. Whole(c, id, text) \/ Len(c.screen[id].text) + (wait + (here + left)) <= Len(text)
    BY <1>3, <2>1 DEF Fits, wait, here
  <2>4. Len(c.screen[id].text) \in Nat
    BY <1>4, <2>1
  <2> QED
    BY <1>2, <2>1, <2>2, <2>3, <2>4 DEF Whole
<1>6. CASE Passes(gate, e)
  <2>0. d.sse.pending = c.sse.pending
    BY <1>6, ListenIs
  <2>2. HasText(c.sse.versions, id, text) /\ (e.phase = "end" => ItemOf(e) # id)
    <3>1. CASE e.phase # "end"
      <4>1. d.sse.versions = c.sse.versions
        BY <1>6, <3>1, ListenIs, EventFields
      <4> QED
        BY <3>1, <4>1
    <3>2. CASE e.phase = "end"
      <4>1. d.sse.versions = Put(c.sse.versions, ItemOf(e), LiveVersion)
        BY <1>6, <3>2, ListenIs
      <4> QED
        BY <3>2, <4>1 DEF HasText, Put, LiveVersion
    <3> QED
      BY <3>1, <3>2
  <2>3. r <= gate.gen /\ e.run = gate.gen /\ r \in Nat
    BY <1>6, <2>2, Bounds DEF Passes, Runs
  <2>6. wait + (here + left) <= Len(text) /\ Count(d.sse.pending, r, i) = wait
    BY <2>0
  <2>4. CASE ItemOf(e) = id
    <3>1. e.run = r /\ e.ordinal = i
      BY <1>3, <2>3, <2>4
    <3>2. CASE e.phase = "start"
      <4>0. d.screen = ShowItem(c.screen, id, [text |-> <<>>, status |-> "inProgress"])
        <5>1. d.screen = ShowItem(c.screen, ItemOf(e), [text |-> <<>>, status |-> "inProgress"])
          BY <1>6, <3>2, ListenIs
        <5> QED
          BY <2>4, <5>1
      <4>1. d.screen[id].text = << >>
        BY <4>0 DEF ShowItem, Put
      <4>2. Len(d.screen[id].text) = 0
        BY <4>1
      <4> HIDE DEF wait, here
      <4> QED
        BY <1>2, <2>6, <4>2
    <3>3. CASE e.phase = "delta"
      <4>1. WordsIn(e, r, i) = e.text /\ e.text \in Seq(Tokens) /\ here = Len(e.text)
        BY <3>1, <3>3, EventFields DEF WordsIn
      <4>3. d.screen = ShowDelta(c.screen, id, e.text)
        <5>1. d.screen = ShowDelta(c.screen, ItemOf(e), e.text)
          BY <1>6, <3>3, ListenIs
        <5> QED
          BY <2>4, <5>1
      <4> HIDE DEF wait, here
      <4>5. CASE id \in DOMAIN c.screen
        <5> DEFINE old == c.screen[id].text
        <5>1. d.screen[id].text = old \o e.text /\ old \in Seq(Tokens) /\ Len(old) \in Nat
          <6>1. old \in Seq(Tokens) /\ Len(old) \in Nat
            BY <1>4, <4>5
          <6>2. ShowDelta(c.screen, id, e.text)[id].text = old \o e.text
            <7>1. PICK more \in Seq(Tokens) : more = e.text
              BY <4>1
            <7>2. PICK items \in ItemMaps : items = c.screen
              BY <1>1
            <7>3. ShowDelta(items, id, more)[id].text = items[id].text \o more
              BY <4>5, <7>1, <7>2, ShownDelta
            <7> QED
              BY <7>1, <7>2, <7>3
          <6> QED
            BY <4>3, <6>1, <6>2
        <5>2. Whole(c, id, text) \/ Len(old) + (wait + (here + left)) <= Len(text)
          BY <1>3, <2>2, <4>5 DEF Fits, wait, here
        <5>3. Len(d.screen[id].text) = Len(old) + here /\ Range(old) \subseteq Range(d.screen[id].text)
          <6> HIDE DEF old
          <6>1. Len(old \o e.text) = Len(old) + Len(e.text)
            BY <4>1, <5>1, Concat
          <6>2. Range(old \o e.text) = Range(old) \cup Range(e.text)
            BY <4>1, <5>1, RangeOfMore
          <6> QED
            BY <4>1, <5>1, <6>1, <6>2
        <5>4. Whole(c, id, text) => Whole(d, id, text)
          BY <5>3 DEF Whole, old
        <5> DEFINE now == Len(d.screen[id].text)
                   then == Len(old)
                   all == Len(text)
                   count == Count(d.sse.pending, r, i)
        <5>5. CASE ~Whole(c, id, text)
          <6>1. now = then + here /\ then + (wait + (here + left)) <= all /\ then \in Nat /\ all \in Nat /\ count = wait
            BY <1>2, <2>6, <5>1, <5>2, <5>3, <5>5
          <6> HIDE DEF now, then, all, count
          <6>2. now + (count + left) <= all
            BY <1>2, <6>1
          <6> QED
            BY <6>2 DEF now, all, count
        <5> QED
          BY <5>4, <5>5
      <4>6. CASE id \notin DOMAIN c.screen
        <5>1. d.screen[id].text = e.text
          BY <1>1, <4>1, <4>3, <4>6, ShownDelta
        <5>2. Len(d.screen[id].text) = here
          BY <4>1, <5>1
        <5> DEFINE now == Len(d.screen[id].text)
                   all == Len(text)
                   count == Count(d.sse.pending, r, i)
        <5>3. now = here /\ wait + (here + left) <= all /\ all \in Nat /\ count = wait
          BY <1>2, <2>6, <5>2
        <5> HIDE DEF now, all, count
        <5>4. now + (count + left) <= all
          BY <1>2, <5>3
        <5> QED
          BY <5>4 DEF now, all, count
      <4> QED
        BY <4>5, <4>6
    <3> QED
      BY <2>2, <2>4, <3>2, <3>3, EventFields
  <2>5. CASE ItemOf(e) # id
    <3>1. id \in DOMAIN c.screen /\ d.screen[id] = c.screen[id]
      <4>1. CASE e.phase = "start"
        <5>1. d.screen = ShowItem(c.screen, ItemOf(e), [text |-> <<>>, status |-> "inProgress"])
          BY <1>6, <4>1, ListenIs
        <5> QED
          BY <2>5, <5>1 DEF ShowItem, Put
      <4>2. CASE e.phase = "delta"
        <5>1. d.screen = ShowDelta(c.screen, ItemOf(e), e.text) /\ e.text \in Seq(Tokens)
          BY <1>6, <4>2, ListenIs, EventFields
        <5> QED
          BY <1>1, <2>5, <5>1, ShownDelta
      <4>3. CASE e.phase = "end"
        <5>2. d.screen = ShowItem(c.screen, ItemOf(e), [text |-> e.text, status |-> "completed"])
          BY <1>6, <4>3, ListenIs
        <5> QED
          BY <2>5, <5>2 DEF ShowItem, Put
      <4> QED
        BY <4>1, <4>2, <4>3, EventFields
    <3>2. Whole(c, id, text) \/ Len(c.screen[id].text) + (wait + (here + left)) <= Len(text)
      BY <1>3, <2>2, <3>1 DEF Fits
    <3>3. Len(c.screen[id].text) \in Nat
      BY <1>4, <3>1
    <3>4. Whole(c, id, text) => Whole(d, id, text)
      BY <3>1 DEF Whole
    <3> DEFINE now == Len(c.screen[id].text)
               all == Len(text)
               count == Count(d.sse.pending, r, i)
    <3>5. CASE ~Whole(c, id, text)
      <4>1. now + (wait + (here + left)) <= all /\ now \in Nat /\ all \in Nat /\ count = wait
        BY <1>2, <2>6, <3>2, <3>3, <3>5
      <4> HIDE DEF now, all, count, wait, here
      <4>2. now + (count + left) <= all
        BY <1>2, <4>1
      <4> QED
        BY <3>1, <4>2 DEF now, all, count
    <3> QED
      BY <3>4, <3>5
  <2> QED
    BY <2>4, <2>5
<1> QED
  BY <1>5, <1>6

-----------------------------------------------------------------------------
(* What listening keeps.                                                   *)

\* The numbers of words on the wire.
WordCounts == [Runs \X (1..MaxSegments) -> Nat]

\* Runs as they are: only what has begun has segments, and a segment has words.
Texts(rs) ==
    /\ rs \in [Runs -> RunStates]
    /\ \A r \in Runs : /\ rs[r].attempt = 0 => rs[r].segs = <<>>
                       /\ Len(rs[r].segs) <= MaxSegments
                       /\ \A i \in DOMAIN rs[r].segs : TextOf(rs, r, i) # <<>>

\* What a reader that is connected holds of the runs up to generation g.
Holds(c, g, rs, w) ==
    /\ Tagged(c.sse.pending, rs) /\ WordsLeft(c, rs, w)
    /\ KnownItems(c.sse.versions, g, rs)
    /\ \A r \in Runs : Kept(rs, r) => \A i \in DOMAIN rs[r].segs :
          Fits(c, r, Place(rs, r, i), TextOf(rs, r, i), w[<<r, i>>])

LEMMA PlaceIs ==
    ASSUME deployment \in Deployments, NEW rs, Texts(rs), NEW r \in Runs, NEW i \in DOMAIN rs[r].segs
    PROVE  /\ rs[r].segs \in Seq(Segments) /\ Len(rs[r].segs) \in Nat /\ Len(rs[r].segs) <= MaxSegments
           /\ i \in 1..MaxSegments /\ i # 0 /\ <<r, i>> \in Runs \X (1..MaxSegments)
           /\ TextOf(rs, r, i) \in Seq(Tokens) /\ TextOf(rs, r, i) # <<>>
           /\ Len(TextOf(rs, r, i)) \in Nat /\ Size(rs, r, i) = Len(TextOf(rs, r, i))
           /\ rs[r].attempt # 0 /\ rs[r].attempt \in Nat /\ rs[r].attempt \in Runs
           /\ Place(rs, r, i) = <<rs[r].attempt, i>> /\ Place(rs, r, i)[1] = rs[r].attempt
           /\ Place(rs, r, i)[2] = i
<1>1. /\ rs[r] \in RunStates /\ MaxSegments \in Nat /\ Len(rs[r].segs) <= MaxSegments
      /\ rs[r].attempt = 0 => rs[r].segs = <<>>
  BY Bounds DEF Texts
<1>2. rs[r].segs \in Seq(Segments) /\ rs[r].attempt \in 0..MaxRuns
  BY <1>1 DEF RunStates
<1>3. Len(rs[r].segs) \in Nat /\ DOMAIN rs[r].segs = 1..Len(rs[r].segs)
  BY <1>2
<1>4. i \in 1..MaxSegments /\ i # 0
  BY <1>1, <1>3
<1>5. rs[r].attempt # 0
  <2>1. rs[r].segs = <<>> => DOMAIN rs[r].segs = {}
    OBVIOUS
  <2> QED
    BY <1>1, <2>1
<1>6. rs[r].attempt \in Runs
  BY <1>2, <1>5, Bounds DEF Runs
<1>7. rs[r].segs[i] \in Segments
  BY <1>2, <1>3
<1>8. TextOf(rs, r, i) \in Seq(Tokens)
  BY <1>7 DEF TextOf, Segments
<1>9. Size(rs, r, i) = Len(TextOf(rs, r, i)) /\ TextOf(rs, r, i) # <<>>
  BY DEF Size, TextOf, Texts
<1> QED
  BY <1>1, <1>2, <1>3, <1>4, <1>5, <1>6, <1>8, <1>9 DEF Place, SegmentItem

LEMMA Sizes ==
    ASSUME deployment \in Deployments, NEW rs, Texts(rs)
    PROVE  /\ \A r \in Runs : \A i \in 1..MaxSegments : Size(rs, r, i) \in Nat
           /\ \A r \in Runs : \A i \in DOMAIN rs[r].segs :
                 /\ i \in 1..MaxSegments /\ TextOf(rs, r, i) \in Seq(Tokens) /\ TextOf(rs, r, i) # <<>>
                 /\ Size(rs, r, i) = Len(TextOf(rs, r, i))
<1>1. ASSUME NEW r \in Runs, NEW i \in DOMAIN rs[r].segs
      PROVE  /\ i \in 1..MaxSegments /\ TextOf(rs, r, i) \in Seq(Tokens) /\ TextOf(rs, r, i) # <<>>
             /\ Size(rs, r, i) = Len(TextOf(rs, r, i)) /\ Size(rs, r, i) \in Nat
  <2>1. i \in 1..MaxSegments /\ TextOf(rs, r, i) \in Seq(Tokens)
    BY PlaceIs
  <2>2. TextOf(rs, r, i) # <<>>
    BY PlaceIs
  <2>3. Size(rs, r, i) = Len(TextOf(rs, r, i)) /\ Len(TextOf(rs, r, i)) \in Nat
    BY PlaceIs
  <2> QED
    BY <2>1, <2>2, <2>3
<1>2. ASSUME NEW r \in Runs, NEW i \in 1..MaxSegments, i \notin DOMAIN rs[r].segs
      PROVE  Size(rs, r, i) \in Nat
  BY <1>2 DEF Size
<1> QED
  BY <1>1, <1>2

\* Fewer words left fit as well.
LEMMA FitsLess ==
    ASSUME deployment \in Deployments, NEW c \in Connections, NEW r, NEW id, NEW text \in Seq(Tokens),
           NEW more \in Nat, NEW left \in Nat, left <= more, Fits(c, r, id, text, more)
    PROVE  Fits(c, r, id, text, left)
<1> SUFFICES ASSUME HasText(c.sse.versions, id, text), id \in DOMAIN c.screen, ~Whole(c, id, text)
             PROVE  Len(c.screen[id].text) + (Count(c.sse.pending, r, id[2]) + left) <= Len(text)
  BY DEF Fits
<1>1. Len(c.screen[id].text) + (Count(c.sse.pending, r, id[2]) + more) <= Len(text)
  BY DEF Fits
<1>2. c.sse.pending \in Seq(Events) /\ c.screen \in ItemMaps
  BY ConnectionParts DEF Routes
<1>3. Count(c.sse.pending, r, id[2]) \in Nat /\ Len(text) \in Nat
  BY <1>2, WordsAmongType
<1>4. Len(c.screen[id].text) \in Nat
  <2>1. c.screen[id] \in Segments
    BY <1>2, ItemMapIs
  <2>2. c.screen[id].text \in Seq(Tokens)
    BY <2>1 DEF Segments
  <2> QED
    BY <2>2
<1> DEFINE a == Len(c.screen[id].text)
           b == Count(c.sse.pending, r, id[2])
           l == Len(text)
<1>5. a \in Nat /\ b \in Nat /\ l \in Nat /\ a + (b + more) <= l
  BY <1>1, <1>3, <1>4
<1> HIDE DEF a, b, l
<1>6. a + (b + left) <= l
  BY <1>5
<1> QED
  BY <1>6 DEF a, b, l

\* Known items stay known when some are marked as completed live.
LEMMA LiveKnown ==
    ASSUME deployment \in Deployments, NEW rs, Texts(rs), NEW items, NEW g, KnownItems(items, g, rs),
           NEW more, \A id \in DOMAIN more : \/ id \in DOMAIN items /\ more[id] = items[id]
                                             \/ id[2] # 0 /\ more[id] = LiveVersion
    PROVE  /\ KnownItems(more, g, rs)
           /\ \A r \in Runs : \A i \in DOMAIN rs[r].segs :
                 LET id == Place(rs, r, i) IN
                 HasText(more, id, TextOf(rs, r, i)) => HasText(items, id, TextOf(rs, r, i))
<1>1. LiveVersion.text = <<>> /\ Range(<<>>) = {}
  BY DEF LiveVersion, Range
<1>2. ASSUME NEW r \in Runs, NEW i \in DOMAIN rs[r].segs, HasText(more, Place(rs, r, i), TextOf(rs, r, i))
      PROVE  HasText(items, Place(rs, r, i), TextOf(rs, r, i))
  <2>1. TextOf(rs, r, i) # <<>>
    BY PlaceIs
  <2> QED
    BY <1>1, <1>2, <2>1 DEF HasText
<1>3. ASSUME NEW id \in DOMAIN more
      PROVE  id[2] # 0 /\ Range(more[id].text) \subseteq WrittenBy(rs)
  <2>1. CASE id \in DOMAIN items /\ more[id] = items[id]
    BY <2>1 DEF KnownItems
  <2>2. CASE id[2] # 0 /\ more[id] = LiveVersion
    BY <1>1, <2>2
  <2> QED
    BY <2>1, <2>2
<1> QED
  BY <1>2, <1>3 DEF KnownItems

LEMMA RangeOfAppend ==
    ASSUME NEW S, NEW s \in Seq(S), NEW e \in S
    PROVE  Range(Append(s, e)) = Range(s) \cup {e}
<1> DEFINE t == Append(s, e)
           n == Len(s)
<1>1. /\ n \in Nat /\ Len(t) = n + 1 /\ t[n + 1] = e /\ \A i \in 1..n : t[i] = s[i]
      /\ DOMAIN t = 1..(n + 1) /\ DOMAIN s = 1..n
  BY AppendIs
<1> HIDE DEF t, n
<1>2. Range(t) = {t[i] : i \in 1..(n + 1)} /\ Range(s) = {s[i] : i \in 1..n}
  BY <1>1 DEF Range
<1>3. 1..(n + 1) = (1..n) \cup {n + 1}
  BY <1>1
<1>4. Range(t) = Range(s) \cup {e}
  BY <1>1, <1>2, <1>3
<1> QED
  BY <1>4 DEF t

\* The words w are those of e, and v.
WithWords(w, e, v) ==
    \A r \in Runs : \A i \in 1..MaxSegments : w[<<r, i>>] = Len(WordsIn(e, r, i)) + v[<<r, i>>]

LEMMA ListenHolds ==
    ASSUME deployment \in Deployments, NEW gate, gate.gen \in Nat, NEW c \in Connections, NEW e \in Events,
           NEW rs, Texts(rs), NEW w \in WordCounts, NEW v \in WordCounts, Holds(c, gate.gen, rs, w),
           e.attempt = rs[e.run].attempt,
           WithWords(w, e, v), NEW d, d = Listen(gate, c, e)
    PROVE  Holds(d, gate.gen, rs, v)
<1>1. /\ c.sse.pending \in Seq(Events) /\ d \in Connections /\ d.sse.pending \in Seq(Events)
      /\ c.sse.versions \in VersionMaps
  <2>1. d \in Connections
    BY ListenType
  <2> QED
    BY <2>1, ConnectionParts DEF Routes
<1>2. d.sse.pending = c.sse.pending \/ d.sse.pending = Append(c.sse.pending, e)
  <2>1. CASE Passes(gate, e)
    <3>1. d.sse.pending = c.sse.pending
      BY <2>1, ListenIs
    <3> QED
      BY <3>1
  <2>2. CASE ~Passes(gate, e)
    BY <2>2, ListenIs
  <2> QED
    BY <2>1, <2>2
<1>3. Tagged(d.sse.pending, rs)
  <2>1. Range(d.sse.pending) \subseteq Range(c.sse.pending) \cup {e}
    <3>1. Range(Append(c.sse.pending, e)) = Range(c.sse.pending) \cup {e}
      BY <1>1, RangeOfAppend
    <3> QED
      BY <1>2, <3>1
  <2> QED
    BY <2>1 DEF Holds, Tagged
<1>4. ASSUME NEW r \in Runs, NEW i \in 1..MaxSegments
      PROVE  /\ Count(d.sse.pending, r, i) <= Count(c.sse.pending, r, i) + Len(WordsIn(e, r, i))
             /\ Count(d.sse.pending, r, i) \in Nat /\ Count(c.sse.pending, r, i) \in Nat
             /\ Len(WordsIn(e, r, i)) \in Nat
  <2>1. /\ Count(d.sse.pending, r, i) \in Nat /\ Count(c.sse.pending, r, i) \in Nat
        /\ Len(WordsIn(e, r, i)) \in Nat
    BY <1>1, WordsAmongType, CountOne
  <2>2. CASE d.sse.pending = c.sse.pending
    BY <2>1, <2>2
  <2>3. CASE d.sse.pending = Append(c.sse.pending, e)
    <3>1. Count(d.sse.pending, r, i) = Count(c.sse.pending, r, i) + Len(WordsIn(e, r, i))
      BY <1>1, <2>3, CountAppend
    <3> QED
      BY <2>1, <3>1
  <2> QED
    BY <1>2, <2>1, <2>2, <2>3
<1>5. ASSUME NEW r \in Runs, NEW i \in 1..MaxSegments
      PROVE  /\ Count(c.sse.pending, r, i) + (Len(WordsIn(e, r, i)) + v[<<r, i>>]) <= Size(rs, r, i)
             /\ w[<<r, i>>] = Len(WordsIn(e, r, i)) + v[<<r, i>>] /\ v[<<r, i>>] \in Nat
  <2>1. v[<<r, i>>] \in Nat
    BY DEF WordCounts
  <2>2. w[<<r, i>>] = Len(WordsIn(e, r, i)) + v[<<r, i>>]
    BY DEF WithWords
  <2> QED
    BY <2>1, <2>2 DEF Holds, WordsLeft
<1>6. WordsLeft(d, rs, v)
  <2> SUFFICES ASSUME NEW r \in Runs, NEW i \in 1..MaxSegments
               PROVE  Count(d.sse.pending, r, i) + v[<<r, i>>] <= Size(rs, r, i)
    BY DEF WordsLeft
  <2> DEFINE a == Count(d.sse.pending, r, i)
             b == Count(c.sse.pending, r, i)
             l == Len(WordsIn(e, r, i))
             x == v[<<r, i>>]
             z == Size(rs, r, i)
  <2>0. z \in Nat
    BY Sizes
  <2>1. a <= b + l /\ a \in Nat /\ b \in Nat /\ l \in Nat
    BY <1>4
  <2>2. b + (l + x) <= z /\ x \in Nat
    BY <1>5
  <2> HIDE DEF a, b, l, x, z
  <2>3. a + x <= z
    BY <2>0, <2>1, <2>2
  <2> QED
    BY <2>3 DEF a, x, z
<1>7. \A id \in DOMAIN d.sse.versions :
         \/ id \in DOMAIN c.sse.versions /\ d.sse.versions[id] = c.sse.versions[id]
         \/ id[2] # 0 /\ d.sse.versions[id] = LiveVersion
  <2>1. CASE Passes(gate, e) /\ e.phase = "end"
    <3>1. d.sse.versions = Put(c.sse.versions, ItemOf(e), LiveVersion)
      BY <2>1, ListenIs
    <3>2. ItemOf(e)[2] # 0
      <4>1. e.ordinal \in 1..MaxSegments /\ MaxSegments \in Nat
        BY EventFields, Bounds
      <4>2. e.ordinal # 0
        BY <4>1
      <4> QED
        BY <4>2 DEF ItemOf, SegmentItem
    <3> QED
      BY <3>1, <3>2 DEF Put
  <2>2. CASE ~(Passes(gate, e) /\ e.phase = "end")
    <3>1. d.sse.versions = c.sse.versions
      BY <2>2, ListenIs, EventFields
    <3> QED
      BY <3>1
  <2> QED
    BY <2>1, <2>2
<1>8. /\ KnownItems(d.sse.versions, gate.gen, rs)
  BY <1>7, LiveKnown DEF Holds
<1>9. ASSUME NEW r \in Runs, Kept(rs, r), NEW i \in DOMAIN rs[r].segs
      PROVE  Fits(d, r, Place(rs, r, i), TextOf(rs, r, i), v[<<r, i>>])
  <2> DEFINE id == Place(rs, r, i)
             a == rs[r].attempt
             text == TextOf(rs, r, i)
             left == v[<<r, i>>]
             here == Len(WordsIn(e, r, i))
  <2>1. /\ i \in 1..MaxSegments /\ text \in Seq(Tokens) /\ text # <<>> /\ Size(rs, r, i) = Len(text)
        /\ id = SegmentItem(a, i)
    <3>1. /\ i \in 1..MaxSegments /\ TextOf(rs, r, i) \in Seq(Tokens) /\ TextOf(rs, r, i) # <<>>
          /\ Size(rs, r, i) = Len(TextOf(rs, r, i))
      BY Sizes
    <3> QED
      BY <3>1 DEF Place
  <2>2. left \in Nat /\ here \in Nat /\ w[<<r, i>>] = here + left
    BY <1>4, <1>5, <2>1
  <2>3. Fits(c, r, id, text, here + left)
    BY <1>9, <2>2 DEF Holds
  <2>4. Count(c.sse.pending, r, i) + (here + left) <= Len(text)
    BY <1>5, <2>1
  <2>5. HasText(c.sse.versions, id, text) => r <= gate.gen
    BY DEF Holds, KnownItems
  <2>6. e.run = r => e.attempt = a
    OBVIOUS
  <2>7. e.attempt = a => e.run <= r
    <3> SUFFICES ASSUME rs[e.run].attempt = rs[r].attempt PROVE e.run <= r
      OBVIOUS
    <3>1. e.run \in Runs
      BY EventFields
    <3>2. ~ (e.run > r)
      BY <1>9, <3>1 DEF Kept
    <3>3. e.run \in Nat /\ r \in Nat
      BY <3>1, Bounds DEF Runs
    <3> QED
      BY <3>2, <3>3
  <2> HIDE DEF id, a, text, left, here
  <2>8. Fits(d, r, id, text, left)
    BY <2>1, <2>2, <2>3, <2>4, <2>5, <2>6, <2>7, ListenFits DEF here
  <2> QED
    BY <2>8 DEF id, text, left
<1> QED
  BY <1>3, <1>6, <1>8, <1>9 DEF Holds

LEMMA RestOf ==
    ASSUME NEW events \in Seq(Events), NEW k \in Nat, k + 1 <= Len(events), NEW r, NEW i
    PROVE  Count(SubSeq(events, k + 1, Len(events)), r, i)
              = Len(WordsIn(events[k + 1], r, i)) + Count(SubSeq(events, (k + 1) + 1, Len(events)), r, i)
<1> DEFINE n == Len(events)
           all == SubSeq(events, k + 1, n)
           rest == SubSeq(events, (k + 1) + 1, n)
           e == events[k + 1]
           one == <<e>>
           both == one \o rest
<1>0. n \in Nat /\ (\A m \in 1..n : events[m] \in Events) /\ e \in Events
  OBVIOUS
<1>1. all \in Seq(Events) /\ Len(all) = n - k /\ \A m \in 1..(n - k) : all[m] = events[k + m]
  BY <1>0
<1>2. rest \in Seq(Events) /\ Len(rest) = (n - k) - 1 /\ \A m \in 1..((n - k) - 1) : rest[m] = events[(k + 1) + m]
  BY <1>0
<1>3. one \in Seq(Events) /\ Len(one) = 1 /\ one[1] = e
  BY <1>0
<1> HIDE DEF all, rest, one
<1>4. /\ both \in Seq(Events) /\ Len(both) = n - k /\ both[1] = e
      /\ \A m \in 1..((n - k) - 1) : both[1 + m] = rest[m]
  <2>1. /\ both \in Seq(Events) /\ Len(both) = Len(one) + Len(rest)
        /\ \A m \in 1..Len(one) : both[m] = one[m]
        /\ \A m \in 1..Len(rest) : both[Len(one) + m] = rest[m]
    <3>1. one \in Seq(Events) /\ rest \in Seq(Events)
      BY <1>2, <1>3
    <3> HIDE DEF e
    <3> QED
      BY <3>1, Concat
  <2> HIDE DEF both
  <2>2. 1 + ((n - k) - 1) = n - k
    BY <1>0
  <2> QED
    BY <1>2, <1>3, <2>1, <2>2
<1> HIDE DEF both
<1>5. ASSUME NEW m \in 1..(n - k) PROVE both[m] = all[m]
  <2>1. CASE m = 1
    BY <1>0, <1>1, <1>4, <2>1
  <2>2. CASE m # 1
    <3>1. m - 1 \in 1..((n - k) - 1) /\ 1 + (m - 1) = m /\ (k + 1) + (m - 1) = k + m
      BY <1>0, <2>2
    <3> QED
      BY <1>1, <1>2, <1>4, <3>1
  <2> QED
    BY <2>1, <2>2
<1>6. both = all
  BY <1>1, <1>4, <1>5, SameSeq
<1>7. Count(one \o rest, r, i) = Count(one, r, i) + Count(rest, r, i)
  BY <1>2, <1>3, CountConcat
<1>8. Count(one, r, i) = Len(WordsIn(e, r, i))
  BY <1>0, CountOne DEF one
<1>9. Count(all, r, i) = Len(WordsIn(e, r, i)) + Count(rest, r, i)
  BY <1>6, <1>7, <1>8 DEF both
<1> QED
  BY <1>9 DEF all, rest

LEMMA FoldHolds ==
    ASSUME deployment \in Deployments, NEW gate, gate.gen \in Nat, NEW c \in Connections,
           NEW events \in Seq(Events), NEW rs, Texts(rs), Tagged(events, rs),
           NEW w \in WordCounts, NEW v \in WordCounts, Holds(c, gate.gen, rs, w),
           w = [p \in Runs \X (1..MaxSegments) |-> Count(events, p[1], p[2]) + v[p]]
    PROVE  Holds(ListenAll(gate, c, events), gate.gen, rs, v)
<1>1. PICK n \in Nat : n = Len(events)
  OBVIOUS
<1>2. PICK h : ListensTo(h, gate, c, events, n) /\ ListenAll(gate, c, events) = h[n]
  BY <1>1, FoldOfListen
<1> DEFINE Rest(k) == SubSeq(events, k + 1, Len(events))
           W(k) == [p \in Runs \X (1..MaxSegments) |-> Count(Rest(k), p[1], p[2]) + v[p]]
           Good(k) == h[k] \in Connections /\ Holds(h[k], gate.gen, rs, W(k))
           G == {k \in Nat : k <= n => Good(k)}
<1>3. ASSUME NEW k \in Nat PROVE W(k) \in WordCounts
  <2> SUFFICES ASSUME NEW p \in Runs \X (1..MaxSegments) PROVE Count(Rest(k), p[1], p[2]) + v[p] \in Nat
    BY DEF WordCounts
  <2>1. Rest(k) \in Seq(Events)
    <3>1. \A m \in 1..Len(events) : events[m] \in Events
      OBVIOUS
    <3> QED
      BY <1>1, <3>1
  <2>2. Count(Rest(k), p[1], p[2]) \in Nat
    BY <2>1, WordsAmongType
  <2>3. v[p] \in Nat
    BY DEF WordCounts
  <2> QED
    BY <2>2, <2>3
<1>4. 0 \in G
  <2>1. Rest(0) = events
    OBVIOUS
  <2>2. W(0) = w /\ h[0] = c
    BY <1>2, <2>1 DEF ListensTo
  <2> HIDE DEF W
  <2>3. Good(0)
    BY <2>2
  <2> QED
    BY <2>3
<1>5. ASSUME NEW k \in Nat, k \in G PROVE k + 1 \in G
  <2> SUFFICES ASSUME k + 1 <= n PROVE Good(k + 1)
    OBVIOUS
  <2>1. k + 1 \in 1..n /\ events[k + 1] \in Events /\ Good(k)
    BY <1>1, <1>5
  <2>2. h[k + 1] = Listen(gate, h[k], events[k + 1])
    BY <1>2, <2>1 DEF ListensTo
  <2>3. h[k + 1] \in Connections
    BY <2>1, <2>2, ListenType
  <2>4. events[k + 1].attempt = rs[events[k + 1].run].attempt
    <3>1. events[k + 1] \in Range(events)
      BY <1>1, <2>1 DEF Range
    <3> QED
      BY <3>1 DEF Tagged
  <2>5. WithWords(W(k), events[k + 1], W(k + 1))
    <3> SUFFICES ASSUME NEW r \in Runs, NEW i \in 1..MaxSegments
                 PROVE  W(k)[<<r, i>>] = Len(WordsIn(events[k + 1], r, i)) + W(k + 1)[<<r, i>>]
      BY DEF WithWords
    <3> DEFINE a == Count(Rest(k), r, i)
               b == Count(Rest(k + 1), r, i)
               l == Len(WordsIn(events[k + 1], r, i))
               x == v[<<r, i>>]
    <3>1. W(k)[<<r, i>>] = a + x /\ W(k + 1)[<<r, i>>] = b + x
      OBVIOUS
    <3>2. a = l + b
      <4>1. k + 1 <= Len(events)
        BY <1>1
      <4> QED
        BY <4>1, RestOf
    <3>3. x \in Nat /\ l \in Nat
      BY <2>1, CountOne DEF WordCounts
    <3>4. b \in Nat
      <4>1. Rest(k + 1) \in Seq(Events)
        <5>1. \A m \in 1..Len(events) : events[m] \in Events
          OBVIOUS
        <5> QED
          BY <1>1, <5>1
      <4> QED
        BY <4>1, WordsAmongType
    <3> HIDE DEF a, b, x, l, W
    <3> QED
      BY <3>1, <3>2, <3>3, <3>4 DEF l
  <2>6. W(k) \in WordCounts /\ W(k + 1) \in WordCounts
    <3>1. k + 1 \in Nat
      OBVIOUS
    <3> HIDE DEF W
    <3> QED
      BY <1>3, <3>1
  <2> HIDE DEF W, Rest
  <2>7. h[k] \in Connections /\ Holds(h[k], gate.gen, rs, W(k))
    BY <2>1
  <2>8. Holds(h[k + 1], gate.gen, rs, W(k + 1))
    BY <2>1, <2>2, <2>4, <2>5, <2>6, <2>7, ListenHolds
  <2> QED
    BY <2>3, <2>8
<1> HIDE DEF G
<1>6. n \in G
  BY <1>4, <1>5, SetInduction
<1>7. W(n) = v
  <2>1. Rest(n) = << >>
    BY <1>1
  <2>2. ASSUME NEW p \in Runs \X (1..MaxSegments) PROVE W(n)[p] = v[p]
    <3>1. Count(Rest(n), p[1], p[2]) = 0 /\ v[p] \in Nat
      BY <2>1, CountNone DEF WordCounts
    <3> HIDE DEF Rest
    <3> QED
      BY <3>1
  <2>3. W(n) = [p \in Runs \X (1..MaxSegments) |-> W(n)[p]] /\ v = [p \in Runs \X (1..MaxSegments) |-> v[p]]
    BY DEF WordCounts
  <2> HIDE DEF W
  <2> QED
    BY <2>2, <2>3
<1>8. Good(n)
  BY <1>6 DEF G
<1> HIDE DEF W
<1> QED
  BY <1>2, <1>7, <1>8

-----------------------------------------------------------------------------
(* The reader, as events reach it.                                         *)

\* What the words of the invariant say of the reader.
ReaderKeeps(s, items, k, rs, w) ==
    /\ ReaderWords([sse |-> s, screen |-> items], rs, w)
    /\ SeenWords(s, k, rs) /\ DoneWords(s, items, k, rs)

LEMMA ReaderIs ==
    ASSUME NEW c, NEW rs, NEW w
    PROVE  ReaderWords(c, rs, w) <=>
           /\ Tagged(c.sse.pending, rs) /\ WordsLeft(c, rs, w)
           /\ Connected(c.sse) => Holds(c, c.sse.gen, rs, w) /\ (~c.sse.ready => DOMAIN c.sse.versions = {})
  BY DEF ReaderWords, Holds

LEMMA ReaderFewer ==
    ASSUME deployment \in Deployments, NEW c \in Connections, NEW rs, Texts(rs),
           NEW w \in WordCounts, NEW v \in WordCounts, ReaderWords(c, rs, w),
           \A p \in Runs \X (1..MaxSegments) : v[p] <= w[p]
    PROVE  ReaderWords(c, rs, v)
<1>0. c.sse.pending \in Seq(Events)
  BY ConnectionParts DEF Routes
<1>1. ASSUME NEW r \in Runs, NEW i \in 1..MaxSegments
      PROVE  v[<<r, i>>] \in Nat /\ w[<<r, i>>] \in Nat /\ v[<<r, i>>] <= w[<<r, i>>]
  <2>1. <<r, i>> \in Runs \X (1..MaxSegments)
    OBVIOUS
  <2> QED
    BY <2>1 DEF WordCounts
<1>2. WordsLeft(c, rs, v)
  <2> SUFFICES ASSUME NEW r \in Runs, NEW i \in 1..MaxSegments
               PROVE  Count(c.sse.pending, r, i) + v[<<r, i>>] <= Size(rs, r, i)
    BY DEF WordsLeft
  <2> DEFINE a == Count(c.sse.pending, r, i)
             x == v[<<r, i>>]
             y == w[<<r, i>>]
             z == Size(rs, r, i)
  <2>1. a + y <= z
    BY DEF ReaderWords, WordsLeft
  <2>2. x \in Nat /\ y \in Nat /\ x <= y
    BY <1>1
  <2>3. a \in Nat /\ z \in Nat
    BY <1>0, WordsAmongType, Sizes
  <2> HIDE DEF a, x, y, z
  <2>4. a + x <= z
    BY <2>1, <2>2, <2>3
  <2> QED
    BY <2>4 DEF a, x, z
<1>3. ASSUME Connected(c.sse), NEW r \in Runs, Kept(rs, r), NEW i \in DOMAIN rs[r].segs
      PROVE  Fits(c, r, Place(rs, r, i), TextOf(rs, r, i), v[<<r, i>>])
  <2>1. Fits(c, r, Place(rs, r, i), TextOf(rs, r, i), w[<<r, i>>])
    BY <1>3 DEF ReaderWords
  <2>2. i \in 1..MaxSegments /\ TextOf(rs, r, i) \in Seq(Tokens)
    BY Sizes
  <2>3. v[<<r, i>>] \in Nat /\ w[<<r, i>>] \in Nat /\ v[<<r, i>>] <= w[<<r, i>>]
    BY <1>1, <2>2
  <2> QED
    BY <2>1, <2>2, <2>3, FitsLess
<1> QED
  BY <1>2, <1>3 DEF ReaderWords

LEMMA EmitWords ==
    ASSUME StreamTypeOK, NEW r \in Runs, NEW events \in Seq(Events), Emit(r, events),
           Texts(runs), Tagged(events, runs), NEW w \in WordCounts, NEW v \in WordCounts,
           w = [p \in Runs \X (1..MaxSegments) |-> Count(events, p[1], p[2]) + v[p]],
           ReaderKeeps(sse, screen, task, runs, w)
    PROVE  ReaderKeeps(sse', screen', task, runs, v)
<1> DEFINE b == [sse |-> sse, screen |-> screen]
           c == ListenAll(sse, b, events)
<1>1. b \in Connections /\ deployment \in Deployments
  BY Unchanged DEF ReaderOK
<1>2. b.sse = sse /\ b.screen = screen
  OBVIOUS
<1>3. IF Subscribed THEN sse' = c.sse /\ screen' = c.screen ELSE sse' = sse /\ screen' = screen
  BY DEF Emit
<1>4. ReaderWords(b, runs, w) /\ SeenWords(sse, task, runs) /\ DoneWords(sse, screen, task, runs)
  BY DEF ReaderKeeps
<1> HIDE DEF b
<1>5. c \in Connections /\ SameGate(c.sse, sse)
  BY <1>1, <1>2, FoldListenType
<1>6. CASE Subscribed
  <2>1. Connected(sse)
    BY <1>6 DEF Subscribed, Connected
  <2>2. Holds(b, sse.gen, runs, w) /\ (~sse.ready => DOMAIN sse.versions = {})
    BY <1>2, <1>4, <2>1, ReaderIs
  <2>3. sse.gen \in Nat
    BY <1>1, <1>2, ConnectionParts DEF Routes
  <2>4. Holds(c, sse.gen, runs, v)
    BY <1>1, <2>2, <2>3, FoldHolds
  <2>5. ~sse.ready => DOMAIN c.sse.versions = {}
    <3> SUFFICES ASSUME ~sse.ready PROVE DOMAIN c.sse.versions = {}
      OBVIOUS
    <3>1. \A e \in Range(events) : ~Passes(sse, e)
      BY DEF Passes
    <3> QED
      BY <1>1, <1>2, <2>2, <3>1, ClosedGateShowsNothing
  <2> HIDE DEF c
  <2>6. /\ c.sse.pc = sse.pc /\ c.sse.ready = sse.ready /\ c.sse.gen = sse.gen /\ c.sse.seen = sse.seen
        /\ sse.pc # "done"
    BY <1>5, <2>1 DEF SameGate, Connected
  <2>7. ReaderWords(c, runs, v)
    BY <2>4, <2>5, <2>6 DEF ReaderWords, Holds
  <2>8. c = [sse |-> sse', screen |-> screen']
    BY <1>3, <1>5, <1>6, ConnectionParts
  <2>9. SeenWords(sse', task, runs) /\ DoneWords(sse', screen', task, runs)
    BY <1>3, <1>4, <1>6, <2>6 DEF SeenWords, DoneWords, Connected
  <2> QED
    BY <2>7, <2>8, <2>9 DEF ReaderKeeps
<1>7. CASE ~Subscribed
  <2>1. \A p \in Runs \X (1..MaxSegments) : v[p] <= w[p]
    <3> SUFFICES ASSUME NEW p \in Runs \X (1..MaxSegments) PROVE v[p] <= w[p]
      OBVIOUS
    <3>1. w[p] = Count(events, p[1], p[2]) + v[p]
      OBVIOUS
    <3>2. Count(events, p[1], p[2]) \in Nat /\ v[p] \in Nat
      BY WordsAmongType DEF WordCounts
    <3> DEFINE n == Count(events, p[1], p[2])
               x == v[p]
               y == w[p]
    <3>3. y = n + x /\ n \in Nat /\ x \in Nat
      BY <3>1, <3>2
    <3> HIDE DEF n, x, y
    <3>4. x <= y
      BY <3>3
    <3> QED
      BY <3>4 DEF x, y
  <2>2. ReaderWords(b, runs, v)
    BY <1>1, <1>4, <2>1, ReaderFewer
  <2> QED
    BY <1>3, <1>4, <1>7, <2>2 DEF ReaderKeeps, b
<1> QED
  BY <1>6, <1>7

-----------------------------------------------------------------------------
(* The words on the wire.                                                  *)

LEMMA WireCounts ==
    ASSUME deployment \in Deployments, NEW ch \in Seq(Seq(Events)), NEW out \in [Runs -> Seq(Events)],
           NEW buf \in [Runs -> Seq(Events)]
    PROVE  /\ Wire(ch, out, buf) \in WordCounts
           /\ \A r \in Runs : \A i \in 1..MaxSegments :
                 /\ Wire(ch, out, buf)[<<r, i>>]
                       = (Count(FlattenSeq(ch), r, i) + Count(out[r], r, i)) + Count(buf[r], r, i)
                 /\ Count(FlattenSeq(ch), r, i) \in Nat /\ Count(out[r], r, i) \in Nat /\ Count(buf[r], r, i) \in Nat
<1>1. FlattenSeq(ch) \in Seq(Events)
  BY FlattenType
<1>2. ASSUME NEW p \in Runs \X (1..MaxSegments)
      PROVE  /\ Count(FlattenSeq(ch), p[1], p[2]) \in Nat /\ Count(out[p[1]], p[1], p[2]) \in Nat
             /\ Count(buf[p[1]], p[1], p[2]) \in Nat
  <2>1. out[p[1]] \in Seq(Events) /\ buf[p[1]] \in Seq(Events)
    OBVIOUS
  <2> QED
    BY <1>1, <2>1, WordsAmongType
<1>3. Wire(ch, out, buf) \in WordCounts
  BY <1>2 DEF Wire, WordCounts
<1>4. ASSUME NEW r \in Runs, NEW i \in 1..MaxSegments
      PROVE  /\ Wire(ch, out, buf)[<<r, i>>]
                   = (Count(FlattenSeq(ch), r, i) + Count(out[r], r, i)) + Count(buf[r], r, i)
             /\ Count(FlattenSeq(ch), r, i) \in Nat /\ Count(out[r], r, i) \in Nat /\ Count(buf[r], r, i) \in Nat
  <2>1. <<r, i>> \in Runs \X (1..MaxSegments) /\ <<r, i>>[1] = r /\ <<r, i>>[2] = i
    OBVIOUS
  <2> QED
    BY <1>2, <2>1 DEF Wire
<1> QED
  BY <1>3, <1>4

\* Events of one run have no words of another.
LEMMA CountOfAnother ==
    ASSUME NEW events \in Seq(Events), NEW r, AllOf(events, r), NEW q, q # r, NEW i
    PROVE  Count(events, q, i) = 0
<1>1. ASSUME NEW e \in Range(events) PROVE WordsIn(e, q, i) = << >>
  BY DEF Range, AllOf, WordsIn
<1> QED
  BY <1>1, CountOfOthers

LEMMA TaggedConcat ==
    ASSUME NEW s \in Seq(Events), NEW t \in Seq(Events), NEW rs
    PROVE  Tagged(s \o t, rs) <=> Tagged(s, rs) /\ Tagged(t, rs)
<1>1. Range(s \o t) = Range(s) \cup Range(t)
  BY RangeOfMore
<1> QED
  BY <1>1 DEF Tagged

LEMMA TaggedNone == \A rs : Tagged(<< >>, rs)
  BY DEF Tagged, Range

\* The words of the buffers are those of the events, and of what is left in the buffers.
Moved(buf, events, left) ==
    \A q \in Runs : \A i \in 1..MaxSegments :
        Count(buf[q], q, i) = Count(events, q, i) + Count(left[q], q, i)

LEMMA SendWords ==
    ASSUME StreamTypeOK, StreamTypeOK', NEW r \in Runs, NEW events \in Seq(Events), AllOf(events, r),
           Send(r, events), UNCHANGED <<deployment, channel>>, Texts(runs), Tagged(events, runs),
           NEW buf \in [Runs -> Seq(Events)], NEW left \in [Runs -> Seq(Events)], Moved(buf, events, left),
           WireTagged(channel, outbox, buf, runs), \A q \in Runs : Tagged(left[q], runs),
           ReaderKeeps(sse, screen, task, runs, Wire(channel, outbox, buf))
    PROVE  /\ ReaderKeeps(sse', screen', task, runs, Wire(channel', outbox', left))
           /\ WireTagged(channel', outbox', left, runs)
<1>1. /\ deployment \in Deployments /\ channel \in Seq(Seq(Events)) /\ outbox \in [Runs -> Seq(Events)]
      /\ channel' = channel
  BY Unchanged
<1>2. outbox' \in [Runs -> Seq(Events)]
  <2>1. outbox' \in [Runs' -> Seq(Events')] /\ Runs' = Runs /\ Events' = Events
    BY SameBounds DEF StreamTypeOK
  <2> QED
    BY <2>1
<1> DEFINE w == Wire(channel, outbox, buf)
           v == Wire(channel, outbox', left)
<1>3. w \in WordCounts /\ v \in WordCounts
  BY <1>1, <1>2, WireCounts
<1>4. CASE Bridged
  <2>1. outbox' = [outbox EXCEPT ![r] = @ \o events] /\ UNCHANGED <<sse, screen>>
    BY <1>4 DEF Send
  <2>2. outbox'[r] = outbox[r] \o events /\ \A q \in Runs : q # r => outbox'[q] = outbox[q]
    BY <1>1, <2>1
  <2>3. ASSUME NEW q \in Runs, NEW i \in 1..MaxSegments PROVE w[<<q, i>>] = v[<<q, i>>]
    <3> DEFINE f == Count(FlattenSeq(channel), q, i)
               o == Count(outbox[q], q, i)
               o2 == Count(outbox'[q], q, i)
               b == Count(buf[q], q, i)
               b2 == Count(left[q], q, i)
               n == Count(events, q, i)
    <3>1. w[<<q, i>>] = (f + o) + b /\ f \in Nat /\ o \in Nat /\ b \in Nat
      BY <1>1, WireCounts
    <3>2. v[<<q, i>>] = (f + o2) + b2 /\ o2 \in Nat /\ b2 \in Nat
      BY <1>1, <1>2, WireCounts
    <3>3. b = n + b2 /\ n \in Nat
      BY WordsAmongType DEF Moved
    <3>4. o2 = o + n
      <4>1. CASE q = r
        <5>1. outbox[r] \in Seq(Events)
          BY <1>1
        <5>2. Count(outbox[r] \o events, r, i) = Count(outbox[r], r, i) + Count(events, r, i)
          <6>1. PICK out \in Seq(Events) : out = outbox[r]
            BY <5>1
          <6>2. Count(out \o events, r, i) = Count(out, r, i) + Count(events, r, i)
            BY CountConcat
          <6> QED
            BY <6>1, <6>2
        <5> QED
          BY <2>2, <4>1, <5>2
      <4>2. CASE q # r
        <5>1. n = 0 /\ o2 = o
          BY <2>2, <4>2, CountOfAnother
        <5> QED
          BY <3>1, <5>1
      <4> QED
        BY <4>1, <4>2
    <3> HIDE DEF f, o, o2, b, b2, n, w, v
    <3> QED
      BY <3>1, <3>2, <3>3, <3>4
  <2>4. w = v
    <3> HIDE DEF w, v
    <3>1. \A p \in Runs \X (1..MaxSegments) : w[p] = v[p]
      BY <2>3
    <3>2. w = [p \in Runs \X (1..MaxSegments) |-> w[p]] /\ v = [p \in Runs \X (1..MaxSegments) |-> v[p]]
      BY <1>3 DEF WordCounts
    <3> QED
      BY <3>1, <3>2
  <2>5. WireTagged(channel', outbox', left, runs)
    <3>1. outbox[r] \in Seq(Events)
      BY <1>1
    <3>2. Tagged(outbox[r] \o events, runs)
      BY <3>1, TaggedConcat DEF WireTagged
    <3> QED
      BY <1>1, <2>2, <3>2 DEF WireTagged
  <2> QED
    BY <1>1, <2>1, <2>4, <2>5
<1>5. CASE ~Bridged
  <2>1. Emit(r, events) /\ outbox' = outbox
    BY <1>5 DEF Send
  <2>2. w = [p \in Runs \X (1..MaxSegments) |-> Count(events, p[1], p[2]) + v[p]]
    <3>0. ASSUME NEW q \in Runs, NEW i \in 1..MaxSegments
          PROVE  w[<<q, i>>] = Count(events, q, i) + v[<<q, i>>]
      <4> DEFINE f == Count(FlattenSeq(channel), q, i)
                 o == Count(outbox[q], q, i)
                 b == Count(buf[q], q, i)
                 b2 == Count(left[q], q, i)
                 n == Count(events, q, i)
      <4>2. w[<<q, i>>] = (f + o) + b /\ f \in Nat /\ o \in Nat /\ b \in Nat
        BY <1>1, WireCounts
      <4>3. v[<<q, i>>] = (f + o) + b2 /\ b2 \in Nat
        BY <1>1, <1>2, <2>1, WireCounts
      <4>4. b = n + b2 /\ n \in Nat
        BY WordsAmongType DEF Moved
      <4> HIDE DEF f, o, b, b2, n, w, v
      <4> QED
        BY <4>2, <4>3, <4>4 DEF n
    <3> HIDE DEF w, v
    <3>1. ASSUME NEW p \in Runs \X (1..MaxSegments) PROVE w[p] = Count(events, p[1], p[2]) + v[p]
      <4>1. PICK q \in Runs, i \in 1..MaxSegments : p = <<q, i>> /\ p[1] = q /\ p[2] = i
        OBVIOUS
      <4> QED
        BY <3>0, <4>1
    <3>2. w = [p \in Runs \X (1..MaxSegments) |-> w[p]]
      BY <1>3 DEF WordCounts
    <3> QED
      BY <3>1, <3>2
  <2> HIDE DEF w, v
  <2>3. ReaderKeeps(sse, screen, task, runs, w)
    BY DEF w
  <2>4. ReaderKeeps(sse', screen', task, runs, v)
    BY <1>3, <2>1, <2>2, <2>3, EmitWords
  <2>5. WireTagged(channel', outbox', left, runs)
    BY <1>1, <2>1 DEF WireTagged
  <2> QED
    BY <1>1, <2>4, <2>5 DEF v
<1> QED
  BY <1>4, <1>5

LEMMA WordsNext ==
    ASSUME UNCHANGED deployment, TaskStored(task', runs'), Numbered(runs'),
           WireTagged(channel', outbox', buffer', runs'),
           ReaderKeeps(sse', screen', task', runs', Wire(channel', outbox', buffer'))
    PROVE  WordsInv'
<1>1. Runs' = Runs /\ MaxSegments' = MaxSegments
  BY SameBounds
<1>2. TaskStored(task, runs)' <=> TaskStored(task', runs')
  BY <1>1 DEF TaskStored, KnownItems, WrittenBy, RunStored, Kept, AtWork, StoredAll, HasText, TextOf,
              Place, SegmentItem, Unstarted
<1>3. Numbered(runs)' <=> Numbered(runs')
  BY <1>1 DEF Numbered, WrittenBy, TextOf
<1>4. WireTagged(channel, outbox, buffer, runs)' <=> WireTagged(channel', outbox', buffer', runs')
  BY <1>1 DEF WireTagged, Tagged
<1>5. Wire(channel, outbox, buffer)' = Wire(channel', outbox', buffer')
  BY <1>1 DEF Wire
<1>6. ReaderWords([sse |-> sse, screen |-> screen], runs, Wire(channel, outbox, buffer))' <=>
      ReaderWords([sse |-> sse', screen |-> screen'], runs', Wire(channel', outbox', buffer'))
  <2> DEFINE w == Wire(channel, outbox, buffer)
             v == Wire(channel', outbox', buffer')
  <2>1. w' = v
    BY <1>5
  <2> HIDE DEF w, v
  <2>2. ReaderWords([sse |-> sse, screen |-> screen], runs, w)' <=> ReaderWords([sse |-> sse', screen |-> screen'], runs', v)
    BY <1>1, <2>1 DEF ReaderWords, Tagged, WordsLeft, Connected, KnownItems, WrittenBy, Kept, Fits, HasText,
                      Whole, TextOf, Place, SegmentItem, Size
  <2> QED
    BY <2>2 DEF w, v
<1>7. SeenWords(sse, task, runs)' <=> SeenWords(sse', task', runs')
  BY <1>1 DEF SeenWords, Connected, KnownItems, WrittenBy, HasText, TextOf, Place, SegmentItem
<1>8. DoneWords(sse, screen, task, runs)' <=> DoneWords(sse', screen', task', runs')
  BY <1>1 DEF DoneWords, StoredItems, Put, WholeItem, Kept, TextOf, Place, SegmentItem
<1> QED
  BY <1>2, <1>3, <1>4, <1>6, <1>7, <1>8 DEF WordsInv, ReaderKeeps

LEMMA WordsParts ==
    ASSUME StreamTypeOK, WordsInv
    PROVE  /\ TaskStored(task, runs) /\ Numbered(runs) /\ WireTagged(channel, outbox, buffer, runs)
           /\ ReaderKeeps(sse, screen, task, runs, Wire(channel, outbox, buffer))
           /\ Texts(runs) /\ deployment \in Deployments
           /\ Wire(channel, outbox, buffer) \in WordCounts
           /\ [sse |-> sse, screen |-> screen] \in Connections
<1>1. /\ TaskStored(task, runs) /\ Numbered(runs) /\ WireTagged(channel, outbox, buffer, runs)
      /\ ReaderKeeps(sse, screen, task, runs, Wire(channel, outbox, buffer))
  BY DEF WordsInv, ReaderKeeps
<1>2. Texts(runs)
  <2>1. ASSUME NEW r \in Runs
        PROVE  /\ runs[r].attempt = 0 => runs[r].segs = <<>>
               /\ \A i \in DOMAIN runs[r].segs : TextOf(runs, r, i) # <<>>
    <3>1. RunStored(task, runs, r)
      BY <1>1 DEF TaskStored
    <3>2. runs[r].attempt = 0 => runs[r].pc = "waiting"
      <4>1. 0 \notin Runs
        BY DEF Runs
      <4> QED
        BY <4>1, Unchanged
    <3> QED
      BY <3>1, <3>2 DEF RunStored, Unstarted
  <2> QED
    BY <2>1, Unchanged DEF Texts
<1>3. Wire(channel, outbox, buffer) \in WordCounts
  BY Unchanged, WireCounts
<1> QED
  BY <1>1, <1>2, <1>3, Unchanged DEF ReaderOK

LEMMA FlushTickWords ==
    ASSUME StreamTypeOK, StreamTypeOK', WireInv, WordsInv, NEW r \in Runs, FlushTick(r) PROVE WordsInv'
<1>1. /\ buffer' = [buffer EXCEPT ![r] = <<>>] /\ Send(r, buffer[r])
      /\ UNCHANGED <<deployment, task, runs, channel>>
  BY DEF FlushTick, storeVars
<1>2. /\ buffer \in [Runs -> Seq(Events)] /\ buffer[r] \in Seq(Events) /\ AllOf(buffer[r], r)
  BY Unchanged DEF WireInv, OwnEvents
<1>3. buffer'[r] = <<>> /\ \A q \in Runs : q # r => buffer'[q] = buffer[q]
  BY <1>1, <1>2
<1>4. buffer' \in [Runs -> Seq(Events)]
  <2>1. buffer' \in [Runs' -> Seq(Events')] /\ Runs' = Runs /\ Events' = Events
    BY <1>1, SameBounds DEF StreamTypeOK
  <2> QED
    BY <2>1
<1>5. Tagged(buffer[r], runs) /\ \A q \in Runs : Tagged(buffer'[q], runs)
  BY <1>3, WordsParts, TaggedNone DEF WireTagged
<1>6. Moved(buffer, buffer[r], buffer')
  <2> SUFFICES ASSUME NEW q \in Runs, NEW i \in 1..MaxSegments
               PROVE  Count(buffer[q], q, i) = Count(buffer[r], q, i) + Count(buffer'[q], q, i)
    BY DEF Moved
  <2>1. Count(buffer[q], q, i) \in Nat
    BY <1>2, WordsAmongType
  <2>2. CASE q = r
    <3>1. Count(buffer'[q], q, i) = 0
      BY <1>3, <2>2, CountNone
    <3> QED
      BY <2>1, <2>2, <3>1
  <2>3. CASE q # r
    <3>1. Count(buffer[r], q, i) = 0
      BY <1>2, <2>3, CountOfAnother
    <3> QED
      BY <1>3, <2>1, <2>3, <3>1
  <2> QED
    BY <2>2, <2>3
<1>7. /\ ReaderKeeps(sse', screen', task, runs, Wire(channel', outbox', buffer'))
      /\ WireTagged(channel', outbox', buffer', runs)
  <2>1. PICK events \in Seq(Events) : events = buffer[r]
    BY <1>2
  <2>2. AllOf(events, r) /\ Send(r, events) /\ Tagged(events, runs) /\ Moved(buffer, events, buffer')
    BY <1>1, <1>2, <1>5, <1>6, <2>1
  <2> QED
    BY <1>1, <1>2, <1>4, <1>5, <2>2, SendWords, WordsParts
<1> QED
  BY <1>1, <1>7, WordsParts, WordsNext

LEMMA PublishMessageWords ==
    ASSUME StreamTypeOK, StreamTypeOK', WireInv, WordsInv, NEW r \in Runs, PublishMessage(r) PROVE WordsInv'
<1> DEFINE m == outbox[r]
           w == Wire(channel, outbox, buffer)
           v == Wire(channel', outbox', buffer')
<1>1. /\ outbox' = [outbox EXCEPT ![r] = <<>>] /\ channel' \in {channel, Append(channel, m)}
      /\ UNCHANGED <<deployment, task, runs, buffer, sse, screen>>
  BY DEF PublishMessage, storeVars
<1>2. /\ outbox \in [Runs -> Seq(Events)] /\ m \in Seq(Events) /\ AllOf(m, r) /\ deployment \in Deployments
      /\ channel \in Seq(Seq(Events)) /\ buffer \in [Runs -> Seq(Events)]
  BY Unchanged DEF WireInv, OwnEvents
<1>3. outbox'[r] = <<>> /\ \A q \in Runs : q # r => outbox'[q] = outbox[q]
  BY <1>1, <1>2
<1>4. outbox' \in [Runs -> Seq(Events)] /\ channel' \in Seq(Seq(Events))
  <2>1. /\ outbox' \in [Runs' -> Seq(Events')] /\ channel' \in Seq(Seq(Events'))
        /\ Runs' = Runs /\ Events' = Events
    BY <1>1, SameBounds DEF StreamTypeOK
  <2> QED
    BY <2>1
<1> HIDE DEF m
<1>5. /\ FlattenSeq(channel) \in Seq(Events)
      /\ FlattenSeq(channel') = FlattenSeq(channel) \/ FlattenSeq(channel') = FlattenSeq(channel) \o m
  <2>1. FlattenSeq(channel) \in Seq(Events)
    BY <1>2, FlattenType
  <2>2. FlattenSeq(Append(channel, m)) = FlattenSeq(channel) \o m
    BY <1>2, FlattenAppend
  <2> QED
    BY <1>1, <2>1, <2>2
<1>6. WireTagged(channel', outbox', buffer', runs')
  <2>1. WireTagged(channel, outbox, buffer, runs)
    BY WordsParts
  <2>2. Tagged(FlattenSeq(channel) \o m, runs)
    BY <1>2, <1>5, <2>1, TaggedConcat DEF WireTagged, m
  <2> QED
    BY <1>1, <1>3, <1>5, <2>1, <2>2, TaggedNone DEF WireTagged
<1>7. w \in WordCounts /\ v \in WordCounts
  BY <1>1, <1>2, <1>4, WireCounts
<1>8. \A p \in Runs \X (1..MaxSegments) : v[p] <= w[p]
  <2>1. ASSUME NEW q \in Runs, NEW i \in 1..MaxSegments PROVE v[<<q, i>>] <= w[<<q, i>>]
    <3> DEFINE f == Count(FlattenSeq(channel), q, i)
               f2 == Count(FlattenSeq(channel'), q, i)
               o == Count(outbox[q], q, i)
               o2 == Count(outbox'[q], q, i)
               b == Count(buffer[q], q, i)
               n == Count(m, q, i)
    <3>1. w[<<q, i>>] = (f + o) + b /\ f \in Nat /\ o \in Nat /\ b \in Nat
      BY <1>2, WireCounts
    <3>2. v[<<q, i>>] = (f2 + o2) + b /\ f2 \in Nat /\ o2 \in Nat
      <4>1. /\ channel' \in Seq(Seq(Events)) /\ outbox' \in [Runs -> Seq(Events)]
            /\ buffer' = buffer /\ buffer \in [Runs -> Seq(Events)] /\ deployment \in Deployments
        BY <1>1, <1>2, <1>4
      <4> QED
        BY <4>1, WireCounts
    <3>3. (f2 = f \/ f2 = f + n) /\ n \in Nat
      <4>1. Count(FlattenSeq(channel) \o m, q, i) = f + n /\ n \in Nat
        <5>1. PICK s \in Seq(Events), t \in Seq(Events) : s = FlattenSeq(channel) /\ t = m
          BY <1>2, <1>5
        <5>2. Count(s \o t, q, i) = Count(s, q, i) + Count(t, q, i) /\ Count(t, q, i) \in Nat
          BY CountConcat
        <5> QED
          BY <5>1, <5>2
      <4> QED
        BY <1>5, <4>1
    <3>4. n + o2 = o
      <4>1. CASE q = r
        <5>1. o2 = 0 /\ o = n
          BY <1>3, <4>1, CountNone DEF m
        <5> QED
          BY <3>3, <5>1
      <4>2. CASE q # r
        <5>1. n = 0 /\ o2 = o
          BY <1>2, <1>3, <4>2, CountOfAnother
        <5> QED
          BY <3>1, <5>1
      <4> QED
        BY <4>1, <4>2
    <3> HIDE DEF f, f2, o, o2, b, n, w, v
    <3>5. CASE f2 = f
      BY <3>1, <3>2, <3>3, <3>4, <3>5
    <3>6. CASE f2 = f + n
      BY <3>1, <3>2, <3>3, <3>4, <3>6
    <3> QED
      BY <3>3, <3>5, <3>6
  <2> HIDE DEF w, v
  <2> QED
    BY <2>1
<1> HIDE DEF v
<1>9. ReaderKeeps(sse', screen', task', runs', v)
  <2>1. /\ ReaderWords([sse |-> sse, screen |-> screen], runs, w)
        /\ SeenWords(sse, task, runs) /\ DoneWords(sse, screen, task, runs)
    BY WordsParts DEF ReaderKeeps
  <2> HIDE DEF w
  <2>2. ReaderWords([sse |-> sse, screen |-> screen], runs, v)
    BY <1>7, <1>8, <2>1, WordsParts, ReaderFewer
  <2> QED
    BY <1>1, <2>1, <2>2 DEF ReaderKeeps
<1> QED
  BY <1>1, <1>6, <1>9, WordsParts, WordsNext DEF v

LEMMA BridgeMessageWords ==
    ASSUME StreamTypeOK, StreamTypeOK', WireInv, WordsInv, BridgeMessage PROVE WordsInv'
<1> DEFINE m == Head(channel)
           r == m[1].run
           w == Wire(channel, outbox, buffer)
           v == Wire(channel', outbox', buffer')
<1>1. /\ channel # <<>> /\ channel' = Tail(channel) /\ Emit(r, m)
      /\ UNCHANGED <<deployment, task, runs, buffer, outbox>>
  BY DEF BridgeMessage, storeVars
<1>2. /\ outbox \in [Runs -> Seq(Events)] /\ buffer \in [Runs -> Seq(Events)] /\ deployment \in Deployments
      /\ channel \in Seq(Seq(Events)) /\ m \in Seq(Events) /\ r \in Runs /\ channel' \in Seq(Seq(Events))
  BY <1>1, FirstMessage, Unchanged
<1> HIDE DEF m, r
<1>3. /\ FlattenSeq(channel) = m \o FlattenSeq(channel') /\ FlattenSeq(channel') \in Seq(Events)
  <2>1. PICK ms \in Seq(Seq(Events)) : ms = <<m>>
    <3> DEFINE T == Seq(Events)
    <3>1. m \in T
      BY <1>2
    <3> HIDE DEF T
    <3>2. <<m>> \in Seq(T)
      BY <3>1
    <3> QED
      BY <3>2 DEF T
  <2>2. channel = ms \o channel'
    <3> DEFINE T == Seq(Events)
    <3>1. channel \in Seq(T) /\ channel # <<>>
      BY <1>1, <1>2
    <3> HIDE DEF T
    <3>2. channel = <<Head(channel)>> \o Tail(channel)
      BY <3>1
    <3> QED
      BY <1>1, <2>1, <3>2 DEF m
  <2>3. FlattenSeq(ms \o channel') = FlattenSeq(ms) \o FlattenSeq(channel')
    BY <1>2, FlattenConcat
  <2>4. FlattenSeq(ms) = m
    <3>1. PICK none \in Seq(Seq(Events)) : none = << >>
      <4>1. << >> \in Seq(Seq(Events))
        OBVIOUS
      <4> QED
        BY <4>1
    <3>2. ms = Append(none, m)
      BY <2>1, <3>1
    <3>3. FlattenSeq(Append(none, m)) = FlattenSeq(none) \o m
      BY <1>2, FlattenAppend
    <3> QED
      BY <1>2, <3>1, <3>2, <3>3, FlattenEmpty, ConcatEmpty
  <2> QED
    BY <1>2, <2>2, <2>3, <2>4, FlattenType
<1>4. Tagged(m, runs) /\ WireTagged(channel', outbox', buffer', runs')
  <2>1. WireTagged(channel, outbox, buffer, runs)
    BY WordsParts
  <2>2. Tagged(m, runs) /\ Tagged(FlattenSeq(channel'), runs)
    BY <1>2, <1>3, <2>1, TaggedConcat DEF WireTagged
  <2> QED
    BY <1>1, <2>1, <2>2 DEF WireTagged
<1>5. w \in WordCounts /\ v \in WordCounts
  BY <1>1, <1>2, WireCounts
<1>6. w = [p \in Runs \X (1..MaxSegments) |-> Count(m, p[1], p[2]) + v[p]]
  <2>1. ASSUME NEW q \in Runs, NEW i \in 1..MaxSegments PROVE w[<<q, i>>] = Count(m, q, i) + v[<<q, i>>]
    <3> DEFINE f == Count(FlattenSeq(channel), q, i)
               f2 == Count(FlattenSeq(channel'), q, i)
               o == Count(outbox[q], q, i)
               b == Count(buffer[q], q, i)
               n == Count(m, q, i)
    <3>1. w[<<q, i>>] = (f + o) + b /\ f \in Nat /\ o \in Nat /\ b \in Nat
      BY <1>2, WireCounts
    <3>2. v[<<q, i>>] = (f2 + o) + b /\ f2 \in Nat
      BY <1>1, <1>2, WireCounts
    <3>3. f = n + f2 /\ n \in Nat
      <4>1. PICK s \in Seq(Events), t \in Seq(Events) : s = m /\ t = FlattenSeq(channel')
        BY <1>2, <1>3
      <4>2. Count(s \o t, q, i) = Count(s, q, i) + Count(t, q, i) /\ Count(s, q, i) \in Nat
        BY CountConcat
      <4> QED
        BY <1>3, <4>1, <4>2
    <3> HIDE DEF f, f2, o, b, n, w, v
    <3> QED
      BY <3>1, <3>2, <3>3 DEF n
  <2> HIDE DEF w, v
  <2>2. ASSUME NEW p \in Runs \X (1..MaxSegments) PROVE w[p] = Count(m, p[1], p[2]) + v[p]
    <3>1. PICK q \in Runs, i \in 1..MaxSegments : p = <<q, i>> /\ p[1] = q /\ p[2] = i
      OBVIOUS
    <3> QED
      BY <2>1, <3>1
  <2>3. w = [p \in Runs \X (1..MaxSegments) |-> w[p]]
    BY <1>5 DEF WordCounts
  <2> QED
    BY <2>2, <2>3
<1>7. ReaderKeeps(sse', screen', task', runs', v)
  <2>1. ReaderKeeps(sse, screen, task, runs, w)
    BY WordsParts
  <2> HIDE DEF w, v
  <2>2. ReaderKeeps(sse', screen', task, runs, v)
    BY <1>1, <1>2, <1>4, <1>5, <1>6, <2>1, WordsParts, EmitWords
  <2> QED
    BY <1>1, <2>2
<1> QED
  BY <1>1, <1>4, <1>7, WordsParts, WordsNext DEF v

-----------------------------------------------------------------------------
(* Steps that write no word.                                               *)

LEMMA TypesNext ==
    ASSUME StreamTypeOK', UNCHANGED deployment
    PROVE  /\ task' \in Tasks /\ runs' \in [Runs -> RunStates]
           /\ \A r \in Runs : runs'[r].pc # "waiting" => runs'[r].attempt \in Runs
           /\ \A r \in Runs : Len(runs'[r].segs) <= MaxSegments
           /\ buffer' \in [Runs -> Seq(Events)] /\ outbox' \in [Runs -> Seq(Events)]
           /\ channel' \in Seq(Seq(Events)) /\ [sse |-> sse', screen |-> screen'] \in Connections
           /\ (sse'.pc = "handling" => sse'.seen \in Tasks)
<1>1. /\ Runs' = Runs /\ Events' = Events /\ Tasks' = Tasks /\ RunStates' = RunStates
      /\ MaxSegments' = MaxSegments /\ Connections' = Connections
  BY SameBounds
<1> QED
  BY <1>1 DEF StreamTypeOK

LEMMA IsTexts ==
    ASSUME deployment \in Deployments, NEW k, NEW rs \in [Runs -> RunStates], TaskStored(k, rs),
           \A r \in Runs : rs[r].pc # "waiting" => rs[r].attempt \in Runs,
           \A r \in Runs : Len(rs[r].segs) <= MaxSegments
    PROVE  Texts(rs)
<1>1. ASSUME NEW r \in Runs
      PROVE  /\ rs[r].attempt = 0 => rs[r].segs = <<>>
             /\ \A i \in DOMAIN rs[r].segs : TextOf(rs, r, i) # <<>>
  <2>1. RunStored(k, rs, r)
    BY DEF TaskStored
  <2>2. rs[r].attempt = 0 => rs[r].pc = "waiting"
    <3>1. 0 \notin Runs
      BY DEF Runs
    <3> QED
      BY <3>1
  <2> QED
    BY <2>1, <2>2 DEF RunStored, Unstarted
<1> QED
  BY <1>1 DEF Texts

\* The runs go on, or start, and write nothing.
SameTexts(rs, rs2) ==
    \A r \in Runs : /\ rs[r].attempt # 0 => rs2[r].attempt = rs[r].attempt
                    /\ DOMAIN rs2[r].segs = DOMAIN rs[r].segs
                    /\ \A i \in DOMAIN rs[r].segs : TextOf(rs2, r, i) = TextOf(rs, r, i)

LEMMA SamePlaces ==
    ASSUME deployment \in Deployments, NEW rs, Texts(rs), NEW rs2, SameTexts(rs, rs2)
    PROVE  /\ \A r \in Runs : \A i \in DOMAIN rs[r].segs :
                 i \in DOMAIN rs2[r].segs /\ Place(rs2, r, i) = Place(rs, r, i) /\ TextOf(rs2, r, i) = TextOf(rs, r, i)
           /\ \A r \in Runs : DOMAIN rs2[r].segs = DOMAIN rs[r].segs
           /\ \A r \in Runs : rs[r].attempt # 0 /\ Kept(rs2, r) => Kept(rs, r)
           /\ \A r \in Runs : DOMAIN rs[r].segs # {} => rs[r].attempt # 0
           /\ WrittenBy(rs2) = WrittenBy(rs)
           /\ \A r \in Runs : \A i \in 1..MaxSegments : Size(rs2, r, i) = Size(rs, r, i)
<1>1. \A r \in Runs : DOMAIN rs[r].segs # {} => rs[r].attempt # 0
  <2> SUFFICES ASSUME NEW r \in Runs, rs[r].attempt = 0 PROVE DOMAIN rs[r].segs = {}
    OBVIOUS
  <2>1. rs[r].segs = <<>>
    BY DEF Texts
  <2> QED
    BY <2>1
<1>2. \A r \in Runs : DOMAIN rs2[r].segs = DOMAIN rs[r].segs
  BY DEF SameTexts
<1>3. ASSUME NEW r \in Runs, NEW i \in DOMAIN rs[r].segs
      PROVE  i \in DOMAIN rs2[r].segs /\ Place(rs2, r, i) = Place(rs, r, i) /\ TextOf(rs2, r, i) = TextOf(rs, r, i)
  BY <1>1 DEF SameTexts, Place
<1>4. ASSUME NEW r \in Runs, rs[r].attempt # 0, Kept(rs2, r) PROVE Kept(rs, r)
  <2> SUFFICES ASSUME NEW q \in Runs, q > r, rs[q].attempt = rs[r].attempt PROVE FALSE
    BY DEF Kept
  <2>1. rs2[q].attempt = rs2[r].attempt
    BY <1>4 DEF SameTexts
  <2> QED
    BY <1>4, <2>1 DEF Kept
<1>5. WrittenBy(rs2) = WrittenBy(rs)
  <2>1. ASSUME NEW r \in Runs
        PROVE  {Range(TextOf(rs2, r, i)) : i \in DOMAIN rs2[r].segs} = {Range(TextOf(rs, r, i)) : i \in DOMAIN rs[r].segs}
    BY <1>2, <1>3
  <2> QED
    BY <2>1 DEF WrittenBy
<1>6. ASSUME NEW r \in Runs, NEW i \in 1..MaxSegments PROVE Size(rs2, r, i) = Size(rs, r, i)
  BY <1>2, <1>3 DEF Size, TextOf
<1> QED
  BY <1>1, <1>2, <1>3, <1>4, <1>5, <1>6

LEMMA TaggedStays ==
    ASSUME deployment \in Deployments, NEW rs, NEW rs2, SameTexts(rs, rs2),
           NEW events \in Seq(Events), Tagged(events, rs)
    PROVE  Tagged(events, rs2)
<1> SUFFICES ASSUME NEW e \in Range(events) PROVE e.attempt = rs2[e.run].attempt
  BY DEF Tagged
<1>1. e \in Events
  BY DEF Range
<1>2. e.attempt \in Runs /\ e.run \in Runs
  BY <1>1, EventFields
<1>3. e.attempt # 0
  BY <1>2 DEF Runs
<1>4. e.attempt = rs[e.run].attempt
  BY DEF Tagged
<1> QED
  BY <1>2, <1>3, <1>4 DEF SameTexts

LEMMA KnownStays ==
    ASSUME deployment \in Deployments, NEW rs, Texts(rs), NEW rs2, SameTexts(rs, rs2),
           NEW items, NEW g, KnownItems(items, g, rs)
    PROVE  KnownItems(items, g, rs2)
<1>1. ASSUME NEW r \in Runs, NEW i \in DOMAIN rs2[r].segs, HasText(items, Place(rs2, r, i), TextOf(rs2, r, i))
      PROVE  r <= g
  <2>1. i \in DOMAIN rs[r].segs
    BY SamePlaces
  <2>2. Place(rs2, r, i) = Place(rs, r, i) /\ TextOf(rs2, r, i) = TextOf(rs, r, i)
    BY <2>1, SamePlaces
  <2> QED
    BY <1>1, <2>1, <2>2 DEF KnownItems
<1>2. WrittenBy(rs2) = WrittenBy(rs)
  BY SamePlaces
<1> QED
  BY <1>1, <1>2 DEF KnownItems

LEMMA WordsStay ==
    ASSUME deployment \in Deployments, NEW rs, Texts(rs), NEW rs2, SameTexts(rs, rs2),
           NEW c \in Connections, NEW w, ReaderWords(c, rs, w)
    PROVE  ReaderWords(c, rs2, w)
<1>1. c.sse.pending \in Seq(Events)
  BY ConnectionParts DEF Routes
<1>2. Tagged(c.sse.pending, rs2)
  BY <1>1, TaggedStays DEF ReaderWords
<1>3. WordsLeft(c, rs2, w)
  <2>1. \A r \in Runs : \A i \in 1..MaxSegments : Size(rs2, r, i) = Size(rs, r, i)
    BY SamePlaces
  <2> QED
    BY <2>1 DEF ReaderWords, WordsLeft
<1>4. ASSUME Connected(c.sse), NEW r \in Runs, Kept(rs2, r), NEW i \in DOMAIN rs2[r].segs
      PROVE  Fits(c, r, Place(rs2, r, i), TextOf(rs2, r, i), w[<<r, i>>])
  <2>1. i \in DOMAIN rs[r].segs
    BY SamePlaces
  <2>2. Place(rs2, r, i) = Place(rs, r, i) /\ TextOf(rs2, r, i) = TextOf(rs, r, i)
    BY <2>1, SamePlaces
  <2>3. rs[r].attempt # 0
    BY <2>1, SamePlaces
  <2>4. Kept(rs, r)
    BY <1>4, <2>3, SamePlaces
  <2> QED
    BY <1>4, <2>1, <2>2, <2>4 DEF ReaderWords
<1>5. Connected(c.sse) => KnownItems(c.sse.versions, c.sse.gen, rs2)
  BY KnownStays DEF ReaderWords
<1> QED
  BY <1>2, <1>3, <1>4, <1>5 DEF ReaderWords

LEMMA SeenStays ==
    ASSUME deployment \in Deployments, NEW rs, Texts(rs), NEW rs2, SameTexts(rs, rs2),
           NEW s \in Routes, s.pc = "handling" => s.seen \in Tasks, NEW k \in Tasks, NEW k2 \in Tasks,
           k.gen <= k2.gen, k.status = "completed" => k2 = k, SeenWords(s, k, rs)
    PROVE  SeenWords(s, k2, rs2)
<1>1. k.gen \in Nat /\ k2.gen \in Nat /\ s.gen \in Nat
  BY TaskRounds, Bounds DEF Routes
<1>2. Connected(s) => s.gen <= k2.gen
  BY <1>1 DEF SeenWords
<1>3. ASSUME s.pc = "handling"
      PROVE  /\ s.gen <= s.seen.gen /\ s.seen.gen <= k2.gen /\ KnownItems(s.seen.events, s.seen.gen, rs2)
             /\ s.seen.status = "completed" => s.seen = k2
  <2>1. s.seen.gen \in Nat
    BY <1>3, TaskRounds
  <2>2. KnownItems(s.seen.events, s.seen.gen, rs)
    BY <1>3 DEF SeenWords
  <2>3. KnownItems(s.seen.events, s.seen.gen, rs2)
    BY <2>2, KnownStays
  <2> QED
    BY <1>1, <1>3, <2>1, <2>3 DEF SeenWords
<1> QED
  BY <1>2, <1>3 DEF SeenWords

LEMMA DoneStays ==
    ASSUME deployment \in Deployments, NEW rs, Texts(rs), NEW rs2, SameTexts(rs, rs2),
           NEW s, NEW items, NEW k, NEW k2, k.status = "completed" => k2 = k, DoneWords(s, items, k, rs)
    PROVE  DoneWords(s, items, k2, rs2)
<1> SUFFICES ASSUME s.pc = "done" PROVE DoneWords(s, items, k, rs2)
  BY DEF DoneWords
<1>1. ASSUME NEW r \in Runs, Kept(rs2, r), NEW i \in DOMAIN rs2[r].segs
      PROVE  Range(TextOf(rs2, r, i)) \subseteq Range(items[Place(rs2, r, i)].text)
  <2>1. i \in DOMAIN rs[r].segs
    BY SamePlaces
  <2>2. Place(rs2, r, i) = Place(rs, r, i) /\ TextOf(rs2, r, i) = TextOf(rs, r, i)
    BY <2>1, SamePlaces
  <2>3. rs[r].attempt # 0
    BY <2>1, SamePlaces
  <2>4. Kept(rs, r)
    BY <1>1, <2>3, SamePlaces
  <2> QED
    BY <2>1, <2>2, <2>4 DEF DoneWords
<1> QED
  BY <1>1 DEF DoneWords

LEMMA QuietWords ==
    ASSUME StreamTypeOK, StreamTypeOK', WordsInv, UNCHANGED <<deployment, sse, screen>>,
           SameTexts(runs, runs'), TaskStored(task', runs'),
           task.gen <= task'.gen, task.status = "completed" => task' = task,
           Tagged(FlattenSeq(channel'), runs),
           \A r \in Runs : Tagged(outbox'[r], runs) /\ Tagged(buffer'[r], runs),
           \A p \in Runs \X (1..MaxSegments) :
              Wire(channel', outbox', buffer')[p] <= Wire(channel, outbox, buffer)[p]
    PROVE  WordsInv'
<1> DEFINE w == Wire(channel, outbox, buffer)
           v == Wire(channel', outbox', buffer')
           c == [sse |-> sse, screen |-> screen]
<1>1. /\ Numbered(runs) /\ Texts(runs) /\ deployment \in Deployments /\ w \in WordCounts /\ c \in Connections
      /\ ReaderWords(c, runs, w) /\ SeenWords(sse, task, runs) /\ DoneWords(sse, screen, task, runs)
  BY WordsParts DEF ReaderKeeps
<1>2. /\ task' \in Tasks /\ buffer' \in [Runs -> Seq(Events)] /\ outbox' \in [Runs -> Seq(Events)]
      /\ channel' \in Seq(Seq(Events)) /\ (sse.pc = "handling" => sse.seen \in Tasks)
      /\ task \in Tasks /\ sse \in Routes
  <2>1. c.sse = sse /\ c.sse \in Routes
    BY <1>1, ConnectionParts
  <2> QED
    BY <2>1, TypesNext, Unchanged
<1>3. v \in WordCounts
  BY <1>1, <1>2, WireCounts
<1>4. Numbered(runs')
  <2>1. WrittenBy(runs') = WrittenBy(runs)
    BY <1>1, SamePlaces
  <2> QED
    BY <1>1, <2>1 DEF Numbered
<1>5. WireTagged(channel', outbox', buffer', runs')
  <2>1. FlattenSeq(channel') \in Seq(Events)
    BY <1>2, FlattenType
  <2>2. Tagged(FlattenSeq(channel'), runs')
    BY <1>1, <2>1, TaggedStays
  <2>3. ASSUME NEW r \in Runs PROVE Tagged(outbox'[r], runs') /\ Tagged(buffer'[r], runs')
    <3>1. outbox'[r] \in Seq(Events) /\ buffer'[r] \in Seq(Events)
      BY <1>2
    <3> QED
      BY <1>1, <3>1, TaggedStays
  <2> QED
    BY <2>2, <2>3 DEF WireTagged
<1>6. ReaderKeeps(sse', screen', task', runs', v)
  <2> HIDE DEF w, v, c
  <2>0. \A p \in Runs \X (1..MaxSegments) : v[p] <= w[p]
    BY DEF w, v
  <2>1. ReaderWords(c, runs, v)
    BY <1>1, <1>3, <2>0, ReaderFewer
  <2>2. ReaderWords(c, runs', v)
    BY <1>1, <2>1, WordsStay
  <2>3. SeenWords(sse, task', runs')
    BY <1>1, <1>2, SeenStays
  <2>4. DoneWords(sse, screen, task', runs')
    BY <1>1, DoneStays
  <2> QED
    BY <2>2, <2>3, <2>4 DEF ReaderKeeps, c
<1> QED
  BY <1>4, <1>5, <1>6, WordsNext DEF v

\* Steps of the executions that only change the record.
LEMMA RecordWords ==
    ASSUME StreamTypeOK, StreamTypeOK', WordsInv, UNCHANGED <<deployment, wireVars, sse, screen>>,
           SameTexts(runs, runs'), TaskStored(task', runs'),
           task.gen <= task'.gen, task.status = "completed" => task' = task
    PROVE  WordsInv'
<1>1. UNCHANGED <<deployment, buffer, outbox, channel, sse, screen>>
  BY DEF wireVars
<1>2. WireTagged(channel, outbox, buffer, runs)
  BY WordsParts
<1> DEFINE w == Wire(channel, outbox, buffer)
<1>3. \A p \in Runs \X (1..MaxSegments) : w[p] \in Nat
  BY WordsParts DEF WordCounts
<1>4. \A p \in Runs \X (1..MaxSegments) : Wire(channel', outbox', buffer')[p] <= w[p]
  <2>1. Wire(channel', outbox', buffer') = w
    BY <1>1
  <2> HIDE DEF w
  <2> QED
    BY <1>3, <2>1
<1>5. /\ Tagged(FlattenSeq(channel'), runs)
      /\ \A r \in Runs : Tagged(outbox'[r], runs) /\ Tagged(buffer'[r], runs)
  BY <1>1, <1>2 DEF WireTagged
<1> QED
  BY <1>1, <1>4, <1>5, QuietWords

\* A run that the step leaves alone.
LEMMA RunStays ==
    ASSUME deployment \in Deployments, NEW rs, Texts(rs), NEW rs2, SameTexts(rs, rs2), NEW k, NEW k2,
           NEW r \in Runs, RunStored(k, rs, r), rs2[r] = rs[r], rs[r].pc # "waiting" => rs[r].attempt # 0,
           AtWork(k, r) => AtWork(k2, r) \/ ~Kept(rs2, r), AtWork(k2, r) => AtWork(k, r),
           Kept(rs2, r) \/ AtWork(k2, r) => (StoredAll(k, rs, r) => StoredAll(k2, rs, r))
    PROVE  RunStored(k2, rs2, r)
<1>1. StoredAll(k2, rs, r) => StoredAll(k2, rs2, r)
  BY DEF StoredAll, Place, TextOf
<1>2. rs[r].attempt # 0 /\ Kept(rs2, r) => Kept(rs, r)
  BY SamePlaces
<1>3. \A i \in DOMAIN rs2[r].segs : TextOf(rs2, r, i) # <<>>
  BY DEF RunStored, TextOf
<1>4. rs2[r].pc = "waiting" => rs2[r] = Unstarted
  BY DEF RunStored
<1>5. rs2[r].pc = "streaming" => AtWork(k2, r) \/ ~Kept(rs2, r)
  BY <1>2 DEF RunStored
<1>6. rs2[r].pc # "waiting" /\ Kept(rs2, r) /\ ~AtWork(k2, r) => StoredAll(k2, rs2, r)
  BY <1>1, <1>2 DEF RunStored
<1>7. rs2[r].pc = "streaming" /\ AtWork(k2, r) /\ rs2[r].saved => StoredAll(k2, rs2, r)
  BY <1>1 DEF RunStored
<1> QED
  BY <1>3, <1>4, <1>5, <1>6, <1>7 DEF RunStored

\* Segments of a run that has not begun.
LEMMA UnstartedIs ==
    Unstarted.pc = "waiting" /\ Unstarted.attempt = 0 /\ DOMAIN Unstarted.segs = {} /\ 0 \notin Runs
BY DEF Unstarted, Runs

\* A run that starts writes nothing yet.
LEMMA StartKeepsTexts ==
    ASSUME StreamTypeOK, NEW g \in Runs, runs[g] = Unstarted, NEW base, runs' = [runs EXCEPT ![g] = Started(base)]
    PROVE  /\ SameTexts(runs, runs') /\ runs'[g] = Started(base)
           /\ \A r \in Runs : r # g => runs'[r] = runs[r]
<1>1. runs'[g] = Started(base) /\ \A r \in Runs : r # g => runs'[r] = runs[r]
  BY Unchanged
<1>2. DOMAIN Started(base).segs = {}
  BY DEF Started
<1>3. DOMAIN runs[g].segs = {} /\ runs[g].attempt = 0
  BY UnstartedIs
<1> QED
  BY <1>1, <1>2, <1>3 DEF SameTexts, TextOf

LEMMA ClaimWords ==
    ASSUME StreamTypeOK, StreamTypeOK', WireInv, WordsInv, Claim PROVE WordsInv'
<1> DEFINE g == task.gen
<1>1. /\ task.status = "queued" /\ g \in Runs /\ task' = [task EXCEPT !.status = "running"]
      /\ runs' = [runs EXCEPT ![g] = Started(<<>>)] /\ UNCHANGED <<deployment, wireVars, sse, screen>>
  BY DEF Claim
<1>2. runs[g] = Unstarted
  BY <1>1 DEF WireInv, RunsInTurn
<1>3. /\ SameTexts(runs, runs') /\ runs'[g] = Started(<<>>)
      /\ \A r \in Runs : r # g => runs'[r] = runs[r]
  BY <1>1, <1>2, StartKeepsTexts
<1>4. /\ task'.status = "running" /\ task'.gen = g /\ task'.events = task.events
      /\ task'.attempt = task.attempt /\ g \in Nat /\ g <= g
  BY <1>1, Unchanged, TaskRounds DEF Tasks
<1>5. /\ Started(<<>>).pc = "streaming" /\ Started(<<>>).attempt = task.attempt
      /\ DOMAIN Started(<<>>).segs = {}
  BY DEF Started
<1>6. /\ TaskStored(task, runs) /\ Texts(runs) /\ deployment \in Deployments
      /\ \A r \in Runs : runs[r].pc # "waiting" => runs[r].attempt # 0
  BY WordsParts, Unchanged, UnstartedIs
<1>7. TaskStored(task', runs')
  <2>1. KnownItems(task'.events, task'.gen, runs')
    BY <1>3, <1>4, <1>6, KnownStays DEF TaskStored
  <2>2. ASSUME NEW r \in Runs PROVE RunStored(task', runs', r)
    <3>1. CASE r = g
      <4>1. AtWork(task', r) /\ StoredAll(task', runs', r)
        BY <1>3, <1>4, <1>5, <3>1 DEF AtWork, StoredAll
      <4> QED
        BY <1>3, <1>5, <3>1, <4>1 DEF RunStored
    <3>2. CASE r # g
      <4>1. ~AtWork(task, r) /\ ~AtWork(task', r) /\ (StoredAll(task, runs, r) => StoredAll(task', runs, r))
        BY <1>1, <1>4, <3>2 DEF AtWork, StoredAll
      <4>2. RunStored(task, runs, r)
        BY <1>6 DEF TaskStored
      <4> QED
        BY <1>3, <1>6, <3>2, <4>1, <4>2, RunStays
    <3> QED
      BY <3>1, <3>2
  <2> QED
    BY <1>3, <1>4, <1>5, <2>1, <2>2 DEF TaskStored
<1> QED
  BY <1>1, <1>3, <1>4, <1>7, RecordWords

\* What is known in round g stays known in a later one.
LEMMA KnownLater ==
    ASSUME deployment \in Deployments, NEW rs, NEW items, NEW more, NEW g \in Nat, NEW h \in Nat, g <= h,
           KnownItems(items, g, rs), DOMAIN more \subseteq DOMAIN items,
           \A id \in DOMAIN more : more[id].text = items[id].text
    PROVE  KnownItems(more, h, rs)
<1>1. ASSUME NEW r \in Runs, NEW i \in DOMAIN rs[r].segs, HasText(more, Place(rs, r, i), TextOf(rs, r, i))
      PROVE  r <= h
  <2>1. HasText(items, Place(rs, r, i), TextOf(rs, r, i))
    BY <1>1 DEF HasText
  <2>2. r <= g /\ r \in Nat
    BY <2>1 DEF KnownItems, Runs
  <2> QED
    BY <2>2
<1> QED
  BY <1>1 DEF KnownItems

LEMMA TakeOverWords ==
    ASSUME StreamTypeOK, StreamTypeOK', WireInv, WordsInv, TakeOver PROVE WordsInv'
<1> DEFINE h == task.gen
           g == task.gen + 1
           events == Interrupt(task.events, runs[h].found)
<1>1. /\ task.status = "running" /\ g \in Runs
      /\ task' = [task EXCEPT !.gen = g, !.events = events]
      /\ runs' = [runs EXCEPT ![g] = Started(task.partial)] /\ UNCHANGED <<deployment, wireVars, sse, screen>>
  BY DEF TakeOver
<1>2. h \in Nat /\ h \in Runs /\ g > h /\ h <= g /\ g \in Nat /\ h # g
  BY Unchanged, TaskRounds
<1> HIDE DEF g
<1>3. runs[g] = Unstarted
  BY <1>1, <1>2 DEF WireInv, RunsInTurn
<1>4. /\ SameTexts(runs, runs') /\ runs'[g] = Started(task.partial)
      /\ \A r \in Runs : r # g => runs'[r] = runs[r]
  BY <1>1, <1>3, StartKeepsTexts
<1>5. /\ task'.status = "running" /\ task'.gen = g /\ task'.events = events /\ task'.attempt = task.attempt
  BY <1>1, Unchanged DEF Tasks
<1>6. /\ Started(task.partial).pc = "streaming" /\ Started(task.partial).attempt = task.attempt
      /\ DOMAIN Started(task.partial).segs = {}
  BY DEF Started
<1>7. /\ TaskStored(task, runs) /\ Texts(runs) /\ deployment \in Deployments
      /\ \A r \in Runs : runs[r].pc # "waiting" => runs[r].attempt # 0
  BY WordsParts, Unchanged, UnstartedIs
<1>8. DOMAIN events = DOMAIN task.events /\ \A id \in DOMAIN events : events[id].text = task.events[id].text
  <2>1. \A id \in DOMAIN task.events : task.events[id] \in Segments
    BY Unchanged, TaskRounds, ItemMapIs
  <2> QED
    BY <2>1 DEF Interrupt, Segments
<1>9. ~Kept(runs', h)
  <2>1. runs'[g].attempt = task.attempt /\ runs'[h].attempt = task.attempt
    BY <1>1, <1>2, <1>4, <1>6, <1>7 DEF TaskStored
  <2> QED
    BY <1>1, <1>2, <2>1 DEF Kept
<1>10. TaskStored(task', runs')
  <2>1. KnownItems(task'.events, task'.gen, runs')
    <3>1. KnownItems(task.events, h, runs')
      BY <1>4, <1>7, KnownStays DEF TaskStored
    <3> HIDE DEF events
    <3>2. KnownItems(events, g, runs')
      BY <1>2, <1>7, <1>8, <3>1, KnownLater
    <3> QED
      BY <1>5, <3>2
  <2>2. ASSUME NEW r \in Runs PROVE RunStored(task', runs', r)
    <3>1. CASE r = g
      <4>1. AtWork(task', r) /\ StoredAll(task', runs', r)
        BY <1>4, <1>5, <1>6, <3>1 DEF AtWork, StoredAll
      <4> QED
        BY <1>4, <1>6, <3>1, <4>1 DEF RunStored
    <3>2. CASE r # g
      <4> HIDE DEF events
      <4>1. /\ AtWork(task, r) => ~Kept(runs', r)
            /\ ~AtWork(task', r)
        BY <1>5, <1>9, <3>2 DEF AtWork
      <4>2. StoredAll(task, runs, r) => StoredAll(task', runs, r)
        BY <1>5, <1>8 DEF StoredAll, HasText
      <4>3. RunStored(task, runs, r)
        BY <1>7 DEF TaskStored
      <4> QED
        BY <1>4, <1>7, <3>2, <4>1, <4>2, <4>3, RunStays
    <3> QED
      BY <3>1, <3>2
  <2> QED
    BY <1>4, <1>5, <1>6, <2>1, <2>2 DEF TaskStored
<1> QED
  BY <1>1, <1>2, <1>4, <1>5, <1>10, RecordWords

\* A run that changes, but not its texts.
LEMMA OneRunKeepsTexts ==
    ASSUME StreamTypeOK, NEW r \in Runs, NEW run, runs' = [runs EXCEPT ![r] = run],
           run.attempt = runs[r].attempt, run.segs = runs[r].segs
    PROVE  /\ SameTexts(runs, runs') /\ runs'[r] = run /\ \A q \in Runs : q # r => runs'[q] = runs[q]
           /\ \A q \in Runs : Kept(runs', q) <=> Kept(runs, q)
<1>1. runs'[r] = run /\ \A q \in Runs : q # r => runs'[q] = runs[q]
  BY Unchanged
<1>2. \A q \in Runs : runs'[q].attempt = runs[q].attempt /\ runs'[q].segs = runs[q].segs
  BY <1>1
<1> QED
  BY <1>1, <1>2 DEF SameTexts, TextOf, Kept

\* The items of a record in which the segments of run r are stored.
LEMMA StoreSegmentsIs ==
    ASSUME StreamTypeOK, WordsInv, NEW r \in Runs, runs[r].pc = "streaming", NEW events, events = StoreSegments(r)
    PROVE  /\ \A i \in DOMAIN runs[r].segs : HasText(events, Place(runs, r, i), TextOf(runs, r, i))
           /\ \A id \in DOMAIN events :
                 \/ \E i \in DOMAIN runs[r].segs : id = Place(runs, r, i)
                 \/ id \in DOMAIN task.events /\ events[id] = task.events[id]
           /\ \A id \in DOMAIN task.events : id \in DOMAIN events
           /\ \A id \in DOMAIN task.events : id[1] # runs[r].attempt => events[id] = task.events[id]
<1> DEFINE ids == {SegmentItem(runs[r].attempt, i) : i \in DOMAIN runs[r].segs}
<1>1. /\ DOMAIN events = DOMAIN task.events \cup ids
      /\ \A id \in DOMAIN events : events[id] = IF id \in ids THEN runs[r].segs[id[2]] ELSE task.events[id]
  BY DEF StoreSegments
<1>2. \A i \in DOMAIN runs[r].segs : Place(runs, r, i)[2] = i /\ Place(runs, r, i) \in ids
                                     /\ Place(runs, r, i)[1] = runs[r].attempt
  BY DEF Place, SegmentItem
<1>3. \A id \in ids : \E i \in DOMAIN runs[r].segs : id = Place(runs, r, i)
  BY DEF Place
<1>4. \A id \in ids : id[1] = runs[r].attempt
  BY <1>2, <1>3
<1> HIDE DEF ids
<1> QED
  BY <1>1, <1>2, <1>3, <1>4 DEF HasText, TextOf

\* What the segments of a run say was written.
LEMMA TextWritten ==
    ASSUME NEW rs, NEW r \in Runs, NEW i \in DOMAIN rs[r].segs
    PROVE  Range(TextOf(rs, r, i)) \subseteq WrittenBy(rs)
BY DEF WrittenBy

LEMMA CheckpointWords ==
    ASSUME StreamTypeOK, StreamTypeOK', WireInv, WordsInv, NEW r \in Runs, Checkpoint(r) PROVE WordsInv'
<1> DEFINE owner == task.status = "running" /\ task.gen = r
           run == [runs[r] EXCEPT !.saved = TRUE]
<1>1. /\ runs[r].pc = "streaming" /\ runs' = [runs EXCEPT ![r].saved = TRUE]
      /\ owner => task' = [task EXCEPT !.partial = RunText(r), !.events = StoreSegments(r)]
      /\ ~owner => task' = task
      /\ UNCHANGED <<deployment, wireVars, sse, screen>>
  BY DEF Checkpoint
<1>2. runs' = [runs EXCEPT ![r] = run]
  BY <1>1
<1>3. run.attempt = runs[r].attempt /\ run.segs = runs[r].segs /\ run.pc = "streaming"
  BY <1>1, RunFields DEF RunStates
<1> HIDE DEF run
<1>4. /\ SameTexts(runs, runs') /\ runs'[r] = run
      /\ \A q \in Runs : q # r => runs'[q] = runs[q]
      /\ \A q \in Runs : Kept(runs', q) <=> Kept(runs, q)
  BY <1>2, <1>3, OneRunKeepsTexts
<1>5. /\ TaskStored(task, runs) /\ Texts(runs) /\ deployment \in Deployments
      /\ \A q \in Runs : runs[q].pc # "waiting" => runs[q].attempt # 0
      /\ \A q \in Runs : RunStored(task, runs, q)
  BY WordsParts, Unchanged, UnstartedIs DEF TaskStored
<1>6. /\ task'.status = task.status /\ task'.gen = task.gen /\ task'.attempt = task.attempt
      /\ owner => task'.events = StoreSegments(r)
  BY <1>1, Unchanged DEF Tasks
<1>7. \A q \in Runs : AtWork(task', q) <=> AtWork(task, q)
  BY <1>6 DEF AtWork
<1>8. runs'[task.gen].attempt = runs[task.gen].attempt
  BY <1>3, <1>4, Unchanged, TaskRounds
<1>9. CASE ~owner
  <2>1. task' = task /\ ~AtWork(task, r)
    BY <1>1, <1>9 DEF AtWork
  <2>2. KnownItems(task'.events, task'.gen, runs')
    BY <1>4, <1>5, <2>1, KnownStays DEF TaskStored
  <2>3. ASSUME NEW q \in Runs PROVE RunStored(task', runs', q)
    <3>1. CASE q = r
      <4>1. ~Kept(runs', r)
        BY <1>1, <1>4, <1>5, <2>1 DEF RunStored
      <4>2. \A i \in DOMAIN runs'[r].segs : TextOf(runs', r, i) # <<>>
        BY <1>3, <1>4, <1>5 DEF RunStored, TextOf
      <4> QED
        BY <1>3, <1>4, <2>1, <3>1, <4>1, <4>2 DEF RunStored
    <3>2. CASE q # r
      BY <1>4, <1>5, <2>1, <3>2, RunStays
    <3> QED
      BY <3>1, <3>2
  <2>4. TaskStored(task', runs')
    BY <1>5, <1>8, <2>1, <2>2, <2>3 DEF TaskStored
  <2>5. task.gen <= task'.gen
    BY <2>1, Unchanged, TaskRounds
  <2> QED
    BY <1>1, <1>4, <2>1, <2>4, <2>5, RecordWords
<1>10. CASE owner
  <2> DEFINE events == StoreSegments(r)
  <2>1. events = StoreSegments(r) /\ task'.events = events
    BY <1>6, <1>10
  <2> HIDE DEF events
  <2>2. /\ \A i \in DOMAIN runs[r].segs : HasText(events, Place(runs, r, i), TextOf(runs, r, i))
        /\ \A id \in DOMAIN events :
              \/ \E i \in DOMAIN runs[r].segs : id = Place(runs, r, i)
              \/ id \in DOMAIN task.events /\ events[id] = task.events[id]
        /\ \A id \in DOMAIN task.events : id \in DOMAIN events
        /\ \A id \in DOMAIN task.events : id[1] # runs[r].attempt => events[id] = task.events[id]
    BY <1>1, <2>1, StoreSegmentsIs
  <2>3. KnownItems(events, task.gen, runs)
    <3>1. ASSUME NEW id \in DOMAIN events PROVE id[2] # 0 /\ Range(events[id].text) \subseteq WrittenBy(runs)
      <4>1. CASE \E i \in DOMAIN runs[r].segs : id = Place(runs, r, i)
        <5>1. PICK i \in DOMAIN runs[r].segs : id = Place(runs, r, i)
          BY <4>1
        <5>2. id[2] = i /\ i # 0
          <6>1. i \in 1..MaxSegments
            BY <1>5, Sizes
          <6>2. Place(runs, r, i)[2] = i
            BY DEF Place, SegmentItem
          <6> QED
            BY <5>1, <6>1, <6>2
        <5>3. events[id].text = TextOf(runs, r, i)
          BY <2>2, <5>1 DEF HasText
        <5> QED
          BY <5>2, <5>3, TextWritten
      <4>2. CASE id \in DOMAIN task.events /\ events[id] = task.events[id]
        BY <1>5, <4>2 DEF TaskStored, KnownItems
      <4> QED
        BY <2>2, <4>1, <4>2
    <3>2. ASSUME NEW q \in Runs, NEW i \in DOMAIN runs[q].segs PROVE q <= task.gen
      <4>1. q \in Nat /\ task.gen \in Nat
        BY Unchanged, TaskRounds DEF Runs
      <4>2. CASE q > task.gen
        <5>1. runs[q] = Unstarted
          BY <4>2 DEF WireInv, RunsInTurn
        <5> QED
          BY <3>2, <5>1, UnstartedIs
      <4> QED
        BY <4>1, <4>2
    <3> QED
      BY <3>1, <3>2 DEF KnownItems
  <2>4. KnownItems(task'.events, task'.gen, runs')
    BY <1>4, <1>5, <1>6, <2>1, <2>3, KnownStays
  <2>5. StoredAll(task', runs', r)
    <3> SUFFICES ASSUME NEW i \in DOMAIN runs'[r].segs
                 PROVE  HasText(task'.events, Place(runs', r, i), TextOf(runs', r, i))
      BY DEF StoredAll
    <3>1. i \in DOMAIN runs[r].segs /\ Place(runs', r, i) = Place(runs, r, i) /\ TextOf(runs', r, i) = TextOf(runs, r, i)
      BY <1>3, <1>4 DEF Place, TextOf
    <3> QED
      BY <2>1, <2>2, <3>1
  <2>6. ASSUME NEW q \in Runs PROVE RunStored(task', runs', q)
    <3>1. CASE q = r
      <4>1. AtWork(task', r)
        BY <1>6, <1>10 DEF AtWork
      <4>2. \A i \in DOMAIN runs'[r].segs : TextOf(runs', r, i) # <<>>
        BY <1>3, <1>4, <1>5 DEF RunStored, TextOf
      <4> QED
        BY <1>3, <1>4, <2>5, <3>1, <4>1, <4>2 DEF RunStored
    <3>2. CASE q # r
      <4>1. ~AtWork(task, q)
        BY <1>10, <3>2 DEF AtWork
      <4>2. ASSUME Kept(runs', q), StoredAll(task, runs, q) PROVE StoredAll(task', runs, q)
        <5> SUFFICES ASSUME NEW i \in DOMAIN runs[q].segs
                     PROVE  HasText(task'.events, Place(runs, q, i), TextOf(runs, q, i))
          BY DEF StoredAll
        <5>1. q <= r
          <6>1. q \in Nat /\ task.gen \in Nat
            BY Unchanged, TaskRounds DEF Runs
          <6>2. CASE q > task.gen
            <7>1. runs[q] = Unstarted
              BY <6>2 DEF WireInv, RunsInTurn
            <7> QED
              BY <7>1, UnstartedIs
          <6> QED
            BY <1>10, <6>1, <6>2
        <5>2. r > q
          <6>1. q \in Nat /\ r \in Nat
            BY DEF Runs
          <6> QED
            BY <3>2, <5>1, <6>1
        <5>3. runs[r].attempt # runs[q].attempt
          BY <1>4, <4>2, <5>2 DEF Kept
        <5>4. HasText(task.events, Place(runs, q, i), TextOf(runs, q, i)) /\ Place(runs, q, i)[1] = runs[q].attempt
          BY <4>2 DEF StoredAll, Place, SegmentItem
        <5> QED
          BY <2>1, <2>2, <5>3, <5>4 DEF HasText
      <4>3. ~AtWork(task', q)
        BY <1>7, <4>1
      <4> QED
        BY <1>4, <1>5, <3>2, <4>1, <4>2, <4>3, RunStays
    <3> QED
      BY <3>1, <3>2
  <2>7. TaskStored(task', runs')
    BY <1>5, <1>6, <1>8, <2>4, <2>6 DEF TaskStored
  <2>8. task.gen <= task'.gen /\ task.status # "completed"
    BY <1>6, <1>10, Unchanged, TaskRounds
  <2> QED
    BY <1>1, <1>4, <2>7, <2>8, RecordWords
<1> QED
  BY <1>9, <1>10

LEMMA FinishWords ==
    ASSUME StreamTypeOK, StreamTypeOK', WireInv, WordsInv, NEW r \in Runs, Finish(r) PROVE WordsInv'
<1> DEFINE owner == task.status = "running" /\ task.gen = r
           run == [runs[r] EXCEPT !.pc = "over"]
<1>1. /\ runs[r].pc = "streaming" /\ runs[r].saved /\ runs' = [runs EXCEPT ![r].pc = "over"]
      /\ owner => \/ \E streamed \in {FALSE, runs[r].segs # <<>>} :
                        task' = [task EXCEPT !.status = "completed", !.streamed = streamed]
                  \/ task' = [task EXCEPT !.status = "queued", !.gen = @ + 1, !.attempt = @ + 1, !.partial = <<>>]
      /\ ~owner => task' = task
      /\ UNCHANGED <<deployment, wireVars, sse, screen>>
  BY DEF Finish
<1>2. runs' = [runs EXCEPT ![r] = run]
  BY <1>1
<1>3. run.attempt = runs[r].attempt /\ run.segs = runs[r].segs /\ run.pc = "over"
  BY <1>1, RunFields DEF RunStates
<1> HIDE DEF run
<1>4. /\ SameTexts(runs, runs') /\ runs'[r] = run
      /\ \A q \in Runs : q # r => runs'[q] = runs[q]
      /\ \A q \in Runs : Kept(runs', q) <=> Kept(runs, q)
  BY <1>2, <1>3, OneRunKeepsTexts
<1>5. /\ TaskStored(task, runs) /\ Texts(runs) /\ deployment \in Deployments
      /\ \A q \in Runs : runs[q].pc # "waiting" => runs[q].attempt # 0
      /\ \A q \in Runs : RunStored(task, runs, q)
  BY WordsParts, Unchanged, UnstartedIs DEF TaskStored
<1>6. task.gen \in Nat /\ task.gen <= task.gen /\ task.gen <= task.gen + 1
  BY Unchanged, TaskRounds
<1>7. /\ task'.events = task.events /\ task.gen <= task'.gen /\ task'.gen \in Nat
      /\ owner => task'.status # "running"
  <2>1. CASE owner
    <3>1. task \in Tasks
      BY Unchanged
    <3>2. CASE \E streamed \in {FALSE, runs[r].segs # <<>>} :
                  task' = [task EXCEPT !.status = "completed", !.streamed = streamed]
      BY <1>6, <3>1, <3>2 DEF Tasks
    <3>3. CASE task' = [task EXCEPT !.status = "queued", !.gen = @ + 1, !.attempt = @ + 1, !.partial = <<>>]
      BY <1>6, <3>1, <3>3 DEF Tasks
    <3> QED
      BY <1>1, <2>1, <3>2, <3>3
  <2>2. CASE ~owner
    BY <1>1, <1>6, <2>2
  <2> QED
    BY <2>1, <2>2
<1>8. task'.status = "running" => runs'[task'.gen].attempt = task'.attempt
  <2> SUFFICES ASSUME task'.status = "running" PROVE runs'[task.gen].attempt = task.attempt /\ task' = task
    OBVIOUS
  <2>1. task' = task
    BY <1>1, <1>7
  <2> QED
    BY <1>3, <1>4, <1>5, <2>1, Unchanged, TaskRounds DEF TaskStored
<1>9. KnownItems(task'.events, task'.gen, runs')
  <2>1. KnownItems(task.events, task.gen, runs')
    BY <1>4, <1>5, KnownStays DEF TaskStored
  <2> QED
    BY <1>5, <1>6, <1>7, <2>1, KnownLater
<1>10. \A rs, q : StoredAll(task, rs, q) => StoredAll(task', rs, q)
  BY <1>7 DEF StoredAll
<1>11. ASSUME NEW q \in Runs PROVE RunStored(task', runs', q)
  <2>1. CASE q = r
    <3>1. Kept(runs', r) => StoredAll(task, runs, r)
      BY <1>1, <1>4, <1>5 DEF RunStored
    <3>2. StoredAll(task, runs, r) => StoredAll(task', runs', r)
      BY <1>3, <1>4, <1>7 DEF StoredAll, Place, TextOf
    <3>3. \A i \in DOMAIN runs'[r].segs : TextOf(runs', r, i) # <<>>
      BY <1>3, <1>4, <1>5 DEF RunStored, TextOf
    <3> QED
      BY <1>3, <1>4, <2>1, <3>1, <3>2, <3>3 DEF RunStored
  <2>2. CASE q # r
    <3>1. CASE owner
      <4>1. ~AtWork(task, q) /\ ~AtWork(task', q)
        BY <1>7, <2>2, <3>1 DEF AtWork
      <4> QED
        BY <1>4, <1>5, <1>10, <2>2, <4>1, RunStays
    <3>2. CASE ~owner
      <4>1. AtWork(task', q) <=> AtWork(task, q)
        BY <1>1, <3>2
      <4> QED
        BY <1>4, <1>5, <1>10, <2>2, <4>1, RunStays
    <3> QED
      BY <3>1, <3>2
  <2> QED
    BY <2>1, <2>2
<1>12. TaskStored(task', runs')
  BY <1>8, <1>9, <1>11 DEF TaskStored
<1>13. task.status = "completed" => task' = task
  BY <1>1
<1> QED
  BY <1>1, <1>4, <1>7, <1>12, <1>13, RecordWords

LEMMA WorkerDiesWords ==
    ASSUME StreamTypeOK, StreamTypeOK', WireInv, WordsInv, NEW r \in Runs, WorkerDies(r) PROVE WordsInv'
<1> DEFINE run == [runs[r] EXCEPT !.pc = "over"]
           w == Wire(channel, outbox, buffer)
           v == Wire(channel', outbox', buffer')
<1>1. /\ runs[r].pc = "streaming" /\ runs' = [runs EXCEPT ![r].pc = "over"]
      /\ buffer' = [buffer EXCEPT ![r] = <<>>] /\ outbox' = [outbox EXCEPT ![r] = <<>>]
      /\ UNCHANGED <<deployment, task, channel, sse, screen>>
  BY DEF WorkerDies
<1>2. runs' = [runs EXCEPT ![r] = run]
  BY <1>1
<1>3. run.attempt = runs[r].attempt /\ run.segs = runs[r].segs /\ run.pc = "over"
  BY <1>1, RunFields DEF RunStates
<1> HIDE DEF run
<1>4. /\ SameTexts(runs, runs') /\ runs'[r] = run
      /\ \A q \in Runs : q # r => runs'[q] = runs[q]
      /\ \A q \in Runs : Kept(runs', q) <=> Kept(runs, q)
  BY <1>2, <1>3, OneRunKeepsTexts
<1>5. /\ TaskStored(task, runs) /\ Texts(runs) /\ deployment \in Deployments
      /\ \A q \in Runs : runs[q].pc # "waiting" => runs[q].attempt # 0
      /\ \A q \in Runs : RunStored(task, runs, q)
  BY WordsParts, Unchanged, UnstartedIs DEF TaskStored
<1>6. TaskStored(task', runs')
  <2>1. KnownItems(task'.events, task'.gen, runs')
    BY <1>1, <1>4, <1>5, KnownStays DEF TaskStored
  <2>2. ASSUME NEW q \in Runs PROVE RunStored(task', runs', q)
    <3>1. CASE q = r
      <4>1. Kept(runs', r) /\ ~AtWork(task', r) => StoredAll(task, runs, r)
        BY <1>1, <1>4, <1>5 DEF RunStored
      <4>2. StoredAll(task, runs, r) => StoredAll(task', runs', r)
        BY <1>1, <1>3, <1>4 DEF StoredAll, Place, TextOf
      <4>3. \A i \in DOMAIN runs'[r].segs : TextOf(runs', r, i) # <<>>
        BY <1>3, <1>4, <1>5 DEF RunStored, TextOf
      <4> QED
        BY <1>3, <1>4, <3>1, <4>1, <4>2, <4>3 DEF RunStored
    <3>2. CASE q # r
      BY <1>1, <1>4, <1>5, <3>2, RunStays
    <3> QED
      BY <3>1, <3>2
  <2>3. runs'[task.gen].attempt = runs[task.gen].attempt
    BY <1>3, <1>4, Unchanged, TaskRounds
  <2> QED
    BY <1>1, <1>5, <2>1, <2>2, <2>3 DEF TaskStored
<1>7. /\ buffer \in [Runs -> Seq(Events)] /\ outbox \in [Runs -> Seq(Events)] /\ channel \in Seq(Seq(Events))
      /\ task.gen \in Nat
  BY Unchanged, TaskRounds
<1>8. /\ buffer'[r] = <<>> /\ outbox'[r] = <<>>
      /\ \A q \in Runs : q # r => buffer'[q] = buffer[q] /\ outbox'[q] = outbox[q]
      /\ buffer' \in [Runs -> Seq(Events)] /\ outbox' \in [Runs -> Seq(Events)]
  BY <1>1, <1>7, TypesNext
<1>9. /\ Tagged(FlattenSeq(channel'), runs)
      /\ \A q \in Runs : Tagged(outbox'[q], runs) /\ Tagged(buffer'[q], runs)
  <2>1. WireTagged(channel, outbox, buffer, runs)
    BY WordsParts
  <2> QED
    BY <1>1, <1>8, <2>1, TaggedNone DEF WireTagged
<1>10. ASSUME NEW q \in Runs, NEW i \in 1..MaxSegments PROVE v[<<q, i>>] <= w[<<q, i>>]
  <2> DEFINE f == Count(FlattenSeq(channel), q, i)
             o == Count(outbox[q], q, i)
             o2 == Count(outbox'[q], q, i)
             b == Count(buffer[q], q, i)
             b2 == Count(buffer'[q], q, i)
  <2>1. w[<<q, i>>] = (f + o) + b /\ f \in Nat /\ o \in Nat /\ b \in Nat
    BY <1>5, <1>7, WireCounts
  <2>2. v[<<q, i>>] = (f + o2) + b2
    <3>1. v = Wire(channel, outbox', buffer')
      BY <1>1
    <3>2. Wire(channel, outbox', buffer')[<<q, i>>] = (f + o2) + b2
      BY <1>5, <1>7, <1>8, WireCounts
    <3> QED
      BY <3>1, <3>2
  <2>3. (o2 = 0 /\ b2 = 0) \/ (o2 = o /\ b2 = b)
    <3>1. CASE q = r
      BY <1>8, <3>1, CountNone
    <3>2. CASE q # r
      BY <1>8, <3>2
    <3> QED
      BY <3>1, <3>2
  <2> HIDE DEF f, o, o2, b, b2, w, v
  <2> QED
    BY <2>1, <2>2, <2>3
<1>11. \A p \in Runs \X (1..MaxSegments) : v[p] <= w[p]
  <2> HIDE DEF w, v
  <2> QED
    BY <1>10
<1>12. task.gen <= task'.gen /\ (task.status = "completed" => task' = task)
  BY <1>1, <1>7
<1> QED
  BY <1>1, <1>4, <1>6, <1>9, <1>11, <1>12, QuietWords

\* Only the reader's state changes.
LEMMA ReaderStepWords ==
    ASSUME StreamTypeOK, WordsInv, UNCHANGED <<deployment, storeVars, wireVars>>,
           ReaderKeeps(sse', screen', task, runs, Wire(channel, outbox, buffer))
    PROVE  WordsInv'
<1>1. UNCHANGED <<deployment, task, runs, channel, outbox, buffer>>
  BY DEF storeVars, wireVars
<1>2. TaskStored(task', runs') /\ Numbered(runs') /\ WireTagged(channel', outbox', buffer', runs')
  BY <1>1, WordsParts
<1>3. ReaderKeeps(sse', screen', task', runs', Wire(channel', outbox', buffer'))
  BY <1>1
<1> QED
  BY <1>1, <1>2, <1>3, WordsNext

LEMMA NothingKnown ==
    ASSUME NEW items, DOMAIN items = {}, NEW g, NEW rs
    PROVE  KnownItems(items, g, rs) /\ \A id, text : ~HasText(items, id, text)
BY DEF KnownItems, HasText

LEMMA ConnectWords ==
    ASSUME StreamTypeOK, StreamTypeOK', WireInv, WordsInv, Connect PROVE WordsInv'
<1> DEFINE w == Wire(channel, outbox, buffer)
<1>1. /\ sse' = [Closed EXCEPT !.pc = "reading", !.gen = task.gen,
                               !.segmented = HasSegments(task, task.attempt)]
      /\ UNCHANGED <<deployment, storeVars, wireVars, screen>>
  BY DEF Connect
<1>2. /\ sse'.pc = "reading" /\ sse'.gen = task.gen /\ ~sse'.ready
      /\ DOMAIN sse'.versions = {} /\ sse'.pending = <<>>
  BY <1>1 DEF Closed
<1>3. /\ ReaderKeeps(sse, screen, task, runs, w) /\ w \in WordCounts /\ Texts(runs)
      /\ deployment \in Deployments /\ task.gen \in Nat /\ sse.pending \in Seq(Events)
  <2>1. sse \in Routes
    BY WordsParts, ConnectionIs
  <2> QED
    BY <2>1, WordsParts, Unchanged, TaskRounds DEF Routes
<1> HIDE DEF w
<1>4. WordsLeft([sse |-> sse', screen |-> screen'], runs, w)
  <2> SUFFICES ASSUME NEW r \in Runs, NEW i \in 1..MaxSegments
               PROVE  Count(sse'.pending, r, i) + w[<<r, i>>] <= Size(runs, r, i)
    BY DEF WordsLeft
  <2> DEFINE n == Count(sse.pending, r, i)
             m == Count(sse'.pending, r, i)
             x == w[<<r, i>>]
             y == Size(runs, r, i)
  <2>1. n + x <= y
    BY <1>3 DEF ReaderKeeps, ReaderWords, WordsLeft
  <2>2. n \in Nat /\ x \in Nat /\ y \in Nat
    BY <1>3, WordsAmongType, Sizes DEF WordCounts
  <2>3. m = 0
    BY <1>2, CountNone
  <2> HIDE DEF n, m, x, y
  <2>4. m + x <= y
    BY <2>1, <2>2, <2>3
  <2> QED
    BY <2>4 DEF m, x, y
<1>5. /\ KnownItems(sse'.versions, sse'.gen, runs)
      /\ \A id, text : ~HasText(sse'.versions, id, text)
  BY <1>2, NothingKnown
<1>6. Tagged(sse'.pending, runs)
  BY <1>2, TaggedNone
<1>7. ReaderWords([sse |-> sse', screen |-> screen'], runs, w)
  BY <1>2, <1>4, <1>5, <1>6 DEF ReaderWords, Fits
<1>8. SeenWords(sse', task, runs) /\ DoneWords(sse', screen', task, runs)
  BY <1>2, <1>3 DEF SeenWords, DoneWords
<1> QED
  BY <1>1, <1>7, <1>8, ReaderStepWords DEF ReaderKeeps, w

LEMMA PollReadWords ==
    ASSUME StreamTypeOK, StreamTypeOK', WireInv, WordsInv, PollRead PROVE WordsInv'
<1> DEFINE w == Wire(channel, outbox, buffer)
<1>1. /\ sse.pc = "reading" /\ sse' = [sse EXCEPT !.pc = "handling", !.seen = task]
      /\ UNCHANGED <<deployment, storeVars, wireVars, screen>>
  BY DEF PollRead
<1>2. sse \in Routes /\ task.gen \in Nat
  BY WordsParts, ConnectionIs, Unchanged, TaskRounds
<1>3. /\ sse'.pc = "handling" /\ sse'.seen = task /\ sse'.gen = sse.gen /\ sse'.ready = sse.ready
      /\ sse'.versions = sse.versions /\ sse'.pending = sse.pending
  BY <1>1, <1>2 DEF Routes
<1>4. ReaderKeeps(sse, screen, task, runs, w) /\ TaskStored(task, runs)
  BY WordsParts
<1> HIDE DEF w
<1>5. ReaderWords([sse |-> sse', screen |-> screen'], runs, w)
  BY <1>1, <1>3, <1>4 DEF ReaderKeeps, ReaderWords, WordsLeft, Connected, Fits, Whole
<1>6. SeenWords(sse', task, runs)
  BY <1>1, <1>2, <1>3, <1>4 DEF ReaderKeeps, SeenWords, Connected, TaskStored
<1>7. DoneWords(sse', screen', task, runs)
  BY <1>3 DEF DoneWords
<1> QED
  BY <1>1, <1>5, <1>6, <1>7, ReaderStepWords DEF ReaderKeeps, w

-----------------------------------------------------------------------------
(* Steps that write, or end what was written.                              *)

LEMMA EventTagged ==
    ASSUME NEW e \in Events, NEW rs, e.attempt = rs[e.run].attempt
    PROVE  Tagged(<<e>>, rs) /\ <<e>> \in Seq(Events) /\ \A r : e.run = r => AllOf(<<e>>, r)
BY DEF Tagged, Range, AllOf

\* A boundary goes out behind what was buffered.
LEMMA BoundaryWords ==
    ASSUME StreamTypeOK, StreamTypeOK', WireInv, WordsInv, NEW r \in Runs,
           NEW e \in Events, e.run = r, e.phase # "delta", e.attempt = runs[r].attempt,
           Send(r, buffer[r] \o <<e>>), UNCHANGED <<deployment, channel>>,
           NEW left, left = [buffer EXCEPT ![r] = <<>>]
    PROVE  /\ left \in [Runs -> Seq(Events)] /\ left[r] = <<>> /\ AllOf(left[r], r)
           /\ ReaderKeeps(sse', screen', task, runs, Wire(channel', outbox', left))
           /\ WireTagged(channel', outbox', left, runs)
<1>1. /\ buffer \in [Runs -> Seq(Events)] /\ buffer[r] \in Seq(Events) /\ AllOf(buffer[r], r)
      /\ Tagged(buffer[r], runs) /\ WireTagged(channel, outbox, buffer, runs)
  BY WordsParts, Unchanged DEF WireInv, OwnEvents, WireTagged
<1>2. /\ left \in [Runs -> Seq(Events)] /\ left[r] = <<>> /\ \A q \in Runs : q # r => left[q] = buffer[q]
  <2> DEFINE T == Seq(Events)
  <2>1. <<>> \in T /\ buffer \in [Runs -> T]
    BY <1>1
  <2> HIDE DEF T
  <2>2. left \in [Runs -> T] /\ left[r] = <<>> /\ \A q \in Runs : q # r => left[q] = buffer[q]
    BY <2>1
  <2> QED
    BY <2>2 DEF T
<1>3. PICK b \in Seq(Events), o \in Seq(Events) : b = buffer[r] /\ o = <<e>>
  BY <1>1, EventTagged
<1>4. AllOf(o, r) /\ Tagged(o, runs) /\ b \o o \in Seq(Events)
  <2>1. AllOf(<<e>>, r) /\ Tagged(<<e>>, runs)
    BY EventTagged
  <2> QED
    BY <1>3, <2>1
<1>5. PICK events \in Seq(Events) : events = b \o o
  BY <1>4
<1>6. AllOf(events, r) /\ Tagged(events, runs)
  BY <1>1, <1>3, <1>4, <1>5, AllOfConcat, TaggedConcat
<1>7. Moved(buffer, events, left)
  <2> SUFFICES ASSUME NEW q \in Runs, NEW i \in 1..MaxSegments
               PROVE  Count(buffer[q], q, i) = Count(events, q, i) + Count(left[q], q, i)
    BY DEF Moved
  <2>1. Count(buffer[q], q, i) \in Nat
    BY <1>1, WordsAmongType
  <2>2. CASE q = r
    <3>1. Count(left[q], q, i) = 0
      BY <1>2, <2>2, CountNone
    <3>2. Count(events, q, i) = Count(b, q, i) + Count(o, q, i)
      BY <1>5, CountConcat
    <3>3. Count(o, q, i) = 0
      <4>1. WordsIn(e, q, i) = <<>>
        BY DEF WordsIn
      <4> QED
        BY <1>3, <4>1, CountOne
    <3> DEFINE x == Count(buffer[q], q, i)
               y == Count(events, q, i)
               z == Count(left[q], q, i)
    <3>4. y = x + 0 /\ z = 0 /\ x \in Nat
      BY <1>3, <2>1, <2>2, <3>1, <3>2, <3>3
    <3> HIDE DEF x, y, z
    <3>5. x = y + z
      BY <3>4
    <3> QED
      BY <3>5 DEF x, y, z
  <2>3. CASE q # r
    <3>1. Count(events, q, i) = 0
      BY <1>6, <2>3, CountOfAnother
    <3> QED
      BY <1>2, <2>1, <2>3, <3>1
  <2> QED
    BY <2>2, <2>3
<1>8. \A q \in Runs : Tagged(left[q], runs)
  BY <1>1, <1>2, TaggedNone DEF WireTagged
<1>9. Send(r, events)
  BY <1>3, <1>5
<1>10. /\ ReaderKeeps(sse', screen', task, runs, Wire(channel', outbox', left))
       /\ WireTagged(channel', outbox', left, runs)
  BY <1>1, <1>2, <1>6, <1>7, <1>8, <1>9, SendWords, WordsParts
<1>11. AllOf(left[r], r)
  BY <1>2 DEF AllOf
<1> QED
  BY <1>2, <1>10, <1>11

\* The wire has moved on, and a run that writes no word.
LEMMA GoOnWords ==
    ASSUME StreamTypeOK, StreamTypeOK', WordsInv, UNCHANGED <<deployment, task>>,
           SameTexts(runs, runs'), TaskStored(task', runs'),
           ReaderKeeps(sse', screen', task, runs, Wire(channel', outbox', buffer')),
           WireTagged(channel', outbox', buffer', runs)
    PROVE  WordsInv'
<1> DEFINE v == Wire(channel', outbox', buffer')
           c == [sse |-> sse', screen |-> screen']
<1>1. /\ Numbered(runs) /\ Texts(runs) /\ deployment \in Deployments /\ c \in Connections
      /\ ReaderWords(c, runs, v) /\ SeenWords(sse', task, runs) /\ DoneWords(sse', screen', task, runs)
  BY WordsParts, TypesNext DEF ReaderKeeps
<1>2. /\ buffer' \in [Runs -> Seq(Events)] /\ outbox' \in [Runs -> Seq(Events)]
      /\ channel' \in Seq(Seq(Events)) /\ (sse'.pc = "handling" => sse'.seen \in Tasks)
      /\ task \in Tasks /\ sse' \in Routes /\ task.gen <= task.gen
  <2>1. sse' \in Routes
    BY <1>1, ConnectionIs
  <2> QED
    BY <2>1, TypesNext, Unchanged, TaskRounds
<1>3. Numbered(runs')
  <2>1. WrittenBy(runs') = WrittenBy(runs)
    BY <1>1, SamePlaces
  <2> QED
    BY <1>1, <2>1 DEF Numbered
<1>4. WireTagged(channel', outbox', buffer', runs')
  <2>1. FlattenSeq(channel') \in Seq(Events)
    BY <1>2, FlattenType
  <2>2. Tagged(FlattenSeq(channel'), runs')
    BY <1>1, <2>1, TaggedStays DEF WireTagged
  <2>3. ASSUME NEW r \in Runs PROVE Tagged(outbox'[r], runs') /\ Tagged(buffer'[r], runs')
    <3>1. outbox'[r] \in Seq(Events) /\ buffer'[r] \in Seq(Events)
      BY <1>2
    <3> QED
      BY <1>1, <3>1, TaggedStays DEF WireTagged
  <2> QED
    BY <2>2, <2>3 DEF WireTagged
<1>5. ReaderKeeps(sse', screen', task', runs', v)
  <2> HIDE DEF v, c
  <2>1. ReaderWords(c, runs', v)
    BY <1>1, WordsStay
  <2>2. SeenWords(sse', task, runs')
    BY <1>1, <1>2, SeenStays
  <2>3. DoneWords(sse', screen', task, runs')
    BY <1>1, DoneStays
  <2> QED
    BY <2>1, <2>2, <2>3 DEF ReaderKeeps, c
<1> QED
  BY <1>3, <1>4, <1>5, WordsNext DEF v

LEMMA EndSegmentWords ==
    ASSUME StreamTypeOK, StreamTypeOK', WireInv, WordsInv, NEW r \in Runs, EndSegment(r) PROVE WordsInv'
<1> DEFINE n == Len(runs[r].segs)
           e == Event(r, "end", n, runs[r].segs[n].text)
           segs == [runs[r].segs EXCEPT ![n] = Ending(r)]
           run == [runs[r] EXCEPT !.segs = segs, !.saved = FALSE]
<1>1. /\ runs[r].pc = "streaming" /\ n \in 1..MaxSegments /\ n \in DOMAIN runs[r].segs
      /\ runs[r].segs[n] \in Segments /\ Ending(r).text = runs[r].segs[n].text
      /\ runs' = [runs EXCEPT ![r] = run] /\ Publish(r, <<e>>, <<>>)
      /\ UNCHANGED <<deployment, task, channel>>
  BY EndSegmentIs
<1>2. /\ runs[r] \in RunStates /\ runs[r].segs \in Seq(Segments)
      /\ run.pc = "streaming" /\ run.attempt = runs[r].attempt /\ run.segs = segs /\ run.saved = FALSE
  BY <1>1, RunFields DEF RunStates
<1>3. DOMAIN segs = DOMAIN runs[r].segs /\ \A i \in DOMAIN segs : segs[i].text = runs[r].segs[i].text
  BY <1>1, <1>2
<1> HIDE DEF run, segs
<1>4. runs'[r] = run /\ \A q \in Runs : q # r => runs'[q] = runs[q]
  BY <1>1, Unchanged
<1>5. SameTexts(runs, runs') /\ \A q \in Runs : runs'[q].attempt = runs[q].attempt
  BY <1>2, <1>3, <1>4 DEF SameTexts, TextOf
<1>6. \A q \in Runs : Kept(runs', q) <=> Kept(runs, q)
  BY <1>5 DEF Kept
<1>7. /\ TaskStored(task, runs) /\ Texts(runs) /\ deployment \in Deployments
      /\ \A q \in Runs : runs[q].pc # "waiting" => runs[q].attempt # 0
      /\ \A q \in Runs : RunStored(task, runs, q)
  BY WordsParts, Unchanged, UnstartedIs DEF TaskStored
<1>8. TaskStored(task', runs')
  <2>1. KnownItems(task'.events, task'.gen, runs')
    BY <1>1, <1>5, <1>7, KnownStays DEF TaskStored
  <2>2. ASSUME NEW q \in Runs PROVE RunStored(task', runs', q)
    <3>1. CASE q = r
      <4>1. AtWork(task', r) \/ ~Kept(runs', r)
        BY <1>1, <1>6, <1>7 DEF RunStored
      <4>2. \A i \in DOMAIN runs'[r].segs : TextOf(runs', r, i) # <<>>
        BY <1>2, <1>3, <1>4, <1>7 DEF RunStored, TextOf
      <4> QED
        BY <1>2, <1>4, <3>1, <4>1, <4>2 DEF RunStored
    <3>2. CASE q # r
      BY <1>1, <1>4, <1>5, <1>7, <3>2, RunStays
    <3> QED
      BY <3>1, <3>2
  <2>3. runs'[task.gen].attempt = runs[task.gen].attempt
    BY <1>5, Unchanged, TaskRounds
  <2> QED
    BY <1>1, <1>7, <2>1, <2>2, <2>3 DEF TaskStored
<1>9. /\ e \in Events /\ e.run = r /\ e.phase # "delta" /\ e.attempt = runs[r].attempt
  <2>1. runs[r].segs[n].text \in Seq(Tokens) /\ runs[r].pc # "waiting"
    BY <1>1 DEF Segments
  <2>2. e \in Events /\ e.run = r
    BY <1>1, <2>1, EventType
  <2> QED
    BY <2>2 DEF Event
<1> HIDE DEF e
<1>10. /\ buffer' = [buffer EXCEPT ![r] = <<>>] /\ Send(r, buffer[r] \o <<e>>)
  <2>1. <<e>> # <<>>
    OBVIOUS
  <2> QED
    BY <1>1, <2>1 DEF Publish, Gather
<1>11. /\ ReaderKeeps(sse', screen', task, runs, Wire(channel', outbox', buffer'))
       /\ WireTagged(channel', outbox', buffer', runs)
  BY <1>1, <1>9, <1>10, BoundaryWords
<1> QED
  BY <1>1, <1>5, <1>8, <1>11, GoOnWords

\* Run r has written word t to its segment n; nothing else of the runs' texts has changed.
WroteOne(rs, rs2, r, n, t) ==
    /\ \A q \in Runs : rs2[q].attempt = rs[q].attempt
    /\ \A q \in Runs : q # r => rs2[q] = rs[q]
    /\ n \in DOMAIN rs2[r].segs /\ DOMAIN rs2[r].segs = DOMAIN rs[r].segs \cup {n}
    /\ \A i \in DOMAIN rs[r].segs : i # n => TextOf(rs2, r, i) = TextOf(rs, r, i)
    /\ TextOf(rs2, r, n) = (IF n \in DOMAIN rs[r].segs THEN TextOf(rs, r, n) ELSE <<>>) \o <<t>>

\* What has not changed.
LEMMA OtherTexts ==
    ASSUME NEW rs, NEW rs2, NEW r \in Runs, NEW n, NEW t, WroteOne(rs, rs2, r, n, t),
           NEW q \in Runs, NEW i \in DOMAIN rs2[q].segs
    PROVE  \/ q = r /\ i = n
           \/ /\ ~(q = r /\ i = n) /\ i \in DOMAIN rs[q].segs
              /\ TextOf(rs2, q, i) = TextOf(rs, q, i) /\ Place(rs2, q, i) = Place(rs, q, i)
<1>1. CASE q = r
  BY <1>1 DEF WroteOne, Place
<1>2. CASE q # r
  BY <1>2 DEF WroteOne, Place, TextOf
<1> QED
  BY <1>1, <1>2

LEMMA NewText ==
    ASSUME deployment \in Deployments, NEW rs, Texts(rs), NEW rs2, NEW r \in Runs, NEW n, NEW t \in Tokens,
           WroteOne(rs, rs2, r, n, t)
    PROVE  /\ Range(TextOf(rs2, r, n))
                 = (IF n \in DOMAIN rs[r].segs THEN Range(TextOf(rs, r, n)) ELSE {}) \cup {t}
           /\ Len(TextOf(rs2, r, n)) = (IF n \in DOMAIN rs[r].segs THEN Len(TextOf(rs, r, n)) ELSE 0) + 1
<1>1. PICK new \in Seq(Tokens) : new = <<t>>
  <2>1. <<t>> \in Seq(Tokens)
    <3> DEFINE T == Tokens
    <3>1. t \in T
      OBVIOUS
    <3> HIDE DEF T
    <3>2. <<t>> \in Seq(T)
      BY <3>1
    <3> QED
      BY <3>2 DEF T
  <2> QED
    BY <2>1
<1>2. Range(new) = {t} /\ Len(new) = 1
  BY <1>1 DEF Range
<1>3. CASE n \in DOMAIN rs[r].segs
  <2>1. PICK old \in Seq(Tokens) : old = TextOf(rs, r, n)
    BY <1>3, Sizes
  <2>2. Range(old \o new) = Range(old) \cup Range(new) /\ Len(old \o new) = Len(old) + Len(new)
    BY RangeOfMore
  <2>3. TextOf(rs2, r, n) = old \o new
    BY <1>1, <1>3, <2>1 DEF WroteOne
  <2> QED
    BY <1>2, <1>3, <2>1, <2>2, <2>3
<1>4. CASE n \notin DOMAIN rs[r].segs
  <2>1. TextOf(rs2, r, n) = <<>> \o <<t>>
    BY <1>4 DEF WroteOne
  <2>2. TextOf(rs2, r, n) = new
    BY <1>1, <2>1
  <2> QED
    BY <1>2, <1>4, <2>2
<1> QED
  BY <1>3, <1>4

LEMMA OneWordMore ==
    ASSUME deployment \in Deployments, NEW rs, Texts(rs), NEW rs2, NEW r \in Runs, NEW n, NEW t \in Tokens,
           WroteOne(rs, rs2, r, n, t), t \notin WrittenBy(rs)
    PROVE  /\ WrittenBy(rs2) = WrittenBy(rs) \cup {t}
           /\ \A q \in Runs : \A i \in 1..MaxSegments :
                 Size(rs2, q, i) = Size(rs, q, i) + (IF q = r /\ i = n THEN 1 ELSE 0)
           /\ \A q \in Runs : Kept(rs2, q) <=> Kept(rs, q)
<1>1. Range(TextOf(rs2, r, n)) = (IF n \in DOMAIN rs[r].segs THEN Range(TextOf(rs, r, n)) ELSE {}) \cup {t}
  BY NewText
<1>2. ASSUME NEW x \in WrittenBy(rs2) PROVE x \in WrittenBy(rs) \cup {t}
  <2>a. PICK q \in Runs : \E i \in DOMAIN rs2[q].segs : x \in Range(TextOf(rs2, q, i))
    BY <1>2 DEF WrittenBy
  <2>1. PICK i \in DOMAIN rs2[q].segs : x \in Range(TextOf(rs2, q, i))
    BY <2>a
  <2>2. CASE q = r /\ i = n
    BY <1>1, <2>1, <2>2, TextWritten
  <2>3. CASE ~(q = r /\ i = n)
    <3>1. i \in DOMAIN rs[q].segs /\ TextOf(rs2, q, i) = TextOf(rs, q, i)
      BY <2>3, OtherTexts
    <3> QED
      BY <2>1, <3>1, TextWritten
  <2> QED
    BY <2>2, <2>3
<1>3. ASSUME NEW x \in WrittenBy(rs) \cup {t} PROVE x \in WrittenBy(rs2)
  <2>0. n \in DOMAIN rs2[r].segs
    BY DEF WroteOne
  <2>1. CASE x = t
    BY <1>1, <2>0, <2>1, TextWritten
  <2>2. CASE x \in WrittenBy(rs)
    <3>a. PICK q \in Runs : \E i \in DOMAIN rs[q].segs : x \in Range(TextOf(rs, q, i))
      BY <2>2 DEF WrittenBy
    <3>1. PICK i \in DOMAIN rs[q].segs : x \in Range(TextOf(rs, q, i))
      BY <3>a
    <3>2. i \in DOMAIN rs2[q].segs
      BY DEF WroteOne
    <3>3. CASE q = r /\ i = n
      BY <1>1, <2>0, <3>1, <3>3, TextWritten
    <3>4. CASE ~(q = r /\ i = n)
      <4>1. TextOf(rs2, q, i) = TextOf(rs, q, i)
        BY <3>2, <3>4, OtherTexts
      <4> QED
        BY <3>1, <3>2, <4>1, TextWritten
    <3> QED
      BY <3>3, <3>4
  <2> QED
    BY <1>3, <2>1, <2>2
<1>4. ASSUME NEW q \in Runs, NEW i \in 1..MaxSegments
      PROVE  Size(rs2, q, i) = Size(rs, q, i) + (IF q = r /\ i = n THEN 1 ELSE 0)
  <2>1. Size(rs, q, i) \in Nat
    BY Sizes
  <2>2. CASE q = r /\ i = n
    <3>1. Size(rs2, q, i) = Len(TextOf(rs2, r, n))
      BY <2>2 DEF WroteOne, Size, TextOf
    <3>2. Size(rs, q, i) = IF n \in DOMAIN rs[r].segs THEN Len(TextOf(rs, r, n)) ELSE 0
      BY <2>2 DEF Size, TextOf
    <3>3. Len(TextOf(rs2, r, n)) = (IF n \in DOMAIN rs[r].segs THEN Len(TextOf(rs, r, n)) ELSE 0) + 1
      BY NewText
    <3>4. Size(rs2, q, i) = Size(rs, q, i) + 1
      BY <3>1, <3>2, <3>3
    <3> QED
      BY <2>2, <3>4
  <2>3. CASE ~(q = r /\ i = n)
    <3>1. i \in DOMAIN rs2[q].segs <=> i \in DOMAIN rs[q].segs
      BY <2>3 DEF WroteOne
    <3>2. ASSUME i \in DOMAIN rs2[q].segs PROVE TextOf(rs2, q, i) = TextOf(rs, q, i)
      <4>1. PICK j \in DOMAIN rs2[q].segs : j = i
        BY <3>2
      <4>2. ~(q = r /\ j = n)
        BY <2>3, <4>1
      <4>3. j \in DOMAIN rs[q].segs /\ TextOf(rs2, q, j) = TextOf(rs, q, j)
        BY <4>2, OtherTexts
      <4> QED
        BY <4>1, <4>3
    <3>3. Size(rs2, q, i) = Size(rs, q, i)
      BY <3>1, <3>2 DEF Size, TextOf
    <3> QED
      BY <2>1, <2>3, <3>3
  <2> QED
    BY <2>2, <2>3
<1>5. \A q \in Runs : Kept(rs2, q) <=> Kept(rs, q)
  BY DEF WroteOne, Kept
<1> QED
  BY <1>2, <1>3, <1>4, <1>5

\* What was known before the word was written does not have the text with that word.
LEMMA KnownBefore ==
    ASSUME deployment \in Deployments, NEW rs, Texts(rs), NEW rs2, NEW r \in Runs, NEW n, NEW t \in Tokens,
           WroteOne(rs, rs2, r, n, t), t \notin WrittenBy(rs), NEW items, NEW g, KnownItems(items, g, rs)
    PROVE  /\ KnownItems(items, g, rs2)
           /\ \A q \in Runs : \A i \in DOMAIN rs2[q].segs :
                 HasText(items, Place(rs2, q, i), TextOf(rs2, q, i)) => ~(q = r /\ i = n)
<1>1. t \in Range(TextOf(rs2, r, n))
  BY NewText
<1>2. ASSUME NEW q \in Runs, NEW i \in DOMAIN rs2[q].segs, HasText(items, Place(rs2, q, i), TextOf(rs2, q, i))
      PROVE  ~(q = r /\ i = n)
  <2> SUFFICES ASSUME q = r, i = n PROVE FALSE
    OBVIOUS
  <2>1. Range(TextOf(rs2, r, n)) \subseteq WrittenBy(rs)
    BY <1>2 DEF HasText, KnownItems
  <2> QED
    BY <1>1, <2>1
<1>3. ASSUME NEW q \in Runs, NEW i \in DOMAIN rs2[q].segs, HasText(items, Place(rs2, q, i), TextOf(rs2, q, i))
      PROVE  q <= g
  <2>1. /\ i \in DOMAIN rs[q].segs /\ TextOf(rs2, q, i) = TextOf(rs, q, i)
        /\ Place(rs2, q, i) = Place(rs, q, i)
    <3>1. ~(q = r /\ i = n)
      BY <1>2, <1>3
    <3> QED
      BY <3>1, OtherTexts
  <2> QED
    BY <1>3, <2>1 DEF KnownItems
<1>4. WrittenBy(rs) \subseteq WrittenBy(rs2)
  BY OneWordMore
<1>5. \A id \in DOMAIN items : id[2] # 0 /\ Range(items[id].text) \subseteq WrittenBy(rs2)
  BY <1>4 DEF KnownItems
<1> QED
  BY <1>2, <1>3, <1>5 DEF KnownItems

\* What is in the sequences is in their concatenation.
LEMMA RangeOfFlatten ==
    ASSUME NEW S, NEW seqs \in Seq(Seq(S))
    PROVE  \A x : x \in Range(FlattenSeq(seqs)) <=> \E i \in 1..Len(seqs) : x \in Range(seqs[i])
<1> DEFINE Good(t) == \A x : x \in Range(FlattenSeq(t)) <=> \E i \in 1..Len(t) : x \in Range(t[i])
           G == {n \in Nat : \A t \in Seq(Seq(S)) : Len(t) = n => Good(t)}
<1>1. 0 \in G
  <2> SUFFICES ASSUME NEW t \in Seq(Seq(S)), Len(t) = 0 PROVE Good(t)
    OBVIOUS
  <2>1. t = << >>
    OBVIOUS
  <2>2. Range(<< >>) = {} /\ 1..0 = {}
    BY DEF Range
  <2> QED
    BY <2>1, <2>2, FlattenEmpty
<1>2. ASSUME NEW n \in Nat, n \in G PROVE n + 1 \in G
  <2> SUFFICES ASSUME NEW t \in Seq(Seq(S)), Len(t) = n + 1 PROVE Good(t)
    OBVIOUS
  <2>1. t # << >> /\ Len(t) - 1 = n
    OBVIOUS
  <2>2. PICK front \in Seq(Seq(S)), last \in Seq(S) :
           /\ t = Append(front, last) /\ Len(front) = n /\ last = t[n + 1]
           /\ \A i \in 1..n : front[i] = t[i]
    <3> DEFINE T == Seq(S)
    <3>1. t \in Seq(T)
      OBVIOUS
    <3> HIDE DEF T
    <3>2. PICK front \in Seq(T), last \in T :
             /\ t = Append(front, last) /\ Len(front) = Len(t) - 1 /\ last = t[Len(t)]
             /\ \A i \in 1..Len(front) : front[i] = t[i]
      BY <2>1, <3>1, FrontAndLast
    <3>3. Len(front) = n /\ Len(t) = n + 1
      BY <2>1, <3>2
    <3> QED
      BY <3>2, <3>3 DEF T
  <2>3. Good(front)
    BY <1>2, <2>2
  <2>4. FlattenSeq(t) = FlattenSeq(front) \o last
    BY <2>2, FlattenAppend
  <2>5. Range(FlattenSeq(t)) = Range(FlattenSeq(front)) \cup Range(last)
    <3>1. PICK f \in Seq(S) : f = FlattenSeq(front)
      BY FlattenType
    <3>2. Range(f \o last) = Range(f) \cup Range(last)
      BY RangeOfMore
    <3> QED
      BY <2>4, <3>1, <3>2
  <2>6. 1..(n + 1) = (1..n) \cup {n + 1}
    OBVIOUS
  <2> SUFFICES ASSUME NEW x PROVE x \in Range(FlattenSeq(t)) <=> \E i \in 1..(n + 1) : x \in Range(t[i])
    OBVIOUS
  <2>7. x \in Range(FlattenSeq(front)) <=> \E i \in 1..n : x \in Range(t[i])
    BY <2>2, <2>3
  <2> QED
    BY <2>2, <2>5, <2>6, <2>7
<1> HIDE DEF G
<1>3. Len(seqs) \in G
  <2>1. Len(seqs) \in Nat
    OBVIOUS
  <2> QED
    BY <1>1, <1>2, <2>1, SetInduction
<1> QED
  BY <1>3 DEF G

\* The texts of the segments.
LEMMA WordsOfSegments ==
    ASSUME NEW segs \in Seq(Segments)
    PROVE  Range(FlattenSeq([i \in DOMAIN segs |-> segs[i].text])) = UNION {Range(segs[i].text) : i \in DOMAIN segs}
<1> DEFINE n == Len(segs)
           S == Seq(Tokens)
           texts == [i \in 1..n |-> segs[i].text]
<1>1. n \in Nat /\ DOMAIN segs = 1..n /\ \A i \in 1..n : segs[i] \in Segments
  OBVIOUS
<1>2. \A i \in 1..n : segs[i].text \in S
  BY <1>1 DEF Segments
<1> HIDE DEF n, S
<1>3. texts \in Seq(S) /\ Len(texts) = n /\ \A i \in 1..n : texts[i] = segs[i].text
  BY <1>1, <1>2
<1>4. texts = [i \in DOMAIN segs |-> segs[i].text]
  BY <1>1
<1> HIDE DEF texts
<1>5. PICK all \in Seq(Seq(Tokens)) : all = texts
  BY <1>3 DEF S
<1>6. \A x : x \in Range(FlattenSeq(all)) <=> \E i \in 1..Len(all) : x \in Range(all[i])
  BY RangeOfFlatten
<1>7. \A x : x \in Range(FlattenSeq(texts)) <=> \E i \in DOMAIN segs : x \in Range(segs[i].text)
  BY <1>1, <1>3, <1>5, <1>6
<1> QED
  BY <1>4, <1>7

\* The next word is one that was not written yet.
LEMMA NextTokenIsNew ==
    ASSUME StreamTypeOK, Numbered(runs)
    PROVE  /\ WrittenBy(runs) \subseteq Tokens /\ IsFiniteSet(WrittenBy(runs))
           /\ NextToken = Cardinality(WrittenBy(runs)) + 1
           /\ Cardinality(WrittenBy(runs)) \in Nat /\ NextToken \notin WrittenBy(runs)
<1>1. ASSUME NEW r \in Runs
      PROVE  Range(FlattenSeq([i \in DOMAIN runs[r].segs |-> runs[r].segs[i].text]))
                = UNION {Range(TextOf(runs, r, i)) : i \in DOMAIN runs[r].segs}
  BY RunFields, WordsOfSegments DEF TextOf
<1>2. Written = WrittenBy(runs)
  <2> DEFINE A(r) == Range(FlattenSeq([i \in DOMAIN runs[r].segs |-> runs[r].segs[i].text]))
             B(r) == UNION {Range(TextOf(runs, r, i)) : i \in DOMAIN runs[r].segs}
  <2>1. \A r \in Runs : A(r) = B(r)
    BY <1>1
  <2>2. Written = UNION {A(r) : r \in Runs} /\ WrittenBy(runs) = UNION {B(r) : r \in Runs}
    BY DEF Written, WrittenBy
  <2> HIDE DEF A, B
  <2> QED
    BY <2>1, <2>2
<1>3. WrittenBy(runs) \subseteq Tokens
  <2> SUFFICES ASSUME NEW r \in Runs, NEW i \in DOMAIN runs[r].segs PROVE Range(TextOf(runs, r, i)) \subseteq Tokens
    BY DEF WrittenBy
  <2>1. runs[r].segs[i] \in Segments
    BY RunFields
  <2> QED
    BY <2>1 DEF TextOf, Segments, Range
<1>4. IsFiniteSet(Tokens)
  <2>1. 0 \in Int /\ MaxTokens \in Int
    BY Bounds, Unchanged
  <2> QED
    BY <2>1, FS_Interval DEF Tokens
<1>5. IsFiniteSet(WrittenBy(runs)) /\ Cardinality(WrittenBy(runs)) \in Nat
  BY <1>3, <1>4, FS_Subset, FS_CardinalityType
<1>6. NextToken = Cardinality(WrittenBy(runs)) + 1
  BY <1>2 DEF NextToken
<1>7. NextToken \notin 1..Cardinality(WrittenBy(runs))
  BY <1>5, <1>6
<1> QED
  BY <1>3, <1>5, <1>6, <1>7 DEF Numbered

LEMMA NumberedNext ==
    ASSUME NEW W, NEW m, IsFiniteSet(W), W \subseteq 1..Cardinality(W), m = Cardinality(W) + 1,
           NEW W2, W2 = W \cup {m}
    PROVE  W2 \subseteq 1..Cardinality(W2)
<1>1. Cardinality(W) \in Nat
  BY FS_CardinalityType
<1>2. m \notin W
  BY <1>1
<1>3. Cardinality(W2) = Cardinality(W) + 1
  BY <1>2, FS_AddElement
<1> DEFINE n == Cardinality(W)
<1> HIDE DEF n
<1>4. W \subseteq 1..n /\ m = n + 1 /\ Cardinality(W2) = n + 1 /\ n \in Nat
  BY <1>1, <1>3 DEF n
<1>5. W2 \subseteq 1..(n + 1)
  <2>1. m \in 1..(n + 1) /\ 1..n \subseteq 1..(n + 1)
    BY <1>4
  <2> QED
    BY <1>4, <2>1
<1> QED
  BY <1>4, <1>5

LEMMA TaggedGather ==
    ASSUME NEW list \in Seq(Events), NEW e \in Events, NEW rs, Tagged(list, rs), e.attempt = rs[e.run].attempt
    PROVE  Tagged(Gather(list, <<e>>), rs)
<1>1. Gather(list, <<e>>) = Coalesce(list, e)
  BY DEF Gather
<1>2. Tagged(Append(list, e), rs)
  <2>1. Range(Append(list, e)) = Range(list) \cup {e}
    BY RangeOfAppend
  <2> QED
    BY <2>1 DEF Tagged
<1>3. ASSUME list # <<>> PROVE Tagged([list EXCEPT ![Len(list)].text = @ \o e.text], rs)
  <2> DEFINE n == Len(list)
             more == [list EXCEPT ![n].text = @ \o e.text]
  <2>1. n \in 1..Len(list) /\ DOMAIN list = 1..n /\ list[n] \in Events
    BY <1>3
  <2>2. /\ DOMAIN more = DOMAIN list
        /\ \A k \in DOMAIN list : k # n => more[k] = list[k]
        /\ more[n].run = list[n].run /\ more[n].attempt = list[n].attempt
    BY <2>1 DEF Events
  <2> HIDE DEF more, n
  <2> SUFFICES ASSUME NEW k \in DOMAIN list PROVE more[k].attempt = rs[more[k].run].attempt
    BY <2>2 DEF Tagged, Range, more, n
  <2>3. list[k].attempt = rs[list[k].run].attempt
    BY DEF Tagged, Range
  <2> QED
    BY <2>2, <2>3
<1> QED
  BY <1>1, <1>2, <1>3 DEF Coalesce

\* A delta joins what a run has buffered.
Joins(left, more, e) ==
    /\ e \in Events /\ e.phase = "delta" /\ e.run \in Runs /\ AllOf(left[e.run], e.run)
    /\ more[e.run] = Gather(left[e.run], <<e>>) /\ \A q \in Runs : q # e.run => more[q] = left[q]

\* The words on the wire then.
LEMMA WireOneMore ==
    ASSUME deployment \in Deployments, NEW ch \in Seq(Seq(Events)), NEW out \in [Runs -> Seq(Events)],
           NEW left \in [Runs -> Seq(Events)], NEW more \in [Runs -> Seq(Events)],
           NEW e, Joins(left, more, e)
    PROVE  \A q \in Runs : \A i \in 1..MaxSegments :
              /\ Wire(ch, out, more)[<<q, i>>] = Wire(ch, out, left)[<<q, i>>] + Len(WordsIn(e, q, i))
              /\ Wire(ch, out, left)[<<q, i>>] \in Nat
<1> SUFFICES ASSUME NEW q \in Runs, NEW i \in 1..MaxSegments
             PROVE  /\ Wire(ch, out, more)[<<q, i>>] = Wire(ch, out, left)[<<q, i>>] + Len(WordsIn(e, q, i))
                    /\ Wire(ch, out, left)[<<q, i>>] \in Nat
  OBVIOUS
<1> DEFINE r == e.run
<1>0. /\ e \in Events /\ e.phase = "delta" /\ r \in Runs /\ AllOf(left[r], r)
      /\ more[r] = Gather(left[r], <<e>>) /\ \A p \in Runs : p # r => more[p] = left[p]
  BY DEF Joins
<1> DEFINE f == Count(FlattenSeq(ch), q, i)
           o == Count(out[q], q, i)
           b == Count(left[q], q, i)
           m == Count(more[q], q, i)
           x == Len(WordsIn(e, q, i))
<1>1. /\ Wire(ch, out, left)[<<q, i>>] = (f + o) + b /\ Wire(ch, out, more)[<<q, i>>] = (f + o) + m
      /\ f \in Nat /\ o \in Nat /\ b \in Nat /\ m \in Nat
  <2>1. Wire(ch, out, left)[<<q, i>>] = (f + o) + b /\ f \in Nat /\ o \in Nat /\ b \in Nat
    BY WireCounts
  <2>2. Wire(ch, out, more)[<<q, i>>] = (f + o) + m /\ m \in Nat
    BY WireCounts
  <2> QED
    BY <2>1, <2>2
<1>2. m = b + x /\ x \in Nat
  <2>1. x \in Nat
    BY <1>0, CountOne
  <2>2. CASE q = r
    <3>1. PICK list \in Seq(Events) : list = left[r]
      BY <1>0
    <3>2. Count(Gather(list, <<e>>), q, i) = Count(list, q, i) + Len(WordsIn(e, q, i))
      <4>1. AllOf(list, e.run) /\ e \in Events /\ e.phase = "delta"
        BY <1>0, <3>1
      <4> QED
        BY <4>1, CountGather
    <3> QED
      BY <1>0, <2>1, <2>2, <3>1, <3>2
  <2>3. CASE q # r
    <3>1. WordsIn(e, q, i) = <<>>
      BY <2>3 DEF WordsIn
    <3>2. x = 0 /\ m = b
      BY <1>0, <2>3, <3>1
    <3> HIDE DEF x, m, b
    <3> QED
      BY <1>1, <3>2
  <2> QED
    BY <2>2, <2>3
<1> DEFINE u == Wire(ch, out, left)[<<q, i>>]
           v == Wire(ch, out, more)[<<q, i>>]
<1> HIDE DEF f, o, b, m, x, u, v
<1>3. u = (f + o) + b /\ v = (f + o) + m /\ f \in Nat /\ o \in Nat /\ b \in Nat /\ m = b + x /\ x \in Nat
  BY <1>1, <1>2 DEF u, v
<1>4. v = u + x /\ u \in Nat
  BY <1>3
<1> QED
  BY <1>4 DEF u, v, x

\* A reader with the words w on the wire, and one that was just written.
LEMMA ReaderOneMore ==
    ASSUME deployment \in Deployments, NEW rs, Texts(rs), NEW rs2, NEW r \in Runs, NEW n \in 1..MaxSegments,
           NEW t \in Tokens, WroteOne(rs, rs2, r, n, t), t \notin WrittenBy(rs),
           NEW c \in Connections, NEW w \in WordCounts, NEW v, ReaderWords(c, rs, w),
           \A q \in Runs : \A i \in 1..MaxSegments :
              v[<<q, i>>] = w[<<q, i>>] + (IF q = r /\ i = n THEN 1 ELSE 0),
           Texts(rs2)
    PROVE  ReaderWords(c, rs2, v)
<1>1. c.sse.pending \in Seq(Events)
  BY ConnectionParts DEF Routes
<1>2. Tagged(c.sse.pending, rs2)
  <2> SUFFICES ASSUME NEW e \in Range(c.sse.pending) PROVE e.attempt = rs2[e.run].attempt
    BY DEF Tagged
  <2>1. e \in Events
    BY <1>1 DEF Range
  <2>2. e.run \in Runs /\ e.attempt = rs[e.run].attempt
    BY <2>1, EventFields DEF ReaderWords, Tagged
  <2> QED
    BY <2>2 DEF WroteOne
<1>3. WordsLeft(c, rs2, v)
  <2> SUFFICES ASSUME NEW q \in Runs, NEW i \in 1..MaxSegments
               PROVE  Count(c.sse.pending, q, i) + v[<<q, i>>] <= Size(rs2, q, i)
    BY DEF WordsLeft
  <2> DEFINE x == Count(c.sse.pending, q, i)
             y == w[<<q, i>>]
             z == Size(rs, q, i)
             d == IF q = r /\ i = n THEN 1 ELSE 0
  <2>1. x + y <= z /\ x \in Nat /\ y \in Nat /\ z \in Nat /\ d \in Nat
    BY <1>1, WordsAmongType, Sizes DEF ReaderWords, WordsLeft, WordCounts
  <2>2. v[<<q, i>>] = y + d
    OBVIOUS
  <2>3. Size(rs2, q, i) = z + d
    <3>1. \A p \in Runs : \A j \in 1..MaxSegments :
             Size(rs2, p, j) = Size(rs, p, j) + (IF p = r /\ j = n THEN 1 ELSE 0)
      BY OneWordMore
    <3> QED
      BY <3>1
  <2> HIDE DEF x, y, z, d
  <2>4. x + (y + d) <= z + d
    BY <2>1
  <2> QED
    BY <2>2, <2>3, <2>4 DEF x
<1>4. ASSUME Connected(c.sse)
      PROVE  /\ KnownItems(c.sse.versions, c.sse.gen, rs2)
             /\ \A q \in Runs : \A i \in DOMAIN rs2[q].segs :
                   HasText(c.sse.versions, Place(rs2, q, i), TextOf(rs2, q, i)) => ~(q = r /\ i = n)
  <2>1. KnownItems(c.sse.versions, c.sse.gen, rs)
    BY <1>4 DEF ReaderWords
  <2> QED
    BY <2>1, KnownBefore
<1>5. ASSUME Connected(c.sse), NEW q \in Runs, Kept(rs2, q), NEW i \in DOMAIN rs2[q].segs
      PROVE  Fits(c, q, Place(rs2, q, i), TextOf(rs2, q, i), v[<<q, i>>])
  <2>1. CASE ~HasText(c.sse.versions, Place(rs2, q, i), TextOf(rs2, q, i))
    BY <2>1 DEF Fits
  <2>2. CASE HasText(c.sse.versions, Place(rs2, q, i), TextOf(rs2, q, i))
    <3>1. ~(q = r /\ i = n)
      BY <1>4, <1>5, <2>2
    <3>2. i \in DOMAIN rs[q].segs /\ TextOf(rs2, q, i) = TextOf(rs, q, i) /\ Place(rs2, q, i) = Place(rs, q, i)
      BY <3>1, OtherTexts
    <3>3. Kept(rs, q)
      BY <1>5, OneWordMore
    <3>4. Fits(c, q, Place(rs, q, i), TextOf(rs, q, i), w[<<q, i>>])
      BY <1>5, <3>2, <3>3 DEF ReaderWords
    <3>5. v[<<q, i>>] = w[<<q, i>>]
      <4>1. i \in 1..MaxSegments
        BY Sizes
      <4>2. w[<<q, i>>] \in Nat
        BY <4>1 DEF WordCounts
      <4> QED
        BY <3>1, <4>1, <4>2
    <3> QED
      BY <3>2, <3>4, <3>5
  <2> QED
    BY <2>1, <2>2
<1>6. Connected(c.sse) => (~c.sse.ready => DOMAIN c.sse.versions = {})
  BY DEF ReaderWords
<1> QED
  BY <1>2, <1>3, <1>4, <1>5, <1>6 DEF ReaderWords

\* A run writes one word: it is in the record of the run, and joins what the run has buffered.
LEMMA DeltaWords ==
    ASSUME StreamTypeOK, StreamTypeOK', WordsInv, NEW r \in Runs, NEW n \in 1..MaxSegments, NEW t \in Tokens,
           t = NextToken, WroteOne(runs, runs', r, n, t),
           runs[r].pc = "streaming", runs'[r].pc = "streaming", runs'[r].saved = FALSE,
           UNCHANGED <<deployment, task>>,
           NEW e \in Events, e.phase = "delta", e.run = r, e.ordinal = n, e.text = <<t>>,
           e.attempt = runs[r].attempt,
           NEW left \in [Runs -> Seq(Events)], AllOf(left[r], r), buffer' = [left EXCEPT ![r] = Gather(@, <<e>>)],
           ReaderKeeps(sse', screen', task, runs, Wire(channel', outbox', left)),
           WireTagged(channel', outbox', left, runs)
    PROVE  WordsInv'
<1> DEFINE w == Wire(channel', outbox', left)
           v == Wire(channel', outbox', buffer')
           c == [sse |-> sse', screen |-> screen']
<1>1. /\ TaskStored(task, runs) /\ Numbered(runs) /\ Texts(runs) /\ deployment \in Deployments
      /\ t \notin WrittenBy(runs)
  BY WordsParts, NextTokenIsNew
<1>2. /\ runs' \in [Runs -> RunStates] /\ buffer' \in [Runs -> Seq(Events)] /\ outbox' \in [Runs -> Seq(Events)]
      /\ channel' \in Seq(Seq(Events)) /\ c \in Connections
      /\ \A q \in Runs : runs'[q].pc # "waiting" => runs'[q].attempt \in Runs
      /\ \A q \in Runs : Len(runs'[q].segs) <= MaxSegments
  BY TypesNext
<1>3. \A q \in Runs : Kept(runs', q) <=> Kept(runs, q)
  BY <1>1, OneWordMore
<1>4. WrittenBy(runs') = WrittenBy(runs) \cup {t}
  BY <1>1, OneWordMore
<1>5. TaskStored(task', runs')
  <2>1. KnownItems(task'.events, task'.gen, runs')
    BY <1>1, KnownBefore DEF TaskStored
  <2>2. ASSUME NEW q \in Runs PROVE RunStored(task', runs', q)
    <3>1. RunStored(task, runs, q)
      BY <1>1 DEF TaskStored
    <3>2. CASE q = r
      <4>1. AtWork(task', r) \/ ~Kept(runs', r)
        BY <1>3, <3>1, <3>2 DEF RunStored
      <4>2. ASSUME NEW i \in DOMAIN runs'[r].segs PROVE TextOf(runs', r, i) # <<>>
        <5>1. CASE i = n
          <6>1. t \in Range(TextOf(runs', r, n))
            BY <1>1, NewText
          <6>2. Range(<<>>) = {}
            BY DEF Range
          <6> QED
            BY <5>1, <6>1, <6>2
        <5>2. CASE i # n
          <6>1. i \in DOMAIN runs[r].segs /\ TextOf(runs', r, i) = TextOf(runs, r, i)
            BY <5>2 DEF WroteOne
          <6> QED
            BY <3>1, <3>2, <6>1 DEF RunStored
        <5> QED
          BY <5>1, <5>2
      <4> QED
        BY <3>2, <4>1, <4>2 DEF RunStored
    <3>3. CASE q # r
      <4>1. runs'[q] = runs[q]
        BY <3>3 DEF WroteOne
      <4> QED
        BY <1>3, <3>1, <4>1 DEF RunStored, StoredAll, TextOf, Place
    <3> QED
      BY <3>2, <3>3
  <2>3. runs'[task.gen].attempt = runs[task.gen].attempt
    BY Unchanged, TaskRounds DEF WroteOne
  <2> QED
    BY <1>1, <2>1, <2>2, <2>3 DEF TaskStored
<1>6. Numbered(runs')
  <2>1. IsFiniteSet(WrittenBy(runs)) /\ NextToken = Cardinality(WrittenBy(runs)) + 1
    BY <1>1, NextTokenIsNew
  <2> DEFINE W == WrittenBy(runs)
             W2 == WrittenBy(runs')
  <2>2. IsFiniteSet(W) /\ t = Cardinality(W) + 1 /\ W2 = W \cup {t} /\ W \subseteq 1..Cardinality(W)
    BY <1>1, <1>4, <2>1 DEF Numbered
  <2> HIDE DEF W, W2
  <2>3. W2 \subseteq 1..Cardinality(W2)
    BY <2>2, NumberedNext
  <2> QED
    BY <2>3 DEF Numbered, W2
<1>7. /\ buffer'[r] = Gather(left[r], <<e>>) /\ \A q \in Runs : q # r => buffer'[q] = left[q]
  OBVIOUS
<1>8. WireTagged(channel', outbox', buffer', runs')
  <2>1. \A events \in Seq(Events) : Tagged(events, runs) => Tagged(events, runs')
    <3> SUFFICES ASSUME NEW events \in Seq(Events), Tagged(events, runs), NEW x \in Range(events)
                 PROVE  x.attempt = runs'[x.run].attempt
      BY DEF Tagged
    <3>1. x \in Events
      BY DEF Range
    <3>2. x.run \in Runs /\ x.attempt = runs[x.run].attempt
      BY <3>1, EventFields DEF Tagged
    <3> QED
      BY <3>2 DEF WroteOne
  <2>2. Tagged(FlattenSeq(channel'), runs')
    <3>1. FlattenSeq(channel') \in Seq(Events)
      BY <1>2, FlattenType
    <3> QED
      BY <2>1, <3>1 DEF WireTagged
  <2>3. ASSUME NEW q \in Runs PROVE Tagged(outbox'[q], runs') /\ Tagged(buffer'[q], runs')
    <3>1. outbox'[q] \in Seq(Events) /\ buffer'[q] \in Seq(Events)
      BY <1>2
    <3>2. Tagged(outbox'[q], runs)
      BY DEF WireTagged
    <3>3. Tagged(buffer'[q], runs)
      <4>1. Tagged(left[q], runs)
        BY DEF WireTagged
      <4>2. CASE q = r
        <5>1. PICK list \in Seq(Events) : list = left[r]
          OBVIOUS
        <5>2. Tagged(Gather(list, <<e>>), runs)
          BY <4>1, <4>2, <5>1, TaggedGather
        <5> QED
          BY <1>7, <4>2, <5>1, <5>2
      <4>3. CASE q # r
        BY <1>7, <4>1, <4>3
      <4> QED
        BY <4>2, <4>3
    <3> QED
      BY <2>1, <3>1, <3>2, <3>3
  <2> QED
    BY <2>2, <2>3 DEF WireTagged
<1>9. ReaderWords(c, runs', v)
  <2>1. \A q \in Runs : \A i \in 1..MaxSegments : v[<<q, i>>] = w[<<q, i>>] + Len(WordsIn(e, q, i))
    <3>1. PICK ch \in Seq(Seq(Events)), out \in [Runs -> Seq(Events)], more \in [Runs -> Seq(Events)] :
             ch = channel' /\ out = outbox' /\ more = buffer'
      BY <1>2
    <3>2. more[r] = Gather(left[r], <<e>>) /\ \A q \in Runs : q # r => more[q] = left[q]
      BY <1>7, <3>1
    <3>3. Joins(left, more, e)
      BY <3>2 DEF Joins
    <3>5. \A q \in Runs : \A i \in 1..MaxSegments :
             Wire(ch, out, more)[<<q, i>>] = Wire(ch, out, left)[<<q, i>>] + Len(WordsIn(e, q, i))
      <4> SUFFICES ASSUME NEW q \in Runs, NEW i \in 1..MaxSegments
                   PROVE  Wire(ch, out, more)[<<q, i>>] = Wire(ch, out, left)[<<q, i>>] + Len(WordsIn(e, q, i))
        OBVIOUS
      <4>1. deployment \in Deployments
        BY <1>1
      <4>2. \A p \in Runs : \A j \in 1..MaxSegments :
              /\ Wire(ch, out, more)[<<p, j>>] = Wire(ch, out, left)[<<p, j>>] + Len(WordsIn(e, p, j))
              /\ Wire(ch, out, left)[<<p, j>>] \in Nat
        BY <3>3, <4>1, WireOneMore
      <4> QED
        BY <4>2
    <3>4. Wire(ch, out, more) = v /\ Wire(ch, out, left) = w
      BY <3>1
    <3> HIDE DEF v, w
    <3> QED
      BY <3>4, <3>5
  <2>2. \A q \in Runs : \A i \in 1..MaxSegments : Len(WordsIn(e, q, i)) = IF q = r /\ i = n THEN 1 ELSE 0
    BY DEF WordsIn
  <2>3. w \in WordCounts
    BY <1>1, <1>2, WireCounts
  <2>4. ReaderWords(c, runs, w)
    BY DEF ReaderKeeps
  <2>5. Texts(runs')
    BY <1>1, <1>2, <1>5, IsTexts
  <2> HIDE DEF c, v, w
  <2>6. \A q \in Runs : \A i \in 1..MaxSegments :
           v[<<q, i>>] = w[<<q, i>>] + (IF q = r /\ i = n THEN 1 ELSE 0)
    BY <2>1, <2>2
  <2>7. PICK cc \in Connections, ww \in WordCounts : cc = c /\ ww = w
    BY <1>2, <2>3
  <2>8. PICK rs, rs2, vv : rs = runs /\ rs2 = runs' /\ vv = v
    OBVIOUS
  <2>9. /\ Texts(rs) /\ Texts(rs2) /\ WroteOne(rs, rs2, r, n, t) /\ t \notin WrittenBy(rs)
        /\ ReaderWords(cc, rs, ww)
        /\ \A q \in Runs : \A i \in 1..MaxSegments :
              vv[<<q, i>>] = ww[<<q, i>>] + (IF q = r /\ i = n THEN 1 ELSE 0)
    BY <1>1, <2>4, <2>5, <2>6, <2>7, <2>8
  <2>10. ReaderWords(cc, rs2, vv)
    BY <1>1, <2>9, ReaderOneMore
  <2> QED
    BY <2>7, <2>8, <2>10
<1>10. SeenWords(sse', task', runs')
  <2>1. SeenWords(sse', task, runs)
    BY DEF ReaderKeeps
  <2>2. KnownItems(sse'.seen.events, sse'.seen.gen, runs) => KnownItems(sse'.seen.events, sse'.seen.gen, runs')
    <3> SUFFICES ASSUME NEW items, NEW g, KnownItems(items, g, runs) PROVE KnownItems(items, g, runs')
      OBVIOUS
    <3> QED
      BY <1>1, KnownBefore
  <2> QED
    BY <2>1, <2>2 DEF SeenWords
<1>11. DoneWords(sse', screen', task', runs')
  <2> SUFFICES ASSUME sse'.pc = "done" PROVE DoneWords(sse', screen', task, runs')
    BY DEF DoneWords
  <2>1. DoneWords(sse', screen', task, runs)
    BY DEF ReaderKeeps
  <2>2. task.status = "completed"
    BY <2>1 DEF DoneWords
  <2>3. ~Kept(runs, r)
    <3>1. RunStored(task, runs, r) /\ ~AtWork(task, r)
      BY <1>1, <2>2 DEF TaskStored, AtWork
    <3> QED
      BY <3>1 DEF RunStored
  <2>4. ASSUME NEW q \in Runs, Kept(runs', q), NEW i \in DOMAIN runs'[q].segs
        PROVE  Range(TextOf(runs', q, i)) \subseteq Range(screen'[Place(runs', q, i)].text)
    <3>1. Kept(runs, q) /\ q # r
      BY <1>3, <2>3, <2>4
    <3>2. runs'[q] = runs[q]
      BY <3>1 DEF WroteOne
    <3> QED
      BY <2>1, <2>4, <3>1, <3>2 DEF DoneWords, TextOf, Place
  <2> QED
    BY <2>1, <2>4 DEF DoneWords
<1> QED
  BY <1>5, <1>6, <1>8, <1>9, <1>10, <1>11, WordsNext DEF ReaderKeeps

LEMMA WriteWords ==
    ASSUME StreamTypeOK, StreamTypeOK', WireInv, WordsInv, NEW r \in Runs, Write(r) PROVE WordsInv'
<1> DEFINE n == Len(runs[r].segs)
<1>1. /\ <<NextToken>> \in Seq(Tokens) /\ runs[r].pc = "streaming" /\ UNCHANGED <<deployment, task, channel>>
      /\ n \in Nat /\ DOMAIN runs[r].segs = 1..n
  <2>1. <<NextToken>> \in Seq(Tokens) /\ runs[r].pc = "streaming" /\ UNCHANGED <<deployment, task, channel>>
    BY WriteIs
  <2>2. runs[r].segs \in Seq(Segments)
    BY RunFields
  <2> QED
    BY <2>1, <2>2
<1>2. NextToken \in Tokens
  <2>1. <<NextToken>>[1] \in Tokens
    BY <1>1
  <2> QED
    BY <2>1
<1>3. PICK t \in Tokens : t = NextToken
  BY <1>2
<1>4. /\ runs[r] \in RunStates /\ runs[r].segs \in Seq(Segments) /\ runs \in [Runs -> RunStates]
      /\ runs[r].attempt \in Runs
  BY <1>1, RunFields, Unchanged
<1>5. CASE /\ n \in 1..MaxSegments /\ Longer(r) \in Segments
           /\ Longer(r).text = runs[r].segs[n].text \o <<NextToken>>
           /\ runs' = [runs EXCEPT ![r] = [runs[r] EXCEPT !.segs = [@ EXCEPT ![n] = Longer(r)], !.saved = FALSE]]
           /\ Publish(r, <<>>, <<Event(r, "delta", n, <<NextToken>>)>>)
  <2> DEFINE segs == [runs[r].segs EXCEPT ![n] = Longer(r)]
             run == [runs[r] EXCEPT !.segs = segs, !.saved = FALSE]
             e == Event(r, "delta", n, <<NextToken>>)
  <2>1. /\ run.pc = "streaming" /\ run.attempt = runs[r].attempt /\ run.segs = segs /\ run.saved = FALSE
        /\ runs'[r] = run /\ \A q \in Runs : q # r => runs'[q] = runs[q]
    BY <1>1, <1>4, <1>5 DEF RunStates
  <2>2. /\ DOMAIN segs = 1..n /\ n \in 1..n /\ segs[n] = Longer(r)
        /\ \A i \in 1..n : i # n => segs[i] = runs[r].segs[i]
    BY <1>1, <1>4, <1>5
  <2> HIDE DEF run, segs, n
  <2>3. WroteOne(runs, runs', r, n, t)
    <3>1. /\ n \in DOMAIN runs'[r].segs /\ DOMAIN runs'[r].segs = DOMAIN runs[r].segs \cup {n}
          /\ n \in DOMAIN runs[r].segs
      BY <1>1, <2>1, <2>2
    <3>2. TextOf(runs', r, n) = TextOf(runs, r, n) \o <<t>>
      BY <1>3, <1>5, <2>1, <2>2 DEF TextOf
    <3>3. \A i \in DOMAIN runs[r].segs : i # n => TextOf(runs', r, i) = TextOf(runs, r, i)
      BY <1>1, <2>1, <2>2 DEF TextOf
    <3>4. \A q \in Runs : runs'[q].attempt = runs[q].attempt
      BY <2>1
    <3> QED
      BY <2>1, <3>1, <3>2, <3>3, <3>4 DEF WroteOne
  <2>4. /\ e \in Events /\ e.phase = "delta" /\ e.run = r /\ e.ordinal = n /\ e.text = <<t>>
        /\ e.attempt = runs[r].attempt
    <3>1. e \in Events
      BY <1>1, <1>5, EventType
    <3> QED
      BY <1>3, <3>1 DEF Event
  <2> HIDE DEF e
  <2>5. buffer' = [buffer EXCEPT ![r] = Gather(@, <<e>>)] /\ UNCHANGED <<outbox, sse, screen>>
    BY <1>5 DEF Publish, e
  <2>6. buffer \in [Runs -> Seq(Events)] /\ AllOf(buffer[r], r)
    BY Unchanged DEF WireInv, OwnEvents
  <2>7. /\ ReaderKeeps(sse', screen', task, runs, Wire(channel', outbox', buffer))
        /\ WireTagged(channel', outbox', buffer, runs)
    BY <1>1, <2>5, WordsParts
  <2> QED
    BY <1>1, <1>3, <1>5, <2>1, <2>3, <2>4, <2>5, <2>6, <2>7, DeltaWords
<1>6. CASE /\ n + 1 \in 1..MaxSegments /\ Begun \in Segments
           /\ runs' = [runs EXCEPT ![r] = [runs[r] EXCEPT !.segs = Append(@, Begun), !.saved = FALSE]]
           /\ Publish(r, <<Event(r, "start", n + 1, <<>>)>>, <<Event(r, "delta", n + 1, <<NextToken>>)>>)
  <2> DEFINE m == n + 1
             segs == Append(runs[r].segs, Begun)
             run == [runs[r] EXCEPT !.segs = segs, !.saved = FALSE]
             b == Event(r, "start", m, <<>>)
             e == Event(r, "delta", m, <<NextToken>>)
             left == [buffer EXCEPT ![r] = <<>>]
  <2>1. /\ run.pc = "streaming" /\ run.attempt = runs[r].attempt /\ run.segs = segs /\ run.saved = FALSE
        /\ runs'[r] = run /\ \A q \in Runs : q # r => runs'[q] = runs[q]
    BY <1>1, <1>4, <1>6 DEF RunStates
  <2>2. /\ DOMAIN segs = 1..m /\ m \in 1..m /\ segs[m] = Begun /\ m \notin 1..n /\ 1..m = (1..n) \cup {m}
        /\ \A i \in 1..n : segs[i] = runs[r].segs[i]
    BY <1>1, <1>4, <1>6, AppendIs
  <2>3. /\ e \in Events /\ e.phase = "delta" /\ e.run = r /\ e.ordinal = m /\ e.text = <<t>>
        /\ e.attempt = runs[r].attempt
    <3>1. e \in Events
      BY <1>1, <1>6, EventType
    <3> QED
      BY <1>3, <3>1 DEF Event
  <2>4. /\ b \in Events /\ b.phase # "delta" /\ b.run = r /\ b.attempt = runs[r].attempt
    <3>1. b \in Events
      <4>1. <<>> \in Seq(Tokens)
        OBVIOUS
      <4> QED
        BY <1>1, <1>6, <4>1, EventType
    <3> QED
      BY <3>1 DEF Event
  <2>5. Begun.text = <<t>>
    BY <1>3 DEF Begun
  <2>6. buffer' = [buffer EXCEPT ![r] = Gather(<<>>, <<e>>)] /\ Send(r, buffer[r] \o <<b>>)
    BY <1>6 DEF Publish
  <2> HIDE DEF run, segs, e, b, m, n
  <2>7. WroteOne(runs, runs', r, m, t)
    <3>1. /\ m \in DOMAIN runs'[r].segs /\ DOMAIN runs'[r].segs = DOMAIN runs[r].segs \cup {m}
          /\ m \notin DOMAIN runs[r].segs
      BY <1>1, <2>1, <2>2
    <3>2. TextOf(runs', r, m) = <<>> \o <<t>>
      BY <1>3, <2>1, <2>2, <2>5 DEF TextOf
    <3>3. \A i \in DOMAIN runs[r].segs : i # m => TextOf(runs', r, i) = TextOf(runs, r, i)
      BY <1>1, <2>1, <2>2 DEF TextOf
    <3>4. \A q \in Runs : runs'[q].attempt = runs[q].attempt
      BY <2>1
    <3> QED
      BY <2>1, <3>1, <3>2, <3>3, <3>4 DEF WroteOne
  <2>8. /\ left \in [Runs -> Seq(Events)] /\ left[r] = <<>> /\ AllOf(left[r], r)
        /\ ReaderKeeps(sse', screen', task, runs, Wire(channel', outbox', left))
        /\ WireTagged(channel', outbox', left, runs)
    BY <1>1, <2>4, <2>6, BoundaryWords
  <2>9. buffer' = [left EXCEPT ![r] = Gather(@, <<e>>)]
    <3>1. buffer \in [Runs -> Seq(Events)]
      BY Unchanged
    <3> DEFINE new == Gather(<<>>, <<e>>)
    <3> HIDE DEF new
    <3>2. [left EXCEPT ![r] = new] = [buffer EXCEPT ![r] = new]
      BY <3>1
    <3>3. [left EXCEPT ![r] = Gather(@, <<e>>)] = [left EXCEPT ![r] = new]
      BY <2>8, <3>1 DEF new
    <3> QED
      BY <2>6, <3>2, <3>3 DEF new
  <2> HIDE DEF left
  <2>10. m \in 1..MaxSegments
    BY <1>6 DEF m
  <2> QED
    BY <1>1, <1>3, <2>1, <2>3, <2>7, <2>8, <2>9, <2>10, DeltaWords
<1> QED
  BY <1>5, <1>6, WriteIs

-----------------------------------------------------------------------------
(* No word is missing: a round of the route.                               *)

\* A round that is under way, with the record that it has read.
RoundWords(c, rs, w) ==
    /\ OpenPolling(c) /\ c.sse.gen = c.sse.seen.gen /\ Holds(c, c.sse.gen, rs, w)
    /\ KnownItems(c.sse.seen.events, c.sse.gen, rs)

\* Only items of whole texts have changed on the screen.
LEMMA SameHolds ==
    ASSUME deployment \in Deployments, NEW rs, Texts(rs), NEW w, NEW g, NEW c, NEW d, Holds(c, g, rs, w),
           d.sse.pending = c.sse.pending, d.sse.versions = c.sse.versions,
           \A id \in DOMAIN d.screen : id[2] # 0 => id \in DOMAIN c.screen /\ d.screen[id] = c.screen[id]
    PROVE  Holds(d, g, rs, w)
<1>1. ASSUME NEW r \in Runs, Kept(rs, r), NEW i \in DOMAIN rs[r].segs
      PROVE  Fits(d, r, Place(rs, r, i), TextOf(rs, r, i), w[<<r, i>>])
  <2> DEFINE id == Place(rs, r, i)
  <2>1. Fits(c, r, id, TextOf(rs, r, i), w[<<r, i>>])
    BY <1>1 DEF Holds
  <2>2. id[2] # 0
    <3>1. id[2] = i
      BY PlaceIs
    <3>2. i \in 1..MaxSegments
      BY Sizes
    <3>3. i # 0
      BY <3>2, Bounds
    <3> QED
      BY <3>1, <3>3
  <2> HIDE DEF id
  <2>3. Fits(d, r, id, TextOf(rs, r, i), w[<<r, i>>])
    BY <2>1, <2>2 DEF Fits, Whole
  <2> QED
    BY <2>3 DEF id
<1> QED
  BY <1>1 DEF Holds, WordsLeft

LEMMA StartTurnWords ==
    ASSUME deployment \in Deployments, NEW rs, Texts(rs), NEW w, NEW c, Polling(c), c.sse.gen = c.sse.seen.gen,
           Holds(c, c.sse.gen, rs, w), KnownItems(c.sse.seen.events, c.sse.gen, rs),
           ~c.sse.ready => DOMAIN c.sse.versions = {}
    PROVE  RoundWords(StartTurn(c), rs, w) /\ StartTurn(c).sse.seen = c.sse.seen
<1>1. OpenPolling(StartTurn(c))
  BY StartTurnType
<1>2. CASE c.sse.ready
  BY <1>1, <1>2 DEF StartTurn, RoundWords
<1>3. CASE ~c.sse.ready
  <2> DEFINE t == c.sse.seen
             s == [c.sse EXCEPT !.ready = TRUE, !.attempt = t.attempt]
             d == StartTurn(c)
  <2>1. c.sse \in Routes
    BY ConnectionParts DEF Polling
  <2>2. d = [sse |-> s, screen |-> Reconcile(c.screen, StoredItems(t))]
    BY <1>3 DEF StartTurn
  <2>3. s.gen = c.sse.gen /\ s.seen = t /\ s.versions = c.sse.versions /\ s.pending = c.sse.pending
    BY <2>1 DEF Routes
  <2> HIDE DEF s, d
  <2>4. d.sse = s
    BY <2>2
  <2>5. \A id, text : ~HasText(d.sse.versions, id, text)
    BY <1>3, <2>3, <2>4 DEF HasText
  <2>6. Holds(d, d.sse.gen, rs, w)
    BY <2>3, <2>4, <2>5 DEF Holds, Fits, WordsLeft
  <2> QED
    BY <1>1, <2>3, <2>4, <2>6 DEF RoundWords, d
<1> QED
  BY <1>2, <1>3

LEMMA ChangeAttemptWords ==
    ASSUME deployment \in Deployments, NEW rs, Texts(rs), NEW w, NEW c, RoundWords(c, rs, w)
    PROVE  RoundWords(ChangeAttempt(c), rs, w) /\ ChangeAttempt(c).sse.seen = c.sse.seen
<1> DEFINE d == ChangeAttempt(c)
           t == c.sse.seen
           old == c.sse.attempt
<1>1. OpenPolling(d) /\ c.sse \in Routes
  BY ChangeAttemptType, PollingParts DEF RoundWords
<1>2. CASE t.attempt = old
  BY <1>2 DEF ChangeAttempt
<1>3. CASE t.attempt # old
  <2> DEFINE segmented == HasSegments(t, t.attempt)
             s == [c.sse EXCEPT !.attempt = t.attempt, !.sent = 0, !.started = FALSE, !.segmented = segmented]
             whole == WholeItem(old)
             item == [text |-> <<>>, status |-> "completed"]
             items == IF c.sse.started THEN ShowItem(c.screen, whole, item) ELSE c.screen
  <2>1. d = [sse |-> s, screen |-> items]
    BY <1>3 DEF ChangeAttempt
  <2> HIDE DEF segmented
  <2>2. s.gen = c.sse.gen /\ s.seen = t /\ s.versions = c.sse.versions /\ s.pending = c.sse.pending
    BY <1>1 DEF Routes
  <2> HIDE DEF s, d
  <2>3. d.sse = s /\ d.screen = items
    BY <2>1
  <2>4. \A id \in DOMAIN items : id[2] # 0 => id \in DOMAIN c.screen /\ items[id] = c.screen[id]
    <3>1. whole[2] = 0
      BY DEF WholeItem
    <3> HIDE DEF whole, item
    <3>2. \A id \in DOMAIN ShowItem(c.screen, whole, item) :
             id # whole => id \in DOMAIN c.screen /\ ShowItem(c.screen, whole, item)[id] = c.screen[id]
      BY ShownItem
    <3> QED
      BY <3>1, <3>2
  <2> HIDE DEF items
  <2>5. Holds(c, c.sse.gen, rs, w)
    BY DEF RoundWords
  <2>6. Holds(d, c.sse.gen, rs, w)
    BY <2>2, <2>3, <2>4, <2>5, SameHolds
  <2> QED
    BY <1>1, <2>2, <2>3, <2>6 DEF RoundWords, d
<1> QED
  BY <1>2, <1>3

LEMMA SendWholeTextWords ==
    ASSUME deployment \in Deployments, NEW rs, Texts(rs), NEW w, NEW c, RoundWords(c, rs, w)
    PROVE  RoundWords(SendWholeText(c), rs, w) /\ SendWholeText(c).sse.seen = c.sse.seen
<1> DEFINE d == SendWholeText(c)
           t == c.sse.seen
           whole == WholeItem(c.sse.attempt)
           rest == SubSeq(t.partial, c.sse.sent + 1, Len(t.partial))
           size == Len(t.partial)
           item == [text |-> <<>>, status |-> "inProgress"]
           begun == IF c.sse.started THEN c.screen ELSE ShowItem(c.screen, whole, item)
           s == [c.sse EXCEPT !.sent = size, !.started = TRUE]
<1>1. OpenPolling(d) /\ c.sse \in Routes /\ c.screen \in ItemMaps /\ c.sse.attempt \in Runs /\ t \in Tasks
  BY SendWholeTextType, PollingParts DEF RoundWords
<1>2. CASE c.sse.segmented \/ rest = <<>>
  BY <1>2 DEF SendWholeText
<1>3. CASE ~(c.sse.segmented \/ rest = <<>>)
  <2>1. d = [sse |-> s, screen |-> ShowDelta(begun, whole, rest)]
    BY <1>3 DEF SendWholeText
  <2>2. begun \in ItemMaps /\ rest \in Seq(Tokens)
    <3>1. whole \in Ids
      BY <1>1, Bounds DEF WholeItem, Ids
    <3>2. item \in Segments
      BY DEF Segments
    <3>3. t.partial \in Seq(Tokens) /\ c.sse.sent \in Nat
      BY <1>1 DEF Tasks, Routes
    <3> DEFINE p == t.partial
    <3> HIDE DEF p
    <3>4. p \in Seq(Tokens)
      BY <3>3 DEF p
    <3>5. SubSeq(p, c.sse.sent + 1, Len(p)) \in Seq(Tokens)
      BY <3>3, <3>4
    <3> QED
      BY <1>1, <3>1, <3>2, <3>5, ShowItemType DEF p
  <2> HIDE DEF size
  <2>3. s.gen = c.sse.gen /\ s.seen = t /\ s.versions = c.sse.versions /\ s.pending = c.sse.pending
    BY <1>1 DEF Routes
  <2>4. \A id \in DOMAIN begun : id # whole => id \in DOMAIN c.screen /\ begun[id] = c.screen[id]
    <3> HIDE DEF whole, item
    <3>1. \A id \in DOMAIN ShowItem(c.screen, whole, item) :
             id # whole => id \in DOMAIN c.screen /\ ShowItem(c.screen, whole, item)[id] = c.screen[id]
      BY ShownItem
    <3> QED
      BY <3>1
  <2> HIDE DEF s, d, rest, begun
  <2>5. d.sse = s /\ d.screen = ShowDelta(begun, whole, rest)
    BY <2>1
  <2>6. \A id \in DOMAIN d.screen : id[2] # 0 => id \in DOMAIN c.screen /\ d.screen[id] = c.screen[id]
    <3>1. \A id \in DOMAIN ShowDelta(begun, whole, rest) :
             id # whole => id \in DOMAIN begun /\ ShowDelta(begun, whole, rest)[id] = begun[id]
      BY <2>2, ShownDelta
    <3>2. whole[2] = 0
      BY DEF WholeItem
    <3> HIDE DEF whole
    <3> QED
      BY <2>4, <2>5, <3>1, <3>2
  <2>7. Holds(c, c.sse.gen, rs, w)
    BY DEF RoundWords
  <2>8. Holds(d, c.sse.gen, rs, w)
    BY <2>3, <2>5, <2>6, <2>7, SameHolds
  <2> QED
    BY <1>1, <2>3, <2>5, <2>8 DEF RoundWords, d
<1> QED
  BY <1>2, <1>3

\* Events have moved, and no more words are on the way than before.
LEMMA MovedHolds ==
    ASSUME deployment \in Deployments, NEW rs, Texts(rs), NEW w \in WordCounts, NEW v \in WordCounts, NEW g,
           NEW c \in Connections, NEW d \in Connections, Holds(c, g, rs, w),
           d.sse.versions = c.sse.versions, d.screen = c.screen, Tagged(d.sse.pending, rs),
           \A r \in Runs : \A i \in 1..MaxSegments :
              Count(d.sse.pending, r, i) + v[<<r, i>>] <= Count(c.sse.pending, r, i) + w[<<r, i>>]
    PROVE  Holds(d, g, rs, v)
<1>1. c.sse.pending \in Seq(Events) /\ d.sse.pending \in Seq(Events) /\ c.screen \in ItemMaps
  BY ConnectionParts DEF Routes
<1>2. ASSUME NEW r \in Runs, NEW i \in 1..MaxSegments
      PROVE  /\ Count(d.sse.pending, r, i) \in Nat /\ Count(c.sse.pending, r, i) \in Nat
             /\ v[<<r, i>>] \in Nat /\ w[<<r, i>>] \in Nat /\ Size(rs, r, i) \in Nat
             /\ Count(d.sse.pending, r, i) + v[<<r, i>>] <= Count(c.sse.pending, r, i) + w[<<r, i>>]
  <2>1. Count(d.sse.pending, r, i) \in Nat /\ Count(c.sse.pending, r, i) \in Nat
    BY <1>1, WordsAmongType
  <2>2. Size(rs, r, i) \in Nat
    BY Sizes
  <2> QED
    BY <2>1, <2>2 DEF WordCounts
<1>3. WordsLeft(d, rs, v)
  <2> SUFFICES ASSUME NEW r \in Runs, NEW i \in 1..MaxSegments
               PROVE  Count(d.sse.pending, r, i) + v[<<r, i>>] <= Size(rs, r, i)
    BY DEF WordsLeft
  <2> DEFINE a == Count(d.sse.pending, r, i)
             b == Count(c.sse.pending, r, i)
             x == v[<<r, i>>]
             y == w[<<r, i>>]
             z == Size(rs, r, i)
  <2>1. /\ a \in Nat /\ b \in Nat /\ x \in Nat /\ y \in Nat /\ z \in Nat
        /\ a + x <= b + y
    BY <1>2
  <2>2. b + y <= z
    BY DEF Holds, WordsLeft
  <2> HIDE DEF a, b, x, y, z
  <2>3. a + x <= z
    BY <2>1, <2>2
  <2> QED
    BY <2>3 DEF a, x, z
<1>4. ASSUME NEW r \in Runs, Kept(rs, r), NEW i \in DOMAIN rs[r].segs
      PROVE  Fits(d, r, Place(rs, r, i), TextOf(rs, r, i), v[<<r, i>>])
  <2> DEFINE id == Place(rs, r, i)
             text == TextOf(rs, r, i)
  <2>1. Fits(c, r, id, text, w[<<r, i>>])
    BY <1>4 DEF Holds
  <2>2. id[2] = i
    BY PlaceIs
  <2>3. i \in 1..MaxSegments /\ text \in Seq(Tokens)
    BY Sizes
  <2> HIDE DEF id, text
  <2> SUFFICES ASSUME HasText(d.sse.versions, id, text), id \in DOMAIN d.screen, ~Whole(d, id, text)
               PROVE  Len(d.screen[id].text) + (Count(d.sse.pending, r, id[2]) + v[<<r, i>>]) <= Len(text)
    BY DEF Fits, id, text
  <2>4. Len(c.screen[id].text) + (Count(c.sse.pending, r, i) + w[<<r, i>>]) <= Len(text)
    BY <2>1, <2>2 DEF Fits, Whole
  <2>5. Len(c.screen[id].text) \in Nat /\ Len(text) \in Nat
    <3>1. c.screen[id] \in Segments
      BY <1>1, ItemMapIs
    <3>2. c.screen[id].text \in Seq(Tokens)
      BY <3>1 DEF Segments
    <3> QED
      BY <2>3, <3>2
  <2> DEFINE a == Count(d.sse.pending, r, i)
             b == Count(c.sse.pending, r, i)
             x == v[<<r, i>>]
             y == w[<<r, i>>]
             l == Len(c.screen[id].text)
             z == Len(text)
  <2>6. /\ a \in Nat /\ b \in Nat /\ x \in Nat /\ y \in Nat /\ a + x <= b + y
        /\ l \in Nat /\ z \in Nat /\ l + (b + y) <= z
    BY <1>2, <2>3, <2>4, <2>5
  <2> HIDE DEF a, b, x, y, l, z
  <2>7. l + (a + x) <= z
    BY <2>6
  <2> QED
    BY <2>2, <2>7 DEF a, x, l, z
<1> QED
  BY <1>3, <1>4 DEF Holds

LEMMA DrainWords ==
    ASSUME deployment \in Deployments, NEW rs, Texts(rs), NEW v \in WordCounts, NEW c, RoundWords(c, rs, v)
    PROVE  RoundWords(Drain(c), rs, v) /\ Drain(c).sse.seen = c.sse.seen
<1> DEFINE empty == [c.sse EXCEPT !.pending = <<>>]
           begun == [c EXCEPT !.sse.pending = <<>>]
           drained == ListenAll(c.sse, begun, c.sse.pending)
           left == drained.sse.pending
           excess == IF Len(left) > PendingCap THEN Len(left) - PendingCap ELSE 0
           kept == SubSeq(left, excess + 1, Len(left))
           s == [drained.sse EXCEPT !.pending = kept]
           w == [p \in Runs \X (1..MaxSegments) |-> Count(c.sse.pending, p[1], p[2]) + v[p]]
           d == Drain(c)
<1>1. OpenPolling(d)
  BY DrainType DEF RoundWords
<1>2. /\ c \in Connections /\ c.sse \in Routes /\ c.screen \in ItemMaps /\ c.sse.ready /\ c.sse.seen \in Tasks
      /\ c.sse.attempt \in Runs /\ c = [sse |-> c.sse, screen |-> c.screen]
  BY PollingParts DEF RoundWords, OpenPolling, Polling
<1>3. empty \in Routes /\ SameGate(empty, c.sse) /\ empty.versions = c.sse.versions /\ empty.pending = <<>>
  <2>1. <<>> \in Seq(Events)
    OBVIOUS
  <2> QED
    BY <1>2, <2>1 DEF Routes, SameGate
<1>4. begun = [sse |-> empty, screen |-> c.screen]
  BY <1>2
<1> HIDE DEF empty
<1>5. begun \in Connections
  BY <1>2, <1>3, <1>4, ConnectionIs DEF SameGate
<1>6. begun.sse = empty /\ begun.screen = c.screen
  BY <1>4
<1> HIDE DEF begun
<1>7. c.sse.pending \in Seq(Events) /\ c.sse.gen \in Nat /\ Holds(c, c.sse.gen, rs, v)
  <2>1. c.sse.gen \in Nat
    BY <1>2, TaskRounds DEF RoundWords
  <2> QED
    BY <1>2, <2>1 DEF RoundWords, Routes
<1>8. drained \in Connections /\ SameGate(drained.sse, empty)
  BY <1>5, <1>6, <1>7, FoldListenType
<1>9. /\ w \in WordCounts
      /\ \A r \in Runs : \A i \in 1..MaxSegments : w[<<r, i>>] = Count(c.sse.pending, r, i) + v[<<r, i>>]
  <2>1. ASSUME NEW p \in Runs \X (1..MaxSegments) PROVE Count(c.sse.pending, p[1], p[2]) + v[p] \in Nat
    <3>1. Count(c.sse.pending, p[1], p[2]) \in Nat
      BY <1>7, WordsAmongType
    <3> QED
      BY <3>1 DEF WordCounts
  <2>2. \A r \in Runs : \A i \in 1..MaxSegments : w[<<r, i>>] = Count(c.sse.pending, r, i) + v[<<r, i>>]
    OBVIOUS
  <2> QED
    BY <2>1, <2>2 DEF WordCounts
<1>10. w = [p \in Runs \X (1..MaxSegments) |-> Count(c.sse.pending, p[1], p[2]) + v[p]]
  OBVIOUS
<1> HIDE DEF w
<1>11. Holds(begun, c.sse.gen, rs, w)
  <2>1. Tagged(begun.sse.pending, rs)
    BY <1>3, <1>6, TaggedNone
  <2>2. ASSUME NEW r \in Runs, NEW i \in 1..MaxSegments
        PROVE  Count(begun.sse.pending, r, i) + w[<<r, i>>] <= Count(c.sse.pending, r, i) + v[<<r, i>>]
    <3> DEFINE a == Count(begun.sse.pending, r, i)
               b == Count(c.sse.pending, r, i)
               x == v[<<r, i>>]
               y == w[<<r, i>>]
    <3>1. a = 0
      BY <1>3, <1>6, CountNone
    <3>2. b \in Nat /\ x \in Nat /\ y = b + x
      BY <1>7, <1>9, WordsAmongType DEF WordCounts
    <3> HIDE DEF a, b, x, y
    <3>3. a + y <= b + x
      BY <3>1, <3>2
    <3> QED
      BY <3>3 DEF a, b, x, y
  <2>3. begun.sse.versions = c.sse.versions
    BY <1>3, <1>6
  <2> QED
    BY <1>2, <1>5, <1>6, <1>7, <1>9, <2>1, <2>2, <2>3, MovedHolds
<1>12. Tagged(c.sse.pending, rs)
  BY <1>7 DEF Holds
<1>13. Holds(drained, c.sse.gen, rs, v)
  <2>1. PICK gate : gate = c.sse
    OBVIOUS
  <2>2. PICK events \in Seq(Events) : events = c.sse.pending
    BY <1>7
  <2>3. Holds(ListenAll(gate, begun, events), gate.gen, rs, v)
    BY <1>5, <1>7, <1>9, <1>10, <1>11, <1>12, <2>1, <2>2, FoldHolds
  <2> QED
    BY <2>1, <2>2, <2>3
<1>14. d = [drained EXCEPT !.sse.pending = kept]
  BY DEF Drain, begun
<1> HIDE DEF drained
<1>15. drained.sse \in Routes /\ drained = [sse |-> drained.sse, screen |-> drained.screen]
  BY <1>8, ConnectionParts
<1>16. left \in Seq(Events)
  BY <1>15 DEF Routes
<1>17. /\ kept \in Seq(Events) /\ Range(kept) \subseteq Range(left)
       /\ \A r, i : Count(kept, r, i) <= Count(left, r, i)
  <2>1. Len(left) \in Nat /\ excess \in Nat
    BY <1>16, TaskStreamAssumption
  <2> HIDE DEF left, excess
  <2>2. PICK l \in Seq(Events) : l = left
    BY <1>16
  <2>3. PICK n \in Nat : n = excess
    BY <2>1
  <2> DEFINE k == SubSeq(l, n + 1, Len(l))
  <2>4. k \in Seq(Events) /\ \A i \in DOMAIN k : n + i \in DOMAIN l /\ k[i] = l[n + i]
    OBVIOUS
  <2>5. \A r, i : Count(k, r, i) <= Count(l, r, i)
    BY CountEnd
  <2>6. k = kept
    BY <2>2, <2>3
  <2> HIDE DEF k
  <2>7. Range(k) \subseteq Range(l)
    BY <2>4 DEF Range
  <2> HIDE DEF kept
  <2> QED
    BY <2>2, <2>4, <2>5, <2>6, <2>7
<1> HIDE DEF kept, d
<1>18. d = [sse |-> s, screen |-> drained.screen]
  BY <1>14, <1>15
<1>19. s.pending = kept /\ SameGate(s, drained.sse) /\ s.versions = drained.sse.versions
  BY <1>15 DEF Routes, SameGate
<1> HIDE DEF s
<1>20. d.sse = s /\ d.screen = drained.screen
  BY <1>18
<1>21. s.seen = c.sse.seen /\ s.gen = c.sse.gen
  BY <1>3, <1>8, <1>19 DEF SameGate
<1>22. Tagged(d.sse.pending, rs)
  BY <1>13, <1>17, <1>19, <1>20 DEF Holds, Tagged
<1>23. Holds(d, c.sse.gen, rs, v)
  <2>1. ASSUME NEW r \in Runs, NEW i \in 1..MaxSegments
        PROVE  Count(d.sse.pending, r, i) + v[<<r, i>>] <= Count(drained.sse.pending, r, i) + v[<<r, i>>]
    <3> DEFINE a == Count(d.sse.pending, r, i)
               b == Count(drained.sse.pending, r, i)
               x == v[<<r, i>>]
    <3>1. a <= b
      BY <1>17, <1>19, <1>20
    <3>2. a \in Nat /\ b \in Nat /\ x \in Nat
      BY <1>16, <1>17, <1>19, <1>20, WordsAmongType DEF WordCounts
    <3> HIDE DEF a, b, x
    <3>3. a + x <= b + x
      BY <3>1, <3>2
    <3> QED
      BY <3>3 DEF a, b, x
  <2>2. d \in Connections
    BY <1>1 DEF OpenPolling, Polling
  <2>3. d.sse.versions = drained.sse.versions
    BY <1>19, <1>20
  <2> QED
    BY <1>8, <1>13, <1>20, <1>22, <2>1, <2>2, <2>3, MovedHolds
<1> QED
  BY <1>1, <1>20, <1>21, <1>23 DEF RoundWords, d

\* The items of the record: each is shown as it is stored, or was sent like that before.
LEMMA SentItems ==
    ASSUME NEW c, OpenPolling(c), NEW stored, stored = StoredItems(c.sse.seen)
    PROVE  LET d == SendItems(c) IN
           /\ d.sse.seen = c.sse.seen /\ d.sse.gen = c.sse.gen /\ d.sse.pending = c.sse.pending
           /\ \A id \in DOMAIN stored :
                 /\ id \in DOMAIN d.sse.versions /\ d.sse.versions[id] = stored[id]
                 /\ \/ id \in DOMAIN d.screen /\ d.screen[id] = stored[id]
                    \/ /\ id \in DOMAIN c.sse.versions /\ c.sse.versions[id] = stored[id]
                       /\ id \in DOMAIN d.screen => id \in DOMAIN c.screen /\ d.screen[id] = c.screen[id]
           /\ \A id : id \notin DOMAIN stored =>
                 /\ id \in DOMAIN d.screen => id \in DOMAIN c.screen /\ d.screen[id] = c.screen[id]
                 /\ id \in DOMAIN d.sse.versions =>
                       id \in DOMAIN c.sse.versions /\ d.sse.versions[id] = c.sse.versions[id]
<1> DEFINE sent == c.sse.versions
           news == {id \in DOMAIN stored : id \notin DOMAIN sent \/ sent[id] # stored[id]}
           versions == [id \in DOMAIN sent \cup news |-> IF id \in news THEN stored[id] ELSE sent[id]]
           items == [id \in DOMAIN c.screen \cup news |->
                        IF id \in news THEN stored[id] ELSE c.screen[id]]
           s == [c.sse EXCEPT !.versions = versions]
           d == SendItems(c)
<1>1. c.sse \in Routes
  BY PollingParts
<1>2. d = [sse |-> s, screen |-> items]
  BY DEF SendItems
<1>3. \A id \in DOMAIN stored : id \in DOMAIN versions /\ versions[id] = stored[id]
  OBVIOUS
<1>4. \A id \in DOMAIN stored :
         \/ id \in DOMAIN items /\ items[id] = stored[id]
         \/ /\ id \in DOMAIN sent /\ sent[id] = stored[id]
            /\ id \in DOMAIN items => id \in DOMAIN c.screen /\ items[id] = c.screen[id]
  OBVIOUS
<1>5. \A id : id \notin DOMAIN stored =>
         /\ id \in DOMAIN items => id \in DOMAIN c.screen /\ items[id] = c.screen[id]
         /\ id \in DOMAIN versions => id \in DOMAIN sent /\ versions[id] = sent[id]
  OBVIOUS
<1> HIDE DEF versions, items
<1>6. /\ s.seen = c.sse.seen /\ s.gen = c.sse.gen /\ s.pending = c.sse.pending /\ s.versions = versions
  BY <1>1 DEF Routes
<1> HIDE DEF s, d, news
<1>7. d.sse = s /\ d.screen = items
  BY <1>2
<1> QED
  BY <1>3, <1>4, <1>5, <1>6, <1>7 DEF d

\* A stored item takes the place of what is shown unless that is longer.
LEMMA ReconcileIs ==
    ASSUME NEW items \in ItemMaps, NEW stored \in ItemMaps
    PROVE  LET all == Reconcile(items, stored) IN
           /\ DOMAIN stored \subseteq DOMAIN all
           /\ \A id \in DOMAIN all :
                 \/ /\ id \in DOMAIN items /\ all[id].text = items[id].text
                    /\ id \in DOMAIN stored => Len(items[id].text) > Len(stored[id].text)
                 \/ id \in DOMAIN stored /\ all[id].text = stored[id].text
<1> DEFINE kept == {id \in DOMAIN items \ DOMAIN stored : items[id].status = "inProgress"}
           all == [id \in DOMAIN stored \cup kept |->
                      IF id \in kept THEN items[id]
                      ELSE IF id \in DOMAIN items /\ Len(items[id].text) > Len(stored[id].text)
                           THEN [stored[id] EXCEPT !.text = items[id].text]
                           ELSE stored[id]]
<1>1. CASE DOMAIN stored = {}
  BY <1>1 DEF Reconcile
<1>2. CASE DOMAIN stored # {}
  <2>1. Reconcile(items, stored) = all
    BY <1>2 DEF Reconcile
  <2>2. ASSUME NEW id \in DOMAIN all
        PROVE  \/ /\ id \in DOMAIN items /\ all[id].text = items[id].text
                  /\ id \in DOMAIN stored => Len(items[id].text) > Len(stored[id].text)
               \/ id \in DOMAIN stored /\ all[id].text = stored[id].text
    <3>1. CASE id \in kept
      BY <3>1
    <3>2. CASE id \notin kept /\ id \in DOMAIN items /\ Len(items[id].text) > Len(stored[id].text)
      <4> DEFINE new == items[id].text
                 item == [stored[id] EXCEPT !.text = new]
      <4>1. id \in DOMAIN stored /\ stored[id] \in Segments
        BY <3>2, ItemMapIs
      <4>2. all[id] = item
        BY <3>2, <4>1
      <4> HIDE DEF new, all
      <4>3. item.text = new
        BY <4>1 DEF Segments
      <4> QED
        BY <3>2, <4>2, <4>3 DEF new
    <3>3. CASE id \notin kept /\ ~(id \in DOMAIN items /\ Len(items[id].text) > Len(stored[id].text))
      BY <3>3
    <3> QED
      BY <3>1, <3>2, <3>3
  <2>3. DOMAIN stored \subseteq DOMAIN all
    OBVIOUS
  <2> HIDE DEF all
  <2> QED
    BY <2>1, <2>2, <2>3
<1> QED
  BY <1>1, <1>2

\* What was sent is the record's.
AllSent(c) ==
    \A id \in DOMAIN c.sse.seen.events :
        id \in DOMAIN c.sse.versions /\ c.sse.versions[id] = c.sse.seen.events[id]

LEMMA SendItemsWords ==
    ASSUME deployment \in Deployments, NEW rs, NEW w, NEW c, RoundWords(c, rs, w), c.sse.seen.status # "completed"
    PROVE  LET d == SendItems(c) IN
           RoundWords(d, rs, w) /\ AllSent(d) /\ d.sse.seen = c.sse.seen
<1> DEFINE d == SendItems(c)
           stored == c.sse.seen.events
<1>1. OpenPolling(d)
  BY SendItemsType DEF RoundWords
<1>2. stored = StoredItems(c.sse.seen)
  BY DEF StoredItems
<1>3. /\ d.sse.seen = c.sse.seen /\ d.sse.gen = c.sse.gen /\ d.sse.pending = c.sse.pending
      /\ \A id \in DOMAIN stored :
            /\ id \in DOMAIN d.sse.versions /\ d.sse.versions[id] = stored[id]
            /\ \/ id \in DOMAIN d.screen /\ d.screen[id] = stored[id]
               \/ /\ id \in DOMAIN c.sse.versions /\ c.sse.versions[id] = stored[id]
                  /\ id \in DOMAIN d.screen => id \in DOMAIN c.screen /\ d.screen[id] = c.screen[id]
      /\ \A id : id \notin DOMAIN stored =>
            /\ id \in DOMAIN d.screen => id \in DOMAIN c.screen /\ d.screen[id] = c.screen[id]
            /\ id \in DOMAIN d.sse.versions =>
                  id \in DOMAIN c.sse.versions /\ d.sse.versions[id] = c.sse.versions[id]
  BY <1>2, SentItems DEF RoundWords
<1> HIDE DEF d
<1>4. Holds(c, c.sse.gen, rs, w) /\ KnownItems(stored, c.sse.gen, rs)
  BY DEF RoundWords
<1>5. AllSent(d)
  BY <1>3 DEF AllSent
<1> HIDE DEF stored
<1>6. KnownItems(d.sse.versions, c.sse.gen, rs)
  <2>1. ASSUME NEW id \in DOMAIN d.sse.versions
        PROVE  \/ id \in DOMAIN stored /\ d.sse.versions[id] = stored[id]
               \/ id \in DOMAIN c.sse.versions /\ d.sse.versions[id] = c.sse.versions[id]
    BY <1>3
  <2> QED
    BY <1>4, <2>1 DEF Holds, KnownItems, HasText
<1>7. ASSUME NEW r \in Runs, Kept(rs, r), NEW i \in DOMAIN rs[r].segs
      PROVE  Fits(d, r, Place(rs, r, i), TextOf(rs, r, i), w[<<r, i>>])
  <2> DEFINE id == Place(rs, r, i)
             text == TextOf(rs, r, i)
  <2>1. Fits(c, r, id, text, w[<<r, i>>])
    BY <1>4, <1>7 DEF Holds
  <2> HIDE DEF id, text
  <2>2. Fits(d, r, id, text, w[<<r, i>>])
    <3>1. CASE id \in DOMAIN stored /\ id \in DOMAIN d.screen /\ d.screen[id] = stored[id]
      BY <1>3, <3>1 DEF Fits, HasText, Whole
    <3>2. CASE id \in DOMAIN stored /\ ~(id \in DOMAIN d.screen /\ d.screen[id] = stored[id])
      BY <1>3, <2>1, <3>2 DEF Fits, HasText, Whole
    <3>3. CASE id \notin DOMAIN stored
      BY <1>3, <2>1, <3>3 DEF Fits, HasText, Whole
    <3> QED
      BY <3>1, <3>2, <3>3
  <2> QED
    BY <2>2 DEF id, text
<1>8. Holds(d, d.sse.gen, rs, w)
  BY <1>3, <1>4, <1>6, <1>7 DEF Holds, WordsLeft
<1>9. RoundWords(d, rs, w)
  BY <1>1, <1>3, <1>8 DEF RoundWords
<1> QED
  BY <1>3, <1>5, <1>9 DEF d

LEMMA UpdateTurnWords ==
    ASSUME deployment \in Deployments, NEW rs, NEW w, NEW c, RoundWords(c, rs, w), AllSent(c),
           c.sse.seen.status # "completed"
    PROVE  RoundWords(UpdateTurn(c), rs, w) /\ UpdateTurn(c).sse.seen = c.sse.seen
<1> DEFINE d == UpdateTurn(c)
           stored == c.sse.seen.events
           items == Reconcile(c.screen, stored)
           s == [c.sse EXCEPT !.last = c.sse.seen]
<1>1. OpenPolling(d) /\ c.sse \in Routes /\ c.screen \in ItemMaps /\ stored \in ItemMaps
  <2>1. OpenPolling(d)
    BY UpdateTurnType DEF RoundWords
  <2>2. c.sse \in Routes /\ c.screen \in ItemMaps /\ c.sse.seen \in Tasks
    BY PollingParts DEF RoundWords
  <2> QED
    BY <2>1, <2>2, TaskRounds
<1>2. d = [sse |-> s, screen |-> items]
  BY DEF StoredItems, UpdateTurn
<1>3. s.seen = c.sse.seen /\ s.gen = c.sse.gen /\ s.pending = c.sse.pending /\ s.versions = c.sse.versions
  BY <1>1 DEF Routes
<1> HIDE DEF s, d
<1>4. d.sse = s /\ d.screen = items
  BY <1>2
<1>5. \A id \in DOMAIN items :
         \/ id \in DOMAIN c.screen /\ items[id].text = c.screen[id].text
         \/ id \in DOMAIN stored /\ items[id].text = stored[id].text
  BY <1>1, ReconcileIs
<1>6. Holds(c, c.sse.gen, rs, w) /\ \A id \in DOMAIN stored : c.sse.versions[id] = stored[id]
  BY DEF RoundWords, AllSent
<1> HIDE DEF items, stored
<1>7. ASSUME NEW r \in Runs, Kept(rs, r), NEW i \in DOMAIN rs[r].segs
      PROVE  Fits(d, r, Place(rs, r, i), TextOf(rs, r, i), w[<<r, i>>])
  <2> DEFINE id == Place(rs, r, i)
             text == TextOf(rs, r, i)
  <2>1. Fits(c, r, id, text, w[<<r, i>>])
    BY <1>6, <1>7 DEF Holds
  <2> HIDE DEF id, text
  <2>2. Fits(d, r, id, text, w[<<r, i>>])
    BY <1>3, <1>4, <1>5, <1>6, <2>1 DEF Fits, HasText, Whole
  <2> QED
    BY <2>2 DEF id, text
<1>8. Holds(d, d.sse.gen, rs, w)
  BY <1>3, <1>4, <1>6, <1>7 DEF Holds, WordsLeft
<1> QED
  BY <1>1, <1>3, <1>4, <1>8 DEF RoundWords, d

\* The last round: it has read the end, with all that is stored.
LEMMA LastRoundWords ==
    ASSUME deployment \in Deployments, NEW rs, Texts(rs), NEW w \in WordCounts, NEW c, RoundWords(c, rs, w),
           NEW t \in Tasks, t = c.sse.seen, t.status = "completed", TaskStored(t, rs),
           NEW d, d = UpdateTurn(SendItems(c))
    PROVE  /\ DOMAIN StoredItems(t) \subseteq DOMAIN d.screen
           /\ ~t.streamed => 0 \in Range(d.screen[WholeItem(t.attempt)].text)
           /\ \A r \in Runs : Kept(rs, r) => \A i \in DOMAIN rs[r].segs :
                 Range(TextOf(rs, r, i)) \subseteq Range(d.screen[Place(rs, r, i)].text)
<1> DEFINE b == SendItems(c)
           stored == StoredItems(t)
           whole == WholeItem(t.attempt)
<1>1. /\ stored \in ItemMaps /\ b.screen \in ItemMaps /\ c.screen \in ItemMaps
  <2>1. OpenPolling(b) /\ OpenPolling(c)
    BY SendItemsType DEF RoundWords
  <2> HIDE DEF b, stored
  <2> QED
    BY <2>1, StoredItemsType, PollingParts DEF stored
<1>2. d.screen = Reconcile(b.screen, stored)
  <2>1. b.sse.seen = c.sse.seen
    BY SentItems DEF RoundWords
  <2> QED
    BY <2>1 DEF UpdateTurn
<1>3. \A id \in DOMAIN stored :
         \/ id \in DOMAIN b.screen /\ b.screen[id] = stored[id]
         \/ /\ id \in DOMAIN c.sse.versions /\ c.sse.versions[id] = stored[id]
            /\ id \in DOMAIN b.screen => id \in DOMAIN c.screen /\ b.screen[id] = c.screen[id]
  BY SentItems DEF RoundWords
<1>4. /\ DOMAIN stored \subseteq DOMAIN d.screen
      /\ \A id \in DOMAIN d.screen :
            \/ /\ id \in DOMAIN b.screen /\ d.screen[id].text = b.screen[id].text
               /\ id \in DOMAIN stored => Len(b.screen[id].text) > Len(stored[id].text)
            \/ id \in DOMAIN stored /\ d.screen[id].text = stored[id].text
  BY <1>1, <1>2, ReconcileIs
<1>5. /\ t.streamed => stored = t.events
      /\ ~t.streamed => whole \in DOMAIN stored /\ stored[whole].text = <<0>>
      /\ \A id \in DOMAIN t.events : id # whole => id \in DOMAIN stored /\ stored[id] = t.events[id]
  BY DEF StoredItems, Put
<1>6. whole[2] = 0
  BY DEF WholeItem
<1> HIDE DEF b, stored, whole
<1>7. Holds(c, c.sse.gen, rs, w)
  BY DEF RoundWords
<1>8. ASSUME ~t.streamed PROVE 0 \in Range(d.screen[whole].text)
  <2>1. whole \notin DOMAIN c.sse.versions
    BY <1>6, <1>7 DEF Holds, KnownItems
  <2>2. d.screen[whole].text = <<0>>
    BY <1>3, <1>4, <1>5, <1>8, <2>1
  <2> QED
    BY <2>2 DEF Range
<1>9. ASSUME NEW r \in Runs, Kept(rs, r), NEW i \in DOMAIN rs[r].segs
      PROVE  Range(TextOf(rs, r, i)) \subseteq Range(d.screen[Place(rs, r, i)].text)
  <2> DEFINE id == Place(rs, r, i)
             text == TextOf(rs, r, i)
             wait == Count(c.sse.pending, r, i)
             left == w[<<r, i>>]
  <2>1. Fits(c, r, id, text, left)
    BY <1>7, <1>9 DEF Holds
  <2>2. id[2] = i
    BY PlaceIs
  <2>3. i \in 1..MaxSegments /\ text \in Seq(Tokens)
    BY Sizes
  <2>4. wait \in Nat /\ left \in Nat
    <3>1. c.sse.pending \in Seq(Events)
      BY PollingParts DEF RoundWords, Routes
    <3> QED
      BY <2>3, <3>1, WordsAmongType DEF WordCounts
  <2>5. HasText(t.events, id, text)
    <3>1. RunStored(t, rs, r) /\ ~AtWork(t, r)
      BY DEF TaskStored, AtWork
    <3>2. rs[r].pc # "waiting"
      BY <3>1 DEF RunStored, Unstarted
    <3>3. StoredAll(t, rs, r)
      BY <1>9, <3>1, <3>2 DEF RunStored
    <3> QED
      BY <3>3 DEF StoredAll
  <2> HIDE DEF id, text
  <2>6. id \in DOMAIN stored /\ stored[id].text = text /\ id \in DOMAIN d.screen
    <3>1. i # 0
      BY <2>3, Bounds
    <3> QED
      BY <1>4, <1>5, <1>6, <2>2, <2>5, <3>1 DEF HasText
  <2>7. CASE d.screen[id].text = text
    BY <2>7 DEF id, text
  <2>8. CASE d.screen[id].text # text
    <3>1. /\ id \in DOMAIN b.screen /\ d.screen[id].text = b.screen[id].text
          /\ Len(b.screen[id].text) > Len(text) /\ b.screen[id].text # text
      BY <1>4, <2>6, <2>8
    <3>2. /\ HasText(c.sse.versions, id, text) /\ id \in DOMAIN c.screen /\ b.screen[id] = c.screen[id]
      BY <1>3, <2>6, <3>1 DEF HasText
    <3>3. ~(Len(c.screen[id].text) + (wait + left) <= Len(text))
      <4> DEFINE l == Len(c.screen[id].text)
                 n == Len(text)
      <4>1. l \in Nat /\ n \in Nat
        <5>1. c.screen[id] \in Segments
          BY <1>1, <3>2, ItemMapIs
        <5>2. c.screen[id].text \in Seq(Tokens)
          BY <5>1 DEF Segments
        <5> QED
          BY <2>3, <5>2
      <4>2. l > n
        BY <3>1, <3>2
      <4> HIDE DEF l, n, wait, left
      <4>3. ~(l + (wait + left) <= n)
        BY <2>4, <4>1, <4>2
      <4> QED
        BY <4>3 DEF l, n
    <3>4. Whole(c, id, text)
      BY <2>1, <2>2, <3>2, <3>3 DEF Fits
    <3>5. Range(text) \subseteq Range(d.screen[id].text)
      BY <3>1, <3>2, <3>4 DEF Whole
    <3> QED
      BY <3>5 DEF id, text
  <2> QED
    BY <2>7, <2>8
<1> QED
  BY <1>4, <1>8, <1>9 DEF stored, whole

LEMMA PollHandleWords ==
    ASSUME StreamTypeOK, StreamTypeOK', WireInv, WordsInv, PollHandle PROVE WordsInv'
<1> DEFINE c0 == [sse |-> [sse EXCEPT !.gen = sse.seen.gen], screen |-> screen]
           c1 == StartTurn(c0)
           c2 == ChangeAttempt(c1)
           c3 == SendWholeText(c2)
           c4 == Drain(c3)
           c5 == SendItems(c4)
           end == IF Ended(sse) THEN "done" ELSE "reading"
           t == sse.seen
           w == Wire(channel, outbox, buffer)
<1>1. /\ sse.pc = "handling" /\ UNCHANGED <<deployment, storeVars, wireVars>>
      /\ \E c \in {UpdateTurn(c5), c5} :
            /\ Ended(sse) => c = UpdateTurn(c5)
            /\ sse' = [c.sse EXCEPT !.pc = end, !.seen = NoTask] /\ screen' = c.screen
  BY DEF PollHandle
<1>2. /\ deployment \in Deployments /\ t \in Tasks /\ task \in Tasks
      /\ sse \in Routes /\ screen \in ItemMaps /\ (sse.ready => sse.attempt \in Runs)
  BY <1>1, Unchanged, ConnectionIs DEF ReaderOK
<1>3. /\ ReaderKeeps(sse, screen, task, runs, w) /\ TaskStored(task, runs) /\ Texts(runs) /\ w \in WordCounts
      /\ [sse |-> sse, screen |-> screen] \in Connections
  BY WordsParts
<1>4. /\ sse.gen <= t.gen /\ t.gen <= task.gen /\ KnownItems(t.events, t.gen, runs)
      /\ t.status = "completed" => t = task
  BY <1>1, <1>3 DEF ReaderKeeps, SeenWords
<1>5. RoundWords(c1, runs, w) /\ c1.sse.seen = t
  <2> DEFINE g == t.gen
             s == [sse EXCEPT !.gen = g]
  <2>1. g \in 0..MaxRuns /\ g \in Nat /\ sse.gen \in Nat
    <3>1. g \in Runs /\ g \in Nat
      BY <1>2, TaskRounds
    <3>2. sse.gen \in 0..MaxRuns
      BY <1>2 DEF Routes
    <3> QED
      BY <1>2, <3>1, <3>2, Bounds
  <2> HIDE DEF g
  <2>2. /\ s \in Routes /\ s.ready = sse.ready /\ s.attempt = sse.attempt /\ s.seen = t
        /\ s.gen = g /\ s.versions = sse.versions /\ s.pending = sse.pending
    BY <1>2, <2>1 DEF Routes
  <2>3. c0 = [sse |-> s, screen |-> screen]
    BY DEF g
  <2> HIDE DEF s, c0
  <2>4. c0.sse = s /\ c0.screen = screen /\ Polling(c0)
    <3>1. c0.sse = s /\ c0.screen = screen /\ c0 \in Connections
      BY <1>2, <2>2, <2>3, ConnectionIs
    <3> QED
      BY <1>2, <2>2, <3>1 DEF Polling
  <2> DEFINE old == [sse |-> sse, screen |-> screen]
  <2>5. Holds(old, sse.gen, runs, w) /\ (~sse.ready => DOMAIN sse.versions = {})
    <3>1. ReaderWords(old, runs, w)
      BY <1>3 DEF ReaderKeeps
    <3>2. Connected(old.sse) /\ old.sse = sse
      BY <1>1 DEF Connected
    <3> HIDE DEF old
    <3> QED
      BY <3>1, <3>2, ReaderIs
  <2>6. old.sse = sse /\ old.screen = screen
    OBVIOUS
  <2> HIDE DEF old
  <2>7. Holds(c0, sse.gen, runs, w)
    BY <1>2, <1>3, <2>2, <2>4, <2>5, <2>6, SameHolds
  <2>8. KnownItems(c0.sse.versions, g, runs)
    <3>1. PICK h \in Nat : h = sse.gen
      BY <2>1
    <3>2. PICK items : items = c0.sse.versions
      OBVIOUS
    <3>3. KnownItems(items, h, runs) /\ h <= g
      BY <1>4, <2>7, <3>1, <3>2 DEF Holds, g
    <3>4. KnownItems(items, g, runs)
      BY <1>2, <2>1, <3>3, KnownLater
    <3> QED
      BY <3>2, <3>4
  <2>9. Holds(c0, c0.sse.gen, runs, w)
    BY <2>2, <2>4, <2>7, <2>8 DEF Holds
  <2>10. c0.sse.gen = c0.sse.seen.gen /\ KnownItems(c0.sse.seen.events, c0.sse.gen, runs)
         /\ (~c0.sse.ready => DOMAIN c0.sse.versions = {})
    BY <1>4, <2>2, <2>4, <2>5 DEF g
  <2> QED
    BY <1>2, <1>3, <2>2, <2>4, <2>9, <2>10, StartTurnWords
<1> HIDE DEF c1, w
<1>6. RoundWords(c2, runs, w) /\ c2.sse.seen = t
  BY <1>2, <1>3, <1>5, ChangeAttemptWords
<1> HIDE DEF c2
<1>7. RoundWords(c3, runs, w) /\ c3.sse.seen = t
  BY <1>2, <1>3, <1>6, SendWholeTextWords
<1> HIDE DEF c3
<1>8. RoundWords(c4, runs, w) /\ c4.sse.seen = t
  BY <1>2, <1>3, <1>7, DrainWords
<1> HIDE DEF c4
<1>9. ReaderKeeps(sse', screen', task, runs, w)
  <2>1. CASE ~Ended(sse)
    <3>1. t.status # "completed" /\ end = "reading"
      BY <2>1 DEF Ended
    <3>2. RoundWords(c5, runs, w) /\ AllSent(c5) /\ c5.sse.seen = t
      BY <1>2, <1>8, <3>1, SendItemsWords
    <3> HIDE DEF c5
    <3>3. RoundWords(UpdateTurn(c5), runs, w) /\ UpdateTurn(c5).sse.seen = t
      BY <1>2, <3>1, <3>2, UpdateTurnWords
    <3>4. PICK c : /\ RoundWords(c, runs, w) /\ c.sse.seen = t
                   /\ sse' = [c.sse EXCEPT !.pc = "reading", !.seen = NoTask] /\ screen' = c.screen
      BY <1>1, <3>1, <3>2, <3>3
    <3>5. c.sse \in Routes /\ c.sse.ready /\ c.sse.gen = t.gen /\ Holds(c, c.sse.gen, runs, w)
      BY <3>4, PollingParts DEF RoundWords
    <3>6. /\ sse'.pc = "reading" /\ sse'.ready /\ sse'.gen = c.sse.gen
          /\ sse'.versions = c.sse.versions /\ sse'.pending = c.sse.pending
      BY <3>4, <3>5 DEF Routes
    <3> DEFINE d == [sse |-> sse', screen |-> screen']
    <3>7. d.sse = sse' /\ d.screen = screen'
      OBVIOUS
    <3> HIDE DEF d
    <3>8. Holds(d, c.sse.gen, runs, w)
      BY <1>2, <1>3, <3>4, <3>5, <3>6, <3>7, SameHolds
    <3>9. ReaderWords(d, runs, w)
      BY <3>6, <3>7, <3>8 DEF ReaderWords, Holds
    <3>10. SeenWords(sse', task, runs) /\ DoneWords(sse', screen', task, runs)
      BY <1>4, <3>5, <3>6 DEF SeenWords, DoneWords
    <3> QED
      BY <3>9, <3>10 DEF ReaderKeeps, d
  <2>2. CASE Ended(sse)
    <3>1. t.status = "completed" /\ t = task /\ end = "done"
      BY <1>4, <2>2 DEF Ended
    <3>2. PICK c : c = UpdateTurn(c5) /\ sse' = [c.sse EXCEPT !.pc = "done", !.seen = NoTask] /\ screen' = c.screen
      BY <1>1, <2>2, <3>1
    <3>3. /\ DOMAIN StoredItems(task) \subseteq DOMAIN c.screen
          /\ ~task.streamed => 0 \in Range(c.screen[WholeItem(task.attempt)].text)
          /\ \A r \in Runs : Kept(runs, r) => \A i \in DOMAIN runs[r].segs :
                Range(TextOf(runs, r, i)) \subseteq Range(c.screen[Place(runs, r, i)].text)
      <4>1. PICK k : k = task
        OBVIOUS
      <4>2. k \in Tasks /\ k = c4.sse.seen /\ k.status = "completed" /\ TaskStored(k, runs)
        BY <1>2, <1>3, <1>8, <3>1, <4>1
      <4>3. /\ DOMAIN StoredItems(k) \subseteq DOMAIN c.screen
            /\ ~k.streamed => 0 \in Range(c.screen[WholeItem(k.attempt)].text)
            /\ \A r \in Runs : Kept(runs, r) => \A i \in DOMAIN runs[r].segs :
                  Range(TextOf(runs, r, i)) \subseteq Range(c.screen[Place(runs, r, i)].text)
        BY <1>2, <1>3, <1>8, <3>2, <4>2, LastRoundWords
      <4> QED
        BY <4>1, <4>3
    <3>4. OpenPolling(c4) /\ OpenPolling(c5)
      BY <1>2, <1>8, SendItemsType DEF RoundWords
    <3>5. c5.sse.pending = c4.sse.pending
      BY <3>4, SentItems
    <3> HIDE DEF c5
    <3>6. c.sse \in Routes /\ c.sse.pending = c5.sse.pending
      <4>1. OpenPolling(c)
        BY <1>2, <3>2, <3>4, UpdateTurnType
      <4>2. c.sse = [c5.sse EXCEPT !.last = c5.sse.seen] /\ c5.sse \in Routes
        BY <3>2, <3>4, PollingParts DEF UpdateTurn
      <4>3. c.sse.pending = c5.sse.pending
        BY <4>2 DEF Routes
      <4> QED
        BY <4>1, <4>3, PollingParts
    <3>7. sse'.pc = "done" /\ sse'.pending = c4.sse.pending
      BY <3>2, <3>5, <3>6 DEF Routes
    <3>8. Holds(c4, c4.sse.gen, runs, w)
      BY <1>8 DEF RoundWords
    <3>9. ReaderWords([sse |-> sse', screen |-> screen'], runs, w)
      BY <3>7, <3>8 DEF ReaderWords, Holds, Connected, WordsLeft
    <3>10. SeenWords(sse', task, runs) /\ DoneWords(sse', screen', task, runs)
      BY <3>1, <3>2, <3>3, <3>7 DEF SeenWords, DoneWords, Connected
    <3> QED
      BY <3>9, <3>10 DEF ReaderKeeps
  <2> QED
    BY <2>1, <2>2
<1> QED
  BY <1>1, <1>9, ReaderStepWords DEF w

LEMMA InitWords == Init => WordsInv
<1> SUFFICES ASSUME Init PROVE WordsInv
  OBVIOUS
<1>1. /\ task.status = "queued" /\ task.events = <<>> /\ DOMAIN task.events = {}
      /\ channel = <<>> /\ sse = Closed /\ deployment \in Deployments
      /\ \A r \in Runs : runs[r] = Unstarted /\ outbox[r] = <<>> /\ buffer[r] = <<>>
  BY DEF Init
<1>2. Unstarted.pc = "waiting" /\ DOMAIN Unstarted.segs = {}
  BY DEF Unstarted
<1>3. \A r \in Runs : runs[r].pc = "waiting" /\ DOMAIN runs[r].segs = {}
  BY <1>1, <1>2
<1>4. TaskStored(task, runs)
  BY <1>1, <1>3, NothingKnown DEF TaskStored, RunStored
<1>5. Numbered(runs)
  BY <1>3 DEF Numbered, WrittenBy
<1>6. \A r \in Runs : Tagged(outbox[r], runs) /\ Tagged(buffer[r], runs)
  BY <1>1, TaggedNone
<1>7. WireTagged(channel, outbox, buffer, runs)
  BY <1>1, <1>6, FlattenEmpty, TaggedNone DEF WireTagged
<1>8. sse.pc = "closed" /\ sse.pending = <<>>
  BY <1>1 DEF Closed
<1>9. ASSUME NEW r \in Runs, NEW i \in 1..MaxSegments
      PROVE  Count(sse.pending, r, i) + Wire(channel, outbox, buffer)[<<r, i>>] <= Size(runs, r, i)
  <2>1. Count(sse.pending, r, i) = 0
    BY <1>8, CountNone
  <2>2. /\ Count(FlattenSeq(channel), r, i) = 0 /\ Count(outbox[r], r, i) = 0 /\ Count(buffer[r], r, i) = 0
    BY <1>1, CountNone, FlattenEmpty
  <2>3. Wire(channel, outbox, buffer)[<<r, i>>]
           = (Count(FlattenSeq(channel), r, i) + Count(outbox[r], r, i)) + Count(buffer[r], r, i)
    BY DEF Wire
  <2>4. Size(runs, r, i) = 0
    BY <1>3 DEF Size
  <2>5. (0 + 0) + 0 = 0 /\ 0 + 0 <= 0
    OBVIOUS
  <2> QED
    BY <2>1, <2>2, <2>3, <2>4, <2>5
<1>10. ReaderWords([sse |-> sse, screen |-> screen], runs, Wire(channel, outbox, buffer))
  <2>1. Tagged(sse.pending, runs)
    BY <1>8, TaggedNone
  <2> QED
    BY <1>8, <1>9, <2>1 DEF ReaderWords, WordsLeft, Connected
<1>11. SeenWords(sse, task, runs) /\ DoneWords(sse, screen, task, runs)
  BY <1>8 DEF SeenWords, DoneWords, Connected
<1> QED
  BY <1>4, <1>5, <1>7, <1>10, <1>11 DEF WordsInv

LEMMA StepWords ==
    ASSUME StreamTypeOK, StreamTypeOK', WireInv, WordsInv, [Next]_vars PROVE WordsInv'
<1>1. CASE UNCHANGED vars
  <2>1. UNCHANGED <<deployment, storeVars, wireVars>> /\ UNCHANGED <<sse, screen>>
    BY <1>1 DEF vars
  <2>2. ReaderKeeps(sse', screen', task, runs, Wire(channel, outbox, buffer))
    BY <2>1, WordsParts
  <2> QED
    BY <2>1, <2>2, ReaderStepWords
<1>2. CASE Claim \/ TakeOver
  BY <1>2, ClaimWords, TakeOverWords
<1>3. ASSUME NEW r \in Runs, RunStep(r) \/ WorkerDies(r)
      PROVE  WordsInv'
  BY <1>3, WriteWords, EndSegmentWords, CheckpointWords, FinishWords, WorkerDiesWords DEF RunStep
<1>4. ASSUME NEW r \in Runs, WireStep(r)
      PROVE  WordsInv'
  BY <1>4, FlushTickWords, PublishMessageWords DEF WireStep
<1>5. CASE BridgeMessage
  BY <1>5, BridgeMessageWords
<1>6. CASE Connect \/ PollRead \/ PollHandle
  BY <1>6, ConnectWords, PollReadWords, PollHandleWords
<1> QED
  BY <1>1, <1>2, <1>3, <1>4, <1>5, <1>6 DEF Next

\* When the stream of a turn has ended (turn/completed), no word is missing from the screen:
\* every stored item is there, the result among them if it was not streamed, and of every run
\* that was not taken over each segment with every word that it wrote, in one process or with
\* a bridge, with messages lost, workers dying and the client connecting again.
THEOREM NoWordIsMissing == SafetySpec => []NoWordMissing
<1>1. Init => StreamTypeOK /\ WireInv /\ WordsInv
  BY InitTypes, InitSays, InitWords
<1>2. StreamTypeOK /\ WireInv /\ WordsInv /\ [Next]_vars => (StreamTypeOK /\ WireInv /\ WordsInv)'
  BY StepKeepsTypes, StepSays, StepWords
<1>3. WordsInv => NoWordMissing
  <2> SUFFICES ASSUME WordsInv, sse.pc = "done"
               PROVE  /\ DOMAIN StoredItems(task) \subseteq DOMAIN screen
                      /\ ~task.streamed => 0 \in Range(screen[WholeItem(task.attempt)].text)
                      /\ \A r \in Runs : NotTakenOver(r) =>
                            \A i \in DOMAIN runs[r].segs :
                               Range(runs[r].segs[i].text)
                                  \subseteq Range(screen[SegmentItem(runs[r].attempt, i)].text)
    BY DEF NoWordMissing
  <2>1. DoneWords(sse, screen, task, runs)
    BY DEF WordsInv
  <2> QED
    BY <2>1 DEF DoneWords, NotTakenOver, Kept, TextOf, Place
<1> QED
  BY <1>1, <1>2, <1>3, PTL DEF SafetySpec
=============================================================================
