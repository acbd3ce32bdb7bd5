-------------------------- MODULE PinIngestProofs --------------------------
(***************************************************************************)
(* A result finds its own pin, a pin that cooks has something coming, and  *)
(* texts are of what they stand for, for any number of paths, contents,    *)
(* pins, verbs, edits and sessions.                                        *)
(***************************************************************************)
EXTENDS PinIngest, WellFoundedInduction, TLAPS

-----------------------------------------------------------------------------
(* Induction, and sequences *)

\* A set of numbers has a least one.
LEMMA Least ==
  ASSUME NEW B, B \subseteq Nat, B # {}
  PROVE  \E n \in B : \A m \in B : n <= m
<1>1. PICK n \in B : \A m \in B : ~ (<<m, n>> \in OpToRel(<, Nat))
  BY WFMin, NatLessThanWellFounded
<1>2. \A m \in B : ~ (m < n)
  BY <1>1, Zenon DEF OpToRel
<1>3. \A m \in B : m \in Nat /\ n \in Nat
  OBVIOUS
<1>4. QED
  BY <1>2, <1>3

\* Nothing is the first to fail.
LEMMA Induct ==
  ASSUME NEW N \in Nat, NEW B, B \subseteq 0 .. N, 0 \notin B,
         \A n \in 0 .. N - 1 : n \notin B => n + 1 \notin B
  PROVE  B = {}
<1> SUFFICES ASSUME B # {} PROVE FALSE
  OBVIOUS
<1>0. B \subseteq Nat
  OBVIOUS
<1>1. PICK n \in B : \A m \in B : n <= m
  BY <1>0, Least
<1>2. n \in 1 .. N /\ n - 1 \in 0 .. N - 1
  OBVIOUS
<1>3. n - 1 \notin B
  BY <1>1, <1>2
<1>4. (n - 1) + 1 = n
  BY <1>2
<1>5. QED
  BY <1>2, <1>3, <1>4

LEMMA ElementsOfAppend ==
  ASSUME NEW S, NEW s \in Seq(S), NEW e \in S
  PROVE  Append(s, e) \in Seq(S) /\ ToSet(Append(s, e)) = ToSet(s) \cup {e}
<1>1. Append(s, e) \in Seq(S) /\ Len(Append(s, e)) = Len(s) + 1 /\ Len(s) \in Nat
  OBVIOUS
<1>2. DOMAIN s = 1 .. Len(s) /\ DOMAIN Append(s, e) = 1 .. Len(s) + 1
  BY <1>1
<1>3. /\ \A i \in 1 .. Len(s) : Append(s, e)[i] = s[i]
      /\ Append(s, e)[Len(s) + 1] = e
  OBVIOUS
<1>4. \A i \in 1 .. Len(s) + 1 : i \in 1 .. Len(s) \/ i = Len(s) + 1
  BY <1>1
<1>5. Len(s) + 1 \in 1 .. Len(s) + 1 /\ \A i \in 1 .. Len(s) : i \in 1 .. Len(s) + 1
  BY <1>1
<1>6. QED
  BY <1>1, <1>2, <1>3, <1>4, <1>5 DEF ToSet

LEMMA ElementsOfBoth ==
  ASSUME NEW S, NEW s \in Seq(S), NEW t \in Seq(S)
  PROVE  s \o t \in Seq(S) /\ ToSet(s \o t) = ToSet(s) \cup ToSet(t)
<1>1. /\ s \o t \in Seq(S) /\ Len(s \o t) = Len(s) + Len(t)
      /\ Len(s) \in Nat /\ Len(t) \in Nat
  OBVIOUS
<1>2. /\ DOMAIN s = 1 .. Len(s) /\ DOMAIN t = 1 .. Len(t)
      /\ DOMAIN (s \o t) = 1 .. Len(s) + Len(t)
  BY <1>1
<1>3. /\ \A i \in 1 .. Len(s) : (s \o t)[i] = s[i]
      /\ \A i \in 1 .. Len(t) : (s \o t)[Len(s) + i] = t[i]
  OBVIOUS
<1>4. \A i \in 1 .. Len(s) + Len(t) :
        i \in 1 .. Len(s) \/ (i - Len(s) \in 1 .. Len(t) /\ i = Len(s) + (i - Len(s)))
  BY <1>1
<1>5. ToSet(s \o t) \subseteq ToSet(s) \cup ToSet(t)
  BY <1>2, <1>3, <1>4 DEF ToSet
<1>6. /\ \A i \in 1 .. Len(s) : i \in 1 .. Len(s) + Len(t)
      /\ \A i \in 1 .. Len(t) : Len(s) + i \in 1 .. Len(s) + Len(t)
  BY <1>1
<1>7. ToSet(s) \subseteq ToSet(s \o t) /\ ToSet(t) \subseteq ToSet(s \o t)
  BY <1>2, <1>3, <1>6 DEF ToSet
<1>8. QED
  BY <1>1, <1>5, <1>7

LEMMA ElementsOfHead ==
  ASSUME NEW S, NEW s \in Seq(S), s # <<>>
  PROVE  /\ Head(s) \in S /\ Tail(s) \in Seq(S)
         /\ ToSet(s) = {Head(s)} \cup ToSet(Tail(s))
<1>1. /\ Tail(s) \in Seq(S) /\ Len(Tail(s)) = Len(s) - 1
      /\ Len(s) \in Nat \ {0} /\ Head(s) = s[1]
  OBVIOUS
<1>2. /\ DOMAIN s = 1 .. Len(s) /\ DOMAIN Tail(s) = 1 .. Len(s) - 1
  BY <1>1
<1>3. \A i \in 1 .. Len(s) - 1 : Tail(s)[i] = s[i + 1]
  OBVIOUS
<1>4. \A i \in 1 .. Len(s) : i = 1 \/ (i - 1 \in 1 .. Len(s) - 1 /\ i = (i - 1) + 1)
  BY <1>1
<1>5. 1 \in 1 .. Len(s) /\ \A i \in 1 .. Len(s) - 1 : i + 1 \in 1 .. Len(s)
  BY <1>1
<1>6. s[1] \in S
  BY <1>5, <1>2
<1>7. ASSUME NEW i \in 1 .. Len(s)
      PROVE  s[i] = Head(s) \/ s[i] \in ToSet(Tail(s))
  <2>1. CASE i = 1
    BY <2>1, <1>1
  <2>2. CASE i - 1 \in 1 .. Len(s) - 1 /\ i = (i - 1) + 1
    <3>1. s[i] = Tail(s)[i - 1]
      BY <2>2, <1>3
    <3>2. QED
      BY <3>1, <2>2, <1>2 DEF ToSet
  <2>3. QED
    BY <2>1, <2>2, <1>4
<1>8. {Head(s)} \cup ToSet(Tail(s)) \subseteq ToSet(s)
  BY <1>1, <1>2, <1>3, <1>5 DEF ToSet
<1>9. QED
  BY <1>1, <1>2, <1>6, <1>7, <1>8 DEF ToSet

LEMMA Removed ==
  ASSUME NEW S, NEW s \in Seq(S), NEW i \in DOMAIN s
  PROVE  /\ RemoveAt(s, i) \in Seq(S) /\ Len(RemoveAt(s, i)) = Len(s) - 1
         /\ \A k \in DOMAIN RemoveAt(s, i) :
              /\ k \in 1 .. Len(s) - 1
              /\ RemoveAt(s, i)[k] = s[IF k < i THEN k ELSE k + 1]
<1> DEFINE before == SubSeq(s, 1, i - 1)
           after  == SubSeq(s, i + 1, Len(s))
<1>1. Len(s) \in Nat /\ i \in 1 .. Len(s)
  OBVIOUS
<1>2. /\ before \in Seq(S) /\ Len(before) = i - 1
      /\ \A k \in 1 .. i - 1 : before[k] = s[k]
  BY <1>1
<1>3. /\ after \in Seq(S) /\ Len(after) = Len(s) - i
      /\ \A k \in 1 .. Len(s) - i : after[k] = s[i + k]
  BY <1>1
<1> HIDE DEF before, after
<1>4. /\ before \o after \in Seq(S) /\ Len(before \o after) = Len(s) - 1
      /\ \A k \in 1 .. i - 1 : (before \o after)[k] = before[k]
      /\ \A k \in 1 .. Len(s) - i : (before \o after)[i - 1 + k] = after[k]
  BY <1>1, <1>2, <1>3
<1>5. ASSUME NEW k \in 1 .. Len(s) - 1
      PROVE  (before \o after)[k] = s[IF k < i THEN k ELSE k + 1]
  <2>1. CASE k < i
    BY <2>1, <1>1, <1>2, <1>4
  <2>2. CASE ~(k < i)
    <3>1. k - i + 1 \in 1 .. Len(s) - i /\ i - 1 + (k - i + 1) = k /\ i + (k - i + 1) = k + 1
      BY <2>2, <1>1
    <3> DEFINE m == k - i + 1
    <3>2. (before \o after)[i - 1 + m] = after[m] /\ after[m] = s[i + m]
      BY <3>1, <1>3, <1>4
    <3>3. QED
      BY <2>2, <3>1, <3>2
  <2>3. QED
    BY <2>1, <2>2
<1>6. RemoveAt(s, i) = before \o after
  BY DEF RemoveAt, before, after
<1>7. DOMAIN (before \o after) = 1 .. Len(s) - 1
  BY <1>1, <1>4
<1>8. QED
  BY <1>4, <1>5, <1>6, <1>7


-----------------------------------------------------------------------------
(* The jobs a kick asks for *)

Wanting(ps, kind, n) == {i \in 1 .. n : Wants(ps, ps[i], kind)}

Wish(ps, kind, i) == IF Wants(ps, ps[i], kind) THEN <<JobFor(ps[i], kind)>> ELSE <<>>

\* g is the loop's result after each of its first n turns.
Looped(ps, kind, n, g) ==
  g = [i \in 0 .. n |-> IF i = 0 THEN <<>> ELSE g[i - 1] \o Wish(ps, kind, i)]

LEMMA LoopDefined ==
  ASSUME NEW ps, NEW kind, NEW N \in Nat
  PROVE  \E g : Looped(ps, kind, N, g)
<1> DEFINE B == {n \in 0 .. N : ~ \E g : Looped(ps, kind, n, g)}
<1>1. B \subseteq 0 .. N
  OBVIOUS
<1>2. 0 \notin B
  <2>1. Looped(ps, kind, 0, [i \in 0 .. 0 |-> <<>>])
    BY DEF Looped
  <2>2. QED
    BY <2>1
<1>3. ASSUME NEW n \in 0 .. N - 1, n \notin B
      PROVE  n + 1 \notin B
  <2>0. n \in Nat /\ n + 1 \in 0 .. n + 1 /\ n + 1 # 0
    OBVIOUS
  <2>1. PICK g : Looped(ps, kind, n, g)
    BY <1>3
  <2> DEFINE h == [i \in 0 .. n + 1 |-> IF i = n + 1 THEN g[n] \o Wish(ps, kind, n + 1)
                                                     ELSE g[i]]
             k == [i \in 0 .. n + 1 |-> IF i = 0 THEN <<>> ELSE h[i - 1] \o Wish(ps, kind, i)]
  <2>2. \A i \in 0 .. n : h[i] = g[i]
    BY <2>0
  <2>3. \A i \in 1 .. n + 1 : i - 1 \in 0 .. n
    BY <2>0
  <2>4. \A i \in 0 .. n : g[i] = IF i = 0 THEN <<>> ELSE g[i - 1] \o Wish(ps, kind, i)
    BY <2>1 DEF Looped
  <2>5. h[n + 1] = g[n] \o Wish(ps, kind, n + 1)
    BY <2>0
  <2>6. \A i \in 0 .. n + 1 : h[i] = k[i]
    BY <2>2, <2>3, <2>4, <2>5
  <2>7. h = k
    BY <2>6
  <2>8. Looped(ps, kind, n + 1, h)
    BY <2>7 DEF Looped
  <2>9. QED
    BY <2>8
<1>4. B = {}
  BY <1>1, <1>2, <1>3, Induct
<1>5. QED
  BY <1>4

LEMMA AskedLoops ==
  ASSUME NEW ps \in Seq(Pin), NEW kind
  PROVE  \E g : Looped(ps, kind, Len(ps), g) /\ Asked(ps, kind) = g[Len(ps)]
<1> DEFINE g == CHOOSE f : Looped(ps, kind, Len(ps), f)
<1>1. Looped(ps, kind, Len(ps), g)
  BY LoopDefined
<1>2. Asked(ps, kind) = g[Len(ps)]
  BY DEF Asked, Looped, Wish
<1>3. QED
  BY <1>1, <1>2

LEMMA JobOfPin ==
  ASSUME NEW p \in Pin, NEW kind \in Kinds
  PROVE  JobFor(p, kind) \in Job
BY DEF JobFor, Job, Pin

\* A job for each pin that wants one, and for no other.
LEMMA AskedHolds ==
  ASSUME NEW ps \in Seq(Pin), NEW kind \in Kinds
  PROVE  /\ Asked(ps, kind) \in Seq(Job)
         /\ ToSet(Asked(ps, kind)) = {JobFor(ps[i], kind) : i \in Wanting(ps, kind, Len(ps))}
<1>1. PICK g : Looped(ps, kind, Len(ps), g) /\ Asked(ps, kind) = g[Len(ps)]
  BY AskedLoops
<1> DEFINE N == Len(ps)
           Right(n) == /\ g[n] \in Seq(Job)
                       /\ ToSet(g[n]) = {JobFor(ps[i], kind) : i \in Wanting(ps, kind, n)}
           B == {n \in 0 .. N : ~Right(n)}
<1>2. /\ N \in Nat /\ B \subseteq 0 .. N
      /\ \A i \in 1 .. N : ps[i] \in Pin
  OBVIOUS
<1>3. /\ g[0] = <<>>
      /\ \A n \in 0 .. N - 1 : g[n + 1] = g[n] \o Wish(ps, kind, n + 1)
  <2>1. /\ \A n \in 0 .. N - 1 : n + 1 \in 0 .. N /\ n + 1 # 0 /\ (n + 1) - 1 = n
        /\ 0 \in 0 .. N
    BY <1>2
  <2>2. \A i \in 0 .. N : g[i] = IF i = 0 THEN <<>> ELSE g[i - 1] \o Wish(ps, kind, i)
    BY <1>1 DEF Looped
  <2> HIDE DEF N
  <2>3. QED
    BY <2>1, <2>2
<1> HIDE DEF N
<1>4. 0 \notin B
  <2>1. Wanting(ps, kind, 0) = {}
    BY DEF Wanting
  <2>2. ToSet(g[0]) = {} /\ g[0] \in Seq(Job)
    BY <1>3 DEF ToSet
  <2>3. QED
    BY <2>1, <2>2
<1>5. ASSUME NEW n \in 0 .. N - 1, n \notin B
      PROVE  n + 1 \notin B
  <2>1. Right(n) /\ n + 1 \in 1 .. N
    BY <1>5, <1>2
  <2>a. g[n] \in Seq(Job)
    BY <2>1
  <2>2. g[n + 1] = g[n] \o Wish(ps, kind, n + 1)
    BY <1>3
  <2>3. CASE Wants(ps, ps[n + 1], kind)
    <3>1. Wish(ps, kind, n + 1) = <<JobFor(ps[n + 1], kind)>>
      BY <2>3 DEF Wish
    <3>2. /\ <<JobFor(ps[n + 1], kind)>> \in Seq(Job)
          /\ ToSet(<<JobFor(ps[n + 1], kind)>>) = {JobFor(ps[n + 1], kind)}
      <4>1. JobFor(ps[n + 1], kind) \in Job
        BY <2>1, <1>2, JobOfPin
      <4>2. QED
        BY <4>1 DEF ToSet
    <3>3. /\ g[n + 1] \in Seq(Job)
          /\ ToSet(g[n + 1]) = ToSet(g[n]) \cup {JobFor(ps[n + 1], kind)}
      <4> DEFINE more == <<JobFor(ps[n + 1], kind)>>
      <4>1. more \in Seq(Job) /\ ToSet(more) = {JobFor(ps[n + 1], kind)}
        BY <3>2
      <4> HIDE DEF more
      <4>2. g[n + 1] = g[n] \o more
        BY <2>2, <3>1 DEF more
      <4>3. QED
        BY <4>1, <4>2, <2>a, ElementsOfBoth
    <3>4. Wanting(ps, kind, n + 1) = Wanting(ps, kind, n) \cup {n + 1}
      BY <2>3 DEF Wanting
    <3>5. QED
      BY <2>1, <3>3, <3>4
  <2>4. CASE ~Wants(ps, ps[n + 1], kind)
    <3>1. Wish(ps, kind, n + 1) = <<>>
      BY <2>4 DEF Wish
    <3>2. g[n + 1] = g[n]
      <4>1. \A s \in Seq(Job) : s \o <<>> = s
        OBVIOUS
      <4>2. g[n] \o <<>> = g[n]
        BY <2>a, <4>1, Zenon
      <4>3. g[n + 1] = g[n] \o <<>>
        BY <2>2, <3>1, Zenon
      <4>4. QED
        BY <4>2, <4>3, Zenon
    <3>3. Wanting(ps, kind, n + 1) = Wanting(ps, kind, n)
      BY <2>4 DEF Wanting
    <3>4. QED
      BY <2>1, <3>2, <3>3
  <2>5. QED
    BY <2>3, <2>4
<1>6. B = {}
  BY <1>2, <1>4, <1>5, Induct
<1>7. Right(N)
  BY <1>2, <1>6
<1>8. QED
  BY <1>1, <1>7 DEF N


-----------------------------------------------------------------------------
(* What a kick does: it marks pins, and sends the jobs of those it marks. *)

LEMMA CancelIsNoJob == Cancel \notin Job
BY DEF Cancel, Job, Kinds

LEMMA KickPins ==
  ASSUME NEW ps \in Seq(Pin), Kick(ps)
  PROVE  /\ pins' \in Seq(Pin) /\ DOMAIN pins' = DOMAIN ps
         /\ \A i \in DOMAIN ps :
              /\ pins'[i].id = ps[i].id /\ pins'[i].path = ps[i].path
              /\ pins'[i].raw = ps[i].raw /\ pins'[i].text = ps[i].text
              /\ \A kind \in Kinds : pins'[i].cooking[kind] =>
                   ps[i].cooking[kind] \/ Wants(ps, ps[i], kind)
<1> DEFINE hot(i) == [kind \in Kinds |-> ps[i].cooking[kind] \/ Wants(ps, ps[i], kind)]
           more(i, kind) == IF Wants(ps, ps[i], kind) THEN 1 ELSE 0
           tried(i) == [kind \in Kinds |-> ps[i].attempts[kind] + more(i, kind)]
           new(i) == [ps[i] EXCEPT !.cooking = hot(i), !.attempts = tried(i)]
<1>1. pins' = [i \in DOMAIN ps |-> new(i)]
  BY DEF Kick
<1>2. ASSUME NEW i \in DOMAIN ps
      PROVE  /\ new(i) \in Pin
             /\ new(i).id = ps[i].id /\ new(i).path = ps[i].path
             /\ new(i).raw = ps[i].raw /\ new(i).text = ps[i].text
             /\ new(i).cooking = hot(i)
  <2>1. ps[i] \in Pin
    OBVIOUS
  <2>2. hot(i) \in [Kinds -> BOOLEAN]
    BY Zenon
  <2>3. tried(i) \in [Kinds -> Nat]
    <3>1. \A kind \in Kinds : ps[i].attempts[kind] \in Nat /\ more(i, kind) \in Nat
      BY <2>1 DEF Pin
    <3> HIDE DEF more
    <3>2. QED
      BY <3>1
  <2> HIDE DEF hot, tried
  <2>4. QED
    BY <2>1, <2>2, <2>3 DEF Pin
<1>3. \A i \in DOMAIN ps, kind \in Kinds :
        hot(i)[kind] <=> (ps[i].cooking[kind] \/ Wants(ps, ps[i], kind))
  BY Zenon
<1> HIDE DEF hot, new
<1>4. /\ DOMAIN pins' = DOMAIN ps
      /\ \A i \in DOMAIN ps : pins'[i] = new(i)
  BY <1>1
<1>5. pins' \in Seq(Pin)
  <2>1. Len(ps) \in Nat /\ DOMAIN ps = 1 .. Len(ps)
    OBVIOUS
  <2>2. pins' \in [1 .. Len(ps) -> Pin]
    BY <1>1, <1>2, <2>1
  <2>3. QED
    BY <2>1, <2>2
<1>6. QED
  BY <1>2, <1>3, <1>4, <1>5

LEMMA KickJobs ==
  ASSUME NEW ps \in Seq(Pin), jobs \in Seq(Job \cup {Cancel}), Kick(ps)
  PROVE  /\ jobs' \in Seq(Job \cup {Cancel}) /\ ToSet(jobs) \subseteq ToSet(jobs')
         /\ \A i \in DOMAIN ps, kind \in Kinds :
              Wants(ps, ps[i], kind) => JobFor(ps[i], kind) \in ToSet(jobs')
         /\ \A j \in ToSet(jobs') :
              j \in ToSet(jobs) \/ \E i \in DOMAIN ps, kind \in Kinds : j = JobFor(ps[i], kind)
<1> DEFINE digests == Asked(ps, "digest")
           cards   == Asked(ps, "card")
           sent    == jobs \o digests
           Msg     == Job \cup {Cancel}
<1>1. jobs' = sent \o cards
  <2>1. digests \in Seq(Job) /\ cards \in Seq(Job)
    BY AskedHolds DEF Kinds
  <2>2. QED
    BY <2>1 DEF Kick
<1>2. /\ digests \in Seq(Msg) /\ cards \in Seq(Msg)
      /\ ToSet(digests) = {JobFor(ps[i], "digest") : i \in Wanting(ps, "digest", Len(ps))}
      /\ ToSet(cards) = {JobFor(ps[i], "card") : i \in Wanting(ps, "card", Len(ps))}
  BY AskedHolds DEF Kinds
<1> HIDE DEF digests, cards, Msg
<1>3. jobs \in Seq(Msg)
  BY DEF Msg
<1>4. sent \in Seq(Msg) /\ ToSet(sent) = ToSet(jobs) \cup ToSet(digests)
  BY <1>2, <1>3, ElementsOfBoth
<1> HIDE DEF sent
<1>5. /\ jobs' \in Seq(Msg)
      /\ ToSet(jobs') = ToSet(jobs) \cup ToSet(digests) \cup ToSet(cards)
  BY <1>1, <1>2, <1>4, ElementsOfBoth
<1>7. ASSUME NEW i \in DOMAIN ps, NEW kind \in Kinds, Wants(ps, ps[i], kind)
      PROVE  JobFor(ps[i], kind) \in ToSet(jobs')
  <2>1. i \in Wanting(ps, kind, Len(ps))
    BY <1>7 DEF Wanting
  <2>2. CASE kind = "digest"
    BY <2>1, <2>2, <1>2, <1>5
  <2>3. CASE kind = "card"
    BY <2>1, <2>3, <1>2, <1>5
  <2>4. QED
    BY <2>2, <2>3 DEF Kinds
<1>8. \A j \in ToSet(jobs') :
        j \in ToSet(jobs) \/ \E i \in DOMAIN ps, kind \in Kinds : j = JobFor(ps[i], kind)
  BY <1>2, <1>5 DEF Wanting, Kinds
<1>9. QED
  BY <1>5, <1>7, <1>8 DEF Msg


-----------------------------------------------------------------------------
(* The invariant *)

\* One pin to a path, and one to an id.
Distinct(ps) ==
  \A i, j \in DOMAIN ps : ps[i].path = ps[j].path \/ ps[i].id = ps[j].id => i = j

\* Pins numbered below next, and the jobs about them in flight: a pin that cooks
\* has one of the kind, one with its id is for its path, and while no path was
\* pinned in mid-ingest is about what the pin holds, as its texts are.
Fits(ps, next, flight, clean) ==
  \A i \in DOMAIN ps :
    /\ ps[i].id < next
    /\ \A kind \in Kinds :
         ps[i].cooking[kind] => \E j \in flight : j.id = ps[i].id /\ j.kind = kind
    /\ \A j \in flight :
         j.id = ps[i].id => j.path = ps[i].path /\ (clean => j.of = ps[i].raw)
    /\ clean => \A kind \in Kinds :
                  ps[i].text[kind] # None => ps[i].text[kind].of = ps[i].raw

\* No id in flight is still to be given.
Numbered(next, flight) == \A j \in flight : j.id < next

\* A text on its way back is of what its job was about.
Told == \A r \in ToSet(events) : r.text # None => r.text.of = r.job.of

PinInv ==
  /\ TypeOK /\ Told
  /\ Numbered(next_id, InFlight) /\ Fits(pins, next_id, InFlight, ~raced)
  /\ ~raced => KeyedOnWhatWasConsumed

LEMMA FlightTyped ==
  ASSUME TypeOK
  PROVE  /\ InFlight \subseteq Job
         /\ ToSet(jobs) \subseteq Job \cup {Cancel}
         /\ ToSet(queue) \subseteq Job
         /\ ToSet(events) \subseteq Result
<1>1. /\ jobs \in Seq(Job \cup {Cancel}) /\ queue \in Seq(Job) /\ hand \in Job \cup {None}
      /\ events \in Seq(Result)
  BY DEF TypeOK
<1>2. ToSet(jobs) \subseteq Job \cup {Cancel}
  BY <1>1 DEF ToSet
<1>3. ToSet(queue) \subseteq Job
  BY <1>1 DEF ToSet
<1>4. ToSet(events) \subseteq Result
  BY <1>1 DEF ToSet
<1>5. \A r \in Result : r.job \in Job
  BY DEF Result
<1>6. QED
  BY <1>1, <1>2, <1>3, <1>4, <1>5 DEF InFlight

\* A kick keeps the pins fitting: a job sent is about the pin it is for.
LEMMA KickFits ==
  ASSUME TypeOK, NEW ps \in Seq(Pin), Distinct(ps), Kick(ps),
         UNCHANGED <<queue, hand, events>>,
         NEW next, NEW clean, Fits(ps, next, InFlight, clean), Numbered(next, InFlight)
  PROVE  /\ pins' \in Seq(Pin) /\ Distinct(pins') /\ jobs' \in Seq(Job \cup {Cancel})
         /\ Fits(pins', next, InFlight', clean) /\ Numbered(next, InFlight')
<1>1. /\ pins' \in Seq(Pin) /\ DOMAIN pins' = DOMAIN ps
      /\ \A i \in DOMAIN ps :
           /\ pins'[i].id = ps[i].id /\ pins'[i].path = ps[i].path
           /\ pins'[i].raw = ps[i].raw /\ pins'[i].text = ps[i].text
           /\ \A kind \in Kinds : pins'[i].cooking[kind] =>
                ps[i].cooking[kind] \/ Wants(ps, ps[i], kind)
  BY KickPins
<1>2. /\ jobs' \in Seq(Job \cup {Cancel}) /\ ToSet(jobs) \subseteq ToSet(jobs')
      /\ \A i \in DOMAIN ps, kind \in Kinds :
           Wants(ps, ps[i], kind) => JobFor(ps[i], kind) \in ToSet(jobs')
      /\ \A j \in ToSet(jobs') :
           j \in ToSet(jobs) \/ \E i \in DOMAIN ps, kind \in Kinds : j = JobFor(ps[i], kind)
  BY KickJobs DEF TypeOK
<1>3. \A i \in DOMAIN ps, kind \in Kinds :
        /\ JobFor(ps[i], kind) \in Job /\ JobFor(ps[i], kind) # Cancel
        /\ JobFor(ps[i], kind).id = ps[i].id /\ JobFor(ps[i], kind).path = ps[i].path
        /\ JobFor(ps[i], kind).of = ps[i].raw /\ JobFor(ps[i], kind).kind = kind
  <2>1. \A i \in DOMAIN ps : ps[i] \in Pin
    OBVIOUS
  <2>2. QED
    BY <2>1, JobOfPin, CancelIsNoJob DEF JobFor
<1>4. InFlight \subseteq InFlight'
  BY <1>2 DEF InFlight
<1>5. \A j \in InFlight' :
        j \in InFlight \/ \E i \in DOMAIN ps, kind \in Kinds : j = JobFor(ps[i], kind)
  BY <1>2 DEF InFlight
<1>6. \A i \in DOMAIN ps, kind \in Kinds :
        Wants(ps, ps[i], kind) => JobFor(ps[i], kind) \in InFlight'
  BY <1>2, <1>3 DEF InFlight
<1>7. Distinct(pins')
  BY <1>1 DEF Distinct
<1>8. Numbered(next, InFlight')
  BY <1>3, <1>5 DEF Numbered, Fits
<1>9. Fits(pins', next, InFlight', clean)
  <2> SUFFICES ASSUME NEW i \in DOMAIN ps
               PROVE  /\ pins'[i].id < next
                      /\ \A kind \in Kinds : pins'[i].cooking[kind] =>
                           \E j \in InFlight' : j.id = pins'[i].id /\ j.kind = kind
                      /\ \A j \in InFlight' : j.id = pins'[i].id =>
                           j.path = pins'[i].path /\ (clean => j.of = pins'[i].raw)
                      /\ clean => \A kind \in Kinds : pins'[i].text[kind] # None =>
                                    pins'[i].text[kind].of = pins'[i].raw
    BY <1>1 DEF Fits
  <2>1. pins'[i].id < next
    BY <1>1 DEF Fits
  <2>2. ASSUME NEW kind \in Kinds, pins'[i].cooking[kind]
        PROVE  \E j \in InFlight' : j.id = pins'[i].id /\ j.kind = kind
    <3>1. CASE ps[i].cooking[kind]
      BY <3>1, <1>1, <1>4 DEF Fits
    <3>2. CASE Wants(ps, ps[i], kind)
      BY <3>2, <1>1, <1>3, <1>6
    <3>3. QED
      BY <2>2, <3>1, <3>2, <1>1
  <2>3. ASSUME NEW j \in InFlight', j.id = pins'[i].id
        PROVE  j.path = pins'[i].path /\ (clean => j.of = pins'[i].raw)
    <3>1. CASE j \in InFlight
      BY <3>1, <2>3, <1>1 DEF Fits
    <3>2. CASE \E k \in DOMAIN ps, kind \in Kinds : j = JobFor(ps[k], kind)
      <4>1. PICK k \in DOMAIN ps, kind \in Kinds : j = JobFor(ps[k], kind)
        BY <3>2
      <4>2. ps[k].id = ps[i].id
        BY <4>1, <2>3, <1>1, <1>3
      <4>3. k = i
        BY <4>2 DEF Distinct
      <4>4. QED
        BY <4>1, <4>3, <1>1, <1>3
    <3>3. QED
      BY <3>1, <3>2, <1>5
  <2>4. clean => \A kind \in Kinds : pins'[i].text[kind] # None =>
                   pins'[i].text[kind].of = pins'[i].raw
    BY <1>1 DEF Fits
  <2>5. QED
    BY <2>1, <2>2, <2>3, <2>4
<1>10. QED
  BY <1>1, <1>2, <1>7, <1>8, <1>9


-----------------------------------------------------------------------------
(* Pinning and dropping *)

LEMMA DropFits ==
  ASSUME NEW ps \in Seq(Pin), Distinct(ps), NEW i \in DOMAIN ps,
         NEW next, NEW flight, NEW clean, Fits(ps, next, flight, clean)
  PROVE  /\ RemoveAt(ps, i) \in Seq(Pin) /\ Distinct(RemoveAt(ps, i))
         /\ Fits(RemoveAt(ps, i), next, flight, clean)
         /\ \A k \in DOMAIN RemoveAt(ps, i) :
              \E m \in DOMAIN ps \ {i} : RemoveAt(ps, i)[k] = ps[m]
<1> DEFINE rest == RemoveAt(ps, i)
           from(k) == IF k < i THEN k ELSE k + 1
<1>1. /\ rest \in Seq(Pin)
      /\ \A k \in DOMAIN rest : k \in 1 .. Len(ps) - 1 /\ rest[k] = ps[from(k)]
  BY Removed
<1> HIDE DEF rest
<1>2. Len(ps) \in Nat /\ DOMAIN ps = 1 .. Len(ps) /\ i \in 1 .. Len(ps)
  OBVIOUS
<1>3. /\ \A k \in 1 .. Len(ps) - 1 : from(k) \in DOMAIN ps \ {i}
      /\ \A k, m \in 1 .. Len(ps) - 1 : from(k) = from(m) => k = m
  BY <1>2
<1> HIDE DEF from
<1>4. Distinct(rest)
  BY <1>1, <1>3 DEF Distinct
<1>5. Fits(rest, next, flight, clean)
  BY <1>1, <1>3 DEF Fits
<1>6. QED
  BY <1>1, <1>3, <1>4, <1>5 DEF rest

LEMMA CachedTexts ==
  ASSUME TypeOK, NEW key
  PROVE  /\ Cached(key) \in [Kinds -> MaybeText]
         /\ KeyedOnWhatWasConsumed =>
              \A kind \in Kinds : Cached(key)[kind] # None => Cached(key)[kind].of = key
<1> DEFINE hits == {i \in DOMAIN cache : cache[i].key = key}
<1>1. CASE hits = {}
  <2>1. Cached(key) = [kind \in Kinds |-> None]
    BY <1>1 DEF Cached, Uncooked
  <2>2. QED
    BY <2>1 DEF MaybeText
<1>2. CASE hits # {}
  <2>1. PICK i \in hits : Cached(key) = cache[i].text
    BY <1>2 DEF Cached
  <2>2. cache \in Seq(Entry) /\ i \in DOMAIN cache /\ cache[i].key = key
    BY DEF TypeOK
  <2>3. cache[i] \in Entry
    BY <2>2
  <2>4. QED
    BY <2>1, <2>2, <2>3 DEF Entry, KeyedOnWhatWasConsumed
<1>3. QED
  BY <1>1, <1>2

LEMMA FreshPin ==
  ASSUME TypeOK, NEW id \in 1 .. MaxPins, NEW path \in Paths, file[path] # None
  PROVE  /\ Fresh(id, path) \in Pin
         /\ Fresh(id, path).id = id /\ Fresh(id, path).path = path
         /\ \A kind \in Kinds : ~Fresh(id, path).cooking[kind]
         /\ KeyedOnWhatWasConsumed => \A kind \in Kinds :
              Fresh(id, path).text[kind] # None =>
                Fresh(id, path).text[kind].of = Fresh(id, path).raw
<1>1. file[path] \in Contents
  BY DEF TypeOK
<1>2. /\ Cached(file[path]) \in [Kinds -> MaybeText]
      /\ KeyedOnWhatWasConsumed => \A kind \in Kinds :
           Cached(file[path])[kind] # None => Cached(file[path])[kind].of = file[path]
  BY CachedTexts
<1>3. /\ [kind \in Kinds |-> FALSE] \in [Kinds -> BOOLEAN]
      /\ [kind \in Kinds |-> 0] \in [Kinds -> Nat]
  OBVIOUS
<1>4. /\ Fresh(id, path).id = id /\ Fresh(id, path).path = path
      /\ Fresh(id, path).raw = file[path] /\ Fresh(id, path).text = Cached(file[path])
      /\ Fresh(id, path).cooking = [kind \in Kinds |-> FALSE]
  BY DEF Fresh
<1>5. Fresh(id, path) \in Pin
  BY <1>1, <1>2, <1>3 DEF Fresh, Pin
<1>6. QED
  BY <1>2, <1>4, <1>5

\* A pin nothing in flight is about, on a path and with an id of its own.
LEMMA AppendFits ==
  ASSUME NEW ps \in Seq(Pin), Distinct(ps), NEW p \in Pin,
         \A k \in DOMAIN ps : ps[k].path # p.path /\ ps[k].id # p.id,
         NEW next, NEW flight, NEW clean, Fits(ps, next, flight, clean),
         p.id < next, \A kind \in Kinds : ~p.cooking[kind],
         \A j \in flight : j.id = p.id => j.path = p.path /\ ~clean,
         clean => \A kind \in Kinds : p.text[kind] # None => p.text[kind].of = p.raw
  PROVE  /\ Append(ps, p) \in Seq(Pin) /\ Distinct(Append(ps, p))
         /\ Fits(Append(ps, p), next, flight, clean)
<1>1. /\ Append(ps, p) \in Seq(Pin) /\ Len(ps) \in Nat
      /\ DOMAIN ps = 1 .. Len(ps) /\ DOMAIN Append(ps, p) = 1 .. Len(ps) + 1
      /\ \A k \in 1 .. Len(ps) : Append(ps, p)[k] = ps[k]
      /\ Append(ps, p)[Len(ps) + 1] = p
  OBVIOUS
<1>2. \A k \in DOMAIN Append(ps, p) :
        \/ k \in DOMAIN ps /\ Append(ps, p)[k] = ps[k]
        \/ k = Len(ps) + 1 /\ Append(ps, p)[k] = p
  BY <1>1
<1>3. Distinct(Append(ps, p))
  BY <1>2 DEF Distinct
<1>4. Fits(Append(ps, p), next, flight, clean)
  BY <1>2 DEF Fits
<1>5. QED
  BY <1>1, <1>3, <1>4

\* WorkContext::pin: a path keeps its id, and a path with its ingest under way
\* ends the innocence of the texts.
LEMMA PinnedFits ==
  ASSUME TypeOK, ~raced => KeyedOnWhatWasConsumed, Numbered(next_id, InFlight),
         NEW ps \in Seq(Pin), Distinct(ps), Fits(ps, next_id, InFlight, ~raced),
         NEW path \in Paths, file[path] # None,
         On(ps, path) # {} \/ next_id <= MaxPins,
         next_id' = IF On(ps, path) = {} THEN next_id + 1 ELSE next_id,
         raced' = (raced \/ \E j \in InFlight : j.id \in On(ps, path))
  PROVE  /\ Pinned(ps, path) \in Seq(Pin) /\ Distinct(Pinned(ps, path))
         /\ Fits(Pinned(ps, path), next_id', InFlight, ~raced')
         /\ Numbered(next_id', InFlight)
<1>0. /\ next_id \in Nat \ {0} /\ MaxPins \in Nat /\ raced \in BOOLEAN
      /\ InFlight \subseteq Job /\ \A j \in Job : j.id \in Nat
      /\ \A k \in DOMAIN ps : ps[k] \in Pin /\ ps[k].id \in 1 .. MaxPins
  <2>1. MaxPins \in Nat
    BY BoundsAssumption
  <2>2. \A k \in DOMAIN ps : ps[k] \in Pin
    OBVIOUS
  <2>3. \A k \in DOMAIN ps : ps[k].id \in 1 .. MaxPins
    BY <2>2 DEF Pin
  <2>4. next_id \in Nat \ {0} /\ raced \in BOOLEAN
    BY <2>1 DEF TypeOK
  <2>5. \A j \in Job : j.id \in Nat
    BY <2>1 DEF Job
  <2>6. QED
    BY <2>1, <2>2, <2>3, <2>4, <2>5, FlightTyped
<1>1. On(ps, path) = {} <=> At(ps, path) = {}
  BY DEF On
<1>2. CASE At(ps, path) = {}
  <2> DEFINE p == Fresh(next_id, path)
  <2>1. next_id \in 1 .. MaxPins /\ next_id' = next_id + 1 /\ raced' = raced
    BY <1>0, <1>1, <1>2
  <2>2. /\ p \in Pin /\ p.id = next_id /\ p.path = path
        /\ \A kind \in Kinds : ~p.cooking[kind]
        /\ KeyedOnWhatWasConsumed =>
             \A kind \in Kinds : p.text[kind] # None => p.text[kind].of = p.raw
    BY <2>1, FreshPin
  <2>3. Pinned(ps, path) = Append(ps, p)
    BY <1>2 DEF Pinned, NextId
  <2> HIDE DEF p
  <2>4. \A k \in DOMAIN ps : ps[k].path # p.path /\ ps[k].id # p.id /\ ps[k].id < next_id'
    BY <1>0, <1>2, <2>1, <2>2 DEF At, Fits
  <2>5. Fits(ps, next_id', InFlight, ~raced')
    BY <2>1, <2>4 DEF Fits
  <2>6. \A j \in InFlight : j.id < next_id' /\ j.id # p.id
    BY <1>0, <2>1, <2>2 DEF Numbered
  <2>7. p.id < next_id'
    BY <1>0, <2>1, <2>2
  <2>8. /\ Append(ps, p) \in Seq(Pin) /\ Distinct(Append(ps, p))
        /\ Fits(Append(ps, p), next_id', InFlight, ~raced')
    BY <2>1, <2>2, <2>4, <2>5, <2>6, <2>7, AppendFits
  <2>9. QED
    BY <2>3, <2>6, <2>8 DEF Numbered
<1>3. CASE At(ps, path) # {}
  <2> DEFINE i == CHOOSE k \in At(ps, path) : TRUE
             p == Fresh(ps[i].id, path)
             rest == RemoveAt(ps, i)
  <2>1. i \in DOMAIN ps /\ ps[i].path = path /\ ps[i].id \in On(ps, path)
    <3>1. i \in At(ps, path)
      BY <1>3
    <3> HIDE DEF i
    <3>2. QED
      BY <3>1 DEF At, On
  <2>2. Pinned(ps, path) = Append(rest, p)
    BY <1>3 DEF Pinned
  <2> HIDE DEF i
  <2>3. /\ p \in Pin /\ p.id = ps[i].id /\ p.path = path
        /\ \A kind \in Kinds : ~p.cooking[kind]
        /\ KeyedOnWhatWasConsumed =>
             \A kind \in Kinds : p.text[kind] # None => p.text[kind].of = p.raw
    BY <1>0, <2>1, FreshPin
  <2>4. /\ rest \in Seq(Pin) /\ Distinct(rest) /\ Fits(rest, next_id, InFlight, ~raced)
        /\ \A k \in DOMAIN rest : \E m \in DOMAIN ps \ {i} : rest[k] = ps[m]
    BY <2>1, DropFits
  <2> HIDE DEF p, rest
  <2>5. next_id' = next_id /\ (~raced' => ~raced) /\ raced' \in BOOLEAN
    BY <1>0, <1>1, <1>3
  <2>6. \A k \in DOMAIN rest : rest[k].path # p.path /\ rest[k].id # p.id
    BY <2>1, <2>3, <2>4 DEF Distinct
  <2>7. Fits(rest, next_id', InFlight, ~raced')
    BY <2>4, <2>5 DEF Fits
  <2>8. \A j \in InFlight : j.id = p.id => j.path = p.path /\ raced'
    BY <2>1, <2>3 DEF Fits
  <2>9. p.id < next_id'
    BY <2>1, <2>3, <2>5 DEF Fits
  <2>10. /\ Append(rest, p) \in Seq(Pin) /\ Distinct(Append(rest, p))
         /\ Fits(Append(rest, p), next_id', InFlight, ~raced')
    BY <2>3, <2>4, <2>5, <2>6, <2>7, <2>8, <2>9, AppendFits
  <2>11. QED
    BY <2>2, <2>5, <2>10
<1>4. QED
  BY <1>2, <1>3


-----------------------------------------------------------------------------
(* The verbs *)

LEMMA Bounds ==
  MaxPins \in Nat /\ MaxEdits \in Nat /\ MaxVerbs \in Nat /\ MaxSessions \in Nat \ {0}
BY BoundsAssumption

LEMMA VerbBounds ==
  ASSUME TypeOK, Verb
  PROVE  edits' \in 0 .. MaxEdits /\ verbs' \in 0 .. MaxVerbs /\ sessions' \in 1 .. MaxSessions
BY Bounds DEF TypeOK, Verb

LEMMA PinsDistinct ==
  ASSUME TypeOK
  PROVE  pins \in Seq(Pin) /\ Distinct(pins) /\ next_id \in Nat \ {0}
BY Bounds DEF TypeOK, Distinct

\* What a verb leaves to show, the cache and the files being as they were.
LEMMA VerbKeeps ==
  ASSUME PinInv, Verb, UNCHANGED <<file, cache, queue, hand, events>>,
         pins' \in Seq(Pin), Distinct(pins'), jobs' \in Seq(Job \cup {Cancel}),
         next_id' \in 1 .. MaxPins + 1, raced' \in BOOLEAN, raced => raced',
         Fits(pins', next_id', InFlight', ~raced'), Numbered(next_id', InFlight')
  PROVE  PinInv'
<1>1. edits' \in 0 .. MaxEdits /\ verbs' \in 0 .. MaxVerbs /\ sessions' \in 1 .. MaxSessions
  BY VerbBounds DEF PinInv
<1>2. TypeOK'
  BY <1>1 DEF PinInv, TypeOK, Distinct
<1>3. Told'
  BY DEF PinInv, Told
<1>4. ~raced' => KeyedOnWhatWasConsumed'
  BY DEF PinInv, KeyedOnWhatWasConsumed
<1>5. QED
  BY <1>2, <1>3, <1>4 DEF PinInv

LEMMA PinAllKeeps ==
  ASSUME PinInv, Verb, UNCHANGED <<file, cache, queue, hand, events>>,
         NEW ps \in Seq(Pin), Distinct(ps), Fits(ps, next_id, InFlight, ~raced),
         NEW path \in Paths, PinAll(ps, path)
  PROVE  PinInv'
<1>1. TypeOK /\ Numbered(next_id, InFlight) /\ (~raced => KeyedOnWhatWasConsumed)
  BY DEF PinInv
<1>2. CASE file[path] = None
  <2>1. Kick(ps) /\ next_id' = next_id /\ raced' = raced
    BY <1>2 DEF PinAll
  <2>2. /\ pins' \in Seq(Pin) /\ Distinct(pins') /\ jobs' \in Seq(Job \cup {Cancel})
        /\ Fits(pins', next_id, InFlight', ~raced) /\ Numbered(next_id, InFlight')
    BY <1>1, <2>1, KickFits
  <2>3. next_id' \in 1 .. MaxPins + 1 /\ raced' \in BOOLEAN /\ (raced => raced')
    BY <1>1, <2>1 DEF TypeOK
  <2>4. Fits(pins', next_id', InFlight', ~raced') /\ Numbered(next_id', InFlight')
    BY <2>1, <2>2
  <2>5. QED
    BY <2>2, <2>3, <2>4, VerbKeeps
<1>3. CASE file[path] # None
  <2>1. /\ On(ps, path) # {} \/ next_id <= MaxPins
        /\ Kick(Pinned(ps, path))
        /\ next_id' = IF On(ps, path) = {} THEN next_id + 1 ELSE next_id
        /\ raced' = (raced \/ \E j \in InFlight : j.id \in On(ps, path))
    BY <1>3 DEF PinAll
  <2>2. /\ Pinned(ps, path) \in Seq(Pin) /\ Distinct(Pinned(ps, path))
        /\ Fits(Pinned(ps, path), next_id', InFlight, ~raced')
        /\ Numbered(next_id', InFlight)
    BY <1>1, <1>3, <2>1, PinnedFits
  <2>3. /\ pins' \in Seq(Pin) /\ Distinct(pins') /\ jobs' \in Seq(Job \cup {Cancel})
        /\ Fits(pins', next_id', InFlight', ~raced') /\ Numbered(next_id', InFlight')
    BY <1>1, <2>1, <2>2, KickFits
  <2>4. next_id' \in 1 .. MaxPins + 1
    BY <1>1, <2>1, Bounds DEF TypeOK
  <2>5. raced' \in BOOLEAN /\ (raced => raced')
    BY <1>1, <2>1 DEF TypeOK
  <2>6. QED
    BY <2>3, <2>4, <2>5, VerbKeeps
<1>4. QED
  BY <1>2, <1>3

LEMMA PinPathKeeps ==
  ASSUME PinInv, NEW path \in Paths, NEW pinclear \in BOOLEAN, PinPath(path, pinclear)
  PROVE  PinInv'
<1> DEFINE ps == IF pinclear THEN <<>> ELSE pins
<1>1. /\ Verb /\ UNCHANGED <<file, cache, queue, hand, events>>
      /\ PinAll(ps, path)
  BY DEF PinPath
<1>2. ps \in Seq(Pin) /\ Distinct(ps)
  BY PinsDistinct DEF PinInv, Distinct
<1>3. Fits(ps, next_id, InFlight, ~raced)
  BY DEF PinInv, Fits
<1> HIDE DEF ps
<1>4. QED
  BY <1>1, <1>2, <1>3, PinAllKeeps

LEMMA DropKeeps ==
  ASSUME PinInv, NEW i, Drop(i)
  PROVE  PinInv'
<1> DEFINE rest == RemoveAt(pins, i)
<1>1. /\ Verb /\ i \in DOMAIN pins /\ Kick(rest)
      /\ UNCHANGED <<file, cache, next_id, queue, hand, events, raced>>
  BY DEF Drop
<1>2. TypeOK /\ Numbered(next_id, InFlight) /\ Fits(pins, next_id, InFlight, ~raced)
  BY DEF PinInv
<1>3. rest \in Seq(Pin) /\ Distinct(rest) /\ Fits(rest, next_id, InFlight, ~raced)
  BY <1>1, <1>2, PinsDistinct, DropFits
<1> HIDE DEF rest
<1>4. /\ pins' \in Seq(Pin) /\ Distinct(pins') /\ jobs' \in Seq(Job \cup {Cancel})
      /\ Fits(pins', next_id, InFlight', ~raced) /\ Numbered(next_id, InFlight')
  BY <1>1, <1>2, <1>3, KickFits
<1>5. /\ next_id' \in 1 .. MaxPins + 1 /\ raced' \in BOOLEAN /\ (raced => raced')
      /\ Fits(pins', next_id', InFlight', ~raced') /\ Numbered(next_id', InFlight')
  BY <1>1, <1>2, <1>4 DEF TypeOK
<1>6. QED
  BY <1>1, <1>4, <1>5, VerbKeeps

\* A cancel in the channel is no job in flight.
LEMMA CancelFlies ==
  ASSUME TypeOK, jobs' = Append(jobs, Cancel), UNCHANGED <<queue, hand, events>>
  PROVE  jobs' \in Seq(Job \cup {Cancel}) /\ InFlight' = InFlight
<1>1. jobs \in Seq(Job \cup {Cancel}) /\ Cancel \in Job \cup {Cancel}
  BY DEF TypeOK
<1>2. jobs' \in Seq(Job \cup {Cancel}) /\ ToSet(jobs') = ToSet(jobs) \cup {Cancel}
  BY <1>1, ElementsOfAppend
<1>3. QED
  BY <1>2 DEF InFlight

LEMMA CancelledPins ==
  ASSUME TypeOK
  PROVE  /\ Cancelled(pins) \in Seq(Pin) /\ DOMAIN Cancelled(pins) = DOMAIN pins
         /\ \A i \in DOMAIN pins :
              /\ Cancelled(pins)[i].id = pins[i].id
              /\ Cancelled(pins)[i].path = pins[i].path
              /\ Cancelled(pins)[i].raw = pins[i].raw
              /\ Cancelled(pins)[i].text = pins[i].text
              /\ \A kind \in Kinds : ~Cancelled(pins)[i].cooking[kind]
<1> DEFINE cold == [kind \in Kinds |-> FALSE]
           spent == [kind \in Kinds |-> Budget(kind)]
           new(i) == IF \E kind \in Kinds : pins[i].cooking[kind]
                     THEN [pins[i] EXCEPT !.cooking = cold, !.attempts = spent]
                     ELSE pins[i]
<1>1. cold \in [Kinds -> BOOLEAN] /\ spent \in [Kinds -> Nat]
  BY BudgetsAssumption DEF Budget, Kinds
<1>2. \A kind \in Kinds : ~cold[kind]
  OBVIOUS
<1>3. pins \in Seq(Pin)
  BY DEF TypeOK
<1>4. Cancelled(pins) = [i \in DOMAIN pins |-> new(i)]
  BY DEF Cancelled
<1> HIDE DEF cold, spent
<1>5. ASSUME NEW i \in DOMAIN pins
      PROVE  /\ new(i) \in Pin /\ new(i).id = pins[i].id /\ new(i).path = pins[i].path
             /\ new(i).raw = pins[i].raw /\ new(i).text = pins[i].text
             /\ \A kind \in Kinds : ~new(i).cooking[kind]
  <2>1. pins[i] \in Pin
    BY <1>3
  <2>2. QED
    BY <2>1, <1>1, <1>2 DEF Pin
<1> HIDE DEF new
<1>6. Cancelled(pins) \in Seq(Pin)
  <2>1. Len(pins) \in Nat /\ DOMAIN pins = 1 .. Len(pins)
    BY <1>3
  <2>2. Cancelled(pins) \in [1 .. Len(pins) -> Pin]
    BY <1>4, <1>5, <2>1
  <2>3. QED
    BY <2>1, <2>2
<1>7. QED
  BY <1>4, <1>5, <1>6

LEMMA CancelCooksKeeps ==
  ASSUME PinInv, CancelCooks
  PROVE  PinInv'
<1>1. /\ Verb /\ jobs' = Append(jobs, Cancel) /\ pins' = Cancelled(pins)
      /\ UNCHANGED <<file, cache, next_id, queue, hand, events, raced>>
  BY DEF CancelCooks
<1>2. TypeOK /\ Numbered(next_id, InFlight) /\ Fits(pins, next_id, InFlight, ~raced)
  BY DEF PinInv
<1>3. jobs' \in Seq(Job \cup {Cancel}) /\ InFlight' = InFlight
  BY <1>1, <1>2, CancelFlies
<1>4. /\ pins' \in Seq(Pin) /\ DOMAIN pins' = DOMAIN pins
      /\ \A i \in DOMAIN pins :
           /\ pins'[i].id = pins[i].id /\ pins'[i].path = pins[i].path
           /\ pins'[i].raw = pins[i].raw /\ pins'[i].text = pins[i].text
           /\ \A kind \in Kinds : ~pins'[i].cooking[kind]
  BY <1>1, <1>2, CancelledPins
<1>5. Distinct(pins')
  BY <1>2, <1>4, PinsDistinct DEF Distinct
<1>6. Fits(pins', next_id', InFlight', ~raced') /\ Numbered(next_id', InFlight')
  BY <1>1, <1>2, <1>3, <1>4 DEF Fits
<1>7. next_id' \in 1 .. MaxPins + 1 /\ raced' \in BOOLEAN /\ (raced => raced')
  BY <1>1, <1>2 DEF TypeOK
<1>8. QED
  BY <1>1, <1>3, <1>4, <1>5, <1>6, <1>7, VerbKeeps

LEMMA ClearKeeps ==
  ASSUME PinInv, Clear
  PROVE  PinInv'
<1>1. /\ Verb /\ jobs' = Append(jobs, Cancel) /\ pins' = <<>>
      /\ UNCHANGED <<file, cache, next_id, queue, hand, events, raced>>
  BY DEF Clear
<1>2. TypeOK /\ Numbered(next_id, InFlight)
  BY DEF PinInv
<1>3. jobs' \in Seq(Job \cup {Cancel}) /\ InFlight' = InFlight
  BY <1>1, <1>2, CancelFlies
<1>4. pins' \in Seq(Pin) /\ Distinct(pins')
  BY <1>1 DEF Distinct
<1>5. Fits(pins', next_id', InFlight', ~raced') /\ Numbered(next_id', InFlight')
  BY <1>1, <1>2, <1>3 DEF Fits
<1>6. next_id' \in 1 .. MaxPins + 1 /\ raced' \in BOOLEAN /\ (raced => raced')
  BY <1>1, <1>2 DEF TypeOK
<1>7. QED
  BY <1>1, <1>3, <1>4, <1>5, <1>6, VerbKeeps


-----------------------------------------------------------------------------
(* The cache, and a result applied *)

\* One file to a key, and no more of them than evict leaves.
CacheTyped(entries) ==
  /\ entries \in Seq(Entry) /\ Len(entries) <= CacheKeep
  /\ \A i, j \in DOMAIN entries : entries[i].key = entries[j].key => i = j

LEMMA EvictedKeeps ==
  ASSUME NEW entries \in Seq(Entry),
         \A i, j \in DOMAIN entries : entries[i].key = entries[j].key => i = j
  PROVE  /\ CacheTyped(Evicted(entries))
         /\ \A k \in DOMAIN Evicted(entries) :
              \E i \in DOMAIN entries : Evicted(entries)[k] = entries[i]
<1>0. CacheKeep \in Nat /\ Len(entries) \in Nat /\ DOMAIN entries = 1 .. Len(entries)
  BY BudgetsAssumption
<1> DEFINE n == Len(entries)
           from == IF n > CacheKeep THEN n - CacheKeep + 1 ELSE 1
           kept == SubSeq(entries, from, n)
<1>1. Evicted(entries) = kept
  BY DEF Evicted
<1>2. n \in Nat /\ from \in 1 .. n + 1 /\ n - from + 1 \in Nat /\ n - from + 1 <= CacheKeep
  BY <1>0
<1>3. /\ kept \in Seq(Entry) /\ Len(kept) = n - from + 1
      /\ \A k \in 1 .. n - from + 1 : kept[k] = entries[from + k - 1]
  BY <1>2
<1>4. DOMAIN kept = 1 .. n - from + 1
  BY <1>3, <1>2
<1> HIDE DEF kept, from
<1>5. \A k \in 1 .. n - from + 1 : from + k - 1 \in DOMAIN entries
  BY <1>0, <1>2
<1>6. \A k, m \in 1 .. n - from + 1 : from + k - 1 = from + m - 1 => k = m
  BY <1>0, <1>2
<1>7. CacheTyped(kept)
  <2>1. \A i, j \in DOMAIN kept : kept[i].key = kept[j].key => i = j
    BY <1>3, <1>4, <1>5, <1>6
  <2>2. QED
    BY <2>1, <1>2, <1>3 DEF CacheTyped
<1>8. QED
  BY <1>1, <1>3, <1>4, <1>5, <1>7

LEMMA StoredKeeps ==
  ASSUME TypeOK, NEW key \in Contents, NEW kind \in Kinds, NEW text \in MaybeText
  PROVE  /\ CacheTyped(Stored(key, kind, text))
         /\ KeyedOnWhatWasConsumed /\ text.of = key =>
              \A k \in DOMAIN Stored(key, kind, text), any \in Kinds :
                Stored(key, kind, text)[k].text[any] # None =>
                  Stored(key, kind, text)[k].text[any].of = Stored(key, kind, text)[k].key
<1> DEFINE at    == {i \in DOMAIN cache : cache[i].key = key}
           rest  == IF at = {} THEN cache ELSE RemoveAt(cache, CHOOSE i \in at : TRUE)
           texts == [Cached(key) EXCEPT ![kind] = text]
           new   == [key |-> key, text |-> texts]
           all   == Append(rest, new)
<1>1. Stored(key, kind, text) = Evicted(all)
  BY DEF Stored
<1>2. /\ cache \in Seq(Entry)
      /\ \A i, j \in DOMAIN cache : cache[i].key = cache[j].key => i = j
  BY DEF TypeOK
<1>3. /\ texts \in [Kinds -> MaybeText] /\ texts[kind] = text
      /\ KeyedOnWhatWasConsumed /\ text.of = key =>
           \A any \in Kinds : texts[any] # None => texts[any].of = key
  BY CachedTexts
<1>4. new \in Entry /\ new.key = key /\ new.text = texts
  BY <1>3 DEF Entry
<1>5. /\ rest \in Seq(Entry)
      /\ \A i, j \in DOMAIN rest : rest[i].key = rest[j].key => i = j
      /\ \A k \in DOMAIN rest :
           rest[k].key # key /\ \E i \in DOMAIN cache : rest[k] = cache[i]
  <2>1. CASE at = {}
    BY <2>1, <1>2
  <2>2. CASE at # {}
    <3> DEFINE i == CHOOSE m \in at : TRUE
               from(k) == IF k < i THEN k ELSE k + 1
    <3>1. i \in at
      BY <2>2
    <3>2. rest = RemoveAt(cache, i)
      BY <2>2
    <3> HIDE DEF i
    <3>3. i \in DOMAIN cache /\ cache[i].key = key
      BY <3>1
    <3>4. /\ RemoveAt(cache, i) \in Seq(Entry)
          /\ \A k \in DOMAIN RemoveAt(cache, i) :
               k \in 1 .. Len(cache) - 1 /\ RemoveAt(cache, i)[k] = cache[from(k)]
      BY <3>3, <1>2, Removed
    <3> HIDE DEF rest
    <3>5. Len(cache) \in Nat /\ DOMAIN cache = 1 .. Len(cache) /\ i \in 1 .. Len(cache)
      BY <1>2, <3>3
    <3>6. /\ \A k \in 1 .. Len(cache) - 1 : from(k) \in DOMAIN cache \ {i}
          /\ \A k, m \in 1 .. Len(cache) - 1 : from(k) = from(m) => k = m
      BY <3>5
    <3> HIDE DEF from
    <3>7. /\ rest \in Seq(Entry)
          /\ \A k \in DOMAIN rest : k \in 1 .. Len(cache) - 1 /\ rest[k] = cache[from(k)]
      BY <3>2, <3>4
    <3>8. \A k \in DOMAIN rest : from(k) \in DOMAIN cache /\ cache[from(k)].key # key
      BY <1>2, <3>3, <3>6, <3>7
    <3>9. \A k, m \in DOMAIN rest : rest[k].key = rest[m].key => k = m
      BY <1>2, <3>6, <3>7, <3>8
    <3>10. QED
      BY <3>7, <3>8, <3>9
  <2>3. QED
    BY <2>1, <2>2
<1> HIDE DEF rest, texts, new
<1>6. /\ all \in Seq(Entry) /\ Len(rest) \in Nat
      /\ \A k \in DOMAIN all :
           \/ k \in DOMAIN rest /\ all[k] = rest[k]
           \/ k = Len(rest) + 1 /\ all[k] = new
  BY <1>4, <1>5
<1>7. \A i, j \in DOMAIN all : all[i].key = all[j].key => i = j
  BY <1>4, <1>5, <1>6
<1>8. KeyedOnWhatWasConsumed /\ text.of = key =>
        \A k \in DOMAIN all, any \in Kinds :
          all[k].text[any] # None => all[k].text[any].of = all[k].key
  BY <1>3, <1>4, <1>5, <1>6 DEF KeyedOnWhatWasConsumed
<1> HIDE DEF all
<1>9. /\ CacheTyped(Evicted(all))
      /\ \A k \in DOMAIN Evicted(all) : \E i \in DOMAIN all : Evicted(all)[k] = all[i]
  BY <1>6, <1>7, EvictedKeeps
<1>10. QED
  BY <1>1, <1>8, <1>9

LEMMA AppliedPin ==
  ASSUME NEW p \in Pin, NEW r \in Result
  PROVE  /\ Applied(p, r) \in Pin
         /\ Applied(p, r).id = p.id /\ Applied(p, r).path = p.path /\ Applied(p, r).raw = p.raw
         /\ \A kind \in Kinds : Applied(p, r).cooking[kind] =>
              p.cooking[kind] /\ kind # r.job.kind
         /\ \A kind \in Kinds :
              \/ Applied(p, r).text[kind] = p.text[kind]
              \/ Applied(p, r).text[kind] = r.text /\ r.text # None
<1>1. /\ r.job \in Job /\ r.text \in MaybeText /\ r.job.kind \in Kinds
      /\ p.cooking \in [Kinds -> BOOLEAN] /\ p.text \in [Kinds -> MaybeText]
  BY DEF Result, Job, Pin
<1> DEFINE k == r.job.kind
           cooking == [p.cooking EXCEPT ![k] = FALSE]
           text == [p.text EXCEPT ![k] = IF r.text = None THEN @ ELSE r.text]
<1>2. cooking \in [Kinds -> BOOLEAN] /\ text \in [Kinds -> MaybeText]
  BY <1>1
<1>3. \A kind \in Kinds : cooking[kind] => p.cooking[kind] /\ kind # k
  BY <1>1
<1>4. \A kind \in Kinds :
        \/ text[kind] = p.text[kind]
        \/ text[kind] = r.text /\ r.text # None
  BY <1>1
<1>5. Applied(p, r) = [p EXCEPT !.cooking = cooking, !.text = text]
  BY DEF Applied
<1> HIDE DEF cooking, text
<1>6. /\ Applied(p, r) \in Pin
      /\ Applied(p, r).id = p.id /\ Applied(p, r).path = p.path /\ Applied(p, r).raw = p.raw
      /\ Applied(p, r).cooking = cooking /\ Applied(p, r).text = text
  BY <1>2, <1>5 DEF Pin
<1>7. QED
  BY <1>3, <1>4, <1>6


LEMMA HandleKeeps ==
  ASSUME PinInv, Handle
  PROVE  PinInv'
<1> DEFINE r    == Head(events)
           mine == {i \in DOMAIN pins : pins[i].id = r.job.id}
<1>1. /\ events # <<>> /\ events' = Tail(events)
      /\ pins' = [i \in DOMAIN pins |-> IF i \in mine THEN Applied(pins[i], r) ELSE pins[i]]
      /\ IF r.text # None /\ mine # {}
         THEN \E i \in mine : cache' = Stored(pins[i].raw, r.job.kind, r.text)
         ELSE UNCHANGED cache
      /\ UNCHANGED <<file, next_id, jobs, queue, hand, raced, bounds>>
  BY DEF Handle
<1>2. TypeOK /\ Told /\ Numbered(next_id, InFlight) /\ Fits(pins, next_id, InFlight, ~raced)
  BY DEF PinInv
<1>3. events \in Seq(Result)
  BY <1>2 DEF TypeOK
<1>4. /\ r \in Result /\ events' \in Seq(Result)
      /\ ToSet(events) = {r} \cup ToSet(events')
  BY <1>1, <1>3, ElementsOfHead
<1> HIDE DEF r
<1>5. InFlight = InFlight' \cup {r.job}
  BY <1>1, <1>4 DEF InFlight
<1>6. pins \in Seq(Pin) /\ Distinct(pins) /\ \A i \in DOMAIN pins : pins[i] \in Pin
  <2>1. pins \in Seq(Pin) /\ Distinct(pins)
    BY <1>2, PinsDistinct
  <2>2. QED
    BY <2>1
<1>7. \A i \in DOMAIN pins :
        /\ pins'[i] \in Pin /\ pins'[i].id = pins[i].id /\ pins'[i].path = pins[i].path
        /\ pins'[i].raw = pins[i].raw
        /\ \A kind \in Kinds : pins'[i].cooking[kind] =>
             pins[i].cooking[kind] /\ (i \in mine => kind # r.job.kind)
        /\ \A kind \in Kinds :
             \/ pins'[i].text[kind] = pins[i].text[kind]
             \/ i \in mine /\ pins'[i].text[kind] = r.text /\ r.text # None
  <2> SUFFICES ASSUME NEW i \in DOMAIN pins
               PROVE  /\ pins'[i] \in Pin /\ pins'[i].id = pins[i].id
                      /\ pins'[i].path = pins[i].path /\ pins'[i].raw = pins[i].raw
                      /\ \A kind \in Kinds : pins'[i].cooking[kind] =>
                           pins[i].cooking[kind] /\ (i \in mine => kind # r.job.kind)
                      /\ \A kind \in Kinds :
                           \/ pins'[i].text[kind] = pins[i].text[kind]
                           \/ /\ i \in mine /\ pins'[i].text[kind] = r.text
                              /\ r.text # None
    OBVIOUS
  <2>1. pins'[i] = IF i \in mine THEN Applied(pins[i], r) ELSE pins[i]
    BY <1>1
  <2> HIDE DEF mine
  <2>2. CASE i \in mine
    BY <1>4, <1>6, <2>1, <2>2, AppliedPin
  <2>3. CASE i \notin mine
    BY <1>6, <2>1, <2>3
  <2>4. QED
    BY <2>2, <2>3
<1>8. DOMAIN pins' = DOMAIN pins
  BY <1>1
<1>9. pins' \in Seq(Pin) /\ Distinct(pins')
  <2>1. Len(pins) \in Nat /\ DOMAIN pins = 1 .. Len(pins)
    BY <1>6
  <2>2. pins' \in [1 .. Len(pins) -> Pin]
    BY <1>1, <1>7, <2>1
  <2>3. pins' \in Seq(Pin)
    BY <2>1, <2>2
  <2>4. QED
    BY <2>3, <1>6, <1>7, <1>8 DEF Distinct
<1>10. ~raced => \A i \in mine : r.text # None => r.text.of = pins[i].raw
  BY <1>2, <1>4, <1>5 DEF Told, Fits
<1>11. Fits(pins', next_id, InFlight', ~raced)
  <2> SUFFICES ASSUME NEW i \in DOMAIN pins
               PROVE  /\ pins'[i].id < next_id
                      /\ \A kind \in Kinds : pins'[i].cooking[kind] =>
                           \E j \in InFlight' : j.id = pins'[i].id /\ j.kind = kind
                      /\ \A j \in InFlight' : j.id = pins'[i].id =>
                           j.path = pins'[i].path /\ (~raced => j.of = pins'[i].raw)
                      /\ ~raced => \A kind \in Kinds : pins'[i].text[kind] # None =>
                                     pins'[i].text[kind].of = pins'[i].raw
    BY <1>8 DEF Fits
  <2>1. pins'[i].id < next_id
    BY <1>2, <1>7 DEF Fits
  <2>2. ASSUME NEW kind \in Kinds, pins'[i].cooking[kind]
        PROVE  \E j \in InFlight' : j.id = pins'[i].id /\ j.kind = kind
    <3>1. PICK j \in InFlight : j.id = pins[i].id /\ j.kind = kind
      BY <1>2, <1>7, <2>2 DEF Fits
    <3>2. j # r.job
      BY <1>7, <2>2, <3>1
    <3>3. QED
      BY <1>5, <1>7, <3>1, <3>2
  <2>3. \A j \in InFlight' : j.id = pins'[i].id =>
          j.path = pins'[i].path /\ (~raced => j.of = pins'[i].raw)
    BY <1>2, <1>5, <1>7 DEF Fits
  <2>4. ~raced => \A kind \in Kinds : pins'[i].text[kind] # None =>
                    pins'[i].text[kind].of = pins'[i].raw
    BY <1>2, <1>7, <1>10 DEF Fits
  <2>5. QED
    BY <2>1, <2>2, <2>3, <2>4
<1>12. CacheTyped(cache') /\ (~raced => KeyedOnWhatWasConsumed')
  <2>1. CASE r.text # None /\ mine # {}
    <3>1. PICK i \in mine : cache' = Stored(pins[i].raw, r.job.kind, r.text)
      BY <1>1, <2>1
    <3>2. pins[i].raw \in Contents /\ r.job.kind \in Kinds /\ r.text \in MaybeText
      BY <1>4, <1>6 DEF Pin, Result, Job
    <3>3. ~raced => r.text.of = pins[i].raw /\ KeyedOnWhatWasConsumed
      BY <2>1, <1>10 DEF PinInv
    <3>4. QED
      BY <1>2, <3>1, <3>2, <3>3, StoredKeeps DEF KeyedOnWhatWasConsumed
  <2>2. CASE ~(r.text # None /\ mine # {})
    BY <2>2, <1>1 DEF PinInv, TypeOK, CacheTyped, KeyedOnWhatWasConsumed
  <2>3. QED
    BY <2>1, <2>2
<1>13. TypeOK'
  BY <1>1, <1>2, <1>4, <1>9, <1>12 DEF TypeOK, CacheTyped, Distinct, bounds
<1>14. Told'
  BY <1>2, <1>4 DEF Told
<1>15. Numbered(next_id, InFlight')
  BY <1>2, <1>5 DEF Numbered
<1>16. next_id' = next_id /\ raced' = raced
  BY <1>1
<1>17. QED
  BY <1>11, <1>12, <1>13, <1>14, <1>15, <1>16 DEF PinInv

-----------------------------------------------------------------------------
(* The worker, and the world *)

\* A job that changes hands is in flight before and after.
LEMMA WorkKeeps ==
  ASSUME PinInv, InFlight' = InFlight, UNCHANGED <<file, cache, pins, next_id, raced, bounds>>,
         jobs' \in Seq(Job \cup {Cancel}), queue' \in Seq(Job), hand' \in Job \cup {None},
         events' \in Seq(Result), Told'
  PROVE  PinInv'
<1>1. TypeOK'
  BY DEF PinInv, TypeOK, bounds
<1>2. Fits(pins', next_id', InFlight', ~raced') /\ Numbered(next_id', InFlight')
  BY DEF PinInv
<1>3. ~raced' => KeyedOnWhatWasConsumed'
  BY DEF PinInv, KeyedOnWhatWasConsumed
<1>4. QED
  BY <1>1, <1>2, <1>3 DEF PinInv

LEMMA FailedAll ==
  ASSUME NEW q \in Seq(Job)
  PROVE  /\ [i \in DOMAIN q |-> Failed(q[i])] \in Seq(Result)
         /\ {r.job : r \in ToSet([i \in DOMAIN q |-> Failed(q[i])])} = ToSet(q)
         /\ \A r \in ToSet([i \in DOMAIN q |-> Failed(q[i])]) : r.text = None
<1> DEFINE back == [i \in DOMAIN q |-> Failed(q[i])]
<1>1. Len(q) \in Nat /\ DOMAIN q = 1 .. Len(q) /\ \A i \in DOMAIN q : q[i] \in Job
  OBVIOUS
<1>2. \A j \in Job : Failed(j) \in Result /\ Failed(j).job = j /\ Failed(j).text = None
  BY DEF Failed, Result, MaybeText
<1>3. DOMAIN back = DOMAIN q /\ \A i \in DOMAIN q : back[i] = Failed(q[i])
  OBVIOUS
<1>4. back \in Seq(Result)
  <2>1. back \in [1 .. Len(q) -> Result]
    BY <1>1, <1>2
  <2>2. QED
    BY <1>1, <2>1
<1> HIDE DEF back
<1>5. /\ {r.job : r \in ToSet(back)} = ToSet(q)
      /\ \A r \in ToSet(back) : r.text = None
  BY <1>1, <1>2, <1>3 DEF ToSet
<1>6. QED
  BY <1>4, <1>5 DEF back

LEMMA DrainKeeps ==
  ASSUME PinInv, Drain
  PROVE  PinInv'
<1>1. /\ jobs # <<>> /\ jobs' = Tail(jobs)
      /\ UNCHANGED <<file, cache, pins, next_id, hand, raced, bounds>>
  BY DEF Drain
<1>2. TypeOK /\ Told
  BY DEF PinInv
<1>3. /\ jobs \in Seq(Job \cup {Cancel}) /\ queue \in Seq(Job) /\ events \in Seq(Result)
      /\ hand \in Job \cup {None}
  BY <1>2 DEF TypeOK
<1>4. /\ Head(jobs) \in Job \cup {Cancel} /\ jobs' \in Seq(Job \cup {Cancel})
      /\ ToSet(jobs) = {Head(jobs)} \cup ToSet(jobs')
  BY <1>1, <1>3, ElementsOfHead
<1>5. CASE Head(jobs) = Cancel
  <2> DEFINE back == [i \in DOMAIN queue |-> Failed(queue[i])]
  <2>1. events' = events \o back /\ queue' = <<>>
    BY <1>5 DEF Drain
  <2>2. /\ back \in Seq(Result) /\ {r.job : r \in ToSet(back)} = ToSet(queue)
        /\ \A r \in ToSet(back) : r.text = None
    BY <1>3, FailedAll
  <2> HIDE DEF back
  <2>3. events' \in Seq(Result) /\ ToSet(events') = ToSet(events) \cup ToSet(back)
    BY <1>3, <2>1, <2>2, ElementsOfBoth
  <2>4. ToSet(queue') = {} /\ queue' \in Seq(Job)
    BY <2>1 DEF ToSet
  <2>5. {r.job : r \in ToSet(events')} = {r.job : r \in ToSet(events)} \cup ToSet(queue)
    BY <2>2, <2>3
  <2>6. InFlight' = InFlight
    BY <1>1, <1>4, <1>5, <2>4, <2>5 DEF InFlight
  <2>7. Told'
    BY <1>2, <2>2, <2>3 DEF Told
  <2>8. QED
    BY <1>1, <1>3, <1>4, <2>3, <2>4, <2>6, <2>7, WorkKeeps
<1>6. CASE Head(jobs) # Cancel
  <2>1. queue' = Append(queue, Head(jobs)) /\ events' = events /\ Head(jobs) \in Job
    BY <1>4, <1>6 DEF Drain
  <2>2. queue' \in Seq(Job) /\ ToSet(queue') = ToSet(queue) \cup {Head(jobs)}
    BY <1>3, <2>1, ElementsOfAppend
  <2>3. InFlight' = InFlight
    BY <1>1, <1>4, <1>6, <2>1, <2>2 DEF InFlight
  <2>4. Told'
    BY <1>2, <2>1 DEF Told
  <2>5. QED
    BY <1>1, <1>3, <1>4, <2>1, <2>2, <2>3, <2>4, WorkKeeps
<1>7. QED
  BY <1>5, <1>6

LEMMA StartKeeps ==
  ASSUME PinInv, Start
  PROVE  PinInv'
<1>1. /\ hand = None /\ queue # <<>> /\ hand' = Head(queue) /\ queue' = Tail(queue)
      /\ UNCHANGED <<file, cache, pins, next_id, jobs, events, raced, bounds>>
  BY DEF Start
<1>2. queue \in Seq(Job) /\ jobs \in Seq(Job \cup {Cancel}) /\ events \in Seq(Result) /\ Told
  BY DEF PinInv, TypeOK
<1>3. hand' \in Job /\ queue' \in Seq(Job) /\ ToSet(queue) = {hand'} \cup ToSet(queue')
  BY <1>1, <1>2, ElementsOfHead
<1>4. InFlight' = InFlight
  BY <1>1, <1>3, NoneAssumption DEF InFlight
<1>5. Told'
  BY <1>1, <1>2 DEF Told
<1>6. QED
  BY <1>1, <1>2, <1>3, <1>4, <1>5, WorkKeeps

LEMMA FinishKeeps ==
  ASSUME PinInv, Finish
  PROVE  PinInv'
<1>1. /\ hand # None /\ hand' = None
      /\ UNCHANGED <<file, cache, pins, next_id, jobs, queue, raced, bounds>>
  BY DEF Finish
<1>2. PICK text \in [of : {hand.of}, len : Lengths] \cup {None} :
        events' = Append(events, [job |-> hand, text |-> text])
  BY DEF Finish
<1>3. /\ events \in Seq(Result) /\ hand \in Job /\ Told
      /\ jobs \in Seq(Job \cup {Cancel}) /\ queue \in Seq(Job)
  BY <1>1 DEF PinInv, TypeOK
<1>4. text \in MaybeText /\ (text # None => text.of = hand.of)
  BY <1>2, <1>3 DEF MaybeText, Text, Job
<1> DEFINE r == [job |-> hand, text |-> text]
<1>5. r \in Result /\ r.job = hand /\ r.text = text
  BY <1>3, <1>4 DEF Result
<1>6. events' = Append(events, r)
  BY <1>2
<1> HIDE DEF r
<1>7. events' \in Seq(Result) /\ ToSet(events') = ToSet(events) \cup {r}
  BY <1>3, <1>5, <1>6, ElementsOfAppend
<1>8. InFlight' = InFlight
  BY <1>1, <1>5, <1>7 DEF InFlight
<1>9. Told'
  BY <1>3, <1>4, <1>5, <1>7 DEF Told
<1>10. QED
  BY <1>1, <1>3, <1>7, <1>8, <1>9, WorkKeeps

LEMMA EditKeeps ==
  ASSUME PinInv, NEW path \in Paths, NEW content \in Contents \cup {None}, Edit(path, content)
  PROVE  PinInv'
<1>1. /\ edits < MaxEdits /\ edits' = edits + 1 /\ file' = [file EXCEPT ![path] = content]
      /\ UNCHANGED <<cache, pins, next_id, raced, verbs, sessions>>
      /\ UNCHANGED <<jobs, queue, hand, events>>
  BY DEF Edit, worker
<1>2. TypeOK'
  BY <1>1, Bounds DEF PinInv, TypeOK
<1>3. InFlight' = InFlight /\ Told'
  BY <1>1 DEF InFlight, Told, PinInv
<1>4. Fits(pins', next_id', InFlight', ~raced') /\ Numbered(next_id', InFlight')
  BY <1>1, <1>3 DEF PinInv
<1>5. ~raced' => KeyedOnWhatWasConsumed'
  BY <1>1 DEF PinInv, KeyedOnWhatWasConsumed
<1>6. QED
  BY <1>2, <1>3, <1>4, <1>5 DEF PinInv

\* A session starts with nothing pinned and nothing in flight.
LEMMA RestartKeeps ==
  ASSUME PinInv, Restart
  PROVE  PinInv'
<1>1. /\ sessions < MaxSessions /\ sessions' = sessions + 1 /\ pins' = <<>> /\ next_id' = 1
      /\ jobs' = <<>> /\ queue' = <<>> /\ hand' = None /\ events' = <<>>
      /\ UNCHANGED <<file, cache, raced, edits, verbs>>
  BY DEF Restart
<1>2. ToSet(jobs') = {} /\ ToSet(queue') = {} /\ ToSet(events') = {} /\ DOMAIN pins' = {}
  BY <1>1 DEF ToSet
<1>3. InFlight' = {}
  BY <1>1, <1>2 DEF InFlight
<1>4. TypeOK'
  BY <1>1, Bounds DEF PinInv, TypeOK
<1>5. /\ Told' /\ Numbered(next_id', InFlight')
      /\ Fits(pins', next_id', InFlight', ~raced')
  BY <1>2, <1>3 DEF Told, Numbered, Fits
<1>6. ~raced' => KeyedOnWhatWasConsumed'
  BY <1>1 DEF PinInv, KeyedOnWhatWasConsumed
<1>7. QED
  BY <1>4, <1>5, <1>6 DEF PinInv

LEMMA PinInit ==
  ASSUME Init
  PROVE  PinInv
<1>1. /\ file \in [Paths -> Contents] /\ cache = <<>> /\ pins = <<>> /\ next_id = 1
      /\ jobs = <<>> /\ queue = <<>> /\ hand = None /\ events = <<>> /\ raced = FALSE
      /\ edits = 0 /\ verbs = 0 /\ sessions = 1
  BY DEF Init
<1>2. ToSet(jobs) = {} /\ ToSet(queue) = {} /\ ToSet(events) = {} /\ DOMAIN pins = {}
  BY <1>1 DEF ToSet
<1>3. InFlight = {}
  BY <1>1, <1>2 DEF InFlight
<1>4. CacheKeep \in Nat /\ Len(cache) = 0 /\ DOMAIN cache = {} /\ cache \in Seq(Entry)
  BY <1>1, BudgetsAssumption
<1>5. TypeOK
  <2>1. /\ next_id \in 1 .. MaxPins + 1
        /\ edits \in 0 .. MaxEdits /\ verbs \in 0 .. MaxVerbs /\ sessions \in 1 .. MaxSessions
    BY <1>1, Bounds
  <2>2. /\ jobs \in Seq(Job \cup {Cancel}) /\ queue \in Seq(Job) /\ hand \in Job \cup {None}
        /\ events \in Seq(Result) /\ raced \in BOOLEAN /\ pins \in Seq(Pin)
    <3>1. /\ <<>> \in Seq(Job \cup {Cancel}) /\ <<>> \in Seq(Job)
          /\ <<>> \in Seq(Result) /\ <<>> \in Seq(Pin)
      OBVIOUS
    <3>2. raced \in BOOLEAN /\ hand \in Job \cup {None}
      BY <1>1
    <3>3. QED
      BY <1>1, <3>1, <3>2
  <2>3. file \in [Paths -> Contents \cup {None}]
    <3>1. [Paths -> Contents] \subseteq [Paths -> Contents \cup {None}]
      OBVIOUS
    <3>2. QED
      BY <1>1, <3>1
  <2>4. QED
    BY <1>1, <1>2, <1>4, <2>1, <2>2, <2>3 DEF TypeOK
<1>6. Told /\ Numbered(next_id, InFlight) /\ Fits(pins, next_id, InFlight, ~raced)
  BY <1>2, <1>3 DEF Told, Numbered, Fits
<1>7. KeyedOnWhatWasConsumed
  BY <1>4 DEF KeyedOnWhatWasConsumed
<1>8. QED
  BY <1>5, <1>6, <1>7 DEF PinInv

LEMMA PinStep ==
  ASSUME PinInv, [Next]_vars
  PROVE  PinInv'
<1>1. CASE \E path \in Paths, pinclear \in BOOLEAN : PinPath(path, pinclear)
  BY <1>1, PinPathKeeps
<1>2. CASE \E i \in 1 .. MaxPins : Drop(i)
  BY <1>2, DropKeeps
<1>3. CASE Clear
  BY <1>3, ClearKeeps
<1>4. CASE CancelCooks
  BY <1>4, CancelCooksKeeps
<1>5. CASE Handle
  BY <1>5, HandleKeeps
<1>6. CASE Restart
  BY <1>6, RestartKeeps
<1>7. CASE \E path \in Paths, content \in Contents \cup {None} : Edit(path, content)
  BY <1>7, EditKeeps
<1>8. CASE Drain
  BY <1>8, DrainKeeps
<1>9. CASE Start
  BY <1>9, StartKeeps
<1>10. CASE Finish
  BY <1>10, FinishKeeps
<1>11. CASE UNCHANGED vars
  <2>1. /\ UNCHANGED <<file, cache, pins, next_id, raced, bounds>>
        /\ UNCHANGED <<jobs, queue, hand, events>>
    BY <1>11 DEF vars, worker
  <2>2. InFlight' = InFlight /\ Told'
    BY <2>1 DEF InFlight, Told, PinInv
  <2>3. /\ jobs' \in Seq(Job \cup {Cancel}) /\ queue' \in Seq(Job)
        /\ hand' \in Job \cup {None} /\ events' \in Seq(Result)
    BY <2>1 DEF PinInv, TypeOK
  <2>4. QED
    BY <2>1, <2>2, <2>3, WorkKeeps
<1>12. QED
  BY <1>1, <1>2, <1>3, <1>4, <1>5, <1>6, <1>7, <1>8, <1>9, <1>10, <1>11 DEF Next

LEMMA PinInvariant == Spec => []PinInv
  BY PinInit, PinStep, PTL DEF Spec

-----------------------------------------------------------------------------
(* The theorems *)

\* The pin set, the cache, the channel and the worker keep their types: one pin
\* to a path and to an id, one entry to a key, and no more than the cache keeps
\* (WorkContext::pin, pincache::store and evict).
THEOREM PinsTyped == Spec => []TypeOK
<1>1. PinInv => TypeOK
  BY DEF PinInv
<1>2. QED
  BY <1>1, PinInvariant, PTL

\* A pin marked as cooking has its job on its way to the worker or back
\* (kick_digests, cancel_cooking, set_digest and set_card).
THEOREM MeterIsAnswered == Spec => []CookingIsComing
<1>1. PinInv => CookingIsComing
  BY DEF PinInv, Fits, CookingIsComing
<1>2. QED
  BY <1>1, PinInvariant, PTL

\* A result is never for a pin of another path: ids outlive a re-pin and are not
\* given again (WorkContext::pin).
THEOREM IdsAreNotReused == Spec => []ResultsFindTheirPin
<1>1. PinInv => ResultsFindTheirPin
  BY DEF PinInv, Fits, ResultsFindTheirPin
<1>2. QED
  BY <1>1, PinInvariant, PTL

\* Until a path is pinned again in mid-ingest, every text in the cache is of
\* what it is filed under, and every text on a pin of what the pin holds.
THEOREM TextsAreTrue == Spec => []TextsAreOfTheirPin
<1>1. PinInv => TextsAreOfTheirPin
  BY DEF PinInv, Fits, TextsAreOfTheirPin
<1>2. QED
  BY <1>1, PinInvariant, PTL

=============================================================================
