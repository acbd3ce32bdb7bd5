------------------------ MODULE EngineContractProofs ------------------------
(***************************************************************************)
(* The worker keeps the engine's contract, for every number of calls,      *)
(* every backfill capacity and every configuration: a refinement of        *)
(* EngineContract in which a step that moves a call from one queue to      *)
(* another is nothing, and the ends of a generation and of a displaced,    *)
(* cancelled or refused call are the contract's steps.                     *)
(***************************************************************************)
EXTENDS EngineWorkerProofs

USE MaxCallsAssumption, CapAssumption, FlagAssumption

-----------------------------------------------------------------------------
(* Where a call can be between its submission and its verdict *)

\* On its way to the worker, or just received.
Arriving == ToSet(jobs) \cup ({calling} \ {NoJob}) \cup (IF Receiving THEN {job} ELSE {})

\* Kept by the worker.
Queued == ({latest} \ {NoJob}) \cup Held \cup ToSet(digests)

\* Being generated for.
InHand == IF Generating THEN {job} ELSE {}

Present == Arriving \cup Queued \cup InHand

\* A call that is somewhere is still open.
AllOpen == \A r \in Present : r.n \in 1 .. calls /\ verdict[r.n] = "none"

\* A number is one call's.
Numbered == \A r, s \in Present : r.n = s.n => r = s

\* And a call is in one place.
Apart ==
  /\ \A r \in Queued \cup InHand : r \notin Arriving
  /\ \A r \in InHand : r \notin Queued
  /\ \A i, k \in 1 .. Len(digests) : i < k => digests[i] # digests[k]

Placed == AllOpen /\ Numbered /\ Apart
Known  == TypeOK /\ QueueInv

-----------------------------------------------------------------------------
(* The kinds keep the queues apart, the order keeps the channel apart. *)

LEMMA PlaceTypes ==
  ASSUME TypeOK
  PROVE  /\ \A r \in {latest} \ {NoJob} : r \in JobOf(Asks)
         /\ \A r \in Held : r \in JobOf(Researches)
         /\ \A r \in ToSet(digests) : r \in JobOf({"Digest"})
         /\ \A r \in ToSet(jobs) : r \in Job
         /\ \A r \in {calling} \ {NoJob} : r \in JobOf(Controls)
         /\ Receiving => job \in Job
<1>1. \A r \in ToSet(digests) : r \in JobOf({"Digest"})
  BY DEF TypeOK, ToSet
<1>2. \A r \in ToSet(jobs) : r \in Job
  BY DEF TypeOK, ToSet
<1>3. Receiving => job \in Job
  BY DEF TypeOK, Receiving
<1>4. QED
  BY <1>1, <1>2, <1>3, HeldType DEF TypeOK, Option

LEMMA KindsApart ==
  ASSUME TypeOK, NEW r
  PROVE  /\ r \in {latest} \ {NoJob} => r \notin Held /\ r \notin ToSet(digests)
         /\ r \in Held => r \notin ToSet(digests)
<1>1. /\ r \in JobOf(Asks) => r.kind \in Asks
      /\ r \in JobOf(Researches) => r.kind \in Researches
      /\ r \in JobOf({"Digest"}) => r.kind = "Digest"
  BY DEF JobOf
<1>2. QED
  BY <1>1, PlaceTypes DEF Asks, Researches

LEMMA PresentType ==
  ASSUME TypeOK, NEW r \in Present
  PROVE  r \in Job /\ r.n \in Calls
<1>1. r \in Job
  <2>1. \A kinds \in SUBSET JobKinds : JobOf(kinds) \subseteq Job
    BY DEF JobOf, Job
  <2>2. Asks \subseteq JobKinds /\ Researches \subseteq JobKinds /\ {"Digest"} \subseteq JobKinds
        /\ Controls \subseteq JobKinds
    BY DEF JobKinds
  <2>3. \A s \in InHand : s \in JobOf(Asks) \/ s \in JobOf(Researches) \/ s \in JobOf({"Digest"})
    BY DEF InHand, Generating, TypeOK, Receiving
  <2>4. QED
    BY <2>1, <2>2, <2>3, PlaceTypes DEF Present, Arriving, Queued
<1>2. QED
  BY <1>1 DEF Job, JobOf

\* The call just received, and one between its interrupt and its send, are not
\* in the channel.
LEMMA ChannelApart ==
  ASSUME TypeOK, QueueInv
  PROVE  /\ Receiving => job \notin ToSet(jobs) /\ job # calling
         /\ calling # NoJob => calling \notin ToSet(jobs)
<1>1. /\ \A i \in 1 .. Len(jobs) : jobs[i].n <= Sent /\ jobs[i].n \in Nat
      /\ Receiving => job.n \in Nat /\ job.n <= Sent /\ \A i \in 1 .. Len(jobs) : job.n < jobs[i].n
  BY JobNumbers DEF QueueInv, InOrder
<1>2. calling # NoJob => Sent < calling.n /\ calling.n \in Nat /\ Sent \in Int
  BY JobNumbers DEF QueueInv, InOrder, Sent
<1>3. \A r \in ToSet(jobs) : \E i \in 1 .. Len(jobs) : r = jobs[i]
  BY DEF ToSet, TypeOK
<1>4. Receiving => job # NoJob
  BY PlaceTypes DEF Job, JobOf, NoJob, JobKinds, Asks, Researches, Controls, Quiet
<1>5. QED
  BY <1>1, <1>2, <1>3, <1>4

-----------------------------------------------------------------------------
(* Steps as the contract sees them *)

\* Calls that leave are closed, and those that stay are not touched.
LEMMA Settling ==
  ASSUME Known, Placed, TypeOK', calls' = calls, NEW C, C \subseteq Present,
         Present' \subseteq Present, \A r \in Present' : r \notin C,
         \A n \in Calls : verdict'[n] = verdict[n] \/ \E c \in C : c.n = n
  PROVE  /\ AllOpen' /\ Numbered'
         /\ \A n \in Calls : verdict'[n] # verdict[n] => n \in 1 .. calls /\ verdict[n] = "none"
<1>1. Numbered'
  BY DEF Placed, Numbered
<1>2. ASSUME NEW r \in Present' PROVE r.n \in 1 .. calls' /\ verdict'[r.n] = "none"
  <2>1. r \in Present /\ r.n \in Calls /\ r.n \in 1 .. calls /\ verdict[r.n] = "none"
    BY <1>2, PresentType DEF Known, Placed, AllOpen
  <2>2. \A c \in C : c.n # r.n
    BY <1>2, <2>1 DEF Placed, Numbered
  <2>3. QED
    BY <2>1, <2>2
<1>3. QED
  BY <1>1, <1>2 DEF AllOpen, Placed

\* Between generations that is what the contract calls a disposal.
LEMMA Disposing ==
  ASSUME TypeOK', calls' = calls, running = 0, running' = 0,
         \A n \in Calls : verdict'[n] # verdict[n] =>
           n \in 1 .. calls /\ verdict[n] = "none" /\ verdict'[n] \in Contract!UnrunVerdicts
  PROVE  Contract!Next
<1>1. Verdicts = Contract!UnrunVerdicts \cup Contract!RunVerdicts \cup {"none"}
  BY DEF Verdicts, Contract!UnrunVerdicts, Contract!RunVerdicts
<1>2. verdict' \in [1 .. MaxCalls -> Verdicts]
  BY DEF TypeOK, Calls
<1>3. Contract!Dispose
  BY <1>1, <1>2 DEF Contract!Dispose, Contract!Open, Calls
<1>4. QED
  BY <1>3 DEF Contract!Next

\* What closing calls does to the verdicts.
LEMMA Closing ==
  ASSUME TypeOK, NEW T, NEW v, Close(T, v)
  PROVE  \A n \in Calls : verdict'[n] = IF n \in T THEN v ELSE verdict[n]
  BY DEF Close

\* Nothing is generated for while jobs are received, queued or looked for.
LEMMA Idling ==
  /\ ~Generating => running = 0 /\ InHand = {}
  /\ Generating => running = job.n /\ InHand = {job}
  /\ Receiving => ~Generating
  BY DEF running, Generating, Receiving, InHand

\* Calls leave the places they were in, or move from a queue to the generation:
\* what is left is as well placed as before.
LEMMA Leaving ==
  ASSUME Known, Placed, TypeOK', UNCHANGED calls,
         Arriving' \subseteq Arriving, Queued' \cup InHand' \subseteq Queued \cup InHand,
         \A r \in InHand' : r \notin Queued',
         \A i, k \in 1 .. Len(digests') : i < k => digests'[i] # digests'[k],
         NEW C, C \subseteq Queued \cup InHand, \A r \in Queued' \cup InHand' : r \notin C,
         \A n \in Calls : verdict'[n] = verdict[n] \/ \E c \in C : c.n = n
  PROVE  /\ Placed'
         /\ \A n \in Calls : verdict'[n] # verdict[n] => n \in 1 .. calls /\ verdict[n] = "none"
<1>1. C \subseteq Present /\ Present' \subseteq Present
  BY DEF Present
<1>2. \A r \in Present' : r \notin C
  BY DEF Present, Placed, Apart
<1>3. Apart'
  BY DEF Placed, Apart
<1>4. QED
  BY <1>1, <1>2, <1>3, Settling DEF Placed

LEMMA ElementsOf ==
  ASSUME NEW S, NEW s \in Seq(S)
  PROVE  ToSet(s) = {s[i] : i \in 1 .. Len(s)}
BY DEF ToSet

\* The head of a queue without repetitions is not in its tail.
LEMMA HeadGone ==
  ASSUME NEW S, NEW s \in Seq(S), s # <<>>,
         \A i, k \in 1 .. Len(s) : i < k => s[i] # s[k]
  PROVE  /\ Head(s) \in ToSet(s) /\ ToSet(Tail(s)) \subseteq ToSet(s) /\ Head(s) \notin ToSet(Tail(s))
         /\ \A i, k \in 1 .. Len(Tail(s)) : i < k => Tail(s)[i] # Tail(s)[k]
<1>1. /\ Head(s) = s[1] /\ Tail(s) \in Seq(S) /\ 1 \in 1 .. Len(s)
      /\ \A i \in 1 .. Len(Tail(s)) : i + 1 \in 1 .. Len(s) /\ Tail(s)[i] = s[i + 1]
  BY HeadTail
<1>2. Len(s) \in Nat /\ Len(Tail(s)) \in Nat
  BY <1>1
<1>3. ToSet(s) = {s[i] : i \in 1 .. Len(s)} /\ ToSet(Tail(s)) = {Tail(s)[i] : i \in 1 .. Len(Tail(s))}
  <2>1. Tail(s) \in Seq(S)
    BY <1>1
  <2>2. ToSet(Tail(s)) = {Tail(s)[i] : i \in 1 .. Len(Tail(s))}
    BY <2>1, ElementsOf, Zenon
  <2>3. QED
    BY <2>2, ElementsOf, Zenon
<1>4. \A i \in 1 .. Len(Tail(s)) : 1 < i + 1
  BY <1>2
<1>5. Head(s) \notin ToSet(Tail(s))
  BY <1>1, <1>3, <1>4
<1>6. ASSUME NEW i \in 1 .. Len(Tail(s)), NEW k \in 1 .. Len(Tail(s)), i < k
      PROVE  Tail(s)[i] # Tail(s)[k]
  <2>1. i + 1 < k + 1
    BY <1>2, <1>6
  <2>2. QED
    BY <1>1, <2>1
<1>7. QED
  BY <1>1, <1>3, <1>5, <1>6

\* Backfilled jobs have increasing numbers.
LEMMA BackfillApart ==
  ASSUME Known
  PROVE  \A i, k \in 1 .. Len(backfill) : i < k => backfill[i] # backfill[k]
<1>1. \A i \in 1 .. Len(backfill) : backfill[i].n \in Nat
  BY HeldType DEF Known
<1>2. \A i, k \in 1 .. Len(backfill) : i < k => backfill[i].n < backfill[k].n
  BY DEF Known, QueueInv, BackfillInOrder
<1>3. QED
  BY <1>1, <1>2

-----------------------------------------------------------------------------
(* The drain *)

\* The job in hand is gone from the channel's side, and nothing is generated.
LEMMA DrainTakes ==
  ASSUME Known, TypeOK', pc = "drain", TakeNext, UNCHANGED calling
  PROVE  /\ job \in Arriving /\ job \in Job
         /\ Arriving' \subseteq Arriving /\ job \notin Arriving'
         /\ running = 0 /\ running' = 0 /\ InHand = {} /\ InHand' = {}
<1>1. Receiving /\ ~Generating /\ ~Generating'
  BY DEF Receiving, Generating, TakeNext
<1>2. job \notin ToSet(jobs) /\ job # calling /\ job \in Job /\ job \in Arriving
  BY <1>1, ChannelApart DEF Known, TypeOK, Arriving
<1>3. Arriving' \subseteq ToSet(jobs) \cup ({calling} \ {NoJob})
  <2>1. CASE jobs # <<>>
    <3>1. /\ Head(jobs) = jobs[1] /\ 1 \in 1 .. Len(jobs)
          /\ Tail(jobs) \in Seq(Job)
          /\ \A i \in 1 .. Len(Tail(jobs)) : i + 1 \in 1 .. Len(jobs) /\ Tail(jobs)[i] = jobs[i + 1]
      BY <2>1, HeadTail DEF Known, TypeOK
    <3>2. jobs \in Seq(Job)
      BY DEF Known, TypeOK
    <3>3. ToSet(jobs) = {jobs[i] : i \in 1 .. Len(jobs)}
      BY <3>2 DEF ToSet
    <3>4. ToSet(Tail(jobs)) \subseteq ToSet(jobs)
      BY <3>1, <3>3 DEF ToSet
    <3>5. job' = Head(jobs) /\ jobs' = Tail(jobs) /\ Head(jobs) \in ToSet(jobs)
      BY <2>1, <3>1, <3>3 DEF TakeNext
    <3>6. QED
      BY <3>4, <3>5 DEF Arriving
  <2>2. CASE jobs = <<>>
    BY <2>2 DEF TakeNext, Arriving, Receiving
  <2>3. QED
    BY <2>1, <2>2
<1>4. QED
  BY <1>1, <1>2, <1>3, Idling DEF running, InHand, Generating, Arriving

\* What every arm of the drain does: the job joins a queue or is closed, and
\* with it whatever it displaces.
LEMMA DrainArm ==
  ASSUME Known, Placed, TypeOK', pc = "drain", TakeNext, UNCHANGED <<calls, calling>>,
         Queued' \subseteq Queued \cup {job},
         \A i, k \in 1 .. Len(digests') : i < k => digests'[i] # digests'[k],
         NEW C, C \subseteq Queued \cup {job}, \A r \in Queued' : r \notin C,
         \A n \in Calls : verdict'[n] = verdict[n] \/ \E c \in C : c.n = n,
         \A n \in Calls : verdict'[n] # verdict[n] => verdict'[n] \in Contract!UnrunVerdicts
  PROVE  Placed' /\ Contract!Next
<1>1. /\ job \in Arriving /\ Arriving' \subseteq Arriving /\ job \notin Arriving'
      /\ running = 0 /\ running' = 0 /\ InHand = {} /\ InHand' = {}
  BY DrainTakes
<1>2. C \subseteq Present /\ Present' \subseteq Present
  BY <1>1 DEF Present
<1>3. \A r \in Present' : r \notin C
  BY <1>1 DEF Present, Placed, Apart
<1>4. Apart'
  BY <1>1 DEF Placed, Apart
<1>5. /\ AllOpen' /\ Numbered'
      /\ \A n \in Calls : verdict'[n] # verdict[n] => n \in 1 .. calls /\ verdict[n] = "none"
  BY <1>2, <1>3, Settling
<1>6. Contract!Next
  BY <1>1, <1>5, Disposing
<1>7. QED
  BY <1>4, <1>5, <1>6 DEF Placed

\* Making room in the backfill lets go of exactly the evicted.
LEMMA Evicting ==
  ASSUME Known, NEW j \in JobOf(Researches)
  PROVE  LET gone == {r \in ToSet(backfill) : r.n \in Evicted(backfill)}
         IN  /\ ToSet(PushBackfill(backfill, j)) \subseteq ToSet(backfill) \cup {j}
             /\ \A r \in ToSet(PushBackfill(backfill, j)) : r = j \/ r \notin gone
             /\ \A n \in Evicted(backfill) : \E r \in gone : r.n = n
<1> DEFINE q == Kept(backfill)
<1>1. backfill \in Seq(JobOf(Researches))
  BY DEF Known, TypeOK
<1>2. /\ q \in Seq(JobOf(Researches))
      /\ \E d \in Nat : \A i \in 1 .. Len(q) : i + d \in 1 .. Len(backfill) /\ q[i] = backfill[i + d]
  BY <1>1, KeptSuffix
<1>3. ToSet(q) = {q[i] : i \in 1 .. Len(q)} /\ ToSet(backfill) = {backfill[i] : i \in 1 .. Len(backfill)}
  BY <1>1, <1>2 DEF ToSet
<1>4. ToSet(q) \subseteq ToSet(backfill)
  BY <1>2, <1>3
<1>5. /\ Append(q, j) \in Seq(JobOf(Researches)) /\ Len(Append(q, j)) = Len(q) + 1
      /\ \A i \in 1 .. Len(q) : Append(q, j)[i] = q[i]
      /\ Append(q, j)[Len(q) + 1] = j /\ Len(q) \in Nat
  BY <1>2, Push
<1>6. ToSet(PushBackfill(backfill, j)) \subseteq ToSet(q) \cup {j}
  <2>1. ToSet(Append(q, j)) = {Append(q, j)[i] : i \in 1 .. Len(q) + 1}
    BY <1>5 DEF ToSet
  <2>2. \A i \in 1 .. Len(q) + 1 : i \in 1 .. Len(q) \/ i = Len(q) + 1
    BY <1>5
  <2>3. QED
    BY <1>3, <1>5, <2>1, <2>2 DEF PushBackfill
<1>7. \A r \in ToSet(q) : r.n \notin Evicted(backfill)
  BY DEF Evicted, Numbers
<1>8. QED
  BY <1>4, <1>6, <1>7 DEF Evicted, Numbers

LEMMA DrainStep ==
  ASSUME Known, Placed, TypeOK', Drain
  PROVE  Placed' /\ Contract!Next
<1> USE DEF session, queues, lanes, history, Contract!UnrunVerdicts
<1>1. pc = "drain" /\ TakeNext /\ UNCHANGED <<calls, calling>>
  BY DEF Drain, Draining, DrainAsk, DrainResearch, DrainDigest, DrainCancelResearch,
     DrainCancelDigests, DrainSetModel, DrainRebind, DrainSetSlowModel, DrainQuery
<1>2. job \in Job /\ job \in Arriving /\ job \notin Queued
  BY <1>1, DrainTakes DEF Placed, Apart
<1>3. digests' = digests => \A i, k \in 1 .. Len(digests') : i < k => digests'[i] # digests'[k]
  BY DEF Placed, Apart
<1>4. CASE DrainAsk
  <2> DEFINE C == {latest} \ {NoJob}
  <2>1. job # NoJob /\ latest' = job /\ UNCHANGED <<pending, backfill, digests>>
    BY <1>2, <1>4 DEF DrainAsk, Draining, Asks, NoJob
  <2>2. Queued' \subseteq (Queued \ C) \cup {job} /\ C \subseteq Queued
    BY <2>1, KindsApart DEF Known, Queued, Held
  <2>3. \A n \in Calls : verdict'[n] = IF n \in {latest.n} \ {0} THEN "displaced" ELSE verdict[n]
    BY <1>4, Closing DEF DrainAsk, Known
  <2>4. \A n \in {latest.n} \ {0} : \E c \in C : c.n = n
    BY DEF NoJob
  <2>5. \A r \in Queued' : r \notin C
    BY <1>2, <2>2
  <2>6. \A n \in Calls : verdict'[n] = verdict[n] \/ \E c \in C : c.n = n
    BY <2>3, <2>4
  <2>7. \A n \in Calls : verdict'[n] # verdict[n] => verdict'[n] \in Contract!UnrunVerdicts
    BY <2>3, <2>4
  <2>8. \A i, k \in 1 .. Len(digests') : i < k => digests'[i] # digests'[k]
    BY <1>3, <2>1
  <2>9. QED
    BY <1>1, <2>2, <2>5, <2>6, <2>7, <2>8, DrainArm
<1>5. CASE DrainResearch
  <2>1. job \in JobOf(Researches) /\ pending' = job /\ UNCHANGED <<latest, digests>>
    BY <1>2, <1>5 DEF DrainResearch, Draining, Job, JobOf
  <2>2. job # NoJob
    BY <2>1 DEF JobOf, Researches, NoJob
  <2>3. CASE pending # NoJob /\ BackfillAbandoned
    <3> DEFINE C == {r \in ToSet(backfill) : r.n \in Evicted(backfill)}
    <3>1. pending \in JobOf(Researches)
      BY <2>3 DEF Known, TypeOK, Option
    <3>2. /\ ToSet(PushBackfill(backfill, pending)) \subseteq ToSet(backfill) \cup {pending}
          /\ \A r \in ToSet(PushBackfill(backfill, pending)) : r = pending \/ r \notin C
          /\ \A n \in Evicted(backfill) : \E r \in C : r.n = n
      BY <3>1, Evicting
    <3>3. backfill' = PushBackfill(backfill, pending) /\ Close(Evicted(backfill), "replaced")
      BY <1>5, <2>3 DEF DrainResearch
    <3>4. \A n \in Calls : verdict'[n] = IF n \in Evicted(backfill) THEN "replaced" ELSE verdict[n]
      BY <3>3, Closing DEF Known
    <3>5. pending \notin ToSet(backfill)
      <4>1. \A i \in 1 .. Len(backfill) : backfill[i].n \in Nat /\ backfill[i].n < pending.n
        BY <2>3, HeldType DEF Known, QueueInv, BackfillInOrder
      <4>2. \A r \in ToSet(backfill) : \E i \in 1 .. Len(backfill) : r = backfill[i]
        BY DEF Known, TypeOK, ToSet
      <4>3. QED
        BY <4>1, <4>2
    <3>6. C \subseteq ToSet(backfill) /\ ToSet(backfill) \subseteq Held
      BY DEF Held
    <3>7. Held' \subseteq Held \cup {job} /\ \A r \in Held' : r = job \/ r \notin C
      BY <2>1, <2>2, <2>3, <3>2, <3>3, <3>5 DEF Held
    <3>8. Queued' \subseteq Queued \cup {job} /\ C \subseteq Queued /\ \A r \in Queued' : r \notin C
      BY <1>2, <2>1, <3>6, <3>7, KindsApart DEF Queued, Known
    <3>9. \A n \in Calls : verdict'[n] = verdict[n] \/ \E c \in C : c.n = n
      BY <3>2, <3>4
    <3>10. \A n \in Calls : verdict'[n] # verdict[n] => verdict'[n] \in Contract!UnrunVerdicts
      BY <3>2, <3>4
    <3>11. \A i, k \in 1 .. Len(digests') : i < k => digests'[i] # digests'[k]
      BY <1>3, <2>1
    <3>12. QED
      BY <1>1, <3>8, <3>9, <3>10, <3>11, DrainArm
  <2>4. CASE ~(pending # NoJob /\ BackfillAbandoned)
    <3> DEFINE C == {pending} \ {NoJob}
    <3>1. backfill' = backfill /\ Close({pending.n} \ {0}, "replaced")
      BY <1>5, <2>4 DEF DrainResearch
    <3>2. \A n \in Calls : verdict'[n] = IF n \in {pending.n} \ {0} THEN "replaced" ELSE verdict[n]
      BY <3>1, Closing DEF Known
    <3>3. \A n \in {pending.n} \ {0} : \E c \in C : c.n = n
      BY DEF NoJob
    <3>4. pending # NoJob => pending \notin ToSet(backfill)
      <4>1. \A i \in 1 .. Len(backfill) : pending # NoJob => backfill[i].n \in Nat /\ backfill[i].n < pending.n
        BY HeldType DEF Known, QueueInv, BackfillInOrder
      <4>2. \A r \in ToSet(backfill) : \E i \in 1 .. Len(backfill) : r = backfill[i]
        BY DEF Known, TypeOK, ToSet
      <4>3. QED
        BY <4>1, <4>2
    <3>5. Held' \subseteq Held \cup {job} /\ C \subseteq Held /\ \A r \in Held' : r = job \/ r \notin C
      BY <2>1, <3>1, <3>4 DEF Held
    <3>6. Queued' \subseteq Queued \cup {job} /\ C \subseteq Queued /\ \A r \in Queued' : r \notin C
      BY <1>2, <2>1, <3>5, KindsApart DEF Queued, Known
    <3>7. \A n \in Calls : verdict'[n] = verdict[n] \/ \E c \in C : c.n = n
      BY <3>2, <3>3
    <3>8. \A n \in Calls : verdict'[n] # verdict[n] => verdict'[n] \in Contract!UnrunVerdicts
      BY <3>2, <3>3
    <3>9. \A i, k \in 1 .. Len(digests') : i < k => digests'[i] # digests'[k]
      BY <1>3, <2>1
    <3>10. QED
      BY <1>1, <3>6, <3>7, <3>8, <3>9, DrainArm
  <2>5. QED
    BY <2>3, <2>4
<1>6. CASE DrainDigest
  <2>1. digests' = Append(digests, job) /\ UNCHANGED <<latest, pending, backfill, verdict>>
        /\ job \in JobOf({"Digest"}) /\ digests \in Seq(JobOf({"Digest"}))
    BY <1>2, <1>6 DEF DrainDigest, Draining, Job, JobOf, Known, TypeOK
  <2>2. /\ Len(digests') = Len(digests) + 1 /\ digests'[Len(digests) + 1] = job /\ Len(digests) \in Nat
        /\ \A i \in 1 .. Len(digests) : digests'[i] = digests[i]
        /\ digests' \in Seq(JobOf({"Digest"}))
    BY <2>1, Push
  <2>3. \A i \in 1 .. Len(digests') : i \in 1 .. Len(digests) \/ i = Len(digests) + 1
    BY <2>2
  <2>4. ToSet(digests) = {digests[i] : i \in 1 .. Len(digests)}
        /\ ToSet(digests') = {digests'[i] : i \in 1 .. Len(digests')}
    BY <2>1, <2>2 DEF ToSet
  <2>5. ToSet(digests') \subseteq ToSet(digests) \cup {job}
    BY <2>2, <2>3, <2>4
  <2>6. Queued' \subseteq Queued \cup {job}
    BY <2>1, <2>5 DEF Queued, Held
  <2>7. \A i \in 1 .. Len(digests) : digests[i] # job
    BY <1>2, <2>4 DEF Queued
  <2>8. ASSUME NEW i \in 1 .. Len(digests'), NEW k \in 1 .. Len(digests'), i < k
        PROVE  digests'[i] # digests'[k]
    <3>1. i \in 1 .. Len(digests)
      BY <2>2, <2>8
    <3>2. k \in 1 .. Len(digests) => digests[i] # digests[k]
      BY <2>8, <3>1 DEF Placed, Apart
    <3>3. QED
      BY <2>2, <2>3, <2>7, <3>1, <3>2
  <2> DEFINE C == {}
  <2>9. C \subseteq Queued \cup {job} /\ \A r \in Queued' : r \notin C
    OBVIOUS
  <2>10. \A n \in Calls : verdict'[n] = verdict[n] \/ \E c \in C : c.n = n
    BY <2>1
  <2>11. \A n \in Calls : verdict'[n] # verdict[n] => verdict'[n] \in Contract!UnrunVerdicts
    BY <2>1
  <2>12. \A i, k \in 1 .. Len(digests') : i < k => digests'[i] # digests'[k]
    BY <2>8
  <2>13. QED
    BY <1>1, <2>6, <2>9, <2>10, <2>11, <2>12, DrainArm
<1>7. CASE DrainCancelResearch
  <2> DEFINE C == {job} \cup Held
  <2>1. pending' = NoJob /\ backfill' = <<>> /\ UNCHANGED <<latest, digests>>
    BY <1>7 DEF DrainCancelResearch
  <2>2. Held' = {}
    BY <2>1 DEF Held, ToSet
  <2>3. Queued' \subseteq Queued /\ C \subseteq Queued \cup {job} /\ \A r \in Queued' : r \notin C
    BY <1>2, <2>1, <2>2, KindsApart DEF Queued, Known
  <2>4. \A n \in Calls : verdict'[n] = IF n = job.n THEN "applied"
                                       ELSE IF n \in {pending.n} \cup Numbers(backfill) THEN "cancelled"
                                       ELSE verdict[n]
    BY <1>7 DEF DrainCancelResearch
  <2>5. \A n \in Calls : n \in {pending.n} \cup Numbers(backfill) => \E c \in Held : c.n = n
    <3>1. ASSUME NEW n \in Calls, n = pending.n PROVE pending \in Held
      BY <3>1 DEF Held, NoJob, Calls
    <3>2. QED
      BY <3>1 DEF Held, Numbers
  <2>6. \A n \in Calls : verdict'[n] = verdict[n] \/ \E c \in C : c.n = n
    BY <2>4, <2>5
  <2>7. \A n \in Calls : verdict'[n] # verdict[n] => verdict'[n] \in Contract!UnrunVerdicts
    BY <2>4
  <2>8. QED
    BY <1>1, <1>3, <2>1, <2>3, <2>6, <2>7, DrainArm
<1>8. CASE DrainCancelDigests
  <2> DEFINE C == {job} \cup ToSet(digests)
  <2>1. digests' = <<>> /\ UNCHANGED <<latest, pending, backfill>>
    BY <1>8 DEF DrainCancelDigests
  <2>2. ToSet(digests') = {} /\ Held' = Held /\ Len(digests') = 0
    BY <2>1 DEF Held, ToSet
  <2>3. Queued' \subseteq Queued /\ C \subseteq Queued \cup {job} /\ \A r \in Queued' : r \notin C
    BY <1>2, <2>1, <2>2, KindsApart DEF Queued, Known
  <2>4. \A n \in Calls : verdict'[n] = IF n = job.n THEN "applied"
                                       ELSE IF n \in Numbers(digests) THEN "cancelled" ELSE verdict[n]
    BY <1>8 DEF DrainCancelDigests
  <2>5. \A n \in Numbers(digests) : \E c \in ToSet(digests) : c.n = n
    BY DEF Numbers
  <2>6. \A n \in Calls : verdict'[n] = verdict[n] \/ \E c \in C : c.n = n
    BY <2>4, <2>5
  <2>7. \A n \in Calls : verdict'[n] # verdict[n] => verdict'[n] \in Contract!UnrunVerdicts
    BY <2>4, <2>5
  <2>8. \A i, k \in 1 .. Len(digests') : i < k => digests'[i] # digests'[k]
    BY <2>2
  <2>9. QED
    BY <1>1, <2>3, <2>6, <2>7, <2>8, DrainArm
<1>9. CASE DrainSetModel \/ DrainRebind \/ DrainSetSlowModel \/ DrainQuery
  <2> DEFINE C == {job}
  <2>1. /\ UNCHANGED <<latest, pending, backfill, digests>>
        /\ \E v \in {"applied", "error"} : Close({job.n}, v)
    BY <1>9 DEF DrainSetModel, DrainRebind, DrainSetSlowModel, DrainQuery
  <2>2. \A n \in Calls : verdict'[n] = verdict[n] \/ (n = job.n /\ verdict'[n] \in {"applied", "error"})
    BY <2>1, Closing DEF Known
  <2>3. Queued' = Queued /\ C \subseteq Queued \cup {job} /\ \A r \in Queued' : r \notin C
    BY <1>2, <2>1 DEF Queued, Held
  <2>4. QED
    BY <1>1, <1>3, <2>1, <2>2, <2>3, DrainArm
<1>10. QED
  BY <1>4, <1>5, <1>6, <1>7, <1>8, <1>9 DEF Drain

-----------------------------------------------------------------------------
(* The session: a call is new, and is nowhere yet *)

LEMMA Submitting ==
  ASSUME Known, Placed, TypeOK', NEW j, j.n = calls + 1, calls' = calls + 1, calls < MaxCalls,
         Arriving' \subseteq Arriving \cup {j}, Queued' = Queued, InHand' = InHand,
         UNCHANGED <<verdict, digests, running>>, verdict[calls + 1] = "none"
  PROVE  Placed' /\ Contract!Next
<1>1. calls \in Nat
  BY JobNumbers DEF Known
<1>2. Present' \subseteq Present \cup {j}
  BY DEF Present
<1>3. \A r \in Present : r.n \in 1 .. calls /\ r.n # j.n /\ verdict[r.n] = "none"
  BY <1>1 DEF Placed, AllOpen
<1>4. AllOpen'
  BY <1>1, <1>2, <1>3 DEF AllOpen
<1>5. Numbered'
  BY <1>2, <1>3 DEF Placed, Numbered
<1>6. Apart'
  BY <1>3 DEF Placed, Apart, Present
<1>7. Contract!Next
  BY DEF Contract!Next, Contract!Submit
<1>8. QED
  BY <1>4, <1>5, <1>6, <1>7 DEF Placed

\* Calls not made yet are open.
Unmade == \A n \in Calls : n > calls => verdict[n] = "none"

LEMMA SessionStep ==
  ASSUME Known, Placed, Unmade, TypeOK', Session
  PROVE  Placed' /\ (Contract!Next \/ UNCHANGED Contract!vars)
<1> USE DEF session, queues, lanes, history
<1>1. /\ UNCHANGED <<verdict, digests, running>> /\ Queued' = Queued /\ InHand' = InHand
      /\ UNCHANGED <<pc, job>> /\ Receiving' = Receiving
  BY DEF Session, Call, Interrupt, SendControl, DropEngine, running, Generating, Queued, Held, InHand,
         Receiving
<1>2. \A j \in Job : jobs' = Append(jobs, j) => ToSet(jobs') = ToSet(jobs) \cup {j}
  <2>1. SUFFICES ASSUME NEW j \in Job, jobs' = Append(jobs, j)
                 PROVE  ToSet(jobs') = ToSet(jobs) \cup {j}
    OBVIOUS
  <2>2. jobs \in Seq(Job)
    BY DEF Known, TypeOK
  <2>3. /\ jobs' \in Seq(Job) /\ Len(jobs') = Len(jobs) + 1 /\ Len(jobs) \in Nat
        /\ \A i \in 1 .. Len(jobs) : jobs'[i] = jobs[i]
        /\ jobs'[Len(jobs) + 1] = j
    BY <2>1, <2>2, Push
  <2>4. ToSet(jobs) = {jobs[i] : i \in 1 .. Len(jobs)} /\ ToSet(jobs') = {jobs'[i] : i \in 1 .. Len(jobs')}
    BY <2>2, <2>3 DEF ToSet
  <2>5. 1 .. Len(jobs') = (1 .. Len(jobs)) \cup {Len(jobs) + 1}
    BY <2>3
  <2>6. QED
    BY <2>3, <2>4, <2>5
<1>3. calls \in Nat /\ (calls < MaxCalls => verdict[calls + 1] = "none")
  BY JobNumbers DEF Known, Unmade, Calls
<1>4. ASSUME NEW k \in JobKinds, Call(k) \/ Interrupt(k)
      PROVE  Placed' /\ Contract!Next
  <2> DEFINE j == [kind |-> k, n |-> calls + 1]
  <2>1. j \in Job /\ j.n = calls + 1
    BY <1>3, <1>4 DEF Call, Interrupt, Job, JobOf, Calls
  <2>2. Arriving' \subseteq Arriving \cup {j}
    <3>1. CASE Call(k)
      BY <1>1, <1>2, <2>1, <3>1 DEF Call, Enqueue, Arriving
    <3>2. CASE Interrupt(k)
      BY <1>1, <3>2 DEF Interrupt, Arriving
    <3>3. QED
      BY <1>4, <3>1, <3>2
  <2>3. calls' = calls + 1 /\ calls < MaxCalls
    BY <1>4 DEF Call, Interrupt
  <2>4. QED
    BY <1>1, <1>3, <2>1, <2>2, <2>3, Submitting
<1>5. CASE SendControl \/ DropEngine
  <2>1. calls' = calls /\ verdict' = verdict /\ running' = running /\ digests' = digests
    BY <1>1, <1>5 DEF SendControl, DropEngine
  <2>2. Arriving' \subseteq Arriving
    <3>1. CASE SendControl
      <4>1. calling \in Job
        BY <3>1 DEF SendControl, Known, TypeOK, Option, JobOf, Job, JobKinds
      <4>2. QED
        BY <1>1, <1>2, <3>1, <4>1 DEF SendControl, Enqueue, Arriving
    <3>2. CASE DropEngine
      BY <1>1, <3>2 DEF DropEngine, Arriving
    <3>3. QED
      BY <1>5, <3>1, <3>2
  <2> DEFINE C == {}
  <2>3. /\ \A r \in InHand' : r \notin Queued'
        /\ \A i, l \in 1 .. Len(digests') : i < l => digests'[i] # digests'[l]
    BY <1>1, <2>1 DEF Placed, Apart
  <2>4. Queued' \cup InHand' \subseteq Queued \cup InHand /\ C \subseteq Queued \cup InHand
        /\ \A r \in Queued' \cup InHand' : r \notin C
    BY <1>1
  <2>5. UNCHANGED calls /\ \A n \in Calls : verdict'[n] = verdict[n] \/ \E c \in C : c.n = n
    BY <2>1
  <2> HIDE DEF C
  <2>6. Placed'
    BY <2>2, <2>3, <2>4, <2>5, Leaving
  <2>7. QED
    BY <2>1, <2>6 DEF Contract!vars
<1>6. QED
  BY <1>4, <1>5 DEF Session

-----------------------------------------------------------------------------
(* The rest of the pass: nothing, a refusal, a start or an end *)

LEMMA QuietStep ==
  ASSUME Known, Placed, TypeOK', UNCHANGED <<calls, verdict, digests>>, ~Generating, ~Generating',
         Arriving' \subseteq Arriving, Queued' \subseteq Queued
  PROVE  Placed' /\ UNCHANGED Contract!vars
<1> DEFINE C == {}
<1>1. InHand = {} /\ InHand' = {} /\ running = 0 /\ running' = 0
  BY DEF InHand, running
<1>2. \A i, k \in 1 .. Len(digests') : i < k => digests'[i] # digests'[k]
  BY DEF Placed, Apart
<1>3. /\ Queued' \cup InHand' \subseteq Queued \cup InHand /\ C \subseteq Queued \cup InHand
      /\ \A r \in Queued' \cup InHand' : r \notin C
      /\ \A r \in InHand' : r \notin Queued'
  BY <1>1
<1>4. Placed'
  BY <1>1, <1>2, <1>3, Leaving
<1>5. QED
  BY <1>1, <1>4 DEF Contract!vars

LEMMA RefuseStep ==
  ASSUME Known, Placed, TypeOK', UNCHANGED calls, ~Generating, ~Generating',
         Arriving' \subseteq Arriving,
         NEW j \in Queued, Queued' \subseteq Queued, j \notin Queued',
         \A i, k \in 1 .. Len(digests') : i < k => digests'[i] # digests'[k],
         NEW v \in Contract!UnrunVerdicts, Close({j.n}, v)
  PROVE  Placed' /\ Contract!Next
<1> DEFINE C == {j}
<1>1. InHand = {} /\ InHand' = {} /\ running = 0 /\ running' = 0
  BY DEF InHand, running
<1>2. \A n \in Calls : verdict'[n] = IF n = j.n THEN v ELSE verdict[n]
  BY Closing DEF Known
<1>3. /\ Queued' \cup InHand' \subseteq Queued \cup InHand /\ C \subseteq Queued \cup InHand
      /\ \A r \in Queued' \cup InHand' : r \notin C
      /\ \A r \in InHand' : r \notin Queued'
  BY <1>1
<1>4. \A n \in Calls : verdict'[n] = verdict[n] \/ \E c \in C : c.n = n
  BY <1>2
<1>5. /\ Placed'
      /\ \A n \in Calls : verdict'[n] # verdict[n] => n \in 1 .. calls /\ verdict[n] = "none"
  BY <1>3, <1>4, Leaving
<1>6. \A n \in Calls : verdict'[n] # verdict[n] =>
        n \in 1 .. calls /\ verdict[n] = "none" /\ verdict'[n] \in Contract!UnrunVerdicts
  BY <1>2, <1>5
<1>7. QED
  BY <1>1, <1>5, <1>6, Disposing

LEMMA BeginStep ==
  ASSUME Known, Placed, TypeOK', UNCHANGED <<calls, verdict>>, ~Generating, Generating',
         Arriving' \subseteq Arriving,
         job' \in Queued, Queued' \subseteq Queued, job' \notin Queued',
         \A i, k \in 1 .. Len(digests') : i < k => digests'[i] # digests'[k]
  PROVE  Placed' /\ Contract!Next
<1> DEFINE C == {}
<1>1. InHand = {} /\ InHand' = {job'} /\ running = 0 /\ running' = job'.n
  BY DEF InHand, running
<1>2. /\ Queued' \cup InHand' \subseteq Queued \cup InHand /\ C \subseteq Queued \cup InHand
      /\ \A r \in Queued' \cup InHand' : r \notin C
      /\ \A r \in InHand' : r \notin Queued'
  BY <1>1
<1>3. Placed'
  BY <1>1, <1>2, Leaving
<1>4. job'.n \in 1 .. calls /\ verdict[job'.n] = "none"
  BY DEF Placed, AllOpen, Present
<1>5. Contract!Begin
  BY <1>1, <1>4 DEF Contract!Begin, Contract!Open
<1>6. QED
  BY <1>3, <1>5 DEF Contract!Next

LEMMA FinishStep ==
  ASSUME Known, Placed, TypeOK', UNCHANGED <<calls, digests>>, Generating, ~Generating',
         Arriving' \subseteq Arriving, Queued' = Queued,
         NEW v \in Contract!RunVerdicts, Close({job.n}, v)
  PROVE  Placed' /\ Contract!Next
<1> DEFINE C == {job}
<1>1. InHand = {job} /\ InHand' = {} /\ running = job.n /\ running' = 0
  BY DEF InHand, running
<1>2. \A n \in Calls : verdict'[n] = IF n = job.n THEN v ELSE verdict[n]
  BY Closing DEF Known
<1>3. /\ Queued' \cup InHand' \subseteq Queued \cup InHand /\ C \subseteq Queued \cup InHand
      /\ \A r \in Queued' \cup InHand' : r \notin C
      /\ \A r \in InHand' : r \notin Queued'
      /\ \A i, k \in 1 .. Len(digests') : i < k => digests'[i] # digests'[k]
  BY <1>1 DEF Placed, Apart
<1>4. \A n \in Calls : verdict'[n] = verdict[n] \/ \E c \in C : c.n = n
  BY <1>2
<1>5. Placed'
  BY <1>3, <1>4, Leaving
<1>6. job \in Present
  BY <1>1 DEF Present
<1>7. job.n \in 1 .. calls /\ verdict[job.n] = "none" /\ job.n \in Calls
  BY <1>6, PresentType DEF Placed, AllOpen, Known
<1>8. verdict \in [Calls -> Verdicts] /\ verdict' \in [Calls -> Verdicts]
  BY DEF Known, TypeOK
<1>9. verdict' = [verdict EXCEPT ![running] = v]
  BY <1>1, <1>2, <1>7, <1>8
<1>10. running # 0 /\ Contract!Open(running)
  BY <1>1, <1>7 DEF Contract!Open, Calls
<1>11. Contract!Finish
  BY <1>1, <1>9, <1>10 DEF Contract!Finish
<1>12. QED
  BY <1>5, <1>11 DEF Contract!Next

LEMMA PassStep ==
  ASSUME Known, Placed, TypeOK', Worker, ~Drain
  PROVE  Placed' /\ (Contract!Next \/ UNCHANGED Contract!vars)
<1> USE DEF session, queues, lanes, history
<1>1. \A i, k \in 1 .. Len(digests) : i < k => digests[i] # digests[k]
  BY DEF Placed, Apart
<1>2. UNCHANGED <<jobs, calling>> /\ (Receiving' => Receiving /\ job' = job) => Arriving' \subseteq Arriving
  BY DEF Arriving
<1>3. UNCHANGED <<latest, pending, backfill, digests>> => Queued' = Queued
  BY DEF Queued, Held
<1>4. CASE \/ Boot \/ WarmDone \/ RecvDisconnected \/ RecvEmpty \/ Bind \/ ClearPreempt \/ StartWarm
           \/ NoAsk \/ NothingToPick
  <2>1. /\ UNCHANGED <<calls, calling, jobs, verdict, pending, backfill, digests>>
        /\ ~Generating /\ ~Generating' /\ (Receiving' => Receiving /\ job' = job)
    BY <1>4 DEF Boot, WarmDone, RecvDisconnected, RecvEmpty, Bind, ClearPreempt, StartWarm, NoAsk,
                NothingToPick, Generating, Receiving
  <2>2. latest' = latest \/ latest' = NoJob
    BY <1>4 DEF Boot, WarmDone, RecvDisconnected, RecvEmpty, Bind, ClearPreempt, StartWarm, NoAsk,
                NothingToPick
  <2>3. Queued' \subseteq Queued
    BY <2>1, <2>2 DEF Queued, Held
  <2>4. QED
    BY <1>2, <2>1, <2>3, QuietStep
<1>5. CASE Recv
  <2>1. /\ UNCHANGED <<calls, calling, verdict, latest, pending, backfill, digests>>
        /\ ~Generating /\ ~Generating' /\ jobs # <<>> /\ job' = Head(jobs) /\ jobs' = Tail(jobs)
    BY <1>5 DEF Recv, Generating
  <2>2. /\ Head(jobs) = jobs[1] /\ 1 \in 1 .. Len(jobs) /\ Tail(jobs) \in Seq(Job) /\ jobs \in Seq(Job)
        /\ \A i \in 1 .. Len(Tail(jobs)) : i + 1 \in 1 .. Len(jobs) /\ Tail(jobs)[i] = jobs[i + 1]
    BY <2>1, HeadTail DEF Known, TypeOK
  <2>3. ToSet(jobs) = {jobs[i] : i \in 1 .. Len(jobs)} /\ ToSet(Tail(jobs)) \subseteq ToSet(jobs)
    BY <2>2 DEF ToSet
  <2>4. Head(jobs) \in ToSet(jobs)
    BY <2>2, <2>3
  <2>5. Arriving' \subseteq Arriving
    BY <2>1, <2>3, <2>4 DEF Arriving
  <2>6. QED
    BY <1>3, <2>1, <2>5, QuietStep
<1>6. CASE AskUnreachable
  <2>1. /\ UNCHANGED <<calls, calling, jobs, pending, backfill, digests>> /\ latest # NoJob
        /\ latest' = NoJob /\ Close({latest.n}, "error")
        /\ ~Generating /\ ~Generating' /\ ~Receiving'
    BY <1>6 DEF AskUnreachable, Generating, Receiving
  <2>2. latest \in Queued /\ Queued' \subseteq Queued /\ latest \notin Queued'
    BY <2>1, KindsApart DEF Queued, Held, Known
  <2>3. "error" \in Contract!UnrunVerdicts
    BY DEF Contract!UnrunVerdicts
  <2>4. QED
    BY <1>1, <1>2, <2>1, <2>2, <2>3, RefuseStep
<1>7. CASE StartAsk
  <2>1. /\ UNCHANGED <<calls, calling, jobs, verdict, pending, backfill, digests>> /\ latest # NoJob
        /\ latest' = NoJob /\ job' = latest
        /\ ~Generating /\ Generating' /\ ~Receiving'
    BY <1>7 DEF StartAsk, Generating, Receiving
  <2>2. latest \in Queued /\ Queued' \subseteq Queued /\ latest \notin Queued'
    BY <2>1, KindsApart DEF Queued, Held, Known
  <2>3. QED
    BY <1>1, <1>2, <2>1, <2>2, BeginStep
<1>8. CASE AskYields \/ AskAnswers \/ AskFails \/ ResearchEnds \/ DigestEnds
  <2>1. /\ UNCHANGED <<calls, calling, jobs, latest, pending, backfill, digests>>
        /\ Generating /\ ~Generating' /\ ~Receiving'
    BY <1>8 DEF AskYields, AskAnswers, AskFails, ResearchEnds, DigestEnds, Generating, Receiving
  <2>2. \E v \in Contract!RunVerdicts : Close({job.n}, v)
    BY <1>8 DEF AskYields, AskAnswers, AskFails, ResearchEnds, DigestEnds, Contract!RunVerdicts
  <2>3. QED
    BY <1>2, <1>3, <2>1, <2>2, FinishStep
<1>9. CASE StartResearch \/ ResearchUnbound
  <2>1. /\ UNCHANGED <<calls, calling, jobs, latest, digests>> /\ ~Generating /\ ~Receiving'
    BY <1>9 DEF StartResearch, ResearchUnbound, Generating, Receiving
  <2>2. \/ pending # NoJob /\ pending' = NoJob /\ UNCHANGED backfill
        \/ backfill # <<>> /\ backfill' = Tail(backfill) /\ UNCHANGED pending /\ pending = NoJob
    BY <1>9 DEF StartResearch, ResearchUnbound, TakeResearch
  <2> DEFINE taken == IF pending # NoJob THEN pending ELSE Head(backfill)
  <2>3. taken \in Held /\ Held' \subseteq Held /\ taken \notin Held'
    <3>1. CASE pending # NoJob /\ pending' = NoJob /\ UNCHANGED backfill
      <4>1. \A i \in 1 .. Len(backfill) : backfill[i].n \in Nat /\ backfill[i].n < pending.n
        BY <3>1, HeldType DEF Known, QueueInv, BackfillInOrder
      <4>2. \A r \in ToSet(backfill) : \E i \in 1 .. Len(backfill) : r = backfill[i]
        BY DEF Known, TypeOK, ToSet
      <4>3. QED
        BY <3>1, <4>1, <4>2 DEF Held
    <3>2. CASE backfill # <<>> /\ backfill' = Tail(backfill) /\ UNCHANGED pending /\ pending = NoJob
      <4>1. backfill \in Seq(JobOf(Researches))
        BY DEF Known, TypeOK
      <4>2. /\ Head(backfill) \in ToSet(backfill) /\ ToSet(Tail(backfill)) \subseteq ToSet(backfill)
            /\ Head(backfill) \notin ToSet(Tail(backfill))
        BY <3>2, <4>1, BackfillApart, HeadGone
      <4>3. Held = ToSet(backfill) /\ Held' = ToSet(Tail(backfill))
        BY <3>2 DEF Held
      <4>4. QED
        BY <3>2, <4>2, <4>3
    <3>3. QED
      BY <2>2, <3>1, <3>2
  <2>4. taken \in Queued /\ Queued' \subseteq Queued /\ taken \notin Queued'
    BY <2>1, <2>3, KindsApart DEF Queued, Known
  <2>5. CASE StartResearch
    <3>1. job' = taken /\ UNCHANGED verdict /\ Generating'
      BY <2>5 DEF StartResearch, TakeResearch, Generating
    <3>2. QED
      BY <1>1, <1>2, <2>1, <2>4, <3>1, BeginStep
  <2>6. CASE ResearchUnbound
    <3>1. Close({taken.n}, "nothing") /\ ~Generating'
      BY <2>6 DEF ResearchUnbound, Generating
    <3>2. "nothing" \in Contract!UnrunVerdicts
      BY DEF Contract!UnrunVerdicts
    <3>3. QED
      BY <1>1, <1>2, <2>1, <2>4, <3>1, <3>2, RefuseStep
  <2>7. QED
    BY <1>9, <2>5, <2>6
<1>10. CASE StartDigest \/ DigestUnbound
  <2>1. /\ UNCHANGED <<calls, calling, jobs, latest, pending, backfill>> /\ ~Generating /\ ~Receiving'
        /\ digests # <<>> /\ digests' = Tail(digests)
    BY <1>10 DEF StartDigest, DigestUnbound, Generating, Receiving
  <2>2. digests \in Seq(JobOf({"Digest"}))
    BY DEF Known, TypeOK
  <2>3. /\ Head(digests) \in ToSet(digests) /\ ToSet(Tail(digests)) \subseteq ToSet(digests)
        /\ Head(digests) \notin ToSet(Tail(digests))
        /\ \A i, k \in 1 .. Len(Tail(digests)) : i < k => Tail(digests)[i] # Tail(digests)[k]
    BY <1>1, <2>1, <2>2, HeadGone
  <2>4. Head(digests) \in Queued /\ Queued' \subseteq Queued /\ Head(digests) \notin Queued'
    BY <2>1, <2>3, KindsApart DEF Queued, Held, Known
  <2>5. CASE StartDigest
    <3>1. job' = Head(digests) /\ UNCHANGED verdict /\ Generating'
      BY <2>5 DEF StartDigest, Generating
    <3>2. QED
      BY <1>2, <2>1, <2>3, <2>4, <3>1, BeginStep
  <2>6. CASE DigestUnbound
    <3>1. Close({Head(digests).n}, "failed") /\ ~Generating'
      BY <2>6 DEF DigestUnbound, Generating
    <3>2. "failed" \in Contract!UnrunVerdicts
      BY DEF Contract!UnrunVerdicts
    <3>3. QED
      BY <1>2, <2>1, <2>3, <2>4, <3>1, <3>2, RefuseStep
  <2>7. QED
    BY <1>10, <2>5, <2>6
<1>11. QED
  BY <1>4, <1>5, <1>6, <1>7, <1>8, <1>9, <1>10 DEF Worker

-----------------------------------------------------------------------------
\* A call not made yet has no verdict, because no step of the contract gives
\* it one.
LEMMA UnmadeStays ==
  ASSUME TypeOK, Unmade, Contract!Next \/ UNCHANGED Contract!vars
  PROVE  Unmade'
<1>1. calls \in Nat
  BY JobNumbers
<1>2. calls' \in {calls, calls + 1} /\ \A n \in Calls : verdict'[n] # verdict[n] => n \in 1 .. calls
  <2>1. CASE Contract!Finish
    <3>1. verdict \in [Calls -> Verdicts]
      BY DEF TypeOK
    <3>2. QED
      BY <2>1, <3>1 DEF Contract!Finish, Contract!Open
  <2>2. CASE Contract!Submit \/ Contract!Begin \/ Contract!Dispose
    BY <2>2 DEF Contract!Submit, Contract!Begin, Contract!Dispose, Contract!Open, Calls
  <2>3. QED
    BY <2>1, <2>2 DEF Contract!Next, Contract!vars
<1>3. QED
  BY <1>1, <1>2 DEF Unmade, Calls

LEMMA Stutter ==
  ASSUME Placed, UNCHANGED vars
  PROVE  Placed' /\ UNCHANGED Contract!vars
<1>1. UNCHANGED <<calls, calling, jobs, pc, job, latest, pending, backfill, digests, verdict>>
  BY DEF vars, session, queues
<1>2. Arriving' = Arriving /\ Queued' = Queued /\ InHand' = InHand /\ running' = running
  BY <1>1 DEF Arriving, Queued, InHand, running, Held, Receiving, Generating
<1>3. QED
  BY <1>1, <1>2 DEF Placed, AllOpen, Numbered, Apart, Present, Contract!vars

\* The worker keeps the engine's contract: every call is closed at most once,
\* with a verdict that fits (a generation's own, or that of a call displaced,
\* evicted, cancelled or refused between generations), and one call is
\* generated for at a time (worker in engine.rs).
THEOREM WorkerKeepsContract == Spec => KeepsContract
<1>1. Init => Contract!Init /\ Placed /\ Unmade
  <2> SUFFICES ASSUME Init PROVE Contract!Init /\ Placed /\ Unmade
    OBVIOUS
  <2>1. Present = {} /\ Len(digests) = 0 /\ running = 0
    BY DEF Init, Present, Arriving, Queued, InHand, Held, ToSet, Receiving, Generating, running
  <2>2. Placed /\ Unmade
    BY <2>1 DEF Placed, AllOpen, Numbered, Apart, Present, Unmade, Init
  <2>3. QED
    BY <2>1, <2>2 DEF Contract!Init, Init, Calls
<1>2. TypeOK /\ TypeOK' /\ QueueInv /\ Placed /\ Unmade /\ [Next]_vars =>
        /\ Placed' /\ Unmade'
        /\ [Contract!Next]_Contract!vars
  <2> SUFFICES ASSUME Known, TypeOK', Placed, Unmade, [Next]_vars
               PROVE  Placed' /\ Unmade' /\ (Contract!Next \/ UNCHANGED Contract!vars)
    BY DEF Known
  <2>1. Placed' /\ (Contract!Next \/ UNCHANGED Contract!vars)
    BY SessionStep, DrainStep, PassStep, Stutter DEF Next, Worker
  <2>2. QED
    BY <2>1, UnmadeStays DEF Known
<1>3. QED
  BY <1>1, <1>2, TypeCorrect, QueueInvariant, PTL DEF Spec, KeepsContract, Contract!Spec
=============================================================================
