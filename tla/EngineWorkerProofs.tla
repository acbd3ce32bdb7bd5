------------------------- MODULE EngineWorkerProofs -------------------------
(***************************************************************************)
(* Theorems about EngineWorker, for every number of calls, every backfill  *)
(* capacity and every configuration.                                       *)
(***************************************************************************)
EXTENDS EngineWorker, TLAPS

USE MaxCallsAssumption, CapAssumption, FlagAssumption

-----------------------------------------------------------------------------
(* What the sequence operations of the model do *)

LEMMA HeadTail ==
  ASSUME NEW S, NEW s \in Seq(S), s # <<>>
  PROVE  /\ Head(s) \in S /\ Head(s) = s[1]
         /\ Tail(s) \in Seq(S) /\ Len(Tail(s)) = Len(s) - 1 /\ 1 \in 1 .. Len(s)
         /\ \A i \in 1 .. Len(Tail(s)) : i + 1 \in 1 .. Len(s) /\ Tail(s)[i] = s[i + 1]
  OBVIOUS

LEMMA Push ==
  ASSUME NEW S, NEW s \in Seq(S), NEW e \in S
  PROVE  /\ Append(s, e) \in Seq(S) /\ Len(Append(s, e)) = Len(s) + 1
         /\ \A i \in 1 .. Len(s) : Append(s, e)[i] = s[i]
         /\ Append(s, e)[Len(s) + 1] = e
  OBVIOUS

\* Making room keeps a suffix, and leaves room for one more.
LEMMA KeptSuffix ==
  ASSUME NEW S, NEW q \in Seq(S)
  PROVE  /\ Kept(q) \in Seq(S)
         /\ Len(q) <= BackfillCap => Len(Kept(q)) < BackfillCap
         /\ \E d \in Nat : \A i \in 1 .. Len(Kept(q)) : i + d \in 1 .. Len(q) /\ Kept(q)[i] = q[i + d]
<1>1. CASE Len(q) >= BackfillCap
  <2> DEFINE d == Len(q) - BackfillCap + 1
             k == SubSeq(q, d + 1, Len(q))
  <2>1. d \in Nat /\ d + 1 \in Nat /\ Len(q) \in Nat /\ d <= Len(q)
    BY <1>1
  <2>2. Kept(q) = k
    BY <1>1 DEF Kept
  <2>3. k \in Seq(S) /\ Len(k) = Len(q) - d /\ \A i \in 1 .. Len(k) : k[i] = q[i + d]
    BY <2>1
  <2>4. \A i \in 1 .. Len(k) : i + d \in 1 .. Len(q)
    BY <2>1, <2>3
  <2>5. Len(k) < BackfillCap
    BY <2>1, <2>3
  <2>6. \E e \in Nat : \A i \in 1 .. Len(k) : i + e \in 1 .. Len(q) /\ k[i] = q[i + e]
    BY <2>1, <2>3, <2>4
  <2> HIDE DEF k, d
  <2>7. QED
    BY <2>2, <2>3, <2>5, <2>6
<1>2. CASE Len(q) < BackfillCap
  <2>1. Kept(q) = q
    BY <1>2 DEF Kept
  <2>2. 0 \in Nat /\ \A i \in 1 .. Len(q) : i + 0 \in 1 .. Len(q) /\ q[i] = q[i + 0]
    OBVIOUS
  <2>3. QED
    BY <1>2, <2>1, <2>2
<1>3. QED
  BY <1>1, <1>2

-----------------------------------------------------------------------------
(* Type correctness *)

\* Closing calls keeps the verdicts typed.
LEMMA CloseType ==
  ASSUME TypeOK, NEW T, NEW v \in Verdicts, Close(T, v)
  PROVE  verdict' \in [Calls -> Verdicts]
  BY DEF Close, TypeOK

\* Taking the head of the channel, or finding it empty.
LEMMA TakeNextType ==
  ASSUME TypeOK, pc = "drain", TakeNext
  PROVE  /\ jobs' \in Seq(Job) /\ ahead' \in [Calls -> Nat]
         /\ \/ pc' = "drain" /\ job' \in Job
            \/ pc' = "drained" /\ job' = NoJob
<1>1. CASE jobs # <<>>
  <2>1. Head(jobs) \in Job /\ Tail(jobs) \in Seq(Job)
    BY <1>1, HeadTail DEF TypeOK
  <2>2. ahead' \in [Calls -> Nat]
    BY <1>1, <2>1 DEF TakeNext, TypeOK, Job, JobOf
  <2>3. QED
    BY <1>1, <2>1, <2>2 DEF TakeNext
<1>2. CASE jobs = <<>>
  BY <1>2 DEF TakeNext, TypeOK
<1>3. QED
  BY <1>1, <1>2

\* A drained job changes the queues; the rest of the drain is TakeNext.
LEMMA DrainType ==
  ASSUME TypeOK, Drain
  PROVE  TypeOK'
<1> USE DEF session, queues, lanes, history
<1>1. pc = "drain" /\ TakeNext
  BY DEF Drain, Draining, DrainAsk, DrainResearch, DrainDigest, DrainCancelResearch,
     DrainCancelDigests, DrainSetModel, DrainRebind, DrainSetSlowModel, DrainQuery
<1>2. job \in Job
  BY <1>1 DEF TypeOK, Receiving
<1>3. /\ jobs' \in Seq(Job) /\ ahead' \in [Calls -> Nat] /\ pc' \in PCs
      /\ job' \in CASE Receiving' -> Job
                   [] pc' = "ask" -> JobOf(Asks)
                   [] pc' = "research" -> JobOf(Researches)
                   [] pc' = "digest" -> JobOf({"Digest"})
                   [] OTHER -> {NoJob}
  BY <1>1, TakeNextType DEF Receiving, PCs
<1>4. CASE DrainAsk
  <2>1. verdict' \in [Calls -> Verdicts]
    BY <1>4, CloseType DEF DrainAsk, Verdicts
  <2>2. latest' \in Option(Asks)
    BY <1>2, <1>4 DEF DrainAsk, Draining, Option, Job, JobOf
  <2>3. QED
    BY <1>3, <1>4, <2>1, <2>2 DEF TypeOK, DrainAsk
<1>5. CASE DrainResearch
  <2>1. verdict' \in [Calls -> Verdicts]
    BY <1>5, CloseType DEF DrainResearch, Verdicts
  <2>2. pending' \in Option(Researches)
    BY <1>2, <1>5 DEF DrainResearch, Draining, Option, Job, JobOf
  <2>3. backfill' \in Seq(JobOf(Researches))
    <3>1. CASE pending # NoJob /\ BackfillAbandoned
      <4>1. pending \in JobOf(Researches)
        BY <3>1 DEF TypeOK, Option
      <4>2. Kept(backfill) \in Seq(JobOf(Researches))
        BY KeptSuffix DEF TypeOK
      <4>3. QED
        BY <1>5, <3>1, <4>1, <4>2, Push DEF DrainResearch, PushBackfill
    <3>2. QED
      BY <1>5, <3>1 DEF DrainResearch, TypeOK
  <2>4. QED
    BY <1>3, <1>5, <2>1, <2>2, <2>3 DEF TypeOK, DrainResearch
<1>6. CASE DrainDigest
  <2>1. digests' \in Seq(JobOf({"Digest"}))
    <3>1. job \in JobOf({"Digest"})
      BY <1>2, <1>6 DEF DrainDigest, Draining, Job, JobOf
    <3>2. QED
      BY <1>6, <3>1, Push DEF DrainDigest, TypeOK
  <2>2. QED
    BY <1>3, <1>6, <2>1 DEF TypeOK, DrainDigest
<1>7. CASE DrainCancelResearch
  <2>1. verdict' \in [Calls -> Verdicts]
    BY <1>7 DEF DrainCancelResearch, TypeOK, Verdicts
  <2>2. swept' \in 0 .. MaxCalls
    BY <1>2, <1>7 DEF DrainCancelResearch, Job, JobOf, Calls
  <2>3. told' \in Telling
    <3>1. told' = [told EXCEPT !.researching = 0] /\ 0 \in 0 .. MaxCalls
      BY <1>7 DEF DrainCancelResearch
    <3>2. QED
      BY <3>1 DEF TypeOK, Telling
  <2>4. pending' \in Option(Researches) /\ backfill' \in Seq(JobOf(Researches))
    BY <1>7 DEF DrainCancelResearch, Option
  <2>5. QED
    BY <1>3, <1>7, <2>1, <2>2, <2>3, <2>4 DEF TypeOK, DrainCancelResearch
<1>8. CASE DrainCancelDigests
  <2>1. verdict' \in [Calls -> Verdicts]
    BY <1>8 DEF DrainCancelDigests, TypeOK, Verdicts
  <2>2. QED
    BY <1>3, <1>8, <2>1 DEF TypeOK, DrainCancelDigests
<1>9. CASE DrainSetModel
  <2>1. verdict' \in [Calls -> Verdicts]
    BY <1>9, CloseType DEF DrainSetModel, Verdicts
  <2>2. rewarm' \in BOOLEAN
    BY <1>9 DEF DrainSetModel
  <2>3. QED
    BY <1>3, <1>9, <2>1, <2>2 DEF TypeOK, DrainSetModel
<1>10. CASE DrainRebind
  <2>1. verdict' \in [Calls -> Verdicts]
    BY <1>10, CloseType DEF DrainRebind, Verdicts
  <2>2. rewarm' \in BOOLEAN /\ bound' \in BOOLEAN
    BY <1>10 DEF DrainRebind
  <2>3. QED
    BY <1>3, <1>10, <2>1, <2>2 DEF TypeOK, DrainRebind
<1>11. CASE DrainSetSlowModel
  <2>1. verdict' \in [Calls -> Verdicts]
    BY <1>11, CloseType DEF DrainSetSlowModel, Verdicts
  <2>2. slow' \in {"shared", "up", "down"}
    BY <1>11 DEF DrainSetSlowModel, TypeOK
  <2>3. QED
    BY <1>3, <1>11, <2>1, <2>2 DEF TypeOK, DrainSetSlowModel
<1>12. CASE DrainQuery
  <2>1. verdict' \in [Calls -> Verdicts]
    BY <1>12, CloseType DEF DrainQuery, Verdicts
  <2>2. QED
    BY <1>3, <1>12, <2>1 DEF TypeOK, DrainQuery
<1>13. QED
  BY <1>4, <1>5, <1>6, <1>7, <1>8, <1>9, <1>10, <1>11, <1>12 DEF Drain

LEMMA SessionType ==
  ASSUME TypeOK, Session
  PROVE  TypeOK'
<1> USE DEF session, queues, lanes, history, Receiving
<1>1. ASSUME NEW k \in JobKinds, Call(k) PROVE TypeOK'
  <2> DEFINE j == [kind |-> k, n |-> calls + 1]
  <2>1. j \in Job /\ calls' \in 0 .. MaxCalls
    BY <1>1 DEF Call, TypeOK, Job, JobOf, Calls
  <2>2. jobs' \in Seq(Job) /\ ahead' \in [Calls -> Nat]
    BY <1>1, <2>1, Push DEF Call, Enqueue, TypeOK
  <2>3. QED
    BY <1>1, <2>1, <2>2 DEF Call, TypeOK
<1>2. ASSUME NEW k \in JobKinds, Interrupt(k) PROVE TypeOK'
  <2>1. calling' \in Option(Controls) /\ calls' \in 0 .. MaxCalls /\ cut' \in 0 .. MaxCalls
    BY <1>2 DEF Interrupt, TypeOK, Option, JobOf, Calls
  <2>2. QED
    BY <1>2, <2>1 DEF Interrupt, TypeOK
<1>3. CASE SendControl
  <2>1. calling \in Job
    BY <1>3 DEF SendControl, TypeOK, Option, Job, JobOf, JobKinds
  <2>2. jobs' \in Seq(Job) /\ ahead' \in [Calls -> Nat]
    BY <1>3, <2>1, Push DEF SendControl, Enqueue, TypeOK
  <2>3. calling' \in Option(Controls)
    BY <1>3 DEF SendControl, Option
  <2>4. QED
    BY <1>3, <2>2, <2>3 DEF SendControl, TypeOK
<1>4. CASE DropEngine
  BY <1>4 DEF DropEngine, TypeOK
<1>5. QED
  BY <1>1, <1>2, <1>3, <1>4 DEF Session

\* The lane indicators stay typed.
LEMMA BusyType ==
  ASSUME TypeOK, NEW k \in Asks \cup Researches \cup {"Digest", "Warm", "None"}, Busy(k)
  PROVE  told' \in Telling
  BY DEF Busy, TypeOK, Telling

LEMMA BackgroundType ==
  ASSUME TypeOK, StartBackground
  PROVE  ahead' \in [Calls -> Nat]
  BY DEF StartBackground, TypeOK

\* The head of the backfill, or the pending job, is a research.
LEMMA TakeResearchType ==
  ASSUME TypeOK, TakeResearch
  PROVE  /\ job' \in JobOf(Researches)
         /\ pending' \in Option(Researches) /\ backfill' \in Seq(JobOf(Researches))
<1>1. CASE pending # NoJob
  BY <1>1 DEF TakeResearch, TypeOK, Option
<1>2. CASE pending = NoJob
  <2>1. backfill # <<>> /\ job' = Head(backfill) /\ backfill' = Tail(backfill) /\ pending' = pending
    BY <1>2 DEF TakeResearch
  <2>2. QED
    BY <2>1, HeadTail DEF TypeOK
<1>3. QED
  BY <1>1, <1>2

\* The steps of the worker before and after its drain.
LEMMA PassType ==
  ASSUME TypeOK, Worker, ~Drain
  PROVE  TypeOK'
<1> USE DEF session, queues, lanes, history, Receiving
<1>1. CASE Boot
  <2>1. told' \in Telling
    BY <1>1, BusyType DEF Boot, TypeOK
  <2>2. QED
    BY <1>1, <2>1 DEF Boot, TypeOK, PCs
<1>2. CASE WarmDone
  <2>1. told' \in Telling
    BY <1>2, BusyType DEF WarmDone
  <2>2. QED
    BY <1>2, <2>1 DEF WarmDone, TypeOK, PCs
<1>3. CASE Recv
  <2>1. Head(jobs) \in Job /\ Tail(jobs) \in Seq(Job)
    BY <1>3, HeadTail DEF Recv, TypeOK
  <2>2. ahead' \in [Calls -> Nat]
    BY <1>3, <2>1 DEF Recv, TypeOK, Job, JobOf
  <2>3. QED
    BY <1>3, <2>1, <2>2 DEF Recv, TypeOK, PCs
<1>4. CASE RecvDisconnected \/ RecvEmpty \/ NoAsk \/ NothingToPick
  BY <1>4 DEF RecvDisconnected, RecvEmpty, NoAsk, NothingToPick, TypeOK, PCs
<1>5. CASE Bind
  <2>1. told' \in Telling
    BY <1>5, BusyType DEF Bind, TypeOK
  <2>2. QED
    BY <1>5, <2>1 DEF Bind, TypeOK, PCs
<1>6. CASE ClearPreempt
  BY <1>6 DEF ClearPreempt, TypeOK, PCs, Option
<1>7. CASE StartWarm
  <2>1. told' \in Telling
    BY <1>7, BusyType DEF StartWarm
  <2>2. QED
    BY <1>7, <2>1 DEF StartWarm, TypeOK, PCs
<1>8. CASE AskUnreachable
  <2>1. verdict' \in [Calls -> Verdicts]
    BY <1>8, CloseType DEF AskUnreachable, Verdicts
  <2>2. QED
    BY <1>8, <2>1 DEF AskUnreachable, TypeOK, PCs, Option
<1>9. CASE StartAsk
  <2>1. latest \in JobOf(Asks)
    BY <1>9 DEF StartAsk, TypeOK, Option
  <2>2. told' \in Telling
    BY <1>9, <2>1, BusyType DEF StartAsk, JobOf
  <2>3. QED
    BY <1>9, <2>1, <2>2 DEF StartAsk, TypeOK, PCs, Option
<1>10. CASE AskYields \/ AskAnswers \/ AskFails
  <2>1. told' \in Telling
    BY <1>10, BusyType DEF AskYields, AskAnswers, AskFails
  <2>2. verdict' \in [Calls -> Verdicts]
    BY <1>10, CloseType DEF AskYields, AskAnswers, AskFails, Verdicts
  <2>3. QED
    BY <1>10, <2>1, <2>2 DEF AskYields, AskAnswers, AskFails, TypeOK, PCs
<1>11. CASE StartResearch
  <2>1. /\ job' \in JobOf(Researches)
        /\ pending' \in Option(Researches) /\ backfill' \in Seq(JobOf(Researches))
    BY <1>11, TakeResearchType DEF StartResearch
  <2>2. told' \in Telling
    BY <1>11, <2>1 DEF StartResearch, JobOf, Calls, Telling
  <2>3. ahead' \in [Calls -> Nat]
    BY <1>11, BackgroundType DEF StartResearch
  <2>4. QED
    BY <1>11, <2>1, <2>2, <2>3 DEF StartResearch, TypeOK, PCs
<1>12. CASE ResearchUnbound
  <2>1. verdict' \in [Calls -> Verdicts]
    BY <1>12, CloseType DEF ResearchUnbound, Verdicts
  <2>2. pending' \in Option(Researches) /\ backfill' \in Seq(JobOf(Researches))
    <3>1. CASE pending # NoJob
      BY <1>12, <3>1 DEF ResearchUnbound, TypeOK, Option
    <3>2. CASE pending = NoJob
      <4>1. backfill # <<>> /\ backfill' = Tail(backfill) /\ pending' = pending
        BY <1>12, <3>2 DEF ResearchUnbound
      <4>2. QED
        BY <4>1, HeadTail DEF TypeOK
    <3>3. QED
      BY <3>1, <3>2
  <2>3. told' \in Telling
    <3>1. told' = [told EXCEPT !.researching = 0] /\ 0 \in 0 .. MaxCalls
      BY <1>12 DEF ResearchUnbound
    <3>2. QED
      BY <3>1 DEF TypeOK, Telling
  <2>4. QED
    BY <1>12, <2>1, <2>2, <2>3 DEF ResearchUnbound, TypeOK, PCs
<1>13. CASE ResearchEnds
  <2>1. verdict' \in [Calls -> Verdicts]
    BY <1>13, CloseType DEF ResearchEnds, Verdicts
  <2>2. told' \in Telling
    BY <1>13 DEF ResearchEnds, Quietly, Telling
  <2>3. QED
    BY <1>13, <2>1, <2>2 DEF ResearchEnds, TypeOK, PCs
<1>14. CASE StartDigest
  <2>1. Head(digests) \in JobOf({"Digest"}) /\ Tail(digests) \in Seq(JobOf({"Digest"}))
    BY <1>14, HeadTail DEF StartDigest, TypeOK
  <2>2. told' \in Telling
    BY <1>14, BusyType DEF StartDigest
  <2>3. ahead' \in [Calls -> Nat]
    BY <1>14, BackgroundType DEF StartDigest
  <2>4. QED
    BY <1>14, <2>1, <2>2, <2>3 DEF StartDigest, TypeOK, PCs
<1>15. CASE DigestUnbound
  <2>1. verdict' \in [Calls -> Verdicts]
    BY <1>15, CloseType DEF DigestUnbound, Verdicts
  <2>2. digests' \in Seq(JobOf({"Digest"}))
    BY <1>15, HeadTail DEF DigestUnbound, TypeOK
  <2>3. QED
    BY <1>15, <2>1, <2>2 DEF DigestUnbound, TypeOK, PCs
<1>16. CASE DigestEnds
  <2>1. verdict' \in [Calls -> Verdicts]
    BY <1>16, CloseType DEF DigestEnds, Verdicts
  <2>2. told' \in Telling
    BY <1>16, BusyType DEF DigestEnds
  <2>3. QED
    BY <1>16, <2>1, <2>2 DEF DigestEnds, TypeOK, PCs
<1>17. QED
  BY <1>1, <1>2, <1>3, <1>4, <1>5, <1>6, <1>7, <1>8, <1>9, <1>10, <1>11, <1>12, <1>13, <1>14,
     <1>15, <1>16 DEF Worker

\* Every variable keeps its type; in particular the job in hand is always of
\* the kind the point of the loop calls for.
THEOREM TypeCorrect == Spec => []TypeOK
<1>1. Init => TypeOK
  <2> SUFFICES ASSUME Init PROVE TypeOK
    OBVIOUS
  <2>1. told \in Telling /\ verdict \in [Calls -> Verdicts] /\ ahead \in [Calls -> Nat]
    BY DEF Init, Quietly, Telling, Verdicts
  <2>2. NoJob \in Option(Controls) /\ NoJob \in Option(Asks) /\ NoJob \in Option(Researches)
    BY DEF Option
  <2>3. job \in CASE Receiving       -> Job
                 [] pc = "ask"      -> JobOf(Asks)
                 [] pc = "research" -> JobOf(Researches)
                 [] pc = "digest"   -> JobOf({"Digest"})
                 [] OTHER           -> {NoJob}
    BY DEF Init, Receiving
  <2>4. /\ jobs \in Seq(Job)
        /\ backfill \in Seq(JobOf(Researches)) /\ digests \in Seq(JobOf({"Digest"}))
    BY DEF Init
  <2>5. /\ calls \in 0 .. MaxCalls /\ cut \in 0 .. MaxCalls /\ swept \in 0 .. MaxCalls
        /\ pc \in PCs /\ slow \in {"shared", "up", "down"}
    BY DEF Init, PCs
  <2>6. closed \in BOOLEAN /\ preempt \in BOOLEAN /\ rewarm \in BOOLEAN /\ bound \in BOOLEAN
    BY DEF Init
  <2>7. calling \in Option(Controls) /\ latest \in Option(Asks) /\ pending \in Option(Researches)
    BY <2>2 DEF Init
  <2>8. QED
    BY <2>1, <2>3, <2>4, <2>5, <2>6, <2>7 DEF Init, TypeOK
<1>2. TypeOK /\ [Next]_vars => TypeOK'
  <2>1. TypeOK /\ UNCHANGED vars => TypeOK'
    BY DEF vars, session, queues, lanes, history, TypeOK, Receiving
  <2>2. QED
    BY <2>1, SessionType, DrainType, PassType DEF Next, Worker
<1>3. QED
  BY <1>1, <1>2, PTL DEF Spec

-----------------------------------------------------------------------------
(* Cancelled research stays cancelled, and the backfill stays in order *)

LEMMA HeldType ==
  ASSUME TypeOK
  PROVE  /\ \A r \in Held : r \in JobOf(Researches) /\ r.n \in Nat
         /\ \A i \in 1 .. Len(backfill) : backfill[i] \in Held
         /\ pending # NoJob => pending \in Held
<1>1. \A i \in 1 .. Len(backfill) : backfill[i] \in JobOf(Researches)
  BY DEF TypeOK
<1>2. pending # NoJob => pending \in JobOf(Researches)
  BY DEF TypeOK, Option
<1>3. \A r \in JobOf(Researches) : r.n \in Nat
  BY DEF JobOf, Calls
<1>4. QED
  BY <1>1, <1>2, <1>3 DEF Held, ToSet, TypeOK

LEMMA JobNumbers ==
  ASSUME TypeOK
  PROVE  /\ \A i \in 1 .. Len(jobs) : jobs[i].n \in Nat
         /\ Receiving => job.n \in Nat
         /\ calling # NoJob => calling.n \in Nat
         /\ calls \in Nat /\ swept \in Nat /\ Sent \in Int
<1>1. \A i \in 1 .. Len(jobs) : jobs[i] \in Job
  BY DEF TypeOK
<1>2. Receiving => job \in Job
  BY DEF TypeOK, Receiving
<1>3. calling # NoJob => calling \in JobOf(Controls)
  BY DEF TypeOK, Option
<1>4. \A j : j \in Job \/ j \in JobOf(Controls) => j.n \in Nat
  BY DEF Job, JobOf, Calls
<1>5. calls \in Nat /\ swept \in Nat
  BY DEF TypeOK
<1>6. QED
  BY <1>1, <1>2, <1>3, <1>4, <1>5 DEF Sent

\* A step that takes nothing from the channel and only lets go of research.
LEMMA LettingGo ==
  ASSUME TypeOK, QueueInv, UNCHANGED <<calls, calling, jobs, swept>>,
         Held' \subseteq Held, Receiving' => Receiving /\ job' = job
  PROVE  InOrder'
  BY DEF QueueInv, InOrder, Sent

\* Taking the next job: everything left in the channel is newer still.
LEMMA Taking ==
  ASSUME TypeOK, QueueInv, UNCHANGED <<calls, calling>>,
         jobs # <<>>, job' = Head(jobs), jobs' = Tail(jobs),
         NEW j, Receiving => j = job,
         \A r \in Held' : r \in Held \/ (Receiving /\ r = j),
         swept' = swept \/ (Receiving /\ swept' = j.n)
  PROVE  InOrder'
<1>1. /\ Head(jobs) = jobs[1] /\ Len(Tail(jobs)) = Len(jobs) - 1 /\ 1 \in 1 .. Len(jobs)
      /\ \A i \in 1 .. Len(Tail(jobs)) : i + 1 \in 1 .. Len(jobs) /\ Tail(jobs)[i] = jobs[i + 1]
  BY HeadTail DEF TypeOK
<1>2. Sent' = Sent /\ (calling' # NoJob => calling'.n = calls')
  BY DEF QueueInv, InOrder, Sent
<1>3. job' = jobs[1] /\ job'.n <= Sent
  BY <1>1 DEF QueueInv, InOrder
<1>4. \A i \in 1 .. Len(jobs') : jobs'[i] = jobs[i + 1] /\ i + 1 \in 1 .. Len(jobs) /\ 1 < i + 1
  BY <1>1
<1>5. \A i \in 1 .. Len(jobs) : swept' < jobs[i].n /\ \A r \in Held' : r.n < jobs[i].n
  BY DEF QueueInv, InOrder
<1>6. \A i \in 1 .. Len(jobs') : job'.n < jobs'[i].n
  BY <1>1, <1>3, <1>4 DEF QueueInv, InOrder
<1>7. \A i, k \in 1 .. Len(jobs') : i < k => jobs'[i].n < jobs'[k].n
  BY <1>4 DEF QueueInv, InOrder
<1>8. swept' <= Sent /\ \A r \in Held' : r.n <= Sent
  BY DEF QueueInv, InOrder
<1>9. \A i \in 1 .. Len(jobs') : jobs'[i].n <= Sent
  BY <1>4 DEF QueueInv, InOrder
<1>10. QED
  BY <1>1, <1>2, <1>3, <1>4, <1>5, <1>6, <1>7, <1>8, <1>9 DEF InOrder

\* What a drain step makes of the queues decides the invariant after it.
LEMMA DrainOrder ==
  ASSUME TypeOK, QueueInv, pc = "drain", TakeNext, UNCHANGED <<calls, calling>>,
         \A r \in Held' : r \in Held \/ r = job,
         swept' = swept \/ swept' = job.n
  PROVE  InOrder'
<1>1. Receiving
  BY DEF Receiving
<1>2. CASE jobs # <<>>
  BY <1>1, <1>2, Taking DEF TakeNext
<1>3. CASE jobs = <<>>
  <2>1. jobs' = <<>> /\ ~Receiving' /\ Len(jobs') = 0
    BY <1>3 DEF TakeNext, Receiving
  <2>2. Sent' = Sent /\ (calling' # NoJob => calling'.n = calls')
    BY DEF QueueInv, InOrder, Sent
  <2>3. swept' <= Sent /\ \A r \in Held' : r.n <= Sent
    BY <1>1 DEF QueueInv, InOrder
  <2>4. QED
    BY <2>1, <2>2, <2>3 DEF InOrder
<1>4. QED
  BY <1>2, <1>3

\* A call appended to the channel is the newest.
LEMMA Sending ==
  ASSUME TypeOK, QueueInv, NEW j \in Job, jobs' = Append(jobs, j), calling' = NoJob,
         j.n = calls', Sent < calls', UNCHANGED <<backfill, pending, swept, pc, job>>
  PROVE  InOrder'
<1>1. calls' \in Int /\ Sent' = calls' /\ Held' = Held /\ Receiving' = Receiving
  BY DEF Sent, Held, Receiving, Job, JobOf, Calls
<1>2. /\ jobs' \in Seq(Job) /\ Len(jobs') = Len(jobs) + 1 /\ jobs'[Len(jobs) + 1] = j
      /\ \A i \in 1 .. Len(jobs) : jobs'[i] = jobs[i]
  BY Push DEF TypeOK
<1>3. /\ \A i \in 1 .. Len(jobs) : jobs[i].n < calls'
      /\ Receiving => job.n < calls'
      /\ \A r \in Held : r.n < calls'
      /\ swept < calls'
  BY <1>1, HeldType, JobNumbers DEF QueueInv, InOrder
<1>4. \A i \in 1 .. Len(jobs') : i \in 1 .. Len(jobs) \/ i = Len(jobs) + 1
  BY <1>2 DEF TypeOK
<1>5. \A i, k \in 1 .. Len(jobs') : i < k => jobs'[i].n < jobs'[k].n
  BY <1>2, <1>3, <1>4 DEF QueueInv, InOrder, TypeOK
<1>6. \A i \in 1 .. Len(jobs') :
        /\ jobs'[i].n <= calls' /\ swept < jobs'[i].n
        /\ Receiving => job.n < jobs'[i].n
        /\ \A r \in Held : r.n < jobs'[i].n
  BY <1>1, <1>2, <1>3, <1>4, JobNumbers DEF QueueInv, InOrder
<1>7. /\ Receiving => job.n <= calls' /\ swept < job.n /\ \A r \in Held : r.n < job.n
      /\ swept <= calls' /\ \A r \in Held : r.n <= calls'
  BY <1>1, <1>3, HeldType, JobNumbers DEF QueueInv, InOrder
<1>8. QED
  BY <1>1, <1>5, <1>6, <1>7 DEF InOrder

\* A step that touches no research keeps the invariants about it.
LEMMA Untouched ==
  ASSUME QueueInv, UNCHANGED <<backfill, pending, swept>>,
         pc' = "research" => pc = "research" /\ job' = job
  PROVE  Held' = Held /\ NoRevival' /\ BackfillInOrder'
  BY DEF QueueInv, NoRevival, BackfillInOrder, Live, Held

\* Displaced research goes to the back of the backfill, which stays in order.
LEMMA DrainResearchOrder ==
  ASSUME TypeOK, QueueInv, DrainResearch
  PROVE  /\ \A r \in Held' : r \in Held \/ r = job
         /\ BackfillInOrder'
<1>1. pc = "drain" /\ pending' = job /\ Receiving /\ job \in Job
  BY DEF DrainResearch, Draining, Receiving, TypeOK
<1>2. /\ \A i \in 1 .. Len(backfill) : backfill[i].n < job.n
      /\ pending # NoJob => pending.n < job.n
  BY <1>1, HeldType DEF QueueInv, InOrder
<1>3. CASE ~(pending # NoJob /\ BackfillAbandoned)
  <2>1. backfill' = backfill
    BY <1>3 DEF DrainResearch
  <2>2. QED
    BY <1>1, <1>2, <2>1 DEF Held, QueueInv, BackfillInOrder
<1>4. CASE pending # NoJob /\ BackfillAbandoned
  <2> DEFINE k == Kept(backfill)
  <2>1. backfill' = Append(k, pending) /\ pending \in JobOf(Researches)
    BY <1>4 DEF DrainResearch, PushBackfill, TypeOK, Option
  <2>2. k \in Seq(JobOf(Researches)) /\ Len(k) < BackfillCap
    BY KeptSuffix DEF TypeOK, QueueInv, BackfillInOrder
  <2>3. PICK d \in Nat : \A i \in 1 .. Len(k) : i + d \in 1 .. Len(backfill) /\ k[i] = backfill[i + d]
    BY KeptSuffix DEF TypeOK
  <2>4. /\ backfill' \in Seq(JobOf(Researches)) /\ Len(backfill') = Len(k) + 1
        /\ backfill'[Len(k) + 1] = pending
        /\ \A i \in 1 .. Len(k) : backfill'[i] = k[i]
    BY <2>1, <2>2, Push
  <2> HIDE DEF k
  <2>5. \A i \in 1 .. Len(backfill') : i \in 1 .. Len(k) \/ i = Len(k) + 1
    BY <2>2, <2>4
  <2>6. \A i \in 1 .. Len(k) : k[i] \in Held /\ k[i].n < pending.n /\ k[i].n < job.n
    BY <1>2, <1>4, <2>3, HeldType DEF QueueInv, BackfillInOrder
  <2>7. \A i, m \in 1 .. Len(k) : i < m => k[i].n < k[m].n
    BY <2>2, <2>3 DEF QueueInv, BackfillInOrder
  <2>8. \A i \in 1 .. Len(backfill') : backfill'[i].n < pending'.n
    BY <1>1, <1>2, <1>4, <2>4, <2>5, <2>6
  <2>9. \A i, m \in 1 .. Len(backfill') : i < m => backfill'[i].n < backfill'[m].n
    BY <2>2, <2>4, <2>5, <2>6, <2>7
  <2>10. Len(backfill') <= BackfillCap
    BY <2>2, <2>4
  <2>11. BackfillInOrder'
    BY <2>8, <2>9, <2>10 DEF BackfillInOrder
  <2>12. \A i \in 1 .. Len(backfill') : backfill'[i] \in Held
    BY <1>4, <2>4, <2>5, <2>6, HeldType
  <2>13. \A r \in ToSet(backfill') : r \in Held
    BY <2>4, <2>12 DEF ToSet
  <2>14. QED
    BY <1>1, <2>11, <2>13 DEF Held
<1>5. QED
  BY <1>3, <1>4

LEMMA DrainQueueInv ==
  ASSUME TypeOK, QueueInv, Drain
  PROVE  QueueInv'
<1> USE DEF session, queues, lanes, history
<1>1. pc = "drain" /\ Receiving /\ TakeNext /\ UNCHANGED <<calls, calling>> /\ pc' # "research"
  BY DEF Drain, Draining, DrainAsk, DrainResearch, DrainDigest, DrainCancelResearch, Receiving,
     DrainCancelDigests, DrainSetModel, DrainRebind, DrainSetSlowModel, DrainQuery, TakeNext
<1>2. CASE UNCHANGED <<backfill, pending, swept>>
  BY <1>1, <1>2, Untouched, DrainOrder DEF QueueInv
<1>3. CASE DrainResearch
  <2>1. swept' = swept
    BY <1>3 DEF DrainResearch
  <2>2. InOrder' /\ BackfillInOrder'
    BY <1>1, <1>3, <2>1, DrainResearchOrder, DrainOrder
  <2>3. \A r \in Held' : r.n > swept'
    BY <1>1, <1>3, <2>1, DrainResearchOrder DEF QueueInv, NoRevival, Live, InOrder
  <2>4. QED
    BY <1>1, <2>2, <2>3 DEF QueueInv, NoRevival, Live
<1>4. CASE DrainCancelResearch
  <2>1. pending' = NoJob /\ backfill' = <<>> /\ swept' = job.n /\ Len(backfill') = 0
    BY <1>4 DEF DrainCancelResearch
  <2>2. Held' = {}
    BY <2>1 DEF Held, ToSet
  <2>3. InOrder'
    BY <1>1, <2>1, <2>2, DrainOrder
  <2>4. QED
    BY <1>1, <2>1, <2>2, <2>3 DEF QueueInv, NoRevival, Live, BackfillInOrder
<1>5. QED
  BY <1>1, <1>2, <1>3, <1>4 DEF Drain, DrainAsk, DrainDigest, DrainCancelDigests, DrainSetModel,
     DrainRebind, DrainSetSlowModel, DrainQuery

LEMMA SessionQueueInv ==
  ASSUME TypeOK, QueueInv, Session
  PROVE  QueueInv'
<1> USE DEF session, queues, lanes, history
<1>1. Held' = Held /\ NoRevival' /\ BackfillInOrder'
  BY Untouched DEF Session, Call, Interrupt, SendControl, DropEngine
<1>2. ASSUME NEW k \in JobKinds, Call(k) PROVE InOrder'
  <2> DEFINE j == [kind |-> k, n |-> calls + 1]
  <2>1. j \in Job /\ j.n = calls' /\ Sent < calls' /\ jobs' = Append(jobs, j) /\ calling' = NoJob
    BY <1>2 DEF Call, Enqueue, TypeOK, Job, JobOf, Calls, Sent
  <2> HIDE DEF j
  <2>2. QED
    BY <1>2, <2>1, Sending DEF Call
<1>3. ASSUME NEW k \in JobKinds, Interrupt(k) PROVE InOrder'
  <2>1. /\ calling = NoJob /\ calls \in Nat /\ k \in Controls
        /\ calls' = calls + 1 /\ calling' = [kind |-> k, n |-> calls + 1]
    BY <1>3 DEF Interrupt, TypeOK
  <2>2. Sent' = Sent /\ calling'.n = calls'
    BY <2>1 DEF Sent, NoJob, Controls
  <2>3. UNCHANGED <<jobs, pc, job, swept>>
    BY <1>3 DEF Interrupt
  <2>4. QED
    BY <1>1, <2>2, <2>3 DEF QueueInv, InOrder, Receiving
<1>4. CASE SendControl
  <2>1. /\ calling \in Job /\ jobs' = Append(jobs, calling) /\ calling' = NoJob
        /\ calling.n = calls' /\ Sent < calls'
    BY <1>4 DEF SendControl, Enqueue, TypeOK, Option, Job, JobOf, JobKinds, QueueInv, InOrder, Sent
  <2>2. backfill' = backfill /\ pending' = pending /\ swept' = swept /\ pc' = pc /\ job' = job
    BY <1>4 DEF SendControl
  <2>3. QED
    BY <1>1, <2>1, <2>2, Sending DEF QueueInv
<1>5. CASE DropEngine
  <2>1. calls' = calls /\ calling' = calling /\ jobs' = jobs /\ swept' = swept
        /\ pc' = pc /\ job' = job
    BY <1>5 DEF DropEngine
  <2>2. Receiving' => Receiving /\ job' = job
    BY <2>1 DEF Receiving
  <2>3. QED
    BY <1>1, <2>1, <2>2, LettingGo DEF QueueInv
<1>6. QED
  BY <1>1, <1>2, <1>3, <1>4, <1>5 DEF Session, QueueInv

\* Taking the pending research, or the oldest of the backfill, to run or to
\* give up: what stays behind is in order.
LEMMA Shrinking ==
  ASSUME TypeOK, QueueInv,
         \/ pending' = NoJob /\ UNCHANGED backfill
         \/ backfill # <<>> /\ backfill' = Tail(backfill) /\ UNCHANGED pending
  PROVE  Held' \subseteq Held /\ BackfillInOrder'
<1>1. CASE pending' = NoJob /\ UNCHANGED backfill
  BY <1>1 DEF Held, QueueInv, BackfillInOrder
<1>2. CASE backfill # <<>> /\ backfill' = Tail(backfill) /\ UNCHANGED pending
  <2>1. /\ Len(backfill') = Len(backfill) - 1 /\ backfill' \in Seq(JobOf(Researches))
        /\ \A i \in 1 .. Len(backfill') : i + 1 \in 1 .. Len(backfill) /\ backfill'[i] = backfill[i + 1]
    BY <1>2, HeadTail DEF TypeOK
  <2>2. /\ Len(backfill) \in Nat /\ Len(backfill) <= BackfillCap
        /\ \A i, k \in 1 .. Len(backfill) : i < k => backfill[i].n < backfill[k].n
        /\ pending # NoJob => \A i \in 1 .. Len(backfill) : backfill[i].n < pending.n
    BY DEF QueueInv, BackfillInOrder, TypeOK
  <2>3. \A i, k \in 1 .. Len(backfill') : i < k => backfill'[i].n < backfill'[k].n
    BY <2>1, <2>2
  <2>4. Len(backfill') <= BackfillCap
    BY <2>1, <2>2
  <2>5. pending' # NoJob => \A i \in 1 .. Len(backfill') : backfill'[i].n < pending'.n
    BY <1>2, <2>1, <2>2
  <2>6. \A r \in ToSet(backfill') : r \in Held
    <3>1. \A i \in 1 .. Len(backfill') : backfill'[i] \in Held
      BY <2>1, HeldType
    <3>2. QED
      BY <2>1, <3>1 DEF ToSet
  <2>7. Held' \subseteq Held
    BY <1>2, <2>6 DEF Held
  <2>8. QED
    BY <2>3, <2>4, <2>5, <2>7 DEF BackfillInOrder
<1>3. QED
  BY <1>1, <1>2

LEMMA PassQueueInv ==
  ASSUME TypeOK, QueueInv, Worker, ~Drain
  PROVE  QueueInv'
<1> USE DEF session, queues, lanes, history
<1>1. CASE \/ Boot \/ WarmDone \/ RecvDisconnected \/ RecvEmpty \/ Bind \/ ClearPreempt \/ StartWarm
           \/ NoAsk \/ AskUnreachable \/ StartAsk \/ AskYields \/ AskAnswers \/ AskFails \/ ResearchEnds
           \/ StartDigest \/ DigestUnbound \/ DigestEnds \/ NothingToPick
  <2>1. /\ UNCHANGED <<backfill, pending, swept, calls, calling, jobs>>
        /\ pc' # "research"
        /\ Receiving' => Receiving /\ job' = job
    BY <1>1 DEF Boot, WarmDone, RecvDisconnected, RecvEmpty, Bind, ClearPreempt, StartWarm, NoAsk,
       AskUnreachable, StartAsk, AskYields, AskAnswers, AskFails, ResearchEnds, StartDigest,
       DigestUnbound, DigestEnds, NothingToPick, Receiving
  <2>2. QED
    BY <2>1, Untouched, LettingGo DEF QueueInv
<1>2. CASE Recv
  <2>1. /\ UNCHANGED <<backfill, pending, swept, calls, calling>> /\ pc' # "research"
        /\ ~Receiving /\ jobs # <<>> /\ job' = Head(jobs) /\ jobs' = Tail(jobs)
    BY <1>2 DEF Recv, Receiving
  <2>2. Held' = Held /\ NoRevival' /\ BackfillInOrder'
    BY <2>1, Untouched
  <2>3. InOrder'
    BY <2>1, <2>2, Taking
  <2>4. QED
    BY <2>2, <2>3 DEF QueueInv
<1>3. CASE StartResearch
  <2>1. Held' \subseteq Held /\ BackfillInOrder' /\ job' \in Held
    <3>1. CASE pending # NoJob
      <4>1. job' = pending /\ pending' = NoJob /\ backfill' = backfill
        BY <1>3, <3>1 DEF StartResearch, TakeResearch
      <4>2. QED
        BY <3>1, <4>1, Shrinking, HeldType
    <3>2. CASE pending = NoJob
      <4>1. backfill # <<>> /\ job' = Head(backfill) /\ backfill' = Tail(backfill) /\ pending' = pending
        BY <1>3, <3>2 DEF StartResearch, TakeResearch
      <4>2. Head(backfill) = backfill[1] /\ 1 \in 1 .. Len(backfill)
        BY <4>1, HeadTail DEF TypeOK
      <4>3. QED
        BY <4>1, <4>2, Shrinking, HeldType
    <3>3. QED
      BY <3>1, <3>2
  <2>2. UNCHANGED <<calls, calling, jobs, swept>> /\ ~Receiving' /\ pc' = "research"
    BY <1>3 DEF StartResearch, Receiving
  <2>3. QED
    BY <2>1, <2>2, LettingGo DEF QueueInv, NoRevival, Live
<1>4. CASE ResearchUnbound
  <2>1. Held' \subseteq Held /\ BackfillInOrder'
    BY <1>4, Shrinking DEF ResearchUnbound
  <2>2. UNCHANGED <<calls, calling, jobs, swept>> /\ ~Receiving' /\ pc' # "research"
    BY <1>4 DEF ResearchUnbound, Receiving
  <2>3. QED
    BY <2>1, <2>2, LettingGo DEF QueueInv, NoRevival, Live
<1>5. QED
  BY <1>1, <1>2, <1>3, <1>4 DEF Worker

LEMMA QueueInvariant == Spec => []QueueInv
<1>1. Init => QueueInv
  <2> SUFFICES ASSUME Init PROVE QueueInv
    OBVIOUS
  <2>1. Held = {} /\ Live = {} /\ Len(jobs) = 0 /\ Len(backfill) = 0 /\ ~Receiving
    BY DEF Init, Held, Live, ToSet, Receiving
  <2>2. QED
    BY <2>1 DEF Init, QueueInv, InOrder, NoRevival, BackfillInOrder, Sent
<1>2. TypeOK /\ QueueInv /\ [Next]_vars => QueueInv'
  <2>1. TypeOK /\ QueueInv /\ UNCHANGED vars => QueueInv'
    BY DEF vars, session, queues, lanes, history, QueueInv, InOrder, Sent, Held, Live, NoRevival,
       BackfillInOrder, Receiving
  <2>2. QED
    BY <2>1, SessionQueueInv, DrainQueueInv, PassQueueInv DEF Next, Worker
<1>3. QED
  BY <1>1, <1>2, TypeCorrect, PTL DEF Spec

\* Research submitted before a cancel never runs once the worker has drained
\* the cancel (src/src/engine.rs, Job::CancelResearch and run_research).
THEOREM CancelledStaysCancelled == Spec => []NoRevival
<1>1. QueueInv => NoRevival
  BY DEF QueueInv
<1>2. QED
  BY <1>1, QueueInvariant, PTL

\* The backfill never exceeds its cap and is kept oldest first
\* (push_backfill), whatever the cap.
THEOREM BackfillBounded == Spec => []BackfillInOrder
<1>1. QueueInv => BackfillInOrder
  BY DEF QueueInv
<1>2. QED
  BY <1>1, QueueInvariant, PTL

-----------------------------------------------------------------------------
(* The lane indicators *)

LEMMA StepLanesHonest ==
  ASSUME TypeOK, LanesHonest, Session \/ Worker
  PROVE  LanesHonest'
<1> USE DEF session, queues, lanes, history
<1> DEFINE Shown(p, j) ==
      CASE p \in {"bootWarm", "bindWarm", "drainWarm"} -> [Quietly EXCEPT !.busy = "Warm"]
        [] p = "ask"      -> [Quietly EXCEPT !.busy = j.kind]
        [] p = "digest"   -> [Quietly EXCEPT !.busy = "Digest"]
        [] p = "research" -> [busy |-> j.kind, researching |-> j.n]
        [] OTHER          -> Quietly
<1>1. told = Shown(pc, job) /\ (LanesHonest' <=> told' = Shown(pc', job'))
  BY DEF LanesHonest
<1>2. \A b : [Quietly EXCEPT !.busy = b] = [busy |-> b, researching |-> 0]
  BY DEF Quietly
<1>3. /\ pc \in {"bootWarm", "bindWarm", "drainWarm"} => told = [busy |-> "Warm", researching |-> 0]
      /\ pc = "ask" => told = [busy |-> job.kind, researching |-> 0]
      /\ pc = "digest" => told = [busy |-> "Digest", researching |-> 0]
      /\ pc = "research" => told = [busy |-> job.kind, researching |-> job.n]
      /\ pc \notin {"bootWarm", "bindWarm", "drainWarm", "ask", "digest", "research"} => told = Quietly
  BY <1>1, <1>2
<1>4. CASE UNCHANGED <<told, pc, job>>
  BY <1>1, <1>4
<1>5. ASSUME pc \notin {"bootWarm", "bindWarm", "drainWarm", "ask", "digest", "research"},
             pc' \notin {"bootWarm", "bindWarm", "drainWarm", "ask", "digest", "research"},
             told' = told \/ told' = [told EXCEPT !.researching = 0]
      PROVE  LanesHonest'
  BY <1>1, <1>3, <1>5 DEF Quietly
<1>6. CASE Session
  BY <1>4, <1>6 DEF Session, Call, Interrupt, SendControl, DropEngine
<1>7. CASE Drain
  <2>1. pc = "drain" /\ pc' \in {"drain", "drained"}
    BY <1>7 DEF Drain, Draining, DrainAsk, DrainResearch, DrainDigest, DrainCancelResearch, TakeNext,
       DrainCancelDigests, DrainSetModel, DrainRebind, DrainSetSlowModel, DrainQuery
  <2>2. told' = told \/ told' = [told EXCEPT !.researching = 0]
    BY <1>7 DEF Drain, DrainAsk, DrainResearch, DrainDigest, DrainCancelResearch,
       DrainCancelDigests, DrainSetModel, DrainRebind, DrainSetSlowModel, DrainQuery
  <2>3. QED
    BY <1>5, <2>1, <2>2
<1>8. CASE \/ Recv \/ RecvDisconnected \/ RecvEmpty \/ ClearPreempt \/ NoAsk \/ AskUnreachable
           \/ ResearchUnbound \/ DigestUnbound \/ NothingToPick
  <2>1. /\ pc \in {"top", "clear", "drained", "pick"} /\ pc' \in {"top", "clear", "bind", "drain", "pick", "done"}
        /\ told' = told \/ told' = [told EXCEPT !.researching = 0]
    BY <1>8 DEF Recv, RecvDisconnected, RecvEmpty, ClearPreempt, NoAsk, AskUnreachable,
       ResearchUnbound, DigestUnbound, NothingToPick
  <2>2. QED
    BY <1>5, <2>1
<1>9. CASE Boot \/ Bind \/ StartWarm
  <2>1. /\ pc \in {"boot", "bind", "drained"}
        /\ \/ pc' \in {"bootWarm", "bindWarm", "drainWarm"} /\ told' = [told EXCEPT !.busy = "Warm"]
           \/ pc' \in {"top", "clear"} /\ told' = told
    BY <1>9 DEF Boot, Bind, StartWarm, Busy
  <2>2. told = Quietly
    BY <1>3, <2>1
  <2>3. QED
    BY <1>1, <1>5, <2>1, <2>2
<1>10. CASE StartAsk
  BY <1>1, <1>3, <1>10 DEF StartAsk, Busy
<1>11. CASE StartResearch
  BY <1>1, <1>11 DEF StartResearch
<1>12. CASE StartDigest
  BY <1>1, <1>3, <1>12 DEF StartDigest, Busy
<1>13. CASE WarmDone \/ AskYields \/ AskAnswers \/ AskFails \/ DigestEnds \/ ResearchEnds
  <2>1. /\ pc' \in {"top", "clear", "drained", "pick"}
        /\ told' = Quietly
    <3>1. CASE ResearchEnds
      BY <3>1 DEF ResearchEnds
    <3>2. CASE WarmDone \/ AskYields \/ AskAnswers \/ AskFails \/ DigestEnds
      <4>1. \E b : told = [busy |-> b, researching |-> 0]
        BY <1>3, <3>2 DEF WarmDone, AskYields, AskAnswers, AskFails, DigestEnds
      <4>2. told' = [told EXCEPT !.busy = "None"] /\ pc' \in {"top", "clear", "drained", "pick"}
        BY <3>2 DEF WarmDone, AskYields, AskAnswers, AskFails, DigestEnds, Busy
      <4>3. QED
        BY <4>1, <4>2 DEF Quietly
    <3>3. QED
      BY <1>13, <3>1, <3>2
  <2>2. QED
    BY <1>1, <2>1
<1>14. QED
  BY <1>6, <1>7, <1>8, <1>9, <1>10, <1>11, <1>12, <1>13 DEF Worker

\* The busy and researching indicators the events drive say exactly what the
\* worker is doing: every early return of the loop closes what it opened.
THEOREM IndicatorsHonest == Spec => []LanesHonest
<1>1. Init => LanesHonest
  BY DEF Init, LanesHonest
<1>2. TypeOK /\ LanesHonest /\ [Next]_vars => LanesHonest'
  <2>1. LanesHonest /\ UNCHANGED vars => LanesHonest'
    BY DEF vars, session, queues, lanes, history, LanesHonest
  <2>2. QED
    BY <2>1, StepLanesHonest DEF Next
<1>3. QED
  BY <1>1, <1>2, TypeCorrect, PTL DEF Spec

-----------------------------------------------------------------------------
(* The newest ask wins *)

\* What was displaced is older than what displaced it, and than everything
\* still to come; the ask the worker keeps is older than everything to come.
AskOrder ==
  /\ latest # NoJob =>
       /\ latest.n <= Sent
       /\ Receiving => latest.n < job.n
       /\ \A i \in 1 .. Len(jobs) : latest.n < jobs[i].n
  /\ \A n \in Calls : verdict[n] = "displaced" =>
       /\ n <= Sent
       /\ Receiving => n < job.n
       /\ \A i \in 1 .. Len(jobs) : n < jobs[i].n

AskInv == AskOrder /\ NewestAskWins

LEMMA AskNumbers ==
  ASSUME TypeOK
  PROVE  /\ latest # NoJob => latest \in JobOf(Asks) /\ latest.n \in Calls
         /\ pc = "ask" => job.n \in Calls
         /\ \A n \in Calls : n \in Nat
         /\ Receiving => job \in Job /\ job.n \in Calls
  BY DEF TypeOK, Option, JobOf, Job, Calls, Receiving

\* A step that takes nothing from the channel and displaces nothing.
LEMMA NothingDisplaced ==
  ASSUME AskInv, UNCHANGED <<calls, calling, jobs>>,
         Receiving' => Receiving /\ job' = job,
         latest' \in {latest, NoJob},
         \A n \in Calls : verdict'[n] = "displaced" => verdict[n] = "displaced",
         pc' = "ask" => (latest # NoJob /\ latest' = NoJob /\ job' = latest) \/ (pc = "ask" /\ job' = job)
  PROVE  AskInv'
<1>1. Sent' = Sent
  BY DEF Sent
<1>2. AskOrder'
  BY <1>1 DEF AskInv, AskOrder
<1>3. NewestAskWins'
  BY DEF AskInv, NewestAskWins
<1>4. QED
  BY <1>2, <1>3 DEF AskInv

\* A call appended to the channel is newer than every ask before it.
LEMMA AskSending ==
  ASSUME TypeOK, AskInv, NEW j \in Job, jobs' = Append(jobs, j), calling' = NoJob,
         j.n = calls', Sent < calls', UNCHANGED <<latest, verdict, pc, job>>
  PROVE  AskInv'
<1>1. calls' \in Int /\ Sent' = calls' /\ Sent \in Int /\ Receiving' = Receiving
  BY JobNumbers DEF Sent, Receiving, Job, JobOf, Calls
<1>2. /\ jobs' \in Seq(Job) /\ Len(jobs') = Len(jobs) + 1 /\ jobs'[Len(jobs) + 1] = j
      /\ \A i \in 1 .. Len(jobs) : jobs'[i] = jobs[i]
  BY Push DEF TypeOK
<1>3. \A i \in 1 .. Len(jobs') : i \in 1 .. Len(jobs) \/ jobs'[i] = j
  BY <1>2 DEF TypeOK
<1>4. AskOrder'
  BY <1>1, <1>2, <1>3, AskNumbers DEF AskInv, AskOrder
<1>5. NewestAskWins'
  BY DEF AskInv, NewestAskWins
<1>6. QED
  BY <1>4, <1>5 DEF AskInv

\* Whatever the worker takes from the channel is newer than the ask it keeps,
\* and older than the rest of the channel.
LEMMA AskTaking ==
  ASSUME TypeOK, QueueInv, AskInv, UNCHANGED <<calls, calling>>,
         jobs # <<>>, job' = Head(jobs), jobs' = Tail(jobs), pc' # "ask",
         \/ latest' = latest /\ \A n \in Calls : verdict'[n] = "displaced" => verdict[n] = "displaced"
         \/ /\ Receiving /\ latest' = job
            /\ \A n \in Calls : verdict'[n] = "displaced" =>
                 verdict[n] = "displaced" \/ (latest # NoJob /\ n = latest.n)
  PROVE  AskInv'
<1>1. /\ Head(jobs) = jobs[1] /\ Len(Tail(jobs)) = Len(jobs) - 1 /\ 1 \in 1 .. Len(jobs)
      /\ \A i \in 1 .. Len(Tail(jobs)) : i + 1 \in 1 .. Len(jobs) /\ Tail(jobs)[i] = jobs[i + 1]
  BY HeadTail DEF TypeOK
<1>2. Sent' = Sent /\ job' = jobs[1]
  BY <1>1 DEF Sent
<1>3. \A i \in 1 .. Len(jobs') : \E k \in 1 .. Len(jobs) : jobs'[i] = jobs[k]
  BY <1>1
<1>4. CASE latest' = latest /\ \A n \in Calls : verdict'[n] = "displaced" => verdict[n] = "displaced"
  <2>1. AskOrder'
    BY <1>1, <1>2, <1>3, <1>4 DEF AskInv, AskOrder
  <2>2. NewestAskWins'
    BY <1>4 DEF AskInv, NewestAskWins
  <2>3. QED
    BY <2>1, <2>2 DEF AskInv
<1>5. CASE /\ Receiving /\ latest' = job
           /\ \A n \in Calls : verdict'[n] = "displaced" =>
                verdict[n] = "displaced" \/ (latest # NoJob /\ n = latest.n)
  <2>1. \A n \in Calls : verdict'[n] = "displaced" =>
          n <= Sent /\ n < job.n /\ \A i \in 1 .. Len(jobs) : n < jobs[i].n
    BY <1>5 DEF AskInv, AskOrder
  <2>2. job.n <= Sent /\ \A i \in 1 .. Len(jobs) : job.n < jobs[i].n
    BY <1>5 DEF QueueInv, InOrder
  <2>3. AskOrder'
    BY <1>1, <1>2, <1>3, <1>5, <2>1, <2>2 DEF AskOrder
  <2>4. NewestAskWins'
    BY <1>5, <2>1 DEF NewestAskWins
  <2>5. QED
    BY <2>3, <2>4 DEF AskInv
<1>6. QED
  BY <1>4, <1>5

\* The end of the drain: the channel is empty, and the ask kept is the newest.
LEMMA AskDrained ==
  ASSUME TypeOK, QueueInv, AskInv, UNCHANGED <<calls, calling>>, jobs = <<>>, jobs' = jobs,
         pc' = "drained",
         \/ latest' = latest /\ \A n \in Calls : verdict'[n] = "displaced" => verdict[n] = "displaced"
         \/ /\ Receiving /\ latest' = job
            /\ \A n \in Calls : verdict'[n] = "displaced" =>
                 verdict[n] = "displaced" \/ (latest # NoJob /\ n = latest.n)
  PROVE  AskInv'
<1>1. Sent' = Sent /\ Len(jobs') = 0 /\ ~Receiving'
  BY DEF Sent, Receiving
<1>2. CASE latest' = latest /\ \A n \in Calls : verdict'[n] = "displaced" => verdict[n] = "displaced"
  BY <1>1, <1>2 DEF AskInv, AskOrder, NewestAskWins
<1>3. CASE /\ Receiving /\ latest' = job
           /\ \A n \in Calls : verdict'[n] = "displaced" =>
                verdict[n] = "displaced" \/ (latest # NoJob /\ n = latest.n)
  <2>1. \A n \in Calls : verdict'[n] = "displaced" => n <= Sent /\ n < job.n
    BY <1>3 DEF AskInv, AskOrder
  <2>2. job.n <= Sent
    BY <1>3 DEF QueueInv, InOrder
  <2>3. QED
    BY <1>1, <1>3, <2>1, <2>2 DEF AskInv, AskOrder, NewestAskWins
<1>4. QED
  BY <1>2, <1>3

LEMMA DrainAskInv ==
  ASSUME TypeOK, QueueInv, AskInv, Drain
  PROVE  AskInv'
<1> USE DEF session, queues, lanes, history
<1>1. pc = "drain" /\ Receiving /\ TakeNext /\ UNCHANGED <<calls, calling>>
  BY DEF Drain, Draining, DrainAsk, DrainResearch, DrainDigest, DrainCancelResearch, Receiving,
     DrainCancelDigests, DrainSetModel, DrainRebind, DrainSetSlowModel, DrainQuery
<1>2. \/ latest' = latest /\ \A n \in Calls : verdict'[n] = "displaced" => verdict[n] = "displaced"
      \/ /\ Receiving /\ latest' = job
         /\ \A n \in Calls : verdict'[n] = "displaced" =>
              verdict[n] = "displaced" \/ (latest # NoJob /\ n = latest.n)
  <2>1. CASE DrainAsk
    BY <1>1, <2>1 DEF DrainAsk, Close, NoJob, Calls
  <2>2. CASE Drain /\ ~DrainAsk
    BY <2>2 DEF Drain, DrainResearch, DrainDigest, DrainCancelResearch, DrainCancelDigests,
       DrainSetModel, DrainRebind, DrainSetSlowModel, DrainQuery, Close
  <2>3. QED
    BY <2>1, <2>2
<1>3. CASE jobs # <<>>
  BY <1>1, <1>2, <1>3, AskTaking DEF TakeNext
<1>4. CASE jobs = <<>>
  BY <1>1, <1>2, <1>4, AskDrained DEF TakeNext
<1>5. QED
  BY <1>3, <1>4

LEMMA SessionAskInv ==
  ASSUME TypeOK, QueueInv, AskInv, Session
  PROVE  AskInv'
<1> USE DEF session, queues, lanes, history
<1>1. ASSUME NEW k \in JobKinds, Call(k) PROVE AskInv'
  <2> DEFINE j == [kind |-> k, n |-> calls + 1]
  <2>1. j \in Job /\ j.n = calls' /\ Sent < calls' /\ jobs' = Append(jobs, j) /\ calling' = NoJob
    BY <1>1 DEF Call, Enqueue, TypeOK, Job, JobOf, Calls, Sent
  <2> HIDE DEF j
  <2>2. QED
    BY <1>1, <2>1, AskSending DEF Call
<1>2. ASSUME NEW k \in JobKinds, Interrupt(k) PROVE AskInv'
  <2>1. /\ calling = NoJob /\ calls \in Nat /\ k \in Controls
        /\ calls' = calls + 1 /\ calling' = [kind |-> k, n |-> calls + 1]
    BY <1>2 DEF Interrupt, TypeOK
  <2>2. Sent' = Sent
    BY <2>1 DEF Sent, NoJob, Controls
  <2>3. UNCHANGED <<jobs, pc, job, latest, verdict>>
    BY <1>2 DEF Interrupt
  <2>4. QED
    BY <2>2, <2>3 DEF AskInv, AskOrder, NewestAskWins, Receiving
<1>3. CASE SendControl
  <2>1. /\ calling \in Job /\ jobs' = Append(jobs, calling) /\ calling' = NoJob
        /\ calling.n = calls' /\ Sent < calls'
    BY <1>3 DEF SendControl, Enqueue, TypeOK, Option, Job, JobOf, JobKinds, QueueInv, InOrder, Sent
  <2>2. UNCHANGED <<latest, verdict, pc, job>>
    BY <1>3 DEF SendControl
  <2>3. QED
    BY <2>1, <2>2, AskSending
<1>4. CASE DropEngine
  BY <1>4, NothingDisplaced DEF DropEngine, Receiving
<1>5. QED
  BY <1>1, <1>2, <1>3, <1>4 DEF Session

LEMMA PassAskInv ==
  ASSUME TypeOK, QueueInv, AskInv, Worker, ~Drain
  PROVE  AskInv'
<1> USE DEF session, queues, lanes, history
<1>1. CASE Recv
  <2>1. /\ UNCHANGED <<calls, calling, latest, verdict>> /\ pc' # "ask"
        /\ jobs # <<>> /\ job' = Head(jobs) /\ jobs' = Tail(jobs)
    BY <1>1 DEF Recv
  <2>2. QED
    BY <2>1, AskTaking
<1>2. CASE ~Recv
  <2>1. /\ UNCHANGED <<calls, calling, jobs>>
        /\ Receiving' => Receiving /\ job' = job
        /\ latest' \in {latest, NoJob}
        /\ pc' = "ask" => latest # NoJob /\ latest' = NoJob /\ job' = latest
    BY <1>2 DEF Worker, Boot, WarmDone, RecvDisconnected, RecvEmpty, Bind, ClearPreempt, StartWarm, NoAsk,
       AskUnreachable, StartAsk, AskYields, AskAnswers, AskFails, StartResearch, ResearchUnbound,
       ResearchEnds, StartDigest, DigestUnbound, DigestEnds, NothingToPick, Receiving
  <2>2. \A n \in Calls : verdict'[n] = "displaced" => verdict[n] = "displaced"
    BY <1>2 DEF Worker, Boot, WarmDone, RecvDisconnected, RecvEmpty, Bind, ClearPreempt, StartWarm, NoAsk,
       AskUnreachable, StartAsk, AskYields, AskAnswers, AskFails, StartResearch, ResearchUnbound,
       ResearchEnds, StartDigest, DigestUnbound, DigestEnds, NothingToPick, Close
  <2>3. QED
    BY <2>1, <2>2, NothingDisplaced
<1>3. QED
  BY <1>1, <1>2

\* A question supersedes the one before it: of the asks drained in one pass
\* the newest is answered, and whatever the worker displaced is older than the
\* ask it keeps or is generating for (src/src/engine.rs, Job::Ask in the drain).
THEOREM NewestWins == Spec => []NewestAskWins
<1>1. Init => AskInv
  BY DEF Init, AskInv, AskOrder, NewestAskWins
<1>2. TypeOK /\ QueueInv /\ AskInv /\ [Next]_vars => AskInv'
  <2>1. AskInv /\ UNCHANGED vars => AskInv'
    BY DEF vars, session, queues, lanes, history, AskInv, AskOrder, NewestAskWins, Sent, Receiving
  <2>2. QED
    BY <2>1, SessionAskInv, DrainAskInv, PassAskInv DEF Next, Worker
<1>3. AskInv => NewestAskWins
  BY DEF AskInv
<1>4. QED
  BY <1>1, <1>2, <1>3, TypeCorrect, QueueInvariant, PTL DEF Spec

-----------------------------------------------------------------------------
(* At most one background job ahead *)

\* The drain empties the channel, so a pass that starts a background job finds
\* in the channel only what came since, and nothing that waited already.
AheadInv ==
  \A i \in 1 .. Len(jobs) :
    /\ ahead[jobs[i].n] <= 1
    /\ pc \in {"drained", "drainWarm", "ask", "pick"} => ahead[jobs[i].n] = 0

\* The calls in the channel, by number.
LEMMA ChannelNumbers ==
  ASSUME TypeOK
  PROVE  /\ \A i \in 1 .. Len(jobs) : jobs[i].n \in Calls /\ ahead[jobs[i].n] \in Nat
         /\ \A i \in 1 .. Len(jobs) : jobs[i].n \in Numbers(jobs)
<1>1. \A i \in 1 .. Len(jobs) : jobs[i] \in Job
  BY DEF TypeOK
<1>2. \A j \in Job : j.n \in Calls
  BY DEF Job, JobOf
<1>3. jobs \in Seq(Job)
  BY DEF TypeOK
<1>4. \A i \in 1 .. Len(jobs) : jobs[i] \in ToSet(jobs)
  BY <1>3 DEF ToSet
<1>5. QED
  BY <1>1, <1>2, <1>4 DEF Numbers, TypeOK

LEMMA AheadSending ==
  ASSUME TypeOK, AheadInv, NEW j \in Job, Enqueue(j), pc' = pc
  PROVE  AheadInv'
<1>1. /\ Len(jobs') = Len(jobs) + 1 /\ jobs'[Len(jobs) + 1] = j
      /\ \A i \in 1 .. Len(jobs) : jobs'[i] = jobs[i]
  BY Push DEF TypeOK, Enqueue
<1>2. \A i \in 1 .. Len(jobs') : i \in 1 .. Len(jobs) \/ jobs'[i] = j
  BY <1>1 DEF TypeOK
<1>3. j.n \in Calls
  BY DEF Job, JobOf
<1>4. \A n \in Calls : ahead'[n] = IF n = j.n THEN (IF pc \in {"research", "digest"} THEN 1 ELSE 0)
                                               ELSE ahead[n]
  BY <1>3 DEF Enqueue, TypeOK
<1>5. QED
  BY <1>1, <1>2, <1>3, <1>4, ChannelNumbers DEF AheadInv

LEMMA AheadTaking ==
  ASSUME TypeOK, AheadInv, jobs # <<>>, jobs' = Tail(jobs),
         ahead' = [ahead EXCEPT ![Head(jobs).n] = 0],
         pc' \notin {"drained", "drainWarm", "ask", "pick"}
  PROVE  AheadInv'
<1>1. /\ Len(Tail(jobs)) = Len(jobs) - 1
      /\ \A i \in 1 .. Len(Tail(jobs)) : i + 1 \in 1 .. Len(jobs) /\ Tail(jobs)[i] = jobs[i + 1]
  BY HeadTail DEF TypeOK
<1>2. \A n \in Calls : ahead'[n] = ahead[n] \/ ahead'[n] = 0
  BY DEF TypeOK
<1>3. \A i \in 1 .. Len(jobs') : \E k \in 1 .. Len(jobs) : jobs'[i] = jobs[k]
  BY <1>1
<1>4. QED
  BY <1>2, <1>3, ChannelNumbers DEF AheadInv

LEMMA AheadStarting ==
  ASSUME TypeOK, AheadInv, pc = "pick", StartBackground, jobs' = jobs,
         pc' \in {"research", "digest"}
  PROVE  AheadInv'
<1>1. \A i \in 1 .. Len(jobs) : ahead'[jobs[i].n] = 1
  BY ChannelNumbers DEF StartBackground, AheadInv
<1>2. QED
  BY <1>1 DEF AheadInv

LEMMA StepAheadInv ==
  ASSUME TypeOK, QueueInv, AheadInv, Session \/ Worker
  PROVE  AheadInv'
<1> USE DEF session, queues, lanes, history
<1>1. ASSUME NEW k \in JobKinds, Call(k) PROVE AheadInv'
  <2>1. [kind |-> k, n |-> calls + 1] \in Job
    BY <1>1 DEF Call, TypeOK, Job, JobOf, Calls
  <2>2. QED
    BY <1>1, <2>1, AheadSending DEF Call
<1>2. CASE SendControl
  <2>1. calling \in Job
    BY <1>2 DEF SendControl, TypeOK, Option, Job, JobOf, JobKinds
  <2>2. QED
    BY <1>2, <2>1, AheadSending DEF SendControl
<1>3. CASE (\E k \in JobKinds : Interrupt(k)) \/ DropEngine
  BY <1>3 DEF Interrupt, DropEngine, AheadInv
<1>4. CASE Recv
  <2>1. pc' \in {"clear", "bind"}
    BY <1>4 DEF Recv
  <2>2. QED
    BY <1>4, <2>1, AheadTaking DEF Recv
<1>5. CASE Drain
  <2>1. pc = "drain" /\ TakeNext
    BY <1>5 DEF Drain, Draining, DrainAsk, DrainResearch, DrainDigest, DrainCancelResearch,
       DrainCancelDigests, DrainSetModel, DrainRebind, DrainSetSlowModel, DrainQuery
  <2>2. CASE jobs # <<>>
    BY <2>1, <2>2, AheadTaking DEF TakeNext
  <2>3. CASE jobs = <<>>
    <3>1. Len(jobs') = 0
      BY <2>1, <2>3 DEF TakeNext
    <3>2. QED
      BY <3>1 DEF AheadInv
  <2>4. QED
    BY <2>2, <2>3
<1>6. CASE StartResearch \/ StartDigest
  BY <1>6, AheadStarting DEF StartResearch, StartDigest
<1>7. CASE RecvEmpty
  <2>1. Len(jobs') = 0
    BY <1>7 DEF RecvEmpty
  <2>2. QED
    BY <2>1 DEF AheadInv
<1>8. CASE Boot \/ WarmDone \/ RecvDisconnected \/ Bind \/ ClearPreempt \/ StartWarm \/ NoAsk
           \/ AskUnreachable \/ StartAsk \/ AskYields \/ AskAnswers \/ AskFails \/ ResearchUnbound
           \/ ResearchEnds \/ DigestUnbound \/ DigestEnds \/ NothingToPick
  <2>1. UNCHANGED <<jobs, ahead>>
    BY <1>8 DEF Boot, WarmDone, RecvDisconnected, Bind, ClearPreempt, StartWarm, NoAsk,
       AskUnreachable, StartAsk, AskYields, AskAnswers, AskFails, ResearchUnbound,
       ResearchEnds, DigestUnbound, DigestEnds, NothingToPick
  <2>2. pc' \in {"drained", "drainWarm", "ask", "pick"} => pc \in {"drained", "drainWarm", "ask", "pick"}
    BY <1>8 DEF Boot, WarmDone, RecvDisconnected, Bind, ClearPreempt, StartWarm, NoAsk,
       AskUnreachable, StartAsk, AskYields, AskAnswers, AskFails, ResearchUnbound,
       ResearchEnds, DigestUnbound, DigestEnds, NothingToPick
  <2>3. QED
    BY <2>1, <2>2 DEF AheadInv
<1>9. QED
  BY <1>1, <1>2, <1>3, <1>4, <1>5, <1>6, <1>7, <1>8 DEF Session, Worker

\* "A new ask never waits behind more than a single job" (src/src/engine.rs, the
\* loop of worker): between the moment an ask is sent and the moment the
\* worker takes it, at most one research or digest runs, whatever is queued.
THEOREM OneAhead == Spec => []OneBackgroundAhead
<1>1. Init => AheadInv
  BY DEF Init, AheadInv
<1>2. TypeOK /\ QueueInv /\ AheadInv /\ [Next]_vars => AheadInv'
  <2>1. AheadInv /\ UNCHANGED vars => AheadInv'
    BY DEF vars, session, AheadInv
  <2>2. QED
    BY <2>1, StepAheadInv DEF Next
<1>3. AheadInv => OneBackgroundAhead
  BY DEF AheadInv, OneBackgroundAhead
<1>4. QED
  BY <1>1, <1>2, <1>3, TypeCorrect, QueueInvariant, PTL DEF Spec

=============================================================================
