---------------------------- MODULE EngineWorker ----------------------------
(***************************************************************************)
(* The engine worker thread and the API the session drives it through      *)
(* (src/src/engine.rs).  Two threads share three things: the job channel   *)
(* (session to worker), the event channel (worker to session) and one      *)
(* atomic flag, preempt, that the session raises to make the worker give   *)
(* up the generation it is in.                                             *)
(*                                                                         *)
(* Every API call is numbered in call order; the number stands for the     *)
(* job's payload (question, turn id, pin id).  The event channel is        *)
(* abstracted to what its reader can conclude from it: told is the state   *)
(* of the two lane indicators after every event sent so far, verdict the   *)
(* one event (or the documented silence) that closes each call.  Delivery  *)
(* of the events is module WakePipe.  Meter, Prompt, Gen, Debug, Notice    *)
(* and Partial events change neither and are left out.                     *)
(***************************************************************************)
EXTENDS Naturals, Sequences, SequencesExt

CONSTANTS
  MaxCalls,          \* bound on the API calls of one behaviour
  Loads,             \* what the session may call: the kinds the n-th call may have
  BackfillCap,       \* BACKFILL_CAP (8 in the code)
  BackfillAbandoned, \* cfg.backfill_abandoned
  Prewarm,           \* cfg.prewarm
  Stream             \* cfg.stream

Asks       == {"Ask", "Watch"}            \* proactive or not
Researches == {"Research", "Ruminate"}    \* asked or not
Controls   == {"CancelResearch", "SetModel", "SetOption", "Rebind", "ListModels",
               "DescribeLanes"}           \* preceded by interrupt()
Quiet      == {"SetSlowModel", "ListSlowModels", "CancelDigests"}
JobKinds   == Asks \cup Researches \cup {"Digest"} \cup Controls \cup Quiet

ASSUME MaxCallsAssumption == MaxCalls \in Nat
ASSUME CapAssumption      == BackfillCap \in Nat \ {0}
ASSUME FlagAssumption     == {BackfillAbandoned, Prewarm, Stream} \subseteq BOOLEAN

Calls         == 1 .. MaxCalls
ASSUME LoadsAssumption == Loads \subseteq [Calls -> SUBSET JobKinds]

JobOf(kinds)  == [kind : kinds, n : Calls]
Job           == JobOf(JobKinds)
NoJob         == [kind |-> "None", n |-> 0]
Option(kinds) == JobOf(kinds) \cup {NoJob}

Verdicts == {"none", "applied",                         \* control calls
             "answer", "error", "silent",               \* an ask that was run
             "displaced", "yielded",
             "finding", "nothing", "replaced",          \* research
             "digested", "failed", "cancelled"}

VARIABLES
  \* the session's side of the Engine handle
  load,      \* what this session may call
  calls,     \* API calls made so far
  calling,   \* a control call between its interrupt() and its send
  closed,    \* the Engine handle has been dropped
  \* shared
  jobs,      \* the job channel
  preempt,   \* the AtomicBool
  \* the worker
  pc, job, latest, rewarm, pending, backfill, digests,
  bound,     \* the fast lane has a model (state.is_some())
  slow,      \* "shared" (no Lane), "up" or "down" (the Lane's own state)
  told,      \* what the events sent so far say of the lanes
  \* history
  verdict,   \* how each call was closed
  cut,       \* the newest call that raised preempt
  swept,     \* the newest CancelResearch drained
  ahead      \* background generations a job still queued has waited behind

session == <<load, calls, calling, closed>>
queues  == <<latest, rewarm, pending, backfill, digests>>
lanes   == <<bound, slow>>
history == <<cut, swept>>
vars    == <<session, jobs, preempt, pc, job, queues, lanes, told, verdict, history, ahead>>

PCs == {"boot", "bootWarm", "top", "bind", "bindWarm", "clear", "drain", "drained",
        "drainWarm", "ask", "pick", "research", "digest", "done"}

Receiving  == pc \in {"bind", "bindWarm", "clear", "drain"}   \* a received job in hand
Generating == pc \in {"ask", "research", "digest"}            \* a running job in hand
Telling    == [busy : Asks \cup Researches \cup {"Digest", "Warm", "None"},
               researching : 0 .. MaxCalls]
Quietly    == [busy |-> "None", researching |-> 0]

TypeOK ==
  /\ load \in Loads
  /\ calls \in 0 .. MaxCalls /\ calling \in Option(Controls) /\ closed \in BOOLEAN
  /\ jobs \in Seq(Job) /\ preempt \in BOOLEAN
  /\ pc \in PCs /\ rewarm \in BOOLEAN
  /\ job \in CASE Receiving       -> Job
              [] pc = "ask"      -> JobOf(Asks)
              [] pc = "research" -> JobOf(Researches)
              [] pc = "digest"   -> JobOf({"Digest"})
              [] OTHER           -> {NoJob}
  /\ latest \in Option(Asks) /\ pending \in Option(Researches)
  /\ backfill \in Seq(JobOf(Researches)) /\ digests \in Seq(JobOf({"Digest"}))
  /\ bound \in BOOLEAN /\ slow \in {"shared", "up", "down"}
  /\ told \in Telling
  /\ verdict \in [Calls -> Verdicts]
  /\ cut \in 0 .. MaxCalls /\ swept \in 0 .. MaxCalls
  /\ ahead \in [Calls -> Nat]

-----------------------------------------------------------------------------
(* Helpers *)

Numbers(s) == {j.n : j \in ToSet(s)}

\* push_backfill: drop the oldest until there is room, then push.
Kept(q) == IF Len(q) >= BackfillCap THEN SubSeq(q, Len(q) - BackfillCap + 2, Len(q)) ELSE q

\* Mutant: push_front, where the job put aside is the newest.
PushBackfillFront(q, j) == <<j>> \o Kept(q)

PushBackfill(q, j) == Append(Kept(q), j)

Evicted(q) == Numbers(q) \ Numbers(Kept(q))

Close(S, v) == verdict' = [n \in Calls |-> IF n \in S THEN v ELSE verdict[n]]

Busy(kind)  == told' = [told EXCEPT !.busy = kind]

\* Every job in the channel when a background generation starts waits behind it.
StartBackground ==
  ahead' = [n \in Calls |-> IF n \in Numbers(jobs) THEN ahead[n] + 1 ELSE ahead[n]]

\* run_research's own lane is the slow one when there is one.
ResearchLaneUp == IF slow = "shared" THEN bound ELSE slow = "up"

\* Mutant: idle without a look at the backfill.
BackgroundNoBackfill == digests # <<>> \/ pending # NoJob

\* The condition under which the worker polls rather than blocks.
Background == digests # <<>> \/ pending # NoJob \/ backfill # <<>>

-----------------------------------------------------------------------------
(* The session: Engine::ask, research, digest, set_model, ... *)

Enqueue(j) ==
  /\ jobs' = Append(jobs, j)
  /\ ahead' = [ahead EXCEPT ![j.n] = IF pc \in {"research", "digest"} THEN 1 ELSE 0]

\* A call that only sends.
Call(k) ==
  /\ ~closed /\ calling = NoJob /\ calls < MaxCalls
  /\ k \in load[calls + 1] \ Controls
  /\ calls' = calls + 1
  /\ Enqueue([kind |-> k, n |-> calls + 1])
  /\ UNCHANGED <<load, calling, closed, preempt, pc, job, queues, lanes, told, verdict, history>>

\* A control call raises the flag first ...
Interrupt(k) ==
  /\ ~closed /\ calling = NoJob /\ calls < MaxCalls
  /\ k \in load[calls + 1] \cap Controls
  /\ calls' = calls + 1
  /\ calling' = [kind |-> k, n |-> calls + 1]
  /\ preempt' = TRUE
  /\ cut' = calls + 1
  /\ UNCHANGED <<load, closed, jobs, pc, job, queues, lanes, told, verdict, swept, ahead>>

\* ... and sends second.
SendControl ==
  /\ calling # NoJob
  /\ Enqueue(calling)
  /\ calling' = NoJob
  /\ UNCHANGED <<load, calls, closed, preempt, pc, job, queues, lanes, told, verdict, history>>

\* The session ends and drops the handle: the channel is disconnected.
DropEngine ==
  /\ ~closed /\ calling = NoJob
  /\ closed' = TRUE
  /\ UNCHANGED <<load, calls, calling, jobs, preempt, pc, job, queues, lanes, told, verdict,
                 history, ahead>>

-----------------------------------------------------------------------------
(* The worker, up to its first recv: probe both lanes, announce, prewarm *)

Boot ==
  /\ pc = "boot"
  /\ bound' \in BOOLEAN /\ slow' \in {"shared", "up", "down"}
  /\ IF bound' /\ Prewarm THEN pc' = "bootWarm" /\ Busy("Warm")
                          ELSE pc' = "top" /\ UNCHANGED told
  /\ UNCHANGED <<session, jobs, preempt, job, queues, verdict, history, ahead>>

\* warm_marked returns, however the request went.
WarmDone ==
  /\ \/ pc = "bootWarm"  /\ pc' = "top"     /\ UNCHANGED rewarm
     \/ pc = "bindWarm"  /\ pc' = "clear"   /\ UNCHANGED rewarm
     \/ pc = "drainWarm" /\ pc' = "drained" /\ rewarm' = FALSE
  /\ Busy("None")
  /\ UNCHANGED <<session, jobs, preempt, job, latest, pending, backfill, digests, lanes, verdict,
                 history, ahead>>

(* The loop *)

\* recv, or try_recv when there is background work.
Recv ==
  /\ pc = "top" /\ jobs # <<>>
  /\ job' = Head(jobs) /\ jobs' = Tail(jobs)
  /\ ahead' = [ahead EXCEPT ![Head(jobs).n] = 0]
  /\ pc' = IF bound THEN "clear" ELSE "bind"
  /\ UNCHANGED <<session, preempt, queues, lanes, told, verdict, history>>

\* Mutant: continue where the code breaks.
RecvDisconnectedLoops ==
  /\ pc = "top" /\ jobs = <<>> /\ closed
  /\ pc' = "top"
  /\ UNCHANGED <<session, jobs, preempt, job, queues, lanes, told, verdict, history, ahead>>

RecvDisconnected ==
  /\ pc = "top" /\ jobs = <<>> /\ closed
  /\ pc' = "done"
  /\ UNCHANGED <<session, jobs, preempt, job, queues, lanes, told, verdict, history, ahead>>

RecvEmpty ==
  /\ pc = "top" /\ jobs = <<>> /\ ~closed /\ Background
  /\ pc' = "pick"
  /\ UNCHANGED <<session, jobs, preempt, job, queues, lanes, told, verdict, history, ahead>>

\* Late binding: an unbound worker probes again whenever work arrives.
Bind ==
  /\ pc = "bind"
  /\ bound' \in BOOLEAN
  /\ IF bound' /\ Prewarm THEN pc' = "bindWarm" /\ Busy("Warm")
                          ELSE pc' = "clear" /\ UNCHANGED told
  /\ UNCHANGED <<session, jobs, preempt, job, queues, slow, verdict, history, ahead>>

ClearPreempt ==
  /\ pc = "clear"
  /\ preempt' = FALSE /\ latest' = NoJob /\ rewarm' = FALSE
  /\ pc' = "drain"
  /\ UNCHANGED <<session, jobs, job, pending, backfill, digests, lanes, told, verdict, history,
                 ahead>>

-----------------------------------------------------------------------------
(* The drain: apply the job in hand, then try_recv the next *)

TakeNext ==
  IF jobs # <<>>
  THEN /\ job' = Head(jobs) /\ jobs' = Tail(jobs)
       /\ ahead' = [ahead EXCEPT ![Head(jobs).n] = 0]
       /\ pc' = "drain"
  ELSE /\ job' = NoJob /\ pc' = "drained"
       /\ UNCHANGED <<jobs, ahead>>

Draining(kinds) == pc = "drain" /\ job.kind \in kinds /\ TakeNext

\* Mutant: get_or_insert, the oldest ask survives.
DrainAskKeepsOldest ==
  /\ Draining(Asks)
  /\ latest' = IF latest = NoJob THEN job ELSE latest
  /\ Close(IF latest = NoJob THEN {} ELSE {job.n}, "displaced")
  /\ UNCHANGED <<session, preempt, rewarm, pending, backfill, digests, lanes, told, history>>

\* Only the newest ask survives the drain.
DrainAsk ==
  /\ Draining(Asks)
  /\ latest' = job
  /\ Close({latest.n} \ {0}, "displaced")
  /\ UNCHANGED <<session, preempt, rewarm, pending, backfill, digests, lanes, told, history>>

\* At most one research is live; the displaced one is dropped or backfilled.
DrainResearch ==
  /\ Draining(Researches)
  /\ pending' = job
  /\ IF pending # NoJob /\ BackfillAbandoned
     THEN backfill' = PushBackfill(backfill, pending) /\ Close(Evicted(backfill), "replaced")
     ELSE Close({pending.n} \ {0}, "replaced") /\ UNCHANGED backfill
  /\ UNCHANGED <<session, preempt, latest, rewarm, digests, lanes, told, history>>

DrainDigest ==
  /\ Draining({"Digest"})
  /\ digests' = Append(digests, job)
  /\ UNCHANGED <<session, preempt, latest, rewarm, pending, backfill, lanes, told, verdict, history>>

\* Mutant: the pending job is dropped and the backfill is not.
DrainCancelPendingOnly ==
  /\ Draining({"CancelResearch"})
  /\ pending' = NoJob
  /\ told' = [told EXCEPT !.researching = 0]
  /\ swept' = job.n
  /\ verdict' = [n \in Calls |-> IF n = job.n THEN "applied"
                                 ELSE IF n = pending.n THEN "cancelled"
                                 ELSE verdict[n]]
  /\ UNCHANGED <<session, preempt, latest, rewarm, backfill, digests, lanes, cut>>

DrainCancelResearch ==
  /\ Draining({"CancelResearch"})
  /\ pending' = NoJob /\ backfill' = <<>>
  /\ told' = [told EXCEPT !.researching = 0]
  /\ swept' = job.n
  /\ verdict' = [n \in Calls |-> IF n = job.n THEN "applied"
                                 ELSE IF n \in {pending.n} \cup Numbers(backfill) THEN "cancelled"
                                 ELSE verdict[n]]
  /\ UNCHANGED <<session, preempt, latest, rewarm, digests, lanes, cut>>

DrainCancelDigests ==
  /\ Draining({"CancelDigests"})
  /\ digests' = <<>>
  /\ verdict' = [n \in Calls |-> IF n = job.n THEN "applied"
                                 ELSE IF n \in Numbers(digests) THEN "cancelled"
                                 ELSE verdict[n]]
  /\ UNCHANGED <<session, preempt, latest, rewarm, pending, backfill, lanes, told, history>>

\* SetModel on the fast lane: rebind, announce, and owe a warm.
DrainSetModel ==
  /\ Draining({"SetModel"})
  /\ rewarm' = (rewarm \/ bound)
  /\ Close({job.n}, IF bound THEN "applied" ELSE "error")
  /\ UNCHANGED <<session, preempt, latest, pending, backfill, digests, lanes, told, history>>

\* Rebind: forget the model and probe again.
DrainRebind ==
  /\ Draining({"Rebind"})
  /\ bound' \in BOOLEAN
  /\ rewarm' = (rewarm \/ bound')
  /\ Close({job.n}, IF bound' THEN "applied" ELSE "error")
  /\ UNCHANGED <<session, preempt, latest, pending, backfill, digests, slow, told, history>>

\* SetModel on the slow lane: naming a slow model is what splits the lanes.
DrainSetSlowModel ==
  /\ Draining({"SetSlowModel"})
  /\ slow' \in (IF slow = "shared" THEN {"up", "down"} ELSE {slow})
  /\ Close({job.n}, IF slow' = "up" THEN "applied" ELSE "error")
  /\ UNCHANGED <<session, preempt, queues, bound, told, history>>

\* SetOption and DescribeLanes always apply; a listing needs a bound lane.
DrainQuery ==
  /\ Draining({"SetOption", "DescribeLanes", "ListModels", "ListSlowModels"})
  /\ LET listed == CASE job.kind = "ListModels"     -> bound
                     [] job.kind = "ListSlowModels" -> ResearchLaneUp
                     [] OTHER                       -> TRUE
     IN  Close({job.n}, IF listed THEN "applied" ELSE "error")
  /\ UNCHANGED <<session, preempt, queues, lanes, told, history>>

-----------------------------------------------------------------------------
(* After the drain: the owed warm, the surviving ask, research, one digest *)

OwesWarm == rewarm /\ Prewarm /\ bound

StartWarm ==
  /\ pc = "drained" /\ OwesWarm
  /\ Busy("Warm")
  /\ pc' = "drainWarm"
  /\ UNCHANGED <<session, jobs, preempt, job, queues, lanes, verdict, history, ahead>>

NoAsk ==
  /\ pc = "drained" /\ ~OwesWarm /\ latest = NoJob
  /\ pc' = "pick"
  /\ UNCHANGED <<session, jobs, preempt, job, queues, lanes, told, verdict, history, ahead>>

AskUnreachable ==
  /\ pc = "drained" /\ ~OwesWarm /\ latest # NoJob /\ ~bound
  /\ Close({latest.n}, "error")
  /\ latest' = NoJob
  /\ pc' = "top"
  /\ UNCHANGED <<session, jobs, preempt, job, rewarm, pending, backfill, digests, lanes, told,
                 history, ahead>>

StartAsk ==
  /\ pc = "drained" /\ ~OwesWarm /\ latest # NoJob /\ bound
  /\ job' = latest /\ latest' = NoJob
  /\ Busy(latest.kind)
  /\ pc' = "ask"
  /\ UNCHANGED <<session, jobs, preempt, rewarm, pending, backfill, digests, lanes, verdict, history,
                 ahead>>

\* Mutant: the early return skips the Idle.
AskYieldsNoIdle ==
  /\ pc = "ask" /\ Stream /\ preempt
  /\ Close({job.n}, "yielded")
  /\ job' = NoJob /\ pc' = "top"
  /\ UNCHANGED <<session, jobs, preempt, queues, lanes, told, history, ahead>>

\* generate() sees the flag before a stream line: the ask is dropped, unsaid,
\* and the pass is abandoned.
AskYields ==
  /\ pc = "ask" /\ Stream /\ preempt
  /\ Busy("None")
  /\ Close({job.n}, "yielded")
  /\ job' = NoJob /\ pc' = "top"
  /\ UNCHANGED <<session, jobs, preempt, queues, lanes, history, ahead>>

\* The last line was read with the flag down.
AskAnswers ==
  /\ pc = "ask" /\ (Stream => ~preempt)
  /\ Busy("None")
  /\ Close({job.n}, "answer")
  /\ job' = NoJob /\ pc' = "pick"
  /\ UNCHANGED <<session, jobs, preempt, queues, lanes, history, ahead>>

\* Refused, broken off, or empty: an error for an ask, nothing for commentary.
AskFails ==
  /\ pc = "ask"
  /\ Busy("None")
  /\ Close({job.n}, IF job.kind = "Watch" THEN "silent" ELSE "error")
  /\ job' = NoJob /\ pc' = "pick"
  /\ UNCHANGED <<session, jobs, preempt, queues, lanes, history, ahead>>

\* pending.take().or_else(|| backfill.pop_front())
TakeResearch ==
  IF pending # NoJob
  THEN job' = pending /\ pending' = NoJob /\ UNCHANGED backfill
  ELSE backfill # <<>> /\ job' = Head(backfill) /\ backfill' = Tail(backfill) /\ UNCHANGED pending

StartResearch ==
  /\ pc = "pick" /\ ResearchLaneUp
  /\ TakeResearch
  /\ told' = [busy |-> job'.kind, researching |-> job'.n]
  /\ StartBackground
  /\ pc' = "research"
  /\ UNCHANGED <<session, jobs, preempt, latest, rewarm, digests, lanes, verdict, history>>

ResearchUnbound ==
  /\ pc = "pick" /\ ~ResearchLaneUp
  /\ \/ pending # NoJob /\ pending' = NoJob /\ Close({pending.n}, "nothing") /\ UNCHANGED backfill
     \/ /\ pending = NoJob /\ backfill # <<>>
        /\ backfill' = Tail(backfill) /\ Close({Head(backfill).n}, "nothing") /\ UNCHANGED pending
  /\ told' = [told EXCEPT !.researching = 0]
  /\ pc' = "top"
  /\ UNCHANGED <<session, jobs, preempt, job, latest, rewarm, digests, lanes, history, ahead>>

\* Mutant: an interrupted research goes back to the pending slot.
ResearchEndsRequeued ==
  /\ pc = "research"
  /\ \/ preempt  /\ Close({job.n}, "yielded") /\ pending' = job
     \/ ~preempt /\ Close({job.n}, "finding") /\ UNCHANGED pending
     \/ Close({job.n}, "nothing") /\ UNCHANGED pending
  /\ told' = Quietly
  /\ job' = NoJob /\ pc' = "top"
  /\ UNCHANGED <<session, jobs, preempt, latest, rewarm, backfill, digests, lanes, history, ahead>>

\* Mutant: no continue, so the same pass cooks a digest too.
ResearchEndsNoContinue ==
  /\ pc = "research"
  /\ \/ preempt  /\ Close({job.n}, "yielded")
     \/ ~preempt /\ Close({job.n}, "finding")
     \/ Close({job.n}, "nothing")
  /\ told' = Quietly
  /\ job' = NoJob /\ pc' = "pick"
  /\ UNCHANGED <<session, jobs, preempt, queues, lanes, history, ahead>>

\* research_once gave up, found something, or had nothing to say (an error,
\* an empty reply, PASS).
ResearchEnds ==
  /\ pc = "research"
  /\ \/ preempt  /\ Close({job.n}, "yielded")
     \/ ~preempt /\ Close({job.n}, "finding")
     \/ Close({job.n}, "nothing")
  /\ told' = Quietly
  /\ job' = NoJob /\ pc' = "top"
  /\ UNCHANGED <<session, jobs, preempt, queues, lanes, history, ahead>>

NoResearch == pending = NoJob /\ backfill = <<>>

StartDigest ==
  /\ pc = "pick" /\ NoResearch /\ digests # <<>> /\ bound
  /\ job' = Head(digests) /\ digests' = Tail(digests)
  /\ Busy("Digest")
  /\ StartBackground
  /\ pc' = "digest"
  /\ UNCHANGED <<session, jobs, preempt, latest, rewarm, pending, backfill, lanes, verdict, history>>

DigestUnbound ==
  /\ pc = "pick" /\ NoResearch /\ digests # <<>> /\ ~bound
  /\ Close({Head(digests).n}, "failed") /\ digests' = Tail(digests)
  /\ pc' = "top"
  /\ UNCHANGED <<session, jobs, preempt, job, latest, rewarm, pending, backfill, lanes, told,
                 history, ahead>>

\* digest_once never looks at the flag.
DigestEnds ==
  /\ pc = "digest"
  /\ \E v \in {"digested", "failed"} : Close({job.n}, v)
  /\ Busy("None")
  /\ job' = NoJob /\ pc' = "top"
  /\ UNCHANGED <<session, jobs, preempt, queues, lanes, history, ahead>>

NothingToPick ==
  /\ pc = "pick" /\ NoResearch /\ digests = <<>>
  /\ pc' = "top"
  /\ UNCHANGED <<session, jobs, preempt, job, queues, lanes, told, verdict, history, ahead>>

-----------------------------------------------------------------------------
Init ==
  /\ load \in Loads
  /\ calls = 0 /\ calling = NoJob /\ closed = FALSE
  /\ jobs = <<>> /\ preempt = FALSE
  /\ pc = "boot" /\ job = NoJob /\ latest = NoJob /\ rewarm = FALSE
  /\ pending = NoJob /\ backfill = <<>> /\ digests = <<>>
  /\ bound = FALSE /\ slow = "shared"
  /\ told = Quietly
  /\ verdict = [n \in Calls |-> "none"]
  /\ cut = 0 /\ swept = 0
  /\ ahead = [n \in Calls |-> 0]

Session ==
  \/ \E k \in JobKinds : Call(k) \/ Interrupt(k)
  \/ SendControl
  \/ DropEngine

Drain ==
  \/ DrainAsk \/ DrainResearch \/ DrainDigest \/ DrainCancelResearch \/ DrainCancelDigests
  \/ DrainSetModel \/ DrainRebind \/ DrainSetSlowModel \/ DrainQuery

Worker ==
  \/ Boot \/ WarmDone \/ Recv \/ RecvDisconnected \/ RecvEmpty \/ Bind \/ ClearPreempt
  \/ Drain
  \/ StartWarm \/ NoAsk \/ AskUnreachable \/ StartAsk \/ AskYields \/ AskAnswers \/ AskFails
  \/ StartResearch \/ ResearchUnbound \/ ResearchEnds
  \/ StartDigest \/ DigestUnbound \/ DigestEnds \/ NothingToPick

Next == Session \/ Worker

Spec == Init /\ [][Next]_vars

\* The worker thread is scheduled and every request it makes has a timeout;
\* a session inside a control call returns from it.  Nothing makes the user
\* call, or leave.
FairSpec == Spec /\ WF_vars(Worker) /\ WF_vars(SendControl)

-----------------------------------------------------------------------------
(* Properties *)

\* The research jobs the worker holds, queued or in hand.
Held == ToSet(backfill) \cup ({pending} \ {NoJob})
Live == Held \cup (IF pc = "research" THEN {job} ELSE {})

\* A research submitted before a cancel never runs after the worker has
\* drained that cancel: not from the pending slot, not from backfill.
NoRevival == \A r \in Live : r.n > swept

\* The backfill is bounded by BACKFILL_CAP and keeps its jobs oldest first,
\* all older than the pending one, so that the head is the one to evict and to
\* run first.
BackfillInOrder ==
  /\ Len(backfill) <= BackfillCap
  /\ \A i, k \in 1 .. Len(backfill) : i < k => backfill[i].n < backfill[k].n
  /\ pending # NoJob => \A i \in 1 .. Len(backfill) : backfill[i].n < pending.n

\* Why: the channel is FIFO and is filled in call order, so whatever is still
\* to be drained is newer than everything drained.  The last call counts as
\* sent only once its send is done.
Sent == IF calling = NoJob THEN calls ELSE calls - 1

InOrder ==
  /\ calling # NoJob => calling.n = calls
  /\ \A i \in 1 .. Len(jobs) :
       /\ jobs[i].n <= Sent /\ swept < jobs[i].n
       /\ Receiving => job.n < jobs[i].n
       /\ \A r \in Held : r.n < jobs[i].n
       /\ \A k \in 1 .. Len(jobs) : i < k => jobs[i].n < jobs[k].n
  /\ Receiving => job.n <= Sent /\ swept < job.n /\ \A r \in Held : r.n < job.n
  /\ swept <= Sent /\ \A r \in Held : r.n <= Sent

\* The inductive invariant behind NoRevival and BackfillInOrder.
QueueInv == InOrder /\ NoRevival /\ BackfillInOrder

\* The lane indicators tell the truth: the event stream says busy exactly
\* while a request is out (warm included), with the kind of the job in hand,
\* and says researching exactly the turn being researched.  Every early
\* return must close what it opened; the crash fuse and both lane glyphs are
\* driven by these events.
LanesHonest ==
  told = CASE pc \in {"bootWarm", "bindWarm", "drainWarm"} -> [Quietly EXCEPT !.busy = "Warm"]
           [] pc = "ask"      -> [Quietly EXCEPT !.busy = job.kind]
           [] pc = "digest"   -> [Quietly EXCEPT !.busy = "Digest"]
           [] pc = "research" -> [busy |-> job.kind, researching |-> job.n]
           [] OTHER           -> Quietly

\* The ask the worker keeps is the newest it has seen: every ask it
\* displaced is older than the one it holds or is generating.
NewestAskWins ==
  \A n \in Calls : verdict[n] = "displaced" =>
    /\ latest # NoJob => n < latest.n
    /\ pc = "ask" => n < job.n

\* "One at a time either way, so a new ask never waits behind more than a
\* single job": at most one research or digest runs between the moment an ask
\* is sent and the moment the worker takes it, whatever is queued.
OneBackgroundAhead ==
  \A i \in 1 .. Len(jobs) : jobs[i].kind \in Asks => ahead[jobs[i].n] <= 1

\* What the comment on interrupt() claims: the flag is "cleared by the worker
\* when it picks up the next job, so it can never strand a later generation".
\* A call that yields must have been submitted before some call that asked
\* for the worker.
NeverStrands == \A n \in Calls : verdict[n] = "yielded" => n < cut

\* What the engine promises its caller, whatever the worker does inside.
running == IF Generating THEN job.n ELSE 0
Contract == INSTANCE EngineContract WITH
              MaxCalls <- MaxCalls, calls <- calls, verdict <- verdict, running <- running
KeepsContract == Contract!Spec

\* Every call is eventually closed, by an event or by the documented silence,
\* unless the session leaves first: no ask, research, digest or control job
\* is left in a queue by a worker that went to sleep.
EverySettles == \A n \in Calls : (calls >= n) ~> (verdict[n] # "none" \/ closed)

\* Dropping the handle ends the thread.
WorkerExits == closed ~> (pc = "done")
=============================================================================
