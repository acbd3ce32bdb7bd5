-------------------------- MODULE WorkingBarProofs --------------------------
(***************************************************************************)
(* No wakeup is lost, for every pipe capacity and every read size; and the *)
(* bar on top of the pipe keeps that, and tells the truth, for any number  *)
(* of events, any pipe and any change of the setting.                      *)
(***************************************************************************)
EXTENDS WorkingBar, SequenceTheorems, TLAPS

-----------------------------------------------------------------------------
(* The pipe *)

\* What a session about to read knows: the pipe it saw readable still is, for
\* only the session empties it.
Readable == spc = "read" => pipe > 0

\* A session that gave the engine up did so after the worker was gone, and
\* nothing is written to the pipe from then on.
OffIsFinal == (spc = "off" => pipe = 0 /\ wpc = "gone") /\ (orphaned => wpc = "gone")

IInv == TypeOK /\ Readable /\ OffIsFinal /\ NoLostWakeup

LEMMA InitIInv == Init => IInv
<1> SUFFICES ASSUME Init PROVE IInv
  OBVIOUS
<1>1. ~Waiting /\ spc = "poll" /\ ~orphaned
  BY DEF Init, Waiting
<1>2. sent \in 0 .. MaxEvents /\ taken \in 0 .. sent /\ pipe \in 0 .. PipeCap
  BY MaxEventsAssumption, PipeAssumption DEF Init
<1>3. orphaned \in BOOLEAN
  BY DEF Init
<1>4. QED
  BY <1>1, <1>2, <1>3 DEF Init, IInv, TypeOK, Readable, OffIsFinal, NoLostWakeup

LEMMA StepIInv ==
  ASSUME IInv, [Next]_vars
  PROVE  IInv'
<1> USE MaxEventsAssumption, PipeAssumption
    DEF IInv, TypeOK, Readable, OffIsFinal, NoLostWakeup, Waiting
<1>1. CASE Send
  BY <1>1 DEF Send
<1>2. CASE Notify
  BY <1>2 DEF Notify
<1>3. CASE WorkerGone
  <2>1. (orphaned' <=> wpc = "owing") /\ orphaned' \in BOOLEAN /\ ~orphaned
    BY <1>3 DEF WorkerGone
  <2>2. QED
    BY <1>3, <2>1 DEF WorkerGone
<1>4. CASE Poll
  BY <1>4 DEF Poll
<1>5. CASE Read
  BY <1>5 DEF Read
<1>6. CASE TryRecv
  BY <1>6 DEF TryRecv
<1>7. CASE Drained
  BY <1>7 DEF Drained
<1>8. CASE UNCHANGED vars
  BY <1>8 DEF vars
<1>9. QED
  BY <1>1, <1>2, <1>3, <1>4, <1>5, <1>6, <1>7, <1>8 DEF Next, Worker, Session

LEMMA WakeInvariant == Spec => []IInv
  BY InitIInv, StepIInv, PTL DEF Spec

\* A session that sleeps in poll with events waiting is about to be woken
\* (notify after every send; read before the drain).
THEOREM WakeupNeverLost == Spec => []NoLostWakeup
<1>1. IInv => NoLostWakeup
  BY DEF IInv
<1>2. QED
  BY <1>1, WakeInvariant, PTL

\* The engine is dropped on a hangup only after its last announced event.
THEOREM LastWordsHeard == Spec => []HangupLosesNothing
<1>1. IInv => HangupLosesNothing
  BY DEF IInv, OffIsFinal, NoLostWakeup, HangupLosesNothing
<1>2. QED
  BY <1>1, WakeInvariant, PTL

-----------------------------------------------------------------------------
(* The pipe under the bar *)

LEMMA PipeStep ==
  ASSUME [BarNext]_allvars
  PROVE  [Next]_vars
<1> USE DEF Next, Worker, Session
<1>1. CASE Generation
  BY <1>1 DEF Generation, Starts, Ends, Says, Tells, Announces, Dies
<1>2. CASE Turn
  BY <1>2 DEF Turn, Wakes, HangsUp, Empties, Receives, Finishes
<1>3. CASE Ticks \/ Toggles \/ Time
  BY <1>3 DEF Ticks, Toggles, Time, ShrinkPasses, FadePasses
<1>4. CASE UNCHANGED allvars
  BY <1>4 DEF allvars
<1>5. QED
  BY <1>1, <1>2, <1>3, <1>4 DEF BarNext

\* The session with its bar uses the pipe as WakePipe says, so that no wakeup is
\* lost and no last word goes unheard there either.
THEOREM BarKeepsThePipe == BarSpec => Spec /\ []NoLostWakeup /\ []HangupLosesNothing
<1>1. BarInit => Init
  BY DEF BarInit
<1>2. [BarNext]_allvars => [Next]_vars
  BY PipeStep
<1>3. BarSpec => Spec
  BY <1>1, <1>2, PTL DEF BarSpec, Spec
<1>4. QED
  BY <1>3, WakeupNeverLost, LastWordsHeard, PTL

-----------------------------------------------------------------------------
(* What is on its way links what is believed to what is so. *)

Linked(events) ==
  /\ \A i \in DOMAIN events : events[i].was = Rest \/ events[i].now = Rest
                              \/ events[i].was = events[i].now
  /\ \A i \in DOMAIN events : i + 1 \in DOMAIN events => events[i].now = events[i + 1].was

Chain ==
  /\ inbox \in Seq(Change) /\ job \in Work /\ doing \in Work
  /\ Linked(inbox)
  /\ IF inbox = <<>> THEN job = doing
     ELSE inbox[1].was = doing /\ inbox[Len(inbox)].now = job

\* The session's own flag is about the generation it believes in.
FastBusyIsHeard == fast_busy <=> doing \in FastLane

BarInv == Chain /\ FastBusyIsHeard /\ WaveTellsTheTruth

LEMMA TellsLinks ==
  ASSUME Chain, NEW next \in Work, Tells(next), job = Rest \/ next = Rest \/ next = job
  PROVE  Chain'
<1> DEFINE new == [was |-> job, now |-> next]
<1>1. new \in Change /\ inbox' = Append(inbox, new) /\ job' = next /\ doing' = doing
  BY DEF Tells, Chain, Change
<1>2. inbox' \in Seq(Change) /\ job' \in Work /\ doing' \in Work
  BY <1>1 DEF Chain
<1>3. /\ Len(inbox') = Len(inbox) + 1 /\ inbox'[Len(inbox')] = new /\ inbox' # <<>>
      /\ \A i \in 1 .. Len(inbox) : inbox'[i] = inbox[i]
      /\ DOMAIN inbox = 1 .. Len(inbox) /\ DOMAIN inbox' = 1 .. Len(inbox')
      /\ Len(inbox) \in Nat /\ (inbox = <<>> <=> Len(inbox) = 0)
  BY <1>1 DEF Chain
<1>4. Linked(inbox')
  BY <1>1, <1>3 DEF Chain, Linked
<1>5. inbox'[1].was = doing' /\ inbox'[Len(inbox')].now = job'
  BY <1>1, <1>3 DEF Chain
<1>6. QED
  BY <1>2, <1>3, <1>4, <1>5 DEF Chain

LEMMA ReceivesLinks ==
  ASSUME Chain, inbox # <<>>, inbox' = Tail(inbox), doing' = Head(inbox).now, job' = job
  PROVE  /\ Chain' /\ Head(inbox).was = doing /\ Head(inbox) \in Change
         /\ doing = Rest \/ doing' = Rest \/ doing = doing'
<1>a. inbox \in Seq(Change) /\ inbox # <<>>
  BY DEF Chain
<1>b. Len(inbox) \in Nat /\ Len(inbox) # 0 /\ DOMAIN inbox = 1 .. Len(inbox)
  BY <1>a
<1>c. Head(inbox) = inbox[1] /\ inbox[1] \in Change
  BY <1>a, <1>b
<1>1. /\ Head(inbox) = inbox[1] /\ inbox[1] \in Change /\ 1 \in DOMAIN inbox
      /\ Len(inbox) \in Nat \ {0} /\ DOMAIN inbox = 1 .. Len(inbox)
  BY <1>b, <1>c
<1>2. /\ inbox' \in Seq(Change) /\ Len(inbox') = Len(inbox) - 1
      /\ DOMAIN inbox' = 1 .. Len(inbox')
      /\ \A i \in 1 .. Len(inbox) - 1 : inbox'[i] = inbox[i + 1]
      /\ (inbox' = <<>> <=> Len(inbox') = 0)
  <2>1. inbox' \in Seq(Change) /\ Len(inbox') = Len(inbox) - 1
    BY <1>a, <1>b
  <2>2. DOMAIN inbox' = 1 .. Len(inbox') /\ (inbox' = <<>> <=> Len(inbox') = 0)
    BY <2>1, LenProperties, EmptySeq
  <2>3. \A i \in 1 .. Len(inbox) - 1 : inbox'[i] = inbox[i + 1]
    BY <1>a, <1>b
  <2>4. QED
    BY <2>1, <2>2, <2>3
<1>3. Linked(inbox')
  BY <1>1, <1>2 DEF Chain, Linked
<1>4. IF inbox' = <<>> THEN job' = doing'
      ELSE inbox'[1].was = doing' /\ inbox'[Len(inbox')].now = job'
  <2>1. CASE inbox' = <<>>
    <3>1. Len(inbox) = 1
      BY <2>1, <1>1, <1>2
    <3>2. QED
      BY <3>1, <2>1, <1>1 DEF Chain
  <2>2. CASE inbox' # <<>>
    <3>1. 1 \in 1 .. Len(inbox) - 1 /\ Len(inbox') \in 1 .. Len(inbox) - 1
      BY <2>2, <1>1, <1>2
    <3>2. inbox'[1] = inbox[2] /\ inbox'[Len(inbox')] = inbox[Len(inbox)] /\ 2 \in DOMAIN inbox
      BY <3>1, <1>1, <1>2
    <3>3. QED
      BY <3>2, <2>2, <1>1 DEF Chain, Linked
  <2>3. QED
    BY <2>1, <2>2
<1>5. job' \in Work /\ doing' \in Work
  BY <1>1 DEF Chain, Change
<1>6. QED
  BY <1>1, <1>2, <1>3, <1>4, <1>5 DEF Chain, Linked

-----------------------------------------------------------------------------
(* What an event does to the bar *)

LEMMA RestIsNotWanted == Rest \notin FastLane /\ ~Wanted(Rest) /\ "Research" \notin FastLane
  BY DEF Rest, FastLane, Wanted

LEMMA BusyShows ==
  ASSUME FastBusyIsHeard, WaveTellsTheTruth, doing = Rest, NEW kind \in Works,
         Busy(kind), doing' = kind, hushed' = FALSE, on_watch' = on_watch
  PROVE  FastBusyIsHeard' /\ WaveTellsTheTruth'
<1>1. ~fast_busy /\ ~Running /\ kind # Rest
  BY WorksAssumption DEF FastBusyIsHeard, WaveTellsTheTruth, Wanted, FastLane, Rest
<1>2. FastBusyIsHeard'
  BY <1>1 DEF Busy, FastBusyIsHeard
<1>a. Wanted(kind)' <=> Wanted(kind)
  BY DEF Wanted
<1>3. CASE kind \in FastLane /\ Wanted(kind)
  <2>1. work_from' = "fast" /\ work_ended' = "none"
    BY <1>1, <1>3, RestIsNotWanted DEF Busy
  <2>2. QED
    BY <1>2, <1>3, <1>a, <2>1 DEF WaveTellsTheTruth, Running
<1>4. CASE kind = "Research"
  <2>1. work_from' = "slow" /\ work_ended' = "none" /\ kind \notin FastLane /\ Wanted(kind)
    BY <1>1, <1>4, RestIsNotWanted DEF Busy, Wanted
  <2>2. QED
    BY <1>2, <1>a, <2>1 DEF WaveTellsTheTruth, Running
<1>5. CASE ~(kind \in FastLane /\ Wanted(kind)) /\ kind # "Research"
  <2>1. UNCHANGED <<work_from, work_ended>> /\ ~Wanted(kind)
    BY <1>5 DEF Busy, Wanted, FastLane
  <2>2. ~Running'
    BY <1>1, <2>1 DEF Running
  <2>3. QED
    BY <1>2, <1>a, <2>1, <2>2 DEF WaveTellsTheTruth
<1>6. QED
  BY <1>2, <1>3, <1>4, <1>5

LEMMA IdleEnds ==
  ASSUME FastBusyIsHeard, WaveTellsTheTruth, doing # Rest, Idle(doing), doing' = Rest,
         on_watch' = on_watch
  PROVE  FastBusyIsHeard' /\ WaveTellsTheTruth'
<1>1. FastBusyIsHeard'
  <2>1. fast_busy' = FALSE
    BY DEF Idle, FastBusyIsHeard
  <2>2. QED
    BY <2>1, RestIsNotWanted DEF FastBusyIsHeard
<1>2. ~Running'
  <2>1. CASE Running
    <3>1. (doing \in FastLane /\ fast_busy) \/ doing \in SlowLane
      BY <2>1 DEF WaveTellsTheTruth, Wanted, FastBusyIsHeard, FastLane, SlowLane
    <3>2. work_ended' = "recent"
      BY <2>1, <3>1 DEF Idle, Running
    <3>3. QED
      BY <3>2 DEF Running
  <2>2. CASE ~Running
    BY <2>2 DEF Running, Idle
  <2>3. QED
    BY <2>1, <2>2
<1>3. QED
  BY <1>1, <1>2, RestIsNotWanted DEF WaveTellsTheTruth, Wanted

LEMMA FrameKeepsTruth ==
  ASSUME BarInv, Animates
  PROVE  BarInv'
<1>1. Chain' /\ FastBusyIsHeard'
  BY DEF BarInv, Animates, Chain, FastBusyIsHeard
<1>2. CASE Running /\ Shrunk
  <2>1. work_from' = "none" /\ hushed'
    BY <1>2 DEF Animates, Running
  <2>2. QED
    BY <2>1, <1>1 DEF BarInv, WaveTellsTheTruth, Running
<1>3. CASE ~(Running /\ Shrunk)
  <2>1. (Running' <=> Running) /\ (Running => work_from' = work_from)
    BY <1>3 DEF Animates, Running, Shrunk
  <2>2. (hushed' <=> hushed) /\ doing' = doing /\ on_watch' = on_watch
    BY <1>3 DEF Animates
  <2>3. QED
    BY <1>1, <2>1, <2>2 DEF BarInv, WaveTellsTheTruth, Wanted
<1>4. QED
  BY <1>2, <1>3

LEMMA ReceivesKeepsTruth ==
  ASSUME BarInv, Receives, inbox # <<>>
  PROVE  BarInv'
<1> DEFINE change == Head(inbox)
<1>1. /\ Chain' /\ change.was = doing /\ change \in Change /\ doing' = change.now
      /\ doing = Rest \/ doing' = Rest \/ doing = doing'
  BY ReceivesLinks DEF BarInv, Receives
<1>2. on_watch' = on_watch /\ Handles(change)
  BY DEF Receives
<1>3. CASE change.was = change.now
  <2>1. UNCHANGED bar /\ (hushed' <=> hushed) /\ doing' = doing
    BY <1>1, <1>2, <1>3 DEF Handles, Receives
  <2>2. QED
    BY <1>1, <1>2, <2>1 DEF bar, BarInv, FastBusyIsHeard, WaveTellsTheTruth, Running, Wanted
<1>4. CASE change.was = Rest /\ change.now # Rest
  <2>1. doing' \in Works /\ Busy(doing') /\ hushed' = FALSE
    BY <1>1, <1>2, <1>4 DEF Handles, Receives, Change, Work
  <2>2. QED
    BY <1>1, <1>2, <1>4, <2>1, BusyShows DEF BarInv
<1>5. CASE change.was # Rest /\ change.now = Rest
  <2>1. Idle(doing)
    BY <1>1, <1>2, <1>5 DEF Handles
  <2>2. QED
    BY <1>1, <1>2, <1>5, <2>1, IdleEnds DEF BarInv
<1>6. QED
  BY <1>1, <1>3, <1>4, <1>5

-----------------------------------------------------------------------------
LEMMA InitBarInv == BarInit => BarInv
<1> SUFFICES ASSUME BarInit PROVE BarInv
  OBVIOUS
<1>1. Chain
  BY DEF BarInit, Chain, Linked, Work
<1>2. FastBusyIsHeard
  BY RestIsNotWanted DEF BarInit, FastBusyIsHeard
<1>3. WaveTellsTheTruth
  BY RestIsNotWanted DEF BarInit, WaveTellsTheTruth, Running
<1>4. QED
  BY <1>1, <1>2, <1>3 DEF BarInv

\* What is neither the worker's job nor the bar's state leaves the invariant.
LEMMA BarInvFrame ==
  ASSUME BarInv, UNCHANGED <<job, inbox, fast_busy, work_from, on_watch, doing, hushed>>,
         work_ended' = "none" <=> work_ended = "none"
  PROVE  BarInv'
<1>1. Chain' /\ FastBusyIsHeard'
  BY DEF BarInv, Chain, FastBusyIsHeard
<1>2. WaveTellsTheTruth'
  BY DEF BarInv, WaveTellsTheTruth, Running, Wanted
<1>3. QED
  BY <1>1, <1>2 DEF BarInv

LEMMA TellsKeepsTruth ==
  ASSUME BarInv, NEW next \in Work, Tells(next), job = Rest \/ next = Rest \/ next = job
  PROVE  BarInv'
<1>1. Chain'
  BY TellsLinks DEF BarInv
<1>2. FastBusyIsHeard' /\ WaveTellsTheTruth'
  BY DEF Tells, bar, BarInv, FastBusyIsHeard, WaveTellsTheTruth, Running, Wanted
<1>3. QED
  BY <1>1, <1>2 DEF BarInv

\* The channel holds what was sent and not taken.
Counted == sent \in Nat /\ taken \in Nat /\ Len(inbox) = sent - taken

LEMMA GenerationKeeps ==
  ASSUME BarInv, Counted, Generation
  PROVE  BarInv' /\ Counted'
<1>1. ASSUME NEW next \in Work, Tells(next), job = Rest \/ next = Rest \/ next = job
      PROVE  BarInv' /\ Counted'
  <2>1. BarInv'
    BY <1>1, TellsKeepsTruth
  <2>2. inbox \in Seq(Change) /\ [was |-> job, now |-> next] \in Change
    BY <1>1 DEF BarInv, Chain, Change
  <2>3. Len(inbox') = Len(inbox) + 1
    BY <1>1, <2>2 DEF Tells
  <2>4. QED
    BY <1>1, <2>1, <2>3 DEF Tells, Send, Counted
<1>2. CASE \E kind \in Works : Starts(kind)
  <2>1. PICK kind \in Works : Starts(kind)
    BY <1>2
  <2>2. QED
    BY <2>1, <1>1 DEF Starts, Work
<1>3. CASE Ends \/ Says
  BY <1>3, <1>1 DEF Ends, Says, BarInv, Chain, Work
<1>4. CASE Announces \/ Dies
  <2>1. BarInv'
    BY <1>4, BarInvFrame DEF Announces, Dies, barvars, bar
  <2>2. Counted'
    BY <1>4 DEF Announces, Dies, Notify, WorkerGone, barvars, Counted
  <2>3. QED
    BY <2>1, <2>2
<1>5. QED
  BY <1>2, <1>3, <1>4 DEF Generation

LEMMA TurnKeeps ==
  ASSUME BarInv, Counted, Turn
  PROVE  BarInv' /\ Counted'
<1>1. CASE Wakes \/ Empties
  <2>1. BarInv'
    BY <1>1, BarInvFrame DEF Wakes, Empties, barvars, bar
  <2>2. Counted'
    BY <1>1 DEF Wakes, Empties, Poll, Read, barvars, Counted
  <2>3. QED
    BY <2>1, <2>2
<1>2. CASE HangsUp \/ Finishes
  <2>1. BarInv'
    BY <1>2, FrameKeepsTruth DEF HangsUp, Finishes
  <2>2. Counted'
    BY <1>2 DEF HangsUp, Finishes, Poll, Drained, Animates, Counted
  <2>3. QED
    BY <2>1, <2>2
<1>3. CASE Receives
  <2>1. inbox \in Seq(Change) /\ inbox # <<>>
    BY <1>3 DEF Receives, TryRecv, Counted, BarInv, Chain
  <2>2. BarInv'
    BY <1>3, <2>1, ReceivesKeepsTruth
  <2>3. Len(inbox') = Len(inbox) - 1
    BY <1>3, <2>1 DEF Receives
  <2>4. Counted'
    BY <1>3, <2>3 DEF Receives, TryRecv, Counted
  <2>5. QED
    BY <2>2, <2>4
<1>4. QED
  BY <1>1, <1>2, <1>3 DEF Turn

LEMMA StepBarInv ==
  ASSUME BarInv, Counted, [BarNext]_allvars
  PROVE  BarInv' /\ Counted'
<1>1. CASE Generation
  BY <1>1, GenerationKeeps
<1>2. CASE Turn
  BY <1>2, TurnKeeps
<1>3. CASE Ticks
  <2>1. BarInv'
    BY <1>3, FrameKeepsTruth DEF Ticks
  <2>2. Counted'
    BY <1>3 DEF Ticks, Animates, vars, Counted
  <2>3. QED
    BY <2>1, <2>2
<1>4. CASE Toggles
  <2>1. BarInv'
    BY <1>4, BarInvFrame DEF Toggles, bar
  <2>2. Counted'
    BY <1>4 DEF Toggles, vars, Counted
  <2>3. QED
    BY <2>1, <2>2
<1>5. CASE Time
  <2>1. BarInv'
    BY <1>5, BarInvFrame DEF Time, ShrinkPasses, FadePasses
  <2>2. Counted'
    BY <1>5 DEF Time, ShrinkPasses, FadePasses, vars, Counted
  <2>3. QED
    BY <2>1, <2>2
<1>6. CASE UNCHANGED allvars
  <2>1. BarInv'
    BY <1>6, BarInvFrame DEF allvars, barvars, bar
  <2>2. Counted'
    BY <1>6 DEF allvars, barvars, vars, Counted
  <2>3. QED
    BY <2>1, <2>2
<1>7. QED
  BY <1>1, <1>2, <1>3, <1>4, <1>5, <1>6 DEF BarNext

\* The bar runs exactly while a generation worth showing is under way, as far as
\* the events handled can tell (Event::Busy, Event::Idle and the frame).
THEOREM BarIsHonest == BarSpec => []WaveTellsTheTruth
<1>1. BarInit => BarInv /\ Counted
  <2>1. BarInit => Counted
    BY DEF BarInit, Init, Counted
  <2>2. QED
    BY <2>1, InitBarInv
<1>2. BarInv /\ Counted /\ [BarNext]_allvars => (BarInv /\ Counted)'
  BY StepBarInv
<1>3. BarInv => WaveTellsTheTruth
  BY DEF BarInv
<1>4. QED
  BY <1>1, <1>2, <1>3, PTL DEF BarSpec
=============================================================================
