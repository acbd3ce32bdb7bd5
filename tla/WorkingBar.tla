----------------------------- MODULE WorkingBar -----------------------------
(***************************************************************************)
(* The working bar, the one thing the session draws because time passed.   *)
(* It lives on the two ends of each generation (Busy and Idle), which      *)
(* arrive through the pipe of WakePipe, in bursts, late, and not at all    *)
(* when the worker dies.  Every step of that module is a step here, with   *)
(* what it carries and what the session makes of it.                       *)
(*                                                                         *)
(* An event is the change it tells of: what the worker was doing before it *)
(* and after it.                                                           *)
(***************************************************************************)
EXTENDS WakePipe, Sequences

CONSTANTS
  Works,       \* the kinds of generation tried, of enum Work
  MaxToggles   \* bound on the user's changes of the setting

Rest == "none"   \* no generation

ASSUME WorksAssumption ==
  Works \subseteq {"Ask", "Watch", "Research", "Ruminate", "Digest", "Warm"}
ASSUME TogglesAssumption == MaxToggles \in Nat

FastLane == {"Ask", "Watch"}          \* what fast_busy counts
SlowLane == {"Research", "Ruminate"}

Lanes == {"fast", "slow"}
NoBar == [lane |-> "none", running |-> FALSE]

VARIABLES
  job,           \* what the worker generates
  inbox,         \* the channel's events, oldest first
  fast_busy,     \* a generation of the fast lane under way, as far as heard
  work_from,     \* whose bar it is, or "none"
  work_ended,    \* "none", then "recent", then "past": the shrink's time is up
  work_handover, \* "none", then "leaving", then "arrived": the fade's first half is over
  work_bar,      \* the bar as last composed
  working_bar,   \* the setting
  on_watch,      \* the setting working_bar_on_watch, fixed for the session
  toggles,       \* changes of the setting so far
  doing,         \* history: what the events handled say the worker does
  hushed         \* history: the setting put this generation's bar out

bar     == <<fast_busy, work_from, work_ended, work_handover, work_bar>>
barvars == <<job, inbox, bar, working_bar, on_watch, toggles, doing, hushed>>
allvars == <<vars, barvars>>

Work   == Works \cup {Rest}
Change == [was : Work, now : Work]

BarTypeOK ==
  /\ job \in Work /\ doing \in Work /\ inbox \in Seq(Change)
  /\ fast_busy \in BOOLEAN /\ working_bar \in BOOLEAN /\ on_watch \in BOOLEAN
  /\ work_from \in Lanes \cup {"none"}
  /\ work_ended \in {"none", "recent", "past"}
  /\ work_handover \in {"none", "leaving", "arrived"}
  /\ hushed \in BOOLEAN

BarInit ==
  /\ Init
  /\ job = Rest /\ inbox = <<>> /\ doing = Rest /\ hushed = FALSE
  /\ fast_busy = FALSE
  /\ work_from = "none" /\ work_ended = "none" /\ work_handover = "none"
  /\ work_bar = NoBar
  /\ working_bar \in BOOLEAN /\ on_watch \in BOOLEAN
  /\ toggles = 0

-----------------------------------------------------------------------------
(* The worker: both ends of a generation, and whatever else it says.       *)

Tells(next) ==
  /\ Send
  /\ inbox' = Append(inbox, [was |-> job, now |-> next])
  /\ job' = next
  /\ UNCHANGED <<bar, working_bar, on_watch, toggles, doing, hushed>>

\* The last event of the bound is kept for the end of what is under way.
Starts(kind) == job = Rest /\ wpc = "quiet" /\ sent + 1 < MaxEvents /\ Tells(kind)
Ends         == job # Rest /\ wpc = "quiet" /\ Tells(Rest)
Says         == (job # Rest => sent + 1 < MaxEvents) /\ Tells(job)

Announces == Notify /\ UNCHANGED barvars
Dies      == WorkerGone /\ UNCHANGED barvars

-----------------------------------------------------------------------------
(* The session *)

\* Whether a generation of this kind is to be seen, by who asked for it.
Wanted(kind) == kind \in {"Ask", "Research"} \cup (IF on_watch THEN {"Watch"} ELSE {})

\* Mutant: a shrink under way is not called off.
BusyFading(kind) ==
  /\ fast_busy' = (fast_busy \/ kind \in FastLane)
  /\ CASE kind \in FastLane /\ Wanted(kind) /\ ~fast_busy ->
            /\ work_from' = "fast" /\ work_handover' = "none" /\ UNCHANGED work_ended
       [] kind = "Research" ->
            /\ work_from' = "slow"
            /\ work_handover' = IF work_from = "none" THEN "none" ELSE "leaving"
            /\ UNCHANGED work_ended
       [] OTHER -> UNCHANGED <<work_from, work_ended, work_handover>>

\* Event::Busy: the fast lane's bar starts anew, research takes over the bar
\* that is there.
Busy(kind) ==
  /\ fast_busy' = (fast_busy \/ kind \in FastLane)
  /\ CASE kind \in FastLane /\ Wanted(kind) /\ ~fast_busy ->
            work_from' = "fast" /\ work_ended' = "none" /\ work_handover' = "none"
       [] kind = "Research" ->
            /\ work_from' = "slow" /\ work_ended' = "none"
            /\ work_handover' = IF work_from = "none" THEN "none" ELSE "leaving"
       [] OTHER -> UNCHANGED <<work_from, work_ended, work_handover>>

\* Mutant: a comment nobody asked for does not end the bar.
IdleOfTheAsked(kind) ==
  /\ fast_busy' = (fast_busy /\ kind \notin FastLane)
  /\ work_ended' = IF work_ended = "none" /\ kind \in {"Ask"} \cup SlowLane
                   THEN "recent" ELSE work_ended
  /\ UNCHANGED <<work_from, work_handover>>

\* Event::Idle: the shrink starts, once.
Idle(kind) ==
  /\ fast_busy' = (fast_busy /\ kind \notin FastLane)
  /\ work_ended' = IF work_ended = "none"
                      /\ kind \in SlowLane \cup (IF fast_busy THEN FastLane ELSE {})
                   THEN "recent" ELSE work_ended
  /\ UNCHANGED <<work_from, work_handover>>

Handles(change) ==
  CASE change.was = change.now -> UNCHANGED bar
    [] change.was = Rest /\ change.now # Rest -> Busy(change.now) /\ UNCHANGED work_bar
    [] OTHER -> Idle(change.was) /\ UNCHANGED work_bar

\* The colour: in the first half of a handover, that of the other lane.
Worn == IF work_handover = "leaving" THEN CHOOSE lane \in Lanes : lane # work_from
        ELSE work_from

\* The wave sweeps; otherwise the bar shrinks, or is not there.
Running == work_from # "none" /\ work_ended = "none"

\* The shrink is over, or the setting is off.
Shrunk == ~working_bar \/ work_ended = "past"

\* The end of every turn of the loop: the next frame.
Animates ==
  /\ IF work_from # "none" /\ Shrunk
     THEN work_from' = "none" /\ work_ended' = "none" /\ work_handover' = "none"
     ELSE UNCHANGED <<work_from, work_ended, work_handover>>
  /\ work_bar' = IF work_from = "none" \/ Shrunk THEN NoBar
                 ELSE [lane |-> Worn, running |-> work_ended = "none"]
  /\ hushed' = (hushed \/ (Running /\ Shrunk))
  /\ UNCHANGED <<job, inbox, fast_busy, working_bar, on_watch, toggles, doing>>

\* A poll that finds something to read; one that finds a hangup finishes its turn.
Wakes    == Poll /\ spc' = "read" /\ UNCHANGED barvars
HangsUp  == Poll /\ spc' = "off" /\ Animates
Empties  == Read /\ UNCHANGED barvars
Receives ==
  /\ TryRecv
  /\ inbox' = Tail(inbox)
  /\ Handles(Head(inbox))
  /\ doing' = Head(inbox).now
  /\ hushed' = (hushed /\ Head(inbox).was = Head(inbox).now)
  /\ UNCHANGED <<job, working_bar, on_watch, toggles>>
Finishes == Drained /\ Animates

\* A turn that nothing of the worker's woke: the poll's timeout, a key, output.
Ticks == spc \in {"poll", "off"} /\ Animates /\ UNCHANGED vars

\* The user turns the setting over, in the menu.
Toggles ==
  /\ spc \in {"poll", "off"} /\ toggles < MaxToggles
  /\ working_bar' = ~working_bar
  /\ toggles' = toggles + 1
  /\ UNCHANGED <<vars, job, inbox, bar, on_watch, doing, hushed>>

-----------------------------------------------------------------------------
(* Time *)

ShrinkPasses ==
  /\ work_ended = "recent"
  /\ work_ended' = "past"
  /\ UNCHANGED <<vars, job, inbox, fast_busy, work_from, work_handover, work_bar,
                 working_bar, on_watch, toggles, doing, hushed>>

FadePasses ==
  /\ work_handover = "leaving"
  /\ work_handover' = "arrived"
  /\ UNCHANGED <<vars, job, inbox, fast_busy, work_from, work_ended, work_bar,
                 working_bar, on_watch, toggles, doing, hushed>>

-----------------------------------------------------------------------------
Generation == (\E kind \in Works : Starts(kind)) \/ Ends \/ Says \/ Announces \/ Dies
Turn       == Wakes \/ HangsUp \/ Empties \/ Receives \/ Finishes
Time       == ShrinkPasses \/ FadePasses
BarNext    == Generation \/ Turn \/ Ticks \/ Toggles \/ Time

BarSpec == BarInit /\ [][BarNext]_allvars

\* The loop turns, at the latest when its poll times out; time passes; and a
\* generation has a deadline, if its worker lives.
BarFairSpec ==
  /\ BarSpec
  /\ WF_allvars(Turn) /\ WF_allvars(Ticks) /\ WF_allvars(Time)
  /\ WF_allvars(Announces \/ Dies) /\ WF_allvars(Ends)

-----------------------------------------------------------------------------
(* Properties *)

\* The bar runs exactly while the events handled say that the worker does
\* something worth showing, in its lane's name, whatever was shrinking, fading
\* or unasked for in between; but for a bar the user has turned off.
WaveTellsTheTruth ==
  /\ Running <=> Wanted(doing) /\ ~hushed
  /\ Running => work_from = IF doing \in FastLane THEN "fast" ELSE "slow"

\* The worker is gone and its last generation has no end the session can hear.
Stranded == spc = "off" /\ doing # Rest

\* "The animation [...] must not outlive itself" (src/src/session.rs:2955-2957):
\* every bar goes out, unless the worker died at work.
BarGoesOut == (work_bar # NoBar) ~> (work_bar = NoBar \/ Stranded)

\* "Mid-handover the bar still wears the lane it is LEAVING"
\* (src/src/status.rs:244): research that takes over a bar of research's own
\* wears the fast lane's colour first.  It fails, and no run checks it.
WearsTheLaneItLeaves ==
  [][work_handover # "leaving" /\ work_handover' = "leaving" => work_from = "fast"]_allvars
=============================================================================
