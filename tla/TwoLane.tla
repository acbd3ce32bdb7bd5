------------------------------ MODULE TwoLane ------------------------------
(***************************************************************************)
(* The session's side of the two lanes (src/src/session.rs): the band, the *)
(* slot stack, the slow lane's shot waiting for the fast lane's answer,    *)
(* the research it has asked for, and the findings held while the user     *)
(* browses; against the worker (src/src/engine.rs) that the marks of the   *)
(* shell, the keys of a chat and the events race.                          *)
(*                                                                         *)
(* What the user does is numbered: a question, a command run, its          *)
(* commentary.  Words are known by the number of what they answer.         *)
(* Events carry no number, only what they say: the ones here do so that    *)
(* the words can be told apart, and the session looks at nothing else.     *)
(*                                                                         *)
(* The shell's marks come when the shell gets to the line typed, which may *)
(* be while a chat is open: the user typed it before.                      *)
(*                                                                         *)
(* The worker is at the grain of a pass: EngineWorker has the steps.  The  *)
(* backfill is off, as by default.  Menus, changes of the options, pins,   *)
(* memories, the log and the notice line are left out.                     *)
(***************************************************************************)
EXTENDS Naturals, Sequences, SequencesExt, FiniteSets

CONSTANTS
  Cmds, NoCmd,   \* what a model may suggest; or nothing
  Commentary,    \* BOOLEAN: commentary is on
  SugHistCap,    \* SUG_HIST_CAP
  MaxActs,       \* bound on what the user does
  Plans          \* the options a user may start with, and a bound: what each act may be

ASSUME NoCmdAssumption == NoCmd \notin Cmds
ASSUME FlagsAssumption == Commentary \in BOOLEAN
ASSUME BoundsAssumption == SugHistCap \in Nat \ {0} /\ MaxActs \in Nat

Acts    == 1 .. MaxActs
Doings  == {"#", "#?", "#?/", "##", "#@", "#/", "chat", "chat?", "chat@", "chat/", "command"}
Rungs   == {"manual", "query", "waldorf"}
ASSUME PlansAssumption ==
  Plans \subseteq [opt_slow : Rungs, slow_via_fast : BOOLEAN, acts : [Acts -> SUBSET Doings]]

Turns   == Nat \ {0}
MaybeCmd == Cmds \cup {NoCmd}
Shots   == [of : 0 .. MaxActs, unprompted : BOOLEAN,
            asked : 0 .. MaxActs, ahead : BOOLEAN]   \* history: armed when, in a chat or not
NoShot  == [of |-> 0, unprompted |-> FALSE, asked |-> 0, ahead |-> FALSE]
NoBand  == [asked |-> FALSE, text |-> "none"]
Job     == [kind : {"ask", "watch", "research", "cancel", "control"}, of : 0 .. MaxActs, turn : Nat,
            asked : 0 .. MaxActs]   \* history: the newest question when research was sent
NoJob(kind) == [kind |-> kind, of |-> 0, turn |-> 0, asked |-> 0]
Idle    == NoJob("none")
Raise   == NoJob("raise")           \* no job: the flag is raised
Event   == [kind : {"Command", "Partial", "Answer", "Comment", "Pass", "Error", "Researching",
                    "Finding"},
            of : 0 .. MaxActs, turn : Nat, cmd : MaybeCmd]
Finding == [of : Acts, turn : Turns, cmd : MaybeCmd]
NoAlt   == [of |-> 0, cmd |-> NoCmd]
Slot    == [id : Turns, cmd : Cmds, text : 0 .. MaxActs, alt : [of : 0 .. MaxActs, cmd : MaybeCmd],
            by : SUBSET Acts]   \* history: whose command it is

VARIABLES
  opt_slow, slow_via_fast,
  plan,            \* bound: what each act may be
  acts,            \* how much the user has done
  running,         \* the command that runs in the shell, or 0
  empty_cmd,       \* ... or a bare Enter
  browse,          \* the user is walking the stack at the prompt
  chat,            \* "none", "open", or "pick": a selection in it
  band,
  vend_id,         \* the slot the current answer vended, or 0
  slow_after_fast, \* the shot
  slow_asks,       \* the turns research was asked for, with their questions
  sug_hist,        \* the stack, newest first
  next_sid,
  researching,     \* the turn the chrome shows, or 0
  held_findings,
  jobs, events,    \* the two channels
  preempt,
  sending,         \* what the session's thread is in the middle of calling the engine with
  at, work, pending, early,  \* worker: where it is, job in hand, pending research, CMD line sent
  asked,           \* history: the newest question
  moved,           \* history: the last act at the shell that moved the user on
  vending,         \* history: the act vend_id was last reset for
  crossed,         \* history: another act's command or answer has been handled
  slipped          \* history: the pass under way drained between a call's flag and its cancel

shell    == <<running, empty_cmd>>
stack    == <<sug_hist, next_sid>>
slowLane == <<slow_after_fast, slow_asks, held_findings>>
options  == <<opt_slow, slow_via_fast, plan>>
focus    == <<browse, chat>>
session  == <<options, shell, focus, band, vend_id, slowLane, stack, researching>>
calling  == <<preempt, sending>>
worker   == <<at, work, pending, early>>
heard    == <<vending, crossed>>
history  == <<asked, moved, heard>>
vars     == <<acts, session, jobs, events, calling, worker, history, slipped>>

TypeOK ==
  /\ opt_slow \in Rungs /\ slow_via_fast \in BOOLEAN /\ plan \in {p.acts : p \in Plans}
  /\ acts \in 0 .. MaxActs
  /\ running \in 0 .. MaxActs /\ empty_cmd \in BOOLEAN
  /\ browse \in BOOLEAN /\ chat \in {"none", "open", "pick"}
  /\ band \in [asked : BOOLEAN, text : {"none", "waiting", "answer", "finding", "comment", "error"}]
  /\ vend_id \in Nat /\ slow_after_fast \in Shots
  /\ slow_asks \subseteq Turns
  /\ sug_hist \in Seq(Slot) /\ Len(sug_hist) <= SugHistCap
  /\ next_sid \in Turns /\ researching \in Nat
  /\ held_findings \in Seq(Finding)
  /\ jobs \in Seq(Job) /\ events \in Seq(Event) /\ preempt \in BOOLEAN
  /\ sending \in Seq(Job \cup {Raise})
  /\ at \in {"top", "ask", "pick", "research"}
  /\ work \in Job \cup {Idle} /\ pending \in Job \cup {Idle} /\ early \in MaybeCmd
  /\ {asked, moved, vending} \subseteq 0 .. MaxActs /\ {crossed, slipped} \subseteq BOOLEAN

Init ==
  /\ \E p \in Plans : /\ opt_slow = p.opt_slow /\ slow_via_fast = p.slow_via_fast
                     /\ plan = p.acts
  /\ acts = 0
  /\ running = 0 /\ empty_cmd = FALSE /\ browse = FALSE /\ chat = "none"
  /\ band = NoBand /\ vend_id = 0 /\ slow_after_fast = NoShot /\ slow_asks = {}
  /\ sug_hist = <<>> /\ next_sid = 1 /\ researching = 0 /\ held_findings = <<>>
  /\ jobs = <<>> /\ events = <<>> /\ preempt = FALSE /\ sending = <<>>
  /\ at = "top" /\ work = Idle /\ pending = Idle /\ early = NoCmd
  /\ asked = 0 /\ moved = 0 /\ vending = 0 /\ crossed = FALSE /\ slipped = FALSE

-----------------------------------------------------------------------------
(* The stack *)

\* hist_push: a command vended twice in a row keeps its slot, under the new id.
Push(hist, slot) ==
  IF hist # <<>> /\ hist[1].cmd = slot.cmd
  THEN [hist EXCEPT ![1].id = slot.id, ![1].by = @ \cup slot.by,
                    ![1].text = IF slot.text # 0 THEN slot.text ELSE @]
  ELSE SubSeq(<<slot>> \o hist, 1, IF Len(hist) < SugHistCap THEN Len(hist) + 1 ELSE SugHistCap)

Vended(id, cmd, of, text) == [id |-> id, cmd |-> cmd, text |-> text, alt |-> NoAlt, by |-> {of}]

Amended(slot, f) ==
  IF f.cmd = slot.cmd THEN slot ELSE [slot EXCEPT !.alt = [of |-> f.of, cmd |-> f.cmd]]

\* apply_finding: the alternative of the slot of its turn; or, if there is none
\* and the question is known, a slot of its own.
Landed(hist, f, known) ==
  LET slots == {i \in DOMAIN hist : hist[i].id = f.turn}
  IN  CASE slots # {} -> [i \in DOMAIN hist |->
                            IF i \in slots THEN Amended(hist[i], f) ELSE hist[i]]
        [] slots = {} /\ known /\ f.cmd # NoCmd -> Push(hist, Vended(f.turn, f.cmd, f.of, f.of))
        [] OTHER -> hist

-----------------------------------------------------------------------------
(* The shell's marks and the chat's keys *)

Asking(of)   == [NoJob("ask") EXCEPT !.of = of]
Watching(of) == [NoJob("watch") EXCEPT !.of = of]
Cancel       == NoJob("cancel")
Control      == NoJob("control")
Researching(of, turn, question) ==
  [kind |-> "research", of |-> of, turn |-> turn, asked |-> question]

Submit(js) == jobs' = jobs \o js
Act(doing) == acts < MaxActs /\ doing \in plan[acts + 1] /\ acts' = acts + 1
Question   == asked' = acts' /\ moved' = acts'
AtPrompt   == running = 0
InChat     == chat # "none"

\* A call that interrupts raises the flag before it sends, job by job.
Interrupt(js) == preempt' = TRUE /\ sending' = js /\ UNCHANGED jobs

\* Mutant: what is generating gives up, what is queued does not.
SupersedeFlag(js) == Interrupt(js)

Supersede(js) == Interrupt(<<Cancel>> \o js)

\* The rest of such a call.
Send ==
  /\ sending # <<>> /\ sending' = Tail(sending)
  /\ IF Head(sending) = Raise THEN preempt' = TRUE /\ UNCHANGED jobs
                             ELSE Submit(<<Head(sending)>>) /\ UNCHANGED preempt
  /\ UNCHANGED <<acts, session, events, worker, history, slipped>>

Armed(of, unprompted, question) ==
  [of |-> of, unprompted |-> unprompted, asked |-> question, ahead |-> InChat]

\* Mutant: the shot outlives the mark.
MarkStillArmed == AtPrompt /\ browse' = FALSE /\ UNCHANGED slow_after_fast

\* Mark::Ask, whatever is asked, ends the browsing and disarms the shot.
Mark == AtPrompt /\ browse' = FALSE /\ slow_after_fast' = NoShot

\* Mutant: the last answer's slot is still the one to amend.
VendingStale(of) == vending' = of /\ UNCHANGED vend_id

\* The next answer is of this act, and has no slot yet.
Vending(of) == vending' = of /\ vend_id' = 0

\* `# question`
Hash ==
  /\ AtPrompt /\ Act("#") /\ Question
  /\ Supersede(<<Asking(acts')>>)
  /\ Vending(acts') /\ UNCHANGED crossed
  /\ slow_after_fast' = IF opt_slow = "manual" THEN NoShot ELSE Armed(acts', FALSE, acts')
  /\ browse' = FALSE /\ band' = [asked |-> TRUE, text |-> "waiting"]
  /\ UNCHANGED <<options, shell, chat, slow_asks, held_findings, stack, researching, events, worker,
                 slipped>>

\* `#? question`: straight to the slow lane.
HashSlow ==
  /\ Mark /\ Act("#?") /\ Question
  /\ Supersede(<<Researching(acts', next_sid, acts')>>)
  /\ slow_asks' = slow_asks \cup {next_sid} /\ next_sid' = next_sid + 1
  /\ band' = [asked |-> TRUE, text |-> "waiting"]
  /\ UNCHANGED <<options, shell, chat, vend_id, held_findings, sug_hist, researching, events, worker,
                 heard, slipped>>

\* `#?/cancel` and `#?/model` supersede, as any mark but `#/` and `#@`; the first
\* cancels once more.
HashCancel ==
  /\ Mark /\ Act("#?/")
  /\ \E js \in {<<Raise, Cancel>>, <<>>} : Supersede(js)
  /\ UNCHANGED <<options, shell, chat, band, vend_id, slow_asks, held_findings, stack, researching,
                 events, worker, history, slipped>>

\* `##` opens the chat, a question riding along or not.
HashHash ==
  /\ Mark /\ Act("##")
  /\ \/ Question /\ Supersede(<<Asking(acts')>>)
     \/ Supersede(<<>>) /\ UNCHANGED <<asked, moved>>
  /\ chat' = "open" /\ band' = NoBand
  /\ UNCHANGED <<options, shell, vend_id, slow_asks, held_findings, stack, researching, events,
                 worker, heard, slipped>>

\* `#@ something`: a pin verb; a name that is no path goes to the model.
HashAt ==
  /\ Mark /\ Act("#@")
  /\ Submit(<<Asking(acts')>>) \/ UNCHANGED jobs
  /\ band' = NoBand
  /\ UNCHANGED <<options, shell, chat, vend_id, slow_asks, held_findings, stack, researching, events,
                 calling, worker, history, slipped>>

\* What a `/` command does here: clear, cancel, a control call, or nothing.
\* clear_session leaves slow_asks and vend_id alone.
SlashCommand ==
  \/ sug_hist' = <<>> /\ band' = NoBand /\ Interrupt(<<Cancel>>)
  \/ \E job \in {Cancel, Control} : Interrupt(<<job>>) /\ UNCHANGED <<sug_hist, band>>
  \/ UNCHANGED <<sug_hist, band, jobs, calling>>

\* `#/command`
HashSlash ==
  /\ Mark /\ Act("#/")
  /\ SlashCommand
  /\ UNCHANGED <<options, shell, chat, vend_id, slow_asks, held_findings, next_sid, researching,
                 events, worker, history, slipped>>

\* A message in the chat: a question, a `?` question, a `@` or a `/` command.
\* None of them touches the shot.
ChatAsk ==
  /\ chat = "open" /\ Act("chat") /\ asked' = acts'
  /\ Supersede(<<Asking(acts')>>)
  /\ UNCHANGED <<session, events, worker, moved, heard, slipped>>

ChatSlow ==
  /\ chat = "open" /\ Act("chat?") /\ asked' = acts'
  /\ Supersede(<<Researching(acts', next_sid, acts')>>)
  /\ slow_asks' = slow_asks \cup {next_sid} /\ next_sid' = next_sid + 1
  /\ UNCHANGED <<options, shell, focus, band, vend_id, slow_after_fast, held_findings, sug_hist,
                 researching, events, worker, moved, heard, slipped>>

ChatAt ==
  /\ chat = "open" /\ Act("chat@")
  /\ Submit(<<Asking(acts')>>) \/ UNCHANGED jobs
  /\ UNCHANGED <<session, events, calling, worker, history, slipped>>

ChatSlash ==
  /\ chat = "open" /\ Act("chat/")
  /\ SlashCommand
  /\ UNCHANGED <<options, shell, focus, vend_id, slowLane, next_sid, researching, events, worker,
                 history, slipped>>

\* The arrows of the prompt and of the chat, the handoff of a selection to the
\* shell's line, Esc, and a fullscreen program taking the chat's focus.
Browse ==
  /\ \/ AtPrompt /\ browse' = (~browse /\ sug_hist # <<>>) /\ UNCHANGED chat
     \/ chat = "open" /\ sug_hist # <<>> /\ chat' = "pick" /\ UNCHANGED browse
     \/ chat = "pick" /\ chat' = "open" /\ UNCHANGED browse
     \/ chat = "pick" /\ sug_hist # <<>> /\ chat' = "none" /\ browse' = TRUE
     \/ InChat /\ chat' = "none" /\ UNCHANGED browse
  /\ UNCHANGED <<acts, options, shell, band, vend_id, slowLane, stack, researching, jobs, events,
                 calling, worker, history, slipped>>

\* Mark::CmdStart; a bare Enter is not a command.
CmdStart ==
  /\ AtPrompt /\ Act("command") /\ running' = acts'
  /\ \/ empty_cmd' = TRUE
        /\ UNCHANGED <<browse, band, slow_after_fast, jobs, calling, moved>>
     \/ /\ empty_cmd' = FALSE
        /\ browse' = FALSE /\ band' = NoBand /\ slow_after_fast' = NoShot
        /\ IF researching # 0 THEN Interrupt(<<Cancel>>) ELSE UNCHANGED <<jobs, calling>>
        /\ moved' = acts'
  /\ UNCHANGED <<options, chat, vend_id, slow_asks, held_findings, stack, researching, events, worker,
                 asked, heard, slipped>>

\* Mark::CmdEnd: what the rules suggest, one command at most, and commentary.
CmdEnd ==
  /\ running # 0 /\ running' = 0
  /\ \/ UNCHANGED stack
     \/ \E cmd \in Cmds : /\ ~empty_cmd
                          /\ sug_hist' = Push(sug_hist, Vended(next_sid, cmd, running, running))
                          /\ next_sid' = next_sid + 1
  /\ IF Commentary
     THEN /\ Submit(<<Watching(running)>>)
          /\ Vending(running) /\ moved' = running
          /\ slow_after_fast' = IF opt_slow = "waldorf" THEN Armed(running, TRUE, asked) ELSE NoShot
     ELSE UNCHANGED <<jobs, vend_id, slow_after_fast, moved, vending>>
  /\ UNCHANGED <<acts, options, empty_cmd, focus, band, slow_asks, held_findings, researching,
                 events, calling, worker, asked, crossed, slipped>>

-----------------------------------------------------------------------------
(* The events, in the order sent *)

Handle(kinds) == events # <<>> /\ Head(events).kind \in kinds /\ events' = Tail(events)

Say(text) == band' = IF InChat \/ band = NoBand THEN band ELSE [band EXCEPT !.text = text]

\* Mutant: the question is not kept.
FireForgets(turn) ==
  /\ UNCHANGED slow_asks
  /\ Submit(<<Researching(slow_after_fast.of, turn, asked)>>)

\* Research for the question the shot was holding.
Fire(turn) ==
  /\ slow_asks' = slow_asks \cup {turn}
  /\ Submit(<<Researching(slow_after_fast.of, turn, asked)>>)

\* For the record: whose words these are.
Hear == crossed' = (crossed \/ Head(events).of # vending) /\ UNCHANGED <<asked, moved, vending>>

\* Event::Command: the CMD line, before the prose.
HandleCommand ==
  /\ Handle({"Command"}) /\ Hear
  /\ sug_hist' = Push(sug_hist, Vended(next_sid, Head(events).cmd, Head(events).of, 0))
  /\ vend_id' = next_sid /\ next_sid' = next_sid + 1
  /\ UNCHANGED <<acts, options, shell, focus, band, slowLane, researching, jobs, calling, worker,
                 slipped>>

HandlePartial ==
  /\ Handle({"Partial"})
  /\ Say("answer")
  /\ UNCHANGED <<acts, options, shell, focus, vend_id, slowLane, stack, researching, jobs, calling,
                 worker, history, slipped>>

\* Mutant: commentary's words whatever the band shows.
DroppedPass(e) == e.kind = "Pass"

\* A PASS is nobody's words, and a tip never overwrites a question's band.
Dropped(e) == e.kind = "Pass" \/ (e.kind = "Comment" /\ band.asked)

\* Event::Answer: the slot vended gets its words, or the command a slot; the
\* band speaks, unless it is commentary's turn and the user's band; and the
\* slow lane's shot goes off, to amend that slot.
HandleAnswer ==
  /\ Handle({"Answer", "Comment", "Pass"}) /\ Hear
  /\ LET e       == Head(events)
         vends   == e.cmd # NoCmd /\ ~Dropped(e)
         filled  == [i \in DOMAIN sug_hist |->
                       IF e.cmd = NoCmd /\ sug_hist[i].id = vend_id
                       THEN [sug_hist[i] EXCEPT !.text = e.of] ELSE sug_hist[i]]
         vended  == IF vends THEN next_sid ELSE vend_id
         sid     == IF vends THEN next_sid + 1 ELSE next_sid
     IN  /\ sug_hist' = IF vends THEN Push(filled, Vended(next_sid, e.cmd, e.of, e.of)) ELSE filled
         /\ IF e.kind = "Answer" \/ Dropped(e) \/ InChat
            THEN IF Dropped(e) THEN UNCHANGED band ELSE Say("answer")
            ELSE band' = [asked |-> FALSE, text |-> "comment"]
         /\ IF slow_after_fast # NoShot
            THEN /\ Fire(IF vended # 0 THEN vended ELSE sid)
                 /\ vend_id' = 0
                 /\ next_sid' = IF vended # 0 THEN sid ELSE sid + 1
            ELSE vend_id' = vended /\ next_sid' = sid /\ UNCHANGED <<slow_asks, jobs>>
  /\ slow_after_fast' = NoShot
  /\ UNCHANGED <<acts, options, shell, focus, held_findings, researching, calling, worker, slipped>>

\* Event::Error: a question typed still deserves the other lane.
HandleError ==
  /\ Handle({"Error"})
  /\ Say("error")
  /\ IF slow_after_fast # NoShot /\ ~slow_after_fast.unprompted
     THEN Fire(next_sid) /\ next_sid' = next_sid + 1
     ELSE UNCHANGED <<slow_asks, jobs, next_sid>>
  /\ slow_after_fast' = NoShot
  /\ UNCHANGED <<acts, options, shell, focus, vend_id, held_findings, sug_hist, researching,
                 calling, worker, history, slipped>>

HandleResearching ==
  /\ Handle({"Researching"})
  /\ researching' = Head(events).turn
  /\ UNCHANGED <<acts, options, shell, focus, band, vend_id, slowLane, stack, jobs, calling, worker,
                 history, slipped>>

\* Mutant: the chat's selection forgotten.
ReadingPrompt == browse

Reading == browse \/ chat = "pick"

\* Event::Finding: relayed by the fast lane, held while the user is reading, or
\* landed, where it also answers a band that is still waiting.
HandleFinding ==
  /\ Handle({"Finding"})
  /\ LET f     == [of |-> Head(events).of, turn |-> Head(events).turn, cmd |-> Head(events).cmd]
         known == f.turn \in slow_asks
     IN  \/ /\ slow_via_fast /\ known
            /\ Submit(<<Asking(f.of)>>)
            /\ slow_asks' = slow_asks \ {f.turn}
            /\ UNCHANGED <<band, sug_hist, held_findings>>
         \/ /\ ~(slow_via_fast /\ known) /\ Reading
            /\ held_findings' = Append(held_findings, f)
            /\ UNCHANGED <<band, sug_hist, slow_asks, jobs>>
         \/ /\ ~(slow_via_fast /\ known) /\ ~Reading
            /\ band' = IF band.text = "waiting" THEN [band EXCEPT !.text = "finding"] ELSE band
            /\ sug_hist' = Landed(sug_hist, f, known)
            /\ slow_asks' = slow_asks \ {f.turn}
            /\ UNCHANGED <<held_findings, jobs>>
  /\ UNCHANGED <<acts, options, shell, focus, vend_id, slow_after_fast, next_sid, researching,
                 calling, worker, history, slipped>>

\* A quiet tick: what was held lands, in the order it came.
Land ==
  /\ held_findings # <<>> /\ ~Reading
  /\ LET landing(acc, f) == [hist |-> Landed(acc.hist, f, f.turn \in acc.asks),
                             asks |-> acc.asks \ {f.turn}]
         landed[n \in 0 .. Len(held_findings)] ==
           IF n = 0 THEN [hist |-> sug_hist, asks |-> slow_asks]
           ELSE landing(landed[n - 1], held_findings[n])
     IN  /\ sug_hist' = landed[Len(held_findings)].hist
         /\ slow_asks' = landed[Len(held_findings)].asks
  /\ held_findings' = <<>>
  /\ UNCHANGED <<acts, options, shell, focus, band, vend_id, slow_after_fast, next_sid, researching,
                 jobs, events, calling, worker, history, slipped>>

-----------------------------------------------------------------------------
(* The worker *)

Event0(kind, of)  == [kind |-> kind, of |-> of, turn |-> 0, cmd |-> NoCmd]
Now(turn)         == [Event0("Researching", 0) EXCEPT !.turn = turn]
Emit(es)          == events' = events \o es

Calling(kind) == \E i \in DOMAIN sending : sending[i].kind = kind
Has(kind)    == \E i \in DOMAIN jobs : jobs[i].kind = kind
Asks         == {i \in DOMAIN jobs : jobs[i].kind \in {"ask", "watch"}}
Uncancelled  == {i \in DOMAIN jobs : /\ jobs[i].kind = "research"
                                     /\ \A k \in DOMAIN jobs : k > i => jobs[k].kind # "cancel"}
Newest(S)    == {i \in S : \A k \in S : k <= i}

\* One pass: the flag down, the channel drained, the newest ask begun.  A
\* control call, and an ask, may find no engine.
Take ==
  /\ at = "top" /\ jobs # <<>>
  /\ jobs' = <<>> /\ preempt' = FALSE /\ early' = NoCmd
  /\ \/ \E i \in Newest(Uncancelled) : pending' = jobs[i]
     \/ Uncancelled = {} /\ pending' = IF Has("cancel") THEN Idle ELSE pending
  /\ LET cleared == IF Has("cancel") THEN <<Now(0)>> ELSE <<>>
         lost    == <<Event0("Error", 0)>>
     IN  \E reply \in {<<>>} \cup (IF Has("control") THEN {lost} ELSE {}) :
           \/ Asks = {} /\ at' = "pick" /\ work' = Idle /\ Emit(cleared \o reply)
           \/ \E i \in Newest(Asks) : at' = "ask" /\ work' = jobs[i] /\ Emit(cleared \o reply)
           \/ Asks # {} /\ at' = "top" /\ work' = Idle /\ Emit(cleared \o reply \o lost)
  /\ slipped' = Calling("cancel")
  /\ UNCHANGED <<acts, session, sending, history>>

\* generate: the CMD line and the prose, as they stream; not for commentary.
StreamCommand ==
  /\ at = "ask" /\ work.kind = "ask" /\ ~preempt /\ early = NoCmd
  /\ early' \in Cmds
  /\ Emit(<<[Event0("Command", work.of) EXCEPT !.cmd = early']>>)
  /\ UNCHANGED <<acts, session, jobs, calling, at, work, pending, history, slipped>>

\* One at a time in the channel.
StreamPartial ==
  /\ at = "ask" /\ work.kind = "ask" /\ ~preempt
  /\ \A i \in DOMAIN events : events[i].kind # "Partial"
  /\ Emit(<<Event0("Partial", work.of)>>)
  /\ UNCHANGED <<acts, session, jobs, calling, worker, history, slipped>>

\* An answer, whose command is left out if the stream has sent it; a failure,
\* silent for commentary; or the flag, and nothing.
AskEnds ==
  /\ at = "ask" /\ work' = Idle /\ early' = NoCmd
  /\ \/ /\ preempt /\ at' = "top" /\ UNCHANGED events
     \/ /\ ~preempt /\ at' = "pick"
        /\ \E cmd \in {c \in MaybeCmd : c = NoCmd \/ c # early} :
             IF work.kind = "ask"
             THEN Emit(<<[Event0("Answer", work.of) EXCEPT !.cmd = cmd]>>)
             ELSE \/ Emit(<<[Event0("Comment", work.of) EXCEPT !.cmd = cmd]>>)
                  \/ Emit(<<Event0("Pass", work.of)>>)
     \/ /\ at' = "pick"
        /\ IF work.kind = "ask" THEN Emit(<<Event0("Error", 0)>>) ELSE UNCHANGED events
  /\ UNCHANGED <<acts, session, jobs, calling, pending, history, slipped>>

\* run_research: nothing pending; no engine for it; or it starts.
Pick ==
  /\ at = "pick" \/ (at = "top" /\ jobs = <<>> /\ pending # Idle)
  /\ \/ pending = Idle /\ at' = "top" /\ UNCHANGED <<events, work>>
     \/ pending # Idle /\ at' = "top" /\ Emit(<<Now(0)>>) /\ UNCHANGED work
     \/ pending # Idle /\ at' = "research" /\ Emit(<<Now(pending.turn)>>) /\ work' = pending
  /\ pending' = Idle
  /\ UNCHANGED <<acts, session, jobs, calling, early, history, slipped>>

\* Its finding, or nothing: cut short, failed, or declined.
ResearchEnds ==
  /\ at = "research" /\ at' = "top" /\ work' = Idle
  /\ \/ Emit(<<Now(0)>>)
     \/ /\ ~preempt
        /\ \E cmd \in MaybeCmd :
             Emit(<<Now(0), [kind |-> "Finding", of |-> work.of, turn |-> work.turn, cmd |-> cmd]>>)
  /\ UNCHANGED <<acts, session, jobs, calling, pending, early, history, slipped>>

-----------------------------------------------------------------------------
User ==
  \/ Hash \/ HashSlow \/ HashCancel \/ HashHash \/ HashAt \/ HashSlash
  \/ ChatAsk \/ ChatSlow \/ ChatAt \/ ChatSlash \/ Browse
  \/ CmdStart \/ CmdEnd

Handler ==
  \/ HandleCommand \/ HandlePartial \/ HandleAnswer \/ HandleError \/ HandleResearching
  \/ HandleFinding \/ Land

Worker == Take \/ StreamCommand \/ StreamPartial \/ AskEnds \/ Pick \/ ResearchEnds

\* The session is one thread: a call is over before it handles anything else.
Next == (sending = <<>> /\ (User \/ Handler)) \/ Send \/ Worker

Spec == Init /\ [][Next]_vars

-----------------------------------------------------------------------------
(* Properties *)

\* The shot waiting for the fast lane is for the last thing the user did at the
\* shell, a question or a command run, and for the newest question: "the user
\* moved on, we move on", by whichever mark, key or event.  But a question typed
\* in a chat disarms nothing, and the marks of what was typed before the chat
\* opened arm a shot while it is open: such a shot may see newer questions.
ShotIsForTheLastAct ==
  slow_after_fast # NoShot =>
    slow_after_fast.of = moved /\ (slow_after_fast.asked = asked \/ slow_after_fast.ahead)

\* Research sent before the newest question is doomed wherever it is: in the
\* channel a cancel follows it, in hand the flag is up, or the session is about
\* to send that cancel.  But a pass that begins between a call's flag and its
\* cancel puts the flag down: what that pass starts runs on to its end.
Stale(job, question) == job.kind = "research" /\ job.asked < question
Covered(q, question) ==
  \A i \in DOMAIN q :
    Stale(q[i], question) => \E k \in DOMAIN q : k > i /\ q[k].kind = "cancel"
SupersededIsDoomed ==
  /\ Covered(jobs, asked) \/ Calling("cancel")
  /\ Stale(pending, asked) => Has("cancel") \/ Calling("cancel")
  /\ Stale(work, asked) => (Has("cancel") \/ Calling("cancel")) /\ (preempt \/ slipped)

\* The research asked for, under way or come back, one way or the other, and not
\* landed.
Abroad ==
  {jobs[i].turn : i \in {k \in DOMAIN jobs : jobs[k].kind = "research"}}
    \cup {sending[i].turn : i \in {k \in DOMAIN sending : sending[k].kind = "research"}}
    \cup {events[i].turn : i \in {k \in DOMAIN events : events[k].kind = "Finding"}}
    \cup {held_findings[i].turn : i \in DOMAIN held_findings}
    \cup ({work.turn, pending.turn} \ {0})

\* A finding comes home: the question of every research not yet landed is still
\* known, so that one with a command finds or makes a slot.
FindingsComeHome == Abroad \subseteq slow_asks

\* Commentary never speaks over, or under, a question the user asked: its band
\* goes only when the user does something.
CommentaryYields ==
  [][(band.asked /\ acts' = acts) => band'.asked /\ band'.text # "comment"]_vars

\* Words and alternatives are of the turns that vended their command, as long as
\* the commands and answers handled are those of the turn that vends.
WordsOfTheirTurn ==
  ~crossed => \A i \in DOMAIN sug_hist :
                {sug_hist[i].text, sug_hist[i].alt.of} \subseteq sug_hist[i].by \cup {0}

\* While the user is reading the stack no alternative appears, changes or
\* goes: entries are only pushed on top.  Or they clear it, by a line typed ahead.
AtTheStack   == browse \/ chat = "pick"
Offers(hist) == [i \in DOMAIN hist |-> <<hist[i].cmd, hist[i].alt>>]
LineageStill ==
  [][(AtTheStack /\ AtTheStack') =>
       \/ sug_hist' = <<>>
       \/ Offers(sug_hist') = Offers(sug_hist)
       \/ Offers(Tail(sug_hist')) = Offers(SubSeq(sug_hist, 1, Len(sug_hist') - 1))]_vars
=============================================================================
