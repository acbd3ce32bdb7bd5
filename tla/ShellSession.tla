---------------------------- MODULE ShellSession ----------------------------
(***************************************************************************)
(* Walking the slots from the shell's line: the line editor and its        *)
(* adapter (src/shell/goulash.zsh, goulash.bash), the marks it prints and  *)
(* the keys it reads, and the session between it and the user              *)
(* (src/src/session.rs), which answers a pull of zsh by a paste and, on a  *)
(* shell that cannot ask, reads the arrows itself and types.               *)
(*                                                                         *)
(* A line is a sequence of pieces: a suggested command, or what the user   *)
(* writes.  The cursor is at its end.  Of the slots, the commands alone;   *)
(* who vends them is TwoLane's.  The marks D and P, the menus, the         *)
(* commands of `#` and what a chat's message starts are left out.          *)
(***************************************************************************)
EXTENDS OscFilter, SequencesExt

CONSTANTS
  Shells,        \* what runs underneath: "zsh", "bash", or "old bash" (3.2)
  Cmds, NoCmd,   \* what a model suggests, or nothing
  Spanning,      \* those with a line break inside
  SugHistCap,    \* SUG_HIST_CAP
  MaxVends,      \* bound on the events that change the stack
  MaxKeys        \* bound on the user's keys

ASSUME CmdsAssumption == Spanning \subseteq Cmds /\ NoCmd \notin Cmds /\ Cmds \subseteq STRING
ASSUME CountsAssumption == {SugHistCap, MaxVends, MaxKeys} \subseteq Nat /\ SugHistCap # 0

VARIABLES
  shell,
  sug_hist, browse,        \* the stack, newest first; the flat slot stood on, or 0
  hook, own_line, line_touched,
  chat,                    \* open, the turn selected or 0, something written
  pending, segs,           \* the filter's carry-over; the marks of this read
  pty, tty,                \* what the shell printed; what it has to read
  line, draft, recalled,   \* the line; the one under a line of the history
  running,
  slot_buf, expect,        \* zsh's adapter
  vends, keys,
  asked,                   \* history: the line of the last pull
  mixed                    \* history: a line not fresh at its prompt, or pulled into otherwise

editor  == <<line, draft, recalled, running, slot_buf, expect>>
filter  == <<pending, segs, pty>>
claims  == <<own_line, line_touched>>
stack   == <<sug_hist, vends>>
vars    == <<shell, stack, browse, hook, claims, chat, filter, tty, editor, keys, asked, mixed>>

Pieces == Cmds \cup {"x", "##", "old", "00~"}

\* Bash 3.2 has never heard of a bracketed paste.
TakesPaste == shell # "old bash"
Closed == [open |-> FALSE, sel |-> 0, typed |-> FALSE]
Opened == [open |-> TRUE, sel |-> 0, typed |-> FALSE]

TypeOK ==
  /\ shell \in Shells
  /\ sug_hist \in Seq([cmd : Cmds, alt : Cmds \cup {NoCmd}]) /\ Len(sug_hist) <= SugHistCap
  /\ browse \in 0 .. 2 * SugHistCap
  /\ hook \in {"none", "Prompt", "Command"} /\ {own_line, line_touched} \subseteq BOOLEAN
  /\ chat \in [open : BOOLEAN, sel : 0 .. SugHistCap, typed : BOOLEAN]
  /\ pending \in Seq(STRING) /\ Len(pending) <= MaxPending /\ pty \in Seq(STRING)
  /\ segs \in Seq([tag : {"A", "B", "Q", "S", "U"}, text : Seq(Pieces)])
  /\ tty \in Seq([do : {"char", "kill", "paste", "type", "up", "down", "enter"}, text : Seq(Pieces)])
  /\ {line, draft, slot_buf, asked} \subseteq Seq(Pieces)
  /\ {recalled, running, expect, mixed} \subseteq BOOLEAN
  /\ vends \in 0 .. MaxVends /\ keys \in 0 .. MaxKeys

\* The session starts the shell, which prints its first prompt.
Init ==
  /\ shell \in Shells /\ sug_hist = <<>> /\ browse = 0
  /\ hook = "none" /\ own_line = FALSE /\ line_touched = FALSE /\ chat = Closed
  /\ pending = <<>> /\ segs = <<>> /\ pty = Printed("A", <<>>) /\ tty = <<>>
  /\ line = <<>> /\ draft = <<>> /\ recalled = FALSE /\ running = FALSE
  /\ slot_buf = <<>> /\ expect = FALSE
  /\ vends = 0 /\ keys = 0 /\ asked = <<>> /\ mixed = FALSE

-----------------------------------------------------------------------------
(* The stack, flattened *)

\* flat_slots: each turn's command, then its alternative.
flat_slots(hist) ==
  FoldLeft(LAMBDA flat, i : flat \o <<[turn |-> i, alt |-> FALSE]>>
                            \o IF hist[i].alt = NoCmd THEN <<>> ELSE <<[turn |-> i, alt |-> TRUE]>>,
           <<>>, [i \in DOMAIN hist |-> i])

slot_cmd(hist, s) == IF s.alt THEN hist[s.turn].alt ELSE hist[s.turn].cmd

Flat == [p \in DOMAIN flat_slots(sug_hist) |-> slot_cmd(sug_hist, flat_slots(sug_hist)[p])]

\* Where the line stands: at the slot remembered if it holds its command, else
\* at the first that does; 0 if none.
\* Mutant: what is remembered is not compared.
StandsTrusting(flat, at, text) ==
  IF at \in DOMAIN flat THEN at ELSE SelectInSeq(flat, LAMBDA c : text = <<c>>)

Stands(flat, at, text) ==
  IF at \in DOMAIN flat /\ text = <<flat[at]>> THEN at
  ELSE SelectInSeq(flat, LAMBDA c : text = <<c>>)

Lost    == -1
Neutral == 0

\* step_browse: the slot to stand on, Neutral or Lost.
step_browse(flat, at, text, down) ==
  LET pos == Stands(flat, at, text) IN
  CASE flat = <<>> -> Lost
    [] flat # <<>> /\ text = <<>> -> IF down THEN 1 ELSE Neutral
    [] flat # <<>> /\ text # <<>> /\ pos = 0 -> Lost
    [] OTHER -> IF down THEN IF pos < Len(flat) THEN pos + 1 ELSE pos ELSE pos - 1

-----------------------------------------------------------------------------
(* Events that change the stack *)

Quiet == segs = <<>>   \* the loop is between two reads

\* hist_push
Vend ==
  /\ Quiet /\ vends < MaxVends /\ vends' = vends + 1
  /\ \E c \in Cmds :
       sug_hist' = IF sug_hist # <<>> /\ sug_hist[1].cmd = c THEN sug_hist
                   ELSE LET longer == <<[cmd |-> c, alt |-> NoCmd]>> \o sug_hist
                        IN  IF Len(longer) > SugHistCap THEN Front(longer) ELSE longer
  /\ UNCHANGED <<shell, browse, hook, claims, chat, filter, tty, editor, keys, asked, mixed>>

\* A finding lands as an alternative, unless the user is reading.
Amend ==
  /\ Quiet /\ vends < MaxVends /\ vends' = vends + 1
  /\ browse = 0 /\ chat.sel = 0
  /\ \E i \in DOMAIN sug_hist, c \in Cmds :
       c # sug_hist[i].cmd /\ sug_hist' = [sug_hist EXCEPT ![i].alt = c]
  /\ UNCHANGED <<shell, browse, hook, claims, chat, filter, tty, editor, keys, asked, mixed>>

-----------------------------------------------------------------------------
(* The session and the shell's output *)

Give(todo) == tty' = tty \o todo
Do(what)          == [do |-> what, text |-> <<>>]
Paste(text)       == [do |-> "paste", text |-> text]

\* A read takes any part of what is there.
ReadPty ==
  /\ Quiet /\ pty # <<>>
  /\ \E n \in DOMAIN pty :
       LET fed == Feed(pending, SubSeq(pty, 1, n)) IN
       /\ segs' = fed.marks /\ pending' = fed.pending
       /\ pty' = SubSeq(pty, n + 1, Len(pty))
  /\ UNCHANGED <<shell, stack, browse, hook, claims, chat, tty, editor, keys, asked, mixed>>

Next_(tag) == segs # <<>> /\ Head(segs).tag = tag /\ segs' = Tail(segs)

\* Mark::Prompt
MarkPrompt ==
  /\ Next_("A")
  /\ hook' = "Prompt" /\ own_line' = FALSE /\ line_touched' = FALSE
  /\ mixed' = (tty # <<>> \/ line # <<>> \/ recalled)
  /\ UNCHANGED <<shell, stack, browse, chat, pending, pty, tty, editor, keys, asked>>

\* Mark::CmdStart, of a command that is not blank.
MarkCmdStart ==
  /\ Next_("B")
  /\ hook' = "Command" /\ browse' = 0
  /\ UNCHANGED <<shell, stack, claims, chat, pending, pty, tty, editor, keys, asked, mixed>>

\* Mark::Ask, of `##`, whatever follows it.
MarkAsk ==
  /\ Next_("Q")
  /\ browse' = 0 /\ chat' = Opened
  /\ UNCHANGED <<shell, stack, hook, claims, pending, pty, tty, editor, keys, asked, mixed>>

\* Mutant: at the oldest there is nothing to say.
AnswerMute(text, to, down) ==
  CASE to = Lost -> <<Paste(<<>>)>>
    [] to = Neutral -> IF down THEN <<Paste(<<>>)>> ELSE <<Do("kill"), Paste(<<>>)>>
    [] to > 0 /\ down /\ text = <<Flat[to]>> -> <<>>
    [] OTHER -> (IF down /\ text = <<>> THEN <<>> ELSE <<Do("kill")>>) \o <<Paste(<<Flat[to]>>)>>

\* Every pull is answered by a paste, an empty one if the line is to stay.
Answer(text, to, down) ==
  CASE to = Lost -> <<Paste(<<>>)>>
    [] to = Neutral -> IF down THEN <<Paste(<<>>)>> ELSE <<Do("kill"), Paste(<<>>)>>
    [] to > 0 /\ down /\ text = <<Flat[to]>> -> <<Paste(<<>>)>>
    [] OTHER -> (IF down /\ text = <<>> THEN <<>> ELSE <<Do("kill")>>) \o <<Paste(<<Flat[to]>>)>>

\* Mark::Pull and Mark::PullUp
MarkPull(down) ==
  /\ Next_(IF down THEN "S" ELSE "U")
  /\ LET to == step_browse(Flat, browse, Head(segs).text, down) IN
     /\ browse' = IF to > 0 THEN to ELSE 0
     /\ Give(Answer(Head(segs).text, to, down))
  /\ UNCHANGED <<shell, stack, hook, claims, chat, pending, pty, editor, keys, asked, mixed>>

-----------------------------------------------------------------------------
(* The session and the user's keys *)

Pressed == Quiet /\ keys < MaxKeys /\ keys' = keys + 1

\* The user has the line back.
\* Mutant: the arrows are still claimed.
PassThroughOwned(todo) == Give(todo) /\ line_touched' = TRUE /\ UNCHANGED own_line

PassThrough(todo) == Give(todo) /\ line_touched' = TRUE /\ own_line' = FALSE

\* Mutant: typed whatever it holds.
TypedUnread(c) == <<[do |-> "type", text |-> <<c>>]>>

\* type_line: the bytes, or none.
Typed(c) == IF c \in Spanning THEN <<>> ELSE <<[do |-> "type", text |-> <<c>>]>>

Blind == shell # "zsh" /\ hook = "Prompt"
Held  == IF own_line THEN browse ELSE 0

\* Walk::Show: what is refused leaves a notice.
Show(i) ==
  IF Typed(Flat[i]) = <<>> THEN UNCHANGED <<tty, claims, browse>>
  ELSE /\ Give((IF own_line THEN <<Do("kill")>> ELSE <<>>) \o Typed(Flat[i]))
       /\ own_line' = TRUE /\ browse' = i /\ UNCHANGED line_touched

Clear == Give(<<Do("kill")>>) /\ own_line' = FALSE /\ browse' = 0 /\ UNCHANGED line_touched
Hold  == UNCHANGED <<tty, claims, browse>>

\* walk_blind, and what each way of it does.
WalkBlind(down) ==
  LET at == Held IN
  CASE at = 0 /\ down /\ ~line_touched /\ Flat # <<>> -> Show(1)
    [] at > 0 /\ down /\ at < Len(Flat) -> Show(at + 1)
    [] at > 0 /\ down /\ at >= Len(Flat) -> Hold
    [] at = 1 /\ ~down -> Clear
    [] at > 1 /\ ~down -> Show(at - 1)
    [] OTHER -> PassThrough(<<Do(IF down THEN "down" ELSE "up")>>) /\ UNCHANGED browse

Arrow(down) ==
  /\ Pressed /\ ~chat.open
  /\ IF Blind THEN WalkBlind(down)
     ELSE PassThrough(<<Do(IF down THEN "down" ELSE "up")>>) /\ UNCHANGED browse
  /\ UNCHANGED <<shell, stack, hook, chat, filter, editor, asked, mixed>>

\* What the user writes, pastes or enters.
Key ==
  /\ Pressed /\ ~chat.open
  /\ \E k \in {Do("enter")} \cup [do : {"char"}, text : {<<"x">>, <<"##">>}]
                           \cup (IF TakesPaste THEN {Paste(<<"x">>)} ELSE {}) :
       PassThrough(<<k>>)
  /\ UNCHANGED <<shell, stack, browse, hook, chat, filter, editor, asked, mixed>>

\* Alt-Down, at a prompt and with something to pull.
AltDown ==
  /\ Pressed /\ ~chat.open /\ hook = "Prompt" /\ sug_hist # <<>>
  /\ Give(Typed(sug_hist[1].cmd))
  /\ own_line' = TRUE /\ mixed' = TRUE
  /\ UNCHANGED <<shell, stack, browse, hook, line_touched, chat, filter, editor, asked>>

\* The keys of a chat that move in it.
\* A key of the chat does nothing to the line, and needs no bound.
ChatKey ==
  /\ Quiet /\ chat.open
  /\ \/ ~chat.typed /\ sug_hist # <<>>
        /\ chat' = [chat EXCEPT !.sel = IF @ < Len(sug_hist) THEN @ + 1 ELSE Len(sug_hist)]
     \/ ~chat.typed /\ chat.sel > 0 /\ chat' = [chat EXCEPT !.sel = @ - 1]
     \/ chat' = [chat EXCEPT !.sel = 0, !.typed = TRUE]
     \/ chat.typed /\ chat.sel = 0 /\ chat' = [chat EXCEPT !.typed = FALSE]
     \/ chat' = IF chat.sel > 0 THEN [chat EXCEPT !.sel = 0] ELSE Closed
  /\ UNCHANGED <<shell, stack, browse, hook, claims, filter, tty, editor, keys, asked, mixed>>

\* Enter on a turn selected: its command is pasted onto the line, whatever it holds.
Handoff ==
  /\ Quiet /\ chat.sel > 0
  /\ IF chat.sel \in DOMAIN sug_hist
     THEN /\ Give(<<Paste(<<sug_hist[chat.sel].cmd>>)>>)
          /\ browse' = chat.sel /\ chat' = Closed /\ mixed' = TRUE
     ELSE chat' = [chat EXCEPT !.sel = 0] /\ UNCHANGED <<tty, browse, mixed>>
  /\ UNCHANGED <<shell, stack, hook, claims, filter, editor, keys, asked>>

-----------------------------------------------------------------------------
(* The line editor.  It reads nothing while a command runs. *)

Reads(do) == ~running /\ tty # <<>> /\ Head(tty).do = do /\ tty' = Tail(tty)
Prints(tag, text) == pty' = pty \o Printed(tag, text)
Multiline(text) == \E i \in DOMAIN text : text[i] \in Spanning
LineIs(text) == line' = text /\ UNCHANGED <<draft, recalled, running>>

\* A fresh line; __goulash_precmd resets what it expects of zsh.
FreshLine ==
  /\ line' = <<>> /\ draft' = <<>> /\ recalled' = FALSE
  /\ slot_buf' = <<>> /\ expect' = FALSE

ReadText ==
  /\ Reads("char")
  /\ LineIs(line \o Head(tty).text)
  /\ UNCHANGED <<shell, stack, browse, hook, claims, chat, filter, slot_buf, expect, keys, asked, mixed>>

ReadKill ==
  /\ Reads("kill")
  /\ LineIs(<<>>)
  /\ UNCHANGED <<shell, stack, browse, hook, claims, chat, filter, slot_buf, expect, keys, asked, mixed>>

\* __goulash_bracketed_paste
ReadPaste ==
  /\ Reads("paste") /\ TakesPaste
  /\ LineIs(line \o Head(tty).text)
  /\ slot_buf' = IF expect THEN line' ELSE slot_buf
  /\ expect' = FALSE
  /\ UNCHANGED <<shell, stack, browse, hook, claims, chat, filter, keys, asked, mixed>>

\* Where a paste is not understood its marks leave their tails, and what is
\* between them is typed: a line break in it is Enter, and the rest waits.
ReadPasteAsKeys ==
  /\ ~running /\ tty # <<>> /\ Head(tty).do = "paste" /\ ~TakesPaste
  /\ LET text == line \o <<"00~">> \o Head(tty).text IN
     IF Multiline(Head(tty).text)
     THEN /\ Prints("B", text) /\ running' = TRUE
          /\ tty' = <<[do |-> "char", text |-> <<"00~">>]>> \o Tail(tty)
          /\ UNCHANGED <<line, draft, recalled>>
     ELSE LineIs(text \o <<"00~">>) /\ tty' = Tail(tty) /\ UNCHANGED pty
  /\ UNCHANGED <<shell, stack, browse, hook, claims, chat, pending, segs, slot_buf, expect, keys, asked, mixed>>

Accept ==
  CASE line = <<>> -> Prints("A", <<>>) /\ FreshLine /\ UNCHANGED running
    [] line # <<>> /\ Head(line) = "##" ->
         pty' = pty \o Printed("Q", line) \o Printed("A", <<>>) /\ FreshLine /\ UNCHANGED running
    [] OTHER -> /\ Prints("B", line) /\ running' = TRUE
                /\ UNCHANGED <<line, draft, recalled, slot_buf, expect>>

ReadEnter ==
  /\ Reads("enter") /\ Accept
  /\ UNCHANGED <<shell, stack, browse, hook, claims, chat, pending, segs, keys, asked, mixed>>

\* Typed: a line break is Enter.
ReadTyped ==
  /\ Reads("type")
  /\ IF Multiline(Head(tty).text)
     THEN /\ Prints("B", line \o Head(tty).text) /\ running' = TRUE
          /\ UNCHANGED <<line, draft, recalled, slot_buf, expect>>
     ELSE LineIs(line \o Head(tty).text) /\ UNCHANGED <<pty, slot_buf, expect>>
  /\ UNCHANGED <<shell, stack, browse, hook, claims, chat, pending, segs, keys, asked, mixed>>

\* Up and Down as they were before the adapter.
HistoryBack ==
  IF recalled \/ Multiline(line) THEN UNCHANGED <<line, draft, recalled>>
  ELSE line' = <<"old">> /\ draft' = line /\ recalled' = TRUE
HistoryOn ==
  IF recalled THEN line' = draft /\ draft' = <<>> /\ recalled' = FALSE
  ELSE UNCHANGED <<line, draft, recalled>>

Pull(tag) ==
  /\ Prints(tag, line) /\ expect' = TRUE /\ asked' = line
  /\ UNCHANGED <<line, draft, recalled, slot_buf>>

\* __goulash_down_or_suggest
ReadDown ==
  /\ Reads("down")
  /\ IF shell = "zsh" /\ ~recalled THEN Pull("S")
     ELSE HistoryOn /\ UNCHANGED <<pty, slot_buf, expect, asked>>
  /\ UNCHANGED <<shell, stack, browse, hook, claims, chat, pending, segs, running, keys, mixed>>

\* __goulash_up_or_history
ReadUp ==
  /\ Reads("up")
  /\ IF shell = "zsh" /\ slot_buf # <<>> /\ line = slot_buf /\ ~Multiline(line) THEN Pull("U")
     ELSE HistoryBack /\ slot_buf' = <<>> /\ UNCHANGED <<pty, expect, asked>>
  /\ UNCHANGED <<shell, stack, browse, hook, claims, chat, pending, segs, running, keys, mixed>>

\* The command ends, having printed something; the prompt comes back.
Finish ==
  /\ running /\ running' = FALSE
  /\ pty' = pty \o <<"out", Esc, "out">> \o Printed("A", <<>>)
  /\ FreshLine
  /\ UNCHANGED <<shell, stack, browse, hook, claims, chat, pending, segs, tty, keys, asked, mixed>>

Listens == ReadPty \/ MarkPrompt \/ MarkCmdStart \/ MarkAsk \/ \E down \in BOOLEAN : MarkPull(down)
Edits   == ReadText \/ ReadKill \/ ReadPaste \/ ReadPasteAsKeys \/ ReadEnter \/ ReadTyped \/ ReadDown \/ ReadUp
User    == (\E down \in BOOLEAN : Arrow(down)) \/ Key \/ AltDown \/ ChatKey \/ Handoff

Next == Listens \/ Edits \/ User \/ Finish \/ Vend \/ Amend

Spec == Init /\ [][Next]_vars

\* The loop reads and a prompt reads; nobody else must do anything.
FairSpec == Spec /\ WF_vars(Listens) /\ WF_vars(Edits)

-----------------------------------------------------------------------------
(* Properties *)

OneSlot(text) == \E c \in Cmds : text = <<c>>

\* Every pull is answered: a shell that waits for its paste gets one, whatever
\* the stack and the line were (the empty pastes of Mark::Pull and PullUp), or
\* has gone on to run something.
ExpectResolves == (expect /\ ~running) ~> (~expect \/ running)

\* A pull moves by one slot from the one the line holds, if it stands once in
\* the stack, though the stack has grown since the session last looked
\* (step_browse: "Locating by BUFFER rather than by remembered position").
WalksByTheLine ==
  [][\A down \in BOOLEAN, p \in DOMAIN Flat :
       ( /\ MarkPull(down) /\ Head(segs).text = <<Flat[p]>>
         /\ \A q \in DOMAIN Flat : Flat[q] = Flat[p] => q = p )
       => browse' = IF down THEN IF p < Len(Flat) THEN p + 1 ELSE p ELSE p - 1]_vars

\* The session's kill takes a suggested command, whole and alone, and nothing of
\* the user's: on zsh if the line is as it was at the pull, on bash if the line was
\* fresh at its prompt and every suggestion on it came by the arrows.
KillsItsOwnOnly ==
  [][(ReadKill /\ IF shell = "zsh" THEN line = asked ELSE ~mixed) => OneSlot(line)]_vars

\* What runs, the user's Enter ran, and no line break in a suggestion (type_line:
\* "can never run it"); with one exception, of the one writer that does not go
\* through type_line: a chat's handoff pastes a command of several lines, and a
\* shell that does not understand a paste runs its first line.
OnlyEnterRuns ==
  [][~running /\ running' =>
       Head(tty).do = "enter" \/ (~TakesPaste /\ Head(tty).do = "paste" /\ mixed)]_vars

-----------------------------------------------------------------------------
(* What the comments say and the code does not do *)

\* The first of the blind arrows types on an empty line: walk_blind claims "only a
\* prompt where the user has typed nothing and pressed no Up".
ClaimsACleanLine ==
  [][(Arrow(TRUE) /\ Held = 0 /\ own_line' /\ tty = <<>>) => line = <<>>]_vars

\* What zsh takes for a slot came from the session: "a local buffer comparison that
\* cannot drift".
SlotBufIsASlot == slot_buf = <<>> \/ OneSlot(slot_buf)
=============================================================================
