----------------------------- MODULE PaintLoop -----------------------------
(***************************************************************************)
(* The session's poll loop as far as painting and the keyboard go          *)
(* (src/src/session.rs run): a resize in flight suspends painting, a       *)
(* closed menu holds the keyboard until the next paint, output may damage  *)
(* the band, and an idle pass repaints what changed.  One pass of the loop *)
(* is six steps in the code's order, and the terminal, the user and the    *)
(* shell act between any two of them.  Chat focus is not modelled.         *)
(***************************************************************************)
EXTENDS Naturals, Sequences

CONSTANTS
  MaxKeys, MaxOutputs, MaxEvents, MaxWinches,  \* bounds on the inputs
  Geometries,    \* the sizes the terminal may have
  Manners        \* how a session may go, see Manner

Manner == [keys        : 0 .. MaxKeys,      \* how much is typed
           winches     : 0 .. MaxWinches,   \* how often the terminal signals
           engine      : BOOLEAN,   \* there is one, and it sends events
           noOpWinch   : BOOLEAN,   \* SIGWINCH may come with no change of size
           wrapGuard   : BOOLEAN,   \* debug.wrap_guard
           idleRepaint : BOOLEAN,   \* debug.idle_repaint
           handoffs    : BOOLEAN,   \* the user presses Alt-Down, or Down on a blind shell
           typeAhead   : BOOLEAN]   \* the user types on before a `#/` line has been answered

ASSUME BoundsAssumption   == {MaxKeys, MaxOutputs, MaxEvents, MaxWinches} \subseteq Nat
ASSUME GeometryAssumption == Geometries # {}
ASSUME MannersAssumption  == Manners \subseteq Manner /\ Manners # {}

VARIABLES
  how,       \* the manner of this session
  \* the world
  term,      \* the terminal's size
  winched,   \* a byte in the SIGWINCH pipe
  outputs, events, winches, pressed,   \* inputs so far
  typed,     \* keys typed at the line (not at a menu)
  shell,     \* keys the shell has been given, in order
  opened,    \* how many of them the shell had read when it last asked for a menu
  \* the loop
  pc, ready,
  layout,    \* layout.real
  winch,     \* winch_at: "none", "fresh" or "ripe" (60 ms old)
  menu,      \* a menu is open
  body,      \* stands for everything else compose_rows reads
  last,      \* last_rows
  band,      \* "good": the screen shows last_rows; or "damaged"
  dirty, deferred, touched,
  wrap,      \* the inner cursor is in the last column
  holding, held,  \* handback: Some or None, and its bytes
  \* history
  swallowed  \* a settle found the size unchanged, and since then nothing has been painted
             \* though something was to be

world  == <<term, winched, outputs, events, winches>>
keys   == <<pressed, typed, shell, opened, holding, held>>
screen == <<layout, last, band, swallowed>>
flags  == <<dirty, deferred, touched>>
vars   == <<how, world, pc, ready, winch, menu, body, wrap, keys, screen, flags>>

Want == [menu |-> menu, body |-> body]

TypeOK ==
  /\ how \in Manners
  /\ term \in Geometries /\ layout \in Geometries
  /\ winched \in BOOLEAN /\ winch \in {"none", "fresh", "ripe"}
  /\ outputs \in 0 .. MaxOutputs /\ events \in 0 .. MaxEvents /\ winches \in 0 .. MaxWinches
  /\ pressed \in 0 .. MaxKeys /\ typed \in 0 .. pressed
  /\ shell \in Seq(1 .. MaxKeys) /\ held \in Seq(1 .. MaxKeys) /\ opened \in 0 .. Len(shell)
  /\ pc \in {"poll", "master", "winch", "settle", "stdin", "engine", "idle"}
  /\ ready \in SUBSET {"master", "winch", "stdin", "engine"}
  /\ menu \in BOOLEAN /\ body \in BOOLEAN /\ last \in [menu : BOOLEAN, body : BOOLEAN]
  /\ band \in {"good", "damaged"}
  /\ {dirty, deferred, touched, wrap, holding, swallowed} \subseteq BOOLEAN
  /\ ~holding => held = <<>>

Init ==
  /\ how \in Manners
  /\ term \in Geometries /\ layout = term
  /\ winched = FALSE /\ winch = "none"
  /\ outputs = 0 /\ events = 0 /\ winches = 0 /\ pressed = 0 /\ typed = 0
  /\ shell = <<>> /\ opened = 0 /\ holding = FALSE /\ held = <<>>
  /\ pc = "poll" /\ ready = {}
  /\ menu = FALSE /\ body = FALSE /\ last = [menu |-> FALSE, body |-> FALSE] /\ band = "good"
  /\ dirty = FALSE /\ deferred = FALSE /\ touched = FALSE /\ wrap = FALSE
  /\ swallowed = FALSE

-----------------------------------------------------------------------------
(* The terminal and the clock *)

\* Reflow moves the band; the signal comes with it.
Resize ==
  /\ winches < how.winches
  /\ \E g \in Geometries \ {term} : term' = g
  /\ winches' = winches + 1 /\ winched' = TRUE
  /\ band' = "damaged"
  /\ UNCHANGED <<outputs, events, pc, ready, winch, menu, body, wrap, keys, layout, last, swallowed,
                 flags>>

SpuriousWinch ==
  /\ how.noOpWinch /\ winches < how.winches
  /\ winches' = winches + 1 /\ winched' = TRUE
  /\ UNCHANGED <<term, outputs, events, pc, ready, winch, menu, body, wrap, keys, screen, flags>>

\* WINCH_SETTLE_MS pass.
Age ==
  /\ winch = "fresh" /\ winch' = "ripe"
  /\ UNCHANGED <<world, pc, ready, menu, body, wrap, keys, screen, flags>>

-----------------------------------------------------------------------------
(* The redraw! macro, given winch_at, what it composes, the cursor, and what *)
(* the screen looks like if it does not paint                                *)

\* Mutant: the held keys are dropped, not written.
PaintDropsHeld(rows) ==
  /\ last' = rows /\ band' = "good" /\ deferred' = FALSE
  /\ holding' = FALSE /\ held' = <<>> /\ swallowed' = FALSE
  /\ UNCHANGED shell

Paint(rows) ==
  /\ last' = rows /\ band' = "good" /\ deferred' = FALSE
  /\ shell' = shell \o held /\ holding' = FALSE /\ held' = <<>> /\ swallowed' = FALSE

Skip(seen) == band' = seen /\ UNCHANGED <<last, shell, holding, held, swallowed>>

Redraw(at, rows, wrapped, seen) ==
  \/ at # "none" /\ Skip(seen) /\ UNCHANGED deferred
  \/ at = "none" /\ how.wrapGuard /\ wrapped /\ Skip(seen) /\ deferred' = TRUE
  \/ at = "none" /\ ~(how.wrapGuard /\ wrapped) /\ Paint(rows)

-----------------------------------------------------------------------------
(* One pass of the loop *)

\* poll(): the SIGWINCH pipe is level-triggered, the rest may have something.
Poll ==
  /\ pc = "poll"
  /\ ready' \in SUBSET {"master", "winch", "stdin", "engine"}
  /\ ("winch" \in ready') = winched
  /\ "master" \in ready' => outputs < MaxOutputs
  /\ "engine" \in ready' => how.engine /\ events < MaxEvents
  /\ "stdin"  \in ready' => pressed < how.keys
  /\ pc' = "master"
  /\ UNCHANGED <<world, winch, menu, body, wrap, keys, screen, flags>>

\* A source with nothing to read is passed over.
PassOver ==
  /\ \/ pc = "master" /\ pc' = "winch"
     \/ pc = "winch"  /\ pc' = "settle"
     \/ pc = "stdin"  /\ pc' = "engine"
     \/ pc = "engine" /\ pc' = "idle"
  /\ pc \notin ready
  /\ UNCHANGED <<world, ready, winch, menu, body, wrap, keys, screen, flags>>

\* The mark that opens a menu answers a line of keys the shell has read.
MaybeMenu ==
  \/ UNCHANGED <<menu, opened>>
  \/ /\ opened < Len(shell) /\ menu' = TRUE
     /\ opened' \in IF how.typeAhead THEN opened + 1 .. Len(shell) ELSE {Len(shell)}

\* Shell output: it moves the cursor, may carry marks (one that opens a menu
\* among them), and may be read wrongly, which is what screen_touched is for.
PlainOutput ==
  /\ pc = "master" /\ "master" \in ready
  /\ outputs' = outputs + 1
  /\ MaybeMenu /\ wrap' \in BOOLEAN /\ body' \in BOOLEAN
  /\ band' \in {band, "damaged"}
  /\ touched' = TRUE /\ dirty' = TRUE
  /\ pc' = "winch"
  /\ UNCHANGED <<term, winched, events, winches, ready, winch, pressed, typed, shell, holding, held,
                 layout, last, swallowed, deferred>>

\* Output with a sequence known to take the band with it: repaint at once.
TriggerOutput ==
  /\ pc = "master" /\ "master" \in ready
  /\ outputs' = outputs + 1
  /\ MaybeMenu /\ wrap' \in BOOLEAN /\ body' \in BOOLEAN
  /\ Redraw(winch, [menu |-> menu', body |-> body'], wrap', "damaged")
  /\ touched' = TRUE /\ dirty' = FALSE
  /\ pc' = "winch"
  /\ UNCHANGED <<term, winched, events, winches, ready, winch, pressed, typed, layout>>

\* Every SIGWINCH restarts the settle clock.
Winch ==
  /\ pc = "winch" /\ "winch" \in ready
  /\ winched' = FALSE /\ winch' = "fresh"
  /\ pc' = "settle"
  /\ UNCHANGED <<term, outputs, events, winches, ready, menu, body, wrap, keys, screen, flags>>

\* The repaint a quiet pass left to the settle, see IdlePaint, is not made.
SettledForNothing == swallowed' = (swallowed \/ (Want # last /\ ~dirty /\ ~deferred))

\* Mutant: the new size is painted for and not remembered.
SettleForgets ==
  /\ pc = "settle" /\ pc' = "stdin"
  /\ IF winch = "ripe"
     THEN /\ winch' = "none"
          /\ IF term # layout
             THEN dirty' = FALSE /\ Redraw("none", Want, wrap, band)
             ELSE SettledForNothing /\ UNCHANGED <<last, band, dirty, deferred, shell, holding, held>>
     ELSE UNCHANGED <<winch, last, band, swallowed, dirty, deferred, shell, holding, held>>
  /\ UNCHANGED <<world, ready, menu, body, wrap, pressed, typed, opened, layout, touched>>

\* The drag has gone quiet: repaint, but only if the size did change.
Settle ==
  /\ pc = "settle" /\ pc' = "stdin"
  /\ IF winch = "ripe"
     THEN /\ winch' = "none"
          /\ IF term # layout
             THEN layout' = term /\ dirty' = FALSE /\ Redraw("none", Want, wrap, band)
             ELSE SettledForNothing /\ UNCHANGED <<layout, last, band, dirty, deferred, shell,
                                                  holding, held>>
     ELSE UNCHANGED <<winch, screen, dirty, deferred, shell, holding, held>>
  /\ UNCHANGED <<world, ready, menu, body, wrap, pressed, typed, opened, touched>>

\* A key at a menu edits it or closes it, which starts the hold.
MenuKey ==
  /\ pc = "stdin" /\ "stdin" \in ready /\ menu
  /\ \/ menu' = FALSE /\ holding' = TRUE /\ held' = <<>> /\ UNCHANGED body
     \/ body' \in BOOLEAN /\ UNCHANGED <<menu, holding, held>>
  /\ pressed' = pressed + 1
  /\ dirty' = TRUE
  /\ pc' = "engine"
  /\ UNCHANGED <<world, ready, winch, wrap, typed, shell, opened, screen, deferred,
                 touched>>

\* A key at the line: to the shell, or to the hold, and nothing is dirty.
LineKey ==
  /\ pc = "stdin" /\ "stdin" \in ready /\ ~menu
  /\ typed' = typed + 1 /\ pressed' = pressed + 1
  /\ IF holding THEN held' = Append(held, typed + 1) /\ UNCHANGED shell
                ELSE shell' = Append(shell, typed + 1) /\ UNCHANGED held
  /\ pc' = "engine"
  /\ UNCHANGED <<world, ready, winch, menu, body, wrap, opened, holding, screen, flags>>

\* Alt-Down, or Down on a blind shell's fresh line: goulash types the
\* suggestion to the shell itself, hold or no hold.
Handoff ==
  /\ how.handoffs
  /\ pc = "stdin" /\ "stdin" \in ready /\ ~menu
  /\ typed' = typed + 1 /\ pressed' = pressed + 1
  /\ shell' = Append(shell, typed + 1)
  /\ dirty' = TRUE
  /\ pc' = "engine"
  /\ UNCHANGED <<world, ready, winch, menu, body, wrap, opened, holding, held, screen,
                 deferred, touched>>

\* Mutant: an event that does not ask for a repaint.
EventUnseen ==
  /\ pc = "engine" /\ "engine" \in ready
  /\ events' = events + 1
  /\ body' \in BOOLEAN
  /\ pc' = "idle"
  /\ UNCHANGED <<term, winched, outputs, winches, ready, winch, menu, wrap, keys, screen, flags>>

Event ==
  /\ pc = "engine" /\ "engine" \in ready
  /\ events' = events + 1
  /\ body' \in BOOLEAN
  /\ dirty' = TRUE
  /\ pc' = "idle"
  /\ UNCHANGED <<term, winched, outputs, winches, ready, winch, menu, wrap, keys, screen, deferred,
                 touched>>

\* Something was ready: no idle block.
Active ==
  /\ pc = "idle" /\ pc' = "poll" /\ ready # {}
  /\ UNCHANGED <<world, ready, winch, menu, body, wrap, keys, screen, flags>>

\* A quiet pass repaints if the composed rows differ from the last ones.
IdlePaint ==
  /\ pc = "idle" /\ pc' = "poll" /\ ready = {}
  /\ dirty \/ deferred
  /\ IF Want # last THEN Redraw(winch, Want, wrap, band) /\ touched' = FALSE
                    ELSE UNCHANGED <<last, band, swallowed, deferred, shell, holding, held, touched>>
  /\ dirty' = FALSE
  /\ UNCHANGED <<world, ready, winch, menu, body, wrap, pressed, typed, opened, layout>>

\* The insurance repaint, once its interval has passed: the same rows again.
Insure ==
  /\ pc = "idle" /\ pc' = "poll" /\ ready = {}
  /\ ~dirty /\ ~deferred
  /\ IF touched
     THEN /\ touched' = FALSE
          /\ band' = IF how.idleRepaint /\ winch = "none" THEN "good" ELSE band
     ELSE UNCHANGED <<touched, band>>
  /\ UNCHANGED <<world, ready, winch, menu, body, wrap, keys, layout, last, swallowed, dirty,
                 deferred>>

-----------------------------------------------------------------------------
World == Resize \/ SpuriousWinch \/ Age
Pass ==
  \/ Poll \/ PassOver \/ PlainOutput \/ TriggerOutput \/ Winch \/ Settle
  \/ MenuKey \/ LineKey \/ Handoff \/ Event \/ Active \/ IdlePaint \/ Insure
Loop  == Pass /\ UNCHANGED how
Clock == Age /\ UNCHANGED how
Next  == (World \/ Pass) /\ UNCHANGED how

Spec == Init /\ [][Next]_vars

\* The loop runs and time passes.
FairSpec == Spec /\ WF_vars(Loop) /\ WF_vars(Clock)

-----------------------------------------------------------------------------
(* Properties *)

\* No key typed at the line is lost or overtaken by a later one, across any
\* number of menus and resizes, when the user waits for a `#/` line to be
\* answered and does not have goulash type for them.
KeysInOrder ==
  ~how.handoffs /\ ~how.typeAhead => shell \o held = [i \in 1 .. typed |-> i]

\* The user gets the keyboard back: "released on THIS event, not on the
\* shell's next prompt [...] a prompt mark may never come and the input would
\* be held forever".
KeyboardReturned == holding ~> ~holding

\* What compose_rows would show ends up on the screen, unless the cursor may
\* rest in a guarded column, or the repaint was left to a settle that found
\* the size back where it was: a pass that skips painting for a resize in
\* flight forgets that it had something to paint.
ContentShown == (Want # last) ~> (Want = last \/ how.wrapGuard \/ swallowed)

\* "exactly one paint happens per resize": goulash's idea of the size catches
\* up with the terminal's.
GeometryApplied == (term # layout) ~> (term = layout)
=============================================================================
