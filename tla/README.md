# goulash in TLA+

goulash wraps a shell in a pseudo-terminal, reserves a few rows for itself and
answers `#` questions with a language model.  Three things run side by side: the
user's shell, the session's poll loop, and an engine worker thread that talks to
a model server.  Nearly everything that can go wrong in it goes wrong between two
of them, and that is what these modules are about.

Contents: [the system](#the-system), [the modules](#the-modules),
[the runs](#the-runs), [departures](#departures), [fairness](#fairness),
[the proofs](#the-proofs), [what is left](#not-modelled).

## The system

| part | state it keeps | operations | hard because | correct when |
|---|---|---|---|---|
| **engine worker** `engine.rs` (`worker`) | newest ask, pending research, backfill, digest queue, the bound model | drain the channel, then one ask, one research or one digest | one thread serves two lanes; control commands pre-empt it through a flag shared with the session | cancelled work stays cancelled, the newest ask wins, queues are bounded and ordered, nothing queued is forgotten, the indicators tell the truth |
| **engine handle** `engine.rs` (`Engine`) | job sender, the `preempt` flag | ask, research, digest, cancels, `set_*`, `rebind`, lists | a control call is two steps: raise the flag, send the job | a command is heard soon, and stops only what it is meant to |
| **wake pipe** `engine.rs` (`notify`), `session.rs` | a pipe of bytes beside the event channel | write one byte per event, poll, read a chunk, drain the channel | bytes and events are not one to one, the pipe fills, the worker dies | no wakeup is lost, and nothing announced is lost with the worker |
| **painting and the hold** `session.rs` | layout, last rows, `dirty`, `winch_at`, `handback` | paint, skip, settle, insure, hold and release keys | output, resizes, menus and keys interleave; the paint that returns the keyboard may be skipped | keys are neither lost nor reordered, the screen catches up |
| **crash fuse** `state.rs`, `session.rs` | four marks in `state.toml`, a copy per session | busy, idle, promote, probation, veto | driven by late events; the process dies; sessions share the file | the model a run died on is not bound by itself again |
| **working context** `context.rs`, `session.rs` | pins, their texts, cooking flags | pin, drop, clear, cancel, kick, apply a result | a result comes back seconds later, to a pin that may have changed | a text belongs to what it is attached to; no meter runs for ever |
| **ingest cache** `pincache.rs` | texts on disk, by content | load, store, evict | outlives the session | a hit is what a cook would give |
| **two lanes in the session** `session.rs` | band, `vend_id`, `slow_after_fast`, `slow_asks`, held findings | asks, commands, answers, findings | events carry no ask id | an answer lands on the question it answers |
| **suggestion history** `session.rs` | `sug_hist`, browse index | push, browse, walk, amend | pushed at the head while browsed by index | what is typed is what was shown, and only goulash's own is killed |
| **menus and settings** `session.rs`, `config.rs` | menu items, cursor, field, filter; the live settings | open, fill, move, commit, step back | a read may hold several keys; lists are filled by events and overtaken by answers; row names repeat | a choice reaches its row, its key and its lane; one step back is one step back |
| **lane bindings** `engine.rs` (`probe_models`, `pick_model`, `announce`) | a server and a model per lane, the worker's copy of the options | probe, bind late, rebind, split | servers come and go, jobs and events are late | what is shown is what is bound, what is named is what answers |
| **mark filter** `osc.rs` | bytes of an unfinished mark | feed | marks split anywhere | a mark is heard wherever it was cut |
| **memory** `memory.rs` | numbered slots, a limit | add, delete, modify, limit | rewritten by answers under an open list | what is forgotten is what was shown |
| **shell adapters** `shell/` | widgets and hooks in zsh and bash | emit marks, request and take suggestions | runs in the user's line editor | a pull is answered, a suggestion is taken only when asked for |
| **working bar** `session.rs`, `status.rs` | whose bar, its shrink, its fade | start, hand over, end, compose | drawn because time passed | goes out, and tells the truth while it runs |
| **pure parts** `vendor.rs`, `sense.rs`, `wire.rs`, `models.rs`, rows of `status.rs`, `facts.rs` | none | parse, look up, format | data, not control | |
| **single-shot parts** `configcli.rs`, `integrate.rs`, `pty.rs`, `term.rs`, `record.rs`, `stats.rs`, `bench/` | files | load, save, set up | no concurrency of their own | |

The session calls the engine through the handle; the worker answers through the
event channel and rings the wake pipe.  The session alone writes to the shell
(keys, suggestions) and to the terminal (the shell's output, its own rows), and it
alone touches the fuse, the pins, the memory, the history and the settings.  `state.toml`,
`memory.toml` and the ingest cache are shared with every other session of the
user.

`PROJECT.json` lists every component with its status, every hazard with its line
and the properties that would catch it, and for every definition the lines it
models.

## The modules

**EngineWorker** is the worker thread and the handle.  `pc` is where the thread
is in its loop: `boot` (probing), `top` (the receive, or the poll when something is
queued), `bind` (late binding), `clear` (`preempt.store(false)`), `drain`, `drained`,
`ask`, `pick`, `research`, `digest`, and the three prewarms.  The steps are as fine as
the shared state requires: clearing the flag, each job drained, each generation's
start, yield and end are steps of their own, and so are the two halves of a control
call.  A job is its kind and the number of its call.  `verdict` is how each call was
closed; `told` is what a reader of the event stream believes of the lane indicators.
What a model answers is a choice: an answer, an error, nothing worth saying.
**EngineContract** is what the session may rely on: one generation at a time, every
call closed at most once, in a way that fits what happened to it.  EngineWorker
implements it.

**WakePipe** is the delivery of events: the channel's length, the bytes in the
pipe, the worker owing a byte, and the session's poll, read and drain.
**WorkingBar** is composed on it: each of its steps that touches the channel is a
step of WakePipe (`Notify`, `Drain`, the hangup), and the events have content, the
generation before and after.  `Starts`, `Ends` and `Says` are the worker's sends;
`Receives` is the session's handler of Busy and Idle, with its branches for a lane
that takes over, a bar that is shrinking and work nobody asked for; `Ticks` is the
repaint that composes the bar and clears it, `Time` the two clocks it looks at,
`Toggles` the setting.  `doing` and `hushed` are history.

**PaintLoop** is the part of the session's loop that decides when to paint: `dirty`,
what was painted `last` and what would be now (`Want`), the terminal's size and
goulash's idea of it, the resize in flight, the band's damage, and the keys `held`
between a menu's close and the next paint.  A cycle of the loop is a poll followed by
the handlers in the code's order, each a step.  `how` is the manner of a session,
chosen at its start: its two debug switches, whether it has an engine, whether the
terminal signals without a change, and what the user is apt to do, and how much of it.
`swallowed` is history: a settle has found the old size and made no repaint, though one
was due.

**CrashFuse** is `state.toml` and everything that writes it: boots, clean exits and
deaths of one or two sessions, each with its copy of the marks, its worker's
generations and the events between the two.

**PinIngest** is pins, cooks and the cache.  A text is what it was cooked from and
its length, so that "the wrong text" is a state TLC can see.

**TwoLane** is the session's side of the two lanes: the band, the slot an answer has
vended (`vend_id`), the slow lane's shot (`slow_after_fast`), the turns research is
out for (`slow_asks`), the stack of suggestions (`Push`, `Landed`), the findings held
while the user reads, the relay of a finding through the fast lane, and the marks,
chat keys and events that change them.  The code's events carry no number; the
module's do, with the act (question, command, commentary) they answer, so that a
property can tell whose words landed where, and no action of the session looks at it
but to copy it.  The marks of the shell are handled whatever the focus is: the user may
have typed the line before the chat opened.  A call that interrupts is two steps and
more, the flag and then its jobs (`sending`), and the worker may run in between; the
worker itself is at the grain of a pass, the channel drained in one step.  What the
finer steps of the two can do is EngineWorker's subject.  `Plans` is what the user may
do, act by act, and the options, which are fixed at the start; menus and pins are left
out.  `asked`, `moved`, `vending`, `crossed` and `slipped` are history.

**ShellSession** is the conversation about one line: the adapter and the line editor
on one side (`Edits`), the session on the other (`Listens`), the PTY's two directions
between them (`pty`, `tty`), the user, and a stack that answers push to and findings
amend (`Vend`, `Amend`).  On zsh an arrow runs a widget that prints a mark with the
line in it and waits (`expect`) for a paste; the session finds where the line stands
in the stack (`Stands`), moves and pastes, possibly nothing.  On bash the session
reads the arrow itself, and types (`WalkBlind`) if the line is one it claims
(`own_line`, `line_touched`).  An old bash differs in that it takes no bracketed
paste: its marks leave their tails on the line, and what is between them is typed
(`ReadPasteAsKeys`).  Every read of the PTY takes any part of what is there,
through **OscFilter**, which is the filter as a function of its carry-over and a chunk.
`asked` and `mixed` are history.

**SettingsLanes** composes **SettingsMenu** (the session's menus and what a choice does)
with **LaneBinding** (the worker's bindings, an instance that shares the two channels),
over **MemoryStore** (the store as a value, its verbs as operators).  A step at the
keyboard is one read: `AfterKeys` folds the keys of a chunk over the menu, as the code
matches them all before it acts, and `Applied` then carries out what they asked for in
the code's fixed order: the field, the browser, the commit, the way up or in.  The
worker's step is one control job (`Serve`), with the late binding that comes before the
first of a drain; a server starts or stops between any two steps.  The settings table
keeps one row for each way the code has of applying one, and each lane's rows where the
names repeat; `file` is what `persist_key` left in `config.toml`, and `AtNextStart` what
`Config::load` makes of it, which is nothing at all of a file with text where it wants
a number (`Readable`).

Each module that needs model values for its instance has an MC module that names
them.  Definitions marked `Mutant:` are plausible mistakes, used to confirm that a
property notices them; no specification uses them.

## The runs

| run | question | bounds |
|---|---|---|
| `engine` | whatever is asked, cancelled and interrupted, do the queues keep their order and their bounds, do the indicators tell the truth, is the contract kept, is every call closed, does the thread end? | 3 calls of any kind, the last of them no query, or 4 that research and cancel, against a backfill of 2 (four researches drained together overflow it); prewarming and streaming, fair worker |
| `wake_pipe` | is any event lost or unheard, does the bar tell the truth and go out? | 5 events, a pipe of 3, reads of 2: the pipe fills, and a read leaves bytes; work of both lanes, asked for and not; 1 change of the setting; the worker may die anywhere |
| `paint` | is any key lost or reordered, does the screen catch up? | 2 outputs, 1 event, in three manners: 1 key and 2 resizes, there and back within the settle time included; 3 keys, 1 signal, a guarded column, no engine, signals without a change; 3 keys, 1 resize, handoffs and typing ahead |
| `fuse_marks` | does the mark follow the worker, is the fallback a model that answered, is the culprit avoided? | 2 sessions, 3 boots, 2 generations, 1 choice, 2 models |
| `pins_truth` | does every text match its pin, do meters stop? | 2 paths, 2 pins, 3 verbs, 1 edit, 2 sessions, a cache of 1, fair worker and session |
| `two_lanes` | is the shot for the question at hand, does every finding find its place, does nobody speak over or for another, does the stack keep still under the reader? | 2 acts of any kind, the commentary on a command not counted, on all rungs of `opt_slow` and with relays on the highest; or a chat opened, a command typed before it, and a message in the chat; 2 commands up to symmetry; a stack of 2 |
| `settings` | is every choice applied, saved and told where its row says, is one step back one step back, is what is shown what is bound, is what is forgotten what was shown? | every group of rows, `#/debug` and three more menus from the prompt as well; reads of one key or of a burst of two; texts and filters of up to 2 letters; 2 changes, the last of which ends the keys, and 1 menu opened; two servers, neither up at first, which start and stop twice; an answer that rewrites a full store |
| `browse` | is every pull answered, does a step start from what the line holds, is only goulash's own killed, can a suggestion press Enter? | zsh, bash and an old bash, 2 commands, one of them spanning lines; a stack of 2, 2 events that change it; 3 keys at the line and any number in a chat; every cut of every read |
| `fuse_closed`, `pins_stale`, `menu_custom`, `blind_ahead` | what a comment promises and the code does not do | see [departures](#departures) |

Two acts are what it takes to supersede a question, to run a command after one, or to
browse an answer while research for another comes home.  Three acts of any kind are too
many states for one run; the three that are there are what arms a shot under a chat and
overtakes it, and the safety theorems about the acts hold for any number.  Two
changes are what it takes to undo one, or to change both lanes; one menu opened is
enough because every menu below it is reached from it.  Three keys are a pull, a key
typed across it and a second pull.  A mark is seven atoms at most here, and
`MaxPending` is eight: a mark longer than the carry-over is lost, and `ExpectResolves`
then fails, as the code's own constant (8192 bytes against the length of a line) accepts.

The bounds are on what the outside does (calls, keys, verbs, boots); the program's
own queues are bounded by them.  Each is the least at which the case in question
happens with one more actor to disturb it, and the mutants confirm that the case
does happen: a property is kept only if a mistake in the code breaks it under the
same configuration.  Deadlock is not checked: a user who has used up the bound on
calls, keys or boots leaves every one of these systems at rest.

Some properties are stated of what the code does get right, with the case it does
not get right named: `KeysInOrder` while nobody hands off or types ahead, and
`ContentShown` without a guarded column (`how`) and unless a settle swallowed the repaint
(`swallowed`); the texts' truth until a path is pinned again with its ingest under way (`raced`);
`NextBootAvoids` until two sessions run at once (`crowded`); `WordsOfTheirTurn` until
the command or answer of one act is handled while another's is awaited (`crossed`);
`SupersededIsDoomed` of the newest question, not of the newest command, and with the
flag up unless a pass drained between flag and cancel (`slipped`);
`ShotIsForTheLastAct` but for a shot armed under a chat, which newer questions may
overtake (`ahead`); `LineageStill` but for a clear typed ahead; `BarGoesOut` unless the
worker died at work (`Stranded`); `KillsItsOwnOnly`, on bash, of lines that were fresh,
and `OnlyEnterRuns` but for a handoff to an old bash (`mixed`, `TakesPaste`);
`PersistsWhatItApplies` while the file can be read (`Readable`); `LanesNotCrossed` but
for the Rebind that a new slow provider sends.
The next section says what happens in the cases left out.

## Departures

Four runs check one sentence of the source against what the code does, and find it
violated.

- `fuse_closed`: a shell closed during a generation is taken for a crash at the
  next boot.
- `pins_stale`: a file pinned again while its ingest runs gets the old content's
  digest, cached under the new content's key.
- `menu_custom`: a number typed into the custom field of a logging or context row is
  stored as the length of the working bar's slide.
- `blind_ahead`: on bash, what the user typed before the prompt's mark was read is on
  the line, and the first Down types a suggestion behind it.

More can be reproduced by changing a configuration.

- **One flag for every interrupt.**  `NeverStrands` in `engine.cfg`: raised while
  the worker drains, the flag aborts an ask submitted *after* the command it was raised
  for, in silence, against the comment on `interrupt`.
- **A cancel that comes late.**  `SupersededIsDoomed` without `slipped`, in
  `two_lanes.cfg`: `supersede` raises the flag and then sends (engine.rs 444-447); a
  worker that lowers the flag (625), drains and starts the older research in between
  runs it to its end, against "abandon it and drop anything queued behind it".
- **A shot armed under a chat.**  `ShotIsForTheLastAct` without `ahead`, in
  `two_lanes.cfg`: a command typed before the chat opened ends while it is open and arms
  the shot (session.rs 3342); a message in the chat (4857) does not disarm it, and its
  answer sends the slow lane after the command.  In the same way a clear typed ahead
  empties the stack under a selection, which is what `LineageStill` lets by.
- **The keyboard not handed back.**  `KeyboardReturned` in `paint.cfg`, with
  `MaxOutputs = 1` and no events: a menu opened and closed between two paints leaves nothing to repaint, and the keys stay held
  until something else changes the band.
- **Keys out of order.**  `KeysInOrder` without its condition, in `paint.cfg`: a handoff
  writes past the held keys; with five keys, the close of a second menu discards the
  keys held since the first.
- **A repaint swallowed.**  `ContentShown` without `swallowed`: the idle pass skips the
  paint for a resize in flight and clears `dirty` all the same (session.rs 5740-5755);
  the settle finds the size as it was (3692), after a resize there and back or a SIGWINCH
  without a change, and paints nothing.  Without `how.wrapGuard`: a cursor left in the
  last column defers every paint.
- **Two sessions, one fuse.**  `fuse_closed.cfg` with `Sessions <- TwoSessions`: a second
  session's boot during a generation reads the first one's mark as a death.
- **Answers carry no number.**  `WordsOfTheirTurn` without `~crossed`, in `two_lanes.cfg`:
  a question that is not the band's (a chat message, a name given to `#@`, a finding
  relayed) leaves `vend_id` at the last answer's slot, and an answer of words alone
  replaces the words of that slot.  `SupersededIsDoomed` with `moved` in place of
  `asked`: a command run after `#?` cancels the research only if the worker's
  `Researching` has been handled by then.
- **The bar after a death.**  `BarGoesOut` without `Stranded`, in `wake_pipe.cfg`: a worker
  that dies at work leaves `fast_busy` set and the bar running for ever, against
  "must not outlive itself".  `WearsTheLaneItLeaves`: research that starts while an older
  research's bar shrinks fades from the fast lane's colour.
- **A remembered line.**  `SlotBufIsASlot` in `browse.cfg`: an empty paste over the user's
  own text is remembered as a suggestion, so that the next Up asks goulash instead of
  the history.  `ExpectResolves` with `MaxPending = 3`: a lost mark is a shell that waits.
- **The other picker's list.**  `PickerListsItsOwnServer` in `settings.cfg`, with the groups
  and menus of the two lanes alone (`Kinds = {"Settings", "Model", "SlowModel"}`),
  `MaxOpens = 3`, `MaxChanges = 4`, no commands, answers or filter: a list of models
  answered late fills whatever picker is open by then, with another server's models.

- **A file that cannot be read.**  `PersistsWhatItApplies` without `Readable`, in
  `settings.cfg`: a drop-down left open over a field that took a number offers the
  rows of the root, and a pick (an empty Enter is one) saves its text under
  `working_bar_step_ms` or `working_bar_grow_ms` (session.rs 4315-4325).  At the next
  start `Config::load` ignores the whole file (config.rs 685-689), so that every row is
  back at its default, until the bar's row is picked again.
- **The slow provider takes the fast model.**  `LanesNotCrossed` without the exception:
  a value picked on the slow lane's `provider` row sends a Rebind (session.rs 4206-4210),
  which clears the fast lane's model and probes for one (engine.rs 705-708).
- **A suggestion that runs itself.**  `OnlyEnterRuns` without its second alternative, in
  `browse.cfg`: a chat's handoff (session.rs 4876-4880) wraps the command in a bracketed
  paste, which the comment on `type_line` (343-347) says bash 3.2 does not understand, and
  does not refuse a line break: of a command that spans lines the first is run.

Met while modelling, and kept as the code has them: a rebind probes through the server
resolved at the start, whatever the provider row says by then; `auto` on a slow row is
sent to the worker as a word, and `auto` in the fast picker binds a model of that name;
a limit above 200 is cut in silence; `#/memory modify` may make two slots alike;
`#?/model` does not change what the slow lane's row shows; the loss of the engine leaves
`fast_busy` as it was; a second Down before the first paste is read pastes twice, a
character typed between the two is killed with the first; Alt-Down with a stale index
lets Up or ^U wipe what the user typed; a chat's handoff uses the index of a turn as the
index of a slot, and does not claim the line; a chat's selection, and the slot a chip names, shift when an answer is pushed.

## Fairness

The worker is weakly fair: it is a thread that is never descheduled for ever and
whose every request has a deadline.  The second half of a control call is fair
because it is the next statement.  The session's loop is fair because its poll has a
timeout at every turn, and the settle clock, the bar's shrink and its fade because
time passes.  A generation of WorkingBar ends because a request has a deadline, unless
its worker dies.  In ShellSession the session's reads and a line editor at its prompt
are fair, the user, the running command and the model are not.  SettingsLanes claims no
liveness.  Nothing is assumed of the user, the other sessions, or of a worker that
dies: the liveness properties name the exceptions (`closed`, `orphaned`, `Stranded`).
`MeterGoesOut` is of a user who stops issuing verbs, as the bound on verbs makes every
user here: the worker serves its channel before its queue.

## The proofs

| theorem | states | rests on |
|---|---|---|
| `TypeCorrect` (EngineWorkerProofs) | `Spec => []TypeOK` | the types alone |
| `QueueInvariant`, `CancelledStaysCancelled`, `BackfillBounded` | `[]QueueInv`, `[]NoRevival`, `[]BackfillInOrder` | `QueueInv` |
| `IndicatorsHonest` | `[]LanesHonest` | `TypeOK` |
| `NewestWins`, `OneAhead` | `[]NewestAskWins`, `[]OneBackgroundAhead` | `AskInv`, `AheadInv` |
| `WorkerKeepsContract` (EngineContractProofs) | `KeepsContract`, the refinement of EngineContract | `Placed`: where an open call can be |
| `WakeupNeverLost`, `LastWordsHeard` (WorkingBarProofs) | `[]NoLostWakeup`, `[]HangupLosesNothing` | `WakeInvariant` |
| `BarKeepsThePipe`, `BarIsHonest` | `BarSpec => Spec` and the pipe's two properties; `[]WaveTellsTheTruth` | a step refinement; `Chain`, `FastBusyIsHeard` |
| `ChoiceStands`, `RowTells` (SettingsLanesProofs) | `[]NothingOverrulesTheChoice`, `[]RowShowsBinding` | inductive as it stands; `RowInv` |
| `Persisted`, `WorkerHears` | `[]PersistsWhatItApplies`, `[]WorkerHeardTheRow` | `SavedInv`: one induction for the two |
| `Returns`, `LanesApart` | `ReturnsWhereItCameFrom`, `LanesNotCrossed` | `TreeInv`; `TreeInv` and `SavedInv` |
| `ForgetsTheShown` | `ForgetsWhatItShowed` | `StoreInv`, over `TreeInv` |
| `FuseTypeCorrect`, `FallbackAnswered` (CrashFuseProofs) | `[]TypeOK`, `[]LastGoodSurvived` | `IInv`: bindings are announced, answers vouched for |
| `MarkIsTheWorkers`, `CulpritAvoided` | `[]MarkFollowsWorker`, `[]NextBootAvoids` | `MarkInv`, and `Grudge` over it |
| `PinsTyped`, `MeterIsAnswered`, `IdsAreNotReused`, `TextsAreTrue` (PinIngestProofs) | `[]TypeOK`, `[]CookingIsComing`, `[]ResultsFindTheirPin`, `[]TextsAreOfTheirPin` | `PinInv`: one induction for the four |
| `ShotFollowsTheUser`, `SupersededDies` (TwoLaneProofs) | `[]ShotIsForTheLastAct`, `[]SupersededIsDoomed` | `IInv`: `Order`, `Shot`, `Doom` |
| `CommentaryDefers` | `CommentaryYields` | `BandIsHeard` |
| `FindingsLand`, `WordsAreTheirs`, `ReadersUndisturbed` | `[]FindingsComeHome`, `[]WordsOfTheirTurn`, `LineageStill` | `Home`; `Words` over it; `Order` |
| `NoKeyLost` (PaintLoopProofs) | `[]KeysInOrder` | an invariant on who may hold keys |

They hold for every value of the constants under the named assumptions of the
modules.  `NoRevival` is not inductive: that the pending job is newer than the last
cancel drained says nothing of the job the worker is about to drain.  `InOrder` is
what is missing: the channel is filled in call order and drained in that order, so
everything still in it, or just received, is newer than everything kept and than the
last cancel.  `BackfillInOrder` needs the same fact, since a job enters the backfill
from the pending slot when a newer one arrives.

The refinement has to show that no call is closed twice.  A call closed is one the
worker has in a queue or in hand, so it is enough that every such call is still open
(`AllOpen`), that a number is one call's (`Numbered`), and that a call is in one place
at a time (`Apart`): then whatever a step closes is gone from every place after it, and
nothing left behind was touched.  The queues are kept apart by the kinds of their
jobs, the channel by `InOrder`.  A step that moves a call is a stutter, and the rest
are four shapes, a submission, a refusal, a start and an end, each a lemma that every
action is shown to be an instance of.

`NoLostWakeup` is strengthened by what the session knows in the middle of its poll.
The bar's honesty is a statement about events heard; `Chain` says that each event in
the channel starts from what the one before it ended in, the first from what the
session believes and the last in what the worker does, which is what makes the one
boolean the session keeps (`fast_busy`) a truth about the events.  `NoKeyLost` needs to
say that nobody but the hold's owner has keys to write while something is held.

`LastGoodSurvived` speaks of a file several sessions write, and the model written to
it comes from a late event: an Answer promotes the model of the last Ready handled,
while the answer was generated by whatever was bound some time before.  The
invariant follows the queue of events.  `Believes(now, q, k, m)` says that a session
which believes `now` will believe `m` after the first `k` events of `q`;
`Announced`, that after all of them it believes what its worker is bound to;
`Vouched`, that the model believed when an Answer is handled has answered.  The
lemmas say how belief changes as the queue grows at one end and shrinks at the
other, and that there is one belief at a time, which makes the model an Answer will
promote the one that gave it.

A shot goes off when an answer comes, however late, and sends a research job with no
cancel before it.  That it is for the last act is what `Shot` carries, from the marks
that disarm it and those that arm it: `moved` and the shot change together, and a chat,
which changes neither, opens by a mark and so without a shot, unless one is armed in
it later.  `Doom` says that nothing on its way to be sent is stale, and that a cancel, in
the channel or about to be sent, comes with the flag up, which only a pass lowers.  The
pass finds every stale job in front of a cancel (`Covered`) and keeps none of them, or it
drained before the cancel was sent, and is the one recorded (`slipped`).

`NewestAskWins` compares the asks displaced with the ask that displaced them, and is
not inductive for the same reason as `NoRevival`: `AskOrder` adds that what was
displaced is older than everything still to come.  `OneBackgroundAhead` counts what
starts while an ask waits; `AheadInv` says that an ask still in the channel has at most
one ahead of it, and none at all while the worker, having drained, has not started
anything: the drain takes everything that waited.

`MarkFollowsWorker` uses the same reading of the queue of events as `LastGoodSurvived`,
for what a session will have marked (`Marked`).  `NextBootAvoids` is about the file
between sessions; `Grudge` says where the suspect is while they run one at a time: the
mark a death left behind, or the distrust a boot made of it, in the file and in the
running session's copy alike.

The three properties of the pins fail together, so they are proved together.  A meter,
an id and a text are matched through the job in flight, wherever it is, in the channel, in
the worker's queue, in hand or in a result: `Fits` says that a pin that cooks has such
a job of the kind, that a job with a pin's id is for the pin's path and, while no path
was pinned in mid-ingest, about what the pin holds; `Numbered`, that ids are not given
again; `Told`, that a text is of what its job was about.

A finding comes home if its turn is still in `slow_asks`, and a turn leaves that set
when its finding lands.  `Home` therefore says that a turn is in one place at a time
(`Apart`), once in that place, and that the slot in the making is not one that was
asked about: two findings of a turn would find the first one's entry gone.  `Words`
stands on it: what research carries home is the turn's own, each slot's number is its
own, and the shot is of the act that vends.

`RowShowsBinding` speaks of nothing under way; `RowInv` of what is: the last Ready in
the channel names the binding, or there is none and the row already shows it.

`WorkerHeardTheRow` speaks of options drained, so `SavedInv` says of the jobs on their
way that the last word about a row agrees with the row.  That a value is applied, saved
and sent alike is not the menus' merit: each of the many paths does its own three
things, and a value that stands for "unset" takes another.  So `SavedInv` also says
what a menu can offer (`PickFits`): a drop-down is of a row that is no switch, and
each of its lines stands for a value.  Both halves are carried through a read of any
number of keys (`Pressed`), whatever that read asks for (`Settled`), and each
way the session has of applying it.

The three action properties of the menus are about what a read of keys may do, so
their invariants say what menus there are.  `TreeInv` says that only a menu opened from
a row of the settings has a parent, that only the settings have groups, and that what a
list offers fits the group it is of: groups are offered at the root alone, and no row of
the root opens a list.  A read asks for a step back, and never for the
prompt, while the menu has somewhere to go back to (`Heads`), and a child can only appear
over a group (`Near`); so every way out of such a menu leads to where it came from
(`Came`).  `LanesNotCrossed` then is a matter of what each
step of `Applied` may touch (`Confined`): a drop-down's row is of its parent's lane, a
picker binds the lane it was opened from, and each of the ways to apply a row writes,
saves and sends under the row's own group.  A Rebind sent for a slow row is excused by
the provider sent with it (`Paired`, `Excused`).

`ForgetsWhatItShowed` compares a list with a store that answers rewrite under it.
`StoreInv` says that whoever has an id the open list names is listed (`Tells`).  It
survives an answer because ids only grow (`Grown`): what the store holds after any
number of FORGETs and REMEMBERs it held before, or was numbered since the list was made.
It would not survive `modify`, which gives an id another note, and that verb exists
at the prompt only, where no list is open.

Some loops of the code are counted loops over a sequence: `kick_digests` over the pins,
the landing of what was held, the rows a filter or a deletion keeps (`Only`), the keys
of a read (`AfterKeys`), the lines of an answer (`Rewrite`).  They are written as
recursive functions, and what they leave is proved by taking a least counterexample,
from the well-foundedness of the naturals (`WFMin`).

The assumptions on SettingsLanes' constants are what the session finds at its start: a
stored memory has given each slot an id below its next one (`StoredAssumption`; the
store of `memory.toml` is read back as it was written), commands and answers are of the
forms the parser lets through, every server has a model to offer, and the servers the
code names are among them.

**Checked and not proved.**  The liveness properties (`EverySettles`, `WorkerExits`,
`EveryEventHandled`, `BarGoesOut`, `ContentShown`, `GeometryApplied`, `MeterGoesOut`):
fairness is beyond the prover.  All of ShellSession (`ExpectResolves`, `WalksByTheLine`,
`KillsItsOwnOnly`, `OnlyEnterRuns`), which `browse` checks on its three shells.  The four
violations are runs by their nature.

**To prove next.**  Of ShellSession, that only Enter runs, from the marks and pastes
under way being the editor's own; and that only goulash's own lines are killed.

## Not modelled

What a model says, the text of prompts and rows, the wire formats, the capability
table, the parsing of keys and of the configuration file, the vendors' heuristics,
recording, statistics, machine facts, the set-up of terminal and PTY, installation, the
benchmark harness and the tests.  They hold data rather than control, or run once
before anything is concurrent; `PROJECT.json` gives the reason for each.  Two things
have control and are left out because the code has no answer to them: several sessions
writing one `memory.toml`, and a crash in the middle of a file's write.
