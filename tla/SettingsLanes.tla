---------------------------- MODULE SettingsLanes ----------------------------
(***************************************************************************)
(* The settings of a running session: the menus of module SettingsMenu,    *)
(* the engine worker of module LaneBinding that rebinds what they choose,  *)
(* and the two channels between them.  A key, an event and a job are       *)
(* handled one at a time and in any order the channels allow.              *)
(***************************************************************************)
EXTENDS SettingsMenu

CONSTANTS Inventory, Bytes, ClearsFloor, Favorites, Named, SlowNamed, Flaky, MaxFlips,
          Stored,    \* the memory store the session loads
          Names,     \* the models a command names
          Kinds,     \* the menus this instance opens
          Commands,  \* the #/memory commands typed
          Answers,   \* <<forgets, notes>> pairs the model answers with
          Reachable  \* the sets of servers that may answer at the start

ASSUME InventoryAssumption ==
  /\ {"ollama", "openai"} \subseteq DOMAIN Inventory
  /\ \A s \in DOMAIN Inventory : Inventory[s] # <<>>
ASSUME ChunksAssumption == Chunks \subseteq Seq([k : STRING, c : STRING])
ASSUME KindsAssumption == Kinds \subseteq {"Settings", "Debug", "Help", "Memory", "Pins", "Model", "SlowModel"}
\* What earlier sessions saved: each slot was given the next id when it was added.
ASSUME StoredAssumption ==
  /\ Stored \in [enabled : BOOLEAN, limit : Nat, next : Nat, slots : Seq([id : Nat, text : Seq(STRING)])]
  /\ \A i \in DOMAIN Stored.slots : Stored.slots[i].id < Stored.next
ASSUME CommandsAssumption == \A c \in Commands : c.verb \in {"on", "off", "limit", "add", "delete", "modify"}
ASSUME AnswersAssumption  == \A a \in Answers : a[1] \in Seq(Nat) /\ a[2] \in Seq(Seq(STRING))
ASSUME FlipsAssumption == MaxFlips \in Nat /\ Flaky \subseteq DOMAIN Inventory

VARIABLES answering, flips, conf, chosen, client, bound, split, draining

Worker == INSTANCE LaneBinding WITH
            jobs <- jobs, events <- events,
            answering <- answering, flips <- flips, conf <- conf, chosen <- chosen,
            client <- client, bound <- bound, split <- split, draining <- draining

workerVars  == <<answering, flips, conf, chosen, client, bound, split, draining>>
sessionVars == <<menu, live, file, store, pins, shown, slowShown, probation, engine, changes, opens>>
vars        == <<sessionVars, jobs, events, workerVars>>

Init ==
  /\ SessionInit(TRUE, Named, SlowNamed, Stored)
  /\ \E up \in Reachable : Worker!WorkerInit(up, [k \in Told |-> live[k]])

AtKeyboard ==
  \/ \E chunk \in Chunks, readable \in (IF menu.kind = "Pins" THEN BOOLEAN ELSE {TRUE}) : MenuKeys(chunk, readable)
  \/ \E kind \in Kinds : OpenMenu(kind)
  \/ \E name \in Names \cup {"auto"}, save \in BOOLEAN : NameModel(name, save)
  \/ \E name \in Names : NameSlowModel(name)
  \/ \E c \in Commands : MemoryCommand(c)

FromEngine == ReadEvent \/ EngineLost \/ \E a \in Answers : AnswerRewrites(a[1], a[2])

Next ==
  \/ AtKeyboard /\ UNCHANGED workerVars
  \/ FromEngine /\ UNCHANGED workerVars
  \/ engine /\ Worker!Serve /\ UNCHANGED sessionVars
  \/ Worker!ServerFlips /\ UNCHANGED sessionVars

Spec == Init /\ [][Next]_vars

----------------------------------------------------------------------------
(* Safety.                                                                 *)

\* Where in the tree a menu is: its own group, or the row it was opened for.
In(m, lane) == lane \in {m.group, m.parent.group}

\* One step back is one step back.  A menu that was opened from the settings
\* tree, or a group of it, never throws the user out to the shell, whatever
\* keys arrive in one read; and a picker or a drop-down that goes away leaves
\* the user in the group it was opened from (session.rs, nav_up).
ReturnsWhereItCameFrom ==
  [][(menu # NoMenu /\ HasWayUp(menu) /\ menu' # menu) =>
        /\ menu' # NoMenu
        /\ (menu.parent # NoParent /\ menu'.kind = "Settings") => menu'.group = menu.parent.group]_vars

\* What is chosen for one lane never reaches the other one: from the slow
\* lane's rows, drop-downs and picker no setting, saved value, option or model
\* of the fast lane changes, and the reverse.  Row names repeat across the
\* lanes (session.rs: a row is (group, name), everywhere).  The code makes one
\* exception, and it is the only one: a provider picked for the slow lane comes
\* with a Rebind, which the worker takes for the fast lane, forgetting the
\* model named for it and probing again (engine.rs, Job::Rebind).
Sent       == SubSeq(jobs', Len(jobs) + 1, Len(jobs'))
TellsSlowProvider(job) == job.k = "SetOption" /\ job.key = <<"slow lane", "provider">>
Untouched(lane) == \A k \in Keys : k[1] = lane => live'[k] = live[k] /\ file'[k] = file[k]
LanesNotCrossed ==
  [][(menu # NoMenu /\ menu' # menu /\ Len(jobs') >= Len(jobs)) =>
       /\ In(menu, "slow lane") =>
            /\ Untouched("fast lane") /\ file'[ModelKey] = file[ModelKey]
            /\ \A i \in DOMAIN Sent : Sent[i].k # "SetModel" /\ (Sent[i].k = "SetOption" => Sent[i].key[1] = "slow lane")
            /\ (\E i \in DOMAIN Sent : Sent[i].k = "Rebind") => \E i \in DOMAIN Sent : TellsSlowProvider(Sent[i])
       /\ In(menu, "fast lane") =>
            /\ Untouched("slow lane") /\ slowShown' = slowShown
            /\ \A i \in DOMAIN Sent : Sent[i].k # "SetSlowModel" /\ (Sent[i].k = "SetOption" => Sent[i].key[1] = "fast lane")]_vars

\* What the next start reads from config.toml is what this session runs with,
\* in every row, the bar's among them: as long as the file can be read.  It
\* cannot while one of the bar's rows holds the text of another row, which a
\* drop-down saves there when a typed field left the settings rows in it
\* (session.rs, bar_rate_ms); then nothing of it is read, and once that row is
\* picked again everything is.
PersistsWhatItApplies == Readable => \A k \in Keys : AtNextStart(k) = live[k]

\* Once the worker has drained its jobs, its copy of every option is what the
\* row shows.  A slow row back on auto is the exception the code makes: the
\* session drops the override, the worker keeps the word.
WorkerHeardTheRow ==
  (engine /\ \A i \in DOMAIN jobs : jobs[i].k # "SetOption") =>
     \A k \in Told : conf[k] = live[k] \/ (live[k] = Absent /\ conf[k] = "auto")

\* With nothing under way, the model row names the model that answers.
RowShowsBinding ==
  (engine /\ jobs = <<>> /\ events = <<>> /\ bound # Absent) => shown = bound

\* Nothing overrules a model somebody named: not a probe, not a favorite, not
\* a server that came up late (engine.rs, pick_model).
NothingOverrulesTheChoice == (chosen # Absent /\ bound # Absent) => bound = chosen

\* What a menu makes the store forget is what its list showed: the same id
\* with the same note, whatever the model's answers forgot or wrote since the
\* list was made (memory.rs: ids are not reused).
ForgetsWhatItShowed ==
  [][(menu # NoMenu /\ menu' # menu) =>
        \A i \in DOMAIN store.slots :
           store.slots[i].id \notin SlotIds(store') => SlotRow(store.slots[i]) \in ToSet(menu.items)]_vars

----------------------------------------------------------------------------
(* What comments of the source say and the code does not do.               *)

\* session.rs: one place knows what each setting means; a number typed into a
\* row's field lands in that row and in no other.
TypedLandsInItsRow ==
  [][(menu.typing /\ menu.composeRow \in Numeric) =>
        \A k \in Keys : live'[k] # live[k] => k[2] = menu.composeRow]_vars

\* session.rs: the research picker is filled from the research server's
\* inventory.
PickerListsItsOwnServer ==
  (menu.kind = "SlowModel" /\ menu.loaded /\ split.on) =>
     \A i \in DOMAIN menu.items :
        menu.items[i].t = "model" => menu.items[i].n \in {"auto"} \cup ToSet(Inventory[split.client])
==============================================================================
