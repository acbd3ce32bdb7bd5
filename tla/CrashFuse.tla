----------------------------- MODULE CrashFuse -----------------------------
(***************************************************************************)
(* The model crash fuse (src/src/state.rs) and its callers in the session  *)
(* (src/src/session.rs).  Each session keeps a copy of the marks, reads    *)
(* state.toml once, when it boots, and writes the whole file back on every *)
(* change; every session on the machine shares the file.  The marks are    *)
(* driven by the worker's events, which the session handles some time      *)
(* after the worker sent them, and a session can die between any two       *)
(* steps.  Writes to the file are taken to be atomic and to succeed.       *)
(***************************************************************************)
EXTENDS Naturals, Sequences

CONSTANTS
  Sessions,      \* goulash processes of one user
  Models,        \* installed models
  SlowModels,    \* those the slow lane may use
  None,          \* Option::None
  MaxBoots, MaxGens, MaxChoices,   \* bounds on boots, generations, `#/model`
  MaxPending     \* bound on the events a session has yet to handle

ASSUME BoundsAssumption == {MaxBoots, MaxGens, MaxChoices, MaxPending} \subseteq Nat
ASSUME ModelsAssumption == SlowModels \subseteq Models /\ None \notin Models

MaybeModel == Models \cup {None}
Marks == [loading : MaybeModel, probation : MaybeModel, distrusted : MaybeModel,
          last_good : MaybeModel]
NoMarks == [loading |-> None, probation |-> None, distrusted |-> None, last_good |-> None]
Gen   == [model : Models, asked : BOOLEAN]
NoGen == [model |-> None, asked |-> FALSE]
Event == [kind : {"Ready", "Busy", "Idle", "Answer"}, model : MaybeModel]

VARIABLES
  disk,       \* state.toml
  default,    \* engine.model in config.toml
  \* per session
  up,         \* running
  mem,        \* the StateFile it holds
  target,     \* cfg.model of its worker: the model asked for by name
  bound,      \* the model its worker is bound to
  wish,       \* a set_model (or rebind, "auto") its worker has yet to drain
  gen,        \* what its worker is generating
  events,     \* sent and not yet handled
  shown,      \* engine_model
  \* history and bounds
  done,       \* models that have completed an answer
  slain,      \* models some session was killed with marked
  suspect,    \* the last mark a session left behind, until the model is retried
  crowded,    \* two sessions have run at once
  boots, gens, choices

local   == <<up, mem, target, bound, wish, gen, events, shown>>
history == <<done, slain, suspect, crowded, boots, gens, choices>>
vars    == <<disk, default, local, history>>

TypeOK ==
  /\ disk \in Marks /\ default \in MaybeModel
  /\ up \in [Sessions -> BOOLEAN] /\ mem \in [Sessions -> Marks]
  /\ target \in [Sessions -> MaybeModel] /\ bound \in [Sessions -> MaybeModel]
  /\ wish \in [Sessions -> MaybeModel \cup {"auto"}]
  /\ gen \in [Sessions -> Gen \cup {NoGen}]
  /\ events \in [Sessions -> Seq(Event)] /\ shown \in [Sessions -> MaybeModel]
  /\ done \subseteq Models /\ slain \subseteq Models /\ suspect \in MaybeModel /\ crowded \in BOOLEAN
  /\ boots \in 0 .. MaxBoots /\ gens \in 0 .. MaxGens /\ choices \in 0 .. MaxChoices
  /\ \A s \in Sessions : gen[s] # NoGen => up[s] /\ bound[s] # None

Init ==
  /\ disk = NoMarks /\ default \in MaybeModel
  /\ up = [s \in Sessions |-> FALSE] /\ mem = [s \in Sessions |-> NoMarks]
  /\ target = [s \in Sessions |-> None] /\ bound = [s \in Sessions |-> None]
  /\ wish = [s \in Sessions |-> None] /\ gen = [s \in Sessions |-> NoGen]
  /\ events = [s \in Sessions |-> <<>>] /\ shown = [s \in Sessions |-> None]
  /\ done = {} /\ slain = {} /\ suspect = None /\ crowded = FALSE
  /\ boots = 0 /\ gens = 0 /\ choices = 0

-----------------------------------------------------------------------------
(* StateFile: what each call makes of the marks *)

Loaded(marks) ==
  IF marks.loading = None THEN marks
  ELSE [marks EXCEPT !.loading = None, !.distrusted = marks.loading]

Busied(marks, model) == [marks EXCEPT !.loading = model]

\* Mutant: the mark stays until an answer.
IdledLate(marks) == marks

Idled(marks) == [marks EXCEPT !.loading = None]

Promoted(marks, model) ==
  [loading    |-> None,
   probation  |-> IF marks.probation = model THEN None ELSE marks.probation,
   distrusted |-> IF marks.distrusted = model THEN None ELSE marks.distrusted,
   last_good  |-> model]

OnProbation(marks, model) ==
  [marks EXCEPT !.probation = model,
                !.distrusted = IF @ = model THEN None ELSE @]

\* Mutant: last_good as it is, even when it is the vetoed model itself.
VettedUnfiltered(marks) ==
  IF default # None /\ default = marks.distrusted THEN marks.last_good ELSE default

\* The model to ask for by name: the default, or the fallback of a veto.
Vetted(marks) ==
  IF default # None /\ default = marks.distrusted
  THEN IF marks.last_good # default THEN marks.last_good ELSE None
  ELSE default

\* Every caller saves when, and only when, the marks changed.
Save(s, marks) ==
  /\ mem' = [mem EXCEPT ![s] = marks]
  /\ disk' = IF marks # mem[s] THEN marks ELSE disk

-----------------------------------------------------------------------------
(* A session's life *)

\* probe_models: the model asked for, or whatever pick_model finds, or nobody
\* answers.
Probed(model) == (IF model # None THEN {model} ELSE Models) \cup {None}

ReadyEvents(model) == IF model = None THEN <<>> ELSE <<[kind |-> "Ready", model |-> model]>>

Boot(s) ==
  /\ ~up[s] /\ boots < MaxBoots
  /\ boots' = boots + 1
  /\ up' = [up EXCEPT ![s] = TRUE]
  /\ mem' = [mem EXCEPT ![s] = Loaded(disk)]
  /\ disk' = Loaded(disk)
  /\ target' = [target EXCEPT ![s] = Vetted(Loaded(disk))]
  /\ \E model \in Probed(target'[s]) :
       /\ bound' = [bound EXCEPT ![s] = model]
       /\ events' = [events EXCEPT ![s] = ReadyEvents(model)]
  /\ shown' = [shown EXCEPT ![s] = None]
  /\ crowded' = (crowded \/ \E t \in Sessions : up[t])
  /\ UNCHANGED <<default, wish, gen, done, slain, suspect, gens, choices>>

Stop(s) ==
  /\ up[s] /\ up' = [up EXCEPT ![s] = FALSE]
  /\ bound' = [bound EXCEPT ![s] = None] /\ wish' = [wish EXCEPT ![s] = None]
  /\ gen' = [gen EXCEPT ![s] = NoGen] /\ events' = [events EXCEPT ![s] = <<>>]
  /\ shown' = [shown EXCEPT ![s] = None]
  /\ suspect' = IF mem[s].loading = None THEN suspect ELSE mem[s].loading
  /\ UNCHANGED <<disk, default, mem, target, done, crowded, boots, gens, choices>>

\* The shell exits and the session returns: the fuse is not told.
Leave(s) == Stop(s) /\ UNCHANGED slain

\* The process, or the machine, dies.
Die(s) == Stop(s) /\ slain' = slain \cup ({mem[s].loading} \ {None})

\* `#/model` and the picker; `save` makes it the default and a retry.
Choose(s, model, save) ==
  /\ up[s] /\ choices < MaxChoices /\ wish[s] = None
  /\ choices' = choices + 1
  /\ wish' = [wish EXCEPT ![s] = model]
  /\ IF save
     THEN /\ default' = IF model = "auto" THEN None ELSE model
          /\ IF model = "auto" THEN UNCHANGED <<mem, disk>>
             ELSE LET marks == OnProbation(mem[s], model)
                  IN  mem' = [mem EXCEPT ![s] = marks] /\ disk' = marks
          /\ suspect' = IF model = suspect THEN None ELSE suspect
     ELSE UNCHANGED <<default, mem, disk, suspect>>
  /\ UNCHANGED <<up, target, bound, gen, events, shown, done, slain, crowded, boots, gens>>

-----------------------------------------------------------------------------
(* Its worker *)

Tell(s, new) ==
  /\ Len(events[s]) + Len(new) <= MaxPending
  /\ events' = [events EXCEPT ![s] = @ \o new]

\* The worker drains the choice: SetModel only if something is bound, Rebind
\* by probing again.
Rebind(s) ==
  /\ up[s] /\ wish[s] # None /\ gen[s] = NoGen
  /\ wish' = [wish EXCEPT ![s] = None]
  /\ \/ /\ wish[s] = "auto"
        /\ target' = [target EXCEPT ![s] = None]
        /\ \E model \in Probed(None) :
             bound' = [bound EXCEPT ![s] = model] /\ Tell(s, ReadyEvents(model))
     \/ /\ wish[s] # "auto" /\ bound[s] # None
        /\ target' = [target EXCEPT ![s] = wish[s]] /\ bound' = [bound EXCEPT ![s] = wish[s]]
        /\ Tell(s, ReadyEvents(wish[s]))
     \/ wish[s] # "auto" /\ bound[s] = None /\ UNCHANGED <<target, bound, events>>
  /\ UNCHANGED <<disk, default, up, mem, gen, shown, history>>

\* Late binding.
Bind(s) ==
  /\ up[s] /\ bound[s] = None
  /\ \E model \in Probed(target[s]) \ {None} :
       bound' = [bound EXCEPT ![s] = model] /\ Tell(s, ReadyEvents(model))
  /\ UNCHANGED <<disk, default, up, mem, target, wish, gen, shown, history>>

\* A warm, a digest or an ask on the fast lane, or research on either.
Generate(s) ==
  /\ up[s] /\ gen[s] = NoGen /\ bound[s] # None /\ gens < MaxGens
  /\ gens' = gens + 1
  /\ \E model \in {bound[s]} \cup SlowModels, asked \in BOOLEAN :
       /\ asked => model = bound[s]
       /\ gen' = [gen EXCEPT ![s] = [model |-> model, asked |-> asked]]
       /\ Tell(s, <<[kind |-> "Busy", model |-> model]>>)
  /\ UNCHANGED <<disk, default, up, mem, target, bound, wish, shown, done, slain, suspect, crowded,
                 boots, choices>>

\* Idle first, and an answer after it if there is one.
Finish(s) ==
  /\ gen[s] # NoGen
  /\ gen' = [gen EXCEPT ![s] = NoGen]
  /\ LET idle == [kind |-> "Idle", model |-> None]
     IN  \/ Tell(s, <<idle>>) /\ UNCHANGED done
         \/ /\ gen[s].asked
            /\ Tell(s, <<idle, [kind |-> "Answer", model |-> None]>>)
            /\ done' = done \cup {gen[s].model}
  /\ UNCHANGED <<disk, default, up, mem, target, bound, wish, shown, slain, suspect, crowded, boots, gens,
                 choices>>

-----------------------------------------------------------------------------
(* The session's event handlers *)

\* Mutant: promote what the worker is bound to by now.
PromoteeNow(s) == bound[s]

\* Answer promotes engine_model, the last Ready handled.
Promotee(s) == shown[s]

Handle(s) ==
  /\ events[s] # <<>>
  /\ events' = [events EXCEPT ![s] = Tail(@)]
  /\ LET ev == Head(events[s])
     IN  \/ /\ ev.kind = "Ready"
            /\ shown' = [shown EXCEPT ![s] = ev.model]
            /\ UNCHANGED <<mem, disk, suspect>>
         \/ /\ ev.kind = "Busy"
            /\ Save(s, Busied(mem[s], ev.model))
            /\ UNCHANGED <<shown, suspect>>
         \/ /\ ev.kind = "Idle"
            /\ Save(s, Idled(mem[s]))
            /\ UNCHANGED <<shown, suspect>>
         \/ /\ ev.kind = "Answer" /\ Promotee(s) # None
            /\ Save(s, Promoted(mem[s], Promotee(s)))
            /\ suspect' = IF suspect = Promotee(s) THEN None ELSE suspect
            /\ UNCHANGED shown
         \/ /\ ev.kind = "Answer" /\ Promotee(s) = None
            /\ UNCHANGED <<mem, disk, suspect, shown>>
  /\ UNCHANGED <<default, up, target, bound, wish, gen, done, slain, crowded, boots, gens,
                 choices>>

-----------------------------------------------------------------------------
Next == \E s \in Sessions :
  \/ Boot(s) \/ Leave(s) \/ Die(s)
  \/ \E model \in Models \cup {"auto"}, save \in BOOLEAN : Choose(s, model, save)
  \/ Rebind(s) \/ Bind(s) \/ Generate(s) \/ Finish(s) \/ Handle(s)

Spec == Init /\ [][Next]_vars

-----------------------------------------------------------------------------
(* Properties *)

\* "Last model that completed a generation": the landing place of the fuse is
\* a model that did complete an answer, whatever was rebound while the answer
\* was on its way and whichever session wrote last.
LastGoodSurvived == disk.last_good \in done \cup {None}

\* A session's mark is its worker's generation as soon as it has handled the
\* worker's events: set for every load, cleared after every one, however a
\* rebind, a cancel or an empty answer ended it.
MarkFollowsWorker ==
  \A s \in Sessions : up[s] /\ events[s] = <<>> => mem[s].loading = gen[s].model

\* As long as sessions run one at a time, the model the last one left marked is
\* not asked for by name at any later boot, whatever else was generated,
\* promoted or vetoed since, until the user insists on it or it answers.
NextBootAvoids ==
  [][\A s \in Sessions :
       ~up[s] /\ up'[s] /\ ~crowded' => target'[s] = None \/ target'[s] # suspect]_vars

\* "An in-flight mark that survives to the next boot means that run died with
\* the model on the hook".
DistrustMeansDeath == disk.distrusted \in slain \cup {None}
=============================================================================
