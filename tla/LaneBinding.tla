----------------------------- MODULE LaneBinding -----------------------------
(***************************************************************************)
(* Which model and which server each lane of the engine worker is bound to *)
(* (src/src/engine.rs, src/src/config.rs): the backend resolved at start,  *)
(* the probe that picks a model, and the control jobs that rebind a lane.  *)
(* What the worker generates with a binding is module EngineWorker.        *)
(*                                                                         *)
(* A server is named by the wire it speaks; its host never changes.  What  *)
(* a server has installed is fixed, whether it answers is not.             *)
(***************************************************************************)
EXTENDS Naturals, Sequences, SequencesExt, FiniteSetsExt

CONSTANTS
  Inventory,   \* server -> the models it lists, in its own order
  Bytes,       \* model -> resident size
  ClearsFloor, \* the models known to have at least MIN_AUTO_PARAMS_B parameters
  Favorites,   \* the favorites of the configuration, in order
  Named,       \* [engine] model of the configuration, or None
  SlowNamed,   \* [engine.slow_lane] model, or None
  Flaky,       \* the servers that start or stop while the session runs
  MaxFlips     \* how often a server starts or stops in one behaviour

Servers == DOMAIN Inventory
Ollama  == "ollama"          \* the wire auto tries first, and the only one with sizes
OpenAi  == "openai"
None    == "none"

Provider(lane) == <<lane, "provider">>
Fast == "fast lane"
Slow == "slow lane"

VARIABLES
  answering, \* the servers that answer right now
  flips,     \* how often that changed
  jobs,      \* the control jobs the session has sent
  events,    \* the events the session has not read
  conf,      \* the worker's copy of the options: <<group, row>> -> value
  chosen,    \* cfg.model: the fast model somebody named, or None
  client,    \* the server the fast lane was resolved to
  bound,     \* state: the fast lane's model, or None
  split,     \* the slow Lane, when it is not the fast binding
  draining   \* between taking a job and finding the channel empty

worker == <<conf, chosen, client, bound, split, draining>>
world  == <<answering, flips>>

Shared == [on |-> FALSE, client |-> OpenAi, model |-> None]

\* slow_lane(): the fast lane with the overrides applied over it.
SlowProvider(c) == IF c[Provider(Slow)] = None THEN c[Provider(Fast)] ELSE c[Provider(Slow)]
SlowModel       == IF SlowNamed = None THEN chosen ELSE SlowNamed

\* lanes_split(): an override is set and it makes a difference.
LanesSplit(c) == SlowProvider(c) # c[Provider(Fast)] \/ SlowModel # chosen

\* A named provider is honoured without asking; auto asks ollama.
ResolveBackend(provider) ==
  IF provider \in Servers THEN provider
  ELSE IF Ollama \in answering THEN Ollama ELSE OpenAi

Smallest(models) == CHOOSE m \in models : \A n \in models : Bytes[m] <= Bytes[n]

\* Mutant: a favorite wins over the model somebody named.
PickFavorite(server, named) ==
  LET installed == ToSet(Inventory[server])
      favored   == SelectSeq(Favorites, LAMBDA f : f \in installed)
  IN  IF favored # <<>> THEN favored[1]
      ELSE IF named # None THEN named
      ELSE Smallest(installed)

\* Named model, first installed favorite, then the size ladder where sizes are known.
PickModel(server, named) ==
  LET installed == ToSet(Inventory[server])
      favored   == SelectSeq(Favorites, LAMBDA f : f \in installed)
  IN  IF named # None THEN named
      ELSE IF favored # <<>> THEN favored[1]
      ELSE IF server # Ollama THEN Inventory[server][1]
      ELSE Smallest(IF installed \cap ClearsFloor # {} THEN installed \cap ClearsFloor ELSE installed)

ProbeModels(server, named) == IF server \in answering THEN PickModel(server, named) ELSE None

Event(k, model, list) == [k |-> k, model |-> model, list |-> list]

\* announce: which model, and then what it can do.
Announce(model) == <<Event("Ready", model, <<>>), Event("Caps", model, <<>>)>>

AnnounceIf(model) == IF model = None THEN <<>> ELSE Announce(model)

WorkerInit(answers, options) ==
  /\ answering = answers
  /\ flips = 0
  /\ jobs = <<>>
  /\ conf = options
  /\ chosen = Named
  /\ client = ResolveBackend(conf[Provider(Fast)])
  /\ bound = ProbeModels(client, chosen)
  /\ split = IF LanesSplit(conf)
             THEN LET s == ResolveBackend(SlowProvider(conf))
                  IN  [on |-> TRUE, client |-> s, model |-> ProbeModels(s, SlowModel)]
             ELSE Shared
  /\ events = AnnounceIf(bound)
  /\ draining = FALSE

\* Late binding: the first job of a drain re-probes for an unbound fast lane.
BoundAtWake == IF ~draining /\ bound = None THEN ProbeModels(client, chosen) ELSE bound
WakeEvents  == IF BoundAtWake # bound THEN Announce(BoundAtWake) ELSE <<>>

Take(kind) ==
  /\ jobs # <<>>
  /\ Head(jobs).k = kind
  /\ jobs' = Tail(jobs)
  /\ draining' = TRUE
  /\ UNCHANGED world

SetFastModel ==
  /\ Take("SetModel")
  /\ IF BoundAtWake # None
     THEN /\ bound' = Head(jobs).v
          /\ chosen' = Head(jobs).v
          /\ events' = events \o WakeEvents \o Announce(Head(jobs).v)
     ELSE UNCHANGED <<bound, chosen, events>>
  /\ UNCHANGED <<conf, client, split>>

\* Naming a slow model splits the lanes; the lane is probed before it is named.
SetSlowModel ==
  /\ Take("SetSlowModel")
  /\ LET server == ResolveBackend(SlowProvider(conf))
         lane   == IF split.on THEN split
                   ELSE [on |-> TRUE, client |-> server, model |-> ProbeModels(server, SlowModel)]
     IN  split' = IF lane.model = None THEN lane ELSE [lane EXCEPT !.model = Head(jobs).v]
  /\ bound' = BoundAtWake
  /\ events' = events \o WakeEvents
  /\ UNCHANGED <<conf, chosen, client>>

SetOption ==
  /\ Take("SetOption")
  /\ conf' = [conf EXCEPT ![Head(jobs).key] = Head(jobs).v]
  /\ bound' = BoundAtWake
  /\ events' = events \o WakeEvents
  /\ UNCHANGED <<chosen, client, split>>

\* Mutant: the new binding is not announced.
RebindQuietly ==
  /\ Take("Rebind")
  /\ chosen' = None
  /\ bound' = ProbeModels(client, None)
  /\ events' = events \o WakeEvents
  /\ UNCHANGED <<conf, client, split>>

\* Rebind forgets the choice and probes again, through the client it has.
Rebind ==
  /\ Take("Rebind")
  /\ chosen' = None
  /\ bound' = ProbeModels(client, None)
  /\ events' = events \o WakeEvents \o AnnounceIf(bound')
  /\ UNCHANGED <<conf, client, split>>

\* The slow picker lists the slow lane's server when there is one.
ListModels ==
  /\ \/ Take("ListModels")
     \/ Take("ListSlowModels")
  /\ LET own   == Head(jobs).k = "ListSlowModels" /\ split.on
         known == IF own THEN split.model # None ELSE BoundAtWake # None
         from  == IF own THEN split.client ELSE client
     IN  events' = events \o WakeEvents
                   \o (IF known THEN <<Event("Models", None, Inventory[from])>> ELSE <<>>)
  /\ bound' = BoundAtWake
  /\ UNCHANGED <<conf, chosen, client, split>>

\* try_recv found nothing: the next job is the first of a new drain.
DrainEnds ==
  /\ draining /\ jobs = <<>>
  /\ draining' = FALSE
  /\ UNCHANGED <<world, jobs, events, conf, chosen, client, bound, split>>

Serve == SetFastModel \/ SetSlowModel \/ SetOption \/ Rebind \/ ListModels \/ DrainEnds

ServerFlips ==
  /\ flips < MaxFlips
  /\ flips' = flips + 1
  /\ \E s \in Flaky : answering' = (answering \ {s}) \cup ({s} \ answering)
  /\ UNCHANGED <<jobs, events, worker>>
==============================================================================
