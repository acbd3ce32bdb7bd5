--------------------------- MODULE CrashFuseProofs ---------------------------
(***************************************************************************)
(* The fuse's landing place is always a model that did answer, for any     *)
(* number of sessions on one state.toml, of models, and of events on their *)
(* way.                                                                    *)
(***************************************************************************)
EXTENDS CrashFuse, TLAPS

\* What the session will hold once it has handled the first k of the events q,
\* holding now to begin with: what the last event of the kinds it listens for
\* says, if there is one.
Latest(kinds, now, q, k, model) ==
  \/ \E j \in 1 .. k : /\ q[j].kind \in kinds /\ q[j].model = model
                       /\ \A i \in j + 1 .. k : q[i].kind \notin kinds
  \/ model = now /\ \A i \in 1 .. k : q[i].kind \notin kinds

\* What it will believe the model to be (engine_model).
Believes(now, q, k, model) == Latest({"Ready"}, now, q, k, model)

\* What it will have marked as loading: an Idle says None.
Marked(now, q, k, model) == Latest({"Busy", "Idle"}, now, q, k, model)

Good(model) == model \in done \cup {None}

\* A binding is announced: the session will have heard of it before it handles
\* anything the worker has still to send.
Announced(s) ==
  bound[s] # None => Believes(shown[s], events[s], Len(events[s]), bound[s])

\* The model that an Answer on its way will promote has answered.
Vouched(s) ==
  \A k \in DOMAIN events[s], model \in MaybeModel :
    events[s][k].kind = "Answer" /\ Believes(shown[s], events[s], k, model) => Good(model)

GoodMarks ==
  /\ Good(disk.last_good)
  /\ \A s \in Sessions : Good(mem[s].last_good)

AskedOfBound == \A s \in Sessions : gen[s].asked => gen[s].model = bound[s]

IInv ==
  /\ TypeOK /\ GoodMarks /\ AskedOfBound
  /\ \A s \in Sessions : Announced(s) /\ Vouched(s)

-----------------------------------------------------------------------------
(* The last event heard, along a queue that grows at one end and shrinks at the other *)

LEMMA LatestAppended ==
  ASSUME NEW kinds, NEW now, NEW q \in Seq(Event), NEW new \in Seq(Event), NEW model,
         NEW k \in 0 .. Len(q)
  PROVE  Latest(kinds, now, q \o new, k, model) <=> Latest(kinds, now, q, k, model)
<1>1. \A i \in 1 .. k : (q \o new)[i] = q[i]
  OBVIOUS
<1>2. QED
  BY <1>1 DEF Latest

\* Events of other kinds change nothing.
LEMMA LatestUnmoved ==
  ASSUME NEW kinds, NEW now, NEW q \in Seq(Event), NEW k \in 1 .. Len(q), NEW j \in 0 .. k, NEW model,
         \A i \in j + 1 .. k : q[i].kind \notin kinds
  PROVE  Latest(kinds, now, q, k, model) <=> Latest(kinds, now, q, j, model)
<1>1. \A i \in 1 .. k : i \in 1 .. j \/ i \in j + 1 .. k
  OBVIOUS
<1>2. \A i \in 1 .. j : i \in 1 .. k
  OBVIOUS
<1>3. ASSUME Latest(kinds, now, q, k, model) PROVE Latest(kinds, now, q, j, model)
  BY <1>1, <1>2, <1>3 DEF Latest
<1>4. ASSUME Latest(kinds, now, q, j, model) PROVE Latest(kinds, now, q, k, model)
  BY <1>1, <1>2, <1>4 DEF Latest
<1>5. QED
  BY <1>3, <1>4

\* Handling the head.
LEMMA LatestTail ==
  ASSUME NEW kinds, NEW now, NEW q \in Seq(Event), q # <<>>, NEW k \in 0 .. Len(q) - 1, NEW model,
         NEW then, then = IF Head(q).kind \in kinds THEN Head(q).model ELSE now
  PROVE  Latest(kinds, then, Tail(q), k, model) <=> Latest(kinds, now, q, k + 1, model)
<1>1. /\ Len(q) \in Nat /\ Len(q) > 0 /\ Head(q) = q[1]
      /\ \A i \in 1 .. k : Tail(q)[i] = q[i + 1]
  OBVIOUS
<1>2. \A i \in 2 .. k + 1 : i - 1 \in 1 .. k /\ Tail(q)[i - 1] = q[i]
  BY <1>1
<1>3. ASSUME Latest(kinds, then, Tail(q), k, model) PROVE Latest(kinds, now, q, k + 1, model)
  <2>1. CASE \E j \in 1 .. k : /\ Tail(q)[j].kind \in kinds /\ Tail(q)[j].model = model
                               /\ \A i \in j + 1 .. k : Tail(q)[i].kind \notin kinds
    <3>1. PICK j \in 1 .. k : /\ Tail(q)[j].kind \in kinds /\ Tail(q)[j].model = model
                              /\ \A i \in j + 1 .. k : Tail(q)[i].kind \notin kinds
      BY <2>1
    <3>2. \A i \in (j + 1) + 1 .. k + 1 : i - 1 \in j + 1 .. k /\ i \in 2 .. k + 1
      OBVIOUS
    <3>3. \A i \in (j + 1) + 1 .. k + 1 : q[i].kind \notin kinds
      BY <1>2, <3>1, <3>2
    <3>4. j + 1 \in 1 .. k + 1 /\ q[j + 1].kind \in kinds /\ q[j + 1].model = model
      BY <1>1, <3>1
    <3>5. QED
      BY <3>3, <3>4 DEF Latest
  <2>2. CASE model = then /\ \A i \in 1 .. k : Tail(q)[i].kind \notin kinds
    <3>1. \A i \in 2 .. k + 1 : q[i].kind \notin kinds
      BY <1>2, <2>2
    <3>2. CASE q[1].kind \in kinds
      BY <1>1, <2>2, <3>1, <3>2 DEF Latest
    <3>3. CASE q[1].kind \notin kinds
      <4>1. \A i \in 1 .. k + 1 : i = 1 \/ i \in 2 .. k + 1
        OBVIOUS
      <4>2. QED
        BY <1>1, <2>2, <3>1, <3>3, <4>1 DEF Latest
    <3>4. QED
      BY <3>2, <3>3
  <2>3. QED
    BY <1>3, <2>1, <2>2 DEF Latest
<1>4. ASSUME Latest(kinds, now, q, k + 1, model) PROVE Latest(kinds, then, Tail(q), k, model)
  <2>1. CASE \E j \in 1 .. k + 1 : /\ q[j].kind \in kinds /\ q[j].model = model
                                   /\ \A i \in j + 1 .. k + 1 : q[i].kind \notin kinds
    <3>1. PICK j \in 1 .. k + 1 : /\ q[j].kind \in kinds /\ q[j].model = model
                                  /\ \A i \in j + 1 .. k + 1 : q[i].kind \notin kinds
      BY <2>1
    <3>2. \A i \in j .. k : i \in 1 .. k => Tail(q)[i].kind \notin kinds
      <4>1. \A i \in j .. k : i + 1 \in j + 1 .. k + 1
        OBVIOUS
      <4>2. QED
        BY <1>1, <3>1, <4>1
    <3>3. CASE j = 1
      BY <1>1, <3>1, <3>2, <3>3 DEF Latest
    <3>4. CASE j > 1
      <4>1. j - 1 \in 1 .. k /\ Tail(q)[j - 1] = q[j]
        BY <1>2, <3>4
      <4>2. \A i \in (j - 1) + 1 .. k : i \in j .. k /\ i \in 1 .. k
        BY <3>4
      <4>3. QED
        BY <3>1, <3>2, <4>1, <4>2 DEF Latest
    <3>5. QED
      BY <3>3, <3>4
  <2>2. CASE model = now /\ \A i \in 1 .. k + 1 : q[i].kind \notin kinds
    <3>1. \A i \in 1 .. k : i + 1 \in 1 .. k + 1
      OBVIOUS
    <3>2. q[1].kind \notin kinds
      BY <2>2
    <3>3. QED
      BY <1>1, <2>2, <3>1, <3>2 DEF Latest
  <2>3. QED
    BY <1>4, <2>1, <2>2 DEF Latest
<1>5. QED
  BY <1>3, <1>4

\* It holds one thing at a time.
LEMMA LatestOne ==
  ASSUME NEW kinds, NEW now, NEW q \in Seq(Event), NEW k \in 0 .. Len(q), NEW one, NEW other,
         Latest(kinds, now, q, k, one), Latest(kinds, now, q, k, other)
  PROVE  one = other
<1>1. CASE \A i \in 1 .. k : q[i].kind \notin kinds
  BY <1>1 DEF Latest
<1>2. CASE \E i \in 1 .. k : q[i].kind \in kinds
  <2>1. PICK a \in 1 .. k : /\ q[a].kind \in kinds /\ q[a].model = one
                            /\ \A i \in a + 1 .. k : q[i].kind \notin kinds
    BY <1>2 DEF Latest
  <2>2. PICK b \in 1 .. k : /\ q[b].kind \in kinds /\ q[b].model = other
                            /\ \A i \in b + 1 .. k : q[i].kind \notin kinds
    BY <1>2 DEF Latest
  <2>3. a = b
    <3>1. a < b => b \in a + 1 .. k
      OBVIOUS
    <3>2. b < a => a \in b + 1 .. k
      OBVIOUS
    <3>3. QED
      BY <2>1, <2>2, <3>1, <3>2
  <2>4. QED
    BY <2>1, <2>2, <2>3
<1>3. QED
  BY <1>1, <1>2

\* The same of what it believes.
LEMMA BelievesAppended ==
  ASSUME NEW now, NEW q \in Seq(Event), NEW new \in Seq(Event), NEW model,
         NEW k \in 0 .. Len(q)
  PROVE  Believes(now, q \o new, k, model) <=> Believes(now, q, k, model)
  BY LatestAppended DEF Believes

LEMMA BelievesUnready ==
  ASSUME NEW now, NEW q \in Seq(Event), NEW k \in 1 .. Len(q), NEW j \in 0 .. k, NEW model,
         \A i \in j + 1 .. k : q[i].kind # "Ready"
  PROVE  Believes(now, q, k, model) <=> Believes(now, q, j, model)
  BY LatestUnmoved DEF Believes

LEMMA BelievesTail ==
  ASSUME NEW now, NEW q \in Seq(Event), q # <<>>, NEW k \in 0 .. Len(q) - 1, NEW model,
         NEW then, then = IF Head(q).kind = "Ready" THEN Head(q).model ELSE now
  PROVE  Believes(then, Tail(q), k, model) <=> Believes(now, q, k + 1, model)
  BY LatestTail DEF Believes

LEMMA BelievesOne ==
  ASSUME NEW now, NEW q \in Seq(Event), NEW k \in 0 .. Len(q), NEW one, NEW other,
         Believes(now, q, k, one), Believes(now, q, k, other)
  PROVE  one = other
  BY LatestOne DEF Believes

-----------------------------------------------------------------------------
(* Types *)

LEMMA MarksTypes ==
  ASSUME NEW marks \in Marks, NEW model \in MaybeModel
  PROVE  /\ Loaded(marks) \in Marks /\ Loaded(marks).last_good = marks.last_good
         /\ Busied(marks, model) \in Marks
         /\ Busied(marks, model).last_good = marks.last_good
         /\ Idled(marks) \in Marks /\ Idled(marks).last_good = marks.last_good
         /\ Promoted(marks, model) \in Marks /\ Promoted(marks, model).last_good = model
         /\ OnProbation(marks, model) \in Marks
         /\ OnProbation(marks, model).last_good = marks.last_good
BY DEF Marks, MaybeModel, Loaded, Busied, Idled, Promoted, OnProbation

LEMMA ReadyTypes ==
  ASSUME NEW model \in MaybeModel
  PROVE  ReadyEvents(model) \in Seq(Event)
<1>1. CASE model = None
  BY <1>1 DEF ReadyEvents
<1>2. CASE model # None
  <2>1. [kind |-> "Ready", model |-> model] \in Event
    BY DEF Event
  <2>2. QED
    BY <1>2, <2>1 DEF ReadyEvents
<1>3. QED
  BY <1>1, <1>2

LEMMA TellTypes ==
  ASSUME TypeOK, NEW s \in Sessions, NEW new \in Seq(Event), Tell(s, new)
  PROVE  /\ events' \in [Sessions -> Seq(Event)]
         /\ events' = [events EXCEPT ![s] = events[s] \o new]
<1>1. events[s] \in Seq(Event)
  BY DEF TypeOK
<1>2. events[s] \o new \in Seq(Event)
  BY <1>1
<1>3. QED
  BY <1>2 DEF TypeOK, Tell

\* A session with nothing up is not generating, and one that generates has a
\* model of the installed ones.
LEMMA GenTypes ==
  ASSUME NEW g \in Gen
  PROVE  g # NoGen /\ g.model \in Models
BY ModelsAssumption DEF Gen, NoGen
LEMMA InitTypes == Init => TypeOK
<1> SUFFICES ASSUME Init PROVE TypeOK
  OBVIOUS
<1>1. NoMarks \in Marks
  BY DEF NoMarks, Marks, MaybeModel
<1>2. NoGen \in Gen \cup {NoGen} /\ <<>> \in Seq(Event) /\ None \in MaybeModel
  BY DEF MaybeModel
<1>3. boots \in 0 .. MaxBoots /\ gens \in 0 .. MaxGens /\ choices \in 0 .. MaxChoices
  BY BoundsAssumption DEF Init
<1>4. QED
  BY <1>1, <1>2, <1>3 DEF Init, TypeOK

LEMMA BootTypes ==
  ASSUME TypeOK, NEW s \in Sessions, Boot(s)
  PROVE  TypeOK'
<1>1. Loaded(disk) \in Marks /\ Loaded(disk).last_good \in MaybeModel
  BY DEF TypeOK, Loaded, Marks, MaybeModel
<1>2. Vetted(Loaded(disk)) \in MaybeModel
  BY <1>1 DEF Vetted, TypeOK, MaybeModel
<1>3. target'[s] = Vetted(Loaded(disk)) /\ target' \in [Sessions -> MaybeModel]
  BY <1>2 DEF Boot, TypeOK
<1>4. PICK model \in Probed(target'[s]) :
        /\ bound' = [bound EXCEPT ![s] = model]
        /\ events' = [events EXCEPT ![s] = ReadyEvents(model)]
  BY DEF Boot
<1>5. model \in MaybeModel
  BY <1>2, <1>3, <1>4 DEF Probed, MaybeModel
<1>6. bound' \in [Sessions -> MaybeModel] /\ events' \in [Sessions -> Seq(Event)]
  BY <1>4, <1>5, ReadyTypes DEF TypeOK
<1>7. \A t \in Sessions : gen'[t] # NoGen => up'[t] /\ bound'[t] # None
  <2> SUFFICES ASSUME NEW t \in Sessions, gen[t] # NoGen PROVE up'[t] /\ bound'[t] # None
    BY DEF Boot
  <2>1. up[t] /\ bound[t] # None /\ t # s
    BY DEF TypeOK, Boot
  <2>2. QED
    BY <1>4, <2>1 DEF TypeOK, Boot
<1>8. /\ up' \in [Sessions -> BOOLEAN] /\ mem' \in [Sessions -> Marks] /\ disk' \in Marks
      /\ shown' \in [Sessions -> MaybeModel]
  BY <1>1 DEF TypeOK, Boot, MaybeModel
<1>9. boots' \in 0 .. MaxBoots
  BY BoundsAssumption DEF TypeOK, Boot
<1>10. crowded' \in BOOLEAN
  BY DEF TypeOK, Boot
<1>11. QED
  BY <1>3, <1>6, <1>7, <1>8, <1>9, <1>10 DEF TypeOK, Boot

LEMMA StopTypes ==
  ASSUME TypeOK, NEW s \in Sessions, Stop(s), slain' \subseteq Models
  PROVE  TypeOK'
<1>1. /\ up' \in [Sessions -> BOOLEAN] /\ bound' \in [Sessions -> MaybeModel]
      /\ wish' \in [Sessions -> MaybeModel \cup {"auto"}]
      /\ gen' \in [Sessions -> Gen \cup {NoGen}] /\ shown' \in [Sessions -> MaybeModel]
      /\ events' \in [Sessions -> Seq(Event)]
  BY DEF Stop, TypeOK, MaybeModel
<1>2. mem[s].loading \in MaybeModel
  BY DEF TypeOK, Marks
<1>3. suspect' \in MaybeModel
  BY <1>2 DEF Stop, TypeOK
<1>4. \A t \in Sessions : gen'[t] # NoGen => up'[t] /\ bound'[t] # None
  BY DEF Stop, TypeOK
<1>5. QED
  BY <1>1, <1>3, <1>4 DEF Stop, TypeOK

LEMMA ChooseTypes ==
  ASSUME TypeOK, NEW s \in Sessions, NEW model \in Models \cup {"auto"}, NEW save \in BOOLEAN,
         Choose(s, model, save)
  PROVE  TypeOK'
<1>1. wish' \in [Sessions -> MaybeModel \cup {"auto"}]
  BY DEF Choose, TypeOK, MaybeModel
<1>2. choices' \in 0 .. MaxChoices
  BY BoundsAssumption DEF Choose, TypeOK
<1>3. /\ default' \in MaybeModel /\ mem' \in [Sessions -> Marks] /\ disk' \in Marks
      /\ suspect' \in MaybeModel
  <2>1. CASE save /\ model # "auto"
    <3>1. model \in Models
      BY <2>1
    <3>2. OnProbation(mem[s], model) \in Marks
      BY <3>1, MarksTypes DEF TypeOK, MaybeModel
    <3>3. QED
      BY <2>1, <3>1, <3>2 DEF Choose, TypeOK, MaybeModel
  <2>2. CASE save /\ model = "auto"
    BY <2>2 DEF Choose, TypeOK, MaybeModel
  <2>3. CASE ~save
    BY <2>3 DEF Choose, TypeOK
  <2>4. QED
    BY <2>1, <2>2, <2>3
<1>4. \A t \in Sessions : gen'[t] # NoGen => up'[t] /\ bound'[t] # None
  BY DEF Choose, TypeOK
<1>5. QED
  BY <1>1, <1>2, <1>3, <1>4 DEF Choose, TypeOK

\* What the worker tells of a new binding.
LEMMA RebindTypes ==
  ASSUME TypeOK, NEW s \in Sessions, Rebind(s)
  PROVE  TypeOK'
<1>1. wish[s] \in MaybeModel \cup {"auto"} /\ wish[s] # None
  BY DEF Rebind, TypeOK
<1>2. wish' \in [Sessions -> MaybeModel \cup {"auto"}]
  BY DEF Rebind, TypeOK, MaybeModel
<1>3. /\ target' \in [Sessions -> MaybeModel] /\ bound' \in [Sessions -> MaybeModel]
      /\ events' \in [Sessions -> Seq(Event)]
  <2>1. CASE wish[s] = "auto"
    <3>1. PICK model \in Probed(None) :
            bound' = [bound EXCEPT ![s] = model] /\ Tell(s, ReadyEvents(model))
      BY <2>1 DEF Rebind
    <3>2. model \in MaybeModel
      BY <3>1 DEF Probed, MaybeModel
    <3>3. events' \in [Sessions -> Seq(Event)]
      BY <3>1, <3>2, ReadyTypes, TellTypes
    <3>4. QED
      BY <2>1, <3>1, <3>2, <3>3 DEF Rebind, TypeOK, MaybeModel
  <2>2. CASE wish[s] # "auto" /\ bound[s] # None
    <3>1. /\ wish[s] \in MaybeModel /\ Tell(s, ReadyEvents(wish[s]))
          /\ target' = [target EXCEPT ![s] = wish[s]] /\ bound' = [bound EXCEPT ![s] = wish[s]]
      BY <1>1, <2>2 DEF Rebind
    <3>2. events' \in [Sessions -> Seq(Event)]
      BY <3>1, ReadyTypes, TellTypes
    <3>3. QED
      BY <3>1, <3>2 DEF TypeOK
  <2>3. CASE wish[s] # "auto" /\ bound[s] = None
    BY <2>3 DEF Rebind, TypeOK
  <2>4. QED
    BY <2>1, <2>2, <2>3
<1>4. \A t \in Sessions : gen'[t] # NoGen => up'[t] /\ bound'[t] # None
  <2> SUFFICES ASSUME NEW t \in Sessions, gen[t] # NoGen PROVE up'[t] /\ bound'[t] # None
    BY DEF Rebind
  <2>1. t # s /\ up[t] /\ bound[t] # None
    BY DEF Rebind, TypeOK
  <2>2. bound'[t] = bound[t]
    BY <2>1 DEF Rebind, TypeOK
  <2>3. QED
    BY <2>1, <2>2 DEF Rebind
<1>5. QED
  BY <1>2, <1>3, <1>4 DEF Rebind, TypeOK, history

LEMMA BindTypes ==
  ASSUME TypeOK, NEW s \in Sessions, Bind(s)
  PROVE  TypeOK'
<1>1. PICK model \in Probed(target[s]) \ {None} :
        bound' = [bound EXCEPT ![s] = model] /\ Tell(s, ReadyEvents(model))
  BY DEF Bind
<1>2. model \in MaybeModel /\ model # None
  BY <1>1 DEF Probed, MaybeModel, TypeOK
<1>3. events' \in [Sessions -> Seq(Event)]
  BY <1>1, <1>2, ReadyTypes, TellTypes
<1>4. \A t \in Sessions : gen'[t] # NoGen => up'[t] /\ bound'[t] # None
  BY <1>1, <1>2 DEF Bind, TypeOK
<1>5. QED
  BY <1>1, <1>2, <1>3, <1>4 DEF Bind, TypeOK, history

LEMMA GenerateTypes ==
  ASSUME TypeOK, NEW s \in Sessions, Generate(s)
  PROVE  TypeOK'
<1>1. PICK model \in {bound[s]} \cup SlowModels, asked \in BOOLEAN :
        /\ gen' = [gen EXCEPT ![s] = [model |-> model, asked |-> asked]]
        /\ Tell(s, <<[kind |-> "Busy", model |-> model]>>)
  BY DEF Generate
<1>2. model \in Models
  BY <1>1, ModelsAssumption DEF Generate, TypeOK, MaybeModel
<1>3. <<[kind |-> "Busy", model |-> model]>> \in Seq(Event)
  <2>1. [kind |-> "Busy", model |-> model] \in Event
    BY <1>2 DEF Event, MaybeModel
  <2>2. QED
    BY <2>1
<1>4. events' \in [Sessions -> Seq(Event)]
  BY <1>1, <1>3, TellTypes
<1>5. gen' \in [Sessions -> Gen \cup {NoGen}]
  BY <1>1, <1>2 DEF TypeOK, Gen
<1>6. \A t \in Sessions : gen'[t] # NoGen => up'[t] /\ bound'[t] # None
  BY <1>1 DEF Generate, TypeOK
<1>7. gens' \in 0 .. MaxGens
  BY BoundsAssumption DEF Generate, TypeOK
<1>8. QED
  BY <1>4, <1>5, <1>6, <1>7 DEF Generate, TypeOK

LEMMA FinishTypes ==
  ASSUME TypeOK, NEW s \in Sessions, Finish(s)
  PROVE  TypeOK'
<1> DEFINE idle   == [kind |-> "Idle", model |-> None]
           answer == [kind |-> "Answer", model |-> None]
<1>1. idle \in Event /\ answer \in Event
  BY DEF Event, MaybeModel
<1>2. <<idle>> \in Seq(Event) /\ <<idle, answer>> \in Seq(Event)
  BY <1>1
<1>3. Tell(s, <<idle>>) \/ Tell(s, <<idle, answer>>)
  BY DEF Finish
<1>4. events' \in [Sessions -> Seq(Event)]
  BY <1>2, <1>3, TellTypes
<1>5. gen[s] \in Gen
  BY DEF Finish, TypeOK
<1>6. done' \subseteq Models
  BY <1>5, GenTypes DEF Finish, TypeOK
<1>7. gen' \in [Sessions -> Gen \cup {NoGen}]
  BY DEF Finish, TypeOK
<1>8. \A t \in Sessions : gen'[t] # NoGen => up'[t] /\ bound'[t] # None
  BY DEF Finish, TypeOK
<1>9. QED
  BY <1>4, <1>6, <1>7, <1>8 DEF Finish, TypeOK

LEMMA HandleTypes ==
  ASSUME TypeOK, NEW s \in Sessions, Handle(s)
  PROVE  TypeOK'
<1> DEFINE ev == Head(events[s])
<1>1. events[s] \in Seq(Event) /\ events[s] # <<>>
  BY DEF Handle, TypeOK
<1>2. Tail(events[s]) \in Seq(Event) /\ ev \in Event
  BY <1>1
<1>3. events' \in [Sessions -> Seq(Event)]
  BY <1>2 DEF Handle, TypeOK
<1>4. ev.model \in MaybeModel
  BY <1>2 DEF Event
<1>5. shown[s] \in MaybeModel /\ mem[s] \in Marks
  BY DEF TypeOK
<1>6. shown' \in [Sessions -> MaybeModel]
  BY <1>4 DEF Handle, TypeOK
<1>7. suspect' \in MaybeModel
  BY DEF Handle, TypeOK, MaybeModel
<1>8. mem' \in [Sessions -> Marks] /\ disk' \in Marks
  <2>1. CASE \E marks \in Marks : Save(s, marks)
    BY <2>1 DEF Save, TypeOK
  <2>2. CASE UNCHANGED <<mem, disk>>
    BY <2>2 DEF TypeOK
  <2>3. \/ Save(s, Busied(mem[s], ev.model)) \/ Save(s, Idled(mem[s]))
        \/ Save(s, Promoted(mem[s], shown[s])) \/ UNCHANGED <<mem, disk>>
    BY DEF Handle, Promotee
  <2>4. QED
    BY <2>1, <2>2, <2>3, <1>4, <1>5, MarksTypes
<1>9. \A t \in Sessions : gen'[t] # NoGen => up'[t] /\ bound'[t] # None
  BY DEF Handle, TypeOK
<1>10. QED
  BY <1>3, <1>6, <1>7, <1>8, <1>9 DEF Handle, TypeOK

LEMMA StepTypes ==
  ASSUME TypeOK, [Next]_vars
  PROVE  TypeOK'
<1>1. CASE UNCHANGED vars
  BY <1>1 DEF TypeOK, vars, local, history
<1>2. ASSUME NEW s \in Sessions, Boot(s) PROVE TypeOK'
  BY <1>2, BootTypes
<1>3. ASSUME NEW s \in Sessions, Leave(s) PROVE TypeOK'
  BY <1>3, StopTypes DEF Leave, TypeOK
<1>4. ASSUME NEW s \in Sessions, Die(s) PROVE TypeOK'
  <2>1. mem[s].loading \in MaybeModel
    BY DEF TypeOK, Marks
  <2>2. slain' \subseteq Models
    BY <1>4, <2>1 DEF Die, TypeOK, MaybeModel
  <2>3. QED
    BY <1>4, <2>2, StopTypes DEF Die
<1>5. ASSUME NEW s \in Sessions, NEW model \in Models \cup {"auto"}, NEW save \in BOOLEAN,
             Choose(s, model, save)
      PROVE  TypeOK'
  BY <1>5, ChooseTypes
<1>6. ASSUME NEW s \in Sessions, Rebind(s) \/ Bind(s) PROVE TypeOK'
  BY <1>6, RebindTypes, BindTypes
<1>7. ASSUME NEW s \in Sessions, Generate(s) \/ Finish(s) PROVE TypeOK'
  BY <1>7, GenerateTypes, FinishTypes
<1>8. ASSUME NEW s \in Sessions, Handle(s) PROVE TypeOK'
  BY <1>8, HandleTypes
<1>9. QED
  BY <1>1, <1>2, <1>3, <1>4, <1>5, <1>6, <1>7, <1>8 DEF Next

\* The marks, the copies, the workers and the events on their way keep their
\* types: in particular a worker generates only what some binding named.
THEOREM FuseTypeCorrect == Spec => []TypeOK
  BY InitTypes, StepTypes, PTL DEF Spec

-----------------------------------------------------------------------------
(* Announced and Vouched, session by session *)

\* A session whose queue, belief and binding a step leaves alone.
LEMMA Untouched ==
  ASSUME TypeOK, NEW t \in Sessions, Announced(t), Vouched(t), done \subseteq done',
         shown'[t] = shown[t], events'[t] = events[t], bound'[t] = bound[t]
  PROVE  Announced(t)' /\ Vouched(t)'
BY DEF Announced, Vouched, Good, Believes

\* Telling a session anything but answers.
LEMMA VouchedTold ==
  ASSUME TypeOK, NEW s \in Sessions, Vouched(s), done \subseteq done', shown'[s] = shown[s],
         NEW new \in Seq(Event), \A i \in 1 .. Len(new) : new[i].kind # "Answer",
         events'[s] = events[s] \o new
  PROVE  Vouched(s)'
<1> SUFFICES ASSUME NEW k \in DOMAIN events'[s], NEW model \in MaybeModel,
                    events'[s][k].kind = "Answer",
                    Believes(shown'[s], events'[s], k, model)
             PROVE  model \in done' \cup {None}
  BY DEF Vouched, Good
<1> DEFINE q == events[s]
<1>1. q \in Seq(Event)
  BY DEF TypeOK
<1> HIDE DEF q
<1>2. events'[s] = q \o new
  BY DEF q
<1>3. Len(q \o new) = Len(q) + Len(new) /\ k \in 1 .. Len(q) + Len(new)
  BY <1>1, <1>2
<1>4. k \in 1 .. Len(q)
  <2>1. k > Len(q) => k - Len(q) \in 1 .. Len(new) /\ (q \o new)[k] = new[k - Len(q)]
    BY <1>1, <1>3
  <2>2. QED
    BY <1>1, <1>2, <1>3, <2>1
<1>5. (q \o new)[k] = q[k]
  BY <1>1, <1>4
<1>6. Believes(shown[s], q, k, model)
  BY <1>1, <1>2, <1>4, BelievesAppended
<1>7. QED
  BY <1>1, <1>2, <1>4, <1>5, <1>6 DEF Vouched, Good, q

\* Telling it of a binding.
LEMMA ReadyTold ==
  ASSUME TypeOK, NEW s \in Sessions, Vouched(s), UNCHANGED done, shown'[s] = shown[s],
         NEW model \in MaybeModel, bound'[s] = model,
         events'[s] = events[s] \o ReadyEvents(model)
  PROVE  Announced(s)' /\ Vouched(s)'
<1>1. ReadyEvents(model) \in Seq(Event)
  BY ReadyTypes
<1>2. \A i \in 1 .. Len(ReadyEvents(model)) : ReadyEvents(model)[i].kind # "Answer"
  BY DEF ReadyEvents
<1>3. Vouched(s)'
  BY <1>1, <1>2, VouchedTold
<1>4. ASSUME model # None
      PROVE  Believes(shown'[s], events'[s], Len(events'[s]), model)
  <2> DEFINE q == events[s]
             new == [kind |-> "Ready", model |-> model]
  <2>1. q \in Seq(Event) /\ new \in Event
    BY DEF TypeOK, Event
  <2> HIDE DEF q
  <2>2. events'[s] = q \o <<new>>
    BY <1>4 DEF ReadyEvents, q
  <2>3. Len(q \o <<new>>) = Len(q) + 1 /\ (q \o <<new>>)[Len(q) + 1] = new /\ Len(q) \in Nat
    BY <2>1
  <2>4. QED
    BY <2>2, <2>3 DEF Believes, Latest
<1>5. Announced(s)'
  BY <1>4 DEF Announced
<1>6. QED
  BY <1>3, <1>5

\* Telling it of anything but a binding.
LEMMA AnnouncedTold ==
  ASSUME TypeOK, NEW s \in Sessions, Announced(s), shown'[s] = shown[s], bound'[s] = bound[s],
         NEW new \in Seq(Event), \A i \in 1 .. Len(new) : new[i].kind # "Ready",
         events'[s] = events[s] \o new
  PROVE  Announced(s)'
<1> SUFFICES ASSUME bound[s] # None
             PROVE  Believes(shown[s], events'[s], Len(events'[s]), bound[s])
  BY DEF Announced
<1> DEFINE q == events[s]
           r == q \o new
<1>1. q \in Seq(Event) /\ Believes(shown[s], q, Len(q), bound[s])
  BY DEF TypeOK, Announced
<1>2. /\ r \in Seq(Event) /\ Len(r) = Len(q) + Len(new) /\ Len(q) \in Nat /\ Len(new) \in Nat
      /\ \A i \in Len(q) + 1 .. Len(r) : r[i] = new[i - Len(q)] /\ i - Len(q) \in 1 .. Len(new)
  BY <1>1
<1>3. Believes(shown[s], r, Len(q), bound[s])
  BY <1>1, <1>2, BelievesAppended
<1>4. CASE Len(r) = 0
  BY <1>2, <1>3, <1>4
<1>5. CASE Len(r) # 0
  <2>1. \A i \in Len(q) + 1 .. Len(r) : r[i].kind # "Ready"
    BY <1>2
  <2>2. Len(r) \in 1 .. Len(r) /\ Len(q) \in 0 .. Len(r)
    BY <1>2, <1>5
  <2> HIDE DEF r
  <2>3. Believes(shown[s], r, Len(r), bound[s])
    BY <1>2, <1>3, <2>1, <2>2, BelievesUnready
  <2>4. QED
    BY <2>3 DEF r
<1>6. QED
  BY <1>4, <1>5

-----------------------------------------------------------------------------
(* The invariant *)

LEMMA InitFuse == Init => IInv
<1> SUFFICES ASSUME Init PROVE IInv
  OBVIOUS
<1>1. TypeOK
  BY InitTypes
<1>2. GoodMarks
  BY DEF Init, GoodMarks, Good, NoMarks
<1>3. AskedOfBound
  BY DEF Init, AskedOfBound, NoGen
<1>4. ASSUME NEW s \in Sessions PROVE Announced(s) /\ Vouched(s)
  <2>1. bound[s] = None /\ events[s] = <<>>
    BY DEF Init
  <2>2. DOMAIN events[s] = {}
    BY <2>1
  <2>3. QED
    BY <2>1, <2>2 DEF Announced, Vouched
<1>5. QED
  BY <1>1, <1>2, <1>3, <1>4 DEF IInv

\* A step in which a model may answer, and no mark is written.
LEMMA MarksKept ==
  ASSUME GoodMarks, done \subseteq done', UNCHANGED <<disk, mem>>
  PROVE  GoodMarks'
BY DEF GoodMarks, Good

LEMMA BootFuse ==
  ASSUME IInv, NEW s \in Sessions, Boot(s)
  PROVE  GoodMarks' /\ AskedOfBound' /\ \A t \in Sessions : Announced(t)' /\ Vouched(t)'
<1>1. Loaded(disk).last_good = disk.last_good
  BY DEF Loaded, IInv, TypeOK, Marks
<1>2. GoodMarks'
  BY <1>1 DEF IInv, TypeOK, GoodMarks, Good, Boot
<1>3. PICK model \in Probed(target'[s]) :
        /\ bound' = [bound EXCEPT ![s] = model]
        /\ events' = [events EXCEPT ![s] = ReadyEvents(model)]
  BY DEF Boot
<1>4. AskedOfBound'
  <2> SUFFICES ASSUME NEW t \in Sessions, gen[t].asked PROVE gen[t].model = bound'[t]
    BY DEF AskedOfBound, Boot
  <2>1. gen[t] # NoGen
    BY DEF NoGen
  <2>2. up[t] /\ t # s
    BY <2>1 DEF IInv, TypeOK, Boot
  <2>3. bound'[t] = bound[t]
    BY <1>3, <2>2 DEF IInv, TypeOK
  <2>4. QED
    BY <2>3 DEF IInv, AskedOfBound
<1>5. ASSUME NEW t \in Sessions PROVE Announced(t)' /\ Vouched(t)'
  <2>1. CASE t # s
    BY <1>3, <2>1, Untouched DEF IInv, TypeOK, Boot
  <2>2. CASE t = s
    <3>1. events'[s] = ReadyEvents(model) /\ bound'[s] = model /\ shown'[s] = None
      BY <1>3 DEF IInv, TypeOK, Boot
    <3>2. CASE model = None
      <4>1. DOMAIN events'[s] = {}
        BY <3>1, <3>2 DEF ReadyEvents
      <4>2. QED
        BY <2>2, <3>1, <3>2, <4>1 DEF Announced, Vouched
    <3>3. CASE model # None
      <4>1. /\ events'[s] = <<[kind |-> "Ready", model |-> model]>> /\ Len(events'[s]) = 1
            /\ events'[s][1] = [kind |-> "Ready", model |-> model] /\ DOMAIN events'[s] = {1}
        BY <3>1, <3>3 DEF ReadyEvents
      <4>2. Announced(s)'
        BY <3>1, <4>1 DEF Announced, Believes, Latest
      <4>3. Vouched(s)'
        BY <4>1 DEF Vouched
      <4>4. QED
        BY <2>2, <4>2, <4>3
    <3>4. QED
      BY <3>2, <3>3
  <2>3. QED
    BY <2>1, <2>2
<1>6. QED
  BY <1>2, <1>4, <1>5

LEMMA StopFuse ==
  ASSUME IInv, NEW s \in Sessions, Stop(s)
  PROVE  GoodMarks' /\ AskedOfBound' /\ \A t \in Sessions : Announced(t)' /\ Vouched(t)'
<1>1. GoodMarks'
  BY MarksKept DEF IInv, Stop
<1>2. AskedOfBound'
  BY DEF IInv, TypeOK, AskedOfBound, Stop, NoGen
<1>3. ASSUME NEW t \in Sessions PROVE Announced(t)' /\ Vouched(t)'
  <2>1. CASE t # s
    BY <2>1, Untouched DEF IInv, TypeOK, Stop
  <2>2. CASE t = s
    <3>1. bound'[s] = None /\ events'[s] = <<>>
      BY DEF IInv, TypeOK, Stop
    <3>2. DOMAIN events'[s] = {}
      BY <3>1
    <3>3. QED
      BY <2>2, <3>1, <3>2 DEF Announced, Vouched
  <2>3. QED
    BY <2>1, <2>2
<1>4. QED
  BY <1>1, <1>2, <1>3

LEMMA ChooseFuse ==
  ASSUME IInv, NEW s \in Sessions, NEW model \in Models \cup {"auto"}, NEW save \in BOOLEAN,
         Choose(s, model, save)
  PROVE  GoodMarks' /\ AskedOfBound' /\ \A t \in Sessions : Announced(t)' /\ Vouched(t)'
<1>1. GoodMarks'
  <2>1. CASE save /\ model # "auto"
    <3>1. model \in MaybeModel /\ mem[s] \in Marks
      BY <2>1 DEF MaybeModel, IInv, TypeOK
    <3>2. OnProbation(mem[s], model).last_good = mem[s].last_good
      BY <3>1, MarksTypes
    <3>3. QED
      BY <2>1, <3>2 DEF Choose, IInv, TypeOK, GoodMarks, Good
  <2>2. CASE ~(save /\ model # "auto")
    BY <2>2, MarksKept DEF Choose, IInv
  <2>3. QED
    BY <2>1, <2>2
<1>2. AskedOfBound'
  BY DEF IInv, AskedOfBound, Choose
<1>3. \A t \in Sessions : Announced(t)' /\ Vouched(t)'
  BY Untouched DEF IInv, Choose
<1>4. QED
  BY <1>1, <1>2, <1>3

\* A new binding, whoever asked for it.
LEMMA BindingFuse ==
  ASSUME IInv, NEW s \in Sessions, gen[s] = NoGen, NEW model \in MaybeModel,
         bound' = [bound EXCEPT ![s] = model], Tell(s, ReadyEvents(model)),
         UNCHANGED <<disk, mem, gen, shown, done>>
  PROVE  GoodMarks' /\ AskedOfBound' /\ \A t \in Sessions : Announced(t)' /\ Vouched(t)'
<1>1. GoodMarks'
  BY MarksKept DEF IInv
<1>2. AskedOfBound'
  BY DEF IInv, TypeOK, AskedOfBound, NoGen
<1>3. events' = [events EXCEPT ![s] = events[s] \o ReadyEvents(model)]
  BY ReadyTypes, TellTypes DEF IInv
<1>4. ASSUME NEW t \in Sessions PROVE Announced(t)' /\ Vouched(t)'
  <2>1. CASE t # s
    BY <1>3, <2>1, Untouched DEF IInv, TypeOK
  <2>2. CASE t = s
    <3>1. bound'[s] = model /\ events'[s] = events[s] \o ReadyEvents(model)
      BY <1>3 DEF IInv, TypeOK
    <3>2. QED
      BY <2>2, <3>1, ReadyTold DEF IInv
  <2>3. QED
    BY <2>1, <2>2
<1>5. QED
  BY <1>1, <1>2, <1>4

LEMMA RebindFuse ==
  ASSUME IInv, NEW s \in Sessions, Rebind(s)
  PROVE  GoodMarks' /\ AskedOfBound' /\ \A t \in Sessions : Announced(t)' /\ Vouched(t)'
<1>1. UNCHANGED <<disk, mem, gen, shown, done>> /\ gen[s] = NoGen
  BY DEF Rebind, history
<1>2. CASE wish[s] = "auto"
  <2>1. PICK model \in Probed(None) :
          bound' = [bound EXCEPT ![s] = model] /\ Tell(s, ReadyEvents(model))
    BY <1>2 DEF Rebind
  <2>2. model \in MaybeModel
    BY <2>1 DEF Probed, MaybeModel
  <2>3. QED
    BY <1>1, <2>1, <2>2, BindingFuse
<1>3. CASE wish[s] # "auto" /\ bound[s] # None
  <2>1. wish[s] \in MaybeModel
    BY <1>3 DEF IInv, TypeOK
  <2>2. bound' = [bound EXCEPT ![s] = wish[s]] /\ Tell(s, ReadyEvents(wish[s]))
    BY <1>3 DEF Rebind
  <2>3. QED
    BY <1>1, <2>1, <2>2, BindingFuse
<1>4. CASE wish[s] # "auto" /\ bound[s] = None
  <2>1. UNCHANGED <<bound, events>>
    BY <1>4 DEF Rebind
  <2>2. GoodMarks' /\ AskedOfBound'
    BY <1>1, <2>1, MarksKept DEF IInv, AskedOfBound
  <2>3. QED
    BY <1>1, <2>1, <2>2, Untouched DEF IInv
<1>5. QED
  BY <1>2, <1>3, <1>4

LEMMA BindFuse ==
  ASSUME IInv, NEW s \in Sessions, Bind(s)
  PROVE  GoodMarks' /\ AskedOfBound' /\ \A t \in Sessions : Announced(t)' /\ Vouched(t)'
<1>1. PICK model \in Probed(target[s]) \ {None} :
        bound' = [bound EXCEPT ![s] = model] /\ Tell(s, ReadyEvents(model))
  BY DEF Bind
<1>2. model \in MaybeModel
  BY <1>1 DEF Probed, MaybeModel, IInv, TypeOK
<1>3. gen[s] = NoGen
  BY DEF Bind, IInv, TypeOK
<1>4. UNCHANGED <<disk, mem, gen, shown, done>>
  BY DEF Bind, history
<1>5. QED
  BY <1>1, <1>2, <1>3, <1>4, BindingFuse

LEMMA GenerateFuse ==
  ASSUME IInv, NEW s \in Sessions, Generate(s)
  PROVE  GoodMarks' /\ AskedOfBound' /\ \A t \in Sessions : Announced(t)' /\ Vouched(t)'
<1>1. PICK model \in {bound[s]} \cup SlowModels, asked \in BOOLEAN :
        /\ asked => model = bound[s]
        /\ gen' = [gen EXCEPT ![s] = [model |-> model, asked |-> asked]]
        /\ Tell(s, <<[kind |-> "Busy", model |-> model]>>)
  BY DEF Generate
<1> DEFINE new == <<[kind |-> "Busy", model |-> model]>>
<1>2. model \in MaybeModel
  BY <1>1, ModelsAssumption DEF IInv, TypeOK, MaybeModel
<1>3. [kind |-> "Busy", model |-> model] \in Event
  BY <1>2 DEF Event
<1>4. new \in Seq(Event) /\ Len(new) = 1 /\ new[1].kind = "Busy"
  BY <1>3
<1>5. events' = [events EXCEPT ![s] = events[s] \o new]
  BY <1>1, <1>4, TellTypes DEF IInv
<1>6. UNCHANGED <<disk, mem, bound, shown, done>>
  BY DEF Generate
<1>7. GoodMarks'
  BY <1>6, MarksKept DEF IInv
<1>8. AskedOfBound'
  BY <1>1, <1>6 DEF IInv, TypeOK, AskedOfBound
<1>9. ASSUME NEW t \in Sessions PROVE Announced(t)' /\ Vouched(t)'
  <2>1. CASE t # s
    BY <1>5, <1>6, <2>1, Untouched DEF IInv, TypeOK
  <2>2. CASE t = s
    <3>1. events'[s] = events[s] \o new
      BY <1>5 DEF IInv, TypeOK
    <3>2. \A i \in 1 .. Len(new) : new[i].kind = "Busy"
      BY <1>4
    <3> HIDE DEF new
    <3>3. Announced(s)'
      BY <1>4, <1>6, <3>1, <3>2, AnnouncedTold DEF IInv
    <3>4. Vouched(s)'
      BY <1>4, <1>6, <3>1, <3>2, VouchedTold DEF IInv
    <3>5. QED
      BY <2>2, <3>3, <3>4
  <2>3. QED
    BY <2>1, <2>2
<1>10. QED
  BY <1>7, <1>8, <1>9

LEMMA Joined ==
  ASSUME NEW S, NEW q \in Seq(S), NEW new \in Seq(S)
  PROVE  /\ q \o new \in Seq(S) /\ Len(q) \in Nat /\ Len(q \o new) = Len(q) + Len(new)
         /\ \A i \in 1 .. Len(q) : (q \o new)[i] = q[i]
         /\ \A i \in 1 .. Len(new) : (q \o new)[Len(q) + i] = new[i]
  OBVIOUS

LEMMA JoinedWithTwo ==
  ASSUME NEW q \in Seq(Event), NEW new \in Seq(Event), Len(new) = 2
  PROVE  /\ q \o new \in Seq(Event) /\ Len(q) \in Nat /\ Len(q \o new) = Len(q) + 2
         /\ (q \o new)[Len(q) + 1] = new[1] /\ (q \o new)[Len(q) + 2] = new[2]
         /\ \A i \in 1 .. Len(q) : (q \o new)[i] = q[i]
<1> DEFINE r == q \o new
<1>1. /\ r \in Seq(Event) /\ Len(q) \in Nat /\ Len(r) = Len(q) + Len(new)
      /\ \A i \in 1 .. Len(q) : r[i] = q[i]
      /\ \A i \in 1 .. Len(new) : r[Len(q) + i] = new[i]
  BY Joined
<1> HIDE DEF r
<1>2. Len(r) = Len(q) + 2 /\ r[Len(q) + 1] = new[1] /\ r[Len(q) + 2] = new[2]
  BY <1>1
<1>3. QED
  BY <1>1, <1>2 DEF r

\* An answer comes of the model bound, and by the time the session handles it
\* it will have heard of that binding and of no later one.
LEMMA AnswerVouched ==
  ASSUME IInv, NEW s \in Sessions, gen[s] # NoGen, gen[s].asked,
         done' = done \cup {gen[s].model}, shown'[s] = shown[s],
         NEW new \in Seq(Event), Len(new) = 2, new[1].kind = "Idle", new[2].kind = "Answer",
         events'[s] = events[s] \o new
  PROVE  Vouched(s)'
<1> DEFINE q == events[s]
           r == q \o new
           n == Len(q)
<1>1. q \in Seq(Event) /\ bound[s] # None /\ bound[s] \in done'
  BY DEF IInv, TypeOK, AskedOfBound
<1>2. Believes(shown[s], q, n, bound[s])
  BY <1>1 DEF IInv, Announced
<1>3. \A k \in 1 .. n, model \in MaybeModel :
        q[k].kind = "Answer" /\ Believes(shown[s], q, k, model) => model \in done' \cup {None}
  BY <1>1 DEF IInv, Vouched, Good
<1>4. events'[s] = r
  OBVIOUS
<1> HIDE DEF q
<1>5. /\ r \in Seq(Event) /\ n \in Nat /\ Len(r) = n + 2
      /\ r[n + 1] = new[1] /\ r[n + 2] = new[2]
      /\ \A i \in 1 .. n : r[i] = q[i]
  BY <1>1, JoinedWithTwo
<1>6. \A k \in 0 .. n : \A model :
        Believes(shown[s], r, k, model) <=> Believes(shown[s], q, k, model)
  BY <1>1, BelievesAppended
<1> HIDE DEF n, r
<1>7. ASSUME NEW k \in 1 .. n + 2, NEW model \in MaybeModel,
             r[k].kind = "Answer", Believes(shown[s], r, k, model)
      PROVE  model \in done' \cup {None}
  <2>1. CASE k \in 1 .. n
    BY <1>3, <1>5, <1>6, <1>7, <2>1
  <2>2. CASE k = n + 2
    <3>1. Believes(shown[s], r, n, bound[s])
      BY <1>2, <1>5, <1>6
    <3>2. \A i \in n + 1 .. n + 2 : r[i].kind # "Ready"
      <4>1. \A i \in n + 1 .. n + 2 : i = n + 1 \/ i = n + 2
        BY <1>5
      <4>2. QED
        BY <1>5, <4>1
    <3>3. n + 2 \in 1 .. Len(r) /\ n + 2 \in 0 .. Len(r) /\ n \in 0 .. n + 2
      BY <1>5
    <3>4. Believes(shown[s], r, n + 2, bound[s])
      BY <1>5, <3>1, <3>2, <3>3, BelievesUnready
    <3>5. model = bound[s]
      BY <1>5, <1>7, <2>2, <3>3, <3>4, BelievesOne
    <3>6. QED
      BY <1>1, <3>5
  <2>3. k = n + 1 => r[k].kind # "Answer"
    BY <1>5
  <2>4. QED
    BY <1>5, <1>7, <2>1, <2>2, <2>3
<1>8. DOMAIN r = 1 .. n + 2
  BY <1>5
<1>9. QED
  BY <1>4, <1>7, <1>8 DEF Vouched, Good

LEMMA FinishFuse ==
  ASSUME IInv, NEW s \in Sessions, Finish(s)
  PROVE  GoodMarks' /\ AskedOfBound' /\ \A t \in Sessions : Announced(t)' /\ Vouched(t)'
<1> DEFINE idle   == [kind |-> "Idle", model |-> None]
           answer == [kind |-> "Answer", model |-> None]
<1>1. idle \in Event /\ answer \in Event
  BY DEF Event, MaybeModel
<1>2. UNCHANGED <<disk, mem, bound, shown>> /\ gen' = [gen EXCEPT ![s] = NoGen] /\ gen[s] # NoGen
  BY DEF Finish
<1>3. done \subseteq done'
  BY DEF Finish
<1>4. GoodMarks'
  BY <1>2, <1>3, MarksKept DEF IInv
<1>5. AskedOfBound'
  BY <1>2 DEF IInv, TypeOK, AskedOfBound, NoGen
<1>6. CASE Tell(s, <<idle>>)
  <2> DEFINE new == <<idle>>
  <2>1. new \in Seq(Event) /\ \A i \in 1 .. Len(new) : new[i].kind = "Idle"
    BY <1>1
  <2> HIDE DEF new
  <2>2. events' = [events EXCEPT ![s] = events[s] \o new]
    BY <1>6, <2>1, TellTypes DEF IInv, new
  <2>3. events'[s] = events[s] \o new /\ \A t \in Sessions : t # s => events'[t] = events[t]
    BY <2>2 DEF IInv, TypeOK
  <2>4. Announced(s)' /\ Vouched(s)'
    BY <1>2, <1>3, <2>1, <2>3, AnnouncedTold, VouchedTold DEF IInv
  <2>5. QED
    BY <1>2, <1>3, <1>4, <1>5, <2>3, <2>4, Untouched DEF IInv
<1>7. CASE /\ gen[s].asked
           /\ Tell(s, <<idle, answer>>)
           /\ done' = done \cup {gen[s].model}
  <2> DEFINE new == <<idle, answer>>
  <2>1. /\ new \in Seq(Event) /\ Len(new) = 2 /\ new[1].kind = "Idle" /\ new[2].kind = "Answer"
    BY <1>1
  <2> HIDE DEF new
  <2>2. events' = [events EXCEPT ![s] = events[s] \o new]
    BY <1>7, <2>1, TellTypes DEF IInv, new
  <2>3. events'[s] = events[s] \o new /\ \A t \in Sessions : t # s => events'[t] = events[t]
    BY <2>2 DEF IInv, TypeOK
  <2>4. \A i \in 1 .. Len(new) : new[i].kind # "Ready"
    BY <2>1
  <2>5. Announced(s)'
    BY <1>2, <2>1, <2>3, <2>4, AnnouncedTold DEF IInv
  <2>6. Vouched(s)'
    BY <1>2, <1>7, <2>1, <2>3, AnswerVouched
  <2>7. QED
    BY <1>2, <1>3, <1>4, <1>5, <2>3, <2>5, <2>6, Untouched DEF IInv
<1>8. QED
  BY <1>6, <1>7 DEF Finish

LEMMA HandleFuse ==
  ASSUME IInv, NEW s \in Sessions, Handle(s)
  PROVE  GoodMarks' /\ AskedOfBound' /\ \A t \in Sessions : Announced(t)' /\ Vouched(t)'
<1> DEFINE q  == events[s]
           ev == Head(q)
<1>1. q \in Seq(Event) /\ q # <<>> /\ Len(q) \in Nat /\ Len(q) > 0 /\ ev = q[1] /\ 1 \in DOMAIN q
  BY DEF Handle, IInv, TypeOK
<1>2. ev \in Event
  BY <1>1
<1>3. UNCHANGED <<bound, gen, done>> /\ events'[s] = Tail(q)
  BY DEF Handle, IInv, TypeOK
<1>4. shown'[s] = IF ev.kind = "Ready" THEN ev.model ELSE shown[s]
  BY DEF Handle, IInv, TypeOK
<1>5. \A t \in Sessions : t # s => events'[t] = events[t] /\ shown'[t] = shown[t]
  BY DEF Handle, IInv, TypeOK
<1>6. GoodMarks'
  <2>1. ev.model \in MaybeModel /\ mem[s] \in Marks /\ shown[s] \in MaybeModel
    BY <1>2 DEF Event, IInv, TypeOK
  <2>2. \A marks : Save(s, marks) /\ Good(marks.last_good) => GoodMarks'
    BY <1>3 DEF Save, IInv, TypeOK, GoodMarks, Good
  <2>3. Good(mem[s].last_good)
    BY DEF IInv, GoodMarks
  <2>4. CASE ev.kind = "Answer" /\ shown[s] # None /\ Save(s, Promoted(mem[s], shown[s]))
    <3>1. \A i \in 1 .. 1 : q[i].kind # "Ready"
      BY <1>1, <2>4
    <3>2. Believes(shown[s], q, 1, shown[s])
      BY <3>1 DEF Believes, Latest
    <3>3. Good(shown[s])
      BY <1>1, <2>1, <2>4, <3>2 DEF IInv, Vouched
    <3>4. QED
      BY <2>1, <2>2, <2>4, <3>3, MarksTypes
  <2>5. CASE Save(s, Busied(mem[s], ev.model)) \/ Save(s, Idled(mem[s]))
    BY <2>1, <2>2, <2>3, <2>5, MarksTypes
  <2>6. CASE UNCHANGED <<mem, disk>>
    BY <1>3, <2>6, MarksKept DEF IInv
  <2>7. QED
    BY <2>4, <2>5, <2>6 DEF Handle, Promotee
<1>7. AskedOfBound'
  BY <1>3 DEF IInv, AskedOfBound
<1>8. \A k \in 0 .. Len(q) - 1 : \A model :
        Believes(shown'[s], Tail(q), k, model) <=> Believes(shown[s], q, k + 1, model)
  BY <1>1, <1>4, BelievesTail
<1>9. Announced(s)'
  <2> DEFINE k == Len(Tail(q))
  <2>1. k \in 0 .. Len(q) - 1 /\ k + 1 = Len(q)
    BY <1>1
  <2>2. bound[s] # None => Believes(shown[s], q, k + 1, bound[s])
    BY <2>1 DEF IInv, Announced
  <2>3. bound[s] # None => Believes(shown'[s], Tail(q), k, bound[s])
    BY <1>8, <2>1, <2>2
  <2>4. QED
    BY <1>3, <2>3 DEF Announced
<1>10. Vouched(s)'
  <2>1. \A k \in DOMAIN Tail(q) : /\ k \in 0 .. Len(q) - 1 /\ k + 1 \in DOMAIN q
                                  /\ Tail(q)[k] = q[k + 1]
    BY <1>1
  <2>2. QED
    BY <1>3, <1>8, <2>1 DEF IInv, Vouched, Good
<1>11. QED
  BY <1>3, <1>5, <1>6, <1>7, <1>9, <1>10, Untouched DEF IInv

LEMMA StepFuse ==
  ASSUME IInv, [Next]_vars
  PROVE  IInv'
<1> DEFINE Rest == GoodMarks' /\ AskedOfBound' /\ \A t \in Sessions : Announced(t)' /\ Vouched(t)'
<1>1. TypeOK'
  BY StepTypes DEF IInv
<1>2. CASE UNCHANGED vars
  <2>1. UNCHANGED <<disk, mem, bound, gen, shown, events, done>>
    BY <1>2 DEF vars, local, history
  <2>2. GoodMarks' /\ AskedOfBound'
    BY <2>1, MarksKept DEF IInv, AskedOfBound
  <2>3. \A t \in Sessions : Announced(t)' /\ Vouched(t)'
    BY <2>1, Untouched DEF IInv
  <2>4. QED
    BY <1>1, <2>2, <2>3 DEF IInv
<1>3. CASE Next
  <2>1. ASSUME NEW s \in Sessions, Boot(s) PROVE Rest
    BY <2>1, BootFuse
  <2>2. ASSUME NEW s \in Sessions, Leave(s) \/ Die(s) PROVE Rest
    BY <2>2, StopFuse DEF Leave, Die
  <2>3. ASSUME NEW s \in Sessions, NEW model \in Models \cup {"auto"}, NEW save \in BOOLEAN,
               Choose(s, model, save)
        PROVE  Rest
    BY <2>3, ChooseFuse
  <2>4. ASSUME NEW s \in Sessions, Rebind(s) \/ Bind(s) PROVE Rest
    BY <2>4, RebindFuse, BindFuse
  <2>5. ASSUME NEW s \in Sessions, Generate(s) \/ Finish(s) PROVE Rest
    BY <2>5, GenerateFuse, FinishFuse
  <2>6. ASSUME NEW s \in Sessions, Handle(s) PROVE Rest
    BY <2>6, HandleFuse
  <2>7. Rest
    BY <1>3, <2>1, <2>2, <2>3, <2>4, <2>5, <2>6 DEF Next
  <2>8. QED
    BY <1>1, <2>7 DEF IInv
<1>4. QED
  BY <1>2, <1>3

\* The model the fuse falls back to has completed an answer at some time,
\* whatever was rebound while that answer was on its way to the session and
\* whichever session wrote state.toml last.
THEOREM FallbackAnswered == Spec => []LastGoodSurvived
<1>1. IInv => LastGoodSurvived
  BY DEF IInv, GoodMarks, Good, LastGoodSurvived
<1>2. QED
  BY <1>1, InitFuse, StepFuse, PTL DEF Spec

-----------------------------------------------------------------------------
(* The mark is the worker's generation *)

\* A session that is not running has nothing left to handle.  Once a running
\* one has handled everything on its way it will have marked what its worker
\* generates; and an Answer finds the mark already cleared, by the Idle before it.
Marking(s) ==
  /\ ~up[s] => events[s] = <<>>
  /\ up[s] => Marked(mem[s].loading, events[s], Len(events[s]), gen[s].model)
  /\ \A k \in DOMAIN events[s] :
       /\ events[s][k].kind = "Idle" => events[s][k].model = None
       /\ events[s][k].kind = "Answer" => Marked(mem[s].loading, events[s], k, None)

MarkInv == TypeOK /\ \A s \in Sessions : Marking(s)

LEMMA MarkingUntouched ==
  ASSUME NEW t \in Sessions, Marking(t), mem'[t].loading = mem[t].loading,
         events'[t] = events[t], up'[t] = up[t], gen'[t] = gen[t]
  PROVE  Marking(t)'
BY DEF Marking, Marked, Latest

\* A session that starts with nothing to handle but a binding, or that stops.
LEMMA MarkingAnew ==
  ASSUME NEW s \in Sessions, NEW model \in MaybeModel,
         \/ events'[s] = <<>> \/ events'[s] = <<[kind |-> "Ready", model |-> model]>>,
         up'[s] \/ events'[s] = <<>>,
         up'[s] => mem'[s].loading = None /\ gen'[s].model = None
  PROVE  Marking(s)'
<1>1. CASE events'[s] = <<>>
  <2>1. Len(events'[s]) = 0 /\ DOMAIN events'[s] = {}
    BY <1>1
  <2>2. QED
    BY <1>1, <2>1 DEF Marking, Marked, Latest
<1>2. CASE events'[s] = <<[kind |-> "Ready", model |-> model]>>
  <2>1. /\ Len(events'[s]) = 1 /\ DOMAIN events'[s] = {1}
        /\ events'[s][1].kind = "Ready" /\ events'[s] # <<>>
    BY <1>2
  <2>2. \A i \in 1 .. 1 : events'[s][i].kind \notin {"Busy", "Idle"}
    BY <2>1
  <2>3. QED
    BY <2>1, <2>2 DEF Marking, Marked, Latest
<1>3. QED
  BY <1>1, <1>2

\* Telling a running session what its worker does.
LEMMA MarkingTold ==
  ASSUME TypeOK, NEW s \in Sessions, Marking(s), up[s], up'[s], mem'[s].loading = mem[s].loading,
         NEW new \in Seq(Event), events'[s] = events[s] \o new,
         \A i \in 1 .. Len(new) :
           /\ new[i].kind = "Idle" => new[i].model = None
           /\ new[i].kind = "Answer" =>
                Marked(mem[s].loading, events[s] \o new, Len(events[s]) + i, None),
         Marked(mem[s].loading, events[s] \o new, Len(events[s] \o new), gen'[s].model)
  PROVE  Marking(s)'
<1> DEFINE q == events[s]
           r == q \o new
           now == mem[s].loading
<1>1. q \in Seq(Event)
  BY DEF TypeOK
<1>2. /\ \A k \in 1 .. Len(q) : q[k].kind = "Idle" => q[k].model = None
      /\ \A k \in 1 .. Len(q) : q[k].kind = "Answer" => Marked(now, q, k, None)
  BY <1>1 DEF Marking
<1>3. events'[s] = r /\ Marked(now, r, Len(r), gen'[s].model)
  OBVIOUS
<1>4. \A i \in 1 .. Len(new) :
        /\ new[i].kind = "Idle" => new[i].model = None
        /\ new[i].kind = "Answer" => Marked(now, r, Len(q) + i, None)
  OBVIOUS
<1> HIDE DEF q
<1>5. /\ r \in Seq(Event) /\ Len(q) \in Nat /\ Len(new) \in Nat /\ Len(r) = Len(q) + Len(new)
      /\ \A i \in 1 .. Len(q) : r[i] = q[i]
      /\ \A i \in 1 .. Len(new) : r[Len(q) + i] = new[i]
  BY <1>1
<1>6. \A k \in 1 .. Len(q) : Marked(now, q, k, None) => Marked(now, r, k, None)
  BY <1>1, LatestAppended DEF Marked
<1> HIDE DEF r, now
<1>7. ASSUME NEW k \in 1 .. Len(r)
      PROVE  /\ r[k].kind = "Idle" => r[k].model = None
             /\ r[k].kind = "Answer" => Marked(now, r, k, None)
  <2>1. CASE k \in 1 .. Len(q)
    BY <1>2, <1>5, <1>6, <2>1
  <2>2. CASE k \notin 1 .. Len(q)
    <3>1. k - Len(q) \in 1 .. Len(new) /\ Len(q) + (k - Len(q)) = k
      BY <1>5, <2>2
    <3>2. r[k] = new[k - Len(q)]
      BY <1>5, <3>1
    <3>3. QED
      BY <1>4, <3>1, <3>2
  <2>3. QED
    BY <2>1, <2>2
<1>8. DOMAIN r = 1 .. Len(r) /\ now = mem'[s].loading
  BY <1>5 DEF now
<1>9. QED
  BY <1>3, <1>7, <1>8 DEF Marking

\* Events of other kinds at the end of a queue leave what will be marked.
LEMMA MarkedTold ==
  ASSUME NEW now, NEW q \in Seq(Event), NEW new \in Seq(Event), NEW model,
         \A i \in 1 .. Len(new) : new[i].kind \notin {"Busy", "Idle"}
  PROVE  Marked(now, q, Len(q), model) => Marked(now, q \o new, Len(q \o new), model)
<1> DEFINE r == q \o new
<1>1. /\ r \in Seq(Event) /\ Len(q) \in Nat /\ Len(new) \in Nat /\ Len(r) = Len(q) + Len(new)
      /\ \A i \in Len(q) + 1 .. Len(r) : r[i] = new[i - Len(q)] /\ i - Len(q) \in 1 .. Len(new)
  OBVIOUS
<1>2. Marked(now, q, Len(q), model) <=> Marked(now, r, Len(q), model)
  BY <1>1, LatestAppended DEF Marked
<1>3. CASE Len(r) = 0
  <2>1. Len(q) = Len(r)
    BY <1>1, <1>3
  <2>2. QED
    BY <1>2, <2>1
<1>4. CASE Len(r) # 0
  <2>1. \A i \in Len(q) + 1 .. Len(r) : r[i].kind \notin {"Busy", "Idle"}
    BY <1>1
  <2>2. Len(r) \in 1 .. Len(r) /\ Len(q) \in 0 .. Len(r)
    BY <1>1, <1>4
  <2> HIDE DEF r
  <2>3. Marked(now, r, Len(r), model) <=> Marked(now, r, Len(q), model)
    BY <1>1, <2>1, <2>2, LatestUnmoved DEF Marked
  <2>4. QED
    BY <1>2, <2>3 DEF r
<1>5. QED
  BY <1>3, <1>4

\* A Busy or an Idle is what will be marked, until the next.
LEMMA MarkedLast ==
  ASSUME NEW now, NEW r \in Seq(Event), NEW j \in 1 .. Len(r), NEW k \in j .. Len(r),
         r[j].kind \in {"Busy", "Idle"},
         \A i \in j + 1 .. k : r[i].kind \notin {"Busy", "Idle"}
  PROVE  Marked(now, r, k, r[j].model)
<1>1. j \in 1 .. k
  OBVIOUS
<1>2. QED
  BY <1>1 DEF Marked, Latest

LEMMA ReadyMarking ==
  ASSUME MarkInv, NEW s \in Sessions, up[s], gen[s] = NoGen, NEW model \in MaybeModel,
         Tell(s, ReadyEvents(model)), UNCHANGED <<mem, gen, up>>
  PROVE  \A t \in Sessions : Marking(t)'
<1> DEFINE new == ReadyEvents(model)
<1>1. new \in Seq(Event) /\ \A i \in 1 .. Len(new) : new[i].kind = "Ready"
  BY ReadyTypes DEF ReadyEvents
<1>2. events' = [events EXCEPT ![s] = events[s] \o new]
  BY <1>1, TellTypes DEF MarkInv
<1>3. events'[s] = events[s] \o new /\ \A t \in Sessions : t # s => events'[t] = events[t]
  BY <1>2 DEF MarkInv, TypeOK
<1>4. \A t \in Sessions : t # s => Marking(t)'
  BY <1>3, MarkingUntouched DEF MarkInv
<1> HIDE DEF new
<1>5. events[s] \in Seq(Event) /\ Marked(mem[s].loading, events[s], Len(events[s]), gen[s].model)
  BY DEF MarkInv, Marking, TypeOK
<1>6. Marked(mem[s].loading, events[s] \o new, Len(events[s] \o new), gen'[s].model)
  BY <1>1, <1>5, MarkedTold
<1>7. Marking(s)'
  BY <1>1, <1>3, <1>6, MarkingTold DEF MarkInv
<1>8. QED
  BY <1>4, <1>7

LEMMA GenerateMarking ==
  ASSUME MarkInv, NEW s \in Sessions, Generate(s)
  PROVE  \A t \in Sessions : Marking(t)'
<1>1. PICK model \in {bound[s]} \cup SlowModels, asked \in BOOLEAN :
        /\ gen' = [gen EXCEPT ![s] = [model |-> model, asked |-> asked]]
        /\ Tell(s, <<[kind |-> "Busy", model |-> model]>>)
  BY DEF Generate
<1> DEFINE busy == [kind |-> "Busy", model |-> model]
           new  == <<busy>>
           r    == events[s] \o new
           n    == Len(events[s])
<1>2. model \in MaybeModel
  BY <1>1, ModelsAssumption DEF MarkInv, TypeOK, MaybeModel
<1>3. busy \in Event
  BY <1>2 DEF Event
<1>4. new \in Seq(Event) /\ Len(new) = 1 /\ new[1] = busy /\ \A i \in 1 .. Len(new) : new[i].kind = "Busy"
  BY <1>3
<1>5. events' = [events EXCEPT ![s] = events[s] \o new]
  BY <1>1, <1>4, TellTypes DEF MarkInv
<1>6. /\ events'[s] = r /\ \A t \in Sessions : t # s => events'[t] = events[t]
      /\ gen'[s].model = model /\ \A t \in Sessions : t # s => gen'[t] = gen[t]
      /\ UNCHANGED <<mem, up>> /\ up[s]
  BY <1>1, <1>5 DEF MarkInv, TypeOK, Generate
<1>7. events[s] \in Seq(Event)
  BY DEF MarkInv, TypeOK
<1>8. r \in Seq(Event) /\ n \in Nat /\ Len(r) = n + 1 /\ r[n + 1] = new[1]
  BY <1>4, <1>7
<1>9. Marked(mem[s].loading, r, Len(r), model)
  <2>1. r[n + 1].kind = "Busy" /\ r[n + 1].model = model /\ n + 1 \in 1 .. Len(r) /\ n + 1 \in n + 1 .. Len(r)
    BY <1>4, <1>8
  <2> HIDE DEF r, n
  <2>2. \A i \in (n + 1) + 1 .. Len(r) : r[i].kind \notin {"Busy", "Idle"}
    BY <1>8
  <2>3. Marked(mem[s].loading, r, Len(r), r[n + 1].model)
    BY <1>8, <2>1, <2>2, MarkedLast
  <2>4. QED
    BY <2>1, <2>3
<1> HIDE DEF new
<1>10. Marking(s)'
  BY <1>4, <1>6, <1>9, MarkingTold DEF MarkInv
<1>11. QED
  BY <1>6, <1>10, MarkingUntouched DEF MarkInv

LEMMA FinishMarking ==
  ASSUME MarkInv, NEW s \in Sessions, Finish(s)
  PROVE  \A t \in Sessions : Marking(t)'
<1> DEFINE idle   == [kind |-> "Idle", model |-> None]
           answer == [kind |-> "Answer", model |-> None]
<1>1. idle \in Event /\ answer \in Event
  BY DEF Event, MaybeModel
<1>2. PICK new \in {<<idle>>, <<idle, answer>>} : Tell(s, new)
  BY DEF Finish
<1> DEFINE r == events[s] \o new
           n == Len(events[s])
<1>3. /\ new \in Seq(Event) /\ Len(new) \in {1, 2} /\ new[1] = idle
      /\ Len(new) = 2 => new[2] = answer
  <2>1. CASE new = <<idle>>
    BY <1>1, <2>1
  <2>2. CASE new = <<idle, answer>>
    BY <1>1, <2>2
  <2>3. QED
    BY <1>2, <2>1, <2>2
<1> HIDE DEF idle, answer
<1>4. events' = [events EXCEPT ![s] = events[s] \o new]
  BY <1>2, <1>3, TellTypes DEF MarkInv
<1>5. /\ events'[s] = r /\ \A t \in Sessions : t # s => events'[t] = events[t]
      /\ gen'[s] = NoGen /\ \A t \in Sessions : t # s => gen'[t] = gen[t]
      /\ UNCHANGED <<mem, up>> /\ up[s]
  BY <1>4 DEF MarkInv, TypeOK, Finish
<1>6. events[s] \in Seq(Event)
  BY DEF MarkInv, TypeOK
<1>7. /\ r \in Seq(Event) /\ n \in Nat /\ Len(r) = n + Len(new)
      /\ r[n + 1] = idle /\ (Len(new) = 2 => r[n + 2] = answer)
  <2>1. /\ r \in Seq(Event) /\ n \in Nat /\ Len(r) = n + Len(new)
        /\ \A i \in 1 .. Len(new) : r[n + i] = new[i]
    BY <1>3, <1>6, Joined
  <2>2. 1 \in 1 .. Len(new) /\ (Len(new) = 2 => 2 \in 1 .. Len(new))
    BY <1>3
  <2> HIDE DEF r, n
  <2>3. QED
    BY <1>3, <2>1, <2>2
<1>8. \A k \in n + 1 .. Len(r) : Marked(mem[s].loading, r, k, None)
  <2> SUFFICES ASSUME NEW k \in n + 1 .. Len(r) PROVE Marked(mem[s].loading, r, k, None)
    OBVIOUS
  <2> HIDE DEF r, n
  <2>1. \A i \in (n + 1) + 1 .. k : r[i].kind \notin {"Busy", "Idle"}
    <3> DEFINE l == Len(new)
    <3>0. l \in {1, 2} /\ Len(r) = n + l /\ n \in Nat
      BY <1>3, <1>7
    <3> HIDE DEF l
    <3>1. \A i \in (n + 1) + 1 .. k : i = n + 2 /\ l = 2
      BY <3>0
    <3>2. answer.kind = "Answer"
      BY DEF answer
    <3>3. QED
      BY <1>7, <3>1, <3>2 DEF l
  <2>2. r[n + 1].kind = "Idle" /\ r[n + 1].model = None
    BY <1>7 DEF idle
  <2>3. n + 1 \in 1 .. Len(r)
    BY <1>3, <1>7
  <2>4. QED
    BY <1>7, <2>1, <2>2, <2>3, MarkedLast
<1>9. \A i \in 1 .. Len(new) :
        /\ new[i].kind = "Idle" => new[i].model = None
        /\ n + i \in n + 1 .. Len(r)
  <2>1. \A i \in 1 .. Len(new) : i = 1 \/ (i = 2 /\ Len(new) = 2)
    <3> DEFINE l == Len(new)
    <3>1. l \in {1, 2}
      BY <1>3
    <3> HIDE DEF l
    <3>2. \A i \in 1 .. l : i = 1 \/ (i = 2 /\ l = 2)
      BY <3>1
    <3>3. QED
      BY <3>2 DEF l
  <2>2. \A i \in 1 .. Len(new) : new[i].kind = "Idle" => new[i].model = None
    BY <1>3, <2>1 DEF idle, answer
  <2> HIDE DEF r, n
  <2>3. \A i \in 1 .. Len(new) : n + i \in n + 1 .. Len(r)
    BY <1>3, <1>7
  <2>4. QED
    BY <2>2, <2>3
<1>10. Marked(mem[s].loading, r, Len(r), gen'[s].model)
  <2>1. gen'[s].model = None
    BY <1>5 DEF NoGen
  <2> HIDE DEF r, n
  <2>2. Len(r) \in n + 1 .. Len(r)
    BY <1>3, <1>7
  <2>3. QED
    BY <1>8, <2>1, <2>2
<1>11. Marking(s)'
  BY <1>3, <1>5, <1>8, <1>9, <1>10, MarkingTold DEF MarkInv
<1>12. QED
  BY <1>5, <1>11, MarkingUntouched DEF MarkInv

LEMMA HandleMarking ==
  ASSUME MarkInv, NEW s \in Sessions, Handle(s)
  PROVE  \A t \in Sessions : Marking(t)'
<1> DEFINE q   == events[s]
           ev  == Head(q)
           now == mem[s].loading
<1>1. q \in Seq(Event) /\ q # <<>> /\ Len(q) \in Nat /\ Len(q) > 0 /\ ev = q[1] /\ 1 \in DOMAIN q
  BY DEF Handle, MarkInv, TypeOK
<1>2. up[s] /\ up' = up /\ gen' = gen /\ events'[s] = Tail(q)
  BY <1>1 DEF Handle, MarkInv, Marking, TypeOK
<1>3. \A t \in Sessions : t # s => events'[t] = events[t] /\ mem'[t] = mem[t]
  BY DEF Handle, MarkInv, TypeOK, Save
<1>4. mem'[s].loading = IF ev.kind \in {"Busy", "Idle"} THEN ev.model ELSE now
  <2>1. mem[s] \in Marks /\ ev \in Event
    BY <1>1 DEF MarkInv, TypeOK
  <2>2. \A marks : Save(s, marks) => mem'[s] = marks
    BY DEF Save, MarkInv, TypeOK
  <2>3. CASE ev.kind = "Busy"
    BY <2>1, <2>2, <2>3 DEF Handle, Busied, Marks
  <2>4. CASE ev.kind = "Idle"
    <3>1. ev.model = None
      BY <1>1, <2>4 DEF MarkInv, Marking
    <3>2. QED
      BY <2>1, <2>2, <2>4, <3>1 DEF Handle, Idled, Marks
  <2>5. CASE ev.kind = "Ready"
    BY <2>5 DEF Handle
  <2>6. CASE ev.kind = "Answer"
    <3>1. Marked(now, q, 1, None)
      BY <1>1, <2>6 DEF MarkInv, Marking
    <3>2. now = None
      BY <1>1, <2>6, <3>1 DEF Marked, Latest
    <3>3. Save(s, Promoted(mem[s], shown[s])) \/ UNCHANGED mem
      BY <2>6 DEF Handle, Promotee
    <3>4. QED
      BY <2>2, <2>6, <3>2, <3>3 DEF Promoted
  <2>7. QED
    BY <2>1, <2>3, <2>4, <2>5, <2>6 DEF Event
<1>5. \A k \in 0 .. Len(q) - 1 : \A model :
        Marked(mem'[s].loading, Tail(q), k, model) <=> Marked(now, q, k + 1, model)
  BY <1>1, <1>4, LatestTail DEF Marked
<1>6. /\ Marked(now, q, Len(q), gen[s].model)
      /\ \A k \in DOMAIN q : /\ q[k].kind = "Idle" => q[k].model = None
                             /\ q[k].kind = "Answer" => Marked(now, q, k, None)
  BY <1>2 DEF MarkInv, Marking
<1>7. /\ Len(Tail(q)) \in 0 .. Len(q) - 1 /\ Len(Tail(q)) + 1 = Len(q)
      /\ \A k \in DOMAIN Tail(q) : /\ k \in 0 .. Len(q) - 1 /\ k + 1 \in DOMAIN q
                                   /\ Tail(q)[k] = q[k + 1]
  BY <1>1
<1> HIDE DEF q, now, ev
<1>8. Marking(s)'
  BY <1>2, <1>5, <1>6, <1>7 DEF Marking
<1>9. QED
  BY <1>2, <1>3, <1>8, MarkingUntouched DEF MarkInv

LEMMA BootMarking ==
  ASSUME MarkInv, NEW s \in Sessions, Boot(s)
  PROVE  \A t \in Sessions : Marking(t)'
<1>1. PICK model \in Probed(target'[s]) : events' = [events EXCEPT ![s] = ReadyEvents(model)]
  BY DEF Boot
<1>2. model \in MaybeModel
  <2>1. target'[s] \in MaybeModel
    BY BootTypes DEF MarkInv, TypeOK
  <2>2. QED
    BY <1>1, <2>1 DEF Probed, MaybeModel
<1>3. events'[s] = <<>> \/ events'[s] = <<[kind |-> "Ready", model |-> model]>>
  BY <1>1 DEF MarkInv, TypeOK, ReadyEvents
<1>4. gen[s] = NoGen /\ gen' = gen
  BY DEF Boot, MarkInv, TypeOK
<1>5. up'[s] /\ mem'[s].loading = None /\ gen'[s].model = None
  <2>1. Loaded(disk).loading = None
    BY DEF Loaded, MarkInv, TypeOK, Marks
  <2>2. QED
    BY <1>4, <2>1 DEF Boot, MarkInv, TypeOK, NoGen
<1>6. \A t \in Sessions : t # s => events'[t] = events[t] /\ mem'[t] = mem[t] /\ up'[t] = up[t]
  BY <1>1 DEF Boot, MarkInv, TypeOK
<1>7. Marking(s)'
  BY <1>2, <1>3, <1>5, MarkingAnew
<1>8. QED
  BY <1>4, <1>6, <1>7, MarkingUntouched DEF MarkInv

LEMMA StopMarking ==
  ASSUME MarkInv, NEW s \in Sessions, Stop(s)
  PROVE  \A t \in Sessions : Marking(t)'
<1>1. ~up'[s] /\ events'[s] = <<>> /\ mem' = mem
  BY DEF Stop, MarkInv, TypeOK
<1>2. \A t \in Sessions : t # s => events'[t] = events[t] /\ up'[t] = up[t] /\ gen'[t] = gen[t]
  BY DEF Stop, MarkInv, TypeOK
<1>3. None \in MaybeModel
  BY DEF MaybeModel
<1>4. Marking(s)'
  BY <1>1, <1>3, MarkingAnew
<1>5. QED
  BY <1>1, <1>2, <1>4, MarkingUntouched DEF MarkInv

LEMMA StepMarking ==
  ASSUME MarkInv, [Next]_vars
  PROVE  MarkInv'
<1> DEFINE Rest == \A t \in Sessions : Marking(t)'
<1>1. TypeOK'
  BY StepTypes DEF MarkInv
<1>2. CASE UNCHANGED vars
  BY <1>1, <1>2, MarkingUntouched DEF vars, local, MarkInv
<1>3. ASSUME NEW s \in Sessions, Boot(s) \/ Leave(s) \/ Die(s) PROVE Rest
  BY <1>3, BootMarking, StopMarking DEF Leave, Die
<1>4. ASSUME NEW s \in Sessions, NEW model \in Models \cup {"auto"}, NEW save \in BOOLEAN,
             Choose(s, model, save)
      PROVE  Rest
  <2>1. \A t \in Sessions : mem'[t].loading = mem[t].loading
    <3>1. OnProbation(mem[s], model).loading = mem[s].loading
      BY DEF OnProbation, MarkInv, TypeOK, Marks
    <3>2. mem' = mem \/ mem' = [mem EXCEPT ![s] = OnProbation(mem[s], model)]
      BY <1>4 DEF Choose
    <3>3. QED
      BY <3>1, <3>2 DEF MarkInv, TypeOK
  <2>2. UNCHANGED <<events, up, gen>>
    BY <1>4 DEF Choose
  <2>3. QED
    BY <2>1, <2>2, MarkingUntouched DEF MarkInv
<1>5. ASSUME NEW s \in Sessions, Rebind(s) PROVE Rest
  <2>1. UNCHANGED <<mem, gen, up>> /\ gen[s] = NoGen /\ up[s]
    BY <1>5 DEF Rebind
  <2>2. CASE \E model \in MaybeModel : Tell(s, ReadyEvents(model))
    BY <2>1, <2>2, ReadyMarking
  <2>3. CASE UNCHANGED events
    BY <2>1, <2>3, MarkingUntouched DEF MarkInv
  <2>4. \/ UNCHANGED events
        \/ \E model \in Probed(None) : Tell(s, ReadyEvents(model))
        \/ wish[s] # "auto" /\ Tell(s, ReadyEvents(wish[s]))
    BY <1>5 DEF Rebind
  <2>5. Probed(None) \subseteq MaybeModel /\ wish[s] \in MaybeModel \cup {"auto"}
    BY DEF Probed, MaybeModel, MarkInv, TypeOK
  <2>6. QED
    BY <2>2, <2>3, <2>4, <2>5
<1>6. ASSUME NEW s \in Sessions, Bind(s) PROVE Rest
  <2>1. UNCHANGED <<mem, gen, up>> /\ up[s] /\ gen[s] = NoGen
    BY <1>6 DEF Bind, MarkInv, TypeOK
  <2>2. PICK model \in Probed(target[s]) \ {None} : Tell(s, ReadyEvents(model))
    BY <1>6 DEF Bind
  <2>3. model \in MaybeModel
    BY <2>2 DEF Probed, MaybeModel, MarkInv, TypeOK
  <2>4. QED
    BY <2>1, <2>2, <2>3, ReadyMarking
<1>7. ASSUME NEW s \in Sessions, Generate(s) \/ Finish(s) \/ Handle(s) PROVE Rest
  BY <1>7, GenerateMarking, FinishMarking, HandleMarking
<1>8. CASE Next
  <2>1. Rest
    BY <1>3, <1>4, <1>5, <1>6, <1>7, <1>8 DEF Next
  <2>2. QED
    BY <1>1, <2>1 DEF MarkInv
<1>9. QED
  BY <1>2, <1>8

\* The mark in state.toml's copy is what the worker is generating as soon as the
\* session has heard the worker out (Busy, Idle and Answer in src/src/session.rs):
\* no load goes unmarked, and no mark outlives its generation.
THEOREM MarkIsTheWorkers == Spec => []MarkFollowsWorker
<1>1. Init => MarkInv
  <2> SUFFICES ASSUME Init PROVE MarkInv
    OBVIOUS
  <2>1. TypeOK /\ \A s \in Sessions : ~up[s] /\ events[s] = <<>> /\ DOMAIN events[s] = {}
    BY InitTypes DEF Init
  <2>2. QED
    BY <2>1 DEF MarkInv, Marking
<1>2. MarkInv => MarkFollowsWorker
  <2> SUFFICES ASSUME MarkInv, NEW s \in Sessions, up[s], events[s] = <<>>
               PROVE  mem[s].loading = gen[s].model
    BY DEF MarkFollowsWorker
  <2>1. Len(events[s]) = 0
    OBVIOUS
  <2>2. Marked(mem[s].loading, events[s], 0, gen[s].model)
    BY <2>1 DEF MarkInv, Marking
  <2>3. QED
    BY <2>2 DEF Marked, Latest
<1>3. QED
  BY <1>1, <1>2, StepMarking, PTL DEF Spec

-----------------------------------------------------------------------------
(* The culprit is not asked for again *)

\* Until two sessions run at once the file is the running session's copy, and
\* holds the suspect: as the mark left behind, or as the distrust a boot made of it.
Grudge ==
  ~crowded =>
    /\ \A s, t \in Sessions : up[s] /\ up[t] => s = t
    /\ \A s \in Sessions : up[s] => disk = mem[s] /\ (suspect # None => disk.distrusted = suspect)
    /\ (\A s \in Sessions : ~up[s]) /\ suspect # None =>
         \/ disk.loading = suspect
         \/ disk.loading = None /\ disk.distrusted = suspect

GrudgeInv == MarkInv /\ Grudge

\* A boot turns the mark left behind into distrust.
LEMMA BootGrudge ==
  ASSUME GrudgeInv, NEW s \in Sessions, Boot(s)
  PROVE  /\ Grudge'
         /\ ~crowded' => target'[s] = None \/ target'[s] # suspect
<1> SUFFICES ASSUME ~crowded'
             PROVE  Grudge' /\ (target'[s] = None \/ target'[s] # suspect)
  BY DEF Grudge
<1> DEFINE marks == Loaded(disk)
<1>1. ~crowded /\ \A t \in Sessions : ~up[t]
  BY DEF Boot, GrudgeInv, MarkInv, TypeOK
<1>2. disk \in Marks
  BY DEF GrudgeInv, MarkInv, TypeOK
<1>3. marks.loading = None /\ (suspect # None => marks.distrusted = suspect)
  BY <1>1, <1>2 DEF Loaded, Marks, GrudgeInv, Grudge
<1>4. /\ suspect' = suspect /\ disk' = marks /\ mem'[s] = marks
      /\ \A t \in Sessions : up'[t] => t = s
  BY <1>1 DEF Boot, GrudgeInv, MarkInv, TypeOK
<1> HIDE DEF marks
<1>5. up'[s]
  BY DEF Boot, GrudgeInv, MarkInv, TypeOK
<1>6. Grudge'
  BY <1>3, <1>4, <1>5 DEF Grudge
<1>7. target'[s] = Vetted(marks)
  BY DEF Boot, GrudgeInv, MarkInv, TypeOK, marks
<1>8. target'[s] = None \/ target'[s] # suspect
  BY <1>3, <1>7 DEF Vetted
<1>9. QED
  BY <1>6, <1>8

\* What the session that is running writes, the file holds.
LEMMA SaveGrudge ==
  ASSUME GrudgeInv, NEW s \in Sessions, up[s], UNCHANGED <<up, crowded>>,
         NEW marks \in Marks, mem' = [mem EXCEPT ![s] = marks],
         ~crowded => disk' = marks,
         ~crowded /\ suspect' # None => marks.distrusted = suspect'
  PROVE  Grudge'
<1> SUFFICES ASSUME ~crowded PROVE Grudge'
  BY DEF Grudge
<1>1. \A t \in Sessions : up'[t] => t = s
  BY DEF GrudgeInv, Grudge
<1>2. mem'[s] = marks /\ disk' = marks
  BY DEF GrudgeInv, MarkInv, TypeOK
<1>3. QED
  BY <1>1, <1>2 DEF Grudge

LEMMA StopGrudge ==
  ASSUME GrudgeInv, NEW s \in Sessions, Stop(s)
  PROVE  Grudge'
<1> SUFFICES ASSUME ~crowded PROVE Grudge'
  BY DEF Grudge, Stop
<1>1. /\ up[s] /\ disk = mem[s] /\ (suspect # None => disk.distrusted = suspect)
      /\ \A t \in Sessions : up[t] => t = s
  BY DEF Stop, GrudgeInv, Grudge
<1>2. \A t \in Sessions : ~up'[t]
  BY <1>1 DEF Stop, GrudgeInv, MarkInv, TypeOK
<1>3. disk' = disk /\ suspect' = IF disk.loading = None THEN suspect ELSE disk.loading
  BY <1>1 DEF Stop
<1>4. QED
  BY <1>1, <1>2, <1>3 DEF Grudge

LEMMA ChooseGrudge ==
  ASSUME GrudgeInv, NEW s \in Sessions, NEW model \in Models \cup {"auto"}, NEW save \in BOOLEAN,
         Choose(s, model, save)
  PROVE  Grudge'
<1>1. up[s] /\ UNCHANGED <<up, crowded>>
  BY DEF Choose
<1>2. CASE save /\ model # "auto"
  <2> DEFINE marks == OnProbation(mem[s], model)
  <2>1. mem[s] \in Marks /\ model \in MaybeModel
    BY <1>2 DEF GrudgeInv, MarkInv, TypeOK, MaybeModel
  <2>2. marks \in Marks
    BY <2>1, MarksTypes
  <2>3. marks.distrusted = IF mem[s].distrusted = model THEN None ELSE mem[s].distrusted
    BY <2>1 DEF OnProbation, Marks
  <2>4. /\ mem' = [mem EXCEPT ![s] = marks] /\ disk' = marks
        /\ suspect' = IF model = suspect THEN None ELSE suspect
    BY <1>2 DEF Choose
  <2> HIDE DEF marks
  <2>5. ~crowded /\ suspect # None => mem[s].distrusted = suspect
    BY <1>1 DEF GrudgeInv, Grudge
  <2>6. QED
    BY <1>1, <2>2, <2>3, <2>4, <2>5, SaveGrudge
<1>3. CASE ~(save /\ model # "auto")
  <2>1. UNCHANGED <<mem, disk>> /\ (suspect' = suspect \/ suspect' = None)
    BY <1>3 DEF Choose
  <2>2. QED
    BY <1>1, <2>1 DEF GrudgeInv, Grudge
<1>4. QED
  BY <1>2, <1>3

LEMMA HandleGrudge ==
  ASSUME GrudgeInv, NEW s \in Sessions, Handle(s)
  PROVE  Grudge'
<1> DEFINE ev == Head(events[s])
<1>1. events[s] \in Seq(Event) /\ events[s] # <<>> /\ ev \in Event
  <2>1. events[s] \in Seq(Event) /\ events[s] # <<>>
    BY DEF Handle, GrudgeInv, MarkInv, TypeOK
  <2>2. QED
    BY <2>1
<1>2. up[s] /\ UNCHANGED <<up, crowded>>
  BY <1>1 DEF Handle, GrudgeInv, MarkInv, Marking
<1>3. mem[s] \in Marks /\ shown[s] \in MaybeModel /\ ev.model \in MaybeModel
  BY <1>1 DEF GrudgeInv, MarkInv, TypeOK, Event
<1>4. ~crowded => disk = mem[s] /\ (suspect # None => mem[s].distrusted = suspect)
  BY <1>2 DEF GrudgeInv, Grudge
<1>5. ASSUME NEW marks \in Marks, Save(s, marks),
             ~crowded /\ suspect' # None => marks.distrusted = suspect'
      PROVE  Grudge'
  <2>1. mem' = [mem EXCEPT ![s] = marks] /\ (~crowded => disk' = marks)
    BY <1>4, <1>5 DEF Save
  <2>2. QED
    BY <1>2, <1>5, <2>1, SaveGrudge
<1>6. CASE Save(s, Busied(mem[s], ev.model)) /\ suspect' = suspect
  <2>1. Busied(mem[s], ev.model) \in Marks
    BY <1>3, MarksTypes
  <2>2. Busied(mem[s], ev.model).distrusted = mem[s].distrusted
    BY <1>3 DEF Busied, Marks
  <2>3. QED
    BY <1>4, <1>5, <1>6, <2>1, <2>2
<1>7. CASE Save(s, Idled(mem[s])) /\ suspect' = suspect
  <2>1. Idled(mem[s]) \in Marks
    BY <1>3, MarksTypes
  <2>2. Idled(mem[s]).distrusted = mem[s].distrusted
    BY <1>3 DEF Idled, Marks
  <2>3. QED
    BY <1>4, <1>5, <1>7, <2>1, <2>2
<1>8. CASE /\ Save(s, Promoted(mem[s], shown[s]))
           /\ suspect' = IF suspect = shown[s] THEN None ELSE suspect
  <2>1. Promoted(mem[s], shown[s]) \in Marks
    BY <1>3, MarksTypes
  <2>2. Promoted(mem[s], shown[s]).distrusted =
          IF mem[s].distrusted = shown[s] THEN None ELSE mem[s].distrusted
    BY DEF Promoted
  <2>3. QED
    BY <1>4, <1>5, <1>8, <2>1, <2>2
<1>9. CASE UNCHANGED <<mem, disk, suspect>>
  BY <1>2, <1>9 DEF GrudgeInv, Grudge
<1>10. QED
  BY <1>6, <1>7, <1>8, <1>9 DEF Handle, Promotee

LEMMA StepGrudge ==
  ASSUME GrudgeInv, [Next]_vars
  PROVE  GrudgeInv'
<1>1. MarkInv'
  BY StepMarking DEF GrudgeInv
<1>2. CASE UNCHANGED <<up, mem, disk, suspect, crowded>>
  BY <1>1, <1>2 DEF GrudgeInv, Grudge
<1>3. ASSUME NEW s \in Sessions, Boot(s) \/ Leave(s) \/ Die(s) \/ Handle(s) PROVE Grudge'
  BY <1>3, BootGrudge, StopGrudge, HandleGrudge DEF Leave, Die
<1>4. ASSUME NEW s \in Sessions, NEW model \in Models \cup {"auto"}, NEW save \in BOOLEAN,
             Choose(s, model, save)
      PROVE  Grudge'
  BY <1>4, ChooseGrudge
<1>5. ASSUME NEW s \in Sessions, Rebind(s) \/ Bind(s) \/ Generate(s) \/ Finish(s)
      PROVE  UNCHANGED <<up, mem, disk, suspect, crowded>>
  BY <1>5 DEF Rebind, Bind, Generate, Finish, history
<1>6. CASE UNCHANGED vars
  BY <1>2, <1>6 DEF vars, local, history
<1>7. CASE Next
  <2>1. Grudge'
    BY <1>2, <1>3, <1>4, <1>5, <1>7 DEF Next, GrudgeInv
  <2>2. QED
    BY <1>1, <2>1 DEF GrudgeInv
<1>8. QED
  BY <1>6, <1>7

\* Only a boot starts a session.
LEMMA OnlyBootStarts ==
  ASSUME TypeOK, Next, NEW s \in Sessions, ~up[s], up'[s]
  PROVE  Boot(s)
<1>1. \A t \in Sessions : Leave(t) \/ Die(t) => up' = [up EXCEPT ![t] = FALSE]
  BY DEF Leave, Die, Stop
<1>2. \A t \in Sessions : Boot(t) => up' = [up EXCEPT ![t] = TRUE]
  BY DEF Boot
<1>3. \A t \in Sessions :
        \/ \E model \in Models \cup {"auto"}, save \in BOOLEAN : Choose(t, model, save)
        \/ Rebind(t) \/ Bind(t) \/ Generate(t) \/ Finish(t) \/ Handle(t)
        => up' = up
  BY DEF Choose, Rebind, Bind, Generate, Finish, Handle, history
<1>4. QED
  BY <1>1, <1>2, <1>3 DEF Next, TypeOK

\* While sessions run one at a time, the model the last one left marked is not
\* asked for by name at any later boot, until the user insists on it or it
\* answers (StateFile::load and vet in src/src/state.rs).
THEOREM CulpritAvoided == Spec => NextBootAvoids
<1>1. Init => GrudgeInv
  <2> SUFFICES ASSUME Init PROVE GrudgeInv
    OBVIOUS
  <2>1. TypeOK /\ \A s \in Sessions : ~up[s] /\ events[s] = <<>> /\ DOMAIN events[s] = {}
    BY InitTypes DEF Init
  <2>2. MarkInv
    BY <2>1 DEF MarkInv, Marking
  <2>3. QED
    BY <2>1, <2>2 DEF Init, GrudgeInv, Grudge
<1>2. GrudgeInv /\ [Next]_vars =>
        [\A s \in Sessions :
           ~up[s] /\ up'[s] /\ ~crowded' => target'[s] = None \/ target'[s] # suspect]_vars
  <2> SUFFICES ASSUME GrudgeInv, Next, NEW s \in Sessions, ~up[s], up'[s], ~crowded'
               PROVE  target'[s] = None \/ target'[s] # suspect
    OBVIOUS
  <2>1. Boot(s)
    BY OnlyBootStarts DEF GrudgeInv, MarkInv
  <2>2. QED
    BY <2>1, BootGrudge
<1>3. QED
  BY <1>1, <1>2, StepGrudge, PTL DEF Spec, NextBootAvoids

=============================================================================
