------------------------- MODULE SettingsLanesProofs -------------------------
(***************************************************************************)
(* The model somebody named stays the one that answers, the row shows the  *)
(* one that does, and a setting changed is saved and sent; a menu leads    *)
(* back to where it was opened, chooses for its own lane, and forgets what *)
(* it showed: for every inventory, configuration, store and number of      *)
(* servers that come and go, of menus, keys, commands, answers and jobs.   *)
(***************************************************************************)
EXTENDS SettingsLanes, SequenceTheorems, WellFoundedInduction, TLAPS

\* A probe that names a model names the one it was given.
LEMMA ProbeHonours ==
  ASSUME NEW server, NEW named, named # Absent
  PROVE  Worker!ProbeModels(server, named) \in {named, Absent}
  BY DEF Worker!ProbeModels, Worker!PickModel, Worker!None, Absent

\* Late binding names the choice, or keeps what is bound.
LEMMA WakeHonours ==
  ASSUME NothingOverrulesTheChoice, chosen # Absent
  PROVE  Worker!BoundAtWake \in {chosen, Absent}
  BY ProbeHonours DEF NothingOverrulesTheChoice, Worker!BoundAtWake, Worker!None, Absent

LEMMA InitHonours == Init => NothingOverrulesTheChoice
<1> SUFFICES ASSUME Init, chosen # Absent PROVE bound \in {chosen, Absent}
  BY DEF NothingOverrulesTheChoice
<1>1. bound = Worker!ProbeModels(client, chosen)
  BY DEF Init, Worker!WorkerInit
<1>2. QED
  BY <1>1, ProbeHonours

LEMMA ServeHonours ==
  ASSUME NothingOverrulesTheChoice, Worker!Serve
  PROVE  NothingOverrulesTheChoice'
<1> USE DEF NothingOverrulesTheChoice
<1>1. CASE Worker!SetFastModel
  BY <1>1 DEF Worker!SetFastModel
<1>2. CASE UNCHANGED chosen /\ bound' = Worker!BoundAtWake
  BY <1>2, WakeHonours
<1>3. CASE Worker!SetSlowModel
  BY <1>2, <1>3 DEF Worker!SetSlowModel
<1>4. CASE Worker!SetOption
  BY <1>2, <1>4 DEF Worker!SetOption
<1>5. CASE Worker!ListModels
  BY <1>2, <1>5 DEF Worker!ListModels
<1>6. CASE Worker!Rebind
  BY <1>6 DEF Worker!Rebind, Worker!None, Absent
<1>7. CASE Worker!DrainEnds
  BY <1>7 DEF Worker!DrainEnds
<1>8. QED
  BY <1>1, <1>3, <1>4, <1>5, <1>6, <1>7 DEF Worker!Serve

LEMMA StepHonours ==
  ASSUME NothingOverrulesTheChoice, [Next]_vars
  PROVE  NothingOverrulesTheChoice'
<1>1. CASE UNCHANGED <<chosen, bound>>
  BY <1>1 DEF NothingOverrulesTheChoice
<1>2. CASE Worker!Serve
  BY <1>2, ServeHonours
<1>3. CASE Worker!ServerFlips
  BY <1>1, <1>3 DEF Worker!ServerFlips, Worker!worker
<1>4. CASE UNCHANGED workerVars \/ UNCHANGED vars
  BY <1>1, <1>4 DEF workerVars, vars
<1>5. QED
  BY <1>2, <1>3, <1>4 DEF Next

\* Nothing overrules a model somebody named: "nothing overrules that"
\* (engine.rs, pick_model).
THEOREM ChoiceStands == Spec => []NothingOverrulesTheChoice
<1>1. QED
  BY InitHonours, StepHonours, PTL DEF Spec


----------------------------------------------------------------------------
(* The row.  The model that answers is the one the last Ready on its way   *)
(* names; with none on its way, the one the row shows.                     *)

LastReady(e, i) == /\ i \in DOMAIN e
                   /\ e[i].k = "Ready"
                   /\ \A j \in DOMAIN e : j > i => e[j].k # "Ready"
WillShow(e, s, m) ==
  \/ \E i \in DOMAIN e : LastReady(e, i) /\ e[i].model = m
  \/ (\A i \in DOMAIN e : e[i].k # "Ready") /\ s = m

ASequence(e) == \E S : e \in Seq(S)
RowInv == /\ ASequence(events)
          /\ (engine /\ bound # Absent) => WillShow(events, shown, bound)

LEMMA Wider ==
  ASSUME NEW S, NEW T, NEW e \in Seq(S), S \subseteq T
  PROVE  e \in Seq(T)
  OBVIOUS

LEMMA OneMore ==
  ASSUME NEW e, ASequence(e), NEW x
  PROVE  /\ ASequence(e \o <<x>>)
         /\ DOMAIN (e \o <<x>>) = DOMAIN e \cup {Len(e) + 1}
         /\ Len(e) \in Nat /\ DOMAIN e = 1 .. Len(e)
         /\ (e \o <<x>>)[Len(e) + 1] = x
         /\ \A i \in DOMAIN e : (e \o <<x>>)[i] = e[i]
<1>1. PICK S : e \in Seq(S)
  BY DEF ASequence
<1> DEFINE T == S \cup {x}
<1>2. e \in Seq(T) /\ <<x>> \in Seq(T)
  BY <1>1, Wider
<1>3. e \o <<x>> \in Seq(T)
  BY <1>2
<1>4. ASequence(e \o <<x>>)
  BY <1>3 DEF ASequence
<1>5. Len(e \o <<x>>) = Len(e) + 1 /\ Len(e) \in Nat
  BY <1>2
<1>6. DOMAIN (e \o <<x>>) = 1 .. Len(e) + 1 /\ DOMAIN e = 1 .. Len(e)
  BY <1>2, <1>3, <1>5
<1>7. \A i \in 1 .. Len(e) + 1 : (e \o <<x>>)[i] = IF i <= Len(e) THEN e[i] ELSE x
  BY <1>2
<1>8. QED
  BY <1>4, <1>5, <1>6, <1>7

\* One event more: a Ready says what the row will show, another says nothing.
LEMMA ReadyDecides ==
  ASSUME NEW e, ASequence(e), NEW s, NEW m, NEW x, x.k = "Ready", x.model = m
  PROVE  WillShow(e \o <<x>>, s, m)
<1> DEFINE f == e \o <<x>>
<1>1. /\ DOMAIN f = DOMAIN e \cup {Len(e) + 1} /\ f[Len(e) + 1] = x
      /\ Len(e) \in Nat /\ DOMAIN e = 1 .. Len(e)
  BY OneMore
<1> HIDE DEF f
<1>2. \A j \in DOMAIN f : ~(j > Len(e) + 1)
  BY <1>1
<1>3. LastReady(f, Len(e) + 1) /\ f[Len(e) + 1].model = m
  BY <1>1, <1>2 DEF LastReady
<1>4. WillShow(f, s, m)
  BY <1>3 DEF WillShow, LastReady
<1>5. QED
  BY <1>4 DEF f

LEMMA OthersDecideNothing ==
  ASSUME NEW e, ASequence(e), NEW s, NEW m, NEW x, x.k # "Ready", WillShow(e, s, m)
  PROVE  WillShow(e \o <<x>>, s, m)
<1> DEFINE f == e \o <<x>>
<1>1. /\ DOMAIN f = DOMAIN e \cup {Len(e) + 1} /\ f[Len(e) + 1] = x
      /\ \A i \in DOMAIN e : f[i] = e[i]
  BY OneMore
<1> HIDE DEF f
<1>2. ASSUME NEW i \in DOMAIN e, LastReady(e, i) PROVE LastReady(f, i) /\ f[i].model = e[i].model
  BY <1>1, <1>2 DEF LastReady
<1>3. (\A i \in DOMAIN e : e[i].k # "Ready") => \A i \in DOMAIN f : f[i].k # "Ready"
  BY <1>1
<1>4. WillShow(f, s, m)
  BY <1>1, <1>2, <1>3 DEF WillShow
<1>5. QED
  BY <1>4 DEF f

\* What the session reads next.
LEMMA ReadingKeeps ==
  ASSUME NEW e, ASequence(e), e # <<>>, NEW s, NEW m, WillShow(e, s, m)
  PROVE  WillShow(Tail(e), IF Head(e).k = "Ready" THEN Head(e).model ELSE s, m)
<1>1. PICK S : e \in Seq(S)
  BY DEF ASequence
<1> DEFINE t == Tail(e)
           r == IF Head(e).k = "Ready" THEN Head(e).model ELSE s
<1>2. Len(e) \in Nat \ {0} /\ DOMAIN e = 1 .. Len(e) /\ Head(e) = e[1]
  BY <1>1
<1>3. DOMAIN t = 1 .. Len(e) - 1 /\ \A i \in DOMAIN t : t[i] = e[i + 1]
  BY <1>1
<1> HIDE DEF t
<1>4. ASSUME NEW i \in DOMAIN e, LastReady(e, i), e[i].model = m, i # 1 PROVE WillShow(t, r, m)
  <2>1. i - 1 \in DOMAIN t /\ t[i - 1] = e[i]
    BY <1>2, <1>3, <1>4
  <2>2. \A j \in DOMAIN t : j > i - 1 => j + 1 \in DOMAIN e /\ j + 1 > i
    BY <1>2, <1>3, <1>4
  <2>3. LastReady(t, i - 1)
    BY <1>3, <1>4, <2>1, <2>2 DEF LastReady
  <2>4. QED
    BY <1>4, <2>1, <2>3 DEF WillShow
<1>5. ASSUME LastReady(e, 1), e[1].model = m PROVE WillShow(t, r, m)
  <2>1. \A j \in DOMAIN t : j + 1 \in DOMAIN e /\ j + 1 > 1
    BY <1>2, <1>3
  <2>2. \A j \in DOMAIN t : t[j].k # "Ready"
    BY <1>3, <1>5, <2>1 DEF LastReady
  <2>3. r = m
    BY <1>2, <1>5 DEF LastReady
  <2>4. QED
    BY <2>2, <2>3 DEF WillShow
<1>6. ASSUME \A i \in DOMAIN e : e[i].k # "Ready", s = m PROVE WillShow(t, r, m)
  <2>1. \A j \in DOMAIN t : j + 1 \in DOMAIN e
    BY <1>2, <1>3
  <2>2. \A j \in DOMAIN t : t[j].k # "Ready"
    BY <1>3, <1>6, <2>1
  <2>3. r = m
    BY <1>2, <1>6
  <2>4. QED
    BY <2>2, <2>3 DEF WillShow
<1>7. WillShow(t, r, m)
  BY <1>4, <1>5, <1>6 DEF WillShow
<1>8. QED
  BY <1>7 DEF t

LEMMA ReadingLeavesASequence ==
  ASSUME NEW e, ASequence(e), e # <<>>
  PROVE  ASequence(Tail(e))
<1>1. PICK S : e \in Seq(S)
  BY DEF ASequence
<1>2. Tail(e) \in Seq(S)
  BY <1>1
<1>3. QED
  BY <1>2 DEF ASequence

LEMMA PairAtOnce ==
  ASSUME NEW T, NEW e \in Seq(T), NEW a \in T, NEW b \in T
  PROVE  e \o <<a, b>> = (e \o <<a>>) \o <<b>>
<1> DEFINE f == e \o <<a, b>>
           g == (e \o <<a>>) \o <<b>>
<1>1. <<a, b>> \in Seq(T) /\ Len(<<a, b>>) = 2
  OBVIOUS
<1>2. <<a>> \in Seq(T) /\ <<b>> \in Seq(T) /\ Len(<<a>>) = 1 /\ Len(<<b>>) = 1
  OBVIOUS
<1>3. f \in Seq(T) /\ Len(f) = Len(e) + 2
  BY <1>1
<1>4. e \o <<a>> \in Seq(T) /\ Len(e \o <<a>>) = Len(e) + 1
  BY <1>2
<1>5. g \in Seq(T) /\ Len(g) = Len(e) + 2
  BY <1>2, <1>4
<1>6. \A i \in 1 .. Len(e) + 2 :
        f[i] = IF i <= Len(e) THEN e[i] ELSE IF i = Len(e) + 1 THEN a ELSE b
  BY <1>1
<1>7. \A i \in 1 .. Len(e) + 1 : (e \o <<a>>)[i] = IF i <= Len(e) THEN e[i] ELSE a
  BY <1>2
<1>8. \A i \in 1 .. Len(e) + 2 : g[i] = IF i <= Len(e) + 1 THEN (e \o <<a>>)[i] ELSE b
  BY <1>2, <1>4
<1>9. Len(e) \in Nat
  OBVIOUS
<1> HIDE DEF f, g
<1>10. \A i \in 1 .. Len(f) : f[i] = g[i]
  BY <1>3, <1>6, <1>7, <1>8, <1>9
<1>11. f = g
  BY <1>3, <1>5, <1>10, SeqEqual
<1>12. QED
  BY <1>11 DEF f, g

\* An announcement names the model, whatever was on its way before.
LEMMA Announced ==
  ASSUME NEW e, ASequence(e), NEW s, NEW m
  PROVE  ASequence(e \o Worker!Announce(m)) /\ WillShow(e \o Worker!Announce(m), s, m)
<1> DEFINE a == Worker!Event("Ready", m, <<>>)
           b == Worker!Event("Caps", m, <<>>)
<1>1. a.k = "Ready" /\ a.model = m /\ b.k # "Ready"
  BY DEF Worker!Event
<1> HIDE DEF a, b
<1>2. PICK S : e \in Seq(S)
  BY DEF ASequence
<1>3. PICK T : e \in Seq(T) /\ a \in T /\ b \in T
  BY <1>2, Wider, S \subseteq S \cup {a, b}
<1>4. e \o <<a, b>> = (e \o <<a>>) \o <<b>>
  BY <1>3, PairAtOnce
<1>5. ASequence(e \o <<a>>) /\ WillShow(e \o <<a>>, s, m)
  BY <1>1, OneMore, ReadyDecides
<1>6. ASequence((e \o <<a>>) \o <<b>>) /\ WillShow((e \o <<a>>) \o <<b>>, s, m)
  BY <1>1, <1>5, OneMore, OthersDecideNothing
<1>7. QED
  BY <1>4, <1>6 DEF a, b, Worker!Announce

LEMMA OneAndOne ==
  ASSUME NEW x, NEW y
  PROVE  <<x>> \o <<y>> = <<x, y>>
<1> DEFINE T == {x, y}
           f == <<x>> \o <<y>>
           g == <<x, y>>
<1>1. f \in Seq(T) /\ Len(f) = 2 /\ f[1] = x /\ f[2] = y
  OBVIOUS
<1>2. g \in Seq(T) /\ Len(g) = 2 /\ g[1] = x /\ g[2] = y
  OBVIOUS
<1> HIDE DEF f, g
<1>3. \A i \in 1 .. Len(f) : f[i] = g[i]
  BY <1>1, <1>2
<1>4. f = g
  BY <1>1, <1>2, <1>3, SeqEqual
<1>5. QED
  BY <1>4 DEF f, g

LEMMA NothingAdded ==
  ASSUME NEW e, ASequence(e)
  PROVE  e \o <<>> = e
<1>1. PICK S : e \in Seq(S)
  BY DEF ASequence
<1>2. QED
  BY <1>1

----------------------------------------------------------------------------
\* The late binding at the first job of a drain is announced.
Woken == events \o Worker!WakeEvents
LEMMA WakeAnnounces ==
  ASSUME RowInv, engine
  PROVE  /\ ASequence(Woken)
         /\ Worker!BoundAtWake # Absent => WillShow(Woken, shown, Worker!BoundAtWake)
<1>1. CASE Worker!BoundAtWake # bound
  BY <1>1, Announced DEF Woken, Worker!WakeEvents, RowInv
<1>2. CASE Worker!BoundAtWake = bound
  <2>1. Woken = events
    BY <1>2, NothingAdded DEF Woken, Worker!WakeEvents, RowInv
  <2>2. QED
    BY <1>2, <2>1 DEF RowInv
<1>3. QED
  BY <1>1, <1>2

LEMMA ServeRow ==
  ASSUME RowInv, engine, Worker!Serve, UNCHANGED <<engine, shown>>
  PROVE  RowInv'
<1> SUFFICES /\ ASequence(events')
             /\ bound' # Absent => WillShow(events', shown, bound')
  BY DEF RowInv
<1>1. CASE bound' = Worker!BoundAtWake /\ events' = Woken
  BY <1>1, WakeAnnounces
<1>2. CASE Worker!SetFastModel
  <2>1. CASE Worker!BoundAtWake # Worker!None
    <3>1. bound' = Head(jobs).v /\ events' = events \o Worker!WakeEvents \o Worker!Announce(bound')
      BY <1>2, <2>1 DEF Worker!SetFastModel
    <3>2. events' = Woken \o Worker!Announce(bound')
      BY <3>1 DEF Woken
    <3>3. QED
      BY <3>2, WakeAnnounces, Announced
  <2>2. CASE Worker!BoundAtWake = Worker!None
    BY <1>2, <2>2 DEF Worker!SetFastModel, RowInv
  <2>3. QED
    BY <2>1, <2>2
<1>3. CASE Worker!SetSlowModel
  BY <1>1, <1>3 DEF Worker!SetSlowModel, Woken
<1>4. CASE Worker!SetOption
  BY <1>1, <1>4 DEF Worker!SetOption, Woken
<1>5. CASE Worker!Rebind
  <2>1. events' = Woken \o Worker!AnnounceIf(bound')
    BY <1>5 DEF Worker!Rebind, Woken
  <2>2. CASE bound' # Absent
    BY <2>1, <2>2, WakeAnnounces, Announced DEF Worker!AnnounceIf, Worker!None, Absent
  <2>3. CASE bound' = Absent
    BY <2>1, <2>3, WakeAnnounces, NothingAdded DEF Worker!AnnounceIf, Worker!None, Absent
  <2>4. QED
    BY <2>2, <2>3
<1>6. CASE Worker!ListModels
  <2>1. PICK list, x : /\ bound' = Worker!BoundAtWake
                       /\ events' = Woken \o list
                       /\ list \in {<<>>, <<x>>} /\ x.k = "Models"
    <3> DEFINE own  == Head(jobs).k = "ListSlowModels" /\ split.on
               from == IF own THEN split.client ELSE client
               y    == Worker!Event("Models", Worker!None, Inventory[from])
    <3>1. y.k = "Models"
      BY DEF Worker!Event
    <3>2. bound' = Worker!BoundAtWake
      BY <1>6 DEF Worker!ListModels
    <3>3. events' = Woken \o <<>> \/ events' = Woken \o <<y>>
      BY <1>6 DEF Worker!ListModels, Woken
    <3>4. QED
      BY <3>1, <3>2, <3>3
  <2>2. CASE list = <<>>
    BY <2>1, <2>2, WakeAnnounces, NothingAdded
  <2>3. CASE list = <<x>>
    BY <2>1, <2>3, WakeAnnounces, OneMore, OthersDecideNothing
  <2>4. QED
    BY <2>1, <2>2, <2>3
<1>7. CASE Worker!DrainEnds
  BY <1>7 DEF Worker!DrainEnds, RowInv
<1>8. QED
  BY <1>2, <1>3, <1>4, <1>5, <1>6, <1>7 DEF Worker!Serve

LEMMA ReadRow ==
  ASSUME RowInv, ReadEvent, UNCHANGED bound
  PROVE  RowInv'
<1>1. /\ events # <<>> /\ events' = Tail(events) /\ engine' = engine
      /\ shown' = IF Head(events).k = "Ready" THEN Head(events).model ELSE shown
  BY DEF ReadEvent, ReadReady, ReadCaps, ReadModels
<1>2. ASequence(events') /\ bound' = bound
  BY <1>1, ReadingLeavesASequence DEF RowInv
<1>3. (engine /\ bound # Absent) => WillShow(events', shown', bound)
  BY <1>1, ReadingKeeps DEF RowInv
<1>4. QED
  BY <1>1, <1>2, <1>3 DEF RowInv

LEMMA InitRow == Init => RowInv
<1> SUFFICES ASSUME Init PROVE RowInv
  OBVIOUS
<1>1. events = Worker!AnnounceIf(bound)
  BY DEF Init, Worker!WorkerInit
<1>2. ASequence(<<>>)
  <2>1. <<>> \in Seq({})
    OBVIOUS
  <2>2. QED
    BY <2>1 DEF ASequence
<1>3. CASE bound = Absent
  BY <1>1, <1>2, <1>3 DEF RowInv, Worker!AnnounceIf, Worker!None, Absent
<1>4. CASE bound # Absent
  <2>1. <<>> \o Worker!Announce(bound) = Worker!Announce(bound)
    BY DEF Worker!Announce, Worker!Event
  <2>2. events = Worker!Announce(bound)
    BY <1>1, <1>4 DEF Worker!AnnounceIf, Worker!None, Absent
  <2>3. ASequence(events) /\ WillShow(events, shown, bound)
    BY <1>2, <2>1, <2>2, Announced
  <2>4. QED
    BY <2>3 DEF RowInv
<1>5. QED
  BY <1>3, <1>4

LEMMA StepRow ==
  ASSUME RowInv, [Next]_vars
  PROVE  RowInv'
<1>1. CASE UNCHANGED <<engine, events, shown, bound>>
  BY <1>1 DEF RowInv
<1>2. CASE AtKeyboard /\ UNCHANGED workerVars
  <2>1. UNCHANGED <<engine, events, shown>>
    BY <1>2 DEF AtKeyboard, MenuKeys, OpenMenu, NameModel, NameSlowModel, MemoryCommand
  <2>2. QED
    BY <1>1, <1>2, <2>1 DEF workerVars
<1>3. CASE FromEngine /\ UNCHANGED workerVars
  <2>1. UNCHANGED bound
    BY <1>3 DEF workerVars
  <2>2. CASE ReadEvent
    BY <2>1, <2>2, ReadRow
  <2>3. CASE EngineLost
    BY <2>3 DEF EngineLost, RowInv
  <2>4. CASE \E a \in Answers : AnswerRewrites(a[1], a[2])
    BY <1>1, <2>1, <2>4 DEF AnswerRewrites
  <2>5. QED
    BY <1>3, <2>2, <2>3, <2>4 DEF FromEngine
<1>4. CASE engine /\ Worker!Serve /\ UNCHANGED sessionVars
  BY <1>4, ServeRow DEF sessionVars
<1>5. CASE Worker!ServerFlips /\ UNCHANGED sessionVars
  BY <1>1, <1>5 DEF Worker!ServerFlips, Worker!worker, sessionVars
<1>6. CASE UNCHANGED vars
  BY <1>1, <1>6 DEF vars, sessionVars, workerVars
<1>7. QED
  BY <1>2, <1>3, <1>4, <1>5, <1>6 DEF Next

\* With nothing under way the model row names the model that answers: every
\* way the worker comes to a binding says so on the channel the row is read
\* from, and the last word on it is the binding (engine.rs, announce;
\* session.rs, Event::Ready).
THEOREM RowTells == Spec => []RowShowsBinding
<1>1. RowInv => RowShowsBinding
  <2> SUFFICES ASSUME RowInv, engine, events = <<>>, bound # Absent PROVE shown = bound
    BY DEF RowShowsBinding
  <2>1. DOMAIN events = {}
    OBVIOUS
  <2>2. QED
    BY <2>1 DEF RowInv, WillShow
<1>2. QED
  BY <1>1, InitRow, StepRow, PTL DEF Spec


-----------------------------------------------------------------------------
(* Induction, and selections from a sequence *)

\* A set of numbers has a least one.
LEMMA Least ==
  ASSUME NEW B, B \subseteq Nat, B # {}
  PROVE  \E n \in B : \A m \in B : n <= m
<1>1. PICK n \in B : \A m \in B : ~ (<<m, n>> \in OpToRel(<, Nat))
  BY WFMin, NatLessThanWellFounded
<1>2. \A m \in B : ~ (m < n)
  BY <1>1, Zenon DEF OpToRel
<1>3. \A m \in B : m \in Nat /\ n \in Nat
  OBVIOUS
<1>4. QED
  BY <1>2, <1>3

\* Nothing is the first to fail.
LEMMA Induct ==
  ASSUME NEW N \in Nat, NEW B, B \subseteq 0 .. N, 0 \notin B,
         \A n \in 0 .. N - 1 : n \notin B => n + 1 \notin B
  PROVE  B = {}
<1> SUFFICES ASSUME B # {} PROVE FALSE
  OBVIOUS
<1>0. B \subseteq Nat
  OBVIOUS
<1>1. PICK n \in B : \A m \in B : n <= m
  BY <1>0, Least
<1>2. n \in 1 .. N /\ n - 1 \in 0 .. N - 1
  OBVIOUS
<1>3. n - 1 \notin B
  BY <1>1, <1>2
<1>4. (n - 1) + 1 = n
  BY <1>2
<1>5. QED
  BY <1>2, <1>3, <1>4

LEMMA ElementsOfAppend ==
  ASSUME NEW S, NEW s \in Seq(S), NEW e \in S
  PROVE  Append(s, e) \in Seq(S) /\ ToSet(Append(s, e)) = ToSet(s) \cup {e}
<1>1. Append(s, e) \in Seq(S) /\ Len(Append(s, e)) = Len(s) + 1 /\ Len(s) \in Nat
  OBVIOUS
<1>2. DOMAIN s = 1 .. Len(s) /\ DOMAIN Append(s, e) = 1 .. Len(s) + 1
  BY <1>1
<1>3. /\ \A i \in 1 .. Len(s) : Append(s, e)[i] = s[i]
      /\ Append(s, e)[Len(s) + 1] = e
  OBVIOUS
<1>4. \A i \in 1 .. Len(s) + 1 : i \in 1 .. Len(s) \/ i = Len(s) + 1
  BY <1>1
<1>5. Len(s) + 1 \in 1 .. Len(s) + 1 /\ \A i \in 1 .. Len(s) : i \in 1 .. Len(s) + 1
  BY <1>1
<1>6. QED
  BY <1>1, <1>2, <1>3, <1>4, <1>5 DEF ToSet

LEMMA ElementsOfBoth ==
  ASSUME NEW S, NEW s \in Seq(S), NEW t \in Seq(S)
  PROVE  s \o t \in Seq(S) /\ ToSet(s \o t) = ToSet(s) \cup ToSet(t)
<1>1. /\ s \o t \in Seq(S) /\ Len(s \o t) = Len(s) + Len(t)
      /\ Len(s) \in Nat /\ Len(t) \in Nat
  OBVIOUS
<1>2. /\ DOMAIN s = 1 .. Len(s) /\ DOMAIN t = 1 .. Len(t)
      /\ DOMAIN (s \o t) = 1 .. Len(s) + Len(t)
  BY <1>1
<1>3. /\ \A i \in 1 .. Len(s) : (s \o t)[i] = s[i]
      /\ \A i \in 1 .. Len(t) : (s \o t)[Len(s) + i] = t[i]
  OBVIOUS
<1>4. \A i \in 1 .. Len(s) + Len(t) :
        i \in 1 .. Len(s) \/ (i - Len(s) \in 1 .. Len(t) /\ i = Len(s) + (i - Len(s)))
  BY <1>1
<1>5. ToSet(s \o t) \subseteq ToSet(s) \cup ToSet(t)
  BY <1>2, <1>3, <1>4 DEF ToSet
<1>6. /\ \A i \in 1 .. Len(s) : i \in 1 .. Len(s) + Len(t)
      /\ \A i \in 1 .. Len(t) : Len(s) + i \in 1 .. Len(s) + Len(t)
  BY <1>1
<1>7. ToSet(s) \subseteq ToSet(s \o t) /\ ToSet(t) \subseteq ToSet(s \o t)
  BY <1>2, <1>3, <1>6 DEF ToSet
<1>8. QED
  BY <1>1, <1>5, <1>7

\* g is the selection from each of the first n members.
Selecting(s, S, n, g) ==
  g = [i \in 0 .. n |-> IF i = 0 THEN <<>>
                        ELSE IF s[i] \in S THEN Append(g[i - 1], s[i]) ELSE g[i - 1]]

LEMMA SelectionDefined ==
  ASSUME NEW s, NEW S, NEW N \in Nat
  PROVE  \E g : Selecting(s, S, N, g)
<1> DEFINE B == {n \in 0 .. N : ~ \E g : Selecting(s, S, n, g)}
           More(g, i) == IF s[i] \in S THEN Append(g[i - 1], s[i]) ELSE g[i - 1]
<1>1. B \subseteq 0 .. N
  OBVIOUS
<1>2. 0 \notin B
  <2>1. Selecting(s, S, 0, [i \in 0 .. 0 |-> <<>>])
    BY DEF Selecting
  <2>2. QED
    BY <2>1
<1>3. ASSUME NEW n \in 0 .. N - 1, n \notin B
      PROVE  n + 1 \notin B
  <2>0. n \in Nat /\ n + 1 \in 0 .. n + 1 /\ n + 1 # 0
    OBVIOUS
  <2>1. PICK g : Selecting(s, S, n, g)
    BY <1>3
  <2> DEFINE next == IF s[n + 1] \in S THEN Append(g[n], s[n + 1]) ELSE g[n]
             h == [i \in 0 .. n + 1 |-> IF i = n + 1 THEN next ELSE g[i]]
             k == [i \in 0 .. n + 1 |-> IF i = 0 THEN <<>> ELSE More(h, i)]
  <2>2. \A i \in 0 .. n : h[i] = g[i]
    BY <2>0
  <2>3. \A i \in 1 .. n + 1 : i - 1 \in 0 .. n
    BY <2>0
  <2>4. \A i \in 0 .. n : g[i] = IF i = 0 THEN <<>> ELSE More(g, i)
    BY <2>1 DEF Selecting
  <2>5. h[n + 1] = next
    BY <2>0
  <2>6. \A i \in 1 .. n + 1 : h[i - 1] = g[i - 1]
    BY <2>2, <2>3
  <2>7. (n + 1) - 1 = n
    BY <2>0
  <2>8. h[n + 1] = k[n + 1]
    BY <2>0, <2>5, <2>6, <2>7
  <2>9. \A i \in 0 .. n : h[i] = k[i]
    BY <2>2, <2>4, <2>6
  <2>10. \A i \in 0 .. n + 1 : i \in 0 .. n \/ i = n + 1
    BY <2>0
  <2>11. h = k
    BY <2>8, <2>9, <2>10
  <2>12. Selecting(s, S, n + 1, h)
    BY <2>11 DEF Selecting
  <2>13. QED
    BY <2>12
<1>4. B = {}
  BY <1>1, <1>2, <1>3, Induct
<1>5. QED
  BY <1>4

\* A selection keeps what is in the set, and nothing else.
LEMMA Selection ==
  ASSUME NEW T, NEW s \in Seq(T), NEW S
  PROVE  Only(s, S) \in Seq(T) /\ ToSet(Only(s, S)) = ToSet(s) \cap S
<1> DEFINE N == Len(s)
           g == CHOOSE f : Selecting(s, S, N, f)
           First(n) == {s[i] : i \in 1 .. n}
           B == {n \in 0 .. N : ~(g[n] \in Seq(T) /\ ToSet(g[n]) = First(n) \cap S)}
<1>0. N \in Nat /\ \A i \in 1 .. N : s[i] \in T
  OBVIOUS
<1>1. Selecting(s, S, N, g)
  BY <1>0, SelectionDefined
<1>2. Only(s, S) = g[N]
  BY DEF Only, Selecting
<1>3. \A i \in 0 .. N : g[i] = IF i = 0 THEN <<>>
                               ELSE IF s[i] \in S THEN Append(g[i - 1], s[i]) ELSE g[i - 1]
  BY <1>1 DEF Selecting
<1> HIDE DEF g
<1>4. 0 \notin B
  <2>1. g[0] = <<>>
    BY <1>0, <1>3
  <2>2. ToSet(<<>>) = {}
    BY DEF ToSet
  <2>3. First(0) = {} /\ <<>> \in Seq(T)
    OBVIOUS
  <2>4. QED
    BY <2>1, <2>2, <2>3
<1>5. ASSUME NEW n \in 0 .. N - 1, n \notin B
      PROVE  n + 1 \notin B
  <2>1. n \in 0 .. N /\ n + 1 \in 1 .. N /\ n + 1 \in 0 .. N /\ (n + 1) - 1 = n
    BY <1>0
  <2>2. g[n] \in Seq(T) /\ ToSet(g[n]) = First(n) \cap S
    BY <1>5, <2>1
  <2>3. s[n + 1] \in T /\ g[n + 1] = IF s[n + 1] \in S THEN Append(g[n], s[n + 1]) ELSE g[n]
    BY <1>0, <1>3, <2>1
  <2>4. \A i \in 1 .. n + 1 : i \in 1 .. n \/ i = n + 1
    BY <2>1
  <2>5. First(n + 1) = First(n) \cup {s[n + 1]}
    BY <2>1, <2>4
  <2> HIDE DEF First
  <2>6. CASE s[n + 1] \in S
    <3>1. g[n + 1] = Append(g[n], s[n + 1])
      BY <2>3, <2>6
    <3>2. g[n + 1] \in Seq(T) /\ ToSet(g[n + 1]) = ToSet(g[n]) \cup {s[n + 1]}
      BY <2>2, <2>3, <3>1, ElementsOfAppend
    <3>3. QED
      BY <2>2, <2>5, <2>6, <3>2
  <2>7. CASE s[n + 1] \notin S
    BY <2>2, <2>3, <2>5, <2>7
  <2>8. QED
    BY <2>6, <2>7
<1>6. B = {}
  BY <1>0, <1>4, <1>5, Induct
<1>7. N \in 0 .. N /\ First(N) = ToSet(s)
  BY <1>0 DEF ToSet
<1>8. QED
  BY <1>2, <1>6, <1>7


-----------------------------------------------------------------------------
(* The keys of one read *)

MenuFields == {"kind", "items", "filter", "cursor", "loaded", "armed", "typing", "text",
               "composeRow", "viewing", "group", "valueRow", "parent"}
RequestFields == {"committed", "close", "up", "into", "picked", "typedRow", "typed", "noted",
                  "note", "view"}

\* The rows with a switch the worker has a copy of.
Switches == {"command_first", "platform"}

\* A drop-down offers words that stand for a value, of a row that is no switch;
\* its field is the custom one of that row.
PickFits(m) ==
  /\ DOMAIN m = MenuFields
  /\ m.kind = "ValuePick" =>
       /\ m.loaded /\ m.cursor \in Nat /\ (m.typing => m.composeRow # "")
       /\ m.valueRow[2] \notin Switches \cup {""}
       /\ ASequence(m.items) /\ \A r \in ToSet(m.items) : Label(r) # Absent

\* The keys leave alone what the menu is of ...
Alike(m, n) ==
  /\ DOMAIN n = MenuFields /\ n.kind = m.kind /\ n.items = m.items
  /\ n.loaded = m.loaded /\ n.valueRow = m.valueRow

\* ... and its field is still the row's.
Browsed(m, n) ==
  Alike(m, n) /\ (m.kind = "ValuePick" => n.cursor \in Nat /\ (n.typing => n.composeRow # ""))

\* What they ask for: a value is picked off a drop-down's list, and a note is
\* not for one.
Asks(m, req) ==
  /\ DOMAIN req = RequestFields
  /\ req.picked # NoRow => m.kind = "ValuePick" /\ req.picked \in ToSet(m.items)
  /\ m.kind = "ValuePick" => ~req.noted

Pressed(m, s) == DOMAIN s = {"m", "req"} /\ Browsed(m, s.m) /\ Asks(m, s.req)

\* Where the cursor can be.
LEMMA FilteredOfItems ==
  ASSUME NEW m, ASequence(m.items)
  PROVE  Len(Filtered(m)) \in Nat /\ \A i \in 1 .. Len(Filtered(m)) : Filtered(m)[i] \in ToSet(m.items)
<1>1. PICK T : m.items \in Seq(T)
  BY DEF ASequence
<1>2. Filtered(m) \in Seq(T) /\ ToSet(Filtered(m)) \subseteq ToSet(m.items)
  BY <1>1, Selection DEF Filtered
<1>3. Len(Filtered(m)) \in Nat /\ DOMAIN Filtered(m) = 1 .. Len(Filtered(m))
  BY <1>2
<1>4. QED
  BY <1>2, <1>3 DEF ToSet

LEMMA SelectedIsAnItem ==
  ASSUME NEW m, ASequence(m.items), m.cursor \in Nat
  PROVE  Selected(m) \in ToSet(m.items) \cup {NoRow}
<1>1. CASE m.cursor < Len(Filtered(m))
  <2>1. m.cursor + 1 \in 1 .. Len(Filtered(m))
    BY <1>1, FilteredOfItems
  <2>2. QED
    BY <1>1, <2>1, FilteredOfItems DEF Selected
<1>2. CASE ~(m.cursor < Len(Filtered(m)))
  BY <1>2 DEF Selected
<1>3. QED
  BY <1>1, <1>2

LEMMA ClampMovesTheCursor ==
  ASSUME NEW m, DOMAIN m = MenuFields
  PROVE  /\ Alike(m, Clamp(m)) /\ Clamp(m).typing = m.typing
         /\ Clamp(m).composeRow = m.composeRow
         /\ ASequence(m.items) /\ m.cursor \in Nat => Clamp(m).cursor \in Nat
<1> DEFINE n == Len(Filtered(m))
           c == IF m.cursor < n THEN m.cursor ELSE IF n = 0 THEN 0 ELSE n - 1
<1>1. Clamp(m) = [m EXCEPT !.cursor = c]
  BY DEF Clamp
<1>2. ASequence(m.items) /\ m.cursor \in Nat => c \in Nat
  BY FilteredOfItems
<1> HIDE DEF c
<1>3. QED
  BY <1>1, <1>2 DEF Alike, MenuFields

\* A key that only moves about, and one that only asks.
LEMMA Moved ==
  ASSUME NEW m, NEW s, Pressed(m, s), NEW n, Browsed(m, n)
  PROVE  Pressed(m, [s EXCEPT !.m = n])
  BY DEF Pressed

LEMMA Requested ==
  ASSUME NEW m, NEW s, Pressed(m, s), NEW f \in RequestFields \ {"picked", "noted"}, NEW x
  PROVE  Pressed(m, [s EXCEPT !.req[f] = x])
<1> DEFINE r == [s.req EXCEPT ![f] = x]
<1>1. DOMAIN r = RequestFields /\ r.picked = s.req.picked /\ r.noted = s.req.noted
  BY DEF Pressed, Asks, RequestFields
<1> HIDE DEF r
<1>2. Asks(m, r)
  BY <1>1 DEF Pressed, Asks
<1>3. Pressed(m, [s EXCEPT !.req = r])
  BY <1>2 DEF Pressed
<1>4. QED
  BY <1>3 DEF r

LEMMA Adjusted ==
  ASSUME NEW m, NEW n, Browsed(m, n),
         NEW f \in {"filter", "armed", "text", "viewing"}, NEW x
  PROVE  Browsed(m, [n EXCEPT ![f] = x])
  BY DEF Browsed, Alike, MenuFields


LEMMA ComposeKeyPresses ==
  ASSUME NEW m, NEW s, NEW key, Pressed(m, s), s.m.typing
  PROVE  Pressed(m, ComposeKey(s, key))
<1> DEFINE n    == s.m
           done == [n EXCEPT !.typing = FALSE, !.text = <<>>, !.composeRow = ""]
<1>1. Browsed(m, n)
  BY DEF Pressed
<1>2. Browsed(m, done)
  BY <1>1 DEF Browsed, Alike, MenuFields
<1>3. ASSUME NEW x PROVE Pressed(m, [s EXCEPT !.m.text = x])
  <2>1. Browsed(m, [n EXCEPT !.text = x])
    BY <1>1, Adjusted
  <2>2. QED
    BY <2>1, Moved
<1>4. Pressed(m, [s EXCEPT !.m = done])
  BY <1>2, Moved
<1>5. Pressed(m, [m |-> done, req |-> [s.req EXCEPT !.typedRow = n.composeRow, !.typed = n.text]])
  BY <1>2 DEF Pressed, Asks, RequestFields
<1>6. n.composeRow = "" =>
        Pressed(m, [m |-> done, req |-> [s.req EXCEPT !.noted = TRUE, !.note = n.text]])
  <2> SUFFICES ASSUME n.composeRow = ""
               PROVE  Pressed(m, [m |-> done, req |-> [s.req EXCEPT !.noted = TRUE, !.note = n.text]])
    OBVIOUS
  <2> DEFINE r == [s.req EXCEPT !.noted = TRUE, !.note = n.text]
  <2>1. m.kind # "ValuePick"
    BY DEF Pressed, Browsed
  <2>2. Asks(m, r)
    BY <2>1 DEF Pressed, Asks, RequestFields
  <2> HIDE DEF r, done
  <2>3. Pressed(m, [m |-> done, req |-> r])
    BY <1>2, <2>2 DEF Pressed
  <2>4. QED
    BY <2>3 DEF r
<1> HIDE DEF done
<1>7. /\ Pressed(m, [s EXCEPT !.m.text = Append(s.m.text, key.c)])
      /\ Pressed(m, [s EXCEPT !.m.text = Front(s.m.text)])
      /\ Pressed(m, [s EXCEPT !.m.text = <<>>])
  BY <1>3
<1>8. DOMAIN s = {"m", "req"} /\ "text" \in DOMAIN s.m
  BY <1>1 DEF Pressed, Alike, Browsed, MenuFields
<1> HIDE DEF n
<1>9. CASE key.k = "Char"
  <2>1. ComposeKey(s, key) \in {[s EXCEPT !.m.text = Append(s.m.text, key.c)], s}
    BY <1>8, <1>9 DEF ComposeKey
  <2>2. QED
    BY <1>7, <2>1
<1>10. CASE key.k = "Backspace"
  <2>1. ComposeKey(s, key) \in {[s EXCEPT !.m.text = Front(s.m.text)], s}
    BY <1>8, <1>10 DEF ComposeKey
  <2>2. QED
    BY <1>7, <2>1
<1>11. CASE key.k = "KillLine"
  BY <1>7, <1>11 DEF ComposeKey
<1>12. CASE key.k = "Esc"
  BY <1>4, <1>12 DEF ComposeKey, done, n
<1>13. CASE key.k = "Enter" /\ s.m.composeRow # ""
  BY <1>5, <1>13 DEF ComposeKey, done, n
<1>14. CASE key.k = "Enter" /\ s.m.composeRow = ""
  BY <1>6, <1>14 DEF ComposeKey, done, n
<1>15. CASE key.k \notin {"Char", "Backspace", "KillLine", "Esc", "Enter"}
  BY <1>15 DEF ComposeKey
<1>16. QED
  BY <1>9, <1>10, <1>11, <1>12, <1>13, <1>14, <1>15

LEMMA PaneKeyPresses ==
  ASSUME NEW m, NEW s, NEW key, Pressed(m, s)
  PROVE  Pressed(m, PaneKey(s, key))
<1>1. Browsed(m, [s.m EXCEPT !.viewing = NoRow])
  BY Adjusted DEF Pressed
<1>2. Pressed(m, [s EXCEPT !.m.viewing = NoRow])
  BY <1>1, Moved
<1>3. QED
  BY <1>2 DEF PaneKey

LEMMA Disarmed ==
  ASSUME NEW m, NEW s, Pressed(m, s), NEW x
  PROVE  Browsed(m, [s.m EXCEPT !.armed = x]) /\ Pressed(m, [s EXCEPT !.m.armed = x])
<1>1. Browsed(m, [s.m EXCEPT !.armed = x])
  BY Adjusted DEF Pressed
<1>2. QED
  BY <1>1, Moved

LEMMA EscKeyPresses ==
  ASSUME NEW m, NEW s, Pressed(m, s)
  PROVE  Pressed(m, EscKey(s))
<1>1. Pressed(m, [s EXCEPT !.m.armed = NoRow])
  BY Disarmed
<1>2. "up" \in RequestFields \ {"picked", "noted"} /\ "close" \in RequestFields \ {"picked", "noted"}
  BY DEF RequestFields
<1>3. Pressed(m, [s EXCEPT !.req.up = TRUE]) /\ Pressed(m, [s EXCEPT !.req.close = TRUE])
  BY <1>2, Requested
<1>4. QED
  BY <1>1, <1>3 DEF EscKey

LEMMA SideKeyPresses ==
  ASSUME NEW m, NEW s, NEW key, Pressed(m, s)
  PROVE  Pressed(m, SideKey(s, key))
<1>1. "up" \in RequestFields \ {"picked", "noted"} /\ "into" \in RequestFields \ {"picked", "noted"}
  BY DEF RequestFields
<1>2. Pressed(m, [s EXCEPT !.req.up = TRUE]) /\ Pressed(m, [s EXCEPT !.req.into = Selected(s.m).n])
  BY <1>1, Requested
<1>3. QED
  BY <1>2 DEF SideKey

LEMMA EnterKeyPresses ==
  ASSUME NEW m, NEW s, PickFits(m), Pressed(m, s)
  PROVE  Pressed(m, EnterKey(s))
<1> DEFINE n   == s.m
           sel == Selected(n)
<1>1. Browsed(m, n) /\ Asks(m, s.req) /\ DOMAIN s = {"m", "req"}
  BY DEF Pressed
<1>2. RequestFields \ {"picked", "noted"} =
        {"committed", "close", "up", "into", "typedRow", "typed", "note", "view"}
  BY DEF RequestFields
<1>3. Pressed(m, [s EXCEPT !.req.up = TRUE])
  BY <1>2, Requested
<1>4. n.kind \in {"Model", "SlowModel"} =>
        Pressed(m, [s EXCEPT !.req.committed = sel, !.req.up = @ \/ n.parent # NoParent,
                             !.req.close = @ \/ n.parent = NoParent])
  <2> DEFINE r == [s.req EXCEPT !.committed = sel, !.up = @ \/ n.parent # NoParent,
                                !.close = @ \/ n.parent = NoParent]
  <2>1. Asks(m, r)
    BY <1>1 DEF Asks, RequestFields
  <2>2. Pressed(m, [s EXCEPT !.req = r])
    BY <1>1, <2>1 DEF Pressed
  <2>3. QED
    BY <2>2
<1>5. n.kind = "ValuePick" /\ sel # NoRow =>
        Pressed(m, [s EXCEPT !.req.picked = sel, !.req.up = TRUE])
  <2> SUFFICES ASSUME n.kind = "ValuePick", sel # NoRow
               PROVE  Pressed(m, [s EXCEPT !.req.picked = sel, !.req.up = TRUE])
    OBVIOUS
  <2> DEFINE r == [s.req EXCEPT !.picked = sel, !.up = TRUE]
  <2>1. m.kind = "ValuePick" /\ n.items = m.items /\ n.cursor \in Nat /\ ASequence(m.items)
    BY <1>1 DEF Browsed, Alike, PickFits
  <2>2. sel \in ToSet(m.items)
    BY <2>1, SelectedIsAnItem
  <2> HIDE DEF sel
  <2>3. Asks(m, r)
    BY <1>1, <2>1, <2>2 DEF Asks, RequestFields
  <2>4. Pressed(m, [s EXCEPT !.req = r])
    BY <1>1, <2>3 DEF Pressed
  <2>5. QED
    BY <2>4
<1>6. Pressed(m, [s EXCEPT !.req.into = sel.n]) /\ Pressed(m, [s EXCEPT !.req.committed = sel])
  BY <1>2, Requested
<1>7. n.kind # "ValuePick" =>
        Pressed(m, [s EXCEPT !.m.typing = TRUE, !.m.text = <<>>, !.m.armed = NoRow])
  <2> SUFFICES ASSUME n.kind # "ValuePick"
               PROVE  Pressed(m, [s EXCEPT !.m.typing = TRUE, !.m.text = <<>>, !.m.armed = NoRow])
    OBVIOUS
  <2> DEFINE t == [n EXCEPT !.typing = TRUE, !.text = <<>>, !.armed = NoRow]
  <2>1. Browsed(m, t)
    BY <1>1 DEF Browsed, Alike, MenuFields
  <2>2. Pressed(m, [s EXCEPT !.m = t])
    BY <2>1, Moved
  <2>3. QED
    BY <2>2
<1>8. Pressed(m, [s EXCEPT !.m.armed = NoRow, !.req.view = sel])
  <2>1. Pressed(m, [s EXCEPT !.m.armed = NoRow])
    BY Disarmed
  <2>2. Pressed(m, [[s EXCEPT !.m.armed = NoRow] EXCEPT !.req.view = sel])
    BY <1>2, <2>1, Requested
  <2>3. QED
    BY <2>2
<1>9. Browser(n) => n.kind # "ValuePick"
  BY DEF Browser
<1> HIDE DEF n, sel
<1>10. QED
  BY <1>3, <1>4, <1>5, <1>6, <1>7, <1>8, <1>9 DEF EnterKey, n, sel

LEMMA DestroyKeyPresses ==
  ASSUME NEW m, NEW s, Pressed(m, s)
  PROVE  Pressed(m, DestroyKey(s))
<1> DEFINE sel == Selected(s.m)
<1>1. Pressed(m, [s EXCEPT !.m.armed = NoRow]) /\ Pressed(m, [s EXCEPT !.m.armed = sel])
  BY Disarmed
<1>2. "committed" \in RequestFields \ {"picked", "noted"}
  BY DEF RequestFields
<1>3. Pressed(m, [[s EXCEPT !.m.armed = NoRow] EXCEPT !.req.committed = sel])
  BY <1>1, <1>2, Requested
<1>4. Pressed(m, [s EXCEPT !.m.armed = NoRow, !.req.committed = sel])
  BY <1>3
<1> HIDE DEF sel
<1>5. QED
  BY <1>1, <1>4 DEF DestroyKey, sel


LEMMA MoveKeyPresses ==
  ASSUME NEW m, NEW s, NEW key, PickFits(m), Pressed(m, s)
  PROVE  Pressed(m, MoveKey(s, key))
<1> DEFINE n    == [s.m EXCEPT !.armed = NoRow]
           down == [n EXCEPT !.cursor = n.cursor + 1]
           up   == [n EXCEPT !.cursor = IF n.cursor = 0 THEN 0 ELSE n.cursor - 1]
<1>1. Browsed(m, n) /\ DOMAIN s = {"m", "req"}
  BY Disarmed DEF Pressed
<1> HIDE DEF n
<1>2. DOMAIN n = MenuFields /\ (m.kind = "ValuePick" => n.cursor \in Nat /\ ASequence(n.items))
  BY <1>1 DEF Browsed, Alike, PickFits
<1>0. ASSUME NEW c, m.kind = "ValuePick" => c \in Nat PROVE Browsed(m, [n EXCEPT !.cursor = c])
  BY <1>0, <1>1 DEF Browsed, Alike, MenuFields
<1>3. Browsed(m, up)
  <2> DEFINE c == IF n.cursor = 0 THEN 0 ELSE n.cursor - 1
  <2>1. m.kind = "ValuePick" => c \in Nat
    BY <1>2
  <2> HIDE DEF c
  <2>2. Browsed(m, [n EXCEPT !.cursor = c])
    BY <1>0, <2>1
  <2>3. QED
    BY <2>2 DEF c
<1>4. Browsed(m, down)
  <2> DEFINE c == n.cursor + 1
  <2>1. m.kind = "ValuePick" => c \in Nat
    BY <1>2
  <2> HIDE DEF c
  <2>2. Browsed(m, [n EXCEPT !.cursor = c])
    BY <1>0, <2>1
  <2>3. QED
    BY <2>2 DEF c
<1> HIDE DEF up, down
<1>5. Browsed(m, Clamp(down))
  <2>1. DOMAIN down = MenuFields /\ (m.kind = "ValuePick" => down.cursor \in Nat /\ ASequence(down.items))
    BY <1>4 DEF Browsed, Alike, PickFits
  <2>2. /\ Alike(down, Clamp(down)) /\ Clamp(down).typing = down.typing
        /\ Clamp(down).composeRow = down.composeRow
        /\ ASequence(down.items) /\ down.cursor \in Nat => Clamp(down).cursor \in Nat
    BY <2>1, ClampMovesTheCursor
  <2>3. QED
    BY <1>4, <2>1, <2>2 DEF Browsed, Alike
<1>6. Pressed(m, [s EXCEPT !.m = Clamp(down)]) /\ Pressed(m, [s EXCEPT !.m = up])
  BY <1>3, <1>5, Moved
<1>7. "cursor" \in DOMAIN n
  BY <1>2 DEF MenuFields
<1>8. MoveKey(s, key) = [s EXCEPT !.m = IF key.k = "Down" THEN Clamp(down) ELSE up]
  BY <1>1, <1>7 DEF MoveKey, down, up, n
<1>9. QED
  BY <1>6, <1>8

LEMMA FilterKeyPresses ==
  ASSUME NEW m, NEW s, NEW key, PickFits(m), Pressed(m, s)
  PROVE  Pressed(m, FilterKey(s, key))
<1> DEFINE n == [s.m EXCEPT !.armed = NoRow]
           f == [n EXCEPT !.filter = Shorter(@)]
           l == Longer(n.filter)
<1>1. Browsed(m, n) /\ DOMAIN s = {"m", "req"}
  BY Disarmed DEF Pressed
<1> HIDE DEF n
<1>2. ASSUME NEW x, NEW c \in Nat PROVE Browsed(m, [n EXCEPT !.filter = x, !.cursor = c])
  BY <1>1 DEF Browsed, Alike, MenuFields
<1>3. Browsed(m, [n EXCEPT !.cursor = 0])
  BY <1>1 DEF Browsed, Alike, MenuFields
<1>4. Browsed(m, f)
  BY <1>1, Adjusted
<1> HIDE DEF f
<1>5. Browsed(m, Clamp(f))
  <2>1. DOMAIN f = MenuFields /\ (m.kind = "ValuePick" => f.cursor \in Nat /\ ASequence(f.items))
    BY <1>4 DEF Browsed, Alike, PickFits
  <2>2. /\ Alike(f, Clamp(f)) /\ Clamp(f).typing = f.typing /\ Clamp(f).composeRow = f.composeRow
        /\ ASequence(f.items) /\ f.cursor \in Nat => Clamp(f).cursor \in Nat
    BY <2>1, ClampMovesTheCursor
  <2>3. QED
    BY <1>4, <2>1, <2>2 DEF Browsed, Alike
<1>6. Browsed(m, [n EXCEPT !.filter = l, !.cursor = 0]) /\ Browsed(m, [n EXCEPT !.filter = 0, !.cursor = 0])
  BY <1>2
<1> HIDE DEF l
<1>7. \E x : Browsed(m, x) /\ FilterKey(s, key) = [s EXCEPT !.m = x]
  <2>1. CASE key.k = "Char"
    BY <1>1, <1>6, <2>1 DEF FilterKey, n, l
  <2>2. CASE key.k = "KillLine"
    BY <1>1, <1>6, <2>2 DEF FilterKey, n
  <2>3. CASE key.k = "Backspace"
    BY <1>1, <1>5, <2>3 DEF FilterKey, n, f
  <2>4. CASE key.k \notin {"Char", "KillLine", "Backspace"}
    BY <1>1, <2>4 DEF FilterKey, n
  <2>5. QED
    BY <2>1, <2>2, <2>3, <2>4
<1>8. QED
  BY <1>7, Moved

LEMMA AfterKeyPresses ==
  ASSUME NEW m, NEW s, NEW key, PickFits(m), Pressed(m, s)
  PROVE  Pressed(m, AfterKey(s, key))
<1>1. Pressed(m, ListKey(s, key))
  BY EscKeyPresses, SideKeyPresses, EnterKeyPresses, MoveKeyPresses, DestroyKeyPresses,
     FilterKeyPresses DEF ListKey
<1>2. QED
  BY <1>1, ComposeKeyPresses, PaneKeyPresses DEF AfterKey

\* g is what is pressed after each of the first n keys.
Pressing(m, chunk, n, g) ==
  g = [i \in 0 .. n |-> IF i = 0 THEN [m |-> m, req |-> Quiet] ELSE AfterKey(g[i - 1], chunk[i])]

LEMMA PressingDefined ==
  ASSUME NEW m, NEW chunk, NEW N \in Nat
  PROVE  \E g : Pressing(m, chunk, N, g)
<1> DEFINE B == {n \in 0 .. N : ~ \E g : Pressing(m, chunk, n, g)}
           start == [m |-> m, req |-> Quiet]
<1>1. B \subseteq 0 .. N
  OBVIOUS
<1>2. 0 \notin B
  <2>1. Pressing(m, chunk, 0, [i \in 0 .. 0 |-> start])
    BY DEF Pressing
  <2>2. QED
    BY <2>1
<1>3. ASSUME NEW n \in 0 .. N - 1, n \notin B
      PROVE  n + 1 \notin B
  <2>0. n \in Nat /\ n + 1 \in 0 .. n + 1 /\ n + 1 # 0
    OBVIOUS
  <2>1. PICK g : Pressing(m, chunk, n, g)
    BY <1>3
  <2> DEFINE h == [i \in 0 .. n + 1 |-> IF i = n + 1 THEN AfterKey(g[n], chunk[n + 1]) ELSE g[i]]
             k == [i \in 0 .. n + 1 |-> IF i = 0 THEN start ELSE AfterKey(h[i - 1], chunk[i])]
  <2>2. \A i \in 0 .. n : h[i] = g[i]
    BY <2>0
  <2>3. \A i \in 1 .. n + 1 : i - 1 \in 0 .. n
    BY <2>0
  <2>4. \A i \in 0 .. n : g[i] = IF i = 0 THEN start ELSE AfterKey(g[i - 1], chunk[i])
    BY <2>1 DEF Pressing
  <2>5. h[n + 1] = AfterKey(g[n], chunk[n + 1])
    BY <2>0
  <2>6. \A i \in 0 .. n + 1 : h[i] = k[i]
    BY <2>2, <2>3, <2>4, <2>5
  <2>7. h = k
    BY <2>6
  <2>8. Pressing(m, chunk, n + 1, h)
    BY <2>7 DEF Pressing
  <2>9. QED
    BY <2>8
<1>4. B = {}
  BY <1>1, <1>2, <1>3, Induct
<1>5. QED
  BY <1>4

LEMMA AfterKeysPresses ==
  ASSUME NEW m, PickFits(m), NEW chunk \in Chunks
  PROVE  Pressed(m, AfterKeys(m, chunk))
<1> DEFINE N == Len(chunk)
           g == CHOOSE f : Pressing(m, chunk, N, f)
           B == {n \in 0 .. N : ~Pressed(m, g[n])}
<1>0. N \in Nat
  BY ChunksAssumption
<1>1. Pressing(m, chunk, N, g)
  BY <1>0, PressingDefined
<1>2. AfterKeys(m, chunk) = g[N]
  BY DEF AfterKeys, Pressing
<1> HIDE DEF g
<1>3. \A i \in 0 .. N : g[i] = IF i = 0 THEN [m |-> m, req |-> Quiet] ELSE AfterKey(g[i - 1], chunk[i])
  BY <1>1 DEF Pressing
<1>4. 0 \notin B
  <2>1. g[0] = [m |-> m, req |-> Quiet]
    BY <1>0, <1>3
  <2>2. Browsed(m, m)
    BY DEF PickFits, Browsed, Alike
  <2>3. Asks(m, Quiet)
    BY DEF Asks, Quiet, RequestFields
  <2>4. Pressed(m, [m |-> m, req |-> Quiet])
    BY <2>2, <2>3 DEF Pressed
  <2>5. QED
    BY <2>1, <2>4
<1>5. ASSUME NEW n \in 0 .. N - 1, n \notin B
      PROVE  n + 1 \notin B
  <2>1. n \in 0 .. N /\ n + 1 \in 0 .. N /\ n + 1 # 0 /\ (n + 1) - 1 = n
    BY <1>0
  <2>2. Pressed(m, g[n]) /\ g[n + 1] = AfterKey(g[n], chunk[n + 1])
    BY <1>3, <1>5, <2>1
  <2>3. QED
    BY <2>2, AfterKeyPresses
<1>6. B = {}
  BY <1>0, <1>4, <1>5, Induct
<1>7. N \in 0 .. N
  BY <1>0
<1>8. QED
  BY <1>2, <1>6, <1>7


-----------------------------------------------------------------------------
(* The table *)

\* Rows that are switches of the session or of the store, or numbers.
OwnRows == Numeric \cup {"commentary", "expert", "working_bar", "record", "memory"}

\* No row offers the word that stands for nothing, a switch is on or off, and
\* the worker is told of no row the session applies by itself.
GoodWords(r, v) ==
  /\ ASequence(v) /\ Absent \notin ToSet(v)
  /\ r \in Switches => Len(v) = 2 /\ ToSet(v) \subseteq {"on", "off"}
GoodRow(e) ==
  /\ GoodWords(e.row, e.values) /\ e.row \notin {"", Absent}
  /\ e.group \in {"fast lane", "slow lane", "context"} => e.row \notin OwnRows

LEMMA One ==
  ASSUME NEW a
  PROVE  ToSet(<<a>>) = {a} /\ <<a>> \in Seq({a})
  BY DEF ToSet

LEMMA Two ==
  ASSUME NEW a, NEW b
  PROVE  ToSet(<<a, b>>) = {a, b} /\ <<a, b>> \in Seq({a, b}) /\ Len(<<a, b>>) = 2
<1> DEFINE s == <<a, b>>
<1>1. s \in Seq({a, b}) /\ Len(s) = 2 /\ DOMAIN s = {1, 2} /\ s[1] = a /\ s[2] = b
  OBVIOUS
<1>2. ToSet(s) = {a, b}
  BY <1>1 DEF ToSet
<1>3. QED
  BY <1>1, <1>2

LEMMA Three ==
  ASSUME NEW a, NEW b, NEW c
  PROVE  ToSet(<<a, b, c>>) = {a, b, c} /\ <<a, b, c>> \in Seq({a, b, c})
<1> DEFINE t == <<a, b, c>>
<1>1. t \in Seq({a, b, c}) /\ DOMAIN t = {1, 2, 3} /\ t[1] = a /\ t[2] = b /\ t[3] = c
  OBVIOUS
<1>2. ToSet(t) = {a, b, c}
  BY <1>1 DEF ToSet
<1>3. QED
  BY <1>1, <1>2

LEMMA Four ==
  ASSUME NEW a, NEW b, NEW c, NEW d
  PROVE  ToSet(<<a, b, c, d>>) = {a, b, c, d} /\ <<a, b, c, d>> \in Seq({a, b, c, d})
<1> DEFINE u == <<a, b, c, d>>
<1>1. u \in Seq({a, b, c, d}) /\ DOMAIN u = {1, 2, 3, 4} /\ u[1] = a /\ u[2] = b /\ u[3] = c /\ u[4] = d
  OBVIOUS
<1>2. ToSet(u) = {a, b, c, d}
  BY <1>1 DEF ToSet
<1>3. QED
  BY <1>1, <1>2

\* A list of good rows.
GoodRows(s) == s \in Seq(ToSet(s)) /\ \A e \in ToSet(s) : GoodRow(e)

LEMMA GoodOne ==
  ASSUME NEW a, GoodRow(a)
  PROVE  GoodRows(<<a>>)
  BY One DEF GoodRows

LEMMA GoodTwo ==
  ASSUME NEW a, NEW b, GoodRow(a), GoodRow(b)
  PROVE  GoodRows(<<a, b>>)
<1> DEFINE s == <<a, b>>
<1>1. ToSet(s) = {a, b} /\ s \in Seq({a, b})
  BY Two
<1> HIDE DEF s
<1>2. GoodRows(s)
  BY <1>1 DEF GoodRows
<1>3. QED
  BY <1>2 DEF s

LEMMA GoodThree ==
  ASSUME NEW a, NEW b, NEW c, GoodRow(a), GoodRow(b), GoodRow(c)
  PROVE  GoodRows(<<a, b, c>>)
<1> DEFINE s == <<a, b, c>>
<1>1. ToSet(s) = {a, b, c} /\ s \in Seq({a, b, c})
  BY Three
<1> HIDE DEF s
<1>2. GoodRows(s)
  BY <1>1 DEF GoodRows
<1>3. QED
  BY <1>2 DEF s

LEMMA GoodFour ==
  ASSUME NEW a, NEW b, NEW c, NEW d, GoodRow(a), GoodRow(b), GoodRow(c), GoodRow(d)
  PROVE  GoodRows(<<a, b, c, d>>)
<1> DEFINE s == <<a, b, c, d>>
<1>1. ToSet(s) = {a, b, c, d} /\ s \in Seq({a, b, c, d})
  BY Four
<1> HIDE DEF s
<1>2. GoodRows(s)
  BY <1>1 DEF GoodRows
<1>3. QED
  BY <1>2 DEF s

LEMMA NoWords == ToSet(<<>>) = {} /\ ASequence(<<>>)
<1>1. <<>> \in Seq({})
  OBVIOUS
<1>2. QED
  BY <1>1 DEF ToSet, ASequence

\* A row of a group, by how many words it offers.
Belongs(g, r) ==
  /\ r \notin {"", Absent}
  /\ g \in {"fast lane", "slow lane", "context"} => r \notin OwnRows

LEMMA RowOfNone ==
  ASSUME NEW g, NEW r, Belongs(g, r), r \notin Switches
  PROVE  GoodRow(Entry(g, r, <<>>))
  BY NoWords DEF Belongs, GoodRow, GoodWords, Entry

LEMMA RowOfTwo ==
  ASSUME NEW g, NEW r, Belongs(g, r), NEW a, NEW b, {a, b} = {"on", "off"}
  PROVE  GoodRow(Entry(g, r, <<a, b>>))
<1>1. ToSet(<<a, b>>) = {a, b} /\ ASequence(<<a, b>>) /\ Len(<<a, b>>) = 2
  BY Two DEF ASequence
<1>2. Absent \notin {"on", "off"}
  BY DEF Absent
<1>3. QED
  BY <1>1, <1>2 DEF Belongs, GoodRow, GoodWords, Entry

LEMMA RowOfThree ==
  ASSUME NEW g, NEW r, Belongs(g, r), r \notin Switches, NEW a, NEW b, NEW c, Absent \notin {a, b, c}
  PROVE  GoodRow(Entry(g, r, <<a, b, c>>))
<1>1. ToSet(<<a, b, c>>) = {a, b, c} /\ ASequence(<<a, b, c>>)
  BY Three DEF ASequence
<1>2. QED
  BY <1>1 DEF Belongs, GoodRow, GoodWords, Entry

Rows == ToSet(FastRows) \cup ToSet(SlowRows) \cup ToSet(ContextRows) \cup ToSet(MemoryRows)
        \cup ToSet(TerminalRows) \cup ToSet(PinRows) \cup ToSet(LoggingRows)

LEMMA AllRowsAreGood ==
  /\ AllRows \in Seq(Rows)
  /\ \A e \in Rows : GoodRow(e)
<1>1. GoodRows(FastRows)
  <2>1. GoodRow(Entry("fast lane", "provider", <<"auto", "ollama", "openai">>))
    <3>1. Belongs("fast lane", "provider") /\ "provider" \notin Switches /\ Absent \notin {"auto", "ollama", "openai"}
      BY DEF Belongs, OwnRows, Numeric, Switches, Absent
    <3>2. QED
      BY <3>1, RowOfThree
  <2>2. GoodRow(Entry("fast lane", "model", <<>>))
    <3>1. Belongs("fast lane", "model") /\ "model" \notin Switches
      BY DEF Belongs, OwnRows, Numeric, Switches, Absent
    <3>2. QED
      BY <3>1, RowOfNone
  <2>3. GoodRow(Entry("fast lane", "thinking", <<"off", "low", "high">>))
    <3>1. Belongs("fast lane", "thinking") /\ "thinking" \notin Switches /\ Absent \notin {"off", "low", "high"}
      BY DEF Belongs, OwnRows, Numeric, Switches, Absent
    <3>2. QED
      BY <3>1, RowOfThree
  <2>4. GoodRow(Entry("fast lane", "command_first", <<"on", "off">>))
    <3>1. Belongs("fast lane", "command_first") /\ {"on", "off"} = {"on", "off"}
      BY DEF Belongs, OwnRows, Numeric, Switches, Absent
    <3>2. QED
      BY <3>1, RowOfTwo
  <2>5. QED
    BY <2>1, <2>2, <2>3, <2>4, GoodFour, Zenon DEF FastRows
<1>2. GoodRows(SlowRows)
  <2>1. GoodRow(Entry("slow lane", "mode", <<"manual", "query", "waldorf">>))
    <3>1. Belongs("slow lane", "mode") /\ "mode" \notin Switches /\ Absent \notin {"manual", "query", "waldorf"}
      BY DEF Belongs, OwnRows, Numeric, Switches, Absent
    <3>2. QED
      BY <3>1, RowOfThree
  <2>2. GoodRow(Entry("slow lane", "provider", <<"auto", "ollama", "openai">>))
    <3>1. Belongs("slow lane", "provider") /\ "provider" \notin Switches /\ Absent \notin {"auto", "ollama", "openai"}
      BY DEF Belongs, OwnRows, Numeric, Switches, Absent
    <3>2. QED
      BY <3>1, RowOfThree
  <2>3. GoodRow(Entry("slow lane", "model", <<>>))
    <3>1. Belongs("slow lane", "model") /\ "model" \notin Switches
      BY DEF Belongs, OwnRows, Numeric, Switches, Absent
    <3>2. QED
      BY <3>1, RowOfNone
  <2>4. GoodRow(Entry("slow lane", "thinking", <<"medium", "high", "auto">>))
    <3>1. Belongs("slow lane", "thinking") /\ "thinking" \notin Switches /\ Absent \notin {"medium", "high", "auto"}
      BY DEF Belongs, OwnRows, Numeric, Switches, Absent
    <3>2. QED
      BY <3>1, RowOfThree
  <2>5. QED
    BY <2>1, <2>2, <2>3, <2>4, GoodFour, Zenon DEF SlowRows
<1>3. GoodRows(ContextRows)
  <2>1. GoodRow(Entry("context", "platform", <<"on", "off">>))
    <3>1. Belongs("context", "platform") /\ {"on", "off"} = {"on", "off"}
      BY DEF Belongs, OwnRows, Numeric, Switches, Absent
    <3>2. QED
      BY <3>1, RowOfTwo
  <2>2. QED
    BY <2>1, GoodOne, Zenon DEF ContextRows
<1>4. GoodRows(MemoryRows)
  <2>1. GoodRow(Entry("memory", "memory", <<"off", "on">>))
    <3>1. Belongs("memory", "memory") /\ {"off", "on"} = {"on", "off"}
      BY DEF Belongs, OwnRows, Numeric, Switches, Absent
    <3>2. QED
      BY <3>1, RowOfTwo
  <2>2. GoodRow(Entry("memory", "limit", <<>>))
    <3>1. Belongs("memory", "limit") /\ "limit" \notin Switches
      BY DEF Belongs, OwnRows, Numeric, Switches, Absent
    <3>2. QED
      BY <3>1, RowOfNone
  <2>3. QED
    BY <2>1, <2>2, GoodTwo, Zenon DEF MemoryRows
<1>5. GoodRows(TerminalRows)
  <2>1. GoodRow(Entry("nerd stuff", "working_bar", <<"on", "off">>))
    <3>1. Belongs("nerd stuff", "working_bar") /\ {"on", "off"} = {"on", "off"}
      BY DEF Belongs, OwnRows, Numeric, Switches, Absent
    <3>2. QED
      BY <3>1, RowOfTwo
  <2>2. GoodRow(Entry("nerd stuff", "bar_rate_ms", <<"6", "7", Custom>>))
    <3>1. Belongs("nerd stuff", "bar_rate_ms") /\ "bar_rate_ms" \notin Switches /\ Absent \notin {"6", "7", Custom}
      BY DEF Belongs, OwnRows, Numeric, Switches, Absent, Custom
    <3>2. QED
      BY <3>1, RowOfThree
  <2>3. GoodRow(Entry("nerd stuff", "bar_slide_ms", <<"7", "8", Custom>>))
    <3>1. Belongs("nerd stuff", "bar_slide_ms") /\ "bar_slide_ms" \notin Switches /\ Absent \notin {"7", "8", Custom}
      BY DEF Belongs, OwnRows, Numeric, Switches, Absent, Custom
    <3>2. QED
      BY <3>1, RowOfThree
  <2>4. QED
    BY <2>1, <2>2, <2>3, GoodThree, Zenon DEF TerminalRows
<1>6. GoodRows(PinRows)
  <2>1. GoodRow(Entry("working context", "card_budget", <<"5", "6", Custom>>))
    <3>1. Belongs("working context", "card_budget") /\ "card_budget" \notin Switches /\ Absent \notin {"5", "6", Custom}
      BY DEF Belongs, OwnRows, Numeric, Switches, Absent, Custom
    <3>2. QED
      BY <3>1, RowOfThree
  <2>2. QED
    BY <2>1, GoodOne, Zenon DEF PinRows
<1>7. GoodRows(LoggingRows)
  <2>1. GoodRow(Entry("logging", "record", <<"off", "on">>))
    <3>1. Belongs("logging", "record") /\ {"off", "on"} = {"on", "off"}
      BY DEF Belongs, OwnRows, Numeric, Switches, Absent
    <3>2. QED
      BY <3>1, RowOfTwo
  <2>2. GoodRow(Entry("logging", "max_mb", <<"7", "8", Custom>>))
    <3>1. Belongs("logging", "max_mb") /\ "max_mb" \notin Switches /\ Absent \notin {"7", "8", Custom}
      BY DEF Belongs, OwnRows, Numeric, Switches, Absent, Custom
    <3>2. QED
      BY <3>1, RowOfThree
  <2>3. QED
    BY <2>1, <2>2, GoodTwo, Zenon DEF LoggingRows
<1>8. \A s : GoodRows(s) /\ ToSet(s) \subseteq Rows => s \in Seq(Rows)
  BY Wider DEF GoodRows
<1>9. /\ FastRows \in Seq(Rows) /\ SlowRows \in Seq(Rows) /\ ContextRows \in Seq(Rows)
      /\ MemoryRows \in Seq(Rows) /\ TerminalRows \in Seq(Rows) /\ PinRows \in Seq(Rows)
      /\ LoggingRows \in Seq(Rows)
  BY <1>1, <1>2, <1>3, <1>4, <1>5, <1>6, <1>7, <1>8 DEF Rows
<1>10. FastRows \o SlowRows \o ContextRows \o MemoryRows \o TerminalRows \in Seq(Rows)
  BY <1>9
<1>11. AllRows \in Seq(Rows)
  BY <1>9, <1>10 DEF AllRows
<1>12. \A e \in Rows : GoodRow(e)
  BY <1>1, <1>2, <1>3, <1>4, <1>5, <1>6, <1>7 DEF Rows, GoodRows
<1>13. QED
  BY <1>11, <1>12

LEMMA TableOfRows ==
  /\ Table \in Seq(Rows)
  /\ \A g : RowsOf(g) \in Seq(Rows)
  /\ \A e \in ToSet(Table) : GoodRow(e)
<1>1. Table \in Seq(Rows)
  BY AllRowsAreGood, Selection DEF Table
<1>2. \A g : RowsOf(g) \in Seq(Rows)
  BY <1>1, Selection DEF RowsOf
<1>3. \A e \in ToSet(Table) : e \in Rows
  BY <1>1 DEF ToSet
<1>4. QED
  BY <1>1, <1>2, <1>3, AllRowsAreGood

\* What a row of that name offers, in whichever group.
LEMMA WordsOffered ==
  ASSUME NEW g, NEW r
  PROVE  /\ RowValues(g, r) # <<>> => GoodWords(r, RowValues(g, r)) /\ r # ""
         /\ ASequence(RowValues(g, r)) /\ Absent \notin ToSet(RowValues(g, r))
<1> DEFINE hits == {e \in ToSet(Table) : e.group = g /\ e.row = r}
<1>1. CASE RowValues(g, r) = <<>>
  BY <1>1, NoWords
<1>2. CASE g = Root /\ RowValues(g, r) = <<"off", "on">> /\ r \in {"commentary", "expert"}
  <2>1. r \notin Switches \cup {""} /\ Absent \notin {"off", "on"}
    BY <1>2 DEF Switches, Absent
  <2>2. ToSet(<<"off", "on">>) = {"off", "on"} /\ ASequence(<<"off", "on">>)
    BY Two DEF ASequence
  <2>3. QED
    BY <1>2, <2>1, <2>2 DEF GoodWords
<1>3. CASE g # Root /\ hits # {} /\ RowValues(g, r) = (CHOOSE e \in hits : TRUE).values
  <2>1. PICK e \in hits : RowValues(g, r) = e.values
    BY <1>3
  <2>2. GoodRow(e) /\ e.row = r
    BY <2>1, TableOfRows
  <2>3. QED
    BY <2>1, <2>2 DEF GoodRow, GoodWords
<1>4. QED
  BY <1>1, <1>2, <1>3 DEF RowValues

\* Round and round: a word the row offers.
LEMMA CycledIsOffered ==
  ASSUME NEW values, ASequence(values), values # <<>>, NEW cur
  PROVE  Cycled(values, cur) \in ToSet(values)
<1> DEFINE at == {i \in DOMAIN values : values[i] = cur}
<1>0. PICK T : values \in Seq(T)
  BY DEF ASequence
<1>1. Len(values) \in Nat \ {0} /\ DOMAIN values = 1 .. Len(values)
  BY <1>0
<1>2. \A n \in Nat : 1 + (n % Len(values)) \in DOMAIN values
  BY <1>1
<1>3. at # {} => Min(at) \in Nat
  <2> SUFFICES ASSUME at # {} PROVE Min(at) \in Nat
    OBVIOUS
  <2>1. at \subseteq Nat
    BY <1>1
  <2>2. \E n \in at : \A m \in at : n <= m
    BY <2>1, Least
  <2>3. QED
    BY <2>1, <2>2 DEF Min
<1> DEFINE k == IF at = {} THEN 1 ELSE 1 + (Min(at) % Len(values))
<1>4. k \in DOMAIN values
  <2>1. 1 \in DOMAIN values
    BY <1>1
  <2> HIDE DEF at
  <2>2. QED
    BY <1>2, <1>3, <2>1
<1> HIDE DEF at
<1>5. Cycled(values, cur) = values[k]
  BY DEF Cycled, at
<1>6. QED
  BY <1>4, <1>5 DEF ToSet


-----------------------------------------------------------------------------
(* What the session applies, saves and tells.  The last word on its way to *)
(* the worker is the value of the row; with none on its way, the worker's. *)

SaysOption(x, k) == x.k = "SetOption" /\ x.key = k
LastOption(js, k, i) == /\ i \in DOMAIN js
                        /\ SaysOption(js[i], k)
                        /\ \A j \in DOMAIN js : j > i => ~SaysOption(js[j], k)
Agrees(word, value) == word = value \/ (value = Absent /\ word = "auto")
WillHear(js, k, word, value) ==
  \/ \E i \in DOMAIN js : LastOption(js, k, i) /\ Agrees(js[i].v, value)
  \/ (\A i \in DOMAIN js : ~SaysOption(js[i], k)) /\ Agrees(word, value)
Heard(c, js, l) == DOMAIN c = Told /\ \A k \in Told : WillHear(js, k, c[k], l[k])

LEMMA OptionDecides ==
  ASSUME NEW js, ASequence(js), NEW k, NEW word, NEW value, NEW x,
         SaysOption(x, k), Agrees(x.v, value)
  PROVE  WillHear(js \o <<x>>, k, word, value)
<1> DEFINE f == js \o <<x>>
<1>1. /\ DOMAIN f = DOMAIN js \cup {Len(js) + 1} /\ f[Len(js) + 1] = x
      /\ Len(js) \in Nat /\ DOMAIN js = 1 .. Len(js)
  BY OneMore
<1> HIDE DEF f
<1>2. \A j \in DOMAIN f : ~(j > Len(js) + 1)
  BY <1>1
<1>3. LastOption(f, k, Len(js) + 1) /\ Agrees(f[Len(js) + 1].v, value)
  BY <1>1, <1>2 DEF LastOption
<1>4. WillHear(f, k, word, value)
  BY <1>3 DEF WillHear, LastOption
<1>5. QED
  BY <1>4 DEF f

LEMMA OthersSayNothing ==
  ASSUME NEW js, ASequence(js), NEW k, NEW word, NEW value, NEW x,
         ~SaysOption(x, k), WillHear(js, k, word, value)
  PROVE  WillHear(js \o <<x>>, k, word, value)
<1> DEFINE f == js \o <<x>>
<1>1. /\ DOMAIN f = DOMAIN js \cup {Len(js) + 1} /\ f[Len(js) + 1] = x
      /\ \A i \in DOMAIN js : f[i] = js[i]
  BY OneMore
<1> HIDE DEF f
<1>2. ASSUME NEW i \in DOMAIN js, LastOption(js, k, i) PROVE LastOption(f, k, i) /\ f[i].v = js[i].v
  BY <1>1, <1>2 DEF LastOption
<1>3. (\A i \in DOMAIN js : ~SaysOption(js[i], k)) => \A i \in DOMAIN f : ~SaysOption(f[i], k)
  BY <1>1
<1>4. WillHear(f, k, word, value)
  BY <1>1, <1>2, <1>3 DEF WillHear
<1>5. QED
  BY <1>4 DEF f

\* What the worker takes next.
LEMMA TakingKeeps ==
  ASSUME NEW js, ASequence(js), js # <<>>, NEW k, NEW word, NEW value, WillHear(js, k, word, value)
  PROVE  WillHear(Tail(js), k, IF SaysOption(Head(js), k) THEN Head(js).v ELSE word, value)
<1>1. PICK S : js \in Seq(S)
  BY DEF ASequence
<1> DEFINE t == Tail(js)
           r == IF SaysOption(Head(js), k) THEN Head(js).v ELSE word
<1>2. Len(js) \in Nat \ {0} /\ DOMAIN js = 1 .. Len(js) /\ Head(js) = js[1]
  BY <1>1
<1>3. DOMAIN t = 1 .. Len(js) - 1 /\ \A i \in DOMAIN t : t[i] = js[i + 1]
  BY <1>1
<1> HIDE DEF t
<1>4. ASSUME NEW i \in DOMAIN js, LastOption(js, k, i), Agrees(js[i].v, value), i # 1
      PROVE  WillHear(t, k, r, value)
  <2>1. i - 1 \in DOMAIN t /\ t[i - 1] = js[i]
    BY <1>2, <1>3, <1>4
  <2>2. \A j \in DOMAIN t : j > i - 1 => j + 1 \in DOMAIN js /\ j + 1 > i
    BY <1>2, <1>3, <1>4
  <2>3. LastOption(t, k, i - 1)
    BY <1>3, <1>4, <2>1, <2>2 DEF LastOption
  <2>4. QED
    BY <1>4, <2>1, <2>3 DEF WillHear
<1>5. ASSUME LastOption(js, k, 1), Agrees(js[1].v, value) PROVE WillHear(t, k, r, value)
  <2>1. \A j \in DOMAIN t : j + 1 \in DOMAIN js /\ j + 1 > 1
    BY <1>2, <1>3
  <2>2. \A j \in DOMAIN t : ~SaysOption(t[j], k)
    BY <1>3, <1>5, <2>1 DEF LastOption
  <2>3. r = js[1].v
    BY <1>2, <1>5 DEF LastOption
  <2>4. QED
    BY <1>5, <2>2, <2>3 DEF WillHear
<1>6. ASSUME \A i \in DOMAIN js : ~SaysOption(js[i], k), Agrees(word, value)
      PROVE  WillHear(t, k, r, value)
  <2>1. \A j \in DOMAIN t : j + 1 \in DOMAIN js
    BY <1>2, <1>3
  <2>2. \A j \in DOMAIN t : ~SaysOption(t[j], k)
    BY <1>3, <1>6, <2>1
  <2>3. r = word
    BY <1>2, <1>6
  <2>4. QED
    BY <1>6, <2>2, <2>3 DEF WillHear
<1>7. WillHear(t, k, r, value)
  BY <1>4, <1>5, <1>6 DEF WillHear
<1>8. QED
  BY <1>7 DEF t

\* A job that is no option, and the option of a row that now has that value.
LEMMA HeardBesides ==
  ASSUME NEW c, NEW js, ASequence(js), NEW l, Heard(c, js, l), NEW x, x.k # "SetOption"
  PROVE  Heard(c, js \o <<x>>, l)
<1>1. \A k : ~SaysOption(x, k)
  BY DEF SaysOption
<1>2. QED
  BY <1>1, OthersSayNothing DEF Heard

LEMMA HeardOption ==
  ASSUME NEW c, NEW js, ASequence(js), NEW l, Heard(c, js, l), DOMAIN l = Keys,
         NEW key, NEW v, NEW kept, Agrees(v, kept)
  PROVE  Heard(c, js \o <<Option(key, v)>>, [l EXCEPT ![key] = kept])
<1> DEFINE x == Option(key, v)
           n == [l EXCEPT ![key] = kept]
<1>1. /\ SaysOption(x, key) /\ x.v = v
      /\ \A k : k # key => ~SaysOption(x, k)
  BY DEF SaysOption, Option, Job
<1>2. \A k \in Keys : n[k] = IF k = key THEN kept ELSE l[k]
  OBVIOUS
<1>3. Told \subseteq Keys
  BY DEF Told
<1> HIDE DEF x, n
<1>4. ASSUME NEW k \in Told PROVE WillHear(js \o <<x>>, k, c[k], n[k])
  <2>1. CASE k = key
    BY <1>1, <1>2, <1>3, <2>1, OptionDecides
  <2>2. CASE k # key
    BY <1>1, <1>2, <1>3, <2>2, OthersSayNothing DEF Heard
  <2>3. QED
    BY <2>1, <2>2
<1>5. Heard(c, js \o <<x>>, n)
  BY <1>4 DEF Heard
<1>6. QED
  BY <1>5 DEF x, n

\* A value the worker has no copy of.
LEMMA HeardRegardless ==
  ASSUME NEW c, NEW js, NEW l, Heard(c, js, l), DOMAIN l = Keys, NEW key, key \notin Told, NEW v
  PROVE  Heard(c, js, [l EXCEPT ![key] = v])
<1> DEFINE n == [l EXCEPT ![key] = v]
<1>1. \A k \in Told : n[k] = l[k]
  BY DEF Told
<1> HIDE DEF n
<1>2. Heard(c, js, n)
  BY <1>1 DEF Heard
<1>3. QED
  BY <1>2 DEF n

LEMMA HeardServed ==
  ASSUME NEW c, NEW js, ASequence(js), js # <<>>, NEW l, Heard(c, js, l)
  PROVE  Heard(IF Head(js).k = "SetOption" THEN [c EXCEPT ![Head(js).key] = Head(js).v] ELSE c,
               Tail(js), l)
<1> DEFINE h == Head(js)
           d == IF h.k = "SetOption" THEN [c EXCEPT ![h.key] = h.v] ELSE c
<1>1. DOMAIN c = Told
  BY DEF Heard
<1> HIDE DEF h
<1>2. DOMAIN d = Told /\ \A k \in Told : d[k] = IF SaysOption(h, k) THEN h.v ELSE c[k]
  BY <1>1 DEF SaysOption
<1> HIDE DEF d
<1>3. \A k \in Told : WillHear(Tail(js), k, d[k], l[k])
  BY <1>2, TakingKeeps DEF Heard, h
<1>4. Heard(d, Tail(js), l)
  BY <1>2, <1>3 DEF Heard
<1>5. QED
  BY <1>4 DEF d, h


\* Every row is saved as the session runs with it, or it is a row of the bar
\* that was saved as a text.
Garbles(k, x) == k \in BarRows /\ x \notin Numerals \cup {Absent}
Starts(f, k)  == IF f[k] = Absent THEN Default[k] ELSE f[k]
Saved(l, f) == /\ DOMAIN l = Keys /\ DOMAIN f = Keys \cup {ModelKey}
               /\ \A k \in Keys : Starts(f, k) = l[k] \/ Garbles(k, f[k])

\* What is saved of a row that runs with v.
Keeps(key, v, u) ==
  key \in Keys => (u = v /\ (v = Absent => Default[key] = Absent)) \/ Garbles(key, u)

Sound(m, l, f, js) == /\ PickFits(m)
                      /\ Saved(l, f)
                      /\ ASequence(js)
                      /\ engine => Heard(conf, js, l)

SessionFields == {"menu", "live", "file", "store", "pins", "slowShown", "probation", "jobs"}
Good(w) == DOMAIN w = SessionFields /\ Sound(w.menu, w.live, w.file, w.jobs)

LEMMA ModelIsNoSetting == ModelKey \notin Keys
<1>1. \A e \in ToSet(Table) : e.row \notin OpensMenu => <<e.group, e.row>> # ModelKey
  BY DEF ModelKey, OpensMenu
<1>2. ModelKey \notin {<<Root, "commentary">>, <<Root, "expert">>}
  BY DEF ModelKey, Root
<1>3. QED
  BY <1>1, <1>2 DEF Keys

LEMMA SavedModel ==
  ASSUME NEW l, NEW f, Saved(l, f), NEW x
  PROVE  Saved(l, [f EXCEPT ![ModelKey] = x])
<1> DEFINE g == [f EXCEPT ![ModelKey] = x]
<1>1. DOMAIN g = DOMAIN f /\ \A k \in Keys : g[k] = f[k]
  BY ModelIsNoSetting DEF Saved
<1> HIDE DEF g
<1>2. Saved(l, g)
  BY <1>1 DEF Saved, Starts
<1>3. QED
  BY <1>2 DEF g

\* A row is saved as it is applied, or as its default, or as a text.
LEMMA SavedRow ==
  ASSUME NEW l, NEW f, Saved(l, f), NEW key, NEW v, NEW u, Keeps(key, v, u)
  PROVE  Saved([l EXCEPT ![key] = v], [f EXCEPT ![key] = u])
<1> DEFINE n == [l EXCEPT ![key] = v]
           g == [f EXCEPT ![key] = u]
<1>1. /\ DOMAIN n = Keys /\ DOMAIN g = Keys \cup {ModelKey}
      /\ \A k \in Keys : n[k] = IF k = key THEN v ELSE l[k]
      /\ \A k \in Keys : g[k] = IF k = key THEN u ELSE f[k]
  BY DEF Saved
<1> HIDE DEF n, g
<1>2. \A k \in Keys : Starts(g, k) = n[k] \/ Garbles(k, g[k])
  BY <1>1 DEF Saved, Starts, Keeps
<1>3. Saved(n, g)
  BY <1>1, <1>2 DEF Saved
<1>4. QED
  BY <1>3 DEF n, g

LEMMA GoodMenu ==
  ASSUME NEW w, Good(w), NEW m, PickFits(m)
  PROVE  Good([w EXCEPT !.menu = m]) /\ [w EXCEPT !.menu = m].menu = m
  BY DEF Good, Sound, SessionFields

\* A choice that leaves the menu alone.
SameMenu(w, u) == Good(u) /\ u.menu = w.menu

LEMMA GoodBesides ==
  ASSUME NEW w, Good(w), NEW f \in {"store", "pins", "slowShown", "probation"}, NEW x
  PROVE  SameMenu(w, [w EXCEPT ![f] = x])
  BY DEF SameMenu, Good, Sound, SessionFields

LEMMA GoodModelFile ==
  ASSUME NEW w, Good(w), NEW x
  PROVE  SameMenu(w, [w EXCEPT !.file[ModelKey] = x])
<1> DEFINE f == [w.file EXCEPT ![ModelKey] = x]
<1>1. Saved(w.live, f)
  BY SavedModel DEF Good, Sound
<1> HIDE DEF f
<1>2. SameMenu(w, [w EXCEPT !.file = f])
  BY <1>1 DEF SameMenu, Good, Sound, SessionFields
<1>3. QED
  BY <1>2 DEF f

\* A job that is no option.
LEMMA GoodSend ==
  ASSUME NEW w, Good(w), NEW x, x.k # "SetOption"
  PROVE  SameMenu(w, Send(w, <<x>>))
<1> DEFINE js == w.jobs \o <<x>>
<1>1. ASequence(js) /\ (engine => Heard(conf, js, w.live))
  BY OneMore, HeardBesides DEF Good, Sound
<1> DEFINE sent == IF engine THEN js ELSE w.jobs
<1>2. ASequence(sent) /\ (engine => Heard(conf, sent, w.live))
  BY <1>1 DEF Good, Sound
<1>3. Send(w, <<x>>) = [w EXCEPT !.jobs = sent]
  BY DEF Send, Good, SessionFields
<1> HIDE DEF sent
<1>4. SameMenu(w, [w EXCEPT !.jobs = sent])
  BY <1>2 DEF SameMenu, Good, Sound, SessionFields
<1>5. QED
  BY <1>3, <1>4

\* A row applied and saved, and told to the worker or none of its business.
LEMMA GoodOwn ==
  ASSUME NEW w, Good(w), NEW key, key \notin Told, NEW v, NEW u, Keeps(key, v, u)
  PROVE  SameMenu(w, [w EXCEPT !.live[key] = v, !.file[key] = u])
<1> DEFINE l == [w.live EXCEPT ![key] = v]
           f == [w.file EXCEPT ![key] = u]
<1>1. Saved(l, f)
  BY SavedRow DEF Good, Sound
<1>2. engine => Heard(conf, w.jobs, l)
  BY HeardRegardless DEF Good, Sound, Saved
<1> HIDE DEF l, f
<1>3. SameMenu(w, [w EXCEPT !.live = l, !.file = f])
  BY <1>1, <1>2 DEF SameMenu, Good, Sound, SessionFields
<1>4. QED
  BY <1>3 DEF l, f

LEMMA GoodOption ==
  ASSUME NEW w, Good(w), NEW key, NEW v, NEW kept, Agrees(v, kept),
         kept = Absent => key \notin Keys \/ Default[key] = Absent,
         NEW more \in {<<>>, <<Plain("Rebind")>>}
  PROVE  SameMenu(w, Send(Keep(w, key, kept), <<Option(key, v)>> \o more))
<1> DEFINE l  == [w.live EXCEPT ![key] = kept]
           f  == [w.file EXCEPT ![key] = kept]
           x  == Option(key, v)
           y  == Plain("Rebind")
           js == w.jobs \o (<<x>> \o more)
<1>1. Saved(l, f)
  BY SavedRow DEF Good, Sound, Keeps
<1>2. ASequence(w.jobs \o <<x>>) /\ (engine => Heard(conf, w.jobs \o <<x>>, l))
  BY OneMore, HeardOption DEF Good, Sound, Saved
<1>3. y.k # "SetOption"
  BY DEF Plain, Job
<1> HIDE DEF x, y, l, f
<1>4. ASequence(js) /\ (engine => Heard(conf, js, l))
  <2>1. CASE more = <<>>
    <3>1. <<x>> \o more = <<x>>
      BY <2>1
    <3>2. QED
      BY <1>2, <3>1
  <2>2. CASE more = <<y>>
    <3>1. PICK S : w.jobs \in Seq(S)
      BY DEF Good, Sound, ASequence
    <3> DEFINE T == S \cup {x, y}
    <3>2. w.jobs \in Seq(T) /\ x \in T /\ y \in T
      BY <3>1, Wider
    <3> HIDE DEF T
    <3>3. <<x>> \o <<y>> = <<x, y>>
      BY OneAndOne
    <3>4. js = (w.jobs \o <<x>>) \o <<y>>
      BY <2>2, <3>2, <3>3, PairAtOnce
    <3>5. ASequence((w.jobs \o <<x>>) \o <<y>>)
      BY <1>2, OneMore
    <3>6. engine => Heard(conf, (w.jobs \o <<x>>) \o <<y>>, l)
      BY <1>2, <1>3, HeardBesides
    <3>7. QED
      BY <3>4, <3>5, <3>6
  <2>3. QED
    BY <2>1, <2>2 DEF y
<1> DEFINE k == [w EXCEPT !.live = l, !.file = f]
<1>5. DOMAIN k = SessionFields /\ k.menu = w.menu /\ k.live = l /\ k.file = f /\ k.jobs = w.jobs
  BY DEF Good, SessionFields
<1>6. Keep(w, key, kept) = k
  BY DEF Keep, l, f
<1> HIDE DEF k, js
<1>7. PickFits(w.menu) /\ ASequence(w.jobs)
  BY DEF Good, Sound
<1>8. Good([k EXCEPT !.jobs = js]) /\ [k EXCEPT !.jobs = js].menu = w.menu
  BY <1>1, <1>4, <1>5, <1>7 DEF Good, Sound, SessionFields
<1>9. ~engine => Good(k)
  BY <1>1, <1>5, <1>7 DEF Good, Sound
<1>10. ~engine => Good([k EXCEPT !.jobs = k.jobs]) /\ [k EXCEPT !.jobs = k.jobs].menu = w.menu
  BY <1>5, <1>9 DEF Good, Sound, SessionFields
<1>11. Send(k, <<x>> \o more) = [k EXCEPT !.jobs = IF engine THEN js ELSE k.jobs]
  BY <1>5 DEF Send, js
<1>12. Good(Send(k, <<x>> \o more)) /\ Send(k, <<x>> \o more).menu = w.menu
  BY <1>8, <1>10, <1>11
<1>13. QED
  BY <1>6, <1>12 DEF x, SameMenu


\* Rows that stand for something.
Labelled(s) == ASequence(s) /\ \A r \in ToSet(s) : Label(r) # Absent

LEMMA LabelledBoth ==
  ASSUME NEW s, NEW t, Labelled(s), Labelled(t)
  PROVE  Labelled(s \o t)
<1>1. PICK S : s \in Seq(S)
  BY DEF Labelled, ASequence
<1>2. PICK T : t \in Seq(T)
  BY DEF Labelled, ASequence
<1> DEFINE U == S \cup T
<1>3. s \in Seq(U) /\ t \in Seq(U)
  BY <1>1, <1>2, Wider
<1> HIDE DEF U
<1>4. s \o t \in Seq(U) /\ ToSet(s \o t) = ToSet(s) \cup ToSet(t)
  BY <1>3, ElementsOfBoth
<1>5. QED
  BY <1>4 DEF Labelled, ASequence

LEMMA LabelledOne ==
  ASSUME NEW r, Label(r) # Absent
  PROVE  Labelled(<<r>>)
<1>1. ToSet(<<r>>) = {r} /\ ASequence(<<r>>)
  BY One DEF ASequence
<1>2. QED
  BY <1>1 DEF Labelled

LEMMA LabelledEach ==
  ASSUME NEW s, ASequence(s), NEW f, f = [i \in DOMAIN s |-> f[i]],
         \A i \in DOMAIN s : Label(f[i]) # Absent
  PROVE  Labelled(f)
<1> DEFINE T == {f[i] : i \in DOMAIN s}
<1>1. PICK S : s \in Seq(S)
  BY DEF ASequence
<1>2. DOMAIN s = 1 .. Len(s) /\ Len(s) \in Nat
  BY <1>1
<1>3. DOMAIN f = DOMAIN s /\ \A i \in DOMAIN s : f[i] \in T
  OBVIOUS
<1> HIDE DEF T
<1>4. f \in Seq(T)
  BY <1>2, <1>3
<1>5. \A r \in ToSet(f) : Label(r) # Absent
  BY <1>3 DEF ToSet
<1>6. QED
  BY <1>4, <1>5 DEF Labelled, ASequence

\* The names of the groups on the list.
LEMMA GroupsAreNamed ==
  /\ ASequence(PlainGroups) /\ \A i \in DOMAIN PlainGroups : PlainGroups[i] # Absent
  /\ ASequence(DebugGroups) /\ \A i \in DOMAIN DebugGroups : DebugGroups[i] # Absent
<1> DEFINE P == {"fast lane", "slow lane", "context", "memory"}
           D == {"nerd stuff", "working context", "logging"}
<1>1. <<"fast lane", "slow lane", "context", "memory">> \in Seq(P)
  BY Four
<1>2. <<"nerd stuff", "working context", "logging">> \in Seq(D)
  BY Three
<1>3. PlainGroups \in Seq(P) /\ DebugGroups \in Seq(D)
  BY <1>1, <1>2, Selection DEF PlainGroups, DebugGroups, Here
<1>4. Absent \notin P /\ Absent \notin D
  BY DEF Absent
<1> HIDE DEF P, D
<1>5. /\ \A i \in DOMAIN PlainGroups : PlainGroups[i] \in P
      /\ \A i \in DOMAIN DebugGroups : DebugGroups[i] \in D
  BY <1>3
<1>6. QED
  BY <1>3, <1>4, <1>5 DEF ASequence

LEMMA SettingsAreLabelled ==
  ASSUME NEW w, NEW g
  PROVE  Labelled(SettingsItems(w, g))
<1> DEFINE expert    == w.live[<<Root, "expert">>] = "on"
           set(h, r) == Row("set", r, Shows(w, h, r))
           rows      == Only(RowsOf(g), {e \in ToSet(Table) : expert \/ e.row \notin Advanced})
           groups    == [i \in DOMAIN PlainGroups |-> GroupRow(PlainGroups[i])]
           debugs    == [i \in DOMAIN DebugGroups |-> GroupRow(DebugGroups[i])]
           its       == [i \in DOMAIN rows |-> set(g, rows[i].row)]
<1>1. \A h, r : Label(set(h, r)) = r
  BY DEF Label, Row
<1>2. \A h : Label(GroupRow(h)) = h
  BY DEF Label, Row, GroupRow
<1>3. Label(Up) # Absent
  BY DEF Label, Row, Up, Absent
<1>4. rows \in Seq(Rows)
  BY TableOfRows, Selection
<1>5. ASequence(rows) /\ \A i \in DOMAIN rows : rows[i].row # Absent
  <2> HIDE DEF rows
  <2>1. \A i \in DOMAIN rows : rows[i] \in Rows
    BY <1>4
  <2>2. QED
    BY <1>4, <2>1, AllRowsAreGood DEF GoodRow, ASequence
<1> HIDE DEF rows
<1>6. its = [i \in DOMAIN rows |-> its[i]] /\ \A i \in DOMAIN rows : its[i] = set(g, rows[i].row)
  OBVIOUS
<1>7. Labelled(its)
  <2> HIDE DEF its, set
  <2>1. \A i \in DOMAIN rows : Label(its[i]) # Absent
    BY <1>1, <1>5, <1>6
  <2>2. QED
    BY <1>5, <1>6, <2>1, LabelledEach
<1>8. Labelled(groups) /\ Labelled(debugs)
  <2>1. /\ groups = [i \in DOMAIN PlainGroups |-> groups[i]]
        /\ \A i \in DOMAIN PlainGroups : groups[i] = GroupRow(PlainGroups[i])
        /\ debugs = [i \in DOMAIN DebugGroups |-> debugs[i]]
        /\ \A i \in DOMAIN DebugGroups : debugs[i] = GroupRow(DebugGroups[i])
    OBVIOUS
  <2> HIDE DEF groups, debugs
  <2>2. /\ \A i \in DOMAIN PlainGroups : Label(groups[i]) # Absent
        /\ \A i \in DOMAIN DebugGroups : Label(debugs[i]) # Absent
    BY <1>2, <2>1, GroupsAreNamed
  <2>3. QED
    BY <2>1, <2>2, GroupsAreNamed, LabelledEach
<1>9. Labelled(<<Up>>) /\ Labelled(<<set(Root, "commentary")>>) /\ Labelled(<<set(Root, "expert")>>)
  BY <1>1, <1>3, LabelledOne DEF Absent
<1>10. Labelled(<<>>)
  BY NoWords DEF Labelled
<1> HIDE DEF set, groups, debugs, its, expert
<1>11. Labelled(<<Up>> \o its)
  BY <1>7, <1>9, LabelledBoth
<1>12. Labelled(<<set(Root, "commentary")>> \o groups \o <<set(Root, "expert")>>
                \o (IF expert THEN debugs ELSE <<>>))
  BY <1>8, <1>9, <1>10, LabelledBoth
<1>13. QED
  BY <1>11, <1>12 DEF SettingsItems, MapRows, set, groups, debugs, its, expert, rows


-----------------------------------------------------------------------------
(* What a choice does *)

\* The worker is told of no row that is the session's own.
LEMMA ToldAreNotOwn ==
  ASSUME NEW key \in Told
  PROVE  key[2] \notin OwnRows
<1>0. \A r : <<Root, r>>[1] = "root"
  BY DEF Root
<1>1. key \notin {<<Root, "commentary">>, <<Root, "expert">>}
  BY <1>0 DEF Told
<1>2. PICK e \in ToSet(Table) : key = <<e.group, e.row>>
  BY <1>1 DEF Told, Keys
<1>3. GoodRow(e) /\ e.group \in {"fast lane", "slow lane", "context"}
  BY <1>2, TableOfRows DEF Told
<1>4. QED
  BY <1>2, <1>3 DEF GoodRow

LEMMA OverridesStartAbsent ==
  ASSUME NEW name \in {"provider", "thinking"}, <<"slow lane", name>> \in Keys
  PROVE  Default[<<"slow lane", name>>] = Absent
<1> DEFINE k == <<"slow lane", name>>
<1>1. /\ k[1] = "slow lane" /\ k[2] = name /\ k[2] # "mode" /\ k # <<"fast lane", "provider">>
      /\ k[2] \notin {"command_first", "platform", "working_bar"} /\ k[2] \notin Numeric
  BY DEF Numeric
<1> HIDE DEF k
<1>2. k \in Keys => Default[k] = Absent
  BY <1>1 DEF Default
<1>3. QED
  BY <1>2 DEF k

LEMMA FallbacksAreValues ==
  ASSUME NEW r \in Numeric
  PROVE  Fallback[r] # Absent
  BY DEF Fallback, Numeric, Absent

LEMMA SlowApplied ==
  ASSUME NEW w, Good(w), NEW key, key = <<"slow lane", key[2]>>, key[2] \in {"provider", "thinking"},
         NEW v, v # Absent
  PROVE  SameMenu(w, ApplySlow(w, key, v))
<1>1. PICK kept : kept = IF v = "auto" THEN Absent ELSE v
  OBVIOUS
<1>2. PICK more : more = IF key[2] = "provider" THEN <<Plain("Rebind")>> ELSE <<>>
  OBVIOUS
<1>3. Agrees(v, kept)
  BY <1>1 DEF Agrees
<1>4. key \notin Keys \/ Default[key] = Absent
  BY OverridesStartAbsent, Zenon
<1>5. more \in {<<>>, <<Plain("Rebind")>>}
  BY <1>2
<1>6. ApplySlow(w, key, v) = Send(Keep(w, key, kept), <<Option(key, v)>> \o more)
  BY <1>1, <1>2, Zenon DEF ApplySlow
<1>7. QED
  BY <1>3, <1>4, <1>5, <1>6, GoodOption

LEMMA NumberApplied ==
  ASSUME NEW w, Good(w), NEW key, key = <<key[1], key[2]>>, key[2] \in Numeric, NEW v, v # Absent
  PROVE  SameMenu(w, ApplyNumber(w, key, v))
<1>1. PICK n : n = IF v \in Numerals THEN v ELSE Fallback[key[2]]
  OBVIOUS
<1>2. PICK s : s = IF key[1] = "nerd stuff" THEN v ELSE n
  OBVIOUS
<1>3. n # Absent
  BY <1>1, FallbacksAreValues
<1>4. key \notin Told
  BY ToldAreNotOwn DEF OwnRows
<1>5. Keeps(key, n, s)
  <2>1. CASE v \in Numerals \/ key[1] # "nerd stuff"
    <3>1. s = n
      BY <1>1, <1>2, <2>1
    <3>2. QED
      BY <1>3, <3>1 DEF Keeps
  <2>2. CASE v \notin Numerals /\ key[1] = "nerd stuff"
    <3>1. s \notin Numerals \cup {Absent}
      BY <1>2, <2>2
    <3>2. key \in BarRows
      BY <2>2 DEF BarRows
    <3>3. QED
      BY <3>1, <3>2 DEF Keeps, Garbles
  <2>3. QED
    BY <2>1, <2>2
<1>6. ApplyNumber(w, key, v) = [w EXCEPT !.live[key] = n, !.file[key] = s]
  BY <1>1, <1>2, Zenon DEF ApplyNumber
<1>7. SameMenu(w, [w EXCEPT !.live[key] = n, !.file[key] = s])
  BY <1>3, <1>4, <1>5, GoodOwn
<1>8. QED
  BY <1>6, <1>7, Zenon

LEMMA SwitchApplied ==
  ASSUME NEW w, Good(w), NEW key, key[2] \in {"commentary", "expert", "working_bar", "record"}, NEW v
  PROVE  SameMenu(w, ApplySwitch(w, key, v))
<1>1. PICK x : x = OnOff(v = "on")
  OBVIOUS
<1>2. x # Absent
  BY <1>1 DEF OnOff, Absent
<1>3. key \notin Told
  BY ToldAreNotOwn DEF OwnRows
<1>4. ApplySwitch(w, key, v) = [w EXCEPT !.live[key] = x, !.file[key] = x]
  BY <1>1, Zenon DEF ApplySwitch, Keep
<1>5. SameMenu(w, [w EXCEPT !.live[key] = x, !.file[key] = x])
  BY <1>2, <1>3, GoodOwn DEF Keeps
<1>6. QED
  BY <1>4, <1>5, Zenon

LEMMA EngineApplied ==
  ASSUME NEW w, Good(w), NEW key, NEW v, v # Absent, key[2] \in Switches => v \in {"on", "off"}
  PROVE  SameMenu(w, ApplyEngine(w, key, v))
<1>1. v = IF key[2] \in {"command_first", "platform"} THEN OnOff(v = "on") ELSE v
  BY DEF Switches, OnOff
<1>2. PICK more : more = IF key[2] = "provider" THEN <<Plain("Rebind")>> ELSE <<>>
  OBVIOUS
<1>3. Agrees(v, v)
  BY DEF Agrees
<1>4. more \in {<<>>, <<Plain("Rebind")>>}
  BY <1>2
<1>5. ApplyEngine(w, key, v) = Send(Keep(w, key, v), <<Option(key, v)>> \o more)
  BY <1>1, <1>2, Zenon DEF ApplyEngine
<1>6. QED
  BY <1>3, <1>4, <1>5, GoodOption

LEMMA ApplyGood ==
  ASSUME NEW w, Good(w), NEW g, NEW name, NEW v, v # Absent, name \in Switches => v \in {"on", "off"}
  PROVE  SameMenu(w, Apply(w, g, name, v))
<1>1. /\ \A n \in {"provider", "thinking"} :
           n \notin Numeric /\ n \notin {"memory", "commentary", "expert", "working_bar", "record"}
      /\ \A n \in Numeric : n \notin {"memory", "commentary", "expert", "working_bar", "record"}
  BY DEF Numeric
<1>2. PICK key : key = <<g, name>>
  OBVIOUS
<1>3. key[1] = g /\ key[2] = name /\ key = <<key[1], key[2]>>
  BY <1>2
<1>4. CASE g = "slow lane" /\ name \in {"provider", "thinking"}
  <2>1. Apply(w, g, name, v) = ApplySlow(w, key, v)
    BY <1>1, <1>2, <1>4 DEF Apply
  <2>2. QED
    BY <1>3, <1>4, <2>1, SlowApplied
<1>5. CASE name \in Numeric
  <2>1. Apply(w, g, name, v) = ApplyNumber(w, key, v)
    BY <1>1, <1>2, <1>5 DEF Apply
  <2>2. QED
    BY <1>3, <1>5, <2>1, NumberApplied
<1>6. CASE name = "memory"
  <2>1. Apply(w, g, name, v) = [w EXCEPT !.store = SetEnabled(w.store, v = "on")]
    BY <1>1, <1>6 DEF Apply, Good, SessionFields
  <2>2. QED
    BY <2>1, GoodBesides
<1>7. CASE name \in {"commentary", "expert", "working_bar", "record"}
  <2>1. Apply(w, g, name, v) = ApplySwitch(w, key, v)
    BY <1>1, <1>2, <1>7 DEF Apply
  <2>2. QED
    BY <1>3, <1>7, <2>1, SwitchApplied
<1>8. CASE /\ ~(g = "slow lane" /\ name \in {"provider", "thinking"})
           /\ name \notin Numeric
           /\ name \notin {"memory", "commentary", "expert", "working_bar", "record"}
  <2>1. Apply(w, g, name, v) = ApplyEngine(w, key, v)
    BY <1>2, <1>8 DEF Apply
  <2>2. QED
    BY <1>3, <2>1, EngineApplied
<1>9. QED
  BY <1>4, <1>5, <1>6, <1>7, <1>8


-----------------------------------------------------------------------------
(* What the keys asked for *)

\* Still the menu the keys were for, and a choice that keeps it.
SameKind(m, n) == PickFits(n) /\ n.kind = m.kind /\ n.valueRow = m.valueRow
Follows(m, w) == Good(w) /\ SameKind(m, w.menu)

LEMMA ItemsFit ==
  ASSUME NEW m, PickFits(m), NEW its, m.kind = "ValuePick" => Labelled(its)
  PROVE  SameKind(m, [m EXCEPT !.items = its]) /\ SameKind(m, Clamp([m EXCEPT !.items = its]))
<1> DEFINE n == [m EXCEPT !.items = its]
<1>1. DOMAIN m = MenuFields
  BY DEF PickFits
<1>2. /\ DOMAIN n = MenuFields /\ n.items = its /\ n.kind = m.kind /\ n.valueRow = m.valueRow
      /\ n.loaded = m.loaded /\ n.cursor = m.cursor /\ n.typing = m.typing /\ n.composeRow = m.composeRow
  BY <1>1 DEF MenuFields
<1> HIDE DEF n
<1>3. m.kind = "ValuePick" => ASequence(its) /\ \A r \in ToSet(its) : Label(r) # Absent
  BY DEF Labelled
<1>4. SameKind(m, n)
  BY <1>2, <1>3 DEF PickFits, SameKind
<1>5. /\ Alike(n, Clamp(n)) /\ Clamp(n).typing = n.typing /\ Clamp(n).composeRow = n.composeRow
      /\ ASequence(n.items) /\ n.cursor \in Nat => Clamp(n).cursor \in Nat
  BY <1>2, ClampMovesTheCursor
<1>6. SameKind(m, Clamp(n))
  BY <1>4, <1>5 DEF PickFits, SameKind, Alike
<1>7. QED
  BY <1>4, <1>6 DEF n

LEMMA FollowsMenu ==
  ASSUME NEW m, NEW w, Good(w), NEW n, SameKind(m, n)
  PROVE  Follows(m, [w EXCEPT !.menu = n])
<1>1. Good([w EXCEPT !.menu = n]) /\ [w EXCEPT !.menu = n].menu = n
  BY GoodMenu DEF SameKind
<1>2. QED
  BY <1>1 DEF Follows

LEMMA FollowsSame ==
  ASSUME NEW m, NEW w, Follows(m, w), NEW u, SameMenu(w, u)
  PROVE  Follows(m, u)
  BY DEF Follows, SameMenu

LEMMA SameKindTwice ==
  ASSUME NEW m, NEW n, SameKind(m, n), NEW o, SameKind(n, o)
  PROVE  SameKind(m, o)
  BY DEF SameKind

LEMMA FollowsItems ==
  ASSUME NEW m, NEW w, Follows(m, w), NEW its, m.kind = "ValuePick" => Labelled(its)
  PROVE  /\ Follows(m, [w EXCEPT !.menu = [w.menu EXCEPT !.items = its]])
         /\ Follows(m, [w EXCEPT !.menu = Clamp([w.menu EXCEPT !.items = its])])
<1>1. PickFits(w.menu) /\ (w.menu.kind = "ValuePick" => Labelled(its)) /\ SameKind(m, w.menu) /\ Good(w)
  BY DEF Follows, SameKind
<1>2. /\ SameKind(m, [w.menu EXCEPT !.items = its])
      /\ SameKind(m, Clamp([w.menu EXCEPT !.items = its]))
  BY <1>1, ItemsFit, SameKindTwice
<1>3. QED
  BY <1>1, <1>2, FollowsMenu

LEMMA PinFromFieldGood ==
  ASSUME NEW m, NEW w, Follows(m, w), NEW req, NEW readable
  PROVE  Follows(m, PinFromField(w, m.kind, req, readable))
<1>1. CASE m.kind # "Pins" \/ ~req.noted \/ req.note = <<>>
  BY <1>1 DEF PinFromField
<1>2. CASE ~(m.kind # "Pins" \/ ~req.noted \/ req.note = <<>>)
  <2>1. PICK kept : PinFromField(w, m.kind, req, readable) =
                      [w EXCEPT !.pins = kept, !.menu = Clamp([w.menu EXCEPT !.items = PinItems(kept.ids)])]
    BY <1>2 DEF PinFromField, Follows, Good, SessionFields
  <2> DEFINE u == [w EXCEPT !.pins = kept]
  <2>2. SameMenu(w, u)
    BY GoodBesides DEF Follows
  <2>3. Follows(m, u) /\ u.menu = w.menu
    BY <2>2, FollowsSame DEF SameMenu
  <2>4. m.kind # "ValuePick"
    BY <1>2
  <2>5. PinFromField(w, m.kind, req, readable) =
          [u EXCEPT !.menu = Clamp([u.menu EXCEPT !.items = PinItems(kept.ids)])]
    BY <2>1, <2>3
  <2> HIDE DEF u
  <2>6. Follows(m, [u EXCEPT !.menu = Clamp([u.menu EXCEPT !.items = PinItems(kept.ids)])])
    BY <2>3, <2>4, FollowsItems
  <2>7. QED
    BY <2>5, <2>6, Zenon
<1>3. QED
  BY <1>1, <1>2

LEMMA OpenPaneGood ==
  ASSUME NEW m, NEW w, Follows(m, w), NEW req
  PROVE  Follows(m, OpenPane(w, m.kind, req))
<1> DEFINE n == [w.menu EXCEPT !.viewing = req.view]
<1>1. PickFits(w.menu)
  BY DEF Follows, SameKind
<1>2. SameKind(w.menu, n)
  BY <1>1 DEF PickFits, SameKind, MenuFields
<1> HIDE DEF n
<1>3. SameKind(m, n)
  BY <1>2, SameKindTwice DEF Follows
<1>4. Follows(m, [w EXCEPT !.menu = n])
  BY <1>3, FollowsMenu DEF Follows
<1>5. OpenPane(w, m.kind, req) \in {w, [w EXCEPT !.menu = n]}
  BY DEF OpenPane, n, Follows, Good, SessionFields
<1>6. QED
  BY <1>4, <1>5

LEMMA DropPinGood ==
  ASSUME NEW m, NEW w, Follows(m, w), NEW req
  PROVE  Follows(m, DropPin(w, m.kind, req))
<1>1. CASE m.kind # "Pins" \/ req.committed = NoRow
  BY <1>1 DEF DropPin
<1>2. CASE ~(m.kind # "Pins" \/ req.committed = NoRow)
  <2> DEFINE ids  == Only(w.pins.ids, ToSet(w.pins.ids) \ {req.committed.id})
             pinz == [w.pins EXCEPT !.ids = ids]
             its  == PinItems(ids)
             u    == [w EXCEPT !.pins = pinz]
  <2>1. DropPin(w, m.kind, req) = [w EXCEPT !.pins = pinz, !.menu = Clamp([w.menu EXCEPT !.items = its])]
    BY <1>2 DEF DropPin, Follows, Good, SessionFields
  <2> HIDE DEF pinz, its
  <2>2. SameMenu(w, u)
    BY GoodBesides DEF Follows
  <2>3. Follows(m, u) /\ u.menu = w.menu
    BY <2>2, FollowsSame DEF SameMenu
  <2>4. m.kind # "ValuePick"
    BY <1>2
  <2>5. DropPin(w, m.kind, req) = [u EXCEPT !.menu = Clamp([u.menu EXCEPT !.items = its])]
    BY <2>1, <2>3
  <2> HIDE DEF u
  <2>6. Follows(m, [u EXCEPT !.menu = Clamp([u.menu EXCEPT !.items = its])])
    BY <2>3, <2>4, FollowsItems
  <2>7. QED
    BY <2>5, <2>6, Zenon
<1>3. QED
  BY <1>1, <1>2

LEMMA MemoryFromFieldGood ==
  ASSUME NEW m, NEW w, Follows(m, w), NEW req, Asks(m, req)
  PROVE  Follows(m, MemoryFromField(w, m.kind, req))
<1>1. CASE m.kind = "Pins" \/ ~req.noted
  BY <1>1 DEF MemoryFromField
<1>2. CASE ~(m.kind = "Pins" \/ ~req.noted)
  <2> DEFINE kept == Add(w.store, req.note)
             its  == MemoryItems(kept)
             u    == [w EXCEPT !.store = kept]
  <2>1. MemoryFromField(w, m.kind, req) =
          [w EXCEPT !.store = kept, !.menu = Clamp([w.menu EXCEPT !.items = its])]
    BY <1>2 DEF MemoryFromField, Follows, Good, SessionFields
  <2> HIDE DEF kept, its
  <2>2. SameMenu(w, u)
    BY GoodBesides DEF Follows
  <2>3. Follows(m, u) /\ u.menu = w.menu
    BY <2>2, FollowsSame DEF SameMenu
  <2>4. m.kind # "ValuePick"
    BY <1>2 DEF Asks
  <2>5. MemoryFromField(w, m.kind, req) = [u EXCEPT !.menu = Clamp([u.menu EXCEPT !.items = its])]
    BY <2>1, <2>3
  <2> HIDE DEF u
  <2>6. Follows(m, [u EXCEPT !.menu = Clamp([u.menu EXCEPT !.items = its])])
    BY <2>3, <2>4, FollowsItems
  <2>7. QED
    BY <2>5, <2>6, Zenon
<1>3. QED
  BY <1>1, <1>2

LEMMA ForgetSlotGood ==
  ASSUME NEW m, NEW w, Follows(m, w), NEW req
  PROVE  Follows(m, ForgetSlot(w, m.kind, req))
<1>1. CASE m.kind # "Memory" \/ req.committed = NoRow
  BY <1>1 DEF ForgetSlot
<1>2. CASE ~(m.kind # "Memory" \/ req.committed = NoRow)
  <2> DEFINE kept == Delete(w.store, req.committed.id)
             its  == MemoryItems(kept)
             u    == [w EXCEPT !.store = kept]
  <2>1. ForgetSlot(w, m.kind, req) =
          [w EXCEPT !.store = kept, !.menu = Clamp([w.menu EXCEPT !.items = its])]
    BY <1>2 DEF ForgetSlot, Follows, Good, SessionFields
  <2> HIDE DEF kept, its
  <2>2. SameMenu(w, u)
    BY GoodBesides DEF Follows
  <2>3. Follows(m, u) /\ u.menu = w.menu
    BY <2>2, FollowsSame DEF SameMenu
  <2>4. m.kind # "ValuePick"
    BY <1>2
  <2>5. ForgetSlot(w, m.kind, req) = [u EXCEPT !.menu = Clamp([u.menu EXCEPT !.items = its])]
    BY <2>1, <2>3
  <2> HIDE DEF u
  <2>6. Follows(m, [u EXCEPT !.menu = Clamp([u.menu EXCEPT !.items = its])])
    BY <2>3, <2>4, FollowsItems
  <2>7. QED
    BY <2>5, <2>6, Zenon
<1>3. QED
  BY <1>1, <1>2

LEMMA StoreTypedGood ==
  ASSUME NEW w, Good(w), NEW row, NEW text
  PROVE  SameMenu(w, StoreTyped(w, row, text))
<1>1. CASE row = "limit" /\ IsNumber(text)
  <2>1. StoreTyped(w, row, text) = [w EXCEPT !.store = SetLimit(w.store, Number(text))]
    BY <1>1 DEF StoreTyped, Numeric, Good, SessionFields
  <2>2. QED
    BY <2>1, GoodBesides
<1>2. CASE row \in Numeric /\ IsNumber(text)
  <2> DEFINE b == CustomBounds[row]
  <2>0. PICK n : n = Within(Number(text), b)
    OBVIOUS
  <2>1. PICK v : /\ StoreTyped(w, row, text) =
                      [w EXCEPT !.live[TypedKey(row)] = v, !.file[TypedKey(row)] = v]
                 /\ v = ToString(n)
    BY <1>2, <2>0 DEF StoreTyped, Numeric
  <2>2. PICK key : key = TypedKey(row)
    OBVIOUS
  <2>3. key = <<key[1], key[2]>> /\ key[1] = "nerd stuff" /\ key[2] \in Numeric
    BY <2>2 DEF TypedKey, Numeric
  <2>4. key \notin Told /\ v # Absent
    <3>1. b.lo \in 0 .. 99 /\ b.hi \in 0 .. 99
      BY <1>2 DEF CustomBounds
    <3>2. n \in 0 .. 99
      BY <2>0, <3>1 DEF Within
    <3>3. v \in Numerals
      BY <2>1, <3>2 DEF Numerals
    <3>4. QED
      BY <2>3, <3>3, NumeralsAssumption, ToldAreNotOwn DEF OwnRows
  <2>5. SameMenu(w, [w EXCEPT !.live[key] = v, !.file[key] = v])
    BY <2>4, GoodOwn DEF Keeps
  <2>6. QED
    BY <2>1, <2>2, <2>5, Zenon
<1>3. CASE ~(row = "limit" /\ IsNumber(text)) /\ ~(row \in Numeric /\ IsNumber(text))
  BY <1>3 DEF StoreTyped, SameMenu
<1>4. QED
  BY <1>1, <1>2, <1>3

LEMMA TypeSettingGood ==
  ASSUME NEW m, NEW w, Follows(m, w), NEW req
  PROVE  Follows(m, TypeSetting(w, req))
<1>1. CASE req.typedRow = ""
  BY <1>1 DEF TypeSetting
<1>2. CASE req.typedRow # ""
  <2> DEFINE u   == StoreTyped(w, req.typedRow, req.typed)
             its == SettingsItems(u, u.menu.group)
  <2>1. SameMenu(w, u) /\ Labelled(its)
    BY StoreTypedGood, SettingsAreLabelled DEF Follows
  <2>2. Follows(m, u)
    BY <2>1, FollowsSame
  <2>3. Follows(m, [u EXCEPT !.menu = Clamp([u.menu EXCEPT !.items = its])])
    BY <2>1, <2>2, FollowsItems
  <2>4. DOMAIN u = SessionFields
    BY <2>1 DEF SameMenu, Good
  <2>5. TypeSetting(w, req) = [u EXCEPT !.menu = Clamp([u.menu EXCEPT !.items = its])]
    BY <1>2, <2>4 DEF TypeSetting, SessionFields
  <2>6. QED
    BY <2>3, <2>5
<1>3. QED
  BY <1>1, <1>2


LEMMA FieldGood ==
  ASSUME NEW m, NEW w, Follows(m, w), NEW name, m.kind = "ValuePick" => name # ""
  PROVE  Follows(m, Field(w, name))
<1> DEFINE n == [w.menu EXCEPT !.typing = TRUE, !.text = <<>>, !.composeRow = name]
<1>1. PickFits(w.menu) /\ w.menu.kind = m.kind
  BY DEF Follows, SameKind
<1>2. SameKind(w.menu, n)
  BY <1>1 DEF PickFits, SameKind, MenuFields
<1>3. Field(w, name) = [w EXCEPT !.menu = n]
  BY DEF Field, Follows, Good, SessionFields
<1> HIDE DEF n
<1>4. SameKind(m, n)
  BY <1>2, SameKindTwice DEF Follows
<1>5. Follows(m, [w EXCEPT !.menu = n])
  BY <1>4, FollowsMenu DEF Follows
<1>6. QED
  BY <1>3, <1>5

\* The row a drop-down is opened for, if one is, is no switch.
Settled(m, req, c) ==
  Follows(m, c.w) /\ (c.then = "values" => req.committed.n \notin Switches \cup {""})

LEMMA SettledOn ==
  ASSUME NEW m, NEW req, NEW u, Follows(m, u), NEW then, then # "values"
  PROVE  Settled(m, req, Choice(u, then))
  BY DEF Settled, Choice

LEMMA SettledValues ==
  ASSUME NEW m, NEW req, NEW u, Follows(m, u), req.committed.n \notin Switches \cup {""}
  PROVE  Settled(m, req, Choice(u, "values"))
  BY DEF Settled, Choice

LEMMA ApplyRowGood ==
  ASSUME NEW m, NEW w, Follows(m, w), NEW g, NEW name, NEW v, v # Absent,
         name \in Switches => v \in {"on", "off"}, m.kind = "ValuePick" => name # ""
  PROVE  \A req : Settled(m, req, ApplyRow(w, g, name, v))
<1> TAKE req
<1>1. CASE v = Custom
  <2>1. ApplyRow(w, g, name, v) = Choice(Field(w, name), "stop")
    BY <1>1 DEF ApplyRow
  <2>2. QED
    BY <2>1, FieldGood, SettledOn
<1>2. CASE v # Custom
  <2> DEFINE u   == Apply(w, g, name, v)
             its == SettingsItems(u, u.menu.group)
  <2>1. SameMenu(w, u) /\ Labelled(its)
    BY ApplyGood, SettingsAreLabelled DEF Follows
  <2>2. Follows(m, u)
    BY <2>1, FollowsSame
  <2>3. Follows(m, [u EXCEPT !.menu = [u.menu EXCEPT !.items = its]])
    BY <2>1, <2>2, FollowsItems
  <2>4. DOMAIN u = SessionFields
    BY <2>1 DEF SameMenu, Good
  <2>5. ApplyRow(w, g, name, v) = Choice([u EXCEPT !.menu = [u.menu EXCEPT !.items = its]], "on")
    BY <1>2, <2>4 DEF ApplyRow, SessionFields
  <2>6. PICK x : x = [u EXCEPT !.menu = [u.menu EXCEPT !.items = its]]
    OBVIOUS
  <2>7. ApplyRow(w, g, name, v) = Choice(x, "on") /\ Follows(m, x)
    BY <2>3, <2>5, <2>6, Zenon
  <2>8. QED
    BY <2>7, SettledOn
<1>3. QED
  BY <1>1, <1>2

LEMMA MoreThanTwo ==
  ASSUME NEW n \in Nat
  PROVE  n > 2 => n # 2 /\ n \notin 1 .. 2
  OBVIOUS

LEMMA CommitGood ==
  ASSUME NEW m, PickFits(m), NEW w, Follows(m, w), NEW req, Asks(m, req)
  PROVE  Settled(m, req, Commit(w, m.kind, req))
<1> DEFINE row    == req.committed
           g      == w.menu.group
           c      == Commit(w, m.kind, req)
<1>1. CASE req.picked # NoRow
  <2>1. /\ m.kind = "ValuePick" /\ Label(req.picked) # Absent
        /\ m.valueRow[2] \notin Switches \cup {""} /\ w.menu.valueRow = m.valueRow
    BY <1>1 DEF Asks, PickFits, Follows, SameKind
  <2>2. c = ApplyRow(w, w.menu.valueRow[1], w.menu.valueRow[2], Label(req.picked))
    BY <1>1 DEF Commit
  <2>3. QED
    BY <2>1, <2>2, ApplyRowGood
<1>2. CASE req.picked = NoRow /\ (m.kind # "Settings" \/ row = NoRow)
  <2>1. c = Choice(w, "on")
    BY <1>2 DEF Commit
  <2>2. QED
    BY <2>1, SettledOn
<1>3. CASE req.picked = NoRow /\ m.kind = "Settings" /\ row # NoRow
  <2> DEFINE values == RowValues(g, row.n)
  <2>0. ASequence(values) /\ Len(values) \in Nat
    <3>1. ASequence(values)
      BY WordsOffered
    <3>2. PICK S : values \in Seq(S)
      BY <3>1 DEF ASequence
    <3>3. QED
      BY <3>1, <3>2
  <2>1. m.kind # "ValuePick"
    BY <1>3
  <2>2. CASE row.n \in TextEntry
    <3>1. c = Choice(Field(w, row.n), "on")
      BY <1>3, <2>2 DEF Commit, TextEntry, OpensMenu
    <3>2. QED
      BY <2>1, <3>1, FieldGood, SettledOn
  <2>3. CASE row.n \in OpensMenu
    <3>1. c = Choice(w, IF g = "slow lane" THEN "slow picker" ELSE "picker")
      BY <1>3, <2>3 DEF Commit, TextEntry, OpensMenu
    <3>2. QED
      BY <3>1, SettledOn
  <2>4. CASE row.n \notin TextEntry \cup OpensMenu /\ Len(values) > 2
    <3>1. c = Choice(w, "values")
      <4> HIDE DEF values
      <4>1. ~(Len(values) \in 1 .. 2)
        BY <2>0, <2>4, MoreThanTwo, Zenon
      <4>2. QED
        BY <1>3, <2>4, <4>1 DEF Commit, values
    <3>2. values # <<>>
      <4>1. Len(<<>>) = 0
        OBVIOUS
      <4>2. QED
        BY <2>4, <4>1
    <3>3. GoodWords(row.n, values) /\ row.n # ""
      BY <3>2, WordsOffered
    <3>4. row.n \notin Switches
      <4> HIDE DEF values
      <4>1. Len(values) # 2
        BY <2>0, <2>4, MoreThanTwo, Zenon
      <4>2. QED
        BY <3>3, <4>1 DEF GoodWords
    <3>5. QED
      BY <3>1, <3>3, <3>4, SettledValues
  <2>5. CASE row.n \notin TextEntry \cup OpensMenu /\ Len(values) \in 1 .. 2
    <3> DEFINE v == Cycled(values, row.v)
    <3>1. c = ApplyRow(w, g, row.n, v)
      <4> HIDE DEF values
      <4>1. ~(Len(values) > 2)
        BY <2>0, <2>5, MoreThanTwo, Zenon
      <4>2. QED
        BY <1>3, <2>5, <4>1 DEF Commit, values
    <3>2. values # <<>>
      <4>1. Len(<<>>) = 0
        OBVIOUS
      <4>2. QED
        BY <2>5, <4>1
    <3>3. GoodWords(row.n, values) /\ ASequence(values)
      BY <3>2, WordsOffered
    <3>4. v \in ToSet(values)
      BY <3>2, <3>3, CycledIsOffered
    <3> HIDE DEF v, values
    <3>5. v # Absent /\ (row.n \in Switches => v \in {"on", "off"})
      BY <3>3, <3>4 DEF GoodWords
    <3>6. QED
      BY <2>1, <3>1, <3>5, ApplyRowGood
  <2>6. CASE row.n \notin TextEntry \cup OpensMenu /\ ~(Len(values) > 2) /\ Len(values) \notin 1 .. 2
    <3>1. c = Choice(w, "on")
      BY <1>3, <2>6 DEF Commit
    <3>2. QED
      BY <3>1, SettledOn
  <2>7. QED
    BY <2>2, <2>3, <2>4, <2>5, <2>6
<1>4. QED
  BY <1>1, <1>2, <1>3

LEMMA SameMenuTwice ==
  ASSUME NEW w, NEW u, SameMenu(w, u), NEW x, SameMenu(u, x)
  PROVE  SameMenu(w, x)
  BY DEF SameMenu

LEMMA BindSlowGood ==
  ASSUME NEW w, Good(w), NEW kind, NEW req
  PROVE  SameMenu(w, BindSlowModel(w, kind, req))
<1>1. CASE kind # "SlowModel" \/ req.committed = NoRow \/ ~engine
  BY <1>1 DEF BindSlowModel, SameMenu
<1>2. CASE ~(kind # "SlowModel" \/ req.committed = NoRow \/ ~engine)
  <2>1. PICK x : x = Job("SetSlowModel", ModelKey, req.committed.n)
    OBVIOUS
  <2>2. PICK u : u = Send(w, <<x>>)
    OBVIOUS
  <2>3. x.k # "SetOption"
    BY <2>1 DEF Job
  <2>4. SameMenu(w, u)
    BY <2>2, <2>3, GoodSend
  <2>5. SameMenu(u, [u EXCEPT !.slowShown = req.committed.n])
    BY <2>4, GoodBesides DEF SameMenu
  <2>6. BindSlowModel(w, kind, req) = [u EXCEPT !.slowShown = req.committed.n]
    BY <1>2, <2>1, <2>2 DEF BindSlowModel
  <2>7. QED
    BY <2>4, <2>5, <2>6, SameMenuTwice
<1>3. QED
  BY <1>1, <1>2

LEMMA BindFastGood ==
  ASSUME NEW w, Good(w), NEW kind, NEW req
  PROVE  SameMenu(w, BindFastModel(w, kind, req))
<1> DEFINE name == req.committed.n
<1>1. CASE kind # "Model" \/ req.committed = NoRow \/ ~engine
  BY <1>1 DEF BindFastModel, SameMenu
<1>2. CASE ~(kind # "Model" \/ req.committed = NoRow \/ ~engine) /\ name = "auto"
  <2>1. PICK x : x = Plain("Rebind")
    OBVIOUS
  <2>2. PICK u : u = Send(w, <<x>>)
    OBVIOUS
  <2>3. x.k # "SetOption"
    BY <2>1 DEF Plain, Job
  <2>4. SameMenu(w, u)
    BY <2>2, <2>3, GoodSend
  <2>5. SameMenu(u, [u EXCEPT !.file[ModelKey] = Absent])
    BY <2>4, GoodModelFile DEF SameMenu
  <2>6. BindFastModel(w, kind, req) = [u EXCEPT !.file[ModelKey] = Absent]
    BY <1>2, <2>1, <2>2 DEF BindFastModel
  <2>7. QED
    BY <2>4, <2>5, <2>6, SameMenuTwice
<1>3. CASE ~(kind # "Model" \/ req.committed = NoRow \/ ~engine) /\ name # "auto"
  <2>1. PICK x : x = Job("SetModel", ModelKey, name)
    OBVIOUS
  <2>2. PICK u : u = Send(w, <<x>>)
    OBVIOUS
  <2>3. PICK t : t = [u EXCEPT !.file[ModelKey] = name]
    OBVIOUS
  <2>4. x.k # "SetOption"
    BY <2>1 DEF Job
  <2>5. SameMenu(w, u)
    BY <2>2, <2>4, GoodSend
  <2>6. SameMenu(u, t)
    BY <2>3, <2>5, GoodModelFile DEF SameMenu
  <2>7. SameMenu(t, [t EXCEPT !.probation = name])
    BY <2>6, GoodBesides DEF SameMenu
  <2>8. BindFastModel(w, kind, req) = [u EXCEPT !.file[ModelKey] = name, !.probation = name]
    BY <1>3, <2>1, <2>2 DEF BindFastModel
  <2>9. [u EXCEPT !.file[ModelKey] = name, !.probation = name] = [t EXCEPT !.probation = name]
    BY <2>3
  <2>10. QED
    BY <2>5, <2>6, <2>7, <2>8, <2>9, SameMenuTwice
<1>4. QED
  BY <1>1, <1>2, <1>3


\* The least of some numbers is one of them.
LEMMA MinIsIn ==
  ASSUME NEW B, B \subseteq Nat, B # {}
  PROVE  Min(B) \in B
<1>1. \E n \in B : \A m \in B : n <= m
  BY Least
<1>2. QED
  BY <1>1 DEF Min

LEMMA OpensFit ==
  ASSUME NEW kind
  PROVE  DOMAIN Open(kind) = MenuFields /\ Open(kind).kind = kind
  BY DEF Open, MenuFields

LEMMA Positions ==
  ASSUME NEW s, ASequence(s)
  PROVE  DOMAIN s \subseteq Nat \ {0}
<1>1. PICK S : s \in Seq(S)
  BY DEF ASequence
<1>2. DOMAIN s = 1 .. Len(s) /\ Len(s) \in Nat
  BY <1>1, LenProperties
<1>3. QED
  BY <1>2

\* A menu that is no drop-down fits whatever it shows.
LEMMA PlainMenusFit ==
  ASSUME NEW m, DOMAIN m = MenuFields, m.kind # "ValuePick"
  PROVE  PickFits(m)
  BY DEF PickFits

LEMMA DropDownGood ==
  ASSUME NEW w, Good(w), NEW name, name \notin Switches \cup {""}
  PROVE  Good(OpenDropDown(w, name))
<1> DEFINE g      == w.menu.group
           values == RowValues(g, name)
           cur    == Shows(w, g, name)
           at     == {i \in DOMAIN values : values[i] = cur}
           custom == {i \in DOMAIN values : values[i] = Custom}
           words  == [i \in DOMAIN values |-> Row("value", "", values[i])]
           its    == <<Up>> \o words
           c      == IF at # {} THEN Min(at) ELSE IF custom # {} THEN Min(custom) ELSE 0
           p      == [kind |-> "Settings", group |-> g]
           n      == [Open("ValuePick") EXCEPT !.items = its, !.cursor = c, !.loaded = TRUE,
                                               !.valueRow = <<g, name>>, !.parent = p]
<1>1. ASequence(values) /\ Absent \notin ToSet(values)
  BY WordsOffered
<1> HIDE DEF values, cur
<1>2. DOMAIN values \subseteq Nat
  BY <1>1, Positions
<1>3. c \in Nat
  <2>1. at \subseteq Nat /\ custom \subseteq Nat
    BY <1>2
  <2> HIDE DEF at, custom
  <2>2. (at # {} => Min(at) \in Nat) /\ (custom # {} => Min(custom) \in Nat)
    BY <2>1, MinIsIn
  <2>3. QED
    BY <2>2
<1>4. Labelled(its)
  <2>1. words = [i \in DOMAIN values |-> words[i]]
    OBVIOUS
  <2>2. \A i \in DOMAIN values : Label(words[i]) = values[i]
    BY DEF Label, Row
  <2> HIDE DEF words
  <2>3. \A i \in DOMAIN values : Label(words[i]) # Absent
    BY <1>1, <2>2 DEF ToSet
  <2>4. Labelled(words)
    BY <1>1, <2>1, <2>3, LabelledEach
  <2>5. Label(Up) # Absent
    BY DEF Label, Row, Up, Absent
  <2>6. QED
    BY <2>4, <2>5, LabelledOne, LabelledBoth
<1> HIDE DEF its, c, p
<1>5. PickFits(n)
  <2>1. <<g, name>>[2] = name
    OBVIOUS
  <2>2. /\ DOMAIN n = MenuFields /\ n.kind = "ValuePick" /\ n.loaded /\ n.cursor = c /\ ~n.typing
        /\ n.valueRow = <<g, name>> /\ n.items = its
    BY DEF Open, MenuFields
  <2> HIDE DEF n
  <2>3. QED
    BY <1>3, <1>4, <2>1, <2>2 DEF PickFits, Labelled
<1>6. OpenDropDown(w, name) = [w EXCEPT !.menu = n]
  BY DEF OpenDropDown, its, words, c, at, custom, values, cur, p
<1> HIDE DEF n
<1>7. QED
  BY <1>5, <1>6, GoodMenu

LEMMA PickerGood ==
  ASSUME NEW w, Good(w), NEW slow, NEW g
  PROVE  Good(OpenPicker(w, slow, g))
<1>1. CASE ~engine
  BY <1>1 DEF OpenPicker
<1>2. CASE engine
  <2>1. PICK x : x = Plain(IF slow THEN "ListSlowModels" ELSE "ListModels")
    OBVIOUS
  <2>2. PICK u : u = Send(w, <<x>>)
    OBVIOUS
  <2>3. PICK kind : kind = IF slow THEN "SlowModel" ELSE "Model"
    OBVIOUS
  <2>4. PICK n : n = [Open(kind) EXCEPT !.parent = [kind |-> "Settings", group |-> g]]
    OBVIOUS
  <2>5. x.k # "SetOption"
    BY <2>1 DEF Plain, Job
  <2>6. SameMenu(w, u)
    BY <2>2, <2>5, GoodSend
  <2>7. DOMAIN n = MenuFields /\ n.kind = kind /\ kind # "ValuePick"
    BY <2>3, <2>4, OpensFit DEF MenuFields
  <2>8. PickFits(n)
    BY <2>7, PlainMenusFit
  <2>9. Good([u EXCEPT !.menu = n])
    BY <2>6, <2>8, GoodMenu DEF SameMenu
  <2>10. OpenPicker(w, slow, g) = [u EXCEPT !.menu = n]
    BY <1>2, <2>1, <2>2, <2>3, <2>4, Zenon DEF OpenPicker
  <2>11. QED
    BY <2>9, <2>10
<1>3. QED
  BY <1>1, <1>2

LEMMA EnterGood ==
  ASSUME NEW w, Good(w), NEW g, NEW from
  PROVE  Good(Enter(w, g, from))
<1> DEFINE items == SettingsItems(w, g)
           back  == {i \in DOMAIN items : from # Root /\ items[i] = GroupRow(from)}
           c     == IF back = {} THEN 0 ELSE Min(back) - 1
           n     == [w.menu EXCEPT !.group = g, !.filter = 0, !.items = items, !.cursor = c]
<1>1. Labelled(items)
  BY SettingsAreLabelled
<1> HIDE DEF items
<1>2. DOMAIN items \subseteq Nat \ {0}
  BY <1>1, Positions DEF Labelled
<1>3. c \in Nat
  <2>1. back \subseteq Nat \ {0}
    BY <1>2
  <2> HIDE DEF back
  <2>2. back # {} => Min(back) \in Nat \ {0}
    BY <2>1, MinIsIn
  <2>3. QED
    BY <2>2
<1> HIDE DEF c
<1>4. PickFits(w.menu)
  BY DEF Good, Sound
<1>5. PickFits(n)
  <2>1. /\ DOMAIN n = MenuFields /\ n.kind = w.menu.kind /\ n.loaded = w.menu.loaded /\ n.cursor = c
        /\ n.typing = w.menu.typing /\ n.composeRow = w.menu.composeRow
        /\ n.valueRow = w.menu.valueRow /\ n.items = items
    BY <1>4 DEF PickFits, MenuFields
  <2> HIDE DEF n
  <2>2. QED
    BY <1>1, <1>3, <1>4, <2>1 DEF PickFits, Labelled
<1>6. Enter(w, g, from) = [w EXCEPT !.menu = n]
  BY DEF Enter, items, back, c, Good, SessionFields
<1> HIDE DEF n
<1>7. QED
  BY <1>5, <1>6, GoodMenu

LEMMA NavigateGood ==
  ASSUME NEW w, Good(w), NEW req
  PROVE  Good(Navigate(w, req))
<1>1. PICK n : n = [Open("Settings") EXCEPT !.loaded = TRUE]
  OBVIOUS
<1>2. DOMAIN n = MenuFields /\ n.kind # "ValuePick"
  BY <1>1, OpensFit DEF MenuFields
<1>3. Good([w EXCEPT !.menu = n])
  BY <1>2, PlainMenusFit, GoodMenu
<1>4. Good(Enter([w EXCEPT !.menu = n], w.menu.parent.group, Root))
  BY <1>3, EnterGood
<1>5. Good(Enter(w, Root, w.menu.group)) /\ Good(Enter(w, req.into, Root))
  BY EnterGood
<1>6. QED
  BY <1>1, <1>4, <1>5 DEF Navigate

LEMMA FinishGood ==
  ASSUME NEW m, NEW c, NEW req, Settled(m, req, c), NEW g
  PROVE  Good(Finish(c, m.kind, req, g))
<1>1. PICK s : s = ForgetSlot(c.w, m.kind, req)
  OBVIOUS
<1>2. PICK t : t = BindSlowModel(s, m.kind, req)
  OBVIOUS
<1>3. PICK a : a = BindFastModel(t, m.kind, req)
  OBVIOUS
<1>4. Good(s)
  BY <1>1, ForgetSlotGood DEF Settled, Follows
<1>5. Good(t)
  BY <1>2, <1>4, BindSlowGood DEF SameMenu
<1>6. Good(a)
  BY <1>3, <1>5, BindFastGood DEF SameMenu
<1>7. PICK b : b = CASE c.then = "values"      -> OpenDropDown(a, req.committed.n)
                     [] c.then = "picker"      -> OpenPicker(a, FALSE, g)
                     [] c.then = "slow picker" -> OpenPicker(a, TRUE, g)
                     [] OTHER                  -> a
  OBVIOUS
<1>8. Good(b)
  <2>1. CASE c.then = "values"
    BY <1>6, <1>7, <2>1, DropDownGood DEF Settled
  <2>2. CASE c.then = "picker"
    BY <1>6, <1>7, <2>2, PickerGood
  <2>3. CASE c.then = "slow picker"
    BY <1>6, <1>7, <2>3, PickerGood
  <2>4. CASE c.then \notin {"values", "picker", "slow picker"}
    BY <1>6, <1>7, <2>4
  <2>5. QED
    BY <2>1, <2>2, <2>3, <2>4
<1>9. PICK n : n = Navigate(b, req)
  OBVIOUS
<1>10. Good(n)
  BY <1>8, <1>9, NavigateGood
<1>11. Good([n EXCEPT !.menu = NoMenu])
  <2>1. PickFits(NoMenu)
    BY OpensFit, PlainMenusFit DEF NoMenu
  <2>2. QED
    BY <1>10, <2>1, GoodMenu
<1>12. Finish(c, m.kind, req, g) \in {c.w, n, [n EXCEPT !.menu = NoMenu]}
  BY <1>1, <1>2, <1>3, <1>7, <1>9, Zenon DEF Finish
<1>13. QED
  BY <1>10, <1>11, <1>12 DEF Settled, Follows

\* Whatever the keys ask for, what is applied is saved and told.
LEMMA AppliedGood ==
  ASSUME NEW m, PickFits(m), NEW w, Follows(m, w), NEW req, Asks(m, req), NEW g, NEW readable
  PROVE  Good(Applied(w, m.kind, req, g, readable))
<1>1. PICK a : a = PinFromField(w, m.kind, req, readable)
  OBVIOUS
<1>2. PICK p : p = OpenPane(a, m.kind, req)
  OBVIOUS
<1>3. PICK d : d = DropPin(p, m.kind, req)
  OBVIOUS
<1>4. PICK b : b = MemoryFromField(d, m.kind, req)
  OBVIOUS
<1>5. PICK t : t = TypeSetting(b, req)
  OBVIOUS
<1>6. PICK c : c = Commit(t, m.kind, req)
  OBVIOUS
<1>7. Follows(m, a)
  BY <1>1, PinFromFieldGood
<1>8. Follows(m, p)
  BY <1>2, <1>7, OpenPaneGood
<1>9. Follows(m, d)
  BY <1>3, <1>8, DropPinGood
<1>10. Follows(m, b)
  BY <1>4, <1>9, MemoryFromFieldGood
<1>11. Follows(m, t)
  BY <1>5, <1>10, TypeSettingGood
<1>12. Settled(m, req, c)
  BY <1>6, <1>11, CommitGood
<1>13. Good(Finish(c, m.kind, req, g))
  BY <1>12, FinishGood
<1>14. Applied(w, m.kind, req, g, readable) = Finish(c, m.kind, req, g)
  BY <1>1, <1>2, <1>3, <1>4, <1>5, <1>6, Zenon DEF Applied
<1>15. QED
  BY <1>13, <1>14


-----------------------------------------------------------------------------
(* Every step of the session and of the worker *)

SavedInv == Sound(menu, live, file, jobs)

LEMMA NoJobs == ASequence(<<>>) /\ DOMAIN <<>> = {}
<1>1. <<>> \in Seq({})
  OBVIOUS
<1>2. QED
  BY <1>1 DEF ASequence

LEMMA InitSaved == Init => SavedInv
<1> SUFFICES ASSUME Init PROVE SavedInv
  OBVIOUS
<1>1. /\ menu = NoMenu /\ live = Default /\ jobs = <<>> /\ conf = [k \in Told |-> live[k]]
      /\ file = [k \in Keys \cup {ModelKey} |-> IF k = ModelKey THEN Named ELSE Absent]
  BY DEF Init, SessionInit, Worker!WorkerInit
<1>2. PickFits(menu)
  BY <1>1, OpensFit, PlainMenusFit DEF NoMenu
<1>3. DOMAIN Default = Keys
  BY DEF Default
<1>4. Saved(live, file)
  BY <1>1, <1>3, ModelIsNoSetting DEF Saved, Starts
<1>5. \A k \in Told : conf[k] = live[k]
  BY <1>1
<1>6. Heard(conf, jobs, live)
  BY <1>1, <1>5, NoJobs DEF Heard, WillHear, Agrees
<1>7. QED
  BY <1>1, <1>2, <1>4, <1>6, NoJobs DEF SavedInv, Sound

LEMMA AppendOne ==
  ASSUME NEW e, ASequence(e), NEW x
  PROVE  Append(e, x) = e \o <<x>>
<1>1. PICK S : e \in Seq(S)
  BY DEF ASequence
<1> DEFINE T == S \cup {x}
<1>2. e \in Seq(T) /\ x \in T
  BY <1>1, Wider
<1> HIDE DEF T
<1>3. QED
  BY <1>2, AppendIsConcat

\* The primed form of Sound when the engine and the worker's copy are the same.
LEMMA SoundStays ==
  ASSUME UNCHANGED <<engine, conf>>, Sound(menu', live', file', jobs')
  PROVE  SavedInv'
  BY DEF SavedInv, Sound

LEMMA MenuKeysSaved ==
  ASSUME SavedInv, NEW chunk \in Chunks, NEW readable, MenuKeys(chunk, readable), UNCHANGED conf
  PROVE  SavedInv'
<1>1. PICK s : s = AfterKeys(menu, chunk)
  OBVIOUS
<1>2. PICK w0 : w0 = [menu |-> s.m, live |-> live, file |-> file, store |-> store, pins |-> pins,
                      slowShown |-> slowShown, probation |-> probation, jobs |-> jobs]
  OBVIOUS
<1>3. PICK w : w = Applied(w0, menu.kind, s.req, menu.group, readable)
  OBVIOUS
<1>4. PickFits(menu) /\ Pressed(menu, s)
  BY <1>1, AfterKeysPresses DEF SavedInv, Sound
<1>5. SameKind(menu, s.m) /\ Asks(menu, s.req)
  BY <1>4 DEF Pressed, Browsed, Alike, PickFits, SameKind
<1>6. /\ DOMAIN w0 = SessionFields /\ w0.menu = s.m /\ w0.live = live /\ w0.file = file
      /\ w0.jobs = jobs
  BY <1>2 DEF SessionFields
<1>7. Follows(menu, w0)
  BY <1>5, <1>6 DEF Follows, Good, SavedInv, Sound, SameKind
<1>8. Good(w)
  BY <1>3, <1>4, <1>5, <1>7, AppliedGood
<1>9. /\ menu' = w.menu /\ live' = w.live /\ file' = w.file /\ jobs' = w.jobs
      /\ UNCHANGED engine
  BY <1>1, <1>2, <1>3 DEF MenuKeys
<1>10. QED
  BY <1>8, <1>9, SoundStays DEF Good

LEMMA OpenMenuSaved ==
  ASSUME SavedInv, NEW kind \in Kinds, OpenMenu(kind), UNCHANGED conf
  PROVE  SavedInv'
<1>1. UNCHANGED <<live, file, engine>>
  BY DEF OpenMenu, settings
<1>2. PickFits(menu')
  <2>1. kind # "ValuePick"
    BY KindsAssumption
  <2>2. PICK k, its, g : /\ k # "ValuePick"
                         /\ menu' \in {Open(k), [Open(k) EXCEPT !.items = its],
                                       [Open(k) EXCEPT !.items = its, !.loaded = TRUE],
                                       [Open(k) EXCEPT !.items = its, !.group = g, !.loaded = TRUE]}
    BY <2>1 DEF OpenMenu, Opening
  <2>3. DOMAIN Open(k) = MenuFields /\ Open(k).kind = k
    BY OpensFit
  <2>4. CASE menu' = Open(k)
    BY <2>2, <2>3, <2>4, PlainMenusFit
  <2>5. CASE menu' = [Open(k) EXCEPT !.items = its]
    BY <2>2, <2>3, <2>5, PlainMenusFit DEF MenuFields
  <2>6. CASE menu' = [Open(k) EXCEPT !.items = its, !.loaded = TRUE]
    BY <2>2, <2>3, <2>6, PlainMenusFit DEF MenuFields
  <2>7. CASE menu' = [Open(k) EXCEPT !.items = its, !.group = g, !.loaded = TRUE]
    BY <2>2, <2>3, <2>7, PlainMenusFit DEF MenuFields
  <2>8. QED
    BY <2>2, <2>4, <2>5, <2>6, <2>7
<1>3. ASequence(jobs') /\ (engine => Heard(conf, jobs', live))
  <2>1. CASE jobs' = jobs
    BY <2>1 DEF SavedInv, Sound
  <2>2. CASE jobs' = Append(jobs, Plain(Asking[kind])) /\ kind \in DOMAIN Asking
    <3>1. PICK x : x = Plain(Asking[kind])
      OBVIOUS
    <3>2. x.k # "SetOption"
      BY <2>2, <3>1 DEF Plain, Job, Asking
    <3>3. jobs' = jobs \o <<x>>
      BY <2>2, <3>1, AppendOne DEF SavedInv, Sound
    <3>4. QED
      BY <3>2, <3>3, OneMore, HeardBesides DEF SavedInv, Sound
  <2>3. QED
    BY <2>1, <2>2 DEF OpenMenu
<1>4. QED
  BY <1>1, <1>2, <1>3, SoundStays DEF SavedInv, Sound

LEMMA NameModelSaved ==
  ASSUME SavedInv, NEW name, NEW save, NameModel(name, save), UNCHANGED conf
  PROVE  SavedInv'
<1>1. UNCHANGED <<menu, live, engine>>
  BY DEF NameModel
<1>2. PICK x : x = IF name = "auto" THEN Plain("Rebind") ELSE Job("SetModel", ModelKey, name)
  OBVIOUS
<1>3. x.k # "SetOption"
  BY <1>2 DEF Plain, Job
<1>4. jobs' = jobs \o <<x>>
  BY <1>2, AppendOne DEF NameModel, SavedInv, Sound
<1>5. ASequence(jobs') /\ (engine => Heard(conf, jobs', live))
  BY <1>3, <1>4, OneMore, HeardBesides DEF SavedInv, Sound
<1>6. Saved(live, file')
  BY SavedModel DEF NameModel, SavedInv, Sound
<1>7. QED
  BY <1>1, <1>5, <1>6, SoundStays DEF SavedInv, Sound

LEMMA NameSlowModelSaved ==
  ASSUME SavedInv, NEW name, NameSlowModel(name), UNCHANGED conf
  PROVE  SavedInv'
<1>1. UNCHANGED <<menu, live, file, engine>>
  BY DEF NameSlowModel, settings
<1>2. PICK x : x = Job("SetSlowModel", ModelKey, name)
  OBVIOUS
<1>3. x.k # "SetOption"
  BY <1>2 DEF Job
<1>4. jobs' = jobs \o <<x>>
  BY <1>2, AppendOne DEF NameSlowModel, SavedInv, Sound
<1>5. ASequence(jobs') /\ (engine => Heard(conf, jobs', live))
  BY <1>3, <1>4, OneMore, HeardBesides DEF SavedInv, Sound
<1>6. QED
  BY <1>1, <1>5, SoundStays DEF SavedInv, Sound

LEMMA ReadSaved ==
  ASSUME SavedInv, ReadEvent, UNCHANGED conf
  PROVE  SavedInv'
<1>1. UNCHANGED <<live, file, jobs, engine>>
  BY DEF ReadEvent, ReadReady, ReadCaps, ReadModels, settings
<1>2. PickFits(menu)
  BY DEF SavedInv, Sound
<1>3. PickFits(menu')
  <2>1. CASE menu' = menu
    BY <1>2, <2>1
  <2>2. CASE menu.kind = "Settings" /\ \E its : menu' = [menu EXCEPT !.items = its]
    BY <1>2, <2>2, PlainMenusFit DEF PickFits, MenuFields
  <2>3. CASE ~menu.loaded /\ \E its : menu' = [menu EXCEPT !.loaded = TRUE, !.items = its]
    BY <1>2, <2>3, PlainMenusFit DEF PickFits, MenuFields
  <2>4. CASE ReadReady
    BY <2>1, <2>4 DEF ReadReady
  <2>5. CASE ReadCaps
    BY <2>1, <2>2, <2>5 DEF ReadCaps
  <2>6. CASE ReadModels
    BY <2>1, <2>3, <2>6 DEF ReadModels
  <2>7. QED
    BY <2>4, <2>5, <2>6 DEF ReadEvent
<1>4. QED
  BY <1>1, <1>3, SoundStays DEF SavedInv, Sound

LEMMA ServeSaved ==
  ASSUME SavedInv, engine, Worker!Serve, UNCHANGED sessionVars
  PROVE  SavedInv'
<1>1. UNCHANGED <<menu, live, file, engine>>
  BY DEF sessionVars
<1>2. \/ UNCHANGED <<jobs, conf>>
      \/ /\ jobs # <<>> /\ jobs' = Tail(jobs)
         /\ conf' = IF Head(jobs).k = "SetOption" THEN [conf EXCEPT ![Head(jobs).key] = Head(jobs).v]
                    ELSE conf
  BY DEF Worker!Serve, Worker!SetFastModel, Worker!SetSlowModel, Worker!SetOption, Worker!Rebind,
         Worker!ListModels, Worker!DrainEnds, Worker!Take
<1>3. ASequence(jobs') /\ Heard(conf', jobs', live)
  <2>1. ASequence(jobs) /\ Heard(conf, jobs, live)
    BY DEF SavedInv, Sound
  <2>2. CASE UNCHANGED <<jobs, conf>>
    BY <2>1, <2>2
  <2>3. CASE ~UNCHANGED <<jobs, conf>>
    <3>1. PICK c : c = IF Head(jobs).k = "SetOption" THEN [conf EXCEPT ![Head(jobs).key] = Head(jobs).v]
                       ELSE conf
      OBVIOUS
    <3>2. jobs # <<>> /\ jobs' = Tail(jobs) /\ conf' = c
      BY <1>2, <2>3, <3>1
    <3>3. ASequence(Tail(jobs)) /\ Heard(c, Tail(jobs), live)
      BY <2>1, <3>1, <3>2, HeardServed, ReadingLeavesASequence
    <3>4. QED
      BY <3>2, <3>3
  <2>4. QED
    BY <2>2, <2>3
<1>4. QED
  BY <1>1, <1>3 DEF SavedInv, Sound

LEMMA StepSaved ==
  ASSUME SavedInv, [Next]_vars
  PROVE  SavedInv'
<1>1. CASE UNCHANGED <<menu, live, file, jobs, engine, conf>>
  BY <1>1 DEF SavedInv, Sound
<1>2. CASE AtKeyboard /\ UNCHANGED workerVars
  <2>1. UNCHANGED conf
    BY <1>2 DEF workerVars
  <2>2. ASSUME NEW chunk \in Chunks, NEW readable, MenuKeys(chunk, readable) PROVE SavedInv'
    BY <2>1, <2>2, MenuKeysSaved
  <2>3. ASSUME NEW kind \in Kinds, OpenMenu(kind) PROVE SavedInv'
    BY <2>1, <2>3, OpenMenuSaved
  <2>4. ASSUME NEW name, NEW save, NameModel(name, save) PROVE SavedInv'
    BY <2>1, <2>4, NameModelSaved
  <2>5. ASSUME NEW name, NameSlowModel(name) PROVE SavedInv'
    BY <2>1, <2>5, NameSlowModelSaved
  <2>6. ASSUME NEW c, MemoryCommand(c) PROVE SavedInv'
    BY <1>1, <2>1, <2>6 DEF MemoryCommand
  <2>7. QED
    BY <1>2, <2>2, <2>3, <2>4, <2>5, <2>6 DEF AtKeyboard
<1>3. CASE FromEngine /\ UNCHANGED workerVars
  <2>1. UNCHANGED conf
    BY <1>3 DEF workerVars
  <2>2. CASE ReadEvent
    BY <2>1, <2>2, ReadSaved
  <2>3. CASE EngineLost
    BY <2>3, NoJobs DEF EngineLost, settings, SavedInv, Sound
  <2>4. ASSUME NEW a \in Answers, AnswerRewrites(a[1], a[2]) PROVE SavedInv'
    BY <1>1, <2>1, <2>4 DEF AnswerRewrites
  <2>5. QED
    BY <1>3, <2>2, <2>3, <2>4 DEF FromEngine
<1>4. CASE engine /\ Worker!Serve /\ UNCHANGED sessionVars
  BY <1>4, ServeSaved
<1>5. CASE Worker!ServerFlips /\ UNCHANGED sessionVars
  BY <1>1, <1>5 DEF Worker!ServerFlips, Worker!worker, sessionVars
<1>6. CASE UNCHANGED vars
  BY <1>1, <1>6 DEF vars, sessionVars, workerVars
<1>7. QED
  BY <1>2, <1>3, <1>4, <1>5, <1>6 DEF Next

\* Whenever the next start can read the file, what it reads is what this
\* session runs with, in every row: each way of applying one saves it as it is
\* applied, whatever chunk of keys asked for it and whatever answers and picks
\* came in between; and the rows saved while the file could not be read are
\* not lost with it (session.rs, the arms of the apply; config.rs, load).
THEOREM Persisted == Spec => []PersistsWhatItApplies
<1>1. SavedInv => PersistsWhatItApplies
  <2> SUFFICES ASSUME SavedInv, Readable, NEW k \in Keys
               PROVE  AtNextStart(k) = live[k]
    BY DEF PersistsWhatItApplies
  <2>1. ~Garbles(k, file[k])
    BY DEF Readable, Garbles
  <2>2. Starts(file, k) = live[k]
    BY <2>1 DEF SavedInv, Sound, Saved
  <2>3. QED
    BY <2>2 DEF Starts, AtNextStart
<1>2. QED
  BY <1>1, InitSaved, StepSaved, PTL DEF Spec

\* With its options drained the worker runs with what the rows show, or with
\* the auto that a row on auto says: the last word on its way about a row is
\* always the row's (engine.rs, Job::SetOption).
THEOREM WorkerHears == Spec => []WorkerHeardTheRow
<1>1. SavedInv => WorkerHeardTheRow
  <2> SUFFICES ASSUME SavedInv, engine, \A i \in DOMAIN jobs : jobs[i].k # "SetOption",
                      NEW k \in Told
               PROVE  conf[k] = live[k] \/ (live[k] = Absent /\ conf[k] = "auto")
    BY DEF WorkerHeardTheRow
  <2>1. WillHear(jobs, k, conf[k], live[k])
    BY DEF SavedInv, Sound, Heard
  <2>2. \A i \in DOMAIN jobs : ~SaysOption(jobs[i], k)
    BY DEF SaysOption
  <2>3. Agrees(conf[k], live[k])
    BY <2>1, <2>2 DEF WillHear, LastOption
  <2>4. QED
    BY <2>3 DEF Agrees
<1>2. QED
  BY <1>1, InitSaved, StepSaved, PTL DEF Spec

-----------------------------------------------------------------------------
(* Where a menu is.  It is a group of the settings tree, or the child of    *)
(* one, or stands at the prompt with neither; and what a group lists leads *)
(* only where that group leads.                                            *)

\* Groups are entered from the root, children are opened in a group.
RowFits(g, r) == IF r.t = "group" THEN g = Root ELSE g = Root => r.n \notin OpensMenu
Listed(g, its) == ASequence(its) /\ \A r \in ToSet(its) : RowFits(g, r)
Fitted(m) ==
  m.kind = "Settings" =>
    /\ m.loaded /\ m.cursor \in Nat /\ (m.typing => m.composeRow # "")
    /\ Listed(m.group, m.items)

\* A child is of the group it was opened in, and so is what it chooses for.
Rooted(m) ==
  /\ DOMAIN m = MenuFields /\ Fitted(m)
  /\ IF m.kind = "Settings" THEN m.parent = NoParent ELSE m.group = Root
  /\ m.kind = "ValuePick" => m.valueRow[1] = m.parent.group
  /\ m.kind = "Model" => m.parent.group # "slow lane"
  /\ m.kind = "SlowModel" => m.parent.group # "fast lane"

\* The same place in the tree.
Home(m, n) ==
  /\ DOMAIN n = MenuFields /\ Fitted(n)
  /\ n.kind = m.kind /\ n.parent = m.parent /\ n.group = m.group /\ n.valueRow = m.valueRow

\* What the keys may ask for: nothing closes a menu that has a way up, only the
\* root has groups to go into, and a note is for the browsers.
Heads(m, req) ==
  /\ DOMAIN req = RequestFields
  /\ req.close => ~HasWayUp(m)
  /\ req.into # Root => m.kind = "Settings" /\ m.group = Root
  /\ req.picked # NoRow => m.kind = "ValuePick"
  /\ m.kind = "Settings" => ~req.noted /\ req.committed.t # "group" /\ RowFits(m.group, req.committed)
Steered(m, s) == DOMAIN s = {"m", "req"} /\ Home(m, s.m) /\ Heads(m, s.req)

LEMMA CursorStaysHome ==
  ASSUME NEW m, NEW n, Home(m, n), NEW c, m.kind = "Settings" => c \in Nat
  PROVE  Home(m, [n EXCEPT !.cursor = c])
<1>1. PICK k : k = [n EXCEPT !.cursor = c]
  OBVIOUS
<1>2. /\ DOMAIN k = MenuFields /\ k.kind = n.kind /\ k.parent = n.parent /\ k.group = n.group
      /\ k.valueRow = n.valueRow /\ k.loaded = n.loaded /\ k.cursor = c /\ k.typing = n.typing
      /\ k.composeRow = n.composeRow /\ k.items = n.items
  BY <1>1 DEF Home, MenuFields
<1>3. Home(m, k)
  BY <1>2 DEF Home, Fitted
<1>4. QED
  BY <1>1, <1>3

LEMMA ClampStaysHome ==
  ASSUME NEW m, NEW n, Home(m, n)
  PROVE  Home(m, Clamp(n))
<1>1. PICK c : c = IF n.cursor < Len(Filtered(n)) THEN n.cursor
                   ELSE IF Len(Filtered(n)) = 0 THEN 0 ELSE Len(Filtered(n)) - 1
  OBVIOUS
<1>2. m.kind = "Settings" => c \in Nat
  <2>1. m.kind = "Settings" => ASequence(n.items) /\ n.cursor \in Nat
    BY DEF Home, Fitted, Listed
  <2>2. m.kind = "Settings" => Len(Filtered(n)) \in Nat
    BY <2>1, FilteredOfItems
  <2>3. QED
    BY <1>1, <2>1, <2>2
<1>3. Clamp(n) = [n EXCEPT !.cursor = c]
  BY <1>1 DEF Clamp, Home, MenuFields
<1>4. QED
  BY <1>2, <1>3, CursorStaysHome

LEMMA Redrawn ==
  ASSUME NEW m, NEW n, Home(m, n), NEW f \in {"filter", "armed", "text", "viewing"}, NEW x
  PROVE  Home(m, [n EXCEPT ![f] = x])
<1>1. PICK k : k = [n EXCEPT ![f] = x]
  OBVIOUS
<1>2. /\ DOMAIN k = MenuFields /\ k.kind = n.kind /\ k.parent = n.parent /\ k.group = n.group
      /\ k.valueRow = n.valueRow /\ k.loaded = n.loaded /\ k.cursor = n.cursor /\ k.typing = n.typing
      /\ k.composeRow = n.composeRow /\ k.items = n.items
  BY <1>1 DEF Home, MenuFields
<1>3. Home(m, k)
  BY <1>2 DEF Home, Fitted
<1>4. QED
  BY <1>1, <1>3

\* The field: opened for a row, or closed.
LEMMA FieldStaysHome ==
  ASSUME NEW m, NEW n, Home(m, n), NEW b, NEW name, (m.kind = "Settings" /\ b) => name # ""
  PROVE  Home(m, [n EXCEPT !.typing = b, !.text = <<>>, !.composeRow = name])
<1>1. PICK k : k = [n EXCEPT !.typing = b, !.text = <<>>, !.composeRow = name]
  OBVIOUS
<1>2. /\ DOMAIN k = MenuFields /\ k.kind = n.kind /\ k.parent = n.parent /\ k.group = n.group
      /\ k.valueRow = n.valueRow /\ k.loaded = n.loaded /\ k.cursor = n.cursor /\ k.typing = b
      /\ k.composeRow = name /\ k.items = n.items
  BY <1>1 DEF Home, MenuFields
<1>3. Home(m, k)
  BY <1>2 DEF Home, Fitted
<1>4. QED
  BY <1>1, <1>3

\* The row under the cursor is one of the list's.
LEMMA SelectedFits ==
  ASSUME NEW m, NEW n, Home(m, n), m.kind = "Settings"
  PROVE  RowFits(m.group, Selected(n))
<1>1. n.cursor \in Nat /\ Listed(m.group, n.items)
  BY DEF Home, Fitted
<1>2. Selected(n) \in ToSet(n.items) \cup {NoRow}
  BY <1>1, SelectedIsAnItem DEF Listed
<1>3. RowFits(m.group, NoRow)
  BY DEF RowFits, NoRow, Row, OpensMenu
<1>4. QED
  BY <1>1, <1>2, <1>3 DEF Listed

LEMMA SteeredMenu ==
  ASSUME NEW m, NEW s, Steered(m, s), NEW n, Home(m, n)
  PROVE  Steered(m, [s EXCEPT !.m = n])
  BY DEF Steered

LEMMA SteeredRequest ==
  ASSUME NEW m, NEW s, Steered(m, s), NEW r, Heads(m, r)
  PROVE  Steered(m, [s EXCEPT !.req = r])
  BY DEF Steered

LEMMA HeadsOn ==
  ASSUME NEW m, NEW r, Heads(m, r), NEW f \in {"up", "typedRow", "typed", "note", "view"}, NEW x
  PROVE  Heads(m, [r EXCEPT ![f] = x])
  BY DEF Heads, RequestFields

LEMMA ComposeKeySteers ==
  ASSUME NEW m, NEW s, NEW key, Steered(m, s), s.m.typing
  PROVE  Steered(m, ComposeKey(s, key))
<1> DEFINE n    == s.m
           done == [n EXCEPT !.typing = FALSE, !.text = <<>>, !.composeRow = ""]
<1>1. Home(m, n) /\ DOMAIN s = {"m", "req"} /\ Heads(m, s.req) /\ "text" \in DOMAIN n
  BY DEF Steered, Home, MenuFields
<1>2. Home(m, done)
  BY <1>1, FieldStaysHome
<1>3. ASSUME NEW x PROVE Steered(m, [s EXCEPT !.m.text = x])
  <2>1. Home(m, [n EXCEPT !.text = x])
    BY <1>1, Redrawn
  <2>2. QED
    BY <2>1, SteeredMenu
<1>4. ASSUME NEW r, Heads(m, r) PROVE Steered(m, [m |-> done, req |-> r])
  BY <1>2, <1>4 DEF Steered
<1>5. /\ Heads(m, [s.req EXCEPT !.typedRow = n.composeRow, !.typed = n.text])
      /\ n.composeRow = "" => Heads(m, [s.req EXCEPT !.noted = TRUE, !.note = n.text])
  BY <1>1 DEF Heads, RequestFields, Home, Fitted
<1>6. Steered(m, [s EXCEPT !.m = done])
  BY <1>2, SteeredMenu
<1> HIDE DEF done
<1>7. /\ Steered(m, [s EXCEPT !.m.text = Append(s.m.text, key.c)])
      /\ Steered(m, [s EXCEPT !.m.text = Front(s.m.text)])
      /\ Steered(m, [s EXCEPT !.m.text = <<>>])
  BY <1>3
<1>8. /\ Steered(m, [m |-> done, req |-> [s.req EXCEPT !.typedRow = n.composeRow, !.typed = n.text]])
      /\ n.composeRow = "" =>
           Steered(m, [m |-> done, req |-> [s.req EXCEPT !.noted = TRUE, !.note = n.text]])
  BY <1>4, <1>5
<1>9. CASE key.k = "Char"
  <2>1. ComposeKey(s, key) \in {[s EXCEPT !.m.text = Append(s.m.text, key.c)], s}
    BY <1>1, <1>9 DEF ComposeKey
  <2>2. QED
    BY <1>7, <2>1
<1>10. CASE key.k = "Backspace"
  <2>1. ComposeKey(s, key) \in {[s EXCEPT !.m.text = Front(s.m.text)], s}
    BY <1>1, <1>10 DEF ComposeKey
  <2>2. QED
    BY <1>7, <2>1
<1>11. CASE key.k = "KillLine"
  BY <1>7, <1>11 DEF ComposeKey
<1>12. CASE key.k = "Esc"
  BY <1>6, <1>12 DEF ComposeKey, done
<1>13. CASE key.k = "Enter" /\ s.m.composeRow # ""
  BY <1>8, <1>13 DEF ComposeKey, done
<1>14. CASE key.k = "Enter" /\ s.m.composeRow = ""
  BY <1>8, <1>14 DEF ComposeKey, done
<1>15. CASE key.k \notin {"Char", "Backspace", "KillLine", "Esc", "Enter"}
  BY <1>15 DEF ComposeKey
<1>16. QED
  BY <1>9, <1>10, <1>11, <1>12, <1>13, <1>14, <1>15

LEMMA PaneKeySteers ==
  ASSUME NEW m, NEW s, NEW key, Steered(m, s)
  PROVE  Steered(m, PaneKey(s, key))
<1>1. Home(m, [s.m EXCEPT !.viewing = NoRow])
  BY Redrawn DEF Steered
<1>2. Steered(m, [s EXCEPT !.m.viewing = NoRow])
  BY <1>1, SteeredMenu
<1>3. QED
  BY <1>2 DEF PaneKey

\* A menu in the same place has a way up or has not.
LEMMA SameWayUp ==
  ASSUME NEW m, NEW n, Home(m, n)
  PROVE  HasWayUp(n) = HasWayUp(m)
  BY DEF Home, HasWayUp

LEMMA GoingUp ==
  ASSUME NEW m, NEW s, Steered(m, s)
  PROVE  Steered(m, [s EXCEPT !.req.up = TRUE])
<1>1. Heads(m, [s.req EXCEPT !.up = TRUE])
  BY HeadsOn DEF Steered
<1>2. QED
  BY <1>1, SteeredRequest

LEMMA SteeredDisarmed ==
  ASSUME NEW m, NEW s, Steered(m, s), NEW x
  PROVE  Home(m, [s.m EXCEPT !.armed = x]) /\ Steered(m, [s EXCEPT !.m.armed = x])
<1>1. Home(m, [s.m EXCEPT !.armed = x])
  BY Redrawn DEF Steered
<1>2. QED
  BY <1>1, SteeredMenu

LEMMA EscKeySteers ==
  ASSUME NEW m, NEW s, Steered(m, s)
  PROVE  Steered(m, EscKey(s))
<1>1. Steered(m, [s EXCEPT !.m.armed = NoRow]) /\ Steered(m, [s EXCEPT !.req.up = TRUE])
  BY SteeredDisarmed, GoingUp
<1>2. ~HasWayUp(s.m) => Steered(m, [s EXCEPT !.req.close = TRUE])
  <2> SUFFICES ASSUME ~HasWayUp(s.m) PROVE Steered(m, [s EXCEPT !.req.close = TRUE])
    OBVIOUS
  <2>1. ~HasWayUp(m)
    BY SameWayUp DEF Steered
  <2>2. Heads(m, [s.req EXCEPT !.close = TRUE])
    BY <2>1 DEF Steered, Heads, RequestFields
  <2>3. QED
    BY <2>2, SteeredRequest
<1>3. QED
  BY <1>1, <1>2 DEF EscKey

\* Right, and Enter, on a group go into it.
LEMMA GoingIn ==
  ASSUME NEW m, NEW s, Steered(m, s), m.kind = "Settings" /\ m.group = Root, NEW x
  PROVE  Steered(m, [s EXCEPT !.req.into = x])
<1>1. Heads(m, [s.req EXCEPT !.into = x])
  BY DEF Steered, Heads, RequestFields
<1>2. QED
  BY <1>1, SteeredRequest

LEMMA SideKeySteers ==
  ASSUME NEW m, NEW s, NEW key, Steered(m, s)
  PROVE  Steered(m, SideKey(s, key))
<1>1. (s.m.kind = "Settings" /\ Selected(s.m).t = "group") =>
        Steered(m, [s EXCEPT !.req.into = Selected(s.m).n])
  <2>1. PICK n : n = s.m /\ Home(m, n)
    BY DEF Steered
  <2>2. m.kind = "Settings" => RowFits(m.group, Selected(n))
    BY <2>1, SelectedFits
  <2>3. n.kind = m.kind
    BY <2>1 DEF Home
  <2>4. QED
    BY <2>1, <2>2, <2>3, GoingIn DEF RowFits
<1>2. Steered(m, [s EXCEPT !.req.up = TRUE])
  BY GoingUp
<1>3. QED
  BY <1>1, <1>2 DEF SideKey

LEMMA EnterKeySteers ==
  ASSUME NEW m, NEW s, Rooted(m), Steered(m, s), ~s.m.typing
  PROVE  Steered(m, EnterKey(s))
<1> DEFINE n   == s.m
           sel == Selected(n)
<1>1. Home(m, n) /\ Heads(m, s.req) /\ DOMAIN s = {"m", "req"} /\ n.kind = m.kind /\ n.parent = m.parent
  BY DEF Steered, Home
<1>2. m.kind = "Settings" => RowFits(m.group, sel)
  BY <1>1, SelectedFits
<1>3. Steered(m, [s EXCEPT !.req.up = TRUE])
  BY GoingUp
<1>4. n.kind \in {"Model", "SlowModel"} =>
        Steered(m, [s EXCEPT !.req.committed = sel, !.req.up = @ \/ n.parent # NoParent,
                             !.req.close = @ \/ n.parent = NoParent])
  <2> SUFFICES ASSUME n.kind \in {"Model", "SlowModel"}
               PROVE  Steered(m, [s EXCEPT !.req.committed = sel, !.req.up = @ \/ n.parent # NoParent,
                                           !.req.close = @ \/ n.parent = NoParent])
    OBVIOUS
  <2> DEFINE r == [s.req EXCEPT !.committed = sel, !.up = @ \/ n.parent # NoParent,
                                !.close = @ \/ n.parent = NoParent]
  <2>1. (n.parent = NoParent => ~HasWayUp(m)) /\ m.kind # "Settings"
    BY <1>1 DEF HasWayUp, Rooted
  <2>2. /\ DOMAIN r = RequestFields /\ r.into = s.req.into /\ r.picked = s.req.picked
        /\ r.close => s.req.close \/ n.parent = NoParent
    BY <1>1 DEF Heads, RequestFields
  <2> HIDE DEF r
  <2>3. Heads(m, r)
    BY <1>1, <2>1, <2>2 DEF Heads
  <2>4. Steered(m, [s EXCEPT !.req = r])
    BY <2>3, SteeredRequest
  <2>5. QED
    BY <2>4 DEF r
<1>5. n.kind = "ValuePick" => Steered(m, [s EXCEPT !.req.picked = sel, !.req.up = TRUE])
  <2> SUFFICES ASSUME n.kind = "ValuePick" PROVE Steered(m, [s EXCEPT !.req.picked = sel, !.req.up = TRUE])
    OBVIOUS
  <2>1. PICK r : r = [s.req EXCEPT !.picked = sel]
    OBVIOUS
  <2>2. Heads(m, r)
    BY <1>1, <2>1 DEF Heads, RequestFields
  <2>3. Heads(m, [r EXCEPT !.up = TRUE])
    BY <2>2, HeadsOn
  <2>4. Steered(m, [s EXCEPT !.req = [r EXCEPT !.up = TRUE]])
    BY <2>3, SteeredRequest
  <2>5. QED
    BY <2>1, <2>4
<1>6. (n.kind = "Settings" /\ sel.t = "group") => Steered(m, [s EXCEPT !.req.into = sel.n])
  BY <1>1, <1>2, GoingIn DEF RowFits
<1>7. (n.kind = "Settings" /\ sel.t # "group") => Steered(m, [s EXCEPT !.req.committed = sel])
  <2> SUFFICES ASSUME n.kind = "Settings", sel.t # "group" PROVE Steered(m, [s EXCEPT !.req.committed = sel])
    OBVIOUS
  <2> HIDE DEF sel
  <2>1. Heads(m, [s.req EXCEPT !.committed = sel])
    BY <1>1, <1>2 DEF Heads, RequestFields
  <2>2. QED
    BY <2>1, SteeredRequest
<1>8. Browser(n) => Steered(m, [s EXCEPT !.m.typing = TRUE, !.m.text = <<>>, !.m.armed = NoRow])
  <2> SUFFICES ASSUME Browser(n)
               PROVE  Steered(m, [s EXCEPT !.m.typing = TRUE, !.m.text = <<>>, !.m.armed = NoRow])
    OBVIOUS
  <2> DEFINE t == [n EXCEPT !.typing = TRUE, !.text = <<>>, !.armed = NoRow]
  <2>1. m.kind # "Settings"
    BY <1>1 DEF Browser
  <2>2. Home(m, t)
    BY <1>1, <2>1 DEF Home, MenuFields, Fitted
  <2>3. Steered(m, [s EXCEPT !.m = t])
    BY <2>2, SteeredMenu
  <2>4. QED
    BY <2>3
<1>9. Steered(m, [s EXCEPT !.m.armed = NoRow, !.req.view = sel])
  <2>1. PICK u : u = [s EXCEPT !.m.armed = NoRow]
    OBVIOUS
  <2>2. Steered(m, u)
    BY <2>1, SteeredDisarmed
  <2>3. Heads(m, [u.req EXCEPT !.view = sel])
    BY <2>2, HeadsOn DEF Steered
  <2>4. Steered(m, [u EXCEPT !.req = [u.req EXCEPT !.view = sel]])
    BY <2>2, <2>3, SteeredRequest
  <2>5. QED
    BY <2>1, <2>4
<1> HIDE DEF n, sel
<1>10. QED
  BY <1>3, <1>4, <1>5, <1>6, <1>7, <1>8, <1>9 DEF EnterKey, n, sel

LEMMA DestroyKeySteers ==
  ASSUME NEW m, NEW s, Steered(m, s), Browser(s.m)
  PROVE  Steered(m, DestroyKey(s))
<1> DEFINE sel == Selected(s.m)
<1>1. Steered(m, [s EXCEPT !.m.armed = NoRow]) /\ Steered(m, [s EXCEPT !.m.armed = sel])
  BY SteeredDisarmed
<1>2. Steered(m, [s EXCEPT !.m.armed = NoRow, !.req.committed = sel])
  <2>1. PICK u : u = [s EXCEPT !.m.armed = NoRow]
    OBVIOUS
  <2>2. Steered(m, u) /\ m.kind # "Settings"
    BY <1>1, <2>1 DEF Browser, Steered, Home
  <2>3. Heads(m, [u.req EXCEPT !.committed = sel])
    BY <2>2 DEF Steered, Heads, RequestFields
  <2>4. Steered(m, [u EXCEPT !.req = [u.req EXCEPT !.committed = sel]])
    BY <2>2, <2>3, SteeredRequest
  <2>5. QED
    BY <2>1, <2>4
<1> HIDE DEF sel
<1>3. QED
  BY <1>1, <1>2 DEF DestroyKey, sel

LEMMA MoveKeySteers ==
  ASSUME NEW m, NEW s, NEW key, Steered(m, s)
  PROVE  Steered(m, MoveKey(s, key))
<1> DEFINE n    == [s.m EXCEPT !.armed = NoRow]
           down == [n EXCEPT !.cursor = n.cursor + 1]
           up   == [n EXCEPT !.cursor = IF n.cursor = 0 THEN 0 ELSE n.cursor - 1]
<1>1. Home(m, n) /\ DOMAIN s = {"m", "req"}
  BY SteeredDisarmed DEF Steered
<1> HIDE DEF n
<1>2. m.kind = "Settings" => n.cursor \in Nat
  BY <1>1 DEF Home, Fitted
<1>3. Home(m, up) /\ Home(m, down)
  <2>1. PICK c : c = n.cursor + 1
    OBVIOUS
  <2>2. PICK d : d = IF n.cursor = 0 THEN 0 ELSE n.cursor - 1
    OBVIOUS
  <2>3. m.kind = "Settings" => c \in Nat /\ d \in Nat
    BY <1>2, <2>1, <2>2
  <2>4. Home(m, [n EXCEPT !.cursor = c]) /\ Home(m, [n EXCEPT !.cursor = d])
    BY <1>1, <2>3, CursorStaysHome
  <2>5. QED
    BY <2>1, <2>2, <2>4
<1>4. "cursor" \in DOMAIN n
  BY <1>1 DEF Home, MenuFields
<1> HIDE DEF up, down
<1>5. Home(m, Clamp(down))
  BY <1>3, ClampStaysHome
<1>6. Steered(m, [s EXCEPT !.m = Clamp(down)]) /\ Steered(m, [s EXCEPT !.m = up])
  BY <1>3, <1>5, SteeredMenu
<1>7. MoveKey(s, key) = [s EXCEPT !.m = IF key.k = "Down" THEN Clamp(down) ELSE up]
  BY <1>1, <1>4 DEF MoveKey, down, up, n
<1>8. QED
  BY <1>6, <1>7

LEMMA FilterKeySteers ==
  ASSUME NEW m, NEW s, NEW key, Steered(m, s)
  PROVE  Steered(m, FilterKey(s, key))
<1> DEFINE n == [s.m EXCEPT !.armed = NoRow]
           f == [n EXCEPT !.filter = Shorter(@)]
           e == [n EXCEPT !.filter = Longer(@)]
           o == [n EXCEPT !.filter = 0]
<1>1. Home(m, n) /\ DOMAIN s = {"m", "req"}
  BY SteeredDisarmed DEF Steered
<1> HIDE DEF n
<1>2. Home(m, f) /\ Home(m, e) /\ Home(m, o)
  BY <1>1, Redrawn
<1>3. Home(m, [e EXCEPT !.cursor = 0]) /\ Home(m, [o EXCEPT !.cursor = 0]) /\ Home(m, n)
  BY <1>1, <1>2, CursorStaysHome
<1>4. /\ Home(m, [n EXCEPT !.filter = Longer(@), !.cursor = 0])
      /\ Home(m, [n EXCEPT !.filter = 0, !.cursor = 0])
  BY <1>3
<1> HIDE DEF f, e, o
<1>5. Home(m, Clamp(f))
  BY <1>2, ClampStaysHome
<1>6. \E x : Home(m, x) /\ FilterKey(s, key) = [s EXCEPT !.m = x]
  <2>1. CASE key.k = "Char"
    BY <1>1, <1>4, <2>1 DEF FilterKey, n
  <2>2. CASE key.k = "KillLine"
    BY <1>1, <1>4, <2>2 DEF FilterKey, n
  <2>3. CASE key.k = "Backspace"
    BY <1>1, <1>5, <2>3 DEF FilterKey, n, f
  <2>4. CASE key.k \notin {"Char", "KillLine", "Backspace"}
    BY <1>1, <2>4 DEF FilterKey, n
  <2>5. QED
    BY <2>1, <2>2, <2>3, <2>4
<1>7. QED
  BY <1>6, SteeredMenu

LEMMA AfterKeySteers ==
  ASSUME NEW m, NEW s, NEW key, Rooted(m), Steered(m, s)
  PROVE  Steered(m, AfterKey(s, key))
<1>1. CASE s.m.typing
  BY <1>1, ComposeKeySteers DEF AfterKey
<1>2. CASE ~s.m.typing
  <2>1. Destroys(s.m, key) => Steered(m, DestroyKey(s))
    BY DestroyKeySteers DEF Destroys
  <2>2. Steered(m, ListKey(s, key))
    BY <1>2, <2>1, EscKeySteers, SideKeySteers, EnterKeySteers, MoveKeySteers, FilterKeySteers
       DEF ListKey
  <2>3. QED
    BY <1>2, <2>2, PaneKeySteers DEF AfterKey
<1>3. QED
  BY <1>1, <1>2

LEMMA AfterKeysSteer ==
  ASSUME NEW m, Rooted(m), NEW chunk \in Chunks
  PROVE  Steered(m, AfterKeys(m, chunk))
<1> DEFINE N == Len(chunk)
           g == CHOOSE f : Pressing(m, chunk, N, f)
           B == {n \in 0 .. N : ~Steered(m, g[n])}
<1>0. N \in Nat
  BY ChunksAssumption
<1>1. Pressing(m, chunk, N, g)
  BY <1>0, PressingDefined
<1>2. AfterKeys(m, chunk) = g[N]
  BY DEF AfterKeys, Pressing
<1> HIDE DEF g
<1>3. \A i \in 0 .. N : g[i] = IF i = 0 THEN [m |-> m, req |-> Quiet] ELSE AfterKey(g[i - 1], chunk[i])
  BY <1>1 DEF Pressing
<1>4. 0 \notin B
  <2>1. g[0] = [m |-> m, req |-> Quiet]
    BY <1>0, <1>3
  <2>2. Home(m, m)
    BY DEF Rooted, Home
  <2>3. Heads(m, Quiet)
    BY DEF Heads, Quiet, RequestFields, RowFits, NoRow, Row, OpensMenu
  <2>4. Steered(m, [m |-> m, req |-> Quiet])
    BY <2>2, <2>3 DEF Steered
  <2>5. QED
    BY <2>1, <2>4
<1>5. ASSUME NEW n \in 0 .. N - 1, n \notin B
      PROVE  n + 1 \notin B
  <2>1. n \in 0 .. N /\ n + 1 \in 0 .. N /\ n + 1 # 0 /\ (n + 1) - 1 = n
    BY <1>0
  <2>2. Steered(m, g[n]) /\ g[n + 1] = AfterKey(g[n], chunk[n + 1])
    BY <1>3, <1>5, <2>1
  <2>3. QED
    BY <2>2, AfterKeySteers
<1>6. B = {}
  BY <1>0, <1>4, <1>5, Induct
<1>7. N \in 0 .. N
  BY <1>0
<1>8. QED
  BY <1>2, <1>6, <1>7

-----------------------------------------------------------------------------
(* ... and what they ask for keeps the menu where it is, until the last of  *)
(* it leads up, in or away.                                                *)

Stays(m, w) == DOMAIN w = SessionFields /\ Home(m, w.menu)

\* What leaves the menu alone.
Beside(w, u) == DOMAIN u = DOMAIN w /\ u.menu = w.menu

LEMMA StaysBeside ==
  ASSUME NEW m, NEW w, Stays(m, w), NEW u, Beside(w, u)
  PROVE  Stays(m, u)
  BY DEF Stays, Beside

LEMMA StaysMenu ==
  ASSUME NEW m, NEW w, Stays(m, w), NEW n, Home(m, n)
  PROVE  Stays(m, [w EXCEPT !.menu = n])
  BY DEF Stays, SessionFields

LEMMA ItemsStayHome ==
  ASSUME NEW m, NEW n, Home(m, n), NEW its, m.kind = "Settings" => Listed(m.group, its)
  PROVE  Home(m, [n EXCEPT !.items = its])
<1>1. PICK k : k = [n EXCEPT !.items = its]
  OBVIOUS
<1>2. /\ DOMAIN k = MenuFields /\ k.kind = n.kind /\ k.parent = n.parent /\ k.group = n.group
      /\ k.valueRow = n.valueRow /\ k.loaded = n.loaded /\ k.cursor = n.cursor /\ k.typing = n.typing
      /\ k.composeRow = n.composeRow /\ k.items = its
  BY <1>1 DEF Home, MenuFields
<1>3. Home(m, k)
  BY <1>2 DEF Home, Fitted
<1>4. QED
  BY <1>1, <1>3

LEMMA StaysItems ==
  ASSUME NEW m, NEW w, Stays(m, w), NEW its, m.kind = "Settings" => Listed(m.group, its)
  PROVE  /\ Stays(m, [w EXCEPT !.menu = [w.menu EXCEPT !.items = its]])
         /\ Stays(m, [w EXCEPT !.menu = Clamp([w.menu EXCEPT !.items = its])])
<1>1. Home(m, [w.menu EXCEPT !.items = its])
  BY ItemsStayHome DEF Stays
<1>2. Home(m, Clamp([w.menu EXCEPT !.items = its]))
  BY <1>1, ClampStaysHome
<1>3. QED
  BY <1>1, <1>2, StaysMenu

\* What the code lists of a group leads only where it may.
LEMMA ListsBoth ==
  ASSUME NEW g, NEW s, NEW t, Listed(g, s), Listed(g, t)
  PROVE  Listed(g, s \o t)
<1>1. PICK S : s \in Seq(S)
  BY DEF Listed, ASequence
<1>2. PICK T : t \in Seq(T)
  BY DEF Listed, ASequence
<1> DEFINE U == S \cup T
<1>3. s \in Seq(U) /\ t \in Seq(U)
  BY <1>1, <1>2, Wider
<1> HIDE DEF U
<1>4. s \o t \in Seq(U) /\ ToSet(s \o t) = ToSet(s) \cup ToSet(t)
  BY <1>3, ElementsOfBoth
<1>5. QED
  BY <1>4 DEF Listed, ASequence

LEMMA ListsOne ==
  ASSUME NEW g, NEW r, RowFits(g, r)
  PROVE  Listed(g, <<r>>)
<1>1. ToSet(<<r>>) = {r} /\ ASequence(<<r>>)
  BY One DEF ASequence
<1>2. QED
  BY <1>1 DEF Listed

LEMMA ListsEach ==
  ASSUME NEW g, NEW s, ASequence(s), NEW f, f = [i \in DOMAIN s |-> f[i]],
         \A i \in DOMAIN s : RowFits(g, f[i])
  PROVE  Listed(g, f)
<1> DEFINE T == {f[i] : i \in DOMAIN s}
<1>1. PICK S : s \in Seq(S)
  BY DEF ASequence
<1>2. DOMAIN s = 1 .. Len(s) /\ Len(s) \in Nat
  BY <1>1
<1>3. DOMAIN f = DOMAIN s /\ \A i \in DOMAIN s : f[i] \in T
  OBVIOUS
<1> HIDE DEF T
<1>4. f \in Seq(T)
  BY <1>2, <1>3
<1>5. \A r \in ToSet(f) : RowFits(g, r)
  BY <1>3 DEF ToSet
<1>6. QED
  BY <1>4, <1>5 DEF Listed, ASequence

LEMMA SettingsFit ==
  ASSUME NEW w, NEW g
  PROVE  Listed(g, SettingsItems(w, g))
<1> DEFINE expert    == w.live[<<Root, "expert">>] = "on"
           set(h, r) == Row("set", r, Shows(w, h, r))
           rows      == Only(RowsOf(g), {e \in ToSet(Table) : expert \/ e.row \notin Advanced})
           groups    == [i \in DOMAIN PlainGroups |-> GroupRow(PlainGroups[i])]
           debugs    == [i \in DOMAIN DebugGroups |-> GroupRow(DebugGroups[i])]
           its       == [i \in DOMAIN rows |-> set(g, rows[i].row)]
<1>1. ASequence(rows)
  BY TableOfRows, Selection DEF ASequence
<1> HIDE DEF rows
<1>2. g # Root => Listed(g, <<Up>> \o its)
  <2> SUFFICES ASSUME g # Root PROVE Listed(g, <<Up>> \o its)
    OBVIOUS
  <2>1. RowFits(g, Up) /\ \A h, r : RowFits(g, set(h, r))
    BY DEF RowFits, Up, Row
  <2>2. its = [i \in DOMAIN rows |-> its[i]] /\ \A i \in DOMAIN rows : its[i] = set(g, rows[i].row)
    OBVIOUS
  <2> HIDE DEF its, set
  <2>3. Listed(g, its)
    BY <1>1, <2>1, <2>2, ListsEach
  <2>4. QED
    BY <2>1, <2>3, ListsOne, ListsBoth
<1>3. g = Root => Listed(g, <<set(Root, "commentary")>> \o groups \o <<set(Root, "expert")>>
                              \o (IF expert THEN debugs ELSE <<>>))
  <2> SUFFICES ASSUME g = Root
               PROVE  Listed(g, <<set(Root, "commentary")>> \o groups \o <<set(Root, "expert")>>
                                  \o (IF expert THEN debugs ELSE <<>>))
    OBVIOUS
  <2>1. /\ RowFits(g, set(Root, "commentary")) /\ RowFits(g, set(Root, "expert"))
        /\ \A h : RowFits(g, GroupRow(h))
    BY DEF RowFits, GroupRow, Row, OpensMenu
  <2>2. /\ groups = [i \in DOMAIN PlainGroups |-> groups[i]]
        /\ \A i \in DOMAIN PlainGroups : groups[i] = GroupRow(PlainGroups[i])
        /\ debugs = [i \in DOMAIN DebugGroups |-> debugs[i]]
        /\ \A i \in DOMAIN DebugGroups : debugs[i] = GroupRow(DebugGroups[i])
    OBVIOUS
  <2> HIDE DEF groups, debugs, set, expert
  <2>3. Listed(g, groups) /\ Listed(g, debugs)
    BY <2>1, <2>2, GroupsAreNamed, ListsEach
  <2>4. Listed(g, <<>>)
    BY NoWords DEF Listed
  <2>5. QED
    BY <2>1, <2>3, <2>4, ListsOne, ListsBoth
<1>4. QED
  BY <1>2, <1>3 DEF SettingsItems, MapRows, set, groups, debugs, its, expert, rows

LEMMA BesideField ==
  ASSUME NEW w, NEW f, f # "menu", NEW x
  PROVE  Beside(w, [w EXCEPT ![f] = x])
  BY DEF Beside

LEMMA BesideTwice ==
  ASSUME NEW w, NEW u, Beside(w, u), NEW x, Beside(u, x)
  PROVE  Beside(w, x)
  BY DEF Beside

LEMMA SendBeside ==
  ASSUME NEW w, NEW js
  PROVE  Beside(w, Send(w, js))
  BY DEF Beside, Send

LEMMA KeepBeside ==
  ASSUME NEW w, NEW key, NEW v
  PROVE  Beside(w, Keep(w, key, v))
  BY DEF Beside, Keep

LEMMA PinFromFieldStays ==
  ASSUME NEW m, NEW w, Stays(m, w), NEW kind, kind = m.kind, NEW req, NEW readable
  PROVE  Stays(m, PinFromField(w, kind, req, readable))
<1>1. CASE kind # "Pins" \/ ~req.noted \/ req.note = <<>>
  BY <1>1 DEF PinFromField
<1>2. CASE ~(kind # "Pins" \/ ~req.noted \/ req.note = <<>>)
  <2>1. PICK kept : PinFromField(w, kind, req, readable) =
                      [w EXCEPT !.pins = kept, !.menu = Clamp([w.menu EXCEPT !.items = PinItems(kept.ids)])]
    BY <1>2 DEF PinFromField, Stays, SessionFields
  <2>2. PICK u : u = [w EXCEPT !.pins = kept]
    OBVIOUS
  <2>3. Beside(w, u)
    BY <2>2, BesideField
  <2>4. Stays(m, u) /\ u.menu = w.menu
    BY <2>3, StaysBeside DEF Beside
  <2>5. PinFromField(w, kind, req, readable) =
          [u EXCEPT !.menu = Clamp([u.menu EXCEPT !.items = PinItems(kept.ids)])]
    BY <2>1, <2>2, <2>4
  <2>6. Stays(m, [u EXCEPT !.menu = Clamp([u.menu EXCEPT !.items = PinItems(kept.ids)])])
    BY <1>2, <2>4, StaysItems
  <2>7. QED
    BY <2>5, <2>6, Zenon
<1>3. QED
  BY <1>1, <1>2

LEMMA OpenPaneStays ==
  ASSUME NEW m, NEW w, Stays(m, w), NEW kind, NEW req
  PROVE  Stays(m, OpenPane(w, kind, req))
<1> DEFINE n == [w.menu EXCEPT !.viewing = req.view]
<1>1. Home(m, n)
  BY Redrawn DEF Stays
<1>2. OpenPane(w, kind, req) \in {w, [w EXCEPT !.menu = n]}
  BY DEF OpenPane, Stays, SessionFields
<1> HIDE DEF n
<1>3. QED
  BY <1>1, <1>2, StaysMenu

LEMMA DropPinStays ==
  ASSUME NEW m, NEW w, Stays(m, w), NEW kind, kind = m.kind, NEW req
  PROVE  Stays(m, DropPin(w, kind, req))
<1>1. CASE kind # "Pins" \/ req.committed = NoRow
  BY <1>1 DEF DropPin
<1>2. CASE ~(kind # "Pins" \/ req.committed = NoRow)
  <2> DEFINE ids  == Only(w.pins.ids, ToSet(w.pins.ids) \ {req.committed.id})
             pinz == [w.pins EXCEPT !.ids = ids]
             its  == PinItems(ids)
  <2>1. DropPin(w, kind, req) = [w EXCEPT !.pins = pinz, !.menu = Clamp([w.menu EXCEPT !.items = its])]
    BY <1>2 DEF DropPin, Stays, SessionFields
  <2> HIDE DEF pinz, its
  <2>2. PICK u : u = [w EXCEPT !.pins = pinz]
    OBVIOUS
  <2>3. Beside(w, u)
    BY <2>2, BesideField
  <2>4. Stays(m, u) /\ u.menu = w.menu
    BY <2>3, StaysBeside DEF Beside
  <2>5. DropPin(w, kind, req) = [u EXCEPT !.menu = Clamp([u.menu EXCEPT !.items = its])]
    BY <2>1, <2>2, <2>4
  <2>6. Stays(m, [u EXCEPT !.menu = Clamp([u.menu EXCEPT !.items = its])])
    BY <1>2, <2>4, StaysItems
  <2>7. QED
    BY <2>5, <2>6, Zenon
<1>3. QED
  BY <1>1, <1>2

\* The store is rewritten and its list made again.
LEMMA ListedAgain ==
  ASSUME NEW m, NEW w, Stays(m, w), m.kind # "Settings", NEW kept, NEW its
  PROVE  Stays(m, [w EXCEPT !.store = kept, !.menu = Clamp([w.menu EXCEPT !.items = its])])
<1>1. PICK u : u = [w EXCEPT !.store = kept]
  OBVIOUS
<1>2. Beside(w, u)
  BY <1>1, BesideField
<1>3. Stays(m, u) /\ u.menu = w.menu
  BY <1>2, StaysBeside DEF Beside
<1>4. [w EXCEPT !.store = kept, !.menu = Clamp([w.menu EXCEPT !.items = its])] =
        [u EXCEPT !.menu = Clamp([u.menu EXCEPT !.items = its])]
  BY <1>1, <1>3
<1>5. Stays(m, [u EXCEPT !.menu = Clamp([u.menu EXCEPT !.items = its])])
  BY <1>3, StaysItems
<1>6. QED
  BY <1>4, <1>5, Zenon

LEMMA MemoryFromFieldStays ==
  ASSUME NEW m, NEW w, Stays(m, w), NEW kind, kind = m.kind, NEW req, Heads(m, req)
  PROVE  Stays(m, MemoryFromField(w, kind, req))
<1>1. CASE kind = "Pins" \/ ~req.noted
  BY <1>1 DEF MemoryFromField
<1>2. CASE ~(kind = "Pins" \/ ~req.noted)
  <2>1. PICK kept : kept = Add(w.store, req.note)
    OBVIOUS
  <2>2. PICK its : its = MemoryItems(kept)
    OBVIOUS
  <2>3. MemoryFromField(w, kind, req) =
          [w EXCEPT !.store = kept, !.menu = Clamp([w.menu EXCEPT !.items = its])]
    BY <1>2, <2>1, <2>2 DEF MemoryFromField, Stays, SessionFields
  <2>4. Stays(m, [w EXCEPT !.store = kept, !.menu = Clamp([w.menu EXCEPT !.items = its])])
    BY <1>2, ListedAgain DEF Heads
  <2>5. QED
    BY <2>3, <2>4, Zenon
<1>3. QED
  BY <1>1, <1>2

LEMMA ForgetSlotStays ==
  ASSUME NEW m, NEW w, Stays(m, w), NEW kind, kind = m.kind, NEW req
  PROVE  Stays(m, ForgetSlot(w, kind, req))
<1>1. CASE kind # "Memory" \/ req.committed = NoRow
  BY <1>1 DEF ForgetSlot
<1>2. CASE ~(kind # "Memory" \/ req.committed = NoRow)
  <2>1. PICK kept : kept = Delete(w.store, req.committed.id)
    OBVIOUS
  <2>2. PICK its : its = MemoryItems(kept)
    OBVIOUS
  <2>3. ForgetSlot(w, kind, req) =
          [w EXCEPT !.store = kept, !.menu = Clamp([w.menu EXCEPT !.items = its])]
    BY <1>2, <2>1, <2>2 DEF ForgetSlot, Stays, SessionFields
  <2>4. Stays(m, [w EXCEPT !.store = kept, !.menu = Clamp([w.menu EXCEPT !.items = its])])
    BY <1>2, ListedAgain
  <2>5. QED
    BY <2>3, <2>4, Zenon
<1>3. QED
  BY <1>1, <1>2

LEMMA TypeSettingStays ==
  ASSUME NEW m, NEW w, Stays(m, w), NEW req
  PROVE  Stays(m, TypeSetting(w, req))
<1>1. CASE req.typedRow = ""
  BY <1>1 DEF TypeSetting
<1>2. CASE req.typedRow # ""
  <2>1. PICK u : u = StoreTyped(w, req.typedRow, req.typed)
    OBVIOUS
  <2>2. PICK its : its = SettingsItems(u, u.menu.group)
    OBVIOUS
  <2>3. Beside(w, u)
    <3>1. \A n : Beside(w, [w EXCEPT !.store = SetLimit(w.store, n)])
      BY BesideField
    <3>2. \A k, v : Beside(w, [w EXCEPT !.live[k] = v, !.file[k] = v])
      BY DEF Beside
    <3>3. Beside(w, w)
      BY DEF Beside
    <3>4. CASE req.typedRow = "limit" /\ IsNumber(req.typed)
      <4>1. u = [w EXCEPT !.store = SetLimit(w.store, Number(req.typed))]
        BY <2>1, <3>4 DEF StoreTyped, Numeric, Stays, SessionFields
      <4>2. QED
        BY <3>1, <4>1
    <3>5. CASE req.typedRow \in Numeric /\ IsNumber(req.typed)
      <4>1. PICK k, v : u = [w EXCEPT !.live[k] = v, !.file[k] = v]
        BY <2>1, <3>5 DEF StoreTyped, Numeric
      <4>2. Beside(w, [w EXCEPT !.live[k] = v, !.file[k] = v])
        BY <3>2
      <4>3. QED
        BY <4>1, <4>2, Zenon
    <3>6. CASE ~(req.typedRow = "limit" /\ IsNumber(req.typed))
               /\ ~(req.typedRow \in Numeric /\ IsNumber(req.typed))
      BY <2>1, <3>3, <3>6 DEF StoreTyped
    <3>7. QED
      BY <3>4, <3>5, <3>6
  <2>4. Stays(m, u)
    BY <2>3, StaysBeside
  <2>5. TypeSetting(w, req) = [u EXCEPT !.menu = Clamp([u.menu EXCEPT !.items = its])]
    BY <1>2, <2>1, <2>2, <2>4 DEF TypeSetting, Stays, SessionFields
  <2>6. Listed(m.group, its)
    BY <2>2, <2>4, SettingsFit DEF Stays, Home
  <2>7. Stays(m, [u EXCEPT !.menu = Clamp([u.menu EXCEPT !.items = its])])
    BY <2>4, <2>6, StaysItems
  <2>8. QED
    BY <2>5, <2>7, Zenon
<1>3. QED
  BY <1>1, <1>2

LEMMA ApplyBeside ==
  ASSUME NEW w, NEW g, NEW name, NEW v
  PROVE  Beside(w, Apply(w, g, name, v))
<1>1. ASSUME NEW key, NEW x, NEW y, NEW js PROVE Beside(w, Send(Keep(w, key, x), js))
  BY KeepBeside, SendBeside, BesideTwice
<1>2. ASSUME NEW key PROVE Beside(w, ApplySlow(w, key, v))
  BY <1>1 DEF ApplySlow
<1>3. ASSUME NEW key PROVE Beside(w, ApplyNumber(w, key, v))
  BY DEF ApplyNumber, Beside
<1>4. ASSUME NEW key PROVE Beside(w, ApplySwitch(w, key, v))
  BY KeepBeside DEF ApplySwitch
<1>5. ASSUME NEW key PROVE Beside(w, ApplyEngine(w, key, v))
  BY <1>1 DEF ApplyEngine
<1>6. Beside(w, [w EXCEPT !.store = SetEnabled(@, v = "on")])
  BY DEF Beside
<1>7. \A n \in {"provider", "thinking"} :
        n \notin Numeric /\ n \notin {"memory", "commentary", "expert", "working_bar", "record"}
  BY DEF Numeric
<1>8. /\ \A n \in Numeric : n \notin {"memory", "commentary", "expert", "working_bar", "record"}
      /\ "memory" \notin {"commentary", "expert", "working_bar", "record"}
  BY DEF Numeric
<1>9. CASE g = "slow lane" /\ name \in {"provider", "thinking"}
  BY <1>2, <1>7, <1>9 DEF Apply
<1>10. CASE name \in Numeric
  BY <1>3, <1>7, <1>8, <1>10 DEF Apply
<1>11. CASE name = "memory"
  BY <1>6, <1>7, <1>8, <1>11 DEF Apply
<1>12. CASE name \in {"commentary", "expert", "working_bar", "record"}
  BY <1>4, <1>7, <1>8, <1>12 DEF Apply
<1>13. CASE /\ ~(g = "slow lane" /\ name \in {"provider", "thinking"}) /\ name \notin Numeric
            /\ name # "memory" /\ name \notin {"commentary", "expert", "working_bar", "record"}
  BY <1>5, <1>13 DEF Apply
<1>14. QED
  BY <1>9, <1>10, <1>11, <1>12, <1>13

LEMMA FieldStays ==
  ASSUME NEW m, NEW w, Stays(m, w), NEW name, m.kind = "Settings" => name # ""
  PROVE  Stays(m, Field(w, name))
<1> DEFINE n == [w.menu EXCEPT !.typing = TRUE, !.text = <<>>, !.composeRow = name]
<1>1. Home(m, n)
  BY FieldStaysHome DEF Stays
<1>2. Field(w, name) = [w EXCEPT !.menu = n]
  BY DEF Field, Stays, SessionFields
<1> HIDE DEF n
<1>3. Stays(m, [w EXCEPT !.menu = n])
  BY <1>1, StaysMenu
<1>4. QED
  BY <1>2, <1>3, Zenon

\* Only a row of a group opens a child, and the picker is that group's.
Chosen(m, c) ==
  /\ Stays(m, c.w)
  /\ c.then \in {"values", "picker", "slow picker"} => m.kind = "Settings" /\ m.group # Root
  /\ c.then = "picker" => m.group # "slow lane"
  /\ c.then = "slow picker" => m.group = "slow lane"

LEMMA ChosenOn ==
  ASSUME NEW m, NEW u, Stays(m, u), NEW then, then \in {"on", "stop"}
  PROVE  Chosen(m, Choice(u, then))
  BY DEF Chosen, Choice

LEMMA ChosenChild ==
  ASSUME NEW m, m.kind = "Settings" /\ m.group # Root, NEW w, Stays(m, w), NEW then,
         then = "picker" => m.group # "slow lane", then = "slow picker" => m.group = "slow lane"
  PROVE  Chosen(m, Choice(w, then))
  BY DEF Chosen, Choice

LEMMA ApplyRowStays ==
  ASSUME NEW m, NEW w, Stays(m, w), NEW g, NEW name, m.kind = "Settings" => name # "", NEW v
  PROVE  Chosen(m, ApplyRow(w, g, name, v))
<1>1. CASE v = Custom
  BY <1>1, FieldStays, ChosenOn DEF ApplyRow
<1>2. CASE v # Custom
  <2>1. PICK u : u = Apply(w, g, name, v)
    OBVIOUS
  <2>2. PICK its : its = SettingsItems(u, u.menu.group)
    OBVIOUS
  <2>3. PICK x : x = [u EXCEPT !.menu = [u.menu EXCEPT !.items = its]]
    OBVIOUS
  <2>4. Stays(m, u)
    BY <2>1, ApplyBeside, StaysBeside
  <2>5. Listed(m.group, its)
    BY <2>2, <2>4, SettingsFit DEF Stays, Home
  <2>6. Stays(m, x)
    BY <2>3, <2>4, <2>5, StaysItems
  <2>7. [u EXCEPT !.menu.items = its] = x
    BY <2>3, <2>4 DEF Stays, SessionFields
  <2>8. ApplyRow(w, g, name, v) = Choice(x, "on")
    BY <1>2, <2>1, <2>2, <2>7 DEF ApplyRow
  <2>9. QED
    BY <2>6, <2>8, ChosenOn
<1>3. QED
  BY <1>1, <1>2

LEMMA AtMostTwo ==
  ASSUME NEW n, n = 2 \/ n = 0
  PROVE  ~(n > 2)
  OBVIOUS

\* The root's own rows are switches.
LEMMA RootHasNoDropDown ==
  ASSUME NEW r
  PROVE  ~(Len(RowValues(Root, r)) > 2)
<1>1. Len(<<"off", "on">>) = 2 /\ Len(<<>>) = 0
  OBVIOUS
<1>2. RowValues(Root, r) = <<"off", "on">> \/ RowValues(Root, r) = <<>>
  BY Zenon DEF RowValues
<1>3. Len(RowValues(Root, r)) = 2 \/ Len(RowValues(Root, r)) = 0
  BY <1>1, <1>2, Zenon
<1>4. QED
  BY <1>3, AtMostTwo, Zenon

LEMMA CommitStays ==
  ASSUME NEW m, NEW w, Stays(m, w), NEW req, Heads(m, req)
  PROVE  Chosen(m, Commit(w, m.kind, req))
<1> DEFINE row    == req.committed
           g      == w.menu.group
           values == RowValues(g, row.n)
           c      == Commit(w, m.kind, req)
<1>1. g = m.group
  BY DEF Stays, Home
<1>2. CASE req.picked # NoRow
  <2>1. m.kind # "Settings"
    BY <1>2 DEF Heads
  <2>2. QED
    BY <1>2, <2>1, ApplyRowStays DEF Commit
<1>3. CASE req.picked = NoRow /\ (m.kind # "Settings" \/ row = NoRow)
  BY <1>3, ChosenOn DEF Commit
<1>4. CASE req.picked = NoRow /\ m.kind = "Settings" /\ row # NoRow
  <2>0. Len(values) \in Nat
    <3>1. PICK S : values \in Seq(S)
      BY WordsOffered DEF ASequence
    <3>2. QED
      BY <3>1
  <2>1. Chosen(m, Choice(w, "on"))
    BY ChosenOn
  <2>2. values # <<>> => row.n # ""
    BY WordsOffered
  <2>3. Len(values) > 2 => g # Root
    BY RootHasNoDropDown
  <2>4. Len(values) \in 1 .. 2 => values # <<>>
    <3>1. Len(<<>>) = 0
      OBVIOUS
    <3>2. QED
      BY <3>1
  <2> HIDE DEF values
  <2>5. CASE row.n \in TextEntry
    <3>1. c = Choice(Field(w, row.n), "on") /\ row.n # ""
      BY <1>4, <2>5 DEF Commit, TextEntry, OpensMenu
    <3>2. QED
      BY <3>1, FieldStays, ChosenOn
  <2>6. CASE row.n \in OpensMenu
    <3>1. c = Choice(w, IF g = "slow lane" THEN "slow picker" ELSE "picker")
      BY <1>4, <2>6 DEF Commit, TextEntry, OpensMenu
    <3>2. g # Root
      BY <1>1, <1>4, <2>6 DEF Heads, RowFits
    <3>3. QED
      BY <1>1, <1>4, <3>1, <3>2, ChosenChild
  <2>7. CASE row.n \notin TextEntry \cup OpensMenu /\ Len(values) > 2
    <3>1. ~(Len(values) \in 1 .. 2)
      BY <2>0, <2>7, MoreThanTwo, Zenon
    <3>2. c = Choice(w, "values")
      BY <1>4, <2>7, <3>1 DEF Commit, values
    <3>3. Chosen(m, Choice(w, "values"))
      BY <1>1, <1>4, <2>3, <2>7, ChosenChild
    <3>4. QED
      BY <3>2, <3>3
  <2>8. CASE row.n \notin TextEntry \cup OpensMenu /\ Len(values) \in 1 .. 2
    <3>1. ~(Len(values) > 2)
      BY <2>0, <2>8, MoreThanTwo, Zenon
    <3>2. c = ApplyRow(w, g, row.n, Cycled(values, row.v))
      BY <1>4, <2>8, <3>1 DEF Commit, values
    <3>3. QED
      BY <2>2, <2>4, <2>8, <3>2, ApplyRowStays
  <2>9. CASE row.n \notin TextEntry \cup OpensMenu /\ ~(Len(values) > 2) /\ Len(values) \notin 1 .. 2
    <3>1. c = Choice(w, "on")
      BY <1>4, <2>9 DEF Commit, values
    <3>2. QED
      BY <2>1, <3>1
  <2>10. QED
    BY <2>5, <2>6, <2>7, <2>8, <2>9
<1>5. QED
  BY <1>2, <1>3, <1>4

LEMMA BindSlowBeside ==
  ASSUME NEW w, NEW kind, NEW req
  PROVE  Beside(w, BindSlowModel(w, kind, req))
<1>1. PICK u : u = Send(w, <<Job("SetSlowModel", ModelKey, req.committed.n)>>)
  OBVIOUS
<1>2. Beside(w, u) /\ Beside(u, [u EXCEPT !.slowShown = req.committed.n]) /\ Beside(w, w)
  BY <1>1, SendBeside DEF Beside
<1>3. QED
  BY <1>1, <1>2, BesideTwice DEF BindSlowModel

LEMMA BindFastBeside ==
  ASSUME NEW w, NEW kind, NEW req
  PROVE  Beside(w, BindFastModel(w, kind, req))
<1> DEFINE name == req.committed.n
<1>1. PICK u : u = Send(w, <<Plain("Rebind")>>)
  OBVIOUS
<1>2. PICK t : t = Send(w, <<Job("SetModel", ModelKey, name)>>)
  OBVIOUS
<1>3. Beside(w, u) /\ Beside(w, t) /\ Beside(w, w)
  BY <1>1, <1>2, SendBeside DEF Beside
<1>4. Beside(u, [u EXCEPT !.file[ModelKey] = Absent])
  BY DEF Beside
<1>5. Beside(t, [t EXCEPT !.file[ModelKey] = name, !.probation = name])
  BY DEF Beside
<1>6. BindFastModel(w, kind, req) \in
        {w, [u EXCEPT !.file[ModelKey] = Absent], [t EXCEPT !.file[ModelKey] = name, !.probation = name]}
  BY <1>1, <1>2 DEF BindFastModel
<1>7. QED
  BY <1>3, <1>4, <1>5, <1>6, BesideTwice


\* A menu opened from a group goes back to it.
Child(n) == Rooted(n) /\ n.kind \in {"ValuePick", "Model", "SlowModel"} /\ n.parent # NoParent
Near(m, w) ==
  /\ DOMAIN w = SessionFields
  /\ Home(m, w.menu) \/ (m.kind = "Settings" /\ m.group # Root /\ Child(w.menu))

LEMMA DropDownIsAChild ==
  ASSUME NEW w, DOMAIN w = SessionFields, NEW name
  PROVE  DOMAIN OpenDropDown(w, name) = SessionFields /\ Child(OpenDropDown(w, name).menu)
<1>1. PICK g : g = w.menu.group
  OBVIOUS
<1>2. PICK its, c : OpenDropDown(w, name) =
        [w EXCEPT !.menu = [Open("ValuePick") EXCEPT !.items = its, !.cursor = c, !.loaded = TRUE,
                              !.valueRow = <<g, name>>, !.parent = [kind |-> "Settings", group |-> g]]]
  BY <1>1 DEF OpenDropDown
<1>3. PICK p : p = [kind |-> "Settings", group |-> g]
  OBVIOUS
<1>4. PICK r : r = <<g, name>>
  OBVIOUS
<1>5. p # NoParent /\ p.group = g /\ r[1] = g
  BY <1>3, <1>4 DEF NoParent
<1>6. PICK n : n = [Open("ValuePick") EXCEPT !.items = its, !.cursor = c, !.loaded = TRUE,
                                             !.valueRow = r, !.parent = p]
  OBVIOUS
<1>7. DOMAIN n = MenuFields /\ n.kind = "ValuePick" /\ n.parent = p /\ n.valueRow = r /\ n.group = Root
  BY <1>6 DEF Open, MenuFields
<1>8. OpenDropDown(w, name) = [w EXCEPT !.menu = n]
  BY <1>2, <1>3, <1>4, <1>6
<1>9. Child(n)
  BY <1>5, <1>7 DEF Child, Rooted, Fitted
<1>10. QED
  BY <1>8, <1>9 DEF SessionFields

LEMMA PickerIsAChild ==
  ASSUME NEW w, DOMAIN w = SessionFields, NEW slow \in BOOLEAN, NEW g, slow <=> g = "slow lane"
  PROVE  \/ OpenPicker(w, slow, g) = w
         \/ DOMAIN OpenPicker(w, slow, g) = SessionFields /\ Child(OpenPicker(w, slow, g).menu)
<1>1. CASE ~engine
  BY <1>1 DEF OpenPicker
<1>2. CASE engine
  <2>1. PICK u : u = Send(w, <<Plain(IF slow THEN "ListSlowModels" ELSE "ListModels")>>)
    OBVIOUS
  <2>2. PICK kind : kind = IF slow THEN "SlowModel" ELSE "Model"
    OBVIOUS
  <2>3. PICK p : p = [kind |-> "Settings", group |-> g]
    OBVIOUS
  <2>4. PICK n : n = [Open(kind) EXCEPT !.parent = p]
    OBVIOUS
  <2>5. Beside(w, u) /\ p # NoParent /\ p.group = g
    BY <2>1, <2>3, SendBeside DEF NoParent
  <2>6. DOMAIN Open(kind) = MenuFields /\ Open(kind).kind = kind /\ Open(kind).group = Root
    BY DEF Open, MenuFields
  <2>7. DOMAIN n = MenuFields /\ n.kind = kind /\ n.parent = p /\ n.group = Root
    BY <2>4, <2>6 DEF MenuFields
  <2>8. OpenPicker(w, slow, g) = [u EXCEPT !.menu = n]
    BY <1>2, <2>1, <2>2, <2>3, <2>4, Zenon DEF OpenPicker
  <2>9. DOMAIN [u EXCEPT !.menu = n] = SessionFields /\ [u EXCEPT !.menu = n].menu = n
    BY <2>5 DEF Beside, SessionFields
  <2>10. Child(n)
    BY <2>2, <2>5, <2>7 DEF Child, Rooted, Fitted
  <2>11. QED
    BY <2>8, <2>9, <2>10
<1>3. QED
  BY <1>1, <1>2

\* Into a group, or back to it: its list, from the top or from where it was left.
LEMMA Entered ==
  ASSUME NEW w, DOMAIN w = SessionFields, DOMAIN w.menu = MenuFields, Fitted(w.menu), NEW g, NEW from
  PROVE  LET n == Enter(w, g, from).menu
         IN  /\ DOMAIN n = MenuFields /\ Fitted(n) /\ n.kind = w.menu.kind
             /\ n.parent = w.menu.parent /\ n.group = g /\ n.valueRow = w.menu.valueRow
<1> DEFINE items == SettingsItems(w, g)
           back  == {i \in DOMAIN items : from # Root /\ items[i] = GroupRow(from)}
           c     == IF back = {} THEN 0 ELSE Min(back) - 1
           n     == [w.menu EXCEPT !.group = g, !.filter = 0, !.items = items, !.cursor = c]
<1>1. Listed(g, items)
  BY SettingsFit
<1> HIDE DEF items
<1>2. DOMAIN items \subseteq Nat \ {0}
  BY <1>1, Positions DEF Listed
<1>3. c \in Nat
  <2>1. back \subseteq Nat \ {0}
    BY <1>2
  <2> HIDE DEF back
  <2>2. back # {} => Min(back) \in Nat \ {0}
    BY <2>1, MinIsIn
  <2>3. QED
    BY <2>2
<1>4. Enter(w, g, from) = [w EXCEPT !.menu = n]
  BY DEF Enter, items, back, c, SessionFields
<1> HIDE DEF c
<1>5. /\ DOMAIN n = MenuFields /\ n.kind = w.menu.kind /\ n.loaded = w.menu.loaded /\ n.cursor = c
      /\ n.typing = w.menu.typing /\ n.composeRow = w.menu.composeRow
      /\ n.valueRow = w.menu.valueRow /\ n.items = items /\ n.group = g /\ n.parent = w.menu.parent
  BY DEF MenuFields
<1>6. [w EXCEPT !.menu = n].menu = n
  BY DEF SessionFields
<1> HIDE DEF n
<1>7. Fitted(n)
  BY <1>1, <1>3, <1>5 DEF Fitted
<1>8. QED
  BY <1>4, <1>5, <1>6, <1>7

\* What one step back may leave, for a menu that has one.
Returned(m, n) ==
  n # NoMenu /\ ((m.parent # NoParent /\ n.kind = "Settings") => n.group = m.parent.group)

Came(m, n) ==
  /\ Rooted(n)
  /\ HasWayUp(m) => Returned(m, n)
  /\ n.kind = "Memory" => m.kind = "Memory"

LEMMA NoMenuIsRooted == Rooted(NoMenu) /\ ~HasWayUp(NoMenu) /\ NoMenu.kind = "None"
  BY DEF NoMenu, Open, Rooted, Fitted, HasWayUp, NoParent, MenuFields

LEMMA HomeReturns ==
  ASSUME NEW m, Rooted(m), NEW n, Home(m, n)
  PROVE  Came(m, n)
<1>1. Rooted(n)
  BY DEF Rooted, Home
<1>2. HasWayUp(m) => n # NoMenu
  BY SameWayUp, NoMenuIsRooted
<1>3. QED
  BY <1>1, <1>2 DEF Rooted, Returned, Home, Came

LEMMA ChildReturns ==
  ASSUME NEW m, Rooted(m), NEW n, Child(n)
  PROVE  Came(m, n)
  BY NoMenuIsRooted DEF Rooted, Returned, Child, Came

LEMMA NavigateReturns ==
  ASSUME NEW m, Rooted(m), NEW w, Near(m, w), NEW req, Heads(m, req)
  PROVE  Came(m, Navigate(w, req).menu)
<1> DEFINE k == w.menu
<1>1. DOMAIN k = MenuFields /\ DOMAIN w = SessionFields /\ Fitted(k)
  BY DEF Near, Home, Child, Rooted
<1>2. CASE req.up /\ k.parent # NoParent
  <2>1. PICK t : t = [Open("Settings") EXCEPT !.loaded = TRUE]
    OBVIOUS
  <2>2. DOMAIN t = MenuFields /\ t.kind = "Settings" /\ t.parent = NoParent /\ t.group = Root
    BY <2>1 DEF Open, MenuFields
  <2>0. Fitted(t)
    <3>1. t.loaded = TRUE /\ t.cursor = 0 /\ t.typing = FALSE /\ t.items = <<>>
      BY <2>1 DEF Open
    <3>2. Listed(t.group, <<>>)
      BY NoWords DEF Listed
    <3>3. t.cursor \in Nat
      BY <3>1
    <3>4. QED
      BY <3>1, <3>2, <3>3, Zenon DEF Fitted
  <2>3. PICK u : u = [w EXCEPT !.menu = t]
    OBVIOUS
  <2>4. DOMAIN u = SessionFields /\ u.menu = t
    BY <1>1, <2>3 DEF SessionFields
  <2>5. PICK n : n = Enter(u, k.parent.group, Root).menu
    OBVIOUS
  <2>6. DOMAIN n = MenuFields /\ n.kind = "Settings" /\ n.parent = NoParent /\ n.group = k.parent.group
        /\ Fitted(n)
    BY <2>0, <2>2, <2>4, <2>5, Entered
  <2>7. Navigate(w, req).menu = n
    BY <1>2, <2>1, <2>3, <2>5 DEF Navigate
  <2>8. m.parent # NoParent => k.parent = m.parent
    BY DEF Near, Home, Rooted
  <2>9. QED
    BY <2>6, <2>7, <2>8, NoMenuIsRooted DEF Rooted, Returned, Came
<1>3. CASE req.up /\ k.parent = NoParent
  <2>1. PICK n : n = Enter(w, Root, k.group).menu
    OBVIOUS
  <2>2. DOMAIN n = MenuFields /\ n.kind = k.kind /\ n.parent = NoParent /\ n.group = Root
        /\ n.valueRow = k.valueRow /\ Fitted(n)
    BY <1>1, <1>3, <2>1, Entered
  <2>3. Navigate(w, req).menu = n
    BY <1>3, <2>1 DEF Navigate
  <2>4. Home(m, k)
    BY <1>3 DEF Near, Child
  <2>5. HasWayUp(m) => m.kind = "Settings" /\ m.parent = NoParent
    BY <1>3, <2>4 DEF HasWayUp, Rooted, Home
  <2>6. /\ k.kind = m.kind /\ k.parent = m.parent /\ k.valueRow = m.valueRow
        /\ m.parent = NoParent
    BY <1>3, <2>4 DEF Home
  <2>7. Rooted(n)
    BY <2>2, <2>6 DEF Rooted
  <2>8. HasWayUp(m) => n # NoMenu
    BY <2>2, <2>5, <2>6, NoMenuIsRooted
  <2>9. QED
    BY <2>2, <2>3, <2>6, <2>7, <2>8 DEF Returned, Came
<1>4. CASE ~req.up /\ req.into # Root
  <2>1. PICK n : n = Enter(w, req.into, Root).menu
    OBVIOUS
  <2>2. DOMAIN n = MenuFields /\ n.kind = k.kind /\ n.parent = k.parent /\ Fitted(n)
    BY <1>1, <2>1, Entered
  <2>3. Navigate(w, req).menu = n
    BY <1>4, <2>1 DEF Navigate
  <2>4. m.kind = "Settings" /\ m.parent = NoParent /\ m.group = Root
    BY <1>4 DEF Heads, Rooted
  <2>5. k.kind = "Settings" /\ k.parent = NoParent
    BY <2>4 DEF Near, Home
  <2>6. QED
    BY <2>2, <2>3, <2>4, <2>5, NoMenuIsRooted DEF Rooted, Returned, Came
<1>5. CASE ~req.up /\ req.into = Root
  <2>1. Navigate(w, req).menu = k
    BY <1>5 DEF Navigate
  <2>2. QED
    BY <2>1, HomeReturns, ChildReturns DEF Near
<1>6. QED
  BY <1>2, <1>3, <1>4, <1>5

LEMMA FinishReturns ==
  ASSUME NEW m, Rooted(m), NEW c, Chosen(m, c), NEW req, Heads(m, req), NEW g, g = m.group
  PROVE  Came(m, Finish(c, m.kind, req, g).menu)
<1>1. PICK s : s = ForgetSlot(c.w, m.kind, req)
  OBVIOUS
<1>2. PICK t : t = BindSlowModel(s, m.kind, req)
  OBVIOUS
<1>3. PICK a : a = BindFastModel(t, m.kind, req)
  OBVIOUS
<1>4. Stays(m, s)
  BY <1>1, ForgetSlotStays DEF Chosen
<1>5. Stays(m, t)
  BY <1>2, <1>4, BindSlowBeside, StaysBeside
<1>6. Stays(m, a)
  BY <1>3, <1>5, BindFastBeside, StaysBeside
<1>7. PICK b : b = CASE c.then = "values"      -> OpenDropDown(a, req.committed.n)
                     [] c.then = "picker"      -> OpenPicker(a, FALSE, g)
                     [] c.then = "slow picker" -> OpenPicker(a, TRUE, g)
                     [] OTHER                  -> a
  OBVIOUS
<1>8. Near(m, b)
  <2>0. DOMAIN a = SessionFields /\ Near(m, a)
    BY <1>6 DEF Stays, Near
  <2>1. CASE c.then = "values"
    <3>1. b = OpenDropDown(a, req.committed.n)
      BY <1>7, <2>1
    <3>2. QED
      BY <2>0, <2>1, <3>1, DropDownIsAChild DEF Near, Chosen
  <2>2. CASE c.then \in {"picker", "slow picker"}
    <3>1. PICK slow \in BOOLEAN : b = OpenPicker(a, slow, g) /\ (slow <=> g = "slow lane")
      BY <1>7, <2>2 DEF Chosen
    <3>2. QED
      BY <2>0, <2>2, <3>1, PickerIsAChild DEF Near, Chosen
  <2>3. CASE c.then \notin {"values", "picker", "slow picker"}
    BY <1>7, <2>0, <2>3
  <2>4. QED
    BY <2>1, <2>2, <2>3
<1>9. PICK n : n = Navigate(b, req)
  OBVIOUS
<1>10. Came(m, n.menu)
  BY <1>8, <1>9, NavigateReturns
<1>11. PICK f : f = Finish(c, m.kind, req, g)
  OBVIOUS
<1>12. f = IF c.then = "stop" THEN c.w ELSE IF req.close THEN [n EXCEPT !.menu = NoMenu] ELSE n
  BY <1>1, <1>2, <1>3, <1>7, <1>9, <1>11, Zenon DEF Finish
<1>13. CASE c.then = "stop"
  <2>1. f = c.w /\ Home(m, f.menu)
    BY <1>12, <1>13 DEF Chosen, Stays
  <2>2. Came(m, f.menu)
    BY <2>1, HomeReturns
  <2>3. QED
    BY <1>11, <2>2
<1>14. CASE c.then # "stop" /\ req.close
  <2>1. ~HasWayUp(m)
    BY <1>14 DEF Heads
  <2>2. f.menu = NoMenu
    <3>1. DOMAIN n = SessionFields
      <4>1. DOMAIN b = SessionFields
        BY <1>8 DEF Near
      <4>2. QED
        BY <1>9, <4>1 DEF Navigate, Enter, SessionFields
    <3>2. f = [n EXCEPT !.menu = NoMenu]
      BY <1>12, <1>14
    <3>3. QED
      BY <3>1, <3>2 DEF SessionFields
  <2>3. QED
    BY <1>11, <2>1, <2>2, NoMenuIsRooted DEF Came
<1>15. CASE c.then # "stop" /\ ~req.close
  BY <1>10, <1>11, <1>12, <1>15
<1>16. QED
  BY <1>13, <1>14, <1>15

LEMMA AppliedReturns ==
  ASSUME NEW m, Rooted(m), NEW w, Stays(m, w), NEW req, Heads(m, req), NEW g, g = m.group, NEW readable
  PROVE  Came(m, Applied(w, m.kind, req, g, readable).menu)
<1>1. PICK a : a = PinFromField(w, m.kind, req, readable)
  OBVIOUS
<1>2. PICK p : p = OpenPane(a, m.kind, req)
  OBVIOUS
<1>3. PICK d : d = DropPin(p, m.kind, req)
  OBVIOUS
<1>4. PICK b : b = MemoryFromField(d, m.kind, req)
  OBVIOUS
<1>5. PICK t : t = TypeSetting(b, req)
  OBVIOUS
<1>6. PICK c : c = Commit(t, m.kind, req)
  OBVIOUS
<1>7. Stays(m, a)
  BY <1>1, PinFromFieldStays
<1>8. Stays(m, p)
  BY <1>2, <1>7, OpenPaneStays
<1>9. Stays(m, d)
  BY <1>3, <1>8, DropPinStays
<1>10. Stays(m, b)
  BY <1>4, <1>9, MemoryFromFieldStays
<1>11. Stays(m, t)
  BY <1>5, <1>10, TypeSettingStays
<1>12. Chosen(m, c)
  BY <1>6, <1>11, CommitStays
<1>13. Applied(w, m.kind, req, g, readable) = Finish(c, m.kind, req, g)
  BY <1>1, <1>2, <1>3, <1>4, <1>5, <1>6, Zenon DEF Applied
<1>14. QED
  BY <1>12, <1>13, FinishReturns

-----------------------------------------------------------------------------

TreeInv == Rooted(menu)

LEMMA InitRooted == Init => TreeInv
  BY NoMenuIsRooted DEF Init, SessionInit, TreeInv

\* What a read of keys leaves.
LEMMA KeysReturn ==
  ASSUME TreeInv, NEW chunk \in Chunks, NEW readable, MenuKeys(chunk, readable)
  PROVE  TreeInv' /\ Came(menu, menu')
<1>1. PICK s : s = AfterKeys(menu, chunk)
  OBVIOUS
<1>2. PICK w : w = [menu |-> s.m, live |-> live, file |-> file, store |-> store, pins |-> pins,
                    slowShown |-> slowShown, probation |-> probation, jobs |-> jobs]
  OBVIOUS
<1>3. Steered(menu, s)
  BY <1>1, AfterKeysSteer DEF TreeInv
<1>4. Stays(menu, w) /\ Heads(menu, s.req)
  BY <1>2, <1>3 DEF Steered, Stays, SessionFields
<1>5. PICK n : n = Applied(w, menu.kind, s.req, menu.group, readable).menu
  OBVIOUS
<1>6. Came(menu, n)
  BY <1>4, <1>5, AppliedReturns DEF TreeInv
<1>7. menu' = n
  BY <1>1, <1>2, <1>5 DEF MenuKeys
<1>8. QED
  BY <1>6, <1>7 DEF TreeInv, Came

LEMMA OpenRooted ==
  ASSUME TreeInv, NEW kind \in Kinds, OpenMenu(kind)
  PROVE  TreeInv'
<1>1. menu' = Opening(kind)
  BY DEF OpenMenu
<1>2. ASSUME NEW k PROVE /\ DOMAIN Open(k) = MenuFields /\ Open(k).kind = k /\ ~Open(k).typing
                         /\ Open(k).cursor = 0 /\ Open(k).group = Root /\ Open(k).parent = NoParent
                         /\ Open(k).valueRow[1] = Root
  BY DEF Open, MenuFields
<1>3. NoParent.group = Root /\ Root # "slow lane" /\ Root # "fast lane"
  BY DEF NoParent, Root
<1>4. CASE kind \in {"Settings", "Debug"}
  <2>1. PICK g : g = IF kind = "Settings" THEN Root ELSE "nerd stuff"
    OBVIOUS
  <2>2. PICK its : its = SettingsItems(Now, g)
    OBVIOUS
  <2>3. /\ DOMAIN menu' = MenuFields /\ menu'.parent = NoParent /\ menu'.kind = "Settings"
        /\ menu'.loaded /\ menu'.cursor = 0 /\ ~menu'.typing /\ menu'.items = its /\ menu'.group = g
    <3>1. CASE kind = "Settings"
      <4>1. menu' = [Open("Settings") EXCEPT !.items = its, !.loaded = TRUE] /\ g = Root
        BY <1>1, <2>1, <2>2, <3>1 DEF Opening
      <4>2. QED
        BY <1>2, <4>1 DEF MenuFields
    <3>2. CASE kind = "Debug"
      <4>1. menu' = [Open("Settings") EXCEPT !.items = its, !.group = g, !.loaded = TRUE]
        BY <1>1, <2>1, <2>2, <3>2 DEF Opening
      <4>2. QED
        BY <1>2, <4>1 DEF MenuFields
    <3>3. QED
      BY <1>4, <3>1, <3>2
  <2>4. Listed(g, its)
    BY <2>2, SettingsFit
  <2>5. PICK n : n = menu'
    OBVIOUS
  <2>6. n.cursor \in Nat
    BY <2>3, <2>5
  <2>7. Fitted(n)
    BY <2>3, <2>4, <2>5, <2>6, Zenon DEF Fitted
  <2>8. Rooted(n)
    BY <2>3, <2>5, <2>7 DEF Rooted
  <2>9. QED
    BY <2>5, <2>8 DEF TreeInv
<1>5. CASE kind \in {"Help", "Pins"}
  <2>1. PICK its : menu' = [Open(kind) EXCEPT !.items = its, !.loaded = TRUE]
    BY <1>1, <1>5 DEF Opening
  <2>2. QED
    BY <1>2, <1>5, <2>1 DEF Rooted, Fitted, TreeInv, MenuFields
<1>6. CASE kind = "Memory"
  <2>1. PICK its : menu' = [Open("Memory") EXCEPT !.items = its]
    BY <1>1, <1>6 DEF Opening
  <2>2. QED
    BY <1>2, <2>1 DEF Rooted, Fitted, TreeInv, MenuFields
<1>7. CASE kind \notin {"Settings", "Debug", "Help", "Memory", "Pins"}
  <2>1. menu' = Open(kind)
    BY <1>1, <1>7 DEF Opening
  <2>2. Rooted(Open(kind))
    BY <1>2, <1>3, <1>7 DEF Rooted, Fitted
  <2>3. QED
    BY <2>1, <2>2 DEF TreeInv
<1>8. QED
  BY <1>4, <1>5, <1>6, <1>7

LEMMA ReadRooted ==
  ASSUME TreeInv, ReadEvent
  PROVE  TreeInv' /\ Came(menu, menu')
<1>1. Home(menu, menu)
  BY DEF TreeInv, Rooted, Home
<1>2. Home(menu, menu')
  <2>1. CASE ReadReady
    BY <1>1, <2>1 DEF ReadReady
  <2>2. CASE ReadCaps
    <3>1. Home(menu, [menu EXCEPT !.items = SettingsItems(Now, menu.group)])
      BY <1>1, SettingsFit, ItemsStayHome
    <3>2. QED
      BY <1>1, <2>2, <3>1 DEF ReadCaps
  <2>3. CASE ReadModels
    <3>1. PICK its : menu' = menu \/ (~menu.loaded /\ menu' = [menu EXCEPT !.loaded = TRUE, !.items = its])
      BY <2>3 DEF ReadModels
    <3>2. ~menu.loaded => Home(menu, [menu EXCEPT !.loaded = TRUE, !.items = its])
      BY <1>1 DEF Home, Fitted, MenuFields
    <3>3. QED
      BY <1>1, <3>1, <3>2
  <2>4. QED
    BY <2>1, <2>2, <2>3 DEF ReadEvent
<1>3. QED
  BY <1>2, HomeReturns DEF TreeInv, Came

LEMMA StepReturns ==
  ASSUME TreeInv, [Next]_vars
  PROVE  TreeInv' /\ ((menu # NoMenu /\ HasWayUp(menu) /\ menu' # menu) => Returned(menu, menu'))
<1>1. CASE UNCHANGED menu
  BY <1>1 DEF TreeInv
<1>2. CASE AtKeyboard
  <2>1. ASSUME NEW kind \in Kinds, OpenMenu(kind) PROVE TreeInv' /\ menu = NoMenu
    BY <2>1, OpenRooted DEF OpenMenu
  <2>2. ASSUME NEW name, NEW save, NameModel(name, save) PROVE UNCHANGED menu
    BY <2>2 DEF NameModel
  <2>3. ASSUME NEW name, NameSlowModel(name) PROVE UNCHANGED menu
    BY <2>3 DEF NameSlowModel
  <2>4. ASSUME NEW c, MemoryCommand(c) PROVE UNCHANGED menu
    BY <2>4 DEF MemoryCommand
  <2>5. QED
    BY <1>1, <1>2, <2>1, <2>2, <2>3, <2>4, KeysReturn DEF AtKeyboard, Came
<1>3. CASE FromEngine
  <2>1. CASE EngineLost
    BY <1>1, <2>1 DEF EngineLost
  <2>2. ASSUME NEW a \in Answers, AnswerRewrites(a[1], a[2]) PROVE UNCHANGED menu
    BY <2>2 DEF AnswerRewrites
  <2>3. QED
    BY <1>1, <1>3, <2>1, <2>2, ReadRooted DEF FromEngine, Came
<1>4. CASE UNCHANGED sessionVars
  BY <1>1, <1>4 DEF sessionVars
<1>5. CASE UNCHANGED vars
  BY <1>1, <1>5 DEF vars, sessionVars
<1>6. CASE engine /\ Worker!Serve /\ UNCHANGED sessionVars
  BY <1>1, <1>6 DEF sessionVars
<1>7. QED
  BY <1>2, <1>3, <1>4, <1>5 DEF Next

\* One step back is one step back, from wherever the menu is and whatever keys
\* arrive in one read: the user is never thrown out to the shell from a menu
\* that has a way up, and a child goes back to its group (session.rs, nav_up).
THEOREM Returns == Spec => ReturnsWhereItCameFrom
<1>1. ASSUME TreeInv, [Next]_vars
      PROVE  [(menu # NoMenu /\ HasWayUp(menu) /\ menu' # menu) =>
                /\ menu' # NoMenu
                /\ (menu.parent # NoParent /\ menu'.kind = "Settings") => menu'.group = menu.parent.group]_vars
  BY <1>1, StepReturns DEF Returned
<1>2. ASSUME TreeInv, [Next]_vars PROVE TreeInv'
  BY <1>2, StepReturns
<1>3. QED
  BY <1>1, <1>2, InitRooted, PTL DEF Spec, ReturnsWhereItCameFrom

-----------------------------------------------------------------------------
(* What a lane's menu changes is the lane's.  Nothing of the other lane is  *)
(* written, its model stays, and every job sent is the lane's or nobody's.  *)

Other(lane)  == IF lane = "slow lane" THEN "fast lane" ELSE "slow lane"
Binding(lane) == IF lane = "slow lane" THEN "SetSlowModel" ELSE "SetModel"
Allowed(lane, job) == job.k # Binding(Other(lane)) /\ (job.k = "SetOption" => job.key[1] = lane)

\* A Rebind among the jobs of the slow lane comes with the provider it is for.
IsSlow(lane) == lane = "slow lane"
Paired(lane, S) ==
  IsSlow(lane) => \A x \in S : x.k = "Rebind" => \E y \in S : TellsSlowProvider(y)
Excused(lane, js, ks) ==
  IsSlow(lane) =>
    \A i \in Len(js) + 1 .. Len(ks) :
      ks[i].k = "Rebind" => \E j \in Len(js) + 1 .. Len(ks) : TellsSlowProvider(ks[j])

\* Jobs sent after the ones already there.
Adds(lane, js, ks) ==
  /\ ASequence(js) /\ ASequence(ks) /\ Len(js) <= Len(ks)
  /\ \A i \in 1 .. Len(js) : ks[i] = js[i]
  /\ \A i \in Len(js) + 1 .. Len(ks) : Allowed(lane, ks[i])
  /\ Excused(lane, js, ks)
Spares(lane, f, h) == DOMAIN h = DOMAIN f /\ \A k \in DOMAIN f : k[1] = Other(lane) => h[k] = f[k]

Confined(lane, w, u) ==
  /\ DOMAIN u = SessionFields
  /\ Spares(lane, w.live, u.live) /\ Spares(lane, w.file, u.file)
  /\ lane = "fast lane" => u.slowShown = w.slowShown
  /\ Adds(lane, w.jobs, u.jobs)

\* What touches nothing of either lane.
Aside(w, u) ==
  /\ DOMAIN u = DOMAIN w
  /\ u.live = w.live /\ u.file = w.file /\ u.slowShown = w.slowShown /\ u.jobs = w.jobs

LEMMA ConfinedAside ==
  ASSUME NEW lane, NEW v, NEW w, Confined(lane, v, w), NEW u, Aside(w, u)
  PROVE  Confined(lane, v, u)
  BY DEF Confined, Aside

LEMMA LengthOfASequence ==
  ASSUME NEW s, ASequence(s)
  PROVE  Len(s) \in Nat
<1>1. PICK S : s \in Seq(S)
  BY DEF ASequence
<1>2. QED
  BY <1>1

LEMMA AddsNothing ==
  ASSUME NEW lane, NEW js, ASequence(js)
  PROVE  Adds(lane, js, js)
<1>1. Len(js) \in Nat
  BY LengthOfASequence
<1>2. QED
  BY <1>1 DEF Adds, Excused

LEMMA AddsTwice ==
  ASSUME NEW lane, NEW is, NEW js, Adds(lane, is, js), NEW ks, Adds(lane, js, ks)
  PROVE  Adds(lane, is, ks)
<1>1. Len(is) \in Nat /\ Len(js) \in Nat /\ Len(ks) \in Nat
  BY LengthOfASequence DEF Adds
<1>2. \A i \in 1 .. Len(is) : ks[i] = is[i]
  BY <1>1 DEF Adds
<1>3. ASSUME NEW i \in Len(is) + 1 .. Len(ks) PROVE Allowed(lane, ks[i])
  <2>1. CASE i <= Len(js)
    <3>1. i \in 1 .. Len(js) /\ i \in Len(is) + 1 .. Len(js)
      BY <1>1, <2>1
    <3>2. ks[i] = js[i] /\ Allowed(lane, js[i])
      BY <3>1 DEF Adds
    <3>3. QED
      BY <3>2
  <2>2. CASE ~(i <= Len(js))
    <3>1. i \in Len(js) + 1 .. Len(ks)
      BY <1>1, <2>2
    <3>2. QED
      BY <3>1 DEF Adds
  <2>3. QED
    BY <2>1, <2>2
<1>4. Excused(lane, is, ks)
  <2> SUFFICES ASSUME IsSlow(lane), NEW i \in Len(is) + 1 .. Len(ks), ks[i].k = "Rebind"
               PROVE  \E j \in Len(is) + 1 .. Len(ks) : TellsSlowProvider(ks[j])
    BY DEF Excused
  <2>1. CASE i <= Len(js)
    <3>1. i \in 1 .. Len(js) /\ i \in Len(is) + 1 .. Len(js)
      BY <1>1, <2>1
    <3>2. js[i].k = "Rebind"
      BY <3>1 DEF Adds
    <3>3. PICK j \in Len(is) + 1 .. Len(js) : TellsSlowProvider(js[j])
      BY <3>1, <3>2 DEF Adds, Excused
    <3>4. j \in 1 .. Len(js) /\ j \in Len(is) + 1 .. Len(ks)
      BY <1>1, <3>3 DEF Adds
    <3>5. ks[j] = js[j]
      BY <3>4 DEF Adds
    <3>6. QED
      BY <3>3, <3>4, <3>5, Zenon
  <2>2. CASE ~(i <= Len(js))
    <3>1. i \in Len(js) + 1 .. Len(ks)
      BY <1>1, <2>2
    <3>2. PICK j \in Len(js) + 1 .. Len(ks) : TellsSlowProvider(ks[j])
      BY <3>1 DEF Adds, Excused
    <3>3. j \in Len(is) + 1 .. Len(ks)
      BY <1>1, <3>2 DEF Adds
    <3>4. QED
      BY <3>2, <3>3, Zenon
  <2>3. QED
    BY <2>1, <2>2
<1>5. QED
  BY <1>1, <1>2, <1>3, <1>4 DEF Adds

LEMMA AddsOnTop ==
  ASSUME NEW lane, NEW js, ASequence(js), NEW more, ASequence(more),
         \A x \in ToSet(more) : Allowed(lane, x), Paired(lane, ToSet(more))
  PROVE  Adds(lane, js, js \o more)
<1>1. PICK S, T : js \in Seq(S) /\ more \in Seq(T)
  BY DEF ASequence
<1>2. js \in Seq(S \cup T) /\ more \in Seq(S \cup T)
  BY <1>1, Wider
<1>3. /\ js \o more \in Seq(S \cup T) /\ Len(js) \in Nat /\ Len(more) \in Nat
      /\ Len(js \o more) = Len(js) + Len(more)
      /\ \A i \in 1 .. Len(js) : (js \o more)[i] = js[i]
      /\ \A i \in Len(js) + 1 .. Len(js) + Len(more) : (js \o more)[i] = more[i - Len(js)]
  BY <1>2
<1>4. ASSUME NEW i \in Len(js) + 1 .. Len(js \o more) PROVE Allowed(lane, (js \o more)[i])
  <2>1. i - Len(js) \in 1 .. Len(more) /\ (js \o more)[i] = more[i - Len(js)]
    BY <1>3
  <2>2. more[i - Len(js)] \in ToSet(more)
    BY <1>1, <2>1 DEF ToSet
  <2>3. QED
    BY <2>1, <2>2
<1>5. ASequence(js \o more)
  BY <1>3 DEF ASequence
<1>6. Excused(lane, js, js \o more)
  <2> SUFFICES ASSUME IsSlow(lane), NEW i \in Len(js) + 1 .. Len(js \o more),
                      (js \o more)[i].k = "Rebind"
               PROVE  \E j \in Len(js) + 1 .. Len(js \o more) : TellsSlowProvider((js \o more)[j])
    BY DEF Excused
  <2>1. i - Len(js) \in 1 .. Len(more) /\ (js \o more)[i] = more[i - Len(js)]
    BY <1>3
  <2>2. more[i - Len(js)] \in ToSet(more)
    BY <1>1, <2>1 DEF ToSet
  <2>3. PICK y \in ToSet(more) : TellsSlowProvider(y)
    BY <2>1, <2>2 DEF Paired
  <2>4. PICK k \in 1 .. Len(more) : y = more[k]
    BY <1>1, <2>3 DEF ToSet
  <2>5. Len(js) + k \in Len(js) + 1 .. Len(js \o more) /\ Len(js) + k - Len(js) = k
    BY <1>3, <2>4
  <2>6. (js \o more)[Len(js) + k] = y
    BY <1>3, <2>4, <2>5
  <2>7. QED
    BY <2>3, <2>5, <2>6, Zenon
<1>7. QED
  BY <1>3, <1>4, <1>5, <1>6 DEF Adds

LEMMA SparesTwice ==
  ASSUME NEW lane, NEW f, NEW g, Spares(lane, f, g), NEW h, Spares(lane, g, h)
  PROVE  Spares(lane, f, h)
  BY DEF Spares

LEMMA SparesKey ==
  ASSUME NEW lane, NEW f, NEW k, k[1] # Other(lane), NEW x
  PROVE  Spares(lane, f, [f EXCEPT ![k] = x])
  BY DEF Spares

LEMMA SparesSelf ==
  ASSUME NEW lane, NEW f
  PROVE  Spares(lane, f, f)
  BY DEF Spares

LEMMA ConfinedTwice ==
  ASSUME NEW lane, NEW v, NEW w, Confined(lane, v, w), NEW u, Confined(lane, w, u)
  PROVE  Confined(lane, v, u)
  BY AddsTwice, SparesTwice DEF Confined

LEMMA ConfinedJobs ==
  ASSUME NEW lane, NEW v, NEW w, Confined(lane, v, w)
  PROVE  DOMAIN w = SessionFields /\ ASequence(w.jobs)
  BY DEF Confined, Adds

\* A value of the lane, or of no lane, applied and saved.
LEMMA ConfinedValue ==
  ASSUME NEW lane, NEW v, NEW w, Confined(lane, v, w), NEW k, k[1] # Other(lane), NEW x, NEW y
  PROVE  Confined(lane, v, [w EXCEPT !.live[k] = x, !.file[k] = y])
<1>1. PICK u : u = [w EXCEPT !.live[k] = x, !.file[k] = y]
  OBVIOUS
<1>2. DOMAIN w = SessionFields /\ ASequence(w.jobs)
  BY ConfinedJobs
<1>3. /\ DOMAIN u = SessionFields /\ u.live = [w.live EXCEPT ![k] = x] /\ u.file = [w.file EXCEPT ![k] = y]
      /\ u.slowShown = w.slowShown /\ u.jobs = w.jobs
  BY <1>1, <1>2 DEF SessionFields
<1>4. Confined(lane, w, u)
  <2>1. Spares(lane, w.live, [w.live EXCEPT ![k] = x]) /\ Spares(lane, w.file, [w.file EXCEPT ![k] = y])
    BY SparesKey
  <2>2. Adds(lane, w.jobs, w.jobs)
    BY <1>2, AddsNothing
  <2>3. QED
    BY <1>3, <2>1, <2>2 DEF Confined
<1>5. Confined(lane, v, u)
  BY <1>4, ConfinedTwice
<1>6. QED
  BY <1>1, <1>5, Zenon

LEMMA ConfinedSend ==
  ASSUME NEW lane, NEW v, NEW w, Confined(lane, v, w), NEW js, ASequence(js),
         \A x \in ToSet(js) : Allowed(lane, x), Paired(lane, ToSet(js))
  PROVE  Confined(lane, v, Send(w, js))
<1>1. PICK u : u = Send(w, js)
  OBVIOUS
<1>2. DOMAIN w = SessionFields /\ ASequence(w.jobs)
  BY ConfinedJobs
<1>3. /\ DOMAIN u = SessionFields /\ u.live = w.live /\ u.file = w.file /\ u.slowShown = w.slowShown
      /\ u.jobs = w.jobs \/ u.jobs = w.jobs \o js
  BY <1>1, <1>2 DEF Send, SessionFields
<1>4. Adds(lane, w.jobs, u.jobs)
  BY <1>2, <1>3, AddsNothing, AddsOnTop
<1>5. Confined(lane, w, u)
  BY <1>3, <1>4, SparesSelf DEF Confined
<1>6. QED
  BY <1>1, <1>5, ConfinedTwice

LEMMA OneAllowed ==
  ASSUME NEW lane, NEW x, Allowed(lane, x), IsSlow(lane) => x.k # "Rebind"
  PROVE  /\ ASequence(<<x>>) /\ Paired(lane, ToSet(<<x>>))
         /\ \A y \in ToSet(<<x>>) : Allowed(lane, y)
<1>1. <<x>> \in Seq({x})
  OBVIOUS
<1>2. QED
  BY <1>1, One DEF ASequence, Paired

LEMMA RebindAllowed ==
  ASSUME NEW lane, NEW k \in {"Rebind", "ListModels", "ListSlowModels"}
  PROVE  Allowed(lane, Plain(k))
  BY DEF Allowed, Binding, Other, Plain, Job

LEMMA OptionAllowed ==
  ASSUME NEW lane, NEW key, key[1] = lane, NEW v
  PROVE  Allowed(lane, Option(key, v))
  BY DEF Allowed, Binding, Other, Option, Job

\* An option told, with the rebind a new provider needs.
LEMMA OptionSends ==
  ASSUME NEW lane, NEW key, key[1] = lane, NEW v, NEW also,
         IsSlow(lane) /\ also => key = <<"slow lane", "provider">>
  PROVE  LET js == <<Option(key, v)>> \o (IF also THEN <<Plain("Rebind")>> ELSE <<>>)
         IN  ASequence(js) /\ (\A x \in ToSet(js) : Allowed(lane, x)) /\ Paired(lane, ToSet(js))
<1>1. PICK a : a = Option(key, v)
  OBVIOUS
<1>2. PICK b : b = Plain("Rebind")
  OBVIOUS
<1>3. Allowed(lane, a) /\ Allowed(lane, b)
  BY <1>1, <1>2, OptionAllowed, RebindAllowed
<1>4. /\ ToSet(<<a>>) = {a} /\ ASequence(<<a>>)
      /\ ToSet(<<a, b>>) = {a, b} /\ ASequence(<<a, b>>)
  BY One, Two DEF ASequence
<1>5. <<a>> \o <<b>> = <<a, b>> /\ <<a>> \o <<>> = <<a>>
  BY <1>4, OneAndOne, NothingAdded
<1>6. a.k # "Rebind" /\ (IsSlow(lane) /\ also => TellsSlowProvider(a))
  BY <1>1 DEF TellsSlowProvider, Option, Job
<1>7. Paired(lane, {a}) /\ (also => Paired(lane, {a, b}))
  BY <1>6 DEF Paired
<1>8. CASE also
  BY <1>1, <1>2, <1>3, <1>4, <1>5, <1>7, <1>8
<1>9. CASE ~also
  BY <1>1, <1>3, <1>4, <1>5, <1>7, <1>9
<1>10. QED
  BY <1>8, <1>9

LEMMA ConfinedKeep ==
  ASSUME NEW lane, lane \in {"slow lane", "fast lane"}, NEW v, NEW w, Confined(lane, v, w),
         NEW key, key[1] = lane, NEW x, NEW y, NEW also,
         IsSlow(lane) /\ also => key = <<"slow lane", "provider">>
  PROVE  Confined(lane, v, Send(Keep(w, key, x),
                                <<Option(key, y)>> \o (IF also THEN <<Plain("Rebind")>> ELSE <<>>)))
<1>1. key[1] # Other(lane)
  BY DEF Other
<1>2. Confined(lane, v, Keep(w, key, x))
  BY <1>1, ConfinedValue DEF Keep
<1>3. PICK js : js = <<Option(key, y)>> \o (IF also THEN <<Plain("Rebind")>> ELSE <<>>)
  OBVIOUS
<1>4. ASequence(js) /\ (\A z \in ToSet(js) : Allowed(lane, z)) /\ Paired(lane, ToSet(js))
  BY <1>3, OptionSends
<1>5. QED
  BY <1>2, <1>3, <1>4, ConfinedSend, Zenon

\* A row of the lane, however it is applied.
LEMMA ApplyConfined ==
  ASSUME NEW lane, lane \in {"slow lane", "fast lane"}, NEW u, NEW w, Confined(lane, u, w), NEW name, NEW v
  PROVE  Confined(lane, u, Apply(w, lane, name, v))
<1> DEFINE key == <<lane, name>>
<1>1. key[1] = lane /\ key[1] # Other(lane)
  BY DEF Other
<1>2. ASSUME NEW x, NEW y PROVE Confined(lane, u, [w EXCEPT !.live[key] = x, !.file[key] = y])
  BY <1>1, ConfinedValue
<1>10. IsSlow(lane) /\ key[2] = "provider" => key = <<"slow lane", "provider">>
  BY DEF IsSlow
<1> HIDE DEF key
<1>3. Confined(lane, u, ApplySlow(w, key, v))
  BY <1>1, <1>10, ConfinedKeep DEF ApplySlow
<1>4. Confined(lane, u, ApplyNumber(w, key, v))
  BY <1>2 DEF ApplyNumber
<1>5. Confined(lane, u, ApplySwitch(w, key, v))
  BY <1>2 DEF ApplySwitch, Keep
<1>6. Confined(lane, u, ApplyEngine(w, key, v))
  BY <1>1, <1>10, ConfinedKeep DEF ApplyEngine
<1>7. Confined(lane, u, [w EXCEPT !.store = SetEnabled(@, v = "on")])
  <2>1. Aside(w, [w EXCEPT !.store = SetEnabled(@, v = "on")])
    BY ConfinedJobs DEF Aside, SessionFields
  <2>2. QED
    BY <2>1, ConfinedAside
<1>8. Apply(w, lane, name, v) \in
        {ApplySlow(w, key, v), ApplyNumber(w, key, v), ApplySwitch(w, key, v), ApplyEngine(w, key, v),
         [w EXCEPT !.store = SetEnabled(@, v = "on")]}
  <2>1. \A n \in {"provider", "thinking"} :
          n \notin Numeric /\ n \notin {"memory", "commentary", "expert", "working_bar", "record"}
    BY DEF Numeric
  <2>2. /\ \A n \in Numeric : n \notin {"memory", "commentary", "expert", "working_bar", "record"}
        /\ "memory" \notin {"commentary", "expert", "working_bar", "record"}
    BY DEF Numeric
  <2>3. CASE lane = "slow lane" /\ name \in {"provider", "thinking"}
    BY <2>1, <2>3 DEF Apply, key
  <2>4. CASE name \in Numeric
    BY <2>1, <2>2, <2>4 DEF Apply, key
  <2>5. CASE name = "memory"
    BY <2>1, <2>2, <2>5 DEF Apply
  <2>6. CASE name \in {"commentary", "expert", "working_bar", "record"}
    BY <2>1, <2>2, <2>6 DEF Apply, key
  <2>7. CASE /\ ~(lane = "slow lane" /\ name \in {"provider", "thinking"}) /\ name \notin Numeric
             /\ name # "memory" /\ name \notin {"commentary", "expert", "working_bar", "record"}
    BY <2>7 DEF Apply, key
  <2>8. QED
    BY <2>3, <2>4, <2>5, <2>6, <2>7
<1>9. QED
  BY <1>3, <1>4, <1>5, <1>6, <1>7, <1>8

\* Steps that touch the menu, the pins or the store.
LEMMA BrowsersAside ==
  ASSUME NEW w, DOMAIN w = SessionFields, NEW kind, NEW req, NEW readable
  PROVE  /\ Aside(w, PinFromField(w, kind, req, readable)) /\ Aside(w, OpenPane(w, kind, req))
         /\ Aside(w, DropPin(w, kind, req)) /\ Aside(w, MemoryFromField(w, kind, req))
         /\ Aside(w, ForgetSlot(w, kind, req))
<1>1. /\ Aside(w, w)
      /\ \A n : Aside(w, [w EXCEPT !.menu = n])
      /\ \A n, p : Aside(w, [w EXCEPT !.pins = p, !.menu = n])
      /\ \A n, s : Aside(w, [w EXCEPT !.store = s, !.menu = n])
  BY DEF Aside, SessionFields
<1>2. Aside(w, PinFromField(w, kind, req, readable))
  BY <1>1 DEF PinFromField, Aside, SessionFields
<1>3. Aside(w, OpenPane(w, kind, req))
  <2>1. OpenPane(w, kind, req) \in {w, [w EXCEPT !.menu = [@ EXCEPT !.viewing = req.view]]}
    BY DEF OpenPane
  <2>2. QED
    BY <1>1, <2>1
<1>4. Aside(w, DropPin(w, kind, req))
  BY <1>1 DEF DropPin, Aside, SessionFields
<1>5. Aside(w, MemoryFromField(w, kind, req))
  BY <1>1 DEF MemoryFromField, Aside, SessionFields
<1>6. Aside(w, ForgetSlot(w, kind, req))
  BY <1>1 DEF ForgetSlot, Aside, SessionFields
<1>7. QED
  BY <1>2, <1>3, <1>4, <1>5, <1>6

LEMMA MenusAside ==
  ASSUME NEW w, DOMAIN w = SessionFields, NEW name, NEW req
  PROVE  Aside(w, Field(w, name)) /\ Aside(w, OpenDropDown(w, name)) /\ Aside(w, Navigate(w, req))
<1>1. Aside(w, w) /\ \A n : Aside(w, [w EXCEPT !.menu = n])
  BY DEF Aside, SessionFields
<1>2. Aside(w, Field(w, name))
  BY DEF Field, Aside, SessionFields
<1>3. Aside(w, OpenDropDown(w, name))
  <2>1. PICK n : OpenDropDown(w, name) = [w EXCEPT !.menu = n]
    BY DEF OpenDropDown
  <2>2. QED
    BY <1>1, <2>1, Zenon
<1>4. Aside(w, Navigate(w, req))
  <2>1. ASSUME NEW u, Aside(w, u), NEW g, NEW from PROVE Aside(w, Enter(u, g, from))
    <3>1. PICK n : Enter(u, g, from) = [u EXCEPT !.menu = n]
      BY DEF Enter
    <3>2. Aside(w, [u EXCEPT !.menu = n])
      BY <2>1 DEF Aside, SessionFields
    <3>3. QED
      BY <3>1, <3>2, Zenon
  <2>2. PICK u : u = [w EXCEPT !.menu = [Open("Settings") EXCEPT !.loaded = TRUE]]
    OBVIOUS
  <2>3. Aside(w, u)
    BY <1>1, <2>2
  <2>4. Navigate(w, req) \in {Enter(u, w.menu.parent.group, Root), Enter(w, Root, w.menu.group),
                              Enter(w, req.into, Root), w}
    BY <2>2 DEF Navigate
  <2>5. QED
    BY <1>1, <2>1, <2>3, <2>4
<1>5. QED
  BY <1>2, <1>3, <1>4

\* A number typed is of no lane.
LEMMA TypedConfined ==
  ASSUME NEW lane, lane \in {"slow lane", "fast lane"}, NEW v, NEW w, Confined(lane, v, w), NEW req
  PROVE  Confined(lane, v, TypeSetting(w, req))
<1>1. CASE req.typedRow = ""
  BY <1>1 DEF TypeSetting
<1>2. CASE req.typedRow # ""
  <2>1. PICK u : u = StoreTyped(w, req.typedRow, req.typed)
    OBVIOUS
  <2>2. Confined(lane, v, u)
    <3>1. ASSUME NEW n PROVE Confined(lane, v, [w EXCEPT !.store = SetLimit(w.store, n)])
      <4>1. Aside(w, [w EXCEPT !.store = SetLimit(w.store, n)])
        BY ConfinedJobs DEF Aside, SessionFields
      <4>2. QED
        BY <4>1, ConfinedAside
    <3>2. CASE req.typedRow = "limit" /\ IsNumber(req.typed)
      <4>1. u = [w EXCEPT !.store = SetLimit(w.store, Number(req.typed))]
        BY <2>1, <3>2, ConfinedJobs DEF StoreTyped, Numeric, SessionFields
      <4>2. QED
        BY <3>1, <4>1
    <3>3. CASE req.typedRow \in Numeric /\ IsNumber(req.typed)
      <4>1. PICK k, x : u = [w EXCEPT !.live[k] = x, !.file[k] = x] /\ k = TypedKey(req.typedRow)
        BY <2>1, <3>3 DEF StoreTyped, Numeric
      <4>2. k[1] # Other(lane)
        BY <4>1 DEF TypedKey, Other
      <4>3. Confined(lane, v, [w EXCEPT !.live[k] = x, !.file[k] = x])
        BY <4>2, ConfinedValue
      <4>4. QED
        BY <4>1, <4>3, Zenon
    <3>4. CASE ~(req.typedRow = "limit" /\ IsNumber(req.typed))
               /\ ~(req.typedRow \in Numeric /\ IsNumber(req.typed))
      BY <2>1, <3>4 DEF StoreTyped
    <3>5. QED
      BY <3>2, <3>3, <3>4
  <2>3. PICK n : TypeSetting(w, req) = [u EXCEPT !.menu = n]
    BY <1>2, <2>1 DEF TypeSetting
  <2>4. Aside(u, [u EXCEPT !.menu = n])
    BY <2>2, ConfinedJobs DEF Aside, SessionFields
  <2>5. Confined(lane, v, [u EXCEPT !.menu = n])
    BY <2>2, <2>4, ConfinedAside
  <2>6. QED
    BY <2>3, <2>5, Zenon
<1>3. QED
  BY <1>1, <1>2

LEMMA ApplyRowConfined ==
  ASSUME NEW lane, lane \in {"slow lane", "fast lane"}, NEW v, NEW w, Confined(lane, v, w), NEW name, NEW x
  PROVE  Confined(lane, v, ApplyRow(w, lane, name, x).w)
<1>1. CASE x = Custom
  <2>1. ApplyRow(w, lane, name, x).w = Field(w, name)
    BY <1>1 DEF ApplyRow, Choice
  <2>2. QED
    BY <2>1, ConfinedJobs, MenusAside, ConfinedAside
<1>2. CASE x # Custom
  <2>1. PICK u : u = Apply(w, lane, name, x)
    OBVIOUS
  <2>2. Confined(lane, v, u)
    BY <2>1, ApplyConfined
  <2>3. PICK n : ApplyRow(w, lane, name, x).w = [u EXCEPT !.menu = n]
    <3>1. PICK its : its = SettingsItems(u, u.menu.group)
      OBVIOUS
    <3>2. ApplyRow(w, lane, name, x).w = [u EXCEPT !.menu = [@ EXCEPT !.items = its]]
      BY <1>2, <2>1, <3>1 DEF ApplyRow, Choice
    <3>3. QED
      BY <3>2
  <2>4. Aside(u, [u EXCEPT !.menu = n])
    BY <2>2, ConfinedJobs DEF Aside, SessionFields
  <2>5. Confined(lane, v, [u EXCEPT !.menu = n])
    BY <2>2, <2>4, ConfinedAside
  <2>6. QED
    BY <2>3, <2>5, Zenon
<1>3. QED
  BY <1>1, <1>2

\* A menu of a lane shows that lane's rows, or opens on one of them.
LEMMA RowsOfTheLane ==
  ASSUME NEW m, Rooted(m), NEW lane, lane \in {"slow lane", "fast lane"}, In(m, lane)
  PROVE  /\ m.kind = "Settings" => m.group = lane
         /\ m.kind = "ValuePick" => m.valueRow[1] = lane
         /\ m.kind = "Model" => lane = "fast lane"
         /\ m.kind = "SlowModel" => lane = "slow lane"
<1>1. NoParent.group = Root /\ lane # Root
  BY DEF NoParent, Root
<1>2. lane = m.group \/ lane = m.parent.group
  BY DEF In
<1>3. m.kind = "Settings" => m.parent.group = Root
  BY <1>1 DEF Rooted
<1>4. m.kind # "Settings" => m.group = Root
  BY DEF Rooted
<1>5. m.kind # "Settings" => m.parent.group = lane
  BY <1>1, <1>2, <1>4
<1>6. m.kind = "Settings" => m.group = lane
  BY <1>1, <1>2, <1>3
<1>7. /\ m.kind = "ValuePick" => m.valueRow[1] = m.parent.group
      /\ m.kind = "Model" => m.parent.group # "slow lane"
      /\ m.kind = "SlowModel" => m.parent.group # "fast lane"
  BY DEF Rooted
<1>8. QED
  BY <1>5, <1>6, <1>7

LEMMA CommitConfined ==
  ASSUME NEW m, Rooted(m), NEW lane, lane \in {"slow lane", "fast lane"}, In(m, lane),
         NEW v, NEW w, Stays(m, w), Confined(lane, v, w), NEW req, Heads(m, req)
  PROVE  Confined(lane, v, Commit(w, m.kind, req).w)
<1> DEFINE row    == req.committed
           g      == w.menu.group
           values == RowValues(g, row.n)
           c      == Commit(w, m.kind, req)
<1>1. g = m.group /\ w.menu.valueRow = m.valueRow
  BY DEF Stays, Home
<1>2. \A then : Choice(w, then).w = w
  BY DEF Choice
<1>3. CASE req.picked # NoRow
  <2>1. m.kind = "ValuePick"
    BY <1>3 DEF Heads
  <2>2. w.menu.valueRow[1] = lane
    BY <1>1, <2>1, RowsOfTheLane
  <2>3. c = ApplyRow(w, lane, w.menu.valueRow[2], Label(req.picked))
    BY <1>3, <2>2 DEF Commit
  <2>4. QED
    BY <2>3, ApplyRowConfined
<1>4. CASE req.picked = NoRow /\ (m.kind # "Settings" \/ row = NoRow)
  BY <1>2, <1>4 DEF Commit
<1>5. CASE req.picked = NoRow /\ m.kind = "Settings" /\ row # NoRow
  <2>0. Len(values) \in Nat
    BY WordsOffered, LengthOfASequence, Zenon
  <2>1. g = lane
    BY <1>1, <1>5, RowsOfTheLane
  <2>2. c.w \in {w, Field(w, row.n), ApplyRow(w, lane, row.n, Cycled(values, row.v)).w}
    <3> HIDE DEF values
    <3>1. CASE row.n \in TextEntry
      <4>1. c = Choice(Field(w, row.n), "on")
        BY <1>5, <3>1 DEF Commit, TextEntry, OpensMenu
      <4>2. \A u : Choice(u, "on").w = u
        BY DEF Choice
      <4>3. c.w = Field(w, row.n)
        BY <4>1, <4>2, Zenon
      <4>4. QED
        BY <4>3
    <3>2. CASE row.n \in OpensMenu
      <4>1. c = Choice(w, IF g = "slow lane" THEN "slow picker" ELSE "picker")
        BY <1>5, <3>2 DEF Commit, TextEntry, OpensMenu
      <4>2. QED
        BY <1>2, <4>1
    <3>3. CASE row.n \notin TextEntry \cup OpensMenu /\ Len(values) > 2 /\ ~(Len(values) \in 1 .. 2)
      <4>1. c = Choice(w, "values")
        BY <1>5, <3>3 DEF Commit, values
      <4>2. QED
        BY <1>2, <4>1
    <3>4. CASE row.n \notin TextEntry \cup OpensMenu /\ Len(values) \in 1 .. 2 /\ ~(Len(values) > 2)
      <4>1. c = ApplyRow(w, g, row.n, Cycled(values, row.v))
        BY <1>5, <3>4 DEF Commit, values
      <4>2. QED
        BY <2>1, <4>1
    <3>5. CASE row.n \notin TextEntry \cup OpensMenu /\ ~(Len(values) > 2) /\ Len(values) \notin 1 .. 2
      <4>1. c = Choice(w, "on")
        BY <1>5, <3>5 DEF Commit, values
      <4>2. QED
        BY <1>2, <4>1
    <3>6. ~(Len(values) > 2 /\ Len(values) \in 1 .. 2)
      BY <2>0, MoreThanTwo, Zenon
    <3>7. QED
      BY <3>1, <3>2, <3>3, <3>4, <3>5, <3>6, Zenon
  <2>3. Confined(lane, v, Field(w, row.n))
    BY ConfinedJobs, MenusAside, ConfinedAside
  <2>4. Confined(lane, v, ApplyRow(w, lane, row.n, Cycled(values, row.v)).w)
    BY ApplyRowConfined
  <2>5. QED
    BY <2>2, <2>3, <2>4, Zenon
<1>6. QED
  BY <1>3, <1>4, <1>5

LEMMA BindSlowConfined ==
  ASSUME NEW kind, NEW lane, kind = "SlowModel" => lane = "slow lane", NEW v, NEW w, Confined(lane, v, w),
         NEW req
  PROVE  Confined(lane, v, BindSlowModel(w, kind, req))
<1>1. CASE kind # "SlowModel" \/ req.committed = NoRow \/ ~engine
  BY <1>1 DEF BindSlowModel
<1>2. CASE ~(kind # "SlowModel" \/ req.committed = NoRow \/ ~engine)
  <2>1. PICK job : job = Job("SetSlowModel", ModelKey, req.committed.n)
    OBVIOUS
  <2>2. PICK u : u = Send(w, <<job>>)
    OBVIOUS
  <2>3. Allowed(lane, job) /\ job.k # "Rebind"
    BY <1>2, <2>1 DEF Allowed, Binding, Other, Job
  <2>4. Confined(lane, v, u)
    BY <2>2, <2>3, OneAllowed, ConfinedSend
  <2>5. BindSlowModel(w, kind, req) = [u EXCEPT !.slowShown = req.committed.n]
    BY <1>2, <2>1, <2>2 DEF BindSlowModel
  <2>6. PICK t : t = [u EXCEPT !.slowShown = req.committed.n]
    OBVIOUS
  <2>7. DOMAIN t = SessionFields /\ t.live = u.live /\ t.file = u.file /\ t.jobs = u.jobs
    BY <2>4, <2>6, ConfinedJobs DEF SessionFields
  <2>8. lane # "fast lane"
    BY <1>2
  <2>9. Confined(lane, v, t)
    BY <2>4, <2>7, <2>8 DEF Confined
  <2>10. QED
    BY <2>5, <2>6, <2>9
<1>3. QED
  BY <1>1, <1>2

LEMMA BindFastConfined ==
  ASSUME NEW kind, NEW lane, kind = "Model" => lane = "fast lane", NEW v, NEW w, Confined(lane, v, w),
         NEW req
  PROVE  Confined(lane, v, BindFastModel(w, kind, req))
<1> DEFINE name == req.committed.n
<1>1. CASE kind # "Model" \/ req.committed = NoRow \/ ~engine
  BY <1>1 DEF BindFastModel
<1>2. CASE ~(kind # "Model" \/ req.committed = NoRow \/ ~engine)
  <2>1. PICK a, b : a = Plain("Rebind") /\ b = Job("SetModel", ModelKey, name)
    OBVIOUS
  <2>2. PICK t, u : t = Send(w, <<a>>) /\ u = Send(w, <<b>>)
    OBVIOUS
  <2>3. Allowed(lane, a) /\ Allowed(lane, b)
    BY <1>2, <2>1, RebindAllowed DEF Allowed, Binding, Other, Job
  <2>4. Confined(lane, v, t) /\ Confined(lane, v, u)
    <3>1. ~IsSlow(lane)
      BY <1>2 DEF IsSlow
    <3>2. QED
      BY <2>2, <2>3, <3>1, OneAllowed, ConfinedSend
  <2>5. ASSUME NEW x, Confined(lane, v, x), NEW y, NEW p
        PROVE  Confined(lane, v, [x EXCEPT !.file[ModelKey] = y, !.probation = p])
    <3>1. PICK z : z = [x EXCEPT !.file[ModelKey] = y, !.probation = p]
      OBVIOUS
    <3>2. /\ DOMAIN z = SessionFields /\ z.live = x.live /\ z.file = [x.file EXCEPT ![ModelKey] = y]
          /\ z.slowShown = x.slowShown /\ z.jobs = x.jobs
      BY <2>5, <3>1, ConfinedJobs DEF SessionFields
    <3>3. ModelKey[1] # Other(lane)
      BY <1>2 DEF ModelKey, Other
    <3>4. Spares(lane, x.file, [x.file EXCEPT ![ModelKey] = y])
      BY <3>3, SparesKey
    <3>5. Spares(lane, v.file, x.file)
      BY <2>5 DEF Confined
    <3>6. Spares(lane, v.file, z.file)
      <4>1. Spares(lane, v.file, [x.file EXCEPT ![ModelKey] = y])
        BY <3>4, <3>5, SparesTwice
      <4>2. QED
        BY <3>2, <4>1, Zenon
    <3>7. Confined(lane, v, z)
      BY <2>5, <3>2, <3>6 DEF Confined
    <3>8. QED
      BY <3>1, <3>7, Zenon
  <2>6. CASE name = "auto"
    <3>1. PICK y : y = [t EXCEPT !.file[ModelKey] = Absent]
      OBVIOUS
    <3>2. BindFastModel(w, kind, req) = y
      BY <1>2, <2>1, <2>2, <2>6, <3>1 DEF BindFastModel
    <3>3. y = [t EXCEPT !.file[ModelKey] = Absent, !.probation = t.probation]
      BY <2>4, <3>1, ConfinedJobs DEF SessionFields
    <3>4. Confined(lane, v, [t EXCEPT !.file[ModelKey] = Absent, !.probation = t.probation])
      BY <2>4, <2>5
    <3>5. QED
      BY <3>2, <3>3, <3>4, Zenon
  <2>7. CASE name # "auto"
    <3>1. BindFastModel(w, kind, req) = [u EXCEPT !.file[ModelKey] = name, !.probation = name]
      BY <1>2, <2>1, <2>2, <2>7 DEF BindFastModel
    <3>2. Confined(lane, v, [u EXCEPT !.file[ModelKey] = name, !.probation = name])
      BY <2>4, <2>5
    <3>3. QED
      BY <3>1, <3>2, Zenon
  <2>8. QED
    BY <2>6, <2>7
<1>3. QED
  BY <1>1, <1>2

LEMMA PickerConfined ==
  ASSUME NEW lane, NEW v, NEW w, Confined(lane, v, w), NEW slow, NEW g
  PROVE  Confined(lane, v, OpenPicker(w, slow, g))
<1>1. CASE ~engine
  BY <1>1 DEF OpenPicker
<1>2. CASE engine
  <2>1. PICK job : job = Plain(IF slow THEN "ListSlowModels" ELSE "ListModels")
    OBVIOUS
  <2>2. PICK u : u = Send(w, <<job>>)
    OBVIOUS
  <2>3. Confined(lane, v, u)
    <3>1. Allowed(lane, job) /\ job.k # "Rebind"
      BY <2>1, RebindAllowed DEF Plain, Job
    <3>2. QED
      BY <2>2, <3>1, OneAllowed, ConfinedSend
  <2>4. PICK n : OpenPicker(w, slow, g) = [u EXCEPT !.menu = n]
    BY <1>2, <2>1, <2>2 DEF OpenPicker
  <2>5. Aside(u, [u EXCEPT !.menu = n])
    BY <2>3, ConfinedJobs DEF Aside, SessionFields
  <2>6. Confined(lane, v, [u EXCEPT !.menu = n])
    BY <2>3, <2>5, ConfinedAside
  <2>7. QED
    BY <2>4, <2>6, Zenon
<1>3. QED
  BY <1>1, <1>2

LEMMA FinishConfined ==
  ASSUME NEW m, Rooted(m), NEW lane, lane \in {"slow lane", "fast lane"}, In(m, lane),
         NEW v, NEW c, Confined(lane, v, c.w), NEW req, NEW g
  PROVE  Confined(lane, v, Finish(c, m.kind, req, g))
<1>1. PICK s : s = ForgetSlot(c.w, m.kind, req)
  OBVIOUS
<1>2. PICK t : t = BindSlowModel(s, m.kind, req)
  OBVIOUS
<1>3. PICK a : a = BindFastModel(t, m.kind, req)
  OBVIOUS
<1>4. Confined(lane, v, s)
  BY <1>1, ConfinedJobs, BrowsersAside, ConfinedAside
<1>5. Confined(lane, v, t)
  BY <1>2, <1>4, RowsOfTheLane, BindSlowConfined
<1>6. Confined(lane, v, a)
  BY <1>3, <1>5, RowsOfTheLane, BindFastConfined
<1>7. PICK b : b = CASE c.then = "values"      -> OpenDropDown(a, req.committed.n)
                     [] c.then = "picker"      -> OpenPicker(a, FALSE, g)
                     [] c.then = "slow picker" -> OpenPicker(a, TRUE, g)
                     [] OTHER                  -> a
  OBVIOUS
<1>8. Confined(lane, v, b)
  <2>1. Confined(lane, v, OpenDropDown(a, req.committed.n))
    BY <1>6, ConfinedJobs, MenusAside, ConfinedAside
  <2>2. Confined(lane, v, OpenPicker(a, FALSE, g)) /\ Confined(lane, v, OpenPicker(a, TRUE, g))
    BY <1>6, PickerConfined
  <2>3. b \in {OpenDropDown(a, req.committed.n), OpenPicker(a, FALSE, g), OpenPicker(a, TRUE, g), a}
    BY <1>7
  <2>4. QED
    BY <1>6, <2>1, <2>2, <2>3
<1>9. PICK n : n = Navigate(b, req)
  OBVIOUS
<1>10. Confined(lane, v, n)
  BY <1>8, <1>9, ConfinedJobs, MenusAside, ConfinedAside
<1>11. Confined(lane, v, [n EXCEPT !.menu = NoMenu])
  <2>1. Aside(n, [n EXCEPT !.menu = NoMenu])
    BY <1>10, ConfinedJobs DEF Aside, SessionFields
  <2>2. QED
    BY <1>10, <2>1, ConfinedAside
<1>12. Finish(c, m.kind, req, g) \in {c.w, [n EXCEPT !.menu = NoMenu], n}
  BY <1>1, <1>2, <1>3, <1>7, <1>9, Zenon DEF Finish
<1>13. QED
  BY <1>10, <1>11, <1>12

LEMMA AppliedConfined ==
  ASSUME NEW m, Rooted(m), NEW lane, lane \in {"slow lane", "fast lane"}, In(m, lane),
         NEW w, Stays(m, w), ASequence(w.jobs), NEW req, Heads(m, req), NEW g, NEW readable
  PROVE  Confined(lane, w, Applied(w, m.kind, req, g, readable))
<1>1. PICK a : a = PinFromField(w, m.kind, req, readable)
  OBVIOUS
<1>2. PICK p : p = OpenPane(a, m.kind, req)
  OBVIOUS
<1>3. PICK d : d = DropPin(p, m.kind, req)
  OBVIOUS
<1>4. PICK b : b = MemoryFromField(d, m.kind, req)
  OBVIOUS
<1>5. PICK t : t = TypeSetting(b, req)
  OBVIOUS
<1>6. PICK c : c = Commit(t, m.kind, req)
  OBVIOUS
<1>7. Stays(m, t)
  BY <1>1, <1>2, <1>3, <1>4, <1>5, PinFromFieldStays, OpenPaneStays, DropPinStays,
     MemoryFromFieldStays, TypeSettingStays
<1>8. Confined(lane, w, w)
  BY AddsNothing, SparesSelf DEF Confined, Stays
<1>9. Confined(lane, w, a)
  BY <1>1, <1>8, ConfinedJobs, BrowsersAside, ConfinedAside
<1>10. Confined(lane, w, p)
  BY <1>2, <1>9, ConfinedJobs, BrowsersAside, ConfinedAside
<1>11. Confined(lane, w, d)
  BY <1>3, <1>10, ConfinedJobs, BrowsersAside, ConfinedAside
<1>12. Confined(lane, w, b)
  BY <1>4, <1>11, ConfinedJobs, BrowsersAside, ConfinedAside
<1>13. Confined(lane, w, t)
  BY <1>5, <1>12, TypedConfined
<1>14. Confined(lane, w, c.w)
  BY <1>6, <1>7, <1>13, CommitConfined
<1>15. Confined(lane, w, Finish(c, m.kind, req, g))
  BY <1>14, FinishConfined
<1>16. Applied(w, m.kind, req, g, readable) = Finish(c, m.kind, req, g)
  BY <1>1, <1>2, <1>3, <1>4, <1>5, <1>6, Zenon DEF Applied
<1>17. QED
  BY <1>15, <1>16, Zenon

-----------------------------------------------------------------------------

Stepped(lane) ==
  /\ Spares(lane, live, live') /\ Spares(lane, file, file')
  /\ lane = "fast lane" => slowShown' = slowShown
  /\ Adds(lane, jobs, jobs')

LEMMA KeysConfined ==
  ASSUME TreeInv, SavedInv, NEW chunk \in Chunks, NEW readable, MenuKeys(chunk, readable),
         NEW lane \in {"slow lane", "fast lane"}, In(menu, lane)
  PROVE  Stepped(lane)
<1>1. PICK s : s = AfterKeys(menu, chunk)
  OBVIOUS
<1>2. PICK w : w = [menu |-> s.m, live |-> live, file |-> file, store |-> store, pins |-> pins,
                    slowShown |-> slowShown, probation |-> probation, jobs |-> jobs]
  OBVIOUS
<1>3. Steered(menu, s)
  BY <1>1, AfterKeysSteer DEF TreeInv
<1>4. Stays(menu, w) /\ Heads(menu, s.req)
  BY <1>2, <1>3 DEF Steered, Stays, SessionFields
<1>5. ASequence(w.jobs)
  BY <1>2 DEF SavedInv, Sound
<1>6. PICK u : u = Applied(w, menu.kind, s.req, menu.group, readable)
  OBVIOUS
<1>7. Confined(lane, w, u)
  BY <1>4, <1>5, <1>6, AppliedConfined DEF TreeInv
<1>8. live' = u.live /\ file' = u.file /\ slowShown' = u.slowShown /\ jobs' = u.jobs
  BY <1>1, <1>2, <1>6 DEF MenuKeys
<1>9. w.live = live /\ w.file = file /\ w.slowShown = slowShown /\ w.jobs = jobs
  BY <1>2
<1>10. QED
  BY <1>7, <1>8, <1>9 DEF Confined, Stepped

LEMMA StillConfined ==
  ASSUME SavedInv, UNCHANGED <<live, file, slowShown, jobs>>, NEW lane
  PROVE  Stepped(lane)
  BY AddsNothing, SparesSelf DEF Stepped, SavedInv, Sound

LEMMA StepConfined ==
  ASSUME TreeInv, SavedInv, [Next]_vars, menu # NoMenu, menu' # menu,
         NEW lane \in {"slow lane", "fast lane"}, In(menu, lane)
  PROVE  Stepped(lane)
<1>1. CASE AtKeyboard
  <2>1. ASSUME NEW kind, OpenMenu(kind) PROVE FALSE
    BY <2>1 DEF OpenMenu
  <2>2. ASSUME NEW name, NEW save, NameModel(name, save) PROVE FALSE
    BY <2>2 DEF NameModel
  <2>3. ASSUME NEW name, NameSlowModel(name) PROVE FALSE
    BY <2>3 DEF NameSlowModel
  <2>4. ASSUME NEW c, MemoryCommand(c) PROVE FALSE
    BY <2>4 DEF MemoryCommand
  <2>5. QED
    BY <1>1, <2>1, <2>2, <2>3, <2>4, KeysConfined DEF AtKeyboard
<1>2. CASE FromEngine
  <2>1. CASE EngineLost
    BY <2>1 DEF EngineLost
  <2>2. ASSUME NEW a \in Answers, AnswerRewrites(a[1], a[2]) PROVE FALSE
    BY <2>2 DEF AnswerRewrites
  <2>3. CASE ReadEvent
    <3>1. UNCHANGED <<live, file, slowShown, jobs>>
      BY <2>3 DEF ReadEvent, ReadReady, ReadCaps, ReadModels, settings
    <3>2. QED
      BY <3>1, StillConfined
  <2>4. QED
    BY <1>2, <2>1, <2>2, <2>3 DEF FromEngine
<1>3. CASE UNCHANGED sessionVars
  BY <1>3 DEF sessionVars
<1>4. CASE UNCHANGED vars
  BY <1>4 DEF vars, sessionVars
<1>5. QED
  BY <1>1, <1>2, <1>3, <1>4 DEF Next

\* What was sent is what stands after the jobs that were there.
LEMMA SentAreAdded ==
  ASSUME NEW lane, Adds(lane, jobs, jobs'), NEW i \in DOMAIN Sent
  PROVE  Allowed(lane, Sent[i])
<1>1. PICK S, T : jobs \in Seq(S) /\ jobs' \in Seq(T)
  BY DEF Adds, ASequence
<1>2. /\ Len(jobs) \in Nat /\ Len(jobs') \in Nat /\ i \in 1 .. Len(jobs') - Len(jobs)
      /\ Sent[i] = jobs'[Len(jobs) + i]
  BY <1>1 DEF Sent, Adds
<1>3. Len(jobs) + i \in Len(jobs) + 1 .. Len(jobs')
  BY <1>2
<1>4. QED
  BY <1>2, <1>3 DEF Adds

\* Of the jobs sent for the slow lane, none unbinds the fast one but with a provider.
LEMMA SentArePaired ==
  ASSUME NEW lane, IsSlow(lane), Adds(lane, jobs, jobs'), NEW i \in DOMAIN Sent, Sent[i].k = "Rebind"
  PROVE  \E j \in DOMAIN Sent : TellsSlowProvider(Sent[j])
<1>1. PICK S, T : jobs \in Seq(S) /\ jobs' \in Seq(T)
  BY DEF Adds, ASequence
<1>2. /\ Len(jobs) \in Nat /\ Len(jobs') \in Nat /\ DOMAIN Sent = 1 .. Len(jobs') - Len(jobs)
      /\ \A j \in DOMAIN Sent : Sent[j] = jobs'[Len(jobs) + j]
  BY <1>1 DEF Sent, Adds
<1>3. Len(jobs) + i \in Len(jobs) + 1 .. Len(jobs') /\ jobs'[Len(jobs) + i].k = "Rebind"
  BY <1>2
<1>4. PICK k \in Len(jobs) + 1 .. Len(jobs') : TellsSlowProvider(jobs'[k])
  BY <1>3 DEF Adds, Excused
<1>5. k - Len(jobs) \in DOMAIN Sent /\ Len(jobs) + (k - Len(jobs)) = k
  BY <1>2, <1>4
<1>6. Sent[k - Len(jobs)] = jobs'[k]
  BY <1>2, <1>5
<1>7. QED
  BY <1>4, <1>5, <1>6, Zenon

LEMMA SparedKeys ==
  ASSUME SavedInv, NEW lane, Stepped(lane)
  PROVE  /\ Untouched(Other(lane))
         /\ Other(lane) = "fast lane" => file'[ModelKey] = file[ModelKey]
<1>1. DOMAIN live = Keys /\ DOMAIN file = Keys \cup {ModelKey}
  BY DEF SavedInv, Sound, Saved
<1>2. ModelKey[1] = "fast lane"
  BY DEF ModelKey
<1>3. QED
  BY <1>1, <1>2 DEF Stepped, Spares, Untouched

\* Nothing chosen for one lane reaches the other: not its settings, not what is
\* saved of them, not its model, not an option of its worker, whatever rows of
\* the same names the two groups have (session.rs: a row is (group, name)); but
\* for the Rebind that a provider picked for the slow lane brings, no row of the
\* slow lane unbinds the fast one.
THEOREM LanesApart == Spec => LanesNotCrossed
<1>1. ASSUME TreeInv, SavedInv, [Next]_vars, menu # NoMenu, menu' # menu, In(menu, "slow lane")
      PROVE  /\ Untouched("fast lane") /\ file'[ModelKey] = file[ModelKey]
             /\ \A i \in DOMAIN Sent :
                  Sent[i].k # "SetModel" /\ (Sent[i].k = "SetOption" => Sent[i].key[1] = "slow lane")
             /\ (\E i \in DOMAIN Sent : Sent[i].k = "Rebind") =>
                  \E i \in DOMAIN Sent : TellsSlowProvider(Sent[i])
  <2>1. Stepped("slow lane") /\ Other("slow lane") = "fast lane" /\ Binding("fast lane") = "SetModel"
    BY <1>1, StepConfined DEF Other, Binding
  <2>2. \A i \in DOMAIN Sent : Allowed("slow lane", Sent[i])
    BY <2>1, SentAreAdded DEF Stepped
  <2>3. ASSUME NEW i \in DOMAIN Sent, Sent[i].k = "Rebind"
        PROVE  \E j \in DOMAIN Sent : TellsSlowProvider(Sent[j])
    <3>1. IsSlow("slow lane")
      BY DEF IsSlow
    <3>2. QED
      BY <2>1, <2>3, <3>1, SentArePaired DEF Stepped
  <2>4. Untouched("fast lane") /\ file'[ModelKey] = file[ModelKey]
    BY <1>1, <2>1, SparedKeys
  <2> HIDE DEF Sent, TellsSlowProvider, Untouched
  <2>5. \A i \in DOMAIN Sent :
          Sent[i].k # "SetModel" /\ (Sent[i].k = "SetOption" => Sent[i].key[1] = "slow lane")
    BY <2>1, <2>2 DEF Allowed
  <2>6. QED
    BY <2>3, <2>4, <2>5, Zenon
<1>2. ASSUME TreeInv, SavedInv, [Next]_vars, menu # NoMenu, menu' # menu, In(menu, "fast lane")
      PROVE  /\ Untouched("slow lane") /\ slowShown' = slowShown
             /\ \A i \in DOMAIN Sent :
                  Sent[i].k # "SetSlowModel" /\ (Sent[i].k = "SetOption" => Sent[i].key[1] = "fast lane")
  <2>1. Stepped("fast lane") /\ Other("fast lane") = "slow lane" /\ Binding("slow lane") = "SetSlowModel"
    BY <1>2, StepConfined DEF Other, Binding
  <2>2. \A i \in DOMAIN Sent : Allowed("fast lane", Sent[i])
    BY <2>1, SentAreAdded DEF Stepped
  <2>3. QED
    BY <1>2, <2>1, <2>2, SparedKeys DEF Allowed, Stepped
<1>3. ASSUME TreeInv, SavedInv, [Next]_vars
      PROVE  [(menu # NoMenu /\ menu' # menu /\ Len(jobs') >= Len(jobs)) =>
                /\ In(menu, "slow lane") =>
                     /\ Untouched("fast lane") /\ file'[ModelKey] = file[ModelKey]
                     /\ \A i \in DOMAIN Sent :
                          Sent[i].k # "SetModel" /\ (Sent[i].k = "SetOption" => Sent[i].key[1] = "slow lane")
                     /\ (\E i \in DOMAIN Sent : Sent[i].k = "Rebind") =>
                          \E i \in DOMAIN Sent : TellsSlowProvider(Sent[i])
                /\ In(menu, "fast lane") =>
                     /\ Untouched("slow lane") /\ slowShown' = slowShown
                     /\ \A i \in DOMAIN Sent :
                          Sent[i].k # "SetSlowModel"
                            /\ (Sent[i].k = "SetOption" => Sent[i].key[1] = "fast lane")]_vars
  BY <1>1, <1>2, <1>3
<1>4. ASSUME TreeInv, SavedInv, [Next]_vars PROVE TreeInv'
  BY <1>4, StepReturns
<1>5. ASSUME SavedInv, [Next]_vars PROVE SavedInv'
  BY <1>5, StepSaved
<1>6. QED
  BY <1>3, <1>4, <1>5, InitRooted, InitSaved, PTL DEF Spec, LanesNotCrossed

-----------------------------------------------------------------------------
(* The memory store: an id is given once, so an open list of the store that *)
(* names an id names it for the note it had.                                *)

StoreFields == {"enabled", "limit", "next", "slots"}
Numbered(st) ==
  /\ DOMAIN st = StoreFields /\ st.next \in Nat
  /\ ASequence(st.slots)
  /\ \A s \in ToSet(st.slots) : DOMAIN s = {"id", "text"} /\ s.id \in Nat /\ s.id < st.next

\* u came of st: what it holds it held already, or was numbered since.
Grown(st, u) ==
  /\ Numbered(u) /\ st.next <= u.next
  /\ \A s \in ToSet(u.slots) : s \in ToSet(st.slots) \/ s.id >= st.next

\* A list of the store: whoever has a listed id is listed.
Tells(its, st) ==
  /\ ASequence(its)
  /\ \A r \in ToSet(its) :
       r = NewRow \/ (/\ r.id \in Nat /\ r.id < st.next
                      /\ \A s \in ToSet(st.slots) : s.id = r.id => SlotRow(s) \in ToSet(its))

LEMMA GrownSelf ==
  ASSUME NEW st, Numbered(st)
  PROVE  Grown(st, st)
  BY DEF Grown, Numbered

LEMMA GrownTwice ==
  ASSUME NEW st, Numbered(st), NEW u, Grown(st, u), NEW v, Grown(u, v)
  PROVE  Grown(st, v)
<1>1. st.next \in Nat /\ u.next \in Nat /\ v.next \in Nat
  BY DEF Grown, Numbered
<1>2. ASSUME NEW s \in ToSet(v.slots) PROVE s \in ToSet(st.slots) \/ s.id >= st.next
  <2>1. s.id \in Nat /\ (s \in ToSet(u.slots) \/ s.id >= u.next)
    BY DEF Grown, Numbered
  <2>2. QED
    BY <1>1, <2>1 DEF Grown
<1>3. QED
  BY <1>1, <1>2 DEF Grown

LEMMA TellsLater ==
  ASSUME NEW its, NEW st, Numbered(st), Tells(its, st), NEW u, Grown(st, u)
  PROVE  Tells(its, u)
<1>1. st.next \in Nat /\ u.next \in Nat /\ st.next <= u.next
  BY DEF Grown, Numbered
<1>2. ASSUME NEW r \in ToSet(its), r # NewRow
      PROVE  /\ r.id \in Nat /\ r.id < u.next
             /\ \A s \in ToSet(u.slots) : s.id = r.id => SlotRow(s) \in ToSet(its)
  <2>1. /\ r.id \in Nat /\ r.id < st.next
        /\ \A s \in ToSet(st.slots) : s.id = r.id => SlotRow(s) \in ToSet(its)
    BY <1>2 DEF Tells
  <2>2. ASSUME NEW s \in ToSet(u.slots), s.id = r.id PROVE s \in ToSet(st.slots)
    BY <1>1, <2>1, <2>2 DEF Grown
  <2>3. QED
    BY <1>1, <2>1, <2>2
<1>3. QED
  BY <1>2 DEF Tells

\* A fresh list.
LEMMA TellsAfresh ==
  ASSUME NEW st, Numbered(st)
  PROVE  Tells(MemoryItems(st), st)
<1> DEFINE its  == MemoryItems(st)
           rows == MapRows(st.slots, SlotRow)
<1>1. PICK S : st.slots \in Seq(S)
  BY DEF Numbered, ASequence
<1>2. /\ DOMAIN rows = DOMAIN st.slots
      /\ \A i \in DOMAIN st.slots : rows[i] = SlotRow(st.slots[i])
  BY DEF MapRows
<1>3. PICK T : T = {SlotRow(s) : s \in ToSet(st.slots)}
  OBVIOUS
<1>4. rows \in Seq(T) /\ ToSet(rows) = T
  <2>1. DOMAIN st.slots = 1 .. Len(st.slots) /\ Len(st.slots) \in Nat
    BY <1>1
  <2>2. rows \in [1 .. Len(st.slots) -> T]
    <3>1. rows = [i \in DOMAIN st.slots |-> SlotRow(st.slots[i])]
      BY DEF MapRows
    <3>2. \A i \in DOMAIN st.slots : SlotRow(st.slots[i]) \in T
      BY <1>3 DEF ToSet
    <3>3. QED
      BY <2>1, <3>1, <3>2
  <2> HIDE DEF rows
  <2>3. rows \in Seq(T)
    BY <2>1, <2>2
  <2>4. ToSet(rows) = T
    BY <1>2, <1>3 DEF ToSet
  <2>5. QED
    BY <2>3, <2>4
<1> HIDE DEF rows
<1>5. ASequence(its) /\ ToSet(its) = {NewRow} \cup T
  <2>1. ToSet(<<NewRow>>) = {NewRow} /\ <<NewRow>> \in Seq({NewRow})
    BY One
  <2>2. <<NewRow>> \in Seq({NewRow} \cup T) /\ rows \in Seq({NewRow} \cup T)
    BY <1>4, <2>1, Wider
  <2>3. its = <<NewRow>> \o rows
    BY DEF MemoryItems, rows
  <2>4. its \in Seq({NewRow} \cup T) /\ ToSet(its) = {NewRow} \cup T
    <3>1. ToSet(<<NewRow>> \o rows) = ToSet(<<NewRow>>) \cup ToSet(rows)
          /\ <<NewRow>> \o rows \in Seq({NewRow} \cup T)
      BY <2>2, ElementsOfBoth
    <3>2. QED
      BY <1>4, <2>1, <2>3, <3>1, Zenon
  <2>5. QED
    BY <2>4 DEF ASequence
<1> HIDE DEF its
<1>6. \A s \in ToSet(st.slots) : SlotRow(s).id = s.id
  BY DEF SlotRow, Row
<1>7. ASSUME NEW r \in ToSet(its), r # NewRow
      PROVE  /\ r.id \in Nat /\ r.id < st.next
             /\ \A s \in ToSet(st.slots) : s.id = r.id => SlotRow(s) \in ToSet(its)
  <2>1. PICK s \in ToSet(st.slots) : r = SlotRow(s)
    BY <1>3, <1>5, <1>7
  <2>2. r.id = s.id
    BY <1>6, <2>1
  <2>3. \A x \in ToSet(st.slots) : SlotRow(x) \in ToSet(its)
    BY <1>3, <1>5
  <2>4. QED
    BY <2>2, <2>3 DEF Numbered
<1>8. QED
  BY <1>5, <1>7 DEF Tells, its

\* What a store operation does.
LEMMA SwitchGrows ==
  ASSUME NEW st, Numbered(st), NEW on
  PROVE  Grown(st, SetEnabled(st, on)) /\ SetEnabled(st, on).slots = st.slots
  BY DEF SetEnabled, Grown, Numbered, StoreFields

LEMMA LimitGrows ==
  ASSUME NEW st, Numbered(st), NEW n
  PROVE  Grown(st, SetLimit(st, n)) /\ SetLimit(st, n).slots = st.slots
<1>1. PICK l : SetLimit(st, n) = [st EXCEPT !.limit = l]
  BY DEF SetLimit
<1>2. QED
  BY <1>1 DEF Grown, Numbered, StoreFields

LEMMA DeleteGrows ==
  ASSUME NEW st, Numbered(st), NEW id
  PROVE  /\ Grown(st, Delete(st, id))
         /\ ToSet(Delete(st, id).slots) = {s \in ToSet(st.slots) : s.id # id}
<1>1. PICK S : st.slots \in Seq(S)
  BY DEF Numbered, ASequence
<1>2. PICK k : k = Only(st.slots, {s \in ToSet(st.slots) : s.id # id})
  OBVIOUS
<1>3. k \in Seq(S) /\ ToSet(k) = ToSet(st.slots) \cap {s \in ToSet(st.slots) : s.id # id}
  BY <1>1, <1>2, Selection
<1>4. PICK u : u = Delete(st, id)
  OBVIOUS
<1>5. DOMAIN u = StoreFields /\ u.next = st.next /\ u.slots = k
  BY <1>2, <1>4 DEF Delete, Numbered, StoreFields
<1>6. ToSet(u.slots) = {s \in ToSet(st.slots) : s.id # id}
  BY <1>3, <1>5
<1>7. ASequence(u.slots)
  BY <1>3, <1>5 DEF ASequence
<1>8. Grown(st, u)
  BY <1>5, <1>6, <1>7 DEF Grown, Numbered
<1>9. QED
  BY <1>4, <1>6, <1>8

LEMMA AddGrows ==
  ASSUME NEW st, Numbered(st), NEW note
  PROVE  Grown(st, Add(st, note)) /\ ToSet(st.slots) \subseteq ToSet(Add(st, note).slots)
<1>1. CASE ~Accepts(st, note)
  BY <1>1, GrownSelf DEF Add
<1>2. CASE Accepts(st, note)
  <2>1. PICK e : e = [id |-> st.next, text |-> StripSlotIds(note)]
    OBVIOUS
  <2>2. PICK S : st.slots \in Seq(S)
    BY DEF Numbered, ASequence
  <2>3. st.slots \in Seq(S \cup {e}) /\ e \in S \cup {e}
    BY <2>2, Wider
  <2>4. PICK k : k = Append(st.slots, e)
    OBVIOUS
  <2>5. k \in Seq(S \cup {e}) /\ ToSet(k) = ToSet(st.slots) \cup {e}
    BY <2>3, <2>4, ElementsOfAppend
  <2>6. PICK u : u = Add(st, note)
    OBVIOUS
  <2>7. DOMAIN u = StoreFields /\ u.next = st.next + 1 /\ u.slots = k
    BY <1>2, <2>1, <2>4, <2>6 DEF Add, Numbered, StoreFields
  <2>8. e.id = st.next /\ st.next \in Nat
    BY <2>1 DEF Numbered
  <2>9. ASequence(u.slots)
    BY <2>5, <2>7 DEF ASequence
  <2>10. \A s \in ToSet(u.slots) : s \in ToSet(st.slots) \/ s = e
    BY <2>5, <2>7
  <2>11. \A s \in ToSet(u.slots) : DOMAIN s = {"id", "text"} /\ s.id \in Nat /\ s.id < u.next
    BY <2>1, <2>7, <2>8, <2>10 DEF Numbered
  <2>12. Numbered(u) /\ st.next <= u.next
    BY <2>7, <2>8, <2>9, <2>11 DEF Numbered
  <2>13. \A s \in ToSet(u.slots) : s \in ToSet(st.slots) \/ s.id >= st.next
    BY <2>8, <2>10
  <2>14. Grown(st, u)
    BY <2>12, <2>13 DEF Grown
  <2>15. QED
    BY <2>5, <2>6, <2>7, <2>14
<1>3. QED
  BY <1>1, <1>2

\* modify writes a note anew under its id; the prompt may, an answer may not.
LEMMA ModifyNumbers ==
  ASSUME NEW st, Numbered(st), NEW id, NEW note
  PROVE  Numbered(Modify(st, id, note))
<1>1. PICK S : st.slots \in Seq(S)
  BY DEF Numbered, ASequence
<1>2. PICK k : k = [i \in DOMAIN st.slots |-> IF st.slots[i].id = id THEN [st.slots[i] EXCEPT !.text = note]
                                              ELSE st.slots[i]]
  OBVIOUS
<1>3. PICK u : u = Modify(st, id, note)
  OBVIOUS
<1>4. DOMAIN u = StoreFields /\ u.next = st.next /\ u.slots = k
  BY <1>2, <1>3 DEF Modify, Numbered, StoreFields
<1>5. DOMAIN k = 1 .. Len(st.slots) /\ Len(st.slots) \in Nat
  BY <1>1, <1>2
<1>6. PICK T : T = {k[i] : i \in 1 .. Len(st.slots)}
  OBVIOUS
<1>7. k \in Seq(T)
  <2>1. k = [i \in 1 .. Len(st.slots) |-> k[i]]
    BY <1>2, <1>5
  <2>2. k \in [1 .. Len(st.slots) -> T]
    BY <1>6, <2>1
  <2>3. QED
    BY <1>5, <2>2
<1>8. \A i \in DOMAIN st.slots :
        DOMAIN st.slots[i] = {"id", "text"} /\ st.slots[i].id \in Nat /\ st.slots[i].id < st.next
  BY DEF Numbered, ToSet
<1>9. ASSUME NEW i \in DOMAIN st.slots
      PROVE  DOMAIN k[i] = {"id", "text"} /\ k[i].id \in Nat /\ k[i].id < st.next
  BY <1>2, <1>8
<1>10. \A s \in ToSet(k) : DOMAIN s = {"id", "text"} /\ s.id \in Nat /\ s.id < st.next
  BY <1>2, <1>9 DEF ToSet
<1>11. QED
  BY <1>3, <1>4, <1>7, <1>10 DEF Numbered, ASequence

LEMMA CommandNumbers ==
  ASSUME NEW st, Numbered(st), NEW c \in Commands
  PROVE  Numbered(Commanded(st, c))
<1>1. /\ Numbered(SetEnabled(st, TRUE)) /\ Numbered(SetEnabled(st, FALSE)) /\ Numbered(SetLimit(st, c.id))
      /\ Numbered(Add(st, c.note)) /\ Numbered(Delete(st, c.id)) /\ Numbered(Modify(st, c.id, c.note))
  BY SwitchGrows, LimitGrows, AddGrows, DeleteGrows, ModifyNumbers DEF Grown
<1>2. CASE c.verb = "on"
  BY <1>1, <1>2 DEF Commanded
<1>3. CASE c.verb = "off"
  BY <1>1, <1>3 DEF Commanded
<1>4. CASE c.verb = "limit"
  BY <1>1, <1>4 DEF Commanded
<1>5. CASE c.verb = "add"
  BY <1>1, <1>5 DEF Commanded
<1>6. CASE c.verb = "delete"
  BY <1>1, <1>6 DEF Commanded
<1>7. CASE c.verb = "modify"
  BY <1>1, <1>7 DEF Commanded
<1>8. QED
  BY <1>2, <1>3, <1>4, <1>5, <1>6, <1>7, CommandsAssumption

\* g is the store after each of the first n lines of an answer.
Rewriting(st, f, notes, n, g) ==
  g = [i \in 0 .. n |-> IF i = 0 THEN st
                        ELSE IF i <= Len(f) THEN Delete(g[i - 1], f[i])
                        ELSE Add(g[i - 1], notes[i - Len(f)])]

LEMMA RewritingDefined ==
  ASSUME NEW st, NEW f, NEW notes, NEW N \in Nat
  PROVE  \E g : Rewriting(st, f, notes, N, g)
<1> DEFINE B == {n \in 0 .. N : ~ \E g : Rewriting(st, f, notes, n, g)}
           More(g, i) == IF i <= Len(f) THEN Delete(g[i - 1], f[i]) ELSE Add(g[i - 1], notes[i - Len(f)])
<1>1. B \subseteq 0 .. N
  OBVIOUS
<1>2. 0 \notin B
  <2>1. Rewriting(st, f, notes, 0, [i \in 0 .. 0 |-> st])
    BY DEF Rewriting
  <2>2. QED
    BY <2>1
<1>3. ASSUME NEW n \in 0 .. N - 1, n \notin B
      PROVE  n + 1 \notin B
  <2>0. n \in Nat /\ n + 1 \in 0 .. n + 1 /\ n + 1 # 0
    OBVIOUS
  <2>1. PICK g : Rewriting(st, f, notes, n, g)
    BY <1>3
  <2> DEFINE next == IF n + 1 <= Len(f) THEN Delete(g[n], f[n + 1]) ELSE Add(g[n], notes[n + 1 - Len(f)])
             h == [i \in 0 .. n + 1 |-> IF i = n + 1 THEN next ELSE g[i]]
             k == [i \in 0 .. n + 1 |-> IF i = 0 THEN st ELSE More(h, i)]
  <2>2. \A i \in 0 .. n : h[i] = g[i]
    BY <2>0
  <2>3. \A i \in 1 .. n + 1 : i - 1 \in 0 .. n
    BY <2>0
  <2>4. \A i \in 0 .. n : g[i] = IF i = 0 THEN st ELSE More(g, i)
    BY <2>1 DEF Rewriting
  <2>5. h[n + 1] = next
    BY <2>0
  <2>6. \A i \in 1 .. n + 1 : h[i - 1] = g[i - 1]
    BY <2>2, <2>3
  <2>7. (n + 1) - 1 = n
    BY <2>0
  <2>8. h[n + 1] = k[n + 1]
    BY <2>0, <2>5, <2>6, <2>7
  <2>9. \A i \in 0 .. n : h[i] = k[i]
    BY <2>2, <2>4, <2>6
  <2>10. \A i \in 0 .. n + 1 : i \in 0 .. n \/ i = n + 1
    BY <2>0
  <2>11. h = k
    BY <2>8, <2>9, <2>10
  <2>12. Rewriting(st, f, notes, n + 1, h)
    BY <2>11 DEF Rewriting
  <2>13. QED
    BY <2>12
<1>4. B = {}
  BY <1>1, <1>2, <1>3, Induct
<1>5. QED
  BY <1>4

LEMMA BothLengths ==
  ASSUME NEW S, NEW T, NEW a, a[1] \in Seq(S), a[2] \in Seq(T)
  PROVE  Len(a[1]) + Len(a[2]) \in Nat
<1>1. PICK f \in Seq(S), h \in Seq(T) : f = a[1] /\ h = a[2]
  OBVIOUS
<1>2. Len(f) \in Nat /\ Len(h) \in Nat
  OBVIOUS
<1>3. Len(f) + Len(h) \in Nat
  BY <1>2
<1>4. QED
  BY <1>1, <1>3, Zenon

LEMMA RewriteGrows ==
  ASSUME NEW st, Numbered(st), NEW a \in Answers
  PROVE  Grown(st, Rewrite(st, a[1], a[2]))
<1> DEFINE N == Len(a[1]) + Len(a[2])
           g == CHOOSE f : Rewriting(st, a[1], a[2], N, f)
           B == {n \in 0 .. N : ~Grown(st, g[n])}
<1>0. N \in Nat
  BY AnswersAssumption, BothLengths
<1>1. Rewriting(st, a[1], a[2], N, g)
  BY <1>0, RewritingDefined
<1>2. Rewrite(st, a[1], a[2]) \in {g[N], st}
  BY DEF Rewrite, Rewriting
<1> HIDE DEF g, N
<1>3. \A i \in 0 .. N : g[i] = IF i = 0 THEN st
                               ELSE IF i <= Len(a[1]) THEN Delete(g[i - 1], a[1][i])
                               ELSE Add(g[i - 1], a[2][i - Len(a[1])])
  BY <1>1 DEF Rewriting
<1>4. 0 \notin B
  BY <1>0, <1>3, GrownSelf
<1>5. ASSUME NEW n \in 0 .. N - 1, n \notin B
      PROVE  n + 1 \notin B
  <2>1. n \in 0 .. N /\ n + 1 \in 0 .. N /\ n + 1 # 0 /\ (n + 1) - 1 = n
    BY <1>0
  <2>2. Grown(st, g[n])
    BY <1>5, <2>1
  <2>3. g[n + 1] = IF n + 1 <= Len(a[1]) THEN Delete(g[(n + 1) - 1], a[1][n + 1])
                   ELSE Add(g[(n + 1) - 1], a[2][(n + 1) - Len(a[1])])
    BY <1>3, <2>1
  <2>4. Grown(g[n], g[n + 1])
    <3>1. PICK id, note : g[n + 1] \in {Delete(g[n], id), Add(g[n], note)}
      BY <2>1, <2>3
    <3>2. Numbered(g[n])
      BY <2>2 DEF Grown
    <3>3. Grown(g[n], Delete(g[n], id)) /\ Grown(g[n], Add(g[n], note))
      BY <3>2, DeleteGrows, AddGrows
    <3>4. QED
      BY <3>1, <3>3
  <2>5. Grown(st, g[n + 1])
    BY <2>2, <2>4, GrownTwice
  <2>6. QED
    BY <2>5
<1>6. B = {}
  BY <1>0, <1>4, <1>5, Induct
<1>7. N \in 0 .. N
  BY <1>0
<1>8. QED
  BY <1>2, <1>6, <1>7, GrownSelf

-----------------------------------------------------------------------------
(* The keys of an open list of the store.                                  *)

\* The same list, stood where nothing is up, without a row's field.
Leafed(m, n) ==
  /\ DOMAIN n = MenuFields /\ n.kind = "Memory" /\ n.items = m.items
  /\ n.loaded /\ n.cursor \in Nat /\ n.composeRow = ""
  /\ n.parent = NoParent /\ n.group = Root

\* It leads nowhere, types nothing into a row, and destroys what it lists.
Wishes(m, req) ==
  /\ DOMAIN req = RequestFields
  /\ ~req.up /\ req.into = Root /\ req.picked = NoRow /\ req.typedRow = ""
  /\ req.committed = NoRow \/ (req.committed \in ToSet(m.items) /\ req.committed # NewRow)
Paged(m, s) == DOMAIN s = {"m", "req"} /\ Leafed(m, s.m) /\ Wishes(m, s.req)

LEMMA LeafedOn ==
  ASSUME NEW m, NEW n, Leafed(m, n), NEW f \in {"filter", "armed", "typing", "text", "viewing"}, NEW x
  PROVE  Leafed(m, [n EXCEPT ![f] = x])
<1>1. PICK k : k = [n EXCEPT ![f] = x]
  OBVIOUS
<1>2. /\ DOMAIN k = MenuFields /\ k.kind = n.kind /\ k.items = n.items /\ k.loaded = n.loaded
      /\ k.cursor = n.cursor /\ k.composeRow = n.composeRow /\ k.parent = n.parent /\ k.group = n.group
  BY <1>1 DEF Leafed, MenuFields
<1>3. Leafed(m, k)
  BY <1>2 DEF Leafed
<1>4. QED
  BY <1>1, <1>3

LEMMA LeafedCursor ==
  ASSUME NEW m, NEW n, Leafed(m, n), NEW c \in Nat
  PROVE  Leafed(m, [n EXCEPT !.cursor = c])
<1>1. PICK k : k = [n EXCEPT !.cursor = c]
  OBVIOUS
<1>2. /\ DOMAIN k = MenuFields /\ k.kind = n.kind /\ k.items = n.items /\ k.loaded = n.loaded
      /\ k.cursor = c /\ k.composeRow = n.composeRow /\ k.parent = n.parent /\ k.group = n.group
  BY <1>1 DEF Leafed, MenuFields
<1>3. Leafed(m, k)
  BY <1>2 DEF Leafed
<1>4. QED
  BY <1>1, <1>3

LEMMA LeafedClamp ==
  ASSUME NEW m, ASequence(m.items), NEW n, Leafed(m, n)
  PROVE  Leafed(m, Clamp(n))
<1>1. PICK c : c = IF n.cursor < Len(Filtered(n)) THEN n.cursor
                   ELSE IF Len(Filtered(n)) = 0 THEN 0 ELSE Len(Filtered(n)) - 1
  OBVIOUS
<1>2. Len(Filtered(n)) \in Nat /\ n.cursor \in Nat
  BY FilteredOfItems DEF Leafed
<1>3. c \in Nat
  BY <1>1, <1>2
<1>4. Clamp(n) = [n EXCEPT !.cursor = c]
  BY <1>1 DEF Clamp, Leafed, MenuFields
<1>5. QED
  BY <1>3, <1>4, LeafedCursor

LEMMA PagedMenu ==
  ASSUME NEW m, NEW s, Paged(m, s), NEW n, Leafed(m, n)
  PROVE  Paged(m, [s EXCEPT !.m = n])
  BY DEF Paged

LEMMA PagedRequest ==
  ASSUME NEW m, NEW s, Paged(m, s), NEW r, Wishes(m, r)
  PROVE  Paged(m, [s EXCEPT !.req = r])
  BY DEF Paged

LEMMA WishesOn ==
  ASSUME NEW m, NEW r, Wishes(m, r), NEW f \in {"close", "typed", "noted", "note", "view"}, NEW x
  PROVE  Wishes(m, [r EXCEPT ![f] = x])
  BY DEF Wishes, RequestFields

LEMMA PagedArmed ==
  ASSUME NEW m, NEW s, Paged(m, s), NEW x
  PROVE  Leafed(m, [s.m EXCEPT !.armed = x]) /\ Paged(m, [s EXCEPT !.m.armed = x])
<1>1. Leafed(m, [s.m EXCEPT !.armed = x])
  BY LeafedOn DEF Paged
<1>2. QED
  BY <1>1, PagedMenu

LEMMA ComposeKeyPages ==
  ASSUME NEW m, NEW s, NEW key, Paged(m, s)
  PROVE  Paged(m, ComposeKey(s, key))
<1> DEFINE n    == s.m
           done == [n EXCEPT !.typing = FALSE, !.text = <<>>, !.composeRow = ""]
<1>1. Leafed(m, n) /\ DOMAIN s = {"m", "req"} /\ Wishes(m, s.req) /\ "text" \in DOMAIN n /\ n.composeRow = ""
  BY DEF Paged, Leafed, MenuFields
<1>2. Leafed(m, done)
  BY <1>1 DEF Leafed, MenuFields
<1>3. ASSUME NEW x PROVE Paged(m, [s EXCEPT !.m.text = x])
  <2>1. Leafed(m, [n EXCEPT !.text = x])
    BY <1>1, LeafedOn
  <2>2. QED
    BY <2>1, PagedMenu
<1>4. Wishes(m, [s.req EXCEPT !.noted = TRUE, !.note = n.text])
  <2>1. PICK r : r = [s.req EXCEPT !.noted = TRUE]
    OBVIOUS
  <2>2. Wishes(m, r)
    BY <1>1, <2>1, WishesOn
  <2>3. Wishes(m, [r EXCEPT !.note = n.text])
    BY <2>2, WishesOn
  <2>4. QED
    BY <2>1, <2>3
<1>5. Paged(m, [s EXCEPT !.m = done])
  BY <1>2, PagedMenu
<1>6. Paged(m, [m |-> done, req |-> [s.req EXCEPT !.noted = TRUE, !.note = n.text]])
  BY <1>2, <1>4 DEF Paged
<1> HIDE DEF done
<1>7. CASE key.k = "Char"
  <2>1. ComposeKey(s, key) \in {[s EXCEPT !.m.text = Append(s.m.text, key.c)], s}
    BY <1>1, <1>7 DEF ComposeKey
  <2>2. QED
    BY <1>3, <2>1
<1>8. CASE key.k = "Backspace"
  <2>1. ComposeKey(s, key) \in {[s EXCEPT !.m.text = Front(s.m.text)], s}
    BY <1>1, <1>8 DEF ComposeKey
  <2>2. QED
    BY <1>3, <2>1
<1>9. CASE key.k = "KillLine"
  BY <1>3, <1>9 DEF ComposeKey
<1>10. CASE key.k = "Esc"
  BY <1>5, <1>10 DEF ComposeKey, done
<1>11. CASE key.k = "Enter"
  BY <1>1, <1>6, <1>11 DEF ComposeKey, done
<1>12. CASE key.k \notin {"Char", "Backspace", "KillLine", "Esc", "Enter"}
  BY <1>12 DEF ComposeKey
<1>13. QED
  BY <1>7, <1>8, <1>9, <1>10, <1>11, <1>12

LEMMA PaneKeyPages ==
  ASSUME NEW m, NEW s, NEW key, Paged(m, s)
  PROVE  Paged(m, PaneKey(s, key))
<1>1. Leafed(m, [s.m EXCEPT !.viewing = NoRow])
  BY LeafedOn DEF Paged
<1>2. Paged(m, [s EXCEPT !.m.viewing = NoRow])
  BY <1>1, PagedMenu
<1>3. QED
  BY <1>2 DEF PaneKey

LEMMA EscKeyPages ==
  ASSUME NEW m, NEW s, Paged(m, s)
  PROVE  Paged(m, EscKey(s))
<1>1. Paged(m, [s EXCEPT !.m.armed = NoRow])
  BY PagedArmed
<1>2. ~HasWayUp(s.m)
  BY DEF Paged, Leafed, HasWayUp
<1>3. Wishes(m, [s.req EXCEPT !.close = TRUE])
  BY WishesOn DEF Paged
<1>4. Paged(m, [s EXCEPT !.req.close = TRUE])
  BY <1>3, PagedRequest
<1>5. QED
  BY <1>1, <1>2, <1>4 DEF EscKey

LEMMA SideKeyPages ==
  ASSUME NEW m, NEW s, NEW key, Paged(m, s)
  PROVE  Paged(m, SideKey(s, key))
<1>1. s.m.kind # "Settings" /\ ~HasWayUp(s.m)
  BY DEF Paged, Leafed, HasWayUp
<1>2. SideKey(s, key) = s
  BY <1>1 DEF SideKey
<1>3. QED
  BY <1>2

LEMMA EnterKeyPages ==
  ASSUME NEW m, NEW s, Paged(m, s)
  PROVE  Paged(m, EnterKey(s))
<1> DEFINE n   == s.m
           sel == Selected(n)
           t   == [n EXCEPT !.typing = TRUE, !.text = <<>>, !.armed = NoRow]
<1>1. n.kind = "Memory" /\ Browser(n) /\ DOMAIN n = MenuFields /\ DOMAIN s = {"m", "req"}
  BY DEF Paged, Leafed, Browser
<1>2. Leafed(m, t)
  BY DEF Paged, Leafed, MenuFields
<1>3. Paged(m, [s EXCEPT !.m = t])
  BY <1>2, PagedMenu
<1>4. Paged(m, [s EXCEPT !.m.armed = NoRow, !.req.view = sel])
  <2>1. PICK u : u = [s EXCEPT !.m.armed = NoRow]
    OBVIOUS
  <2>2. Paged(m, u)
    BY <2>1, PagedArmed
  <2>3. Wishes(m, [u.req EXCEPT !.view = sel])
    BY <2>2, WishesOn DEF Paged
  <2>4. Paged(m, [u EXCEPT !.req = [u.req EXCEPT !.view = sel]])
    BY <2>2, <2>3, PagedRequest
  <2>5. QED
    BY <2>1, <2>4
<1> HIDE DEF sel
<1>5. CASE sel = NewRow
  BY <1>1, <1>3, <1>5 DEF EnterKey, sel
<1>6. CASE sel # NewRow
  BY <1>1, <1>4, <1>6 DEF EnterKey, sel
<1>7. QED
  BY <1>5, <1>6

LEMMA DestroyKeyPages ==
  ASSUME NEW m, ASequence(m.items), NEW s, Paged(m, s)
  PROVE  Paged(m, DestroyKey(s))
<1> DEFINE sel == Selected(s.m)
<1>1. Paged(m, [s EXCEPT !.m.armed = NoRow]) /\ Paged(m, [s EXCEPT !.m.armed = sel])
  BY PagedArmed
<1>2. sel \in ToSet(m.items) \cup {NoRow}
  BY SelectedIsAnItem DEF Paged, Leafed
<1> HIDE DEF sel
<1>3. sel # NewRow => Paged(m, [s EXCEPT !.m.armed = NoRow, !.req.committed = sel])
  <2> SUFFICES ASSUME sel # NewRow PROVE Paged(m, [s EXCEPT !.m.armed = NoRow, !.req.committed = sel])
    OBVIOUS
  <2>1. PICK u : u = [s EXCEPT !.m.armed = NoRow]
    OBVIOUS
  <2>2. Paged(m, u)
    BY <1>1, <2>1
  <2>3. Wishes(m, [u.req EXCEPT !.committed = sel])
    BY <1>2, <2>2 DEF Paged, Wishes, RequestFields
  <2>4. Paged(m, [u EXCEPT !.req = [u.req EXCEPT !.committed = sel]])
    BY <2>2, <2>3, PagedRequest
  <2>5. QED
    BY <2>1, <2>4
<1>4. QED
  BY <1>1, <1>3 DEF DestroyKey, sel

LEMMA MoveKeyPages ==
  ASSUME NEW m, ASequence(m.items), NEW s, NEW key, Paged(m, s)
  PROVE  Paged(m, MoveKey(s, key))
<1> DEFINE n    == [s.m EXCEPT !.armed = NoRow]
           down == [n EXCEPT !.cursor = n.cursor + 1]
           up   == [n EXCEPT !.cursor = IF n.cursor = 0 THEN 0 ELSE n.cursor - 1]
<1>1. Leafed(m, n) /\ DOMAIN s = {"m", "req"}
  BY PagedArmed DEF Paged
<1> HIDE DEF n
<1>2. n.cursor \in Nat /\ "cursor" \in DOMAIN n
  BY <1>1 DEF Leafed, MenuFields
<1>3. Leafed(m, up) /\ Leafed(m, down)
  <2>1. PICK c \in Nat : c = n.cursor + 1
    BY <1>2
  <2>2. PICK d \in Nat : d = IF n.cursor = 0 THEN 0 ELSE n.cursor - 1
    BY <1>2
  <2>3. Leafed(m, [n EXCEPT !.cursor = c]) /\ Leafed(m, [n EXCEPT !.cursor = d])
    BY <1>1, LeafedCursor
  <2>4. QED
    BY <2>1, <2>2, <2>3
<1> HIDE DEF up, down
<1>4. Leafed(m, Clamp(down))
  BY <1>3, LeafedClamp
<1>5. Paged(m, [s EXCEPT !.m = Clamp(down)]) /\ Paged(m, [s EXCEPT !.m = up])
  BY <1>3, <1>4, PagedMenu
<1>6. MoveKey(s, key) = [s EXCEPT !.m = IF key.k = "Down" THEN Clamp(down) ELSE up]
  BY <1>1, <1>2 DEF MoveKey, down, up, n
<1>7. QED
  BY <1>5, <1>6

LEMMA FilterKeyPages ==
  ASSUME NEW m, ASequence(m.items), NEW s, NEW key, Paged(m, s)
  PROVE  Paged(m, FilterKey(s, key))
<1> DEFINE n == [s.m EXCEPT !.armed = NoRow]
           f == [n EXCEPT !.filter = Shorter(@)]
           e == [n EXCEPT !.filter = Longer(@)]
           o == [n EXCEPT !.filter = 0]
<1>1. Leafed(m, n) /\ DOMAIN s = {"m", "req"}
  BY PagedArmed DEF Paged
<1> HIDE DEF n
<1>2. Leafed(m, f) /\ Leafed(m, e) /\ Leafed(m, o)
  BY <1>1, LeafedOn
<1>3. Leafed(m, [e EXCEPT !.cursor = 0]) /\ Leafed(m, [o EXCEPT !.cursor = 0]) /\ Leafed(m, n)
  BY <1>1, <1>2, LeafedCursor
<1>4. /\ Leafed(m, [n EXCEPT !.filter = Longer(@), !.cursor = 0])
      /\ Leafed(m, [n EXCEPT !.filter = 0, !.cursor = 0])
  BY <1>3
<1> HIDE DEF f, e, o
<1>5. Leafed(m, Clamp(f))
  BY <1>2, LeafedClamp
<1>6. \E x : Leafed(m, x) /\ FilterKey(s, key) = [s EXCEPT !.m = x]
  <2>1. CASE key.k = "Char"
    BY <1>1, <1>4, <2>1 DEF FilterKey, n
  <2>2. CASE key.k = "KillLine"
    BY <1>1, <1>4, <2>2 DEF FilterKey, n
  <2>3. CASE key.k = "Backspace"
    BY <1>1, <1>5, <2>3 DEF FilterKey, n, f
  <2>4. CASE key.k \notin {"Char", "KillLine", "Backspace"}
    BY <1>1, <2>4 DEF FilterKey, n
  <2>5. QED
    BY <2>1, <2>2, <2>3, <2>4
<1>7. QED
  BY <1>6, PagedMenu

LEMMA AfterKeyPages ==
  ASSUME NEW m, ASequence(m.items), NEW s, NEW key, Paged(m, s)
  PROVE  Paged(m, AfterKey(s, key))
  BY ComposeKeyPages, PaneKeyPages, EscKeyPages, SideKeyPages, EnterKeyPages, DestroyKeyPages,
     MoveKeyPages, FilterKeyPages DEF AfterKey, ListKey

LEMMA AfterKeysPage ==
  ASSUME NEW m, ASequence(m.items), Leafed(m, m), NEW chunk \in Chunks
  PROVE  Paged(m, AfterKeys(m, chunk))
<1> DEFINE N == Len(chunk)
           g == CHOOSE f : Pressing(m, chunk, N, f)
           B == {n \in 0 .. N : ~Paged(m, g[n])}
<1>0. N \in Nat
  BY ChunksAssumption
<1>1. Pressing(m, chunk, N, g)
  BY <1>0, PressingDefined
<1>2. AfterKeys(m, chunk) = g[N]
  BY DEF AfterKeys, Pressing
<1> HIDE DEF g
<1>3. \A i \in 0 .. N : g[i] = IF i = 0 THEN [m |-> m, req |-> Quiet] ELSE AfterKey(g[i - 1], chunk[i])
  BY <1>1 DEF Pressing
<1>4. 0 \notin B
  <2>1. g[0] = [m |-> m, req |-> Quiet]
    BY <1>0, <1>3
  <2>2. Wishes(m, Quiet)
    BY DEF Wishes, Quiet, RequestFields
  <2>3. Paged(m, [m |-> m, req |-> Quiet])
    BY <2>2 DEF Paged
  <2>4. QED
    BY <2>1, <2>3
<1>5. ASSUME NEW n \in 0 .. N - 1, n \notin B
      PROVE  n + 1 \notin B
  <2>1. n \in 0 .. N /\ n + 1 \in 0 .. N /\ n + 1 # 0 /\ (n + 1) - 1 = n
    BY <1>0
  <2>2. Paged(m, g[n]) /\ g[n + 1] = AfterKey(g[n], chunk[n + 1])
    BY <1>3, <1>5, <2>1
  <2>3. QED
    BY <2>2, AfterKeyPages
<1>6. B = {}
  BY <1>0, <1>4, <1>5, Induct
<1>7. N \in 0 .. N
  BY <1>0
<1>8. QED
  BY <1>2, <1>6, <1>7

-----------------------------------------------------------------------------
(* What a read of keys does to the store.                                  *)

\* The open list of the store.
MemFits(m, st) == m.kind = "Memory" => (Leafed(m, m) /\ Tells(m.items, st))

\* Whoever is gone was on the list.
Shown(m, st, u) == \A s \in ToSet(st.slots) : s \in ToSet(u.slots) \/ SlotRow(s) \in ToSet(m.items)
Minds(m, st, u) == Grown(st, u.store) /\ Shown(m, st, u.store) /\ MemFits(u.menu, u.store)

\* w with the list n, and with what is left of the store st.
Lists(st, w) ==
  /\ DOMAIN w = SessionFields
  /\ Grown(st, w.store) /\ w.menu.kind = "Memory"
  /\ Leafed(w.menu, w.menu) /\ Tells(w.menu.items, w.store)

LEMMA Relisted ==
  ASSUME NEW m, Leafed(m, m), NEW st, Numbered(st), NEW n, n = Clamp([m EXCEPT !.items = MemoryItems(st)])
  PROVE  n.kind = "Memory" /\ Leafed(n, n) /\ Tells(n.items, st)
<1>1. PICK k : k = [m EXCEPT !.items = MemoryItems(st)]
  OBVIOUS
<1>2. k.items = MemoryItems(st) /\ Leafed(k, k)
  BY <1>1 DEF Leafed, MenuFields
<1>3. Tells(MemoryItems(st), st)
  BY TellsAfresh
<1>4. ASequence(k.items)
  BY <1>2, <1>3 DEF Tells
<1>5. n = Clamp(k)
  BY <1>1, Zenon
<1>6. Leafed(k, n)
  BY <1>2, <1>4, <1>5, LeafedClamp
<1>7. QED
  BY <1>2, <1>3, <1>6 DEF Leafed

LEMMA ListsViewing ==
  ASSUME NEW st, NEW w, Lists(st, w), NEW x
  PROVE  Lists(st, [w EXCEPT !.menu.viewing = x])
<1>1. PICK n : n = [w.menu EXCEPT !.viewing = x]
  OBVIOUS
<1>2. Leafed(w.menu, n)
  BY <1>1, LeafedOn DEF Lists
<1>3. n.kind = "Memory" /\ Leafed(n, n) /\ n.items = w.menu.items
  BY <1>2 DEF Leafed
<1>4. Lists(st, [w EXCEPT !.menu = n])
  BY <1>3 DEF Lists, SessionFields
<1>5. QED
  BY <1>1, <1>4

LEMMA ListsStore ==
  ASSUME NEW st, Numbered(st), NEW w, Lists(st, w), NEW k, Grown(w.store, k), NEW n,
         n = Clamp([w.menu EXCEPT !.items = MemoryItems(k)])
  PROVE  Lists(st, [w EXCEPT !.store = k, !.menu = n])
<1>1. Numbered(k) /\ Grown(st, k)
  BY GrownTwice DEF Lists, Grown
<1>2. Leafed(w.menu, w.menu)
  BY DEF Lists
<1>3. n.kind = "Memory" /\ Leafed(n, n) /\ Tells(n.items, k)
  BY <1>1, <1>2, Relisted
<1>4. QED
  BY <1>1, <1>3 DEF Lists, SessionFields

LEMMA MemoryApplied ==
  ASSUME NEW m, Leafed(m, m), NEW w, DOMAIN w = SessionFields, Leafed(m, w.menu),
         Numbered(w.store), Tells(m.items, w.store), NEW req, Wishes(m, req), NEW g, NEW readable
  PROVE  Minds(m, w.store, Applied(w, "Memory", req, g, readable))
<1> DEFINE st == w.store
<1>1. Lists(st, w)
  BY GrownSelf DEF Lists, Leafed
<1>2. PICK p : p = OpenPane(w, "Memory", req)
  OBVIOUS
<1>3. Lists(st, p) /\ p.store = st
  <2>1. p \in {w, [w EXCEPT !.menu.viewing = req.view]}
    BY <1>2 DEF OpenPane
  <2>2. PICK u : u = [w EXCEPT !.menu.viewing = req.view]
    OBVIOUS
  <2>3. u.store = st
    BY <2>2 DEF SessionFields
  <2>4. Lists(st, u)
    BY <1>1, <2>2, ListsViewing
  <2>5. p = w \/ p = u
    BY <2>1, <2>2
  <2>6. QED
    BY <1>1, <2>3, <2>4, <2>5
<1>4. PICK b : b = MemoryFromField(p, "Memory", req)
  OBVIOUS
<1>5. Lists(st, b) /\ ToSet(st.slots) \subseteq ToSet(b.store.slots)
  <2>1. CASE ~req.noted
    BY <1>3, <1>4, <2>1 DEF MemoryFromField
  <2>2. CASE req.noted
    <3>1. PICK k : k = Add(p.store, req.note)
      OBVIOUS
    <3>2. Grown(p.store, k) /\ ToSet(st.slots) \subseteq ToSet(k.slots)
      BY <1>3, <3>1, AddGrows
    <3>3. PICK n : n = Clamp([p.menu EXCEPT !.items = MemoryItems(k)])
      OBVIOUS
    <3>4. DOMAIN p = SessionFields
      BY <1>3 DEF Lists
    <3>5. b = [p EXCEPT !.store = k, !.menu = n]
      BY <1>4, <2>2, <3>1, <3>3, <3>4 DEF MemoryFromField, SessionFields
    <3>6. Lists(st, b)
      BY <1>3, <3>2, <3>3, <3>5, ListsStore
    <3>7. b.store = k
      BY <3>4, <3>5 DEF SessionFields
    <3>8. QED
      BY <3>2, <3>6, <3>7
  <2>3. QED
    BY <2>1, <2>2
<1>6. PICK c : c = ForgetSlot(b, "Memory", req)
  OBVIOUS
<1>7. Lists(st, c) /\ Shown(m, st, c.store)
  <2>1. CASE req.committed = NoRow
    BY <1>5, <1>6, <2>1 DEF ForgetSlot, Shown
  <2>2. CASE req.committed # NoRow
    <3>1. PICK k : k = Delete(b.store, req.committed.id)
      OBVIOUS
    <3>2. Numbered(b.store)
      BY <1>5 DEF Lists, Grown
    <3>3. Grown(b.store, k) /\ ToSet(k.slots) = {s \in ToSet(b.store.slots) : s.id # req.committed.id}
      BY <3>1, <3>2, DeleteGrows
    <3>4. PICK n : n = Clamp([b.menu EXCEPT !.items = MemoryItems(k)])
      OBVIOUS
    <3>5. DOMAIN b = SessionFields
      BY <1>5 DEF Lists
    <3>6. c = [b EXCEPT !.store = k, !.menu = n]
      BY <1>6, <2>2, <3>1, <3>4, <3>5 DEF ForgetSlot, SessionFields
    <3>7. Lists(st, c)
      BY <1>5, <3>3, <3>4, <3>6, ListsStore
    <3>8. c.store = k
      BY <3>5, <3>6 DEF SessionFields
    <3>9. req.committed \in ToSet(m.items) /\ req.committed # NewRow
      BY <2>2 DEF Wishes
    <3>10. \A s \in ToSet(st.slots) : s.id = req.committed.id => SlotRow(s) \in ToSet(m.items)
      BY <3>9 DEF Tells
    <3>11. Shown(m, st, k)
      BY <1>5, <3>3, <3>10 DEF Shown
    <3>12. QED
      BY <3>7, <3>8, <3>11
  <2>3. QED
    BY <2>1, <2>2
<1>8. Applied(w, "Memory", req, g, readable) = IF req.close THEN [c EXCEPT !.menu = NoMenu] ELSE c
  <2>1. PinFromField(w, "Memory", req, readable) = w
    BY DEF PinFromField
  <2>2. DropPin(p, "Memory", req) = p
    BY DEF DropPin
  <2>3. TypeSetting(b, req) = b
    BY DEF TypeSetting, Wishes
  <2>4. PICK e : e = Choice(b, "on")
    OBVIOUS
  <2>5. Commit(b, "Memory", req) = e /\ e.w = b /\ e.then = "on"
    BY <2>4 DEF Commit, Wishes, Choice
  <2>6. BindSlowModel(c, "Memory", req) = c /\ BindFastModel(c, "Memory", req) = c
    BY DEF BindSlowModel, BindFastModel
  <2>7. Navigate(c, req) = c
    BY DEF Navigate, Wishes
  <2>8. Applied(w, "Memory", req, g, readable) = Finish(e, "Memory", req, g)
    BY <1>2, <1>4, <2>1, <2>2, <2>3, <2>5, Zenon DEF Applied
  <2>9. ForgetSlot(e.w, "Memory", req) = c
    BY <1>6, <2>5, Zenon
  <2>10. Finish(e, "Memory", req, g) = IF req.close THEN [c EXCEPT !.menu = NoMenu] ELSE c
    BY <2>5, <2>6, <2>7, <2>9 DEF Finish
  <2>11. QED
    BY <2>8, <2>10, Zenon
<1>9. Minds(m, st, c)
  BY <1>7 DEF Minds, Lists, MemFits
<1>10. Minds(m, st, [c EXCEPT !.menu = NoMenu])
  BY <1>7, NoMenuIsRooted DEF Minds, Lists, MemFits, SessionFields
<1>11. QED
  BY <1>8, <1>9, <1>10

\* The other menus keep what the store holds.
Even(w, u) == DOMAIN u = SessionFields /\ u.store = w.store
Remembers(w, u) ==
  DOMAIN u = SessionFields /\ Grown(w.store, u.store) /\ ToSet(w.store.slots) \subseteq ToSet(u.store.slots)

LEMMA RemembersEven ==
  ASSUME NEW v, NEW w, Remembers(v, w), NEW u, Even(w, u)
  PROVE  Remembers(v, u)
  BY DEF Remembers, Even

LEMMA RemembersStore ==
  ASSUME NEW v, Numbered(v.store), NEW w, Remembers(v, w), NEW k, Grown(w.store, k),
         ToSet(w.store.slots) \subseteq ToSet(k.slots)
  PROVE  Remembers(v, [w EXCEPT !.store = k])
<1>1. Grown(v.store, k)
  BY GrownTwice DEF Remembers
<1>2. QED
  BY <1>1 DEF Remembers, SessionFields

LEMMA RemembersNumbers ==
  ASSUME NEW v, NEW w, Remembers(v, w)
  PROVE  DOMAIN w = SessionFields /\ Numbered(w.store)
  BY DEF Remembers, Grown

LEMMA EvenOn ==
  ASSUME NEW w, DOMAIN w = SessionFields, NEW f \in SessionFields, f # "store", NEW x
  PROVE  Even(w, [w EXCEPT ![f] = x])
  BY DEF Even, SessionFields

LEMMA EvenTwice ==
  ASSUME NEW w, NEW u, Even(w, u), NEW v, Even(u, v)
  PROVE  Even(w, v)
  BY DEF Even

LEMMA EvenSend ==
  ASSUME NEW w, DOMAIN w = SessionFields, NEW js
  PROVE  Even(w, Send(w, js))
  BY DEF Even, Send, SessionFields

LEMMA EvenKeep ==
  ASSUME NEW w, DOMAIN w = SessionFields, NEW key, NEW v
  PROVE  Even(w, Keep(w, key, v))
  BY DEF Even, Keep, SessionFields

LEMMA PinsEven ==
  ASSUME NEW w, DOMAIN w = SessionFields, NEW kind, NEW req, NEW readable
  PROVE  /\ Even(w, PinFromField(w, kind, req, readable)) /\ Even(w, OpenPane(w, kind, req))
         /\ Even(w, DropPin(w, kind, req))
<1>1. Even(w, w) /\ \A n : Even(w, [w EXCEPT !.menu = n])
  BY DEF Even, SessionFields
<1>2. Even(w, PinFromField(w, kind, req, readable))
  BY DEF PinFromField, Even, SessionFields
<1>3. Even(w, OpenPane(w, kind, req))
  <2>1. OpenPane(w, kind, req) \in {w, [w EXCEPT !.menu = [@ EXCEPT !.viewing = req.view]]}
    BY DEF OpenPane
  <2>2. QED
    BY <1>1, <2>1
<1>4. Even(w, DropPin(w, kind, req))
  BY DEF DropPin, Even, SessionFields
<1>5. QED
  BY <1>2, <1>3, <1>4

LEMMA MenusEven ==
  ASSUME NEW w, DOMAIN w = SessionFields, NEW name, NEW req
  PROVE  Even(w, Field(w, name)) /\ Even(w, OpenDropDown(w, name)) /\ Even(w, Navigate(w, req))
<1>1. Even(w, w) /\ \A n : Even(w, [w EXCEPT !.menu = n])
  BY DEF Even, SessionFields
<1>2. Even(w, Field(w, name))
  BY DEF Field, Even, SessionFields
<1>3. Even(w, OpenDropDown(w, name))
  <2>1. PICK n : OpenDropDown(w, name) = [w EXCEPT !.menu = n]
    BY DEF OpenDropDown
  <2>2. QED
    BY <1>1, <2>1, Zenon
<1>4. Even(w, Navigate(w, req))
  <2>1. ASSUME NEW u, Even(w, u), NEW g, NEW from PROVE Even(w, Enter(u, g, from))
    <3>1. PICK n : Enter(u, g, from) = [u EXCEPT !.menu = n]
      BY DEF Enter
    <3>2. Even(w, [u EXCEPT !.menu = n])
      BY <2>1 DEF Even, SessionFields
    <3>3. QED
      BY <3>1, <3>2, Zenon
  <2>2. PICK u : u = [w EXCEPT !.menu = [Open("Settings") EXCEPT !.loaded = TRUE]]
    OBVIOUS
  <2>3. Even(w, u)
    BY <1>1, <2>2
  <2>4. Navigate(w, req) \in {Enter(u, w.menu.parent.group, Root), Enter(w, Root, w.menu.group),
                              Enter(w, req.into, Root), w}
    BY <2>2 DEF Navigate
  <2>5. QED
    BY <1>1, <2>1, <2>3, <2>4
<1>5. QED
  BY <1>2, <1>3, <1>4

LEMMA NoteRemembers ==
  ASSUME NEW v, Numbered(v.store), NEW w, Remembers(v, w), NEW kind, NEW req
  PROVE  Remembers(v, MemoryFromField(w, kind, req))
<1>1. CASE kind = "Pins" \/ ~req.noted
  BY <1>1 DEF MemoryFromField
<1>2. CASE ~(kind = "Pins" \/ ~req.noted)
  <2>1. PICK k : k = Add(w.store, req.note)
    OBVIOUS
  <2>2. Grown(w.store, k) /\ ToSet(w.store.slots) \subseteq ToSet(k.slots)
    BY <2>1, RemembersNumbers, AddGrows
  <2>3. PICK u : u = [w EXCEPT !.store = k]
    OBVIOUS
  <2>4. Remembers(v, u)
    BY <2>2, <2>3, RemembersStore
  <2>5. PICK n : MemoryFromField(w, kind, req) = [w EXCEPT !.store = k, !.menu = n]
    BY <1>2, <2>1, RemembersNumbers DEF MemoryFromField, SessionFields
  <2>6. [w EXCEPT !.store = k, !.menu = n] = [u EXCEPT !.menu = n]
    BY <2>3, RemembersNumbers DEF SessionFields
  <2>7. Even(u, [u EXCEPT !.menu = n])
    BY <2>4, RemembersNumbers, EvenOn DEF SessionFields
  <2>8. QED
    BY <2>4, <2>5, <2>6, <2>7, RemembersEven
<1>3. QED
  BY <1>1, <1>2

LEMMA TypingRemembers ==
  ASSUME NEW v, Numbered(v.store), NEW w, Remembers(v, w), NEW req
  PROVE  Remembers(v, TypeSetting(w, req))
<1>1. CASE req.typedRow = ""
  BY <1>1 DEF TypeSetting
<1>2. CASE req.typedRow # ""
  <2>1. PICK u : u = StoreTyped(w, req.typedRow, req.typed)
    OBVIOUS
  <2>2. Remembers(v, u)
    <3>1. ASSUME NEW n PROVE Remembers(v, [w EXCEPT !.store = SetLimit(w.store, n)])
      <4>1. Grown(w.store, SetLimit(w.store, n)) /\ SetLimit(w.store, n).slots = w.store.slots
        BY RemembersNumbers, LimitGrows
      <4>2. QED
        BY <4>1, RemembersStore
    <3>2. CASE req.typedRow = "limit" /\ IsNumber(req.typed)
      <4>1. u = [w EXCEPT !.store = SetLimit(w.store, Number(req.typed))]
        BY <2>1, <3>2, RemembersNumbers DEF StoreTyped, Numeric, SessionFields
      <4>2. QED
        BY <3>1, <4>1
    <3>3. CASE req.typedRow \in Numeric /\ IsNumber(req.typed)
      <4>1. PICK k, x : u = [w EXCEPT !.live[k] = x, !.file[k] = x]
        BY <2>1, <3>3 DEF StoreTyped, Numeric
      <4>2. Even(w, [w EXCEPT !.live[k] = x, !.file[k] = x])
        BY RemembersNumbers DEF Even, SessionFields
      <4>3. QED
        BY <4>1, <4>2, RemembersEven, Zenon
    <3>4. CASE ~(req.typedRow = "limit" /\ IsNumber(req.typed))
               /\ ~(req.typedRow \in Numeric /\ IsNumber(req.typed))
      BY <2>1, <3>4 DEF StoreTyped
    <3>5. QED
      BY <3>2, <3>3, <3>4
  <2>3. PICK n : TypeSetting(w, req) = [u EXCEPT !.menu = n]
    BY <1>2, <2>1 DEF TypeSetting
  <2>4. Even(u, [u EXCEPT !.menu = n])
    BY <2>2, RemembersNumbers DEF Even, SessionFields
  <2>5. Remembers(v, [u EXCEPT !.menu = n])
    BY <2>2, <2>4, RemembersEven
  <2>6. QED
    BY <2>3, <2>5, Zenon
<1>3. QED
  BY <1>1, <1>2

LEMMA OptionEven ==
  ASSUME NEW w, DOMAIN w = SessionFields, NEW key, NEW v, NEW x
  PROVE  Even(w, ApplySlow(w, key, v)) /\ Even(w, ApplyEngine(w, key, v))
         /\ Even(w, ApplyNumber(w, key, v)) /\ Even(w, ApplySwitch(w, key, v))
<1>1. \A y : DOMAIN Keep(w, key, y) = SessionFields /\ Even(w, Keep(w, key, y))
  BY EvenKeep DEF Even
<1>2. \A y, js : Even(w, Send(Keep(w, key, y), js))
  <2>1. ASSUME NEW y, NEW js PROVE Even(w, Send(Keep(w, key, y), js))
    <3>1. Even(Keep(w, key, y), Send(Keep(w, key, y), js))
      BY <1>1, EvenSend
    <3>2. QED
      BY <1>1, <3>1, EvenTwice
  <2>2. QED
    BY <2>1
<1>3. Even(w, ApplySlow(w, key, v))
  <2>1. PICK y, js : ApplySlow(w, key, v) = Send(Keep(w, key, y), js)
    BY DEF ApplySlow
  <2>2. QED
    BY <1>2, <2>1
<1>4. Even(w, ApplyEngine(w, key, v))
  <2>1. PICK y, js : ApplyEngine(w, key, v) = Send(Keep(w, key, y), js)
    BY DEF ApplyEngine
  <2>2. QED
    BY <1>2, <2>1
<1>5. Even(w, ApplyNumber(w, key, v))
  <2>1. PICK y, z : ApplyNumber(w, key, v) = [w EXCEPT !.live[key] = y, !.file[key] = z]
    BY DEF ApplyNumber
  <2>2. Even(w, [w EXCEPT !.live[key] = y, !.file[key] = z])
    BY DEF Even, SessionFields
  <2>3. QED
    BY <2>1, <2>2, Zenon
<1>6. Even(w, ApplySwitch(w, key, v))
  BY <1>1 DEF ApplySwitch
<1>7. QED
  BY <1>3, <1>4, <1>5, <1>6

LEMMA ApplyRemembers ==
  ASSUME NEW v, Numbered(v.store), NEW w, Remembers(v, w), NEW g, NEW name, NEW x
  PROVE  Remembers(v, Apply(w, g, name, x))
<1>1. PICK k : k = SetEnabled(w.store, x = "on")
  OBVIOUS
<1>2. Grown(w.store, k) /\ k.slots = w.store.slots
  BY <1>1, RemembersNumbers, SwitchGrows
<1>3. Remembers(v, [w EXCEPT !.store = k])
  BY <1>2, RemembersStore
<1>4. PICK u : u = Apply(w, g, name, x)
  OBVIOUS
<1>5. \/ u = [w EXCEPT !.store = k]
      \/ u = ApplySlow(w, <<g, name>>, x) \/ u = ApplyEngine(w, <<g, name>>, x)
      \/ u = ApplyNumber(w, <<g, name>>, x) \/ u = ApplySwitch(w, <<g, name>>, x)
  <2>1. \A n \in {"provider", "thinking"} :
          n \notin Numeric /\ n \notin {"memory", "commentary", "expert", "working_bar", "record"}
    BY DEF Numeric
  <2>2. /\ \A n \in Numeric : n \notin {"memory", "commentary", "expert", "working_bar", "record"}
        /\ "memory" \notin {"commentary", "expert", "working_bar", "record"}
    BY DEF Numeric
  <2>3. CASE g = "slow lane" /\ name \in {"provider", "thinking"}
    BY <1>4, <2>1, <2>3 DEF Apply
  <2>4. CASE ~(g = "slow lane" /\ name \in {"provider", "thinking"}) /\ name \in Numeric
    BY <1>4, <2>1, <2>2, <2>4 DEF Apply
  <2>5. CASE ~(g = "slow lane" /\ name \in {"provider", "thinking"}) /\ name = "memory"
    <3>1. u = [w EXCEPT !.store = SetEnabled(@, x = "on")]
      BY <1>4, <2>1, <2>2, <2>5 DEF Apply
    <3>2. u = [w EXCEPT !.store = k]
      BY <1>1, <3>1, RemembersNumbers DEF SessionFields
    <3>3. QED
      BY <3>2
  <2>6. CASE name \in {"commentary", "expert", "working_bar", "record"}
    BY <1>4, <2>1, <2>2, <2>6 DEF Apply
  <2>7. CASE /\ ~(g = "slow lane" /\ name \in {"provider", "thinking"}) /\ name \notin Numeric
             /\ name # "memory" /\ name \notin {"commentary", "expert", "working_bar", "record"}
    BY <1>4, <2>7 DEF Apply
  <2>8. QED
    BY <2>3, <2>4, <2>5, <2>6, <2>7
<1>6. \/ u = [w EXCEPT !.store = k] \/ Even(w, u)
  BY <1>5, RemembersNumbers, OptionEven
<1>7. QED
  BY <1>3, <1>4, <1>6, RemembersEven

LEMMA ApplyRowRemembers ==
  ASSUME NEW v, Numbered(v.store), NEW w, Remembers(v, w), NEW g, NEW name, NEW x
  PROVE  Remembers(v, ApplyRow(w, g, name, x).w)
<1>1. CASE x = Custom
  <2>1. Remembers(v, Field(w, name))
    BY RemembersNumbers, MenusEven, RemembersEven
  <2>2. ApplyRow(w, g, name, x).w = Field(w, name)
    BY <1>1 DEF ApplyRow, Choice
  <2>3. QED
    BY <2>1, <2>2
<1>2. CASE x # Custom
  <2>1. PICK u : u = Apply(w, g, name, x)
    OBVIOUS
  <2>2. Remembers(v, u)
    BY <2>1, ApplyRemembers
  <2>3. PICK n : ApplyRow(w, g, name, x).w = [u EXCEPT !.menu = n]
    BY <1>2, <2>1 DEF ApplyRow, Choice
  <2>4. Even(u, [u EXCEPT !.menu = n])
    BY <2>2, RemembersNumbers DEF Even, SessionFields
  <2>5. Remembers(v, [u EXCEPT !.menu = n])
    BY <2>2, <2>4, RemembersEven
  <2>6. QED
    BY <2>3, <2>5, Zenon
<1>3. QED
  BY <1>1, <1>2

LEMMA CommitRemembers ==
  ASSUME NEW v, Numbered(v.store), NEW w, Remembers(v, w), NEW kind, NEW req
  PROVE  Remembers(v, Commit(w, kind, req).w)
<1> DEFINE row    == req.committed
           values == RowValues(w.menu.group, row.n)
<1>1. \A g, name, x : Remembers(v, ApplyRow(w, g, name, x).w)
  BY ApplyRowRemembers
<1>2. Remembers(v, Field(w, row.n))
  BY RemembersNumbers, MenusEven, RemembersEven
<1>3. ASSUME NEW u, NEW then PROVE Choice(u, then).w = u
  BY DEF Choice
<1>4. CASE req.picked # NoRow
  BY <1>1, <1>4 DEF Commit
<1>5. CASE req.picked = NoRow /\ (kind # "Settings" \/ row = NoRow)
  BY <1>3, <1>5 DEF Commit
<1>6. CASE req.picked = NoRow /\ ~(kind # "Settings" \/ row = NoRow)
  <2>1. PICK c : c = Commit(w, kind, req)
    OBVIOUS
  <2>2. CASE row.n \in TextEntry
    <3>1. c = Choice(Field(w, row.n), "on")
      BY <1>6, <2>1, <2>2 DEF Commit, TextEntry, OpensMenu
    <3>2. QED
      BY <1>2, <1>3, <2>1, <3>1
  <2>3. CASE row.n \in OpensMenu
    <3>1. row.n \notin TextEntry
      BY <2>3 DEF OpensMenu, TextEntry
    <3>2. PICK then : c = Choice(w, then)
      BY <1>6, <2>1, <2>3, <3>1 DEF Commit
    <3>3. QED
      BY <1>3, <2>1, <3>2
  <2>4. CASE row.n \notin TextEntry \cup OpensMenu
    <3> HIDE DEF values
    <3>0. ~(Len(values) > 2 /\ Len(values) \in 1 .. 2)
      <4>1. Len(values) \in Nat
        BY WordsOffered, LengthOfASequence, Zenon DEF values
      <4>2. QED
        BY <4>1, MoreThanTwo, Zenon
    <3>1. CASE Len(values) > 2 /\ Len(values) \notin 1 .. 2
      <4>1. c = Choice(w, "values")
        BY <1>6, <2>1, <2>4, <3>1 DEF Commit, values
      <4>2. QED
        BY <1>3, <2>1, <4>1
    <3>2. CASE ~(Len(values) > 2) /\ Len(values) \in 1 .. 2
      <4>1. c = ApplyRow(w, w.menu.group, row.n, Cycled(values, row.v))
        BY <1>6, <2>1, <2>4, <3>2 DEF Commit, values
      <4>2. QED
        BY <1>1, <2>1, <4>1
    <3>3. CASE ~(Len(values) > 2) /\ Len(values) \notin 1 .. 2
      <4>1. c = Choice(w, "on")
        BY <1>6, <2>1, <2>4, <3>3 DEF Commit, values
      <4>2. QED
        BY <1>3, <2>1, <4>1
    <3>4. QED
      BY <3>0, <3>1, <3>2, <3>3, Zenon
  <2>5. QED
    BY <2>2, <2>3, <2>4
<1>7. QED
  BY <1>4, <1>5, <1>6

LEMMA BindingEven ==
  ASSUME NEW w, DOMAIN w = SessionFields, NEW kind, NEW req, NEW slow, NEW g
  PROVE  /\ Even(w, BindSlowModel(w, kind, req)) /\ Even(w, BindFastModel(w, kind, req))
         /\ Even(w, OpenPicker(w, slow, g))
<1>0. Even(w, w)
  BY DEF Even
<1>1. ASSUME NEW u, Even(w, u), NEW n
      PROVE  /\ Even(w, [u EXCEPT !.slowShown = n]) /\ Even(w, [u EXCEPT !.menu = n])
             /\ Even(w, [u EXCEPT !.file[ModelKey] = n])
             /\ Even(w, [u EXCEPT !.file[ModelKey] = n, !.probation = n])
  BY <1>1 DEF Even, SessionFields
<1>2. Even(w, BindSlowModel(w, kind, req))
  <2>1. CASE kind # "SlowModel" \/ req.committed = NoRow \/ ~engine
    BY <1>0, <2>1 DEF BindSlowModel
  <2>2. CASE ~(kind # "SlowModel" \/ req.committed = NoRow \/ ~engine)
    <3>1. PICK u : u = Send(w, <<Job("SetSlowModel", ModelKey, req.committed.n)>>)
      OBVIOUS
    <3>2. BindSlowModel(w, kind, req) = [u EXCEPT !.slowShown = req.committed.n]
      BY <2>2, <3>1, Zenon DEF BindSlowModel
    <3>3. Even(w, [u EXCEPT !.slowShown = req.committed.n])
      BY <1>1, <3>1, EvenSend
    <3>4. QED
      BY <3>2, <3>3, Zenon
  <2>3. QED
    BY <2>1, <2>2
<1>3. Even(w, BindFastModel(w, kind, req))
  <2>1. CASE kind # "Model" \/ req.committed = NoRow \/ ~engine
    BY <1>0, <2>1 DEF BindFastModel
  <2>2. CASE ~(kind # "Model" \/ req.committed = NoRow \/ ~engine) /\ req.committed.n = "auto"
    <3>1. PICK u : u = Send(w, <<Plain("Rebind")>>)
      OBVIOUS
    <3>2. BindFastModel(w, kind, req) = [u EXCEPT !.file[ModelKey] = Absent]
      BY <2>2, <3>1, Zenon DEF BindFastModel
    <3>3. Even(w, [u EXCEPT !.file[ModelKey] = Absent])
      BY <1>1, <3>1, EvenSend
    <3>4. QED
      BY <3>2, <3>3, Zenon
  <2>3. CASE ~(kind # "Model" \/ req.committed = NoRow \/ ~engine) /\ req.committed.n # "auto"
    <3>0. PICK name : name = req.committed.n
      OBVIOUS
    <3>1. PICK u : u = Send(w, <<Job("SetModel", ModelKey, name)>>)
      OBVIOUS
    <3>2. BindFastModel(w, kind, req) = [u EXCEPT !.file[ModelKey] = name, !.probation = name]
      BY <2>3, <3>0, <3>1, Zenon DEF BindFastModel
    <3>3. Even(w, [u EXCEPT !.file[ModelKey] = name, !.probation = name])
      BY <1>1, <3>1, EvenSend
    <3>4. QED
      BY <3>2, <3>3, Zenon
  <2>4. QED
    BY <2>1, <2>2, <2>3
<1>4. Even(w, OpenPicker(w, slow, g))
  <2>1. CASE ~engine
    BY <1>0, <2>1 DEF OpenPicker
  <2>2. CASE engine
    <3>1. PICK u : u = Send(w, <<Plain(IF slow THEN "ListSlowModels" ELSE "ListModels")>>)
      OBVIOUS
    <3>2. PICK n : OpenPicker(w, slow, g) = [u EXCEPT !.menu = n]
      BY <2>2, <3>1 DEF OpenPicker
    <3>3. Even(w, [u EXCEPT !.menu = n])
      BY <1>1, <3>1, EvenSend
    <3>4. QED
      BY <3>2, <3>3, Zenon
  <2>3. QED
    BY <2>1, <2>2
<1>5. QED
  BY <1>2, <1>3, <1>4

LEMMA FinishRemembers ==
  ASSUME NEW v, Numbered(v.store), NEW c, Remembers(v, c.w), NEW kind, kind # "Memory", NEW req, NEW g
  PROVE  Remembers(v, Finish(c, kind, req, g))
<1>1. ForgetSlot(c.w, kind, req) = c.w
  BY DEF ForgetSlot
<1>2. PICK t : t = BindSlowModel(c.w, kind, req)
  OBVIOUS
<1>3. PICK a : a = BindFastModel(t, kind, req)
  OBVIOUS
<1>4. Remembers(v, t)
  BY <1>2, RemembersNumbers, BindingEven, RemembersEven
<1>5. Remembers(v, a)
  BY <1>3, <1>4, RemembersNumbers, BindingEven, RemembersEven
<1>6. PICK b : b = CASE c.then = "values"      -> OpenDropDown(a, req.committed.n)
                     [] c.then = "picker"      -> OpenPicker(a, FALSE, g)
                     [] c.then = "slow picker" -> OpenPicker(a, TRUE, g)
                     [] OTHER                  -> a
  OBVIOUS
<1>7. Remembers(v, b)
  <2>1. /\ Remembers(v, OpenDropDown(a, req.committed.n))
        /\ Remembers(v, OpenPicker(a, FALSE, g)) /\ Remembers(v, OpenPicker(a, TRUE, g))
    BY <1>5, RemembersNumbers, MenusEven, BindingEven, RemembersEven
  <2>2. b \in {OpenDropDown(a, req.committed.n), OpenPicker(a, FALSE, g), OpenPicker(a, TRUE, g), a}
    BY <1>6
  <2>3. QED
    BY <1>5, <2>1, <2>2
<1>8. PICK n : n = Navigate(b, req)
  OBVIOUS
<1>9. Remembers(v, n)
  BY <1>7, <1>8, RemembersNumbers, MenusEven, RemembersEven
<1>10. Remembers(v, [n EXCEPT !.menu = NoMenu])
  <2>1. Even(n, [n EXCEPT !.menu = NoMenu])
    BY <1>9, RemembersNumbers DEF Even, SessionFields
  <2>2. QED
    BY <1>9, <2>1, RemembersEven
<1>11. Finish(c, kind, req, g) \in {c.w, [n EXCEPT !.menu = NoMenu], n}
  BY <1>1, <1>2, <1>3, <1>6, <1>8, Zenon DEF Finish
<1>12. QED
  BY <1>9, <1>10, <1>11

LEMMA AppliedRemembers ==
  ASSUME NEW w, DOMAIN w = SessionFields, Numbered(w.store), NEW kind, kind # "Memory", NEW req, NEW g,
         NEW readable
  PROVE  Remembers(w, Applied(w, kind, req, g, readable))
<1>1. PICK a : a = PinFromField(w, kind, req, readable)
  OBVIOUS
<1>2. PICK p : p = OpenPane(a, kind, req)
  OBVIOUS
<1>3. PICK d : d = DropPin(p, kind, req)
  OBVIOUS
<1>4. PICK b : b = MemoryFromField(d, kind, req)
  OBVIOUS
<1>5. PICK t : t = TypeSetting(b, req)
  OBVIOUS
<1>6. PICK c : c = Commit(t, kind, req)
  OBVIOUS
<1>7. Remembers(w, w)
  BY GrownSelf DEF Remembers
<1>8. Remembers(w, a)
  BY <1>1, <1>7, PinsEven, RemembersEven
<1>9. Remembers(w, p)
  BY <1>2, <1>8, RemembersNumbers, PinsEven, RemembersEven
<1>10. Remembers(w, d)
  BY <1>3, <1>9, RemembersNumbers, PinsEven, RemembersEven
<1>11. Remembers(w, b)
  BY <1>4, <1>10, NoteRemembers
<1>12. Remembers(w, t)
  BY <1>5, <1>11, TypingRemembers
<1>13. Remembers(w, c.w)
  BY <1>6, <1>12, CommitRemembers
<1>14. Remembers(w, Finish(c, kind, req, g))
  BY <1>13, FinishRemembers
<1>15. Applied(w, kind, req, g, readable) = Finish(c, kind, req, g)
  BY <1>1, <1>2, <1>3, <1>4, <1>5, <1>6, Zenon DEF Applied
<1>16. QED
  BY <1>14, <1>15, Zenon

-----------------------------------------------------------------------------

StoreInv == Numbered(store) /\ MemFits(menu, store)

\* No step loses a slot that is not listed.
Kept == \A s \in ToSet(store.slots) : s \in ToSet(store'.slots) \/ SlotRow(s) \in ToSet(menu.items)

LEMMA InitStored == Init => StoreInv
<1> SUFFICES ASSUME Init PROVE StoreInv
  OBVIOUS
<1>1. store = Stored /\ menu = NoMenu
  BY DEF Init, SessionInit
<1>2. DOMAIN Stored = StoreFields /\ Stored.next \in Nat /\ ASequence(Stored.slots)
  BY StoredAssumption DEF StoreFields, ASequence
<1>3. PICK S : S = [id : Nat, text : Seq(STRING)]
  OBVIOUS
<1>4. PICK q \in Seq(S) : q = Stored.slots
  BY <1>3, StoredAssumption
<1>5. \A i \in DOMAIN q : q[i] \in S /\ q[i].id < Stored.next
  BY <1>4, StoredAssumption
<1>6. \A s \in ToSet(q) : DOMAIN s = {"id", "text"} /\ s.id \in Nat /\ s.id < Stored.next
  BY <1>3, <1>5 DEF ToSet
<1>7. Numbered(Stored)
  BY <1>2, <1>4, <1>6 DEF Numbered
<1>8. QED
  BY <1>1, <1>7, NoMenuIsRooted DEF StoreInv, MemFits

LEMMA KeysMind ==
  ASSUME TreeInv, StoreInv, NEW chunk \in Chunks, NEW readable, MenuKeys(chunk, readable)
  PROVE  StoreInv' /\ Kept
<1>1. PICK s : s = AfterKeys(menu, chunk)
  OBVIOUS
<1>2. PICK w : w = [menu |-> s.m, live |-> live, file |-> file, store |-> store, pins |-> pins,
                    slowShown |-> slowShown, probation |-> probation, jobs |-> jobs]
  OBVIOUS
<1>3. DOMAIN w = SessionFields /\ w.menu = s.m /\ w.store = store
  BY <1>2 DEF SessionFields
<1>4. PICK u : u = Applied(w, menu.kind, s.req, menu.group, readable)
  OBVIOUS
<1>5. menu' = u.menu /\ store' = u.store
  BY <1>1, <1>2, <1>4 DEF MenuKeys
<1>6. CASE menu.kind = "Memory"
  <2>1. Leafed(menu, menu) /\ Tells(menu.items, store)
    BY <1>6 DEF StoreInv, MemFits
  <2>2. Paged(menu, s)
    BY <1>1, <2>1, AfterKeysPage DEF Tells
  <2>3. Leafed(menu, w.menu) /\ Wishes(menu, s.req)
    BY <1>3, <2>2 DEF Paged
  <2>4. Minds(menu, w.store, Applied(w, "Memory", s.req, menu.group, readable))
    BY <1>3, <2>1, <2>3, MemoryApplied DEF StoreInv
  <2>5. Minds(menu, store, u)
    BY <1>3, <1>4, <1>6, <2>4
  <2>6. QED
    BY <1>5, <2>5 DEF Minds, Shown, Grown, StoreInv, Kept
<1>7. CASE menu.kind # "Memory"
  <2>1. Remembers(w, u)
    BY <1>3, <1>4, <1>7, AppliedRemembers DEF StoreInv
  <2>2. menu'.kind # "Memory"
    BY <1>7, KeysReturn DEF Came
  <2>3. QED
    BY <1>3, <1>5, <2>1, <2>2 DEF Remembers, Grown, StoreInv, MemFits, Kept
<1>8. QED
  BY <1>6, <1>7

LEMMA OpenStored ==
  ASSUME StoreInv, NEW kind \in Kinds, OpenMenu(kind)
  PROVE  StoreInv'
<1>1. menu' = Opening(kind) /\ store' = store
  BY DEF OpenMenu, settings
<1>2. ASSUME NEW k PROVE /\ DOMAIN Open(k) = MenuFields /\ Open(k).kind = k /\ Open(k).loaded = (k = "Memory")
                         /\ Open(k).cursor = 0 /\ Open(k).group = Root /\ Open(k).parent = NoParent
                         /\ Open(k).composeRow = ""
  BY DEF Open, MenuFields
<1>3. CASE kind = "Memory"
  <2>1. PICK its : its = MemoryItems(store)
    OBVIOUS
  <2>2. PICK n : n = [Open("Memory") EXCEPT !.items = its]
    OBVIOUS
  <2>3. menu' = n
    BY <1>1, <1>3, <2>1, <2>2 DEF Opening
  <2>4. PICK o : o = Open("Memory")
    OBVIOUS
  <2>5. /\ DOMAIN o = MenuFields /\ o.kind = "Memory" /\ o.loaded /\ o.cursor = 0 /\ o.group = Root
        /\ o.parent = NoParent /\ o.composeRow = ""
    BY <1>2, <2>4
  <2>6. n = [o EXCEPT !.items = its]
    BY <2>2, <2>4
  <2>7. Leafed(n, n) /\ n.items = its
    <3>1. /\ DOMAIN n = MenuFields /\ n.kind = "Memory" /\ n.loaded /\ n.cursor = 0 /\ n.group = Root
          /\ n.parent = NoParent /\ n.composeRow = "" /\ n.items = its
      BY <2>5, <2>6 DEF MenuFields
    <3>2. n.cursor \in Nat
      <4>1. 0 \in Nat
        OBVIOUS
      <4>2. QED
        BY <3>1, <4>1, Zenon
    <3>3. QED
      BY <3>1, <3>2, Zenon DEF Leafed
  <2>8. Tells(its, store)
    BY <2>1, TellsAfresh DEF StoreInv
  <2>9. QED
    BY <1>1, <2>3, <2>7, <2>8 DEF StoreInv, MemFits
<1>4. CASE kind # "Memory"
  <2>1. PICK o : o = Open("Settings") /\ DOMAIN o = MenuFields /\ o.kind = "Settings"
    BY <1>2
  <2>2. PICK q : q = Open(kind) /\ DOMAIN q = MenuFields /\ q.kind = kind
    BY <1>2
  <2>3. menu'.kind # "Memory"
    <3>1. CASE kind = "Settings"
      <4>1. PICK x : menu' = [o EXCEPT !.items = x, !.loaded = TRUE]
        BY <1>1, <2>1, <3>1 DEF Opening
      <4>2. QED
        BY <2>1, <4>1 DEF MenuFields
    <3>2. CASE kind = "Debug"
      <4>1. PICK x, y : menu' = [o EXCEPT !.items = x, !.group = y, !.loaded = TRUE]
        BY <1>1, <2>1, <3>2 DEF Opening
      <4>2. QED
        BY <2>1, <4>1 DEF MenuFields
    <3>3. CASE kind \in {"Help", "Pins"}
      <4>1. PICK x : menu' = [q EXCEPT !.items = x, !.loaded = TRUE]
        BY <1>1, <2>2, <3>3 DEF Opening
      <4>2. QED
        BY <1>4, <2>2, <4>1 DEF MenuFields
    <3>4. CASE kind \notin {"Settings", "Debug", "Help", "Memory", "Pins"}
      BY <1>1, <1>4, <2>2, <3>4 DEF Opening
    <3>5. QED
      BY <1>4, <3>1, <3>2, <3>3, <3>4
  <2>4. QED
    BY <1>1, <2>3 DEF StoreInv, MemFits
<1>5. QED
  BY <1>3, <1>4

LEMMA ReadStored ==
  ASSUME TreeInv, StoreInv, ReadEvent
  PROVE  StoreInv' /\ Kept
<1>1. store' = store
  BY DEF ReadEvent, ReadReady, ReadCaps, ReadModels, settings
<1>2. menu.kind = "Memory" => menu' = menu
  BY DEF StoreInv, MemFits, Leafed, ReadEvent, ReadReady, ReadCaps, ReadModels
<1>3. menu.kind # "Memory" => menu'.kind # "Memory"
  BY ReadRooted DEF Came
<1>4. QED
  BY <1>1, <1>2, <1>3 DEF StoreInv, MemFits, Kept

LEMMA StepStored ==
  ASSUME TreeInv, StoreInv, [Next]_vars
  PROVE  StoreInv' /\ ((menu # NoMenu /\ menu' # menu) => Kept)
<1>1. CASE UNCHANGED <<menu, store>>
  BY <1>1 DEF StoreInv, MemFits
<1>2. CASE AtKeyboard
  <2>1. ASSUME NEW kind \in Kinds, OpenMenu(kind) PROVE StoreInv' /\ menu = NoMenu
    BY <2>1, OpenStored DEF OpenMenu
  <2>2. ASSUME NEW name, NEW save, NameModel(name, save) PROVE UNCHANGED <<menu, store>>
    BY <2>2 DEF NameModel
  <2>3. ASSUME NEW name, NameSlowModel(name) PROVE UNCHANGED <<menu, store>>
    BY <2>3 DEF NameSlowModel, settings
  <2>4. ASSUME NEW c \in Commands, MemoryCommand(c) PROVE StoreInv' /\ menu = NoMenu
    <3>1. menu = NoMenu /\ menu' = menu /\ store' = Commanded(store, c)
      BY <2>4 DEF MemoryCommand
    <3>2. Numbered(store')
      BY <3>1, CommandNumbers DEF StoreInv
    <3>3. QED
      BY <3>1, <3>2, NoMenuIsRooted DEF StoreInv, MemFits
  <2>5. QED
    BY <1>1, <1>2, <2>1, <2>2, <2>3, <2>4, KeysMind DEF AtKeyboard
<1>3. CASE FromEngine
  <2>1. CASE EngineLost
    BY <1>1, <2>1 DEF EngineLost, settings
  <2>2. ASSUME NEW a \in Answers, AnswerRewrites(a[1], a[2]) PROVE StoreInv' /\ menu' = menu
    <3>1. menu' = menu /\ store' = Rewrite(store, a[1], a[2])
      BY <2>2 DEF AnswerRewrites
    <3>2. Grown(store, store')
      BY <3>1, RewriteGrows DEF StoreInv
    <3>3. menu.kind = "Memory" => Tells(menu.items, store')
      BY <3>2, TellsLater DEF StoreInv, MemFits
    <3>4. QED
      BY <3>1, <3>2, <3>3 DEF StoreInv, MemFits, Grown
  <2>3. QED
    BY <1>1, <1>3, <2>1, <2>2, ReadStored DEF FromEngine
<1>4. CASE UNCHANGED sessionVars
  BY <1>1, <1>4 DEF sessionVars
<1>5. CASE UNCHANGED vars
  BY <1>1, <1>5 DEF vars, sessionVars
<1>6. QED
  BY <1>2, <1>3, <1>4, <1>5 DEF Next

\* A menu makes the store forget only what its list showed: the same id with
\* the same note, whatever answers rewrote the store since the list was made
\* (memory.rs: ids are not reused).
THEOREM ForgetsTheShown == Spec => ForgetsWhatItShowed
<1>1. ASSUME Numbered(store), Kept
      PROVE  \A i \in DOMAIN store.slots :
               store.slots[i].id \notin SlotIds(store') => SlotRow(store.slots[i]) \in ToSet(menu.items)
  <2>1. \A i \in DOMAIN store.slots : store.slots[i] \in ToSet(store.slots)
    BY DEF ToSet
  <2>2. \A s \in ToSet(store'.slots) : s.id \in SlotIds(store')
    BY DEF ToSet, SlotIds
  <2>3. QED
    BY <1>1, <2>1, <2>2 DEF Kept
<1>2. TreeInv /\ StoreInv /\ [Next]_vars => StoreInv' /\ TreeInv'
  BY StepStored, StepReturns
<1>3. TreeInv /\ StoreInv /\ [Next]_vars =>
        [(menu # NoMenu /\ menu' # menu) =>
           \A i \in DOMAIN store.slots :
              store.slots[i].id \notin SlotIds(store') => SlotRow(store.slots[i]) \in ToSet(menu.items)]_vars
  BY <1>1, StepStored DEF StoreInv
<1>4. QED
  BY <1>2, <1>3, InitRooted, InitStored, PTL DEF Spec, ForgetsWhatItShowed

=============================================================================
