--------------------------- MODULE PaintLoopProofs ---------------------------
(***************************************************************************)
(* No key is lost or overtaken, for any number of keys, menus, resizes and *)
(* outputs, when the user waits for a `#/` line to be answered and does    *)
(* not have goulash type for them.                                         *)
(***************************************************************************)
EXTENDS PaintLoop, TLAPS

\* A menu answers the last key delivered, so it opens on an empty hold, and
\* nothing is delivered until it has been closed and the hold let go.
HoldInv ==
  /\ shell \in Seq(Nat) /\ held \in Seq(Nat) /\ typed \in Nat /\ opened \in Nat
  /\ opened <= Len(shell)
  /\ menu \/ holding => opened = Len(shell)
  /\ menu \/ ~holding => held = <<>>
  /\ Len(shell) + Len(held) = typed
  /\ \A i \in 1 .. Len(shell) : shell[i] = i
  /\ \A i \in 1 .. Len(held) : held[i] = Len(shell) + i

\* A session the order of whose keys is promised.
Plain == ~how.handoffs /\ ~how.typeAhead

LEMMA Joined ==
  ASSUME NEW s \in Seq(Nat), NEW t \in Seq(Nat)
  PROVE  /\ s \o t \in Seq(Nat) /\ Len(s \o t) = Len(s) + Len(t)
         /\ \A i \in 1 .. Len(s) : (s \o t)[i] = s[i]
         /\ \A i \in 1 .. Len(t) : (s \o t)[Len(s) + i] = t[i]
         /\ \A i \in 1 .. Len(s) + Len(t) : i > Len(s) => (s \o t)[i] = t[i - Len(s)]
  OBVIOUS

LEMMA Pushed ==
  ASSUME NEW s \in Seq(Nat), NEW x \in Nat
  PROVE  /\ Append(s, x) \in Seq(Nat) /\ Len(Append(s, x)) = Len(s) + 1
         /\ Append(s, x)[Len(s) + 1] = x
         /\ \A i \in 1 .. Len(s) : Append(s, x)[i] = s[i]
  OBVIOUS

\* What the invariant says of the whole sequence.
LEMMA HoldInvOrders == HoldInv => KeysInOrder
<1> SUFFICES ASSUME HoldInv PROVE shell \o held = [i \in 1 .. typed |-> i]
  BY DEF KeysInOrder
<1>1. shell \o held \in Seq(Nat) /\ Len(shell \o held) = typed
  BY Joined DEF HoldInv
<1>2. \A i \in 1 .. typed : (shell \o held)[i] = i
  <2> SUFFICES ASSUME NEW i \in 1 .. typed PROVE (shell \o held)[i] = i
    OBVIOUS
  <2>1. CASE i \in 1 .. Len(shell)
    BY <2>1, Joined DEF HoldInv
  <2>2. CASE i > Len(shell)
    <3>1. (shell \o held)[i] = held[i - Len(shell)] /\ i - Len(shell) \in 1 .. Len(held)
      BY <2>2, Joined DEF HoldInv
    <3>2. QED
      BY <3>1 DEF HoldInv
  <2>3. QED
    BY <2>1, <2>2 DEF HoldInv
<1>3. DOMAIN (shell \o held) = 1 .. typed
  <2> DEFINE q == shell \o held
  <2>1. q \in Seq(Nat) /\ Len(q) = typed
    BY <1>1
  <2> HIDE DEF q
  <2>2. DOMAIN q = 1 .. typed
    BY <2>1
  <2>3. QED
    BY <2>2 DEF q
<1>4. shell \o held = [i \in DOMAIN (shell \o held) |-> (shell \o held)[i]]
  <2> DEFINE q == shell \o held
  <2>1. q \in Seq(Nat)
    BY <1>1
  <2> HIDE DEF q
  <2>2. q = [i \in DOMAIN q |-> q[i]]
    BY <2>1
  <2>3. QED
    BY <2>2 DEF q
<1>5. QED
  BY <1>2, <1>3, <1>4

\* A repaint, or its refusal, with no menu opened or closed by the same step.
LEMMA RedrawHoldInv ==
  ASSUME HoldInv, NEW at, NEW rows, NEW wrapped, NEW seen, Redraw(at, rows, wrapped, seen),
         UNCHANGED typed,
         \/ UNCHANGED <<menu, opened>>
         \/ ~holding /\ menu' = TRUE /\ opened' = Len(shell)
  PROVE  HoldInv'
<1>1. CASE UNCHANGED <<shell, holding, held>>
  BY <1>1 DEF HoldInv
<1>2. CASE shell' = shell \o held /\ holding' = FALSE /\ held' = <<>>
  <2>1. /\ shell' \in Seq(Nat) /\ Len(shell') = Len(shell) + Len(held)
        /\ \A i \in 1 .. Len(shell) : shell'[i] = shell[i]
        /\ \A i \in 1 .. Len(shell) + Len(held) : i > Len(shell) => shell'[i] = held[i - Len(shell)]
    BY <1>2, Joined DEF HoldInv
  <2>2. held' \in Seq(Nat) /\ Len(held') = 0
    BY <1>2
  <2>3. \A i \in 1 .. Len(shell') : shell'[i] = i
    <3> SUFFICES ASSUME NEW i \in 1 .. Len(shell') PROVE shell'[i] = i
      OBVIOUS
    <3>1. CASE i \in 1 .. Len(shell)
      BY <2>1, <3>1 DEF HoldInv
    <3>2. CASE i > Len(shell)
      <4>1. i - Len(shell) \in 1 .. Len(held) /\ shell'[i] = held[i - Len(shell)]
        BY <2>1, <3>2 DEF HoldInv
      <4>2. QED
        BY <4>1 DEF HoldInv
    <3>3. QED
      BY <2>1, <3>1, <3>2 DEF HoldInv
  <2>4. menu' => opened' = Len(shell')
    <3>1. menu' => held = <<>> /\ opened' = Len(shell)
      BY DEF HoldInv
    <3>2. QED
      BY <2>1, <3>1 DEF HoldInv
  <2>5. opened' \in Nat /\ opened' <= Len(shell')
    BY <2>1 DEF HoldInv
  <2>6. QED
    BY <1>2, <2>1, <2>2, <2>3, <2>4, <2>5 DEF HoldInv
<1>3. QED
  BY <1>1, <1>2 DEF Redraw, Paint, Skip

LEMMA MenuOpens ==
  ASSUME HoldInv, ~how.typeAhead, MaybeMenu
  PROVE  \/ UNCHANGED <<menu, opened>>
         \/ ~holding /\ menu' = TRUE /\ opened' = Len(shell)
  BY DEF MaybeMenu, HoldInv

LEMMA StepHoldInv ==
  ASSUME HoldInv, Plain, [Next]_vars
  PROVE  HoldInv'
<1> USE DEF keys, screen, flags, world, Plain
<1>1. CASE UNCHANGED <<shell, held, typed, opened, menu, holding>>
  BY <1>1 DEF HoldInv
<1>2. CASE \/ Resize \/ SpuriousWinch \/ Age \/ Poll \/ PassOver \/ Winch \/ Event \/ Active \/ Insure
           \/ UNCHANGED vars
  BY <1>1, <1>2 DEF Resize, SpuriousWinch, Age, Poll, PassOver, Winch, Event, Active, Insure, vars
<1>3. CASE PlainOutput
  <2>1. UNCHANGED <<shell, held, typed, holding>>
    BY <1>3 DEF PlainOutput
  <2>2. CASE UNCHANGED <<menu, opened>>
    BY <1>1, <2>1, <2>2
  <2>3. CASE ~holding /\ menu' = TRUE /\ opened' = Len(shell)
    BY <2>1, <2>3 DEF HoldInv
  <2>4. QED
    BY <1>3, <2>2, <2>3, MenuOpens DEF PlainOutput
<1>4. CASE TriggerOutput
  BY <1>4, MenuOpens, RedrawHoldInv DEF TriggerOutput
<1>5. CASE Settle
  <2>1. CASE winch = "ripe" /\ term # layout
    BY <1>5, <2>1, RedrawHoldInv DEF Settle
  <2>2. CASE ~(winch = "ripe" /\ term # layout)
    BY <1>1, <1>5, <2>2 DEF Settle
  <2>3. QED
    BY <2>1, <2>2
<1>6. CASE IdlePaint
  <2>1. CASE Want # last
    BY <1>6, <2>1, RedrawHoldInv DEF IdlePaint
  <2>2. CASE Want = last
    BY <1>1, <1>6, <2>2 DEF IdlePaint
  <2>3. QED
    BY <2>1, <2>2
<1>7. CASE MenuKey
  <2>1. CASE UNCHANGED <<menu, holding, held>>
    BY <1>1, <1>7, <2>1 DEF MenuKey
  <2>2. CASE menu' = FALSE /\ holding' = TRUE /\ held' = <<>>
    BY <1>7, <2>2 DEF MenuKey, HoldInv
  <2>3. QED
    BY <1>7, <2>1, <2>2 DEF MenuKey
<1>8. CASE LineKey
  <2>1. CASE holding
    <3>1. held' = Append(held, typed + 1) /\ typed + 1 \in Nat /\ held \in Seq(Nat)
      BY <1>8, <2>1 DEF LineKey, HoldInv
    <3>2. /\ held' \in Seq(Nat) /\ Len(held') = Len(held) + 1 /\ held'[Len(held) + 1] = typed + 1
          /\ \A i \in 1 .. Len(held) : held'[i] = held[i]
      BY <3>1, Pushed
    <3>3. \A i \in 1 .. Len(held') : i \in 1 .. Len(held) \/ i = Len(held) + 1
      BY <3>1, <3>2
    <3>4. \A i \in 1 .. Len(held') : held'[i] = Len(shell) + i
      <4>1. \A i \in 1 .. Len(held) : held'[i] = Len(shell) + i
        BY <3>2 DEF HoldInv
      <4>2. held'[Len(held) + 1] = Len(shell) + (Len(held) + 1)
        <5>1. Len(shell) \in Nat /\ Len(held) \in Nat /\ typed = Len(shell) + Len(held)
          BY DEF HoldInv
        <5>2. QED
          BY <3>2, <5>1
      <4>3. QED
        BY <3>3, <4>1, <4>2
    <3>5. QED
      BY <1>8, <2>1, <3>2, <3>4 DEF LineKey, HoldInv
  <2>2. CASE ~holding
    <3>1. /\ shell' \in Seq(Nat) /\ Len(shell') = Len(shell) + 1 /\ shell'[Len(shell) + 1] = typed + 1
          /\ \A i \in 1 .. Len(shell) : shell'[i] = shell[i]
      BY <1>8, <2>2, Pushed DEF LineKey, HoldInv
    <3>2. held = <<>> /\ Len(held) = 0 /\ Len(shell) = typed
      BY <2>2 DEF HoldInv
    <3>3. \A i \in 1 .. Len(shell') : shell'[i] = i
      BY <3>1, <3>2 DEF HoldInv
    <3>4. QED
      BY <1>8, <2>2, <3>1, <3>2, <3>3 DEF LineKey, HoldInv
  <2>3. QED
    BY <2>1, <2>2
<1>9. QED
  BY <1>2, <1>3, <1>4, <1>5, <1>6, <1>7, <1>8 DEF Next, World, Pass, Handoff

\* Every key typed at the line reaches the shell, once and in order, however
\* menus, the hold, resizes and the wrap guard interleave.
THEOREM NoKeyLost == Spec => []KeysInOrder
<1> DEFINE I == Plain => HoldInv
<1>1. Init => I
  BY DEF Init, HoldInv
<1>2. I /\ [Next]_vars => I'
  <2>1. [Next]_vars => how' = how
    BY DEF Next, vars
  <2>2. QED
    BY <2>1, StepHoldInv DEF Plain
<1>3. I => KeysInOrder
  BY HoldInvOrders DEF KeysInOrder, Plain
<1>4. QED
  BY <1>1, <1>2, <1>3, PTL DEF Spec
=============================================================================
