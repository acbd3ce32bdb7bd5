--------------------------- MODULE TwoLaneProofs ---------------------------
(***************************************************************************)
(* The shot is for the last thing the user did, superseded research is     *)
(* doomed, a finding comes home, words are of the turn that vended their   *)
(* command, the band of a question shows no tip, and the stack stays still *)
(* under its reader: for any number of acts, on every rung of opt_slow,    *)
(* with relays and commentary on or off, whatever the models answer and    *)
(* however late, and whatever the worker does while a call is being sent.  *)
(***************************************************************************)
EXTENDS TwoLane, WellFoundedInduction, TLAPS

\* What the user did is numbered in order.
Order ==
  /\ acts \in 0 .. MaxActs /\ moved \in 0 .. acts /\ asked \in 0 .. acts /\ running \in 0 .. acts
  /\ next_sid \in Turns /\ vend_id \in Nat
  /\ slow_after_fast \in Shots
  /\ events \in Seq(Event)

\* A chat opens without a shot: one that waits in it was armed in it, by a mark.
Shot == ShotIsForTheLastAct /\ (slow_after_fast # NoShot /\ InChat => slow_after_fast.ahead)

\* What is being sent is not stale; and a cancel comes with the flag, which no
\* one lowers but the worker's pass, that takes the cancel too or slipped in
\* before it.
Cancelling == Has("cancel") \/ Calling("cancel")
Doom ==
  /\ jobs \in Seq(Job) /\ sending \in Seq(Job \cup {Raise})
  /\ work \in Job \cup {Idle} /\ pending \in Job \cup {Idle}
  /\ \A i \in DOMAIN sending : ~Stale(sending[i], asked)
  /\ SupersededIsDoomed
  /\ Cancelling => preempt \/ slipped

IInv == Order /\ Shot /\ Doom

-----------------------------------------------------------------------------
(* The queue *)

LEMMA Joined ==
  ASSUME NEW S, NEW q \in Seq(S), NEW new \in Seq(S)
  PROVE  /\ q \o new \in Seq(S) /\ Len(q) \in Nat /\ Len(new) \in Nat
         /\ Len(q \o new) = Len(q) + Len(new)
         /\ \A i \in 1 .. Len(q) : (q \o new)[i] = q[i]
         /\ \A i \in 1 .. Len(new) : (q \o new)[Len(q) + i] = new[i]
  OBVIOUS

\* Jobs that are not stale leave what was covered covered, and what is in the
\* channel in it.
LEMMA FreshJobs ==
  ASSUME NEW q \in Seq(Job), NEW new \in Seq(Job), NEW question \in Nat,
         Covered(q, question), \A i \in 1 .. Len(new) : ~Stale(new[i], question)
  PROVE  Covered(q \o new, question)
<1> DEFINE r == q \o new
<1>1. /\ r \in Seq(Job) /\ Len(q) \in Nat /\ Len(new) \in Nat /\ Len(r) = Len(q) + Len(new)
      /\ \A i \in 1 .. Len(q) : r[i] = q[i]
      /\ \A i \in 1 .. Len(new) : r[Len(q) + i] = new[i]
  BY Joined
<1> HIDE DEF r
<1>2. ASSUME NEW i \in DOMAIN r, Stale(r[i], question)
      PROVE  \E k \in DOMAIN r : k > i /\ r[k].kind = "cancel"
  <2>1. CASE i \in 1 .. Len(q)
    <3>1. PICK k \in DOMAIN q : k > i /\ q[k].kind = "cancel"
      BY <1>1, <1>2, <2>1 DEF Covered
    <3>2. QED
      BY <1>1, <3>1
  <2>2. CASE i > Len(q)
    <3>1. i - Len(q) \in 1 .. Len(new) /\ r[i] = new[i - Len(q)]
      BY <1>1, <2>2
    <3>2. QED
      BY <1>2, <3>1
  <2>3. QED
    BY <1>1, <2>1, <2>2
<1>3. QED
  BY <1>2 DEF Covered, r

\* A cancel covers everything before it.
LEMMA CancelCovers ==
  ASSUME NEW q \in Seq(Job), NEW new \in Seq(Job), NEW question \in Nat,
         Len(new) > 0, new[1].kind = "cancel",
         \A i \in 1 .. Len(new) : ~Stale(new[i], question)
  PROVE  Covered(q \o new, question)
<1> DEFINE r == q \o new
<1>1. /\ r \in Seq(Job) /\ Len(q) \in Nat /\ Len(new) \in Nat /\ Len(r) = Len(q) + Len(new)
      /\ \A i \in 1 .. Len(q) : r[i] = q[i]
      /\ \A i \in 1 .. Len(new) : r[Len(q) + i] = new[i]
  BY Joined
<1> HIDE DEF r
<1>2. Len(q) + 1 \in DOMAIN r /\ r[Len(q) + 1].kind = "cancel"
  BY <1>1
<1>3. ASSUME NEW i \in DOMAIN r, Stale(r[i], question) PROVE i < Len(q) + 1
  <2>1. CASE i > Len(q)
    <3>1. i - Len(q) \in 1 .. Len(new) /\ r[i] = new[i - Len(q)]
      BY <1>1, <2>1
    <3>2. QED
      BY <1>3, <3>1
  <2>2. QED
    BY <1>1, <2>1
<1>4. QED
  BY <1>1, <1>2, <1>3 DEF Covered, r

\* What is in the channel stays in it as it grows.
LEMMA CancelKept ==
  ASSUME NEW q \in Seq(Job), NEW new \in Seq(Job)
  PROVE  /\ (\E i \in DOMAIN q : q[i].kind = "cancel")
              => \E i \in DOMAIN (q \o new) : (q \o new)[i].kind = "cancel"
         /\ (\E i \in DOMAIN (q \o new) : (q \o new)[i].kind = "cancel")
              => \/ \E i \in DOMAIN q : q[i].kind = "cancel"
                 \/ \E i \in DOMAIN new : new[i].kind = "cancel"
         /\ (\E i \in DOMAIN new : new[i].kind = "cancel")
              => \E i \in DOMAIN (q \o new) : (q \o new)[i].kind = "cancel"
<1> DEFINE r == q \o new
<1>1. /\ r \in Seq(Job) /\ Len(q) \in Nat /\ Len(new) \in Nat /\ Len(r) = Len(q) + Len(new)
      /\ \A i \in 1 .. Len(q) : r[i] = q[i]
      /\ \A i \in 1 .. Len(new) : r[Len(q) + i] = new[i]
  BY Joined
<1> HIDE DEF r
<1>2. (\E i \in DOMAIN q : q[i].kind = "cancel") => \E i \in DOMAIN r : r[i].kind = "cancel"
  BY <1>1
<1>3. (\E i \in DOMAIN new : new[i].kind = "cancel") => \E i \in DOMAIN r : r[i].kind = "cancel"
  <2>1. ASSUME NEW i \in DOMAIN new, new[i].kind = "cancel"
        PROVE  Len(q) + i \in DOMAIN r /\ r[Len(q) + i].kind = "cancel"
    BY <1>1, <2>1
  <2>2. QED
    BY <2>1
<1>4. ASSUME NEW i \in DOMAIN r, r[i].kind = "cancel"
      PROVE  \/ \E k \in DOMAIN q : q[k].kind = "cancel"
             \/ \E k \in DOMAIN new : new[k].kind = "cancel"
  <2>1. CASE i \in 1 .. Len(q)
    BY <1>1, <1>4, <2>1
  <2>2. CASE i > Len(q)
    <3>1. i - Len(q) \in 1 .. Len(new) /\ r[i] = new[i - Len(q)]
      BY <1>1, <2>2
    <3>2. QED
      BY <1>1, <1>4, <3>1
  <2>3. QED
    BY <1>1, <2>1, <2>2
<1>5. QED
  BY <1>2, <1>3, <1>4 DEF r

\* The calls still to be made.
LEMMA Unsent ==
  ASSUME NEW S, NEW q \in Seq(S), q # <<>>
  PROVE  /\ Tail(q) \in Seq(S) /\ Head(q) = q[1] /\ q[1] \in S /\ 1 \in DOMAIN q
         /\ \A i \in DOMAIN Tail(q) : i + 1 \in DOMAIN q /\ Tail(q)[i] = q[i + 1]
         /\ \A i \in DOMAIN q : i # 1 => i - 1 \in DOMAIN Tail(q) /\ Tail(q)[i - 1] = q[i]
  OBVIOUS

-----------------------------------------------------------------------------
(* What a submission leaves doomed *)

\* Jobs that are not stale, and cancel nothing.
LEMMA Submits ==
  ASSUME Doom, asked \in Nat, NEW js \in Seq(Job), Submit(js),
         UNCHANGED <<asked, work, pending, calling, slipped>>,
         \A i \in 1 .. Len(js) : ~Stale(js[i], asked),
         \A i \in DOMAIN js : js[i].kind # "cancel"
  PROVE  Doom'
<1>1. jobs' = jobs \o js /\ jobs \in Seq(Job) /\ UNCHANGED <<sending, preempt>>
  BY DEF Submit, Doom, calling
<1>2. jobs' \in Seq(Job)
  BY <1>1, Joined
<1>3. Calling("cancel")' <=> Calling("cancel")
  BY <1>1 DEF Calling
<1>4. Covered(jobs', asked) \/ Calling("cancel")
  BY <1>1, FreshJobs DEF Doom, SupersededIsDoomed
<1>5. (Has("cancel")' <=> Has("cancel"))
  BY <1>1, CancelKept DEF Has
<1>6. SupersededIsDoomed'
  BY <1>1, <1>3, <1>4, <1>5 DEF Doom, SupersededIsDoomed
<1>7. QED
  BY <1>1, <1>2, <1>3, <1>5, <1>6 DEF Doom, Cancelling

\* The flag is up, and the jobs are on their way: a cancel among them if the
\* question is new.
LEMMA Interrupts ==
  ASSUME Doom, NEW js \in Seq(Job \cup {Raise}), Interrupt(js),
         UNCHANGED <<work, pending, slipped>>,
         \A i \in DOMAIN js : ~Stale(js[i], asked'),
         (asked' = asked /\ sending = <<>>) \/ (\E i \in DOMAIN js : js[i].kind = "cancel")
  PROVE  Doom'
<1>1. sending' = js /\ preempt' = TRUE /\ jobs' = jobs
  BY DEF Interrupt
<1>2. CASE \E i \in DOMAIN js : js[i].kind = "cancel"
  <2>1. Calling("cancel")'
    BY <1>1, <1>2 DEF Calling
  <2>2. SupersededIsDoomed'
    BY <1>1, <2>1 DEF SupersededIsDoomed
  <2>3. QED
    BY <1>1, <2>2 DEF Doom
<1>3. CASE asked' = asked /\ sending = <<>>
  <2>1. ~Calling("cancel") /\ (Has("cancel")' <=> Has("cancel"))
    BY <1>1, <1>3 DEF Calling, Has
  <2>2. SupersededIsDoomed'
    BY <1>1, <1>3, <2>1 DEF Doom, SupersededIsDoomed
  <2>3. QED
    BY <1>1, <2>2 DEF Doom
<1>4. QED
  BY <1>2, <1>3

\* A cancel in front of them: whatever the question now is.
LEMMA Supersedes ==
  ASSUME Doom, NEW js \in Seq(Job \cup {Raise}), Supersede(js),
         UNCHANGED <<work, pending, slipped>>,
         \A i \in 1 .. Len(js) : ~Stale(js[i], asked')
  PROVE  Doom'
<1> DEFINE new == <<Cancel>> \o js
<1>1. Cancel \in Job /\ ~Stale(Cancel, asked') /\ Cancel.kind = "cancel"
  BY BoundsAssumption DEF Job, Cancel, Stale, NoJob
<1>2. Interrupt(new)
  BY DEF Supersede
<1>3. /\ new \in Seq(Job \cup {Raise}) /\ Len(new) = Len(js) + 1 /\ Len(js) \in Nat
      /\ new[1] = Cancel /\ \A i \in 1 .. Len(js) : new[i + 1] = js[i]
  BY <1>1
<1> HIDE DEF new
<1>4. new[1].kind = "cancel" /\ 1 \in DOMAIN new
  BY <1>1, <1>3
<1>5. \A i \in DOMAIN new : ~Stale(new[i], asked')
  <2>1. ASSUME NEW i \in 1 .. Len(new) PROVE ~Stale(new[i], asked')
    <3>1. CASE i = 1
      BY <1>1, <1>3, <3>1
    <3>2. CASE i # 1
      <4>1. i - 1 \in 1 .. Len(js) /\ new[i] = js[i - 1]
        BY <1>3, <3>2
      <4>2. QED
        BY <4>1
    <3>3. QED
      BY <3>1, <3>2
  <2>2. QED
    BY <1>3, <2>1
<1>6. QED
  BY <1>2, <1>3, <1>4, <1>5, Interrupts

\* The next of the jobs on their way gets there.
LEMMA SendStep ==
  ASSUME IInv, Send
  PROVE  IInv'
<1>1. /\ sending # <<>> /\ sending' = Tail(sending)
      /\ UNCHANGED <<acts, session, events, worker, history, slipped>>
  BY DEF Send
<1>2. UNCHANGED <<work, pending, asked, slow_after_fast, moved, chat, running, next_sid, vend_id>>
  BY <1>1 DEF session, worker, history, slowLane, shell, focus, stack
<1>3. Order' /\ Shot'
  BY <1>1, <1>2 DEF IInv, Order, Shot, ShotIsForTheLastAct, InChat
<1> DEFINE job == Head(sending)
<1>4. sending \in Seq(Job \cup {Raise}) /\ jobs \in Seq(Job)
  BY DEF IInv, Doom
<1>5. /\ sending' \in Seq(Job \cup {Raise}) /\ job = sending[1] /\ sending[1] \in Job \cup {Raise}
      /\ 1 \in DOMAIN sending
      /\ \A i \in DOMAIN sending' : i + 1 \in DOMAIN sending /\ sending'[i] = sending[i + 1]
      /\ \A i \in DOMAIN sending : i # 1 => i - 1 \in DOMAIN sending' /\ sending'[i - 1] = sending[i]
  BY <1>1, <1>4, Unsent, Zenon
<1>6. /\ \A i \in DOMAIN sending' : ~Stale(sending'[i], asked)
      /\ ~Stale(job, asked) /\ asked \in Nat
  BY <1>5, BoundsAssumption DEF IInv, Doom, Order
<1>7. (Calling("cancel")' => Calling("cancel")) /\ (Calling("cancel") => job.kind = "cancel" \/ Calling("cancel")')
  BY <1>5 DEF Calling
<1> HIDE DEF job
<1>8. CASE job = Raise
  <2>1. job.kind # "cancel"
    BY <1>8 DEF Raise, NoJob
  <2>2. jobs' = jobs /\ preempt' = TRUE
    BY <1>8 DEF Send, job
  <2>3. (Has("cancel")' <=> Has("cancel")) /\ (Calling("cancel")' <=> Calling("cancel"))
    BY <1>7, <2>1, <2>2 DEF Has
  <2>4. SupersededIsDoomed'
    BY <1>2, <2>2, <2>3 DEF IInv, Doom, SupersededIsDoomed
  <2>5. QED
    BY <1>2, <1>3, <1>5, <1>6, <2>2, <2>4 DEF IInv, Doom
<1>9. CASE job # Raise
  <2> DEFINE js == <<job>>
  <2>1. Submit(js) /\ preempt' = preempt
    BY <1>9 DEF Send, job
  <2>2. job \in Job /\ js \in Seq(Job) /\ Len(js) = 1 /\ js[1] = job
    BY <1>5, <1>9
  <2> HIDE DEF js
  <2>3. jobs' = jobs \o js /\ jobs' \in Seq(Job)
    BY <1>4, <2>1, <2>2, Joined DEF Submit
  <2>4. \A i \in 1 .. Len(js) : ~Stale(js[i], asked)
    BY <1>6, <2>2
  <2>5. Has("cancel") => Has("cancel")'
    BY <1>4, <2>2, <2>3, CancelKept DEF Has
  <2>6. CASE job.kind = "cancel"
    <3>1. Covered(jobs', asked)
      BY <1>4, <1>6, <2>2, <2>3, <2>4, <2>6, CancelCovers
    <3>2. 1 \in DOMAIN js /\ js[1].kind = "cancel"
      BY <2>2, <2>6
    <3>3. Has("cancel")'
      BY <1>4, <2>2, <2>3, <3>2, CancelKept DEF Has
    <3>4. Calling("cancel")
      BY <1>5, <2>6 DEF Calling
    <3>5. preempt' \/ slipped'
      BY <1>1, <2>1, <3>4 DEF IInv, Doom, Cancelling
    <3>6. SupersededIsDoomed'
      BY <1>2, <3>1, <3>3, <3>5 DEF SupersededIsDoomed
    <3>7. QED
      BY <1>2, <1>3, <1>5, <1>6, <2>3, <3>5, <3>6 DEF IInv, Doom
  <2>7. CASE job.kind # "cancel"
    <3>1. Calling("cancel")' <=> Calling("cancel")
      BY <1>7, <2>7
    <3>2. \A i \in DOMAIN js : js[i].kind # "cancel"
      BY <2>2, <2>7
    <3>3. Has("cancel")' <=> Has("cancel")
      BY <1>4, <2>2, <2>3, <2>5, <3>2, CancelKept DEF Has
    <3>4. Covered(jobs, asked) => Covered(jobs', asked)
      BY <1>4, <1>6, <2>2, <2>3, <2>4, FreshJobs
    <3>5. SupersededIsDoomed'
      BY <1>1, <1>2, <2>1, <3>1, <3>3, <3>4 DEF IInv, Doom, SupersededIsDoomed
    <3>6. QED
      BY <1>1, <1>2, <1>3, <1>5, <1>6, <2>1, <2>3, <3>1, <3>3, <3>5 DEF IInv, Doom, Cancelling
  <2>8. QED
    BY <2>6, <2>7
<1>10. QED
  BY <1>8, <1>9

\* Nothing: the worker may begin research that is not stale, or drop any, and
\* the flag may only rise.
LEMMA Spares ==
  ASSUME Doom, UNCHANGED <<jobs, sending, asked, slipped>>, preempt => preempt',
         work' \in {Idle, work, pending}, pending' \in {Idle, pending}
  PROVE  Doom'
<1>1. Idle.kind # "research"
  BY DEF Idle, NoJob
<1>2. work' \in Job \cup {Idle} /\ pending' \in Job \cup {Idle}
  BY DEF Doom
<1>3. Covered(jobs', asked') \/ Calling("cancel")'
  BY DEF Doom, SupersededIsDoomed, Calling
<1>4. (Has("cancel")' <=> Has("cancel")) /\ (Calling("cancel")' <=> Calling("cancel"))
  BY DEF Has, Calling
<1>5. Stale(pending', asked') => Cancelling
  BY <1>1 DEF Doom, SupersededIsDoomed, Stale, Cancelling
<1>6. Stale(work', asked') => Cancelling
  BY <1>1 DEF Doom, SupersededIsDoomed, Stale, Cancelling
<1>7. Cancelling' <=> Cancelling
  BY <1>4 DEF Cancelling
<1>8. Cancelling' => preempt' \/ slipped'
  BY <1>7 DEF Doom
<1>9. SupersededIsDoomed'
  BY <1>3, <1>5, <1>6, <1>7, <1>8 DEF SupersededIsDoomed, Cancelling
<1>10. QED
  BY <1>2, <1>8, <1>9 DEF Doom

-----------------------------------------------------------------------------
(* What the user does *)

\* A shot, armed or disarmed.
LEMMA ArmedIs ==
  ASSUME NEW of \in 0 .. MaxActs, NEW unprompted \in BOOLEAN, NEW question \in 0 .. MaxActs
  PROVE  /\ Armed(of, unprompted, question) \in Shots /\ NoShot \in Shots
         /\ Armed(of, unprompted, question).of = of
         /\ Armed(of, unprompted, question).asked = question
         /\ Armed(of, unprompted, question).ahead = InChat
<1>1. InChat \in BOOLEAN /\ 0 \in 0 .. MaxActs
  BY BoundsAssumption DEF InChat
<1>2. QED
  BY <1>1 DEF Armed, Shots, NoShot

\* An act is one more.
Acted == acts' = acts + 1 /\ acts' \in 1 .. MaxActs
LEMMA Acting ==
  ASSUME Order, NEW doing, Act(doing)
  PROVE  Acted
  BY BoundsAssumption DEF Order, Act, Acted

\* A job for a question is not about an older one.
Anew(js) ==
  js \in Seq(Job \cup {Raise}) /\ js \in Seq(Job) /\ \A i \in 1 .. Len(js) : ~Stale(js[i], asked')
LEMMA AsksAnew ==
  ASSUME Order, Acted, asked' = acts'
  PROVE  Anew(<<Asking(acts')>>) /\ Anew(<<Researching(acts', next_sid, acts')>>)
<1>1. acts' \in 0 .. MaxActs /\ 0 \in 0 .. MaxActs
  BY BoundsAssumption DEF Acted
<1>2. Asking(acts') \in Job /\ Researching(acts', next_sid, acts') \in Job
  BY <1>1 DEF Order, Job, Asking, NoJob, Researching, Turns
<1>3. ~Stale(Asking(acts'), asked') /\ ~Stale(Researching(acts', next_sid, acts'), asked')
  BY <1>1 DEF Stale, Asking, NoJob, Researching
<1>4. QED
  BY <1>2, <1>3 DEF Anew

\* The shell's and the chat's questions.
LEMMA QuestionStep ==
  ASSUME IInv, Hash \/ HashSlow \/ ChatAsk \/ ChatSlow
  PROVE  IInv'
<1>1. Acted /\ asked' = acts'
  BY Acting DEF IInv, Hash, HashSlow, ChatAsk, ChatSlow, Question
<1>2. acts' = acts + 1 /\ acts' \in 0 .. MaxActs /\ acts \in Nat
  BY <1>1, BoundsAssumption DEF Acted, IInv, Order
<1>3. Order'
  <2>1. next_sid' \in Turns /\ vend_id' \in Nat /\ events' = events /\ running' = running
    <3>1. next_sid' \in {next_sid, next_sid + 1} /\ vend_id' \in {vend_id, 0}
          /\ UNCHANGED <<events, running>>
      <4>1. CASE Hash
        BY <4>1 DEF Hash, Vending, stack, shell
      <4>2. CASE HashSlow
        BY <4>2 DEF HashSlow, shell
      <4>3. CASE ChatAsk
        BY <4>3 DEF ChatAsk, session, stack, shell
      <4>4. CASE ChatSlow
        BY <4>4 DEF ChatSlow, shell
      <4>5. QED
        BY <4>1, <4>2, <4>3, <4>4
    <3>2. QED
      BY <3>1 DEF IInv, Order, Turns
  <2>2. moved' \in {moved, acts'}
    BY DEF Hash, HashSlow, ChatAsk, ChatSlow, Question
  <2>3. slow_after_fast' \in Shots
    <3>1. CASE Hash
      BY <1>2, <3>1, ArmedIs DEF Hash
    <3>2. CASE HashSlow
      BY <1>2, <3>2, ArmedIs DEF HashSlow, Mark
    <3>3. CASE ChatAsk \/ ChatSlow
      BY <3>3 DEF IInv, Order, ChatAsk, ChatSlow, session, slowLane
    <3>4. QED
      BY <3>1, <3>2, <3>3
  <2>4. moved' \in 0 .. acts' /\ asked' \in 0 .. acts' /\ running' \in 0 .. acts'
    BY <1>1, <1>2, <2>1, <2>2 DEF IInv, Order
  <2>5. QED
    BY <1>2, <2>1, <2>3, <2>4 DEF IInv, Order
<1>4. Shot'
  <2>1. CASE Hash
    <3>1. slow_after_fast' = NoShot \/ slow_after_fast' = Armed(acts', FALSE, acts')
      BY <2>1 DEF Hash
    <3>2. moved' = acts' /\ (InChat' <=> InChat)
      BY <2>1 DEF Hash, Question, InChat
    <3> DEFINE shot == Armed(acts', FALSE, acts')
    <3>3. shot.of = acts' /\ shot.asked = acts' /\ shot.ahead = InChat
      BY <1>2, ArmedIs
    <3> HIDE DEF shot
    <3>4. CASE slow_after_fast' = shot
      BY <1>1, <3>2, <3>3, <3>4 DEF Shot, ShotIsForTheLastAct
    <3>5. QED
      BY <3>1, <3>4 DEF shot, Shot, ShotIsForTheLastAct
  <2>2. CASE HashSlow
    BY <2>2 DEF HashSlow, Mark, Shot, ShotIsForTheLastAct
  <2>3. CASE ChatAsk \/ ChatSlow
    <3>1. UNCHANGED <<slow_after_fast, moved, chat>> /\ InChat
      BY <2>3 DEF ChatAsk, ChatSlow, session, slowLane, focus, InChat
    <3>2. QED
      BY <3>1 DEF IInv, Shot, ShotIsForTheLastAct, InChat
  <2>4. QED
    BY <2>1, <2>2, <2>3
<1>5. Doom'
  <2>1. UNCHANGED <<work, pending, slipped>>
    BY DEF Hash, HashSlow, ChatAsk, ChatSlow, worker
  <2>2. \/ Supersede(<<Asking(acts')>>)
        \/ Supersede(<<Researching(acts', next_sid, acts')>>)
    BY DEF Hash, HashSlow, ChatAsk, ChatSlow
  <2>3. PICK js : Anew(js) /\ Supersede(js)
    BY <1>1, <2>2, AsksAnew DEF IInv
  <2>4. QED
    BY <2>1, <2>3, Supersedes DEF IInv, Anew
<1>6. QED
  BY <1>3, <1>4, <1>5 DEF IInv

\* One job that asks about nothing is sent, the flag up.
LEMMA OneSent ==
  ASSUME Doom, sending = <<>>, NEW job \in {Cancel, Control}, Interrupt(<<job>>),
         UNCHANGED <<asked, work, pending, slipped>>
  PROVE  Doom'
<1> DEFINE js == <<job>>
<1>1. job \in Job /\ ~Stale(job, asked')
  BY BoundsAssumption DEF Job, Cancel, Control, NoJob, Stale
<1>2. /\ js \in Seq(Job \cup {Raise}) /\ (\A i \in DOMAIN js : ~Stale(js[i], asked'))
      /\ Interrupt(js)
  BY <1>1
<1> HIDE DEF js
<1>3. QED
  BY <1>2, Interrupts

\* What else a mark or a chat message does to the channel.
LEMMA SlashStep ==
  ASSUME Doom, sending = <<>>, SlashCommand, UNCHANGED <<asked, work, pending, slipped>>
  PROVE  Doom'
<1>1. CASE \E job \in {Cancel, Control} : Interrupt(<<job>>)
  BY <1>1, OneSent
<1>2. CASE UNCHANGED <<jobs, calling>>
  BY <1>2, Spares DEF Doom, calling
<1>3. QED
  BY <1>1, <1>2 DEF SlashCommand

\* A pin verb, and the question a name may be for the model.
LEMMA AtStep ==
  ASSUME Doom, Order, Acted, UNCHANGED <<asked, work, pending, calling, slipped>>,
         Submit(<<Asking(acts')>>) \/ UNCHANGED jobs
  PROVE  Doom'
<1>1. acts' \in 0 .. MaxActs /\ asked \in Nat /\ 0 \in 0 .. MaxActs
  BY BoundsAssumption DEF Order, Acted
<1>2. Asking(acts') \in Job /\ Asking(acts').kind # "cancel" /\ ~Stale(Asking(acts'), asked)
  BY <1>1 DEF Job, Asking, NoJob, Stale
<1>3. CASE Submit(<<Asking(acts')>>)
  <2> DEFINE js == <<Asking(acts')>>
  <2>1. /\ js \in Seq(Job) /\ (\A i \in 1 .. Len(js) : ~Stale(js[i], asked))
        /\ (\A i \in DOMAIN js : js[i].kind # "cancel") /\ Submit(js)
    BY <1>2, <1>3
  <2> HIDE DEF js
  <2>2. QED
    BY <1>1, <2>1, Submits
<1>4. CASE UNCHANGED jobs
  BY <1>4, Spares DEF Doom, calling
<1>5. QED
  BY <1>3, <1>4

\* The other marks at the prompt disarm the shot.
LEMMA MarkStep ==
  ASSUME IInv, sending = <<>>, HashCancel \/ HashHash \/ HashAt \/ HashSlash
  PROVE  IInv'
<1>1. Acted /\ Mark
  BY Acting DEF IInv, HashCancel, HashHash, HashAt, HashSlash
<1>2. acts' = acts + 1 /\ acts' \in 0 .. MaxActs /\ acts \in Nat /\ asked \in Nat
  BY <1>1, BoundsAssumption DEF IInv, Order, Acted
<1>3. Order'
  <2>1. UNCHANGED <<events, vend_id, next_sid, running>> /\ slow_after_fast' = NoShot
    BY <1>1 DEF HashCancel, HashHash, HashAt, HashSlash, stack, shell, Mark
  <2>2. (asked' = acts' /\ moved' = acts') \/ UNCHANGED <<asked, moved>>
    BY DEF HashCancel, HashHash, HashAt, HashSlash, history, Question
  <2>3. NoShot \in Shots
    BY <1>2, ArmedIs
  <2>4. QED
    BY <1>2, <2>1, <2>2, <2>3 DEF IInv, Order
<1>4. Shot'
  BY <1>1 DEF Shot, ShotIsForTheLastAct, Mark
<1>5. Doom'
  <2>1. UNCHANGED <<work, pending, slipped>>
    BY DEF HashCancel, HashHash, HashAt, HashSlash, worker
  <2>2. CASE HashCancel
    <3>1. PICK js \in {<<Raise, Cancel>>, <<>>} : Supersede(js)
      BY <2>2 DEF HashCancel
    <3>2. Cancel \in Job
      BY BoundsAssumption DEF Job, Cancel, NoJob
    <3>3. <<Raise, Cancel>> \in Seq(Job \cup {Raise}) /\ <<>> \in Seq(Job \cup {Raise})
      BY <3>2
    <3>4. \A i \in 1 .. Len(js) : ~Stale(js[i], asked')
      BY DEF Stale, Raise, Cancel, NoJob
    <3>5. QED
      BY <2>1, <3>1, <3>3, <3>4, Supersedes DEF IInv
  <2>3. CASE Question /\ Supersede(<<Asking(acts')>>)
    <3>1. PICK js : Anew(js) /\ Supersede(js)
      BY <1>1, <2>3, AsksAnew DEF IInv, Question
    <3>2. QED
      BY <2>1, <3>1, Supersedes DEF IInv, Anew
  <2>4. CASE Supersede(<<>>)
    <3>1. <<>> \in Seq(Job \cup {Raise}) /\ \A i \in 1 .. Len(<<>>) : ~Stale(<<>>[i], asked')
      OBVIOUS
    <3>2. QED
      BY <2>1, <2>4, <3>1, Supersedes DEF IInv
  <2>5. CASE HashAt
    BY <1>1, <2>1, <2>5, AtStep DEF IInv, HashAt, history
  <2>6. CASE HashSlash
    BY <2>1, <2>6, SlashStep DEF IInv, HashSlash, history
  <2>7. QED
    BY <2>2, <2>3, <2>4, <2>5, <2>6 DEF HashHash
<1>6. QED
  BY <1>3, <1>4, <1>5 DEF IInv

\* The chat's other messages, the arrows and the handoff leave the shot alone.
LEMMA ChatStep ==
  ASSUME IInv, sending = <<>>, ChatAt \/ ChatSlash \/ Browse
  PROVE  IInv'
<1>1. ChatAt \/ ChatSlash => Acted
  BY Acting DEF IInv, ChatAt, ChatSlash
<1>2. /\ acts' \in 0 .. MaxActs /\ acts' >= acts /\ acts \in Nat
      /\ UNCHANGED <<asked, moved, work, pending, vend_id, next_sid, events, slow_after_fast, running,
                     slipped>>
  BY <1>1, BoundsAssumption
     DEF IInv, Order, Acted, ChatAt, ChatSlash, Browse, session, shell, stack, slowLane, worker, history
<1>3. Order'
  BY <1>2 DEF IInv, Order
<1>4. Shot'
  <2>1. InChat' => InChat
    BY DEF ChatAt, ChatSlash, Browse, InChat, session, focus
  <2>2. QED
    BY <1>2, <2>1 DEF IInv, Shot, ShotIsForTheLastAct, NoShot
<1>5. Doom'
  <2>1. CASE ChatAt
    BY <1>1, <1>2, <2>1, AtStep DEF IInv, ChatAt
  <2>2. CASE ChatSlash
    BY <1>2, <2>2, SlashStep DEF IInv, ChatSlash
  <2>3. CASE Browse
    BY <1>2, <2>3, Spares DEF IInv, Browse, calling
  <2>4. QED
    BY <2>1, <2>2, <2>3
<1>6. QED
  BY <1>3, <1>4, <1>5 DEF IInv

\* A command run, or a bare Enter.
LEMMA CmdStartStep ==
  ASSUME IInv, sending = <<>>, CmdStart
  PROVE  IInv'
<1>1. Acted
  BY Acting DEF IInv, CmdStart
<1>2. /\ acts' = acts + 1 /\ acts' \in 0 .. MaxActs /\ acts \in Nat /\ running' = acts'
      /\ UNCHANGED <<asked, work, pending, slipped, vend_id, next_sid, events, chat>>
  BY <1>1, BoundsAssumption DEF IInv, Order, Acted, CmdStart, stack, worker
<1>3. \/ UNCHANGED <<slow_after_fast, moved>>
      \/ slow_after_fast' = NoShot /\ moved' = acts'
  BY DEF CmdStart
<1>4. Order'
  <2>1. NoShot \in Shots
    BY <1>2, ArmedIs
  <2>2. QED
    BY <1>2, <1>3, <2>1 DEF IInv, Order
<1>5. Shot'
  BY <1>2, <1>3 DEF IInv, Shot, ShotIsForTheLastAct, InChat
<1>6. Doom'
  <2>1. CASE Interrupt(<<Cancel>>)
    BY <1>2, <2>1, OneSent DEF IInv
  <2>2. CASE UNCHANGED <<jobs, calling>>
    BY <1>2, <2>2, Spares DEF IInv, calling
  <2>3. QED
    BY <2>1, <2>2 DEF CmdStart
<1>7. QED
  BY <1>4, <1>5, <1>6 DEF IInv

\* ... and its end, with the commentary on it.
LEMMA CmdEndStep ==
  ASSUME IInv, CmdEnd
  PROVE  IInv'
<1>1. /\ acts \in 0 .. MaxActs /\ asked \in 0 .. acts /\ running \in 0 .. acts /\ next_sid' \in Turns
      /\ UNCHANGED <<acts, asked, work, pending, slipped, calling, events, chat>> /\ running' = 0
  BY BoundsAssumption DEF IInv, Order, CmdEnd, stack, worker, focus, Turns
<1>2. \/ UNCHANGED <<slow_after_fast, moved, vend_id, jobs>>
      \/ /\ slow_after_fast' \in {NoShot, Armed(running, TRUE, asked)}
         /\ moved' = running /\ vend_id' = 0 /\ Submit(<<Watching(running)>>)
  BY DEF CmdEnd, Vending
<1>3. running \in 0 .. MaxActs /\ asked \in 0 .. MaxActs /\ asked \in Nat /\ 0 \in 0 .. acts
      /\ 0 \in 0 .. MaxActs
  BY <1>1, BoundsAssumption
<1>4. Order'
  <2>1. slow_after_fast' \in Shots
    BY <1>2, <1>3, ArmedIs DEF IInv, Order
  <2>2. moved' \in {moved, running} /\ vend_id' \in {vend_id, 0}
    BY <1>2
  <2>3. moved' \in 0 .. acts /\ vend_id' \in Nat
    BY <1>1, <2>2 DEF IInv, Order
  <2>4. QED
    BY <1>1, <1>3, <2>1, <2>3 DEF IInv, Order
<1>5. Shot'
  <2>1. InChat' <=> InChat
    BY <1>1 DEF InChat
  <2>2. CASE UNCHANGED <<slow_after_fast, moved>>
    BY <1>1, <2>1, <2>2 DEF IInv, Shot, ShotIsForTheLastAct
  <2>3. CASE slow_after_fast' = NoShot
    BY <2>3 DEF Shot, ShotIsForTheLastAct
  <2>4. CASE slow_after_fast' = Armed(running, TRUE, asked) /\ moved' = running
    <3> DEFINE shot == Armed(running, TRUE, asked)
    <3>1. shot.of = running /\ shot.asked = asked /\ shot.ahead = InChat
      BY <1>3, ArmedIs
    <3>2. slow_after_fast' = shot
      BY <2>4
    <3> HIDE DEF shot
    <3>3. QED
      BY <1>1, <2>1, <2>4, <3>1, <3>2 DEF Shot, ShotIsForTheLastAct
  <2>5. QED
    BY <1>2, <2>2, <2>3, <2>4
<1>6. Doom'
  <2>1. CASE Submit(<<Watching(running)>>)
    <3> DEFINE js == <<Watching(running)>>
    <3>1. /\ js \in Seq(Job) /\ (\A i \in 1 .. Len(js) : ~Stale(js[i], asked)) /\ Submit(js)
          /\ \A i \in DOMAIN js : js[i].kind # "cancel"
      BY <1>3, <2>1 DEF Job, Watching, NoJob, Stale
    <3> HIDE DEF js
    <3>2. QED
      BY <1>1, <1>3, <3>1, Submits DEF IInv
  <2>2. CASE UNCHANGED jobs
    BY <1>1, <2>2, Spares DEF IInv, Doom, calling
  <2>3. QED
    BY <1>2, <2>1, <2>2
<1>7. QED
  BY <1>4, <1>5, <1>6 DEF IInv

-----------------------------------------------------------------------------
(* What the session hears *)

\* What is left of the events.
LEMMA Heard ==
  ASSUME events \in Seq(Event), NEW kinds, Handle(kinds)
  PROVE  Head(events) \in Event /\ events' \in Seq(Event)
  BY DEF Handle

\* The shot goes off with the newest question's number: the research is not
\* stale.
LEMMA FireStep ==
  ASSUME IInv, NEW turn \in Nat, Submit(<<Researching(slow_after_fast.of, turn, asked)>>),
         UNCHANGED <<asked, work, pending, calling, slipped>>
  PROVE  Doom'
<1> DEFINE js == <<Researching(slow_after_fast.of, turn, asked)>>
<1>1. slow_after_fast.of \in 0 .. MaxActs /\ asked \in 0 .. MaxActs /\ asked \in Nat
  BY BoundsAssumption DEF IInv, Order, Shots
<1>2. /\ js \in Seq(Job) /\ (\A i \in 1 .. Len(js) : ~Stale(js[i], asked)) /\ Submit(js)
      /\ \A i \in DOMAIN js : js[i].kind # "cancel"
  BY <1>1 DEF Job, Researching, Stale
<1> HIDE DEF js
<1>3. QED
  BY <1>1, <1>2, Submits DEF IInv

\* An answer, whosever it is, or a failure, spends the shot.
LEMMA SpendStep ==
  ASSUME IInv, HandleAnswer \/ HandleError
  PROVE  IInv'
<1>1. /\ slow_after_fast' = NoShot /\ next_sid \in Nat /\ vend_id \in Nat /\ 0 \in 0 .. MaxActs
      /\ UNCHANGED <<acts, asked, moved, work, pending, calling, slipped, running>>
  BY BoundsAssumption DEF IInv, Order, HandleAnswer, HandleError, Hear, shell, worker, history, Turns
<1>2. vend_id' \in Nat /\ next_sid' \in Turns
  BY DEF IInv, Order, HandleAnswer, HandleError, history, Turns
<1>3. Order'
  <2>1. NoShot \in Shots
    BY <1>1, ArmedIs
  <2>2. events' \in Seq(Event)
    BY Heard DEF IInv, Order, HandleAnswer, HandleError
  <2>3. QED
    BY <1>1, <1>2, <2>1, <2>2 DEF IInv, Order
<1>4. Shot'
  BY <1>1 DEF Shot, ShotIsForTheLastAct
<1>5. Doom'
  <2>1. \/ UNCHANGED jobs
        \/ \E turn \in Nat : Submit(<<Researching(slow_after_fast.of, turn, asked)>>)
    <3>1. CASE HandleAnswer
      BY <1>1, <3>1 DEF HandleAnswer, Fire
    <3>2. CASE HandleError
      BY <1>1, <3>2 DEF HandleError, Fire
    <3>3. QED
      BY <3>1, <3>2
  <2>2. QED
    BY <1>1, <2>1, FireStep, Spares DEF IInv, Doom, calling
<1>6. QED
  BY <1>3, <1>4, <1>5 DEF IInv

\* Everything else it hears, and a tick: the shot stays, and the only job there
\* may be is a relay to the fast lane.
LEMMA HearStep ==
  ASSUME IInv, HandleCommand \/ HandlePartial \/ HandleResearching \/ HandleFinding \/ Land
  PROVE  IInv'
<1>1. asked \in Nat /\ UNCHANGED <<acts, asked, moved, work, pending, calling, slipped, chat, running,
                                  slow_after_fast>>
  <2>1. asked \in Nat
    BY BoundsAssumption DEF IInv, Order
  <2>2. CASE HandleCommand
    BY <2>1, <2>2 DEF HandleCommand, Hear, shell, focus, worker, slowLane
  <2>3. CASE HandlePartial \/ HandleResearching
    BY <2>1, <2>3 DEF HandlePartial, HandleResearching, shell, focus, worker, history, slowLane
  <2>4. CASE HandleFinding
    BY <2>1, <2>4 DEF HandleFinding, shell, focus, worker, history
  <2>5. CASE Land
    BY <2>1, <2>5, Zenon DEF Land, shell, focus, worker, history
  <2>6. QED
    BY <2>2, <2>3, <2>4, <2>5
<1>2. vend_id' \in Nat /\ next_sid' \in Turns
  <2>1. CASE HandleCommand
    BY <2>1 DEF IInv, Order, HandleCommand, Turns
  <2>2. CASE HandlePartial \/ HandleResearching \/ HandleFinding \/ Land
    BY <2>2 DEF IInv, Order, HandlePartial, HandleResearching, HandleFinding, Land, stack
  <2>3. QED
    BY <2>1, <2>2
<1>3. events' \in Seq(Event)
  BY Heard DEF IInv, Order, HandleCommand, HandlePartial, HandleResearching, HandleFinding, Land
<1>4. Order'
  BY <1>1, <1>2, <1>3 DEF IInv, Order
<1>5. Shot'
  BY <1>1 DEF IInv, Shot, ShotIsForTheLastAct, InChat
<1>6. Doom'
  <2>1. \/ UNCHANGED jobs
        \/ HandleFinding /\ Submit(<<Asking(Head(events).of)>>)
    BY DEF HandleCommand, HandlePartial, HandleResearching, HandleFinding, Land
  <2>2. CASE HandleFinding /\ Submit(<<Asking(Head(events).of)>>)
    <3> DEFINE js == <<Asking(Head(events).of)>>
    <3>1. Head(events).of \in 0 .. MaxActs /\ 0 \in 0 .. MaxActs
      BY <2>2, Heard, BoundsAssumption DEF IInv, Order, HandleFinding, Event
    <3>2. /\ js \in Seq(Job) /\ (\A i \in 1 .. Len(js) : ~Stale(js[i], asked)) /\ Submit(js)
          /\ \A i \in DOMAIN js : js[i].kind # "cancel"
      BY <2>2, <3>1 DEF Job, Asking, NoJob, Stale
    <3> HIDE DEF js
    <3>3. QED
      BY <1>1, <3>2, Submits DEF IInv
  <2>3. QED
    BY <1>1, <2>1, <2>2, Spares DEF IInv, calling
<1>7. QED
  BY <1>4, <1>5, <1>6 DEF IInv

-----------------------------------------------------------------------------
(* What the worker does *)

\* None of it touches what the session and its user have.
LEMMA WorkerLeaves ==
  ASSUME IInv, Worker, Doom', events' \in Seq(Event)
  PROVE  IInv'
<1>1. UNCHANGED <<acts, asked, moved, next_sid, vend_id, slow_after_fast, chat, running>>
  BY DEF Worker, Take, StreamCommand, StreamPartial, AskEnds, Pick, ResearchEnds, session, shell,
     focus, stack, slowLane, history
<1>2. Order'
  BY <1>1 DEF IInv, Order
<1>3. Shot'
  BY <1>1 DEF IInv, Shot, ShotIsForTheLastAct, InChat
<1>4. QED
  BY <1>2, <1>3 DEF IInv

\* What it sends, whatever the order.
LEMMA Sent ==
  ASSUME MaxActs \in Nat
  PROVE  /\ \A turn \in Nat : Now(turn) \in Event
         /\ \A of \in 0 .. MaxActs, turn \in Nat, cmd \in MaybeCmd,
               kind \in {"Command", "Partial", "Answer", "Comment", "Pass", "Error", "Finding"} :
              /\ [Event0(kind, of) EXCEPT !.cmd = cmd] \in Event /\ Event0(kind, of) \in Event
              /\ [kind |-> kind, of |-> of, turn |-> turn, cmd |-> cmd] \in Event
  BY DEF Event, Event0, Now, MaybeCmd

\* A pass takes the cancels with what they cancel, but for one that is on its
\* way: then it slipped.
LEMMA TakeStep ==
  ASSUME IInv, Take
  PROVE  IInv'
<1>1. /\ jobs \in Seq(Job) /\ jobs' = <<>> /\ asked' = asked /\ sending' = sending
      /\ slipped' = Calling("cancel") /\ (Calling("cancel")' <=> Calling("cancel"))
  BY DEF IInv, Doom, Take, history, Calling
<1>2. pending' \in Job \cup {Idle} /\ (Stale(pending', asked) => Calling("cancel"))
  <2>1. CASE \E i \in Newest(Uncancelled) : pending' = jobs[i]
    <3>1. PICK i \in Uncancelled : pending' = jobs[i]
      BY <2>1 DEF Newest
    <3>2. i \in DOMAIN jobs /\ jobs[i] \in Job
      BY <1>1, <3>1 DEF Uncancelled
    <3>3. Stale(jobs[i], asked) => Calling("cancel")
      BY <1>1, <3>1, <3>2 DEF IInv, Doom, SupersededIsDoomed, Covered, Uncancelled
    <3>4. QED
      BY <3>1, <3>2, <3>3
  <2>2. CASE pending' = IF Has("cancel") THEN Idle ELSE pending
    BY <2>2 DEF IInv, Doom, SupersededIsDoomed, Stale, Idle, NoJob
  <2>3. QED
    BY <2>1, <2>2 DEF Take
<1>3. work' \in Job \cup {Idle} /\ ~Stale(work', asked)
  <2>1. CASE \E i \in Newest(Asks) : work' = jobs[i]
    BY <1>1, <2>1 DEF Newest, Asks, Stale
  <2>2. CASE work' = Idle
    BY <2>2 DEF Stale, Idle, NoJob
  <2>3. QED
    BY <2>1, <2>2 DEF Take
<1>4. Doom'
  BY <1>1, <1>2, <1>3 DEF IInv, Doom, Cancelling, SupersededIsDoomed, Covered, Has
<1>5. events' \in Seq(Event)
  <2> DEFINE lost == <<Event0("Error", 0)>>
             cleared == IF Has("cancel") THEN <<Now(0)>> ELSE <<>>
  <2>1. lost \in Seq(Event) /\ cleared \in Seq(Event)
    <3>1. Event0("Error", 0) \in Event /\ Now(0) \in Event
      BY BoundsAssumption DEF Event, Event0, Now, MaybeCmd
    <3>2. QED
      BY <3>1
  <2>2. \E reply \in {<<>>, lost} : Emit(cleared \o reply) \/ Emit(cleared \o reply \o lost)
    BY DEF Take
  <2> HIDE DEF lost, cleared
  <2>3. PICK reply \in {<<>>, lost} : Emit(cleared \o reply) \/ Emit(cleared \o reply \o lost)
    BY <2>2
  <2>4. reply \in Seq(Event)
    <3>1. <<>> \in Seq(Event)
      OBVIOUS
    <3>2. QED
      BY <2>1, <2>3, <3>1, Zenon
  <2>5. cleared \o reply \in Seq(Event) /\ cleared \o reply \o lost \in Seq(Event)
    BY <2>1, <2>4
  <2>6. \A es \in Seq(Event) : Emit(es) => events' \in Seq(Event)
    BY DEF Emit, IInv, Order
  <2>7. QED
    BY <2>3, <2>5, <2>6
<1>6. QED
  BY <1>4, <1>5, WorkerLeaves DEF Worker

\* The rest leaves the channel alone: research in hand is what was pending.
LEMMA WorkStep ==
  ASSUME IInv, StreamCommand \/ StreamPartial \/ AskEnds \/ Pick \/ ResearchEnds
  PROVE  IInv'
<1>1. /\ UNCHANGED <<jobs, asked, preempt, sending, slipped>>
      /\ work' \in {Idle, work, pending} /\ pending' \in {Idle, pending}
  BY DEF StreamCommand, StreamPartial, AskEnds, Pick, ResearchEnds, worker, calling, history
<1>2. Doom'
  BY <1>1, Spares DEF IInv
<1>3. events' \in Seq(Event)
  <2>1. /\ events \in Seq(Event) /\ work \in Job \cup {Idle} /\ pending \in Job \cup {Idle}
    BY DEF IInv, Order, Doom
  <2>2. /\ work.of \in 0 .. MaxActs /\ work.turn \in Nat /\ pending.turn \in Nat
    BY <2>1, BoundsAssumption DEF Job, Idle, NoJob
  <2>3. /\ \A turn \in Nat : Now(turn) \in Event
        /\ \A of \in 0 .. MaxActs, turn \in Nat, cmd \in MaybeCmd,
              kind \in {"Command", "Partial", "Answer", "Comment", "Pass", "Error", "Finding"} :
             /\ [Event0(kind, of) EXCEPT !.cmd = cmd] \in Event /\ Event0(kind, of) \in Event
             /\ [kind |-> kind, of |-> of, turn |-> turn, cmd |-> cmd] \in Event
    BY Sent, BoundsAssumption
  <2>4. NoCmd \in MaybeCmd /\ Cmds \subseteq MaybeCmd /\ 0 \in 0 .. MaxActs /\ 0 \in Nat
    BY BoundsAssumption DEF MaybeCmd
  <2>5. \A e \in Event : Emit(<<e>>) => events' \in Seq(Event)
    BY <2>1 DEF Emit
  <2>6. \A e, f \in Event : Emit(<<e, f>>) => events' \in Seq(Event)
    BY <2>1 DEF Emit
  <2>7. CASE StreamCommand
    BY <2>2, <2>3, <2>4, <2>5, <2>7 DEF StreamCommand
  <2>8. CASE StreamPartial
    BY <2>2, <2>3, <2>4, <2>5, <2>8 DEF StreamPartial
  <2>9. CASE AskEnds
    BY <2>1, <2>2, <2>3, <2>4, <2>5, <2>9 DEF AskEnds
  <2>10. CASE Pick
    BY <2>1, <2>2, <2>3, <2>4, <2>5, <2>10 DEF Pick
  <2>11. CASE ResearchEnds
    BY <2>2, <2>3, <2>4, <2>5, <2>6, <2>11 DEF ResearchEnds
  <2>12. QED
    BY <2>7, <2>8, <2>9, <2>10, <2>11
<1>4. QED
  BY <1>2, <1>3, WorkerLeaves DEF Worker

-----------------------------------------------------------------------------
(* The theorems *)

LEMMA Starts == Init => IInv
<1>1. /\ 0 \in 0 .. MaxActs /\ NoShot \in Shots
      /\ <<>> \in Seq(Event) /\ <<>> \in Seq(Job) /\ <<>> \in Seq(Job \cup {Raise})
  BY BoundsAssumption DEF NoShot, Shots
<1>2. QED
  BY <1>1 DEF Init, IInv, Order, Shot, ShotIsForTheLastAct, Doom, Cancelling, SupersededIsDoomed,
     Covered, Stale, Has, Calling, Idle, NoJob, Turns

LEMMA Preserved == IInv /\ [Next]_vars => IInv'
<1> SUFFICES ASSUME IInv, [Next]_vars PROVE IInv'
  OBVIOUS
<1>1. CASE UNCHANGED vars
  <2>1. UNCHANGED <<jobs, sending, asked, slipped, preempt, work, pending, acts, moved, running,
                    next_sid, vend_id, slow_after_fast, events, chat>>
    BY <1>1 DEF vars, session, shell, focus, stack, slowLane, worker, calling, history
  <2>2. Order' /\ Shot'
    BY <2>1 DEF IInv, Order, Shot, ShotIsForTheLastAct, InChat
  <2>3. QED
    BY <2>1, <2>2, Spares DEF IInv
<1>2. CASE sending = <<>> /\ User
  BY <1>2, QuestionStep, MarkStep, ChatStep, CmdStartStep, CmdEndStep DEF User
<1>3. CASE Handler
  BY <1>3, SpendStep, HearStep DEF Handler
<1>4. CASE Worker
  BY <1>4, TakeStep, WorkStep DEF Worker
<1>5. QED
  BY <1>1, <1>2, <1>3, <1>4, SendStep DEF Next

LEMMA Inductive == Spec => []IInv
  BY Starts, Preserved, PTL DEF Spec

\* The shot waiting for the fast lane's answer is for the last thing the user did
\* at the shell and for the newest question, or was armed under a chat by a line
\* typed ahead: by whichever mark, key or event the user moved on, run() in
\* session.rs disarms it or arms it anew.
THEOREM ShotFollowsTheUser == Spec => []ShotIsForTheLastAct
<1>1. IInv => ShotIsForTheLastAct
  BY DEF IInv, Shot
<1>2. QED
  BY <1>1, Inductive, PTL

\* Research sent before the newest question never outlives the worker's next
\* pass: Engine::supersede's cancel is in the channel, or about to be, with the
\* flag up; unless that pass drained the channel between the flag and the cancel.
\* And a shot that goes off late does not bring an old question back as new.
THEOREM SupersededDies == Spec => []SupersededIsDoomed
<1>1. IInv => SupersededIsDoomed
  BY DEF IInv, Doom
<1>2. QED
  BY <1>1, Inductive, PTL

-----------------------------------------------------------------------------
(* The band *)

\* A band a question opened never shows a tip.
BandIsHeard ==
  /\ band \in [asked : BOOLEAN, text : {"none", "waiting", "answer", "finding", "comment", "error"}]
  /\ band.asked => band.text # "comment"

Yields == (band.asked /\ acts' = acts) => band'.asked /\ band'.text # "comment"

\* Whatever is said in it.
LEMMA BandKept ==
  ASSUME BandIsHeard,
         \/ UNCHANGED band
         \/ \E text \in {"answer", "error", "finding"} : band' = [band EXCEPT !.text = text]
         \/ ~band.asked /\ band' = [asked |-> FALSE, text |-> "comment"]
  PROVE  BandIsHeard' /\ Yields
<1>1. CASE UNCHANGED band
  BY <1>1 DEF BandIsHeard, Yields
<1>2. CASE \E text \in {"answer", "error", "finding"} : band' = [band EXCEPT !.text = text]
  BY <1>2 DEF BandIsHeard, Yields
<1>3. CASE ~band.asked /\ band' = [asked |-> FALSE, text |-> "comment"]
  BY <1>3 DEF BandIsHeard, Yields
<1>4. QED
  BY <1>1, <1>2, <1>3

\* The user opens it, and closes it.
LEMMA BandSet ==
  ASSUME BandIsHeard, acts \in Nat, NEW doing, Act(doing),
         UNCHANGED band \/ band' = NoBand \/ band' = [asked |-> TRUE, text |-> "waiting"]
  PROVE  BandIsHeard' /\ Yields
<1>1. ~(acts' = acts)
  BY DEF Act
<1>2. CASE UNCHANGED band
  BY <1>2, BandKept
<1>3. CASE band' = NoBand
  BY <1>1, <1>3 DEF BandIsHeard, Yields, NoBand
<1>4. CASE band' = [asked |-> TRUE, text |-> "waiting"]
  BY <1>1, <1>4 DEF BandIsHeard, Yields
<1>5. QED
  BY <1>2, <1>3, <1>4

LEMMA BandStep ==
  ASSUME BandIsHeard, acts \in Nat, [Next]_vars
  PROVE  BandIsHeard' /\ Yields
<1>1. CASE Hash \/ HashSlow \/ HashCancel \/ HashHash \/ HashAt \/ HashSlash \/ CmdStart
  <2>1. /\ \E doing : Act(doing)
        /\ UNCHANGED band \/ band' = NoBand \/ band' = [asked |-> TRUE, text |-> "waiting"]
    BY <1>1 DEF Hash, HashSlow, HashCancel, HashHash, HashAt, HashSlash, CmdStart, SlashCommand
  <2>2. QED
    BY <2>1, BandSet
<1>2. CASE ChatAsk \/ ChatSlow \/ ChatAt \/ ChatSlash
  <2>1. (\E doing : Act(doing)) /\ (UNCHANGED band \/ band' = NoBand)
    BY <1>2 DEF ChatAsk, ChatSlow, ChatAt, ChatSlash, SlashCommand, session
  <2>2. QED
    BY <2>1, BandSet
<1>3. CASE HandlePartial \/ HandleError
  <2>1. UNCHANGED band \/ \E text \in {"answer", "error"} : band' = [band EXCEPT !.text = text]
    BY <1>3 DEF HandlePartial, HandleError, Say
  <2>2. QED
    BY <2>1, BandKept
<1>4. CASE HandleAnswer
  <2>1. \/ UNCHANGED band
        \/ band' = [band EXCEPT !.text = "answer"]
        \/ ~band.asked /\ band' = [asked |-> FALSE, text |-> "comment"]
    BY <1>4 DEF HandleAnswer, Dropped, Handle, Say
  <2>2. QED
    BY <2>1, BandKept
<1>5. CASE HandleFinding
  <2>1. UNCHANGED band \/ band' = [band EXCEPT !.text = "finding"]
    BY <1>5 DEF HandleFinding
  <2>2. QED
    BY <2>1, BandKept
<1>6. CASE Browse \/ CmdEnd \/ HandleCommand \/ HandleResearching
  <2>1. UNCHANGED band
    BY <1>6 DEF Browse, CmdEnd, HandleCommand, HandleResearching
  <2>2. QED
    BY <2>1, BandKept
<1>7. CASE Land
  <2>1. UNCHANGED band
    BY <1>7, Zenon DEF Land
  <2>2. QED
    BY <2>1, BandKept
<1>8. CASE Send \/ Worker \/ UNCHANGED vars
  <2>1. UNCHANGED band
    BY <1>8 DEF Send, Worker, Take, StreamCommand, StreamPartial, AskEnds, Pick, ResearchEnds, vars, session
  <2>2. QED
    BY <2>1, BandKept
<1>9. QED
  BY <1>1, <1>2, <1>3, <1>4, <1>5, <1>6, <1>7, <1>8 DEF Next, User, Handler

\* Commentary never speaks over a question the user asked, nor under it: a band
\* is a question's until the user does something, run() drops the tip.
THEOREM CommentaryDefers == Spec => CommentaryYields
<1>1. Init => BandIsHeard
  BY DEF Init, BandIsHeard, NoBand
<1>2. IInv => acts \in Nat
  BY BoundsAssumption DEF IInv, Order
<1>3. BandIsHeard /\ IInv /\ [Next]_vars
        => BandIsHeard' /\ [(band.asked /\ acts' = acts) => band'.asked /\ band'.text # "comment"]_vars
  BY <1>2, BandStep DEF Yields
<1>4. QED
  BY <1>1, <1>3, Inductive, PTL DEF Spec, CommentaryYields


-----------------------------------------------------------------------------
(* Where research is, by its turn *)

JobTurns(q)   == {q[i].turn : i \in {k \in DOMAIN q : q[k].kind = "research"}}
FoundTurns(q) == {q[i].turn : i \in {k \in DOMAIN q : q[k].kind = "Finding"}}
HeldTurns(q)  == {q[i].turn : i \in DOMAIN q}
Lone(turn)    == {turn} \ {0}

\* ... and whose question it is.
JobAsks(q)   == {<<q[i].turn, q[i].of>> : i \in {k \in DOMAIN q : q[k].kind = "research"}}
FoundAsks(q) == {<<q[i].turn, q[i].of>> : i \in {k \in DOMAIN q : q[k].kind = "Finding"}}
HeldAsks(q)  == {<<q[i].turn, q[i].of>> : i \in DOMAIN q}
LoneAsks(w)  == {<<w.turn, w.of>> : t \in Lone(w.turn)}

\* What is held, whatever it is about.
Report == [of : 0 .. MaxActs, turn : Nat, cmd : MaybeCmd]

\* In the channel, the events, held, in hand and pending: nowhere twice.
Apart(J, F, H, W, P) ==
  /\ J \cap (F \cup H \cup W \cup P) = {} /\ F \cap (H \cup W \cup P) = {}
  /\ H \cap (W \cup P) = {} /\ W \cap P = {}

\* One event to a finding, and one report.
FoundOnce(q) ==
  \A i, k \in DOMAIN q :
    q[i].kind = "Finding" /\ q[k].kind = "Finding" /\ q[i].turn = q[k].turn => i = k
HeldOnce(q) == \A i, k \in DOMAIN q : q[i].turn = q[k].turn => i = k

\* Only research has a turn.
Plain(q) == \A i \in DOMAIN q : q[i].kind # "research" => q[i].turn = 0

\* The channel, and what is about to be sent on it.
ChannelTurns == JobTurns(jobs) \cup JobTurns(sending)
ChannelAsks  == JobAsks(jobs) \cup JobAsks(sending)

\* Research is sent last, and once.
Tidy ==
  /\ Plain(jobs) /\ Plain(sending) /\ JobTurns(jobs) \cap JobTurns(sending) = {}
  /\ \A i \in DOMAIN sending : sending[i].kind = "research" => i = Len(sending)

Home ==
  /\ slow_asks \subseteq 1 .. next_sid - 1 /\ vend_id \in (0 .. next_sid - 1) \ slow_asks
  /\ next_sid \in Turns
  /\ Abroad \subseteq slow_asks
  /\ Apart(ChannelTurns, FoundTurns(events), HeldTurns(held_findings), Lone(work.turn),
           Lone(pending.turn))
  /\ FoundOnce(events) /\ HeldOnce(held_findings) /\ held_findings \in Seq(Report)
  /\ Tidy
  /\ at = "research" => work.turn # 0
  /\ pending # Idle => pending.turn # 0

LEMMA AbroadIs ==
  Abroad = ChannelTurns \cup FoundTurns(events) \cup HeldTurns(held_findings)
             \cup Lone(work.turn) \cup Lone(pending.turn)
BY DEF Abroad, ChannelTurns, JobTurns, FoundTurns, HeldTurns, Lone

\* Each place of two sequences joined is a place of one of them.
LEMMA Split ==
  ASSUME NEW S, NEW q \in Seq(S), NEW new \in Seq(S)
  PROVE  /\ \A i \in DOMAIN (q \o new) :
              \/ i \in DOMAIN q /\ (q \o new)[i] = q[i]
              \/ i - Len(q) \in DOMAIN new /\ (q \o new)[i] = new[i - Len(q)]
         /\ \A i \in DOMAIN q : i \in DOMAIN (q \o new) /\ (q \o new)[i] = q[i]
         /\ \A i \in DOMAIN new :
              Len(q) + i \in DOMAIN (q \o new) /\ (q \o new)[Len(q) + i] = new[i]
<1> DEFINE r == q \o new
<1>1. /\ Len(q) \in Nat /\ Len(new) \in Nat /\ DOMAIN r = 1 .. Len(q) + Len(new)
      /\ DOMAIN q = 1 .. Len(q) /\ DOMAIN new = 1 .. Len(new)
      /\ \A i \in 1 .. Len(q) : r[i] = q[i]
      /\ \A i \in 1 .. Len(new) : r[Len(q) + i] = new[i]
  BY Joined
<1> HIDE DEF r
<1>2. \A i \in DOMAIN r :
        (i \in DOMAIN q /\ r[i] = q[i]) \/ (i - Len(q) \in DOMAIN new /\ r[i] = new[i - Len(q)])
  <2>1. ASSUME NEW i \in DOMAIN r, i \notin DOMAIN q
        PROVE  i - Len(q) \in DOMAIN new /\ r[i] = new[i - Len(q)]
    <3>1. i - Len(q) \in 1 .. Len(new) /\ i = Len(q) + (i - Len(q))
      BY <1>1, <2>1
    <3>2. QED
      BY <1>1, <3>1
  <2>2. QED
    BY <1>1, <2>1
<1>3. /\ \A i \in DOMAIN q : i \in DOMAIN r /\ r[i] = q[i]
      /\ \A i \in DOMAIN new : Len(q) + i \in DOMAIN r /\ r[Len(q) + i] = new[i]
  BY <1>1
<1>4. QED
  BY <1>2, <1>3 DEF r

LEMMA JobsJoined ==
  ASSUME NEW q \in Seq(Job), NEW new \in Seq(Job)
  PROVE  /\ JobTurns(q \o new) = JobTurns(q) \cup JobTurns(new)
         /\ JobAsks(q \o new) = JobAsks(q) \cup JobAsks(new)
         /\ Plain(q) /\ Plain(new) => Plain(q \o new)
<1> DEFINE r == q \o new
<1>1. Len(q) \in Nat /\ DOMAIN r \subseteq Nat
  BY Joined
<1>2. \A i \in DOMAIN r :
        (i \in DOMAIN q /\ r[i] = q[i]) \/ (i - Len(q) \in DOMAIN new /\ r[i] = new[i - Len(q)])
  BY Split
<1>3. /\ \A i \in DOMAIN q : i \in DOMAIN r /\ r[i] = q[i]
      /\ \A i \in DOMAIN new : Len(q) + i \in DOMAIN r /\ r[Len(q) + i] = new[i]
  BY Split
<1> HIDE DEF r
<1>4. JobTurns(r) \subseteq JobTurns(q) \cup JobTurns(new)
  BY <1>2 DEF JobTurns
<1>5. JobTurns(q) \subseteq JobTurns(r)
  BY <1>3 DEF JobTurns
<1>6. JobTurns(new) \subseteq JobTurns(r)
  BY <1>3 DEF JobTurns
<1>7. Plain(q) /\ Plain(new) => Plain(r)
  BY <1>2 DEF Plain
<1>8. JobAsks(r) \subseteq JobAsks(q) \cup JobAsks(new)
  BY <1>2 DEF JobAsks
<1>9. JobAsks(q) \subseteq JobAsks(r)
  BY <1>3 DEF JobAsks
<1>10. JobAsks(new) \subseteq JobAsks(r)
  BY <1>3 DEF JobAsks
<1>11. QED
  BY <1>4, <1>5, <1>6, <1>7, <1>8, <1>9, <1>10 DEF r

\* At most one finding more, of a turn that none is of.
LEMMA FoundJoined ==
  ASSUME NEW q \in Seq(Event), NEW new \in Seq(Event), FoundOnce(q), FoundOnce(new),
         FoundTurns(new) \cap FoundTurns(q) = {}
  PROVE  /\ FoundTurns(q \o new) = FoundTurns(q) \cup FoundTurns(new)
         /\ FoundAsks(q \o new) = FoundAsks(q) \cup FoundAsks(new)
         /\ FoundOnce(q \o new)
<1> DEFINE r == q \o new
<1>1. Len(q) \in Nat /\ DOMAIN r \subseteq Nat
  BY Joined
<1>2. \A i \in DOMAIN r :
        (i \in DOMAIN q /\ r[i] = q[i]) \/ (i - Len(q) \in DOMAIN new /\ r[i] = new[i - Len(q)])
  BY Split
<1>3. /\ \A i \in DOMAIN q : i \in DOMAIN r /\ r[i] = q[i]
      /\ \A i \in DOMAIN new : Len(q) + i \in DOMAIN r /\ r[Len(q) + i] = new[i]
  BY Split
<1> HIDE DEF r
<1>4. FoundTurns(r) \subseteq FoundTurns(q) \cup FoundTurns(new)
  BY <1>2 DEF FoundTurns
<1>5. FoundTurns(q) \subseteq FoundTurns(r)
  BY <1>3 DEF FoundTurns
<1>6. FoundTurns(new) \subseteq FoundTurns(r)
  BY <1>3 DEF FoundTurns
<1>7. ASSUME NEW i \in DOMAIN r, NEW k \in DOMAIN r, r[i].kind = "Finding",
             r[k].kind = "Finding", r[i].turn = r[k].turn
      PROVE  i = k
  <2>1. CASE i \in DOMAIN q /\ r[i] = q[i] /\ k \in DOMAIN q /\ r[k] = q[k]
    BY <2>1, <1>7 DEF FoundOnce
  <2>2. CASE /\ i - Len(q) \in DOMAIN new /\ r[i] = new[i - Len(q)]
             /\ k - Len(q) \in DOMAIN new /\ r[k] = new[k - Len(q)]
    <3>1. i - Len(q) = k - Len(q)
      BY <2>2, <1>7 DEF FoundOnce
    <3>2. QED
      BY <3>1, <1>1
  <2>3. CASE /\ i \in DOMAIN q /\ r[i] = q[i]
             /\ k - Len(q) \in DOMAIN new /\ r[k] = new[k - Len(q)]
    <3>1. q[i].turn \in FoundTurns(q) /\ q[i].turn \in FoundTurns(new)
      BY <2>3, <1>7 DEF FoundTurns
    <3>2. QED
      BY <3>1
  <2>4. CASE /\ k \in DOMAIN q /\ r[k] = q[k]
             /\ i - Len(q) \in DOMAIN new /\ r[i] = new[i - Len(q)]
    <3>1. q[k].turn \in FoundTurns(q) /\ q[k].turn \in FoundTurns(new)
      BY <2>4, <1>7 DEF FoundTurns
    <3>2. QED
      BY <3>1
  <2>5. QED
    BY <1>2, <2>1, <2>2, <2>3, <2>4
<1>8. FoundOnce(r)
  BY <1>7 DEF FoundOnce
<1>9. FoundAsks(r) \subseteq FoundAsks(q) \cup FoundAsks(new)
  BY <1>2 DEF FoundAsks
<1>10. FoundAsks(q) \subseteq FoundAsks(r)
  BY <1>3 DEF FoundAsks
<1>11. FoundAsks(new) \subseteq FoundAsks(r)
  BY <1>3 DEF FoundAsks
<1>12. QED
  BY <1>4, <1>5, <1>6, <1>8, <1>9, <1>10, <1>11 DEF r

\* The first event handled.
LEMMA FoundTail ==
  ASSUME NEW q \in Seq(Event), q # <<>>, FoundOnce(q)
  PROVE  /\ Head(q) \in Event /\ Tail(q) \in Seq(Event) /\ FoundOnce(Tail(q))
         /\ FoundTurns(Tail(q)) \subseteq FoundTurns(q)
         /\ FoundAsks(Tail(q)) \subseteq FoundAsks(q)
         /\ Head(q).kind = "Finding" =>
              /\ Head(q).turn \in FoundTurns(q) \ FoundTurns(Tail(q))
              /\ <<Head(q).turn, Head(q).of>> \in FoundAsks(q)
<1>1. /\ Tail(q) \in Seq(Event) /\ Len(Tail(q)) = Len(q) - 1
      /\ Len(q) \in Nat \ {0} /\ Head(q) = q[1]
  OBVIOUS
<1>2. /\ DOMAIN q = 1 .. Len(q) /\ DOMAIN Tail(q) = 1 .. Len(q) - 1
  BY <1>1
<1>3. \A i \in 1 .. Len(q) - 1 : Tail(q)[i] = q[i + 1]
  OBVIOUS
<1>4. 1 \in DOMAIN q /\ \A i \in DOMAIN Tail(q) : i + 1 \in DOMAIN q /\ i + 1 # 1
  BY <1>1, <1>2
<1>5. Head(q) \in Event
  BY <1>1, <1>4
<1>6. FoundOnce(Tail(q))
  <2>1. ASSUME NEW i \in DOMAIN Tail(q), NEW k \in DOMAIN Tail(q), Tail(q)[i].kind = "Finding",
               Tail(q)[k].kind = "Finding", Tail(q)[i].turn = Tail(q)[k].turn
        PROVE  i = k
    <3>1. i + 1 = k + 1
      BY <2>1, <1>2, <1>3, <1>4 DEF FoundOnce
    <3>2. QED
      BY <3>1, <1>1, <1>2
  <2>2. QED
    BY <2>1 DEF FoundOnce
<1>7. FoundTurns(Tail(q)) \subseteq FoundTurns(q)
  BY <1>2, <1>3, <1>4 DEF FoundTurns
<1>8. ASSUME Head(q).kind = "Finding"
      PROVE  Head(q).turn \in FoundTurns(q) \ FoundTurns(Tail(q))
  <2>1. Head(q).turn \in FoundTurns(q)
    BY <1>1, <1>4, <1>8 DEF FoundTurns
  <2>2. ASSUME NEW i \in DOMAIN Tail(q), Tail(q)[i].kind = "Finding"
        PROVE  Tail(q)[i].turn # Head(q).turn
    BY <1>1, <1>2, <1>3, <1>4, <1>8, <2>2 DEF FoundOnce
  <2>3. QED
    BY <2>1, <2>2 DEF FoundTurns
<1>9. FoundAsks(Tail(q)) \subseteq FoundAsks(q)
  BY <1>2, <1>3, <1>4 DEF FoundAsks
<1>10. Head(q).kind = "Finding" => <<Head(q).turn, Head(q).of>> \in FoundAsks(q)
  BY <1>1, <1>4 DEF FoundAsks
<1>11. QED
  BY <1>1, <1>5, <1>6, <1>7, <1>8, <1>9, <1>10

LEMMA HeldMore ==
  ASSUME NEW q \in Seq(Report), NEW f \in Report, HeldOnce(q), f.turn \notin HeldTurns(q)
  PROVE  /\ Append(q, f) \in Seq(Report) /\ HeldOnce(Append(q, f))
         /\ HeldTurns(Append(q, f)) = HeldTurns(q) \cup {f.turn}
         /\ HeldAsks(Append(q, f)) = HeldAsks(q) \cup {<<f.turn, f.of>>}
<1>1. /\ Append(q, f) \in Seq(Report) /\ Len(q) \in Nat
      /\ DOMAIN q = 1 .. Len(q) /\ DOMAIN Append(q, f) = 1 .. Len(q) + 1
      /\ \A i \in 1 .. Len(q) : Append(q, f)[i] = q[i]
      /\ Append(q, f)[Len(q) + 1] = f
  OBVIOUS
<1>2. \A i \in DOMAIN Append(q, f) :
        \/ i \in DOMAIN q /\ Append(q, f)[i] = q[i]
        \/ i = Len(q) + 1 /\ Append(q, f)[i] = f
  BY <1>1
<1>3. \A i \in DOMAIN q : q[i].turn # f.turn
  BY DEF HeldTurns
<1>4. HeldOnce(Append(q, f))
  BY <1>2, <1>3 DEF HeldOnce
<1>5. /\ \A i \in DOMAIN q : i \in DOMAIN Append(q, f) /\ Append(q, f)[i] = q[i]
      /\ Len(q) + 1 \in DOMAIN Append(q, f)
  BY <1>1
<1>6. HeldTurns(Append(q, f)) = HeldTurns(q) \cup {f.turn}
  BY <1>1, <1>2, <1>5 DEF HeldTurns
<1>7. HeldAsks(Append(q, f)) = HeldAsks(q) \cup {<<f.turn, f.of>>}
  BY <1>1, <1>2, <1>5 DEF HeldAsks
<1>8. QED
  BY <1>1, <1>4, <1>6, <1>7

-----------------------------------------------------------------------------
(* Research is asked for under a turn of its own. *)

LEMMA Wider ==
  ASSUME NEW a \in Nat, NEW b \in Nat, b >= a
  PROVE  1 .. a - 1 \subseteq 1 .. b - 1
  OBVIOUS

\* Of the jobs submitted, those that are research are of new turns.
LEMMA HomeGrows ==
  ASSUME Home, NEW T, T \cap slow_asks = {}, T \subseteq 1 .. next_sid' - 1,
         slow_asks' = slow_asks \cup T,
         ChannelTurns' \subseteq ChannelTurns \cup T, Tidy',
         next_sid' \in Turns, next_sid' >= next_sid,
         vend_id' \in (0 .. next_sid' - 1) \ slow_asks',
         FoundTurns(events') \subseteq FoundTurns(events), FoundOnce(events'),
         UNCHANGED <<held_findings, at, work, pending>>
  PROVE  Home'
<1>1. /\ Abroad = ChannelTurns \cup FoundTurns(events) \cup HeldTurns(held_findings)
                   \cup Lone(work.turn) \cup Lone(pending.turn)
      /\ Abroad \subseteq slow_asks
  BY AbroadIs DEF Home
<1>2. Abroad' = ChannelTurns' \cup FoundTurns(events') \cup HeldTurns(held_findings)
                  \cup Lone(work.turn) \cup Lone(pending.turn)
  BY DEF Abroad, ChannelTurns, JobTurns, FoundTurns, HeldTurns, Lone
<1>3. Abroad' \subseteq slow_asks'
  BY <1>1, <1>2
<1>4. Apart(ChannelTurns', FoundTurns(events'), HeldTurns(held_findings), Lone(work.turn),
            Lone(pending.turn))
  BY <1>1 DEF Home, Apart
<1>5. slow_asks' \subseteq 1 .. next_sid' - 1
  <2>1. next_sid \in Nat /\ next_sid' \in Nat
    BY DEF Home, Turns
  <2>2. 1 .. next_sid - 1 \subseteq 1 .. next_sid' - 1
    BY <2>1, Wider
  <2>3. slow_asks \subseteq 1 .. next_sid - 1
    BY DEF Home
  <2>4. QED
    BY <2>2, <2>3
<1>6. QED
  BY <1>3, <1>4, <1>5 DEF Home

LEMMA HomeQuiet ==
  ASSUME Home, ChannelTurns' \subseteq ChannelTurns, Tidy',
         \/ next_sid' = next_sid /\ vend_id' \in {0, vend_id}
         \/ next_sid' = next_sid + 1 /\ vend_id' \in {0, vend_id, next_sid},
         FoundTurns(events') \subseteq FoundTurns(events), FoundOnce(events'),
         UNCHANGED <<slow_asks, held_findings, at, work, pending>>
  PROVE  Home'
<1>1. /\ next_sid \in Nat \ {0} /\ slow_asks \subseteq 1 .. next_sid - 1
      /\ vend_id \in 0 .. next_sid - 1 /\ vend_id \notin slow_asks
  BY DEF Home, Turns
<1>2. next_sid' \in Turns /\ next_sid' >= next_sid
  BY <1>1 DEF Turns
<1>3. vend_id' \in (0 .. next_sid' - 1) \ slow_asks'
  BY <1>1
<1> DEFINE T == {}
<1>4. /\ T \cap slow_asks = {} /\ T \subseteq 1 .. next_sid' - 1
      /\ slow_asks' = slow_asks \cup T /\ ChannelTurns' \subseteq ChannelTurns \cup T
  OBVIOUS
<1> HIDE DEF T
<1>5. QED
  BY <1>2, <1>3, <1>4, HomeGrows

\* One research job, of the next turn.
LEMMA HomeAsks ==
  ASSUME Home, ChannelTurns' \subseteq ChannelTurns \cup {next_sid}, Tidy',
         slow_asks' = slow_asks \cup {next_sid}, next_sid' = next_sid + 1,
         vend_id' \in {0, vend_id},
         FoundTurns(events') \subseteq FoundTurns(events), FoundOnce(events'),
         UNCHANGED <<held_findings, at, work, pending>>
  PROVE  Home'
<1>1. /\ next_sid \in Nat \ {0} /\ slow_asks \subseteq 1 .. next_sid - 1
      /\ vend_id \in 0 .. next_sid - 1 /\ vend_id \notin slow_asks
  BY DEF Home, Turns
<1>2. next_sid' \in Turns /\ next_sid' >= next_sid
  BY <1>1 DEF Turns
<1>3. vend_id' \in (0 .. next_sid' - 1) \ slow_asks'
  BY <1>1
<1>4. {next_sid} \cap slow_asks = {} /\ {next_sid} \subseteq 1 .. next_sid' - 1
  BY <1>1
<1>5. QED
  BY <1>2, <1>3, <1>4, HomeGrows

LEMMA OneJob ==
  ASSUME NEW j \in Job
  PROVE  /\ <<j>> \in Seq(Job)
         /\ JobTurns(<<j>>) = IF j.kind = "research" THEN {j.turn} ELSE {}
         /\ JobAsks(<<j>>) = IF j.kind = "research" THEN {<<j.turn, j.of>>} ELSE {}
         /\ (j.kind # "research" => j.turn = 0) => Plain(<<j>>)
<1>1. <<j>> \in Seq(Job) /\ DOMAIN <<j>> = {1} /\ <<j>>[1] = j
  OBVIOUS
<1>2. QED
  BY <1>1 DEF JobTurns, JobAsks, Plain

\* What is no research takes no turn.
Unturned == ChannelTurns' \subseteq ChannelTurns /\ ChannelAsks' \subseteq ChannelAsks /\ Tidy'

Unresearched(js) ==
  js \in Seq(Job \cup {Raise}) /\ \A i \in DOMAIN js : js[i].kind # "research" /\ js[i].turn = 0

LEMMA UnresearchedIs ==
  ASSUME NEW js, Unresearched(js)
  PROVE  /\ JobTurns(js) = {} /\ JobAsks(js) = {} /\ Plain(js)
         /\ \A i \in DOMAIN js : js[i].kind = "research" => i = Len(js)
BY DEF Unresearched, JobTurns, JobAsks, Plain

LEMMA ChannelStill ==
  ASSUME UNCHANGED <<jobs, sending>>
  PROVE  ChannelTurns' = ChannelTurns /\ ChannelAsks' = ChannelAsks /\ (Tidy => Tidy')
BY DEF ChannelTurns, ChannelAsks, Tidy

\* Into the channel at once.
LEMMA PlainSubmit ==
  ASSUME jobs \in Seq(Job), Tidy, NEW j \in Job, j.kind # "research", j.turn = 0,
         Submit(<<j>>), UNCHANGED sending
  PROVE  Unturned
<1> DEFINE js == <<j>>
<1>1. js \in Seq(Job) /\ JobTurns(js) = {} /\ JobAsks(js) = {} /\ Plain(js) /\ jobs' = jobs \o js
  BY OneJob DEF Submit
<1> HIDE DEF js
<1>2. /\ JobTurns(jobs \o js) = JobTurns(jobs) \cup JobTurns(js)
      /\ JobAsks(jobs \o js) = JobAsks(jobs) \cup JobAsks(js)
      /\ Plain(jobs) /\ Plain(js) => Plain(jobs \o js)
  BY <1>1, JobsJoined
<1>3. JobTurns(jobs') = JobTurns(jobs) /\ JobAsks(jobs') = JobAsks(jobs) /\ Plain(jobs')
  BY <1>1, <1>2 DEF Tidy
<1>4. QED
  BY <1>3 DEF Unturned, ChannelTurns, ChannelAsks, Tidy

\* By a call that interrupts, and one that supersedes.
LEMMA PlainInterrupt ==
  ASSUME Tidy, NEW js, Unresearched(js), Interrupt(js)
  PROVE  Unturned
<1>1. UNCHANGED jobs /\ sending' = js
  BY DEF Interrupt
<1>2. QED
  BY <1>1, UnresearchedIs DEF Unturned, ChannelTurns, ChannelAsks, Tidy

LEMMA OneSentIs ==
  ASSUME NEW j \in Job \cup {Raise}
  PROVE  <<j>> \in Seq(Job \cup {Raise}) /\ DOMAIN <<j>> = {1} /\ <<j>>[1] = j
  OBVIOUS

LEMMA CancelIs == Cancel \in Job /\ Cancel.kind # "research" /\ Cancel.turn = 0
BY BoundsAssumption DEF Job, Cancel, NoJob

LEMMA PlainSupersede ==
  ASSUME Tidy, NEW js, Unresearched(js), Supersede(js)
  PROVE  Unturned
<1> DEFINE S == Job \cup {Raise}
           c == <<Cancel>>
           new == c \o js
<1>1. c \in Seq(S) /\ DOMAIN c = {1} /\ c[1] = Cancel
  BY CancelIs, OneSentIs
<1>2. js \in Seq(S)
  BY DEF Unresearched
<1> HIDE DEF S, c
<1>3. \A i \in DOMAIN new : (i \in DOMAIN c /\ new[i] = c[i])
                            \/ (i - Len(c) \in DOMAIN js /\ new[i] = js[i - Len(c)])
  BY <1>1, <1>2, Split
<1>4. new \in Seq(S)
  BY <1>1, <1>2
<1>5. Interrupt(new)
  BY DEF Supersede, new, c
<1> HIDE DEF new
<1>6. \A i \in DOMAIN new : new[i].kind # "research" /\ new[i].turn = 0
  BY <1>1, <1>3, CancelIs DEF Unresearched
<1>7. Unresearched(new)
  BY <1>4, <1>6 DEF Unresearched, S
<1>8. QED
  BY <1>5, <1>7, PlainInterrupt

\* Research under a turn that nothing is under.
LEMMA ResearchIs ==
  ASSUME NEW of \in 0 .. MaxActs, NEW turn \in Nat, NEW question \in 0 .. MaxActs
  PROVE  /\ Researching(of, turn, question) \in Job
         /\ Researching(of, turn, question).kind = "research"
         /\ Researching(of, turn, question).turn = turn /\ Researching(of, turn, question).of = of
BY DEF Researching, Job

LEMMA ResearchSubmit ==
  ASSUME jobs \in Seq(Job), Tidy, NEW of \in 0 .. MaxActs, NEW turn \in Nat,
         NEW question \in 0 .. MaxActs, turn \notin ChannelTurns,
         Submit(<<Researching(of, turn, question)>>), UNCHANGED sending
  PROVE  /\ ChannelTurns' = ChannelTurns \cup {turn} /\ Tidy'
         /\ ChannelAsks' = ChannelAsks \cup {<<turn, of>>}
<1> DEFINE r == Researching(of, turn, question)
<1>1. r \in Job /\ r.kind = "research" /\ r.turn = turn /\ r.of = of
  BY ResearchIs
<1>2. jobs' = jobs \o <<r>>
  BY DEF Submit
<1> HIDE DEF r
<1>3. /\ <<r>> \in Seq(Job) /\ JobTurns(<<r>>) = {turn} /\ JobAsks(<<r>>) = {<<turn, of>>}
      /\ Plain(<<r>>)
  BY <1>1, OneJob
<1>4. /\ JobTurns(jobs \o <<r>>) = JobTurns(jobs) \cup JobTurns(<<r>>)
      /\ JobAsks(jobs \o <<r>>) = JobAsks(jobs) \cup JobAsks(<<r>>)
      /\ Plain(jobs) /\ Plain(<<r>>) => Plain(jobs \o <<r>>)
  BY <1>3, JobsJoined
<1>5. /\ JobTurns(jobs') = JobTurns(jobs) \cup {turn} /\ Plain(jobs')
      /\ JobAsks(jobs') = JobAsks(jobs) \cup {<<turn, of>>}
  BY <1>2, <1>3, <1>4 DEF Tidy
<1>6. turn \notin JobTurns(sending)
  BY DEF ChannelTurns
<1>7. QED
  BY <1>5, <1>6 DEF ChannelTurns, ChannelAsks, Tidy

LEMMA TwoJoined ==
  ASSUME NEW S, NEW a \in S, NEW b \in S
  PROVE  <<a>> \o <<b>> = <<a, b>>
<1>1. <<a>> \in Seq(S) /\ <<b>> \in Seq(S) /\ <<a>> \o <<b>> \in Seq(S)
  OBVIOUS
<1>2. Len(<<a>> \o <<b>>) = 2 /\ (<<a>> \o <<b>>)[1] = a /\ (<<a>> \o <<b>>)[2] = b
  BY <1>1
<1>3. <<a, b>> \in Seq(S) /\ Len(<<a, b>>) = 2 /\ <<a, b>>[1] = a /\ <<a, b>>[2] = b
  OBVIOUS
<1> DEFINE p == <<a>> \o <<b>>
           q == <<a, b>>
<1> HIDE DEF p, q
<1>4. p \in Seq(S) /\ q \in Seq(S) /\ Len(p) = Len(q) /\ \A i \in 1 .. Len(p) : p[i] = q[i]
  BY <1>1, <1>2, <1>3 DEF p, q
<1>5. p = q
  BY <1>4
<1>6. QED
  BY <1>5 DEF p, q

LEMMA ResearchSupersede ==
  ASSUME Tidy, NEW of \in 0 .. MaxActs, NEW turn \in Nat,
         NEW question \in 0 .. MaxActs, turn \notin ChannelTurns,
         Supersede(<<Researching(of, turn, question)>>)
  PROVE  /\ ChannelTurns' \subseteq ChannelTurns \cup {turn} /\ Tidy'
         /\ ChannelAsks' \subseteq ChannelAsks \cup {<<turn, of>>}
<1> DEFINE r == Researching(of, turn, question)
           new == <<Cancel, r>>
<1>1. r \in Job /\ r.kind = "research" /\ r.turn = turn /\ r.of = of
  BY ResearchIs
<1> HIDE DEF r
<1>2. <<Cancel>> \o <<r>> = new
  BY <1>1, CancelIs, TwoJoined
<1>3. UNCHANGED jobs /\ sending' = new
  BY <1>2 DEF Supersede, Interrupt, r
<1>4. DOMAIN new = {1, 2} /\ new[1] = Cancel /\ new[2] = r /\ Len(new) = 2
  OBVIOUS
<1> HIDE DEF new
<1>5. /\ JobTurns(new) = {turn} /\ JobAsks(new) = {<<turn, of>>} /\ Plain(new)
      /\ \A i \in DOMAIN new : new[i].kind = "research" => i = Len(new)
  BY <1>1, <1>4, CancelIs DEF JobTurns, JobAsks, Plain
<1>6. QED
  BY <1>3, <1>5 DEF ChannelTurns, ChannelAsks, Tidy

LEMMA PlainJobs ==
  ASSUME NEW of \in 0 .. MaxActs
  PROVE  /\ {Asking(of), Watching(of), Cancel, Control} \subseteq Job
         /\ \A j \in {Asking(of), Watching(of), Cancel, Control, Raise} :
              j.kind # "research" /\ j.turn = 0
BY BoundsAssumption DEF Asking, Watching, Cancel, Control, Raise, NoJob, Job

\* What the user submits that is no `?` question: of the number given, or nothing.
LEMMA UserSubmits ==
  ASSUME IInv, Home, NEW of \in 0 .. MaxActs,
         \/ UNCHANGED <<jobs, sending>> \/ SlashCommand
         \/ Supersede(<<>>) \/ Supersede(<<Raise, Cancel>>)
         \/ \E j \in {Asking(of), Watching(of), Cancel} :
              (Submit(<<j>>) /\ UNCHANGED sending) \/ Supersede(<<j>>) \/ Interrupt(<<j>>)
  PROVE  Unturned
<1>1. jobs \in Seq(Job) /\ Tidy
  BY DEF IInv, Doom, Home
<1>2. /\ {Asking(of), Watching(of), Cancel, Control} \subseteq Job
      /\ \A j \in {Asking(of), Watching(of), Cancel, Control, Raise} :
           j.kind # "research" /\ j.turn = 0
  BY PlainJobs
<1>3. CASE UNCHANGED <<jobs, sending>>
  BY <1>1, <1>3, ChannelStill DEF Unturned
<1>4. ASSUME NEW j \in {Asking(of), Watching(of), Cancel, Control},
             (Submit(<<j>>) /\ UNCHANGED sending) \/ Supersede(<<j>>) \/ Interrupt(<<j>>)
      PROVE  Unturned
  <2>1. j \in Job /\ j \in Job \cup {Raise} /\ j.kind # "research" /\ j.turn = 0
    BY <1>2
  <2>2. Unresearched(<<j>>)
    BY <2>1, OneSentIs DEF Unresearched
  <2>3. QED
    BY <1>1, <1>4, <2>1, <2>2, PlainSubmit, PlainInterrupt, PlainSupersede
<1>5. CASE Supersede(<<>>)
  <2>1. Unresearched(<<>>)
    BY DEF Unresearched
  <2>2. QED
    BY <1>1, <1>5, <2>1, PlainSupersede
<1>6. CASE Supersede(<<Raise, Cancel>>)
  <2> DEFINE js == <<Raise, Cancel>>
  <2>1. js \in Seq(Job \cup {Raise}) /\ DOMAIN js = {1, 2} /\ js[1] = Raise /\ js[2] = Cancel
    BY CancelIs
  <2>2. Supersede(js)
    BY <1>6
  <2> HIDE DEF js
  <2>3. Unresearched(js)
    BY <1>2, <2>1 DEF Unresearched
  <2>4. QED
    BY <1>1, <2>2, <2>3, PlainSupersede
<1>7. CASE SlashCommand
  <2>1. UNCHANGED <<jobs, sending>> \/ Interrupt(<<Cancel>>) \/ Interrupt(<<Control>>)
    BY <1>7 DEF SlashCommand, calling
  <2>2. QED
    BY <1>3, <1>4, <2>1
<1>8. QED
  BY <1>3, <1>4, <1>5, <1>6, <1>7

\* Whatever the user does, and a command that ends, but a `?` question.
LEMMA UserUnturned ==
  ASSUME IInv, Home,
         \/ Hash \/ HashCancel \/ HashHash \/ HashAt \/ HashSlash
         \/ ChatAsk \/ ChatAt \/ ChatSlash \/ Browse \/ CmdStart \/ CmdEnd
  PROVE  Unturned
<1>1. CASE Hash \/ HashHash \/ HashAt \/ ChatAsk \/ ChatAt
  <2>1. \E doing : Act(doing)
    BY <1>1 DEF Hash, HashHash, HashAt, ChatAsk, ChatAt
  <2>2. acts' \in 0 .. MaxActs
    BY <2>1, Acting DEF IInv, Acted
  <2>3. \/ UNCHANGED <<jobs, sending>> \/ Supersede(<<>>)
        \/ Submit(<<Asking(acts')>>) /\ UNCHANGED sending
        \/ Supersede(<<Asking(acts')>>)
    BY <1>1 DEF Hash, HashHash, HashAt, ChatAsk, ChatAt, calling
  <2>4. QED
    BY <2>2, <2>3, UserSubmits
<1>2. CASE HashCancel \/ HashSlash \/ ChatSlash \/ Browse \/ CmdStart
  <2>1. \/ UNCHANGED <<jobs, sending>> \/ Supersede(<<>>) \/ Supersede(<<Raise, Cancel>>)
        \/ SlashCommand \/ Interrupt(<<Cancel>>)
    BY <1>2 DEF HashCancel, HashSlash, ChatSlash, Browse, CmdStart, calling
  <2>2. acts \in 0 .. MaxActs
    BY DEF IInv, Order
  <2>3. QED
    BY <2>1, <2>2, UserSubmits
<1>3. CASE CmdEnd
  <2>1. UNCHANGED sending /\ (UNCHANGED jobs \/ Submit(<<Watching(running)>>))
    BY <1>3 DEF CmdEnd, calling
  <2>2. running \in 0 .. MaxActs
    BY BoundsAssumption DEF IInv, Order
  <2>3. QED
    BY <2>1, <2>2, UserSubmits
<1>4. QED
  BY <1>1, <1>2, <1>3

LEMMA UserComesHome ==
  ASSUME IInv, Home,
         \/ Hash \/ HashCancel \/ HashHash \/ HashAt \/ HashSlash
         \/ ChatAsk \/ ChatAt \/ ChatSlash \/ Browse \/ CmdStart \/ CmdEnd
  PROVE  Home'
<1>1. Unturned
  BY UserUnturned
<1>2. UNCHANGED <<slow_asks, held_findings, at, work, pending, events>>
  BY DEF Hash, HashCancel, HashHash, HashAt, HashSlash, ChatAsk, ChatAt, ChatSlash, Browse,
     CmdStart, CmdEnd, worker, slowLane, session
<1>3. \/ next_sid' = next_sid /\ vend_id' \in {0, vend_id}
      \/ next_sid' = next_sid + 1 /\ vend_id' \in {0, vend_id, next_sid}
  <2>1. CASE CmdEnd
    BY <2>1 DEF CmdEnd, Vending, stack
  <2>2. CASE Hash
    BY <2>2 DEF Hash, Vending, stack
  <2>3. CASE HashCancel \/ HashHash \/ HashAt \/ HashSlash
    BY <2>3 DEF HashCancel, HashHash, HashAt, HashSlash, stack
  <2>4. CASE ChatAsk \/ ChatAt \/ ChatSlash \/ Browse \/ CmdStart
    BY <2>4 DEF ChatAsk, ChatAt, ChatSlash, Browse, CmdStart, stack, session
  <2>5. QED
    BY <2>1, <2>2, <2>3, <2>4
<1>4. FoundTurns(events') \subseteq FoundTurns(events) /\ FoundOnce(events')
  BY <1>2 DEF Home
<1>5. QED
  BY <1>1, <1>2, <1>3, <1>4, HomeQuiet DEF Unturned

\* A `?` question: its turn is kept as its job leaves.
LEMMA SlowComesHome ==
  ASSUME IInv, Home, HashSlow \/ ChatSlow
  PROVE  Home'
<1>1. /\ jobs \in Seq(Job) /\ Tidy /\ next_sid \in Nat
      /\ Supersede(<<Researching(acts', next_sid, acts')>>)
  BY DEF IInv, Order, Doom, Home, Turns, HashSlow, ChatSlow
<1>2. acts' \in 0 .. MaxActs
  <2>1. \E doing : Act(doing)
    BY DEF HashSlow, ChatSlow
  <2>2. QED
    BY <2>1, Acting DEF IInv, Acted
<1>3. next_sid \notin ChannelTurns
  BY AbroadIs DEF Home, Turns
<1>4. ChannelTurns' \subseteq ChannelTurns \cup {next_sid} /\ Tidy'
  BY <1>1, <1>2, <1>3, ResearchSupersede
<1>5. /\ slow_asks' = slow_asks \cup {next_sid} /\ next_sid' = next_sid + 1
      /\ vend_id' \in {0, vend_id}
      /\ UNCHANGED <<held_findings, at, work, pending, events>>
  BY DEF HashSlow, ChatSlow, worker
<1>6. FoundTurns(events') \subseteq FoundTurns(events) /\ FoundOnce(events')
  BY <1>5 DEF Home
<1>7. QED
  BY <1>4, <1>5, <1>6, HomeAsks

\* What is sent was asked for when the call began.
LEMMA Sending ==
  ASSUME IInv, Tidy, Send
  PROVE  Unturned
<1> DEFINE j == Head(sending)
           rest == Tail(sending)
<1>1. /\ sending \in Seq(Job \cup {Raise}) /\ sending # <<>> /\ jobs \in Seq(Job)
      /\ Plain(jobs) /\ Plain(sending) /\ JobTurns(jobs) \cap JobTurns(sending) = {}
      /\ \A i \in DOMAIN sending : sending[i].kind = "research" => i = Len(sending)
  BY DEF IInv, Doom, Tidy, Send
<1>2. /\ rest \in Seq(Job \cup {Raise}) /\ j = sending[1] /\ j \in Job \cup {Raise}
      /\ 1 \in DOMAIN sending
      /\ \A i \in DOMAIN rest : i + 1 \in DOMAIN sending /\ rest[i] = sending[i + 1]
      /\ \A i \in DOMAIN sending : i # 1 => i - 1 \in DOMAIN rest /\ rest[i - 1] = sending[i]
  BY <1>1, Unsent
<1>3. Len(rest) = Len(sending) - 1 /\ Len(sending) \in Nat /\ DOMAIN rest = 1 .. Len(rest)
  BY <1>1
<1>4. /\ sending' = rest
      /\ (j = Raise /\ UNCHANGED jobs) \/ (j # Raise /\ jobs' = jobs \o <<j>>)
  BY <1>2 DEF Send, Submit
<1> HIDE DEF j, rest
<1>5. Plain(rest) /\ \A i \in DOMAIN rest : rest[i].kind = "research" => i = Len(rest)
  <2>1. \A i \in DOMAIN rest : rest[i].kind = "research" => i + 1 = Len(sending)
    BY <1>1, <1>2
  <2>2. QED
    BY <1>1, <1>2, <1>3, <2>1 DEF Plain
<1>6. /\ JobTurns(rest) \subseteq JobTurns(sending) /\ JobAsks(rest) \subseteq JobAsks(sending)
  BY <1>2 DEF JobTurns, JobAsks
<1>7. CASE j = Raise
  <2>1. JobTurns(rest) \cap JobTurns(jobs) = {} /\ UNCHANGED jobs
    BY <1>1, <1>4, <1>6, <1>7
  <2>2. QED
    BY <1>1, <1>4, <1>5, <1>6, <2>1 DEF Unturned, ChannelTurns, ChannelAsks, Tidy
<1>8. CASE j \in Job /\ j.kind # "research"
  <2>1. j.turn = 0
    BY <1>1, <1>2, <1>8 DEF Plain
  <2>2. jobs' = jobs \o <<j>>
    BY <1>4, <1>8 DEF Job, Raise, NoJob
  <2>3. <<j>> \in Seq(Job) /\ JobTurns(<<j>>) = {} /\ JobAsks(<<j>>) = {} /\ Plain(<<j>>)
    BY <1>8, <2>1, OneJob
  <2>4. JobTurns(jobs') = JobTurns(jobs) /\ JobAsks(jobs') = JobAsks(jobs) /\ Plain(jobs')
    <3>1. /\ JobTurns(jobs \o <<j>>) = JobTurns(jobs) \cup JobTurns(<<j>>)
          /\ JobAsks(jobs \o <<j>>) = JobAsks(jobs) \cup JobAsks(<<j>>)
          /\ Plain(jobs) /\ Plain(<<j>>) => Plain(jobs \o <<j>>)
      BY <1>1, <2>3, JobsJoined
    <3>2. QED
      BY <1>1, <2>2, <2>3, <3>1
  <2>5. QED
    BY <1>1, <1>4, <1>5, <1>6, <2>4 DEF Unturned, ChannelTurns, ChannelAsks, Tidy
<1>9. CASE j \in Job /\ j.kind = "research"
  <2>1. jobs' = jobs \o <<j>>
    BY <1>4, <1>9 DEF Job, Raise, NoJob
  <2>2. /\ <<j>> \in Seq(Job) /\ JobTurns(<<j>>) = {j.turn} /\ JobAsks(<<j>>) = {<<j.turn, j.of>>}
        /\ Plain(<<j>>)
    BY <1>9, OneJob
  <2>3. /\ JobTurns(jobs') = JobTurns(jobs) \cup {j.turn} /\ Plain(jobs')
        /\ JobAsks(jobs') = JobAsks(jobs) \cup {<<j.turn, j.of>>}
    <3>1. /\ JobTurns(jobs \o <<j>>) = JobTurns(jobs) \cup JobTurns(<<j>>)
          /\ JobAsks(jobs \o <<j>>) = JobAsks(jobs) \cup JobAsks(<<j>>)
          /\ Plain(jobs) /\ Plain(<<j>>) => Plain(jobs \o <<j>>)
      BY <1>1, <2>2, JobsJoined
    <3>2. QED
      BY <1>1, <2>1, <2>2, <3>1
  <2>4. j.turn \in JobTurns(sending) /\ <<j.turn, j.of>> \in JobAsks(sending)
    BY <1>2, <1>9 DEF JobTurns, JobAsks
  <2>5. DOMAIN rest = {}
    BY <1>1, <1>2, <1>3, <1>9
  <2>6. JobTurns(rest) = {} /\ JobAsks(rest) = {}
    BY <2>5 DEF JobTurns, JobAsks
  <2>7. QED
    BY <1>1, <1>4, <1>5, <2>3, <2>4, <2>6 DEF Unturned, ChannelTurns, ChannelAsks, Tidy
<1>10. QED
  BY <1>2, <1>7, <1>8, <1>9

LEMMA SendComesHome ==
  ASSUME IInv, Home, Send
  PROVE  Home'
<1>1. Unturned
  BY Sending DEF Home
<1>2. UNCHANGED <<slow_asks, held_findings, at, work, pending, events, next_sid, vend_id>>
  BY DEF Send, session, slowLane, stack, worker
<1>3. FoundTurns(events') \subseteq FoundTurns(events) /\ FoundOnce(events')
  BY <1>2 DEF Home
<1>4. QED
  BY <1>1, <1>2, <1>3, HomeQuiet DEF Unturned

-----------------------------------------------------------------------------
(* What the session hears of research *)

\* An event handled.
LEMMA EventGoes ==
  ASSUME IInv, Home, NEW kinds, Handle(kinds)
  PROVE  /\ Head(events) \in Event /\ Head(events).kind \in kinds
         /\ FoundTurns(events') \subseteq FoundTurns(events) /\ FoundOnce(events')
         /\ FoundAsks(events') \subseteq FoundAsks(events)
         /\ Head(events).kind = "Finding" =>
              /\ Head(events).turn \in FoundTurns(events) \ FoundTurns(events')
              /\ <<Head(events).turn, Head(events).of>> \in FoundAsks(events)
<1>1. events \in Seq(Event) /\ events # <<>> /\ FoundOnce(events) /\ events' = Tail(events)
  BY DEF IInv, Order, Home, Handle
<1>2. QED
  BY <1>1, FoundTail DEF Handle

\* No finding: the turns stay where they are, but the shot may go off.
LEMMA NoneComesHome ==
  ASSUME IInv, Home, HandleCommand \/ HandlePartial \/ HandleResearching
  PROVE  Home'
<1>1. /\ UNCHANGED <<jobs, sending, slow_asks, held_findings, at, work, pending>>
      /\ Handle({"Command"}) \/ Handle({"Partial"}) \/ Handle({"Researching"})
      /\ \/ next_sid' = next_sid /\ vend_id' \in {0, vend_id}
         \/ next_sid' = next_sid + 1 /\ vend_id' \in {0, vend_id, next_sid}
  BY DEF HandleCommand, HandlePartial, HandleResearching, worker, slowLane, stack, calling
<1>2. FoundTurns(events') \subseteq FoundTurns(events) /\ FoundOnce(events')
  BY <1>1, EventGoes
<1>3. ChannelTurns' \subseteq ChannelTurns /\ Tidy'
  BY <1>1, ChannelStill DEF Home
<1>4. QED
  BY <1>1, <1>2, <1>3, HomeQuiet

LEMMA Under ==
  /\ \A a, b \in Nat \ {0} : a < b => a \in 1 .. b - 1
  /\ \A a, b \in Nat \ {0} : b >= a => 0 \in 0 .. b - 1 /\ 0 .. a - 1 \subseteq 0 .. b - 1
  OBVIOUS

\* The shot goes off: for the slot it is to amend, whose turn is asked for by
\* nothing else, or for the turn after it.
LEMMA FiredHome ==
  ASSUME IInv, Home, NEW turn \in Nat \ {0}, turn \notin slow_asks, turn < next_sid',
         Fire(turn), UNCHANGED sending, next_sid' \in {next_sid, next_sid + 1, next_sid + 2},
         vend_id' \in {0, vend_id} \ {turn},
         FoundTurns(events') \subseteq FoundTurns(events), FoundOnce(events'),
         UNCHANGED <<held_findings, at, work, pending>>
  PROVE  Home'
<1>1. /\ next_sid \in Nat \ {0} /\ slow_asks \subseteq 1 .. next_sid - 1
      /\ vend_id \in 0 .. next_sid - 1 /\ vend_id \notin slow_asks
      /\ jobs \in Seq(Job) /\ Tidy /\ slow_after_fast.of \in 0 .. MaxActs /\ asked \in 0 .. MaxActs
  BY BoundsAssumption DEF Home, Turns, IInv, Order, Doom, Shots
<1>2. ChannelTurns' = ChannelTurns \cup {turn} /\ Tidy'
  <2>1. turn \notin ChannelTurns
    BY AbroadIs DEF Home
  <2>2. QED
    BY <1>1, <2>1, ResearchSubmit DEF Fire
<1>3. slow_asks' = slow_asks \cup {turn} /\ {turn} \cap slow_asks = {}
  BY DEF Fire
<1>4. next_sid' \in Turns /\ next_sid' >= next_sid
  BY <1>1 DEF Turns
<1>5. {turn} \subseteq 1 .. next_sid' - 1
  <2>1. next_sid' \in Nat \ {0}
    BY <1>4 DEF Turns
  <2>2. turn \in 1 .. next_sid' - 1
    BY <2>1, Under, Zenon
  <2>3. QED
    BY <2>2
<1>6. vend_id' \in 0 .. next_sid' - 1 /\ vend_id' \notin slow_asks
  <2>1. next_sid' \in Nat \ {0}
    BY <1>4 DEF Turns
  <2>2. 0 \in 0 .. next_sid' - 1 /\ vend_id \in 0 .. next_sid' - 1
    BY <1>1, <1>4, <2>1, Under
  <2>3. vend_id' = 0 \/ vend_id' = vend_id
    OBVIOUS
  <2>4. 0 \notin slow_asks
    BY <1>1
  <2>5. QED
    BY <1>1, <2>2, <2>3, <2>4, Zenon
<1>7. vend_id' \in (0 .. next_sid' - 1) \ slow_asks'
  BY <1>3, <1>6
<1>8. QED
  BY <1>2, <1>3, <1>4, <1>5, <1>7, HomeGrows

LEMMA ShotComesHome ==
  ASSUME IInv, Home, HandleAnswer \/ HandleError
  PROVE  Home'
<1>1. /\ next_sid \in Nat \ {0} /\ slow_asks \subseteq 1 .. next_sid - 1
      /\ vend_id \in 0 .. next_sid - 1 /\ vend_id \notin slow_asks
  BY DEF Home, Turns
<1>2. UNCHANGED <<held_findings, at, work, pending, sending>>
  BY DEF HandleAnswer, HandleError, worker, calling
<1>3. FoundTurns(events') \subseteq FoundTurns(events) /\ FoundOnce(events')
  BY EventGoes DEF HandleAnswer, HandleError
<1>4. CASE /\ UNCHANGED <<jobs, slow_asks>>
           /\ \/ next_sid' = next_sid /\ vend_id' \in {0, vend_id}
              \/ next_sid' = next_sid + 1 /\ vend_id' \in {0, vend_id, next_sid}
  <2>1. ChannelTurns' \subseteq ChannelTurns /\ Tidy'
    BY <1>2, <1>4, ChannelStill DEF Home
  <2>2. QED
    BY <1>2, <1>3, <1>4, <2>1, HomeQuiet
<1>5. CASE HandleAnswer
  <2>1. PICK vended, sid :
          /\ \/ vended = vend_id /\ sid = next_sid
             \/ vended = next_sid /\ sid = next_sid + 1
          /\ \/ /\ Fire(IF vended # 0 THEN vended ELSE sid) /\ vend_id' = 0
                /\ next_sid' = IF vended # 0 THEN sid ELSE sid + 1
             \/ vend_id' = vended /\ next_sid' = sid /\ UNCHANGED <<slow_asks, jobs>>
    BY <1>5 DEF HandleAnswer
  <2>2. CASE /\ Fire(IF vended # 0 THEN vended ELSE sid) /\ vend_id' = 0
             /\ next_sid' = IF vended # 0 THEN sid ELSE sid + 1
    <3> DEFINE turn == IF vended # 0 THEN vended ELSE sid
    <3>1. /\ turn \in Nat \ {0} /\ turn < next_sid'
          /\ next_sid' \in {next_sid, next_sid + 1, next_sid + 2}
      BY <1>1, <2>1, <2>2
    <3>2. turn \notin slow_asks
      BY <1>1, <2>1
    <3>3. Fire(turn) /\ vend_id' \in {0, vend_id} \ {turn}
      BY <2>2, <3>1
    <3> HIDE DEF turn
    <3>4. QED
      BY <1>2, <1>3, <3>1, <3>2, <3>3, FiredHome
  <2>3. CASE vend_id' = vended /\ next_sid' = sid /\ UNCHANGED <<slow_asks, jobs>>
    BY <1>4, <2>1, <2>3
  <2>4. QED
    BY <2>1, <2>2, <2>3
<1>6. CASE HandleError
  <2>1. /\ UNCHANGED vend_id
        /\ \/ Fire(next_sid) /\ next_sid' = next_sid + 1
           \/ UNCHANGED <<slow_asks, jobs, next_sid>>
    BY <1>6 DEF HandleError
  <2>2. CASE Fire(next_sid) /\ next_sid' = next_sid + 1
    <3>1. /\ next_sid \notin slow_asks /\ next_sid < next_sid'
          /\ vend_id' \in {0, vend_id} \ {next_sid}
      BY <1>1, <2>1, <2>2
    <3>2. QED
      BY <1>1, <1>2, <1>3, <2>2, <3>1, FiredHome
  <2>3. CASE UNCHANGED <<slow_asks, jobs, next_sid>>
    BY <1>4, <2>1, <2>3
  <2>4. QED
    BY <2>1, <2>2, <2>3
<1>7. QED
  BY <1>5, <1>6

\* A finding heard is relayed, held or landed: out of the channel, and kept only
\* where it is held.
LEMMA FindingComesHome ==
  ASSUME IInv, Home, HandleFinding
  PROVE  Home'
<1> DEFINE f == [of |-> Head(events).of, turn |-> Head(events).turn, cmd |-> Head(events).cmd]
<1>1. /\ Head(events) \in Event /\ Head(events).kind = "Finding"
      /\ FoundTurns(events') \subseteq FoundTurns(events) /\ FoundOnce(events')
      /\ f.turn \in FoundTurns(events) /\ f.turn \notin FoundTurns(events')
  BY EventGoes DEF HandleFinding
<1>2. f \in Report
  BY <1>1 DEF Report, Event
<1>3. UNCHANGED <<vend_id, next_sid, at, work, pending, sending>>
  BY DEF HandleFinding, worker, calling
<1>4. \/ /\ Submit(<<Asking(f.of)>>) /\ slow_asks' = slow_asks \ {f.turn}
         /\ UNCHANGED held_findings
      \/ /\ held_findings' = Append(held_findings, f) /\ UNCHANGED <<slow_asks, jobs>>
      \/ slow_asks' = slow_asks \ {f.turn} /\ UNCHANGED <<held_findings, jobs>>
  BY DEF HandleFinding
<1> DEFINE J == ChannelTurns
           F == FoundTurns(events)
           H == HeldTurns(held_findings)
           W == Lone(work.turn)
           P == Lone(pending.turn)
<1>5. /\ J \cup F \cup H \cup W \cup P \subseteq slow_asks /\ Apart(J, F, H, W, P)
      /\ slow_asks \subseteq 1 .. next_sid - 1 /\ vend_id \in (0 .. next_sid - 1) \ slow_asks
      /\ next_sid \in Turns /\ HeldOnce(held_findings) /\ held_findings \in Seq(Report)
      /\ Tidy
      /\ at = "research" => work.turn # 0
      /\ pending # Idle => pending.turn # 0
  BY AbroadIs DEF Home
<1>6. Abroad' = ChannelTurns' \cup FoundTurns(events') \cup HeldTurns(held_findings')
                  \cup Lone(work.turn) \cup Lone(pending.turn)
  BY <1>3 DEF Abroad, ChannelTurns, JobTurns, FoundTurns, HeldTurns, Lone
<1>7. CASE held_findings' = Append(held_findings, f) /\ UNCHANGED <<slow_asks, jobs>>
  <2>1. f.turn \notin H
    BY <1>1, <1>5 DEF Apart
  <2>2. /\ held_findings' \in Seq(Report) /\ HeldOnce(held_findings')
        /\ HeldTurns(held_findings') = H \cup {f.turn}
    BY <1>2, <1>5, <1>7, <2>1, HeldMore
  <2>3. Abroad' \subseteq slow_asks'
    BY <1>1, <1>3, <1>5, <1>6, <1>7, <2>2, ChannelStill
  <2>4. Apart(J, FoundTurns(events'), H \cup {f.turn}, W, P)
    BY <1>1, <1>5 DEF Apart
  <2>5. ChannelTurns' = J /\ Tidy'
    BY <1>3, <1>5, <1>7, ChannelStill
  <2>6. QED
    BY <1>1, <1>3, <1>5, <1>7, <2>2, <2>3, <2>4, <2>5 DEF Home
<1>8. ASSUME slow_asks' = slow_asks \ {f.turn}, UNCHANGED held_findings, Unturned
      PROVE  Home'
  <2>1. ChannelTurns' \subseteq J /\ Tidy'
    BY <1>8 DEF Unturned
  <2>2. Abroad' \subseteq slow_asks'
    BY <1>1, <1>5, <1>6, <1>8, <2>1 DEF Apart
  <2>3. Apart(ChannelTurns', FoundTurns(events'), H, W, P)
    BY <1>1, <1>5, <2>1 DEF Apart
  <2>4. QED
    BY <1>1, <1>3, <1>5, <1>8, <2>1, <2>2, <2>3 DEF Home
<1>9. f.of \in 0 .. MaxActs
  BY <1>1 DEF Event
<1>10. Submit(<<Asking(f.of)>>) \/ UNCHANGED jobs => Unturned
  <2>0. UNCHANGED sending
    BY <1>3
  <2>1. \E j \in {Asking(f.of), Watching(f.of), Cancel} : j = Asking(f.of)
    OBVIOUS
  <2>2. QED
    BY <1>9, <2>0, <2>1, UserSubmits
<1>11. QED
  BY <1>4, <1>7, <1>8, <1>10

-----------------------------------------------------------------------------
(* What was held lands *)

\* A set of numbers has a least one.
LEMMA Least ==
  ASSUME NEW B, B \subseteq Nat, B # {}
  PROVE  \E n \in B : \A m \in B : n <= m
<1>1. PICK n \in B : \A m \in B : ~ (<<m, n>> \in OpToRel(<, Nat))
  BY WFMin, NatLessThanWellFounded
<1>2. \A m \in B : ~ (m < n)
  BY <1>1, Zenon DEF OpToRel
<1>3. \A m \in B : m \in Nat /\ n \in Nat
  OBVIOUS
<1>4. QED
  BY <1>2, <1>3

\* Nothing is the first to fail.
LEMMA Induct ==
  ASSUME NEW N \in Nat, NEW B, B \subseteq 0 .. N, 0 \notin B,
         \A n \in 0 .. N - 1 : n \notin B => n + 1 \notin B
  PROVE  B = {}
<1> SUFFICES ASSUME B # {} PROVE FALSE
  OBVIOUS
<1>0. B \subseteq Nat
  OBVIOUS
<1>1. PICK n \in B : \A m \in B : n <= m
  BY <1>0, Least
<1>2. n \in 1 .. N /\ n - 1 \in 0 .. N - 1
  OBVIOUS
<1>3. n - 1 \notin B
  BY <1>1, <1>2
<1>4. (n - 1) + 1 = n
  BY <1>2
<1>5. QED
  BY <1>2, <1>3, <1>4

\* One finding lands; and g is what is left after each of the first n.
Landing(acc, f) ==
  [hist |-> Landed(acc.hist, f, f.turn \in acc.asks), asks |-> acc.asks \ {f.turn}]
Lands(acc, q, n, g) == g = [i \in 0 .. n |-> IF i = 0 THEN acc ELSE Landing(g[i - 1], q[i])]

LEMMA LandsDefined ==
  ASSUME NEW acc, NEW q, NEW N \in Nat
  PROVE  \E g : Lands(acc, q, N, g)
<1> DEFINE B == {n \in 0 .. N : ~ \E g : Lands(acc, q, n, g)}
<1>1. B \subseteq 0 .. N
  OBVIOUS
<1>2. 0 \notin B
  <2>1. Lands(acc, q, 0, [i \in 0 .. 0 |-> acc])
    BY DEF Lands
  <2>2. QED
    BY <2>1
<1>3. ASSUME NEW n \in 0 .. N - 1, n \notin B
      PROVE  n + 1 \notin B
  <2>1. n \in Nat /\ n + 1 \in 0 .. n + 1 /\ n + 1 # 0
    OBVIOUS
  <2>2. PICK g : Lands(acc, q, n, g)
    BY <1>3
  <2> DEFINE h == [i \in 0 .. n + 1 |-> IF i = n + 1 THEN Landing(g[n], q[n + 1]) ELSE g[i]]
             k == [i \in 0 .. n + 1 |-> IF i = 0 THEN acc ELSE Landing(h[i - 1], q[i])]
  <2>3. \A i \in 0 .. n : h[i] = g[i]
    BY <2>1
  <2>4. \A i \in 1 .. n + 1 : i - 1 \in 0 .. n
    BY <2>1
  <2>5. \A i \in 0 .. n : g[i] = IF i = 0 THEN acc ELSE Landing(g[i - 1], q[i])
    BY <2>2 DEF Lands
  <2>6. h[n + 1] = Landing(g[n], q[n + 1])
    BY <2>1
  <2>7. \A i \in 0 .. n + 1 : h[i] = k[i]
    BY <2>3, <2>4, <2>5, <2>6
  <2>8. h = k
    BY <2>7
  <2>9. Lands(acc, q, n + 1, h)
    BY <2>8 DEF Lands
  <2>10. QED
    BY <2>9
<1>4. B = {}
  BY <1>1, <1>2, <1>3, Induct
<1>5. QED
  BY <1>4

\* What the tick leaves, one finding after the other.
LEMMA LandLoops ==
  ASSUME Land, NEW N \in Nat, N = Len(held_findings)
  PROVE  \E g : /\ g[0] = [hist |-> sug_hist, asks |-> slow_asks]
                /\ \A n \in 0 .. N - 1 : g[n + 1] = Landing(g[n], held_findings[n + 1])
                /\ sug_hist' = g[N].hist /\ slow_asks' = g[N].asks
<1> DEFINE acc == [hist |-> sug_hist, asks |-> slow_asks]
           g == CHOOSE f : Lands(acc, held_findings, N, f)
<1>1. Lands(acc, held_findings, N, g)
  BY LandsDefined
<1>2. sug_hist' = g[N].hist /\ slow_asks' = g[N].asks
  BY DEF Land, Lands, Landing
<1> HIDE DEF g
<1>3. \A i \in 0 .. N : g[i] = IF i = 0 THEN acc ELSE Landing(g[i - 1], held_findings[i])
  BY <1>1 DEF Lands
<1>4. /\ \A n \in 0 .. N - 1 : n + 1 \in 0 .. N /\ n + 1 # 0 /\ (n + 1) - 1 = n
      /\ 0 \in 0 .. N
  OBVIOUS
<1>5. g[0] = acc /\ \A n \in 0 .. N - 1 : g[n + 1] = Landing(g[n], held_findings[n + 1])
  BY <1>3, <1>4
<1>6. QED
  BY <1>2, <1>5

\* The turns of the first n held.
HeldFirst(q, n) == {q[i].turn : i \in 1 .. n}

LEMMA LandForgets ==
  ASSUME Land, held_findings \in Seq(Report)
  PROVE  slow_asks' = slow_asks \ HeldTurns(held_findings)
<1> DEFINE N == Len(held_findings)
<1>1. N \in Nat /\ DOMAIN held_findings = 1 .. N
  OBVIOUS
<1>2. PICK g : /\ g[0] = [hist |-> sug_hist, asks |-> slow_asks]
               /\ \A n \in 0 .. N - 1 : g[n + 1] = Landing(g[n], held_findings[n + 1])
               /\ slow_asks' = g[N].asks
  BY <1>1, LandLoops
<1> DEFINE B == {n \in 0 .. N : g[n].asks # slow_asks \ HeldFirst(held_findings, n)}
<1> HIDE DEF N
<1>3. B \subseteq 0 .. N
  OBVIOUS
<1>4. 0 \notin B
  BY <1>2 DEF HeldFirst
<1>5. ASSUME NEW n \in 0 .. N - 1, n \notin B
      PROVE  n + 1 \notin B
  <2>1. n \in 0 .. N /\ g[n].asks = slow_asks \ HeldFirst(held_findings, n)
    BY <1>1, <1>5
  <2>2. g[n + 1].asks = g[n].asks \ {held_findings[n + 1].turn}
    <3>1. g[n + 1] = Landing(g[n], held_findings[n + 1])
      BY <1>2
    <3>2. Landing(g[n], held_findings[n + 1]).asks = g[n].asks \ {held_findings[n + 1].turn}
      BY DEF Landing
    <3>3. QED
      BY <3>1, <3>2
  <2>3. 1 .. n + 1 = (1 .. n) \cup {n + 1}
    BY <2>1
  <2>4. HeldFirst(held_findings, n + 1) =
          HeldFirst(held_findings, n) \cup {held_findings[n + 1].turn}
    BY <2>3 DEF HeldFirst
  <2>5. QED
    BY <2>1, <2>2, <2>4
<1>6. B = {}
  BY <1>1, <1>3, <1>4, <1>5, Induct
<1>7. g[N].asks = slow_asks \ HeldFirst(held_findings, N)
  BY <1>1, <1>6
<1>8. HeldFirst(held_findings, N) = HeldTurns(held_findings)
  BY <1>1 DEF HeldFirst, HeldTurns
<1>9. QED
  BY <1>2, <1>7, <1>8

\* All of it is home at once.
LEMMA LandComesHome ==
  ASSUME IInv, Home, Land
  PROVE  Home'
<1> DEFINE J == ChannelTurns
           F == FoundTurns(events)
           H == HeldTurns(held_findings)
           W == Lone(work.turn)
           P == Lone(pending.turn)
<1>1. /\ J \cup F \cup H \cup W \cup P \subseteq slow_asks /\ Apart(J, F, H, W, P)
      /\ slow_asks \subseteq 1 .. next_sid - 1 /\ vend_id \in (0 .. next_sid - 1) \ slow_asks
      /\ next_sid \in Turns /\ held_findings \in Seq(Report) /\ FoundOnce(events) /\ Tidy
      /\ at = "research" => work.turn # 0
      /\ pending # Idle => pending.turn # 0
  BY AbroadIs DEF Home
<1>2. /\ UNCHANGED <<vend_id, next_sid, jobs, sending, events, at, work, pending>>
      /\ held_findings' = <<>>
  BY DEF Land, worker, calling
<1>3. slow_asks' = slow_asks \ H
  BY <1>1, LandForgets
<1>4. HeldTurns(held_findings') = {} /\ HeldOnce(held_findings') /\ held_findings' \in Seq(Report)
  <2>1. HeldTurns(<<>>) = {} /\ HeldOnce(<<>>) /\ <<>> \in Seq(Report)
    BY DEF HeldTurns, HeldOnce
  <2>2. QED
    BY <1>2, <2>1
<1>0. ChannelTurns' = J /\ Tidy'
  BY <1>1, <1>2, ChannelStill
<1>5. Abroad' = J \cup F \cup HeldTurns(held_findings') \cup W \cup P
  BY <1>2 DEF Abroad, ChannelTurns, JobTurns, FoundTurns, HeldTurns, Lone
<1>6. Abroad' \subseteq slow_asks'
  BY <1>1, <1>3, <1>4, <1>5 DEF Apart
<1>7. Apart(J, F, HeldTurns(held_findings'), W, P)
  BY <1>1, <1>4 DEF Apart
<1>8. QED
  BY <1>0, <1>1, <1>2, <1>3, <1>4, <1>6, <1>7 DEF Home

-----------------------------------------------------------------------------
(* The worker has research in one place at a time *)

\* What the worker says that is no finding.
Other == {e \in Event : e.kind # "Finding"}

LEMMA SaysNoFinding ==
  ASSUME events \in Seq(Event), FoundOnce(events), NEW es \in Seq(Other), Emit(es)
  PROVE  /\ FoundTurns(events') = FoundTurns(events) /\ FoundOnce(events')
         /\ FoundAsks(events') = FoundAsks(events)
<1>1. es \in Seq(Event) /\ \A i \in DOMAIN es : es[i].kind # "Finding"
  BY DEF Other
<1>2. FoundTurns(es) = {} /\ FoundAsks(es) = {} /\ FoundOnce(es)
  BY <1>1 DEF FoundTurns, FoundAsks, FoundOnce
<1>3. FoundTurns(es) \cap FoundTurns(events) = {}
  BY <1>2
<1>4. /\ FoundTurns(events \o es) = FoundTurns(events) \cup FoundTurns(es)
      /\ FoundAsks(events \o es) = FoundAsks(events) \cup FoundAsks(es)
      /\ FoundOnce(events \o es)
  BY <1>1, <1>2, <1>3, FoundJoined
<1>5. QED
  BY <1>2, <1>4 DEF Emit

LEMMA SentOthers ==
  ASSUME MaxActs \in Nat
  PROVE  /\ \A turn \in Nat : Now(turn) \in Other
         /\ \A of \in 0 .. MaxActs, cmd \in MaybeCmd,
               kind \in {"Command", "Partial", "Answer", "Comment", "Pass", "Error"} :
              [Event0(kind, of) EXCEPT !.cmd = cmd] \in Other /\ Event0(kind, of) \in Other
  BY DEF Other, Event, Event0, Now, MaybeCmd

\* Research that moves leaves where it was, and none is new.
LEMMA HomeMoves ==
  ASSUME Home, UNCHANGED <<slow_asks, held_findings, vend_id, next_sid>>,
         ChannelTurns' \cup FoundTurns(events') \cup Lone(work'.turn) \cup Lone(pending'.turn)
           \subseteq ChannelTurns \cup FoundTurns(events) \cup Lone(work.turn)
                       \cup Lone(pending.turn),
         Apart(ChannelTurns', FoundTurns(events'), {}, Lone(work'.turn), Lone(pending'.turn)),
         FoundOnce(events'), Tidy',
         at' = "research" => work'.turn # 0, pending' # Idle => pending'.turn # 0
  PROVE  Home'
<1> DEFINE H == HeldTurns(held_findings)
<1>1. /\ ChannelTurns \cup FoundTurns(events) \cup H \cup Lone(work.turn) \cup Lone(pending.turn)
           \subseteq slow_asks
      /\ Apart(ChannelTurns, FoundTurns(events), H, Lone(work.turn), Lone(pending.turn))
  BY AbroadIs DEF Home
<1>2. HeldTurns(held_findings') = H
  OBVIOUS
<1>3. Abroad' = ChannelTurns' \cup FoundTurns(events') \cup H \cup Lone(work'.turn)
                  \cup Lone(pending'.turn)
  BY DEF Abroad, ChannelTurns, JobTurns, FoundTurns, HeldTurns, Lone
<1> HIDE DEF H
<1>4. Abroad' \subseteq slow_asks'
  BY <1>1, <1>3
<1>5. Apart(ChannelTurns', FoundTurns(events'), H, Lone(work'.turn), Lone(pending'.turn))
  BY <1>1 DEF Apart
<1>6. QED
  BY <1>2, <1>4, <1>5 DEF Home

\* It says so, and reports what it has lost, but no finding.
LEMMA TakeSays ==
  ASSUME IInv, Home, Take
  PROVE  /\ FoundTurns(events') = FoundTurns(events) /\ FoundOnce(events')
         /\ FoundAsks(events') = FoundAsks(events)
<1>0. events \in Seq(Event) /\ FoundOnce(events)
  BY DEF IInv, Order, Home
<1> DEFINE lost == <<Event0("Error", 0)>>
           cleared == IF Has("cancel") THEN <<Now(0)>> ELSE <<>>
<1>1. lost \in Seq(Other) /\ cleared \in Seq(Other)
  <2>1. Event0("Error", 0) \in Other /\ Now(0) \in Other
    <3>1. 0 \in 0 .. MaxActs /\ 0 \in Nat /\ NoCmd \in MaybeCmd
      BY BoundsAssumption DEF MaybeCmd
    <3>2. QED
      BY <3>1, BoundsAssumption, SentOthers
  <2>2. QED
    BY <2>1
<1>2. \E reply \in {<<>>, lost} : Emit(cleared \o reply) \/ Emit(cleared \o reply \o lost)
  BY DEF Take
<1> HIDE DEF lost, cleared
<1>3. PICK reply \in {<<>>, lost} : Emit(cleared \o reply) \/ Emit(cleared \o reply \o lost)
  BY <1>2
<1>4. reply \in Seq(Other)
  <2>1. <<>> \in Seq(Other)
    OBVIOUS
  <2>2. QED
    BY <1>1, <1>3, <2>1, Zenon
<1>5. cleared \o reply \in Seq(Other) /\ cleared \o reply \o lost \in Seq(Other)
  BY <1>1, <1>4
<1>6. QED
  BY <1>0, <1>3, <1>5, SaysNoFinding

LEMMA TakeComesHome ==
  ASSUME IInv, Home, Take
  PROVE  Home'
<1>1. /\ jobs \in Seq(Job) /\ Tidy /\ events \in Seq(Event) /\ FoundOnce(events)
      /\ pending \in Job \cup {Idle}
      /\ pending # Idle => pending.turn # 0
  BY DEF IInv, Order, Doom, Home
<1>2. /\ jobs' = <<>> /\ at' # "research"
      /\ UNCHANGED <<slow_asks, held_findings, vend_id, next_sid, sending>>
  BY DEF Take, session, slowLane, stack
<1>3. ChannelTurns' = JobTurns(sending) /\ Tidy'
  BY <1>1, <1>2 DEF ChannelTurns, JobTurns, Plain, Tidy
<1>4. Lone(work'.turn) = {}
  <2>1. CASE work' = Idle
    BY <2>1 DEF Lone, Idle, NoJob
  <2>2. CASE \E i \in Newest(Asks) : work' = jobs[i]
    <3>1. PICK i \in DOMAIN jobs : work' = jobs[i] /\ jobs[i].kind \in {"ask", "watch"}
      BY <2>2 DEF Newest, Asks
    <3>2. jobs[i].turn = 0
      BY <1>1, <3>1 DEF Plain, Tidy
    <3>3. QED
      BY <3>1, <3>2 DEF Lone
  <2>3. QED
    BY <2>1, <2>2 DEF Take
<1>5. /\ Lone(pending'.turn) \subseteq JobTurns(jobs) \cup Lone(pending.turn)
      /\ pending' # Idle => pending'.turn # 0
  <2>1. CASE \E i \in Newest(Uncancelled) : pending' = jobs[i]
    <3>1. PICK i \in DOMAIN jobs : pending' = jobs[i] /\ jobs[i].kind = "research"
      BY <2>1 DEF Newest, Uncancelled
    <3>2. jobs[i].turn \in JobTurns(jobs)
      BY <3>1 DEF JobTurns
    <3>3. JobTurns(jobs) \subseteq slow_asks /\ 0 \notin slow_asks
      BY AbroadIs DEF Home, ChannelTurns
    <3>4. QED
      BY <3>1, <3>2, <3>3 DEF Lone
  <2>2. CASE pending' = IF Has("cancel") THEN Idle ELSE pending
    BY <1>1, <2>2 DEF Lone, Idle, NoJob
  <2>3. QED
    BY <2>1, <2>2 DEF Take
<1>6. FoundTurns(events') = FoundTurns(events) /\ FoundOnce(events')
  BY TakeSays
<1>7. Apart(ChannelTurns', FoundTurns(events'), {}, Lone(work'.turn), Lone(pending'.turn))
  <2>1. JobTurns(jobs) \cap JobTurns(sending) = {}
    BY <1>1 DEF Tidy
  <2>2. QED
    BY <1>3, <1>4, <1>5, <1>6, <2>1 DEF Apart, Home, ChannelTurns
<1>8. ChannelTurns' \cup FoundTurns(events') \cup Lone(work'.turn) \cup Lone(pending'.turn)
        \subseteq ChannelTurns \cup FoundTurns(events) \cup Lone(work.turn) \cup Lone(pending.turn)
  BY <1>3, <1>4, <1>5, <1>6 DEF ChannelTurns
<1>9. QED
  BY <1>2, <1>3, <1>5, <1>6, <1>7, <1>8, HomeMoves

\* The rest says nothing of research either, but for the finding of what is in hand.
LEMMA WorkSays ==
  ASSUME IInv, Home
  PROVE  /\ StreamCommand \/ StreamPartial \/ AskEnds \/ Pick =>
              /\ FoundTurns(events') = FoundTurns(events) /\ FoundOnce(events')
              /\ FoundAsks(events') = FoundAsks(events)
         /\ ResearchEnds =>
              /\ FoundTurns(events') \subseteq FoundTurns(events) \cup Lone(work.turn)
              /\ FoundAsks(events') \subseteq FoundAsks(events) \cup LoneAsks(work)
              /\ FoundOnce(events')
<1>1. /\ events \in Seq(Event) /\ FoundOnce(events) /\ work \in Job \cup {Idle}
      /\ pending \in Job \cup {Idle}
      /\ at = "research" => work.turn # 0
      /\ FoundTurns(events) \cap Lone(work.turn) = {}
  BY DEF IInv, Order, Doom, Home, Apart
<1>2. /\ work.of \in 0 .. MaxActs /\ work.turn \in Nat /\ pending.turn \in Nat
      /\ NoCmd \in MaybeCmd /\ Cmds \subseteq MaybeCmd /\ 0 \in 0 .. MaxActs /\ 0 \in Nat
  BY <1>1, BoundsAssumption DEF Job, Idle, NoJob, MaybeCmd
<1>3. /\ \A turn \in Nat : Now(turn) \in Other
      /\ \A of \in 0 .. MaxActs, cmd \in MaybeCmd,
            kind \in {"Command", "Partial", "Answer", "Comment", "Pass", "Error"} :
           [Event0(kind, of) EXCEPT !.cmd = cmd] \in Other /\ Event0(kind, of) \in Other
  BY BoundsAssumption, SentOthers
<1>4. ASSUME UNCHANGED events \/ \E e \in Other : Emit(<<e>>)
      PROVE  /\ FoundTurns(events') = FoundTurns(events) /\ FoundOnce(events')
             /\ FoundAsks(events') = FoundAsks(events)
  <2>1. \A e \in Other : <<e>> \in Seq(Other)
    OBVIOUS
  <2>2. QED
    BY <1>1, <1>4, <2>1, SaysNoFinding
<1>5. ASSUME StreamCommand \/ StreamPartial \/ AskEnds \/ Pick
      PROVE  /\ FoundTurns(events') = FoundTurns(events) /\ FoundOnce(events')
             /\ FoundAsks(events') = FoundAsks(events)
  <2>1. CASE StreamCommand
    BY <1>2, <1>3, <1>4, <2>1 DEF StreamCommand
  <2>2. CASE StreamPartial
    BY <1>2, <1>3, <1>4, <2>2 DEF StreamPartial
  <2>3. CASE AskEnds
    <3>1. UNCHANGED events \/ \E e \in Other : Emit(<<e>>)
      BY <1>2, <1>3, <2>3 DEF AskEnds
    <3>2. QED
      BY <1>4, <3>1
  <2>4. CASE Pick
    <3>1. UNCHANGED events \/ \E e \in Other : Emit(<<e>>)
      BY <1>2, <1>3, <2>4 DEF Pick
    <3>2. QED
      BY <1>4, <3>1
  <2>5. QED
    BY <1>5, <2>1, <2>2, <2>3, <2>4
<1>6. ASSUME ResearchEnds
      PROVE  /\ FoundTurns(events') \subseteq FoundTurns(events) \cup Lone(work.turn)
             /\ FoundAsks(events') \subseteq FoundAsks(events) \cup LoneAsks(work)
             /\ FoundOnce(events')
  <2>1. /\ at = "research"
        /\ \/ Emit(<<Now(0)>>)
           \/ \E cmd \in MaybeCmd :
                Emit(<<Now(0), [kind |-> "Finding", of |-> work.of, turn |-> work.turn, cmd |-> cmd]>>)
    BY <1>6 DEF ResearchEnds
  <2>2. CASE Emit(<<Now(0)>>)
    BY <1>2, <1>3, <1>4, <2>2
  <2>3. ASSUME NEW cmd \in MaybeCmd,
               Emit(<<Now(0), [kind |-> "Finding", of |-> work.of, turn |-> work.turn, cmd |-> cmd]>>)
        PROVE  /\ FoundTurns(events') = FoundTurns(events) \cup {work.turn} /\ FoundOnce(events')
               /\ FoundAsks(events') = FoundAsks(events) \cup {<<work.turn, work.of>>}
    <3> DEFINE e == [kind |-> "Finding", of |-> work.of, turn |-> work.turn, cmd |-> cmd]
               es == <<Now(0), e>>
    <3>1. e \in Event /\ Now(0) \in Event /\ Now(0).kind # "Finding" /\ e.kind = "Finding"
      BY <1>2, <1>3 DEF Event, Other
    <3>2. e.turn = work.turn /\ e.of = work.of
      OBVIOUS
    <3> HIDE DEF e
    <3>3. es \in Seq(Event) /\ DOMAIN es = {1, 2} /\ es[1] = Now(0) /\ es[2] = e
      BY <3>1
    <3> HIDE DEF es
    <3>4. /\ FoundTurns(es) = {work.turn} /\ FoundOnce(es)
          /\ FoundAsks(es) = {<<work.turn, work.of>>}
      BY <3>1, <3>2, <3>3 DEF FoundTurns, FoundAsks, FoundOnce
    <3>5. work.turn \notin FoundTurns(events)
      BY <1>1, <2>1 DEF Lone
    <3>6. events' = events \o es
      BY <2>3 DEF Emit, es, e
    <3>7. FoundTurns(es) \cap FoundTurns(events) = {}
      BY <3>4, <3>5
    <3>8. QED
      BY <1>1, <3>3, <3>4, <3>6, <3>7, FoundJoined
  <2>4. {work.turn} = Lone(work.turn) /\ {<<work.turn, work.of>>} = LoneAsks(work)
    BY <1>1, <2>1 DEF Lone, LoneAsks
  <2>5. CASE \E cmd \in MaybeCmd :
               Emit(<<Now(0), [kind |-> "Finding", of |-> work.of, turn |-> work.turn, cmd |-> cmd]>>)
    <3>1. /\ FoundTurns(events') = FoundTurns(events) \cup {work.turn} /\ FoundOnce(events')
          /\ FoundAsks(events') = FoundAsks(events) \cup {<<work.turn, work.of>>}
      BY <2>3, <2>5
    <3>2. QED
      BY <2>4, <3>1
  <2>6. QED
    BY <2>1, <2>2, <2>5
<1>7. QED
  BY <1>5, <1>6

\* Where what is in hand and what is pending go.
LEMMA WorkMoves ==
  ASSUME IInv, Home
  PROVE  /\ StreamCommand \/ StreamPartial \/ AskEnds =>
              work' \in {work, Idle} /\ pending' = pending /\ at' # "research"
         /\ Pick => /\ pending' = Idle
                    /\ \/ work' = work /\ at' = "top"
                       \/ work' = pending /\ pending # Idle
         /\ ResearchEnds => work' = Idle /\ pending' = pending /\ at' # "research"
  BY DEF StreamCommand, StreamPartial, AskEnds, Pick, ResearchEnds, worker

LEMMA WorkComesHome ==
  ASSUME IInv, Home, StreamCommand \/ StreamPartial \/ AskEnds \/ Pick \/ ResearchEnds
  PROVE  Home'
<1>1. /\ Tidy
      /\ at = "research" => work.turn # 0
      /\ pending # Idle => pending.turn # 0
      /\ Apart(ChannelTurns, FoundTurns(events), HeldTurns(held_findings), Lone(work.turn),
               Lone(pending.turn))
  BY DEF Home
<1>2. UNCHANGED <<jobs, sending, slow_asks, held_findings, vend_id, next_sid>>
  BY DEF StreamCommand, StreamPartial, AskEnds, Pick, ResearchEnds, session, slowLane, stack,
     calling
<1>3. Lone(Idle.turn) = {} /\ Tidy' /\ ChannelTurns' = ChannelTurns
  BY <1>1, <1>2, ChannelStill DEF Lone, Idle, NoJob
<1>4. CASE StreamCommand \/ StreamPartial \/ AskEnds
  <2>1. FoundTurns(events') = FoundTurns(events) /\ FoundOnce(events')
    BY <1>4, WorkSays
  <2>2. /\ work' \in {work, Idle} /\ pending' = pending /\ at' # "research"
    BY <1>4, WorkMoves
  <2>3. Lone(work'.turn) \subseteq Lone(work.turn)
    BY <1>3, <2>2
  <2>4. Apart(ChannelTurns', FoundTurns(events'), {}, Lone(work'.turn), Lone(pending'.turn))
    BY <1>1, <1>3, <2>1, <2>2, <2>3 DEF Apart
  <2>5. QED
    BY <1>1, <1>2, <1>3, <2>1, <2>2, <2>3, <2>4, HomeMoves
<1>5. CASE Pick
  <2>1. FoundTurns(events') = FoundTurns(events) /\ FoundOnce(events')
    BY <1>5, WorkSays
  <2>2. /\ pending' = Idle
        /\ \/ work' = work /\ at' = "top"
           \/ work' = pending /\ pending # Idle
    BY <1>5, WorkMoves
  <2>3. /\ Lone(work'.turn) \subseteq Lone(work.turn) \cup Lone(pending.turn)
        /\ Lone(pending'.turn) = {}
        /\ at' = "research" => work'.turn # 0
    BY <1>1, <1>3, <2>2
  <2>4. Apart(ChannelTurns', FoundTurns(events'), {}, Lone(work'.turn), Lone(pending'.turn))
    BY <1>1, <1>3, <2>1, <2>3 DEF Apart
  <2>5. QED
    BY <1>1, <1>2, <1>3, <2>1, <2>2, <2>3, <2>4, HomeMoves
<1>6. CASE ResearchEnds
  <2>1. /\ FoundTurns(events') \subseteq FoundTurns(events) \cup Lone(work.turn)
        /\ FoundOnce(events')
    BY <1>6, WorkSays
  <2>2. work' = Idle /\ pending' = pending /\ at' # "research"
    BY <1>6, WorkMoves
  <2>3. Lone(work'.turn) = {}
    BY <1>3, <2>2
  <2>4. Apart(ChannelTurns', FoundTurns(events'), {}, Lone(work'.turn), Lone(pending'.turn))
    BY <1>1, <1>3, <2>1, <2>2, <2>3 DEF Apart
  <2>5. QED
    BY <1>1, <1>2, <1>3, <2>1, <2>2, <2>3, <2>4, HomeMoves
<1>7. QED
  BY <1>4, <1>5, <1>6

LEMMA HomeStarts == Init => Home
<1> SUFFICES ASSUME Init PROVE Home
  OBVIOUS
<1>1. /\ JobTurns(<<>>) = {} /\ FoundTurns(<<>>) = {} /\ HeldTurns(<<>>) = {} /\ FoundOnce(<<>>)
      /\ HeldOnce(<<>>) /\ Plain(<<>>) /\ Lone(Idle.turn) = {} /\ <<>> \in Seq(Report)
  BY DEF JobTurns, FoundTurns, HeldTurns, FoundOnce, HeldOnce, Plain, Lone, Idle, NoJob
<1>2. Abroad = {} /\ ChannelTurns = {} /\ Tidy
  BY <1>1, AbroadIs DEF Init, ChannelTurns, Tidy
<1>3. 0 \in (0 .. 1 - 1) \ {}
  OBVIOUS
<1>4. QED
  BY <1>1, <1>2, <1>3 DEF Init, Home, Apart, Turns

LEMMA HomePreserved == IInv /\ Home /\ [Next]_vars => Home'
<1> SUFFICES ASSUME IInv, Home, [Next]_vars PROVE Home'
  OBVIOUS
<1>1. CASE UNCHANGED vars
  <2>1. UNCHANGED <<jobs, sending, events, slow_asks, vend_id, next_sid, held_findings, at, work,
                    pending>>
    BY <1>1 DEF vars, session, slowLane, stack, worker, calling
  <2>2. /\ ChannelTurns' \subseteq ChannelTurns /\ Tidy'
        /\ FoundTurns(events') \subseteq FoundTurns(events) /\ FoundOnce(events')
    BY <2>1, ChannelStill DEF Home
  <2>3. QED
    BY <2>1, <2>2, HomeQuiet
<1>2. CASE Handler
  BY <1>2, NoneComesHome, ShotComesHome, FindingComesHome, LandComesHome DEF Handler
<1>3. CASE Worker
  BY <1>3, TakeComesHome, WorkComesHome DEF Worker
<1>4. QED
  BY <1>1, <1>2, <1>3, UserComesHome, SlowComesHome, SendComesHome DEF Next, User

LEMMA Homing == Spec => []Home
BY Inductive, HomeStarts, HomePreserved, PTL DEF Spec

\* The question of every research not yet landed is still known to the session,
\* in the channel, in hand, pending, found or held: apply_finding never meets a
\* finding it cannot tell the turn of, whatever was cancelled, relayed, cleared
\* or read in between.
THEOREM FindingsLand == Spec => []FindingsComeHome
<1>1. Home => FindingsComeHome
  BY DEF Home, FindingsComeHome
<1>2. QED
  BY <1>1, Homing, PTL

-----------------------------------------------------------------------------
(* The stack, whatever is in it *)

Entry == [id : Turns, cmd : MaybeCmd, text : 0 .. MaxActs,
          alt : [of : 0 .. MaxActs, cmd : MaybeCmd], by : SUBSET (0 .. MaxActs)]

\* The newest under a new id; or in front of what there was, as much as fits.
LEMMA PushShape ==
  ASSUME NEW hist \in Seq(Entry), NEW slot \in Entry
  PROVE  LET new == Push(hist, slot) IN
         /\ new \in Seq(Entry)
         /\ \/ /\ hist # <<>> /\ DOMAIN new = DOMAIN hist /\ 1 \in DOMAIN hist
               /\ new[1] \in Entry
               /\ new[1].id = slot.id /\ new[1].cmd = hist[1].cmd /\ new[1].alt = hist[1].alt
               /\ new[1].by = hist[1].by \cup slot.by
               /\ new[1].text \in {slot.text, hist[1].text}
               /\ \A i \in DOMAIN hist : i # 1 => new[i] = hist[i]
            \/ \E n \in 1 .. Len(hist) + 1 :
                 /\ Len(new) = n /\ new[1] = slot
                 /\ \A i \in 2 .. n : i - 1 \in DOMAIN hist /\ new[i] = hist[i - 1]
<1> DEFINE new == Push(hist, slot)
<1>1. CASE hist # <<>> /\ hist[1].cmd = slot.cmd
  <2> DEFINE top == [hist[1] EXCEPT !.id = slot.id, !.by = hist[1].by \cup slot.by,
                                    !.text = IF slot.text # 0 THEN slot.text ELSE hist[1].text]
  <2>1. 1 \in DOMAIN hist /\ hist[1] \in Entry
    BY <1>1
  <2>2. new = [hist EXCEPT ![1] = top]
    BY <1>1, <2>1 DEF Push, Entry
  <2>3. /\ top \in Entry /\ top.id = slot.id /\ top.cmd = hist[1].cmd /\ top.alt = hist[1].alt
        /\ top.by = hist[1].by \cup slot.by
        /\ top.text \in {slot.text, hist[1].text}
    BY <2>1 DEF Entry
  <2> HIDE DEF top
  <2>4. /\ new \in Seq(Entry) /\ DOMAIN new = DOMAIN hist /\ new[1] = top
        /\ \A i \in DOMAIN hist : i # 1 => new[i] = hist[i]
    BY <2>1, <2>2, <2>3
  <2> HIDE DEF new
  <2>5. QED
    BY <1>1, <2>1, <2>3, <2>4 DEF new
<1>2. CASE ~(hist # <<>> /\ hist[1].cmd = slot.cmd)
  <2> DEFINE n    == IF Len(hist) < SugHistCap THEN Len(hist) + 1 ELSE SugHistCap
             more == <<slot>> \o hist
  <2>1. n \in 1 .. Len(hist) + 1 /\ Len(hist) \in Nat
    BY BoundsAssumption
  <2>2. /\ more \in Seq(Entry) /\ Len(more) = Len(hist) + 1 /\ more[1] = slot
        /\ \A i \in 2 .. Len(hist) + 1 : i - 1 \in DOMAIN hist /\ more[i] = hist[i - 1]
    OBVIOUS
  <2>3. new = SubSeq(more, 1, n)
    BY <1>2, Zenon DEF Push
  <2> HIDE DEF n, more, new
  <2>4. new \in Seq(Entry) /\ Len(new) = n /\ \A i \in 1 .. n : new[i] = more[i]
    BY <2>1, <2>2, <2>3
  <2>5. new[1] = slot /\ \A i \in 2 .. n : i - 1 \in DOMAIN hist /\ new[i] = hist[i - 1]
    BY <2>1, <2>2, <2>4
  <2>6. QED
    BY <2>1, <2>4, <2>5 DEF new
<1>3. QED
  BY <1>1, <1>2

\* What is said of each slot there was, and of the new one, is said of each there
\* is then: the new one has its own number, and the words and users of both.
Numbered(hist, sid) == \A i \in DOMAIN hist : hist[i].id < sid

TrueSlot(slot, carried, vid, of) ==
  /\ {slot.text, slot.alt.of} \subseteq slot.by \cup {0}
  /\ slot.id = vid => of \in slot.by
  /\ \A c \in carried : c[1] = slot.id => c[2] \in slot.by
TrueStack(hist, carried, vid, of) ==
  \A i \in DOMAIN hist : TrueSlot(hist[i], carried, vid, of)

LEMMA PushNumbered ==
  ASSUME NEW hist \in Seq(Entry), NEW slot \in Entry, NEW sid \in Nat,
         Numbered(hist, sid), slot.id < sid
  PROVE  Numbered(Push(hist, slot), sid)
<1> DEFINE new == Push(hist, slot)
<1>1. CASE /\ DOMAIN new = DOMAIN hist /\ new[1].id = slot.id
           /\ \A i \in DOMAIN hist : i # 1 => new[i] = hist[i]
  BY <1>1 DEF Numbered
<1>2. ASSUME NEW n \in 1 .. Len(hist) + 1, new \in Seq(Entry), Len(new) = n, new[1] = slot,
             \A i \in 2 .. n : i - 1 \in DOMAIN hist /\ new[i] = hist[i - 1]
      PROVE  Numbered(new, sid)
  <2>1. \A i \in DOMAIN new : i = 1 \/ i \in 2 .. n
    BY <1>2
  <2>2. QED
    BY <1>2, <2>1 DEF Numbered
<1>3. QED
  BY <1>1, <1>2, PushShape

LEMMA PushTrue ==
  ASSUME NEW hist \in Seq(Entry), NEW slot \in Entry, NEW carried, NEW vid, NEW of,
         TrueStack(hist, carried, vid, of), TrueSlot(slot, carried, vid, of)
  PROVE  TrueStack(Push(hist, slot), carried, vid, of)
<1> DEFINE new == Push(hist, slot)
<1>1. CASE /\ DOMAIN new = DOMAIN hist /\ 1 \in DOMAIN hist
           /\ new[1].id = slot.id /\ new[1].alt = hist[1].alt
           /\ new[1].by = hist[1].by \cup slot.by /\ new[1].text \in {slot.text, hist[1].text}
           /\ \A i \in DOMAIN hist : i # 1 => new[i] = hist[i]
  <2> HIDE DEF new
  <2>1. TrueSlot(hist[1], carried, vid, of)
    BY <1>1 DEF TrueStack
  <2>2. TrueSlot(new[1], carried, vid, of)
    BY <1>1, <2>1 DEF TrueSlot
  <2>3. QED
    BY <1>1, <2>2 DEF TrueStack, new
<1>2. ASSUME NEW n \in 1 .. Len(hist) + 1, new \in Seq(Entry), Len(new) = n, new[1] = slot,
             \A i \in 2 .. n : i - 1 \in DOMAIN hist /\ new[i] = hist[i - 1]
      PROVE  TrueStack(new, carried, vid, of)
  <2>1. \A i \in DOMAIN new : i = 1 \/ i \in 2 .. n
    BY <1>2
  <2>2. QED
    BY <1>2, <2>1 DEF TrueStack
<1>3. QED
  BY <1>1, <1>2, PushShape

\* A finding, whose turn and question are among those carried, lands; and no
\* other of its turn is to come.
LEMMA LandedHolds ==
  ASSUME NEW hist \in Seq(Entry), NEW f \in Report, NEW known, NEW sid \in Nat, f.turn \in 1 .. sid - 1,
         Numbered(hist, sid)
  PROVE  /\ Landed(hist, f, known) \in Seq(Entry)
         /\ Numbered(Landed(hist, f, known), sid)
         /\ \A carried, vid, of :
              /\ TrueStack(hist, carried, vid, of) /\ <<f.turn, f.of>> \in carried /\ vid # f.turn
              => TrueStack(Landed(hist, f, known), {c \in carried : c[1] # f.turn}, vid, of)
<1> DEFINE slots == {i \in DOMAIN hist : hist[i].id = f.turn}
           new == Landed(hist, f, known)
           slot == Vended(f.turn, f.cmd, f.of, f.of)
<1>0. DOMAIN hist = 1 .. Len(hist) /\ Len(hist) \in Nat /\ \A i \in DOMAIN hist : hist[i] \in Entry
  OBVIOUS
<1>1. CASE slots # {}
  <2>1. new = [i \in DOMAIN hist |-> IF i \in slots THEN Amended(hist[i], f) ELSE hist[i]]
    BY <1>1 DEF Landed
  <2>2. ASSUME NEW i \in DOMAIN hist
        PROVE  /\ new[i] \in Entry /\ new[i].id = hist[i].id /\ new[i].by = hist[i].by
               /\ new[i].text = hist[i].text
               /\ new[i].alt = hist[i].alt \/ (hist[i].id = f.turn /\ new[i].alt.of = f.of)
    <3>1. /\ Amended(hist[i], f) \in Entry /\ Amended(hist[i], f).id = hist[i].id
          /\ Amended(hist[i], f).by = hist[i].by /\ Amended(hist[i], f).text = hist[i].text
          /\ Amended(hist[i], f).alt = hist[i].alt \/ Amended(hist[i], f).alt.of = f.of
      <4>1. hist[i] \in Entry
        BY <1>0
      <4>2. QED
        BY <4>1 DEF Amended, Entry, Report
    <3>2. new[i] = IF i \in slots THEN Amended(hist[i], f) ELSE hist[i]
      BY <2>1
    <3>3. QED
      BY <1>0, <3>1, <3>2
  <2>3. DOMAIN new = DOMAIN hist /\ new = [i \in DOMAIN hist |-> new[i]]
    BY <2>1
  <2> HIDE DEF new
  <2>4. new \in Seq(Entry)
    BY <1>0, <2>2, <2>3
  <2>5. Numbered(new, sid)
    BY <2>2, <2>3 DEF Numbered
  <2>6. ASSUME NEW carried, NEW vid, NEW of, TrueStack(hist, carried, vid, of),
               <<f.turn, f.of>> \in carried
        PROVE  TrueStack(new, {c \in carried : c[1] # f.turn}, vid, of)
    <3>1. ASSUME NEW i \in DOMAIN hist
          PROVE  TrueSlot(new[i], {c \in carried : c[1] # f.turn}, vid, of)
      <4>1. TrueSlot(hist[i], carried, vid, of)
        BY <2>6 DEF TrueStack
      <4>2. <<f.turn, f.of>>[1] = f.turn /\ <<f.turn, f.of>>[2] = f.of
        OBVIOUS
      <4>3. hist[i].id = f.turn => f.of \in hist[i].by
        BY <2>6, <4>1, <4>2 DEF TrueSlot
      <4>4. QED
        BY <2>2, <4>1, <4>3 DEF TrueSlot
    <3>2. QED
      BY <2>3, <3>1 DEF TrueStack
  <2>7. QED
    BY <2>4, <2>5, <2>6 DEF new
<1>2. CASE slots = {} /\ known /\ f.cmd # NoCmd
  <2>1. new = Push(hist, slot)
    BY <1>2 DEF Landed
  <2>2. /\ slot \in Entry /\ slot.id = f.turn /\ slot.text = f.of /\ slot.alt.of = 0
        /\ slot.by = {f.of}
    BY BoundsAssumption DEF Vended, Entry, NoAlt, MaybeCmd, Report, Turns
  <2> HIDE DEF new, slot
  <2>3. new \in Seq(Entry) /\ Numbered(new, sid)
    BY <2>1, <2>2, PushShape, PushNumbered
  <2>4. ASSUME NEW carried, NEW vid, NEW of, TrueStack(hist, carried, vid, of), vid # f.turn
        PROVE  TrueStack(new, {c \in carried : c[1] # f.turn}, vid, of)
    <3> DEFINE left == {c \in carried : c[1] # f.turn}
    <3>1. TrueStack(hist, left, vid, of)
      BY <2>4 DEF TrueStack, TrueSlot
    <3>2. TrueSlot(slot, left, vid, of)
      BY <2>2, <2>4 DEF TrueSlot
    <3> HIDE DEF left
    <3>3. TrueStack(new, left, vid, of)
      BY <2>1, <2>2, <3>1, <3>2, PushTrue
    <3>4. QED
      BY <3>3 DEF left
  <2>5. QED
    BY <2>3, <2>4 DEF new
<1>3. CASE slots = {} /\ ~(known /\ f.cmd # NoCmd)
  <2>1. new = hist
    BY <1>3 DEF Landed
  <2> HIDE DEF new
  <2>2. ASSUME NEW carried, NEW vid, NEW of, TrueStack(hist, carried, vid, of)
        PROVE  TrueStack(new, {c \in carried : c[1] # f.turn}, vid, of)
    BY <2>1, <2>2 DEF TrueStack, TrueSlot
  <2>3. QED
    BY <2>1, <2>2 DEF new
<1>4. QED
  BY <1>1, <1>2, <1>3

-----------------------------------------------------------------------------
(* Whose words they are *)

\* Research not landed, and whose question it is.
Carried ==
  ChannelAsks \cup FoundAsks(events) \cup HeldAsks(held_findings) \cup LoneAsks(work)
    \cup LoneAsks(pending)

Words ==
  /\ sug_hist \in Seq(Entry) /\ Numbered(sug_hist, next_sid)
  /\ slow_after_fast # NoShot => slow_after_fast.of = vending
  /\ ~crossed => TrueStack(sug_hist, Carried, vend_id, vending)

LEMMA AsksTurns ==
  \A q : /\ \A c \in JobAsks(q) : c[1] \in JobTurns(q)
         /\ \A c \in FoundAsks(q) : c[1] \in FoundTurns(q)
         /\ \A c \in HeldAsks(q) : c[1] \in HeldTurns(q)
         /\ \A c \in LoneAsks(q) : c[1] \in Lone(q.turn)
<1>1. \A q : \A c \in JobAsks(q) : c[1] \in JobTurns(q)
  BY DEF JobAsks, JobTurns
<1>2. \A q : \A c \in FoundAsks(q) : c[1] \in FoundTurns(q)
  BY DEF FoundAsks, FoundTurns
<1>3. \A q : \A c \in HeldAsks(q) : c[1] \in HeldTurns(q)
  BY DEF HeldAsks, HeldTurns
<1>4. \A q : \A c \in LoneAsks(q) : c[1] \in Lone(q.turn)
  BY DEF LoneAsks, Lone
<1>5. QED
  BY <1>1, <1>2, <1>3, <1>4

LEMMA ChannelAsksTurns == \A c \in ChannelAsks : c[1] \in ChannelTurns
BY AsksTurns DEF ChannelAsks, ChannelTurns

LEMMA CarriedAbroad ==
  ASSUME Home
  PROVE  /\ \A c \in Carried : c[1] \in Abroad /\ c[1] \in slow_asks /\ c[1] \in 1 .. next_sid - 1
         /\ next_sid \in Nat \ {0}
<1>1. \A c \in Carried : c[1] \in Abroad
  BY AsksTurns, ChannelAsksTurns, AbroadIs DEF Carried
<1>2. QED
  BY <1>1 DEF Home, Turns

\* The worker passes it on, or drops it.
LEMMA WorkerCarries ==
  ASSUME IInv, Home, Worker
  PROVE  Carried' \subseteq Carried
<1>1. UNCHANGED held_findings
  BY DEF Worker, Take, StreamCommand, StreamPartial, AskEnds, Pick, ResearchEnds, session, slowLane
<1>2. Carried' = ChannelAsks' \cup FoundAsks(events') \cup HeldAsks(held_findings)
                   \cup LoneAsks(work') \cup LoneAsks(pending')
  BY <1>1 DEF Carried, ChannelAsks, JobAsks, FoundAsks, HeldAsks, LoneAsks, Lone
<1>3. LoneAsks(Idle) = {}
  BY DEF LoneAsks, Lone, Idle, NoJob
<1>4. CASE Take
  <2>1. FoundAsks(events') = FoundAsks(events)
    BY <1>4, TakeSays
  <2>2. jobs' = <<>> /\ UNCHANGED sending /\ jobs \in Seq(Job) /\ Plain(jobs)
    BY <1>4 DEF Take, IInv, Doom, Home, Tidy
  <2>3. ChannelAsks' \subseteq ChannelAsks
    BY <2>2 DEF ChannelAsks, JobAsks
  <2>4. LoneAsks(work') = {}
    <3>1. CASE \E i \in Newest(Asks) : work' = jobs[i]
      <4>1. PICK i \in DOMAIN jobs : work' = jobs[i] /\ jobs[i].kind \in {"ask", "watch"}
        BY <3>1 DEF Newest, Asks
      <4>2. jobs[i].turn = 0
        BY <2>2, <4>1 DEF Plain
      <4>3. QED
        BY <4>1, <4>2 DEF LoneAsks, Lone
    <3>2. QED
      BY <1>3, <1>4, <3>1 DEF Take
  <2>5. LoneAsks(pending') \subseteq ChannelAsks \cup LoneAsks(pending)
    <3>1. CASE \E i \in Newest(Uncancelled) : pending' = jobs[i]
      <4>1. PICK i \in DOMAIN jobs : pending' = jobs[i] /\ jobs[i].kind = "research"
        BY <3>1 DEF Newest, Uncancelled
      <4>2. QED
        BY <4>1 DEF LoneAsks, ChannelAsks, JobAsks
    <3>2. QED
      BY <1>3, <1>4, <3>1 DEF Take
  <2>6. QED
    BY <1>2, <2>1, <2>3, <2>4, <2>5 DEF Carried
<1>5. CASE StreamCommand \/ StreamPartial \/ AskEnds \/ Pick \/ ResearchEnds
  <2>1. UNCHANGED <<jobs, sending>>
    BY <1>5 DEF StreamCommand, StreamPartial, AskEnds, Pick, ResearchEnds, calling
  <2>2. FoundAsks(events') \subseteq FoundAsks(events) \cup LoneAsks(work)
    BY <1>5, WorkSays
  <2>3. LoneAsks(work') \cup LoneAsks(pending') \subseteq LoneAsks(work) \cup LoneAsks(pending)
    BY <1>3, <1>5, WorkMoves
  <2>4. ChannelAsks' = ChannelAsks
    BY <2>1, ChannelStill
  <2>5. QED
    BY <1>2, <2>2, <2>3, <2>4 DEF Carried
<1>6. QED
  BY <1>4, <1>5 DEF Worker

LEMMA EntriesIn ==
  \A h \in Seq(Entry) : \A i \in DOMAIN h : h[i] \in Entry /\ h[i].id \in Nat \ {0}
<1>1. \A h \in Seq(Entry) : \A i \in DOMAIN h : h[i] \in Entry
  OBVIOUS
<1>2. \A e \in Entry : e.id \in Nat \ {0}
  BY DEF Entry, Turns
<1>3. QED
  BY <1>1, <1>2, Zenon

\* What does not push and hears nobody leaves the words true.
LEMMA WordsStay ==
  ASSUME Words, Home, sug_hist' \in {sug_hist, <<>>}, next_sid' \in {next_sid, next_sid + 1},
         NEW X, Carried' \subseteq Carried \cup X, \A x \in X : x[1] = next_sid,
         vend_id' = 0 \/ UNCHANGED <<vend_id, vending>>, crossed => crossed',
         slow_after_fast' # NoShot => slow_after_fast'.of = vending'
  PROVE  Words'
<1>1. /\ sug_hist \in Seq(Entry) /\ Numbered(sug_hist, next_sid) /\ next_sid \in Nat \ {0}
      /\ <<>> \in Seq(Entry)
  BY CarriedAbroad DEF Words
<1>2. /\ sug_hist' \in Seq(Entry)
      /\ \A i \in DOMAIN sug_hist' : sug_hist'[i] = sug_hist[i] /\ i \in DOMAIN sug_hist
  <2>1. CASE sug_hist' = sug_hist
    BY <1>1, <2>1
  <2>2. CASE sug_hist' = <<>>
    <3>1. DOMAIN sug_hist' = {}
      BY <2>2
    <3>2. QED
      BY <1>1, <2>2, <3>1, Zenon
  <2>3. QED
    BY <2>1, <2>2
<1>3. \A i \in DOMAIN sug_hist : sug_hist[i].id \in Nat \ {0} /\ sug_hist[i].id < next_sid
  BY <1>1, EntriesIn, Zenon DEF Numbered
<1>4. Numbered(sug_hist', next_sid')
  <2>1. \A m \in Nat : m < next_sid => m < next_sid'
    BY <1>1
  <2>2. QED
    BY <1>2, <1>3, <2>1 DEF Numbered
<1>5. ASSUME ~crossed'
      PROVE  TrueStack(sug_hist', Carried', vend_id', vending')
  <2>1. TrueStack(sug_hist, Carried, vend_id, vending)
    BY <1>5 DEF Words
  <2>2. ASSUME NEW i \in DOMAIN sug_hist
        PROVE  TrueSlot(sug_hist[i], Carried', vend_id', vending')
    <3>1. TrueSlot(sug_hist[i], Carried, vend_id, vending) /\ sug_hist[i].id # next_sid
          /\ sug_hist[i].id # 0
      BY <1>1, <1>3, <2>1 DEF TrueStack
    <3>2. sug_hist[i].id = vend_id' => vending' \in sug_hist[i].by
      BY <3>1 DEF TrueSlot
    <3>3. \A c \in Carried' : c[1] = sug_hist[i].id => c \in Carried
      BY <3>1
    <3>4. QED
      BY <3>1, <3>2, <3>3 DEF TrueSlot
  <2>3. QED
    BY <1>2, <2>2 DEF TrueStack
<1>6. QED
  BY <1>2, <1>4, <1>5 DEF Words

\* What the user's actions leave of it, the jobs apart.
LEMMA UserCarries ==
  ASSUME UNCHANGED <<events, held_findings, work, pending>>
  PROVE  Carried' = ChannelAsks' \cup FoundAsks(events) \cup HeldAsks(held_findings)
                      \cup LoneAsks(work) \cup LoneAsks(pending)
  BY DEF Carried, ChannelAsks, JobAsks, FoundAsks, HeldAsks, LoneAsks, Lone

LEMMA UserKeepsWords ==
  ASSUME IInv, Home, Words,
         \/ Hash \/ HashCancel \/ HashHash \/ HashAt \/ HashSlash
         \/ ChatAsk \/ ChatAt \/ ChatSlash \/ Browse \/ CmdStart
  PROVE  Words'
<1>1. UNCHANGED <<events, held_findings, work, pending, next_sid, crossed>>
  BY DEF Hash, HashCancel, HashHash, HashAt, HashSlash, ChatAsk, ChatAt, ChatSlash, Browse, CmdStart,
     worker, slowLane, session, stack, heard, history
<1>2. Carried' \subseteq Carried \cup {}
  BY <1>1, UserUnturned, UserCarries DEF Unturned, Carried
<1>3. sug_hist' \in {sug_hist, <<>>}
  BY DEF Hash, HashCancel, HashHash, HashAt, HashSlash, ChatAsk, ChatAt, ChatSlash, Browse, CmdStart,
     SlashCommand, session, stack
<1>4. /\ vend_id' = 0 \/ UNCHANGED <<vend_id, vending>>
      /\ slow_after_fast' # NoShot => slow_after_fast'.of = vending'
  <2>1. CASE Hash
    BY <2>1 DEF Hash, Vending, NoShot, Armed
  <2>2. CASE HashCancel \/ HashHash \/ HashAt \/ HashSlash
    BY <2>2 DEF HashCancel, HashHash, HashAt, HashSlash, Mark, heard, history
  <2>3. CASE ChatAsk \/ ChatAt \/ ChatSlash \/ Browse \/ CmdStart
    <3>1. UNCHANGED <<vend_id, vending>> /\ slow_after_fast' \in {slow_after_fast, NoShot}
      BY <2>3 DEF ChatAsk, ChatAt, ChatSlash, Browse, CmdStart, slowLane, session, heard, history
    <3>2. QED
      BY <3>1 DEF Words
  <2>4. QED
    BY <2>1, <2>2, <2>3
<1>5. QED
  BY <1>1, <1>2, <1>3, <1>4, WordsStay

LEMMA SlowKeepsWords ==
  ASSUME IInv, Home, Words, HashSlow \/ ChatSlow
  PROVE  Words'
<1>0. acts' \in 0 .. MaxActs /\ next_sid \notin ChannelTurns
  <2>1. \E doing : Act(doing)
    BY DEF HashSlow, ChatSlow
  <2>2. acts' \in 0 .. MaxActs
    BY <2>1, Acting DEF IInv, Acted
  <2>3. next_sid \notin ChannelTurns
    BY AbroadIs DEF Home, Turns
  <2>4. QED
    BY <2>2, <2>3
<1>1. /\ Tidy /\ next_sid \in Nat
      /\ Supersede(<<Researching(acts', next_sid, acts')>>)
  BY DEF Home, Turns, HashSlow, ChatSlow
<1>2. ChannelAsks' \subseteq ChannelAsks \cup {<<next_sid, acts'>>}
  BY <1>0, <1>1, ResearchSupersede
<1>3. /\ UNCHANGED <<events, held_findings, work, pending, sug_hist, vend_id, vending, crossed>>
      /\ next_sid' = next_sid + 1 /\ slow_after_fast' \in {slow_after_fast, NoShot}
  BY DEF HashSlow, ChatSlow, Mark, worker, heard
<1> DEFINE X == {<<next_sid, acts'>>}
<1>4. Carried' \subseteq Carried \cup X
  BY <1>2, <1>3, UserCarries DEF Carried
<1>5. \A x \in X : x[1] = next_sid
  OBVIOUS
<1> HIDE DEF X
<1>6. slow_after_fast' # NoShot => slow_after_fast'.of = vending'
  BY <1>3 DEF Words
<1>7. QED
  BY <1>3, <1>4, <1>5, <1>6, WordsStay

\* Fewer carried; another slot to vend, if none has its number.
LEMMA TrueStill ==
  ASSUME NEW hist, NEW C, NEW D, D \subseteq C, NEW vid, NEW of, TrueStack(hist, C, vid, of)
  PROVE  /\ TrueStack(hist, D, vid, of)
         /\ \A v, w : (\A i \in DOMAIN hist : hist[i].id # v) => TrueStack(hist, D, v, w)
  BY DEF TrueStack, TrueSlot

\* A slot of the next number, vended or not.
LEMMA PushWords ==
  ASSUME Home, NEW hist \in Seq(Entry), Numbered(hist, next_sid), NEW cmd \in MaybeCmd,
         NEW of \in 0 .. MaxActs, NEW text \in {0, of}
  PROVE  LET new == Push(hist, Vended(next_sid, cmd, of, text)) IN
         /\ new \in Seq(Entry) /\ Numbered(new, next_sid + 1)
         /\ \A vid, v :
              TrueStack(hist, Carried, vid, v) /\ (vid = next_sid => v = of)
              => TrueStack(new, Carried, vid, v)
<1> DEFINE slot == Vended(next_sid, cmd, of, text)
           new  == Push(hist, slot)
<1>1. /\ slot \in Entry /\ slot.id = next_sid /\ slot.text = text /\ slot.alt.of = 0
      /\ slot.by = {of}
  BY BoundsAssumption DEF Vended, Entry, NoAlt, MaybeCmd, Home
<1>2. next_sid \in Nat \ {0} /\ \A c \in Carried : c[1] # next_sid
  BY CarriedAbroad
<1>3. Numbered(hist, next_sid + 1)
  <2>1. \A i \in DOMAIN hist : hist[i].id \in Nat
    BY EntriesIn, Zenon
  <2>2. QED
    BY <1>2, <2>1 DEF Numbered
<1> HIDE DEF slot
<1>4. slot.id < next_sid + 1 /\ next_sid + 1 \in Nat
  BY <1>1, <1>2
<1>5. new \in Seq(Entry) /\ Numbered(new, next_sid + 1)
  BY <1>1, <1>3, <1>4, PushShape, PushNumbered
<1>6. ASSUME NEW vid, NEW v, TrueStack(hist, Carried, vid, v), vid = next_sid => v = of
      PROVE  TrueStack(new, Carried, vid, v)
  <2>1. TrueSlot(slot, Carried, vid, v)
    BY <1>1, <1>2, <1>6 DEF TrueSlot
  <2>2. QED
    BY <1>1, <1>6, <2>1, PushTrue
<1>7. QED
  BY <1>5, <1>6 DEF slot

\* The rules suggest a command, or nothing; and commentary is the next to vend.
LEMMA EndKeepsWords ==
  ASSUME IInv, Home, Words, CmdEnd
  PROVE  Words'
<1>1. /\ UNCHANGED <<events, held_findings, work, pending, crossed>>
      /\ vend_id' = 0 \/ UNCHANGED <<vend_id, vending>>
      /\ slow_after_fast' # NoShot => slow_after_fast'.of = vending'
  BY DEF CmdEnd, Vending, worker, Words, NoShot, Armed
<1>2. Carried' \subseteq Carried \cup {}
  BY <1>1, UserUnturned, UserCarries DEF Unturned, Carried
<1>3. CASE UNCHANGED stack
  <2>1. /\ sug_hist' \in {sug_hist, <<>>} /\ next_sid' \in {next_sid, next_sid + 1}
        /\ \A x \in {} : x[1] = next_sid
    BY <1>3 DEF stack
  <2>2. QED
    BY <1>1, <1>2, <2>1, WordsStay
<1>4. CASE \E cmd \in Cmds : /\ sug_hist' = Push(sug_hist, Vended(next_sid, cmd, running, running))
                             /\ next_sid' = next_sid + 1
  <2>1. PICK cmd \in Cmds : /\ sug_hist' = Push(sug_hist, Vended(next_sid, cmd, running, running))
                            /\ next_sid' = next_sid + 1
    BY <1>4
  <2>2. cmd \in MaybeCmd /\ running \in 0 .. MaxActs /\ running \in {0, running}
    BY BoundsAssumption DEF MaybeCmd, IInv, Order
  <2>3. sug_hist \in Seq(Entry) /\ Numbered(sug_hist, next_sid)
    BY DEF Words
  <2>4. /\ sug_hist' \in Seq(Entry) /\ Numbered(sug_hist', next_sid + 1)
        /\ \A vid, v : TrueStack(sug_hist, Carried, vid, v) /\ (vid = next_sid => v = running)
                       => TrueStack(sug_hist', Carried, vid, v)
    BY <2>1, <2>2, <2>3, PushWords
  <2>5. ASSUME ~crossed'
        PROVE  TrueStack(sug_hist', Carried', vend_id', vending')
    <3>1. TrueStack(sug_hist, Carried, vend_id, vending)
      BY <1>1, <2>5 DEF Words
    <3>2. \A i \in DOMAIN sug_hist : sug_hist[i].id # 0
      BY <2>3, EntriesIn
    <3>3. TrueStack(sug_hist, Carried, vend_id', vending')
      BY <1>1, <3>1, <3>2, TrueStill
    <3>4. next_sid \in Nat \ {0} /\ vend_id \in 0 .. next_sid - 1
      BY DEF Home, Turns
    <3>5. vend_id' # next_sid
      BY <1>1, <3>4
    <3>6. TrueStack(sug_hist', Carried, vend_id', vending')
      BY <2>4, <3>3, <3>5
    <3>7. QED
      BY <1>2, <3>6, TrueStill
  <2>6. QED
    BY <1>1, <2>1, <2>4, <2>5 DEF Words
<1>5. QED
  BY <1>3, <1>4 DEF CmdEnd

LEMMA HearCarries ==
  ASSUME IInv, Home, NEW kinds, Handle(kinds), UNCHANGED <<work, pending>>,
         NEW X, ChannelAsks' \subseteq ChannelAsks \cup X,
         HeldAsks(held_findings') \subseteq HeldAsks(held_findings) \cup FoundAsks(events)
  PROVE  Carried' \subseteq Carried \cup X
<1>1. FoundAsks(events') \subseteq FoundAsks(events)
  BY EventGoes
<1>2. Carried' = ChannelAsks' \cup FoundAsks(events') \cup HeldAsks(held_findings')
                   \cup LoneAsks(work) \cup LoneAsks(pending)
  BY DEF Carried, ChannelAsks, JobAsks, FoundAsks, HeldAsks, LoneAsks, Lone
<1>3. QED
  BY <1>1, <1>2 DEF Carried

\* A CMD line vends a slot: of the act heard, which is the one that vends.
LEMMA CommandKeepsWords ==
  ASSUME IInv, Home, Words, HandleCommand
  PROVE  Words'
<1> DEFINE e == Head(events)
<1>1. e \in Event /\ e.of \in 0 .. MaxActs /\ e.cmd \in MaybeCmd
  BY EventGoes DEF HandleCommand, Event
<1>2. /\ UNCHANGED <<jobs, sending, held_findings, work, pending, slow_after_fast, vending>>
      /\ crossed' = (crossed \/ e.of # vending)
      /\ sug_hist' = Push(sug_hist, Vended(next_sid, e.cmd, e.of, 0))
      /\ vend_id' = next_sid /\ next_sid' = next_sid + 1
  BY DEF HandleCommand, Hear, worker, slowLane, calling
<1> HIDE DEF e
<1>3. Carried' \subseteq Carried \cup {}
  <2>1. Handle({"Command"}) /\ UNCHANGED <<jobs, sending, held_findings, work, pending>>
    BY <1>2 DEF HandleCommand
  <2>2. QED
    BY <2>1, ChannelStill, HearCarries
<1>4. sug_hist \in Seq(Entry) /\ Numbered(sug_hist, next_sid)
  BY DEF Words
<1>5. /\ sug_hist' \in Seq(Entry) /\ Numbered(sug_hist', next_sid + 1)
      /\ \A vid, v : TrueStack(sug_hist, Carried, vid, v) /\ (vid = next_sid => v = e.of)
                     => TrueStack(sug_hist', Carried, vid, v)
  BY <1>1, <1>2, <1>4, PushWords
<1>6. ASSUME ~crossed'
      PROVE  TrueStack(sug_hist', Carried', vend_id', vending')
  <2>1. TrueStack(sug_hist, Carried, vend_id, vending) /\ e.of = vending
    BY <1>2, <1>6 DEF Words
  <2>2. \A i \in DOMAIN sug_hist : sug_hist[i].id # next_sid
    <3>1. next_sid \in Nat
      BY CarriedAbroad
    <3>2. QED
      BY <1>4, <3>1, EntriesIn DEF Numbered
  <2>3. TrueStack(sug_hist, Carried, next_sid, vending)
    BY <2>1, <2>2, TrueStill
  <2>4. TrueStack(sug_hist', Carried, next_sid, vending)
    BY <1>5, <2>1, <2>3
  <2>5. QED
    BY <1>2, <1>3, <2>4, TrueStill
<1>7. QED
  BY <1>2, <1>5, <1>6 DEF Words

LEMMA FiredAsks ==
  ASSUME IInv, Home, NEW turn \in Nat, turn \notin slow_asks, Fire(turn), UNCHANGED sending
  PROVE  ChannelAsks' \subseteq ChannelAsks \cup {<<turn, slow_after_fast.of>>}
<1>1. jobs \in Seq(Job) /\ Tidy /\ slow_after_fast.of \in 0 .. MaxActs /\ asked \in 0 .. MaxActs
  BY BoundsAssumption DEF IInv, Order, Doom, Home, Shots
<1>2. turn \notin ChannelTurns
  BY AbroadIs DEF Home
<1>3. Submit(<<Researching(slow_after_fast.of, turn, asked)>>)
  BY DEF Fire
<1>4. QED
  BY <1>1, <1>2, <1>3, ResearchSubmit

LEMMA QuietKeepsWords ==
  ASSUME IInv, Home, Words, HandlePartial \/ HandleResearching \/ HandleError
  PROVE  Words'
<1>1. /\ UNCHANGED <<held_findings, work, pending, sug_hist, vend_id, vending, crossed, sending>>
      /\ Handle({"Partial"}) \/ Handle({"Researching"}) \/ Handle({"Error"})
      /\ slow_after_fast' \in {slow_after_fast, NoShot}
      /\ \/ UNCHANGED <<jobs, next_sid>>
         \/ Fire(next_sid) /\ next_sid' = next_sid + 1
  BY DEF HandlePartial, HandleResearching, HandleError, worker, slowLane, stack, history, heard,
     calling
<1> DEFINE X == {<<next_sid, slow_after_fast.of>>}
<1>2. ChannelAsks' \subseteq ChannelAsks \cup X
  <2>1. next_sid \in Nat /\ next_sid \notin slow_asks
    BY DEF Home, Turns
  <2>2. CASE Fire(next_sid)
    BY <1>1, <2>1, <2>2, FiredAsks
  <2>3. CASE UNCHANGED jobs
    BY <1>1, <2>3, ChannelStill
  <2>4. QED
    BY <1>1, <2>2, <2>3
<1>3. \A x \in X : x[1] = next_sid
  OBVIOUS
<1> HIDE DEF X
<1>4. Carried' \subseteq Carried \cup X
  BY <1>1, <1>2, HearCarries
<1>5. slow_after_fast' # NoShot => slow_after_fast'.of = vending'
  BY <1>1 DEF Words
<1>6. QED
  BY <1>1, <1>3, <1>4, <1>5, WordsStay

\* An answer fills the slot vended, or vends its own; and what the shot asks is
\* of the act whose slot it will amend, or of a turn that has none.
LEMMA AnswerKeepsWords ==
  ASSUME IInv, Home, Words, HandleAnswer
  PROVE  Words'
<1> DEFINE e == Head(events)
           filled == [i \in DOMAIN sug_hist |->
                        IF e.cmd = NoCmd /\ sug_hist[i].id = vend_id
                        THEN [sug_hist[i] EXCEPT !.text = e.of] ELSE sug_hist[i]]
<1>1. e \in Event /\ e.of \in 0 .. MaxActs /\ e.cmd \in MaybeCmd /\ e.of \in {0, e.of}
  BY EventGoes DEF HandleAnswer, Event
<1>2. /\ UNCHANGED <<held_findings, work, pending, vending, sending>> /\ slow_after_fast' = NoShot
      /\ crossed' = (crossed \/ e.of # vending)
      /\ Handle({"Answer", "Comment", "Pass"})
  BY DEF HandleAnswer, Hear, worker, calling
<1>3. PICK vended, sid :
        /\ \/ vended = vend_id /\ sid = next_sid /\ sug_hist' = filled
           \/ /\ vended = next_sid /\ sid = next_sid + 1
              /\ sug_hist' = Push(filled, Vended(next_sid, e.cmd, e.of, e.of))
        /\ \/ /\ Fire(IF vended # 0 THEN vended ELSE sid) /\ vend_id' = 0
              /\ next_sid' = IF vended # 0 THEN sid ELSE sid + 1
              /\ slow_after_fast # NoShot
           \/ vend_id' = vended /\ next_sid' = sid /\ UNCHANGED <<slow_asks, jobs>>
  BY DEF HandleAnswer
<1>4. /\ sug_hist \in Seq(Entry) /\ Numbered(sug_hist, next_sid)
      /\ next_sid \in Nat \ {0} /\ vend_id \in 0 .. next_sid - 1
  BY CarriedAbroad DEF Words, Home
<1> HIDE DEF e
<1>5. /\ filled \in Seq(Entry) /\ Numbered(filled, next_sid)
      /\ ~crossed /\ e.of = vending => TrueStack(filled, Carried, vend_id, vending)
  <2>1. /\ DOMAIN sug_hist = 1 .. Len(sug_hist) /\ Len(sug_hist) \in Nat
        /\ \A i \in DOMAIN sug_hist : sug_hist[i] \in Entry
    BY <1>4
  <2>2. ASSUME NEW i \in DOMAIN sug_hist
        PROVE  /\ filled[i] \in Entry /\ filled[i].id = sug_hist[i].id
               /\ filled[i].by = sug_hist[i].by /\ filled[i].alt = sug_hist[i].alt
               /\ \/ filled[i].text = sug_hist[i].text
                  \/ filled[i].text = e.of /\ sug_hist[i].id = vend_id
    <3>1. sug_hist[i] \in Entry
      BY <2>1
    <3>2. QED
      BY <1>1, <3>1 DEF Entry
  <2>3. DOMAIN filled = DOMAIN sug_hist /\ filled = [i \in DOMAIN sug_hist |-> filled[i]]
    OBVIOUS
  <2> HIDE DEF filled
  <2>4. filled \in Seq(Entry) /\ Numbered(filled, next_sid)
    BY <1>4, <2>1, <2>2, <2>3 DEF Numbered
  <2>5. ASSUME ~crossed, e.of = vending
        PROVE  TrueStack(filled, Carried, vend_id, vending)
    <3>1. TrueStack(sug_hist, Carried, vend_id, vending)
      BY <2>5 DEF Words
    <3>2. ASSUME NEW i \in DOMAIN filled
          PROVE  TrueSlot(filled[i], Carried, vend_id, vending)
      <4>1. TrueSlot(sug_hist[i], Carried, vend_id, vending)
        BY <2>3, <3>1 DEF TrueStack
      <4>2. QED
        BY <2>2, <2>3, <2>5, <4>1 DEF TrueSlot
    <3>3. QED
      BY <3>2 DEF TrueStack
  <2>6. QED
    BY <2>4, <2>5
<1> HIDE DEF filled
<1>6. /\ sug_hist' \in Seq(Entry) /\ Numbered(sug_hist', sid)
      /\ sid \in {next_sid, next_sid + 1} /\ vended \in {vend_id, next_sid} /\ vended < sid
      /\ ~crossed' => TrueStack(sug_hist', Carried, vended, vending)
  <2>0. sid \in {next_sid, next_sid + 1} /\ vended \in {vend_id, next_sid} /\ vended < sid
    BY <1>3, <1>4
  <2>1. CASE vended = vend_id /\ sid = next_sid /\ sug_hist' = filled
    <3>1. ~crossed' => ~crossed /\ e.of = vending
      BY <1>2
    <3>2. ~crossed' => TrueStack(sug_hist', Carried, vended, vending)
      BY <1>5, <2>1, <3>1
    <3>3. sug_hist' \in Seq(Entry) /\ Numbered(sug_hist', sid)
      BY <1>5, <2>1
    <3>4. QED
      BY <2>0, <3>2, <3>3
  <2>2. CASE /\ vended = next_sid /\ sid = next_sid + 1
             /\ sug_hist' = Push(filled, Vended(next_sid, e.cmd, e.of, e.of))
    <3>1. /\ sug_hist' \in Seq(Entry) /\ Numbered(sug_hist', next_sid + 1)
          /\ \A vid, v : TrueStack(filled, Carried, vid, v) /\ (vid = next_sid => v = e.of)
                         => TrueStack(sug_hist', Carried, vid, v)
      BY <1>1, <1>5, <2>2, PushWords
    <3>2. \A i \in DOMAIN filled : filled[i].id # next_sid
      BY <1>4, <1>5, EntriesIn DEF Numbered
    <3>3. ~crossed' => TrueStack(filled, Carried, next_sid, vending) /\ vending = e.of
      BY <1>2, <1>5, <3>2, TrueStill
    <3>4. ~crossed' => TrueStack(sug_hist', Carried, vended, vending)
      BY <2>2, <3>1, <3>3
    <3>5. sug_hist' \in Seq(Entry) /\ Numbered(sug_hist', sid)
      BY <2>2, <3>1
    <3>6. QED
      BY <2>0, <3>4, <3>5
  <2>3. QED
    BY <1>3, <2>1, <2>2
<1>7. CASE vend_id' = vended /\ next_sid' = sid /\ UNCHANGED <<slow_asks, jobs>>
  <2>1. Carried' \subseteq Carried \cup {}
    BY <1>2, <1>7, ChannelStill, HearCarries
  <2>2. ~crossed' => TrueStack(sug_hist', Carried', vend_id', vending')
    BY <1>2, <1>6, <1>7, <2>1, TrueStill
  <2>3. QED
    BY <1>2, <1>6, <1>7, <2>2 DEF Words
<1>8. CASE /\ Fire(IF vended # 0 THEN vended ELSE sid) /\ vend_id' = 0
           /\ next_sid' = IF vended # 0 THEN sid ELSE sid + 1
           /\ slow_after_fast # NoShot
  <2> DEFINE turn == IF vended # 0 THEN vended ELSE sid
             X    == {<<turn, slow_after_fast.of>>}
  <2>1. slow_after_fast.of = vending /\ turn \in Nat
    BY <1>4, <1>6, <1>8 DEF Words
  <2>2. Carried' \subseteq Carried \cup X
    <3>1. turn \notin slow_asks
      BY <1>3, <1>4 DEF Home
    <3>2. ChannelAsks' \subseteq ChannelAsks \cup X
      BY <1>2, <1>8, <2>1, <3>1, FiredAsks
    <3> HIDE DEF X
    <3>3. QED
      BY <1>2, <3>2, HearCarries
  <2>3. \A i \in DOMAIN sug_hist' :
          sug_hist'[i].id \in Nat \ {0} /\ sug_hist'[i].id < sid
    BY <1>6, EntriesIn DEF Numbered
  <2>4. Numbered(sug_hist', next_sid')
    BY <1>4, <1>6, <1>8, <2>3 DEF Numbered
  <2>5. ASSUME ~crossed'
        PROVE  TrueStack(sug_hist', Carried', vend_id', vending')
    <3>1. ASSUME NEW i \in DOMAIN sug_hist'
          PROVE  TrueSlot(sug_hist'[i], Carried', vend_id', vending')
      <4>1. TrueSlot(sug_hist'[i], Carried, vended, vending)
        BY <1>6, <2>5, <3>1 DEF TrueStack
      <4>2. sug_hist'[i].id # 0 /\ (sug_hist'[i].id = turn => turn = vended)
        BY <1>4, <1>6, <2>3, <3>1
      <4>3. sug_hist'[i].id = turn => vending \in sug_hist'[i].by
        BY <4>1, <4>2 DEF TrueSlot
      <4>4. \A c \in Carried' : c[1] = sug_hist'[i].id => c[2] \in sug_hist'[i].by
        <5>1. \A x \in X : x[1] = turn /\ x[2] = vending
          BY <2>1
        <5> HIDE DEF X, turn
        <5>2. QED
          BY <2>2, <4>1, <4>3, <5>1 DEF TrueSlot
      <4>5. QED
        BY <1>8, <4>1, <4>2, <4>4 DEF TrueSlot
    <3>2. QED
      BY <3>1 DEF TrueStack
  <2>6. QED
    BY <1>2, <1>6, <2>4, <2>5 DEF Words
<1>9. QED
  BY <1>3, <1>7, <1>8

\* A finding goes to the slot of its turn, which is its own.
LEMMA FindingKeepsWords ==
  ASSUME IInv, Home, Words, HandleFinding
  PROVE  Words'
<1> DEFINE f == [of |-> Head(events).of, turn |-> Head(events).turn, cmd |-> Head(events).cmd]
<1>1. /\ Head(events) \in Event /\ Head(events).kind = "Finding"
      /\ f.turn \in FoundTurns(events) /\ f.turn \notin FoundTurns(events')
      /\ <<f.turn, f.of>> \in FoundAsks(events) /\ FoundAsks(events') \subseteq FoundAsks(events)
  BY EventGoes DEF HandleFinding
<1>2. f \in Report /\ f.of \in 0 .. MaxActs
  BY <1>1 DEF Report, Event
<1>3. /\ UNCHANGED <<vend_id, next_sid, work, pending, slow_after_fast, vending, crossed, sending>>
      /\ Handle({"Finding"})
  BY DEF HandleFinding, worker, history, heard, calling
<1>4. \/ Submit(<<Asking(f.of)>>) /\ UNCHANGED <<sug_hist, held_findings>>
      \/ held_findings' = Append(held_findings, f) /\ UNCHANGED <<sug_hist, jobs>>
      \/ /\ sug_hist' = Landed(sug_hist, f, f.turn \in slow_asks)
         /\ UNCHANGED <<held_findings, jobs>>
  BY DEF HandleFinding
<1>5. /\ Apart(ChannelTurns, FoundTurns(events), HeldTurns(held_findings), Lone(work.turn),
               Lone(pending.turn))
      /\ f.turn \in slow_asks /\ slow_asks \subseteq 1 .. next_sid - 1 /\ vend_id \notin slow_asks
      /\ HeldOnce(held_findings) /\ held_findings \in Seq(Report)
  BY <1>1, AbroadIs DEF Home
<1> HIDE DEF f
<1>6. CASE UNCHANGED sug_hist
  <2>1. /\ ChannelAsks' \subseteq ChannelAsks
        /\ HeldAsks(held_findings') \subseteq HeldAsks(held_findings) \cup FoundAsks(events)
    <3>1. CASE Submit(<<Asking(f.of)>>) /\ UNCHANGED held_findings
      <4>1. Unturned
        BY <1>2, <1>3, <3>1, UserSubmits
      <4>2. QED
        BY <3>1, <4>1 DEF Unturned
    <3>2. CASE held_findings' = Append(held_findings, f) /\ UNCHANGED jobs
      <4>1. f.turn \notin HeldTurns(held_findings)
        BY <1>1, <1>5 DEF Apart
      <4>2. HeldAsks(held_findings') = HeldAsks(held_findings) \cup {<<f.turn, f.of>>}
        BY <1>2, <1>5, <3>2, <4>1, HeldMore
      <4>3. QED
        BY <1>1, <1>3, <3>2, <4>2, ChannelStill
    <3>3. CASE UNCHANGED <<held_findings, jobs>>
      BY <1>3, <3>3, ChannelStill
    <3>4. QED
      BY <1>4, <3>1, <3>2, <3>3
  <2>2. Carried' \subseteq Carried \cup {}
    <3>1. ChannelAsks' \subseteq ChannelAsks \cup {} /\ UNCHANGED <<work, pending>>
      BY <1>3, <2>1
    <3>2. QED
      BY <1>3, <2>1, <3>1, HearCarries
  <2>3. /\ sug_hist' \in {sug_hist, <<>>} /\ next_sid' \in {next_sid, next_sid + 1}
        /\ \A x \in {} : x[1] = next_sid
        /\ slow_after_fast' # NoShot => slow_after_fast'.of = vending'
    BY <1>3, <1>6 DEF Words
  <2>4. QED
    BY <1>3, <2>2, <2>3, WordsStay
<1>7. CASE /\ sug_hist' = Landed(sug_hist, f, f.turn \in slow_asks)
           /\ UNCHANGED <<held_findings, jobs>>
  <2>1. sug_hist \in Seq(Entry) /\ Numbered(sug_hist, next_sid) /\ next_sid \in Nat
    BY CarriedAbroad DEF Words
  <2>2. f.turn \in 1 .. next_sid - 1 /\ vend_id # f.turn
    BY <1>5
  <2>3. /\ sug_hist' \in Seq(Entry) /\ Numbered(sug_hist', next_sid)
        /\ \A carried, vid, of :
             /\ TrueStack(sug_hist, carried, vid, of) /\ <<f.turn, f.of>> \in carried
             /\ vid # f.turn
             => TrueStack(sug_hist', {c \in carried : c[1] # f.turn}, vid, of)
    BY <1>2, <1>7, <2>1, <2>2, LandedHolds
  <2>4. <<f.turn, f.of>> \in Carried
    BY <1>1 DEF Carried
  <2>5. Carried' \subseteq {c \in Carried : c[1] # f.turn}
    <3>1. Carried' = ChannelAsks \cup FoundAsks(events') \cup HeldAsks(held_findings)
                       \cup LoneAsks(work) \cup LoneAsks(pending)
      BY <1>3, <1>7 DEF Carried, ChannelAsks, JobAsks, FoundAsks, HeldAsks, LoneAsks, Lone
    <3>2. Carried' \subseteq Carried
      BY <1>1, <3>1 DEF Carried
    <3>3. \A c \in Carried' : c[1] # f.turn
      BY <1>1, <1>5, <3>1, AsksTurns, ChannelAsksTurns DEF Apart
    <3>4. QED
      BY <3>2, <3>3
  <2>6. ASSUME ~crossed'
        PROVE  TrueStack(sug_hist', Carried', vend_id', vending')
    <3>1. TrueStack(sug_hist, Carried, vend_id, vending)
      BY <1>3, <2>6 DEF Words
    <3>2. TrueStack(sug_hist', {c \in Carried : c[1] # f.turn}, vend_id, vending)
      BY <2>2, <2>3, <2>4, <3>1
    <3>3. QED
      BY <1>3, <2>5, <3>2, TrueStill
  <2>7. QED
    BY <1>3, <2>3, <2>6 DEF Words
<1>8. QED
  BY <1>4, <1>6, <1>7

\* One after the other, the findings held.
LEMMA LandKeepsWords ==
  ASSUME IInv, Home, Words, Land
  PROVE  Words'
<1> DEFINE N == Len(held_findings)
           Left(n) == {c \in Carried : c[1] \notin HeldFirst(held_findings, n)}
<1>1. /\ N \in Nat /\ DOMAIN held_findings = 1 .. N
      /\ \A i \in 1 .. N : held_findings[i] \in Report
      /\ HeldOnce(held_findings)
      /\ Apart(ChannelTurns, FoundTurns(events), HeldTurns(held_findings), Lone(work.turn),
               Lone(pending.turn))
      /\ HeldTurns(held_findings) \subseteq slow_asks
      /\ slow_asks \subseteq 1 .. next_sid - 1 /\ vend_id \notin slow_asks
  BY AbroadIs DEF Home
<1>2. /\ UNCHANGED <<vend_id, next_sid, jobs, sending, events, work, pending, slow_after_fast,
                    vending, crossed>>
      /\ held_findings' = <<>>
  BY DEF Land, worker, history, heard, calling
<1>3. PICK g : /\ g[0] = [hist |-> sug_hist, asks |-> slow_asks]
               /\ \A n \in 0 .. N - 1 : g[n + 1] = Landing(g[n], held_findings[n + 1])
               /\ sug_hist' = g[N].hist
  BY <1>1, LandLoops
<1>4. sug_hist \in Seq(Entry) /\ Numbered(sug_hist, next_sid) /\ next_sid \in Nat
  BY CarriedAbroad DEF Words
<1> HIDE DEF N
<1> DEFINE Right(n) == /\ g[n].hist \in Seq(Entry) /\ Numbered(g[n].hist, next_sid)
                       /\ ~crossed => TrueStack(g[n].hist, Left(n), vend_id, vending)
           B == {n \in 0 .. N : ~Right(n)}
<1>5. B \subseteq 0 .. N
  OBVIOUS
<1>6. 0 \notin B
  <2>1. g[0].hist = sug_hist
    BY <1>3
  <2>2. ~crossed => TrueStack(sug_hist, Left(0), vend_id, vending)
    <3>1. Left(0) \subseteq Carried
      OBVIOUS
    <3> HIDE DEF Left
    <3>2. QED
      BY <3>1, TrueStill DEF Words
  <2>3. QED
    BY <1>4, <2>1, <2>2
<1>7. ASSUME NEW n \in 0 .. N - 1, n \notin B
      PROVE  n + 1 \notin B
  <2> DEFINE f == held_findings[n + 1]
             hist == g[n].hist
             known == f.turn \in g[n].asks
  <2>1. n \in 0 .. N /\ n + 1 \in 1 .. N /\ n \in Nat
    BY <1>1
  <2>2. Right(n)
    BY <1>7, <2>1
  <2>3. f \in Report /\ f.turn \in HeldTurns(held_findings) /\ <<f.turn, f.of>> \in Carried
    BY <1>1, <2>1 DEF HeldTurns, HeldAsks, Carried
  <2>4. f.turn \notin HeldFirst(held_findings, n)
    <3>1. ASSUME NEW i \in 1 .. n, held_findings[i].turn = f.turn
          PROVE  FALSE
      <4>1. i \in 1 .. N /\ i # n + 1
        BY <1>1, <2>1
      <4>2. QED
        BY <1>1, <2>1, <3>1, <4>1 DEF HeldOnce
    <3>2. QED
      BY <3>1 DEF HeldFirst
  <2>5. g[n + 1].hist = Landed(hist, f, known)
    <3>1. g[n + 1] = Landing(g[n], f)
      BY <1>3
    <3>2. Landing(g[n], f).hist = Landed(hist, f, known)
      BY DEF Landing
    <3>3. QED
      BY <3>1, <3>2
  <2>6. Left(n + 1) = {c \in Left(n) : c[1] # f.turn}
    <3>1. 1 .. n + 1 = (1 .. n) \cup {n + 1}
      BY <2>1
    <3>2. HeldFirst(held_findings, n + 1) = HeldFirst(held_findings, n) \cup {f.turn}
      BY <3>1 DEF HeldFirst
    <3>3. QED
      BY <3>2
  <2>7. <<f.turn, f.of>> \in Left(n)
    BY <2>3, <2>4
  <2>8. f.turn \in 1 .. next_sid - 1 /\ vend_id # f.turn
    BY <1>1, <2>3
  <2> HIDE DEF f, hist, known, Left
  <2>9. hist \in Seq(Entry) /\ Numbered(hist, next_sid)
    BY <2>2 DEF hist
  <2>10. /\ Landed(hist, f, known) \in Seq(Entry) /\ Numbered(Landed(hist, f, known), next_sid)
         /\ TrueStack(hist, Left(n), vend_id, vending)
            => TrueStack(Landed(hist, f, known), {c \in Left(n) : c[1] # f.turn}, vend_id, vending)
    BY <1>4, <2>3, <2>7, <2>8, <2>9, LandedHolds
  <2>11. ~crossed => TrueStack(g[n + 1].hist, Left(n + 1), vend_id, vending)
    BY <2>2, <2>5, <2>6, <2>10 DEF hist
  <2>12. g[n + 1].hist \in Seq(Entry) /\ Numbered(g[n + 1].hist, next_sid)
    BY <2>5, <2>10
  <2>13. QED
    BY <2>11, <2>12
<1>8. B = {}
  BY <1>1, <1>5, <1>6, <1>7, Induct
<1>9. Right(N)
  <2>1. N \in 0 .. N
    BY <1>1
  <2> HIDE DEF Right
  <2>2. \A n \in 0 .. N : Right(n)
    BY <1>8
  <2>3. QED
    BY <2>1, <2>2
<1>10. Carried' \subseteq Left(N)
  <2>1. HeldFirst(held_findings, N) = HeldTurns(held_findings)
    BY <1>1 DEF HeldFirst, HeldTurns
  <2>2. HeldAsks(held_findings') = {}
    BY <1>2 DEF HeldAsks
  <2>3. Carried' = ChannelAsks \cup FoundAsks(events) \cup HeldAsks(held_findings')
                     \cup LoneAsks(work) \cup LoneAsks(pending)
    BY <1>2 DEF Carried, ChannelAsks, JobAsks, FoundAsks, HeldAsks, LoneAsks, Lone
  <2>4. Carried' \subseteq Carried
    BY <2>2, <2>3 DEF Carried
  <2>5. \A c \in Carried' : c[1] \notin HeldTurns(held_findings)
    BY <1>1, <2>2, <2>3, AsksTurns, ChannelAsksTurns DEF Apart
  <2>6. QED
    BY <2>1, <2>4, <2>5
<1> HIDE DEF Left
<1>11. ~crossed' => TrueStack(sug_hist', Carried', vend_id', vending')
  BY <1>2, <1>3, <1>9, <1>10, TrueStill
<1>12. QED
  BY <1>2, <1>3, <1>9, <1>11 DEF Words

LEMMA WorkerKeepsWords ==
  ASSUME IInv, Home, Words, Worker
  PROVE  Words'
<1>1. UNCHANGED <<sug_hist, next_sid, vend_id, vending, crossed, slow_after_fast>>
  BY DEF Worker, Take, StreamCommand, StreamPartial, AskEnds, Pick, ResearchEnds, session, slowLane,
     stack, history, heard
<1>2. Carried' \subseteq Carried
  BY WorkerCarries
<1>3. ~crossed' => TrueStack(sug_hist', Carried', vend_id', vending')
  BY <1>1, <1>2, TrueStill DEF Words
<1>4. QED
  BY <1>1, <1>3 DEF Words

LEMMA SendKeepsWords ==
  ASSUME IInv, Home, Words, Send
  PROVE  Words'
<1>1. UNCHANGED <<sug_hist, next_sid, vend_id, vending, crossed, slow_after_fast, events,
                  held_findings, work, pending>>
  BY DEF Send, session, slowLane, stack, history, heard, worker
<1>2. Carried' \subseteq Carried
  BY <1>1, Sending, UserCarries DEF Carried, Unturned, Home
<1>3. ~crossed' => TrueStack(sug_hist', Carried', vend_id', vending')
  BY <1>1, <1>2, TrueStill DEF Words
<1>4. QED
  BY <1>1, <1>3 DEF Words

LEMMA WordsStart == Init => Words
<1> SUFFICES ASSUME Init PROVE Words
  OBVIOUS
<1>1. <<>> \in Seq(Entry) /\ DOMAIN <<>> = {}
  OBVIOUS
<1>2. QED
  BY <1>1 DEF Init, Words, Numbered, TrueStack

LEMMA WordsPreserved == IInv /\ Home /\ Words /\ [Next]_vars => Words'
<1> SUFFICES ASSUME IInv, Home, Words, [Next]_vars PROVE Words'
  OBVIOUS
<1>1. CASE UNCHANGED vars
  <2>1. /\ UNCHANGED <<sug_hist, next_sid, vend_id, vending, crossed, slow_after_fast>>
        /\ UNCHANGED <<events, held_findings, work, pending, jobs, sending>>
    BY <1>1 DEF vars, session, slowLane, stack, worker, history, heard, calling
  <2>2. Carried' = Carried
    BY <2>1, ChannelStill, UserCarries DEF Carried
  <2>3. QED
    BY <2>1, <2>2 DEF Words
<1>2. CASE Handler
  BY <1>2, CommandKeepsWords, QuietKeepsWords, AnswerKeepsWords, FindingKeepsWords, LandKeepsWords
     DEF Handler
<1>3. CASE Worker
  BY <1>3, WorkerKeepsWords
<1>4. QED
  BY <1>1, <1>2, <1>3, UserKeepsWords, SlowKeepsWords, EndKeepsWords, SendKeepsWords DEF Next, User

LEMMA Wording == Spec => []Words
BY Inductive, Homing, WordsStart, WordsPreserved, PTL DEF Spec

\* The words and the alternative of a slot are of the turns that vended its
\* command, through merges, evictions, findings that wait and findings that land
\* late, as long as the session has only heard the act that vends.
THEOREM WordsAreTheirs == Spec => []WordsOfTheirTurn
<1>1. Words => WordsOfTheirTurn
  BY DEF Words, WordsOfTheirTurn, TrueStack, TrueSlot
<1>2. QED
  BY <1>1, Wording, PTL

-----------------------------------------------------------------------------
(* Reading the stack *)

\* Two stacks that offer the same: one may have words the other has not.
Same(h, k) ==
  /\ Len(h) = Len(k)
  /\ \A i \in 1 .. Len(h) : h[i].cmd = k[i].cmd /\ h[i].alt = k[i].alt

Still(hist, new) ==
  \/ new = <<>>
  \/ Offers(new) = Offers(hist)
  \/ Offers(Tail(new)) = Offers(SubSeq(hist, 1, Len(new) - 1))

LEMMA SameOffers ==
  ASSUME NEW h \in Seq(Entry), NEW k \in Seq(Entry), Same(h, k)
  PROVE  Offers(h) = Offers(k)
<1>1. DOMAIN h = 1 .. Len(h) /\ DOMAIN k = 1 .. Len(h)
  BY DEF Same
<1>2. QED
  BY <1>1 DEF Same, Offers

\* A push covers what there was, or renames the newest.
LEMMA PushStill ==
  ASSUME NEW hist \in Seq(Entry), NEW filled \in Seq(Entry), Same(filled, hist), NEW slot \in Entry
  PROVE  Still(hist, Push(filled, slot))
<1> DEFINE new == Push(filled, slot)
<1>1. /\ Len(hist) \in Nat /\ Len(filled) = Len(hist)
      /\ DOMAIN hist = 1 .. Len(hist) /\ DOMAIN filled = 1 .. Len(hist)
      /\ \A i \in 1 .. Len(hist) : filled[i].cmd = hist[i].cmd /\ filled[i].alt = hist[i].alt
  BY DEF Same
<1>2. new \in Seq(Entry)
  BY PushShape
<1> HIDE DEF new
<1>3. CASE /\ DOMAIN new = DOMAIN filled
           /\ new[1].cmd = filled[1].cmd /\ new[1].alt = filled[1].alt
           /\ \A i \in DOMAIN filled : i # 1 => new[i] = filled[i]
  <2>1. Len(new) = Len(hist)
    BY <1>1, <1>2, <1>3
  <2>2. \A i \in 1 .. Len(hist) : new[i].cmd = hist[i].cmd /\ new[i].alt = hist[i].alt
    BY <1>1, <1>3
  <2>3. QED
    BY <1>2, <2>1, <2>2, SameOffers DEF Same, Still, new
<1>4. ASSUME NEW n \in 1 .. Len(hist) + 1, Len(new) = n,
             \A i \in 2 .. n : i - 1 \in DOMAIN filled /\ new[i] = filled[i - 1]
      PROVE  Still(hist, new)
  <2> DEFINE below == SubSeq(hist, 1, n - 1)
             rest  == Tail(new)
  <2>1. n \in Nat /\ n - 1 \in 0 .. Len(hist) /\ n >= 1
    BY <1>1
  <2>2. /\ below \in Seq(Entry) /\ Len(below) = n - 1
        /\ \A i \in 1 .. n - 1 : below[i] = hist[i]
    BY <1>1, <2>1
  <2>3. /\ rest \in Seq(Entry) /\ Len(rest) = n - 1
        /\ \A i \in 1 .. n - 1 : rest[i] = new[i + 1]
    BY <1>2, <1>4, <2>1
  <2>4. \A i \in 1 .. n - 1 : i + 1 \in 2 .. n /\ (i + 1) - 1 = i /\ i \in 1 .. Len(hist)
    BY <1>1, <2>1
  <2> HIDE DEF below, rest
  <2>5. \A i \in 1 .. n - 1 : rest[i].cmd = below[i].cmd /\ rest[i].alt = below[i].alt
    BY <1>1, <1>4, <2>2, <2>3, <2>4
  <2>6. Offers(rest) = Offers(below)
    BY <2>2, <2>3, <2>5, SameOffers DEF Same
  <2>7. QED
    BY <1>4, <2>6 DEF Still, below, rest
<1>5. \/ /\ DOMAIN new = DOMAIN filled
         /\ new[1].cmd = filled[1].cmd /\ new[1].alt = filled[1].alt
         /\ \A i \in DOMAIN filled : i # 1 => new[i] = filled[i]
      \/ \E n \in 1 .. Len(hist) + 1 :
           /\ Len(new) = n
           /\ \A i \in 2 .. n : i - 1 \in DOMAIN filled /\ new[i] = filled[i - 1]
  <2>1. \/ /\ DOMAIN new = DOMAIN filled
           /\ new[1].cmd = filled[1].cmd /\ new[1].alt = filled[1].alt
           /\ \A i \in DOMAIN filled : i # 1 => new[i] = filled[i]
        \/ \E n \in 1 .. Len(filled) + 1 :
             /\ Len(new) = n
             /\ \A i \in 2 .. n : i - 1 \in DOMAIN filled /\ new[i] = filled[i - 1]
    BY PushShape, Zenon DEF new
  <2>2. Len(filled) = Len(hist)
    BY <1>1
  <2>3. QED
    BY <2>1, <2>2, Zenon
<1>6. QED
  BY <1>3, <1>4, <1>5 DEF new

LEMMA LineageStep ==
  ASSUME IInv, Home, Words, [Next]_vars, AtTheStack, AtTheStack'
  PROVE  Still(sug_hist, sug_hist')
<1>1. CASE UNCHANGED sug_hist
  BY <1>1 DEF Still
<1>2. /\ sug_hist \in Seq(Entry) /\ next_sid \in Turns /\ running \in 0 .. MaxActs
      /\ Same(sug_hist, sug_hist)
  BY BoundsAssumption DEF Words, Home, IInv, Order, Same
<1>3. \A cmd \in MaybeCmd, of, text \in 0 .. MaxActs : Vended(next_sid, cmd, of, text) \in Entry
  BY <1>2, BoundsAssumption DEF Vended, Entry, NoAlt, MaybeCmd
<1>4. CASE CmdEnd
  <2>1. CASE UNCHANGED stack
    BY <1>1, <2>1 DEF stack
  <2>2. CASE \E cmd \in Cmds : sug_hist' = Push(sug_hist, Vended(next_sid, cmd, running, running))
    <3>1. PICK cmd \in Cmds : sug_hist' = Push(sug_hist, Vended(next_sid, cmd, running, running))
      BY <2>2
    <3>2. Vended(next_sid, cmd, running, running) \in Entry
      BY <1>2, <1>3 DEF MaybeCmd
    <3>3. QED
      BY <1>2, <3>1, <3>2, PushStill
  <2>3. QED
    BY <1>4, <2>1, <2>2 DEF CmdEnd
<1>5. CASE HandleCommand
  <2> DEFINE e == Head(events)
  <2>1. e.of \in 0 .. MaxActs /\ e.cmd \in MaybeCmd /\ 0 \in 0 .. MaxActs
    BY <1>5, EventGoes, BoundsAssumption DEF HandleCommand, Event
  <2>2. sug_hist' = Push(sug_hist, Vended(next_sid, e.cmd, e.of, 0))
    BY <1>5 DEF HandleCommand
  <2> HIDE DEF e
  <2>3. Vended(next_sid, e.cmd, e.of, 0) \in Entry
    BY <1>3, <2>1
  <2>4. QED
    BY <1>2, <2>2, <2>3, PushStill
<1>6. CASE HandleAnswer
  <2> DEFINE e == Head(events)
             filled == [i \in DOMAIN sug_hist |->
                          IF e.cmd = NoCmd /\ sug_hist[i].id = vend_id
                          THEN [sug_hist[i] EXCEPT !.text = e.of] ELSE sug_hist[i]]
  <2>1. e.of \in 0 .. MaxActs /\ e.cmd \in MaybeCmd
    BY <1>6, EventGoes DEF HandleAnswer, Event
  <2>2. \/ sug_hist' = filled
        \/ sug_hist' = Push(filled, Vended(next_sid, e.cmd, e.of, e.of))
    BY <1>6 DEF HandleAnswer
  <2> HIDE DEF e
  <2>3. /\ DOMAIN sug_hist = 1 .. Len(sug_hist) /\ Len(sug_hist) \in Nat
        /\ \A i \in DOMAIN sug_hist : sug_hist[i] \in Entry
    BY <1>2
  <2>4. ASSUME NEW i \in DOMAIN sug_hist
        PROVE  /\ filled[i] \in Entry /\ filled[i].cmd = sug_hist[i].cmd
               /\ filled[i].alt = sug_hist[i].alt
    <3>1. sug_hist[i] \in Entry
      BY <2>3
    <3>2. QED
      BY <2>1, <3>1 DEF Entry
  <2>5. DOMAIN filled = DOMAIN sug_hist /\ filled = [i \in DOMAIN sug_hist |-> filled[i]]
    OBVIOUS
  <2> HIDE DEF filled
  <2>6. filled \in Seq(Entry) /\ Len(filled) = Len(sug_hist)
    BY <2>3, <2>4, <2>5
  <2>7. Same(filled, sug_hist)
    BY <2>3, <2>4, <2>6 DEF Same
  <2>8. Vended(next_sid, e.cmd, e.of, e.of) \in Entry
    BY <1>3, <2>1
  <2>9. CASE sug_hist' = filled
    BY <1>2, <2>6, <2>7, <2>9, SameOffers DEF Still
  <2>10. CASE sug_hist' = Push(filled, Vended(next_sid, e.cmd, e.of, e.of))
    BY <1>2, <2>6, <2>7, <2>8, <2>10, PushStill
  <2>11. QED
    BY <2>2, <2>9, <2>10
<1>7. CASE HandlePartial \/ HandleError \/ HandleResearching \/ HandleFinding \/ Land
  <2>1. CASE HandlePartial \/ HandleError \/ HandleResearching
    BY <1>1, <2>1 DEF HandlePartial, HandleError, HandleResearching, stack
  <2>2. Reading
    BY DEF Reading, AtTheStack
  <2>3. CASE HandleFinding
    BY <1>1, <2>2, <2>3 DEF HandleFinding
  <2>4. CASE Land
    BY <2>2, <2>4 DEF Land
  <2>5. QED
    BY <1>7, <2>1, <2>3, <2>4
<1>8. CASE Send \/ Worker \/ UNCHANGED vars
  <2>1. UNCHANGED sug_hist
    BY <1>8 DEF Send, Worker, Take, StreamCommand, StreamPartial, AskEnds, Pick, ResearchEnds, vars,
       session, stack
  <2>2. QED
    BY <1>1, <2>1
<1>9. CASE Browse \/ CmdStart \/ ChatAsk \/ ChatSlow \/ ChatAt
  BY <1>1, <1>9 DEF Browse, CmdStart, ChatAsk, ChatSlow, ChatAt, session, stack
<1>10. CASE Hash \/ HashSlow \/ HashCancel \/ HashHash \/ HashAt
  BY <1>1, <1>10 DEF Hash, HashSlow, HashCancel, HashHash, HashAt, stack
<1>11. CASE HashSlash \/ ChatSlash
  <2>1. sug_hist' = <<>> \/ UNCHANGED sug_hist
    BY <1>11 DEF HashSlash, ChatSlash, SlashCommand
  <2>2. QED
    BY <1>1, <2>1 DEF Still
<1>12. QED
  BY <1>4, <1>5, <1>6, <1>7, <1>8, <1>9, <1>10, <1>11 DEF Next, User, Handler

\* While the user is walking the stack, at the prompt or in a chat, nothing in it
\* changes place, command or alternative under them: entries only come in front,
\* and a finding waits; unless they clear it themselves, by a line typed ahead.
THEOREM ReadersUndisturbed == Spec => LineageStill
<1>1. IInv /\ Home /\ Words /\ [Next]_vars =>
        [(AtTheStack /\ AtTheStack') =>
           \/ sug_hist' = <<>>
           \/ Offers(sug_hist') = Offers(sug_hist)
           \/ Offers(Tail(sug_hist')) = Offers(SubSeq(sug_hist, 1, Len(sug_hist') - 1))]_vars
  BY LineageStep DEF Still
<1>2. QED
  BY <1>1, Inductive, Homing, Wording, PTL DEF Spec, LineageStill

=============================================================================
