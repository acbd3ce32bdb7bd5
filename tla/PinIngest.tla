----------------------------- MODULE PinIngest -----------------------------
(***************************************************************************)
(* Pinned files and their ingest: the working context                      *)
(* (src/src/context.rs), the cache of ingest results on disk               *)
(* (src/src/pincache.rs), the verbs that change the pin set                *)
(* (src/src/session.rs) and the worker's digest queue (src/src/engine.rs). *)
(*                                                                         *)
(* A digest or a card takes a model call; meanwhile the user pins, drops,  *)
(* cancels and edits, and the result is applied to whatever pin has the    *)
(* id it was asked for by then.  A text is what it was cooked from and its *)
(* length.  Contents stand for everything an ingest reads, and have        *)
(* different cache keys.  The changed-on-disk marker is left out.          *)
(***************************************************************************)
EXTENDS Naturals, Sequences, SequencesExt

CONSTANTS
  Paths, Contents, None,
  Chars(_),           \* length of a content, at most READ_CAP
  Lengths,            \* lengths a model's text may have
  FilesMaxChars,      \* budgets.files_max_chars
  DigestAttempts, CardAttempts, CacheKeep,
  MaxPins, MaxEdits, MaxVerbs, MaxSessions     \* bounds on one behaviour

ASSUME BudgetsAssumption == {FilesMaxChars, DigestAttempts, CardAttempts, CacheKeep} \subseteq Nat
ASSUME BoundsAssumption == {MaxPins, MaxEdits, MaxVerbs} \subseteq Nat /\ MaxSessions \in Nat \ {0}
Kinds == {"digest", "card"}
Text  == [of : Contents, len : Lengths]
MaybeText == Text \cup {None}
Pin   == [id : 1 .. MaxPins, path : Paths, raw : Contents, text : [Kinds -> MaybeText],
          cooking : [Kinds -> BOOLEAN], attempts : [Kinds -> Nat]]
Job   == [id : 1 .. MaxPins, path : Paths, of : Contents, kind : Kinds]
Cancel == [kind |-> "cancel"]
Entry == [key : Contents, text : [Kinds -> MaybeText]]
Result == [job : Job, text : MaybeText]

ASSUME NoneAssumption == None \notin Contents \cup Job

VARIABLES
  file,      \* what each path reads as; None is gone
  cache,     \* ~/.goulash/pins, oldest-touched first
  pins, next_id,
  jobs,      \* the channel to the worker
  queue,     \* digest_queue
  hand,      \* the job being cooked
  events,    \* Event::Digest, on their way back
  raced,     \* history: some path was pinned again with its ingest under way
  edits, verbs, sessions

worker == <<jobs, queue, hand, events>>
bounds == <<edits, verbs, sessions>>
vars   == <<file, cache, pins, next_id, worker, raced, bounds>>

TypeOK ==
  /\ file \in [Paths -> Contents \cup {None}]
  /\ cache \in Seq(Entry) /\ Len(cache) <= CacheKeep
  /\ pins \in Seq(Pin) /\ next_id \in 1 .. MaxPins + 1
  /\ jobs \in Seq(Job \cup {Cancel}) /\ queue \in Seq(Job) /\ hand \in Job \cup {None}
  /\ events \in Seq(Result) /\ raced \in BOOLEAN
  /\ edits \in 0 .. MaxEdits /\ verbs \in 0 .. MaxVerbs /\ sessions \in 1 .. MaxSessions
  \* one pin to a path, one to an id, and one file to a key
  /\ \A i, j \in DOMAIN pins : pins[i].path = pins[j].path \/ pins[i].id = pins[j].id => i = j
  /\ \A i, j \in DOMAIN cache : cache[i].key = cache[j].key => i = j

Init ==
  /\ file \in [Paths -> Contents]
  /\ cache = <<>> /\ pins = <<>> /\ next_id = 1
  /\ jobs = <<>> /\ queue = <<>> /\ hand = None /\ events = <<>> /\ raced = FALSE
  /\ edits = 0 /\ verbs = 0 /\ sessions = 1

-----------------------------------------------------------------------------
(* The cache *)

Uncooked == [kind \in Kinds |-> None]

Cached(key) ==
  LET hits == {i \in DOMAIN cache : cache[i].key = key}
  IN  IF hits = {} THEN Uncooked ELSE cache[CHOOSE i \in hits : TRUE].text

\* evict: the newest CacheKeep of them.
Evicted(entries) ==
  SubSeq(entries, IF Len(entries) > CacheKeep THEN Len(entries) - CacheKeep + 1 ELSE 1,
         Len(entries))

\* store: merged into the entry under the key, which is touched.
Stored(key, kind, text) ==
  LET at == {i \in DOMAIN cache : cache[i].key = key}
  IN  Evicted(Append(IF at = {} THEN cache ELSE RemoveAt(cache, CHOOSE i \in at : TRUE),
                     [key |-> key, text |-> [Cached(key) EXCEPT ![kind] = text]]))

-----------------------------------------------------------------------------
(* The working context *)

Share(ps) == IF ps = <<>> THEN FilesMaxChars ELSE FilesMaxChars \div Len(ps)

Budget(kind) == IF kind = "digest" THEN DigestAttempts ELSE CardAttempts

\* digest_wanted and card_wanted, pin by pin.
Wants(ps, p, kind) ==
  /\ ~p.cooking[kind] /\ p.attempts[kind] < Budget(kind)
  /\ IF kind = "card" THEN p.text[kind] = None
     ELSE Chars(p.raw) > Share(ps) /\ (p.text[kind] = None \/ p.text[kind].len > Share(ps))

JobFor(p, kind) == [id |-> p.id, path |-> p.path, of |-> p.raw, kind |-> kind]

Asked(ps, kind) ==
  LET upto[n \in 0 .. Len(ps)] ==
        IF n = 0 THEN <<>>
        ELSE upto[n - 1] \o (IF Wants(ps, ps[n], kind) THEN <<JobFor(ps[n], kind)>> ELSE <<>>)
  IN  upto[Len(ps)]

\* kick_digests, with a model bound: every pin that wants a text is marked and
\* its job sent.
Kick(ps) ==
  /\ pins' = [i \in DOMAIN ps |->
                LET wants == [kind \in Kinds |-> Wants(ps, ps[i], kind)]
                IN  [ps[i] EXCEPT !.cooking  = [kind \in Kinds |-> @[kind] \/ wants[kind]],
                                  !.attempts = [kind \in Kinds |->
                                                  @[kind] + (IF wants[kind] THEN 1 ELSE 0)]]]
  /\ jobs' = jobs \o Asked(ps, "digest") \o Asked(ps, "card")

\* Mutant: ids are the pins' places.
NextIdReused(ps) == Len(ps) + 1

NextId(ps) == next_id

Fresh(id, path) ==
  [id |-> id, path |-> path, raw |-> file[path], text |-> Cached(file[path]),
   cooking |-> [kind \in Kinds |-> FALSE], attempts |-> [kind \in Kinds |-> 0]]

At(ps, path) == {i \in DOMAIN ps : ps[i].path = path}

\* Mutant: a re-pin keeps the texts of the pin it replaces.
PinnedKeepsTexts(ps, path) ==
  IF At(ps, path) = {} THEN Append(ps, Fresh(NextId(ps), path))
  ELSE LET i == CHOOSE i \in At(ps, path) : TRUE
       IN  Append(RemoveAt(ps, i), [Fresh(ps[i].id, path) EXCEPT !.text = ps[i].text])

\* WorkContext::pin: a pin on the same path is replaced and gives its id.
Pinned(ps, path) ==
  IF At(ps, path) = {} THEN Append(ps, Fresh(NextId(ps), path))
  ELSE LET i == CHOOSE i \in At(ps, path) : TRUE
       IN  Append(RemoveAt(ps, i), Fresh(ps[i].id, path))

\* cancel_cooking
Cancelled(ps) ==
  [i \in DOMAIN ps |->
     IF \E kind \in Kinds : ps[i].cooking[kind]
     THEN [ps[i] EXCEPT !.cooking  = [kind \in Kinds |-> FALSE],
                        !.attempts = [kind \in Kinds |-> Budget(kind)]]
     ELSE ps[i]]

-----------------------------------------------------------------------------
(* The verbs *)

Verb == verbs < MaxVerbs /\ verbs' = verbs + 1 /\ UNCHANGED <<edits, sessions>>

InFlight == (ToSet(jobs) \ {Cancel}) \cup ToSet(queue) \cup ({hand} \ {None})
            \cup {r.job : r \in ToSet(events)}

On(ps, path) == {ps[i].id : i \in At(ps, path)}

\* A path that cannot be read leaves the pins alone, and they are kicked.
PinAll(ps, path) ==
  \/ /\ file[path] = None
     /\ Kick(ps) /\ UNCHANGED <<next_id, raced>>
  \/ /\ file[path] # None
     /\ On(ps, path) # {} \/ next_id <= MaxPins
     /\ Kick(Pinned(ps, path))
     /\ next_id' = IF On(ps, path) = {} THEN next_id + 1 ELSE next_id
     /\ raced' = (raced \/ \E j \in InFlight : j.id \in On(ps, path))

\* `#@/path p`, `#@ p`, or PIN in an answer; PINCLEAR comes first, and does
\* not cancel what is cooking.
PinPath(path, pinclear) ==
  /\ Verb
  /\ PinAll(IF pinclear THEN <<>> ELSE pins, path)
  /\ UNCHANGED <<file, cache, queue, hand, events>>

\* `#@/drop id`, and the pin browser.
Drop(i) ==
  /\ Verb /\ i \in DOMAIN pins
  /\ Kick(RemoveAt(pins, i))
  /\ UNCHANGED <<file, cache, next_id, queue, hand, events, raced>>

\* `#@/unset`
Clear ==
  /\ Verb
  /\ jobs' = Append(jobs, Cancel) /\ pins' = <<>>
  /\ UNCHANGED <<file, cache, next_id, queue, hand, events, raced>>

\* `#@/cancel`
CancelCooks ==
  /\ Verb
  /\ jobs' = Append(jobs, Cancel) /\ pins' = Cancelled(pins)
  /\ UNCHANGED <<file, cache, next_id, queue, hand, events, raced>>

\* Mutant: an empty result returns before the meter is put away.
AppliedEarlyOut(p, r) == IF r.text = None THEN p
                         ELSE [p EXCEPT !.cooking[r.job.kind] = FALSE, !.text[r.job.kind] = r.text]

\* set_digest and set_card, on the pin with the result's id.
Applied(p, r) == [p EXCEPT !.cooking[r.job.kind] = FALSE,
                           !.text[r.job.kind] = IF r.text = None THEN @ ELSE r.text]

\* Event::Digest
Handle ==
  /\ events # <<>> /\ events' = Tail(events)
  /\ LET r == Head(events)
         mine == {i \in DOMAIN pins : pins[i].id = r.job.id}
     IN  /\ pins' = [i \in DOMAIN pins |-> IF i \in mine THEN Applied(pins[i], r) ELSE pins[i]]
         /\ IF r.text # None /\ mine # {}
            THEN \E i \in mine : cache' = Stored(pins[i].raw, r.job.kind, r.text)
            ELSE UNCHANGED cache
  /\ UNCHANGED <<file, next_id, jobs, queue, hand, raced, bounds>>

\* The session ends, however; the next one starts with the cache.
Restart ==
  /\ sessions < MaxSessions /\ sessions' = sessions + 1
  /\ pins' = <<>> /\ next_id' = 1
  /\ jobs' = <<>> /\ queue' = <<>> /\ hand' = None /\ events' = <<>>
  /\ UNCHANGED <<file, cache, raced, edits, verbs>>

\* The world outside.
Edit(path, content) ==
  /\ edits < MaxEdits /\ edits' = edits + 1 /\ content # file[path]
  /\ file' = [file EXCEPT ![path] = content]
  /\ UNCHANGED <<cache, pins, next_id, worker, raced, verbs, sessions>>

-----------------------------------------------------------------------------
(* The worker *)

Failed(j) == [job |-> j, text |-> None]

\* Job::Digest is queued; Job::CancelDigests reports everything queued.
Drain ==
  /\ jobs # <<>> /\ hand = None /\ jobs' = Tail(jobs)
  /\ \/ /\ Head(jobs) = Cancel
        /\ events' = events \o [i \in DOMAIN queue |-> Failed(queue[i])]
        /\ queue' = <<>>
     \/ /\ Head(jobs) # Cancel
        /\ queue' = Append(queue, Head(jobs)) /\ UNCHANGED events
  /\ UNCHANGED <<file, cache, pins, next_id, hand, raced, bounds>>

\* run_one_digest, when the channel is empty.
Start ==
  /\ jobs = <<>> /\ hand = None /\ queue # <<>>
  /\ hand' = Head(queue) /\ queue' = Tail(queue)
  /\ UNCHANGED <<file, cache, pins, next_id, jobs, events, raced, bounds>>

\* Mutant: a model call that fails returns before the event.
FinishSilent ==
  /\ hand # None /\ hand' = None
  /\ \/ \E text \in [of : {hand.of}, len : Lengths] :
          events' = Append(events, [job |-> hand, text |-> text])
     \/ UNCHANGED events
  /\ UNCHANGED <<file, cache, pins, next_id, jobs, queue, raced, bounds>>

\* A text of any length, or none: an error, nothing said, no model.
Finish ==
  /\ hand # None /\ hand' = None
  /\ \E text \in [of : {hand.of}, len : Lengths] \cup {None} :
       events' = Append(events, [job |-> hand, text |-> text])
  /\ UNCHANGED <<file, cache, pins, next_id, jobs, queue, raced, bounds>>

Work == Drain \/ Start \/ Finish

-----------------------------------------------------------------------------
Next ==
  \/ \E path \in Paths, pinclear \in BOOLEAN : PinPath(path, pinclear)
  \/ \E i \in 1 .. MaxPins : Drop(i)
  \/ Clear \/ CancelCooks \/ Handle \/ Restart
  \/ \E path \in Paths, content \in Contents \cup {None} : Edit(path, content)
  \/ Drain \/ Start \/ Finish

Spec == Init /\ [][Next]_vars

\* The worker thread runs, every model call ends (they have a deadline), and
\* the session handles what its wake pipe announces; nobody need do anything.
FairSpec == Spec /\ WF_vars(Work) /\ WF_vars(Handle)

-----------------------------------------------------------------------------
(* Properties *)

\* The meter in the chrome is never left running with nothing to stop it: a
\* pin marked as cooking has a job on its way there or back, whatever was
\* cancelled, cleared, dropped or pinned again meanwhile.
CookingIsComing ==
  \A i \in DOMAIN pins, kind \in Kinds :
    pins[i].cooking[kind] => \E j \in InFlight : j.id = pins[i].id /\ j.kind = kind

\* A result finds the pin it was asked for, or none: ids outlive a re-pin and
\* are not given again, so a text never lands on another path's pin.
ResultsFindTheirPin ==
  \A i \in DOMAIN pins : \A j \in InFlight : j.id = pins[i].id => j.path = pins[i].path

\* Every text in the cache was cooked from what it is filed under: "keyed on
\* exactly what the ingest consumed, which makes a hit provably identical to a
\* fresh cook".
KeyedOnWhatWasConsumed ==
  \A i \in DOMAIN cache, kind \in Kinds :
    cache[i].text[kind] # None => cache[i].text[kind].of = cache[i].key

\* Until a path is pinned again with its ingest under way, that holds, across
\* edits, cancels, drops, failures and sessions, and every text on a pin was
\* cooked from what the pin holds.
TextsAreOfTheirPin ==
  ~raced => /\ KeyedOnWhatWasConsumed
            /\ \A i \in DOMAIN pins, kind \in Kinds :
                 pins[i].text[kind] # None => pins[i].text[kind].of = pins[i].raw

\* The meter goes out again, whatever was started, failed or cancelled.
MeterGoesOut == []<>(\A i \in DOMAIN pins, kind \in Kinds : ~pins[i].cooking[kind])
=============================================================================
