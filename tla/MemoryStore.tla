----------------------------- MODULE MemoryStore -----------------------------
(***************************************************************************)
(* The memory store (src/src/memory.rs) as operators on a store value: the *)
(* switch, the limit, the next id and the slots in the order they were     *)
(* written.  A note is a sequence of symbols; the symbol Echo stands for   *)
(* one "[id]" prefix or suffix that a model copied from the rendered block.*)
(* Time stamps, the author and the 240-character clip are left out.        *)
(***************************************************************************)
EXTENDS Naturals, Sequences, SequencesExt, FiniteSetsExt

CONSTANTS Echo,      \* an "[id]" a note was stored or sent with
          LimitCap   \* the most slots set_limit grants (200 in the code)

ASSUME LimitCapAssumption == LimitCap \in Nat \ {0}

\* The members of a sequence that are in a set, in the order they had.
Only(s, S) ==
  LET kept[n \in 0 .. Len(s)] ==
        IF n = 0 THEN <<>>
        ELSE IF s[n] \in S THEN Append(kept[n - 1], s[n]) ELSE kept[n - 1]
  IN  kept[Len(s)]

SlotIds(store) == {store.slots[i].id : i \in DOMAIN store.slots}

\* MemoryStore::default, which load falls back to.
DefaultStore(limit) == [enabled |-> TRUE, limit |-> limit, next |-> 1, slots |-> <<>>]

\* strip_slot_ids: every id at either end goes, however many there are.
StripSlotIds(note) ==
  LET kept == {i \in DOMAIN note : note[i] # Echo}
  IN  IF kept = {} THEN <<>> ELSE SubSeq(note, Min(kept), Max(kept))

SetEnabled(store, on) == [store EXCEPT !.enabled = on]

SetLimit(store, n) == [store EXCEPT !.limit = IF n < 1 THEN 1 ELSE IF n > LimitCap THEN LimitCap ELSE n]

\* add refuses an empty note, one it already holds and one too many.
Accepts(store, note) ==
  /\ StripSlotIds(note) # <<>>
  /\ \A i \in DOMAIN store.slots : store.slots[i].text # StripSlotIds(note)
  /\ Len(store.slots) < store.limit

\* Mutant: the id is the position of the slot.
AddByPosition(store, note) ==
  IF Accepts(store, note)
  THEN [store EXCEPT !.slots = Append(@, [id |-> Len(@) + 1, text |-> StripSlotIds(note)])]
  ELSE store

Add(store, note) ==
  IF Accepts(store, note)
  THEN [store EXCEPT !.slots = Append(@, [id |-> store.next, text |-> StripSlotIds(note)]),
                     !.next = @ + 1]
  ELSE store

Delete(store, id) == [store EXCEPT !.slots = Only(@, {s \in ToSet(@) : s.id # id})]

\* modify trims and clips; it neither strips ids nor looks for a duplicate.
Modify(store, id, note) ==
  [store EXCEPT !.slots = [i \in DOMAIN @ |-> IF @[i].id = id THEN [@[i] EXCEPT !.text = note] ELSE @[i]]]

\* memory_command: the verbs of #/memory that change the store.
Command(verb, id, note) == [verb |-> verb, id |-> id, note |-> note]
Commanded(store, c) ==
  CASE c.verb = "on"     -> SetEnabled(store, TRUE)
    [] c.verb = "off"    -> SetEnabled(store, FALSE)
    [] c.verb = "limit"  -> SetLimit(store, c.id)
    [] c.verb = "add"    -> Add(store, c.note)
    [] c.verb = "delete" -> Delete(store, c.id)
    [] c.verb = "modify" -> Modify(store, c.id, c.note)

\* What one answer of the model does: the FORGETs first, so that a full store
\* has room for the REMEMBERs, and nothing at all while the store is off.
Rewrite(store, forgets, notes) ==
  LET after[n \in 0 .. Len(forgets) + Len(notes)] ==
        IF n = 0 THEN store
        ELSE IF n <= Len(forgets) THEN Delete(after[n - 1], forgets[n])
        ELSE Add(after[n - 1], notes[n - Len(forgets)])
  IN  IF store.enabled THEN after[Len(forgets) + Len(notes)] ELSE store
==============================================================================
