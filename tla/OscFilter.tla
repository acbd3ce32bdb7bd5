----------------------------- MODULE OscFilter -----------------------------
(***************************************************************************)
(* The filter that takes the adapter's marks out of the shell's output     *)
(* (src/src/osc.rs), however the reads of the PTY cut them.                *)
(*                                                                         *)
(* A byte is an atom: Esc; Osc, the marker's other bytes, which come       *)
(* together; Bel, the terminator the adapters print; a tag; and the text,  *)
(* of the body or of the output.  The string terminator, which no adapter  *)
(* prints, and bodies that do not decode are left out.                     *)
(***************************************************************************)
EXTENDS Naturals, Sequences

CONSTANT MaxPending   \* MAX_PENDING, in atoms

ASSUME MaxPendingAssumption == MaxPending \in Nat

Esc == "esc"
Osc == "]7770;"
Bel == "bel"

\* What an adapter prints (__goulash_osc): the tag, then the text.
Printed(tag, text) == <<Esc, Osc, tag>> \o text \o <<Bel>>

\* parse_mark
Parsed(body) == [tag |-> Head(body), text |-> Tail(body)]

\* What is left for the next read: none of it, if it is already too long.
Carried(data) == IF Len(data) <= MaxPending THEN data ELSE <<>>

\* OscFilter::feed, of the carry-over and a chunk: the marks, in order, and
\* the carry-over.
Feed(pending, chunk) ==
  LET feed[data \in Seq(STRING)] ==
        LET ends == {j \in 3 .. Len(data) : data[j] = Bel}
            end  == CHOOSE j \in ends : \A k \in ends : j <= k
            on   == feed[SubSeq(data, end + 1, Len(data))]
        IN  CASE data = <<>> -> [marks |-> <<>>, pending |-> <<>>]
              [] data # <<>> /\ Head(data) # Esc -> feed[Tail(data)]
              [] data = <<Esc>> -> [marks |-> <<>>, pending |-> data]
              [] Len(data) > 1 /\ Head(data) = Esc /\ data[2] # Osc -> feed[Tail(data)]
              [] Len(data) > 1 /\ Head(data) = Esc /\ data[2] = Osc /\ ends # {} ->
                   [on EXCEPT !.marks = <<Parsed(SubSeq(data, 3, end - 1))>> \o @]
              [] OTHER -> [marks |-> <<>>, pending |-> Carried(data)]
  IN  feed[pending \o chunk]
=============================================================================
