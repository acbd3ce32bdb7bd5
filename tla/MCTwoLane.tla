----------------------------- MODULE MCTwoLane -----------------------------
(* A small instance of TwoLane for TLC. *)
EXTENDS TwoLane, TLC

CONSTANTS ls, cp   \* commands a model may suggest

TwoCmds  == {ls, cp}
Symmetry == Permutations(TwoCmds)

Plan(slow, relays, doings) ==
  [opt_slow |-> slow, slow_via_fast |-> relays, acts |-> doings]

\* Any two acts on every rung, and with the relay on the highest; or three: a
\* command typed before the chat opened arms the shot at its end, and then the
\* chat asks.
AnyTwoOrChatAhead ==
  {Plan(rung, FALSE, <<Doings, Doings, {}>>) : rung \in Rungs}
    \cup {Plan("waldorf", TRUE, <<Doings, Doings, {}>>),
          Plan("waldorf", FALSE, <<{"##"}, {"command"}, {"chat"}>>)}
=============================================================================
