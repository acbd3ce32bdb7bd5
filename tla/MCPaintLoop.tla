---------------------------- MODULE MCPaintLoop ----------------------------
(* Small instances of PaintLoop for TLC. *)
EXTENDS PaintLoop

CONSTANTS small, large   \* terminal sizes

Sizes == {small, large}

Calm == [keys |-> 1, winches |-> 2, engine |-> TRUE, noOpWinch |-> FALSE, wrapGuard |-> FALSE,
         idleRepaint |-> TRUE, handoffs |-> FALSE, typeAhead |-> FALSE]

\* A terminal dragged there and back; no engine, signals that change nothing
\* and a guarded column; or an impatient user.
ThreeManners ==
  {Calm,
   [Calm EXCEPT !.keys = 3, !.winches = 1, !.engine = FALSE, !.noOpWinch = TRUE, !.wrapGuard = TRUE],
   [Calm EXCEPT !.keys = 3, !.winches = 1, !.handoffs = TRUE, !.typeAhead = TRUE]}
=============================================================================
