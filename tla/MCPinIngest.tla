---------------------------- MODULE MCPinIngest ----------------------------
(* Small instances of PinIngest for TLC. *)
EXTENDS PinIngest

CONSTANTS here, there,   \* paths
          tome, note     \* contents: one never fits, one fits alone, as its digest does

Both      == {here, there}
JustHere  == {here}
TomeAndNote == {tome, note}
TextLengths == {5}
MCChars(content) == IF content = tome THEN 9 ELSE 4
=============================================================================
