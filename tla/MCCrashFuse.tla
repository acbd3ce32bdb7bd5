---------------------------- MODULE MCCrashFuse ----------------------------
(* Small instances of CrashFuse for TLC. *)
EXTENDS CrashFuse

CONSTANTS one, two,      \* sessions
          big, small     \* models

OneSession  == {one}
TwoSessions == {one, two}
BothModels  == {big, small}
JustBig     == {big}
=============================================================================
