--------------------------- MODULE EngineContract ---------------------------
(***************************************************************************)
(* What the engine promises the session: every call is closed at most      *)
(* once, in a way that fits what happened to it, and at most one call is   *)
(* being generated for at any time.  EngineWorker implements it.           *)
(***************************************************************************)
EXTENDS Naturals

CONSTANTS
  MaxCalls   \* bound on the calls of one behaviour

VARIABLES
  calls,     \* calls made
  verdict,   \* how each was closed, "none" while it is open
  running    \* the call being generated for, 0 when there is none

vars == <<calls, verdict, running>>

\* What a generation can come to, and what can happen to a call that gets none.
RunVerdicts   == {"answer", "error", "silent", "yielded", "finding", "nothing", "digested", "failed"}
UnrunVerdicts == {"applied", "error", "displaced", "replaced", "cancelled", "nothing", "failed"}

Open(n) == n \in 1 .. calls /\ verdict[n] = "none"

Init ==
  /\ calls = 0 /\ running = 0
  /\ verdict = [n \in 1 .. MaxCalls |-> "none"]

Submit ==
  /\ calls < MaxCalls
  /\ calls' = calls + 1
  /\ UNCHANGED <<verdict, running>>

\* A generation starts for an open call, and only when none is running.
Begin ==
  /\ running = 0
  /\ \E n \in 1 .. calls : Open(n) /\ running' = n
  /\ UNCHANGED <<calls, verdict>>

\* It ends by closing that call and no other.
Finish ==
  /\ running # 0 /\ Open(running)
  /\ \E v \in RunVerdicts : verdict' = [verdict EXCEPT ![running] = v]
  /\ running' = 0
  /\ UNCHANGED calls

\* Between generations, open calls are closed without one.
Dispose ==
  /\ running = 0
  /\ verdict' \in [1 .. MaxCalls -> UnrunVerdicts \cup RunVerdicts \cup {"none"}]
  /\ \A n \in 1 .. MaxCalls :
       verdict'[n] # verdict[n] => Open(n) /\ verdict'[n] \in UnrunVerdicts
  /\ UNCHANGED <<calls, running>>

Next == Submit \/ Begin \/ Finish \/ Dispose

Spec == Init /\ [][Next]_vars
=============================================================================
