------------------------------ MODULE WakePipe ------------------------------
(***************************************************************************)
(* How the worker's events reach the session (src/src/engine.rs notify,    *)
(* src/src/session.rs event drain).  The worker sends an event and then    *)
(* writes a byte to a pipe; the session polls the pipe, reads at most      *)
(* Chunk bytes and then drains every event there is.  The two sides only   *)
(* share the channel and the pipe, and they interleave at every step.      *)
(* Prompt, Gen and Debug are sent with no byte of their own: here they are *)
(* sends that follow a send before its Notify.                             *)
(***************************************************************************)
EXTENDS Naturals

CONSTANTS
  MaxEvents,  \* bound on the events of one behaviour
  PipeCap,    \* what the pipe holds before a write blocks
  Chunk       \* the session's read buffer (64 in the code)

ASSUME MaxEventsAssumption == MaxEvents \in Nat
ASSUME PipeAssumption      == PipeCap \in Nat \ {0} /\ Chunk \in Nat \ {0}

VARIABLES
  sent,      \* events put in the channel
  taken,     \* events the session has taken out
  pipe,      \* bytes in the pipe
  wpc,       \* the worker: "quiet", "owing" a byte for its last send, "gone"
  spc,       \* the session: "poll", "read", "drain", or "off", engine = None
  orphaned   \* history: the worker died owing a byte

vars == <<sent, taken, pipe, wpc, spc, orphaned>>

TypeOK ==
  /\ sent \in 0 .. MaxEvents /\ taken \in 0 .. sent
  /\ pipe \in 0 .. PipeCap
  /\ wpc \in {"quiet", "owing", "gone"}
  /\ spc \in {"poll", "read", "drain", "off"}
  /\ orphaned \in BOOLEAN

Init ==
  /\ sent = 0 /\ taken = 0 /\ pipe = 0
  /\ wpc = "quiet" /\ spc = "poll"
  /\ orphaned = FALSE

-----------------------------------------------------------------------------
(* The worker *)

Send ==
  /\ wpc # "gone" /\ sent < MaxEvents
  /\ sent' = sent + 1
  /\ wpc' = "owing"
  /\ UNCHANGED <<taken, pipe, spc, orphaned>>

\* A blocking write; a declined finding or a yielded ask writes one for nothing.
Notify ==
  /\ wpc # "gone" /\ pipe < PipeCap
  /\ pipe' = pipe + 1
  /\ wpc' = "quiet"
  /\ UNCHANGED <<sent, taken, spc, orphaned>>

\* The thread ends, by its own break or by a panic at any point.
WorkerGone ==
  /\ wpc # "gone"
  /\ wpc' = "gone"
  /\ orphaned' = (wpc = "owing")
  /\ UNCHANGED <<sent, taken, pipe, spc>>

-----------------------------------------------------------------------------
(* The session *)

\* Mutant: a hangup is acted on whether or not there is something to read.
PollHupFirst ==
  /\ spc = "poll"
  /\ \/ wpc = "gone" /\ spc' = "off"
     \/ wpc # "gone" /\ pipe > 0 /\ spc' = "read"
  /\ UNCHANGED <<sent, taken, pipe, wpc, orphaned>>

\* Readable wins over hung up; hung up and not readable drops the engine.
Poll ==
  /\ spc = "poll"
  /\ \/ pipe > 0 /\ spc' = "read"
     \/ pipe = 0 /\ wpc = "gone" /\ spc' = "off"
  /\ UNCHANGED <<sent, taken, pipe, wpc, orphaned>>

Read ==
  /\ spc = "read"
  /\ pipe' = IF pipe > Chunk THEN pipe - Chunk ELSE 0
  /\ spc' = "drain"
  /\ UNCHANGED <<sent, taken, wpc, orphaned>>

TryRecv ==
  /\ spc = "drain" /\ taken < sent
  /\ taken' = taken + 1
  /\ UNCHANGED <<sent, pipe, wpc, spc, orphaned>>

\* Mutant: `if let` for `while let`.
DrainedEarly ==
  /\ spc = "drain"
  /\ spc' = "poll"
  /\ UNCHANGED <<sent, taken, pipe, wpc, orphaned>>

Drained ==
  /\ spc = "drain" /\ taken = sent
  /\ spc' = "poll"
  /\ UNCHANGED <<sent, taken, pipe, wpc, orphaned>>

-----------------------------------------------------------------------------
Worker  == Send \/ Notify \/ WorkerGone
Session == Poll \/ Read \/ TryRecv \/ Drained
Next    == Worker \/ Session

Spec == Init /\ [][Next]_vars

\* The session's loop runs, and the worker does reach the write after a send,
\* unless it dies.
FairSpec == Spec /\ WF_vars(Session) /\ WF_vars(Notify \/ WorkerGone)

-----------------------------------------------------------------------------
(* Properties *)

Waiting == taken < sent

\* No lost wakeup: a session that is not draining and has events waiting has
\* a readable pipe, or a worker about to write to it.
NoLostWakeup == spc # "drain" /\ Waiting => pipe > 0 \/ wpc = "owing" \/ orphaned

\* The worker's last words are heard: the session lets go of a dead engine
\* only when nothing it announced is left in the channel.
HangupLosesNothing == spc = "off" => ~Waiting \/ orphaned

\* Every event reaches its handler, whatever the burst and however full the
\* pipe, unless the worker died before announcing it.
EveryEventHandled == \A n \in 1 .. MaxEvents : (sent >= n) ~> (taken >= n \/ orphaned)
=============================================================================
