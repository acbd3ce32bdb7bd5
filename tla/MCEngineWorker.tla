-------------------------- MODULE MCEngineWorker --------------------------
(***************************************************************************)
(* Instances of EngineWorker for TLC: what the session may call.           *)
(***************************************************************************)
EXTENDS EngineWorker

\* What fills and empties the backfill.
ResearchKinds == {"Research", "CancelResearch"}

\* They disturb nothing that is queued before them.
Queries == {"ListModels", "ListSlowModels", "DescribeLanes"}

\* Three calls of any kind, a query not the last; or four about research,
\* which is one more than puts a backfill of two at its limit.
AnyThreeOrFourOfResearch ==
  {<<JobKinds, JobKinds, JobKinds \ Queries, {}>>,
   [n \in Calls |-> ResearchKinds]}
=============================================================================
