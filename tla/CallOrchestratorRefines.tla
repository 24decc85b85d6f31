---------------------- MODULE CallOrchestratorRefines ----------------------
(***************************************************************************)
(* The orchestrator keeps the promise of CallLifecycle: a call is open     *)
(* while it is in activeCalls, over once endCall has run, and held by the  *)
(* device in answeredByDevice while its answered flag is set.              *)
(***************************************************************************)
EXTENDS CallOrchestrator

PhaseOf(c) == IF c \in activeCalls THEN "open"
              ELSE IF ended[c] THEN "over" ELSE "unknown"

HolderOf(c) == IF answered[c] THEN answeredByDevice[c] ELSE NoDevice

Lifecycle == INSTANCE CallLifecycle WITH
                phase   <- [c \in Calls |-> PhaseOf(c)],
                holder  <- [c \in Calls |-> HolderOf(c)],
                winners <- told

\* Every step of the orchestrator is a step of the lifecycle or changes nothing of
\* it: two answers, a failed answer and endCall may interleave at every await of
\* answerCall and the device holding the call is still never in doubt.
ImplementsLifecycle == Lifecycle!Spec
=============================================================================
