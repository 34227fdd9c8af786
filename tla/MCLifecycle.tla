---------------------------- MODULE MCLifecycle ----------------------------
(* Small instances of Lifecycle.                                           *)
EXTENDS Lifecycle

PlanOne == <<"agent">>
PlanTwo == <<"llama", "agent">>
NoRequires == [u \in {"agent"} |-> {}]
AgentRequiresLlama == [u \in {"llama", "agent"} |-> IF u = "agent" THEN {"llama"} ELSE {}]
Always == [u \in {"agent"} |-> "always"]
NoAndAlways == [u \in {"llama", "agent"} |-> IF u = "agent" THEN "always" ELSE "no"]
=============================================================================
