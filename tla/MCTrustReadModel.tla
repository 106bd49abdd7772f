-------------------------- MODULE MCTrustReadModel --------------------------
(* Instances of TrustReadModel for TLC. *)
EXTENDS TrustReadModel

Says(agentId, type, score, permitted, signed) ==
  [agentId |-> agentId, type |-> type, score |-> score,
   permitted |-> permitted, signed |-> signed]

\* Events that projectEvent and projectAgentEvent tell apart.
SomeFacts ==
  UNION { {Says(a, "decision_made", 2, FALSE, TRUE),
           Says(a, "incident_detected", NoScore, TRUE, FALSE)} : a \in Agent }
=============================================================================
