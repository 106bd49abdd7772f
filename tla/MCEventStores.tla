--------------------------- MODULE MCEventStores ---------------------------
(* Instances of StoreReads for TLC: an agent's event, one of another type  *)
(* and correlation, and a shadow event.                                    *)
EXTENDS StoreReads

Says(correlationId, agentId, eventType, shadowMode) ==
  [correlationId |-> correlationId, agentId |-> agentId, eventType |-> eventType, shadowMode |-> shadowMode]

ThreeKinds ==
  {Says("x", "a", "decision", "production"), Says("y", Absent, "execution", "production"),
   Says("x", "a", "decision", "shadow")}

\* Either direction and every limit; a shadow mode, and single rows, in either
\* direction; a correlation, and every limit, in that of a trace.
Pages == {o \in Options : o.offset = 0 /\ o.order # Absent /\ ~ o.excludeShadow}

Walks ==
  {<<NoFilter, o>> : o \in {p \in Pages : p.shadowModeOnly = Absent}}
  \cup {<<NoFilter, o>> : o \in {p \in Pages : p.shadowModeOnly = {"shadow"} /\ p.limit = 1}}
  \cup {<<[NoFilter EXCEPT !.correlationId = "x"], o>> :
          o \in {p \in Pages : p.shadowModeOnly = Absent /\ p.order = "asc"}}
=============================================================================
