------------------------------ MODULE ProofLog ------------------------------
(***************************************************************************)
(* What the proof plane promises of its event log, without emitters,       *)
(* locks, digests or storage: one sequence of contents that only ever      *)
(* grows at its end, in which no event occurs twice, and acknowledgements  *)
(* that are only given for recorded events.                                *)
(***************************************************************************)
EXTENDS Naturals, Sequences

CONSTANT Content   \* records with an eventId field

VARIABLES
  history,       \* the contents recorded so far
  acknowledged   \* eventIds of the emits that returned to their caller

Init == history = <<>> /\ acknowledged = {}

RecordedIds == {history[k].eventId : k \in DOMAIN history}

Record(c) ==
  /\ c.eventId \notin RecordedIds
  /\ history' = Append(history, c)
  /\ UNCHANGED acknowledged

Acknowledge(id) ==
  /\ id \in RecordedIds
  /\ acknowledged' = acknowledged \cup {id}
  /\ UNCHANGED history

Next ==
  \/ \E c \in Content : Record(c)
  \/ \E id \in RecordedIds : Acknowledge(id)

Spec == Init /\ [][Next]_<<history, acknowledged>>
=============================================================================
