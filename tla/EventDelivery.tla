--------------------------- MODULE EventDelivery ---------------------------
(***************************************************************************)
(* Who hears of an event.  notifyListeners (event-emitter.ts) walks the    *)
(* live listener array by position and awaits each listener, while         *)
(* subscribe() and the function it returns (proof-plane.ts) push to and    *)
(* splice the same array.                                                  *)
(***************************************************************************)
EXTENDS EventEmitter

VARIABLES
  audience,    \* audience[i]: subscribed from before event i was stored, and still
  overtaken    \* overtaken[i]: whom the walk of event i left behind

deliveryVars == <<vars, audience, overtaken>>

Subscribed(m) == Range(listeners[m])

DeliveryInit ==
  /\ Init
  /\ audience = [i \in EmitId |-> {}]
  /\ overtaken = [i \in EmitId |-> {}]

Walking(i) == pc[i] \in {"notifying", "listening"}

\* The audience of an event loses the listeners that unsubscribe before its
\* emit() has settled.
AudienceOf(i) ==
  CASE pc[i] = "appending" -> IF pc'[i] = "notifying" THEN Subscribed(by[i]) ELSE {}
    [] Walking(i) -> audience[i] \cap Subscribed(by[i])'
    [] OTHER -> audience[i]

\* The place the walk of call i looks at next.
NextPlace(i) == IF pc[i] = "listening" THEN cursor[i] + 1 ELSE cursor[i]

\* A splice at or before the cursor moves the next listener behind it.
Displaced(i) ==
  LET before == listeners[by[i]]
      after == listeners'[by[i]]
      next == NextPlace(i)
  IN  IF Walking(i) /\ next \in DOMAIN before
         /\ (next \notin DOMAIN after \/ after[next] # before[next])
      THEN {before[next]} ELSE {}

DeliveryNext ==
  /\ Next
  /\ audience' = [i \in EmitId |-> AudienceOf(i)]
  /\ overtaken' = [i \in EmitId |-> overtaken[i] \cup Displaced(i)]

DeliverySpec == DeliveryInit /\ [][DeliveryNext]_deliveryVars

-----------------------------------------------------------------------------
Told(i, l) == i \in Range(delivered[l])

\* A listener that stays subscribed hears of every event stored since it came,
\* at the latest when the event's emit() returns: whoever else subscribes or
\* unsubscribes meanwhile, and unless a splice has moved it behind the walk.
SubscribersAreTold ==
  \A i \in EmitId : pc[i] = "returned" =>
    \A l \in audience[i] \ overtaken[i] : Told(i, l)

=============================================================================
