----------------------- MODULE MCSubscriptionsManager -----------------------
(* Three event types, two of which share their short name; two names, the  *)
(* second one also used by a dynamic subscription; two handler types.       *)
EXTENDS SubscriptionsManager

CONSTANTS enrolled, enrolledV2, closed, Enrolled, Closed

MCEventTypes == {enrolled, enrolledV2, closed}
MCNames == {Enrolled, Closed}
MCNameOf == [t \in MCEventTypes |-> IF t = closed THEN Closed ELSE Enrolled]
=============================================================================
