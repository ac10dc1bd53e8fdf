----------------------------- MODULE MCAzureBus -----------------------------
(***************************************************************************)
(* An instance of AzureBus for TLC: two names of one label, the first with *)
(* the suffix and the second without it, and a type of each.  The message  *)
(* is of the second event and is looked up by the first name.              *)
(***************************************************************************)
EXTENDS AzureBus

CONSTANTS enrolledIntegrationEvent, enrolled, label, Enrolled, Plain, m1

MCNames == {enrolledIntegrationEvent, enrolled}
MCTypes == {Enrolled, Plain}
MCNameOf == [t \in EventTypes |-> IF t = Plain THEN enrolled ELSE enrolledIntegrationEvent]
MCLabelOf == [e \in Names |-> label]
MCNamedBy == [l \in Labels |-> enrolledIntegrationEvent]
MCEventOf == [m \in Msgs |-> enrolled]
=============================================================================
