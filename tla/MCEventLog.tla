----------------------------- MODULE MCEventLog -----------------------------
(***************************************************************************)
(* An instance of EventLog for TLC: two events, the second of a type that  *)
(* is not in the entry assembly.                                           *)
(***************************************************************************)
EXTENDS EventLog

MCEvents == {1, 2}
MCKnown == {1}
=============================================================================
