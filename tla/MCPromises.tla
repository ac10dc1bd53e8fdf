---------------------------- MODULE MCPromises ----------------------------
(***************************************************************************)
(* An instance of Promises for TLC.                                        *)
(***************************************************************************)
EXTENDS Promises
=============================================================================
