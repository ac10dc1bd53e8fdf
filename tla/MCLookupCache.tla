--------------------------- MODULE MCLookupCache ---------------------------
(***************************************************************************)
(* An instance of LookupCache for TLC: calls of Resolve that overlap.      *)
(***************************************************************************)
EXTENDS LookupCache
=============================================================================
