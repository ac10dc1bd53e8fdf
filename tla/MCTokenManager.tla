--------------------------- MODULE MCTokenManager ---------------------------
(***************************************************************************)
(* An instance of TokenManager for TLC: a tab that renews its token and one*)
(* that does not, with tokens that last no time, less than Lead, more, and *)
(* longer than a timer can.                                                *)
(***************************************************************************)
EXTENDS TokenManager
=============================================================================
