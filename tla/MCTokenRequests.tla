-------------------------- MODULE MCTokenRequests --------------------------
(***************************************************************************)
(* Instances of TokenRequests for TLC: flows of every kind that compete    *)
(* for the request state; three popups of one page.                        *)
(***************************************************************************)
EXTENDS TokenRequests
=============================================================================
