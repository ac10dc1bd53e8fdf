------------------------ MODULE MCCustomerCommands ------------------------
(***************************************************************************)
(* An instance of CustomerCommands for TLC: three requests that overlap.   *)
(* Requests and customers can be exchanged for one another.                *)
(***************************************************************************)
EXTENDS CustomerCommands, TLC

Symmetric == Permutations(Requests) \union Permutations(Customers)
             \union Permutations(References)
=============================================================================
