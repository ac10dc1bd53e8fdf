-------------------------- MODULE PromiseContract --------------------------
(***************************************************************************)
(* What promises promise to a page that registers callbacks with then():   *)
(* a promise is settled once; then() on a promise makes a child, whose     *)
(* callback is called once, after the parent is settled, in the order of   *)
(* registration; and it is called eventually.                              *)
(***************************************************************************)
EXTENDS Integers

CONSTANT Promises            \* identities, in the order they are created

VARIABLES
  state,                     \* "unborn", "pending", "fulfilled" or "rejected"
  parent,                    \* the promise whose then() made this one, or 0
  called                     \* how often a child's callback has been called

vars == <<state, parent, called>>

Init ==
  /\ state = [p \in Promises |-> "unborn"]
  /\ parent = [p \in Promises |-> 0]
  /\ called = [p \in Promises |-> 0]

Settled(p) == state[p] \in {"fulfilled", "rejected"}

MayBecome(before) ==
  CASE before = "unborn"  -> {"unborn", "pending", "fulfilled", "rejected"}
    [] before = "pending" -> {"pending", "fulfilled", "rejected"}
    [] OTHER              -> {before}

MayBeCalled(c) ==
  /\ called[c] = 0
  /\ parent[c] # 0 /\ Settled(parent[c])
  /\ \A d \in Promises : d < c /\ parent[d] = parent[c] => called[d] > 0

\* One step may create, settle and call several.
Next ==
  /\ \A p \in Promises : state'[p] \in MayBecome(state[p])
  /\ \A p \in Promises : parent'[p] # parent[p] => state[p] = "unborn"
  /\ \A c \in Promises :
       called'[c] # called[c] => MayBeCalled(c) /\ called'[c] = 1

\* What holds of every step.
Safety == Init /\ [][Next]_vars

CallsEventually ==
  \A c \in Promises :
    (parent[c] # 0 /\ state[parent[c]] \in {"fulfilled", "rejected"}) ~> called[c] > 0

Spec == Safety /\ CallsEventually
=============================================================================
