------------------------ MODULE SubscriptionRegistry ------------------------
(***************************************************************************)
(* What IEventBusSubscriptionsManager promises its callers: a set of       *)
(* (event name, handler type) pairs that grows and shrinks one pair at a   *)
(* time, or is emptied as a whole.  Lists, dictionaries and the event-type *)
(* table are the business of SubscriptionsManager, which implements this.  *)
(***************************************************************************)

CONSTANTS
  Names,     \* event names, the keys events are routed by
  Handlers   \* handler types

VARIABLE subscribed   \* the pairs an event is dispatched to

RegistryInit == subscribed = {}

Register(e, h) ==
  /\ <<e, h>> \notin subscribed
  /\ subscribed' = subscribed \union {<<e, h>>}

Withdraw(e, h) ==
  /\ <<e, h>> \in subscribed
  /\ subscribed' = subscribed \ {<<e, h>>}

WithdrawAll == subscribed' = {}

RegistryNext ==
  \/ \E e \in Names, h \in Handlers : Register(e, h) \/ Withdraw(e, h)
  \/ WithdrawAll

RegistrySpec == RegistryInit /\ [][RegistryNext]_subscribed
=============================================================================
