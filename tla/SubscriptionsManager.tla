------------------------ MODULE SubscriptionsManager ------------------------
(***************************************************************************)
(* InMemoryEventBusSubscriptionsManager: the table that tells an event bus *)
(* which handlers an event goes to, and which .NET type its payload is     *)
(* deserialised into.  One call is one action: this module is the table as *)
(* a single caller sees it.  RabbitMQBus takes the calls apart where       *)
(* another thread can see the table between two of their writes.           *)
(***************************************************************************)
EXTENDS Naturals, Sequences, SequencesExt

CONSTANTS
  EventTypes,    \* the .NET event types (subclasses of IntegrationEvent)
  Names,         \* event names; a dynamic subscription may use any of them
  NameOf,        \* typeof(T).Name: two namespaces may hold the same name
  Handlers       \* handler types

ASSUME NameOfAssumption == NameOf \in [EventTypes -> Names]

VARIABLES
  handlers,      \* _handlers: event name -> list of SubscriptionInfo
  eventTypes,    \* _eventTypes; a set, only membership and Name are used
  result         \* how the last call ended and what OnEventRemoved was told

vars == <<handlers, eventTypes, result>>

(***************************************************************************)
(* Reading the table                                                       *)
(***************************************************************************)
SubscriptionInfo == [isDynamic : BOOLEAN, handlerType : Handlers]

HasSubscriptionsForEvent(e) == e \in DOMAIN handlers

IsEmpty == DOMAIN handlers = {}

ListOf(e) == IF HasSubscriptionsForEvent(e) THEN handlers[e] ELSE <<>>

\* The positions SingleOrDefault(s => s.HandlerType == handlerType) matches.
Matches(e, h) == {i \in DOMAIN ListOf(e) : ListOf(e)[i].handlerType = h}

\* The registered types GetEventTypeByName's SingleOrDefault matches.
TypesNamed(e) == {t \in eventTypes : NameOf[t] = e}

\* SingleOrDefault throws when more than one element matches.
Ambiguous(S) == \E a, b \in S : a # b

Returned(op, outcome, raised) ==
  result' = [op |-> op, outcome |-> outcome, raised |-> raised]

(***************************************************************************)
(* The calls                                                               *)
(***************************************************************************)
Init ==
  /\ handlers = [e \in {} |-> <<>>]
  /\ eventTypes = {}
  /\ result = [op |-> "new", outcome |-> "ok", raised |-> {}]

WithList(e, list) ==
  [n \in DOMAIN handlers \union {e} |-> IF n = e THEN list ELSE handlers[n]]

Appended(e, h, dynamic) ==
  Append(ListOf(e), [isDynamic |-> dynamic, handlerType |-> h])

\* The duplicate check looks at the handler type only, not at IsDynamic.
AlreadyRegistered(e, h) == Matches(e, h) # {}

RefuseDuplicate(e, h) ==
  /\ AlreadyRegistered(e, h)
  /\ Returned("Add", "ArgumentException", {})
  /\ UNCHANGED <<handlers, eventTypes>>

DoAddSubscription(e, h, dynamic) ==
  /\ ~AlreadyRegistered(e, h)
  /\ handlers' = WithList(e, Appended(e, h, dynamic))
  /\ Returned("Add", "ok", {})

AddDynamicSubscription(e, h) ==
  \/ RefuseDuplicate(e, h)
  \/ DoAddSubscription(e, h, TRUE) /\ UNCHANGED eventTypes

\* Mutant: the type is registered only along with the event's key.
AddSubscriptionTypeWithKey(t, h) ==
  \/ RefuseDuplicate(NameOf[t], h)
  \/ /\ DoAddSubscription(NameOf[t], h, FALSE)
     /\ eventTypes' = IF HasSubscriptionsForEvent(NameOf[t]) THEN eventTypes
                      ELSE eventTypes \union {t}

AddSubscription(t, h) ==
  \/ RefuseDuplicate(NameOf[t], h)
  \/ DoAddSubscription(NameOf[t], h, FALSE) /\ eventTypes' = eventTypes \union {t}

\* Mutant: the test for others is missing.
OthersRemainNever(e) == FALSE

OthersRemain(e) == Len(handlers[e]) > 1

\* SingleOrDefault finds nothing (a no-op) or throws, or other handlers remain.
RemoveInner(e, h) ==
  \/ /\ Matches(e, h) = {} \/ Ambiguous(Matches(e, h))
     /\ Returned("Remove", IF Matches(e, h) = {} THEN "ok"
                           ELSE "InvalidOperationException", {})
     /\ UNCHANGED <<handlers, eventTypes>>
  \/ /\ ~Ambiguous(Matches(e, h))
     /\ \E i \in Matches(e, h) :
          OthersRemain(e) /\ handlers' = WithList(e, RemoveAt(handlers[e], i))
     /\ Returned("Remove", "ok", {})
     /\ UNCHANGED eventTypes

\* Mutant: the event is raised inside the if (eventType != null) block.
AnnouncedIfTyped(e) == IF TypesNamed(e) = {} THEN {} ELSE {e}

Announced(e) == {e}

\* The event's last handler: drop the key, then the type, then tell the bus.
\* With two types of that name the look-up throws after the key is gone.
RemoveLast(e, h) ==
  /\ Matches(e, h) # {} /\ ~Ambiguous(Matches(e, h))
  /\ ~OthersRemain(e)
  /\ handlers' = Restrict(handlers, DOMAIN handlers \ {e})
  /\ \/ /\ Ambiguous(TypesNamed(e))
        /\ Returned("Remove", "InvalidOperationException", {})
        /\ UNCHANGED eventTypes
     \/ /\ ~Ambiguous(TypesNamed(e))
        /\ eventTypes' = eventTypes \ TypesNamed(e)
        /\ Returned("Remove", "ok", Announced(e))

DoRemoveHandler(e, h) == RemoveInner(e, h) \/ RemoveLast(e, h)

RemoveDynamicSubscription(e, h) == DoRemoveHandler(e, h)

RemoveSubscription(t, h) == DoRemoveHandler(NameOf[t], h)

\* Clear empties the handlers; the event types stay and no event is raised.
Clear ==
  /\ handlers' = [e \in {} |-> <<>>]
  /\ Returned("Clear", "ok", {})
  /\ UNCHANGED eventTypes

Next ==
  \/ \E e \in Names, h \in Handlers :
       AddDynamicSubscription(e, h) \/ RemoveDynamicSubscription(e, h)
  \/ \E t \in EventTypes, h \in Handlers :
       AddSubscription(t, h) \/ RemoveSubscription(t, h)
  \/ Clear

Spec == Init /\ [][Next]_vars

(***************************************************************************)
(* Properties                                                              *)
(***************************************************************************)

\* The table, the type list and the call results keep their shapes.
TypeOK ==
  /\ DOMAIN handlers \subseteq Names
  /\ handlers \in [DOMAIN handlers -> Seq(SubscriptionInfo)]
  /\ eventTypes \subseteq EventTypes
  /\ result \in [op : {"new", "Add", "Remove", "Clear"},
                 outcome : {"ok", "ArgumentException", "InvalidOperationException"},
                 raised : SUBSET Names]

\* IsEmpty reads the dictionary's keys, and the RabbitMQ bus closes its
\* consumer channel on it: a key must never be left with an empty list.
NoEmptyEntry == \A e \in DOMAIN handlers : handlers[e] # <<>>

\* SingleOrDefault on a handler type never meets two entries, however typed
\* and dynamic calls for one handler are mixed.
RemovalIsUnambiguous ==
  \A e \in Names, h \in Handlers : ~Ambiguous(Matches(e, h))

\* ProcessEvent hands GetEventTypeByName's answer to DeserializeObject and
\* MakeGenericType: while a typed handler is subscribed to an event, a type of
\* that name is registered, whatever was added, removed or cleared before.
TypedHandlersDispatchable ==
  \A e \in DOMAIN handlers :
    (\E i \in DOMAIN handlers[e] : ~handlers[e][i].isDynamic) => TypesNamed(e) # {}

\* The bus unbinds an event's routing key when OnEventRemoved tells it to: an
\* event that loses its last handler is announced, and only such an event,
\* except by Clear and when two registered types share the event's name.
LastHandlerAnnounced ==
  [][\A e \in Names :
       e \in result'.raised <=>
         /\ e \in DOMAIN handlers /\ e \notin DOMAIN handlers'
         /\ result'.op # "Clear"
         /\ ~Ambiguous(TypesNamed(e))]_vars

\* The table is an implementation of the abstract registry.
Pairs == {p \in Names \X Handlers : AlreadyRegistered(p[1], p[2])}

Registry == INSTANCE SubscriptionRegistry WITH subscribed <- Pairs

ImplementsRegistry == Registry!RegistrySpec

\* The table and the list of types agree: no event without a handler, no handler
\* twice, and for every typed handler the type to read its messages by.
TableAgrees == TypeOK /\ NoEmptyEntry /\ RemovalIsUnambiguous /\ TypedHandlersDispatchable
=============================================================================
