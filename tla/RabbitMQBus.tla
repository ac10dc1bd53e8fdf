----------------------------- MODULE RabbitMQBus -----------------------------
(***************************************************************************)
(* EventBusRabbitMQ in one service process, with the broker it talks to.   *)
(*                                                                         *)
(* Three activities share the subscription table and the consumer channel: *)
(* the caller of Subscribe/Unsubscribe/Dispose (one call at a time), the   *)
(* Received callback (async void: a task per delivery, running on beside   *)
(* later deliveries once its first handler awaits), and the broker.  The   *)
(* calls are split at every write another activity can observe.            *)
(*                                                                         *)
(* The broker is external: a direct exchange, one durable queue, manual    *)
(* acknowledgement, redelivery of what a lost channel held, and the client *)
(* library's recovery of a lost connection with its channels.  Its queue   *)
(* is a set: redelivery and overlapping tasks leave no order to rely on.   *)
(***************************************************************************)
EXTENDS Naturals, Sequences, FiniteSets, SequencesExt

CONSTANTS
  EventTypes, Names, NameOf, Handlers,   \* as in SubscriptionsManager
  Resolvable,    \* the handler types the container can resolve
  Msgs,          \* messages, each published at most once
  EventOf,       \* the routing key of a message
  MaxCalls,      \* bound: Subscribe, Unsubscribe and Dispose calls
  MaxFaults      \* bound: kills, handler failures, lost links and channels

ASSUME NameOfAssumption == NameOf \in [EventTypes -> Names]
ASSUME ResolvableAssumption == Resolvable \subseteq Handlers
ASSUME EventOfAssumption == EventOf \in [Msgs -> Names]
ASSUME BoundsAssumption == MaxCalls \in Nat /\ MaxFaults \in Nat

VARIABLES
  handlers, eventTypes,   \* the subscriptions manager's table
  queueName,     \* _queueName: "named", or "" after the last unsubscription
  consuming,     \* _consumerChannel is open (while linked)
  up,            \* the process runs
  linked,        \* the consumer channel's connection is up
  call,          \* the call in progress: what it does next and on what
  task,          \* ProcessEvent, one per delivery
  ready,         \* broker: messages in the queue, not delivered
  acked,         \* broker: messages settled by BasicAck
  bindings,      \* broker: the routing keys bound to the queue
  fate,          \* broker: what became of a publication
  calls, faults, \* how much of the bounds is used
  covered        \* history: handlers subscribed ever since the publication

SM == INSTANCE SubscriptionsManager WITH result <- <<>>

table == <<handlers, eventTypes>>
channel == <<queueName, consuming, up, linked>>
broker == <<ready, acked, bindings, fate>>
vars == <<table, channel, call, task, broker, calls, faults, covered>>

\* A call costs a message one redelivery at most, a fault two: the lost channel
\* requeues, and the task that finds its channel closed ends the process.
Tasks == Msgs \X (1..(1 + MaxCalls + 2 * MaxFaults))

EventOfTask(d) == EventOf[d[1]]

Active(d) == task[d].pc \in {"check", "get", "next", "running", "ack"}

Live(d) == task[d].channel = "live"

Unacked(m) == \E d \in Tasks : d[1] = m /\ Live(d)

HandlerTypes(list) == {list[i].handlerType : i \in DOMAIN list}

HandledBy(m) == UNION {task[d].handled : d \in {x \in Tasks : x[1] = m}}

Idle == [pc |-> "idle", event |-> "none", handler |-> "none", types |-> {}]

NoTask == [pc |-> "none", list |-> <<>>, pos |-> 0, stale |-> FALSE,
           channel |-> "none", handled |-> {}]

Init ==
  /\ handlers = [e \in {} |-> <<>>] /\ eventTypes = {}
  /\ queueName = "named" /\ consuming = TRUE /\ up = TRUE /\ linked = TRUE
  /\ call = Idle
  /\ task = [d \in Tasks |-> NoTask]
  /\ ready = {} /\ acked = {} /\ bindings = {}
  /\ fate = [m \in Msgs |-> "unsent"]
  /\ calls = 0 /\ faults = 0
  /\ covered = [m \in Msgs |-> {}]

(***************************************************************************)
(* Losing a channel, losing the process                                    *)
(***************************************************************************)
\* The broker requeues what a channel held without an acknowledgement.
Requeued == ready \union {m \in Msgs : Unacked(m)}

\* The held deliveries go back to the queue; the tasks run on, and find out
\* when they acknowledge.
ChannelGone(how) ==
  /\ ready' = Requeued
  /\ task' = [d \in Tasks |-> IF Live(d) THEN [task[d] EXCEPT !.channel = how]
                              ELSE task[d]]
  /\ UNCHANGED <<acked, bindings, fate>>

\* An exception that leaves the async void callback ends the process, and the
\* tables, the calls and the tasks with it; the broker keeps its state.
ProcessDies ==
  /\ up' = FALSE /\ consuming' = FALSE /\ queueName' = "named" /\ linked' = TRUE
  /\ handlers' = [e \in {} |-> <<>>] /\ eventTypes' = {}
  /\ call' = Idle
  /\ ready' = Requeued
  /\ task' = [d \in Tasks |->
       IF Active(d) THEN [task[d] EXCEPT !.pc = "dead", !.channel = "none"] ELSE task[d]]
  /\ covered' = [m \in Msgs |-> {}]
  /\ UNCHANGED <<acked, bindings, fate, calls>>

Fault == faults < MaxFaults /\ faults' = faults + 1

Killed == up /\ Fault /\ ProcessDies

\* The constructor: a new consumer channel on the durable queue, consuming
\* from here on, before the host has subscribed anything.
Restart ==
  /\ ~up
  /\ up' = TRUE /\ consuming' = TRUE
  /\ UNCHANGED <<table, queueName, linked, call, task, broker, calls, faults, covered>>

\* The connection drops; the client library restores it with its channels.
LinkLost ==
  /\ up /\ linked /\ Fault
  /\ linked' = FALSE
  /\ ChannelGone("down")
  /\ UNCHANGED <<table, queueName, consuming, up, call, calls, covered>>

LinkRecovered ==
  /\ up /\ ~linked
  /\ linked' = TRUE
  /\ task' = [d \in Tasks |-> IF task[d].channel = "down"
                              THEN [task[d] EXCEPT !.channel = "stale"] ELSE task[d]]
  /\ UNCHANGED <<table, queueName, consuming, up, call, broker, calls, faults, covered>>

\* channel.CallbackException: dispose the consumer channel, create another.  The
\* connection, the channel, the queue or the consumer may be refused: the handler
\* throws, the client library swallows it, and the disposed channel is kept.
ConsumerChannelReplaced ==
  /\ up /\ linked /\ consuming /\ Fault
  /\ ChannelGone("closed")
  /\ consuming' \in BOOLEAN
  /\ UNCHANGED <<table, queueName, up, linked, call, calls, covered>>

(***************************************************************************)
(* Subscribe, Unsubscribe, Dispose                                         *)
(***************************************************************************)
unchangedByCalls == <<up, linked, acked, fate, faults>>

Continue(pc) == call' = IF pc = "idle" THEN Idle ELSE [call EXCEPT !.pc = pc]

Return == Continue("idle")

\* A new call; T is empty for a dynamic subscription, {t} for a typed one.
Begin(pc, e, h, T) ==
  /\ up /\ call.pc = "idle" /\ calls < MaxCalls
  /\ calls' = calls + 1
  /\ call' = [pc |-> pc, event |-> e, handler |-> h, types |-> T]
  /\ UNCHANGED <<table, queueName, consuming, task, ready, bindings, covered,
                 unchangedByCalls>>

Targets == {[e |-> e, T |-> {}] : e \in Names}
             \union {[e |-> NameOf[t], T |-> {t}] : t \in EventTypes}

\* DoInternalSubscription asks the table whether the event is bound already.
Subscribe ==
  \E x \in Targets, h \in Handlers :
    Begin(IF SM!HasSubscriptionsForEvent(x.e) THEN "addKey" ELSE "bind", x.e, h, x.T)

\* Typed and dynamic removal look for the handler type under the event's name.
\* The look-up and the removal are one step: only calls write the table, and
\* they come one at a time.
Unsubscribe == \E e \in Names, h \in Handlers : Begin("remove", e, h, {})

Dispose == Begin("dispose", "none", "none", {})

\* QueueBind on a channel of its own.  Without a connection it may throw; a
\* bind to the queue name "" fails, the channel has declared no queue.
Bind ==
  /\ call.pc = "bind"
  /\ \/ queueName # "" /\ bindings' = bindings \union {call.event} /\ Continue("addKey")
     \/ (queueName = "" \/ ~linked) /\ Return /\ UNCHANGED bindings
  /\ UNCHANGED <<table, queueName, consuming, task, ready, calls, covered,
                 unchangedByCalls>>

AddKey ==
  /\ call.pc = "addKey"
  /\ handlers' = SM!WithList(call.event, SM!ListOf(call.event))
  /\ Continue("append")
  /\ UNCHANGED <<eventTypes, queueName, consuming, task, ready, bindings, calls,
                 covered, unchangedByCalls>>

\* A foreach whose list was changed throws at its next MoveNext.
Invalidated(e) ==
  [d \in Tasks |-> IF EventOfTask(d) = e /\ task[d].pc \in {"next", "running"}
                   THEN [task[d] EXCEPT !.stale = TRUE] ELSE task[d]]

\* Mutant: the event's list is made anew.
OnlyHandler(e, h) == <<[isDynamic |-> call.types = {}, handlerType |-> h]>>

WithHandler(e, h) == SM!Appended(e, h, call.types = {})

AppendHandler ==
  /\ call.pc = "append"
  /\ \/ /\ SM!AlreadyRegistered(call.event, call.handler)   \* ArgumentException
        /\ Return
        /\ UNCHANGED <<handlers, task>>
     \/ /\ ~SM!AlreadyRegistered(call.event, call.handler)
        /\ handlers' = SM!WithList(call.event, WithHandler(call.event, call.handler))
        /\ task' = Invalidated(call.event)
        /\ Continue(IF call.types = {} THEN "idle" ELSE "addType")
  /\ UNCHANGED <<eventTypes, queueName, consuming, ready, bindings, calls, covered,
                 unchangedByCalls>>

AddType ==
  /\ call.pc = "addType"
  /\ eventTypes' = eventTypes \union call.types
  /\ Return
  /\ UNCHANGED <<handlers, queueName, consuming, task, ready, bindings, calls, covered,
                 unchangedByCalls>>

\* Who is no longer subscribed ever since a publication.
CoveredWithout(e, H) ==
  [m \in Msgs |-> IF EventOf[m] = e THEN covered[m] \ H ELSE covered[m]]

Remaining(e, i) == RemoveAt(handlers[e], i)

\* Mutant: the routing key is unbound on every removal.
UnbindAlways(e) == "unbind"

AfterRemoval(e) == IF SM!OthersRemain(e) THEN "idle" ELSE "dropKey"

RemoveHandler ==
  /\ call.pc = "remove"
  /\ \/ /\ SM!Matches(call.event, call.handler) = {}
        /\ Return
        /\ UNCHANGED <<handlers, task, covered>>
     \/ \E i \in SM!Matches(call.event, call.handler) :
          /\ handlers' = SM!WithList(call.event, Remaining(call.event, i))
          /\ task' = Invalidated(call.event)
          /\ covered' = CoveredWithout(call.event, {call.handler})
          /\ Continue(AfterRemoval(call.event))
  /\ UNCHANGED <<eventTypes, queueName, consuming, ready, bindings, calls,
                 unchangedByCalls>>

\* The key goes, then the type, which no dispatch can tell apart: a foreach
\* over the event is stale by now.  With two types of the event's name the
\* look-up throws after the key is gone, and nothing is unbound.
DropKey ==
  /\ call.pc = "dropKey"
  /\ handlers' = Restrict(handlers, DOMAIN handlers \ {call.event})
  /\ LET types == SM!TypesNamed(call.event) IN
       \/ SM!Ambiguous(types) /\ Return /\ UNCHANGED eventTypes
       \/ ~SM!Ambiguous(types) /\ Continue("unbind") /\ eventTypes' = eventTypes \ types
  /\ UNCHANGED <<queueName, consuming, task, ready, bindings, calls, covered,
                 unchangedByCalls>>

AfterUnbinding == IF SM!IsEmpty THEN "close" ELSE "idle"

\* SubsManager_OnEventRemoved, which throws when it cannot connect.
Unbind ==
  /\ call.pc = "unbind"
  /\ \/ bindings' = bindings \ {call.event} /\ Continue(AfterUnbinding)
     \/ ~linked /\ Return /\ UNCHANGED bindings
  /\ UNCHANGED <<table, queueName, consuming, task, ready, calls, covered,
                 unchangedByCalls>>

NoQueue == ""

CloseChannel ==
  /\ call.pc = "close"
  /\ queueName' = NoQueue /\ consuming' = FALSE
  /\ ChannelGone("closed")
  /\ Return
  /\ UNCHANGED <<table, up, linked, calls, faults, covered>>

\* Dispose: the consumer channel, then the table's handlers; no unbinding.
\* The host disposes its singletons last, no call follows.
DisposeChannel ==
  /\ call.pc = "dispose"
  /\ consuming' = FALSE
  /\ ChannelGone("closed")
  /\ Continue("clear")
  /\ UNCHANGED <<table, queueName, up, linked, calls, faults, covered>>

ClearTable ==
  /\ call.pc = "clear"
  /\ handlers' = [e \in {} |-> <<>>]
  /\ covered' = [m \in Msgs |-> {}]
  /\ Continue("over")
  /\ UNCHANGED <<eventTypes, queueName, consuming, task, ready, bindings, calls,
                 unchangedByCalls>>

Call ==
  \/ Subscribe \/ Unsubscribe \/ Dispose
  \/ Bind \/ AddKey \/ AppendHandler \/ AddType
  \/ RemoveHandler \/ DropKey \/ Unbind \/ CloseChannel
  \/ DisposeChannel \/ ClearTable

(***************************************************************************)
(* Publish                                                                 *)
(***************************************************************************)
\* The handlers an event has at this moment, all parts of the call done.
SubscribedNow(e) ==
  HandlerTypes(SM!ListOf(e))
    \ (IF call.pc = "addType" /\ call.event = e THEN {call.handler} ELSE {})

\* BasicPublish from any process: routed to the queue if the key is bound,
\* else returned to a publisher that registered nobody to hear of it.
Publish(m) ==
  /\ fate[m] = "unsent"
  /\ \/ /\ EventOf[m] \in bindings
        /\ ready' = ready \union {m}
        /\ fate' = [fate EXCEPT ![m] = "routed"]
        /\ covered' = [covered EXCEPT ![m] = SubscribedNow(EventOf[m])]
     \/ /\ EventOf[m] \notin bindings
        /\ fate' = [fate EXCEPT ![m] = "unroutable"]
        /\ UNCHANGED <<ready, covered>>
  /\ UNCHANGED <<table, channel, call, task, acked, bindings, calls, faults>>

(***************************************************************************)
(* The Received callback                                                   *)
(***************************************************************************)
Step(d, changes) == task' = [task EXCEPT ![d] = changes]

unchangedByTasks == <<table, channel, call, bindings, fate, calls>>

\* The channel's dispatcher starts a callback when the one before has reached
\* its first await (or its end).
DispatcherFree == \A d \in Tasks : task[d].pc \notin {"check", "get"}

\* Mutant: autoAck: true.
AutoAck == "none"

ManualAck == "live"

Deliver(d) ==
  /\ up /\ linked /\ consuming /\ DispatcherFree
  /\ d[1] \in ready
  /\ task[d].pc = "none" /\ \A k \in 1..(d[2] - 1) : task[<<d[1], k>>].pc # "none"
  /\ ready' = ready \ {d[1]}
  /\ Step(d, [NoTask EXCEPT !.pc = "check", !.channel = ManualAck])
  /\ UNCHANGED <<unchangedByTasks, acked, faults, covered>>

\* Mutant: a message nobody subscribed to is not acknowledged.
ForgetIt == "ignored"

WithoutSubscription == "ack"

Check(d) ==
  /\ task[d].pc = "check"
  /\ Step(d, [task[d] EXCEPT !.pc =
       IF SM!HasSubscriptionsForEvent(EventOfTask(d)) THEN "get" ELSE WithoutSubscription])
  /\ UNCHANGED <<unchangedByTasks, ready, acked, faults, covered>>

\* GetHandlersForEvent and the first MoveNext; the dictionary throws when the
\* key is gone by now.
Get(d) ==
  /\ task[d].pc = "get"
  /\ \/ /\ SM!HasSubscriptionsForEvent(EventOfTask(d))
        /\ LET list == SM!ListOf(EventOfTask(d)) IN
             Step(d, [task[d] EXCEPT !.list = list, !.pos = 1,
                                     !.pc = IF list = <<>> THEN "ack" ELSE "next"])
        /\ UNCHANGED <<unchangedByTasks, ready, acked, covered>>
     \/ /\ ~SM!HasSubscriptionsForEvent(EventOfTask(d))
        /\ ProcessDies
  /\ UNCHANGED faults

\* The subscription the foreach is at.
Current(d) == task[d].list[task[d].pos]

AtEnd(d) == task[d].pos > Len(task[d].list)

\* A typed subscription needs exactly one event type of its event's name.
Dispatchable(d) ==
  \/ Current(d).isDynamic
  \/ SM!TypesNamed(EventOfTask(d)) # {} /\ ~SM!Ambiguous(SM!TypesNamed(EventOfTask(d)))

Skip(d) == [task[d] EXCEPT !.pos = @ + 1]

\* The body of the foreach up to the await of the handler.
MoveNext(d) ==
  /\ task[d].pc = "next"
  /\ \/ /\ ~task[d].stale /\ AtEnd(d)
        /\ Step(d, [task[d] EXCEPT !.pc = "ack"])
        /\ UNCHANGED <<unchangedByTasks, ready, acked, covered>>
     \/ /\ ~task[d].stale /\ ~AtEnd(d) /\ Current(d).handlerType \notin Resolvable
        /\ Step(d, Skip(d))
        /\ UNCHANGED <<unchangedByTasks, ready, acked, covered>>
     \/ /\ ~task[d].stale /\ ~AtEnd(d) /\ Current(d).handlerType \in Resolvable
        /\ Dispatchable(d)
        /\ Step(d, [task[d] EXCEPT !.pc = "running"])
        /\ UNCHANGED <<unchangedByTasks, ready, acked, covered>>
     \/ /\ task[d].stale \/ (~AtEnd(d) /\ Current(d).handlerType \in Resolvable
                              /\ ~Dispatchable(d))
        /\ ProcessDies
  /\ UNCHANGED faults

HandlerReturns(d) ==
  /\ task[d].pc = "running"
  /\ Step(d, [task[d] EXCEPT !.pc = "next", !.pos = @ + 1,
                             !.handled = @ \union {Current(d).handlerType}])
  /\ UNCHANGED <<unchangedByTasks, ready, acked, faults, covered>>

HandlerThrows(d) == task[d].pc = "running" /\ Fault /\ ProcessDies

Settled(d) == {d[1]}

\* BasicAck on the delivery's own channel: settled; ignored when the channel
\* was restored since; an exception when it is closed.
Ack(d) ==
  /\ task[d].pc = "ack"
  /\ \/ /\ task[d].channel \in {"live", "stale"}
        /\ acked' = IF Live(d) THEN acked \union Settled(d) ELSE acked
        /\ Step(d, [task[d] EXCEPT !.pc = IF Live(d) THEN "acked" ELSE "ignored",
                                   !.channel = "none"])
        /\ UNCHANGED <<unchangedByTasks, ready, covered>>
     \/ task[d].channel \in {"down", "closed"} /\ ProcessDies
  /\ UNCHANGED faults

TaskStep(d) ==
  Deliver(d) \/ Check(d) \/ Get(d) \/ MoveNext(d) \/ HandlerReturns(d) \/ Ack(d)

Next ==
  \/ Call
  \/ \E m \in Msgs : Publish(m)
  \/ \E d \in Tasks : TaskStep(d) \/ HandlerThrows(d)
  \/ Killed \/ Restart \/ LinkLost \/ LinkRecovered \/ ConsumerChannelReplaced

Spec == Init /\ [][Next]_vars

\* Handlers return, a dead process is restarted, a lost link comes back.
Fairness ==
  /\ \A d \in Tasks : WF_vars(TaskStep(d))
  /\ WF_vars(Restart) /\ WF_vars(LinkRecovered)

LiveSpec == Spec /\ Fairness

(***************************************************************************)
(* Properties                                                              *)
(***************************************************************************)
\* Every variable has its type.
TypeOK ==
  /\ DOMAIN handlers \subseteq Names
  /\ \A e \in DOMAIN handlers :
       ToSet(handlers[e]) \subseteq SM!SubscriptionInfo
  /\ eventTypes \subseteq EventTypes
  /\ queueName \in {"named", ""}
  /\ consuming \in BOOLEAN /\ up \in BOOLEAN /\ linked \in BOOLEAN
  /\ call.pc \in {"idle", "bind", "addKey", "append", "addType", "remove", "dropKey",
                  "unbind", "close", "dispose", "clear", "over"}
  /\ \A d \in Tasks :
       /\ task[d].pc \in {"none", "check", "get", "next", "running", "ack",
                          "acked", "ignored", "dead"}
       /\ task[d].channel \in {"none", "live", "down", "stale", "closed"}
       /\ ToSet(task[d].list) \subseteq SM!SubscriptionInfo
       /\ task[d].handled \subseteq Handlers
  /\ ready \subseteq Msgs /\ acked \subseteq Msgs /\ bindings \subseteq Names
  /\ fate \in [Msgs -> {"unsent", "routed", "unroutable"}]
  /\ calls \in 0..MaxCalls /\ faults \in 0..MaxFaults
  /\ covered \in [Msgs -> SUBSET Handlers]

\* autoAck is off: through deliveries, lost channels and crashes a routed
\* message is in the queue, or held by one delivery, or settled, and only one.
Custody ==
  \A m \in Msgs :
    LET holders == {d \in Tasks : d[1] = m /\ Live(d)} IN
      IF fate[m] # "routed" THEN m \notin ready \union acked /\ holders = {}
      ELSE Cardinality(holders) + Cardinality({m} \intersect ready)
             + Cardinality({m} \intersect acked) = 1

\* BasicAck follows the await of ProcessEvent: when a delivery is settled,
\* every resolvable handler the event had when the foreach began has returned,
\* also when handlers came and went meanwhile.
AckedOnlyWhenHandled ==
  \A d \in Tasks :
    task[d].pc = "acked" =>
      task[d].handled = HandlerTypes(task[d].list) \intersect Resolvable

\* At least once: a handler that was subscribed when a message was published
\* and has been ever since, in a process that lived on, has handled the message
\* by the time the message is settled.
NoLossWhileSubscribed ==
  \A m \in acked : (covered[m] \intersect Resolvable) \subseteq HandledBy(m)

\* Subscribe binds before it adds and Unsubscribe removes before it unbinds:
\* an event with a handler has its routing key bound at every moment.
SubscribedIsBound ==
  \A e \in Names : SM!ListOf(e) # <<>> => e \in bindings

\* The bus lets go of its queue only when nobody is subscribed, and from then on
\* nobody can be: no handler is left, or added, whose messages go elsewhere.
SubscribedHasQueue == queueName = NoQueue => DOMAIN handlers = {}

\* Taken apart by crashes and interleaved with dispatch, the calls still make
\* the table an implementation of the abstract registry.
CallsImplementRegistry == SM!ImplementsRegistry

\* While the bus keeps consuming, every routed message is settled at last,
\* through crashes, restarts and lost connections.
RoutedIsSettled ==
  <>[](up => consuming) => \A m \in Msgs : (fate[m] = "routed") ~> (m \in acked)

\* What a subscriber relies on: messages of its event come to the queue, and the
\* bus keeps the queue.  That it consumes them is more than the code assures: a
\* consumer channel that could not be replaced stays closed until the process is
\* restarted, and the messages wait in the queue.
SubscribedIsRouted == TypeOK /\ SubscribedIsBound /\ SubscribedHasQueue

\* A routed message is kept until every handler that was to have it has it.
AtLeastOnce == Custody /\ AckedOnlyWhenHandled /\ NoLossWhileSubscribed
=============================================================================
