------------------------------ MODULE AzureBus ------------------------------
(***************************************************************************)
(* EventBusAzureServiceBus in one service process, with the topic's        *)
(* subscription it receives from.  The rules and messages of the           *)
(* subscription outlive the process; its table of handlers does not.       *)
(*                                                                         *)
(* The table goes by the full names of events, rules and messages by a     *)
(* label, which is the name without "IntegrationEvent".  The way back puts *)
(* the suffix behind the label: a name that does not end in it shares its  *)
(* rule with one that does, and its messages are looked up under that one. *)
(*                                                                         *)
(* Of the service: a message is received under a lock; a callback that     *)
(* throws abandons it, one that returns without completing it leaves it    *)
(* locked until the lock expires, and MaxDeliveries deliveries without a   *)
(* completion move it to the dead letters.                                 *)
(***************************************************************************)
EXTENDS Naturals, Sequences, FiniteSets, SequencesExt

CONSTANTS
  EventTypes, Names, NameOf, Handlers,   \* as in SubscriptionsManager
  Resolvable,      \* the handler types the container can resolve
  Msgs, EventOf,   \* messages and the name of the event each carries
  Labels,          \* of messages, and names and filters of the service's rules
  LabelOf,         \* the label of a name: "IntegrationEvent" taken out of it
  NamedBy,         \* the name for a label: "IntegrationEvent" put behind it
  MaxConcurrent,   \* MAX_CONCURRENT_CALLS
  MaxDeliveries,   \* the subscription's delivery count
  MaxCalls,        \* bound: Subscribe and Unsubscribe calls, and Dispose
  MaxFaults        \* bound: kills, handler failures, lost locks, service errors

ASSUME NameOfAssumption == NameOf \in [EventTypes -> Names]
ASSUME ResolvableAssumption == Resolvable \subseteq Handlers
ASSUME EventOfAssumption == EventOf \in [Msgs -> Names]
ASSUME LabelsAssumption == LabelOf \in [Names -> Labels] /\ NamedBy \in [Labels -> Names]
ASSUME BoundsAssumption == {MaxConcurrent, MaxDeliveries, MaxCalls, MaxFaults} \subseteq Nat

VARIABLES
  handlers, eventTypes,   \* the subscriptions manager's table
  up,            \* the process runs and its message handler is registered
  call,          \* the call in progress
  task,          \* the message handler, once per delivery
  rules,         \* service: labels the subscription lets through
  matchAll,      \* service: the default rule is there
  mail,          \* service: what became of a message
  calls, faults, \* how much of the bounds is used
  covered        \* history: handlers found by its label ever since the publication

SM == INSTANCE SubscriptionsManager WITH result <- <<>>

table == <<handlers, eventTypes>>
service == <<rules, matchAll, mail>>
vars == <<table, up, call, task, service, calls, faults, covered>>

Tasks == Msgs \X (1..MaxDeliveries)

Label(m) == LabelOf[EventOf[m]]

\* The name a message's handlers are looked up by: that of its event if it ends
\* in the suffix, and another if it does not.
Heard(m) == NamedBy[Label(m)]

EventOfTask(d) == Heard(d[1])

Active(d) == task[d].pc \in {"check", "get", "next", "running", "complete"}

HandlerTypes(list) == {list[i].handlerType : i \in DOMAIN list}

HandledBy(m) == UNION {task[d].handled : d \in {x \in Tasks : x[1] = m}}

Idle == [pc |-> "idle", event |-> "none", handler |-> "none", types |-> {}]

NoTask == [pc |-> "none", list |-> <<>>, pos |-> 0, stale |-> FALSE,
           locked |-> FALSE, handled |-> {}]

\* The subscription was created with its default rule.
Init ==
  /\ handlers = [e \in {} |-> <<>>] /\ eventTypes = {}
  /\ up = FALSE
  /\ call = Idle
  /\ task = [d \in Tasks |-> NoTask]
  /\ rules = {} /\ matchAll = TRUE
  /\ mail = [m \in Msgs |-> "unsent"]
  /\ calls = 0 /\ faults = 0
  /\ covered = [m \in Msgs |-> {}]

Fault == faults < MaxFaults /\ faults' = faults + 1

\* The constructor: the default rule goes, the message handler is registered,
\* before the host has subscribed anything.
Start ==
  /\ ~up /\ up' = TRUE
  /\ matchAll' = FALSE
  /\ UNCHANGED <<table, call, task, rules, mail, calls, faults, covered>>

\* The locks of the messages it had in hand are left to expire.
Killed ==
  /\ up /\ Fault
  /\ up' = FALSE /\ call' = Idle
  /\ handlers' = [e \in {} |-> <<>>] /\ eventTypes' = {}
  /\ task' = [d \in Tasks |-> IF Active(d) THEN [task[d] EXCEPT !.pc = "dead"] ELSE task[d]]
  /\ covered' = [m \in Msgs |-> {}]
  /\ UNCHANGED <<service, calls>>

(***************************************************************************)
(* Subscribe, Unsubscribe, Dispose                                         *)
(***************************************************************************)
unchangedByCalls == <<up, matchAll, mail>>

Continue(pc) == call' = IF pc = "idle" THEN Idle ELSE [call EXCEPT !.pc = pc]

Return == Continue("idle")

\* A new call; T is empty for a dynamic subscription, {t} for a typed one.
Begin(pc, e, h, T) ==
  /\ up /\ call.pc = "idle" /\ calls < MaxCalls
  /\ calls' = calls + 1
  /\ call' = [pc |-> pc, event |-> e, handler |-> h, types |-> T]
  /\ UNCHANGED <<table, task, rules, faults, covered, unchangedByCalls>>

NeedsRule(e) == ~SM!HasSubscriptionsForEvent(e)

Subscribe(t, h) ==
  Begin(IF NeedsRule(NameOf[t]) THEN "addRule" ELSE "addKey", NameOf[t], h, {t})

SubscribeDynamic(e, h) == Begin("addKey", e, h, {})

Unsubscribe(t, h) == Begin("removeRule", NameOf[t], h, {t})

UnsubscribeDynamic(e, h) == Begin("remove", e, h, {})

Dispose == Begin("clear", "none", "none", {})

\* The rule is named for the label, which names with and without the suffix
\* share.  Every ServiceBusException is taken for a rule that exists already.
AddRule ==
  /\ call.pc = "addRule"
  /\ \/ rules' = rules \union {LabelOf[call.event]} /\ UNCHANGED faults
     \/ Fault /\ UNCHANGED rules
  /\ Continue("addKey")
  /\ UNCHANGED <<table, task, calls, covered, unchangedByCalls>>

\* The label's rule goes, whoever is subscribed besides; only a rule that is
\* not there is forgiven.
RemoveRule ==
  /\ call.pc = "removeRule"
  /\ \/ rules' = rules \ {LabelOf[call.event]} /\ Continue("remove") /\ UNCHANGED faults
     \/ Fault /\ Return /\ UNCHANGED rules
  /\ UNCHANGED <<table, task, calls, covered, unchangedByCalls>>

\* A dynamic subscription comes here without asking for a rule.
AddKey ==
  /\ call.pc = "addKey"
  /\ handlers' = SM!WithList(call.event, SM!ListOf(call.event))
  /\ Continue("append")
  /\ UNCHANGED <<eventTypes, task, rules, calls, faults, covered, unchangedByCalls>>

\* A foreach whose list was changed throws at its next MoveNext.
Invalidated(e) ==
  [d \in Tasks |-> IF EventOfTask(d) = e /\ task[d].pc \in {"next", "running"}
                   THEN [task[d] EXCEPT !.stale = TRUE] ELSE task[d]]

AppendHandler ==
  /\ call.pc = "append"
  /\ \/ /\ SM!AlreadyRegistered(call.event, call.handler)   \* ArgumentException
        /\ Return /\ UNCHANGED <<handlers, task>>
     \/ /\ ~SM!AlreadyRegistered(call.event, call.handler)
        /\ handlers' = SM!WithList(call.event,
             SM!Appended(call.event, call.handler, call.types = {}))
        /\ task' = Invalidated(call.event)
        /\ Continue(IF call.types = {} THEN "idle" ELSE "addType")
  /\ UNCHANGED <<eventTypes, rules, calls, faults, covered, unchangedByCalls>>

TypeOfCall == call.types

AddType ==
  /\ call.pc = "addType"
  /\ eventTypes' = eventTypes \union TypeOfCall
  /\ Return
  /\ UNCHANGED <<handlers, task, rules, calls, faults, covered, unchangedByCalls>>

CoveredWithout(e, h) ==
  [m \in Msgs |-> IF Heard(m) = e THEN covered[m] \ {h} ELSE covered[m]]

Remaining(e, i) == RemoveAt(handlers[e], i)

RemoveHandler ==
  /\ call.pc = "remove"
  /\ \/ SM!Matches(call.event, call.handler) = {} /\ Return
        /\ UNCHANGED <<handlers, task, covered>>
     \/ \E i \in SM!Matches(call.event, call.handler) :
          /\ handlers' = SM!WithList(call.event, Remaining(call.event, i))
          /\ task' = Invalidated(call.event)
          /\ covered' = CoveredWithout(call.event, call.handler)
          /\ Continue(IF SM!OthersRemain(call.event) THEN "idle" ELSE "dropKey")
  /\ UNCHANGED <<eventTypes, rules, calls, faults, unchangedByCalls>>

\* The key, then the type; this bus does not listen to OnEventRemoved.
DropKey ==
  /\ call.pc = "dropKey"
  /\ handlers' = Restrict(handlers, DOMAIN handlers \ {call.event})
  /\ LET types == SM!TypesNamed(call.event) IN
       eventTypes' = IF SM!Ambiguous(types) THEN eventTypes ELSE eventTypes \ types
  /\ Return
  /\ UNCHANGED <<task, rules, calls, faults, covered, unchangedByCalls>>

\* The host disposes its singletons last: no call follows.
ClearTable ==
  /\ call.pc = "clear"
  /\ handlers' = [e \in {} |-> <<>>]
  /\ covered' = [m \in Msgs |-> {}]
  /\ Continue("over")
  /\ UNCHANGED <<eventTypes, task, rules, calls, faults, unchangedByCalls>>

Call ==
  \/ \E t \in EventTypes, h \in Handlers : Subscribe(t, h) \/ Unsubscribe(t, h)
  \/ \E e \in Names, h \in Handlers : SubscribeDynamic(e, h) \/ UnsubscribeDynamic(e, h)
  \/ Dispose
  \/ AddRule \/ RemoveRule \/ AddKey \/ AppendHandler \/ AddType
  \/ RemoveHandler \/ DropKey \/ ClearTable

(***************************************************************************)
(* Publish                                                                 *)
(***************************************************************************)
\* The handlers an event has at this moment, all parts of the call done.
SubscribedNow(e) ==
  HandlerTypes(SM!ListOf(e))
    \ (IF call.pc = "addType" /\ call.event = e THEN {call.handler} ELSE {})

\* From any process to the topic, whose rules decide by the label about this
\* subscription.
Publish(m) ==
  /\ mail[m] = "unsent"
  /\ \/ /\ matchAll \/ Label(m) \in rules
        /\ mail' = [mail EXCEPT ![m] = "ready"]
        /\ covered' = [covered EXCEPT ![m] = SubscribedNow(Heard(m))]
     \/ /\ ~matchAll /\ Label(m) \notin rules
        /\ mail' = [mail EXCEPT ![m] = "unrouted"]
        /\ UNCHANGED covered
  /\ UNCHANGED <<table, up, call, task, rules, matchAll, calls, faults>>

(***************************************************************************)
(* The message handler                                                     *)
(***************************************************************************)
Step(d, changes) == task' = [task EXCEPT ![d] = changes]

unchangedByTasks == <<table, up, call, rules, matchAll, calls, covered>>

Deliver(d) ==
  /\ up /\ Cardinality({x \in Tasks : Active(x)}) < MaxConcurrent
  /\ mail[d[1]] = "ready"
  /\ task[d].pc = "none" /\ \A k \in 1..(d[2] - 1) : task[<<d[1], k>>].pc # "none"
  /\ Step(d, [NoTask EXCEPT !.pc = "check", !.locked = TRUE])
  /\ mail' = [mail EXCEPT ![d[1]] = "held"]
  /\ UNCHANGED <<unchangedByTasks, faults>>

\* What an unlocked message becomes after its delivery d.
GiveBack(d) ==
  mail' = [mail EXCEPT ![d[1]] = IF d[2] < MaxDeliveries THEN "ready" ELSE "dead"]

\* The callback threw: the library reports it and abandons the message, which
\* fails if the lock is lost.
Abandon(d) ==
  /\ Step(d, [task[d] EXCEPT !.pc = "failed", !.locked = FALSE])
  /\ IF task[d].locked THEN GiveBack(d) ELSE UNCHANGED mail

\* Locks are renewed while the callback runs, but not without end.
LockExpires(d) ==
  /\ task[d].locked
  /\ \/ ~Active(d) /\ UNCHANGED faults
     \/ Active(d) /\ Fault
  /\ Step(d, [task[d] EXCEPT !.locked = FALSE])
  /\ GiveBack(d)
  /\ UNCHANGED unchangedByTasks

\* Mutant: a message without subscription is tried again and again.
TryAgain == "check"

WithoutSubscription == "left"

Check(d) ==
  /\ task[d].pc = "check"
  /\ Step(d, [task[d] EXCEPT !.pc =
       IF SM!HasSubscriptionsForEvent(EventOfTask(d)) THEN "get" ELSE WithoutSubscription])
  /\ UNCHANGED <<unchangedByTasks, mail, faults>>

\* GetHandlersForEvent and the first MoveNext; the dictionary throws when the
\* key is gone by now.
Get(d) ==
  /\ task[d].pc = "get"
  /\ \/ /\ SM!HasSubscriptionsForEvent(EventOfTask(d))
        /\ LET list == SM!ListOf(EventOfTask(d)) IN
             Step(d, [task[d] EXCEPT !.list = list, !.pos = 1,
                                     !.pc = IF list = <<>> THEN "complete" ELSE "next"])
        /\ UNCHANGED mail
     \/ ~SM!HasSubscriptionsForEvent(EventOfTask(d)) /\ Abandon(d)
  /\ UNCHANGED <<unchangedByTasks, faults>>

\* The subscription the foreach is at.
Current(d) == task[d].list[task[d].pos]

AtEnd(d) == task[d].pos > Len(task[d].list)

\* A typed subscription needs exactly one event type of its event's name.
Dispatchable(d) ==
  \/ Current(d).isDynamic
  \/ SM!TypesNamed(EventOfTask(d)) # {} /\ ~SM!Ambiguous(SM!TypesNamed(EventOfTask(d)))

\* The body of the foreach up to the await of the handler.
MoveNext(d) ==
  /\ task[d].pc = "next"
  /\ \/ /\ ~task[d].stale /\ AtEnd(d)
        /\ Step(d, [task[d] EXCEPT !.pc = "complete"]) /\ UNCHANGED mail
     \/ /\ ~task[d].stale /\ ~AtEnd(d) /\ Current(d).handlerType \notin Resolvable
        /\ Step(d, [task[d] EXCEPT !.pos = @ + 1]) /\ UNCHANGED mail
     \/ /\ ~task[d].stale /\ ~AtEnd(d) /\ Current(d).handlerType \in Resolvable
        /\ Dispatchable(d)
        /\ Step(d, [task[d] EXCEPT !.pc = "running"]) /\ UNCHANGED mail
     \/ /\ task[d].stale \/ (~AtEnd(d) /\ Current(d).handlerType \in Resolvable
                              /\ ~Dispatchable(d))
        /\ Abandon(d)
  /\ UNCHANGED <<unchangedByTasks, faults>>

HandlerReturns(d) ==
  /\ task[d].pc = "running"
  /\ Step(d, [task[d] EXCEPT !.pc = "next", !.pos = @ + 1,
                             !.handled = @ \union {Current(d).handlerType}])
  /\ UNCHANGED <<unchangedByTasks, mail, faults>>

\* Mutant: the exception of a handler is caught inside the foreach.
Swallowed(d) == Step(d, [task[d] EXCEPT !.pc = "next", !.pos = @ + 1]) /\ UNCHANGED mail

Thrown(d) == Abandon(d)

HandlerThrows(d) ==
  /\ task[d].pc = "running" /\ Fault
  /\ Thrown(d)
  /\ UNCHANGED unchangedByTasks

\* CompleteAsync throws when the lock is lost, and may fail besides.
Complete(d) ==
  /\ task[d].pc = "complete"
  /\ \/ /\ task[d].locked
        /\ Step(d, [task[d] EXCEPT !.pc = "completed", !.locked = FALSE])
        /\ mail' = [mail EXCEPT ![d[1]] = "completed"]
        /\ UNCHANGED faults
     \/ ~task[d].locked /\ Abandon(d) /\ UNCHANGED faults
     \/ task[d].locked /\ Fault /\ Abandon(d)
  /\ UNCHANGED unchangedByTasks

TaskStep(d) ==
  Deliver(d) \/ Check(d) \/ Get(d) \/ MoveNext(d) \/ HandlerReturns(d) \/ Complete(d)

Next ==
  \/ Start \/ Killed
  \/ Call
  \/ \E m \in Msgs : Publish(m)
  \/ \E d \in Tasks : TaskStep(d) \/ HandlerThrows(d) \/ LockExpires(d)

Spec == Init /\ [][Next]_vars

\* Handlers return, a dead process is restarted, locks expire.
Fairness ==
  /\ \A d \in Tasks : WF_vars(TaskStep(d)) /\ WF_vars(~Active(d) /\ LockExpires(d))
  /\ WF_vars(Start)

LiveSpec == Spec /\ Fairness

(***************************************************************************)
(* Properties                                                              *)
(***************************************************************************)
\* The types of the variables.
TypeOK ==
  /\ DOMAIN handlers \subseteq Names
  /\ \A e \in DOMAIN handlers : ToSet(handlers[e]) \subseteq SM!SubscriptionInfo
  /\ eventTypes \subseteq EventTypes
  /\ up \in BOOLEAN /\ matchAll \in BOOLEAN
  /\ call.pc \in {"idle", "addRule", "removeRule", "addKey", "append", "addType",
                  "remove", "dropKey", "clear", "over"}
  /\ \A d \in Tasks :
       /\ task[d].pc \in {"none", "check", "get", "next", "running", "complete",
                          "completed", "left", "failed", "dead"}
       /\ task[d].locked \in BOOLEAN
       /\ ToSet(task[d].list) \subseteq SM!SubscriptionInfo
       /\ task[d].handled \subseteq Handlers
  /\ rules \subseteq Labels
  /\ mail \in [Msgs -> {"unsent", "unrouted", "ready", "held", "completed", "dead"}]
  /\ calls \in 0..MaxCalls /\ faults \in 0..MaxFaults
  /\ covered \in [Msgs -> SUBSET Handlers]

\* CompleteAsync follows ProcessEvent: a completed delivery has been handled by
\* every resolvable handler the event had when its foreach began.
CompletedOnlyWhenHandled ==
  \A d \in Tasks :
    task[d].pc = "completed" =>
      task[d].handled = HandlerTypes(task[d].list) \intersect Resolvable

\* At least once, through lost locks and overlapping redeliveries: a handler
\* subscribed, when the message was published and ever since, to the name its
\* label is looked up by has handled it by the time it is completed.
NoLossWhileSubscribed ==
  \A m \in Msgs : mail[m] = "completed" =>
    (covered[m] \intersect Resolvable) \subseteq HandledBy(m)

\* Every message the subscription lets through is completed, or moved to the
\* dead letters, at last.
RoutedIsSettled ==
  \A m \in Msgs :
    (mail[m] \in {"ready", "held"}) ~> (mail[m] \in {"completed", "dead"})

\* A message is completed only when every handler that was to have it has it.
AtLeastOnce == TypeOK /\ CompletedOnlyWhenHandled /\ NoLossWhileSubscribed
=============================================================================
