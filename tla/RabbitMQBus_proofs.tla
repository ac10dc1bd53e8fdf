-------------------------- MODULE RabbitMQBus_proofs --------------------------
(***************************************************************************)
(* The safety of the RabbitMQ bus for every set of events, handlers and    *)
(* messages and every number of calls and faults: a subscribed event is    *)
(* bound to a queue the bus keeps, a routed message is kept until its      *)
(* handlers have had it, and the calls, taken apart, still implement the   *)
(* registry.                                                               *)
(***************************************************************************)
EXTENDS RabbitMQBus, FiniteSetTheorems, SequenceTheorems, TLAPS

\* The facts about the table's lists.
Lists == INSTANCE SubscriptionsManager_proofs WITH result <- <<>>

(***************************************************************************)
(* The inductive invariant                                                 *)
(***************************************************************************)
CallPcs == {"idle", "bind", "addKey", "append", "addType", "remove", "dropKey",
            "unbind", "close", "dispose", "clear", "over"}

TaskPcs == {"none", "check", "get", "next", "running", "ack", "acked", "ignored", "dead"}

CallRecords == [pc : CallPcs, event : Names \union {"none"},
                handler : Handlers \union {"none"}, types : SUBSET EventTypes]

TaskRecords == [pc : TaskPcs, list : Seq(SM!SubscriptionInfo), pos : Nat,
                stale : BOOLEAN, channel : {"none", "live", "down", "stale", "closed"},
                handled : SUBSET Handlers]

Typed ==
  /\ eventTypes \subseteq EventTypes
  /\ queueName \in {"named", NoQueue}
  /\ consuming \in BOOLEAN /\ up \in BOOLEAN /\ linked \in BOOLEAN
  /\ call \in CallRecords
  /\ task \in [Tasks -> TaskRecords]
  /\ ready \subseteq Msgs /\ acked \subseteq Msgs /\ bindings \subseteq Names
  /\ fate \in [Msgs -> {"unsent", "routed", "unroutable"}]
  /\ calls \in 0..MaxCalls /\ faults \in 0..MaxFaults
  /\ covered \in [Msgs -> SUBSET Handlers]

\* A call between its writes may leave an empty list, but no handler twice.
TableSound ==
  /\ DOMAIN handlers \subseteq Names
  /\ handlers \in [DOMAIN handlers -> Seq(SM!SubscriptionInfo)]
  /\ \A e \in DOMAIN handlers : handlers[e] = <<>> \/ Lists!GoodList(handlers[e])

\* What a call has made sure of by the time of its next write.
CallSound ==
  /\ call.pc \in {"bind", "addKey", "append", "addType", "remove", "dropKey", "unbind"} =>
       call.event \in Names /\ call.handler \in Handlers
  /\ call.pc \in {"addKey", "append"} => call.event \in bindings /\ queueName # NoQueue
  /\ call.pc = "dropKey" => SM!ListOf(call.event) = <<>>
  /\ call.pc = "unbind" => call.event \notin DOMAIN handlers
  /\ call.pc \in {"close", "over"} => DOMAIN handlers = {}

\* The table and the broker, the table and the channel.
BusSound ==
  /\ DOMAIN handlers \subseteq bindings
  /\ ~up => DOMAIN handlers = {} /\ call = Idle
  /\ queueName = NoQueue => DOMAIN handlers = {}

\* The handler types of the first n subscriptions of a list.
Past(list, n) == {list[i].handlerType : i \in 1..n}

\* A task has handled what its foreach has passed; what is covered is on the
\* list it goes through, also when handlers come and go meanwhile.
TaskSound(d) ==
  /\ task[d].pc = "none" => task[d] = NoTask
  /\ task[d].pc # "none" => fate[d[1]] = "routed"
  /\ Live(d) => Active(d)
  /\ task[d].pc \in {"check", "get"} => task[d].list = <<>> /\ task[d].handled = {}
  /\ task[d].pc \in {"next", "running"} =>
       /\ task[d].pos \in 1..(Len(task[d].list) + 1)
       /\ task[d].handled = Past(task[d].list, task[d].pos - 1) \intersect Resolvable
  /\ task[d].pc = "running" =>
       ~AtEnd(d) /\ Current(d).handlerType \in Resolvable
  /\ task[d].pc \in {"ack", "acked"} =>
       task[d].handled = HandlerTypes(task[d].list) \intersect Resolvable
  /\ task[d].pc \in {"next", "running", "ack"} =>
       covered[d[1]] \subseteq HandlerTypes(task[d].list)

\* Where a message is: nowhere, or in exactly one place.
Kept(m) ==
  /\ fate[m] # "routed" => m \notin ready /\ m \notin acked /\ ~Unacked(m)
  /\ fate[m] = "routed" =>
       \/ m \in ready /\ m \notin acked /\ ~Unacked(m)
       \/ m \notin ready /\ m \in acked /\ ~Unacked(m)
       \/ m \notin ready /\ m \notin acked /\ Unacked(m)
  /\ \A d1, d2 \in Tasks : d1[1] = m /\ d2[1] = m /\ Live(d1) /\ Live(d2) => d1 = d2

CoveredSound(m) ==
  /\ covered[m] \subseteq HandlerTypes(SM!ListOf(EventOf[m]))
  /\ m \in acked => covered[m] \intersect Resolvable \subseteq HandledBy(m)

IInv ==
  /\ Typed /\ TableSound /\ CallSound /\ BusSound
  /\ \A d \in Tasks : TaskSound(d)
  /\ \A m \in Msgs : Kept(m) /\ CoveredSound(m)

(***************************************************************************)
(* Lists and their handler types                                           *)
(***************************************************************************)
LEMMA TypesAreListed == \A list : HandlerTypes(list) = Lists!TypesOf(list)
  BY DEF HandlerTypes, Lists!TypesOf

LEMMA EmptyList ==
  /\ <<>> \in Seq(SM!SubscriptionInfo) /\ Len(<<>>) = 0
  /\ HandlerTypes(<<>>) = {} /\ Past(<<>>, 0) = {}
  BY EmptySeq DEF HandlerTypes, Past

\* An event's list, whether or not its key is there.
LEMMA ListIsTyped ==
  ASSUME TableSound, NEW e
  PROVE  /\ SM!ListOf(e) \in Seq(SM!SubscriptionInfo)
         /\ SM!ListOf(e) = <<>> \/ Lists!GoodList(SM!ListOf(e))
         /\ SM!ListOf(e) # <<>> => e \in DOMAIN handlers
  BY EmptyList DEF TableSound, SM!ListOf, SM!HasSubscriptionsForEvent

LEMMA TypesAreHandlers ==
  ASSUME NEW list \in Seq(SM!SubscriptionInfo)
  PROVE  HandlerTypes(list) \subseteq Handlers
<1>1. \A i \in DOMAIN list : list[i] \in SM!SubscriptionInfo
  OBVIOUS
<1>2. \A x \in SM!SubscriptionInfo : x.handlerType \in Handlers
  BY DEF SM!SubscriptionInfo
<1> QED BY <1>1, <1>2 DEF HandlerTypes

\* The foreach passes one subscription at a time, and at the end all of them.
LEMMA PastGrows ==
  ASSUME NEW list \in Seq(SM!SubscriptionInfo), NEW n \in Nat
  PROVE  /\ Past(list, n + 1) = Past(list, n) \union {list[n + 1].handlerType}
         /\ Past(list, 0) = {}
         /\ Past(list, Len(list)) = HandlerTypes(list)
<1>1. 1..(n + 1) = 1..n \union {n + 1} /\ 1..0 = {}
  OBVIOUS
<1>2. Past(list, n + 1) = Past(list, n) \union {list[n + 1].handlerType}
  <2>1. Past(list, n + 1) = {list[i].handlerType : i \in (1..n) \union {n + 1}}
    BY <1>1 DEF Past
  <2> QED BY <2>1 DEF Past
<1>3. Past(list, 0) = {}
  BY <1>1 DEF Past
<1>4. DOMAIN list = 1..Len(list)
  OBVIOUS
<1> QED BY <1>2, <1>3, <1>4 DEF Past, HandlerTypes

(***************************************************************************)
(* Steps that leave the tasks as they are, but for channels and staleness  *)
(***************************************************************************)
\* Nothing that counts of a task changes.
Alike(d) ==
  /\ task'[d].pc = task[d].pc /\ task'[d].list = task[d].list
  /\ task'[d].pos = task[d].pos /\ task'[d].handled = task[d].handled
  /\ Live(d)' => Live(d)
  /\ task[d].pc = "none" => task'[d] = task[d]

LEMMA AlikeIsSound ==
  ASSUME NEW d \in Tasks, TaskSound(d), Alike(d),
         fate[d[1]] = "routed" => fate'[d[1]] = "routed",
         fate[d[1]] = "routed" => covered'[d[1]] \subseteq covered[d[1]]
  PROVE  TaskSound(d)'
<1>1. /\ task'[d].pc = task[d].pc /\ task'[d].list = task[d].list
      /\ task'[d].pos = task[d].pos /\ task'[d].handled = task[d].handled
      /\ AtEnd(d)' <=> AtEnd(d)
      /\ Current(d)' = Current(d)
      /\ Active(d)' <=> Active(d)
  BY DEF Alike, AtEnd, Current, Active
<1>2. task[d].pc # "none" => fate'[d[1]] = "routed" /\ covered'[d[1]] \subseteq covered[d[1]]
  BY DEF TaskSound
<1> QED BY <1>1, <1>2 DEF TaskSound, Alike

LEMMA AlikeIsHandled ==
  ASSUME \A d \in Tasks : task'[d].handled = task[d].handled
  PROVE  \A m : HandledBy(m)' = HandledBy(m)
  BY DEF HandledBy

\* The broker holds what it held if no delivery ends and no message moves.
LEMMA KeptAsBefore ==
  ASSUME \A m \in Msgs : Kept(m), UNCHANGED <<ready, acked, fate>>,
         \A d \in Tasks : Live(d)' <=> Live(d)
  PROVE  \A m \in Msgs : Kept(m)'
<1>1. \A m \in Msgs : Unacked(m)' <=> Unacked(m)
  BY DEF Unacked
<1> QED BY <1>1 DEF Kept

\* A lost channel: what it held is in the queue again.
LEMMA KeptByQueue ==
  ASSUME \A m \in Msgs : Kept(m), ready' = Requeued, UNCHANGED <<acked, fate>>,
         \A d \in Tasks : ~Live(d)'
  PROVE  \A m \in Msgs : Kept(m)'
<1>1. \A m \in Msgs : ~Unacked(m)'
  BY DEF Unacked
<1>2. \A m \in Msgs : m \in ready' <=> m \in ready \/ Unacked(m)
  BY DEF Requeued
<1> QED BY <1>1, <1>2 DEF Kept

\* A record of a task with another channel, or gone stale.
LEMMA TaskWithChannel ==
  ASSUME NEW r \in TaskRecords, NEW c \in {"none", "live", "down", "stale", "closed"},
         NEW s, s = [r EXCEPT !.channel = c]
  PROVE  /\ s \in TaskRecords /\ s.channel = c /\ s.pc = r.pc /\ s.list = r.list
         /\ s.pos = r.pos /\ s.handled = r.handled
  BY DEF TaskRecords

LEMMA TaskGoneStale ==
  ASSUME NEW r \in TaskRecords, NEW s, s = [r EXCEPT !.stale = TRUE]
  PROVE  /\ s \in TaskRecords /\ s.channel = r.channel /\ s.pc = r.pc /\ s.list = r.list
         /\ s.pos = r.pos /\ s.handled = r.handled
  BY DEF TaskRecords

LEMMA ChannelGoneSpares ==
  ASSUME IInv, NEW how \in {"down", "closed"}, ChannelGone(how)
  PROVE  /\ task' \in [Tasks -> TaskRecords]
         /\ \A d \in Tasks : Alike(d)
         /\ \A m \in Msgs : Kept(m)'
         /\ ready' \subseteq Msgs
         /\ UNCHANGED <<acked, bindings, fate>>
<1>1. /\ task' = [d \in Tasks |-> IF Live(d) THEN [task[d] EXCEPT !.channel = how]
                                  ELSE task[d]]
      /\ ready' = Requeued /\ UNCHANGED <<acked, bindings, fate>>
  BY DEF ChannelGone
<1>2. ASSUME NEW d \in Tasks
      PROVE  task'[d] \in TaskRecords /\ Alike(d) /\ ~Live(d)'
  <2>1. task[d] \in TaskRecords /\ TaskSound(d)
    BY DEF IInv, Typed
  <2>2. CASE Live(d)
    <3>1. task'[d] = [task[d] EXCEPT !.channel = how]
      BY <1>1, <2>2
    <3>2. task[d].pc # "none"
      BY <2>1, <2>2 DEF TaskSound, Active
    <3>3. /\ task'[d] \in TaskRecords /\ task'[d].channel = how
          /\ task'[d].pc = task[d].pc /\ task'[d].list = task[d].list
          /\ task'[d].pos = task[d].pos /\ task'[d].handled = task[d].handled
      BY <2>1, <3>1, TaskWithChannel
    <3>4. Alike(d)
      BY <2>2, <3>2, <3>3 DEF Alike
    <3> QED BY <3>3, <3>4 DEF Live
  <2>3. CASE ~Live(d)
    BY <1>1, <2>1, <2>3 DEF Alike, Live
  <2> QED BY <2>2, <2>3
<1>3. task' \in [Tasks -> TaskRecords]
  BY <1>1, <1>2
<1>4. \A m \in Msgs : Kept(m)'
  BY <1>1, <1>2, KeptByQueue DEF IInv
<1>5. ready' \subseteq Msgs
  BY <1>1 DEF Requeued, IInv, Typed
<1> QED BY <1>1, <1>2, <1>3, <1>4, <1>5

LEMMA InvalidatedIsAlike ==
  ASSUME IInv, NEW e, task' = Invalidated(e)
  PROVE  /\ task' \in [Tasks -> TaskRecords]
         /\ \A d \in Tasks : Alike(d) /\ (Live(d)' <=> Live(d))
<1>1. ASSUME NEW d \in Tasks
      PROVE  task'[d] \in TaskRecords /\ Alike(d) /\ (Live(d)' <=> Live(d))
  <2>1. task[d] \in TaskRecords
    BY DEF IInv, Typed
  <2>2. CASE EventOfTask(d) = e /\ task[d].pc \in {"next", "running"}
    <3>1. task'[d] = [task[d] EXCEPT !.stale = TRUE]
      BY <2>2 DEF Invalidated
    <3>2. /\ task'[d] \in TaskRecords /\ task'[d].channel = task[d].channel
          /\ task'[d].pc = task[d].pc /\ task'[d].list = task[d].list
          /\ task'[d].pos = task[d].pos /\ task'[d].handled = task[d].handled
      BY <2>1, <3>1, TaskGoneStale
    <3> QED BY <2>2, <3>2 DEF Alike, Live
  <2>3. CASE ~(EventOfTask(d) = e /\ task[d].pc \in {"next", "running"})
    <3>1. task'[d] = task[d]
      BY <2>3 DEF Invalidated
    <3> QED BY <2>1, <3>1 DEF Alike, Live
  <2> QED BY <2>2, <2>3
<1> QED BY <1>1 DEF Invalidated

LEMMA SameIsAlike ==
  ASSUME UNCHANGED task
  PROVE  \A d \in Tasks : Alike(d) /\ (Live(d)' <=> Live(d))
  BY DEF Alike, Live

\* The tasks and what is covered, when handlers come or go.
LEMMA AlikeKeeps ==
  ASSUME IInv, \A d \in Tasks : Alike(d), UNCHANGED <<acked, fate>>,
         \A m \in Msgs :
           /\ covered'[m] \subseteq covered[m]
           /\ covered'[m] \subseteq HandlerTypes(SM!ListOf(EventOf[m])')
  PROVE  /\ \A d \in Tasks : TaskSound(d)'
         /\ \A m \in Msgs : CoveredSound(m)'
<1>1. \A d \in Tasks : d[1] \in Msgs
  BY DEF Tasks
<1>2. \A d \in Tasks : TaskSound(d)'
  BY <1>1, AlikeIsSound DEF IInv
<1>3. \A m : HandledBy(m)' = HandledBy(m)
  BY AlikeIsHandled DEF Alike
<1>4. \A m \in Msgs : CoveredSound(m)'
  <2> TAKE m \in Msgs
  <2>1. CoveredSound(m) /\ HandledBy(m)' = HandledBy(m)
    BY <1>3 DEF IInv
  <2>2. CoveredSound(m)' <=>
          /\ covered'[m] \subseteq HandlerTypes(SM!ListOf(EventOf[m])')
          /\ m \in acked' => covered'[m] \intersect Resolvable \subseteq HandledBy(m)'
    BY DEF CoveredSound, HandlerTypes
  <2> QED BY <2>1, <2>2 DEF CoveredSound
<1> QED BY <1>2, <1>4

\* Steps of a call that leave the handlers, the tasks and the messages.
LEMMA Unmoved ==
  ASSUME IInv, UNCHANGED <<handlers, task, ready, acked, fate, covered>>
  PROVE  /\ TableSound'
         /\ \A d \in Tasks : TaskSound(d)'
         /\ \A m \in Msgs : Kept(m)' /\ CoveredSound(m)'
<1>1. TableSound'
  BY DEF IInv, TableSound
<1>2. \A m \in Msgs : Kept(m)'
  BY SameIsAlike, KeptAsBefore DEF IInv
<1>3. \A m \in Msgs : SM!ListOf(EventOf[m])' = SM!ListOf(EventOf[m])
  BY DEF SM!ListOf, SM!HasSubscriptionsForEvent
<1>4. \A m \in Msgs : /\ covered'[m] \subseteq covered[m]
                      /\ covered'[m] \subseteq HandlerTypes(SM!ListOf(EventOf[m])')
  BY <1>3 DEF IInv, CoveredSound
<1> QED BY <1>1, <1>2, <1>4, SameIsAlike, AlikeKeeps

(***************************************************************************)
(* Writes of the table                                                     *)
(***************************************************************************)
LEMMA TableStores ==
  ASSUME TableSound, NEW e \in Names, NEW list, list = <<>> \/ Lists!GoodList(list),
         handlers' = SM!WithList(e, list)
  PROVE  /\ TableSound'
         /\ DOMAIN handlers' = DOMAIN handlers \union {e}
         /\ SM!ListOf(e)' = list
         /\ \A n : n # e => SM!ListOf(n)' = SM!ListOf(n)
<1>1. /\ DOMAIN handlers' = DOMAIN handlers \union {e}
      /\ \A n \in DOMAIN handlers' :
           handlers'[n] = IF n = e THEN list ELSE handlers[n]
      /\ handlers' = [n \in DOMAIN handlers' |-> handlers'[n]]
  BY DEF SM!WithList
<1>2. list \in Seq(SM!SubscriptionInfo)
  BY EmptyList DEF Lists!GoodList, Lists!SubscriptionInfo, SM!SubscriptionInfo
<1>3. handlers' \in [DOMAIN handlers' -> Seq(SM!SubscriptionInfo)]
  BY <1>1, <1>2 DEF TableSound
<1>4. TableSound'
  BY <1>1, <1>3 DEF TableSound
<1>5. SM!ListOf(e)' = list /\ \A n : n # e => SM!ListOf(n)' = SM!ListOf(n)
  BY <1>1 DEF SM!ListOf, SM!HasSubscriptionsForEvent
<1> QED BY <1>1, <1>4, <1>5

LEMMA TableDrops ==
  ASSUME TableSound, NEW S \in SUBSET DOMAIN handlers, handlers' = Restrict(handlers, S)
  PROVE  /\ TableSound'
         /\ DOMAIN handlers' = S
         /\ \A n \in S : SM!ListOf(n)' = SM!ListOf(n)
         /\ \A n : n \notin S => SM!ListOf(n)' = <<>>
<1>1. /\ DOMAIN handlers' = S
      /\ \A n \in S : handlers'[n] = handlers[n]
      /\ handlers' = [n \in DOMAIN handlers' |-> handlers'[n]]
  BY DEF Restrict
<1>2. handlers' \in [DOMAIN handlers' -> Seq(SM!SubscriptionInfo)]
  BY <1>1 DEF TableSound
<1>3. TableSound'
  BY <1>1, <1>2 DEF TableSound
<1>4. /\ \A n \in S : SM!ListOf(n)' = SM!ListOf(n)
      /\ \A n : n \notin S => SM!ListOf(n)' = <<>>
  BY <1>1 DEF SM!ListOf, SM!HasSubscriptionsForEvent
<1> QED BY <1>1, <1>3, <1>4

LEMMA TableCleared ==
  ASSUME handlers' = [e \in {} |-> <<>>]
  PROVE  /\ TableSound'
         /\ DOMAIN handlers' = {}
         /\ \A n : SM!ListOf(n)' = <<>>
  BY DEF TableSound, SM!ListOf, SM!HasSubscriptionsForEvent

(***************************************************************************)
(* Subscribe, Unsubscribe, Dispose                                         *)
(***************************************************************************)
\* Where a call stands after Continue.
LEMMA ContinueFacts ==
  ASSUME call \in CallRecords, NEW pc \in CallPcs, Continue(pc)
  PROVE  /\ call' \in CallRecords /\ call'.pc = pc
         /\ pc # "idle" => call'.event = call.event /\ call'.handler = call.handler
                             /\ call'.types = call.types
<1>1. CASE pc = "idle"
  BY <1>1 DEF Continue, Idle, CallRecords, CallPcs
<1>2. CASE pc # "idle"
  BY <1>2 DEF Continue, CallRecords
<1> QED BY <1>1, <1>2

\* Only a process that runs has a call in progress.
LEMMA CallInProgress ==
  ASSUME IInv, call.pc # "idle"
  PROVE  up = TRUE /\ call \in CallRecords
  BY DEF IInv, BusSound, Typed, Idle

LEMMA BeginKeeps ==
  ASSUME IInv, NEW pc \in {"bind", "addKey", "remove", "dispose"}, NEW e, NEW h, NEW T,
         Begin(pc, e, h, T),
         \/ e \in Names /\ h \in Handlers /\ T \subseteq EventTypes
         \/ pc = "dispose" /\ e = "none" /\ h = "none" /\ T = {},
         pc = "addKey" => e \in DOMAIN handlers
  PROVE  IInv'
<1>1. /\ up /\ call.pc = "idle" /\ calls < MaxCalls /\ calls' = calls + 1
      /\ call' = [pc |-> pc, event |-> e, handler |-> h, types |-> T]
      /\ UNCHANGED <<handlers, eventTypes, queueName, consuming, task, ready, bindings,
                     covered, up, linked, acked, fate, faults>>
  BY DEF Begin, table, unchangedByCalls
<1>2. call' \in CallRecords
  BY <1>1 DEF CallRecords, CallPcs
<1>3. calls' \in 0..MaxCalls
  BY <1>1, BoundsAssumption DEF IInv, Typed
<1>4. Typed'
  BY <1>1, <1>2, <1>3 DEF IInv, Typed
<1>5. call'.pc = pc /\ call'.event = e /\ call'.handler = h
  BY <1>1
<1>6. pc = "addKey" => e \in bindings /\ queueName # NoQueue
  BY DEF IInv, BusSound
<1>7. CallSound'
  BY <1>1, <1>5, <1>6 DEF CallSound
<1>8. BusSound'
  BY <1>1, <1>5 DEF IInv, BusSound
<1> QED BY <1>1, <1>4, <1>7, <1>8, Unmoved DEF IInv

LEMMA SubscribeKeeps ==
  ASSUME IInv, Subscribe \/ Unsubscribe \/ Dispose
  PROVE  IInv'
<1>1. CASE Subscribe
  <2>1. PICK x \in Targets, h \in Handlers :
          Begin(IF SM!HasSubscriptionsForEvent(x.e) THEN "addKey" ELSE "bind", x.e, h, x.T)
    BY <1>1 DEF Subscribe
  <2>2. x.e \in Names /\ x.T \subseteq EventTypes
    BY NameOfAssumption DEF Targets
  <2> QED BY <2>1, <2>2, BeginKeeps DEF SM!HasSubscriptionsForEvent
<1>2. CASE Unsubscribe
  BY <1>2, BeginKeeps DEF Unsubscribe
<1>3. CASE Dispose
  BY <1>3, BeginKeeps DEF Dispose
<1> QED BY <1>1, <1>2, <1>3

\* The writes that leave the handlers: of the broker's bindings and the types.
LEMMA BindKeeps ==
  ASSUME IInv, Bind \/ AddType \/ Unbind
  PROVE  IInv'
<1>1. /\ call.pc \in {"bind", "addType", "unbind"}
      /\ UNCHANGED <<handlers, queueName, consuming, task, ready, calls, covered,
                     up, linked, acked, fate, faults>>
  BY DEF Bind, AddType, Unbind, table, unchangedByCalls
<1>2. up = TRUE /\ call \in CallRecords
  BY <1>1, CallInProgress
<1>3. CASE Bind /\ Continue("addKey")
  <2>1. /\ bindings' = bindings \union {call.event} /\ queueName # NoQueue
        /\ UNCHANGED eventTypes /\ call.pc = "bind"
    BY <1>2, <1>3, ContinueFacts DEF Bind, Return, NoQueue, table, CallPcs
  <2>2. call' \in CallRecords /\ call'.pc = "addKey" /\ call'.event = call.event
        /\ call'.handler = call.handler
    BY <1>2, <1>3, ContinueFacts DEF CallPcs
  <2>3. call.event \in Names /\ call.handler \in Handlers
    BY <2>1 DEF IInv, CallSound
  <2>4. Typed'
    BY <1>1, <2>1, <2>2, <2>3 DEF IInv, Typed
  <2>5. CallSound'
    BY <1>1, <2>1, <2>2, <2>3 DEF CallSound
  <2>6. BusSound'
    BY <1>1, <1>2, <2>1, <2>2 DEF IInv, BusSound
  <2> QED BY <1>1, <2>4, <2>5, <2>6, Unmoved DEF IInv
<1>4. CASE Return /\ UNCHANGED bindings /\ eventTypes' \subseteq EventTypes
  <2>1. call' \in CallRecords /\ call'.pc = "idle"
    BY <1>2, <1>4, ContinueFacts DEF Return, CallPcs
  <2>2. Typed'
    BY <1>1, <1>4, <2>1 DEF IInv, Typed
  <2>3. CallSound'
    BY <2>1 DEF CallSound
  <2>4. BusSound'
    BY <1>1, <1>2, <1>4, <2>1 DEF IInv, BusSound
  <2> QED BY <1>1, <2>2, <2>3, <2>4, Unmoved DEF IInv
<1>5. CASE Unbind /\ Continue(AfterUnbinding)
  <2>1. /\ bindings' \subseteq bindings /\ bindings \ {call.event} \subseteq bindings'
        /\ UNCHANGED eventTypes /\ call.pc = "unbind"
    BY <1>5 DEF Unbind, table
  <2>2. call.event \notin DOMAIN handlers
    BY <2>1 DEF IInv, CallSound
  <2>3. /\ call' \in CallRecords /\ call'.pc \in {"close", "idle"}
        /\ call'.pc = "close" => DOMAIN handlers = {}
    BY <1>2, <1>5, ContinueFacts DEF AfterUnbinding, SM!IsEmpty, CallPcs
  <2>4. Typed'
    BY <1>1, <2>1, <2>3 DEF IInv, Typed
  <2>5. CallSound'
    BY <1>1, <2>3 DEF CallSound
  <2>6. BusSound'
    BY <1>1, <1>2, <2>1, <2>2, <2>3 DEF IInv, BusSound
  <2> QED BY <1>1, <2>4, <2>5, <2>6, Unmoved DEF IInv
<1>6. CASE AddType
  <2>1. Return /\ UNCHANGED bindings /\ eventTypes' = eventTypes \union call.types
    BY <1>6 DEF AddType
  <2>2. eventTypes' \subseteq EventTypes
    BY <1>2, <2>1 DEF IInv, Typed, CallRecords
  <2> QED BY <1>4, <2>1, <2>2
<1>7. CASE Bind
  BY <1>3, <1>4, <1>7 DEF Bind, table, IInv, Typed
<1>8. CASE Unbind
  BY <1>4, <1>5, <1>8 DEF Unbind, table, IInv, Typed
<1> QED BY <1>6, <1>7, <1>8

\* The writes of the handlers: the table, the tasks and what is covered are
\* sound, the call is, and the bus sees no key it has not bound.
LEMMA WriteKeeps ==
  ASSUME IInv, call.pc \in {"addKey", "append", "remove", "dropKey", "clear"},
         UNCHANGED <<queueName, consuming, up, linked, ready, acked, bindings, fate,
                     calls, faults>>,
         call' \in CallRecords, CallSound', TableSound',
         eventTypes' \subseteq EventTypes,
         task' \in [Tasks -> TaskRecords],
         \A d \in Tasks : Alike(d) /\ (Live(d)' <=> Live(d)),
         covered' \in [Msgs -> SUBSET Handlers],
         \A m \in Msgs : /\ covered'[m] \subseteq covered[m]
                         /\ covered'[m] \subseteq HandlerTypes(SM!ListOf(EventOf[m])'),
         DOMAIN handlers' \subseteq bindings,
         queueName = NoQueue => DOMAIN handlers' = {},
         call.pc = "clear" => call'.pc = "over"
  PROVE  IInv'
<1>1. up = TRUE
  BY CallInProgress
<1>2. Typed'
  BY DEF IInv, Typed
<1>3. BusSound'
  BY <1>1 DEF IInv, BusSound
<1>4. \A m \in Msgs : Kept(m)'
  BY KeptAsBefore DEF IInv
<1>5. /\ \A d \in Tasks : TaskSound(d)'
      /\ \A m \in Msgs : CoveredSound(m)'
  BY AlikeKeeps
<1> QED BY <1>2, <1>3, <1>4, <1>5 DEF IInv

LEMMA CoveredIsListed ==
  ASSUME IInv, NEW m \in Msgs
  PROVE  /\ covered[m] \subseteq HandlerTypes(SM!ListOf(EventOf[m]))
         /\ covered[m] \subseteq Handlers
  BY DEF IInv, CoveredSound, Typed

LEMMA AddKeyKeeps ==
  ASSUME IInv, AddKey
  PROVE  IInv'
<1>1. /\ call.pc = "addKey" /\ Continue("append")
      /\ handlers' = SM!WithList(call.event, SM!ListOf(call.event))
      /\ UNCHANGED <<eventTypes, queueName, consuming, up, linked, task, ready, acked,
                     bindings, fate, calls, faults, covered>>
  BY DEF AddKey, unchangedByCalls
<1>2. /\ call.event \in Names /\ call.handler \in Handlers
      /\ call.event \in bindings /\ queueName # NoQueue
  BY <1>1 DEF IInv, CallSound
<1>3. /\ call' \in CallRecords /\ call'.pc = "append"
      /\ call'.event = call.event /\ call'.handler = call.handler
  BY <1>1, CallInProgress, ContinueFacts DEF CallPcs
<1>4. /\ TableSound' /\ DOMAIN handlers' = DOMAIN handlers \union {call.event}
      /\ \A n : SM!ListOf(n)' = SM!ListOf(n)
  BY <1>1, <1>2, TableStores, ListIsTyped DEF IInv
<1>5. CallSound'
  BY <1>1, <1>2, <1>3 DEF CallSound
<1>6. \A m \in Msgs : covered'[m] \subseteq HandlerTypes(SM!ListOf(EventOf[m])')
  BY <1>1, <1>4, CoveredIsListed
<1>7. DOMAIN handlers' \subseteq bindings
  BY <1>2, <1>4 DEF IInv, BusSound
<1>8. /\ eventTypes' \subseteq EventTypes /\ task' \in [Tasks -> TaskRecords]
      /\ covered' \in [Msgs -> SUBSET Handlers]
  BY <1>1 DEF IInv, Typed
<1> QED BY <1>1, <1>2, <1>3, <1>4, <1>5, <1>6, <1>7, <1>8, SameIsAlike, WriteKeeps

\* What AppendHandler does to an event's list.
LEMMA AppendedList ==
  ASSUME TableSound, NEW e, NEW h \in Handlers, NEW dynamic \in BOOLEAN,
         ~SM!AlreadyRegistered(e, h)
  PROVE  /\ Lists!GoodList(SM!Appended(e, h, dynamic))
         /\ HandlerTypes(SM!Appended(e, h, dynamic)) = HandlerTypes(SM!ListOf(e)) \union {h}
<1> DEFINE list == SM!ListOf(e)
           info == [isDynamic |-> dynamic, handlerType |-> h]
<1>1. list \in Seq(SM!SubscriptionInfo) /\ (list = <<>> \/ Lists!GoodList(list))
  BY ListIsTyped
<1>2. \A i \in DOMAIN list : list[i].handlerType # h
  BY DEF SM!AlreadyRegistered, SM!Matches
<1>3. SM!Appended(e, h, dynamic) = Append(list, info)
  BY DEF SM!Appended
<1>4. info \in SM!SubscriptionInfo /\ info.handlerType = h
  BY DEF SM!SubscriptionInfo
<1>5. SM!SubscriptionInfo = Lists!SubscriptionInfo
  BY DEF SM!SubscriptionInfo, Lists!SubscriptionInfo
<1> HIDE DEF list
<1>6. Lists!GoodList(Append(list, info))
  BY <1>1, <1>2, NameOfAssumption, Lists!AppendKeepsGood
<1> HIDE DEF info
<1>7. Lists!TypesOf(Append(list, info)) = Lists!TypesOf(list) \union {info.handlerType}
  BY <1>1, <1>4, <1>5, NameOfAssumption, Lists!AppendAddsType
<1> QED BY <1>3, <1>4, <1>6, <1>7, TypesAreListed DEF list

LEMMA AppendKeeps ==
  ASSUME IInv, AppendHandler
  PROVE  IInv'
<1>1. /\ call.pc = "append"
      /\ UNCHANGED <<eventTypes, queueName, consuming, up, linked, ready, acked,
                     bindings, fate, calls, faults, covered>>
  BY DEF AppendHandler, unchangedByCalls
<1>2. /\ call.event \in Names /\ call.handler \in Handlers
      /\ call.event \in bindings /\ queueName # NoQueue
  BY <1>1 DEF IInv, CallSound
<1>3. /\ eventTypes' \subseteq EventTypes /\ covered' \in [Msgs -> SUBSET Handlers]
  BY <1>1 DEF IInv, Typed
<1>4. call \in CallRecords
  BY <1>1, CallInProgress
<1>5. CASE Return /\ UNCHANGED <<handlers, task>>
  <2>1. call' \in CallRecords /\ call'.pc = "idle"
    BY <1>4, <1>5, ContinueFacts DEF Return, CallPcs
  <2>2. TableSound' /\ task' \in [Tasks -> TaskRecords]
    BY <1>5 DEF IInv, TableSound, Typed
  <2>3. \A m \in Msgs : covered'[m] \subseteq HandlerTypes(SM!ListOf(EventOf[m])')
    BY <1>1, <1>5, CoveredIsListed DEF SM!ListOf, SM!HasSubscriptionsForEvent
  <2>4. DOMAIN handlers' \subseteq bindings
    BY <1>5 DEF IInv, BusSound
  <2>5. CallSound'
    BY <2>1 DEF CallSound
  <2> QED BY <1>1, <1>2, <1>3, <1>5, <2>1, <2>2, <2>3, <2>4, <2>5, SameIsAlike, WriteKeeps
<1>6. CASE /\ ~SM!AlreadyRegistered(call.event, call.handler)
           /\ handlers' = SM!WithList(call.event, WithHandler(call.event, call.handler))
           /\ task' = Invalidated(call.event)
           /\ Continue(IF call.types = {} THEN "idle" ELSE "addType")
  <2>0. PICK e \in Names : e = call.event
    BY <1>2
  <2> DEFINE list == WithHandler(e, call.handler)
  <2>1. /\ Lists!GoodList(list)
        /\ HandlerTypes(list) = HandlerTypes(SM!ListOf(e)) \union {call.handler}
    <3>1. (call.types = {}) \in BOOLEAN
      OBVIOUS
    <3> QED BY <1>2, <1>6, <2>0, <3>1, AppendedList DEF WithHandler, IInv
  <2>2. handlers' = SM!WithList(e, list)
    BY <1>6, <2>0
  <2> HIDE DEF list
  <2>3. /\ TableSound' /\ DOMAIN handlers' = DOMAIN handlers \union {e}
        /\ SM!ListOf(e)' = list
        /\ \A n : n # e => SM!ListOf(n)' = SM!ListOf(n)
    BY <2>1, <2>2, TableStores DEF IInv
  <2>4. /\ call' \in CallRecords /\ call'.pc \in {"idle", "addType"}
        /\ call'.pc = "addType" => call'.event = call.event /\ call'.handler = call.handler
    BY <1>4, <1>6, ContinueFacts DEF CallPcs
  <2>5. CallSound'
    BY <1>2, <2>4 DEF CallSound
  <2>6. \A m \in Msgs : covered'[m] \subseteq HandlerTypes(SM!ListOf(EventOf[m])')
    <3> TAKE m \in Msgs
    <3>1. covered'[m] \subseteq HandlerTypes(SM!ListOf(EventOf[m]))
      BY <1>1, CoveredIsListed
    <3>2. CASE EventOf[m] = e
      <4>1. SM!ListOf(EventOf[m])' = list
        BY <2>3, <3>2
      <4> QED BY <2>1, <3>1, <3>2, <4>1
    <3>3. CASE EventOf[m] # e
      <4>1. SM!ListOf(EventOf[m])' = SM!ListOf(EventOf[m])
        BY <2>3, <3>3
      <4> QED BY <3>1, <4>1
    <3> QED BY <3>2, <3>3
  <2>7. DOMAIN handlers' \subseteq bindings
    BY <1>2, <2>0, <2>3 DEF IInv, BusSound
  <2> QED BY <1>1, <1>2, <1>3, <1>6, <2>3, <2>4, <2>5, <2>6, <2>7, InvalidatedIsAlike,
            WriteKeeps
<1> QED BY <1>5, <1>6 DEF AppendHandler

\* What List.Remove leaves of a list of distinct handlers.
LEMMA RemovedList ==
  ASSUME TableSound, NEW e, NEW h, NEW i \in SM!Matches(e, h)
  PROVE  /\ e \in DOMAIN handlers /\ SM!ListOf(e) = handlers[e]
         /\ HandlerTypes(Remaining(e, i)) = HandlerTypes(SM!ListOf(e)) \ {h}
         /\ SM!OthersRemain(e) => Lists!GoodList(Remaining(e, i))
         /\ ~SM!OthersRemain(e) => Remaining(e, i) = <<>>
<1> DEFINE list == handlers[e]
<1>1. i \in DOMAIN SM!ListOf(e) /\ SM!ListOf(e)[i].handlerType = h
  BY DEF SM!Matches
<1>2. SM!ListOf(e) # <<>>
  BY <1>1
<1>3. e \in DOMAIN handlers /\ SM!ListOf(e) = list /\ Lists!GoodList(list)
  BY <1>2, ListIsTyped DEF SM!ListOf, SM!HasSubscriptionsForEvent
<1>4. list \in Seq(SM!SubscriptionInfo)
  BY <1>3 DEF TableSound
<1>5. i \in 1..Len(list) /\ DOMAIN list = 1..Len(list) /\ list[i].handlerType = h
      /\ Len(list) \in Nat
  BY <1>1, <1>3, <1>4
<1>6. SM!SubscriptionInfo = Lists!SubscriptionInfo
  BY DEF SM!SubscriptionInfo, Lists!SubscriptionInfo
<1>7. Remaining(e, i) = Lists!RemoveAt(list, i)
  BY DEF Remaining, RemoveAt, Lists!RemoveAt
<1>8. Lists!Distinct(list)
  BY <1>3, <1>5 DEF Lists!Distinct, Lists!GoodList
<1> HIDE DEF list
<1>9. Lists!TypesOf(Lists!RemoveAt(list, i)) = Lists!TypesOf(list) \ {list[i].handlerType}
  BY <1>4, <1>5, <1>6, <1>8, NameOfAssumption, Lists!RemoveAtDropsType
<1>10. HandlerTypes(Remaining(e, i)) = HandlerTypes(SM!ListOf(e)) \ {h}
  BY <1>3, <1>5, <1>7, <1>9, TypesAreListed
<1>11. CASE SM!OthersRemain(e)
  <2>1. Len(list) > 1
    BY <1>11 DEF SM!OthersRemain, list
  <2>2. Lists!GoodList(Lists!RemoveAt(list, i))
    BY <1>3, <1>5, <2>1, NameOfAssumption, Lists!RemoveAtKeepsGood
  <2> QED BY <1>3, <1>7, <1>11, <1>10, <2>2 DEF list
<1>12. CASE ~SM!OthersRemain(e)
  <2>1. ~(Len(list) > 1)
    BY <1>12 DEF SM!OthersRemain, list
  <2>2. Len(list) = 1
    BY <1>5, <2>1
  <2>3. /\ Lists!RemoveAt(list, i) \in Seq(SM!SubscriptionInfo)
        /\ Len(Lists!RemoveAt(list, i)) = Len(list) - 1
    BY <1>4, <1>5, NameOfAssumption, Lists!RemoveAtFacts
  <2> DEFINE rest == Lists!RemoveAt(list, i)
  <2>4. rest \in Seq(SM!SubscriptionInfo) /\ Len(rest) = 0
    BY <2>2, <2>3
  <2> HIDE DEF rest
  <2>5. rest = <<>>
    BY <2>4
  <2>6. Remaining(e, i) = <<>>
    BY <1>7, <2>5 DEF rest
  <2> QED BY <1>3, <1>12, <1>10, <2>6 DEF list
<1> QED BY <1>11, <1>12

LEMMA RemoveKeeps ==
  ASSUME IInv, RemoveHandler
  PROVE  IInv'
<1>1. /\ call.pc = "remove"
      /\ UNCHANGED <<eventTypes, queueName, consuming, up, linked, ready, acked,
                     bindings, fate, calls, faults>>
  BY DEF RemoveHandler, unchangedByCalls
<1>2. call.event \in Names /\ call.handler \in Handlers
  BY <1>1 DEF IInv, CallSound
<1>3. eventTypes' \subseteq EventTypes /\ covered \in [Msgs -> SUBSET Handlers]
  BY <1>1 DEF IInv, Typed
<1>4. call \in CallRecords
  BY <1>1, CallInProgress
<1>5. CASE Return /\ UNCHANGED <<handlers, task, covered>>
  <2>1. call' \in CallRecords /\ call'.pc = "idle"
    BY <1>4, <1>5, ContinueFacts DEF Return, CallPcs
  <2>2. TableSound' /\ task' \in [Tasks -> TaskRecords]
    BY <1>5 DEF IInv, TableSound, Typed
  <2>3. \A m \in Msgs : covered'[m] \subseteq HandlerTypes(SM!ListOf(EventOf[m])')
    BY <1>5, CoveredIsListed DEF SM!ListOf, SM!HasSubscriptionsForEvent
  <2>4. DOMAIN handlers' \subseteq bindings /\ (queueName = NoQueue => DOMAIN handlers' = {})
    BY <1>5 DEF IInv, BusSound
  <2>5. CallSound'
    BY <2>1 DEF CallSound
  <2> QED BY <1>1, <1>3, <1>5, <2>1, <2>2, <2>3, <2>4, <2>5, SameIsAlike, WriteKeeps
<1>6. ASSUME NEW i \in SM!Matches(call.event, call.handler),
             handlers' = SM!WithList(call.event, Remaining(call.event, i)),
             task' = Invalidated(call.event),
             covered' = CoveredWithout(call.event, {call.handler}),
             Continue(AfterRemoval(call.event))
      PROVE  IInv'
  <2>0. PICK e \in Names : e = call.event
    BY <1>2
  <2> DEFINE list == Remaining(e, i)
  <2>1. /\ e \in DOMAIN handlers
        /\ HandlerTypes(list) = HandlerTypes(SM!ListOf(e)) \ {call.handler}
        /\ SM!OthersRemain(e) => Lists!GoodList(list)
        /\ ~SM!OthersRemain(e) => list = <<>>
    BY <1>6, <2>0, RemovedList DEF IInv
  <2>2. handlers' = SM!WithList(e, list)
    BY <1>6, <2>0
  <2> HIDE DEF list
  <2>3. /\ TableSound' /\ DOMAIN handlers' = DOMAIN handlers \union {e}
        /\ SM!ListOf(e)' = list
        /\ \A n : n # e => SM!ListOf(n)' = SM!ListOf(n)
    BY <2>1, <2>2, TableStores DEF IInv
  <2>4. /\ call' \in CallRecords /\ call'.pc \in {"idle", "dropKey"}
        /\ call'.pc = "dropKey" => /\ ~SM!OthersRemain(e) /\ call'.event = e
                                   /\ call'.handler = call.handler
    BY <1>4, <1>6, <2>0, ContinueFacts DEF CallPcs, AfterRemoval
  <2>5. CallSound'
    <3>1. call'.pc = "dropKey" => SM!ListOf(e)' = <<>> /\ call'.event = e
      BY <2>1, <2>3, <2>4
    <3>2. call'.pc = "dropKey" => SM!ListOf(call.event)' = <<>>
      BY <3>1 DEF SM!ListOf, SM!HasSubscriptionsForEvent
    <3> QED BY <1>2, <2>4, <3>2 DEF CallSound
  <2>6. \A m \in Msgs : /\ covered'[m] \subseteq covered[m]
                        /\ EventOf[m] = e => covered'[m] = covered[m] \ {call.handler}
    BY <1>6, <2>0 DEF CoveredWithout
  <2>7. \A m \in Msgs : covered'[m] \subseteq HandlerTypes(SM!ListOf(EventOf[m])')
    <3> TAKE m \in Msgs
    <3>1. covered[m] \subseteq HandlerTypes(SM!ListOf(EventOf[m]))
      BY CoveredIsListed
    <3>2. CASE EventOf[m] = e
      <4>1. SM!ListOf(EventOf[m])' = list
        BY <2>3, <3>2
      <4> QED BY <2>1, <2>6, <3>1, <3>2, <4>1
    <3>3. CASE EventOf[m] # e
      <4>1. SM!ListOf(EventOf[m])' = SM!ListOf(EventOf[m])
        BY <2>3, <3>3
      <4> QED BY <2>6, <3>1, <4>1
    <3> QED BY <3>2, <3>3
  <2>8. DOMAIN handlers' \subseteq bindings /\ (queueName = NoQueue => DOMAIN handlers' = {})
    BY <2>1, <2>3 DEF IInv, BusSound
  <2>9. covered' \in [Msgs -> SUBSET Handlers]
    BY <1>3, <1>6 DEF CoveredWithout
  <2> QED BY <1>1, <1>3, <1>6, <2>3, <2>4, <2>5, <2>6, <2>7, <2>8, <2>9,
            InvalidatedIsAlike, WriteKeeps
<1> QED BY <1>5, <1>6 DEF RemoveHandler

LEMMA DropKeyKeeps ==
  ASSUME IInv, DropKey
  PROVE  IInv'
<1>1. /\ call.pc = "dropKey"
      /\ handlers' = Restrict(handlers, DOMAIN handlers \ {call.event})
      /\ eventTypes' \subseteq eventTypes
      /\ Return \/ Continue("unbind")
      /\ UNCHANGED <<queueName, consuming, up, linked, task, ready, acked, bindings, fate,
                     calls, faults, covered>>
  BY DEF DropKey, unchangedByCalls
<1>2. /\ call.event \in Names /\ call.handler \in Handlers
      /\ SM!ListOf(call.event) = <<>>
  BY <1>1 DEF IInv, CallSound
<1>3. PICK e \in Names : e = call.event
  BY <1>2
<1>4. /\ TableSound' /\ DOMAIN handlers' = DOMAIN handlers \ {e}
      /\ \A n : SM!ListOf(n)' = SM!ListOf(n)
  <2>1. DOMAIN handlers \ {e} \in SUBSET DOMAIN handlers
    OBVIOUS
  <2>2. handlers' = Restrict(handlers, DOMAIN handlers \ {e})
    BY <1>1, <1>3
  <2>3. /\ TableSound' /\ DOMAIN handlers' = DOMAIN handlers \ {e}
        /\ \A n \in DOMAIN handlers \ {e} : SM!ListOf(n)' = SM!ListOf(n)
        /\ \A n : n \notin DOMAIN handlers \ {e} => SM!ListOf(n)' = <<>>
    BY <2>1, <2>2, TableDrops DEF IInv
  <2>4. \A n : n \notin DOMAIN handlers \ {e} => SM!ListOf(n) = <<>>
    BY <1>2, <1>3 DEF SM!ListOf, SM!HasSubscriptionsForEvent
  <2> QED BY <2>3, <2>4
<1>5. /\ call' \in CallRecords /\ call'.pc \in {"idle", "unbind"}
      /\ call'.pc = "unbind" => call'.event = e /\ call'.handler = call.handler
  BY <1>1, <1>3, CallInProgress, ContinueFacts DEF Return, CallPcs
<1>6. CallSound'
  BY <1>2, <1>4, <1>5 DEF CallSound
<1>7. \A m \in Msgs : covered'[m] \subseteq HandlerTypes(SM!ListOf(EventOf[m])')
  BY <1>1, <1>4, CoveredIsListed
<1>8. DOMAIN handlers' \subseteq bindings /\ (queueName = NoQueue => DOMAIN handlers' = {})
  BY <1>4 DEF IInv, BusSound
<1>9. /\ eventTypes' \subseteq EventTypes /\ task' \in [Tasks -> TaskRecords]
      /\ covered' \in [Msgs -> SUBSET Handlers]
  BY <1>1 DEF IInv, Typed
<1> QED BY <1>1, <1>4, <1>5, <1>6, <1>7, <1>8, <1>9, SameIsAlike, WriteKeeps

LEMMA ClearKeeps ==
  ASSUME IInv, ClearTable
  PROVE  IInv'
<1>1. /\ call.pc = "clear" /\ Continue("over")
      /\ handlers' = [e \in {} |-> <<>>] /\ covered' = [m \in Msgs |-> {}]
      /\ UNCHANGED <<eventTypes, queueName, consuming, up, linked, task, ready, acked,
                     bindings, fate, calls, faults>>
  BY DEF ClearTable, unchangedByCalls
<1>2. TableSound' /\ DOMAIN handlers' = {}
  BY <1>1, TableCleared
<1>3. call' \in CallRecords /\ call'.pc = "over"
  BY <1>1, CallInProgress, ContinueFacts DEF CallPcs
<1>4. CallSound'
  BY <1>2, <1>3 DEF CallSound
<1>5. /\ covered' \in [Msgs -> SUBSET Handlers]
      /\ \A m \in Msgs : covered'[m] = {}
  BY <1>1
<1>6. /\ eventTypes' \subseteq EventTypes /\ task' \in [Tasks -> TaskRecords]
  BY <1>1 DEF IInv, Typed
<1> QED BY <1>1, <1>2, <1>3, <1>4, <1>5, <1>6, SameIsAlike, WriteKeeps

\* The consumer channel closes: after the last unsubscription, or for good.
LEMMA CloseKeeps ==
  ASSUME IInv, CloseChannel \/ DisposeChannel
  PROVE  IInv'
<1>1. /\ ChannelGone("closed") /\ consuming' = FALSE
      /\ UNCHANGED <<handlers, eventTypes, up, linked, calls, faults, covered>>
  BY DEF CloseChannel, DisposeChannel, table
<1>2. /\ task' \in [Tasks -> TaskRecords]
      /\ \A d \in Tasks : Alike(d)
      /\ \A m \in Msgs : Kept(m)'
      /\ ready' \subseteq Msgs
      /\ UNCHANGED <<acked, bindings, fate>>
  BY <1>1, ChannelGoneSpares
<1>3. /\ \A d \in Tasks : TaskSound(d)'
      /\ \A m \in Msgs : CoveredSound(m)'
  <2>1. \A m \in Msgs : covered'[m] \subseteq HandlerTypes(SM!ListOf(EventOf[m])')
    BY <1>1, CoveredIsListed DEF SM!ListOf, SM!HasSubscriptionsForEvent
  <2> QED BY <1>1, <1>2, <2>1, AlikeKeeps
<1>4. TableSound'
  BY <1>1 DEF IInv, TableSound
<1>5. /\ call' \in CallRecords /\ queueName' \in {"named", NoQueue}
      /\ up = TRUE
      /\ \/ call'.pc = "idle" /\ queueName' = NoQueue /\ DOMAIN handlers = {}
         \/ call'.pc = "clear" /\ queueName' = queueName
  <2>1. CASE CloseChannel
    <3>1. call.pc = "close" /\ Return /\ queueName' = NoQueue
      BY <2>1 DEF CloseChannel
    <3> QED BY <3>1, CallInProgress, ContinueFacts DEF Return, CallPcs, IInv, CallSound
  <2>2. CASE DisposeChannel
    <3>1. call.pc = "dispose" /\ Continue("clear") /\ queueName' = queueName
      BY <2>2 DEF DisposeChannel
    <3> QED BY <3>1, CallInProgress, ContinueFacts DEF CallPcs, IInv, Typed
  <2> QED BY <2>1, <2>2
<1>6. Typed'
  BY <1>1, <1>2, <1>5 DEF IInv, Typed
<1>7. CallSound'
  BY <1>5 DEF CallSound
<1>8. BusSound'
  BY <1>1, <1>2, <1>5 DEF IInv, BusSound
<1> QED BY <1>2, <1>3, <1>4, <1>6, <1>7, <1>8 DEF IInv

LEMMA CallKeeps ==
  ASSUME IInv, Call
  PROVE  IInv'
BY SubscribeKeeps, BindKeeps, AddKeyKeeps, AppendKeeps, RemoveKeeps, DropKeyKeeps,
   ClearKeeps, CloseKeeps DEF Call

(***************************************************************************)
(* Lost channels, lost processes, publications                             *)
(***************************************************************************)
LEMMA FaultsStay ==
  ASSUME IInv, Fault \/ UNCHANGED faults
  PROVE  faults' \in 0..MaxFaults
  BY BoundsAssumption DEF Fault, IInv, Typed

\* A channel lost under the tasks, with the link or to an exception.
LEMMA LossKeeps ==
  ASSUME IInv, LinkLost \/ ConsumerChannelReplaced
  PROVE  IInv'
<1>1. PICK how \in {"down", "closed"} : ChannelGone(how)
  BY DEF LinkLost, ConsumerChannelReplaced
<1>2. /\ linked' \in BOOLEAN /\ consuming' \in BOOLEAN
      /\ UNCHANGED <<handlers, eventTypes, queueName, up, call, calls, covered>>
  BY DEF LinkLost, ConsumerChannelReplaced, table, channel, IInv, Typed
<1>3. /\ task' \in [Tasks -> TaskRecords]
      /\ \A d \in Tasks : Alike(d)
      /\ \A m \in Msgs : Kept(m)'
      /\ ready' \subseteq Msgs
      /\ UNCHANGED <<acked, bindings, fate>>
  BY <1>1, ChannelGoneSpares
<1>4. /\ \A d \in Tasks : TaskSound(d)'
      /\ \A m \in Msgs : CoveredSound(m)'
  <2>1. \A m \in Msgs : covered'[m] \subseteq HandlerTypes(SM!ListOf(EventOf[m])')
    BY <1>2, CoveredIsListed DEF SM!ListOf, SM!HasSubscriptionsForEvent
  <2> QED BY <1>2, <1>3, <2>1, AlikeKeeps
<1>5. TableSound'
  BY <1>2 DEF IInv, TableSound
<1>6. Typed'
  <2>1. faults' \in 0..MaxFaults
    BY FaultsStay DEF LinkLost, ConsumerChannelReplaced
  <2> QED BY <1>2, <1>3, <2>1 DEF IInv, Typed
<1>7. CallSound'
  <2>1. SM!ListOf(call.event)' = SM!ListOf(call.event)
    BY <1>2 DEF SM!ListOf, SM!HasSubscriptionsForEvent
  <2> QED BY <1>2, <1>3, <2>1 DEF IInv, CallSound
<1>8. BusSound'
  BY <1>2, <1>3 DEF IInv, BusSound, Idle
<1> QED BY <1>3, <1>4, <1>5, <1>6, <1>7, <1>8 DEF IInv

LEMMA RecoveryKeeps ==
  ASSUME IInv, LinkRecovered \/ Restart
  PROVE  IInv'
<1>1. /\ linked' \in BOOLEAN /\ consuming' \in BOOLEAN /\ up' \in BOOLEAN
      /\ \/ UNCHANGED <<consuming, up>>
         \/ ~up /\ up' = TRUE /\ consuming' = TRUE
      /\ UNCHANGED <<handlers, eventTypes, queueName, call, ready, acked, bindings, fate,
                     calls, faults, covered>>
  BY DEF LinkRecovered, Restart, table, broker, IInv, Typed
<1>2. /\ task' \in [Tasks -> TaskRecords]
      /\ \A d \in Tasks : Alike(d) /\ (Live(d)' <=> Live(d))
  <2>1. CASE Restart
    BY <2>1, SameIsAlike DEF Restart, IInv, Typed
  <2>2. CASE LinkRecovered
    <3>1. task' = [d \in Tasks |-> IF task[d].channel = "down"
                                   THEN [task[d] EXCEPT !.channel = "stale"] ELSE task[d]]
      BY <2>2 DEF LinkRecovered
    <3>2. ASSUME NEW d \in Tasks
          PROVE  task'[d] \in TaskRecords /\ Alike(d) /\ (Live(d)' <=> Live(d))
      <4>1. task[d] \in TaskRecords /\ TaskSound(d)
        BY DEF IInv, Typed
      <4>2. CASE task[d].channel = "down"
        <5>1. task'[d] = [task[d] EXCEPT !.channel = "stale"]
          BY <3>1, <4>2
        <5>2. /\ task'[d] \in TaskRecords /\ task'[d].channel = "stale"
              /\ task'[d].pc = task[d].pc /\ task'[d].list = task[d].list
              /\ task'[d].pos = task[d].pos /\ task'[d].handled = task[d].handled
          BY <4>1, <5>1, TaskWithChannel
        <5>3. task[d].pc # "none"
          BY <4>1, <4>2 DEF TaskSound, NoTask
        <5> QED BY <4>2, <5>2, <5>3 DEF Alike, Live
      <4>3. CASE task[d].channel # "down"
        BY <3>1, <4>1, <4>3 DEF Alike, Live
      <4> QED BY <4>2, <4>3
    <3> QED BY <3>1, <3>2
  <2> QED BY <2>1, <2>2
<1>3. /\ \A d \in Tasks : TaskSound(d)'
      /\ \A m \in Msgs : CoveredSound(m)'
  <2>1. \A m \in Msgs : covered'[m] \subseteq HandlerTypes(SM!ListOf(EventOf[m])')
    BY <1>1, CoveredIsListed DEF SM!ListOf, SM!HasSubscriptionsForEvent
  <2> QED BY <1>1, <1>2, <2>1, AlikeKeeps
<1>4. \A m \in Msgs : Kept(m)'
  BY <1>1, <1>2, KeptAsBefore DEF IInv
<1>5. TableSound' /\ Typed'
  BY <1>1, <1>2 DEF IInv, TableSound, Typed
<1>6. CallSound'
  <2>1. SM!ListOf(call.event)' = SM!ListOf(call.event)
    BY <1>1 DEF SM!ListOf, SM!HasSubscriptionsForEvent
  <2> QED BY <1>1, <2>1 DEF IInv, CallSound
<1>7. BusSound'
  BY <1>1 DEF IInv, BusSound, Idle
<1> QED BY <1>3, <1>4, <1>5, <1>6, <1>7 DEF IInv

\* A dead process: no table, no call, no task, and nothing held.
LEMMA ProcessDiesKeeps ==
  ASSUME IInv, ProcessDies, Fault \/ UNCHANGED faults
  PROVE  IInv'
<1>1. /\ up' = FALSE /\ consuming' = FALSE /\ queueName' = "named" /\ linked' = TRUE
      /\ handlers' = [e \in {} |-> <<>>] /\ eventTypes' = {}
      /\ call' = Idle /\ ready' = Requeued
      /\ task' = [d \in Tasks |->
           IF Active(d) THEN [task[d] EXCEPT !.pc = "dead", !.channel = "none"] ELSE task[d]]
      /\ covered' = [m \in Msgs |-> {}]
      /\ UNCHANGED <<acked, bindings, fate, calls>>
  BY DEF ProcessDies
<1>2. TableSound' /\ DOMAIN handlers' = {}
  BY <1>1, TableCleared
<1>3. ASSUME NEW d \in Tasks
      PROVE  /\ task'[d] \in TaskRecords /\ ~Live(d)' /\ TaskSound(d)'
             /\ task'[d].handled = task[d].handled
  <2>1. task[d] \in TaskRecords /\ TaskSound(d) /\ d[1] \in Msgs
    BY DEF IInv, Typed, Tasks
  <2>2. CASE Active(d)
    <3>1. task'[d] = [task[d] EXCEPT !.pc = "dead", !.channel = "none"]
      BY <1>1, <2>2
    <3>2. /\ task'[d] \in TaskRecords /\ task'[d].pc = "dead" /\ task'[d].channel = "none"
          /\ task'[d].handled = task[d].handled
      BY <2>1, <3>1 DEF TaskRecords, TaskPcs
    <3>3. fate'[d[1]] = "routed"
      BY <1>1, <2>1, <2>2 DEF TaskSound, Active
    <3> QED BY <3>2, <3>3 DEF TaskSound, Live
  <2>3. CASE ~Active(d)
    <3>1. task'[d] = task[d]
      BY <1>1, <2>3
    <3>2. ~Live(d)'
      BY <2>1, <2>3, <3>1 DEF TaskSound, Live
    <3>3. covered'[d[1]] = {}
      BY <1>1, <2>1
    <3> QED BY <1>1, <2>1, <2>3, <3>1, <3>2, <3>3 DEF TaskSound, Active
  <2> QED BY <2>2, <2>3
<1>4. \A m \in Msgs : Kept(m)'
  BY <1>1, <1>3, KeptByQueue DEF IInv
<1>5. \A m \in Msgs : CoveredSound(m)'
  BY <1>1 DEF CoveredSound
<1>6. Typed'
  <2>1. faults' \in 0..MaxFaults
    BY FaultsStay
  <2>2. call' \in CallRecords
    BY <1>1 DEF Idle, CallRecords, CallPcs
  <2>3. task' \in [Tasks -> TaskRecords]
    BY <1>1, <1>3
  <2>4. ready' \subseteq Msgs
    BY <1>1 DEF Requeued, IInv, Typed
  <2>5. covered' \in [Msgs -> SUBSET Handlers]
    BY <1>1
  <2> QED BY <1>1, <2>1, <2>2, <2>3, <2>4, <2>5 DEF IInv, Typed
<1>7. CallSound' /\ BusSound'
  BY <1>1, <1>2 DEF CallSound, BusSound, Idle, NoQueue
<1> QED BY <1>2, <1>3, <1>4, <1>5, <1>6, <1>7 DEF IInv

\* A publication: the message is in the queue at once, or nowhere.
LEMMA PublishKeeps ==
  ASSUME IInv, NEW m \in Msgs, Publish(m)
  PROVE  IInv'
<1>1. /\ fate[m] = "unsent"
      /\ UNCHANGED <<handlers, eventTypes, queueName, consuming, up, linked, call, task,
                     acked, bindings, calls, faults>>
  BY DEF Publish, table, channel
<1>2. /\ fate' \in [Msgs -> {"unsent", "routed", "unroutable"}]
      /\ \A n \in Msgs : n # m => fate'[n] = fate[n]
      /\ \/ fate'[m] = "routed" /\ ready' = ready \union {m}
         \/ fate'[m] = "unroutable" /\ ready' = ready
  BY DEF Publish, IInv, Typed
<1>3. SubscribedNow(EventOf[m]) \subseteq HandlerTypes(SM!ListOf(EventOf[m]))
  BY DEF SubscribedNow
<1>4. HandlerTypes(SM!ListOf(EventOf[m])) \subseteq Handlers
  BY ListIsTyped, TypesAreHandlers DEF IInv
<1>5. /\ covered' \in [Msgs -> SUBSET Handlers]
      /\ \A n \in Msgs : n # m => covered'[n] = covered[n]
      /\ covered'[m] \subseteq HandlerTypes(SM!ListOf(EventOf[m]))
  <2>1. CASE covered' = [covered EXCEPT ![m] = SubscribedNow(EventOf[m])]
    BY <1>3, <1>4, <2>1 DEF IInv, Typed
  <2>2. CASE UNCHANGED covered
    BY <2>2, CoveredIsListed DEF IInv, Typed
  <2> QED BY <2>1, <2>2 DEF Publish
<1>6. \A d \in Tasks : Alike(d) /\ (Live(d)' <=> Live(d))
  BY <1>1, SameIsAlike
<1>7. ASSUME NEW d \in Tasks PROVE TaskSound(d)'
  <2>1. d[1] \in Msgs /\ TaskSound(d)
    BY DEF Tasks, IInv
  <2>2. fate[d[1]] = "routed" => d[1] # m
    BY <1>1
  <2> QED BY <1>2, <1>5, <1>6, <2>1, <2>2, AlikeIsSound
<1>8. ASSUME NEW n \in Msgs PROVE Kept(n)'
  <2>1. Unacked(n)' <=> Unacked(n)
    BY <1>6 DEF Unacked
  <2>2. Kept(n) /\ Kept(m)
    BY DEF IInv
  <2>3. \A d1, d2 \in Tasks : d1[1] = n /\ d2[1] = n /\ Live(d1)' /\ Live(d2)' => d1 = d2
    BY <1>6, <2>2 DEF Kept
  <2>4. n = m => n \notin ready /\ n \notin acked /\ ~Unacked(n)
    BY <1>1, <2>2 DEF Kept
  <2> QED BY <1>1, <1>2, <2>1, <2>2, <2>3, <2>4 DEF Kept
<1>9. ASSUME NEW n \in Msgs PROVE CoveredSound(n)'
  <2>1. SM!ListOf(EventOf[n])' = SM!ListOf(EventOf[n]) /\ HandledBy(n)' = HandledBy(n)
    BY <1>1 DEF SM!ListOf, SM!HasSubscriptionsForEvent, HandledBy
  <2>2. n \in acked => n # m
    BY <1>1 DEF IInv, Kept
  <2>3. CoveredSound(n)
    BY DEF IInv
  <2> QED BY <1>1, <1>5, <2>1, <2>2, <2>3 DEF CoveredSound
<1>10. TableSound' /\ CallSound' /\ BusSound'
  BY <1>1 DEF IInv, TableSound, CallSound, BusSound, SM!ListOf, SM!HasSubscriptionsForEvent,
    Idle
<1>11. Typed'
  BY <1>1, <1>2, <1>5 DEF IInv, Typed
<1> QED BY <1>7, <1>8, <1>9, <1>10, <1>11 DEF IInv

(***************************************************************************)
(* The Received callback                                                   *)
(***************************************************************************)
unseenByTasks == <<handlers, eventTypes, queueName, consuming, up, linked, call, bindings,
                   fate, calls, faults, covered>>

\* One task moves; what it newly settles, it has handled.
LEMMA OneTask ==
  ASSUME IInv, NEW d \in Tasks, UNCHANGED unseenByTasks,
         NEW r \in TaskRecords, task' = [task EXCEPT ![d] = r],
         TaskSound(d)', task[d].handled \subseteq r.handled,
         ready' \subseteq Msgs, acked' \subseteq Msgs,
         \A n \in Msgs : Kept(n)',
         \A n \in acked' \ acked : n = d[1] /\ covered[n] \intersect Resolvable \subseteq r.handled
  PROVE  IInv'
<1>1. task' \in [Tasks -> TaskRecords]
  BY DEF IInv, Typed
<1>2. task'[d] = r /\ \A x \in Tasks : x # d => task'[x] = task[x]
  BY DEF IInv, Typed
<1>3. Typed' /\ TableSound' /\ CallSound' /\ BusSound'
  BY <1>1 DEF IInv, Typed, TableSound, CallSound, BusSound, SM!ListOf,
    SM!HasSubscriptionsForEvent, Idle, unseenByTasks
<1>4. ASSUME NEW x \in Tasks, x # d PROVE TaskSound(x)'
  <2>1. TaskSound(x) /\ Alike(x)
    BY <1>2, <1>4 DEF IInv, Alike, Live
  <2> QED BY <2>1, AlikeIsSound DEF unseenByTasks
<1>5. ASSUME NEW n \in Msgs PROVE CoveredSound(n)'
  <2>1. SM!ListOf(EventOf[n])' = SM!ListOf(EventOf[n]) /\ covered' = covered
    BY DEF SM!ListOf, SM!HasSubscriptionsForEvent, unseenByTasks
  <2>2. \A x \in Tasks : task[x].handled \subseteq task'[x].handled
    BY <1>2
  <2>3. HandledBy(n) \subseteq HandledBy(n)'
    BY <2>2 DEF HandledBy
  <2>4. n = d[1] => r.handled \subseteq HandledBy(n)'
    BY <1>2 DEF HandledBy
  <2>5. CoveredSound(n)
    BY DEF IInv
  <2> QED BY <2>1, <2>3, <2>4, <2>5 DEF CoveredSound
<1> QED BY <1>3, <1>4, <1>5 DEF IInv

\* A task that moves on while the broker waits for it.
LEMMA OneTaskOn ==
  ASSUME IInv, NEW d \in Tasks, UNCHANGED unseenByTasks, UNCHANGED <<ready, acked>>,
         NEW r \in TaskRecords, task' = [task EXCEPT ![d] = r],
         r.channel = "live" <=> task[d].channel = "live",
         TaskSound(d)', task[d].handled \subseteq r.handled
  PROVE  IInv'
<1>1. task'[d] = r /\ \A x \in Tasks : x # d => task'[x] = task[x]
  BY DEF IInv, Typed
<1>2. \A x \in Tasks : Live(x)' <=> Live(x)
  BY <1>1 DEF Live
<1>3. \A n \in Msgs : Kept(n)'
  BY <1>2, KeptAsBefore DEF IInv, unseenByTasks
<1> QED BY <1>3, OneTask DEF IInv, Typed

\* A task's fields, and what holds of it where it stands.
LEMMA TaskFacts ==
  ASSUME IInv, NEW d \in Tasks
  PROVE  /\ d[1] \in Msgs /\ EventOfTask(d) \in Names
         /\ task[d] \in TaskRecords /\ TaskSound(d)
         /\ task[d].list \in Seq(SM!SubscriptionInfo) /\ task[d].pos \in Nat
         /\ task[d].handled \subseteq Handlers
  BY EventOfAssumption DEF IInv, Typed, Tasks, EventOfTask, TaskRecords

LEMMA DeliverKeeps ==
  ASSUME IInv, NEW d \in Tasks, Deliver(d)
  PROVE  IInv'
<1> DEFINE r == [NoTask EXCEPT !.pc = "check", !.channel = "live"]
           m == d[1]
<1>1. /\ m \in ready /\ task[d].pc = "none" /\ ready' = ready \ {m}
      /\ task' = [task EXCEPT ![d] = r]
      /\ UNCHANGED unseenByTasks /\ acked' = acked
  BY DEF Deliver, Step, ManualAck, unchangedByTasks, unseenByTasks, table, channel
<1>2. m \in Msgs /\ TaskSound(d) /\ Kept(m) /\ task[d] = NoTask
  BY <1>1, TaskFacts DEF IInv, TaskSound
<1>3. fate[m] = "routed" /\ m \notin acked /\ ~Unacked(m)
  BY <1>1, <1>2 DEF Kept
<1>4. r \in TaskRecords /\ r.pc = "check" /\ r.channel = "live" /\ r.list = <<>>
      /\ r.handled = {}
  BY EmptyList DEF NoTask, TaskRecords, TaskPcs
<1> HIDE DEF r
<1>5. task'[d] = r /\ \A x \in Tasks : x # d => task'[x] = task[x]
  BY <1>1 DEF IInv, Typed
<1>6. TaskSound(d)'
  BY <1>1, <1>3, <1>4, <1>5 DEF TaskSound, Active, Live, unseenByTasks
<1>7. Live(d)' /\ \A x \in Tasks : x # d => (Live(x)' <=> Live(x))
  BY <1>4, <1>5 DEF Live
<1>8. ASSUME NEW n \in Msgs PROVE Kept(n)'
  <2>1. Kept(n)
    BY DEF IInv
  <2>2. CASE n = m
    <3>1. \A x \in Tasks : x[1] = m /\ Live(x)' => x = d
      BY <1>3, <1>7 DEF Unacked
    <3>2. Unacked(m)'
      BY <1>7 DEF Unacked
    <3> QED BY <1>1, <1>3, <2>2, <3>1, <3>2 DEF Kept, unseenByTasks
  <2>3. CASE n # m
    <3>1. \A x \in Tasks : x[1] = n => (Live(x)' <=> Live(x))
      BY <1>7, <2>3
    <3>2. Unacked(n)' <=> Unacked(n)
      BY <3>1 DEF Unacked
    <3> QED BY <1>1, <2>1, <2>3, <3>1, <3>2 DEF Kept, unseenByTasks
  <2> QED BY <2>2, <2>3
<1>9. task[d].handled = {} /\ ready' \subseteq Msgs /\ acked' \subseteq Msgs
  BY <1>1, <1>2 DEF NoTask, IInv, Typed
<1> HIDE DEF m
<1> QED BY <1>1, <1>4, <1>6, <1>8, <1>9, OneTask

LEMMA CheckKeeps ==
  ASSUME IInv, NEW d \in Tasks, Check(d)
  PROVE  IInv'
<1> DEFINE pc == IF SM!HasSubscriptionsForEvent(EventOfTask(d)) THEN "get" ELSE "ack"
           r == [task[d] EXCEPT !.pc = pc]
<1>1. /\ task[d].pc = "check" /\ task' = [task EXCEPT ![d] = r]
      /\ UNCHANGED unseenByTasks /\ UNCHANGED <<ready, acked>>
  BY DEF Check, Step, WithoutSubscription, unchangedByTasks, unseenByTasks, table, channel
<1>2. d[1] \in Msgs /\ task[d] \in TaskRecords /\ TaskSound(d)
  BY TaskFacts
<1>3. pc \in {"get", "ack"}
  OBVIOUS
<1>4. pc = "ack" => covered[d[1]] = {}
  <2>1. pc = "ack" => SM!ListOf(EventOf[d[1]]) = <<>>
    BY DEF SM!ListOf, EventOfTask
  <2>2. covered[d[1]] \subseteq HandlerTypes(SM!ListOf(EventOf[d[1]]))
    BY <1>2, CoveredIsListed
  <2> QED BY <2>1, <2>2, EmptyList
<1> HIDE DEF pc
<1>5. /\ r \in TaskRecords /\ r.pc = pc /\ r.channel = task[d].channel
      /\ r.list = task[d].list /\ r.handled = task[d].handled
  BY <1>2, <1>3 DEF TaskRecords, TaskPcs
<1> HIDE DEF r
<1>6. task'[d] = r
  BY <1>1 DEF IInv, Typed
<1>7. r.list = <<>> /\ r.handled = {} /\ fate[d[1]] = "routed"
  BY <1>1, <1>2, <1>5 DEF TaskSound
<1>8. TaskSound(d)'
  BY <1>1, <1>3, <1>4, <1>5, <1>6, <1>7, EmptyList
  DEF TaskSound, Active, Live, unseenByTasks
<1>9. /\ r.channel = "live" <=> task[d].channel = "live"
      /\ task[d].handled \subseteq r.handled
  BY <1>5
<1> QED BY <1>1, <1>5, <1>8, <1>9, OneTaskOn

LEMMA GetKeeps ==
  ASSUME IInv, NEW d \in Tasks, Get(d)
  PROVE  IInv'
<1> DEFINE list == SM!ListOf(EventOfTask(d))
           pc == IF list = <<>> THEN "ack" ELSE "next"
           s1 == [task[d] EXCEPT !.list = list]
           s2 == [s1 EXCEPT !.pos = 1]
           r == [s2 EXCEPT !.pc = pc]
<1>1. task[d].pc = "get" /\ UNCHANGED faults
  BY DEF Get
<1>2. CASE ProcessDies
  BY <1>1, <1>2, ProcessDiesKeeps
<1>3. CASE /\ Step(d, [task[d] EXCEPT !.list = list, !.pos = 1,
                                      !.pc = IF list = <<>> THEN "ack" ELSE "next"])
           /\ UNCHANGED <<unchangedByTasks, ready, acked, covered>>
  <2>1. d[1] \in Msgs /\ task[d] \in TaskRecords /\ TaskSound(d)
    BY TaskFacts
  <2>2. list \in Seq(SM!SubscriptionInfo)
    BY ListIsTyped DEF IInv
  <2>3. covered[d[1]] \subseteq HandlerTypes(list)
    BY <2>1, CoveredIsListed DEF EventOfTask
  <2>4. pc \in {"next", "ack"} /\ (pc = "ack" => list = <<>>)
    OBVIOUS
  <2>5. [task[d] EXCEPT !.list = list, !.pos = 1,
                        !.pc = IF list = <<>> THEN "ack" ELSE "next"] = r
    BY <2>1 DEF TaskRecords
  <2>6. task' = [task EXCEPT ![d] = r] /\ UNCHANGED unseenByTasks
    BY <1>1, <1>3, <2>5 DEF Step, unchangedByTasks, unseenByTasks, table, channel
  <2> HIDE DEF list, pc
  <2>7. /\ s1 \in TaskRecords /\ s1.list = list /\ s1.channel = task[d].channel
        /\ s1.handled = task[d].handled
    BY <2>1, <2>2 DEF TaskRecords
  <2> HIDE DEF s1
  <2>8. /\ s2 \in TaskRecords /\ s2.list = list /\ s2.channel = task[d].channel
        /\ s2.handled = task[d].handled /\ s2.pos = 1
    BY <2>7 DEF TaskRecords
  <2> HIDE DEF s2
  <2>9. /\ r \in TaskRecords /\ r.list = list /\ r.channel = task[d].channel
        /\ r.handled = task[d].handled /\ r.pos = 1 /\ r.pc = pc
    BY <2>4, <2>8 DEF TaskRecords, TaskPcs
  <2> HIDE DEF r
  <2>10. task'[d] = r
    BY <2>6 DEF IInv, Typed
  <2>11. r.handled = {} /\ fate[d[1]] = "routed"
    BY <1>1, <2>1, <2>9 DEF TaskSound
  <2>12. r.pos \in 1..(Len(r.list) + 1) /\ Past(r.list, r.pos - 1) = {}
    <3>1. Len(list) \in Nat
      BY <2>2
    <3>2. Past(list, 0) = {}
      BY <2>2, PastGrows
    <3> QED BY <2>9, <3>1, <3>2
  <2>13. pc = "ack" => HandlerTypes(r.list) = {}
    BY <2>4, <2>9, EmptyList
  <2>14. TaskSound(d)'
    BY <2>3, <2>4, <2>6, <2>9, <2>10, <2>11, <2>12, <2>13
    DEF TaskSound, Active, Live, unseenByTasks
  <2>15. /\ r.channel = "live" <=> task[d].channel = "live"
         /\ task[d].handled \subseteq r.handled
    BY <2>9
  <2> QED BY <1>3, <2>6, <2>9, <2>14, <2>15, OneTaskOn
<1> QED BY <1>2, <1>3 DEF Get

LEMMA MoveNextKeeps ==
  ASSUME IInv, NEW d \in Tasks, MoveNext(d)
  PROVE  IInv'
<1>1. task[d].pc = "next" /\ UNCHANGED faults
  BY DEF MoveNext
<1>2. /\ d[1] \in Msgs /\ task[d] \in TaskRecords /\ TaskSound(d)
      /\ task[d].list \in Seq(SM!SubscriptionInfo) /\ task[d].pos \in Nat
      /\ Len(task[d].list) \in Nat
  BY TaskFacts
<1>3. /\ task[d].pos \in 1..(Len(task[d].list) + 1)
      /\ task[d].handled = Past(task[d].list, task[d].pos - 1) \intersect Resolvable
      /\ covered[d[1]] \subseteq HandlerTypes(task[d].list)
      /\ fate[d[1]] = "routed"
  BY <1>1, <1>2 DEF TaskSound
<1>4. CASE ProcessDies
  BY <1>1, <1>4, ProcessDiesKeeps
<1>5. ASSUME UNCHANGED <<unchangedByTasks, ready, acked, covered>>,
             NEW pc \in {"ack", "running"}, Step(d, [task[d] EXCEPT !.pc = pc]),
             pc = "ack" => AtEnd(d),
             pc = "running" => ~AtEnd(d) /\ Current(d).handlerType \in Resolvable
      PROVE  IInv'
  <2> DEFINE r == [task[d] EXCEPT !.pc = pc]
  <2>1. task' = [task EXCEPT ![d] = r] /\ UNCHANGED unseenByTasks
    BY <1>1, <1>5 DEF Step, unchangedByTasks, unseenByTasks, table, channel
  <2>2. /\ r \in TaskRecords /\ r.pc = pc /\ r.list = task[d].list /\ r.pos = task[d].pos
        /\ r.handled = task[d].handled /\ r.channel = task[d].channel
    BY <1>2 DEF TaskRecords, TaskPcs
  <2> HIDE DEF r
  <2>3. task'[d] = r
    BY <2>1 DEF IInv, Typed
  <2>4. (AtEnd(d)' <=> AtEnd(d)) /\ Current(d)' = Current(d)
    BY <2>2, <2>3 DEF AtEnd, Current
  <2>5. pc = "ack" => r.handled = HandlerTypes(r.list) \intersect Resolvable
    <3> SUFFICES ASSUME AtEnd(d)
                 PROVE  task[d].handled = HandlerTypes(task[d].list) \intersect Resolvable
      BY <1>5, <2>2
    <3>1. task[d].pos - 1 = Len(task[d].list)
      BY <1>2, <1>3 DEF AtEnd
    <3>2. Past(task[d].list, Len(task[d].list)) = HandlerTypes(task[d].list)
      BY <1>2, PastGrows
    <3> QED BY <1>3, <3>1, <3>2
  <2>6. TaskSound(d)'
    BY <1>3, <1>5, <2>1, <2>2, <2>3, <2>4, <2>5 DEF TaskSound, Active, Live, unseenByTasks
  <2>7. /\ r.channel = "live" <=> task[d].channel = "live"
        /\ task[d].handled \subseteq r.handled
    BY <2>2
  <2> QED BY <1>5, <2>1, <2>2, <2>6, <2>7, OneTaskOn
<1>6. ASSUME UNCHANGED <<unchangedByTasks, ready, acked, covered>>,
             Step(d, Skip(d)), ~AtEnd(d), Current(d).handlerType \notin Resolvable
      PROVE  IInv'
  <2> DEFINE r == [task[d] EXCEPT !.pos = @ + 1]
             n == task[d].pos
  <2>1. task' = [task EXCEPT ![d] = r] /\ UNCHANGED unseenByTasks
    BY <1>1, <1>6 DEF Step, Skip, unchangedByTasks, unseenByTasks, table, channel
  <2>2. /\ r \in TaskRecords /\ r.pc = "next" /\ r.list = task[d].list /\ r.pos = n + 1
        /\ r.handled = task[d].handled /\ r.channel = task[d].channel
    BY <1>1, <1>2 DEF TaskRecords, TaskPcs
  <2> HIDE DEF r
  <2>3. task'[d] = r
    BY <2>1 DEF IInv, Typed
  <2>4. n - 1 \in Nat /\ (n - 1) + 1 = n /\ (n + 1) - 1 = n /\ n + 1 \in 1..(Len(r.list) + 1)
    BY <1>2, <1>3, <1>6, <2>2 DEF AtEnd
  <2>5. Past(task[d].list, n) = Past(task[d].list, n - 1) \union {Current(d).handlerType}
    <3>1. Past(task[d].list, (n - 1) + 1)
            = Past(task[d].list, n - 1) \union {task[d].list[(n - 1) + 1].handlerType}
      BY <1>2, <2>4, PastGrows
    <3> QED BY <2>4, <3>1 DEF Current
  <2>6. r.handled = Past(r.list, r.pos - 1) \intersect Resolvable
    BY <1>3, <1>6, <2>2, <2>4, <2>5
  <2>7. TaskSound(d)'
    BY <1>3, <2>1, <2>2, <2>3, <2>4, <2>6 DEF TaskSound, Active, Live, unseenByTasks
  <2>8. /\ r.channel = "live" <=> task[d].channel = "live"
        /\ task[d].handled \subseteq r.handled
    BY <2>2
  <2> QED BY <1>6, <2>1, <2>2, <2>7, <2>8, OneTaskOn
<1> QED BY <1>4, <1>5, <1>6 DEF MoveNext

LEMMA HandlerReturnsKeeps ==
  ASSUME IInv, NEW d \in Tasks, HandlerReturns(d)
  PROVE  IInv'
<1> DEFINE n == task[d].pos
           h == Current(d).handlerType
           s1 == [task[d] EXCEPT !.pc = "next"]
           s2 == [s1 EXCEPT !.pos = n + 1]
           more == task[d].handled \union {h}
           r == [s2 EXCEPT !.handled = more]
<1>1. /\ task[d].pc = "running" /\ UNCHANGED unseenByTasks /\ UNCHANGED <<ready, acked>>
      /\ Step(d, [task[d] EXCEPT !.pc = "next", !.pos = @ + 1,
                                 !.handled = @ \union {Current(d).handlerType}])
  BY DEF HandlerReturns, unchangedByTasks, unseenByTasks, table, channel
<1>2. /\ d[1] \in Msgs /\ task[d] \in TaskRecords /\ TaskSound(d)
      /\ task[d].list \in Seq(SM!SubscriptionInfo) /\ n \in Nat
      /\ Len(task[d].list) \in Nat /\ task[d].handled \subseteq Handlers
  BY TaskFacts
<1>3. /\ n \in 1..(Len(task[d].list) + 1)
      /\ task[d].handled = Past(task[d].list, n - 1) \intersect Resolvable
      /\ covered[d[1]] \subseteq HandlerTypes(task[d].list)
      /\ fate[d[1]] = "routed"
      /\ ~AtEnd(d) /\ h \in Resolvable
  BY <1>1, <1>2 DEF TaskSound
<1>4. task' = [task EXCEPT ![d] = r]
  <2>1. [task[d] EXCEPT !.pc = "next", !.pos = @ + 1,
                        !.handled = @ \union {Current(d).handlerType}] = r
    BY <1>2 DEF TaskRecords
  <2> QED BY <1>1, <2>1 DEF Step
<1>5. more \subseteq Handlers
  BY <1>2, <1>3, ResolvableAssumption
<1>6. n - 1 \in Nat /\ (n - 1) + 1 = n /\ (n + 1) - 1 = n
      /\ n + 1 \in 1..(Len(task[d].list) + 1) /\ n + 1 \in Nat
  BY <1>2, <1>3 DEF AtEnd
<1>7. Past(task[d].list, n) \intersect Resolvable = more
  <2>1. Past(task[d].list, (n - 1) + 1)
          = Past(task[d].list, n - 1) \union {task[d].list[(n - 1) + 1].handlerType}
    BY <1>2, <1>6, PastGrows
  <2>2. Past(task[d].list, n) = Past(task[d].list, n - 1) \union {h}
    BY <1>6, <2>1 DEF Current
  <2> QED BY <1>3, <2>2
<1>8. task[d].handled \subseteq more
  OBVIOUS
<1> HIDE DEF more
<1>9. /\ s1 \in TaskRecords /\ s1.pc = "next" /\ s1.list = task[d].list
      /\ s1.channel = task[d].channel
  BY <1>2 DEF TaskRecords, TaskPcs
<1> HIDE DEF s1
<1>10. /\ s2 \in TaskRecords /\ s2.pc = "next" /\ s2.list = task[d].list
       /\ s2.channel = task[d].channel /\ s2.pos = n + 1
  BY <1>6, <1>9 DEF TaskRecords
<1> HIDE DEF s2
<1>11. /\ r \in TaskRecords /\ r.pc = "next" /\ r.list = task[d].list
       /\ r.channel = task[d].channel /\ r.pos = n + 1 /\ r.handled = more
  BY <1>5, <1>10 DEF TaskRecords
<1> HIDE DEF r
<1>12. task'[d] = r
  BY <1>4 DEF IInv, Typed
<1>13. TaskSound(d)'
  BY <1>1, <1>3, <1>6, <1>7, <1>11, <1>12 DEF TaskSound, Active, Live, unseenByTasks
<1>14. /\ r.channel = "live" <=> task[d].channel = "live"
       /\ task[d].handled \subseteq r.handled
  BY <1>8, <1>11
<1> QED BY <1>1, <1>4, <1>11, <1>13, <1>14, OneTaskOn

\* BasicAck of a delivery on its own channel settles its message, once.
LEMMA AckKeeps ==
  ASSUME IInv, NEW d \in Tasks, Ack(d)
  PROVE  IInv'
<1> DEFINE pc == IF Live(d) THEN "acked" ELSE "ignored"
           s1 == [task[d] EXCEPT !.pc = pc]
           r == [s1 EXCEPT !.channel = "none"]
           m == d[1]
<1>1. task[d].pc = "ack" /\ UNCHANGED faults
  BY DEF Ack
<1>2. CASE ProcessDies
  BY <1>1, <1>2, ProcessDiesKeeps
<1>3. CASE /\ acked' = IF Live(d) THEN acked \union Settled(d) ELSE acked
           /\ Step(d, [task[d] EXCEPT !.pc = IF Live(d) THEN "acked" ELSE "ignored",
                                      !.channel = "none"])
           /\ UNCHANGED <<unchangedByTasks, ready, covered>>
  <2>1. m \in Msgs /\ task[d] \in TaskRecords /\ TaskSound(d)
    BY TaskFacts
  <2>2. /\ task[d].handled = HandlerTypes(task[d].list) \intersect Resolvable
        /\ covered[m] \subseteq HandlerTypes(task[d].list)
        /\ fate[m] = "routed"
    BY <1>1, <2>1 DEF TaskSound
  <2>3. task' = [task EXCEPT ![d] = r] /\ UNCHANGED unseenByTasks
    <3>1. [task[d] EXCEPT !.pc = IF Live(d) THEN "acked" ELSE "ignored",
                          !.channel = "none"] = r
      BY <2>1 DEF TaskRecords
    <3> QED BY <1>1, <1>3, <3>1
        DEF Step, unchangedByTasks, unseenByTasks, table, channel
  <2>4. pc \in {"acked", "ignored"}
    OBVIOUS
  <2> HIDE DEF pc
  <2>5. /\ s1 \in TaskRecords /\ s1.pc = pc /\ s1.list = task[d].list
        /\ s1.handled = task[d].handled
    BY <2>1, <2>4 DEF TaskRecords, TaskPcs
  <2> HIDE DEF s1
  <2>6. /\ r \in TaskRecords /\ r.pc = pc /\ r.list = task[d].list
        /\ r.handled = task[d].handled /\ r.channel = "none"
    BY <2>5 DEF TaskRecords
  <2> HIDE DEF r
  <2>7. task'[d] = r /\ \A x \in Tasks : x # d => task'[x] = task[x]
    BY <2>3 DEF IInv, Typed
  <2>8. TaskSound(d)'
    BY <2>2, <2>3, <2>4, <2>6, <2>7 DEF TaskSound, Active, Live, unseenByTasks
  <2>9. ~Live(d)' /\ \A x \in Tasks : x # d => (Live(x)' <=> Live(x))
    BY <2>6, <2>7 DEF Live
  <2>10. ASSUME NEW n \in Msgs PROVE Kept(n)'
    <3>1. Kept(n)
      BY DEF IInv
    <3>2. CASE n = m /\ Live(d)
      <4>1. Unacked(m)
        BY <3>2 DEF Unacked
      <4>2. m \notin ready /\ m \notin acked
        BY <2>2, <3>1, <3>2, <4>1 DEF Kept
      <4>3. \A x \in Tasks : x[1] = m => ~Live(x)'
        BY <2>9, <3>1, <3>2 DEF Kept
      <4>4. ~Unacked(m)'
        BY <4>3 DEF Unacked
      <4>5. m \in acked' /\ m \notin ready'
        BY <1>3, <3>2, <4>2 DEF Settled
      <4> QED BY <2>2, <2>3, <3>2, <4>3, <4>4, <4>5 DEF Kept, unseenByTasks
    <3>3. CASE ~(n = m /\ Live(d))
      <4>1. \A x \in Tasks : x[1] = n => (Live(x)' <=> Live(x))
        BY <2>9, <3>3
      <4>2. Unacked(n)' <=> Unacked(n)
        BY <4>1 DEF Unacked
      <4>3. n \in acked' <=> n \in acked
        BY <1>3, <3>3 DEF Settled
      <4> QED BY <1>3, <2>3, <3>1, <4>1, <4>2, <4>3 DEF Kept, unseenByTasks
    <3> QED BY <3>2, <3>3
  <2>11. /\ \A n \in acked' \ acked :
              n = d[1] /\ covered[n] \intersect Resolvable \subseteq r.handled
         /\ acked' \subseteq Msgs /\ ready' \subseteq Msgs
         /\ task[d].handled \subseteq r.handled
    BY <1>3, <2>1, <2>2, <2>6 DEF Settled, IInv, Typed
  <2> QED BY <2>3, <2>6, <2>8, <2>10, <2>11, OneTask
<1> QED BY <1>2, <1>3 DEF Ack

(***************************************************************************)
(* The invariant, step by step                                             *)
(***************************************************************************)
LEMMA Initially == Init => IInv
<1> SUFFICES ASSUME Init PROVE IInv
  OBVIOUS
<1>1. /\ handlers = [e \in {} |-> <<>>] /\ eventTypes = {}
      /\ queueName = "named" /\ consuming = TRUE /\ up = TRUE /\ linked = TRUE
      /\ call = Idle /\ task = [d \in Tasks |-> NoTask]
      /\ ready = {} /\ acked = {} /\ bindings = {}
      /\ fate = [m \in Msgs |-> "unsent"] /\ calls = 0 /\ faults = 0
      /\ covered = [m \in Msgs |-> {}]
  BY DEF Init
<1>2. NoTask \in TaskRecords /\ Idle \in CallRecords
  BY EmptyList DEF NoTask, TaskRecords, TaskPcs, Idle, CallRecords, CallPcs
<1>3. Typed
  <2>1. task \in [Tasks -> TaskRecords]
    BY <1>1, <1>2
  <2>2. calls \in 0..MaxCalls /\ faults \in 0..MaxFaults
    BY <1>1, BoundsAssumption
  <2> QED BY <1>1, <1>2, <2>1, <2>2 DEF Typed
<1>4. TableSound /\ CallSound /\ BusSound
  BY <1>1 DEF TableSound, CallSound, BusSound, Idle, NoQueue
<1>5. \A d \in Tasks : task[d] = NoTask /\ ~Live(d)
  BY <1>1 DEF NoTask, Live
<1>6. \A d \in Tasks : TaskSound(d)
  BY <1>5 DEF TaskSound, NoTask, Live
<1>7. \A m \in Msgs : Kept(m) /\ CoveredSound(m)
  BY <1>1, <1>5 DEF Kept, Unacked, CoveredSound
<1> QED BY <1>3, <1>4, <1>6, <1>7 DEF IInv

LEMMA Stuttering ==
  ASSUME IInv, UNCHANGED vars
  PROVE  IInv'
<1>1. UNCHANGED <<handlers, eventTypes, queueName, consuming, up, linked, call, task,
                  ready, acked, bindings, fate, calls, faults, covered>>
  BY DEF vars, table, channel, broker
<1>2. SM!ListOf(call.event)' = SM!ListOf(call.event)
  BY <1>1 DEF SM!ListOf, SM!HasSubscriptionsForEvent
<1>3. Typed' /\ CallSound' /\ BusSound'
  BY <1>1, <1>2 DEF IInv, Typed, CallSound, BusSound, Idle
<1> QED BY <1>1, <1>3, Unmoved DEF IInv

LEMMA StepKeepsIInv == IInv /\ [Next]_vars => IInv'
<1> SUFFICES ASSUME IInv, [Next]_vars PROVE IInv'
  OBVIOUS
<1>1. CASE Call
  BY <1>1, CallKeeps
<1>2. CASE \E m \in Msgs : Publish(m)
  BY <1>2, PublishKeeps
<1>3. ASSUME NEW d \in Tasks, TaskStep(d) PROVE IInv'
  BY <1>3, DeliverKeeps, CheckKeeps, GetKeeps, MoveNextKeeps, HandlerReturnsKeeps, AckKeeps
  DEF TaskStep
<1>4. CASE Killed \/ \E d \in Tasks : HandlerThrows(d)
  BY <1>4, ProcessDiesKeeps DEF Killed, HandlerThrows
<1>5. CASE Restart \/ LinkRecovered
  BY <1>5, RecoveryKeeps
<1>6. CASE LinkLost \/ ConsumerChannelReplaced
  BY <1>6, LossKeeps
<1>7. CASE UNCHANGED vars
  BY <1>7, Stuttering
<1> QED BY <1>1, <1>2, <1>3, <1>4, <1>5, <1>6, <1>7 DEF Next

\* Through every interleaving of calls, deliveries, faults and restarts the
\* table, the channel, the broker and the tasks agree.
THEOREM BusInvariant == Spec => []IInv
<1> QED BY Initially, StepKeepsIInv, PTL DEF Spec

(***************************************************************************)
(* What a subscriber relies on                                             *)
(***************************************************************************)
LEMMA TypesHold == IInv => TypeOK
<1> SUFFICES ASSUME IInv PROVE TypeOK
  OBVIOUS
<1>1. \A list \in Seq(SM!SubscriptionInfo) : ToSet(list) \subseteq SM!SubscriptionInfo
  BY DEF ToSet
<1>2. \A e \in DOMAIN handlers : ToSet(handlers[e]) \subseteq SM!SubscriptionInfo
  BY <1>1 DEF IInv, TableSound
<1>3. \A d \in Tasks :
        /\ task[d].pc \in TaskPcs
        /\ task[d].channel \in {"none", "live", "down", "stale", "closed"}
        /\ ToSet(task[d].list) \subseteq SM!SubscriptionInfo
        /\ task[d].handled \subseteq Handlers
  BY <1>1, TaskFacts DEF TaskRecords
<1>4. call.pc \in CallPcs
  BY DEF IInv, Typed, CallRecords
<1> QED BY <1>2, <1>3, <1>4 DEF TypeOK, IInv, Typed, TableSound, TaskPcs, CallPcs, NoQueue

\* Subscribe binds before it adds, Unsubscribe removes before it unbinds, and
\* the queue is let go only on an empty table: whatever dispatch and faults do in
\* between, the messages of a subscribed event come to a queue the bus keeps.
THEOREM SubscribersAreRouted == Spec => []SubscribedIsRouted
<1>1. IInv => SubscribedIsBound
  BY ListIsTyped DEF IInv, BusSound, SubscribedIsBound
<1>2. IInv => SubscribedHasQueue
  BY DEF IInv, BusSound, SubscribedHasQueue
<1>3. IInv => SubscribedIsRouted
  BY <1>1, <1>2, TypesHold DEF SubscribedIsRouted
<1> QED BY <1>3, BusInvariant, PTL

(***************************************************************************)
(* What becomes of a message                                               *)
(***************************************************************************)
LEMMA OneOrNone ==
  ASSUME NEW m, NEW S
  PROVE  Cardinality({m} \intersect S) = IF m \in S THEN 1 ELSE 0
<1>1. CASE m \in S
  <2>1. {m} \intersect S = {m}
    BY <1>1
  <2> QED BY <1>1, <2>1, FS_Singleton
<1>2. CASE m \notin S
  <2>1. {m} \intersect S = {}
    BY <1>2
  <2> QED BY <1>2, <2>1, FS_EmptySet
<1> QED BY <1>1, <1>2

LEMMA CustodyHolds == IInv => Custody
<1> SUFFICES ASSUME IInv, NEW m \in Msgs
             PROVE  LET holders == {d \in Tasks : d[1] = m /\ Live(d)} IN
                      IF fate[m] # "routed"
                      THEN m \notin ready \union acked /\ holders = {}
                      ELSE Cardinality(holders) + Cardinality({m} \intersect ready)
                             + Cardinality({m} \intersect acked) = 1
  BY DEF Custody
<1> DEFINE holders == {d \in Tasks : d[1] = m /\ Live(d)}
<1>1. Kept(m)
  BY DEF IInv
<1>2. Cardinality(holders) = IF Unacked(m) THEN 1 ELSE 0
  <2>1. CASE Unacked(m)
    <3>1. PICK d \in Tasks : d[1] = m /\ Live(d)
      BY <2>1 DEF Unacked
    <3>2. holders = {d}
      BY <1>1, <3>1 DEF Kept
    <3> QED BY <2>1, <3>2, FS_Singleton
  <2>2. CASE ~Unacked(m)
    <3>1. holders = {}
      BY <2>2 DEF Unacked
    <3> QED BY <2>2, <3>1, FS_EmptySet
  <2> QED BY <2>1, <2>2
<1>3. ~Unacked(m) => holders = {}
  BY DEF Unacked
<1> HIDE DEF holders
<1>4. /\ Cardinality({m} \intersect ready) = IF m \in ready THEN 1 ELSE 0
      /\ Cardinality({m} \intersect acked) = IF m \in acked THEN 1 ELSE 0
  BY OneOrNone
<1>5. IF fate[m] # "routed"
      THEN m \notin ready \union acked /\ holders = {}
      ELSE Cardinality(holders) + Cardinality({m} \intersect ready)
             + Cardinality({m} \intersect acked) = 1
  BY <1>1, <1>2, <1>3, <1>4 DEF Kept
<1> QED BY <1>5 DEF holders

\* A routed message is in the queue, held by one delivery, or settled, and it is
\* settled only when the handlers that were to have it have had it: BasicAck
\* follows the await of ProcessEvent, and an exception in between ends the
\* process and returns the message.
THEOREM MessagesAreKept == Spec => []AtLeastOnce
<1>1. IInv => AckedOnlyWhenHandled
  BY DEF IInv, TaskSound, AckedOnlyWhenHandled
<1>2. IInv => NoLossWhileSubscribed
  BY DEF IInv, Typed, CoveredSound, NoLossWhileSubscribed
<1>3. IInv => AtLeastOnce
  BY <1>1, <1>2, CustodyHolds DEF AtLeastOnce
<1> QED BY <1>3, BusInvariant, PTL

(***************************************************************************)
(* The calls implement the registry                                        *)
(***************************************************************************)
LEMMA PairsAreListed ==
  SM!Pairs = {p \in Names \X Handlers : p[2] \in HandlerTypes(SM!ListOf(p[1]))}
  BY DEF SM!Pairs, SM!AlreadyRegistered, SM!Matches, HandlerTypes

\* A step is seen by the registry only when some event's list changes.
LEMMA SameLists ==
  ASSUME \A n : SM!ListOf(n)' = SM!ListOf(n)
  PROVE  SM!Pairs' = SM!Pairs
  BY DEF SM!Pairs, SM!AlreadyRegistered, SM!Matches

LEMMA AppendRegisters ==
  ASSUME IInv, AppendHandler
  PROVE  SM!Registry!RegistryNext \/ UNCHANGED SM!Pairs
<1>1. call.event \in Names /\ call.handler \in Handlers
  BY DEF AppendHandler, IInv, CallSound
<1>2. CASE UNCHANGED handlers
  BY <1>2, SameLists DEF SM!ListOf, SM!HasSubscriptionsForEvent
<1>3. CASE /\ ~SM!AlreadyRegistered(call.event, call.handler)
           /\ handlers' = SM!WithList(call.event, WithHandler(call.event, call.handler))
  <2>1. PICK e \in Names, h \in Handlers : e = call.event /\ h = call.handler
    BY <1>1
  <2> DEFINE list == WithHandler(e, h)
  <2>2. /\ Lists!GoodList(list)
        /\ HandlerTypes(list) = HandlerTypes(SM!ListOf(e)) \union {h}
    <3>1. (call.types = {}) \in BOOLEAN
      OBVIOUS
    <3> QED BY <1>3, <2>1, <3>1, AppendedList DEF WithHandler, IInv
  <2>3. handlers' = SM!WithList(e, list)
    BY <1>3, <2>1
  <2> HIDE DEF list
  <2>4. SM!ListOf(e)' = list /\ \A n : n # e => SM!ListOf(n)' = SM!ListOf(n)
    BY <2>2, <2>3, TableStores DEF IInv
  <2>5. SM!Pairs' = {p \in Names \X Handlers : p[2] \in HandlerTypes(SM!ListOf(p[1])')}
    BY DEF SM!Pairs, SM!AlreadyRegistered, SM!Matches, HandlerTypes
  <2>6. SM!Pairs' = SM!Pairs \union {<<e, h>>}
    BY <2>2, <2>4, <2>5, PairsAreListed
  <2>7. <<e, h>> \notin SM!Pairs
    BY <1>3, <2>1 DEF SM!Pairs
  <2> QED BY <2>6, <2>7 DEF SM!Registry!RegistryNext, SM!Registry!Register
<1> QED BY <1>2, <1>3 DEF AppendHandler

LEMMA RemoveWithdraws ==
  ASSUME IInv, RemoveHandler
  PROVE  SM!Registry!RegistryNext \/ UNCHANGED SM!Pairs
<1>1. call.event \in Names /\ call.handler \in Handlers
  BY DEF RemoveHandler, IInv, CallSound
<1>2. CASE UNCHANGED handlers
  BY <1>2, SameLists DEF SM!ListOf, SM!HasSubscriptionsForEvent
<1>3. ASSUME NEW i \in SM!Matches(call.event, call.handler),
             handlers' = SM!WithList(call.event, Remaining(call.event, i))
      PROVE  SM!Registry!RegistryNext \/ UNCHANGED SM!Pairs
  <2>1. PICK e \in Names, h \in Handlers : e = call.event /\ h = call.handler
    BY <1>1
  <2> DEFINE list == Remaining(e, i)
  <2>2. /\ HandlerTypes(list) = HandlerTypes(SM!ListOf(e)) \ {h}
        /\ list = <<>> \/ Lists!GoodList(list)
    BY <1>3, <2>1, RemovedList DEF IInv
  <2>3. handlers' = SM!WithList(e, list)
    BY <1>3, <2>1
  <2> HIDE DEF list
  <2>4. SM!ListOf(e)' = list /\ \A n : n # e => SM!ListOf(n)' = SM!ListOf(n)
    BY <2>2, <2>3, TableStores DEF IInv
  <2>5. SM!Pairs' = {p \in Names \X Handlers : p[2] \in HandlerTypes(SM!ListOf(p[1])')}
    BY DEF SM!Pairs, SM!AlreadyRegistered, SM!Matches, HandlerTypes
  <2>6. SM!Pairs' = SM!Pairs \ {<<e, h>>}
    BY <2>2, <2>4, <2>5, PairsAreListed
  <2>7. <<e, h>> \in SM!Pairs
    BY <1>3, <2>1 DEF SM!Pairs, SM!AlreadyRegistered
  <2> QED BY <2>6, <2>7 DEF SM!Registry!RegistryNext, SM!Registry!Withdraw
<1> QED BY <1>2, <1>3 DEF RemoveHandler

\* A cleared table, by Dispose or with the process.
LEMMA ClearingWithdrawsAll ==
  ASSUME handlers' = [e \in {} |-> <<>>]
  PROVE  SM!Registry!RegistryNext
<1>1. \A n : SM!ListOf(n)' = <<>>
  BY TableCleared
<1>2. SM!Pairs' = {p \in Names \X Handlers : p[2] \in HandlerTypes(SM!ListOf(p[1])')}
  BY DEF SM!Pairs, SM!AlreadyRegistered, SM!Matches, HandlerTypes
<1>3. SM!Pairs' = {}
  BY <1>1, <1>2, EmptyList
<1> QED BY <1>3 DEF SM!Registry!RegistryNext, SM!Registry!WithdrawAll

\* The writes that leave every event the list it has.
LEMMA KeysAreUnseen ==
  ASSUME IInv, AddKey \/ DropKey
  PROVE  UNCHANGED SM!Pairs
<1>1. PICK e \in Names : e = call.event
  BY DEF AddKey, DropKey, IInv, CallSound
<1>2. CASE AddKey
  <2>1. handlers' = SM!WithList(e, SM!ListOf(e))
    BY <1>1, <1>2 DEF AddKey
  <2> QED BY <2>1, SameLists, TableStores, ListIsTyped DEF IInv
<1>3. CASE DropKey
  <2>1. handlers' = Restrict(handlers, DOMAIN handlers \ {e}) /\ SM!ListOf(e) = <<>>
    BY <1>1, <1>3 DEF DropKey, IInv, CallSound
  <2>2. DOMAIN handlers \ {e} \in SUBSET DOMAIN handlers
    OBVIOUS
  <2>3. /\ \A n \in DOMAIN handlers \ {e} : SM!ListOf(n)' = SM!ListOf(n)
        /\ \A n : n \notin DOMAIN handlers \ {e} => SM!ListOf(n)' = <<>>
    BY <2>1, <2>2, TableDrops DEF IInv
  <2>4. \A n : n \notin DOMAIN handlers \ {e} => SM!ListOf(n) = <<>>
    BY <2>1 DEF SM!ListOf, SM!HasSubscriptionsForEvent
  <2> QED BY <2>3, <2>4, SameLists
<1> QED BY <1>2, <1>3

LEMMA StepImplements ==
  ASSUME IInv, [Next]_vars
  PROVE  [SM!Registry!RegistryNext]_(SM!Pairs)
<1>1. CASE UNCHANGED handlers
  BY <1>1, SameLists DEF SM!ListOf, SM!HasSubscriptionsForEvent
<1>2. CASE handlers' = [e \in {} |-> <<>>]
  BY <1>2, ClearingWithdrawsAll
<1>3. CASE AppendHandler \/ RemoveHandler
  BY <1>3, AppendRegisters, RemoveWithdraws
<1>4. CASE AddKey \/ DropKey
  BY <1>4, KeysAreUnseen
<1>5. CASE Call
  BY <1>1, <1>2, <1>3, <1>4, <1>5
  DEF Call, Subscribe, Unsubscribe, Dispose, Begin, Bind, AddType, Unbind, CloseChannel,
      DisposeChannel, ClearTable, table
<1>6. ASSUME NEW d \in Tasks, TaskStep(d) \/ HandlerThrows(d)
      PROVE  [SM!Registry!RegistryNext]_(SM!Pairs)
  <2>1. UNCHANGED handlers \/ handlers' = [e \in {} |-> <<>>]
    BY <1>6 DEF TaskStep, Deliver, Check, Get, MoveNext, HandlerReturns, Ack,
      HandlerThrows, ProcessDies, unchangedByTasks, table
  <2> QED BY <1>1, <1>2, <2>1
<1>7. CASE UNCHANGED vars
  BY <1>1, <1>7 DEF vars, table
<1> QED BY <1>1, <1>2, <1>5, <1>6, <1>7
    DEF Next, Publish, Killed, ProcessDies, Restart, LinkLost, LinkRecovered,
        ConsumerChannelReplaced, table

\* The calls are taken apart at every write another thread can see, and a crash
\* may come between any two: seen as pairs of event and handler, the table still
\* gains one pair, loses one, or loses all, as IEventBusSubscriptionsManager
\* promises.
THEOREM CallsImplementTheRegistry == Spec => CallsImplementRegistry
<1>1. Init => SM!Registry!RegistryInit
  BY EmptyList, PairsAreListed DEF Init, SM!Registry!RegistryInit, SM!ListOf,
    SM!HasSubscriptionsForEvent
<1>2. IInv /\ [Next]_vars => [SM!Registry!RegistryNext]_(SM!Pairs)
  BY StepImplements
<1> QED BY <1>1, <1>2, BusInvariant, PTL
    DEF Spec, CallsImplementRegistry, SM!ImplementsRegistry, SM!Registry!RegistrySpec
=============================================================================
