---------------------------- MODULE AzureBus_proofs ----------------------------
(***************************************************************************)
(* The safety of the Azure Service Bus bus for every set of events,        *)
(* handlers and messages, every way names and labels go into each other,   *)
(* every number of concurrent deliveries and every delivery count: a       *)
(* message that is completed has been handled by whoever is found by its   *)
(* label, however its deliveries overlap.                                  *)
(***************************************************************************)
EXTENDS AzureBus, SequenceTheorems, TLAPS

\* The facts about the table's lists.
Lists == INSTANCE SubscriptionsManager_proofs WITH result <- <<>>

(***************************************************************************)
(* The inductive invariant                                                 *)
(***************************************************************************)
CallPcs == {"idle", "addRule", "removeRule", "addKey", "append", "addType",
            "remove", "dropKey", "clear", "over"}

TaskPcs == {"none", "check", "get", "next", "running", "complete",
            "completed", "left", "failed", "dead"}

CallRecords == [pc : CallPcs, event : Names \union {"none"},
                handler : Handlers \union {"none"}, types : SUBSET EventTypes]

TaskRecords == [pc : TaskPcs, list : Seq(SM!SubscriptionInfo), pos : Nat,
                stale : BOOLEAN, locked : BOOLEAN, handled : SUBSET Handlers]

Typed ==
  /\ eventTypes \subseteq EventTypes
  /\ up \in BOOLEAN /\ matchAll \in BOOLEAN
  /\ call \in CallRecords
  /\ task \in [Tasks -> TaskRecords]
  /\ rules \subseteq Labels
  /\ mail \in [Msgs -> {"unsent", "unrouted", "ready", "held", "completed", "dead"}]
  /\ calls \in 0..MaxCalls /\ faults \in 0..MaxFaults
  /\ covered \in [Msgs -> SUBSET Handlers]

\* A call between its writes may leave an empty list, but no handler twice.
TableSound ==
  /\ DOMAIN handlers \subseteq Names
  /\ handlers \in [DOMAIN handlers -> Seq(SM!SubscriptionInfo)]
  /\ \A e \in DOMAIN handlers : handlers[e] = <<>> \/ Lists!GoodList(handlers[e])

\* What a call has made sure of by the time of its next write.
CallSound ==
  /\ call.pc \in {"addRule", "removeRule", "addKey", "append", "addType", "remove",
                  "dropKey"} => call.event \in Names /\ call.handler \in Handlers
  /\ call.pc = "dropKey" => SM!ListOf(call.event) = <<>>

\* The handler types of the first n subscriptions of a list.
Past(list, n) == {list[i].handlerType : i \in 1..n}

\* A task has handled what its foreach has passed; what is covered is on the
\* list it goes through, also when handlers come and go meanwhile.
TaskSound(d) ==
  /\ task[d].pc = "none" => task[d] = NoTask
  /\ task[d].pc # "none" => mail[d[1]] \notin {"unsent", "unrouted"}
  /\ task[d].locked => mail[d[1]] = "held"
  /\ task[d].pc \in {"check", "get"} => task[d].list = <<>> /\ task[d].handled = {}
  /\ task[d].pc \in {"next", "running"} =>
       /\ task[d].pos \in 1..(Len(task[d].list) + 1)
       /\ task[d].handled = Past(task[d].list, task[d].pos - 1) \intersect Resolvable
  /\ task[d].pc = "running" =>
       ~AtEnd(d) /\ Current(d).handlerType \in Resolvable
  /\ task[d].pc \in {"complete", "completed"} =>
       task[d].handled = HandlerTypes(task[d].list) \intersect Resolvable
  /\ task[d].pc \in {"next", "running", "complete"} =>
       covered[d[1]] \subseteq HandlerTypes(task[d].list)

\* However many deliveries of a message run, one of them at most has its lock.
OneLock(m) ==
  \A d1, d2 \in Tasks :
    d1[1] = m /\ d2[1] = m /\ task[d1].locked /\ task[d2].locked => d1 = d2

CoveredSound(m) ==
  /\ covered[m] \subseteq HandlerTypes(SM!ListOf(Heard(m)))
  /\ mail[m] = "completed" => covered[m] \intersect Resolvable \subseteq HandledBy(m)

IInv ==
  /\ Typed /\ TableSound /\ CallSound 
  /\ \A d \in Tasks : TaskSound(d)
  /\ \A m \in Msgs : OneLock(m) /\ CoveredSound(m)

(***************************************************************************)
(* Lists and their handler types                                           *)
(***************************************************************************)
LEMMA TypesAreListed == \A list : HandlerTypes(list) = Lists!TypesOf(list)
  BY DEF HandlerTypes, Lists!TypesOf

LEMMA EmptyList ==
  /\ <<>> \in Seq(SM!SubscriptionInfo) /\ Len(<<>>) = 0
  /\ HandlerTypes(<<>>) = {} /\ Past(<<>>, 0) = {}
  BY EmptySeq DEF HandlerTypes, Past

\* An event's list, whether or not its key is there.
LEMMA ListIsTyped ==
  ASSUME TableSound, NEW e
  PROVE  /\ SM!ListOf(e) \in Seq(SM!SubscriptionInfo)
         /\ SM!ListOf(e) = <<>> \/ Lists!GoodList(SM!ListOf(e))
         /\ SM!ListOf(e) # <<>> => e \in DOMAIN handlers
  BY EmptyList DEF TableSound, SM!ListOf, SM!HasSubscriptionsForEvent

LEMMA TypesAreHandlers ==
  ASSUME NEW list \in Seq(SM!SubscriptionInfo)
  PROVE  HandlerTypes(list) \subseteq Handlers
<1>1. \A i \in DOMAIN list : list[i] \in SM!SubscriptionInfo
  OBVIOUS
<1>2. \A x \in SM!SubscriptionInfo : x.handlerType \in Handlers
  BY DEF SM!SubscriptionInfo
<1> QED BY <1>1, <1>2 DEF HandlerTypes

\* The foreach passes one subscription at a time, and at the end all of them.
LEMMA PastGrows ==
  ASSUME NEW list \in Seq(SM!SubscriptionInfo), NEW n \in Nat
  PROVE  /\ Past(list, n + 1) = Past(list, n) \union {list[n + 1].handlerType}
         /\ Past(list, 0) = {}
         /\ Past(list, Len(list)) = HandlerTypes(list)
<1>1. 1..(n + 1) = 1..n \union {n + 1} /\ 1..0 = {}
  OBVIOUS
<1>2. Past(list, n + 1) = Past(list, n) \union {list[n + 1].handlerType}
  <2>1. Past(list, n + 1) = {list[i].handlerType : i \in (1..n) \union {n + 1}}
    BY <1>1 DEF Past
  <2> QED BY <2>1 DEF Past
<1>3. Past(list, 0) = {}
  BY <1>1 DEF Past
<1>4. DOMAIN list = 1..Len(list)
  OBVIOUS
<1> QED BY <1>2, <1>3, <1>4 DEF Past, HandlerTypes

(***************************************************************************)
(* Steps that leave the tasks as they are, but for going stale             *)
(***************************************************************************)
\* Nothing that counts of a task changes.
Alike(d) ==
  /\ task'[d].pc = task[d].pc /\ task'[d].list = task[d].list
  /\ task'[d].pos = task[d].pos /\ task'[d].handled = task[d].handled
  /\ task'[d].locked = task[d].locked
  /\ task[d].pc = "none" => task'[d] = task[d]

LEMMA AlikeIsSound ==
  ASSUME NEW d \in Tasks, TaskSound(d), Alike(d),
         mail'[d[1]] = mail[d[1]] \/ mail[d[1]] = "unsent",
         mail[d[1]] # "unsent" => covered'[d[1]] \subseteq covered[d[1]]
  PROVE  TaskSound(d)'
<1>1. /\ task'[d].pc = task[d].pc /\ task'[d].list = task[d].list
      /\ task'[d].pos = task[d].pos /\ task'[d].handled = task[d].handled
      /\ task'[d].locked = task[d].locked
      /\ AtEnd(d)' <=> AtEnd(d)
      /\ Current(d)' = Current(d)
  BY DEF Alike, AtEnd, Current
<1>2. task[d].pc # "none" => /\ mail'[d[1]] = mail[d[1]]
                             /\ covered'[d[1]] \subseteq covered[d[1]]
  BY DEF TaskSound
<1>3. task[d].locked => mail'[d[1]] = "held"
  BY DEF TaskSound
<1> QED BY <1>1, <1>2, <1>3 DEF TaskSound, Alike

LEMMA AlikeIsHandled ==
  ASSUME \A d \in Tasks : task'[d].handled = task[d].handled
  PROVE  \A m : HandledBy(m)' = HandledBy(m)
  BY DEF HandledBy

LEMMA TaskGoneStale ==
  ASSUME NEW r \in TaskRecords, NEW s, s = [r EXCEPT !.stale = TRUE]
  PROVE  /\ s \in TaskRecords /\ s.locked = r.locked /\ s.pc = r.pc /\ s.list = r.list
         /\ s.pos = r.pos /\ s.handled = r.handled
  BY DEF TaskRecords

LEMMA InvalidatedIsAlike ==
  ASSUME IInv, NEW e, task' = Invalidated(e)
  PROVE  /\ task' \in [Tasks -> TaskRecords]
         /\ \A d \in Tasks : Alike(d)
<1>1. ASSUME NEW d \in Tasks PROVE task'[d] \in TaskRecords /\ Alike(d)
  <2>1. task[d] \in TaskRecords
    BY DEF IInv, Typed
  <2>2. CASE EventOfTask(d) = e /\ task[d].pc \in {"next", "running"}
    <3>1. task'[d] = [task[d] EXCEPT !.stale = TRUE]
      BY <2>2 DEF Invalidated
    <3>2. /\ task'[d] \in TaskRecords /\ task'[d].locked = task[d].locked
          /\ task'[d].pc = task[d].pc /\ task'[d].list = task[d].list
          /\ task'[d].pos = task[d].pos /\ task'[d].handled = task[d].handled
      BY <2>1, <3>1, TaskGoneStale
    <3> QED BY <2>2, <3>2 DEF Alike
  <2>3. CASE ~(EventOfTask(d) = e /\ task[d].pc \in {"next", "running"})
    <3>1. task'[d] = task[d]
      BY <2>3 DEF Invalidated
    <3> QED BY <2>1, <3>1 DEF Alike
  <2> QED BY <2>2, <2>3
<1> QED BY <1>1 DEF Invalidated

LEMMA SameIsAlike ==
  ASSUME UNCHANGED task
  PROVE  \A d \in Tasks : Alike(d)
  BY DEF Alike

\* The tasks and what is covered, when handlers come or go.
LEMMA AlikeKeeps ==
  ASSUME IInv, \A d \in Tasks : Alike(d), UNCHANGED mail,
         \A m \in Msgs :
           /\ covered'[m] \subseteq covered[m]
           /\ covered'[m] \subseteq HandlerTypes(SM!ListOf(Heard(m))')
  PROVE  /\ \A d \in Tasks : TaskSound(d)'
         /\ \A m \in Msgs : OneLock(m)' /\ CoveredSound(m)'
<1>1. \A d \in Tasks : d[1] \in Msgs
  BY DEF Tasks
<1>2. \A d \in Tasks : TaskSound(d)'
  BY <1>1, AlikeIsSound DEF IInv
<1>3. \A m : HandledBy(m)' = HandledBy(m)
  BY AlikeIsHandled DEF Alike
<1>4. \A m \in Msgs : OneLock(m)'
  BY DEF IInv, OneLock, Alike
<1>5. \A m \in Msgs : CoveredSound(m)'
  <2> TAKE m \in Msgs
  <2>1. CoveredSound(m) /\ HandledBy(m)' = HandledBy(m)
    BY <1>3 DEF IInv
  <2>2. CoveredSound(m)' <=>
          /\ covered'[m] \subseteq HandlerTypes(SM!ListOf(Heard(m))')
          /\ mail'[m] = "completed" =>
               covered'[m] \intersect Resolvable \subseteq HandledBy(m)'
    BY DEF CoveredSound, HandlerTypes
  <2> QED BY <2>1, <2>2 DEF CoveredSound
<1> QED BY <1>2, <1>4, <1>5

\* Steps of a call that leave the handlers, the tasks and the messages.
LEMMA Unmoved ==
  ASSUME IInv, UNCHANGED <<handlers, task, mail, covered>>
  PROVE  /\ TableSound'
         /\ \A d \in Tasks : TaskSound(d)'
         /\ \A m \in Msgs : OneLock(m)' /\ CoveredSound(m)'
<1>1. TableSound'
  BY DEF IInv, TableSound
<1>2. \A m \in Msgs : SM!ListOf(Heard(m))' = SM!ListOf(Heard(m))
  BY DEF SM!ListOf, SM!HasSubscriptionsForEvent
<1>3. \A m \in Msgs : /\ covered'[m] \subseteq covered[m]
                      /\ covered'[m] \subseteq HandlerTypes(SM!ListOf(Heard(m))')
  BY <1>2 DEF IInv, CoveredSound
<1> QED BY <1>1, <1>3, SameIsAlike, AlikeKeeps

(***************************************************************************)
(* Writes of the table                                                     *)
(***************************************************************************)
LEMMA TableStores ==
  ASSUME TableSound, NEW e \in Names, NEW list, list = <<>> \/ Lists!GoodList(list),
         handlers' = SM!WithList(e, list)
  PROVE  /\ TableSound'
         /\ DOMAIN handlers' = DOMAIN handlers \union {e}
         /\ SM!ListOf(e)' = list
         /\ \A n : n # e => SM!ListOf(n)' = SM!ListOf(n)
<1>1. /\ DOMAIN handlers' = DOMAIN handlers \union {e}
      /\ \A n \in DOMAIN handlers' :
           handlers'[n] = IF n = e THEN list ELSE handlers[n]
      /\ handlers' = [n \in DOMAIN handlers' |-> handlers'[n]]
  BY DEF SM!WithList
<1>2. list \in Seq(SM!SubscriptionInfo)
  BY EmptyList DEF Lists!GoodList, Lists!SubscriptionInfo, SM!SubscriptionInfo
<1>3. handlers' \in [DOMAIN handlers' -> Seq(SM!SubscriptionInfo)]
  BY <1>1, <1>2 DEF TableSound
<1>4. TableSound'
  BY <1>1, <1>3 DEF TableSound
<1>5. SM!ListOf(e)' = list /\ \A n : n # e => SM!ListOf(n)' = SM!ListOf(n)
  BY <1>1 DEF SM!ListOf, SM!HasSubscriptionsForEvent
<1> QED BY <1>1, <1>4, <1>5

LEMMA TableDrops ==
  ASSUME TableSound, NEW S \in SUBSET DOMAIN handlers, handlers' = Restrict(handlers, S)
  PROVE  /\ TableSound'
         /\ DOMAIN handlers' = S
         /\ \A n \in S : SM!ListOf(n)' = SM!ListOf(n)
         /\ \A n : n \notin S => SM!ListOf(n)' = <<>>
<1>1. /\ DOMAIN handlers' = S
      /\ \A n \in S : handlers'[n] = handlers[n]
      /\ handlers' = [n \in DOMAIN handlers' |-> handlers'[n]]
  BY DEF Restrict
<1>2. handlers' \in [DOMAIN handlers' -> Seq(SM!SubscriptionInfo)]
  BY <1>1 DEF TableSound
<1>3. TableSound'
  BY <1>1, <1>2 DEF TableSound
<1>4. /\ \A n \in S : SM!ListOf(n)' = SM!ListOf(n)
      /\ \A n : n \notin S => SM!ListOf(n)' = <<>>
  BY <1>1 DEF SM!ListOf, SM!HasSubscriptionsForEvent
<1> QED BY <1>1, <1>3, <1>4

LEMMA TableCleared ==
  ASSUME handlers' = [e \in {} |-> <<>>]
  PROVE  /\ TableSound'
         /\ DOMAIN handlers' = {}
         /\ \A n : SM!ListOf(n)' = <<>>
  BY DEF TableSound, SM!ListOf, SM!HasSubscriptionsForEvent

(***************************************************************************)
(* Subscribe, Unsubscribe, Dispose                                         *)
(***************************************************************************)
\* Where a call stands after Continue.
LEMMA ContinueFacts ==
  ASSUME call \in CallRecords, NEW pc \in CallPcs, Continue(pc)
  PROVE  /\ call' \in CallRecords /\ call'.pc = pc
         /\ pc # "idle" => call'.event = call.event /\ call'.handler = call.handler
                             /\ call'.types = call.types
<1>1. CASE pc = "idle"
  BY <1>1 DEF Continue, Idle, CallRecords, CallPcs
<1>2. CASE pc # "idle"
  BY <1>2 DEF Continue, CallRecords
<1> QED BY <1>1, <1>2

LEMMA BeginKeeps ==
  ASSUME IInv, NEW pc \in {"addRule", "removeRule", "addKey", "remove", "clear"},
         NEW e, NEW h, NEW T, Begin(pc, e, h, T),
         \/ e \in Names /\ h \in Handlers /\ T \subseteq EventTypes
         \/ pc = "clear" /\ e = "none" /\ h = "none" /\ T = {}
  PROVE  IInv'
<1>1. /\ up /\ call.pc = "idle" /\ calls < MaxCalls /\ calls' = calls + 1
      /\ call' = [pc |-> pc, event |-> e, handler |-> h, types |-> T]
      /\ UNCHANGED <<handlers, eventTypes, task, rules, faults, covered,
                     up, matchAll, mail>>
  BY DEF Begin, table, unchangedByCalls
<1>2. call' \in CallRecords
  BY <1>1 DEF CallRecords, CallPcs
<1>3. calls' \in 0..MaxCalls
  BY <1>1, BoundsAssumption DEF IInv, Typed
<1>4. Typed'
  BY <1>1, <1>2, <1>3 DEF IInv, Typed
<1>5. call'.pc = pc /\ call'.event = e /\ call'.handler = h /\ call'.types = T
  BY <1>1
<1>6. CallSound'
  BY <1>1, <1>5 DEF CallSound, IInv
<1> QED BY <1>1, <1>4, <1>6, Unmoved DEF IInv

LEMMA BeginsKeep ==
  ASSUME IInv,
         \/ \E t \in EventTypes, h \in Handlers : Subscribe(t, h) \/ Unsubscribe(t, h)
         \/ \E e \in Names, h \in Handlers :
              SubscribeDynamic(e, h) \/ UnsubscribeDynamic(e, h)
         \/ Dispose
  PROVE  IInv'
<1>1. ASSUME NEW t \in EventTypes, NEW h \in Handlers, Subscribe(t, h) PROVE IInv'
  <2>1. PICK pc \in {"addRule", "addKey"} : Begin(pc, NameOf[t], h, {t})
    BY <1>1 DEF Subscribe
  <2>2. NameOf[t] \in Names /\ {t} \subseteq EventTypes
    BY NameOfAssumption
  <2> QED BY <2>1, <2>2, BeginKeeps
<1>2. ASSUME NEW t \in EventTypes, NEW h \in Handlers, Unsubscribe(t, h) PROVE IInv'
  <2>1. Begin("removeRule", NameOf[t], h, {t})
    BY <1>2 DEF Unsubscribe
  <2>2. NameOf[t] \in Names /\ {t} \subseteq EventTypes
    BY NameOfAssumption
  <2> QED BY <2>1, <2>2, BeginKeeps
<1>3. ASSUME NEW e \in Names, NEW h \in Handlers,
             SubscribeDynamic(e, h) \/ UnsubscribeDynamic(e, h)
      PROVE  IInv'
  <2>1. PICK pc \in {"addKey", "remove"} : Begin(pc, e, h, {})
    BY <1>3 DEF SubscribeDynamic, UnsubscribeDynamic
  <2> QED BY <2>1, BeginKeeps
<1>4. ASSUME Dispose PROVE IInv'
  BY <1>4, BeginKeeps DEF Dispose
<1> QED BY <1>1, <1>2, <1>3, <1>4

LEMMA FaultsStay ==
  ASSUME IInv, Fault \/ UNCHANGED faults
  PROVE  faults' \in 0..MaxFaults
  BY BoundsAssumption DEF Fault, IInv, Typed

\* The rules at the service.
LEMMA RulesKeep ==
  ASSUME IInv, AddRule \/ RemoveRule
  PROVE  IInv'
<1>1. /\ call.pc \in {"addRule", "removeRule"}
      /\ UNCHANGED <<handlers, eventTypes, task, calls, covered, up, matchAll, mail>>
  BY DEF AddRule, RemoveRule, table, unchangedByCalls
<1>2. call \in CallRecords /\ call.event \in Names /\ call.handler \in Handlers
  BY <1>1 DEF IInv, Typed, CallSound
<1>3. rules' \subseteq Labels
  BY <1>2, LabelsAssumption DEF AddRule, RemoveRule, IInv, Typed
<1>4. /\ call' \in CallRecords
      /\ call'.pc \in {"idle", "addKey", "remove"}
      /\ call'.pc # "idle" => call'.event = call.event /\ call'.handler = call.handler
  <2>1. CASE AddRule
    <3>1. Continue("addKey")
      BY <2>1 DEF AddRule
    <3> QED BY <1>2, <3>1, ContinueFacts DEF CallPcs
  <2>2. CASE RemoveRule
    <3>1. Continue("remove") \/ Continue("idle")
      BY <2>2 DEF RemoveRule, Return
    <3> QED BY <1>2, <3>1, ContinueFacts DEF CallPcs
  <2> QED BY <2>1, <2>2
<1>5. faults' \in 0..MaxFaults
  BY FaultsStay DEF AddRule, RemoveRule
<1>6. Typed'
  BY <1>1, <1>3, <1>4, <1>5 DEF IInv, Typed
<1>7. CallSound'
  BY <1>1, <1>2, <1>3, <1>4 DEF CallSound, IInv
<1> QED BY <1>1, <1>6, <1>7, Unmoved DEF IInv

LEMMA AddTypeKeeps ==
  ASSUME IInv, AddType
  PROVE  IInv'
<1>1. /\ call.pc = "addType" /\ Continue("idle")
      /\ eventTypes' = eventTypes \union call.types
      /\ UNCHANGED <<handlers, task, rules, calls, faults, covered,
                     up, matchAll, mail>>
  BY DEF AddType, TypeOfCall, Return, unchangedByCalls
<1>2. call \in CallRecords
  BY DEF IInv, Typed
<1>3. call' \in CallRecords /\ call'.pc = "idle"
  BY <1>1, <1>2, ContinueFacts DEF CallPcs
<1>4. eventTypes' \subseteq EventTypes
  BY <1>1, <1>2 DEF IInv, Typed, CallRecords
<1>5. Typed' /\ CallSound'
  BY <1>1, <1>3, <1>4 DEF IInv, Typed, CallSound
<1> QED BY <1>1, <1>5, Unmoved DEF IInv

\* The writes of the handlers: the table, the tasks and what is covered are
\* sound, and the call is.
LEMMA WriteKeeps ==
  ASSUME IInv, UNCHANGED <<up, matchAll, mail, rules, calls, faults>>,
         call' \in CallRecords, CallSound', TableSound',
         eventTypes' \subseteq EventTypes,
         task' \in [Tasks -> TaskRecords], \A d \in Tasks : Alike(d),
         covered' \in [Msgs -> SUBSET Handlers],
         \A m \in Msgs : /\ covered'[m] \subseteq covered[m]
                         /\ covered'[m] \subseteq HandlerTypes(SM!ListOf(Heard(m))')
  PROVE  IInv'
<1>1. Typed'
  BY DEF IInv, Typed
<1>2. /\ \A d \in Tasks : TaskSound(d)'
      /\ \A m \in Msgs : OneLock(m)' /\ CoveredSound(m)'
  BY AlikeKeeps
<1> QED BY <1>1, <1>2 DEF IInv

LEMMA CoveredIsListed ==
  ASSUME IInv, NEW m \in Msgs
  PROVE  /\ covered[m] \subseteq HandlerTypes(SM!ListOf(Heard(m)))
         /\ covered[m] \subseteq Handlers
  BY DEF IInv, CoveredSound, Typed

LEMMA AddKeyKeeps ==
  ASSUME IInv, AddKey
  PROVE  IInv'
<1>1. /\ call.pc = "addKey" /\ Continue("append")
      /\ handlers' = SM!WithList(call.event, SM!ListOf(call.event))
      /\ UNCHANGED <<eventTypes, task, rules, calls, faults, covered, up, matchAll, mail>>
  BY DEF AddKey, unchangedByCalls
<1>2. call \in CallRecords /\ call.event \in Names /\ call.handler \in Handlers
  BY <1>1 DEF IInv, Typed, CallSound
<1>3. /\ call' \in CallRecords /\ call'.pc = "append"
      /\ call'.event = call.event /\ call'.handler = call.handler
  BY <1>1, <1>2, ContinueFacts DEF CallPcs
<1>4. /\ TableSound' /\ DOMAIN handlers' = DOMAIN handlers \union {call.event}
      /\ \A n : SM!ListOf(n)' = SM!ListOf(n)
  BY <1>1, <1>2, TableStores, ListIsTyped DEF IInv
<1>5. CallSound'
  BY <1>1, <1>2, <1>3, <1>4 DEF CallSound, IInv
<1>6. \A m \in Msgs : covered'[m] \subseteq HandlerTypes(SM!ListOf(Heard(m))')
  BY <1>1, <1>4, CoveredIsListed
<1>7. /\ eventTypes' \subseteq EventTypes /\ task' \in [Tasks -> TaskRecords]
      /\ covered' \in [Msgs -> SUBSET Handlers]
  BY <1>1 DEF IInv, Typed
<1> QED BY <1>1, <1>3, <1>4, <1>5, <1>6, <1>7, SameIsAlike, WriteKeeps

\* What AppendHandler does to an event's list.
LEMMA AppendedList ==
  ASSUME TableSound, NEW e, NEW h \in Handlers, NEW dynamic \in BOOLEAN,
         ~SM!AlreadyRegistered(e, h)
  PROVE  /\ Lists!GoodList(SM!Appended(e, h, dynamic))
         /\ HandlerTypes(SM!Appended(e, h, dynamic)) = HandlerTypes(SM!ListOf(e)) \union {h}
<1> DEFINE list == SM!ListOf(e)
           info == [isDynamic |-> dynamic, handlerType |-> h]
<1>1. list \in Seq(SM!SubscriptionInfo) /\ (list = <<>> \/ Lists!GoodList(list))
  BY ListIsTyped
<1>2. \A i \in DOMAIN list : list[i].handlerType # h
  BY DEF SM!AlreadyRegistered, SM!Matches
<1>3. SM!Appended(e, h, dynamic) = Append(list, info)
  BY DEF SM!Appended
<1>4. info \in SM!SubscriptionInfo /\ info.handlerType = h
  BY DEF SM!SubscriptionInfo
<1>5. SM!SubscriptionInfo = Lists!SubscriptionInfo
  BY DEF SM!SubscriptionInfo, Lists!SubscriptionInfo
<1> HIDE DEF list
<1>6. Lists!GoodList(Append(list, info))
  BY <1>1, <1>2, NameOfAssumption, Lists!AppendKeepsGood
<1> HIDE DEF info
<1>7. Lists!TypesOf(Append(list, info)) = Lists!TypesOf(list) \union {info.handlerType}
  BY <1>1, <1>4, <1>5, NameOfAssumption, Lists!AppendAddsType
<1> QED BY <1>3, <1>4, <1>6, <1>7, TypesAreListed DEF list

LEMMA AppendKeeps ==
  ASSUME IInv, AppendHandler
  PROVE  IInv'
<1>1. /\ call.pc = "append"
      /\ UNCHANGED <<eventTypes, rules, calls, faults, covered, up, matchAll, mail>>
  BY DEF AppendHandler, unchangedByCalls
<1>2. call \in CallRecords /\ call.event \in Names /\ call.handler \in Handlers
  BY <1>1 DEF IInv, Typed, CallSound
<1>3. /\ eventTypes' \subseteq EventTypes
      /\ covered' \in [Msgs -> SUBSET Handlers]
  BY <1>1 DEF IInv, Typed
<1>4. CASE Return /\ UNCHANGED <<handlers, task>>
  <2>1. call' \in CallRecords /\ call'.pc = "idle"
    BY <1>2, <1>4, ContinueFacts DEF Return, CallPcs
  <2>2. TableSound' /\ task' \in [Tasks -> TaskRecords]
    BY <1>1, <1>4 DEF IInv, TableSound, Typed
  <2>3. \A m \in Msgs : covered'[m] \subseteq HandlerTypes(SM!ListOf(Heard(m))')
    BY <1>1, <1>4, CoveredIsListed DEF SM!ListOf, SM!HasSubscriptionsForEvent
  <2>4. CallSound'
    BY <2>1 DEF CallSound
  <2> QED BY <1>1, <1>3, <1>4, <2>1, <2>2, <2>3, <2>4, SameIsAlike, WriteKeeps
<1>5. CASE /\ ~SM!AlreadyRegistered(call.event, call.handler)
           /\ handlers' = SM!WithList(call.event,
                SM!Appended(call.event, call.handler, call.types = {}))
           /\ task' = Invalidated(call.event)
           /\ Continue(IF call.types = {} THEN "idle" ELSE "addType")
  <2>0. PICK e \in Names : e = call.event
    BY <1>2
  <2> DEFINE list == SM!Appended(e, call.handler, call.types = {})
  <2>1. /\ Lists!GoodList(list)
        /\ HandlerTypes(list) = HandlerTypes(SM!ListOf(e)) \union {call.handler}
    <3>1. (call.types = {}) \in BOOLEAN
      OBVIOUS
    <3> QED BY <1>2, <1>5, <2>0, <3>1, AppendedList DEF IInv
  <2>2. handlers' = SM!WithList(e, list)
    BY <1>5, <2>0
  <2> HIDE DEF list
  <2>3. /\ TableSound' /\ DOMAIN handlers' = DOMAIN handlers \union {e}
        /\ SM!ListOf(e)' = list
        /\ \A n : n # e => SM!ListOf(n)' = SM!ListOf(n)
    BY <2>1, <2>2, TableStores DEF IInv
  <2>4. /\ call' \in CallRecords /\ call'.pc \in {"idle", "addType"}
        /\ call'.pc = "addType" => call'.event = call.event /\ call'.handler = call.handler
    BY <1>2, <1>5, ContinueFacts DEF CallPcs
  <2>5. CallSound'
    BY <1>1, <1>2, <2>0, <2>3, <2>4 DEF CallSound, IInv
  <2>6. \A m \in Msgs : covered'[m] \subseteq HandlerTypes(SM!ListOf(Heard(m))')
    <3> TAKE m \in Msgs
    <3>1. covered'[m] \subseteq HandlerTypes(SM!ListOf(Heard(m)))
      BY <1>1, CoveredIsListed
    <3>2. CASE Heard(m) = e
      <4>1. SM!ListOf(Heard(m))' = list
        BY <2>3, <3>2
      <4> QED BY <2>1, <3>1, <3>2, <4>1
    <3>3. CASE Heard(m) # e
      <4>1. SM!ListOf(Heard(m))' = SM!ListOf(Heard(m))
        BY <2>3, <3>3
      <4> QED BY <3>1, <4>1
    <3> QED BY <3>2, <3>3
  <2> QED BY <1>1, <1>3, <1>5, <2>3, <2>4, <2>5, <2>6, InvalidatedIsAlike, WriteKeeps
<1> QED BY <1>4, <1>5 DEF AppendHandler

\* What List.Remove leaves of a list of distinct handlers.
LEMMA RemovedList ==
  ASSUME TableSound, NEW e, NEW h, NEW i \in SM!Matches(e, h)
  PROVE  /\ e \in DOMAIN handlers /\ SM!ListOf(e) = handlers[e]
         /\ HandlerTypes(Remaining(e, i)) = HandlerTypes(SM!ListOf(e)) \ {h}
         /\ SM!OthersRemain(e) => Lists!GoodList(Remaining(e, i))
         /\ ~SM!OthersRemain(e) => Remaining(e, i) = <<>>
<1> DEFINE list == handlers[e]
<1>1. i \in DOMAIN SM!ListOf(e) /\ SM!ListOf(e)[i].handlerType = h
  BY DEF SM!Matches
<1>2. SM!ListOf(e) # <<>>
  BY <1>1
<1>3. e \in DOMAIN handlers /\ SM!ListOf(e) = list /\ Lists!GoodList(list)
  BY <1>2, ListIsTyped DEF SM!ListOf, SM!HasSubscriptionsForEvent
<1>4. list \in Seq(SM!SubscriptionInfo)
  BY <1>3 DEF TableSound
<1>5. i \in 1..Len(list) /\ DOMAIN list = 1..Len(list) /\ list[i].handlerType = h
      /\ Len(list) \in Nat
  BY <1>1, <1>3, <1>4
<1>6. SM!SubscriptionInfo = Lists!SubscriptionInfo
  BY DEF SM!SubscriptionInfo, Lists!SubscriptionInfo
<1>7. Remaining(e, i) = Lists!RemoveAt(list, i)
  BY DEF Remaining, RemoveAt, Lists!RemoveAt
<1>8. Lists!Distinct(list)
  BY <1>3, <1>5 DEF Lists!Distinct, Lists!GoodList
<1> HIDE DEF list
<1>9. Lists!TypesOf(Lists!RemoveAt(list, i)) = Lists!TypesOf(list) \ {list[i].handlerType}
  BY <1>4, <1>5, <1>6, <1>8, NameOfAssumption, Lists!RemoveAtDropsType
<1>10. HandlerTypes(Remaining(e, i)) = HandlerTypes(SM!ListOf(e)) \ {h}
  BY <1>3, <1>5, <1>7, <1>9, TypesAreListed
<1>11. CASE SM!OthersRemain(e)
  <2>1. Len(list) > 1
    BY <1>11 DEF SM!OthersRemain, list
  <2>2. Lists!GoodList(Lists!RemoveAt(list, i))
    BY <1>3, <1>5, <2>1, NameOfAssumption, Lists!RemoveAtKeepsGood
  <2> QED BY <1>3, <1>7, <1>11, <1>10, <2>2 DEF list
<1>12. CASE ~SM!OthersRemain(e)
  <2>1. ~(Len(list) > 1)
    BY <1>12 DEF SM!OthersRemain, list
  <2>2. Len(list) = 1
    BY <1>5, <2>1
  <2>3. /\ Lists!RemoveAt(list, i) \in Seq(SM!SubscriptionInfo)
        /\ Len(Lists!RemoveAt(list, i)) = Len(list) - 1
    BY <1>4, <1>5, NameOfAssumption, Lists!RemoveAtFacts
  <2> DEFINE rest == Lists!RemoveAt(list, i)
  <2>4. rest \in Seq(SM!SubscriptionInfo) /\ Len(rest) = 0
    BY <2>2, <2>3
  <2> HIDE DEF rest
  <2>5. rest = <<>>
    BY <2>4
  <2>6. Remaining(e, i) = <<>>
    BY <1>7, <2>5 DEF rest
  <2> QED BY <1>3, <1>12, <1>10, <2>6 DEF list
<1> QED BY <1>11, <1>12

LEMMA RemoveKeeps ==
  ASSUME IInv, RemoveHandler
  PROVE  IInv'
<1>1. /\ call.pc = "remove"
      /\ UNCHANGED <<eventTypes, rules, calls, faults, up, matchAll, mail>>
  BY DEF RemoveHandler, unchangedByCalls
<1>2. call \in CallRecords /\ call.event \in Names /\ call.handler \in Handlers
  BY <1>1 DEF IInv, Typed, CallSound
<1>3. /\ eventTypes' \subseteq EventTypes
      /\ covered \in [Msgs -> SUBSET Handlers]
  BY <1>1 DEF IInv, Typed
<1>4. CASE Return /\ UNCHANGED <<handlers, task, covered>>
  <2>1. call' \in CallRecords /\ call'.pc = "idle"
    BY <1>2, <1>4, ContinueFacts DEF Return, CallPcs
  <2>2. TableSound' /\ task' \in [Tasks -> TaskRecords]
    BY <1>1, <1>4 DEF IInv, TableSound, Typed
  <2>3. \A m \in Msgs : covered'[m] \subseteq HandlerTypes(SM!ListOf(Heard(m))')
    BY <1>4, CoveredIsListed DEF SM!ListOf, SM!HasSubscriptionsForEvent
  <2>4. CallSound'
    BY <2>1 DEF CallSound
  <2> QED BY <1>1, <1>3, <1>4, <2>1, <2>2, <2>3, <2>4, SameIsAlike, WriteKeeps
<1>5. ASSUME NEW i \in SM!Matches(call.event, call.handler),
             handlers' = SM!WithList(call.event, Remaining(call.event, i)),
             task' = Invalidated(call.event),
             covered' = CoveredWithout(call.event, call.handler),
             Continue(IF SM!OthersRemain(call.event) THEN "idle" ELSE "dropKey")
      PROVE  IInv'
  <2>0. PICK e \in Names : e = call.event
    BY <1>2
  <2> DEFINE list == Remaining(e, i)
  <2>1. /\ e \in DOMAIN handlers
        /\ HandlerTypes(list) = HandlerTypes(SM!ListOf(e)) \ {call.handler}
        /\ SM!OthersRemain(e) => Lists!GoodList(list)
        /\ ~SM!OthersRemain(e) => list = <<>>
    BY <1>5, <2>0, RemovedList DEF IInv
  <2>2. handlers' = SM!WithList(e, list)
    BY <1>5, <2>0
  <2> HIDE DEF list
  <2>3. /\ TableSound' /\ DOMAIN handlers' = DOMAIN handlers \union {e}
        /\ SM!ListOf(e)' = list
        /\ \A n : n # e => SM!ListOf(n)' = SM!ListOf(n)
    BY <2>1, <2>2, TableStores DEF IInv
  <2>4. /\ call' \in CallRecords /\ call'.pc \in {"idle", "dropKey"}
        /\ call'.pc = "dropKey" => /\ ~SM!OthersRemain(e) /\ call'.event = e
                                   /\ call'.handler = call.handler
    BY <1>2, <1>5, <2>0, ContinueFacts DEF CallPcs
  <2>5. CallSound'
    <3>1. call'.pc = "dropKey" => SM!ListOf(e)' = <<>> /\ call'.event = e
      BY <2>1, <2>3, <2>4
    <3>2. call'.pc = "dropKey" => SM!ListOf(call.event)' = <<>>
      BY <3>1 DEF SM!ListOf, SM!HasSubscriptionsForEvent
    <3> QED BY <1>1, <1>2, <2>1, <2>3, <2>4, <3>2 DEF CallSound, IInv
  <2>6. \A m \in Msgs : /\ covered'[m] \subseteq covered[m]
                        /\ Heard(m) = e => covered'[m] = covered[m] \ {call.handler}
    BY <1>5, <2>0 DEF CoveredWithout
  <2>7. \A m \in Msgs : covered'[m] \subseteq HandlerTypes(SM!ListOf(Heard(m))')
    <3> TAKE m \in Msgs
    <3>1. covered[m] \subseteq HandlerTypes(SM!ListOf(Heard(m)))
      BY CoveredIsListed
    <3>2. CASE Heard(m) = e
      <4>1. SM!ListOf(Heard(m))' = list
        BY <2>3, <3>2
      <4> QED BY <2>1, <2>6, <3>1, <3>2, <4>1
    <3>3. CASE Heard(m) # e
      <4>1. SM!ListOf(Heard(m))' = SM!ListOf(Heard(m))
        BY <2>3, <3>3
      <4> QED BY <2>6, <3>1, <4>1
    <3> QED BY <3>2, <3>3
  <2>8. covered' \in [Msgs -> SUBSET Handlers]
    BY <1>3, <1>5 DEF CoveredWithout
  <2> QED BY <1>1, <1>3, <1>5, <2>3, <2>4, <2>5, <2>6, <2>7, <2>8,
            InvalidatedIsAlike, WriteKeeps
<1> QED BY <1>4, <1>5 DEF RemoveHandler

LEMMA DropKeyKeeps ==
  ASSUME IInv, DropKey
  PROVE  IInv'
<1>1. /\ call.pc = "dropKey"
      /\ handlers' = Restrict(handlers, DOMAIN handlers \ {call.event})
      /\ eventTypes' \subseteq eventTypes
      /\ Return
      /\ UNCHANGED <<task, rules, calls, faults, covered, up, matchAll, mail>>
  BY DEF DropKey, unchangedByCalls
<1>2. /\ call \in CallRecords /\ call.event \in Names
      /\ SM!ListOf(call.event) = <<>>
  BY <1>1 DEF IInv, Typed, CallSound
<1>3. PICK e \in Names : e = call.event
  BY <1>2
<1>4. /\ TableSound' /\ DOMAIN handlers' = DOMAIN handlers \ {e}
      /\ \A n : SM!ListOf(n)' = SM!ListOf(n)
  <2>1. DOMAIN handlers \ {e} \in SUBSET DOMAIN handlers
    OBVIOUS
  <2>2. handlers' = Restrict(handlers, DOMAIN handlers \ {e})
    BY <1>1, <1>3
  <2>3. /\ TableSound' /\ DOMAIN handlers' = DOMAIN handlers \ {e}
        /\ \A n \in DOMAIN handlers \ {e} : SM!ListOf(n)' = SM!ListOf(n)
        /\ \A n : n \notin DOMAIN handlers \ {e} => SM!ListOf(n)' = <<>>
    BY <2>1, <2>2, TableDrops DEF IInv
  <2>4. \A n : n \notin DOMAIN handlers \ {e} => SM!ListOf(n) = <<>>
    BY <1>2, <1>3 DEF SM!ListOf, SM!HasSubscriptionsForEvent
  <2> QED BY <2>3, <2>4
<1>5. call' \in CallRecords /\ call'.pc = "idle"
  BY <1>1, <1>2, ContinueFacts DEF Return, CallPcs
<1>6. CallSound'
  BY <1>1, <1>4, <1>5 DEF CallSound, IInv
<1>7. \A m \in Msgs : covered'[m] \subseteq HandlerTypes(SM!ListOf(Heard(m))')
  BY <1>1, <1>4, CoveredIsListed
<1>8. /\ eventTypes' \subseteq EventTypes
      /\ task' \in [Tasks -> TaskRecords] /\ covered' \in [Msgs -> SUBSET Handlers]
  BY <1>1 DEF IInv, Typed
<1> QED BY <1>1, <1>4, <1>5, <1>6, <1>7, <1>8, SameIsAlike, WriteKeeps

LEMMA ClearKeeps ==
  ASSUME IInv, ClearTable
  PROVE  IInv'
<1>1. /\ call.pc = "clear" /\ Continue("over")
      /\ handlers' = [e \in {} |-> <<>>] /\ covered' = [m \in Msgs |-> {}]
      /\ UNCHANGED <<eventTypes, task, rules, calls, faults, up, matchAll, mail>>
  BY DEF ClearTable, unchangedByCalls
<1>2. TableSound' /\ DOMAIN handlers' = {}
  BY <1>1, TableCleared
<1>3. call' \in CallRecords /\ call'.pc = "over"
  <2>1. call \in CallRecords
    BY DEF IInv, Typed
  <2> QED BY <1>1, <2>1, ContinueFacts DEF CallPcs
<1>4. CallSound'
  BY <1>2, <1>3 DEF CallSound
<1>5. /\ covered' \in [Msgs -> SUBSET Handlers]
      /\ \A m \in Msgs : covered'[m] = {}
  BY <1>1
<1>6. /\ eventTypes' \subseteq EventTypes
      /\ task' \in [Tasks -> TaskRecords]
  BY <1>1 DEF IInv, Typed
<1> QED BY <1>1, <1>2, <1>3, <1>4, <1>5, <1>6, SameIsAlike, WriteKeeps

LEMMA CallKeeps ==
  ASSUME IInv, Call
  PROVE  IInv'
BY BeginsKeep, RulesKeep, AddTypeKeeps, AddKeyKeeps, AppendKeeps, RemoveKeeps,
   DropKeyKeeps, ClearKeeps DEF Call

(***************************************************************************)
(* Processes come and go, publications                                     *)
(***************************************************************************)
\* The constructor takes the default rule away, and knows of no handlers yet.
LEMMA StartKeeps ==
  ASSUME IInv, Start
  PROVE  IInv'
<1>1. /\ up' = TRUE /\ matchAll' = FALSE
      /\ UNCHANGED <<handlers, eventTypes, call, task, rules, mail, calls, faults, covered>>
  BY DEF Start, table
<1>2. Typed'
  BY <1>1 DEF IInv, Typed
<1>3. CallSound'
  <2>1. SM!ListOf(call.event)' = SM!ListOf(call.event)
    BY <1>1 DEF SM!ListOf, SM!HasSubscriptionsForEvent
  <2> QED BY <1>1, <2>1 DEF IInv, CallSound
<1> QED BY <1>1, <1>2, <1>3, Unmoved DEF IInv

\* A dead process: no table, no call and no task, but the locks are still held.
LEMMA KilledKeeps ==
  ASSUME IInv, Killed
  PROVE  IInv'
<1>1. /\ up' = FALSE /\ call' = Idle /\ Fault
      /\ handlers' = [e \in {} |-> <<>>] /\ eventTypes' = {}
      /\ task' = [d \in Tasks |->
           IF Active(d) THEN [task[d] EXCEPT !.pc = "dead"] ELSE task[d]]
      /\ covered' = [m \in Msgs |-> {}]
      /\ UNCHANGED <<rules, matchAll, mail, calls>>
  BY DEF Killed, service
<1>2. TableSound' /\ DOMAIN handlers' = {}
  BY <1>1, TableCleared
<1>3. ASSUME NEW d \in Tasks
      PROVE  /\ task'[d] \in TaskRecords /\ TaskSound(d)'
             /\ task'[d].handled = task[d].handled /\ task'[d].locked = task[d].locked
  <2>1. task[d] \in TaskRecords /\ TaskSound(d) /\ d[1] \in Msgs
    BY DEF IInv, Typed, Tasks
  <2>2. CASE Active(d)
    <3>1. task'[d] = [task[d] EXCEPT !.pc = "dead"]
      BY <1>1, <2>2
    <3>2. /\ task'[d] \in TaskRecords /\ task'[d].pc = "dead"
          /\ task'[d].locked = task[d].locked /\ task'[d].handled = task[d].handled
      BY <2>1, <3>1 DEF TaskRecords, TaskPcs
    <3>3. mail'[d[1]] \notin {"unsent", "unrouted"}
      BY <1>1, <2>1, <2>2 DEF TaskSound, Active
    <3> QED BY <1>1, <2>1, <3>2, <3>3 DEF TaskSound
  <2>3. CASE ~Active(d)
    <3>1. task'[d] = task[d]
      BY <1>1, <2>3
    <3>2. covered'[d[1]] = {}
      BY <1>1, <2>1
    <3> QED BY <1>1, <2>1, <2>3, <3>1, <3>2 DEF TaskSound, Active
  <2> QED BY <2>2, <2>3
<1>4. \A m \in Msgs : OneLock(m)' /\ CoveredSound(m)'
  BY <1>1, <1>3 DEF IInv, OneLock, CoveredSound
<1>5. Typed'
  <2>1. faults' \in 0..MaxFaults
    BY <1>1, FaultsStay
  <2>2. call' \in CallRecords
    BY <1>1 DEF Idle, CallRecords, CallPcs
  <2>3. task' \in [Tasks -> TaskRecords]
    BY <1>1, <1>3
  <2>4. covered' \in [Msgs -> SUBSET Handlers]
    BY <1>1
  <2> QED BY <1>1, <2>1, <2>2, <2>3, <2>4 DEF IInv, Typed
<1>6. CallSound'
  BY <1>1, <1>2 DEF CallSound, Idle
<1> QED BY <1>2, <1>3, <1>4, <1>5, <1>6 DEF IInv

\* A publication: the message waits in the subscription, or is nowhere.
LEMMA PublishKeeps ==
  ASSUME IInv, NEW m \in Msgs, Publish(m)
  PROVE  IInv'
<1>1. /\ mail[m] = "unsent"
      /\ UNCHANGED <<handlers, eventTypes, up, call, task, rules, matchAll, calls, faults>>
  BY DEF Publish, table
<1>2. /\ mail' \in [Msgs -> {"unsent", "unrouted", "ready", "held", "completed", "dead"}]
      /\ \A n \in Msgs : n # m => mail'[n] = mail[n]
      /\ mail'[m] \in {"ready", "unrouted"}
  BY DEF Publish, IInv, Typed
<1>3. SubscribedNow(Heard(m)) \subseteq HandlerTypes(SM!ListOf(Heard(m)))
  BY DEF SubscribedNow
<1>4. HandlerTypes(SM!ListOf(Heard(m))) \subseteq Handlers
  BY ListIsTyped, TypesAreHandlers DEF IInv
<1>5. /\ covered' \in [Msgs -> SUBSET Handlers]
      /\ \A n \in Msgs : n # m => covered'[n] = covered[n]
      /\ covered'[m] \subseteq HandlerTypes(SM!ListOf(Heard(m)))
  <2>1. CASE covered' = [covered EXCEPT ![m] = SubscribedNow(Heard(m))]
    BY <1>3, <1>4, <2>1 DEF IInv, Typed
  <2>2. CASE UNCHANGED covered
    BY <2>2, CoveredIsListed DEF IInv, Typed
  <2> QED BY <2>1, <2>2 DEF Publish
<1>6. ASSUME NEW d \in Tasks PROVE TaskSound(d)'
  <2>1. d[1] \in Msgs /\ TaskSound(d) /\ Alike(d)
    BY <1>1, SameIsAlike DEF Tasks, IInv
  <2>2. mail'[d[1]] = mail[d[1]] \/ mail[d[1]] = "unsent"
    BY <1>1, <1>2, <2>1
  <2>3. mail[d[1]] # "unsent" => covered'[d[1]] \subseteq covered[d[1]]
    BY <1>1, <1>5, <2>1
  <2> QED BY <2>1, <2>2, <2>3, AlikeIsSound
<1>7. ASSUME NEW n \in Msgs PROVE OneLock(n)' /\ CoveredSound(n)'
  <2>1. SM!ListOf(Heard(n))' = SM!ListOf(Heard(n)) /\ HandledBy(n)' = HandledBy(n)
    BY <1>1 DEF SM!ListOf, SM!HasSubscriptionsForEvent, HandledBy
  <2>2. CoveredSound(n) /\ OneLock(n)
    BY DEF IInv
  <2>3. OneLock(n)'
    BY <1>1, <2>2 DEF OneLock
  <2> QED BY <1>1, <1>2, <1>5, <2>1, <2>2, <2>3 DEF CoveredSound
<1>8. TableSound' /\ CallSound'
  BY <1>1 DEF IInv, TableSound, CallSound, SM!ListOf, SM!HasSubscriptionsForEvent
<1>9. Typed'
  BY <1>1, <1>2, <1>5 DEF IInv, Typed
<1> QED BY <1>6, <1>7, <1>8, <1>9 DEF IInv

(***************************************************************************)
(* The message handler                                                     *)
(***************************************************************************)
unseenByTasks == <<handlers, eventTypes, up, call, rules, matchAll, calls, covered>>

\* One delivery moves, and perhaps its message with it: the other deliveries of
\* the message go on, without the lock if this one has it or gives it back.
LEMMA OneTask ==
  ASSUME IInv, NEW d \in Tasks, UNCHANGED unseenByTasks, Fault \/ UNCHANGED faults,
         NEW r \in TaskRecords, task' = [task EXCEPT ![d] = r],
         NEW w \in {"ready", "held", "completed", "dead"}, mail' = [mail EXCEPT ![d[1]] = w],
         mail[d[1]] \notin {"unsent", "unrouted"},
         TaskSound(d)', task[d].handled \subseteq r.handled,
         \A x \in Tasks : x # d /\ x[1] = d[1] /\ task[x].locked => ~r.locked /\ w = "held",
         w = "completed" => \/ mail[d[1]] = "completed"
                            \/ covered[d[1]] \intersect Resolvable \subseteq r.handled
  PROVE  IInv'
<1>1. d[1] \in Msgs
  BY DEF Tasks
<1>2. task' \in [Tasks -> TaskRecords]
  BY DEF IInv, Typed
<1>3. task'[d] = r /\ \A x \in Tasks : x # d => task'[x] = task[x]
  BY DEF IInv, Typed
<1>4. /\ mail' \in [Msgs -> {"unsent", "unrouted", "ready", "held", "completed", "dead"}]
      /\ mail'[d[1]] = w /\ \A n \in Msgs : n # d[1] => mail'[n] = mail[n]
  BY <1>1 DEF IInv, Typed
<1>5. Typed' /\ TableSound' /\ CallSound'
  <2>1. faults' \in 0..MaxFaults
    BY FaultsStay
  <2> QED BY <1>2, <1>4, <2>1 DEF IInv, Typed, TableSound, CallSound,
        SM!ListOf, SM!HasSubscriptionsForEvent, unseenByTasks
<1>6. ASSUME NEW x \in Tasks, x # d PROVE TaskSound(x)'
  <2>1. TaskSound(x) /\ x[1] \in Msgs /\ task'[x] = task[x] /\ covered' = covered
    BY <1>3, <1>6 DEF IInv, Tasks, unseenByTasks
  <2>2. (AtEnd(x)' <=> AtEnd(x)) /\ Current(x)' = Current(x)
    BY <2>1 DEF AtEnd, Current
  <2>3. CASE x[1] # d[1]
    <3>1. mail'[x[1]] = mail[x[1]]
      BY <1>4, <2>1, <2>3
    <3> QED BY <2>1, <2>2, <3>1 DEF TaskSound
  <2>4. CASE x[1] = d[1]
    <3>1. mail'[x[1]] = w /\ (task[x].locked => w = "held")
      BY <1>4, <1>6, <2>4
    <3> QED BY <2>1, <2>2, <3>1 DEF TaskSound
  <2> QED BY <2>3, <2>4
<1>7. ASSUME NEW n \in Msgs PROVE CoveredSound(n)'
  <2>1. SM!ListOf(Heard(n))' = SM!ListOf(Heard(n)) /\ covered' = covered
    BY DEF SM!ListOf, SM!HasSubscriptionsForEvent, unseenByTasks
  <2>2. \A x \in Tasks : task[x].handled \subseteq task'[x].handled
    BY <1>3
  <2>3. HandledBy(n) \subseteq HandledBy(n)'
    BY <2>2 DEF HandledBy
  <2>4. n = d[1] => r.handled \subseteq HandledBy(n)'
    BY <1>3 DEF HandledBy
  <2>5. CoveredSound(n)
    BY DEF IInv
  <2> QED BY <1>4, <2>1, <2>3, <2>4, <2>5 DEF CoveredSound
<1>8. ASSUME NEW n \in Msgs PROVE OneLock(n)'
  <2>1. OneLock(n)
    BY DEF IInv
  <2>2. \A x \in Tasks : x # d /\ x[1] = d[1] /\ task'[x].locked => ~r.locked
    BY <1>3
  <2> QED BY <1>3, <2>1, <2>2 DEF OneLock
<1> QED BY <1>5, <1>6, <1>7, <1>8 DEF IInv

\* What holds of a task where it stands; only one delivery has the lock, and
\* a message that is not held has none.
LEMMA TaskFacts ==
  ASSUME IInv, NEW d \in Tasks
  PROVE  /\ d[1] \in Msgs /\ EventOfTask(d) \in Names
         /\ task[d] \in TaskRecords /\ TaskSound(d)
         /\ task[d].list \in Seq(SM!SubscriptionInfo) /\ task[d].pos \in Nat
         /\ Len(task[d].list) \in Nat /\ task[d].handled \subseteq Handlers
         /\ mail[d[1]] \in {"unsent", "unrouted", "ready", "held", "completed", "dead"}
         /\ task[d].pc # "none" => mail[d[1]] \in {"ready", "held", "completed", "dead"}
         /\ \A x \in Tasks : x[1] = d[1] /\ task[x].locked => mail[d[1]] = "held"
         /\ \A x \in Tasks : x # d /\ x[1] = d[1] /\ task[x].locked => ~task[d].locked
<1>1. d[1] \in Msgs /\ EventOfTask(d) \in Names /\ task[d] \in TaskRecords /\ TaskSound(d)
      /\ mail[d[1]] \in {"unsent", "unrouted", "ready", "held", "completed", "dead"}
  BY EventOfAssumption, LabelsAssumption DEF IInv, Typed, Tasks, EventOfTask, Heard, Label
<1>2. /\ task[d].list \in Seq(SM!SubscriptionInfo) /\ task[d].pos \in Nat
      /\ Len(task[d].list) \in Nat /\ task[d].handled \subseteq Handlers
  BY <1>1 DEF TaskRecords
<1>3. \A x \in Tasks : x[1] = d[1] /\ task[x].locked => mail[d[1]] = "held"
  BY DEF IInv, TaskSound
<1>4. \A x \in Tasks : x # d /\ x[1] = d[1] /\ task[x].locked => ~task[d].locked
  BY <1>1 DEF IInv, OneLock
<1> QED BY <1>1, <1>2, <1>3, <1>4 DEF TaskSound

\* A task that moves on: the message stays with whoever has its lock.
LEMMA OneTaskOn ==
  ASSUME IInv, NEW d \in Tasks, UNCHANGED unseenByTasks, UNCHANGED <<mail, faults>>,
         NEW r \in TaskRecords, task' = [task EXCEPT ![d] = r],
         task[d].pc # "none", r.locked = task[d].locked,
         TaskSound(d)', task[d].handled \subseteq r.handled
  PROVE  IInv'
<1>1. mail[d[1]] \in {"ready", "held", "completed", "dead"}
  BY TaskFacts
<1>2. mail' = [mail EXCEPT ![d[1]] = mail[d[1]]]
  BY TaskFacts DEF IInv, Typed
<1>3. \A x \in Tasks : x # d /\ x[1] = d[1] /\ task[x].locked =>
        ~r.locked /\ mail[d[1]] = "held"
  BY TaskFacts
<1> QED BY <1>1, <1>2, <1>3, OneTask

\* A callback that threw: the message is given back if the lock is still there.
LEMMA AbandonKeeps ==
  ASSUME IInv, NEW d \in Tasks, UNCHANGED unseenByTasks, Fault \/ UNCHANGED faults,
         task[d].pc # "none", Abandon(d)
  PROVE  IInv'
<1> DEFINE s1 == [task[d] EXCEPT !.pc = "failed"]
           r == [s1 EXCEPT !.locked = FALSE]
           w == IF task[d].locked
                THEN IF d[2] < MaxDeliveries THEN "ready" ELSE "dead"
                ELSE mail[d[1]]
<1>1. /\ d[1] \in Msgs /\ task[d] \in TaskRecords /\ TaskSound(d)
      /\ mail[d[1]] \in {"ready", "held", "completed", "dead"}
      /\ \A x \in Tasks : x[1] = d[1] /\ task[x].locked => mail[d[1]] = "held"
      /\ \A x \in Tasks : x # d /\ x[1] = d[1] /\ task[x].locked => ~task[d].locked
  BY TaskFacts
<1>2. task' = [task EXCEPT ![d] = r]
  <2>1. [task[d] EXCEPT !.pc = "failed", !.locked = FALSE] = r
    BY <1>1 DEF TaskRecords
  <2> QED BY <2>1 DEF Abandon, Step
<1>3. mail' = [mail EXCEPT ![d[1]] = w]
  <2>1. CASE task[d].locked
    BY <2>1 DEF Abandon, GiveBack
  <2>2. CASE ~task[d].locked
    BY <1>1, <2>2 DEF Abandon, IInv, Typed
  <2> QED BY <2>1, <2>2
<1>4. /\ w \in {"ready", "held", "completed", "dead"}
      /\ w = "completed" => mail[d[1]] = "completed"
      /\ \A x \in Tasks : x # d /\ x[1] = d[1] /\ task[x].locked => w = "held"
  BY <1>1
<1> HIDE DEF w
<1>5. s1 \in TaskRecords /\ s1.pc = "failed" /\ s1.handled = task[d].handled
  BY <1>1 DEF TaskRecords, TaskPcs
<1> HIDE DEF s1
<1>6. r \in TaskRecords /\ r.pc = "failed" /\ ~r.locked /\ r.handled = task[d].handled
  BY <1>5 DEF TaskRecords
<1> HIDE DEF r
<1>7. task'[d] = r /\ mail'[d[1]] = w
  BY <1>1, <1>2, <1>3 DEF IInv, Typed
<1>8. TaskSound(d)'
  BY <1>4, <1>6, <1>7 DEF TaskSound
<1> QED BY <1>1, <1>2, <1>3, <1>4, <1>6, <1>8, OneTask

\* A message without lock goes to the first delivery that has not been.
LEMMA DeliverKeeps ==
  ASSUME IInv, NEW d \in Tasks, Deliver(d)
  PROVE  IInv'
<1> DEFINE r == [NoTask EXCEPT !.pc = "check", !.locked = TRUE]
<1>1. /\ mail[d[1]] = "ready" /\ task[d].pc = "none"
      /\ task' = [task EXCEPT ![d] = r] /\ mail' = [mail EXCEPT ![d[1]] = "held"]
      /\ UNCHANGED unseenByTasks /\ UNCHANGED faults
  BY DEF Deliver, Step, unchangedByTasks, unseenByTasks, table
<1>2. d[1] \in Msgs /\ task[d] = NoTask
      /\ \A x \in Tasks : x[1] = d[1] /\ task[x].locked => mail[d[1]] = "held"
  BY <1>1, TaskFacts DEF TaskSound
<1>3. r \in TaskRecords /\ r.pc = "check" /\ r.locked /\ r.list = <<>> /\ r.handled = {}
  BY EmptyList DEF NoTask, TaskRecords, TaskPcs
<1> HIDE DEF r
<1>4. task'[d] = r /\ mail'[d[1]] = "held"
  BY <1>1, <1>2 DEF IInv, Typed
<1>5. TaskSound(d)'
  BY <1>3, <1>4 DEF TaskSound
<1>6. task[d].handled \subseteq r.handled
  BY <1>2, <1>3 DEF NoTask
<1> QED BY <1>1, <1>2, <1>3, <1>5, <1>6, OneTask

LEMMA CheckKeeps ==
  ASSUME IInv, NEW d \in Tasks, Check(d)
  PROVE  IInv'
<1> DEFINE pc == IF SM!HasSubscriptionsForEvent(EventOfTask(d)) THEN "get" ELSE "left"
           r == [task[d] EXCEPT !.pc = pc]
<1>1. /\ task[d].pc = "check" /\ task' = [task EXCEPT ![d] = r]
      /\ UNCHANGED unseenByTasks /\ UNCHANGED <<mail, faults>>
  BY DEF Check, Step, WithoutSubscription, unchangedByTasks, unseenByTasks, table
<1>2. d[1] \in Msgs /\ task[d] \in TaskRecords /\ TaskSound(d)
  BY TaskFacts
<1>3. pc \in {"get", "left"}
  OBVIOUS
<1> HIDE DEF pc
<1>4. /\ r \in TaskRecords /\ r.pc = pc /\ r.locked = task[d].locked
      /\ r.list = task[d].list /\ r.handled = task[d].handled
  BY <1>2, <1>3 DEF TaskRecords, TaskPcs
<1> HIDE DEF r
<1>5. task'[d] = r
  BY <1>1 DEF IInv, Typed
<1>6. TaskSound(d)'
  BY <1>1, <1>2, <1>3, <1>4, <1>5 DEF TaskSound
<1> QED BY <1>1, <1>4, <1>6, OneTaskOn

LEMMA GetKeeps ==
  ASSUME IInv, NEW d \in Tasks, Get(d)
  PROVE  IInv'
<1> DEFINE list == SM!ListOf(EventOfTask(d))
           pc == IF list = <<>> THEN "complete" ELSE "next"
           s1 == [task[d] EXCEPT !.list = list]
           s2 == [s1 EXCEPT !.pos = 1]
           r == [s2 EXCEPT !.pc = pc]
<1>1. task[d].pc = "get" /\ UNCHANGED unseenByTasks /\ UNCHANGED faults
  BY DEF Get, unchangedByTasks, unseenByTasks, table
<1>2. CASE Abandon(d)
  BY <1>1, <1>2, AbandonKeeps
<1>3. CASE /\ Step(d, [task[d] EXCEPT !.list = list, !.pos = 1,
                                      !.pc = IF list = <<>> THEN "complete" ELSE "next"])
           /\ UNCHANGED mail
  <2>1. d[1] \in Msgs /\ task[d] \in TaskRecords /\ TaskSound(d)
    BY TaskFacts
  <2>2. list \in Seq(SM!SubscriptionInfo)
    BY ListIsTyped DEF IInv
  <2>3. covered[d[1]] \subseteq HandlerTypes(list)
    BY <2>1, CoveredIsListed DEF EventOfTask
  <2>4. pc \in {"next", "complete"} /\ (pc = "complete" => list = <<>>)
    OBVIOUS
  <2>5. [task[d] EXCEPT !.list = list, !.pos = 1,
                        !.pc = IF list = <<>> THEN "complete" ELSE "next"] = r
    BY <2>1 DEF TaskRecords
  <2>6. task' = [task EXCEPT ![d] = r]
    BY <1>3, <2>5 DEF Step
  <2> HIDE DEF list, pc
  <2>7. /\ s1 \in TaskRecords /\ s1.list = list /\ s1.locked = task[d].locked
        /\ s1.handled = task[d].handled
    BY <2>1, <2>2 DEF TaskRecords
  <2> HIDE DEF s1
  <2>8. /\ s2 \in TaskRecords /\ s2.list = list /\ s2.locked = task[d].locked
        /\ s2.handled = task[d].handled /\ s2.pos = 1
    BY <2>7 DEF TaskRecords
  <2> HIDE DEF s2
  <2>9. /\ r \in TaskRecords /\ r.list = list /\ r.locked = task[d].locked
        /\ r.handled = task[d].handled /\ r.pos = 1 /\ r.pc = pc
    BY <2>4, <2>8 DEF TaskRecords, TaskPcs
  <2> HIDE DEF r
  <2>10. task'[d] = r
    BY <2>6 DEF IInv, Typed
  <2>11. r.handled = {}
    BY <1>1, <2>1, <2>9 DEF TaskSound
  <2>12. r.pos \in 1..(Len(r.list) + 1) /\ Past(r.list, r.pos - 1) = {}
    <3>1. Len(list) \in Nat
      BY <2>2
    <3>2. Past(list, 0) = {}
      BY <2>2, PastGrows
    <3> QED BY <2>9, <3>1, <3>2
  <2>13. pc = "complete" => HandlerTypes(r.list) = {}
    BY <2>4, <2>9, EmptyList
  <2>14. TaskSound(d)'
    BY <1>1, <1>3, <2>1, <2>3, <2>4, <2>9, <2>10, <2>11, <2>12, <2>13
    DEF TaskSound, unseenByTasks
  <2>15. task[d].pc # "none" /\ task[d].handled \subseteq r.handled
    BY <1>1, <2>9
  <2> QED BY <1>1, <1>3, <2>6, <2>9, <2>14, <2>15, OneTaskOn
<1> QED BY <1>2, <1>3 DEF Get

LEMMA MoveNextKeeps ==
  ASSUME IInv, NEW d \in Tasks, MoveNext(d)
  PROVE  IInv'
<1>1. task[d].pc = "next" /\ UNCHANGED unseenByTasks /\ UNCHANGED faults
  BY DEF MoveNext, unchangedByTasks, unseenByTasks, table
<1>2. /\ d[1] \in Msgs /\ task[d] \in TaskRecords /\ TaskSound(d)
      /\ task[d].list \in Seq(SM!SubscriptionInfo) /\ task[d].pos \in Nat
      /\ Len(task[d].list) \in Nat
  BY TaskFacts
<1>3. /\ task[d].pos \in 1..(Len(task[d].list) + 1)
      /\ task[d].handled = Past(task[d].list, task[d].pos - 1) \intersect Resolvable
      /\ covered[d[1]] \subseteq HandlerTypes(task[d].list)
  BY <1>1, <1>2 DEF TaskSound
<1>4. CASE Abandon(d)
  BY <1>1, <1>4, AbandonKeeps
<1>5. ASSUME UNCHANGED mail,
             NEW pc \in {"complete", "running"}, Step(d, [task[d] EXCEPT !.pc = pc]),
             pc = "complete" => AtEnd(d),
             pc = "running" => ~AtEnd(d) /\ Current(d).handlerType \in Resolvable
      PROVE  IInv'
  <2> DEFINE r == [task[d] EXCEPT !.pc = pc]
  <2>1. task' = [task EXCEPT ![d] = r]
    BY <1>5 DEF Step
  <2>2. /\ r \in TaskRecords /\ r.pc = pc /\ r.list = task[d].list /\ r.pos = task[d].pos
        /\ r.handled = task[d].handled /\ r.locked = task[d].locked
    BY <1>2 DEF TaskRecords, TaskPcs
  <2> HIDE DEF r
  <2>3. task'[d] = r
    BY <2>1 DEF IInv, Typed
  <2>4. (AtEnd(d)' <=> AtEnd(d)) /\ Current(d)' = Current(d)
    BY <2>2, <2>3 DEF AtEnd, Current
  <2>5. pc = "complete" => r.handled = HandlerTypes(r.list) \intersect Resolvable
    <3> SUFFICES ASSUME AtEnd(d)
                 PROVE  task[d].handled = HandlerTypes(task[d].list) \intersect Resolvable
      BY <1>5, <2>2
    <3>1. task[d].pos - 1 = Len(task[d].list)
      BY <1>2, <1>3 DEF AtEnd
    <3>2. Past(task[d].list, Len(task[d].list)) = HandlerTypes(task[d].list)
      BY <1>2, PastGrows
    <3> QED BY <1>3, <3>1, <3>2
  <2>6. TaskSound(d)'
    BY <1>1, <1>2, <1>3, <1>5, <2>1, <2>2, <2>3, <2>4, <2>5 DEF TaskSound, unseenByTasks
  <2>7. task[d].pc # "none" /\ task[d].handled \subseteq r.handled
    BY <1>1, <2>2
  <2> QED BY <1>1, <1>5, <2>1, <2>2, <2>6, <2>7, OneTaskOn
<1>6. ASSUME UNCHANGED mail, Step(d, [task[d] EXCEPT !.pos = @ + 1]),
             ~AtEnd(d), Current(d).handlerType \notin Resolvable
      PROVE  IInv'
  <2> DEFINE r == [task[d] EXCEPT !.pos = @ + 1]
             n == task[d].pos
  <2>1. task' = [task EXCEPT ![d] = r]
    BY <1>6 DEF Step
  <2>2. /\ r \in TaskRecords /\ r.pc = "next" /\ r.list = task[d].list /\ r.pos = n + 1
        /\ r.handled = task[d].handled /\ r.locked = task[d].locked
    BY <1>1, <1>2 DEF TaskRecords
  <2> HIDE DEF r
  <2>3. task'[d] = r
    BY <2>1 DEF IInv, Typed
  <2>4. n - 1 \in Nat /\ (n - 1) + 1 = n /\ (n + 1) - 1 = n /\ n + 1 \in 1..(Len(r.list) + 1)
    BY <1>2, <1>3, <1>6, <2>2 DEF AtEnd
  <2>5. Past(task[d].list, n) = Past(task[d].list, n - 1) \union {Current(d).handlerType}
    <3>1. Past(task[d].list, (n - 1) + 1)
            = Past(task[d].list, n - 1) \union {task[d].list[(n - 1) + 1].handlerType}
      BY <1>2, <2>4, PastGrows
    <3> QED BY <2>4, <3>1 DEF Current
  <2>6. r.handled = Past(r.list, r.pos - 1) \intersect Resolvable
    BY <1>3, <1>6, <2>2, <2>4, <2>5
  <2>7. TaskSound(d)'
    BY <1>1, <1>2, <1>3, <1>6, <2>2, <2>3, <2>4, <2>6 DEF TaskSound, unseenByTasks
  <2>8. task[d].pc # "none" /\ task[d].handled \subseteq r.handled
    BY <1>1, <2>2
  <2> QED BY <1>1, <1>6, <2>1, <2>2, <2>7, <2>8, OneTaskOn
<1> QED BY <1>4, <1>5, <1>6 DEF MoveNext

LEMMA HandlerReturnsKeeps ==
  ASSUME IInv, NEW d \in Tasks, HandlerReturns(d)
  PROVE  IInv'
<1> DEFINE n == task[d].pos
           h == Current(d).handlerType
           s1 == [task[d] EXCEPT !.pc = "next"]
           s2 == [s1 EXCEPT !.pos = n + 1]
           more == task[d].handled \union {h}
           r == [s2 EXCEPT !.handled = more]
<1>1. /\ task[d].pc = "running" /\ UNCHANGED unseenByTasks /\ UNCHANGED <<mail, faults>>
      /\ Step(d, [task[d] EXCEPT !.pc = "next", !.pos = @ + 1,
                                 !.handled = @ \union {Current(d).handlerType}])
  BY DEF HandlerReturns, unchangedByTasks, unseenByTasks, table
<1>2. /\ d[1] \in Msgs /\ task[d] \in TaskRecords /\ TaskSound(d)
      /\ task[d].list \in Seq(SM!SubscriptionInfo) /\ n \in Nat
      /\ Len(task[d].list) \in Nat /\ task[d].handled \subseteq Handlers
  BY TaskFacts
<1>3. /\ n \in 1..(Len(task[d].list) + 1)
      /\ task[d].handled = Past(task[d].list, n - 1) \intersect Resolvable
      /\ covered[d[1]] \subseteq HandlerTypes(task[d].list)
      /\ ~AtEnd(d) /\ h \in Resolvable
  BY <1>1, <1>2 DEF TaskSound
<1>4. task' = [task EXCEPT ![d] = r]
  <2>1. [task[d] EXCEPT !.pc = "next", !.pos = @ + 1,
                        !.handled = @ \union {Current(d).handlerType}] = r
    BY <1>2 DEF TaskRecords
  <2> QED BY <1>1, <2>1 DEF Step
<1>5. more \subseteq Handlers
  BY <1>2, <1>3, ResolvableAssumption
<1>6. n - 1 \in Nat /\ (n - 1) + 1 = n /\ (n + 1) - 1 = n
      /\ n + 1 \in 1..(Len(task[d].list) + 1) /\ n + 1 \in Nat
  BY <1>2, <1>3 DEF AtEnd
<1>7. Past(task[d].list, n) \intersect Resolvable = more
  <2>1. Past(task[d].list, (n - 1) + 1)
          = Past(task[d].list, n - 1) \union {task[d].list[(n - 1) + 1].handlerType}
    BY <1>2, <1>6, PastGrows
  <2>2. Past(task[d].list, n) = Past(task[d].list, n - 1) \union {h}
    BY <1>6, <2>1 DEF Current
  <2> QED BY <1>3, <2>2
<1>8. task[d].handled \subseteq more
  OBVIOUS
<1> HIDE DEF more
<1>9. /\ s1 \in TaskRecords /\ s1.pc = "next" /\ s1.list = task[d].list
      /\ s1.locked = task[d].locked
  BY <1>2 DEF TaskRecords, TaskPcs
<1> HIDE DEF s1
<1>10. /\ s2 \in TaskRecords /\ s2.pc = "next" /\ s2.list = task[d].list
       /\ s2.locked = task[d].locked /\ s2.pos = n + 1
  BY <1>6, <1>9 DEF TaskRecords
<1> HIDE DEF s2
<1>11. /\ r \in TaskRecords /\ r.pc = "next" /\ r.list = task[d].list
       /\ r.locked = task[d].locked /\ r.pos = n + 1 /\ r.handled = more
  BY <1>5, <1>10 DEF TaskRecords
<1> HIDE DEF r
<1>12. task'[d] = r
  BY <1>4 DEF IInv, Typed
<1>13. TaskSound(d)'
  BY <1>1, <1>2, <1>3, <1>6, <1>7, <1>11, <1>12 DEF TaskSound, unseenByTasks
<1>14. task[d].handled \subseteq r.handled /\ task[d].pc # "none"
  BY <1>1, <1>8, <1>11
<1> QED BY <1>1, <1>4, <1>11, <1>13, <1>14, OneTaskOn

LEMMA HandlerThrowsKeeps ==
  ASSUME IInv, NEW d \in Tasks, HandlerThrows(d)
  PROVE  IInv'
<1>1. task[d].pc = "running" /\ Fault /\ Abandon(d) /\ UNCHANGED unseenByTasks
  BY DEF HandlerThrows, Thrown, unchangedByTasks, unseenByTasks, table
<1> QED BY <1>1, AbandonKeeps

\* CompleteAsync with the lock: the foreach has passed every handler covered.
LEMMA CompleteKeeps ==
  ASSUME IInv, NEW d \in Tasks, Complete(d)
  PROVE  IInv'
<1> DEFINE s1 == [task[d] EXCEPT !.pc = "completed"]
           r == [s1 EXCEPT !.locked = FALSE]
<1>1. task[d].pc = "complete" /\ UNCHANGED unseenByTasks /\ (Fault \/ UNCHANGED faults)
  BY DEF Complete, unchangedByTasks, unseenByTasks, table
<1>2. CASE Abandon(d)
  BY <1>1, <1>2, AbandonKeeps
<1>3. CASE /\ task[d].locked
           /\ Step(d, [task[d] EXCEPT !.pc = "completed", !.locked = FALSE])
           /\ mail' = [mail EXCEPT ![d[1]] = "completed"]
  <2>1. /\ d[1] \in Msgs /\ task[d] \in TaskRecords /\ TaskSound(d)
        /\ mail[d[1]] = "held"
        /\ \A x \in Tasks : x # d /\ x[1] = d[1] /\ task[x].locked => ~task[d].locked
    BY <1>3, TaskFacts
  <2>2. /\ task[d].handled = HandlerTypes(task[d].list) \intersect Resolvable
        /\ covered[d[1]] \subseteq HandlerTypes(task[d].list)
    BY <1>1, <2>1 DEF TaskSound
  <2>3. task' = [task EXCEPT ![d] = r]
    <3>1. [task[d] EXCEPT !.pc = "completed", !.locked = FALSE] = r
      BY <2>1 DEF TaskRecords
    <3> QED BY <1>3, <3>1 DEF Step
  <2>4. /\ s1 \in TaskRecords /\ s1.pc = "completed" /\ s1.list = task[d].list
        /\ s1.handled = task[d].handled
    BY <2>1 DEF TaskRecords, TaskPcs
  <2> HIDE DEF s1
  <2>5. /\ r \in TaskRecords /\ r.pc = "completed" /\ r.list = task[d].list
        /\ r.handled = task[d].handled /\ ~r.locked
    BY <2>4 DEF TaskRecords
  <2> HIDE DEF r
  <2>6. task'[d] = r /\ mail'[d[1]] = "completed"
    BY <1>3, <2>1, <2>3 DEF IInv, Typed
  <2>7. TaskSound(d)'
    BY <2>2, <2>5, <2>6 DEF TaskSound
  <2>8. covered[d[1]] \intersect Resolvable \subseteq r.handled
    BY <2>2, <2>5
  <2> QED BY <1>1, <1>3, <2>1, <2>3, <2>5, <2>7, <2>8, OneTask
<1> QED BY <1>2, <1>3 DEF Complete

\* The lock goes, the callback goes on.
LEMMA LockExpiresKeeps ==
  ASSUME IInv, NEW d \in Tasks, LockExpires(d)
  PROVE  IInv'
<1> DEFINE r == [task[d] EXCEPT !.locked = FALSE]
           w == IF d[2] < MaxDeliveries THEN "ready" ELSE "dead"
<1>1. /\ task[d].locked /\ UNCHANGED unseenByTasks /\ (Fault \/ UNCHANGED faults)
      /\ task' = [task EXCEPT ![d] = r] /\ mail' = [mail EXCEPT ![d[1]] = w]
  BY DEF LockExpires, Step, GiveBack, unchangedByTasks, unseenByTasks, table
<1>2. /\ d[1] \in Msgs /\ task[d] \in TaskRecords /\ TaskSound(d) /\ mail[d[1]] = "held"
      /\ \A x \in Tasks : x # d /\ x[1] = d[1] /\ task[x].locked => ~task[d].locked
  BY <1>1, TaskFacts
<1>3. w \in {"ready", "dead"}
  OBVIOUS
<1> HIDE DEF w
<1>4. /\ r \in TaskRecords /\ r.pc = task[d].pc /\ r.list = task[d].list
      /\ r.pos = task[d].pos /\ r.handled = task[d].handled /\ ~r.locked
  BY <1>2 DEF TaskRecords
<1>5. task[d].pc # "none"
  <2>1. ~NoTask.locked
    BY DEF NoTask
  <2>2. task[d] # NoTask
    BY <1>1, <2>1
  <2> QED BY <1>2, <2>2 DEF TaskSound
<1> HIDE DEF r
<1>6. task'[d] = r /\ mail'[d[1]] = w /\ covered' = covered
  BY <1>1, <1>2 DEF IInv, Typed, unseenByTasks
<1>7. (AtEnd(d)' <=> AtEnd(d)) /\ Current(d)' = Current(d)
  BY <1>4, <1>6 DEF AtEnd, Current
<1>8. TaskSound(d)'
  BY <1>2, <1>3, <1>4, <1>5, <1>6, <1>7 DEF TaskSound
<1> QED BY <1>1, <1>2, <1>3, <1>4, <1>8, OneTask

(***************************************************************************)
(* The invariant, step by step                                             *)
(***************************************************************************)
LEMMA Initially == Init => IInv
<1> SUFFICES ASSUME Init PROVE IInv
  OBVIOUS
<1>1. /\ handlers = [e \in {} |-> <<>>] /\ eventTypes = {} /\ up = FALSE
      /\ call = Idle /\ task = [d \in Tasks |-> NoTask]
      /\ rules = {} /\ matchAll = TRUE /\ mail = [m \in Msgs |-> "unsent"]
      /\ calls = 0 /\ faults = 0 /\ covered = [m \in Msgs |-> {}]
  BY DEF Init
<1>2. NoTask \in TaskRecords /\ Idle \in CallRecords
  BY EmptyList DEF NoTask, TaskRecords, TaskPcs, Idle, CallRecords, CallPcs
<1>3. Typed
  <2>1. task \in [Tasks -> TaskRecords]
    BY <1>1, <1>2
  <2>2. calls \in 0..MaxCalls /\ faults \in 0..MaxFaults
    BY <1>1, BoundsAssumption
  <2> QED BY <1>1, <1>2, <2>1, <2>2 DEF Typed
<1>4. TableSound /\ CallSound 
  BY <1>1 DEF TableSound, CallSound, Idle
<1>5. \A d \in Tasks : task[d] = NoTask /\ ~task[d].locked
  BY <1>1 DEF NoTask
<1>6. \A d \in Tasks : TaskSound(d)
  BY <1>5 DEF TaskSound, NoTask
<1>7. \A m \in Msgs : OneLock(m) /\ CoveredSound(m)
  BY <1>1, <1>5 DEF OneLock, CoveredSound
<1> QED BY <1>3, <1>4, <1>6, <1>7 DEF IInv

LEMMA Stuttering ==
  ASSUME IInv, UNCHANGED vars
  PROVE  IInv'
<1>1. UNCHANGED <<handlers, eventTypes, up, call, task, rules, matchAll, mail, calls, faults, covered>>
  BY DEF vars, table, service
<1>2. SM!ListOf(call.event)' = SM!ListOf(call.event)
  BY <1>1 DEF SM!ListOf, SM!HasSubscriptionsForEvent
<1>3. Typed' /\ CallSound'
  BY <1>1, <1>2 DEF IInv, Typed, CallSound
<1> QED BY <1>1, <1>3, Unmoved DEF IInv

LEMMA StepKeepsIInv == IInv /\ [Next]_vars => IInv'
<1> SUFFICES ASSUME IInv, [Next]_vars PROVE IInv'
  OBVIOUS
<1>1. CASE Start \/ Killed
  BY <1>1, StartKeeps, KilledKeeps
<1>2. CASE Call
  BY <1>2, CallKeeps
<1>3. CASE \E m \in Msgs : Publish(m)
  BY <1>3, PublishKeeps
<1>4. ASSUME NEW d \in Tasks, TaskStep(d) PROVE IInv'
  BY <1>4, DeliverKeeps, CheckKeeps, GetKeeps, MoveNextKeeps, HandlerReturnsKeeps,
     CompleteKeeps DEF TaskStep
<1>5. ASSUME NEW d \in Tasks, HandlerThrows(d) \/ LockExpires(d) PROVE IInv'
  BY <1>5, HandlerThrowsKeeps, LockExpiresKeeps
<1>6. CASE UNCHANGED vars
  BY <1>6, Stuttering
<1> QED BY <1>1, <1>2, <1>3, <1>4, <1>5, <1>6 DEF Next

\* Through every interleaving of calls, overlapping deliveries, lost locks and
\* restarts the table, the service and the tasks agree.
THEOREM BusInvariant == Spec => []IInv
<1> QED BY Initially, StepKeepsIInv, PTL DEF Spec

(***************************************************************************)
(* What a subscriber relies on                                             *)
(***************************************************************************)
LEMMA TypesHold == IInv => TypeOK
<1> SUFFICES ASSUME IInv PROVE TypeOK
  OBVIOUS
<1>1. \A list \in Seq(SM!SubscriptionInfo) : ToSet(list) \subseteq SM!SubscriptionInfo
  BY DEF ToSet
<1>2. \A e \in DOMAIN handlers : ToSet(handlers[e]) \subseteq SM!SubscriptionInfo
  BY <1>1 DEF IInv, TableSound
<1>3. \A d \in Tasks :
        /\ task[d].pc \in TaskPcs /\ task[d].locked \in BOOLEAN
        /\ ToSet(task[d].list) \subseteq SM!SubscriptionInfo
        /\ task[d].handled \subseteq Handlers
  BY <1>1, TaskFacts DEF TaskRecords
<1>4. call.pc \in CallPcs
  BY DEF IInv, Typed, CallRecords
<1> QED BY <1>2, <1>3, <1>4 DEF TypeOK, IInv, Typed, TableSound, TaskPcs, CallPcs

\* A message is completed only by a delivery that has its lock and whose
\* ProcessEvent has returned: a lost lock, an overlapping redelivery or a restart
\* delays a handler and repeats it, but takes no message from it.
THEOREM MessagesAreKept == Spec => []AtLeastOnce
<1>1. IInv => CompletedOnlyWhenHandled
  BY DEF IInv, TaskSound, CompletedOnlyWhenHandled
<1>2. IInv => NoLossWhileSubscribed
  BY DEF IInv, CoveredSound, NoLossWhileSubscribed
<1>3. IInv => AtLeastOnce
  BY <1>1, <1>2, TypesHold DEF AtLeastOnce
<1> QED BY <1>3, BusInvariant, PTL

================================================================================
