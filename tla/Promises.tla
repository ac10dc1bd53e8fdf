------------------------------ MODULE Promises ------------------------------
(***************************************************************************)
(* The promises of es6-promise that oidc-token-manager.js brings along:    *)
(* the queue of asap, the resolution of a promise with a value, another    *)
(* promise or a foreign thenable, then(), Promise.all and Promise.race.    *)
(*                                                                         *)
(* The engine's functions are operators from one state of the engine to    *)
(* the next; a call of the API, which runs to its end, is one action.  A   *)
(* flush calls the page's callbacks one by one, and a callback may call    *)
(* the API before it returns.  Values are told apart by what resolve()     *)
(* does with them.                                                         *)
(***************************************************************************)
EXTENDS Integers, Sequences, SequencesExt

CONSTANTS
  MaxPromises,   \* bound: promises ever created
  MaxCalls       \* bound: calls of the resolving functions of a new Promise

ASSUME PromisesAssumption == MaxPromises \in Nat /\ MaxCalls \in Nat

VARIABLES
  engine,        \* the promises, asap's queue, and whether a flush is scheduled
  at,            \* flush's index into the queue; 0 outside flush
  frame,         \* what flush is in the middle of (see NoFrame)
  calls,         \* calls left of a promise's resolving functions
  foreign,       \* calls of a thenable's then() that may still settle a promise
  parent,        \* history: whose then() made a promise
  called         \* history: how often a child's callback was called

engineVars == <<engine, at, frame, calls, foreign, parent, called>>

Ids == 1..MaxPromises

-----------------------------------------------------------------------------
(***************************************************************************)
(* Values                                                                  *)
(***************************************************************************)
Plain == [kind |-> "plain", promise |-> 0]         \* no object, or without then()
Thenable == [kind |-> "thenable", promise |-> 0]   \* with a then() of its own
Throwing == [kind |-> "throwing", promise |-> 0]   \* whose getter of then throws
Promise(p) == [kind |-> "promise", promise |-> p]

Unborn == [state |-> "unborn", result |-> Plain, subscribers |-> <<>>, remaining |-> 0]

\* new Promise: _state undefined, no subscribers.
Pending == [Unborn EXCEPT !.state = "pending"]

\* A subscriber: a child of then() with its callbacks; without a child, one of
\* handleOwnThenable and race, which settles another promise alike, or of all.
Child(c, onFulfillment, onRejection) ==
  [kind |-> "child", promise |-> c, onFulfillment |-> onFulfillment,
   onRejection |-> onRejection]
Adopter(p) ==
  [kind |-> "adopter", promise |-> p, onFulfillment |-> TRUE, onRejection |-> TRUE]
Counter(e) ==
  [kind |-> "counter", promise |-> e, onFulfillment |-> TRUE, onRejection |-> TRUE]

\* An entry of asap's queue: publish or publishRejection of a promise, then()'s
\* call of invokeCallback for a child, or handleForeignThenable's job.
Entry(kind, p, child) == [kind |-> kind, promise |-> p, child |-> child]
NoChild == Child(0, FALSE, FALSE)
Done == Entry("undefined", 0, NoChild)

-----------------------------------------------------------------------------
(***************************************************************************)
(* The engine                                                              *)
(***************************************************************************)
State(s, p) == s.promise[p].state
Settled(s, p) == State(s, p) \in {"fulfilled", "rejected"}

\* Mutant: the flush is scheduled for the second entry.
AsapLate(s, entry) ==
  [s EXCEPT !.queue = Append(@, entry), !.scheduled = @ \/ Len(s.queue) = 1]

\* asap: a flush is scheduled for the first entry only.
Asap(s, entry) ==
  [s EXCEPT !.queue = Append(@, entry), !.scheduled = @ \/ Len(s.queue) = 0]

\* Mutant: a promise that is settled already is fulfilled all the same.
FulfillAnyway(s, p, value) ==
  LET settled == [s EXCEPT !.promise[p].state = "fulfilled",
                           !.promise[p].result = value]
  IN  IF s.promise[p].subscribers # <<>>
        THEN Asap(settled, Entry("publish", p, NoChild)) ELSE settled

Fulfill(s, p, value) ==
  IF State(s, p) # "pending" THEN s
  ELSE LET settled == [s EXCEPT !.promise[p].state = "fulfilled",
                                !.promise[p].result = value]
       IN  IF s.promise[p].subscribers # <<>>
             THEN Asap(settled, Entry("publish", p, NoChild)) ELSE settled

Reject(s, p) ==
  IF State(s, p) # "pending" THEN s
  ELSE Asap([s EXCEPT !.promise[p].state = "rejected"], Entry("publish", p, NoChild))

\* Mutant: nothing is published for a promise that is settled already.
SubscribeToPending(s, p, subscriber) ==
  [s EXCEPT !.promise[p].subscribers = Append(@, subscriber)]

Subscribe(s, p, subscriber) ==
  LET subscribed == [s EXCEPT !.promise[p].subscribers = Append(@, subscriber)]
  IN  IF s.promise[p].subscribers = <<>> /\ Settled(s, p)
        THEN Asap(subscribed, Entry("publish", p, NoChild)) ELSE subscribed

HandleOwnThenable(s, p, q) ==
  CASE State(s, q) = "fulfilled" -> Fulfill(s, p, s.promise[q].result)
    [] State(s, q) = "rejected"  -> Reject(s, p)
    [] OTHER                     -> Subscribe(s, q, Adopter(p))

\* resolve, with handleMaybeThenable.
Resolve(s, p, value) ==
  CASE value = Promise(p)      -> Reject(s, p)
    [] value.kind = "promise" /\ value.promise # p
                               -> HandleOwnThenable(s, p, value.promise)
    [] value.kind = "throwing" -> Reject(s, p)
    [] value.kind = "thenable" -> Asap(s, Entry("foreign", p, NoChild))
    [] value.kind = "plain"    -> Fulfill(s, p, value)

\* _settledAt: an input of all() is settled.
SettledAt(s, e, state) ==
  LET counted ==
        IF State(s, e) # "pending" THEN s
        ELSE LET one == [s EXCEPT !.promise[e].remaining = @ - 1]
             IN  IF state = "rejected" THEN Reject(one, e) ELSE one
  IN  IF counted.promise[e].remaining = 0 THEN Fulfill(counted, e, Plain) ELSE counted

\* A subscriber without a child is told that the promise it waits for is settled.
Tell(s, subscriber, state, value) ==
  CASE subscriber.kind = "counter" -> SettledAt(s, subscriber.promise, state)
    [] subscriber.kind = "adopter" /\ state = "fulfilled"
                                   -> Resolve(s, subscriber.promise, value)
    [] OTHER                       -> Reject(s, subscriber.promise)

\* invokeCallback: what becomes of the child when it has no callback for that
\* state, when the callback returns a value, and when it throws.
HasCallback(child, state) ==
  IF state = "fulfilled" THEN child.onFulfillment ELSE child.onRejection

PassOn(s, c, state, value) ==
  IF state = "fulfilled" THEN Fulfill(s, c, value) ELSE Reject(s, c)

Returned(s, c, value) ==
  CASE value = Promise(c)       -> Reject(s, c)
    [] value # Promise(c) /\ State(s, c) = "pending" -> Resolve(s, c, value)
    [] OTHER                    -> s

-----------------------------------------------------------------------------
(***************************************************************************)
(* Flush: the entry at the index, for publish the promise and its          *)
(* subscriber, and the child whose callback runs or the promise that a     *)
(* foreign then() is called for.                                           *)
(***************************************************************************)
NoFrame == [publishing |-> 0, index |-> 0, callback |-> 0, foreign |-> 0]

EngineInit ==
  /\ engine = [promise |-> [p \in Ids |-> Unborn], queue |-> <<>>, scheduled |-> FALSE]
  /\ at = 0
  /\ frame = NoFrame
  /\ calls = [p \in Ids |-> 0]
  /\ foreign = [p \in Ids |-> 0]
  /\ parent = [p \in Ids |-> 0]
  /\ called = [p \in Ids |-> 0]

Born == {p \in Ids : State(engine, p) # "unborn"}
Fresh(p) == p \notin Born /\ 1..(p - 1) \subseteq Born

\* The page's code runs between flushes, and in a callback or a foreign then().
UserCode == at = 0 \/ frame.callback # 0 \/ frame.foreign # 0

Values == {Plain, Thenable, Throwing} \union {Promise(p) : p \in Born}

New(p) ==
  /\ UserCode /\ Fresh(p)
  /\ engine' = [engine EXCEPT !.promise[p] = Pending]
  /\ calls' = [calls EXCEPT ![p] = MaxCalls]
  /\ UNCHANGED <<at, frame, foreign, parent, called>>

\* The functions that initializePromise gives to the resolver; reject is also
\* what happens when the resolver throws.
CallResolve(p) ==
  /\ UserCode /\ calls[p] > 0
  /\ \E v \in Values : engine' = Resolve(engine, p, v)
  /\ calls' = [calls EXCEPT ![p] = @ - 1]
  /\ UNCHANGED <<at, frame, foreign, parent, called>>

CallReject(p) ==
  /\ UserCode /\ calls[p] > 0
  /\ engine' = Reject(engine, p)
  /\ calls' = [calls EXCEPT ![p] = @ - 1]
  /\ UNCHANGED <<at, frame, foreign, parent, called>>

\* then (and catch, without onFulfillment): a settled promise without a callback
\* for its state is its own child.
Then(p, c) ==
  /\ UserCode /\ p \in Born /\ Fresh(c)
  /\ \E onFulfillment, onRejection \in BOOLEAN :
       LET child == Child(c, onFulfillment, onRejection)
           created == [engine EXCEPT !.promise[c] = Pending]
       IN  /\ Settled(engine, p) => HasCallback(child, State(engine, p))
           /\ engine' = IF Settled(engine, p)
                          THEN Asap(created, Entry("invoke", p, child))
                          ELSE Subscribe(created, p, child)
  /\ parent' = [parent EXCEPT ![c] = p]
  /\ UNCHANGED <<at, frame, calls, foreign, called>>

\* _eachEntry of all()'s Enumerator with promise e: an input that is no promise
\* (0) or is settled counts at once.
EachEntry(s, e, input) ==
  IF State(s, e) # "pending" THEN s
  ELSE IF input = 0 THEN [s EXCEPT !.promise[e].remaining = @ - 1]
  ELSE IF Settled(s, input) THEN SettledAt(s, e, State(s, input))
  ELSE Subscribe(s, input, Counter(e))

\* One turn of race()'s loop.
EachRacer(s, e, input) ==
  IF State(s, e) # "pending" THEN s ELSE Subscribe(s, input, Adopter(e))

\* Bound: all() and race() are given two inputs at most.
Inputs == SeqOf(Born \union {0}, 2)

\* The loop over the inputs.
ForEach(Each(_, _, _), s, e, inputs) ==
  LET first == IF Len(inputs) > 0 THEN Each(s, e, inputs[1]) ELSE s
  IN  IF Len(inputs) > 1 THEN Each(first, e, inputs[2]) ELSE first

All(e) ==
  /\ UserCode /\ Fresh(e)
  /\ \E inputs \in Inputs :
       LET created == [engine EXCEPT !.promise[e] = [Pending EXCEPT !.remaining = Len(inputs)]]
           entered == ForEach(EachEntry, created, e, inputs)
       IN  engine' = IF entered.promise[e].remaining = 0 THEN Fulfill(entered, e, Plain)
                     ELSE entered
  /\ UNCHANGED <<at, frame, calls, foreign, parent, called>>

Race(e) ==
  /\ UserCode /\ Fresh(e)
  /\ \E inputs \in Inputs :
       /\ \A i \in DOMAIN inputs : inputs[i] # 0
       /\ engine' = ForEach(EachRacer, [engine EXCEPT !.promise[e] = Pending], e, inputs)
  /\ UNCHANGED <<at, frame, calls, foreign, parent, called>>

\* The functions handleForeignThenable gives to a thenable: the first call of
\* either counts (and an exception of then() if there was none before it).  A
\* thenable may resolve with itself, which fulfills.  Bound: it does not resolve
\* with another thenable, which would be the same again.
ForeignResolve(p) ==
  /\ UserCode /\ foreign[p] > 0
  /\ \/ \E v \in Values \ {Thenable} : engine' = Resolve(engine, p, v)
     \/ engine' = Fulfill(engine, p, Thenable)
  /\ foreign' = [foreign EXCEPT ![p] = @ - 1]
  /\ UNCHANGED <<at, frame, calls, parent, called>>

ForeignReject(p) ==
  /\ UserCode /\ foreign[p] > 0
  /\ engine' = Reject(engine, p)
  /\ foreign' = [foreign EXCEPT ![p] = @ - 1]
  /\ UNCHANGED <<at, frame, calls, parent, called>>

-----------------------------------------------------------------------------
\* The scheduled flush begins.
Flush ==
  /\ at = 0 /\ engine.scheduled
  /\ at' = 1
  /\ engine' = [engine EXCEPT !.scheduled = FALSE]
  /\ UNCHANGED <<frame, calls, foreign, parent, called>>

Running(kind) ==
  /\ at \in 1..Len(engine.queue) /\ frame = NoFrame
  /\ engine.queue[at].kind = kind

\* The entry is done, and flush goes on with the next one.
NextEntry(s) ==
  /\ engine' = [s EXCEPT !.queue[at] = Done]
  /\ frame' = NoFrame
  /\ at' = at + 1

\* publish goes on with its next subscriber.
NextSubscriber(s) ==
  /\ engine' = s
  /\ frame' = [frame EXCEPT !.index = @ + 1, !.callback = 0]
  /\ UNCHANGED at

GoOn(s) == IF frame.publishing # 0 THEN NextSubscriber(s) ELSE NextEntry(s)

\* invokeCallback of a child: p, its parent, is settled.
Invoke(child, p) ==
  /\ called' = [called EXCEPT ![child.promise] = @ + 1]
  /\ IF HasCallback(child, p.state)
       THEN frame' = [frame EXCEPT !.callback = child.promise] /\ UNCHANGED <<engine, at>>
       ELSE GoOn(PassOn(engine, child.promise, p.state, p.result))

RunInvoke ==
  /\ Running("invoke")
  /\ Invoke(engine.queue[at].child, engine.promise[engine.queue[at].promise])
  /\ UNCHANGED <<calls, foreign, parent>>

\* handleForeignThenable's job calls then(), which is the page's code.
RunForeign ==
  /\ Running("foreign")
  /\ LET p == engine.queue[at].promise
     IN  /\ foreign' = [foreign EXCEPT ![p] = @ + 1]
         /\ frame' = [NoFrame EXCEPT !.foreign = p]
  /\ UNCHANGED <<engine, at, calls, parent, called>>

ForeignReturns ==
  /\ frame.foreign # 0
  /\ NextEntry(engine)
  /\ UNCHANGED <<calls, foreign, parent, called>>

RunPublish ==
  /\ Running("publish")
  /\ frame' = [NoFrame EXCEPT !.publishing = engine.queue[at].promise, !.index = 1]
  /\ UNCHANGED <<engine, at, calls, foreign, parent, called>>

\* One turn of publish's loop; subscribers that callbacks add are in it.
Publishing == frame.publishing # 0 /\ frame.callback = 0
Subscribers == engine.promise[frame.publishing].subscribers

PublishToChild ==
  /\ Publishing /\ frame.index <= Len(Subscribers)
  /\ Subscribers[frame.index].kind = "child"
  /\ Invoke(Subscribers[frame.index], engine.promise[frame.publishing])
  /\ UNCHANGED <<calls, foreign, parent>>

PublishToOther ==
  /\ Publishing /\ frame.index <= Len(Subscribers)
  /\ Subscribers[frame.index].kind # "child"
  /\ LET p == engine.promise[frame.publishing]
     IN  NextSubscriber(Tell(engine, Subscribers[frame.index], p.state, p.result))
  /\ UNCHANGED <<calls, foreign, parent, called>>

EndPublish ==
  /\ Publishing /\ frame.index > Len(Subscribers)
  /\ NextEntry([engine EXCEPT !.promise[frame.publishing].subscribers = <<>>])
  /\ UNCHANGED <<calls, foreign, parent, called>>

\* The callback returns a value or throws.
CallbackReturns ==
  /\ frame.callback # 0
  /\ \E v \in Values : GoOn(Returned(engine, frame.callback, v))
  /\ UNCHANGED <<calls, foreign, parent, called>>

CallbackThrows ==
  /\ frame.callback # 0
  /\ GoOn(Reject(engine, frame.callback))
  /\ UNCHANGED <<calls, foreign, parent, called>>

EndFlush ==
  /\ at > Len(engine.queue)
  /\ at' = 0
  /\ engine' = [engine EXCEPT !.queue = <<>>]
  /\ UNCHANGED <<frame, calls, foreign, parent, called>>

-----------------------------------------------------------------------------
Flushing ==
  \/ Flush \/ RunInvoke \/ RunForeign \/ ForeignReturns
  \/ RunPublish \/ PublishToChild \/ PublishToOther \/ EndPublish
  \/ CallbackReturns \/ CallbackThrows \/ EndFlush

EngineNext ==
  \/ Flushing
  \/ \E p \in Ids : \/ New(p) \/ CallResolve(p) \/ CallReject(p) \/ All(p) \/ Race(p)
                    \/ ForeignResolve(p) \/ ForeignReject(p)
                    \/ \E c \in Ids : Then(p, c)

\* The browser runs the scheduled flush, and callbacks return.
EngineSpec == EngineInit /\ [][EngineNext]_engineVars /\ WF_engineVars(Flushing)

-----------------------------------------------------------------------------
(***************************************************************************)
(* Properties                                                              *)
(***************************************************************************)
\* Whatever the page's code does in callbacks, promises keep their contract:
\* they are settled once, and a callback registered with then() is called
\* once, in order, after the promise is settled ...
Contract ==
  INSTANCE PromiseContract WITH
    Promises <- Ids, state <- [p \in Ids |-> State(engine, p)]
ContractIsKept == Contract!Safety

\* ... and it is called eventually.
CallsEventually == Contract!CallsEventually

\* Nothing is left behind: the queue is not empty only while a flush runs or is
\* scheduled, and a settled promise with subscribers is being published or is
\* in the part of the queue still to be run.
ToBePublished(p) ==
  \/ frame.publishing = p
  \/ \E i \in DOMAIN engine.queue :
       /\ i >= at /\ engine.queue[i].promise = p /\ engine.queue[i].kind = "publish"

NothingIsStranded ==
  /\ engine.queue # <<>> => engine.scheduled \/ at > 0
  /\ \A p \in Ids :
       Settled(engine, p) /\ engine.promise[p].subscribers # <<>> => ToBePublished(p)

\* A promise is never fulfilled with a promise, only with what that one is
\* fulfilled with.
NoPromiseInPromise ==
  \A p \in Ids : State(engine, p) = "fulfilled" => engine.promise[p].result.kind # "promise"

\* What the engine keeps between two callbacks.
EngineIsSound == NothingIsStranded /\ NoPromiseInPromise
=============================================================================
