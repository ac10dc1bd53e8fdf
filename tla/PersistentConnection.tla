------------------------ MODULE PersistentConnection ------------------------
(***************************************************************************)
(* DefaultRabbitMQPersistentConnection: one connection for the process,    *)
(* replaced by TryConnect under a lock.  Callers are the threads in which  *)
(* EventBusRabbitMQ checks IsConnected, may call TryConnect, and calls     *)
(* CreateModel; each connection has a thread that runs its callbacks; one  *)
(* more thread disposes.  Only TryConnect takes the lock.                  *)
(*                                                                         *)
(* Of RabbitMQ.Client: a lost connection may recover by itself; a handler  *)
(* added to ConnectionShutdown of a connection that is not open is called  *)
(* at once, by the thread that adds it; an exception of such a handler is  *)
(* reported to CallbackException, and one of the other handlers to nobody. *)
(***************************************************************************)
EXTENDS Integers

CONSTANTS
  Callers,
  RetryCount,        \* retries after the first attempt to connect
  MaxConnections,    \* bound: no attempt succeeds beyond
  MaxCalls,          \* bound: calls that use the connection
  MaxFaults          \* bound: lost connections, events a broker raises

ASSUME BoundsAssumption == {RetryCount, MaxConnections, MaxCalls, MaxFaults} \subseteq Nat
ASSUME CallersAssumption == Callers \intersect Nat = {}

VARIABLES
  current,           \* _connection, or None
  disposal,          \* how far Dispose is
  lock,              \* the thread that holds __lockObject, or None
  depth,             \* TryConnect calls of that thread that wait for an inner one
  left,              \* the retries it has left
  link,              \* connection |-> open, lost (may recover) or closed
  shutdownHandlers,  \* how often OnConnectionShutdown was added
  otherHandlers,     \* how often OnCallbackException, OnConnectionBlocked were
  due,               \* callbacks a connection has to run, by kind
  thread,
  calls, faults,     \* how much of the bounds is used
  unverified,        \* history: connections TryConnect found not connected
  late,              \* history: connections made after Dispose began
  gaveUp             \* history: an attempt with all its retries has failed

vars == <<current, disposal, lock, depth, left, link, shutdownHandlers, otherHandlers, due,
          thread, calls, faults, unverified, late, gaveUp>>

Connections == 1..MaxConnections
None == 0
Threads == Callers \union Connections
Made == {c \in Connections : link[c] # "none"}

\* "hit" remembers a loss of the current connection during the call.
Idle == [pc |-> "idle", kind |-> "none", hit |-> FALSE, result |-> "none"]

Init ==
  /\ current = None
  /\ disposal = "none"
  /\ lock = None /\ depth = 0 /\ left = 0
  /\ link = [c \in Connections |-> "none"]
  /\ shutdownHandlers = [c \in Connections |-> 0]
  /\ otherHandlers = [c \in Connections |-> 0]
  /\ due = [c \in Connections |-> [shutdown |-> 0, other |-> 0]]
  /\ thread = [t \in Threads |-> Idle]
  /\ calls = 0 /\ faults = 0
  /\ unverified = {} /\ late = {} /\ gaveUp = FALSE

disposed == disposal # "none"

IsConnected == current # None /\ link[current] = "open" /\ ~disposed

At(t, pc) == thread[t].pc = pc

Goto(t, pc) == thread' = [thread EXCEPT ![t].pc = pc]

Begin(t, pc, kind) ==
  thread' = [thread EXCEPT ![t] = [pc |-> pc, kind |-> kind, hit |-> FALSE, result |-> "none"]]

Finish(t, result) ==
  thread' = [thread EXCEPT ![t] = [pc |-> "idle", kind |-> "none", hit |-> @.hit,
                                   result |-> result]]

(***************************************************************************)
(* TryConnect                                                              *)
(***************************************************************************)
connections == <<link, shutdownHandlers, otherHandlers, due>>
history == <<unverified, late, gaveUp>>
bounds == <<calls, faults>>
mutex == <<lock, depth, left>>

\* Mutant: nobody locks.
NoLock(t) == UNCHANGED lock

Lock(t) == lock = None /\ lock' = t

\* Mutant: the reference is dropped before there is a new connection.
Dropped == None

WhileConnecting == current

Enter(t) ==
  /\ At(t, "enter") /\ Lock(t)
  /\ current' = WhileConnecting
  /\ left' = RetryCount
  /\ Goto(t, "connect")
  /\ UNCHANGED <<disposal, depth, connections, bounds, history>>

\* The next free connection.
Fresh(c) == c \in Connections /\ link[c] = "none" /\ \A d \in 1..(c - 1) : d \in Made

Connect(t) ==
  /\ At(t, "connect")
  /\ \E c \in Connections :
       /\ Fresh(c)
       /\ link' = [link EXCEPT ![c] = "open"]
       /\ current' = c
       /\ late' = IF disposed THEN late \union {c} ELSE late
  /\ Goto(t, "verify")
  /\ UNCHANGED <<disposal, mutex, shutdownHandlers, otherHandlers, due, bounds,
                 unverified, gaveUp>>

MayRetry == left > 0

\* SocketException or BrokerUnreachableException, which the policy handles.
AttemptFails(t) ==
  /\ At(t, "connect") /\ MayRetry
  /\ left' = left - 1
  /\ UNCHANGED <<current, disposal, lock, depth, thread, connections, bounds, history>>

\* Where a thread goes on after TryConnect: a caller ignores its result.
Resume(t) == IF thread[t].kind = "call" THEN Goto(t, "create") ELSE Finish(t, "none")

\* Mutant: the lock is not released by an exception.
LockKept == UNCHANGED lock

Unlock == lock' = None

\* The last attempt throws through every TryConnect of the thread.
GiveUp(t) ==
  /\ At(t, "connect") /\ left = 0
  /\ Unlock /\ depth' = 0
  /\ Finish(t, "BrokerUnreachable")
  /\ gaveUp' = TRUE
  /\ due' = IF thread[t].kind = "shutdown"
              THEN [due EXCEPT ![t].other = @ + otherHandlers[t]] ELSE due
  /\ UNCHANGED <<current, disposal, left, link, shutdownHandlers, otherHandlers, bounds,
                 unverified, late>>

\* An inner TryConnect returns to the outer one, which adds what is left.
Return(t) ==
  \/ depth > 0 /\ depth' = depth - 1 /\ Goto(t, "others") /\ UNCHANGED lock
  \/ depth = 0 /\ lock' = None /\ Resume(t) /\ UNCHANGED depth

Verify(t) ==
  /\ At(t, "verify")
  /\ \/ IsConnected /\ Goto(t, "shutdown") /\ UNCHANGED <<lock, depth, unverified>>
     \/ ~IsConnected /\ Return(t) /\ unverified' = unverified \union {current}
  /\ UNCHANGED <<current, disposal, left, connections, bounds, late, gaveUp>>

\* Adding the handler to a connection lost meanwhile calls it in this thread,
\* which already holds the lock.
AddShutdownHandler(t) ==
  /\ At(t, "shutdown")
  /\ shutdownHandlers' = [shutdownHandlers EXCEPT ![current] = @ + 1]
  /\ \/ /\ link[current] = "open" \/ disposed
        /\ Goto(t, "others") /\ UNCHANGED <<depth, left>>
     \/ /\ link[current] # "open" /\ ~disposed
        /\ Goto(t, "connect") /\ depth' = depth + 1 /\ left' = RetryCount
  /\ UNCHANGED <<current, disposal, lock, link, otherHandlers, due, bounds, history>>

\* The field is read again: after an inner TryConnect it is the new connection.
AddOtherHandlers(t) ==
  /\ At(t, "others")
  /\ otherHandlers' = [otherHandlers EXCEPT ![current] = @ + 1]
  /\ Return(t)
  /\ UNCHANGED <<current, disposal, left, link, shutdownHandlers, due, bounds, history>>

TryConnect(t) ==
  \/ Enter(t) \/ Connect(t) \/ AttemptFails(t) \/ GiveUp(t)
  \/ Verify(t) \/ AddShutdownHandler(t) \/ AddOtherHandlers(t)

(***************************************************************************)
(* A caller: IsConnected, TryConnect, CreateModel                          *)
(***************************************************************************)
Use(t) ==
  /\ t \in Callers /\ At(t, "idle") /\ calls < MaxCalls
  /\ calls' = calls + 1
  /\ Begin(t, IF IsConnected THEN "create" ELSE "enter", "call")
  /\ UNCHANGED <<current, disposal, mutex, connections, faults, history>>

\* CreateModel: refused without a connection; otherwise the field is read again.
CreateModel(t) ==
  /\ At(t, "create")
  /\ \/ IsConnected /\ Goto(t, "model")
     \/ ~IsConnected /\ Finish(t, "refused")
  /\ UNCHANGED <<current, disposal, mutex, connections, bounds, history>>

OpenChannel(t) ==
  /\ At(t, "model")
  /\ Finish(t, IF link[current] = "open" THEN "channel" ELSE "AlreadyClosed")
  /\ UNCHANGED <<current, disposal, mutex, connections, bounds, history>>

(***************************************************************************)
(* Callbacks                                                               *)
(***************************************************************************)
StartCallback(c, kind) ==
  /\ At(c, "idle") /\ due[c][kind] > 0
  /\ due' = [due EXCEPT ![c][kind] = @ - 1]
  /\ Begin(c, "callback", kind)
  /\ UNCHANGED <<current, disposal, mutex, link, shutdownHandlers, otherHandlers,
                 bounds, history>>

Reconnects == ~disposed

\* OnConnectionShutdown, OnCallbackException and OnConnectionBlocked.
Callback(c) ==
  /\ At(c, "callback")
  /\ \/ Reconnects /\ Goto(c, "enter")
     \/ ~Reconnects /\ Finish(c, "none")
  /\ UNCHANGED <<current, disposal, mutex, connections, bounds, history>>

(***************************************************************************)
(* Dispose                                                                 *)
(***************************************************************************)
\* A second call returns at once.
Dispose ==
  /\ disposal = "none" /\ disposal' = "begun"
  /\ UNCHANGED <<current, mutex, connections, thread, bounds, history>>

\* Mutant: only a connection that IsConnected is disposed.
IfConnected == IsConnected

HasConnection == current # None

\* Without a connection, the NullReferenceException leaves Dispose.
DisposeConnection ==
  /\ disposal = "begun" /\ disposal' = "done"
  /\ \/ /\ HasConnection
        /\ link' = [link EXCEPT ![current] = "closed"]
        /\ due' = IF link[current] = "open"
                    THEN [due EXCEPT ![current].shutdown = @ + shutdownHandlers[current]]
                    ELSE due
     \/ ~HasConnection /\ UNCHANGED <<link, due>>
  /\ UNCHANGED <<current, mutex, shutdownHandlers, otherHandlers, thread, bounds, history>>

(***************************************************************************)
(* The broker and the client library                                       *)
(***************************************************************************)
Fault == faults < MaxFaults /\ faults' = faults + 1

HitCallers(c) ==
  thread' = [t \in Threads |->
               [thread[t] EXCEPT !.hit = @ \/ (c = current /\ thread[t].kind = "call")]]

Lose(c) ==
  /\ Fault /\ link[c] = "open"
  /\ link' = [link EXCEPT ![c] = "lost"]
  /\ due' = [due EXCEPT ![c].shutdown = @ + shutdownHandlers[c]]
  /\ HitCallers(c)
  /\ UNCHANGED <<current, disposal, mutex, shutdownHandlers, otherHandlers, calls, history>>

Recover(c) ==
  /\ link[c] = "lost" /\ link' = [link EXCEPT ![c] = "open"]
  /\ UNCHANGED <<current, disposal, mutex, shutdownHandlers, otherHandlers, due,
                 thread, bounds, history>>

\* The broker blocks the connection, or a consumer's callback throws.
RaiseOther(c) ==
  /\ Fault /\ link[c] = "open" /\ otherHandlers[c] > 0
  /\ due' = [due EXCEPT ![c].other = @ + otherHandlers[c]]
  /\ UNCHANGED <<current, disposal, mutex, link, shutdownHandlers, otherHandlers,
                 thread, calls, history>>

CallerStep(t) == CreateModel(t) \/ OpenChannel(t)

CallbackStep(c) == (\E kind \in {"shutdown", "other"} : StartCallback(c, kind)) \/ Callback(c)

Next ==
  \/ \E t \in Threads : TryConnect(t)
  \/ \E t \in Callers : Use(t) \/ CallerStep(t)
  \/ \E c \in Connections :
       CallbackStep(c) \/ Lose(c) \/ Recover(c) \/ RaiseOther(c)
  \/ Dispose \/ DisposeConnection

Spec == Init /\ [][Next]_vars

\* Every thread runs on; the lock goes to some thread that waits for it, and
\* calls, losses and callbacks are too few for one to be passed over forever.
LiveSpec ==
  /\ Spec
  /\ \A t \in Threads : WF_vars(TryConnect(t))
  /\ \A t \in Callers : WF_vars(CallerStep(t))
  /\ \A c \in Connections : WF_vars(CallbackStep(c))

(***************************************************************************)
(* Properties                                                              *)
(***************************************************************************)
\* The types of the fields of the connection and of the threads that use it.
TypeOK ==
  /\ current \in {None} \union Connections
  /\ disposal \in {"none", "begun", "done"}
  /\ lock \in {None} \union Threads /\ depth \in Nat /\ left \in 0..RetryCount
  /\ link \in [Connections -> {"none", "open", "lost", "closed"}]
  /\ shutdownHandlers \in [Connections -> Nat]
  /\ otherHandlers \in [Connections -> Nat]
  /\ due \in [Connections -> [shutdown : Nat, other : Nat]]
  /\ thread \in [Threads ->
       [pc : {"idle", "enter", "connect", "verify", "shutdown", "others", "create",
              "model", "callback"},
        kind : {"none", "call", "shutdown", "other"},
        hit : BOOLEAN,
        result : {"none", "channel", "refused", "AlreadyClosed", "BrokerUnreachable"}]]
  /\ calls \in 0..MaxCalls /\ faults \in 0..MaxFaults
  /\ unverified \subseteq Connections /\ late \subseteq Connections
  /\ gaveUp \in BOOLEAN

\* However many threads reconnect at once, no connection reports its shutdown
\* twice, and the one in use reports it unless it was lost, or the object
\* disposed, before TryConnect looked at it.
SupervisedOnce ==
  /\ \A c \in Connections : shutdownHandlers[c] <= 1
  /\ lock = None /\ current # None =>
       current \in unverified \/ shutdownHandlers[current] = 1

\* Threads that reconnect never take a working connection from a caller: one
\* is refused a channel only after Dispose, or if the connection in use was
\* lost during its call.
RefusedForCause ==
  \A t \in Callers :
    thread[t].result \in {"refused", "AlreadyClosed"} => disposed \/ thread[t].hit

\* After Dispose, a connection still in use is one that a TryConnect under way
\* made too late for Dispose to see, or one called for afterwards.
DisposedIsClosed ==
  disposal = "done" /\ current # None =>
    link[current] = "closed" \/ current \in late

\* Every thread that uses the connection, or runs a callback, comes to an end:
\* no TryConnect waits for the lock forever.
CallsEnd == \A t \in Threads : ~At(t, "idle") ~> At(t, "idle")

\* The loss of the connection in use is answered by one that works, unless the
\* broker could not be reached in all attempts, or the object is disposed.
LossIsAnswered ==
  (current # None /\ link[current] # "open" /\ lock = None /\ current \notin unverified)
    ~> (IsConnected \/ disposed \/ gaveUp)

\* Every use of the connection ends, and a loss is answered.
ConnectionRecovers == CallsEnd /\ LossIsAnswered
=============================================================================
