--------------------- MODULE PersistentConnection_proofs ---------------------
(***************************************************************************)
(* The safety of the persistent connection, for every number of callers,   *)
(* connections, retries, calls and faults: TypeOK, SupervisedOnce,         *)
(* RefusedForCause and DisposedIsClosed.                                   *)
(***************************************************************************)
EXTENDS PersistentConnection, TLAPS

ThreadType ==
  [pc : {"idle", "enter", "connect", "verify", "shutdown", "others", "create",
         "model", "callback"},
   kind : {"none", "call", "shutdown", "other"}, hit : BOOLEAN,
   result : {"none", "channel", "refused", "AlreadyClosed", "BrokerUnreachable"}]

\* Inside the lock there is its owner, and nobody else.
Mutex ==
  \A t \in Threads :
    thread[t].pc \in {"connect", "verify", "shutdown", "others"} => lock = t

\* Only connections run callbacks; callers call.
Kinds ==
  \A t \in Callers :
    /\ thread[t].kind \in {"none", "call"} /\ thread[t].pc # "callback"
    /\ thread[t].pc # "idle" => thread[t].kind = "call"

\* Between Connect and the registration the owner holds a connection without
\* handler; at all other times the connection in use has been dealt with.
New(t) == thread[t].pc \in {"verify", "shutdown"}

Supervision ==
  /\ \A c \in Connections :
       shutdownHandlers[c] <= 1 /\ (link[c] = "none" => shutdownHandlers[c] = 0)
  /\ \A t \in Threads : New(t) => current # None /\ shutdownHandlers[current] = 0
  /\ \A t \in Threads : thread[t].pc = "others" => current # None
  /\ current # None => link[current] # "none"
  /\ (\A t \in Threads : ~New(t)) =>
       current = None \/ current \in unverified \/ shutdownHandlers[current] = 1

\* A caller past its connecting has a working connection, or a cause.
HasCause(t) ==
  /\ thread[t].pc \in {"verify", "shutdown", "others", "create", "model"} =>
       disposed \/ thread[t].hit \/ (current # None /\ link[current] = "open")
  /\ thread[t].result \in {"refused", "AlreadyClosed"} => disposed \/ thread[t].hit

Inv ==
  /\ TypeOK
  /\ Mutex
  /\ Kinds
  /\ Supervision
  /\ \A t \in Callers : HasCause(t)
  /\ DisposedIsClosed

\* Threads and connections are told apart, and None is neither.
LEMMA Identities ==
  /\ None \notin Threads /\ None \notin Connections
  /\ Callers \subseteq Threads /\ Connections \subseteq Threads
  /\ \A c \in Connections : c \notin Callers
  BY BoundsAssumption, CallersAssumption DEF None, Threads, Connections

LEMMA Initially == Init => Inv
<1> SUFFICES ASSUME Init PROVE Inv
  OBVIOUS
<1>1. TypeOK
  <2>1. /\ RetryCount \in Nat /\ MaxCalls \in Nat /\ MaxFaults \in Nat
    BY BoundsAssumption
  <2>2. thread \in [Threads -> ThreadType] BY DEF Init, Idle, ThreadType
  <2>3. due \in [Connections -> [shutdown : Nat, other : Nat]] BY DEF Init
  <2>4. gaveUp \in BOOLEAN BY DEF Init
  <2>5. /\ current \in {None} \union Connections /\ lock \in {None} \union Threads
        /\ depth \in Nat /\ left \in 0..RetryCount
        /\ calls \in 0..MaxCalls /\ faults \in 0..MaxFaults
    BY <2>1 DEF Init
  <2>6. /\ link \in [Connections -> {"none", "open", "lost", "closed"}]
        /\ shutdownHandlers \in [Connections -> Nat]
        /\ otherHandlers \in [Connections -> Nat]
        /\ disposal \in {"none", "begun", "done"}
        /\ unverified \subseteq Connections /\ late \subseteq Connections
    BY DEF Init
  <2> QED BY <2>2, <2>3, <2>4, <2>5, <2>6 DEF TypeOK, ThreadType
<1>2. Mutex /\ Kinds BY Identities DEF Init, Mutex, Kinds, Idle
<1>3. Supervision BY DEF Init, Supervision, New, Idle
<1>4. \A t \in Callers : HasCause(t) BY Identities DEF Init, HasCause, Idle
<1>5. DisposedIsClosed BY DEF Init, DisposedIsClosed
<1> QED BY <1>1, <1>2, <1>3, <1>4, <1>5 DEF Inv

\* Where a step takes its own thread.
LEMMA Goes ==
  ASSUME TypeOK, NEW t \in Threads,
         NEW pc \in {"idle", "enter", "connect", "verify", "shutdown", "others", "create",
                     "model", "callback"}, Goto(t, pc)
  PROVE  /\ thread' \in [Threads -> ThreadType]
         /\ thread'[t].pc = pc
         /\ thread'[t].kind = thread[t].kind
         /\ thread'[t].hit = thread[t].hit
         /\ thread'[t].result = thread[t].result
         /\ \A u \in Threads : u # t => thread'[u] = thread[u]
  BY DEF TypeOK, ThreadType, Goto

LEMMA Begins ==
  ASSUME TypeOK, NEW t \in Threads, NEW pc \in {"enter", "create", "callback"},
         NEW kind \in {"call", "shutdown", "other"}, Begin(t, pc, kind)
  PROVE  /\ thread' \in [Threads -> ThreadType]
         /\ thread'[t] = [pc |-> pc, kind |-> kind, hit |-> FALSE, result |-> "none"]
         /\ \A u \in Threads : u # t => thread'[u] = thread[u]
  BY DEF TypeOK, ThreadType, Begin

LEMMA Finishes ==
  ASSUME TypeOK, NEW t \in Threads,
         NEW result \in {"none", "channel", "refused", "AlreadyClosed", "BrokerUnreachable"},
         Finish(t, result)
  PROVE  /\ thread' \in [Threads -> ThreadType]
         /\ thread'[t] = [pc |-> "idle", kind |-> "none", hit |-> thread[t].hit,
                          result |-> result]
         /\ \A u \in Threads : u # t => thread'[u] = thread[u]
  BY DEF TypeOK, ThreadType, Finish

\* Steps that register nothing and connect nothing keep the supervision.
LEMMA SupervisionKept ==
  ASSUME Inv, UNCHANGED <<current, shutdownHandlers>>,
         unverified \subseteq unverified',
         \A c \in Connections : link'[c] = "none" => link[c] = "none",
         \A t \in Threads : New(t)' <=> New(t),
         \A t \in Threads : thread'[t].pc = "others" => thread[t].pc = "others"
  PROVE  Supervision'
<1>1. current = None \/ current \in Connections BY DEF Inv, TypeOK
<1>2. \A c \in Connections :
        shutdownHandlers'[c] <= 1 /\ (link'[c] = "none" => shutdownHandlers'[c] = 0)
  BY DEF Inv, Supervision
<1>3. \A t \in Threads : New(t)' => current' # None /\ shutdownHandlers'[current'] = 0
  BY DEF Inv, Supervision
<1>4. current' # None => link'[current'] # "none" BY <1>1 DEF Inv, Supervision
<1> QED BY <1>2, <1>3, <1>4 DEF Inv, Supervision

\* A caller keeps its cause while the connection in use works, or is disposed.
LEMMA CauseKept ==
  ASSUME Inv, NEW t \in Callers, thread'[t] = thread[t], UNCHANGED <<current, link>>,
         disposed => disposed'
  PROVE  HasCause(t)'
  BY DEF Inv, HasCause

\* Nothing that Dispose closed opens again.
LEMMA ClosedKept ==
  ASSUME Inv, UNCHANGED <<current, late, disposal>>,
         \A c \in Connections : link[c] = "closed" => link'[c] = "closed"
  PROVE  DisposedIsClosed'
  BY DEF Inv, TypeOK, DisposedIsClosed

LEMMA EnterKeepsInv ==
  ASSUME Inv, NEW t \in Threads, Enter(t)
  PROVE  Inv'
<1>1. /\ thread[t].pc = "enter" /\ lock = None /\ lock' = t /\ Goto(t, "connect")
      /\ left' = RetryCount
      /\ UNCHANGED <<current, disposal, depth, link, shutdownHandlers, otherHandlers, due,
                     calls, faults, unverified, late, gaveUp>>
  BY DEF Enter, At, Lock, WhileConnecting, connections, bounds, history
<1>2. /\ thread' \in [Threads -> ThreadType] /\ thread'[t].pc = "connect"
      /\ thread'[t].kind = thread[t].kind /\ thread'[t].hit = thread[t].hit
      /\ thread'[t].result = thread[t].result
      /\ \A u \in Threads : u # t => thread'[u] = thread[u]
  BY <1>1, Goes DEF Inv
<1>3. TypeOK' BY <1>1, <1>2, BoundsAssumption DEF Inv, TypeOK, ThreadType
<1>4. Mutex' BY <1>1, <1>2, Identities DEF Inv, Mutex
<1>5. Kinds' BY <1>1, <1>2, Identities DEF Inv, Kinds
<1>6. Supervision' BY <1>1, <1>2, SupervisionKept DEF New
<1>7. \A u \in Callers : HasCause(u)'
  BY <1>1, <1>2, Identities DEF Inv, HasCause, disposed
<1>8. DisposedIsClosed' BY <1>1, ClosedKept
<1> QED BY <1>3, <1>4, <1>5, <1>6, <1>7, <1>8 DEF Inv

LEMMA ConnectKeepsInv ==
  ASSUME Inv, NEW t \in Threads, Connect(t)
  PROVE  Inv'
<1>1. PICK c \in Connections : /\ link[c] = "none"
                              /\ link' = [link EXCEPT ![c] = "open"]
                              /\ current' = c
                              /\ late' = IF disposed THEN late \union {c} ELSE late
  BY DEF Connect, Fresh
<1>2. /\ thread[t].pc = "connect" /\ Goto(t, "verify")
      /\ UNCHANGED <<disposal, lock, depth, left, shutdownHandlers, otherHandlers, due,
                     calls, faults, unverified, gaveUp>>
  BY DEF Connect, At, mutex, bounds
<1>3. /\ thread' \in [Threads -> ThreadType] /\ thread'[t].pc = "verify"
      /\ thread'[t].kind = thread[t].kind /\ thread'[t].hit = thread[t].hit
      /\ thread'[t].result = thread[t].result
      /\ \A u \in Threads : u # t => thread'[u] = thread[u]
  BY <1>2, Goes DEF Inv
<1>4. c # None /\ shutdownHandlers[c] = 0
  BY <1>1, Identities DEF Inv, Supervision
<1>5. TypeOK' BY <1>1, <1>2, <1>3 DEF Inv, TypeOK, ThreadType
<1>6. Mutex' BY <1>2, <1>3 DEF Inv, Mutex
<1>7. Kinds' BY <1>2, <1>3, Identities DEF Inv, Kinds
<1>8. \A u \in Threads : u # t => thread'[u].pc \notin {"verify", "shutdown", "others"}
  BY <1>2, <1>3 DEF Inv, Mutex
<1>9. Supervision' BY <1>1, <1>2, <1>3, <1>4, <1>8 DEF Inv, TypeOK, Supervision, New
<1>10. \A u \in Callers : HasCause(u)'
  BY <1>1, <1>2, <1>3, <1>4, Identities DEF Inv, TypeOK, HasCause, disposed
<1>11. DisposedIsClosed' BY <1>1, <1>2 DEF DisposedIsClosed, disposed
<1> QED BY <1>5, <1>6, <1>7, <1>9, <1>10, <1>11 DEF Inv

LEMMA AttemptFailsKeepsInv ==
  ASSUME Inv, NEW t \in Threads, AttemptFails(t)
  PROVE  Inv'
<1>1. /\ left > 0 /\ left' = left - 1
      /\ UNCHANGED <<current, disposal, lock, depth, link, shutdownHandlers, otherHandlers,
                     due, thread, calls, faults, unverified, late, gaveUp>>
  BY DEF AttemptFails, MayRetry, connections, bounds, history
<1>2. TypeOK' BY <1>1, BoundsAssumption DEF Inv, TypeOK
<1>3. Mutex' /\ Kinds' BY <1>1 DEF Inv, Mutex, Kinds
<1>4. Supervision' BY <1>1, SupervisionKept DEF New
<1>5. \A u \in Callers : HasCause(u)' BY <1>1, CauseKept DEF disposed
<1>6. DisposedIsClosed' BY <1>1, ClosedKept
<1> QED BY <1>2, <1>3, <1>4, <1>5, <1>6 DEF Inv

LEMMA GiveUpKeepsInv ==
  ASSUME Inv, NEW t \in Threads, GiveUp(t)
  PROVE  Inv'
<1>1. /\ thread[t].pc = "connect" /\ Finish(t, "BrokerUnreachable")
      /\ lock' = None /\ depth' = 0 /\ gaveUp' = TRUE
      /\ due' = IF thread[t].kind = "shutdown"
                  THEN [due EXCEPT ![t].other = @ + otherHandlers[t]] ELSE due
      /\ UNCHANGED <<current, disposal, left, link, shutdownHandlers, otherHandlers, calls,
                     faults, unverified, late>>
  BY DEF GiveUp, At, Unlock, bounds
<1>2. /\ thread' \in [Threads -> ThreadType]
      /\ thread'[t] = [pc |-> "idle", kind |-> "none", hit |-> thread[t].hit,
                       result |-> "BrokerUnreachable"]
      /\ \A u \in Threads : u # t => thread'[u] = thread[u]
  BY <1>1, Finishes DEF Inv
<1>3. due' \in [Connections -> [shutdown : Nat, other : Nat]]
  <2>1. CASE thread[t].kind = "shutdown"
    <3>1. t \in Connections BY <2>1 DEF Inv, Kinds, Threads
    <3>2. otherHandlers[t] \in Nat /\ due[t].other \in Nat BY <3>1 DEF Inv, TypeOK
    <3> QED BY <1>1, <2>1, <3>1, <3>2 DEF Inv, TypeOK
  <2>2. CASE thread[t].kind # "shutdown" BY <1>1, <2>2 DEF Inv, TypeOK
  <2> QED BY <2>1, <2>2
<1>4. TypeOK' BY <1>1, <1>2, <1>3 DEF Inv, TypeOK, ThreadType
<1>5. Mutex' BY <1>1, <1>2 DEF Inv, Mutex
<1>6. Kinds' BY <1>2, Identities DEF Inv, Kinds
<1>7. Supervision' BY <1>1, <1>2, SupervisionKept DEF New
<1>8. \A u \in Callers : HasCause(u)'
  BY <1>1, <1>2, Identities DEF Inv, HasCause, disposed
<1>9. DisposedIsClosed' BY <1>1, ClosedKept
<1> QED BY <1>4, <1>5, <1>6, <1>7, <1>8, <1>9 DEF Inv

\* Return goes on with the outer TryConnect, or gives the lock back.
LEMMA Returns ==
  ASSUME Inv, NEW t \in Threads, Return(t)
  PROVE  /\ thread' \in [Threads -> ThreadType] /\ depth' \in Nat
         /\ thread'[t].pc \in {"others", "create", "idle"}
         /\ thread'[t].hit = thread[t].hit
         /\ lock' = IF thread'[t].pc = "others" THEN lock ELSE None
         /\ thread'[t].kind \in {thread[t].kind, "none"}
         /\ thread'[t].pc # "idle" => thread'[t].kind = thread[t].kind
         /\ thread'[t].result \in {thread[t].result, "none"}
         /\ \A u \in Threads : u # t => thread'[u] = thread[u]
<1> depth \in Nat /\ TypeOK BY DEF Inv, TypeOK
<1>1. CASE depth > 0 /\ depth' = depth - 1 /\ Goto(t, "others") /\ UNCHANGED lock
  <2>1. depth' \in Nat BY <1>1
  <2>2. Goto(t, "others") BY <1>1
  <2>3. /\ thread' \in [Threads -> ThreadType] /\ thread'[t].pc = "others"
        /\ thread'[t].kind = thread[t].kind /\ thread'[t].hit = thread[t].hit
        /\ thread'[t].result = thread[t].result
        /\ \A u \in Threads : u # t => thread'[u] = thread[u]
    BY <2>2, Goes
  <2> QED BY <1>1, <2>1, <2>3
<1>2. CASE depth = 0 /\ lock' = None /\ Goto(t, "create") /\ UNCHANGED depth
  <2>1. depth' \in Nat BY <1>2
  <2>2. Goto(t, "create") BY <1>2
  <2>3. /\ thread' \in [Threads -> ThreadType] /\ thread'[t].pc = "create"
        /\ thread'[t].kind = thread[t].kind /\ thread'[t].hit = thread[t].hit
        /\ thread'[t].result = thread[t].result
        /\ \A u \in Threads : u # t => thread'[u] = thread[u]
    BY <2>2, Goes
  <2> QED BY <1>2, <2>1, <2>3
<1>3. CASE depth = 0 /\ lock' = None /\ Finish(t, "none") /\ UNCHANGED depth
  <2>1. depth' \in Nat BY <1>3
  <2>2. Finish(t, "none") BY <1>3
  <2>3. /\ thread' \in [Threads -> ThreadType]
        /\ thread'[t] = [pc |-> "idle", kind |-> "none", hit |-> thread[t].hit,
                         result |-> "none"]
        /\ \A u \in Threads : u # t => thread'[u] = thread[u]
    BY <2>2, Finishes
  <2> QED BY <1>3, <2>1, <2>3
<1> QED BY <1>1, <1>2, <1>3 DEF Return, Resume

LEMMA VerifyKeepsInv ==
  ASSUME Inv, NEW t \in Threads, Verify(t)
  PROVE  Inv'
<1>1. /\ thread[t].pc = "verify"
      /\ UNCHANGED <<current, disposal, left, link, shutdownHandlers, otherHandlers, due,
                     calls, faults, late, gaveUp>>
  BY DEF Verify, At, connections, bounds
<1>2. current \in Connections BY <1>1 DEF Inv, TypeOK, Supervision, New
<1>3. CASE IsConnected /\ Goto(t, "shutdown") /\ UNCHANGED <<lock, depth, unverified>>
  <2>1. /\ thread' \in [Threads -> ThreadType] /\ thread'[t].pc = "shutdown"
        /\ thread'[t].kind = thread[t].kind /\ thread'[t].hit = thread[t].hit
        /\ thread'[t].result = thread[t].result
        /\ \A u \in Threads : u # t => thread'[u] = thread[u]
    BY <1>3, Goes DEF Inv
  <2>2. TypeOK' BY <1>1, <1>3, <2>1 DEF Inv, TypeOK, ThreadType
  <2>3. Mutex' BY <1>1, <1>3, <2>1 DEF Inv, Mutex
  <2>4. Kinds' BY <1>1, <2>1, Identities DEF Inv, Kinds
  <2>5. Supervision' BY <1>1, <1>3, <2>1, SupervisionKept DEF New
  <2>6. \A u \in Callers : HasCause(u)'
    BY <1>1, <2>1, Identities DEF Inv, HasCause, disposed
  <2>7. DisposedIsClosed' BY <1>1, ClosedKept
  <2> QED BY <2>2, <2>3, <2>4, <2>5, <2>6, <2>7 DEF Inv
<1>4. CASE Return(t) /\ unverified' = unverified \union {current}
  <2>1. TypeOK' BY <1>1, <1>2, <1>4, Returns DEF Inv, TypeOK, ThreadType
  <2>2. Mutex' BY <1>1, <1>4, Returns DEF Inv, Mutex
  <2>3. Kinds' BY <1>1, <1>4, Returns, Identities DEF Inv, Kinds
  <2>4. Supervision'
    <3>1. current # None BY <1>2, Identities
    <3>2. \A u \in Threads : New(u)' => New(u) BY <1>4, Returns DEF New
    <3> QED BY <1>1, <1>4, <3>1, <3>2 DEF Inv, Supervision
  <2>5. \A u \in Callers : HasCause(u)'
    BY <1>1, <1>4, Returns, Identities DEF Inv, HasCause, disposed
  <2>6. DisposedIsClosed' BY <1>1, ClosedKept
  <2> QED BY <2>1, <2>2, <2>3, <2>4, <2>5, <2>6 DEF Inv
<1> QED BY <1>3, <1>4 DEF Verify

LEMMA AddShutdownHandlerKeepsInv ==
  ASSUME Inv, NEW t \in Threads, AddShutdownHandler(t)
  PROVE  Inv'
<1>1. /\ thread[t].pc = "shutdown"
      /\ shutdownHandlers' = [shutdownHandlers EXCEPT ![current] = @ + 1]
      /\ UNCHANGED <<current, disposal, lock, link, otherHandlers, due, calls, faults,
                     unverified, late, gaveUp>>
  BY DEF AddShutdownHandler, At, bounds, history
<1>2. PICK pc \in {"others", "connect"} : Goto(t, pc)
  BY DEF AddShutdownHandler
<1>3. depth' \in Nat /\ left' \in 0..RetryCount
  BY BoundsAssumption DEF AddShutdownHandler, Inv, TypeOK
<1>4. /\ thread' \in [Threads -> ThreadType] /\ thread'[t].pc = pc
      /\ thread'[t].kind = thread[t].kind /\ thread'[t].hit = thread[t].hit
      /\ thread'[t].result = thread[t].result
      /\ \A u \in Threads : u # t => thread'[u] = thread[u]
  BY <1>2, Goes DEF Inv
<1>5. current \in Connections /\ current # None /\ shutdownHandlers[current] = 0
  BY <1>1 DEF Inv, TypeOK, Supervision, New
<1>6. TypeOK' BY <1>1, <1>3, <1>4, <1>5 DEF Inv, TypeOK, ThreadType
<1>7. Mutex' BY <1>1, <1>4 DEF Inv, Mutex
<1>8. Kinds' BY <1>1, <1>4, Identities DEF Inv, Kinds
<1>9. link[current] # "none" BY <1>5 DEF Inv, Supervision
<1>10. \A u \in Threads : ~New(u)' BY <1>1, <1>4 DEF Inv, Mutex, New
<1>11. Supervision' BY <1>1, <1>4, <1>5, <1>9, <1>10 DEF Inv, TypeOK, Supervision
<1>12. \A u \in Callers : HasCause(u)'
  BY <1>1, <1>4, Identities DEF Inv, HasCause, disposed
<1>13. DisposedIsClosed' BY <1>1, ClosedKept
<1> QED BY <1>6, <1>7, <1>8, <1>11, <1>12, <1>13 DEF Inv

LEMMA AddOtherHandlersKeepsInv ==
  ASSUME Inv, NEW t \in Threads, AddOtherHandlers(t)
  PROVE  Inv'
<1>1. /\ thread[t].pc = "others" /\ Return(t)
      /\ otherHandlers' = [otherHandlers EXCEPT ![current] = @ + 1]
      /\ UNCHANGED <<current, disposal, left, link, shutdownHandlers, due, calls, faults,
                     unverified, late, gaveUp>>
  BY DEF AddOtherHandlers, At, bounds, history
<1>2. current \in Connections BY <1>1 DEF Inv, TypeOK, Supervision
<1>3. TypeOK' BY <1>1, <1>2, Returns DEF Inv, TypeOK, ThreadType
<1>4. Mutex' BY <1>1, Returns DEF Inv, Mutex
<1>5. Kinds' BY <1>1, Returns, Identities DEF Inv, Kinds
<1>6. Supervision'
  <2>1. \A u \in Threads : New(u)' <=> New(u) BY <1>1, Returns DEF New
  <2>2. \A u \in Threads : thread'[u].pc = "others" => thread[u].pc = "others"
    BY <1>1, Returns
  <2> QED BY <1>1, <2>1, <2>2, SupervisionKept
<1>7. \A u \in Callers : HasCause(u)'
  BY <1>1, Returns, Identities DEF Inv, HasCause, disposed
<1>8. DisposedIsClosed' BY <1>1, ClosedKept
<1> QED BY <1>3, <1>4, <1>5, <1>6, <1>7, <1>8 DEF Inv

LEMMA UseKeepsInv ==
  ASSUME Inv, NEW t \in Callers, Use(t)
  PROVE  Inv'
<1>1. /\ thread[t].pc = "idle" /\ calls < MaxCalls /\ calls' = calls + 1
      /\ UNCHANGED <<current, disposal, lock, depth, left, link, shutdownHandlers,
                     otherHandlers, due, faults, unverified, late, gaveUp>>
  BY DEF Use, At, mutex, connections, history
<1> DEFINE pc == IF IsConnected THEN "create" ELSE "enter"
<1>2. Begin(t, pc, "call") BY DEF Use
<1>3. t \in Threads BY Identities
<1>4. /\ thread' \in [Threads -> ThreadType]
      /\ thread'[t] = [pc |-> pc, kind |-> "call", hit |-> FALSE, result |-> "none"]
      /\ \A u \in Threads : u # t => thread'[u] = thread[u]
  <2>1. Begin(t, pc, "call") BY <1>2
  <2>2. pc \in {"enter", "create", "callback"} /\ "call" \in {"call", "shutdown", "other"}
    OBVIOUS
  <2>3. TypeOK BY DEF Inv
  <2> QED BY <1>3, <2>1, <2>2, <2>3, Begins
<1>5. calls' \in 0..MaxCalls BY <1>1, BoundsAssumption DEF Inv, TypeOK
<1>6. TypeOK' BY <1>1, <1>4, <1>5 DEF Inv, TypeOK, ThreadType
<1>7. Mutex' BY <1>1, <1>4 DEF Inv, Mutex
<1>8. Kinds' BY <1>1, <1>4, Identities DEF Inv, Kinds
<1>9. Supervision' BY <1>1, <1>4, SupervisionKept DEF New
<1>10. ASSUME NEW u \in Callers PROVE HasCause(u)'
  <2>1. CASE u # t
    <3>1. thread'[u] = thread[u] BY <1>4, <2>1, Identities
    <3> QED BY <1>1, <3>1, CauseKept DEF disposed
  <2>2. CASE u = t
    <3>1. thread'[u].pc = pc /\ thread'[u].result = "none" BY <1>4, <2>2
    <3>2. pc = "create" => current # None /\ link[current] = "open"
      BY <1>2 DEF IsConnected
    <3> QED BY <1>1, <3>1, <3>2 DEF HasCause
  <2> QED BY <2>1, <2>2
<1>11. DisposedIsClosed' BY <1>1, ClosedKept
<1> QED BY <1>6, <1>7, <1>8, <1>9, <1>10, <1>11 DEF Inv

LEMMA CreateModelKeepsInv ==
  ASSUME Inv, NEW t \in Callers, CreateModel(t)
  PROVE  Inv'
<1>1. /\ thread[t].pc = "create"
      /\ UNCHANGED <<current, disposal, lock, depth, left, link, shutdownHandlers,
                     otherHandlers, due, calls, faults, unverified, late, gaveUp>>
  BY DEF CreateModel, At, mutex, connections, bounds, history
<1>2. t \in Threads BY Identities
<1>3. CASE IsConnected /\ Goto(t, "model")
  <2>1. /\ thread' \in [Threads -> ThreadType] /\ thread'[t].pc = "model"
        /\ thread'[t].kind = thread[t].kind /\ thread'[t].hit = thread[t].hit
        /\ thread'[t].result = thread[t].result
        /\ \A u \in Threads : u # t => thread'[u] = thread[u]
    BY <1>2, <1>3, Goes DEF Inv
  <2>2. TypeOK' BY <1>1, <2>1 DEF Inv, TypeOK, ThreadType
  <2>3. Mutex' BY <1>1, <2>1 DEF Inv, Mutex
  <2>4. Kinds' BY <1>1, <2>1, Identities DEF Inv, Kinds
  <2>5. \A u \in Callers : HasCause(u)'
    BY <1>1, <2>1, Identities DEF Inv, HasCause, disposed
  <2>6. Supervision' BY <1>1, <2>1, SupervisionKept DEF New
  <2>7. DisposedIsClosed' BY <1>1, ClosedKept
  <2> QED BY <2>2, <2>3, <2>4, <2>5, <2>6, <2>7 DEF Inv
<1>4. CASE ~IsConnected /\ Finish(t, "refused")
  <2>1. /\ thread' \in [Threads -> ThreadType]
        /\ thread'[t] = [pc |-> "idle", kind |-> "none", hit |-> thread[t].hit,
                         result |-> "refused"]
        /\ \A u \in Threads : u # t => thread'[u] = thread[u]
    BY <1>2, <1>4, Finishes DEF Inv
  <2>2. TypeOK' BY <1>1, <2>1 DEF Inv, TypeOK, ThreadType
  <2>3. Mutex' BY <1>1, <2>1 DEF Inv, Mutex
  <2>4. Kinds' BY <1>1, <2>1, Identities DEF Inv, Kinds
  <2>5. disposed \/ thread[t].hit
    BY <1>1, <1>4 DEF Inv, HasCause, IsConnected
  <2>6. \A u \in Callers : HasCause(u)'
    BY <1>1, <2>1, <2>5, Identities DEF Inv, HasCause, disposed
  <2>7. Supervision' BY <1>1, <2>1, SupervisionKept DEF New
  <2>8. DisposedIsClosed' BY <1>1, ClosedKept
  <2> QED BY <2>2, <2>3, <2>4, <2>6, <2>7, <2>8 DEF Inv
<1> QED BY <1>3, <1>4 DEF CreateModel

LEMMA OpenChannelKeepsInv ==
  ASSUME Inv, NEW t \in Callers, OpenChannel(t)
  PROVE  Inv'
<1>1. /\ thread[t].pc = "model"
      /\ UNCHANGED <<current, disposal, lock, depth, left, link, shutdownHandlers,
                     otherHandlers, due, calls, faults, unverified, late, gaveUp>>
  BY DEF OpenChannel, At, mutex, connections, bounds, history
<1>2. PICK result \in {"channel", "AlreadyClosed"} :
        /\ Finish(t, result)
        /\ result = "AlreadyClosed" => link[current] # "open"
  BY DEF OpenChannel
<1>3. t \in Threads BY Identities
<1>4. /\ thread' \in [Threads -> ThreadType]
      /\ thread'[t] = [pc |-> "idle", kind |-> "none", hit |-> thread[t].hit,
                       result |-> result]
      /\ \A u \in Threads : u # t => thread'[u] = thread[u]
  BY <1>2, <1>3, Finishes DEF Inv
<1>5. TypeOK' BY <1>1, <1>4 DEF Inv, TypeOK, ThreadType
<1>6. Mutex' BY <1>1, <1>4 DEF Inv, Mutex
<1>7. Kinds' BY <1>1, <1>4, Identities DEF Inv, Kinds
<1>8. Supervision' BY <1>1, <1>4, SupervisionKept DEF New
<1>9. result = "AlreadyClosed" => disposed \/ thread[t].hit
  BY <1>1, <1>2 DEF Inv, HasCause
<1>10. \A u \in Callers : HasCause(u)'
  BY <1>1, <1>2, <1>4, <1>9, Identities DEF Inv, HasCause, disposed
<1>11. DisposedIsClosed' BY <1>1, ClosedKept
<1> QED BY <1>5, <1>6, <1>7, <1>8, <1>10, <1>11 DEF Inv

LEMMA StartCallbackKeepsInv ==
  ASSUME Inv, NEW c \in Connections, NEW kind \in {"shutdown", "other"},
         StartCallback(c, kind)
  PROVE  Inv'
<1>1. /\ thread[c].pc = "idle" /\ due[c][kind] > 0 /\ Begin(c, "callback", kind)
      /\ due' = [due EXCEPT ![c][kind] = @ - 1]
      /\ UNCHANGED <<current, disposal, lock, depth, left, link, shutdownHandlers,
                     otherHandlers, calls, faults, unverified, late, gaveUp>>
  BY DEF StartCallback, At, mutex, bounds, history
<1>2. c \in Threads /\ c \notin Callers BY Identities
<1>3. /\ thread' \in [Threads -> ThreadType]
      /\ thread'[c] = [pc |-> "callback", kind |-> kind, hit |-> FALSE, result |-> "none"]
      /\ \A u \in Threads : u # c => thread'[u] = thread[u]
  BY <1>1, <1>2, Begins DEF Inv
<1>4. due' \in [Connections -> [shutdown : Nat, other : Nat]]
  <2>1. CASE kind = "shutdown"
    <3>1. due[c].shutdown \in Nat /\ due[c].shutdown > 0 BY <1>1, <2>1 DEF Inv, TypeOK
    <3>2. due' = [due EXCEPT ![c].shutdown = @ - 1] BY <1>1, <2>1
    <3> QED BY <3>1, <3>2 DEF Inv, TypeOK
  <2>2. CASE kind = "other"
    <3>1. due[c].other \in Nat /\ due[c].other > 0 BY <1>1, <2>2 DEF Inv, TypeOK
    <3>2. due' = [due EXCEPT ![c].other = @ - 1] BY <1>1, <2>2
    <3> QED BY <3>1, <3>2 DEF Inv, TypeOK
  <2> QED BY <2>1, <2>2
<1>5. TypeOK' BY <1>1, <1>3, <1>4 DEF Inv, TypeOK, ThreadType
<1>6. Mutex' BY <1>1, <1>3 DEF Inv, Mutex
<1>7. Kinds' BY <1>1, <1>2, <1>3, Identities DEF Inv, Kinds
<1>8. Supervision' BY <1>1, <1>3, SupervisionKept DEF New
<1>9. \A u \in Callers : HasCause(u)'
  BY <1>1, <1>2, <1>3, Identities, CauseKept DEF disposed
<1>10. DisposedIsClosed' BY <1>1, ClosedKept
<1> QED BY <1>5, <1>6, <1>7, <1>8, <1>9, <1>10 DEF Inv

LEMMA CallbackKeepsInv ==
  ASSUME Inv, NEW c \in Connections, Callback(c)
  PROVE  Inv'
<1>1. /\ thread[c].pc = "callback"
      /\ UNCHANGED <<current, disposal, lock, depth, left, link, shutdownHandlers,
                     otherHandlers, due, calls, faults, unverified, late, gaveUp>>
  BY DEF Callback, At, mutex, connections, bounds, history
<1>2. c \in Threads /\ c \notin Callers BY Identities
<1>3. /\ thread' \in [Threads -> ThreadType]
      /\ thread'[c].pc \in {"enter", "idle"}
      /\ \A u \in Threads : u # c => thread'[u] = thread[u]
  <2>1. CASE Goto(c, "enter") BY <1>2, <2>1, Goes DEF Inv
  <2>2. CASE Finish(c, "none")
    <3>1. /\ thread' \in [Threads -> ThreadType]
          /\ thread'[c] = [pc |-> "idle", kind |-> "none", hit |-> thread[c].hit,
                           result |-> "none"]
          /\ \A u \in Threads : u # c => thread'[u] = thread[u]
      BY <1>2, <2>2, Finishes DEF Inv
    <3> QED BY <3>1
  <2> QED BY <2>1, <2>2 DEF Callback
<1>4. TypeOK' BY <1>1, <1>3 DEF Inv, TypeOK, ThreadType
<1>5. Mutex' BY <1>1, <1>3 DEF Inv, Mutex
<1>6. Kinds' BY <1>2, <1>3, Identities DEF Inv, Kinds
<1>7. Supervision' BY <1>1, <1>3, SupervisionKept DEF New
<1>8. \A u \in Callers : HasCause(u)'
  BY <1>1, <1>2, <1>3, Identities, CauseKept DEF disposed
<1>9. DisposedIsClosed' BY <1>1, ClosedKept
<1> QED BY <1>4, <1>5, <1>6, <1>7, <1>8, <1>9 DEF Inv

LEMMA DisposeKeepsInv ==
  ASSUME Inv, Dispose
  PROVE  Inv'
<1>1. /\ disposal = "none" /\ disposal' = "begun"
      /\ UNCHANGED <<current, lock, depth, left, link, shutdownHandlers, otherHandlers, due,
                     thread, calls, faults, unverified, late, gaveUp>>
  BY DEF Dispose, mutex, connections, bounds, history
<1>2. TypeOK' BY <1>1 DEF Inv, TypeOK
<1>3. Mutex' /\ Kinds' BY <1>1 DEF Inv, Mutex, Kinds
<1>4. Supervision' BY <1>1, SupervisionKept DEF New
<1>5. \A u \in Callers : HasCause(u)' BY <1>1, CauseKept DEF disposed
<1>6. DisposedIsClosed' BY <1>1 DEF DisposedIsClosed
<1> QED BY <1>2, <1>3, <1>4, <1>5, <1>6 DEF Inv

LEMMA DisposeConnectionKeepsInv ==
  ASSUME Inv, DisposeConnection
  PROVE  Inv'
<1>1. /\ disposal = "begun" /\ disposal' = "done"
      /\ UNCHANGED <<current, lock, depth, left, shutdownHandlers, otherHandlers, thread,
                     calls, faults, unverified, late, gaveUp>>
  BY DEF DisposeConnection, mutex, bounds, history
<1>2. CASE /\ current # None
           /\ link' = [link EXCEPT ![current] = "closed"]
           /\ due' = IF link[current] = "open"
                       THEN [due EXCEPT ![current].shutdown = @ + shutdownHandlers[current]]
                       ELSE due
  <2>1. current \in Connections BY <1>2 DEF Inv, TypeOK
  <2>2. shutdownHandlers[current] \in Nat /\ due[current].shutdown \in Nat
    BY <2>1 DEF Inv, TypeOK
  <2>3. due' \in [Connections -> [shutdown : Nat, other : Nat]]
    BY <1>2, <2>1, <2>2 DEF Inv, TypeOK
  <2>4. link' \in [Connections -> {"none", "open", "lost", "closed"}]
        /\ link'[current] = "closed"
        /\ \A c \in Connections : c # current => link'[c] = link[c]
    BY <1>2, <2>1 DEF Inv, TypeOK
  <2>5. TypeOK' BY <1>1, <2>3, <2>4 DEF Inv, TypeOK
  <2>6. Supervision' BY <1>1, <2>4, SupervisionKept DEF New
  <2>7. DisposedIsClosed' BY <1>1, <2>4 DEF DisposedIsClosed
  <2> QED BY <1>1, <2>5, <2>6, <2>7 DEF Inv, Mutex, Kinds, HasCause, disposed
<1>3. CASE current = None /\ UNCHANGED <<link, due>>
  <2>1. TypeOK' BY <1>1, <1>3 DEF Inv, TypeOK
  <2>2. Supervision' BY <1>1, <1>3, SupervisionKept DEF New
  <2>3. DisposedIsClosed' BY <1>1, <1>3 DEF DisposedIsClosed
  <2> QED BY <1>1, <1>3, <2>1, <2>2, <2>3 DEF Inv, Mutex, Kinds, HasCause, disposed
<1> QED BY <1>2, <1>3 DEF DisposeConnection, HasConnection

LEMMA LoseKeepsInv ==
  ASSUME Inv, NEW c \in Connections, Lose(c)
  PROVE  Inv'
<1>1. /\ faults < MaxFaults /\ faults' = faults + 1 /\ link[c] = "open"
      /\ link' = [link EXCEPT ![c] = "lost"]
      /\ due' = [due EXCEPT ![c].shutdown = @ + shutdownHandlers[c]]
      /\ UNCHANGED <<current, disposal, lock, depth, left, shutdownHandlers, otherHandlers,
                     calls, unverified, late, gaveUp>>
  BY DEF Lose, Fault, mutex, history
<1>2. thread' \in [Threads -> ThreadType]
  <2>1. thread' = [t \in Threads |->
          [thread[t] EXCEPT !.hit = @ \/ (c = current /\ thread[t].kind = "call")]]
    BY DEF Lose, HitCallers
  <2>2. ASSUME NEW t \in Threads
        PROVE  [thread[t] EXCEPT !.hit = @ \/ (c = current /\ thread[t].kind = "call")]
                 \in ThreadType
    <3>1. thread[t] \in ThreadType BY DEF Inv, TypeOK, ThreadType
    <3> QED BY <3>1 DEF ThreadType
  <2> QED BY <2>1, <2>2
<1>3. \A t \in Threads : /\ thread'[t].pc = thread[t].pc
                         /\ thread'[t].kind = thread[t].kind
                         /\ thread'[t].result = thread[t].result
                         /\ thread[t].hit => thread'[t].hit
                         /\ c = current /\ thread[t].kind = "call" => thread'[t].hit
  BY DEF Lose, HitCallers, Inv, TypeOK
<1>4. due' \in [Connections -> [shutdown : Nat, other : Nat]]
  <2>1. shutdownHandlers[c] \in Nat /\ due[c].shutdown \in Nat BY DEF Inv, TypeOK
  <2> QED BY <1>1, <2>1 DEF Inv, TypeOK
<1>5. faults' \in 0..MaxFaults BY <1>1, BoundsAssumption DEF Inv, TypeOK
<1>6. /\ link' \in [Connections -> {"none", "open", "lost", "closed"}]
      /\ link'[c] = "lost"
      /\ \A d \in Connections : d # c => link'[d] = link[d]
  BY <1>1 DEF Inv, TypeOK
<1>7. TypeOK' BY <1>1, <1>2, <1>4, <1>5, <1>6 DEF Inv, TypeOK, ThreadType
<1>8. Mutex' BY <1>1, <1>3 DEF Inv, Mutex
<1>9. Kinds' BY <1>1, <1>3, Identities DEF Inv, Kinds
<1>10. Supervision' BY <1>1, <1>3, <1>6, SupervisionKept DEF New
<1>11. ASSUME NEW t \in Callers PROVE HasCause(t)'
  <2>1. thread[t].pc # "idle" => thread[t].kind = "call" BY DEF Inv, Kinds
  <2>2. t \in Threads BY Identities
  <2>3. HasCause(t) BY DEF Inv
  <2>4. current # None => current \in Connections BY DEF Inv, TypeOK
  <2> QED BY <1>1, <1>3, <1>6, <2>1, <2>2, <2>3, <2>4 DEF HasCause, disposed
<1>12. DisposedIsClosed' BY <1>1, <1>6, ClosedKept
<1> QED BY <1>7, <1>8, <1>9, <1>10, <1>11, <1>12 DEF Inv

LEMMA RecoverKeepsInv ==
  ASSUME Inv, NEW c \in Connections, Recover(c)
  PROVE  Inv'
<1>1. /\ link[c] = "lost" /\ link' = [link EXCEPT ![c] = "open"]
      /\ UNCHANGED <<current, disposal, lock, depth, left, shutdownHandlers, otherHandlers,
                     due, thread, calls, faults, unverified, late, gaveUp>>
  BY DEF Recover, mutex, bounds, history
<1>2. /\ link' \in [Connections -> {"none", "open", "lost", "closed"}]
      /\ link'[c] = "open"
      /\ \A d \in Connections : d # c => link'[d] = link[d]
  BY <1>1 DEF Inv, TypeOK
<1>3. TypeOK' BY <1>1, <1>2 DEF Inv, TypeOK
<1>4. Mutex' /\ Kinds' BY <1>1 DEF Inv, Mutex, Kinds
<1>5. Supervision' BY <1>1, <1>2, SupervisionKept DEF New
<1>6. \A t \in Callers : HasCause(t)' BY <1>1, <1>2 DEF Inv, TypeOK, HasCause, disposed
<1>7. DisposedIsClosed' BY <1>1, <1>2, ClosedKept
<1> QED BY <1>3, <1>4, <1>5, <1>6, <1>7 DEF Inv

LEMMA RaiseOtherKeepsInv ==
  ASSUME Inv, NEW c \in Connections, RaiseOther(c)
  PROVE  Inv'
<1>1. /\ faults < MaxFaults /\ faults' = faults + 1
      /\ due' = [due EXCEPT ![c].other = @ + otherHandlers[c]]
      /\ UNCHANGED <<current, disposal, lock, depth, left, link, shutdownHandlers,
                     otherHandlers, thread, calls, unverified, late, gaveUp>>
  BY DEF RaiseOther, Fault, mutex, history
<1>2. due' \in [Connections -> [shutdown : Nat, other : Nat]]
  <2>1. otherHandlers[c] \in Nat /\ due[c].other \in Nat BY DEF Inv, TypeOK
  <2> QED BY <1>1, <2>1 DEF Inv, TypeOK
<1>3. faults' \in 0..MaxFaults BY <1>1, BoundsAssumption DEF Inv, TypeOK
<1>4. TypeOK' BY <1>1, <1>2, <1>3 DEF Inv, TypeOK
<1>5. Mutex' /\ Kinds' BY <1>1 DEF Inv, Mutex, Kinds
<1>6. Supervision' BY <1>1, SupervisionKept DEF New
<1>7. \A t \in Callers : HasCause(t)' BY <1>1, CauseKept DEF disposed
<1>8. DisposedIsClosed' BY <1>1, ClosedKept
<1> QED BY <1>4, <1>5, <1>6, <1>7, <1>8 DEF Inv

\* Inv is inductive: one step per action.
LEMMA Inductive == Inv /\ [Next]_vars => Inv'
<1> SUFFICES ASSUME Inv, [Next]_vars PROVE Inv'
  OBVIOUS
<1>1. ASSUME NEW t \in Threads, TryConnect(t) PROVE Inv'
  BY <1>1, EnterKeepsInv, ConnectKeepsInv, AttemptFailsKeepsInv, GiveUpKeepsInv,
     VerifyKeepsInv, AddShutdownHandlerKeepsInv, AddOtherHandlersKeepsInv DEF TryConnect
<1>2. ASSUME NEW t \in Callers, Use(t) \/ CallerStep(t) PROVE Inv'
  BY <1>2, UseKeepsInv, CreateModelKeepsInv, OpenChannelKeepsInv DEF CallerStep
<1>3. ASSUME NEW c \in Connections, CallbackStep(c) \/ Lose(c) \/ Recover(c) \/ RaiseOther(c)
      PROVE Inv'
  BY <1>3, StartCallbackKeepsInv, CallbackKeepsInv, LoseKeepsInv, RecoverKeepsInv,
     RaiseOtherKeepsInv DEF CallbackStep
<1>4. CASE Dispose BY <1>4, DisposeKeepsInv
<1>5. CASE DisposeConnection BY <1>5, DisposeConnectionKeepsInv
<1>6. CASE UNCHANGED vars
  <2>1. UNCHANGED <<current, disposal, lock, depth, left, link, shutdownHandlers,
                    otherHandlers, due, thread, calls, faults, unverified, late, gaveUp>>
    BY <1>6 DEF vars
  <2>2. TypeOK' BY <2>1 DEF Inv, TypeOK
  <2>3. Supervision' BY <2>1, SupervisionKept DEF New
  <2>4. \A t \in Callers : HasCause(t)' BY <2>1, CauseKept DEF disposed
  <2>5. DisposedIsClosed' BY <2>1, ClosedKept
  <2> QED BY <2>1, <2>2, <2>3, <2>4, <2>5 DEF Inv, Mutex, Kinds
<1> QED BY <1>1, <1>2, <1>3, <1>4, <1>5, <1>6 DEF Next

\* The invariant that the four properties follow from holds in every state.
THEOREM ConnectionInvariant == Spec => []Inv
<1> QED BY Initially, Inductive, PTL DEF Spec

\* The fields keep their types.
THEOREM ConnectionTypeCorrect == Spec => []TypeOK
<1>1. Inv => TypeOK BY DEF Inv
<1> QED BY <1>1, ConnectionInvariant, PTL

\* No connection reports its shutdown twice, and the one in use reports it
\* unless TryConnect found it lost, or the object disposed.
THEOREM ConnectionIsSupervised == Spec => []SupervisedOnce
<1>1. ASSUME Inv PROVE SupervisedOnce
  <2>1. \A c \in Connections : shutdownHandlers[c] <= 1 BY <1>1 DEF Inv, Supervision
  <2>2. ASSUME lock = None PROVE \A t \in Threads : ~New(t)
    BY <1>1, <2>2, Identities DEF Inv, Mutex, New
  <2> QED BY <1>1, <2>1, <2>2 DEF Inv, Supervision, SupervisedOnce
<1> QED BY <1>1, ConnectionInvariant, PTL

\* A caller is refused a channel only after Dispose or a loss during its call.
THEOREM RefusalHasCause == Spec => []RefusedForCause
<1>1. Inv => RefusedForCause BY DEF Inv, HasCause, RefusedForCause
<1> QED BY <1>1, ConnectionInvariant, PTL

\* After Dispose, the connection in use is closed or was made too late.
THEOREM DisposeCloses == Spec => []DisposedIsClosed
<1>1. Inv => DisposedIsClosed BY DEF Inv
<1> QED BY <1>1, ConnectionInvariant, PTL
=============================================================================
