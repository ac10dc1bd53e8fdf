-------------------------- MODULE EventLog_proofs --------------------------
(***************************************************************************)
(* The safety of the event log, for every set of events and publishers and *)
(* every number of faults: TypeOK, PublishedWasSent, PendingIsUntouched    *)
(* and InProgressHasOwner hold together with what the publishers have in   *)
(* hand; and, by counting who holds an event, SentOncePerRetrieval.        *)
(***************************************************************************)
EXTENDS EventLog, FiniteSetTheorems, TLAPS

\* The table holds the events whose transaction has committed.
RowsAreCommitted ==
  \A e \in Events :
    /\ (row[e].state # "absent") <=> (tx[e] = "committed")
    /\ sent[e] > 0 => row[e].state # "absent"

\* Publishers work on committed events only.
InHand(p) ==
  /\ \A e \in pub[p].todo : row[e].state # "absent"
  /\ pub[p].pc \in {"mark", "send", "sent", "fail"} =>
       Event(p) \in Events /\ row[Event(p)].state # "absent"

\* Once marked, an event is never pending again; one past Publish was sent.
Progress(p) ==
  /\ pub[p].pc \in {"send", "sent"} => row[Event(p)].state # "NotPublished"
  /\ pub[p].pc = "sent" => sent[Event(p)] > 0

Inv ==
  /\ TypeOK
  /\ RowsAreCommitted
  /\ \A p \in Publishers : InHand(p) /\ Progress(p)
  /\ PublishedWasSent
  /\ PendingIsUntouched
  /\ InProgressHasOwner

LEMMA NotTrackedIsNoEvent == NotTracked \notin Events /\ NotTracked \in Int
  BY EventsAssumption DEF NotTracked

\* The initial table is empty, and nobody has anything in hand.
LEMMA Initially == Init => Inv
  BY EventsAssumption, FaultsAssumption
  DEF Init, Inv, TypeOK, RowsAreCommitted, InHand, Progress, PublishedWasSent,
      PendingIsUntouched, InProgressHasOwner, Pending, NoRow, Waiting, Times,
      NotTracked, Event

\* Business transactions: only Commit touches the table, at a fresh row.
LEMMA SavingKeepsInv ==
  ASSUME Inv, NEW e \in Events,
         BeginTransaction(e) \/ ChangeData(e) \/ SaveEvent(e) \/ Commit(e) \/ Rollback(e)
  PROVE  Inv'
<1> USE DEF InTransaction, unchangedBySaving, Event
<1>1. CASE BeginTransaction(e) \/ ChangeData(e) \/ SaveEvent(e) \/ Rollback(e)
  <2>1. UNCHANGED <<row, pub, sent, faults, marks, retrieved, abandoned>>
    BY <1>1 DEF BeginTransaction, ChangeData, SaveEvent, Rollback
  <2>2. /\ tx' \in [Events -> {"none", "open", "changed", "saved", "committed", "rolledback"}]
        /\ \A f \in Events : (tx'[f] = "committed") <=> (tx[f] = "committed")
    BY <1>1 DEF BeginTransaction, ChangeData, SaveEvent, Rollback, Inv, TypeOK
  <2> QED
    BY <2>1, <2>2 DEF Inv, TypeOK, RowsAreCommitted, InHand, Progress, PublishedWasSent,
       PendingIsUntouched, InProgressHasOwner, Working, Pending
<1>2. CASE Commit(e)
  <2>1. /\ row[e].state = "absent" /\ sent[e] = 0
        /\ row' = [row EXCEPT ![e] = NewEntry]
        /\ tx' = [tx EXCEPT ![e] = "committed"]
        /\ UNCHANGED <<pub, sent, faults, marks, retrieved, abandoned>>
    BY <1>2 DEF Commit, Inv, TypeOK, RowsAreCommitted
  <2>2. TypeOK' BY <2>1 DEF Inv, TypeOK, NewEntry
  <2>3. RowsAreCommitted' BY <2>1 DEF Inv, TypeOK, RowsAreCommitted, NewEntry
  <2>4. \A p \in Publishers : (InHand(p) /\ Progress(p))'
    BY <2>1 DEF Inv, TypeOK, InHand, Progress
  <2>5. PublishedWasSent' /\ PendingIsUntouched'
    BY <2>1 DEF Inv, TypeOK, PublishedWasSent, PendingIsUntouched, Pending, NewEntry
  <2>6. InProgressHasOwner'
    BY <2>1 DEF Inv, TypeOK, InProgressHasOwner, Working, NewEntry
  <2> QED BY <2>2, <2>3, <2>4, <2>5, <2>6 DEF Inv
<1> QED BY <1>1, <1>2

\* Steps that leave table and bus alone keep what is true of the log, as long
\* as an event in progress keeps its owner.
LEMMA LogUntouched ==
  ASSUME Inv, UNCHANGED <<row, tx, sent>>
  PROVE  RowsAreCommitted' /\ PublishedWasSent' /\ PendingIsUntouched'
  BY DEF Inv, RowsAreCommitted, PublishedWasSent, PendingIsUntouched, Pending

\* Retrieving takes committed events, and comes from "idle".
LEMMA RetrieveKeepsInv ==
  ASSUME Inv, NEW p \in Publishers, Retrieve(p)
  PROVE  Inv'
<1> USE DEF Event
<1>1. /\ pub[p].pc = "idle"
      /\ pub' = [pub EXCEPT ![p] = [pc |-> "next", todo |-> Pending,
                                   event |-> NotTracked, tracked |-> NotTracked]]
      /\ retrieved' = [e \in Events |-> retrieved[e] + IF e \in Pending THEN 1 ELSE 0]
      /\ UNCHANGED <<row, tx, sent, faults, marks, abandoned>>
  BY DEF Retrieve, At
<1>2. \A e \in Pending : row[e].state # "absent" BY DEF Inv, RowsAreCommitted, Pending
<1>3. TypeOK' BY <1>1, NotTrackedIsNoEvent DEF Inv, TypeOK, Pending, Times
<1>4. \A q \in Publishers : (InHand(q) /\ Progress(q))'
  BY <1>1, <1>2 DEF Inv, TypeOK, InHand, Progress, Waiting
<1>5. InProgressHasOwner' BY <1>1 DEF Inv, TypeOK, InProgressHasOwner, Working, Waiting
<1> QED BY <1>1, <1>3, <1>4, <1>5, LogUntouched DEF Inv

\* The next event of the loop was committed when it was retrieved.
LEMMA NextEventKeepsInv ==
  ASSUME Inv, NEW p \in Publishers, NextEvent(p)
  PROVE  Inv'
<1> USE DEF Event
<1>1. /\ pub[p].pc = "next"
      /\ UNCHANGED <<row, tx, sent, faults, marks, retrieved, abandoned>>
  BY DEF NextEvent, At
<1>2. CASE pub' = [pub EXCEPT ![p] = Waiting]
  <2>1. TypeOK' BY <1>1, <1>2, NotTrackedIsNoEvent DEF Inv, TypeOK, Waiting, Times
  <2>2. \A q \in Publishers : (InHand(q) /\ Progress(q))'
    BY <1>1, <1>2 DEF Inv, TypeOK, InHand, Progress, Waiting
  <2>3. InProgressHasOwner' BY <1>1, <1>2 DEF Inv, TypeOK, InProgressHasOwner, Working, Waiting
  <2> QED BY <1>1, <2>1, <2>2, <2>3, LogUntouched DEF Inv
<1>3. ASSUME NEW e \in pub[p].todo,
             pub' = [pub EXCEPT ![p] = [pc |-> "mark", todo |-> pub[p].todo \ {e},
                                        event |-> e, tracked |-> NotTracked]]
      PROVE  Inv'
  <2>1. e \in Events /\ row[e].state # "absent" BY DEF Inv, TypeOK, InHand
  <2>2. TypeOK' BY <1>1, <1>3, <2>1 DEF Inv, TypeOK, Times
  <2>3. \A q \in Publishers : (InHand(q) /\ Progress(q))'
    BY <1>1, <1>3, <2>1 DEF Inv, TypeOK, InHand, Progress
  <2>4. InProgressHasOwner' BY <1>1, <1>3 DEF Inv, TypeOK, InProgressHasOwner, Working
  <2> QED BY <1>1, <2>2, <2>3, <2>4, LogUntouched DEF Inv
<1> QED BY <1>2, <1>3 DEF NextEvent, Inv, TypeOK

\* The times Loaded can give are natural numbers, so those counted are too.
LEMMA LoadedIsNat ==
  ASSUME TypeOK, NEW p \in Publishers, Event(p) \in Events
  PROVE  /\ Loaded(p) \subseteq Nat
         /\ \A t \in Nat : \A s : TimesAfter(s, t) \in Nat
<1>1. row[Event(p)].timesSent \in Nat BY DEF TypeOK
<1>2. pub[p].tracked \in Times BY DEF TypeOK
<1> QED BY <1>1, <1>2 DEF Loaded, TimesAfter, Times, NotTracked

\* A mark writes an event in hand: its row is there, and is not pending after.
LEMMA MarkKeepsInv ==
  ASSUME Inv, NEW p \in Publishers,
         pub[p].pc \in {"mark", "send", "sent", "fail"},
         NEW state \in {"InProgress", "Published", "PublishedFailed"},
         NEW times \in Nat,
         Updated(p, state, times),
         NEW pc \in {"next", "send"}, NEW tracked \in Times,
         Tracking(p, pc, tracked),
         state = "InProgress" => pc = "send",
         pc = "send" => state = "InProgress",
         state = "Published" => pub[p].pc = "sent",
         marks' \in [Events -> Nat],
         faults' = faults,
         UNCHANGED <<tx, sent, retrieved, abandoned>>
  PROVE  Inv'
<1> USE DEF Event, Tracking
<1>1. pub[p].event \in Events /\ row[pub[p].event].state # "absent"
  BY DEF Inv, TypeOK, InHand
<1>2. row' = [row EXCEPT ![pub[p].event] = [state |-> state, timesSent |-> times]]
  BY DEF Updated
<1>3. TypeOK' BY <1>1, <1>2 DEF Inv, TypeOK
<1>4. RowsAreCommitted' BY <1>1, <1>2 DEF Inv, TypeOK, RowsAreCommitted
<1>5. \A q \in Publishers : InHand(q)'
  <2>1. \A e \in Events : row[e].state # "absent" => row'[e].state # "absent"
    BY <1>1, <1>2 DEF Inv, TypeOK
  <2>2. \A q \in Publishers : pub[q].todo \subseteq Events
    BY DEF Inv, TypeOK
  <2> QED BY <2>1, <2>2 DEF Inv, TypeOK, InHand
<1>6. \A q \in Publishers : Progress(q)'
  BY <1>1, <1>2 DEF Inv, TypeOK, InHand, Progress
<1>7. PublishedWasSent' BY <1>1, <1>2 DEF Inv, TypeOK, PublishedWasSent, Progress
<1>8. PendingIsUntouched' BY <1>1, <1>2 DEF Inv, TypeOK, PendingIsUntouched, Pending
<1>9. InProgressHasOwner'
  <2> SUFFICES ASSUME NEW e \in Events, row'[e].state = "InProgress", e \notin abandoned'
               PROVE  \E q \in Publishers : Working(q, e)'
    BY DEF InProgressHasOwner
  <2>1. CASE e = pub[p].event
    <3>1. Working(p, e)' BY <1>1, <1>2, <2>1 DEF Working, Inv, TypeOK
    <3> QED BY <3>1
  <2>2. CASE e # pub[p].event
    <3>1. PICK q \in Publishers : Working(q, e)
      BY <1>1, <1>2, <2>2 DEF Inv, TypeOK, InProgressHasOwner
    <3>2. q # p BY <2>2, <3>1 DEF Working
    <3>3. Working(q, e)' BY <3>1, <3>2 DEF Working, Inv, TypeOK
    <3> QED BY <3>3
  <2> QED BY <2>1, <2>2
<1> QED BY <1>3, <1>4, <1>5, <1>6, <1>7, <1>8, <1>9 DEF Inv

\* A publisher that goes on without a mark keeps what it has in hand, and its
\* claim to have sent it if it has.
LEMMA MoveKeepsInv ==
  ASSUME Inv, NEW p \in Publishers,
         pub[p].pc \in {"mark", "send", "sent"},
         NEW pc \in {"sent", "fail"}, NEW tracked \in Times,
         Tracking(p, pc, tracked),
         pc = "sent" => pub[p].pc = "send" /\ sent'[pub[p].event] > 0,
         sent' \in [Events -> Nat],
         \A e \in Events : sent'[e] >= sent[e] /\ (sent'[e] = sent[e] \/ pub[p].event = e),
         pub[p].pc # "send" => sent' = sent,
         marks' \in [Events -> Nat],
         faults' \in 0..MaxFaults,
         UNCHANGED <<row, tx, retrieved, abandoned>>
  PROVE  Inv'
<1> USE DEF Event, Tracking
<1>1. pub[p].event \in Events /\ row[pub[p].event].state # "absent"
  BY DEF Inv, TypeOK, InHand
<1>2. pub[p].pc = "send" => row[pub[p].event].state # "NotPublished"
  BY DEF Inv, Progress
<1>3. TypeOK' BY DEF Inv, TypeOK
<1>4. RowsAreCommitted'
  <2> SUFFICES ASSUME NEW e \in Events, sent'[e] > 0 PROVE row[e].state # "absent"
    BY DEF Inv, TypeOK, RowsAreCommitted
  <2>1. CASE pub[p].event = e BY <1>1, <2>1
  <2>2. CASE sent'[e] = sent[e] BY <2>2 DEF Inv, RowsAreCommitted
  <2> QED BY <2>1, <2>2
<1>5. \A q \in Publishers : InHand(q)' BY DEF Inv, TypeOK, InHand
<1>6. \A q \in Publishers : Progress(q)'
  <2> SUFFICES ASSUME NEW q \in Publishers PROVE Progress(q)'
    OBVIOUS
  <2>1. CASE q = p BY <1>1, <1>2, <2>1 DEF Inv, TypeOK, Progress
  <2>2. CASE q # p
    <3>1. pub'[q] = pub[q] BY <2>2 DEF Inv, TypeOK
    <3>2. pub[q].pc \in {"send", "sent"} => pub[q].event \in Events
      BY DEF Inv, TypeOK, InHand
    <3>3. Progress(q) BY DEF Inv
    <3>4. pub[q].pc = "sent" => sent[pub[q].event] \in Nat /\ sent'[pub[q].event] \in Nat
      BY <3>2 DEF Inv, TypeOK
    <3> QED BY <3>1, <3>2, <3>3, <3>4 DEF Progress
  <2> QED BY <2>1, <2>2
<1>7. PublishedWasSent'
  <2>1. \A e \in Events : sent[e] \in Nat /\ sent'[e] \in Nat BY DEF Inv, TypeOK
  <2> QED BY <2>1 DEF Inv, PublishedWasSent
<1>8. PendingIsUntouched'
  <2> SUFFICES ASSUME NEW e \in Events, row[e].state = "NotPublished"
               PROVE  sent'[e] = 0 /\ row[e].timesSent = 0
    BY DEF PendingIsUntouched, Pending
  <2>1. sent[e] = 0 /\ row[e].timesSent = 0 BY DEF Inv, PendingIsUntouched, Pending
  <2>2. sent'[e] = sent[e] BY <1>2
  <2> QED BY <2>1, <2>2
<1>9. InProgressHasOwner'
  <2> SUFFICES ASSUME NEW e \in Events, row[e].state = "InProgress", e \notin abandoned
               PROVE  \E q \in Publishers : Working(q, e)'
    BY DEF InProgressHasOwner
  <2>1. PICK q \in Publishers : Working(q, e) BY DEF Inv, InProgressHasOwner
  <2>2. Working(q, e)' BY <2>1 DEF Working, Inv, TypeOK
  <2> QED BY <2>2
<1> QED BY <1>3, <1>4, <1>5, <1>6, <1>7, <1>8, <1>9 DEF Inv

\* A publisher that gives up leaves behind events it is recorded to have had.
LEMMA GiveUpKeepsInv ==
  ASSUME Inv, NEW p \in Publishers, GiveUp(p),
         UNCHANGED <<row, tx, sent, marks, retrieved>>
  PROVE  Inv'
<1> USE DEF Event
<1>1. /\ faults' \in 0..MaxFaults
      /\ abandoned' = abandoned \union pub[p].todo \union ({pub[p].event} \intersect Events)
      /\ pub' = [pub EXCEPT ![p] = Waiting]
  BY FaultsAssumption DEF GiveUp, Fault, Inv, TypeOK
<1>2. TypeOK' BY <1>1, NotTrackedIsNoEvent DEF Inv, TypeOK, Waiting, Times
<1>3. \A q \in Publishers : (InHand(q) /\ Progress(q))'
  BY <1>1 DEF Inv, TypeOK, InHand, Progress, Waiting
<1>4. InProgressHasOwner'
  <2> SUFFICES ASSUME NEW e \in Events, row[e].state = "InProgress", e \notin abandoned'
               PROVE  \E q \in Publishers : Working(q, e)'
    BY DEF InProgressHasOwner
  <2>1. PICK q \in Publishers : Working(q, e)
    BY <1>1 DEF Inv, InProgressHasOwner
  <2>2. q # p BY <1>1, <2>1 DEF Working
  <2>3. Working(q, e)' BY <1>1, <2>1, <2>2 DEF Working, Inv, TypeOK
  <2> QED BY <2>3
<1> QED BY <1>2, <1>3, <1>4, LogUntouched DEF Inv

\* Counting marks and faults, and where Goto leaves the tracked entity.
LEMMA Counting ==
  ASSUME TypeOK, NEW p \in Publishers
  PROVE  /\ Event(p) \in Events /\ CountMark(p) => marks' \in [Events -> Nat]
         /\ Fault => faults' \in 0..MaxFaults
         /\ faults \in 0..MaxFaults
         /\ pub[p].tracked \in Times
  BY FaultsAssumption DEF TypeOK, CountMark, Fault, Event

LEMMA MarkInProgressKeepsInv ==
  ASSUME Inv, NEW p \in Publishers, MarkInProgress(p)
  PROVE  Inv'
<1>1. /\ pub[p].pc = "mark" /\ TypeOK
      /\ UNCHANGED <<tx, sent, retrieved, abandoned>>
  BY DEF MarkInProgress, At, Inv
<1>2. Event(p) \in Events BY <1>1 DEF Inv, TypeOK, InHand, Event
<1>3. ASSUME NEW t \in Loaded(p) PROVE TimesAfter("InProgress", t) \in Nat \intersect Times
  BY <1>1, <1>2, <1>3, LoadedIsNat DEF Times
<1>4. sent' \in [Events -> Nat] /\ \A e \in Events : sent'[e] >= sent[e]
  BY <1>1 DEF Inv, TypeOK
<1>5. CASE \E t \in Loaded(p) : /\ Updated(p, "InProgress", TimesAfter("InProgress", t))
                               /\ Tracking(p, "send", TimesAfter("InProgress", t))
                               /\ CountMark(p) /\ UNCHANGED faults
  <2>1. PICK t \in Loaded(p) : /\ Updated(p, "InProgress", TimesAfter("InProgress", t))
                              /\ Tracking(p, "send", TimesAfter("InProgress", t))
    BY <1>5
  <2>2. marks' \in [Events -> Nat] /\ UNCHANGED faults BY <1>1, <1>2, <1>5, Counting
  <2>3. TimesAfter("InProgress", t) \in Nat \intersect Times BY <1>3
  <2> QED BY <1>1, <2>1, <2>2, <2>3, MarkKeepsInv
<1>6. CASE Fault /\ Goto(p, "fail") /\ UNCHANGED <<row, marks>>
  <2>1. faults' \in 0..MaxFaults /\ pub[p].tracked \in Times /\ marks' \in [Events -> Nat]
    BY <1>1, <1>6, Counting DEF TypeOK
  <2> QED BY <1>1, <1>4, <1>6, <2>1, MoveKeepsInv DEF Goto
<1>7. CASE \E t \in Loaded(p) : /\ Fault /\ Tracking(p, "fail", TimesAfter("InProgress", t))
                               /\ CountMark(p) /\ UNCHANGED row
  <2>1. PICK t \in Loaded(p) : Tracking(p, "fail", TimesAfter("InProgress", t))
    BY <1>7
  <2>2. faults' \in 0..MaxFaults /\ marks' \in [Events -> Nat] /\ UNCHANGED row
    BY <1>1, <1>2, <1>7, Counting
  <2>3. TimesAfter("InProgress", t) \in Nat \intersect Times BY <1>3
  <2> QED BY <1>1, <1>4, <2>1, <2>2, <2>3, MoveKeepsInv
<1> QED BY <1>5, <1>6, <1>7 DEF MarkInProgress

LEMMA SendKeepsInv ==
  ASSUME Inv, NEW p \in Publishers, Send(p)
  PROVE  Inv'
<1>1. /\ pub[p].pc = "send" /\ TypeOK
      /\ UNCHANGED <<row, tx, marks, retrieved, abandoned>>
  BY DEF Send, At, Inv
<1>2. Event(p) \in Events BY <1>1 DEF Inv, TypeOK, InHand, Event
<1>3. pub[p].tracked \in Times /\ marks' \in [Events -> Nat] /\ faults \in 0..MaxFaults
  BY <1>1, Counting DEF TypeOK
<1>4. CASE sent' = [sent EXCEPT ![Event(p)] = @ + 1] /\ Goto(p, "sent") /\ UNCHANGED faults
  <2>1. /\ sent' \in [Events -> Nat] /\ sent'[pub[p].event] > 0
        /\ \A e \in Events : sent'[e] >= sent[e] /\ (sent'[e] = sent[e] \/ pub[p].event = e)
    BY <1>1, <1>2, <1>4 DEF TypeOK, Event
  <2> QED BY <1>1, <1>3, <1>4, <2>1, MoveKeepsInv DEF Goto
<1>5. CASE Goto(p, AfterBusError) /\ UNCHANGED sent /\ (Fault \/ UNCHANGED faults)
  <2>1. faults' \in 0..MaxFaults BY <1>1, <1>3, <1>5, Counting
  <2>2. sent' \in [Events -> Nat] /\ \A e \in Events : sent'[e] >= sent[e]
    BY <1>1, <1>5 DEF TypeOK
  <2>3. Tracking(p, "fail", pub[p].tracked) BY <1>5 DEF Goto, AfterBusError
  <2> QED BY <1>1, <1>3, <1>5, <2>1, <2>2, <2>3, MoveKeepsInv
<1> QED BY <1>4, <1>5 DEF Send

LEMMA MarkPublishedKeepsInv ==
  ASSUME Inv, NEW p \in Publishers, MarkPublished(p)
  PROVE  Inv'
<1>1. /\ pub[p].pc = "sent" /\ TypeOK
      /\ UNCHANGED <<tx, sent, marks, retrieved, abandoned>>
  BY DEF MarkPublished, At, Inv
<1>2. Event(p) \in Events BY <1>1 DEF Inv, TypeOK, InHand, Event
<1>3. /\ pub[p].tracked \in Times /\ marks' \in [Events -> Nat]
      /\ sent' \in [Events -> Nat] /\ \A e \in Events : sent'[e] >= sent[e]
  BY <1>1, Counting DEF TypeOK
<1>4. CASE /\ \E t \in Loaded(p) : Updated(p, "Published", TimesAfter("Published", t))
           /\ Goto(p, "next") /\ UNCHANGED faults
  <2>1. PICK t \in Loaded(p) : Updated(p, "Published", TimesAfter("Published", t))
    BY <1>4
  <2>2. TimesAfter("Published", t) \in Nat BY <1>1, <1>2, LoadedIsNat
  <2>3. Tracking(p, "next", pub[p].tracked) /\ UNCHANGED faults BY <1>4 DEF Goto
  <2> QED BY <1>1, <1>3, <2>1, <2>2, <2>3, MarkKeepsInv
<1>5. CASE Fault /\ Goto(p, "fail") /\ UNCHANGED row
  <2>1. faults' \in 0..MaxFaults BY <1>1, <1>5, Counting
  <2> QED BY <1>1, <1>3, <1>5, <2>1, MoveKeepsInv DEF Goto
<1> QED BY <1>4, <1>5 DEF MarkPublished

LEMMA MarkFailedKeepsInv ==
  ASSUME Inv, NEW p \in Publishers, MarkFailed(p)
  PROVE  Inv'
<1>1. /\ pub[p].pc = "fail" /\ TypeOK
      /\ UNCHANGED <<tx, sent, marks, retrieved>>
  BY DEF MarkFailed, At, Inv
<1>2. Event(p) \in Events BY <1>1 DEF Inv, TypeOK, InHand, Event
<1>3. CASE /\ \E t \in Loaded(p) : Updated(p, FailedState, TimesAfter(FailedState, t))
           /\ Goto(p, AfterFailure)
           /\ UNCHANGED <<faults, abandoned>>
  <2>1. PICK t \in Loaded(p) :
          Updated(p, "PublishedFailed", TimesAfter("PublishedFailed", t))
    BY <1>3 DEF FailedState
  <2>2. TimesAfter("PublishedFailed", t) \in Nat BY <1>1, <1>2, LoadedIsNat
  <2>3. Tracking(p, "next", pub[p].tracked) BY <1>3 DEF Goto, AfterFailure
  <2>4. pub[p].tracked \in Times /\ marks' \in [Events -> Nat]
    BY <1>1, Counting DEF TypeOK
  <2> QED BY <1>1, <1>3, <2>1, <2>2, <2>3, <2>4, MarkKeepsInv
<1>4. CASE GiveUp(p) /\ UNCHANGED row BY <1>1, <1>4, GiveUpKeepsInv
<1> QED BY <1>3, <1>4 DEF MarkFailed

\* The invariant is inductive: it holds in every state of the log.
THEOREM LogInvariant == Spec => []Inv
<1>1. Inv /\ [Next]_vars => Inv'
  <2> SUFFICES ASSUME Inv, [Next]_vars PROVE Inv'
    OBVIOUS
  <2>1. CASE \E e \in Events : BeginTransaction(e) \/ ChangeData(e) \/ SaveEvent(e)
                                 \/ Commit(e) \/ Rollback(e)
    BY <2>1, SavingKeepsInv
  <2>2. ASSUME NEW p \in Publishers, Retrieve(p) \/ LoopStep(p) \/ Crash(p) PROVE Inv'
    <3>1. CASE Retrieve(p) BY <3>1, RetrieveKeepsInv
    <3>2. CASE LoopStep(p)
      BY <3>2, NextEventKeepsInv, MarkInProgressKeepsInv, SendKeepsInv,
         MarkPublishedKeepsInv, MarkFailedKeepsInv DEF LoopStep
    <3>3. CASE Crash(p) BY <3>3, GiveUpKeepsInv DEF Crash
    <3> QED BY <2>2, <3>1, <3>2, <3>3
  <2>3. CASE UNCHANGED vars
    BY <2>3 DEF vars, Inv, TypeOK, RowsAreCommitted, InHand, Progress, PublishedWasSent,
       PendingIsUntouched, InProgressHasOwner, Working, Pending, Event
  <2> QED BY <2>1, <2>2, <2>3 DEF Next
<1> QED BY <1>1, Initially, PTL DEF Spec

\* The rows, publishers and counters always have their types.
THEOREM LogTypeCorrect == Spec => []TypeOK
  BY LogInvariant, PTL DEF Inv

\* What the log says was published was taken by the bus.
THEOREM PublishedIsTrue == Spec => []PublishedWasSent
<1>1. Inv => PublishedWasSent BY DEF Inv
<1> QED BY <1>1, LogInvariant, PTL

\* What the log says is pending was never tried.
THEOREM PendingIsTrue == Spec => []PendingIsUntouched
<1>1. Inv => PendingIsUntouched BY DEF Inv
<1> QED BY <1>1, LogInvariant, PTL

\* What the log says is in progress is in some publisher's hands, or given up.
THEOREM InProgressIsOwned == Spec => []InProgressHasOwner
<1>1. Inv => InProgressHasOwner BY DEF Inv
<1> QED BY <1>1, LogInvariant, PTL

\* All of it: the log tells the truth about what was sent and who is at work,
\* for any number of publishers and events.
THEOREM LogTellsTheTruth == Spec => []LogIsTrue
<1>1. PublishedWasSent /\ PendingIsUntouched /\ InProgressHasOwner => LogIsTrue
  BY DEF LogIsTrue
<1> QED BY <1>1, PublishedIsTrue, PendingIsTrue, InProgressIsOwned, PTL

(***************************************************************************)
(* Counting.  A retrieval is paid for by what it puts in hand: while an    *)
(* event can still be sent on account of a retrieval, one publisher holds  *)
(* it for that retrieval.  No bound on the number of publishers is needed, *)
(* as only the few that retrieved the event hold it.                       *)
(***************************************************************************)
Holds(p, e) == e \in pub[p].todo \/ (Event(p) = e /\ pub[p].pc \in {"mark", "send"})

HeldBy(e) == {p \in Publishers : Holds(p, e)}

\* Every retrieval was used up by a send, or is still in hand, or was dropped.
RetrievalsCover ==
  \A e \in Events :
    /\ IsFiniteSet(HeldBy(e))
    /\ sent[e] + Cardinality(HeldBy(e)) <= retrieved[e]

\* The event a publisher is at is off its list: it is not sent twice.
OffTheList ==
  \A p \in Publishers : pub[p].pc \in {"mark", "send"} => Event(p) \notin pub[p].todo

\* No row and no tracked entity is ahead of the marks that were made.
TimesAreMarks ==
  /\ \A e \in Events : row[e].timesSent <= marks[e]
  /\ \A p \in Publishers, e \in Events : Event(p) = e => pub[p].tracked <= marks[e]

Counted == RetrievalsCover /\ OffTheList /\ TimesAreMarks

\* Fewer holders are a finite set, and no more of them.
LEMMA FewerHolders ==
  ASSUME NEW S, IsFiniteSet(S), NEW T \in SUBSET S
  PROVE  /\ IsFiniteSet(T)
         /\ Cardinality(S) \in Nat /\ Cardinality(T) \in Nat
         /\ Cardinality(T) <= Cardinality(S)
         /\ \A x \in S \ T : Cardinality(T) + 1 <= Cardinality(S)
<1>1. IsFiniteSet(T) /\ Cardinality(T) <= Cardinality(S)
  BY FS_Subset
<1>2. Cardinality(S) \in Nat /\ Cardinality(T) \in Nat
  BY <1>1, FS_CardinalityType
<1>3. ASSUME NEW x \in S \ T PROVE Cardinality(T) + 1 <= Cardinality(S)
  <2>1. IsFiniteSet(S \ {x}) /\ Cardinality(S \ {x}) = Cardinality(S) - 1
    BY FS_RemoveElement
  <2>2. T \in SUBSET (S \ {x})
    OBVIOUS
  <2>3. Cardinality(T) <= Cardinality(S \ {x})
    BY <2>1, <2>2, FS_Subset
  <2> QED BY <1>2, <2>1, <2>3
<1> QED BY <1>1, <1>2, <1>3

\* A step of one publisher that takes nothing new in hand, and lets go of what
\* it sends.
LEMMA HandsKeepCount ==
  ASSUME TypeOK, RetrievalsCover, NEW p \in Publishers,
         \A q \in Publishers : q # p => pub'[q] = pub[q],
         \A e \in Events : Holds(p, e)' => Holds(p, e),
         sent' \in [Events -> Nat],
         \A e \in Events : sent'[e] = sent[e]
                             \/ (sent'[e] = sent[e] + 1 /\ Holds(p, e) /\ ~Holds(p, e)'),
         UNCHANGED retrieved
  PROVE  RetrievalsCover'
<1> SUFFICES ASSUME NEW e \in Events
             PROVE  /\ IsFiniteSet(HeldBy(e)')
                    /\ sent'[e] + Cardinality(HeldBy(e)') <= retrieved[e]
  BY DEF RetrievalsCover
<1> DEFINE old == HeldBy(e)
           new == HeldBy(e)'
<1>1. new \in SUBSET old
  <2> SUFFICES ASSUME NEW q \in Publishers, Holds(q, e)' PROVE Holds(q, e)
    BY DEF HeldBy
  <2>1. CASE q = p
    BY <2>1
  <2>2. CASE q # p
    BY <2>2 DEF Holds, Event
  <2> QED BY <2>1, <2>2
<1>2. (Holds(p, e) /\ ~Holds(p, e)') => p \in old \ new
  BY DEF HeldBy
<1>3. IsFiniteSet(old) /\ sent[e] + Cardinality(old) <= retrieved[e]
  BY DEF RetrievalsCover
<1>4. sent[e] \in Nat /\ sent'[e] \in Nat /\ retrieved[e] \in Nat
  BY DEF TypeOK
<1>5. \/ sent'[e] = sent[e]
      \/ sent'[e] = sent[e] + 1 /\ p \in old \ new
  BY <1>2
<1> HIDE DEF old, new
<1>6. /\ IsFiniteSet(new) /\ Cardinality(old) \in Nat /\ Cardinality(new) \in Nat
      /\ Cardinality(new) <= Cardinality(old)
      /\ p \in old \ new => Cardinality(new) + 1 <= Cardinality(old)
  BY <1>1, <1>3, FewerHolders
<1>7. sent'[e] + Cardinality(new) <= retrieved[e]
  BY <1>3, <1>4, <1>5, <1>6
<1> QED BY <1>6, <1>7 DEF new

\* Retrieving puts each pending event in one more publisher's hands.
LEMMA RetrieveKeepsCount ==
  ASSUME TypeOK, RetrievalsCover, NEW p \in Publishers, Retrieve(p)
  PROVE  RetrievalsCover'
<1> USE DEF Event
<1>1. /\ pub' = [pub EXCEPT ![p] = [pc |-> "next", todo |-> Pending,
                                    event |-> NotTracked, tracked |-> NotTracked]]
      /\ retrieved' = [e \in Events |-> retrieved[e] + IF e \in Pending THEN 1 ELSE 0]
      /\ sent' = sent
  BY DEF Retrieve
<1> SUFFICES ASSUME NEW e \in Events
             PROVE  /\ IsFiniteSet(HeldBy(e)')
                    /\ sent[e] + Cardinality(HeldBy(e)') <= retrieved'[e]
  BY <1>1 DEF RetrievalsCover
<1> DEFINE old == HeldBy(e)
           new == HeldBy(e)'
           more == old \union {p}
<1>2. /\ pub'[p].todo = Pending /\ pub'[p].pc = "next"
      /\ \A q \in Publishers : q # p => pub'[q] = pub[q]
  BY <1>1 DEF TypeOK
<1>3. Holds(p, e)' <=> e \in Pending
  BY <1>2 DEF Holds
<1>4. new \in SUBSET more /\ (e \notin Pending => new \in SUBSET old)
  BY <1>2, <1>3 DEF HeldBy, Holds
<1>5. IsFiniteSet(old) /\ sent[e] + Cardinality(old) <= retrieved[e]
  BY DEF RetrievalsCover
<1>6. sent[e] \in Nat /\ retrieved[e] \in Nat
  BY DEF TypeOK
<1>7. retrieved'[e] = IF e \in Pending THEN retrieved[e] + 1 ELSE retrieved[e]
  BY <1>1, <1>6
<1> HIDE DEF old, new
<1>8. Cardinality(old) \in Nat
  BY <1>5, FS_CardinalityType
<1>9. IsFiniteSet(more) /\ Cardinality(more) <= Cardinality(old) + 1
  <2>1. /\ IsFiniteSet(more)
        /\ Cardinality(more) = IF p \in old THEN Cardinality(old) ELSE Cardinality(old) + 1
    BY <1>5, FS_AddElement
  <2> QED BY <1>8, <2>1
<1>10. CASE e \in Pending
  <2>1. IsFiniteSet(new) /\ Cardinality(new) \in Nat /\ Cardinality(more) \in Nat
        /\ Cardinality(new) <= Cardinality(more)
    BY <1>4, <1>9, FewerHolders
  <2>2. sent[e] + Cardinality(new) <= retrieved'[e]
    BY <1>5, <1>6, <1>7, <1>8, <1>9, <1>10, <2>1
  <2> QED BY <2>1, <2>2 DEF new
<1>11. CASE e \notin Pending
  <2>1. IsFiniteSet(new) /\ Cardinality(new) \in Nat /\ Cardinality(new) <= Cardinality(old)
    BY <1>4, <1>5, <1>11, FewerHolders
  <2>2. sent[e] + Cardinality(new) <= retrieved'[e]
    BY <1>5, <1>6, <1>7, <1>8, <1>11, <2>1
  <2> QED BY <2>1, <2>2 DEF new
<1> QED BY <1>10, <1>11

\* The tracked times, of an event in hand or of none.
LEMMA LoadedIsMarked ==
  ASSUME TypeOK, TimesAreMarks, NEW p \in Publishers, Event(p) \in Events, NEW t \in Loaded(p)
  PROVE  t \in Nat /\ t <= marks[Event(p)]
<1>1. row[Event(p)].timesSent \in Nat /\ marks[Event(p)] \in Nat /\ pub[p].tracked \in Times
  BY DEF TypeOK
<1>2. row[Event(p)].timesSent <= marks[Event(p)] /\ pub[p].tracked <= marks[Event(p)]
  BY DEF TimesAreMarks
<1> QED BY <1>1, <1>2 DEF Loaded, Times, NotTracked

\* Marking writes a count that was marked, and tracks none ahead of it.
LEMMA MarkKeepsCount ==
  ASSUME TypeOK, TimesAreMarks, NEW p \in Publishers, Event(p) \in Events,
         NEW pc, NEW times \in Times, Tracking(p, pc, times),
         times <= marks'[Event(p)],
         CountMark(p) \/ UNCHANGED marks,
         NEW state, NEW t \in Nat, t <= marks'[Event(p)],
         Updated(p, state, t) \/ UNCHANGED row
  PROVE  TimesAreMarks'
<1> USE DEF Event
<1> DEFINE a == pub[p].event
<1>1. /\ pub'[p].event = a /\ pub'[p].tracked = times
      /\ \A q \in Publishers : q # p => pub'[q] = pub[q]
  BY DEF Tracking, TypeOK
<1>2. \A e \in Events : marks[e] \in Nat /\ marks'[e] \in Nat /\ marks[e] <= marks'[e]
  BY DEF CountMark, TypeOK
<1>3. \A e \in Events : row[e].timesSent \in Nat
  BY DEF TypeOK
<1>4. \A e \in Events : row'[e].timesSent = row[e].timesSent
                          \/ (e = a /\ row'[e].timesSent = t)
  BY DEF Updated, TypeOK
<1>5. \A e \in Events : row'[e].timesSent <= marks'[e]
  BY <1>2, <1>3, <1>4 DEF TimesAreMarks
<1>6. ASSUME NEW q \in Publishers, NEW e \in Events, pub'[q].event = e
      PROVE  pub'[q].tracked <= marks'[e]
  <2>1. CASE q = p
    BY <1>1, <1>6, <2>1
  <2>2. CASE q # p
    <3>1. pub[q].event = e /\ pub'[q].tracked = pub[q].tracked
      BY <1>1, <1>6, <2>2
    <3>2. pub[q].tracked <= marks[e] /\ pub[q].tracked \in Int
      BY <3>1 DEF TimesAreMarks, TypeOK, Times, NotTracked
    <3> QED BY <1>2, <3>1, <3>2
  <2> QED BY <2>1, <2>2
<1> QED BY <1>5, <1>6 DEF TimesAreMarks

\* Steps that mark nothing and write no row: no publisher tracks more.
LEMMA UnmarkedKeepsCount ==
  ASSUME TypeOK, TimesAreMarks, UNCHANGED <<row, marks>>,
         \A q \in Publishers, e \in Events :
            Event(q)' = e => \/ pub'[q].tracked = NotTracked
                             \/ Event(q) = e /\ pub'[q].tracked = pub[q].tracked
  PROVE  TimesAreMarks'
<1>1. ASSUME NEW q \in Publishers, NEW e \in Events, Event(q)' = e
      PROVE  pub'[q].tracked <= marks[e]
  <2>1. marks[e] \in Nat
    BY DEF TypeOK
  <2> QED BY <1>1, <2>1 DEF TimesAreMarks, NotTracked
<1> QED BY <1>1 DEF TimesAreMarks, Event

LEMMA SavingKeepsCount ==
  ASSUME TypeOK, Counted, NEW e \in Events,
         BeginTransaction(e) \/ ChangeData(e) \/ SaveEvent(e) \/ Commit(e) \/ Rollback(e)
  PROVE  Counted'
<1>1. UNCHANGED <<pub, sent, marks, retrieved>>
  BY DEF BeginTransaction, ChangeData, SaveEvent, Commit, Rollback, unchangedBySaving
<1>2. row' = row \/ row' = [row EXCEPT ![e] = NewEntry]
  BY DEF BeginTransaction, ChangeData, SaveEvent, Commit, Rollback
<1>3. RetrievalsCover' /\ OffTheList'
  BY <1>1 DEF Counted, RetrievalsCover, HeldBy, Holds, OffTheList, Event
<1>4. \A f \in Events : marks[f] \in Nat /\ row[f].timesSent \in Nat
  BY DEF TypeOK
<1>5. \A f \in Events : row'[f].timesSent = row[f].timesSent \/ row'[f].timesSent = 0
  BY <1>2 DEF TypeOK, NewEntry
<1>6. \A f \in Events : row[f].timesSent <= marks[f]
  BY DEF Counted, TimesAreMarks
<1>7. \A f \in Events : row'[f].timesSent <= marks'[f]
  BY <1>1, <1>4, <1>5, <1>6
<1>8. TimesAreMarks'
  BY <1>1, <1>7 DEF Counted, TimesAreMarks, Event
<1> QED BY <1>3, <1>8 DEF Counted

\* A publisher that starts over, or takes the next event off its list.
LEMMA ListKeepsCount ==
  ASSUME TypeOK, Counted, NEW p \in Publishers,
         Retrieve(p) \/ NextEvent(p)
           \/ (GiveUp(p) /\ UNCHANGED <<row, sent, marks, retrieved>>)
  PROVE  Counted'
<1> USE DEF Event
<1>1. UNCHANGED <<row, sent, marks>>
  BY DEF Retrieve, NextEvent
<1>2. CASE Retrieve(p)
  <2>1. pub' = [pub EXCEPT ![p] = [pc |-> "next", todo |-> Pending,
                                   event |-> NotTracked, tracked |-> NotTracked]]
    BY <1>2 DEF Retrieve
  <2>2. OffTheList'
    BY <2>1 DEF TypeOK, Counted, OffTheList
  <2>3. TimesAreMarks'
    BY <1>1, <2>1, UnmarkedKeepsCount DEF TypeOK, Counted
  <2> QED BY <1>2, <2>2, <2>3, RetrieveKeepsCount DEF Counted
<1>3. CASE pub' = [pub EXCEPT ![p] = Waiting] /\ UNCHANGED retrieved
  <2>1. \A q \in Publishers : q # p => pub'[q] = pub[q]
    BY <1>3 DEF TypeOK
  <2>2. pub'[p] = Waiting
    BY <1>3 DEF TypeOK
  <2>3. OffTheList'
    BY <2>1, <2>2 DEF Counted, OffTheList, Waiting
  <2>4. TimesAreMarks'
    BY <1>1, <2>1, <2>2, UnmarkedKeepsCount DEF Counted, Waiting
  <2>5. \A e \in Events : Holds(p, e)' => Holds(p, e)
    BY <2>2 DEF Holds, Waiting
  <2>6. sent' \in [Events -> Nat] /\ \A e \in Events : sent'[e] = sent[e]
    BY <1>1 DEF TypeOK
  <2>7. RetrievalsCover'
    BY <1>3, <2>1, <2>5, <2>6, HandsKeepCount DEF Counted
  <2> QED BY <2>3, <2>4, <2>7 DEF Counted
<1>4. ASSUME NEW e \in pub[p].todo, UNCHANGED retrieved,
             pub' = [pub EXCEPT ![p] = [pc |-> "mark", todo |-> pub[p].todo \ {e},
                                        event |-> e, tracked |-> NotTracked]]
      PROVE  Counted'
  <2>1. \A q \in Publishers : q # p => pub'[q] = pub[q]
    BY <1>4 DEF TypeOK
  <2>2. pub'[p] = [pc |-> "mark", todo |-> pub[p].todo \ {e},
                   event |-> e, tracked |-> NotTracked]
    BY <1>4 DEF TypeOK
  <2>3. OffTheList'
    BY <2>1, <2>2 DEF Counted, OffTheList
  <2>4. TimesAreMarks'
    BY <1>1, <2>1, <2>2, UnmarkedKeepsCount DEF Counted
  <2>5. \A f \in Events : Holds(p, f)' => Holds(p, f)
    BY <2>2 DEF Holds
  <2>6. sent' \in [Events -> Nat] /\ \A f \in Events : sent'[f] = sent[f]
    BY <1>1 DEF TypeOK
  <2>7. RetrievalsCover'
    BY <1>4, <2>1, <2>5, <2>6, HandsKeepCount DEF Counted
  <2> QED BY <2>3, <2>4, <2>7 DEF Counted
<1>5. CASE NextEvent(p)
  BY <1>3, <1>4, <1>5 DEF NextEvent, TypeOK
<1>6. CASE GiveUp(p) /\ UNCHANGED retrieved
  BY <1>3, <1>6 DEF GiveUp
<1> QED BY <1>2, <1>5, <1>6

\* The marks and the send: the publisher goes on at its event, which is on
\* nobody's account twice.
LEMMA GoingOnKeepsCount ==
  ASSUME TypeOK, Counted, NEW p \in Publishers, Event(p) \in Events,
         NEW pc \in {"next", "send", "sent", "fail"}, NEW times, Tracking(p, pc, times),
         pc = "send" => pub[p].pc = "mark",
         \/ UNCHANGED sent
         \/ /\ sent' = [sent EXCEPT ![Event(p)] = @ + 1]
            /\ pub[p].pc = "send" /\ pc = "sent",
         UNCHANGED retrieved
  PROVE  RetrievalsCover' /\ OffTheList'
<1> USE DEF Event
<1>1. /\ \A q \in Publishers : q # p => pub'[q] = pub[q]
      /\ pub'[p] = [pc |-> pc, todo |-> pub[p].todo, event |-> pub[p].event,
                    tracked |-> times]
  BY DEF Tracking, TypeOK
<1>2. OffTheList'
  BY <1>1 DEF Counted, OffTheList
<1>3. \A e \in Events : Holds(p, e)' => Holds(p, e)
  BY <1>1 DEF Holds
<1>4. \A e \in Events : pc = "sent" /\ pub[p].pc = "send" /\ e = pub[p].event
                         => Holds(p, e) /\ ~Holds(p, e)'
  BY <1>1 DEF Holds, Counted, OffTheList
<1>5. sent' \in [Events -> Nat]
  BY DEF TypeOK
<1>6. \A e \in Events : sent'[e] = sent[e]
                          \/ (sent'[e] = sent[e] + 1 /\ Holds(p, e) /\ ~Holds(p, e)')
  <2>1. CASE UNCHANGED sent
    BY <2>1
  <2>2. CASE /\ sent' = [sent EXCEPT ![Event(p)] = @ + 1]
             /\ pub[p].pc = "send" /\ pc = "sent"
    <3>1. \A e \in Events :
            sent'[e] = IF e = pub[p].event THEN sent[e] + 1 ELSE sent[e]
      BY <2>2 DEF TypeOK
    <3> QED BY <1>4, <2>2, <3>1
  <2> QED BY <2>1, <2>2
<1>7. RetrievalsCover'
  BY <1>1, <1>3, <1>5, <1>6, HandsKeepCount DEF Counted
<1> QED BY <1>2, <1>7

LEMMA MarkInProgressKeepsCount ==
  ASSUME Inv, Counted, NEW p \in Publishers, MarkInProgress(p)
  PROVE  Counted'
<1>1. pub[p].pc = "mark" /\ TypeOK /\ UNCHANGED <<sent, retrieved>>
  BY DEF MarkInProgress, At, Inv
<1>2. Event(p) \in Events
  BY <1>1 DEF Inv, TypeOK, InHand, Event
<1>3. ASSUME NEW t \in Loaded(p), CountMark(p)
      PROVE  /\ TimesAfter("InProgress", t) \in Nat \intersect Times
             /\ TimesAfter("InProgress", t) <= marks'[Event(p)]
  <2>1. t \in Nat /\ t <= marks[Event(p)] /\ marks[Event(p)] \in Nat
    BY <1>1, <1>2, LoadedIsMarked DEF Counted, TypeOK
  <2>2. marks'[Event(p)] = marks[Event(p)] + 1
    BY <1>1, <1>2, <1>3 DEF CountMark, TypeOK
  <2> QED BY <2>1, <2>2 DEF TimesAfter, Times
<1>4. CASE \E t \in Loaded(p) : /\ Updated(p, "InProgress", TimesAfter("InProgress", t))
                               /\ Tracking(p, "send", TimesAfter("InProgress", t))
                               /\ CountMark(p) /\ UNCHANGED faults
  <2>1. PICK t \in Loaded(p) : /\ Updated(p, "InProgress", TimesAfter("InProgress", t))
                              /\ Tracking(p, "send", TimesAfter("InProgress", t))
                              /\ CountMark(p)
    BY <1>4
  <2>2. TimesAreMarks'
    BY <1>1, <1>2, <1>3, <2>1, MarkKeepsCount DEF Counted
  <2> QED BY <1>1, <1>2, <2>1, <2>2, GoingOnKeepsCount DEF Counted
<1>5. CASE Goto(p, "fail") /\ UNCHANGED <<row, marks>>
  <2>1. Tracking(p, "fail", pub[p].tracked)
    BY <1>5 DEF Goto
  <2>2. TimesAreMarks'
    BY <1>1, <1>5, <2>1, UnmarkedKeepsCount DEF Counted, Tracking, TypeOK, Event
  <2> QED BY <1>1, <1>2, <2>1, <2>2, GoingOnKeepsCount DEF Counted
<1>6. CASE \E t \in Loaded(p) : /\ Fault /\ Tracking(p, "fail", TimesAfter("InProgress", t))
                               /\ CountMark(p) /\ UNCHANGED row
  <2>1. PICK t \in Loaded(p) : /\ Tracking(p, "fail", TimesAfter("InProgress", t))
                              /\ CountMark(p) /\ UNCHANGED row
    BY <1>6
  <2>2. TimesAreMarks'
    BY <1>1, <1>2, <1>3, <2>1, MarkKeepsCount DEF Counted
  <2> QED BY <1>1, <1>2, <2>1, <2>2, GoingOnKeepsCount DEF Counted
<1> QED BY <1>4, <1>5, <1>6 DEF MarkInProgress

LEMMA SendKeepsCount ==
  ASSUME Inv, Counted, NEW p \in Publishers, Send(p)
  PROVE  Counted'
<1>1. pub[p].pc = "send" /\ TypeOK /\ UNCHANGED <<row, marks, retrieved>>
  BY DEF Send, At, Inv
<1>2. Event(p) \in Events
  BY <1>1 DEF Inv, TypeOK, InHand, Event
<1>3. PICK pc \in {"sent", "fail"} :
        /\ Tracking(p, pc, pub[p].tracked)
        /\ \/ UNCHANGED sent
           \/ sent' = [sent EXCEPT ![Event(p)] = @ + 1] /\ pc = "sent"
  BY DEF Send, Goto, AfterBusError
<1>4. TimesAreMarks'
  BY <1>1, <1>3, UnmarkedKeepsCount DEF Counted, Tracking, TypeOK, Event
<1> QED BY <1>1, <1>2, <1>3, <1>4, GoingOnKeepsCount DEF Counted

\* Published and failed: the count is written back as it was loaded.
LEMMA SettledKeepsCount ==
  ASSUME Inv, Counted, NEW p \in Publishers,
         MarkPublished(p) \/ (MarkFailed(p) /\ Goto(p, AfterFailure))
  PROVE  Counted'
<1>1. pub[p].pc \in {"sent", "fail"} /\ TypeOK /\ UNCHANGED <<sent, marks, retrieved>>
  BY DEF MarkPublished, MarkFailed, At, Inv
<1>2. Event(p) \in Events /\ pub[p].tracked \in Times
  BY <1>1 DEF Inv, TypeOK, InHand, Event
<1>3. PICK pc \in {"next", "fail"} :
        /\ Tracking(p, pc, pub[p].tracked)
        /\ \/ UNCHANGED row
           \/ \E state \in {"Published", "PublishedFailed"}, t \in Loaded(p) :
                Updated(p, state, TimesAfter(state, t))
  BY DEF MarkPublished, MarkFailed, Goto, FailedState, AfterFailure
<1>4. TimesAreMarks'
  <2>1. CASE UNCHANGED row
    BY <1>1, <1>3, <2>1, UnmarkedKeepsCount DEF Counted, Tracking, TypeOK, Event
  <2>2. ASSUME NEW state \in {"Published", "PublishedFailed"}, NEW t \in Loaded(p),
               Updated(p, state, TimesAfter(state, t))
        PROVE  TimesAreMarks'
    <3>1. TimesAfter(state, t) = t
      BY DEF TimesAfter
    <3>2. t \in Nat /\ t <= marks[Event(p)]
      BY <1>1, <1>2, LoadedIsMarked DEF Counted
    <3>3. pub[p].tracked <= marks[Event(p)]
      BY <1>2 DEF Counted, TimesAreMarks
    <3>4. Updated(p, state, t)
      BY <2>2, <3>1
    <3> QED BY <1>1, <1>2, <1>3, <3>2, <3>3, <3>4, MarkKeepsCount DEF Counted
  <2> QED BY <1>3, <2>1, <2>2
<1> QED BY <1>1, <1>2, <1>3, <1>4, GoingOnKeepsCount DEF Counted

\* However many publishers overlap: the bus takes an event at most once for each
\* time it was retrieved, and the log counts no attempt that was not made.
THEOREM AttemptsAreCounted == Spec => []SentOncePerRetrieval
<1>1. Init => Counted
  <2> SUFFICES ASSUME Init PROVE Counted
    OBVIOUS
  <2>1. \A e \in Events : HeldBy(e) = {}
    BY NotTrackedIsNoEvent DEF Init, HeldBy, Holds, Waiting, Event
  <2>2. IsFiniteSet({}) /\ Cardinality({}) = 0
    BY FS_EmptySet
  <2>3. \A e \in Events : sent[e] = 0 /\ retrieved[e] = 0
    BY DEF Init
  <2>4. RetrievalsCover
    <3> SUFFICES ASSUME NEW e \in Events
                 PROVE  /\ IsFiniteSet(HeldBy(e))
                        /\ sent[e] + Cardinality(HeldBy(e)) <= retrieved[e]
      BY DEF RetrievalsCover
    <3>1. HeldBy(e) = {}
      BY <2>1
    <3>2. IsFiniteSet(HeldBy(e)) /\ Cardinality(HeldBy(e)) = 0
      BY <2>2, <3>1
    <3> QED BY <2>3, <3>2
  <2> QED BY <2>4, NotTrackedIsNoEvent
      DEF Init, Counted, OffTheList, TimesAreMarks, Waiting, NoRow, Event
<1>2. Inv /\ Counted /\ [Next]_vars => Counted'
  <2> SUFFICES ASSUME Inv, Counted, [Next]_vars PROVE Counted'
    OBVIOUS
  <2>0. TypeOK
    BY DEF Inv
  <2>1. CASE \E e \in Events : BeginTransaction(e) \/ ChangeData(e) \/ SaveEvent(e)
                                 \/ Commit(e) \/ Rollback(e)
    BY <2>0, <2>1, SavingKeepsCount
  <2>2. ASSUME NEW p \in Publishers, Retrieve(p) \/ LoopStep(p) \/ Crash(p)
        PROVE  Counted'
    <3>1. CASE Retrieve(p) \/ NextEvent(p)
      BY <2>0, <3>1, ListKeepsCount
    <3>2. CASE GiveUp(p) /\ UNCHANGED <<row, sent, marks, retrieved>>
      BY <2>0, <3>2, ListKeepsCount
    <3>3. CASE MarkInProgress(p) \/ Send(p)
      BY <3>3, MarkInProgressKeepsCount, SendKeepsCount
    <3>4. CASE MarkPublished(p) \/ (MarkFailed(p) /\ Goto(p, AfterFailure))
      BY <3>4, SettledKeepsCount
    <3>5. CASE MarkFailed(p) \/ Crash(p)
      BY <3>2, <3>4, <3>5 DEF MarkFailed, Crash
    <3> QED BY <2>2, <3>1, <3>3, <3>4, <3>5 DEF LoopStep
  <2>3. CASE UNCHANGED vars
    BY <2>3 DEF vars, Counted, RetrievalsCover, HeldBy, Holds, OffTheList, TimesAreMarks, Event
  <2> QED BY <2>1, <2>2, <2>3 DEF Next
<1>3. Inv /\ Counted => SentOncePerRetrieval
  <2> SUFFICES ASSUME Inv, Counted, NEW e \in Events
               PROVE  sent[e] <= retrieved[e] /\ row[e].timesSent <= marks[e]
    BY DEF SentOncePerRetrieval
  <2>1. /\ IsFiniteSet(HeldBy(e))
        /\ sent[e] + Cardinality(HeldBy(e)) <= retrieved[e]
        /\ row[e].timesSent <= marks[e]
    BY DEF Counted, RetrievalsCover, TimesAreMarks
  <2>2. Cardinality(HeldBy(e)) \in Nat
    BY <2>1, FS_CardinalityType
  <2>3. sent[e] \in Nat /\ retrieved[e] \in Nat
    BY DEF Inv, TypeOK
  <2> QED BY <2>1, <2>2, <2>3
<1> QED BY <1>1, <1>2, <1>3, LogInvariant, PTL DEF Spec
=============================================================================
