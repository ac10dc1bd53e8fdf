------------------------------ MODULE EventLog ------------------------------
(***************************************************************************)
(* The event log (an outbox): IntegrationEventLogService, which keeps one  *)
(* row per integration event, ResilientTransaction, in which a row is      *)
(* saved along with the business change it tells of, and                   *)
(* CustomerIntegrationEventService, which publishes the pending rows.      *)
(*                                                                         *)
(* Publishers are calls of PublishEventsThroughEventBusAsync, each with a  *)
(* database context of its own; they interleave at every await.  The       *)
(* context gives a tracked entity back without re-reading it, and Update   *)
(* writes all its columns: there is no concurrency token.                  *)
(***************************************************************************)
EXTENDS Integers

CONSTANTS
  Events,        \* integration events, numbered by CreationTime
  Known,         \* those whose type is in the entry assembly
  Publishers,
  MaxFaults      \* bound: database errors, bus errors, crashes

ASSUME EventsAssumption == Events \subseteq Nat /\ Known \subseteq Events
ASSUME FaultsAssumption == MaxFaults \in Nat

VARIABLES
  row,           \* the table IntegrationEventLog, as committed
  tx,            \* the business transaction of an event
  pub,           \* the publishers
  sent,          \* how often the bus took the event
  faults,        \* how much of the bound is used
  marks,         \* history: increments of TimesSent, saved or not
  retrieved,     \* history: how often the event was retrieved as pending
  abandoned      \* history: events a publisher gave up in its loop

vars == <<row, tx, pub, sent, faults, marks, retrieved, abandoned>>

NoRow == [state |-> "absent", timesSent |-> 0]

\* "tracked" is TimesSent of the current event's tracked entity.
NotTracked == -1

Waiting == [pc |-> "idle", todo |-> {}, event |-> NotTracked, tracked |-> NotTracked]

Init ==
  /\ row = [e \in Events |-> NoRow]
  /\ tx = [e \in Events |-> "none"]
  /\ pub = [p \in Publishers |-> Waiting]
  /\ sent = [e \in Events |-> 0]
  /\ faults = 0
  /\ marks = [e \in Events |-> 0]
  /\ retrieved = [e \in Events |-> 0]
  /\ abandoned = {}

Fault == faults < MaxFaults /\ faults' = faults + 1

(***************************************************************************)
(* Saving: a business change and its event in one transaction              *)
(***************************************************************************)
unchangedBySaving == <<pub, sent, faults, marks, retrieved, abandoned>>

InTransaction(e, from, to) == tx[e] = from /\ tx' = [tx EXCEPT ![e] = to]

NewEntry == [state |-> "NotPublished", timesSent |-> 0]

BeginTransaction(e) ==
  /\ InTransaction(e, "none", "open")
  /\ UNCHANGED <<row, unchangedBySaving>>

\* The caller's action changes its own tables, then saves the event.
ChangeData(e) ==
  /\ InTransaction(e, "open", "changed")
  /\ UNCHANGED <<row, unchangedBySaving>>

SaveEvent(e) ==
  /\ InTransaction(e, "changed", "saved")
  /\ UNCHANGED <<row, unchangedBySaving>>

Commit(e) ==
  /\ InTransaction(e, "saved", "committed")
  /\ row' = [row EXCEPT ![e] = NewEntry]
  /\ UNCHANGED unchangedBySaving

\* An exception, or a crash, before the commit.
Rollback(e) ==
  /\ \E from \in {"open", "changed", "saved"} : InTransaction(e, from, "rolledback")
  /\ UNCHANGED <<row, unchangedBySaving>>

(***************************************************************************)
(* PublishEventsThroughEventBusAsync                                       *)
(***************************************************************************)
At(p, pc) == pub[p].pc = pc

\* Publisher p goes on at pc, with TimesSent of its tracked entity.
Tracking(p, pc, times) ==
  pub' = [pub EXCEPT ![p] = [pc |-> pc, todo |-> @.todo, event |-> @.event,
                             tracked |-> times]]

Goto(p, pc) == Tracking(p, pc, pub[p].tracked)

Event(p) == pub[p].event

Pending == {e \in Events : row[e].state = "NotPublished"}

\* An empty list of pending events leaves nothing to do.
Retrieve(p) ==
  /\ At(p, "idle") /\ Pending # {}
  /\ pub' = [pub EXCEPT ![p] = [pc |-> "next", todo |-> Pending,
                                   event |-> NotTracked, tracked |-> NotTracked]]
  /\ retrieved' = [e \in Events |-> retrieved[e] + IF e \in Pending THEN 1 ELSE 0]
  /\ UNCHANGED <<tx, row, sent, faults, marks, abandoned>>

\* The foreach, in order of CreationTime.
NextEvent(p) ==
  /\ At(p, "next")
  /\ \/ /\ pub[p].todo = {}
        /\ pub' = [pub EXCEPT ![p] = Waiting]
     \/ \E e \in pub[p].todo :
          /\ \A f \in pub[p].todo : e <= f
          /\ pub' = [pub EXCEPT ![p] = [pc |-> "mark", todo |-> @.todo \ {e},
                                        event |-> e, tracked |-> NotTracked]]
  /\ UNCHANGED <<tx, row, sent, faults, marks, retrieved, abandoned>>

\* The entity Single gives: the one tracked already, or a row of the table,
\* which another publisher may have overtaken by the time it is written back
\* (TimesSent was 0 when the pending events were retrieved).
Loaded(p) ==
  IF pub[p].tracked # NotTracked THEN {pub[p].tracked}
  ELSE 0..row[Event(p)].timesSent

Updated(p, state, times) ==
  row' = [row EXCEPT ![Event(p)] = [state |-> state, timesSent |-> times]]

CountMark(p) == marks' = [marks EXCEPT ![Event(p)] = @ + 1]

\* TimesSent counts the marks as in progress only.
TimesAfter(state, times) == IF state = "InProgress" THEN times + 1 ELSE times

\* MarkEventAsInProgressAsync; its query may fail, or its update, which leaves
\* the incremented entity tracked.
MarkInProgress(p) ==
  /\ At(p, "mark")
  /\ \/ \E t \in Loaded(p) :
          /\ Updated(p, "InProgress", TimesAfter("InProgress", t))
          /\ Tracking(p, "send", TimesAfter("InProgress", t))
          /\ CountMark(p) /\ UNCHANGED faults
     \/ Fault /\ Goto(p, "fail") /\ UNCHANGED <<row, marks>>
     \/ \E t \in Loaded(p) :
          /\ Fault /\ Tracking(p, "fail", TimesAfter("InProgress", t))
          /\ CountMark(p) /\ UNCHANGED row
  /\ UNCHANGED <<tx, sent, retrieved, abandoned>>

\* Mutants: the error of the bus is swallowed; the catch marks nothing.
Swallowed == "sent"
Forgotten == "next"

AfterBusError == "fail"

\* IEventBus.Publish: the bus takes the event, or throws.  An event of unknown
\* type was deserialised to null, which Publish cannot take.
Send(p) ==
  /\ At(p, "send")
  /\ \/ /\ Event(p) \in Known
        /\ sent' = [sent EXCEPT ![Event(p)] = @ + 1]
        /\ Goto(p, "sent") /\ UNCHANGED faults
     \/ Event(p) \in Known /\ Fault /\ Goto(p, AfterBusError) /\ UNCHANGED sent
     \/ Event(p) \notin Known /\ Goto(p, AfterBusError) /\ UNCHANGED <<sent, faults>>
  /\ UNCHANGED <<tx, row, marks, retrieved, abandoned>>

\* MarkEventAsPublishedAsync, inside the try.
MarkPublished(p) ==
  /\ At(p, "sent")
  /\ \/ /\ \E t \in Loaded(p) : Updated(p, "Published", TimesAfter("Published", t))
        /\ Goto(p, "next") /\ UNCHANGED faults
     \/ Fault /\ Goto(p, "fail") /\ UNCHANGED row
  /\ UNCHANGED <<tx, sent, marks, retrieved, abandoned>>

\* The publisher's loop ends early: what it had in hand is left as it is.
GiveUp(p) ==
  /\ Fault
  /\ abandoned' = abandoned \union pub[p].todo \union ({Event(p)} \intersect Events)
  /\ pub' = [pub EXCEPT ![p] = Waiting]

FailedState == "PublishedFailed"

\* Mutant: a failed event is tried again at once.
TryAgain == "mark"

AfterFailure == "next"

\* MarkEventAsFailedAsync, in the catch: its own exception leaves the loop.
MarkFailed(p) ==
  /\ At(p, "fail")
  /\ \/ /\ \E t \in Loaded(p) : Updated(p, FailedState, TimesAfter(FailedState, t))
        /\ Goto(p, AfterFailure)
        /\ UNCHANGED <<faults, abandoned>>
     \/ GiveUp(p) /\ UNCHANGED row
  /\ UNCHANGED <<tx, sent, marks, retrieved>>

Crash(p) ==
  /\ ~At(p, "idle") /\ GiveUp(p)
  /\ UNCHANGED <<tx, row, sent, marks, retrieved>>

LoopStep(p) ==
  NextEvent(p) \/ MarkInProgress(p) \/ Send(p) \/ MarkPublished(p) \/ MarkFailed(p)

Next ==
  \/ \E e \in Events :
       \/ BeginTransaction(e) \/ ChangeData(e) \/ SaveEvent(e)
       \/ Commit(e) \/ Rollback(e)
  \/ \E p \in Publishers : Retrieve(p) \/ LoopStep(p) \/ Crash(p)

Spec == Init /\ [][Next]_vars

\* A publisher that was called runs on: every await completes or throws.
LiveSpec == Spec /\ \A p \in Publishers : WF_vars(LoopStep(p))

(***************************************************************************)
(* Properties                                                              *)
(***************************************************************************)
Times == Nat \union {NotTracked}

\* The types of the variables: rows of EventStateEnum, publishers between the
\* awaits of PublishEventsThroughEventBusAsync.
TypeOK ==
  /\ row \in [Events -> [state : {"absent", "NotPublished", "InProgress",
                                  "Published", "PublishedFailed"},
                         timesSent : Nat]]
  /\ tx \in [Events -> {"none", "open", "changed", "saved", "committed", "rolledback"}]
  /\ pub \in [Publishers -> [pc : {"idle", "next", "mark", "send", "sent", "fail"},
                             todo : SUBSET Events,
                             event : Events \union {NotTracked},
                             tracked : Times]]
  /\ sent \in [Events -> Nat]
  /\ faults \in 0..MaxFaults
  /\ marks \in [Events -> Nat]
  /\ retrieved \in [Events -> Nat]
  /\ abandoned \subseteq Events

\* The log never says Published of an event the bus never took.
PublishedWasSent ==
  \A e \in Events : row[e].state = "Published" => sent[e] > 0

\* Whoever retrieves the pending events finds none that was tried before, not
\* even by a publisher that failed or died.
PendingIsUntouched ==
  \A e \in Pending : sent[e] = 0 /\ row[e].timesSent = 0

Working(p, e) == Event(p) = e /\ pub[p].pc \in {"send", "sent", "fail"}

\* An event in progress is in the hands of a publisher, unless its publisher
\* died or could not even mark it as failed.
InProgressHasOwner ==
  \A e \in Events : row[e].state = "InProgress" =>
    e \in abandoned \/ \E p \in Publishers : Working(p, e)

\* However publishers overlap, the bus takes an event at most once for each
\* time it was retrieved, and TimesSent counts no attempt that was not made (it
\* may miss one: publishers that overlap write the count each has read).
SentOncePerRetrieval ==
  \A e \in Events : sent[e] <= retrieved[e] /\ row[e].timesSent <= marks[e]

\* An event a publisher has retrieved is published or marked as failed at
\* last, unless its publisher gave it up.
RetrievedIsSettled ==
  \A e \in Events :
    (\E p \in Publishers : e \in pub[p].todo)
      ~> (row[e].state \in {"Published", "PublishedFailed"} \/ e \in abandoned)

\* The log tells the truth of what the bus took and of who is at work on an
\* event.
LogIsTrue == PublishedWasSent /\ PendingIsUntouched /\ InProgressHasOwner
=============================================================================
