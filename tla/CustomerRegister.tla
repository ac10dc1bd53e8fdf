-------------------------- MODULE CustomerRegister --------------------------
(***************************************************************************)
(* What the customer service promises those who send it commands: each     *)
(* command takes effect at one moment between being asked for and being    *)
(* done, on the customer as it is at that moment, or not at all.  There    *)
(* are no queries, no copies, no versions and no transactions here; they   *)
(* are how CustomerCommands implements this.                               *)
(***************************************************************************)

CONSTANTS Requests, Customers, References, Statuses, FirstStatus

VARIABLES
  registered,   \* the customers, by key
  given,        \* keys that have been given
  command,      \* what each request asks for
  outcome       \* what has become of it

registerVars == <<registered, given, command, outcome>>

Nobody == [status |-> FirstStatus, reference |-> "none"]

Askable ==
  [op : {"none", "create", "update", "delete", "status"},
   id : Customers \union {"none"}, status : Statuses,
   reference : References \union {"none"}]

RegisterInit ==
  /\ registered = [c \in Customers |-> Nobody]
  /\ given = {}
  /\ command \in [Requests -> Askable]
  /\ outcome = [r \in Requests |-> "none"]

Becomes(r, from, to) ==
  /\ outcome[r] \in from
  /\ outcome' = [outcome EXCEPT ![r] = to]

\* The customer a command changes or deletes.
Subject(r) == registered[command[r].id]

Ask(r, asked) ==
  /\ Becomes(r, {"none"}, "asked")
  /\ command' = [command EXCEPT ![r] = asked]
  /\ UNCHANGED <<registered, given>>

Enrolled(r) == [status |-> FirstStatus, reference |-> command[r].reference]

\* A new customer has a key that nobody has had.
Enrol(r, c) ==
  /\ command[r].op = "create" /\ c \notin given
  /\ registered' = [registered EXCEPT ![c] = Enrolled(r)]
  /\ given' = given \union {c}
  /\ Becomes(r, {"asked"}, "done")
  /\ UNCHANGED command

\* An update makes the customer anew, a status change leaves the rest of it.
Changed(r) ==
  IF command[r].op = "update" THEN Enrolled(r)
  ELSE [Subject(r) EXCEPT !.status = command[r].status]

Change(r) ==
  /\ command[r].op \in {"update", "status"} /\ Subject(r) # Nobody
  /\ registered' = [registered EXCEPT ![command[r].id] = Changed(r)]
  /\ Becomes(r, {"asked"}, "done")
  /\ UNCHANGED <<given, command>>

\* A change that leaves the customer as it is takes effect without a trace.
NeedNoChange(r) ==
  /\ command[r].op \in {"update", "status"} /\ Subject(r) # Nobody
  /\ Changed(r) = Subject(r)
  /\ Becomes(r, {"asked"}, "needless")
  /\ UNCHANGED <<registered, given, command>>

Conclude(r) ==
  /\ Becomes(r, {"needless"}, "done")
  /\ UNCHANGED <<registered, given, command>>

Remove(r) ==
  /\ command[r].op = "delete" /\ Subject(r) # Nobody
  /\ registered' = [registered EXCEPT ![command[r].id] = Nobody]
  /\ Becomes(r, {"asked"}, "done")
  /\ UNCHANGED <<given, command>>

\* What fails has changed nothing.
Fail(r) ==
  /\ Becomes(r, {"asked", "needless"}, "failed")
  /\ UNCHANGED <<registered, given, command>>

RegisterNext ==
  \E r \in Requests :
    \/ \E asked \in Askable : Ask(r, asked)
    \/ \E c \in Customers : Enrol(r, c)
    \/ Change(r) \/ NeedNoChange(r) \/ Conclude(r) \/ Remove(r) \/ Fail(r)

RegisterSpec == RegisterInit /\ [][RegisterNext]_registerVars
=============================================================================
