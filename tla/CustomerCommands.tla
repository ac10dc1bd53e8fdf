------------------------- MODULE CustomerCommands -------------------------
(***************************************************************************)
(* The customer service: the handlers of CreateCustomerCommand,            *)
(* UpdateCustomerCommand, DeleteCustomerCommand and                        *)
(* CustomerStatusChangeDomainEvent, called through CustomerServiceMediator *)
(* or, for an enrolment, by an integration event that may be delivered     *)
(* more than once (a second Create with the same reference).               *)
(*                                                                         *)
(* A request has a FructoseContext of its own: it reads a customer, works  *)
(* on the tracked copy and commits it in one transaction, which checks the *)
(* row version and the constraints of the Fructose database.  Requests     *)
(* overlap at the query, at the look-up of statuses and at the commit.     *)
(* The person, the type and the organization of a customer are left out:   *)
(* the map gives every customer the same type and organization, and makes  *)
(* the person anew, which is one of the reasons a commit may fail.         *)
(***************************************************************************)
EXTENDS Integers

CONSTANTS
  Requests,      \* each is sent once
  Customers,     \* keys the identity column can give
  References,    \* values of ReferenceIdentifier, NULL among them
  Statuses,      \* keys of CustomerStatus; a Code that is deleted and inserted
                 \* again has another key, and is another status here
  FirstStatus    \* the status with key 1

ASSUME FirstStatusAssumption == FirstStatus \in Statuses
ASSUME ReferencesAssumption == "none" \notin References

VARIABLES
  customer,      \* the table Customer
  used,          \* the keys it has given
  dependents,    \* customers with rows in a table that refers to Customer
  status,        \* the table CustomerStatus
  spare,         \* keys of CustomerStatus not given yet
  statusCache,   \* the list of GetAllCustomerStatuses, once loaded
  request        \* the requests

vars == <<customer, used, dependents, status, spare, statusCache, request>>
database == <<customer, used, dependents, status, spare>>

NoRow == [status |-> FirstStatus, reference |-> "none", version |-> 0]
Rows == [status : Statuses, reference : References, version : Nat \ {0}]

NotSent == [op |-> "none", id |-> "none", status |-> FirstStatus, reference |-> "none",
            notes |-> FALSE, read |-> NoRow, row |-> NoRow, pc |-> "idle"]

Init ==
  /\ customer = [c \in Customers |-> NoRow]
  /\ used = {}
  /\ dependents = {}
  /\ status = {FirstStatus}
  /\ spare = Statuses \ {FirstStatus}
  /\ statusCache = [held |-> FALSE, list |-> {}]
  /\ request = [r \in Requests |-> NotSent]

At(r, pc) == request[r].pc = pc
Goto(r, pc) == request' = [request EXCEPT ![r].pc = pc]
Exists(c) == customer[c] # NoRow

\* The handler goes on to its commit, with row as what it has made of the
\* customer it has read.
ToCommit(r, read, row) ==
  request' = [request EXCEPT ![r].pc = "commit", ![r].read = read, ![r].row = row]

(***************************************************************************)
(* Sending, by the methods of the mediator                                 *)
(***************************************************************************)
Send(r, with) ==
  /\ At(r, "idle")
  /\ request' = [request EXCEPT ![r] = with]
  /\ UNCHANGED <<database, statusCache>>

Sent(op) == [NotSent EXCEPT !.op = op, !.pc = "sent"]

CreateAsync(r) ==
  \E ref \in References, notes \in BOOLEAN :
    Send(r, [Sent("create") EXCEPT !.reference = ref, !.notes = notes])

\* UpdateAsync, or Update, which drops the task: the handler runs all the same.
Update(r) ==
  \E c \in Customers, ref \in References, notes \in BOOLEAN :
    Send(r, [Sent("update") EXCEPT !.id = c, !.reference = ref, !.notes = notes])

\* DeleteAsync, or Delete, which drops the task.
Delete(r) ==
  \E c \in Customers : Send(r, [Sent("delete") EXCEPT !.id = c])

ChangeStatus(r) ==
  \E c \in Customers, s \in Statuses :
    Send(r, [Sent("status") EXCEPT !.id = c, !.status = s])

(***************************************************************************)
(* The handlers                                                            *)
(***************************************************************************)
Op(r, op) == At(r, "sent") /\ request[r].op = op

\* The validator throws, or there is no such customer (NODA).
Refuse(r) ==
  /\ At(r, "sent")
  /\ Goto(r, "failed")
  /\ UNCHANGED <<database, statusCache>>

\* MapTo, and Add.
HandleCreate(r) ==
  /\ Op(r, "create")
  /\ ToCommit(r, NoRow, [status |-> FirstStatus, reference |-> request[r].reference,
                         version |-> 1])
  /\ UNCHANGED <<database, statusCache>>

\* What the map makes of a customer: the status is 1, the version is kept.
MapOver(read, reference) ==
  [read EXCEPT !.status = FirstStatus, !.reference = reference]

HandleUpdate(r) ==
  LET read == customer[request[r].id] IN
    /\ Op(r, "update") /\ read # NoRow
    /\ ToCommit(r, read, MapOver(read, request[r].reference))
    /\ UNCHANGED <<database, statusCache>>

HandleDelete(r) ==
  LET read == customer[request[r].id] IN
    /\ Op(r, "delete") /\ read # NoRow
    /\ ToCommit(r, read, NoRow)
    /\ UNCHANGED <<database, statusCache>>

HandleStatusChange(r) ==
  LET read == customer[request[r].id] IN
    /\ Op(r, "status") /\ read # NoRow
    /\ request' = [request EXCEPT ![r].pc = "status", ![r].read = read]
    /\ UNCHANGED <<database, statusCache>>

\* The list in the cache, or the table when there is none.
GetAllCustomerStatuses == IF statusCache.held THEN statusCache.list ELSE status

WithStatus(read, s) == [read EXCEPT !.status = s]

\* A status that is not in the list is refused (NODA).
FindStatus(r) ==
  /\ At(r, "status")
  /\ statusCache' = [held |-> TRUE, list |-> GetAllCustomerStatuses]
  /\ LET s == request[r].status  read == request[r].read IN
       IF s \in GetAllCustomerStatuses
       THEN ToCommit(r, read, WithStatus(read, s))
       ELSE Goto(r, "failed")
  /\ UNCHANGED database

(***************************************************************************)
(* CommitAsync: one transaction of the Fructose database                   *)
(***************************************************************************)
\* Mutant: no row version.
RowIsThere(r) == Exists(request[r].id)

\* The row is there with the version that was read.
RowIsAsRead(r) ==
  Exists(request[r].id) /\ customer[request[r].id].version = request[r].read.version

\* UKC__Customer__ReferenceIdentifier, which lets NULL in once.
ReferenceIsUnique(c, reference) ==
  \A d \in Customers \ {c} : Exists(d) => customer[d].reference # reference

\* The foreign keys of notes, attributes, history, search terms and events.
NothingRefersTo(c) == c \notin dependents

\* FKN__Customer__CustomerStatusID
StatusExists(row) == row.status \in status

WriteRow(c, row, version) ==
  /\ StatusExists(row) /\ ReferenceIsUnique(c, row.reference)
  /\ customer' = [customer EXCEPT ![c] = [row EXCEPT !.version = version]]

\* Notes and attributes that come with the customer are inserted beside it.
WithNotes(r, c) == dependents' = IF request[r].notes THEN dependents \union {c}
                                 ELSE dependents

Insert(r) ==
  \E c \in Customers \ used :
    /\ WriteRow(c, request[r].row, 1)
    /\ used' = used \union {c}
    /\ WithNotes(r, c)

\* A row that is as it was read need not be written.
Save(r) ==
  LET c == request[r].id  row == request[r].row IN
    /\ \/ RowIsAsRead(r) /\ WriteRow(c, row, customer[c].version + 1)
       \/ /\ row = request[r].read
          /\ request[r].notes => Exists(c)
          /\ UNCHANGED customer
    /\ WithNotes(r, c)
    /\ UNCHANGED used

RemoveRow(r) ==
  LET c == request[r].id IN
    /\ RowIsAsRead(r) /\ NothingRefersTo(c)
    /\ customer' = [customer EXCEPT ![c] = NoRow]
    /\ UNCHANGED <<used, dependents>>

Commit(r) ==
  /\ At(r, "commit")
  /\ \/ request[r].op = "create" /\ Insert(r)
     \/ request[r].op \in {"update", "status"} /\ Save(r)
     \/ request[r].op = "delete" /\ RemoveRow(r)
  /\ Goto(r, "done")
  /\ UNCHANGED <<status, spare, statusCache>>

\* A conflict, a constraint, or any other error of the database: the whole
\* transaction is rolled back.
CommitFails(r) ==
  /\ At(r, "commit")
  /\ Goto(r, "failed")
  /\ UNCHANGED <<database, statusCache>>

(***************************************************************************)
(* The surroundings: statuses come and go by hand, nobody tells the cache  *)
(***************************************************************************)
InsertStatus(s) ==
  /\ s \in spare
  /\ spare' = spare \ {s} /\ status' = status \union {s}
  /\ UNCHANGED <<customer, used, dependents, statusCache, request>>

DeleteStatus(s) ==
  /\ s \in status
  /\ \A c \in Customers : Exists(c) => customer[c].status # s
  /\ status' = status \ {s}
  /\ UNCHANGED <<customer, used, dependents, spare, statusCache, request>>

\* The cache drops the list after a time of its own.
Evict ==
  /\ statusCache.held
  /\ statusCache' = [held |-> FALSE, list |-> {}]
  /\ UNCHANGED <<database, request>>

Step(r) ==
  \/ Refuse(r) \/ HandleCreate(r) \/ HandleUpdate(r) \/ HandleDelete(r)
  \/ HandleStatusChange(r) \/ FindStatus(r) \/ Commit(r) \/ CommitFails(r)

Next ==
  \/ \E r \in Requests :
       CreateAsync(r) \/ Update(r) \/ Delete(r) \/ ChangeStatus(r) \/ Step(r)
  \/ \E s \in Statuses : InsertStatus(s) \/ DeleteStatus(s)
  \/ Evict

Spec == Init /\ [][Next]_vars

(***************************************************************************)
(* Properties                                                              *)
(***************************************************************************)
\* The types of the tables, the cached list and the requests.
TypeOK ==
  /\ customer \in [Customers -> Rows \union {NoRow}]
  /\ used \subseteq Customers
  /\ dependents \subseteq Customers
  /\ status \subseteq Statuses
  /\ spare \subseteq Statuses
  /\ statusCache \in [held : BOOLEAN, list : SUBSET Statuses]
  /\ request \in [Requests ->
       [op : {"none", "create", "update", "delete", "status"},
        id : Customers \union {"none"}, status : Statuses,
        reference : References \union {"none"}, notes : BOOLEAN,
        read : Rows \union {NoRow}, row : Rows \union {NoRow},
        pc : {"idle", "sent", "status", "commit", "done", "failed"}]]

\* No request overwrites or deletes a customer that another has changed since
\* it was read, and none brings a deleted customer back.
NoBlindWrite ==
  [][\A c \in used : customer'[c] # customer[c] =>
       \E r \in Requests :
         /\ At(r, "commit") /\ request'[r].pc = "done"
         /\ request[r].id = c /\ request[r].read = customer[c]]_vars

\* What an update or a status change makes of the customer it has read.
Made(r) ==
  IF request[r].op = "update" THEN MapOver(request[r].read, request[r].reference)
  ELSE WithStatus(request[r].read, request[r].status)

\* A request that has read what it would write has nothing left to do.
Needless(r) ==
  /\ request[r].op \in {"update", "status"}
  /\ request[r].pc \in {"status", "commit"}
  /\ request[r].read = Made(r)

Outcome(r) ==
  CASE At(r, "idle")   -> "none"
    [] At(r, "done")   -> "done"
    [] At(r, "failed") -> "failed"
    [] OTHER           -> IF Needless(r) THEN "needless" ELSE "asked"

Unversioned(row) == [status |-> row.status, reference |-> row.reference]

Asked(r) == [op |-> request[r].op, id |-> request[r].id,
             status |-> request[r].status, reference |-> request[r].reference]

Registered == [c \in Customers |-> Unversioned(customer[c])]
Commands == [r \in Requests |-> Asked(r)]
Outcomes == [r \in Requests |-> Outcome(r)]

Register == INSTANCE CustomerRegister WITH
  registered <- Registered, given <- used, command <- Commands, outcome <- Outcomes

\* Each command takes effect at one moment, on the customer as it then is, or
\* not at all, however its query, its look-up and its commit overlap with those
\* of others: no committed change of another is lost or brought back with an old
\* copy, what fails leaves nothing, and only a command that would change nothing
\* may end without looking again.
CommandsAreAtomic == Register!RegisterSpec
=============================================================================
