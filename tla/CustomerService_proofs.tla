---------------------- MODULE CustomerService_proofs ----------------------
(***************************************************************************)
(* The safety of the customer service.                                     *)
(*                                                                         *)
(* Its commands, for every set of requests, customers, references and      *)
(* statuses: a commit replaces what its request has read, and each command *)
(* takes effect at one moment.  Both rest on the row version: a read row   *)
(* is a past state of its customer, and versions only grow.                *)
(*                                                                         *)
(* Its look-ups, for every number of overlapping calls, values and rows:   *)
(* looking twice heals a stale list.                                       *)
(***************************************************************************)
EXTENDS CustomerCommands, LookupCache, TLAPS

\* A request under way has what its operation needs.
WellFormed(r) ==
  /\ request[r].op = "create" => request[r].reference \in References
  /\ request[r].op = "update" =>
       request[r].reference \in References /\ request[r].id \in Customers
  /\ request[r].op \in {"delete", "status"} => request[r].id \in Customers
  /\ ~At(r, "idle") => request[r].op # "none"
  /\ At(r, "status") => request[r].op = "status"

\* Whoever works on a customer has read it, and, unless it is gone, either as
\* it is or in an earlier version.
ReadIsPast(r) ==
  request[r].op # "create" /\ request[r].pc \in {"status", "commit"} =>
    LET c == request[r].id  read == request[r].read IN
      /\ read \in Rows
      /\ c \in used
      /\ Exists(c) => \/ read = customer[c]
                      \/ read.version < customer[c].version

\* What is to be written is a row, and what the command makes of what it read.
RowReady(r) ==
  At(r, "commit") /\ request[r].op # "delete" =>
    /\ request[r].row \in Rows
    /\ request[r].op = "create" => request[r].row.status = FirstStatus
                                 /\ request[r].row.reference = request[r].reference
    /\ request[r].op # "create" => request[r].row = Made(r)

\* The identity column does not give a key twice.
RowsAreUsed == \A c \in Customers : Exists(c) => c \in used

Inv ==
  /\ TypeOK
  /\ RowsAreUsed
  /\ \A r \in Requests : WellFormed(r) /\ ReadIsPast(r) /\ RowReady(r)

LEMMA NoRowIsNoRow == NoRow \notin Rows
  BY DEF NoRow, Rows

\* The initial tables are empty, and no request is sent.
LEMMA Initially == Init => Inv
  BY FirstStatusAssumption, NoRowIsNoRow
  DEF Init, Inv, TypeOK, RowsAreUsed, WellFormed, ReadIsPast, RowReady,
      At, Exists, NotSent

\* A step of one request, beside the tables: what it becomes decides.
LEMMA OneRequest ==
  ASSUME Inv, UNCHANGED database,
         statusCache' \in [held : BOOLEAN, list : SUBSET Statuses],
         NEW r \in Requests, NEW new,
         request' = [request EXCEPT ![r] = new],
         TypeOK', (WellFormed(r) /\ ReadIsPast(r) /\ RowReady(r))'
  PROVE  Inv'
<1>1. \A q \in Requests \ {r} : request'[q] = request[q]
  BY DEF Inv, TypeOK
<1>2. \A q \in Requests : (WellFormed(q) /\ ReadIsPast(q) /\ RowReady(q))'
  BY <1>1 DEF Inv, WellFormed, ReadIsPast, RowReady, At, Exists, database, Made
<1>3. RowsAreUsed'
  BY DEF Inv, database, RowsAreUsed, Exists
<1> QED BY <1>2, <1>3 DEF Inv

\* What the mediator sends has what its operation needs.
LEMMA SendKeepsInv ==
  ASSUME Inv, NEW r \in Requests, NEW with, Send(r, with),
         with \in [op : {"create", "update", "delete", "status"},
                   id : Customers \union {"none"}, status : Statuses,
                   reference : References \union {"none"}, notes : BOOLEAN,
                   read : {NoRow}, row : {NoRow}, pc : {"sent"}],
         with.op \in {"create", "update"} => with.reference \in References,
         with.op # "create" => with.id \in Customers
  PROVE  Inv'
<1>1. /\ request' = [request EXCEPT ![r] = with]
      /\ UNCHANGED <<database, statusCache>>
  BY DEF Send
<1>2. TypeOK'
  BY <1>1 DEF Inv, TypeOK, database
<1>3. (WellFormed(r) /\ ReadIsPast(r) /\ RowReady(r))'
  BY <1>1 DEF Inv, TypeOK, WellFormed, ReadIsPast, RowReady, At
<1> QED
  BY <1>1, <1>2, <1>3, OneRequest DEF Inv, TypeOK

LEMMA SendingKeepsInv ==
  ASSUME Inv, NEW r \in Requests,
         CreateAsync(r) \/ Update(r) \/ Delete(r) \/ ChangeStatus(r)
  PROVE  Inv'
<1> USE FirstStatusAssumption DEF Sent, NotSent
<1>1. ASSUME NEW ref \in References, NEW notes \in BOOLEAN,
             Send(r, [Sent("create") EXCEPT !.reference = ref, !.notes = notes])
      PROVE  Inv'
  BY <1>1, SendKeepsInv
<1>2. ASSUME NEW c \in Customers, NEW ref \in References, NEW notes \in BOOLEAN,
             Send(r, [Sent("update") EXCEPT !.id = c, !.reference = ref, !.notes = notes])
      PROVE  Inv'
  BY <1>2, SendKeepsInv
<1>3. ASSUME NEW c \in Customers,
             Send(r, [Sent("delete") EXCEPT !.id = c])
      PROVE  Inv'
  BY <1>3, SendKeepsInv
<1>4. ASSUME NEW c \in Customers, NEW s \in Statuses,
             Send(r, [Sent("status") EXCEPT !.id = c, !.status = s])
      PROVE  Inv'
  BY <1>4, SendKeepsInv
<1> QED
  BY <1>1, <1>2, <1>3, <1>4 DEF CreateAsync, Update, Delete, ChangeStatus

\* Refusals and failed commits change nothing but the request.
LEMMA FailureKeepsInv ==
  ASSUME Inv, NEW r \in Requests, Refuse(r) \/ CommitFails(r)
  PROVE  Inv'
<1> DEFINE new == [request[r] EXCEPT !.pc = "failed"]
<1>1. /\ request' = [request EXCEPT ![r] = new]
      /\ UNCHANGED <<database, statusCache>>
      /\ request[r].pc \in {"sent", "commit"}
  BY DEF Refuse, CommitFails, Goto, At
<1>2. TypeOK'
  BY <1>1 DEF Inv, TypeOK, database
<1>3. (WellFormed(r) /\ ReadIsPast(r) /\ RowReady(r))'
  BY <1>1 DEF Inv, TypeOK, WellFormed, ReadIsPast, RowReady, At
<1> QED
  BY <1>1, <1>2, <1>3, OneRequest DEF Inv, TypeOK

\* What a request can be, and what becomes of it when it reads and goes on.
RequestRecords ==
  [op : {"none", "create", "update", "delete", "status"},
   id : Customers \union {"none"}, status : Statuses,
   reference : References \union {"none"}, notes : BOOLEAN,
   read : Rows \union {NoRow}, row : Rows \union {NoRow},
   pc : {"idle", "sent", "status", "commit", "done", "failed"}]

LEMMA Reading ==
  ASSUME NEW q \in RequestRecords, NEW pc \in {"status", "commit"},
         NEW read \in Rows \union {NoRow}
  PROVE  [q EXCEPT !.pc = pc, !.read = read] \in RequestRecords
<1> DEFINE moved == [q EXCEPT !.pc = pc]
<1>1. moved \in RequestRecords
  BY DEF RequestRecords
<1>2. [moved EXCEPT !.read = read] \in RequestRecords
  <2> HIDE DEF moved
  <2> QED BY <1>1 DEF RequestRecords
<1> QED BY <1>2

\* A handler that goes on to its commit has read the customer as it is, or
\* the status handler before.
LEMMA ToCommitKeepsInv ==
  ASSUME Inv, NEW r \in Requests, UNCHANGED database,
         statusCache' \in [held : BOOLEAN, list : SUBSET Statuses],
         NEW read \in Rows \union {NoRow}, NEW row \in Rows \union {NoRow},
         ToCommit(r, read, row),
         request[r].pc \in {"sent", "status"},
         request[r].op = "create" => read = NoRow,
         request[r].op # "create" =>
           LET c == request[r].id IN
             /\ read \in Rows /\ c \in used
             /\ Exists(c) => read = customer[c] \/ read.version < customer[c].version,
         request[r].op # "delete" => row \in Rows,
         request[r].op = "create" => row.status = FirstStatus
                                   /\ row.reference = request[r].reference,
         request[r].op = "update" => row = MapOver(read, request[r].reference),
         request[r].op = "status" => row = WithStatus(read, request[r].status)
  PROVE  Inv'
<1> DEFINE new == [request[r] EXCEPT !.pc = "commit", !.read = read, !.row = row]
<1>1. request' = [request EXCEPT ![r] = new]
  BY DEF ToCommit
<1>2. TypeOK'
  <2> DEFINE informed == [request[r] EXCEPT !.pc = "commit", !.read = read]
  <2> request[r] \in RequestRecords
    BY DEF Inv, TypeOK, RequestRecords
  <2>1. informed \in RequestRecords
    BY Reading
  <2>2. [informed EXCEPT !.row = row] \in RequestRecords
    <3> HIDE DEF informed
    <3> QED BY <2>1 DEF RequestRecords
  <2>3. new \in RequestRecords
    BY <2>2
  <2> HIDE DEF new
  <2> QED
    BY <1>1, <2>3 DEF Inv, TypeOK, database, RequestRecords
<1>3. /\ request'[r].pc = "commit" /\ request'[r].read = read /\ request'[r].row = row
      /\ request'[r].op = request[r].op /\ request'[r].id = request[r].id
      /\ request'[r].reference = request[r].reference
      /\ request'[r].status = request[r].status
  BY <1>1 DEF Inv, TypeOK
<1>4. /\ WellFormed(r) /\ request[r].op # "none"
      /\ request[r].op \in {"none", "create", "update", "delete", "status"}
  BY DEF Inv, WellFormed, At, TypeOK
<1>5. WellFormed(r)' /\ ReadIsPast(r)'
  BY <1>3, <1>4 DEF WellFormed, ReadIsPast, At, Exists, database
<1>6. RowReady(r)'
  BY <1>3, <1>4 DEF RowReady, Made, At
<1> QED
  BY <1>1, <1>2, <1>5, <1>6, OneRequest

\* The handlers up to the commit, or to the look-up of the status.
LEMMA CreateAndUpdateKeepInv ==
  ASSUME Inv, NEW r \in Requests,
         HandleCreate(r) \/ HandleUpdate(r) \/ HandleDelete(r)
  PROVE  Inv'
<1>1. /\ statusCache' \in [held : BOOLEAN, list : SUBSET Statuses]
      /\ UNCHANGED database
      /\ request[r].pc \in {"sent", "status"}
  BY DEF HandleCreate, HandleUpdate, HandleDelete, Op, At, Inv, TypeOK
<1>2. CASE HandleCreate(r)
  <2> DEFINE row == [status |-> FirstStatus, reference |-> request[r].reference,
                     version |-> 1]
  <2>1. ToCommit(r, NoRow, row) /\ request[r].op = "create"
    BY <1>2 DEF HandleCreate, Op
  <2>2. row \in Rows /\ row.status = FirstStatus /\ row.reference = request[r].reference
    BY <2>1, FirstStatusAssumption DEF Rows, Inv, WellFormed, At, ToCommit
  <2> HIDE DEF row
  <2> QED BY <1>1, <2>1, <2>2, ToCommitKeepsInv
<1>3. ASSUME HandleUpdate(r) \/ HandleDelete(r)
      PROVE  /\ customer[request[r].id] \in Rows
             /\ request[r].id \in Customers /\ request[r].id \in used
  BY <1>3 DEF HandleUpdate, HandleDelete, Op, Inv, WellFormed, RowsAreUsed, TypeOK, Exists
<1>4. CASE HandleUpdate(r)
  <2> DEFINE read == customer[request[r].id]
             row == MapOver(read, request[r].reference)
  <2>1. /\ ToCommit(r, read, row) /\ request[r].op = "update"
        /\ row = MapOver(read, request[r].reference) /\ read = customer[request[r].id]
    BY <1>4 DEF HandleUpdate, Op
  <2>2. row \in Rows
    BY <1>3, <1>4, <2>1, FirstStatusAssumption DEF Rows, MapOver, Inv, WellFormed
  <2> HIDE DEF row, read
  <2> QED BY <1>1, <1>3, <1>4, <2>1, <2>2, ToCommitKeepsInv
<1>5. CASE HandleDelete(r)
  <2>1. ToCommit(r, customer[request[r].id], NoRow) /\ request[r].op = "delete"
    BY <1>5 DEF HandleDelete, Op
  <2> QED BY <1>1, <1>3, <1>5, <2>1, ToCommitKeepsInv
<1> QED BY <1>2, <1>4, <1>5

LEMMA StatusChangeKeepsInv ==
  ASSUME Inv, NEW r \in Requests, HandleStatusChange(r)
  PROVE  Inv'
<1> DEFINE read == customer[request[r].id]
           new == [request[r] EXCEPT !.pc = "status", !.read = read]
<1>1. /\ request' = [request EXCEPT ![r] = new]
      /\ UNCHANGED <<database, statusCache>>
      /\ request[r].op = "status" /\ request[r].pc = "sent" /\ read # NoRow
  BY DEF HandleStatusChange, Op, At
<1>2. /\ read \in Rows
      /\ request[r].id \in Customers /\ request[r].id \in used
  BY <1>1 DEF Inv, WellFormed, RowsAreUsed, TypeOK, Exists
<1> HIDE DEF read
<1>3. /\ new \in RequestRecords
      /\ new.op = request[r].op /\ new.id = request[r].id
      /\ new.pc = "status" /\ new.read = read /\ new.reference = request[r].reference
  <2> DEFINE moved == [request[r] EXCEPT !.pc = "status"]
  <2>1. /\ request[r] \in RequestRecords
        /\ moved \in RequestRecords
        /\ moved.op = request[r].op /\ moved.id = request[r].id /\ moved.pc = "status"
        /\ moved.reference = request[r].reference
    BY DEF Inv, TypeOK, RequestRecords
  <2>2. new = [moved EXCEPT !.read = read]
    OBVIOUS
  <2> HIDE DEF moved, new
  <2> QED BY <1>2, <2>1, <2>2 DEF RequestRecords
<1> HIDE DEF new
<1>4. TypeOK' /\ request'[r] = new
  BY <1>1, <1>3 DEF Inv, TypeOK, database, RequestRecords
<1>5. (WellFormed(r) /\ ReadIsPast(r) /\ RowReady(r))'
  BY <1>1, <1>2, <1>3, <1>4 DEF WellFormed, ReadIsPast, RowReady, At, Exists, database, read
<1> QED
  BY <1>1, <1>4, <1>5, OneRequest DEF Inv, TypeOK

\* Whatever list the status is looked up in, what was read stays read.
LEMMA FindStatusKeepsInv ==
  ASSUME Inv, NEW r \in Requests, FindStatus(r)
  PROVE  Inv'
<1> DEFINE read == request[r].read
           row == WithStatus(read, request[r].status)
<1>1. /\ statusCache' \in [held : BOOLEAN, list : SUBSET Statuses]
      /\ UNCHANGED database
      /\ request[r].pc = "status" /\ request[r].op = "status"
  BY DEF FindStatus, GetAllCustomerStatuses, At, Inv, TypeOK, WellFormed
<1>2. /\ read \in Rows /\ row \in Rows /\ row = WithStatus(read, request[r].status)
      /\ LET c == request[r].id IN
           /\ c \in used
           /\ Exists(c) => read = customer[c] \/ read.version < customer[c].version
  BY <1>1 DEF Inv, ReadIsPast, TypeOK, Rows, WithStatus
<1>3. CASE ToCommit(r, read, row)
  <2> HIDE DEF row, read
  <2> QED BY <1>1, <1>2, <1>3, ToCommitKeepsInv
<1>4. CASE Goto(r, "failed")
  <2> DEFINE new == [request[r] EXCEPT !.pc = "failed"]
  <2>1. request' = [request EXCEPT ![r] = new]
    BY <1>4 DEF Goto
  <2>2. TypeOK'
    BY <1>1, <2>1 DEF Inv, TypeOK, database
  <2>3. (WellFormed(r) /\ ReadIsPast(r) /\ RowReady(r))'
    BY <1>1, <2>1 DEF Inv, TypeOK, WellFormed, ReadIsPast, RowReady, At
  <2> QED
    BY <1>1, <2>1, <2>2, <2>3, OneRequest
<1> QED BY <1>3, <1>4 DEF FindStatus

\* What a commit may do to the customers others have read.
Advances ==
  \A c \in used :
    \/ customer'[c] = customer[c]
    \/ customer'[c] = NoRow
    \/ Exists(c) /\ customer[c].version < customer'[c].version

\* The request that commits settles; the others have still read the past.
LEMMA Settling ==
  ASSUME Inv, NEW r \in Requests, At(r, "commit"), Goto(r, "done"),
         UNCHANGED <<status, spare, statusCache>>,
         customer' \in [Customers -> Rows \union {NoRow}],
         used \subseteq used', used' \subseteq Customers, dependents' \subseteq Customers,
         Advances, RowsAreUsed'
  PROVE  Inv'
<1>1. request' = [request EXCEPT ![r].pc = "done"]
  BY DEF Goto
<1>2. /\ \A q \in Requests \ {r} : request'[q] = request[q]
      /\ request'[r].pc = "done" /\ request'[r].op = request[r].op
      /\ request'[r].id = request[r].id /\ request'[r].reference = request[r].reference
  BY <1>1 DEF Inv, TypeOK
<1>3. TypeOK'
  BY <1>1 DEF Inv, TypeOK
<1>4. (WellFormed(r) /\ ReadIsPast(r) /\ RowReady(r))'
  BY <1>2 DEF Inv, WellFormed, ReadIsPast, RowReady, At
<1>5. ASSUME NEW q \in Requests \ {r}
      PROVE  (WellFormed(q) /\ RowReady(q))'
  BY <1>2 DEF Inv, WellFormed, RowReady, At, Made
<1>6. ASSUME NEW q \in Requests \ {r}
      PROVE  ReadIsPast(q)'
  <2>1. SUFFICES ASSUME request[q].op # "create", request[q].pc \in {"status", "commit"},
                        NEW c, c = request[q].id, NEW read, read = request[q].read
                 PROVE  /\ read \in Rows /\ c \in used'
                        /\ customer'[c] # NoRow => \/ read = customer'[c]
                                                  \/ read.version < customer'[c].version
    BY <1>2 DEF ReadIsPast, Exists
  <2>2. /\ read \in Rows /\ c \in used
        /\ Exists(c) => read = customer[c] \/ read.version < customer[c].version
    BY <2>1 DEF Inv, ReadIsPast
  <2>3. c \in Customers /\ read.version \in Nat
    BY <2>2 DEF Inv, TypeOK, Rows
  <2>4. ASSUME customer'[c] # NoRow
        PROVE  read = customer'[c] \/ read.version < customer'[c].version
    <3>1. customer'[c].version \in Nat
      BY <2>3, <2>4 DEF Exists, Rows
    <3>2. CASE customer'[c] = customer[c]
      BY <2>2, <2>4, <3>2 DEF Exists
    <3>3. CASE Exists(c) /\ customer[c].version < customer'[c].version
      <4>1. customer[c].version \in Nat
        BY <2>3, <3>3 DEF Inv, TypeOK, Exists, Rows
      <4> QED BY <2>2, <2>3, <3>1, <3>3, <4>1
    <3> QED BY <2>2, <2>4, <3>2, <3>3 DEF Advances, Exists
  <2> QED BY <2>2, <2>4
<1> QED BY <1>3, <1>4, <1>5, <1>6 DEF Inv

\* A row is written in the version that is asked for.
LEMMA Writing ==
  ASSUME Inv, NEW c \in Customers, NEW row \in Rows, NEW version \in Nat \ {0},
         WriteRow(c, row, version), used' = used \union {c}
  PROVE  /\ customer' \in [Customers -> Rows \union {NoRow}]
         /\ customer'[c].version = version
         /\ \A d \in Customers \ {c} : customer'[d] = customer[d]
         /\ RowsAreUsed'
<1> DEFINE new == [row EXCEPT !.version = version]
<1>1. /\ new \in Rows
      /\ new.version = version /\ new.status = row.status /\ new.reference = row.reference
  BY DEF Rows
<1>2. customer' = [customer EXCEPT ![c] = new]
  BY DEF WriteRow
<1> HIDE DEF new
<1>3. /\ customer' \in [Customers -> Rows \union {NoRow}]
      /\ customer'[c] = new /\ new # NoRow
      /\ \A d \in Customers \ {c} : customer'[d] = customer[d]
  BY <1>1, <1>2, NoRowIsNoRow DEF Inv, TypeOK
<1>4. RowsAreUsed'
  BY <1>3 DEF Inv, RowsAreUsed, Exists
<1> QED BY <1>1, <1>3, <1>4

\* A new customer takes a key nobody has had.
LEMMA InsertKeepsInv ==
  ASSUME Inv, NEW r \in Requests, Commit(r), request[r].op = "create", Insert(r)
  PROVE  Inv'
<1>1. /\ At(r, "commit") /\ Goto(r, "done") /\ UNCHANGED <<status, spare, statusCache>>
  BY DEF Commit
<1>2. request[r].row \in Rows
  BY <1>1 DEF Inv, RowReady
<1>3. PICK c \in Customers \ used :
        /\ WriteRow(c, request[r].row, 1)
        /\ used' = used \union {c}
        /\ WithNotes(r, c)
  BY DEF Insert
<1>4. dependents' \subseteq dependents \union {c}
  BY <1>3 DEF WithNotes
<1>5. /\ customer' \in [Customers -> Rows \union {NoRow}]
      /\ \A d \in Customers \ {c} : customer'[d] = customer[d]
      /\ RowsAreUsed'
  BY <1>1, <1>2, <1>3, <1>4, Writing
<1>6. Advances
  BY <1>3, <1>5 DEF Advances, Inv, TypeOK
<1>7. used \subseteq used' /\ used' \subseteq Customers /\ dependents' \subseteq Customers
  BY <1>3, <1>4 DEF Inv, TypeOK
<1> QED BY <1>1, <1>5, <1>6, <1>7, Settling

\* A customer is written again only as it was read, in a later version.
LEMMA SaveKeepsInv ==
  ASSUME Inv, NEW r \in Requests, Commit(r), request[r].op \in {"update", "status"}, Save(r)
  PROVE  Inv'
<1> DEFINE c == request[r].id  row == request[r].row  version == customer[c].version
<1>1. /\ At(r, "commit") /\ Goto(r, "done") /\ UNCHANGED <<status, spare, statusCache>>
      /\ WithNotes(r, c) /\ used' = used
  BY DEF Commit, Save
<1>2. /\ c \in Customers /\ c \in used /\ row \in Rows
      /\ dependents' \subseteq dependents \union {c}
  BY <1>1 DEF Inv, RowReady, WellFormed, ReadIsPast, At, WithNotes
<1>3. dependents' \subseteq Customers /\ used' \subseteq Customers
  BY <1>1, <1>2 DEF Inv, TypeOK
<1>4. CASE RowIsAsRead(r) /\ WriteRow(c, row, version + 1)
  <2>1. Exists(c) /\ version \in Nat \ {0}
    BY <1>2, <1>4 DEF RowIsAsRead, Inv, TypeOK, Exists, Rows
  <2>2. used' = used \union {c}
    BY <1>1, <1>2
  <2>3. /\ customer' \in [Customers -> Rows \union {NoRow}]
        /\ customer'[c].version = version + 1
        /\ \A d \in Customers \ {c} : customer'[d] = customer[d]
        /\ RowsAreUsed'
    <3> HIDE DEF c, row, version
    <3> QED BY <1>1, <1>2, <1>4, <2>1, <2>2, Writing
  <2>4. Advances
    BY <2>1, <2>3 DEF Advances, Inv, TypeOK
  <2> QED BY <1>1, <1>3, <2>3, <2>4, Settling
<1>5. CASE customer' = customer /\ (request[r].notes => Exists(c))
  <2>1. RowsAreUsed' /\ Advances
    BY <1>1, <1>5 DEF Inv, RowsAreUsed, Exists, Advances
  <2>2. customer' \in [Customers -> Rows \union {NoRow}]
    BY <1>5 DEF Inv, TypeOK
  <2> QED BY <1>1, <1>3, <2>1, <2>2, Settling
<1> QED BY <1>4, <1>5 DEF Save

\* Nothing is left behind of a customer that is deleted.
LEMMA RemoveKeepsInv ==
  ASSUME Inv, NEW r \in Requests, Commit(r), request[r].op = "delete", RemoveRow(r)
  PROVE  Inv'
<1> DEFINE c == request[r].id
<1>1. /\ At(r, "commit") /\ Goto(r, "done") /\ UNCHANGED <<status, spare, statusCache>>
      /\ customer' = [customer EXCEPT ![c] = NoRow] /\ c \notin dependents
      /\ UNCHANGED <<used, dependents>>
  BY DEF Commit, RemoveRow, NothingRefersTo
<1>2. /\ customer' \in [Customers -> Rows \union {NoRow}]
      /\ \A d \in Customers : customer'[d] = customer[d] \/ customer'[d] = NoRow
      /\ \A d \in dependents : customer'[d] = customer[d]
  BY <1>1 DEF Inv, TypeOK
<1>3. RowsAreUsed' /\ Advances
  BY <1>1, <1>2 DEF Inv, TypeOK, RowsAreUsed, Exists, Advances
<1>4. used \subseteq used' /\ used' \subseteq Customers /\ dependents' \subseteq Customers
  BY <1>1 DEF Inv, TypeOK
<1> QED BY <1>1, <1>2, <1>3, <1>4, Settling

LEMMA CommitKeepsInv ==
  ASSUME Inv, NEW r \in Requests, Commit(r)
  PROVE  Inv'
  BY InsertKeepsInv, SaveKeepsInv, RemoveKeepsInv DEF Commit

\* Statuses and the cached list are nobody's base.
LEMMA SurroundingsKeepInv ==
  ASSUME Inv,
         Evict \/ \E s \in Statuses : InsertStatus(s) \/ DeleteStatus(s)
  PROVE  Inv'
<1> DEFINE StatusesMove ==
      /\ UNCHANGED <<customer, used, dependents, request>>
      /\ status' \subseteq Statuses /\ spare' \subseteq Statuses
      /\ statusCache' \in [held : BOOLEAN, list : SUBSET Statuses]
<1>1. StatusesMove
  <2>1. CASE Evict
    BY <2>1 DEF Evict, database, Inv, TypeOK
  <2>2. ASSUME NEW s \in Statuses, InsertStatus(s)
        PROVE  StatusesMove
    BY <2>2 DEF InsertStatus, Inv, TypeOK
  <2>3. ASSUME NEW s \in Statuses, DeleteStatus(s)
        PROVE  StatusesMove
    BY <2>3 DEF DeleteStatus, Inv, TypeOK
  <2> QED BY <2>1, <2>2, <2>3
<1> QED
  BY <1>1 DEF Inv, TypeOK, RowsAreUsed, WellFormed, ReadIsPast, RowReady, At,
     Exists, Made

LEMMA NextKeepsInv == Inv /\ [Next]_vars => Inv'
<1> SUFFICES ASSUME Inv, [Next]_vars PROVE Inv'
  OBVIOUS
<1>1. ASSUME NEW r \in Requests,
             CreateAsync(r) \/ Update(r) \/ Delete(r) \/ ChangeStatus(r)
      PROVE  Inv'
  BY <1>1, SendingKeepsInv
<1>2. ASSUME NEW r \in Requests, Step(r)
      PROVE  Inv'
  BY <1>2, FailureKeepsInv, CreateAndUpdateKeepInv, StatusChangeKeepsInv, FindStatusKeepsInv,
     CommitKeepsInv DEF Step
<1>3. CASE Evict \/ \E s \in Statuses : InsertStatus(s) \/ DeleteStatus(s)
  BY <1>3, SurroundingsKeepInv
<1>4. CASE UNCHANGED vars
  BY <1>4 DEF vars, Inv, TypeOK, RowsAreUsed, WellFormed, ReadIsPast, RowReady, At,
     Exists, Made
<1> QED BY <1>1, <1>2, <1>3, <1>4 DEF Next

LEMMA AlwaysInv == Spec => []Inv
  BY Initially, NextKeepsInv, PTL DEF Spec

\* The tables, the cached list and the requests have the types of TypeOK.
THEOREM CustomersTypeCorrect == Spec => []TypeOK
<1>1. Inv => TypeOK BY DEF Inv
<1> QED BY <1>1, AlwaysInv, PTL

\* A commit that replaces a customer's row finds the row its request has read.
LEMMA CommitIsNotBlind ==
  ASSUME Inv, NEW r \in Requests, Commit(r), NEW c \in used, customer'[c] # customer[c]
  PROVE  /\ At(r, "commit") /\ request'[r].pc = "done"
         /\ request[r].id = c /\ request[r].read = customer[c]
<1>1. At(r, "commit") /\ request'[r].pc = "done"
  BY DEF Commit, Goto, Inv, TypeOK
<1>2. c \in Customers
  BY DEF Inv, TypeOK
<1>3. request[r].op # "create"
  <2>1. ASSUME Insert(r) PROVE FALSE
    <3>1. PICK d \in Customers \ used : WriteRow(d, request[r].row, 1)
      BY <2>1 DEF Insert
    <3> QED BY <1>2, <3>1 DEF WriteRow, Inv, TypeOK
  <2> QED BY <2>1 DEF Commit
<1>4. RowIsAsRead(r) /\ request[r].id = c
  <2>1. CASE Save(r)
    BY <1>2, <2>1 DEF Save, WriteRow, Inv, TypeOK
  <2>2. CASE RemoveRow(r)
    BY <1>2, <2>2 DEF RemoveRow, Inv, TypeOK
  <2> QED BY <1>3, <2>1, <2>2 DEF Commit
<1>5. request[r].read = customer[c]
  <2>1. request[r].read.version = customer[c].version /\ Exists(c)
    BY <1>4 DEF RowIsAsRead
  <2>2. request[r].read = customer[c] \/ request[r].read.version < customer[c].version
    BY <1>1, <1>3, <1>4, <2>1 DEF Inv, ReadIsPast, At
  <2>3. customer[c].version \in Nat
    BY <1>2, <2>1 DEF Inv, TypeOK, Exists, Rows
  <2> QED BY <2>1, <2>2, <2>3
<1> QED BY <1>1, <1>4, <1>5

\* No request replaces or deletes a customer that another has changed since it
\* was read: equal versions mean equal rows, since versions only grow and a key
\* is never given again.
THEOREM CommitsAreNotBlind == Spec => NoBlindWrite
<1> DEFINE Seen ==
      \A c \in used : customer'[c] # customer[c] =>
        \E r \in Requests :
          /\ At(r, "commit") /\ request'[r].pc = "done"
          /\ request[r].id = c /\ request[r].read = customer[c]
<1>1. Inv /\ [Next]_vars => [Seen]_vars
  <2> SUFFICES ASSUME Inv, Next, NEW c \in used, customer'[c] # customer[c]
               PROVE  \E r \in Requests :
                        /\ At(r, "commit") /\ request'[r].pc = "done"
                        /\ request[r].id = c /\ request[r].read = customer[c]
    OBVIOUS
  <2>1. ASSUME NEW r \in Requests, ~Commit(r),
               CreateAsync(r) \/ Update(r) \/ Delete(r) \/ ChangeStatus(r) \/ Step(r)
        PROVE  customer' = customer
    BY <2>1 DEF CreateAsync, Update, Delete, ChangeStatus, Send, Step, Refuse, HandleCreate,
       HandleUpdate, HandleDelete, HandleStatusChange, FindStatus, CommitFails, database
  <2>2. ASSUME Evict \/ \E s \in Statuses : InsertStatus(s) \/ DeleteStatus(s)
        PROVE  customer' = customer
    BY <2>2 DEF Evict, InsertStatus, DeleteStatus, database
  <2>3. PICK r \in Requests : Commit(r)
    BY <2>1, <2>2 DEF Next
  <2> QED BY <2>3, CommitIsNotBlind
<1> QED BY <1>1, AlwaysInv, PTL DEF Spec, NoBlindWrite

(***************************************************************************)
(* The commands implement CustomerRegister                                 *)
(***************************************************************************)
\* A step of one request moves its entries in the register alone.
LEMMA EntriesOfOne ==
  ASSUME Inv, NEW r \in Requests, NEW new, request' = [request EXCEPT ![r] = new]
  PROVE  /\ request'[r] = new
         /\ Outcomes' = [Outcomes EXCEPT ![r] = Outcome(r)']
         /\ Commands' = [Commands EXCEPT ![r] = Asked(r)']
<1>1. request'[r] = new /\ \A q \in Requests \ {r} : request'[q] = request[q]
  BY DEF Inv, TypeOK
<1>2. \A q \in Requests \ {r} : Outcome(q)' = Outcome(q) /\ Asked(q)' = Asked(q)
  BY <1>1 DEF Outcome, Asked, At, Needless, Made
<1>3. Outcomes' = [Outcomes EXCEPT ![r] = Outcome(r)']
  BY <1>2 DEF Outcomes
<1>4. Commands' = [Commands EXCEPT ![r] = Asked(r)']
  BY <1>2 DEF Commands
<1> QED BY <1>1, <1>3, <1>4

\* While it asks for the same, only the outcome moves.
LEMMA OutcomeOfOne ==
  ASSUME Inv, NEW r \in Requests, NEW new, request' = [request EXCEPT ![r] = new],
         new.op = request[r].op, new.id = request[r].id,
         new.status = request[r].status, new.reference = request[r].reference
  PROVE  /\ request'[r] = new
         /\ Outcomes' = [Outcomes EXCEPT ![r] = Outcome(r)']
         /\ UNCHANGED Commands
<1>1. /\ request'[r] = new
      /\ Outcomes' = [Outcomes EXCEPT ![r] = Outcome(r)']
      /\ Commands' = [Commands EXCEPT ![r] = Asked(r)']
  BY EntriesOfOne
<1>2. Asked(r)' = Commands[r]
  BY <1>1 DEF Asked, Commands
<1>3. UNCHANGED Commands
  BY <1>1, <1>2 DEF Commands
<1> QED BY <1>1, <1>3

LEMMA SendAsks ==
  ASSUME Inv, Inv', NEW r \in Requests, NEW with, Send(r, with),
         with.pc = "sent"
  PROVE  Register!Ask(r, Asked(r)') /\ Asked(r)' \in Register!Askable
<1>1. /\ request' = [request EXCEPT ![r] = with]
      /\ UNCHANGED <<customer, used>> /\ request[r].pc = "idle"
  BY DEF Send, database, At
<1>2. /\ request'[r] = with
      /\ Outcomes' = [Outcomes EXCEPT ![r] = Outcome(r)']
      /\ Commands' = [Commands EXCEPT ![r] = Asked(r)']
  BY <1>1, EntriesOfOne
<1>3. Outcome(r)' = "asked" /\ Outcomes[r] = "none"
  BY <1>1, <1>2 DEF Outcome, Outcomes, At, Needless
<1>4. UNCHANGED Registered
  BY <1>1 DEF Registered
<1>5. Asked(r)' \in Register!Askable
  BY DEF Inv, TypeOK, Asked, Register!Askable
<1> QED BY <1>1, <1>2, <1>3, <1>4, <1>5 DEF Register!Ask, Register!Becomes

LEMMA SendingAsks ==
  ASSUME Inv, Inv', NEW r \in Requests,
         CreateAsync(r) \/ Update(r) \/ Delete(r) \/ ChangeStatus(r)
  PROVE  Register!Ask(r, Asked(r)') /\ Asked(r)' \in Register!Askable
<1> DEFINE Goal == Register!Ask(r, Asked(r)') /\ Asked(r)' \in Register!Askable
<1> HIDE DEF Goal
<1> SUFFICES Goal BY DEF Goal
<1>1. ASSUME NEW with, Send(r, with), with.pc = "sent" PROVE Goal
  BY <1>1, SendAsks DEF Goal
<1>2. ASSUME NEW ref, NEW notes,
             Send(r, [Sent("create") EXCEPT !.reference = ref, !.notes = notes])
      PROVE  Goal
  BY <1>1, <1>2 DEF Sent, NotSent
<1>3. ASSUME NEW c, NEW ref, NEW notes,
             Send(r, [Sent("update") EXCEPT !.id = c, !.reference = ref, !.notes = notes])
      PROVE  Goal
  BY <1>1, <1>3 DEF Sent, NotSent
<1>4. ASSUME NEW c, Send(r, [Sent("delete") EXCEPT !.id = c])
      PROVE  Goal
  BY <1>1, <1>4 DEF Sent, NotSent
<1>5. ASSUME NEW c, NEW s, Send(r, [Sent("status") EXCEPT !.id = c, !.status = s])
      PROVE  Goal
  BY <1>1, <1>5 DEF Sent, NotSent
<1> QED BY <1>2, <1>3, <1>4, <1>5 DEF CreateAsync, Update, Delete, ChangeStatus

\* Refusals and failed commits leave nothing.
LEMMA FailureFails ==
  ASSUME Inv, NEW r \in Requests, UNCHANGED database,
         request[r].pc \in {"sent", "status", "commit"}, Goto(r, "failed")
  PROVE  Register!Fail(r)
<1> DEFINE new == [request[r] EXCEPT !.pc = "failed"]
<1>1. /\ new.pc = "failed" /\ new.op = request[r].op /\ new.id = request[r].id
      /\ new.status = request[r].status /\ new.reference = request[r].reference
  BY DEF Inv, TypeOK
<1>2. request' = [request EXCEPT ![r] = new]
  BY DEF Goto
<1> HIDE DEF new
<1>3. /\ request'[r] = new
      /\ Outcomes' = [Outcomes EXCEPT ![r] = Outcome(r)']
      /\ UNCHANGED Commands
  BY <1>1, <1>2, OutcomeOfOne
<1>4. Outcome(r)' = "failed" /\ Outcomes[r] \in {"asked", "needless"}
  BY <1>1, <1>3 DEF Outcome, Outcomes, At
<1>5. UNCHANGED <<Registered, used>>
  BY DEF Registered, database
<1> QED BY <1>3, <1>4, <1>5 DEF Register!Fail, Register!Becomes

\* What a customer in the register is.
LEMMA RegisteredIs ==
  ASSUME Inv, NEW c \in Customers
  PROVE  /\ Registered[c] = [status |-> customer[c].status, reference |-> customer[c].reference]
         /\ Exists(c) => Registered[c] # Register!Nobody /\ customer[c] \in Rows
<1>1. Registered[c] = [status |-> customer[c].status, reference |-> customer[c].reference]
  BY DEF Registered, Unversioned
<1>2. ASSUME Exists(c)
      PROVE  Registered[c] # Register!Nobody /\ customer[c] \in Rows
  <2>1. customer[c] \in Rows
    BY <1>2 DEF Inv, TypeOK, Exists
  <2>2. customer[c].reference # "none"
    BY <2>1, ReferencesAssumption DEF Rows
  <2> QED BY <1>1, <2>1, <2>2 DEF Register!Nobody
<1> QED BY <1>1, <1>2

\* A request that reads what it would write takes effect at once.
LEMMA ReadingNeedsNoChange ==
  ASSUME Inv, NEW r \in Requests, UNCHANGED database,
         request[r].pc = "sent", request[r].op \in {"update", "status"},
         NEW c, c = request[r].id, Exists(c),
         NEW new, request' = [request EXCEPT ![r] = new],
         new.op = request[r].op, new.id = request[r].id,
         new.status = request[r].status, new.reference = request[r].reference,
         new.pc \in {"status", "commit"}, new.read = customer[c]
  PROVE  Register!NeedNoChange(r) \/ UNCHANGED Register!registerVars
<1>1. /\ request'[r] = new
      /\ Outcomes' = [Outcomes EXCEPT ![r] = Outcome(r)']
      /\ UNCHANGED Commands
  BY OutcomeOfOne
<1>2. c \in Customers
  BY DEF Inv, WellFormed
<1>3. UNCHANGED <<Registered, used>>
  BY DEF Registered, database
<1>4. Outcomes[r] = "asked"
  BY DEF Outcome, Outcomes, At, Needless
<1>5. CASE ~Needless(r)'
  <2>1. Outcome(r)' = "asked"
    BY <1>1, <1>5 DEF Outcome, At
  <2>2. UNCHANGED Outcomes
    BY <1>1, <1>4, <2>1 DEF Outcomes
  <2> QED BY <1>1, <1>3, <2>2 DEF Register!registerVars
<1>6. CASE Needless(r)'
  <2>1. Outcome(r)' = "needless"
    BY <1>1, <1>6 DEF Outcome, At
  <2>2. /\ Commands[r].op = request[r].op /\ Commands[r].id = c
        /\ Commands[r].status = request[r].status
        /\ Commands[r].reference = request[r].reference
    BY DEF Commands, Asked
  <2>3. /\ Registered[c] = [status |-> customer[c].status, reference |-> customer[c].reference]
        /\ Registered[c] # Register!Nobody /\ customer[c] \in Rows
    BY <1>2, RegisteredIs
  <2>4. customer[c] = IF request[r].op = "update"
                      THEN MapOver(customer[c], request[r].reference)
                      ELSE WithStatus(customer[c], request[r].status)
    BY <1>1, <1>6 DEF Needless, Made
  <2>5. IF request[r].op = "update"
        THEN customer[c].status = FirstStatus /\ customer[c].reference = request[r].reference
        ELSE customer[c].status = request[r].status
    BY <2>3, <2>4 DEF MapOver, WithStatus, Rows
  <2>6. Register!Changed(r) = Registered[c]
    BY <2>2, <2>3, <2>5 DEF Register!Changed, Register!Enrolled, Register!Subject
  <2> QED
    BY <1>1, <1>3, <1>4, <2>1, <2>2, <2>3, <2>6
    DEF Register!NeedNoChange, Register!Becomes, Register!Subject
<1> QED BY <1>5, <1>6

\* The handlers up to the commit take effect only where nothing is to be done.
LEMMA HandlersTakeNoEffect ==
  ASSUME Inv, NEW r \in Requests,
         HandleCreate(r) \/ HandleUpdate(r) \/ HandleDelete(r) \/ HandleStatusChange(r)
  PROVE  Register!NeedNoChange(r) \/ UNCHANGED Register!registerVars
<1> DEFINE c == request[r].id
<1>0. UNCHANGED database /\ request[r].pc = "sent"
  BY DEF HandleCreate, HandleUpdate, HandleDelete, HandleStatusChange, Op, At
<1>1. ASSUME NEW read, NEW row, ToCommit(r, read, row), request[r].op \in {"create", "delete"}
      PROVE  UNCHANGED Register!registerVars
  <2> DEFINE new == [request[r] EXCEPT !.pc = "commit", !.read = read, !.row = row]
  <2>1. /\ new.pc = "commit" /\ new.op = request[r].op /\ new.id = request[r].id
        /\ new.status = request[r].status /\ new.reference = request[r].reference
    BY DEF Inv, TypeOK
  <2>2. request' = [request EXCEPT ![r] = new]
    BY <1>1 DEF ToCommit
  <2> HIDE DEF new
  <2>3. /\ request'[r] = new
        /\ Outcomes' = [Outcomes EXCEPT ![r] = Outcome(r)']
        /\ UNCHANGED Commands
    BY <2>1, <2>2, OutcomeOfOne
  <2>4. Outcome(r)' = Outcomes[r]
    BY <1>0, <1>1, <2>1, <2>3 DEF Outcome, Outcomes, At, Needless
  <2>5. UNCHANGED Outcomes
    BY <2>3, <2>4 DEF Outcomes
  <2> QED BY <1>0, <2>3, <2>5 DEF Register!registerVars, Registered, database
<1>2. CASE HandleCreate(r) \/ HandleDelete(r)
  BY <1>1, <1>2 DEF HandleCreate, HandleDelete, Op
<1>3. CASE HandleUpdate(r)
  <2> DEFINE row == MapOver(customer[c], request[r].reference)
             new == [request[r] EXCEPT !.pc = "commit", !.read = customer[c], !.row = row]
  <2>1. /\ new.pc = "commit" /\ new.op = request[r].op /\ new.id = request[r].id
        /\ new.status = request[r].status /\ new.reference = request[r].reference
        /\ new.read = customer[c]
    BY DEF Inv, TypeOK
  <2>2. /\ request' = [request EXCEPT ![r] = new]
        /\ request[r].op = "update" /\ Exists(c)
    BY <1>3 DEF HandleUpdate, ToCommit, Op, Exists
  <2> HIDE DEF new
  <2> QED BY <1>0, <2>1, <2>2, ReadingNeedsNoChange
<1>4. CASE HandleStatusChange(r)
  <2> DEFINE new == [request[r] EXCEPT !.pc = "status", !.read = customer[c]]
  <2>1. /\ new.pc = "status" /\ new.op = request[r].op /\ new.id = request[r].id
        /\ new.status = request[r].status /\ new.reference = request[r].reference
        /\ new.read = customer[c]
    BY DEF Inv, TypeOK
  <2>2. /\ request' = [request EXCEPT ![r] = new]
        /\ request[r].op = "status" /\ Exists(c)
    BY <1>4 DEF HandleStatusChange, Op, Exists
  <2> HIDE DEF new
  <2> QED BY <1>0, <2>1, <2>2, ReadingNeedsNoChange
<1> QED BY <1>2, <1>3, <1>4

\* The look-up of a status refuses it, or leaves the rest to the commit.
LEMMA FindStatusTakesNoEffect ==
  ASSUME Inv, NEW r \in Requests, FindStatus(r)
  PROVE  Register!Fail(r) \/ UNCHANGED Register!registerVars
<1> DEFINE read == request[r].read
           row == WithStatus(read, request[r].status)
           new == [request[r] EXCEPT !.pc = "commit", !.read = read, !.row = row]
<1>1. UNCHANGED database /\ request[r].pc = "status"
  BY DEF FindStatus, At
<1>2. CASE ToCommit(r, read, row)
  <2>1. /\ new.pc = "commit" /\ new.op = request[r].op /\ new.id = request[r].id
        /\ new.status = request[r].status /\ new.reference = request[r].reference
        /\ new.read = request[r].read
    BY DEF Inv, TypeOK
  <2>2. request' = [request EXCEPT ![r] = new]
    BY <1>2 DEF ToCommit
  <2> HIDE DEF new
  <2>3. /\ request'[r] = new
        /\ Outcomes' = [Outcomes EXCEPT ![r] = Outcome(r)']
        /\ UNCHANGED Commands
    BY <2>1, <2>2, OutcomeOfOne
  <2>4. Outcome(r)' = Outcomes[r]
    BY <1>1, <2>1, <2>3 DEF Outcome, Outcomes, At, Needless, Made
  <2>5. UNCHANGED Outcomes
    BY <2>3, <2>4 DEF Outcomes
  <2> QED BY <1>1, <2>3, <2>5 DEF Register!registerVars, Registered, database
<1>3. CASE Goto(r, "failed")
  BY <1>1, <1>3, FailureFails
<1> QED BY <1>2, <1>3 DEF FindStatus

\* A commit finds the row its request has read, and takes effect on it.
LEMMA CommitTakesEffect ==
  ASSUME Inv, NEW r \in Requests, Commit(r)
  PROVE  \/ \E c \in Customers : Register!Enrol(r, c)
         \/ Register!Change(r) \/ Register!Conclude(r) \/ Register!Remove(r)
<1> DEFINE id == request[r].id
           new == [request[r] EXCEPT !.pc = "done"]
<1>1. /\ new.pc = "done" /\ new.op = request[r].op /\ new.id = id
      /\ new.status = request[r].status /\ new.reference = request[r].reference
  BY DEF Inv, TypeOK
<1>2. request' = [request EXCEPT ![r] = new] /\ request[r].pc = "commit"
  BY DEF Commit, Goto, At
<1> HIDE DEF new
<1>3. /\ request'[r] = new
      /\ Outcomes' = [Outcomes EXCEPT ![r] = Outcome(r)']
      /\ UNCHANGED Commands
  BY <1>1, <1>2, OutcomeOfOne
<1>4. Outcomes' = [Outcomes EXCEPT ![r] = "done"]
  BY <1>1, <1>3 DEF Outcome, At
<1>5. /\ Commands[r].op = request[r].op /\ Commands[r].id = id
      /\ Commands[r].status = request[r].status
      /\ Commands[r].reference = request[r].reference
  BY DEF Commands, Asked
<1>6. Outcomes[r] = IF Needless(r) THEN "needless" ELSE "asked"
  BY <1>2 DEF Outcomes, Outcome, At
<1>7. ASSUME NEW c \in Customers, NEW row, customer' = [customer EXCEPT ![c] = row]
      PROVE  Registered' = [Registered EXCEPT ![c] = Unversioned(row)]
  BY <1>7 DEF Registered, Inv, TypeOK
<1>8. CASE request[r].op = "create" /\ Insert(r)
  <2> DEFINE row == [request[r].row EXCEPT !.version = 1]
  <2>1. PICK c \in Customers \ used :
          customer' = [customer EXCEPT ![c] = row] /\ used' = used \union {c}
    BY <1>8 DEF Insert, WriteRow
  <2>2. /\ request[r].row \in Rows /\ request[r].row.status = FirstStatus
        /\ request[r].row.reference = request[r].reference
    BY <1>2, <1>8 DEF Inv, RowReady, At
  <2>3. row.status = FirstStatus /\ row.reference = request[r].reference
    BY <2>2 DEF Rows
  <2> HIDE DEF row
  <2>4. Registered' = [Registered EXCEPT ![c] = Unversioned(row)]
    BY <1>7, <2>1
  <2>5. Unversioned(row) = Register!Enrolled(r)
    BY <1>5, <2>3 DEF Unversioned, Register!Enrolled
  <2>6. Outcomes[r] = "asked"
    BY <1>6, <1>8 DEF Needless
  <2>7. Register!Enrol(r, c)
    BY <1>3, <1>4, <1>5, <1>8, <2>1, <2>4, <2>5, <2>6 DEF Register!Enrol, Register!Becomes
  <2> QED BY <2>7
<1>9. ASSUME request[r].op # "create"
      PROVE  id \in Customers /\ id \in used
  BY <1>2, <1>9 DEF Inv, ReadIsPast, TypeOK
<1>10. ASSUME request[r].op # "create", RowIsAsRead(r)
       PROVE  /\ Exists(id) /\ customer[id] = request[r].read
              /\ customer[id] \in Rows
              /\ Register!Subject(r) = Unversioned(customer[id])
              /\ Register!Subject(r) # Register!Nobody
  <2>1. Exists(id) /\ request[r].read.version = customer[id].version
    BY <1>10 DEF RowIsAsRead
  <2>2. request[r].read = customer[id] \/ request[r].read.version < customer[id].version
    BY <1>2, <1>10, <2>1 DEF Inv, ReadIsPast
  <2>3. /\ customer[id] \in Rows
        /\ Registered[id] = Unversioned(customer[id]) /\ Registered[id] # Register!Nobody
    BY <1>9, <1>10, <2>1, RegisteredIs DEF Unversioned
  <2>4. customer[id].version \in Nat
    BY <2>3 DEF Rows
  <2> QED BY <1>5, <2>1, <2>2, <2>3, <2>4 DEF Register!Subject
<1>11. CASE request[r].op = "delete" /\ RemoveRow(r)
  <2>1. /\ customer' = [customer EXCEPT ![id] = NoRow] /\ used' = used /\ RowIsAsRead(r)
    BY <1>11 DEF RemoveRow
  <2>2. Registered' = [Registered EXCEPT ![id] = Register!Nobody]
    BY <1>7, <1>9, <1>11, <2>1 DEF Unversioned, NoRow, Register!Nobody
  <2>3. Outcomes[r] = "asked"
    BY <1>6, <1>11 DEF Needless
  <2>4. Register!Subject(r) # Register!Nobody
    BY <1>10, <1>11, <2>1
  <2> QED
    BY <1>3, <1>4, <1>5, <1>11, <2>1, <2>2, <2>3, <2>4 DEF Register!Remove, Register!Becomes
<1>12. ASSUME request[r].op \in {"update", "status"}
       PROVE  request[r].row = Made(r) /\ request[r].row \in Rows /\ used' = used
  BY <1>2, <1>8, <1>12 DEF Inv, RowReady, At, Commit, Save
<1>13. CASE request[r].op \in {"update", "status"} /\ UNCHANGED customer
            /\ request[r].row = request[r].read
  <2>1. Needless(r)
    BY <1>2, <1>12, <1>13 DEF Needless
  <2>2. UNCHANGED Registered
    BY <1>13 DEF Registered
  <2> QED
    BY <1>3, <1>4, <1>6, <1>12, <1>13, <2>1, <2>2 DEF Register!Conclude, Register!Becomes
<1>14. CASE /\ request[r].op \in {"update", "status"} /\ RowIsAsRead(r)
            /\ WriteRow(id, request[r].row, customer[id].version + 1)
  <2> DEFINE row == [request[r].row EXCEPT !.version = customer[id].version + 1]
  <2>1. /\ row.status = request[r].row.status /\ row.reference = request[r].row.reference
        /\ customer' = [customer EXCEPT ![id] = row]
    BY <1>12, <1>14 DEF Rows, WriteRow
  <2> HIDE DEF row
  <2>2. Registered' = [Registered EXCEPT ![id] = Unversioned(request[r].row)]
    BY <1>7, <1>9, <1>14, <2>1 DEF Unversioned
  <2>3. /\ customer[id] = request[r].read /\ customer[id] \in Rows
        /\ Register!Subject(r) = Unversioned(customer[id])
        /\ Register!Subject(r) # Register!Nobody
    BY <1>10, <1>14
  <2>4. Unversioned(request[r].row) = Register!Changed(r)
    <3>1. CASE request[r].op = "update"
      <4>1. request[r].row = MapOver(customer[id], request[r].reference)
        BY <1>12, <2>3, <3>1 DEF Made
      <4>2. /\ request[r].row.status = FirstStatus
            /\ request[r].row.reference = request[r].reference
        BY <2>3, <4>1 DEF MapOver, Rows
      <4> QED BY <1>5, <3>1, <4>2 DEF Unversioned, Register!Changed, Register!Enrolled
    <3>2. CASE request[r].op = "status"
      <4>1. request[r].row = WithStatus(customer[id], request[r].status)
        BY <1>12, <2>3, <3>2 DEF Made
      <4>2. /\ request[r].row.status = request[r].status
            /\ request[r].row.reference = customer[id].reference
        BY <2>3, <4>1 DEF WithStatus, Rows
      <4> QED BY <1>5, <2>3, <3>2, <4>2 DEF Unversioned, Register!Changed
    <3> QED BY <1>14, <3>1, <3>2
  <2>5. CASE Needless(r)
    <3>1. Unversioned(request[r].row) = Registered[id]
      BY <1>12, <1>14, <1>5, <2>3, <2>5 DEF Needless, Register!Subject
    <3>2. UNCHANGED Registered
      BY <2>2, <3>1 DEF Registered
    <3> QED
      BY <1>3, <1>4, <1>6, <1>12, <1>14, <2>5, <3>2 DEF Register!Conclude, Register!Becomes
  <2>6. CASE ~Needless(r)
    BY <1>3, <1>4, <1>5, <1>6, <1>12, <1>14, <2>2, <2>3, <2>4, <2>6
    DEF Register!Change, Register!Becomes
  <2> QED BY <2>5, <2>6
<1> QED BY <1>8, <1>11, <1>13, <1>14 DEF Commit, Save

\* Every command takes effect at one moment on the customer as it then is, or not
\* at all, for every number of requests whose queries, look-ups and commits
\* overlap: the commands implement the register.
THEOREM CommandsImplementRegister == Spec => CommandsAreAtomic
<1>1. Init => Register!RegisterInit
  <2> SUFFICES ASSUME Init PROVE Register!RegisterInit
    OBVIOUS
  <2>1. Registered = [c \in Customers |-> Register!Nobody] /\ used = {}
    BY DEF Init, Registered, Unversioned, NoRow, Register!Nobody
  <2>2. \A r \in Requests : Asked(r) \in Register!Askable /\ Outcome(r) = "none"
    BY FirstStatusAssumption DEF Init, Asked, Outcome, At, NotSent, Register!Askable
  <2> QED BY <2>1, <2>2 DEF Register!RegisterInit, Commands, Outcomes
<1>2. Inv /\ Inv' /\ [Next]_vars => [Register!RegisterNext]_Register!registerVars
  <2> SUFFICES ASSUME Inv, Inv', [Next]_vars
               PROVE  Register!RegisterNext \/ UNCHANGED Register!registerVars
    OBVIOUS
  <2>1. ASSUME NEW r \in Requests,
               CreateAsync(r) \/ Update(r) \/ Delete(r) \/ ChangeStatus(r)
        PROVE  Register!RegisterNext
    BY <2>1, SendingAsks DEF Register!RegisterNext
  <2>2. ASSUME NEW r \in Requests, Refuse(r) \/ CommitFails(r)
        PROVE  Register!RegisterNext
    <3>1. /\ UNCHANGED database /\ Goto(r, "failed")
          /\ request[r].pc \in {"sent", "status", "commit"}
      BY <2>2 DEF Refuse, CommitFails, At
    <3> QED BY <3>1, FailureFails DEF Register!RegisterNext
  <2>3. ASSUME NEW r \in Requests,
               HandleCreate(r) \/ HandleUpdate(r) \/ HandleDelete(r) \/ HandleStatusChange(r)
        PROVE  Register!RegisterNext \/ UNCHANGED Register!registerVars
    BY <2>3, HandlersTakeNoEffect DEF Register!RegisterNext
  <2>4. ASSUME NEW r \in Requests, FindStatus(r)
        PROVE  Register!RegisterNext \/ UNCHANGED Register!registerVars
    BY <2>4, FindStatusTakesNoEffect DEF Register!RegisterNext
  <2>5. ASSUME NEW r \in Requests, Commit(r)
        PROVE  Register!RegisterNext
    BY <2>5, CommitTakesEffect DEF Register!RegisterNext
  <2>6. ASSUME UNCHANGED <<customer, used, request>>
        PROVE  UNCHANGED Register!registerVars
    BY <2>6 DEF Register!registerVars, Registered, Commands, Outcomes, Asked, Outcome,
       Needless, Made, At
  <2>7. CASE Evict \/ \E s \in Statuses : InsertStatus(s) \/ DeleteStatus(s)
    BY <2>6, <2>7 DEF Evict, InsertStatus, DeleteStatus, database
  <2>8. CASE UNCHANGED vars
    BY <2>6, <2>8 DEF vars
  <2> QED BY <2>1, <2>2, <2>3, <2>4, <2>5, <2>7, <2>8 DEF Next, Step
<1> QED BY <1>1, <1>2, AlwaysInv, PTL DEF Spec, CommandsAreAtomic, Register!RegisterSpec
(***************************************************************************)
(* The look-ups                                                            *)
(***************************************************************************)
Records == [pc : Pcs, value : Values \union {NoValue},
            list : Lists \union {NoList}, again : BOOLEAN, result : 0..MaxKey]

\* A call looks for a value, in a list once it has one.
InHand(c) ==
  /\ call[c].pc \in {"get", "load", "store", "find", "remove"} => call[c].value \in Values
  /\ call[c].pc \in {"store", "find"} => call[c].list \in Lists

\* The value of a certain call is in the table and in the lists on their way.
Findable(c) ==
  LET v == call[c].value IN
    /\ call[c].pc # "idle"
    /\ v \in Values
    /\ rows[v] # Default
    /\ \A d \in Resolvers : CallAt(d, "store") => call[d].list[v] # Default

\* Once it has removed the cached list, it is in every list that takes its
\* place; and it is found.  (Looked up in NoList it is -1, not Default.)
Healed(c) ==
  LET v == call[c].value IN
    /\ call[c].again => entry[v] # Default
    /\ call[c].again /\ CallAt(c, "find") => call[c].list[v] # Default
    /\ CallAt(c, "return") => call[c].result # Default

LookupInv ==
  /\ LookupTypeOK
  /\ \A c \in Resolvers : InHand(c)
  /\ \A c \in certain : Findable(c) /\ Healed(c)

LEMMA TypesOfLists ==
  /\ Default \in 0..MaxKey
  /\ \A v \in Values : NoList[v] # Default
  /\ \A list \in Lists, v \in Values : list[v] \in 0..MaxKey
  /\ \A r \in Records : r.value \in Values \union {NoValue} /\ r.pc \in Pcs
  BY MaxKeyAssumption DEF Default, NoList, Lists, Records

\* The initial table and cache are empty, and no call is under way.
LEMMA LookupInitially == LookupInit => LookupInv
  BY MaxKeyAssumption, TypesOfLists
  DEF LookupInit, LookupInv, LookupTypeOK, InHand, Idle, Lists,
    NoList, Pcs, Default

\* A step of one call that leaves the table alone, and puts nothing into the
\* cache that a certain call would not find: what the call becomes decides.
LEMMA OneCall ==
  ASSUME LookupInv, UNCHANGED <<rows, lastKey>>,
         entry' \in Lists \union {NoList},
         entry' = entry \/ \A d \in certain : entry'[call[d].value] # Default,
         NEW c \in Resolvers, NEW new \in Records, call' = [call EXCEPT ![c] = new],
         InHand(c)',
         new.pc = "store" => new.list = rows,
         certain' \subseteq certain \union {c},
         c \in certain' => Findable(c)' /\ Healed(c)'
  PROVE  LookupInv'
<1>1. /\ \A d \in Resolvers \ {c} : call'[d] = call[d]
      /\ call'[c] = new
  BY DEF LookupInv, LookupTypeOK
<1>2. LookupTypeOK'
  BY DEF LookupInv, LookupTypeOK, Records
<1>3. \A d \in Resolvers : InHand(d)'
  BY <1>1 DEF LookupInv, InHand
<1>4. ASSUME NEW d \in certain', d # c
      PROVE  (Findable(d) /\ Healed(d))'
  <2>1. d \in certain /\ d \in Resolvers
    BY <1>4 DEF LookupInv, LookupTypeOK
  <2>2. call'[d] = call[d]
    BY <1>1, <1>4, <2>1
  <2>3. Healed(d)'
    BY <2>1, <2>2 DEF LookupInv, Healed, CallAt
  <2>4. Findable(d)'
    BY <1>1, <2>1, <2>2 DEF LookupInv, Findable, CallAt
  <2> QED BY <2>3, <2>4
<1> QED BY <1>2, <1>3, <1>4 DEF LookupInv

\* A call begins: it may count on a value that Certain says is everywhere.
LEMMA ResolveKeepsInv ==
  ASSUME LookupInv, NEW c \in Resolvers, NEW v \in Values, Resolve(c, v)
  PROVE  LookupInv'
<1> DEFINE new == [Idle EXCEPT !.pc = "get", !.value = v]
<1>1. /\ call[c].pc = "idle" /\ call' = [call EXCEPT ![c] = new]
      /\ UNCHANGED <<rows, lastKey, entry>>
      /\ certain' = IF Certain(v) THEN certain \union {c} ELSE certain
  BY DEF Resolve, CallAt
<1>2. /\ new \in Records /\ new.pc = "get" /\ new.value = v /\ new.again = FALSE
  BY TypesOfLists DEF LookupInv, Idle, Records, Pcs
<1> HIDE DEF new
<1>3. call'[c] = new /\ \A d \in Resolvers \ {c} : call'[d] = call[d]
  BY <1>1 DEF LookupInv, LookupTypeOK
<1>4. c \notin certain
  BY <1>1 DEF LookupInv, Findable
<1>5. ASSUME c \in certain' PROVE Findable(c)' /\ Healed(c)'
  <2>1. Certain(v)
    BY <1>1, <1>4, <1>5
  <2>2. Findable(c)'
    BY <1>1, <1>2, <1>3, <2>1 DEF Findable, Certain, CallAt
  <2>3. Healed(c)'
    BY <1>2, <1>3 DEF Healed, CallAt
  <2> QED BY <2>2, <2>3
<1>6. InHand(c)'
  BY <1>2, <1>3 DEF InHand
<1> QED BY <1>1, <1>2, <1>5, <1>6, OneCall DEF LookupInv, LookupTypeOK

\* A new list in hand is the cached one, or the table.
LEMMA LookingKeepsInv ==
  ASSUME LookupInv, NEW c \in Resolvers,
         Hit(c) \/ Absent(c) \/ GetDictionaryToCache(c)
  PROVE  LookupInv'
<1>1. PICK pc \in {"load", "store", "find"}, list \in Lists \union {NoList} :
        /\ call' = [call EXCEPT ![c] = [call[c] EXCEPT !.pc = pc, !.list = list]]
        /\ pc = "store" => list = rows
        /\ pc = "find" => list = entry
        /\ pc \in {"store", "find"} => list \in Lists
  <2>1. CASE Hit(c)
    BY <2>1 DEF Hit, CallGotoWith, LookupInv, LookupTypeOK
  <2>2. CASE Absent(c)
    <3>1. call' = [call EXCEPT ![c] = [call[c] EXCEPT !.pc = "load", !.list = call[c].list]]
      BY <2>2 DEF Absent, CallGoto, LookupInv, LookupTypeOK
    <3>2. call[c].list \in Lists \union {NoList}
      BY DEF LookupInv, LookupTypeOK
    <3> QED BY <3>1, <3>2
  <2>3. CASE GetDictionaryToCache(c)
    BY <2>3 DEF GetDictionaryToCache, CallGotoWith, LookupInv, LookupTypeOK
  <2> QED BY <2>1, <2>2, <2>3
<1> DEFINE new == [call[c] EXCEPT !.pc = pc, !.list = list]
<1>2. /\ UNCHANGED <<rows, lastKey, entry, certain>>
      /\ call[c].pc \in {"get", "load"}
  BY DEF Hit, Absent, GetDictionaryToCache, CallAt
<1>3. /\ new \in Records /\ new.pc = pc /\ new.list = list
      /\ new.value = call[c].value /\ new.again = call[c].again
  BY DEF LookupInv, LookupTypeOK, Records, Pcs
<1> HIDE DEF new
<1>4. call'[c] = new /\ \A d \in Resolvers \ {c} : call'[d] = call[d]
  BY <1>1 DEF new, LookupInv, LookupTypeOK
<1>5. InHand(c)'
  BY <1>1, <1>2, <1>3, <1>4 DEF InHand, LookupInv
<1>6. ASSUME c \in certain PROVE Findable(c)' /\ Healed(c)'
  <2>1. Findable(c)'
    BY <1>1, <1>2, <1>3, <1>4, <1>6 DEF LookupInv, Findable, CallAt
  <2>2. Healed(c)'
    BY <1>1, <1>2, <1>3, <1>4, <1>6 DEF LookupInv, Healed, CallAt
  <2> QED BY <2>1, <2>2
<1> QED BY <1>1, <1>2, <1>3, <1>5, <1>6, OneCall DEF new, LookupInv, LookupTypeOK

\* A list that is stored was loaded after the rows certain calls look for were
\* inserted; a list stored meanwhile too.
LEMMA StoreKeepsInv ==
  ASSUME LookupInv, NEW c \in Resolvers, Store(c)
  PROVE  LookupInv'
<1> DEFINE new == [call[c] EXCEPT !.pc = "find", !.list = entry']
<1>1. /\ call[c].pc = "store" /\ call[c].list \in Lists
      /\ UNCHANGED <<rows, lastKey, certain>>
  BY DEF Store, CallAt, LookupInv, InHand
<1>2. /\ call' = [call EXCEPT ![c] = new]
      /\ entry' \in Lists
      /\ entry' = call[c].list \/ entry' = entry
  <2>1. CASE entry' = call[c].list /\ CallGoto(c, "find")
    <3>1. call[c].list = [call[c] EXCEPT !.pc = "find"].list
      BY DEF LookupInv, LookupTypeOK
    <3>2. [call[c] EXCEPT !.pc = "find"] = new
      BY <2>1 DEF LookupInv, LookupTypeOK
    <3> QED BY <1>1, <2>1, <3>2 DEF CallGoto
  <2>2. CASE entry # NoList /\ CallGotoWith(c, "find", entry) /\ entry' = entry
    BY <2>2 DEF CallGotoWith, LookupInv, LookupTypeOK
  <2> QED BY <2>1, <2>2 DEF Store
<1>3. /\ new \in Records /\ new.pc = "find" /\ new.list = entry'
      /\ new.value = call[c].value /\ new.again = call[c].again
  BY <1>2 DEF LookupInv, LookupTypeOK, Records, Pcs
<1> HIDE DEF new
<1>4. call'[c] = new /\ \A d \in Resolvers \ {c} : call'[d] = call[d]
  BY <1>2 DEF LookupInv, LookupTypeOK
<1>5. \A d \in certain : call[c].list[call[d].value] # Default
  BY <1>1 DEF LookupInv, Findable, CallAt
<1>6. InHand(c)'
  BY <1>1, <1>2, <1>3, <1>4 DEF InHand, LookupInv
<1>7. ASSUME c \in certain PROVE Findable(c)' /\ Healed(c)'
  <2>1. Findable(c)'
    BY <1>1, <1>3, <1>4, <1>7 DEF LookupInv, Findable, CallAt
  <2>2. Healed(c)'
    BY <1>1, <1>2, <1>3, <1>4, <1>5, <1>7 DEF LookupInv, Healed, CallAt
  <2> QED BY <2>1, <2>2
<1> QED BY <1>1, <1>2, <1>3, <1>5, <1>6, <1>7, OneCall

\* The first look may miss; the second does not.
LEMMA GetLookupValueKeepsInv ==
  ASSUME LookupInv, NEW c \in Resolvers, GetLookupValue(c)
  PROVE  LookupInv'
<1>1. /\ call[c].pc = "find" /\ call[c].list \in Lists /\ call[c].value \in Values
      /\ UNCHANGED <<rows, lastKey, entry, certain>>
  BY DEF GetLookupValue, CallAt, LookupInv, InHand
<1>2. call[c].list[call[c].value] \in 0..MaxKey
  BY <1>1, TypesOfLists DEF LookupInv
<1>3. PICK key \in 0..MaxKey, pc \in {"return", "remove"} :
        /\ call' = [call EXCEPT ![c] = [call[c] EXCEPT !.result = key, !.pc = pc]]
        /\ key = call[c].list[call[c].value]
        /\ pc = "return" => key # Default \/ call[c].again
  BY <1>2 DEF GetLookupValue, KeyOf, OnMiss
<1> DEFINE new == [call[c] EXCEPT !.result = key, !.pc = pc]
<1>4. /\ new \in Records /\ new.pc = pc /\ new.result = key
      /\ new.value = call[c].value /\ new.again = call[c].again
  BY DEF LookupInv, LookupTypeOK, Records, Pcs
<1> HIDE DEF new
<1>5. call'[c] = new /\ \A d \in Resolvers \ {c} : call'[d] = call[d]
  BY <1>3 DEF new, LookupInv, LookupTypeOK
<1>6. InHand(c)'
  BY <1>1, <1>4, <1>5 DEF InHand
<1>7. ASSUME c \in certain PROVE Findable(c)' /\ Healed(c)'
  <2>1. Findable(c)'
    BY <1>1, <1>4, <1>5, <1>7 DEF LookupInv, Findable, CallAt
  <2>2. call[c].again => key # Default
    BY <1>1, <1>3, <1>7 DEF LookupInv, Healed, CallAt
  <2>3. Healed(c)'
    BY <1>1, <1>3, <1>4, <1>5, <1>7, <2>2 DEF LookupInv, Healed, CallAt
  <2> QED BY <2>1, <2>3
<1> QED BY <1>1, <1>3, <1>4, <1>6, <1>7, OneCall DEF new, LookupInv, LookupTypeOK

\* From its own removal on, a certain call trusts every list.
LEMMA LookupRemoveKeepsInv ==
  ASSUME LookupInv, NEW c \in Resolvers, Remove(c)
  PROVE  LookupInv'
<1> DEFINE new == [call[c] EXCEPT !.pc = "get", !.again = TRUE]
<1>1. /\ call[c].pc = "remove" /\ call' = [call EXCEPT ![c] = new]
      /\ entry' = NoList
      /\ UNCHANGED <<rows, lastKey, certain>>
  BY DEF Remove, AfterRemove, CallAt
<1>2. /\ new \in Records /\ new.pc = "get" /\ new.value = call[c].value
  BY DEF LookupInv, LookupTypeOK, Records, Pcs
<1> HIDE DEF new
<1>3. call'[c] = new
  BY <1>1 DEF LookupInv, LookupTypeOK
<1>4. \A d \in certain : entry'[call[d].value] # Default
  BY <1>1, TypesOfLists DEF LookupInv, Findable
<1>5. InHand(c)'
  BY <1>1, <1>2, <1>3 DEF InHand, LookupInv
<1>6. ASSUME c \in certain PROVE Findable(c)' /\ Healed(c)'
  <2>1. Findable(c)'
    <3>1. \A d \in Resolvers \ {c} : call'[d] = call[d]
      BY <1>1 DEF LookupInv, LookupTypeOK
    <3> QED BY <1>1, <1>2, <1>3, <1>6, <3>1 DEF LookupInv, Findable, CallAt
  <2>2. Healed(c)'
    BY <1>1, <1>2, <1>3, <1>4, <1>6 DEF LookupInv, Healed, CallAt
  <2> QED BY <2>1, <2>2
<1> QED BY <1>1, <1>2, <1>4, <1>5, <1>6, OneCall

\* A call for nothing, and a call that ends, are certain of nothing.
LEMMA EndsKeepInv ==
  ASSUME LookupInv, NEW c \in Resolvers, ResolveNothing(c) \/ Return(c)
  PROVE  LookupInv'
<1>1. PICK new \in Records :
        /\ call' = [call EXCEPT ![c] = new]
        /\ new.pc \in {"idle", "return"}
  <2>1. CASE ResolveNothing(c)
    <3>1. [call[c] EXCEPT !.pc = "return"] \in Records
      BY DEF LookupInv, LookupTypeOK, Records, Pcs
    <3>2. [call[c] EXCEPT !.pc = "return"].pc = "return"
      BY DEF LookupInv, LookupTypeOK
    <3> QED BY <2>1, <3>1, <3>2 DEF ResolveNothing, CallGoto
  <2>2. CASE Return(c)
    BY <2>2, TypesOfLists DEF LookupInv, Return, Idle, Records, Pcs
  <2> QED BY <2>1, <2>2
<1>2. /\ UNCHANGED <<rows, lastKey, entry>>
      /\ certain' \subseteq certain /\ c \notin certain'
  BY DEF ResolveNothing, Return, CallAt, LookupInv, Findable
<1>3. InHand(c)'
  BY <1>1 DEF InHand, LookupInv, LookupTypeOK
<1> QED BY <1>1, <1>2, <1>3, OneCall DEF LookupInv, LookupTypeOK

LEMMA ExpireKeepsInv ==
  ASSUME LookupInv, Expire
  PROVE  LookupInv'
<1>1. /\ entry' = NoList /\ UNCHANGED <<rows, lastKey, call, certain>>
  BY DEF Expire
<1>2. \A c \in certain : entry'[call[c].value] # Default
  BY <1>1, TypesOfLists DEF LookupInv, Findable
<1> QED BY <1>1, <1>2 DEF LookupInv, LookupTypeOK, InHand, Findable, Healed, CallAt

\* A row that is inserted has a key; one that goes takes its calls with it.
LEMMA TableKeepsInv ==
  ASSUME LookupInv, NEW v \in Values, InsertRow(v) \/ DeleteRow(v)
  PROVE  LookupInv'
<1>1. PICK key \in 0..MaxKey :
        /\ rows' = [rows EXCEPT ![v] = key]
        /\ lastKey' \in 0..MaxKey
        /\ certain' \subseteq certain
        /\ key # Default \/ \A c \in certain' : call[c].value # v
        /\ UNCHANGED <<entry, call>>
  <2>1. CASE InsertRow(v)
    <3>1. lastKey' \in 0..MaxKey /\ lastKey' # Default
      BY <2>1, MaxKeyAssumption DEF InsertRow, LookupInv, LookupTypeOK, Default
    <3> QED BY <2>1, <3>1 DEF InsertRow
  <2>2. CASE DeleteRow(v)
    BY <2>2, TypesOfLists DEF DeleteRow, LookupInv, LookupTypeOK
  <2> QED BY <2>1, <2>2
<1>2. LookupTypeOK'
  BY <1>1 DEF LookupInv, LookupTypeOK, Lists
<1>3. \A c \in certain' : rows'[call[c].value] # Default
  BY <1>1 DEF LookupInv, LookupTypeOK, Lists, Findable
<1> QED BY <1>1, <1>2, <1>3 DEF LookupInv, InHand, Findable, Healed, CallAt

LEMMA LookupNextKeepsInv == LookupInv /\ [LookupNext]_lookupVars => LookupInv'
<1> SUFFICES ASSUME LookupInv, [LookupNext]_lookupVars PROVE LookupInv'
  OBVIOUS
<1>1. ASSUME NEW c \in Resolvers, NEW v \in Values, Resolve(c, v)
      PROVE  LookupInv'
  BY <1>1, ResolveKeepsInv
<1>2. ASSUME NEW c \in Resolvers, ResolveNothing(c) \/ ResolveStep(c)
      PROVE  LookupInv'
  BY <1>2, LookingKeepsInv, StoreKeepsInv, GetLookupValueKeepsInv, LookupRemoveKeepsInv,
     EndsKeepInv DEF ResolveStep
<1>3. ASSUME NEW v \in Values, InsertRow(v) \/ DeleteRow(v)
      PROVE  LookupInv'
  BY <1>3, TableKeepsInv
<1>4. CASE UNCHANGED lookupVars
  BY <1>4 DEF lookupVars, LookupInv, LookupTypeOK, InHand, Findable, Healed, CallAt
<1> QED BY <1>1, <1>2, <1>3, <1>4, ExpireKeepsInv DEF LookupNext

LEMMA LookupAlwaysInv == LookupSpec => []LookupInv
<1>1. LookupInit => LookupInv BY LookupInitially
<1> QED BY <1>1, LookupNextKeepsInv, PTL DEF LookupSpec

\* The table, the cache entry and the calls have the types of LookupTypeOK.
THEOREM LookupTypeCorrect == LookupSpec => []LookupTypeOK
<1>1. LookupInv => LookupTypeOK BY DEF LookupInv
<1> QED BY <1>1, LookupAlwaysInv, PTL

\* However many calls overlap and share the cache, a value that stays in the
\* table during a call, and was in no older list on its way, is found by it.
THEOREM SecondLookHeals == LookupSpec => []HealingFinds
<1>1. LookupInv => HealingFinds
  BY DEF LookupInv, HealingFinds, Healed, Missed
<1> QED BY <1>1, LookupAlwaysInv, PTL

===========================================================================
