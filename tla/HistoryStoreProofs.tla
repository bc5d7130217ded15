--------------------------- MODULE HistoryStoreProofs ---------------------------
(***************************************************************************)
(* Theorems about the transactional store, for every set of processes, jobs*)
(* and objects.  TablesAgree alone is not inductive: what COMMIT makes     *)
(* durable is the open transaction, so the invariant also says what the    *)
(* transaction holds at each persistence boundary (Staged), that only the  *)
(* holder of the lock is inside one (OneWriter), and that what was decided *)
(* at validation still holds when the commit is durable (Decided): nothing *)
(* can change under the lock.                                              *)
(***************************************************************************)
EXTENDS HistoryStore, TLAPS

USE HistoryAssumption, NobodyAssumption

-----------------------------------------------------------------------------
\* The abstract history of the committed tables: what is proved of it is proved of them.

P == INSTANCE AcceptedHistoryProofs WITH log <- db.commits, acks <- acks

\* The facts of the abstract history are those of the store.
LEMMA SameFactRecords == P!Fact = Fact
  BY Zenon DEF P!Fact, Fact, P!StatesOf, StatesOf, P!Flags, Flags, P!Edges, Edges,
               P!Aggregates, Aggregates

\* The assumption of the instance is that of the store.
LEMMA SameAssumption == P!HistoryAssumption
  BY SameFactRecords DEF P!HistoryAssumption, HistoryAssumption, P!JobDetail, JobDetail,
     P!ObjShape, ObjShape, P!Kinds, Kinds, P!Classes, Classes

\* What a commit is made of is of its type, as it is in the abstract history.
LEMMA CommitOfTyped ==
    ASSUME NEW r \in Request, NEW h \in AcceptedHead
    PROVE  CommitOf(r, h) \in CommitType
<1>1. P!Request = Request /\ P!AcceptedHead = AcceptedHead /\ P!CommitType = CommitType
  BY SameFactRecords, Zenon
     DEF P!Request, Request, P!AcceptedHead, AcceptedHead, P!CommitType, CommitType,
         P!EnvelopeType, EnvelopeType, P!RowType, RowType, P!Cut, Cut, P!Kinds, Kinds,
         P!ForeignCut, ForeignCut, P!NoCut, NoCut
<1>2. P!CommitOf(r, h) = CommitOf(r, h)
  BY Zenon DEF P!CommitOf, CommitOf, P!Rows, Rows, P!CutOf, CutOf, P!ClaimedCut, ClaimedCut,
               P!ForeignCut, ForeignCut, P!NoCut, NoCut, P!Envelope, Envelope
<1> QED BY <1>1, <1>2, SameAssumption, P!CommitOfTyped, Zenon

-----------------------------------------------------------------------------

NewCommit(p) == CommitOf(req[p], db.head)

\* The tables the transaction of request r must show at the boundary at.
TablesAt(at, r, d) ==
    LET c == CommitOf(r, d.head) IN
    [objects  |-> IF at \in {"begun", "valid"} THEN d.objects
                  ELSE d.objects \cup Rows(r),
     commits  |-> IF at \in {"begun", "valid", "objects"} THEN d.commits
                  ELSE Append(d.commits, c),
     receipts |-> IF at \in {"receipt", "head"}
                  THEN d.receipts \cup {Receipt(c)} ELSE d.receipts,
     head     |-> IF at = "head" THEN c.hash ELSE d.head]

\* What validation decides about a request, against the tables d.
MayCommit(r, d) ==
    /\ \A e \in d.receipts : e.command.id # Envelope(r).id
    /\ Admissible(r, d.head, d.commits, d.objects)

Requested == \A p \in Process : pc[p] # "idle" => req[p] \in Request
OneWriter == \A p \in Process : lock = p <=> pc[p] \in InTransaction
Staged    == \A p \in Process : pc[p] \in InTransaction => txn = TablesAt(pc[p], req[p], db)
Decided   == \A p \in Process :
                 pc[p] \in InTransaction \ {"begun"} => MayCommit(req[p], db)
Durable   == \A p \in Process : pc[p] = "durable" =>
                 Receipt(CommitOf(req[p], req[p].parent)) \in db.receipts

IInv == TypeOK /\ TablesAgree /\ Requested /\ OneWriter /\ Staged /\ Decided /\ Durable

\* The empty database with idle processes satisfies the invariant.
LEMMA InitIInv == Init => IInv
<1> SUFFICES ASSUME Init PROVE IInv
  OBVIOUS
<1>1. EmptyTables \in Tables
  BY DEF EmptyTables, Tables, EMPTY_HISTORY, AcceptedHead
<1>2. TypeOK
  BY <1>1 DEF Init, TypeOK
<1>3. TablesAgree
  BY DEF Init, TablesAgree, EmptyTables, HeadOf, RowsOf
<1>4. Requested /\ OneWriter /\ Staged /\ Decided /\ Durable
  BY DEF Init, Requested, OneWriter, Staged, Decided, Durable, InTransaction
<1>5. QED
  BY <1>2, <1>3, <1>4 DEF IInv

\* A step of a process that is not in a transaction and does not enter one.
LEMMA OutsideStep ==
    ASSUME IInv, NEW p \in Process, NEW to, NEW r,
           pc[p] \notin InTransaction,
           to \in {"idle", "building", "sending", "crashed"},
           r \in Request \/ (to = "idle" /\ r = NoRequest),
           pc' = [pc EXCEPT ![p] = to], req' = [req EXCEPT ![p] = r],
           db' = db, lock' = lock, txn' = txn, acks' \subseteq ReceiptType
    PROVE  IInv'
<1>1. TypeOK'
  BY DEF IInv, TypeOK
<1>2. TablesAgree'
  BY DEF IInv, TablesAgree
<1>3. pc'[p] = to /\ req'[p] = r /\ to \notin InTransaction /\ to # "durable"
  BY DEF IInv, TypeOK, InTransaction
<1>4. \A q \in Process : q # p => pc'[q] = pc[q] /\ req'[q] = req[q]
  BY DEF IInv, TypeOK
<1>5. Requested'
  BY <1>3, <1>4 DEF IInv, Requested
<1>6. OneWriter'
  BY <1>3, <1>4 DEF IInv, OneWriter
<1>7. Staged'
  BY <1>3, <1>4 DEF IInv, Staged
<1>8. Decided'
  BY <1>3, <1>4 DEF IInv, Decided
<1>9. Durable'
  BY <1>3, <1>4 DEF IInv, Durable
<1>10. QED
  BY <1>1, <1>2, <1>5, <1>6, <1>7, <1>8, <1>9 DEF IInv

\* The end of a transaction that leaves the database as it was.
LEMMA RollbackStep ==
    ASSUME IInv, NEW p \in Process, NEW to, NEW r,
           pc[p] \in InTransaction,
           to \in {"idle", "crashed"},
           r \in Request \/ (to = "idle" /\ r = NoRequest),
           pc' = [pc EXCEPT ![p] = to], req' = [req EXCEPT ![p] = r],
           db' = db, Rollback, acks' \subseteq ReceiptType
    PROVE  IInv'
<1>1. EmptyTables \in Tables
  BY DEF EmptyTables, Tables, EMPTY_HISTORY, AcceptedHead
<1>2. TypeOK'
  BY <1>1 DEF IInv, TypeOK, Rollback
<1>3. TablesAgree'
  BY DEF IInv, TablesAgree
<1>4. pc'[p] = to /\ req'[p] = r /\ to \notin InTransaction /\ to # "durable"
  BY DEF IInv, TypeOK, InTransaction
<1>5. \A q \in Process : q # p => pc'[q] = pc[q] /\ req'[q] = req[q]
  BY DEF IInv, TypeOK
<1>6. \A q \in Process : q # p => pc[q] \notin InTransaction
  BY DEF IInv, OneWriter
<1>7. \A q \in Process : pc'[q] \notin InTransaction
  BY <1>4, <1>5, <1>6
<1>8. Requested'
  BY <1>4, <1>5 DEF IInv, Requested
<1>9. OneWriter' /\ Staged' /\ Decided'
  BY <1>7 DEF Rollback, OneWriter, Staged, Decided
<1>10. Durable'
  BY <1>4, <1>5 DEF IInv, Durable
<1>11. QED
  BY <1>2, <1>3, <1>8, <1>9, <1>10 DEF IInv

\* A step of the holder of the lock to the next boundary, its transaction still open.
LEMMA InsideStep ==
    ASSUME IInv, NEW p \in Process, NEW to,
           lock = p \/ lock = Nobody, pc[p] # "idle", to \in InTransaction,
           pc' = [pc EXCEPT ![p] = to], db' = db, req' = req, acks' = acks,
           lock' = p, txn' \in Tables, txn' = TablesAt(to, req[p], db),
           to = "begun" \/ MayCommit(req[p], db)
    PROVE  IInv'
<1>1. TypeOK'
  BY DEF IInv, TypeOK
<1>2. TablesAgree'
  BY DEF IInv, TablesAgree
<1>3. pc'[p] = to /\ to # "durable" /\ to # "idle"
  BY DEF IInv, TypeOK, InTransaction
<1>4. \A q \in Process : q # p => pc'[q] = pc[q] /\ pc[q] \notin InTransaction
  BY DEF IInv, TypeOK, OneWriter
<1>5. Requested'
  BY <1>3, <1>4 DEF IInv, Requested
<1>6. OneWriter'
  BY <1>3, <1>4 DEF OneWriter
<1>7. Staged'
  BY <1>3, <1>4 DEF Staged
<1>8. Decided'
  BY <1>3, <1>4 DEF Decided
<1>9. Durable'
  BY <1>3, <1>4 DEF IInv, Durable
<1>10. QED
  BY <1>1, <1>2, <1>5, <1>6, <1>7, <1>8, <1>9 DEF IInv

\* Both sides of a request: what every transition of a process may rely on.
LEMMA Typed ==
    ASSUME IInv, NEW p \in Process
    PROVE  /\ db \in Tables /\ txn \in Tables /\ acks \subseteq ReceiptType
           /\ pc[p] # "idle" => req[p] \in Request
           /\ db.head \in AcceptedHead
           /\ req = [req EXCEPT ![p] = req[p]]
  BY DEF IInv, TypeOK, Requested, Tables

\* The request of an open transaction makes a commit of its type.
LEMMA NewCommitTyped ==
    ASSUME IInv, NEW p \in Process, pc[p] # "idle"
    PROVE  /\ NewCommit(p) \in CommitType
           /\ NewCommit(p).rows = Rows(req[p])
           /\ Receipt(NewCommit(p)) \in ReceiptType
<1>1. NewCommit(p) \in CommitType
  BY Typed, CommitOfTyped DEF NewCommit
<1>2. QED
  BY <1>1 DEF NewCommit, CommitOf, Receipt, ReceiptType, CommitType

\* The steps of a caller outside a transaction keep the invariant.
LEMMA CallerIInv ==
    ASSUME IInv, NEW p \in Process,
           \/ \E j \in Job : ReadCut(p, j)
           \/ BuildCommand(p) \/ BusyTimeout(p) \/ Return(p) \/ Resend(p) \/ StartOver(p)
    PROVE  IInv'
<1>1. CASE \E j \in Job : ReadCut(p, j)
  <2>1. PICK j \in Job : ReadCut(p, j)
    BY <1>1
  <2>2. [job |-> j, parent |-> EMPTY_HISTORY, cut |-> db.head] \in Request
    BY Typed DEF Request, EMPTY_HISTORY, AcceptedHead
  <2>3. QED
    BY <2>1, <2>2, Typed, OutsideStep DEF ReadCut, Goto, InTransaction
<1>2. CASE BuildCommand(p)
  <2>1. req[p] \in Request
    BY <1>2, Typed DEF BuildCommand
  <2>2. [req[p] EXCEPT !.parent = db.head] \in Request
    BY <2>1, Typed DEF Request
  <2>3. req' = [req EXCEPT ![p].parent = db.head]
           => req' = [req EXCEPT ![p] = [req[p] EXCEPT !.parent = db.head]]
    OBVIOUS
  <2>4. \/ Goto(p, "sending") /\ UNCHANGED req
        \/ Finish(p)
        \/ Goto(p, "sending") /\ req' = [req EXCEPT ![p].parent = db.head]
    BY <1>2 DEF BuildCommand
  <2>5. pc[p] \notin InTransaction
    BY <1>2 DEF BuildCommand, InTransaction
  <2>6. UNCHANGED <<db, lock, txn, acks>>
    BY <1>2 DEF BuildCommand
  <2>7. QED
    BY <2>1, <2>2, <2>3, <2>4, <2>5, <2>6, Typed, OutsideStep DEF Goto, Finish
<1>3. CASE BusyTimeout(p)
  BY <1>3, Typed, OutsideStep DEF BusyTimeout, Finish, Goto, InTransaction
<1>4. CASE Return(p)
  <2>1. Receipt(CommitOf(req[p], req[p].parent)) \in ReceiptType
    BY <1>4, Typed DEF Return, IInv, Durable, Tables
  <2>2. acks' \subseteq ReceiptType
    BY <1>4, <2>1, Typed DEF Return
  <2>3. QED
    BY <1>4, <2>2, Typed, OutsideStep DEF Return, Finish, Goto, InTransaction
<1>5. CASE Resend(p)
  BY <1>5, Typed, OutsideStep DEF Resend, Goto, InTransaction
<1>6. CASE StartOver(p)
  BY <1>6, Typed, OutsideStep DEF StartOver, Finish, Goto, InTransaction
<1>7. QED
  BY <1>1, <1>2, <1>3, <1>4, <1>5, <1>6

\* A transaction that ends without COMMIT leaves the database as it was.
LEMMA EndIInv ==
    ASSUME IInv, NEW p \in Process, Replay(p) \/ Reject(p) \/ Crash(p)
    PROVE  IInv'
<1>1. CASE Replay(p)
  <2>1. pc[p] \in InTransaction /\ txn \in Tables
    BY <1>1, Typed DEF Replay, InTransaction
  <2>2. acks' \subseteq ReceiptType
    BY <1>1, <2>1, Typed DEF Replay, Tables
  <2>3. QED
    BY <1>1, <2>1, <2>2, RollbackStep DEF Replay, Finish, Goto
<1>2. CASE Reject(p)
  <2>1. pc[p] \in InTransaction /\ acks' \subseteq ReceiptType
    BY <1>2, Typed DEF Reject, InTransaction
  <2>2. QED
    BY <1>2, <2>1, RollbackStep DEF Reject, Finish, Goto
<1>3. CASE Crash(p)
  <2>1. pc[p] # "idle" /\ req[p] \in Request /\ acks' \subseteq ReceiptType
    BY <1>3, Typed DEF Crash, InTransaction
  <2>2. req' = [req EXCEPT ![p] = req[p]] /\ db' = db
    BY <1>3, Typed DEF Crash
  <2>3. CASE lock = p
    <3>1. pc[p] \in InTransaction
      BY <2>3 DEF IInv, OneWriter
    <3>2. Rollback /\ pc' = [pc EXCEPT ![p] = "crashed"]
      BY <1>3, <2>3 DEF Crash, Goto
    <3>3. QED
      BY <2>1, <2>2, <3>1, <3>2, RollbackStep
  <2>4. CASE lock # p
    <3>1. pc[p] \notin InTransaction
      BY <2>4 DEF IInv, OneWriter
    <3>2. UNCHANGED <<lock, txn>> /\ pc' = [pc EXCEPT ![p] = "crashed"]
      BY <1>3, <2>4 DEF Crash, Goto
    <3>3. QED
      BY <2>1, <2>2, <3>1, <3>2, OutsideStep
  <2>5. QED
    BY <2>3, <2>4
<1>4. QED
  BY <1>1, <1>2, <1>3

\* Each persistence boundary shows the tables TablesAt says.
LEMMA BoundaryIInv ==
    ASSUME IInv, NEW p \in Process,
           \/ Begin(p) \/ Validate(p) \/ InsertObjects(p) \/ InsertCommit(p)
           \/ InsertReceipt(p) \/ MoveHead(p)
    PROVE  IInv'
<1>1. /\ db = [objects |-> db.objects, commits |-> db.commits,
                receipts |-> db.receipts, head |-> db.head]
      /\ db.objects \in SUBSET RowType /\ db.commits \in Seq(CommitType)
      /\ db.receipts \in SUBSET ReceiptType /\ db.head \in AcceptedHead
  BY Typed DEF Tables
<1>2. pc[p] # "idle" => /\ NewCommit(p) \in CommitType
                        /\ NewCommit(p).rows = Rows(req[p])
                        /\ Receipt(NewCommit(p)) \in ReceiptType
  BY NewCommitTyped
<1>3. pc[p] # "idle" => Rows(req[p]) \in SUBSET RowType /\ NewCommit(p).hash \in AcceptedHead
  BY <1>2 DEF CommitType
<1>4. CASE Begin(p)
  <2>1. pc'[p] = "begun" /\ db' = db /\ req' = req /\ txn' = db
    BY <1>4 DEF Begin, Goto, IInv, TypeOK
  <2>2. TablesAt("begun", req[p], db) = db
    BY <1>1 DEF TablesAt
  <2>3. /\ (lock = p \/ lock = Nobody) /\ lock' = p /\ pc[p] # "idle"
        /\ pc' = [pc EXCEPT ![p] = "begun"] /\ "begun" \in InTransaction
        /\ db' = db /\ req' = req /\ acks' = acks
        /\ txn' \in Tables
    BY <1>4, <2>1, Typed DEF Begin, Goto, InTransaction
  <2>4. QED
    <3>1. txn' = TablesAt("begun", req[p], db)
      BY <2>1, <2>2
    <3>2. QED
      BY <2>3, <3>1, InsideStep
<1>5. ASSUME NEW from \in InTransaction, NEW to \in InTransaction,
             pc[p] = from, Goto(p, to), UNCHANGED <<db, lock, req, acks>>,
             txn' = TablesAt(to, req[p], db), to # "begun",
             MayCommit(req[p], db)
      PROVE  IInv'
  <2>1. lock = p /\ pc[p] # "idle"
    BY <1>5 DEF IInv, OneWriter, InTransaction
  <2>2. TablesAt(to, req[p], db) \in Tables
    <3>1. /\ db.objects \cup Rows(req[p]) \in SUBSET RowType
          /\ Append(db.commits, NewCommit(p)) \in Seq(CommitType)
          /\ db.receipts \cup {Receipt(NewCommit(p))} \in SUBSET ReceiptType
      BY <2>1, <1>1, <1>2, <1>3
    <3>2. QED
      BY <3>1, <2>1, <1>1, <1>3, <1>5 DEF TablesAt, NewCommit, Tables
  <2>3. /\ (lock = p \/ lock = Nobody) /\ lock' = p
        /\ pc' = [pc EXCEPT ![p] = to]
        /\ db' = db /\ req' = req /\ acks' = acks
        /\ txn' \in Tables
    BY <1>5, <2>1, <2>2 DEF Goto
  <2>4. QED
    BY <1>5, <2>1, <2>3, InsideStep
<1>6. CASE Validate(p)
  <2>1. pc[p] = "begun" /\ "begun" \in InTransaction /\ "valid" \in InTransaction
    BY <1>6 DEF Validate, InTransaction
  <2>2. txn = db
    BY <2>1, <1>1 DEF IInv, Staged, TablesAt
  <2>3. pc'[p] = "valid" /\ UNCHANGED <<db, lock, txn, req, acks>>
    BY <1>6 DEF Validate, Goto, IInv, TypeOK
  <2>4. TablesAt("valid", req[p], db) = db
    BY <1>1 DEF TablesAt
  <2>5. QED
    BY <1>5, <1>6, <2>1, <2>2, <2>3, <2>4 DEF Validate, NewIdentity, MayCommit
<1>7. ASSUME pc[p] \in InTransaction \ {"begun"}
      PROVE  /\ txn = TablesAt(pc[p], req[p], db) /\ pc[p] # "idle"
             /\ MayCommit(req[p], db)
  BY <1>7 DEF IInv, Staged, Decided, InTransaction
<1>8. CASE InsertObjects(p)
  <2>1. pc[p] = "valid" /\ pc[p] \in InTransaction \ {"begun"} /\ "objects" \in InTransaction
    BY <1>8 DEF InsertObjects, InTransaction
  <2>2. txn = [objects |-> db.objects, commits |-> db.commits,
               receipts |-> db.receipts, head |-> db.head]
    BY <1>7, <2>1 DEF TablesAt, NewCommit
  <2>3. txn' = [objects |-> db.objects \cup Rows(req[p]), commits |-> db.commits,
                receipts |-> db.receipts, head |-> db.head]
    BY <2>2, <1>8 DEF InsertObjects
  <2>4. pc'[p] = "objects" /\ UNCHANGED <<db, lock, req, acks>>
    BY <1>8 DEF InsertObjects, Goto, IInv, TypeOK
  <2>5. txn' = TablesAt("objects", req[p], db)
    BY <2>3, <2>4 DEF TablesAt, NewCommit
  <2>6. QED
    BY <1>5, <1>7, <1>8, <2>1, <2>4, <2>5 DEF InsertObjects
<1>9. CASE InsertCommit(p)
  <2>1. pc[p] = "objects" /\ pc[p] \in InTransaction \ {"begun"} /\ "commit" \in InTransaction
    BY <1>9 DEF InsertCommit, InTransaction
  <2>2. txn = [objects |-> db.objects \cup Rows(req[p]), commits |-> db.commits,
               receipts |-> db.receipts, head |-> db.head]
    BY <1>7, <2>1 DEF TablesAt, NewCommit
  <2>3. txn' = [objects |-> db.objects \cup Rows(req[p]),
                commits |-> Append(db.commits, NewCommit(p)),
                receipts |-> db.receipts, head |-> db.head]
    BY <2>2, <1>9 DEF InsertCommit, NewCommit
  <2>4. pc'[p] = "commit" /\ UNCHANGED <<db, lock, req, acks>>
    BY <1>9 DEF InsertCommit, Goto, IInv, TypeOK
  <2>5. txn' = TablesAt("commit", req[p], db)
    BY <2>3, <2>4 DEF TablesAt, NewCommit
  <2>6. QED
    BY <1>5, <1>7, <1>9, <2>1, <2>4, <2>5 DEF InsertCommit
<1>10. CASE InsertReceipt(p)
  <2>1. pc[p] = "commit" /\ pc[p] \in InTransaction \ {"begun"} /\ "receipt" \in InTransaction
    BY <1>10 DEF InsertReceipt, InTransaction
  <2>2. txn = [objects |-> db.objects \cup Rows(req[p]),
               commits |-> Append(db.commits, NewCommit(p)),
               receipts |-> db.receipts, head |-> db.head]
    BY <1>7, <2>1 DEF TablesAt, NewCommit
  <2>3. txn' = [objects |-> db.objects \cup Rows(req[p]),
                commits |-> Append(db.commits, NewCommit(p)),
                receipts |-> db.receipts \cup {Receipt(NewCommit(p))}, head |-> db.head]
    BY <2>2, <1>10 DEF InsertReceipt, NewCommit
  <2>4. pc'[p] = "receipt" /\ UNCHANGED <<db, lock, req, acks>>
    BY <1>10 DEF InsertReceipt, Goto, IInv, TypeOK
  <2>5. txn' = TablesAt("receipt", req[p], db)
    BY <2>3, <2>4 DEF TablesAt, NewCommit
  <2>6. QED
    BY <1>5, <1>7, <1>10, <2>1, <2>4, <2>5 DEF InsertReceipt
<1>11. CASE MoveHead(p)
  <2>1. pc[p] = "receipt" /\ pc[p] \in InTransaction \ {"begun"} /\ "head" \in InTransaction
    BY <1>11 DEF MoveHead, InTransaction
  <2>2. txn = [objects |-> db.objects \cup Rows(req[p]),
               commits |-> Append(db.commits, NewCommit(p)),
               receipts |-> db.receipts \cup {Receipt(NewCommit(p))}, head |-> db.head]
    BY <1>7, <2>1 DEF TablesAt, NewCommit
  <2>3. txn' = [objects |-> db.objects \cup Rows(req[p]),
                commits |-> Append(db.commits, NewCommit(p)),
                receipts |-> db.receipts \cup {Receipt(NewCommit(p))},
                head |-> NewCommit(p).hash]
    BY <2>2, <1>11 DEF MoveHead, NewCommit
  <2>4. pc'[p] = "head" /\ UNCHANGED <<db, lock, req, acks>>
    BY <1>11 DEF MoveHead, Goto, IInv, TypeOK
  <2>5. txn' = TablesAt("head", req[p], db)
    BY <2>3, <2>4 DEF TablesAt, NewCommit
  <2>6. QED
    BY <1>5, <1>7, <1>11, <2>1, <2>4, <2>5 DEF MoveHead
<1>12. QED
  BY <1>4, <1>6, <1>8, <1>9, <1>10, <1>11

\* What COMMIT makes durable is the database with exactly the one new commit.
LEMMA CommitEffect ==
    ASSUME IInv, NEW p \in Process, CommitTransaction(p)
    PROVE  /\ db'.commits = Append(db.commits, NewCommit(p))
           /\ db'.head = NewCommit(p).hash
           /\ db'.objects = db.objects \cup Rows(req[p])
           /\ db'.receipts = db.receipts \cup {Receipt(NewCommit(p))}
           /\ MayCommit(req[p], db) /\ req[p] \in Request
           /\ req[p].parent = db.head
<1>1. pc[p] = "head" /\ pc[p] \in InTransaction \ {"begun"} /\ db' = txn
  BY DEF CommitTransaction, InTransaction
<1>2. txn = TablesAt("head", req[p], db) /\ MayCommit(req[p], db)
  BY <1>1 DEF IInv, Staged, Decided
<1>3. req[p].parent = db.head
  BY <1>2 DEF MayCommit, Admissible, ParentIsHead
<1>4. QED
  BY <1>1, <1>2, <1>3, Typed DEF TablesAt, NewCommit

\* COMMIT makes durable the next commit of the chain, complete in all tables.
LEMMA CommitIInv ==
    ASSUME IInv, NEW p \in Process, CommitTransaction(p)
    PROVE  IInv'
<1> DEFINE c == NewCommit(p)
<1>1. /\ db'.commits = Append(db.commits, c) /\ db'.head = c.hash
      /\ db'.objects = db.objects \cup Rows(req[p])
      /\ db'.receipts = db.receipts \cup {Receipt(c)}
      /\ req[p] \in Request /\ req[p].parent = db.head
  BY CommitEffect
<1>2. /\ pc[p] = "head" /\ db' = txn /\ lock' = Nobody /\ txn' = EmptyTables
      /\ pc' = [pc EXCEPT ![p] = "durable"] /\ req' = req /\ acks' = acks
  BY DEF CommitTransaction, Rollback, Goto
<1>3. pc'[p] = "durable"
  BY <1>2 DEF IInv, TypeOK
<1>4. \A q \in Process : q # p => pc'[q] = pc[q] /\ pc[q] \notin InTransaction
  BY <1>2 DEF IInv, TypeOK, OneWriter, InTransaction
<1>5. EmptyTables \in Tables
  BY DEF EmptyTables, Tables, EMPTY_HISTORY, AcceptedHead
<1>6. TypeOK'
  BY <1>2, <1>5 DEF IInv, TypeOK
<1>7. db.commits \in Seq(CommitType) /\ c \in CommitType /\ c.rows = Rows(req[p])
  BY <1>2, Typed, NewCommitTyped DEF Tables
<1>8. /\ DOMAIN db'.commits = DOMAIN db.commits \cup {Len(db.commits) + 1}
      /\ \A n \in DOMAIN db.commits : db'.commits[n] = db.commits[n]
      /\ db'.commits[Len(db.commits) + 1] = c
      /\ db'.commits # << >> /\ Len(db'.commits) = Len(db.commits) + 1
  <2> HIDE DEF c
  <2> QED BY <1>1, <1>7
<1>9. TablesAgree'
  <2>1. db'.head = HeadOf(db'.commits)
    BY <1>1, <1>8 DEF HeadOf
  <2>2. db'.objects = RowsOf(db'.commits)
    <3>1. RowsOf(db'.commits) = RowsOf(db.commits) \cup c.rows
      BY <1>8 DEF RowsOf
    <3>2. QED
      BY <3>1, <1>1, <1>7 DEF IInv, TablesAgree
  <2>3. db'.receipts = {Receipt(db'.commits[n]) : n \in DOMAIN db'.commits}
    BY <1>1, <1>8 DEF IInv, TablesAgree
  <2>4. QED
    BY <2>1, <2>2, <2>3 DEF TablesAgree
<1>10. \A q \in Process : pc'[q] \notin InTransaction
  BY <1>3, <1>4 DEF InTransaction
<1>11. Requested'
  BY <1>1, <1>2, <1>4 DEF IInv, Requested
<1>12. OneWriter' /\ Staged' /\ Decided'
  BY <1>2, <1>10 DEF OneWriter, Staged, Decided
<1>13. Durable'
  <2>1. Receipt(CommitOf(req[p], req[p].parent)) \in db'.receipts
    BY <1>1 DEF NewCommit
  <2>2. QED
    BY <2>1, <1>1, <1>2, <1>4 DEF IInv, Durable
<1>14. QED
  BY <1>6, <1>9, <1>11, <1>12, <1>13 DEF IInv

\* Every step of every process keeps the invariant.
LEMMA NextIInv == IInv /\ [Next]_vars => IInv'
<1> SUFFICES ASSUME IInv, [Next]_vars PROVE IInv'
  OBVIOUS
<1>1. CASE Next
  <2>1. PICK p \in Process :
          \/ \E j \in Job : ReadCut(p, j)
          \/ BuildCommand(p) \/ Accepting(p) \/ Crash(p) \/ Resend(p) \/ StartOver(p)
    BY <1>1 DEF Next
  <2>2. CASE \/ \E j \in Job : ReadCut(p, j)
             \/ BuildCommand(p) \/ BusyTimeout(p) \/ Return(p) \/ Resend(p) \/ StartOver(p)
    BY <2>2, CallerIInv
  <2>3. CASE Replay(p) \/ Reject(p) \/ Crash(p)
    BY <2>3, EndIInv
  <2>4. CASE \/ Begin(p) \/ Validate(p) \/ InsertObjects(p) \/ InsertCommit(p)
             \/ InsertReceipt(p) \/ MoveHead(p)
    BY <2>4, BoundaryIInv
  <2>5. CASE CommitTransaction(p)
    BY <2>5, CommitIInv
  <2>6. QED
    BY <2>1, <2>2, <2>3, <2>4, <2>5 DEF Accepting
<1>2. CASE UNCHANGED vars
  <2>1. /\ db' = db /\ lock' = lock /\ txn' = txn /\ pc' = pc /\ req' = req
        /\ acks' = acks
    BY <1>2 DEF vars
  <2>2. QED
    BY <2>1 DEF IInv, TypeOK, TablesAgree, Requested, OneWriter, Staged, Decided, Durable
<1>3. QED
  BY <1>1, <1>2

\* The invariant, for any number of processes dying at any boundary.
THEOREM StoreInvariance == Spec => []IInv
  BY InitIInv, NextIInv, PTL DEF Spec

\* Every variable of the store keeps its type, whatever the processes do.
THEOREM StoreTyped == Spec => []TypeOK
<1>1. IInv => TypeOK
  BY DEF IInv
<1>2. QED
  BY <1>1, StoreInvariance, PTL

\* Old or new, never between: for any number of processes dying at any of the
\* persistence boundaries of accept(), the committed head, object rows and
\* receipts are those of the committed chain.
THEOREM TablesAlwaysAgree == Spec => []TablesAgree
<1>1. IInv => TablesAgree
  BY DEF IInv
<1>2. QED
  BY <1>1, StoreInvariance, PTL

-----------------------------------------------------------------------------
\* The abstract history speaks of the same operators as the store.

\* Both modules replay the same facts.
LEMMA SameFacts ==
    ASSUME NEW l
    PROVE  A!FactsOf(l) = FactsOf(l)
  BY Zenon DEF A!FactsOf, FactsOf, A!FoldLeft, FoldLeft, A!MapThenFoldSet,
               MapThenFoldSet, A!Max, Max

\* Both modules project facts by the same tables.
LEMMA SameProjection ==
    ASSUME NEW l
    PROVE  A!ProjectionAccepts(l) <=> ProjectionAccepts(l)
  BY Zenon DEF A!ProjectionAccepts, ProjectionAccepts, A!Projects, Projects,
               A!legal_transition, legal_transition, A!Terminal, Terminal,
               A!Edges, Edges, A!SeenTerminal, SeenTerminal, A!StateOf, StateOf,
               A!Earlier, Earlier, A!Latest, Latest, A!SameAggregate,
               SameAggregate, A!InitialState, InitialState

\* Both modules make the same commit of a request.
LEMMA SameCommit ==
    ASSUME NEW r, NEW h, NEW l
    PROVE  /\ A!HeadOf(l) = HeadOf(l) /\ A!RowsOf(l) = RowsOf(l)
           /\ A!Rows(r) = Rows(r)
           /\ A!CommitOf(r, h) = CommitOf(r, h)
           /\ A!Envelope(r) = Envelope(r)
<1>1. A!HeadOf(l) = HeadOf(l) /\ A!RowsOf(l) = RowsOf(l)
  BY DEF A!HeadOf, HeadOf, A!EMPTY_HISTORY, EMPTY_HISTORY, A!RowsOf, RowsOf
<1>2. A!Envelope(r) = Envelope(r)
  BY DEF A!Envelope, Envelope
<1>3. A!ClaimedCut(r) = ClaimedCut(r)
  BY DEF A!ClaimedCut, ClaimedCut, A!ForeignCut, ForeignCut
<1>4. \A o : A!CutOf(o, r) = CutOf(o, r)
  BY <1>3 DEF A!CutOf, CutOf, A!NoCut, NoCut
<1>5. A!Rows(r) = Rows(r)
  BY <1>4 DEF A!Rows, Rows
<1>6. QED
  BY <1>1, <1>2, <1>5 DEF A!CommitOf, CommitOf

\* Both modules admit the same requests.
LEMMA SameRules ==
    ASSUME NEW r, NEW h, NEW l, NEW rows
    PROVE  A!Admissible(r, h, l, rows) <=> Admissible(r, h, l, rows)
<1>1. /\ A!ParentIsHead(r, h) <=> ParentIsHead(r, h)
      /\ A!ContextInForce(r, l) <=> ContextInForce(r, l)
      /\ A!InitializeOnlyOnce(r, h) <=> InitializeOnlyOnce(r, h)
      /\ A!EvidenceByIngestOnly(r) <=> EvidenceByIngestOnly(r)
  BY DEF A!ParentIsHead, ParentIsHead, A!ContextInForce, ContextInForce,
         A!InitializeOnlyOnce, InitializeOnlyOnce, A!EMPTY_HISTORY, EMPTY_HISTORY,
         A!EvidenceByIngestOnly, EvidenceByIngestOnly
<1>2. A!CutsBind(r, h, l) <=> CutsBind(r, h, l)
  BY SameCommit DEF A!CutsBind, CutsBind, A!Delivered, Delivered, A!GenuineCut,
     GenuineCut, A!EMPTY_HISTORY, EMPTY_HISTORY
<1>3. A!ContentResolves(r, rows) <=> ContentResolves(r, rows)
  BY DEF A!ContentResolves, ContentResolves, A!NamesOf, NamesOf
<1>4. A!PriorIsAccepted(r, l) <=> PriorIsAccepted(r, l)
  BY SameCommit DEF A!PriorIsAccepted, PriorIsAccepted, A!NamesOf, NamesOf
<1>5. A!FactsProject(r, l) <=> FactsProject(r, l)
  BY SameFacts, SameProjection DEF A!FactsProject, FactsProject
<1>6. QED
  BY <1>1, <1>2, <1>3, <1>4, <1>5 DEF A!Admissible, Admissible

\* A request may carry a cut it read before its parent head.  If it is admitted,
\* that made no difference: it is the request built on the head itself.
LEMMA StaleCutIsHarmless ==
    ASSUME NEW r \in Request, NEW h \in AcceptedHead, r.parent = h,
           NEW l, NEW rows, Admissible(r, h, l, rows)
    PROVE  LET now == [job |-> r.job, parent |-> h, cut |-> h] IN
           /\ Rows(now) = Rows(r) /\ Envelope(now) = Envelope(r)
           /\ CommitOf(now, h) = CommitOf(r, h)
           /\ Admissible(now, h, l, rows)
<1> DEFINE now == [job |-> r.job, parent |-> h, cut |-> h]
<1>1. now.job = r.job /\ now.parent = r.parent /\ now.cut = h
  OBVIOUS
<1>2. Envelope(now) = Envelope(r)
  BY <1>1 DEF Envelope
<1>3. ClaimedCut(now) = ClaimedCut(r)
  BY <1>1 DEF ClaimedCut
<1>4. ASSUME NEW o \in Detail[r.job].objs
      PROVE  CutOf(o, now) = CutOf(o, r)
  <2>1. CASE Shape[o].class = "plain"
    BY <2>1 DEF CutOf
  <2>2. CASE Shape[o].class = "bound"
    <3>1. CutOf(o, r) = r.cut /\ CutOf(o, now) = h
      BY <2>2, <1>1 DEF CutOf
    <3>2. [name |-> o, cut |-> r.cut] \in Rows(r)
      BY <3>1 DEF Rows
    <3>3. r.cut = h
      BY <3>2, <2>2 DEF Admissible, CutsBind, Delivered
    <3>4. QED
      BY <3>1, <3>3
  <2>3. CASE Shape[o].class \notin {"plain", "bound"}
    BY <2>3, <1>3 DEF CutOf
  <2>4. QED
    BY <2>1, <2>2, <2>3
<1>5. Rows(now) = Rows(r)
  BY <1>1, <1>4 DEF Rows
<1>6. CommitOf(now, h) = CommitOf(r, h)
  BY <1>1, <1>2, <1>5 DEF CommitOf
<1>7. Admissible(now, h, l, rows)
  BY <1>1, <1>5 DEF Admissible, ParentIsHead, ContextInForce, InitializeOnlyOnce,
     EvidenceByIngestOnly, CutsBind, ContentResolves, PriorIsAccepted, FactsProject
<1>8. QED
  BY <1>2, <1>5, <1>6, <1>7

-----------------------------------------------------------------------------
\* Refinement: COMMIT is the abstract accept, an answer is an acknowledgement,
\* and everything else is invisible.

\* COMMIT is the abstract accept of the job.
LEMMA CommitIsAccept ==
    ASSUME IInv, NEW p \in Process, CommitTransaction(p)
    PROVE  A!Accept(req[p].job)
<1> DEFINE r == req[p]
           now == [job |-> r.job, parent |-> db.head, cut |-> db.head]
<1>1. /\ db'.commits = Append(db.commits, NewCommit(p))
      /\ MayCommit(r, db) /\ r \in Request /\ r.parent = db.head
  BY CommitEffect
<1>2. acks' = acks
  BY DEF CommitTransaction
<1>3. db.head = HeadOf(db.commits) /\ db.objects = RowsOf(db.commits)
      /\ db.head \in AcceptedHead
  BY Typed DEF IInv, TablesAgree
<1>4. CommitOf(now, db.head) = CommitOf(r, db.head)
      /\ Admissible(now, db.head, db.commits, db.objects)
  BY <1>1, <1>3, StaleCutIsHarmless DEF MayCommit
<1>5. A!Current(r.job) = now
  BY <1>3, SameCommit DEF A!Current
<1>6. Detail[r.job].id \notin A!CommandIds(db.commits)
  <2>1. \A n \in DOMAIN db.commits : Receipt(db.commits[n]) \in db.receipts
    BY DEF IInv, TablesAgree
  <2>2. \A n \in DOMAIN db.commits : db.commits[n].command.id # Envelope(r).id
    BY <1>1, <2>1 DEF MayCommit, Receipt
  <2>3. Envelope(r).id = Detail[r.job].id
    BY DEF Envelope
  <2>4. QED
    BY <2>2, <2>3 DEF A!CommandIds
<1>7. A!Admissible(A!Current(r.job), A!HeadOf(db.commits), db.commits, A!RowsOf(db.commits))
  BY <1>3, <1>4, <1>5, SameCommit, SameRules
<1>8. db'.commits = Append(db.commits, A!CommitOf(A!Current(r.job), A!HeadOf(db.commits)))
  BY <1>1, <1>3, <1>4, <1>5, SameCommit DEF NewCommit
<1>9. QED
  BY <1>2, <1>6, <1>7, <1>8 DEF A!Accept

\* An answer names a commit of the chain.
LEMMA AnswerIsAcknowledgement ==
    ASSUME IInv, NEW e \in db.receipts, db' = db, acks' = acks \cup {e}
    PROVE  \E n \in DOMAIN db.commits : A!Acknowledge(n)
<1>1. PICK n \in DOMAIN db.commits : e = Receipt(db.commits[n])
  BY DEF IInv, TablesAgree
<1>2. A!Acknowledge(n)
  BY <1>1 DEF A!Acknowledge, A!Receipt, Receipt
<1>3. QED
  BY <1>2

\* Every step of the store is an abstract step or a stutter.
LEMMA StepSimulation == IInv /\ [Next]_vars => [A!Next]_(A!vars)
<1> SUFFICES ASSUME IInv, [Next]_vars PROVE [A!Next]_(A!vars)
  OBVIOUS
<1>1. ASSUME db' = db, acks' = acks PROVE [A!Next]_(A!vars)
  BY <1>1 DEF A!vars
<1>2. ASSUME NEW p \in Process,
             \/ \E j \in Job : ReadCut(p, j)
             \/ BuildCommand(p) \/ BusyTimeout(p) \/ Reject(p) \/ Crash(p)
             \/ Resend(p) \/ StartOver(p) \/ Begin(p) \/ Validate(p)
             \/ InsertObjects(p) \/ InsertCommit(p) \/ InsertReceipt(p) \/ MoveHead(p)
      PROVE  [A!Next]_(A!vars)
  BY <1>1, <1>2 DEF ReadCut, BuildCommand, BusyTimeout, Reject, Crash, Resend, StartOver,
     Begin, Validate, InsertObjects, InsertCommit, InsertReceipt, MoveHead
<1>3. ASSUME NEW p \in Process, Replay(p)
      PROVE  [A!Next]_(A!vars)
  <2>1. pc[p] = "begun" /\ pc[p] \in InTransaction /\ db' = db
    BY <1>3 DEF Replay, InTransaction
  <2>2. txn.receipts = db.receipts
    BY <2>1 DEF IInv, Staged, TablesAt
  <2>3. PICK e \in db.receipts :
          acks' = IF e.command = Envelope(req[p]) THEN acks \cup {e} ELSE acks
    BY <1>3, <2>2 DEF Replay
  <2>4. CASE acks' = acks
    BY <2>1, <2>4, <1>1
  <2>5. CASE acks' = acks \cup {e}
    BY <2>1, <2>5, AnswerIsAcknowledgement DEF A!Next
  <2>6. QED
    BY <2>3, <2>4, <2>5
<1>4. ASSUME NEW p \in Process, Return(p)
      PROVE  [A!Next]_(A!vars)
  <2>1. Receipt(CommitOf(req[p], req[p].parent)) \in db.receipts
    BY <1>4 DEF Return, IInv, Durable
  <2>2. QED
    BY <1>4, <2>1, AnswerIsAcknowledgement DEF Return, A!Next
<1>5. ASSUME NEW p \in Process, CommitTransaction(p)
      PROVE  [A!Next]_(A!vars)
  <2>1. req[p].job \in Job
    BY <1>5, CommitEffect DEF Request
  <2>2. QED
    BY <1>5, <2>1, CommitIsAccept DEF A!Next
<1>6. CASE UNCHANGED vars
  BY <1>1, <1>6 DEF vars
<1>7. QED
  BY <1>2, <1>3, <1>4, <1>5, <1>6 DEF Next, Accepting

\* The transactional store implements the abstract history, for any number of
\* processes, crashing, timing out, resending and starting over as they like.
THEOREM StoreImplementsHistory == Spec => ImplementsAcceptedHistory
<1>1. Init => A!Init
  BY DEF Init, EmptyTables, A!Init
<1>2. QED
  BY <1>1, StepSimulation, StoreInvariance, PTL DEF Spec, A!Spec, ImplementsAcceptedHistory

-----------------------------------------------------------------------------
\* The safety of the abstract history, carried over to the committed tables.

\* The history the proofs are about is the one the store refines.
LEMMA SameHistory == A!Spec <=> P!Spec
  BY Zenon DEF A!Accept, P!Accept, A!Acknowledge, P!Acknowledge, A!Init, P!Init,
             A!Next, P!Next, A!Spec, P!Spec, A!vars, P!vars, A!Current, P!Current,
             A!CommandIds, P!CommandIds, A!Admissible, P!Admissible, A!CommitOf,
             P!CommitOf, A!HeadOf, P!HeadOf, A!RowsOf, P!RowsOf, A!Rows, P!Rows,
             A!CutOf, P!CutOf, A!ClaimedCut, P!ClaimedCut, A!ForeignCut,
             P!ForeignCut, A!NoCut, P!NoCut, A!Envelope, P!Envelope, A!EMPTY_HISTORY,
             P!EMPTY_HISTORY, A!Delivered, P!Delivered, A!ParentIsHead,
             P!ParentIsHead, A!ContextInForce, P!ContextInForce,
             A!InitializeOnlyOnce, P!InitializeOnlyOnce, A!EvidenceByIngestOnly,
             P!EvidenceByIngestOnly, A!CutsBind, P!CutsBind, A!GenuineCut,
             P!GenuineCut, A!ContentResolves, P!ContentResolves, A!NamesOf,
             P!NamesOf, A!PriorIsAccepted, P!PriorIsAccepted, A!FactsProject,
             P!FactsProject, A!FactsOf, P!FactsOf, A!FoldLeft, P!FoldLeft,
             A!MapThenFoldSet, P!MapThenFoldSet, A!Max, P!Max, A!ProjectionAccepts,
             P!ProjectionAccepts, A!Projects, P!Projects, A!legal_transition,
             P!legal_transition, A!Terminal, P!Terminal, A!Edges, P!Edges,
             A!SeenTerminal, P!SeenTerminal, A!StateOf, P!StateOf, A!Earlier,
             P!Earlier, A!Latest, P!Latest, A!SameAggregate, P!SameAggregate,
             A!InitialState, P!InitialState, A!Receipt, P!Receipt

\* What the store's committed tables satisfy in every behaviour: one intact hash
\* chain, cuts that name earlier heads, references that point strictly back, one
\* context, answers that speak of commits, and each command identity once.
THEOREM StoreSafety == Spec => [](HistoryIsSound /\ CommandsOnce)
<1>1. P!Inv => HistoryIsSound /\ CommandsOnce
  BY Zenon DEF P!Inv, HistoryIsSound, ChainIntact, CommandsOnce, CutsAreEarlierHeads,
             PriorStrictlyEarlier, ContextContinuity, AcksAreCommitted,
             A!ChainIntact, P!ChainIntact, A!CommandsOnce, P!CommandsOnce,
             A!CutsAreEarlierHeads, P!CutsAreEarlierHeads, A!PriorStrictlyEarlier,
             P!PriorStrictlyEarlier, A!ContextContinuity, P!ContextContinuity,
             A!AcksAreCommitted, P!AcksAreCommitted, A!EMPTY_HISTORY,
             P!EMPTY_HISTORY, A!Delivered, P!Delivered, A!NamesOf, P!NamesOf,
             A!Receipt, P!Receipt
<1>2. P!Spec => []P!Inv
  BY SameAssumption, P!Invariance, PTL
<1>3. Spec => P!Spec
  BY StoreImplementsHistory, SameHistory DEF ImplementsAcceptedHistory
<1>4. QED
  BY <1>1, <1>2, <1>3, PTL

\* However the processes race, die and resend, what is committed is sound.
THEOREM CommittedHistoryIsSound == Spec => []HistoryIsSound
  BY StoreSafety, PTL

\* A command identity is committed once, however often the command is sent again,
\* by whichever process, before or after an answer was lost.
THEOREM CommandsCommitOnce == Spec => []CommandsOnce
  BY StoreSafety, PTL

=============================================================================
