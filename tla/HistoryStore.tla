------------------------------ MODULE HistoryStore ------------------------------
(***************************************************************************)
(* TransactionalHistoryStore (history/store.py): several processes, each   *)
(* with its own connection to one SQLite database, ask it to accept jobs.  *)
(* accept() is one BEGIN IMMEDIATE transaction; its persistence boundaries *)
(* (the HOOKS of the class) are separate steps here, and a process may die *)
(* at each of them.  A process that died, or lost the answer, may send the *)
(* very same request again, or start the job over on a newly read head.    *)
(***************************************************************************)
EXTENDS HistoryRules

CONSTANTS
    Process,    \* processes with a connection to the database
    Nobody      \* holder of the write lock when it is free

ASSUME NobodyAssumption == Nobody \notin Process

VARIABLES
    db,      \* the committed tables: [objects, commits, receipts, head]
    lock,    \* holder of the RESERVED lock, from BEGIN IMMEDIATE to its end
    txn,     \* the tables as the open transaction sees them
    pc,      \* where each process is
    req,     \* the request each process is working on
    acks     \* acknowledgements returned to callers: [command, head]

vars == <<db, lock, txn, pc, req, acks>>

\* Values of pc from BEGIN IMMEDIATE to COMMIT or rollback.
InTransaction == {"begun", "valid", "objects", "commit", "receipt", "head"}

NoRequest == [job |-> "none", parent |-> EMPTY_HISTORY, cut |-> EMPTY_HISTORY]

EmptyTables == [objects |-> {}, commits |-> << >>, receipts |-> {},
                head |-> EMPTY_HISTORY]

Init ==
    /\ db = EmptyTables
    /\ lock = Nobody
    /\ txn = EmptyTables
    /\ pc = [p \in Process |-> "idle"]
    /\ req = [p \in Process |-> NoRequest]
    /\ acks = {}

Goto(p, to) == pc' = [pc EXCEPT ![p] = to]

\* Back to the caller, who keeps nothing of the request.
Finish(p) ==
    /\ Goto(p, "idle")
    /\ req' = [req EXCEPT ![p] = NoRequest]

-----------------------------------------------------------------------------
\* The caller: the cut written into the objects and the parent head written
\* into the command are two reads of the store on two connections.

ReadCut(p, j) ==
    /\ pc[p] = "idle"
    /\ req' = [req EXCEPT ![p] = [job |-> j, parent |-> EMPTY_HISTORY, cut |-> db.head]]
    /\ Goto(p, "building")
    /\ UNCHANGED <<db, lock, txn, acks>>

\* An INITIALIZE command always expects EMPTY_HISTORY; any other one cannot be
\* built before the campaign has a head.
BuildCommand(p) ==
    /\ pc[p] = "building"
    /\ IF Detail[req[p].job].kind = "INITIALIZE"
       THEN /\ Goto(p, "sending")
            /\ UNCHANGED req
       ELSE IF db.head = EMPTY_HISTORY
       THEN Finish(p)
       ELSE /\ req' = [req EXCEPT ![p].parent = db.head]
            /\ Goto(p, "sending")
    /\ UNCHANGED <<db, lock, txn, acks>>

-----------------------------------------------------------------------------
\* accept()

\* Faulty variant: BEGIN DEFERRED, which takes no write lock.
BeginDeferred(p) ==
    /\ pc[p] = "sending"
    /\ lock' = p
    /\ txn' = db
    /\ Goto(p, "begun")
    /\ UNCHANGED <<db, req, acks>>

Begin(p) ==
    /\ pc[p] = "sending"
    /\ lock = Nobody
    /\ lock' = p
    /\ txn' = db
    /\ Goto(p, "begun")
    /\ UNCHANGED <<db, req, acks>>

\* BEGIN IMMEDIATE gives up after its 30 s busy timeout.
BusyTimeout(p) ==
    /\ pc[p] = "sending"
    /\ lock # Nobody
    /\ Finish(p)
    /\ UNCHANGED <<db, lock, txn, acks>>

Rollback ==
    /\ lock' = Nobody
    /\ txn' = EmptyTables

\* The command identity has a receipt: the same envelope is answered with that
\* receipt and nothing else is looked at; a different one is ID_REUSE_CONFLICT.
Replay(p) ==
    /\ pc[p] = "begun"
    /\ \E e \in txn.receipts :
         /\ e.command.id = Envelope(req[p]).id
         /\ acks' = IF e.command = Envelope(req[p]) THEN acks \cup {e} ELSE acks
    /\ Rollback
    /\ Finish(p)
    /\ UNCHANGED db

\* Faulty variant: no lookup in command_index.
AnyIdentity(p) == TRUE

NewIdentity(p) ==
    \A e \in txn.receipts : e.command.id # Envelope(req[p]).id

Validate(p) ==
    /\ pc[p] = "begun"
    /\ NewIdentity(p)
    /\ Admissible(req[p], txn.head, txn.commits, txn.objects)
    /\ Goto(p, "valid")
    /\ UNCHANGED <<db, lock, txn, req, acks>>

Reject(p) ==
    /\ pc[p] = "begun"
    /\ NewIdentity(p)
    /\ ~Admissible(req[p], txn.head, txn.commits, txn.objects)
    /\ Rollback
    /\ Finish(p)
    /\ UNCHANGED <<db, acks>>

\* INSERT OR IGNORE INTO immutable_objects
InsertObjects(p) ==
    /\ pc[p] = "valid"
    /\ txn' = [txn EXCEPT !.objects = @ \cup Rows(req[p])]
    /\ Goto(p, "objects")
    /\ UNCHANGED <<db, lock, req, acks>>

InsertCommit(p) ==
    /\ pc[p] = "objects"
    /\ txn' = [txn EXCEPT !.commits = Append(@, CommitOf(req[p], txn.head))]
    /\ Goto(p, "commit")
    /\ UNCHANGED <<db, lock, req, acks>>

\* INSERT INTO receipts and command_index, with no boundary between them
InsertReceipt(p) ==
    /\ pc[p] = "commit"
    /\ txn' = [txn EXCEPT !.receipts = @ \cup {Receipt(CommitOf(req[p], txn.head))}]
    /\ Goto(p, "receipt")
    /\ UNCHANGED <<db, lock, req, acks>>

\* INSERT or compare-and-swap UPDATE of accepted_head
MoveHead(p) ==
    /\ pc[p] = "receipt"
    /\ txn' = [txn EXCEPT !.head = CommitOf(req[p], txn.head).hash]
    /\ Goto(p, "head")
    /\ UNCHANGED <<db, lock, req, acks>>

\* COMMIT: the one step at which the transaction becomes durable.
CommitTransaction(p) ==
    /\ pc[p] = "head"
    /\ db' = txn
    /\ Rollback
    /\ Goto(p, "durable")
    /\ UNCHANGED <<req, acks>>

Return(p) ==
    /\ pc[p] = "durable"
    /\ acks' = acks \cup {Receipt(CommitOf(req[p], req[p].parent))}
    /\ Finish(p)
    /\ UNCHANGED <<db, lock, txn>>

-----------------------------------------------------------------------------
\* Death of a process (or an InjectedCrash at a hook): SQLite rolls the open
\* transaction back, by the exception handler or from the hot journal.

\* Faulty variant: every statement commits by itself (no BEGIN), so that death
\* leaves the tables as the statements so far made them.
CrashAutocommitted(p) ==
    /\ pc[p] \in {"sending", "durable"} \cup InTransaction
    /\ Goto(p, "crashed")
    /\ db' = IF lock = p THEN txn ELSE db
    /\ IF lock = p THEN Rollback ELSE UNCHANGED <<lock, txn>>
    /\ UNCHANGED <<req, acks>>

Crash(p) ==
    /\ pc[p] \in {"sending", "durable"} \cup InTransaction
    /\ Goto(p, "crashed")
    /\ IF lock = p THEN Rollback ELSE UNCHANGED <<lock, txn>>
    /\ UNCHANGED <<db, req, acks>>

\* The caller sends the identical request again.
Resend(p) ==
    /\ pc[p] = "crashed"
    /\ Goto(p, "sending")
    /\ UNCHANGED <<db, lock, txn, req, acks>>

\* The caller starts over, for this job or another one, on what it reads now.
StartOver(p) ==
    /\ pc[p] = "crashed"
    /\ Finish(p)
    /\ UNCHANGED <<db, lock, txn, acks>>

Accepting(p) ==
    \/ Begin(p) \/ BusyTimeout(p) \/ Replay(p) \/ Validate(p) \/ Reject(p)
    \/ InsertObjects(p) \/ InsertCommit(p) \/ InsertReceipt(p) \/ MoveHead(p)
    \/ CommitTransaction(p) \/ Return(p)

Next == \E p \in Process :
    \/ \E j \in Job : ReadCut(p, j)
    \/ BuildCommand(p)
    \/ Accepting(p)
    \/ Crash(p)
    \/ Resend(p)
    \/ StartOver(p)

Spec == Init /\ [][Next]_vars

\* A process that is not killed runs accept() to its end; callers need not call,
\* and nobody is obliged to crash, resend or start over.
FairSpec == Spec /\ \A p \in Process : WF_vars(Accepting(p))

-----------------------------------------------------------------------------

A == INSTANCE AcceptedHistory WITH log <- db.commits, acks <- acks

Tables == [objects : SUBSET RowType, commits : Seq(CommitType),
           receipts : SUBSET ReceiptType, head : AcceptedHead]

TypeOK ==
    /\ db \in Tables
    /\ txn \in Tables
    /\ lock \in Process \cup {Nobody}
    /\ pc \in [Process -> {"idle", "building", "sending", "durable", "crashed"}
                           \cup InTransaction]
    /\ req \in [Process -> Request \cup {NoRequest}]
    /\ acks \subseteq ReceiptType

\* Old or new, never between: at every moment, whichever processes died at
\* whichever persistence boundary, the committed head, object rows and receipts
\* are exactly those of the committed chain (store.py:822-869).
TablesAgree ==
    /\ db.head = HeadOf(db.commits)
    /\ db.objects = RowsOf(db.commits)
    /\ db.receipts = {Receipt(db.commits[n]) : n \in DOMAIN db.commits}

\* See AcceptedHistory for these; here the log is the committed table.
ChainIntact == A!ChainIntact
CommandsOnce == A!CommandsOnce
CutsAreEarlierHeads == A!CutsAreEarlierHeads
PriorStrictlyEarlier == A!PriorStrictlyEarlier
ContextContinuity == A!ContextContinuity
AcksAreCommitted == A!AcksAreCommitted

\* What a committed chain promises its readers: it is one hash chain, the cuts its
\* records name are heads it had, references point strictly back, one context holds
\* throughout, and no process was told of a commit that is not there.
HistoryIsSound ==
    /\ ChainIntact
    /\ CutsAreEarlierHeads
    /\ PriorStrictlyEarlier
    /\ ContextContinuity
    /\ AcksAreCommitted

\* The transactional store implements the abstract history: every step of every
\* process is an indivisible accept, an acknowledgement, or invisible.
ImplementsAcceptedHistory == A!Spec
=============================================================================
