----------------------------- MODULE CrashHarness -----------------------------
(***************************************************************************)
(* Crash tests on the durable harness (deepen/crash.py): accept_record     *)
(* writes a record and the head in one transaction, dies at the boundary   *)
(* the crash point names, and run_crash_test then checks what is durable   *)
(* and sends the record again.                                             *)
(***************************************************************************)
EXTENDS Naturals, FiniteSets

CONSTANTS
    RecordId, Payload,
    MaxTests        \* bound on the crash tests run one after the other

ASSUME CrashAssumption == "absent" \notin Payload /\ "none" \notin RecordId

Boundaries == {"BEFORE_DURABLE_ACCEPTANCE", "DURING_BOUNDARY",
               "AFTER_DURABLE_ACCEPTANCE", "BEFORE_COMMIT", "AFTER_COMMIT_BEFORE_ACK"}
AfterCommit == {"AFTER_DURABLE_ACCEPTANCE", "AFTER_COMMIT_BEFORE_ACK"}

VARIABLES
    records,    \* durable_records: the payload of each accepted record
    headRow,    \* durable_head: [last, version]; version 0 before the first
    written,    \* rows of the open transaction: a set of at most one record id
    test,       \* the running test: [id, payload, boundary, phase, retry,
                \*   crashed, accepted (accepted_before_crash), start (version)]
    report,     \* the last result: [status, retried, id, payload, ...]
    tests       \* tests begun

crashVars == <<records, headRow, written, test, report, tests>>

NoPayload == "absent"
NoTest == [phase |-> "idle"]
NoReport == [status |-> "none"]

CrashInit ==
    /\ records = [r \in RecordId |-> NoPayload]
    /\ headRow = [last |-> "none", version |-> 0]
    /\ written = {} /\ test = NoTest /\ report = NoReport /\ tests = 0

\* run_crash_test(record_id, payload, crash_point).
BeginTest(r, p, b) ==
    /\ test = NoTest /\ tests < MaxTests
    /\ test' = [id |-> r, payload |-> p, boundary |-> b, phase |-> "look",
                retry |-> FALSE, crashed |-> FALSE, accepted |-> FALSE,
                start |-> headRow.version, known |-> records[r] # NoPayload]
    /\ tests' = tests + 1
    /\ report' = NoReport
    /\ UNCHANGED <<records, headRow, written>>

\* The crash point is given to the first call only.
Point == IF test.retry THEN "none" ELSE test.boundary

\* What the call of accept_record returned ends the test, or begins its second half.
Returned(known) ==
    IF test.retry
    THEN /\ report' = [status |-> IF test.accepted THEN "RECOVERED_CLEAN"
                                                   ELSE "RECOVERED_ROLLEDBACK",
                       already |-> known, id |-> test.id, payload |-> test.payload,
                       boundary |-> test.boundary, start |-> test.start,
                       crashed |-> test.crashed, known |-> test.known]
         /\ test' = NoTest
    ELSE test' = [test EXCEPT !.phase = "restart"] /\ UNCHANGED report

\* The record is there already: the same payload is answered, another one is
\* refused, which ends the test with CONFLICTING_RETRY.
Known ==
    /\ test.phase = "look" /\ records[test.id] # NoPayload
    /\ IF records[test.id] = test.payload
       THEN Returned(TRUE)
       ELSE test' = NoTest /\ UNCHANGED report
    /\ UNCHANGED <<records, headRow, written, tests>>

\* The process dies: what its transaction wrote is gone.
Die(accepted) ==
    /\ written' = {}
    /\ test' = [test EXCEPT !.phase = "restart", !.crashed = TRUE,
                            !.accepted = accepted]
    /\ UNCHANGED <<records, headRow, report, tests>>

DieBefore ==
    /\ test.phase = "look" /\ records[test.id] = NoPayload
    /\ Point = "BEFORE_DURABLE_ACCEPTANCE"
    /\ Die(FALSE)

Insert ==
    /\ test.phase = "look" /\ records[test.id] = NoPayload
    /\ Point # "BEFORE_DURABLE_ACCEPTANCE"
    /\ written' = {test.id}
    /\ test' = [test EXCEPT !.phase = "inserted"]
    /\ UNCHANGED <<records, headRow, report, tests>>

\* Faulty variant: the insert was not part of a transaction.
DieDuringAutocommitted ==
    /\ test.phase = "inserted" /\ Point = "DURING_BOUNDARY"
    /\ records' = [records EXCEPT ![test.id] = test.payload]
    /\ written' = {}
    /\ test' = [test EXCEPT !.phase = "restart", !.crashed = TRUE]
    /\ UNCHANGED <<headRow, report, tests>>

DieDuring ==
    /\ test.phase = "inserted" /\ Point = "DURING_BOUNDARY"
    /\ Die(FALSE)

\* The head row moves with the record, in one COMMIT.
CommitRecord ==
    /\ test.phase = "inserted" /\ Point # "DURING_BOUNDARY"
    /\ records' = [records EXCEPT ![test.id] = test.payload]
    /\ headRow' = [last |-> test.id, version |-> headRow.version + 1]
    /\ written' = {}
    /\ test' = [test EXCEPT !.phase = "committed"]
    /\ UNCHANGED <<report, tests>>

DieAfter ==
    /\ test.phase = "committed" /\ Point \in AfterCommit
    /\ Die(TRUE)

Answer ==
    /\ test.phase = "committed" /\ Point \notin AfterCommit
    /\ Returned(FALSE)
    /\ UNCHANGED <<records, headRow, written, tests>>

HeadExists == headRow.version > 0 => records[headRow.last] # NoPayload

\* After the restart the invariants are checked on a new connection; if they
\* hold, the record is sent again without a crash point.
Restart ==
    /\ test.phase = "restart"
    /\ IF HeadExists
       THEN test' = [test EXCEPT !.phase = "look", !.retry = TRUE] /\ UNCHANGED report
       ELSE test' = NoTest /\ report' = [status |-> "INVARIANT_FAILED"]
    /\ UNCHANGED <<records, headRow, written, tests>>

CrashNext ==
    \/ \E r \in RecordId, p \in Payload, b \in Boundaries : BeginTest(r, p, b)
    \/ Known \/ DieBefore \/ Insert \/ DieDuring \/ CommitRecord \/ DieAfter
    \/ Answer \/ Restart

CrashSpec == CrashInit /\ [][CrashNext]_crashVars

-----------------------------------------------------------------------------

CrashTypeOK ==
    /\ records \in [RecordId -> Payload \union {NoPayload}]
    /\ headRow.version \in Nat /\ headRow.last \in RecordId \union {"none"}
    /\ written \in SUBSET RecordId

\* Whatever crash point a test used, its record is durable when it returned, and
\* was committed by exactly one of its two calls: the version counts the records,
\* a crash after the commit is recovered without writing again, a crash before it
\* leaves nothing and the retry writes the record.
EachTestCommitsOnce ==
    report.status # "none" =>
        /\ report.status # "INVARIANT_FAILED"
        /\ records[report.id] = report.payload
        /\ headRow.version = Cardinality({r \in RecordId : records[r] # NoPayload})
        /\ headRow.version = report.start + (IF report.known THEN 0 ELSE 1)
        /\ report.status = "RECOVERED_CLEAN" => report.already /\ ~report.known
        /\ report.crashed /\ report.boundary \notin AfterCommit => ~report.already
=============================================================================
