-------------------------------- MODULE E1Inbox --------------------------------
(***************************************************************************)
(* E1ResultInbox (workflow/inbox.py): importers, each a process with its   *)
(* own inbox over the same campaign, take result archives (ZIPs) of the E1 *)
(* lanes, admit each by two commits (the evidence, then the result with    *)
(* its lane completion) and finalize the stage when every lane is in.      *)
(*                                                                         *)
(* accept() is one indivisible step here, which HistoryStoreProofs shows   *)
(* it is.  The accepted history is one chain, so that a head or a cut is   *)
(* its sequence number.  A ZIP stands for its exact bytes (its raw digest).*)
(***************************************************************************)
EXTENDS Naturals, Sequences, FiniteSets

CONSTANTS
    Importer,       \* processes with an inbox
    Slot,           \* lane slots of E1, each with one accepted assignment
    Zip,            \* result archives offered for import
    SlotOf,         \* [Zip -> Slot]: the lane a result is for
    Malformed,      \* archives the checks before the first commit reject
    Insufficient,   \* slots whose isolation is weaker than their lane requires
    Batches,        \* sequences of archives an operator imports in one call
    MaxElsewhere    \* bound on commits of other operators

ASSUME InboxAssumption ==
    /\ SlotOf \in [Zip -> Slot]
    /\ Malformed \subseteq Zip
    /\ Insufficient \subseteq Slot
    /\ Batches \subseteq Seq(Zip)
    /\ MaxElsewhere \in Nat

VARIABLES
    log,    \* accepted commits, from the one that handed the lanes out
    imp     \* each importer: its place in the code and its memory

vars == <<log, imp>>

-----------------------------------------------------------------------------
\* Commits, by the command identity and the objects the inbox looks at.  The
\* cut is that of the objects bound to the exact input head; 0 when none is.

NoZip == "no archive"
NoCut == 0

Handout       == [kind |-> "handout",    zip |-> NoZip, cut |-> NoCut]
OtherCommit   == [kind |-> "other",      zip |-> NoZip, cut |-> NoCut]
Evidence(z)   == [kind |-> "evidence",   zip |-> z,     cut |-> NoCut]
Result(z, c)  == [kind |-> "result",     zip |-> z,     cut |-> c]
Completion(c) == [kind |-> "completion", zip |-> NoZip, cut |-> c]

Commit == [kind : {"handout", "other", "evidence", "result", "completion"},
           zip  : Zip \cup {NoZip},
           cut  : Nat]

\* Command identities are derived from the assignment and the raw digest, and
\* for a stage completion from the digest of the object, which has its cut.
SameCommand(c, d) ==
    /\ c.kind = d.kind
    /\ c.kind \in {"evidence", "result", "completion"}
    /\ c.zip = d.zip
    /\ c.kind = "completion" => c.cut = d.cut

\* What accept() makes of command c sent with the given parent head.
Replayed(c, parent) ==
    \E n \in DOMAIN log : SameCommand(log[n], c) /\ parent = n - 1

Unseen(c) == \A n \in DOMAIN log : ~SameCommand(log[n], c)

HeadConflict(c, parent) == Unseen(c) /\ parent # Len(log)

Admitted(c, parent) ==
    /\ Unseen(c)
    /\ parent = Len(log)
    /\ c.cut \in {NoCut, Len(log)}
    /\ c.kind = "result" => \E n \in DOMAIN log : log[n] = Evidence(c.zip)

Succeeds(c, parent) == Replayed(c, parent) \/ Admitted(c, parent)

Accepts(c, parent) == log' = IF Admitted(c, parent) THEN Append(log, c) ELSE log

-----------------------------------------------------------------------------
\* What accepted_records finds at a cut.

EvidenceAt(cut, z) == \E n \in 1..cut : log[n] = Evidence(z)

ResultsAt(cut, s) ==
    {log[n].zip : n \in {m \in 1..cut : /\ log[m].kind = "result"
                                        /\ SlotOf[log[m].zip] = s}}

CompletionsAt(cut) == {n \in 1..cut : log[n].kind = "completion"}

\* _accepted_result_for_job and _load_accepted_state_from_store raise on a
\* second result of an assignment and on a second completion of E1.
Loadable(cut) ==
    /\ \A s \in Slot : Cardinality(ResultsAt(cut, s)) <= 1
    /\ Cardinality(CompletionsAt(cut)) <= 1

-----------------------------------------------------------------------------
\* Importers.

\* Steps that begin with _current_cut: head(), then commits(), whose last body
\* must be that head's.
CutReads == {"open", "assignment", "look", "recheck", "begin", "admitted",
             "reload", "summary", "finalize", "settle"}

\* Steps that read head() for the parent of a command, then send it.
Sends == {"evidence", "result", "completion"}

\* Steps of ingest_zip, whose exceptions become a REJECTED report.
Ingesting == {"assignment", "look", "recheck", "begin", "evidence", "admitted",
              "result", "reload"}

NoReport == [zip |-> NoZip, status |-> "NONE"]

ClosedInbox == [pc |-> "closed", queue |-> << >>, head |-> 0, cut |-> NoCut,
                retried |-> FALSE, known |-> {}, done |-> FALSE,
                report |-> NoReport]

Init ==
    /\ log = << Handout >>
    /\ imp = [p \in Importer |-> ClosedInbox]

\* Only importer p moves, to r.
Becomes(p, r) == imp' = [imp EXCEPT ![p] = r]

To(r, pc) == [r EXCEPT !.pc = pc, !.head = 0]

\* ingest_zip is over for the first archive of the call.
Decided(r, status) ==
    [r EXCEPT !.pc = "take", !.head = 0, !.cut = NoCut, !.retried = FALSE,
              !.queue = Tail(@),
              !.report = [zip |-> Head(r.queue), status |-> status]]

\* _load_accepted_state_from_store at the cut r.head.  It only ever adds.  (One
\* that raises leaves the lanes it had reached; they are forgotten here, since
\* no later load of a history that is not Loadable succeeds.)
Loaded(r) ==
    [r EXCEPT !.known = @ \cup {s \in Slot : ResultsAt(r.head, s) # {}},
              !.done  = @ \/ CompletionsAt(r.head) # {}]

\* An exception: reported for an archive, otherwise raised to the caller.
Failed(r) ==
    IF r.pc \in Ingesting THEN Decided(r, "REJECTED")
    ELSE IF r.pc = "open" THEN ClosedInbox
    ELSE To([r EXCEPT !.cut = NoCut], "idle")

ReadHead(p) ==
    /\ imp[p].pc \in CutReads \cup Sends
    /\ imp[p].head = 0
    /\ Becomes(p, [imp[p] EXCEPT !.head = Len(log)])
    /\ UNCHANGED log

\* commits() shows a later commit than head() did: integrity failure raised.
CutLost(p) ==
    /\ imp[p].pc \in CutReads
    /\ imp[p].head \notin {0, Len(log)}
    /\ Becomes(p, Failed(imp[p]))
    /\ UNCHANGED log

\* At a step whose _current_cut is imp[p].head.
AtCut(p, pc) == imp[p].pc = pc /\ imp[p].head = Len(log) /\ UNCHANGED log

AtSend(p, pc) == imp[p].pc = pc /\ imp[p].head # 0

-----------------------------------------------------------------------------
\* __init__

Open(p) ==
    /\ imp[p].pc = "closed"
    /\ Becomes(p, To(imp[p], "open"))
    /\ UNCHANGED log

Opened(p) ==
    /\ AtCut(p, "open")
    /\ Becomes(p, IF Loadable(imp[p].head) THEN To(Loaded(imp[p]), "idle")
                                           ELSE Failed(imp[p]))

-----------------------------------------------------------------------------
\* ingest_multiple_zips calls ingest_zip for each archive.

Import(p, batch) ==
    /\ imp[p].pc = "idle"
    /\ Becomes(p, [To(imp[p], "take") EXCEPT !.queue = batch])
    /\ UNCHANGED log

\* Faulty variant: a rejected archive stays first in the queue.
TakeKeepsRejected(p) ==
    /\ imp[p].pc = "take"
    /\ LET r == imp[p]
       IN  Becomes(p, IF r.queue = << >> THEN To(r, "summary")
                      ELSE IF Head(r.queue) \in Malformed
                      THEN [Decided(r, "REJECTED") EXCEPT !.queue = r.queue]
                      ELSE [To(r, "assignment") EXCEPT !.report = NoReport])
    /\ UNCHANGED log

\* The next archive: staged in the vault and checked against the assignment.
Take(p) ==
    /\ imp[p].pc = "take"
    /\ LET r == imp[p]
       IN  Becomes(p, IF r.queue = << >> THEN To(r, "summary")
                      ELSE IF Head(r.queue) \in Malformed THEN Decided(r, "REJECTED")
                      ELSE [To(r, "assignment") EXCEPT !.report = NoReport])
    /\ UNCHANGED log

FindAssignment(p) ==
    /\ AtCut(p, "assignment")
    /\ Becomes(p, To(imp[p], "look"))

\* Faulty variant: no look at the accepted results at all.
LookNowhere(p, pc) ==
    /\ AtCut(p, pc)
    /\ Becomes(p, To(imp[p], "begin"))

\* The accepted result of the same assignment, if there is one: this archive
\* again (EXACT_RETRY), or another one (CONFLICTING_RESULT_REJECTED).
Look(p, pc) ==
    /\ AtCut(p, pc)
    /\ LET r     == imp[p]
           z     == Head(r.queue)
           found == ResultsAt(r.head, SlotOf[z])
       IN  Becomes(p, IF found = {} THEN To(r, "begin")
                      ELSE IF found = {z} THEN To(r, "reload")
                      ELSE Decided(r, "REJECTED"))

\* Faulty variant: the evidence is sent whether it was accepted before or not.
BeginAnew(p) ==
    /\ AtCut(p, "begin")
    /\ Becomes(p, To(imp[p], "evidence"))

\* _accept_result: evidence accepted before (by a run that died, or by another
\* importer) is not sent again.
Begin(p) ==
    /\ AtCut(p, "begin")
    /\ LET r == imp[p]
       IN  Becomes(p, IF EvidenceAt(r.head, Head(r.queue))
                      THEN [To(r, "result") EXCEPT !.cut = r.head]
                      ELSE To(r, "evidence"))

\* The send of command c at step pc: on to next, or refused.  Only an expected
\* head conflict leads to a second attempt, and only once.
Send(p, pc, c, next) ==
    /\ AtSend(p, pc)
    /\ LET r == imp[p]
       IN  /\ Accepts(c, r.head)
           /\ Becomes(p, IF Succeeds(c, r.head) THEN To(r, next)
                         ELSE IF HeadConflict(c, r.head) /\ ~r.retried
                         THEN [To(r, "recheck") EXCEPT !.retried = TRUE]
                         ELSE Failed(r))

SendEvidence(p) ==
    imp[p].pc = "evidence" /\ Send(p, "evidence", Evidence(Head(imp[p].queue)), "admitted")

EvidenceAdmitted(p) ==
    /\ AtCut(p, "admitted")
    /\ Becomes(p, [To(imp[p], "result") EXCEPT !.cut = imp[p].head])

SendResult(p) ==
    imp[p].pc = "result" /\ Send(p, "result", Result(Head(imp[p].queue), imp[p].cut), "reload")

Reload(p) ==
    /\ AtCut(p, "reload")
    /\ Becomes(p, IF Loadable(imp[p].head) THEN Decided(Loaded(imp[p]), "ACCEPTED")
                                           ELSE Failed(imp[p]))

-----------------------------------------------------------------------------
\* The end of ingest_multiple_zips: finalize the stage when every lane is in.

\* Faulty variant: the completion that was read from the store is not looked at.
SummaryForgetsDone(p) ==
    /\ AtCut(p, "summary")
    /\ LET r == Loaded(imp[p])
       IN  Becomes(p, IF ~Loadable(imp[p].head) THEN Failed(imp[p])
                      ELSE IF r.known = Slot /\ Insufficient = {}
                      THEN To(r, "finalize") ELSE To(r, "idle"))

Summary(p) ==
    /\ AtCut(p, "summary")
    /\ LET r == Loaded(imp[p])
       IN  Becomes(p, IF ~Loadable(imp[p].head) THEN Failed(imp[p])
                      ELSE IF r.known = Slot /\ ~r.done /\ Insufficient = {}
                      THEN To(r, "finalize") ELSE To(r, "idle"))

\* _finalize_e1_stage_completion gathers the results and lane completions.
Finalize(p) ==
    /\ AtCut(p, "finalize")
    /\ LET r == imp[p]
       IN  Becomes(p, IF /\ \A s \in Slot : Cardinality(ResultsAt(r.head, s)) = 1
                         /\ Insufficient = {}
                      THEN [To(r, "completion") EXCEPT !.cut = r.head]
                      ELSE Failed(r))

\* Faulty variant: the inbox is marked complete before the commit.
SendCompletionEarly(p) ==
    /\ AtSend(p, "completion")
    /\ LET r == [imp[p] EXCEPT !.done = TRUE]
           c == Completion(r.cut)
       IN  /\ Accepts(c, r.head)
           /\ Becomes(p, IF Succeeds(c, r.head)
                         THEN [To(r, "settle") EXCEPT !.cut = NoCut] ELSE Failed(r))

SendCompletion(p) ==
    /\ AtSend(p, "completion")
    /\ LET r == imp[p]
           c == Completion(r.cut)
       IN  /\ Accepts(c, r.head)
           /\ Becomes(p, IF Succeeds(c, r.head)
                         THEN [To(r, "settle") EXCEPT !.done = TRUE, !.cut = NoCut]
                         ELSE Failed(r))

Settle(p) ==
    /\ AtCut(p, "settle")
    /\ Becomes(p, To(IF Loadable(imp[p].head) THEN Loaded(imp[p]) ELSE imp[p], "idle"))

-----------------------------------------------------------------------------

\* The database stays locked longer than the busy timeout of accept().
Unavailable(p) ==
    /\ imp[p].pc \in Sends
    /\ imp[p].head # 0
    /\ Becomes(p, Failed(imp[p]))
    /\ UNCHANGED log

\* The process dies; its inbox is gone, the history stays.
Crash(p) ==
    /\ imp[p].pc # "closed"
    /\ Becomes(p, ClosedInbox)
    /\ UNCHANGED log

\* Another operator records something else in the campaign.
Elsewhere ==
    /\ Cardinality({n \in DOMAIN log : log[n] = OtherCommit}) < MaxElsewhere
    /\ log' = Append(log, OtherCommit)
    /\ UNCHANGED imp

\* What a process does by itself, once called.
Working(p) ==
    \/ ReadHead(p) \/ CutLost(p) \/ Opened(p)
    \/ Take(p) \/ FindAssignment(p) \/ Look(p, "look") \/ Look(p, "recheck")
    \/ Begin(p) \/ SendEvidence(p) \/ EvidenceAdmitted(p) \/ SendResult(p)
    \/ Reload(p) \/ Summary(p) \/ Finalize(p) \/ SendCompletion(p) \/ Settle(p)

Next ==
    \/ \E p \in Importer :
          \/ Working(p) \/ Open(p) \/ Unavailable(p) \/ Crash(p)
          \/ \E batch \in Batches : Import(p, batch)
    \/ Elsewhere

Spec == Init /\ [][Next]_vars

\* A process that is not killed runs the call it is in to its end.
FairSpec == Spec /\ \A p \in Importer : WF_vars(Working(p))

-----------------------------------------------------------------------------

Inbox ==
    [pc : {"closed", "idle", "take"} \cup CutReads \cup Sends,
     queue : Seq(Zip), head : Nat, cut : Nat, retried : BOOLEAN,
     known : SUBSET Slot, done : BOOLEAN,
     report : [zip : Zip \cup {NoZip}, status : {"NONE", "ACCEPTED", "REJECTED"}]]

TypeOK == log \in Seq(Commit) /\ imp \in [Importer -> Inbox]

\* An assignment has at most one accepted result, whatever archives are imported
\* for it, by whom, and wherever a process dies (inbox.py:467-504).
OneResultPerAssignment == \A s \in Slot : Cardinality(ResultsAt(Len(log), s)) <= 1

\* E1 is completed at most once (inbox.py:254-257, 645-652).  Two inboxes that
\* decide to finalize before either commits both complete it, so that this is
\* what one importer gets, and NoneCompletesAgain what several do.
OneStageCompletion == Cardinality(CompletionsAt(Len(log))) <= 1

\* Inboxes between the decision to finalize E1 and the commit that does.
Finalizing == {p \in Importer : imp[p].pc \in {"finalize", "completion"}}

\* However many inboxes race to finalize E1, none sets out to once it is
\* complete: each completion after the first was decided on before the first,
\* by an inbox of its own, so that there is never more than one for each inbox,
\* those still on their way included (inbox.py:642-653, 669-785).
NoneCompletesAgain ==
    CompletionsAt(Len(log)) # {} =>
        Cardinality(CompletionsAt(Len(log))) + Cardinality(Finalizing)
            <= Cardinality(Importer)

\* A report ACCEPTED is about a result the history has, also when the importer
\* lost a race and found out by looking again (inbox.py:467-512).
AcceptedIsDurable ==
    \A p \in Importer :
        imp[p].report.status = "ACCEPTED"
          => imp[p].report.zip \in ResultsAt(Len(log), SlotOf[imp[p].report.zip])

\* The inbox believes nothing the history does not hold: a lane it shows as
\* accepted has a result and a stage it shows as complete has a completion
\* (inbox.py:200-264, 783).
MemoryIsBacked ==
    \A p \in Importer :
        /\ \A s \in imp[p].known : ResultsAt(Len(log), s) # {}
        /\ imp[p].done => CompletionsAt(Len(log)) # {}

\* What an inbox says, in a report or in its memory, the history holds.
ReportsAreBacked == AcceptedIsDurable /\ MemoryIsBacked

\* Every import call returns: no retry, rejection or lost race repeats forever.
ImportReturns ==
    \A p \in Importer : imp[p].pc = "take" ~> imp[p].pc \in {"idle", "closed"}

\* A death or a timeout, and not what the code does by itself: an import that
\* is refused again and again is no excuse.
Disturbed == \E p \in Importer : (Unavailable(p) \/ Crash(p)) /\ ~Working(p)

\* A result whose acceptance was cut off at any point, also between its two
\* commits, gets in when its archive is imported again and again, if only
\* deaths and timeouts end (inbox.py:523-551).
ReimportRecovers ==
    \A z \in Zip \ Malformed :
        /\ <>[][~Disturbed]_vars
        /\ []<><<\E p \in Importer : Import(p, <<z>>)>>_vars
        => <>(ResultsAt(Len(log), SlotOf[z]) # {})
=============================================================================
