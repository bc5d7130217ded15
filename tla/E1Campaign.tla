------------------------------ MODULE E1Campaign ------------------------------
(***************************************************************************)
(* E1 from its preparation to its completion: prepare_e1_orchestration     *)
(* (workflow/orchestrator.py, assignments.py, packaging.py) has the stage  *)
(* and its lanes specified, hands all lanes out by one commit and publishes*)
(* a package and a receipt for each; resume_campaign (package_resume.py)   *)
(* loads them again; the results come in through E1Inbox.                  *)
(*                                                                         *)
(* A preparation takes several commits and many files.  It can die between *)
(* any two of them, be refused by a rival's commit, and be called again.   *)
(***************************************************************************)
EXTENDS E1Inbox

CONSTANTS
    Preparer,       \* processes that prepare E1
    Model,          \* executor and model settings
    Order           \* the lane slots, in the order they are prepared in

ASSUME PreparationAssumption ==
    /\ Order \in Seq(Slot)
    /\ Slot = {Order[i] : i \in DOMAIN Order}
    /\ \A i, j \in DOMAIN Order : Order[i] = Order[j] => i = j

VARIABLES
    plan,       \* accepted commits between the genesis and the hand-out
    bound,      \* the settings in the assignments, when they are handed out
    prep,       \* each preparer: its place in the code and its memory
    packages,   \* published packages
    receipts    \* packages whose receipt is published

files == <<packages, receipts>>
campaign == <<vars, plan, bound, prep, files>>

-----------------------------------------------------------------------------
\* The history is the genesis, plan, then log, which begins with the hand-out.

NoModel == "no model"

HandedOut == log # << >>

HeadSeq == 1 + Len(plan) + Len(log)

StageSpec   == [kind |-> "stage", of |-> "E1"]
LaneSpec(s) == [kind |-> "lane", of |-> s]

Specified(c) == \E n \in DOMAIN plan : plan[n] = c

MissingLanes == SelectSeq(Order, LAMBDA s : ~Specified(LaneSpec(s)))

\* A package of a lane: its digest covers the assignment, with its settings and
\* its own input cut, and not the cut of the moment.
Package(s, m) == [slot |-> s, model |-> m]

-----------------------------------------------------------------------------
\* load_e1_batch: one package for each lane, each with its receipt, and each of
\* an accepted assignment.

Loads ==
    /\ HandedOut
    /\ packages \subseteq receipts
    /\ \A pkg \in packages : pkg.model = bound
    /\ \A s \in Slot : Cardinality({pkg \in packages : pkg.slot = s}) = 1

\* What resume_campaign answers before E1 is complete.
ResumeSays ==
    IF Loads THEN "E1"
    ELSE IF packages = {} /\ ~HandedOut
    THEN IF Specified(StageSpec) THEN "PREPARE_E1_ORCHESTRATION" ELSE "PREPARE_STAGE_E1"
    ELSE "ERROR"

-----------------------------------------------------------------------------
\* prepare_e1_orchestration.  head is the parent of the command under way, 0 when
\* none is read; lanes are those still to specify; made counts published files;
\* batch: the preparation returned, and its process has the batch.

Resting == [pc |-> "idle", model |-> NoModel, head |-> 0, lanes |-> << >>,
            made |-> 0, batch |-> FALSE]

CampaignInit ==
    /\ log = << >>
    /\ imp = [p \in Importer |-> ClosedInbox]
    /\ plan = << >>
    /\ bound = NoModel
    /\ prep = [q \in Preparer |-> Resting]
    /\ packages = {}
    /\ receipts = {}

Now(q, r) == prep' = [prep EXCEPT ![q] = r]

Moves(q, r) == Now(q, r) /\ UNCHANGED <<vars, plan, bound, files>>

\* The call returned, or it raised.
Ended(r) == [Resting EXCEPT !.batch = r.batch]

Doing(q, pc) == prep[q].pc = pc

Unparented(q, pc) == Doing(q, pc) /\ prep[q].head = 0

Prepare(q, m) ==
    /\ Doing(q, "idle")
    /\ Moves(q, [Resting EXCEPT !.pc = "status", !.model = m])

\* The first status: is there a stage?
ReadStatus(q) ==
    /\ Doing(q, "status")
    /\ Moves(q, [prep[q] EXCEPT !.pc = IF Specified(StageSpec) THEN "lanes" ELSE "stage"])

\* prepare_stage, up to its parent; it refuses a stage that is there by now.
BeginStage(q) ==
    /\ Unparented(q, "stage")
    /\ Moves(q, IF Specified(StageSpec) THEN Ended(prep[q])
                ELSE [prep[q] EXCEPT !.head = HeadSeq])

\* The second status: which lanes are missing?
ReadLanes(q) ==
    /\ Doing(q, "lanes")
    /\ Moves(q, [prep[q] EXCEPT !.lanes = MissingLanes,
                                !.pc = IF MissingLanes = << >> THEN "assign" ELSE "lane"])

\* prepare_lane, up to its parent; it does not look for the lane.
BeginLane(q) ==
    /\ Unparented(q, "lane")
    /\ Moves(q, [prep[q] EXCEPT !.head = HeadSeq])

\* The command with c: accepted at its exact parent, answered as before when this
\* very command is what follows the parent, and otherwise refused.  (A lane that
\* is specified again after the hand-out is one more commit for E1Inbox.)
Commits(q, c, r) ==
    LET head == prep[q].head
    IN  /\ head # 0
        /\ UNCHANGED <<imp, bound, files>>
        /\ IF head = HeadSeq
           THEN /\ IF HandedOut THEN log' = Append(log, OtherCommit) /\ UNCHANGED plan
                   ELSE plan' = Append(plan, c) /\ UNCHANGED log
                /\ Now(q, r)
           ELSE /\ UNCHANGED <<log, plan>>
                /\ Now(q, IF head \in DOMAIN plan /\ plan[head] = c THEN r ELSE Ended(prep[q]))

SendStage(q) ==
    Doing(q, "stage") /\ Commits(q, StageSpec, [prep[q] EXCEPT !.pc = "lanes", !.head = 0])

SendLane(q) ==
    /\ Doing(q, "lane")
    /\ LET rest == Tail(prep[q].lanes)
       IN  Commits(q, LaneSpec(Head(prep[q].lanes)),
                   [prep[q] EXCEPT !.head = 0, !.lanes = rest,
                                   !.pc = IF rest = << >> THEN "assign" ELSE "lane"])

\* Faulty variant: accepted assignments are taken whatever their settings are.
BeginHandOutAsIs(q) ==
    /\ Unparented(q, "assign")
    /\ Moves(q, IF HandedOut THEN [prep[q] EXCEPT !.pc = "files"]
                ELSE [prep[q] EXCEPT !.head = HeadSeq])

\* prepare_e1_assignments at a cut: the accepted assignments, if there are any; of
\* other settings, they are refused (ASSIGNMENT_PROFILE_DRIFT).
BeginHandOut(q) ==
    /\ Unparented(q, "assign")
    /\ LET r == prep[q]
       IN  Moves(q, IF MissingLanes # << >> THEN Ended(r)
                    ELSE IF ~HandedOut THEN [r EXCEPT !.head = HeadSeq]
                    ELSE IF bound = r.model THEN [r EXCEPT !.pc = "files"]
                    ELSE Ended(r))

\* One commit for all lanes.  Its identity is of the parent alone, and an answer to
\* a rival's is taken for one's own, settings and all.
SendHandOut(q) ==
    /\ Doing(q, "assign") /\ prep[q].head # 0
    /\ LET r    == prep[q]
           goes == [r EXCEPT !.pc = "files", !.head = 0]
       IN  IF r.head = HeadSeq /\ ~HandedOut
           THEN /\ log' = << Handout >> /\ bound' = r.model /\ Now(q, goes)
                /\ UNCHANGED <<imp, plan, files>>
           ELSE Moves(q, IF HandedOut /\ r.head = 1 + Len(plan) THEN goes ELSE Ended(r))

\* Faulty variant: a file that is there already stops the publication.
PublishOnce(q) ==
    /\ Doing(q, "files")
    /\ UNCHANGED <<vars, plan, bound>>
    /\ LET r    == prep[q]
           made == r.made
           pkg  == Package(Order[(made \div 2) + 1], r.model)
       IN  IF made = 2 * Len(Order)
           THEN Now(q, [r EXCEPT !.pc = "inbox"]) /\ UNCHANGED files
           ELSE IF made % 2 = 0
           THEN /\ packages' = packages \cup {pkg} /\ UNCHANGED receipts
                /\ Now(q, IF pkg \in packages THEN Ended(r) ELSE [r EXCEPT !.made = made + 1])
           ELSE /\ receipts' = receipts \cup {pkg} /\ UNCHANGED packages
                /\ Now(q, [r EXCEPT !.made = made + 1])

\* _publish_exact: the package of the next lane, then its receipt; what is there
\* already is the same, bytes and all.
Publish(q) ==
    /\ Doing(q, "files")
    /\ UNCHANGED <<vars, plan, bound>>
    /\ LET r    == prep[q]
           made == r.made
           pkg  == Package(Order[(made \div 2) + 1], r.model)
       IN  IF made = 2 * Len(Order)
           THEN Now(q, [r EXCEPT !.pc = "inbox"]) /\ UNCHANGED files
           ELSE /\ Now(q, [r EXCEPT !.made = made + 1])
                /\ IF made % 2 = 0 THEN packages' = packages \cup {pkg} /\ UNCHANGED receipts
                   ELSE receipts' = receipts \cup {pkg} /\ UNCHANGED packages

\* E1ResultInbox(store, batch) in the same process.
MakeInbox(q) ==
    /\ Doing(q, "inbox")
    /\ Moves(q, [Ended(prep[q]) EXCEPT !.batch = Loadable(Len(log))])

Stops(q) == prep[q] # Resting /\ Moves(q, Resting)

Prepares(q) ==
    \/ ReadStatus(q) \/ BeginStage(q) \/ SendStage(q)
    \/ ReadLanes(q) \/ BeginLane(q) \/ SendLane(q)
    \/ BeginHandOut(q) \/ SendHandOut(q)
    \/ Publish(q) \/ MakeInbox(q)

-----------------------------------------------------------------------------
\* The importers are processes that resumed the campaign: they have a batch.

Rest == <<plan, bound, prep, files>>

OpensBatch(p) == Loads /\ Open(p) /\ UNCHANGED Rest

Imports(p) ==
    /\ Working(p) \/ Crash(p) \/ \E batch \in Batches : Import(p, batch)
    /\ UNCHANGED Rest

ElsewhereToo == HandedOut /\ Elsewhere /\ UNCHANGED Rest

CampaignNext ==
    \/ \E q \in Preparer : Prepares(q) \/ Stops(q) \/ \E m \in Model : Prepare(q, m)
    \/ \E p \in Importer : OpensBatch(p) \/ Imports(p)
    \/ ElsewhereToo

CampaignSpec == CampaignInit /\ [][CampaignNext]_campaign

-----------------------------------------------------------------------------
\* When a preparation has returned its batch, the campaign resumes, whatever
\* preparations died before or run beside it (packaging.py, package_resume.py).
PreparedResumes == \A q \in Preparer : prep[q].batch => ResumeSays = "E1"

\* Called again and again, with the settings of the assignments when there are any,
\* the preparation gets to packages that load, wherever earlier calls died, if only
\* the deaths end (packaging.py:269-286).
PreparationRecovers ==
    /\ <>[][~\E q \in Preparer : Stops(q) /\ ~Prepares(q)]_campaign
    /\ \E m \in Model :
          []<><<bound \in {NoModel, m} /\ \E q \in Preparer : Prepare(q, m)>>_campaign
    => <>(ResumeSays = "E1")
=============================================================================
