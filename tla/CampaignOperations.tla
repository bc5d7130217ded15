--------------------------- MODULE CampaignOperations ---------------------------
(***************************************************************************)
(* The operations on a campaign (coordinator/operations.py with its E6     *)
(* hooks, continuation_service.py, evaluate_stop_gate): operators, each a  *)
(* process over one history, create the campaign, prepare its stages and   *)
(* lanes, evaluate STOP and ask what is next.  Every operation reads a     *)
(* status, then a head, then sends one command for that head, and another  *)
(* operator may come in between.                                           *)
(*                                                                         *)
(* The work of the stages (E1Inbox, StageCampaign) is here a record or a   *)
(* completion that appears, and so is the conclusion (Finalization).  Of   *)
(* E6 only the calls occur: no STOP that requires it is ever accepted      *)
(* (EvaluationsAreAccepted), so that nothing is generated from one.        *)
(***************************************************************************)
EXTENDS StopRules

CONSTANTS
    Operator,       \* processes that call the operations
    Campaign,       \* campaign identities (seeds) offered for creation
    Slot,           \* lane slots
    Body,           \* what a lane specification may say (revision, assurance)
    Thing,          \* obligations, contradictions, scopes and risks, by key
    Asked,          \* the STOP requests that are made
    Beginning       \* histories a behaviour starts from

ASSUME OperationsAssumption ==
    /\ Asked \subseteq Request
    /\ << >> \in Beginning

\* What commits say, of the kinds the rules read.  No STOP that requires E6 is ever
\* accepted (Recomputed, below).
Speaks(c) ==
    /\ c.kind = "stop" => c.says \in Decision \ {"E6_REQUIRED"}
    /\ c.kind = "scope" => c.says \in {"KNOWN", "UNKNOWN", "FAILED"}
    /\ c.kind = "challenge" => c.says \in {"CLOSED", "INCONCLUSIVE", "COUNTEREVIDENCE"}
    /\ c.kind = "risk" => c.says \in {"OPEN", "ACCEPTED", "BLOCKING", "SUPERSEDED"}

\* A baseline stage comes after those before it in the plan.
InOrder(h) ==
    \A n \in DOMAIN h, i \in DOMAIN Baseline :
        h[n].kind = "stage" /\ h[n].of = Baseline[i] =>
            \A j \in 1..(i - 1) : Prepared(h, n - 1, Baseline[j])

\* A STOP that passes was decided on a history clean at its parent.
PassesOnClean(h) ==
    \A n \in Of(h, Len(h), "stop") : h[n].says = "PASS" => Clean(h, n - 1)

\* A behaviour starts where an earlier one from an empty file may have stopped.
ASSUME BeginningAssumption ==
    \A h \in Beginning :
        /\ h \in Seq({h[n] : n \in DOMAIN h})
        /\ \A n \in DOMAIN h : Speaks(h[n])
        /\ InOrder(h)
        /\ PassesOnClean(h)

VARIABLES
    log,    \* accepted commits
    op      \* each operator: its call and what the last one reported

vars == <<log, op>>

-----------------------------------------------------------------------------
\* The status (project_status) at a cut.

HeadSeq == Len(log)

Stages == BaselineStage \cup {"E6"}

\* An accepted lane of E1 to E5 has one specification; the same object accepted
\* twice is one.
Readable(c) ==
    /\ c > 0
    /\ \A m, n \in Of(log, c, "lane") :
          log[m].of = log[n].of /\ log[n].of[1] # "E6" => log[m].says = log[n].says

Open(c) == Of(log, c, "conclusion") = {}

Unfinished(c) == Prepared(log, c, "E6") /\ ~Completed(log, c, "E6")

LatestStop(c) == log[Newest(Of(log, c, "stop"))].says

\* The first stage of the order that is not prepared: for which prepare_stage asks.
Expected(c) == {Baseline[i] : i \in {j \in DOMAIN Baseline :
                  /\ ~Prepared(log, c, Baseline[j])
                  /\ \A k \in 1..(j - 1) : Prepared(log, c, Baseline[k])}}

-----------------------------------------------------------------------------
\* Calls.  doing is the command being made, seen the cut of the status, head the
\* parent of the command, cut a later cut (E6, STOP, continuation).

Nothing == Commit("nothing", "", "")

Idle == [pc |-> "idle", doing |-> Nothing, seen |-> 0, head |-> 0, cut |-> 0,
         asked |-> [context |-> "INTERMEDIATE", approved |-> FALSE, adds |-> {}],
         report |-> Nothing]

Init ==
    /\ log \in Beginning
    /\ op = [p \in Operator |-> Idle]

Becomes(p, r) == op' = [op EXCEPT ![p] = r]

Reports(p, c) == Becomes(p, [Idle EXCEPT !.report = c])

Raises(p) == Reports(p, Nothing)

\* A step that only reads the store, and goes on at r or raises.
Reads(p, may, r) ==
    /\ Becomes(p, IF may THEN r ELSE [Idle EXCEPT !.report = Nothing])
    /\ UNCHANGED log

At(p, pc) == op[p].pc = pc

Call(p, pc, d) == [Idle EXCEPT !.pc = pc, !.doing = d, !.seen = HeadSeq]

\* create_campaign: the file holds no history.
Create(p, camp) ==
    /\ At(p, "idle")
    /\ Reads(p, HeadSeq = 0, [Call(p, "send", Commit("genesis", camp, "")) EXCEPT !.head = 0])

\* prepare_stage and prepare_lane begin with the status.
PrepareStage(p, s) ==
    /\ At(p, "idle")
    /\ Reads(p, Readable(HeadSeq), Call(p, "head", Commit("stage", s, "")))

PrepareLane(p, s, slot, body) ==
    /\ At(p, "idle")
    /\ Reads(p, Readable(HeadSeq), Call(p, "head", Commit("lane", << s, slot >>, body)))

\* Faulty variant: the stages of the order are not waited for.
StageWantedUnordered(c, s) ==
    /\ Open(c)
    /\ IF s = "E6" THEN Completed(log, c, "E5") /\ ~Unfinished(c) ELSE ~Prepared(log, c, s)

StageWanted(c, s) ==
    /\ Open(c)
    /\ IF s = "E6" THEN Completed(log, c, "E5") /\ ~Unfinished(c) ELSE s \in Expected(c)

\* What the status must say for the command.
Wanted(c, d) ==
    IF d.kind = "stage" THEN StageWanted(c, d.of) ELSE Prepared(log, c, d.of[1])

IsE6(d) == d.kind = "stage" /\ d.of = "E6"

\* The head is taken after the status was, and what is checked is the status.
TakeHead(p) ==
    /\ At(p, "head")
    /\ LET r == op[p]
       IN  Reads(p, Wanted(r.seen, r.doing),
                 [r EXCEPT !.head = HeadSeq, !.pc = IF IsE6(r.doing) THEN "stop" ELSE "send"])

\* The newest STOP, at a cut of its own.
TakeStop(p) ==
    /\ At(p, "stop")
    /\ Reads(p, Of(log, HeadSeq, "stop") # {}, [op[p] EXCEPT !.pc = "generate", !.cut = HeadSeq])

\* The baseline of E6: its last revision, or E5, and it is completed.
BaselineCompleted(c) ==
    IF Prepared(log, c, "E6") THEN Completed(log, c, "E6") ELSE Completed(log, c, "E5")

\* generate_e6_spec_from_store, at another cut: the STOP is still the newest, is
\* the last commit there, and requires E6.
Generates(c, stop) ==
    /\ Newest(Of(log, c, "stop")) = stop
    /\ stop = c
    /\ log[stop].says = "E6_REQUIRED"
    /\ BaselineCompleted(c)

Generate(p) ==
    /\ At(p, "generate")
    /\ Reads(p, Generates(HeadSeq, Newest(Of(log, op[p].cut, "stop"))),
             [op[p] EXCEPT !.pc = "send", !.cut = HeadSeq])

-----------------------------------------------------------------------------
\* evaluate_stop_gate: the head, the input at a cut taken after it, the decision.

Evaluate(p, req) ==
    /\ At(p, "idle")
    /\ req \in Asked
    /\ Reads(p, HeadSeq > 0, [Call(p, "build", Nothing) EXCEPT !.head = HeadSeq, !.asked = req])

\* The builder wants an inventory, which the scope baseline of E3 accepts.
HasInventory(c) == Completed(log, c, "E2")

Build(p) ==
    /\ At(p, "build")
    /\ Reads(p, HasInventory(HeadSeq),
             [op[p] EXCEPT !.pc = "send", !.cut = HeadSeq,
                           !.doing = Commit("stop", "", Decide(log, HeadSeq, op[p].asked))])

-----------------------------------------------------------------------------
\* One command.

\* Command identities are made of these and the number the commit is to have.  The
\* identity of a lane is of its slot, and does not cover its body.
SameCommand(c, d) ==
    /\ c.kind = d.kind
    /\ c.kind \in {"genesis", "stage", "lane"}
    /\ c.of = d.of

\* The store decides again from the input alone: the input does not say that a plan
\* for E6 is approved (_validate_stop_evaluation_outcomes).
Recomputed(r) == Decide(log, r.cut, [r.asked EXCEPT !.approved = FALSE])

\* The store wants the exact head, and objects made at it.
Accepted(r) ==
    /\ r.head = HeadSeq
    /\ r.doing.kind = "stop" => r.cut = HeadSeq /\ r.doing.says = Recomputed(r)
    /\ IsE6(r.doing) => r.cut = HeadSeq /\ Generates(HeadSeq, Newest(Of(log, HeadSeq, "stop")))

\* Faulty variant: the identity of a stage preparation is only its number.
RepeatsByNumber(r) == r.head < HeadSeq /\ log[r.head + 1].kind = r.doing.kind

\* Answered as before: the command is in the history already.
Repeats(r) == r.head < HeadSeq /\ SameCommand(log[r.head + 1], r.doing)

Send(p) ==
    /\ At(p, "send")
    /\ LET r == op[p]
       IN  IF Accepted(r)
           THEN log' = Append(log, r.doing) /\ Reports(p, r.doing)
           ELSE UNCHANGED log /\ IF Repeats(r) THEN Reports(p, r.doing) ELSE Raises(p)

-----------------------------------------------------------------------------
\* continue_campaign.  An answer is reported as [kind, of, says]: "advice", the
\* operation, its stage.

Advice(o, s) == Commit("advice", o, s)

\* The stages that are not completed, the first of them.
FirstIncomplete(c) ==
    Baseline[CHOOSE i \in DOMAIN Baseline :
                /\ ~Completed(log, c, Baseline[i])
                /\ \A j \in 1..(i - 1) : Completed(log, c, Baseline[j])]

\* Faulty variant: a stage counts as done when it is prepared.
ProgressPrepared(s) ==
    IF \A t \in BaselineStage : Prepared(log, s, t) THEN Advice("EVALUATE_STOP_GATE", "")
    ELSE Advice("PREPARE_STAGE", CHOOSE t \in Expected(s) : TRUE)

Progress(s) ==
    IF \A t \in BaselineStage : Completed(log, s, t) THEN Advice("EVALUATE_STOP_GATE", "")
    ELSE IF Prepared(log, s, FirstIncomplete(s)) THEN Advice("QUALIFY_STAGE", FirstIncomplete(s))
    ELSE Advice("PREPARE_STAGE", FirstIncomplete(s))

\* evaluate_continuation: STOP evaluations at cut c, everything else at cut s.
\* After a conclusion it is about the finalization (Finalization).
Continuation(c, s) ==
    IF ~Open(s) THEN Advice("FINALIZATION", "")
    ELSE IF Of(log, c, "stop") = {} \/ LatestStop(c) = "CONTINUE_REQUIRED" THEN Progress(s)
    ELSE IF LatestStop(c) = "PASS" THEN Advice("CONCLUDE_CAMPAIGN", "")
    ELSE IF LatestStop(c) = "BLOCKED" THEN Advice("CONCLUDE_LIMITED_OR_BLOCK", "")
    ELSE IF Completed(log, s, "E6") THEN Advice("EVALUATE_STOP_GATE", "")
    ELSE IF Prepared(log, s, "E6") THEN Advice("E6_RUNTIME_UNAVAILABLE", "")
    ELSE Advice("PREPARE_STAGE", "E6")

\* The hook answers for an E6 that is prepared and not completed.
Ask(p) ==
    /\ At(p, "idle")
    /\ IF Readable(HeadSeq) /\ Open(HeadSeq) /\ Unfinished(HeadSeq)
       THEN Reports(p, Advice("E6_RUNTIME_UNAVAILABLE", "")) /\ UNCHANGED log
       ELSE Reads(p, Readable(HeadSeq), Call(p, "cut", Nothing))

TakeCut(p) ==
    /\ At(p, "cut")
    /\ Reads(p, TRUE, [op[p] EXCEPT !.pc = "answer", !.cut = HeadSeq])

Answer(p) ==
    /\ At(p, "answer")
    /\ Reads(p, Readable(HeadSeq), [Idle EXCEPT !.report = Continuation(op[p].cut, HeadSeq)])

-----------------------------------------------------------------------------
\* The rest of the system.

Appears(c) == log' = Append(log, c) /\ UNCHANGED op

\* A stage is completed once, after the one before it (StageCampaign).
CompleteStage(s) ==
    /\ Prepared(log, HeadSeq, s) /\ ~Completed(log, HeadSeq, s)
    /\ \A i \in DOMAIN Baseline :
          Baseline[i] = s => \A j \in 1..(i - 1) : Completed(log, HeadSeq, Baseline[j])
    /\ Appears(Commit("completion", s, ""))

\* Records of the audit.  A qualification is of an obligation revision, a challenge
\* of a candidate, accepted before.
Record ==
    [kind : {"invalidation", "candidate"}, of : {""}, says : {""}]
      \cup [kind : {"obligation"}, of : Thing, says : {""}]
      \cup [kind : {"qualification"}, of : Of(log, HeadSeq, "obligation"),
            says : {"QUALIFIED", "INCONCLUSIVE", "STALE"}]
      \cup [kind : {"contradiction"}, of : Thing, says : {"OPEN", "RESOLVED"}]
      \cup [kind : {"scope"}, of : Thing, says : {"KNOWN", "UNKNOWN", "FAILED"}]
      \cup [kind : {"challenge"}, of : Of(log, HeadSeq, "candidate") \X Role,
            says : {"CLOSED", "INCONCLUSIVE", "COUNTEREVIDENCE"}]
      \cup [kind : {"risk"}, of : Thing, says : {"OPEN", "ACCEPTED", "BLOCKING", "SUPERSEDED"}]

Elsewhere == \E c \in Record : HeadSeq > 0 /\ Appears(c)

Conclude ==
    /\ Of(log, HeadSeq, "stop") # {}
    /\ Appears(Commit("conclusion", "", IF LatestStop(HeadSeq) = "PASS" THEN "COMPLETED"
                                        ELSE "COMPLETED_LIMITED"))

-----------------------------------------------------------------------------
Calls(p) ==
    \/ \E camp \in Campaign : Create(p, camp)
    \/ \E s \in Stages : PrepareStage(p, s)
    \/ \E s \in Stages, slot \in Slot, body \in Body : PrepareLane(p, s, slot, body)
    \/ \E req \in Asked : Evaluate(p, req)
    \/ Ask(p)

Works(p) ==
    \/ TakeHead(p)
    \/ TakeStop(p)
    \/ Generate(p)
    \/ Build(p)
    \/ Send(p)
    \/ TakeCut(p)
    \/ Answer(p)

Others ==
    \/ \E s \in BaselineStage : CompleteStage(s)
    \/ Elsewhere
    \/ Conclude

Next == (\E p \in Operator : Calls(p) \/ Works(p)) \/ Others

Spec == Init /\ [][Next]_vars

-----------------------------------------------------------------------------
TypeOK ==
    /\ \A n \in DOMAIN log :
          /\ log[n].kind = "stop" => log[n].says \in Decision
          /\ log[n].kind = "stage" => log[n].of \in Stages
          /\ log[n].kind = "genesis" <=> n = 1
    /\ \A p \in Operator :
          /\ op[p].seen <= HeadSeq /\ op[p].head <= HeadSeq /\ op[p].cut <= HeadSeq
          /\ op[p].pc = "idle" => op[p] = [Idle EXCEPT !.report = op[p].report]

\* The stages enter the history in the order of the plan, whatever old statuses
\* the operators who prepare them looked at.
BaselineInOrder == InOrder(log)

\* What a call reported as done is in the history, also when it lost the race to
\* another operator and was answered from that one's commit.  (For the body of a
\* lane this does not hold.)
ReportsAreTrue ==
    \A p \in Operator :
        op[p].report.kind \in {"genesis", "stage", "lane"} =>
            About(log, HeadSeq, op[p].report.kind, op[p].report.of) # {}

\* What the continuation advises at a cut is not refused there: a stage it says to
\* prepare is the one prepare_stage asks for, and a STOP it says to evaluate comes
\* to a decision.
AdviceIsPossible ==
    LET a == Continuation(HeadSeq, HeadSeq)
        r == [context |-> "FINAL_POST_E5", approved |-> FALSE, adds |-> {}]
    IN  Readable(HeadSeq) =>
            /\ a.of = "PREPARE_STAGE" => StageWanted(HeadSeq, a.says)
            /\ a.of = "EVALUATE_STOP_GATE" => Decide(log, HeadSeq, r) # "CONTINUE_REQUIRED"

\* A STOP that passes was decided on everything accepted before it: at its parent
\* nothing is pending, in doubt, contradicted, open or unchallenged.
PassIsEarned == PassesOnClean(log)

-----------------------------------------------------------------------------
\* What the repository says, and the code does not do.

\* "Build exact StopInput from history cut, evaluate, and accept StopEvaluation": an
\* evaluation that nothing came in between is accepted.
EvaluationsAreAccepted ==
    \A p \in Operator :
        /\ At(p, "send") /\ op[p].doing.kind = "stop"
        /\ op[p].head = HeadSeq /\ op[p].cut = HeadSeq
        => Accepted(op[p])

=============================================================================
