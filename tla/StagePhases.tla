------------------------------ MODULE StagePhases ------------------------------
(***************************************************************************)
(* The manual phases of the stages E2 to E5 (workflow/manual_stage,        *)
(* stage_resume, orchestrator): operators, each a session of the           *)
(* orchestrator over one campaign, have the lanes of a phase assigned,     *)
(* publish a package for each lane, and import the results.  The services  *)
(* of the phases are in E2Phases, E3Phases and E5Phases.                   *)
(*                                                                         *)
(* A call is a sequence of steps.  A step reads the accepted cut, decides  *)
(* on it, and sends at most one command that names this cut: it is         *)
(* accepted only at the exact head (HistoryStore), so that what the step   *)
(* looked for and what it commits belong together.  Two steps do not.      *)
(***************************************************************************)
EXTENDS Naturals, Sequences, FiniteSets, SequencesExt

CONSTANTS
    Operator,       \* sessions that work on the campaign
    Lanes,          \* [phase -> sequence of its lane slots]
    Says,           \* [phase -> what a result of it may say]
    Begins,         \* how many of E1, E2, ... are complete when a behaviour begins
    Direct,         \* phases prepared by explicit calls, at any time
    MaxMaterial     \* bound on the material other clients record

Phase == {"E2-BLIND", "E2-REVEAL", "E2-SHADOW", "E2-CONTRADICTION",
          "E3-BLIND", "E3-GAP", "E3-CUMULATIVE", "E3-HOLDOUT",
          "E4-DEEPEN", "E5A-ATTACK", "E5B-CHALLENGE"}

Stage == {"E2", "E3", "E4", "E5"}

\* A result the later service of its phase rejects is "unusable"; what makes
\* one "notable" (a finding, a conflict) depends on the phase.
Saying == {"plain", "notable", "unusable"}

ASSUME PhasesAssumption ==
    /\ \A f \in Phase : Lanes[f] \in Seq(Range(Lanes[f])) /\ IsInjective(Lanes[f])
    /\ Says \in [Phase -> SUBSET Saying]
    /\ Begins \subseteq 1..4
    /\ Direct \subseteq Phase \ {"E2-CONTRADICTION", "E5B-CHALLENGE"}
    /\ MaxMaterial \in Nat

VARIABLES
    log,        \* accepted commits, from the one that completed E1
    op,         \* each operator: the rest of its call, and its memory
    packages,   \* published packages (_PACKAGE.zip)
    receipts    \* packages whose receipt (.zip.sha256) is published

vars == <<log, op, packages, receipts>>

-----------------------------------------------------------------------------
\* Commits, by what the services look for in them.

None == "none"

\* basis: the earlier commits whose objects those of this one are made from, or
\* show.  about: the candidate case a challenge is about, by its commit; 0
\* elsewhere.
FactAbout(kind, phase, basis, about) ==
    [kind |-> kind, phase |-> phase, lane |-> None, auth |-> 0, about |-> about,
     says |-> None, basis |-> basis]

FactOn(kind, phase, basis) == FactAbout(kind, phase, basis, 0)

Fact(kind, phase) == FactOn(kind, phase, {})

\* The archive of a result names its package, hence the authorization the
\* package was published under; it stands for its bytes.
Archive(pkg, says) ==
    [kind |-> "result", phase |-> pkg.phase, lane |-> pkg.lane, auth |-> pkg.auth,
     about |-> pkg.about, says |-> says, basis |-> {}]

\* What an import commits of an archive.
Sent(kind, z) ==
    [kind |-> kind, phase |-> z.phase, lane |-> z.lane, auth |-> z.auth,
     about |-> z.about, says |-> z.says, basis |-> {}]

Evidence(z) == Sent("evidence", z)
Result(z)   == Sent("result", z)

\* A package of a lane: its digest covers the cut of its authorization.
Package(f, lane, auth, about) ==
    [phase |-> f, lane |-> lane, auth |-> auth, about |-> about]

StageOf(f) ==
    IF f \in {"E2-BLIND", "E2-REVEAL", "E2-SHADOW", "E2-CONTRADICTION"} THEN "E2"
    ELSE IF f \in {"E3-BLIND", "E3-GAP", "E3-CUMULATIVE", "E3-HOLDOUT"} THEN "E3"
    ELSE IF f = "E4-DEEPEN" THEN "E4" ELSE "E5"

Before(s) == IF s = "E2" THEN "E1" ELSE IF s = "E3" THEN "E2" ELSE IF s = "E4" THEN "E3" ELSE "E4"

LanesOf(f) == {Lanes[f][i] : i \in DOMAIN Lanes[f]}

-----------------------------------------------------------------------------
\* What accepted_records finds at cut c.

At(c, kind, f) == {n \in 1..c : log[n].kind = kind /\ log[n].phase = f}

Has(c, kind, f) == At(c, kind, f) # {}

ResultsAt(c, f, lane) ==
    {log[n] : n \in {m \in At(c, "result", f) : log[m].lane = lane}}

\* A second result of an assignment makes every load of the phase raise.
Loadable(c, f) == \A lane \in LanesOf(f) : Cardinality(ResultsAt(c, f, lane)) <= 1

\* The results of a phase are all in, one for each lane.
AllIn(c, f) == \A lane \in LanesOf(f) : Cardinality(ResultsAt(c, f, lane)) = 1

SomeSays(c, f, says) == \E n \in At(c, "result", f) : log[n].says = says

StageDone(c, s) == Has(c, "completion", s)

\* The material on record: the views of E3 and E5 are built from it.
Material(c) == At(c, "material", None)

\* Phases whose packages need a grant (prepare_stage_phase_batch).
Granted == {"E2-REVEAL", "E2-SHADOW", "E2-CONTRADICTION", "E3-GAP",
            "E3-CUMULATIVE", "E3-HOLDOUT", "E5B-CHALLENGE"}

-----------------------------------------------------------------------------
\* Operators.

Step(do, f) == [do |-> do, phase |-> f]

Steps(f, dos) == [i \in DOMAIN dos |-> Step(dos[i], f)]

\* todo: the steps left of the call; cut: the cut the first of them has read, 0
\* before; auth: the cut of the authorization to publish under; about: the
\* candidate case at hand; zip: the archive under import; pub: the files
\* published so far; batch: stage_batch, by its packages; inbox: the batch the
\* inbox was made for; known: its ACCEPTED lanes.
NoZip == Fact("none", None)

Closed == [open |-> FALSE, todo |-> << >>, cut |-> 0, auth |-> 0, about |-> 0,
           zip |-> NoZip, pub |-> 0, batch |-> {}, inbox |-> {}, known |-> {}]

\* Of the stages complete at the beginning only the completions are in the log
\* and, after E3, the scope: the completion of E1 notable when there are findings
\* in its results, of E2 when it resolved contradictions.
Before5(says) ==
    LET done(s) == [Fact("completion", s) EXCEPT !.says = says]
    IN  << done("E1"), done("E2"), Fact("scope", "E3-BLIND"), done("E3"), done("E4") >>

Beginning(n, says) == [i \in 1..(IF n <= 2 THEN n ELSE n + 1) |-> Before5(says)[i]]

Init ==
    /\ \E n \in Begins, says \in {"plain", "notable"} : log = Beginning(n, says)
    /\ op = [p \in Operator |-> Closed]
    /\ packages = {}
    /\ receipts = {}

Becomes(p, r) == op' = [op EXCEPT ![p] = r]

Idle(p) == op[p].open /\ op[p].todo = << >>

Then(r, steps) == [r EXCEPT !.todo = steps, !.cut = 0]

Further(r) == Then(r, Tail(r.todo))

\* The call is over: it returned, or it raised.  The session keeps its memory.
Over(r) == [r EXCEPT !.todo = << >>, !.cut = 0, !.auth = 0, !.about = 0, !.pub = 0,
                    !.zip = NoZip]

PhaseOf(jobs) == IF jobs = {} THEN None ELSE (CHOOSE j \in jobs : TRUE).phase

StageOfBatch(r) == IF r.batch = {} THEN None ELSE StageOf(PhaseOf(r.batch))

\* missing and blocked of the advance are empty.
InboxComplete(r) == \A j \in r.inbox : j.lane \in r.known

\* Steps that take no cut: they look at memory, or write files.
Offline == {"check", "files"}

ReadCut(p) ==
    /\ op[p].todo # << >>
    /\ Head(op[p].todo).do \notin Offline
    /\ op[p].cut = 0
    /\ Becomes(p, [op[p] EXCEPT !.cut = Len(log)])
    /\ UNCHANGED <<log, packages, receipts>>

Doing(p, do) == op[p].todo # << >> /\ Head(op[p].todo).do = do

AtCut(p, do) == Doing(p, do) /\ op[p].cut # 0

Current(p) == Head(op[p].todo).phase

\* A step that only moves p's session on.
Goes(p, r) == Becomes(p, r) /\ UNCHANGED <<log, packages, receipts>>

Raises(p) == Goes(p, Over(op[p]))

\* Faulty variant: a command is accepted at whatever head there is.
CommitsAnywhere(p, c, r) ==
    /\ log' = Append(log, c)
    /\ Becomes(p, r)
    /\ UNCHANGED <<packages, receipts>>

\* Commits whose objects carry no history cut, only revisions of contradictions:
\* the command goes to the head read last, whatever came since the cut.
Unbound == {"contradictions", "successors"}

\* The command of c has its answer already: its name is that of an archive, or of
\* the one result the revisions are made from.
Committed(c) ==
    \E n \in DOMAIN log :
        \/ c.lane # None /\ log[n] = c
        \/ c.kind \in Unbound /\ log[n].kind = c.kind /\ log[n].phase = c.phase

\* The command with c: accepted at the exact head its objects name as their cut;
\* otherwise refused, except that a rival's identical command, accepted after
\* this one read its parent, answers for it.
Commits(p, c, r) ==
    LET cut == op[p].cut
    IN  /\ UNCHANGED <<packages, receipts>>
        /\ \/ /\ cut = Len(log) \/ c.kind \in Unbound
              /\ ~Committed(c)
              /\ log' = Append(log, c)
              /\ Becomes(p, r)
           \/ /\ \E n \in DOMAIN log :
                    /\ n = cut + 1 \/ (n > cut /\ c.kind \in Unbound)
                    /\ log[n] = c
              /\ Becomes(p, r)
              /\ UNCHANGED log
           \/ /\ cut < Len(log) \/ Committed(c)
              /\ Becomes(p, Over(op[p]))
              /\ UNCHANGED log

\* A step that commits c unless what it would record is there already.
Records(p, there, c, r) == IF there THEN Goes(p, r) ELSE Commits(p, c, r)

\* A check at a cut of its own.
Checks(p, do, f, ok) ==
    /\ AtCut(p, do)
    /\ Current(p) = f
    /\ IF ok THEN Goes(p, Further(op[p])) ELSE Raises(p)

\* The objects of a grant: the view, and for each lane the grant of it, the
\* exposure this makes possible, and the lane's next state of knowledge.
GrantOn(f, view) == FactOn("grant", f, view)

\* The grants of a phase that show view.
Showing(c, f, view) == {n \in At(c, "grant", f) : log[n].basis = view}

\* An authorization service: a grant, unless there is one of the same.  The
\* authorization cut is that of the grant, or the present one when it is old.
Authorizes(p, f, ok, same, grant) ==
    /\ AtCut(p, "grant")
    /\ Current(p) = f
    /\ LET c == op[p].cut
       IN  IF ~ok THEN Raises(p)
           ELSE IF same # {} THEN Goes(p, [Further(op[p]) EXCEPT !.auth = c])
           ELSE Commits(p, grant, [Further(op[p]) EXCEPT !.auth = c + 1])

-----------------------------------------------------------------------------
\* prepare_*_orchestration: assignments, grant, packages, inbox.

\* Phases whose preparation first checks, at a cut of its own, what came before.
Checked == {"E2-REVEAL", "E3-GAP", "E3-CUMULATIVE", "E3-HOLDOUT"}

Opening(f) ==
    IF f \in Checked THEN << "before" >>
    ELSE IF f = "E3-BLIND" THEN << "baseline" >> ELSE << >>

Preparation(f) ==
    Steps(f, Opening(f)
             \o << "assign" >>
             \o (IF f \in Granted THEN << "grant", "publish" >> ELSE << >>)
             \o << "files", "load" >>)

\* _existing_assignments: of every lane of the phase or of none, for they are
\* accepted together.
Existing(c, f) == Has(c, "assignments", f)

\* The run of the stage, and for each lane its run, attempt, isolation, first
\* knowledge and assignment, in one commit; its name is of the phase and the head.
Handout(f) == Fact("assignments", f)

\* Faulty variant: the stage before is not asked for.
AssignAnyway(p) ==
    /\ AtCut(p, "assign")
    /\ LET f == Current(p)
       IN  Records(p, Existing(op[p].cut, f), Handout(f), Further(op[p]))

\* prepare_phase_assignments: those of the phase, if there are any; they need
\* the completion of the stage before.
Assign(p) ==
    /\ AtCut(p, "assign")
    /\ LET f == Current(p)
           c == op[p].cut
       IN  IF ~StageDone(c, Before(StageOf(f))) THEN Raises(p)
           ELSE Records(p, Existing(c, f), Handout(f), Further(op[p]))

\* The current cut must be that of the authorization.
Publish(p) ==
    /\ AtCut(p, "publish")
    /\ IF op[p].cut = op[p].auth THEN Goes(p, Further(op[p])) ELSE Raises(p)

\* For each lane the package and its receipt, each published once.  The batch
\* is set when all are.
PublishFile(p) ==
    /\ Doing(p, "files")
    /\ UNCHANGED log
    /\ LET r   == op[p]
           f   == Current(p)
           k   == r.pub
           pkg == Package(f, Lanes[f][(k \div 2) + 1], r.auth, r.about)
       IN  IF k = 2 * Len(Lanes[f])
           THEN /\ Becomes(p, [Further(r) EXCEPT
                       !.pub = 0, !.auth = 0, !.about = 0,
                       !.batch = {Package(f, lane, r.auth, r.about) : lane \in LanesOf(f)}])
                /\ UNCHANGED <<packages, receipts>>
           ELSE /\ Becomes(p, [r EXCEPT !.pub = k + 1])
                /\ packages' = IF k % 2 = 0 THEN packages \cup {pkg} ELSE packages
                /\ receipts' = IF k % 2 = 1 THEN receipts \cup {pkg} ELSE receipts

\* StageResultInbox(store, batch): the accepted lanes at this cut.
Loaded(r, c) ==
    LET f == PhaseOf(r.batch)
    IN  [r EXCEPT !.inbox = r.batch,
                  !.known = {lane \in LanesOf(f) : ResultsAt(c, f, lane) # {}}]

Load(p) ==
    /\ AtCut(p, "load")
    /\ LET r == op[p]
       IN  IF Loadable(r.cut, PhaseOf(r.batch))
           THEN Goes(p, Loaded(Further(r), r.cut)) ELSE Raises(p)

-----------------------------------------------------------------------------
\* ingest_zip: the archive of a package of the inbox.  An archive of another
\* package, or one whose bytes fail a check, is rejected and changes nothing.

\* The manifest is that of a package of the inbox: campaign, stage, phase, lane,
\* source, cut, profile, model, assignment and digest.
Fits(r, pkg) == pkg \in r.inbox

Import(p, pkg, says) ==
    /\ Idle(p)
    /\ Fits(op[p], pkg)
    /\ says \in Says[pkg.phase]
    /\ Goes(p, [Then(op[p], Steps(pkg.phase, << "look", "begin", "result", "reload" >>))
                  EXCEPT !.zip = Archive(pkg, says)])

\* The accepted result of the assignment, if there is one: this archive again
\* (EXACT_RETRY), or another one (CONFLICTING_RESULT_REJECTED).
Look(p) ==
    /\ AtCut(p, "look")
    /\ LET r     == op[p]
           found == ResultsAt(r.cut, r.zip.phase, r.zip.lane)
       IN  IF found = {} THEN Goes(p, Further(r))
           ELSE IF found = {r.zip}
           THEN Goes(p, Then(r, Steps(r.zip.phase, << "reload" >>)))
           ELSE Raises(p)

\* _accept_result: the evidence, unless it was accepted before; then the result
\* goes out at the same cut.
Begin(p) ==
    /\ AtCut(p, "begin")
    /\ LET r == op[p]
       IN  IF \E n \in 1..r.cut : log[n] = Evidence(r.zip)
           THEN Goes(p, [r EXCEPT !.todo = Tail(@)])
           ELSE Commits(p, Evidence(r.zip), Further(r))

\* The result with its lane completion, without a second look.
SendResult(p) ==
    /\ AtCut(p, "result")
    /\ Commits(p, Result(op[p].zip), Further(op[p]))

\* _load_accepted_state; it only adds.
Reload(p) ==
    /\ AtCut(p, "reload")
    /\ LET r == op[p]
           f == PhaseOf(r.inbox)
       IN  IF Loadable(r.cut, f)
           THEN Goes(p, [Over(r) EXCEPT
                    !.known = @ \cup {l \in LanesOf(f) : ResultsAt(r.cut, f, l) # {}}])
           ELSE Raises(p)

-----------------------------------------------------------------------------
\* resume_campaign.

Start(p) ==
    /\ ~op[p].open
    /\ Goes(p, [Closed EXCEPT !.open = TRUE, !.todo = Steps(None, << "resume" >>)])

\* The process dies: its memory is lost, its commits and files stay.
Die(p) == op[p].open /\ Goes(p, Closed)

\* The phases to look for, the latest first.
Candidates(c) ==
    IF StageDone(c, "E5") THEN << >>
    ELSE IF StageDone(c, "E4") THEN << "E5B-CHALLENGE", "E5A-ATTACK" >>
    ELSE IF StageDone(c, "E3") THEN << "E4-DEEPEN" >>
    ELSE IF StageDone(c, "E2")
    THEN << "E3-HOLDOUT", "E3-CUMULATIVE", "E3-GAP", "E3-BLIND" >>
    ELSE << "E2-CONTRADICTION", "E2-SHADOW", "E2-REVEAL", "E2-BLIND" >>

AssignedAt(c) == {i \in DOMAIN Candidates(c) : Has(c, "assignments", Candidates(c)[i])}

\* The latest phase that is assigned.
ResumedPhase(c) == IF AssignedAt(c) = {} THEN None ELSE Candidates(c)[Min(AssignedAt(c))]

\* load_stage_phase_batch: one package for each lane, with its receipt.
PackagesOf(f) == {pkg \in packages : pkg.phase = f}

Reconstructible(f) ==
    /\ PackagesOf(f) \subseteq receipts
    /\ \A lane \in LanesOf(f) :
           Cardinality({pkg \in PackagesOf(f) : pkg.lane = lane}) = 1

Resume(p) ==
    /\ AtCut(p, "resume")
    /\ LET r == op[p]
           f == ResumedPhase(r.cut)
       IN  IF f = None THEN Goes(p, Over(r))
           ELSE IF ~Reconstructible(f) THEN Raises(p)
           ELSE Goes(p, [Then(r, Steps(f, << "load" >>)) EXCEPT !.batch = PackagesOf(f)])

-----------------------------------------------------------------------------
\* Other clients of the store (prepare_lane, qualifications of coverage).
Elsewhere ==
    /\ Cardinality(Material(Len(log))) < MaxMaterial
    /\ log' = Append(log, Fact("material", None))
    /\ UNCHANGED <<op, packages, receipts>>

=============================================================================
