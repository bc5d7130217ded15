---------------------------- MODULE StageAdmission ----------------------------
(***************************************************************************)
(* What the store itself asks of the objects of a stage                    *)
(* (history/authority_hooks.py), whoever sends them: a client commits      *)
(* assignments, evidence, results, discoveries, checkpoints and            *)
(* completions that name any objects, and the hooks alone admit them.      *)
(*                                                                         *)
(* A reference is the digest of its target: here it is the target itself.  *)
(* The cut of an object is a sequence number, which its commit is accepted *)
(* after; every object but evidence and results has the exact head as its  *)
(* cut (HistoryRules).  All of it is of one source and one stage spec.     *)
(***************************************************************************)
EXTENDS Naturals, Sequences, FiniteSets

CONSTANTS
    Stages,         \* stages to look at: E1 and E3, by what they must produce
    RequiredSlot,   \* lane slots of the stage spec
    OptionalSlot,
    LaneRuns,       \* runs of the lanes: [slot, run], of one or more stage runs
    Attempts,       \* attempts and states of knowledge accepted with them
    Knowledges,
    Origin,         \* [stage -> run, attempt and knowledge a discovery may name]
    MaxOf,          \* [stage -> kind of object -> bound on how many are accepted]
    Findings,       \* [stage -> how many findings a result of it may have]
    MaxFindings     \* bound on the findings with a discovery

ASSUME AdmissionAssumption ==
    /\ \A a \in Attempts : a.kind = "attempt"
    /\ \A k \in Knowledges : k.kind = "knowledge"
    /\ IsFiniteSet(Attempts) /\ IsFiniteSet(Knowledges) /\ MaxFindings \in Nat

VARIABLE chain      \* [sequence number -> objects of that commit]

-----------------------------------------------------------------------------
\* The objects.

\* rank: what the isolation of the attempt is qualified as, UNKNOWN or DECLARED;
\* ENFORCED is refused always (_validate_isolation_qualification).
Attempt(run, name, rank) ==
    [kind |-> "attempt", run |-> run, name |-> name, rank |-> rank, cut |-> 0]

\* A state of knowledge of an attempt names an isolation, by its attempt.
Knowledge(attempt, isolation) ==
    [kind |-> "knowledge", attempt |-> attempt, isolation |-> isolation]

DECLARED == 1

\* What a commit may be made of.
AdmittedKinds == {"assignment", "evidence", "result", "execution", "discovery", "checkpoint",
           "lane", "stage"}

\* Of what _NON_OUTPUT_KINDS leaves, the outputs that clients name.
OutputKinds == {"result", "discovery", "checkpoint"}

-----------------------------------------------------------------------------
\* _accepted_index: what is accepted, and when it first was.

AcceptedBy(n) == UNION {chain[i] : i \in 1..n}

Accepted == AcceptedBy(Len(chain))

OfKind(objects, kind) == {o \in objects : o.kind = kind}

FirstAt(o) ==
    CHOOSE n \in DOMAIN chain : o \in chain[n] /\ \A m \in DOMAIN chain : o \in chain[m] => n <= m

IsNew(o) == o \notin Accepted

\* A cut that names the head the object was sent at.
CutIsExact(o) == IF IsNew(o) THEN o.cut = Len(chain) ELSE FirstAt(o) = o.cut + 1

\* _resolve_completion_object: in this closure or in the history.
Resolves(o, new) == o \in Accepted \cup new

StageKey == (CHOOSE o \in chain[1] : o.kind = "spec").stage

-----------------------------------------------------------------------------
\* Evidence and results.

\* _validate_lane_result_admission_evidence: the archive in the vault is for this
\* lane, and the assignment has this attempt and cut.
EvidenceAdmitted(e) ==
    /\ e.archive = e.slot
    /\ e.assignment.kind = "assignment"
    /\ e.assignment.attempt = e.attempt
    /\ e.assignment.cut = e.given

\* Faulty variant: the slot of the evidence may be another one.
ResultOfAnySlot(r) ==
    /\ r.evidence.kind = "evidence"
    /\ r.assignment = r.evidence.assignment
    /\ r.attempt = r.evidence.attempt
    /\ r.given = r.evidence.given
    /\ r.findings = r.evidence.proposal

\* _validate_lane_result: the result is what its evidence says, and what it was
\* made for.
ResultAdmitted(r) ==
    /\ r.evidence.kind = "evidence"
    /\ r.slot = r.evidence.slot
    /\ r.assignment = r.evidence.assignment
    /\ r.attempt = r.evidence.attempt
    /\ r.given = r.evidence.given
    /\ r.findings = r.evidence.proposal

-----------------------------------------------------------------------------
\* _validate_lane_completion, of a completion o in a commit of objects new; again,
\* with new = {}, when a stage completion names it.

FinalAttempt(o) == o.knowledge.attempt

ContextFits(o) ==
    /\ o.attempts # {} /\ o.outputs # {}
    /\ CutIsExact(o)
    /\ \A a \in o.attempts : a.kind = "attempt" /\ a.run = o.run /\ a.cut <= o.cut
    /\ FinalAttempt(o) \in o.attempts
    /\ o.knowledge.isolation = FinalAttempt(o)
    /\ FinalAttempt(o).rank >= DECLARED
    /\ \A x \in o.outputs : x.kind \in OutputKinds

LaneAssignments(o) == {x \in OfKind(Accepted, "assignment") : x.slot = o.run.slot}

AttemptAssignments(o) == {x \in OfKind(Accepted, "assignment") : x.attempt \in o.attempts}

AssignmentsOf(o, a) == {x \in LaneAssignments(o) : x.attempt = a}

\* Nothing of the lane or of its attempts was ever assigned.
Unassigned(o) == LaneAssignments(o) = {} /\ AttemptAssignments(o) = {}

AssignmentsFit(o) == \A a \in o.attempts : Cardinality(AssignmentsOf(o, a)) = 1

\* Outputs of direct producers: discoveries of an execution of the attempt, which
\* read the same cut and was accepted before the completion's.
MadeDirectly(o, d) ==
    /\ d.kind = "discovery"
    /\ d.run = o.run
    /\ d.attempt \in o.attempts
    /\ d.cut <= o.cut /\ d.attempt.cut <= d.cut
    /\ d.result = {}
    /\ d.knowledge.attempt = d.attempt
    /\ \E x \in OfKind(AcceptedBy(o.cut), "execution") : x.attempt = d.attempt /\ x.cut = d.cut

\* The result is accepted at the cut of the completion, or with it.
ResultInTime(o, r, new) ==
    IF IsNew(r) THEN IsNew(o) /\ r \in new
    ELSE FirstAt(r) <= o.cut \/ (~IsNew(o) /\ FirstAt(r) = FirstAt(o))

ResultFits(o, r) ==
    /\ r.attempt \in o.attempts
    /\ r.assignment \in AssignmentsOf(o, r.attempt)
    /\ r.slot = o.run.slot
    /\ r.given = r.assignment.cut

ResultsOf(o) == OfKind(o.outputs, "result")

FinalAttemptAnswered(o) == \E r \in ResultsOf(o) : r.attempt = FinalAttempt(o)

\* A discovery among the outputs of a lane with results: of an attempt of the lane,
\* after its assignment, by what the attempt then knew.
DiscoveryFits(o, d) ==
    /\ d.run = o.run
    /\ d.attempt \in o.attempts
    /\ d.result \subseteq {r \in ResultsOf(o) : r.attempt = d.attempt}
    /\ d.cut <= o.cut
    /\ \A x \in AssignmentsOf(o, d.attempt) : FirstAt(x) <= d.cut
    /\ d.knowledge.attempt = d.attempt
    /\ d.knowledge \in AcceptedBy(d.cut)

\* Any other output has to be of the run, and of an attempt of it.
OtherFits(o, x) == x.run = o.run /\ x.attempt \in o.attempts

OutputsFit(o) ==
    /\ \A d \in OfKind(o.outputs, "discovery") : DiscoveryFits(o, d)
    /\ \A s \in OfKind(o.outputs, "checkpoint") : OtherFits(o, s)

LaneAdmitted(o, new) ==
    /\ ContextFits(o)
    /\ \A x \in o.outputs : Resolves(x, new)
    /\ \/ /\ Unassigned(o)
          /\ \A x \in o.outputs : MadeDirectly(o, x)
       \/ /\ AssignmentsFit(o)
          /\ \A r \in ResultsOf(o) : ResultInTime(o, r, new) /\ ResultFits(o, r)
          /\ FinalAttemptAnswered(o)
          /\ OutputsFit(o)

-----------------------------------------------------------------------------
\* _validate_e3_blind_checkpoint: of the one result of the one assignment of its
\* attempt, with every finding of it as a discovery made at the same cut.

SealedAssignments(o) ==
    {x \in OfKind(Accepted, "assignment") : x.attempt = o.attempt /\ x.slot = o.run.slot}

SealedResults(o, x) ==
    {r \in OfKind(Accepted, "result") :
        r.assignment = x /\ r.attempt = o.attempt /\ r.slot = o.run.slot}

DiscoveriesOf(r, new) == {d \in OfKind(Accepted \cup new, "discovery") : d.result = {r}}

DiscoveriesComplete(o, r, new) ==
    LET ds == DiscoveriesOf(r, new)
    IN  /\ Cardinality(ds) = r.findings
        /\ {d.index : d \in ds} = 1..r.findings
        /\ \A d \in ds : /\ d.run = o.run
                         /\ d.attempt = o.attempt
                         /\ d.knowledge = o.knowledge
                         /\ d.cut = o.cut
        /\ o.sealed = {r} \cup ds

CheckpointAdmitted(o, new) ==
    StageKey = "E3" =>
        /\ CutIsExact(o)
        /\ o.attempt.run = o.run
        /\ o.knowledge.attempt = o.attempt
        /\ Cardinality(SealedAssignments(o)) = 1
        /\ \A x \in SealedAssignments(o) :
              /\ x.knowledge = o.knowledge
              /\ Cardinality(SealedResults(o, x)) = 1
              /\ \A r \in SealedResults(o, x) :
                    /\ FirstAt(r) <= o.cut
                    /\ r.given = x.cut
                    /\ DiscoveriesComplete(o, r, new)

-----------------------------------------------------------------------------
\* _validate_stage_completion.

\* _stage_slot_key, of each lane completion: every required slot once, and no
\* other; an optional one is admitted first, and then counted as one too many.
SlotsFit(o) ==
    /\ \A k \in o.lanes : k.run.slot \in RequiredSlot \cup OptionalSlot
    /\ \A k, l \in o.lanes : k.run.slot = l.run.slot => k = l
    /\ {k.run.slot : k \in o.lanes} = RequiredSlot

LanesFit(o, new) ==
    \A k \in o.lanes :
        /\ k.kind = "lane" /\ Resolves(k, new)
        /\ LaneAdmitted(k, new)
        /\ k.run.run = o.of
        /\ k.cut <= o.cut

LaneOutputsOf(o) == UNION {k.outputs : k \in o.lanes}

\* _validate_stage_output_obligations, for the outputs of the two stages.
ObligationsMet(o) ==
    IF StageKey = "E1" THEN \E d \in OfKind(o.outputs, "discovery") : d.run.run = o.of
    ELSE /\ \E s \in OfKind(o.outputs, "checkpoint") : s.run.run = o.of
         /\ \E d \in OfKind(o.outputs, "discovery"), s \in OfKind(o.outputs, "checkpoint") :
               d.run.run = o.of /\ s.run.run = o.of /\ d.after = {s}

StageAdmitted(o, new) ==
    /\ o.lanes # {} /\ o.outputs # {}
    /\ LanesFit(o, new)
    /\ SlotsFit(o)
    /\ \A x \in o.outputs : x.kind \in OutputKinds /\ Resolves(x, new)
    /\ LaneOutputsOf(o) \subseteq o.outputs
    /\ ObligationsMet(o)

-----------------------------------------------------------------------------
\* validate_material_ref_contracts, for each object of the commit.  There is no
\* hook for assignments, executions and discoveries.
Admitted(o, new) ==
    /\ o.kind = "evidence" => EvidenceAdmitted(o)
    /\ o.kind = "result" => ResultAdmitted(o)
    /\ o.kind = "lane" => LaneAdmitted(o, new)
    /\ o.kind = "checkpoint" => CheckpointAdmitted(o, new)
    /\ o.kind = "stage" => StageAdmitted(o, new)

Commit(new) ==
    /\ \A k \in AdmittedKinds : Cardinality(OfKind(Accepted \cup new, k)) <= MaxOf[StageKey][k]
    /\ new \cap Accepted = {}
    /\ \A o \in new : Admitted(o, new)
    /\ chain' = Append(chain, new)

-----------------------------------------------------------------------------
\* The commands of clients.  Evidence travels alone; a result may come with the
\* completion of its lane, discoveries with a checkpoint.

Here == Len(chain)

\* There is room for another object of a kind, and the stage is not complete.
Room(kind) ==
    /\ chain # << >>
    /\ OfKind(Accepted, "stage") = {}
    /\ Cardinality(OfKind(Accepted, kind)) < MaxOf[StageKey][kind]

Slots == {run.slot : run \in LaneRuns}

Assignments ==
    { [kind |-> "assignment", slot |-> s, attempt |-> a,
       knowledge |-> Knowledge(a, a), cut |-> Here] : s \in Slots, a \in Attempts }

Evidences ==
    { [kind |-> "evidence", slot |-> s, archive |-> z, assignment |-> x, attempt |-> a,
       given |-> n, proposal |-> i] :
        s \in Slots, z \in Slots, x \in OfKind(Accepted, "assignment"), a \in Attempts,
        n \in 1..Here, i \in Findings[StageKey] }

Results ==
    { [kind |-> "result", slot |-> s, assignment |-> x, attempt |-> a, given |-> n,
       findings |-> i, evidence |-> e] :
        s \in Slots, x \in OfKind(Accepted, "assignment"), a \in Attempts,
        n \in 1..Here, i \in Findings[StageKey], e \in OfKind(Accepted, "evidence") }

Executions == { [kind |-> "execution", attempt |-> a, cut |-> Here] : a \in Attempts }

AtMostOne(S) == {{}} \cup {{x} : x \in S}

Discovered(t, result, i, after) ==
    [kind |-> "discovery", run |-> t[1], attempt |-> t[2], knowledge |-> t[3],
     result |-> result, index |-> i, after |-> after, cut |-> Here]

SealOf(t, sealed) ==
    [kind |-> "checkpoint", run |-> t[1], attempt |-> t[2], knowledge |-> t[3],
     sealed |-> sealed, cut |-> Here]

Outputs == {x \in Accepted : x.kind \in OutputKinds}

LaneCompletions(new) ==
    { [kind |-> "lane", run |-> run, attempts |-> as, knowledge |-> k,
       outputs |-> xs, cut |-> Here] :
        run \in LaneRuns, as \in SUBSET Attempts, k \in Knowledges,
        xs \in SUBSET (Outputs \cup new) }

StageCompletions ==
    { [kind |-> "stage", of |-> n, lanes |-> ks, outputs |-> xs, cut |-> Here] :
        n \in {run.run : run \in LaneRuns}, ks \in SUBSET OfKind(Accepted, "lane"),
        xs \in SUBSET Outputs }

SendAssignment == Room("assignment") /\ \E x \in Assignments : Commit({x})
IngestEvidence == Room("evidence") /\ \E e \in Evidences : Commit({e})
SendResultAlone    == Room("result") /\ \E r \in Results : Commit({r})
SendExecution  == Room("execution") /\ \E x \in Executions : Commit({x})
CompleteLane   == Room("lane") /\ \E k \in LaneCompletions({}) : Commit({k})
CompleteTheStage == Room("stage") /\ \E o \in StageCompletions : Commit({o})

SendDiscovery ==
    /\ Room("discovery")
    /\ \E t \in Origin[StageKey], i \in 1..MaxFindings,
          result \in AtMostOne(OfKind(Accepted, "result")),
          after \in AtMostOne(OfKind(Accepted, "checkpoint")) :
           Commit({Discovered(t, result, i, after)})

\* _accept_result of the importers.
SendCompletedResult ==
    /\ Room("result") /\ Room("lane")
    /\ \E r \in Results :
          /\ ResultAdmitted(r)
          /\ \E k \in LaneCompletions({r}) : r \in k.outputs /\ Commit({r, k})

\* seal, of E3; the discoveries it makes are all of one origin.
SealBlindLane ==
    /\ Room("checkpoint")
    /\ \E t, u \in Origin[StageKey], r \in OfKind(Accepted, "result"), is \in SUBSET (1..MaxFindings) :
          LET ds == {Discovered(u, {r}, i, {}) : i \in is}
          IN  \E old \in SUBSET DiscoveriesOf(r, {}) :
                  Commit(ds \cup {SealOf(t, {r} \cup ds \cup old)})

\* The stage, its runs, and the attempts with what they know.
PrepareStage ==
    /\ chain = << >>
    /\ \E s \in Stages :
          chain' = << {[kind |-> "spec", stage |-> s]} \cup Attempts \cup Knowledges >>

AdmissionInit == chain = << >>

AdmissionNext ==
    \/ PrepareStage
    \/ SendAssignment \/ IngestEvidence \/ SendResultAlone \/ SendExecution \/ SendDiscovery
    \/ SendCompletedResult \/ SealBlindLane \/ CompleteLane \/ CompleteTheStage

AdmissionSpec == AdmissionInit /\ [][AdmissionNext]_chain

-----------------------------------------------------------------------------
\* A completed stage rests on work that was handed out and done for it, however
\* the objects of the chain were sent: each required lane, once, on a result of
\* its final attempt, whose archive is of the lane and came in after an assignment
\* of the lane to the attempt; or, where nothing was assigned, on discoveries of
\* an execution of its attempt.
WorkDone(o, k) ==
    \E a \in k.attempts :
        /\ a = FinalAttempt(k) /\ a.run = k.run
        /\ \/ \E r \in ResultsOf(k) :
                 /\ r.attempt = a
                 /\ r.evidence.archive = k.run.slot
                 /\ r.assignment.slot = k.run.slot /\ r.assignment.attempt = a
                 /\ FirstAt(r.assignment) < FirstAt(r.evidence)
                 /\ FirstAt(r.evidence) < FirstAt(r)
                 /\ FirstAt(r) <= FirstAt(k)
           \/ \E d \in OfKind(k.outputs, "discovery"), x \in OfKind(Accepted, "execution") :
                 d.run = k.run /\ x.attempt = d.attempt /\ FirstAt(x) < FirstAt(k)

WorkIsDone ==
    \A o \in OfKind(Accepted, "stage") :
        /\ \A s \in RequiredSlot :
              \E k \in o.lanes :
                  /\ k.run.slot = s /\ k.run.run = o.of
                  /\ FirstAt(k) < FirstAt(o)
                  /\ WorkDone(o, k)
        /\ \A k, l \in o.lanes : k # l => ResultsOf(k) \cap ResultsOf(l) = {}

\* A completed E3 was directed by a seal that held all there was: its gap-directed
\* discovery names a checkpoint of the run, sealed when every finding of the one
\* result of its attempt, and nothing else, was a discovery; no discovery of that
\* result is older than the seal.
SealIsWhole(s) ==
    \E r \in OfKind(s.sealed, "result") :
        /\ s.sealed = {r} \cup {d \in OfKind(AcceptedBy(FirstAt(s)), "discovery") : d.result = {r}}
        /\ {d.index : d \in OfKind(s.sealed, "discovery")} = 1..r.findings
        /\ \A q \in OfKind(AcceptedBy(FirstAt(s)), "result") :
              q.attempt = r.attempt /\ q.slot = r.slot /\ q.assignment = r.assignment => q = r

DirectedBySeals ==
    \A o \in OfKind(Accepted, "stage") :
        StageKey = "E3" =>
            \E d \in OfKind(o.outputs, "discovery") :
                \E s \in OfKind(o.outputs, "checkpoint") :
                    d.after = {s} /\ FirstAt(s) < FirstAt(d) /\ SealIsWhole(s)

\* What the store admits as a completed stage has been earned.
AdmittedIsEarned == WorkIsDone /\ DirectedBySeals
=============================================================================
