--------------------------- MODULE BlindEnsembles ---------------------------
(***************************************************************************)
(* The ensembles in memory (orchestration/native_ensemble.py, e3.py,       *)
(* e3_reveal.py, e3_gate.py): the quarantine brokers of E1 and E3, which   *)
(* keep the lanes from one another until a checkpoint; the convergence of  *)
(* E2; the blind run of E3; the reveals after it, which make one knowledge *)
(* state of another; the gap-directed scheduler and the gate of E3.  What  *)
(* refers to something by digest holds it here.                            *)
(***************************************************************************)
EXTENDS Adjudication, Sequences

CONSTANTS
    BlindLane,      \* the mandatory lanes of an ensemble
    Discovery,      \* discoveries of a lane, as their names
    Trial,          \* blind attempts: [lane, run, source, cut, isolation, clean]
    Reported,       \* discoveries as E2 reads them
    GateInput,      \* what the caller of the gate says of the stage
    Manifest,       \* views of the corpus and of holdouts, as their callers refer to them
    MaxNotes,       \* bounds: on the discoveries recorded,
    MaxReports,     \*   on those of E1 that E2 converges,
    MaxReveals,     \*   on the reveals,
    MaxRuns         \*   and on the blind runs, and on the candidates

Ensemble == {"E1", "E3"}
SealCut == {t.cut : t \in Trial}

VARIABLES
    notes,          \* per ensemble and lane, what its broker recorded: [found, seen],
                    \*   where seen is what the lane had been shown of other lanes
    shown,          \* per ensemble and lane, what it has been shown of other lanes
    qualification,  \* the isolation qualification of a lane of E3, or << >>
    sealed,         \* per ensemble: << >>, or what its checkpoint holds
    answers         \* per ensemble: what calls for the checkpoint were answered

brokerVars == <<notes, shown, qualification, sealed, answers>>

BrokersInit ==
    /\ notes = [e \in Ensemble |-> [l \in BlindLane |-> << >>]]
    /\ shown = [e \in Ensemble |-> [l \in BlindLane |-> {}]]
    /\ qualification = [l \in BlindLane |-> << >>]
    /\ sealed = [e \in Ensemble |-> << >>]
    /\ answers = [e \in Ensemble |-> {}]

Isolation ==
    [required : {"DECLARED", "ENFORCED", "UNKNOWN"}, actual : {"DECLARED", "ENFORCED", "UNKNOWN"},
     forbidden : BOOLEAN, contaminated : BOOLEAN]

\* register_isolation_qualification: also a second time, and after the seal.
Qualifies(q) ==
    /\ q.required # "UNKNOWN" /\ q.actual # "UNKNOWN"
    /\ q.required = "ENFORCED" => q.actual = "ENFORCED"
    /\ ~q.forbidden /\ ~q.contaminated

RegisterIsolation(l, q) ==
    /\ Qualifies(q)
    /\ qualification' = [qualification EXCEPT ![l] = <<q>>]
    /\ UNCHANGED <<notes, shown, sealed, answers>>

Noted(e, l, d) ==
    /\ notes' = [notes EXCEPT ![e][l] = Append(@, [found |-> d, seen |-> shown[e][l]])]
    /\ UNCHANGED <<shown, qualification, sealed, answers>>

\* record_lane_discovery: before the checkpoint; in E3 of a lane whose isolation is
\* qualified.  (What E3 refuses for its fields or its classification is no discovery.)
RecordDiscovery(e, l, d) ==
    /\ sealed[e] = << >>
    /\ e = "E3" => qualification[l] # << >>
    /\ Noted(e, l, d)

\* query_cross_lane_findings (and get_lane_view, of the lane's own).
Query(e, l, target) ==
    /\ l # target => sealed[e] # << >>
    /\ shown' = [shown EXCEPT ![e][l] = @ \union
                    {<<target, n>> : n \in IF l = target THEN {} ELSE DOMAIN notes[e][target]}]
    /\ UNCHANGED <<notes, qualification, sealed, answers>>

\* release_checkpoint_for_e2; and seal_checkpoint, once every lane is qualified, which
\* binds the cut and the qualifications: sealed again at the same cut, it is answered
\* with the checkpoint there is.
Checkpoint(e, cut) ==
    [notes |-> notes[e], basis |-> IF e = "E1" THEN << >> ELSE <<cut, qualification>>]

SealCheckpoint(e, cut) ==
    /\ IF sealed[e] # << >>
       THEN (e = "E3" => sealed[e][1].basis[1] = cut) /\ UNCHANGED sealed
       ELSE /\ e = "E3" => \A l \in BlindLane : qualification[l] # << >>
            /\ sealed' = [sealed EXCEPT ![e] = <<Checkpoint(e, cut)>>]
    /\ answers' = [answers EXCEPT ![e] = @ \union {sealed'[e][1]}]
    /\ UNCHANGED <<notes, shown, qualification>>

BrokersNext ==
    \/ \E l \in BlindLane, q \in Isolation : RegisterIsolation(l, q)
    \/ \E e \in Ensemble, l \in BlindLane, d \in Discovery :
          Len(notes[e][l]) < MaxNotes /\ RecordDiscovery(e, l, d)
    \/ \E e \in Ensemble, l, target \in BlindLane : Query(e, l, target)
    \/ \E e \in Ensemble, cut \in SealCut : SealCheckpoint(e, cut)

BrokersSpec == BrokersInit /\ [][BrokersNext]_brokerVars

-----------------------------------------------------------------------------
\* The convergence of E2.

VARIABLES
    released,       \* E1CompletionResults: the claims of each
    converged       \* E2CompletionResults: [claims, decisions]

convergenceVars == <<released, converged>>

ConvergenceInit == released = {} /\ converged = {}

\* execute_e1_ensemble: once every mandatory lane has reported, be it nothing, each
\* discovery is a claim of its lane.
Claims(reports) ==
    UNION {{[lane |-> l, found |-> d] : d \in reports[l]} : l \in BlindLane}

ExecuteE1(reports) ==
    /\ BlindLane \subseteq DOMAIN reports
    /\ released' = released \union {Claims(reports)}
    /\ UNCHANGED converged

\* _stable_convergence_key: the root cause; else the invariant, component and location
\* together; else the lane and its name for the finding, or the finding itself.
ConvergenceKey(c) ==
    IF c.found.root # "" THEN <<"root_cause", c.found.root, "">>
    ELSE IF c.found.place # "" THEN <<"place", c.found.place, "">>
    ELSE IF c.found.id # "" THEN <<"finding_id", c.found.id, c.lane>>
    ELSE <<"exact", c.found, c.lane>>

Converging(claims, c) == {d \in claims : ConvergenceKey(d) = ConvergenceKey(c)}

\* _claim_outcome_with_evidence: a position is one with typed evidence.
Position(c) ==
    IF c.found.outcome \in {"SUPPORTED", "REFUTED"} /\ c.found.evidence
    THEN c.found.outcome ELSE "INCONCLUSIVE"

\* _axis_outcome: what all that has typed evidence for the axis agrees on.
Evidenced(group, axis) ==
    {c.found.axes[axis].outcome :
        c \in {d \in group : d.found.axes[axis].evidence /\ d.found.axes[axis].outcome # "none"}}
AxisOutcome(group, axis) ==
    IF \E o \in Evidenced(group, axis) : Evidenced(group, axis) = {o}
    THEN CHOOSE o \in Evidenced(group, axis) : TRUE
    ELSE "INCONCLUSIVE"

Converged(group) ==
    [claims |-> group,
     status |-> ComputedStatus([a \in OperationalAxis |-> AxisOutcome(group, a)]),
     contradiction |-> {"SUPPORTED", "REFUTED"} \subseteq {Position(c) : c \in group}]

\* execute_e2_convergence
ExecuteE2(claims) ==
    /\ converged' = converged \union
           {[claims |-> claims, decisions |-> {Converged(Converging(claims, c)) : c \in claims}]}
    /\ UNCHANGED released

ConvergenceNext ==
    \/ \E lanes \in SUBSET BlindLane : \E reports \in [lanes -> SUBSET Reported] :
          /\ lanes = BlindLane => Cardinality(Claims(reports)) <= MaxReports
          /\ ExecuteE1(reports)
    \/ \E claims \in released : ExecuteE2(claims)

ConvergenceSpec == ConvergenceInit /\ [][ConvergenceNext]_convergenceVars

-----------------------------------------------------------------------------
\* The blind run of E3, and the reveals after it.

VARIABLES
    knowledge,      \* KnowledgeStates: [trial, allowed, classes, exposures, previous]
    blinds,         \* E3BlindNoveltyResults: [cut, source, claims]
    checkpoints,    \* E3BlindCheckpoints: [cut, source, found]
    reveals,        \* E3RevealEvents: [type, view, checkpoint, before, after]
    views,          \* how many gap projections were made
    schedulers,     \* E3GapDirectedSchedulers: [projection, event]
    directed,       \* their discoveries: [found, knowledge, class]
    candidates      \* E3StageCompletionCandidates

revealVars == <<knowledge, blinds, checkpoints, reveals, views, schedulers, directed, candidates>>

RevealsInit ==
    /\ knowledge = {} /\ blinds = {} /\ checkpoints = {} /\ reveals = {} /\ views = 0
    /\ schedulers = {} /\ directed = {} /\ candidates = {}

\* create_e3_blind_attempt: an attempt, its isolation and its first knowledge state.
CreateBlindAttempt(t) ==
    /\ t.isolation # "ENFORCED"
    /\ knowledge' = knowledge \union
           {[trial |-> t, allowed |-> {}, classes |-> {"LOCAL"}, exposures |-> {},
             previous |-> {}]}
    /\ UNCHANGED <<blinds, checkpoints, reveals, views, schedulers, directed, candidates>>

\* A context of the lane: an attempt at the cut and source of the run, isolated as the
\* lane requires, which has been shown nothing.
LaneContextFits(k, l, cut, source) ==
    /\ k.trial.lane = l /\ k.trial.cut = cut /\ k.trial.source = source
    /\ k.trial.isolation = "DECLARED" /\ k.trial.clean
    /\ k.previous = {} /\ k.exposures = {} /\ k.allowed = {}

\* execute_e3_blind_ensemble: every lane by an attempt and a lane run of its own; its
\* broker is sealed when it returns.
ExecuteBlind(contexts, cut, source, found) ==
    /\ \A l \in BlindLane : LaneContextFits(contexts[l], l, cut, source)
    /\ \A l, m \in BlindLane : l # m =>
           contexts[l].trial # contexts[m].trial /\ contexts[l].trial.run # contexts[m].trial.run
    /\ blinds' = blinds \union
           {[cut |-> cut, source |-> source,
             claims |-> UNION {{[lane |-> l, found |-> d, knowledge |-> contexts[l]] :
                                   d \in found[l]} : l \in BlindLane}]}
    /\ UNCHANGED <<knowledge, checkpoints, reveals, views, schedulers, directed, candidates>>

\* create_e3_blind_checkpoint: at the cut of the run.  The completion digest binds the
\* discoveries of each lane, and not the attempts.
CheckpointOf(b) ==
    [cut |-> b.cut, source |-> b.source, found |-> {<<c.lane, c.found>> : c \in b.claims}]

CreateCheckpoint(b, cut) ==
    /\ cut = b.cut
    /\ checkpoints' = checkpoints \union {CheckpointOf(b)}
    /\ UNCHANGED <<knowledge, blinds, reveals, views, schedulers, directed, candidates>>

\* Faulty variant: what was exposed before is left out.
ExposedAnew(k, type, view, classes) ==
    [trial |-> k.trial, allowed |-> {view}, classes |-> k.classes \union classes,
     exposures |-> {[type |-> type, view |-> view, before |-> k]},
     previous |-> {k}]

\* The view is exposed to k.  The record of that binds its grant, with the channel, and
\* the state it is made to: the same view exposed again, to another state or through
\* another channel, is another exposure.
Exposed(k, type, view, classes) ==
    [trial |-> k.trial, allowed |-> {view}, classes |-> k.classes \union classes,
     exposures |-> k.exposures \union {[type |-> type, view |-> view, before |-> k]},
     previous |-> {k}]

\* (Events that differ in their own id only are one here.)
Revealed(k, type, view, classes, of) ==
    /\ knowledge' = knowledge \union {Exposed(k, type, view, classes)}
    /\ reveals' = reveals \union
           {[type |-> type, view |-> view, checkpoint |-> of,
             before |-> k, after |-> Exposed(k, type, view, classes)]}
    /\ UNCHANGED <<blinds, checkpoints, schedulers, directed, candidates>>

\* execute_positive_gap_reveal: at the cut of the checkpoint, once for a knowledge state,
\* by a projection of its own.
RevealGaps(k, c, cut) ==
    /\ cut = c.cut /\ k.trial.cut = c.cut
    /\ "GAP" \notin k.classes
    /\ views' = views + 1
    /\ Revealed(k, "GAP", views', {"GAP"}, {c})

\* PositiveGapProjection, of a gap reveal.
Projections ==
    {[view |-> e.view, checkpoint |-> e.checkpoint] : e \in {r \in reveals : r.type = "GAP"}}

\* E3GapDirectedScheduler
StartScheduler(p, e, k) ==
    /\ e.type = "GAP" /\ e.after = k /\ e.checkpoint = p.checkpoint
    /\ schedulers' = schedulers \union {[projection |-> p, event |-> e]}
    /\ UNCHANGED <<knowledge, blinds, checkpoints, reveals, views, directed, candidates>>

\* record_gap_directed_discovery: whatever class it is given, unless that is blind.
RecordGapDirected(s, d, class) ==
    /\ class # "PRE_REVEAL_DISCOVERY"
    /\ directed' = directed \union
           {[found |-> d, knowledge |-> s.event.after, class |-> "POST_REVEAL_CONFIRMATION"]}
    /\ UNCHANGED <<knowledge, blinds, checkpoints, reveals, views, schedulers, candidates>>

\* execute_cumulative_corpus_reveal: after the gap reveal of the scheduler, at its cut, by
\* any manifest, shown before or not.
RevealCorpus(s, manifest, cut) ==
    /\ s.event.type = "GAP" /\ "GAP" \in s.event.after.classes
    /\ cut = s.event.after.trial.cut
    /\ UNCHANGED views
    /\ Revealed(s.event.after, "CUMULATIVE", manifest, {"CUMULATIVE"}, s.projection.checkpoint)

Predecessor == {"CANONICAL_PREDECESSOR", "DIRECT_PREDECESSOR", "E1", "E2"}

\* execute_holdout_reveal: to knowledge that has the cumulative corpus, also one that has a
\* holdout; by any manifest, and of no checkpoint.
RevealHoldout(k, manifest, role, cut) ==
    /\ role \notin Predecessor
    /\ "CUMULATIVE" \in k.classes /\ k.previous # {}
    /\ cut = k.trial.cut
    /\ UNCHANGED views
    /\ Revealed(k, "HOLDOUT", manifest, {"HOLDOUT"}, {})

\* evaluate_false_negative_relationship, of a predecessor completed by the cut.
FalseNegative(x) == x.active /\ ~x.observed

\* evaluate_gate: the checkpoint is of the blind result, the projection and the reveal
\* of one checkpoint; no predecessor as holdout, no obligation dropped where nothing was
\* found, no coverage from volume, no scope hidden.  The scheduler is not looked at.
GatePasses(b, c, p, e, i) ==
    /\ c = CheckpointOf(b)
    /\ e.type = "GAP" /\ p.checkpoint = e.checkpoint
    /\ i.role \notin Predecessor
    /\ i.critical /\ ~i.findings => i.open
    /\ i.tests /\ i.raised => i.qualified
    /\ ~i.hidden

EvaluateGate(b, c, p, e, s, i) ==
    /\ GatePasses(b, c, p, e, i)
    /\ candidates' = candidates \union
           {[blind |-> b, checkpoint |-> c, projection |-> p,
             missed |-> {x \in i.surfaces : FalseNegative(x)}]}
    /\ UNCHANGED <<knowledge, blinds, checkpoints, reveals, views, schedulers, directed>>

RevealsNext ==
    \/ \E t \in Trial : CreateBlindAttempt(t)
    \/ /\ Cardinality(blinds) < MaxRuns
       /\ \E contexts \in [BlindLane -> knowledge], cut \in SealCut,
             source \in {t.source : t \in Trial}, found \in [BlindLane -> SUBSET Discovery] :
             ExecuteBlind(contexts, cut, source, found)
    \/ \E b \in blinds, cut \in SealCut : CreateCheckpoint(b, cut)
    \/ /\ Cardinality(reveals) < MaxReveals
       /\ \E cut \in SealCut :
              \/ \E k \in knowledge, c \in checkpoints : RevealGaps(k, c, cut)
              \/ \E s \in schedulers, manifest \in Manifest : RevealCorpus(s, manifest, cut)
              \/ \E k \in knowledge, manifest \in Manifest, i \in GateInput :
                    RevealHoldout(k, manifest, i.role, cut)
    \/ \E p \in Projections, e \in reveals, k \in knowledge : StartScheduler(p, e, k)
    \/ \E s \in schedulers, d \in Discovery,
          class \in {"PRE_REVEAL_DISCOVERY", "POST_REVEAL_CONFIRMATION"} :
          RecordGapDirected(s, d, class)
    \/ /\ Cardinality(candidates) < MaxRuns
       /\ \E b \in blinds, c \in checkpoints, p \in Projections, e \in reveals,
             s \in schedulers, i \in GateInput : EvaluateGate(b, c, p, e, s, i)

RevealsSpec == RevealsInit /\ [][RevealsNext]_revealVars

-----------------------------------------------------------------------------

\* What a lane records, it records in ignorance of the other lanes; and a checkpoint,
\* whenever and however often it is asked for, is one and holds all that was ever
\* recorded, in E3 under a qualification of every lane.
BlindnessIsKept ==
    \A e \in Ensemble :
        /\ \A l \in BlindLane : \A i \in DOMAIN notes[e][l] : notes[e][l][i].seen = {}
        /\ \A a \in answers[e] :
               /\ a.notes = notes[e]
               /\ \A b \in answers[e] : a = b
               /\ e = "E3" => \A l \in BlindLane : \E q \in Isolation :
                                  a.basis[2][l] = <<q>> /\ Qualifies(q)

\* Claims of two lanes converge only on a common root cause or place; and a finding is
\* confirmed, rejected or in contradiction only by typed evidence, which for an axis
\* nothing of the sort opposes.
IsEvidenced(d) ==
    /\ \A b, c \in d.claims : b.lane # c.lane =>
           \/ b.found.root # "" /\ b.found.root = c.found.root
           \/ b.found.place # "" /\ b.found.place = c.found.place
    /\ d.status = "CONFIRMED_CURRENT" =>
           \A axis \in OperationalAxis : Evidenced(d.claims, axis) = {"SUPPORTED"}
    /\ d.status = "REJECTED" =>
           \E axis \in OperationalAxis : Evidenced(d.claims, axis) = {"REFUTED"}
    /\ d.contradiction =>
           \E b, c \in d.claims : /\ b.found.evidence /\ b.found.outcome = "SUPPORTED"
                                  /\ c.found.evidence /\ c.found.outcome = "REFUTED"

\* No claim is lost on the way to E2 or decided twice, and every decision has evidence.
ConvergenceIsEvidenced ==
    \A r \in converged :
        /\ r.claims \in released
        /\ \A c \in r.claims : \E d \in r.decisions :
               c \in d.claims /\ \A f \in r.decisions : c \in f.claims => f = d
        /\ \A d \in r.decisions : IsEvidenced(d) /\ d.claims \subseteq r.claims

\* A step of knowledge: k has what the state before it had, and the exposure of the one
\* view it allows, which was made to that state.
FollowsOn(k) ==
    /\ k.previous = {} => k.exposures = {} /\ k.allowed = {}
    /\ \A p \in k.previous :
           /\ p \in knowledge /\ p.trial = k.trial
           /\ \E x \in k.exposures : /\ x.before = p /\ k.allowed = {x.view}
                                    /\ k.exposures = p.exposures \union {x}

\* What k is said to know was exposed, a view at a time, to states whose exposures it has
\* all kept: the gaps once, the corpus where the gaps were known, a holdout where the
\* corpus was.
ExposuresInOrder(k) ==
    /\ {x.type : x \in k.exposures} = k.classes \ {"LOCAL"}
    /\ \A x \in k.exposures :
           /\ x.before \in knowledge /\ x.before.trial = k.trial
           /\ x.before.exposures \subseteq k.exposures
           /\ x.type = "GAP" => \A y \in k.exposures : y.type = "GAP" => y = x
           /\ x.type = "CUMULATIVE" => \E y \in x.before.exposures : y.type = "GAP"
           /\ x.type = "HOLDOUT" => \E y \in x.before.exposures : y.type = "CUMULATIVE"

\* An exposure is by a reveal to the very state of the attempt, of the gaps after a
\* checkpoint of its cut.
IsRevealed(x) ==
    \E e \in reveals :
        /\ e.view = x.view /\ e.type = x.type /\ e.before = x.before
        /\ e.after.trial = x.before.trial
        /\ x.type = "GAP" =>
               \E c \in checkpoints : e.checkpoint = {c} /\ c.cut = x.before.trial.cut

\* Knowledge only grows, by what was revealed to it, whichever states of it callers hold
\* and reveal to, and however often they show one manifest, to one attempt or several.
KnowledgeIsAccounted ==
    \A k \in knowledge :
        /\ FollowsOn(k) /\ ExposuresInOrder(k)
        /\ \A x \in k.exposures : IsRevealed(x)

\* A stage that passes the gate has what its checkpoint sealed, and a reveal of the gaps
\* after some checkpoint.
OfItsCheckpoint(g) ==
    /\ g.checkpoint \in checkpoints /\ g.blind \in blinds
    /\ g.checkpoint.found = {<<c.lane, c.found>> : c \in g.blind.claims}
    /\ \E e \in reveals : /\ e.type = "GAP" /\ e.view = g.projection.view
                          /\ e.checkpoint = g.projection.checkpoint
                          /\ e.checkpoint \subseteq checkpoints

\* A discovery is called blind only on knowledge without any view, its lanes on attempts
\* and lane runs of their own; and a directed one only on knowledge of the gaps.
OriginsAreTrue ==
    /\ \A b \in blinds : \A c, d \in b.claims :
           /\ c.knowledge \in knowledge /\ c.knowledge.exposures = {}
           /\ c.lane # d.lane => c.knowledge.trial.run # d.knowledge.trial.run
    /\ \A d \in directed : d.knowledge \in knowledge /\ "GAP" \in d.knowledge.classes
    /\ \A g \in candidates : OfItsCheckpoint(g)

\* The ensembles are blind while they say they are, converge on evidence, and account for
\* what each attempt was shown.
EnsemblesAreSound ==
    BlindnessIsKept /\ ConvergenceIsEvidenced /\ KnowledgeIsAccounted /\ OriginsAreTrue
=============================================================================
