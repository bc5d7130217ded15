------------------------------ MODULE MCEngines ------------------------------
(* A model-checking instance of the components that share no state with one  *)
(* another or with the store: each is explored alone, from its own initial   *)
(* state, while the others rest in theirs.                                   *)
EXTENDS Lifecycle, ModelTests, CrashHarness, Schedules, TraceRules,
        ToolRuns, Vault, StageAdmission, FindingPipelines, BlindEnsembles

MCId == {"a"}

\* One aggregate of each kind, all under one identity: completion, terminal
\* duplicates, retries, the re-entries of the campaign table, and that aggregates
\* which share an identity do not disturb each other.
MCKeys == { [aggregate |-> "stage",    id |-> "a"],
            [aggregate |-> "lane",     id |-> "a"],
            [aggregate |-> "attempt",  id |-> "a"],
            [aggregate |-> "campaign", id |-> "a"] }

-----------------------------------------------------------------------------

\* Transitions over two states and a variable of two values: loops, guards that
\* fail, effects, and two of one state and event, overlapping in their guards.
Edge(s, e, t, guard, f) ==
    [source |-> s, event |-> e, target |-> t, guard |-> guard, effect |-> f]
Same == [v \in {0, 1} |-> v]
Flip == [v \in {0, 1} |-> 1 - v]
MCEdges == { Edge("s", "e", "t", {0, 1}, Same), Edge("s", "f", "s", {0}, Flip),
             Edge("t", "e", "s", {1}, Same), Edge("s", "e", "s", {1}, Flip),
             Edge("t", "f", "t", {0, 1}, Flip) }

StateModel(edges, forbidden) ==
    [start |-> "s", value |-> 0, transitions |-> edges, forbidden |-> forbidden]

\* A counter of three values whose forbidden state has a short and a long way to it.
Count3 == [v \in 0..2 |-> (v + 1) % 3]
TwoWays == { << Edge("s", "e", "s", 0..2, Count3), Edge("s", "f", "t", 0..1, Count3),
                Edge("t", "e", "t", 0..2, Count3) >>,
             << Edge("s", "f", "t", {0}, Count3), Edge("s", "e", "s", 0..2, Count3),
                Edge("s", "f", "t", {2}, [v \in 0..2 |-> 2]),
                Edge("t", "e", "t", {1}, Count3) >> }

\* Every list of at most three of the edges, and the counters, with one forbidden
\* configuration or none.
MCModels ==
    { StateModel(q, f) :
        q \in { <<x, y, z>> : x, y, z \in MCEdges } \union { <<x>> : x \in MCEdges }
               \union TwoWays,
        f \in { {}, {<<"t", 0>>}, {<<"s", 1>>}, {<<"t", 2>>} } }

\* Bounds that are never reached, and each of the three reached early.
Bound(s, d, t) == [states |-> s, depth |-> d, transitions |-> t]
MCBounds == { Bound(9, 9, 30), Bound(3, 9, 30), Bound(9, 2, 30), Bound(9, 9, 3) }

\* Implementations of one another, conforming and not.
MCTestModels ==
    { StateModel(q, {}) :
        q \in { << Edge("s", "e", "t", {0, 1}, Same), Edge("t", "e", "s", {0, 1}, Same),
                   Edge("s", "f", "s", {0, 1}, Flip), Edge("t", "f", "t", {0, 1}, Same) >>,
                << Edge("s", "e", "t", {1}, Same), Edge("s", "e", "s", {0}, Flip),
                   Edge("t", "e", "t", {0, 1}, Same), Edge("t", "f", "s", {0, 1}, Same),
                   Edge("s", "f", "s", {0, 1}, Flip) >>,
                << Edge("s", "e", "s", {0, 1}, Flip), Edge("s", "f", "t", {1}, Same),
                   Edge("s", "f", "s", {0}, Same), Edge("t", "e", "t", {0, 1}, Same),
                   Edge("t", "f", "t", {0, 1}, Same) >> } }
MCEventLists == UNION { [1..n -> {"e", "f"}] : n \in 1..5 }

MCLocations == [a \in {"p", "q"} |-> IF a = "p" THEN <<"BEFORE_WRITE", "AFTER_WRITE">>
                                                ELSE <<"BEFORE_READ">>]

\* Two seeds of one value: their schedules have one id.
MCSeeds == { <<"v1", "">>, <<"v1", "salted">> }

\* Samples around the limits of the profiles: memory grown by a quarter, by more,
\* from nothing; a thread or a queue left over.
Sample(h, q, t, b) == [held |-> h, queued |-> q, threads |-> t, memory |-> b]
MCSnapshots ==
    { Sample(h, 0, 0, b) : h \in 0..2, b \in {0, 4, 5, 6} }
        \union { Sample(h, 1, 0, 4) : h \in 0..1 } \union { Sample(0, 0, 1, 4) }

-----------------------------------------------------------------------------

\* A required lane and an optional one, with an attempt each.  One field of a
\* discovery or a checkpoint is foreign at a time; the slots, cuts and targets of
\* the other objects are any.
RunOf(slot) == [slot |-> slot, run |-> 1]
AttemptOf(slot, rank) == Attempt(RunOf(slot), slot, rank)
MCLaneRuns == {RunOf("A"), RunOf("B")}
MCAttempts == {AttemptOf("A", 1), AttemptOf("B", 1)}
MCKnowledges == {Knowledge(a, a) : a \in MCAttempts}

Named(slot, attempt, knows) ==
    << RunOf(slot), AttemptOf(attempt, 1),
       Knowledge(AttemptOf(knows, 1), AttemptOf(knows, 1)) >>
MCOrigin == [s \in {"E1", "E3"} |->
    { Named("A", "A", "A"), Named("B", "B", "B"), Named("B", "A", "A") }
      \union IF s = "E1" THEN { Named("A", "A", "B"), Named("A", "B", "B") } ELSE {}]

\* E1 has no checkpoints, and E3 no direct producers.  In E3 a discovery is sealed,
\* and another directed.
MCMaxOf == [s \in {"E1", "E3"} |-> [k \in AdmittedKinds |->
    IF << k, s >> \in { <<"checkpoint", "E1">>, <<"execution", "E3">> } THEN 0
    ELSE IF k = "discovery" /\ s = "E3" THEN 2 ELSE 1]]
MCFindings == [s \in {"E1", "E3"} |-> IF s = "E1" THEN {0} ELSE {1}]

-----------------------------------------------------------------------------

\* A claim with a qualification for it and one against it, which depends on
\* one node only and has nothing depend on it; two more nodes; and the observation of a pipeline.
Node(x) == <<"node", x>>
MCQualification == {Node("q1"), Node("q2")}
MCSubject == <<"fuzz", "c1">>
MCEvidenceId == {Node("e"), Node("o"), Node("k"), MCSubject} \union MCQualification
MCClaimOf == [q \in MCQualification |-> Node("k")]
MCQualifiedAs == [q \in MCQualification |-> IF q = Node("q1") THEN "SUPPORTS" ELSE "REFUTES"]
MCEvidenceEdges ==
    {e \in EvidenceId \X EvidenceId :
        e[2] # Node("q2") /\ (e[1] = Node("q2") => e[2] = Node("o"))}

\* Revisions that differ from what is recorded under their number, and that leave numbers
\* out: a confirmed one without a test before it, and one to test after a rejection.
Revised(n, s, c) == [number |-> n, status |-> s, cut |-> c]
MCHeld == { Revised(1, "TESTING", 0), Revised(2, "REJECTED", 1), Revised(3, "CONFIRMED", 0),
            Revised(3, "TESTING", 1) }

MCClaim == {<<"claim", "k">>}
MCAssessments == { AllSupported, [AllSupported EXCEPT !["IMPACT"] = "REFUTED"],
                   [AllSupported EXCEPT !["REACHABILITY"] = "INCONCLUSIVE"] }

-----------------------------------------------------------------------------

\* Attempts that share a lane, a run, or neither; one at another cut, isolated in no
\* known way.
Trying(l, r, c, i) ==
    [lane |-> l, run |-> r, source |-> "s", cut |-> c, isolation |-> i, clean |-> TRUE]
MCTrial == { Trying("x", "r1", 1, "DECLARED"), Trying("y", "r2", 1, "DECLARED"),
             Trying("y", "r1", 1, "DECLARED"), Trying("x", "r3", 0, "UNKNOWN") }

\* A manifest of a corpus, and one that is the first gap projection.
MCManifest == {0, 1}

\* Discoveries with a common root or place, for and against, with evidence and without.
Axes(mechanism, rest) == [a \in OperationalAxis |-> IF a = "MECHANISM" THEN mechanism ELSE rest]
For(o) == [outcome |-> o, evidence |-> TRUE]
Report(root, place, id, outcome, typed, axes) ==
    [root |-> root, place |-> place, id |-> id, outcome |-> outcome,
     evidence |-> typed, axes |-> axes]
MCReported ==
    { Report("r", "", "i", "SUPPORTED", TRUE, Axes(For("SUPPORTED"), For("SUPPORTED"))),
      Report("r", "p", "", "REFUTED", TRUE, Axes(For("REFUTED"), For("SUPPORTED"))),
      Report("r", "", "", "REFUTED", FALSE,
             Axes([outcome |-> "REFUTED", evidence |-> FALSE], For("SUPPORTED"))),
      Report("", "p", "i", "none", TRUE, Axes(For("REFUTED"), For("none"))),
      Report("", "", "i", "SUPPORTED", TRUE, Axes(For("SUPPORTED"), For("BLOCKED"))),
      Report("", "", "", "SUPPORTED", TRUE, Axes(For("SUPPORTED"), For("SUPPORTED"))) }

\* What passes the gate, and what it refuses.
Says(role, critical, surfaces) ==
    [role |-> role, critical |-> critical, open |-> FALSE, findings |-> FALSE, tests |-> TRUE,
     raised |-> TRUE, qualified |-> TRUE, hidden |-> FALSE, surfaces |-> surfaces]
MCGateInput ==
    { Says("AUXILIARY_HOLDOUT", FALSE, {[active |-> TRUE, observed |-> FALSE]}),
      Says("AUXILIARY_HOLDOUT", TRUE, {}), Says("E1", FALSE, {}) }

-----------------------------------------------------------------------------

\* Every component but those of cs rests in its initial state.
OthersAtRest(cs) ==
    /\ "tool" \in cs \/ (call = NoCall /\ results = {} /\ deaths = 0)
    /\ "evidence" \in cs \/ standing = << >>
    /\ "findings" \in cs \/ FindingInit
    /\ "decisions" \in cs \/ decisions = {}
    /\ "cases" \in cs \/ cases = {}
    /\ "explorer" \in cs \/ job = << >>
    /\ "stateful" \in cs \/ stateful = NoStateful
    /\ "numeric" \in cs \/ numeric = NoNumeric
    /\ "crash" \in cs \/ tests = 0
    /\ "schedule" \in cs \/ (drawing = NoDrawing /\ drawn = << >>)
    /\ "trace" \in cs \/ trace = << >>
    /\ "endurance" \in cs \/ endurance = NoEndurance
    /\ "reveals" \in cs \/ knowledge = {}
    /\ "convergence" \in cs \/ released = {}
    /\ "admission" \in cs \/ chain = << >>
    /\ "log" \in cs \/ facts = << >>
    /\ "vault" \in cs \/ (~blob /\ putDeaths = 0 /\ \A p \in Putter : put[p].pc = "idle")
    /\ "brokers" \in cs \/ BrokersInit

ensembleVars == <<brokerVars, convergenceVars, revealVars>>

Alone(c) == OthersAtRest({c})

MCInit ==
    /\ Init /\ ExplorerInit /\ TestInit /\ CrashInit /\ ScheduleInit /\ TraceInit
    /\ ToolInit /\ VaultInit /\ AdmissionInit
    /\ EvidenceInit /\ AdjudicationInit /\ FindingInit
    /\ BrokersInit /\ ConvergenceInit /\ RevealsInit

\* Any two of the aggregates at a time, one of them in the longest logs.
MCLog ==
    /\ Alone("log") /\ Next
    /\ Cardinality({facts'[i].aggregate : i \in DOMAIN facts'})
          <= IF Len(facts') < 4 THEN 2 ELSE 1
    /\ UNCHANGED <<explorerVars, testVars, crashVars, scheduleVars, traceVars,
                   toolVars, vaultVars, chain, auditVars, ensembleVars>>

MCDeepen ==
    /\ \/ /\ Alone("explorer") /\ ExplorerNext
          /\ UNCHANGED <<testVars, crashVars, scheduleVars, traceVars>>
       \/ /\ Alone("stateful") /\ StatefulNext
          /\ UNCHANGED <<explorerVars, crashVars, scheduleVars, traceVars>>
       \/ /\ Alone("numeric") /\ NumericNext
          /\ UNCHANGED <<explorerVars, crashVars, scheduleVars, traceVars>>
       \/ /\ Alone("crash") /\ CrashNext
          /\ UNCHANGED <<explorerVars, testVars, scheduleVars, traceVars>>
       \/ /\ Alone("schedule") /\ ScheduleNext
          /\ UNCHANGED <<explorerVars, testVars, crashVars, traceVars>>
       \/ /\ Alone("trace") /\ TraceNext
          /\ UNCHANGED <<explorerVars, testVars, crashVars, scheduleVars>>
       \/ /\ Alone("endurance") /\ EnduranceNext
          /\ UNCHANGED <<explorerVars, testVars, crashVars, scheduleVars>>
    /\ UNCHANGED <<facts, toolVars, vaultVars, chain, auditVars, ensembleVars>>

OthersRest ==
    UNCHANGED <<facts, explorerVars, testVars, crashVars, scheduleVars, traceVars>>

\* Two experiments, or one and a death of the caller.
MCTool ==
    /\ Alone("tool") /\ ToolNext /\ OthersRest
    /\ UNCHANGED <<vaultVars, chain, auditVars, ensembleVars>>
    /\ call = NoCall => Cardinality(results) + deaths < 2

MCVault ==
    /\ Alone("vault") /\ VaultNext /\ OthersRest
    /\ UNCHANGED <<toolVars, chain, auditVars, ensembleVars>>

MCAdmission ==
    /\ Alone("admission") /\ AdmissionNext /\ OthersRest
    /\ UNCHANGED <<toolVars, vaultVars, auditVars, ensembleVars>>

MCPropagation ==
    \/ \E roots \in SUBSET Nodes : Invalidate(roots)
    \/ \E n \in Nodes : Spread(n)

\* Others revise a hypothesis: that of a crash, with nothing going on but its pipeline.
IsRevised == \E h \in Subject : \E r \in OnRecord(h) : r.number > 1 \/ r.status # "PROPOSED"
IsCalm ==
    /\ active = 0 /\ ~registered
    /\ \A h \in Subject \ {MCSubject} : chains[h] = << >>
    /\ executions \subseteq {[subject |-> MCSubject, observed |-> "CRASH"]}

\* Evidence without the pipelines, their decisions and cases each alone, and the
\* pipelines while their observations are invalidated.  The claim is no node.
MCAudit ==
    /\ \/ /\ Alone("evidence")
          /\ \/ \E n \in EvidenceId \ {MCSubject, Node("k")} : AddNode(n)
             \/ \E e \in MCEvidenceEdges : AddEdge(e[1], e[2])
             \/ MCPropagation
          /\ UNCHANGED <<findingVars, adjudicationVars>>
       \/ Alone("decisions") /\ DecisionsNext /\ UNCHANGED <<findingVars, evidenceVars>>
       \/ Alone("cases") /\ CasesNext /\ UNCHANGED <<findingVars, evidenceVars>>
       \/ /\ OthersAtRest({"findings", "evidence", "decisions"})
          /\ Nodes \subseteq Subject /\ {d.claim : d \in decisions} \subseteq Subject
          /\ \/ FindingNext /\ (IsRevised' => IsCalm')
             \/ ~IsRevised /\ MCPropagation /\ UNCHANGED <<findingVars, adjudicationVars>>
    /\ OthersRest /\ UNCHANGED <<toolVars, vaultVars, chain, ensembleVars>>

\* One ensemble at a time; one set of claims to converge; three attempts, all before the
\* blind run, which makes one claim, a gate that closes the stage after two reveals, and of
\* four reveals, either one of the gaps or two of one corpus.
Shown(manifest) == Cardinality({e \in reveals : e.type = "CUMULATIVE" /\ e.view = manifest})
Attempting == {k \in knowledge : k.previous = {}}
MCEnsembles ==
    /\ \/ /\ Alone("brokers") /\ BrokersNext /\ UNCHANGED <<convergenceVars, revealVars>>
          /\ \E e \in Ensemble : notes'[e] = [l \in BlindLane |-> << >>] /\ sealed'[e] = << >>
       \/ /\ Alone("convergence") /\ ConvergenceNext /\ UNCHANGED <<brokerVars, revealVars>>
          /\ Cardinality(released') < 2
       \/ /\ Alone("reveals") /\ candidates = {}
          /\ RevealsNext /\ UNCHANGED <<brokerVars, convergenceVars>>
          /\ Cardinality(Attempting') <= 3 /\ (blinds # {} => Attempting' = Attempting)
          /\ \A b \in blinds' : Cardinality(b.claims) = 1
          /\ Cardinality(schedulers') <= 2 /\ Cardinality(directed') <= 1
          /\ Cardinality(reveals') = 4 =>
                 views' = 1 \/ \E manifest \in Manifest : Shown(manifest)' = 2
          /\ candidates' # {} => Cardinality(reveals) = 2 /\ Cardinality(knowledge) <= 4
    /\ OthersRest /\ UNCHANGED <<toolVars, vaultVars, chain, auditVars>>

MCNext == MCLog \/ MCDeepen \/ MCTool \/ MCVault \/ MCAdmission \/ MCAudit
          \/ MCEnsembles

mcVars == <<facts, explorerVars, testVars, crashVars, scheduleVars, traceVars,
            toolVars, vaultVars, chain, auditVars, ensembleVars>>

\* The supervisor takes its steps and reads a clock that runs; nothing is asked of
\* the target.
MCSpec ==
    /\ MCInit /\ [][MCNext]_mcVars
    /\ WF_mcVars(/\ Alone("tool") /\ Supervising /\ OthersRest
                 /\ UNCHANGED <<vaultVars, chain, auditVars, ensembleVars>>)
    /\ WF_mcVars(/\ Alone("tool") /\ TimePasses /\ OthersRest
                 /\ UNCHANGED <<vaultVars, chain, auditVars, ensembleVars>>)

\* The type invariant of every component.
EnginesTypeOK ==
    /\ TypeOK /\ ExplorerTypeOK /\ TestTypeOK /\ CrashTypeOK /\ ScheduleTypeOK
    /\ TraceTypeOK /\ ToolTypeOK /\ VaultTypeOK
=============================================================================
