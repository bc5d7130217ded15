-------------------------------- MODULE E3Phases --------------------------------
(***************************************************************************)
(* The services of E3 (workflow, e3_...): the scope baseline, the blind    *)
(* checkpoints, the gap phase directed by coverage, the cumulative phase,  *)
(* the holdout an operator may add, and the finalization of the stage.     *)
(***************************************************************************)
EXTENDS StagePhases

\* ensure_pre_e3_scope_baseline, on the way to the blind phase: an inventory of
\* the source, unless there is one.
Baseline(p) ==
    /\ AtCut(p, "baseline")
    /\ LET c == op[p].cut
       IN  IF ~StageDone(c, "E2") THEN Raises(p)
           ELSE Records(p, Has(c, "scope", "E3-BLIND"), Fact("scope", "E3-BLIND"), Further(op[p]))

\* The results of the blind lanes, and what is sealed from them.
BlindResults(c) == At(c, "result", "E3-BLIND")

BlindSeals(c) == At(c, "checkpoints", "E3-BLIND")

\* The discoveries of a result, and the checkpoint of its lane over them, in the
\* order the store wants them, in one commit.
BlindCheckpoints(c) == FactOn("checkpoints", "E3-BLIND", BlindResults(c))

\* E3BlindCheckpointService.seal: the checkpoints and the discoveries they cover.
SealBlind(p) ==
    /\ AtCut(p, "seal")
    /\ Current(p) = "E3-BLIND"
    /\ LET c == op[p].cut
       IN  IF ~AllIn(c, "E3-BLIND") THEN Raises(p)
           ELSE Records(p, BlindSeals(c) # {}, BlindCheckpoints(c), Further(op[p]))

RequireBlindSeal(p) == Checks(p, "before", "E3-GAP", BlindSeals(op[p].cut) # {})

-----------------------------------------------------------------------------
\* The views that direct the later phases, by the commits they show.

\* The discoveries of a lane among commits ns: those with a finding of it.
FoundBy(ns, lane) ==
    {n \in ns : \E k \in log[n].basis :
                   log[k].kind = "result" /\ log[k].lane = lane /\ log[k].says = "notable"}

\* E3's own discoveries of some phases.
Own(c, phases) ==
    UNION ({FoundBy(BlindSeals(c), lane) : lane \in LanesOf("E3-BLIND")}
             \cup {At(c, "discoveries", f) : f \in phases})

\* The gaps: the coverage and scope on record.
Gaps(c) == Material(c) \cup At(c, "scope", "E3-BLIND")

GapView(c) == Gaps(c) \cup BlindSeals(c)

\* What E1 and E2 decided; nothing, when they found nothing.
PriorCorpus(c) ==
    At(c, "synthesis", "E2-REVEAL") \cup At(c, "contradictions", "E2-SHADOW")
      \cup At(c, "successors", "E2-CONTRADICTION")

CumulativeView(c) == PriorCorpus(c) \cup Own(c, {"E3-GAP"})

\* The holdout: of E3's own, and of nothing before it.
HoldoutView(c) == Own(c, {"E3-GAP", "E3-CUMULATIVE"})

ViewOf(f, c) ==
    IF f = "E3-GAP" THEN GapView(c)
    ELSE IF f = "E3-CUMULATIVE" THEN CumulativeView(c) ELSE HoldoutView(c)

\* The grants for the view of cut c.  Faulty variant: any grant of the phase.
AnyGrant(c, f) == At(c, "grant", f)

SameView(c, f) == Showing(c, f, ViewOf(f, c))

SameCumulative(c) == SameView(c, "E3-CUMULATIVE")

GapGrant(c)        == GrantOn("E3-GAP", GapView(c))
CumulativeGrant(c) == GrantOn("E3-CUMULATIVE", CumulativeView(c))
HoldoutGrant(c)    == GrantOn("E3-HOLDOUT", HoldoutView(c))

GrantGap(p) ==
    LET c == op[p].cut
    IN  Authorizes(p, "E3-GAP", Gaps(c) # {}, SameView(c, "E3-GAP"), GapGrant(c))

GrantCumulative(p) ==
    LET c == op[p].cut
    IN  Authorizes(p, "E3-CUMULATIVE", TRUE, SameCumulative(c), CumulativeGrant(c))

\* The holdout is consumed by its grant: once, and for an unchanged view.
HoldoutConsumed(c) == At(c, "grant", "E3-HOLDOUT")

GrantHoldout(p) ==
    LET c == op[p].cut
    IN  Authorizes(p, "E3-HOLDOUT",
                      HoldoutView(c) # {} /\ HoldoutConsumed(c) = SameView(c, "E3-HOLDOUT"),
                      HoldoutConsumed(c), HoldoutGrant(c))

RequireGapResults(p) == Checks(p, "before", "E3-CUMULATIVE", AllIn(op[p].cut, "E3-GAP"))

RequireCumulativeResults(p) ==
    Checks(p, "before", "E3-HOLDOUT",
           AllIn(op[p].cut, "E3-CUMULATIVE") /\ HoldoutView(op[p].cut) # {})

-----------------------------------------------------------------------------
\* ExternalStageFinalizationService.finalize for E3: the results of its phases
\* and the checkpoints are the outputs of the completion.
PhasesPresent(c) ==
    {"E3-BLIND", "E3-GAP", "E3-CUMULATIVE"}
    \cup {f \in {"E3-HOLDOUT"} : Has(c, "assignments", f)}

OutputsOfE3(c) == BlindSeals(c) \cup UNION {At(c, "result", f) : f \in PhasesPresent(c)}

\* What _validate_stage_output_obligations wants among them; gap_directed_records
\* are the discoveries of the gap phase.
ObligationsOfE3 == {"result", "checkpoints", "discoveries"}

FinalizeE3(p) ==
    /\ AtCut(p, "finalize")
    /\ Current(p) = "E3-BLIND"
    /\ LET c == op[p].cut
       IN  IF Has(c, "completion", "E3") THEN Goes(p, Over(op[p]))
           ELSE IF \/ \E f \in PhasesPresent(c) : ~AllIn(c, f)
                   \/ BlindSeals(c) = {}
                   \/ ~(ObligationsOfE3 \subseteq {log[n].kind : n \in OutputsOfE3(c)})
           THEN Raises(p)
           ELSE Commits(p, FactOn("completion", "E3", OutputsOfE3(c)), Over(op[p]))

\* advance_to_next_stage, of a phase that is complete.
AfterE3(f) ==
    IF f = "E3-BLIND"
    THEN Steps(f, << "seal" >>) \o Preparation("E3-GAP")
    ELSE IF f = "E3-GAP"
    THEN Steps(f, << "validate" >>) \o Preparation("E3-CUMULATIVE")
    ELSE Steps(f, << "validate" >>) \o Steps("E3-BLIND", << "finalize" >>)

E3Step(p) ==
    \/ Baseline(p)
    \/ SealBlind(p)
    \/ RequireBlindSeal(p)
    \/ GrantGap(p)
    \/ RequireGapResults(p)
    \/ GrantCumulative(p)
    \/ RequireCumulativeResults(p)
    \/ GrantHoldout(p)
    \/ FinalizeE3(p)

=============================================================================
