-------------------------------- MODULE E2Phases --------------------------------
(***************************************************************************)
(* The services of E2 (workflow, e2_...): the checkpoints of the blind     *)
(* lanes, the controlled reveal, the main synthesis, the shadow            *)
(* adjudication, and the contradictions it finds with their resolution,    *)
(* which alone can complete the stage.                                     *)
(***************************************************************************)
EXTENDS StagePhases

\* The checkpoints are of the results of the blind lanes.
Sealed(c) == At(c, "result", "E2-BLIND")

\* E2BlindCheckpointService.seal: one checkpoint for each lane, in one commit.
Seal(p) ==
    /\ AtCut(p, "seal")
    /\ Current(p) = "E2-BLIND"
    /\ LET c == op[p].cut
       IN  IF ~AllIn(c, "E2-BLIND") THEN Raises(p)
           ELSE Records(p, Has(c, "checkpoints", "E2-BLIND"),
                           FactOn("checkpoints", "E2-BLIND", Sealed(c)), Further(op[p]))

\* Faulty variant: the reveal is prepared with or without the checkpoints.
RequireNoSeal(p) == Checks(p, "before", "E2-REVEAL", TRUE)

\* E2ControlledRevealService.authorize, before the assignments.
RequireSeal(p) ==
    Checks(p, "before", "E2-REVEAL", Has(op[p].cut, "checkpoints", "E2-BLIND"))

\* The claim cards are of the findings of E1's results, which its completion
\* stands for.
ClaimView(c) == At(c, "completion", "E1")

HasClaims(c) == \E n \in ClaimView(c) : log[n].says = "notable"

\* The reveal shows them, and names the checkpoints it follows.
RevealView(c) == ClaimView(c) \cup At(c, "checkpoints", "E2-BLIND")

RevealGrant(c) == GrantOn("E2-REVEAL", RevealView(c))

GrantReveal(p) ==
    LET c == op[p].cut
    IN  Authorizes(p, "E2-REVEAL", TRUE, Showing(c, "E2-REVEAL", RevealView(c)), RevealGrant(c))

\* The proposals of the reveal results, as claims and their assessments.
ProposalsUsable(c) == ~SomeSays(c, "E2-REVEAL", "unusable")

\* A claim for each card, with an assessment of each axis that names the
\* proposals, and a decision that names what the reveal lanes knew.
MainSynthesis(c) ==
    ClaimView(c) \cup At(c, "result", "E2-REVEAL") \cup At(c, "grant", "E2-REVEAL")

\* E2MainSynthesisService.synthesize: claims, assessments and main decisions; an
\* audit whose E1 found nothing has none to make, and is refused.  The proposals
\* are looked at when there are no decisions yet.
Synthesize(p) ==
    /\ AtCut(p, "synthesize")
    /\ LET c == op[p].cut
       IN  IF ~AllIn(c, "E2-REVEAL") \/ ~HasClaims(c) THEN Raises(p)
           ELSE IF ~Has(c, "synthesis", "E2-REVEAL") /\ ~ProposalsUsable(c)
           THEN Raises(p)
           ELSE Records(p, Has(c, "synthesis", "E2-REVEAL"),
                           FactOn("synthesis", "E2-REVEAL", MainSynthesis(c)), Further(op[p]))

\* The shadow sees the main decisions, and which discoveries were sealed before
\* the reveal.
ShadowView(c) == At(c, "synthesis", "E2-REVEAL") \cup At(c, "checkpoints", "E2-BLIND")

SameShadow(c) == Showing(c, "E2-SHADOW", ShadowView(c))

ShadowGrant(c) == GrantOn("E2-SHADOW", ShadowView(c))

GrantShadow(p) ==
    LET c == op[p].cut
    IN  Authorizes(p, "E2-SHADOW", Has(c, "synthesis", "E2-REVEAL"),
                      SameShadow(c), ShadowGrant(c))

\* _shadow_conflicts: where the shadow disagrees with the main decisions.
ShadowUsable(c) == AllIn(c, "E2-SHADOW") /\ ~SomeSays(c, "E2-SHADOW", "unusable")

Conflicts(c) == SomeSays(c, "E2-SHADOW", "notable")

\* _existing_contradictions.
Opened(c) == Has(c, "contradictions", "E2-SHADOW")

\* Nothing is disputed: no conflict, or its cases have successors already.
Undisputed(c) == ~Conflicts(c) \/ Has(c, "successors", "E2-CONTRADICTION")

\* Each conflict is a claim of the shadow against a main decision, and a case of
\* the two.
Cases(c) == At(c, "synthesis", "E2-REVEAL") \cup At(c, "result", "E2-SHADOW")

\* E2FinalizationService.finalize.  Conflicts become contradictions and open the
\* contradiction phase.  Once the cases have successors, which revision of a case
\* is found is a matter of their digests, and the view is of open cases only.
\* Without a conflict its completion is refused by the store (contradiction
\* obligations), as test_manual_stage expects.
FinalizeShadow(p) ==
    /\ AtCut(p, "finalize")
    /\ Current(p) = "E2-SHADOW"
    /\ LET c == op[p].cut
           r == op[p]
       IN  IF ~ShadowUsable(c) THEN Raises(p)
           ELSE IF Has(c, "completion", "E2") THEN Goes(p, Over(r))
           ELSE \/ /\ Undisputed(c)
                   /\ Raises(p)
                \/ /\ Conflicts(c)
                   /\ Records(p, Opened(c),
                                 FactOn("contradictions", "E2-SHADOW", Cases(c)),
                                 Then(r, Preparation("E2-CONTRADICTION")))

\* The view is of the cases the finalization found.
ContradictionView(c) == At(c, "contradictions", "E2-SHADOW")

SameContradiction(c) == Showing(c, "E2-CONTRADICTION", ContradictionView(c))

ContradictionGrant(c) == GrantOn("E2-CONTRADICTION", ContradictionView(c))

GrantContradiction(p) ==
    LET c == op[p].cut
    IN  Authorizes(p, "E2-CONTRADICTION", ContradictionView(c) # {},
                      SameContradiction(c), ContradictionGrant(c))

\* Every case of every contradiction result has a decision (_proposal_rows), and
\* not every decision resolves its case.
ResolutionReady(c) == AllIn(c, "E2-CONTRADICTION") /\ ~SomeSays(c, "E2-CONTRADICTION", "unusable")

Unresolved(c) == SomeSays(c, "E2-CONTRADICTION", "notable")

\* A decision names its case, what the adjudicator was shown, and the result.
DecisionBasis(c) == ContradictionView(c) \cup At(c, "result", "E2-CONTRADICTION")

\* E2ContradictionResolutionService.resolve, in three commits: the decisions at
\* its own cut; at a fresh cut the successors; and when every successor is
\* RESOLVED_FULL, at another, the completion of E2.
Resolve(p) ==
    /\ AtCut(p, "resolve")
    /\ LET c == op[p].cut
       IN  IF ~ResolutionReady(c) THEN Raises(p)
           ELSE Records(p, Has(c, "decisions", "E2-CONTRADICTION"),
                           FactOn("decisions", "E2-CONTRADICTION", DecisionBasis(c)),
                           Further(op[p]))

\* The successor of a case, under its decision.
Succession(c) == ContradictionView(c) \cup At(c, "decisions", "E2-CONTRADICTION")

\* Faulty variant: a partial resolution completes the stage, too.
SucceedAlways(p) ==
    /\ AtCut(p, "succeed")
    /\ Records(p, Has(op[p].cut, "successors", "E2-CONTRADICTION"),
                  FactOn("successors", "E2-CONTRADICTION", Succession(op[p].cut)),
                  Further(op[p]))

Succeed(p) ==
    /\ AtCut(p, "succeed")
    /\ LET c == op[p].cut
           r == op[p]
       IN  Records(p, Has(c, "successors", "E2-CONTRADICTION"),
                      FactOn("successors", "E2-CONTRADICTION", Succession(c)),
                      IF Unresolved(c) THEN Over(r) ELSE Further(r))

\* The lane completions of E2: of every result of its four phases.
LaneOutputs(c) ==
    UNION {At(c, "result", f) :
             f \in {"E2-BLIND", "E2-REVEAL", "E2-SHADOW", "E2-CONTRADICTION"}}

\* What the completion names as the outputs of the stage.
OutputsOfE2(c) ==
    At(c, "synthesis", "E2-REVEAL") \cup At(c, "checkpoints", "E2-BLIND")
      \cup ContradictionView(c) \cup At(c, "decisions", "E2-CONTRADICTION")
      \cup At(c, "successors", "E2-CONTRADICTION") \cup LaneOutputs(c)

CompleteE2(p) ==
    /\ AtCut(p, "complete")
    /\ Current(p) = "E2-CONTRADICTION"
    /\ LET c == op[p].cut
       IN  Records(p, Has(c, "completion", "E2"), FactOn("completion", "E2", OutputsOfE2(c)),
                      Over(op[p]))

\* advance_to_next_stage, of a phase that is complete.
AfterE2(f) ==
    IF f = "E2-BLIND"
    THEN Steps(f, << "seal" >>) \o Preparation("E2-REVEAL")
    ELSE IF f = "E2-REVEAL"
    THEN Steps(f, << "synthesize" >>) \o Preparation("E2-SHADOW")
    ELSE IF f = "E2-SHADOW" THEN Steps(f, << "finalize" >>)
    ELSE Steps(f, << "resolve", "succeed", "complete" >>)

E2Step(p) ==
    \/ Seal(p)
    \/ RequireSeal(p)
    \/ GrantReveal(p)
    \/ Synthesize(p)
    \/ GrantShadow(p)
    \/ FinalizeShadow(p)
    \/ GrantContradiction(p)
    \/ Resolve(p)
    \/ Succeed(p)
    \/ CompleteE2(p)

=============================================================================
