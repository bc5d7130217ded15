-------------------------------- MODULE E5Phases --------------------------------
(***************************************************************************)
(* The services of E4 and E5 (workflow/stage_finalize, e5_runtime): the    *)
(* model fidelity of E4 and its completion; the findings of E5, the        *)
(* candidate assurance case frozen from them, its two challengers, and     *)
(* the completion of E5.                                                   *)
(***************************************************************************)
EXTENDS StagePhases

\* E4FinalizationService: the fidelity of the model lane, then the completion.
\* The lanes' results are looked at in full by the second only.
ModelLane == Lanes["E4-DEEPEN"][1]

ModelResults(c) == {n \in At(c, "result", "E4-DEEPEN") : log[n].lane = ModelLane}

ModelResultUsable(c) ==
    Cardinality(ModelResults(c)) = 1 /\ \A n \in ModelResults(c) : log[n].says # "unusable"

AssessFidelity(p) ==
    /\ AtCut(p, "fidelity")
    /\ LET c == op[p].cut
       IN  IF ~ModelResultUsable(c) THEN Raises(p)
           ELSE Records(p, Has(c, "fidelity", "E4-DEEPEN"),
                           FactOn("fidelity", "E4-DEEPEN", ModelResults(c)), Further(op[p]))

\* The results of both lanes and the fidelity are the outputs of the stage.
OutputsOfE4(c) == At(c, "result", "E4-DEEPEN") \cup At(c, "fidelity", "E4-DEEPEN")

FinalizeE4(p) ==
    /\ AtCut(p, "finalize")
    /\ Current(p) = "E4-DEEPEN"
    /\ LET c == op[p].cut
       IN  IF Has(c, "completion", "E4") THEN Goes(p, Over(op[p]))
           ELSE IF \/ ~AllIn(c, "E4-DEEPEN")
                   \/ SomeSays(c, "E4-DEEPEN", "unusable")
                   \/ ~Has(c, "fidelity", "E4-DEEPEN")
           THEN Raises(p)
           ELSE Commits(p, FactOn("completion", "E4", OutputsOfE4(c)), Over(op[p]))

-----------------------------------------------------------------------------
\* A finding becomes a claim, its assessments and its decision, which name the
\* result and what its lane knew.
FindingsOf(c, f) == FactOn("findings", f, At(c, "result", f) \cup At(c, "grant", f))

\* _existing_for_discovery, of every finding of the phase.
Canonical(c, f) == Has(c, "findings", f)

\* E5FindingCanonicalizationService.materialize: each finding of the phase as a
\* claim with its decision, those already there left alone.
Canonicalize(p) ==
    /\ AtCut(p, "canonicalize")
    /\ LET c == op[p].cut
           f == Current(p)
       IN  IF ~AllIn(c, f) THEN Raises(p)
           ELSE Records(p, Canonical(c, f) \/ ~SomeSays(c, f, "notable"), FindingsOf(c, f),
                           Further(op[p]))

\* What a candidate is frozen from, at cut c: scope, coverage, and every claim,
\* decision and contradiction on record.
Case(c) ==
    Material(c) \cup At(c, "scope", "E3-BLIND")
      \cup At(c, "synthesis", "E2-REVEAL")
      \cup At(c, "contradictions", "E2-SHADOW") \cup At(c, "successors", "E2-CONTRADICTION")
      \cup At(c, "findings", "E5A-ATTACK") \cup At(c, "findings", "E5B-CHALLENGE")

\* The claims of the shadow, recorded with the contradictions, have no decision,
\* and nothing makes one for them.
Unadjudicated(c) ==
    \/ Has(c, "contradictions", "E2-SHADOW")
    \/ \E n \in At(c, "completion", "E2") : log[n].says = "notable"

Candidates5(c) == At(c, "candidate", "E5A-ATTACK")

\* The newest candidate case (_latest), 0 when there is none.
Latest(c) ==
    IF Candidates5(c) = {} THEN 0
    ELSE CHOOSE n \in Candidates5(c) : \A k \in Candidates5(c) : k <= n

\* E5AValidationService: what the attack results have to be.
AttackUsable(c) == ~SomeSays(c, "E5A-ATTACK", "unusable")

AttackFit(c) == AllIn(c, "E5A-ATTACK") /\ AttackUsable(c)

FrozenCase(c) == FactOn("candidate", "E5A-ATTACK", Case(c))

\* CandidateAssuranceCaseService.freeze: the newest candidate if it was frozen
\* from the same case, otherwise a new one; every claim must have its decision.
Freeze(p) ==
    /\ AtCut(p, "freeze")
    /\ LET c == op[p].cut
           n == Latest(c)
       IN  IF \/ ~AttackFit(c)
              \/ At(c, "scope", "E3-BLIND") = {}
              \/ Unadjudicated(c)
           THEN Raises(p)
           ELSE IF n # 0 /\ log[n].basis = Case(c)
           THEN Goes(p, [Further(op[p]) EXCEPT !.about = n])
           ELSE Commits(p, FrozenCase(c), [Further(op[p]) EXCEPT !.about = c + 1])

\* E5ChallengeAuthorizationService.authorize: the challengers' assignments and
\* the grants for the candidate of the call.
CandidateView(n) == {n}

ChallengesOf(c, n) == Showing(c, "E5B-CHALLENGE", CandidateView(n))

ChallengeGrant(n) == [GrantOn("E5B-CHALLENGE", CandidateView(n)) EXCEPT !.about = n]

AuthorizeChallenge(p) ==
    LET r == op[p]
    IN  Authorizes(p, "E5B-CHALLENGE", r.about \in Candidates5(r.cut),
                      ChallengesOf(r.cut, r.about), ChallengeGrant(r.about))

\* E5ChallengerResultService.materialize: the results are read as challenges of
\* the newest candidate, and must name it.
ChallengedAt(c, n) == {k \in At(c, "challenges", "E5B-CHALLENGE") : log[k].about = n}

\* A challenge names the candidate, its assignment, the result, and the findings
\* of the challengers as counterclaims.
Challenged(c, n) ==
    {n} \cup ChallengesOf(c, n)
      \cup At(c, "result", "E5B-CHALLENGE") \cup At(c, "findings", "E5B-CHALLENGE")

\* Faulty variant: a result may be about any candidate.
MaterializeAny(p) ==
    /\ AtCut(p, "materialize")
    /\ LET c == op[p].cut
           n == Latest(c)
       IN  IF ~AllIn(c, "E5B-CHALLENGE") \/ n = 0 \/ ChallengesOf(c, n) = {} THEN Raises(p)
           ELSE IF ChallengedAt(c, n) # {} THEN Goes(p, Further(op[p]))
           ELSE Commits(p, FactAbout("challenges", "E5B-CHALLENGE", Challenged(c, n), n),
                           Further(op[p]))

AboutLatest(c) ==
    \A k \in At(c, "result", "E5B-CHALLENGE") : log[k].about = Latest(c)

Materialize(p) ==
    /\ AtCut(p, "materialize")
    /\ LET c == op[p].cut
           n == Latest(c)
       IN  IF ~AllIn(c, "E5B-CHALLENGE") \/ n = 0 \/ ChallengesOf(c, n) = {} THEN Raises(p)
           ELSE IF ChallengedAt(c, n) # {} THEN Goes(p, Further(op[p]))
           ELSE IF ~AboutLatest(c) \/ SomeSays(c, "E5B-CHALLENGE", "unusable") THEN Raises(p)
           ELSE Commits(p, FactAbout("challenges", "E5B-CHALLENGE", Challenged(c, n), n),
                           Further(op[p]))

\* The candidate, its challengers and challenges, and the results of both phases.
OutputsOfE5(c) ==
    {Latest(c)} \cup ChallengesOf(c, Latest(c)) \cup ChallengedAt(c, Latest(c))
      \cup At(c, "result", "E5A-ATTACK") \cup At(c, "result", "E5B-CHALLENGE")

\* E5FinalizationService.finalize: both challengers of the newest candidate found
\* no material counterevidence; otherwise adjudication is required.
FinalizeE5(p) ==
    /\ AtCut(p, "finalize")
    /\ Current(p) = "E5B-CHALLENGE"
    /\ LET c == op[p].cut
       IN  IF Has(c, "completion", "E5") THEN Goes(p, Over(op[p]))
           ELSE IF \/ ~AttackFit(c)
                   \/ ~AllIn(c, "E5B-CHALLENGE")
                   \/ ChallengedAt(c, Latest(c)) = {}
                   \/ SomeSays(c, "E5B-CHALLENGE", "notable")
           THEN Raises(p)
           ELSE Commits(p, FactOn("completion", "E5", OutputsOfE5(c)), Over(op[p]))

\* _advance_e4_external and _advance_e5_external, of a phase that is complete.
AfterE4 == Steps("E4-DEEPEN", << "fidelity", "finalize" >>)

AfterE5(f) ==
    IF f = "E5A-ATTACK"
    THEN Steps(f, << "canonicalize", "freeze" >>) \o Preparation("E5B-CHALLENGE")
    ELSE Steps(f, << "canonicalize", "materialize", "finalize" >>)

E5Step(p) ==
    \/ AssessFidelity(p)
    \/ FinalizeE4(p)
    \/ Canonicalize(p)
    \/ Freeze(p)
    \/ AuthorizeChallenge(p)
    \/ Materialize(p)
    \/ FinalizeE5(p)

=============================================================================
