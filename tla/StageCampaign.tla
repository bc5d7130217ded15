----------------------------- MODULE StageCampaign -----------------------------
(***************************************************************************)
(* advance_to_next_stage of the orchestrator over the phases of the        *)
(* stages: it finds the stage of the campaign, prepares its first phase    *)
(* unless the session holds a batch of the stage, waits for the results of *)
(* the batch, and hands them to the services of their phase.               *)
(***************************************************************************)
EXTENDS E2Phases, E3Results, E5Phases

-----------------------------------------------------------------------------
\* The calls.

FirstPhase(s) ==
    IF s = "E2" THEN "E2-BLIND" ELSE IF s = "E3" THEN "E3-BLIND"
    ELSE IF s = "E4" THEN "E4-DEEPEN" ELSE "E5A-ATTACK"

Advance(p) ==
    /\ Idle(p)
    /\ Goes(p, Then(op[p], << Step("decide", "E2") >>))

\* The session has no batch of stage s, or holds one of it.
AtStage(p, s) ==
    LET r == op[p]
    IN  Goes(p, Then(r, (IF StageOfBatch(r) = s THEN << >> ELSE Preparation(FirstPhase(s)))
                        \o Steps(None, << "check" >>)))

\* E2 and E3 are looked for at one cut, E4 and E5 each at another.  After E5 the
\* advance evaluates STOP (Finalization).
Decide(p) ==
    /\ AtCut(p, "decide")
    /\ LET c == op[p].cut
           s == Current(p)
           t == IF s = "E2" /\ StageDone(c, "E2") THEN "E3" ELSE s
       IN  IF ~StageDone(c, t) THEN AtStage(p, t)
           ELSE IF t = "E5" THEN Goes(p, Over(op[p]))
           ELSE Goes(p, Then(op[p], << Step("decide", IF t = "E3" THEN "E4" ELSE "E5") >>))

After(f) ==
    IF StageOf(f) = "E2" THEN AfterE2(f)
    ELSE IF StageOf(f) = "E3" THEN AfterE3(f)
    ELSE IF StageOf(f) = "E4" THEN AfterE4 ELSE AfterE5(f)

\* WAITING_EXTERNAL_RESULTS, or the services of the phase.
Check(p) ==
    /\ Doing(p, "check")
    /\ LET r == op[p]
       IN  IF r.inbox = {} \/ ~InboxComplete(r) THEN Raises(p)
           ELSE Goes(p, Then(r, After(PhaseOf(r.batch))))

\* prepare_..._orchestration, called by itself.
Prepare(p, f) ==
    /\ Idle(p)
    /\ f \in Direct
    /\ Goes(p, Then(op[p], Preparation(f)))

-----------------------------------------------------------------------------
Regular(p) ==
    \/ Start(p)
    \/ Advance(p)
    \/ \E pkg \in packages, says \in Saying : Import(p, pkg, says)

Calls(p) == Regular(p) \/ \E f \in Phase : Prepare(p, f)

Works(p) ==
    \/ ReadCut(p)
    \/ Decide(p)
    \/ Check(p)
    \/ Assign(p)
    \/ Publish(p)
    \/ PublishFile(p)
    \/ Load(p)
    \/ Resume(p)
    \/ Look(p)
    \/ Begin(p)
    \/ SendResult(p)
    \/ Reload(p)
    \/ E2Step(p)
    \/ E3Step(p)
    \/ E3ResultStep(p)
    \/ E5Step(p)

Next ==
    \/ \E p \in Operator : Calls(p) \/ Works(p) \/ Die(p)
    \/ Elsewhere

Spec == Init /\ [][Next]_vars

\* A call of a living process goes on by itself.
FairSpec == Spec /\ \A p \in Operator : WF_vars(Works(p))

-----------------------------------------------------------------------------
\* Every step that has read a cut read one of the past, an archive under import
\* is of a package, and a receipt is only beside its package.
TypeOK ==
    /\ \A n \in DOMAIN log :
          log[n].auth < n /\ log[n].about < n /\ log[n].basis \subseteq 1..(n - 1)
    /\ \A p \in Operator :
          /\ op[p].cut <= Len(log) /\ op[p].auth <= Len(log) /\ op[p].about <= Len(log)
          /\ op[p].pub <= 2 * Len(Lanes[IF op[p].pub = 0 THEN "E2-BLIND" ELSE Current(p)])
          /\ op[p].batch \cup op[p].inbox \subseteq packages
          /\ ~op[p].open => op[p] = Closed
    /\ receipts \subseteq packages

\* What is done once for a phase.  A grant, a candidate and the challenges of a
\* candidate may come again.
Once == {"assignments", "scope", "checkpoints", "synthesis", "contradictions", "decisions",
         "successors", "discoveries", "fidelity", "findings", "completion"}

\* However many operators advance the campaign, no phase is assigned, sealed,
\* adjudicated or completed twice: each service looks, and commits what it did not
\* find, at one head (HISTORY_CUT of the store, _existing of the services).
OncePerPhase ==
    \A i, j \in DOMAIN log :
        log[i].kind \in Once /\ log[j].kind = log[i].kind /\ log[j].phase = log[i].phase => i = j

\* Nothing of the blind phase is revealed, and no gap is directed, before the
\* checkpoints of that phase, which are of one result for each lane.
SealBefore(n, blind) ==
    \E m \in At(n - 1, "checkpoints", blind) : AllIn(m - 1, blind)

GrantsFollowSeals ==
    /\ \A n \in At(Len(log), "grant", "E2-REVEAL") : SealBefore(n, "E2-BLIND")
    /\ \A n \in At(Len(log), "grant", "E3-GAP") : SealBefore(n, "E3-BLIND")

\* The phases of a stage are assigned after the stage before it was completed,
\* whichever calls the operators make, in whatever order.
StageOrder ==
    \A n \in DOMAIN log :
        log[n].kind = "assignments" => StageDone(n - 1, Before(StageOf(log[n].phase)))

\* What a package of a phase that needs a grant shows, when it was authorized at cut
\* c, about a candidate.
Display(f, c, about) ==
    IF f = "E2-REVEAL" THEN RevealView(c)
    ELSE IF f = "E2-SHADOW" THEN ShadowView(c)
    ELSE IF f = "E2-CONTRADICTION" THEN ContradictionView(c)
    ELSE IF f = "E5B-CHALLENGE" THEN {about} ELSE ViewOf(f, c)

\* A result of a phase that needs a grant was made from a package of one: there
\* was a grant at the cut the package was authorized at, and it granted what the
\* package shows (prepare_stage_phase_batch, the authorization services).
UnderGrant(z) ==
    \E g \in At(z.auth, "grant", z.phase) :
        log[g].about = z.about /\ log[g].basis = Display(z.phase, z.auth, z.about)

ResultsUnderTheirGrant ==
    \A n \in DOMAIN log :
        log[n].kind \in {"evidence", "result"} /\ log[n].phase \in Granted => UnderGrant(log[n])

\* A stage is completed on results only, all in and fit for it, and its completion
\* names every result there is of its phases, none accepted meanwhile left out: E2
\* by a full resolution of its contradictions, E4 with the fidelity of the model,
\* E5 without counterevidence.  (The stages complete at the beginning have no
\* assignments.)
NamesAllResults(n, s) ==
    \A f \in Phase : StageOf(f) = s => At(n - 1, "result", f) \subseteq log[n].basis

Earned(c, s) ==
    /\ s = "E2" =>
          /\ AllIn(c, "E2-CONTRADICTION")
          /\ ~SomeSays(c, "E2-CONTRADICTION", "notable")
          /\ Has(c, "decisions", "E2-CONTRADICTION") /\ Has(c, "successors", "E2-CONTRADICTION")
    /\ s = "E4" =>
          /\ AllIn(c, "E4-DEEPEN") /\ ~SomeSays(c, "E4-DEEPEN", "unusable")
          /\ Has(c, "fidelity", "E4-DEEPEN")
    /\ s = "E5" =>
          /\ AllIn(c, "E5A-ATTACK") /\ AllIn(c, "E5B-CHALLENGE")
          /\ ~SomeSays(c, "E5B-CHALLENGE", "notable")

CompletionsAreEarned ==
    \A s \in Stage : \A n \in At(Len(log), "completion", s) :
        (\E f \in Phase : StageOf(f) = s /\ Has(n - 1, "assignments", f))
            => Earned(n - 1, s) /\ NamesAllResults(n, s)

\* E5 is completed on one candidate, the newest then: its completion names this one
\* and no other, the challenges it names are about it, and so are the results they
\* were made from (_latest and the two services of e5_runtime that use it).
ChallengedWasNewest ==
    \A n \in At(Len(log), "completion", "E5") :
        LET named(kind) == {k \in log[n].basis : log[k].kind = kind}
        IN  /\ named("candidate") = {Latest(n - 1)}
            /\ named("challenges") # {}
            /\ \A k \in named("challenges") :
                  /\ log[k].about = Latest(n - 1)
                  /\ \A m \in log[k].basis : log[m].kind # "findings" => Latest(n - 1) \in {m, log[m].about}

-----------------------------------------------------------------------------
\* What the repository says, and the code does not do.

\* A campaign resumes from the accepted history and the package bytes whatever step
\* the process died at: no assigned phase is without its packages.
ResumeSucceeds ==
    \A p \in Operator : AtCut(p, "resume") /\ ResumedPhase(op[p].cut) # None =>
        Reconstructible(ResumedPhase(op[p].cut))

\* With the results of its phases in and its checkpoints sealed, E3 is completed by
\* its finalization, unless another command came between.
FinalizationCompletesE3 ==
    [][\A p \in Operator :
          /\ AtCut(p, "finalize") /\ Current(p) = "E3-BLIND" /\ op'[p].todo = << >>
          /\ op[p].cut = Len(log)
          /\ \A f \in PhasesPresent(op[p].cut) : AllIn(op[p].cut, f)
          => Has(Len(log'), "completion", "E3")]_vars

=============================================================================
