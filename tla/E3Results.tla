-------------------------------- MODULE E3Results -------------------------------
(***************************************************************************)
(* What the results of the later phases of E3 have to be (workflow,        *)
(* e3_gap_result, e3_cumulative_result, e3_holdout_result).  Each service  *)
(* reads the results against the one view that the packages of its         *)
(* session's batch show, and records their findings as discoveries.  A     *)
(* result that is not "unusable" answers what its own package shows.       *)
(***************************************************************************)
EXTENDS E3Phases

\* The views the packages of a session's batch show, and the grants of them.
ShownTo(r, f) == {ViewOf(f, pkg.auth) : pkg \in r.batch}

GrantsOf(r, f) == UNION {Showing(pkg.auth, f, ViewOf(f, pkg.auth)) : pkg \in r.batch}

\* One result for each assignment of the batch.
ResultSet(c, f) == AllIn(c, f) /\ ~SomeSays(c, f, "unusable")

\* The parts of a view: the targets of the gap phase, the seals it was made under,
\* the claims of E1 and E2, and E3's discoveries of a lane.
TargetsIn(view) == {n \in view : log[n].kind \in {"material", "scope"}}

SealsIn(view) == {n \in view : log[n].kind = "checkpoints"}

ClaimsIn(view) ==
    {n \in view : log[n].kind \in {"synthesis", "contradictions", "successors"}}

OwnIn(view, lane) == FoundBy({n \in view : StageOf(log[n].phase) = "E3"}, lane)

-----------------------------------------------------------------------------
\* E3-GAP: the results name no target but those of the view, and all of them
\* together name every one.
GapAnswered(c, view) ==
    UNION {TargetsIn(GapView(log[n].auth)) : n \in At(c, "result", "E3-GAP")} = TargetsIn(view)

\* E3-CUMULATIVE: each lane matches every discovery of its own that the view shows,
\* and no other, with claims the view shows.
CumulativeMatched(c, view) ==
    \A n \in At(c, "result", "E3-CUMULATIVE") :
        LET shown == CumulativeView(log[n].auth)
        IN  /\ OwnIn(shown, log[n].lane) = OwnIn(view, log[n].lane)
            /\ ClaimsIn(shown) \subseteq ClaimsIn(view)

\* E3-HOLDOUT: likewise, with places of a corpus outside the history.
HoldoutMatched(c, view) ==
    \A n \in At(c, "result", "E3-HOLDOUT") :
        OwnIn(HoldoutView(log[n].auth), log[n].lane) = OwnIn(view, log[n].lane)

-----------------------------------------------------------------------------
\* The findings of the results become discoveries, in one commit, unless there are
\* none or they are there.  A discovery names its result, the checkpoint of its
\* lane, and the knowledge the batch was granted.
Discoveries(p, f, seals) ==
    FactOn("discoveries", f, At(op[p].cut, "result", f) \cup seals \cup GrantsOf(op[p], f))

RecordsFindings(p, f, seals) ==
    LET c == op[p].cut
    IN  Records(p, Has(c, "discoveries", f) \/ ~SomeSays(c, f, "notable"),
                   Discoveries(p, f, seals), Further(op[p]))

\* _persist_discoveries, with the checkpoints the view names; _persist_new_discoveries
\* and _persist_findings, with the accepted ones.
GapFindings(p, view)  == RecordsFindings(p, "E3-GAP", SealsIn(view))
CumulativeFindings(p) == RecordsFindings(p, "E3-CUMULATIVE", BlindSeals(op[p].cut))
HoldoutFindings(p)    == RecordsFindings(p, "E3-HOLDOUT", BlindSeals(op[p].cut))

Validating(p, f) == AtCut(p, "validate") /\ Current(p) = f

\* The results pass, for the one view of the batch.
Passes(p, f, view, fit) ==
    ResultSet(op[p].cut, f) /\ ShownTo(op[p], f) = {view} /\ fit

ValidateGap(p) ==
    /\ Validating(p, "E3-GAP")
    /\ LET view == UNION ShownTo(op[p], "E3-GAP")
       IN  IF Passes(p, "E3-GAP", view, GapAnswered(op[p].cut, view))
           THEN GapFindings(p, view) ELSE Raises(p)

ValidateCumulative(p) ==
    /\ Validating(p, "E3-CUMULATIVE")
    /\ LET view == UNION ShownTo(op[p], "E3-CUMULATIVE")
       IN  IF Passes(p, "E3-CUMULATIVE", view, CumulativeMatched(op[p].cut, view))
           THEN CumulativeFindings(p) ELSE Raises(p)

ValidateHoldout(p) ==
    /\ Validating(p, "E3-HOLDOUT")
    /\ LET view == UNION ShownTo(op[p], "E3-HOLDOUT")
       IN  IF Passes(p, "E3-HOLDOUT", view, HoldoutMatched(op[p].cut, view))
           THEN HoldoutFindings(p) ELSE Raises(p)

E3ResultStep(p) == ValidateGap(p) \/ ValidateCumulative(p) \/ ValidateHoldout(p)

=============================================================================
