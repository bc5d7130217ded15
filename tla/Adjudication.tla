---------------------------- MODULE Adjudication ----------------------------
(***************************************************************************)
(* Adjudication (adjudication/engine.py, adjudication/models.py): the      *)
(* decisions on a finding and their lifecycle, and the revisions of a      *)
(* contradiction with the decisions that resolve it.  Both grow by objects *)
(* that refer backwards by digest: an object here is its content, what it  *)
(* refers to included.                                                     *)
(***************************************************************************)
EXTENDS Naturals, FiniteSets

CONSTANTS
    Claim,          \* claims on a finding
    Assessments,    \* outcomes of the three operational axes, as functions of the axis
    Qualified,      \* qualified evidence
    MaxDecisions,   \* bound on the decisions on findings
    MaxContradictions        \* bound on the contradiction revisions and their resolutions

OperationalAxis == {"MECHANISM", "REACHABILITY", "IMPACT"}

ASSUME AssessmentsAssumption ==
    Assessments \subseteq [OperationalAxis -> {"SUPPORTED", "REFUTED", "INCONCLUSIVE", "BLOCKED"}]

VARIABLES
    decisions,  \* FindingAdjudicationDecisions: [claim, axes, status, previous], where
                \*   previous is {} or the one decision it follows
    cases,      \* ContradictionRevisions: [revision, status, evidence, previous, by],
                \*   previous and by likewise
    resolutions \* ContradictionResolutionDecisions: [prior, result]

adjudicationVars == <<decisions, cases, resolutions>>

AdjudicationInit == decisions = {} /\ cases = {} /\ resolutions = {}

-----------------------------------------------------------------------------

\* ALLOWED_LIFECYCLE_TRANSITIONS
AllowedFrom == [
    OPEN |-> {"CONFIRMED_CURRENT", "REJECTED", "OPEN", "SUPERSEDED"},
    CONFIRMED_CURRENT |-> {"REMEDIATION_PENDING", "STALE_FOR_CURRENT_SOURCE", "SUPERSEDED",
                           "REJECTED", "PARTIALLY_FIXED"},
    REMEDIATION_PENDING |-> {"FIXED_ON_NEW_SOURCE", "PARTIALLY_FIXED", "REOPENED",
                             "CONFIRMED_CURRENT"},
    FIXED_ON_NEW_SOURCE |-> {"REOPENED", "CONFIRMED_CURRENT"},
    PARTIALLY_FIXED |-> {"CONFIRMED_CURRENT", "FIXED_ON_NEW_SOURCE", "REOPENED",
                         "REMEDIATION_PENDING"},
    REOPENED |-> {"CONFIRMED_CURRENT", "REJECTED", "REMEDIATION_PENDING", "OPEN"},
    STALE_FOR_CURRENT_SOURCE |-> {"CONFIRMED_CURRENT", "REJECTED", "REOPENED", "SUPERSEDED"},
    SUPERSEDED |-> {"REOPENED"},
    REJECTED |-> {"REOPENED"} ]

Outcomes(axes) == {axes[a] : a \in OperationalAxis}

\* validate_finding_adjudication_rules, when no status is asked for.
ComputedStatus(axes) ==
    IF "REFUTED" \in Outcomes(axes) THEN "REJECTED"
    ELSE IF Outcomes(axes) = {"SUPPORTED"} THEN "CONFIRMED_CURRENT" ELSE "OPEN"

Decision(claim, axes, status, previous) ==
    [claim |-> claim, axes |-> axes, status |-> status, previous |-> previous]

\* adjudicate_finding: a status asked for is given, but CONFIRMED_CURRENT only when the
\* axes earn it; a decision named as the previous one is not looked at.
AdjudicateFinding(claim, axes, asked, previous) ==
    /\ asked = "CONFIRMED_CURRENT" => ComputedStatus(axes) = "CONFIRMED_CURRENT"
    /\ decisions' = decisions \union
           {Decision(claim, axes, IF asked = "none" THEN ComputedStatus(axes) ELSE asked,
                     previous)}
    /\ UNCHANGED <<cases, resolutions>>

\* transition_finding_lifecycle: the assessments handed in, or those of the decision it
\* follows, are bound to the new one; they are not looked at.
TransitionFinding(d, target, axes) ==
    /\ target \in AllowedFrom[d.status]
    /\ decisions' = decisions \union {Decision(d.claim, axes, target, {d})}
    /\ UNCHANGED <<cases, resolutions>>

-----------------------------------------------------------------------------

\* A contradiction, of at least two claims, opened with the evidence there is.
OpenCase(evidence) ==
    /\ cases' = cases \union {[revision |-> 1, status |-> "OPEN", evidence |-> evidence,
                               previous |-> {}, by |-> {}]}
    /\ UNCHANGED <<decisions, resolutions>>

\* resolve_contradiction: a decision about one revision, on some basis.
ResolveCase(c, result) ==
    /\ resolutions' = resolutions \union {[prior |-> c, result |-> result]}
    /\ UNCHANGED <<decisions, cases>>

Resolved(c, r) ==
    [revision |-> c.revision + 1, status |-> r.result, evidence |-> c.evidence,
     previous |-> {c}, by |-> {r}]

\* Faulty variant: a resolution is applied to whatever revision there is.
ApplyToAny(c, r) ==
    /\ cases' = cases \union {Resolved(c, r)}
    /\ UNCHANGED <<decisions, resolutions>>

\* apply_contradiction_resolution: only to the very revision the decision is about.
ApplyResolution(c, r) ==
    /\ r.prior = c
    /\ cases' = cases \union {Resolved(c, r)}
    /\ UNCHANGED <<decisions, resolutions>>

\* reopen_contradiction: with new evidence, at any status.
ReopenCase(c, new) ==
    /\ new # {}
    /\ cases' = cases \union {[revision |-> c.revision + 1, status |-> "REOPENED",
                               evidence |-> c.evidence \union new,
                               previous |-> {c}, by |-> {}]}
    /\ UNCHANGED <<decisions, resolutions>>

DecisionsNext ==
    /\ Cardinality(decisions) < MaxDecisions
    /\ \/ \E claim \in Claim, axes \in Assessments,
             asked \in {"none"} \union DOMAIN AllowedFrom :
             \/ AdjudicateFinding(claim, axes, asked, {})
             \/ \E d \in decisions : AdjudicateFinding(claim, axes, asked, {d})
       \/ \E d \in decisions, target \in DOMAIN AllowedFrom, axes \in Assessments :
             TransitionFinding(d, target, axes)

CasesNext ==
    /\ Cardinality(cases) + Cardinality(resolutions) < MaxContradictions
    /\ \/ \E evidence \in SUBSET Qualified : OpenCase(evidence)
       \/ \E c \in cases, result \in {"RESOLVED_SCOPED", "RESOLVED_FULL", "BLOCKED"} :
             ResolveCase(c, result)
       \/ \E c \in cases, r \in resolutions : ApplyResolution(c, r)
       \/ \E c \in cases, new \in SUBSET Qualified : ReopenCase(c, new)

AdjudicationNext == DecisionsNext \/ CasesNext
AdjudicationSpec == AdjudicationInit /\ [][AdjudicationNext]_adjudicationVars

-----------------------------------------------------------------------------

\* A case closed by a decision was closed on all the evidence it had: the decision was
\* about the revision it follows, and evidence that reopened the case meanwhile belongs
\* to another revision; and a case that is not open was closed by a decision.
CasesAreResolvedAsTheyStood ==
    /\ \A c \in cases :
           /\ \A r \in c.by : r.prior \in c.previous /\ r.prior.evidence = c.evidence
           /\ c.by = {} => c.status \in {"OPEN", "REOPENED"}

\* A finding that was rejected or superseded is made current again only by way of a
\* decision that reopens it, or by a new adjudication with every axis supported.
RevivedIsReopenedOrSupported ==
    \A d \in decisions : \A e \in d.previous :
        d.status = "CONFIRMED_CURRENT" /\ e.status \in {"REJECTED", "SUPERSEDED"} =>
            Outcomes(d.axes) = {"SUPPORTED"}

\* Neither a contradiction nor a finding loses what was decided about it on the way.
AdjudicationIsKept == CasesAreResolvedAsTheyStood /\ RevivedIsReopenedOrSupported
=============================================================================
