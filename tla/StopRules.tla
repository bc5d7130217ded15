------------------------------- MODULE StopRules -------------------------------
(***************************************************************************)
(* The STOP gate as operators on an accepted history h (a sequence of      *)
(* commits): what StopInputBuilder and its residual-risk projection take   *)
(* from a cut c of it, the same again as the store computes it on          *)
(* admission (stop/authority.py), and the decision of evaluate_stop.       *)
(*                                                                         *)
(* A commit is [kind, of, says]: what it is, what it is about, and the     *)
(* state it gives that.  Records of one kind about one thing are revisions *)
(* of it, and the last accepted one is in force.                           *)
(***************************************************************************)
EXTENDS Naturals, Sequences

Baseline == << "E1", "E2", "E3", "E4", "E5" >>
BaselineStage == {Baseline[i] : i \in DOMAIN Baseline}

Role == {"FALSE_POSITIVE_SKEPTIC", "FALSE_NEGATIVE_HUNTER"}
Context == {"INTERMEDIATE", "FINAL_POST_E5", "POST_E6"}
Decision == {"PASS", "CONTINUE_REQUIRED", "E6_REQUIRED", "BLOCKED"}

Commit(k, o, s) == [kind |-> k, of |-> o, says |-> s]

Of(h, c, k) == {n \in DOMAIN h : n <= c /\ h[n].kind = k}

About(h, c, k, o) == {n \in Of(h, c, k) : h[n].of = o}

Newest(S) == CHOOSE n \in S : \A m \in S : m <= n

\* Faulty variant: the first revision stays in force.
CurrentFirst(h, c, k) == {n \in Of(h, c, k) : \A m \in Of(h, c, k) : h[m].of = h[n].of => n <= m}

\* One record of each thing, the last (_latest_by).
Current(h, c, k) == {n \in Of(h, c, k) : \A m \in Of(h, c, k) : h[m].of = h[n].of => m <= n}

-----------------------------------------------------------------------------
\* The input.

Prepared(h, c, s) == About(h, c, "stage", s) # {}

\* Of E6 the last revision counts (its completion would name it).
Completed(h, c, s) ==
    /\ Prepared(h, c, s)
    /\ \E n \in About(h, c, "completion", s) :
          s = "E6" => h[n].says = Newest(About(h, c, "stage", s))

Required(ctx) == BaselineStage \cup IF ctx = "POST_E6" THEN {"E6"} ELSE {}

\* Pending stages, and stages without a specification.
StagesPending(h, c, ctx) == \E s \in Required(ctx) : ~Completed(h, c, s)

\* What the newest qualification of the obligation revision n says.
Qualified(h, c, n) ==
    LET Q == About(h, c, "qualification", n)
    IN  IF Q = {} THEN "UNQUALIFIED" ELSE h[Newest(Q)].says

Qualifications(h, c) == {Qualified(h, c, n) : n \in Current(h, c, "obligation")}

HasCandidate(h, c) == Of(h, c, "candidate") # {}

\* Faulty variant: a result on any candidate will do.
ChallengesOfAny(h, c, r) == {n \in Of(h, c, "challenge") : h[n].of[2] = r}

\* Results of role r on the newest candidate.
Challenges(h, c, r) == About(h, c, "challenge", << Newest(Of(h, c, "candidate")), r >>)

Challenged(h, c) == \A r \in Role : Challenges(h, c, r) # {}

ChallengeSays(h, c) == {h[Newest(Challenges(h, c, r))].says : r \in Role}

Contradicted(h, c) == \E n \in Current(h, c, "contradiction") : h[n].says # "RESOLVED"

Invalidated(h, c) == Of(h, c, "invalidation") # {}

ScopeSays(h, c) == {h[n].says : n \in Current(h, c, "scope")}

\* A superseded risk is none (_current_risk_rows).
RiskSays(h, c) == {h[n].says : n \in Current(h, c, "risk")} \ {"SUPERSEDED"}

-----------------------------------------------------------------------------
\* The decision.

HardBlockers(h, c) ==
    \/ Invalidated(h, c)
    \/ Contradicted(h, c)
    \/ ~HasCandidate(h, c)
    \/ HasCandidate(h, c) /\ ~Challenged(h, c)
    \/ /\ HasCandidate(h, c) /\ Challenged(h, c)
       /\ ChallengeSays(h, c) \cap {"BLOCKED", "COUNTEREVIDENCE"} # {}
    \/ Qualifications(h, c) \cap {"BLOCKED", "STALE"} # {}

Insufficient(h, c) ==
    \/ /\ HasCandidate(h, c) /\ Challenged(h, c)
       /\ "INCONCLUSIVE" \in ChallengeSays(h, c)
    \/ Qualifications(h, c) \ {"QUALIFIED"} # {}

\* A request: the context, whether a plan for E6 is approved, and what the caller
\* adds, which can only be doubts.
Doubt == {"FAILED", "UNKNOWN", "INSUFFICIENT"}
Request == [context : Context, approved : BOOLEAN, adds : SUBSET Doubt]

UnlessPlanned(r) == IF r.approved THEN "E6_REQUIRED" ELSE "BLOCKED"

\* evaluate_stop below its residual-risk part.
Base(h, c, r) ==
    IF "FAILED" \in ScopeSays(h, c) \cup r.adds THEN "BLOCKED"
    ELSE IF r.context = "INTERMEDIATE" THEN "CONTINUE_REQUIRED"
    ELSE IF "UNKNOWN" \in ScopeSays(h, c) \cup r.adds THEN UnlessPlanned(r)
    ELSE IF StagesPending(h, c, r.context) THEN "CONTINUE_REQUIRED"
    ELSE IF HardBlockers(h, c) THEN "BLOCKED"
    ELSE IF Insufficient(h, c) \/ "INSUFFICIENT" \in r.adds THEN UnlessPlanned(r)
    ELSE IF r.approved /\ r.context = "FINAL_POST_E5" THEN "E6_REQUIRED"
    ELSE "PASS"

RisksSay(h, c, r, s) == r.context # "INTERMEDIATE" /\ s \in RiskSays(h, c)

\* Faulty variant: an open risk is no obstacle.
DecideRiskless(h, c, r) ==
    IF RisksSay(h, c, r, "BLOCKING") THEN "BLOCKED" ELSE Base(h, c, r)

Decide(h, c, r) ==
    IF RisksSay(h, c, r, "BLOCKING") THEN "BLOCKED"
    ELSE IF RisksSay(h, c, r, "OPEN") THEN UnlessPlanned(r)
    ELSE Base(h, c, r)

-----------------------------------------------------------------------------
\* What a pass promises of the history it was decided on, record by record.

InForce(h, c, n) == \A m \in Of(h, c, h[n].kind) : h[m].of = h[n].of => m <= n

Clean(h, c) ==
    /\ \A s \in BaselineStage : \E n \in Of(h, c, "completion") : h[n].of = s
    /\ \A n \in Of(h, c, "obligation") : InForce(h, c, n) =>
          \E q \in Of(h, c, "qualification") :
              h[q].of = n /\ InForce(h, c, q) /\ h[q].says = "QUALIFIED"
    /\ \A n \in Of(h, c, "contradiction") : InForce(h, c, n) => h[n].says = "RESOLVED"
    /\ Of(h, c, "invalidation") = {}
    /\ \A n \in Of(h, c, "scope") : InForce(h, c, n) => h[n].says = "KNOWN"
    /\ \A n \in Of(h, c, "risk") :
          InForce(h, c, n) => h[n].says \in {"ACCEPTED", "SUPERSEDED"}
    /\ \E k \in Of(h, c, "candidate") :
          /\ \A m \in Of(h, c, "candidate") : m <= k
          /\ \A r \in Role : \E n \in Of(h, c, "challenge") :
                h[n].of = << k, r >> /\ InForce(h, c, n) /\ h[n].says = "CLOSED"

=============================================================================
