--------------------------- MODULE FindingPipelines ---------------------------
(***************************************************************************)
(* From an execution to a finding: the fuzz, differential and metamorphic  *)
(* frameworks (execution/fuzzing.py, execution/differential.py,            *)
(* execution/metamorphic.py) and their pipelines, which record an          *)
(* observation in the evidence graph, propose a hypothesis and adjudicate; *)
(* and the revision chains of the hypotheses (hypothesis/orchestrator.py,  *)
(* hypothesis/engine.py).                                                  *)
(***************************************************************************)
EXTENDS EvidenceGraph, Adjudication, Sequences

CONSTANTS
    InputCase,      \* input cases
    MaxCut,         \* bounds: on the history cut,
    MaxExecutions,  \*   on the executions recorded,
    MaxRevisions,   \*   on the numbers of the revisions
    Held            \* revisions that callers come with, however they derived them:
                    \*   [number, status, cut]

Family == {"fuzz", "diff", "meta"}
\* The observation, the hypothesis and the claim of a case are named by its digest.
Subject == Family \X InputCase

\* Nobody else makes claims in the words of the pipelines.
ASSUME ClaimAssumption == Claim \intersect Subject = {}

VARIABLES
    active,     \* the active history cut
    registered, \* whether the relation of the metamorphic test was preregistered
    executions, \* records: [subject, observed]
    chains,     \* the recorded revisions of each hypothesis, as sequences of them
    successions \* what transitions were answered: records [of, before, after]

hypothesisVars == <<chains, successions>>
findingVars == <<active, registered, executions, hypothesisVars>>

FindingInit ==
    /\ active = 0 /\ registered = FALSE /\ executions = {}
    /\ chains = [h \in Subject |-> << >>] /\ successions = {}

CutMoves ==
    /\ active < MaxCut
    /\ active' = active + 1
    /\ UNCHANGED <<registered, executions, hypothesisVars, evidenceVars, adjudicationVars>>

-----------------------------------------------------------------------------

\* preregister_relation_spec: a specification of the same name replaces the one there.
Preregister ==
    /\ registered' = TRUE
    /\ UNCHANGED <<active, executions, hypothesisVars, evidenceVars, adjudicationVars>>

Executed(subject, observed) ==
    /\ executions' = executions \union {[subject |-> subject, observed |-> observed]}
    /\ UNCHANGED <<active, registered, hypothesisVars, evidenceVars, adjudicationVars>>

\* execute_case: a corrupt output raises; else a timeout, a crash of the target or none.
ExecuteCase(c) ==
    \E observed \in {"SUCCESS", "CRASH", "TIMEOUT"} :
        Executed(<<"fuzz", c>>, observed)

\* execute_differential: both paths run, and their outputs are compared.
ExecuteDifferential(c) ==
    \E observed \in {"MATCH", "DIVERGENCE", "EXECUTION_ERROR"} :
        Executed(<<"diff", c>>, observed)

\* execute_metamorphic_test: on a cut that is not stale, under a relation preregistered
\* by then.
ExecuteMetamorphic(c, cut) ==
    /\ cut >= active /\ registered
    /\ \E observed \in {"SATISFIED", "VIOLATION", "EXECUTION_ERROR"} :
           Executed(<<"meta", c>>, observed)

-----------------------------------------------------------------------------

\* LEGAL_TRANSITIONS
LegalFrom == [
    PROPOSED |-> {"PREREGISTERED", "TESTING", "REJECTED", "BLOCKED"},
    PREREGISTERED |-> {"TESTING", "REJECTED", "BLOCKED"},
    TESTING |-> {"CONFIRMED", "REJECTED", "UNRESOLVED", "BLOCKED"},
    UNRESOLVED |-> {"TESTING", "REJECTED", "BLOCKED"},
    BLOCKED |-> {"TESTING", "REJECTED", "UNRESOLVED"},
    CONFIRMED |-> {"CONFIRMED", "REJECTED"},
    REJECTED |-> {"REJECTED"} ]

\* transition_hypothesis: to a legal status, or the same again.
MayBecome(status, new) ==
    /\ ~(new = "PREREGISTERED" /\ status \in {"TESTING", "CONFIRMED", "REJECTED"})
    /\ new \in LegalFrom[status] \union {status}

Revision == [number : Nat, status : DOMAIN LegalFrom, cut : 0..MaxCut]

ASSUME HeldAssumption == Held \subseteq Revision

Has(chain, r) == \E i \in DOMAIN chain : chain[i] = r

\* Faulty variant: a revision is recorded without a look at those there are.
TakesUnordered(chain, r) == TRUE

\* A chain takes a revision it holds, which changes nothing, and any that is numbered
\* after all it holds: in whatever status, and be there numbers between.
Takes(chain, r) == Has(chain, r) \/ \A i \in DOMAIN chain : chain[i].number < r.number

With(chain, r) == IF Has(chain, r) THEN chain ELSE Append(chain, r)

\* record_revision
RecordRevision(h, r) ==
    /\ Takes(chains[h], r)
    /\ chains' = [chains EXCEPT ![h] = With(@, r)]

\* A caller records a revision of its own.
RecordHeld(h, r) ==
    /\ RecordRevision(h, r)
    /\ UNCHANGED <<active, registered, executions, successions, evidenceVars, adjudicationVars>>

\* transition: from any revision the caller holds, which is recorded if it is not yet, and
\* stays recorded when its successor is then refused.
TransitionHypothesis(h, r, new, cut) ==
    LET chain == With(chains[h], r)
        next  == [number |-> r.number + 1, status |-> new, cut |-> cut]
        goes  == MayBecome(r.status, new) /\ Takes(chain, next)
    IN  /\ Takes(chains[h], r)
        /\ chains' = [chains EXCEPT ![h] = IF goes THEN With(chain, next) ELSE chain]
        /\ successions' = successions \union
               {s \in {[of |-> h, before |-> r, after |-> next]} : goes}
        /\ UNCHANGED <<active, registered, executions, evidenceVars, adjudicationVars>>

Spawns == {"CRASH", "DIVERGENCE", "VIOLATION"}

\* The observation of the pipelines: added, unless it is there, whatever its status.
ObservationAdded(o) == IF o \in Nodes THEN UNCHANGED evidenceVars ELSE AddNode(o)

\* The hypothesis of the pipelines: proposed, unless it has a revision, whatever that is.
HypothesisProposed(h, cut) ==
    /\ IF chains[h] # << >> THEN UNCHANGED chains
       ELSE RecordRevision(h, [number |-> 1, status |-> "PROPOSED", cut |-> cut])
    /\ UNCHANGED successions

AllSupported == [a \in OperationalAxis |-> "SUPPORTED"]

\* process_fuzz_result_through_pipeline, process_differential_result_through_pipeline and
\* process_metamorphic_result_through_pipeline: on a cut that is not stale, and for a
\* failure only, the observation, the hypothesis and the decision.
ProcessThroughPipeline(e, cut) ==
    /\ cut >= active
    /\ e.observed \in Spawns
    /\ AtRest
    /\ ObservationAdded(e.subject)
    /\ HypothesisProposed(e.subject, cut)
    /\ AdjudicateFinding(e.subject, AllSupported, "none", {})
    /\ UNCHANGED <<active, registered, executions>>

\* Any recorded revision may still be held by someone.
OnRecord(h) == {chains[h][i] : i \in DOMAIN chains[h]}

FindingNext ==
    \/ CutMoves
    \/ Preregister
    \/ /\ Cardinality(executions) < MaxExecutions
       /\ \E c \in InputCase :
              \/ ExecuteCase(c) \/ ExecuteDifferential(c)
              \/ \E cut \in 0..MaxCut : ExecuteMetamorphic(c, cut)
    \/ \E e \in executions, cut \in 0..MaxCut : ProcessThroughPipeline(e, cut)
    \/ \E h \in Subject : \E r \in Held \union OnRecord(h) :
           \/ RecordHeld(h, r)
           \/ /\ r.number < MaxRevisions
              /\ \E new \in DOMAIN LegalFrom, cut \in 0..MaxCut :
                     TransitionHypothesis(h, r, new, cut)

\* The pipelines, while evidence is recorded and invalidated and findings are adjudicated
\* and transitioned by others.
AuditNext ==
    \/ FindingNext
    \/ EvidenceNext /\ UNCHANGED <<findingVars, adjudicationVars>>
    \/ AdjudicationNext /\ UNCHANGED <<findingVars, evidenceVars>>

auditVars == <<findingVars, evidenceVars, adjudicationVars>>
FindingSpec ==
    /\ FindingInit /\ EvidenceInit /\ AdjudicationInit
    /\ [][AuditNext]_auditVars

-----------------------------------------------------------------------------

\* Revisions ascend, none twice; and what a transition was answered stays: the successor
\* right behind the revision it was made from, in a status that one may become.  Nothing
\* is put between or instead of them, whatever revisions others hold and record, before
\* or since, also where they leave numbers out (hypothesis/orchestrator.py:67-129).
LineageIsKept(h) ==
    /\ \A i, j \in DOMAIN chains[h] : i < j => chains[h][i].number < chains[h][j].number
    /\ \A s \in successions : s.of = h =>
           \E i \in DOMAIN chains[h] :
               /\ chains[h][i] = s.before
               /\ i + 1 \in DOMAIN chains[h] /\ chains[h][i + 1] = s.after
               /\ MayBecome(s.before.status, s.after.status)

\* No hypothesis is rewritten and no answered transition undone; a finding of the
\* pipelines has a failure that was recorded, its observation in the evidence graph, and
\* a hypothesis; and adjudication keeps what was decided.
FindingsAreEarned ==
    /\ \A h \in Subject : LineageIsKept(h)
    /\ \A d \in decisions : d.claim \in Subject =>
           /\ \E e \in executions : e.subject = d.claim /\ e.observed \in Spawns
           /\ d.claim \in Nodes
           /\ chains[d.claim] # << >>
    /\ AdjudicationIsKept
=============================================================================
