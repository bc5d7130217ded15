---------------------------- MODULE LifecycleRules ----------------------------
(***************************************************************************)
(* The lifecycle facts of a campaign: the transition tables of the pinned  *)
(* profile TRANSITION_PROFILE_V1 and the projector that replays accepted   *)
(* facts in sequence order (orchestration/fsm.py).  Pure operators: a log  *)
(* is a sequence of facts.                                                 *)
(***************************************************************************)
EXTENDS Naturals, Sequences, FiniteSets

CONSTANT AggregateId    \* identities of campaigns, stage runs, lane runs, attempts

Aggregates == {"campaign", "stage", "lane", "attempt"}

Edges == [
    campaign |-> {
        <<"CREATED", "GENESIS_ACCEPTED">>,
        <<"GENESIS_ACCEPTED", "E0_READY">>, <<"GENESIS_ACCEPTED", "BLOCKED">>,
        <<"GENESIS_ACCEPTED", "CANCELLED">>,
        <<"E0_READY", "AUDIT_RUNNING">>, <<"E0_READY", "BLOCKED">>,
        <<"E0_READY", "CANCELLED">>,
        <<"AUDIT_RUNNING", "AUDIT_RUNNING">>, <<"AUDIT_RUNNING", "BLOCKED">>,
        <<"AUDIT_RUNNING", "E6_REQUIRED">>,
        <<"AUDIT_RUNNING", "CAMPAIGN_CONCLUDED">>,
        <<"E6_REQUIRED", "E6_RUNNING">>, <<"E6_REQUIRED", "CAMPAIGN_CONCLUDED">>,
        <<"E6_RUNNING", "E6_REQUIRED">>, <<"E6_RUNNING", "AUDIT_RUNNING">>,
        <<"E6_RUNNING", "BLOCKED">>, <<"E6_RUNNING", "CAMPAIGN_CONCLUDED">>,
        <<"BLOCKED", "AUDIT_RUNNING">>, <<"BLOCKED", "CAMPAIGN_CONCLUDED">>,
        <<"CAMPAIGN_CONCLUDED", "CLOSED">> },
    stage |-> {
        <<"PLANNED", "READY">>, <<"PLANNED", "BLOCKED">>, <<"PLANNED", "CANCELLED">>,
        <<"READY", "RUNNING">>, <<"READY", "BLOCKED">>, <<"READY", "CANCELLED">>,
        <<"RUNNING", "WAITING_FOR_REQUIRED_INPUT">>,
        <<"WAITING_FOR_REQUIRED_INPUT", "RUNNING">>,
        <<"RUNNING", "COMPLETION_CANDIDATE">>,
        <<"WAITING_FOR_REQUIRED_INPUT", "COMPLETION_CANDIDATE">>,
        <<"RUNNING", "BLOCKED">>, <<"RUNNING", "CANCELLED">>,
        <<"WAITING_FOR_REQUIRED_INPUT", "BLOCKED">>,
        <<"WAITING_FOR_REQUIRED_INPUT", "CANCELLED">>,
        <<"COMPLETION_CANDIDATE", "COMPLETION_ACCEPTED">>,
        <<"COMPLETION_CANDIDATE", "RUNNING">>,
        <<"COMPLETION_CANDIDATE", "BLOCKED">> },
    lane |-> {
        <<"PLANNED", "READY">>, <<"PLANNED", "BLOCKED">>, <<"PLANNED", "CANCELLED">>,
        <<"READY", "RUNNING">>, <<"READY", "BLOCKED">>, <<"READY", "CANCELLED">>,
        <<"RUNNING", "WAITING_RESULT">>, <<"RUNNING", "COMPLETION_CANDIDATE">>,
        <<"RUNNING", "BLOCKED">>, <<"RUNNING", "CANCELLED">>,
        <<"WAITING_RESULT", "RUNNING">>, <<"WAITING_RESULT", "COMPLETION_CANDIDATE">>,
        <<"WAITING_RESULT", "BLOCKED">>, <<"WAITING_RESULT", "CANCELLED">>,
        <<"COMPLETION_CANDIDATE", "COMPLETION_ACCEPTED">>,
        <<"COMPLETION_CANDIDATE", "RUNNING">>,
        <<"COMPLETION_CANDIDATE", "BLOCKED">> },
    attempt |-> {
        <<"CREATED", "STARTED">>, <<"CREATED", "CANCELLED">>, <<"CREATED", "SUPERSEDED">>,
        <<"STARTED", "RESULT_RECEIVED">>, <<"STARTED", "FAILED">>,
        <<"STARTED", "BLOCKED">>, <<"STARTED", "CANCELLED">>, <<"STARTED", "SUPERSEDED">>,
        <<"RESULT_RECEIVED", "RESULT_ACCEPTED">>, <<"RESULT_RECEIVED", "FAILED">>,
        <<"RESULT_RECEIVED", "BLOCKED">>, <<"RESULT_RECEIVED", "SUPERSEDED">> } ]

Terminal == [
    campaign |-> {"CANCELLED", "CLOSED"},
    stage    |-> {"COMPLETION_ACCEPTED", "BLOCKED", "CANCELLED", "SUPERSEDED"},
    lane     |-> {"COMPLETION_ACCEPTED", "BLOCKED", "CANCELLED", "SUPERSEDED"},
    attempt  |-> {"RESULT_ACCEPTED", "FAILED", "BLOCKED", "CANCELLED", "SUPERSEDED"} ]

InitialState == [campaign |-> "CREATED", stage |-> "PLANNED",
                 lane |-> "PLANNED", attempt |-> "CREATED"]

StatesOf(a) == {e[1] : e \in Edges[a]} \cup {e[2] : e \in Edges[a]}

\* The two side inputs of legal_transition that reject an otherwise legal edge:
\* an AttemptResult event posing as a lane fact, and an attempt retrying itself.
Flags(a) ==
    {"none"} \cup (IF a = "lane" THEN {"AttemptResult"} ELSE {})
              \cup (IF a = "attempt" THEN {"RetryOfItself"} ELSE {})

Fact == UNION { [aggregate : {a}, id : AggregateId, from : StatesOf(a),
                 to : StatesOf(a), flag : Flags(a)] : a \in Aggregates }

legal_transition(f) ==
    /\ ~(f.aggregate = "lane" /\ f.flag = "AttemptResult")
    /\ f.from \in Terminal[f.aggregate] => f.from = f.to
    /\ <<f.from, f.to>> \in Edges[f.aggregate]
    /\ ~(f.aggregate = "attempt" /\ f.flag = "RetryOfItself")

SameAggregate(f, g) == f.aggregate = g.aggregate /\ f.id = g.id

\* Positions of a log that speak of the same aggregate as f.
Earlier(log, f) == {i \in DOMAIN log : SameAggregate(log[i], f)}

Latest(S) == CHOOSE i \in S : \A j \in S : j <= i

\* states[key] of project_states after the whole of log.
StateOf(log, f) ==
    LET S == Earlier(log, f)
    IN  IF S = {} THEN InitialState[f.aggregate] ELSE log[Latest(S)].to

SeenTerminal(log, f) ==
    \E i \in Earlier(log, f) : log[i].to \in Terminal[f.aggregate]

\* Faulty variants of Projects, for the mutation checks: the stale-parent test
\* forgotten, and terminal duplicates taken without comparing their state.
ProjectsStale(log, f) ==
    /\ legal_transition(f)
    /\ SeenTerminal(log, f) => StateOf(log, f) = f.to

ProjectsAnyDuplicate(log, f) ==
    /\ legal_transition(f)
    /\ SeenTerminal(log, f) \/ StateOf(log, f) = f.from

\* One iteration of project_states: the fact f after the facts of log.
Projects(log, f) ==
    /\ legal_transition(f)
    /\ IF SeenTerminal(log, f)
       THEN StateOf(log, f) = f.to
       ELSE StateOf(log, f) = f.from

\* project_states(log) raises nothing.
ProjectionAccepts(log) ==
    \A i \in DOMAIN log : Projects(SubSeq(log, 1, i - 1), log[i])
=============================================================================
