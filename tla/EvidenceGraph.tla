---------------------------- MODULE EvidenceGraph ----------------------------
(***************************************************************************)
(* The evidence graph (evidence/graph.py): evidence, what it depends on,   *)
(* the detection of cycles, and the propagation of an invalidation to all  *)
(* that depends on what was invalidated.  Nodes are added with the         *)
(* defaults (ACTIVE, counting towards completion), as every caller does.   *)
(***************************************************************************)
EXTENDS Naturals, FiniteSets

CONSTANTS
    EvidenceId,         \* names a node may have
    Qualification,      \* those of QUALIFICATION_ASSESSMENT nodes, and for each of
    ClaimOf,            \*   them the claim
    QualifiedAs,        \*   and the result in its data
    MaxEdges,           \* bounds on the edges added
    MaxInvalidations    \*   and on the invalidations announced

ASSUME EvidenceAssumption ==
    /\ Qualification \subseteq EvidenceId
    /\ ClaimOf \in [Qualification -> EvidenceId]
    /\ QualifiedAs \in [Qualification -> {"SUPPORTS", "REFUTES", "INCONCLUSIVE"}]

VARIABLES
    standing,   \* node id -> status, of the nodes added
    depends,    \* the edges <<source, target>>: the source depends on the target
    refusedEdge,\* whether the latest add_edge was refused for a cycle
    announced,  \* nodes whose invalidation was announced
    late,       \* edges that were added onto a target already degraded
    pending,    \* propagate_invalidation: the nodes whose dependents it has still to
    met         \*   look at, and those it has met; at rest there are none

evidenceVars == <<standing, depends, refusedEdge, announced, late, pending, met>>

Nodes == DOMAIN standing
AtRest == pending = {}

EvidenceInit ==
    /\ standing = << >> /\ depends = {} /\ refusedEdge = FALSE
    /\ announced = {} /\ late = {} /\ pending = {} /\ met = {}

Dependents(n) == {s \in Nodes : <<s, n>> \in depends}

-----------------------------------------------------------------------------

\* detect_cycles: a depth-first search from every node not yet met; an edge back
\* to a node of the recursion stack closes a cycle.  Under an empty stack the
\* targets are all nodes, under a node what it depends on.
DetectsCycle(edges) ==
    LET Search == [seen : SUBSET Nodes, cyclic : BOOLEAN]
        dfs[call \in [targets : SUBSET Nodes, stack : SUBSET Nodes, search : Search]] ==
            IF call.targets = {} THEN call.search
            ELSE LET t == CHOOSE u \in call.targets : TRUE
                     search == dfs[[call EXCEPT !.targets = @ \ {t}]]
                 IN  IF t \in call.stack THEN [search EXCEPT !.cyclic = TRUE]
                     ELSE IF t \in search.seen THEN search
                     ELSE dfs[[targets |-> {u \in Nodes : <<t, u>> \in edges},
                               stack |-> call.stack \union {t},
                               search |-> [search EXCEPT !.seen = @ \union {t}]]]
    IN  dfs[[targets |-> Nodes, stack |-> {},
             search |-> [seen |-> {}, cyclic |-> FALSE]]].cyclic

\* add_node: a name is given once.
AddNode(n) ==
    /\ AtRest /\ n \notin Nodes
    /\ standing' = [m \in Nodes \union {n} |-> IF m = n THEN "ACTIVE" ELSE standing[m]]
    /\ UNCHANGED <<depends, refusedEdge, announced, late, pending, met>>

\* add_edge: the edge is in the graph before the graph is checked, and stays in it
\* when the check refuses it; every later edge is then refused too, and stays too.
AddEdge(s, t) ==
    /\ AtRest /\ {s, t} \subseteq Nodes
    /\ Cardinality(depends) < MaxEdges
    /\ depends' = depends \union {<<s, t>>}
    /\ refusedEdge' = DetectsCycle(depends')
    /\ late' = IF <<s, t>> \notin depends /\ standing[t] # "ACTIVE"
               THEN late \union {<<s, t>>} ELSE late
    /\ UNCHANGED <<standing, announced, pending, met>>

\* propagate_invalidation(roots): the roots must be there, and are INVALIDATED.
Invalidate(roots) ==
    /\ AtRest /\ roots # {} /\ roots \subseteq Nodes
    /\ Cardinality(announced) + Cardinality(roots) <= MaxInvalidations
    /\ announced' = announced \union roots
    /\ standing' = [n \in Nodes |-> IF n \in roots THEN "INVALIDATED" ELSE standing[n]]
    /\ pending' = roots /\ met' = roots
    /\ UNCHANGED <<depends, refusedEdge, late>>

\* What a node becomes when something it depends on is invalidated.
DegradedTo(n) == IF n \in Qualification THEN "STALE" ELSE "INVALIDATED"

\* Faulty variant: what a degraded node degrades is not queued.
SpreadOnce(n) ==
    LET reached == Dependents(n) \ met
    IN  /\ n \in pending
        /\ pending' = pending \ {n}
        /\ met' = IF pending' = {} THEN {} ELSE met \union reached
        /\ standing' = [m \in Nodes |-> IF m \in reached THEN DegradedTo(m) ELSE standing[m]]
        /\ UNCHANGED <<depends, refusedEdge, announced, late>>

\* The next node of the queue: its dependents not yet met are degraded and queued.
\* (The queue's order decides nothing, and is left open.)
Spread(n) ==
    LET reached == Dependents(n) \ met
    IN  /\ n \in pending
        /\ pending' = (pending \ {n}) \union reached
        /\ met' = IF pending' = {} THEN {} ELSE met \union reached
        /\ standing' = [m \in Nodes |-> IF m \in reached THEN DegradedTo(m) ELSE standing[m]]
        /\ UNCHANGED <<depends, refusedEdge, announced, late>>

EvidenceNext ==
    \/ \E n \in EvidenceId : AddNode(n)
    \/ \E s, t \in EvidenceId : AddEdge(s, t)
    \/ \E roots \in SUBSET EvidenceId : Invalidate(roots)
    \/ \E n \in EvidenceId : Spread(n)

EvidenceSpec == EvidenceInit /\ [][EvidenceNext]_evidenceVars

-----------------------------------------------------------------------------

\* calculate_current_support: the qualifications linked to the claim, by an edge or by
\* their data; those that still count; and the status of the claim.
Linked(claim) ==
    {q \in Qualification \intersect Nodes : ClaimOf[q] = claim \/ <<q, claim>> \in depends}
Counted(claim) == {q \in Linked(claim) : standing[q] = "ACTIVE"}

StatusFrom(linked, counted) ==
    LET results == {QualifiedAs[q] : q \in counted} IN
    IF {"SUPPORTS", "REFUTES"} \subseteq results THEN "CONTRADICTED"
    ELSE IF "SUPPORTS" \in results THEN "SUPPORTED"
    ELSE IF "REFUTES" \in results THEN "REFUTED"
    ELSE IF linked # {} THEN "EVIDENCE_INVALIDATED" ELSE "NO_EVIDENCE"

EffectiveStatus(claim) == StatusFrom(Linked(claim), Counted(claim))

-----------------------------------------------------------------------------

\* The nodes that depend on one of the roots along the edges, near or far, and the roots.
Downstream(edges, roots) ==
    {n \in Nodes : \A set \in SUBSET Nodes :
        roots \subseteq set /\ (\A e \in edges : e[2] \in set => e[1] \in set) => n \in set}

\* The search refuses an edge exactly when some node then depends on itself.
CyclesAreRefused == refusedEdge = \E n \in Nodes : n \in Downstream(depends, Dependents(n))

\* What depends on nothing whose invalidation was announced, along edges that a
\* propagation could see.
Untouched == Nodes \ Downstream(depends \ late, announced)

\* A node loses its standing only for an invalidation announced of something it depends
\* on, near or far; and when the propagation has ended, nothing counts for a claim that
\* depends on what was invalidated - but by way of an edge hung onto an already degraded
\* node afterwards.  Without such edges a claim's status is that of all the evidence
\* which no invalidation touches.
StandingIsJustified ==
    /\ \A n \in Nodes : standing[n] # "ACTIVE" => n \in Downstream(depends, announced)
    /\ AtRest => \A claim \in EvidenceId :
           /\ Counted(claim) \subseteq Untouched
           /\ late = {} =>
                  EffectiveStatus(claim) =
                      StatusFrom(Linked(claim), Linked(claim) \intersect Untouched)

EvidenceIsSound == CyclesAreRefused /\ StandingIsJustified
=============================================================================
