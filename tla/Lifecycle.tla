------------------------------- MODULE Lifecycle -------------------------------
(***************************************************************************)
(* The log of accepted lifecycle facts.  The accepting transaction of the  *)
(* history store replays every accepted fact plus the facts of the command *)
(* it is about to accept, so the log only grows by facts the projector     *)
(* takes (history/store.py:803-808).                                       *)
(***************************************************************************)
EXTENDS LifecycleRules

CONSTANTS
    Key,            \* the aggregates explored: records [aggregate, id]
    MaxFacts        \* bound on the length of the explored fact log

ASSUME LifecycleAssumption ==
    /\ Key \subseteq [aggregate : Aggregates, id : AggregateId]
    /\ MaxFacts \in Nat

VARIABLE facts      \* every accepted transition fact, in commit order

-----------------------------------------------------------------------------

Init == facts = << >>

\* accept() replays the accepted facts and the new one before it persists.
Record(f) ==
    /\ Len(facts) < MaxFacts
    /\ ProjectionAccepts(Append(facts, f))
    /\ facts' = Append(facts, f)

Next == \E f \in Fact :
            /\ [aggregate |-> f.aggregate, id |-> f.id] \in Key
            /\ Record(f)

Spec == Init /\ [][Next]_facts

-----------------------------------------------------------------------------

TypeOK == facts \in Seq(Fact)

\* A terminal state is never left (TERMINAL_STATE_IMMUTABLE, fsm.py:203-206):
\* whatever is recorded later, also about other aggregates, the state the
\* projector derives for a terminated aggregate stays the same.
TerminalStateImmutable ==
    [][\A k \in Key :
          StateOf(facts, k) \in Terminal[k.aggregate]
             => StateOf(facts', k) = StateOf(facts, k)]_facts

\* A stage or a lane is accepted as complete only after it ran and after a
\* completion candidate was recorded: no order of legal facts, retries and
\* duplicates lets it skip RUNNING or COMPLETION_CANDIDATE (fsm.py:94-128).
CompletionWasEarned ==
    \A i \in DOMAIN facts :
        (facts[i].aggregate \in {"stage", "lane"} /\ facts[i].to = "COMPLETION_ACCEPTED")
          => \E j, k \in 1..(i - 1) :
                /\ j < k
                /\ SameAggregate(facts[j], facts[i]) /\ facts[j].to = "RUNNING"
                /\ SameAggregate(facts[k], facts[i]) /\ facts[k].to = "COMPLETION_CANDIDATE"
=============================================================================
