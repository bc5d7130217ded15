------------------------------ MODULE TraceRules ------------------------------
(***************************************************************************)
(* Temporal invariants over event traces, endurance assessments and causal *)
(* chains (deepen/temporal.py, endurance.py, causal.py).  Events are       *)
(* recorded one by one and the constraints can be evaluated at any time;   *)
(* an endurance run samples its resources before, during and after the     *)
(* workload and is classified at its end.                                  *)
(***************************************************************************)
EXTENDS Integers, Sequences, FiniteSets

CONSTANTS
    TraceEvent,
    MaxTrace,       \* bound on the events recorded
    MaxSteps,       \* bound of BOUNDED_FOLLOW
    Snapshot,       \* samples: [held, queued, threads, memory]
    MaxRounds       \* bound on the workload rounds

ASSUME TraceAssumption ==
    /\ MaxTrace \in Nat /\ MaxSteps \in Nat
    /\ Snapshot \subseteq [held : Nat, queued : Nat, threads : Nat, memory : Nat]

\* evaluate() of an OrderingConstraint, one operator per relation.
Before(s, a, b) ==
    \A i \in DOMAIN s : s[i] = b /\ a # b => \E j \in 1..(i - 1) : s[j] = a

EventuallyFollows(s, a, b) ==
    \A i \in DOMAIN s : s[i] = a => \E j \in (i + 1)..Len(s) : s[j] = b

NeverFollows(s, a, b) ==
    \A i \in DOMAIN s : s[i] = a => \A j \in (i + 1)..Len(s) : s[j] # b

FollowsWithin(s, a, b, n) ==
    \A i \in DOMAIN s : s[i] = a => \E j \in (i + 1)..(i + n) : j \in DOMAIN s /\ s[j] = b

\* Faulty variant: an event that is not the one awaited starts the order over.
InOrderRestarting(s, order) ==
    LET met[i \in 0..Len(s)] ==
            IF i = 0 THEN 0
            ELSE LET k == met[i - 1]
                 IN  IF k = Len(order) THEN k ELSE IF s[i] = order[k + 1] THEN k + 1 ELSE 0
    IN  met[Len(s)] = Len(order)

\* STRICT_ORDER: one pass that waits for the next event of the order.
InOrder(s, order) ==
    LET met[i \in 0..Len(s)] ==
            IF i = 0 THEN 0
            ELSE LET k == met[i - 1]
                 IN  IF k < Len(order) /\ s[i] = order[k + 1] THEN k + 1 ELSE k
    IN  met[Len(s)] = Len(order)

Constraint ==
    [relation : {"BEFORE", "AFTER", "MUST_EVENTUALLY_FOLLOW", "MUST_NEVER_FOLLOW",
                 "STRICT_ORDER", "BOUNDED_FOLLOW"}, a : TraceEvent, b : TraceEvent]

Holds(c, s) ==
    CASE c.relation = "BEFORE" -> Before(s, c.a, c.b)
      [] c.relation = "AFTER" -> Before(s, c.b, c.a)
      [] c.relation = "MUST_EVENTUALLY_FOLLOW" -> EventuallyFollows(s, c.a, c.b)
      [] c.relation = "MUST_NEVER_FOLLOW" -> NeverFollows(s, c.a, c.b)
      [] c.relation = "STRICT_ORDER" -> InOrder(s, <<c.a, c.b, c.a>>)
      [] c.relation = "BOUNDED_FOLLOW" -> FollowsWithin(s, c.a, c.b, MaxSteps)

\* evaluate_trace of an invariant made of those constraints.
Violations(constraints, s) == {c \in constraints : ~Holds(c, s)}

-----------------------------------------------------------------------------

VARIABLES
    trace,          \* events recorded so far
    endurance       \* [phase, profile, baseline, samples, after]

traceVars == <<trace, endurance>>

NoEndurance == [phase |-> "idle"]

TraceInit == trace = << >> /\ endurance = NoEndurance

Observe(e) ==
    /\ Len(trace) < MaxTrace
    /\ trace' = Append(trace, e)
    /\ UNCHANGED endurance

\* run_endurance_test: a sample shows what the classification reads.
Profile == [allowed : 0..1, drain : BOOLEAN, rounds : 1..MaxRounds]

BeginEndurance(p, s) ==
    /\ endurance = NoEndurance
    /\ endurance' = [phase |-> "working", profile |-> p, baseline |-> s,
                     samples |-> << >>]
    /\ UNCHANGED trace

\* workload_fn(r) and its sample: the resources held, which alone are compared.
Work(held) ==
    /\ endurance.phase = "working"
    /\ Len(endurance.samples) < endurance.profile.rounds
    /\ endurance' = [endurance EXCEPT !.samples = Append(@, held)]
    /\ UNCHANGED trace

\* max_allowed_memory_growth_ratio is a quarter; no ratio is taken from nothing.
GrewTooMuch(from, to) == from > 0 /\ 4 * (to - from) > from

Classified(p, base, samples, after) ==
    IF Len(samples) < 2 THEN "INSUFFICIENT_SAMPLES"
    ELSE IF p.drain /\ after.queued > 0 THEN "QUEUE_UNDRAINED"
    ELSE IF \/ after.held - base.held > p.allowed
            \/ after.threads > base.threads
            \/ GrewTooMuch(base.memory, after.memory) THEN "RESOURCE_LEAK"
    ELSE IF \E i \in DOMAIN samples : samples[i] > base.held THEN "RECOVERED_SPIKE"
    ELSE "STABLE"

\* cleanup_fn, the last sample and the classification.
EndEndurance(s) ==
    /\ endurance.phase = "working"
    /\ Len(endurance.samples) = endurance.profile.rounds
    /\ endurance' = [phase |-> "done", profile |-> endurance.profile,
                     baseline |-> endurance.baseline, samples |-> endurance.samples,
                     after |-> s,
                     class |-> Classified(endurance.profile, endurance.baseline,
                                          endurance.samples, s)]
    /\ UNCHANGED trace

TraceNext == \E e \in TraceEvent : Observe(e)

EnduranceNext ==
    \/ \E p \in Profile, s \in Snapshot : BeginEndurance(p, s)
    \/ \E s \in Snapshot : Work(s.held)
    \/ \E s \in Snapshot : EndEndurance(s)

TraceSpec == TraceInit /\ [][TraceNext \/ EnduranceNext]_traceVars

-----------------------------------------------------------------------------

TraceTypeOK ==
    /\ trace \in Seq(TraceEvent) /\ Len(trace) <= MaxTrace
    /\ endurance.phase \in {"idle", "working", "done"}

\* The relations say what their names say of one another: the one-pass search of
\* STRICT_ORDER finds an order exactly if its events occur at increasing places,
\* wherever other events fall between, and a bounded answer is an answer.
RelationsAgree ==
    \A a, b \in TraceEvent :
        /\ InOrder(trace, <<a, b, a>>) <=>
              \E i, j, k \in DOMAIN trace :
                  i < j /\ j < k /\ trace[i] = a /\ trace[j] = b /\ trace[k] = a
        /\ FollowsWithin(trace, a, b, MaxSteps) => EventuallyFollows(trace, a, b)
        /\ EventuallyFollows(trace, a, b) /\ NeverFollows(trace, a, b)
              => \A i \in DOMAIN trace : trace[i] # a
        /\ FollowsWithin(trace, a, b, MaxTrace) <=> EventuallyFollows(trace, a, b)

\* A run is called stable or a recovered spike only if it gave back what it took:
\* resources within the allowance, threads, the queue when it must drain, and
\* memory unless the baseline showed none; a stable one never held more meanwhile.
GoodClassesAreReleased ==
    (endurance.phase = "done" /\ endurance.class \in {"STABLE", "RECOVERED_SPIKE"}) =>
        LET base == endurance.baseline
            after == endurance.after
            p == endurance.profile
            peak(n) == \E i \in DOMAIN endurance.samples : endurance.samples[i] > n
        IN  /\ after.held <= base.held + p.allowed /\ after.threads <= base.threads
            /\ p.drain => after.queued = 0
            /\ 4 * after.memory <= 5 * base.memory \/ base.memory = 0
            /\ endurance.class = "RECOVERED_SPIKE" <=> peak(base.held)

\* Verdicts and classes mean what their names say.
VerdictsAreTrue == RelationsAgree /\ GoodClassesAreReleased
=============================================================================
