------------------------------- MODULE Explorer -------------------------------
(***************************************************************************)
(* State models and their bounded exploration (deepen/state_model.py,      *)
(* deepen/exploration.py).  A model is a list of transitions over named    *)
(* states and one variable; explore() searches it breadth first, one       *)
(* transition at a time, under three bounds.  step() and replay() execute  *)
(* the same model on a given list of events.                               *)
(***************************************************************************)
EXTENDS Naturals, Sequences, FiniteSets, SequencesExt

CONSTANTS
    Models,     \* the state models explored
    Bounds      \* the bounds given to explore(): [states, depth, transitions]

ASSUME ExplorerAssumption ==
    /\ \A m \in Models :
          m.transitions \in Seq({m.transitions[i] : i \in DOMAIN m.transitions})
    /\ Bounds \subseteq [states : Nat, depth : Nat, transitions : Nat]

\* A transition: its guard is the set of values of the variable that pass all
\* its guards, its effect the function applied to the variable.
TransitionOf(State, Event, Value) ==
    [source : State, event : Event, target : State,
     guard : SUBSET Value, effect : [Value -> Value]]

\* A state model: [start, value, transitions, forbidden], `forbidden' the
\* configurations <<state, value>> matched by one of its forbidden states.
\* _validate_model refuses a forbidden initial state.
ValidModel(m) == <<m.start, m.value>> \notin m.forbidden

Enabled(t, c) == t.source = c[1] /\ c[2] \in t.guard
After(t, c) == <<t.target, t.effect[c[2]]>>

\* Transitions are looked at in their order: of several, the first.
FirstOf(S) == CHOOSE i \in S : \A j \in S : i <= j

\* step(): the first transition of that state and event whose guards pass.
Candidates(m, c, e) ==
    {i \in DOMAIN m.transitions : m.transitions[i].source = c[1] /\ m.transitions[i].event = e}

Stepped(m, c, e) ==
    LET cands == Candidates(m, c, e)
        active == {i \in cands : c[2] \in m.transitions[i].guard}
    IN  IF cands = {} THEN [raised |-> "ILLEGAL_TRANSITION", at |-> c]
        ELSE IF active = {} THEN [raised |-> "GUARD_EVALUATION_FAILED", at |-> c]
        ELSE LET n == After(m.transitions[FirstOf(active)], c)
             IN  [raised |-> IF n \in m.forbidden THEN "FORBIDDEN_STATE_REACHED"
                                                  ELSE "none",
                  at |-> n]

\* replay(): the events in order; the first step that raises ends it.
Replayed(m, events) ==
    LET run[k \in 0..Len(events)] ==
            IF k = 0 THEN [raised |-> "none", at |-> <<m.start, m.value>>, steps |-> 0]
            ELSE LET r == run[k - 1]
                     s == Stepped(m, r.at, events[k])
                 IN  IF r.raised # "none" THEN r
                     ELSE [raised |-> s.raised, at |-> s.at, steps |-> r.steps + 1]
    IN  run[Len(events)]

-----------------------------------------------------------------------------

VARIABLES
    job,        \* << >> or <<model, bounds>>: what explore() was called with
    queue,      \* configurations found and not expanded: [at, depth, path]
    visited,    \* configurations found
    current,    \* the one being expanded and its transitions left to try, by their places
    tried,      \* transitions_count
    boundHit,   \* a bound was reached
    verdict     \* what explore() returned, or NoVerdict

explorerVars == <<job, queue, visited, current, tried, boundHit, verdict>>

NoVerdict == [status |-> "none", trace |-> << >>]
Nowhere == [node |-> << >>, left |-> {}]

\* The transitions out of a configuration, by their places.
Outgoing(m, c) == {i \in DOMAIN m.transitions : m.transitions[i].source = c[1]}

model == job[1]
bounds == job[2]

ExplorerInit ==
    /\ job = << >> /\ queue = << >> /\ visited = {} /\ current = Nowhere
    /\ tried = 0 /\ boundHit = FALSE /\ verdict = NoVerdict

\* explore(model, bounds), up to its loop.
Explore(m, b) ==
    /\ job = << >>
    /\ ValidModel(m)
    /\ job' = <<m, b>>
    /\ queue' = << [at |-> <<m.start, m.value>>, depth |-> 0, path |-> << >>] >>
    /\ visited' = { <<m.start, m.value>> }
    /\ UNCHANGED <<current, tried, boundHit, verdict>>

Searching == job # << >> /\ verdict = NoVerdict

\* The head of the queue is taken and not expanded: too deep.
TooDeep ==
    /\ Searching /\ current = Nowhere /\ queue # << >>
    /\ Cardinality(visited) < bounds.states
    /\ Head(queue).depth >= bounds.depth
    /\ boundHit' = TRUE
    /\ queue' = Tail(queue)
    /\ UNCHANGED <<job, visited, current, tried, verdict>>

\* Faulty variant: the newest configuration is expanded first.
ExpandNewest ==
    /\ Searching /\ current = Nowhere /\ queue # << >>
    /\ Cardinality(visited) < bounds.states
    /\ Last(queue).depth < bounds.depth
    /\ current' = [node |-> Last(queue), left |-> Outgoing(model, Last(queue).at)]
    /\ queue' = Front(queue)
    /\ UNCHANGED <<job, visited, tried, boundHit, verdict>>

\* The head of the queue is taken, its outgoing transitions are to be tried.
Expand ==
    /\ Searching /\ current = Nowhere /\ queue # << >>
    /\ Cardinality(visited) < bounds.states
    /\ Head(queue).depth < bounds.depth
    /\ current' = [node |-> Head(queue), left |-> Outgoing(model, Head(queue).at)]
    /\ queue' = Tail(queue)
    /\ UNCHANGED <<job, visited, tried, boundHit, verdict>>

\* One transition of the configuration being expanded: counted, then taken if
\* its guards pass; a forbidden configuration ends the search.
Try ==
    /\ Searching /\ current.left # {}
    /\ tried < bounds.transitions
    /\ tried' = tried + 1
    /\ LET i == FirstOf(current.left)
           t == model.transitions[i]
           here == current.node
           next == [at |-> After(t, here.at), depth |-> here.depth + 1,
                    path |-> Append(here.path, t.event)]
           rest == [current EXCEPT !.left = @ \ {i}]
       IN  /\ current' = IF rest.left = {} THEN Nowhere ELSE rest
           /\ CASE ~Enabled(t, here.at) ->
                       UNCHANGED <<queue, visited, verdict>>
                [] Enabled(t, here.at) /\ next.at \in model.forbidden ->
                       /\ verdict' = [status |-> "FORBIDDEN_STATE_FOUND",
                                      trace |-> next.path]
                       /\ UNCHANGED <<queue, visited>>
                [] OTHER ->
                       /\ visited' = visited \union {next.at}
                       /\ queue' = IF next.at \in visited THEN queue
                                                          ELSE Append(queue, next)
                       /\ UNCHANGED verdict
    /\ UNCHANGED <<job, boundHit>>

\* A configuration without outgoing transitions is expanded by no step at all.
Skip ==
    /\ Searching /\ current # Nowhere /\ current.left = {}
    /\ current' = Nowhere
    /\ UNCHANGED <<job, queue, visited, tried, boundHit, verdict>>

\* The loop ends: the queue is empty, too many states were found when one was
\* taken from it, or one transition too many was to be tried.
Finish ==
    /\ Searching
    /\ LET stateBound == /\ current = Nowhere /\ queue # << >>
                         /\ Cardinality(visited) >= bounds.states
           transitionBound == current.left # {} /\ tried >= bounds.transitions
       IN  /\ \/ current = Nowhere /\ queue = << >>
              \/ stateBound
              \/ transitionBound
           /\ boundHit' = (boundHit \/ stateBound \/ transitionBound)
    /\ verdict' = [status |-> IF boundHit' THEN "BOUND_REACHED"
                                           ELSE "EXHAUSTED_WITHIN_BOUND",
                   trace |-> << >>]
    /\ UNCHANGED <<job, queue, visited, current, tried>>

ExplorerNext ==
    \/ \E m \in Models, b \in Bounds : Explore(m, b)
    \/ TooDeep \/ Expand \/ Try \/ Skip \/ Finish

ExplorerSpec == ExplorerInit /\ [][ExplorerNext]_explorerVars

-----------------------------------------------------------------------------

ExplorerTypeOK ==
    /\ job \in {<< >>} \union (Models \X Bounds)
    /\ verdict.status \in {"none", "BOUND_REACHED", "EXHAUSTED_WITHIN_BOUND",
                           "FORBIDDEN_STATE_FOUND"}
    /\ boundHit \in BOOLEAN
    /\ tried \in Nat
    /\ \A i \in DOMAIN queue : queue[i].at \in visited

\* A state model is deterministic if no configuration enables two transitions
\* of one event.
Deterministic(m) ==
    \A i, j \in DOMAIN m.transitions :
        LET s == m.transitions[i]
            t == m.transitions[j]
        IN  i # j /\ s.source = t.source /\ s.event = t.event
               => s.guard \cap t.guard = {}

\* What one transition reaches from configurations that are not forbidden, and what
\* some path of that many transitions that meets no forbidden configuration before
\* its end.
Successors(m, S) ==
    { After(m.transitions[p[1]], p[2]) :
        p \in { q \in (DOMAIN m.transitions) \X (S \ m.forbidden) :
                   Enabled(m.transitions[q[1]], q[2]) } }

ReachableIn(m, n) ==
    LET f[k \in 0..n] ==
            IF k = 0 THEN { <<m.start, m.value>> } ELSE Successors(m, f[k - 1])
    IN  f[n]

\* EXHAUSTED_WITHIN_BOUND is a claim about the whole model: no path, of any
\* length, leads to a forbidden state or to a configuration that was not visited.
ExhaustedMeansCovered ==
    verdict.status = "EXHAUSTED_WITHIN_BOUND" =>
        \A n \in 0..(Cardinality(visited) + 1) :
            ReachableIn(model, n) \subseteq visited \ model.forbidden

\* A counterexample is a path of the model to a forbidden state, and no shorter
\* one exists, whatever transitions were tried before; when the model is
\* deterministic, replay() of its events reaches a forbidden state at its end.
CounterexampleIsShortest ==
    verdict.status = "FORBIDDEN_STATE_FOUND" =>
        LET n == Len(verdict.trace)
            r == Replayed(model, verdict.trace)
        IN  /\ ReachableIn(model, n) \cap model.forbidden # {}
            /\ \A k \in 0..(n - 1) : ReachableIn(model, k) \cap model.forbidden = {}
            /\ Deterministic(model)
                  => r.raised = "FORBIDDEN_STATE_REACHED" /\ r.steps = n

\* What explore() claims is true of the model, whatever bound was near.
ExplorationIsSound == ExhaustedMeansCovered /\ CounterexampleIsShortest
=============================================================================
