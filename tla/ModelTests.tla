------------------------------ MODULE ModelTests ------------------------------
(***************************************************************************)
(* The test adapters (deepen/adapters.py).  A stateful test runs a list of *)
(* events on a state model and on the system under test side by side; at   *)
(* the first difference it shortens the list, event by event, to one that  *)
(* still fails.  A property test does the same with a generated integer.   *)
(***************************************************************************)
EXTENDS Explorer

CONSTANTS
    TestModels,     \* the state models tested against
    Systems,        \* systems under test: state models themselves
    EventLists,     \* event lists executed
    MaxInput,       \* generated integers are 0..MaxInput
    MaxCases        \* bound on the count of a property test

ASSUME TestAssumption ==
    /\ \A q \in EventLists : q \in Seq({q[i] : i \in DOMAIN q})
    /\ MaxInput \in Nat

VARIABLES
    stateful,   \* the stateful test: [phase, model, system, resets, events, at,
                \*   state (of the model), sut (configuration), trace, removing]
    numeric     \* the property test: [phase, failing (inputs the property refuses),
                \*   count, tested, input, shrunk]

testVars == <<stateful, numeric>>

NoStateful == [phase |-> "idle"]
NoNumeric == [phase |-> "idle"]

TestInit == stateful = NoStateful /\ numeric = NoNumeric

Fresh(s) == <<s.start, s.value>>

\* One event on both sides.  step() is called without variables: the model's
\* guards always see its initial ones.  Any exception counts as a failure.
Both(m, s, state, sut, e) ==
    LET expected == Stepped(m, <<state, m.value>>, e)
        real == Stepped(s, sut, e)
    IN  IF expected.raised # "none" THEN [fails |-> TRUE, state |-> state, sut |-> sut]
        ELSE IF real.raised # "none" THEN [fails |-> TRUE, state |-> state, sut |-> sut]
        ELSE [fails |-> real.at[1] # expected.at[1],
              state |-> expected.at[1], sut |-> real.at]

\* The events on both sides, up to the first difference.
RunBoth(m, s, sut, events) ==
    LET run[k \in 0..Len(events)] ==
            IF k = 0 THEN [fails |-> FALSE, state |-> m.start, sut |-> sut]
            ELSE LET r == run[k - 1]
                 IN  IF r.fails THEN r ELSE Both(m, s, r.state, r.sut, events[k])
    IN  run[Len(events)]

\* Faulty variant: the system under test is not reset.
ReproducesUnreset(m, s, resets, sut, events) == RunBoth(m, s, sut, events)

\* _reproduces_failure: the events from the initial state, on a system that is
\* reset first if it can be.
Reproduces(m, s, resets, sut, events) ==
    RunBoth(m, s, IF resets THEN Fresh(s) ELSE sut, events)

\* execute_stateful_test(seed, initial_state, sequence, system_under_test).
BeginStateful(m, s, resets, events) ==
    /\ stateful = NoStateful
    /\ stateful' = [phase |-> "running", model |-> m, system |-> s, resets |-> resets,
                    events |-> events, at |-> 1, state |-> m.start, sut |-> Fresh(s),
                    trace |-> << >>, removing |-> 0]
    /\ UNCHANGED numeric

StepBoth ==
    /\ stateful.phase = "running" /\ stateful.at <= Len(stateful.events)
    /\ LET t == stateful
           r == Both(t.model, t.system, t.state, t.sut, t.events[t.at])
       IN  stateful' = IF r.fails
                       THEN [t EXCEPT !.phase = "shrinking", !.sut = r.sut,
                                      !.trace = SubSeq(t.events, 1, t.at), !.removing = 1]
                       ELSE [t EXCEPT !.at = @ + 1, !.state = r.state, !.sut = r.sut]
    /\ UNCHANGED numeric

Passed ==
    /\ stateful.phase = "running" /\ stateful.at > Len(stateful.events)
    /\ stateful' = [stateful EXCEPT !.phase = "passed"]
    /\ UNCHANGED numeric

\* _shrink_trace: the list without one event, never the last; if it still
\* fails, the removals start over from it.
TryRemoval ==
    /\ stateful.phase = "shrinking" /\ stateful.removing < Len(stateful.trace)
    /\ LET t == stateful
           shorter == RemoveAt(t.trace, t.removing)
           r == Reproduces(t.model, t.system, t.resets, t.sut, shorter)
       IN  stateful' = IF r.fails
                       THEN [t EXCEPT !.trace = shorter, !.removing = 1, !.sut = r.sut]
                       ELSE [t EXCEPT !.removing = @ + 1, !.sut = r.sut]
    /\ UNCHANGED numeric

Shrunk ==
    /\ stateful.phase = "shrinking" /\ stateful.removing >= Len(stateful.trace)
    /\ stateful' = [stateful EXCEPT !.phase = "failed"]
    /\ UNCHANGED numeric

-----------------------------------------------------------------------------

\* run_property_test(seed, count, generator, property_fn).
BeginNumeric(failing, count) ==
    /\ numeric = NoNumeric
    /\ numeric' = [phase |-> "running", failing |-> failing, count |-> count,
                   tested |-> << >>, shrunk |-> 0]
    /\ UNCHANGED stateful

\* One generated case; the first that fails is shrunk.
Case(n) ==
    /\ numeric.phase = "running" /\ Len(numeric.tested) < numeric.count
    /\ numeric' = [numeric EXCEPT
                     !.tested = Append(@, n),
                     !.shrunk = n,
                     !.phase = IF n \in numeric.failing THEN "shrinking" ELSE @]
    /\ UNCHANGED stateful

\* _shrink_input: 0, half of it and its predecessor, the first that fails.
Smaller(n) == <<0, n \div 2, n - 1>>

ShrinkNumeric ==
    /\ numeric.phase = "shrinking"
    /\ LET n == numeric.shrunk
           fail == {i \in DOMAIN Smaller(n) :
                        n > 0 /\ Smaller(n)[i] < n /\ Smaller(n)[i] \in numeric.failing}
       IN  numeric' = IF fail = {} THEN [numeric EXCEPT !.phase = "failed"]
                      ELSE [numeric EXCEPT !.shrunk = Smaller(n)[FirstOf(fail)]]
    /\ UNCHANGED stateful

NumericPassed ==
    /\ numeric.phase = "running" /\ Len(numeric.tested) = numeric.count
    /\ numeric' = [numeric EXCEPT !.phase = "passed"]
    /\ UNCHANGED stateful

StatefulNext ==
    \/ \E m \in TestModels, s \in Systems, resets \in BOOLEAN, q \in EventLists :
          BeginStateful(m, s, resets, q)
    \/ StepBoth \/ Passed \/ TryRemoval \/ Shrunk

NumericNext ==
    \/ \E failing \in SUBSET (0..MaxInput), count \in 1..MaxCases :
          BeginNumeric(failing, count)
    \/ \E n \in 0..MaxInput : Case(n)
    \/ ShrinkNumeric \/ NumericPassed

TestNext == StatefulNext \/ NumericNext

TestSpec == TestInit /\ [][TestNext]_testVars

-----------------------------------------------------------------------------

TestTypeOK ==
    /\ stateful.phase \in {"idle", "running", "shrinking", "passed", "failed"}
    /\ numeric.phase \in {"idle", "running", "shrinking", "passed", "failed"}
    /\ numeric.phase # "idle" => numeric.shrunk \in 0..MaxInput

\* What a stateful test reports as the minimal failing list fails when it is run
\* from the beginning on a system that can be reset, and stops failing when any
\* one event but the last is removed, however the removals succeeded before.
ShrunkTraceIsMinimal ==
    (stateful.phase = "failed" /\ stateful.resets) =>
        LET t == stateful
            fails(q) == Reproduces(t.model, t.system, TRUE, t.sut, q).fails
        IN  /\ RunBoth(t.model, t.system, Fresh(t.system), t.trace).fails
            /\ \A i \in 1..(Len(t.trace) - 1) : ~fails(RemoveAt(t.trace, i))
            /\ Last(t.trace) = t.events[t.at]

\* A property test passes only when no case it ran fails, and what it reports as
\* the shrunk input fails although 0, its half and its predecessor do not.
ShrunkInputIsMinimal ==
    /\ numeric.phase = "passed" =>
          /\ Len(numeric.tested) = numeric.count
          /\ \A i \in DOMAIN numeric.tested : numeric.tested[i] \notin numeric.failing
    /\ numeric.phase = "failed" =>
          LET n == numeric.shrunk
          IN  /\ n \in numeric.failing /\ n <= Last(numeric.tested)
              /\ n > 0 => {0, n \div 2, n - 1} \cap numeric.failing = {}

\* What either adapter reports as minimal fails, and is minimal for its removals.
ShrunkIsMinimal == ShrunkTraceIsMinimal /\ ShrunkInputIsMinimal
=============================================================================
