------------------------------- MODULE Schedules -------------------------------
(***************************************************************************)
(* Concurrency schedules and their replay (deepen/concurrency.py).  A      *)
(* schedule interleaves the steps of its actors at random, the same way    *)
(* for the same seed; the replay engine runs a schedule once, point by     *)
(* point, and answers every later replay from its cache.                   *)
(***************************************************************************)
EXTENDS Naturals, Sequences, FiniteSets

CONSTANTS
    Seed,               \* interleaving seeds: <<value, salt>>
    Actor,
    Locations,          \* [Actor -> Seq]: the steps of each actor
    MaxReplays          \* bound on the replays begun

ASSUME ScheduleAssumption == Locations \in [Actor -> Seq(STRING)]

VARIABLES
    drawn,      \* seeds whose schedule was generated: [<<value, salt>> -> points]
    drawing,    \* the schedule being generated: [seed, points], or NoDrawing
    cache,      \* _replay_cache: schedule id -> [seed, points, race]
    replaying,  \* the replay running: [seed, at, race], or NoReplay
    answered,   \* what the last replay returned: [of, result], or NoAnswer
    ran,        \* points given to a runner since the last replay began
    replays     \* replays begun

scheduleVars == <<drawn, drawing, cache, replaying, answered, ran, replays>>

NoDrawing == [seed |-> << >>, points |-> << >>]
NoReplay == [seed |-> << >>, at |-> 0, race |-> FALSE]
NoAnswer == [of |-> << >>, result |-> << >>]

ScheduleInit ==
    /\ drawn = << >> /\ drawing = NoDrawing /\ cache = << >>
    /\ replaying = NoReplay /\ answered = NoAnswer /\ ran = << >> /\ replays = 0

\* generate_schedule(seed, ...): the actors' steps are drawn one by one.
Generate(seed) ==
    /\ drawing = NoDrawing /\ seed \notin DOMAIN drawn
    /\ drawing' = [seed |-> seed, points |-> << >>]
    /\ UNCHANGED <<drawn, cache, replaying, answered, ran, replays>>

StepOf(a) == Cardinality({i \in DOMAIN drawing.points : drawing.points[i].actor = a}) + 1

\* rng.choice among the actors with steps left; its first step left is taken.
DrawPoint(a) ==
    /\ drawing # NoDrawing
    /\ StepOf(a) \in DOMAIN Locations[a]
    /\ drawing' = [drawing EXCEPT !.points =
                       Append(@, [actor |-> a, step |-> StepOf(a)])]
    /\ UNCHANGED <<drawn, cache, replaying, answered, ran, replays>>

Drawn ==
    /\ drawing # NoDrawing
    /\ \A a \in Actor : StepOf(a) \notin DOMAIN Locations[a]
    /\ drawn' = [s \in DOMAIN drawn \union {drawing.seed} |->
                   IF s = drawing.seed THEN drawing.points ELSE drawn[s]]
    /\ drawing' = NoDrawing
    /\ UNCHANGED <<cache, replaying, answered, ran, replays>>

\* The schedule id is a digest of the seed's value alone.
IdOf(seed) == seed[1]

\* Faulty variant: the digest of the cached schedule is not compared.
ReplayCachedById(seed) ==
    /\ replaying = NoReplay /\ replays < MaxReplays
    /\ seed \in DOMAIN drawn /\ IdOf(seed) \in DOMAIN cache
    /\ answered' = [of |-> seed, result |-> cache[IdOf(seed)]]
    /\ ran' = << >>
    /\ replays' = replays + 1
    /\ UNCHANGED <<drawn, drawing, cache, replaying>>

\* replay() of a schedule: the cached result of that schedule, or an error when
\* the id is of another one (CONFLICTING_SCHEDULE_DUPLICATE), or a run.
ReplayCached(seed) ==
    /\ replaying = NoReplay /\ replays < MaxReplays
    /\ seed \in DOMAIN drawn /\ IdOf(seed) \in DOMAIN cache
    /\ answered' = IF cache[IdOf(seed)].seed = seed
                   THEN [of |-> seed, result |-> cache[IdOf(seed)]] ELSE NoAnswer
    /\ ran' = << >>
    /\ replays' = replays + 1
    /\ UNCHANGED <<drawn, drawing, cache, replaying>>

BeginReplay(seed) ==
    /\ replaying = NoReplay /\ replays < MaxReplays
    /\ seed \in DOMAIN drawn /\ IdOf(seed) \notin DOMAIN cache
    /\ replaying' = [seed |-> seed, at |-> 0, race |-> FALSE]
    /\ answered' = NoAnswer
    /\ ran' = << >>
    /\ replays' = replays + 1
    /\ UNCHANGED <<drawn, drawing, cache>>

\* target_runner(point) reports a race or none.
RunPoint(race) ==
    /\ replaying # NoReplay /\ replaying.at < Len(drawn[replaying.seed])
    /\ ran' = Append(ran, [point |-> drawn[replaying.seed][replaying.at + 1],
                           race |-> race])
    /\ replaying' = [replaying EXCEPT !.at = @ + 1, !.race = @ \/ race]
    /\ UNCHANGED <<drawn, drawing, cache, answered, replays>>

\* The runner raises: the replay ends and nothing is cached.
RunnerRaises ==
    /\ replaying # NoReplay /\ replaying.at < Len(drawn[replaying.seed])
    /\ replaying' = NoReplay /\ ran' = << >>
    /\ UNCHANGED <<drawn, drawing, cache, answered, replays>>

EndReplay ==
    /\ replaying # NoReplay /\ replaying.at = Len(drawn[replaying.seed])
    /\ LET r == [seed |-> replaying.seed, points |-> drawn[replaying.seed],
                 race |-> replaying.race, log |-> ran]
       IN  /\ cache' = [i \in DOMAIN cache \union {IdOf(replaying.seed)} |->
                          IF i = IdOf(replaying.seed) THEN r ELSE cache[i]]
           /\ answered' = [of |-> replaying.seed, result |-> r]
    /\ replaying' = NoReplay
    /\ UNCHANGED <<drawn, drawing, ran, replays>>

ScheduleNext ==
    \/ \E seed \in Seed :
          Generate(seed) \/ ReplayCached(seed) \/ BeginReplay(seed)
    \/ \E a \in Actor : DrawPoint(a)
    \/ Drawn
    \/ \E race \in BOOLEAN : RunPoint(race)
    \/ RunnerRaises \/ EndReplay

ScheduleSpec == ScheduleInit /\ [][ScheduleNext]_scheduleVars

-----------------------------------------------------------------------------

ScheduleTypeOK ==
    /\ DOMAIN drawn \subseteq Seed
    /\ DOMAIN cache \subseteq {IdOf(s) : s \in Seed}
    /\ replaying = NoReplay \/ replaying.seed \in DOMAIN drawn

\* Every step of every actor, each actor's in its own order: a point is the step
\* that its actor has come to, and no actor stops short.
Interleaves(points) ==
    /\ \A i \in DOMAIN points : points[i].step =
          Cardinality({j \in 1..i : points[j].actor = points[i].actor})
    /\ \A a \in Actor :
          Cardinality({i \in DOMAIN points : points[i].actor = a}) = Len(Locations[a])

\* A replay speaks of the schedule it was asked for, run or cached: its log is
\* every step of every actor once, each actor's in its own order, and a race is
\* reported exactly if some point of that schedule showed one.
ReplaysAreOfTheirSchedule ==
    answered # NoAnswer =>
        LET log == answered.result.log
            points == [i \in DOMAIN log |-> log[i].point]
        IN  /\ answered.result.seed = answered.of
            /\ points = drawn[answered.of]
            /\ Interleaves(points)
            /\ answered.result.race = (\E i \in DOMAIN log : log[i].race)
=============================================================================
