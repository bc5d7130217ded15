---------------------------- MODULE EngineProofs ----------------------------
(***************************************************************************)
(* What TLAPS proves about the components of MCEngines whose rules do not  *)
(* compute over data of any depth: the supervisor of tools, the vault of   *)
(* raw bytes, the lifecycle of the aggregates, the harness that crashes    *)
(* the store, the schedules of the concurrency tests, the admission of     *)
(* stage objects, the pipelines and adjudication that decide by the        *)
(* evidence graph, and the ensembles in memory.  Each part is the          *)
(* inductive invariant of one component, the lemma that its specification  *)
(* keeps it, and the theorems that follow.                                 *)
(***************************************************************************)
EXTENDS Lifecycle, CrashHarness, Schedules, ToolRuns, Vault, StageAdmission,
        FindingPipelines, BlindEnsembles, FiniteSetTheorems, WellFoundedInduction, TLAPS

-----------------------------------------------------------------------------
\* Lifecycle: the log of transition facts.

\* A fact recorded after a log: positions, and what is already there.
LEMMA RecordExtends ==
    ASSUME NEW l \in Seq(Fact), NEW f \in Fact
    PROVE  /\ Append(l, f) \in Seq(Fact)
           /\ Len(l) \in Nat /\ DOMAIN l = 1..Len(l)
           /\ DOMAIN Append(l, f) = 1..(Len(l) + 1)
           /\ \A i \in DOMAIN l : Append(l, f)[i] = l[i]
           /\ Append(l, f)[Len(l) + 1] = f
           /\ SubSeq(Append(l, f), 1, Len(l)) = l
  OBVIOUS

\* The log is typed, and every fact was recorded after the facts before it.
LEMMA TypeHolds == Spec => []TypeOK
<1>1. Init => TypeOK
  BY DEF Init, TypeOK
<1>2. TypeOK /\ [Next]_facts => TypeOK'
  <2> SUFFICES ASSUME TypeOK, [Next]_facts PROVE TypeOK'
    OBVIOUS
  <2>1. CASE Next
    BY <2>1, RecordExtends DEF TypeOK, Next, Record
  <2> QED BY <2>1 DEF TypeOK
<1> QED BY <1>1, <1>2, PTL DEF Spec

\* A recorded fact follows the table, from the state the facts before it leave,
\* unless it repeats a terminal one.
LEMMA RecordFacts ==
    ASSUME TypeOK, NEW f \in Fact, Record(f)
    PROVE  Projects(facts, f) /\ facts' = Append(facts, f)
<1>1. Len(facts) + 1 \in DOMAIN Append(facts, f)
  BY RecordExtends DEF TypeOK
<1>2. /\ Append(facts, f)[Len(facts) + 1] = f
      /\ SubSeq(Append(facts, f), 1, Len(facts) + 1 - 1) = facts
  BY RecordExtends DEF TypeOK
<1>3. Projects(SubSeq(Append(facts, f), 1, Len(facts) + 1 - 1),
               Append(facts, f)[Len(facts) + 1])
  BY <1>1 DEF Record, ProjectionAccepts
<1> QED BY <1>2, <1>3 DEF Record

\* A non-empty set of positions has a latest one.
LEMMA LatestIsOne ==
    ASSUME NEW S \in SUBSET Nat, S # {}, NEW b \in Nat, \A n \in S : n <= b
    PROVE  Latest(S) \in S /\ \A n \in S : n <= Latest(S)
<1> DEFINE T == {b - n : n \in S}
           R == {ss \in Nat \X Nat : ss[1] < ss[2]}
<1>1. T \subseteq Nat
  <2> SUFFICES ASSUME NEW n \in S PROVE b - n \in Nat
    OBVIOUS
  <2>1. n \in Nat /\ n <= b
    OBVIOUS
  <2> QED BY <2>1
<1>2. T # {}
  OBVIOUS
<1>3. R = OpToRel(<, Nat)
  BY DEF OpToRel
<1>4. PICK x \in T : \A y \in T : <<y, x>> \notin R
  <2> HIDE DEF T, R
  <2> QED BY <1>1, <1>2, <1>3, WFMin, NatLessThanWellFounded, Zenon
<1>5. PICK k \in S : x = b - k
  OBVIOUS
<1>6. \A m \in S : m <= k
  <2> TAKE m \in S
  <2>1. b - m \in T /\ b - m \in Nat /\ x \in Nat
    BY <1>1
  <2>2. <<b - m, x>> \notin R
    BY <1>4, <2>1
  <2>3. ~ (b - m < x)
    BY <2>1, <2>2
  <2> QED BY <1>5, <2>1, <2>3
<1> QED BY <1>6 DEF Latest

\* The state of an aggregate was recorded for it, unless it is the initial one.
LEMMA StateWasRecorded ==
    ASSUME NEW l \in Seq(Fact), NEW f
    PROVE  IF Earlier(l, f) = {} THEN StateOf(l, f) = InitialState[f.aggregate]
           ELSE /\ Latest(Earlier(l, f)) \in Earlier(l, f)
                /\ \A i \in Earlier(l, f) : i <= Latest(Earlier(l, f))
                /\ StateOf(l, f) = l[Latest(Earlier(l, f))].to
<1>1. Earlier(l, f) \in SUBSET Nat /\ Len(l) \in Nat
      /\ \A i \in Earlier(l, f) : i <= Len(l)
  BY DEF Earlier
<1> QED BY <1>1, LatestIsOne DEF StateOf

\* The facts that lead to a completion: what has to have been recorded before.
ReachedBefore(i, to) ==
    \E j \in 1..(i - 1) : SameAggregate(facts[j], facts[i]) /\ facts[j].to = to

\* The aggregates whose completion is accepted.
OfRuns(f) == f.aggregate \in {"stage", "lane"}

\* Whatever waits or is a candidate for completion was running before.
RanFirst ==
    \A i \in DOMAIN facts :
        (OfRuns(facts[i]) /\ facts[i].to \in {"WAITING_FOR_REQUIRED_INPUT", "WAITING_RESULT",
                                              "COMPLETION_CANDIDATE"})
          => ReachedBefore(i, "RUNNING")

\* The table's only ways into waiting and completion, of a stage and of a lane.
LEMMA EdgesIntoCompletion ==
    ASSUME NEW f, OfRuns(f), legal_transition(f)
    PROVE  /\ f.to = "COMPLETION_ACCEPTED" => f.from = "COMPLETION_CANDIDATE"
           /\ f.to = "COMPLETION_CANDIDATE" =>
                f.from \in {"RUNNING", "WAITING_FOR_REQUIRED_INPUT", "WAITING_RESULT"}
           /\ f.to \in {"WAITING_FOR_REQUIRED_INPUT", "WAITING_RESULT"} => f.from = "RUNNING"
           /\ InitialState[f.aggregate] = "PLANNED"
  BY DEF OfRuns, legal_transition, Edges, InitialState

\* Why a completion was earned: its state was recorded, and so was what leads to it.
LEMMA CompletionInvHolds == Spec => [](TypeOK /\ RanFirst /\ CompletionWasEarned)
<1>1. Init => RanFirst /\ CompletionWasEarned
  BY DEF Init, RanFirst, CompletionWasEarned
<1>2. TypeOK /\ RanFirst /\ CompletionWasEarned /\ [Next]_facts
        => (RanFirst /\ CompletionWasEarned)'
  <2> SUFFICES ASSUME TypeOK, RanFirst, CompletionWasEarned, [Next]_facts
               PROVE  RanFirst' /\ CompletionWasEarned'
    OBVIOUS
  <2>1. ASSUME NEW f \in Fact, Record(f)
        PROVE  RanFirst' /\ CompletionWasEarned'
    <3>0. PICK n : n = Len(facts) + 1
      OBVIOUS
    <3>1. Projects(facts, f) /\ facts' = Append(facts, f)
      BY <2>1, RecordFacts
    <3>2. /\ n \in Nat /\ DOMAIN facts = 1..(n - 1) /\ DOMAIN facts' = 1..n
          /\ \A i \in DOMAIN facts : facts'[i] = facts[i]
          /\ facts'[n] = f
      BY <3>0, <3>1, RecordExtends DEF TypeOK
    <3>3. ASSUME NEW s, s # "PLANNED", OfRuns(f), StateOf(facts, f) = s
          PROVE  \E k \in 1..(n - 1) : SameAggregate(facts[k], f) /\ facts[k].to = s
      <4>1. InitialState[f.aggregate] = "PLANNED"
        BY <3>3 DEF OfRuns, InitialState
      <4>2. Earlier(facts, f) # {}
        BY <3>3, <4>1, StateWasRecorded DEF TypeOK
      <4>3. /\ Latest(Earlier(facts, f)) \in Earlier(facts, f)
            /\ StateOf(facts, f) = facts[Latest(Earlier(facts, f))].to
        BY <4>2, StateWasRecorded DEF TypeOK
      <4> QED BY <3>2, <3>3, <4>3 DEF Earlier
    <3>4. ASSUME NEW k \in 1..(n - 1), SameAggregate(facts[k], f), OfRuns(f),
                 facts[k].to \in {"RUNNING", "WAITING_FOR_REQUIRED_INPUT", "WAITING_RESULT",
                                  "COMPLETION_CANDIDATE"}
          PROVE  \E j \in 1..k : SameAggregate(facts[j], f) /\ facts[j].to = "RUNNING"
      <4>1. CASE facts[k].to = "RUNNING"
        BY <3>4, <3>2, <4>1
      <4>2. CASE facts[k].to # "RUNNING"
        <5>1. ReachedBefore(k, "RUNNING")
          BY <3>2, <3>4, <4>2 DEF RanFirst, OfRuns, SameAggregate
        <5> QED BY <3>2, <3>4, <5>1 DEF ReachedBefore, SameAggregate
      <4> QED BY <4>1, <4>2
    <3>5. legal_transition(f)
      BY <3>1 DEF Projects
    <3>6. StateOf(facts, f) = f.from \/ StateOf(facts, f) = f.to
      BY <3>1 DEF Projects
    <3>7. ASSUME OfRuns(f), f.to \in {"WAITING_FOR_REQUIRED_INPUT", "WAITING_RESULT",
                                     "COMPLETION_CANDIDATE"}
          PROVE  ReachedBefore(n, "RUNNING")'
      <4>1. StateOf(facts, f) \in {"RUNNING", "WAITING_FOR_REQUIRED_INPUT",
                                   "WAITING_RESULT", "COMPLETION_CANDIDATE"}
        BY <3>5, <3>6, <3>7, EdgesIntoCompletion
      <4>2. PICK k \in 1..(n - 1) : SameAggregate(facts[k], f) /\ facts[k].to = StateOf(facts, f)
        BY <3>3, <3>7, <4>1
      <4>3. PICK j \in 1..k : SameAggregate(facts[j], f) /\ facts[j].to = "RUNNING"
        BY <3>4, <3>7, <4>1, <4>2
      <4> QED BY <3>2, <4>3 DEF ReachedBefore
    <3>8. ASSUME OfRuns(f), f.to = "COMPLETION_ACCEPTED"
          PROVE  \E j, k \in 1..(n - 1) :
                    /\ j < k
                    /\ SameAggregate(facts[j], f) /\ facts[j].to = "RUNNING"
                    /\ SameAggregate(facts[k], f) /\ facts[k].to = "COMPLETION_CANDIDATE"
      <4>1. CASE StateOf(facts, f) = "COMPLETION_CANDIDATE"
        <5>1. PICK k \in 1..(n - 1) :
                 SameAggregate(facts[k], f) /\ facts[k].to = "COMPLETION_CANDIDATE"
          BY <3>3, <3>8, <4>1
        <5>2. PICK j \in 1..k : SameAggregate(facts[j], f) /\ facts[j].to = "RUNNING"
          BY <3>4, <3>8, <5>1
        <5>3. j # k
          BY <5>1, <5>2
        <5> QED BY <3>2, <5>1, <5>2, <5>3
      <4>2. CASE StateOf(facts, f) = "COMPLETION_ACCEPTED"
        <5>1. PICK i \in 1..(n - 1) :
                 SameAggregate(facts[i], f) /\ facts[i].to = "COMPLETION_ACCEPTED"
          BY <3>3, <3>8, <4>2
        <5>2. \E j, k \in 1..(i - 1) :
                 /\ j < k
                 /\ SameAggregate(facts[j], facts[i]) /\ facts[j].to = "RUNNING"
                 /\ SameAggregate(facts[k], facts[i]) /\ facts[k].to = "COMPLETION_CANDIDATE"
          BY <3>2, <3>8, <5>1 DEF CompletionWasEarned, OfRuns, SameAggregate
        <5> QED BY <3>2, <5>1, <5>2 DEF SameAggregate
      <4> QED BY <3>5, <3>6, <3>8, <4>1, <4>2, EdgesIntoCompletion
    <3>9. RanFirst'
      <4> SUFFICES ASSUME NEW i \in 1..n, OfRuns(facts'[i]),
                          facts'[i].to \in {"WAITING_FOR_REQUIRED_INPUT", "WAITING_RESULT",
                                            "COMPLETION_CANDIDATE"}
                   PROVE  ReachedBefore(i, "RUNNING")'
        BY <3>2 DEF RanFirst
      <4>1. CASE i = n
        BY <3>2, <3>7, <4>1
      <4>2. CASE i # n
        <5>1. i \in DOMAIN facts /\ facts'[i] = facts[i] /\ i - 1 <= n - 1
          BY <3>2, <4>2
        <5>2. ReachedBefore(i, "RUNNING")
          BY <5>1 DEF RanFirst
        <5> QED BY <3>2, <5>1, <5>2 DEF ReachedBefore
      <4> QED BY <4>1, <4>2
    <3>10. CompletionWasEarned'
      <4> SUFFICES ASSUME NEW i \in 1..n, facts'[i].aggregate \in {"stage", "lane"},
                          facts'[i].to = "COMPLETION_ACCEPTED"
                   PROVE  \E j, k \in 1..(i - 1) :
                /\ j < k
                /\ SameAggregate(facts'[j], facts'[i]) /\ facts'[j].to = "RUNNING"
                /\ SameAggregate(facts'[k], facts'[i]) /\ facts'[k].to = "COMPLETION_CANDIDATE"
        BY <3>2 DEF CompletionWasEarned
      <4>1. CASE i = n
        BY <3>2, <3>8, <4>1 DEF OfRuns
      <4>2. CASE i # n
        <5>1. i \in DOMAIN facts /\ facts'[i] = facts[i] /\ i - 1 <= n - 1
          BY <3>2, <4>2
        <5> QED BY <3>2, <5>1 DEF CompletionWasEarned
      <4> QED BY <4>1, <4>2
    <3> QED BY <3>9, <3>10
  <2>2. CASE UNCHANGED facts
    BY <2>2 DEF RanFirst, CompletionWasEarned, ReachedBefore
  <2> QED BY <2>1, <2>2 DEF Next
<1> QED BY <1>1, <1>2, TypeHolds, PTL DEF Spec

\* No order of legal facts, retries and duplicates lets a stage or a lane complete
\* without having run and been a candidate (orchestration/fsm.py), for every
\* number of aggregates and length of the log.
THEOREM CompletionsAreLegal == Spec => []CompletionWasEarned
  BY CompletionInvHolds, PTL

\* What is recorded later never changes the state of a terminated aggregate
\* (TERMINAL_STATE_IMMUTABLE of orchestration/fsm.py).
THEOREM TerminalStatesStay == Spec => TerminalStateImmutable
<1>1. TypeOK /\ [Next]_facts =>
        [\A k \in Key : StateOf(facts, k) \in Terminal[k.aggregate]
             => StateOf(facts', k) = StateOf(facts, k)]_facts
  <2> SUFFICES ASSUME TypeOK, NEW f \in Fact, Record(f), NEW k \in Key,
                      StateOf(facts, k) \in Terminal[k.aggregate]
               PROVE  StateOf(facts', k) = StateOf(facts, k)
    BY DEF Next
  <2>0. PICK n : n = Len(facts) + 1
    OBVIOUS
  <2>1. Projects(facts, f) /\ facts' = Append(facts, f)
    BY RecordFacts
  <2>2. /\ n \in Nat /\ DOMAIN facts = 1..(n - 1) /\ DOMAIN facts' = 1..n
        /\ \A i \in DOMAIN facts : facts'[i] = facts[i]
        /\ facts'[n] = f /\ facts' \in Seq(Fact)
    BY <2>0, <2>1, RecordExtends DEF TypeOK
  <2>3. Earlier(facts', k) =
           IF SameAggregate(f, k) THEN Earlier(facts, k) \cup {n} ELSE Earlier(facts, k)
    <3>1. \A i \in 1..(n - 1) : SameAggregate(facts'[i], k) = SameAggregate(facts[i], k)
      BY <2>2
    <3>2. SameAggregate(facts'[n], k) = SameAggregate(f, k)
      BY <2>2
    <3>3. 1..n = (1..(n - 1)) \cup {n} /\ n \notin 1..(n - 1)
      BY <2>0, <2>2
    <3>4. Earlier(facts', k) = {i \in 1..n : SameAggregate(facts'[i], k)}
          /\ Earlier(facts, k) = {i \in 1..(n - 1) : SameAggregate(facts[i], k)}
      BY <2>2 DEF Earlier
    <3> QED BY <3>1, <3>2, <3>3, <3>4
  <2>4. Earlier(facts, k) # {}
    <3>1. SUFFICES ASSUME Earlier(facts, k) = {} PROVE FALSE
      OBVIOUS
    <3>2. StateOf(facts, k) = InitialState[k.aggregate]
      BY <3>1 DEF StateOf
    <3>3. k.aggregate \in Aggregates
      BY LifecycleAssumption
    <3> QED BY <3>2, <3>3 DEF InitialState, Terminal, Aggregates
  <2>5. /\ Latest(Earlier(facts, k)) \in Earlier(facts, k)
        /\ StateOf(facts, k) = facts[Latest(Earlier(facts, k))].to
    BY <2>4, StateWasRecorded DEF TypeOK
  <2>6. CASE ~SameAggregate(f, k)
    <3>1. Earlier(facts', k) = Earlier(facts, k)
      BY <2>3, <2>6
    <3> QED BY <2>2, <2>5, <3>1 DEF StateOf, Earlier
  <2>7. CASE SameAggregate(f, k)
    <3>1. Earlier(facts, f) = Earlier(facts, k) /\ f.aggregate = k.aggregate
      BY <2>7 DEF Earlier, SameAggregate
    <3>2. SeenTerminal(facts, f)
      BY <2>5, <3>1 DEF SeenTerminal
    <3>3. f.to = StateOf(facts, f) /\ StateOf(facts, f) = StateOf(facts, k)
      BY <2>1, <3>1, <3>2 DEF Projects, StateOf
    <3>4. /\ Latest(Earlier(facts', k)) \in Earlier(facts', k)
          /\ \A i \in Earlier(facts', k) : i <= Latest(Earlier(facts', k))
          /\ StateOf(facts', k) = facts'[Latest(Earlier(facts', k))].to
      BY <2>2, <2>3, <2>7, StateWasRecorded
    <3>5. Latest(Earlier(facts', k)) = n
      BY <2>2, <2>3, <2>7, <3>4 DEF Earlier
    <3> QED BY <2>2, <3>3, <3>4, <3>5
  <2> QED BY <2>6, <2>7
<1> QED BY <1>1, TypeHolds, PTL DEF Spec, TerminalStateImmutable

-----------------------------------------------------------------------------
\* ToolRuns: the supervisor and its target.

\* A call of execute_experiment beyond its refusal.
CallShape ==
    call \in [phase : {"validate", "poll", "kill", "exited", "stdout", "manifest",
                       "cleanup", "receipt", "return"},
              nonce : Nonce,
              status : {"EXECUTION_ERROR", "BLOCKED", "OUTPUT_LIMIT", "TIMEOUT",
                        "SUCCESS", "TARGET_NONZERO", "CLEANUP_FAILED"},
              why : {"none", "output", "time"}, digest : Int]

\* The target is a record of these fields.
TargetShape ==
    target = [state |-> target.state, code |-> target.code, out |-> target.out,
              child |-> target.child]

\* What the run left so far agrees with the digest taken, unless a process the
\* target left behind wrote in between.
StdoutKept ==
    target.child \/ (evidence.stdout # Absent /\ evidence.stdout.out = call.digest)

ManifestKept ==
    evidence.manifest # Absent /\ evidence.manifest.id = call.nonce

\* What is known in each phase of the call.
ToolInv ==
    /\ call = NoCall \/ CallShape
    /\ TargetShape /\ target.out \in Int
    /\ evidence = [stdout |-> evidence.stdout, manifest |-> evidence.manifest,
                   receipt |-> evidence.receipt]
    /\ target.state = "running" => call.phase \in {"poll", "kill"}
    /\ call.phase \in {"validate", "poll"} => call.why = "none" /\ ~Observed(call.status)
    /\ call.phase \in {"poll", "kill"} => target.state \in {"running", "exited"}
    /\ call.phase = "kill" => call.why # "none" /\ ~Observed(call.status)
    /\ call.phase = "exited" =>
          /\ target.state \in {"exited", "killed"}
          /\ ~Observed(call.status)
          /\ call.why = "none" => target.state = "exited"
    /\ (call.phase \in {"stdout", "manifest", "cleanup", "receipt", "return"}
          /\ Observed(call.status)) =>
          /\ target.state = "exited"
          /\ call.phase = "stdout" => target.child \/ call.digest = target.out
          /\ call.phase # "stdout" => StdoutKept
          /\ call.phase \in {"cleanup", "receipt", "return"} => ManifestKept
          /\ call.phase = "return" => evidence.receipt = Receipt

\* ToolInv holds of every reachable state.
LEMMA ToolInvHolds == ToolSpec => []ToolInv
<1>1. ToolInit => ToolInv
  BY DEF ToolInit, ToolInv, NoCall, NoTarget, TargetShape, Absent, Observed
<1>2. ToolInv /\ [ToolNext]_toolVars => ToolInv'
  <2> SUFFICES ASSUME ToolInv, [ToolNext]_toolVars PROVE ToolInv'
    OBVIOUS
  <2> USE DEF ToolInv, Phase, Goes, NoCall, CallShape, TargetShape
  <2>1. ASSUME NEW n \in Nonce, Execute(n) PROVE ToolInv'
    BY <2>1 DEF Execute, Observed
  <2>2. CASE Refused
    <3>1. call.phase = "validate" /\ CallShape
      BY <2>2 DEF Refused
    <3>2. /\ call'.phase = "return" /\ call'.status = "BLOCKED"
          /\ CallShape'
      BY <2>2, <3>1 DEF Refused
    <3> QED
      BY <2>2, <3>1, <3>2 DEF Refused, Observed
  <2>3. CASE Start
    <3>1. call.phase = "validate" /\ CallShape
      BY <2>3 DEF Start
    <3>2. /\ CallShape' /\ call'.phase = "poll" /\ call'.why = call.why
          /\ call'.status = call.status
          /\ target' = [state |-> "running", code |-> 0, out |-> 0, child |-> FALSE]
          /\ evidence' = evidence
      BY <2>3, <3>1 DEF Start, NoTarget
    <3> QED
      BY <3>1, <3>2 DEF TargetShape, Observed
  <2>4. CASE StartFails
    BY <2>4 DEF StartFails, Observed
  <2>5. CASE Poll
    <3>1. call.phase = "poll" /\ CallShape
      BY <2>5 DEF Poll
    <3>2. /\ CallShape'
          /\ \/ /\ call'.phase = "exited" /\ call'.why = call.why
                /\ call'.status = call.status /\ target.state # "running"
             \/ /\ call'.phase = "kill" /\ call'.why # "none"
                /\ ~Observed(call'.status)
      BY <2>5, <3>1 DEF Poll, Observed
    <3> QED
      BY <2>5, <3>1, <3>2 DEF Poll, Observed
  <2>6. CASE Kill
    <3>1. call.phase = "kill" /\ CallShape
      BY <2>6 DEF Kill
    <3>2. /\ CallShape' /\ call'.phase = "exited" /\ call'.why = call.why
          /\ call'.status = call.status /\ evidence' = evidence
      BY <2>6, <3>1 DEF Kill
    <3>3. /\ target'.state = (IF target.state = "running" THEN "killed" ELSE target.state)
      BY <2>6 DEF Kill, TargetShape
    <3>4. TargetShape' /\ target'.out \in Int
      BY <2>6 DEF Kill, TargetShape
    <3> QED
      BY <3>1, <3>2, <3>3, <3>4 DEF Observed
  <2>7. CASE Exited
    <3>1. call.phase = "exited" /\ CallShape
      BY <2>7 DEF Exited
    <3>2. /\ CallShape' /\ call'.phase = "stdout" /\ call'.digest = target.out
          /\ Observed(call'.status) => call.why = "none"
      BY <2>7, <3>1 DEF Exited, TargetShape, Observed
    <3> QED
      BY <2>7, <3>1, <3>2 DEF Exited, Observed
  <2>8. CASE KeepStdout
    <3>1. call.phase = "stdout" /\ CallShape
      BY <2>8 DEF KeepStdout
    <3>2. /\ CallShape' /\ call'.phase = "manifest" /\ call'.status = call.status
          /\ call'.digest = call.digest
      BY <2>8, <3>1 DEF KeepStdout
    <3>3. /\ target'.state = target.state /\ target'.child = target.child
      BY <2>8 DEF KeepStdout, TargetShape
    <3>4. TargetShape'
      BY <2>8 DEF KeepStdout, TargetShape
    <3>5. target'.out \in Int
      BY <2>8 DEF KeepStdout
    <3>6. evidence' = [stdout |-> [of |-> "run", out |-> target.out],
                       manifest |-> evidence.manifest, receipt |-> evidence.receipt]
      BY <2>8 DEF KeepStdout
    <3> QED
      BY <3>1, <3>2, <3>3, <3>4, <3>5, <3>6 DEF Observed, StdoutKept, Absent
  <2>9. CASE KeepManifest
    BY <2>9 DEF KeepManifest, Observed, StdoutKept, ManifestKept, Absent
  <2>10. CASE KeepFails
    <3>1. call.phase \in {"stdout", "manifest"} /\ CallShape
      BY <2>10 DEF KeepFails
    <3>2. /\ CallShape' /\ call'.phase = "cleanup" /\ ~Observed(call'.status)
      BY <2>10, <3>1 DEF KeepFails, Observed
    <3> QED
      BY <2>10, <3>1, <3>2 DEF KeepFails, Observed
  <2>11. CASE CleanUp
    <3>1. call.phase = "cleanup" /\ CallShape
      BY <2>11 DEF CleanUp
    <3>2. /\ CallShape' /\ call'.phase = "receipt" /\ call'.nonce = call.nonce
          /\ call'.digest = call.digest
          /\ Observed(call'.status) => Observed(call.status)
      BY <2>11, <3>1 DEF CleanUp, Observed
    <3> QED
      BY <2>11, <3>1, <3>2 DEF CleanUp, Observed, StdoutKept, ManifestKept, Absent
  <2>12. CASE KeepReceipt
    BY <2>12 DEF KeepReceipt, NoFiles, Receipt, Observed, StdoutKept, ManifestKept, Absent
  <2>13. CASE Return
    BY <2>13 DEF Return, NoTarget, TargetShape, Observed
  <2>14. CASE TimePasses
    BY <2>14 DEF TimePasses, Observed, StdoutKept, ManifestKept, Receipt
  <2>15. CASE TargetWrites
    BY <2>15 DEF TargetWrites, TargetShape, Observed, StdoutKept, ManifestKept, Receipt
  <2>16. CASE TargetExits
    <3>1. PICK code \in 0..1, child \in BOOLEAN :
             target' = [target EXCEPT !.state = "exited", !.code = code, !.child = child]
      BY <2>16 DEF TargetExits
    <3>2. target'.state = "exited"
      BY <3>1 DEF TargetShape
    <3>3. TargetShape' /\ target'.out \in Int
      BY <3>1 DEF TargetShape
    <3>4. target.state = "running" /\ UNCHANGED <<call, evidence>>
      BY <2>16 DEF TargetExits
    <3> QED
      BY <3>2, <3>3, <3>4 DEF Observed, StdoutKept, ManifestKept, Receipt
  <2>17. CASE CallerDies
    BY <2>17 DEF CallerDies, NoTarget, TargetShape, Observed
  <2>18. CASE UNCHANGED toolVars
    BY <2>18 DEF toolVars, Observed, StdoutKept, ManifestKept, Receipt
  <2> QED
    BY <2>1, <2>2, <2>3, <2>4, <2>5, <2>6, <2>7, <2>8, <2>9, <2>10, <2>11, <2>12,
       <2>13, <2>14, <2>15, <2>16, <2>17, <2>18 DEF ToolNext, Supervising
<1> QED
  BY <1>1, <1>2, PTL DEF ToolSpec

\* Observations come from a target that ended by itself and whose evidence is
\* accepted (runner/supervisor.py, runner/verification.py), for every number of
\* experiments, limit and death of the caller.
THEOREM ObservationsAreReal == ToolSpec => []ObservedRunsAreReal
<1>1. ToolInv => ObservedRunsAreReal
  BY DEF ToolInv, ObservedRunsAreReal, Phase, Verified, StdoutKept, ManifestKept,
         Receipt, Absent
<1> QED
  BY <1>1, ToolInvHolds, PTL

-----------------------------------------------------------------------------
\* Vault: putting raw bytes.

\* Where a put can stand.
PutPhases == {"idle", "link", "meta", "write", "move", "moved", "failed"}

\* A put at work has a media type.
PutsTyped ==
    /\ put \in [Putter -> [pc : PutPhases, type : MediaType \union {"none"}]]
    /\ file \in [Putter -> {"none", "temp", "meta", "gone"}]
    /\ \A p \in Putter : put[p].pc # "idle" => put[p].type \in MediaType

\* The blob is there before anything else is written.
BlobFirst ==
    /\ \A p \in Putter :
          put[p].pc \in {"meta", "write", "move", "moved", "failed"} => blob
    /\ receipts # {} => blob

\* As long as no two puts ran at once, there is one putter at work at most, and
\* the two files are where it left them.
OneAtATime ==
    /\ \A p, q \in Putter : put[p].pc # "idle" /\ put[q].pc # "idle" => p = q
    /\ \A p \in Putter :
          /\ put[p].pc = "write" => file[p] = "temp" /\ meta = "absent"
          /\ put[p].pc = "move" => temp = put[p].type /\ meta = "absent"
          /\ put[p].pc = "moved" => meta = put[p].type
          /\ put[p].pc # "failed"
          /\ file[p] # "none" => put[p].pc = "write"
    /\ \A r \in receipts : meta = r.type /\ r.type \in MediaType

\* What holds of every reachable state of the vault.
VaultInv == PutsTyped /\ BlobFirst /\ (~overlapped => OneAtATime)

\* VaultInv is inductive.
LEMMA VaultInvHolds == VaultSpec => []VaultInv
<1>1. VaultInit => VaultInv
  BY DEF VaultInit, VaultInv, PutsTyped, BlobFirst, OneAtATime, PutPhases
<1>2. VaultInv /\ [VaultNext]_vaultVars => VaultInv'
  <2> SUFFICES ASSUME VaultInv, [VaultNext]_vaultVars PROVE VaultInv'
    OBVIOUS
  <2> USE VaultAssumption DEF VaultInv, Puts
  <2>1. ASSUME NEW p \in Putter, NEW t \in MediaType, Put(p, t) PROVE VaultInv'
    <3>1. PutsTyped'
      BY <2>1 DEF Put, PutsTyped, PutPhases
    <3>2. BlobFirst'
      BY <2>1 DEF Put, PutsTyped, BlobFirst
    <3>3. ~overlapped' => OneAtATime'
      BY <2>1 DEF Put, PutsTyped, OneAtATime
    <3> QED
      BY <3>1, <3>2, <3>3
  <2>2. ASSUME NEW p \in Putter, Link(p) PROVE VaultInv'
    BY <2>2 DEF Link, To, PutsTyped, BlobFirst, OneAtATime, PutPhases
  <2>3. ASSUME NEW p \in Putter, MetaThere(p) PROVE VaultInv'
    BY <2>3 DEF MetaThere, To, PutsTyped, BlobFirst, OneAtATime, PutPhases
  <2>4. ASSUME NEW p \in Putter, OpenTemp(p) PROVE VaultInv'
    BY <2>4 DEF OpenTemp, To, PutsTyped, BlobFirst, OneAtATime, PutPhases
  <2>5. ASSUME NEW p \in Putter, WriteTemp(p) PROVE VaultInv'
    BY <2>5 DEF WriteTemp, To, PutsTyped, BlobFirst, OneAtATime, PutPhases
  <2>6. ASSUME NEW p \in Putter, MoveTemp(p) PROVE VaultInv'
    BY <2>6 DEF MoveTemp, To, PutsTyped, BlobFirst, OneAtATime, PutPhases
  <2>7. ASSUME NEW p \in Putter, MoveFails(p) PROVE VaultInv'
    BY <2>7 DEF MoveFails, To, PutsTyped, BlobFirst, OneAtATime, PutPhases
  <2>8. ASSUME NEW p \in Putter, UnlinkTemp(p) PROVE VaultInv'
    BY <2>8 DEF UnlinkTemp, To, PutsTyped, BlobFirst, OneAtATime, PutPhases
  <2>9. ASSUME NEW p \in Putter, PutterDies(p) PROVE VaultInv'
    BY <2>9 DEF PutterDies, To, PutsTyped, BlobFirst, OneAtATime, PutPhases
  <2>10. CASE UNCHANGED vaultVars
    BY <2>10 DEF vaultVars, PutsTyped, BlobFirst, OneAtATime
  <2> QED
    BY <2>1, <2>2, <2>3, <2>4, <2>5, <2>6, <2>7, <2>8, <2>9, <2>10 DEF VaultNext
<1> QED
  BY <1>1, <1>2, PTL DEF VaultSpec

\* A receipt is of bytes that are published (vault/raw_store.py), and of their own
\* media type unless two puts ever ran at once: for every number of putters, media
\* types and deaths.
THEOREM ReceiptsKeepTheirWord == VaultSpec => []ReceiptsAreBacked
<1>1. VaultInv => ReceiptsAreBacked
  BY DEF VaultInv, ReceiptsAreBacked, BlobFirst, OneAtATime
<1> QED
  BY <1>1, VaultInvHolds, PTL

-----------------------------------------------------------------------------
\* CrashHarness: a crash test of the store.

Recorded == {r \in RecordId : records[r] # NoPayload}

\* The head counts the records and names one of them.
HeadCounts ==
    /\ records \in [RecordId -> Payload \union {NoPayload}]
    /\ IsFiniteSet(Recorded) /\ headRow.version = Cardinality(Recorded)
    /\ HeadExists

\* A crash test that runs.
TestShape ==
    test \in [id : RecordId, payload : Payload, boundary : Boundaries,
              phase : {"look", "inserted", "committed", "restart"}, retry : BOOLEAN,
              crashed : BOOLEAN, accepted : BOOLEAN, start : Nat, known : BOOLEAN]

\* Where the record of the running test stands against its beginning.
Unwritten ==
    ~test.known /\ records[test.id] = NoPayload /\ headRow.version = test.start
Written ==
    /\ ~test.known /\ records[test.id] = test.payload
    /\ headRow.version = test.start + 1

\* The ways the first of the two calls can have ended.
WasKnown ==
    /\ test.known /\ records[test.id] = test.payload /\ headRow.version = test.start
    /\ ~test.crashed /\ ~test.accepted
DiedBefore ==
    Unwritten /\ test.crashed /\ ~test.accepted /\ test.boundary \notin AfterCommit
DiedAfter ==
    Written /\ test.crashed /\ test.accepted /\ test.boundary \in AfterCommit
Answered == Written /\ ~test.crashed /\ ~test.accepted

FirstCallEnded == WasKnown \/ DiedBefore \/ DiedAfter \/ Answered

\* Between the beginning of a test and the end of its first call.
FirstCall ==
    /\ ~test.crashed /\ ~test.accepted
    /\ test.phase = "look" =>
          /\ test.known = (records[test.id] # NoPayload)
          /\ headRow.version = test.start
    /\ test.phase = "inserted" => Unwritten
    /\ test.phase = "committed" => Written

\* The call that repeats the record after the restart: it inserts only what is not there.
SecondCall ==
    /\ test.phase = "look" => FirstCallEnded
    /\ test.phase = "inserted" => DiedBefore
    /\ test.phase = "committed" =>
          Written /\ test.crashed /\ ~test.accepted /\ test.boundary \notin AfterCommit

\* A running test, by its phase.
TestFits ==
    /\ TestShape /\ report.status = "none"
    /\ test.phase = "restart" => ~test.retry /\ FirstCallEnded
    /\ test.phase # "restart" /\ ~test.retry => FirstCall
    /\ test.phase # "restart" /\ test.retry => SecondCall

\* What holds of every reachable state of the harness.
CrashInv ==
    /\ HeadCounts
    /\ test = NoTest \/ TestFits
    /\ EachTestCommitsOnce

\* CrashInv is inductive.
LEMMA CrashInvHolds == CrashSpec => []CrashInv
<1>1. CrashInit => CrashInv
  <2> SUFFICES ASSUME CrashInit PROVE CrashInv
    OBVIOUS
  <2>1. Recorded = {}
    BY DEF CrashInit, Recorded
  <2> QED
    BY <2>1, FS_EmptySet DEF CrashInit, CrashInv, HeadCounts, EachTestCommitsOnce,
       HeadExists, NoReport
<1>2. CrashInv /\ [CrashNext]_crashVars => CrashInv'
  <2> SUFFICES ASSUME CrashInv, [CrashNext]_crashVars PROVE CrashInv'
    OBVIOUS
  <2>0. headRow.version \in Nat
    BY FS_CardinalityType DEF CrashInv, HeadCounts
  <2>00. test.phase \in {"look", "inserted", "committed", "restart"} => TestFits
    BY DEF CrashInv, NoTest
  <2>11. UNCHANGED <<records, headRow>> => HeadCounts'
    BY DEF CrashInv, HeadCounts, Recorded, HeadExists
  <2>1. ASSUME NEW r \in RecordId, NEW p \in Payload, NEW b \in Boundaries,
               BeginTest(r, p, b)
        PROVE CrashInv'
    <3>1. TestShape' /\ test'.phase = "look" /\ ~test'.retry /\ FirstCall'
      BY <2>0, <2>1 DEF BeginTest, TestShape, FirstCall
    <3> QED
      BY <2>1, <2>11, <3>1 DEF CrashInv, TestFits, BeginTest, NoReport, EachTestCommitsOnce
  <2>2. CASE Known
    <3>1. TestFits /\ test.phase = "look" /\ records[test.id] # NoPayload
      BY <2>00, <2>2 DEF Known
    <3>2. CASE records[test.id] # test.payload
      BY <2>2, <2>11, <3>1, <3>2 DEF CrashInv, Known, EachTestCommitsOnce, TestFits
    <3>3. CASE records[test.id] = test.payload /\ ~test.retry
      <4>1. /\ TestShape' /\ test' = [test EXCEPT !.phase = "restart"]
            /\ test'.phase = "restart" /\ test'.retry = test.retry
            /\ test'.known = test.known /\ test'.id = test.id
            /\ test'.payload = test.payload /\ test'.start = test.start
            /\ test'.crashed = test.crashed /\ test'.accepted = test.accepted
        BY <2>2, <3>1, <3>3 DEF Known, Returned, TestFits, TestShape
      <4>2. WasKnown
        BY <3>1, <3>3 DEF TestFits, FirstCall, WasKnown
      <4>3. WasKnown' /\ report' = report
        BY <2>2, <3>3, <4>1, <4>2 DEF Known, Returned, WasKnown
      <4> QED
        BY <2>2, <2>11, <3>1, <3>3, <4>1, <4>3
           DEF CrashInv, TestFits, Known, FirstCallEnded, EachTestCommitsOnce
    <3>4. CASE records[test.id] = test.payload /\ test.retry
      <4>1. /\ test' = NoTest /\ UNCHANGED <<records, headRow>>
            /\ report'.status = (IF test.accepted THEN "RECOVERED_CLEAN"
                                                 ELSE "RECOVERED_ROLLEDBACK")
            /\ report'.already = TRUE /\ report'.id = test.id
            /\ report'.payload = test.payload /\ report'.boundary = test.boundary
            /\ report'.start = test.start /\ report'.crashed = test.crashed
            /\ report'.known = test.known
        BY <2>2, <3>4 DEF Known, Returned
      <4>2. WasKnown \/ DiedAfter \/ Answered
        BY <3>1, <3>4 DEF TestFits, SecondCall, FirstCallEnded, DiedBefore, Unwritten
      <4>3. HeadCounts
        BY DEF CrashInv
      <4>4. /\ records'[report'.id] = report'.payload
            /\ headRow'.version = Cardinality({r \in RecordId : records'[r] # NoPayload})
        BY <3>4, <4>1, <4>3 DEF HeadCounts, Recorded
      <4>5. headRow'.version = report'.start + (IF report'.known THEN 0 ELSE 1)
        BY <4>1, <4>2, <2>0 DEF WasKnown, DiedAfter, Answered, Written
      <4>6. /\ report'.status = "RECOVERED_CLEAN" => ~report'.known
            /\ report'.crashed => report'.boundary \in AfterCommit
        BY <4>1, <4>2 DEF WasKnown, DiedAfter, Answered, Written
      <4> QED
        BY <2>11, <4>1, <4>3, <4>4, <4>5, <4>6 DEF CrashInv, EachTestCommitsOnce
    <3> QED
      BY <3>2, <3>3, <3>4, <3>1 DEF TestFits, TestShape
  <2>3. CASE DieBefore
    <3>1. TestFits /\ test.phase = "look" /\ records[test.id] = NoPayload
      BY <2>00, <2>3 DEF DieBefore
    <3>2. ~test.retry /\ test.boundary = "BEFORE_DURABLE_ACCEPTANCE"
      BY <2>3, <3>1 DEF DieBefore, Point, TestFits, TestShape
    <3>3. /\ TestShape' /\ test'.phase = "restart" /\ ~test'.retry
          /\ test'.known = test.known /\ test'.id = test.id
          /\ test'.start = test.start /\ test'.boundary = test.boundary
          /\ test'.crashed /\ ~test'.accepted
      BY <2>3, <3>1, <3>2 DEF DieBefore, Die, TestFits, TestShape
    <3>4. DiedBefore'
      BY <2>3, <3>1, <3>2, <3>3
         DEF DieBefore, Die, DiedBefore, Unwritten, TestFits, FirstCall, AfterCommit
    <3> QED
      BY <2>3, <2>11, <3>1, <3>3, <3>4
         DEF CrashInv, TestFits, DieBefore, Die, FirstCallEnded, EachTestCommitsOnce
  <2>4. CASE Insert
    <3>1. TestFits /\ test.phase = "look" /\ records[test.id] = NoPayload
      BY <2>00, <2>4 DEF Insert
    <3>2. /\ TestShape' /\ test'.phase = "inserted" /\ test'.retry = test.retry
          /\ test'.known = test.known /\ test'.id = test.id
          /\ test'.start = test.start /\ test'.boundary = test.boundary
          /\ test'.crashed = test.crashed /\ test'.accepted = test.accepted
      BY <2>4, <3>1 DEF Insert, TestFits, TestShape
    <3>3. IF test.retry THEN DiedBefore ELSE FirstCall
      BY <3>1, CrashAssumption DEF TestFits, SecondCall, FirstCallEnded, WasKnown, DiedAfter,
         Answered, Written, TestShape, NoPayload
    <3>4. IF test'.retry THEN DiedBefore' ELSE FirstCall'
      BY <2>4, <3>1, <3>2, <3>3 DEF Insert, DiedBefore, FirstCall, Unwritten
    <3> QED
      BY <2>4, <2>11, <3>1, <3>2, <3>4
         DEF CrashInv, TestFits, Insert, SecondCall, EachTestCommitsOnce
  <2>5. CASE DieDuring
    <3>1. TestFits /\ test.phase = "inserted"
      BY <2>00, <2>5 DEF DieDuring
    <3>2. ~test.retry /\ test.boundary = "DURING_BOUNDARY"
      BY <2>5, <3>1 DEF DieDuring, Point, TestFits, TestShape
    <3>3. /\ TestShape' /\ test'.phase = "restart" /\ ~test'.retry
          /\ test'.known = test.known /\ test'.id = test.id
          /\ test'.start = test.start /\ test'.boundary = test.boundary
          /\ test'.crashed /\ ~test'.accepted
      BY <2>5, <3>1, <3>2 DEF DieDuring, Die, TestFits, TestShape
    <3>4. DiedBefore'
      BY <2>5, <3>1, <3>2, <3>3
         DEF DieDuring, Die, DiedBefore, Unwritten, TestFits, FirstCall, AfterCommit
    <3> QED
      BY <2>5, <2>11, <3>1, <3>3, <3>4
         DEF CrashInv, TestFits, DieDuring, Die, FirstCallEnded, EachTestCommitsOnce
  <2>6. CASE CommitRecord
    <3>1. TestFits /\ test.phase = "inserted" /\ Point # "DURING_BOUNDARY"
      BY <2>00, <2>6 DEF CommitRecord
    <3>2. /\ TestShape' /\ test'.phase = "committed" /\ test'.retry = test.retry
          /\ test'.known = test.known /\ test'.id = test.id
          /\ test'.payload = test.payload
          /\ test'.start = test.start /\ test'.boundary = test.boundary
          /\ test'.crashed = test.crashed /\ test'.accepted = test.accepted
      BY <2>6, <3>1 DEF CommitRecord, TestFits, TestShape
    <3>3. /\ Unwritten
          /\ IF test.retry THEN DiedBefore ELSE ~test.crashed /\ ~test.accepted
      BY <3>1 DEF TestFits, SecondCall, FirstCall, DiedBefore, TestShape
    <3>4. /\ test.id \in RecordId /\ test.payload \in Payload
          /\ test.payload # NoPayload
      BY <3>1, CrashAssumption DEF TestFits, TestShape, NoPayload
    <3>5. HeadCounts'
      <4>1. /\ records' = [records EXCEPT ![test.id] = test.payload]
            /\ headRow' = [last |-> test.id, version |-> headRow.version + 1]
        BY <2>6 DEF CommitRecord
      <4>2. records \in [RecordId -> Payload \union {NoPayload}]
        BY DEF CrashInv, HeadCounts
      <4>3. Recorded' = Recorded \union {test.id} /\ test.id \notin Recorded
        BY <3>3, <3>4, <4>1, <4>2 DEF Recorded, Unwritten
      <4>4. IsFiniteSet(Recorded') /\ Cardinality(Recorded') = Cardinality(Recorded) + 1
        BY <4>3, FS_AddElement DEF CrashInv, HeadCounts
      <4>5. headRow'.version = Cardinality(Recorded)'
        BY <4>1, <4>4 DEF CrashInv, HeadCounts
      <4>6. HeadExists' /\ (records \in [RecordId -> Payload \union {NoPayload}])'
        BY <3>4, <4>1, <4>2 DEF HeadExists
      <4> QED
        BY <4>4, <4>5, <4>6 DEF HeadCounts
    <3>6. Written'
      BY <2>6, <3>2, <3>3, <3>4 DEF CommitRecord, Written, Unwritten, CrashInv, HeadCounts
    <3> QED
      BY <2>6, <3>1, <3>2, <3>3, <3>5, <3>6 DEF CrashInv, TestFits, CommitRecord, DiedBefore,
         FirstCall, SecondCall, EachTestCommitsOnce
  <2>7. CASE DieAfter
    <3>1. TestFits /\ test.phase = "committed"
      BY <2>00, <2>7 DEF DieAfter
    <3>2. ~test.retry /\ test.boundary \in AfterCommit
      BY <2>7, <3>1 DEF DieAfter, Point, TestFits, TestShape, AfterCommit
    <3>3. /\ TestShape' /\ test'.phase = "restart" /\ ~test'.retry
          /\ test'.known = test.known /\ test'.id = test.id
          /\ test'.payload = test.payload
          /\ test'.start = test.start /\ test'.boundary = test.boundary
          /\ test'.crashed /\ test'.accepted
      BY <2>7, <3>1, <3>2 DEF DieAfter, Die, TestFits, TestShape
    <3>4. DiedAfter'
      BY <2>7, <3>1, <3>2, <3>3 DEF DieAfter, Die, DiedAfter, Written, TestFits, FirstCall
    <3> QED
      BY <2>7, <2>11, <3>1, <3>3, <3>4
         DEF CrashInv, TestFits, DieAfter, Die, FirstCallEnded, EachTestCommitsOnce
  <2>8. CASE Answer
    <3>1. TestFits /\ test.phase = "committed"
      BY <2>00, <2>8 DEF Answer
    <3>2. CASE ~test.retry
      <4>1. /\ TestShape' /\ test'.phase = "restart" /\ ~test'.retry
            /\ test'.known = test.known /\ test'.id = test.id
            /\ test'.payload = test.payload /\ test'.start = test.start
            /\ test'.crashed = test.crashed /\ test'.accepted = test.accepted
        BY <2>8, <3>1, <3>2 DEF Answer, Returned, TestFits, TestShape
      <4>2. Answered' /\ report' = report
        BY <2>8, <3>1, <3>2, <4>1 DEF Answer, Returned, Answered, Written, TestFits, FirstCall
      <4> QED
        BY <2>8, <2>11, <3>1, <4>1, <4>2
           DEF CrashInv, TestFits, Answer, FirstCallEnded, EachTestCommitsOnce
    <3>3. CASE test.retry
      <4>1. /\ test' = NoTest /\ UNCHANGED <<records, headRow>>
            /\ report'.status = (IF test.accepted THEN "RECOVERED_CLEAN"
                                                 ELSE "RECOVERED_ROLLEDBACK")
            /\ report'.already = FALSE /\ report'.id = test.id
            /\ report'.payload = test.payload /\ report'.boundary = test.boundary
            /\ report'.start = test.start /\ report'.crashed = test.crashed
            /\ report'.known = test.known
        BY <2>8, <3>3 DEF Answer, Returned
      <4>2. Written /\ ~test.accepted
        BY <3>1, <3>3 DEF TestFits, SecondCall
      <4> QED
        BY <2>11, <4>1, <4>2 DEF CrashInv, EachTestCommitsOnce, Written, HeadCounts, Recorded
    <3> QED
      BY <3>1, <3>2, <3>3 DEF TestFits, TestShape
  <2>9. CASE Restart
    <3>1. TestFits /\ test.phase = "restart" /\ HeadExists
      BY <2>00, <2>9 DEF Restart, CrashInv, HeadCounts
    <3>2. /\ TestShape' /\ test'.phase = "look" /\ test'.retry
          /\ test'.known = test.known /\ test'.id = test.id
          /\ test'.payload = test.payload /\ test'.boundary = test.boundary
          /\ test'.start = test.start
          /\ test'.crashed = test.crashed /\ test'.accepted = test.accepted
          /\ UNCHANGED <<records, headRow, report>>
      BY <2>9, <3>1 DEF Restart, TestFits, TestShape
    <3>3. FirstCallEnded'
      BY <3>1, <3>2 DEF TestFits, FirstCallEnded, WasKnown, DiedBefore, DiedAfter,
         Answered, Unwritten, Written
    <3> QED
      BY <2>11, <3>1, <3>2, <3>3 DEF CrashInv, TestFits, SecondCall, EachTestCommitsOnce
  <2>10. CASE UNCHANGED crashVars
    BY <2>10, <2>11 DEF CrashInv, crashVars, TestFits, TestShape, FirstCall,
       SecondCall, FirstCallEnded, WasKnown, DiedBefore, DiedAfter, Answered,
       Unwritten, Written, EachTestCommitsOnce
  <2> QED
    BY <2>1, <2>2, <2>3, <2>4, <2>5, <2>6, <2>7, <2>8, <2>9, <2>10 DEF CrashNext
<1> QED
  BY <1>1, <1>2, PTL DEF CrashSpec

\* Whatever crash point a test used, its record is committed once (deepen/crash.py):
\* for every number of records, payloads and tests.
THEOREM TestsCommitOnce == CrashSpec => []EachTestCommitsOnce
  BY CrashInvHolds, PTL DEF CrashInv

-----------------------------------------------------------------------------
\* Schedules: drawing and replaying interleavings.

\* A point of a schedule, and an entry of the log of its replay.
DrawnPoint == [actor : Actor, step : Nat]
DrawnPoints == Seq(DrawnPoint)
LogEntry == [point : DrawnPoint, race : BOOLEAN]

\* Where a schedule has the steps of an actor.
StepsOf(points, a) == {i \in DOMAIN points : points[i].actor = a}

\* The part of a schedule drawn so far: each actor's steps in its own order.
Begins(points) ==
    /\ points \in DrawnPoints
    /\ \A i \in DOMAIN points : points[i].step =
          Cardinality({j \in 1..i : points[j].actor = points[i].actor})
    /\ \A a \in Actor :
          IsFiniteSet(StepsOf(points, a)) /\ Cardinality(StepsOf(points, a)) <= Len(Locations[a])

\* A log of the points of a schedule from its first, and whether one showed a race.
LogOf(log, points, race) ==
    /\ log \in Seq(LogEntry)
    /\ Len(log) <= Len(points)
    /\ \A i \in DOMAIN log : log[i].point = points[i]
    /\ race = (\E i \in DOMAIN log : log[i].race)

\* The result of a whole replay of the schedule of a seed.
ResultOf(r, seed) ==
    /\ r.seed = seed /\ seed \in DOMAIN drawn
    /\ LogOf(r.log, drawn[seed], r.race) /\ Len(r.log) = Len(drawn[seed])

\* What holds of every reachable state of the replay engine.
ScheduleInv ==
    /\ drawing = [seed |-> drawing.seed, points |-> drawing.points]
    /\ Begins(drawing.points)
    /\ drawing # NoDrawing => drawing.seed \notin DOMAIN drawn
    /\ \A s \in DOMAIN drawn : drawn[s] \in DrawnPoints /\ Interleaves(drawn[s])
    /\ \A i \in DOMAIN cache : ResultOf(cache[i], cache[i].seed)
    /\ replaying # NoReplay =>
          /\ replaying = [seed |-> replaying.seed, at |-> replaying.at, race |-> replaying.race]
          /\ replaying.seed \in DOMAIN drawn
          /\ Len(ran) = replaying.at
          /\ LogOf(ran, drawn[replaying.seed], replaying.race)
    /\ answered # NoAnswer => ResultOf(answered.result, answered.of)

\* A schedule begins with no point drawn.
LEMMA NothingDrawn == Begins(<< >>)
<1>1. \A a \in Actor : StepsOf(<< >>, a) = {} /\ Len(Locations[a]) \in Nat
  BY ScheduleAssumption DEF StepsOf
<1>2. << >> \in DrawnPoints /\ DOMAIN << >> = {} /\ Len(<< >>) = 0
  BY DEF DrawnPoints
<1>3. \A a \in Actor : IsFiniteSet(StepsOf(<< >>, a)) /\ Cardinality(StepsOf(<< >>, a)) = 0
  BY <1>1, FS_EmptySet
<1> QED BY <1>1, <1>2, <1>3 DEF Begins

\* Drawing one more point keeps the order of every actor.
LEMMA PointDrawn ==
    ASSUME NEW points, Begins(points), NEW a \in Actor, NEW s,
           s = Cardinality(StepsOf(points, a)) + 1, s \in DOMAIN Locations[a]
    PROVE  Begins(Append(points, [actor |-> a, step |-> s]))
<1> DEFINE p == [actor |-> a, step |-> s]
<1>0. PICK n \in Nat : n = Len(points)
  BY DEF Begins, DrawnPoints
<1>1. /\ s \in Nat /\ Len(Locations[a]) \in Nat /\ s <= Len(Locations[a])
      /\ Cardinality(StepsOf(points, a)) \in Nat
  BY FS_CardinalityType, ScheduleAssumption DEF Begins
<1>2. PICK q : q = Append(points, p)
  OBVIOUS
<1>3. /\ q \in DrawnPoints /\ DOMAIN q = 1..(n + 1) /\ DOMAIN points = 1..n
      /\ q[n + 1] = p /\ \A i \in 1..n : q[i] = points[i]
  <2>1. p \in DrawnPoint
    BY <1>1 DEF DrawnPoint
  <2> HIDE DEF p
  <2> QED BY <1>0, <1>2, <2>1 DEF DrawnPoints, Begins
<1> HIDE DEF p
<1>4. p.actor = a /\ p.step = s
  BY DEF p
<1>5. StepsOf(q, a) = StepsOf(points, a) \cup {n + 1} /\ n + 1 \notin StepsOf(points, a)
  BY <1>0, <1>3, <1>4 DEF StepsOf
<1>6. IsFiniteSet(StepsOf(q, a)) /\ Cardinality(StepsOf(q, a)) = s
  <2>1. IsFiniteSet(StepsOf(points, a))
    BY DEF Begins
  <2> QED BY <1>5, <2>1, FS_AddElement
<1>7. \A b \in Actor : b # a => StepsOf(q, b) = StepsOf(points, b)
  BY <1>0, <1>3, <1>4 DEF StepsOf
<1>8. ASSUME NEW i \in 1..(n + 1)
      PROVE  q[i].step = Cardinality({j \in 1..i : q[j].actor = q[i].actor})
  <2>1. CASE i = n + 1
    <3>1. {j \in 1..i : q[j].actor = q[i].actor} = StepsOf(q, a)
      BY <1>3, <1>4, <2>1 DEF StepsOf
    <3> QED BY <1>3, <1>4, <1>6, <2>1, <3>1
  <2>2. CASE i # n + 1
    <3>1. i \in 1..n /\ \A j \in 1..i : q[j] = points[j]
      BY <1>0, <1>3, <2>2
    <3>2. {j \in 1..i : q[j].actor = q[i].actor}
            = {j \in 1..i : points[j].actor = points[i].actor}
      BY <3>1
    <3> QED BY <1>3, <3>1, <3>2 DEF Begins
  <2> QED BY <2>1, <2>2
<1>9. ASSUME NEW b \in Actor
      PROVE  IsFiniteSet(StepsOf(q, b)) /\ Cardinality(StepsOf(q, b)) <= Len(Locations[b])
  BY <1>1, <1>6, <1>7 DEF Begins
<1>10. Begins(q)
  BY <1>3, <1>8, <1>9 DEF Begins
<1> QED
  BY <1>2, <1>10 DEF p

\* ScheduleInv is inductive.
LEMMA ScheduleInvHolds == ScheduleSpec => []ScheduleInv
<1>1. ScheduleInit => ScheduleInv
  <2> SUFFICES ASSUME ScheduleInit PROVE ScheduleInv
    OBVIOUS
  <2> QED BY NothingDrawn DEF ScheduleInit, ScheduleInv, NoDrawing
<1>2. ScheduleInv /\ [ScheduleNext]_scheduleVars => ScheduleInv'
  <2> SUFFICES ASSUME ScheduleInv, [ScheduleNext]_scheduleVars PROVE ScheduleInv'
    OBVIOUS
  <2>1. ASSUME NEW seed \in Seed, Generate(seed) PROVE ScheduleInv'
    BY NothingDrawn, <2>1 DEF Generate, ScheduleInv, ResultOf
  <2>2. ASSUME NEW seed \in Seed, ReplayCached(seed) PROVE ScheduleInv'
    BY <2>2 DEF ReplayCached, ScheduleInv, ResultOf
  <2>3. ASSUME NEW seed \in Seed, BeginReplay(seed) PROVE ScheduleInv'
    <3>1. LogOf(<< >>, drawn[seed], FALSE)
      BY <2>3 DEF BeginReplay, ScheduleInv, LogOf, DrawnPoints
    <3>2. /\ replaying' = [seed |-> seed, at |-> 0, race |-> FALSE] /\ seed \in DOMAIN drawn
          /\ ran' = << >> /\ answered' = NoAnswer
          /\ UNCHANGED <<drawn, drawing, cache>>
      BY <2>3 DEF BeginReplay
    <3> QED BY <3>1, <3>2 DEF ScheduleInv, ResultOf
  <2>4. ASSUME NEW a \in Actor, DrawPoint(a) PROVE ScheduleInv'
    <3>1. StepOf(a) = Cardinality(StepsOf(drawing.points, a)) + 1
      BY DEF StepOf, StepsOf
    <3>2. Begins(Append(drawing.points, [actor |-> a, step |-> StepOf(a)]))
      BY <2>4, <3>1, PointDrawn DEF DrawPoint, ScheduleInv
    <3>3. drawing' = [seed |-> drawing.seed,
                      points |-> Append(drawing.points, [actor |-> a, step |-> StepOf(a)])]
      BY <2>4 DEF DrawPoint, ScheduleInv
    <3> QED BY <2>4, <3>2, <3>3 DEF DrawPoint, ScheduleInv, ResultOf
  <2>5. CASE Drawn
    <3>1. Interleaves(drawing.points)
      <4>1. ASSUME NEW a \in Actor
            PROVE  Cardinality(StepsOf(drawing.points, a)) = Len(Locations[a])
        <5>1. Cardinality(StepsOf(drawing.points, a)) \in Nat /\ Len(Locations[a]) \in Nat
              /\ DOMAIN Locations[a] = 1..Len(Locations[a])
              /\ Cardinality(StepsOf(drawing.points, a)) <= Len(Locations[a])
          BY FS_CardinalityType, ScheduleAssumption DEF ScheduleInv, Begins
        <5>2. Cardinality(StepsOf(drawing.points, a)) + 1 \notin DOMAIN Locations[a]
          BY <2>5 DEF Drawn, StepOf, StepsOf
        <5> QED BY <5>1, <5>2
      <4> QED BY <4>1 DEF ScheduleInv, Begins, Interleaves, StepsOf
    <3>2. /\ drawing.seed \notin DOMAIN drawn
          /\ DOMAIN drawn' = DOMAIN drawn \cup {drawing.seed}
          /\ drawn'[drawing.seed] = drawing.points
          /\ \A s \in DOMAIN drawn : drawn'[s] = drawn[s]
      BY <2>5 DEF Drawn, ScheduleInv
    <3>3. UNCHANGED <<cache, replaying, answered, ran>> /\ drawing' = NoDrawing
      BY <2>5 DEF Drawn
    <3>4. \A s \in DOMAIN drawn' : drawn'[s] \in DrawnPoints /\ Interleaves(drawn'[s])
      BY <3>1, <3>2 DEF ScheduleInv, Begins
    <3>5. \A r, s : ResultOf(r, s) => ResultOf(r, s)'
      BY <3>2 DEF ResultOf
    <3>6. replaying.seed \in DOMAIN drawn =>
             drawn'[replaying.seed] = drawn[replaying.seed] /\ replaying.seed \in DOMAIN drawn'
      BY <3>2
    <3>7. \A i \in DOMAIN cache : ResultOf(cache[i], cache[i].seed)'
      BY <3>3, <3>5 DEF ScheduleInv
    <3>8. answered # NoAnswer => ResultOf(answered.result, answered.of)'
      BY <3>3, <3>5 DEF ScheduleInv
    <3> QED BY NothingDrawn, <3>3, <3>4, <3>6, <3>7, <3>8 DEF ScheduleInv, NoDrawing
  <2>6. ASSUME NEW race \in BOOLEAN, RunPoint(race) PROVE ScheduleInv'
    <3>1. PICK s, at, r, points :
             /\ replaying = [seed |-> s, at |-> at, race |-> r] /\ points = drawn[s]
      BY <2>6 DEF RunPoint, ScheduleInv
    <3>2. /\ replaying # NoReplay /\ s \in DOMAIN drawn /\ points \in DrawnPoints
          /\ at = Len(ran) /\ LogOf(ran, points, r) /\ at < Len(points)
          /\ ran' = Append(ran, [point |-> points[at + 1], race |-> race])
          /\ UNCHANGED <<drawn, drawing, cache, answered>>
      BY <2>6, <3>1 DEF RunPoint, ScheduleInv
    <3>3. replaying' = [seed |-> s, at |-> at + 1, race |-> r \/ race]
      BY <2>6, <3>1 DEF RunPoint
    <3>4. points[at + 1] \in DrawnPoint
      <4>1. at \in Nat /\ Len(points) \in Nat
        BY <3>2 DEF LogOf, DrawnPoints
      <4>2. at + 1 \in 1..Len(points)
        BY <3>2, <4>1
      <4>3. \A i \in 1..Len(points) : points[i] \in DrawnPoint
        BY <3>2 DEF DrawnPoints
      <4> QED BY <4>2, <4>3
    <3>5. PICK e \in LogEntry :
             e = [point |-> points[at + 1], race |-> race]
      BY <3>4 DEF LogEntry
    <3>6. e.point = points[at + 1] /\ e.race = race
      BY <3>5
    <3>7. /\ ran' = Append(ran, e) /\ Len(ran') = at + 1 /\ at \in Nat
          /\ DOMAIN ran' = 1..(at + 1) /\ DOMAIN ran = 1..at
          /\ ran'[at + 1] = e /\ \A i \in 1..at : ran'[i] = ran[i]
          /\ ran' \in Seq(LogEntry)
      BY <3>2, <3>5 DEF LogOf
    <3>8. (r \/ race) = (\E i \in DOMAIN ran' : ran'[i].race)
      <4>1. r = (\E i \in 1..at : ran[i].race)
        BY <3>2, <3>7 DEF LogOf
      <4>2. (\E i \in 1..at : ran[i].race) = (\E i \in 1..at : ran'[i].race)
        BY <3>7
      <4>3. (\E i \in 1..(at + 1) : ran'[i].race) =
               ((\E i \in 1..at : ran'[i].race) \/ ran'[at + 1].race)
        <5>1. 1..(at + 1) = (1..at) \cup {at + 1}
          BY <3>7
        <5> QED BY <5>1, Zenon
      <4> QED BY <3>6, <3>7, <4>1, <4>2, <4>3
    <3>9. LogOf(ran', points, r \/ race)
      <4>1. Len(points) \in Nat /\ Len(ran') <= Len(points)
        BY <3>2, <3>7 DEF DrawnPoints
      <4>2. \A i \in 1..at : ran'[i].point = points[i]
        BY <3>2, <3>7 DEF LogOf
      <4>3. \A i \in 1..(at + 1) : ran'[i].point = points[i]
        BY <3>6, <3>7, <4>2
      <4>4. \A i \in DOMAIN ran' : ran'[i].point = points[i]
        BY <3>7, <4>3
      <4> QED BY <3>7, <3>8, <4>1, <4>4, Zenon DEF LogOf
    <3> QED BY <3>1, <3>2, <3>3, <3>7, <3>9 DEF ScheduleInv, ResultOf
  <2>7. CASE RunnerRaises
    BY <2>7 DEF RunnerRaises, ScheduleInv, ResultOf
  <2>8. CASE EndReplay
    BY <2>8 DEF EndReplay, ScheduleInv, ResultOf
  <2>9. CASE UNCHANGED scheduleVars
    BY <2>9 DEF scheduleVars, ScheduleInv, ResultOf
  <2> QED
    BY <2>1, <2>2, <2>3, <2>4, <2>5, <2>6, <2>7, <2>8, <2>9 DEF ScheduleNext
<1> QED
  BY <1>1, <1>2, PTL DEF ScheduleSpec

\* A replay, run or cached, speaks of the schedule it was asked for, which is an
\* interleaving of all steps (deepen/concurrency.py): for every set of seeds,
\* actors and locations.
THEOREM ReplaysSpeakOfTheirs == ScheduleSpec => []ReplaysAreOfTheirSchedule
<1>1. ScheduleInv => ReplaysAreOfTheirSchedule
  <2> SUFFICES ASSUME ScheduleInv, answered # NoAnswer
               PROVE  /\ answered.result.seed = answered.of
                      /\ [i \in DOMAIN answered.result.log |-> answered.result.log[i].point]
                            = drawn[answered.of]
                      /\ Interleaves(drawn[answered.of])
                      /\ answered.result.race =
                            (\E i \in DOMAIN answered.result.log : answered.result.log[i].race)
    BY DEF ReplaysAreOfTheirSchedule
  <2>1. ResultOf(answered.result, answered.of) /\ drawn[answered.of] \in DrawnPoints
    BY DEF ScheduleInv, ResultOf
  <2>2. PICK n \in Nat : /\ DOMAIN answered.result.log = 1..n
                         /\ DOMAIN drawn[answered.of] = 1..n
    BY <2>1 DEF ResultOf, LogOf, DrawnPoints
  <2>3. [i \in DOMAIN answered.result.log |-> answered.result.log[i].point]
           = [i \in 1..n |-> drawn[answered.of][i]]
    BY <2>1, <2>2 DEF ResultOf, LogOf
  <2>4. drawn[answered.of] = [i \in 1..n |-> drawn[answered.of][i]]
    BY <2>1, <2>2 DEF DrawnPoints
  <2> QED BY <2>1, <2>3, <2>4 DEF ScheduleInv, ResultOf, LogOf
<1> QED
  BY <1>1, ScheduleInvHolds, PTL

-----------------------------------------------------------------------------
\* StageAdmission: what the store admits for a stage.

\* An object is in one commit.
OnlyOnce == \A n, m \in DOMAIN chain : n # m => chain[n] \cap chain[m] = {}

\* What evidence, a result and a discovery name is accepted before them.
NamesEarlier ==
    \A n \in DOMAIN chain : \A o \in chain[n] :
        /\ o.kind = "evidence" =>
              EvidenceAdmitted(o) /\ o.assignment \in AcceptedBy(n - 1)
        /\ o.kind = "result" => ResultAdmitted(o) /\ o.evidence \in AcceptedBy(n - 1)
        /\ o.kind = "discovery" =>
              \A s \in o.after : s.kind = "checkpoint" /\ s \in AcceptedBy(n - 1)
        /\ o.kind = "lane" => o.cut \in Nat

\* A commit of AdmissionNext, and what it cannot hold.
Sent(new) ==
    /\ chain' = Append(chain, new)
    /\ new \cap Accepted = {} /\ IsFiniteSet(new)
    /\ \A o \in new : Admitted(o, new)
    /\ \A o \in new :
          /\ o.kind = "evidence" => o.assignment \in Accepted
          /\ o.kind = "result" => o.evidence \in Accepted
          /\ o.kind = "discovery" =>
                \A s \in o.after : s.kind = "checkpoint" /\ s \in Accepted
          /\ o.kind = "lane" => o.cut = Len(chain)
    /\ chain # << >> /\ OfKind(Accepted, "stage") = {}
    /\ (\E o \in new : o.kind = "stage") =>
          \E o \in StageCompletions : new = {o}
    /\ (\E o \in new : o.kind = "checkpoint") => \A o \in new : o.kind # "result"

\* Every step but the first sends a commit.
LEMMA StepsSend ==
    ASSUME AdmissionNext, chain # << >>
    PROVE  \E new : Sent(new)
<1>1. CASE SendAssignment
  <2>1. PICK x \in Assignments : Commit({x})
    BY <1>1 DEF SendAssignment
  <2>2. x.kind = "assignment"
    BY DEF Assignments
  <2> QED BY <1>1, <2>1, <2>2, FS_Singleton DEF Commit, Sent, SendAssignment, Room
<1>2. CASE IngestEvidence
  <2>1. PICK x \in Evidences : Commit({x})
    BY <1>2 DEF IngestEvidence
  <2>2. x.kind = "evidence" /\ x.assignment \in Accepted
    BY DEF Evidences, OfKind
  <2> QED BY <1>2, <2>1, <2>2, FS_Singleton DEF Commit, Sent, IngestEvidence, Room
<1>3. CASE SendResultAlone
  <2>1. PICK x \in Results : Commit({x})
    BY <1>3 DEF SendResultAlone
  <2>2. x.kind = "result" /\ x.evidence \in Accepted
    BY DEF Results, OfKind
  <2> QED BY <1>3, <2>1, <2>2, FS_Singleton DEF Commit, Sent, SendResultAlone, Room
<1>4. CASE SendExecution
  <2>1. PICK x \in Executions : Commit({x})
    BY <1>4 DEF SendExecution
  <2>2. x.kind = "execution"
    BY DEF Executions
  <2> QED BY <1>4, <2>1, <2>2, FS_Singleton DEF Commit, Sent, SendExecution, Room
<1>5. CASE SendDiscovery
  <2>1. PICK t \in Origin[StageKey], i \in 1..MaxFindings,
             result \in AtMostOne(OfKind(Accepted, "result")),
             after \in AtMostOne(OfKind(Accepted, "checkpoint")) :
                Commit({Discovered(t, result, i, after)})
    BY <1>5 DEF SendDiscovery
  <2>2. PICK d : d = Discovered(t, result, i, after)
    OBVIOUS
  <2>3. d.kind = "discovery" /\ d.after = after
    BY <2>2 DEF Discovered
  <2>4. \A s \in after : s.kind = "checkpoint" /\ s \in Accepted
    BY <2>1 DEF AtMostOne, OfKind
  <2> QED BY <1>5, <2>1, <2>2, <2>3, <2>4, FS_Singleton DEF Commit, Sent, SendDiscovery, Room
<1>6. CASE SendCompletedResult
  <2>1. PICK r \in Results : \E k \in LaneCompletions({r}) : Commit({r, k})
    BY <1>6 DEF SendCompletedResult
  <2>2. PICK k \in LaneCompletions({r}) : Commit({r, k})
    BY <2>1
  <2>3. r.kind = "result" /\ r.evidence \in Accepted /\ k.kind = "lane" /\ k.cut = Len(chain)
    BY DEF Results, LaneCompletions, OfKind, Here
  <2>4. IsFiniteSet({r, k})
    <3>1. {r, k} = {r} \cup {k}
      OBVIOUS
    <3>2. IsFiniteSet({r})
      BY FS_Singleton
    <3> QED BY <3>1, <3>2, FS_AddElement
  <2> QED BY <1>6, <2>2, <2>3, <2>4 DEF Commit, Sent, SendCompletedResult, Room
<1>7. CASE SealBlindLane
  <2>1. PICK t \in Origin[StageKey], u \in Origin[StageKey], r \in OfKind(Accepted, "result"),
             is \in SUBSET (1..MaxFindings) :
             \E ds, old : /\ ds = {Discovered(u, {r}, i, {}) : i \in is}
                         /\ Commit(ds \cup {SealOf(t, {r} \cup ds \cup old)})
    BY <1>7 DEF SealBlindLane
  <2>2. PICK ds, old : /\ ds = {Discovered(u, {r}, i, {}) : i \in is}
                       /\ Commit(ds \cup {SealOf(t, {r} \cup ds \cup old)})
    BY <2>1
  <2>3. \A d \in ds : d.kind = "discovery" /\ d.after = {}
    BY <2>2 DEF Discovered
  <2>4. PICK s : s = SealOf(t, {r} \cup ds \cup old)
    OBVIOUS
  <2>5. s.kind = "checkpoint"
    BY <2>4 DEF SealOf
  <2>6. IsFiniteSet(ds)
    <3> DEFINE f == [i \in is |-> Discovered(u, {r}, i, {})]
    <3>1. IsFiniteSet(is)
      <4>1. IsFiniteSet(1..MaxFindings)
        BY FS_Interval, AdmissionAssumption
      <4> QED BY <4>1, FS_Subset
    <3>2. f \in Surjection(is, ds)
      BY <2>2 DEF Surjection
    <3> QED BY <3>1, <3>2, FS_Surjection
  <2>7. IsFiniteSet(ds \cup {s})
    BY <2>6, FS_AddElement
  <2> QED BY <1>7, <2>2, <2>3, <2>4, <2>5, <2>7 DEF Commit, Sent, SealBlindLane, Room
<1>8. CASE CompleteLane
  <2>1. PICK x \in LaneCompletions({}) : Commit({x})
    BY <1>8 DEF CompleteLane
  <2>2. x.kind = "lane" /\ x.cut = Len(chain)
    BY DEF LaneCompletions, Here
  <2>3. IsFiniteSet({x})
    BY FS_Singleton
  <2> QED BY <1>8, <2>1, <2>2, <2>3 DEF Commit, Sent, CompleteLane, Room
<1>9. CASE CompleteTheStage
  <2>1. PICK x \in StageCompletions : Commit({x})
    BY <1>9 DEF CompleteTheStage
  <2>2. x.kind = "stage"
    BY DEF StageCompletions
  <2> QED BY <1>9, <2>1, <2>2, FS_Singleton DEF Commit, Sent, CompleteTheStage, Room
<1> QED
  BY <1>1, <1>2, <1>3, <1>4, <1>5, <1>6, <1>7, <1>8, <1>9 DEF AdmissionNext, PrepareStage

-----------------------------------------------------------------------------
\* The chain is a sequence.
IsChain == chain \in Seq({chain[n] : n \in DOMAIN chain})

\* An object is first accepted where it is.
LEMMA FirstIs ==
    ASSUME OnlyOnce, NEW n \in DOMAIN chain, NEW o \in chain[n], DOMAIN chain \subseteq Nat
    PROVE  FirstAt(o) = n
<1>1. \A m \in DOMAIN chain : o \in chain[m] => m = n
  BY DEF OnlyOnce
<1>2. n \in DOMAIN chain /\ o \in chain[n] /\ \A m \in DOMAIN chain : o \in chain[m] => n <= m
  BY <1>1
<1> QED BY <1>1, <1>2 DEF FirstAt

\* What is accepted by some commit was accepted by an earlier one or is in it.
LEMMA AcceptedIn ==
    ASSUME IsChain, OnlyOnce, NEW n \in 0..Len(chain), NEW o \in AcceptedBy(n)
    PROVE  FirstAt(o) \in 1..n /\ o \in chain[FirstAt(o)] /\ o \in Accepted
<1>1. Len(chain) \in Nat /\ DOMAIN chain = 1..Len(chain)
  BY DEF IsChain
<1>2. PICK i \in 1..n : o \in chain[i]
  BY DEF AcceptedBy
<1>3. FirstAt(o) = i
  BY <1>1, <1>2, FirstIs
<1>4. o \in Accepted
  BY <1>1, <1>2 DEF Accepted, AcceptedBy
<1> QED BY <1>2, <1>3, <1>4

\* After a commit: the objects before it stay where they are, its own are new.
Grown(new, n) ==
    /\ n \in Nat \ {0} /\ n = Len(chain) + 1
    /\ DOMAIN chain = 1..(n - 1) /\ DOMAIN chain' = 1..n /\ Len(chain') = n
    /\ chain'[n] = new
    /\ \A i \in 1..(n - 1) : chain'[i] = chain[i]
    /\ \A i \in 0..(n - 1) : AcceptedBy(i)' = AcceptedBy(i)
    /\ AcceptedBy(n)' = Accepted \cup new /\ Accepted' = Accepted \cup new
    /\ \A o \in Accepted : /\ FirstAt(o)' = FirstAt(o) /\ FirstAt(o) \in 1..(n - 1)
                           /\ o \in chain[FirstAt(o)]
    /\ \A o \in new : FirstAt(o)' = n

\* A commit of new objects leaves all that was accepted, and when it was.
LEMMA CommitGrows ==
    ASSUME IsChain, OnlyOnce, NEW new, chain' = Append(chain, new), new \cap Accepted = {}
    PROVE  /\ IsChain' /\ OnlyOnce'
           /\ \E n : Grown(new, n)
<1> DEFINE S == {chain[i] : i \in DOMAIN chain} \cup {new}
<1>0. PICK n : n = Len(chain) + 1
  OBVIOUS
<1>1. chain \in Seq(S) /\ new \in S
  BY DEF IsChain
<1> HIDE DEF S
<1>2. /\ n \in Nat \ {0} /\ DOMAIN chain = 1..(n - 1) /\ DOMAIN chain' = 1..n
      /\ Len(chain') = n /\ chain'[n] = new
      /\ \A i \in 1..(n - 1) : chain'[i] = chain[i]
      /\ chain' \in Seq(S)
  BY <1>0, <1>1
<1>3. IsChain'
  <2>1. \A i \in 1..Len(chain') : chain'[i] \in {chain'[j] : j \in DOMAIN chain'}
    BY <1>2
  <2> QED BY <1>2, <2>1 DEF IsChain
<1>4. \A i \in 0..(n - 1) : AcceptedBy(i)' = AcceptedBy(i)
  <2> SUFFICES ASSUME NEW i \in 0..(n - 1)
               PROVE  UNION {chain'[j] : j \in 1..i} = UNION {chain[j] : j \in 1..i}
    BY DEF AcceptedBy
  <2>1. \A j \in 1..i : chain'[j] = chain[j]
    BY <1>2
  <2> QED BY <2>1
<1>5. Accepted = UNION {chain[j] : j \in 1..(n - 1)}
  BY <1>0, <1>2 DEF Accepted, AcceptedBy
<1>6. AcceptedBy(n)' = Accepted \cup new
  <2>1. AcceptedBy(n)' = UNION {chain'[j] : j \in 1..n}
    BY DEF AcceptedBy
  <2>2. 1..n = (1..(n - 1)) \cup {n}
    BY <1>2
  <2> QED BY <1>2, <1>5, <2>1, <2>2
<1>7. Accepted' = Accepted \cup new
  BY <1>2, <1>6 DEF Accepted
<1>8. \A i \in 1..(n - 1) : chain[i] \subseteq Accepted
  BY <1>5
<1>9. OnlyOnce'
  <2> SUFFICES ASSUME NEW i \in 1..n, NEW m \in 1..n, i # m, i < m
               PROVE  chain'[i] \cap chain'[m] = {}
    BY <1>2 DEF OnlyOnce
  <2>1. CASE m = n
    BY <1>2, <1>8, <2>1
  <2>2. CASE m # n
    BY <1>2, <2>2 DEF OnlyOnce
  <2> QED BY <2>1, <2>2
<1>10. ASSUME NEW i \in 1..n, NEW o \in chain'[i]
       PROVE  FirstAt(o)' = i
  <2>1. \A m \in DOMAIN chain' : o \in chain'[m] => m = i
    BY <1>2, <1>9, <1>10 DEF OnlyOnce
  <2>2. i \in DOMAIN chain' /\ o \in chain'[i]
        /\ \A m \in DOMAIN chain' : o \in chain'[m] => i <= m
    BY <1>2, <1>10, <2>1
  <2>3. FirstAt(o)' = CHOOSE k \in DOMAIN chain' :
           o \in chain'[k] /\ \A m \in DOMAIN chain' : o \in chain'[m] => k <= m
    BY DEF FirstAt
  <2> QED BY <2>1, <2>2, <2>3
<1>11. ASSUME NEW o \in Accepted
       PROVE  FirstAt(o)' = FirstAt(o) /\ FirstAt(o) \in 1..(n - 1) /\ o \in chain[FirstAt(o)]
  <2>1. PICK i \in 1..(n - 1) : o \in chain[i]
    BY <1>5
  <2>2. FirstAt(o) = i
    BY <1>2, <2>1, FirstIs
  <2> QED BY <1>2, <1>10, <2>1, <2>2
<1>12. \A o \in new : FirstAt(o)' = n
  BY <1>2, <1>10
<1> QED
  BY <1>0, <1>2, <1>3, <1>4, <1>6, <1>7, <1>9, <1>11, <1>12 DEF Grown

-----------------------------------------------------------------------------
\* Every seal of an E3 was whole when it was accepted.
SealsAreWhole ==
    StageKey = "E3" => \A s \in OfKind(Accepted, "checkpoint") : SealIsWhole(s)

\* What holds of every reachable chain.
AdmissionInv ==
    /\ IsChain /\ OnlyOnce
    /\ NamesEarlier
    /\ chain # << >> => SealsAreWhole
    /\ WorkIsDone
    /\ DirectedBySeals

\* What a seal held when it was accepted, it held of all that was accepted then.
LEMMA SealAdmitted ==
    ASSUME NEW o, NEW new, CheckpointAdmitted(o, new), StageKey = "E3", IsFiniteSet(Accepted)
    PROVE  \E r \in OfKind(o.sealed, "result") :
              /\ o.sealed = {r} \cup DiscoveriesOf(r, new)
              /\ {d.index : d \in OfKind(o.sealed, "discovery")} = 1..r.findings
              /\ \A q \in OfKind(Accepted, "result") :
                    q.attempt = r.attempt /\ q.slot = r.slot /\ q.assignment = r.assignment
                       => q = r
<1>1. IsFiniteSet(SealedAssignments(o)) /\ Cardinality(SealedAssignments(o)) = 1
  BY FS_Subset DEF CheckpointAdmitted, SealedAssignments, OfKind
<1>2. PICK x : SealedAssignments(o) = {x}
  BY <1>1, FS_Singleton
<1>3. IsFiniteSet(SealedResults(o, x)) /\ Cardinality(SealedResults(o, x)) = 1
  BY <1>2, FS_Subset DEF CheckpointAdmitted, SealedResults, OfKind
<1>4. PICK r : SealedResults(o, x) = {r}
  BY <1>3, FS_Singleton
<1>5. r.kind = "result" /\ r.assignment = x /\ r.attempt = o.attempt /\ r.slot = o.run.slot
  BY <1>4 DEF SealedResults, OfKind
<1>6. DiscoveriesComplete(o, r, new)
  BY <1>2, <1>4 DEF CheckpointAdmitted
<1>7. o.sealed = {r} \cup DiscoveriesOf(r, new)
      /\ {d.index : d \in DiscoveriesOf(r, new)} = 1..r.findings
  BY <1>6 DEF DiscoveriesComplete
<1>8. OfKind(o.sealed, "discovery") = DiscoveriesOf(r, new) /\ r \in OfKind(o.sealed, "result")
  BY <1>5, <1>7 DEF OfKind, DiscoveriesOf
<1>9. ASSUME NEW q \in OfKind(Accepted, "result"),
             q.attempt = r.attempt, q.slot = r.slot, q.assignment = r.assignment
      PROVE  q = r
  BY <1>4, <1>5, <1>9 DEF SealedResults
<1> QED BY <1>7, <1>8, <1>9

\* The work of a lane, by objects that are all accepted.
WorkAccepted(k) ==
    /\ FinalAttempt(k) \in k.attempts /\ FinalAttempt(k).run = k.run
    /\ \/ \E r \in ResultsOf(k) :
             /\ {r, r.evidence, r.assignment} \subseteq Accepted
             /\ r.attempt = FinalAttempt(k)
             /\ r.evidence.archive = k.run.slot
             /\ r.assignment.slot = k.run.slot /\ r.assignment.attempt = FinalAttempt(k)
             /\ FirstAt(r.assignment) < FirstAt(r.evidence)
             /\ FirstAt(r.evidence) < FirstAt(r)
             /\ FirstAt(r) <= FirstAt(k)
       \/ \E d \in OfKind(k.outputs, "discovery"), x \in OfKind(Accepted, "execution") :
             d.run = k.run /\ x.attempt = d.attempt /\ FirstAt(x) < FirstAt(k)

\* The lanes of a stage that the store completes have done their work.
LEMMA LaneWork ==
    ASSUME AdmissionInv, NEW o, NEW new, NEW k \in OfKind(Accepted, "lane"),
           LaneAdmitted(k, new), new = {o}, o.kind = "stage", o \notin Accepted
    PROVE  WorkAccepted(k)
<1>1. ContextFits(k) /\ FirstAt(k) = k.cut + 1
  BY DEF LaneAdmitted, ContextFits, CutIsExact, IsNew, OfKind
<1>2. FinalAttempt(k) \in k.attempts /\ FinalAttempt(k).run = k.run
  BY <1>1 DEF ContextFits
<1>3. /\ Len(chain) \in Nat /\ DOMAIN chain = 1..Len(chain)
      /\ FirstAt(k) \in 1..Len(chain)
  BY AcceptedIn DEF AdmissionInv, IsChain, OfKind, Accepted
<1>4. k.cut \in 0..Len(chain) /\ k.cut < FirstAt(k)
  <2>1. k.kind = "lane" /\ k \in chain[FirstAt(k)]
    BY <1>3, AcceptedIn DEF AdmissionInv, OfKind, Accepted
  <2>2. k.cut \in Nat
    BY <1>3, <2>1 DEF AdmissionInv, NamesEarlier
  <2> QED BY <1>1, <1>3, <2>2
<1>5. CASE Unassigned(k) /\ \A x \in k.outputs : MadeDirectly(k, x)
  <2>1. PICK d \in k.outputs : MadeDirectly(k, d)
    BY <1>1, <1>5 DEF ContextFits
  <2>2. PICK x \in OfKind(AcceptedBy(k.cut), "execution") : x.attempt = d.attempt
    BY <2>1 DEF MadeDirectly
  <2>3. FirstAt(x) \in 1..k.cut /\ x \in Accepted /\ x.kind = "execution"
    BY <1>4, <2>2, AcceptedIn DEF AdmissionInv, OfKind
  <2>4. x \in OfKind(Accepted, "execution") /\ FirstAt(x) < FirstAt(k)
    BY <1>3, <1>4, <2>3 DEF OfKind
  <2>5. d \in OfKind(k.outputs, "discovery") /\ d.run = k.run
    BY <2>1 DEF MadeDirectly, OfKind
  <2> QED BY <1>2, <2>2, <2>4, <2>5 DEF WorkAccepted
<1>6. CASE /\ \A r \in ResultsOf(k) : ResultInTime(k, r, new) /\ ResultFits(k, r)
           /\ FinalAttemptAnswered(k)
  <2>1. PICK r \in ResultsOf(k) : r.attempt = FinalAttempt(k)
    BY <1>6 DEF FinalAttemptAnswered
  <2>2. r.kind = "result" /\ r \in Accepted
    BY <2>1 DEF ResultsOf, OfKind, LaneAdmitted, Resolves
  <2>3. ResultInTime(k, r, new) /\ ResultFits(k, r)
    BY <1>6, <2>1
  <2>5. FirstAt(r) \in 1..Len(chain) /\ r \in chain[FirstAt(r)]
    BY <1>3, <2>2, AcceptedIn DEF AdmissionInv, Accepted
  <2>4. FirstAt(r) <= FirstAt(k)
    <3>1. ~IsNew(r)
      BY <2>2 DEF IsNew
    <3>2. FirstAt(r) <= k.cut \/ FirstAt(r) = FirstAt(k)
      BY <2>3, <3>1 DEF ResultInTime
    <3> QED BY <1>3, <1>4, <2>5, <3>2
  <2>6. ResultAdmitted(r) /\ r.evidence \in AcceptedBy(FirstAt(r) - 1)
    BY <1>3, <2>2, <2>5 DEF AdmissionInv, NamesEarlier
  <2>7. /\ FirstAt(r.evidence) \in 1..(FirstAt(r) - 1)
        /\ r.evidence \in chain[FirstAt(r.evidence)]
    BY <1>3, <2>5, <2>6, AcceptedIn DEF AdmissionInv
  <2>8. /\ EvidenceAdmitted(r.evidence)
        /\ r.evidence.assignment \in AcceptedBy(FirstAt(r.evidence) - 1)
    BY <1>3, <2>5, <2>6, <2>7 DEF AdmissionInv, NamesEarlier, ResultAdmitted
  <2>9. FirstAt(r.evidence.assignment) \in 1..(FirstAt(r.evidence) - 1)
    BY <1>3, <2>5, <2>7, <2>8, AcceptedIn DEF AdmissionInv
  <2>10. /\ r.assignment = r.evidence.assignment /\ r.evidence.archive = k.run.slot
         /\ r.assignment.slot = k.run.slot /\ r.assignment.attempt = FinalAttempt(k)
    BY <2>1, <2>3, <2>6, <2>8 DEF ResultAdmitted, EvidenceAdmitted, ResultFits,
       AssignmentsOf, LaneAssignments, OfKind
  <2>11. /\ FirstAt(r.assignment) < FirstAt(r.evidence)
         /\ FirstAt(r.evidence) < FirstAt(r)
    BY <1>3, <2>5, <2>7, <2>9, <2>10
  <2>12. {r, r.evidence, r.assignment} \subseteq Accepted
    BY <1>3, <2>2, <2>5, <2>6, <2>7, <2>8, <2>10, AcceptedIn DEF AdmissionInv
  <2> QED BY <1>2, <2>1, <2>4, <2>10, <2>11, <2>12 DEF WorkAccepted
<1> QED BY <1>5, <1>6 DEF LaneAdmitted

\* Two lanes of a completed stage share no result.
LEMMA LanesShareNothing ==
    ASSUME NEW o, NEW new, LanesFit(o, new), SlotsFit(o), NEW k \in o.lanes, NEW l \in o.lanes,
           k # l
    PROVE  ResultsOf(k) \cap ResultsOf(l) = {}
<1> SUFFICES ASSUME NEW r \in ResultsOf(k), r \in ResultsOf(l) PROVE FALSE
  OBVIOUS
<1>1. ASSUME NEW m \in o.lanes, r \in ResultsOf(m)
      PROVE  r.slot = m.run.slot
  <2>1. r \in m.outputs /\ r.kind = "result" /\ LaneAdmitted(m, new)
    BY <1>1 DEF ResultsOf, OfKind, LanesFit
  <2>2. ~MadeDirectly(m, r)
    BY <2>1 DEF MadeDirectly
  <2> QED BY <1>1, <2>1, <2>2 DEF LaneAdmitted, ResultFits
<1> QED BY <1>1 DEF SlotsFit

\* AdmissionInv is inductive, and every chain holds finitely many objects.
LEMMA AdmissionInvHolds == AdmissionSpec => [](AdmissionInv /\ IsFiniteSet(Accepted))
<1>1. AdmissionInit => AdmissionInv /\ IsFiniteSet(Accepted)
  <2> SUFFICES ASSUME chain = << >> PROVE AdmissionInv /\ IsFiniteSet(Accepted)
    BY DEF AdmissionInit
  <2>1. Accepted = {}
    BY DEF Accepted, AcceptedBy
  <2> QED BY <2>1, FS_EmptySet DEF AdmissionInv, IsChain, OnlyOnce, NamesEarlier,
       WorkIsDone, DirectedBySeals, OfKind
<1>2. AdmissionInv /\ IsFiniteSet(Accepted) /\ [AdmissionNext]_chain
        => (AdmissionInv /\ IsFiniteSet(Accepted))'
  <2> SUFFICES ASSUME AdmissionInv, IsFiniteSet(Accepted), [AdmissionNext]_chain
               PROVE  AdmissionInv' /\ IsFiniteSet(Accepted')
    OBVIOUS
  <2>1. CASE UNCHANGED chain
    <3>1. IsChain' /\ OnlyOnce' /\ NamesEarlier'
      BY <2>1 DEF AdmissionInv, IsChain, OnlyOnce, NamesEarlier, AcceptedBy
    <3>2. /\ \A o : FirstAt(o)' = FirstAt(o)
          /\ \A n : AcceptedBy(n)' = AcceptedBy(n)
          /\ Accepted' = Accepted /\ StageKey' = StageKey
      BY <2>1 DEF FirstAt, Accepted, AcceptedBy, StageKey
    <3>3. /\ \A o, k : WorkDone(o, k)' = WorkDone(o, k)
          /\ \A s : SealIsWhole(s)' = SealIsWhole(s)
      <4>1. \A o, k : WorkDone(o, k)' = WorkDone(o, k)
        BY <2>1, <3>2 DEF WorkDone
      <4>2. \A s : SealIsWhole(s)' = SealIsWhole(s)
        <5> TAKE s
        <5>1. AcceptedBy(FirstAt(s))' = AcceptedBy(FirstAt(s))
          BY <3>2
        <5> QED BY <5>1 DEF SealIsWhole
      <4> QED BY <4>1, <4>2
    <3>4. /\ chain' # << >> => SealsAreWhole'
          /\ WorkIsDone' /\ DirectedBySeals'
      BY <2>1, <3>2, <3>3 DEF AdmissionInv, SealsAreWhole, WorkIsDone, DirectedBySeals
    <3>5. IsFiniteSet(Accepted')
      BY <2>1 DEF Accepted, AcceptedBy
    <3> QED BY <3>1, <3>4, <3>5 DEF AdmissionInv
  <2>2. CASE PrepareStage /\ chain = << >>
    <3>1. PICK new : \E s \in Stages :
             /\ new = {[kind |-> "spec", stage |-> s]} \cup Attempts \cup Knowledges
             /\ chain' = << new >>
      BY <2>2 DEF PrepareStage
    <3>2. \A o \in new : o.kind \in {"spec", "attempt", "knowledge"}
      BY <3>1, AdmissionAssumption
    <3>3. DOMAIN chain' = 1..1 /\ Len(chain') = 1 /\ chain'[1] = new
      BY <3>1
    <3>4. Accepted' = new
      BY <3>3 DEF Accepted, AcceptedBy
    <3>5. IsFiniteSet(new)
      <4>1. PICK s \in Stages :
               new = {[kind |-> "spec", stage |-> s]} \cup Attempts \cup Knowledges
        BY <3>1
      <4> QED BY <4>1, FS_Singleton, FS_Union, AdmissionAssumption
    <3>6. IsChain' /\ OnlyOnce' /\ NamesEarlier'
      BY <3>1, <3>2, <3>3 DEF IsChain, OnlyOnce, NamesEarlier
    <3>7. \A k \in {"checkpoint", "stage"} : OfKind(Accepted', k) = {}
      BY <3>2, <3>4 DEF OfKind
    <3> QED BY <3>4, <3>5, <3>6, <3>7 DEF AdmissionInv, SealsAreWhole, WorkIsDone,
         DirectedBySeals
  <2>3. CASE AdmissionNext /\ chain # << >>
    <3>1. PICK new : Sent(new)
      BY <2>3, StepsSend
    <3>2. PICK n : IsChain' /\ OnlyOnce' /\ Grown(new, n)
      BY <3>1, CommitGrows DEF Sent, AdmissionInv
    <3>3. StageKey' = StageKey
      <4>1. n - 1 >= 1
        <5> DEFINE S == {chain[i] : i \in DOMAIN chain}
        <5>1. chain \in Seq(S)
          BY DEF AdmissionInv, IsChain
        <5>2. n \in Nat \ {0} /\ n = Len(chain) + 1
          BY <3>2 DEF Grown
        <5> HIDE DEF S
        <5>3. Len(chain) # 0
          BY <5>1, <2>3
        <5> QED BY <5>2, <5>3
      <4>2. chain'[1] = chain[1]
        BY <3>2, <4>1 DEF Grown
      <4> QED BY <4>2 DEF StageKey
    <3>4. NamesEarlier'
      <4> SUFFICES ASSUME NEW i \in 1..n, NEW o \in chain'[i]
                   PROVE  /\ o.kind = "evidence" =>
                                EvidenceAdmitted(o) /\ o.assignment \in AcceptedBy(i - 1)'
                          /\ o.kind = "result" =>
                                ResultAdmitted(o) /\ o.evidence \in AcceptedBy(i - 1)'
                          /\ o.kind = "discovery" =>
                                \A s \in o.after :
                                   s.kind = "checkpoint" /\ s \in AcceptedBy(i - 1)'
                          /\ o.kind = "lane" => o.cut \in Nat
        BY <3>2 DEF NamesEarlier, Grown
      <4>1. CASE i # n
        <5>1. i \in DOMAIN chain /\ o \in chain[i] /\ i - 1 \in 0..(n - 1)
          BY <3>2, <4>1 DEF Grown
        <5>2. AcceptedBy(i - 1)' = AcceptedBy(i - 1)
          BY <3>2, <5>1 DEF Grown
        <5> QED BY <5>1, <5>2 DEF AdmissionInv, NamesEarlier
      <4>2. CASE i = n
        <5>1. o \in new /\ n - 1 = Len(chain) /\ n - 1 \in 0..(n - 1)
          BY <3>2, <4>2 DEF Grown
        <5>2. AcceptedBy(i - 1)' = Accepted
          BY <3>2, <4>2, <5>1 DEF Grown, Accepted
        <5>3. Admitted(o, new)
          BY <3>1, <5>1 DEF Sent
        <5>4. Len(chain) \in Nat
          BY <5>1, <3>2 DEF Grown
        <5> QED BY <3>1, <5>1, <5>2, <5>3, <5>4 DEF Sent, Admitted
      <4> QED BY <4>1, <4>2
    <3>5. SealsAreWhole'
      <4> SUFFICES ASSUME StageKey = "E3", NEW s \in Accepted \cup new, s.kind = "checkpoint"
                   PROVE  SealIsWhole(s)'
        BY <3>2, <3>3 DEF SealsAreWhole, Grown, OfKind
      <4>1. CASE s \in Accepted
        <5>1. PICK f \in 1..(n - 1) : f = FirstAt(s) /\ FirstAt(s)' = f
          BY <3>2, <4>1 DEF Grown
        <5>2. AcceptedBy(f)' = AcceptedBy(f)
          BY <3>2, <5>1 DEF Grown
        <5>3. AcceptedBy(FirstAt(s))' = AcceptedBy(f) /\ AcceptedBy(FirstAt(s)) = AcceptedBy(f)
          BY <5>1, <5>2 DEF AcceptedBy
        <5>4. SealIsWhole(s)
          BY <3>1, <4>1 DEF AdmissionInv, SealsAreWhole, OfKind, Sent
        <5>5. AcceptedBy(FirstAt(s))' = AcceptedBy(FirstAt(s))
          BY <5>3
        <5> QED BY <5>4, <5>5 DEF SealIsWhole
      <4>2. CASE s \in new
        <5>1. AcceptedBy(FirstAt(s))' = Accepted \cup new
          BY <3>2, <4>2 DEF Grown, AcceptedBy
        <5>2. CheckpointAdmitted(s, new) /\ \A q \in new : q.kind # "result"
          BY <3>1, <4>2 DEF Sent, Admitted
        <5>3. PICK r \in OfKind(s.sealed, "result") :
                 /\ s.sealed = {r} \cup DiscoveriesOf(r, new)
                 /\ {d.index : d \in OfKind(s.sealed, "discovery")} = 1..r.findings
                 /\ \A q \in OfKind(Accepted, "result") :
                       q.attempt = r.attempt /\ q.slot = r.slot
                          /\ q.assignment = r.assignment => q = r
          BY <5>2, SealAdmitted
        <5>4. OfKind(Accepted \cup new, "result") = OfKind(Accepted, "result")
          BY <5>2 DEF OfKind
        <5> QED BY <5>1, <5>3, <5>4 DEF SealIsWhole, DiscoveriesOf
      <4> QED BY <4>1, <4>2
    <3>6. ASSUME NEW o \in OfKind(Accepted', "stage")
          PROVE  /\ new = {o} /\ o \in StageCompletions /\ StageAdmitted(o, new)
                 /\ o \notin Accepted /\ o.kind = "stage" /\ FirstAt(o)' = n
      <4>1. o \in new /\ o.kind = "stage"
        BY <3>1, <3>2 DEF Grown, Sent, OfKind
      <4>2. new = {o} /\ o \in StageCompletions
        BY <3>1, <4>1 DEF Sent
      <4>3. Admitted(o, new) /\ o \notin Accepted
        BY <3>1, <4>1 DEF Sent
      <4> QED BY <3>2, <4>1, <4>2, <4>3 DEF Admitted, Grown
    <3>7. WorkIsDone'
      <4> SUFFICES ASSUME NEW o \in OfKind(Accepted', "stage")
                   PROVE  /\ \A s \in RequiredSlot :
                                \E k \in o.lanes :
                                   /\ k.run.slot = s /\ k.run.run = o.of
                                   /\ FirstAt(k)' < FirstAt(o)'
                                   /\ WorkDone(o, k)'
                          /\ \A k, l \in o.lanes : k # l => ResultsOf(k) \cap ResultsOf(l) = {}
        BY DEF WorkIsDone
      <4>1. LanesFit(o, new) /\ SlotsFit(o)
        BY <3>6 DEF StageAdmitted
      <4>2. \A k, l \in o.lanes : k # l => ResultsOf(k) \cap ResultsOf(l) = {}
        BY <4>1, LanesShareNothing
      <4>3. \A k \in o.lanes : k \in OfKind(Accepted, "lane")
        BY <3>6 DEF StageCompletions
      <4>4. ASSUME NEW s \in RequiredSlot
            PROVE  \E k \in o.lanes :
                      /\ k.run.slot = s /\ k.run.run = o.of
                      /\ FirstAt(k)' < FirstAt(o)' /\ WorkDone(o, k)'
        <5>1. PICK k \in o.lanes : k.run.slot = s
          BY <4>1 DEF SlotsFit
        <5>2. LaneAdmitted(k, new) /\ k.run.run = o.of
          BY <4>1 DEF LanesFit
        <5>3. WorkAccepted(k)
          BY <3>6, <4>3, <5>2, LaneWork
        <5>4. FirstAt(k)' = FirstAt(k) /\ FirstAt(k)' < FirstAt(o)'
          BY <3>2, <3>6, <4>3 DEF Grown, OfKind
        <5>5. \A x \in Accepted : FirstAt(x)' = FirstAt(x) /\ x \in Accepted'
          BY <3>2 DEF Grown
        <5>6. WorkDone(o, k)'
          BY <5>3, <5>4, <5>5 DEF WorkDone, WorkAccepted, OfKind
        <5> QED BY <5>1, <5>2, <5>4, <5>6
      <4> QED BY <4>2, <4>4
    <3>9. DirectedBySeals'
      <4> SUFFICES ASSUME NEW o \in OfKind(Accepted', "stage"), StageKey = "E3"
                   PROVE  \E d \in OfKind(o.outputs, "discovery") :
                             \E s \in OfKind(o.outputs, "checkpoint") :
                                d.after = {s} /\ FirstAt(s)' < FirstAt(d)' /\ SealIsWhole(s)'
        BY <3>3 DEF DirectedBySeals
      <4>1. StageAdmitted(o, new)
        BY <3>6
      <4>2. PICK d \in OfKind(o.outputs, "discovery"), s \in OfKind(o.outputs, "checkpoint") :
               d.after = {s}
        BY <4>1 DEF StageAdmitted, ObligationsMet
      <4>3. d \in Accepted /\ d.kind = "discovery" /\ s \in Accepted /\ s.kind = "checkpoint"
        BY <3>6, <4>1, <4>2 DEF StageAdmitted, Resolves, OfKind
      <4>4. /\ FirstAt(d)' = FirstAt(d) /\ FirstAt(s)' = FirstAt(s)
            /\ FirstAt(d) \in 1..(n - 1) /\ d \in chain[FirstAt(d)]
        BY <3>2, <4>3 DEF Grown
      <4>5. s \in AcceptedBy(FirstAt(d) - 1)
        BY <3>2, <4>2, <4>3, <4>4 DEF AdmissionInv, NamesEarlier, Grown
      <4>6. FirstAt(s) \in 1..(FirstAt(d) - 1)
        BY <3>2, <4>4, <4>5, AcceptedIn DEF AdmissionInv, Grown
      <4>7. SealIsWhole(s)'
        BY <3>2, <3>3, <3>5, <4>3 DEF SealsAreWhole, Grown, OfKind
      <4> QED BY <4>2, <4>4, <4>6, <4>7
    <3>8. IsFiniteSet(Accepted')
      BY <3>1, <3>2, FS_Union DEF Grown, Sent
    <3> QED BY <3>2, <3>4, <3>5, <3>7, <3>8, <3>9 DEF AdmissionInv
  <2> QED BY <2>1, <2>2, <2>3 DEF AdmissionNext, PrepareStage, SendAssignment, Room,
       IngestEvidence, SendResultAlone, SendExecution, SendDiscovery, SendCompletedResult,
       SealBlindLane, CompleteLane, CompleteTheStage
<1> QED BY <1>1, <1>2, PTL DEF AdmissionSpec

\* What the store alone admits as a completed stage rests on work that was handed
\* out, delivered and accepted in that order, lane by lane, and a completed E3 was
\* directed by a seal that held all there was (authority_hooks.py): for all slots,
\* runs, attempts, bounds and ways clients send what they like.
THEOREM AdmissionIsEarned == AdmissionSpec => []AdmittedIsEarned
<1>1. AdmissionInv => AdmittedIsEarned
  BY DEF AdmissionInv, AdmittedIsEarned
<1> QED BY <1>1, AdmissionInvHolds, PTL

-----------------------------------------------------------------------------
\* What the pipelines make of executions, and what adjudication makes of that.

\* A new adjudication that makes a finding current has every axis supported.
LEMMA AdjudicationKept ==
    ASSUME AdjudicationIsKept, NEW claim, NEW axes, NEW asked, NEW previous,
           AdjudicateFinding(claim, axes, asked, previous)
    PROVE  AdjudicationIsKept'
<1> DEFINE d == Decision(claim, axes, IF asked = "none" THEN ComputedStatus(axes) ELSE asked,
                         previous)
<1>1. decisions' = decisions \union {d} /\ UNCHANGED <<cases, resolutions>>
  BY DEF AdjudicateFinding
<1>2. d.axes = axes /\ d.status = IF asked = "none" THEN ComputedStatus(axes) ELSE asked
  BY DEF Decision
<1>3. d.status = "CONFIRMED_CURRENT" => Outcomes(d.axes) = {"SUPPORTED"}
  BY <1>2 DEF AdjudicateFinding, ComputedStatus
<1> QED BY <1>1, <1>3
        DEF AdjudicationIsKept, CasesAreResolvedAsTheyStood, RevivedIsReopenedOrSupported

\* Decisions only follow decisions in the ways of the code, resolved cases only the
\* revisions they were decided about: each new object has the property when it is made.
LEMMA AdjudicationStays ==
    ASSUME AdjudicationIsKept, AdjudicationNext PROVE AdjudicationIsKept'
<1>1. ASSUME NEW claim, NEW axes, NEW asked, NEW previous,
             AdjudicateFinding(claim, axes, asked, previous)
      PROVE  AdjudicationIsKept'
  BY <1>1, AdjudicationKept
<1>2. ASSUME NEW e \in decisions, NEW goal, NEW axes, TransitionFinding(e, goal, axes)
      PROVE  AdjudicationIsKept'
  <2> DEFINE d == Decision(e.claim, axes, goal, {e})
  <2>1. decisions' = decisions \union {d} /\ UNCHANGED <<cases, resolutions>>
    BY <1>2 DEF TransitionFinding
  <2>2. d.status = goal /\ d.previous = {e}
    BY DEF Decision
  <2>3. e.status \in {"REJECTED", "SUPERSEDED"} => d.status # "CONFIRMED_CURRENT"
    BY <1>2, <2>2 DEF TransitionFinding, AllowedFrom
  <2> QED BY <2>1, <2>2, <2>3
          DEF AdjudicationIsKept, CasesAreResolvedAsTheyStood, RevivedIsReopenedOrSupported
<1>3. ASSUME NEW proof, OpenCase(proof) PROVE AdjudicationIsKept'
  BY <1>3 DEF OpenCase, AdjudicationIsKept, CasesAreResolvedAsTheyStood,
              RevivedIsReopenedOrSupported
<1>4. ASSUME NEW c \in cases, NEW result, ResolveCase(c, result) PROVE AdjudicationIsKept'
  BY <1>4 DEF ResolveCase, AdjudicationIsKept, CasesAreResolvedAsTheyStood,
              RevivedIsReopenedOrSupported
<1>5. ASSUME NEW c \in cases, NEW r \in resolutions, ApplyResolution(c, r)
      PROVE  AdjudicationIsKept'
  <2> DEFINE s == Resolved(c, r)
  <2>1. /\ s.by = {r} /\ s.previous = {c} /\ s.evidence = c.evidence
    BY DEF Resolved
  <2>2. r.prior = c /\ cases' = cases \union {s} /\ UNCHANGED <<decisions, resolutions>>
    BY <1>5 DEF ApplyResolution
  <2>3. CasesAreResolvedAsTheyStood'
    BY <2>1, <2>2 DEF AdjudicationIsKept, CasesAreResolvedAsTheyStood
  <2> QED BY <2>2, <2>3 DEF AdjudicationIsKept, RevivedIsReopenedOrSupported
<1>6. ASSUME NEW c \in cases, NEW new, ReopenCase(c, new) PROVE AdjudicationIsKept'
  BY <1>6 DEF ReopenCase, AdjudicationIsKept, CasesAreResolvedAsTheyStood,
              RevivedIsReopenedOrSupported
<1>7. CASE DecisionsNext
  BY <1>1, <1>2, <1>7 DEF DecisionsNext
<1>8. CASE CasesNext
  BY <1>3, <1>4, <1>5, <1>6, <1>8 DEF CasesNext
<1> QED BY <1>7, <1>8 DEF AdjudicationNext

-----------------------------------------------------------------------------

\* The revisions of a hypothesis, numbered upwards.
InLine(revs) ==
    /\ revs \in Seq(Revision)
    /\ \A i, j \in DOMAIN revs : i < j => revs[i].number < revs[j].number

\* A transition that was answered is one of two neighbours.
Adjacent(revs, r, next) ==
    \E i \in DOMAIN revs :
        revs[i] = r /\ i + 1 \in DOMAIN revs /\ revs[i + 1] = next

\* What appending makes of a sequence: the positions, and what is at them.
LEMMA Appended ==
    ASSUME NEW S, NEW s \in Seq(S), NEW x \in S
    PROVE  /\ Append(s, x) \in Seq(S)
           /\ Len(s) \in Nat /\ DOMAIN s = 1..Len(s)
           /\ DOMAIN Append(s, x) = 1..(Len(s) + 1)
           /\ \A i \in DOMAIN s : Append(s, x)[i] = s[i]
           /\ Append(s, x)[Len(s) + 1] = x
           /\ s # << >> => Len(s) # 0
           /\ Append(s, x) # << >>
           /\ \A i \in DOMAIN s : s[i] \in S
  OBVIOUS

\* What a sequence holds.
LEMMA ElementsOf == ASSUME NEW S, NEW q \in Seq(S), NEW j \in DOMAIN q PROVE q[j] \in S
  OBVIOUS

\* What recording makes of a chain that takes the revision.
LEMMA TakingKeepsLine ==
    ASSUME NEW revs, InLine(revs), NEW r \in Revision, Takes(revs, r)
    PROVE  /\ InLine(With(revs, r)) /\ Has(With(revs, r), r) /\ With(revs, r) # << >>
           /\ DOMAIN revs \subseteq DOMAIN With(revs, r)
           /\ \A i \in DOMAIN revs : With(revs, r)[i] = revs[i]
<1>1. CASE Has(revs, r)
  BY <1>1 DEF With, Has
<1>2. CASE ~Has(revs, r)
  <2> DEFINE longer == Append(revs, r)
  <2>1. revs \in Seq(Revision)
    BY DEF InLine
  <2>2. /\ longer \in Seq(Revision) /\ longer # << >>
        /\ Len(revs) \in Nat /\ DOMAIN revs = 1..Len(revs)
        /\ DOMAIN longer = 1..(Len(revs) + 1)
        /\ \A i \in DOMAIN revs : longer[i] = revs[i]
        /\ longer[Len(revs) + 1] = r
    BY <2>1, Appended
  <2>3. With(revs, r) = longer
    BY <1>2 DEF With
  <2> HIDE DEF longer
  <2>4. ASSUME NEW i \in DOMAIN longer, NEW j \in DOMAIN longer, i < j
        PROVE  longer[i].number < longer[j].number
    <3>1. i \in DOMAIN revs /\ longer[i] = revs[i]
      BY <2>2, <2>4
    <3>2. CASE j \in DOMAIN revs
      BY <2>2, <2>4, <3>1, <3>2 DEF InLine
    <3>3. CASE j = Len(revs) + 1
      BY <1>2, <2>2, <3>1, <3>3 DEF Takes
    <3> QED BY <2>2, <3>2, <3>3
  <2> QED BY <2>2, <2>3, <2>4 DEF InLine, Has
<1> QED BY <1>1, <1>2

\* Nothing fits between two revisions whose numbers follow on each other.
LEMMA FollowersAreNeighbours ==
    ASSUME NEW revs, InLine(revs), NEW r, NEW next,
           Has(revs, r), Has(revs, next), next.number = r.number + 1
    PROVE  Adjacent(revs, r, next)
<1>1. /\ Len(revs) \in Nat /\ DOMAIN revs = 1..Len(revs)
      /\ \A i \in DOMAIN revs : revs[i].number \in Nat
  <2>1. revs \in Seq(Revision)
    BY DEF InLine
  <2>2. \A i \in DOMAIN revs : revs[i] \in Revision
    BY <2>1, ElementsOf
  <2> QED BY <2>1, <2>2 DEF Revision
<1>2. PICK i \in DOMAIN revs : revs[i] = r
  BY DEF Has
<1>3. PICK j \in DOMAIN revs : revs[j] = next
  BY DEF Has
<1>4. i < j
  <2>1. revs[i].number < revs[j].number
    BY <1>1, <1>2, <1>3
  <2>2. ~(j < i) /\ i # j
    BY <1>1, <1>2, <1>3, <2>1 DEF InLine
  <2> QED BY <1>1, <2>2
<1>5. CASE j = i + 1
  BY <1>2, <1>3, <1>5 DEF Adjacent
<1>6. CASE i + 1 < j
  <2>1. i + 1 \in DOMAIN revs /\ i < i + 1
    BY <1>1, <1>6
  <2>2. revs[i].number < revs[i + 1].number /\ revs[i + 1].number < revs[j].number
    BY <1>6, <2>1 DEF InLine
  <2>3. revs[i].number \in Nat /\ revs[i + 1].number \in Nat /\ revs[j].number \in Nat
    BY <1>1, <2>1
  <2> QED BY <1>2, <1>3, <2>2, <2>3
<1> QED BY <1>1, <1>4, <1>5, <1>6

\* What a finding of the pipelines rests on.
Earned(d) ==
    d.claim \in Subject =>
        /\ \E e \in executions : e.subject = d.claim /\ e.observed \in Spawns
        /\ d.claim \in Nodes
        /\ chains[d.claim] # << >>

FindingInv ==
    /\ DOMAIN chains = Subject
    /\ \A h \in Subject : InLine(chains[h])
    /\ \A s \in successions :
           /\ s.of \in Subject
           /\ Adjacent(chains[s.of], s.before, s.after)
           /\ MayBecome(s.before.status, s.after.status)
    /\ \A e \in executions : e.subject \in Subject
    /\ \A d \in decisions : Earned(d)
    /\ AdjudicationIsKept

\* Executions and nodes only get more, and a hypothesis keeps its revisions: so what a
\* decision rests on stays.
LEMMA EarnedStays ==
    ASSUME NEW d, Earned(d), executions \subseteq executions', Nodes \subseteq Nodes',
           \A h \in Subject : chains[h] # << >> => chains'[h] # << >>
    PROVE  Earned(d)'
  BY DEF Earned

\* A chain that keeps its revisions where they are keeps what transitions were answered.
LEMMA NeighboursStay ==
    ASSUME NEW revs, NEW longer, NEW r, NEW next, Adjacent(revs, r, next),
           DOMAIN revs \subseteq DOMAIN longer, \A i \in DOMAIN revs : longer[i] = revs[i]
    PROVE  Adjacent(longer, r, next)
<1>1. PICK i \in DOMAIN revs :
         revs[i] = r /\ i + 1 \in DOMAIN revs /\ revs[i + 1] = next
  BY DEF Adjacent
<1> QED BY <1>1 DEF Adjacent

\* One chain grows, by what it takes, and nothing else but answers about it is new.
LEMMA RecordingKeeps ==
    ASSUME FindingInv, NEW h \in Subject, NEW longer, InLine(longer), longer # << >>,
           DOMAIN chains[h] \subseteq DOMAIN longer,
           \A i \in DOMAIN chains[h] : longer[i] = chains[h][i],
           chains' = [chains EXCEPT ![h] = longer],
           \A s \in successions' : s \in successions \/
               /\ s.of = h /\ Adjacent(longer, s.before, s.after)
               /\ MayBecome(s.before.status, s.after.status)
    PROVE  /\ DOMAIN chains' = Subject /\ chains'[h] # << >>
           /\ \A g \in Subject : InLine(chains'[g])
           /\ \A g \in Subject : chains[g] # << >> => chains'[g] # << >>
           /\ \A s \in successions' :
                  /\ s.of \in Subject
                  /\ Adjacent(chains'[s.of], s.before, s.after)
                  /\ MayBecome(s.before.status, s.after.status)
<1>1. /\ DOMAIN chains' = Subject /\ chains'[h] = longer
      /\ \A g \in Subject \ {h} : chains'[g] = chains[g]
  BY DEF FindingInv
<1>2. ASSUME NEW s \in successions'
      PROVE  /\ s.of \in Subject /\ Adjacent(chains'[s.of], s.before, s.after)
             /\ MayBecome(s.before.status, s.after.status)
  <2>1. CASE s \in successions /\ s.of # h
    BY <1>1, <2>1 DEF FindingInv
  <2>2. CASE s \in successions /\ s.of = h
    <3>1. Adjacent(chains[h], s.before, s.after)
      BY <2>2 DEF FindingInv
    <3>2. Adjacent(longer, s.before, s.after)
      BY <3>1, NeighboursStay
    <3> QED BY <1>1, <2>2, <3>2 DEF FindingInv
  <2>3. CASE s \notin successions
    BY <1>1, <1>2, <2>3
  <2> QED BY <2>1, <2>2, <2>3
<1> QED BY <1>1, <1>2 DEF FindingInv

LEMMA EvidenceOnlyGrows == EvidenceNext => Nodes \subseteq Nodes'
  BY DEF EvidenceNext, AddNode, AddEdge, Invalidate, Spread, Nodes

\* Adjudication by others: of claims that are no pipeline's, or after a decision.
LEMMA OthersEarn ==
    ASSUME FindingInv, AdjudicationNext, UNCHANGED <<findingVars, evidenceVars>>
    PROVE  FindingInv'
<1>1. /\ UNCHANGED <<executions, chains, successions, standing>> /\ Nodes' = Nodes
  BY DEF findingVars, hypothesisVars, evidenceVars, Nodes
<1>2. \A d \in decisions' : Earned(d)'
  <2>1. \A d \in decisions : Earned(d)'
    BY <1>1, EarnedStays DEF FindingInv
  <2>2. ASSUME NEW d \in decisions', d \notin decisions PROVE Earned(d)'
    <3>1. CASE \E claim \in Claim : \E axes, asked, previous :
                  AdjudicateFinding(claim, axes, asked, previous)
      <4>1. d.claim \in Claim
        BY <2>2, <3>1 DEF AdjudicateFinding, Decision
      <4> QED BY <4>1, ClaimAssumption DEF Earned
    <3>2. CASE \E e \in decisions : \E goal, axes : TransitionFinding(e, goal, axes)
      <4>1. PICK e \in decisions : d.claim = e.claim
        BY <2>2, <3>2 DEF TransitionFinding, Decision
      <4> QED BY <4>1, <2>1 DEF Earned
    <3>3. CASE CasesNext
      BY <2>2, <3>3 DEF CasesNext, OpenCase, ResolveCase, ApplyResolution, ReopenCase
    <3>4. DecisionsNext => \/ \E claim \in Claim : \E axes, asked, previous :
                                 AdjudicateFinding(claim, axes, asked, previous)
                           \/ \E e \in decisions : \E goal, axes : TransitionFinding(e, goal, axes)
      BY DEF DecisionsNext
    <3> QED BY <3>1, <3>2, <3>3, <3>4 DEF AdjudicationNext
  <2> QED BY <2>1, <2>2
<1> QED BY <1>1, <1>2, AdjudicationStays DEF FindingInv

\* The steps of the pipelines themselves.
LEMMA PipelinesEarn ==
    ASSUME FindingInv, FindingNext PROVE FindingInv'
<1>1. CASE CutMoves \/ Preregister
  <2>1. UNCHANGED <<executions, chains, successions, evidenceVars, adjudicationVars>>
    BY <1>1 DEF CutMoves, Preregister, hypothesisVars
  <2>2. UNCHANGED <<standing, decisions, cases, resolutions>>
    BY <2>1 DEF evidenceVars, adjudicationVars
  <2> QED BY <2>1, <2>2 DEF FindingInv, Earned, Nodes, AdjudicationIsKept,
             CasesAreResolvedAsTheyStood, RevivedIsReopenedOrSupported
<1>2. ASSUME NEW subject \in Subject, NEW observed, Executed(subject, observed)
      PROVE  FindingInv'
  <2>1. /\ executions' = executions \union {[subject |-> subject, observed |-> observed]}
        /\ UNCHANGED <<chains, successions, standing, decisions, cases, resolutions>>
    BY <1>2 DEF Executed, hypothesisVars, evidenceVars, adjudicationVars
  <2>2. \A d \in decisions : Earned(d)'
    BY <2>1, EarnedStays DEF FindingInv, Nodes
  <2> QED BY <2>1, <2>2 DEF FindingInv, AdjudicationIsKept,
             CasesAreResolvedAsTheyStood, RevivedIsReopenedOrSupported
<1>3. ASSUME NEW c \in InputCase,
             \/ ExecuteCase(c) \/ ExecuteDifferential(c)
             \/ \E cut \in 0..MaxCut : ExecuteMetamorphic(c, cut)
      PROVE  FindingInv'
  <2>1. <<"fuzz", c>> \in Subject /\ <<"diff", c>> \in Subject /\ <<"meta", c>> \in Subject
    BY DEF Subject, Family
  <2> QED BY <1>2, <1>3, <2>1 DEF ExecuteCase, ExecuteDifferential, ExecuteMetamorphic
<1>4. ASSUME NEW e \in executions, NEW cut \in 0..MaxCut, ProcessThroughPipeline(e, cut)
      PROVE  FindingInv'
  <2> DEFINE h == e.subject
             d == Decision(h, AllSupported, ComputedStatus(AllSupported), {})
  <2>1. /\ h \in Subject /\ e.observed \in Spawns
        /\ ObservationAdded(h) /\ HypothesisProposed(h, cut)
        /\ AdjudicateFinding(h, AllSupported, "none", {})
        /\ UNCHANGED executions
    BY <1>4 DEF ProcessThroughPipeline, FindingInv
  <2>2. Nodes' = Nodes \union {h}
    BY <2>1 DEF ObservationAdded, AddNode, Nodes, evidenceVars
  <2>3. decisions' = decisions \union {d} /\ d.claim = h
    BY <2>1 DEF AdjudicateFinding, Decision
  <2>4. /\ DOMAIN chains' = Subject /\ chains'[h] # << >>
        /\ \A g \in Subject : InLine(chains'[g]) /\ (chains[g] # << >> => chains'[g] # << >>)
        /\ \A s \in successions' :
               /\ s.of \in Subject
               /\ Adjacent(chains'[s.of], s.before, s.after)
               /\ MayBecome(s.before.status, s.after.status)
    <3>1. CASE chains[h] # << >>
      BY <3>1, <2>1 DEF HypothesisProposed, FindingInv
    <3>2. CASE chains[h] = << >>
      <4> DEFINE r == [number |-> 1, status |-> "PROPOSED", cut |-> cut]
      <4>1. r \in Revision
        BY DEF Revision, LegalFrom
      <4>2. /\ Takes(chains[h], r) /\ chains' = [chains EXCEPT ![h] = With(chains[h], r)]
            /\ successions' = successions
        BY <3>2, <2>1 DEF HypothesisProposed, RecordRevision
      <4> HIDE DEF r
      <4>3. InLine(chains[h])
        BY <2>1 DEF FindingInv
      <4>4. /\ InLine(With(chains[h], r)) /\ With(chains[h], r) # << >>
            /\ DOMAIN chains[h] \subseteq DOMAIN With(chains[h], r)
            /\ \A i \in DOMAIN chains[h] : With(chains[h], r)[i] = chains[h][i]
        BY <4>1, <4>2, <4>3, TakingKeepsLine
      <4> QED BY <2>1, <4>2, <4>4, RecordingKeeps
    <3> QED BY <3>1, <3>2
  <2>5. Earned(d)'
    BY <2>1, <2>2, <2>3, <2>4 DEF Earned
  <2>6. \A f \in decisions : Earned(f)'
    BY <2>1, <2>2, <2>4, EarnedStays DEF FindingInv
  <2>7. AdjudicationIsKept'
    BY <2>1, AdjudicationKept DEF FindingInv
  <2> QED BY <2>1, <2>3, <2>4, <2>5, <2>6, <2>7 DEF FindingInv
<1>5. ASSUME NEW h \in Subject, NEW longer, InLine(longer), longer # << >>,
             DOMAIN chains[h] \subseteq DOMAIN longer,
             \A i \in DOMAIN chains[h] : longer[i] = chains[h][i],
             chains' = [chains EXCEPT ![h] = longer],
             \A s \in successions' : s \in successions \/
                 /\ s.of = h /\ Adjacent(longer, s.before, s.after)
                 /\ MayBecome(s.before.status, s.after.status),
             UNCHANGED <<executions, evidenceVars, adjudicationVars>>
      PROVE  FindingInv'
  <2>1. UNCHANGED <<executions, standing, decisions, cases, resolutions>>
    BY <1>5 DEF evidenceVars, adjudicationVars
  <2>2. /\ DOMAIN chains' = Subject
        /\ \A g \in Subject : InLine(chains'[g])
        /\ \A g \in Subject : chains[g] # << >> => chains'[g] # << >>
        /\ \A s \in successions' :
               /\ s.of \in Subject
               /\ Adjacent(chains'[s.of], s.before, s.after)
               /\ MayBecome(s.before.status, s.after.status)
    BY <1>5, RecordingKeeps
  <2>3. \A d \in decisions : Earned(d)'
    BY <2>1, <2>2, EarnedStays DEF FindingInv, Nodes
  <2> QED BY <2>1, <2>2, <2>3 DEF FindingInv, AdjudicationIsKept,
             CasesAreResolvedAsTheyStood, RevivedIsReopenedOrSupported
<1>6. ASSUME NEW h \in Subject, NEW r \in Held \union OnRecord(h)
      PROVE  r \in Revision /\ InLine(chains[h])
  <2>1. InLine(chains[h])
    BY DEF FindingInv
  <2>2. r \in OnRecord(h) => r \in Revision
    BY <2>1, ElementsOf DEF OnRecord, InLine
  <2> QED BY <2>1, <2>2, HeldAssumption
<1>7. ASSUME NEW h \in Subject, NEW r \in Held \union OnRecord(h), RecordHeld(h, r)
      PROVE  FindingInv'
  <2>1. /\ Takes(chains[h], r) /\ chains' = [chains EXCEPT ![h] = With(chains[h], r)]
        /\ UNCHANGED <<successions, executions, evidenceVars, adjudicationVars>>
    BY <1>7 DEF RecordHeld, RecordRevision
  <2>2. /\ InLine(With(chains[h], r)) /\ With(chains[h], r) # << >>
        /\ DOMAIN chains[h] \subseteq DOMAIN With(chains[h], r)
        /\ \A i \in DOMAIN chains[h] : With(chains[h], r)[i] = chains[h][i]
    BY <1>6, <2>1, TakingKeepsLine
  <2> QED BY <1>5, <2>1, <2>2
<1>8. ASSUME NEW h \in Subject, NEW r \in Held \union OnRecord(h),
             NEW new \in DOMAIN LegalFrom, NEW cut \in 0..MaxCut,
             TransitionHypothesis(h, r, new, cut)
      PROVE  FindingInv'
  <2> DEFINE revs  == With(chains[h], r)
             next   == [number |-> r.number + 1, status |-> new, cut |-> cut]
             goes   == MayBecome(r.status, new) /\ Takes(revs, next)
             longer == With(revs, next)
             answer == [of |-> h, before |-> r, after |-> next]
  <2>1. /\ Takes(chains[h], r)
        /\ chains' = [chains EXCEPT ![h] = IF goes THEN longer ELSE revs]
        /\ successions' = successions \union {s \in {answer} : goes}
        /\ UNCHANGED <<executions, evidenceVars, adjudicationVars>>
    BY <1>8 DEF TransitionHypothesis
  <2>2. /\ InLine(revs) /\ Has(revs, r) /\ revs # << >>
        /\ DOMAIN chains[h] \subseteq DOMAIN revs
        /\ \A i \in DOMAIN chains[h] : revs[i] = chains[h][i]
    BY <1>6, <2>1, TakingKeepsLine
  <2>3. /\ next \in Revision /\ next.number = r.number + 1 /\ next.status = new
        /\ answer.of = h /\ answer.before = r /\ answer.after = next
    BY <1>6 DEF Revision
  <2>4. goes => MayBecome(r.status, new) /\ Takes(revs, next)
    OBVIOUS
  <2> HIDE DEF revs, next, answer, goes
  <2>5. CASE ~goes
    <3>1. chains' = [chains EXCEPT ![h] = revs] /\ successions' = successions
      BY <2>1, <2>5
    <3> QED BY <1>5, <2>1, <2>2, <3>1
  <2>6. CASE goes
    <3>1. /\ InLine(longer) /\ Has(longer, next) /\ longer # << >>
          /\ DOMAIN revs \subseteq DOMAIN longer
          /\ \A i \in DOMAIN revs : longer[i] = revs[i]
      BY <2>2, <2>3, <2>4, <2>6, TakingKeepsLine
    <3>2. chains' = [chains EXCEPT ![h] = longer] /\ successions' = successions \union {answer}
      BY <2>1, <2>6
    <3> HIDE DEF longer
    <3>3. Has(longer, r)
      BY <2>2, <3>1 DEF Has
    <3>4. Adjacent(longer, r, next)
      BY <2>3, <3>1, <3>3, FollowersAreNeighbours
    <3>5. /\ DOMAIN chains[h] \subseteq DOMAIN longer
          /\ \A i \in DOMAIN chains[h] : longer[i] = chains[h][i]
      BY <2>2, <3>1
    <3>6. \A s \in successions' : s \in successions \/
             /\ s.of = h /\ Adjacent(longer, s.before, s.after)
             /\ MayBecome(s.before.status, s.after.status)
      BY <2>3, <2>4, <2>6, <3>2, <3>4
    <3> QED BY <1>5, <2>1, <3>1, <3>2, <3>5, <3>6
  <2> QED BY <2>5, <2>6
<1> QED BY <1>1, <1>3, <1>4, <1>7, <1>8 DEF FindingNext

LEMMA FindingInvHolds == FindingSpec => []FindingInv
<1>1. FindingInit /\ AdjudicationInit => FindingInv
  <2>1. InLine(<< >>)
    BY DEF InLine
  <2> QED BY <2>1 DEF FindingInit, AdjudicationInit, FindingInv, AdjudicationIsKept,
             CasesAreResolvedAsTheyStood, RevivedIsReopenedOrSupported
<1>2. FindingInv /\ [AuditNext]_auditVars => FindingInv'
  <2> SUFFICES ASSUME FindingInv, [AuditNext]_auditVars PROVE FindingInv'
    OBVIOUS
  <2>1. CASE EvidenceNext /\ UNCHANGED <<findingVars, adjudicationVars>>
    <3>1. /\ UNCHANGED <<executions, chains, successions, decisions, cases, resolutions>>
          /\ Nodes \subseteq Nodes'
      BY <2>1, EvidenceOnlyGrows DEF findingVars, hypothesisVars, adjudicationVars
    <3>2. \A d \in decisions : Earned(d)'
      BY <3>1, EarnedStays DEF FindingInv
    <3> QED BY <3>1, <3>2 DEF FindingInv, AdjudicationIsKept,
               CasesAreResolvedAsTheyStood, RevivedIsReopenedOrSupported
  <2>2. CASE UNCHANGED auditVars
    BY <2>2 DEF auditVars, findingVars, hypothesisVars, evidenceVars, adjudicationVars,
       FindingInv, Earned, Nodes, AdjudicationIsKept, CasesAreResolvedAsTheyStood,
       RevivedIsReopenedOrSupported
  <2> QED BY <2>1, <2>2, PipelinesEarn, OthersEarn DEF AuditNext
<1> QED BY <1>1, <1>2, PTL DEF FindingSpec

\* Whatever executions, pipelines and holders of old revisions do, and whatever others
\* adjudicate or invalidate meanwhile, no hypothesis is rewritten, a finding of the
\* pipelines has a recorded failure, its observation and a hypothesis, and adjudication
\* keeps what was decided: the rules of record_revision, of the three pipelines and of
\* the adjudication engine.
THEOREM FindingsStayEarned == FindingSpec => []FindingsAreEarned
<1>1. FindingInv => FindingsAreEarned
  BY DEF FindingInv, FindingsAreEarned, LineageIsKept, InLine, Adjacent, Earned
<1> QED BY <1>1, FindingInvHolds, PTL

-----------------------------------------------------------------------------
\* The ensembles in memory: the brokers.

SealHolds(e) ==
    /\ sealed[e] = << >> => answers[e] = {} /\ \A l \in BlindLane : shown[e][l] = {}
    /\ sealed[e] # << >> =>
           /\ sealed[e][1].notes = notes[e]
           /\ \A a \in answers[e] : a = sealed[e][1]
           /\ e = "E3" => \A l \in BlindLane : \E q \in Isolation :
                  sealed[e][1].basis[2][l] = <<q>> /\ Qualifies(q)

\* Before the seal nobody has been shown anything; after it nothing is recorded, and
\* every answer is the checkpoint.
BrokerInv ==
    /\ notes \in [Ensemble -> [BlindLane -> Seq([found : Discovery, seen : {{}}])]]
    /\ DOMAIN shown = Ensemble /\ \A e \in Ensemble : DOMAIN shown[e] = BlindLane
    /\ DOMAIN sealed = Ensemble /\ DOMAIN answers = Ensemble
    /\ DOMAIN qualification = BlindLane
    /\ \A l \in BlindLane : qualification[l] = << >>
           \/ \E q \in Isolation : Qualifies(q) /\ qualification[l] = <<q>>
    /\ \A e \in Ensemble : SealHolds(e)

LEMMA BrokersKeepFaith == BrokersSpec => []BrokerInv
<1>1. BrokersInit => BrokerInv
  BY DEF BrokersInit, BrokerInv, SealHolds, Ensemble
<1>2. BrokerInv /\ [BrokersNext]_brokerVars => BrokerInv'
  <2> SUFFICES ASSUME BrokerInv, [BrokersNext]_brokerVars PROVE BrokerInv'
    OBVIOUS
  <2>1. CASE UNCHANGED brokerVars
    BY <2>1 DEF BrokerInv, SealHolds, brokerVars
  <2>2. ASSUME NEW l \in BlindLane, NEW q \in Isolation, RegisterIsolation(l, q) PROVE BrokerInv'
    BY <2>2 DEF BrokerInv, SealHolds, RegisterIsolation
  <2>3. ASSUME NEW e \in Ensemble, NEW l \in BlindLane, NEW d \in Discovery,
               RecordDiscovery(e, l, d)
        PROVE  BrokerInv'
    <3>1. sealed[e] = << >> /\ shown[e][l] = {}
      BY <2>3 DEF RecordDiscovery, BrokerInv, SealHolds
    <3> DEFINE note == [found |-> d, seen |-> {}]
               longer == Append(notes[e][l], note)
    <3>2. notes' = [notes EXCEPT ![e][l] = longer]
      BY <2>3, <3>1 DEF RecordDiscovery, Noted
    <3>3. longer \in Seq([found : Discovery, seen : {{}}])
      <4>1. notes[e][l] \in Seq([found : Discovery, seen : {{}}])
        BY <2>3 DEF BrokerInv
      <4>2. note \in [found : Discovery, seen : {{}}]
        BY <2>3
      <4> HIDE DEF note
      <4> QED BY <4>1, <4>2
    <3> HIDE DEF longer
    <3>4. notes' \in [Ensemble -> [BlindLane -> Seq([found : Discovery, seen : {{}}])]]
      BY <3>2, <3>3 DEF BrokerInv
    <3>5. \A f \in Ensemble : sealed[f] # << >> => notes'[f] = notes[f]
      BY <3>1, <3>2 DEF BrokerInv
    <3>6. UNCHANGED <<shown, qualification, sealed, answers>>
      BY <2>3 DEF RecordDiscovery, Noted
    <3> QED BY <3>4, <3>5, <3>6 DEF BrokerInv, SealHolds
  <2>4. ASSUME NEW e \in Ensemble, NEW l \in BlindLane, NEW goal \in BlindLane,
               Query(e, l, goal)
        PROVE  BrokerInv'
    <3>1. UNCHANGED <<notes, qualification, sealed, answers>>
      BY <2>4 DEF Query
    <3>2. /\ DOMAIN shown' = Ensemble /\ \A f \in Ensemble : DOMAIN shown'[f] = BlindLane
          /\ \A f \in Ensemble : sealed[f] = << >> => \A m \in BlindLane : shown'[f][m] = {}
      <4> DEFINE more == {<<goal, n>> : n \in IF l = goal THEN {} ELSE DOMAIN notes[e][goal]}
      <4>1. shown' = [shown EXCEPT ![e][l] = @ \union more]
        BY <2>4 DEF Query
      <4>2. sealed[e] = << >> => more = {}
        BY <2>4 DEF Query
      <4>3. \A f \in Ensemble : sealed[f] = << >> => \A m \in BlindLane : shown[f][m] = {}
        BY DEF BrokerInv, SealHolds
      <4> HIDE DEF more
      <4> QED BY <4>1, <4>2, <4>3 DEF BrokerInv
    <3> QED BY <3>1, <3>2 DEF BrokerInv, SealHolds
  <2>5. ASSUME NEW e \in Ensemble, NEW cut \in SealCut, SealCheckpoint(e, cut) PROVE BrokerInv'
    <3>1. UNCHANGED <<notes, shown, qualification>>
      BY <2>5 DEF SealCheckpoint
    <3>2. /\ DOMAIN sealed' = Ensemble /\ DOMAIN answers' = Ensemble
          /\ \A f \in Ensemble \ {e} : sealed'[f] = sealed[f] /\ answers'[f] = answers[f]
          /\ answers'[e] = answers[e] \union {sealed'[e][1]}
      BY <2>5 DEF SealCheckpoint, BrokerInv
    <3>3. CASE sealed[e] # << >>
      <4>1. sealed'[e] = sealed[e]
        BY <2>5, <3>3 DEF SealCheckpoint
      <4>2. SealHolds(e)'
        BY <3>1, <3>2, <3>3, <4>1 DEF BrokerInv, SealHolds
      <4>3. \A f \in Ensemble \ {e} : SealHolds(f)'
        BY <3>1, <3>2 DEF BrokerInv, SealHolds
      <4> QED BY <3>1, <3>2, <4>2, <4>3 DEF BrokerInv
    <3>4. CASE sealed[e] = << >>
      <4> DEFINE content == Checkpoint(e, cut)
      <4>1. sealed'[e] = <<content>> /\ (e = "E3" => \A l \in BlindLane : qualification[l] # << >>)
        BY <2>5, <3>4 DEF SealCheckpoint, BrokerInv
      <4>2. sealed'[e] # << >> /\ sealed'[e][1] = content /\ answers[e] = {}
        BY <3>4, <4>1 DEF BrokerInv, SealHolds
      <4>3. content.notes = notes[e] /\ (e = "E3" => content.basis[2] = qualification)
        BY DEF Checkpoint
      <4>4. e = "E3" => \A l \in BlindLane : \E q \in Isolation :
                            content.basis[2][l] = <<q>> /\ Qualifies(q)
        BY <4>1, <4>3 DEF BrokerInv
      <4> HIDE DEF content
      <4>5. SealHolds(e)'
        BY <3>1, <3>2, <4>2, <4>3, <4>4 DEF SealHolds
      <4>6. \A f \in Ensemble \ {e} : SealHolds(f)'
        BY <3>1, <3>2 DEF BrokerInv, SealHolds
      <4> QED BY <3>1, <3>2, <4>5, <4>6 DEF BrokerInv
    <3> QED BY <3>3, <3>4
  <2> QED BY <2>1, <2>2, <2>3, <2>4, <2>5 DEF BrokersNext
<1> QED BY <1>1, <1>2, PTL DEF BrokersSpec

\* What the brokers of E1 and E3 keep apart, for any lanes, discoveries and callers.
THEOREM LanesStayBlind == BrokersSpec => []BlindnessIsKept
<1>1. BrokerInv => BlindnessIsKept
  <2> SUFFICES ASSUME BrokerInv, NEW e \in Ensemble
               PROVE  /\ \A l \in BlindLane : \A i \in DOMAIN notes[e][l] : notes[e][l][i].seen = {}
                      /\ \A a \in answers[e] :
                             /\ a.notes = notes[e]
                             /\ \A b \in answers[e] : a = b
                             /\ e = "E3" => \A l \in BlindLane : \E q \in Isolation :
                                                a.basis[2][l] = <<q>> /\ Qualifies(q)
    BY DEF BlindnessIsKept
  <2>1. ASSUME NEW l \in BlindLane, NEW i \in DOMAIN notes[e][l] PROVE notes[e][l][i].seen = {}
    <3>1. notes[e][l] \in Seq([found : Discovery, seen : {{}}])
      BY <2>1 DEF BrokerInv
    <3>2. notes[e][l][i] \in [found : Discovery, seen : {{}}]
      BY <2>1, <3>1, ElementsOf
    <3> QED BY <3>2
  <2>2. ASSUME NEW a \in answers[e] PROVE sealed[e] # << >> /\ a = sealed[e][1]
    BY <2>2 DEF BrokerInv, SealHolds
  <2> QED BY <2>1, <2>2 DEF BrokerInv, SealHolds
<1> QED BY <1>1, BrokersKeepFaith, PTL

-----------------------------------------------------------------------------
\* The convergence of E2.

ConvergenceInv ==
    \A r \in converged :
        /\ r.claims \in released
        /\ r.decisions = {Converged(Converging(r.claims, c)) : c \in r.claims}

LEMMA ConvergencesHold == ConvergenceSpec => []ConvergenceInv
<1>1. ConvergenceInit => ConvergenceInv
  BY DEF ConvergenceInit, ConvergenceInv
<1>2. ConvergenceInv /\ [ConvergenceNext]_convergenceVars => ConvergenceInv'
  BY DEF ConvergenceInv, ConvergenceNext, ExecuteE1, ExecuteE2, convergenceVars
<1> QED BY <1>1, <1>2, PTL DEF ConvergenceSpec

\* An axis is decided only by evidence that agrees.
LEMMA AxesAgree ==
    ASSUME NEW group, NEW axis, NEW o \in {"SUPPORTED", "REFUTED"}, AxisOutcome(group, axis) = o
    PROVE  Evidenced(group, axis) = {o}
<1>1. PICK q \in Evidenced(group, axis) : Evidenced(group, axis) = {q}
  BY DEF AxisOutcome
<1>2. AxisOutcome(group, axis) \in Evidenced(group, axis)
  BY <1>1 DEF AxisOutcome
<1> QED BY <1>1, <1>2

\* What the status of a decision says of the axes.
LEMMA StatusIsOfTheAxes ==
    ASSUME NEW axes
    PROVE  /\ ComputedStatus(axes) = "CONFIRMED_CURRENT" =>
                  \A a \in OperationalAxis : axes[a] = "SUPPORTED"
           /\ ComputedStatus(axes) = "REJECTED" => \E a \in OperationalAxis : axes[a] = "REFUTED"
  BY DEF ComputedStatus, Outcomes

\* What E2 makes of claims, for any claims: none is lost or decided twice, two lanes are
\* merged only on a common root cause or place, and evidence decides.
THEOREM ConvergenceStaysEvidenced == ConvergenceSpec => []ConvergenceIsEvidenced
<1>1. ConvergenceInv => ConvergenceIsEvidenced
  <2> SUFFICES ASSUME ConvergenceInv, NEW r \in converged
               PROVE  /\ r.claims \in released
                      /\ \A c \in r.claims : \E d \in r.decisions :
                             c \in d.claims /\ \A f \in r.decisions : c \in f.claims => f = d
                      /\ \A d \in r.decisions : IsEvidenced(d) /\ d.claims \subseteq r.claims
    BY DEF ConvergenceIsEvidenced
  <2> DEFINE group(c) == Converging(r.claims, c)
  <2>1. r.claims \in released /\ r.decisions = {Converged(group(c)) : c \in r.claims}
    BY DEF ConvergenceInv
  <2>2. \A c : Converged(group(c)).claims = group(c)
    BY DEF Converged
  <2>3. ASSUME NEW b \in r.claims, NEW c \in group(b) PROVE group(c) = group(b)
    BY <2>3 DEF Converging
  <2>4. \A c \in r.claims : c \in group(c) /\ group(c) \subseteq r.claims
    BY DEF Converging
  <2>5. ASSUME NEW c \in r.claims
        PROVE  \E d \in r.decisions :
                   c \in d.claims /\ \A f \in r.decisions : c \in f.claims => f = d
    <3> HIDE DEF group
    <3>1. Converged(group(c)) \in r.decisions /\ c \in Converged(group(c)).claims
      BY <2>1, <2>2, <2>4, <2>5
    <3>2. ASSUME NEW f \in r.decisions, c \in f.claims PROVE f = Converged(group(c))
      <4>1. PICK b \in r.claims : f = Converged(group(b))
        BY <2>1, <3>2
      <4>2. c \in group(b)
        BY <2>2, <3>2, <4>1
      <4> QED BY <2>3, <4>1, <4>2
    <3> QED BY <3>1, <3>2
  <2>6. ASSUME NEW d \in r.decisions PROVE IsEvidenced(d) /\ d.claims \subseteq r.claims
    <3>1. PICK b \in r.claims : d = Converged(group(b))
      BY <2>1, <2>6
    <3>2. d.claims = group(b) /\ group(b) \subseteq r.claims
      BY <2>2, <2>4, <3>1
    <3>3. ASSUME NEW x \in d.claims, NEW y \in d.claims, x.lane # y.lane
          PROVE  \/ x.found.root # "" /\ x.found.root = y.found.root
                 \/ x.found.place # "" /\ x.found.place = y.found.place
      <4>1. ConvergenceKey(x) = ConvergenceKey(y)
        BY <3>2, <3>3 DEF Converging
      <4> QED BY <3>3, <4>1 DEF ConvergenceKey
    <3> DEFINE axes == [a \in OperationalAxis |-> AxisOutcome(group(b), a)]
    <3>4. /\ d.status = ComputedStatus(axes)
          /\ d.contradiction = ({"SUPPORTED", "REFUTED"} \subseteq {Position(c) : c \in group(b)})
      BY <3>1 DEF Converged
    <3>5. \A a \in OperationalAxis : axes[a] = AxisOutcome(d.claims, a)
      BY <3>2
    <3> HIDE DEF axes, group
    <3>6. d.status = "CONFIRMED_CURRENT" =>
              \A axis \in OperationalAxis : Evidenced(d.claims, axis) = {"SUPPORTED"}
      BY <3>4, <3>5, StatusIsOfTheAxes, AxesAgree
    <3>7. d.status = "REJECTED" =>
              \E axis \in OperationalAxis : Evidenced(d.claims, axis) = {"REFUTED"}
      BY <3>4, <3>5, StatusIsOfTheAxes, AxesAgree
    <3>8. ASSUME d.contradiction
          PROVE  \E x, y \in d.claims : /\ x.found.evidence /\ x.found.outcome = "SUPPORTED"
                                        /\ y.found.evidence /\ y.found.outcome = "REFUTED"
      <4>1. \E x \in d.claims : Position(x) = "SUPPORTED"
        BY <3>2, <3>4, <3>8
      <4>2. \E y \in d.claims : Position(y) = "REFUTED"
        BY <3>2, <3>4, <3>8
      <4>3. \A x : Position(x) \in {"SUPPORTED", "REFUTED"} =>
                       x.found.evidence /\ x.found.outcome = Position(x)
        BY DEF Position
      <4> QED BY <4>1, <4>2, <4>3
    <3> QED BY <3>2, <3>3, <3>6, <3>7, <3>8 DEF IsEvidenced
  <2> QED BY <2>1, <2>5, <2>6
<1> QED BY <1>1, ConvergencesHold, PTL

-----------------------------------------------------------------------------
\* The blind run of E3 and the reveals.

\* A reveal has made the knowledge there is after it, and of the gaps it is of a
\* checkpoint.
Happened(e) ==
    /\ e.after \in knowledge
    /\ e.type = "GAP" =>
           /\ "GAP" \in e.after.classes
           /\ \E c \in checkpoints : e.checkpoint = {c} /\ c.cut = e.after.trial.cut

Accounted(k) ==
    /\ FollowsOn(k) /\ ExposuresInOrder(k)
    /\ \A x \in k.exposures : IsRevealed(x)

IsProjection(p) ==
    \E e \in reveals : e.type = "GAP" /\ p = [view |-> e.view, checkpoint |-> e.checkpoint]

Scheduled(s) ==
    /\ s.event \in reveals /\ s.event.type = "GAP"
    /\ IsProjection(s.projection) /\ s.projection.checkpoint = s.event.checkpoint

RevealInv ==
    /\ \A k \in knowledge : Accounted(k)
    /\ \A e \in reveals : Happened(e)
    /\ \A s \in schedulers : Scheduled(s)
    /\ OriginsAreTrue

\* What the store of each kind of object keeps while others grow.
LEMMA GrowthKeeps ==
    ASSUME RevealInv, knowledge \subseteq knowledge', reveals \subseteq reveals',
           checkpoints \subseteq checkpoints'
    PROVE  /\ \A k \in knowledge : Accounted(k)'
           /\ \A e \in reveals : Happened(e)'
           /\ \A s \in schedulers : /\ s.event \in reveals' /\ s.event.type = "GAP"
                                    /\ IsProjection(s.projection)'
                                    /\ s.projection.checkpoint = s.event.checkpoint
<1>1. ASSUME NEW k \in knowledge PROVE Accounted(k)'
  <2>1. Accounted(k)
    BY DEF RevealInv
  <2>2. FollowsOn(k)'
    BY <2>1 DEF Accounted, FollowsOn
  <2>3. ExposuresInOrder(k)'
    BY <2>1 DEF Accounted, ExposuresInOrder
  <2>4. \A x \in k.exposures : IsRevealed(x)'
    BY <2>1 DEF Accounted, IsRevealed
  <2> QED BY <2>2, <2>3, <2>4 DEF Accounted
<1>2. ASSUME NEW e \in reveals PROVE Happened(e)'
  <2>1. Happened(e)
    BY DEF RevealInv
  <2> QED BY <2>1 DEF Happened
<1>3. ASSUME NEW s \in schedulers
      PROVE  /\ s.event \in reveals' /\ s.event.type = "GAP" /\ IsProjection(s.projection)'
             /\ s.projection.checkpoint = s.event.checkpoint
  <2>1. Scheduled(s)
    BY DEF RevealInv
  <2> QED BY <2>1 DEF Scheduled, IsProjection
<1> QED BY <1>1, <1>2, <1>3

\* Where nothing new is said of origins, those there are stay true.
LEMMA OriginsStay ==
    ASSUME OriginsAreTrue, knowledge \subseteq knowledge', reveals \subseteq reveals',
           checkpoints \subseteq checkpoints', UNCHANGED <<blinds, directed, candidates>>
    PROVE  OriginsAreTrue'
<1>1. \A b \in blinds : \A c, d \in b.claims :
          /\ c.knowledge \in knowledge' /\ c.knowledge.exposures = {}
          /\ c.lane # d.lane => c.knowledge.trial.run # d.knowledge.trial.run
  BY DEF OriginsAreTrue
<1>2. \A d \in directed : d.knowledge \in knowledge' /\ "GAP" \in d.knowledge.classes
  BY DEF OriginsAreTrue
<1>3. ASSUME NEW g \in candidates PROVE OfItsCheckpoint(g)'
  <2>1. OfItsCheckpoint(g)
    BY DEF OriginsAreTrue
  <2> QED BY <2>1 DEF OfItsCheckpoint
<1> QED BY <1>1, <1>2, <1>3 DEF OriginsAreTrue

\* A view, be it new or one that was shown before, is exposed to knowledge there is, in
\* the order of the kinds: what the three reveals have in common.
LEMMA RevealKeeps ==
    ASSUME RevealInv, NEW k \in knowledge, NEW type \in {"GAP", "CUMULATIVE", "HOLDOUT"},
           NEW view, NEW of, Revealed(k, type, view, {type}, of),
           type = "GAP" => /\ "GAP" \notin k.classes
                           /\ \E c \in checkpoints : of = {c} /\ c.cut = k.trial.cut,
           type = "CUMULATIVE" => "GAP" \in k.classes,
           type = "HOLDOUT" => "CUMULATIVE" \in k.classes
    PROVE  RevealInv'
<1>a. PICK w : w = Exposed(k, type, view, {type})
  OBVIOUS
<1>b. PICK x : x = [type |-> type, view |-> view, before |-> k]
  OBVIOUS
<1>c. PICK ev : ev = [type |-> type, view |-> view, checkpoint |-> of,
                      before |-> k, after |-> w]
  OBVIOUS
<1>1. /\ knowledge' = knowledge \union {w} /\ reveals' = reveals \union {ev}
      /\ UNCHANGED <<blinds, checkpoints, schedulers, directed, candidates>>
  BY <1>a, <1>c DEF Revealed
<1>2. Accounted(k)
  BY DEF RevealInv
<1>3. /\ w.trial = k.trial /\ w.classes = k.classes \union {type} /\ w.allowed = {view}
      /\ w.exposures = k.exposures \union {x} /\ w.previous = {k}
  BY <1>a, <1>b DEF Exposed
<1>4. x.type = type /\ x.view = view /\ x.before = k
  BY <1>b
<1>5. /\ ev.type = type /\ ev.view = view /\ ev.checkpoint = of
      /\ ev.before = k /\ ev.after = w
  BY <1>c
<1>6. \A c \in {"GAP", "CUMULATIVE", "HOLDOUT"} :
         c \in k.classes <=> \E y \in k.exposures : y.type = c
  <2>1. {y.type : y \in k.exposures} = k.classes \ {"LOCAL"}
    BY <1>2 DEF Accounted, ExposuresInOrder
  <2> QED BY <2>1
<1>7. ExposuresInOrder(w)'
  <2>1. {y.type : y \in w.exposures} = w.classes \ {"LOCAL"}
    <3>1. {y.type : y \in k.exposures} = k.classes \ {"LOCAL"}
      BY <1>2 DEF Accounted, ExposuresInOrder
    <3>2. {y.type : y \in w.exposures} = {y.type : y \in k.exposures} \union {type}
      BY <1>3, <1>4
    <3> QED BY <1>3, <3>1, <3>2
  <2>2. ASSUME NEW y \in w.exposures
        PROVE  /\ y.before \in knowledge' /\ y.before.trial = w.trial
               /\ y.before.exposures \subseteq w.exposures
               /\ y.type = "CUMULATIVE" => \E z \in y.before.exposures : z.type = "GAP"
               /\ y.type = "HOLDOUT" => \E z \in y.before.exposures : z.type = "CUMULATIVE"
    <3>1. CASE y \in k.exposures
      BY <1>1, <1>2, <1>3, <3>1 DEF Accounted, ExposuresInOrder
    <3>2. CASE y = x
      BY <1>1, <1>3, <1>4, <1>6, <3>2
    <3> QED BY <1>3, <3>1, <3>2
  <2>3. ASSUME NEW y \in w.exposures, y.type = "GAP", NEW z \in w.exposures, z.type = "GAP"
        PROVE  z = y
    <3>1. CASE type = "GAP"
      <4>1. \A v \in k.exposures : v.type # "GAP"
        BY <1>6, <3>1
      <4> QED BY <1>3, <2>3, <4>1
    <3>2. CASE type # "GAP"
      <4>1. y \in k.exposures /\ z \in k.exposures
        BY <1>3, <1>4, <2>3, <3>2
      <4> QED BY <1>2, <2>3, <4>1 DEF Accounted, ExposuresInOrder
    <3> QED BY <3>1, <3>2
  <2> QED BY <2>1, <2>2, <2>3 DEF ExposuresInOrder
<1>8. /\ \A j \in knowledge : Accounted(j)'
      /\ \A e \in reveals : Happened(e)'
      /\ \A s \in schedulers : /\ s.event \in reveals' /\ s.event.type = "GAP"
                               /\ IsProjection(s.projection)'
                               /\ s.projection.checkpoint = s.event.checkpoint
  BY <1>1, GrowthKeeps
<1>9. Accounted(w)'
  <2>1. FollowsOn(w)'
    BY <1>1, <1>3, <1>4 DEF FollowsOn
  <2>2. \A y \in k.exposures : IsRevealed(y)'
    BY <1>8 DEF Accounted
  <2>3. IsRevealed(x)'
    <3>1. /\ ev \in reveals' /\ ev.view = x.view /\ ev.type = x.type
          /\ ev.before = x.before /\ ev.after.trial = x.before.trial
      BY <1>1, <1>3, <1>4, <1>5
    <3>2. x.type = "GAP" =>
             \E c \in checkpoints' : ev.checkpoint = {c} /\ c.cut = x.before.trial.cut
      BY <1>1, <1>4, <1>5
    <3> QED BY <3>1, <3>2 DEF IsRevealed
  <2>4. \A y \in w.exposures : IsRevealed(y)'
    BY <1>3, <2>2, <2>3
  <2> QED BY <1>7, <2>1, <2>4 DEF Accounted
<1>10. Happened(ev)'
  BY <1>1, <1>3, <1>5 DEF Happened
<1>11. OriginsAreTrue'
  BY <1>1, OriginsStay DEF RevealInv
<1> QED BY <1>1, <1>8, <1>9, <1>10, <1>11 DEF RevealInv, Scheduled

\* Where an action reveals nothing.
LEMMA WithoutReveal ==
    ASSUME RevealInv, UNCHANGED reveals, knowledge \subseteq knowledge',
           checkpoints \subseteq checkpoints',
           \A k \in knowledge' \ knowledge : Accounted(k)',
           \A s \in schedulers' \ schedulers : Scheduled(s)',
           OriginsAreTrue'
    PROVE  RevealInv'
<1>1. /\ \A k \in knowledge : Accounted(k)'
      /\ \A e \in reveals : Happened(e)'
      /\ \A s \in schedulers : /\ s.event \in reveals' /\ s.event.type = "GAP"
                               /\ IsProjection(s.projection)'
                               /\ s.projection.checkpoint = s.event.checkpoint
  BY GrowthKeeps
<1>2. \A s \in schedulers' : Scheduled(s)'
  BY <1>1 DEF Scheduled
<1>3. \A k \in knowledge' : Accounted(k)'
  BY <1>1
<1> QED BY <1>1, <1>2, <1>3 DEF RevealInv

LEMMA RevealsKeepAccount == RevealsSpec => []RevealInv
<1>1. RevealsInit => RevealInv
  BY DEF RevealsInit, RevealInv, OriginsAreTrue
<1>2. RevealInv /\ [RevealsNext]_revealVars => RevealInv'
  <2> SUFFICES ASSUME RevealInv, [RevealsNext]_revealVars PROVE RevealInv'
    OBVIOUS
  <2>1. CASE UNCHANGED revealVars
    BY <2>1, OriginsStay, WithoutReveal DEF revealVars, RevealInv
  <2>2. ASSUME NEW t \in Trial, CreateBlindAttempt(t) PROVE RevealInv'
    <3> DEFINE k == [trial |-> t, allowed |-> {}, classes |-> {"LOCAL"}, exposures |-> {},
                     previous |-> {}]
    <3>1. /\ knowledge' = knowledge \union {k}
          /\ UNCHANGED <<blinds, checkpoints, reveals, views, schedulers, directed, candidates>>
      BY <2>2 DEF CreateBlindAttempt
    <3>2. Accounted(k)'
      BY DEF Accounted, FollowsOn, ExposuresInOrder
    <3> HIDE DEF k
    <3>3. OriginsAreTrue'
      BY <3>1, OriginsStay DEF RevealInv
    <3> QED BY <3>1, <3>2, <3>3, WithoutReveal
  <2>3. ASSUME NEW contexts \in [BlindLane -> knowledge], NEW cut, NEW source,
               NEW found \in [BlindLane -> SUBSET Discovery],
               ExecuteBlind(contexts, cut, source, found)
        PROVE  RevealInv'
    <3> DEFINE claims == UNION {{[lane |-> l, found |-> d, knowledge |-> contexts[l]] :
                                    d \in found[l]} : l \in BlindLane}
               b == [cut |-> cut, source |-> source, claims |-> claims]
    <3>1. /\ blinds' = blinds \union {b}
          /\ UNCHANGED <<knowledge, checkpoints, reveals, views, schedulers, directed, candidates>>
      BY <2>3 DEF ExecuteBlind
    <3>2. \A l \in BlindLane : contexts[l] \in knowledge /\ contexts[l].exposures = {}
      BY <2>3 DEF ExecuteBlind, LaneContextFits
    <3>3. \A l, m \in BlindLane : l # m => contexts[l].trial.run # contexts[m].trial.run
      BY <2>3 DEF ExecuteBlind
    <3>4. ASSUME NEW c \in claims PROVE c.lane \in BlindLane /\ c.knowledge = contexts[c.lane]
      BY <3>4
    <3>5. b.claims = claims
      OBVIOUS
    <3> HIDE DEF claims, b
    <3>6. ASSUME NEW c \in b.claims, NEW d \in b.claims
          PROVE  /\ c.knowledge \in knowledge' /\ c.knowledge.exposures = {}
                 /\ c.lane # d.lane => c.knowledge.trial.run # d.knowledge.trial.run
      BY <3>1, <3>2, <3>3, <3>4, <3>5, <3>6
    <3>7. \A h \in blinds : \A c, d \in h.claims :
              /\ c.knowledge \in knowledge' /\ c.knowledge.exposures = {}
              /\ c.lane # d.lane => c.knowledge.trial.run # d.knowledge.trial.run
      BY <3>1 DEF RevealInv, OriginsAreTrue
    <3>8. \A d \in directed' : d.knowledge \in knowledge' /\ "GAP" \in d.knowledge.classes
      BY <3>1 DEF RevealInv, OriginsAreTrue
    <3>9. ASSUME NEW g \in candidates' PROVE OfItsCheckpoint(g)'
      <4>1. OfItsCheckpoint(g)
        BY <3>1 DEF RevealInv, OriginsAreTrue
      <4> QED BY <3>1, <4>1 DEF OfItsCheckpoint
    <3>10. OriginsAreTrue'
      BY <3>1, <3>6, <3>7, <3>8, <3>9 DEF OriginsAreTrue
    <3> QED BY <3>1, <3>10, WithoutReveal
  <2>4. ASSUME NEW b \in blinds, NEW cut, CreateCheckpoint(b, cut) PROVE RevealInv'
    <3>1. /\ checkpoints \subseteq checkpoints'
          /\ UNCHANGED <<knowledge, blinds, reveals, views, schedulers, directed, candidates>>
      BY <2>4 DEF CreateCheckpoint
    <3>2. OriginsAreTrue'
      BY <3>1, OriginsStay DEF RevealInv
    <3> QED BY <3>1, <3>2, WithoutReveal
  <2>5. ASSUME NEW k \in knowledge, NEW c \in checkpoints, NEW cut, RevealGaps(k, c, cut)
        PROVE  RevealInv'
    <3>1. Revealed(k, "GAP", views', {"GAP"}, {c}) /\ "GAP" \notin k.classes /\ c.cut = k.trial.cut
      BY <2>5 DEF RevealGaps
    <3> QED BY <3>1, RevealKeeps
  <2>6. ASSUME NEW s \in schedulers, NEW manifest \in Manifest, NEW cut,
               RevealCorpus(s, manifest, cut)
        PROVE  RevealInv'
    <3>1. /\ Revealed(s.event.after, "CUMULATIVE", manifest, {"CUMULATIVE"},
                      s.projection.checkpoint)
          /\ "GAP" \in s.event.after.classes
      BY <2>6 DEF RevealCorpus
    <3>2. s.event.after \in knowledge
      BY DEF RevealInv, Scheduled, Happened
    <3> QED BY <3>1, <3>2, RevealKeeps
  <2>7. ASSUME NEW k \in knowledge, NEW manifest \in Manifest, NEW role, NEW cut,
               RevealHoldout(k, manifest, role, cut)
        PROVE  RevealInv'
    <3>1. Revealed(k, "HOLDOUT", manifest, {"HOLDOUT"}, {}) /\ "CUMULATIVE" \in k.classes
      BY <2>7 DEF RevealHoldout
    <3> QED BY <3>1, RevealKeeps
  <2>8. ASSUME NEW p \in Projections, NEW e \in reveals, NEW k \in knowledge,
               StartScheduler(p, e, k)
        PROVE  RevealInv'
    <3> DEFINE s == [projection |-> p, event |-> e]
    <3>1. /\ e.type = "GAP" /\ e.checkpoint = p.checkpoint
          /\ schedulers' = schedulers \union {s}
          /\ UNCHANGED <<knowledge, blinds, checkpoints, reveals, views, directed, candidates>>
      BY <2>8 DEF StartScheduler
    <3>2. IsProjection(p)
      BY <2>8 DEF Projections, IsProjection
    <3>3. s.projection = p /\ s.event = e
      OBVIOUS
    <3> HIDE DEF s
    <3>4. Scheduled(s)'
      BY <3>1, <3>2, <3>3 DEF Scheduled, IsProjection
    <3>5. OriginsAreTrue'
      BY <3>1, OriginsStay DEF RevealInv
    <3> QED BY <3>1, <3>4, <3>5, WithoutReveal
  <2>9. ASSUME NEW s \in schedulers, NEW d \in Discovery, NEW class, RecordGapDirected(s, d, class)
        PROVE  RevealInv'
    <3> DEFINE r == [found |-> d, knowledge |-> s.event.after, class |-> "POST_REVEAL_CONFIRMATION"]
    <3>1. /\ directed' = directed \union {r}
          /\ UNCHANGED <<knowledge, blinds, checkpoints, reveals, views, schedulers, candidates>>
      BY <2>9 DEF RecordGapDirected
    <3>2. r.knowledge = s.event.after
      OBVIOUS
    <3> HIDE DEF r
    <3>3. r.knowledge \in knowledge /\ "GAP" \in r.knowledge.classes
      BY <3>2 DEF RevealInv, Scheduled, Happened
    <3>4. \A b \in blinds : \A c, f \in b.claims :
              /\ c.knowledge \in knowledge' /\ c.knowledge.exposures = {}
              /\ c.lane # f.lane => c.knowledge.trial.run # f.knowledge.trial.run
      BY <3>1 DEF RevealInv, OriginsAreTrue
    <3>5. \A f \in directed' : f.knowledge \in knowledge' /\ "GAP" \in f.knowledge.classes
      BY <3>1, <3>3 DEF RevealInv, OriginsAreTrue
    <3>6. ASSUME NEW g \in candidates' PROVE OfItsCheckpoint(g)'
      <4>1. OfItsCheckpoint(g)
        BY <3>1 DEF RevealInv, OriginsAreTrue
      <4> QED BY <3>1, <4>1 DEF OfItsCheckpoint
    <3>7. OriginsAreTrue'
      BY <3>1, <3>4, <3>5, <3>6 DEF OriginsAreTrue
    <3> QED BY <3>1, <3>7, WithoutReveal
  <2>10. ASSUME NEW b \in blinds, NEW c \in checkpoints, NEW p \in Projections, NEW e \in reveals,
                NEW s \in schedulers, NEW i, EvaluateGate(b, c, p, e, s, i)
         PROVE  RevealInv'
    <3> DEFINE missed == {x \in i.surfaces : FalseNegative(x)}
               g == [blind |-> b, checkpoint |-> c, projection |-> p, missed |-> missed]
    <3>1. /\ c = CheckpointOf(b)
          /\ candidates' = candidates \union {g}
          /\ UNCHANGED <<knowledge, blinds, checkpoints, reveals, views, schedulers, directed>>
      BY <2>10 DEF EvaluateGate, GatePasses
    <3>2. g.blind = b /\ g.checkpoint = c /\ g.projection = p
      OBVIOUS
    <3> HIDE DEF missed, g
    <3>3. c.found = {<<d.lane, d.found>> : d \in b.claims}
      BY <3>1 DEF CheckpointOf
    <3>4. \E f \in reveals : /\ f.type = "GAP" /\ f.view = p.view
                             /\ f.checkpoint = p.checkpoint /\ f.checkpoint \subseteq checkpoints
      <4>1. PICK f \in reveals : /\ f.type = "GAP"
                                 /\ p = [view |-> f.view, checkpoint |-> f.checkpoint]
        BY <2>10 DEF Projections
      <4>2. \E h \in checkpoints : f.checkpoint = {h}
        BY <4>1 DEF RevealInv, Happened
      <4>3. p.view = f.view /\ p.checkpoint = f.checkpoint
        BY <4>1
      <4> QED BY <4>1, <4>2, <4>3
    <3>5. OfItsCheckpoint(g)
      BY <2>10, <3>2, <3>3, <3>4 DEF OfItsCheckpoint
    <3>6. \A h \in candidates : OfItsCheckpoint(h)
      BY DEF RevealInv, OriginsAreTrue
    <3>7. ASSUME NEW h \in candidates' PROVE OfItsCheckpoint(h)'
      <4>1. OfItsCheckpoint(h)
        BY <3>1, <3>5, <3>6
      <4> QED BY <3>1, <4>1 DEF OfItsCheckpoint
    <3>8. OriginsAreTrue'
      BY <3>1, <3>7 DEF RevealInv, OriginsAreTrue
    <3> QED BY <3>1, <3>8, WithoutReveal
  <2> QED BY <2>1, <2>2, <2>3, <2>4, <2>5, <2>6, <2>7, <2>8, <2>9, <2>10 DEF RevealsNext
<1> QED BY <1>1, <1>2, PTL DEF RevealsSpec

\* What each attempt knows is what was revealed to it, a view at a time and in order,
\* also where callers show one manifest again or to several attempts; and what is called
\* blind was found by attempts to which nothing was.
THEOREM KnowledgeStaysAccounted == RevealsSpec => [](KnowledgeIsAccounted /\ OriginsAreTrue)
<1>1. RevealInv => KnowledgeIsAccounted /\ OriginsAreTrue
  BY DEF RevealInv, Accounted, KnowledgeIsAccounted
<1> QED BY <1>1, RevealsKeepAccount, PTL

\* The three together, as the ensembles of one process are checked (orchestration/e1,
\* e2, e3 in memory).
THEOREM EnsemblesStaySound ==
    BrokersSpec /\ ConvergenceSpec /\ RevealsSpec => []EnsemblesAreSound
<1>1. BlindnessIsKept /\ ConvergenceIsEvidenced /\ KnowledgeIsAccounted /\ OriginsAreTrue
         => EnsemblesAreSound
  BY DEF EnsemblesAreSound
<1> QED BY <1>1, LanesStayBlind, ConvergenceStaysEvidenced, KnowledgeStaysAccounted, PTL

=============================================================================
