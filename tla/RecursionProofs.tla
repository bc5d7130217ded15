--------------------------- MODULE RecursionProofs ---------------------------
(***************************************************************************)
(* What TLAPS proves about the components whose rules compute over data of *)
(* any depth: the checks of traces and of endurance samples, the shrinking *)
(* of a failing sequence of actions, the search of a state model, and the  *)
(* evidence graph with its search for circles.  A pass over a sequence and *)
(* a walk of a graph are recursive functions; what they compute is proved  *)
(* by a least number that would refute it.  So each part shows first that  *)
(* the function it needs exists, then how one step of it continues those   *)
(* before, then the inductive invariant of the component and its theorem.  *)
(***************************************************************************)
EXTENDS ModelTests, TraceRules, EvidenceGraph, FiniteSetTheorems, WellFoundedInduction, TLAPS

-----------------------------------------------------------------------------
\* What the proofs about paths, runs and orders count on.

\* What holds of 0 and goes from each number to the next holds up to any number.
LEMMA Counting ==
    ASSUME NEW n \in Nat, NEW P, 0 \in P, \A k \in 0..(n - 1) : k \in P => k + 1 \in P
    PROVE  \A k \in 0..n : k \in P
<1> DEFINE T == (0..n) \ P
           R == OpToRel(<, Nat)
<1> SUFFICES ASSUME T # {} PROVE FALSE
  OBVIOUS
<1>1. T \subseteq Nat
  OBVIOUS
<1>2. PICK x \in T : \A y \in T : <<y, x>> \notin R
  <2> HIDE DEF T
  <2> QED BY <1>1, WFMin, NatLessThanWellFounded, Zenon
<1>3. x # 0 /\ x \in 1..n
  OBVIOUS
<1>4. x - 1 \in T => <<x - 1, x>> \in R
  BY <1>3 DEF OpToRel
<1>5. x - 1 \in P
  <2>1. x - 1 \in 0..n
    BY <1>3
  <2> QED BY <1>2, <1>4, <2>1
<1>6. x - 1 + 1 \in P
  BY <1>3, <1>5
<1> QED BY <1>3, <1>6

\* What a sequence holds is of its type.
LEMMA ElementsOf == ASSUME NEW S, NEW q \in Seq(S), NEW j \in DOMAIN q PROVE q[j] \in S
  OBVIOUS

\* A set of numbers has a first one.
LEMMA FirstOfIs ==
    ASSUME NEW S, S \subseteq Nat, S # {}
    PROVE  FirstOf(S) \in S /\ \A j \in S : FirstOf(S) <= j
<1> DEFINE R == OpToRel(<, Nat)
<1>1. PICK x \in S : \A y \in S : <<y, x>> \notin R
  BY WFMin, NatLessThanWellFounded, Zenon
<1>2. ASSUME NEW y \in S PROVE x <= y
  <2>1. ~(y < x)
    BY <1>1 DEF OpToRel
  <2> QED BY <2>1
<1> QED BY <1>2 DEF FirstOf

-----------------------------------------------------------------------------
\* TraceRules: the events of a trace, and the samples of an endurance run.

\* How far the one pass of STRICT_ORDER comes, event by event.
Passing(s, order, far) ==
    far = [i \in 0..Len(s) |->
              IF i = 0 THEN 0
              ELSE LET k == far[i - 1]
                   IN  IF k < Len(order) /\ s[i] = order[k + 1] THEN k + 1 ELSE k]

LEMMA PassExists ==
    ASSUME NEW S, NEW s \in Seq(S), NEW order
    PROVE  \E far : Passing(s, order, far)
<1> DEFINE Upto(n, far) ==
              far = [i \in 0..n |->
                        IF i = 0 THEN 0
                        ELSE LET k == far[i - 1]
                             IN  IF k < Len(order) /\ s[i] = order[k + 1] THEN k + 1 ELSE k]
           P == {n \in 0..Len(s) : \E far : Upto(n, far)}
<1>0. Len(s) \in Nat
  OBVIOUS
<1>1. 0 \in P
  <2>1. Upto(0, [i \in 0..0 |-> 0])
    OBVIOUS
  <2>2. 0 \in 0..Len(s)
    BY <1>0
  <2> HIDE DEF Upto
  <2> QED BY <2>1, <2>2
<1>2. ASSUME NEW n \in 0..(Len(s) - 1), n \in P PROVE n + 1 \in P
  <2>1. PICK g : Upto(n, g)
    BY <1>2
  <2> DEFINE next == IF g[n] < Len(order) /\ s[n + 1] = order[g[n] + 1] THEN g[n] + 1 ELSE g[n]
             f == [i \in 0..(n + 1) |-> IF i = n + 1 THEN next ELSE g[i]]
  <2>2. f[n + 1] = next /\ \A i \in 0..n : f[i] = g[i]
    BY <1>0
  <2>3. \A i \in 0..n : g[i] = IF i = 0 THEN 0
                ELSE LET k == g[i - 1]
                     IN  IF k < Len(order) /\ s[i] = order[k + 1] THEN k + 1 ELSE k
    BY <2>1
  <2>4. ASSUME NEW i \in 0..(n + 1)
        PROVE  f[i] = IF i = 0 THEN 0
                ELSE LET k == f[i - 1]
                     IN  IF k < Len(order) /\ s[i] = order[k + 1] THEN k + 1 ELSE k
    <3>1. CASE i = n + 1
      BY <3>1, <2>2, <1>0
    <3>2. CASE i # n + 1
      <4>1. i \in 0..n /\ (i # 0 => i - 1 \in 0..n)
        BY <3>2, <1>0
      <4> HIDE DEF f
      <4> QED BY <4>1, <2>2, <2>3
    <3> QED BY <3>1, <3>2
  <2>5. Upto(n + 1, f)
    <3> DEFINE Step(i) == IF i = 0 THEN 0
                ELSE LET k == f[i - 1]
                     IN  IF k < Len(order) /\ s[i] = order[k + 1] THEN k + 1 ELSE k
    <3>1. f = [i \in 0..(n + 1) |-> f[i]]
      OBVIOUS
    <3>2. \A i \in 0..(n + 1) : f[i] = Step(i)
      BY <2>4
    <3> HIDE DEF f
    <3> QED BY <3>1, <3>2
  <2> QED
    <3>1. n + 1 \in 0..Len(s)
      BY <1>0
    <3> HIDE DEF Upto, f
    <3> QED BY <2>5, <3>1
<1>3. Len(s) \in P
  <2> HIDE DEF P
  <2>1. \A n \in 0..(Len(s) - 1) : n \in P => n + 1 \in P
    BY <1>2
  <2>2. \A k \in 0..Len(s) : k \in P
    BY <1>0, <1>1, <2>1, Counting
  <2> QED BY <1>0, <2>2
<1> QED BY <1>3 DEF Passing

\* How far it came, it met the first events of the order at increasing places, and
\* it came as far as it could.
LEMMA PassMeets ==
    ASSUME NEW S, NEW s \in Seq(S), NEW a, NEW b, NEW far, Passing(s, <<a, b, a>>, far)
    PROVE  far[Len(s)] = 3 <=>
              \E i, j, k \in DOMAIN s : i < j /\ j < k /\ s[i] = a /\ s[j] = b /\ s[k] = a
<1> DEFINE One(n) == \E i \in 1..n : s[i] = a
           Two(n) == \E i, j \in 1..n : i < j /\ s[i] = a /\ s[j] = b
           Three(n) == \E i, j, k \in 1..n : i < j /\ j < k /\ s[i] = a /\ s[j] = b /\ s[k] = a
           Met(n) == /\ far[n] \in 0..3
                     /\ far[n] >= 1 <=> One(n)
                     /\ far[n] >= 2 <=> Two(n)
                     /\ far[n] >= 3 <=> Three(n)
           P == {n \in 0..Len(s) : Met(n)}
<1>0. Len(s) \in Nat /\ DOMAIN s = 1..Len(s)
  OBVIOUS
<1>1. far[0] = 0
  BY <1>0 DEF Passing
<1>2. \A n \in 0..(Len(s) - 1) :
         LET k == far[n]
         IN  far[n + 1] = IF k < 3 /\ s[n + 1] = <<a, b, a>>[k + 1] THEN k + 1 ELSE k
  <2> TAKE n \in 0..(Len(s) - 1)
  <2>1. n + 1 \in 0..Len(s) /\ n + 1 # 0 /\ n + 1 - 1 = n
    BY <1>0
  <2>2. Len(<<a, b, a>>) = 3
    OBVIOUS
  <2>3. \A i \in 0..Len(s) : far[i] =
           IF i = 0 THEN 0
           ELSE LET k == far[i - 1]
                IN  IF k < Len(<<a, b, a>>) /\ s[i] = <<a, b, a>>[k + 1] THEN k + 1 ELSE k
    BY Zenon DEF Passing
  <2>4. far[n + 1] = IF n + 1 = 0 THEN 0
           ELSE LET k == far[n + 1 - 1]
                IN  IF k < Len(<<a, b, a>>) /\ s[n + 1] = <<a, b, a>>[k + 1] THEN k + 1 ELSE k
    BY <2>1, <2>3
  <2> QED BY <2>1, <2>2, <2>4
<1>3. 0 \in P
  BY <1>0, <1>1
<1>4. ASSUME NEW n \in 0..(Len(s) - 1), n \in P PROVE n + 1 \in P
  <2>0. n \in Nat /\ n + 1 \in 0..Len(s) /\ Met(n)
    BY <1>0, <1>4
  <2>1. /\ One(n + 1) <=> One(n) \/ s[n + 1] = a
        /\ Two(n + 1) <=> Two(n) \/ (One(n) /\ s[n + 1] = b)
        /\ Three(n + 1) <=> Three(n) \/ (Two(n) /\ s[n + 1] = a)
    <3>1. \A i \in 1..(n + 1) : i \in 1..n \/ i = n + 1
      BY <2>0
    <3>2. \A i \in 1..n : i \in 1..(n + 1) /\ i < n + 1
      BY <2>0
    <3>3. n + 1 \in 1..(n + 1) /\ ~(n + 1 < n + 1)
      BY <2>0
    <3>4. \A i \in 1..(n + 1) : ~(n + 1 < i)
      BY <2>0
    <3>5. \A i, j \in 1..(n + 1) : i < j => i \in 1..n
      BY <2>0
    <3>6. One(n + 1) <=> One(n) \/ s[n + 1] = a
      BY <3>1, <3>2, <3>3
    <3>7. Two(n + 1) <=> Two(n) \/ (One(n) /\ s[n + 1] = b)
      BY <3>1, <3>2, <3>3, <3>5
    <3>8. Three(n + 1) <=> Three(n) \/ (Two(n) /\ s[n + 1] = a)
      BY <3>1, <3>2, <3>3, <3>5
    <3> QED BY <3>6, <3>7, <3>8
  <2>2. Two(n) => One(n)
    OBVIOUS
  <2>3. Three(n) => Two(n)
    OBVIOUS
  <2>4. <<a, b, a>>[1] = a /\ <<a, b, a>>[2] = b /\ <<a, b, a>>[3] = a
    OBVIOUS
  <2>5. Met(n + 1)
    <3> HIDE DEF One, Two, Three
    <3>1. far[n] \in 0..3 /\ far[n + 1] = IF far[n] < 3 /\ s[n + 1] = <<a, b, a>>[far[n] + 1]
                                         THEN far[n] + 1 ELSE far[n]
      BY <2>0, <1>2
    <3>2. CASE far[n] = 0
      BY <3>1, <3>2, <2>0, <2>1, <2>2, <2>3, <2>4
    <3>3. CASE far[n] = 1
      BY <3>1, <3>3, <2>0, <2>1, <2>2, <2>3, <2>4
    <3>4. CASE far[n] = 2
      BY <3>1, <3>4, <2>0, <2>1, <2>2, <2>3, <2>4
    <3>5. CASE far[n] = 3
      BY <3>1, <3>5, <2>0, <2>1, <2>2, <2>3, <2>4
    <3> QED BY <3>1, <3>2, <3>3, <3>4, <3>5
  <2> QED
    <3> HIDE DEF Met
    <3> QED BY <2>0, <2>5
<1>5. Met(Len(s))
  <2>1. \A n \in 0..(Len(s) - 1) : n \in P => n + 1 \in P
    BY <1>4
  <2>2. Len(s) \in P
    <3> HIDE DEF P
    <3>1. \A k \in 0..Len(s) : k \in P
      BY <1>0, <1>3, <2>1, Counting
    <3> QED BY <1>0, <3>1
  <2> HIDE DEF Met
  <2> QED BY <2>2
<1>6. far[Len(s)] = 3 <=> Three(Len(s))
  <2> HIDE DEF One, Two, Three
  <2> QED BY <1>5
<1> QED BY <1>0, <1>6

LEMMA InOrderIs ==
    ASSUME NEW S, NEW s \in Seq(S), NEW a, NEW b
    PROVE  InOrder(s, <<a, b, a>>) <=>
              \E i, j, k \in DOMAIN s : i < j /\ j < k /\ s[i] = a /\ s[j] = b /\ s[k] = a
<1> DEFINE far == CHOOSE far : Passing(s, <<a, b, a>>, far)
<1>1. Passing(s, <<a, b, a>>, far)
  BY PassExists, Zenon
<1>2. InOrder(s, <<a, b, a>>) <=> far[Len(s)] = Len(<<a, b, a>>)
  BY Zenon DEF InOrder, Passing
<1>3. Len(<<a, b, a>>) = 3
  OBVIOUS
<1> HIDE DEF far
<1> QED BY <1>1, <1>2, <1>3, PassMeets

-----------------------------------------------------------------------------

Endured ==
    /\ endurance.profile \in Profile /\ endurance.baseline \in Snapshot
    /\ endurance.samples \in Seq(Nat)

\* The trace is one of the events recorded, as long as they are bounded; an endurance
\* run keeps its profile, its samples and the class they give.
TraceInv ==
    /\ trace \in Seq(TraceEvent) /\ Len(trace) <= MaxTrace
    /\ \/ endurance = NoEndurance
       \/ /\ endurance = [phase |-> "working", profile |-> endurance.profile,
                          baseline |-> endurance.baseline, samples |-> endurance.samples]
          /\ Endured
       \/ /\ endurance = [phase |-> "done", profile |-> endurance.profile,
                          baseline |-> endurance.baseline, samples |-> endurance.samples,
                          after |-> endurance.after, class |-> endurance.class]
          /\ Endured
          /\ endurance.after \in Snapshot
          /\ endurance.class = Classified(endurance.profile, endurance.baseline,
                                          endurance.samples, endurance.after)

LEMMA TraceInvHolds == TraceSpec => []TraceInv
<1>1. TraceInit => TraceInv
  BY TraceAssumption DEF TraceInit, TraceInv
<1>2. TraceInv /\ [TraceNext \/ EnduranceNext]_traceVars => TraceInv'
  <2> SUFFICES ASSUME TraceInv, [TraceNext \/ EnduranceNext]_traceVars PROVE TraceInv'
    OBVIOUS
  <2> USE TraceAssumption
  <2>1. CASE UNCHANGED traceVars
    BY <2>1 DEF TraceInv, traceVars, Endured
  <2>2. ASSUME NEW e \in TraceEvent, Observe(e) PROVE TraceInv'
    <3>1. /\ endurance' = endurance
          /\ trace' \in Seq(TraceEvent) /\ Len(trace') = Len(trace) + 1
      BY <2>2 DEF TraceInv, Observe
    <3> QED BY <2>2, <3>1 DEF TraceInv, Observe, Endured
  <2>3. ASSUME NEW p \in Profile, NEW s \in Snapshot, BeginEndurance(p, s) PROVE TraceInv'
    BY <2>3 DEF TraceInv, BeginEndurance, Endured
  <2>4. ASSUME NEW s \in Snapshot, Work(s.held) PROVE TraceInv'
    <3>1. /\ endurance = [phase |-> "working", profile |-> endurance.profile,
                          baseline |-> endurance.baseline, samples |-> endurance.samples]
          /\ Endured
      BY <2>4 DEF TraceInv, Work, NoEndurance
    <3>2. s.held \in Nat
      OBVIOUS
    <3>3. endurance' = [phase |-> "working", profile |-> endurance.profile,
                        baseline |-> endurance.baseline,
                        samples |-> Append(endurance.samples, s.held)]
      BY <2>4, <3>1 DEF Work
    <3>4. Append(endurance.samples, s.held) \in Seq(Nat)
      BY <3>1, <3>2 DEF Endured
    <3> QED BY <2>4, <3>1, <3>3, <3>4 DEF TraceInv, Work, Endured
  <2>5. ASSUME NEW s \in Snapshot, EndEndurance(s) PROVE TraceInv'
    <3>1. /\ endurance = [phase |-> "working", profile |-> endurance.profile,
                          baseline |-> endurance.baseline, samples |-> endurance.samples]
          /\ Endured
      BY <2>5 DEF TraceInv, EndEndurance, NoEndurance
    <3> HIDE DEF Classified
    <3> QED BY <2>5, <3>1 DEF TraceInv, EndEndurance, Endured
  <2> QED BY <2>1, <2>2, <2>3, <2>4, <2>5 DEF TraceNext, EnduranceNext
<1> QED BY <1>1, <1>2, PTL DEF TraceSpec

LEMMA RelationsFromInv == TraceInv => RelationsAgree
<1> SUFFICES ASSUME TraceInv, NEW a \in TraceEvent, NEW b \in TraceEvent
    PROVE /\ InOrder(trace, <<a, b, a>>) <=>
                \E i, j, k \in DOMAIN trace :
                    i < j /\ j < k /\ trace[i] = a /\ trace[j] = b /\ trace[k] = a
          /\ FollowsWithin(trace, a, b, MaxSteps) => EventuallyFollows(trace, a, b)
          /\ EventuallyFollows(trace, a, b) /\ NeverFollows(trace, a, b)
                => \A i \in DOMAIN trace : trace[i] # a
          /\ FollowsWithin(trace, a, b, MaxTrace) <=> EventuallyFollows(trace, a, b)
  BY DEF RelationsAgree
<1>0. /\ trace \in Seq(TraceEvent) /\ Len(trace) \in Nat /\ DOMAIN trace = 1..Len(trace)
      /\ Len(trace) <= MaxTrace /\ MaxTrace \in Nat /\ MaxSteps \in Nat
  BY TraceAssumption DEF TraceInv
<1>1. InOrder(trace, <<a, b, a>>) <=>
         \E i, j, k \in DOMAIN trace :
             i < j /\ j < k /\ trace[i] = a /\ trace[j] = b /\ trace[k] = a
  BY <1>0, InOrderIs
<1>2. ASSUME NEW n \in Nat, FollowsWithin(trace, a, b, n) PROVE EventuallyFollows(trace, a, b)
  BY <1>0, <1>2 DEF FollowsWithin, EventuallyFollows
<1>3. ASSUME EventuallyFollows(trace, a, b) PROVE FollowsWithin(trace, a, b, MaxTrace)
  <2> SUFFICES ASSUME NEW i \in DOMAIN trace, trace[i] = a
      PROVE \E j \in (i + 1)..(i + MaxTrace) : j \in DOMAIN trace /\ trace[j] = b
    BY DEF FollowsWithin
  <2>1. PICK j \in (i + 1)..Len(trace) : trace[j] = b
    BY <1>3 DEF EventuallyFollows
  <2>2. j \in DOMAIN trace /\ j \in (i + 1)..(i + MaxTrace)
    BY <1>0
  <2> QED BY <2>1, <2>2
<1>4. ASSUME EventuallyFollows(trace, a, b), NeverFollows(trace, a, b),
             NEW i \in DOMAIN trace
      PROVE  trace[i] # a
  BY <1>4 DEF EventuallyFollows, NeverFollows
<1> QED BY <1>0, <1>1, <1>2, <1>3, <1>4

LEMMA ClassesFromInv == TraceInv => GoodClassesAreReleased
<1> SUFFICES ASSUME TraceInv, endurance.phase = "done",
                    endurance.class \in {"STABLE", "RECOVERED_SPIKE"}
    PROVE LET base == endurance.baseline
              after == endurance.after
              p == endurance.profile
              peak(n) == \E i \in DOMAIN endurance.samples : endurance.samples[i] > n
          IN  /\ after.held <= base.held + p.allowed /\ after.threads <= base.threads
              /\ p.drain => after.queued = 0
              /\ 4 * after.memory <= 5 * base.memory \/ base.memory = 0
              /\ endurance.class = "RECOVERED_SPIKE" <=> peak(base.held)
  BY DEF GoodClassesAreReleased
<1> DEFINE base == endurance.baseline
           after == endurance.after
           p == endurance.profile
           samples == endurance.samples
<1>1. /\ p \in Profile /\ base \in Snapshot /\ after \in Snapshot
      /\ endurance.class = Classified(p, base, samples, after)
  BY DEF TraceInv, NoEndurance, Endured
<1>2. /\ base.held \in Nat /\ base.threads \in Nat /\ base.memory \in Nat
      /\ after.held \in Nat /\ after.threads \in Nat /\ after.memory \in Nat
      /\ after.queued \in Nat /\ p.allowed \in Nat
  BY <1>1, TraceAssumption DEF Profile
<1> HIDE DEF base, after, p, samples
<1>3. /\ Len(samples) >= 2 \/ ~(Len(samples) < 2)
      /\ ~(p.drain /\ after.queued > 0)
      /\ ~(after.held - base.held > p.allowed) /\ ~(after.threads > base.threads)
      /\ ~GrewTooMuch(base.memory, after.memory)
      /\ endurance.class = "RECOVERED_SPIKE"
            <=> \E i \in DOMAIN samples : samples[i] > base.held
  BY <1>1 DEF Classified
<1>4. after.held <= base.held + p.allowed /\ after.threads <= base.threads
  BY <1>2, <1>3
<1>5. p.drain => after.queued = 0
  BY <1>2, <1>3
<1>6. 4 * after.memory <= 5 * base.memory \/ base.memory = 0
  BY <1>2, <1>3 DEF GrewTooMuch
<1> QED BY <1>3, <1>4, <1>5, <1>6 DEF base, after, p, samples

\* The relations mean what their names say whatever is recorded, and what a run is
\* called good for it gave back (evaluate_trace, run_endurance_test).
THEOREM VerdictsStayTrue == TraceSpec => []VerdictsAreTrue
<1>1. TraceInv => VerdictsAreTrue
  BY RelationsFromInv, ClassesFromInv DEF VerdictsAreTrue
<1> QED BY <1>1, TraceInvHolds, PTL

-----------------------------------------------------------------------------
\* ModelTests: what the adapters run, and what they shorten.

\* The record of a run of both sides.
Ran(m, s, sut, q, run) ==
    run = [k \in 0..Len(q) |->
              IF k = 0 THEN [fails |-> FALSE, state |-> m.start, sut |-> sut]
              ELSE LET r == run[k - 1]
                   IN  IF r.fails THEN r ELSE Both(m, s, r.state, r.sut, q[k])]

LEMMA RanExists ==
    ASSUME NEW m, NEW s, NEW sut, NEW q, Len(q) \in Nat
    PROVE  \E run : Ran(m, s, sut, q, run)
<1> DEFINE Upto(n, run) ==
              run = [k \in 0..n |->
                        IF k = 0 THEN [fails |-> FALSE, state |-> m.start, sut |-> sut]
                        ELSE LET r == run[k - 1]
                             IN  IF r.fails THEN r ELSE Both(m, s, r.state, r.sut, q[k])]
           P == {n \in 0..Len(q) : \E run : Upto(n, run)}
<1>1. 0 \in P
  <2>1. Upto(0, [k \in 0..0 |-> [fails |-> FALSE, state |-> m.start, sut |-> sut]])
    OBVIOUS
  <2>2. 0 \in 0..Len(q)
    OBVIOUS
  <2> HIDE DEF Upto
  <2> QED BY <2>1, <2>2
<1>2. ASSUME NEW n \in 0..(Len(q) - 1), n \in P PROVE n + 1 \in P
  <2>1. PICK g : Upto(n, g)
    BY <1>2
  <2> DEFINE next == IF g[n].fails THEN g[n] ELSE Both(m, s, g[n].state, g[n].sut, q[n + 1])
             f == [k \in 0..(n + 1) |-> IF k = n + 1 THEN next ELSE g[k]]
             Step(k) == IF k = 0 THEN [fails |-> FALSE, state |-> m.start, sut |-> sut]
                        ELSE LET r == f[k - 1]
                             IN  IF r.fails THEN r ELSE Both(m, s, r.state, r.sut, q[k])
  <2>2. f[n + 1] = next /\ \A k \in 0..n : f[k] = g[k]
    OBVIOUS
  <2>3. \A k \in 0..n : g[k] =
           IF k = 0 THEN [fails |-> FALSE, state |-> m.start, sut |-> sut]
           ELSE LET r == g[k - 1]
                IN  IF r.fails THEN r ELSE Both(m, s, r.state, r.sut, q[k])
    BY <2>1
  <2>4. f = [k \in 0..(n + 1) |-> f[k]]
    OBVIOUS
  <2> HIDE DEF f
  <2>5. \A k \in 0..(n + 1) : f[k] = Step(k)
    <3> TAKE k \in 0..(n + 1)
    <3>1. CASE k = n + 1
      <4>1. n + 1 # 0 /\ n + 1 - 1 = n /\ n \in 0..n
        OBVIOUS
      <4> QED BY <3>1, <4>1, <2>2
    <3>2. CASE k # n + 1
      <4>1. k \in 0..n /\ (k # 0 => k - 1 \in 0..n)
        BY <3>2
      <4> QED BY <4>1, <2>2, <2>3
    <3> QED BY <3>1, <3>2
  <2>6. Upto(n + 1, f)
    BY <2>4, <2>5
  <2>7. n + 1 \in 0..Len(q)
    OBVIOUS
  <2> HIDE DEF Upto
  <2> QED BY <2>6, <2>7
<1>3. Len(q) \in P
  <2> HIDE DEF P
  <2>1. \A n \in 0..(Len(q) - 1) : n \in P => n + 1 \in P
    BY <1>2
  <2>2. \A k \in 0..Len(q) : k \in P
    BY <1>1, <2>1, Counting
  <2> QED BY <2>2
<1> QED BY <1>3 DEF Ran

\* A run of no events has not failed.
LEMMA RunBothStarts ==
    ASSUME NEW m, NEW s, NEW sut
    PROVE  RunBoth(m, s, sut, << >>) = [fails |-> FALSE, state |-> m.start, sut |-> sut]
<1> DEFINE Run == CHOOSE run : Ran(m, s, sut, << >>, run)
<1>1. Ran(m, s, sut, << >>, Run)
  <2>1. Len(<< >>) \in Nat
    OBVIOUS
  <2>2. \E run : Ran(m, s, sut, << >>, run)
    BY <2>1, RanExists, Zenon
  <2> QED BY <2>2, Zenon
<1>2. RunBoth(m, s, sut, << >>) = Run[Len(<< >>)]
  BY Zenon DEF RunBoth, Ran
<1> HIDE DEF Run
<1> QED BY <1>1, <1>2 DEF Ran

\* One event more goes on where the run without it ended.
LEMMA RunBothGrows ==
    ASSUME NEW m, NEW s, NEW sut, NEW S, NEW q \in Seq(S)
    PROVE  \A k \in 1..Len(q) :
              LET r == RunBoth(m, s, sut, SubSeq(q, 1, k - 1))
              IN  RunBoth(m, s, sut, SubSeq(q, 1, k)) =
                     IF r.fails THEN r ELSE Both(m, s, r.state, r.sut, q[k])
<1> DEFINE Run(p) == CHOOSE run : Ran(m, s, sut, p, run)
<1>1. ASSUME NEW p \in Seq(S)
      PROVE  Ran(m, s, sut, p, Run(p)) /\ RunBoth(m, s, sut, p) = Run(p)[Len(p)]
  <2>1. Ran(m, s, sut, p, Run(p))
    <3>1. Len(p) \in Nat
      OBVIOUS
    <3>2. \E run : Ran(m, s, sut, p, run)
      BY <3>1, RanExists, Zenon
    <3> QED BY <3>2, Zenon
  <2>2. RunBoth(m, s, sut, p) = Run(p)[Len(p)]
    BY Zenon DEF RunBoth, Ran
  <2> QED BY <2>1, <2>2
<1>2. ASSUME NEW p \in Seq(S)
      PROVE  \A k \in 0..Len(p) : Run(p)[k] =
           IF k = 0 THEN [fails |-> FALSE, state |-> m.start, sut |-> sut]
           ELSE LET r == Run(p)[k - 1]
                IN  IF r.fails THEN r ELSE Both(m, s, r.state, r.sut, p[k])
  <2> HIDE DEF Run
  <2> QED BY <1>1, Zenon DEF Ran
<1> HIDE DEF Run
<1>4. ASSUME NEW k \in 1..Len(q)
      PROVE  LET r == RunBoth(m, s, sut, SubSeq(q, 1, k - 1))
             IN  RunBoth(m, s, sut, SubSeq(q, 1, k)) =
                    IF r.fails THEN r ELSE Both(m, s, r.state, r.sut, q[k])
  <2> DEFINE a == SubSeq(q, 1, k - 1)
             b == SubSeq(q, 1, k)
             P == {i \in 0..(k - 1) : Run(a)[i] = Run(b)[i]}
  <2>1. /\ a \in Seq(S) /\ Len(a) = k - 1 /\ b \in Seq(S) /\ Len(b) = k
        /\ \A i \in 1..(k - 1) : a[i] = b[i]
        /\ b[k] = q[k]
    OBVIOUS
  <2> HIDE DEF a, b
  <2>2. 0 \in P
    BY <1>2, <2>1
  <2>3. ASSUME NEW i \in 0..(k - 1 - 1), i \in P PROVE i + 1 \in P
    <3>1. /\ i + 1 \in 0..(k - 1) /\ i + 1 \in 0..k /\ i + 1 # 0 /\ i + 1 - 1 = i
          /\ i + 1 \in 1..(k - 1)
      OBVIOUS
    <3>2. a[i + 1] = b[i + 1] /\ Run(a)[i] = Run(b)[i]
      BY <2>1, <2>3, <3>1
    <3>3. Run(a)[i + 1] = LET r == Run(a)[i]
                          IN  IF r.fails THEN r ELSE Both(m, s, r.state, r.sut, a[i + 1])
      <4>1. Run(a)[i + 1] =
               IF i + 1 = 0 THEN [fails |-> FALSE, state |-> m.start, sut |-> sut]
               ELSE LET r == Run(a)[i + 1 - 1]
                    IN  IF r.fails THEN r ELSE Both(m, s, r.state, r.sut, a[i + 1])
        BY <1>2, <2>1, <3>1
      <4> QED BY <3>1, <4>1
    <3>4. Run(b)[i + 1] = LET r == Run(b)[i]
                          IN  IF r.fails THEN r ELSE Both(m, s, r.state, r.sut, b[i + 1])
      <4>1. Run(b)[i + 1] =
               IF i + 1 = 0 THEN [fails |-> FALSE, state |-> m.start, sut |-> sut]
               ELSE LET r == Run(b)[i + 1 - 1]
                    IN  IF r.fails THEN r ELSE Both(m, s, r.state, r.sut, b[i + 1])
        BY <1>2, <2>1, <3>1
      <4> QED BY <3>1, <4>1
    <3> QED BY <3>1, <3>2, <3>3, <3>4
  <2>4. k - 1 \in P
    <3> HIDE DEF P
    <3>1. \A i \in 0..(k - 1 - 1) : i \in P => i + 1 \in P
      BY <2>3
    <3>2. k - 1 \in Nat
      OBVIOUS
    <3>3. \A i \in 0..(k - 1) : i \in P
      BY <2>2, <3>1, <3>2, Counting
    <3> QED BY <3>2, <3>3
  <2>5. Run(b)[k] = LET r == Run(b)[k - 1]
                    IN  IF r.fails THEN r ELSE Both(m, s, r.state, r.sut, q[k])
    <3>1. k \in 0..k /\ k # 0
      OBVIOUS
    <3> QED BY <1>2, <2>1, <3>1
  <2>6. RunBoth(m, s, sut, a) = Run(b)[k - 1] /\ RunBoth(m, s, sut, b) = Run(b)[k]
    BY <1>1, <2>1, <2>4
  <2> QED BY <2>5, <2>6 DEF a, b
<1> QED BY <1>4

-----------------------------------------------------------------------------

\* The list under test without an event still has its last one.
LEMMA Removed ==
    ASSUME NEW S, NEW q \in Seq(S), NEW i \in 1..(Len(q) - 1)
    PROVE  /\ RemoveAt(q, i) \in Seq(S) /\ Len(RemoveAt(q, i)) = Len(q) - 1
           /\ Last(RemoveAt(q, i)) = Last(q)
<1> DEFINE a == SubSeq(q, 1, i - 1)
           b == SubSeq(q, i + 1, Len(q))
<1>1. /\ Len(q) \in Nat /\ i \in Nat /\ i < Len(q)
      /\ a \in Seq(S) /\ b \in Seq(S) /\ Len(a) = i - 1 /\ Len(b) = Len(q) - i
      /\ b[Len(q) - i] = q[Len(q)]
  OBVIOUS
<1>2. a \o b \in Seq(S) /\ Len(a \o b) = Len(q) - 1 /\ (a \o b)[Len(q) - 1] = b[Len(q) - i]
  <2> HIDE DEF a, b
  <2>1. Len(a) + Len(b) = Len(q) - 1 /\ Len(q) - 1 - Len(a) = Len(q) - i
    BY <1>1
  <2>2. Len(q) - 1 \in 1..(Len(a) + Len(b)) /\ ~(Len(q) - 1 <= Len(a))
    BY <1>1
  <2> QED BY <1>1, <2>1, <2>2
<1> QED BY <1>1, <1>2 DEF RemoveAt, Last

FreshRun(t, q) == RunBoth(t.model, t.system, Fresh(t.system), q)

\* A stateful test runs as far as both sides agree; what it shortens ends with the
\* event at which they differed and, when the system can be reset, still fails, as
\* none of the removals tried since the last success does.
StatefulInv ==
    \/ stateful = NoStateful
    \/ /\ stateful = [phase |-> stateful.phase, model |-> stateful.model,
                      system |-> stateful.system, resets |-> stateful.resets,
                      events |-> stateful.events, at |-> stateful.at,
                      state |-> stateful.state, sut |-> stateful.sut,
                      trace |-> stateful.trace, removing |-> stateful.removing]
       /\ stateful.phase \in {"running", "shrinking", "passed", "failed"}
       /\ stateful.resets \in BOOLEAN
       /\ stateful.events \in EventLists /\ stateful.at \in Nat \ {0}
       /\ stateful.phase = "running" =>
             /\ stateful.at <= Len(stateful.events) + 1
             /\ FreshRun(stateful, SubSeq(stateful.events, 1, stateful.at - 1))
                   = [fails |-> FALSE, state |-> stateful.state, sut |-> stateful.sut]
       /\ stateful.phase \in {"shrinking", "failed"} =>
             /\ stateful.trace \in Seq({stateful.events[i] : i \in DOMAIN stateful.events})
             /\ stateful.removing \in 1..Len(stateful.trace)
             /\ Last(stateful.trace) = stateful.events[stateful.at]
             /\ stateful.resets =>
                   /\ FreshRun(stateful, stateful.trace).fails
                   /\ \A i \in 1..(stateful.removing - 1) :
                         ~FreshRun(stateful, RemoveAt(stateful.trace, i)).fails
       /\ stateful.phase = "failed" => stateful.removing >= Len(stateful.trace)

Failing == {i \in DOMAIN numeric.tested : numeric.tested[i] \in numeric.failing}

\* A property test has run into no failing case before the one it shrinks; what it
\* shrinks it to fails.
NumericInv ==
    \/ numeric = NoNumeric
    \/ /\ numeric = [phase |-> numeric.phase, failing |-> numeric.failing,
                     count |-> numeric.count, tested |-> numeric.tested,
                     shrunk |-> numeric.shrunk]
       /\ numeric.phase \in {"running", "shrinking", "passed", "failed"}
       /\ numeric.tested \in Seq(0..MaxInput) /\ numeric.shrunk \in 0..MaxInput
       /\ numeric.phase \in {"running", "passed"} => Failing = {}
       /\ numeric.phase = "passed" => Len(numeric.tested) = numeric.count
       /\ numeric.phase \in {"shrinking", "failed"} =>
             /\ Len(numeric.tested) > 0
             /\ numeric.shrunk \in numeric.failing /\ numeric.shrunk <= Last(numeric.tested)
       /\ numeric.phase = "failed" /\ numeric.shrunk > 0 =>
             {0, numeric.shrunk \div 2, numeric.shrunk - 1} \cap numeric.failing = {}

TestInv == StatefulInv /\ NumericInv

LEMMA StatefulKept ==
    ASSUME StatefulInv, StatefulNext PROVE StatefulInv'
<1> DEFINE t == stateful
           E == {t.events[i] : i \in DOMAIN t.events}
<1>1. ASSUME NEW m \in TestModels, NEW s \in Systems, NEW resets \in BOOLEAN,
             NEW q \in EventLists, BeginStateful(m, s, resets, q)
      PROVE  StatefulInv'
  <2>1. q \in Seq({q[i] : i \in DOMAIN q}) /\ SubSeq(q, 1, 0) = << >> /\ Len(q) \in Nat
    BY TestAssumption
  <2>2. RunBoth(m, s, Fresh(s), << >>) = [fails |-> FALSE, state |-> m.start, sut |-> Fresh(s)]
    BY RunBothStarts
  <2>3. stateful' = [phase |-> "running", model |-> m, system |-> s, resets |-> resets,
                     events |-> q, at |-> 1, state |-> m.start, sut |-> Fresh(s),
                     trace |-> << >>, removing |-> 0]
    BY <1>1 DEF BeginStateful
  <2> HIDE DEF Fresh
  <2>4. FreshRun(stateful', SubSeq(stateful'.events, 1, stateful'.at - 1))
            = [fails |-> FALSE, state |-> stateful'.state, sut |-> stateful'.sut]
    <3>1. SubSeq(stateful'.events, 1, stateful'.at - 1) = << >>
      BY <2>1, <2>3
    <3>2. FreshRun(stateful', << >>) = RunBoth(m, s, Fresh(s), << >>)
      BY <2>3 DEF FreshRun
    <3> QED BY <2>2, <2>3, <3>1, <3>2
  <2> QED BY <2>1, <2>3, <2>4 DEF StatefulInv
<1>2. ASSUME stateful.phase \in {"running", "shrinking"}
      PROVE  /\ stateful = [phase |-> t.phase, model |-> t.model, system |-> t.system,
                            resets |-> t.resets, events |-> t.events, at |-> t.at,
                            state |-> t.state, sut |-> t.sut, trace |-> t.trace,
                            removing |-> t.removing]
             /\ t.events \in EventLists /\ t.events \in Seq(E) /\ Len(t.events) \in Nat
             /\ t.at \in Nat \ {0} /\ t.resets \in BOOLEAN
  BY <1>2, TestAssumption DEF StatefulInv, NoStateful
<1>3. CASE StepBoth
  <2> DEFINE r == Both(t.model, t.system, t.state, t.sut, t.events[t.at])
             q == SubSeq(t.events, 1, t.at)
  <2>1. t.phase = "running" /\ t.at \in 1..Len(t.events)
    BY <1>2, <1>3 DEF StepBoth
  <2>2. FreshRun(t, q) = r
    <3>1. FreshRun(t, SubSeq(t.events, 1, t.at - 1))
             = [fails |-> FALSE, state |-> t.state, sut |-> t.sut]
      BY <2>1 DEF StatefulInv, NoStateful
    <3>2. FreshRun(t, q) =
             LET p == FreshRun(t, SubSeq(t.events, 1, t.at - 1))
             IN  IF p.fails THEN p ELSE Both(t.model, t.system, p.state, p.sut, t.events[t.at])
      <4> DEFINE ev == t.events
                 k == t.at
      <4>1. ev \in Seq(E) /\ k \in 1..Len(ev)
        BY <1>2, <2>1
      <4> SUFFICES LET p == RunBoth(t.model, t.system, Fresh(t.system), SubSeq(ev, 1, k - 1))
                   IN  RunBoth(t.model, t.system, Fresh(t.system), SubSeq(ev, 1, k)) =
                          IF p.fails THEN p
                          ELSE Both(t.model, t.system, p.state, p.sut, ev[k])
        BY Zenon DEF FreshRun
      <4> HIDE DEF ev, k, E
      <4> QED BY <4>1, RunBothGrows
    <3> QED BY <3>1, <3>2
  <2>3. CASE r.fails
    <3>1. stateful' = [t EXCEPT !.phase = "shrinking", !.sut = r.sut,
                                !.trace = q, !.removing = 1]
      BY <1>3, <2>3 DEF StepBoth
    <3>2. stateful' = [phase |-> "shrinking", model |-> t.model, system |-> t.system,
                       resets |-> t.resets, events |-> t.events, at |-> t.at,
                       state |-> t.state, sut |-> r.sut, trace |-> q, removing |-> 1]
      <4> HIDE DEF r, q
      <4> QED BY <1>2, <2>1, <3>1
    <3>3. q \in Seq(E) /\ Len(q) = t.at /\ Last(q) = t.events[t.at]
      BY <1>2, <2>1 DEF Last
    <3>4. FreshRun(stateful', q).fails
      <4> HIDE DEF r, q
      <4> QED BY <2>2, <2>3, <3>2 DEF FreshRun
    <3> HIDE DEF r, q
    <3> QED BY <1>2, <2>1, <3>2, <3>3, <3>4 DEF StatefulInv
  <2>4. CASE ~r.fails
    <3>1. stateful' = [t EXCEPT !.at = @ + 1, !.state = r.state, !.sut = r.sut]
      BY <1>3, <2>4 DEF StepBoth
    <3>2. stateful' = [phase |-> "running", model |-> t.model, system |-> t.system,
                       resets |-> t.resets, events |-> t.events, at |-> t.at + 1,
                       state |-> r.state, sut |-> r.sut, trace |-> t.trace,
                       removing |-> t.removing]
      <4> HIDE DEF r, q
      <4> QED BY <1>2, <2>1, <3>1
    <3>3. r = [fails |-> FALSE, state |-> r.state, sut |-> r.sut]
      <4> HIDE DEF Stepped
      <4> QED BY <2>4 DEF Both
    <3>4. SubSeq(t.events, 1, t.at + 1 - 1) = q
      BY <2>1
    <3>5. FreshRun(stateful', SubSeq(stateful'.events, 1, stateful'.at - 1))
             = [fails |-> FALSE, state |-> stateful'.state, sut |-> stateful'.sut]
      <4> HIDE DEF r, q
      <4>1. FreshRun(stateful', q) = FreshRun(t, q)
        BY <3>2 DEF FreshRun
      <4>2. SubSeq(stateful'.events, 1, stateful'.at - 1) = q
        <5>1. stateful'.events = t.events /\ stateful'.at - 1 = t.at
          BY <2>1, <3>2
        <5> QED BY <5>1 DEF q
      <4>3. stateful'.state = r.state /\ stateful'.sut = r.sut
        BY <3>2
      <4> QED BY <2>2, <3>3, <4>1, <4>2, <4>3, Zenon
    <3> HIDE DEF r, q
    <3> QED BY <1>2, <2>1, <3>2, <3>5 DEF StatefulInv
  <2> QED BY <2>3, <2>4
<1>4. CASE Passed
  <2>1. t.phase = "running"
    BY <1>4 DEF Passed
  <2>2. stateful' = [phase |-> "passed", model |-> t.model, system |-> t.system,
                     resets |-> t.resets, events |-> t.events, at |-> t.at,
                     state |-> t.state, sut |-> t.sut, trace |-> t.trace,
                     removing |-> t.removing]
    BY <1>2, <1>4, <2>1 DEF Passed
  <2> QED BY <1>2, <2>1, <2>2 DEF StatefulInv
<1>5. CASE TryRemoval
  <2> DEFINE shorter == RemoveAt(t.trace, t.removing)
             r == Reproduces(t.model, t.system, t.resets, t.sut, shorter)
  <2>1. t.phase = "shrinking"
    BY <1>5 DEF TryRemoval
  <2>2. /\ t.trace \in Seq(E) /\ t.removing \in 1..(Len(t.trace) - 1) /\ Len(t.trace) \in Nat
        /\ Last(t.trace) = t.events[t.at]
        /\ t.resets => \A i \in 1..(t.removing - 1) : ~FreshRun(t, RemoveAt(t.trace, i)).fails
    BY <1>5, <2>1 DEF StatefulInv, NoStateful, TryRemoval
  <2>3. /\ shorter \in Seq(E) /\ Len(shorter) = Len(t.trace) - 1
        /\ Last(shorter) = t.events[t.at]
    BY <2>2, Removed
  <2>4. t.resets => r = FreshRun(t, shorter)
    BY DEF Reproduces, FreshRun
  <2> HIDE DEF shorter, r
  <2>5. CASE r.fails
    <3>1. stateful' = [t EXCEPT !.trace = shorter, !.removing = 1, !.sut = r.sut]
      BY <1>5, <2>5 DEF TryRemoval, shorter, r
    <3>2. stateful' = [phase |-> "shrinking", model |-> t.model, system |-> t.system,
                       resets |-> t.resets, events |-> t.events, at |-> t.at,
                       state |-> t.state, sut |-> r.sut, trace |-> shorter, removing |-> 1]
      BY <1>2, <2>1, <3>1
    <3>3. stateful'.resets => FreshRun(stateful', stateful'.trace).fails
      BY <2>4, <2>5, <3>2 DEF FreshRun
    <3> QED BY <1>2, <2>1, <2>2, <2>3, <3>2, <3>3 DEF StatefulInv
  <2>6. CASE ~r.fails
    <3>1. stateful' = [t EXCEPT !.removing = @ + 1, !.sut = r.sut]
      BY <1>5, <2>6 DEF TryRemoval, shorter, r
    <3>2. stateful' = [phase |-> "shrinking", model |-> t.model, system |-> t.system,
                       resets |-> t.resets, events |-> t.events, at |-> t.at,
                       state |-> t.state, sut |-> r.sut, trace |-> t.trace,
                       removing |-> t.removing + 1]
      BY <1>2, <2>1, <3>1
    <3>3. \A q : FreshRun(stateful', q) = FreshRun(t, q)
      BY <3>2 DEF FreshRun
    <3>4. t.resets => /\ FreshRun(t, t.trace).fails
                      /\ \A i \in 1..(t.removing + 1 - 1) :
                            ~FreshRun(t, RemoveAt(t.trace, i)).fails
      <4>1. \A i \in 1..(t.removing + 1 - 1) : i \in 1..(t.removing - 1) \/ i = t.removing
        BY <2>2
      <4>2. t.resets => FreshRun(t, t.trace).fails
        BY <2>1 DEF StatefulInv, NoStateful
      <4> QED BY <2>2, <2>4, <2>6, <4>1, <4>2 DEF shorter
    <3> QED BY <1>2, <2>1, <2>2, <3>2, <3>3, <3>4 DEF StatefulInv
  <2> QED BY <2>5, <2>6
<1>6. CASE Shrunk
  <2>1. t.phase = "shrinking" /\ t.removing >= Len(t.trace)
    BY <1>6 DEF Shrunk
  <2>2. stateful' = [phase |-> "failed", model |-> t.model, system |-> t.system,
                     resets |-> t.resets, events |-> t.events, at |-> t.at,
                     state |-> t.state, sut |-> t.sut, trace |-> t.trace,
                     removing |-> t.removing]
    BY <1>2, <1>6, <2>1 DEF Shrunk
  <2>3. \A q : FreshRun(stateful', q) = FreshRun(t, q)
    BY <2>2 DEF FreshRun
  <2> QED BY <1>2, <2>1, <2>2, <2>3 DEF StatefulInv, NoStateful
<1> QED BY <1>1, <1>3, <1>4, <1>5, <1>6 DEF StatefulNext

LEMMA NumericKept ==
    ASSUME NumericInv, NumericNext PROVE NumericInv'
<1> DEFINE t == numeric
<1> USE TestAssumption
<1>1. ASSUME NEW failing \in SUBSET (0..MaxInput), NEW count \in 1..MaxCases,
             BeginNumeric(failing, count)
      PROVE  NumericInv'
  BY <1>1 DEF BeginNumeric, NumericInv, Failing
<1>2. ASSUME numeric.phase \in {"running", "shrinking"}
      PROVE  /\ numeric = [phase |-> t.phase, failing |-> t.failing, count |-> t.count,
                           tested |-> t.tested, shrunk |-> t.shrunk]
             /\ t.tested \in Seq(0..MaxInput) /\ Len(t.tested) \in Nat
             /\ t.shrunk \in 0..MaxInput /\ DOMAIN t.tested = 1..Len(t.tested)
             /\ t.phase = "running" => Failing = {}
  BY <1>2 DEF NumericInv, NoNumeric
<1>3. ASSUME NEW n \in 0..MaxInput, Case(n) PROVE NumericInv'
  <2>1. t.phase = "running"
    BY <1>3 DEF Case
  <2> DEFINE phase == IF n \in t.failing THEN "shrinking" ELSE "running"
             tested == Append(t.tested, n)
  <2>2. numeric' = [phase |-> phase, failing |-> t.failing, count |-> t.count,
                    tested |-> tested, shrunk |-> n]
    BY <1>2, <1>3, <2>1 DEF Case
  <2>3. /\ tested \in Seq(0..MaxInput) /\ Len(tested) = Len(t.tested) + 1
        /\ Last(tested) = n
        /\ \A i \in DOMAIN tested : i \in DOMAIN t.tested \/ i = Len(tested)
        /\ \A i \in DOMAIN t.tested : tested[i] = t.tested[i]
    BY <1>2, <2>1 DEF Last
  <2>4. \A i \in DOMAIN t.tested : t.tested[i] \notin t.failing
    BY <1>2, <2>1 DEF Failing
  <2>5. n \notin t.failing => Failing' = {}
    <3>1. Last(tested) = tested[Len(tested)]
      BY DEF Last
    <3> HIDE DEF tested, phase
    <3>2. Failing' = {i \in DOMAIN tested : tested[i] \in t.failing}
      BY <2>2 DEF Failing
    <3> QED BY <2>3, <2>4, <3>1, <3>2
  <2> HIDE DEF tested
  <2> QED BY <1>2, <2>1, <2>2, <2>3, <2>5 DEF NumericInv
<1>4. CASE ShrinkNumeric
  <2> DEFINE n == t.shrunk
             fail == {i \in DOMAIN Smaller(n) :
                         n > 0 /\ Smaller(n)[i] < n /\ Smaller(n)[i] \in t.failing}
  <2>1. t.phase = "shrinking"
    BY <1>4 DEF ShrinkNumeric
  <2>2. /\ DOMAIN Smaller(n) = 1..3
        /\ Smaller(n)[1] = 0 /\ Smaller(n)[2] = n \div 2 /\ Smaller(n)[3] = n - 1
    BY DEF Smaller
  <2>3. n \in Nat /\ (n > 0 => n \div 2 \in 0..(n - 1))
    BY <1>2, <2>1
  <2>4. Len(t.tested) > 0 /\ n \in t.failing /\ n <= Last(t.tested)
        /\ Last(t.tested) \in 0..MaxInput
    BY <1>2, <2>1 DEF NumericInv, NoNumeric, Last
  <2>5. CASE fail = {}
    <3>1. numeric' = [phase |-> "failed", failing |-> t.failing, count |-> t.count,
                      tested |-> t.tested, shrunk |-> n]
      BY <1>2, <1>4, <2>1, <2>5 DEF ShrinkNumeric
    <3>2. n > 0 => {0, n \div 2, n - 1} \cap t.failing = {}
      <4> SUFFICES ASSUME n > 0 PROVE 0 \notin t.failing /\ n \div 2 \notin t.failing
                                      /\ n - 1 \notin t.failing
        OBVIOUS
      <4>1. \A i \in 1..3 : Smaller(n)[i] < n => Smaller(n)[i] \notin t.failing
        BY <2>2, <2>5
      <4> QED BY <2>2, <2>3, <4>1
    <3> QED BY <1>2, <2>1, <2>4, <3>1, <3>2 DEF NumericInv
  <2>6. CASE fail # {}
    <3> DEFINE m == Smaller(n)[FirstOf(fail)]
    <3>1. FirstOf(fail) \in fail
      <4>1. fail \subseteq Nat
        BY <2>2
      <4> HIDE DEF fail
      <4> QED BY <2>6, <4>1, FirstOfIs
    <3>2. m \in t.failing /\ m < n /\ m \in 0..MaxInput
      <4>1. FirstOf(fail) \in 1..3 /\ n > 0 /\ m < n /\ m \in t.failing
        BY <2>2, <3>1
      <4>2. \A i \in 1..3 : Smaller(n)[i] \in 0..(n - 1)
        BY <2>2, <2>3, <4>1
      <4>3. m \in 0..(n - 1)
        BY <4>1, <4>2
      <4> HIDE DEF m
      <4> QED BY <1>2, <2>1, <4>1, <4>3
    <3>3. numeric' = [t EXCEPT !.shrunk = m]
      BY <1>4, <2>6 DEF ShrinkNumeric
    <3> HIDE DEF m
    <3>4. numeric' = [phase |-> "shrinking", failing |-> t.failing, count |-> t.count,
                      tested |-> t.tested, shrunk |-> m]
      BY <1>2, <2>1, <3>3
    <3>5. m <= Last(t.tested)
      BY <2>3, <2>4, <3>2
    <3> QED BY <1>2, <2>1, <2>4, <3>2, <3>4, <3>5 DEF NumericInv
  <2> QED BY <2>5, <2>6
<1>5. CASE NumericPassed
  <2>1. t.phase = "running" /\ Len(t.tested) = t.count
    BY <1>5 DEF NumericPassed
  <2>2. numeric' = [phase |-> "passed", failing |-> t.failing, count |-> t.count,
                    tested |-> t.tested, shrunk |-> t.shrunk]
    BY <1>2, <1>5, <2>1 DEF NumericPassed
  <2>3. Failing' = Failing
    BY <2>2 DEF Failing
  <2> QED BY <1>2, <2>1, <2>2, <2>3 DEF NumericInv
<1> QED BY <1>1, <1>3, <1>4, <1>5 DEF NumericNext

LEMMA TestInvHolds == TestSpec => []TestInv
<1>1. TestInit => TestInv
  BY DEF TestInit, TestInv, StatefulInv, NumericInv
<1>2. TestInv /\ [TestNext]_testVars => TestInv'
  <2>1. ASSUME stateful' = stateful, StatefulInv PROVE StatefulInv'
    <3>1. \A q : FreshRun(stateful', q) = FreshRun(stateful, q)
      BY <2>1 DEF FreshRun
    <3> QED BY <2>1, <3>1 DEF StatefulInv
  <2>2. ASSUME numeric' = numeric, NumericInv PROVE NumericInv'
    BY <2>2 DEF NumericInv, Failing
  <2>3. StatefulNext => numeric' = numeric
    BY DEF StatefulNext, BeginStateful, StepBoth, Passed, TryRemoval, Shrunk
  <2>4. NumericNext => stateful' = stateful
    BY DEF NumericNext, BeginNumeric, Case, ShrinkNumeric, NumericPassed
  <2> QED BY <2>1, <2>2, <2>3, <2>4, StatefulKept, NumericKept
          DEF TestInv, TestNext, testVars
<1> QED BY <1>1, <1>2, PTL DEF TestSpec

\* What the adapters report as minimal fails from the beginning and is minimal for
\* their removals, in any sequence of removals (_shrink_trace, _shrink_input).
THEOREM ShrunkStaysMinimal == TestSpec => []ShrunkIsMinimal
<1>1. TestInv => ShrunkTraceIsMinimal
  <2> SUFFICES ASSUME TestInv, stateful.phase = "failed", stateful.resets
      PROVE /\ FreshRun(stateful, stateful.trace).fails
            /\ \A i \in 1..(Len(stateful.trace) - 1) :
                  ~FreshRun(stateful, RemoveAt(stateful.trace, i)).fails
            /\ Last(stateful.trace) = stateful.events[stateful.at]
    <3> HIDE DEF Fresh
    <3> QED BY DEF ShrunkTraceIsMinimal, Reproduces, FreshRun
  <2>1. /\ stateful.removing = Len(stateful.trace)
        /\ FreshRun(stateful, stateful.trace).fails
        /\ \A i \in 1..(stateful.removing - 1) :
              ~FreshRun(stateful, RemoveAt(stateful.trace, i)).fails
        /\ Last(stateful.trace) = stateful.events[stateful.at]
    BY DEF TestInv, StatefulInv, NoStateful
  <2> QED BY <2>1
<1>2. TestInv => ShrunkInputIsMinimal
  <2> SUFFICES ASSUME TestInv, numeric.phase \in {"passed", "failed"}
      PROVE  ShrunkInputIsMinimal
    BY DEF ShrunkInputIsMinimal
  <2> QED BY DEF TestInv, NumericInv, NoNumeric, ShrunkInputIsMinimal, Failing
<1>3. TestInv => ShrunkIsMinimal
  BY <1>1, <1>2 DEF ShrunkIsMinimal
<1> QED BY <1>3, TestInvHolds, PTL

-----------------------------------------------------------------------------
\* Explorer: the search of a state model, layer by layer.

\* The layers of the search, one after the other.
Layers(m, n, f) ==
    f = [k \in 0..n |-> IF k = 0 THEN { <<m.start, m.value>> } ELSE Successors(m, f[k - 1])]

LEMMA LayersExist == ASSUME NEW m, NEW n \in Nat PROVE \E f : Layers(m, n, f)
<1> DEFINE P == {k \in 0..n : \E f : Layers(m, k, f)}
<1>1. 0 \in P
  <2>1. Layers(m, 0, [k \in 0..0 |-> { <<m.start, m.value>> }])
    <3> HIDE DEF Successors
    <3> QED BY DEF Layers
  <2> QED BY <2>1
<1>2. ASSUME NEW k \in 0..(n - 1), k \in P PROVE k + 1 \in P
  <2>1. PICK g : Layers(m, k, g)
    BY <1>2
  <2> DEFINE f == [i \in 0..(k + 1) |-> IF i = k + 1 THEN Successors(m, g[k]) ELSE g[i]]
             Step(i) == IF i = 0 THEN { <<m.start, m.value>> } ELSE Successors(m, f[i - 1])
  <2>2. f[k + 1] = Successors(m, g[k]) /\ \A i \in 0..k : f[i] = g[i]
    OBVIOUS
  <2>3. \A i \in 0..k : g[i] = IF i = 0 THEN { <<m.start, m.value>> } ELSE Successors(m, g[i - 1])
    BY <2>1 DEF Layers
  <2>4. f = [i \in 0..(k + 1) |-> f[i]]
    OBVIOUS
  <2> HIDE DEF f
  <2>5. \A i \in 0..(k + 1) : f[i] = Step(i)
    <3> TAKE i \in 0..(k + 1)
    <3>1. CASE i = k + 1
      <4>1. k + 1 # 0 /\ k + 1 - 1 = k /\ k \in 0..k
        OBVIOUS
      <4> QED BY <3>1, <4>1, <2>2
    <3>2. CASE i # k + 1
      <4>1. i \in 0..k /\ (i # 0 => i - 1 \in 0..k)
        BY <3>2
      <4> QED BY <4>1, <2>2, <2>3
    <3> QED BY <3>1, <3>2
  <2>6. Layers(m, k + 1, f)
    BY <2>4, <2>5 DEF Layers
  <2>7. k + 1 \in 0..n
    OBVIOUS
  <2> QED BY <2>6, <2>7
<1>3. n \in P
  <2> HIDE DEF P
  <2>1. \A k \in 0..(n - 1) : k \in P => k + 1 \in P
    BY <1>2
  <2>2. \A k \in 0..n : k \in P
    BY <1>1, <2>1, Counting
  <2> QED BY <2>2
<1> QED BY <1>3

\* What is reached in no transition, and in one more.
LEMMA ReachableFirst == ASSUME NEW m PROVE ReachableIn(m, 0) = { <<m.start, m.value>> }
<1> DEFINE f == CHOOSE f : Layers(m, 0, f)
<1>1. Layers(m, 0, f)
  BY LayersExist, Zenon
<1>2. ReachableIn(m, 0) = f[0]
  BY Zenon DEF ReachableIn, Layers
<1> HIDE DEF f
<1> QED BY <1>1, <1>2 DEF Layers

LEMMA ReachableNext ==
    ASSUME NEW m, NEW n \in Nat
    PROVE  ReachableIn(m, n + 1) = Successors(m, ReachableIn(m, n))
<1> DEFINE f(k) == CHOOSE g : Layers(m, k, g)
           P == {k \in 0..n : f(n)[k] = f(n + 1)[k]}
<1>1. ASSUME NEW k \in Nat PROVE Layers(m, k, f(k)) /\ ReachableIn(m, k) = f(k)[k]
  <2>1. \E g : Layers(m, k, g)
    BY LayersExist
  <2>2. Layers(m, k, f(k))
    BY <2>1, Zenon
  <2>3. ReachableIn(m, k) = f(k)[k]
    BY Zenon DEF ReachableIn, Layers
  <2> QED BY <2>2, <2>3
<1> HIDE DEF f
<1>2. /\ \A k \in 0..n : f(n)[k] = IF k = 0 THEN { <<m.start, m.value>> }
                                            ELSE Successors(m, f(n)[k - 1])
      /\ \A k \in 0..(n + 1) : f(n + 1)[k] = IF k = 0 THEN { <<m.start, m.value>> }
                                                     ELSE Successors(m, f(n + 1)[k - 1])
  <2>1. Layers(m, n, f(n)) /\ Layers(m, n + 1, f(n + 1))
    BY <1>1
  <2> QED BY <2>1 DEF Layers
<1>3. 0 \in P
  <2>1. 0 \in 0..n /\ 0 \in 0..(n + 1)
    OBVIOUS
  <2>2. f(n)[0] = { <<m.start, m.value>> } /\ f(n + 1)[0] = { <<m.start, m.value>> }
    BY <1>2, <2>1
  <2> QED BY <2>1, <2>2
<1>4. ASSUME NEW k \in 0..(n - 1), k \in P PROVE k + 1 \in P
  <2>1. k + 1 \in 0..n /\ k + 1 \in 0..(n + 1) /\ k + 1 # 0 /\ k + 1 - 1 = k
    OBVIOUS
  <2> QED BY <2>1, <1>2, <1>4
<1>5. n \in P
  <2> HIDE DEF P
  <2>1. \A k \in 0..(n - 1) : k \in P => k + 1 \in P
    BY <1>4
  <2>2. \A k \in 0..n : k \in P
    BY <1>3, <2>1, Counting
  <2> QED BY <2>2
<1>6. f(n + 1)[n + 1] = Successors(m, f(n + 1)[n])
  <2>1. n + 1 \in 0..(n + 1) /\ n + 1 # 0 /\ n + 1 - 1 = n
    OBVIOUS
  <2> QED BY <2>1, <1>2
<1> QED BY <1>1, <1>5, <1>6

\* The record of a replay.
Replay(m, q, run) ==
    run = [k \in 0..Len(q) |->
              IF k = 0 THEN [raised |-> "none", at |-> <<m.start, m.value>>, steps |-> 0]
              ELSE LET r == run[k - 1]
                       s == Stepped(m, r.at, q[k])
                   IN  IF r.raised # "none" THEN r
                       ELSE [raised |-> s.raised, at |-> s.at, steps |-> r.steps + 1]]

LEMMA ReplayExists ==
    ASSUME NEW m, NEW q, Len(q) \in Nat
    PROVE  \E run : Replay(m, q, run)
<1> DEFINE Zero == [raised |-> "none", at |-> <<m.start, m.value>>, steps |-> 0]
           More(k, r) == IF r.raised # "none" THEN r
                         ELSE [raised |-> Stepped(m, r.at, q[k]).raised,
                               at |-> Stepped(m, r.at, q[k]).at, steps |-> r.steps + 1]
           Upto(n, run) == run = [k \in 0..n |-> IF k = 0 THEN Zero ELSE More(k, run[k - 1])]
           P == {n \in 0..Len(q) : \E run : Upto(n, run)}
<1>1. 0 \in P
  <2>1. Upto(0, [k \in 0..0 |-> Zero])
    OBVIOUS
  <2>2. 0 \in 0..Len(q)
    OBVIOUS
  <2> HIDE DEF Upto
  <2> QED BY <2>1, <2>2
<1>2. ASSUME NEW n \in 0..(Len(q) - 1), n \in P PROVE n + 1 \in P
  <2>1. PICK g : Upto(n, g)
    BY <1>2
  <2> DEFINE f == [k \in 0..(n + 1) |-> IF k = n + 1 THEN More(n + 1, g[n]) ELSE g[k]]
             Step(k) == IF k = 0 THEN Zero ELSE More(k, f[k - 1])
  <2> HIDE DEF Zero, More
  <2>2. f[n + 1] = More(n + 1, g[n]) /\ \A k \in 0..n : f[k] = g[k]
    OBVIOUS
  <2>3. \A k \in 0..n : g[k] = IF k = 0 THEN Zero ELSE More(k, g[k - 1])
    BY <2>1
  <2>4. f = [k \in 0..(n + 1) |-> f[k]]
    OBVIOUS
  <2> HIDE DEF f
  <2>5. \A k \in 0..(n + 1) : f[k] = Step(k)
    <3> TAKE k \in 0..(n + 1)
    <3>1. CASE k = n + 1
      <4>1. n + 1 # 0 /\ n + 1 - 1 = n /\ n \in 0..n
        OBVIOUS
      <4> QED BY <3>1, <4>1, <2>2
    <3>2. CASE k # n + 1
      <4>1. k \in 0..n /\ (k # 0 => k - 1 \in 0..n)
        BY <3>2
      <4> QED BY <4>1, <2>2, <2>3
    <3> QED BY <3>1, <3>2
  <2>6. Upto(n + 1, f)
    BY <2>4, <2>5
  <2>7. n + 1 \in 0..Len(q)
    OBVIOUS
  <2> HIDE DEF Upto
  <2> QED BY <2>6, <2>7
<1>3. Len(q) \in P
  <2> HIDE DEF P
  <2>1. \A n \in 0..(Len(q) - 1) : n \in P => n + 1 \in P
    BY <1>2
  <2>2. \A k \in 0..Len(q) : k \in P
    BY <1>1, <2>1, Counting
  <2> QED BY <2>2
<1> QED BY <1>3, Zenon DEF Replay

LEMMA ReplayedNothing ==
    ASSUME NEW m
    PROVE  Replayed(m, << >>) = [raised |-> "none", at |-> <<m.start, m.value>>, steps |-> 0]
<1> DEFINE Run == CHOOSE run : Replay(m, << >>, run)
<1>1. Replay(m, << >>, Run)
  <2>1. Len(<< >>) \in Nat
    OBVIOUS
  <2>2. \E run : Replay(m, << >>, run)
    BY <2>1, ReplayExists, Zenon
  <2> QED BY <2>2, Zenon
<1>2. Replayed(m, << >>) = Run[Len(<< >>)]
  BY Zenon DEF Replayed, Replay
<1> HIDE DEF Run
<1> QED BY <1>1, <1>2 DEF Replay

\* One event more is one step more of a replay that has not raised.
LEMMA ReplayedMore ==
    ASSUME NEW m, NEW S, NEW q \in Seq(S), NEW e \in S, Replayed(m, q).raised = "none"
    PROVE  LET r == Replayed(m, q)
               s == Stepped(m, r.at, e)
           IN  Replayed(m, Append(q, e)) =
                  [raised |-> s.raised, at |-> s.at, steps |-> r.steps + 1]
<1> DEFINE Run(p) == CHOOSE run : Replay(m, p, run)
           Zero == [raised |-> "none", at |-> <<m.start, m.value>>, steps |-> 0]
           More(r, x) == IF r.raised # "none" THEN r
                         ELSE [raised |-> Stepped(m, r.at, x).raised,
                               at |-> Stepped(m, r.at, x).at, steps |-> r.steps + 1]
           b == Append(q, e)
           n == Len(q)
<1>1. ASSUME NEW p \in Seq(S) PROVE Replay(m, p, Run(p)) /\ Replayed(m, p) = Run(p)[Len(p)]
  <2>1. Replay(m, p, Run(p))
    <3>1. Len(p) \in Nat
      OBVIOUS
    <3>2. \E run : Replay(m, p, run)
      BY <3>1, ReplayExists, Zenon
    <3> QED BY <3>2, Zenon
  <2>2. Replayed(m, p) = Run(p)[Len(p)]
    BY Zenon DEF Replayed, Replay
  <2> QED BY <2>1, <2>2
<1>2. ASSUME NEW p \in Seq(S)
      PROVE  \A k \in 0..Len(p) : Run(p)[k] = IF k = 0 THEN Zero ELSE More(Run(p)[k - 1], p[k])
  <2> HIDE DEF Run
  <2> QED BY <1>1, Zenon DEF Replay
<1> HIDE DEF Run, Zero
<1>3. /\ b \in Seq(S) /\ n \in Nat /\ Len(b) = n + 1 /\ b[n + 1] = e
      /\ \A i \in 1..n : b[i] = q[i]
  OBVIOUS
<1> HIDE DEF b, n, More
<1>4. Len(q) = n
  BY DEF n
<1> DEFINE P == {i \in 0..n : Run(q)[i] = Run(b)[i]}
<1>5. 0 \in P
  <2>1. 0 \in 0..Len(q) /\ 0 \in 0..Len(b) /\ 0 \in 0..n
    BY <1>3, <1>4
  <2>2. Run(q)[0] = Zero /\ Run(b)[0] = Zero
    BY <1>2, <1>3, <2>1
  <2> QED BY <2>1, <2>2
<1>6. ASSUME NEW i \in 0..(n - 1), i \in P PROVE i + 1 \in P
  <2>1. /\ i + 1 \in 0..n /\ i + 1 \in 0..(n + 1) /\ i + 1 # 0 /\ i + 1 - 1 = i /\ i + 1 \in 1..n
    BY <1>3
  <2>2. Run(q)[i + 1] = IF i + 1 = 0 THEN Zero ELSE More(Run(q)[i + 1 - 1], q[i + 1])
    BY <1>2, <1>4, <2>1
  <2>3. Run(b)[i + 1] = IF i + 1 = 0 THEN Zero ELSE More(Run(b)[i + 1 - 1], b[i + 1])
    BY <1>2, <1>3, <2>1
  <2> QED BY <1>3, <1>6, <2>1, <2>2, <2>3
<1>7. n \in P
  <2> HIDE DEF P
  <2>1. \A i \in 0..(n - 1) : i \in P => i + 1 \in P
    BY <1>6
  <2>2. \A i \in 0..n : i \in P
    BY <1>3, <1>5, <2>1, Counting
  <2> QED BY <1>3, <2>2
<1>8. Run(b)[n + 1] = More(Run(b)[n], e)
  <2>1. n + 1 \in 0..(n + 1) /\ n + 1 # 0 /\ n + 1 - 1 = n
    BY <1>3
  <2>2. Run(b)[n + 1] = IF n + 1 = 0 THEN Zero ELSE More(Run(b)[n + 1 - 1], b[n + 1])
    BY <1>2, <1>3, <2>1
  <2> QED BY <1>3, <2>1, <2>2
<1>9. Replayed(m, b) = More(Replayed(m, q), e)
  BY <1>1, <1>3, <1>4, <1>7, <1>8
<1> QED BY <1>9, Zenon DEF More, b

-----------------------------------------------------------------------------

EventOf(m) == {m.transitions[i].event : i \in DOMAIN m.transitions}

\* Nodes of the search of a model: configurations some path reaches.
NodeOf(m) == [at : UNION {ReachableIn(m, k) : k \in Nat}, depth : Nat, path : Seq(EventOf(m))]

\* A node was found by a shortest path, which replays to it in a deterministic model.
Found(m, x) ==
    /\ x \in NodeOf(m) /\ Len(x.path) = x.depth
    /\ x.at \in ReachableIn(m, x.depth) \ m.forbidden
    /\ \A k \in 0..(x.depth - 1) : x.at \notin ReachableIn(m, k)
    /\ Deterministic(m) => Replayed(m, x.path) = [raised |-> "none", at |-> x.at, steps |-> x.depth]

\* What some of the transitions reach from a configuration was found and is allowed.
Covers(m, V, c, I) ==
    \A i \in I : Enabled(m.transitions[i], c) => After(m.transitions[i], c) \in V \ m.forbidden

\* If all that is pending was found at a depth of n or more, the first n layers were found.
LEMMA LayersCovered ==
    ASSUME NEW m, NEW V, NEW X, NEW n \in Nat,
           <<m.start, m.value>> \in V, V \cap m.forbidden = {},
           \A c \in V : Covers(m, V, c, DOMAIN m.transitions) \/ \E x \in X : x.at = c,
           \A x \in X : Found(m, x) /\ x.depth >= n
    PROVE  \A k \in 0..n : ReachableIn(m, k) \subseteq V \ m.forbidden
<1> DEFINE P == {k \in 0..n : ReachableIn(m, k) \subseteq V \ m.forbidden}
<1>1. 0 \in P
  BY ReachableFirst
<1>2. ASSUME NEW k \in 0..(n - 1), k \in P PROVE k + 1 \in P
  <2>1. ReachableIn(m, k + 1) = Successors(m, ReachableIn(m, k))
    BY ReachableNext
  <2>2. ASSUME NEW y \in Successors(m, ReachableIn(m, k)) PROVE y \in V \ m.forbidden
    <3>1. PICK i \in DOMAIN m.transitions, c \in ReachableIn(m, k) \ m.forbidden :
             Enabled(m.transitions[i], c) /\ y = After(m.transitions[i], c)
      BY <2>2 DEF Successors
    <3>2. c \in V
      BY <1>2
    <3>3. ASSUME NEW x \in X, x.at = c PROVE FALSE
      <4>1. Found(m, x) /\ x.depth >= n
        OBVIOUS
      <4>2. x.depth \in Nat /\ \A j \in 0..(x.depth - 1) : x.at \notin ReachableIn(m, j)
        BY <4>1 DEF Found, NodeOf
      <4>3. k \in 0..(x.depth - 1)
        BY <4>1, <4>2
      <4> QED BY <3>1, <3>3, <4>2, <4>3
    <3>4. Covers(m, V, c, DOMAIN m.transitions)
      BY <3>2, <3>3
    <3> QED BY <3>1, <3>4 DEF Covers
  <2>3. k + 1 \in 0..n
    OBVIOUS
  <2> QED BY <2>1, <2>2, <2>3
<1>3. \A k \in 0..n : k \in P
  <2> HIDE DEF P
  <2>1. \A k \in 0..(n - 1) : k \in P => k + 1 \in P
    BY <1>2
  <2> QED BY <1>1, <2>1, Counting
<1> QED BY <1>3

\* In a deterministic model the enabled transition of an event is the one taken.
LEMMA StepsThrough ==
    ASSUME NEW m \in Models, Deterministic(m), NEW c, NEW i \in DOMAIN m.transitions,
           Enabled(m.transitions[i], c)
    PROVE  LET n == After(m.transitions[i], c)
           IN  Stepped(m, c, m.transitions[i].event) =
                  [raised |-> IF n \in m.forbidden THEN "FORBIDDEN_STATE_REACHED" ELSE "none",
                   at |-> n]
<1> DEFINE e == m.transitions[i].event
           taken == {j \in Candidates(m, c, e) : c[2] \in m.transitions[j].guard}
<1>1. DOMAIN m.transitions \subseteq Nat
  <2> DEFINE S == {m.transitions[j] : j \in DOMAIN m.transitions}
  <2>1. m.transitions \in Seq(S)
    BY ExplorerAssumption, Zenon
  <2> HIDE DEF S
  <2> QED BY <2>1
<1>2. i \in taken /\ i \in Candidates(m, c, e)
  BY DEF Candidates, Enabled
<1>3. \A j \in taken : j = i
  <2> SUFFICES ASSUME NEW j \in taken, j # i PROVE FALSE
    OBVIOUS
  <2>1. /\ j \in DOMAIN m.transitions /\ m.transitions[j].source = m.transitions[i].source
        /\ m.transitions[j].event = m.transitions[i].event /\ c[2] \in m.transitions[j].guard
        /\ c[2] \in m.transitions[i].guard
    BY DEF Candidates, Enabled
  <2>2. m.transitions[j].guard \cap m.transitions[i].guard = {}
    BY <2>1 DEF Deterministic
  <2> QED BY <2>1, <2>2
<1>4. FirstOf(taken) = i
  <2>1. taken \subseteq Nat /\ taken # {}
    BY <1>1, <1>2 DEF Candidates
  <2> HIDE DEF taken
  <2> QED BY <1>3, <2>1, FirstOfIs
<1>5. Stepped(m, c, e) =
         LET n == After(m.transitions[FirstOf(taken)], c)
         IN  [raised |-> IF n \in m.forbidden THEN "FORBIDDEN_STATE_REACHED" ELSE "none",
              at |-> n]
  <2>1. Candidates(m, c, e) # {} /\ taken # {}
    BY <1>2
  <2> QED BY <2>1, Zenon DEF Stepped
<1> QED BY <1>4, <1>5, Zenon

\* What an enabled transition reaches from a node, by a path one longer.
LEMMA NodeFrom ==
    ASSUME NEW m \in Models, NEW x, Found(m, x), NEW i \in DOMAIN m.transitions,
           Enabled(m.transitions[i], x.at)
    PROVE  LET n == After(m.transitions[i], x.at)
               p == Append(x.path, m.transitions[i].event)
           IN  /\ n \in ReachableIn(m, x.depth + 1) /\ x.depth \in Nat
               /\ p \in Seq(EventOf(m)) /\ Len(p) = x.depth + 1
               /\ [at |-> n, depth |-> x.depth + 1, path |-> p] \in NodeOf(m)
               /\ Deterministic(m) =>
                     Replayed(m, p) =
                        [raised |-> IF n \in m.forbidden THEN "FORBIDDEN_STATE_REACHED"
                                                         ELSE "none",
                         at |-> n, steps |-> x.depth + 1]
<1> DEFINE n == After(m.transitions[i], x.at)
           e == m.transitions[i].event
           p == Append(x.path, e)
<1>1. x.depth \in Nat /\ x.path \in Seq(EventOf(m)) /\ Len(x.path) = x.depth
      /\ x.at \in ReachableIn(m, x.depth) \ m.forbidden
  BY DEF Found, NodeOf
<1>2. n \in ReachableIn(m, x.depth + 1)
  <2>1. ReachableIn(m, x.depth + 1) = Successors(m, ReachableIn(m, x.depth))
    BY <1>1, ReachableNext
  <2>2. <<i, x.at>> \in (DOMAIN m.transitions) \X (ReachableIn(m, x.depth) \ m.forbidden)
    BY <1>1
  <2>3. n \in Successors(m, ReachableIn(m, x.depth))
    <3> DEFINE Y == ReachableIn(m, x.depth)
               q == <<i, x.at>>
    <3>1. q \in (DOMAIN m.transitions) \X (Y \ m.forbidden) /\ q[1] = i /\ q[2] = x.at
      BY <2>2
    <3>2. n = After(m.transitions[q[1]], q[2]) /\ Enabled(m.transitions[q[1]], q[2])
      BY <3>1
    <3> DEFINE W == { z \in (DOMAIN m.transitions) \X (Y \ m.forbidden) :
                        Enabled(m.transitions[z[1]], z[2]) }
    <3>3. q \in W
      BY <3>1, <3>2, Zenon
    <3>4. Successors(m, Y) = {After(m.transitions[z[1]], z[2]) : z \in W}
      BY Zenon DEF Successors
    <3> HIDE DEF n, q, Y, W
    <3>5. n \in Successors(m, Y)
      BY <3>2, <3>3, <3>4
    <3> QED BY <3>5 DEF Y
  <2> QED BY <2>1, <2>3
<1>3. e \in EventOf(m)
  BY DEF EventOf
<1>4. p \in Seq(EventOf(m)) /\ Len(p) = x.depth + 1
  <2> HIDE DEF e
  <2> QED BY <1>1, <1>3
<1>5. [at |-> n, depth |-> x.depth + 1, path |-> p] \in NodeOf(m)
  <2>1. x.depth + 1 \in Nat
    BY <1>1
  <2>2. n \in UNION {ReachableIn(m, k) : k \in Nat}
    BY <1>2, <2>1
  <2> HIDE DEF n, p
  <2> QED BY <1>4, <2>1, <2>2 DEF NodeOf
<1>6. ASSUME Deterministic(m)
      PROVE  Replayed(m, p) =
                [raised |-> IF n \in m.forbidden THEN "FORBIDDEN_STATE_REACHED" ELSE "none",
                 at |-> n, steps |-> x.depth + 1]
  <2>1. Replayed(m, x.path) = [raised |-> "none", at |-> x.at, steps |-> x.depth]
    BY <1>6 DEF Found
  <2>2. Stepped(m, x.at, e) =
           [raised |-> IF n \in m.forbidden THEN "FORBIDDEN_STATE_REACHED" ELSE "none",
            at |-> n]
    BY <1>6, StepsThrough
  <2>3. Replayed(m, p) = [raised |-> Stepped(m, x.at, e).raised,
                          at |-> Stepped(m, x.at, e).at, steps |-> x.depth + 1]
    <3>1. Replayed(m, x.path).raised = "none" /\ Replayed(m, x.path).at = x.at
          /\ Replayed(m, x.path).steps = x.depth
      BY <2>1
    <3>2. LET r == Replayed(m, x.path)
              s == Stepped(m, r.at, e)
          IN  Replayed(m, Append(x.path, e)) =
                 [raised |-> s.raised, at |-> s.at, steps |-> r.steps + 1]
      <4> HIDE DEF e
      <4> QED BY <1>1, <1>3, <3>1, ReplayedMore
    <3> HIDE DEF e
    <3> QED BY <3>1, <3>2
  <2> HIDE DEF n, e, p
  <2> QED BY <2>2, <2>3
<1> HIDE DEF n, e, p
<1> QED BY <1>1, <1>2, <1>4, <1>5, <1>6 DEF n, e, p

-----------------------------------------------------------------------------

Waiting(q) == {q[i] : i \in DOMAIN q}
Pending == Waiting(queue) \union IF current = Nowhere THEN {} ELSE {current.node}

\* What waits, and what is being expanded.
QueueInv ==
    /\ job \in Models \X Bounds
    /\ queue \in Seq(NodeOf(model))
    /\ current = Nowhere \/ /\ current = [node |-> current.node, left |-> current.left]
                            /\ current.node \in NodeOf(model)
                            /\ current.left \subseteq DOMAIN model.transitions
    /\ \A x \in Pending : Found(model, x)

Ordered(q) ==
    \A i, j \in DOMAIN q : i <= j => q[i].depth <= q[j].depth /\ q[j].depth <= q[i].depth + 1

\* The queue goes on by one layer at most, from that of what is being expanded; what
\* was too deep was followed by nothing shallower.
OrderInv ==
    /\ Ordered(queue)
    /\ current # Nowhere =>
          \A i \in DOMAIN queue : /\ current.node.depth <= queue[i].depth
                                  /\ queue[i].depth <= current.node.depth + 1
    /\ boundHit => /\ current = Nowhere
                   /\ \A i \in DOMAIN queue : queue[i].depth >= bounds.depth

\* Unless a bound was met, what was found and is not pending has its successors found.
CoverInv ==
    /\ IsFiniteSet(visited) /\ <<model.start, model.value>> \in visited
    /\ visited \cap model.forbidden = {}
    /\ ~boundHit => \A c \in visited : \/ Covers(model, visited, c, DOMAIN model.transitions)
                                       \/ \E x \in Pending : x.at = c
    /\ current # Nowhere => Covers(model, visited, current.node.at,
                                   DOMAIN model.transitions \ current.left)

SearchInv == boundHit \in BOOLEAN /\ QueueInv /\ OrderInv /\ CoverInv

Unstarted ==
    /\ job = << >> /\ queue = << >> /\ visited = {} /\ current = Nowhere
    /\ boundHit = FALSE /\ verdict = NoVerdict

ExplorerInv ==
    \/ Unstarted
    \/ Searching /\ SearchInv
    \/ job # << >> /\ verdict # NoVerdict /\ ExplorationIsSound

\* A queue without its head, and with one more at its end.
LEMMA HeadTaken ==
    ASSUME NEW S, NEW q \in Seq(S), q # << >>, Ordered(q)
    PROVE  /\ Head(q) = q[1] /\ Head(q) \in S /\ 1 \in DOMAIN q
           /\ Tail(q) \in Seq(S) /\ Waiting(q) = Waiting(Tail(q)) \union {Head(q)}
           /\ Ordered(Tail(q))
           /\ \A i \in DOMAIN Tail(q) : i + 1 \in DOMAIN q /\ Tail(q)[i] = q[i + 1]
<1>1. /\ Len(q) \in Nat /\ Len(q) > 0 /\ DOMAIN q = 1..Len(q)
      /\ Head(q) = q[1] /\ Head(q) \in S
      /\ Tail(q) \in Seq(S) /\ Len(Tail(q)) = Len(q) - 1 /\ DOMAIN Tail(q) = 1..(Len(q) - 1)
      /\ \A i \in 1..(Len(q) - 1) : Tail(q)[i] = q[i + 1]
  OBVIOUS
<1>2. \A i \in DOMAIN Tail(q) : i + 1 \in DOMAIN q /\ Tail(q)[i] = q[i + 1]
  BY <1>1
<1>3. \A i \in DOMAIN q : i = 1 \/ \E j \in DOMAIN Tail(q) : q[i] = Tail(q)[j]
  <2> SUFFICES ASSUME NEW i \in DOMAIN q, i # 1 PROVE \E j \in DOMAIN Tail(q) : q[i] = Tail(q)[j]
    OBVIOUS
  <2>1. i - 1 \in 1..(Len(q) - 1) /\ i - 1 + 1 = i
    BY <1>1
  <2>2. Tail(q)[i - 1] = q[i]
    BY <1>1, <2>1
  <2> QED BY <1>1, <2>1, <2>2
<1>4. Waiting(q) = Waiting(Tail(q)) \union {Head(q)}
  <2> DEFINE p == Tail(q)
  <2> HIDE DEF p
  <2>1. /\ \A i \in DOMAIN q : i = 1 \/ \E j \in DOMAIN p : q[i] = p[j]
        /\ \A j \in DOMAIN p : \E i \in DOMAIN q : p[j] = q[i]
        /\ 1 \in DOMAIN q /\ Head(q) = q[1]
    BY <1>1, <1>2, <1>3 DEF p
  <2>2. Waiting(q) = Waiting(p) \union {Head(q)}
    BY <2>1 DEF Waiting
  <2> QED BY <2>2 DEF p
<1>5. Ordered(Tail(q))
  <2> SUFFICES ASSUME NEW i \in DOMAIN Tail(q), NEW j \in DOMAIN Tail(q), i <= j
      PROVE  /\ Tail(q)[i].depth <= Tail(q)[j].depth
             /\ Tail(q)[j].depth <= Tail(q)[i].depth + 1
    BY DEF Ordered
  <2>1. i + 1 \in DOMAIN q /\ j + 1 \in DOMAIN q /\ i + 1 <= j + 1
    BY <1>1, <1>2
  <2> QED BY <1>2, <2>1 DEF Ordered
<1> QED BY <1>1, <1>2, <1>4, <1>5

LEMMA OneQueued ==
    ASSUME NEW S, NEW q \in Seq(S), NEW x \in S
    PROVE  /\ Append(q, x) \in Seq(S) /\ Waiting(Append(q, x)) = Waiting(q) \union {x}
           /\ \A i \in DOMAIN Append(q, x) :
                 \/ i \in DOMAIN q /\ Append(q, x)[i] = q[i]
                 \/ i = Len(q) + 1 /\ Append(q, x)[i] = x
           /\ Len(q) \in Nat /\ DOMAIN q = 1..Len(q)
<1>1. /\ Append(q, x) \in Seq(S) /\ Len(q) \in Nat /\ DOMAIN q = 1..Len(q)
      /\ DOMAIN Append(q, x) = 1..(Len(q) + 1)
      /\ \A i \in DOMAIN q : Append(q, x)[i] = q[i]
      /\ Append(q, x)[Len(q) + 1] = x
  OBVIOUS
<1>2. \A i \in DOMAIN Append(q, x) : i \in DOMAIN q \/ i = Len(q) + 1
  BY <1>1
<1>3. (\A i \in DOMAIN q : i \in DOMAIN Append(q, x)) /\ Len(q) + 1 \in DOMAIN Append(q, x)
  BY <1>1
<1>4. Waiting(Append(q, x)) = Waiting(q) \union {x}
  <2> DEFINE p == Append(q, x)
             n == Len(q) + 1
  <2> HIDE DEF p, n
  <2>1. /\ \A i \in DOMAIN p : i \in DOMAIN q \/ i = n
        /\ \A i \in DOMAIN q : i \in DOMAIN p /\ p[i] = q[i]
        /\ n \in DOMAIN p /\ p[n] = x
    BY <1>1, <1>2, <1>3 DEF p, n
  <2>2. Waiting(p) = Waiting(q) \union {x}
    BY <2>1 DEF Waiting
  <2> QED BY <2>2 DEF p
<1> QED BY <1>1, <1>2, <1>4

\* A node is a record; nothing is expanded when no node is.
LEMMA NodesAreRecords ==
    ASSUME NEW m, NEW x \in NodeOf(m), NEW left
    PROVE  [node |-> x, left |-> left] # Nowhere /\ x.depth \in Nat
<1>1. "at" \in DOMAIN x /\ x.depth \in Nat
  BY DEF NodeOf
<1>2. "at" \notin DOMAIN << >>
  OBVIOUS
<1> QED BY <1>1, <1>2 DEF Nowhere

LEMMA SearchBegins ==
    ASSUME Unstarted, NEW m \in Models, NEW b \in Bounds, Explore(m, b)
    PROVE  Searching' /\ SearchInv'
<1> DEFINE x == [at |-> <<m.start, m.value>>, depth |-> 0, path |-> << >>]
<1>1. /\ job' = <<m, b>> /\ queue' = <<x>> /\ visited' = { <<m.start, m.value>> }
      /\ current' = Nowhere /\ boundHit' = FALSE /\ verdict' = NoVerdict
  BY DEF Explore, Unstarted
<1>2. model' = m /\ job' # << >> /\ job' \in Models \X Bounds
  BY <1>1 DEF model
<1>3. x.at \notin m.forbidden
  BY DEF Explore, ValidModel
<1>4. Found(m, x)
  <2>1. << >> \in Seq(EventOf(m)) /\ Len(<< >>) = 0
    OBVIOUS
  <2>2. x.at \in ReachableIn(m, 0)
    BY ReachableFirst
  <2>3. x \in NodeOf(m)
    <3> DEFINE c == x.at
    <3>1. c \in UNION {ReachableIn(m, k) : k \in Nat}
      BY <2>2
    <3> HIDE DEF c
    <3>2. [at |-> c, depth |-> 0, path |-> << >>] \in NodeOf(m)
      BY <2>1, <3>1 DEF NodeOf
    <3> QED BY <3>2 DEF c
  <2>4. x.depth = 0 /\ x.path = << >> /\ 0..(x.depth - 1) = {}
    OBVIOUS
  <2>5. Replayed(m, x.path) = [raised |-> "none", at |-> x.at, steps |-> x.depth]
    BY ReplayedNothing
  <2> HIDE DEF x
  <2> QED BY <1>3, <2>1, <2>2, <2>3, <2>4, <2>5 DEF Found
<1> HIDE DEF x
<1>5. x \in NodeOf(m)
  BY <1>4 DEF Found
<1>6. <<x>> \in Seq(NodeOf(m)) /\ DOMAIN <<x>> = 1..1 /\ <<x>>[1] = x
  BY <1>5
<1>7. Pending' = {x}
  <2>1. Waiting(<<x>>) = {x}
    BY <1>6 DEF Waiting
  <2> QED BY <1>1, <2>1 DEF Pending
<1>8. QueueInv'
  BY <1>1, <1>2, <1>4, <1>6, <1>7 DEF QueueInv
<1>9. OrderInv'
  <2>1. Ordered(<<x>>)
    <3>1. x.depth \in Nat
      BY <1>5 DEF NodeOf
    <3> QED BY <1>6, <3>1 DEF Ordered
  <2> QED BY <1>1, <2>1 DEF OrderInv
<1>10. CoverInv'
  <2>1. visited' = {x.at} /\ x.at = <<m.start, m.value>> /\ IsFiniteSet({x.at})
    BY <1>1, FS_Singleton DEF x
  <2> QED BY <1>1, <1>2, <1>3, <1>7, <2>1 DEF CoverInv
<1> QED BY <1>1, <1>2, <1>8, <1>9, <1>10 DEF Searching, SearchInv

\* The head of the queue is dropped, and all behind it will be.
LEMMA DeepOnesDropped ==
    ASSUME Searching, SearchInv, TooDeep PROVE Searching' /\ SearchInv'
<1> DEFINE m == model
           q == queue
<1>1. /\ job' = job /\ visited' = visited /\ current' = Nowhere /\ current = Nowhere
      /\ verdict' = verdict /\ boundHit' = TRUE /\ queue' = Tail(q)
      /\ q # << >> /\ Head(q).depth >= bounds.depth
  BY DEF TooDeep
<1>2. model' = m /\ bounds' = bounds
  BY <1>1 DEF model, bounds
<1>3. q \in Seq(NodeOf(m)) /\ Ordered(q)
  BY DEF SearchInv, QueueInv, OrderInv
<1>4. /\ Head(q) = q[1] /\ 1 \in DOMAIN q /\ Tail(q) \in Seq(NodeOf(m))
      /\ Waiting(Tail(q)) \subseteq Waiting(q) /\ Ordered(Tail(q))
      /\ \A i \in DOMAIN Tail(q) : i + 1 \in DOMAIN q /\ Tail(q)[i] = q[i + 1]
  <2> HIDE DEF q, m
  <2> QED BY <1>1, <1>3, HeadTaken
<1>5. Pending' \subseteq Pending
  BY <1>1, <1>4 DEF Pending
<1>6. \A i \in DOMAIN Tail(q) : Tail(q)[i].depth >= bounds.depth
  <2> TAKE i \in DOMAIN Tail(q)
  <2>1. i + 1 \in DOMAIN q /\ Tail(q)[i] = q[i + 1] /\ 1 <= i + 1
    BY <1>3, <1>4
  <2>2. q[1].depth <= q[i + 1].depth
    BY <1>3, <1>4, <2>1 DEF Ordered
  <2>3. q[1].depth \in Nat /\ q[i + 1].depth \in Nat /\ bounds.depth \in Nat
    <3>1. \A k \in DOMAIN q : q[k].depth \in Nat
      <4>1. \A k \in DOMAIN q : q[k] \in NodeOf(m)
        BY <1>3, ElementsOf
      <4> QED BY <4>1 DEF NodeOf
    <3>2. bounds \in Bounds
      BY DEF SearchInv, QueueInv, bounds
    <3> QED BY <1>4, <2>1, <3>1, <3>2, ExplorerAssumption
  <2> QED BY <1>1, <1>4, <2>1, <2>2, <2>3
<1>7. QueueInv'
  BY <1>1, <1>2, <1>4, <1>5 DEF SearchInv, QueueInv
<1>8. OrderInv'
  BY <1>1, <1>2, <1>4, <1>6 DEF OrderInv
<1>9. CoverInv'
  BY <1>1, <1>2 DEF SearchInv, CoverInv
<1> QED BY <1>1, <1>7, <1>8, <1>9 DEF Searching, SearchInv

\* The head of the queue is what is expanded next.
LEMMA HeadExpanded ==
    ASSUME Searching, SearchInv, Expand PROVE Searching' /\ SearchInv'
<1> DEFINE m == model
           q == queue
           x == Head(q)
           out == Outgoing(m, x.at)
<1>1. /\ job' = job /\ visited' = visited /\ current = Nowhere
      /\ current' = [node |-> x, left |-> out]
      /\ verdict' = verdict /\ boundHit' = boundHit /\ queue' = Tail(q)
      /\ q # << >> /\ x.depth < bounds.depth
  BY DEF Expand
<1>2. model' = m /\ bounds' = bounds
  BY <1>1 DEF model, bounds
<1>3. q \in Seq(NodeOf(m)) /\ Ordered(q)
  BY DEF SearchInv, QueueInv, OrderInv
<1>4. /\ x = q[1] /\ 1 \in DOMAIN q /\ Tail(q) \in Seq(NodeOf(m)) /\ x \in NodeOf(m)
      /\ Waiting(q) = Waiting(Tail(q)) \union {x} /\ Ordered(Tail(q))
      /\ \A i \in DOMAIN Tail(q) : i + 1 \in DOMAIN q /\ Tail(q)[i] = q[i + 1]
  <2> HIDE DEF q, m
  <2> QED BY <1>1, <1>3, HeadTaken
<1>5. current' # Nowhere
  <2> HIDE DEF x, out
  <2> QED BY <1>1, <1>4, NodesAreRecords
<1>6. Pending' = Pending
  <2> HIDE DEF x, out
  <2>1. current'.node = x
    BY <1>1
  <2> QED BY <1>1, <1>4, <1>5, <2>1 DEF Pending
<1>7. ~boundHit
  <2>1. x.depth \in Nat /\ bounds.depth \in Nat
    <3>1. bounds \in Bounds
      BY DEF SearchInv, QueueInv, bounds
    <3> QED BY <1>4, <3>1, ExplorerAssumption DEF NodeOf
  <2>2. boundHit => q[1].depth >= bounds.depth
    BY <1>4 DEF SearchInv, OrderInv
  <2> QED BY <1>1, <1>4, <2>1, <2>2
<1>8. QueueInv'
  <2>1. out \subseteq DOMAIN m.transitions
    BY DEF Outgoing
  <2> HIDE DEF x, out
  <2>2. current'.node = x /\ current'.left = out
    BY <1>1
  <2> QED BY <1>1, <1>2, <1>4, <1>6, <2>1, <2>2 DEF SearchInv, QueueInv
<1>9. OrderInv'
  <2>1. \A i \in DOMAIN Tail(q) : x.depth <= Tail(q)[i].depth /\ Tail(q)[i].depth <= x.depth + 1
    <3> TAKE i \in DOMAIN Tail(q)
    <3>1. i + 1 \in DOMAIN q /\ Tail(q)[i] = q[i + 1] /\ 1 <= i + 1
      BY <1>3, <1>4
    <3> QED BY <1>3, <1>4, <3>1 DEF Ordered
  <2> HIDE DEF x, out
  <2>2. current'.node = x
    BY <1>1
  <2> QED BY <1>1, <1>2, <1>4, <1>7, <2>1, <2>2 DEF OrderInv
<1>10. CoverInv'
  <2>1. Covers(m, visited, x.at, DOMAIN m.transitions \ out)
    BY DEF Covers, Outgoing, Enabled
  <2> HIDE DEF x, out
  <2>2. current'.node = x /\ current'.left = out
    BY <1>1
  <2> QED BY <1>1, <1>2, <1>6, <2>1, <2>2 DEF SearchInv, CoverInv
<1> QED BY <1>1, <1>8, <1>9, <1>10 DEF Searching, SearchInv

\* What has been tried completely is no longer pending.
LEMMA NothingLeft ==
    ASSUME Searching, SearchInv, Skip PROVE Searching' /\ SearchInv'
<1> DEFINE m == model
<1>1. /\ job' = job /\ visited' = visited /\ current # Nowhere /\ current.left = {}
      /\ current' = Nowhere
      /\ verdict' = verdict /\ boundHit' = boundHit /\ queue' = queue
  BY DEF Skip
<1>2. model' = m /\ bounds' = bounds
  BY <1>1 DEF model, bounds
<1>3. Pending = Pending' \union {current.node}
  BY <1>1 DEF Pending
<1>4. QueueInv'
  BY <1>1, <1>2, <1>3 DEF SearchInv, QueueInv
<1>5. OrderInv'
  BY <1>1, <1>2 DEF SearchInv, OrderInv
<1>6. CoverInv'
  <2>1. Covers(m, visited, current.node.at, DOMAIN m.transitions)
    BY <1>1 DEF SearchInv, CoverInv
  <2>2. ASSUME ~boundHit, NEW c \in visited
        PROVE  Covers(m, visited, c, DOMAIN m.transitions) \/ \E x \in Pending' : x.at = c
    <3>1. Covers(m, visited, c, DOMAIN m.transitions) \/ \E x \in Pending : x.at = c
      BY <2>2 DEF SearchInv, CoverInv
    <3> QED BY <1>3, <2>1, <3>1
  <2> QED BY <1>1, <1>2, <2>2 DEF SearchInv, CoverInv
<1> QED BY <1>1, <1>4, <1>5, <1>6 DEF Searching, SearchInv

\* The place of the transition tried, and that all the layers up to that of the node
\* being expanded have been found.
LEMMA BeforeTrying ==
    ASSUME SearchInv, current.left # {}
    PROVE  /\ current # Nowhere /\ ~boundHit /\ model \in Models
           /\ FirstOf(current.left) \in current.left
           /\ FirstOf(current.left) \in DOMAIN model.transitions
           /\ Found(model, current.node) /\ current.node.depth \in Nat
           /\ \A k \in 0..current.node.depth :
                 ReachableIn(model, k) \subseteq visited \ model.forbidden
<1> DEFINE m == model
           d == current.node.depth
<1>1. current # Nowhere /\ ~boundHit
  BY DEF Nowhere, SearchInv, OrderInv
<1>2. m \in Models
  BY DEF SearchInv, QueueInv, model
<1>3. FirstOf(current.left) \in current.left /\ current.left \subseteq DOMAIN m.transitions
  <2>1. current.left \subseteq DOMAIN m.transitions
    BY <1>1 DEF SearchInv, QueueInv
  <2>2. DOMAIN m.transitions \subseteq Nat
    <3> DEFINE S == {m.transitions[j] : j \in DOMAIN m.transitions}
    <3>1. m.transitions \in Seq(S)
      BY <1>2, ExplorerAssumption, Zenon
    <3> HIDE DEF S
    <3> QED BY <3>1
  <2> QED BY <2>1, <2>2, FirstOfIs
<1>4. Found(m, current.node) /\ d \in Nat
  <2>1. current.node \in Pending
    BY <1>1 DEF Pending
  <2> QED BY <2>1 DEF SearchInv, QueueInv, Found, NodeOf
<1>5. \A x \in Pending : Found(m, x) /\ x.depth >= d
  <2> TAKE x \in Pending
  <2>1. Found(m, x)
    BY DEF SearchInv, QueueInv
  <2>2. CASE x = current.node
    BY <1>4, <2>1, <2>2
  <2>3. CASE x # current.node
    <3>1. PICK i \in DOMAIN queue : x = queue[i]
      BY <1>1, <2>3 DEF Pending, Waiting
    <3>2. d <= queue[i].depth
      BY <1>1 DEF SearchInv, OrderInv
    <3> QED BY <1>4, <2>1, <3>1, <3>2 DEF Found, NodeOf
  <2> QED BY <2>2, <2>3
<1>6. \A k \in 0..d : ReachableIn(m, k) \subseteq visited \ m.forbidden
  <2>1. /\ <<m.start, m.value>> \in visited /\ visited \cap m.forbidden = {}
        /\ \A c \in visited : \/ Covers(m, visited, c, DOMAIN m.transitions)
                             \/ \E x \in Pending : x.at = c
    BY <1>1 DEF SearchInv, CoverInv
  <2>2. /\ d \in Nat /\ \A x \in Pending : Found(m, x) /\ x.depth >= d
    BY <1>4, <1>5
  <2> HIDE DEF m, d
  <2> DEFINE V == visited
         X == Pending
  <2>3. /\ <<m.start, m.value>> \in V /\ V \cap m.forbidden = {}
        /\ \A c \in V : Covers(m, V, c, DOMAIN m.transitions) \/ \E x \in X : x.at = c
        /\ d \in Nat /\ \A x \in X : Found(m, x) /\ x.depth >= d
    BY <2>1, <2>2
  <2> HIDE DEF V, X
  <2>4. \A k \in 0..d : ReachableIn(m, k) \subseteq V \ m.forbidden
    BY <2>3, LayersCovered
  <2> QED BY <2>4 DEF V, X
<1> QED BY <1>1, <1>2, <1>3, <1>4, <1>6

\* A transition that is tried finds nothing, or something new one layer on; or it ends
\* the search at a forbidden configuration no shorter path reaches.
LEMMA TransitionTried ==
    ASSUME Searching, SearchInv, Try
    PROVE  \/ Searching' /\ SearchInv'
           \/ (job # << >> /\ verdict # NoVerdict /\ ExplorationIsSound)'
<1> DEFINE m == model
           x == current.node
           d == x.depth
           i == FirstOf(current.left)
           t == m.transitions[i]
           n == After(t, x.at)
           p == Append(x.path, t.event)
           next == [at |-> n, depth |-> d + 1, path |-> p]
           left == current.left \ {i}
<1>1. /\ job' = job /\ boundHit' = boundHit /\ current.left # {}
      /\ current' = IF left = {} THEN Nowhere ELSE [current EXCEPT !.left = left]
  BY DEF Try
<1>2. model' = m /\ bounds' = bounds
  BY <1>1 DEF model, bounds
<1>3. /\ current # Nowhere /\ ~boundHit /\ m \in Models /\ i \in current.left
      /\ i \in DOMAIN m.transitions /\ Found(m, x) /\ d \in Nat
      /\ \A k \in 0..d : ReachableIn(m, k) \subseteq visited \ m.forbidden
  BY <1>1, BeforeTrying
<1>4. /\ current = [node |-> x, left |-> current.left] /\ x \in NodeOf(m)
      /\ current.left \subseteq DOMAIN m.transitions
      /\ queue \in Seq(NodeOf(m))
      /\ \A y \in Pending : Found(m, y)
  BY <1>3 DEF SearchInv, QueueInv
<1>5. /\ Ordered(queue)
      /\ \A j \in DOMAIN queue : d <= queue[j].depth /\ queue[j].depth <= d + 1
  BY <1>3 DEF SearchInv, OrderInv
<1>6. /\ IsFiniteSet(visited) /\ <<m.start, m.value>> \in visited
      /\ visited \cap m.forbidden = {}
      /\ \A c \in visited : \/ Covers(m, visited, c, DOMAIN m.transitions)
                           \/ \E y \in Pending : y.at = c
      /\ Covers(m, visited, x.at, DOMAIN m.transitions \ current.left)
  BY <1>3 DEF SearchInv, CoverInv
<1>7. ASSUME Enabled(t, x.at)
      PROVE  /\ n \in ReachableIn(m, d + 1) /\ p \in Seq(EventOf(m)) /\ Len(p) = d + 1
             /\ next \in NodeOf(m)
             /\ Deterministic(m) =>
                   Replayed(m, p) =
                      [raised |-> IF n \in m.forbidden THEN "FORBIDDEN_STATE_REACHED"
                                                       ELSE "none",
                       at |-> n, steps |-> d + 1]
  BY <1>3, <1>7, NodeFrom
<1>8. CASE Enabled(t, x.at) /\ n \in m.forbidden
  <2>1. verdict' = [status |-> "FORBIDDEN_STATE_FOUND", trace |-> p]
    BY <1>8 DEF Try
  <2> HIDE DEF n, p, d, x, i, t, m
  <2>2. ReachableIn(m, d + 1) \cap m.forbidden # {}
    BY <1>7, <1>8
  <2>3. \A k \in 0..(d + 1 - 1) : ReachableIn(m, k) \cap m.forbidden = {}
    BY <1>3
  <2>4. Deterministic(m) => /\ Replayed(m, p).raised = "FORBIDDEN_STATE_REACHED"
                            /\ Replayed(m, p).steps = d + 1
    BY <1>7, <1>8
  <2>5. verdict'.trace = p /\ verdict'.status = "FORBIDDEN_STATE_FOUND"
    BY <2>1
  <2>6. CounterexampleIsShortest'
    <3>1. /\ ReachableIn(m, Len(p)) \cap m.forbidden # {}
          /\ \A k \in 0..(Len(p) - 1) : ReachableIn(m, k) \cap m.forbidden = {}
          /\ Deterministic(m) => /\ Replayed(m, p).raised = "FORBIDDEN_STATE_REACHED"
                                 /\ Replayed(m, p).steps = Len(p)
      <4>1. Len(p) = d + 1
        BY <1>7, <1>8
      <4> QED BY <1>3, <2>2, <2>3, <2>4, <4>1
    <3> QED BY <1>2, <2>5, <3>1, Zenon DEF CounterexampleIsShortest
  <2>7. ExhaustedMeansCovered'
    BY <2>5 DEF ExhaustedMeansCovered
  <2>8. verdict' # NoVerdict
    BY <2>5 DEF NoVerdict
  <2> QED BY <1>1, <2>6, <2>7, <2>8 DEF ExplorationIsSound, Searching
<1>9. CASE ~(Enabled(t, x.at) /\ n \in m.forbidden)
  <2>1. \/ /\ ~Enabled(t, x.at) /\ UNCHANGED <<queue, visited, verdict>>
        \/ /\ Enabled(t, x.at) /\ n \notin m.forbidden
           /\ visited' = visited \union {n} /\ verdict' = verdict
           /\ queue' = IF n \in visited THEN queue ELSE Append(queue, next)
    BY <1>9 DEF Try
  <2>2. verdict' = verdict
    BY <2>1
  <2>3. Enabled(t, x.at) /\ n \notin visited /\ n \notin m.forbidden => Found(m, next)
    <3> SUFFICES ASSUME Enabled(t, x.at), n \notin visited, n \notin m.forbidden
        PROVE Found(m, next)
      OBVIOUS
    <3>1. next.at = n /\ next.depth = d + 1 /\ next.path = p
      OBVIOUS
    <3>2. \A k \in 0..(d + 1 - 1) : n \notin ReachableIn(m, k)
      <4> HIDE DEF n, d, m
      <4> QED BY <1>3
    <3>3. /\ n \in ReachableIn(m, d + 1) /\ Len(p) = d + 1 /\ next \in NodeOf(m)
          /\ Deterministic(m) => Replayed(m, p) = [raised |-> "none", at |-> n, steps |-> d + 1]
      <4> HIDE DEF n, p, d, m, next
      <4> QED BY <1>7
    <3> HIDE DEF n, p, d, m, next
    <3> QED BY <1>3, <3>1, <3>2, <3>3 DEF Found
  <2>4. next.at = n /\ next.depth = d + 1
    OBVIOUS
  <2> HIDE DEF next, n, p
  <2>5. /\ queue' \in Seq(NodeOf(m)) /\ Ordered(queue')
        /\ \A j \in DOMAIN queue' : d <= queue'[j].depth /\ queue'[j].depth <= d + 1
        /\ Waiting(queue) \subseteq Waiting(queue')
        /\ \A y \in Waiting(queue') : y \in Waiting(queue) \/ Found(m, y)
    <3>1. CASE queue' = queue
      BY <1>4, <1>5, <3>1
    <3>2. CASE queue' # queue
      <4>1. /\ Enabled(t, x.at) /\ n \notin visited /\ n \notin m.forbidden
            /\ queue' = Append(queue, next)
        BY <2>1, <3>2
      <4>2. next \in NodeOf(m) /\ Found(m, next)
        BY <1>7, <2>3, <4>1
      <4> DEFINE q == queue
      <4>3. /\ Append(q, next) \in Seq(NodeOf(m))
            /\ Waiting(Append(q, next)) = Waiting(q) \union {next}
            /\ \A j \in DOMAIN Append(q, next) :
                  \/ j \in DOMAIN q /\ Append(q, next)[j] = q[j]
                  \/ j = Len(q) + 1 /\ Append(q, next)[j] = next
            /\ Len(q) \in Nat /\ DOMAIN q = 1..Len(q)
        <5> HIDE DEF q, m
        <5>1. q \in Seq(NodeOf(m))
          BY <1>4 DEF q
        <5> QED BY <4>2, <5>1, OneQueued
      <4>4. \A j \in DOMAIN q : q[j].depth \in Nat
        <5>1. \A j \in DOMAIN q : q[j] \in NodeOf(m)
          BY <1>4, ElementsOf
        <5> QED BY <5>1 DEF NodeOf
      <4> DEFINE r == Append(q, next)
      <4> HIDE DEF r, q, d, m
      <4>5. \A j \in DOMAIN r : d <= r[j].depth /\ r[j].depth <= d + 1
        BY <1>3, <1>5, <2>4, <4>3 DEF r, q
      <4>6. Ordered(r)
        <5> SUFFICES ASSUME NEW j \in DOMAIN r, NEW k \in DOMAIN r, j <= k
            PROVE  r[j].depth <= r[k].depth /\ r[k].depth <= r[j].depth + 1
          BY DEF Ordered
        <5>1. CASE k \in DOMAIN q
          <6>1. j \in DOMAIN q
            BY <4>3, <5>1 DEF r
          <6>2. r[j] = q[j] /\ r[k] = q[k]
            BY <4>3, <5>1, <6>1 DEF r
          <6> QED BY <1>5, <5>1, <6>1, <6>2 DEF Ordered, q
        <5>2. CASE k \notin DOMAIN q
          <6>1. r[k].depth = d + 1
            BY <2>4, <4>3, <5>2 DEF r
          <6>2. r[j].depth \in Nat
            BY <1>3, <2>4, <4>3, <4>4 DEF r
          <6>3. d <= r[j].depth /\ r[j].depth <= d + 1
            BY <4>5
          <6> QED BY <1>3, <6>1, <6>2, <6>3
        <5> QED BY <5>1, <5>2
      <4>7. queue' = r
        BY <4>1 DEF r, q
      <4> QED BY <4>2, <4>3, <4>5, <4>6, <4>7 DEF r, q
    <3> QED BY <3>1, <3>2
  <2>6. /\ IsFiniteSet(visited') /\ visited \subseteq visited'
        /\ visited' \cap m.forbidden = {}
        /\ \A c \in visited' : c \in visited \/ \E y \in Waiting(queue') : y.at = c
        /\ Enabled(t, x.at) => n \in visited' \ m.forbidden
    <3>1. CASE UNCHANGED <<queue, visited>> /\ ~Enabled(t, x.at)
      BY <1>6, <3>1
    <3>2. CASE /\ Enabled(t, x.at) /\ n \notin m.forbidden
               /\ visited' = visited \union {n}
               /\ queue' = IF n \in visited THEN queue ELSE Append(queue, next)
      <4>1. IsFiniteSet(visited')
        BY <1>6, <3>2, FS_AddElement
      <4>2. n \in visited \/ next \in Waiting(queue')
        <5> SUFFICES ASSUME n \notin visited PROVE next \in Waiting(queue')
          OBVIOUS
        <5>1. next \in NodeOf(m) /\ queue' = Append(queue, next)
          BY <1>7, <3>2
        <5> QED BY <1>4, <5>1, OneQueued
      <4> QED BY <1>6, <2>4, <3>2, <4>1, <4>2
    <3> QED BY <2>1, <3>1, <3>2
  <2>7. \A c, I : Covers(m, visited, c, I) => Covers(m, visited', c, I)
    BY <2>6 DEF Covers
  <2>8. Covers(m, visited', x.at, DOMAIN m.transitions \ left)
    <3> SUFFICES ASSUME NEW j \in DOMAIN m.transitions \ left, Enabled(m.transitions[j], x.at)
        PROVE  After(m.transitions[j], x.at) \in visited' \ m.forbidden
      BY DEF Covers
    <3>1. CASE j = i
      BY <2>6, <3>1 DEF n
    <3>2. CASE j # i
      <4>1. j \in DOMAIN m.transitions \ current.left
        BY <3>2
      <4>2. Covers(m, visited', x.at, DOMAIN m.transitions \ current.left)
        BY <1>6, <2>7
      <4> QED BY <4>1, <4>2 DEF Covers
    <3> QED BY <3>1, <3>2
  <2> HIDE DEF left
  <2>9. \/ left = {} /\ current' = Nowhere /\ Pending' = Waiting(queue')
        \/ /\ left # {} /\ current' = [node |-> x, left |-> left]
           /\ current' # Nowhere /\ current'.node = x /\ current'.left = left
           /\ Pending' = Waiting(queue') \union {x}
    <3>1. CASE left = {}
      BY <1>1, <3>1 DEF Pending
    <3>2. CASE left # {}
      <4>1. current' = [node |-> x, left |-> left]
        BY <1>1, <1>4, <3>2
      <4>2. current' # Nowhere /\ current'.node = x
        <5> HIDE DEF x
        <5> QED BY <1>4, <4>1, NodesAreRecords
      <4>3. Pending' = Waiting(queue') \union {x}
        BY <4>2 DEF Pending
      <4>4. current'.left = left
        BY <4>1
      <4> QED BY <3>2, <4>1, <4>2, <4>3, <4>4
    <3> QED BY <3>1, <3>2
  <2>10. Pending = Waiting(queue) \union {x}
    BY <1>3 DEF Pending
  <2>11. QueueInv'
    <3>1. left \subseteq DOMAIN m.transitions
      BY <1>4 DEF left
    <3>2. \A y \in Pending' : Found(m, y)
      BY <1>3, <1>4, <2>5, <2>9, <2>10
    <3>3. job' \in Models \X Bounds
      BY <1>1 DEF SearchInv, QueueInv
    <3> HIDE DEF x, m
    <3>4. model' = m
      BY <1>2 DEF m
    <3> QED BY <1>4, <2>5, <2>9, <3>1, <3>2, <3>3, <3>4 DEF QueueInv
  <2>12. OrderInv'
    <3> HIDE DEF x, m
    <3> QED BY <1>1, <1>3, <2>5, <2>9 DEF OrderInv
  <2>13. CoverInv'
    <3>1. ASSUME NEW c \in visited'
          PROVE  Covers(m, visited', c, DOMAIN m.transitions) \/ \E y \in Pending' : y.at = c
      <4>1. CASE c \notin visited
        BY <2>6, <2>9, <4>1
      <4>2. CASE c \in visited /\ c # x.at
        <5>1. Covers(m, visited, c, DOMAIN m.transitions) \/ \E y \in Waiting(queue) : y.at = c
          BY <1>6, <2>10, <4>2
        <5> QED BY <2>5, <2>7, <2>9, <5>1
      <4>3. CASE c = x.at
        <5>1. CASE left = {}
          <6>1. DOMAIN m.transitions \ left = DOMAIN m.transitions
            BY <5>1
          <6> QED BY <2>8, <4>3, <6>1
        <5>2. CASE left # {}
          BY <2>9, <4>3, <5>2
        <5> QED BY <5>1, <5>2
      <4> QED BY <4>1, <4>2, <4>3
    <3>2. <<m.start, m.value>> \in visited'
      BY <1>6, <2>6
    <3> HIDE DEF x, m
    <3>3. model' = m
      BY <1>2 DEF m
    <3> QED BY <2>6, <2>8, <2>9, <3>1, <3>2, <3>3 DEF CoverInv
  <2>14. Searching'
    BY <1>1, <2>2 DEF Searching
  <2>15. boundHit' \in BOOLEAN
    BY <1>1 DEF SearchInv
  <2> QED BY <2>11, <2>12, <2>13, <2>14, <2>15 DEF SearchInv
<1> QED BY <1>8, <1>9

\* When the search ends with nothing pending and no bound met, every layer was found.
LEMMA SearchEnds ==
    ASSUME Searching, SearchInv, Finish
    PROVE  (job # << >> /\ verdict # NoVerdict /\ ExplorationIsSound)'
<1> DEFINE m == model
<1>1. /\ job' = job /\ visited' = visited
      /\ verdict' = [status |-> IF boundHit' THEN "BOUND_REACHED" ELSE "EXHAUSTED_WITHIN_BOUND",
                     trace |-> << >>]
  BY DEF Finish
<1>2. model' = m
  BY <1>1 DEF model
<1>3. verdict'.status = IF boundHit' THEN "BOUND_REACHED" ELSE "EXHAUSTED_WITHIN_BOUND"
  BY <1>1
<1>4. verdict' # NoVerdict /\ CounterexampleIsShortest'
  BY <1>3 DEF NoVerdict, CounterexampleIsShortest
<1>5. ExhaustedMeansCovered'
  <2> SUFFICES ASSUME ~boundHit'
      PROVE  \A n \in 0..(Cardinality(visited) + 1) :
                ReachableIn(m, n) \subseteq visited \ m.forbidden
    BY <1>1, <1>2, <1>3 DEF ExhaustedMeansCovered
  <2>1. ~boundHit /\ current = Nowhere /\ queue = << >>
    BY DEF Finish, SearchInv
  <2>2. Pending = {}
    BY <2>1 DEF Pending, Waiting
  <2>3. /\ <<m.start, m.value>> \in visited /\ visited \cap m.forbidden = {}
        /\ \A c \in visited : Covers(m, visited, c, DOMAIN m.transitions) \/ \E x \in {} : x.at = c
        /\ IsFiniteSet(visited)
    BY <2>1, <2>2 DEF SearchInv, CoverInv
  <2> DEFINE N == Cardinality(visited) + 1
  <2>4. N \in Nat
    BY <2>3, FS_CardinalityType
  <2> HIDE DEF m, N
  <2>5. \A k \in 0..N : ReachableIn(m, k) \subseteq visited \ m.forbidden
    BY <2>3, <2>4, LayersCovered
  <2> QED BY <2>5 DEF N
<1> QED BY <1>1, <1>4, <1>5 DEF ExplorationIsSound, Searching

LEMMA ExplorerInvHolds == ExplorerSpec => []ExplorerInv
<1>1. ExplorerInit => ExplorerInv
  BY DEF ExplorerInit, ExplorerInv, Unstarted
<1>2. ExplorerInv /\ [ExplorerNext]_explorerVars => ExplorerInv'
  <2> SUFFICES ASSUME ExplorerInv, [ExplorerNext]_explorerVars PROVE ExplorerInv'
    OBVIOUS
  <2>1. CASE UNCHANGED explorerVars
    <3>1. /\ job' = job /\ queue' = queue /\ visited' = visited /\ current' = current
          /\ boundHit' = boundHit /\ verdict' = verdict /\ model' = model /\ bounds' = bounds
          /\ Pending' = Pending
      BY <2>1 DEF explorerVars, model, bounds, Pending
    <3>2. Unstarted => Unstarted'
      BY <3>1 DEF Unstarted
    <3>3. Searching /\ SearchInv => Searching' /\ SearchInv'
      BY <3>1 DEF Searching, SearchInv, QueueInv, OrderInv, CoverInv
    <3>4. ExplorationIsSound => ExplorationIsSound'
      BY <3>1 DEF ExplorationIsSound, ExhaustedMeansCovered, CounterexampleIsShortest
    <3> QED BY <3>1, <3>2, <3>3, <3>4 DEF ExplorerInv
  <2>2. CASE Unstarted
    <3>1. ASSUME NEW m \in Models, NEW b \in Bounds, Explore(m, b) PROVE ExplorerInv'
      BY <2>2, <3>1, SearchBegins DEF ExplorerInv
    <3>2. ~Searching
      BY <2>2 DEF Unstarted, Searching
    <3> QED BY <2>1, <3>1, <3>2 DEF ExplorerNext, TooDeep, Expand, Try, Skip, Finish
  <2>3. CASE Searching /\ SearchInv
    <3>1. ASSUME NEW m \in Models, NEW b \in Bounds PROVE ~Explore(m, b)
      BY <2>3 DEF Explore, Searching
    <3> QED BY <2>1, <2>3, <3>1, DeepOnesDropped, HeadExpanded, NothingLeft, TransitionTried,
               SearchEnds DEF ExplorerNext, ExplorerInv
  <2>4. CASE job # << >> /\ verdict # NoVerdict /\ ExplorationIsSound
    <3>1. ASSUME NEW m \in Models, NEW b \in Bounds PROVE ~Explore(m, b)
      BY <2>4 DEF Explore
    <3>2. ~Searching
      BY <2>4 DEF Searching
    <3> QED BY <2>1, <3>1, <3>2 DEF ExplorerNext, TooDeep, Expand, Try, Skip, Finish
  <2> QED BY <2>2, <2>3, <2>4 DEF ExplorerInv
<1> QED BY <1>1, <1>2, PTL DEF ExplorerSpec

\* EXHAUSTED_WITHIN_BOUND speaks of the whole model and a counterexample is a shortest
\* one, for every model, bound and order of transitions (deepen/exploration.py).
THEOREM ExplorationStaysSound == ExplorerSpec => []ExplorationIsSound
<1>1. ExplorerInv => ExplorationIsSound
  <2>1. verdict.status = "none" => ExplorationIsSound
    BY DEF ExplorationIsSound, ExhaustedMeansCovered, CounterexampleIsShortest
  <2>2. NoVerdict.status = "none"
    BY DEF NoVerdict
  <2> QED BY <2>1, <2>2 DEF ExplorerInv, Unstarted, Searching
<1> QED BY <1>1, ExplorerInvHolds, PTL

-----------------------------------------------------------------------------
\* The evidence graph: the search for circles.

\* The calls of the search, and what one returns if inner ones return what f says.
Searches == [seen : SUBSET Nodes, cyclic : BOOLEAN]
Calls == [targets : SUBSET Nodes, stack : SUBSET Nodes, search : Searches]

Target(call) == CHOOSE u \in call.targets : TRUE
Others(call) == [call EXCEPT !.targets = @ \ {Target(call)}]
Deeper(edges, call, search) ==
    [targets |-> {u \in Nodes : <<Target(call), u>> \in edges},
     stack |-> call.stack \union {Target(call)},
     search |-> [search EXCEPT !.seen = @ \union {Target(call)}]]
Returns(edges, f, call) ==
    IF call.targets = {} THEN call.search
    ELSE IF Target(call) \in call.stack THEN [f[Others(call)] EXCEPT !.cyclic = TRUE]
    ELSE IF Target(call) \in f[Others(call)].seen THEN f[Others(call)]
    ELSE f[Deeper(edges, call, f[Others(call)])]

DepthFirst(edges, f) == f = [call \in Calls |-> Returns(edges, f, call)]

\* A call has fewer targets left than its caller, or more under it.
Rank(call) ==
    Cardinality(Nodes \ call.stack) * (Cardinality(Nodes) + 1) + Cardinality(call.targets)

LEMMA RanksFall ==
    ASSUME IsFiniteSet(Nodes), NEW edges, NEW c \in Calls
    PROVE  /\ Rank(c) \in Nat
           /\ Rank(c) <= Cardinality(Nodes) * (Cardinality(Nodes) + 1) + Cardinality(Nodes)
           /\ c.targets # {} =>
                 /\ Target(c) \in c.targets /\ Others(c) \in Calls /\ Rank(Others(c)) < Rank(c)
                 /\ \A s \in Searches : Target(c) \notin c.stack =>
                       Deeper(edges, c, s) \in Calls /\ Rank(Deeper(edges, c, s)) < Rank(c)
<1> DEFINE n == Cardinality(Nodes)
           k == Cardinality(Nodes \ c.stack)
<1>1. c.targets \in SUBSET Nodes /\ c.stack \in SUBSET Nodes /\ c.search \in Searches
  BY DEF Calls
<1>2. \A S \in SUBSET Nodes : IsFiniteSet(S) /\ Cardinality(S) \in Nat /\ Cardinality(S) <= n
  BY FS_Subset, FS_CardinalityType
<1>3. n \in Nat /\ k \in Nat /\ k <= n /\ Cardinality(c.targets) \in 0..n
  <2>1. Nodes \ c.stack \in SUBSET Nodes
    OBVIOUS
  <2> QED BY <1>1, <1>2, <2>1, FS_CardinalityType
<1>4. Rank(c) = k * (n + 1) + Cardinality(c.targets)
  BY DEF Rank
<1>5. Rank(c) \in Nat /\ Rank(c) <= n * (n + 1) + n
  <2> HIDE DEF n, k
  <2>1. \A a, b, m \in Nat : a <= b => a * m \in Nat /\ a * m <= b * m
    OBVIOUS
  <2>2. k * (n + 1) \in Nat /\ k * (n + 1) <= n * (n + 1) /\ n * (n + 1) \in Nat
    BY <1>3, <2>1
  <2> QED BY <1>3, <1>4, <2>2
<1>6. ASSUME c.targets # {}
      PROVE  /\ Target(c) \in c.targets /\ Others(c) \in Calls /\ Rank(Others(c)) < Rank(c)
             /\ \A s \in Searches : Target(c) \notin c.stack =>
                   Deeper(edges, c, s) \in Calls /\ Rank(Deeper(edges, c, s)) < Rank(c)
  <2> DEFINE t == Target(c)
  <2>1. t \in c.targets
    BY <1>6 DEF Target
  <2>2. /\ Others(c) \in Calls /\ Others(c).stack = c.stack
        /\ Others(c).targets = c.targets \ {t}
    BY <1>1 DEF Others, Calls
  <2>3. Cardinality(c.targets \ {t}) = Cardinality(c.targets) - 1
    BY <1>1, <1>2, <2>1, FS_RemoveElement
  <2>4. Rank(Others(c)) < Rank(c)
    <3>1. Rank(Others(c)) = k * (n + 1) + (Cardinality(c.targets) - 1)
      BY <2>2, <2>3 DEF Rank
    <3> HIDE DEF n, k
    <3> QED BY <1>3, <1>4, <3>1
  <2>5. ASSUME NEW s \in Searches, t \notin c.stack
        PROVE  Deeper(edges, c, s) \in Calls /\ Rank(Deeper(edges, c, s)) < Rank(c)
    <3> DEFINE d == Deeper(edges, c, s)
    <3>1. /\ d \in Calls /\ d.targets \in SUBSET Nodes
          /\ d.stack = c.stack \union {t}
      <4>1. [s EXCEPT !.seen = @ \union {t}] \in Searches
        BY <1>1, <2>1 DEF Searches
      <4> HIDE DEF t
      <4> QED BY <1>1, <2>1, <4>1 DEF Deeper, Calls, t
    <3>2. Cardinality(Nodes \ d.stack) = k - 1
      <4>1. Nodes \ d.stack = (Nodes \ c.stack) \ {t} /\ t \in Nodes \ c.stack
        BY <1>1, <2>1, <2>5, <3>1
      <4>2. IsFiniteSet(Nodes \ c.stack)
        BY <1>2
      <4> HIDE DEF d, t
      <4>3. Cardinality((Nodes \ c.stack) \ {t}) = Cardinality(Nodes \ c.stack) - 1
        BY <4>1, <4>2, FS_RemoveElement
      <4> QED BY <4>1, <4>3
    <3>3. Cardinality(d.targets) \in 0..n
      BY <1>2, <1>3, <3>1
    <3>4. Rank(d) = (k - 1) * (n + 1) + Cardinality(d.targets)
      BY <3>2 DEF Rank
    <3> HIDE DEF n, k, d
    <3>5. (k - 1) * (n + 1) = k * (n + 1) - (n + 1)
      BY <1>3
    <3>6. k * (n + 1) \in Nat
      BY <1>3
    <3> QED BY <1>3, <1>4, <3>1, <3>3, <3>4, <3>5, <3>6 DEF d
  <2> QED BY <2>1, <2>2, <2>4, <2>5
<1> QED BY <1>5, <1>6

LEMMA ReturnsSearch ==
    ASSUME IsFiniteSet(Nodes), NEW edges, NEW f \in [Calls -> Searches], NEW c \in Calls
    PROVE  Returns(edges, f, c) \in Searches
<1>1. CASE c.targets = {}
  BY <1>1 DEF Returns, Calls
<1>2. CASE c.targets # {}
  <2>1. f[Others(c)] \in Searches
    BY <1>2, RanksFall
  <2>2. CASE Target(c) \in c.stack
    BY <1>2, <2>1, <2>2 DEF Returns, Searches
  <2>3. CASE Target(c) \notin c.stack
    <3>1. Deeper(edges, c, f[Others(c)]) \in Calls
      BY <1>2, <2>1, <2>3, RanksFall
    <3> QED BY <1>2, <2>1, <2>3, <3>1 DEF Returns
  <2> QED BY <2>2, <2>3
<1> QED BY <1>1, <1>2

LEMMA ReturnsAlike ==
    ASSUME IsFiniteSet(Nodes), NEW edges, NEW f \in [Calls -> Searches],
           NEW g, NEW c \in Calls,
           \A x \in Calls : Rank(x) < Rank(c) => g[x] = f[x]
    PROVE  Returns(edges, g, c) = Returns(edges, f, c)
<1>1. CASE c.targets = {}
  BY <1>1 DEF Returns
<1>2. CASE c.targets # {}
  <2>1. f[Others(c)] \in Searches /\ g[Others(c)] = f[Others(c)]
    BY <1>2, RanksFall
  <2>2. CASE Target(c) \in c.stack
    BY <1>2, <2>1, <2>2 DEF Returns
  <2>3. CASE Target(c) \notin c.stack
    <3>1. g[Deeper(edges, c, f[Others(c)])] = f[Deeper(edges, c, f[Others(c)])]
      BY <1>2, <2>1, <2>3, RanksFall
    <3> QED BY <1>2, <2>1, <2>3, <3>1 DEF Returns
  <2> QED BY <2>2, <2>3
<1> QED BY <1>1, <1>2

LEMMA SearchExists ==
    ASSUME IsFiniteSet(Nodes), NEW edges
    PROVE  \E f : DepthFirst(edges, f)
<1> DEFINE most == Cardinality(Nodes) * (Cardinality(Nodes) + 1) + Cardinality(Nodes)
           Upto(k, f) == /\ f \in [Calls -> Searches]
                         /\ \A c \in Calls : Rank(c) < k => f[c] = Returns(edges, f, c)
           P == {k \in 0..(most + 1) : \E f : Upto(k, f)}
<1>1. most \in Nat
  <2>1. Cardinality(Nodes) \in Nat
    BY FS_CardinalityType
  <2> QED BY <2>1
<1> HIDE DEF most
<1>2. 0 \in P
  <2> DEFINE f == [c \in Calls |-> c.search]
  <2>1. f \in [Calls -> Searches]
    BY DEF Calls
  <2>2. ASSUME NEW c \in Calls PROVE ~(Rank(c) < 0)
    <3>1. Rank(c) \in Nat
      BY RanksFall
    <3> QED BY <3>1
  <2>3. 0 \in 0..(most + 1)
    BY <1>1
  <2> HIDE DEF f
  <2> QED BY <2>1, <2>2, <2>3
<1>3. ASSUME NEW k \in 0..most, k \in P PROVE k + 1 \in P
  <2>1. PICK f : Upto(k, f)
    BY <1>3
  <2> DEFINE g == [c \in Calls |-> IF Rank(c) = k THEN Returns(edges, f, c) ELSE f[c]]
  <2>2. g \in [Calls -> Searches]
    BY <2>1, ReturnsSearch
  <2>3. \A c \in Calls : g[c] = IF Rank(c) = k THEN Returns(edges, f, c) ELSE f[c]
    OBVIOUS
  <2> HIDE DEF g
  <2>4. ASSUME NEW c \in Calls, Rank(c) < k + 1 PROVE g[c] = Returns(edges, g, c)
    <3>1. Rank(c) \in Nat /\ \A x \in Calls : Rank(x) \in Nat
      BY RanksFall
    <3>2. \A x \in Calls : Rank(x) < Rank(c) => g[x] = f[x]
      BY <2>3, <2>4, <3>1, <1>1
    <3>3. Returns(edges, g, c) = Returns(edges, f, c)
      BY <2>1, <3>2, ReturnsAlike
    <3>4. CASE Rank(c) = k
      BY <2>3, <3>3, <3>4
    <3>5. CASE Rank(c) # k
      <4>1. Rank(c) < k
        BY <2>4, <3>1, <3>5, <1>1
      <4> QED BY <2>1, <2>3, <3>3, <3>5, <4>1
    <3> QED BY <3>4, <3>5
  <2>5. k + 1 \in 0..(most + 1)
    BY <1>1
  <2>6. Upto(k + 1, g)
    BY <2>2, <2>4
  <2> HIDE DEF Upto
  <2> QED BY <2>5, <2>6
<1>4. most + 1 \in P
  <2> HIDE DEF P
  <2> DEFINE m == most + 1
  <2>1. m \in Nat /\ \A k \in 0..(m - 1) : k \in 0..most
    BY <1>1
  <2>2. \A k \in 0..(m - 1) : k \in P => k + 1 \in P
    BY <1>3, <2>1
  <2> HIDE DEF m
  <2>3. m \in P
    BY <1>2, <2>1, <2>2, Counting
  <2> QED BY <2>3 DEF m
<1>5. PICK f : Upto(most + 1, f)
  BY <1>4
<1>6. ASSUME NEW c \in Calls PROVE Rank(c) < most + 1
  <2>1. Rank(c) \in Nat /\ Rank(c) <= most
    BY RanksFall DEF most
  <2> QED BY <1>1, <2>1
<1>7. f = [call \in Calls |-> f[call]]
  BY <1>5
<1> QED BY <1>5, <1>6, <1>7 DEF DepthFirst

\* What a node is depended on by; whether some node depends on itself, near or far.
Above(edges, n) == {s \in Nodes : <<s, n>> \in edges}
Circular(edges) == \E n \in Nodes : n \in Downstream(edges, Above(edges, n))

\* A set of nodes that nothing leads out of, and in which every way ends.
Closed(edges, S) == \A s \in S : \A u \in Nodes : <<s, u>> \in edges => u \in S
Ends(edges, S) == \A U \in SUBSET S : U # {} => \E m \in U : \A u \in U : <<m, u>> \notin edges

\* What the search may rely on: what it has left is done with, unless it has found a
\* circle, and that it has for a reason.
Sound(edges, stack, search) ==
    /\ search.cyclic => Circular(edges)
    /\ ~search.cyclic => /\ Closed(edges, search.seen \ stack)
                         /\ Ends(edges, search.seen \ stack)

\* What a call is made with, and what it returns.
Given(edges, c) ==
    /\ c.stack \subseteq c.search.seen /\ Sound(edges, c.stack, c.search)
    /\ \A k \in c.stack, s \in c.targets : k \in Downstream(edges, Above(edges, s))
Returned(edges, c, r) ==
    /\ r \in Searches /\ Sound(edges, c.stack, r)
    /\ c.search.seen \subseteq r.seen /\ c.targets \subseteq r.seen
    /\ c.search.cyclic => r.cyclic
    /\ ~r.cyclic => c.targets \intersect c.stack = {}

\* With the last of its dependencies done with, a node is done with.
LEMMA NodeDone ==
    ASSUME NEW edges, NEW S, S \subseteq Nodes, Closed(edges, S), Ends(edges, S),
           NEW t \in Nodes, t \notin S, \A u \in Nodes : <<t, u>> \in edges => u \in S
    PROVE  Closed(edges, S \union {t}) /\ Ends(edges, S \union {t})
<1>1. Closed(edges, S \union {t})
  BY DEF Closed
<1>2. ASSUME NEW U \in SUBSET (S \union {t}), U # {}
      PROVE  \E m \in U : \A u \in U : <<m, u>> \notin edges
  <2>1. CASE U \intersect S = {}
    <3>1. U = {t}
      BY <1>2, <2>1
    <3> QED BY <3>1
  <2>2. CASE U \intersect S # {}
    <3>1. PICK m \in U \intersect S : \A u \in U \intersect S : <<m, u>> \notin edges
      BY <2>2 DEF Ends
    <3>2. <<m, t>> \notin edges
      BY <3>1 DEF Closed
    <3> QED BY <3>1, <3>2
  <2> QED BY <2>1, <2>2
<1> QED BY <1>1, <1>2 DEF Ends

\* Whoever depends on a node depends on what that one depends on.
LEMMA DownstreamFurther ==
    ASSUME NEW edges, NEW t \in Nodes, NEW u, <<t, u>> \in edges
    PROVE  /\ t \in Downstream(edges, Above(edges, u))
           /\ \A k \in Downstream(edges, Above(edges, t)) :
                  k \in Downstream(edges, Above(edges, u))
<1>1. t \in Above(edges, u)
  BY DEF Above
<1>2. t \in Downstream(edges, Above(edges, u))
  BY <1>1 DEF Downstream
<1>3. ASSUME NEW k \in Downstream(edges, Above(edges, t)),
             NEW set \in SUBSET Nodes, Above(edges, u) \subseteq set,
             \A e \in edges : e[2] \in set => e[1] \in set
      PROVE  k \in set
  <2>1. \A s \in Above(edges, t) : s \in set
    <3> TAKE s \in Above(edges, t)
    <3>1. <<s, t>> \in edges /\ t \in set
      BY <1>1, <1>3 DEF Above
    <3>2. <<s, t>>[1] = s /\ <<s, t>>[2] = t
      OBVIOUS
    <3> QED BY <1>3, <3>1, <3>2
  <2> QED BY <1>3, <2>1 DEF Downstream
<1> QED BY <1>2, <1>3 DEF Downstream

\* If every way ends, no node depends on itself.
LEMMA EndsNotCircular ==
    ASSUME NEW edges, edges \subseteq Nodes \X Nodes, Ends(edges, Nodes)
    PROVE  ~Circular(edges)
<1> SUFFICES ASSUME NEW n \in Nodes, n \in Downstream(edges, Above(edges, n)) PROVE FALSE
  BY DEF Circular
<1> DEFINE D == Downstream(edges, Above(edges, n))
           X == {m \in D : \E u \in D : <<m, u>> \in edges}
<1>1. D \subseteq Nodes /\ X \subseteq Nodes
  BY DEF Downstream
<1>2. Above(edges, n) \subseteq D /\ \A e \in edges : e[2] \in D => e[1] \in D
  <2>1. \A e \in edges : e[1] \in Nodes
    OBVIOUS
  <2> QED BY <2>1 DEF Downstream, Above
<1>3. Above(edges, n) \subseteq X
  BY <1>2 DEF Above
<1>4. ASSUME NEW e \in edges, e[2] \in X PROVE e[1] \in X
  <2>1. e = <<e[1], e[2]>>
    OBVIOUS
  <2> QED BY <1>2, <1>4, <2>1
<1>5. D \subseteq X
  <2> HIDE DEF X
  <2> QED BY <1>1, <1>3, <1>4 DEF Downstream
<1>6. n \in D /\ D \in SUBSET Nodes
  BY <1>1
<1> HIDE DEF D
<1>7. PICK m \in D : \A u \in D : <<m, u>> \notin edges
  BY <1>6 DEF Ends
<1> QED BY <1>5, <1>7

\* One step of the search, if the calls it makes return what they should.
LEMMA StepReturned ==
    ASSUME IsFiniteSet(Nodes), NEW edges, edges \subseteq Nodes \X Nodes,
           NEW f, NEW c \in Calls, Given(edges, c),
           \A x \in Calls : Rank(x) < Rank(c) /\ Given(edges, x) => Returned(edges, x, f[x])
    PROVE  Returned(edges, c, Returns(edges, f, c))
<1>1. CASE c.targets = {}
  BY <1>1 DEF Returns, Returned, Given, Calls
<1>2. CASE c.targets # {}
  <2> DEFINE t == Target(c)
             r == f[Others(c)]
             d == Deeper(edges, c, r)
  <2>1. /\ t \in c.targets /\ t \in Nodes
        /\ Others(c) \in Calls /\ Rank(Others(c)) < Rank(c)
        /\ Others(c).targets = c.targets \ {t} /\ Others(c).stack = c.stack
        /\ Others(c).search = c.search
    BY <1>2, RanksFall DEF Calls, Others
  <2>2. Returned(edges, Others(c), r)
    BY <2>1 DEF Given
  <2>3. /\ r \in Searches /\ Sound(edges, c.stack, r)
        /\ c.search.seen \subseteq r.seen /\ c.targets \ {t} \subseteq r.seen
        /\ c.search.cyclic => r.cyclic
        /\ ~r.cyclic => (c.targets \ {t}) \intersect c.stack = {}
        /\ c.stack \subseteq r.seen
    BY <2>1, <2>2 DEF Returned, Given
  <2> HIDE DEF t, r
  <2>4. CASE t \in c.stack
    <3> DEFINE q == [r EXCEPT !.cyclic = TRUE]
    <3>1. Returns(edges, f, c) = q
      BY <1>2, <2>4 DEF Returns, t, r
    <3>2. q \in Searches /\ q.seen = r.seen /\ q.cyclic = TRUE
      BY <2>3 DEF Searches
    <3>3. Circular(edges)
      BY <2>1, <2>4 DEF Given, Circular
    <3> HIDE DEF q
    <3>4. Sound(edges, c.stack, q)
      BY <3>2, <3>3 DEF Sound
    <3>5. t \in q.seen
      BY <2>3, <2>4, <3>2
    <3> QED BY <2>3, <3>1, <3>2, <3>4, <3>5 DEF Returned
  <2>5. CASE t \notin c.stack /\ t \in r.seen
    <3>1. Returns(edges, f, c) = r
      BY <1>2, <2>5 DEF Returns, t, r
    <3> QED BY <2>3, <2>5, <3>1 DEF Returned
  <2>6. CASE t \notin c.stack /\ t \notin r.seen
    <3>1. Returns(edges, f, c) = f[d]
      BY <1>2, <2>6 DEF Returns, t, r
    <3>2. d \in Calls /\ Rank(d) < Rank(c)
      BY <1>2, <2>3, <2>6, RanksFall DEF t
    <3>3. /\ d.targets = {u \in Nodes : <<t, u>> \in edges}
          /\ d.stack = c.stack \union {t}
          /\ d.search.seen = r.seen \union {t} /\ d.search.cyclic = r.cyclic
      BY <2>3 DEF Deeper, Searches, t
    <3> HIDE DEF d
    <3>4. Given(edges, d)
      <4>1. d.search.seen \ d.stack = r.seen \ c.stack
        BY <2>6, <3>3
      <4>2. Sound(edges, d.stack, d.search)
        BY <2>3, <3>3, <4>1 DEF Sound
      <4>3. ASSUME NEW k \in d.stack, NEW u \in d.targets
            PROVE  k \in Downstream(edges, Above(edges, u))
        <5>1. <<t, u>> \in edges
          BY <3>3
        <5>2. k = t \/ k \in Downstream(edges, Above(edges, t))
          BY <2>1, <3>3 DEF Given
        <5> QED BY <2>1, <5>1, <5>2, DownstreamFurther
      <4> QED BY <2>3, <3>3, <4>2, <4>3 DEF Given
    <3> DEFINE q == f[d]
    <3>5. Returned(edges, d, q)
      BY <3>2, <3>4
    <3> HIDE DEF q
    <3>6. ASSUME ~q.cyclic
          PROVE  Closed(edges, q.seen \ c.stack) /\ Ends(edges, q.seen \ c.stack)
      <4> DEFINE S == q.seen \ d.stack
      <4>1. Closed(edges, S) /\ Ends(edges, S) /\ S \subseteq Nodes /\ t \notin S
        BY <3>3, <3>5, <3>6 DEF Returned, Sound, Searches
      <4>2. \A u \in Nodes : <<t, u>> \in edges => u \in S
        BY <3>3, <3>5, <3>6 DEF Returned
      <4>3. q.seen \ c.stack = S \union {t}
        BY <2>6, <3>3, <3>5 DEF Returned
      <4> HIDE DEF S
      <4> QED BY <2>1, <4>1, <4>2, <4>3, NodeDone
    <3>7. Sound(edges, c.stack, q)
      BY <3>5, <3>6 DEF Returned, Sound
    <3>8. /\ q \in Searches /\ r.seen \union {t} \subseteq q.seen
          /\ r.cyclic => q.cyclic
      BY <3>3, <3>5 DEF Returned
    <3> QED BY <2>3, <2>6, <3>1, <3>7, <3>8 DEF Returned, q
  <2> QED BY <2>4, <2>5, <2>6
<1> QED BY <1>1, <1>2

\* The search over all nodes finds a circle exactly if there is one.
LEMMA SearchFinds ==
    ASSUME IsFiniteSet(Nodes), NEW edges, edges \subseteq Nodes \X Nodes
    PROVE  DetectsCycle(edges) \in BOOLEAN /\ (DetectsCycle(edges) <=> Circular(edges))
<1> DEFINE f == CHOOSE g : DepthFirst(edges, g)
           whole == [targets |-> Nodes, stack |-> {},
                     search |-> [seen |-> {}, cyclic |-> FALSE]]
           Right(k) == \A c \in Calls :
                          Rank(c) < k /\ Given(edges, c) => Returned(edges, c, f[c])
           P == {k \in Nat : Right(k)}
<1>1. DepthFirst(edges, f)
  BY SearchExists, Zenon
<1>2. DetectsCycle(edges) = f[whole].cyclic
  BY Zenon DEF DetectsCycle, DepthFirst, Returns, Others, Deeper, Target, Calls, Searches
<1> HIDE DEF f
<1>3. \A c \in Calls : f[c] = Returns(edges, f, c)
  BY <1>1 DEF DepthFirst
<1>4. whole \in Calls /\ Given(edges, whole)
  <2>1. whole \in Calls
    BY DEF Calls, Searches
  <2>2. Given(edges, whole)
    BY DEF Given, Sound, Closed, Ends
  <2> QED BY <2>1, <2>2
<1> HIDE DEF whole
<1>5. 0 \in P
  <2>1. ASSUME NEW c \in Calls PROVE ~(Rank(c) < 0)
    <3>1. Rank(c) \in Nat
      BY RanksFall
    <3> QED BY <3>1
  <2> QED BY <2>1
<1>6. ASSUME NEW k \in Nat, k \in P PROVE k + 1 \in P
  <2>1. ASSUME NEW c \in Calls, Rank(c) < k + 1, Given(edges, c)
        PROVE  Returned(edges, c, f[c])
    <3>1. \A x \in Calls : Rank(x) \in Nat
      BY RanksFall
    <3>2. \A x \in Calls : Rank(x) < Rank(c) => Rank(x) < k
      BY <2>1, <3>1
    <3>3. \A x \in Calls : Rank(x) < Rank(c) /\ Given(edges, x) => Returned(edges, x, f[x])
      BY <1>6, <3>2
    <3> QED BY <1>3, <2>1, <3>3, StepReturned
  <2> QED BY <2>1
<1>7. Returned(edges, whole, f[whole])
  <2> DEFINE n == Rank(whole) + 1
  <2>1. n \in Nat /\ Rank(whole) < n
    <3>1. Rank(whole) \in Nat
      BY <1>4, RanksFall
    <3> QED BY <3>1
  <2>2. n \in P
    <3> HIDE DEF n, P
    <3>1. \A k \in 0..(n - 1) : k \in P => k + 1 \in P
      BY <1>6, <2>1
    <3> QED BY <1>5, <2>1, <3>1, Counting
  <2> HIDE DEF n
  <2> QED BY <1>4, <2>1, <2>2
<1>8. ASSUME ~f[whole].cyclic PROVE Ends(edges, Nodes)
  <2>1. Ends(edges, f[whole].seen \ whole.stack) /\ whole.targets \subseteq f[whole].seen
    BY <1>7, <1>8 DEF Returned, Sound
  <2>2. f[whole].seen \subseteq Nodes
    BY <1>7 DEF Returned, Searches
  <2>3. whole.targets = Nodes /\ whole.stack = {}
    BY DEF whole
  <2>4. f[whole].seen \ whole.stack = Nodes
    BY <2>1, <2>2, <2>3
  <2> QED BY <2>1, <2>4
<1>9. f[whole].cyclic => Circular(edges)
  BY <1>7 DEF Returned, Sound
<1>10. f[whole].cyclic \in BOOLEAN
  BY <1>7 DEF Returned, Searches
<1> QED BY <1>2, <1>8, <1>9, <1>10, EndsNotCircular

-----------------------------------------------------------------------------
\* The evidence graph: standing.

\* What has been degraded: all that was announced or met by the propagation; and along
\* an edge that a propagation could see, the dependent too, unless its turn is to come.
EvidenceInv ==
    /\ depends \subseteq Nodes \X Nodes /\ late \subseteq depends
    /\ announced \subseteq Nodes /\ met \subseteq Nodes /\ pending \subseteq met
    /\ \A n \in announced \union met : standing[n] # "ACTIVE"
    /\ \A n \in Nodes : standing[n] # "ACTIVE" => n \in Downstream(depends, announced)
    /\ \A e \in depends \ late :
           standing[e[2]] # "ACTIVE" => standing[e[1]] # "ACTIVE" \/ e[2] \in pending

LEMMA EvidenceIsAdded ==
    ASSUME EvidenceInv, NEW n, AddNode(n) PROVE EvidenceInv'
<1>1. /\ n \notin Nodes /\ Nodes' = Nodes \union {n} /\ standing'[n] = "ACTIVE"
      /\ \A m \in Nodes : standing'[m] = standing[m]
      /\ UNCHANGED <<depends, announced, late, pending, met>>
  BY DEF AddNode, Nodes
<1>2. ASSUME NEW m \in Nodes', standing'[m] # "ACTIVE" PROVE m \in Downstream(depends, announced)'
  <2>1. m \in Nodes /\ m \in Downstream(depends, announced)
    BY <1>1, <1>2 DEF EvidenceInv
  <2> SUFFICES ASSUME NEW set \in SUBSET Nodes', announced \subseteq set,
                      \A e \in depends : e[2] \in set => e[1] \in set
               PROVE  m \in set
    BY <1>1, <1>2 DEF Downstream
  <2>2. \A e \in depends : e[2] \in set \intersect Nodes => e[1] \in set \intersect Nodes
    BY DEF EvidenceInv
  <2>3. announced \subseteq set \intersect Nodes
    BY DEF EvidenceInv
  <2> QED BY <2>1, <2>2, <2>3 DEF Downstream
<1>3. \A e \in (depends \ late)' : e[1] \in Nodes /\ e[2] \in Nodes
  BY <1>1 DEF EvidenceInv
<1> QED BY <1>1, <1>2, <1>3 DEF EvidenceInv

LEMMA EdgesKeepStanding ==
    ASSUME EvidenceInv, NEW s, NEW t, AddEdge(s, t) PROVE EvidenceInv'
<1>1. /\ s \in Nodes /\ t \in Nodes /\ depends' = depends \union {<<s, t>>}
      /\ late' = IF <<s, t>> \notin depends /\ standing[t] # "ACTIVE"
                 THEN late \union {<<s, t>>} ELSE late
      /\ UNCHANGED <<standing, announced, pending, met>> /\ Nodes' = Nodes
  BY DEF AddEdge, Nodes
<1>2. ASSUME NEW m \in Nodes', standing'[m] # "ACTIVE" PROVE m \in Downstream(depends, announced)'
  BY <1>1, <1>2 DEF EvidenceInv, Downstream
<1>3. ASSUME NEW e \in (depends \ late)', standing'[e[2]] # "ACTIVE"
      PROVE  (standing[e[1]] # "ACTIVE" \/ e[2] \in pending)'
  <2>1. CASE e \in depends
    BY <1>1, <1>3, <2>1 DEF EvidenceInv
  <2>2. CASE e \notin depends
    BY <1>1, <1>3, <2>2
  <2> QED BY <2>1, <2>2
<1>4. depends' \subseteq Nodes' \X Nodes' /\ late' \subseteq depends'
  BY <1>1 DEF EvidenceInv
<1>5. \A n \in (announced \union met)' : standing'[n] # "ACTIVE"
  BY <1>1 DEF EvidenceInv
<1>6. announced' \subseteq Nodes' /\ met' \subseteq Nodes' /\ pending' \subseteq met'
  BY <1>1 DEF EvidenceInv
<1> QED BY <1>2, <1>3, <1>4, <1>5, <1>6 DEF EvidenceInv

LEMMA AnnouncementsDegrade ==
    ASSUME EvidenceInv, NEW roots, Invalidate(roots) PROVE EvidenceInv'
<1>1. /\ AtRest /\ roots \subseteq Nodes /\ Nodes' = Nodes
      /\ announced' = announced \union roots /\ pending' = roots /\ met' = roots
      /\ \A n \in Nodes : standing'[n] = IF n \in roots THEN "INVALIDATED" ELSE standing[n]
      /\ UNCHANGED <<depends, late>>
  BY DEF Invalidate, Nodes
<1>2. ASSUME NEW m \in Nodes', standing'[m] # "ACTIVE" PROVE m \in Downstream(depends, announced)'
  <2>1. CASE m \in roots
    BY <1>1, <2>1 DEF Downstream
  <2>2. CASE m \notin roots
    BY <1>1, <1>2, <2>2 DEF EvidenceInv, Downstream
  <2> QED BY <2>1, <2>2
<1>3. ASSUME NEW e \in (depends \ late)', standing'[e[2]] # "ACTIVE"
      PROVE  (standing[e[1]] # "ACTIVE" \/ e[2] \in pending)'
  <2>1. e[1] \in Nodes /\ e[2] \in Nodes /\ e \in depends \ late
    BY <1>1, <1>3 DEF EvidenceInv
  <2> QED BY <1>1, <1>3, <2>1 DEF EvidenceInv, AtRest
<1> QED BY <1>1, <1>2, <1>3 DEF EvidenceInv

LEMMA PropagationDegrades ==
    ASSUME EvidenceInv, NEW n, Spread(n) PROVE EvidenceInv'
<1> DEFINE reached == Dependents(n) \ met
<1>1. /\ n \in pending /\ n \in Nodes /\ Nodes' = Nodes /\ reached \subseteq Nodes
      /\ pending' = (pending \ {n}) \union reached
      /\ met' = IF pending' = {} THEN {} ELSE met \union reached
      /\ \A m \in Nodes : standing'[m] = IF m \in reached THEN DegradedTo(m) ELSE standing[m]
      /\ UNCHANGED <<depends, late, announced>>
  BY DEF Spread, Nodes, Dependents, EvidenceInv
<1>2. \A m \in Nodes : DegradedTo(m) # "ACTIVE"
  BY DEF DegradedTo
<1>3. standing[n] # "ACTIVE" /\ n \in Downstream(depends, announced)
  BY <1>1 DEF EvidenceInv
<1>4. ASSUME NEW m \in Nodes', standing'[m] # "ACTIVE" PROVE m \in Downstream(depends, announced)'
  <2>1. CASE m \in reached
    <3>1. <<m, n>> \in depends
      BY <2>1 DEF Dependents
    <3> QED BY <1>1, <1>3, <1>4, <3>1 DEF Downstream
  <2>2. CASE m \notin reached
    BY <1>1, <1>4, <2>2 DEF EvidenceInv, Downstream
  <2> QED BY <2>1, <2>2
<1>5. ASSUME NEW e \in (depends \ late)', standing'[e[2]] # "ACTIVE"
      PROVE  (standing[e[1]] # "ACTIVE" \/ e[2] \in pending)'
  <2>1. e[1] \in Nodes /\ e[2] \in Nodes /\ e \in depends \ late /\ e = <<e[1], e[2]>>
    BY <1>1, <1>5 DEF EvidenceInv
  <2>2. CASE e[2] \in reached
    BY <1>1, <2>1, <2>2
  <2>3. CASE e[2] = n
    <3>1. e[1] \in Dependents(n)
      BY <2>1, <2>3 DEF Dependents
    <3> QED BY <1>1, <1>2, <2>1, <3>1 DEF EvidenceInv
  <2>4. CASE e[2] \notin reached /\ e[2] # n
    BY <1>1, <1>2, <1>5, <2>1, <2>4 DEF EvidenceInv
  <2> QED BY <2>2, <2>3, <2>4
<1>6. \A m \in announced' \union met' : standing'[m] # "ACTIVE"
  BY <1>1, <1>2 DEF EvidenceInv
<1>7. pending' \subseteq met' /\ met' \subseteq Nodes'
  BY <1>1 DEF EvidenceInv
<1> QED BY <1>1, <1>4, <1>5, <1>6, <1>7 DEF EvidenceInv

LEMMA EvidenceInvHolds == EvidenceSpec => []EvidenceInv
<1>1. EvidenceInit => EvidenceInv
  BY DEF EvidenceInit, EvidenceInv, Nodes
<1>2. EvidenceInv /\ [EvidenceNext]_evidenceVars => EvidenceInv'
  <2> SUFFICES ASSUME EvidenceInv, [EvidenceNext]_evidenceVars PROVE EvidenceInv'
    OBVIOUS
  <2>1. CASE EvidenceNext
    BY <2>1, EvidenceIsAdded, EdgesKeepStanding, AnnouncementsDegrade, PropagationDegrades
       DEF EvidenceNext
  <2>2. CASE UNCHANGED evidenceVars
    BY <2>2 DEF evidenceVars, EvidenceInv, Nodes, Downstream
  <2> QED BY <2>1, <2>2
<1> QED BY <1>1, <1>2, PTL DEF EvidenceSpec

\* At the end of a propagation the degraded nodes are closed under dependence, so nothing
\* active is downstream of them.
LEMMA StandingFromInv == EvidenceInv => StandingIsJustified
<1> SUFFICES ASSUME EvidenceInv, AtRest, NEW claim \in EvidenceId
             PROVE  /\ Counted(claim) \subseteq Untouched
                    /\ late = {} => Linked(claim) \intersect Untouched = Counted(claim)
  BY DEF StandingIsJustified, EffectiveStatus, EvidenceInv
<1> DEFINE degraded == {n \in Nodes : standing[n] # "ACTIVE"}
<1>1. announced \subseteq degraded
  BY DEF EvidenceInv
<1>2. \A e \in depends \ late : e[2] \in degraded => e[1] \in degraded
  BY DEF EvidenceInv, AtRest
<1>3. Downstream(depends \ late, announced) \subseteq degraded
  BY <1>1, <1>2 DEF Downstream
<1>4. Counted(claim) \subseteq Untouched
  BY <1>3 DEF Counted, Linked, Untouched
<1>5. ASSUME late = {} PROVE Linked(claim) \intersect Untouched \subseteq Counted(claim)
  <2>1. depends \ late = depends
    BY <1>5
  <2>2. degraded \subseteq Downstream(depends \ late, announced)
    BY <2>1 DEF EvidenceInv
  <2> QED BY <2>2 DEF Counted, Linked, Untouched
<1>6. Counted(claim) \subseteq Linked(claim)
  BY DEF Counted
<1> QED BY <1>4, <1>5, <1>6

\* However evidence and invalidations are mixed, a node loses its standing only for an
\* announced invalidation it depends on, and a claim keeps the status of what no
\* announced invalidation touches: what propagate_invalidation and
\* calculate_current_support promise between them.
THEOREM StandingStays == EvidenceSpec => []StandingIsJustified
  BY EvidenceInvHolds, StandingFromInv, PTL

-----------------------------------------------------------------------------
\* The evidence graph: refusals.

\* The graph is finite, and was last refused if it has a circle.
CircleInv ==
    /\ IsFiniteSet(Nodes) /\ refusedEdge \in BOOLEAN
    /\ refusedEdge <=> Circular(depends)

\* A node nothing is said of yet closes no circle.
LEMMA NewNodeOnNoCircle ==
    ASSUME EvidenceInv, CircleInv, NEW n, AddNode(n) PROVE CircleInv'
<1>1. /\ n \notin Nodes /\ Nodes' = Nodes \union {n}
      /\ UNCHANGED <<depends, refusedEdge>> /\ depends \subseteq Nodes \X Nodes
  BY DEF AddNode, Nodes, EvidenceInv
<1>2. IsFiniteSet(Nodes')
  BY <1>1, FS_AddElement DEF CircleInv
<1>3. \A e \in depends : e[1] \in Nodes /\ e[2] \in Nodes
  BY <1>1
<1>4. \A m : Above(depends, m)' = Above(depends, m)
  BY <1>1 DEF Above
<1>5. ASSUME NEW m \in Nodes
      PROVE  m \in Downstream(depends, Above(depends, m))
                <=> m \in Downstream(depends, Above(depends, m))'
  <2>1. ASSUME m \in Downstream(depends, Above(depends, m)),
               NEW set \in SUBSET Nodes', Above(depends, m) \subseteq set,
               \A e \in depends : e[2] \in set => e[1] \in set
        PROVE  m \in set
    <3>1. Above(depends, m) \subseteq set \intersect Nodes
      BY <2>1 DEF Above
    <3>2. \A e \in depends : e[2] \in set \intersect Nodes => e[1] \in set \intersect Nodes
      BY <1>3, <2>1
    <3> QED BY <2>1, <3>1, <3>2 DEF Downstream
  <2>2. m \in Downstream(depends, Above(depends, m))
           => m \in Downstream(depends, Above(depends, m))'
    BY <1>1, <1>4, <2>1 DEF Downstream
  <2>3. m \in Downstream(depends, Above(depends, m))'
           => m \in Downstream(depends, Above(depends, m))
    BY <1>1, <1>4 DEF Downstream
  <2> QED BY <2>2, <2>3
<1>6. n \notin Downstream(depends, Above(depends, n))'
  <2>1. Above(depends, n)' = {} /\ {} \in SUBSET Nodes'
    BY <1>1, <1>3 DEF Above
  <2> QED BY <1>1, <2>1 DEF Downstream
<1>7. Circular(depends)' <=> Circular(depends)
  BY <1>1, <1>5, <1>6 DEF Circular
<1> QED BY <1>1, <1>2, <1>7 DEF CircleInv

LEMMA EdgesAreRefused ==
    ASSUME EvidenceInv, CircleInv, NEW s, NEW t, AddEdge(s, t) PROVE CircleInv'
<1>1. /\ Nodes' = Nodes /\ refusedEdge' = DetectsCycle(depends')
      /\ depends' \subseteq Nodes \X Nodes
  BY DEF AddEdge, Nodes, EvidenceInv
<1>2. refusedEdge' \in BOOLEAN /\ (refusedEdge' <=> Circular(depends'))
  BY <1>1, SearchFinds DEF CircleInv
<1>3. Circular(depends') <=> Circular(depends)'
  BY <1>1 DEF Circular, Downstream, Above
<1> QED BY <1>1, <1>2, <1>3 DEF CircleInv

LEMMA CirclesAreKept == EvidenceSpec => [](EvidenceInv /\ CircleInv)
<1>1. EvidenceInit => CircleInv
  <2> SUFFICES ASSUME EvidenceInit PROVE CircleInv
    OBVIOUS
  <2>1. Nodes = {} /\ refusedEdge = FALSE
    BY DEF EvidenceInit, Nodes
  <2> QED BY <2>1, FS_EmptySet DEF CircleInv, Circular
<1>2. EvidenceInv /\ CircleInv /\ [EvidenceNext]_evidenceVars => CircleInv'
  <2> SUFFICES ASSUME EvidenceInv, CircleInv, [EvidenceNext]_evidenceVars PROVE CircleInv'
    OBVIOUS
  <2>1. ASSUME UNCHANGED <<Nodes, depends, refusedEdge>> PROVE CircleInv'
    BY <2>1 DEF CircleInv, Circular, Downstream, Above
  <2>2. ASSUME NEW roots \in SUBSET EvidenceId, Invalidate(roots) PROVE CircleInv'
    BY <2>1, <2>2 DEF Invalidate, Nodes
  <2>3. ASSUME NEW n \in EvidenceId, Spread(n) PROVE CircleInv'
    BY <2>1, <2>3 DEF Spread, Nodes
  <2>4. CASE UNCHANGED evidenceVars
    BY <2>1, <2>4 DEF evidenceVars, Nodes
  <2> QED BY <2>2, <2>3, <2>4, NewNodeOnNoCircle, EdgesAreRefused DEF EvidenceNext
<1> QED BY <1>1, <1>2, EvidenceInvHolds, PTL DEF EvidenceSpec

\* However nodes, edges and invalidations are mixed: detect_cycles refuses an edge exactly
\* when the graph then has a circle, and standing is lost only for an invalidation of
\* something depended on: what evidence/graph.py promises as a whole.
THEOREM EvidenceStaysSound == EvidenceSpec => []EvidenceIsSound
<1>1. EvidenceInv /\ CircleInv => EvidenceIsSound
  <2> SUFFICES ASSUME EvidenceInv, CircleInv PROVE EvidenceIsSound
    OBVIOUS
  <2>1. \A n : Above(depends, n) = Dependents(n)
    BY DEF Above, Dependents
  <2>2. Circular(depends) <=> \E n \in Nodes : n \in Downstream(depends, Dependents(n))
    BY <2>1 DEF Circular
  <2>3. CyclesAreRefused
    BY <2>2 DEF CircleInv, CyclesAreRefused
  <2> QED BY <2>3, StandingFromInv DEF EvidenceIsSound
<1> QED BY <1>1, CirclesAreKept, PTL

=============================================================================
