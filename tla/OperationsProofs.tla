---------------------------- MODULE OperationsProofs ----------------------------
(***************************************************************************)
(* Theorems about the operations on a campaign and its STOP gate, for all  *)
(* operators, campaigns, slots, lane bodies, things, requests and          *)
(* beginnings.                                                             *)
(*                                                                         *)
(* What makes them hold against old statuses is that histories only grow:  *)
(* OInv says of each call that what it looked at is a prefix of the        *)
(* history, that a baseline stage it is about to prepare followed the      *)
(* others already there, and that its last report is backed by a commit;   *)
(* and of the history that it is lawful, no STOP in it requiring E6.       *)
(***************************************************************************)
EXTENDS CampaignOperations, WellFoundedInduction, TLAPS

-----------------------------------------------------------------------------
\* The rules of STOP.

IsHistory(h) == h \in Seq({h[n] : n \in DOMAIN h})

\* A history is numbered from one.
LEMMA HistoryNumbers ==
    ASSUME NEW h, IsHistory(h)
    PROVE  Len(h) \in Nat /\ DOMAIN h = 1..Len(h)
  BY DEF IsHistory

\* A non-empty set of commits has a newest, and Newest is it.
LEMMA NewestIsLast ==
    ASSUME NEW S \in SUBSET Nat, NEW b \in Nat, \A n \in S : n <= b, S # {}
    PROVE  Newest(S) \in S /\ \A m \in S : m <= Newest(S)
<1> DEFINE T == {b - n : n \in S}
           R == {ss \in Nat \X Nat : ss[1] < ss[2]}
<1>1. T \subseteq Nat
  <2> SUFFICES ASSUME NEW n \in S PROVE b - n \in Nat
    OBVIOUS
  <2>1. n \in Nat /\ n <= b
    OBVIOUS
  <2> QED BY <2>1
<1>2. T # {}
  OBVIOUS
<1>3. R = OpToRel(<, Nat)
  BY DEF OpToRel
<1>4. PICK x \in T : \A y \in T : <<y, x>> \notin R
  <2> HIDE DEF T, R
  <2> QED BY <1>1, <1>2, <1>3, WFMin, NatLessThanWellFounded, Zenon
<1>5. PICK k \in S : x = b - k
  OBVIOUS
<1>6. \A m \in S : m <= k
  <2> TAKE m \in S
  <2>1. b - m \in T /\ b - m \in Nat /\ x \in Nat
    BY <1>1
  <2>2. <<b - m, x>> \notin R
    BY <1>4, <2>1
  <2>3. ~ (b - m < x)
    BY <2>1, <2>2
  <2> QED BY <1>5, <2>1, <2>3
<1> QED BY <1>6 DEF Newest

\* So has a non-empty set of commits of a history.
LEMMA NewestOf ==
    ASSUME NEW h, IsHistory(h), NEW S \in SUBSET DOMAIN h, S # {}
    PROVE  Newest(S) \in S /\ \A m \in S : m <= Newest(S)
<1>1. Len(h) \in Nat /\ DOMAIN h = 1..Len(h)
  BY HistoryNumbers
<1>2. S \in SUBSET Nat /\ \A n \in S : n <= Len(h)
  BY <1>1
<1> QED BY <1>1, <1>2, NewestIsLast

\* A pass has gone through every check of the gate.
LEMMA PassFacts ==
    ASSUME NEW h, NEW c, NEW r, Decide(h, c, r) = "PASS"
    PROVE  /\ "FAILED" \notin ScopeSays(h, c) /\ "UNKNOWN" \notin ScopeSays(h, c)
           /\ ~StagesPending(h, c, r.context)
           /\ ~HardBlockers(h, c)
           /\ ~Insufficient(h, c)
           /\ "BLOCKING" \notin RiskSays(h, c) /\ "OPEN" \notin RiskSays(h, c)
<1>1. UnlessPlanned(r) # "PASS"
  BY DEF UnlessPlanned
<1>2. /\ ~RisksSay(h, c, r, "BLOCKING") /\ ~RisksSay(h, c, r, "OPEN")
      /\ Base(h, c, r) = "PASS"
  BY <1>1 DEF Decide
<1>3. /\ "FAILED" \notin ScopeSays(h, c) \cup r.adds
      /\ r.context # "INTERMEDIATE"
      /\ "UNKNOWN" \notin ScopeSays(h, c) \cup r.adds
      /\ ~StagesPending(h, c, r.context)
      /\ ~HardBlockers(h, c)
      /\ ~(Insufficient(h, c) \/ "INSUFFICIENT" \in r.adds)
  BY <1>1, <1>2 DEF Base
<1> QED BY <1>2, <1>3 DEF RisksSay

\* What the gate passes is clean, record by record: the last qualification of every
\* obligation in force is good, nothing in force is contradicted, in doubt or an
\* open risk, and the newest candidate has stood both challenges
\* (stop/engine.py, evaluate_stop).
THEOREM PassIsClean ==
    ASSUME NEW h, IsHistory(h), \A n \in DOMAIN h : Speaks(h[n]), NEW c, NEW r,
           Decide(h, c, r) = "PASS"
    PROVE  Clean(h, c)
<1>1. /\ "FAILED" \notin ScopeSays(h, c) /\ "UNKNOWN" \notin ScopeSays(h, c)
      /\ ~StagesPending(h, c, r.context)
      /\ ~HardBlockers(h, c)
      /\ ~Insufficient(h, c)
      /\ "BLOCKING" \notin RiskSays(h, c) /\ "OPEN" \notin RiskSays(h, c)
  BY PassFacts
<1>2. \A s \in BaselineStage : \E n \in Of(h, c, "completion") : h[n].of = s
  BY <1>1 DEF StagesPending, Required, Completed, About
<1>3. ASSUME NEW n \in Of(h, c, "obligation"), InForce(h, c, n)
      PROVE  \E q \in Of(h, c, "qualification") :
                h[q].of = n /\ InForce(h, c, q) /\ h[q].says = "QUALIFIED"
  <2> DEFINE Q == About(h, c, "qualification", n)
  <2>1. n \in Current(h, c, "obligation")
    BY <1>3 DEF InForce, Current, Of
  <2>2. Qualified(h, c, n) = "QUALIFIED"
    BY <1>1, <2>1 DEF Insufficient, Qualifications
  <2>3. Q # {} /\ h[Newest(Q)].says = "QUALIFIED"
    BY <2>2 DEF Qualified
  <2>4. Q \in SUBSET DOMAIN h
    BY DEF About, Of
  <2>5. Newest(Q) \in Q /\ \A m \in Q : m <= Newest(Q)
    <3> HIDE DEF Q
    <3> QED BY <2>3, <2>4, NewestOf
  <2>6. InForce(h, c, Newest(Q))
    BY <2>5 DEF InForce, About, Of
  <2> QED BY <2>3, <2>5, <2>6 DEF About
<1>4. \A n \in Of(h, c, "contradiction") : InForce(h, c, n) => h[n].says = "RESOLVED"
  BY <1>1 DEF HardBlockers, Contradicted, Current, InForce, Of
<1>5. Of(h, c, "invalidation") = {}
  BY <1>1 DEF HardBlockers, Invalidated
<1>6. \A n \in Of(h, c, "scope") : InForce(h, c, n) => h[n].says = "KNOWN"
  BY <1>1 DEF ScopeSays, Current, InForce, Of, Speaks
<1>7. \A n \in Of(h, c, "risk") :
          InForce(h, c, n) => h[n].says \in {"ACCEPTED", "SUPERSEDED"}
  BY <1>1 DEF RiskSays, Current, InForce, Of, Speaks
<1>8. \E k \in Of(h, c, "candidate") :
          /\ \A m \in Of(h, c, "candidate") : m <= k
          /\ \A x \in Role : \E n \in Of(h, c, "challenge") :
                h[n].of = << k, x >> /\ InForce(h, c, n) /\ h[n].says = "CLOSED"
  <2> DEFINE k == Newest(Of(h, c, "candidate"))
  <2>1. Of(h, c, "candidate") # {} /\ Of(h, c, "candidate") \in SUBSET DOMAIN h
    BY <1>1 DEF HardBlockers, HasCandidate, Of
  <2>2. k \in Of(h, c, "candidate") /\ \A m \in Of(h, c, "candidate") : m <= k
    BY <2>1, NewestOf
  <2>3. HasCandidate(h, c) /\ Challenged(h, c)
    BY <1>1 DEF HardBlockers
  <2>4. ASSUME NEW x \in Role
        PROVE  \E n \in Of(h, c, "challenge") :
                  h[n].of = << k, x >> /\ InForce(h, c, n) /\ h[n].says = "CLOSED"
    <3> DEFINE C == Challenges(h, c, x)
               n == Newest(C)
    <3>1. C # {} /\ C \in SUBSET DOMAIN h
      BY <2>3 DEF Challenged, Challenges, About, Of
    <3>2. n \in C /\ \A m \in C : m <= n
      <4> HIDE DEF C
      <4> QED BY <3>1, NewestOf
    <3>3. n \in Of(h, c, "challenge") /\ h[n].of = << k, x >>
      BY <3>2 DEF Challenges, About
    <3>4. InForce(h, c, n)
      BY <3>2, <3>3 DEF InForce, Challenges, About, Of
    <3>5. h[n].says \in ChallengeSays(h, c)
      BY DEF ChallengeSays
    <3>6. h[n].says \notin {"INCONCLUSIVE", "COUNTEREVIDENCE"}
      BY <1>1, <2>3, <3>5 DEF HardBlockers, Insufficient
    <3>7. h[n].says = "CLOSED"
      BY <3>3, <3>6 DEF Of, Speaks
    <3> QED BY <3>3, <3>4, <3>7
  <2> QED BY <2>2, <2>4
<1> QED BY <1>2, <1>3, <1>4, <1>5, <1>6, <1>7, <1>8 DEF Clean

-----------------------------------------------------------------------------
\* Histories that grow.

Extends(h, g) ==
    /\ IsHistory(h) /\ IsHistory(g) /\ Len(h) <= Len(g)
    /\ \A n \in DOMAIN h : n \in DOMAIN g /\ g[n] = h[n]

\* An accepted command makes one commit more.
LEMMA AppendExtends ==
    ASSUME NEW h, IsHistory(h), NEW c
    PROVE  /\ Extends(h, Append(h, c))
           /\ Len(Append(h, c)) = Len(h) + 1
           /\ DOMAIN Append(h, c) = DOMAIN h \cup {Len(h) + 1}
           /\ Append(h, c)[Len(h) + 1] = c
<1> DEFINE S == {h[n] : n \in DOMAIN h} \cup {c}
           g == Append(h, c)
<1>1. h \in Seq(S) /\ c \in S
  BY DEF IsHistory
<1>0. \A n \in DOMAIN h : n \in 1..Len(h)
  BY <1>1
<1> HIDE DEF S
<1>2. /\ g \in Seq(S) /\ Len(g) = Len(h) + 1 /\ Len(h) \in Nat
      /\ DOMAIN g = DOMAIN h \cup {Len(h) + 1} /\ g[Len(h) + 1] = c
      /\ \A n \in DOMAIN h : n \in DOMAIN g /\ g[n] = h[n]
  BY <1>1
<1>3. IsHistory(g)
  <2> HIDE DEF g
  <2>1. DOMAIN g = 1..Len(g) /\ Len(g) \in Nat /\ g = [n \in 1..Len(g) |-> g[n]]
    BY <1>2
  <2>2. \A n \in 1..Len(g) : g[n] \in {g[m] : m \in DOMAIN g}
    BY <2>1
  <2> QED BY <2>1, <2>2 DEF IsHistory
<1> QED BY <1>2, <1>3 DEF Extends

\* A history extends itself.
LEMMA ExtendsItself == ASSUME NEW h, IsHistory(h) PROVE Extends(h, h)
  BY HistoryNumbers DEF Extends

\* What is prepared stays prepared.
LEMMA PreparedStays ==
    ASSUME NEW h, NEW g, Extends(h, g), NEW a \in Nat, NEW b \in Nat, a <= b, NEW s,
           Prepared(h, a, s)
    PROVE  Prepared(g, b, s)
<1>1. PICK n \in DOMAIN h : n <= a /\ h[n].kind = "stage" /\ h[n].of = s
  BY DEF Prepared, About, Of
<1>2. n \in Nat /\ n \in DOMAIN g /\ g[n] = h[n]
  BY HistoryNumbers DEF Extends
<1>3. n <= b
  BY <1>1, <1>2
<1> QED BY <1>1, <1>2, <1>3 DEF Prepared, About, Of

\* A cut of a history is the same in every later history.
LEMMA CutStays ==
    ASSUME NEW h, NEW g, Extends(h, g), NEW c \in Nat, c <= Len(h), NEW k
    PROVE  Of(g, c, k) = Of(h, c, k)
<1>1. /\ Len(h) \in Nat /\ DOMAIN h = 1..Len(h)
      /\ Len(g) \in Nat /\ DOMAIN g = 1..Len(g)
  BY HistoryNumbers DEF Extends
<1>2. \A n \in DOMAIN g : n <= c => n \in DOMAIN h
  BY <1>1
<1> QED BY <1>2 DEF Of, Extends

\* So what was clean at a cut stays so.
LEMMA CleanStays ==
    ASSUME NEW h, NEW g, Extends(h, g), NEW c \in Nat, c <= Len(h), Clean(h, c)
    PROVE  Clean(g, c)
<1>1. \A k : Of(g, c, k) = Of(h, c, k)
  BY CutStays
<1>2. \A k : \A n \in Of(h, c, k) : g[n] = h[n]
  BY DEF Of, Extends
<1>3. \A k : \A n \in Of(h, c, k) : InForce(g, c, n) <=> InForce(h, c, n)
  <2> TAKE k
  <2> TAKE n \in Of(h, c, k)
  <2>1. h[n].kind = k /\ g[n] = h[n]
    BY <1>2 DEF Of
  <2> QED BY <1>1, <1>2, <2>1 DEF InForce
<1>4. \A s \in BaselineStage : \E n \in Of(g, c, "completion") : g[n].of = s
  BY <1>1, <1>2 DEF Clean
<1>5. \A n \in Of(g, c, "obligation") : InForce(g, c, n) =>
          \E q \in Of(g, c, "qualification") :
              g[q].of = n /\ InForce(g, c, q) /\ g[q].says = "QUALIFIED"
  <2> SUFFICES ASSUME NEW n \in Of(h, c, "obligation"), InForce(h, c, n)
               PROVE  \E q \in Of(h, c, "qualification") :
                         g[q].of = n /\ InForce(g, c, q) /\ g[q].says = "QUALIFIED"
    BY <1>1, <1>3
  <2>1. PICK q \in Of(h, c, "qualification") :
              h[q].of = n /\ InForce(h, c, q) /\ h[q].says = "QUALIFIED"
    BY DEF Clean
  <2> QED BY <1>2, <1>3, <2>1
<1>6. \A n \in Of(g, c, "contradiction") : InForce(g, c, n) => g[n].says = "RESOLVED"
  BY <1>1, <1>2, <1>3 DEF Clean
<1>7. Of(g, c, "invalidation") = {}
  BY <1>1 DEF Clean
<1>8. \A n \in Of(g, c, "scope") : InForce(g, c, n) => g[n].says = "KNOWN"
  BY <1>1, <1>2, <1>3 DEF Clean
<1>9. \A n \in Of(g, c, "risk") :
          InForce(g, c, n) => g[n].says \in {"ACCEPTED", "SUPERSEDED"}
  BY <1>1, <1>2, <1>3 DEF Clean
<1>10. \E k \in Of(g, c, "candidate") :
          /\ \A m \in Of(g, c, "candidate") : m <= k
          /\ \A r \in Role : \E n \in Of(g, c, "challenge") :
                g[n].of = << k, r >> /\ InForce(g, c, n) /\ g[n].says = "CLOSED"
  <2>1. PICK k \in Of(h, c, "candidate") :
          /\ \A m \in Of(h, c, "candidate") : m <= k
          /\ \A r \in Role : \E n \in Of(h, c, "challenge") :
                h[n].of = << k, r >> /\ InForce(h, c, n) /\ h[n].says = "CLOSED"
    BY DEF Clean
  <2>2. ASSUME NEW r \in Role
        PROVE  \E n \in Of(g, c, "challenge") :
                  g[n].of = << k, r >> /\ InForce(g, c, n) /\ g[n].says = "CLOSED"
    <3>1. PICK n \in Of(h, c, "challenge") :
                h[n].of = << k, r >> /\ InForce(h, c, n) /\ h[n].says = "CLOSED"
      BY <2>1
    <3> QED BY <1>1, <1>2, <1>3, <3>1
  <2>3. k \in Of(g, c, "candidate") /\ \A m \in Of(g, c, "candidate") : m <= k
    BY <1>1, <2>1
  <2> QED BY <2>2, <2>3
<1> QED BY <1>4, <1>5, <1>6, <1>7, <1>8, <1>9, <1>10 DEF Clean

-----------------------------------------------------------------------------
\* The invariant.

Lawful(h) ==
    /\ IsHistory(h)
    /\ \A n \in DOMAIN h : Speaks(h[n])
    /\ InOrder(h)
    /\ PassesOnClean(h)

\* What a call reported is in the history.
Backed(h, c) ==
    c.kind \in {"genesis", "stage", "lane"} => About(h, Len(h), c.kind, c.of) # {}

\* The stages before stage s are prepared at cut c.
Follows(h, c, s) ==
    \A i \in DOMAIN Baseline :
        s = Baseline[i] => \A j \in 1..(i - 1) : Prepared(h, c, Baseline[j])

\* What a call looked at is a prefix, and what it is to prepare follows.
CallFits(h, r) ==
    /\ r = [pc |-> r.pc, doing |-> r.doing, seen |-> r.seen, head |-> r.head,
            cut |-> r.cut, asked |-> r.asked, report |-> r.report]
    /\ r.asked \in Request
    /\ r.seen \in Nat /\ r.head \in Nat /\ r.cut \in Nat
    /\ r.seen <= Len(h)
    /\ Backed(h, r.report)
    /\ r.doing.kind \in {"nothing", "genesis", "stage", "lane", "stop"}
    /\ r.pc \in {"stop", "generate", "send"} /\ r.doing.kind = "stage" =>
         r.seen <= r.head /\ Follows(h, r.seen, r.doing.of)

OInv ==
    /\ Lawful(log)
    /\ op = [p \in Operator |-> op[p]]
    /\ \A p \in Operator : CallFits(log, op[p])

\* The plan names every stage once.
LEMMA BaselineFacts ==
    /\ DOMAIN Baseline = 1..5
    /\ \A i, j \in DOMAIN Baseline : Baseline[i] = Baseline[j] => i = j
    /\ \A i \in DOMAIN Baseline : Baseline[i] # "E6"
  BY DEF Baseline

\* What fits goes on fitting.
LEMMA CallStays ==
    ASSUME NEW h, NEW g, Extends(h, g), NEW r, CallFits(h, r)
    PROVE  CallFits(g, r)
<1>1. Len(h) \in Nat /\ Len(g) \in Nat /\ Len(h) <= Len(g)
      /\ DOMAIN h = 1..Len(h) /\ DOMAIN g = 1..Len(g)
  BY HistoryNumbers DEF Extends
<1>2. Backed(g, r.report)
  <2>1. About(h, Len(h), r.report.kind, r.report.of) \subseteq
        About(g, Len(g), r.report.kind, r.report.of)
    BY <1>1 DEF About, Of, Extends
  <2> QED BY <2>1 DEF Backed, CallFits
<1>3. ASSUME NEW s, Follows(h, r.seen, s) PROVE Follows(g, r.seen, s)
  BY <1>3, PreparedStays DEF Follows, CallFits
<1>4. r.seen <= Len(g)
  BY <1>1 DEF CallFits
<1> QED BY <1>2, <1>3, <1>4 DEF CallFits

\* A call that is over has only its report.
LEMMA OverFits ==
    ASSUME NEW h, IsHistory(h), NEW c, Backed(h, c)
    PROVE  CallFits(h, [Idle EXCEPT !.report = c])
<1> DEFINE a == [context |-> "INTERMEDIATE", approved |-> FALSE, adds |-> {}]
<1>0. Idle = [pc |-> "idle", doing |-> Nothing, seen |-> 0, head |-> 0, cut |-> 0,
              asked |-> a, report |-> Nothing]
  BY DEF Idle
<1> HIDE DEF a
<1>1. [Idle EXCEPT !.report = c] =
        [pc |-> "idle", doing |-> Nothing, seen |-> 0, head |-> 0, cut |-> 0,
         asked |-> a, report |-> c]
  BY <1>0
<1>2. Nothing.kind = "nothing"
  BY DEF Nothing, Commit
<1>3. a \in Request
  BY DEF a, Request, Context
<1>4. 0 <= Len(h)
  BY HistoryNumbers
<1> QED BY <1>1, <1>2, <1>3, <1>4 DEF CallFits

\* Nothing and advice claim nothing.
LEMMA EmptyReports ==
    ASSUME NEW h PROVE Backed(h, Nothing) /\ \A o, s : Backed(h, Advice(o, s))
  BY DEF Backed, Nothing, Advice, Commit

\* A step that reads keeps the invariant if the call it leaves fits.
LEMMA ReadStep ==
    ASSUME OInv, NEW p \in Operator, NEW r, Becomes(p, r), log' = log, CallFits(log, r)
    PROVE  OInv'
<1>1. op' = [op EXCEPT ![p] = r] /\ op = [q \in Operator |-> op[q]]
  BY DEF Becomes, OInv
<1>2. op' = [q \in Operator |-> IF q = p THEN r ELSE op[q]]
  BY <1>1
<1>3. op' = [q \in Operator |-> op'[q]]
  BY <1>2
<1>4. \A q \in Operator : CallFits(log, op'[q])
  BY <1>2 DEF OInv
<1> QED BY <1>3, <1>4 DEF OInv

\* The same for a step that may raise.
LEMMA ReadsStep ==
    ASSUME OInv, NEW p \in Operator, NEW may, NEW r, Reads(p, may, r),
           may => CallFits(log, r)
    PROVE  OInv'
<1>1. CASE may
  BY <1>1, ReadStep DEF Reads
<1>2. CASE ~may
  <2>1. CallFits(log, [Idle EXCEPT !.report = Nothing])
    BY OverFits, EmptyReports DEF OInv, Lawful
  <2>2. Becomes(p, [Idle EXCEPT !.report = Nothing]) /\ log' = log
    BY <1>2 DEF Reads
  <2> QED BY <2>1, <2>2, ReadStep
<1> QED BY <1>1, <1>2

\* A commit that is lawful where it is made leaves a lawful history.
LEMMA AppendLawful ==
    ASSUME NEW h, Lawful(h), NEW c, Speaks(c),
           c.kind = "stage" => Follows(h, Len(h), c.of),
           c.kind = "stop" /\ c.says = "PASS" => Clean(h, Len(h))
    PROVE  Lawful(Append(h, c))
<1> DEFINE g == Append(h, c)
<1>1. /\ Extends(h, g) /\ Len(g) = Len(h) + 1 /\ DOMAIN g = DOMAIN h \cup {Len(h) + 1}
      /\ g[Len(h) + 1] = c
  BY AppendExtends DEF Lawful
<1> HIDE DEF g
<1>2. Len(h) \in Nat /\ DOMAIN h = 1..Len(h) /\ IsHistory(g)
  BY <1>1, HistoryNumbers DEF Lawful, Extends
<1>3. \A n \in DOMAIN g : Speaks(g[n])
  BY <1>1 DEF Lawful, Extends
<1>4. InOrder(g)
  <2> SUFFICES ASSUME NEW n \in DOMAIN g, NEW i \in DOMAIN Baseline,
                      g[n].kind = "stage", g[n].of = Baseline[i], NEW j \in 1..(i - 1)
               PROVE  Prepared(g, n - 1, Baseline[j])
    BY DEF InOrder
  <2>1. CASE n \in DOMAIN h
    <3>1. Prepared(h, n - 1, Baseline[j])
      BY <1>1, <2>1 DEF Lawful, InOrder, Extends
    <3>2. n - 1 \in Nat /\ n - 1 <= n - 1
      BY <1>2, <2>1
    <3> QED BY <1>1, <3>1, <3>2, PreparedStays
  <2>2. CASE n = Len(h) + 1
    <3>1. Prepared(h, Len(h), Baseline[j])
      BY <1>1, <2>2 DEF Follows
    <3>2. n - 1 = Len(h) /\ Len(h) <= Len(h)
      BY <1>2, <2>2
    <3> QED BY <1>1, <1>2, <3>1, <3>2, PreparedStays
  <2> QED BY <1>1, <2>1, <2>2
<1>5. PassesOnClean(g)
  <2> SUFFICES ASSUME NEW n \in Of(g, Len(g), "stop"), g[n].says = "PASS"
               PROVE  Clean(g, n - 1)
    BY DEF PassesOnClean
  <2>1. n \in DOMAIN g /\ g[n].kind = "stop"
    BY DEF Of
  <2>2. CASE n \in DOMAIN h
    <3>1. n \in Of(h, Len(h), "stop") /\ h[n].says = "PASS"
      BY <1>1, <1>2, <2>1, <2>2 DEF Of, Extends
    <3>2. Clean(h, n - 1)
      BY <3>1 DEF Lawful, PassesOnClean
    <3>3. n - 1 \in Nat /\ n - 1 <= Len(h)
      BY <1>2, <2>2
    <3> QED BY <1>1, <3>2, <3>3, CleanStays
  <2>3. CASE n = Len(h) + 1
    <3>1. Clean(h, Len(h))
      BY <1>1, <2>1, <2>3
    <3>2. n - 1 = Len(h) /\ Len(h) <= Len(h)
      BY <1>2, <2>3
    <3> QED BY <1>1, <1>2, <3>1, <3>2, CleanStays
  <2> QED BY <1>1, <2>1, <2>2, <2>3
<1> QED BY <1>2, <1>3, <1>4, <1>5 DEF Lawful, g

\* A lawful commit keeps the invariant.
LEMMA AppendStep ==
    ASSUME OInv, NEW c, log' = Append(log, c), Speaks(c),
           c.kind = "stage" => Follows(log, Len(log), c.of),
           c.kind = "stop" /\ c.says = "PASS" => Clean(log, Len(log)),
           op' = op \/ \E p \in Operator : Reports(p, c)
    PROVE  OInv'
<1>1. Lawful(log')
  BY AppendLawful DEF OInv
<1>2. /\ Extends(log, log') /\ Len(log') = Len(log) + 1
      /\ DOMAIN log' = DOMAIN log \cup {Len(log) + 1}
      /\ log'[Len(log) + 1] = c
  BY AppendExtends DEF OInv, Lawful
<1>3. \A q \in Operator : CallFits(log', op[q])
  BY <1>2, CallStays DEF OInv
<1>4. CASE op' = op
  BY <1>1, <1>3, <1>4 DEF OInv
<1>5. ASSUME NEW p \in Operator, Reports(p, c) PROVE OInv'
  <2>1. op' = [op EXCEPT ![p] = [Idle EXCEPT !.report = c]]
        /\ op = [q \in Operator |-> op[q]]
    BY <1>5 DEF Reports, Becomes, OInv
  <2>2. Len(log) + 1 \in About(log', Len(log'), c.kind, c.of)
    <3>1. Len(log) \in Nat
      BY HistoryNumbers DEF OInv, Lawful
    <3> QED BY <1>2, <3>1 DEF About, Of
  <2>3. CallFits(log', [Idle EXCEPT !.report = c])
    <3>1. Backed(log', c)
      BY <2>2 DEF Backed
    <3>2. IsHistory(log')
      BY <1>1 DEF Lawful
    <3> QED BY <3>1, <3>2, OverFits
  <2> DEFINE r == [Idle EXCEPT !.report = c]
  <2>4. op' = [q \in Operator |-> IF q = p THEN r ELSE op[q]]
    BY <2>1
  <2> HIDE DEF r
  <2>5. op' = [q \in Operator |-> op'[q]]
    BY <2>4
  <2>6. \A q \in Operator : CallFits(log', op'[q])
    BY <1>3, <2>3, <2>4 DEF r
  <2> QED BY <1>1, <2>5, <2>6 DEF OInv
<1> QED BY <1>4, <1>5

-----------------------------------------------------------------------------
\* The steps.

\* What the invariant says of one call and of the history.
LEMMA Facts ==
    ASSUME OInv, NEW p \in Operator
    PROVE  /\ CallFits(log, op[p]) /\ Lawful(log) /\ IsHistory(log)
           /\ Len(log) \in Nat /\ DOMAIN log = 1..Len(log) /\ HeadSeq = Len(log)
  BY HistoryNumbers DEF OInv, Lawful, HeadSeq

\* A call that begins has looked at nothing but the status.
LEMMA CallBegins ==
    ASSUME OInv, NEW p \in Operator, NEW pc, NEW d, NEW n \in Nat, NEW a \in Request,
           d.kind \in {"nothing", "genesis", "stage", "lane"},
           d.kind = "stage" => pc \notin {"stop", "generate", "send"}
    PROVE  /\ CallFits(log, Call(p, pc, d))
           /\ CallFits(log, [Call(p, pc, d) EXCEPT !.head = n])
           /\ CallFits(log, [Call(p, pc, d) EXCEPT !.head = n, !.asked = a])
<1>1. Len(log) \in Nat /\ HeadSeq = Len(log) /\ Backed(log, Nothing)
  BY Facts, EmptyReports
<1>2. Idle.asked \in Request
  BY DEF Idle, Request, Context
<1>3. Call(p, pc, d) = [pc |-> pc, doing |-> d, seen |-> Len(log), head |-> 0,
                        cut |-> 0, asked |-> Idle.asked, report |-> Nothing]
  <2> DEFINE x == Idle.asked
  <2>1. Idle = [pc |-> "idle", doing |-> Nothing, seen |-> 0, head |-> 0, cut |-> 0,
                asked |-> x, report |-> Nothing]
    BY DEF Idle
  <2> HIDE DEF x
  <2>2. ASSUME NEW s, s = Call(p, pc, d)
        PROVE  s = [pc |-> pc, doing |-> d, seen |-> Len(log), head |-> 0,
                    cut |-> 0, asked |-> x, report |-> Nothing]
    BY <1>1, <2>1, <2>2 DEF Call
  <2> QED BY <2>2 DEF x
<1>4. ASSUME NEW m \in Nat, NEW b \in Request
      PROVE  CallFits(log, [pc |-> pc, doing |-> d, seen |-> Len(log), head |-> m,
                            cut |-> 0, asked |-> b, report |-> Nothing])
  BY <1>1 DEF CallFits
<1>5. CallFits(log, Call(p, pc, d))
  BY <1>2, <1>3, <1>4
<1>6. [Call(p, pc, d) EXCEPT !.head = n] =
        [pc |-> pc, doing |-> d, seen |-> Len(log), head |-> n,
         cut |-> 0, asked |-> Idle.asked, report |-> Nothing]
  BY <1>3
<1>7. ASSUME NEW s, s = [Call(p, pc, d) EXCEPT !.head = n, !.asked = a]
      PROVE  s = [pc |-> pc, doing |-> d, seen |-> Len(log), head |-> n,
                  cut |-> 0, asked |-> a, report |-> Nothing]
  <2>1. ASSUME NEW x, NEW b,
               x = [pc |-> pc, doing |-> d, seen |-> Len(log), head |-> 0,
                    cut |-> 0, asked |-> b, report |-> Nothing],
               s = [x EXCEPT !.head = n, !.asked = a]
        PROVE  s = [pc |-> pc, doing |-> d, seen |-> Len(log), head |-> n,
                    cut |-> 0, asked |-> a, report |-> Nothing]
    BY <2>1
  <2> QED BY <1>3, <1>7, <2>1
<1> QED BY <1>2, <1>4, <1>5, <1>6, <1>7

\* Calls begin.
LEMMA CallsStep ==
    ASSUME OInv, NEW p \in Operator, Calls(p)
    PROVE  OInv'
<1>1. Len(log) \in Nat /\ HeadSeq = Len(log) /\ IsHistory(log) /\ Idle.asked \in Request
  BY Facts DEF Idle, Request, Context
<1>2. ASSUME NEW camp \in Campaign, Create(p, camp) PROVE OInv'
  <2> DEFINE d == Commit("genesis", camp, "")
             r == [Call(p, "send", d) EXCEPT !.head = 0]
  <2>1. d.kind = "genesis"
    BY DEF Commit
  <2> HIDE DEF d
  <2>2. CallFits(log, r)
    BY <1>1, <2>1, CallBegins
  <2>3. Reads(p, HeadSeq = 0, r)
    BY <1>2 DEF Create, d
  <2> HIDE DEF r
  <2> QED BY <2>2, <2>3, ReadsStep
<1>3. ASSUME NEW s \in Stages, PrepareStage(p, s) PROVE OInv'
  <2> DEFINE d == Commit("stage", s, "")
             r == Call(p, "head", d)
  <2>1. d.kind = "stage"
    BY DEF Commit
  <2> HIDE DEF d
  <2>2. CallFits(log, r)
    BY <1>1, <2>1, CallBegins
  <2>3. Reads(p, Readable(HeadSeq), r)
    BY <1>3 DEF PrepareStage, d
  <2> HIDE DEF r
  <2> QED BY <2>2, <2>3, ReadsStep
<1>4. ASSUME NEW s \in Stages, NEW slot \in Slot, NEW body \in Body,
             PrepareLane(p, s, slot, body)
      PROVE  OInv'
  <2> DEFINE d == Commit("lane", << s, slot >>, body)
             r == Call(p, "head", d)
  <2>1. d.kind = "lane"
    BY DEF Commit
  <2> HIDE DEF d
  <2>2. CallFits(log, r)
    BY <1>1, <2>1, CallBegins
  <2>3. Reads(p, Readable(HeadSeq), r)
    BY <1>4 DEF PrepareLane, d
  <2> HIDE DEF r
  <2> QED BY <2>2, <2>3, ReadsStep
<1>5. ASSUME NEW req \in Asked, Evaluate(p, req) PROVE OInv'
  <2> DEFINE r == [Call(p, "build", Nothing) EXCEPT !.head = HeadSeq, !.asked = req]
  <2>1. Nothing.kind = "nothing" /\ req \in Request
    BY OperationsAssumption DEF Nothing, Commit
  <2>2. CallFits(log, r)
    BY <1>1, <2>1, CallBegins
  <2>3. Reads(p, HeadSeq > 0, r)
    BY <1>5 DEF Evaluate
  <2> HIDE DEF r
  <2> QED BY <2>2, <2>3, ReadsStep
<1>6. CASE Ask(p)
  <2>1. Nothing.kind = "nothing"
    BY DEF Nothing, Commit
  <2>2. CallFits(log, Call(p, "cut", Nothing))
    BY <1>1, <2>1, CallBegins
  <2>3. CASE Reads(p, Readable(HeadSeq), Call(p, "cut", Nothing))
    BY <2>2, <2>3, ReadsStep
  <2>4. CASE Reports(p, Advice("E6_RUNTIME_UNAVAILABLE", "")) /\ UNCHANGED log
    <3>1. CallFits(log, [Idle EXCEPT !.report = Advice("E6_RUNTIME_UNAVAILABLE", "")])
      BY <1>1, EmptyReports, OverFits
    <3> QED BY <2>4, <3>1, ReadStep DEF Reports
  <2> QED BY <1>6, <2>3, <2>4 DEF Ask
<1> QED BY <1>2, <1>3, <1>4, <1>5, <1>6 DEF Calls

\* The head is taken: a baseline stage that is wanted follows those before it.
LEMMA TakeHeadStep ==
    ASSUME OInv, NEW p \in Operator, TakeHead(p)
    PROVE  OInv'
<1> DEFINE r == op[p]
           pc == IF IsE6(r.doing) THEN "stop" ELSE "send"
           s == [r EXCEPT !.head = HeadSeq, !.pc = pc]
<1>1. /\ CallFits(log, r) /\ Len(log) \in Nat /\ HeadSeq = Len(log)
  BY Facts
<1>2. Reads(p, Wanted(r.seen, r.doing), s)
  BY DEF TakeHead
<1>3. s = [pc |-> pc, doing |-> r.doing, seen |-> r.seen, head |-> HeadSeq,
           cut |-> r.cut, asked |-> r.asked, report |-> r.report]
  <2>1. r = [pc |-> r.pc, doing |-> r.doing, seen |-> r.seen, head |-> r.head,
             cut |-> r.cut, asked |-> r.asked, report |-> r.report]
    BY <1>1 DEF CallFits
  <2> HIDE DEF r, pc
  <2>2. ASSUME NEW t, t = s
        PROVE  t = [pc |-> pc, doing |-> r.doing, seen |-> r.seen, head |-> HeadSeq,
                    cut |-> r.cut, asked |-> r.asked, report |-> r.report]
    BY <2>1, <2>2
  <2> QED BY <2>2
<1>4. ASSUME Wanted(r.seen, r.doing), r.doing.kind = "stage"
      PROVE  Follows(log, r.seen, r.doing.of)
  <2> SUFFICES ASSUME NEW i \in DOMAIN Baseline, r.doing.of = Baseline[i],
                      NEW j \in 1..(i - 1)
               PROVE  Prepared(log, r.seen, Baseline[j])
    BY DEF Follows
  <2>1. StageWanted(r.seen, Baseline[i]) /\ Baseline[i] # "E6"
    BY <1>4, BaselineFacts DEF Wanted
  <2>2. Baseline[i] \in Expected(r.seen)
    BY <2>1 DEF StageWanted
  <2>3. PICK k \in DOMAIN Baseline : /\ Baseline[k] = Baseline[i]
                                     /\ \A m \in 1..(k - 1) : Prepared(log, r.seen, Baseline[m])
    BY <2>2 DEF Expected
  <2>4. k = i
    BY <2>3, BaselineFacts
  <2> QED BY <2>3, <2>4
<1> HIDE DEF s, pc, r
<1>5. Wanted(r.seen, r.doing) => CallFits(log, s)
  BY <1>1, <1>3, <1>4 DEF CallFits
<1> QED BY <1>2, <1>5, ReadsStep

\* The cuts of E6, STOP and continuation are taken.
LEMMA CutSteps ==
    ASSUME OInv, NEW p \in Operator,
           TakeStop(p) \/ Generate(p) \/ Build(p) \/ TakeCut(p)
    PROVE  OInv'
<1> DEFINE r == op[p]
<1>1. /\ CallFits(log, r) /\ Len(log) \in Nat /\ HeadSeq = Len(log)
  BY Facts
<1>2. ASSUME NEW pc, NEW d, d.kind \in {"nothing", "genesis", "stage", "lane", "stop"},
             pc \in {"stop", "generate", "send"} /\ d.kind = "stage" =>
               r.seen <= r.head /\ Follows(log, r.seen, d.of)
      PROVE  CallFits(log, [pc |-> pc, doing |-> d, seen |-> r.seen, head |-> r.head,
                            cut |-> HeadSeq, asked |-> r.asked, report |-> r.report])
  BY <1>1, <1>2 DEF CallFits
<1>3. /\ r = [pc |-> r.pc, doing |-> r.doing, seen |-> r.seen, head |-> r.head,
              cut |-> r.cut, asked |-> r.asked, report |-> r.report]
      /\ r.doing.kind \in {"nothing", "genesis", "stage", "lane", "stop"}
      /\ r.pc \in {"stop", "generate", "send"} /\ r.doing.kind = "stage" =>
               r.seen <= r.head /\ Follows(log, r.seen, r.doing.of)
  BY <1>1 DEF CallFits
<1>4. ASSUME NEW pc, r.pc \in {"stop", "generate", "send"} \/ pc = "answer"
      PROVE  CallFits(log, [r EXCEPT !.pc = pc, !.cut = HeadSeq])
  <2> HIDE DEF r
  <2>1. ASSUME NEW t, t = [r EXCEPT !.pc = pc, !.cut = HeadSeq]
        PROVE  t = [pc |-> pc, doing |-> r.doing, seen |-> r.seen, head |-> r.head,
                    cut |-> HeadSeq, asked |-> r.asked, report |-> r.report]
    BY <1>3, <2>1
  <2>2. CallFits(log, [pc |-> pc, doing |-> r.doing, seen |-> r.seen, head |-> r.head,
                       cut |-> HeadSeq, asked |-> r.asked, report |-> r.report])
    BY <1>2, <1>3, <1>4
  <2> QED BY <2>1, <2>2
<1>5. CASE TakeStop(p)
  <2>1. /\ r.pc = "stop"
        /\ Reads(p, Of(log, HeadSeq, "stop") # {},
                 [r EXCEPT !.pc = "generate", !.cut = HeadSeq])
    BY <1>5 DEF TakeStop, At
  <2> HIDE DEF r
  <2> QED BY <1>4, <2>1, ReadsStep
<1>6. CASE Generate(p)
  <2>1. /\ r.pc = "generate"
        /\ Reads(p, Generates(HeadSeq, Newest(Of(log, r.cut, "stop"))),
                 [r EXCEPT !.pc = "send", !.cut = HeadSeq])
    BY <1>6 DEF Generate, At
  <2> HIDE DEF r
  <2> QED BY <1>4, <2>1, ReadsStep
<1>7. CASE TakeCut(p)
  <2>1. Reads(p, TRUE, [r EXCEPT !.pc = "answer", !.cut = HeadSeq])
    BY <1>7 DEF TakeCut
  <2> HIDE DEF r
  <2> QED BY <1>4, <2>1, ReadsStep
<1>8. CASE Build(p)
  <2> DEFINE d == Commit("stop", "", Decide(log, HeadSeq, r.asked))
             s == [r EXCEPT !.pc = "send", !.cut = HeadSeq, !.doing = d]
  <2>1. Reads(p, HasInventory(HeadSeq), s)
    BY <1>8 DEF Build
  <2>2. d.kind = "stop"
    BY DEF Commit
  <2> HIDE DEF d
  <2> HIDE DEF r
  <2>3. ASSUME NEW t, t = s
        PROVE  t = [pc |-> "send", doing |-> d, seen |-> r.seen, head |-> r.head,
                    cut |-> HeadSeq, asked |-> r.asked, report |-> r.report]
    BY <1>3, <2>3
  <2>4. CallFits(log, s)
    BY <1>2, <2>2, <2>3
  <2> HIDE DEF s
  <2> QED BY <2>1, <2>4, ReadsStep
<1> QED BY <1>5, <1>6, <1>7, <1>8

\* Without an approved plan the gate never asks for E6.
LEMMA DecidesWithoutPlan ==
    ASSUME NEW h, NEW c, NEW r, r.approved = FALSE
    PROVE  Decide(h, c, r) \in Decision \ {"E6_REQUIRED"}
<1>1. UnlessPlanned(r) = "BLOCKED"
  BY DEF UnlessPlanned
<1>2. Base(h, c, r) \in Decision \ {"E6_REQUIRED"}
  BY <1>1 DEF Base, Decision
<1> QED BY <1>1, <1>2 DEF Decide, Decision

\* A command accepted at the exact head is lawful there; a repeated one is backed by
\* the commit it repeats.
LEMMA SendStep ==
    ASSUME OInv, NEW p \in Operator, Send(p)
    PROVE  OInv'
<1> DEFINE r == op[p]
           c == r.doing
<1>1. /\ CallFits(log, r) /\ Lawful(log) /\ IsHistory(log)
      /\ Len(log) \in Nat /\ HeadSeq = Len(log) /\ DOMAIN log = 1..Len(log)
  BY Facts
<1>2. r.pc = "send"
  BY DEF Send, At
<1>3. CASE Accepted(r)
  <2>1. log' = Append(log, c) /\ Reports(p, c)
    BY <1>3 DEF Send
  <2>2. c.kind = "stop" => /\ c.says \in Decision \ {"E6_REQUIRED"}
                           /\ c.says = "PASS" => Clean(log, Len(log))
    <3> SUFFICES ASSUME c.kind = "stop"
                 PROVE  /\ c.says \in Decision \ {"E6_REQUIRED"}
                        /\ c.says = "PASS" => Clean(log, Len(log))
      OBVIOUS
    <3> DEFINE a == [r.asked EXCEPT !.approved = FALSE]
    <3>1. r.cut = Len(log) /\ c.says = Decide(log, r.cut, a)
      BY <1>1, <1>3 DEF Accepted, Recomputed
    <3>2. a.approved = FALSE
      BY <1>1 DEF CallFits, Request
    <3> HIDE DEF a, c
    <3>3. c.says \in Decision \ {"E6_REQUIRED"}
      BY <3>1, <3>2, DecidesWithoutPlan
    <3>4. c.says = "PASS" => Clean(log, Len(log))
      BY <1>1, <3>1, PassIsClean DEF Lawful
    <3> QED BY <3>3, <3>4
  <2>3. c.kind \in {"nothing", "genesis", "stage", "lane", "stop"}
    BY <1>1 DEF CallFits
  <2>4. c.kind = "stage" => Follows(log, Len(log), c.of)
    <3> SUFFICES ASSUME c.kind = "stage" PROVE Follows(log, Len(log), c.of)
      OBVIOUS
    <3>1. /\ Follows(log, r.seen, c.of) /\ r.seen \in Nat /\ r.seen <= Len(log)
      BY <1>1, <1>2 DEF CallFits
    <3>2. Extends(log, log)
      BY <1>1, ExtendsItself
    <3> HIDE DEF c, r
    <3> QED BY <1>1, <3>1, <3>2, PreparedStays DEF Follows
  <2> HIDE DEF c
  <2>5. Speaks(c)
    BY <2>2, <2>3 DEF Speaks
  <2> QED BY <2>1, <2>2, <2>4, <2>5, AppendStep
<1>4. CASE ~Accepted(r) /\ Repeats(r)
  <2>1. log' = log /\ Becomes(p, [Idle EXCEPT !.report = c])
    BY <1>4 DEF Send, Reports
  <2>2. Backed(log, c)
    <3>1. r.head + 1 \in DOMAIN log /\ SameCommand(log[r.head + 1], c)
      BY <1>1, <1>4 DEF Repeats, CallFits
    <3> HIDE DEF c, r
    <3>2. r.head + 1 \in About(log, Len(log), c.kind, c.of)
      BY <1>1, <3>1 DEF SameCommand, About, Of
    <3> QED BY <3>2 DEF Backed
  <2> HIDE DEF c
  <2> QED BY <1>1, <2>1, <2>2, OverFits, ReadStep
<1>5. CASE ~Accepted(r) /\ ~Repeats(r)
  <2>1. log' = log /\ Becomes(p, [Idle EXCEPT !.report = Nothing])
    BY <1>5 DEF Send, Raises, Reports
  <2> QED BY <1>1, <2>1, EmptyReports, OverFits, ReadStep
<1> QED BY <1>3, <1>4, <1>5

\* The answer of the continuation claims nothing of the history.
LEMMA AnswerStep ==
    ASSUME OInv, NEW p \in Operator, Answer(p)
    PROVE  OInv'
<1> DEFINE a == Continuation(op[p].cut, HeadSeq)
           r == [Idle EXCEPT !.report = a]
<1>1. Reads(p, Readable(HeadSeq), r)
  BY DEF Answer
<1>2. a.kind = "advice"
  BY DEF Continuation, Progress, Advice, Commit
<1> HIDE DEF a
<1>3. CallFits(log, r)
  BY <1>2, OverFits DEF Backed, OInv, Lawful
<1> HIDE DEF r
<1> QED BY <1>1, <1>3, ReadsStep

\* The rest of the system adds no stage and no STOP.
LEMMA OthersStep ==
    ASSUME OInv, Others
    PROVE  OInv'
<1>1. ASSUME NEW c, Appears(c), Speaks(c), c.kind \notin {"stage", "stop"}
      PROVE  OInv'
  BY <1>1, AppendStep DEF Appears
<1>2. ASSUME NEW s \in BaselineStage, CompleteStage(s) PROVE OInv'
  <2> DEFINE c == Commit("completion", s, "")
  <2>1. Appears(c) /\ c.kind = "completion"
    BY <1>2 DEF CompleteStage, Commit
  <2> HIDE DEF c
  <2> QED BY <1>1, <2>1 DEF Speaks
<1>3. CASE Elsewhere
  <2>1. PICK c \in Record : Appears(c)
    BY <1>3 DEF Elsewhere
  <2>2. c.kind \notin {"stage", "stop"} /\ Speaks(c)
    BY DEF Record, Speaks
  <2> QED BY <1>1, <2>1, <2>2
<1>4. CASE Conclude
  <2> DEFINE c == Commit("conclusion", "", IF LatestStop(HeadSeq) = "PASS" THEN "COMPLETED"
                                           ELSE "COMPLETED_LIMITED")
  <2>1. Appears(c) /\ c.kind = "conclusion"
    BY <1>4 DEF Conclude, Commit
  <2> HIDE DEF c
  <2> QED BY <1>1, <2>1 DEF Speaks
<1> QED BY <1>2, <1>3, <1>4 DEF Others

\* The invariant, for any operators and requests and from any beginning.
THEOREM OInvHolds == Spec => []OInv
<1>1. Init => OInv
  <2> SUFFICES ASSUME Init PROVE OInv
    OBVIOUS
  <2>1. log \in Beginning /\ op = [p \in Operator |-> Idle]
    BY DEF Init
  <2>2. Lawful(log)
    BY <2>1, BeginningAssumption DEF Lawful, IsHistory
  <2>3. CallFits(log, Idle)
    <3> DEFINE a == [context |-> "INTERMEDIATE", approved |-> FALSE, adds |-> {}]
    <3>0. Idle = [pc |-> "idle", doing |-> Nothing, seen |-> 0, head |-> 0, cut |-> 0,
                  asked |-> a, report |-> Nothing]
      BY DEF Idle
    <3> HIDE DEF a
    <3>1. Idle = [Idle EXCEPT !.report = Nothing]
      BY <3>0
    <3>2. CallFits(log, [Idle EXCEPT !.report = Nothing])
      BY <2>2, EmptyReports, OverFits DEF Lawful
    <3> QED BY <3>1, <3>2
  <2> QED BY <2>1, <2>2, <2>3 DEF OInv
<1>2. OInv /\ [Next]_vars => OInv'
  <2> SUFFICES ASSUME OInv, [Next]_vars PROVE OInv'
    OBVIOUS
  <2>1. CASE UNCHANGED vars
    BY <2>1 DEF vars, OInv
  <2>2. ASSUME NEW p \in Operator, Works(p) PROVE OInv'
    BY <2>2, TakeHeadStep, CutSteps, SendStep, AnswerStep DEF Works
  <2> QED BY <2>1, <2>2, CallsStep, OthersStep DEF Next
<1> QED BY <1>1, <1>2, PTL DEF Spec

-----------------------------------------------------------------------------

\* Whatever old statuses the operators looked at, the stages enter the history in the
\* order of the plan (coordinator/operations.py, prepare_stage).
THEOREM StagesInOrder == Spec => []BaselineInOrder
<1>1. OInv => BaselineInOrder
  BY DEF OInv, Lawful, BaselineInOrder
<1> QED BY <1>1, OInvHolds, PTL

\* What a call reported as done is in the history, also when a rival did it.
THEOREM ReportsAreBacked == Spec => []ReportsAreTrue
<1>1. OInv => ReportsAreTrue
  BY Facts DEF OInv, CallFits, Backed, ReportsAreTrue
<1> QED BY <1>1, OInvHolds, PTL

\* A STOP that passes was decided on a history that is clean, record by record, up to
\* the very commit before it.
THEOREM PassesAreEarned == Spec => []PassIsEarned
<1>1. OInv => PassIsEarned
  BY DEF OInv, Lawful, PassIsEarned
<1> QED BY <1>1, OInvHolds, PTL

\* The first stage that is not completed.
LEMMA FirstIncompleteIs ==
    ASSUME NEW c, NEW s \in BaselineStage, ~Completed(log, c, s)
    PROVE  \E i \in DOMAIN Baseline :
              /\ FirstIncomplete(c) = Baseline[i]
              /\ ~Completed(log, c, Baseline[i])
              /\ \A j \in 1..(i - 1) : Completed(log, c, Baseline[j])
<1> DEFINE Done(i) == Completed(log, c, Baseline[i])
           First(i) == ~Done(i) /\ \A j \in 1..(i - 1) : Done(j)
<1>1. DOMAIN Baseline = 1..5
  BY BaselineFacts
<1>2. PICK k \in 1..5 : ~Done(k)
  BY <1>1 DEF BaselineStage
<1>3. \E i \in 1..5 : First(i)
  <2> HIDE DEF Done
  <2>1. CASE ~Done(1)
    BY <2>1
  <2>2. CASE Done(1) /\ ~Done(2)
    BY <2>2
  <2>3. CASE Done(1) /\ Done(2) /\ ~Done(3)
    BY <2>3
  <2>4. CASE Done(1) /\ Done(2) /\ Done(3) /\ ~Done(4)
    BY <2>4
  <2>5. CASE Done(1) /\ Done(2) /\ Done(3) /\ Done(4) /\ ~Done(5)
    BY <2>5
  <2> QED BY <1>2, <2>1, <2>2, <2>3, <2>4, <2>5
<1>4. FirstIncomplete(c) = Baseline[CHOOSE i \in 1..5 : First(i)]
  BY <1>1 DEF FirstIncomplete
<1> HIDE DEF First
<1>5. First(CHOOSE i \in 1..5 : First(i)) /\ (CHOOSE i \in 1..5 : First(i)) \in 1..5
  BY <1>3
<1> QED BY <1>1, <1>4, <1>5 DEF First

\* What progress comes to.
LEMMA ProgressIs ==
    ASSUME NEW c
    PROVE  \/ /\ \A t \in BaselineStage : Completed(log, c, t)
              /\ Progress(c).of = "EVALUATE_STOP_GATE"
           \/ Progress(c).of = "QUALIFY_STAGE"
           \/ /\ \E t \in BaselineStage : ~Completed(log, c, t)
              /\ ~Prepared(log, c, FirstIncomplete(c))
              /\ Progress(c).of = "PREPARE_STAGE"
              /\ Progress(c).says = FirstIncomplete(c)
<1>1. CASE \A t \in BaselineStage : Completed(log, c, t)
  BY <1>1 DEF Progress, Advice, Commit
<1>2. CASE /\ \E t \in BaselineStage : ~Completed(log, c, t)
           /\ Prepared(log, c, FirstIncomplete(c))
  BY <1>2 DEF Progress, Advice, Commit
<1>3. CASE /\ \E t \in BaselineStage : ~Completed(log, c, t)
           /\ ~Prepared(log, c, FirstIncomplete(c))
  BY <1>3 DEF Progress, Advice, Commit
<1> QED BY <1>1, <1>2, <1>3

\* What the continuation advises is not refused where it was advised: the stage it says
\* to prepare is the one that is asked for, and a STOP it says to evaluate comes to a
\* decision (continuation_service.py against operations.py and stop/engine.py).
THEOREM AdviceCanBeTaken == Spec => []AdviceIsPossible
<1>1. ASSUME OInv PROVE AdviceIsPossible
  <2> DEFINE c == HeadSeq
             a == Continuation(c, c)
             r == [context |-> "FINAL_POST_E5", approved |-> FALSE, adds |-> {}]
  <2>1. IsHistory(log) /\ Len(log) \in Nat /\ DOMAIN log = 1..Len(log)
    BY <1>1, HistoryNumbers DEF OInv, Lawful
  <2>2. Of(log, c, "stop") # {} => LatestStop(c) \in {"PASS", "CONTINUE_REQUIRED", "BLOCKED"}
    <3> SUFFICES ASSUME Of(log, c, "stop") # {}
                 PROVE  LatestStop(c) \in {"PASS", "CONTINUE_REQUIRED", "BLOCKED"}
      OBVIOUS
    <3> DEFINE S == Of(log, c, "stop")
    <3>1. S \in SUBSET DOMAIN log /\ S # {}
      BY DEF Of
    <3>2. Newest(S) \in S
      <4> HIDE DEF S
      <4> QED BY <2>1, <3>1, NewestOf
    <3>3. Speaks(log[Newest(S)]) /\ log[Newest(S)].kind = "stop"
      BY <1>1, <3>2 DEF OInv, Lawful, Of
    <3> QED BY <3>3 DEF Speaks, Decision, LatestStop
  <2>3. \/ ~Open(c) /\ a.of = "FINALIZATION"
        \/ Open(c) /\ a = Progress(c)
        \/ a.of \in {"CONCLUDE_CAMPAIGN", "CONCLUDE_LIMITED_OR_BLOCK"}
    BY <2>2 DEF Continuation, Advice, Commit
  <2>4. ASSUME Open(c), a = Progress(c), a.of = "PREPARE_STAGE"
        PROVE  StageWanted(c, a.says)
    <3>0. Progress(c).of = "PREPARE_STAGE"
      BY <2>4
    <3>1. PICK s \in BaselineStage : ~Completed(log, c, s)
      BY <3>0, ProgressIs
    <3>2. /\ a.says = FirstIncomplete(c) /\ ~Prepared(log, c, FirstIncomplete(c))
      BY <2>4, <3>0, ProgressIs
    <3>3. PICK i \in DOMAIN Baseline :
              /\ FirstIncomplete(c) = Baseline[i]
              /\ \A j \in 1..(i - 1) : Completed(log, c, Baseline[j])
      BY <3>1, FirstIncompleteIs
    <3>4. Baseline[i] \in Expected(c)
      BY <3>2, <3>3 DEF Expected, Completed
    <3> QED BY <2>4, <3>2, <3>3, <3>4, BaselineFacts DEF StageWanted
  <2>5. ASSUME a = Progress(c), a.of = "EVALUATE_STOP_GATE"
        PROVE  Decide(log, c, r) # "CONTINUE_REQUIRED"
    <3>0. Progress(c).of = "EVALUATE_STOP_GATE"
      BY <2>5
    <3>1. \A t \in BaselineStage : Completed(log, c, t)
      BY <3>0, ProgressIs
    <3>2. ~StagesPending(log, c, r.context)
      BY <3>1 DEF StagesPending, Required
    <3>3. UnlessPlanned(r) = "BLOCKED" /\ r.context = "FINAL_POST_E5"
      BY DEF UnlessPlanned
    <3> HIDE DEF r
    <3>4. Base(log, c, r) # "CONTINUE_REQUIRED"
      BY <3>2, <3>3 DEF Base
    <3> QED BY <3>3, <3>4 DEF Decide
  <2> HIDE DEF a, c
  <2>6. a.of = "PREPARE_STAGE" => StageWanted(c, a.says)
    BY <2>3, <2>4
  <2>7. a.of = "EVALUATE_STOP_GATE" => Decide(log, c, r) # "CONTINUE_REQUIRED"
    BY <2>3, <2>5
  <2> QED BY <2>6, <2>7 DEF AdviceIsPossible, a, c
<1> QED BY <1>1, OInvHolds, PTL
===============================================================================
