--------------------------- MODULE FinalizationProofs ---------------------------
(***************************************************************************)
(* Theorems about the end of a campaign, for every set of operators,       *)
(* statements, wishes and verdicts and for every bound.                    *)
(*                                                                         *)
(* The safety properties are not inductive: that a chain is made only once *)
(* rests on what a call knows between a look and the commit that follows.  *)
(* IInv adds it: what a call holds is accepted and fits together, and a    *)
(* call that is about to send a part found none of it up to its cut.  The  *)
(* store takes the part only when that cut is still the head.              *)
(***************************************************************************)
EXTENDS Finalization, FiniteSetTheorems, WellFoundedInduction, TLAPS

USE FinalizationAssumption

-----------------------------------------------------------------------------
\* The parts of the invariant, as predicates on a log l and a call r.

Is(l, n, kind) == n \in DOMAIN l /\ l[n].kind = kind

FreshIn(l, stop, upto) ==
    \A n \in DOMAIN l : l[stop].cut < n /\ n <= upto => l[n].kind # "material"

\* What commit n refers to was accepted before it and is about the same STOP.
Linked(l, n) ==
    /\ Is(l, n, "conclusion") =>
         /\ Is(l, l[n].stop, "stop") /\ l[n].stop < n
         /\ l[n].termination = "COMPLETED" => l[l[n].stop].decision = "PASS"
    /\ Is(l, n, "case") =>
         /\ Is(l, l[n].conclusion, "conclusion") /\ l[n].conclusion < n
         /\ l[l[n].conclusion].stop = l[n].stop
    /\ Is(l, n, "qualification") =>
         /\ Is(l, l[n].case, "case") /\ l[n].case < n
         /\ l[l[n].case].conclusion = l[n].conclusion
         /\ l[l[n].case].stop = l[n].stop
         /\ Is(l, l[n].conclusion, "conclusion")
         /\ Is(l, l[n].stop, "stop") /\ FreshIn(l, l[n].stop, n)
         /\ l[n].result = "READY" => l[l[n].conclusion].termination = "COMPLETED"

Once(l) ==
    \A m, n \in DOMAIN l :
        /\ Is(l, m, "conclusion") /\ Is(l, n, "conclusion") =>
             (l[m].stop = l[n].stop => m = n)
        /\ Is(l, m, "case") /\ Is(l, n, "case") =>
             (l[m].conclusion = l[n].conclusion => m = n)
        /\ Is(l, m, "qualification") /\ Is(l, n, "qualification") =>
             (l[m].case = l[n].case => m = n)

\* A call of conclude_campaign has the caller's arguments.
Asked(r) ==
    r.wish # NoWish \/ r.pc \notin {"idle", "evaluate", "send_stop"}
        => r.wish \in Wish /\ r.statement \in Statement

AtConclusion   == {"conclusion", "send_conclusion"}
AtCase         == {"case", "send_case"}
AtQualification == {"qualification", "send_qualification"}

\* What a call has found or made so far is accepted and fits together.
Holds(l, r) ==
    /\ r.pc \in {"basis"} \cup AtConclusion \cup AtCase \cup AtQualification
         => Is(l, r.stop, "stop")
    /\ r.pc \in AtConclusion \cup AtCase \cup AtQualification
         => r.termination \in Termination
    /\ r.pc \in AtCase \cup AtQualification
         => /\ Is(l, r.conclusion, "conclusion")
            /\ l[r.conclusion].stop = r.stop
            /\ l[r.conclusion].termination = r.termination
    /\ r.pc \in AtQualification
         => /\ Is(l, r.case, "case")
            /\ l[r.case].conclusion = r.conclusion
            /\ l[r.case].stop = r.stop

\* A call about to send a part found none of it at its cut.
Missing(l, r) ==
    /\ r.pc = "send_conclusion" =>
         /\ r.cut <= Len(l)
         /\ \A n \in DOMAIN l : n <= r.cut /\ Is(l, n, "conclusion") => l[n].stop # r.stop
    /\ r.pc = "send_case" =>
         /\ r.cut <= Len(l)
         /\ \A n \in DOMAIN l : n <= r.cut /\ Is(l, n, "case")
                                   => l[n].conclusion # r.conclusion
    /\ r.pc = "send_qualification" =>
         /\ r.cut <= Len(l)
         /\ \A n \in DOMAIN l : n <= r.cut /\ Is(l, n, "qualification") => l[n].case # r.case

Proper(l, r) == r \in Call /\ Asked(r) /\ Holds(l, r) /\ Missing(l, r)

IInv ==
    /\ TypeOK
    /\ \A n \in DOMAIN log : Linked(log, n)
    /\ Once(log)
    /\ \A p \in Operator : Proper(log, op[p])

-----------------------------------------------------------------------------
\* A non-empty set of sequence numbers has a last one, and LastOf is it.
LEMMA LastOfTyped ==
    ASSUME NEW S \in SUBSET Nat, NEW b \in Nat, \A n \in S : n <= b, S # {}
    PROVE  LastOf(S) \in S
<1> DEFINE T == {b - n : n \in S}
           R == {ss \in Nat \X Nat : ss[1] < ss[2]}
<1>1. T \subseteq Nat
  <2> SUFFICES ASSUME NEW n \in S PROVE b - n \in Nat
    OBVIOUS
  <2>1. n \in Nat /\ n <= b
    OBVIOUS
  <2> QED BY <2>1
<1>2. T # {}
  OBVIOUS
<1>3. R = OpToRel(<, Nat)
  BY DEF OpToRel
<1>4. PICK x \in T : \A y \in T : <<y, x>> \notin R
  <2> HIDE DEF T, R
  <2> QED BY <1>1, <1>2, <1>3, WFMin, NatLessThanWellFounded, Zenon
<1>5. PICK k \in S : x = b - k
  OBVIOUS
<1>6. \A m \in S : m <= k
  <2> TAKE m \in S
  <2>1. b - m \in T /\ b - m \in Nat /\ x \in Nat
    BY <1>1
  <2>2. <<b - m, x>> \notin R
    BY <1>4, <2>1
  <2>3. ~ (b - m < x)
    BY <2>1, <2>2
  <2> QED BY <1>5, <2>1, <2>3
<1> QED BY <1>6 DEF LastOf

\* The newest of some commits is one of them, and none is None.
LEMMA LastAt ==
    ASSUME log \in Seq(Commit), NEW S \in SUBSET DOMAIN log
    PROVE  IF S = {} THEN LastOf(S) = None ELSE LastOf(S) \in S /\ LastOf(S) # None
<1>1. DOMAIN log = 1..Len(log) /\ Len(log) \in Nat
  OBVIOUS
<1>2. S # {} => LastOf(S) \in S
  <2>1. S \in SUBSET Nat /\ \A n \in S : n <= Len(log)
    BY <1>1
  <2> QED BY <1>1, <2>1, LastOfTyped
<1>3. 0 \notin S
  BY <1>1
<1> QED BY <1>2, <1>3 DEF LastOf, None

\* A log with one commit more.
LEMMA AppendTyped ==
    ASSUME NEW l \in Seq(Commit), NEW c \in Commit
    PROVE  /\ Append(l, c) \in Seq(Commit)
           /\ Len(l) \in Nat
           /\ DOMAIN l = 1..Len(l)
           /\ Len(Append(l, c)) = Len(l) + 1
           /\ DOMAIN Append(l, c) = DOMAIN l \cup {Len(l) + 1}
           /\ \A n \in DOMAIN l : Append(l, c)[n] = l[n]
           /\ Append(l, c)[Len(l) + 1] = c
  OBVIOUS

\* A commit keeps what was linked linked, and what calls hold.
LEMMA AppendKeepsLinks ==
    ASSUME NEW l \in Seq(Commit), NEW c \in Commit, NEW n \in DOMAIN l, Linked(l, n)
    PROVE  Linked(Append(l, c), n)
<1> DEFINE k == Append(l, c)
<1>1. /\ DOMAIN l = 1..Len(l) /\ Len(l) \in Nat
      /\ DOMAIN k = DOMAIN l \cup {Len(l) + 1}
      /\ \A i \in DOMAIN l : k[i] = l[i]
  BY AppendTyped
<1> HIDE DEF k
<1> SUFFICES Linked(k, n)
  BY DEF k
<1>2. CASE Is(l, n, "conclusion")
  BY <1>1, <1>2 DEF Linked, Is
<1>3. CASE Is(l, n, "case")
  BY <1>1, <1>3 DEF Linked, Is
<1>4. CASE Is(l, n, "qualification")
  <2>1. FreshIn(k, k[n].stop, n)
    BY <1>1, <1>4 DEF Linked, Is, FreshIn
  <2> QED BY <1>1, <1>4, <2>1 DEF Linked, Is
<1>5. CASE l[n].kind \notin {"conclusion", "case", "qualification"}
  BY <1>1, <1>5 DEF Linked, Is
<1> QED BY <1>2, <1>3, <1>4, <1>5 DEF Is

\* What a call knows survives a commit of anybody: the log only grows.
LEMMA AppendKeepsCall ==
    ASSUME NEW l \in Seq(Commit), NEW c \in Commit, NEW r, Proper(l, r)
    PROVE  Proper(Append(l, c), r)
<1> DEFINE k == Append(l, c)
<1>1. /\ DOMAIN l = 1..Len(l) /\ Len(l) \in Nat /\ Len(k) = Len(l) + 1
      /\ DOMAIN k = DOMAIN l \cup {Len(l) + 1}
      /\ \A i \in DOMAIN l : k[i] = l[i]
  BY AppendTyped
<1> HIDE DEF k
<1>2. r \in Call /\ r.cut \in Nat
  BY DEF Proper, Call
<1>3. Holds(k, r)
  BY <1>1 DEF Proper, Holds, Is
<1>4. Missing(k, r)
  BY <1>1, <1>2 DEF Proper, Missing, Is
<1> QED BY <1>2, <1>3, <1>4 DEF Proper, k

-----------------------------------------------------------------------------
\* A step of the whole system, given what it does to the log and to one call.

\* A step that only reads keeps the invariant if the call it leaves is proper.
LEMMA ReadKeepsInv ==
    ASSUME IInv, NEW p \in Operator, NEW r, Becomes(p, r), log' = log, Proper(log, r)
    PROVE  IInv'
<1>1. op' \in [Operator -> Call] /\ \A q \in Operator : Proper(log, op'[q])
  BY DEF IInv, TypeOK, Becomes, Proper
<1> QED BY <1>1 DEF IInv, TypeOK

\* So does a commit that is linked and is not a second one of its kind.
LEMMA CommitKeepsInv ==
    ASSUME IInv, NEW c \in Commit, log' = Append(log, c),
           DOMAIN op' = DOMAIN op, op' \in [Operator -> Call],
           \A q \in Operator : op'[q] = op[q] \/ Proper(Append(log, c), op'[q]),
           Linked(Append(log, c), Len(log) + 1), Once(Append(log, c))
    PROVE  IInv'
<1> DEFINE k == Append(log, c)
<1>1. log \in Seq(Commit) /\ op \in [Operator -> Call]
  BY DEF IInv, TypeOK
<1>2. k \in Seq(Commit) /\ DOMAIN k = DOMAIN log \cup {Len(log) + 1}
  BY <1>1, AppendTyped
<1>3. \A n \in DOMAIN k : Linked(k, n)
  BY <1>1, <1>2, AppendKeepsLinks DEF IInv
<1>4. \A q \in Operator : Proper(k, op[q])
  BY <1>1, AppendKeepsCall DEF IInv
<1> HIDE DEF k
<1>5. \A q \in Operator : Proper(k, op'[q])
  BY <1>4 DEF k
<1> QED BY <1>2, <1>3, <1>5 DEF IInv, TypeOK, k

\* A call that is over knows nothing.
LEMMA IdleProper == \A l : Proper(l, Idle)
  BY DEF Proper, Idle, Call, Place, Asked, Holds, Missing, AtConclusion, AtCase,
         AtQualification, None, NoWish

\* What the invariant says of one call, unfolded.
LEMMA CallFacts ==
    ASSUME IInv, NEW p \in Operator
    PROVE  /\ log \in Seq(Commit) /\ Len(log) \in Nat /\ DOMAIN log = 1..Len(log)
           /\ op \in [Operator -> Call] /\ op[p] \in Call /\ Proper(log, op[p])
           /\ \A n \in DOMAIN log : Linked(log, n)
           /\ Once(log)
  BY DEF IInv, TypeOK

\* A command from one call, refused or accepted.
LEMMA SendKeepsInv ==
    ASSUME IInv, NEW p \in Operator, NEW pc, NEW c, NEW r, NEW admitted \in BOOLEAN,
           Sends(p, pc, c, admitted, r),
           admitted => /\ c \in Commit /\ Proper(Append(log, c), r)
                       /\ Linked(Append(log, c), Len(log) + 1) /\ Once(Append(log, c))
    PROVE  IInv'
<1>1. CASE admitted
  <2>1. /\ log' = Append(log, c) /\ op' = [op EXCEPT ![p] = r]
        /\ op \in [Operator -> Call] /\ r \in Call
    BY <1>1 DEF Sends, Becomes, IInv, TypeOK, Proper
  <2>2. op' \in [Operator -> Call] /\ DOMAIN op' = DOMAIN op
    BY <2>1
  <2>3. \A q \in Operator : op'[q] = op[q] \/ Proper(Append(log, c), op'[q])
    BY <1>1, <2>1
  <2> QED BY <1>1, <2>1, <2>2, <2>3, CommitKeepsInv
<1>2. CASE ~admitted
  <2>1. log' = log /\ Becomes(p, Idle)
    BY <1>2 DEF Sends
  <2> QED BY <2>1, IdleProper, ReadKeepsInv
<1> QED BY <1>1, <1>2

-----------------------------------------------------------------------------
\* Steps of a call that only read.

\* Reading the STOP input keeps the invariant.
LEMMA ReadStopInputInv ==
    ASSUME IInv, NEW p \in Operator, ReadStopInput(p)
    PROVE  IInv'
<1> DEFINE r == [To(op[p], "send_stop") EXCEPT !.cut = HeadSeq]
<1>1. op[p] \in Call /\ Proper(log, op[p]) /\ HeadSeq \in Nat
  BY CallFacts DEF HeadSeq
<1>2. op[p].pc = "evaluate" /\ log' = log /\ Becomes(p, r)
  BY DEF ReadStopInput, Reads
<1>3. Proper(log, r)
  BY <1>1, <1>2 DEF Proper, Call, Place, To, Asked, Holds, Missing, AtConclusion,
                    AtCase, AtQualification
<1> QED BY <1>2, <1>3, ReadKeepsInv

\* The newest STOP a call finds is an accepted STOP.
LEMMA FindStopInv ==
    ASSUME IInv, NEW p \in Operator, FindStop(p)
    PROVE  IInv'
<1> DEFINE stop == LastOf(At("stop", HeadSeq))
           r == IF stop # None THEN [To(op[p], "basis") EXCEPT !.stop = stop]
                ELSE IF op[p].wish = "COMPLETED" THEN Idle
                ELSE To(op[p], "evaluate")
<1>1. /\ op[p] \in Call /\ Proper(log, op[p]) /\ log \in Seq(Commit)
      /\ DOMAIN log = 1..Len(log) /\ Len(log) \in Nat
  BY CallFacts
<1>2. op[p].pc = "conclude" /\ log' = log /\ Becomes(p, r)
  BY DEF FindStop, Reads
<1>3. stop # None => stop \in DOMAIN log /\ stop \in Nat /\ Is(log, stop, "stop")
  BY <1>1, LastAt DEF At, Is
<1> HIDE DEF stop
<1>4. CASE stop # None
  <2>1. Proper(log, r)
    BY <1>1, <1>2, <1>3, <1>4 DEF Proper, Call, Place, To, Asked, Holds, Missing,
                    AtConclusion, AtCase, AtQualification
  <2> QED BY <1>2, <2>1, ReadKeepsInv
<1>5. CASE stop = None /\ op[p].wish = "COMPLETED"
  BY <1>2, <1>5, IdleProper, ReadKeepsInv
<1>6. CASE stop = None /\ op[p].wish # "COMPLETED"
  <2>1. Proper(log, r)
    BY <1>1, <1>2, <1>6 DEF Proper, Call, Place, To, Asked, Holds, Missing,
                    AtConclusion, AtCase, AtQualification
  <2> QED BY <1>2, <2>1, ReadKeepsInv
<1> QED BY <1>4, <1>5, <1>6

\* The basis check settles a termination state.
LEMMA CheckBasisInv ==
    ASSUME IInv, NEW p \in Operator, CheckBasis(p)
    PROVE  IInv'
<1> DEFINE t == TerminationFor(op[p].wish, op[p].stop)
           r == [To(op[p], "conclusion") EXCEPT !.termination = t]
<1>1. op[p] \in Call /\ Proper(log, op[p])
  BY CallFacts
<1>2. op[p].pc = "basis" /\ log' = log /\ (Becomes(p, r) \/ Becomes(p, Idle))
  BY DEF CheckBasis, Reads
<1>3. op[p].wish \in Wish
  BY <1>1, <1>2 DEF Proper, Asked
<1>4. t \in Termination
  BY <1>3 DEF TerminationFor, Termination
<1> HIDE DEF t
<1>5. Proper(log, r)
  BY <1>1, <1>2, <1>4 DEF Proper, Call, Place, To, Asked, Holds, Missing,
                    AtConclusion, AtCase, AtQualification
<1> QED BY <1>2, <1>5, IdleProper, ReadKeepsInv

\* Call r is call s moved to pc, up to its cut and to what it found.
SameBut(r, s, pc) ==
    /\ r.pc = pc
    /\ r.wish = s.wish /\ r.statement = s.statement /\ r.termination = s.termination
    /\ r.stop = s.stop /\ r.conclusion = s.conclusion /\ r.case = s.case

\* A call finds a conclusion of its STOP, or knows there is none at its cut.
LEMMA ReadConclusionInv ==
    ASSUME IInv, NEW p \in Operator, ReadConclusion(p)
    PROVE  IInv'
<1> DEFINE found == ConclusionFor(op[p])
           r == [To(op[p], "send_conclusion") EXCEPT !.cut = HeadSeq]
           s == [To(op[p], "case") EXCEPT !.conclusion = found]
           S == {n \in At("conclusion", HeadSeq) : log[n].stop = op[p].stop}
<1>1. /\ op[p] \in Call /\ Proper(log, op[p]) /\ log \in Seq(Commit)
      /\ DOMAIN log = 1..Len(log) /\ Len(log) \in Nat /\ HeadSeq = Len(log)
  BY CallFacts DEF HeadSeq
<1>2. /\ op[p].pc = "conclusion" /\ log' = log
      /\ \/ found = None /\ Becomes(p, r)
         \/ found # None /\ log[found].termination = op[p].termination /\ Becomes(p, s)
         \/ Becomes(p, Idle)
  BY DEF ReadConclusion, Reads
<1>3. IF S = {} THEN found = None ELSE found \in S /\ found # None
  <2>1. S \in SUBSET DOMAIN log
    BY DEF At
  <2> HIDE DEF S
  <2>2. found = LastOf(S)
    BY DEF ConclusionFor, S
  <2> QED BY <1>1, <2>1, <2>2, LastAt
<1> HIDE DEF found
<1>4. ASSUME found = None PROVE Proper(log, r)
  <2>1. \A n \in DOMAIN log : Is(log, n, "conclusion") => log[n].stop # op[p].stop
    BY <1>1, <1>3, <1>4 DEF At, Is
  <2>2. SameBut(r, op[p], "send_conclusion") /\ r.cut = Len(log) /\ r \in Call
    BY <1>1 DEF Call, Place, To, SameBut
  <2>3. Asked(r) /\ Holds(log, r)
    BY <1>1, <1>2, <2>2 DEF SameBut, Proper, Asked, Holds, AtConclusion, AtCase,
                            AtQualification
  <2>4. Missing(log, r)
    BY <1>1, <2>1, <2>2 DEF SameBut, Missing
  <2> QED BY <2>2, <2>3, <2>4 DEF Proper
<1>5. ASSUME found # None, log[found].termination = op[p].termination
      PROVE  Proper(log, s)
  <2>1. Is(log, found, "conclusion") /\ log[found].stop = op[p].stop /\ found \in Nat
    BY <1>1, <1>3, <1>5 DEF At, Is
  <2> QED BY <1>1, <1>2, <1>5, <2>1 DEF Proper, Call, Place, To, Asked, Holds, Missing,
                    AtConclusion, AtCase, AtQualification
<1> QED BY <1>2, <1>4, <1>5, IdleProper, ReadKeepsInv

\* A call finds a case of its conclusion, or knows there is none at its cut.
LEMMA ReadCaseInv ==
    ASSUME IInv, NEW p \in Operator, ReadCase(p)
    PROVE  IInv'
<1> DEFINE found == CaseFor(op[p])
           r == [To(op[p], "send_case") EXCEPT !.cut = HeadSeq]
           s == [To(op[p], "qualification") EXCEPT !.case = found]
           S == {n \in At("case", HeadSeq) : /\ log[n].conclusion = op[p].conclusion
                                            /\ log[n].stop = op[p].stop}
<1>1. /\ op[p] \in Call /\ Proper(log, op[p]) /\ log \in Seq(Commit)
      /\ DOMAIN log = 1..Len(log) /\ Len(log) \in Nat /\ HeadSeq = Len(log)
      /\ \A n \in DOMAIN log : Linked(log, n)
  BY CallFacts DEF HeadSeq
<1>2. /\ op[p].pc = "case" /\ log' = log
      /\ \/ found = None /\ Becomes(p, r)
         \/ found # None /\ Becomes(p, s)
         \/ Becomes(p, Idle)
  BY DEF ReadCase, Reads
<1>3. IF S = {} THEN found = None ELSE found \in S /\ found # None
  <2>1. S \in SUBSET DOMAIN log
    BY DEF At
  <2> HIDE DEF S
  <2>2. found = LastOf(S)
    BY DEF CaseFor, S
  <2> QED BY <1>1, <2>1, <2>2, LastAt
<1> HIDE DEF found
<1>4. ASSUME found = None PROVE Proper(log, r)
  \* A final case of this conclusion is about its STOP.
  <2>1. ASSUME NEW n \in DOMAIN log, Is(log, n, "case")
        PROVE  log[n].conclusion # op[p].conclusion
    <3>1. log[op[p].conclusion].stop = op[p].stop
      BY <1>1, <1>2 DEF Proper, Holds, AtCase
    <3>2. log[log[n].conclusion].stop = log[n].stop
      BY <1>1, <2>1 DEF Linked
    <3>3. n \notin S
      BY <1>3, <1>4
    <3> QED BY <1>1, <2>1, <3>1, <3>2, <3>3 DEF At, Is
  <2>2. SameBut(r, op[p], "send_case") /\ r.cut = Len(log) /\ r \in Call
    BY <1>1 DEF Call, Place, To, SameBut
  <2>3. Asked(r) /\ Holds(log, r)
    BY <1>1, <1>2, <2>2 DEF SameBut, Proper, Asked, Holds, AtConclusion, AtCase,
                            AtQualification
  <2>4. Missing(log, r)
    BY <1>1, <2>1, <2>2 DEF SameBut, Missing
  <2> QED BY <2>2, <2>3, <2>4 DEF Proper
<1>5. ASSUME found # None PROVE Proper(log, s)
  <2>1. /\ Is(log, found, "case") /\ found \in Nat
        /\ log[found].conclusion = op[p].conclusion /\ log[found].stop = op[p].stop
    BY <1>1, <1>3, <1>5 DEF At, Is
  <2> QED BY <1>1, <1>2, <1>5, <2>1 DEF Proper, Call, Place, To, Asked, Holds, Missing,
                    AtConclusion, AtCase, AtQualification
<1> QED BY <1>2, <1>4, <1>5, IdleProper, ReadKeepsInv

\* A call finds a qualification of its case, or knows there is none at its cut.
LEMMA ReadQualificationInv ==
    ASSUME IInv, NEW p \in Operator, ReadQualification(p)
    PROVE  IInv'
<1> DEFINE found == QualificationFor(op[p])
           r == [To(op[p], "send_qualification") EXCEPT !.cut = HeadSeq]
           s == [To(op[p], "idle") EXCEPT !.qualification = found]
           S == {n \in At("qualification", HeadSeq) :
                    /\ log[n].conclusion = op[p].conclusion
                    /\ log[n].case = op[p].case
                    /\ log[n].stop = op[p].stop}
<1>1. /\ op[p] \in Call /\ Proper(log, op[p]) /\ log \in Seq(Commit)
      /\ DOMAIN log = 1..Len(log) /\ Len(log) \in Nat /\ HeadSeq = Len(log)
      /\ \A n \in DOMAIN log : Linked(log, n)
  BY CallFacts DEF HeadSeq
<1>2. /\ op[p].pc = "qualification" /\ log' = log
      /\ \/ found = None /\ Becomes(p, r)
         \/ found # None /\ Becomes(p, s)
         \/ Becomes(p, Idle)
  BY DEF ReadQualification, Reads
<1>3. IF S = {} THEN found = None ELSE found \in S /\ found # None
  <2>1. S \in SUBSET DOMAIN log
    BY DEF At
  <2> HIDE DEF S
  <2>2. found = LastOf(S)
    BY DEF QualificationFor, S
  <2> QED BY <1>1, <2>1, <2>2, LastAt
<1> HIDE DEF found
<1>4. ASSUME found = None PROVE Proper(log, r)
  \* A qualification of this case is about its conclusion and its STOP.
  <2>1. ASSUME NEW n \in DOMAIN log, Is(log, n, "qualification")
        PROVE  log[n].case # op[p].case
    <3>1. /\ log[op[p].case].conclusion = op[p].conclusion
          /\ log[op[p].case].stop = op[p].stop
      BY <1>1, <1>2 DEF Proper, Holds, AtQualification
    <3>2. /\ log[log[n].case].conclusion = log[n].conclusion
          /\ log[log[n].case].stop = log[n].stop
      BY <1>1, <2>1 DEF Linked
    <3>3. n \notin S
      BY <1>3, <1>4
    <3> QED BY <1>1, <2>1, <3>1, <3>2, <3>3 DEF At, Is
  <2>2. SameBut(r, op[p], "send_qualification") /\ r.cut = Len(log) /\ r \in Call
    BY <1>1 DEF Call, Place, To, SameBut
  <2>3. Asked(r) /\ Holds(log, r)
    BY <1>1, <1>2, <2>2 DEF SameBut, Proper, Asked, Holds, AtConclusion, AtCase,
                            AtQualification
  <2>4. Missing(log, r)
    BY <1>1, <2>1, <2>2 DEF SameBut, Missing
  <2> QED BY <2>2, <2>3, <2>4 DEF Proper
<1>5. ASSUME found # None PROVE Proper(log, s)
  <2>1. found \in Nat
    BY <1>1, <1>3, <1>5 DEF At
  <2> QED BY <1>1, <1>2, <2>1 DEF Proper, Call, Place, To, Asked, Holds, Missing,
                    AtConclusion, AtCase, AtQualification
<1> QED BY <1>2, <1>4, <1>5, IdleProper, ReadKeepsInv

-----------------------------------------------------------------------------
\* Steps that commit.

\* A commit that is no part of a chain disturbs none.
LEMMA OtherCommit ==
    ASSUME IInv, NEW c \in Commit, c.kind \in {"material", "stop"}
    PROVE  Linked(Append(log, c), Len(log) + 1) /\ Once(Append(log, c))
<1> DEFINE k == Append(log, c)
<1>1. log \in Seq(Commit) /\ Once(log)
  BY DEF IInv, TypeOK
<1>2. /\ DOMAIN log = 1..Len(log) /\ Len(log) \in Nat
      /\ DOMAIN k = DOMAIN log \cup {Len(log) + 1}
      /\ \A i \in DOMAIN log : k[i] = log[i]
      /\ k[Len(log) + 1] = c
  BY <1>1, AppendTyped
<1> HIDE DEF k
<1>3. Linked(k, Len(log) + 1)
  BY <1>2 DEF Linked, Is
<1>4. Once(k)
  BY <1>1, <1>2 DEF Once, Is
<1> QED BY <1>3, <1>4 DEF k

\* Material of other operators keeps the invariant.
LEMMA RecordMaterialInv ==
    ASSUME IInv, RecordMaterial
    PROVE  IInv'
<1>1. log' = Append(log, Material) /\ op' = op
  BY DEF RecordMaterial
<1>2. Material \in Commit /\ Material.kind = "material"
  BY DEF Material, Commit
<1>3. op \in [Operator -> Call]
  BY DEF IInv, TypeOK
<1> QED BY <1>1, <1>2, <1>3, OtherCommit, CommitKeepsInv

\* A STOP is admitted at its own cut and links to nothing.
LEMMA SendStopInv ==
    ASSUME IInv, NEW p \in Operator, NEW verdict \in Verdict, SendStop(p, verdict)
    PROVE  IInv'
<1> DEFINE c == Stop(op[p].cut, verdict)
           r == IF op[p].wish = NoWish THEN Idle ELSE To(op[p], "conclude")
<1>1. op[p] \in Call /\ Proper(log, op[p]) /\ log \in Seq(Commit)
  BY CallFacts
<1>2. Sends(p, "send_stop", c, StopAdmitted(c), r) /\ op[p].pc = "send_stop"
  BY DEF SendStop, Sends
<1>3. op[p].cut \in Nat
  BY <1>1 DEF Call
<1>4. c \in Commit /\ c.kind = "stop"
  <2>1. c \in [kind : {"stop"}, cut : Nat, decision : Verdict]
    BY <1>3 DEF Stop
  <2> QED BY <2>1 DEF Commit
<1>5. Proper(Append(log, c), r)
  <2>1. CASE op[p].wish = NoWish
    BY <2>1, IdleProper
  <2>2. CASE op[p].wish # NoWish
    BY <1>1, <1>2, <2>2 DEF Proper, Call, Place, To, Asked, Holds, Missing,
                    AtConclusion, AtCase, AtQualification
  <2> QED BY <2>1, <2>2
<1>6. Linked(Append(log, c), Len(log) + 1) /\ Once(Append(log, c))
  BY <1>4, OtherCommit
<1>7. StopAdmitted(c) \in BOOLEAN
  BY DEF StopAdmitted, BoundToHead
<1> HIDE DEF c, r
<1> QED BY <1>2, <1>4, <1>5, <1>6, <1>7, SendKeepsInv

\* A conclusion admitted at its cut is the first of its STOP.
LEMMA SendConclusionInv ==
    ASSUME IInv, NEW p \in Operator, SendConclusion(p)
    PROVE  IInv'
<1> DEFINE x == op[p]
           c == Conclusion(x.cut, x.stop, x.termination, x.statement)
           r == [To(x, "case") EXCEPT !.conclusion = HeadSeq + 1]
           k == Append(log, c)
           h == Len(log) + 1
<1>1. /\ x \in Call /\ Proper(log, x) /\ log \in Seq(Commit) /\ Once(log)
      /\ DOMAIN log = 1..Len(log) /\ Len(log) \in Nat /\ HeadSeq = Len(log)
  BY CallFacts DEF HeadSeq
<1>2. Sends(p, "send_conclusion", c, ConclusionAdmitted(c), r) /\ x.pc = "send_conclusion"
  BY DEF SendConclusion, Sends
<1>3. /\ x.cut \in Nat /\ x.stop \in Nat
      /\ x.termination \in Termination /\ x.statement \in Statement
  BY <1>1, <1>2 DEF Proper, Call, Asked, Holds, AtConclusion
<1>4. c \in Commit /\ c.kind = "conclusion"
  <2>1. c \in [kind : {"conclusion"}, cut : Nat, stop : Nat,
                termination : Termination, statement : Statement]
    BY <1>3 DEF Conclusion
  <2> QED BY <2>1 DEF Commit
<1>5. /\ DOMAIN k = DOMAIN log \cup {h} /\ h \notin DOMAIN log /\ h \in Nat
      /\ Len(k) = h /\ k[h] = c
      /\ \A i \in DOMAIN log : k[i] = log[i]
  BY <1>1, <1>4, AppendTyped
<1>6. c.stop = x.stop /\ c.termination = x.termination
  BY DEF Conclusion
<1>7. c.cut = x.cut
  BY DEF Conclusion
<1>8. ASSUME ConclusionAdmitted(c)
      PROVE  Proper(k, r) /\ Linked(k, h) /\ Once(k)
  <2>1. /\ x.cut = Len(log) /\ Is(log, x.stop, "stop")
        /\ x.termination = "COMPLETED" => log[x.stop].decision = "PASS"
    BY <1>1, <1>6, <1>7, <1>8 DEF ConclusionAdmitted, BoundToHead, Basis, Earned, Is
  <2>2. \A n \in DOMAIN log : Is(log, n, "conclusion") => log[n].stop # x.stop
    BY <1>1, <1>2, <2>1 DEF Proper, Missing
  <2>3. /\ r \in Call /\ r.pc = "case" /\ r.conclusion = h /\ r.stop = x.stop
        /\ r.termination = x.termination /\ r.wish = x.wish /\ r.statement = x.statement
    BY <1>1, <1>5 DEF Call, Place, To
  <2> HIDE DEF c, r, k, h, x
  <2>4. Is(k, h, "conclusion") /\ Is(k, x.stop, "stop")
    BY <1>4, <1>5, <2>1 DEF Is
  <2>5. Proper(k, r)
    BY <1>1, <1>2, <1>3, <1>5, <1>6, <2>3, <2>4
       DEF Proper, Asked, Holds, Missing, AtConclusion, AtCase, AtQualification
  <2>6. Linked(k, h)
    BY <1>1, <1>4, <1>5, <1>6, <2>1, <2>4 DEF Linked, Is, h
  <2>7. Once(k)
    BY <1>1, <1>4, <1>5, <1>6, <2>2 DEF Once, Is
  <2> QED BY <2>5, <2>6, <2>7
<1>9. ConclusionAdmitted(c) \in BOOLEAN
  BY DEF ConclusionAdmitted, BoundToHead
<1> HIDE DEF c, r
<1> QED BY <1>2, <1>4, <1>8, <1>9, SendKeepsInv

\* A final case admitted at its cut is the first of its conclusion.
LEMMA SendCaseInv ==
    ASSUME IInv, NEW p \in Operator, SendCase(p)
    PROVE  IInv'
<1> DEFINE x == op[p]
           c == FinalCase(x.cut, x.stop, x.conclusion, x.statement)
           r == [To(x, "qualification") EXCEPT !.case = HeadSeq + 1]
           k == Append(log, c)
           h == Len(log) + 1
<1>1. /\ x \in Call /\ Proper(log, x) /\ log \in Seq(Commit) /\ Once(log)
      /\ DOMAIN log = 1..Len(log) /\ Len(log) \in Nat /\ HeadSeq = Len(log)
  BY CallFacts DEF HeadSeq
<1>2. Sends(p, "send_case", c, CaseAdmitted(c), r) /\ x.pc = "send_case"
  BY DEF SendCase, Sends
<1>3. /\ x.cut \in Nat /\ x.stop \in Nat /\ x.conclusion \in Nat
      /\ x.statement \in Statement
  BY <1>1, <1>2 DEF Proper, Call, Asked
<1>4. c \in Commit /\ c.kind = "case"
  <2>1. c \in [kind : {"case"}, cut : Nat, stop : Nat, conclusion : Nat,
                statement : Statement]
    BY <1>3 DEF FinalCase
  <2> QED BY <2>1 DEF Commit
<1>5. /\ DOMAIN k = DOMAIN log \cup {h} /\ h \notin DOMAIN log /\ h \in Nat
      /\ Len(k) = h /\ k[h] = c
      /\ \A i \in DOMAIN log : k[i] = log[i]
  BY <1>1, <1>4, AppendTyped
<1>6. c.stop = x.stop /\ c.conclusion = x.conclusion /\ c.cut = x.cut
  BY DEF FinalCase
<1>7. ASSUME CaseAdmitted(c)
      PROVE  Proper(k, r) /\ Linked(k, h) /\ Once(k)
  <2>1. /\ x.cut = Len(log) /\ Is(log, x.conclusion, "conclusion")
        /\ log[x.conclusion].stop = x.stop /\ Is(log, x.stop, "stop")
    BY <1>1, <1>6, <1>7 DEF CaseAdmitted, BoundToHead, Basis, At, Is
  <2>2. \A n \in DOMAIN log : Is(log, n, "case") => log[n].conclusion # x.conclusion
    BY <1>1, <1>2, <2>1 DEF Proper, Missing
  <2>3. /\ r \in Call /\ r.pc = "qualification" /\ r.case = h
        /\ r.stop = x.stop /\ r.conclusion = x.conclusion
        /\ r.termination = x.termination /\ r.wish = x.wish /\ r.statement = x.statement
    BY <1>1, <1>5 DEF Call, Place, To
  <2>4. x.termination \in Termination /\ log[x.conclusion].termination = x.termination
    BY <1>1, <1>2 DEF Proper, Holds, AtCase
  <2> HIDE DEF c, r, k, h, x
  <2>5. Is(k, h, "case") /\ Is(k, x.conclusion, "conclusion") /\ Is(k, x.stop, "stop")
    BY <1>4, <1>5, <2>1 DEF Is
  <2>6. Proper(k, r)
    BY <1>1, <1>2, <1>3, <1>5, <1>6, <2>1, <2>3, <2>4, <2>5
       DEF Proper, Asked, Holds, Missing, AtConclusion, AtCase, AtQualification, Is
  <2>7. Linked(k, h)
    BY <1>1, <1>4, <1>5, <1>6, <2>1, <2>5 DEF Linked, Is, h
  <2>8. Once(k)
    BY <1>1, <1>4, <1>5, <1>6, <2>2 DEF Once, Is
  <2> QED BY <2>6, <2>7, <2>8
<1>8. CaseAdmitted(c) \in BOOLEAN
  BY DEF CaseAdmitted, BoundToHead
<1> HIDE DEF c, r
<1> QED BY <1>2, <1>4, <1>7, <1>8, SendKeepsInv

\* A qualification admitted at its cut is the first of its case, and is earned.
LEMMA SendQualificationInv ==
    ASSUME IInv, NEW p \in Operator, SendQualification(p)
    PROVE  IInv'
<1> DEFINE x == op[p]
           c == Qualification(x.cut, x.stop, x.conclusion, x.case, Result(x.termination))
           r == [To(x, "idle") EXCEPT !.qualification = HeadSeq + 1]
           k == Append(log, c)
           h == Len(log) + 1
<1>1. /\ x \in Call /\ Proper(log, x) /\ log \in Seq(Commit) /\ Once(log)
      /\ DOMAIN log = 1..Len(log) /\ Len(log) \in Nat /\ HeadSeq = Len(log)
      /\ \A n \in DOMAIN log : Linked(log, n)
  BY CallFacts DEF HeadSeq
<1>2. /\ Sends(p, "send_qualification", c, QualificationAdmitted(c), r)
      /\ x.pc = "send_qualification"
  BY DEF SendQualification, Sends
<1>3. /\ x.cut \in Nat /\ x.stop \in Nat /\ x.conclusion \in Nat /\ x.case \in Nat
      /\ Result(x.termination) \in {"READY", "QUALIFICATION_BLOCKED"}
  BY <1>1, <1>2 DEF Call, Result
<1>4. c \in Commit /\ c.kind = "qualification"
  <2>1. c \in [kind : {"qualification"}, cut : Nat, stop : Nat, conclusion : Nat,
                case : Nat, result : {"READY", "QUALIFICATION_BLOCKED"}]
    BY <1>3 DEF Qualification
  <2> QED BY <2>1 DEF Commit
<1>5. /\ DOMAIN k = DOMAIN log \cup {h} /\ h \notin DOMAIN log /\ h \in Nat
      /\ Len(k) = h /\ k[h] = c
      /\ \A i \in DOMAIN log : k[i] = log[i]
  BY <1>1, <1>4, AppendTyped
<1>6. /\ c.stop = x.stop /\ c.conclusion = x.conclusion /\ c.case = x.case
      /\ c.cut = x.cut /\ c.result = Result(x.termination)
  BY DEF Qualification
<1>7. ASSUME QualificationAdmitted(c)
      PROVE  Proper(k, r) /\ Linked(k, h) /\ Once(k)
  <2>1. /\ x.cut = Len(log) /\ Is(log, x.case, "case")
        /\ log[x.case].conclusion = x.conclusion /\ log[x.case].stop = x.stop
        /\ Is(log, x.stop, "stop") /\ Fresh(x.stop, Len(log))
    BY <1>1, <1>6, <1>7 DEF QualificationAdmitted, BoundToHead, Basis, At, Is
  <2>2. \A n \in DOMAIN log : Is(log, n, "qualification") => log[n].case # x.case
    BY <1>1, <1>2, <2>1 DEF Proper, Missing
  <2>3. Is(log, x.conclusion, "conclusion")
    BY <1>1, <2>1 DEF Linked, Is
  <2>4. /\ r \in Call /\ r.pc = "idle" /\ r.wish = x.wish /\ r.statement = x.statement
    BY <1>1, <1>5 DEF Call, Place, To
  <2>5. log[x.conclusion].termination = x.termination
    BY <1>1, <1>2 DEF Proper, Holds, AtQualification
  <2> HIDE DEF c, r, k, h, x
  <2>6. /\ Is(k, h, "qualification") /\ Is(k, x.conclusion, "conclusion")
        /\ Is(k, x.case, "case") /\ Is(k, x.stop, "stop")
    BY <1>4, <1>5, <2>1, <2>3 DEF Is
  <2>7. Proper(k, r)
    BY <1>1, <1>2, <2>4
       DEF Proper, Asked, Holds, Missing, AtConclusion, AtCase, AtQualification
  <2>8. FreshIn(k, x.stop, h)
    BY <1>1, <1>4, <1>5, <2>1 DEF Fresh, FreshIn, Is, h
  <2>9. Linked(k, h)
    <3>1. x.case < h
      BY <1>1, <2>1 DEF Is, h
    <3>2. c.result = "READY" => k[x.conclusion].termination = "COMPLETED"
      BY <1>5, <1>6, <2>3, <2>5 DEF Result, Is
    <3> QED BY <1>4, <1>5, <1>6, <2>1, <2>6, <2>8, <3>1, <3>2 DEF Linked, Is
  <2>10. Once(k)
    BY <1>1, <1>4, <1>5, <1>6, <2>2 DEF Once, Is
  <2> QED BY <2>7, <2>9, <2>10
<1>8. QualificationAdmitted(c) \in BOOLEAN
  BY DEF QualificationAdmitted, BoundToHead
<1> HIDE DEF c, r
<1> QED BY <1>2, <1>4, <1>7, <1>8, SendKeepsInv

-----------------------------------------------------------------------------

\* Idle operators over an empty log satisfy the invariant.
LEMMA InitIInv == Init => IInv
<1> SUFFICES ASSUME Init PROVE IInv
  OBVIOUS
<1>1. log = << >> /\ op = [p \in Operator |-> Idle]
  BY DEF Init
<1>2. \A p \in Operator : Proper(log, op[p])
  BY <1>1, IdleProper
<1>3. TypeOK
  BY <1>1, IdleProper DEF TypeOK, Proper
<1> QED BY <1>1, <1>2, <1>3 DEF IInv, Once

\* Every step of every operator keeps the invariant.
LEMMA NextIInv == IInv /\ [Next]_vars => IInv'
<1> SUFFICES ASSUME IInv, [Next]_vars PROVE IInv'
  OBVIOUS
<1>1. CASE UNCHANGED vars
  BY <1>1 DEF vars, IInv, TypeOK
<1>2. CASE RecordMaterial
  BY <1>2, RecordMaterialInv
<1>3. ASSUME NEW p \in Operator, Working(p) PROVE IInv'
  BY <1>3, ReadStopInputInv, SendStopInv, FindStopInv, CheckBasisInv,
     ReadConclusionInv, SendConclusionInv, ReadCaseInv, SendCaseInv,
     ReadQualificationInv, SendQualificationInv DEF Working
<1>4. ASSUME NEW p \in Operator, CallEvaluate(p) PROVE IInv'
  <2>1. log' = log /\ Becomes(p, To(Idle, "evaluate"))
    BY <1>4 DEF CallEvaluate
  <2>2. Proper(log, To(Idle, "evaluate"))
    BY DEF Proper, To, Idle, Call, Place, Asked, Holds, Missing, AtConclusion, AtCase,
           AtQualification, None, NoWish
  <2> QED BY <2>1, <2>2, ReadKeepsInv
<1>5. ASSUME NEW p \in Operator, NEW wish \in Wish, NEW statement \in Statement,
             CallConclude(p, wish, statement)
      PROVE  IInv'
  <2> DEFINE r == [To(Idle, "conclude") EXCEPT !.wish = wish, !.statement = statement]
  <2>1. log' = log /\ Becomes(p, r)
    BY <1>5 DEF CallConclude
  <2>2. Proper(log, r)
    BY DEF Proper, To, Idle, Call, Place, Asked, Holds, Missing, AtConclusion, AtCase,
           AtQualification, None, NoWish
  <2> QED BY <2>1, <2>2, ReadKeepsInv
<1>6. ASSUME NEW p \in Operator, Stopped(p) PROVE IInv'
  BY <1>6, IdleProper, ReadKeepsInv DEF Stopped
<1> QED BY <1>1, <1>2, <1>3, <1>4, <1>5, <1>6 DEF Next

\* The invariant, for any operators, statements, wishes, verdicts and bounds.
THEOREM IInvHolds == Spec => []IInv
  BY InitIInv, NextIInv, PTL DEF Spec

\* The log holds finalization objects in the store's shapes and every call is at
\* a place of the service with the arguments and references of that place.
THEOREM TypeCorrect == Spec => []TypeOK
<1>1. IInv => TypeOK
  BY DEF IInv
<1> QED BY <1>1, IInvHolds, PTL

\* Whatever operators, deaths, repeats and material there are, a release
\* qualification rests on a chain accepted part by part about one fresh STOP,
\* and a READY one on a full conclusion of a STOP that passed.
THEOREM QualificationsAreEarned == Spec => []QualificationIsEarned
<1>1. IInv => QualificationIsEarned
  <2> SUFFICES ASSUME IInv, NEW n \in At("qualification", HeadSeq)
               PROVE  LET q == log[n]
                      IN  /\ q.conclusion \in At("conclusion", q.case - 1)
                          /\ q.case \in At("case", n - 1)
                          /\ q.stop \in At("stop", q.conclusion - 1)
                          /\ log[q.case].conclusion = q.conclusion
                          /\ {log[q.case].stop, log[q.conclusion].stop} = {q.stop}
                          /\ Fresh(q.stop, n)
                          /\ q.result = "READY" =>
                               /\ log[q.conclusion].termination = "COMPLETED"
                               /\ log[q.stop].decision = "PASS"
    BY DEF QualificationIsEarned
  <2> DEFINE q == log[n]
             f == q.case
             k == q.conclusion
             t == q.stop
  <2>1. DOMAIN log = 1..Len(log) /\ Len(log) \in Nat
    BY DEF IInv, TypeOK
  <2>2. Is(log, n, "qualification") /\ n \in Nat
    BY <2>1 DEF At, Is
  <2>3. \A i \in DOMAIN log : Linked(log, i)
    BY DEF IInv
  <2>4. /\ Is(log, f, "case") /\ f < n
        /\ log[f].conclusion = k /\ log[f].stop = t
        /\ FreshIn(log, t, n)
        /\ q.result = "READY" => log[k].termination = "COMPLETED"
    BY <2>2, <2>3 DEF Linked, Is
  <2>5. Is(log, k, "conclusion") /\ k < f /\ log[k].stop = t
    BY <2>3, <2>4 DEF Linked, Is
  <2>6. /\ Is(log, t, "stop") /\ t < k
        /\ log[k].termination = "COMPLETED" => log[t].decision = "PASS"
    BY <2>3, <2>5 DEF Linked, Is
  <2>7. f \in Nat /\ k \in Nat /\ t \in Nat
    BY <2>1, <2>4, <2>5, <2>6 DEF Is
  <2> HIDE DEF q, f, k, t
  <2>8. k \in At("conclusion", f - 1) /\ f \in At("case", n - 1) /\ t \in At("stop", k - 1)
    BY <2>2, <2>4, <2>5, <2>6, <2>7 DEF At, Is
  <2>9. Fresh(t, n)
    BY <2>4 DEF Fresh, FreshIn
  <2> QED BY <2>4, <2>5, <2>6, <2>8, <2>9 DEF q, f, k, t
<1> QED BY <1>1, IInvHolds, PTL

\* No race, death or repeat makes a second conclusion of a STOP, a second final
\* case of a conclusion, or a second qualification of a case.
THEOREM ChainsAreSingle == Spec => []OneChainPerStop
<1>1. IInv => OneChainPerStop
  BY DEF IInv, Once, OneChainPerStop, At, Is
<1> QED BY <1>1, IInvHolds, PTL

-----------------------------------------------------------------------------
\* What a call returns.  SInv says of a call that it holds what its caller asked
\* for, and of a call that returned a qualification that the chain it names says
\* so too.  The log only grows, so it goes on saying it.

Grows(l, k) == DOMAIN l \subseteq DOMAIN k /\ \A n \in DOMAIN l : k[n] = l[n]

\* The chain a returned call names.
Returned(l, r) ==
    /\ Is(l, r.qualification, "qualification")
    /\ Is(l, r.case, "case") /\ Is(l, r.conclusion, "conclusion")
    /\ l[r.qualification].case = r.case
    /\ l[r.qualification].conclusion = r.conclusion
    /\ l[r.case].statement = r.statement
    /\ l[r.conclusion].statement = r.statement
    /\ r.wish # "DERIVED" => l[r.conclusion].termination = r.wish

Faithful(l, r) ==
    /\ r.pc \in AtConclusion \cup AtCase \cup AtQualification /\ r.wish # "DERIVED"
         => r.termination = r.wish
    /\ r.pc \in AtCase \cup AtQualification => l[r.conclusion].statement = r.statement
    /\ r.pc \in AtQualification => l[r.case].statement = r.statement
    /\ r.qualification # None => r.pc = "idle" /\ Returned(l, r)

SInv == \A p \in Operator : Faithful(log, op[p])

\* An appended log is a grown one.
LEMMA AppendGrows ==
    ASSUME NEW l \in Seq(Commit), NEW c
    PROVE  /\ Grows(l, Append(l, c))
           /\ Len(l) + 1 \in DOMAIN Append(l, c)
           /\ Append(l, c)[Len(l) + 1] = c
<1>1. l \in Seq(Commit \cup {c}) /\ c \in Commit \cup {c}
  OBVIOUS
<1> QED BY <1>1 DEF Grows

\* What is said of a call is said of it in every later log.
LEMMA GrowthKeepsFaith ==
    ASSUME NEW l, NEW k, Grows(l, k), NEW r, Proper(l, r), Faithful(l, r)
    PROVE  Faithful(k, r)
<1>1. r.pc \in AtCase \cup AtQualification => r.conclusion \in DOMAIN l
  BY DEF Proper, Holds, Is
<1>2. r.pc \in AtQualification => r.case \in DOMAIN l
  BY DEF Proper, Holds, Is
<1>3. Returned(l, r) => Returned(k, r)
  BY DEF Returned, Is, Grows
<1> QED BY <1>1, <1>2, <1>3 DEF Faithful, Grows

\* A step of one call keeps SInv if the call it leaves says what it should.
LEMMA StepKeepsFaith ==
    ASSUME IInv, SInv, NEW p \in Operator, NEW r, Becomes(p, r), Grows(log, log'),
           Faithful(log', r)
    PROVE  SInv'
<1>1. \A q \in Operator : Faithful(log', op[q])
  BY CallFacts, GrowthKeepsFaith DEF SInv
<1>2. \A q \in Operator : op'[q] = op[q] \/ op'[q] = r
  BY CallFacts DEF Becomes
<1> QED BY <1>1, <1>2 DEF SInv

\* A call that is over and returned nothing says nothing.
LEMMA IdleFaithful == \A l : Faithful(l, Idle)
  BY DEF Faithful, Idle, AtConclusion, AtCase, AtQualification, None

\* A command from one call, refused or accepted.
LEMMA SendKeepsFaith ==
    ASSUME IInv, SInv, NEW p \in Operator, NEW pc, NEW c, NEW r,
           NEW admitted \in BOOLEAN, Sends(p, pc, c, admitted, r),
           admitted => Faithful(Append(log, c), r)
    PROVE  SInv'
<1>1. log \in Seq(Commit)
  BY CallFacts
<1>2. CASE admitted
  BY <1>1, <1>2, AppendGrows, StepKeepsFaith DEF Sends
<1>3. CASE ~admitted
  BY <1>3, IdleFaithful, StepKeepsFaith DEF Sends, Grows
<1> QED BY <1>2, <1>3

\* A reading step that moves a call to an earlier place than its conclusion.
LEMMA EarlyFaithful ==
    ASSUME NEW l, NEW r, r.qualification = None,
           r.pc \notin AtConclusion \cup AtCase \cup AtQualification
    PROVE  Faithful(l, r)
  BY DEF Faithful

\* Before the termination state is settled a call says nothing yet.
LEMMA EarlySteps ==
    ASSUME IInv, SInv, NEW p \in Operator,
           \/ ReadStopInput(p) \/ FindStop(p) \/ CallEvaluate(p) \/ Stopped(p)
           \/ \E wish \in Wish, statement \in Statement : CallConclude(p, wish, statement)
    PROVE  SInv'
<1>1. op[p] \in Call /\ Faithful(log, op[p]) /\ Idle \in Call
  BY CallFacts, IdleProper DEF SInv, Proper
<1>2. ASSUME NEW r, Becomes(p, r), log' = log, r.qualification = None,
             r.pc \notin AtConclusion \cup AtCase \cup AtQualification
      PROVE  SInv'
  BY <1>2, EarlyFaithful, StepKeepsFaith DEF Grows
<1>3. CASE ReadStopInput(p)
  <2> DEFINE r == [To(op[p], "send_stop") EXCEPT !.cut = HeadSeq]
  <2>1. Becomes(p, r) /\ log' = log /\ op[p].pc = "evaluate"
    BY <1>3 DEF ReadStopInput, Reads
  <2>2. r.qualification = None /\ r.pc = "send_stop"
    BY <1>1, <2>1 DEF To, Call, Faithful
  <2> QED BY <1>2, <2>1, <2>2 DEF AtConclusion, AtCase, AtQualification
<1>4. CASE FindStop(p)
  <2> DEFINE stop == LastOf(At("stop", HeadSeq))
             r == [To(op[p], "basis") EXCEPT !.stop = stop]
             s == To(op[p], "evaluate")
  <2>1. /\ log' = log /\ op[p].pc = "conclude"
        /\ Becomes(p, r) \/ Becomes(p, Idle) \/ Becomes(p, s)
    BY <1>4 DEF FindStop, Reads
  <2>2. r.qualification = None /\ r.pc = "basis" /\ s.qualification = None /\ s.pc = "evaluate"
    BY <1>1, <2>1 DEF To, Call, Faithful
  <2>3. Idle.qualification = None /\ Idle.pc = "idle"
    BY DEF Idle
  <2> HIDE DEF r, s
  <2> QED BY <1>2, <2>1, <2>2, <2>3 DEF AtConclusion, AtCase, AtQualification
<1>5. CASE CallEvaluate(p)
  <2>1. Becomes(p, To(Idle, "evaluate")) /\ log' = log
    BY <1>5 DEF CallEvaluate
  <2>2. To(Idle, "evaluate").qualification = None /\ To(Idle, "evaluate").pc = "evaluate"
    BY DEF To, Idle
  <2> QED BY <1>2, <2>1, <2>2 DEF AtConclusion, AtCase, AtQualification
<1>6. CASE Stopped(p)
  BY <1>6, IdleFaithful, StepKeepsFaith DEF Stopped, Grows
<1>7. ASSUME NEW wish \in Wish, NEW statement \in Statement,
             CallConclude(p, wish, statement)
      PROVE  SInv'
  <2> DEFINE r == [To(Idle, "conclude") EXCEPT !.wish = wish, !.statement = statement]
  <2>1. Becomes(p, r) /\ log' = log
    BY <1>7 DEF CallConclude
  <2>2. r.qualification = None /\ r.pc = "conclude"
    BY DEF To, Idle
  <2> HIDE DEF r
  <2> QED BY <1>2, <2>1, <2>2 DEF AtConclusion, AtCase, AtQualification
<1> QED BY <1>3, <1>4, <1>5, <1>6, <1>7

\* The termination state settled is the one asked for, unless it is derived.
LEMMA CheckBasisFaith ==
    ASSUME IInv, SInv, NEW p \in Operator, CheckBasis(p)
    PROVE  SInv'
<1> DEFINE t == TerminationFor(op[p].wish, op[p].stop)
           r == [To(op[p], "conclusion") EXCEPT !.termination = t]
<1>1. op[p] \in Call /\ Faithful(log, op[p])
  BY CallFacts DEF SInv
<1>2. op[p].pc = "basis" /\ log' = log /\ (Becomes(p, r) \/ Becomes(p, Idle))
  BY DEF CheckBasis, Reads
<1>3. op[p].wish # "DERIVED" => t = op[p].wish
  BY DEF TerminationFor
<1> HIDE DEF t
<1>4. /\ r.pc = "conclusion" /\ r.wish = op[p].wish /\ r.termination = t
      /\ r.qualification = None
  BY <1>1, <1>2 DEF Call, To, Faithful
<1> HIDE DEF r
<1>5. Faithful(log, r)
  BY <1>3, <1>4 DEF Faithful, AtCase, AtQualification
<1> QED BY <1>2, <1>5, IdleFaithful, StepKeepsFaith DEF Grows

\* A conclusion taken over makes the caller's statement.
LEMMA ReadConclusionFaith ==
    ASSUME IInv, SInv, NEW p \in Operator, ReadConclusion(p)
    PROVE  SInv'
<1> DEFINE found == ConclusionFor(op[p])
           r == [To(op[p], "send_conclusion") EXCEPT !.cut = HeadSeq]
           s == [To(op[p], "case") EXCEPT !.conclusion = found]
<1>1. op[p] \in Call /\ Faithful(log, op[p])
  BY CallFacts DEF SInv
<1>2. /\ op[p].pc = "conclusion" /\ log' = log
      /\ \/ Becomes(p, r)
         \/ log[found].statement = op[p].statement /\ Becomes(p, s)
         \/ Becomes(p, Idle)
  BY DEF ReadConclusion, Reads
<1> HIDE DEF found
<1>3. /\ r.pc = "send_conclusion" /\ r.wish = op[p].wish
      /\ r.termination = op[p].termination /\ r.qualification = None
      /\ s.pc = "case" /\ s.wish = op[p].wish /\ s.statement = op[p].statement
      /\ s.termination = op[p].termination /\ s.qualification = None
      /\ s.conclusion = found
  BY <1>1, <1>2 DEF Call, To, Faithful
<1> HIDE DEF r, s
<1>4. op[p].wish # "DERIVED" => op[p].termination = op[p].wish
  BY <1>1, <1>2 DEF Faithful, AtConclusion
<1>5. Faithful(log, r)
  BY <1>3, <1>4 DEF Faithful, AtCase, AtQualification
<1>6. log[found].statement = op[p].statement => Faithful(log, s)
  BY <1>3, <1>4 DEF Faithful, AtQualification
<1> QED BY <1>2, <1>5, <1>6, IdleFaithful, StepKeepsFaith DEF Grows

\* A final case taken over makes it too.
LEMMA ReadCaseFaith ==
    ASSUME IInv, SInv, NEW p \in Operator, ReadCase(p)
    PROVE  SInv'
<1> DEFINE found == CaseFor(op[p])
           r == [To(op[p], "send_case") EXCEPT !.cut = HeadSeq]
           s == [To(op[p], "qualification") EXCEPT !.case = found]
<1>1. op[p] \in Call /\ Faithful(log, op[p])
  BY CallFacts DEF SInv
<1>2. /\ op[p].pc = "case" /\ log' = log
      /\ \/ Becomes(p, r)
         \/ log[found].statement = op[p].statement /\ Becomes(p, s)
         \/ Becomes(p, Idle)
  BY DEF ReadCase, Reads
<1> HIDE DEF found
<1>3. /\ r.pc = "send_case" /\ r.wish = op[p].wish /\ r.statement = op[p].statement
      /\ r.termination = op[p].termination /\ r.qualification = None
      /\ r.conclusion = op[p].conclusion
      /\ s.pc = "qualification" /\ s.wish = op[p].wish
      /\ s.statement = op[p].statement
      /\ s.termination = op[p].termination /\ s.qualification = None
      /\ s.conclusion = op[p].conclusion /\ s.case = found
  BY <1>1, <1>2 DEF Call, To, Faithful
<1> HIDE DEF r, s
<1>4. /\ op[p].wish # "DERIVED" => op[p].termination = op[p].wish
      /\ log[op[p].conclusion].statement = op[p].statement
  BY <1>1, <1>2 DEF Faithful, AtCase
<1>5. Faithful(log, r)
  BY <1>3, <1>4 DEF Faithful, AtQualification
<1>6. log[found].statement = op[p].statement => Faithful(log, s)
  BY <1>3, <1>4 DEF Faithful
<1> QED BY <1>2, <1>5, <1>6, IdleFaithful, StepKeepsFaith DEF Grows

\* What a call at its qualification holds is what it will return.
LEMMA HeldIsReturned ==
    ASSUME NEW l, NEW x, Proper(l, x), Faithful(l, x), x.pc \in AtQualification,
           NEW k, Grows(l, k), NEW r, NEW q, Is(k, q, "qualification"),
           k[q].case = x.case, k[q].conclusion = x.conclusion,
           r.pc = "idle", r.qualification = q, r.case = x.case,
           r.conclusion = x.conclusion, r.statement = x.statement, r.wish = x.wish
    PROVE  Faithful(k, r)
<1>1. Is(l, x.case, "case") /\ Is(l, x.conclusion, "conclusion")
  BY DEF Proper, Holds
<1>2. /\ l[x.case].statement = x.statement /\ l[x.conclusion].statement = x.statement
      /\ l[x.conclusion].termination = x.termination
      /\ x.wish # "DERIVED" => x.termination = x.wish
  BY DEF Faithful, Proper, Holds
<1>3. Returned(k, r)
  BY <1>1, <1>2 DEF Returned, Is, Grows
<1> QED BY <1>3 DEF Faithful, AtConclusion, AtCase, AtQualification

\* A qualification taken over is one of the chain the call holds.
LEMMA ReadQualificationFaith ==
    ASSUME IInv, SInv, NEW p \in Operator, ReadQualification(p)
    PROVE  SInv'
<1> DEFINE x == op[p]
           found == QualificationFor(x)
           r == [To(x, "send_qualification") EXCEPT !.cut = HeadSeq]
           s == [To(x, "idle") EXCEPT !.qualification = found]
           S == {n \in At("qualification", HeadSeq) : /\ log[n].conclusion = x.conclusion
                                                     /\ log[n].case = x.case
                                                     /\ log[n].stop = x.stop}
<1>1. /\ x \in Call /\ Faithful(log, x) /\ Proper(log, x) /\ log \in Seq(Commit)
  BY CallFacts DEF SInv
<1>2. /\ x.pc = "qualification" /\ log' = log
      /\ \/ Becomes(p, r)
         \/ found # None /\ Becomes(p, s)
         \/ Becomes(p, Idle)
  BY DEF ReadQualification, Reads
<1>3. found # None => found \in S
  <2>1. S \in SUBSET DOMAIN log
    BY DEF At
  <2> HIDE DEF S
  <2>2. found = LastOf(S)
    BY DEF QualificationFor, S
  <2> QED BY <1>1, <2>1, <2>2, LastAt
<1>4. found # None => /\ Is(log, found, "qualification") /\ log[found].case = x.case
                      /\ log[found].conclusion = x.conclusion
  BY <1>3 DEF At, Is
<1> HIDE DEF found
<1>5. /\ r.pc = "send_qualification" /\ r.wish = x.wish /\ r.statement = x.statement
      /\ r.termination = x.termination /\ r.qualification = None
      /\ r.conclusion = x.conclusion /\ r.case = x.case
      /\ s.pc = "idle" /\ s.wish = x.wish /\ s.statement = x.statement
      /\ s.qualification = found /\ s.conclusion = x.conclusion /\ s.case = x.case
  BY <1>1, <1>2 DEF Call, To, Faithful
<1> HIDE DEF r, s, x
<1>6. Faithful(log, r)
  BY <1>1, <1>2, <1>5 DEF Faithful, AtConclusion, AtCase, AtQualification
<1>7. Grows(log, log) /\ x.pc \in AtQualification
  BY <1>2 DEF Grows, AtQualification
<1>8. found # None => Faithful(log, s)
  BY <1>1, <1>4, <1>5, <1>7, HeldIsReturned
<1> QED BY <1>2, <1>6, <1>8, IdleFaithful, StepKeepsFaith DEF Grows

\* The parts a call sends say what it was asked to say.
LEMMA SendFaith ==
    ASSUME IInv, SInv, NEW p \in Operator,
           \/ \E verdict \in Verdict : SendStop(p, verdict)
           \/ SendConclusion(p) \/ SendCase(p) \/ SendQualification(p)
    PROVE  SInv'
<1> DEFINE x == op[p]
           h == HeadSeq + 1
<1>1. /\ x \in Call /\ Faithful(log, x) /\ Proper(log, x) /\ log \in Seq(Commit)
      /\ h = Len(log) + 1
  BY CallFacts DEF SInv, HeadSeq
<1>2. ASSUME NEW c
      PROVE  /\ Grows(log, Append(log, c)) /\ h \in DOMAIN Append(log, c)
             /\ Append(log, c)[h] = c
  BY <1>1, AppendGrows
<1>3. ASSUME NEW verdict \in Verdict, SendStop(p, verdict) PROVE SInv'
  <2> DEFINE c == Stop(x.cut, verdict)
             r == IF x.wish = NoWish THEN Idle ELSE To(x, "conclude")
  <2>1. Sends(p, "send_stop", c, StopAdmitted(c), r) /\ x.pc = "send_stop"
    BY <1>3 DEF SendStop, Sends
  <2>2. r.qualification = None /\ r.pc \in {"idle", "conclude"}
    BY <1>1, <2>1 DEF Call, To, Faithful, Idle
  <2>3. StopAdmitted(c) \in BOOLEAN
    BY DEF StopAdmitted, BoundToHead
  <2> HIDE DEF c, r
  <2>4. Faithful(Append(log, c), r)
    BY <2>2, EarlyFaithful DEF AtConclusion, AtCase, AtQualification
  <2> QED BY <2>1, <2>3, <2>4, SendKeepsFaith
<1>4. CASE SendConclusion(p)
  <2> DEFINE c == Conclusion(x.cut, x.stop, x.termination, x.statement)
             r == [To(x, "case") EXCEPT !.conclusion = h]
  <2>1. Sends(p, "send_conclusion", c, ConclusionAdmitted(c), r) /\ x.pc = "send_conclusion"
    BY <1>4 DEF SendConclusion, Sends
  <2>2. /\ r.pc = "case" /\ r.wish = x.wish /\ r.statement = x.statement
        /\ r.termination = x.termination /\ r.conclusion = h /\ r.qualification = None
    BY <1>1, <2>1 DEF Call, To, Faithful
  <2>3. c.statement = x.statement
    BY DEF Conclusion
  <2>4. ConclusionAdmitted(c) \in BOOLEAN
    BY DEF ConclusionAdmitted, BoundToHead
  <2> HIDE DEF c, r
  <2>5. Append(log, c)[h].statement = x.statement
    BY <1>2, <2>3
  <2>6. Faithful(Append(log, c), r)
    BY <1>1, <2>1, <2>2, <2>5 DEF Faithful, AtConclusion, AtQualification
  <2> QED BY <2>1, <2>4, <2>6, SendKeepsFaith
<1>5. CASE SendCase(p)
  <2> DEFINE c == FinalCase(x.cut, x.stop, x.conclusion, x.statement)
             r == [To(x, "qualification") EXCEPT !.case = h]
  <2>1. Sends(p, "send_case", c, CaseAdmitted(c), r) /\ x.pc = "send_case"
    BY <1>5 DEF SendCase, Sends
  <2>2. /\ r.pc = "qualification" /\ r.wish = x.wish /\ r.statement = x.statement
        /\ r.termination = x.termination /\ r.conclusion = x.conclusion /\ r.case = h
        /\ r.qualification = None
    BY <1>1, <2>1 DEF Call, To, Faithful
  <2>3. c.statement = x.statement
    BY DEF FinalCase
  <2>4. CaseAdmitted(c) \in BOOLEAN
    BY DEF CaseAdmitted, BoundToHead
  <2>5. x.conclusion \in DOMAIN log /\ log[x.conclusion].statement = x.statement
    BY <1>1, <2>1 DEF Proper, Holds, Faithful, AtCase, Is
  <2> HIDE DEF c, r, x
  <2>6. /\ Append(log, c)[h].statement = x.statement
        /\ Append(log, c)[x.conclusion].statement = x.statement
    BY <1>2, <2>3, <2>5 DEF Grows
  <2>7. Faithful(Append(log, c), r)
    BY <1>1, <2>1, <2>2, <2>6 DEF Faithful, AtCase
  <2> QED BY <2>1, <2>4, <2>7, SendKeepsFaith DEF x
<1>6. CASE SendQualification(p)
  <2> DEFINE c == Qualification(x.cut, x.stop, x.conclusion, x.case, Result(x.termination))
             r == [To(x, "idle") EXCEPT !.qualification = h]
  <2>1. /\ Sends(p, "send_qualification", c, QualificationAdmitted(c), r)
        /\ x.pc = "send_qualification"
    BY <1>6 DEF SendQualification, Sends
  <2>2. /\ r.pc = "idle" /\ r.wish = x.wish /\ r.statement = x.statement
        /\ r.conclusion = x.conclusion /\ r.case = x.case /\ r.qualification = h
    BY <1>1 DEF Call, To
  <2>3. c.kind = "qualification" /\ c.case = x.case /\ c.conclusion = x.conclusion
    BY DEF Qualification
  <2>4. QualificationAdmitted(c) \in BOOLEAN
    BY DEF QualificationAdmitted, BoundToHead
  <2> HIDE DEF c, r, x, h
  <2>5. /\ Is(Append(log, c), h, "qualification") /\ Append(log, c)[h].case = x.case
        /\ Append(log, c)[h].conclusion = x.conclusion
    BY <1>2, <2>3 DEF Is
  <2>6. x.pc \in AtQualification
    BY <2>1 DEF AtQualification
  <2>7. Faithful(Append(log, c), r)
    BY <1>1, <1>2, <2>2, <2>5, <2>6, HeldIsReturned
  <2> QED BY <2>1, <2>4, <2>7, SendKeepsFaith DEF x
<1> QED BY <1>3, <1>4, <1>5, <1>6

\* Every step of every operator keeps it.
LEMMA NextSInv == IInv /\ SInv /\ [Next]_vars => SInv'
<1> SUFFICES ASSUME IInv, SInv, [Next]_vars PROVE SInv'
  OBVIOUS
<1>1. CASE UNCHANGED vars
  BY <1>1 DEF vars, SInv
<1>2. CASE RecordMaterial
  <2>1. log' = Append(log, Material) /\ op' = op /\ log \in Seq(Commit)
    BY <1>2 DEF RecordMaterial, IInv, TypeOK
  <2>2. \A q \in Operator : Faithful(log', op[q])
    BY <2>1, AppendGrows, CallFacts, GrowthKeepsFaith DEF SInv
  <2> QED BY <2>1, <2>2 DEF SInv
<1>3. ASSUME NEW p \in Operator,
             \/ Working(p) \/ CallEvaluate(p) \/ Stopped(p)
             \/ \E wish \in Wish, statement \in Statement : CallConclude(p, wish, statement)
      PROVE  SInv'
  BY <1>3, EarlySteps, CheckBasisFaith, ReadConclusionFaith, ReadCaseFaith,
     ReadQualificationFaith, SendFaith DEF Working
<1> QED BY <1>1, <1>2, <1>3 DEF Next

\* What calls hold and return is what they were asked for.
THEOREM SInvHolds == Spec => []SInv
<1>1. Init => SInv
  BY IdleFaithful DEF Init, SInv
<1> QED BY <1>1, IInvHolds, NextSInv, PTL DEF Spec

\* One terminal conclusion has at most one final case, and that at most one
\* qualification, and they bind each other: the status never shows a conflict.
LEMMA NoConflict ==
    ASSUME IInv, NEW cut \in Nat
    PROVE  Progress(cut) \notin {"FINAL_CASE_BINDING_CONFLICT",
                                 "RELEASE_WITHOUT_FINAL_CASE",
                                 "RELEASE_QUALIFICATION_BINDING_CONFLICT"}
<1> DEFINE terminal == {n \in At("conclusion", cut) : log[n].termination # "OPEN"}
           k        == LastOf(terminal)
           cases    == {n \in At("case", cut) : log[n].conclusion = k}
           goodCase == {n \in cases : log[n].stop = log[k].stop /\ n > k}
           f        == LastOf(goodCase)
           releases == {n \in At("qualification", cut) : log[n].conclusion = k}
           goodRelease == {n \in releases : /\ log[n].case = f
                                            /\ log[n].stop = log[k].stop
                                            /\ n > f}
<1>1. /\ log \in Seq(Commit) /\ DOMAIN log = 1..Len(log) /\ Len(log) \in Nat
      /\ \A n \in DOMAIN log : Linked(log, n)
      /\ Once(log)
  BY DEF IInv, TypeOK
<1>2. goodCase = cases
  <2>1. ASSUME NEW n \in cases PROVE log[n].stop = log[k].stop /\ n > k
    <3>1. n \in DOMAIN log /\ Is(log, n, "case") /\ log[n].conclusion = k
      BY DEF At, Is
    <3>2. Is(log, k, "conclusion") /\ k < n /\ log[k].stop = log[n].stop
      BY <1>1, <3>1 DEF Linked
    <3>3. k \in Nat /\ n \in Nat
      BY <1>1, <3>1, <3>2 DEF Is
    <3> QED BY <3>2, <3>3
  <2> QED BY <2>1
<1>3. \A m, n \in cases : m = n
  BY <1>1 DEF Once, At, Is
<1>4. cases # {} => f \in cases /\ Cardinality(cases) = 1
  <2>1. cases \in SUBSET DOMAIN log
    BY DEF At
  <2> HIDE DEF cases
  <2>2. cases # {} => f \in cases
    BY <1>1, <1>2, <2>1, LastAt
  <2>3. cases # {} => cases = {f}
    BY <1>3, <2>2
  <2> QED BY <2>2, <2>3, FS_Singleton
<1>5. \A n \in releases : /\ log[n].case \in cases /\ log[n].case < n
                          /\ log[n].stop = log[log[n].case].stop
  <2> TAKE n \in releases
  <2>1. n \in DOMAIN log /\ Is(log, n, "qualification") /\ log[n].conclusion = k
        /\ n <= cut /\ n \in Nat
    BY <1>1 DEF At, Is
  <2>2. /\ Is(log, log[n].case, "case") /\ log[n].case < n
        /\ log[log[n].case].conclusion = k /\ log[log[n].case].stop = log[n].stop
    BY <1>1, <2>1 DEF Linked
  <2>3. log[n].case \in Nat
    BY <1>1, <2>2 DEF Is
  <2> QED BY <2>1, <2>2, <2>3 DEF At, Is
<1>6. goodRelease = releases
  <2>1. ASSUME NEW n \in releases
        PROVE  log[n].case = f /\ log[n].stop = log[k].stop /\ n > f
    <3>1. log[n].case \in cases /\ log[n].case < n
          /\ log[n].stop = log[log[n].case].stop
      BY <1>5
    <3>2. log[n].case = f
      BY <1>3, <1>4, <3>1
    <3>3. log[f].stop = log[k].stop
      BY <1>2, <3>1, <3>2
    <3>4. n \in DOMAIN log /\ log[n].case \in DOMAIN log
      BY <3>1 DEF At
    <3> HIDE DEF f, releases, cases
    <3>5. n \in Nat /\ f \in Nat
      BY <1>1, <3>2, <3>4
    <3> QED BY <3>1, <3>2, <3>3, <3>5
  <2> QED BY <2>1
<1>7. \A m, n \in releases : m = n
  <2> TAKE m, n \in releases
  <2>1. log[m].case = log[n].case
    BY <1>3, <1>5
  <2> QED BY <1>1, <2>1 DEF Once, At, Is
<1>8. releases # {} => Cardinality(releases) = 1
  <2> HIDE DEF releases
  <2>1. ASSUME NEW n \in releases PROVE releases = {n}
    BY <1>7
  <2> QED BY <2>1, FS_Singleton
<1>9. releases # {} => cases # {}
  BY <1>5
<1>10. Progress(cut) = IF At("conclusion", cut) = {} THEN "NOT_STARTED"
        ELSE IF terminal = {} THEN "NOT_TERMINAL"
        ELSE IF terminal # {k} THEN "MULTIPLE_TERMINAL_CONCLUSIONS"
        ELSE IF cases # {} /\ ~(Cardinality(cases) = 1 /\ goodCase = cases)
        THEN "FINAL_CASE_BINDING_CONFLICT"
        ELSE IF cases = {}
        THEN IF releases = {} THEN "FINAL_CASE_PENDING" ELSE "RELEASE_WITHOUT_FINAL_CASE"
        ELSE IF releases # {} /\ ~(Cardinality(releases) = 1 /\ goodRelease = releases)
        THEN "RELEASE_QUALIFICATION_BINDING_CONFLICT"
        ELSE IF releases = {} THEN "RELEASE_QUALIFICATION_PENDING" ELSE "COMPLETE"
  BY DEF Progress
<1> HIDE DEF terminal, k, cases, goodCase, f, releases, goodRelease
<1> QED BY <1>2, <1>4, <1>6, <1>8, <1>9, <1>10

\* A call that returned SUCCESS named an accepted chain that says what its caller
\* asked for, whoever made the parts, and the status shows no part that does not
\* fit (finalization_service.py:376-389, 541-554; read_models.py:70-225).
THEOREM CallersGetWhatTheyAsked == Spec => []SuccessIsAsAsked
<1>1. IInv /\ SInv => SuccessIsAsAsked
  <2> SUFFICES ASSUME IInv, SInv PROVE SuccessIsAsAsked
    OBVIOUS
  <2>1. /\ DOMAIN log = 1..Len(log) /\ Len(log) \in Nat /\ HeadSeq = Len(log)
    BY DEF IInv, TypeOK, HeadSeq
  <2>2. Progress(HeadSeq) \notin {"FINAL_CASE_BINDING_CONFLICT",
                                  "RELEASE_WITHOUT_FINAL_CASE",
                                  "RELEASE_QUALIFICATION_BINDING_CONFLICT"}
    BY <2>1, NoConflict
  <2>3. \A p \in Operator : op[p].qualification # None => Returned(log, op[p])
    BY DEF SInv, Faithful
  <2> QED BY <2>1, <2>2, <2>3 DEF SuccessIsAsAsked, Returned, At, Is
<1> QED BY <1>1, IInvHolds, SInvHolds, PTL
===============================================================================
