------------------------------ MODULE Finalization ------------------------------
(***************************************************************************)
(* The end of a campaign (assurance/finalization_service.py): operators,   *)
(* each a process over the same history, evaluate the STOP gate and        *)
(* conclude.  Concluding is three commits, the conclusion, the final       *)
(* assurance case and the release qualification, each bound to a cut that  *)
(* holds the one before; a call looks for what an earlier call left and    *)
(* goes on from there.  Other operators go on recording audit material.    *)
(*                                                                         *)
(* accept() is one indivisible step, as HistoryStoreProofs shows it is.  A *)
(* reference to an accepted object is the sequence number of its commit    *)
(* (the identifiers in these objects are fresh).                           *)
(***************************************************************************)
EXTENDS Naturals, Sequences, FiniteSets

CONSTANTS
    Operator,       \* processes that call the service
    Statement,      \* bounded statements a conclusion can make
    Wish,           \* termination states callers ask for, or "DERIVED"
    Verdict,        \* what evaluations at one cut can come to: the caller chooses
                    \* the candidate case and the challengers they look at
    MaxMaterial,    \* bound on material commits
    MaxStops        \* evaluations are called for while there are fewer STOPs

Termination == {"OPEN", "COMPLETED", "COMPLETED_LIMITED"}

ASSUME FinalizationAssumption ==
    /\ Wish \subseteq Termination \cup {"DERIVED"}
    /\ Verdict \subseteq {"PASS", "BLOCKED"}
    /\ MaxMaterial \in Nat /\ MaxStops \in Nat

VARIABLES
    log,    \* accepted commits since the audit work that came before
    op      \* each operator: its place in the call it is in

vars == <<log, op>>

-----------------------------------------------------------------------------
\* Commits.  PASS stands for a pass with adequate assurance and the challengers
\* closed, BLOCKED for every other decision.  None is "no reference".

None == 0

Material              == [kind |-> "material"]
Stop(c, d)            == [kind |-> "stop", cut |-> c, decision |-> d]
Conclusion(c,s,t,w)   == [kind |-> "conclusion", cut |-> c, stop |-> s,
                          termination |-> t, statement |-> w]
FinalCase(c,s,k,w)    == [kind |-> "case", cut |-> c, stop |-> s, conclusion |-> k,
                          statement |-> w]
Qualification(c,s,k,f,r) == [kind |-> "qualification", cut |-> c, stop |-> s,
                             conclusion |-> k, case |-> f, result |-> r]

Commit ==
    {Material}
      \cup [kind : {"stop"}, cut : Nat, decision : Verdict]
      \cup [kind : {"conclusion"}, cut : Nat, stop : Nat,
            termination : Termination, statement : Statement]
      \cup [kind : {"case"}, cut : Nat, stop : Nat, conclusion : Nat,
            statement : Statement]
      \cup [kind : {"qualification"}, cut : Nat, stop : Nat, conclusion : Nat,
            case : Nat, result : {"READY", "QUALIFICATION_BLOCKED"}]

\* accepted_records of one kind at a cut.
At(kind, cut) == {n \in DOMAIN log : n <= cut /\ log[n].kind = kind}

\* The last of a set of commits (_latest); None of no commits.
LastOf(S) == IF S = {} THEN None ELSE CHOOSE n \in S : \A m \in S : m <= n

\* _require_material_stop_basis_current: nothing but STOPs and finalization
\* objects has been accepted since the cut the STOP looked at.
Fresh(stop, upto) ==
    \A n \in DOMAIN log : log[stop].cut < n /\ n <= upto => log[n].kind # "material"

Result(termination) ==
    IF termination = "COMPLETED" THEN "READY" ELSE "QUALIFICATION_BLOCKED"

-----------------------------------------------------------------------------
\* What the store demands of these objects, which have to be bound to the exact
\* head they are accepted on.

HeadSeq == Len(log)

\* Faulty variant: a cut only has to be one this history had.
BoundToOlder(cut) == cut <= HeadSeq

BoundToHead(cut) == cut = HeadSeq

\* Faulty variant: the STOP basis of a finalization object is not looked at.
BasisUnchecked(stop) == stop \in DOMAIN log /\ log[stop].kind = "stop"

Basis(stop) ==
    /\ stop \in DOMAIN log
    /\ log[stop].kind = "stop"
    /\ Fresh(stop, HeadSeq)

Earned(stop, termination) == termination = "COMPLETED" => log[stop].decision = "PASS"

StopAdmitted(c) == BoundToHead(c.cut)

ConclusionAdmitted(c) ==
    BoundToHead(c.cut) /\ Basis(c.stop) /\ Earned(c.stop, c.termination)

CaseAdmitted(c) ==
    /\ BoundToHead(c.cut)
    /\ c.conclusion \in At("conclusion", HeadSeq)
    /\ log[c.conclusion].stop = c.stop
    /\ Basis(c.stop)
    /\ Earned(c.stop, log[c.conclusion].termination)

QualificationAdmitted(c) ==
    /\ BoundToHead(c.cut)
    /\ c.case \in At("case", HeadSeq)
    /\ log[c.case].conclusion = c.conclusion
    /\ log[c.case].stop = c.stop
    /\ log[c.conclusion].stop = c.stop
    /\ Basis(c.stop)
    /\ Earned(c.stop, log[c.conclusion].termination)

-----------------------------------------------------------------------------
\* Operators.

NoWish == "none"

Idle == [pc |-> "idle", wish |-> NoWish, statement |-> NoWish, cut |-> 0,
         stop |-> None, termination |-> NoWish, conclusion |-> None,
         case |-> None, qualification |-> None]

Init ==
    /\ log = << >>
    /\ op = [p \in Operator |-> Idle]

Becomes(p, r) == op' = [op EXCEPT ![p] = r]

To(r, pc) == [r EXCEPT !.pc = pc]

\* At a step that only reads the store.
Reads(p, pc) == op[p].pc = pc /\ UNCHANGED log

\* Command c is sent from pc.  Accepted, it is commit HeadSeq + 1 and the call goes
\* on as r; refused, the exception ends the call.
Sends(p, pc, c, admitted, r) ==
    /\ op[p].pc = pc
    /\ log' = IF admitted THEN Append(log, c) ELSE log
    /\ Becomes(p, IF admitted THEN r ELSE Idle)

-----------------------------------------------------------------------------
\* evaluate_stop_gate, called by an operator or, without a STOP to go by, by
\* conclude_campaign.

CallEvaluate(p) ==
    /\ op[p].pc = "idle"
    /\ Cardinality(At("stop", HeadSeq)) < MaxStops
    /\ Becomes(p, To(Idle, "evaluate"))
    /\ UNCHANGED log

\* The head, and the cut of the STOP input that StopInputBuilder makes.
ReadStopInput(p) ==
    /\ Reads(p, "evaluate")
    /\ Becomes(p, [To(op[p], "send_stop") EXCEPT !.cut = HeadSeq])

SendStop(p, verdict) ==
    LET r == op[p]
        c == Stop(r.cut, verdict)
    IN  Sends(p, "send_stop", c, StopAdmitted(c),
              IF r.wish = NoWish THEN Idle ELSE To(r, "conclude"))

-----------------------------------------------------------------------------
\* conclude_campaign

CallConclude(p, wish, statement) ==
    /\ op[p].pc = "idle"
    /\ Becomes(p, [To(Idle, "conclude") EXCEPT !.wish = wish, !.statement = statement])
    /\ UNCHANGED log

FindStop(p) ==
    /\ Reads(p, "conclude")
    /\ LET r    == op[p]
           stop == LastOf(At("stop", HeadSeq))
       IN  Becomes(p, IF stop # None THEN [To(r, "basis") EXCEPT !.stop = stop]
                      ELSE IF r.wish = "COMPLETED" THEN Idle
                      ELSE To(r, "evaluate"))

TerminationFor(wish, stop) ==
    IF wish # "DERIVED" THEN wish
    ELSE IF log[stop].decision = "PASS" THEN "COMPLETED" ELSE "COMPLETED_LIMITED"

\* _stop_input_basis, and what a full conclusion needs.
CheckBasis(p) ==
    /\ Reads(p, "basis")
    /\ LET r == op[p]
           t == TerminationFor(r.wish, r.stop)
       IN  Becomes(p, IF Fresh(r.stop, HeadSeq) /\ Earned(r.stop, t)
                      THEN [To(r, "conclusion") EXCEPT !.termination = t] ELSE Idle)

\* _matching_record: the newest accepted one that an earlier call may have left.
ConclusionFor(r) == LastOf({n \in At("conclusion", HeadSeq) : log[n].stop = r.stop})

CaseFor(r) ==
    LastOf({n \in At("case", HeadSeq) : /\ log[n].conclusion = r.conclusion
                                     /\ log[n].stop = r.stop})

QualificationFor(r) ==
    LastOf({n \in At("qualification", HeadSeq) : /\ log[n].conclusion = r.conclusion
                                              /\ log[n].case = r.case
                                              /\ log[n].stop = r.stop})

\* Faulty variants: what an earlier call left is taken whatever it says; and is
\* never taken.
ReadConclusionAny(p) ==
    /\ Reads(p, "conclusion")
    /\ LET r     == op[p]
           found == ConclusionFor(r)
       IN  Becomes(p, IF found = None THEN [To(r, "send_conclusion") EXCEPT !.cut = HeadSeq]
                      ELSE [To(r, "case") EXCEPT !.conclusion = found])

ReadConclusionRefusesAll(p) ==
    /\ Reads(p, "conclusion")
    /\ LET r     == op[p]
           found == ConclusionFor(r)
       IN  Becomes(p, IF found = None THEN [To(r, "send_conclusion") EXCEPT !.cut = HeadSeq]
                      ELSE Idle)

ReadConclusion(p) ==
    /\ Reads(p, "conclusion")
    /\ LET r     == op[p]
           found == ConclusionFor(r)
       IN  Becomes(p, IF found = None THEN [To(r, "send_conclusion") EXCEPT !.cut = HeadSeq]
                      ELSE IF /\ log[found].termination = r.termination
                              /\ log[found].statement = r.statement
                      THEN [To(r, "case") EXCEPT !.conclusion = found]
                      ELSE Idle)

SendConclusion(p) ==
    LET r == op[p]
        c == Conclusion(r.cut, r.stop, r.termination, r.statement)
    IN  Sends(p, "send_conclusion", c, ConclusionAdmitted(c),
              [To(r, "case") EXCEPT !.conclusion = HeadSeq + 1])

ReadCase(p) ==
    /\ Reads(p, "case")
    /\ LET r     == op[p]
           found == CaseFor(r)
       IN  Becomes(p, IF found = None THEN [To(r, "send_case") EXCEPT !.cut = HeadSeq]
                      ELSE IF log[found].statement = r.statement
                      THEN [To(r, "qualification") EXCEPT !.case = found]
                      ELSE Idle)

SendCase(p) ==
    LET r == op[p]
        c == FinalCase(r.cut, r.stop, r.conclusion, r.statement)
    IN  Sends(p, "send_case", c, CaseAdmitted(c),
              [To(r, "qualification") EXCEPT !.case = HeadSeq + 1])

ReadQualification(p) ==
    /\ Reads(p, "qualification")
    /\ LET r     == op[p]
           found == QualificationFor(r)
       IN  Becomes(p, IF found = None
                      THEN [To(r, "send_qualification") EXCEPT !.cut = HeadSeq]
                      ELSE IF log[found].result = Result(r.termination)
                      THEN [To(r, "idle") EXCEPT !.qualification = found]
                      ELSE Idle)

SendQualification(p) ==
    LET r == op[p]
        c == Qualification(r.cut, r.stop, r.conclusion, r.case, Result(r.termination))
    IN  Sends(p, "send_qualification", c, QualificationAdmitted(c),
              [To(r, "idle") EXCEPT !.qualification = HeadSeq + 1])

-----------------------------------------------------------------------------

\* The process dies, or the store stays locked beyond the busy timeout.
Stopped(p) ==
    /\ op[p].pc # "idle"
    /\ Becomes(p, Idle)
    /\ UNCHANGED log

\* Another operator records audit material, prepares a lane say: neither
\* prepare_lane nor the store asks whether the campaign is concluded.
RecordMaterial ==
    /\ Cardinality(At("material", HeadSeq)) < MaxMaterial
    /\ log' = Append(log, Material)
    /\ UNCHANGED op

\* What a process does by itself, once called.
Working(p) ==
    \/ ReadStopInput(p) \/ \E verdict \in Verdict : SendStop(p, verdict)
    \/ FindStop(p) \/ CheckBasis(p)
    \/ ReadConclusion(p) \/ SendConclusion(p)
    \/ ReadCase(p) \/ SendCase(p)
    \/ ReadQualification(p) \/ SendQualification(p)

Next ==
    \/ \E p \in Operator :
          \/ Working(p) \/ CallEvaluate(p) \/ Stopped(p)
          \/ \E wish \in Wish, statement \in Statement : CallConclude(p, wish, statement)
    \/ RecordMaterial

Spec == Init /\ [][Next]_vars

\* A process that is not killed runs the call it is in to its end.
FairSpec == Spec /\ \A p \in Operator : WF_vars(Working(p))

-----------------------------------------------------------------------------
\* project_finalization_progress at a cut: its state, or for BLOCKED its reason.

Progress(cut) ==
    LET terminal == {n \in At("conclusion", cut) : log[n].termination # "OPEN"}
        k        == LastOf(terminal)
        cases    == {n \in At("case", cut) : log[n].conclusion = k}
        goodCase == {n \in cases : log[n].stop = log[k].stop /\ n > k}
        f        == LastOf(goodCase)
        releases == {n \in At("qualification", cut) : log[n].conclusion = k}
        goodRelease == {n \in releases : /\ log[n].case = f
                                         /\ log[n].stop = log[k].stop
                                         /\ n > f}
    IN  IF At("conclusion", cut) = {} THEN "NOT_STARTED"
        ELSE IF terminal = {} THEN "NOT_TERMINAL"
        ELSE IF terminal # {k} THEN "MULTIPLE_TERMINAL_CONCLUSIONS"
        ELSE IF cases # {} /\ ~(Cardinality(cases) = 1 /\ goodCase = cases)
        THEN "FINAL_CASE_BINDING_CONFLICT"
        ELSE IF cases = {}
        THEN IF releases = {} THEN "FINAL_CASE_PENDING" ELSE "RELEASE_WITHOUT_FINAL_CASE"
        ELSE IF releases # {} /\ ~(Cardinality(releases) = 1 /\ goodRelease = releases)
        THEN "RELEASE_QUALIFICATION_BINDING_CONFLICT"
        ELSE IF releases = {} THEN "RELEASE_QUALIFICATION_PENDING" ELSE "COMPLETE"

-----------------------------------------------------------------------------

Place == {"idle", "evaluate", "send_stop", "conclude", "basis", "conclusion",
          "send_conclusion", "case", "send_case", "qualification",
          "send_qualification"}

Call ==
    [pc : Place, wish : Wish \cup {NoWish}, statement : Statement \cup {NoWish},
     cut : Nat, stop : Nat, termination : Termination \cup {NoWish},
     conclusion : Nat, case : Nat, qualification : Nat]

TypeOK == log \in Seq(Commit) /\ op \in [Operator -> Call]

\* A release qualification rests on a complete chain, accepted in this order by
\* separate commits and all about one STOP, with no audit material accepted
\* since the cut of that STOP; READY rests on a full conclusion of a STOP that
\* passed (finalization_service.py:474-535, authority_hooks.py:429-469).
QualificationIsEarned ==
    \A n \in At("qualification", HeadSeq) :
        LET q == log[n]
        IN  /\ q.conclusion \in At("conclusion", q.case - 1)
            /\ q.case \in At("case", n - 1)
            /\ q.stop \in At("stop", q.conclusion - 1)
            /\ log[q.case].conclusion = q.conclusion
            /\ {log[q.case].stop, log[q.conclusion].stop} = {q.stop}
            /\ Fresh(q.stop, n)
            /\ q.result = "READY" => /\ log[q.conclusion].termination = "COMPLETED"
                                     /\ log[q.stop].decision = "PASS"

\* However calls race, die and are repeated, a STOP is concluded once, a
\* conclusion gets one final case and a case one qualification
\* (finalization_service.py:371-540).
OneChainPerStop ==
    /\ \A m, n \in At("conclusion", HeadSeq) : log[m].stop = log[n].stop => m = n
    /\ \A m, n \in At("case", HeadSeq) : log[m].conclusion = log[n].conclusion => m = n
    /\ \A m, n \in At("qualification", HeadSeq) : log[m].case = log[n].case => m = n

\* A call that returns SUCCESS names an accepted chain that says what the caller
\* asked for, also when it took over what another call had left
\* (finalization_service.py:376-389, 541-554), and nobody who reads the status ever
\* sees a chain whose parts do not fit: only a second conclusion blocks it
\* (read_models.py:70-225).
SuccessIsAsAsked ==
    /\ Progress(HeadSeq) \notin {"FINAL_CASE_BINDING_CONFLICT",
                               "RELEASE_WITHOUT_FINAL_CASE",
                               "RELEASE_QUALIFICATION_BINDING_CONFLICT"}
    /\ \A p \in Operator :
        LET r == op[p]
        IN  r.pc = "idle" /\ r.qualification # None =>
              /\ r.qualification \in At("qualification", HeadSeq)
              /\ log[r.qualification].case = r.case
              /\ log[r.qualification].conclusion = r.conclusion
              /\ log[r.case].statement = r.statement
              /\ log[r.conclusion].statement = r.statement
              /\ r.wish # "DERIVED" => log[r.conclusion].termination = r.wish

\* A campaign has one conclusion that ends it (data contracts, 14.5: concluded,
\* it does not run again, and new assurance takes a successor campaign).
ConcludedOnce ==
    Cardinality({n \in At("conclusion", HeadSeq) : log[n].termination # "OPEN"}) <= 1

\* A disturbance: new material, a new evaluation, or a call cut off.
Disturbed ==
    \/ RecordMaterial
    \/ \E p \in Operator : CallEvaluate(p) \/ (Stopped(p) /\ ~Working(p))

LastStop == LastOf(At("stop", HeadSeq))

\* When disturbances end with the last STOP still fresh, concluding again and
\* again ends with a qualification for it, whatever was cut off before
\* (finalization_service.py:264-554).
ResumeCompletes ==
    /\ <>[][~Disturbed]_vars
    /\ <>[](LastStop # None => Fresh(LastStop, HeadSeq))
    /\ []<><<\E p \in Operator, wish \in Wish, statement \in Statement :
                CallConclude(p, wish, statement)>>_vars
    => <>(\E n \in At("qualification", HeadSeq) : log[n].stop = LastStop)
=============================================================================
