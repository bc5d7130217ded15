-------------------------- MODULE StageCampaignProofs --------------------------
(***************************************************************************)
(* Theorems about the phases of the stages, for every set of operators,    *)
(* every choice of lanes, and every interleaving of their calls, deaths    *)
(* and commits.                                                            *)
(*                                                                         *)
(* The first part: nothing that is done once for a phase is done twice,    *)
(* and no phase is assigned before the stage before it is complete.  The   *)
(* argument needs nothing of the sessions but the step they are at: a      *)
(* command is accepted only if the head is the cut its step has read, so   *)
(* what the step saw at its cut is what the commit finds before it.        *)
(*                                                                         *)
(* The second part: what is revealed was sealed, what is published was     *)
(* granted, what is completed was earned.  These rest on more than the     *)
(* last cut: a grant on a check some steps before, the files on an         *)
(* assignment and a grant, the completion of E2 on decisions and           *)
(* successors of other cuts.  The invariant Fine says of the log what each *)
(* commit has to be at its place, of the packages that their lanes were    *)
(* assigned and granted, and of a session that what the rest of its call   *)
(* relies on is ahead of it in the call, or in the log.                    *)
(***************************************************************************)
EXTENDS StageCampaign, FiniteSetTheorems, WellFoundedInduction, TLAPS

-----------------------------------------------------------------------------
\* The invariant, and what a commit needs to preserve it.

IsLog(l) == l \in Seq({l[n] : n \in DOMAIN l})

\* Commit c repeats nothing of log l, and assigns no phase too early.
Sound(l, c) ==
    /\ c.kind \in Once =>
          \A n \in DOMAIN l : ~(l[n].kind = c.kind /\ l[n].phase = c.phase)
    /\ c.kind = "assignments" =>
          \E n \in DOMAIN l :
              l[n].kind = "completion" /\ l[n].phase = Before(StageOf(c.phase))

\* A step leaves the log alone, or adds a sound commit.
Extends(l, k) ==
    \/ k = l
    \/ \E c : Sound(l, c) /\ k = Append(l, c)

IInv == IsLog(log) /\ OncePerPhase /\ StageOrder

-----------------------------------------------------------------------------
\* Sequences.

\* A sequence is one of any set its elements are of.
LEMMA SequenceOf ==
    ASSUME NEW S, NEW l \in Seq(S), NEW R, \A n \in DOMAIN l : l[n] \in R
    PROVE  l \in Seq(R)
  OBVIOUS

\* A log with one commit more.
LEMMA AppendIsLog ==
    ASSUME NEW l, IsLog(l), NEW c
    PROVE  /\ IsLog(Append(l, c))
           /\ Len(l) \in Nat
           /\ DOMAIN l = 1..Len(l)
           /\ DOMAIN Append(l, c) = 1..(Len(l) + 1)
           /\ \A n \in DOMAIN l : Append(l, c)[n] = l[n]
           /\ Append(l, c)[Len(l) + 1] = c
<1> DEFINE S == {l[n] : n \in DOMAIN l}
           k == Append(l, c)
<1>1. l \in Seq(S)
  BY DEF IsLog
<1>2. l \in Seq(S \cup {c})
  BY <1>1
<1> HIDE DEF S
<1>3. /\ k \in Seq(S \cup {c})
      /\ Len(l) \in Nat
      /\ DOMAIN l = 1..Len(l)
      /\ Len(k) = Len(l) + 1
      /\ DOMAIN k = 1..(Len(l) + 1)
      /\ \A n \in DOMAIN l : k[n] = l[n]
      /\ k[Len(l) + 1] = c
  BY <1>2
<1> HIDE DEF k
<1>4. \A n \in DOMAIN k : k[n] \in {k[m] : m \in DOMAIN k}
  OBVIOUS
<1>5. IsLog(k)
  BY <1>3, <1>4, SequenceOf DEF IsLog
<1> QED BY <1>3, <1>5 DEF k

\* The log at the beginning is one, of different commits, none of them assignments.
LEMMA BeginningIsLog ==
    ASSUME NEW n \in 1..4, NEW says
    PROVE  LET k == Beginning(n, says)
           IN  /\ IsLog(k)
               /\ \A i \in DOMAIN k : k[i].kind # "assignments"
               /\ \A i, j \in DOMAIN k : k[i].kind = k[j].kind /\ k[i].phase = k[j].phase => i = j
<1> DEFINE k == Beginning(n, says)
           l == Before5(says)
           m == IF n <= 2 THEN n ELSE n + 1
<1>1. /\ l[1].kind = "completion" /\ l[1].phase = "E1"
      /\ l[2].kind = "completion" /\ l[2].phase = "E2"
      /\ l[3].kind = "scope"
      /\ l[4].kind = "completion" /\ l[4].phase = "E3"
      /\ l[5].kind = "completion" /\ l[5].phase = "E4"
  BY DEF Before5, Fact, FactOn, FactAbout
<1>2. m \in 1..5
  OBVIOUS
<1> HIDE DEF l, m
<1>3. k = [i \in 1..m |-> l[i]]
  BY DEF Beginning, l, m
<1>4. DOMAIN k = 1..m /\ \A i \in 1..m : k[i] = l[i]
  BY <1>3
<1>5. k \in Seq({k[i] : i \in 1..m})
  BY <1>2, <1>3
<1> HIDE DEF k
<1>6. IsLog(k)
  BY <1>4, <1>5 DEF IsLog
<1>7. \A i \in DOMAIN k : i \in {1, 2, 3, 4, 5} /\ k[i] = l[i]
  BY <1>2, <1>4
<1>8. \A i \in DOMAIN k : k[i].kind # "assignments"
  BY <1>1, <1>7
<1>9. \A i, j \in DOMAIN k : k[i].kind = k[j].kind /\ k[i].phase = k[j].phase => i = j
  BY <1>1, <1>7
<1> QED BY <1>6, <1>8, <1>9 DEF k

-----------------------------------------------------------------------------
\* Commands.

\* What a step did not find at the cut it commits at is not in the log.
LEMMA NotFoundIsNew ==
    ASSUME IsLog(log), NEW kind, NEW f, ~Has(Len(log), kind, f)
    PROVE  \A n \in DOMAIN log : ~(log[n].kind = kind /\ log[n].phase = f)
<1>1. DOMAIN log = 1..Len(log)
  BY DEF IsLog
<1> QED BY <1>1 DEF Has, At

\* A command is accepted at the exact head, so its commit need be sound only there;
\* one that names no head is accepted where it has not been answered.
Accepted(p, c) == (op[p].cut = Len(log) \/ c.kind \in Unbound) /\ ~Committed(c)

\* A command sends a sound commit, or none is accepted.
LEMMA CommitsExtends ==
    ASSUME NEW p, NEW c, NEW r, Commits(p, c, r), Accepted(p, c) => Sound(log, c)
    PROVE  Extends(log, log')
  BY DEF Commits, Extends, Accepted

\* So does a step that looks first.
LEMMA RecordsExtends ==
    ASSUME NEW p, NEW there, NEW c, NEW r, Records(p, there, c, r),
           ~there /\ Accepted(p, c) => Sound(log, c)
    PROVE  Extends(log, log')
  BY CommitsExtends DEF Records, Goes, Extends

\* A fact the step did not find at its cut, or whose name no commit has, is new.
LEMMA NewFactIsSound ==
    ASSUME IsLog(log), NEW p, NEW kind, NEW f, NEW basis,
           Accepted(p, FactOn(kind, f, basis)),
           ~Has(op[p].cut, kind, f),
           kind # "assignments"
    PROVE  Sound(log, FactOn(kind, f, basis))
<1> DEFINE c == FactOn(kind, f, basis)
<1>1. c.kind = kind /\ c.phase = f
  BY DEF FactOn, FactAbout
<1> SUFFICES Sound(log, c)
  OBVIOUS
<1>2. (op[p].cut = Len(log) \/ kind \in Unbound) /\ ~Committed(c)
  BY <1>1 DEF Accepted
<1> HIDE DEF c
<1>3. CASE op[p].cut = Len(log)
  BY <1>1, <1>3, NotFoundIsNew DEF Sound
<1>4. CASE kind \in Unbound
  BY <1>1, <1>2, <1>4 DEF Committed, Sound
<1> QED BY <1>2, <1>3, <1>4

\* A fact that is done once, recorded when the step did not find it.
LEMMA NewFactExtends ==
    ASSUME IsLog(log), NEW p, NEW there, NEW kind, NEW f, NEW basis, NEW r,
           Records(p, there, FactOn(kind, f, basis), r),
           ~there => ~Has(op[p].cut, kind, f),
           kind # "assignments"
    PROVE  Extends(log, log')
<1>1. ~there /\ Accepted(p, FactOn(kind, f, basis)) => Sound(log, FactOn(kind, f, basis))
  BY NewFactIsSound
<1> QED BY <1>1, RecordsExtends

\* The same, of a service that looked for it before its checks.
LEMMA NewCommitExtends ==
    ASSUME IsLog(log), NEW p, NEW kind, NEW f, NEW basis, NEW r,
           Commits(p, FactOn(kind, f, basis), r),
           ~Has(op[p].cut, kind, f),
           kind # "assignments"
    PROVE  Extends(log, log')
<1>1. Accepted(p, FactOn(kind, f, basis)) => Sound(log, FactOn(kind, f, basis))
  BY NewFactIsSound
<1> QED BY <1>1, CommitsExtends

\* Commits that may come again, and assign nothing.
LEMMA OtherCommitExtends ==
    ASSUME NEW p, NEW c, NEW r, Commits(p, c, r),
           c.kind \in {"grant", "candidate", "challenges", "evidence", "result"}
    PROVE  Extends(log, log')
<1>1. Sound(log, c)
  BY DEF Sound, Once
<1> QED BY <1>1, CommitsExtends

\* Grants may come again.
LEMMA AuthorizesExtends ==
    ASSUME NEW p, NEW f, NEW ok, NEW same, NEW grant, Authorizes(p, f, ok, same, grant),
           grant.kind = "grant"
    PROVE  Extends(log, log')
<1>1. CASE ~ok \/ same # {}
  BY <1>1 DEF Authorizes, Raises, Goes, Extends
<1>2. CASE ok /\ same = {}
  BY <1>2, OtherCommitExtends DEF Authorizes
<1> QED BY <1>1, <1>2

\* A check commits nothing.
LEMMA ChecksExtends ==
    ASSUME NEW p, NEW do, NEW f, NEW ok, Checks(p, do, f, ok)
    PROVE  Extends(log, log')
  BY DEF Checks, Raises, Goes, Extends

-----------------------------------------------------------------------------
\* The steps of a session.

\* Calls, and steps that move a session on or write files.
LEMMA QuietExtends ==
    ASSUME NEW p,
           \/ Calls(p) \/ ReadCut(p) \/ Decide(p) \/ Check(p) \/ Publish(p)
           \/ PublishFile(p) \/ Load(p) \/ Resume(p) \/ Look(p) \/ Reload(p) \/ Die(p)
    PROVE  log' = log
<1>1. CASE Calls(p)
  BY <1>1 DEF Calls, Regular, Start, Advance, Import, Prepare, Goes
<1>2. CASE ReadCut(p) \/ Die(p) \/ Publish(p) \/ Check(p)
  BY <1>2 DEF ReadCut, Die, Publish, Check, Raises, Goes
<1>3. CASE Decide(p)
  BY <1>3 DEF Decide, AtStage, Goes
<1>4. CASE PublishFile(p)
  BY <1>4 DEF PublishFile
<1>5. CASE Load(p) \/ Resume(p)
  BY <1>5 DEF Load, Resume, Raises, Goes
<1>6. CASE Look(p) \/ Reload(p)
  BY <1>6 DEF Look, Reload, Raises, Goes
<1> QED BY <1>1, <1>2, <1>3, <1>4, <1>5, <1>6

\* Assignments are looked for, with the completion they need, at the cut.
LEMMA AssignExtends ==
    ASSUME IsLog(log), NEW p, Assign(p)
    PROVE  Extends(log, log')
<1> DEFINE f == Current(p)
           c == op[p].cut
<1>1. CASE ~StageDone(c, Before(StageOf(f)))
  BY <1>1 DEF Assign, Raises, Goes, Extends
<1>2. CASE StageDone(c, Before(StageOf(f)))
  <2>1. Records(p, Has(c, "assignments", f), Fact("assignments", f), Further(op[p]))
    BY <1>2 DEF Assign, Existing, Handout
  <2>2. /\ Fact("assignments", f).kind = "assignments"
        /\ Fact("assignments", f).phase = f
    BY DEF Fact, FactOn, FactAbout
  <2>3. ASSUME ~Has(c, "assignments", f), Accepted(p, Fact("assignments", f))
        PROVE  Sound(log, Fact("assignments", f))
    <3> c = Len(log)
      BY <2>2, <2>3 DEF Accepted, Unbound
    <3>1. \A n \in DOMAIN log : ~(log[n].kind = "assignments" /\ log[n].phase = f)
      BY <2>3, NotFoundIsNew
    <3>2. \E n \in DOMAIN log :
             log[n].kind = "completion" /\ log[n].phase = Before(StageOf(f))
      BY <1>2, <2>3 DEF StageDone, Has, At, IsLog
    <3> QED BY <2>2, <3>1, <3>2 DEF Sound
  <2> QED BY <2>1, <2>3, RecordsExtends
<1> QED BY <1>1, <1>2

\* The evidence and the result of an import.
LEMMA ImportExtends ==
    ASSUME NEW p, Begin(p) \/ SendResult(p)
    PROVE  Extends(log, log')
<1>1. \A z : Evidence(z).kind = "evidence" /\ Result(z).kind = "result"
  BY DEF Evidence, Result, Sent
<1>2. CASE Begin(p)
  BY <1>1, <1>2, OtherCommitExtends DEF Begin, Goes, Extends
<1>3. CASE SendResult(p)
  BY <1>1, <1>3, OtherCommitExtends DEF SendResult
<1> QED BY <1>2, <1>3

-----------------------------------------------------------------------------
\* The services of the stages.

\* The services of E2: what is done once is looked for first.
LEMMA E2StepExtends ==
    ASSUME IsLog(log), NEW p, E2Step(p)
    PROVE  Extends(log, log')
<1> USE DEF Raises, Goes
<1>1. CASE Seal(p)
  BY <1>1, NewFactExtends DEF Seal, Extends
<1>2. CASE RequireSeal(p)
  BY <1>2, ChecksExtends DEF RequireSeal
<1>3. CASE GrantReveal(p)
  <2>1. RevealGrant(op[p].cut).kind = "grant"
    BY DEF RevealGrant, GrantOn, FactOn, FactAbout
  <2> QED BY <1>3, <2>1, AuthorizesExtends DEF GrantReveal
<1>4. CASE Synthesize(p)
  BY <1>4, NewFactExtends DEF Synthesize, Extends
<1>5. CASE GrantShadow(p)
  <2>1. ShadowGrant(op[p].cut).kind = "grant"
    BY DEF ShadowGrant, GrantOn, FactOn, FactAbout
  <2> QED BY <1>5, <2>1, AuthorizesExtends DEF GrantShadow
<1>6. CASE FinalizeShadow(p)
  BY <1>6, NewFactExtends DEF FinalizeShadow, Opened, Extends
<1>7. CASE GrantContradiction(p)
  BY <1>7, AuthorizesExtends
     DEF GrantContradiction, ContradictionGrant, GrantOn, FactOn, FactAbout
<1>8. CASE Resolve(p)
  BY <1>8, NewFactExtends DEF Resolve, Extends
<1>9. CASE Succeed(p)
  BY <1>9, NewFactExtends DEF Succeed
<1>10. CASE CompleteE2(p)
  BY <1>10, NewFactExtends DEF CompleteE2
<1> QED BY <1>1, <1>2, <1>3, <1>4, <1>5, <1>6, <1>7, <1>8, <1>9, <1>10 DEF E2Step

\* The services of E3.
LEMMA E3StepExtends ==
    ASSUME IsLog(log), NEW p, E3Step(p)
    PROVE  Extends(log, log')
<1> USE DEF Raises, Goes
<1>1. CASE Baseline(p)
  BY <1>1, NewFactExtends DEF Baseline, Extends, Fact
<1>2. CASE SealBlind(p)
  BY <1>2, NewFactExtends DEF SealBlind, BlindCheckpoints, Extends, BlindSeals, Has
<1>3. CASE RequireBlindSeal(p) \/ RequireGapResults(p) \/ RequireCumulativeResults(p)
  BY <1>3, ChecksExtends
     DEF RequireBlindSeal, RequireGapResults, RequireCumulativeResults
<1>4. CASE GrantGap(p)
  <2>1. GapGrant(op[p].cut).kind = "grant"
    BY DEF GapGrant, GrantOn, FactOn, FactAbout
  <2> QED BY <1>4, <2>1, AuthorizesExtends DEF GrantGap
<1>5. CASE GrantCumulative(p)
  <2>1. CumulativeGrant(op[p].cut).kind = "grant"
    BY DEF CumulativeGrant, GrantOn, FactOn, FactAbout
  <2> QED BY <1>5, <2>1, AuthorizesExtends DEF GrantCumulative
<1>6. CASE GrantHoldout(p)
  <2>1. HoldoutGrant(op[p].cut).kind = "grant"
    BY DEF HoldoutGrant, GrantOn, FactOn, FactAbout
  <2> QED BY <1>6, <2>1, AuthorizesExtends DEF GrantHoldout
<1>7. CASE FinalizeE3(p)
  BY <1>7, NewCommitExtends DEF FinalizeE3, Extends
<1> QED BY <1>1, <1>2, <1>3, <1>4, <1>5, <1>6, <1>7 DEF E3Step

\* Findings of a phase are recorded when there are none, and some are notable.
LEMMA E3ResultStepExtends ==
    ASSUME IsLog(log), NEW p, E3ResultStep(p)
    PROVE  Extends(log, log')
<1>1. ASSUME NEW f, NEW seals, RecordsFindings(p, f, seals)
      PROVE  Extends(log, log')
  BY <1>1, NewFactExtends DEF RecordsFindings, Discoveries
<1>2. ASSUME Raises(p)
      PROVE  Extends(log, log')
  BY <1>2 DEF Raises, Goes, Extends
<1>3. CASE ValidateGap(p)
  BY <1>1, <1>2, <1>3 DEF ValidateGap, GapFindings
<1>4. CASE ValidateCumulative(p)
  BY <1>1, <1>2, <1>4 DEF ValidateCumulative, CumulativeFindings
<1>5. CASE ValidateHoldout(p)
  BY <1>1, <1>2, <1>5 DEF ValidateHoldout, HoldoutFindings
<1> QED BY <1>3, <1>4, <1>5 DEF E3ResultStep

\* The services of E4 and E5.
LEMMA E5StepExtends ==
    ASSUME IsLog(log), NEW p, E5Step(p)
    PROVE  Extends(log, log')
<1> USE DEF Raises, Goes
<1>1. CASE AssessFidelity(p)
  BY <1>1, NewFactExtends DEF AssessFidelity, Extends
<1>2. CASE FinalizeE4(p)
  BY <1>2, NewCommitExtends DEF FinalizeE4, Extends
<1>3. CASE Canonicalize(p)
  BY <1>3, NewFactExtends DEF Canonicalize, Canonical, FindingsOf, Extends
<1>4. CASE Freeze(p)
  BY <1>4, OtherCommitExtends DEF Freeze, FrozenCase, Extends, FactOn, FactAbout
<1>5. CASE AuthorizeChallenge(p)
  BY <1>5, AuthorizesExtends
     DEF AuthorizeChallenge, ChallengeGrant, GrantOn, FactOn, FactAbout
<1>6. CASE Materialize(p)
  BY <1>6, OtherCommitExtends DEF Materialize, Extends, FactAbout
<1>7. CASE FinalizeE5(p)
  BY <1>7, NewCommitExtends DEF FinalizeE5, Extends
<1> QED BY <1>1, <1>2, <1>3, <1>4, <1>5, <1>6, <1>7 DEF E5Step

\* Every step of the system, by anyone.
LEMMA NextExtends ==
    ASSUME IsLog(log), [Next]_vars
    PROVE  Extends(log, log')
<1>1. ASSUME NEW p \in Operator, Works(p) \/ Calls(p) \/ Die(p)
      PROVE  Extends(log, log')
  BY <1>1, QuietExtends, AssignExtends, ImportExtends, E2StepExtends, E3StepExtends,
     E3ResultStepExtends, E5StepExtends DEF Works, Extends
<1>2. CASE Elsewhere
  <2>1. log' = Append(log, Fact("material", None))
    BY <1>2 DEF Elsewhere
  <2>2. Sound(log, Fact("material", None))
    BY DEF Sound, Once, Fact, FactOn, FactAbout
  <2> QED BY <2>1, <2>2 DEF Extends
<1>3. CASE UNCHANGED vars
  BY <1>3 DEF vars, Extends
<1> QED BY <1>1, <1>2, <1>3 DEF Next

-----------------------------------------------------------------------------
\* A sound commit preserves the invariant.

\* Sound commits keep the invariant.
LEMMA ExtendsKeepsIInv ==
    ASSUME IInv, Extends(log, log')
    PROVE  IInv'
<1>1. CASE log' = log
  BY <1>1 DEF IInv, IsLog, OncePerPhase, StageOrder, StageDone, Has, At
<1>2. ASSUME NEW c, Sound(log, c), log' = Append(log, c)
      PROVE  IInv'
  <2>1. /\ IsLog(log')
        /\ Len(log) \in Nat
        /\ DOMAIN log = 1..Len(log)
        /\ DOMAIN log' = 1..(Len(log) + 1)
        /\ \A n \in DOMAIN log : log'[n] = log[n]
        /\ log'[Len(log) + 1] = c
    BY <1>2, AppendIsLog DEF IInv
  <2>2. OncePerPhase'
    <3> SUFFICES ASSUME NEW i \in DOMAIN log', NEW j \in DOMAIN log',
                        log'[i].kind \in Once, log'[j].kind = log'[i].kind,
                        log'[j].phase = log'[i].phase
                 PROVE  i = j
      BY DEF OncePerPhase
    <3>1. CASE i \in DOMAIN log /\ j \in DOMAIN log
      BY <2>1, <3>1 DEF IInv, OncePerPhase
    <3>2. CASE i = Len(log) + 1 /\ j \in DOMAIN log
      BY <1>2, <2>1, <3>2 DEF Sound
    <3>3. CASE j = Len(log) + 1 /\ i \in DOMAIN log
      BY <1>2, <2>1, <3>3 DEF Sound
    <3> QED BY <2>1, <3>1, <3>2, <3>3
  <2>3. StageOrder'
    <3> SUFFICES ASSUME NEW n \in DOMAIN log', log'[n].kind = "assignments"
                 PROVE  \E m \in 1..(n - 1) : /\ log'[m].kind = "completion"
                                              /\ log'[m].phase = Before(StageOf(log'[n].phase))
      BY DEF StageOrder, StageDone, Has, At
    <3>1. CASE n \in DOMAIN log
      <4>1. PICK m \in 1..(n - 1) : /\ log[m].kind = "completion"
                                    /\ log[m].phase = Before(StageOf(log[n].phase))
        BY <2>1, <3>1 DEF IInv, StageOrder, StageDone, Has, At
      <4>2. m \in DOMAIN log
        BY <2>1, <3>1
      <4> QED BY <2>1, <3>1, <4>1, <4>2
    <3>2. CASE n = Len(log) + 1
      <4>1. PICK m \in DOMAIN log : /\ log[m].kind = "completion"
                                    /\ log[m].phase = Before(StageOf(c.phase))
        BY <1>2, <2>1, <3>2 DEF Sound
      <4> QED BY <2>1, <3>2, <4>1
    <3> QED BY <2>1, <3>1, <3>2
  <2> QED BY <2>1, <2>2, <2>3 DEF IInv
<1> QED BY <1>1, <1>2 DEF Extends

\* It holds at the beginning.
LEMMA InitIInv ==
    ASSUME Init
    PROVE  IInv
<1>1. PICK n \in 1..4, says \in {"plain", "notable"} : log = Beginning(n, says)
  BY PhasesAssumption DEF Init
<1>2. /\ IsLog(log)
      /\ \A i \in DOMAIN log : log[i].kind # "assignments"
      /\ \A i, j \in DOMAIN log :
             log[i].kind = log[j].kind /\ log[i].phase = log[j].phase => i = j
  BY <1>1, BeginningIsLog
<1>3. OncePerPhase
  BY <1>2 DEF OncePerPhase
<1>4. StageOrder
  BY <1>2 DEF StageOrder
<1> QED BY <1>2, <1>3, <1>4 DEF IInv

\* It holds.
LEMMA StagesSafety == Spec => []IInv
<1>1. Init => IInv
  BY InitIInv
<1>2. IInv /\ [Next]_vars => IInv'
  BY NextExtends, ExtendsKeepsIInv DEF IInv
<1> QED BY <1>1, <1>2, PTL DEF Spec

-----------------------------------------------------------------------------
\* However many operators advance the campaign, prepare phases by themselves, die
\* and resume, no phase is assigned, sealed, synthesized, adjudicated or completed
\* twice: each service looks, and commits, at one head.
THEOREM PhasesAreDoneOnce == Spec => []OncePerPhase
<1>1. IInv => OncePerPhase
  BY DEF IInv
<1> QED BY <1>1, StagesSafety, PTL

\* The phases of a stage are assigned after the stage before it was completed,
\* whichever calls the operators make (prepare_phase_assignments).
THEOREM StagesFollowEachOther == Spec => []StageOrder
<1>1. IInv => StageOrder
  BY DEF IInv
<1> QED BY <1>1, StagesSafety, PTL

-----------------------------------------------------------------------------
\* What a commit has to be at its place in the log, by its kind.

\* It names earlier commits only.
Placed(n) ==
    /\ log[n].auth \in 0..(n - 1)
    /\ log[n].about \in 0..(n - 1)
    /\ log[n].basis \subseteq 1..(n - 1)

\* Checkpoints are of one result for each lane.
SealFit(n) == log[n].kind = "checkpoints" => AllIn(n - 1, log[n].phase)

\* The phases whose grant needs the checkpoints of a blind phase.
Revealing == {"E2-REVEAL", "E3-GAP"}
BlindOf(f) == IF f = "E2-REVEAL" THEN "E2-BLIND" ELSE "E3-BLIND"

\* A grant shows the view of its cut, about one candidate or none.
GrantFit(n) ==
    log[n].kind = "grant" =>
        /\ log[n].phase \in Granted
        /\ log[n].basis = Display(log[n].phase, n, log[n].about)
        /\ IF log[n].phase = "E5B-CHALLENGE" THEN log[n].about \in Candidates5(n - 1) ELSE log[n].about = 0
        /\ log[n].phase \in Revealing => Has(n - 1, "checkpoints", BlindOf(log[n].phase))

\* What is published or sent for a lane: it was assigned, and granted.
Entitled(c, z) ==
    /\ z.lane \in LanesOf(z.phase)
    /\ Has(c, "assignments", z.phase)
    /\ z.phase \in Granted => UnderGrant(z)

\* A result or its evidence is of a lane that was assigned, and granted.
ResultFit(n) ==
    log[n].kind \in {"evidence", "result"} /\ log[n].phase # None => Entitled(n - 1, log[n])

\* The completion of E2 is earned as long as no contradiction lane has two results.
CompletionFit(n) ==
    /\ log[n].kind = "completion"
    /\ \E f \in Phase : StageOf(f) = log[n].phase /\ Has(n - 1, "assignments", f)
    =>
        /\ NamesAllResults(n, log[n].phase)
        /\ (log[n].phase = "E2" => Loadable(n - 1, "E2-CONTRADICTION")) => Earned(n - 1, log[n].phase)

\* Challenges are about a candidate, and made of what is about it.
ChallengeFit(n) ==
    log[n].kind = "challenges" /\ log[n].phase = "E5B-CHALLENGE" =>
        /\ log[n].about \in Candidates5(n - 1)
        /\ \A m \in log[n].basis : log[m].kind # "findings" => log[n].about \in {m, log[m].about}

\* The completion of E5 names the newest candidate, and challenges of it alone.
Named(n, kind) == {k \in log[n].basis : log[k].kind = kind}

ChallengedFit(n) ==
    log[n].kind = "completion" /\ log[n].phase = "E5" =>
        /\ Named(n, "candidate") = {Latest(n - 1)}
        /\ Named(n, "challenges") # {}
        /\ Named(n, "challenges") \subseteq ChallengedAt(n - 1, Latest(n - 1))

\* What is known of a commit.
FitAt(n) ==
    /\ Placed(n) /\ SealFit(n) /\ GrantFit(n) /\ ResultFit(n)
    /\ CompletionFit(n) /\ ChallengeFit(n) /\ ChallengedFit(n)

LogFit == IsLog(log) /\ \A n \in DOMAIN log : FitAt(n)

-----------------------------------------------------------------------------
\* The log grows.

Grows ==
    /\ IsLog(log) /\ IsLog(log')
    /\ Len(log) \in Nat /\ Len(log') \in Nat /\ Len(log) <= Len(log')
    /\ DOMAIN log = 1..Len(log) /\ DOMAIN log' = 1..Len(log')
    /\ \A n \in 1..Len(log) : log'[n] = log[n]

\* One commit more, or none.
LEMMA AppendGrows ==
    ASSUME IsLog(log), NEW c, log' = log \/ log' = Append(log, c)
    PROVE  /\ Grows
           /\ log' = log \/ (Len(log') = Len(log) + 1 /\ log'[Len(log) + 1] = c)
<1>1. CASE log' = log
  <2>1. Len(log) \in Nat /\ DOMAIN log = 1..Len(log)
    BY AppendIsLog
  <2> QED BY <1>1, <2>1 DEF Grows, IsLog
<1>2. CASE log' = Append(log, c)
  <2>1. /\ IsLog(log') /\ Len(log) \in Nat /\ DOMAIN log = 1..Len(log)
        /\ DOMAIN log' = 1..(Len(log) + 1)
        /\ \A n \in DOMAIN log : log'[n] = log[n]
        /\ log'[Len(log) + 1] = c
    BY <1>2, AppendIsLog
  <2>2. Len(log') \in Nat /\ DOMAIN log' = 1..Len(log')
    BY <2>1, AppendIsLog DEF IsLog
  <2>3. Len(log') = Len(log) + 1
    BY <2>1, <2>2
  <2> QED BY <2>1, <2>2, <2>3 DEF Grows
<1> QED BY <1>1, <1>2

\* What is found at a cut of the past stays what it is, and is in the log for ever.
LEMMA AtStable ==
    ASSUME Grows, NEW c \in 0..Len(log), NEW k, NEW f
    PROVE  /\ At(c, k, f)' = At(c, k, f)
           /\ At(c, k, f) \subseteq 1..c
           /\ At(c, k, f) \subseteq At(Len(log), k, f)'
<1>1. \A n \in 1..c : n \in 1..Len(log) /\ n \in 1..Len(log') /\ log'[n] = log[n]
  BY DEF Grows
<1>2. At(c, k, f)' = {n \in 1..c : log'[n].kind = k /\ log'[n].phase = f}
  BY DEF At
<1>3. At(Len(log), k, f)' = {n \in 1..Len(log') : log'[n].kind = k /\ log'[n].phase = f}
  BY DEF At
<1> QED BY <1>1, <1>2, <1>3 DEF At

\* So do the results, and what is said of them.
LEMMA ResultsStable ==
    ASSUME Grows, NEW c \in 0..Len(log), NEW f
    PROVE  /\ \A lane : ResultsAt(c, f, lane)' = ResultsAt(c, f, lane)
           /\ AllIn(c, f)' = AllIn(c, f)
           /\ Loadable(c, f)' = Loadable(c, f)
           /\ \A k : Has(c, k, f)' = Has(c, k, f)
           /\ \A k : Has(c, k, f) => Has(Len(log), k, f)'
           /\ \A says : SomeSays(c, f, says)' = SomeSays(c, f, says)
<1>1. \A k : /\ At(c, k, f)' = At(c, k, f) /\ At(c, k, f) \subseteq 1..c
             /\ At(c, k, f) \subseteq At(Len(log), k, f)'
  BY AtStable
<1>2. \A n \in 1..c : log'[n] = log[n]
  BY DEF Grows
<1>3. \A lane : ResultsAt(c, f, lane)' = ResultsAt(c, f, lane)
  BY <1>1, <1>2 DEF ResultsAt
<1>4. AllIn(c, f)' = AllIn(c, f) /\ Loadable(c, f)' = Loadable(c, f)
  BY <1>3 DEF AllIn, Loadable
<1>5. \A says : SomeSays(c, f, says)' = SomeSays(c, f, says)
  BY <1>1, <1>2 DEF SomeSays
<1> QED BY <1>1, <1>3, <1>4, <1>5 DEF Has

\* The views of a cut, by the commits before it.
LEMMA ViewsStable ==
    ASSUME Grows, LogFit, NEW c \in 0..Len(log), NEW f, NEW a
    PROVE  Display(f, c, a)' = Display(f, c, a)
<1>1. \A k, g : At(c, k, g)' = At(c, k, g) /\ At(c, k, g) \subseteq 1..c
  BY AtStable
<1>2. \A n \in 1..c : /\ log'[n] = log[n]
                      /\ \A k \in log[n].basis : log'[k] = log[k]
  BY DEF Grows, LogFit, FitAt, Placed
<1>3. BlindSeals(c)' = BlindSeals(c) /\ BlindSeals(c) \in SUBSET (1..c)
  BY <1>1 DEF BlindSeals
<1>4. \A lane : FoundBy(BlindSeals(c), lane)' = FoundBy(BlindSeals(c), lane)
  BY <1>2, <1>3 DEF FoundBy
<1>5. \A phases : Own(c, phases)' = Own(c, phases)
  BY <1>1, <1>4 DEF Own
<1>6. ViewOf(f, c)' = ViewOf(f, c)
  <2>1. GapView(c)' = GapView(c)
    BY <1>1, <1>3 DEF GapView, Gaps, Material
  <2>2. CumulativeView(c)' = CumulativeView(c)
    BY <1>1, <1>5 DEF CumulativeView, PriorCorpus
  <2>3. HoldoutView(c)' = HoldoutView(c)
    BY <1>5 DEF HoldoutView
  <2> QED BY <2>1, <2>2, <2>3 DEF ViewOf
<1>7. /\ RevealView(c)' = RevealView(c)
      /\ ShadowView(c)' = ShadowView(c)
      /\ ContradictionView(c)' = ContradictionView(c)
  BY <1>1 DEF RevealView, ClaimView, ShadowView, ContradictionView
<1> QED BY <1>6, <1>7 DEF Display

\* What was granted stays granted.
LEMMA UnderGrantStable ==
    ASSUME Grows, LogFit, NEW z, z.auth \in 0..Len(log), UnderGrant(z)
    PROVE  UnderGrant(z)'
<1>1. PICK g \in At(z.auth, "grant", z.phase) :
          log[g].about = z.about /\ log[g].basis = Display(z.phase, z.auth, z.about)
  BY DEF UnderGrant
<1>2. At(z.auth, "grant", z.phase)' = At(z.auth, "grant", z.phase) /\ g \in 1..z.auth
  BY <1>1, AtStable
<1>3. log'[g] = log[g]
  BY <1>2 DEF Grows
<1>4. Display(z.phase, z.auth, z.about)' = Display(z.phase, z.auth, z.about)
  BY ViewsStable
<1> QED BY <1>1, <1>2, <1>3, <1>4 DEF UnderGrant

\* A lane that was assigned and granted stays so.
LEMMA EntitledStable ==
    ASSUME Grows, LogFit, NEW c \in 0..Len(log), NEW z, z.auth \in 0..Len(log), Entitled(c, z)
    PROVE  Entitled(c, z)' /\ Entitled(Len(log), z)'
<1>1. /\ Has(c, "assignments", z.phase)' = Has(c, "assignments", z.phase)
      /\ Has(c, "assignments", z.phase) => Has(Len(log), "assignments", z.phase)'
  BY ResultsStable
<1>2. UnderGrant(z) => UnderGrant(z)'
  BY UnderGrantStable
<1> QED BY <1>1, <1>2 DEF Entitled

\* A completion that was earned stays earned.
LEMMA EarnedStable ==
    ASSUME Grows, NEW c \in 0..Len(log), NEW s
    PROVE  Earned(c, s)' = Earned(c, s)
  BY ResultsStable DEF Earned

\* The candidates of a cut of the past, and the newest of them, stay.
LEMMA LatestStable ==
    ASSUME Grows, NEW c \in 0..Len(log)
    PROVE  /\ Candidates5(c)' = Candidates5(c)
           /\ Latest(c)' = Latest(c)
           /\ \A n : ChallengedAt(c, n)' = ChallengedAt(c, n)
<1>1. Candidates5(c)' = Candidates5(c)
  BY AtStable DEF Candidates5
<1>2. Latest(c)' = Latest(c)
  BY <1>1 DEF Latest
<1>3. /\ At(c, "challenges", "E5B-CHALLENGE")' = At(c, "challenges", "E5B-CHALLENGE")
      /\ \A k \in At(c, "challenges", "E5B-CHALLENGE") : log'[k] = log[k]
  BY AtStable DEF Grows
<1>4. \A n : ChallengedAt(c, n)' = ChallengedAt(c, n)
  BY <1>3 DEF ChallengedAt
<1> QED BY <1>1, <1>2, <1>4

\* A commit stays what it has to be.
LEMMA FitStable ==
    ASSUME Grows, LogFit, NEW n \in 1..Len(log)
    PROVE  FitAt(n)'
<1>1. /\ log'[n] = log[n]
      /\ n - 1 \in 0..Len(log) /\ n \in 0..Len(log)
      /\ n \in DOMAIN log
  BY DEF Grows
<1>2. FitAt(n)
  BY <1>1 DEF LogFit
<1>3. Placed(n)'
  BY <1>1, <1>2 DEF FitAt, Placed
<1>4. SealFit(n)'
  BY <1>1, <1>2, ResultsStable DEF FitAt, SealFit
<1>5. GrantFit(n)'
  BY <1>1, <1>2, ViewsStable, ResultsStable, LatestStable DEF FitAt, GrantFit
<1>6. ResultFit(n)'
  <2>1. ASSUME NEW z, z = log[n], z.kind \in {"evidence", "result"}, z.phase # None
        PROVE  Entitled(n - 1, z)'
    <3>1. Entitled(n - 1, z) /\ z.auth \in 0..Len(log)
      BY <1>1, <1>2, <2>1 DEF FitAt, ResultFit, Placed
    <3> QED BY <1>1, <3>1, EntitledStable
  <2>2. ASSUME log'[n].kind \in {"evidence", "result"}, log'[n].phase # None
        PROVE  Entitled(n - 1, log[n])'
    BY <1>1, <2>1, <2>2
  <2> QED BY <1>1, <2>2 DEF ResultFit
<1>7. CompletionFit(n)'
  <2>1. \A s : NamesAllResults(n, s)' = NamesAllResults(n, s)
    BY <1>1, AtStable DEF NamesAllResults
  <2> QED BY <1>1, <1>2, <2>1, ResultsStable, EarnedStable DEF FitAt, CompletionFit
<1>8. /\ \A k \in log[n].basis : log'[k] = log[k]
      /\ \A kind : Named(n, kind)' = Named(n, kind)
  BY <1>1, <1>2 DEF FitAt, Placed, Named, Grows
<1>9. ChallengeFit(n)'
  BY <1>1, <1>2, <1>8, LatestStable DEF FitAt, ChallengeFit
<1>10. ChallengedFit(n)'
  <2>1. /\ Latest(n - 1)' = Latest(n - 1)
        /\ \A m : ChallengedAt(n - 1, m)' = ChallengedAt(n - 1, m)
    BY <1>1, LatestStable
  <2>2. ChallengedAt(n - 1, Latest(n - 1))' = ChallengedAt(n - 1, Latest(n - 1))
    <3>1. \A m : {k \in At(n - 1, "challenges", "E5B-CHALLENGE") : log[k].about = m}'
                   = {k \in At(n - 1, "challenges", "E5B-CHALLENGE") : log[k].about = m}
      BY <2>1 DEF ChallengedAt
    <3> QED BY <2>1, <3>1 DEF ChallengedAt
  <2> QED BY <1>1, <1>2, <1>8, <2>1, <2>2 DEF FitAt, ChallengedFit
<1> QED BY <1>3, <1>4, <1>5, <1>6, <1>7, <1>9, <1>10 DEF FitAt

-----------------------------------------------------------------------------
\* What a new commit has to be, at the head.

\* What completions and challenges at cut c have to be, as FitAt says it of the log.
Made(c, z) ==
    /\ z.kind = "completion" /\ (\E f \in Phase : StageOf(f) = z.phase /\ Has(c, "assignments", f)) =>
          /\ \A f \in Phase : StageOf(f) = z.phase => At(c, "result", f) \subseteq z.basis
          /\ (z.phase = "E2" => Loadable(c, "E2-CONTRADICTION")) => Earned(c, z.phase)
    /\ z.kind = "completion" /\ z.phase = "E5" =>
          /\ {k \in z.basis : log[k].kind = "candidate"} = {Latest(c)}
          /\ {k \in z.basis : log[k].kind = "challenges"} # {}
          /\ {k \in z.basis : log[k].kind = "challenges"} \subseteq ChallengedAt(c, Latest(c))
    /\ z.kind = "challenges" /\ z.phase = "E5B-CHALLENGE" =>
          /\ z.about \in Candidates5(c)
          /\ \A m \in z.basis : log[m].kind # "findings" => z.about \in {m, log[m].about}

\* What a new commit has to be at the head.
NewFit(z) ==
    /\ z.auth \in 0..Len(log) /\ z.about \in 0..Len(log) /\ z.basis \subseteq 1..Len(log)
    /\ z.kind = "checkpoints" => AllIn(Len(log), z.phase)
    /\ z.kind = "grant" =>
          /\ z.phase \in Granted
          /\ z.basis = Display(z.phase, Len(log), z.about)
          /\ IF z.phase = "E5B-CHALLENGE" THEN z.about \in Candidates5(Len(log)) ELSE z.about = 0
          /\ z.phase \in Revealing => Has(Len(log), "checkpoints", BlindOf(z.phase))
    /\ z.kind \in {"evidence", "result"} /\ z.phase # None => Entitled(Len(log), z)
    /\ Made(Len(log), z)

\* No view shows grants.
LEMMA GrantIsNotShown ==
    ASSUME Grows, LogFit, NEW n, n = Len(log) + 1, n \in DOMAIN log', log'[n].kind = "grant",
           NEW f, NEW a
    PROVE  Display(f, n, a)' = Display(f, n - 1, a)
<1>1. n - 1 \in 0..Len(log) /\ n - 1 = Len(log)
  BY DEF Grows
<1>2. Display(f, n - 1, a)' = Display(f, n - 1, a)
  BY <1>1, ViewsStable
<1>3. \A k, g : k # "grant" => At(n, k, g)' = At(n - 1, k, g)'
  BY <1>1 DEF At, Grows
<1>4. BlindSeals(n)' = BlindSeals(n - 1)'
  BY <1>3 DEF BlindSeals
<1>5. \A phases : Own(n, phases)' = Own(n - 1, phases)'
  BY <1>3, <1>4 DEF Own
<1>6. ViewOf(f, n)' = ViewOf(f, n - 1)'
  <2>1. GapView(n)' = GapView(n - 1)'
    BY <1>3, <1>4 DEF GapView, Gaps, Material
  <2>2. CumulativeView(n)' = CumulativeView(n - 1)'
    BY <1>3, <1>5 DEF CumulativeView, PriorCorpus
  <2>3. HoldoutView(n)' = HoldoutView(n - 1)'
    BY <1>5 DEF HoldoutView
  <2> QED BY <2>1, <2>2, <2>3 DEF ViewOf
<1>7. /\ RevealView(n)' = RevealView(n - 1)'
      /\ ShadowView(n)' = ShadowView(n - 1)'
      /\ ContradictionView(n)' = ContradictionView(n - 1)'
  BY <1>3 DEF RevealView, ClaimView, ShadowView, ContradictionView
<1> QED BY <1>2, <1>6, <1>7 DEF Display

\* The commit at the new head is what it has to be.
LEMMA NewIsFit ==
    ASSUME Grows, LogFit, NEW z, NewFit(z), NEW n, n = Len(log) + 1,
           n \in DOMAIN log', log'[n] = z
    PROVE  FitAt(n)'
<1>1. n - 1 \in 0..Len(log) /\ n - 1 = Len(log) /\ Len(log) \in 0..Len(log)
  BY DEF Grows
<1>2. Placed(n)'
  BY <1>1 DEF NewFit, Placed
<1>3. SealFit(n)'
  BY <1>1, ResultsStable DEF NewFit, SealFit
<1>4. GrantFit(n)'
  <2>1. z.kind = "grant" => Display(z.phase, n, z.about)' = Display(z.phase, Len(log), z.about)
    BY <1>1, GrantIsNotShown
  <2>2. \A f : Has(n - 1, "checkpoints", f)' = Has(Len(log), "checkpoints", f)
    BY <1>1, ResultsStable
  <2>3. Has(n - 1, "checkpoints", BlindOf(z.phase))' = Has(Len(log), "checkpoints", BlindOf(z.phase))
    BY <2>2 DEF BlindOf
  <2>4. Candidates5(n - 1)' = Candidates5(Len(log))
    BY <1>1, LatestStable
  <2> QED BY <2>1, <2>2, <2>3, <2>4 DEF NewFit, GrantFit
<1>5. ResultFit(n)'
  <2>1. z.kind \in {"evidence", "result"} /\ z.phase # None => Entitled(n - 1, z)'
    BY <1>1, EntitledStable DEF NewFit
  <2> QED BY <2>1 DEF ResultFit
<1>6. CompletionFit(n)'
  <2>1. \A f : At(n - 1, "result", f)' = At(Len(log), "result", f)
    BY <1>1, AtStable
  <2>2. /\ \A f : Has(n - 1, "assignments", f)' = Has(Len(log), "assignments", f)
        /\ Loadable(n - 1, "E2-CONTRADICTION")' = Loadable(Len(log), "E2-CONTRADICTION")
    BY <1>1, ResultsStable
  <2>3. \A s : Earned(n - 1, s)' = Earned(Len(log), s)
    BY <1>1, EarnedStable
  <2>4. \A s : NamesAllResults(n, s)' <=>
                 \A f \in Phase : StageOf(f) = s => At(Len(log), "result", f) \subseteq z.basis
    BY <2>1 DEF NamesAllResults
  <2> QED BY <2>2, <2>3, <2>4 DEF NewFit, Made, CompletionFit
<1>7. /\ \A k \in z.basis : log'[k] = log[k]
      /\ \A kind : Named(n, kind)' = {k \in z.basis : log[k].kind = kind}
  BY <1>1 DEF NewFit, Named, Grows
<1>8. /\ Candidates5(n - 1)' = Candidates5(Len(log))
      /\ Latest(n - 1)' = Latest(Len(log))
      /\ \A m : ChallengedAt(n - 1, m)' = ChallengedAt(Len(log), m)
  BY <1>1, LatestStable
<1>9. ChallengeFit(n)'
  BY <1>7, <1>8 DEF NewFit, Made, ChallengeFit
<1>10. ChallengedFit(n)'
  <2>1. \A m : {k \in At(n - 1, "challenges", "E5B-CHALLENGE") : log[k].about = m}'
                 = ChallengedAt(Len(log), m)
    BY <1>8 DEF ChallengedAt
  <2>2. ChallengedAt(n - 1, Latest(n - 1))' = ChallengedAt(Len(log), Latest(Len(log)))
    BY <1>8, <2>1 DEF ChallengedAt
  <2>3. Latest(n - 1)' = Latest(Len(log))
    BY <1>8
  <2>4. z.kind = "completion" /\ z.phase = "E5" =>
          /\ Named(n, "candidate")' = {Latest(Len(log))}
          /\ Named(n, "challenges")' # {}
          /\ Named(n, "challenges")' \subseteq ChallengedAt(Len(log), Latest(Len(log)))
    BY <1>7 DEF NewFit, Made
  <2> QED BY <2>2, <2>3, <2>4 DEF ChallengedFit
<1> QED BY <1>2, <1>3, <1>4, <1>5, <1>6, <1>9, <1>10 DEF FitAt

\* The log stays alone, or grows by what fits.
Fitting == log' = log \/ \E z : NewFit(z) /\ log' = Append(log, z)

\* The log only grows.
LEMMA FittingGrows ==
    ASSUME LogFit, Fitting
    PROVE  Grows
  BY AppendGrows DEF LogFit, Fitting

\* A log of fit commits with one more that fits is one.
LEMMA FittingKeepsLog ==
    ASSUME LogFit, Fitting
    PROVE  LogFit'
<1>1. Grows
  BY FittingGrows
<1>2. \A n \in 1..Len(log) : FitAt(n)'
  BY <1>1, FitStable
<1>3. CASE log' = log
  BY <1>1, <1>2, <1>3 DEF LogFit, Grows
<1>4. ASSUME NEW z, NewFit(z), log' = Append(log, z)
      PROVE  LogFit'
  <2>1. DOMAIN log' = 1..(Len(log) + 1) /\ log'[Len(log) + 1] = z
    BY <1>4, AppendIsLog DEF LogFit
  <2>2. ASSUME NEW n, n = Len(log) + 1
        PROVE  FitAt(n)'
    BY <1>1, <1>4, <2>1, <2>2, NewIsFit DEF Grows
  <2>3. \A n \in DOMAIN log' : n \in 1..Len(log) \/ n = Len(log) + 1
    BY <1>1, <2>1 DEF Grows
  <2> QED BY <1>1, <1>2, <2>2, <2>3 DEF LogFit, Grows
<1> QED BY <1>3, <1>4 DEF Fitting

-----------------------------------------------------------------------------
\* The steps left of a call, whatever the log.

\* The steps there are.
Doings == {"decide", "check", "before", "baseline", "assign", "grant", "publish", "files", "load",
           "look", "begin", "result", "reload", "resume", "seal", "synthesize", "finalize",
           "resolve", "succeed", "complete", "validate", "fidelity", "canonicalize", "freeze",
           "materialize"}

AStep == [do : Doings, phase : Phase \cup Stage \cup {None}]

\* Step (do, f) comes before the i-th.
Ahead(t, i, do, f) == \E j \in 1..(i - 1) : t[j] = Step(do, f)

\* The grant of f comes before the i-th, and between them the cut is compared only.
GrantAhead(t, i, f) ==
    \E j \in 1..(i - 1) :
        t[j] = Step("grant", f) /\ \A k \in (j + 1)..(i - 1) : t[k].do = "publish"

\* A reveal is granted after its check, files are published after the assignment and
\* the grant, and E2 is completed after resolving and succeeding, in this order.
Program(t) ==
    /\ t \in Seq(AStep)
    /\ \A i \in DOMAIN t :
          /\ t[i].do = "grant" /\ t[i].phase \in Revealing => Ahead(t, i, "before", t[i].phase)
          /\ t[i].do = "files" =>
                /\ t[i].phase \in Phase
                /\ Ahead(t, i, "assign", t[i].phase)
                /\ t[i].phase \in Granted => GrantAhead(t, i, t[i].phase)
          /\ t[i].do = "complete" =>
                \E k \in 1..(i - 1) : /\ t[k].do = "succeed"
                                      /\ \E j \in 1..(k - 1) : t[j].do = "resolve"

\* From the i-th step on, files of a challenge are published, and nothing else done.
Challenging(t, i) ==
    /\ \E j \in i..Len(t) : t[j].do = "files"
    /\ \A j \in i..Len(t) :
          /\ t[j].do \in {"assign", "grant", "publish", "files", "load"}
          /\ t[j].do = "grant" => t[j].phase = "E5B-CHALLENGE"

\* A candidate is frozen for its challenge.
Frozen(t) == \A i \in DOMAIN t : t[i].do = "freeze" => Challenging(t, i + 1)

Proper(t) == Program(t) /\ Frozen(t)

Unfrozen(t) == \A i \in DOMAIN t : t[i].do # "freeze"

-----------------------------------------------------------------------------
\* The calls are proper.

\* One call after another.
LEMMA ConcatFits ==
    ASSUME NEW s, Program(s), NEW t, Program(t)
    PROVE  Program(s \o t)
<1> DEFINE u == s \o t
<1>1. /\ s \in Seq(AStep) /\ t \in Seq(AStep) /\ u \in Seq(AStep)
      /\ Len(s) \in Nat /\ Len(t) \in Nat
      /\ DOMAIN s = 1..Len(s) /\ DOMAIN t = 1..Len(t) /\ DOMAIN u = 1..(Len(s) + Len(t))
      /\ \A i \in 1..Len(s) : u[i] = s[i]
      /\ \A i \in 1..Len(t) : u[i + Len(s)] = t[i]
  BY DEF Program
<1> HIDE DEF u
<1>2. \A i \in DOMAIN u : i \in DOMAIN s \/ \E k \in DOMAIN t : i = k + Len(s)
  <2> SUFFICES ASSUME NEW i \in DOMAIN u, i \notin DOMAIN s
               PROVE  \E k \in DOMAIN t : i = k + Len(s)
    OBVIOUS
  <2>1. i - Len(s) \in DOMAIN t /\ i = (i - Len(s)) + Len(s)
    BY <1>1
  <2> QED BY <2>1
<1> DEFINE Fine(v, i) ==
          /\ v[i].do = "grant" /\ v[i].phase \in Revealing => Ahead(v, i, "before", v[i].phase)
          /\ v[i].do = "files" =>
                /\ v[i].phase \in Phase
                /\ Ahead(v, i, "assign", v[i].phase)
                /\ v[i].phase \in Granted => GrantAhead(v, i, v[i].phase)
          /\ v[i].do = "complete" =>
                \E k \in 1..(i - 1) : /\ v[k].do = "succeed"
                                      /\ \E j \in 1..(k - 1) : v[j].do = "resolve"
<1>3. ASSUME NEW i \in DOMAIN s
      PROVE  Fine(u, i)
  <2>1. Fine(s, i)
    BY DEF Program
  <2>2. \A k \in 1..i : k \in 1..Len(s) /\ u[k] = s[k]
    BY <1>1
  <2>3. \A do, f : Ahead(s, i, do, f) => Ahead(u, i, do, f)
    BY <2>2 DEF Ahead
  <2>4. \A f : GrantAhead(s, i, f) => GrantAhead(u, i, f)
    <3> SUFFICES ASSUME NEW f, GrantAhead(s, i, f)
                 PROVE  GrantAhead(u, i, f)
      OBVIOUS
    <3>1. PICK j \in 1..(i - 1) :
             s[j] = Step("grant", f) /\ \A k \in (j + 1)..(i - 1) : s[k].do = "publish"
      BY DEF GrantAhead
    <3>2. j \in 1..i /\ \A k \in (j + 1)..(i - 1) : k \in 1..i
      BY <1>1
    <3>3. u[j] = Step("grant", f) /\ \A k \in (j + 1)..(i - 1) : u[k].do = "publish"
      BY <2>2, <3>1, <3>2
    <3> QED BY <3>3 DEF GrantAhead
  <2>5. (\E k \in 1..(i - 1) : s[k].do = "succeed" /\ \E j \in 1..(k - 1) : s[j].do = "resolve")
        => \E k \in 1..(i - 1) : u[k].do = "succeed" /\ \E j \in 1..(k - 1) : u[j].do = "resolve"
    BY <1>1, <2>2
  <2>6. u[i] = s[i]
    BY <2>2, <1>1
  <2> QED BY <2>1, <2>3, <2>4, <2>5, <2>6
<1>4. ASSUME NEW i \in DOMAIN t
      PROVE  Fine(u, i + Len(s))
  <2>1. Fine(t, i)
    BY DEF Program
  <2>2. /\ \A k \in 1..i : k \in 1..Len(t) /\ u[k + Len(s)] = t[k]
        /\ \A k \in 1..(i - 1) : k + Len(s) \in 1..((i + Len(s)) - 1)
    BY <1>1
  <2>3. \A do, f : Ahead(t, i, do, f) => Ahead(u, i + Len(s), do, f)
    <3> SUFFICES ASSUME NEW do, NEW f, Ahead(t, i, do, f)
                 PROVE  Ahead(u, i + Len(s), do, f)
      OBVIOUS
    <3>1. PICK j \in 1..(i - 1) : t[j] = Step(do, f)
      BY DEF Ahead
    <3>2. u[j + Len(s)] = Step(do, f) /\ j + Len(s) \in 1..((i + Len(s)) - 1)
      BY <1>1, <2>2, <3>1
    <3> QED BY <3>2 DEF Ahead
  <2>4. \A f : GrantAhead(t, i, f) => GrantAhead(u, i + Len(s), f)
    <3> SUFFICES ASSUME NEW f, GrantAhead(t, i, f)
                 PROVE  GrantAhead(u, i + Len(s), f)
      OBVIOUS
    <3>1. PICK j \in 1..(i - 1) :
             t[j] = Step("grant", f) /\ \A k \in (j + 1)..(i - 1) : t[k].do = "publish"
      BY DEF GrantAhead
    <3>2. u[j + Len(s)] = Step("grant", f) /\ j + Len(s) \in 1..((i + Len(s)) - 1)
      <4>1. j \in 1..i /\ t[j] = Step("grant", f)
        BY <1>1, <3>1
      <4> QED BY <2>2, <4>1
    <3>3. ASSUME NEW k \in (j + Len(s) + 1)..((i + Len(s)) - 1)
          PROVE  u[k].do = "publish"
      <4>1. k - Len(s) \in (j + 1)..(i - 1) /\ k - Len(s) \in 1..i /\ k = (k - Len(s)) + Len(s)
        BY <1>1
      <4> QED BY <2>2, <3>1, <4>1
    <3> QED BY <3>2, <3>3 DEF GrantAhead
  <2>5. (\E k \in 1..(i - 1) : t[k].do = "succeed" /\ \E j \in 1..(k - 1) : t[j].do = "resolve")
        => \E k \in 1..((i + Len(s)) - 1) :
               u[k].do = "succeed" /\ \E j \in 1..(k - 1) : u[j].do = "resolve"
    <3> SUFFICES ASSUME NEW k \in 1..(i - 1), t[k].do = "succeed",
                        NEW j \in 1..(k - 1), t[j].do = "resolve"
                 PROVE  \E l \in 1..((i + Len(s)) - 1) :
                            u[l].do = "succeed" /\ \E m \in 1..(l - 1) : u[m].do = "resolve"
      OBVIOUS
    <3>1. /\ k + Len(s) \in 1..((i + Len(s)) - 1) /\ u[k + Len(s)].do = "succeed"
          /\ j + Len(s) \in 1..((k + Len(s)) - 1) /\ u[j + Len(s)].do = "resolve"
      BY <1>1, <2>2
    <3> QED BY <3>1
  <2>6. u[i + Len(s)] = t[i]
    BY <1>1
  <2> QED BY <2>1, <2>3, <2>4, <2>5, <2>6
<1>5. \A i \in DOMAIN u : Fine(u, i)
  BY <1>2, <1>3, <1>4
<1> QED BY <1>1, <1>5 DEF Program, u

\* Steps that grant, publish, complete and freeze nothing come in any order.
LEMMA PlainFits ==
    ASSUME NEW t, t \in Seq(AStep),
           \A i \in DOMAIN t : t[i].do \notin {"grant", "files", "complete", "freeze"}
    PROVE  Program(t) /\ Unfrozen(t)
  BY DEF Program, Unfrozen

\* Where nothing is frozen nothing has to follow.
LEMMA UnfrozenIsFrozen ==
    ASSUME NEW t, Unfrozen(t)
    PROVE  Frozen(t)
  BY DEF Unfrozen, Frozen

\* One call after another freezes nothing if neither does.
LEMMA UnfrozenConcat ==
    ASSUME NEW s \in Seq(AStep), Unfrozen(s), NEW t \in Seq(AStep), Unfrozen(t)
    PROVE  Unfrozen(s \o t)
<1>1. \A i \in DOMAIN (s \o t) :
         (s \o t)[i] = IF i <= Len(s) THEN s[i] ELSE t[i - Len(s)]
  OBVIOUS
<1>2. \A i \in DOMAIN (s \o t) : i <= Len(s) => i \in DOMAIN s
  OBVIOUS
<1>3. \A i \in DOMAIN (s \o t) : ~(i <= Len(s)) => i - Len(s) \in DOMAIN t
  OBVIOUS
<1> QED BY <1>1, <1>2, <1>3 DEF Unfrozen

\* One step, and two and more of one phase.
LEMMA StepsAre ==
    ASSUME NEW f \in Phase \cup Stage \cup {None}, NEW d \in Seq(Doings)
    PROVE  /\ Steps(f, d) \in Seq(AStep)
           /\ DOMAIN Steps(f, d) = DOMAIN d /\ Len(Steps(f, d)) = Len(d)
           /\ \A i \in DOMAIN d : /\ Steps(f, d)[i] = Step(d[i], f)
                                  /\ Steps(f, d)[i].do = d[i] /\ Steps(f, d)[i].phase = f
<1>1. \A i \in DOMAIN d : Step(d[i], f) \in AStep /\ Step(d[i], f).do = d[i] /\ Step(d[i], f).phase = f
  BY DEF Step, AStep
<1>2. Steps(f, d) = [i \in 1..Len(d) |-> Step(d[i], f)]
  BY DEF Steps
<1>3. Steps(f, d) \in Seq(AStep)
  BY <1>1, <1>2
<1> QED BY <1>1, <1>2, <1>3

\* Steps with nothing to go before them.
LEMMA PlainSteps ==
    ASSUME NEW f \in Phase \cup Stage \cup {None}, NEW d \in Seq(Doings),
           \A i \in DOMAIN d : d[i] \notin {"grant", "files", "complete", "freeze"}
    PROVE  /\ Steps(f, d) \in Seq(AStep)
           /\ Program(Steps(f, d)) /\ Unfrozen(Steps(f, d)) /\ Frozen(Steps(f, d))
<1>1. \A i \in DOMAIN Steps(f, d) :
         Steps(f, d)[i].do \notin {"grant", "files", "complete", "freeze"}
  BY StepsAre
<1>2. Steps(f, d) \in Seq(AStep)
  BY StepsAre
<1>3. Program(Steps(f, d)) /\ Unfrozen(Steps(f, d))
  BY <1>1, <1>2, PlainFits
<1> QED BY <1>2, <1>3, UnfrozenIsFrozen

\* Two sequences, one after the other.
LEMMA Joined ==
    ASSUME NEW S, NEW s \in Seq(S), NEW t \in Seq(S)
    PROVE  /\ s \o t \in Seq(S) /\ Len(s \o t) = Len(s) + Len(t) /\ Len(s) \in Nat /\ Len(t) \in Nat
           /\ DOMAIN (s \o t) = 1..(Len(s) + Len(t))
           /\ \A i \in 1..Len(s) : (s \o t)[i] = s[i]
           /\ \A i \in 1..Len(t) : (s \o t)[Len(s) + i] = t[i]
  OBVIOUS

\* The preparation of a phase: k steps before the assignment, m for its grant.
LEMMA PreparationIs ==
    ASSUME NEW f \in Phase
    PROVE  \E k \in {0, 1}, m \in {0, 2} :
             LET t == Preparation(f)
             IN  /\ t \in Seq(AStep) /\ Len(t) = k + m + 3 /\ DOMAIN t = 1..(k + m + 3)
                 /\ k = 1 => t[1].do \in {"before", "baseline"}
                 /\ f \in Checked => k = 1 /\ t[1] = Step("before", f)
                 /\ f = "E5B-CHALLENGE" => k = 0
                 /\ m = IF f \in Granted THEN 2 ELSE 0
                 /\ t[k + 1] = Step("assign", f) /\ t[k + 1].do = "assign"
                 /\ m = 2 => /\ t[k + 2] = Step("grant", f) /\ t[k + 2].do = "grant"
                             /\ t[k + 3].do = "publish"
                 /\ t[k + m + 2].do = "files" /\ t[k + m + 3].do = "load"
                 /\ \A i \in DOMAIN t : t[i].phase = f
<1> DEFINE g == IF f \in Granted THEN << "grant", "publish" >> ELSE << >>
           a == << "assign" >>
           e == << "files", "load" >>
           o == Opening(f)
           w == o \o a \o g \o e
           k == Len(o)
           m == Len(g)
           t == Steps(f, w)
<1>1. /\ a \in Seq(Doings) /\ Len(a) = 1 /\ a[1] = "assign"
      /\ e \in Seq(Doings) /\ Len(e) = 2 /\ e[1] = "files" /\ e[2] = "load"
  BY DEF Doings
<1>2. /\ g \in Seq(Doings) /\ Len(g) = IF f \in Granted THEN 2 ELSE 0
      /\ f \in Granted => g[1] = "grant" /\ g[2] = "publish"
  <2>1. /\ << "grant", "publish" >> \in Seq(Doings) /\ Len(<< "grant", "publish" >>) = 2
        /\ << >> \in Seq(Doings) /\ Len(<< >>) = 0
    BY DEF Doings
  <2> QED BY <2>1
<1>3. /\ o \in Seq(Doings) /\ Len(o) \in {0, 1}
      /\ Len(o) = 1 => o[1] \in {"before", "baseline"}
      /\ f \in Checked => Len(o) = 1 /\ o[1] = "before"
      /\ f = "E5B-CHALLENGE" => Len(o) = 0
  <2>1. /\ << "before" >> \in Seq(Doings) /\ Len(<< "before" >>) = 1
        /\ << "baseline" >> \in Seq(Doings) /\ Len(<< "baseline" >>) = 1
        /\ << >> \in Seq(Doings) /\ Len(<< >>) = 0
    BY DEF Doings
  <2> QED BY <2>1 DEF Opening, Checked
<1>4. Preparation(f) = t
  BY DEF Preparation
<1> HIDE DEF g, a, e, o
<1>5. /\ o \o a \in Seq(Doings) /\ Len(o \o a) = k + 1
      /\ \A i \in 1..k : (o \o a)[i] = o[i]
      /\ (o \o a)[k + 1] = "assign"
  BY <1>1, <1>3, Joined
<1> DEFINE oa == o \o a
<1> HIDE DEF oa
<1>6. /\ oa \o g \in Seq(Doings) /\ Len(oa \o g) = k + m + 1
      /\ \A i \in 1..(k + 1) : (oa \o g)[i] = oa[i]
      /\ m = 2 => (oa \o g)[k + 2] = "grant" /\ (oa \o g)[k + 3] = "publish"
  <2>1. oa \in Seq(Doings) /\ Len(oa) = k + 1 /\ k \in {0, 1} /\ m \in {0, 2}
    BY <1>2, <1>3, <1>5 DEF oa
  <2>2. /\ oa \o g \in Seq(Doings) /\ Len(oa \o g) = Len(oa) + m
        /\ \A i \in 1..Len(oa) : (oa \o g)[i] = oa[i]
        /\ \A i \in 1..m : (oa \o g)[Len(oa) + i] = g[i]
    BY <1>2, <2>1, Joined
  <2>3. m = 2 => (oa \o g)[Len(oa) + 1] = g[1] /\ (oa \o g)[Len(oa) + 2] = g[2]
    BY <2>1, <2>2
  <2>4. Len(oa) + 1 = k + 2 /\ Len(oa) + 2 = k + 3 /\ Len(oa) + m = k + m + 1
    BY <2>1
  <2> QED BY <1>2, <2>1, <2>2, <2>3, <2>4
<1> DEFINE oag == oa \o g
<1> HIDE DEF oag
<1>7. /\ w \in Seq(Doings) /\ Len(w) = k + m + 3 /\ k \in {0, 1} /\ m \in {0, 2}
      /\ \A i \in 1..(k + m + 1) : w[i] = oag[i]
      /\ w[k + m + 2] = "files" /\ w[k + m + 3] = "load"
  <2>1. oag \in Seq(Doings) /\ Len(oag) = k + m + 1 /\ k \in {0, 1} /\ m \in {0, 2} /\ w = oag \o e
    BY <1>2, <1>3, <1>6 DEF oag, oa
  <2>2. /\ w \in Seq(Doings) /\ Len(w) = Len(oag) + 2
        /\ \A i \in 1..Len(oag) : w[i] = oag[i]
        /\ \A i \in 1..2 : w[Len(oag) + i] = e[i]
    <3>1. /\ oag \o e \in Seq(Doings) /\ Len(oag \o e) = Len(oag) + 2
          /\ \A i \in 1..Len(oag) : (oag \o e)[i] = oag[i]
          /\ \A i \in 1..2 : (oag \o e)[Len(oag) + i] = e[i]
      <4>1. oag \in Seq(Doings) /\ e \in Seq(Doings) /\ Len(e) = 2
        BY <1>1, <2>1
      <4> HIDE DEF w
      <4> QED BY <4>1, Joined
    <3> HIDE DEF w
    <3> QED BY <2>1, <3>1
  <2>3. w[Len(oag) + 1] = e[1] /\ w[Len(oag) + 2] = e[2]
    BY <2>2
  <2>4. Len(oag) + 1 = k + m + 2 /\ Len(oag) + 2 = k + m + 3
    BY <2>1
  <2> QED BY <1>1, <2>1, <2>2, <2>3, <2>4
<1> HIDE DEF w
<1>8. /\ k = 1 => w[1] \in {"before", "baseline"}
      /\ f \in Checked => k = 1 /\ w[1] = "before"
      /\ w[k + 1] = "assign"
      /\ m = 2 => w[k + 2] = "grant" /\ w[k + 3] = "publish"
  <2>1. \A i \in 1..(k + 1) : w[i] = oa[i]
    BY <1>6, <1>7 DEF oag
  <2>2. m = 2 => w[k + 2] = oag[k + 2] /\ w[k + 3] = oag[k + 3]
    BY <1>7
  <2>3. \A i \in 1..k : oa[i] = o[i]
    BY <1>5 DEF oa
  <2>4. k = 1 => w[1] = o[1]
    BY <1>7, <2>1, <2>3
  <2>5. w[k + 1] = oa[k + 1]
    BY <1>7, <2>1
  <2> QED BY <1>3, <1>5, <1>6, <2>2, <2>4, <2>5 DEF oa, oag
<1>9. f \in Phase \cup Stage \cup {None}
  OBVIOUS
<1>10. /\ t \in Seq(AStep) /\ DOMAIN t = 1..(k + m + 3) /\ Len(t) = k + m + 3
       /\ \A i \in 1..(k + m + 3) : t[i] = Step(w[i], f) /\ t[i].do = w[i] /\ t[i].phase = f
  <2>1. DOMAIN w = 1..(k + m + 3)
    BY <1>7
  <2> QED BY <1>7, <1>9, <2>1, StepsAre
<1>11. /\ k + 1 \in 1..(k + m + 3) /\ k + m + 2 \in 1..(k + m + 3) /\ k + m + 3 \in 1..(k + m + 3)
       /\ 1 \in 1..(k + m + 3) /\ m = 2 => k + 2 \in 1..(k + m + 3) /\ k + 3 \in 1..(k + m + 3)
  BY <1>7
<1> HIDE DEF k, m, t
<1>12. f = "E5B-CHALLENGE" => k = 0
  BY <1>3 DEF k
<1>13. m = IF f \in Granted THEN 2 ELSE 0
  BY <1>2 DEF m
<1> QED BY <1>4, <1>7, <1>8, <1>10, <1>11, <1>12, <1>13

\* The preparation of a phase is a proper call, and that of the challenge follows the freeze.
LEMMA PreparationFits ==
    ASSUME NEW f \in Phase
    PROVE  /\ Preparation(f) \in Seq(AStep)
           /\ Program(Preparation(f)) /\ Unfrozen(Preparation(f))
           /\ f = "E5B-CHALLENGE" => Challenging(Preparation(f), 1)
<1> DEFINE t == Preparation(f)
<1>1. PICK k \in {0, 1}, m \in {0, 2} :
         /\ t \in Seq(AStep) /\ Len(t) = k + m + 3 /\ DOMAIN t = 1..(k + m + 3)
         /\ k = 1 => t[1].do \in {"before", "baseline"}
         /\ f \in Checked => k = 1 /\ t[1] = Step("before", f)
         /\ f = "E5B-CHALLENGE" => k = 0
         /\ m = IF f \in Granted THEN 2 ELSE 0
         /\ t[k + 1] = Step("assign", f) /\ t[k + 1].do = "assign"
         /\ m = 2 => /\ t[k + 2] = Step("grant", f) /\ t[k + 2].do = "grant"
                     /\ t[k + 3].do = "publish"
         /\ t[k + m + 2].do = "files" /\ t[k + m + 3].do = "load"
         /\ \A i \in DOMAIN t : t[i].phase = f
  BY PreparationIs
<1> HIDE DEF t
<1>2. \A i \in DOMAIN t :
         /\ t[i].do \in {"before", "baseline", "assign", "grant", "publish", "files", "load"}
         /\ t[i].do = "files" => i = k + m + 2
         /\ t[i].do = "grant" => i = k + 2 /\ m = 2
         /\ t[i].do = "before" \/ t[i].do = "baseline" => k = 1
  <2> TAKE i \in DOMAIN t
  <2>1. \/ k = 1 /\ i = 1
        \/ i = k + 1
        \/ m = 2 /\ (i = k + 2 \/ i = k + 3)
        \/ i = k + m + 2
        \/ i = k + m + 3
    BY <1>1
  <2> QED BY <1>1, <2>1
<1>3. Ahead(t, k + m + 2, "assign", f)
  BY <1>1 DEF Ahead
<1>4. m = 2 => GrantAhead(t, k + m + 2, f)
  BY <1>1 DEF GrantAhead
<1>5. f \in Revealing => Ahead(t, k + 2, "before", f)
  BY <1>1 DEF Ahead, Revealing, Checked
<1>6. Program(t)
  BY <1>1, <1>2, <1>3, <1>4, <1>5 DEF Program
<1>7. Unfrozen(t)
  BY <1>2 DEF Unfrozen
<1>8. f = "E5B-CHALLENGE" => Challenging(t, 1)
  <2> SUFFICES ASSUME f = "E5B-CHALLENGE"
               PROVE  Challenging(t, 1)
    OBVIOUS
  <2> QED BY <1>1, <1>2 DEF Challenging
<1> QED BY <1>1, <1>6, <1>7, <1>8 DEF t

\* Steps(f, d) one by one.
LEMMA ResolutionFits ==
    Program(Steps("E2-CONTRADICTION", << "resolve", "succeed", "complete" >>))
<1> DEFINE d == << "resolve", "succeed", "complete" >>
           t == Steps("E2-CONTRADICTION", d)
<1>1. /\ d \in Seq(Doings) /\ DOMAIN d = 1..3
      /\ d[1] = "resolve" /\ d[2] = "succeed" /\ d[3] = "complete"
  BY DEF Doings
<1>2. "E2-CONTRADICTION" \in Phase \cup Stage \cup {None}
  BY DEF Phase
<1> HIDE DEF d
<1>3. /\ t \in Seq(AStep) /\ DOMAIN t = 1..3
      /\ t[1].do = "resolve" /\ t[2].do = "succeed" /\ t[3].do = "complete"
  BY <1>1, <1>2, StepsAre
<1> HIDE DEF t
<1>4. \A i \in DOMAIN t : i \in {1, 2, 3}
  BY <1>3
<1>5. 2 \in 1..(3 - 1) /\ 1 \in 1..(2 - 1)
  OBVIOUS
<1>6. Program(t)
  BY <1>3, <1>4, <1>5 DEF Program
<1> QED BY <1>6 DEF t, d

\* Plain steps, and the preparation of a phase after them.
LEMMA PlainBeforePreparation ==
    ASSUME NEW f \in Phase \cup Stage \cup {None}, NEW d \in Seq(Doings),
           \A i \in DOMAIN d : d[i] \notin {"grant", "files", "complete", "freeze"},
           NEW g \in Phase
    PROVE  Proper(Steps(f, d) \o Preparation(g))
<1>1. /\ Steps(f, d) \in Seq(AStep) /\ Program(Steps(f, d)) /\ Unfrozen(Steps(f, d))
  BY PlainSteps
<1>2. /\ Preparation(g) \in Seq(AStep) /\ Program(Preparation(g)) /\ Unfrozen(Preparation(g))
  BY PreparationFits
<1>3. Program(Steps(f, d) \o Preparation(g))
  BY <1>1, <1>2, ConcatFits
<1>4. Unfrozen(Steps(f, d) \o Preparation(g))
  BY <1>1, <1>2, UnfrozenConcat
<1> QED BY <1>3, <1>4, UnfrozenIsFrozen DEF Proper

\* The preparation of a phase, and plain steps after it.
LEMMA PreparationBeforePlain ==
    ASSUME NEW f \in Phase \cup Stage \cup {None}, NEW d \in Seq(Doings),
           \A i \in DOMAIN d : d[i] \notin {"grant", "files", "complete", "freeze"},
           NEW g \in Phase
    PROVE  Proper(Preparation(g) \o Steps(f, d))
<1>1. /\ Steps(f, d) \in Seq(AStep) /\ Program(Steps(f, d)) /\ Unfrozen(Steps(f, d))
  BY PlainSteps
<1>2. /\ Preparation(g) \in Seq(AStep) /\ Program(Preparation(g)) /\ Unfrozen(Preparation(g))
  BY PreparationFits
<1>3. Program(Preparation(g) \o Steps(f, d))
  BY <1>1, <1>2, ConcatFits
<1>4. Unfrozen(Preparation(g) \o Steps(f, d))
  BY <1>1, <1>2, UnfrozenConcat
<1> QED BY <1>3, <1>4, UnfrozenIsFrozen DEF Proper

\* A candidate is frozen, and its challenge prepared at once.
LEMMA FreezeFits ==
    ASSUME NEW f \in Phase
    PROVE  Proper(Steps(f, << "canonicalize", "freeze" >>) \o Preparation("E5B-CHALLENGE"))
<1> DEFINE d == << "canonicalize", "freeze" >>
           s == Steps(f, d)
           t == Preparation("E5B-CHALLENGE")
           u == s \o t
<1>1. /\ d \in Seq(Doings) /\ DOMAIN d = 1..2 /\ Len(d) = 2
      /\ d[1] = "canonicalize" /\ d[2] = "freeze"
  BY DEF Doings
<1> HIDE DEF d
<1>2. /\ s \in Seq(AStep) /\ DOMAIN s = 1..2 /\ Len(s) = 2
      /\ s[1].do = "canonicalize" /\ s[2].do = "freeze"
  BY <1>1, StepsAre
<1>3. "E5B-CHALLENGE" \in Phase
  BY DEF Phase
<1>4. t \in Seq(AStep) /\ Program(t) /\ Unfrozen(t) /\ Challenging(t, 1)
  BY <1>3, PreparationFits
<1> HIDE DEF s, t
<1>5. \A i \in DOMAIN s : s[i].do \notin {"grant", "files", "complete"}
  <2>1. \A i \in DOMAIN s : i \in {1, 2}
    BY <1>2
  <2> QED BY <1>2, <2>1
<1>6. Program(s)
  BY <1>2, <1>5 DEF Program
<1>7. Program(u)
  BY <1>4, <1>6, ConcatFits
<1>8. /\ Len(u) = 2 + Len(t) /\ Len(t) \in Nat /\ DOMAIN u = 1..(2 + Len(t))
      /\ DOMAIN t = 1..Len(t)
      /\ u[1] = s[1] /\ u[2] = s[2]
      /\ \A j \in 1..Len(t) : u[2 + j] = t[j]
  <2>1. /\ Len(s \o t) = Len(s) + Len(t) /\ Len(s) \in Nat /\ Len(t) \in Nat
        /\ DOMAIN (s \o t) = 1..(Len(s) + Len(t))
        /\ \A i \in 1..Len(s) : (s \o t)[i] = s[i]
        /\ \A i \in 1..Len(t) : (s \o t)[Len(s) + i] = t[i]
    BY <1>2, <1>4, Joined
  <2>2. DOMAIN t = 1..Len(t)
    BY <1>4
  <2>3. 1 \in 1..Len(s) /\ 2 \in 1..Len(s)
    BY <1>2
  <2> QED BY <1>2, <2>1, <2>2, <2>3
<1> HIDE DEF u
<1>9. Challenging(u, 3)
  <2>1. PICK j \in 1..Len(t) : t[j].do = "files"
    BY <1>4 DEF Challenging
  <2>2. 2 + j \in 3..Len(u) /\ u[2 + j].do = "files"
    BY <1>8, <2>1
  <2>3. \A i \in 3..Len(u) : i - 2 \in 1..Len(t) /\ u[i] = t[i - 2]
    <3> TAKE i \in 3..Len(u)
    <3>1. i - 2 \in 1..Len(t) /\ 2 + (i - 2) = i
      BY <1>8
    <3> QED BY <1>8, <3>1
  <2> QED BY <1>4, <2>2, <2>3 DEF Challenging
<1>10. \A i \in DOMAIN u : u[i].do = "freeze" => i = 2
  <2> SUFFICES ASSUME NEW i \in DOMAIN u, u[i].do = "freeze", i # 2
               PROVE  FALSE
    OBVIOUS
  <2>1. i # 1
    BY <1>2, <1>8
  <2>2. i - 2 \in 1..Len(t) /\ 2 + (i - 2) = i
    BY <1>8, <2>1
  <2>3. t[i - 2].do = "freeze"
    BY <1>8, <2>2
  <2> QED BY <1>4, <1>8, <2>2, <2>3 DEF Unfrozen
<1>11. Frozen(u)
  BY <1>9, <1>10 DEF Frozen
<1> QED BY <1>7, <1>11 DEF Proper, u, s, d, t

\* Steps that need nothing before them.
Plain(d) ==
    d \in Seq(Doings) /\ \A i \in DOMAIN d : d[i] \notin {"grant", "files", "complete", "freeze"}

\* The lists of steps the calls are made from.
LEMMA PlainLists ==
    /\ Plain(<< "seal" >>) /\ Plain(<< "synthesize" >>) /\ Plain(<< "finalize" >>)
    /\ Plain(<< "validate" >>) /\ Plain(<< "check" >>) /\ Plain(<< "resume" >>)
    /\ Plain(<< "load" >>) /\ Plain(<< "reload" >>) /\ Plain(<< "decide" >>)
    /\ Plain(<< "fidelity", "finalize" >>)
    /\ Plain(<< "canonicalize", "materialize", "finalize" >>)
    /\ Plain(<< "look", "begin", "result", "reload" >>)
<1>1. /\ Plain(<< "seal" >>) /\ Plain(<< "synthesize" >>) /\ Plain(<< "finalize" >>)
      /\ Plain(<< "validate" >>) /\ Plain(<< "check" >>) /\ Plain(<< "resume" >>)
      /\ Plain(<< "load" >>) /\ Plain(<< "reload" >>) /\ Plain(<< "decide" >>)
  BY DEF Plain, Doings
<1>2. Plain(<< "fidelity", "finalize" >>)
  BY DEF Plain, Doings
<1>3. Plain(<< "canonicalize", "materialize", "finalize" >>)
  BY DEF Plain, Doings
<1>4. Plain(<< "look", "begin", "result", "reload" >>)
  BY DEF Plain, Doings
<1> QED BY <1>1, <1>2, <1>3, <1>4

\* Plain steps make a proper call.
LEMMA PlainIsProper ==
    ASSUME NEW f \in Phase \cup Stage \cup {None}, NEW d, Plain(d)
    PROVE  Proper(Steps(f, d))
  BY PlainSteps DEF Plain, Proper

\* Two runs of plain steps.
LEMMA PlainTwice ==
    ASSUME NEW f \in Phase \cup Stage \cup {None}, NEW d, Plain(d),
           NEW g \in Phase \cup Stage \cup {None}, NEW e, Plain(e)
    PROVE  Proper(Steps(f, d) \o Steps(g, e))
<1>1. /\ Steps(f, d) \in Seq(AStep) /\ Program(Steps(f, d)) /\ Unfrozen(Steps(f, d))
  BY PlainSteps DEF Plain
<1>2. /\ Steps(g, e) \in Seq(AStep) /\ Program(Steps(g, e)) /\ Unfrozen(Steps(g, e))
  BY PlainSteps DEF Plain
<1>3. Program(Steps(f, d) \o Steps(g, e)) /\ Unfrozen(Steps(f, d) \o Steps(g, e))
  BY <1>1, <1>2, ConcatFits, UnfrozenConcat
<1> QED BY <1>3, UnfrozenIsFrozen DEF Proper

\* So does a preparation.
LEMMA PreparationIsProper ==
    ASSUME NEW f \in Phase
    PROVE  Proper(Preparation(f))
  BY PreparationFits, UnfrozenIsFrozen DEF Proper

\* What advance_to_next_stage does with the results of a phase is proper.
LEMMA AfterIsProper ==
    ASSUME NEW f \in Phase \cup {None}
    PROVE  Proper(After(f))
<1>1. f \in Phase \cup Stage \cup {None}
  OBVIOUS
<1>2. /\ "E2-REVEAL" \in Phase /\ "E2-SHADOW" \in Phase /\ "E3-GAP" \in Phase
      /\ "E3-CUMULATIVE" \in Phase /\ "E3-BLIND" \in Phase /\ "E4-DEEPEN" \in Phase
      /\ "E5A-ATTACK" \in Phase
  BY DEF Phase
<1>3. CASE StageOf(f) = "E2"
  <2>1. f \in Phase /\ f \in {"E2-BLIND", "E2-REVEAL", "E2-SHADOW", "E2-CONTRADICTION"}
    BY <1>3 DEF StageOf, None, Phase
  <2>2. CASE f = "E2-BLIND"
    <3>1. After(f) = Steps(f, << "seal" >>) \o Preparation("E2-REVEAL")
      BY <1>3, <2>2 DEF After, AfterE2
    <3> QED BY <1>1, <1>2, <3>1, PlainLists, PlainBeforePreparation DEF Plain
  <2>3. CASE f = "E2-REVEAL"
    <3>1. After(f) = Steps(f, << "synthesize" >>) \o Preparation("E2-SHADOW")
      BY <1>3, <2>3 DEF After, AfterE2
    <3> QED BY <1>1, <1>2, <3>1, PlainLists, PlainBeforePreparation DEF Plain
  <2>4. CASE f = "E2-SHADOW"
    <3>1. After(f) = Steps(f, << "finalize" >>)
      BY <1>3, <2>4 DEF After, AfterE2
    <3> QED BY <1>1, <3>1, PlainLists, PlainIsProper
  <2>5. CASE f = "E2-CONTRADICTION"
    <3> DEFINE d == << "resolve", "succeed", "complete" >>
               t == Steps(f, d)
    <3>1. After(f) = t
      BY <1>3, <2>5 DEF After, AfterE2
    <3>2. Program(t)
      BY <2>5, ResolutionFits
    <3>3. d \in Seq(Doings) /\ \A i \in DOMAIN d : d[i] # "freeze"
      BY DEF Doings
    <3> HIDE DEF d
    <3>4. Unfrozen(t)
      BY <1>1, <3>3, StepsAre DEF Unfrozen
    <3> QED BY <3>1, <3>2, <3>4, UnfrozenIsFrozen DEF Proper
  <2> QED BY <2>1, <2>2, <2>3, <2>4, <2>5
<1>4. CASE StageOf(f) = "E3"
  <2>1. CASE f = "E3-BLIND"
    <3>1. After(f) = Steps(f, << "seal" >>) \o Preparation("E3-GAP")
      BY <1>4, <2>1 DEF After, AfterE3
    <3> QED BY <1>1, <1>2, <3>1, PlainLists, PlainBeforePreparation DEF Plain
  <2>2. CASE f = "E3-GAP"
    <3>1. After(f) = Steps(f, << "validate" >>) \o Preparation("E3-CUMULATIVE")
      BY <1>4, <2>2 DEF After, AfterE3
    <3> QED BY <1>1, <1>2, <3>1, PlainLists, PlainBeforePreparation DEF Plain
  <2>3. CASE f # "E3-BLIND" /\ f # "E3-GAP"
    <3>1. After(f) = Steps(f, << "validate" >>) \o Steps("E3-BLIND", << "finalize" >>)
      BY <1>4, <2>3 DEF After, AfterE3
    <3> QED BY <1>1, <1>2, <3>1, PlainLists, PlainTwice
  <2> QED BY <2>1, <2>2, <2>3
<1>5. CASE StageOf(f) = "E4"
  <2>1. After(f) = Steps("E4-DEEPEN", << "fidelity", "finalize" >>)
    BY <1>5 DEF After, AfterE4
  <2> QED BY <1>2, <2>1, PlainLists, PlainIsProper
<1>6. CASE StageOf(f) \notin {"E2", "E3", "E4"}
  <2>1. CASE f = "E5A-ATTACK"
    <3>1. After(f) = Steps(f, << "canonicalize", "freeze" >>) \o Preparation("E5B-CHALLENGE")
      BY <1>6, <2>1 DEF After, AfterE5
    <3> QED BY <1>2, <2>1, <3>1, FreezeFits
  <2>2. CASE f # "E5A-ATTACK"
    <3>1. After(f) = Steps(f, << "canonicalize", "materialize", "finalize" >>)
      BY <1>6, <2>2 DEF After, AfterE5
    <3> QED BY <1>1, <3>1, PlainLists, PlainIsProper
  <2> QED BY <2>1, <2>2
<1> QED BY <1>3, <1>4, <1>5, <1>6

\* So does the look for the next stage.
LEMMA DecideIsProper ==
    ASSUME NEW s \in Stage
    PROVE  Proper(<< Step("decide", s) >>)
<1> DEFINE t == << Step("decide", s) >>
<1>1. Step("decide", s) \in AStep /\ Step("decide", s).do = "decide"
  BY DEF Step, AStep, Doings
<1>2. t \in Seq(AStep) /\ \A i \in DOMAIN t : t[i].do = "decide"
  BY <1>1
<1> HIDE DEF t
<1>3. Program(t) /\ Unfrozen(t)
  BY <1>2, PlainFits
<1> QED BY <1>3, UnfrozenIsFrozen DEF Proper, t

\* The advance of a stage ends with its check.
LEMMA AdvanceIsProper ==
    ASSUME NEW s
    PROVE  /\ Proper(<< >> \o Steps(None, << "check" >>))
           /\ Proper(Preparation(FirstPhase(s)) \o Steps(None, << "check" >>))
<1>1. FirstPhase(s) \in Phase
  BY DEF FirstPhase, Phase
<1>2. None \in Phase \cup Stage \cup {None}
  OBVIOUS
<1>3. Proper(Preparation(FirstPhase(s)) \o Steps(None, << "check" >>))
  BY <1>1, <1>2, PlainLists, PreparationBeforePlain DEF Plain
<1>4. Proper(Steps(None, << "check" >>)) /\ Steps(None, << "check" >>) \in Seq(AStep)
  BY <1>2, PlainLists, PlainIsProper, PlainSteps DEF Plain
<1>5. << >> \o Steps(None, << "check" >>) = Steps(None, << "check" >>)
  BY <1>4
<1> QED BY <1>3, <1>4, <1>5

-----------------------------------------------------------------------------
\* What a session has to be.

\* A package was published for a lane that is assigned and granted.
PackageFit(pkg) ==
    /\ pkg \in [phase : Phase, lane : LanesOf(pkg.phase), auth : 0..Len(log), about : 0..Len(log)]
    /\ Entitled(Len(log), pkg)

\* Every published package is one, and only published packages have receipts.
PackagesFit == receipts \subseteq packages /\ \A pkg \in packages : PackageFit(pkg)

\* It has read nothing of the future, and holds published packages.
Grounded(r) ==
    /\ r = [open |-> r.open, todo |-> r.todo, cut |-> r.cut, auth |-> r.auth, about |-> r.about,
            zip |-> r.zip, pub |-> r.pub, batch |-> r.batch, inbox |-> r.inbox, known |-> r.known]
    /\ r.open \in BOOLEAN /\ (~r.open => r = Closed)
    /\ r.todo \in Seq(AStep)
    /\ r.cut \in 0..Len(log) /\ r.auth \in 0..Len(log) /\ r.about \in 0..Len(log) /\ r.pub \in Nat
    /\ r.batch \subseteq packages /\ r.inbox \subseteq packages
    /\ r.zip = NoZip \/ \E pkg \in packages, says \in Saying : r.zip = Archive(pkg, says)

\* A reveal is granted after its check, or after what this looks for.
RevealsReady(r) ==
    \A i \in DOMAIN r.todo :
        r.todo[i].do = "grant" /\ r.todo[i].phase \in Revealing =>
            \/ Ahead(r.todo, i, "before", r.todo[i].phase)
            \/ Has(Len(log), "checkpoints", BlindOf(r.todo[i].phase))

\* Files are published after the assignment and the grant of their phase.
FilesReady(r) ==
    \A i \in DOMAIN r.todo :
        r.todo[i].do = "files" =>
            /\ r.todo[i].phase \in Phase
            /\ \/ Ahead(r.todo, i, "assign", r.todo[i].phase)
               \/ Has(Len(log), "assignments", r.todo[i].phase)
            /\ r.todo[i].phase \in Granted =>
                  \/ GrantAhead(r.todo, i, r.todo[i].phase)
                  \/ /\ UnderGrant(Package(r.todo[i].phase, None, r.auth, r.about))
                     /\ \A k \in 1..(i - 1) : r.todo[k].do = "publish"

\* A candidate at hand is challenged next.
ChallengeNext(r) ==
    /\ Frozen(r.todo)
    /\ r.about # 0 => Challenging(r.todo, 1)

\* E2 is completed after a resolution and a succession without an open case.
Resolved(c) ==
    /\ Has(Len(log), "decisions", "E2-CONTRADICTION")
    /\ \E m \in 0..Len(log) : AllIn(m, "E2-CONTRADICTION") /\ (c # 0 => m <= c)

\* The contradictions have decisions and successors, of results that were all in, none open.
Succeeded ==
    /\ Has(Len(log), "decisions", "E2-CONTRADICTION")
    /\ Has(Len(log), "successors", "E2-CONTRADICTION")
    /\ \E m \in 0..Len(log), k \in 0..Len(log) :
          m <= k /\ AllIn(m, "E2-CONTRADICTION") /\ ~SomeSays(k, "E2-CONTRADICTION", "notable")

SuccessionAhead(t, i) == \E k \in 1..(i - 1) : t[k].do = "succeed"

ResolutionAhead(t, i) ==
    \E k \in 1..(i - 1) : /\ t[k].do = "succeed"
                          /\ \E j \in 1..(k - 1) : t[j].do = "resolve"

CompletionReady(r) ==
    \A i \in DOMAIN r.todo :
        r.todo[i].do = "complete" =>
            \/ ResolutionAhead(r.todo, i)
            \/ Resolved(r.cut) /\ SuccessionAhead(r.todo, i)
            \/ Succeeded

\* Of the files being published those up to pub are.
Publishing(r) ==
    r.pub # 0 =>
        /\ r.todo # << >> /\ r.todo[1].do = "files"
        /\ LET f == r.todo[1].phase
           IN  /\ r.pub <= 2 * Len(Lanes[f])
               /\ \A i \in DOMAIN Lanes[f] :
                     2 * i < r.pub + 2 => Package(f, Lanes[f][i], r.auth, r.about) \in packages

\* What is known of a session.
SessionFit(r) ==
    /\ Grounded(r) /\ RevealsReady(r) /\ FilesReady(r)
    /\ ChallengeNext(r) /\ CompletionReady(r) /\ Publishing(r)

Sessions == op = [q \in Operator |-> op[q]] /\ \A q \in Operator : SessionFit(op[q])

\* The inductive invariant.
Fine == LogFit /\ PackagesFit /\ Sessions

\* A step keeps all of it: the log grows by what fits, packages are only added.
Keeps ==
    /\ Fitting /\ packages \subseteq packages'
    /\ PackagesFit' /\ Sessions'

-----------------------------------------------------------------------------
\* What a session has to be it stays, while others work.
LEMMA ResolvedStable ==
    ASSUME Grows, NEW c
    PROVE  (Resolved(c) => Resolved(c)') /\ (Succeeded => Succeeded')
<1>1. \A k, f : Has(Len(log), k, f) => Has(Len(log), k, f)'
  <2>1. Len(log) \in 0..Len(log)
    BY DEF Grows
  <2> QED BY <2>1, ResultsStable
<1>2. \A m \in 0..Len(log) : m \in 0..Len(log')
  BY DEF Grows
<1>3. \A m \in 0..Len(log) : /\ AllIn(m, "E2-CONTRADICTION")' = AllIn(m, "E2-CONTRADICTION")
                             /\ SomeSays(m, "E2-CONTRADICTION", "notable")'
                                  = SomeSays(m, "E2-CONTRADICTION", "notable")
  BY ResultsStable
<1>4. Resolved(c) => Resolved(c)'
  <2> SUFFICES ASSUME Resolved(c)
               PROVE  Resolved(c)'
    OBVIOUS
  <2>1. PICK m \in 0..Len(log) : AllIn(m, "E2-CONTRADICTION") /\ (c # 0 => m <= c)
    BY DEF Resolved
  <2>2. m \in 0..Len(log') /\ AllIn(m, "E2-CONTRADICTION")'
    BY <1>2, <1>3, <2>1
  <2> QED BY <1>1, <2>1, <2>2 DEF Resolved
<1>5. Succeeded => Succeeded'
  <2> SUFFICES ASSUME Succeeded
               PROVE  Succeeded'
    OBVIOUS
  <2>1. PICK m \in 0..Len(log), k \in 0..Len(log) :
           m <= k /\ AllIn(m, "E2-CONTRADICTION") /\ ~SomeSays(k, "E2-CONTRADICTION", "notable")
    BY DEF Succeeded
  <2>2. m \in 0..Len(log') /\ AllIn(m, "E2-CONTRADICTION")'
    BY <1>2, <1>3, <2>1
  <2>3. k \in 0..Len(log') /\ ~SomeSays(k, "E2-CONTRADICTION", "notable")'
    BY <1>2, <1>3, <2>1
  <2> QED BY <1>1, <2>1, <2>2, <2>3 DEF Succeeded
<1> QED BY <1>4, <1>5

\* A package stays one.
LEMMA PackageStable ==
    ASSUME Grows, LogFit, NEW pkg, PackageFit(pkg)
    PROVE  PackageFit(pkg)'
<1>1. pkg.auth \in 0..Len(log) /\ Len(log) \in 0..Len(log) /\ Len(log) <= Len(log')
      /\ Len(log) \in Nat /\ Len(log') \in Nat
  BY DEF PackageFit, Grows
<1>2. Entitled(Len(log), pkg)'
  BY <1>1, EntitledStable DEF PackageFit
<1>3. 0..Len(log) \subseteq 0..Len(log')
  BY <1>1
<1>4. pkg \in [phase : Phase, lane : LanesOf(pkg.phase), auth : 0..Len(log'), about : 0..Len(log')]
  BY <1>3 DEF PackageFit
<1> QED BY <1>2, <1>4 DEF PackageFit

\* A session that others work beside stays what it has to be.
LEMMA SessionStable ==
    ASSUME Grows, LogFit, packages \subseteq packages', NEW r, SessionFit(r)
    PROVE  SessionFit(r)'
<1>1. Len(log) \in 0..Len(log) /\ 0..Len(log) \subseteq 0..Len(log')
  BY DEF Grows
<1>2. \A k, f : Has(Len(log), k, f) => Has(Len(log), k, f)'
  BY <1>1, ResultsStable
<1>3. Grounded(r)'
  BY <1>1 DEF SessionFit, Grounded
<1>4. RevealsReady(r)'
  BY <1>2 DEF SessionFit, RevealsReady
<1>5. FilesReady(r)'
  <2>1. ASSUME NEW f, UnderGrant(Package(f, None, r.auth, r.about))
        PROVE  UnderGrant(Package(f, None, r.auth, r.about))'
    <3> DEFINE z == Package(f, None, r.auth, r.about)
    <3>1. z.auth \in 0..Len(log)
      BY DEF Package, SessionFit, Grounded
    <3>2. UnderGrant(z)
      BY <2>1
    <3> HIDE DEF z
    <3>3. UnderGrant(z)'
      BY <3>1, <3>2, UnderGrantStable
    <3> QED BY <3>3 DEF z
  <2> QED BY <1>2, <2>1 DEF SessionFit, FilesReady
<1>6. ChallengeNext(r)'
  BY DEF SessionFit, ChallengeNext
<1>7. CompletionReady(r)'
  BY ResolvedStable DEF SessionFit, CompletionReady
<1>8. Publishing(r)'
  BY DEF SessionFit, Publishing
<1> QED BY <1>3, <1>4, <1>5, <1>6, <1>7, <1>8 DEF SessionFit

\* The rest of a call, when its first step has done what it is for.
LEMMA TailIs ==
    ASSUME NEW S, NEW t \in Seq(S), t # << >>
    PROVE  /\ Tail(t) \in Seq(S) /\ Len(t) \in Nat /\ Len(t) >= 1 /\ Len(Tail(t)) = Len(t) - 1
           /\ DOMAIN t = 1..Len(t) /\ DOMAIN Tail(t) = 1..(Len(t) - 1)
           /\ \A i \in 1..(Len(t) - 1) : Tail(t)[i] = t[i + 1]
           /\ Head(t) = t[1] /\ t[1] \in S
  OBVIOUS

\* What was ahead of a step is ahead of it still, or was the first.
LEMMA AheadOfTail ==
    ASSUME NEW t \in Seq(AStep), t # << >>, NEW i \in DOMAIN Tail(t)
    PROVE  /\ \A do, f : Ahead(t, i + 1, do, f) => t[1] = Step(do, f) \/ Ahead(Tail(t), i, do, f)
           /\ \A f : GrantAhead(t, i + 1, f) =>
                        \/ t[1] = Step("grant", f) /\ \A k \in 1..(i - 1) : Tail(t)[k].do = "publish"
                        \/ GrantAhead(Tail(t), i, f)
<1> DEFINE u == Tail(t)
<1>1. /\ DOMAIN u = 1..(Len(t) - 1) /\ Len(t) \in Nat
      /\ \A j \in 1..(Len(t) - 1) : u[j] = t[j + 1]
  BY TailIs
<1> HIDE DEF u
<1>2. i \in 1..(Len(t) - 1)
  BY <1>1 DEF u
<1>3. \A j \in 1..i : j = 1 \/ (j - 1 \in 1..(i - 1) /\ u[j - 1] = t[j])
  <2> SUFFICES ASSUME NEW j \in 1..i, j # 1
               PROVE  j - 1 \in 1..(i - 1) /\ u[j - 1] = t[j]
    OBVIOUS
  <2>1. j - 1 \in 1..(i - 1) /\ j - 1 \in 1..(Len(t) - 1) /\ (j - 1) + 1 = j
    BY <1>1, <1>2
  <2> QED BY <1>1, <2>1
<1>4. (i + 1) - 1 = i
  BY <1>1, <1>2
<1>5. ASSUME NEW do, NEW f, Ahead(t, i + 1, do, f)
      PROVE  t[1] = Step(do, f) \/ Ahead(u, i, do, f)
  BY <1>3, <1>4, <1>5 DEF Ahead
<1>6. ASSUME NEW f, GrantAhead(t, i + 1, f)
      PROVE  \/ t[1] = Step("grant", f) /\ \A k \in 1..(i - 1) : u[k].do = "publish"
             \/ GrantAhead(u, i, f)
  <2>1. PICK j \in 1..i : t[j] = Step("grant", f) /\ \A k \in (j + 1)..i : t[k].do = "publish"
    BY <1>4, <1>6 DEF GrantAhead
  <2>2. \A k \in 1..(i - 1) : k >= j => u[k].do = "publish"
    <3> SUFFICES ASSUME NEW k \in 1..(i - 1), k >= j
                 PROVE  u[k].do = "publish"
      OBVIOUS
    <3>1. k \in 1..(Len(t) - 1) /\ k + 1 \in (j + 1)..i
      BY <1>1, <1>2
    <3> QED BY <1>1, <2>1, <3>1
  <2>3. CASE j = 1
    BY <2>1, <2>2, <2>3
  <2>4. CASE j # 1
    <3>1. j - 1 \in 1..(i - 1) /\ u[j - 1] = Step("grant", f)
      BY <1>3, <2>1, <2>4
    <3>2. \A k \in ((j - 1) + 1)..(i - 1) : k \in 1..(i - 1) /\ k >= j
      BY <1>2
    <3> QED BY <2>2, <3>1, <3>2 DEF GrantAhead
  <2> QED BY <2>3, <2>4
<1> QED BY <1>5, <1>6 DEF u

\* The first step of session r is done, and s goes on with the rest.
Achieved(r, s) ==
    LET h == r.todo[1]
    IN  /\ h.do = "before" /\ h.phase \in Revealing => Has(Len(log), "checkpoints", BlindOf(h.phase))
        /\ h.do = "assign" => Has(Len(log), "assignments", h.phase)
        /\ h.do = "grant" /\ h.phase \in Granted => UnderGrant(Package(h.phase, None, s.auth, s.about))
        /\ h.do = "publish" => s.auth = r.auth /\ s.about = r.about
        /\ \/ s.about = 0
           \/ s.about = r.about /\ h.do # "files"
           \/ h.do = "freeze"
        /\ h.do = "resolve" => Resolved(s.cut)
        /\ h.do = "succeed" /\ Resolved(r.cut) => Succeeded

\* A session that has done its step, with what the step achieved.
LEMMA TailFits ==
    ASSUME NEW r, SessionFit(r)', r.todo # << >>, NEW s, Grounded(s)',
           s.todo = Tail(r.todo), s.cut \in {0, r.cut}, s.pub = 0, Achieved(r, s)'
    PROVE  SessionFit(s)'
<1> DEFINE t == r.todo
           u == Tail(r.todo)
           h == r.todo[1]
<1>1. /\ t \in Seq(AStep) /\ t # << >> /\ u \in Seq(AStep) /\ s.todo = u
      /\ Len(t) \in Nat /\ DOMAIN t = 1..Len(t) /\ DOMAIN u = 1..(Len(t) - 1) /\ Len(u) = Len(t) - 1
      /\ \A i \in DOMAIN u : u[i] = t[i + 1] /\ i + 1 \in DOMAIN t /\ i \in Nat /\ i >= 1
  <2>1. t \in Seq(AStep)
    BY DEF SessionFit, Grounded
  <2>2. /\ u \in Seq(AStep) /\ Len(t) \in Nat /\ DOMAIN t = 1..Len(t) /\ DOMAIN u = 1..(Len(t) - 1)
        /\ Len(u) = Len(t) - 1
        /\ \A i \in 1..(Len(t) - 1) : u[i] = t[i + 1]
    BY <2>1, TailIs
  <2> QED BY <2>1, <2>2
<1>2. \A i \in DOMAIN u :
         /\ \A do, f : Ahead(t, i + 1, do, f) => h = Step(do, f) \/ Ahead(u, i, do, f)
         /\ \A f : GrantAhead(t, i + 1, f) =>
                      \/ h = Step("grant", f) /\ \A k \in 1..(i - 1) : u[k].do = "publish"
                      \/ GrantAhead(u, i, f)
  BY <1>1, AheadOfTail
<1>3. \A do, f : Step(do, f).do = do /\ Step(do, f).phase = f
  BY DEF Step
<1> HIDE DEF t, u, h
<1>4. RevealsReady(s)'
  <2> SUFFICES ASSUME NEW i \in DOMAIN u, u[i].do = "grant", u[i].phase \in Revealing
               PROVE  \/ Ahead(u, i, "before", u[i].phase)
                      \/ Has(Len(log), "checkpoints", BlindOf(u[i].phase))'
    BY <1>1 DEF RevealsReady
  <2>1. \/ Ahead(t, i + 1, "before", u[i].phase)
        \/ Has(Len(log), "checkpoints", BlindOf(u[i].phase))'
    BY <1>1 DEF SessionFit, RevealsReady, t
  <2>2. h.do = "before" /\ h.phase \in Revealing => Has(Len(log), "checkpoints", BlindOf(h.phase))'
    BY DEF Achieved, h
  <2> QED BY <1>2, <1>3, <2>1, <2>2
<1>5. FilesReady(s)'
  <2> SUFFICES ASSUME NEW i \in DOMAIN u, u[i].do = "files", NEW f, f = u[i].phase
               PROVE  /\ f \in Phase
                      /\ Ahead(u, i, "assign", f) \/ Has(Len(log), "assignments", f)'
                      /\ f \in Granted =>
                            \/ GrantAhead(u, i, f)
                            \/ /\ UnderGrant(Package(f, None, s.auth, s.about))'
                               /\ \A k \in 1..(i - 1) : u[k].do = "publish"
    BY <1>1 DEF FilesReady
  <2>1. /\ f \in Phase
        /\ Ahead(t, i + 1, "assign", f) \/ Has(Len(log), "assignments", f)'
        /\ f \in Granted =>
              \/ GrantAhead(t, i + 1, f)
              \/ /\ UnderGrant(Package(f, None, r.auth, r.about))'
                 /\ \A k \in 1..((i + 1) - 1) : t[k].do = "publish"
    BY <1>1 DEF SessionFit, FilesReady, t
  <2>2. h.do = "assign" => Has(Len(log), "assignments", h.phase)'
    BY DEF Achieved, h
  <2>3. h.do = "grant" /\ h.phase \in Granted => UnderGrant(Package(h.phase, None, s.auth, s.about))'
    BY DEF Achieved, h
  <2>4. h.do = "publish" => s.auth = r.auth /\ s.about = r.about
    BY DEF Achieved, h
  <2>5. Ahead(u, i, "assign", f) \/ Has(Len(log), "assignments", f)'
    BY <1>2, <1>3, <2>1, <2>2
  <2>6. ASSUME f \in Granted, UnderGrant(Package(f, None, r.auth, r.about))',
               \A k \in 1..((i + 1) - 1) : t[k].do = "publish"
        PROVE  /\ UnderGrant(Package(f, None, s.auth, s.about))'
               /\ \A k \in 1..(i - 1) : u[k].do = "publish"
    <3>1. 1 \in 1..((i + 1) - 1) /\ h = t[1]
      BY <1>1 DEF h, t
    <3>2. h.do = "publish"
      BY <2>6, <3>1
    <3>3. s.auth = r.auth /\ s.about = r.about
      BY <2>4, <3>2
    <3>4. \A k \in 1..(i - 1) : k \in DOMAIN u /\ k + 1 \in 1..((i + 1) - 1)
      BY <1>1
    <3>5. \A k \in 1..(i - 1) : u[k].do = "publish"
      BY <1>1, <2>6, <3>4
    <3> QED BY <2>6, <3>3, <3>5
  <2>7. ASSUME f \in Granted, GrantAhead(t, i + 1, f)
        PROVE  \/ GrantAhead(u, i, f)
               \/ /\ UnderGrant(Package(f, None, s.auth, s.about))'
                  /\ \A k \in 1..(i - 1) : u[k].do = "publish"
    BY <1>2, <1>3, <2>3, <2>7
  <2> QED BY <2>1, <2>5, <2>6, <2>7
<1>6. ChallengeNext(s)'
  <2>1. \A i \in DOMAIN u : Challenging(t, (i + 1) + 1) => Challenging(u, i + 1)
    <3> SUFFICES ASSUME NEW i \in DOMAIN u, Challenging(t, (i + 1) + 1)
                 PROVE  Challenging(u, i + 1)
      OBVIOUS
    <3>1. PICK j \in ((i + 1) + 1)..Len(t) : t[j].do = "files"
      BY DEF Challenging
    <3>2. j - 1 \in (i + 1)..Len(u) /\ j - 1 \in DOMAIN u /\ (j - 1) + 1 = j
      BY <1>1
    <3>3. u[j - 1].do = "files"
      BY <1>1, <3>1, <3>2
    <3>4. \A k \in (i + 1)..Len(u) : k \in DOMAIN u /\ k + 1 \in ((i + 1) + 1)..Len(t)
      BY <1>1
    <3>5. ASSUME NEW k \in (i + 1)..Len(u)
          PROVE  /\ u[k].do \in {"assign", "grant", "publish", "files", "load"}
                 /\ u[k].do = "grant" => u[k].phase = "E5B-CHALLENGE"
      <4>1. u[k] = t[k + 1] /\ k + 1 \in ((i + 1) + 1)..Len(t)
        BY <1>1, <3>4
      <4> QED BY <4>1 DEF Challenging
    <3> QED BY <3>2, <3>3, <3>5 DEF Challenging
  <2>2. Frozen(u)
    <3>1. Frozen(t)
      BY DEF SessionFit, ChallengeNext, t
    <3> QED BY <1>1, <2>1, <3>1 DEF Frozen
  <2>3. Len(t) >= 1 /\ h = t[1] /\ 1 \in DOMAIN t
    <3>1. Len(t) >= 1
      BY <1>1, TailIs
    <3> QED BY <1>1, <3>1 DEF h, t
  <2>4. Challenging(t, 2) => Challenging(u, 1)
    <3> SUFFICES ASSUME Challenging(t, 2)
                 PROVE  Challenging(u, 1)
      OBVIOUS
    <3>1. PICK j \in 2..Len(t) : t[j].do = "files"
      BY DEF Challenging
    <3>2. j - 1 \in 1..Len(u) /\ j - 1 \in DOMAIN u /\ (j - 1) + 1 = j
      BY <1>1
    <3>3. u[j - 1].do = "files"
      BY <1>1, <3>1, <3>2
    <3>4. \A k \in 1..Len(u) : k \in DOMAIN u /\ k + 1 \in 2..Len(t)
      BY <1>1
    <3>5. ASSUME NEW k \in 1..Len(u)
          PROVE  /\ u[k].do \in {"assign", "grant", "publish", "files", "load"}
                 /\ u[k].do = "grant" => u[k].phase = "E5B-CHALLENGE"
      <4>1. u[k] = t[k + 1] /\ k + 1 \in 2..Len(t)
        BY <1>1, <3>4
      <4> QED BY <4>1 DEF Challenging
    <3> QED BY <3>2, <3>3, <3>5 DEF Challenging
  <2>5. CASE h.do = "freeze"
    <3>1. Frozen(t)
      BY DEF SessionFit, ChallengeNext, t
    <3>2. Challenging(t, 2)
      BY <2>3, <2>5, <3>1 DEF Frozen
    <3> QED BY <1>1, <2>2, <2>4, <3>2 DEF ChallengeNext
  <2>6. CASE s.about = r.about /\ h.do # "files" /\ r.about # 0
    <3>1. Challenging(t, 1)
      BY <2>6 DEF SessionFit, ChallengeNext, t
    <3>2. PICK j \in 1..Len(t) : t[j].do = "files"
      BY <3>1 DEF Challenging
    <3>3. j \in 2..Len(t)
      BY <2>3, <2>6, <3>2
    <3>4. \A k \in 2..Len(t) : k \in 1..Len(t)
      OBVIOUS
    <3>5. Challenging(t, 2)
      BY <3>1, <3>2, <3>3, <3>4 DEF Challenging
    <3> QED BY <1>1, <2>2, <2>4, <3>5 DEF ChallengeNext
  <2>7. CASE s.about = 0
    BY <1>1, <2>2, <2>7 DEF ChallengeNext
  <2>8. s.about = 0 \/ (s.about = r.about /\ h.do # "files") \/ h.do = "freeze"
    BY DEF Achieved, h
  <2> QED BY <2>5, <2>6, <2>7, <2>8
<1>7. CompletionReady(s)'
  <2>1. ASSUME NEW i \in DOMAIN u, u[i].do = "complete"
        PROVE  \/ ResolutionAhead(u, i)
               \/ Resolved(s.cut)' /\ SuccessionAhead(u, i)
               \/ Succeeded'
    <3>1. \/ ResolutionAhead(t, i + 1)
          \/ Resolved(r.cut)' /\ SuccessionAhead(t, i + 1)
          \/ Succeeded'
      <4>1. CompletionReady(r)'
        BY DEF SessionFit
      <4>2. i + 1 \in DOMAIN t /\ t[i + 1].do = "complete"
        BY <1>1, <2>1
      <4> QED BY <4>1, <4>2 DEF CompletionReady, t
    <3>2. h = t[1]
      BY DEF h, t
    <3>3. /\ h.do = "resolve" => Resolved(s.cut)'
          /\ h.do = "succeed" /\ Resolved(r.cut)' => Succeeded'
      BY DEF Achieved, h
    <3>4. Resolved(r.cut)' => Resolved(s.cut)'
      BY DEF Resolved
    <3>5. ASSUME NEW k \in 1..((i + 1) - 1), k # 1
          PROVE  k - 1 \in 1..(i - 1) /\ u[k - 1] = t[k]
      <4>1. k - 1 \in 1..(i - 1) /\ k - 1 \in DOMAIN u /\ (k - 1) + 1 = k
        BY <1>1, <3>5
      <4> QED BY <1>1, <4>1
    <3>6. ASSUME Resolved(r.cut)', SuccessionAhead(t, i + 1)
          PROVE  Succeeded' \/ (Resolved(s.cut)' /\ SuccessionAhead(u, i))
      <4>1. PICK k \in 1..((i + 1) - 1) : t[k].do = "succeed"
        BY <3>6 DEF SuccessionAhead
      <4>2. CASE k = 1
        BY <3>2, <3>3, <3>6, <4>1, <4>2
      <4>3. CASE k # 1
        BY <3>4, <3>5, <3>6, <4>1, <4>3 DEF SuccessionAhead
      <4> QED BY <4>2, <4>3
    <3>7. CASE ResolutionAhead(t, i + 1)
      <4>1. PICK k \in 1..((i + 1) - 1) : /\ t[k].do = "succeed"
                                          /\ \E j \in 1..(k - 1) : t[j].do = "resolve"
        BY <3>7 DEF ResolutionAhead
      <4>2. PICK j \in 1..(k - 1) : t[j].do = "resolve"
        BY <4>1
      <4>3. k # 1 /\ j \in 1..((i + 1) - 1)
        BY <1>1, <4>1, <4>2
      <4>4. k - 1 \in 1..(i - 1) /\ u[k - 1].do = "succeed"
        BY <3>5, <4>1, <4>3
      <4>5. CASE j = 1
        BY <3>2, <3>3, <4>2, <4>4, <4>5 DEF SuccessionAhead
      <4>6. CASE j # 1
        <5>1. u[j - 1].do = "resolve" /\ j - 1 \in 1..((k - 1) - 1)
          <6>1. u[j - 1] = t[j]
            BY <3>5, <4>3, <4>6
          <6> QED BY <1>1, <4>2, <4>6, <6>1
        <5> QED BY <4>4, <5>1 DEF ResolutionAhead
      <4> QED BY <4>5, <4>6
    <3> QED BY <3>1, <3>6, <3>7
  <2>2. s.todo = u
    BY <1>1
  <2> QED BY <2>1, <2>2 DEF CompletionReady
<1>8. Publishing(s)'
  BY DEF Publishing
<1> QED BY <1>4, <1>5, <1>6, <1>7, <1>8 DEF SessionFit

\* The other forms a session takes: a new call, the end of one.
LEMMA ThenFits ==
    ASSUME NEW r, SessionFit(r)', NEW s, Grounded(s)', Proper(s.todo), s.about = 0, s.pub = 0
    PROVE  SessionFit(s)'
<1>1. Program(s.todo) /\ Frozen(s.todo)
  BY DEF Proper
<1>2. RevealsReady(s)'
  BY <1>1 DEF RevealsReady, Program
<1>3. FilesReady(s)'
  BY <1>1 DEF FilesReady, Program
<1>4. ChallengeNext(s)'
  BY <1>1 DEF ChallengeNext
<1>5. \A i \in DOMAIN s.todo : s.todo[i].do = "complete" => ResolutionAhead(s.todo, i)
  BY <1>1 DEF Program, ResolutionAhead
<1>6. CompletionReady(s)'
  BY <1>5 DEF CompletionReady
<1>7. Publishing(s)'
  BY DEF Publishing
<1> QED BY <1>2, <1>3, <1>4, <1>6, <1>7 DEF SessionFit

\* A call that is over is proper.
LEMMA EmptyIsProper == Proper(<< >>)
<1>1. << >> \in Seq(AStep) /\ DOMAIN << >> = {}
  OBVIOUS
<1>2. Program(<< >>) /\ Unfrozen(<< >>)
  BY <1>1 DEF Program, Unfrozen
<1> QED BY <1>2, UnfrozenIsFrozen DEF Proper

\* A session before a call, or at its first steps, has no candidate at hand and
\* no files under way.
LEMMA NothingAtHand ==
    ASSUME NEW r, SessionFit(r), r.todo = << >> \/ r.todo[1].do \notin
              {"assign", "grant", "publish", "files", "load"}
    PROVE  r.about = 0 /\ r.pub = 0
<1>1. r.todo \in Seq(AStep)
  BY DEF SessionFit, Grounded
<1>2. r.pub = 0
  BY DEF SessionFit, Publishing
<1>3. ~Challenging(r.todo, 1)
  <2> SUFFICES ASSUME Challenging(r.todo, 1)
               PROVE  FALSE
    OBVIOUS
  <2>1. PICK j \in 1..Len(r.todo) : r.todo[j].do = "files"
    BY DEF Challenging
  <2>2. 1 \in 1..Len(r.todo) /\ r.todo # << >>
    BY <1>1, <2>1
  <2> QED BY <2>2 DEF Challenging
<1> QED BY <1>2, <1>3 DEF SessionFit, ChallengeNext

\* The forms, field by field.
LEMMA FurtherIs ==
    ASSUME NEW r, Grounded(r)', r.todo # << >>, r.open, NEW s, s = Further(r)
    PROVE  /\ Grounded(s)' /\ s.todo = Tail(r.todo) /\ s.cut = 0 /\ s.open
           /\ s.auth = r.auth /\ s.about = r.about /\ s.pub = r.pub /\ s.zip = r.zip
           /\ s.batch = r.batch /\ s.inbox = r.inbox /\ s.known = r.known
<1>1. Tail(r.todo) \in Seq(AStep)
  BY TailIs DEF Grounded
<1>2. s = [open |-> r.open, todo |-> Tail(r.todo), cut |-> 0, auth |-> r.auth,
           about |-> r.about, zip |-> r.zip, pub |-> r.pub, batch |-> r.batch,
           inbox |-> r.inbox, known |-> r.known]
  BY DEF Further, Then, Grounded
<1>3. Len(log') \in Nat
  BY DEF Grounded
<1> QED BY <1>1, <1>2, <1>3 DEF Grounded

\* A session whose call is over, with its memory.
LEMMA OverFits ==
    ASSUME NEW r, SessionFit(r)', r.open, NEW s, NEW k,
           s = Over(r) \/ s = [Over(r) EXCEPT !.known = k]
    PROVE  SessionFit(s)'
<1>1. << >> \in Seq(AStep) /\ Len(log') \in Nat /\ 0 \in 0..Len(log')
  BY DEF SessionFit, Grounded
<1>2. /\ s = [open |-> TRUE, todo |-> << >>, cut |-> 0, auth |-> 0, about |-> 0,
              zip |-> NoZip, pub |-> 0, batch |-> r.batch, inbox |-> r.inbox, known |-> s.known]
  BY DEF Over, SessionFit, Grounded
<1>3. r.batch \subseteq packages' /\ r.inbox \subseteq packages'
  BY DEF SessionFit, Grounded
<1>4. Grounded(s)'
  <2> DEFINE k2 == s.known
  <2>1. s = [open |-> TRUE, todo |-> << >>, cut |-> 0, auth |-> 0, about |-> 0,
             zip |-> NoZip, pub |-> 0, batch |-> r.batch, inbox |-> r.inbox, known |-> k2]
    BY <1>2
  <2> HIDE DEF k2
  <2> QED BY <1>1, <1>3, <2>1 DEF Grounded
<1> QED BY <1>2, <1>4, EmptyIsProper, ThenFits

\* A session that is closed.
LEMMA ClosedFits ==
    ASSUME Len(log') \in Nat
    PROVE  SessionFit(Closed)'
<1> DEFINE s == Closed
<1>1. << >> \in Seq(AStep)
  OBVIOUS
<1>2. /\ s = [open |-> FALSE, todo |-> << >>, cut |-> 0, auth |-> 0, about |-> 0,
              zip |-> NoZip, pub |-> 0, batch |-> {}, inbox |-> {}, known |-> {}]
  BY DEF Closed
<1> HIDE DEF s
<1>3. Grounded(s)'
  BY <1>1, <1>2 DEF Grounded, s
<1>4. Program(<< >>) /\ Frozen(<< >>)
  BY EmptyIsProper DEF Proper
<1>5. DOMAIN s.todo = {} /\ s.about = 0 /\ s.pub = 0 /\ Frozen(s.todo)
  BY <1>2, <1>4
<1>6. RevealsReady(s)' /\ FilesReady(s)' /\ CompletionReady(s)' /\ Publishing(s)' /\ ChallengeNext(s)'
  BY <1>5 DEF RevealsReady, FilesReady, CompletionReady, Publishing, ChallengeNext
<1> QED BY <1>3, <1>6 DEF SessionFit, s

-----------------------------------------------------------------------------
\* Steps.

\* The sessions of the others stay what they have to be.
LEMMA BecomesKeeps ==
    ASSUME Fine, Fitting, packages \subseteq packages', PackagesFit',
           NEW p \in Operator, NEW s, Becomes(p, s), SessionFit(s)'
    PROVE  Keeps
<1>1. Grows
  BY FittingGrows DEF Fine
<1>2. ASSUME NEW q \in Operator
      PROVE  SessionFit(op[q])' 
  <2>1. op'[q] = IF q = p THEN s ELSE op[q]
    BY DEF Fine, Sessions, Becomes
  <2>2. ASSUME NEW r, r = op[q]
        PROVE  SessionFit(r)'
    BY <1>1, <2>2, SessionStable DEF Fine, Sessions
  <2>3. CASE q = p
    <3>1. op'[q] = s
      BY <2>1, <2>3
    <3> QED BY <3>1 DEF SessionFit, Grounded, RevealsReady, FilesReady, ChallengeNext,
                        CompletionReady, Publishing
  <2> QED BY <2>1, <2>2, <2>3
<1>3. op' = [q \in Operator |-> op'[q]]
  BY DEF Fine, Sessions, Becomes
<1> QED BY <1>2, <1>3 DEF Keeps, Sessions

\* Packages stay what they have to be when none is added.
LEMMA PackagesStable ==
    ASSUME Fine, Grows, packages' = packages, receipts' = receipts
    PROVE  PackagesFit'
<1>1. \A pkg \in packages : PackageFit(pkg)'
  BY PackageStable DEF Fine, PackagesFit
<1> QED BY <1>1 DEF Fine, PackagesFit

\* A session alone moves.
LEMMA GoesKeeps ==
    ASSUME Fine, NEW p \in Operator, NEW r, r = op[p], NEW s, Goes(p, s),
           Grows /\ log' = log /\ packages' = packages /\ SessionFit(r)' => SessionFit(s)'
    PROVE  Keeps
<1>1. log' = log /\ packages' = packages /\ receipts' = receipts /\ Becomes(p, s)
  BY DEF Goes
<1>2. Fitting
  BY <1>1 DEF Fitting
<1>3. Grows
  BY <1>2, FittingGrows DEF Fine
<1>4. SessionFit(r)'
  BY <1>1, <1>3, SessionStable DEF Fine, Sessions
<1> QED BY <1>1, <1>2, <1>3, <1>4, PackagesStable, BecomesKeeps

\* A call that raises.
LEMMA RaisesKeeps ==
    ASSUME Fine, NEW p \in Operator, NEW r, r = op[p], r.open, Raises(p)
    PROVE  Keeps
<1>1. ASSUME NEW s, s = Over(r)
      PROVE  Keeps
  <2>1. Goes(p, s)
    BY <1>1 DEF Raises
  <2>2. SessionFit(r)' => SessionFit(s)'
    BY <1>1, OverFits
  <2> QED BY <2>1, <2>2, GoesKeeps
<1> QED BY <1>1

\* A command: the log grows by its commit, or has it, or the call is over.
LEMMA CommitsKeeps ==
    ASSUME Fine, NEW p \in Operator, NEW r, r = op[p], r.open, NEW c, NEW s, Commits(p, c, s),
           Accepted(p, c) => NewFit(c),
           /\ Grows /\ LogFit' /\ packages' = packages /\ SessionFit(r)'
           /\ \E n \in DOMAIN log' : log'[n] = c /\ (n = r.cut + 1 \/ c.kind \in Unbound)
           => SessionFit(s)'
    PROVE  Keeps
<1>1. packages' = packages /\ receipts' = receipts
  BY DEF Commits
<1>2. /\ Fitting
      /\ \/ Becomes(p, Over(r))
         \/ /\ Becomes(p, s)
            /\ \E n \in DOMAIN log' : log'[n] = c /\ (n = r.cut + 1 \/ c.kind \in Unbound)
  <2>1. CASE /\ r.cut = Len(log) \/ c.kind \in Unbound
             /\ ~Committed(c)
             /\ log' = Append(log, c)
             /\ Becomes(p, s)
    <3>1. Fitting
      BY <2>1 DEF Accepted, Fitting
    <3>2. DOMAIN log' = 1..(Len(log) + 1) /\ log'[Len(log) + 1] = c /\ Len(log) \in Nat
      BY <2>1, AppendIsLog DEF Fine, LogFit
    <3>3. Len(log) + 1 \in DOMAIN log'
      BY <3>2
    <3> QED BY <2>1, <3>1, <3>2, <3>3
  <2>2. CASE /\ \E n \in DOMAIN log :
                   /\ n = r.cut + 1 \/ (n > r.cut /\ c.kind \in Unbound)
                   /\ log[n] = c
             /\ Becomes(p, s)
             /\ log' = log
    BY <2>2 DEF Fitting
  <2>3. CASE Becomes(p, Over(r)) /\ log' = log
    BY <2>3 DEF Fitting
  <2> QED BY <2>1, <2>2, <2>3 DEF Commits
<1>3. Grows /\ LogFit'
  BY <1>2, FittingGrows, FittingKeepsLog DEF Fine
<1>4. SessionFit(r)'
  BY <1>1, <1>3, SessionStable DEF Fine, Sessions
<1>5. PackagesFit'
  BY <1>1, <1>3, PackagesStable
<1>6. CASE Becomes(p, Over(r))
  <2> DEFINE o == Over(r)
  <2>1. o = Over(r) /\ Becomes(p, o)
    BY <1>6
  <2> HIDE DEF o
  <2>2. SessionFit(o)'
    BY <1>4, <2>1, OverFits
  <2> QED BY <1>1, <1>2, <1>5, <2>1, <2>2, BecomesKeeps
<1>7. CASE /\ Becomes(p, s)
           /\ \E n \in DOMAIN log' : log'[n] = c /\ (n = r.cut + 1 \/ c.kind \in Unbound)
  <2>1. SessionFit(s)'
    BY <1>1, <1>3, <1>4, <1>7
  <2> QED BY <1>1, <1>2, <1>5, <1>7, <2>1, BecomesKeeps
<1> QED BY <1>2, <1>6, <1>7

\* A step that commits unless what it would record is there.
LEMMA RecordsKeeps ==
    ASSUME Fine, NEW p \in Operator, NEW r, r = op[p], r.open, NEW there, NEW c, NEW s,
           Records(p, there, c, s),
           ~there /\ Accepted(p, c) => NewFit(c),
           /\ Grows /\ LogFit' /\ packages' = packages /\ SessionFit(r)'
           /\ \/ there /\ log' = log
              \/ \E n \in DOMAIN log' : log'[n] = c /\ (n = r.cut + 1 \/ c.kind \in Unbound)
           => SessionFit(s)'
    PROVE  Keeps
<1>1. CASE there
  <2>1. Goes(p, s) /\ log' = log
    BY <1>1 DEF Records, Goes
  <2>2. LogFit'
    BY <2>1, FittingKeepsLog DEF Fine, Fitting
  <2> QED BY <1>1, <2>1, <2>2, GoesKeeps
<1>2. CASE ~there
  <2>1. Commits(p, c, s)
    BY <1>2 DEF Records
  <2> QED BY <1>2, <2>1, CommitsKeeps
<1> QED BY <1>1, <1>2

-----------------------------------------------------------------------------
\* What the actions share.

\* A session at a step.
LEMMA AtStep ==
    ASSUME Fine, NEW p \in Operator, NEW r, r = op[p], NEW do, Doing(p, do)
    PROVE  /\ SessionFit(r) /\ r.open /\ r.todo # << >> /\ r.todo \in Seq(AStep)
           /\ Head(r.todo) = r.todo[1] /\ r.todo[1].do = do /\ Current(p) = r.todo[1].phase
           /\ r.cut \in 0..Len(log) /\ Len(log) \in Nat
           /\ do # "files" => r.pub = 0
<1>1. SessionFit(r) /\ r.todo # << >> /\ Head(r.todo).do = do /\ Current(p) = Head(r.todo).phase
  BY DEF Fine, Sessions, Doing, Current
<1>2. r.todo \in Seq(AStep) /\ r.cut \in 0..Len(log) /\ (~r.open => r = Closed) /\ r.open \in BOOLEAN
  BY <1>1 DEF SessionFit, Grounded
<1>3. Head(r.todo) = r.todo[1]
  BY <1>1, <1>2, TailIs
<1>4. r.open
  BY <1>1, <1>2 DEF Closed
<1>5. do # "files" => r.pub = 0
  BY <1>1, <1>3 DEF SessionFit, Publishing
<1>6. Len(log) \in Nat
  BY AppendIsLog DEF Fine, LogFit
<1> QED BY <1>1, <1>2, <1>3, <1>4, <1>5, <1>6

\* A session that goes on, its first step done.
LEMMA FurtherFits ==
    ASSUME NEW r, SessionFit(r)', r.open, r.todo # << >>, r.pub = 0,
           r.todo[1].do \notin {"files", "grant"}, NEW s, s = Further(r),
           r.todo[1].do = "before" /\ r.todo[1].phase \in Revealing =>
               Has(Len(log), "checkpoints", BlindOf(r.todo[1].phase))',
           r.todo[1].do = "assign" => Has(Len(log), "assignments", r.todo[1].phase)',
           r.todo[1].do = "resolve" => Resolved(0)',
           r.todo[1].do = "succeed" /\ Resolved(r.cut)' => Succeeded'
    PROVE  SessionFit(s)'
<1>1. Grounded(r)'
  BY DEF SessionFit
<1>2. /\ Grounded(s)' /\ s.todo = Tail(r.todo) /\ s.cut = 0
      /\ s.auth = r.auth /\ s.about = r.about /\ s.pub = 0
  BY <1>1, FurtherIs
<1>3. Achieved(r, s)'
  BY <1>2 DEF Achieved
<1> QED BY <1>2, <1>3, TailFits

\* Steps that later ones do not build on.
Bare == {"baseline", "load", "begin", "result", "reload", "seal", "synthesize", "finalize",
         "publish", "validate", "fidelity", "canonicalize", "materialize", "look", "resume",
         "decide", "check", "complete"}

\* A step that nothing later relies on is done.
LEMMA BareFits ==
    ASSUME NEW r, SessionFit(r)', r.open, r.todo # << >>, r.pub = 0,
           r.todo[1].do \in Bare, NEW s, s = Further(r)
    PROVE  SessionFit(s)'
<1>1. r.todo[1].do \notin {"files", "grant", "before", "assign", "resolve", "succeed"}
  BY DEF Bare
<1> QED BY <1>1, FurtherFits

\* Commits with nothing to fit but their place.
LEMMA PlainIsNew ==
    ASSUME NEW kind, NEW f, NEW basis, basis \subseteq 1..Len(log), Len(log) \in Nat,
           kind \notin {"checkpoints", "grant", "evidence", "result", "completion", "challenges"}
    PROVE  NewFit(FactOn(kind, f, basis))
  BY DEF NewFit, Made, FactOn, FactAbout

\* What is found at a cut is of the log.
LEMMA FoundInLog ==
    ASSUME NEW c \in 0..Len(log), Len(log) \in Nat
    PROVE  /\ \A k, f : At(c, k, f) \subseteq 1..Len(log)
           /\ \A k, f : Has(c, k, f) => Has(Len(log), k, f)
  BY DEF At, Has

\* What is committed is found.
LEMMA FactFound ==
    ASSUME IsLog(log'), NEW n \in DOMAIN log', NEW kind, NEW f, NEW basis, NEW a,
           log'[n] = FactAbout(kind, f, basis, a)
    PROVE  Has(Len(log), kind, f)'
<1>1. n \in 1..Len(log') /\ log'[n].kind = kind /\ log'[n].phase = f
  BY AppendIsLog DEF FactAbout
<1>2. n \in At(Len(log), kind, f)'
  BY <1>1 DEF At
<1> QED BY <1>2 DEF Has

\* A step that commits a plain fact, and goes on.
LEMMA PlainRecordKeeps ==
    ASSUME Fine, NEW p \in Operator, NEW do \in Bare, Doing(p, do),
           NEW kind, NEW f, NEW basis, basis \subseteq 1..Len(log), NEW there,
           kind \notin {"checkpoints", "grant", "evidence", "result", "completion", "challenges"},
           Records(p, there, FactOn(kind, f, basis), Further(op[p]))
    PROVE  Keeps
<1>1. ASSUME NEW r, r = op[p], NEW s, s = Further(r)
      PROVE  Keeps
  <2>1. r.open /\ r.todo # << >> /\ r.pub = 0 /\ r.todo[1].do \in Bare /\ Len(log) \in Nat
    <3>1. do # "files"
      BY DEF Bare
    <3> QED BY <1>1, <3>1, AtStep
  <2>2. NewFit(FactOn(kind, f, basis))
    BY <2>1, PlainIsNew
  <2>3. SessionFit(r)' => SessionFit(s)'
    BY <1>1, <2>1, BareFits
  <2>4. Records(p, there, FactOn(kind, f, basis), s)
    BY <1>1
  <2> QED BY <1>1, <2>1, <2>2, <2>3, <2>4, RecordsKeeps
<1> QED BY <1>1

\* A step that fails ends the call.
LEMMA AtStepRaises ==
    ASSUME Fine, NEW p \in Operator, NEW do, Doing(p, do), Raises(p)
    PROVE  Keeps
<1>1. ASSUME NEW r, r = op[p]
      PROVE  Keeps
  <2>1. r.open
    BY <1>1, AtStep
  <2> QED BY <1>1, <2>1, RaisesKeeps
<1> QED BY <1>1

\* A step that only goes on.
LEMMA BareGoes ==
    ASSUME Fine, NEW p \in Operator, NEW do \in Bare, Doing(p, do), Goes(p, Further(op[p]))
    PROVE  Keeps
<1>1. ASSUME NEW r, r = op[p], NEW s, s = Further(r)
      PROVE  Keeps
  <2>1. r.open /\ r.todo # << >> /\ r.pub = 0 /\ r.todo[1].do \in Bare
    <3>1. do # "files"
      BY DEF Bare
    <3> QED BY <1>1, <3>1, AtStep
  <2>2. SessionFit(r)' => SessionFit(s)'
    BY <1>1, <2>1, BareFits
  <2> QED BY <1>1, <2>2, GoesKeeps
<1> QED BY <1>1

\* A step that ends the call as it should.
LEMMA GoesOver ==
    ASSUME Fine, NEW p \in Operator, NEW do, Doing(p, do), Goes(p, Over(op[p]))
    PROVE  Keeps
  BY AtStepRaises DEF Raises

\* A session that starts a call, or a service of it.
LEMMA CallKeeps ==
    ASSUME Fine, NEW p \in Operator, NEW r, r = op[p], r.open,
           \/ r.todo = << >>
           \/ r.todo[1].do \notin {"assign", "grant", "publish", "files", "load"},
           NEW t, Proper(t), NEW s, Goes(p, s),
           NEW z, z = r.zip \/ \E pkg \in packages, says \in Saying : z = Archive(pkg, says),
           NEW b, b \subseteq packages,
           s = [open |-> TRUE, todo |-> t, cut |-> 0, auth |-> r.auth, about |-> r.about,
                zip |-> z, pub |-> r.pub, batch |-> b, inbox |-> r.inbox, known |-> r.known]
    PROVE  Keeps
<1>1. SessionFit(r)
  BY DEF Fine, Sessions
<1>2. r.about = 0 /\ r.pub = 0
  BY <1>1, NothingAtHand
<1>3. t \in Seq(AStep)
  BY DEF Proper, Program
<1>4. ASSUME Grows, packages' = packages, SessionFit(r)'
      PROVE  SessionFit(s)'
  <2>1. /\ Len(log') \in Nat /\ r.auth \in 0..Len(log') /\ 0 \in 0..Len(log')
        /\ r.inbox \subseteq packages' /\ b \subseteq packages'
    BY <1>4 DEF SessionFit, Grounded
  <2>2. z = NoZip \/ \E pkg \in packages', says \in Saying : z = Archive(pkg, says)
    BY <1>4 DEF SessionFit, Grounded
  <2>3. Grounded(s)'
    BY <1>2, <1>3, <2>1, <2>2 DEF Grounded
  <2>4. s.todo = t /\ s.about = 0 /\ s.pub = 0
    BY <1>2
  <2> QED BY <1>4, <2>3, <2>4, ThenFits
<1> QED BY <1>4, GoesKeeps

\* Then, field by field.
LEMMA ThenIs ==
    ASSUME NEW r, Grounded(r), r.open, NEW t, NEW s, s = Then(r, t)
    PROVE  s = [open |-> TRUE, todo |-> t, cut |-> 0, auth |-> r.auth, about |-> r.about,
                zip |-> r.zip, pub |-> r.pub, batch |-> r.batch, inbox |-> r.inbox,
                known |-> r.known]
  BY DEF Then, Grounded

\* An idle session is given another call.
LEMMA ThenKeeps ==
    ASSUME Fine, NEW p \in Operator, NEW r, r = op[p], r.open,
           \/ r.todo = << >>
           \/ r.todo[1].do \notin {"assign", "grant", "publish", "files", "load"},
           NEW t, Proper(t), Goes(p, Then(r, t))
    PROVE  Keeps
<1>1. Grounded(r)
  BY DEF Fine, Sessions, SessionFit
<1>2. r.batch \subseteq packages
  BY <1>1 DEF Grounded
<1>3. ASSUME NEW s, s = Then(r, t)
      PROVE  Keeps
  <2>1. s = [open |-> TRUE, todo |-> t, cut |-> 0, auth |-> r.auth, about |-> r.about,
             zip |-> r.zip, pub |-> r.pub, batch |-> r.batch, inbox |-> r.inbox,
             known |-> r.known]
    BY <1>1, <1>3, ThenIs
  <2>2. Goes(p, s)
    BY <1>3
  <2> QED BY <1>2, <2>1, <2>2, CallKeeps
<1> QED BY <1>3

\* A step reads its cut.
LEMMA ReadCutKeeps ==
    ASSUME Fine, NEW p \in Operator, ReadCut(p)
    PROVE  Keeps
<1>1. ASSUME NEW r, r = op[p], NEW s, s = [r EXCEPT !.cut = Len(log)]
      PROVE  Keeps
  <2>1. Goes(p, s) /\ r.cut = 0 /\ r.todo # << >>
    BY <1>1 DEF ReadCut, Goes
  <2>2. r.open
    <3>1. SessionFit(r)
      BY <1>1 DEF Fine, Sessions
    <3> QED BY <2>1, <3>1 DEF SessionFit, Grounded, Closed
  <2>3. ASSUME Grows, log' = log, packages' = packages, SessionFit(r)'
        PROVE  SessionFit(s)'
    <3>1. Len(log) \in Nat /\ Len(log') = Len(log)
      BY <2>3 DEF Grows
    <3>2. s = [open |-> r.open, todo |-> r.todo, cut |-> Len(log), auth |-> r.auth,
               about |-> r.about, zip |-> r.zip, pub |-> r.pub, batch |-> r.batch,
               inbox |-> r.inbox, known |-> r.known]
      BY <1>1, <2>3 DEF SessionFit, Grounded
    <3>3. Grounded(s)'
      BY <2>2, <2>3, <3>1, <3>2 DEF SessionFit, Grounded
    <3>4. RevealsReady(s)' /\ FilesReady(s)' /\ ChallengeNext(s)' /\ Publishing(s)'
      <4>1. s.todo = r.todo /\ s.auth = r.auth /\ s.about = r.about /\ s.pub = r.pub
        BY <3>2
      <4>2. RevealsReady(s)'
        BY <2>3, <4>1 DEF SessionFit, RevealsReady
      <4>3. FilesReady(s)'
        BY <2>3, <4>1 DEF SessionFit, FilesReady
      <4>4. ChallengeNext(s)'
        BY <2>3, <4>1 DEF SessionFit, ChallengeNext
      <4>5. Publishing(s)'
        BY <2>3, <4>1 DEF SessionFit, Publishing
      <4> QED BY <4>2, <4>3, <4>4, <4>5
    <3>5. CompletionReady(s)'
      <4>1. s.todo = r.todo /\ s.cut = Len(log)
        BY <3>2
      <4>2. Resolved(r.cut)' => Resolved(s.cut)'
        BY <2>3, <3>1, <4>1 DEF Resolved
      <4>3. CompletionReady(r)'
        BY <2>3 DEF SessionFit
      <4> QED BY <4>1, <4>2, <4>3 DEF CompletionReady
    <3> QED BY <3>3, <3>4, <3>5 DEF SessionFit
  <2> QED BY <1>1, <2>1, <2>3, GoesKeeps
<1> QED BY <1>1

\* The advance goes to the stage it found.
LEMMA DecideKeeps ==
    ASSUME Fine, NEW p \in Operator, Decide(p)
    PROVE  Keeps
<1> DEFINE c == op[p].cut
           s == Current(p)
           t == IF s = "E2" /\ StageDone(c, "E2") THEN "E3" ELSE s
<1>1. Doing(p, "decide")
  BY DEF Decide, AtCut
<1>2. ASSUME NEW r, r = op[p]
      PROVE  Keeps
  <2>1. r.open /\ r.todo # << >> /\ r.todo[1].do = "decide"
    BY <1>1, <1>2, AtStep
  <2>2. \/ AtStage(p, t)
        \/ Goes(p, Over(r))
        \/ Goes(p, Then(r, << Step("decide", IF t = "E3" THEN "E4" ELSE "E5") >>))
    BY <1>2 DEF Decide
  <2> HIDE DEF t
  <2>3. CASE AtStage(p, t)
    <3>1. \/ Goes(p, Then(r, << >> \o Steps(None, << "check" >>)))
          \/ Goes(p, Then(r, Preparation(FirstPhase(t)) \o Steps(None, << "check" >>)))
      BY <1>2, <2>3 DEF AtStage
    <3>2. /\ Proper(<< >> \o Steps(None, << "check" >>))
          /\ Proper(Preparation(FirstPhase(t)) \o Steps(None, << "check" >>))
      BY AdvanceIsProper
    <3> QED BY <1>2, <2>1, <3>1, <3>2, ThenKeeps
  <2>4. CASE Goes(p, Over(r))
    BY <1>1, <1>2, <2>4, GoesOver
  <2>5. CASE Goes(p, Then(r, << Step("decide", IF t = "E3" THEN "E4" ELSE "E5") >>))
    <3>1. (IF t = "E3" THEN "E4" ELSE "E5") \in Stage
      BY DEF Stage
    <3>2. Proper(<< Step("decide", IF t = "E3" THEN "E4" ELSE "E5") >>)
      BY <3>1, DecideIsProper
    <3> QED BY <1>2, <2>1, <2>5, <3>2, ThenKeeps
  <2> QED BY <2>2, <2>3, <2>4, <2>5
<1> QED BY <1>2

\* The results are waited for, or handed to their services.
LEMMA CheckKeeps ==
    ASSUME Fine, NEW p \in Operator, Check(p)
    PROVE  Keeps
<1>1. Doing(p, "check")
  BY DEF Check
<1>2. ASSUME NEW r, r = op[p]
      PROVE  Keeps
  <2>1. r.open /\ r.todo # << >> /\ r.todo[1].do = "check" /\ SessionFit(r)
    BY <1>1, <1>2, AtStep
  <2>2. Raises(p) \/ Goes(p, Then(r, After(PhaseOf(r.batch))))
    BY <1>2 DEF Check
  <2>3. PhaseOf(r.batch) \in Phase \cup {None}
    <3>1. \A j \in r.batch : j.phase \in Phase
      BY <2>1 DEF SessionFit, Grounded, Fine, PackagesFit, PackageFit
    <3>2. CASE r.batch # {}
      <4>1. (CHOOSE j \in r.batch : TRUE) \in r.batch
        BY <3>2
      <4> QED BY <3>1, <3>2, <4>1 DEF PhaseOf
    <3> QED BY <3>2 DEF PhaseOf
  <2>4. Proper(After(PhaseOf(r.batch)))
    BY <2>3, AfterIsProper
  <2> QED BY <1>1, <1>2, <2>1, <2>2, <2>4, AtStepRaises, ThenKeeps
<1> QED BY <1>2

\* The lanes of a phase are assigned, after the completion they need.
LEMMA AssignKeeps ==
    ASSUME Fine, NEW p \in Operator, Assign(p)
    PROVE  Keeps
<1>1. Doing(p, "assign")
  BY DEF Assign, AtCut
<1>2. ASSUME NEW r, r = op[p], NEW s, s = Further(r), NEW f, f = Current(p)
      PROVE  Keeps
  <2>1. /\ r.open /\ r.todo # << >> /\ r.todo[1].do = "assign" /\ r.pub = 0
        /\ f = r.todo[1].phase /\ r.cut \in 0..Len(log) /\ Len(log) \in Nat
    BY <1>1, <1>2, AtStep
  <2>2. Raises(p) \/ Records(p, Has(r.cut, "assignments", f), FactOn("assignments", f, {}), s)
    BY <1>2 DEF Assign, Existing, Handout, Fact
  <2>3. NewFit(FactOn("assignments", f, {}))
    BY <2>1, PlainIsNew
  <2>4. ASSUME Grows, SessionFit(r)',
               \/ Has(r.cut, "assignments", f) /\ log' = log
               \/ \E n \in DOMAIN log' : log'[n] = FactOn("assignments", f, {})
        PROVE  SessionFit(s)'
    <3>1. Has(Len(log), "assignments", f)'
      <4>1. CASE Has(r.cut, "assignments", f)
        BY <2>1, <2>4, <4>1, ResultsStable
      <4>2. CASE \E n \in DOMAIN log' : log'[n] = FactOn("assignments", f, {})
        BY <2>4, <4>2, FactFound DEF FactOn, Grows
      <4> QED BY <2>4, <4>1, <4>2
    <3> QED BY <1>2, <2>1, <2>4, <3>1, FurtherFits
  <2>5. CASE Records(p, Has(r.cut, "assignments", f), FactOn("assignments", f, {}), s)
    BY <1>2, <2>1, <2>3, <2>4, <2>5, RecordsKeeps
  <2> QED BY <1>1, <2>2, <2>5, AtStepRaises
<1> QED BY <1>2

\* The cut is that of the authorization, or the call raises.
LEMMA PublishKeeps ==
    ASSUME Fine, NEW p \in Operator, Publish(p)
    PROVE  Keeps
<1>1. Doing(p, "publish") /\ (Raises(p) \/ Goes(p, Further(op[p])))
  BY DEF Publish, AtCut
<1>2. "publish" \in Bare
  BY DEF Bare
<1> QED BY <1>1, <1>2, AtStepRaises, BareGoes

\* A session that reads its inbox.
LEMMA LoadKeeps ==
    ASSUME Fine, NEW p \in Operator, Load(p)
    PROVE  Keeps
<1>1. Doing(p, "load")
  BY DEF Load, AtCut
<1>2. ASSUME NEW r, r = op[p], NEW u, u = Further(r), NEW s, s = Loaded(u, r.cut)
      PROVE  Keeps
  <2>1. r.open /\ r.todo # << >> /\ r.pub = 0 /\ r.todo[1].do = "load"
    BY <1>1, <1>2, AtStep
  <2>2. Raises(p) \/ Goes(p, s)
    BY <1>2 DEF Load
  <2>3. ASSUME SessionFit(r)'
        PROVE  SessionFit(s)'
    <3>1. SessionFit(u)'
      <4>1. r.todo[1].do \in Bare
        BY <2>1 DEF Bare
      <4> QED BY <1>2, <2>1, <2>3, <4>1, BareFits
    <3>2. s = [open |-> u.open, todo |-> u.todo, cut |-> u.cut, auth |-> u.auth,
               about |-> u.about, zip |-> u.zip, pub |-> u.pub, batch |-> u.batch,
               inbox |-> u.batch, known |-> s.known]
      BY <1>2, <3>1 DEF Loaded, SessionFit, Grounded
    <3>3. u.open
      <4>1. Grounded(r)'
        BY <2>3 DEF SessionFit
      <4> QED BY <1>2, <2>1, <4>1, FurtherIs
    <3>4. Grounded(s)'
      <4> DEFINE k == s.known
      <4>1. s = [open |-> u.open, todo |-> u.todo, cut |-> u.cut, auth |-> u.auth,
                 about |-> u.about, zip |-> u.zip, pub |-> u.pub, batch |-> u.batch,
                 inbox |-> u.batch, known |-> k]
        BY <3>2
      <4> HIDE DEF k
      <4> QED BY <3>1, <3>3, <4>1 DEF SessionFit, Grounded
    <3>5. /\ s.todo = u.todo /\ s.auth = u.auth /\ s.about = u.about /\ s.pub = u.pub
          /\ s.cut = u.cut
      BY <3>2
    <3>6. RevealsReady(s)'
      BY <3>1, <3>5 DEF SessionFit, RevealsReady
    <3>7. FilesReady(s)'
      BY <3>1, <3>5 DEF SessionFit, FilesReady
    <3>8. ChallengeNext(s)'
      BY <3>1, <3>5 DEF SessionFit, ChallengeNext
    <3>9. CompletionReady(s)'
      BY <3>1, <3>5 DEF SessionFit, CompletionReady
    <3>10. Publishing(s)'
      BY <3>1, <3>5 DEF SessionFit, Publishing
    <3> QED BY <3>4, <3>6, <3>7, <3>8, <3>9, <3>10 DEF SessionFit
  <2> QED BY <1>1, <1>2, <2>2, <2>3, AtStepRaises, GoesKeeps
<1> QED BY <1>2

\* The arithmetic of the files: k of them are there, two for each lane.
LEMMA Halves ==
    ASSUME NEW k \in Nat, NEW n \in Nat, k <= 2 * n, k # 2 * n
    PROVE  /\ (k \div 2) + 1 \in 1..n
           /\ k % 2 \in {0, 1}
           /\ k % 2 = 1 => 2 * ((k \div 2) + 1) = k + 1
           /\ \A i \in 1..n : 2 * i < k + 3 => 2 * i < k + 2 \/ (k % 2 = 0 /\ i = (k \div 2) + 1)
<1>1. k % 2 \in 0..1 /\ k \div 2 \in Nat
  OBVIOUS
<1>2. k = (k \div 2) + (k \div 2) + (k % 2)
  OBVIOUS
<1> DEFINE h == k \div 2
           m == k % 2
<1>3. m \in 0..1 /\ h \in Nat /\ k = h + h + m
  BY <1>1, <1>2
<1> HIDE DEF h, m
<1>4. h + 1 \in 1..n /\ (m = 1 => 2 * (h + 1) = k + 1)
  BY <1>3
<1>5. \A i \in 1..n : 2 * i < k + 3 => 2 * i < k + 2 \/ (m = 0 /\ i = h + 1)
  BY <1>3
<1> QED BY <1>3, <1>4, <1>5 DEF h, m

\* What the files of a session are published under.
LEMMA FilesUnder ==
    ASSUME Fine, NEW r, SessionFit(r), r.todo # << >>, r.todo[1].do = "files",
           NEW f, f = r.todo[1].phase
    PROVE  /\ f \in Phase /\ Lanes[f] \in Seq(Range(Lanes[f])) /\ r.pub \in Nat
           /\ r.pub <= 2 * Len(Lanes[f])
           /\ \A i \in DOMAIN Lanes[f] :
                 /\ 2 * i < r.pub + 2 => Package(f, Lanes[f][i], r.auth, r.about) \in packages
                 /\ PackageFit(Package(f, Lanes[f][i], r.auth, r.about))
<1>1. r.todo \in Seq(AStep) /\ 1 \in DOMAIN r.todo
  <2>1. r.todo \in Seq(AStep)
    BY DEF SessionFit, Grounded
  <2> QED BY <2>1
<1>2. /\ f \in Phase
      /\ Has(Len(log), "assignments", f)
      /\ f \in Granted => UnderGrant(Package(f, None, r.auth, r.about))
  <2>1. /\ \A do, g : ~Ahead(r.todo, 1, do, g)
        /\ \A g : ~GrantAhead(r.todo, 1, g)
    BY DEF Ahead, GrantAhead
  <2> QED BY <1>1, <2>1 DEF SessionFit, FilesReady
<1>3. Lanes[f] \in Seq(Range(Lanes[f])) /\ Len(Lanes[f]) \in Nat /\ DOMAIN Lanes[f] = 1..Len(Lanes[f])
  <2>1. Lanes[f] \in Seq(Range(Lanes[f]))
    BY <1>2, PhasesAssumption
  <2> QED BY <2>1
<1>4. r.pub \in Nat /\ r.auth \in 0..Len(log) /\ r.about \in 0..Len(log)
  BY DEF SessionFit, Grounded
<1>5. r.pub <= 2 * Len(Lanes[f])
  BY <1>3, <1>4 DEF SessionFit, Publishing
<1>6. ASSUME NEW i \in DOMAIN Lanes[f]
      PROVE  /\ 2 * i < r.pub + 2 => Package(f, Lanes[f][i], r.auth, r.about) \in packages
             /\ PackageFit(Package(f, Lanes[f][i], r.auth, r.about))
  <2>1. 2 * i < r.pub + 2 => Package(f, Lanes[f][i], r.auth, r.about) \in packages
    <3>1. CASE r.pub = 0
      BY <1>3, <1>6, <3>1
    <3>2. CASE r.pub # 0
      BY <1>6, <3>2 DEF SessionFit, Publishing
    <3> QED BY <3>1, <3>2
  <2>2. ASSUME NEW z, z = Package(f, Lanes[f][i], r.auth, r.about)
        PROVE  PackageFit(z)
    <3>1. /\ z.phase = f /\ z.lane = Lanes[f][i] /\ z.auth = r.auth /\ z.about = r.about
          /\ z = [phase |-> z.phase, lane |-> z.lane, auth |-> z.auth, about |-> z.about]
      BY <2>2 DEF Package
    <3>2. z.lane \in LanesOf(f)
      BY <1>6, <3>1 DEF LanesOf
    <3>3. UnderGrant(Package(f, None, r.auth, r.about)) => UnderGrant(z)
      BY <3>1 DEF UnderGrant, Package
    <3>4. Entitled(Len(log), z)
      BY <1>2, <3>1, <3>2, <3>3 DEF Entitled
    <3>5. z \in [phase : Phase, lane : LanesOf(z.phase), auth : 0..Len(log), about : 0..Len(log)]
      BY <1>2, <1>4, <3>1, <3>2
    <3> QED BY <3>4, <3>5 DEF PackageFit
  <2> QED BY <2>1, <2>2
<1> QED BY <1>2, <1>3, <1>4, <1>5, <1>6

\* A package is published after its assignment and its grant, a receipt after its package.
LEMMA PublishFileKeeps ==
    ASSUME Fine, NEW p \in Operator, PublishFile(p)
    PROVE  Keeps
<1>1. Doing(p, "files") /\ log' = log
  BY DEF PublishFile
<1>2. Fitting
  BY <1>1 DEF Fitting
<1>3. Grows
  BY <1>2, FittingGrows DEF Fine
<1>4. ASSUME NEW r, r = op[p], NEW f, f = Current(p), NEW k, k = r.pub,
             NEW pkg, pkg = Package(f, Lanes[f][(k \div 2) + 1], r.auth, r.about)
      PROVE  Keeps
  <2>1. /\ SessionFit(r) /\ r.open /\ r.todo # << >> /\ r.todo[1].do = "files"
        /\ f = r.todo[1].phase /\ r.todo \in Seq(AStep)
    BY <1>1, <1>4, AtStep
  <2>2. /\ f \in Phase /\ Lanes[f] \in Seq(Range(Lanes[f])) /\ k \in Nat
        /\ k <= 2 * Len(Lanes[f])
        /\ \A i \in DOMAIN Lanes[f] :
              /\ 2 * i < k + 2 => Package(f, Lanes[f][i], r.auth, r.about) \in packages
              /\ PackageFit(Package(f, Lanes[f][i], r.auth, r.about))
    BY <1>4, <2>1, FilesUnder
  <2>3. DOMAIN Lanes[f] = 1..Len(Lanes[f]) /\ Len(Lanes[f]) \in Nat
    BY <2>2
  <2>4. CASE k = 2 * Len(Lanes[f])
    <3> DEFINE b == {Package(f, lane, r.auth, r.about) : lane \in LanesOf(f)}
    <3>1. b \subseteq packages
      BY <2>2, <2>3, <2>4 DEF LanesOf
    <3> HIDE DEF b
    <3>2. ASSUME NEW s, s = [Further(r) EXCEPT !.pub = 0, !.auth = 0, !.about = 0, !.batch = b]
          PROVE  Keeps
      <4>1. Goes(p, s)
        BY <1>1, <1>4, <2>4, <3>2 DEF PublishFile, Goes, b
      <4>2. ASSUME packages' = packages, SessionFit(r)'
            PROVE  SessionFit(s)'
        <5>1. Grounded(r)'
          BY <4>2 DEF SessionFit
        <5>2. ASSUME NEW u, u = Further(r)
              PROVE  Grounded(s)' /\ s.todo = Tail(r.todo) /\ s.cut = 0 /\ s.pub = 0 /\ s.about = 0
          <6>1. Grounded(u)' /\ u.todo = Tail(r.todo) /\ u.cut = 0 /\ u.open
            BY <2>1, <5>1, <5>2, FurtherIs
          <6>2. s = [open |-> u.open, todo |-> u.todo, cut |-> u.cut, auth |-> 0,
                     about |-> 0, zip |-> u.zip, pub |-> 0, batch |-> b,
                     inbox |-> u.inbox, known |-> u.known]
            BY <3>2, <5>2, <6>1 DEF Grounded
          <6>3. b \subseteq packages' /\ 0 \in 0..Len(log')
            BY <1>3, <3>1, <4>2 DEF Grows
          <6> QED BY <6>1, <6>2, <6>3 DEF Grounded
        <5>3. Achieved(r, s)'
          BY <2>1, <5>2 DEF Achieved
        <5> QED BY <2>1, <4>2, <5>2, <5>3, TailFits
      <4> QED BY <1>4, <4>1, <4>2, GoesKeeps
    <3> QED BY <3>2
  <2>5. CASE k # 2 * Len(Lanes[f])
    <3>1. /\ (k \div 2) + 1 \in 1..Len(Lanes[f])
          /\ k % 2 \in {0, 1}
          /\ k % 2 = 1 => 2 * ((k \div 2) + 1) = k + 1
          /\ \A i \in 1..Len(Lanes[f]) :
                2 * i < k + 3 => 2 * i < k + 2 \/ (k % 2 = 0 /\ i = (k \div 2) + 1)
      BY <2>2, <2>3, <2>5, Halves
    <3>2. PackageFit(pkg) /\ (k % 2 = 1 => pkg \in packages)
      BY <1>4, <2>2, <2>3, <3>1
    <3>3. /\ packages' = IF k % 2 = 0 THEN packages \cup {pkg} ELSE packages
          /\ receipts' = IF k % 2 = 1 THEN receipts \cup {pkg} ELSE receipts
          /\ Becomes(p, [r EXCEPT !.pub = k + 1])
      BY <1>4, <2>5 DEF PublishFile
    <3>4. packages \subseteq packages' /\ (k % 2 = 0 => pkg \in packages')
          /\ packages' \subseteq packages \cup {pkg}
      BY <3>3
    <3>5. PackagesFit'
      <4>1. receipts' \subseteq packages'
        BY <3>1, <3>2, <3>3 DEF Fine, PackagesFit
      <4>2. \A z \in packages' : PackageFit(z)
        BY <3>2, <3>4 DEF Fine, PackagesFit
      <4>3. \A z \in packages' : PackageFit(z)'
        BY <1>3, <4>2, PackageStable DEF Fine
      <4> QED BY <4>1, <4>3 DEF PackagesFit
    <3>6. ASSUME NEW s, s = [r EXCEPT !.pub = k + 1]
          PROVE  Keeps
      <4>1. SessionFit(r)'
        BY <1>3, <2>1, <3>4, SessionStable DEF Fine
      <4>2. s = [open |-> r.open, todo |-> r.todo, cut |-> r.cut, auth |-> r.auth,
                 about |-> r.about, zip |-> r.zip, pub |-> k + 1, batch |-> r.batch,
                 inbox |-> r.inbox, known |-> r.known]
        BY <3>6, <4>1 DEF SessionFit, Grounded
      <4>3. Grounded(s)'
        BY <2>1, <2>2, <4>1, <4>2 DEF SessionFit, Grounded
      <4>4. /\ s.todo = r.todo /\ s.auth = r.auth /\ s.about = r.about /\ s.cut = r.cut
            /\ s.pub = k + 1
        BY <4>2
      <4>5. RevealsReady(s)'
        BY <4>1, <4>4 DEF SessionFit, RevealsReady
      <4>6. FilesReady(s)'
        BY <4>1, <4>4 DEF SessionFit, FilesReady
      <4>7. ChallengeNext(s)'
        BY <4>1, <4>4 DEF SessionFit, ChallengeNext
      <4>8. CompletionReady(s)'
        BY <4>1, <4>4 DEF SessionFit, CompletionReady
      <4>9. k + 1 <= 2 * Len(Lanes[f])
        BY <2>2, <2>3, <2>5
      <4>10. ASSUME NEW i \in DOMAIN Lanes[f], 2 * i < (k + 1) + 2
             PROVE  Package(f, Lanes[f][i], r.auth, r.about) \in packages'
        <5>1. i \in 1..Len(Lanes[f]) /\ 2 * i < k + 3
          BY <2>2, <2>3, <4>10
        <5>2. 2 * i < k + 2 \/ (k % 2 = 0 /\ i = (k \div 2) + 1)
          BY <3>1, <5>1
        <5> QED BY <1>4, <2>2, <3>4, <5>2, <4>10
      <4>11. Publishing(s)'
        BY <2>1, <4>4, <4>9, <4>10 DEF Publishing
      <4>12. SessionFit(s)'
        BY <4>3, <4>5, <4>6, <4>7, <4>8, <4>11 DEF SessionFit
      <4>13. Becomes(p, s)
        BY <3>3, <3>6
      <4> QED BY <1>2, <3>4, <3>5, <4>12, <4>13, BecomesKeeps
    <3> QED BY <3>6
  <2> QED BY <2>4, <2>5
<1> QED BY <1>4

\* The first of the sessions, the calls.
LEMMA IdleIs ==
    ASSUME Fine, NEW p \in Operator, NEW r, r = op[p], Idle(p)
    PROVE  r.open /\ r.todo = << >> /\ Grounded(r) /\ r.batch \subseteq packages
<1>1. SessionFit(r)
  BY DEF Fine, Sessions
<1> QED BY <1>1 DEF Idle, SessionFit, Grounded

\* The calls an operator makes.
LEMMA CallsKeep ==
    ASSUME Fine, NEW p \in Operator, Calls(p)
    PROVE  Keeps
<1>1. CASE Start(p)
  <2> DEFINE t == Steps(None, << "resume" >>)
  <2>1. Proper(t) /\ t \in Seq(AStep)
    <3>1. None \in Phase \cup Stage \cup {None}
      OBVIOUS
    <3>2. Proper(t)
      BY <3>1, PlainLists, PlainIsProper
    <3> QED BY <3>2 DEF Proper, Program
  <2> HIDE DEF t
  <2>2. ASSUME NEW r, r = op[p], NEW s, s = [Closed EXCEPT !.open = TRUE, !.todo = t]
        PROVE  Keeps
    <3>1. Goes(p, s)
      BY <1>1, <2>2 DEF Start, t
    <3>2. s = [open |-> TRUE, todo |-> t, cut |-> 0, auth |-> 0, about |-> 0,
               zip |-> NoZip, pub |-> 0, batch |-> {}, inbox |-> {}, known |-> {}]
      BY <2>2 DEF Closed
    <3>3. ASSUME Grows, SessionFit(r)'
          PROVE  SessionFit(s)'
      <4>1. 0 \in 0..Len(log')
        BY <3>3 DEF Grows
      <4>2. Grounded(s)'
        BY <2>1, <3>2, <4>1 DEF Grounded
      <4> QED BY <2>1, <3>2, <3>3, <4>2, ThenFits
    <3> QED BY <2>2, <3>1, <3>3, GoesKeeps
  <2> QED BY <2>2
<1>2. CASE Advance(p)
  <2>1. ASSUME NEW r, r = op[p]
        PROVE  Keeps
    <3>1. Goes(p, Then(r, << Step("decide", "E2") >>)) /\ r.open /\ r.todo = << >>
      BY <1>2, <2>1 DEF Advance, Idle
    <3>2. Proper(<< Step("decide", "E2") >>)
      BY DecideIsProper DEF Stage
    <3> QED BY <2>1, <3>1, <3>2, ThenKeeps
  <2> QED BY <2>1
<1>3. ASSUME NEW pkg \in packages, NEW says \in Saying, Import(p, pkg, says)
      PROVE  Keeps
  <2>1. ASSUME NEW r, r = op[p], NEW t, t = Steps(pkg.phase, << "look", "begin", "result", "reload" >>),
               NEW z, z = Archive(pkg, says), NEW s, s = [Then(r, t) EXCEPT !.zip = z]
        PROVE  Keeps
    <3>1. r.open /\ r.todo = << >> /\ Grounded(r) /\ r.batch \subseteq packages
      BY <1>3, <2>1, IdleIs DEF Import
    <3>2. Goes(p, s)
      BY <1>3, <2>1 DEF Import
    <3>3. Proper(t)
      <4>1. pkg.phase \in Phase \cup Stage \cup {None}
        BY DEF Fine, PackagesFit, PackageFit
      <4> QED BY <2>1, <4>1, PlainLists, PlainIsProper
    <3>5. s = [open |-> TRUE, todo |-> t, cut |-> 0, auth |-> r.auth, about |-> r.about,
               zip |-> z, pub |-> r.pub, batch |-> r.batch, inbox |-> r.inbox,
               known |-> r.known]
      BY <2>1, <3>1 DEF Then, Grounded
    <3> QED BY <2>1, <3>1, <3>2, <3>3, <3>5, CallKeeps
  <2> QED BY <2>1
<1>4. ASSUME NEW f \in Phase, Prepare(p, f)
      PROVE  Keeps
  <2>1. ASSUME NEW r, r = op[p]
        PROVE  Keeps
    <3>1. Goes(p, Then(r, Preparation(f))) /\ r.open /\ r.todo = << >>
      BY <1>4, <2>1 DEF Prepare, Idle
    <3> QED BY <2>1, <3>1, PreparationIsProper, ThenKeeps
  <2> QED BY <2>1
<1> QED BY <1>1, <1>2, <1>3, <1>4 DEF Calls, Regular

\* The process dies.
LEMMA DieKeeps ==
    ASSUME Fine, NEW p \in Operator, Die(p)
    PROVE  Keeps
<1>1. ASSUME NEW r, r = op[p], NEW s, s = Closed
      PROVE  Keeps
  <2>1. Goes(p, s)
    BY <1>1 DEF Die
  <2>2. ASSUME Grows
        PROVE  SessionFit(s)'
    <3>1. SessionFit(Closed)'
      BY <2>2, ClosedFits DEF Grows
    <3>2. s = Closed /\ Closed' = Closed
      BY <1>1 DEF Closed, NoZip, Fact, FactOn, FactAbout, None
    <3> QED BY <3>1, <3>2 DEF SessionFit, Grounded, RevealsReady, FilesReady, ChallengeNext,
                              CompletionReady, Publishing
  <2> QED BY <1>1, <2>1, <2>2, GoesKeeps
<1> QED BY <1>1

\* There is a phase to resume, or none.
LEMMA ResumedIsPhase ==
    ASSUME NEW c
    PROVE  ResumedPhase(c) \in Phase \cup {None}
<1>1. AssignedAt(c) \subseteq DOMAIN Candidates(c)
  BY DEF AssignedAt
<1>2. /\ DOMAIN Candidates(c) \subseteq 1..4
      /\ \A i \in DOMAIN Candidates(c) : Candidates(c)[i] \in Phase
  <2>1. /\ DOMAIN << >> \subseteq 1..4
        /\ \A i \in DOMAIN << >> : << >>[i] \in Phase
    OBVIOUS
  <2>2. LET t == << "E5B-CHALLENGE", "E5A-ATTACK" >>
        IN  DOMAIN t \subseteq 1..4 /\ \A i \in DOMAIN t : t[i] \in Phase
    BY DEF Phase
  <2>3. LET t == << "E4-DEEPEN" >>
        IN  DOMAIN t \subseteq 1..4 /\ \A i \in DOMAIN t : t[i] \in Phase
    BY DEF Phase
  <2>4. LET t == << "E3-HOLDOUT", "E3-CUMULATIVE", "E3-GAP", "E3-BLIND" >>
        IN  DOMAIN t \subseteq 1..4 /\ \A i \in DOMAIN t : t[i] \in Phase
    BY DEF Phase
  <2>5. LET t == << "E2-CONTRADICTION", "E2-SHADOW", "E2-REVEAL", "E2-BLIND" >>
        IN  DOMAIN t \subseteq 1..4 /\ \A i \in DOMAIN t : t[i] \in Phase
    BY DEF Phase
  <2> QED BY <2>1, <2>2, <2>3, <2>4, <2>5 DEF Candidates
<1>3. ASSUME NEW S, S \subseteq 1..4, S # {}
      PROVE  Min(S) \in S
  <2>1. \E x \in S : \A y \in S : x =< y
    <3>1. CASE 1 \in S
      BY <1>3, <3>1
    <3>2. CASE 1 \notin S /\ 2 \in S
      BY <1>3, <3>2
    <3>3. CASE 1 \notin S /\ 2 \notin S /\ 3 \in S
      BY <1>3, <3>3
    <3>4. CASE 1 \notin S /\ 2 \notin S /\ 3 \notin S
      <4>1. \A y \in S : y = 4
        BY <1>3, <3>4
      <4>2. 4 \in S
        BY <1>3, <4>1
      <4> QED BY <4>1, <4>2
    <3> QED BY <3>1, <3>2, <3>3, <3>4
  <2> QED BY <2>1 DEF Min
<1>4. CASE AssignedAt(c) # {}
  <2>1. Min(AssignedAt(c)) \in DOMAIN Candidates(c)
    BY <1>1, <1>2, <1>3, <1>4
  <2> QED BY <1>2, <1>4, <2>1 DEF ResumedPhase
<1> QED BY <1>4 DEF ResumedPhase

\* The published packages of the phase are the batch again.
LEMMA ResumeKeeps ==
    ASSUME Fine, NEW p \in Operator, Resume(p)
    PROVE  Keeps
<1>1. Doing(p, "resume")
  BY DEF Resume, AtCut
<1>2. ASSUME NEW r, r = op[p], NEW f, f = ResumedPhase(r.cut), NEW t, t = Steps(f, << "load" >>),
             NEW b, b = PackagesOf(f), NEW s, s = [Then(r, t) EXCEPT !.batch = b]
      PROVE  Keeps
  <2>1. r.open /\ r.todo # << >> /\ r.todo[1].do = "resume" /\ SessionFit(r)
    BY <1>1, <1>2, AtStep
  <2>2. Raises(p) \/ Goes(p, Over(r)) \/ Goes(p, s)
    BY <1>2 DEF Resume
  <2>3. CASE Goes(p, s)
    <3>1. f \in Phase \cup Stage \cup {None}
      BY <1>2, ResumedIsPhase
    <3>2. Proper(t)
      BY <1>2, <3>1, PlainLists, PlainIsProper
    <3>3. Grounded(r)
      BY <2>1 DEF SessionFit
    <3>5. s = [open |-> TRUE, todo |-> t, cut |-> 0, auth |-> r.auth, about |-> r.about,
               zip |-> r.zip, pub |-> r.pub, batch |-> b, inbox |-> r.inbox,
               known |-> r.known]
      BY <1>2, <2>1, <3>3 DEF Then, Grounded
    <3>6. b \subseteq packages
      BY <1>2 DEF PackagesOf
    <3> QED BY <1>2, <2>1, <2>3, <3>2, <3>5, <3>6, CallKeeps
  <2> QED BY <1>1, <1>2, <2>2, <2>3, AtStepRaises, GoesOver
<1> QED BY <1>2

\* What an import commits fits.
LEMMA ZipIs ==
    ASSUME Fine, NEW r, SessionFit(r)
    PROVE  /\ r.zip.phase \in Phase \cup {None}
           /\ \A kind \in {"evidence", "result"} : NewFit(Sent(kind, r.zip))
<1>1. Len(log) \in Nat /\ 0 \in 0..Len(log)
  BY AppendIsLog DEF Fine, LogFit
<1>2. ASSUME NEW z, z = r.zip, NEW kind \in {"evidence", "result"}, NEW y, y = Sent(kind, z)
      PROVE  z.phase \in Phase \cup {None} /\ NewFit(y)
  <2>1. /\ y.kind = kind /\ y.phase = z.phase /\ y.lane = z.lane /\ y.auth = z.auth
        /\ y.about = z.about /\ y.basis = {}
    BY <1>2 DEF Sent
  <2>2. CASE z = NoZip
    <3>1. z.phase = None /\ z.auth = 0 /\ z.about = 0
      BY <2>2 DEF NoZip, Fact, FactOn, FactAbout
    <3> QED BY <1>1, <2>1, <3>1 DEF NewFit, Made
  <2>3. ASSUME NEW pkg \in packages, NEW says \in Saying, z = Archive(pkg, says)
        PROVE  z.phase \in Phase \cup {None} /\ NewFit(y)
    <3>1. z.phase = pkg.phase /\ z.lane = pkg.lane /\ z.auth = pkg.auth /\ z.about = pkg.about
      BY <2>3 DEF Archive
    <3>2. /\ pkg.phase \in Phase /\ pkg.auth \in 0..Len(log) /\ pkg.about \in 0..Len(log)
          /\ Entitled(Len(log), pkg)
      BY DEF Fine, PackagesFit, PackageFit
    <3>3. Entitled(Len(log), y)
      BY <2>1, <3>1, <3>2 DEF Entitled, UnderGrant
    <3> QED BY <2>1, <3>1, <3>2, <3>3 DEF NewFit, Made
  <2> QED BY <1>2, <2>2, <2>3 DEF SessionFit, Grounded
<1> QED BY <1>2

\* An import looks for the result of its assignment.
LEMMA LookKeeps ==
    ASSUME Fine, NEW p \in Operator, Look(p)
    PROVE  Keeps
<1>1. Doing(p, "look")
  BY DEF Look, AtCut
<1>2. ASSUME NEW r, r = op[p], NEW t, t = Steps(r.zip.phase, << "reload" >>)
      PROVE  Keeps
  <2>1. r.open /\ r.todo # << >> /\ r.todo[1].do = "look" /\ SessionFit(r)
    BY <1>1, <1>2, AtStep
  <2>2. Raises(p) \/ Goes(p, Further(op[p])) \/ Goes(p, Then(r, t))
    BY <1>2 DEF Look
  <2>3. Proper(t)
    <3>1. r.zip.phase \in Phase \cup Stage \cup {None}
      BY <2>1, ZipIs
    <3> QED BY <1>2, <3>1, PlainLists, PlainIsProper
  <2>4. "look" \in Bare
    BY DEF Bare
  <2> QED BY <1>1, <1>2, <2>1, <2>2, <2>3, <2>4, AtStepRaises, BareGoes, ThenKeeps
<1> QED BY <1>2

\* A step of an import that commits.
LEMMA SendKeeps ==
    ASSUME Fine, NEW p \in Operator, NEW do \in {"begin", "result"}, Doing(p, do),
           NEW kind \in {"evidence", "result"},
           Commits(p, Sent(kind, op[p].zip), Further(op[p]))
    PROVE  Keeps
<1>1. ASSUME NEW r, r = op[p], NEW s, s = Further(r)
      PROVE  Keeps
  <2>1. /\ SessionFit(r) /\ r.open /\ r.todo # << >> /\ r.pub = 0 /\ r.todo[1].do \in Bare
    <3>1. do # "files" /\ do \in Bare
      BY DEF Bare
    <3> QED BY <1>1, <3>1, AtStep
  <2>2. NewFit(Sent(kind, r.zip))
    BY <2>1, ZipIs
  <2>3. SessionFit(r)' => SessionFit(s)'
    BY <1>1, <2>1, BareFits
  <2>4. Commits(p, Sent(kind, r.zip), s)
    BY <1>1
  <2> QED BY <1>1, <2>1, <2>2, <2>3, <2>4, CommitsKeeps
<1> QED BY <1>1

\* It sends the evidence,
LEMMA BeginKeeps ==
    ASSUME Fine, NEW p \in Operator, Begin(p)
    PROVE  Keeps
<1>1. Doing(p, "begin")
  BY DEF Begin, AtCut
<1>2. ASSUME NEW r, r = op[p], NEW s, s = [r EXCEPT !.todo = Tail(@)]
      PROVE  Keeps
  <2>1. r.open /\ r.todo # << >> /\ r.todo[1].do = "begin" /\ r.pub = 0 /\ SessionFit(r)
        /\ r.todo \in Seq(AStep)
    BY <1>1, <1>2, AtStep
  <2>2. Goes(p, s) \/ Commits(p, Sent("evidence", op[p].zip), Further(op[p]))
    BY <1>2 DEF Begin, Evidence
  <2>3. ASSUME SessionFit(r)'
        PROVE  SessionFit(s)'
    <3>1. Tail(r.todo) \in Seq(AStep)
      BY <2>1, TailIs
    <3>2. s = [open |-> r.open, todo |-> Tail(r.todo), cut |-> r.cut, auth |-> r.auth,
               about |-> r.about, zip |-> r.zip, pub |-> r.pub, batch |-> r.batch,
               inbox |-> r.inbox, known |-> r.known]
      BY <1>2, <2>3 DEF SessionFit, Grounded
    <3>3. Grounded(s)'
      BY <2>1, <2>3, <3>1, <3>2 DEF SessionFit, Grounded
    <3>4. /\ s.todo = Tail(r.todo) /\ s.cut = r.cut /\ s.about = r.about /\ s.pub = 0
      BY <2>1, <3>2
    <3>5. Achieved(r, s)'
      BY <2>1, <3>4 DEF Achieved
    <3> QED BY <2>1, <2>3, <3>3, <3>4, <3>5, TailFits
  <2> QED BY <1>1, <1>2, <2>2, <2>3, GoesKeeps, SendKeeps
<1> QED BY <1>2

\* and the result.
LEMMA SendResultKeeps ==
    ASSUME Fine, NEW p \in Operator, SendResult(p)
    PROVE  Keeps
<1>1. Doing(p, "result") /\ Commits(p, Sent("result", op[p].zip), Further(op[p]))
  BY DEF SendResult, AtCut, Result
<1> QED BY <1>1, SendKeeps

\* It loads what was accepted.
LEMMA ReloadKeeps ==
    ASSUME Fine, NEW p \in Operator, Reload(p)
    PROVE  Keeps
<1>1. Doing(p, "reload")
  BY DEF Reload, AtCut
<1>2. ASSUME NEW r, r = op[p], NEW f, f = PhaseOf(r.inbox), NEW o, o = Over(r),
             NEW k, k = o.known \cup {l \in LanesOf(f) : ResultsAt(r.cut, f, l) # {}},
             NEW s, s = [Over(r) EXCEPT !.known = k]
      PROVE  Keeps
  <2>1. r.open
    BY <1>1, <1>2, AtStep
  <2>2. Raises(p) \/ Goes(p, s)
    BY <1>2 DEF Reload
  <2>3. SessionFit(r)' => SessionFit(s)'
    BY <1>2, <2>1, OverFits
  <2> QED BY <1>1, <1>2, <2>2, <2>3, AtStepRaises, GoesKeeps
<1> QED BY <1>2

\* What other clients record moves no session.
LEMMA ElsewhereKeeps ==
    ASSUME Fine, Elsewhere
    PROVE  Keeps
<1>1. Len(log) \in Nat
  BY AppendIsLog DEF Fine, LogFit
<1>2. NewFit(FactOn("material", None, {}))
  BY <1>1, PlainIsNew
<1>3. /\ Fitting /\ op' = op /\ packages' = packages /\ receipts' = receipts
  BY <1>2 DEF Elsewhere, Fact, Fitting
<1>4. Grows
  BY <1>3, FittingGrows DEF Fine
<1>5. ASSUME NEW q \in Operator, NEW r, r = op[q]
      PROVE  SessionFit(r)'
  BY <1>3, <1>4, <1>5, SessionStable DEF Fine, Sessions
<1>6. Sessions'
  BY <1>3, <1>5 DEF Fine, Sessions
<1> QED BY <1>3, <1>4, <1>6, PackagesStable DEF Keeps

-----------------------------------------------------------------------------
\* Grants.

\* The views are of the commits before their cut.
LEMMA ViewsInLog ==
    ASSUME Len(log) \in Nat, NEW c \in 0..Len(log)
    PROVE  /\ \A f : ViewOf(f, c) \subseteq 1..Len(log)
           /\ RevealView(c) \subseteq 1..Len(log) /\ ShadowView(c) \subseteq 1..Len(log)
           /\ ContradictionView(c) \subseteq 1..Len(log)
           /\ BlindSeals(c) \subseteq 1..Len(log)
<1>1. \A k, f : At(c, k, f) \subseteq 1..Len(log)
  BY FoundInLog
<1>2. BlindSeals(c) \subseteq 1..Len(log)
  BY <1>1 DEF BlindSeals
<1>3. \A phases : Own(c, phases) \subseteq 1..Len(log)
  BY <1>1, <1>2 DEF Own, FoundBy
<1>4. GapView(c) \subseteq 1..Len(log)
  BY <1>1, <1>2 DEF GapView, Gaps, Material
<1>5. CumulativeView(c) \subseteq 1..Len(log)
  BY <1>1, <1>3 DEF CumulativeView, PriorCorpus
<1>6. HoldoutView(c) \subseteq 1..Len(log)
  BY <1>3 DEF HoldoutView
<1>7. \A f : ViewOf(f, c) \subseteq 1..Len(log)
  BY <1>4, <1>5, <1>6 DEF ViewOf
<1> QED BY <1>1, <1>2, <1>7 DEF RevealView, ClaimView, ShadowView, ContradictionView

\* A session at its grant: it has no candidate at hand but for the challenge, and a
\* reveal was checked for.
LEMMA GrantStep ==
    ASSUME NEW r, SessionFit(r), r.todo # << >>, r.todo[1].do = "grant"
    PROVE  /\ r.todo[1].phase # "E5B-CHALLENGE" => r.about = 0
           /\ r.todo[1].phase \in Revealing =>
                 Has(Len(log), "checkpoints", BlindOf(r.todo[1].phase))
<1>1. r.todo \in Seq(AStep)
  BY DEF SessionFit, Grounded
<1>2. 1 \in DOMAIN r.todo /\ 1 \in 1..Len(r.todo)
  BY <1>1
<1>3. r.about # 0 => r.todo[1].phase = "E5B-CHALLENGE"
  BY <1>2 DEF SessionFit, ChallengeNext, Challenging
<1>4. \A do, f : ~Ahead(r.todo, 1, do, f)
  BY DEF Ahead
<1> QED BY <1>2, <1>3, <1>4 DEF SessionFit, RevealsReady

\* An authorization grants the view of its cut, or finds it granted.
LEMMA AuthorizesKeeps ==
    ASSUME Fine, NEW p \in Operator, NEW f \in Granted, NEW ok, NEW same, NEW view, NEW a,
           Authorizes(p, f, ok, same, FactAbout("grant", f, view, a)),
           view = Display(f, op[p].cut, a),
           IF f = "E5B-CHALLENGE" THEN a = op[p].about /\ (ok => a \in Candidates5(op[p].cut))
                                  ELSE a = 0,
           ok => same \subseteq Showing(op[p].cut, f, view)
    PROVE  Keeps
<1>1. Doing(p, "grant") /\ Current(p) = f
  BY DEF Authorizes, AtCut
<1>2. ASSUME NEW r, r = op[p], NEW c, c = r.cut
      PROVE  Keeps
  <2>1. /\ SessionFit(r) /\ r.open /\ r.todo # << >> /\ r.todo[1].do = "grant" /\ r.todo[1].phase = f
        /\ c \in 0..Len(log) /\ Len(log) \in Nat /\ r.pub = 0
    BY <1>1, <1>2, AtStep
  <2>2. r.about = a /\ (f \in Revealing => Has(Len(log), "checkpoints", BlindOf(f)))
    BY <1>2, <2>1, GrantStep
  <2>3. view = Display(f, c, a)
    BY <1>2
  <2>4. ASSUME ok
        PROVE  view \subseteq 1..Len(log)
    <3>1. CASE f = "E5B-CHALLENGE"
      <4>1. a \in 1..Len(log)
        BY <1>2, <2>1, <2>4, <3>1, FoundInLog DEF Candidates5
      <4> QED BY <2>3, <3>1, <4>1 DEF Display
    <3>2. CASE f # "E5B-CHALLENGE"
      BY <2>1, <2>3, <3>2, ViewsInLog DEF Display
    <3> QED BY <3>1, <3>2
  <2>5. ASSUME NEW g \in Showing(c, f, view)
        PROVE  UnderGrant(Package(f, None, c, a))
    <3>1. g \in At(c, "grant", f) /\ log[g].basis = view
      BY DEF Showing
    <3>2. g \in 1..Len(log) /\ log[g].kind = "grant" /\ log[g].phase = f
      BY <2>1, <3>1 DEF At
    <3>3. GrantFit(g)
      BY <3>2 DEF Fine, LogFit, FitAt, IsLog
    <3>4. log[g].about = a
      <4>1. CASE f = "E5B-CHALLENGE"
        <5>1. view = {a} /\ log[g].basis = {log[g].about}
          BY <2>3, <3>2, <3>3, <4>1 DEF Display, GrantFit
        <5> QED BY <3>1, <5>1
      <4>2. CASE f # "E5B-CHALLENGE"
        BY <3>2, <3>3, <4>2 DEF GrantFit
      <4> QED BY <4>1, <4>2
    <3> QED BY <2>3, <3>1, <3>4 DEF UnderGrant, Package
  <2>6. ASSUME NEW x, NEW s, s = [Further(r) EXCEPT !.auth = x], SessionFit(r)',
               x \in 0..Len(log'), UnderGrant(Package(f, None, x, a))'
        PROVE  SessionFit(s)'
    <3>1. Grounded(r)'
      BY <2>6 DEF SessionFit
    <3>2. ASSUME NEW u, u = Further(r)
          PROVE  /\ Grounded(s)' /\ s.todo = Tail(r.todo) /\ s.cut = 0 /\ s.pub = 0
                 /\ s.about = a /\ s.auth = x
      <4>1. /\ Grounded(u)' /\ u.todo = Tail(r.todo) /\ u.cut = 0 /\ u.open
            /\ u.about = r.about /\ u.pub = r.pub
        BY <2>1, <3>1, <3>2, FurtherIs
      <4>2. s = [open |-> u.open, todo |-> u.todo, cut |-> u.cut, auth |-> x,
                 about |-> u.about, zip |-> u.zip, pub |-> u.pub, batch |-> u.batch,
                 inbox |-> u.inbox, known |-> u.known]
        BY <2>6, <3>2, <4>1 DEF Grounded
      <4>3. x \in 0..Len(log')
        BY <2>6
      <4>4. Grounded(s)'
        BY <4>1, <4>2, <4>3 DEF Grounded
      <4> QED BY <2>1, <2>2, <4>1, <4>2, <4>4
    <3>3. Achieved(r, s)'
      BY <2>1, <2>2, <2>6, <3>2 DEF Achieved
    <3> QED BY <2>1, <2>6, <3>2, <3>3, TailFits
  <2>7. CASE ~ok
    <3>1. Raises(p)
      BY <2>7 DEF Authorizes
    <3> QED BY <1>1, <3>1, AtStepRaises
  <2>8. CASE ok /\ same # {}
    <3>1. ASSUME NEW s, s = [Further(r) EXCEPT !.auth = c]
          PROVE  Keeps
      <4>1. Goes(p, s)
        BY <1>2, <2>8, <3>1 DEF Authorizes
      <4>2. UnderGrant(Package(f, None, c, a))
        BY <1>2, <2>5, <2>8
      <4>3. ASSUME Grows, SessionFit(r)'
            PROVE  SessionFit(s)'
        <5>1. ASSUME NEW z, z = Package(f, None, c, a)
              PROVE  UnderGrant(z)'
          <6>1. z.auth \in 0..Len(log)
            BY <2>1, <5>1 DEF Package
          <6> QED BY <4>2, <4>3, <5>1, <6>1, UnderGrantStable DEF Fine
        <5>2. UnderGrant(Package(f, None, c, a))'
          BY <5>1
        <5>3. c \in 0..Len(log')
          BY <2>1, <4>3 DEF Grows
        <5> QED BY <2>6, <3>1, <4>3, <5>2, <5>3
      <4> QED BY <1>2, <4>1, <4>3, GoesKeeps
    <3> QED BY <3>1
  <2>9. CASE ok /\ same = {}
    <3>1. ASSUME NEW s, s = [Further(r) EXCEPT !.auth = c + 1], NEW z, z = FactAbout("grant", f, view, a)
          PROVE  Keeps
      <4>1. Commits(p, z, s)
        BY <1>2, <2>9, <3>1 DEF Authorizes
      <4>2. /\ z.kind = "grant" /\ z.phase = f /\ z.auth = 0 /\ z.about = a /\ z.basis = view
        BY <3>1 DEF FactAbout
      <4>3. ASSUME Accepted(p, z)
            PROVE  NewFit(z)
        <5>1. c = Len(log)
          BY <1>2, <4>2, <4>3 DEF Accepted, Unbound
        <5>2. view \subseteq 1..Len(log)
          BY <2>4, <2>9
        <5>3. a \in 0..Len(log)
          BY <2>1, <2>2 DEF SessionFit, Grounded
        <5>4. IF f = "E5B-CHALLENGE" THEN a \in Candidates5(Len(log)) ELSE a = 0
          BY <1>2, <2>9, <5>1
        <5> QED BY <2>1, <2>2, <2>3, <4>2, <5>1, <5>2, <5>3, <5>4 DEF NewFit, Made
      <4>4. ASSUME Grows, LogFit', SessionFit(r)',
                   \E n \in DOMAIN log' : log'[n] = z /\ (n = r.cut + 1 \/ z.kind \in Unbound)
            PROVE  SessionFit(s)'
        <5>1. log'[c + 1] = z /\ c + 1 \in DOMAIN log'
          BY <1>2, <4>2, <4>4 DEF Unbound
        <5>2. GrantFit(c + 1)'
          BY <4>4, <5>1 DEF LogFit, FitAt
        <5>3. c + 1 \in 1..(c + 1) /\ c + 1 \in 0..Len(log')
          BY <2>1, <4>4, <5>1 DEF Grows
        <5>4. c + 1 \in At(c + 1, "grant", f)'
          BY <4>2, <5>1, <5>3 DEF At
        <5>5. log'[c + 1].about = a /\ log'[c + 1].basis = Display(f, c + 1, a)'
          BY <4>2, <5>1, <5>2 DEF GrantFit
        <5>6. UnderGrant(Package(f, None, c + 1, a))'
          BY <5>4, <5>5 DEF UnderGrant, Package
        <5> QED BY <2>6, <3>1, <4>4, <5>3, <5>6
      <4> QED BY <1>2, <2>1, <4>1, <4>3, <4>4, CommitsKeeps
    <3> QED BY <3>1
  <2> QED BY <2>7, <2>8, <2>9
<1> QED BY <1>2

-----------------------------------------------------------------------------
\* What the services record.

\* A step that commits what fits, and goes on.
LEMMA BareRecordKeeps ==
    ASSUME Fine, NEW p \in Operator, NEW do \in Bare, Doing(p, do), NEW c, NEW there,
           Records(p, there, c, Further(op[p])), ~there /\ Accepted(p, c) => NewFit(c)
    PROVE  Keeps
<1>1. ASSUME NEW r, r = op[p], NEW s, s = Further(r)
      PROVE  Keeps
  <2>1. r.open /\ r.todo # << >> /\ r.pub = 0 /\ r.todo[1].do \in Bare
    <3>1. do # "files"
      BY DEF Bare
    <3> QED BY <1>1, <3>1, AtStep
  <2>2. SessionFit(r)' => SessionFit(s)'
    BY <1>1, <2>1, BareFits
  <2>3. Records(p, there, c, s)
    BY <1>1
  <2> QED BY <1>1, <2>1, <2>2, <2>3, RecordsKeeps
<1> QED BY <1>1

\* A step that commits what fits, and ends the call.
LEMMA EndRecordKeeps ==
    ASSUME Fine, NEW p \in Operator, NEW do, Doing(p, do), NEW c, NEW there,
           Records(p, there, c, Over(op[p])), ~there /\ Accepted(p, c) => NewFit(c)
    PROVE  Keeps
<1>1. ASSUME NEW r, r = op[p], NEW s, s = Over(r)
      PROVE  Keeps
  <2>1. r.open
    BY <1>1, AtStep
  <2>2. SessionFit(r)' => SessionFit(s)'
    BY <1>1, <2>1, OverFits
  <2>3. Records(p, there, c, s)
    BY <1>1
  <2> QED BY <1>1, <2>1, <2>2, <2>3, RecordsKeeps
<1> QED BY <1>1

\* The call commits, and is over.
LEMMA EndCommitKeeps ==
    ASSUME Fine, NEW p \in Operator, NEW do, Doing(p, do), NEW c,
           Commits(p, c, Over(op[p])), Accepted(p, c) => NewFit(c)
    PROVE  Keeps
<1>1. Records(p, FALSE, c, Over(op[p]))
  BY DEF Records
<1> QED BY <1>1, EndRecordKeeps

\* A check of what came before.
LEMMA ChecksKeeps ==
    ASSUME Fine, NEW p \in Operator, NEW f, NEW ok, Checks(p, "before", f, ok),
           ok /\ f \in Revealing => Has(op[p].cut, "checkpoints", BlindOf(f))
    PROVE  Keeps
<1>1. Doing(p, "before") /\ Current(p) = f
  BY DEF Checks, AtCut
<1>2. ASSUME NEW r, r = op[p], NEW s, s = Further(r)
      PROVE  Keeps
  <2>1. /\ r.open /\ r.todo # << >> /\ r.pub = 0 /\ r.todo[1].do = "before" /\ r.todo[1].phase = f
        /\ r.cut \in 0..Len(log) /\ Len(log) \in Nat
    BY <1>1, <1>2, AtStep
  <2>2. CASE ok
    <3>1. Goes(p, s)
      BY <1>2, <2>2 DEF Checks
    <3>2. ASSUME Grows, SessionFit(r)'
          PROVE  SessionFit(s)'
      <4>1. f \in Revealing => Has(Len(log), "checkpoints", BlindOf(f))'
        BY <1>2, <2>1, <2>2, <3>2, ResultsStable
      <4> QED BY <1>2, <2>1, <3>2, <4>1, FurtherFits
    <3> QED BY <1>2, <3>1, <3>2, GoesKeeps
  <2>3. CASE ~ok
    <3>1. Raises(p)
      BY <2>3 DEF Checks
    <3> QED BY <1>1, <3>1, AtStepRaises
  <2> QED BY <2>2, <2>3
<1> QED BY <1>2

\* A commit that names a head goes to it.
LEMMA AcceptedAtHead ==
    ASSUME NEW p, NEW kind, NEW f, NEW basis, NEW a, kind \notin Unbound,
           Accepted(p, FactAbout(kind, f, basis, a))
    PROVE  op[p].cut = Len(log)
  BY DEF Accepted, FactAbout

\* Checkpoints of results that are all in.
LEMMA SealIsNew ==
    ASSUME NEW f, NEW basis, basis \subseteq 1..Len(log), Len(log) \in Nat, AllIn(Len(log), f)
    PROVE  NewFit(FactOn("checkpoints", f, basis))
  BY DEF NewFit, Made, FactOn, FactAbout

\* The blind results of E2 and of E3 are sealed.
LEMMA SealKeeps ==
    ASSUME Fine, NEW p \in Operator, Seal(p) \/ SealBlind(p)
    PROVE  Keeps
<1> DEFINE c == op[p].cut
<1>1. Doing(p, "seal") /\ "seal" \in Bare
  BY DEF Seal, SealBlind, AtCut, Bare
<1>2. c \in 0..Len(log) /\ Len(log) \in Nat
  BY <1>1, AtStep
<1>3. ASSUME NEW f, NEW there, AllIn(c, f),
             Records(p, there, FactOn("checkpoints", f, At(c, "result", f)), Further(op[p]))
      PROVE  Keeps
  <2>1. At(c, "result", f) \subseteq 1..Len(log)
    BY <1>2, FoundInLog
  <2>2. ASSUME Accepted(p, FactOn("checkpoints", f, At(c, "result", f)))
        PROVE  NewFit(FactOn("checkpoints", f, At(c, "result", f)))
    <3>1. c = Len(log)
      BY <2>2, AcceptedAtHead DEF FactOn, Unbound
    <3> QED BY <1>2, <1>3, <2>1, <3>1, SealIsNew
  <2> QED BY <1>1, <1>3, <2>2, BareRecordKeeps
<1>4. CASE Raises(p)
  BY <1>1, <1>4, AtStepRaises
<1> QED BY <1>3, <1>4 DEF Seal, SealBlind, Sealed, BlindCheckpoints, BlindResults

\* The decisions are of results that are all in.
LEMMA ResolveKeeps ==
    ASSUME Fine, NEW p \in Operator, Resolve(p)
    PROVE  Keeps
<1>1. Doing(p, "resolve")
  BY DEF Resolve, AtCut
<1>2. ASSUME NEW r, r = op[p], NEW s, s = Further(r), NEW c, c = r.cut, NEW b, b = DecisionBasis(c)
      PROVE  Keeps
  <2>1. /\ r.open /\ r.todo # << >> /\ r.pub = 0 /\ r.todo[1].do = "resolve"
        /\ c \in 0..Len(log) /\ Len(log) \in Nat
    BY <1>1, <1>2, AtStep
  <2>2. \/ Raises(p)
        \/ /\ AllIn(c, "E2-CONTRADICTION")
           /\ Records(p, Has(c, "decisions", "E2-CONTRADICTION"),
                         FactOn("decisions", "E2-CONTRADICTION", b), s)
    BY <1>2 DEF Resolve, ResolutionReady
  <2>3. NewFit(FactOn("decisions", "E2-CONTRADICTION", b))
    <3>1. b \subseteq 1..Len(log)
      BY <1>2, <2>1, FoundInLog, ViewsInLog DEF DecisionBasis
    <3> QED BY <2>1, <3>1, PlainIsNew
  <2>4. ASSUME Grows, SessionFit(r)', AllIn(c, "E2-CONTRADICTION"),
               \/ Has(c, "decisions", "E2-CONTRADICTION") /\ log' = log
               \/ \E n \in DOMAIN log' : log'[n] = FactOn("decisions", "E2-CONTRADICTION", b)
        PROVE  SessionFit(s)'
    <3>1. Has(Len(log), "decisions", "E2-CONTRADICTION")'
      <4>1. CASE Has(c, "decisions", "E2-CONTRADICTION")
        BY <2>1, <2>4, <4>1, ResultsStable
      <4>2. CASE \E n \in DOMAIN log' : log'[n] = FactOn("decisions", "E2-CONTRADICTION", b)
        BY <2>4, <4>2, FactFound DEF FactOn, Grows
      <4> QED BY <2>4, <4>1, <4>2
    <3>2. AllIn(c, "E2-CONTRADICTION")' /\ c \in 0..Len(log')
      BY <2>1, <2>4, ResultsStable DEF Grows
    <3>3. Resolved(0)'
      BY <3>1, <3>2 DEF Resolved
    <3> QED BY <1>2, <2>1, <2>4, <3>3, FurtherFits
  <2>5. CASE Raises(p)
    BY <1>1, <2>5, AtStepRaises
  <2> QED BY <1>2, <2>1, <2>2, <2>3, <2>4, <2>5, RecordsKeeps
<1> QED BY <1>2

\* Successors that leave no case open lead to the completion, others do not.
LEMMA SucceedKeeps ==
    ASSUME Fine, NEW p \in Operator, Succeed(p)
    PROVE  Keeps
<1>1. Doing(p, "succeed") /\ op[p].cut # 0
  BY DEF Succeed, AtCut
<1>2. ASSUME NEW r, r = op[p], NEW s, s = Further(r), NEW c, c = r.cut, NEW b, b = Succession(c)
      PROVE  Keeps
  <2>1. /\ r.open /\ r.todo # << >> /\ r.pub = 0 /\ r.todo[1].do = "succeed"
        /\ c \in 0..Len(log) /\ Len(log) \in Nat
    BY <1>1, <1>2, AtStep
  <2>2. \/ Records(p, Has(c, "successors", "E2-CONTRADICTION"),
                      FactOn("successors", "E2-CONTRADICTION", b), Over(op[p]))
        \/ /\ ~Unresolved(c)
           /\ Records(p, Has(c, "successors", "E2-CONTRADICTION"),
                         FactOn("successors", "E2-CONTRADICTION", b), s)
    BY <1>2 DEF Succeed
  <2>3. NewFit(FactOn("successors", "E2-CONTRADICTION", b))
    <3>1. b \subseteq 1..Len(log)
      BY <1>2, <2>1, FoundInLog, ViewsInLog DEF Succession
    <3> QED BY <2>1, <3>1, PlainIsNew
  <2>4. ASSUME Grows, SessionFit(r)', ~Unresolved(c),
               \/ Has(c, "successors", "E2-CONTRADICTION") /\ log' = log
               \/ \E n \in DOMAIN log' : log'[n] = FactOn("successors", "E2-CONTRADICTION", b)
        PROVE  SessionFit(s)'
    <3>1. Has(Len(log), "successors", "E2-CONTRADICTION")'
      <4>1. CASE Has(c, "successors", "E2-CONTRADICTION")
        BY <2>1, <2>4, <4>1, ResultsStable
      <4>2. CASE \E n \in DOMAIN log' : log'[n] = FactOn("successors", "E2-CONTRADICTION", b)
        BY <2>4, <4>2, FactFound DEF FactOn, Grows
      <4> QED BY <2>4, <4>1, <4>2
    <3>2. ~SomeSays(c, "E2-CONTRADICTION", "notable")' /\ c \in 0..Len(log')
      <4>1. ~SomeSays(c, "E2-CONTRADICTION", "notable")
        BY <2>4 DEF Unresolved
      <4>2. SomeSays(c, "E2-CONTRADICTION", "notable")' = SomeSays(c, "E2-CONTRADICTION", "notable")
        BY <2>1, <2>4, ResultsStable
      <4>3. c \in 0..Len(log')
        BY <2>1, <2>4 DEF Grows
      <4> QED BY <4>1, <4>2, <4>3
    <3>3. Resolved(r.cut)' => Succeeded'
      <4> SUFFICES ASSUME Resolved(r.cut)'
                   PROVE  Succeeded'
        OBVIOUS
      <4>1. Has(Len(log), "decisions", "E2-CONTRADICTION")'
        BY DEF Resolved
      <4>2. PICK m \in 0..Len(log') : AllIn(m, "E2-CONTRADICTION")' /\ m <= c
        BY <1>1, <1>2 DEF Resolved
      <4> QED BY <3>1, <3>2, <4>1, <4>2 DEF Succeeded
    <3> QED BY <1>2, <2>1, <2>4, <3>3, FurtherFits
  <2>5. CASE Records(p, Has(c, "successors", "E2-CONTRADICTION"),
                        FactOn("successors", "E2-CONTRADICTION", b), Over(op[p]))
    BY <1>1, <2>3, <2>5, EndRecordKeeps
  <2>6. CASE /\ ~Unresolved(c)
             /\ Records(p, Has(c, "successors", "E2-CONTRADICTION"),
                           FactOn("successors", "E2-CONTRADICTION", b), s)
    BY <1>2, <2>1, <2>3, <2>4, <2>6, RecordsKeeps
  <2> QED BY <2>2, <2>5, <2>6
<1> QED BY <1>2

\* The grants of E2 show the views of their cut.
LEMMA GrantsOfE2Keep ==
    ASSUME Fine, NEW p \in Operator, GrantReveal(p) \/ GrantShadow(p) \/ GrantContradiction(p)
    PROVE  Keeps
<1> DEFINE c == op[p].cut
<1>1. CASE GrantReveal(p)
  <2>1. Authorizes(p, "E2-REVEAL", TRUE, Showing(c, "E2-REVEAL", RevealView(c)),
                   FactAbout("grant", "E2-REVEAL", RevealView(c), 0))
    BY <1>1 DEF GrantReveal, RevealGrant, GrantOn, FactOn
  <2>2. RevealView(c) = Display("E2-REVEAL", c, 0) /\ "E2-REVEAL" \in Granted
    BY DEF Display, Granted
  <2> QED BY <2>1, <2>2, AuthorizesKeeps
<1>2. CASE GrantShadow(p)
  <2>1. Authorizes(p, "E2-SHADOW", Has(c, "synthesis", "E2-REVEAL"), SameShadow(c),
                   FactAbout("grant", "E2-SHADOW", ShadowView(c), 0))
    BY <1>2 DEF GrantShadow, ShadowGrant, GrantOn, FactOn
  <2>2. /\ ShadowView(c) = Display("E2-SHADOW", c, 0) /\ "E2-SHADOW" \in Granted
        /\ SameShadow(c) \subseteq Showing(c, "E2-SHADOW", ShadowView(c))
    BY DEF Display, Granted, SameShadow
  <2> QED BY <2>1, <2>2, AuthorizesKeeps
<1>3. CASE GrantContradiction(p)
  <2>1. Authorizes(p, "E2-CONTRADICTION", ContradictionView(c) # {}, SameContradiction(c),
                   FactAbout("grant", "E2-CONTRADICTION", ContradictionView(c), 0))
    BY <1>3 DEF GrantContradiction, ContradictionGrant, GrantOn, FactOn
  <2>2. /\ ContradictionView(c) = Display("E2-CONTRADICTION", c, 0)
        /\ "E2-CONTRADICTION" \in Granted
        /\ SameContradiction(c) \subseteq Showing(c, "E2-CONTRADICTION", ContradictionView(c))
    BY DEF Display, Granted, SameContradiction
  <2> QED BY <2>1, <2>2, AuthorizesKeeps
<1> QED BY <1>1, <1>2, <1>3

\* The main decisions.
LEMMA SynthesizeKeeps ==
    ASSUME Fine, NEW p \in Operator, Synthesize(p)
    PROVE  Keeps
<1> DEFINE c == op[p].cut
<1>1. Doing(p, "synthesize")
  BY DEF Synthesize, AtCut
<1>2. \/ Raises(p)
      \/ Records(p, Has(c, "synthesis", "E2-REVEAL"),
                    FactOn("synthesis", "E2-REVEAL", MainSynthesis(c)), Further(op[p]))
  BY DEF Synthesize
<1>3. c \in 0..Len(log) /\ Len(log) \in Nat
  BY <1>1, AtStep
<1>4. MainSynthesis(c) \subseteq 1..Len(log)
  BY <1>3, FoundInLog DEF MainSynthesis, ClaimView
<1> QED BY <1>1, <1>2, <1>4, AtStepRaises, PlainRecordKeeps DEF Bare

\* The conflicts open the contradiction phase.
LEMMA FinalizeShadowKeeps ==
    ASSUME Fine, NEW p \in Operator, FinalizeShadow(p)
    PROVE  Keeps
<1>1. Doing(p, "finalize")
  BY DEF FinalizeShadow, AtCut
<1>2. ASSUME NEW r, r = op[p], NEW c, c = r.cut, NEW t, t = Preparation("E2-CONTRADICTION"),
             NEW s, s = Then(r, t)
      PROVE  Keeps
  <2>1. /\ SessionFit(r) /\ r.open /\ r.todo # << >> /\ r.todo[1].do = "finalize"
        /\ c \in 0..Len(log) /\ Len(log) \in Nat
    BY <1>1, <1>2, AtStep
  <2>2. \/ Raises(p) \/ Goes(p, Over(op[p]))
        \/ Records(p, Opened(c), FactOn("contradictions", "E2-SHADOW", Cases(c)), s)
    BY <1>2 DEF FinalizeShadow
  <2>3. NewFit(FactOn("contradictions", "E2-SHADOW", Cases(c)))
    <3>1. Cases(c) \subseteq 1..Len(log)
      BY <2>1, FoundInLog DEF Cases
    <3> QED BY <2>1, <3>1, PlainIsNew
  <2>4. r.about = 0 /\ r.pub = 0 /\ Grounded(r)
    BY <2>1, NothingAtHand DEF SessionFit
  <2>5. s = [open |-> TRUE, todo |-> t, cut |-> 0, auth |-> r.auth, about |-> r.about,
             zip |-> r.zip, pub |-> r.pub, batch |-> r.batch, inbox |-> r.inbox,
             known |-> r.known]
    BY <1>2, <2>1, <2>4, ThenIs
  <2>6. Proper(t) /\ t \in Seq(AStep)
    BY <1>2, PreparationIsProper, PreparationFits DEF Phase
  <2>7. ASSUME Grows, packages' = packages, SessionFit(r)'
        PROVE  SessionFit(s)'
    <3>1. Grounded(r)'
      BY <2>7 DEF SessionFit
    <3>2. /\ s.open = TRUE /\ s.todo = t /\ s.cut = 0 /\ s.auth = r.auth /\ s.about = r.about
          /\ s.pub = r.pub /\ s.zip = r.zip /\ s.batch = r.batch /\ s.inbox = r.inbox
          /\ s.known = r.known
      BY <2>5
    <3>3. s = [open |-> s.open, todo |-> s.todo, cut |-> s.cut, auth |-> s.auth, about |-> s.about,
               zip |-> s.zip, pub |-> s.pub, batch |-> s.batch, inbox |-> s.inbox,
               known |-> s.known]
      BY <2>5, <3>2
    <3>4. 0 \in 0..Len(log')
      BY <2>7 DEF Grows
    <3>5. Grounded(s)'
      BY <2>6, <3>1, <3>2, <3>3, <3>4 DEF Grounded
    <3> QED BY <2>4, <2>6, <2>7, <3>2, <3>5, ThenFits
  <2>8. CASE Raises(p)
    BY <1>1, <2>8, AtStepRaises
  <2>9. CASE Goes(p, Over(op[p]))
    BY <1>1, <2>9, GoesOver
  <2>10. CASE Records(p, Opened(c), FactOn("contradictions", "E2-SHADOW", Cases(c)), s)
    BY <1>2, <2>1, <2>3, <2>7, <2>10, RecordsKeeps
  <2> QED BY <2>2, <2>8, <2>9, <2>10
<1> QED BY <1>2

\* What is found at an earlier cut is found at a later one; there are finitely many.
LEMMA ResultsGrow ==
    ASSUME Len(log) \in Nat, NEW c \in 0..Len(log), NEW m \in 0..c, NEW f, NEW lane
    PROVE  /\ ResultsAt(m, f, lane) \subseteq ResultsAt(c, f, lane)
           /\ IsFiniteSet(ResultsAt(c, f, lane)) /\ IsFiniteSet(ResultsAt(m, f, lane))
           /\ Cardinality(ResultsAt(m, f, lane)) <= Cardinality(ResultsAt(c, f, lane))
           /\ Cardinality(ResultsAt(m, f, lane)) = Cardinality(ResultsAt(c, f, lane)) =>
                 ResultsAt(m, f, lane) = ResultsAt(c, f, lane)
           /\ Cardinality(ResultsAt(m, f, lane)) \in Nat
           /\ Cardinality(ResultsAt(c, f, lane)) \in Nat
<1>1. At(m, "result", f) \subseteq At(c, "result", f)
  BY DEF At
<1>2. ResultsAt(m, f, lane) \subseteq ResultsAt(c, f, lane)
  BY <1>1 DEF ResultsAt
<1> DEFINE S == {n \in At(c, "result", f) : log[n].lane = lane}
           g == [n \in S |-> log[n]]
<1>3. IsFiniteSet(1..c)
  BY FS_Interval
<1>4. S \subseteq 1..c
  BY DEF At
<1>5. IsFiniteSet(S)
  BY <1>3, <1>4, FS_Subset
<1>6. ResultsAt(c, f, lane) = {log[n] : n \in S}
  BY DEF ResultsAt
<1>7. g \in Surjection(S, ResultsAt(c, f, lane))
  BY <1>6 DEF Surjection
<1>8. IsFiniteSet(ResultsAt(c, f, lane))
  <2> HIDE DEF S, g
  <2> QED BY <1>5, <1>7, FS_Surjection
<1> QED BY <1>2, <1>8, FS_Subset, FS_CardinalityType

\* With at most one result of each lane, a resolution is of the results there are.
LEMMA SucceededEarns ==
    ASSUME LogFit, Succeeded, Loadable(Len(log), "E2-CONTRADICTION"), Len(log) \in Nat,
           DOMAIN log = 1..Len(log)
    PROVE  Earned(Len(log), "E2")
<1> DEFINE f == "E2-CONTRADICTION"
           c == Len(log)
<1>1. PICK m \in 0..c, k \in 0..c : m <= k /\ AllIn(m, f) /\ ~SomeSays(k, f, "notable")
  BY DEF Succeeded
<1>2. \A lane \in LanesOf(f) :
          ResultsAt(m, f, lane) = ResultsAt(c, f, lane) /\ Cardinality(ResultsAt(c, f, lane)) = 1
  <2> SUFFICES ASSUME NEW lane \in LanesOf(f)
               PROVE  ResultsAt(m, f, lane) = ResultsAt(c, f, lane) /\ Cardinality(ResultsAt(c, f, lane)) = 1
    OBVIOUS
  <2>1. Cardinality(ResultsAt(m, f, lane)) = 1 /\ Cardinality(ResultsAt(c, f, lane)) <= 1
    BY <1>1 DEF AllIn, Loadable
  <2>2. c \in 0..Len(log) /\ m \in 0..c
    OBVIOUS
  <2> HIDE DEF f, c
  <2> QED BY <2>1, <2>2, ResultsGrow
<1>3. AllIn(c, f)
  BY <1>2 DEF AllIn
<1>4. ~SomeSays(c, f, "notable")
  <2> SUFFICES ASSUME NEW n \in At(c, "result", f), log[n].says = "notable"
               PROVE  FALSE
    BY DEF SomeSays
  <2>1. n \in 1..c /\ log[n].kind = "result" /\ log[n].phase = f
    BY DEF At
  <2>2. log[n].lane \in LanesOf(f)
    BY <2>1 DEF LogFit, FitAt, ResultFit, Entitled, None
  <2>3. log[n] \in ResultsAt(c, f, log[n].lane)
    BY DEF ResultsAt
  <2>4. log[n] \in ResultsAt(m, f, log[n].lane)
    BY <1>2, <2>2, <2>3
  <2>5. PICK i \in At(m, "result", f) : log[i] = log[n]
    BY <2>4 DEF ResultsAt
  <2>6. i \in At(k, "result", f)
    BY <1>1, <2>5 DEF At
  <2> QED BY <1>1, <2>5, <2>6 DEF SomeSays
<1> QED BY <1>3, <1>4 DEF Earned, Succeeded

\* The completion of E2 names every result of its phases.
LEMMA E2Completes ==
    ASSUME LogFit, Succeeded, Len(log) \in Nat, DOMAIN log = 1..Len(log)
    PROVE  NewFit(FactOn("completion", "E2", OutputsOfE2(Len(log))))
<1> DEFINE c == Len(log)
<1>1. OutputsOfE2(c) \subseteq 1..c
  <2>1. \A k, f : At(c, k, f) \subseteq 1..c
    BY DEF At
  <2> HIDE DEF c
  <2> QED BY <2>1 DEF OutputsOfE2, LaneOutputs, ContradictionView
<1>2. ASSUME NEW f \in Phase, StageOf(f) = "E2"
      PROVE  At(c, "result", f) \subseteq OutputsOfE2(c)
  <2>1. f \in {"E2-BLIND", "E2-REVEAL", "E2-SHADOW", "E2-CONTRADICTION"}
    BY <1>2 DEF StageOf
  <2> QED BY <2>1 DEF OutputsOfE2, LaneOutputs
<1>3. Loadable(c, "E2-CONTRADICTION") => Earned(c, "E2")
  BY SucceededEarns
<1>4. ASSUME NEW z, z = FactOn("completion", "E2", OutputsOfE2(c))
      PROVE  NewFit(z)
  <2>1. /\ z.kind = "completion" /\ z.phase = "E2" /\ z.auth = 0 /\ z.about = 0
        /\ z.basis = OutputsOfE2(c)
    BY <1>4 DEF FactOn, FactAbout
  <2>2. Made(c, z)
    BY <2>1, <1>2, <1>3 DEF Made
  <2> QED BY <1>1, <2>1, <2>2 DEF NewFit
<1> QED BY <1>4

\* It is sent after the resolution and the succession alone.
LEMMA CompleteE2Keeps ==
    ASSUME Fine, NEW p \in Operator, CompleteE2(p)
    PROVE  Keeps
<1> DEFINE c == op[p].cut
           z == FactOn("completion", "E2", OutputsOfE2(c))
<1>1. Doing(p, "complete")
  BY DEF CompleteE2, AtCut
<1>2. Records(p, Has(c, "completion", "E2"), z, Over(op[p]))
  BY DEF CompleteE2
<1>3. Succeeded
  <2>1. SessionFit(op[p]) /\ op[p].todo # << >> /\ op[p].todo \in Seq(AStep) /\ op[p].todo[1].do = "complete"
    BY <1>1, AtStep
  <2>2. 1 \in DOMAIN op[p].todo
    BY <2>1
  <2>3. CompletionReady(op[p])
    BY <2>1 DEF SessionFit
  <2>4. ~ResolutionAhead(op[p].todo, 1) /\ ~SuccessionAhead(op[p].todo, 1)
    BY DEF ResolutionAhead, SuccessionAhead
  <2> QED BY <2>1, <2>2, <2>3, <2>4 DEF CompletionReady
<1>4. ASSUME Accepted(p, z)
      PROVE  NewFit(z)
  <2>1. c = Len(log)
    BY <1>4, AcceptedAtHead DEF Unbound, FactOn
  <2>2. LogFit /\ Len(log) \in Nat /\ DOMAIN log = 1..Len(log)
    BY DEF Fine, LogFit, IsLog
  <2> QED BY <1>3, <2>1, <2>2, E2Completes
<1> HIDE DEF z
<1> QED BY <1>1, <1>2, <1>4, EndRecordKeeps

\* A reveal needs the checkpoints.
LEMMA RequireSealKeeps ==
    ASSUME Fine, NEW p \in Operator, RequireSeal(p)
    PROVE  Keeps
  BY ChecksKeeps DEF RequireSeal, BlindOf, Revealing

\* Every step of the services of E2.
LEMMA E2StepKeeps ==
    ASSUME Fine, NEW p \in Operator, E2Step(p)
    PROVE  Keeps
  BY SealKeeps, RequireSealKeeps, GrantsOfE2Keep, SynthesizeKeeps, FinalizeShadowKeeps,
     ResolveKeeps, SucceedKeeps, CompleteE2Keeps DEF E2Step

\* The scope.
LEMMA BaselineKeeps ==
    ASSUME Fine, NEW p \in Operator, Baseline(p)
    PROVE  Keeps
<1> DEFINE c == op[p].cut
<1>1. Doing(p, "baseline")
  BY DEF Baseline, AtCut
<1>2. \/ Raises(p)
      \/ Records(p, Has(c, "scope", "E3-BLIND"), FactOn("scope", "E3-BLIND", {}), Further(op[p]))
  BY DEF Baseline, Fact
<1> QED BY <1>1, <1>2, AtStepRaises, PlainRecordKeeps DEF Bare

\* The phases of E3 need what came before them.
LEMMA ChecksOfE3Keep ==
    ASSUME Fine, NEW p \in Operator,
           RequireBlindSeal(p) \/ RequireGapResults(p) \/ RequireCumulativeResults(p)
    PROVE  Keeps
<1>1. BlindSeals(op[p].cut) # {} => Has(op[p].cut, "checkpoints", BlindOf("E3-GAP"))
  BY DEF BlindSeals, Has, BlindOf
<1> QED BY <1>1, ChecksKeeps
        DEF RequireBlindSeal, RequireGapResults, RequireCumulativeResults, Revealing

\* The grants of E3 show the views of their cut.
LEMMA GrantsOfE3Keep ==
    ASSUME Fine, NEW p \in Operator, GrantGap(p) \/ GrantCumulative(p) \/ GrantHoldout(p)
    PROVE  Keeps
<1> DEFINE c == op[p].cut
<1>1. ASSUME NEW f \in {"E3-GAP", "E3-CUMULATIVE", "E3-HOLDOUT"}
      PROVE  /\ f \in Granted /\ f # "E5B-CHALLENGE"
             /\ ViewOf(f, c) = Display(f, c, 0)
  BY <1>1 DEF Granted, Display
<1>2. CASE GrantGap(p)
  <2>1. Authorizes(p, "E3-GAP", Gaps(c) # {}, SameView(c, "E3-GAP"),
                   FactAbout("grant", "E3-GAP", ViewOf("E3-GAP", c), 0))
    BY <1>2 DEF GrantGap, GapGrant, GrantOn, FactOn, ViewOf
  <2> QED BY <1>1, <2>1, AuthorizesKeeps DEF SameView
<1>3. CASE GrantCumulative(p)
  <2>1. Authorizes(p, "E3-CUMULATIVE", TRUE, SameView(c, "E3-CUMULATIVE"),
                   FactAbout("grant", "E3-CUMULATIVE", ViewOf("E3-CUMULATIVE", c), 0))
    BY <1>3 DEF GrantCumulative, CumulativeGrant, SameCumulative, GrantOn, FactOn, ViewOf
  <2> QED BY <1>1, <2>1, AuthorizesKeeps DEF SameView
<1>4. CASE GrantHoldout(p)
  <2>1. Authorizes(p, "E3-HOLDOUT",
                   HoldoutView(c) # {} /\ HoldoutConsumed(c) = SameView(c, "E3-HOLDOUT"),
                   HoldoutConsumed(c),
                   FactAbout("grant", "E3-HOLDOUT", ViewOf("E3-HOLDOUT", c), 0))
    BY <1>4 DEF GrantHoldout, HoldoutGrant, GrantOn, FactOn, ViewOf
  <2> QED BY <1>1, <2>1, AuthorizesKeeps DEF SameView
<1> QED BY <1>2, <1>3, <1>4

\* A result is of an assigned phase: a phase without assignments has none.
LEMMA ResultsAreAssigned ==
    ASSUME LogFit, DOMAIN log = 1..Len(log), Len(log) \in Nat, NEW f \in Phase,
           NEW c \in 0..Len(log), ~Has(c, "assignments", f)
    PROVE  At(c, "result", f) = {}
<1> SUFFICES ASSUME NEW n \in At(c, "result", f)
             PROVE  FALSE
  OBVIOUS
<1>1. n \in 1..c /\ log[n].kind = "result" /\ log[n].phase = f
  BY DEF At
<1>2. f # None
  BY DEF Phase, None
<1>3. Has(n - 1, "assignments", f)
  BY <1>1, <1>2 DEF LogFit, FitAt, ResultFit, Entitled
<1> QED BY <1>1, <1>3 DEF Has, At

\* A completion of E3 or E4, with what the obligations ask for.
LEMMA LaterCompletes ==
    ASSUME NEW s \in {"E3", "E4", "E5"}, NEW basis \in SUBSET (1..Len(log)), Len(log) \in Nat,
           \A f \in Phase : StageOf(f) = s => At(Len(log), "result", f) \subseteq basis,
           Earned(Len(log), s),
           s = "E5" =>
              /\ {k \in basis : log[k].kind = "candidate"} = {Latest(Len(log))}
              /\ {k \in basis : log[k].kind = "challenges"} # {}
              /\ {k \in basis : log[k].kind = "challenges"} \subseteq ChallengedAt(Len(log), Latest(Len(log)))
    PROVE  NewFit(FactOn("completion", s, basis))
<1> DEFINE c == Len(log)
<1>1. ASSUME NEW z, z = FactOn("completion", s, basis)
      PROVE  NewFit(z)
  <2>1. /\ z.kind = "completion" /\ z.phase = s /\ z.auth = 0 /\ z.about = 0
        /\ z.basis = basis
    BY <1>1 DEF FactOn, FactAbout
  <2>2. Made(c, z)
    BY <2>1 DEF Made
  <2> QED BY <2>1, <2>2 DEF NewFit
<1> QED BY <1>1

\* The completion of E3 names every result: a holdout that is not assigned has none.
LEMMA FinalizeE3Keeps ==
    ASSUME Fine, NEW p \in Operator, FinalizeE3(p)
    PROVE  Keeps
<1> DEFINE c == op[p].cut
           z == FactOn("completion", "E3", OutputsOfE3(c))
<1>1. Doing(p, "finalize")
  BY DEF FinalizeE3, AtCut
<1>2. Goes(p, Over(op[p])) \/ Raises(p) \/ Commits(p, z, Over(op[p]))
  BY DEF FinalizeE3
<1>3. ASSUME Accepted(p, z)
      PROVE  NewFit(z)
  <2>1. c = Len(log)
    BY <1>3, AcceptedAtHead DEF Unbound, FactOn
  <2>2. LogFit /\ Len(log) \in Nat /\ DOMAIN log = 1..Len(log)
    BY DEF Fine, LogFit, IsLog
  <2>3. \A k, f : At(c, k, f) \subseteq 1..Len(log)
    BY <2>1, <2>2 DEF At
  <2>4. OutputsOfE3(c) \in SUBSET (1..Len(log))
    <3>1. UNION {At(c, "result", f) : f \in PhasesPresent(c)} \subseteq 1..Len(log)
      BY <2>3
    <3>2. BlindSeals(c) \subseteq 1..Len(log)
      BY <2>3 DEF BlindSeals
    <3> QED BY <3>1, <3>2 DEF OutputsOfE3
  <2>5. ASSUME NEW f \in Phase, StageOf(f) = "E3"
        PROVE  At(c, "result", f) \subseteq OutputsOfE3(c)
    <3>1. f \in {"E3-BLIND", "E3-GAP", "E3-CUMULATIVE", "E3-HOLDOUT"}
      BY <2>5 DEF StageOf, Phase
    <3>2. f \in PhasesPresent(c) \/ (f = "E3-HOLDOUT" /\ ~Has(c, "assignments", f))
      BY <3>1 DEF PhasesPresent
    <3>3. CASE f \in PhasesPresent(c)
      BY <3>3 DEF OutputsOfE3
    <3>4. CASE f = "E3-HOLDOUT" /\ ~Has(c, "assignments", f)
      BY <2>1, <2>2, <3>4, ResultsAreAssigned
    <3> QED BY <3>2, <3>3, <3>4
  <2>6. Earned(c, "E3")
    BY DEF Earned
  <2> QED BY <2>1, <2>2, <2>4, <2>5, <2>6, LaterCompletes
<1> HIDE DEF z
<1> QED BY <1>1, <1>2, <1>3, GoesOver, AtStepRaises, EndCommitKeeps

\* Every step of the services of E3.
LEMMA E3StepKeeps ==
    ASSUME Fine, NEW p \in Operator, E3Step(p)
    PROVE  Keeps
  BY BaselineKeeps, SealKeeps, ChecksOfE3Keep, GrantsOfE3Keep, FinalizeE3Keeps DEF E3Step

\* What discoveries name is of the log: a batch was authorized at a cut of it.
LEMMA DiscoveriesInLog ==
    ASSUME Fine, NEW p \in Operator, NEW c, c = op[p].cut, c \in 0..Len(log), Len(log) \in Nat,
           NEW f, NEW seals \in SUBSET (1..Len(log))
    PROVE  At(c, "result", f) \cup seals \cup GrantsOf(op[p], f) \subseteq 1..Len(log)
<1>1. At(c, "result", f) \subseteq 1..Len(log)
  BY FoundInLog
<1>2. ASSUME NEW pkg \in op[p].batch
      PROVE  Showing(pkg.auth, f, ViewOf(f, pkg.auth)) \subseteq 1..Len(log)
  <2>1. SessionFit(op[p])
    BY DEF Fine, Sessions
  <2>2. pkg \in packages
    BY <2>1 DEF SessionFit, Grounded
  <2>3. PackageFit(pkg)
    BY <2>2 DEF Fine, PackagesFit
  <2>4. pkg.auth \in 0..Len(log)
    BY <2>3 DEF PackageFit
  <2> QED BY <2>4 DEF Showing, At
<1> QED BY <1>1, <1>2 DEF GrantsOf

\* The discoveries of its later phases.
LEMMA E3ResultStepKeeps ==
    ASSUME Fine, NEW p \in Operator, E3ResultStep(p)
    PROVE  Keeps
<1> DEFINE c == op[p].cut
<1>1. Doing(p, "validate")
  BY DEF E3ResultStep, ValidateGap, ValidateCumulative, ValidateHoldout, Validating, AtCut
<1>2. c \in 0..Len(log) /\ Len(log) \in Nat
  BY <1>1, AtStep
<1>3. ASSUME NEW f, NEW seals \in SUBSET (1..Len(log)), RecordsFindings(p, f, seals)
      PROVE  Keeps
  <2> DEFINE b == At(c, "result", f) \cup seals \cup GrantsOf(op[p], f)
  <2>1. b \subseteq 1..Len(log)
    BY <1>2, DiscoveriesInLog
  <2>2. Records(p, Has(c, "discoveries", f) \/ ~SomeSays(c, f, "notable"),
                   FactOn("discoveries", f, b), Further(op[p]))
    BY <1>3 DEF RecordsFindings, Discoveries
  <2> HIDE DEF b
  <2> QED BY <1>1, <2>1, <2>2, PlainRecordKeeps DEF Bare
<1>4. BlindSeals(c) \in SUBSET (1..Len(log))
  BY <1>2, ViewsInLog
<1>5. CASE ValidateGap(p)
  <2> DEFINE view == UNION ShownTo(op[p], "E3-GAP")
  <2>1. \/ Raises(p)
        \/ Passes(p, "E3-GAP", view, GapAnswered(op[p].cut, view)) /\ GapFindings(p, view)
    BY <1>5 DEF ValidateGap
  <2>2. ASSUME Passes(p, "E3-GAP", view, GapAnswered(op[p].cut, view))
        PROVE  SealsIn(view) \in SUBSET (1..Len(log))
    <3>1. ShownTo(op[p], "E3-GAP") = {view}
      BY <2>2 DEF Passes
    <3>2. PICK pkg \in op[p].batch : view = ViewOf("E3-GAP", pkg.auth)
      <4> HIDE DEF view
      <4>1. view \in ShownTo(op[p], "E3-GAP")
        BY <3>1
      <4> QED BY <4>1 DEF ShownTo
    <3>3. SessionFit(op[p])
      BY DEF Fine, Sessions
    <3>4. pkg \in packages
      BY <3>3 DEF SessionFit, Grounded
    <3>5. PackageFit(pkg)
      BY <3>4 DEF Fine, PackagesFit
    <3>6. pkg.auth \in 0..Len(log)
      BY <3>5 DEF PackageFit
    <3>7. view \subseteq 1..Len(log)
      BY <1>2, <3>2, <3>6, ViewsInLog
    <3> HIDE DEF view
    <3> QED BY <3>7 DEF SealsIn
  <2> HIDE DEF view
  <2> QED BY <1>1, <1>3, <2>1, <2>2, AtStepRaises DEF GapFindings
<1>6. CASE ValidateCumulative(p)
  BY <1>1, <1>3, <1>4, <1>6, AtStepRaises DEF ValidateCumulative, CumulativeFindings
<1>7. CASE ValidateHoldout(p)
  BY <1>1, <1>3, <1>4, <1>7, AtStepRaises DEF ValidateHoldout, HoldoutFindings
<1> QED BY <1>5, <1>6, <1>7 DEF E3ResultStep

\* Of a non-empty set of cuts one is the newest.
LEMMA NewestExists ==
    ASSUME NEW c \in Nat, NEW S, S \subseteq 0..c, S # {}
    PROVE  \E n \in S : \A k \in S : k <= n
<1> DEFINE T == {c - k : k \in S}
           R == OpToRel(<, Nat)
<1>1. T \subseteq Nat /\ T # {}
  <2>1. \A k \in S : c - k \in Nat
    OBVIOUS
  <2> QED BY <2>1
<1>2. \A x, y \in Nat : y < x => << y, x >> \in R
  BY DEF OpToRel
<1>3. \E x \in T : \A y \in T : ~(<< y, x >> \in R)
  <2>1. IsWellFoundedOn(R, Nat)
    BY NatLessThanWellFounded
  <2> HIDE DEF T, R
  <2> QED BY <1>1, <2>1, WFMin
<1> HIDE DEF R
<1>4. PICK n \in S : \A y \in T : ~(<< y, c - n >> \in R)
  BY <1>3
<1>5. ASSUME NEW k \in S
      PROVE  k <= n
  <2>1. c - k \in T /\ c - k \in Nat /\ c - n \in Nat
    OBVIOUS
  <2>2. ~(c - k < c - n)
    BY <1>2, <1>4, <2>1
  <2> QED BY <2>2
<1> QED BY <1>5

\* The newest candidate is one, if there is any.
LEMMA LatestIs ==
    ASSUME NEW c \in Nat
    PROVE  /\ Latest(c) \in 0..c
           /\ Latest(c) # 0 => Latest(c) \in Candidates5(c)
<1>1. Candidates5(c) \subseteq 0..c
  BY DEF Candidates5, At
<1>2. CASE Candidates5(c) # {}
  <2>1. \E n \in Candidates5(c) : \A k \in Candidates5(c) : k <= n
    BY <1>1, <1>2, NewestExists
  <2>2. Latest(c) \in Candidates5(c)
    BY <1>2, <2>1 DEF Latest
  <2> QED BY <1>1, <2>2
<1>3. CASE Candidates5(c) = {}
  BY <1>3 DEF Latest
<1> QED BY <1>2, <1>3

\* The fidelity and the completion of E4.
LEMMA E4StepsKeep ==
    ASSUME Fine, NEW p \in Operator, AssessFidelity(p) \/ FinalizeE4(p)
    PROVE  Keeps
<1> DEFINE c == op[p].cut
<1>1. CASE AssessFidelity(p)
  <2>1. Doing(p, "fidelity")
    BY <1>1 DEF AssessFidelity, AtCut
  <2>2. \/ Raises(p)
        \/ Records(p, Has(c, "fidelity", "E4-DEEPEN"),
                      FactOn("fidelity", "E4-DEEPEN", ModelResults(c)), Further(op[p]))
    BY <1>1 DEF AssessFidelity
  <2>3. ModelResults(c) \subseteq 1..Len(log)
    <3>1. At(c, "result", "E4-DEEPEN") \subseteq 1..Len(log)
      BY <2>1, AtStep, FoundInLog
    <3> QED BY <3>1 DEF ModelResults
  <2> QED BY <2>1, <2>2, <2>3, AtStepRaises, PlainRecordKeeps DEF Bare
<1>2. CASE FinalizeE4(p)
  <2> DEFINE z == FactOn("completion", "E4", OutputsOfE4(c))
  <2>1. Doing(p, "finalize")
    BY <1>2 DEF FinalizeE4, AtCut
  <2>2. \/ Goes(p, Over(op[p])) \/ Raises(p)
        \/ /\ AllIn(c, "E4-DEEPEN") /\ ~SomeSays(c, "E4-DEEPEN", "unusable")
           /\ Has(c, "fidelity", "E4-DEEPEN")
           /\ Commits(p, z, Over(op[p]))
    BY <1>2 DEF FinalizeE4
  <2>3. ASSUME Accepted(p, z), AllIn(c, "E4-DEEPEN"), ~SomeSays(c, "E4-DEEPEN", "unusable"),
               Has(c, "fidelity", "E4-DEEPEN")
        PROVE  NewFit(z)
    <3>1. c = Len(log)
      BY <2>3, AcceptedAtHead DEF Unbound, FactOn
    <3>2. Len(log) \in Nat
      BY DEF Fine, LogFit, IsLog
    <3>3. OutputsOfE4(c) \in SUBSET (1..Len(log))
      BY <3>1, <3>2, FoundInLog DEF OutputsOfE4
    <3>4. ASSUME NEW f \in Phase, StageOf(f) = "E4"
          PROVE  At(c, "result", f) \subseteq OutputsOfE4(c)
      <4>1. f = "E4-DEEPEN"
        BY <3>4 DEF StageOf, Phase
      <4> QED BY <4>1 DEF OutputsOfE4
    <3>5. Earned(c, "E4")
      BY <2>3 DEF Earned
    <3> QED BY <3>1, <3>2, <3>3, <3>4, <3>5, LaterCompletes
  <2> HIDE DEF z
  <2> QED BY <2>1, <2>2, <2>3, GoesOver, AtStepRaises, EndCommitKeeps
<1> QED BY <1>1, <1>2

\* The findings of E5.
LEMMA CanonicalizeKeeps ==
    ASSUME Fine, NEW p \in Operator, Canonicalize(p)
    PROVE  Keeps
<1> DEFINE c == op[p].cut
           f == Current(p)
           b == At(c, "result", f) \cup At(c, "grant", f)
<1>1. Doing(p, "canonicalize")
  BY DEF Canonicalize, AtCut
<1>2. \/ Raises(p)
      \/ Records(p, Canonical(c, f) \/ ~SomeSays(c, f, "notable"), FactOn("findings", f, b),
                    Further(op[p]))
  BY DEF Canonicalize, FindingsOf
<1>3. b \subseteq 1..Len(log)
  BY <1>1, AtStep, FoundInLog
<1> HIDE DEF b
<1> QED BY <1>1, <1>2, <1>3, AtStepRaises, PlainRecordKeeps DEF Bare

\* A candidate is frozen, or found, and is at hand for its challenge.
LEMMA FreezeKeeps ==
    ASSUME Fine, NEW p \in Operator, Freeze(p)
    PROVE  Keeps
<1>1. Doing(p, "freeze")
  BY DEF Freeze, AtCut
<1>2. ASSUME NEW r, r = op[p], NEW c, c = r.cut, NEW z, z = FrozenCase(c)
      PROVE  Keeps
  <2>1. /\ SessionFit(r) /\ r.open /\ r.todo # << >> /\ r.todo[1].do = "freeze" /\ r.pub = 0
        /\ c \in 0..Len(log) /\ Len(log) \in Nat /\ c \in Nat
    BY <1>1, <1>2, AtStep
  <2>2. \/ Raises(p)
        \/ Goes(p, [Further(r) EXCEPT !.about = Latest(c)])
        \/ Commits(p, z, [Further(r) EXCEPT !.about = c + 1])
    BY <1>2 DEF Freeze
  <2>3. NewFit(z)
    <3>1. Case(c) \subseteq 1..Len(log)
      BY <2>1, FoundInLog DEF Case, Material
    <3> QED BY <1>2, <2>1, <3>1, PlainIsNew DEF FrozenCase
  <2>4. z.kind \notin Unbound
    BY <1>2 DEF FrozenCase, FactOn, FactAbout, Unbound
  <2>5. ASSUME Grows, SessionFit(r)', NEW a \in 0..Len(log'), NEW s, s = [Further(r) EXCEPT !.about = a]
        PROVE  SessionFit(s)'
    <3>1. Grounded(r)'
      BY <2>5 DEF SessionFit
    <3>2. s = [open |-> r.open, todo |-> Tail(r.todo), cut |-> 0, auth |-> r.auth, about |-> a,
               zip |-> r.zip, pub |-> r.pub, batch |-> r.batch, inbox |-> r.inbox,
               known |-> r.known]
      BY <2>5, <3>1 DEF Further, Then, Grounded
    <3>3. /\ s.open = r.open /\ s.todo = Tail(r.todo) /\ s.cut = 0 /\ s.auth = r.auth
          /\ s.about = a /\ s.pub = r.pub /\ s.zip = r.zip /\ s.batch = r.batch
          /\ s.inbox = r.inbox /\ s.known = r.known
      BY <3>2
    <3>4. s = [open |-> s.open, todo |-> s.todo, cut |-> s.cut, auth |-> s.auth, about |-> s.about,
               zip |-> s.zip, pub |-> s.pub, batch |-> s.batch, inbox |-> s.inbox,
               known |-> s.known]
      BY <3>2, <3>3
    <3>5. Tail(r.todo) \in Seq(AStep) /\ 0 \in 0..Len(log')
      BY <2>1, <2>5, <3>1, TailIs DEF Grounded, Grows
    <3>6. Grounded(s)'
      <4>1. a \in 0..Len(log')
        BY <2>5
      <4> QED BY <2>1, <3>1, <3>3, <3>4, <3>5, <4>1 DEF Grounded
    <3>7. Achieved(r, s)'
      BY <2>1 DEF Achieved
    <3> QED BY <2>1, <2>5, <3>3, <3>6, <3>7, TailFits
  <2>6. CASE Raises(p)
    BY <1>1, <2>6, AtStepRaises
  <2>7. CASE Goes(p, [Further(r) EXCEPT !.about = Latest(c)])
    <3>1. ASSUME Grows
          PROVE  Latest(c) \in 0..Len(log')
      BY <2>1, <3>1, LatestIs DEF Grows
    <3> QED BY <1>2, <2>5, <2>7, <3>1, GoesKeeps
  <2>8. CASE Commits(p, z, [Further(r) EXCEPT !.about = c + 1])
    <3>1. ASSUME Grows, NEW n \in DOMAIN log', n = c + 1
          PROVE  c + 1 \in 0..Len(log')
      BY <2>1, <3>1 DEF Grows
    <3> QED BY <1>2, <2>1, <2>3, <2>4, <2>5, <2>8, <3>1, CommitsKeeps
  <2> QED BY <2>2, <2>6, <2>7, <2>8
<1> QED BY <1>2

\* A challenge is granted for the candidate at hand.
LEMMA AuthorizeChallengeKeeps ==
    ASSUME Fine, NEW p \in Operator, AuthorizeChallenge(p)
    PROVE  Keeps
<1>1. ASSUME NEW a, a = op[p].about, NEW c, c = op[p].cut, NEW ok, ok = (a \in Candidates5(c)),
             NEW view, view = {a}, NEW f, f = "E5B-CHALLENGE",
             NEW same, same = Showing(c, f, view)
      PROVE  Keeps
  <2>1. ChallengeGrant(a) = FactAbout("grant", f, view, a)
    BY <1>1 DEF ChallengeGrant, GrantOn, FactOn, FactAbout, CandidateView
  <2>2. Authorizes(p, f, ok, same, FactAbout("grant", f, view, a))
    BY <1>1, <2>1 DEF AuthorizeChallenge, ChallengesOf, CandidateView
  <2>3. view = Display(f, op[p].cut, a) /\ f \in Granted
    BY <1>1 DEF Display, Granted
  <2>4. IF f = "E5B-CHALLENGE" THEN a = op[p].about /\ (ok => a \in Candidates5(op[p].cut))
                               ELSE a = 0
    BY <1>1
  <2>5. ok => same \subseteq Showing(op[p].cut, f, view)
    BY <1>1
  <2> QED BY <2>2, <2>3, <2>4, <2>5, AuthorizesKeeps
<1> QED BY <1>1

\* What shows one candidate is about it.
LEMMA ChallengeGrantsAre ==
    ASSUME LogFit, NEW c \in 0..Len(log), Len(log) \in Nat, DOMAIN log = 1..Len(log),
           NEW n, NEW g \in ChallengesOf(c, n)
    PROVE  log[g].about = n /\ n \in Candidates5(g - 1)
<1>1. /\ g \in 1..c /\ log[g].kind = "grant" /\ log[g].phase = "E5B-CHALLENGE"
      /\ log[g].basis = {n}
  BY DEF ChallengesOf, Showing, At, CandidateView
<1>2. GrantFit(g)
  BY <1>1 DEF LogFit, FitAt
<1>3. log[g].basis = {log[g].about} /\ log[g].about \in Candidates5(g - 1)
  BY <1>1, <1>2 DEF GrantFit, Display
<1> QED BY <1>1, <1>3

\* Challenges are of the newest candidate, and of results about it.
LEMMA MaterializeKeeps ==
    ASSUME Fine, NEW p \in Operator, Materialize(p)
    PROVE  Keeps
<1>1. Doing(p, "materialize")
  BY DEF Materialize, AtCut
<1>2. ASSUME NEW c, c = op[p].cut, NEW n, n = Latest(c), NEW b, b = Challenged(c, n),
             NEW z, z = FactAbout("challenges", "E5B-CHALLENGE", b, n)
      PROVE  Keeps
  <2>1. /\ op[p].open /\ op[p].todo # << >> /\ op[p].todo[1].do = "materialize" /\ op[p].pub = 0
        /\ c \in 0..Len(log) /\ Len(log) \in Nat /\ c \in Nat
    BY <1>1, <1>2, AtStep
  <2>2. \/ Raises(p) \/ Goes(p, Further(op[p]))
        \/ /\ n # 0 /\ ChallengesOf(c, n) # {} /\ AboutLatest(c)
           /\ Commits(p, z, Further(op[p]))
    BY <1>2 DEF Materialize
  <2>3. LogFit /\ DOMAIN log = 1..Len(log)
    BY DEF Fine, LogFit, IsLog
  <2>4. z.kind = "challenges" /\ z.phase = "E5B-CHALLENGE" /\ z.about = n /\ z.basis = b /\ z.auth = 0
    BY <1>2 DEF FactAbout
  <2>5. ASSUME n # 0, AboutLatest(c), Accepted(p, z)
        PROVE  NewFit(z)
    <3>1. c = Len(log)
      BY <1>2, <2>5, AcceptedAtHead DEF Unbound
    <3>2. n \in Candidates5(c) /\ n \in 1..Len(log)
      <4>1. n \in Candidates5(c)
        BY <1>2, <2>1, <2>5, LatestIs
      <4> QED BY <2>1, <4>1 DEF Candidates5, At
    <3>3. b \subseteq 1..Len(log)
      <4>1. ChallengesOf(c, n) \subseteq 1..Len(log)
        BY <2>1 DEF ChallengesOf, Showing, At
      <4> QED BY <1>2, <2>1, <3>2, <4>1, FoundInLog DEF Challenged
    <3>4. ASSUME NEW m \in b, log[m].kind # "findings"
          PROVE  n \in {m, log[m].about}
      <4>1. CASE m \in ChallengesOf(c, n)
        BY <2>1, <2>3, <4>1, ChallengeGrantsAre
      <4>2. CASE m \in At(c, "result", "E5B-CHALLENGE")
        BY <1>2, <2>5, <4>2 DEF AboutLatest
      <4>3. CASE m \in At(c, "findings", "E5B-CHALLENGE")
        BY <3>4, <4>3 DEF At
      <4> QED BY <1>2, <3>4, <4>1, <4>2, <4>3 DEF Challenged
    <3>5. Made(Len(log), z)
      BY <2>4, <3>1, <3>2, <3>4 DEF Made
    <3>6. n \in 0..Len(log) /\ 0 \in 0..Len(log)
      BY <2>1, <3>2
    <3> QED BY <2>4, <3>3, <3>5, <3>6 DEF NewFit
  <2>6. CASE Raises(p)
    BY <1>1, <2>6, AtStepRaises
  <2>7. CASE Goes(p, Further(op[p]))
    BY <1>1, <2>7, BareGoes DEF Bare
  <2>8. CASE /\ n # 0 /\ AboutLatest(c)
             /\ Commits(p, z, Further(op[p]))
    <3>1. Records(p, FALSE, z, Further(op[p]))
      BY <2>8 DEF Records
    <3>2. "materialize" \in Bare
      BY DEF Bare
    <3> QED BY <1>1, <2>5, <2>8, <3>1, <3>2, BareRecordKeeps
  <2> QED BY <2>2, <2>6, <2>7, <2>8
<1> QED BY <1>2

\* The completion of E5 names the newest candidate and the challenges of it.
LEMMA FinalizeE5Keeps ==
    ASSUME Fine, NEW p \in Operator, FinalizeE5(p)
    PROVE  Keeps
<1>1. Doing(p, "finalize")
  BY DEF FinalizeE5, AtCut
<1>2. ASSUME NEW c, c = op[p].cut, NEW n, n = Latest(c), NEW b, b = OutputsOfE5(c),
             NEW z, z = FactOn("completion", "E5", b)
      PROVE  Keeps
  <2>1. c \in 0..Len(log) /\ Len(log) \in Nat /\ c \in Nat
    BY <1>1, <1>2, AtStep
  <2>2. \/ Raises(p) \/ Goes(p, Over(op[p]))
        \/ /\ AttackFit(c) /\ AllIn(c, "E5B-CHALLENGE") /\ ChallengedAt(c, n) # {}
           /\ ~SomeSays(c, "E5B-CHALLENGE", "notable")
           /\ Commits(p, z, Over(op[p]))
    BY <1>2 DEF FinalizeE5
  <2>3. LogFit /\ DOMAIN log = 1..Len(log)
    BY DEF Fine, LogFit, IsLog
  <2>4. ASSUME AttackFit(c), AllIn(c, "E5B-CHALLENGE"), ChallengedAt(c, n) # {},
               ~SomeSays(c, "E5B-CHALLENGE", "notable"), Accepted(p, z)
        PROVE  NewFit(z)
    <3>1. c = Len(log)
      BY <1>2, <2>4, AcceptedAtHead DEF Unbound, FactOn
    <3>2. n \in Candidates5(c)
      <4>1. PICK k \in ChallengedAt(c, n) : TRUE
        BY <2>4
      <4>2. k \in 1..c /\ log[k].kind = "challenges" /\ log[k].phase = "E5B-CHALLENGE" /\ log[k].about = n
        BY <4>1 DEF ChallengedAt, At
      <4>3. ChallengeFit(k)
        BY <2>1, <2>3, <4>2 DEF LogFit, FitAt
      <4>4. n \in Candidates5(k - 1)
        BY <4>2, <4>3 DEF ChallengeFit
      <4>5. n # 0
        BY <4>4 DEF Candidates5, At
      <4> QED BY <1>2, <2>1, <4>5, LatestIs
    <3>3. n \in 1..c /\ log[n].kind = "candidate"
      BY <3>2 DEF Candidates5, At
    <3>4. /\ b = {n} \cup ChallengesOf(c, n) \cup ChallengedAt(c, n)
                   \cup At(c, "result", "E5A-ATTACK") \cup At(c, "result", "E5B-CHALLENGE")
          /\ \A k \in ChallengesOf(c, n) : k \in 1..c /\ log[k].kind = "grant"
          /\ \A k \in ChallengedAt(c, n) : k \in 1..c /\ log[k].kind = "challenges"
          /\ \A k \in At(c, "result", "E5A-ATTACK") : k \in 1..c /\ log[k].kind = "result"
          /\ \A k \in At(c, "result", "E5B-CHALLENGE") : k \in 1..c /\ log[k].kind = "result"
      BY <1>2 DEF OutputsOfE5, ChallengesOf, Showing, ChallengedAt, At
    <3>5. b \in SUBSET (1..Len(log))
      BY <3>1, <3>3, <3>4
    <3>6. {k \in b : log[k].kind = "candidate"} = {n}
      BY <3>3, <3>4
    <3>7. {k \in b : log[k].kind = "challenges"} = ChallengedAt(c, n)
      BY <3>3, <3>4
    <3>8. ASSUME NEW f \in Phase, StageOf(f) = "E5"
          PROVE  At(c, "result", f) \subseteq b
      <4>1. f \in {"E5A-ATTACK", "E5B-CHALLENGE"}
        BY <3>8 DEF StageOf, Phase
      <4> QED BY <3>4, <4>1
    <3>9. Earned(c, "E5")
      BY <2>4 DEF Earned, AttackFit
    <3> QED BY <1>2, <2>1, <2>4, <3>1, <3>5, <3>6, <3>7, <3>8, <3>9, LaterCompletes
  <2>5. CASE Raises(p)
    BY <1>1, <2>5, AtStepRaises
  <2>6. CASE Goes(p, Over(op[p]))
    BY <1>1, <2>6, GoesOver
  <2>7. CASE /\ AttackFit(c) /\ AllIn(c, "E5B-CHALLENGE") /\ ChallengedAt(c, n) # {}
             /\ ~SomeSays(c, "E5B-CHALLENGE", "notable")
             /\ Commits(p, z, Over(op[p]))
    BY <1>1, <2>4, <2>7, EndCommitKeeps
  <2> QED BY <2>2, <2>5, <2>6, <2>7
<1> QED BY <1>2

\* Every step of the services of E4 and E5.
LEMMA E5StepKeeps ==
    ASSUME Fine, NEW p \in Operator, E5Step(p)
    PROVE  Keeps
  BY E4StepsKeep, CanonicalizeKeeps, FreezeKeeps, AuthorizeChallengeKeeps, MaterializeKeeps,
     FinalizeE5Keeps DEF E5Step

-----------------------------------------------------------------------------
\* All of it is kept by every step, and holds at the beginning.

\* Whatever an operator does.
LEMMA OperatorKeeps ==
    ASSUME Fine, NEW p \in Operator, Calls(p) \/ Works(p) \/ Die(p)
    PROVE  Keeps
<1>1. CASE Works(p)
  BY <1>1, ReadCutKeeps, DecideKeeps, CheckKeeps, AssignKeeps, PublishKeeps, PublishFileKeeps,
     LoadKeeps, ResumeKeeps, LookKeeps, BeginKeeps, SendResultKeeps, ReloadKeeps, E2StepKeeps,
     E3StepKeeps, E3ResultStepKeeps, E5StepKeeps DEF Works
<1> QED BY <1>1, CallsKeep, DieKeeps

\* Nothing happens.
LEMMA StutteringKeeps ==
    ASSUME Fine, UNCHANGED vars
    PROVE  Keeps
<1>1. log' = log /\ op' = op /\ packages' = packages /\ receipts' = receipts
  BY DEF vars
<1>2. Fitting
  BY <1>1 DEF Fitting
<1>3. Grows
  BY <1>2, FittingGrows DEF Fine
<1>4. ASSUME NEW q \in Operator, NEW r, r = op[q]
      PROVE  SessionFit(r)'
  BY <1>1, <1>3, <1>4, SessionStable DEF Fine, Sessions
<1>5. Sessions'
  BY <1>1, <1>4 DEF Fine, Sessions
<1> QED BY <1>1, <1>2, <1>3, <1>5, PackagesStable DEF Keeps

\* A step of anyone.
LEMMA NextFine ==
    ASSUME Fine, [Next]_vars
    PROVE  Fine'
<1>1. Keeps
  BY OperatorKeeps, ElsewhereKeeps, StutteringKeeps DEF Next
<1>2. LogFit'
  BY <1>1, FittingKeepsLog DEF Fine, Keeps
<1> QED BY <1>1, <1>2 DEF Fine, Keeps

\* Only completions and the scope are accepted before the phases begin.
LEMMA BeginningIsFit ==
    ASSUME NEW n \in 1..4, NEW says, log = Beginning(n, says)
    PROVE  LogFit
<1>1. IsLog(log) /\ \A i \in DOMAIN log : log[i].kind # "assignments"
  BY BeginningIsLog
<1>2. DOMAIN log = 1..Len(log) /\ Len(log) \in Nat
  BY <1>1 DEF IsLog
<1> DEFINE l == Before5(says)
           m == IF n <= 2 THEN n ELSE n + 1
<1>3. \A i \in 1..5 : /\ l[i].kind \in {"completion", "scope"} /\ l[i].phase # "E5"
                      /\ l[i].auth = 0 /\ l[i].about = 0 /\ l[i].basis = {}
  <2> DEFINE Bare5(z) == /\ z.kind \in {"completion", "scope"} /\ z.phase # "E5"
                         /\ z.auth = 0 /\ z.about = 0 /\ z.basis = {}
  <2>1. Bare5(l[1])
    BY DEF Before5, Fact, FactOn, FactAbout
  <2>2. Bare5(l[2])
    BY DEF Before5, Fact, FactOn, FactAbout
  <2>3. Bare5(l[3])
    BY DEF Before5, Fact, FactOn, FactAbout
  <2>4. Bare5(l[4])
    BY DEF Before5, Fact, FactOn, FactAbout
  <2>5. Bare5(l[5])
    BY DEF Before5, Fact, FactOn, FactAbout
  <2> HIDE DEF l
  <2>6. \A i \in 1..5 : i = 1 \/ i = 2 \/ i = 3 \/ i = 4 \/ i = 5
    OBVIOUS
  <2> QED BY <2>1, <2>2, <2>3, <2>4, <2>5, <2>6
<1>4. m \in 1..5
  OBVIOUS
<1> HIDE DEF l, m
<1>5. log = [i \in 1..m |-> l[i]]
  BY DEF Beginning, l, m
<1>6. \A i \in DOMAIN log : /\ log[i].kind \in {"completion", "scope"} /\ log[i].phase # "E5"
                            /\ log[i].auth = 0 /\ log[i].about = 0 /\ log[i].basis = {}
  BY <1>3, <1>4, <1>5
<1>7. ASSUME NEW i \in DOMAIN log
      PROVE  FitAt(i)
  <2>1. i \in 1..Len(log)
    BY <1>2
  <2>2. \A f : ~Has(i - 1, "assignments", f)
    BY <1>1, <1>2, <2>1 DEF Has, At
  <2>3. Placed(i)
    BY <1>6, <2>1 DEF Placed
  <2>4. SealFit(i) /\ GrantFit(i) /\ ResultFit(i) /\ ChallengeFit(i) /\ ChallengedFit(i)
    BY <1>6 DEF SealFit, GrantFit, ResultFit, ChallengeFit, ChallengedFit
  <2>5. CompletionFit(i)
    BY <2>2 DEF CompletionFit
  <2> QED BY <2>3, <2>4, <2>5 DEF FitAt
<1> QED BY <1>1, <1>7 DEF LogFit

\* Nothing is published, and no session is open, at the beginning.
LEMMA InitFine ==
    ASSUME Init
    PROVE  Fine
<1>1. PICK n \in 1..4, says \in {"plain", "notable"} : log = Beginning(n, says)
  BY PhasesAssumption DEF Init
<1>2. LogFit
  BY <1>1, BeginningIsFit
<1>3. packages = {} /\ receipts = {} /\ op = [p \in Operator |-> Closed]
  BY DEF Init
<1>4. PackagesFit
  BY <1>3 DEF PackagesFit
<1>5. ASSUME NEW r, r = Closed
      PROVE  SessionFit(r)
  <2>1. /\ r = [open |-> FALSE, todo |-> << >>, cut |-> 0, auth |-> 0, about |-> 0, zip |-> NoZip,
                pub |-> 0, batch |-> {}, inbox |-> {}, known |-> {}]
    BY <1>5 DEF Closed
  <2>2. r.todo = << >> /\ r.cut = 0 /\ r.about = 0 /\ r.pub = 0
    BY <2>1
  <2>3. Len(log) \in Nat
    BY <1>2 DEF LogFit, IsLog
  <2>4. Grounded(r)
    BY <1>5, <2>1, <2>3 DEF Grounded
  <2>5. DOMAIN r.todo = {}
    BY <2>2
  <2> QED BY <2>2, <2>4, <2>5
          DEF SessionFit, RevealsReady, FilesReady, ChallengeNext, Frozen, CompletionReady, Publishing
<1>6. Sessions
  BY <1>3, <1>5 DEF Sessions
<1> QED BY <1>2, <1>4, <1>6 DEF Fine

\* The invariant holds.
LEMMA StagesAreFine == Spec => []Fine
<1>1. Init => Fine
  BY InitFine
<1>2. Fine /\ [Next]_vars => Fine'
  BY NextFine
<1> QED BY <1>1, <1>2, PTL DEF Spec

-----------------------------------------------------------------------------

\* What it says of the sessions, the packages and the commits,
LEMMA FineIsOfType ==
    ASSUME Fine
    PROVE  TypeOK
<1>1. LogFit /\ PackagesFit /\ Sessions /\ DOMAIN log = 1..Len(log) /\ Len(log) \in Nat
  BY DEF Fine, LogFit, IsLog
<1>2. \A n \in DOMAIN log : log[n].auth < n /\ log[n].about < n /\ log[n].basis \subseteq 1..(n - 1)
  BY <1>1 DEF LogFit, FitAt, Placed
<1>3. ASSUME NEW p \in Operator, NEW r, r = op[p], NEW f, f = IF r.pub = 0 THEN "E2-BLIND" ELSE Current(p)
      PROVE  /\ r.cut <= Len(log) /\ r.auth <= Len(log) /\ r.about <= Len(log)
             /\ r.pub <= 2 * Len(Lanes[f])
             /\ r.batch \cup r.inbox \subseteq packages
             /\ ~r.open => r = Closed
  <2>1. Grounded(r) /\ Publishing(r)
    BY <1>1, <1>3 DEF Sessions, SessionFit
  <2>2. /\ r.cut <= Len(log) /\ r.auth <= Len(log) /\ r.about <= Len(log)
        /\ r.batch \cup r.inbox \subseteq packages /\ (~r.open => r = Closed)
    BY <1>1, <2>1 DEF Grounded
  <2>3. CASE r.pub = 0
    <3>1. f \in Phase
      BY <1>3, <2>3 DEF Phase
    <3>2. Len(Lanes[f]) \in Nat
      BY <3>1, PhasesAssumption
    <3> QED BY <2>2, <2>3, <3>2
  <2>4. CASE r.pub # 0
    <3>1. r.todo # << >> /\ r.todo \in Seq(AStep) /\ r.pub <= 2 * Len(Lanes[r.todo[1].phase])
      BY <2>1, <2>4 DEF Publishing, Grounded
    <3>2. f = r.todo[1].phase
      BY <1>3, <2>4, <3>1 DEF Current
    <3> QED BY <2>2, <3>1, <3>2
  <2> QED BY <2>3, <2>4
<1> QED BY <1>1, <1>2, <1>3 DEF TypeOK, PackagesFit

\* of the grants and what they follow,
LEMMA FineGrantsFollow ==
    ASSUME Fine
    PROVE  GrantsFollowSeals
<1>1. LogFit /\ DOMAIN log = 1..Len(log) /\ Len(log) \in Nat
  BY DEF Fine, LogFit, IsLog
<1>2. ASSUME NEW f \in Revealing, NEW n \in At(Len(log), "grant", f)
      PROVE  SealBefore(n, BlindOf(f))
  <2>1. n \in DOMAIN log /\ n \in 1..Len(log) /\ log[n].kind = "grant" /\ log[n].phase = f
    BY <1>1 DEF At
  <2>2. Has(n - 1, "checkpoints", BlindOf(f))
    BY <1>1, <1>2, <2>1 DEF LogFit, FitAt, GrantFit
  <2>3. PICK m \in At(n - 1, "checkpoints", BlindOf(f)) : TRUE
    BY <2>2 DEF Has
  <2>4. m \in DOMAIN log /\ log[m].kind = "checkpoints" /\ log[m].phase = BlindOf(f)
    BY <1>1, <2>1, <2>3 DEF At
  <2>5. AllIn(m - 1, BlindOf(f))
    BY <1>1, <2>4 DEF LogFit, FitAt, SealFit
  <2> QED BY <2>3, <2>5 DEF SealBefore
<1> QED BY <1>2 DEF GrantsFollowSeals, Revealing, BlindOf

\* of the results,
LEMMA FineResultsAreGranted ==
    ASSUME Fine
    PROVE  ResultsUnderTheirGrant
<1> SUFFICES ASSUME NEW n \in DOMAIN log, log[n].kind \in {"evidence", "result"},
                    log[n].phase \in Granted
             PROVE  UnderGrant(log[n])
  BY DEF ResultsUnderTheirGrant
<1>1. log[n].phase # None
  BY DEF Granted, None
<1> QED BY <1>1 DEF Fine, LogFit, FitAt, ResultFit, Entitled

\* of the completion of E5,
LEMMA FineChallengesAreNewest ==
    ASSUME Fine
    PROVE  ChallengedWasNewest
<1>1. LogFit /\ DOMAIN log = 1..Len(log) /\ Len(log) \in Nat
  BY DEF Fine, LogFit, IsLog
<1>2. ASSUME NEW n \in At(Len(log), "completion", "E5")
      PROVE  /\ Named(n, "candidate") = {Latest(n - 1)} /\ Named(n, "challenges") # {}
             /\ \A k \in Named(n, "challenges") :
                   /\ log[k].about = Latest(n - 1)
                   /\ \A m \in log[k].basis :
                         log[m].kind # "findings" => Latest(n - 1) \in {m, log[m].about}
  <2>1. n \in DOMAIN log /\ n \in 1..Len(log) /\ log[n].kind = "completion" /\ log[n].phase = "E5"
    BY <1>1 DEF At
  <2>2. /\ Named(n, "candidate") = {Latest(n - 1)} /\ Named(n, "challenges") # {}
        /\ Named(n, "challenges") \subseteq ChallengedAt(n - 1, Latest(n - 1))
    BY <1>1, <2>1 DEF LogFit, FitAt, ChallengedFit
  <2>3. ASSUME NEW k \in ChallengedAt(n - 1, Latest(n - 1))
        PROVE  /\ log[k].about = Latest(n - 1)
               /\ \A m \in log[k].basis :
                     log[m].kind # "findings" => Latest(n - 1) \in {m, log[m].about}
    <3>1. /\ k \in DOMAIN log /\ log[k].kind = "challenges" /\ log[k].phase = "E5B-CHALLENGE"
          /\ log[k].about = Latest(n - 1)
      BY <1>1, <2>1 DEF ChallengedAt, At
    <3>2. ChallengeFit(k)
      BY <1>1, <3>1 DEF LogFit, FitAt
    <3> QED BY <3>1, <3>2 DEF ChallengeFit
  <2> QED BY <2>2, <2>3
<1> QED BY <1>2 DEF ChallengedWasNewest, Named

\* and of those of every stage.
LEMMA FineCompletionsAreEarned ==
    ASSUME Fine, Loadable(Len(log), "E2-CONTRADICTION")
    PROVE  CompletionsAreEarned
<1>1. LogFit /\ DOMAIN log = 1..Len(log) /\ Len(log) \in Nat
  BY DEF Fine, LogFit, IsLog
<1> SUFFICES ASSUME NEW s \in Stage, NEW n \in At(Len(log), "completion", s),
                    \E f \in Phase : StageOf(f) = s /\ Has(n - 1, "assignments", f)
             PROVE  Earned(n - 1, s) /\ NamesAllResults(n, s)
  BY DEF CompletionsAreEarned
<1>2. n \in DOMAIN log /\ n \in 1..Len(log) /\ log[n].kind = "completion" /\ log[n].phase = s
  BY <1>1 DEF At
<1>3. CompletionFit(n)
  BY <1>1, <1>2 DEF LogFit, FitAt
<1>4. Loadable(n - 1, "E2-CONTRADICTION")
  <2> SUFFICES ASSUME NEW lane \in LanesOf("E2-CONTRADICTION")
               PROVE  Cardinality(ResultsAt(n - 1, "E2-CONTRADICTION", lane)) <= 1
    BY DEF Loadable
  <2>1. Cardinality(ResultsAt(Len(log), "E2-CONTRADICTION", lane)) <= 1
    BY DEF Loadable
  <2>2. n - 1 \in 0..Len(log) /\ Len(log) \in 0..Len(log)
    BY <1>1, <1>2
  <2>3. /\ Cardinality(ResultsAt(n - 1, "E2-CONTRADICTION", lane))
              <= Cardinality(ResultsAt(Len(log), "E2-CONTRADICTION", lane))
        /\ Cardinality(ResultsAt(n - 1, "E2-CONTRADICTION", lane)) \in Nat
        /\ Cardinality(ResultsAt(Len(log), "E2-CONTRADICTION", lane)) \in Nat
    BY <1>1, <2>2, ResultsGrow
  <2> QED BY <2>1, <2>3
<1> QED BY <1>2, <1>3, <1>4 DEF CompletionFit

\* Whatever the operators do, no session has read a cut that is not there, works for a
\* batch that is not published, or has published a receipt without its package.
THEOREM StagesAreOfType == Spec => []TypeOK
<1>1. Fine => TypeOK
  BY FineIsOfType
<1> QED BY <1>1, StagesAreFine, PTL

\* Nothing of a blind phase is revealed before its checkpoints, each of one result for
\* each lane, whoever grants it and however old the check before it is.
THEOREM NothingIsRevealedEarly == Spec => []GrantsFollowSeals
<1>1. Fine => GrantsFollowSeals
  BY FineGrantsFollow
<1> QED BY <1>1, StagesAreFine, PTL

\* The packages results are made from were published under a grant of what they show,
\* also by a session that found the grant of another, and died and resumed since.
THEOREM ResultsAreGranted == Spec => []ResultsUnderTheirGrant
<1>1. Fine => ResultsUnderTheirGrant
  BY FineResultsAreGranted
<1> QED BY <1>1, StagesAreFine, PTL

\* E5 is completed on the newest candidate and on challenges of it alone.
THEOREM NewestIsChallenged == Spec => []ChallengedWasNewest
<1>1. Fine => ChallengedWasNewest
  BY FineChallengesAreNewest
<1> QED BY <1>1, StagesAreFine, PTL

\* The stages are completed on their results, fit and all named, as long as no lane of
\* the contradiction phase has two of them (E1Inbox: two imports that race).
THEOREM StagesAreEarned ==
    Spec => [](Loadable(Len(log), "E2-CONTRADICTION") => CompletionsAreEarned)
<1>1. Fine => (Loadable(Len(log), "E2-CONTRADICTION") => CompletionsAreEarned)
  BY FineCompletionsAreEarned
<1> QED BY <1>1, StagesAreFine, PTL

===============================================================================
