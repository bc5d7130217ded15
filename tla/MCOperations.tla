------------------------------ MODULE MCOperations ------------------------------
(***************************************************************************)
(* Three regimes: two operators who call the operations that write, at     *)
(* four points of a campaign; records of the audit coming in while one     *)
(* operator evaluates STOP; and one operator who does what the             *)
(* continuation says.                                                      *)
(***************************************************************************)
EXTENDS CampaignOperations, FiniteSets

CONSTANTS
    Regimes,        \* "race", "gate", "follow"
    MaxNew,         \* bound on the commits of a race
    MaxRecords,     \* bound on the records of a gate
    MaxStops        \* bound on the STOPs of a race or gate

VARIABLES regime, start     \* start: the length of the beginning

Stage(s)  == Commit("stage", s, "")
Done(s)   == Commit("completion", s, "")
Plain     == [context |-> "FINAL_POST_E5", approved |-> FALSE, adds |-> {}]
Planned   == [Plain EXCEPT !.approved = TRUE]
Doubting  == [Plain EXCEPT !.adds = {"UNKNOWN"}]
Early     == [Plain EXCEPT !.context = "INTERMEDIATE"]
Late      == [Planned EXCEPT !.context = "POST_E6"]

\* A campaign before E2, one in E5, and one with everything for a pass.
Young == << Commit("genesis", "c", ""), Stage("E1"), Done("E1") >>

Old == Young \o << Stage("E2"), Done("E2"), Stage("E3"), Stage("E4"), Done("E3"), Done("E4"),
                   Stage("E5") >>

Ripe == Old \o << Commit("obligation", "x", ""), Commit("qualification", 11, "QUALIFIED"),
                  Commit("candidate", "", ""),
                  Commit("challenge", << 13, "FALSE_POSITIVE_SKEPTIC" >>, "CLOSED"),
                  Commit("challenge", << 13, "FALSE_NEGATIVE_HUNTER" >>, "CLOSED"),
                  Done("E5") >>

MCAsked == {Plain, Planned, Doubting, Early, Late}

Beginnings == {<< >>, Young, Old, Ripe}

First == CHOOSE p \in Operator : TRUE

Advised(p) ==
    LET a == op[p].report
    IN  \/ a.kind # "advice" /\ Ask(p)
        \/ a.of = "PREPARE_STAGE" /\ PrepareStage(p, a.says)
        \/ a.of = "EVALUATE_STOP_GATE" /\ \E r \in {Plain, Doubting} : Evaluate(p, r)
        \/ a.of = "QUALIFY_STAGE" /\ Completed(log, HeadSeq, a.says) /\ Ask(p)
        \/ a.of = "QUALIFY_STAGE" /\ CompleteStage(a.says)

MCInit ==
    /\ Init
    /\ regime \in Regimes
    /\ start = Len(log)
    /\ log \in CASE regime = "race"   -> {<< >>, Young, Old, Ripe}
                 [] regime = "gate"   -> {Ripe}
                 [] regime = "follow" -> {<< >>, Ripe}

RaceCalls(p) ==
    \/ \E camp \in Campaign : Create(p, camp)
    \/ \E s \in Stages : PrepareStage(p, s)
    \/ \E slot \in Slot, body \in Body : PrepareLane(p, "E2", slot, body)
    \/ \E r \in Asked \cap {Plain, Planned} : Evaluate(p, r)

Race ==
    /\ \/ \E p \in Operator : RaceCalls(p) \/ Works(p)
       \/ \E s \in BaselineStage : CompleteStage(s)
       \/ Conclude
    /\ Len(log') <= start + MaxNew
    /\ Cardinality(Of(log', Len(log'), "stop")) <= MaxStops

Gate ==
    /\ \/ \E req \in Asked : Evaluate(First, req)
       \/ Works(First)
       \/ Elsewhere
    /\ Cardinality({n \in DOMAIN log' : n > start /\ log'[n].kind # "stop"}) <= MaxRecords
    /\ Cardinality(Of(log', Len(log'), "stop")) <= MaxStops

Follow ==
    \/ Works(First)
    \/ op[First].pc = "idle" /\ HeadSeq > 0 /\ Advised(First)
    \/ \E camp \in Campaign : HeadSeq = 0 /\ Create(First, camp)

MCNext ==
    /\ \/ regime = "race" /\ Race
       \/ regime = "gate" /\ Gate
       \/ regime = "follow" /\ Follow
    /\ UNCHANGED << regime, start >>

MCSpec == MCInit /\ [][MCNext]_<<vars, regime, start>>

\* The followed operator and the stages it waits for go on.
MCFairSpec == MCSpec /\ WF_<<vars, regime, start>>(regime = "follow" /\ MCNext)

Ends == {"CONCLUDE_CAMPAIGN", "CONCLUDE_LIMITED_OR_BLOCK"}

\* An operator alone who does what the continuation says (and evaluates STOP for the
\* final context, without a plan for E6), from an empty file or a campaign ready for
\* STOP, is told in the end to conclude: no advice is refused or repeated for ever.
FollowedAdviceEnds ==
    regime = "follow" => <>(op[First].report.kind = "advice" /\ op[First].report.of \in Ends)
=============================================================================
