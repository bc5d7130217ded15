------------------------------- MODULE MCStages -------------------------------
(***************************************************************************)
(* Small phases in two regimes: one operator at a time, who may die, with  *)
(* results of every kind and material from elsewhere; and two operators at *)
(* once, with the results of a straight course, imported while the other   *)
(* is idle (two imports at once are E1Inbox).                              *)
(***************************************************************************)
EXTENDS StageCampaign

CONSTANTS
    Regimes,        \* "alone", "race"
    MaxTurns,       \* bound on the deaths and direct calls of a behaviour
    MaxCopies       \* bound on packages beyond the first of their lane

VARIABLES regime, turns

OneLane == [f \in Phase |-> << "a" >>]

TwoBlindLanes == [OneLane EXCEPT !["E2-BLIND"] = << "a", "b" >>]

MixedSays ==
    [f \in Phase |-> IF f \in {"E2-BLIND", "E2-REVEAL", "E3-BLIND"} THEN {"plain"}
                     ELSE IF f = "E4-DEEPEN" THEN {"plain", "unusable"}
                     ELSE {"plain", "notable"}]

StraightSaying(f) == IF f = "E2-SHADOW" THEN "notable" ELSE "plain"

Alike == Permutations(Operator)

\* Packages of a lane beyond the first, over all lanes.
Copies(pkgs) == Cardinality(pkgs) - Cardinality({<< pkg.phase, pkg.lane >> : pkg \in pkgs})

Alone(p) == \A q \in Operator \ {p} : ~op[q].open

\* What the completion of E2 says matters when the campaign begins after E3.
MCInit ==
    /\ Init
    /\ Len(log) = 2 => log[2].says = "notable"
    /\ turns = 0
    /\ regime \in Regimes

MCNext ==
    /\ \/ \E p \in Operator :
            /\ regime = "alone" => Alone(p)
            /\ Regular(p) \/ Works(p)
            /\ UNCHANGED turns
       \/ \E p \in Operator :
            /\ regime = "alone" /\ Alone(p) /\ turns < MaxTurns
            /\ Die(p) \/ \E f \in Phase : Prepare(p, f)
            /\ turns' = turns + 1
       \/ \* before E3 no view is built from it
          /\ regime = "alone" /\ StageDone(Len(log), "E2")
          /\ Elsewhere
          /\ UNCHANGED turns
    /\ Copies(packages') <= IF regime = "alone" THEN MaxCopies ELSE 0
    /\ regime = "race" =>
            /\ \A p \in Operator : op'[p].zip # NoZip =>
                   /\ op'[p].zip.says = StraightSaying(op'[p].zip.phase)
                   /\ \A q \in Operator \ {p} : op'[q].todo = << >>
    /\ UNCHANGED regime

MCSpec == MCInit /\ [][MCNext]_<<vars, regime, turns>>

=============================================================================
