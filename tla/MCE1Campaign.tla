----------------------------- MODULE MCE1Campaign -----------------------------
(* E1Campaign with two lanes.  Either two preparers with one model, or one that *)
(* may come back with another model; one importer.                              *)
EXTENDS E1Campaign

CONSTANTS Rivals        \* how many preparers there are: a set of 1 and 2

MCSlotOf == [a1 |-> "A", a2 |-> "A", b |-> "B", bad |-> "B"]

\* One operator offers archives alone or several in a call.
MCAloneBatches == {<<"a1">>, <<"bad", "a2", "b">>, << >>}

MCOrder == <<"A", "B">>

VARIABLE rivals

First == CHOOSE q \in Preparer : TRUE

MCInit == CampaignInit /\ rivals \in Rivals

May(q, m) ==
    IF rivals = 1 THEN q = First ELSE m = CHOOSE n \in Model : TRUE

\* Beside one preparer an importer works, but neither begins while the other is in
\* the middle of a call; two preparers race by themselves.
PreparersRest == \A q \in Preparer : prep[q].pc = "idle"
ImportersRest == \A p \in Importer : imp[p].pc = "closed"

MCNext ==
    /\ \/ \E q \in Preparer :
             \/ Prepares(q) \/ Stops(q)
             \/ \E m \in Model : May(q, m) /\ ImportersRest /\ Prepare(q, m)
       \/ /\ rivals = 1 /\ PreparersRest
          /\ ElsewhereToo \/ \E p \in Importer : OpensBatch(p) \/ Imports(p)
    /\ UNCHANGED rivals

MCSpec ==
    /\ MCInit /\ [][MCNext]_<<campaign, rivals>>
    /\ \A q \in Preparer : WF_campaign(Prepares(q))
    /\ \A p \in Importer : WF_campaign(Working(p) /\ UNCHANGED Rest)
=============================================================================
