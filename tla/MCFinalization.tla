----------------------------- MODULE MCFinalization -----------------------------
(***************************************************************************)
(* Small instances of Finalization: calls of every kind by one operator at *)
(* a time, and calls alike by several at once.                             *)
(***************************************************************************)
EXTENDS Finalization

CONSTANT Regimes    \* "one by one", "at once"

VARIABLE regime

\* At once all ask for the derived termination with one statement, of one STOP.
Alike ==
    /\ \A p \in Operator : op[p].wish \in {NoWish, "DERIVED"} /\ op[p].statement \in {NoWish, "s"}
    /\ Cardinality(At("stop", HeadSeq)) <= 1

MCInit == Init /\ regime \in Regimes

\* One by one the first operator does everything.
First == CHOOSE p \in Operator : TRUE

MCNext ==
    /\ Next
    /\ regime = "one by one" => \A p \in Operator \ {First} : op'[p] = op[p]
    /\ regime = "at once" => Alike'
    /\ UNCHANGED regime

MCSpec == MCInit /\ [][MCNext]_<<vars, regime>> /\ \A p \in Operator : WF_vars(Working(p))

\* Calls that ask for other things than the call they repeat are refused.
RepeatedCallsComplete == regime = "at once" => ResumeCompletes
=============================================================================
