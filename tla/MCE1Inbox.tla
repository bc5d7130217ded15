------------------------------- MODULE MCE1Inbox -------------------------------
(* Small instances of E1Inbox: one lane and the archives offered for it.      *)
EXTENDS E1Inbox

OneByOne == {<<z>> : z \in Zip}

\* One lane, for the races on one assignment and on the completion of the stage.
MCOneLaneSlotOf == [a1 |-> "A", a2 |-> "A"]
MCOneZipSlotOf  == [a1 |-> "A"]

\* Others record something only where no two importers race.
Apart ==
    (\E n \in DOMAIN log : log[n] = OtherCommit)
    => \E p \in Importer : \A q \in Importer \ {p} : imp[q].pc = "closed"

MCFairSpec ==
    /\ Init /\ [][Next /\ Apart']_vars
    /\ \A p \in Importer : WF_vars(Working(p))
=============================================================================
