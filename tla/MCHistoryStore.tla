----------------------------- MODULE MCHistoryStore -----------------------------
(***************************************************************************)
(* A small campaign for the store: genesis, a specification, a run bound to*)
(* its input cut, the two commits that admit a delivered lane result, and  *)
(* the requests the store has to refuse.                                   *)
(***************************************************************************)
EXTENDS HistoryStore

MCId == {"e1"}

Refs(class, content, either, prior) ==
    [class |-> class, content |-> content, either |-> either, prior |-> prior]

MCObj == {"genesis", "spec", "run", "evidence", "result", "completion", "rival", "note"}

MCShape == [
    genesis    |-> Refs("plain", {}, {}, {}),
    spec       |-> Refs("plain", {}, {}, {"genesis"}),
    run        |-> Refs("bound", {}, {}, {"genesis"}),
    evidence   |-> Refs("evidence", {}, {}, {"run"}),
    result     |-> Refs("result", {}, {}, {"evidence"}),
    completion |-> Refs("bound", {"result"}, {"run"}, {}),
    rival      |-> Refs("plain", {}, {"spec"}, {"run"}),
    note       |-> Refs("plain", {}, {}, {}) ]

StageFact(from, to) ==
    << [aggregate |-> "stage", id |-> "e1", from |-> from, to |-> to, flag |-> "none"] >>

Asks(id, kind, ctx, load, objs, claim, facts) ==
    [id |-> id, kind |-> kind, ctx |-> ctx, load |-> load, objs |-> objs,
     claim |-> claim, facts |-> facts]

MCDetail == [
    init    |-> Asks("c0", "INITIALIZE", "pinned", "", {"genesis"}, 0, << >>),
    \* a second operator initializes the same database
    init2   |-> Asks("c9", "INITIALIZE", "pinned", "", {"genesis"}, 0, << >>),
    spec    |-> Asks("c1", "RECORD", "pinned", "", {"spec"}, 0, << >>),
    run     |-> Asks("c2", "RECORD", "pinned", "", {"run"}, 0, StageFact("PLANNED", "READY")),
    admit   |-> Asks("c3", "INGEST", "pinned", "", {"evidence"}, 2, << >>),
    record  |-> Asks("c4", "RECORD", "pinned", "", {"result", "completion"}, 2, << >>),
    \* same command identity as "spec", other payload
    reuse   |-> Asks("c1", "RECORD", "pinned", "other", {"rival"}, 0, << >>),
    \* a fact another operator may record at any time
    note    |-> Asks("c8", "RECORD", "pinned", "", {"note"}, 0, << >>),
    \* the same, with a lifecycle fact that must follow the one of "run"
    starts  |-> Asks("c10", "RECORD", "pinned", "", {"note"}, 0, StageFact("READY", "RUNNING")),
    \* the run and an object that takes it as already accepted, in one commit
    oneshot |-> Asks("c5", "RECORD", "pinned", "", {"run", "rival"}, 0, << >>),
    \* a result carrying a cut of another history
    foreign |-> Asks("c6", "INGEST", "pinned", "", {"evidence"}, 0, << >>),
    \* a command under a policy nobody accepted
    drift   |-> Asks("c7", "RECORD", "other policy", "", {"spec"}, 0, << >>) ]

CONSTANT Regimes    \* "one", "two"

VARIABLE regime

\* One process, which lives, may ask everything, to see each rule of the store
\* decide; two processes race for three jobs, and may die.
RacingJobs == {"init", "run", "note"}

AllJobs == DOMAIN MCDetail

First == CHOOSE p \in Process : TRUE

MCInit == Init /\ regime \in Regimes

MCNext ==
    /\ Next
    /\ regime = "one" =>
         \A p \in Process : /\ req'[p].job # "note" /\ pc'[p] # "crashed"
                            /\ p # First => req'[p] = NoRequest
    /\ regime = "two" => \A p \in Process : req'[p].job \in RacingJobs \cup {NoRequest.job}
    /\ UNCHANGED regime

MCSpec == MCInit /\ [][MCNext]_<<vars, regime>> /\ \A p \in Process : WF_vars(Accepting(p))
=============================================================================
