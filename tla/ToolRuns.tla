------------------------------- MODULE ToolRuns -------------------------------
(***************************************************************************)
(* Experiments run as supervised processes: ExecutionAdapter               *)
(* (execution/adapters.py) calls the runner of runner/bridge.py, which     *)
(* calls ToolSupervisor.run (runner/supervisor.py).  The target runs       *)
(* beside the supervisor's polling loop; what it left is written to the    *)
(* evidence directory file by file, and runner/verification.py says        *)
(* whether a directory holds a run.  stderr goes the way of stdout.        *)
(***************************************************************************)
EXTENDS Integers, FiniteSets

CONSTANTS
    Nonce,          \* experiments, told apart by their execution nonce
    OutputLimit,    \* max_output_bytes
    TimeLimit,      \* timeout_seconds
    MaxOutput,      \* bound on what a target writes
    MaxDeaths       \* bound on the deaths of the calling process

VARIABLES
    call,       \* the execute_experiment in progress: [phase, nonce, status, ...]
    target,     \* the process: [state, code, out, child]; child: one it left running
    elapsed,    \* time since it was started, as the polling loop reads it
    evidence,   \* the evidence directory: [stdout, manifest, receipt]
    results,    \* _results_by_descriptor: the nonces that have a result
    deaths

toolVars == <<call, target, elapsed, evidence, results, deaths>>

NoCall == [phase |-> "idle"]
NoTarget == [state |-> "none", code |-> 125, out |-> 0, child |-> FALSE]
Absent == [of |-> "nothing"]

ToolInit ==
    /\ call = NoCall /\ target = NoTarget /\ elapsed = 0
    /\ evidence = [stdout |-> Absent, manifest |-> Absent, receipt |-> Absent]
    /\ results = {} /\ deaths = 0

Phase(ph) == call.phase = ph
Goes(ph) == call' = [call EXCEPT !.phase = ph]

\* execute_experiment: a nonce that has a result is answered with it and nothing
\* is run; otherwise the descriptor is registered and the runner called.
Execute(n) ==
    /\ call = NoCall /\ n \notin results
    /\ call' = [phase |-> "validate", nonce |-> n, status |-> "EXECUTION_ERROR",
                why |-> "none", digest |-> -1]
    /\ UNCHANGED <<target, elapsed, evidence, results, deaths>>

\* validate_run_spec refuses: nothing is started and nothing written.
Refused ==
    /\ Phase("validate")
    /\ call' = [call EXCEPT !.phase = "return", !.status = "BLOCKED"]
    /\ UNCHANGED <<target, elapsed, evidence, results, deaths>>

\* The source is copied and the target started, in a process group of its own.
Start ==
    /\ Phase("validate")
    /\ Goes("poll")
    /\ target' = [NoTarget EXCEPT !.state = "running", !.code = 0]
    /\ elapsed' = 0
    /\ UNCHANGED <<evidence, results, deaths>>

\* Copying, or starting it, fails.
StartFails ==
    /\ Phase("validate")
    /\ Goes("cleanup")
    /\ UNCHANGED <<target, elapsed, evidence, results, deaths>>

-----------------------------------------------------------------------------

\* The target, beside the supervisor.  A process it left behind goes on writing,
\* which matters until its output is kept.
TargetWrites ==
    /\ call.phase \in {"poll", "kill", "exited", "stdout"}
    /\ target.state = "running" \/ target.child
    /\ target.out < MaxOutput
    /\ target' = [target EXCEPT !.out = @ + 1]
    /\ UNCHANGED <<call, elapsed, evidence, results, deaths>>

TargetExits ==
    /\ target.state = "running"
    /\ \E code \in 0..1, child \in BOOLEAN :
          target' = [target EXCEPT !.state = "exited", !.code = code, !.child = child]
    /\ UNCHANGED <<call, elapsed, evidence, results, deaths>>

TimePasses ==
    /\ Phase("poll") /\ elapsed <= TimeLimit
    /\ elapsed' = elapsed + 1
    /\ UNCHANGED <<call, target, evidence, results, deaths>>

\* Faulty variant: the time is looked at only when the output has grown.
PollOnOutput ==
    /\ Phase("poll")
    /\ IF target.state # "running" THEN Goes("exited")
       ELSE /\ target.out > OutputLimit
            /\ call' = [call EXCEPT !.phase = "kill", !.status = "OUTPUT_LIMIT",
                                    !.why = "output"]
    /\ UNCHANGED <<target, elapsed, evidence, results, deaths>>

\* One round of the polling loop: the process, then its output, then the time.
Poll ==
    /\ Phase("poll")
    /\ IF target.state # "running" THEN Goes("exited")
       ELSE IF target.out > OutputLimit
       THEN call' = [call EXCEPT !.phase = "kill", !.status = "OUTPUT_LIMIT",
                                 !.why = "output"]
       ELSE /\ elapsed > TimeLimit
            /\ call' = [call EXCEPT !.phase = "kill", !.status = "TIMEOUT",
                                    !.why = "time"]
    /\ UNCHANGED <<target, elapsed, evidence, results, deaths>>

\* _terminate_tree: the group is killed unless the target ended meanwhile, in
\* which case what it left running stays.
Kill ==
    /\ Phase("kill")
    /\ Goes("exited")
    /\ target' = IF target.state = "running"
                 THEN [target EXCEPT !.state = "killed", !.code = -9] ELSE target
    /\ UNCHANGED <<elapsed, evidence, results, deaths>>

\* The exit code decides only if the loop did not; then the output is digested.
Exited ==
    /\ Phase("exited")
    /\ call' = [call EXCEPT !.phase = "stdout", !.digest = target.out,
                  !.status = IF call.why # "none" THEN @
                             ELSE IF target.code = 0 THEN "SUCCESS" ELSE "TARGET_NONZERO"]
    /\ elapsed' = 0
    /\ UNCHANGED <<target, evidence, results, deaths>>

\* stdout.bin is read again for its copy, then the manifest is written.
KeepStdout ==
    /\ Phase("stdout")
    /\ evidence' = [evidence EXCEPT !.stdout = [of |-> "run", out |-> target.out]]
    /\ Goes("manifest")
    /\ target' = [target EXCEPT !.out = 0, !.code = 0]
    /\ UNCHANGED <<elapsed, results, deaths>>

KeepManifest ==
    /\ Phase("manifest")
    /\ evidence' = [evidence EXCEPT !.manifest = [of |-> "run", id |-> call.nonce]]
    /\ Goes("cleanup")
    /\ UNCHANGED <<target, elapsed, results, deaths>>

\* Writing a file fails: the run is an error, with what was written before.
KeepFails ==
    /\ Phase("stdout") \/ Phase("manifest")
    /\ call' = [call EXCEPT !.phase = "cleanup", !.status = "EXECUTION_ERROR"]
    /\ UNCHANGED <<target, elapsed, evidence, results, deaths>>

\* The working copy is removed, or cannot be.
CleanUp ==
    /\ Phase("cleanup")
    /\ \/ Goes("receipt")
       \/ call' = [call EXCEPT !.phase = "receipt", !.status = "CLEANUP_FAILED"]
    /\ UNCHANGED <<target, elapsed, evidence, results, deaths>>

Receipt == [of |-> "run", id |-> call.nonce, digest |-> call.digest]
NoFiles == evidence.stdout = Absent /\ evidence.manifest = Absent

\* Faulty variant: a receipt that is there is taken for the run's own.
KeepReceiptOnce ==
    /\ Phase("receipt")
    /\ evidence' = IF NoFiles \/ evidence.receipt # Absent THEN evidence
                   ELSE [evidence EXCEPT !.receipt = Receipt]
    /\ Goes("return")
    /\ UNCHANGED <<target, elapsed, results, deaths>>

\* The receipt is written if the directory holds any file, also an older one.
KeepReceipt ==
    /\ Phase("receipt")
    /\ evidence' = IF NoFiles THEN evidence ELSE [evidence EXCEPT !.receipt = Receipt]
    /\ Goes("return")
    /\ UNCHANGED <<target, elapsed, results, deaths>>

\* The normalizer is called on a target that ended.
Observed(status) == status \in {"SUCCESS", "TARGET_NONZERO"}

\* The runner's output becomes the result of the descriptor.
Return ==
    /\ Phase("return")
    /\ results' = results \union {call.nonce}
    /\ call' = NoCall /\ target' = NoTarget
    /\ UNCHANGED <<elapsed, evidence, deaths>>

\* The calling process dies; the results are in its memory only.
CallerDies ==
    /\ call # NoCall /\ deaths < MaxDeaths
    /\ deaths' = deaths + 1
    /\ call' = NoCall /\ target' = NoTarget /\ elapsed' = 0 /\ results' = {}
    /\ UNCHANGED evidence

Supervising ==
    \/ Refused \/ Start \/ StartFails \/ Poll \/ Kill \/ Exited \/ KeepStdout
    \/ KeepManifest \/ KeepFails \/ CleanUp \/ KeepReceipt \/ Return

ToolNext ==
    \/ \E n \in Nonce : Execute(n)
    \/ Supervising \/ TimePasses \/ TargetWrites \/ TargetExits \/ CallerDies

ToolSpec == ToolInit /\ [][ToolNext]_toolVars

-----------------------------------------------------------------------------

\* verify_run_evidence answers PASS.
Verified ==
    /\ evidence.stdout # Absent /\ evidence.manifest # Absent
    /\ evidence.receipt # Absent
    /\ evidence.receipt.digest = evidence.stdout.out
    /\ evidence.manifest.id = evidence.receipt.id

ToolTypeOK ==
    /\ results \subseteq Nonce
    /\ target.state \in {"none", "running", "exited", "killed"}
    /\ elapsed \in 0..(TimeLimit + 1)
    /\ target.out \in 0..MaxOutput

\* Observations come only from a target that ended by itself, never from one that
\* was stopped for its time or its output, lost the race with the stop, could not
\* be started or could not be cleaned up (bridge.py:26-33); and the evidence of
\* such a run is accepted when it is over, whatever earlier runs that were cut off
\* left in the same directory, unless the target left a process behind that wrote
\* between the digest and the copy.
ObservedRunsAreReal ==
    (Phase("return") /\ Observed(call.status)) =>
        /\ target.state = "exited"
        /\ target.child \/ Verified

\* Every experiment is answered, whatever its target does: the polling loop does
\* not depend on the target to end it.
RunsReturn == (call # NoCall) ~> (call = NoCall)
=============================================================================
