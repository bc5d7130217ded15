------------------------------ MODULE HistoryRules ------------------------------
(***************************************************************************)
(* What the canonical history accepts (history/store.py, history/closure.py)*)
(* as operators on a log of commits, shared by the abstract history and by *)
(* the transactional store that implements it.                             *)
(*                                                                         *)
(* Digests are modelled by what they determine.  A commit hash covers the  *)
(* whole commit body and, through prev_history_ref, every earlier one: it  *)
(* is the sequence of the jobs committed so far, so that equal hashes mean *)
(* equal histories and a head knows its sequence number.  The digest of a  *)
(* command envelope covers the identity, kind, context, payload and parent *)
(* head of the command, and not the objects presented with it.             *)
(***************************************************************************)
EXTENDS LifecycleRules, SequencesExt

CONSTANTS
    Obj,         \* names of canonical objects
    Job,         \* what callers ask the history to accept
    Detail,      \* [Job -> JobDetail]: the command and objects of each job
    Shape,       \* [Obj -> ObjShape]: the class and references of each object
    BootstrapClosure,   \* objects the initializing command must carry
    BootstrapContext    \* context pinned by the installation profile

Kinds == {"INITIALIZE", "INGEST", "RECORD"}

\* "bound"  an object whose history_cut must be the exact input head
\* "result" a lane result, whose cut is the one its assignment was given
\* "evidence" a lane result admission evidence, with the same exception
\* "plain"  an object without a history_cut
Classes == {"plain", "bound", "result", "evidence"}

\* The classes whose cut was fixed when the lane was handed out.
Delivered == {"result", "evidence"}

ObjShape == [class   : Classes,
             content : SUBSET Obj,   \* CONTENT_OBJECT references
             either  : SUBSET Obj,   \* CONTENT_OR_PRIOR references
             prior   : SUBSET Obj]   \* PRIOR_ACCEPTED_ONLY references

EMPTY_HISTORY == << >>
ForeignCut    == <<"cut of another history">>
NoCut         == <<"no history_cut field">>

AcceptedHead == Seq(Job)
Cut == AcceptedHead \cup {ForeignCut, NoCut}

\* A request to accept(): the job, the head its command expects as parent, and
\* the cut the caller read earlier and wrote into the objects it built.
Request == [job : Job, parent : AcceptedHead, cut : AcceptedHead]

Envelope(r) == [id     |-> Detail[r.job].id,
                kind   |-> Detail[r.job].kind,
                ctx    |-> Detail[r.job].ctx,
                load   |-> Detail[r.job].load,
                parent |-> r.parent]

\* The cut a delivered lane result claims: the accepted head of sequence number
\* Detail[j].claim, or a cut of some other history (claim 0).
ClaimedCut(r) ==
    IF Detail[r.job].claim \in 1..Len(r.parent)
    THEN SubSeq(r.parent, 1, Detail[r.job].claim)
    ELSE ForeignCut

CutOf(o, r) ==
    IF Shape[o].class = "plain" THEN NoCut
    ELSE IF Shape[o].class = "bound" THEN r.cut
    ELSE ClaimedCut(r)

\* The rows of immutable_objects a request inserts: identity and cut of each.
Rows(r) == {[name |-> o, cut |-> CutOf(o, r)] : o \in Detail[r.job].objs}

CommitOf(r, head) ==
    [command |-> Envelope(r),
     prev    |-> head,
     hash    |-> Append(head, r.job),
     rows    |-> Rows(r),
     facts   |-> Detail[r.job].facts]

-----------------------------------------------------------------------------
\* Derived from a log of commits.

HeadOf(log)   == IF log = << >> THEN EMPTY_HISTORY ELSE log[Len(log)].hash
RowsOf(log)   == UNION {log[n].rows : n \in DOMAIN log}
NamesOf(rows) == {row.name : row \in rows}
FactsOf(log)  == FoldLeft(LAMBDA acc, c : acc \o c.facts, << >>, log)
CommandIds(log) == {log[n].command.id : n \in DOMAIN log}

\* A cut names exactly one accepted head of this history: the commit chain up
\* to its sequence number hashes to it.
GenuineCut(cut, log) == \E n \in DOMAIN log : cut = log[n].hash

-----------------------------------------------------------------------------
\* The checks of accept(), in the order the transaction makes them, for a
\* request r against the head, the commits and the object rows it reads.

\* Faulty variant: a record of the same commit counts as accepted before.
PriorInSameClosure(r, log) ==
    \A o \in Detail[r.job].objs :
        Shape[o].prior \subseteq (NamesOf(RowsOf(log)) \cup Detail[r.job].objs)

\* _expected and the COMMAND_BINDING_CONFLICT check: compare and set.
ParentIsHead(r, head) == r.parent = head

\* _validate_semantic_authority: the context is the one in force at the parent
\* (or pinned by the profile), never an object of the same commit.
ContextInForce(r, log) ==
    /\ Detail[r.job].ctx \notin Detail[r.job].objs
    /\ Detail[r.job].ctx = IF log = << >> THEN BootstrapContext
                           ELSE log[Len(log)].command.ctx

\* INITIALIZE exactly at sequence number 1, with the bootstrap closure.
InitializeOnlyOnce(r, head) ==
    /\ (Detail[r.job].kind = "INITIALIZE") <=> (head = EMPTY_HISTORY)
    /\ head = EMPTY_HISTORY => BootstrapClosure \subseteq Detail[r.job].objs

\* Admission evidence only by INGEST_EXTERNAL_LANE_RESULT, and nothing else by it.
EvidenceByIngestOnly(r) ==
    LET evidence == {o \in Detail[r.job].objs : Shape[o].class = "evidence"}
    IN  /\ evidence # {} => Detail[r.job].kind = "INGEST"
        /\ Detail[r.job].kind = "INGEST" => Detail[r.job].objs = evidence

\* _validate_history_cuts.
CutsBind(r, head, log) ==
    \A row \in Rows(r) :
        \/ Shape[row.name].class = "plain"
        \/ row.cut = head
        \/ /\ Shape[row.name].class \in Delivered
           /\ head # EMPTY_HISTORY
           /\ GenuineCut(row.cut, log)

\* _validate_content_refs and typed_dependencies: targets in the closure or,
\* for CONTENT_OR_PRIOR, any persisted row.
ContentResolves(r, rows) ==
    \A o \in Detail[r.job].objs :
        /\ Shape[o].content \subseteq Detail[r.job].objs
        /\ Shape[o].either \subseteq (Detail[r.job].objs \cup NamesOf(rows))

\* _validate_prior_accepted_membership and _prior_accepted_refs: targets in the
\* closure of an earlier commit and never in this one.
PriorIsAccepted(r, log) ==
    \A o \in Detail[r.job].objs :
        /\ Shape[o].prior \cap Detail[r.job].objs = {}
        /\ Shape[o].prior \subseteq NamesOf(RowsOf(log))

FactsProject(r, log) == ProjectionAccepts(FactsOf(log) \o Detail[r.job].facts)

Admissible(r, head, log, rows) ==
    /\ ParentIsHead(r, head)
    /\ ContextInForce(r, log)
    /\ InitializeOnlyOnce(r, head)
    /\ EvidenceByIngestOnly(r)
    /\ CutsBind(r, head, log)
    /\ ContentResolves(r, rows)
    /\ PriorIsAccepted(r, log)
    /\ FactsProject(r, log)

-----------------------------------------------------------------------------
\* Types.

EnvelopeType == [id : STRING, kind : Kinds, ctx : STRING, load : STRING,
                 parent : AcceptedHead]
RowType      == [name : Obj, cut : Cut]
CommitType   == [command : EnvelopeType, prev : AcceptedHead, hash : AcceptedHead,
                 rows : SUBSET RowType, facts : Seq(Fact)]
ReceiptType  == [command : EnvelopeType, head : AcceptedHead]

Receipt(c) == [command |-> c.command, head |-> c.hash]

JobDetail == [id : STRING, kind : Kinds, ctx : STRING, load : STRING,
              objs : SUBSET Obj, claim : Nat, facts : Seq(Fact)]

ASSUME HistoryAssumption ==
    /\ Detail \in [Job -> JobDetail]
    /\ Shape \in [Obj -> ObjShape]
    /\ BootstrapClosure \subseteq Obj
=============================================================================
