----------------------------- MODULE E1InboxProofs -----------------------------
(***************************************************************************)
(* Theorems about the E1 inbox, alone and in a campaign that is prepared   *)
(* beside it, for every set of importers, preparers, lanes and archives.   *)
(* With any number of importers, what an inbox reports or remembers is in  *)
(* the history, and E1 is completed at most once by each: none sets out to *)
(* once it is complete.  With one importer, and whatever other operators   *)
(* record and wherever it dies, no lane gets two results and E1 is         *)
(* completed once.  A preparation that returned leaves a                   *)
(* campaign that resumes, unless preparers with different settings raced.  *)
(***************************************************************************)
EXTENDS E1Campaign, FiniteSetTheorems, TLAPS

USE InboxAssumption

-----------------------------------------------------------------------------
\* The parts of the invariant, as predicates on a log l and an inbox r.

ResultOf(l, z) == \E n \in DOMAIN l : l[n].kind = "result" /\ l[n].zip = z

HasResult(l, s) == \E n \in DOMAIN l : l[n].kind = "result" /\ SlotOf[l[n].zip] = s

HasCompletion(l) == \E n \in DOMAIN l : l[n].kind = "completion"

\* What an inbox has reported, remembers, or is about to report is in the log.
Backed(l, r) ==
    /\ r.pc \in Ingesting => r.queue # << >>
    /\ r.pc = "reload" => ResultOf(l, Head(r.queue))
    /\ r.report.status = "ACCEPTED" => r.report.zip \in Zip /\ ResultOf(l, r.report.zip)
    /\ \A s \in r.known : HasResult(l, s)
    /\ r.done => HasCompletion(l)

Proper(l, r) == r \in Inbox /\ Backed(l, r)

IInv == TypeOK /\ \A p \in Importer : Backed(log, imp[p])

-----------------------------------------------------------------------------
\* What the reads of the history amount to.

\* A log with one commit more.
LEMMA AppendTyped ==
    ASSUME NEW l \in Seq(Commit), NEW c \in Commit
    PROVE  /\ Append(l, c) \in Seq(Commit)
           /\ Len(l) \in Nat
           /\ DOMAIN l = 1..Len(l)
           /\ Len(Append(l, c)) = Len(l) + 1
           /\ DOMAIN Append(l, c) = DOMAIN l \cup {Len(l) + 1}
           /\ \A n \in DOMAIN l : Append(l, c)[n] = l[n]
           /\ Append(l, c)[Len(l) + 1] = c
  OBVIOUS

\* The reads at the head find exactly what the log holds.
LEMMA ReadsFind ==
    ASSUME log \in Seq(Commit)
    PROVE  /\ \A s : ResultsAt(Len(log), s) # {} <=> HasResult(log, s)
           /\ \A z \in Zip : z \in ResultsAt(Len(log), SlotOf[z]) <=> ResultOf(log, z)
           /\ CompletionsAt(Len(log)) # {} <=> HasCompletion(log)
<1>1. DOMAIN log = 1..Len(log)
  OBVIOUS
<1>2. \A s : ResultsAt(Len(log), s) # {} <=> HasResult(log, s)
  BY <1>1 DEF ResultsAt, HasResult
<1>3. \A z \in Zip : z \in ResultsAt(Len(log), SlotOf[z]) <=> ResultOf(log, z)
  BY <1>1 DEF ResultsAt, ResultOf
<1>4. CompletionsAt(Len(log)) # {} <=> HasCompletion(log)
  BY <1>1 DEF CompletionsAt, HasCompletion
<1> QED BY <1>2, <1>3, <1>4

\* The history only grows.
LEMMA AppendKeepsBacked ==
    ASSUME NEW l \in Seq(Commit), NEW c \in Commit, NEW r, Backed(l, r)
    PROVE  Backed(Append(l, c), r)
<1> DEFINE k == Append(l, c)
<1>1. /\ DOMAIN k = DOMAIN l \cup {Len(l) + 1}
      /\ \A i \in DOMAIN l : k[i] = l[i]
  BY AppendTyped
<1> HIDE DEF k
<1> SUFFICES Backed(k, r)
  BY DEF k
<1>2. \A z : ResultOf(l, z) => ResultOf(k, z)
  BY <1>1 DEF ResultOf
<1>3. \A s : HasResult(l, s) => HasResult(k, s)
  <2> SUFFICES ASSUME NEW s, NEW n \in DOMAIN l,
                      l[n].kind = "result", SlotOf[l[n].zip] = s
               PROVE  HasResult(k, s)
    BY DEF HasResult
  <2>1. n \in DOMAIN k /\ k[n] = l[n]
    BY <1>1
  <2> QED BY <2>1 DEF HasResult
<1>4. HasCompletion(l) => HasCompletion(k)
  BY <1>1 DEF HasCompletion
<1> QED BY <1>2, <1>3, <1>4 DEF Backed

-----------------------------------------------------------------------------
\* What the pieces of a step do to an inbox.

\* A closed inbox claims nothing.
LEMMA ClosedProper == \A l : Proper(l, ClosedInbox)
<1>1. << >> \in Seq(Zip)
  OBVIOUS
<1>2. ClosedInbox \in Inbox
  BY <1>1 DEF ClosedInbox, Inbox, NoReport, NoZip, NoCut
<1>3. \A l : Backed(l, ClosedInbox)
  BY DEF Backed, ClosedInbox, NoReport, Ingesting
<1> QED BY <1>2, <1>3 DEF Proper

\* Between two calls, or at the steps of a call that handle no archive.
Outside == {"idle", "take", "open", "summary", "finalize", "settle", "completion"}

\* Going to another step keeps what an inbox claims, if the step's own claim holds.
LEMMA ToProper ==
    ASSUME NEW l, NEW r, NEW pc, Proper(l, r),
           \/ pc \in Outside
           \/ pc \in Ingesting \ {"reload"} /\ r.queue # << >>
           \/ pc = "reload" /\ r.queue # << >> /\ ResultOf(l, Head(r.queue))
    PROVE  Proper(l, To(r, pc))
  BY DEF Proper, Backed, Inbox, To, Outside, Ingesting, CutReads, Sends

\* Remembering a cut changes no claim.
LEMMA CutProper ==
    ASSUME NEW l, NEW r, NEW cut \in Nat, Proper(l, r)
    PROVE  Proper(l, [r EXCEPT !.cut = cut])
  BY DEF Proper, Backed, Inbox

\* Reading a head changes no claim.
LEMMA HeadProper ==
    ASSUME NEW l, NEW r, NEW h \in Nat, Proper(l, r)
    PROVE  Proper(l, [r EXCEPT !.head = h])
  BY DEF Proper, Backed, Inbox

\* Deciding an archive is proper when ACCEPTED is said of one with a result.
LEMMA DecidedProper ==
    ASSUME NEW l, NEW r, Proper(l, r), r.queue # << >>, NEW status,
           \/ status = "REJECTED"
           \/ status = "ACCEPTED" /\ ResultOf(l, Head(r.queue))
    PROVE  Proper(l, Decided(r, status))
<1>1. r \in Inbox /\ Backed(l, r)
  BY DEF Proper
<1>2. Head(r.queue) \in Zip /\ Tail(r.queue) \in Seq(Zip)
  BY <1>1 DEF Inbox
<1>3. Decided(r, status) \in Inbox
  BY <1>1, <1>2 DEF Inbox, Decided, NoCut
<1>4. Backed(l, Decided(r, status))
  BY <1>1, <1>2 DEF Backed, Inbox, Decided, Ingesting
<1> QED BY <1>3, <1>4 DEF Proper

\* An exception, reported or raised, claims nothing new.
LEMMA FailedProper ==
    ASSUME NEW l, NEW r, Proper(l, r)
    PROVE  Proper(l, Failed(r))
<1>1. CASE r.pc \in Ingesting
  BY <1>1, DecidedProper DEF Failed, Proper, Backed
<1>2. CASE r.pc \notin Ingesting /\ r.pc = "open"
  BY <1>2, ClosedProper DEF Failed
<1>3. CASE r.pc \notin Ingesting /\ r.pc # "open"
  BY <1>3, CutProper, ToProper DEF Failed, NoCut, Outside
<1> QED BY <1>1, <1>2, <1>3

\* What is loaded from the history is in the history.
LEMMA LoadedProper ==
    ASSUME IInv, NEW r, Proper(log, r), r.head = Len(log)
    PROVE  /\ Proper(log, Loaded(r))
           /\ Loaded(r).queue = r.queue /\ Loaded(r).pc = r.pc
<1>1. log \in Seq(Commit)
  BY DEF IInv, TypeOK
<1>2. Loaded(r) \in Inbox
  BY DEF Proper, Inbox, Loaded
<1>3. Backed(log, Loaded(r))
  BY <1>1, ReadsFind DEF Proper, Backed, Inbox, Loaded
<1>4. Loaded(r).queue = r.queue /\ Loaded(r).pc = r.pc
  BY DEF Proper, Inbox, Loaded
<1> QED BY <1>2, <1>3, <1>4 DEF Proper

\* A step that only reads keeps the invariant if the inbox it leaves is proper.
LEMMA ReadKeepsInv ==
    ASSUME IInv, NEW p \in Importer, NEW r, Becomes(p, r), log' = log, Proper(log, r)
    PROVE  IInv'
  BY DEF IInv, TypeOK, Becomes, Proper

\* So does one commit, since the claims of the others survive it.
LEMMA CommitKeepsInv ==
    ASSUME IInv, NEW c \in Commit, log' = Append(log, c),
           imp' \in [Importer -> Inbox],
           \A q \in Importer : imp'[q] = imp[q] \/ Proper(Append(log, c), imp'[q])
    PROVE  IInv'
<1> DEFINE k == Append(log, c)
<1>1. log \in Seq(Commit) /\ k \in Seq(Commit)
  BY AppendTyped DEF IInv, TypeOK
<1>2. \A q \in Importer : Backed(k, imp[q])
  BY <1>1, AppendKeepsBacked DEF IInv
<1> HIDE DEF k
<1>3. \A q \in Importer : Backed(k, imp'[q])
  BY <1>2 DEF k, Proper
<1> QED BY <1>1, <1>3 DEF IInv, TypeOK, k

\* What the invariant says of one inbox, unfolded.
LEMMA InboxFacts ==
    ASSUME IInv, NEW p \in Importer
    PROVE  /\ log \in Seq(Commit) /\ Len(log) \in Nat /\ DOMAIN log = 1..Len(log)
           /\ imp \in [Importer -> Inbox] /\ imp[p] \in Inbox /\ Proper(log, imp[p])
           /\ imp[p].pc \in Ingesting => /\ imp[p].queue # << >>
                                         /\ Head(imp[p].queue) \in Zip
<1>1. log \in Seq(Commit) /\ imp \in [Importer -> Inbox] /\ Backed(log, imp[p])
  BY DEF IInv, TypeOK
<1>2. imp[p].pc \in Ingesting => imp[p].queue # << >> /\ imp[p].queue \in Seq(Zip)
  BY <1>1 DEF Backed, Inbox
<1> QED BY <1>1, <1>2 DEF Proper

-----------------------------------------------------------------------------
\* Steps that only read.

\* Every step that leaves the log alone keeps the invariant.
LEMMA ReadStepInv ==
    ASSUME IInv, NEW p \in Importer,
           \/ ReadHead(p) \/ CutLost(p) \/ Open(p) \/ Opened(p) \/ Take(p)
           \/ FindAssignment(p) \/ Look(p, "look") \/ Look(p, "recheck") \/ Begin(p)
           \/ EvidenceAdmitted(p) \/ Reload(p) \/ Summary(p) \/ Finalize(p) \/ Settle(p)
           \/ Unavailable(p) \/ Crash(p) \/ \E batch \in Batches : Import(p, batch)
    PROVE  IInv'
<1> DEFINE r == imp[p]
<1>1. /\ log \in Seq(Commit) /\ Len(log) \in Nat /\ DOMAIN log = 1..Len(log)
      /\ r \in Inbox /\ Proper(log, r)
      /\ r.pc \in Ingesting => r.queue # << >> /\ Head(r.queue) \in Zip
  BY InboxFacts
<1>2. r.queue \in Seq(Zip) /\ r.head \in Nat
  BY <1>1 DEF Inbox
<1>3. Proper(log, Failed(r))
  BY <1>1, FailedProper
<1> SUFFICES log' = log /\ \E s : Becomes(p, s) /\ Proper(log, s)
  BY ReadKeepsInv
<1>4. ASSUME ReadHead(p) PROVE log' = log /\ \E s : Becomes(p, s) /\ Proper(log, s)
  BY <1>1, <1>4, HeadProper DEF ReadHead
<1>5. ASSUME CutLost(p) \/ Unavailable(p)
      PROVE  log' = log /\ \E s : Becomes(p, s) /\ Proper(log, s)
  BY <1>3, <1>5 DEF CutLost, Unavailable
<1>6. ASSUME Crash(p) PROVE log' = log /\ \E s : Becomes(p, s) /\ Proper(log, s)
  BY <1>6, ClosedProper DEF Crash
<1>7. ASSUME Open(p) PROVE log' = log /\ \E s : Becomes(p, s) /\ Proper(log, s)
  BY <1>1, <1>7, ToProper DEF Open, Outside
<1>8. ASSUME Opened(p) PROVE log' = log /\ \E s : Becomes(p, s) /\ Proper(log, s)
  <2>1. Proper(log, Loaded(r))
    BY <1>1, <1>8, LoadedProper DEF Opened, AtCut
  <2>2. Proper(log, To(Loaded(r), "idle"))
    BY <2>1, ToProper DEF Outside
  <2> QED BY <1>3, <1>8, <2>2 DEF Opened, AtCut
<1>9. ASSUME Take(p) PROVE log' = log /\ \E s : Becomes(p, s) /\ Proper(log, s)
  <2>1. CASE r.queue = << >>
    BY <1>1, <1>9, <2>1, ToProper DEF Take, Outside
  <2>2. CASE r.queue # << >> /\ Head(r.queue) \in Malformed
    BY <1>1, <1>9, <2>2, DecidedProper DEF Take
  <2>3. CASE r.queue # << >> /\ Head(r.queue) \notin Malformed
    <3>1. Proper(log, To(r, "assignment"))
      BY <1>1, <2>3, ToProper DEF Ingesting
    <3>2. Proper(log, [To(r, "assignment") EXCEPT !.report = NoReport])
      BY <3>1 DEF Proper, Backed, Inbox, NoReport
    <3> QED BY <1>9, <2>3, <3>2 DEF Take
  <2> QED BY <2>1, <2>2, <2>3
<1>10. ASSUME FindAssignment(p)
       PROVE  log' = log /\ \E s : Becomes(p, s) /\ Proper(log, s)
  BY <1>1, <1>10, ToProper DEF FindAssignment, AtCut, Ingesting
<1>11. ASSUME NEW pc \in {"look", "recheck"}, Look(p, pc)
       PROVE  log' = log /\ \E s : Becomes(p, s) /\ Proper(log, s)
  <2> DEFINE z == Head(r.queue)
             found == ResultsAt(r.head, SlotOf[z])
  <2>1. /\ r.pc = pc /\ r.head = Len(log) /\ log' = log
        /\ Becomes(p, IF found = {} THEN To(r, "begin")
                      ELSE IF found = {z} THEN To(r, "reload")
                      ELSE Decided(r, "REJECTED"))
    BY <1>11 DEF Look, AtCut
  <2>2. r.queue # << >> /\ z \in Zip
    BY <1>1, <2>1 DEF Ingesting
  <2>3. found = {z} => ResultOf(log, z)
    BY <1>1, <2>1, <2>2, ReadsFind
  <2>4. Proper(log, To(r, "begin")) /\ Proper(log, Decided(r, "REJECTED"))
    BY <1>1, <2>2, ToProper, DecidedProper DEF Ingesting
  <2>5. found = {z} => Proper(log, To(r, "reload"))
    BY <1>1, <2>2, <2>3, ToProper
  <2> HIDE DEF found
  <2> QED BY <2>1, <2>4, <2>5
<1>12. ASSUME Begin(p) PROVE log' = log /\ \E s : Becomes(p, s) /\ Proper(log, s)
  <2>1. r.pc = "begin" /\ r.queue # << >>
    BY <1>1, <1>12 DEF Begin, AtCut, Ingesting
  <2>2. Proper(log, To(r, "evidence")) /\ Proper(log, To(r, "result"))
    BY <1>1, <2>1, ToProper DEF Ingesting
  <2>3. Proper(log, [To(r, "result") EXCEPT !.cut = r.head])
    BY <1>2, <2>2, CutProper
  <2> QED BY <1>12, <2>2, <2>3 DEF Begin, AtCut
<1>13. ASSUME EvidenceAdmitted(p)
       PROVE  log' = log /\ \E s : Becomes(p, s) /\ Proper(log, s)
  <2>1. r.pc = "admitted" /\ r.queue # << >>
    BY <1>1, <1>13 DEF EvidenceAdmitted, AtCut, Ingesting
  <2>2. Proper(log, To(r, "result"))
    BY <1>1, <2>1, ToProper DEF Ingesting
  <2>3. Proper(log, [To(r, "result") EXCEPT !.cut = r.head])
    BY <1>2, <2>2, CutProper
  <2> QED BY <1>13, <2>3 DEF EvidenceAdmitted, AtCut
<1>14. ASSUME Reload(p) PROVE log' = log /\ \E s : Becomes(p, s) /\ Proper(log, s)
  <2>1. /\ r.pc = "reload" /\ r.head = Len(log) /\ r.queue # << >>
        /\ ResultOf(log, Head(r.queue))
    BY <1>1, <1>14 DEF Reload, AtCut, Ingesting, Proper, Backed
  <2>2. Proper(log, Loaded(r)) /\ Loaded(r).queue = r.queue
    BY <1>1, <2>1, LoadedProper
  <2>3. Proper(log, Decided(Loaded(r), "ACCEPTED"))
    BY <2>1, <2>2, DecidedProper
  <2> QED BY <1>3, <1>14, <2>3 DEF Reload, AtCut
<1>15. ASSUME Summary(p) PROVE log' = log /\ \E s : Becomes(p, s) /\ Proper(log, s)
  <2>1. Proper(log, Loaded(r))
    BY <1>1, <1>15, LoadedProper DEF Summary, AtCut
  <2>2. Proper(log, To(Loaded(r), "idle")) /\ Proper(log, To(Loaded(r), "finalize"))
    BY <2>1, ToProper DEF Outside
  <2> QED BY <1>3, <1>15, <2>2 DEF Summary, AtCut
<1>16. ASSUME Finalize(p) PROVE log' = log /\ \E s : Becomes(p, s) /\ Proper(log, s)
  <2>1. Proper(log, [To(r, "completion") EXCEPT !.cut = r.head])
    BY <1>1, <1>2, ToProper, CutProper DEF Outside
  <2> QED BY <1>3, <1>16, <2>1 DEF Finalize, AtCut
<1>17. ASSUME Settle(p) PROVE log' = log /\ \E s : Becomes(p, s) /\ Proper(log, s)
  <2>1. Proper(log, Loaded(r))
    BY <1>1, <1>17, LoadedProper DEF Settle, AtCut
  <2>2. Proper(log, To(Loaded(r), "idle")) /\ Proper(log, To(r, "idle"))
    BY <1>1, <2>1, ToProper DEF Outside
  <2> QED BY <1>17, <2>2 DEF Settle, AtCut
<1>18. ASSUME NEW batch \in Batches, Import(p, batch)
       PROVE  log' = log /\ \E s : Becomes(p, s) /\ Proper(log, s)
  <2>1. Proper(log, To(r, "take"))
    BY <1>1, ToProper DEF Outside
  <2>2. To(r, "take").pc = "take" /\ batch \in Seq(Zip)
    BY <1>1 DEF To, Inbox
  <2>3. Proper(log, [To(r, "take") EXCEPT !.queue = batch])
    BY <2>1, <2>2 DEF Proper, Backed, Inbox, Ingesting
  <2> QED BY <1>18, <2>3 DEF Import
<1> QED BY <1>4, <1>5, <1>6, <1>7, <1>8, <1>9, <1>10, <1>11, <1>12, <1>13, <1>14,
           <1>15, <1>16, <1>17, <1>18

-----------------------------------------------------------------------------
\* Steps that commit.

\* So does a commit of another operator.
LEMMA ElsewhereInv ==
    ASSUME IInv, Elsewhere
    PROVE  IInv'
<1>1. OtherCommit \in Commit
  BY DEF OtherCommit, Commit, NoCut
<1>2. log' = Append(log, OtherCommit) /\ imp' = imp
  BY DEF Elsewhere
<1>3. imp \in [Importer -> Inbox]
  BY DEF IInv, TypeOK
<1> QED BY <1>1, <1>2, <1>3, CommitKeepsInv

\* A command that succeeds is in the history that follows.
LEMMA SentIsThere ==
    ASSUME log \in Seq(Commit), NEW c \in Commit, NEW parent, Accepts(c, parent),
           Succeeds(c, parent), c.kind \in {"evidence", "result", "completion"}
    PROVE  \E n \in DOMAIN log' : log'[n].kind = c.kind /\ log'[n].zip = c.zip
<1>1. CASE Admitted(c, parent)
  <2>1. log' = Append(log, c)
    BY <1>1 DEF Accepts
  <2>2. Len(log) + 1 \in DOMAIN log' /\ log'[Len(log) + 1] = c
    BY <2>1, AppendTyped
  <2> QED BY <2>2
<1>2. CASE ~Admitted(c, parent)
  <2>1. log' = log /\ Replayed(c, parent)
    BY <1>2 DEF Accepts, Succeeds
  <2> QED BY <2>1 DEF Replayed, SameCommand
<1> QED BY <1>1, <1>2

\* A command of one inbox, which goes on as s: what it becomes is judged by the
\* history after the step.
LEMMA SentKeepsInv ==
    ASSUME IInv, NEW p \in Importer, NEW c \in Commit, NEW parent, NEW s,
           Accepts(c, parent), Becomes(p, s), Proper(log', s)
    PROVE  IInv'
<1>1. CASE Admitted(c, parent)
  <2>1. /\ log' = Append(log, c) /\ imp' = [imp EXCEPT ![p] = s]
        /\ imp \in [Importer -> Inbox] /\ s \in Inbox
    BY <1>1 DEF Accepts, Becomes, IInv, TypeOK, Proper
  <2>2. imp' \in [Importer -> Inbox]
    BY <2>1
  <2>3. \A q \in Importer : imp'[q] = imp[q] \/ Proper(Append(log, c), imp'[q])
    BY <2>1
  <2> QED BY <2>1, <2>2, <2>3, CommitKeepsInv
<1>2. CASE ~Admitted(c, parent)
  <2>1. log' = log
    BY <1>2 DEF Accepts
  <2> QED BY <2>1, ReadKeepsInv
<1> QED BY <1>1, <1>2

\* The history after a send holds what the inbox held before it.
LEMMA StillProper ==
    ASSUME IInv, NEW r, Proper(log, r), NEW c \in Commit, NEW parent, Accepts(c, parent)
    PROVE  Proper(log', r)
<1>1. log \in Seq(Commit)
  BY DEF IInv, TypeOK
<1>2. log' = log \/ log' = Append(log, c)
  BY DEF Accepts
<1> QED BY <1>1, <1>2, AppendKeepsBacked DEF Proper

\* So does a send whose success is in the log where the next step claims it.
LEMMA SendInv ==
    ASSUME IInv, NEW p \in Importer, NEW pc, NEW c \in Commit, NEW next,
           Send(p, pc, c, next), pc \in Ingesting,
           \/ next = "admitted"
           \/ next = "reload" /\ c.kind = "result" /\ c.zip = Head(imp[p].queue)
    PROVE  IInv'
<1> DEFINE r == imp[p]
           retry == [To(r, "recheck") EXCEPT !.retried = TRUE]
<1>1. r \in Inbox /\ Proper(log, r) /\ log \in Seq(Commit)
  BY InboxFacts
<1>2. /\ r.pc = pc /\ Accepts(c, r.head)
      /\ Becomes(p, IF Succeeds(c, r.head) THEN To(r, next)
                    ELSE IF HeadConflict(c, r.head) /\ ~r.retried THEN retry
                    ELSE Failed(r))
  BY DEF Send, AtSend
<1>3. Proper(log', r)
  BY <1>1, <1>2, StillProper
<1>4. r.queue # << >>
  BY <1>1, <1>2 DEF Proper, Backed
<1>5. Proper(log', Failed(r))
  BY <1>3, FailedProper
<1>6. Proper(log', retry)
  <2>1. Proper(log', To(r, "recheck"))
    BY <1>3, <1>4, ToProper DEF Ingesting
  <2> QED BY <2>1 DEF Proper, Backed, Inbox
<1>7. ASSUME Succeeds(c, r.head) PROVE Proper(log', To(r, next))
  <2>1. CASE next = "admitted"
    BY <1>3, <1>4, <2>1, ToProper DEF Ingesting
  <2>2. CASE next = "reload" /\ c.kind = "result" /\ c.zip = Head(r.queue)
    <3>1. ResultOf(log', Head(r.queue))
      BY <1>1, <1>2, <1>7, <2>2, SentIsThere DEF ResultOf
    <3> QED BY <1>3, <1>4, <2>2, <3>1, ToProper
  <2> QED BY <2>1, <2>2
<1> HIDE DEF retry
<1>8. \E s : Becomes(p, s) /\ Proper(log', s)
  BY <1>2, <1>5, <1>6, <1>7
<1> QED BY <1>2, <1>8, SentKeepsInv

\* The send of the evidence claims nothing.
LEMMA SendEvidenceInv ==
    ASSUME IInv, NEW p \in Importer, SendEvidence(p)
    PROVE  IInv'
<1> DEFINE c == Evidence(Head(imp[p].queue))
<1>1. Send(p, "evidence", c, "admitted") /\ imp[p].pc = "evidence"
  BY DEF SendEvidence
<1>2. Head(imp[p].queue) \in Zip
  BY <1>1, InboxFacts DEF Ingesting
<1>3. c \in Commit
  BY <1>2 DEF Evidence, Commit, NoCut
<1> HIDE DEF c
<1> QED BY <1>1, <1>3, SendInv DEF Ingesting

\* After the send of the result, the result is there.
LEMMA SendResultInv ==
    ASSUME IInv, NEW p \in Importer, SendResult(p)
    PROVE  IInv'
<1> DEFINE c == Result(Head(imp[p].queue), imp[p].cut)
<1>1. Send(p, "result", c, "reload") /\ imp[p].pc = "result"
  BY DEF SendResult
<1>2. Head(imp[p].queue) \in Zip /\ imp[p].cut \in Nat
  BY <1>1, InboxFacts DEF Ingesting, Inbox
<1>3. c \in Commit /\ c.kind = "result" /\ c.zip = Head(imp[p].queue)
  BY <1>2 DEF Result, Commit
<1> HIDE DEF c
<1> QED BY <1>1, <1>3, SendInv DEF Ingesting

\* After the send of the completion, the completion is there.
LEMMA SendCompletionInv ==
    ASSUME IInv, NEW p \in Importer, SendCompletion(p)
    PROVE  IInv'
<1> DEFINE r == imp[p]
           c == Completion(r.cut)
           s == [To(r, "settle") EXCEPT !.done = TRUE, !.cut = NoCut]
<1>1. r \in Inbox /\ Proper(log, r) /\ log \in Seq(Commit)
  BY InboxFacts
<1>2. c \in Commit /\ c.kind = "completion"
  BY <1>1 DEF Completion, Commit, Inbox
<1>3. /\ Accepts(c, r.head)
      /\ Becomes(p, IF Succeeds(c, r.head) THEN s ELSE Failed(r))
  BY DEF SendCompletion
<1> HIDE DEF c
<1>4. Proper(log', r)
  BY <1>1, <1>2, <1>3, StillProper
<1>5. Proper(log', Failed(r))
  BY <1>4, FailedProper
<1>6. ASSUME Succeeds(c, r.head) PROVE Proper(log', s)
  <2>1. HasCompletion(log')
    BY <1>1, <1>2, <1>3, <1>6, SentIsThere DEF HasCompletion
  <2>2. Proper(log', To(r, "settle"))
    BY <1>4, ToProper DEF Outside
  <2> QED BY <2>1, <2>2 DEF Proper, Backed, Inbox, NoCut
<1> HIDE DEF s
<1>7. \E x : Becomes(p, x) /\ Proper(log', x)
  BY <1>3, <1>5, <1>6
<1> QED BY <1>2, <1>3, <1>7, SentKeepsInv

-----------------------------------------------------------------------------

\* Closed inboxes over the handout satisfy the invariant.
LEMMA InitIInv == Init => IInv
<1> SUFFICES ASSUME Init PROVE IInv
  OBVIOUS
<1>1. Handout \in Commit
  BY DEF Handout, Commit, NoCut
<1> QED BY <1>1, ClosedProper DEF Init, IInv, TypeOK, Proper

\* Every step of every importer keeps the invariant.
LEMMA NextIInv == IInv /\ [Next]_vars => IInv'
<1> SUFFICES ASSUME IInv, [Next]_vars PROVE IInv'
  OBVIOUS
<1>1. CASE UNCHANGED vars
  BY <1>1 DEF vars, IInv, TypeOK
<1>2. CASE Elsewhere
  BY <1>2, ElsewhereInv
<1>3. ASSUME NEW p \in Importer,
             \/ Working(p) \/ Open(p) \/ Unavailable(p) \/ Crash(p)
             \/ \E batch \in Batches : Import(p, batch)
      PROVE  IInv'
  BY <1>3, ReadStepInv, SendEvidenceInv, SendResultInv, SendCompletionInv DEF Working
<1> QED BY <1>1, <1>2, <1>3 DEF Next

\* The invariant, for any number of importers.
THEOREM IInvHolds == Spec => []IInv
  BY InitIInv, NextIInv, PTL DEF Spec

\* Every inbox keeps to the steps of the code, with an archive of the call at
\* hand wherever one is looked at.
THEOREM TypeCorrect == Spec => []TypeOK
<1>1. IInv => TypeOK
  BY DEF IInv
<1> QED BY <1>1, IInvHolds, PTL

\* What the invariant makes of reports and of memories.
LEMMA IInvBacks == IInv => ReportsAreBacked
<1> SUFFICES ASSUME IInv PROVE AcceptedIsDurable /\ MemoryIsBacked
  BY DEF ReportsAreBacked
<1>1. AcceptedIsDurable
  <2> SUFFICES ASSUME NEW p \in Importer, imp[p].report.status = "ACCEPTED"
               PROVE  imp[p].report.zip \in ResultsAt(Len(log), SlotOf[imp[p].report.zip])
    BY DEF AcceptedIsDurable
  <2>1. imp[p].report.zip \in Zip /\ ResultOf(log, imp[p].report.zip)
    BY DEF IInv, Backed
  <2> QED BY <2>1, ReadsFind DEF IInv, TypeOK
<1>2. MemoryIsBacked
  BY ReadsFind DEF IInv, TypeOK, Backed, MemoryIsBacked
<1> QED BY <1>1, <1>2

\* However many importers race, an inbox says nothing that the history does not
\* hold: no report ACCEPTED without its result, no memory of what is not there.
THEOREM SaidIsAccepted == Spec => []ReportsAreBacked
  BY IInvHolds, IInvBacks, PTL

-----------------------------------------------------------------------------
\* One importer.  From the look that finds no result of a lane to the commit of
\* one, and from the summary to the completion, nobody else writes either.

Alone == \A p, q \in Importer : p = q

Single(l) ==
    /\ \A m, n \in DOMAIN l :
          l[m].kind = "result" /\ l[n].kind = "result" =>
             (SlotOf[l[m].zip] = SlotOf[l[n].zip] => m = n)
    /\ \A m, n \in DOMAIN l :
          l[m].kind = "completion" /\ l[n].kind = "completion" => m = n

Admitting == {"begin", "evidence", "admitted", "result"}
Completing == {"finalize", "completion"}

Unrivalled(l, r) ==
    /\ r.pc \in Admitting => ~HasResult(l, SlotOf[Head(r.queue)])
    /\ r.pc \in Completing => ~HasCompletion(l)

AInv == IInv /\ Single(log) /\ \A p \in Importer : Unrivalled(log, imp[p])

\* A step of the only importer that leaves the log alone, from a state to a proper one.
LEMMA AloneRead ==
    ASSUME Alone, AInv, NEW p \in Importer, NEW s, Becomes(p, s), log' = log,
           Unrivalled(log, s), IInv'
    PROVE  AInv'
<1>1. \A q \in Importer : q = p /\ imp'[q] = s
  BY DEF Alone, Becomes, AInv, IInv, TypeOK
<1> QED BY <1>1 DEF AInv

\* A commit that is neither a result nor a completion.
LEMMA NeutralCommit ==
    ASSUME log \in Seq(Commit), Single(log), NEW c \in Commit,
           c.kind \notin {"result", "completion"}
    PROVE  /\ Single(Append(log, c))
           /\ \A r : Unrivalled(log, r) => Unrivalled(Append(log, c), r)
<1> DEFINE k == Append(log, c)
<1>1. /\ DOMAIN k = DOMAIN log \cup {Len(log) + 1}
      /\ \A i \in DOMAIN log : k[i] = log[i]
      /\ k[Len(log) + 1] = c
  BY AppendTyped
<1> HIDE DEF k
<1>2. Single(k)
  BY <1>1 DEF Single
<1>3. \A s : HasResult(k, s) => HasResult(log, s)
  <2> SUFFICES ASSUME NEW s, NEW n \in DOMAIN k,
                      k[n].kind = "result", SlotOf[k[n].zip] = s
               PROVE  HasResult(log, s)
    BY DEF HasResult
  <2>1. n \in DOMAIN log /\ k[n] = log[n]
    BY <1>1
  <2> QED BY <2>1 DEF HasResult
<1>4. HasCompletion(k) => HasCompletion(log)
  BY <1>1 DEF HasCompletion
<1>5. \A r : Unrivalled(log, r) => Unrivalled(k, r)
  BY <1>3, <1>4 DEF Unrivalled
<1> QED BY <1>2, <1>5 DEF k

\* A failed call is at no step that relies on being alone.
LEMMA FailedIdle ==
    ASSUME NEW r \in Inbox
    PROVE  Failed(r).pc \in {"take", "closed", "idle"}
  BY DEF Failed, Decided, ClosedInbox, To, Inbox

\* After a load, an inbox not marked complete read a history without completion.
LEMMA LoadedDone ==
    ASSUME NEW r \in Inbox, r.head = Len(log), log \in Seq(Commit), ~Loaded(r).done
    PROVE  ~HasCompletion(log)
  BY ReadsFind DEF Loaded, Inbox

\* Every step that leaves the log alone keeps the stronger invariant.
LEMMA AloneReadStep ==
    ASSUME Alone, AInv, NEW p \in Importer,
           \/ ReadHead(p) \/ CutLost(p) \/ Open(p) \/ Opened(p) \/ Take(p)
           \/ FindAssignment(p) \/ Look(p, "look") \/ Look(p, "recheck") \/ Begin(p)
           \/ EvidenceAdmitted(p) \/ Reload(p) \/ Summary(p) \/ Finalize(p) \/ Settle(p)
           \/ Unavailable(p) \/ Crash(p) \/ \E batch \in Batches : Import(p, batch)
    PROVE  AInv'
<1> DEFINE r == imp[p]
<1> USE DEF Admitting, Completing
<1>1. /\ log \in Seq(Commit) /\ r \in Inbox /\ Proper(log, r) /\ Unrivalled(log, r)
      /\ r.pc \in Ingesting => r.queue # << >> /\ Head(r.queue) \in Zip
  BY InboxFacts DEF AInv
<1>2. IInv'
  BY ReadStepInv DEF AInv
<1>3. Unrivalled(log, Failed(r))
  BY <1>1, FailedIdle DEF Unrivalled
<1> SUFFICES log' = log /\ \E s : Becomes(p, s) /\ Unrivalled(log, s)
  BY <1>2, AloneRead
<1>4. ASSUME ReadHead(p) PROVE log' = log /\ \E s : Becomes(p, s) /\ Unrivalled(log, s)
  <2> DEFINE s == [r EXCEPT !.head = Len(log)]
  <2>1. s.pc = r.pc /\ s.queue = r.queue
    BY <1>1 DEF Inbox
  <2>2. Unrivalled(log, s)
    BY <1>1, <2>1 DEF Unrivalled
  <2> QED BY <1>4, <2>2 DEF ReadHead
<1>5. ASSUME CutLost(p) \/ Unavailable(p)
      PROVE  log' = log /\ \E s : Becomes(p, s) /\ Unrivalled(log, s)
  BY <1>3, <1>5 DEF CutLost, Unavailable
\* Steps to a place that claims nothing.
<1>6. ASSUME \/ Open(p) \/ Opened(p) \/ Take(p) \/ FindAssignment(p) \/ Reload(p)
             \/ Settle(p) \/ Crash(p) \/ \E batch \in Batches : Import(p, batch)
      PROVE  log' = log /\ \E s : Becomes(p, s) /\ Unrivalled(log, s)
  <2>1. \A x \in Inbox : \A pc : To(x, pc).pc = pc
    BY DEF To, Inbox
  <2>2. \A x \in Inbox, st \in {"ACCEPTED", "REJECTED"} : Decided(x, st).pc = "take"
    BY DEF Decided, Inbox
  <2>3. r.head = Len(log) => Loaded(r) \in Inbox
    BY <1>1, LoadedProper DEF AInv, Proper
  <2>4. CASE Open(p) \/ Crash(p) \/ FindAssignment(p)
    BY <1>1, <2>1, <2>4 DEF Open, Crash, FindAssignment, AtCut, ClosedInbox, Unrivalled
  <2>5. CASE Opened(p) \/ Reload(p) \/ Settle(p)
    BY <1>1, <1>3, <2>1, <2>2, <2>3, <2>5 DEF Opened, Reload, Settle, AtCut, Unrivalled
  <2>6. CASE Take(p)
    <3> DEFINE s == [To(r, "assignment") EXCEPT !.report = NoReport]
    <3>1. s.pc = "assignment"
      BY <1>1 DEF To, Inbox
    <3>2. /\ Unrivalled(log, s) /\ Unrivalled(log, To(r, "summary"))
          /\ Unrivalled(log, Decided(r, "REJECTED"))
      BY <1>1, <2>1, <2>2, <3>1 DEF Unrivalled
    <3>3. /\ log' = log
          /\ Becomes(p, To(r, "summary")) \/ Becomes(p, Decided(r, "REJECTED"))
                \/ Becomes(p, s)
      BY <2>6 DEF Take
    <3> HIDE DEF s
    <3> QED BY <3>2, <3>3
  <2>7. ASSUME NEW batch \in Batches, Import(p, batch)
        PROVE  log' = log /\ \E s : Becomes(p, s) /\ Unrivalled(log, s)
    <3>1. [To(r, "take") EXCEPT !.queue = batch].pc = "take"
      BY <1>1 DEF To, Inbox
    <3> QED BY <2>7, <3>1 DEF Import, Unrivalled
  <2> QED BY <1>6, <2>4, <2>5, <2>6, <2>7
<1>7. ASSUME NEW pc \in {"look", "recheck"}, Look(p, pc)
      PROVE  log' = log /\ \E s : Becomes(p, s) /\ Unrivalled(log, s)
  <2> DEFINE z == Head(r.queue)
             found == ResultsAt(r.head, SlotOf[z])
  <2>1. /\ r.pc = pc /\ r.head = Len(log) /\ log' = log
        /\ Becomes(p, IF found = {} THEN To(r, "begin")
                      ELSE IF found = {z} THEN To(r, "reload")
                      ELSE Decided(r, "REJECTED"))
    BY <1>7 DEF Look, AtCut
  <2>2. found = {} => ~HasResult(log, SlotOf[z])
    BY <1>1, <2>1, ReadsFind
  <2>3. /\ To(r, "begin").pc = "begin" /\ To(r, "begin").queue = r.queue
        /\ To(r, "reload").pc = "reload" /\ Decided(r, "REJECTED").pc = "take"
    BY <1>1 DEF To, Decided, Inbox
  <2>4. found = {} => Unrivalled(log, To(r, "begin"))
    BY <2>2, <2>3 DEF Unrivalled
  <2>5. Unrivalled(log, To(r, "reload")) /\ Unrivalled(log, Decided(r, "REJECTED"))
    BY <2>3 DEF Unrivalled
  <2> HIDE DEF found
  <2> QED BY <2>1, <2>4, <2>5
<1>8. ASSUME Begin(p) \/ EvidenceAdmitted(p)
      PROVE  log' = log /\ \E s : Becomes(p, s) /\ Unrivalled(log, s)
  <2> DEFINE s == [To(r, "result") EXCEPT !.cut = r.head]
             e == To(r, "evidence")
  <2>1. r.pc \in {"begin", "admitted"} /\ log' = log /\ (Becomes(p, s) \/ Becomes(p, e))
    BY <1>8 DEF Begin, EvidenceAdmitted, AtCut
  <2>2. ~HasResult(log, SlotOf[Head(r.queue)])
    BY <1>1, <2>1 DEF Unrivalled
  <2>3. /\ s.pc = "result" /\ s.queue = r.queue
        /\ e.pc = "evidence" /\ e.queue = r.queue
    BY <1>1 DEF To, Inbox
  <2>4. Unrivalled(log, s) /\ Unrivalled(log, e)
    BY <2>2, <2>3 DEF Unrivalled
  <2> QED BY <2>1, <2>4
<1>9. ASSUME Summary(p)
      PROVE  log' = log /\ \E s : Becomes(p, s) /\ Unrivalled(log, s)
  <2> DEFINE x == Loaded(r)
  <2>1. /\ r.head = Len(log) /\ log' = log
        /\ \/ Becomes(p, Failed(r)) \/ Becomes(p, To(x, "idle"))
           \/ ~x.done /\ Becomes(p, To(x, "finalize"))
    BY <1>9 DEF Summary, AtCut
  <2>2. x \in Inbox
    BY <1>1, <2>1, LoadedProper DEF AInv, Proper
  <2>3. To(x, "idle").pc = "idle" /\ To(x, "finalize").pc = "finalize"
    BY <2>2 DEF To, Inbox
  <2>4. ~x.done => ~HasCompletion(log)
    BY <1>1, <2>1, LoadedDone
  <2>5. /\ Unrivalled(log, To(x, "idle"))
        /\ ~x.done => Unrivalled(log, To(x, "finalize"))
    BY <2>3, <2>4 DEF Unrivalled
  <2> HIDE DEF x
  <2> QED BY <1>3, <2>1, <2>5
<1>10. ASSUME Finalize(p)
       PROVE  log' = log /\ \E s : Becomes(p, s) /\ Unrivalled(log, s)
  <2> DEFINE s == [To(r, "completion") EXCEPT !.cut = r.head]
  <2>1. /\ r.pc = "finalize" /\ log' = log
        /\ Becomes(p, s) \/ Becomes(p, Failed(r))
    BY <1>10 DEF Finalize, AtCut
  <2>2. s.pc = "completion"
    BY <1>1 DEF To, Inbox
  <2>3. Unrivalled(log, s)
    BY <1>1, <2>1, <2>2 DEF Unrivalled
  <2> QED BY <1>3, <2>1, <2>3
<1> QED BY <1>4, <1>5, <1>6, <1>7, <1>8, <1>9, <1>10

\* After a send the inbox is at s, and only a commit of a result or of a
\* completion could give the history a second one.
LEMMA AloneSend ==
    ASSUME Alone, AInv, IInv', NEW p \in Importer, NEW c \in Commit, NEW parent, NEW s,
           Accepts(c, parent), Becomes(p, s),
           \/ s.pc \notin Admitting \cup Completing
           \/ /\ c.kind \notin {"result", "completion"}
              /\ Unrivalled(log, s),
           c.kind = "result" => ~HasResult(log, SlotOf[c.zip]),
           c.kind = "completion" => ~HasCompletion(log)
    PROVE  AInv'
<1>1. log \in Seq(Commit) /\ Single(log)
  BY DEF AInv, IInv, TypeOK
<1>2. \A q \in Importer : imp'[q] = s
  BY DEF Alone, Becomes, AInv, IInv, TypeOK
<1>3. Single(log') /\ Unrivalled(log', s)
  <2>1. CASE log' = log
    BY <1>1, <2>1 DEF Unrivalled
  <2>2. CASE log' = Append(log, c) /\ c.kind \notin {"result", "completion"}
    BY <1>1, <2>2, NeutralCommit DEF Unrivalled
  <2>3. CASE log' = Append(log, c) /\ c.kind \in {"result", "completion"}
    <3> DEFINE k == Append(log, c)
    <3>1. /\ DOMAIN k = DOMAIN log \cup {Len(log) + 1}
          /\ \A i \in DOMAIN log : k[i] = log[i]
          /\ k[Len(log) + 1] = c
      BY <1>1, AppendTyped
    <3>2. Unrivalled(k, s)
      BY <2>3 DEF Unrivalled
    <3> HIDE DEF k
    <3>3. CASE c.kind = "result"
      <4>1. \A n \in DOMAIN log : log[n].kind = "result" => SlotOf[log[n].zip] # SlotOf[c.zip]
        BY <3>3 DEF HasResult
      <4>2. ASSUME NEW m \in DOMAIN k, NEW n \in DOMAIN k, m # n,
                   k[m].kind = "result", k[n].kind = "result"
            PROVE  SlotOf[k[m].zip] # SlotOf[k[n].zip]
        <5>1. CASE m \in DOMAIN log /\ n \in DOMAIN log
          <6>1. k[m] = log[m] /\ k[n] = log[n]
            BY <3>1, <5>1
          <6> QED BY <1>1, <4>2, <5>1, <6>1 DEF Single
        <5>2. CASE m \in DOMAIN log /\ n = Len(log) + 1
          <6>1. k[m] = log[m] /\ k[n] = c
            BY <3>1, <5>2
          <6> QED BY <4>1, <4>2, <5>2, <6>1
        <5>3. CASE n \in DOMAIN log /\ m = Len(log) + 1
          <6>1. k[m] = c /\ k[n] = log[n]
            BY <3>1, <5>3
          <6> QED BY <4>1, <4>2, <5>3, <6>1
        <5> QED BY <3>1, <4>2, <5>1, <5>2, <5>3
      <4>3. \A m, n \in DOMAIN k :
               k[m].kind = "completion" /\ k[n].kind = "completion" => m = n
        BY <1>1, <3>1, <3>3 DEF Single
      <4>4. Single(k)
        BY <4>2, <4>3 DEF Single
      <4> QED BY <2>3, <3>2, <4>4 DEF k
    <3>4. CASE c.kind = "completion"
      <4>1. \A n \in DOMAIN log : log[n].kind # "completion"
        BY <3>4 DEF HasCompletion
      <4>2. \A m \in DOMAIN k : k[m].kind = "completion" => m = Len(log) + 1
        BY <3>1, <4>1
      <4>3. \A m \in DOMAIN k : k[m].kind = "result" => m \in DOMAIN log
        BY <3>1, <3>4
      <4>4. \A m \in DOMAIN log : k[m] = log[m]
        BY <3>1
      <4>5. ASSUME NEW m \in DOMAIN k, NEW n \in DOMAIN k,
                   k[m].kind = "result", k[n].kind = "result",
                   SlotOf[k[m].zip] = SlotOf[k[n].zip]
            PROVE  m = n
        <5>1. m \in DOMAIN log /\ n \in DOMAIN log /\ k[m] = log[m] /\ k[n] = log[n]
          BY <4>3, <4>4, <4>5
        <5> QED BY <1>1, <4>5, <5>1 DEF Single
      <4>6. Single(k)
        BY <4>2, <4>5 DEF Single
      <4> QED BY <2>3, <3>2, <4>6 DEF k
    <3> QED BY <2>3, <3>3, <3>4
  <2> QED BY <2>1, <2>2, <2>3 DEF Accepts
<1> QED BY <1>2, <1>3 DEF AInv

\* Every send of the only importer keeps the stronger invariant.
LEMMA AloneSendStep ==
    ASSUME Alone, AInv, NEW p \in Importer,
           SendEvidence(p) \/ SendResult(p) \/ SendCompletion(p)
    PROVE  AInv'
<1> DEFINE r == imp[p]
           retry == [To(r, "recheck") EXCEPT !.retried = TRUE]
           settle == [To(r, "settle") EXCEPT !.done = TRUE, !.cut = NoCut]
           e == Evidence(Head(r.queue))
           c == Result(Head(r.queue), r.cut)
           d == Completion(r.cut)
<1>1. /\ log \in Seq(Commit) /\ r \in Inbox /\ Unrivalled(log, r) /\ r.cut \in Nat
      /\ r.pc \in Ingesting => r.queue # << >> /\ Head(r.queue) \in Zip
  BY InboxFacts DEF AInv, Inbox
<1>2. IInv'
  BY SendEvidenceInv, SendResultInv, SendCompletionInv DEF AInv
<1>3. /\ Failed(r).pc \in {"take", "closed", "idle"}
      /\ retry.pc = "recheck" /\ settle.pc = "settle" /\ To(r, "reload").pc = "reload"
      /\ To(r, "admitted").pc = "admitted" /\ To(r, "admitted").queue = r.queue
  BY <1>1, FailedIdle DEF To, Inbox
<1>4. ASSUME SendEvidence(p) PROVE AInv'
  <2>1. /\ r.pc = "evidence" /\ Accepts(e, r.head)
        /\ \/ Becomes(p, To(r, "admitted")) \/ Becomes(p, retry) \/ Becomes(p, Failed(r))
    BY <1>4 DEF SendEvidence, Send, AtSend
  <2>2. Head(r.queue) \in Zip /\ ~HasResult(log, SlotOf[Head(r.queue)])
    BY <1>1, <2>1 DEF Ingesting, Unrivalled, Admitting
  <2>3. e \in Commit /\ e.kind = "evidence"
    BY <2>2 DEF Evidence, Commit, NoCut
  <2>4. /\ Unrivalled(log, To(r, "admitted")) /\ Unrivalled(log, retry)
        /\ Unrivalled(log, Failed(r))
    BY <1>3, <2>2 DEF Unrivalled, Admitting, Completing
  <2> HIDE DEF e, retry
  <2>5. PICK s : Becomes(p, s) /\ Unrivalled(log, s)
    BY <2>1, <2>4
  <2> QED BY <1>2, <2>1, <2>3, <2>5, AloneSend
<1>5. ASSUME SendResult(p) PROVE AInv'
  <2>1. /\ r.pc = "result" /\ Accepts(c, r.head)
        /\ \/ Becomes(p, To(r, "reload")) \/ Becomes(p, retry) \/ Becomes(p, Failed(r))
    BY <1>5 DEF SendResult, Send, AtSend
  <2>2. Head(r.queue) \in Zip /\ ~HasResult(log, SlotOf[Head(r.queue)])
    BY <1>1, <2>1 DEF Ingesting, Unrivalled, Admitting
  <2>3. c \in Commit /\ c.kind = "result" /\ c.zip = Head(r.queue)
    BY <1>1, <2>2 DEF Result, Commit
  <2> HIDE DEF c, retry
  <2>4. PICK s : Becomes(p, s) /\ s.pc \notin Admitting \cup Completing
    BY <1>3, <2>1 DEF Admitting, Completing
  <2> QED BY <1>2, <2>1, <2>2, <2>3, <2>4, AloneSend
<1>6. ASSUME SendCompletion(p) PROVE AInv'
  <2>1. /\ r.pc = "completion" /\ Accepts(d, r.head)
        /\ Becomes(p, settle) \/ Becomes(p, Failed(r))
    BY <1>6 DEF SendCompletion, AtSend
  <2>2. ~HasCompletion(log)
    BY <1>1, <2>1 DEF Unrivalled, Completing
  <2>3. d \in Commit /\ d.kind = "completion"
    BY <1>1 DEF Completion, Commit
  <2> HIDE DEF d, settle
  <2>4. PICK s : Becomes(p, s) /\ s.pc \notin Admitting \cup Completing
    BY <1>3, <2>1 DEF Admitting, Completing
  <2> QED BY <1>2, <2>1, <2>2, <2>3, <2>4, AloneSend
<1> QED BY <1>4, <1>5, <1>6

\* Every step keeps the stronger invariant when there is one importer.
LEMMA AloneNext ==
    ASSUME Alone, AInv, [Next]_vars
    PROVE  AInv'
<1>1. CASE UNCHANGED vars
  <2>1. IInv'
    BY NextIInv DEF AInv
  <2> QED BY <1>1, <2>1 DEF vars, AInv
<1>2. CASE Elsewhere
  <2>1. IInv'
    BY <1>2, ElsewhereInv DEF AInv
  <2>2. /\ OtherCommit \in Commit /\ OtherCommit.kind = "other"
        /\ log' = Append(log, OtherCommit) /\ imp' = imp
    BY <1>2 DEF Elsewhere, OtherCommit, Commit, NoCut
  <2>3. log \in Seq(Commit) /\ Single(log)
    BY DEF AInv, IInv, TypeOK
  <2>4. Single(log') /\ \A q \in Importer : Unrivalled(log', imp'[q])
    BY <2>2, <2>3, NeutralCommit DEF AInv
  <2> QED BY <2>1, <2>4 DEF AInv
<1>3. ASSUME NEW p \in Importer,
             \/ Working(p) \/ Open(p) \/ Unavailable(p) \/ Crash(p)
             \/ \E batch \in Batches : Import(p, batch)
      PROVE  AInv'
  BY <1>3, AloneReadStep, AloneSendStep DEF Working
<1> QED BY <1>1, <1>2, <1>3 DEF Next

\* At first there is no result and no completion.
LEMMA AloneInit == Init => AInv
<1> SUFFICES ASSUME Init PROVE AInv
  OBVIOUS
<1>1. IInv
  BY InitIInv
<1>2. Single(log)
  BY DEF Init, Single, Handout
<1>3. \A p \in Importer : Unrivalled(log, imp[p])
  BY DEF Init, ClosedInbox, Unrivalled, Admitting, Completing
<1> QED BY <1>1, <1>2, <1>3 DEF AInv

\* The stronger invariant, for one importer.
LEMMA AloneInvHolds ==
    ASSUME Alone
    PROVE  Spec => []AInv
<1>1. AInv /\ [Next]_vars => AInv'
  BY AloneNext
<1> QED BY <1>1, AloneInit, PTL DEF Spec

\* In such a log no lane has two results, and E1 no two completions.
LEMMA AInvSingles == AInv => OneResultPerAssignment /\ OneStageCompletion
<1> SUFFICES ASSUME AInv PROVE OneResultPerAssignment /\ OneStageCompletion
  OBVIOUS
<1>1. DOMAIN log = 1..Len(log) /\ Single(log)
  BY DEF AInv, IInv, TypeOK
<1>2. \A R : (\A x, y \in R : x = y) => Cardinality(R) <= 1
  <2> SUFFICES ASSUME NEW R, \A x, y \in R : x = y PROVE Cardinality(R) <= 1
    OBVIOUS
  <2>1. R = {} \/ \E x : R = {x}
    <3>1. \A x \in R : R = {x}
      OBVIOUS
    <3> QED BY <3>1
  <2>2. Cardinality(R) \in {0, 1}
    BY <2>1, FS_EmptySet, FS_Singleton
  <2> QED BY <2>2
<1>3. ASSUME NEW s \in Slot, NEW x \in ResultsAt(Len(log), s), NEW y \in ResultsAt(Len(log), s)
      PROVE  x = y
  <2>1. PICK m \in DOMAIN log :
           log[m].kind = "result" /\ SlotOf[log[m].zip] = s /\ x = log[m].zip
    BY <1>1 DEF ResultsAt
  <2>2. PICK n \in DOMAIN log :
           log[n].kind = "result" /\ SlotOf[log[n].zip] = s /\ y = log[n].zip
    BY <1>1 DEF ResultsAt
  <2>3. m = n
    BY <1>1, <2>1, <2>2 DEF Single
  <2> QED BY <2>1, <2>2, <2>3
<1>4. \A x, y \in CompletionsAt(Len(log)) : x = y
  BY <1>1 DEF CompletionsAt, Single
<1> QED BY <1>2, <1>3, <1>4 DEF OneResultPerAssignment, OneStageCompletion

\* With one importer, no lane gets a second accepted result: not through deaths
\* between the two commits, timeouts, retries, or other operators' commits.
THEOREM AloneOneResult ==
    ASSUME \A p, q \in Importer : p = q
    PROVE  Spec => []OneResultPerAssignment
<1>1. Alone
  BY DEF Alone
<1>2. Spec => []AInv
  BY <1>1, AloneInvHolds
<1> QED BY <1>2, AInvSingles, PTL

\* With one importer, E1 is completed at most once, wherever it dies and whatever
\* others record; several may each complete it (NoInboxCompletesAgain).
THEOREM AloneOneCompletion ==
    ASSUME \A p, q \in Importer : p = q
    PROVE  Spec => []OneStageCompletion
<1>1. Alone
  BY DEF Alone
<1>2. Spec => []AInv
  BY <1>1, AloneInvHolds
<1> QED BY <1>2, AInvSingles, PTL

-----------------------------------------------------------------------------
\* Any number of importers.  What completes E1 a second time was on its way when
\* it was completed first; nobody joins those who are on their way after that.

\* A step after which s is where r was joins them only before a completion.
Joins(r, s) == s.pc \in Completing => r.pc \in Completing \/ ~HasCompletion(log)

\* Every step that leaves the log alone.
LEMMA ReadStepJoins ==
    ASSUME IInv, NEW p \in Importer,
           \/ ReadHead(p) \/ CutLost(p) \/ Open(p) \/ Opened(p) \/ Take(p)
           \/ FindAssignment(p) \/ Look(p, "look") \/ Look(p, "recheck") \/ Begin(p)
           \/ EvidenceAdmitted(p) \/ Reload(p) \/ Summary(p) \/ Finalize(p) \/ Settle(p)
           \/ Unavailable(p) \/ Crash(p) \/ \E batch \in Batches : Import(p, batch)
    PROVE  log' = log /\ \E s : Becomes(p, s) /\ Joins(imp[p], s)
<1> DEFINE r == imp[p]
<1> USE DEF Completing
<1>1. log \in Seq(Commit) /\ r \in Inbox /\ Proper(log, r)
  BY InboxFacts
<1>2. Joins(r, Failed(r)) /\ Joins(r, ClosedInbox)
  BY <1>1, FailedIdle DEF Joins, ClosedInbox
<1>3. \A x \in Inbox : \A pc : To(x, pc).pc = pc
  BY DEF To, Inbox
<1>4. \A x \in Inbox, st \in {"ACCEPTED", "REJECTED"} : Decided(x, st).pc = "take"
  BY DEF Decided, Inbox
<1>5. r.head = Len(log) => Loaded(r) \in Inbox
  BY <1>1, LoadedProper DEF Proper
<1>6. CASE CutLost(p) \/ Unavailable(p) \/ Crash(p)
  BY <1>2, <1>6 DEF CutLost, Unavailable, Crash
<1>7. CASE ReadHead(p)
  <2>1. [r EXCEPT !.head = Len(log)].pc = r.pc
    BY <1>1 DEF Inbox
  <2> QED BY <1>7, <2>1 DEF ReadHead, Joins
<1>8. CASE Open(p) \/ FindAssignment(p) \/ Opened(p) \/ Reload(p) \/ Settle(p)
  <2>1. \A x \in Inbox, pc \in {"open", "look", "idle"} : Joins(r, To(x, pc))
    BY <1>3 DEF Joins
  <2>2. \A x \in Inbox, st \in {"ACCEPTED", "REJECTED"} : Joins(r, Decided(x, st))
    BY <1>4 DEF Joins
  <2>3. CASE Open(p) \/ FindAssignment(p)
    BY <1>1, <2>1, <2>3 DEF Open, FindAssignment, AtCut
  <2>4. CASE Opened(p) \/ Reload(p) \/ Settle(p)
    BY <1>1, <1>2, <1>5, <2>1, <2>2, <2>4 DEF Opened, Reload, Settle, AtCut
  <2> QED BY <1>8, <2>3, <2>4
<1>9. CASE Take(p)
  <2> DEFINE s == [To(r, "assignment") EXCEPT !.report = NoReport]
  <2>1. s.pc = "assignment"
    BY <1>1 DEF To, Inbox
  <2>2. Joins(r, s) /\ Joins(r, To(r, "summary")) /\ Joins(r, Decided(r, "REJECTED"))
    BY <1>1, <1>3, <1>4, <2>1 DEF Joins
  <2>3. /\ log' = log
        /\ Becomes(p, To(r, "summary")) \/ Becomes(p, Decided(r, "REJECTED")) \/ Becomes(p, s)
    BY <1>9 DEF Take
  <2> HIDE DEF s
  <2> QED BY <2>2, <2>3
<1>10. ASSUME NEW pc \in {"look", "recheck"}, Look(p, pc)
       PROVE  log' = log /\ \E s : Becomes(p, s) /\ Joins(r, s)
  <2>1. /\ log' = log
        /\ \/ Becomes(p, To(r, "begin")) \/ Becomes(p, To(r, "reload"))
           \/ Becomes(p, Decided(r, "REJECTED"))
    BY <1>10 DEF Look, AtCut
  <2>2. /\ Joins(r, To(r, "begin")) /\ Joins(r, To(r, "reload"))
        /\ Joins(r, Decided(r, "REJECTED"))
    BY <1>1, <1>3, <1>4 DEF Joins
  <2> QED BY <2>1, <2>2
<1>11. CASE Begin(p) \/ EvidenceAdmitted(p)
  <2> DEFINE s == [To(r, "result") EXCEPT !.cut = r.head]
             e == To(r, "evidence")
  <2>1. log' = log /\ (Becomes(p, s) \/ Becomes(p, e))
    BY <1>11 DEF Begin, EvidenceAdmitted, AtCut
  <2>2. s.pc = "result" /\ e.pc = "evidence"
    BY <1>1 DEF To, Inbox
  <2>3. Joins(r, s) /\ Joins(r, e)
    BY <2>2 DEF Joins
  <2> QED BY <2>1, <2>3
<1>12. CASE Summary(p)
  <2> DEFINE x == Loaded(r)
  <2>1. /\ r.head = Len(log) /\ log' = log
        /\ \/ Becomes(p, Failed(r)) \/ Becomes(p, To(x, "idle"))
           \/ ~x.done /\ Becomes(p, To(x, "finalize"))
    BY <1>12 DEF Summary, AtCut
  <2>2. ~x.done => ~HasCompletion(log)
    BY <1>1, <2>1, LoadedDone
  <2>3. Joins(r, To(x, "idle")) /\ (~x.done => Joins(r, To(x, "finalize")))
    BY <1>3, <1>5, <2>1, <2>2 DEF Joins
  <2> HIDE DEF x
  <2> QED BY <1>2, <2>1, <2>3
<1>13. CASE Finalize(p)
  <2> DEFINE s == [To(r, "completion") EXCEPT !.cut = r.head]
  <2>1. /\ r.pc = "finalize" /\ log' = log
        /\ Becomes(p, s) \/ Becomes(p, Failed(r))
    BY <1>13 DEF Finalize, AtCut
  <2>2. Joins(r, s)
    BY <2>1 DEF Joins
  <2> HIDE DEF s
  <2> QED BY <1>2, <2>1, <2>2
<1>14. ASSUME NEW batch \in Batches, Import(p, batch)
       PROVE  log' = log /\ \E s : Becomes(p, s) /\ Joins(r, s)
  <2>1. [To(r, "take") EXCEPT !.queue = batch].pc = "take"
    BY <1>1 DEF To, Inbox
  <2> QED BY <1>14, <2>1 DEF Import, Joins
<1> QED
  BY <1>6, <1>7, <1>8, <1>9, <1>10, <1>11, <1>12, <1>13, <1>14

\* A send of anything but a completion leads to none of their steps; that of a
\* completion is the last of one of them.
LEMMA SendStepJoins ==
    ASSUME IInv, NEW p \in Importer,
           SendEvidence(p) \/ SendResult(p) \/ SendCompletion(p)
    PROVE  \E s : \E c \in Commit :
               /\ log' = log \/ log' = Append(log, c)
               /\ Becomes(p, s) /\ s.pc \notin Completing
               /\ c.kind = "completion" => p \in Finalizing
<1> DEFINE r == imp[p]
           retry == [To(r, "recheck") EXCEPT !.retried = TRUE]
           settle == [To(r, "settle") EXCEPT !.done = TRUE, !.cut = NoCut]
<1>1. r \in Inbox /\ r.cut \in Nat
  BY InboxFacts DEF Inbox
<1>2. \A s \in {Failed(r), retry, settle, To(r, "reload"), To(r, "admitted")} :
         s.pc \notin Completing
  BY <1>1, FailedIdle DEF To, Inbox, Completing
<1>3. CASE SendEvidence(p)
  <2> DEFINE c == Evidence(Head(r.queue))
  <2>1. /\ r.pc = "evidence" /\ Accepts(c, r.head)
        /\ \/ Becomes(p, To(r, "admitted")) \/ Becomes(p, retry) \/ Becomes(p, Failed(r))
    BY <1>3 DEF SendEvidence, Send, AtSend
  <2>2. c \in Commit /\ c.kind = "evidence"
    BY <2>1, InboxFacts DEF Ingesting, Evidence, Commit, NoCut
  <2> HIDE DEF c, retry
  <2> QED BY <1>2, <2>1, <2>2 DEF Accepts
<1>4. CASE SendResult(p)
  <2> DEFINE c == Result(Head(r.queue), r.cut)
  <2>1. /\ r.pc = "result" /\ Accepts(c, r.head)
        /\ \/ Becomes(p, To(r, "reload")) \/ Becomes(p, retry) \/ Becomes(p, Failed(r))
    BY <1>4 DEF SendResult, Send, AtSend
  <2>2. c \in Commit /\ c.kind = "result"
    BY <1>1, <2>1, InboxFacts DEF Ingesting, Result, Commit
  <2> HIDE DEF c, retry
  <2> QED BY <1>2, <2>1, <2>2 DEF Accepts
<1>5. CASE SendCompletion(p)
  <2> DEFINE c == Completion(r.cut)
  <2>1. /\ r.pc = "completion" /\ Accepts(c, r.head)
        /\ Becomes(p, settle) \/ Becomes(p, Failed(r))
    BY <1>5 DEF SendCompletion, AtSend
  <2>2. c \in Commit /\ p \in Finalizing
    BY <1>1, <2>1 DEF Completion, Commit, Finalizing
  <2> HIDE DEF c, settle
  <2> QED BY <1>2, <2>1, <2>2 DEF Accepts
<1> QED BY <1>3, <1>4, <1>5

\* The completions of a history, and those on their way, can be counted.
LEMMA Countable ==
    ASSUME IsFiniteSet(Importer), log \in Seq(Commit)
    PROVE  /\ IsFiniteSet(CompletionsAt(Len(log)))
           /\ Cardinality(CompletionsAt(Len(log))) \in Nat
           /\ IsFiniteSet(Finalizing) /\ Cardinality(Finalizing) \in Nat
           /\ Cardinality(Importer) \in Nat
           /\ Cardinality(Finalizing) <= Cardinality(Importer)
<1>1. Finalizing \in SUBSET Importer
  BY DEF Finalizing
<1>2. IsFiniteSet(1..Len(log)) /\ CompletionsAt(Len(log)) \in SUBSET (1..Len(log))
  BY FS_Interval DEF CompletionsAt
<1>3. IsFiniteSet(CompletionsAt(Len(log)))
  BY <1>2, FS_Subset
<1>4. IsFiniteSet(Finalizing) /\ Cardinality(Finalizing) <= Cardinality(Importer)
  BY <1>1, FS_Subset
<1> QED BY <1>3, <1>4, FS_CardinalityType

\* Nothing is completed and nobody joins too late.
LEMMA NoneMore ==
    ASSUME IsFiniteSet(Importer), log \in Seq(Commit), NoneCompletesAgain,
           CompletionsAt(Len(log))' = CompletionsAt(Len(log)),
           CompletionsAt(Len(log)) # {} => Finalizing' \subseteq Finalizing
    PROVE  NoneCompletesAgain'
<1> SUFFICES ASSUME CompletionsAt(Len(log)) # {}
             PROVE  Cardinality(CompletionsAt(Len(log))) + Cardinality(Finalizing')
                       <= Cardinality(Importer)
  BY DEF NoneCompletesAgain
<1>1. /\ IsFiniteSet(Finalizing) /\ Cardinality(Finalizing) \in Nat
      /\ Cardinality(CompletionsAt(Len(log))) \in Nat /\ Cardinality(Importer) \in Nat
  BY Countable
<1>2. Cardinality(CompletionsAt(Len(log))) + Cardinality(Finalizing) <= Cardinality(Importer)
  BY DEF NoneCompletesAgain
<1>3. Finalizing' \in SUBSET Finalizing
  OBVIOUS
<1>4. IsFiniteSet(Finalizing') /\ Cardinality(Finalizing') <= Cardinality(Finalizing)
  BY <1>1, <1>3, FS_Subset
<1>5. Cardinality(Finalizing') \in Nat
  BY <1>4, FS_CardinalityType
<1> QED BY <1>1, <1>2, <1>4, <1>5

\* One of those on their way arrives.
LEMMA OneMore ==
    ASSUME IsFiniteSet(Importer), log \in Seq(Commit), NoneCompletesAgain,
           NEW p \in Finalizing, Finalizing' \subseteq Finalizing \ {p},
           CompletionsAt(Len(log))' = CompletionsAt(Len(log)) \cup {Len(log) + 1}
    PROVE  NoneCompletesAgain'
<1> DEFINE C == CompletionsAt(Len(log))
           F == Finalizing
<1>1. /\ IsFiniteSet(C) /\ Cardinality(C) \in Nat
      /\ IsFiniteSet(F) /\ Cardinality(F) \in Nat
      /\ Cardinality(Importer) \in Nat /\ Cardinality(F) <= Cardinality(Importer)
  BY Countable
<1>2. C = {} => Cardinality(C) = 0
  BY FS_EmptySet
<1>3. C # {} => Cardinality(C) + Cardinality(F) <= Cardinality(Importer)
  BY DEF NoneCompletesAgain
<1>4. Finalizing' \in SUBSET (F \ {p}) /\ p \in F
  OBVIOUS
<1>5. (CompletionsAt(Len(log)))' = C \cup {Len(log) + 1}
  OBVIOUS
<1> HIDE DEF C, F
<1>6. IsFiniteSet(F \ {p}) /\ Cardinality(F \ {p}) = Cardinality(F) - 1
  BY <1>1, <1>4, FS_RemoveElement
<1>7. IsFiniteSet(Finalizing') /\ Cardinality(Finalizing') <= Cardinality(F) - 1
  BY <1>4, <1>6, FS_Subset
<1>8. Cardinality(Finalizing') \in Nat
  BY <1>7, FS_CardinalityType
<1>9. /\ Cardinality(C \cup {Len(log) + 1}) <= Cardinality(C) + 1
      /\ IsFiniteSet(C \cup {Len(log) + 1})
  <2> DEFINE n == Len(log) + 1
  <2> HIDE DEF n
  <2>1. /\ IsFiniteSet(C \cup {n})
        /\ Cardinality(C \cup {n}) = IF n \in C THEN Cardinality(C) ELSE Cardinality(C) + 1
    BY <1>1, FS_AddElement, Zenon
  <2>2. Cardinality(C \cup {n}) <= Cardinality(C) + 1
    BY <1>1, <2>1
  <2> QED BY <2>1, <2>2 DEF n
<1>10. Cardinality(C \cup {Len(log) + 1}) \in Nat
  BY <1>9, FS_CardinalityType
<1>11. Cardinality(C \cup {Len(log) + 1}) + Cardinality(Finalizing') <= Cardinality(Importer)
  BY <1>1, <1>2, <1>3, <1>7, <1>8, <1>9, <1>10
<1> QED BY <1>5, <1>11 DEF NoneCompletesAgain

\* What one commit adds to the completions.
LEMMA CommitCompletes ==
    ASSUME log \in Seq(Commit), NEW c \in Commit, log' = Append(log, c)
    PROVE  CompletionsAt(Len(log))' =
             IF c.kind = "completion" THEN CompletionsAt(Len(log)) \cup {Len(log) + 1}
             ELSE CompletionsAt(Len(log))
<1> DEFINE k == Append(log, c)
<1>1. /\ Len(log) \in Nat /\ Len(k) = Len(log) + 1
      /\ \A n \in 1..Len(log) : k[n] = log[n]
      /\ k[Len(log) + 1] = c
  BY AppendTyped
<1>2. log' = k
  OBVIOUS
<1> HIDE DEF k
<1>3. CompletionsAt(Len(log))' = {n \in 1..Len(k) : k[n].kind = "completion"}
  BY <1>2 DEF CompletionsAt
<1>4. CompletionsAt(Len(log)) = {n \in 1..Len(log) : log[n].kind = "completion"}
  BY DEF CompletionsAt
<1>5. 1..Len(k) = (1..Len(log)) \cup {Len(log) + 1}
  BY <1>1
<1> QED BY <1>1, <1>3, <1>4, <1>5

\* Only the importer that moves can join or leave.
LEMMA OthersStay ==
    ASSUME IInv, NEW p \in Importer, NEW s, Becomes(p, s)
    PROVE  /\ s.pc \notin Completing => Finalizing' \subseteq Finalizing \ {p}
           /\ imp[p].pc \in Completing => Finalizing' \subseteq Finalizing
<1>1. \A q \in Importer : imp'[q] = IF q = p THEN s ELSE imp[q]
  BY DEF Becomes, IInv, TypeOK
<1> QED BY <1>1 DEF Finalizing, Completing

\* Every step of the inboxes.
LEMMA NextCompletes ==
    ASSUME IsFiniteSet(Importer), IInv, NoneCompletesAgain, [Next]_vars
    PROVE  NoneCompletesAgain'
<1>1. log \in Seq(Commit) /\ (CompletionsAt(Len(log)) # {} <=> HasCompletion(log))
  BY ReadsFind DEF IInv, TypeOK
<1>2. CASE UNCHANGED vars
  BY <1>2 DEF vars, NoneCompletesAgain, CompletionsAt, Finalizing
<1>3. CASE Elsewhere
  <2>1. /\ OtherCommit \in Commit /\ OtherCommit.kind = "other"
        /\ log' = Append(log, OtherCommit) /\ imp' = imp
    BY <1>3 DEF Elsewhere, OtherCommit, Commit, NoCut
  <2>2. CompletionsAt(Len(log))' = CompletionsAt(Len(log))
    BY <1>1, <2>1, CommitCompletes
  <2>3. Finalizing' \subseteq Finalizing
    BY <2>1 DEF Finalizing
  <2> QED BY <1>1, <2>2, <2>3, NoneMore
<1>4. ASSUME NEW p \in Importer,
             log' = log /\ \E s : Becomes(p, s) /\ Joins(imp[p], s)
      PROVE  NoneCompletesAgain'
  <2>1. PICK s : Becomes(p, s) /\ Joins(imp[p], s)
    BY <1>4
  <2>2. CompletionsAt(Len(log))' = CompletionsAt(Len(log))
    BY <1>4 DEF CompletionsAt
  <2>3. CompletionsAt(Len(log)) # {} => Finalizing' \subseteq Finalizing
    BY <1>1, <2>1, OthersStay DEF Joins
  <2> QED BY <1>1, <2>2, <2>3, NoneMore
<1>5. ASSUME NEW p \in Importer,
             SendEvidence(p) \/ SendResult(p) \/ SendCompletion(p)
      PROVE  NoneCompletesAgain'
  <2>1. PICK s : \E c \in Commit :
           /\ log' = log \/ log' = Append(log, c)
           /\ Becomes(p, s) /\ s.pc \notin Completing
           /\ c.kind = "completion" => p \in Finalizing
    BY <1>5, SendStepJoins
  <2>a. PICK c \in Commit : /\ log' = log \/ log' = Append(log, c)
                            /\ c.kind = "completion" => p \in Finalizing
    BY <2>1
  <2>2. Finalizing' \subseteq Finalizing \ {p}
    BY <2>1, OthersStay
  <2>3. CASE log' = log
    <3>1. CompletionsAt(Len(log))' = CompletionsAt(Len(log))
      BY <2>3 DEF CompletionsAt
    <3> QED BY <1>1, <2>2, <3>1, NoneMore
  <2>4. CASE log' = Append(log, c) /\ c.kind # "completion"
    BY <1>1, <2>2, <2>4, CommitCompletes, NoneMore
  <2>5. CASE log' = Append(log, c) /\ c.kind = "completion"
    BY <1>1, <2>2, <2>5, <2>a, CommitCompletes, OneMore
  <2> QED BY <2>3, <2>4, <2>5, <2>a
<1> QED BY <1>2, <1>3, <1>4, <1>5, ReadStepJoins DEF Next, Working

\* However many inboxes race and wherever they die, none sets out to complete E1
\* once it is complete, so that there is at most one completion for each inbox.
THEOREM NoInboxCompletesAgain ==
    ASSUME IsFiniteSet(Importer)
    PROVE  Spec => []NoneCompletesAgain
<1>1. Init => NoneCompletesAgain
  BY DEF Init, Handout, NoneCompletesAgain, CompletionsAt
<1>2. IInv /\ NoneCompletesAgain /\ [Next]_vars => NoneCompletesAgain'
  BY NextCompletes
<1> QED BY <1>1, <1>2, IInvHolds, PTL DEF Spec

-----------------------------------------------------------------------------
\* The preparation.

HIDE InboxAssumption
USE PreparationAssumption

\* A preparation at its steps.
PrepTyped(r) ==
    /\ r = [pc |-> r.pc, model |-> r.model, head |-> r.head, lanes |-> r.lanes,
            made |-> r.made, batch |-> r.batch]
    /\ r.pc \in {"idle", "status", "stage", "lanes", "lane", "assign", "files", "inbox"}
    /\ r.made \in Nat /\ r.batch \in BOOLEAN

\* The first n files of the batch, packages and receipts in turn, are published.
PublishedUpTo(n) ==
    \A i \in DOMAIN Order :
        /\ 2 * i - 1 <= n => Package(Order[i], bound) \in packages
        /\ 2 * i <= n => Package(Order[i], bound) \in receipts

\* Nobody can take a rival's settings for their own: there is one preparer, or all
\* have the same settings.
NoRivals == (\A q, o \in Preparer : q = o) \/ (\A m, n \in Model : m = n)

\* What is known of a preparation by its place in the code.
PrepFits(r) ==
    /\ r.pc # "idle" => r.model \in Model
    /\ r.pc \notin {"files", "inbox"} => r.made = 0
    /\ r.pc \in {"idle", "status", "lanes"} => r.head = 0
    /\ (\A q, o \in Preparer : q = o) /\ r.pc = "assign" /\ r.head # 0 => ~HandedOut
    /\ r.pc \in {"files", "inbox"} =>
          /\ HandedOut /\ r.model = bound
          /\ r.made <= 2 * Len(Order) /\ PublishedUpTo(r.made)
    /\ r.pc = "inbox" => r.made = 2 * Len(Order)
    /\ r.batch => HandedOut /\ PublishedUpTo(2 * Len(Order))

\* Every file is a package of the handed out assignments.
FilesFit ==
    \A pkg \in packages \cup receipts :
        HandedOut /\ pkg.slot \in Slot /\ pkg = Package(pkg.slot, bound)

\* What holds of every reachable state of the campaign.
CInv ==
    /\ IInv
    /\ ~HandedOut => \A p \in Importer : imp[p].pc = "closed"
    /\ HandedOut => bound \in Model
    /\ FilesFit
    /\ DOMAIN prep = Preparer
    /\ \A q \in Preparer : PrepTyped(prep[q]) /\ PrepFits(prep[q])

\* The importers do not undo the hand-out.
LEMMA StaysHandedOut ==
    ASSUME IInv, HandedOut, [Next]_vars
    PROVE  HandedOut'
<1>1. log \in Seq(Commit)
  BY DEF IInv, TypeOK
<1>2. \A c : Append(log, c) # << >>
  BY <1>1
<1>3. log' = log \/ \E c : log' = Append(log, c)
  <2>1. CASE Elsewhere
    BY <2>1 DEF Elsewhere
  <2>2. CASE UNCHANGED vars
    BY <2>2 DEF vars
  <2>3. ASSUME NEW p \in Importer,
               \/ Open(p) \/ Unavailable(p) \/ Crash(p)
               \/ \E batch \in Batches : Import(p, batch)
        PROVE  log' = log
    BY <2>3 DEF Open, Unavailable, Crash, Import
  <2>4. ASSUME NEW p \in Importer, Working(p)
        PROVE  log' = log \/ \E c : log' = Append(log, c)
    BY <2>4 DEF Working, ReadHead, CutLost, Opened, Take, FindAssignment, Look, Begin,
         EvidenceAdmitted, Reload, Summary, Finalize, Settle, AtCut, SendEvidence,
         SendResult, SendCompletion, Send, Accepts
  <2> QED BY <2>1, <2>2, <2>3, <2>4 DEF Next
<1> QED BY <1>2, <1>3 DEF HandedOut

\* What the invariant says of a preparer survives whatever leaves files and settings.
LEMMA ImporterKeeps ==
    ASSUME CInv, HandedOut, [Next]_vars, UNCHANGED Rest
    PROVE  CInv'
<1>1. IInv' /\ HandedOut'
  BY NextIInv, StaysHandedOut DEF CInv
<1>2. UNCHANGED <<plan, bound, prep, packages, receipts>>
  BY DEF Rest, files
<1>3. FilesFit'
  BY <1>1, <1>2 DEF CInv, FilesFit
<1>4. ASSUME NEW r, PrepFits(r) PROVE PrepFits(r)'
  BY <1>1, <1>2, <1>4 DEF PrepFits, PublishedUpTo
<1> QED BY <1>1, <1>2, <1>3, <1>4 DEF CInv

\* A preparer that only goes on, to where it fits.
LEMMA GoingOnKeeps ==
    ASSUME CInv, NEW q \in Preparer, NEW r, PrepTyped(r), PrepFits(r),
           Now(q, r), UNCHANGED <<log, imp, bound, files>>
    PROVE  CInv'
<1>1. UNCHANGED <<log, imp, bound, packages, receipts>>
  BY DEF files
<1>2. IInv'
  BY <1>1 DEF CInv, IInv, TypeOK
<1>3. HandedOut' = HandedOut /\ FilesFit'
  BY <1>1 DEF CInv, FilesFit, HandedOut
<1>4. \A x : PrepFits(x) => PrepFits(x)'
  BY <1>1, <1>3 DEF PrepFits, PublishedUpTo
<1>5. DOMAIN prep' = Preparer /\ \A o \in Preparer : PrepTyped(prep'[o]) /\ PrepFits(prep'[o])
  BY DEF CInv, Now
<1>6. \A o \in Preparer : PrepFits(prep[o])'
  <2> TAKE o \in Preparer
  <2>1. PrepFits(prep'[o])
    BY <1>5
  <2> QED BY <1>1, <1>3, <2>1 DEF PrepFits, PublishedUpTo
<1> QED BY <1>1, <1>2, <1>3, <1>5, <1>6 DEF CInv

\* A call that ended keeps at most the batch that it had.
LEMMA EndedFits ==
    /\ PrepTyped(Resting) /\ PrepFits(Resting)
    /\ \A r : PrepTyped(r) /\ PrepFits(r) => PrepTyped(Ended(r)) /\ PrepFits(Ended(r))
<1>1. PrepTyped(Resting) /\ PrepFits(Resting)
  BY DEF Resting, PrepTyped, PrepFits
<1>2. ASSUME NEW r, PrepTyped(r), PrepFits(r)
      PROVE  PrepTyped(Ended(r)) /\ PrepFits(Ended(r))
  <2>1. Ended(r) = [pc |-> "idle", model |-> NoModel, head |-> 0, lanes |-> << >>,
                    made |-> 0, batch |-> r.batch]
    BY DEF Ended, Resting
  <2>2. r.batch \in BOOLEAN
    BY <1>2 DEF PrepTyped
  <2>3. PrepTyped(Ended(r))
    BY <2>1, <2>2 DEF PrepTyped
  <2> QED BY <1>2, <2>1, <2>3 DEF PrepFits
<1> QED BY <1>1, <1>2

\* The commits before the hand-out.
LEMMA CommitsKeeps ==
    ASSUME CInv, NEW q \in Preparer, NEW c, NEW r, PrepTyped(r), PrepFits(r), Commits(q, c, r)
    PROVE  CInv'
<1>1. PrepTyped(Ended(prep[q])) /\ PrepFits(Ended(prep[q]))
  BY EndedFits DEF CInv
<1>2. CASE log' = log
  <2>1. Now(q, r) \/ Now(q, Ended(prep[q]))
    BY DEF Commits
  <2> QED BY <1>1, <1>2, <2>1, GoingOnKeeps DEF Commits
<1>3. CASE HandedOut /\ log' = Append(log, OtherCommit) /\ Now(q, r)
  <2>1. OtherCommit \in Commit
    BY DEF OtherCommit, Commit, NoCut
  <2>2. UNCHANGED <<imp, bound, packages, receipts>> /\ log \in Seq(Commit)
    BY DEF Commits, files, CInv, IInv, TypeOK
  <2>3. IInv'
    BY <1>3, <2>1, <2>2, CommitKeepsInv DEF CInv, IInv, TypeOK
  <2>4. HandedOut'
    BY <1>3, <2>2 DEF HandedOut
  <2>5. FilesFit'
    BY <2>2, <2>4 DEF CInv, FilesFit
  <2>6. DOMAIN prep' = Preparer /\ \A o \in Preparer : PrepTyped(prep'[o]) /\ PrepFits(prep'[o])
    BY <1>3 DEF CInv, Now
  <2>7. \A o \in Preparer : PrepFits(prep[o])'
    <3> TAKE o \in Preparer
    <3>1. PrepFits(prep'[o])
      BY <2>6
    <3> QED BY <1>3, <2>2, <2>4, <3>1 DEF PrepFits, PublishedUpTo
  <2> QED BY <1>3, <2>2, <2>3, <2>4, <2>5, <2>6, <2>7 DEF CInv
<1> QED BY <1>2, <1>3 DEF Commits

\* The hand-out itself, when nobody has rivals.
LEMMA HandOutKeeps ==
    ASSUME NoRivals, CInv, NEW q \in Preparer, SendHandOut(q)
    PROVE  CInv'
<1>1. PICK r : r = prep[q]
  OBVIOUS
<1>2. PrepTyped(r) /\ PrepFits(r) /\ r.pc = "assign" /\ r.head # 0 /\ r.model \in Model
  BY <1>1 DEF CInv, SendHandOut, Doing, PrepFits
<1>3. PICK goes : goes = [r EXCEPT !.pc = "files", !.head = 0]
  OBVIOUS
<1>4. /\ PrepTyped(goes) /\ goes.pc = "files" /\ goes.model = r.model /\ goes.made = 0
      /\ goes.batch = r.batch
  BY <1>2, <1>3 DEF PrepTyped, PrepFits
<1>5. Len(Order) \in Nat /\ DOMAIN Order = 1..Len(Order)
  OBVIOUS
<1>6. PublishedUpTo(0)
  BY <1>5 DEF PublishedUpTo
<1>7. CASE ~HandedOut /\ log' = << Handout >> /\ bound' = r.model /\ Now(q, goes)
           /\ UNCHANGED <<imp, plan, files>>
  <2>1. UNCHANGED <<imp, packages, receipts>> /\ log = << >>
    BY <1>7 DEF files, HandedOut
  <2>2. log' = Append(log, Handout) /\ Handout \in Commit
    BY <1>7, <2>1 DEF Handout, Commit, NoCut
  <2>3. IInv' /\ HandedOut'
    BY <1>7, <2>1, <2>2, CommitKeepsInv DEF CInv, IInv, TypeOK, HandedOut
  <2>4. FilesFit'
    BY <1>7, <2>1 DEF CInv, FilesFit
  <2>5. DOMAIN prep' = Preparer /\ prep'[q] = goes
        /\ \A o \in Preparer : PrepTyped(prep'[o]) /\ (o # q => prep'[o] = prep[o])
    BY <1>4, <1>7 DEF CInv, Now
  <2>6. PrepFits(prep[q])'
    <3>1. ~r.batch
      BY <1>2, <1>7 DEF PrepFits
    <3>2. PublishedUpTo(0)'
      BY <1>5 DEF PublishedUpTo
    <3> QED BY <1>2, <1>4, <1>5, <1>7, <2>3, <2>5, <3>1, <3>2 DEF PrepFits
  <2>7. ASSUME NEW o \in Preparer, o # q PROVE PrepFits(prep[o])'
    <3>1. PrepFits(prep[o]) /\ prep'[o] = prep[o]
      BY <2>5, <2>7 DEF CInv
    <3> QED BY <1>7, <2>7, <3>1 DEF PrepFits
  <2> QED BY <1>2, <1>7, <2>3, <2>4, <2>5, <2>6, <2>7 DEF CInv
<1>8. CASE HandedOut /\ Moves(q, goes)
  <2>1. r.model = bound
    BY <1>2, <1>8 DEF NoRivals, PrepFits, CInv
  <2>2. PrepFits(goes)
    BY <1>2, <1>4, <1>5, <1>6, <1>8, <2>1 DEF PrepFits
  <2> QED BY <1>4, <1>8, <2>2, GoingOnKeeps DEF Moves, vars
<1>9. CASE Moves(q, Ended(r))
  BY <1>2, <1>9, EndedFits, GoingOnKeeps DEF Moves, vars
<1> QED BY <1>1, <1>3, <1>7, <1>8, <1>9 DEF SendHandOut

\* The next file of a preparation.
LEMMA PublishKeeps ==
    ASSUME CInv, NEW q \in Preparer, Publish(q)
    PROVE  CInv'
<1>1. PICK r : r = prep[q]
  OBVIOUS
<1>2. /\ PrepTyped(r) /\ PrepFits(r) /\ r.pc = "files" /\ r.model = bound /\ HandedOut
      /\ r.made \in Nat /\ r.made <= 2 * Len(Order) /\ PublishedUpTo(r.made)
  BY <1>1 DEF CInv, Publish, Doing, PrepFits, PrepTyped
<1>3. Len(Order) \in Nat /\ DOMAIN Order = 1..Len(Order)
  OBVIOUS
<1>4. UNCHANGED <<log, imp, bound>>
  BY DEF Publish, vars
<1>5. IInv' /\ HandedOut'
  BY <1>2, <1>4 DEF CInv, IInv, TypeOK, HandedOut
<1>6. CASE r.made = 2 * Len(Order)
  <2>1. Now(q, [r EXCEPT !.pc = "inbox"]) /\ UNCHANGED files
    BY <1>1, <1>6 DEF Publish
  <2>2. PICK s : s = [r EXCEPT !.pc = "inbox"]
    OBVIOUS
  <2>3. PrepTyped(s) /\ s.pc = "inbox" /\ s.model = r.model /\ s.made = r.made
        /\ s.batch = r.batch
    BY <1>2, <2>2 DEF PrepTyped
  <2>4. PrepFits(s)
    BY <1>2, <1>6, <2>3 DEF PrepFits
  <2> QED BY <1>4, <2>1, <2>2, <2>3, <2>4, GoingOnKeeps
<1>7. CASE r.made # 2 * Len(Order)
  <2>1. PICK i \in DOMAIN Order : (r.made \div 2) + 1 = i
                                 /\ (r.made % 2 = 0 => r.made + 1 = 2 * i - 1)
                                 /\ (r.made % 2 # 0 => r.made + 1 = 2 * i)
    <3>1. r.made < 2 * Len(Order)
      BY <1>2, <1>3, <1>7
    <3>2. /\ r.made \div 2 \in Nat /\ r.made % 2 \in {0, 1}
          /\ r.made = 2 * (r.made \div 2) + (r.made % 2)
      BY <1>2
    <3>3. (r.made \div 2) + 1 \in DOMAIN Order
      BY <1>3, <3>1, <3>2
    <3> QED BY <3>2, <3>3
  <2>2. PICK pkg : pkg = Package(Order[i], bound)
    OBVIOUS
  <2>3. /\ Now(q, [r EXCEPT !.made = r.made + 1])
        /\ \/ r.made % 2 = 0 /\ packages' = packages \cup {pkg} /\ UNCHANGED receipts
           \/ r.made % 2 # 0 /\ receipts' = receipts \cup {pkg} /\ UNCHANGED packages
    BY <1>1, <1>2, <1>7, <2>1, <2>2 DEF Publish
  <2>4. PICK s : s = [r EXCEPT !.made = r.made + 1]
    OBVIOUS
  <2>5. /\ PrepTyped(s) /\ s.pc = "files" /\ s.model = r.model /\ s.made = r.made + 1
        /\ s.batch = r.batch
    BY <1>2, <2>4 DEF PrepTyped
  <2>6. FilesFit'
    <3>1. pkg.slot = Order[i] /\ Order[i] \in Slot
      BY <2>2 DEF Package
    <3> QED BY <1>4, <1>5, <2>2, <2>3, <3>1 DEF CInv, FilesFit
  <2>7. \A n : PublishedUpTo(n) => PublishedUpTo(n)'
    BY <1>4, <2>3 DEF PublishedUpTo
  <2>8. PublishedUpTo(s.made)'
    <3> SUFFICES ASSUME NEW j \in DOMAIN Order
                 PROVE  /\ 2 * j - 1 <= r.made + 1 => Package(Order[j], bound) \in packages'
                        /\ 2 * j <= r.made + 1 => Package(Order[j], bound) \in receipts'
      BY <1>4, <2>5 DEF PublishedUpTo
    <3>1. /\ 2 * j - 1 <= r.made => Package(Order[j], bound) \in packages'
          /\ 2 * j <= r.made => Package(Order[j], bound) \in receipts'
      BY <1>2, <2>3 DEF PublishedUpTo
    <3>2. i \in Nat /\ j \in Nat
      BY <1>3
    <3>3. CASE r.made % 2 = 0
      <4>1. r.made + 1 = 2 * i - 1 /\ pkg \in packages'
        BY <2>1, <2>3, <3>3
      <4>2. 2 * j - 1 <= r.made + 1 => j = i \/ 2 * j - 1 <= r.made
        BY <1>2, <3>2, <4>1
      <4>3. 2 * j <= r.made + 1 => 2 * j <= r.made
        BY <1>2, <3>2, <4>1
      <4> QED BY <2>2, <3>1, <4>1, <4>2, <4>3
    <3>4. CASE r.made % 2 # 0
      <4>1. r.made + 1 = 2 * i /\ pkg \in receipts'
        BY <2>1, <2>3, <3>4
      <4>2. 2 * j - 1 <= r.made + 1 => 2 * j - 1 <= r.made
        BY <1>2, <3>2, <4>1
      <4>3. 2 * j <= r.made + 1 => j = i \/ 2 * j <= r.made
        BY <1>2, <3>2, <4>1
      <4> QED BY <2>2, <3>1, <4>1, <4>2, <4>3
    <3> QED BY <3>3, <3>4
  <2>9. DOMAIN prep' = Preparer /\ prep'[q] = s
        /\ \A o \in Preparer : PrepTyped(prep'[o]) /\ (o # q => prep'[o] = prep[o])
    BY <2>3, <2>4, <2>5, <1>1 DEF CInv, Now
  <2>10. PrepFits(prep[q])'
    <3>1. r.made + 1 <= 2 * Len(Order)
      BY <1>2, <1>3, <1>7
    <3>2. r.batch => PublishedUpTo(2 * Len(Order))'
      BY <1>2, <1>3, <1>4, <2>7 DEF PrepFits
    <3> QED BY <1>2, <1>4, <1>5, <2>5, <2>8, <2>9, <3>1, <3>2 DEF PrepFits
  <2>11. ASSUME NEW o \in Preparer, o # q PROVE PrepFits(prep[o])'
    <3>1. PrepFits(prep[o]) /\ prep'[o] = prep[o]
      BY <2>9, <2>11 DEF CInv
    <3> QED BY <1>2, <1>4, <1>5, <2>7, <3>1 DEF PrepFits
  <2> QED BY <1>2, <1>4, <1>5, <2>6, <2>9, <2>10, <2>11 DEF CInv
<1> QED BY <1>6, <1>7

\* The other steps of a preparer only go on.
LEMMA PreparerKeeps ==
    ASSUME NoRivals, CInv, NEW q \in Preparer,
           Prepares(q) \/ Stops(q) \/ \E m \in Model : Prepare(q, m)
    PROVE  CInv'
<1>1. PICK r : r = prep[q]
  OBVIOUS
<1>2. PrepTyped(r) /\ PrepFits(r) /\ PrepTyped(Resting) /\ PrepFits(Resting)
      /\ PrepTyped(Ended(r)) /\ PrepFits(Ended(r))
  BY <1>1, EndedFits DEF CInv
<1>3. \A x : PrepTyped(x) /\ PrepFits(x) /\ Moves(q, x) => CInv'
  BY GoingOnKeeps DEF Moves, vars
<1>4. \A c, x : PrepTyped(x) /\ PrepFits(x) /\ Commits(q, c, x) => CInv'
  BY CommitsKeeps
\* At a step before the files, a call goes on to another step or head.
<1>5. ASSUME NEW x, PrepTyped(x), x.pc \in {"stage", "lanes", "lane", "assign"},
             x.model = r.model, x.made = r.made, x.batch = r.batch,
             r.pc \notin {"idle", "files", "inbox"},
             x.pc = "assign" => x.head = 0 \/ ~HandedOut,
             x.pc = "lanes" => x.head = 0
      PROVE  PrepFits(x)
  BY <1>2, <1>5 DEF PrepFits
<1>6. ASSUME NEW m \in Model, Prepare(q, m) PROVE CInv'
  <2>1. PICK x : x = [Resting EXCEPT !.pc = "status", !.model = m]
    OBVIOUS
  <2>2. x.pc = "status" /\ x.model = m /\ x.made = 0 /\ x.batch = FALSE /\ PrepTyped(x)
        /\ x.head = 0
    BY <1>2, <2>1 DEF Resting, PrepTyped
  <2>3. PrepFits(x)
    BY <2>2 DEF PrepFits
  <2> QED BY <1>3, <1>6, <2>1, <2>2, <2>3 DEF Prepare
<1>7. CASE Stops(q)
  BY <1>2, <1>3, <1>7 DEF Stops
<1>8. CASE ReadStatus(q)
  <2>1. PICK x : x = [r EXCEPT !.pc = IF Specified(StageSpec) THEN "lanes" ELSE "stage"]
    OBVIOUS
  <2>2. PrepTyped(x) /\ x.pc \in {"stage", "lanes"} /\ x.model = r.model
        /\ x.made = r.made /\ x.batch = r.batch /\ x.head = 0
    BY <1>1, <1>2, <1>8, <2>1 DEF PrepTyped, PrepFits, ReadStatus, Doing
  <2> QED BY <1>1, <1>3, <1>5, <1>8, <2>1, <2>2 DEF ReadStatus, Doing
<1>9. CASE BeginStage(q) \/ BeginLane(q)
  <2>1. PICK x : x = [r EXCEPT !.head = HeadSeq]
    OBVIOUS
  <2>2. PrepTyped(x) /\ x.pc = r.pc /\ x.model = r.model
        /\ x.made = r.made /\ x.batch = r.batch
    BY <1>2, <2>1 DEF PrepTyped
  <2> QED BY <1>1, <1>2, <1>3, <1>5, <1>9, <2>1, <2>2
             DEF BeginStage, BeginLane, Unparented, Doing
<1>10. CASE SendStage(q)
  <2>1. PICK x : x = [r EXCEPT !.pc = "lanes", !.head = 0]
    OBVIOUS
  <2>2. PrepTyped(x) /\ x.pc = "lanes" /\ x.model = r.model
        /\ x.made = r.made /\ x.batch = r.batch /\ x.head = 0
    BY <1>2, <2>1 DEF PrepTyped
  <2> QED BY <1>1, <1>4, <1>5, <1>10, <2>1, <2>2 DEF SendStage, Doing
<1>11. CASE ReadLanes(q)
  <2>1. PICK x : x = [r EXCEPT !.lanes = MissingLanes,
                               !.pc = IF MissingLanes = << >> THEN "assign" ELSE "lane"]
    OBVIOUS
  <2>2. PrepTyped(x) /\ x.pc \in {"lane", "assign"} /\ x.model = r.model
        /\ x.made = r.made /\ x.batch = r.batch /\ x.head = 0
    BY <1>1, <1>2, <1>11, <2>1 DEF PrepTyped, PrepFits, ReadLanes, Doing
  <2> QED BY <1>1, <1>3, <1>5, <1>11, <2>1, <2>2 DEF ReadLanes, Doing
<1>12. CASE SendLane(q)
  <2> DEFINE rest == Tail(r.lanes)
  <2>1. PICK x : x = [r EXCEPT !.head = 0, !.lanes = rest,
                               !.pc = IF rest = << >> THEN "assign" ELSE "lane"]
    OBVIOUS
  <2>2. PrepTyped(x) /\ x.pc \in {"lane", "assign"} /\ x.model = r.model
        /\ x.made = r.made /\ x.batch = r.batch /\ x.head = 0
    BY <1>2, <2>1 DEF PrepTyped
  <2> QED BY <1>1, <1>4, <1>5, <1>12, <2>1, <2>2 DEF SendLane, Doing
<1>13. CASE BeginHandOut(q)
  <2>1. PICK x : x = [r EXCEPT !.head = HeadSeq]
    OBVIOUS
  <2>2. PrepTyped(x) /\ x.pc = r.pc /\ x.model = r.model
        /\ x.made = r.made /\ x.batch = r.batch
    BY <1>2, <2>1 DEF PrepTyped
  <2>3. PICK y : y = [r EXCEPT !.pc = "files"]
    OBVIOUS
  <2>4. PrepTyped(y) /\ y.pc = "files" /\ y.model = r.model
        /\ y.made = r.made /\ y.batch = r.batch
    BY <1>2, <2>3 DEF PrepTyped
  <2>5. r.pc = "assign" /\ r.made = 0
    BY <1>1, <1>2, <1>13 DEF BeginHandOut, Unparented, Doing, PrepFits
  <2>6. CASE ~HandedOut /\ Moves(q, x)
    BY <1>3, <1>5, <2>2, <2>5, <2>6
  <2>7. CASE HandedOut /\ bound = r.model /\ Moves(q, y)
    <3>1. PublishedUpTo(0) /\ Len(Order) \in Nat
      BY DEF PublishedUpTo
    <3>2. PrepFits(y)
      BY <1>2, <2>4, <2>5, <2>7, <3>1 DEF PrepFits
    <3> QED BY <1>3, <2>4, <2>7, <3>2
  <2>8. CASE Moves(q, Ended(r))
    BY <1>2, <1>3, <2>8
  <2> QED BY <1>1, <1>13, <2>1, <2>3, <2>6, <2>7, <2>8 DEF BeginHandOut
<1>14. CASE MakeInbox(q)
  <2>1. PICK x : x = [Ended(r) EXCEPT !.batch = Loadable(Len(log))]
    OBVIOUS
  <2>2. /\ PrepTyped(x) /\ x.pc = "idle" /\ x.made = 0 /\ x.head = 0
    BY <1>2, <2>1 DEF PrepTyped, Loadable, Ended, Resting
  <2>3. HandedOut /\ PublishedUpTo(2 * Len(Order))
    BY <1>1, <1>2, <1>14 DEF MakeInbox, Doing, PrepFits
  <2>4. PrepFits(x)
    BY <2>2, <2>3 DEF PrepFits
  <2> QED BY <1>1, <1>3, <1>14, <2>1, <2>2, <2>4 DEF MakeInbox
<1> QED
  BY <1>6, <1>7, <1>8, <1>9, <1>10, <1>11, <1>12, <1>13, <1>14, PublishKeeps,
     HandOutKeeps DEF Prepares

\* Every reachable state of the campaign.
LEMMA CampaignInvHolds ==
    ASSUME NoRivals
    PROVE  CampaignSpec => []CInv
<1>1. CampaignInit => CInv
  <2> SUFFICES ASSUME CampaignInit PROVE CInv
    OBVIOUS
  <2>1. IInv
    BY ClosedProper DEF CampaignInit, IInv, TypeOK, Proper
  <2>2. ~HandedOut /\ \A p \in Importer : imp[p].pc = "closed"
    BY DEF CampaignInit, HandedOut, ClosedInbox
  <2> QED BY <2>1, <2>2, EndedFits DEF CampaignInit, CInv, FilesFit
<1>2. CInv /\ [CampaignNext]_campaign => CInv'
  <2> SUFFICES ASSUME CInv, [CampaignNext]_campaign PROVE CInv'
    OBVIOUS
  <2>1. ASSUME NEW q \in Preparer,
               Prepares(q) \/ Stops(q) \/ \E m \in Model : Prepare(q, m)
        PROVE  CInv'
    BY <2>1, PreparerKeeps
  <2>2. ASSUME NEW p \in Importer, OpensBatch(p) \/ Imports(p)
        PROVE  CInv'
    <3>1. UNCHANGED Rest
      BY <2>2 DEF OpensBatch, Imports
    <3>2. [Next]_vars
      BY <2>2 DEF OpensBatch, Imports, Next
    <3>3. HandedOut
      <4>1. CASE OpensBatch(p)
        BY <4>1 DEF OpensBatch, Loads
      <4>2. CASE imp[p].pc # "closed"
        BY <4>2 DEF CInv
      <4>3. Imports(p) => imp[p].pc # "closed"
        BY DEF Imports, Working, Crash, Import, ReadHead, CutLost, Opened, Take,
           FindAssignment, Look, Begin, EvidenceAdmitted, Reload, Summary, Finalize,
           Settle, AtCut, AtSend, SendEvidence, SendResult, SendCompletion, CutReads, Sends
      <4> QED BY <2>2, <4>1, <4>2, <4>3
    <3> QED BY <3>1, <3>2, <3>3, ImporterKeeps
  <2>3. CASE ElsewhereToo
    <3>1. HandedOut /\ UNCHANGED Rest /\ [Next]_vars
      BY <2>3 DEF ElsewhereToo, Next
    <3> QED BY <3>1, ImporterKeeps
  <2>4. CASE UNCHANGED campaign
    <3>1. UNCHANGED <<log, imp, plan, bound, prep, packages, receipts>>
      BY <2>4 DEF campaign, vars, files
    <3>2. HandedOut' = HandedOut /\ IInv'
      BY <3>1 DEF HandedOut, CInv, IInv, TypeOK
    <3>3. FilesFit' /\ \A r : PrepFits(r) => PrepFits(r)'
      BY <3>1, <3>2 DEF CInv, FilesFit, PrepFits, PublishedUpTo
    <3>4. \A q \in Preparer : PrepFits(prep[q])'
      BY <3>1, <3>2, <3>3 DEF CInv, PrepFits, PublishedUpTo
    <3> QED BY <3>1, <3>2, <3>3, <3>4 DEF CInv
  <2> QED BY <2>1, <2>2, <2>3, <2>4 DEF CampaignNext
<1> QED BY <1>1, <1>2, PTL DEF CampaignSpec

\* Once a preparation has returned its batch the campaign resumes with it, whatever
\* preparations died or run beside it, if no two of them differ in their settings
\* (packaging.py, package_resume.py).
THEOREM PreparedCampaignsResume ==
    ASSUME (\A q, o \in Preparer : q = o) \/ (\A m, n \in Model : m = n)
    PROVE  CampaignSpec => []PreparedResumes
<1>1. CInv => PreparedResumes
  <2> SUFFICES ASSUME CInv, NEW q \in Preparer, prep[q].batch PROVE Loads
    BY DEF PreparedResumes, ResumeSays
  <2>1. HandedOut /\ PublishedUpTo(2 * Len(Order))
    BY DEF CInv, PrepFits
  <2>2. \A s \in Slot : Package(s, bound) \in packages /\ Package(s, bound) \in receipts
    <3>1. Len(Order) \in Nat /\ DOMAIN Order = 1..Len(Order)
      OBVIOUS
    <3>2. \A i \in DOMAIN Order : 2 * i - 1 <= 2 * Len(Order) /\ 2 * i <= 2 * Len(Order)
      BY <3>1
    <3> QED BY <2>1, <3>2 DEF PublishedUpTo
  <2>3. packages \subseteq receipts
    BY <2>2 DEF CInv, FilesFit
  <2>4. \A pkg \in packages : pkg.model = bound
    BY DEF CInv, FilesFit, Package
  <2>5. ASSUME NEW s \in Slot
        PROVE  Cardinality({pkg \in packages : pkg.slot = s}) = 1
    <3>1. {pkg \in packages : pkg.slot = s} = {Package(s, bound)}
      BY <2>2 DEF CInv, FilesFit, Package
    <3> QED BY <3>1, FS_Singleton
  <2> QED BY <2>1, <2>3, <2>4, <2>5 DEF Loads
<1>2. NoRivals
  BY DEF NoRivals
<1>3. CampaignSpec => []CInv
  BY <1>2, CampaignInvHolds
<1> QED BY <1>1, <1>3, PTL

-----------------------------------------------------------------------------
\* What the inbox alone promises it promises in the campaign.

\* A step of a preparer leaves the importers alone and commits nothing of theirs.
LEMMA PreparersCommit ==
    ASSUME log \in Seq(Commit), NEW q \in Preparer,
           Prepares(q) \/ Stops(q) \/ \E m \in Model : Prepare(q, m)
    PROVE  /\ imp' = imp
           /\ log' = log \/ \E c \in {Handout, OtherCommit} : log' = Append(log, c)
<1>1. CASE Stops(q) \/ (\E m \in Model : Prepare(q, m))
  BY <1>1 DEF Stops, Prepare, Moves, vars
<1>2. CASE SendStage(q) \/ SendLane(q)
  <2>1. PICK c, r : Commits(q, c, r)
    BY <1>2 DEF SendStage, SendLane
  <2> QED BY <2>1 DEF Commits
<1>3. CASE SendHandOut(q)
  <2>1. CASE log' = << Handout >> /\ imp' = imp /\ ~HandedOut
    BY <2>1 DEF HandedOut
  <2>2. CASE \E r : Moves(q, r)
    BY <2>2 DEF Moves, vars
  <2> QED BY <1>3, <2>1, <2>2 DEF SendHandOut
<1>4. CASE ReadStatus(q) \/ BeginStage(q) \/ ReadLanes(q) \/ BeginLane(q) \/ BeginHandOut(q)
           \/ MakeInbox(q)
  BY <1>4 DEF ReadStatus, BeginStage, ReadLanes, BeginLane, BeginHandOut, MakeInbox, Moves, vars
<1>5. CASE Publish(q)
  BY <1>5 DEF Publish, vars
<1> QED BY <1>1, <1>2, <1>3, <1>4, <1>5 DEF Prepares

\* A step of the campaign is one of the inbox, or a commit of no result and no
\* completion.
LEMMA CampaignSteps ==
    ASSUME log \in Seq(Commit), [CampaignNext]_campaign
    PROVE  \/ [Next]_vars
           \/ imp' = imp /\ \E c \in {Handout, OtherCommit} : log' = Append(log, c)
<1>1. ASSUME NEW p \in Importer, OpensBatch(p) \/ Imports(p) PROVE [Next]_vars
  BY <1>1 DEF OpensBatch, Imports, Next
<1>2. CASE ElsewhereToo
  BY <1>2 DEF ElsewhereToo, Next
<1>3. CASE UNCHANGED campaign
  BY <1>3 DEF campaign, vars
<1> QED BY <1>1, <1>2, <1>3, PreparersCommit DEF CampaignNext, vars

\* The invariants of the inbox hold in the campaign.
LEMMA CampaignKeepsIInv == CampaignSpec => []IInv
<1>1. CampaignInit => IInv
  BY ClosedProper DEF CampaignInit, IInv, TypeOK, Proper
<1>2. IInv /\ [CampaignNext]_campaign => IInv'
  <2> SUFFICES ASSUME IInv, [CampaignNext]_campaign PROVE IInv'
    OBVIOUS
  <2>1. Handout \in Commit /\ OtherCommit \in Commit
    BY DEF Handout, OtherCommit, Commit, NoCut
  <2>2. log \in Seq(Commit) /\ imp \in [Importer -> Inbox]
    BY DEF IInv, TypeOK
  <2> QED BY <2>1, <2>2, CampaignSteps, NextIInv, CommitKeepsInv
<1> QED BY <1>1, <1>2, PTL DEF CampaignSpec

\* Also while E1 is still being prepared, an inbox says nothing that the history
\* does not hold.
THEOREM CampaignsSayWhatIsAccepted == CampaignSpec => []ReportsAreBacked
  BY CampaignKeepsIInv, IInvBacks, PTL

\* With one importer, a campaign gets one result for each assignment and completes
\* E1 once, whoever prepares it and however often.
THEOREM CampaignOneResult ==
    ASSUME \A p, q \in Importer : p = q
    PROVE  CampaignSpec => [](OneResultPerAssignment /\ OneStageCompletion)
<1>1. Alone
  BY DEF Alone
<1>2. CampaignInit => AInv
  <2>1. CampaignInit => IInv
    BY ClosedProper DEF CampaignInit, IInv, TypeOK, Proper
  <2> QED BY <2>1 DEF CampaignInit, AInv, Single, ClosedInbox, Unrivalled, Admitting, Completing
<1>3. AInv /\ [CampaignNext]_campaign => AInv'
  <2> SUFFICES ASSUME AInv, [CampaignNext]_campaign PROVE AInv'
    OBVIOUS
  <2>1. log \in Seq(Commit) /\ imp \in [Importer -> Inbox] /\ Single(log)
    BY DEF AInv, IInv, TypeOK
  <2>2. ASSUME imp' = imp, NEW c \in {Handout, OtherCommit}, log' = Append(log, c) PROVE AInv'
    <3>1. c \in Commit /\ c.kind \notin {"result", "completion"}
      BY DEF Handout, OtherCommit, Commit, NoCut
    <3>2. IInv'
      BY <2>1, <2>2, <3>1, CommitKeepsInv DEF AInv
    <3>3. Single(log') /\ \A p \in Importer : Unrivalled(log', imp'[p])
      BY <2>1, <2>2, <3>1, NeutralCommit DEF AInv
    <3> QED BY <3>2, <3>3 DEF AInv
  <2> QED BY <1>1, <2>1, <2>2, CampaignSteps, AloneNext
<1> QED BY <1>1, <1>2, <1>3, AInvSingles, PTL DEF CampaignSpec
=============================================================================
