------------------------- MODULE AcceptedHistoryProofs -------------------------
(***************************************************************************)
(* Theorems about the abstract history, for every set of jobs, objects and *)
(* references.  The inductive invariant is the conjunction of the safety   *)
(* properties: the chain is what makes a cut an earlier head, and the type *)
(* of the log is what makes a commit of it an envelope with an identity.   *)
(***************************************************************************)
EXTENDS AcceptedHistory, SequenceTheorems, TLAPS

USE HistoryAssumption

-----------------------------------------------------------------------------
\* What the accepted history is built from is typed.

\* The head of a log is a head.
LEMMA HeadOfTyped ==
    ASSUME NEW l \in Seq(CommitType)
    PROVE  HeadOf(l) \in AcceptedHead
<1>1. CASE l = << >>
  BY <1>1 DEF HeadOf, EMPTY_HISTORY, AcceptedHead
<1>2. CASE l # << >>
  <2>1. l[Len(l)] \in CommitType
    BY <1>2
  <2>2. QED
    BY <1>2, <2>1 DEF HeadOf, CommitType
<1>3. QED
  BY <1>1, <1>2

\* What a commit is made of is of its type, whatever request it is made from.
LEMMA CommitOfTyped ==
    ASSUME NEW r \in Request, NEW h \in AcceptedHead
    PROVE  CommitOf(r, h) \in CommitType
<1>1. r.job \in Job /\ r.parent \in AcceptedHead /\ r.cut \in AcceptedHead
  BY DEF Request
<1>2. Detail[r.job] \in JobDetail
  BY <1>1
<1>3. Envelope(r) \in EnvelopeType
  BY <1>1, <1>2 DEF Envelope, EnvelopeType, JobDetail
<1>4. Append(h, r.job) \in AcceptedHead
  BY <1>1 DEF AcceptedHead
<1>5. ClaimedCut(r) \in Cut
  <2>1. CASE Detail[r.job].claim \in 1..Len(r.parent)
    <3>1. \A i \in 1..Detail[r.job].claim : r.parent[i] \in Job
      BY <1>1, <1>2, <2>1 DEF AcceptedHead, JobDetail
    <3>2. Detail[r.job].claim \in Int
      BY <1>2 DEF JobDetail
    <3>3. SubSeq(r.parent, 1, Detail[r.job].claim) \in Seq(Job)
      BY <3>1, <3>2, SubSeqProperties
    <3>4. QED
      BY <2>1, <3>3 DEF ClaimedCut, Cut, AcceptedHead
  <2>2. CASE Detail[r.job].claim \notin 1..Len(r.parent)
    BY <2>2 DEF ClaimedCut, Cut
  <2>3. QED
    BY <2>1, <2>2
<1>6. ASSUME NEW o \in Detail[r.job].objs
      PROVE  [name |-> o, cut |-> CutOf(o, r)] \in RowType
  <2>1. CutOf(o, r) \in Cut
    BY <1>1, <1>5 DEF CutOf, Cut
  <2>2. o \in Obj
    BY <1>2 DEF JobDetail
  <2>3. QED
    BY <2>1, <2>2 DEF RowType
<1>7. Rows(r) \in SUBSET RowType
  BY <1>6 DEF Rows
<1>8. Detail[r.job].facts \in Seq(Fact)
  BY <1>2 DEF JobDetail
<1>9. QED
  BY <1>3, <1>4, <1>7, <1>8 DEF CommitOf, CommitType

\* A commit appended to a log: positions, and what is already there.
LEMMA AppendCommit ==
    ASSUME NEW l \in Seq(CommitType), NEW c \in CommitType
    PROVE  /\ Append(l, c) \in Seq(CommitType)
           /\ DOMAIN Append(l, c) = DOMAIN l \cup {Len(l) + 1}
           /\ DOMAIN l = 1..Len(l)
           /\ Len(l) \in Nat
           /\ \A n \in DOMAIN l : Append(l, c)[n] = l[n]
           /\ Append(l, c)[Len(l) + 1] = c
  OBVIOUS

-----------------------------------------------------------------------------

Inv == /\ TypeOK
       /\ ChainIntact
       /\ CommandsOnce
       /\ CutsAreEarlierHeads
       /\ PriorStrictlyEarlier
       /\ ContextContinuity
       /\ AcksAreCommitted

\* The empty history satisfies every part of the invariant.
LEMMA InitInv == Init => Inv
  BY DEF Init, Inv, TypeOK, ChainIntact, CommandsOnce, CutsAreEarlierHeads,
         PriorStrictlyEarlier, ContextContinuity, AcksAreCommitted

\* An admitted command keeps the chain, its references and its context in order.
LEMMA AcceptInv ==
    ASSUME Inv, NEW j \in Job, Accept(j)
    PROVE  Inv'
<1> DEFINE h == HeadOf(log)
           r == Current(j)
           c == CommitOf(r, h)
<1>1. log \in Seq(CommitType) /\ acks \subseteq ReceiptType
  BY DEF Inv, TypeOK
<1>2. h \in AcceptedHead
  BY <1>1, HeadOfTyped
<1>3. r \in Request /\ r.job = j /\ r.parent = h /\ r.cut = h
  BY <1>2 DEF Current, Request
<1>4. c \in CommitType
  BY <1>2, <1>3, CommitOfTyped
<1>5. log' = Append(log, c) /\ acks' = acks
  BY DEF Accept
<1>6. /\ log' \in Seq(CommitType)
      /\ DOMAIN log' = DOMAIN log \cup {Len(log) + 1}
      /\ DOMAIN log = 1..Len(log)
      /\ Len(log) \in Nat
      /\ \A n \in DOMAIN log : log'[n] = log[n]
      /\ log'[Len(log) + 1] = c
  BY <1>1, <1>4, <1>5, AppendCommit
<1>7. h = IF Len(log) = 0 THEN EMPTY_HISTORY ELSE log[Len(log)].hash
  BY <1>1 DEF HeadOf
<1>8. /\ c.command = Envelope(r) /\ c.prev = h /\ c.hash = Append(h, j)
      /\ c.rows = Rows(r)
  BY <1>3 DEF CommitOf
<1>9. /\ ContextInForce(r, log) /\ CutsBind(r, h, log) /\ PriorIsAccepted(r, log)
      /\ Detail[j].id \notin CommandIds(log)
  BY DEF Accept, Admissible
<1>10. TypeOK'
  BY <1>1, <1>5, <1>6 DEF TypeOK
<1>11. ChainIntact'
  <2>1. c.command.parent = h
    BY <1>3, <1>8 DEF Envelope
  <2>2. Len(Append(h, j)) = Len(log) + 1
    <3>1. CASE Len(log) = 0
      BY <3>1, <1>7 DEF EMPTY_HISTORY
    <3>2. CASE Len(log) # 0
      <4>1. Len(log[Len(log)].hash) = Len(log)
        BY <3>2, <1>6 DEF Inv, ChainIntact
      <4>2. QED
        BY <4>1, <3>2, <1>2, <1>6, <1>7 DEF AcceptedHead
    <3>3. QED
      BY <3>1, <3>2
  <2>3. ASSUME NEW n \in DOMAIN log
        PROVE  /\ log'[n].prev = IF n = 1 THEN EMPTY_HISTORY ELSE log'[n - 1].hash
               /\ log'[n].command.parent = log'[n].prev
               /\ Len(log'[n].hash) = n
    <3>1. n = 1 \/ n - 1 \in DOMAIN log
      BY <1>6
    <3>2. QED
      BY <3>1, <1>6 DEF Inv, ChainIntact
  <2>4. c.prev = IF Len(log) + 1 = 1 THEN EMPTY_HISTORY ELSE log'[Len(log) + 1 - 1].hash
    <3>1. Len(log) + 1 - 1 = Len(log) /\ (Len(log) + 1 = 1 <=> Len(log) = 0)
      BY <1>6
    <3>2. Len(log) # 0 => log'[Len(log)] = log[Len(log)]
      <4>1. Len(log) # 0 => Len(log) \in 1..Len(log)
        BY <1>6
      <4>2. QED
        BY <4>1, <1>6
    <3>3. QED
      BY <3>1, <3>2, <1>7, <1>8
  <2>5. ASSUME NEW n \in DOMAIN log'
        PROVE  /\ log'[n].prev = IF n = 1 THEN EMPTY_HISTORY ELSE log'[n - 1].hash
               /\ log'[n].command.parent = log'[n].prev
               /\ Len(log'[n].hash) = n
    <3>1. CASE n \in DOMAIN log
      BY <3>1, <2>3
    <3>2. CASE n = Len(log) + 1
      <4>1. log'[n] = c
        BY <3>2, <1>6
      <4>2. n - 1 = Len(log) + 1 - 1
        BY <3>2
      <4>3. QED
        BY <3>2, <4>1, <4>2, <2>1, <2>2, <2>4, <1>8
    <3>3. QED
      BY <3>1, <3>2, <1>6
  <2>6. QED
    BY <2>5 DEF ChainIntact
<1>12. CommandsOnce'
  <2>1. c.command.id = Detail[j].id
    BY <1>3, <1>8 DEF Envelope
  <2>2. \A n \in DOMAIN log : log[n].command.id # c.command.id
    BY <2>1, <1>9 DEF CommandIds
  <2>3. QED
    BY <2>2, <1>6 DEF Inv, CommandsOnce
<1>13. CutsAreEarlierHeads'
  <2>1. ASSUME NEW n \in DOMAIN log, NEW row \in log'[n].rows
        PROVE  \/ Shape[row.name].class = "plain"
               \/ row.cut = log'[n].prev
               \/ /\ Shape[row.name].class \in Delivered
                  /\ \E m \in 1..(n - 1) : row.cut = log'[m].hash
    <3>1. \A m \in 1..(n - 1) : m \in DOMAIN log
      BY <1>6
    <3>2. QED
      BY <3>1, <1>6 DEF Inv, CutsAreEarlierHeads
  <2>2. ASSUME NEW row \in c.rows
        PROVE  \/ Shape[row.name].class = "plain"
               \/ row.cut = c.prev
               \/ /\ Shape[row.name].class \in Delivered
                  /\ \E m \in 1..(Len(log) + 1 - 1) : row.cut = log'[m].hash
    BY <1>6, <1>8, <1>9 DEF CutsBind, GenuineCut
  <2>3. QED
    BY <2>1, <2>2, <1>6 DEF CutsAreEarlierHeads
<1>14. PriorStrictlyEarlier'
  <2>1. ASSUME NEW n \in DOMAIN log, NEW row \in log'[n].rows, NEW o \in Shape[row.name].prior
        PROVE  \E m \in 1..(n - 1) : o \in NamesOf(log'[m].rows)
    <3>1. \A m \in 1..(n - 1) : m \in DOMAIN log /\ log'[m] = log[m]
      BY <1>6
    <3>2. log'[n] = log[n]
      BY <1>6
    <3>3. PICK m \in 1..(n - 1) : o \in NamesOf(log[m].rows)
      BY <3>2 DEF Inv, PriorStrictlyEarlier
    <3>4. QED
      BY <3>1, <3>3
  <2>2. ASSUME NEW row \in c.rows, NEW o \in Shape[row.name].prior
        PROVE  \E m \in 1..(Len(log) + 1 - 1) : o \in NamesOf(log'[m].rows)
    <3>1. row.name \in Detail[j].objs
      BY <1>3, <1>8 DEF Rows
    <3>2. o \in NamesOf(RowsOf(log))
      BY <3>1, <1>3, <1>9 DEF PriorIsAccepted
    <3>3. PICK m \in DOMAIN log : o \in NamesOf(log[m].rows)
      BY <3>2 DEF NamesOf, RowsOf
    <3>4. QED
      BY <3>3, <1>6
  <2>3. ASSUME NEW n \in DOMAIN log', NEW row \in log'[n].rows, NEW o \in Shape[row.name].prior
        PROVE  \E m \in 1..(n - 1) : o \in NamesOf(log'[m].rows)
    <3>1. CASE n \in DOMAIN log
      BY <3>1, <2>1
    <3>2. CASE n = Len(log) + 1
      BY <3>2, <2>2, <1>6
    <3>3. QED
      BY <3>1, <3>2, <1>6
  <2>4. QED
    BY <2>3 DEF PriorStrictlyEarlier
<1>15. ContextContinuity'
  <2>1. c.command.ctx = BootstrapContext
    <3>1. c.command.ctx = Detail[j].ctx
      BY <1>3, <1>8 DEF Envelope
    <3>2. CASE log = << >>
      BY <3>1, <3>2, <1>3, <1>9 DEF ContextInForce
    <3>3. CASE log # << >>
      <4>1. Len(log) \in DOMAIN log
        BY <3>3, <1>1
      <4>2. QED
        BY <4>1, <3>1, <3>3, <1>3, <1>9 DEF ContextInForce, Inv, ContextContinuity
    <3>4. QED
      BY <3>2, <3>3
  <2>2. QED
    BY <2>1, <1>6 DEF Inv, ContextContinuity
<1>16. AcksAreCommitted'
  BY <1>5, <1>6 DEF Inv, AcksAreCommitted
<1>17. QED
  BY <1>10, <1>11, <1>12, <1>13, <1>14, <1>15, <1>16 DEF Inv

\* An answer names the commit it is given for.
LEMMA AcknowledgeInv ==
    ASSUME Inv, NEW n \in DOMAIN log, Acknowledge(n)
    PROVE  Inv'
<1>1. log' = log /\ acks' = acks \cup {Receipt(log[n])}
  BY DEF Acknowledge
<1>2. log[n] \in CommitType
  BY DEF Inv, TypeOK
<1>3. Receipt(log[n]) \in ReceiptType
  BY <1>2 DEF Receipt, ReceiptType, CommitType
<1>4. TypeOK'
  BY <1>1, <1>3 DEF Inv, TypeOK
<1>5. AcksAreCommitted'
  BY <1>1 DEF Inv, AcksAreCommitted
<1>6. ChainIntact' /\ CommandsOnce' /\ CutsAreEarlierHeads' /\ PriorStrictlyEarlier'
      /\ ContextContinuity'
  BY <1>1 DEF Inv, ChainIntact, CommandsOnce, CutsAreEarlierHeads,
              PriorStrictlyEarlier, ContextContinuity
<1>7. QED
  BY <1>4, <1>5, <1>6 DEF Inv

\* Every behaviour of the abstract history keeps the whole invariant.
THEOREM Invariance == Spec => []Inv
<1>1. Inv /\ UNCHANGED vars => Inv'
  BY DEF vars, Inv, TypeOK, ChainIntact, CommandsOnce, CutsAreEarlierHeads,
         PriorStrictlyEarlier, ContextContinuity, AcksAreCommitted
<1>2. Inv /\ [Next]_vars => Inv'
  BY <1>1, AcceptInv, AcknowledgeInv DEF Next
<1>3. QED
  BY InitInv, <1>2, PTL DEF Spec

\* Accepted commits are never rewritten, reordered or dropped: the log before a
\* step is a prefix of the log after it.
THEOREM HistoryOnlyGrows == Spec => AppendOnly
<1>1. ASSUME Inv, [Next]_vars
      PROVE  IsPrefix(log, log')
  <2>1. log \in Seq(CommitType)
    BY <1>1 DEF Inv, TypeOK
  <2>2. CASE \E j \in Job : Accept(j)
    <3>1. PICK j \in Job : Accept(j)
      BY <2>2
    <3>2. Current(j) \in Request
      BY <2>1, HeadOfTyped DEF Current, Request
    <3>3. CommitOf(Current(j), HeadOf(log)) \in CommitType
      BY <3>2, <2>1, HeadOfTyped, CommitOfTyped
    <3>4. QED
      BY <2>1, <3>1, <3>3 DEF Accept, IsPrefix
  <2>3. CASE log' = log
    BY <2>1, <2>3 DEF IsPrefix
  <2>4. QED
    BY <1>1, <2>2, <2>3 DEF Next, vars, Acknowledge
<1>2. QED
  BY <1>1, Invariance, PTL DEF AppendOnly, Spec
=============================================================================
