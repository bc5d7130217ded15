---------------------------- MODULE AcceptedHistory ----------------------------
(***************************************************************************)
(* What the canonical history promises its callers, with every accept one  *)
(* indivisible step: a log of commits that only grows, each commit admitted*)
(* against the log before it, each command identity committed once, and    *)
(* acknowledgements that only ever speak of commits in the log.            *)
(***************************************************************************)
EXTENDS HistoryRules

VARIABLES
    log,    \* the accepted commits, in sequence order
    acks    \* acknowledgements given to callers: [command, head]

vars == <<log, acks>>

Init ==
    /\ log = << >>
    /\ acks = {}

\* The request for job j that was built on the present head.
Current(j) == [job |-> j, parent |-> HeadOf(log), cut |-> HeadOf(log)]

\* A new command becomes the next commit.
Accept(j) ==
    /\ Detail[j].id \notin CommandIds(log)
    /\ Admissible(Current(j), HeadOf(log), log, RowsOf(log))
    /\ log' = Append(log, CommitOf(Current(j), HeadOf(log)))
    /\ UNCHANGED acks

\* A caller learns that its command is accepted, once or, on retry, again.
Acknowledge(n) ==
    /\ n \in DOMAIN log
    /\ acks' = acks \cup {Receipt(log[n])}
    /\ UNCHANGED log

Next ==
    \/ \E j \in Job : Accept(j)
    \/ \E n \in DOMAIN log : Acknowledge(n)

Spec == Init /\ [][Next]_vars

-----------------------------------------------------------------------------

TypeOK ==
    /\ log \in Seq(CommitType)
    /\ acks \subseteq ReceiptType

\* The commits form one hash chain from the empty history: each names its
\* predecessor as parent, and its command asked for exactly that parent.
ChainIntact ==
    \A n \in DOMAIN log :
        /\ log[n].prev = IF n = 1 THEN EMPTY_HISTORY ELSE log[n - 1].hash
        /\ log[n].command.parent = log[n].prev
        /\ Len(log[n].hash) = n

\* A command identity is committed at most once, whatever is retried.
CommandsOnce ==
    \A m, n \in DOMAIN log : log[m].command.id = log[n].command.id => m = n

\* A bound object speaks of the exact head its commit extends; a delivered lane
\* result or its evidence speaks of a head this history really had before.
CutsAreEarlierHeads ==
    \A n \in DOMAIN log : \A row \in log[n].rows :
        \/ Shape[row.name].class = "plain"
        \/ row.cut = log[n].prev
        \/ /\ Shape[row.name].class \in Delivered
           /\ \E m \in 1..(n - 1) : row.cut = log[m].hash

\* A PRIOR_ACCEPTED_ONLY reference points into a strictly earlier commit and
\* not only at a row of the object table.
PriorStrictlyEarlier ==
    \A n \in DOMAIN log : \A row \in log[n].rows : \A o \in Shape[row.name].prior :
        \E m \in 1..(n - 1) : o \in NamesOf(log[m].rows)

\* Every commit runs under the context the first one was pinned to.
ContextContinuity ==
    \A n \in DOMAIN log : log[n].command.ctx = BootstrapContext

\* The acknowledgements name commits of the log.
AcksAreCommitted == \A a \in acks : \E n \in DOMAIN log : a = Receipt(log[n])

\* Nothing accepted is ever rewritten, reordered or dropped.
AppendOnly == [][IsPrefix(log, log')]_vars
=============================================================================
