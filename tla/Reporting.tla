------------------------------- MODULE Reporting -------------------------------
(***************************************************************************)
(* The reports on the money: GET /reports/reconciliation and /reports/sarb *)
(* of reporting-service and /agents/stats of agent-service, whose queries  *)
(* run side by side on connections of their own (Promise.all), and GET     *)
(* /ledger/reconcile of ledger-service, whose queries run one after the    *)
(* other. No transaction holds them together: each query sees what is      *)
(* committed when it runs.                                                 *)
(***************************************************************************)
EXTENDS WalletDb

CONSTANTS
    ReportKinds,    \* bound: the reports that may be asked for, one in a behaviour
    LargeAmount,    \* sarb: the amount from which a transaction is listed
    Float           \* stats: the wallet of the agent

VARIABLE report     \* the report somebody asks for, if any

Debits == {r \in rows : r.kind = "DEBIT"}
Credits == {r \in rows : r.kind = "CREDIT"}

\* ledger_entries of account 1100 (every entry that is written is of that account):
\* credits less debits.
LedgerNet ==
    SumOf({e \in ledger : e.type = "CREDIT"}) - SumOf({e \in ledger : e.type = "DEBIT"})

\* isDeleted: false, status: "ACTIVE".
WalletSum == MapThenSumSet(LAMBDA w : balance[w], {w \in Wallets : status[w] = "ACTIVE"})

Queries(kind) ==
    CASE kind = "reconciliation"  -> {"debits", "credits"}
      [] kind = "sarb"            -> {"count", "large", "wallets"}
      [] kind = "ledgerReconcile" -> {"ledgerNet", "walletSum"}
      [] kind = "stats"           -> {"today", "allTime"}
      [] kind = "none"            -> {}

\* Mutant: the fees are counted with the amounts.
DebitTotalWithFees == SumOf(Debits) + FeesOf(Debits)

\* The sums of amount leave feeAmount and the FEE lines out.
DebitTotal == SumOf(Debits)
CreditTotal == SumOf(Credits)

\* All of them are of today here.
FloatLines == {r \in rows : r.wallet = Float}

\* What a query returns if it runs now.
Figure(q) ==
    CASE q = "debits"    -> DebitTotal
      [] q = "credits"   -> CreditTotal
      [] q = "count"     -> Cardinality(Debits)
      [] q = "large"     -> Cardinality({r \in Debits : r.amount >= LargeAmount})
      [] q = "wallets"   -> Cardinality({r.wallet : r \in Debits})
      [] q = "ledgerNet" -> LedgerNet
      [] q = "walletSum" -> WalletSum
      [] q \in {"today", "allTime"} -> Cardinality(FloatLines)

\* Airtime is debited and credited to nobody.
AirtimeSold == SumOf({r \in Debits : r.flow = "airtime"})

\* The truth a report is held against.
Truth ==
    [credits |-> CreditTotal, count |-> Cardinality(Debits), airtime |-> AirtimeSold,
     float |-> Cardinality(FloatLines)]

\* got: the answers so far; from: the truth when the report was asked for.
ReportInit ==
    report \in [kind : ReportKinds \cup {"none"}, asked : {FALSE}, todo : {{}},
                got : {[q \in {} |-> 0]}, from : {Truth}]

AskReport ==
    /\ report.kind # "none" /\ ~ report.asked
    /\ report' = [report EXCEPT !.asked = TRUE, !.todo = Queries(report.kind), !.from = Truth]
    /\ UNCHANGED tables

RunQuery(q) ==
    /\ q \in report.todo
    /\ q = "walletSum" => "ledgerNet" \notin report.todo
    /\ report' = [report EXCEPT
                    !.todo = @ \ {q},
                    !.got = [p \in DOMAIN @ \cup {q} |-> IF p = q THEN Figure(q) ELSE @[p]]]
    /\ UNCHANGED tables

Next == AskReport \/ \E q \in report.todo : RunQuery(q)

(***************************************************************************)
(* Properties.                                                             *)
(***************************************************************************)
Answered(kind) == report.kind = kind /\ report.asked /\ report.todo = {}

\* The queries of a report see different moments, so its figures disagree by what
\* was committed while it ran, and by no more: the double-entry report is out of
\* balance by the airtime sold and at most by the transfers settled meanwhile; a
\* SARB report never lists more large transactions or more wallets than it counts,
\* but for those of the meantime, nor an agent's page more lines of today than of all
\* time; and while every wallet is ACTIVE the discrepancy of
\* /ledger/reconcile is what the wallets held at the start less airtime, never a
\* payment seen on one side only.
DiscrepanciesAreExplained ==
    /\ Answered("reconciliation") =>
         LET meanwhile == CreditTotal - report.from.credits IN
         report.got.debits - report.got.credits
           \in report.from.airtime - meanwhile .. AirtimeSold + meanwhile
    /\ Answered("sarb") =>
         LET meanwhile == Cardinality(Debits) - report.from.count IN
         /\ report.got.large <= report.got.count + meanwhile
         /\ report.got.wallets <= report.got.count + meanwhile
    /\ Answered("stats") =>
         report.got.today <= report.got.allTime + Cardinality(FloatLines) - report.from.float
    /\ Answered("ledgerReconcile") /\ (\A w \in Wallets : status[w] = "ACTIVE") =>
         MapThenSumSet(LAMBDA w : Opening[w], Wallets)
             - (report.got.walletSum - report.got.ledgerNet)
           \in report.from.airtime .. AirtimeSold
=============================================================================
