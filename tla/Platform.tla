------------------------------- MODULE Platform -------------------------------
(***************************************************************************)
(* The money-moving services together, on one database: payment-service,   *)
(* wallet-service, and the agent and USSD services, with the services that *)
(* report on it. They interact only through its tables and locks.          *)
(***************************************************************************)
EXTENDS WalletDb

CONSTANTS MaxCrashes, MaxQrCrashes, ReportKinds, LargeAmount, Float

ASSUME ReportAssumption == ReportKinds \subseteq {"reconciliation", "sarb", "ledgerReconcile", "stats"}

VARIABLES
    amlPending, amlQueue, crashes,      \* of payment-service
    qrs, qrLock, auditDue, qrCrashes,   \* of wallet-service
    report                              \* of reporting-service and ledger-service

Payments == INSTANCE PaymentService
Qr == INSTANCE WalletService
Batch == INSTANCE BatchTransfers
Reports == INSTANCE Reporting

paymentVars == <<amlPending, amlQueue, crashes>>
qrVars == <<qrs, qrLock, auditDue, qrCrashes>>
vars == <<tables, locks, calls, paymentVars, qrVars, report>>

Init == Payments!Init /\ Qr!Init /\ Reports!ReportInit

Next ==
    \/ Payments!PaymentNext /\ UNCHANGED <<qrVars, report>>
    \/ Qr!Next /\ UNCHANGED <<paymentVars, report>>
    \/ Batch!Next /\ UNCHANGED <<paymentVars, qrVars, report>>
    \/ Reports!Next /\ UNCHANGED <<locks, calls, paymentVars, qrVars>>

Spec == Init /\ [][Next]_vars

(***************************************************************************)
(* Progress. A handler that can take its next step takes it, and           *)
(* PostgreSQL aborts a victim of every deadlock (deadlock_timeout). Nothing *)
(* is assumed of timeouts, crashes or operators; no call has to arrive.    *)
(***************************************************************************)
Handle(c) ==
    \/ Payments!Handle(c) /\ UNCHANGED <<qrVars, report>>
    \/ Qr!Handle(c) /\ UNCHANGED <<paymentVars, report>>
    \/ Batch!Handle(c) /\ UNCHANGED <<paymentVars, qrVars, report>>

Waits(c, d) == Payments!Waits(c, d) \/ Qr!Waits(c, d) \/ Batch!Waits(c, d)

Deadlocked(S) == \A c \in S : \E d \in S : Waits(c, d)

AbortVictim ==
    \E S \in SUBSET Calls, c \in Calls :
        /\ c \in S /\ Deadlocked(S)
        /\ \/ Payments!Timeout(c) /\ UNCHANGED <<qrVars, report>>
           \/ Qr!Timeout(c) /\ UNCHANGED <<paymentVars, report>>
           \/ Batch!Abort(c) /\ UNCHANGED <<paymentVars, qrVars, report>>

FairSpec ==
    /\ Spec
    /\ \A c \in Calls : WF_vars(Handle(c) /\ pc[c] # "idle")
    /\ WF_vars(AbortVictim)

(***************************************************************************)
(* Properties.                                                             *)
(***************************************************************************)
\* Every request that has started is answered, or dies with its process: row
\* locks, the key, the QR row, the fee pool and the audit chain are all given back,
\* and the deadlocks between cash-in and cash-out are resolved.
EveryCallFinishes == \A c \in Calls : (pc[c] # "idle") ~> (pc[c] \in {"done", "lost"})

TypeOK ==
    /\ DbTypeOK
    /\ qrs \in [QrIds -> [made : {"no", "checked", "yes"}, active : BOOLEAN, usage : Nat,
                          maxUsage : {Qr!Unlimited, 1}, expired : BOOLEAN]]
    /\ qrLock \in [QrIds -> CallOrNone]
    /\ auditDue \subseteq Wallets
    /\ report.todo \subseteq Reports!Queries(report.kind)
    /\ \A q \in DOMAIN report.got : report.got[q] \in Int

\* Two queries of a report see two moments, and its figures differ by no more.
ReportsAreExplained == Reports!DiscrepanciesAreExplained

\* usageCount is the number of payments that carry the code, and a single-use
\* code carries at most one, however many customers scan it at the same time.
UsageIsCounted ==
    \A q \in QrIds :
        LET paid == {r \in rows : r.kind = "DEBIT" /\ r.qr = q} IN
        /\ qrs[q].usage = Cardinality(paid)
        /\ SingleUse(q) => Cardinality(paid) <= 1
        /\ qrs[q].made = "yes" => (qrs[q].active <=> ~ (SingleUse(q) /\ paid # {}))

\* In every state a code is what its payments have made of it, and well typed like all
\* the tables and locks it is read with.
CodesAreCounted == TypeOK /\ UsageIsCounted

\* A code is what its payments have made of it to the end, whatever crashes between; and
\* a customer whose payment has not yet locked the QR row when the code expires does
\* not pay by it, whatever he read before.
CodesAreKept ==
    /\ []UsageIsCounted
    /\ \A c \in Calls :
         [](order[c].flow = "qr"
              /\ qrs[order[c].qr].expired
              /\ pc[c] \in {"idle", "lockFirst", "lockSecond", "lockQr"}
            => [](reply[c] # "created" /\ pc[c] # "respond"))

\* What a transaction read from rows it has locked stays true until it ends,
\* although services that do not lock before they check write the same rows.
LockedRowsAreCurrent == Payments!LockedRowsAreCurrent /\ Qr!LockedRowsAreCurrent

\* With all the flows at work the statements explain every balance, a success is backed
\* by rows of its order, and what was judged on locked rows still holds, so that no
\* customer is told of a movement the books do not have.
BooksAndAnswersAgree ==
    /\ StatementsExplainBalances
    /\ SuccessIsBacked
    /\ LockedRowsAreCurrent

\* Payments and QR payments together implement the atomic transfers of module
\* Transfers: each key settles once, each single-use code once, between wallets
\* whose statuses allow it, and never beyond the balance.
Promise == INSTANCE Transfers WITH settled <- SettledOrders
PromiseKept == Promise!Spec

\* The commit of a payment or a QR payment never overdraws its sender, whatever
\* the other services do to the same wallet in the meantime.
CheckedFlowsNeverOverdraw ==
    [][\A r \in NewRows : r.kind = "DEBIT" /\ r.flow \in {"payment", "qr"} =>
         balance'[r.wallet] >= 0]_<<tables>>
=============================================================================
