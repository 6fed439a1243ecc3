------------------------------ MODULE AmlService ------------------------------
(***************************************************************************)
(* aml-service behind payment-service and in front of notification-service: *)
(* the blocking screening, the worker of PAYMENTS_CREATED with its checks, *)
(* the flags and their alerts to the MLRO, flags raised by hand and        *)
(* reports to the authority.                                               *)
(***************************************************************************)
EXTENDS Notifications, SequencesExt

CONSTANTS
    Payments,           \* ids of payments
    Payment,            \* per payment its wallets and amount
    ByHand,             \* flags that an MLRO raises: id -> severity and wallet
    NoWallet,
    MlroAddressSet,     \* MLRO_ALERT_EMAIL is set
    VelocityLimit,      \* DEBITs in an hour that raise no flag: 20 in the code
    CriticalVelocity,   \* and that make it CRITICAL: 50
    MaxTicks,           \* bound: how often time passes a window
    Receipts,           \* documents whose upload kyc-service acknowledges
    Reported,           \* flags that an MLRO decides to report
    MaxRequests,        \* bound: payments, notices, flags and uploads that arrive
    MaxTogether         \* bound: those that arrive and the deaths together

Wallets == UNION {{Payment[p].from, Payment[p].to} : p \in Payments}

ASSUME AmlAssumption ==
    /\ VelocityLimit \in Nat /\ CriticalVelocity \in Nat
    /\ MaxTicks \in Nat /\ MaxRequests \in Nat /\ MaxTogether \in Nat
    /\ MlroAddressSet \in BOOLEAN
    /\ \A p \in Payments : Payment[p].amount \in Nat
    /\ \A f \in DOMAIN ByHand : ByHand[f].wallet \in Wallets \cup {NoWallet}
    /\ Receipts \cap Notices = {}

VARIABLES
    stage,      \* of each payment: "idle", "cleared", "refused" or "settled"
    history,    \* the DEBIT rows of settled payments, oldest first
    age,        \* of each DEBIT: 0 under ten minutes, 1 under an hour, 2 older
    ticks,
    checking,   \* PAYMENTS_CREATED: payment -> job
    todo,       \* the checks of Promise.allSettled still running
    missed,     \* the checks that have thrown
    amlScreened,
    flags,      \* aml_flags: id -> severity, wallet and status
    toAlert,    \* flags whose creator has yet to call notifyFlag
    byHand,     \* where the handler of each flag raised by hand stands
    suspended,  \* wallets suspended by a flag
    reports     \* flags whose STR is filed and not yet in the audit log

paymentVars == <<stage, history, age, ticks>>
flagVars == <<flags, toAlert>>
workerVars == <<checking, todo, missed, amlScreened>>
mlroVars == <<byHand, suspended, reports>>
vars == <<noticeVars, budget, paymentVars, flagVars, workerVars, mlroVars>>

Kinds == {"VELOCITY", "ROUND_TRIP"}

Arrivals ==
    Cardinality({p \in Payments : stage[p] # "idle"} \cup (Receipts \cap DOMAIN jobs)
                \cup {n \in Notices : sending[n] # "idle"}
                \cup {f \in DOMAIN ByHand : byHand[f] # "idle"})

MayDie == Arrivals + deaths < MaxTogether
MayArrive == Arrivals < MaxRequests /\ MayDie

Init ==
    /\ NotificationInit
    /\ stage = [p \in Payments |-> "idle"]
    /\ history = << >> /\ age = [p \in Payments |-> 0] /\ ticks = 0
    /\ checking = << >>
    /\ todo = [p \in Payments |-> {}] /\ missed = [p \in Payments |-> {}]
    /\ amlScreened = {}
    /\ flags = << >> /\ toAlert = {}
    /\ byHand = [f \in DOMAIN ByHand |-> "idle"]
    /\ suspended = {} /\ reports = {}

(***************************************************************************)
(* Flags. createFlag writes the row, then awaits notifyFlag when the flag  *)
(* is HIGH or CRITICAL.                                                    *)
(***************************************************************************)
NewFlag(severity, wallet) == [severity |-> severity, wallet |-> wallet, status |-> "OPEN"]

CreateFlag(id, severity, wallet) ==
    /\ flags' = WithEntry(flags, id, NewFlag(severity, wallet))
    /\ toAlert' = IF severity \in {"HIGH", "CRITICAL"} THEN toAlert \cup {id} ELSE toAlert

MlroMail == [channel |-> "EMAIL", addressed |-> MlroAddressSet]

\* Mutant: the alert is tried as often as a notice.
NotifyFlagThrice(id) == Add(<<"alert", id>>, MlroMail, 3)

\* An e-mail for the routing label MLRO_TEAM, without notificationId or attempts.
NotifyFlag(id) == Add(<<"alert", id>>, MlroMail, 1)

\* The queue takes the alert, or Redis fails and the creator's promise rejects: of a
\* check only the log hears of it, and a handler answers 500.
Alert(id) ==
    /\ id \in toAlert
    /\ toAlert' = toAlert \ {id}
    /\ \/ NotifyFlag(id) /\ NoFault
       \/ UNCHANGED <<jobs, arrived>> /\ Fault
    /\ UNCHANGED <<noticeRow, sending, flags, paymentVars, workerVars, mlroVars>>

(***************************************************************************)
(* Before a payment: payment-service waits for the screening of both       *)
(* parties. No key means CLEAR, and no answer means POTENTIAL_MATCH.       *)
(***************************************************************************)
Results == {"CLEAR", "POTENTIAL_MATCH", "MATCH"}

\* Only a MATCH flags and refuses; a POTENTIAL_MATCH goes on as CLEAR does.
ScreenSanctions(p) ==
    /\ stage[p] = "idle" /\ MayArrive
    /\ \E sender, recipient \in Results :
         IF "MATCH" \in {sender, recipient}
           THEN /\ stage' = [stage EXCEPT ![p] = "refused"]
                /\ CreateFlag(<<p, "SANCTIONS_MATCH", 1>>, "CRITICAL", NoWallet)
           ELSE /\ stage' = [stage EXCEPT ![p] = "cleared"]
                /\ UNCHANGED flagVars
    /\ NoFault
    /\ UNCHANGED <<noticeVars, history, age, ticks, workerVars, mlroVars>>

\* The payment commits, and payment-service adds the job without waiting for it.
Settle(p) ==
    /\ stage[p] = "cleared"
    /\ {Payment[p].from, Payment[p].to} \cap suspended = {}
    /\ stage' = [stage EXCEPT ![p] = "settled"]
    /\ history' = Append(history, p)
    /\ \/ checking' = WithEntry(checking, p, NewJob(p, 1)) /\ NoFault
       \/ UNCHANGED checking /\ Fault
    /\ UNCHANGED <<noticeVars, age, ticks, flagVars, todo, missed, amlScreened, mlroVars>>

\* Time passes the end of a window for every payment so far.
Tick ==
    /\ ticks < MaxTicks /\ history # << >>
    /\ ticks' = ticks + 1
    /\ age' = [p \in Payments |-> IF p \in ToSet(history) /\ age[p] < 2 THEN age[p] + 1 ELSE age[p]]
    /\ NoFault
    /\ UNCHANGED <<noticeVars, stage, history, flagVars, workerVars, mlroVars>>

(***************************************************************************)
(* After a payment: the checks read the statement as it is by then.        *)
(***************************************************************************)
StartChecks(p) ==
    /\ p \in DOMAIN checking /\ At(checking[p], "waiting")
    /\ checking' = [checking EXCEPT ![p] = Step(@, "checking")]
    /\ todo' = [todo EXCEPT ![p] = Kinds]
    /\ missed' = [missed EXCEPT ![p] = {}]
    /\ NoFault
    /\ UNCHANGED <<noticeVars, paymentVars, flagVars, amlScreened, mlroVars>>

Debits(w, upto) == {p \in ToSet(history) : Payment[p].from = w /\ age[p] <= upto}

\* Math.round(amount * 0.05).
Tolerance(amount) == (amount * 5 + 50) \div 100

\* r sends about the amount of p back: within 5% of it, either way.
ReverseOf(p, r) ==
    /\ Payment[r].from = Payment[p].to /\ Payment[r].to = Payment[p].from
    /\ Payment[r].amount - Payment[p].amount \in
         -Tolerance(Payment[p].amount) .. Tolerance(Payment[p].amount)

\* Each delivery of a job writes flags of its own.
FlagId(p, kind) == <<p, kind, checking[p].stalled + 1>>

CheckVelocity(p) ==
    LET count == Cardinality(Debits(Payment[p].from, 1)) IN
    IF count > VelocityLimit
      THEN CreateFlag(FlagId(p, "VELOCITY"),
                      IF count > CriticalVelocity THEN "CRITICAL" ELSE "HIGH", Payment[p].from)
      ELSE UNCHANGED flagVars

CheckRoundTripping(p) ==
    IF \E r \in Debits(Payment[p].to, 0) : ReverseOf(p, r)
      THEN CreateFlag(FlagId(p, "ROUND_TRIP"), "HIGH", Payment[p].from)
      ELSE UNCHANGED flagVars

\* The structuring check compares dailySpent, which no payment ever writes, with the
\* limit, and the geographic check only logs: neither can raise a flag.
RunCheck(p, kind) ==
    /\ kind \in todo[p]
    /\ todo' = [todo EXCEPT ![p] = @ \ {kind}]
    /\ \/ /\ kind = "VELOCITY" /\ CheckVelocity(p)
          /\ NoFault /\ UNCHANGED missed
       \/ /\ kind = "ROUND_TRIP" /\ CheckRoundTripping(p)
          /\ NoFault /\ UNCHANGED missed
       \/ /\ missed' = [missed EXCEPT ![p] = @ \cup {kind}]
          /\ Fault /\ UNCHANGED flagVars
    /\ UNCHANGED <<noticeVars, paymentVars, checking, amlScreened, mlroVars>>

\* Mutant: the checks are not awaited.
MarkAtOnce(p) ==
    /\ p \in DOMAIN checking /\ At(checking[p], "checking")
    /\ amlScreened' = amlScreened \cup {p}
    /\ checking' = [checking EXCEPT ![p] = Step(@, "completed")]
    /\ NoFault
    /\ UNCHANGED <<noticeVars, paymentVars, flagVars, todo, missed, mlroVars>>

\* Promise.allSettled waits for the alerts of the checks and forgets what failed; an
\* update that throws fails the job, which has one attempt.
MarkScreened(p) ==
    /\ p \in DOMAIN checking /\ At(checking[p], "checking")
    /\ todo[p] = {} /\ \A f \in toAlert : f[1] # p
    /\ \/ /\ amlScreened' = amlScreened \cup {p}
          /\ checking' = [checking EXCEPT ![p] = Step(@, "completed")]
          /\ NoFault
       \/ /\ checking' = [checking EXCEPT ![p] = FailAttempt(@)]
          /\ Fault /\ UNCHANGED amlScreened
    /\ UNCHANGED <<noticeVars, paymentVars, flagVars, todo, missed, mlroVars>>

(***************************************************************************)
(* The MLRO's own requests.                                                *)
(***************************************************************************)
\* POST /aml/flag: the row; then, for a CRITICAL flag with a wallet and only then,
\* the suspension; then the alert.
RaiseFlag(f) ==
    LET raised == ByHand[f]
        grave == raised.severity = "CRITICAL" /\ raised.wallet # NoWallet IN
    \/ /\ byHand[f] = "idle" /\ MayArrive
       /\ flags' = WithEntry(flags, <<f, "MANUAL", 1>>, NewFlag(raised.severity, raised.wallet))
       /\ byHand' = [byHand EXCEPT ![f] = IF grave THEN "suspend" ELSE "answered"]
       /\ UNCHANGED <<toAlert, suspended>>
    \/ /\ byHand[f] = "suspend"
       /\ suspended' = suspended \cup {raised.wallet}
       /\ toAlert' = toAlert \cup {<<f, "MANUAL", 1>>}
       /\ byHand' = [byHand EXCEPT ![f] = "answered"]
       /\ UNCHANGED flags

RaiseFlagByHand(f) ==
    RaiseFlag(f) /\ NoFault /\ UNCHANGED <<noticeVars, paymentVars, workerVars, reports>>

\* GET /aml/flags.
OpenFlags == {id \in DOMAIN flags : flags[id].status \in {"OPEN", "UNDER_REVIEW"}}

\* POST /aml/str-file updates the flag, and writes the audit log afterwards.
FileStr(id) ==
    /\ id \in OpenFlags \cap Reported
    /\ flags' = [flags EXCEPT ![id].status = "STR_FILED"]
    /\ reports' = reports \cup {id}
    /\ NoFault
    /\ UNCHANGED <<noticeVars, paymentVars, toAlert, workerVars, byHand, suspended>>

AuditStr(id) ==
    /\ id \in reports
    /\ reports' = reports \ {id}
    /\ NoFault
    /\ UNCHANGED <<noticeVars, paymentVars, flagVars, workerVars, byHand, suspended>>

\* Worker and handlers die together; what a delivery had still to do is forgotten.
AmlServiceDies ==
    /\ deaths < MaxDeaths /\ MayDie
    /\ deaths' = deaths + 1
    /\ checking' = [p \in DOMAIN checking |-> Stall(checking[p])]
    /\ todo' = [p \in Payments |-> {}]
    /\ toAlert' = {} /\ reports' = {}
    /\ byHand' = [f \in DOMAIN ByHand |-> IF byHand[f] = "suspend" THEN "lost" ELSE byHand[f]]
    /\ checking' # checking \/ toAlert # {} \/ reports # {} \/ byHand' # byHand
    /\ UNCHANGED <<noticeVars, paymentVars, flags, missed, amlScreened, suspended, faults>>

\* kyc-service acknowledges an uploaded document with an IN_APP job, and no row.
QueueReceipt(d) ==
    /\ d \notin DOMAIN jobs /\ MayArrive
    /\ Add(d, [channel |-> "IN_APP", addressed |-> FALSE], 1)
    /\ NoFault
    /\ UNCHANGED <<noticeRow, sending, paymentVars, flagVars, workerVars, mlroVars>>

AmlNext ==
    \/ \E p \in Payments : ScreenSanctions(p) \/ Settle(p) \/ StartChecks(p) \/ MarkScreened(p)
    \/ \E p \in Payments, kind \in Kinds : RunCheck(p, kind)
    \/ \E id \in toAlert : Alert(id)
    \/ \E f \in DOMAIN ByHand : RaiseFlagByHand(f)
    \/ \E id \in DOMAIN flags : FileStr(id) \/ AuditStr(id)
    \/ Tick
    \/ AmlServiceDies

Next ==
    \/ AmlNext
    \/ /\ NotificationNext
       /\ (\E n \in Notices : sending[n] = "idle" /\ sending'[n] = "created") => MayArrive
       /\ deaths' # deaths => MayDie
       /\ UNCHANGED <<paymentVars, flagVars, workerVars, mlroVars>>
    \/ \E d \in Receipts : QueueReceipt(d)

Spec == Init /\ [][Next]_vars

\* The worker takes the jobs that wait and goes on with those it has.
FairSpec ==
    /\ Spec
    /\ \A n \in Notices : WF_vars(n \in DOMAIN jobs /\ Work(n)
                                   /\ UNCHANGED <<paymentVars, flagVars, workerVars, mlroVars>>)

(***************************************************************************)
(* Properties.                                                             *)
(***************************************************************************)
TypeOK ==
    /\ noticeRow \in [Notices -> {"none", "PENDING", "SENT", "FAILED"}]
    /\ sending \in [Notices -> {"idle", "created", "answered", "error", "lost"}]
    /\ \A id \in DOMAIN jobs : jobs[id].state \in Idle \cup {"storing", "failing"}
    /\ stage \in [Payments -> {"idle", "cleared", "refused", "settled"}]
    /\ DOMAIN checking \cup amlScreened \subseteq ToSet(history)
    /\ toAlert \subseteq DOMAIN flags /\ suspended \subseteq Wallets

Position(p) == CHOOSE i \in DOMAIN history : history[i] = p
UpTo(p) == {history[i] : i \in 1 .. Position(p)}
Flagged(p, kind) == \E copy \in 1 .. 1 + MaxStalledCount : <<p, kind, copy>> \in DOMAIN flags

\* Whatever the order in which the workers run, die and run again: a payment that
\* was screened, with no check swallowed, carries a flag when it sends back, within
\* ten minutes, what an earlier one brought, and when it is more than the allowed
\* one of its hour. Jobs, rows and flags stay well typed meanwhile.
PatternsAreFlagged ==
    /\ TypeOK
    /\ \A p \in amlScreened :
         /\ "ROUND_TRIP" \notin missed[p]
              /\ (\E r \in UpTo(p) : age[r] = 0 /\ ReverseOf(p, r))
            => Flagged(p, "ROUND_TRIP")
         /\ "VELOCITY" \notin missed[p]
              /\ Cardinality(UpTo(p) \cap Debits(Payment[p].from, 1)) > VelocityLimit
            => Flagged(p, "VELOCITY")
=============================================================================
