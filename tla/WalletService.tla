----------------------------- MODULE WalletService -----------------------------
(***************************************************************************)
(* The QR codes and wallet restrictions of wallet-service (QR codes are    *)
(* also generated by payment-service). POST /qr/:qrHash/pay runs           *)
(*                                                                         *)
(*   idle -> lockFirst -> lockSecond -> lockQr -> insert -> commit ->      *)
(*   respond -> done                                                       *)
(*                                                                         *)
(* with one database transaction from lockFirst to commit.                 *)
(***************************************************************************)
EXTENDS WalletDb

CONSTANT MaxQrCrashes   \* bound: how often the wallet-service process may die

VARIABLES
    qrs,        \* payment_qr_codes
    qrLock,     \* [QrIds -> the call that has the QR row locked]
    auditDue,   \* wallets that are suspended and whose audit entry is being written
    qrCrashes   \* how often the process has died

qrVars == <<qrs, qrLock, auditDue, qrCrashes>>
vars == <<tables, locks, calls, qrVars>>

\* maxUsage NULL.
Unlimited == 0

NoRow == [made |-> "no", active |-> FALSE, usage |-> 0, maxUsage |-> Unlimited, expired |-> FALSE]

Init ==
    /\ DbInit
    /\ qrs = [q \in QrIds |-> NoRow]
    /\ qrLock = [q \in QrIds |-> NoCall]
    /\ auditDue = {}
    /\ qrCrashes = 0

At(c, label) == order[c].flow = "qr" /\ pc[c] = label
Goto(c, label) == pc' = [pc EXCEPT ![c] = label]
Answer(c, what) == Goto(c, "done") /\ reply' = [reply EXCEPT ![c] = what]

ReleaseQr(D) == qrLock' = [q \in QrIds |-> IF qrLock[q] \in D THEN NoCall ELSE qrLock[q]]

Rollback(c, what) ==
    /\ ReleaseAll({c}) /\ ReleaseQr({c})
    /\ Answer(c, what)

(***************************************************************************)
(* Generating a code reads the wallet and then inserts the row. Only a     *)
(* single-use code expires and has a usage limit.                          *)
(***************************************************************************)
StartQr(q) ==
    /\ qrs[q].made = "no"
    /\ status[Offers[q].wallet] = "ACTIVE"
    /\ qrs' = [qrs EXCEPT ![q].made = "checked"]
    /\ UNCHANGED <<tables, locks, calls, qrLock, auditDue, qrCrashes>>

CreateQr(q) ==
    /\ qrs[q].made = "checked"
    /\ qrs' = [qrs EXCEPT ![q] = [made |-> "yes", active |-> TRUE, usage |-> 0, expired |-> FALSE,
                                  maxUsage |-> IF SingleUse(q) THEN 1 ELSE Unlimited]]
    /\ UNCHANGED <<tables, locks, calls, qrLock, auditDue, qrCrashes>>

\* The clock passes the expiresAt of a code.
ExpireQr(q) ==
    /\ qrs[q].made = "yes" /\ SingleUse(q) /\ ~ qrs[q].expired
    /\ qrs' = [qrs EXCEPT ![q].expired = TRUE]
    /\ UNCHANGED <<tables, locks, calls, qrLock, auditDue, qrCrashes>>

(***************************************************************************)
(* Paying a code.                                                          *)
(***************************************************************************)
Payable(q) ==
    /\ qrs[q].active
    /\ ~ qrs[q].expired
    /\ qrs[q].maxUsage # Unlimited => qrs[q].usage < qrs[q].maxUsage

\* Mutant: the amount is the client's, whatever the code asks.
ReadQrOnly(c) ==
    LET o == order[c] IN
    /\ At(c, "idle")
    /\ IF qrs[o.qr].made = "yes" /\ Payable(o.qr)
         THEN Goto(c, "lockFirst") /\ UNCHANGED reply
         ELSE Answer(c, "rejected")
    /\ UNCHANGED <<tables, locks, order, seen, qrVars>>

\* Read without a lock; the key is not looked up at all.
ReadQr(c) ==
    LET o == order[c] IN
    /\ At(c, "idle")
    /\ IF qrs[o.qr].made = "yes" /\ Payable(o.qr) /\ FitsOffer(o)
         THEN Goto(c, "lockFirst") /\ UNCHANGED reply
         ELSE Answer(c, "rejected")
    /\ UNCHANGED <<tables, locks, order, seen, qrVars>>

\* Mutant: the first row is read and not locked.
SelectFirst(c) ==
    /\ At(c, "lockFirst")
    /\ Goto(c, "lockSecond")
    /\ UNCHANGED <<tables, locks, order, seen, reply, qrVars>>

LockFirst(c) ==
    /\ At(c, "lockFirst")
    /\ LockRow(c, FirstRow(order[c]))
    /\ Goto(c, "lockSecond")
    /\ UNCHANGED <<tables, keyLock, auditLock, order, seen, reply, qrVars>>

LockSecond(c) ==
    LET o == order[c] IN
    /\ At(c, "lockSecond")
    /\ CanLock(c, SecondRow(o))
    /\ seen' = [seen EXCEPT ![c] = SeenBalances(o)]
    /\ IF StatusAllows(status, o) /\ Covered(balance, o)
         THEN /\ LockRow(c, SecondRow(o))
              /\ Goto(c, "lockQr")
              /\ UNCHANGED <<keyLock, auditLock, qrLock, reply>>
         ELSE Rollback(c, "rejected")
    /\ UNCHANGED <<tables, order, qrs, auditDue, qrCrashes>>

\* Mutant: the QR row is locked and not judged again.
LockQrUnchecked(c) ==
    LET q == order[c].qr IN
    /\ At(c, "lockQr")
    /\ qrLock[q] = NoCall
    /\ qrLock' = [qrLock EXCEPT ![q] = c]
    /\ Goto(c, "insert")
    /\ UNCHANGED <<tables, locks, order, seen, reply, qrs, auditDue, qrCrashes>>

\* The locked QR row is judged again: a scan that raced this one has committed.
LockQr(c) ==
    LET q == order[c].qr IN
    /\ At(c, "lockQr")
    /\ qrLock[q] = NoCall
    /\ IF Payable(q)
         THEN /\ qrLock' = [qrLock EXCEPT ![q] = c]
              /\ Goto(c, "insert")
              /\ UNCHANGED <<locks, reply>>
         ELSE Rollback(c, "rejected")
    /\ UNCHANGED <<tables, order, seen, qrs, auditDue, qrCrashes>>

InsertRows(c) ==
    LET o == order[c] IN
    /\ At(c, "insert")
    /\ keyLock[KeyOf(o)] = NoCall
    /\ IF KeyTaken(o)
         THEN Rollback(c, "error")
         ELSE /\ keyLock' = [keyLock EXCEPT ![KeyOf(o)] = c]
              /\ Goto(c, "commit")
              /\ UNCHANGED <<rowLock, auditLock, qrLock, reply>>
    /\ UNCHANGED <<tables, order, seen, qrs, auditDue, qrCrashes>>

\* isActive comes from the maxUsage that was read before the lock; no handler
\* changes it.
Commit(c) ==
    LET o == order[c] IN
    /\ At(c, "commit")
    /\ balance' = Settled(balance, o)
    /\ rows' = rows \cup {DebitRow(o, seen[c].sender), CreditRow(o, seen[c].receiver)}
    /\ ledger' = ledger \cup TransferEntries(o)
    /\ qrs' = [qrs EXCEPT ![o.qr].usage = @ + 1, ![o.qr].active = qrs[o.qr].maxUsage # 1]
    /\ ReleaseAll({c}) /\ ReleaseQr({c})
    /\ Goto(c, "respond")
    /\ UNCHANGED <<status, audited, order, seen, reply, auditDue, qrCrashes>>

\* The two SMS that follow are not awaited by anyone.
Respond(c) ==
    /\ At(c, "respond")
    /\ Answer(c, "created")
    /\ UNCHANGED <<tables, locks, order, seen, qrVars>>

(***************************************************************************)
(* Restricting a wallet. Suspending writes an audit entry in a transaction *)
(* of its own, after the update has committed and which may fail; freezing *)
(* writes none.                                                            *)
(***************************************************************************)
SuspendWallet(w) ==
    /\ RestrictWallet(w, "SUSPENDED")
    /\ auditDue' = auditDue \cup {w}
    /\ UNCHANGED <<qrs, qrLock, qrCrashes>>

AuditSuspension(w) ==
    /\ w \in auditDue
    /\ auditDue' = auditDue \ {w}
    /\ \/ auditLock = NoCall /\ audited' = audited \cup {<<"suspend", w>>}
       \/ UNCHANGED audited
    /\ UNCHANGED <<balance, status, rows, ledger, locks, calls, qrs, qrLock, qrCrashes>>

FreezeWallet(w) ==
    /\ RestrictWallet(w, "FROZEN")
    /\ UNCHANGED qrVars

(***************************************************************************)
(* Failures.                                                               *)
(***************************************************************************)
HasLocks == {"lockSecond", "lockQr", "insert", "commit"}
InTransaction == {"lockFirst"} \cup HasLocks

\* { timeout: 10_000 }, or the victim of a deadlock.
Timeout(c) ==
    /\ order[c].flow = "qr" /\ pc[c] \in InTransaction
    /\ Rollback(c, "error")
    /\ UNCHANGED <<tables, order, seen, qrs, auditDue, qrCrashes>>

InFlight(c) == order[c].flow = "qr" /\ pc[c] \in InTransaction \cup {"respond"}

Crash ==
    /\ qrCrashes < MaxQrCrashes
    /\ auditDue # {} \/ \E c \in Calls : InFlight(c)
    /\ qrCrashes' = qrCrashes + 1
    /\ pc' = [c \in Calls |-> IF InFlight(c) THEN "lost" ELSE pc[c]]
    /\ ReleaseAll({c \in Calls : InFlight(c)})
    /\ ReleaseQr({c \in Calls : InFlight(c)})
    /\ auditDue' = {}
    /\ qrs' = [q \in QrIds |-> IF qrs[q].made = "checked" THEN NoRow ELSE qrs[q]]
    /\ UNCHANGED <<tables, order, seen, reply>>

Handle(c) ==
    \/ ReadQr(c)
    \/ LockFirst(c) \/ LockSecond(c) \/ LockQr(c)
    \/ InsertRows(c) \/ Commit(c) \/ Respond(c)

Next ==
    \/ \E c \in Calls : Handle(c) \/ Timeout(c)
    \/ \E q \in QrIds : StartQr(q) \/ CreateQr(q) \/ ExpireQr(q)
    \/ \E w \in Watched : SuspendWallet(w) \/ AuditSuspension(w) \/ FreezeWallet(w)
    \/ Crash

Spec == Init /\ [][Next]_vars

Waits(c, d) ==
    LET o == order[c] IN
    /\ c # d
    /\ \/ At(c, "lockFirst") /\ rowLock[FirstRow(o)] = d
       \/ At(c, "lockSecond") /\ rowLock[SecondRow(o)] = d
       \/ At(c, "lockQr") /\ qrLock[o.qr] = d
       \/ At(c, "insert") /\ keyLock[KeyOf(o)] = d

\* The balances and statuses of the locked rows stay as they were judged.
LockedRowsAreCurrent ==
    \A c \in Calls : order[c].flow = "qr" /\ pc[c] \in HasLocks \ {"lockSecond"} =>
        /\ seen[c].sender = balance[order[c].sender]
        /\ seen[c].receiver = balance[order[c].receiver]
        /\ Covered(balance, order[c])
        /\ StatusAllows(status, order[c])
=============================================================================
