---------------------------- MODULE PaymentService ----------------------------
(***************************************************************************)
(* POST /payments of payment-service, one action per await of the handler: *)
(*                                                                         *)
(*   idle -> screen -> lockFirst -> lockSecond -> insert -> readPool ->    *)
(*   lockPool -> audit -> commit -> respond -> done                        *)
(*                                                                         *)
(* The steps from lockFirst to commit are one database transaction, which  *)
(* may also fail, run out of its 10 seconds, or die with the process.      *)
(***************************************************************************)
EXTENDS WalletDb

CONSTANT MaxCrashes     \* bound: how often the service process may die

ASSUME CrashAssumption == MaxCrashes \in Nat

VARIABLES
    amlPending,     \* orders whose queue.add has been called and not yet resolved
    amlQueue,       \* orders with a job in the PAYMENTS_CREATED queue
    crashes         \* how often the process has died

paymentVars == <<amlPending, amlQueue, crashes>>
vars == <<tables, locks, calls, paymentVars>>

\* Mutant: the key is stored without a prefix.
KeyFits(o) == KeyLength[o.key] <= KeyColumnWidth

\* The request schema takes keys up to the column's width, and the handler then
\* stores "credit-" (7) and "fee-" (4) in front of them in the same column.
CreditKeyFits(o) == KeyLength[o.key] + 7 <= KeyColumnWidth

HasLocks == {"lockSecond", "insert", "readPool", "lockPool", "audit", "commit"}
InTransaction == {"lockFirst"} \cup HasLocks

Init ==
    /\ DbInit
    /\ amlPending = {} /\ amlQueue = {}
    /\ crashes = 0

At(c, label) == order[c].flow = "payment" /\ pc[c] = label
Goto(c, label) == pc' = [pc EXCEPT ![c] = label]
Answer(c, what) == Goto(c, "done") /\ reply' = [reply EXCEPT ![c] = what]

\* The transaction of c rolls back: none of its writes is ever seen.
Rollback(c, what) ==
    /\ ReleaseAll({c})
    /\ Answer(c, what)

(***************************************************************************)
(* Before the transaction. Authentication, the field checks and the        *)
(* resolution of the receiver only choose the order. The key is looked up  *)
(* without a lock, so its answer may be stale by the time of the INSERT.   *)
(***************************************************************************)
CheckKey(c) ==
    /\ At(c, "idle")
    /\ IF KeyTaken(order[c])
         THEN Answer(c, "replayed")
         ELSE Goto(c, "screen") /\ UNCHANGED reply
    /\ UNCHANGED <<tables, locks, order, seen, paymentVars>>

\* aml-service clears both parties, or the call fails closed: a match, a
\* timeout after 5 seconds and any other answer refuse the payment.
Screen(c) ==
    /\ At(c, "screen")
    /\ \/ Goto(c, "lockFirst") /\ UNCHANGED reply
       \/ Answer(c, "rejected")
       \/ Answer(c, "error")
    /\ UNCHANGED <<tables, locks, order, seen, paymentVars>>

(***************************************************************************)
(* The transaction.                                                        *)
(***************************************************************************)
\* Mutant: the first row is read and not locked.
SelectFirst(c) ==
    /\ At(c, "lockFirst")
    /\ Goto(c, "lockSecond")
    /\ UNCHANGED <<tables, locks, order, seen, reply, paymentVars>>

LockFirst(c) ==
    /\ At(c, "lockFirst")
    /\ LockRow(c, FirstRow(order[c]))
    /\ Goto(c, "lockSecond")
    /\ UNCHANGED <<tables, keyLock, auditLock, order, seen, reply, paymentVars>>

\* Mutant: the statuses of the locked rows are not judged.
JudgeBalanceOnly(c) ==
    LET o == order[c] IN
    /\ At(c, "lockSecond")
    /\ seen' = [seen EXCEPT ![c] = SeenBalances(o)]
    /\ IF Covered(balance, o)
         THEN LockRow(c, SecondRow(o)) /\ Goto(c, "insert") /\ UNCHANGED <<keyLock, auditLock, reply>>
         ELSE CanLock(c, SecondRow(o)) /\ Rollback(c, "rejected")
    /\ UNCHANGED <<tables, order, paymentVars>>

\* The second lock completes the SELECT, and the handler judges the locked rows.
LockSecond(c) ==
    LET o == order[c] IN
    /\ At(c, "lockSecond")
    /\ CanLock(c, SecondRow(o))
    /\ seen' = [seen EXCEPT ![c] = SeenBalances(o)]
    /\ IF StatusAllows(status, o) /\ Covered(balance, o)
         THEN /\ LockRow(c, SecondRow(o))
              /\ Goto(c, "insert")
              /\ UNCHANGED <<keyLock, auditLock, reply>>
         ELSE Rollback(c, "rejected")
    /\ UNCHANGED <<tables, order, paymentVars>>

\* Mutant: the key is not unique, only looked up when the request arrives.
InsertAnyway(c) ==
    /\ At(c, "insert")
    /\ IF CreditKeyFits(order[c])
         THEN Goto(c, "readPool") /\ UNCHANGED <<locks, reply>>
         ELSE Rollback(c, "error")
    /\ UNCHANGED <<tables, order, seen, paymentVars>>

\* DEBIT and CREDIT rows, the two balance updates and their ledger entries. The
\* INSERT waits for another transaction with an uncommitted row of the same key,
\* and fails on a committed one or when "credit-" makes the key too long.
InsertRows(c) ==
    LET o == order[c] IN
    /\ At(c, "insert")
    /\ keyLock[KeyOf(o)] = NoCall
    /\ IF KeyTaken(o) \/ ~ CreditKeyFits(o)
         THEN Rollback(c, "error")
         ELSE /\ keyLock' = [keyLock EXCEPT ![KeyOf(o)] = c]
              /\ Goto(c, "readPool")
              /\ UNCHANGED <<rowLock, auditLock, reply>>
    /\ UNCHANGED <<tables, order, seen, paymentVars>>

\* findFirst takes no lock: the balance read here goes into the FEE row, and
\* another payment may commit its own fee before this one updates the pool. The
\* transaction sees its own updates when the pool is a party to the payment.
ReadFeePool(c) ==
    LET o == order[c] IN
    /\ At(c, "readPool")
    /\ IF HasFeePool
         THEN /\ seen' = [seen EXCEPT ![c] = [@ EXCEPT !.pool =
                            balance[FeePool] + Movement(o, FeePool) - FeeOf(o)]]
              /\ Goto(c, "lockPool")
         ELSE Goto(c, "audit") /\ UNCHANGED seen
    /\ UNCHANGED <<tables, locks, order, reply, paymentVars>>

UpdateFeePool(c) ==
    /\ At(c, "lockPool")
    /\ LockRow(c, FeePool)
    /\ Goto(c, "audit")
    /\ UNCHANGED <<tables, keyLock, auditLock, order, seen, reply, paymentVars>>

WriteAuditLog(c) ==
    /\ At(c, "audit")
    /\ auditLock = NoCall
    /\ auditLock' = c
    /\ Goto(c, "commit")
    /\ UNCHANGED <<tables, rowLock, keyLock, order, seen, reply, paymentVars>>

Commit(c) ==
    LET o == order[c]
        fee == IF HasFeePool THEN {FeeRow(o, seen[c].pool)} ELSE {}
    IN
    /\ At(c, "commit")
    /\ balance' = Settled(balance, o)
    /\ rows' = rows \cup {DebitRow(o, seen[c].sender), CreditRow(o, seen[c].receiver)} \cup fee
    /\ ledger' = ledger \cup TransferEntries(o) \cup (IF HasFeePool THEN FeeEntries(o) ELSE {})
    /\ audited' = audited \cup {KeyOf(o)}
    /\ ReleaseAll({c})
    /\ Goto(c, "respond")
    /\ UNCHANGED <<status, order, seen, reply, paymentVars>>

(***************************************************************************)
(* After the transaction: queue.add is called and not awaited.             *)
(***************************************************************************)
Respond(c) ==
    /\ At(c, "respond")
    /\ Answer(c, "created")
    /\ amlPending' = amlPending \cup {KeyOf(order[c])}
    /\ UNCHANGED <<tables, locks, order, seen, amlQueue, crashes>>

\* The add reaches Redis, or fails and is only logged.
ResolveEnqueue(k) ==
    /\ k \in amlPending
    /\ amlPending' = amlPending \ {k}
    /\ \/ amlQueue' = amlQueue \cup {k}
       \/ UNCHANGED amlQueue
    /\ UNCHANGED <<tables, locks, calls, crashes>>

(***************************************************************************)
(* Failures.                                                               *)
(***************************************************************************)
\* Prisma rolls an interactive transaction back after { timeout: 10_000 }, and
\* PostgreSQL aborts one that is part of a deadlock.
Timeout(c) ==
    /\ order[c].flow = "payment" /\ pc[c] \in InTransaction
    /\ Rollback(c, "error")
    /\ UNCHANGED <<tables, order, seen, paymentVars>>

InFlight(c) == order[c].flow = "payment" /\ pc[c] \notin {"idle", "done", "lost"}

\* The process dies: open transactions roll back, nobody is answered, and the
\* adds that had not reached Redis are forgotten.
Crash ==
    /\ crashes < MaxCrashes
    /\ \E c \in Calls : InFlight(c)
    /\ crashes' = crashes + 1
    /\ pc' = [c \in Calls |-> IF InFlight(c) THEN "lost" ELSE pc[c]]
    /\ ReleaseAll({c \in Calls : InFlight(c)})
    /\ amlPending' = {}
    /\ UNCHANGED <<tables, order, seen, reply, amlQueue>>

Handle(c) ==
    \/ CheckKey(c) \/ Screen(c)
    \/ LockFirst(c) \/ LockSecond(c)
    \/ InsertRows(c) \/ ReadFeePool(c) \/ UpdateFeePool(c) \/ WriteAuditLog(c)
    \/ Commit(c) \/ Respond(c)

PaymentNext ==
    \/ \E c \in Calls : Handle(c) \/ Timeout(c)
    \/ \E k \in amlPending : ResolveEnqueue(k)
    \/ Crash

Operator == RestrictAny /\ UNCHANGED paymentVars

Next == PaymentNext \/ Operator

Spec == Init /\ [][Next]_vars

(***************************************************************************)
(* Properties.                                                             *)
(***************************************************************************)
Labels == {"idle", "screen", "respond", "done", "lost"} \cup InTransaction

TypeOK ==
    /\ DbTypeOK
    /\ pc \in [Calls -> Labels]
    /\ reply \in [Calls -> {"none", "created", "replayed", "rejected", "error"}]
    /\ amlPending \subseteq Flows \X Keys /\ amlQueue \subseteq Flows \X Keys
    /\ crashes \in 0 .. MaxCrashes

\* What a transaction read from its locked rows stays true until it ends: no
\* other payment, timeout, crash or operator moves the money it has counted or
\* the status it has judged.
HasChecked == HasLocks \ {"lockSecond"}

LockedRowsAreCurrent ==
    \A c \in Calls : order[c].flow = "payment" /\ pc[c] \in HasChecked =>
        /\ seen[c].sender = balance[order[c].sender]
        /\ seen[c].receiver = balance[order[c].receiver]
        /\ Covered(balance, order[c])
        /\ StatusAllows(status, order[c])

\* Payments that lock rows in id order, then their key, then the fee pool, then
\* the audit chain never wait for each other in a circle ("Acquire row locks in
\* deterministic UUID order to prevent deadlocks").
Waits(c, d) ==
    LET o == order[c] IN
    /\ c # d
    /\ \/ At(c, "lockFirst") /\ rowLock[FirstRow(o)] = d
       \/ At(c, "lockSecond") /\ rowLock[SecondRow(o)] = d
       \/ At(c, "insert") /\ keyLock[KeyOf(o)] = d
       \/ At(c, "lockPool") /\ rowLock[FeePool] = d
       \/ At(c, "audit") /\ auditLock = d

NoWaitCycle ==
    \A S \in (SUBSET Calls) \ {{}} : \E c \in S : \A d \in S : ~ Waits(c, d)

\* Two attempts with one key, a retry racing the original included, move money
\* once, between wallets that are ACTIVE at that moment: the handler implements
\* the atomic transfers of module Transfers.
Promise == INSTANCE Transfers WITH settled <- SettledOrders
PromiseKept == Promise!Spec

\* A payment whose key has more than 29 characters is accepted by the schema and
\* can never settle: "credit-" and the key do not fit the column.
LongKeysNeverSettle == \A r \in rows : r.flow = "payment" => KeyLength[r.key] <= 29
=============================================================================
