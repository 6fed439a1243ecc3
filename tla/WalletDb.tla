------------------------------- MODULE WalletDb -------------------------------
(***************************************************************************)
(* The PostgreSQL state the money-moving services share, at READ           *)
(* COMMITTED, and the request handlers ("calls") that work on it.          *)
(*                                                                         *)
(* balance, status, rows, ledger and audited hold what is COMMITTED. The   *)
(* writes of an open transaction stay private to it until its commit step  *)
(* installs them: every row it writes is one it has locked, so applying    *)
(* its increments at the commit is applying them at the UPDATE. Locks are  *)
(* held until the transaction ends: row locks of SELECT ... FOR UPDATE and *)
(* UPDATE, the unique-index lock of an INSERT, and the advisory lock of    *)
(* the audit writer.                                                       *)
(***************************************************************************)
EXTENDS Money, FiniteSetsExt

CONSTANTS
    Calls,      \* HTTP requests: a retry is another call with the same order
    NoCall,     \* the holder of a free lock
    Watched     \* bound: the wallets an operator may suspend or freeze

ASSUME CallAssumption == NoCall \notin Calls /\ Watched \subseteq Wallets

VARIABLES
    balance,    \* wallets.balance
    status,     \* wallets.status
    rows,       \* wallet_transactions
    ledger,     \* ledger_entries
    audited,    \* audit_logs: orders with a PAYMENT_SENT, wallets with a WALLET_SUSPENDED entry
    rowLock,    \* [Wallets -> the call that has the wallet row locked]
    keyLock,    \* [Flows \X Keys -> the call whose INSERT of the key is uncommitted]
    auditLock,  \* the call that holds the advisory lock of writeAuditLog
    pc,         \* where each call is in its handler
    order,      \* what each call asks for
    seen,       \* the balances each call's transaction has read
    reply       \* the answer each call was given

tables == <<balance, status, rows, ledger, audited>>
locks == <<rowLock, keyLock, auditLock>>
calls == <<pc, order, seen, reply>>

KeyOf(o) == <<o.flow, o.key>>

\* The order as it is stored: USSD makes a fresh uuid for every attempt, and the
\* call stands for it.
Placed(c) == IF order[c].flow \in {"ussd", "airtime"} THEN [order[c] EXCEPT !.key = c] ELSE order[c]

DbInit ==
    /\ balance = Opening
    /\ status = InitialStatus
    /\ rows = {} /\ ledger = {} /\ audited = {}
    /\ rowLock = [w \in Wallets |-> NoCall]
    /\ keyLock = [k \in Flows \X Keys |-> NoCall]
    /\ auditLock = NoCall
    /\ pc = [c \in Calls |-> "idle"]
    /\ order \in [Calls -> Orders]
    /\ seen = [c \in Calls |-> [sender |-> 0, receiver |-> 0, pool |-> 0]]
    /\ reply = [c \in Calls |-> "none"]

(***************************************************************************)
(* Locks.                                                                  *)
(***************************************************************************)
CanLock(c, w) == rowLock[w] \in {NoCall, c}

LockRow(c, w) ==
    /\ CanLock(c, w)
    /\ rowLock' = [rowLock EXCEPT ![w] = c]

\* Mutant: the unique-index locks are not given back.
ReleaseAllButKeys(D) ==
    /\ rowLock' = [w \in Wallets |-> IF rowLock[w] \in D THEN NoCall ELSE rowLock[w]]
    /\ auditLock' = IF auditLock \in D THEN NoCall ELSE auditLock
    /\ UNCHANGED keyLock

\* The transactions of D end: everything they hold is free.
ReleaseAll(D) ==
    /\ rowLock' = [w \in Wallets |-> IF rowLock[w] \in D THEN NoCall ELSE rowLock[w]]
    /\ keyLock' = [k \in Flows \X Keys |-> IF keyLock[k] \in D THEN NoCall ELSE keyLock[k]]
    /\ auditLock' = IF auditLock \in D THEN NoCall ELSE auditLock

\* Mutant: the sender's row is locked first.
SenderFirst(o) == <<o.sender, o.receiver>>

\* ORDER BY id FOR UPDATE: the row with the smaller id is locked first.
LockOrder(o) ==
    IF o.sender < o.receiver THEN <<o.sender, o.receiver>> ELSE <<o.receiver, o.sender>>
FirstRow(o) == LockOrder(o)[1]
SecondRow(o) == LockOrder(o)[2]

SeenBalances(o) == [sender |-> balance[o.sender], receiver |-> balance[o.receiver], pool |-> 0]

(***************************************************************************)
(* What a settled order leaves in wallet_transactions and ledger_entries.  *)
(* A row's idempotencyKey is unique: it is the pair kind and key here.     *)
(***************************************************************************)
Row(kind, o, wallet, counterparty, amount, fee, before, after) ==
    [kind |-> kind, flow |-> o.flow, key |-> o.key, wallet |-> wallet,
     counterparty |-> counterparty, amount |-> amount, fee |-> fee,
     qr |-> o.qr, before |-> before, after |-> after]

\* Mutant: the fee is missing from the sender's statement line.
DebitRowWithoutFee(o, bal) ==
    Row("DEBIT", o, o.sender, o.receiver, o.amount, 0, bal, bal - TotalDebit(o))

DebitRow(o, bal) ==
    Row("DEBIT", o, o.sender, o.receiver, o.amount, FeeOf(o), bal, bal - TotalDebit(o))
CreditRow(o, bal) ==
    Row("CREDIT", o, o.receiver, o.sender, o.amount, 0, bal, bal + o.amount)
FeeRow(o, bal) ==
    Row("FEE", o, FeePool, FeePool, FeeOf(o), 0, bal, bal + FeeOf(o))

Entry(o, leg, type, wallet, amount) ==
    [flow |-> o.flow, key |-> o.key, leg |-> leg, type |-> type,
     wallet |-> wallet, amount |-> amount]

\* Mutant: the receiver's leg is not posted.
DebitLegOnly(o) == {Entry(o, "transfer", "DEBIT", o.sender, o.amount)}

TransferEntries(o) ==
    {Entry(o, "transfer", "DEBIT", o.sender, o.amount),
     Entry(o, "transfer", "CREDIT", o.receiver, o.amount)}

FeeEntries(o) ==
    {Entry(o, "fee", "DEBIT", o.sender, FeeOf(o)), Entry(o, "fee", "CREDIT", FeePool, FeeOf(o))}

KeyTaken(o) == \E r \in rows : r.kind = "DEBIT" /\ SameKey(r, o)

(***************************************************************************)
(* Operators and the AML service restrict wallets with a single UPDATE,    *)
(* which waits for whoever has the row locked. A frozen wallet may be      *)
(* suspended again: no handler looks at the status it replaces, and no     *)
(* handler ever makes a wallet ACTIVE again.                               *)
(***************************************************************************)
RestrictWallet(w, s) ==
    /\ rowLock[w] = NoCall
    /\ status' = [status EXCEPT ![w] = s]
    /\ UNCHANGED <<balance, rows, ledger, audited, locks, calls>>

RestrictAny == \E w \in Watched, s \in {"SUSPENDED", "FROZEN"} : RestrictWallet(w, s)

(***************************************************************************)
(* Properties of the tables, whichever services write them.                *)
(***************************************************************************)
CallOrNone == Calls \cup {NoCall}

RowType ==
    [kind : {"DEBIT", "CREDIT", "FEE"}, flow : Flows, key : Keys \cup Calls, wallet : Nat,
     counterparty : Nat, amount : Nat, fee : Nat, qr : QrIds \cup {NoQr},
     before : Int, after : Int]

EntryType ==
    [flow : Flows, key : Keys, leg : {"transfer", "fee"}, type : {"DEBIT", "CREDIT"},
     wallet : Nat, amount : Nat]

DbTypeOK ==
    /\ balance \in [Wallets -> Int]
    /\ status \in [Wallets -> Statuses]
    /\ rows \subseteq RowType
    /\ ledger \subseteq EntryType
    /\ audited \subseteq (Flows \X Keys) \cup ({"suspend"} \X Wallets)
    /\ rowLock \in [Wallets -> CallOrNone]
    /\ keyLock \in [Flows \X Keys -> CallOrNone]
    /\ auditLock \in CallOrNone
    /\ order \in [Calls -> Orders]
    /\ seen \in [Calls -> [sender : Int, receiver : Int, pool : Int]]

\* No wallet is ever overdrawn, however many requests spend from it at once:
\* the balance check on the locked row and the decrement see the same money.
NoOverdraft == \A w \in Wallets : balance[w] >= 0

SumOf(S) == MapThenSumSet(LAMBDA r : r.amount, S)
FeesOf(S) == MapThenSumSet(LAMBDA r : r.fee, S)

Signed(r) == IF r.kind = "DEBIT" THEN - (r.amount + r.fee) ELSE r.amount

\* Reconciliation: the history of a wallet in wallet_transactions explains its
\* balance to the cent. No movement is lost, repeated or unrecorded.
StatementsExplainBalances ==
    \A w \in Wallets :
        balance[w] = Opening[w] + MapThenSumSet(Signed, {r \in rows : r.wallet = w})

\* /ledger/reconcile: credits less debits of a wallet in the double-entry ledger
\* are what its balance has gained, fee and fee pool included.
LedgerExplainsBalances ==
    \A w \in Wallets :
        LET of(type) == {e \in ledger : e.wallet = w /\ e.type = type}
        IN balance[w] - Opening[w] = SumOf(of("CREDIT")) - SumOf(of("DEBIT"))

\* The balanceBefore and balanceAfter on the statement lines of a payment or QR
\* payment are the balances the wallet really had around that commit. The lines of
\* the fee pool are not among them, since their balance is read without a lock.
NewRows == rows' \ rows

RowsAreHonest ==
    [][\A r \in NewRows :
         r.flow \in {"payment", "qr"} /\ r.wallet # FeePool /\ r.wallet # r.counterparty =>
             r.before = balance[r.wallet] /\ r.after = balance'[r.wallet]]_<<tables>>

\* A client that is told its order was created finds exactly that order in the
\* statements, and no other request with the same key is told so too; one that
\* is answered from an earlier attempt finds the debit of that attempt.
OrderOf(r) ==
    [flow |-> r.flow, key |-> r.key, sender |-> r.wallet,
     receiver |-> r.counterparty, amount |-> r.amount, qr |-> r.qr]

SettledOrders == {OrderOf(r) : r \in {x \in rows : x.kind = "DEBIT"}}

SuccessIsBacked ==
    \A c \in Calls :
        /\ reply[c] = "created" =>
             /\ Placed(c) \in SettledOrders
             /\ \A d \in Calls \ {c} : SameKey(Placed(c), Placed(d)) => reply[d] # "created"
        /\ reply[c] = "replayed" => KeyTaken(order[c])
=============================================================================
