-------------------------------- MODULE Money --------------------------------
(***************************************************************************)
(* The vocabulary of the money-moving services: wallets, what a client may *)
(* order, and what one order does to the wallet balances once it settles.  *)
(* Amounts are BIGINT cents, so they are plain integers here.              *)
(***************************************************************************)
EXTENDS Integers, FiniteSets

CONSTANTS
    Wallets,        \* wallet ids; their order is the order of the UUIDs
    FeePool,        \* the id of the FEE_POOL wallet; outside Wallets when it was never seeded
    Opening,        \* the balance of each wallet when the behaviour starts
    InitialStatus,  \* the status of each wallet when the behaviour starts
    Keys,           \* client idempotency keys
    KeyLength,      \* the length of each key
    Orders,         \* the requests clients may send
    QrIds,          \* payment QR codes
    NoQr,           \* the QR code of an order that is not a QR payment
    Offers          \* what the merchant asks for when generating each QR code

\* DELETED stands for isDeleted = TRUE, which no service sets and every lookup tests.
Statuses == {"ACTIVE", "SUSPENDED", "FROZEN", "CLOSED", "DELETED"}

\* POST /payments, POST /qr/:qrHash/pay, POST /agents/cash-in, POST
\* /agents/cash-out and the "Send Money" and "Buy Airtime" menus of USSD.
Flows == {"payment", "qr", "cashIn", "cashOut", "ussd", "airtime"}

\* idempotencyKey VARCHAR(36), the bound of the request schema and of the column.
KeyColumnWidth == 36

Amounts == Nat \ {0}

Order ==
    [flow : Flows, key : Keys, sender : Wallets, receiver : Wallets, amount : Amounts,
     qr : QrIds \cup {NoQr}]

\* A code is generated by wallet-service or by payment-service. One of type DYNAMIC
\* has a fixed amount; the others may suggest one.
Offer ==
    [wallet : Wallets, type : {"STATIC", "DYNAMIC", "REQUEST"}, by : {"wallet", "payment"},
     amount : Amounts]

ASSUME MoneyAssumption ==
    /\ IsFiniteSet(Wallets) /\ Wallets \subseteq Nat
    /\ FeePool \in Nat
    /\ Opening \in [Wallets -> Nat]
    /\ InitialStatus \in [Wallets -> Statuses]
    /\ KeyLength \in [Keys -> 1 .. KeyColumnWidth]
    /\ NoQr \notin QrIds /\ Offers \in [QrIds -> Offer]
    /\ Orders \subseteq Order
    /\ \A o \in Orders : IF o.flow = "qr" THEN o.qr \in QrIds /\ o.receiver = Offers[o.qr].wallet
                                         ELSE o.qr = NoQr
    /\ \A o \in Orders : o.flow = "airtime" => o.receiver = o.sender

HasFeePool == FeePool \in Wallets

\* Mutant: the minimum is subtracted instead of enforced.
FeeWithoutMinimum(amount) == ((amount * 50) \div 10000) - 25

\* calculateTransferFee: 50 basis points, at least 25 cents.
CalculateTransferFee(amount) ==
    LET feeBps == (amount * 50) \div 10000 IN IF feeBps > 25 THEN feeBps ELSE 25

\* Only POST /payments charges a fee.
FeeOf(o) == IF o.flow = "payment" THEN CalculateTransferFee(o.amount) ELSE 0

TotalDebit(o) == o.amount + FeeOf(o)

\* What settling o adds to the balance of w. Without a FEE_POOL wallet the fee
\* leaves the sender and arrives nowhere.
Movement(o, w) ==
    (IF w = o.receiver THEN o.amount ELSE 0)
      + (IF w = FeePool THEN FeeOf(o) ELSE 0)
      - (IF w = o.sender THEN TotalDebit(o) ELSE 0)

Settled(bal, o) == [w \in Wallets |-> bal[w] + Movement(o, w)]

\* The status checks on the locked rows. A QR payment looks at the sender only,
\* and lets a CLOSED one through.
StatusAllows(st, o) ==
    IF o.flow = "payment"
      THEN st[o.sender] = "ACTIVE" /\ st[o.receiver] = "ACTIVE"
      ELSE st[o.sender] \notin {"DELETED", "SUSPENDED", "FROZEN"}

\* A DYNAMIC code is paid its exact amount, and nobody pays his own code.
FitsOffer(o) ==
    /\ Offers[o.qr].type = "DYNAMIC" => o.amount = Offers[o.qr].amount
    /\ o.sender # o.receiver

\* maxUsage 1 and an expiry date. The services disagree about REQUEST codes.
SingleUse(q) ==
    IF Offers[q].by = "wallet" THEN Offers[q].type # "STATIC" ELSE Offers[q].type = "DYNAMIC"

\* Mutant: the fee is forgotten in the balance check.
CoversAmountOnly(bal, o) == bal[o.sender] >= o.amount

Covered(bal, o) == bal[o.sender] >= TotalDebit(o)

\* Two orders that claim the same idempotency key: each flow derives its own
\* stored keys from the client's, so only orders of one flow compete.
SameKey(o, p) == o.flow = p.flow /\ o.key = p.key
=============================================================================
