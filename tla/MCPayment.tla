------------------------------- MODULE MCPayment -------------------------------
(***************************************************************************)
(* Instances of PaymentService for TLC. Wallets 1, 2 and 3 are customers   *)
(* and 4 is the fee pool. Wallet 1 can afford any one of its orders, not   *)
(* all pairs of them, and 1 and 2 pay each other.                          *)
(***************************************************************************)
EXTENDS PaymentService, TLC

NoOffers == [q \in QrIds |-> [wallet |-> 1, type |-> "STATIC", by |-> "wallet", amount |-> 1]]

CONSTANTS c1, c2, c3, kA, kB, kC

MCWallets == {1, 2, 3, 4}
MCOpening == (1 :> 170) @@ (2 :> 130) @@ (3 :> 0) @@ (4 :> 0)
MCStatus == [w \in MCWallets |-> "ACTIVE"]
MCKeys == {kA, kB, kC}
\* kC is a UUID, as every client generates; kA and kB are keys short enough to store.
MCKeyLength == (kA :> 29) @@ (kB :> 12) @@ (kC :> 36)

Pay(k, s, r, a) == [flow |-> "payment", key |-> k, sender |-> s, receiver |-> r, amount |-> a, qr |-> NoQr]

\* An order of 100 debits 125: wallet 1 covers it beside none of the others. kA is
\* sent with two amounts, kB by two senders, and kC can never be stored.
MCOrders ==
    {Pay(kA, 1, 2, 100), Pay(kA, 1, 2, 40), Pay(kB, 1, 3, 100), Pay(kB, 2, 1, 60),
     Pay(kC, 1, 3, 100)}

Perms == Permutations({c1, c2, c3})
=============================================================================
