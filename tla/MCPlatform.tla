------------------------------ MODULE MCPlatform ------------------------------
(***************************************************************************)
(* Instances of Platform for TLC. Wallets 1, 2 and 3 are customers (3 is   *)
(* also an agent's float) and 4 is the fee pool.                           *)
(***************************************************************************)
EXTENDS Platform, TLC

CONSTANTS c1, c2, c3, kA, kB, kC, q1, q2

MCWallets == 1 .. 4
MCOpening == (1 :> 170) @@ (2 :> 60) @@ (3 :> 40) @@ (4 :> 0)
MCStatus == [w \in MCWallets |-> "ACTIVE"]
MCKeys == {kA, kB, kC}
MCKeyLength == [k \in MCKeys |-> 12]

Make(flow, k, s, r, a, q) ==
    [flow |-> flow, key |-> k, sender |-> s, receiver |-> r, amount |-> a, qr |-> q]

\* q1 is paid once, by 1 or by 2; q2 may be paid any number of times.
AllOffers == (q1 :> [wallet |-> 3, type |-> "DYNAMIC", by |-> "wallet", amount |-> 50])
               @@ (q2 :> [wallet |-> 2, type |-> "REQUEST", by |-> "payment", amount |-> 1])
MCOffers == [q \in QrIds |-> AllOffers[q]]

\* 1 can afford his payment (125) or his scan, and q1 is scanned by 1 and by 2, once with
\* the wrong amount.
QrOrders ==
    {Make("payment", kA, 1, 2, 100, NoQr), Make("qr", kB, 1, 3, 50, q1),
     Make("qr", kC, 2, 3, 50, q1), Make("qr", kA, 2, 3, 40, q1)}

\* 3 is the float: it pays out to 1 and is paid by 1, while 1 pays 2, dials USSD
\* and scans a code of 3.
CashOrders ==
    {Make("payment", kA, 1, 2, 100, NoQr), Make("cashIn", kB, 3, 1, 40, NoQr),
     Make("cashOut", kC, 1, 3, 120, NoQr), Make("ussd", kA, 1, 2, 120, NoQr),
     Make("qr", kB, 1, 3, 50, q1)}

\* A report is asked for while one call buys airtime and one of another flow runs; only
\* the report that looks at statuses sees them change.
MixedOrders == CashOrders \cup {Make("airtime", kC, 1, 1, 45, NoQr)}
ReportMixes ==
    {<<"reconciliation", "payment">>, <<"sarb", "payment">>, <<"ledgerReconcile", "payment">>,
     <<"ledgerReconcile", "cashOut">>, <<"stats", "cashOut">>}
OneOfEach ==
    \A c, d \in Calls : order[c] = order[d] /\ pc[c] # "idle" /\ pc[d] # "idle" => c = d

ReportMix ==
    IF report.kind = "none"
    THEN \A c \in Calls : order[c].flow # "airtime"
    ELSE \E air, other \in Calls :
             /\ order[air].flow = "airtime"
             /\ <<report.kind, order[other].flow>> \in ReportMixes
             /\ \A c \in Calls \ {air} : order[c].flow = order[other].flow
             /\ OneOfEach
\* Every handler judges SUSPENDED and FROZEN alike, so one of them is enough here.

StatusesMatter ==
    /\ \A w \in Wallets : status'[w] # "FROZEN"
    /\ report.kind \notin {"none", "ledgerReconcile"} => status' = status

\* Cash-in and cash-out between the same two wallets, scans of both codes and a payment.
LiveOrders ==
    {Make("payment", kA, 1, 2, 100, NoQr), Make("cashIn", kB, 3, 1, 40, NoQr),
     Make("cashOut", kC, 1, 3, 40, NoQr), Make("qr", kB, 1, 3, 50, q1),
     Make("qr", kA, 1, 2, 20, q2), Make("qr", kC, 3, 2, 20, q2)}

Perms == Permutations({c1, c2, c3})
=============================================================================
