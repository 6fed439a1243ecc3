------------------------------ MODULE Transfers ------------------------------
(***************************************************************************)
(* What the money-moving services promise, with no requests, locks,        *)
(* retries or crashes: an order settles in one step, at most once per      *)
(* idempotency key, only while the statuses of its wallets allow it and    *)
(* the sender can cover amount and fee, and by a QR code only for the      *)
(* amount it asks and, when it is single-use, once; and an operator may    *)
(* suspend or freeze a wallet at any time.                                 *)
(***************************************************************************)
EXTENDS Money

VARIABLES
    balance,    \* the balance of each wallet
    status,     \* the status of each wallet
    settled     \* the orders that have moved money

vars == <<balance, status, settled>>

Init ==
    /\ balance = Opening
    /\ status = InitialStatus
    /\ settled = {}

Settle(o) ==
    /\ \A p \in settled : ~ SameKey(p, o)
    /\ o.flow = "qr" =>
         /\ FitsOffer(o)
         /\ SingleUse(o.qr) => \A p \in settled : p.qr # o.qr
    /\ StatusAllows(status, o)
    /\ Covered(balance, o)
    /\ balance' = Settled(balance, o)
    /\ settled' = settled \cup {o}
    /\ UNCHANGED status

Restrict(w) ==
    /\ \E s \in {"SUSPENDED", "FROZEN"} : status' = [status EXCEPT ![w] = s]
    /\ UNCHANGED <<balance, settled>>

Next == (\E o \in Orders : Settle(o)) \/ (\E w \in Wallets : Restrict(w))

Spec == Init /\ [][Next]_vars
=============================================================================
