------------------------------- MODULE Requests -------------------------------
(***************************************************************************)
(* The money-moving services as their callers see them. What they do to a  *)
(* request is module Transfers: a key settles at most once, or is refused. *)
(* Callers only see an answer, and not always: a request may be lost on    *)
(* its way, and a service goes on with a request whose caller, or whose    *)
(* gateway, has stopped waiting.                                           *)
(***************************************************************************)
EXTENDS Integers, FiniteSets, Entries

VARIABLE requests   \* idempotency key -> amount, whether it is fit, and stage

RequestsInit == requests = << >>

Asked(amount, fit) == [amount |-> amount, fit |-> fit, stage |-> "sent"]

\* A request is fit when the service can take it: its enum knows the payment method, and
\* the key leaves room for the prefix of the credit's row.
Send(key, amount, fit) == requests' = WithEntry(requests, key, Asked(amount, fit))

\* Under the same key: a handler that has the key already goes on or has answered,
\* one that refused tries anew.
SendAgain(key, fit) ==
    requests' = IF key \in DOMAIN requests /\ requests[key].stage \in {"sent", "settled"}
                  THEN requests ELSE SetEntry(requests, key, Asked(1, fit))

Stage(key) == IF key \in DOMAIN requests THEN requests[key].stage ELSE "none"

Reach(key, stage) ==
    /\ Stage(key) = "sent"
    /\ requests' = [requests EXCEPT ![key].stage = stage]

\* The handler commits, or refuses the request (400, balance, status, limits, AML, 429).
Settle(key) == requests[key].fit /\ Reach(key, "settled")
Refuse(key) == Reach(key, "refused")

\* The request never gets to a handler.
Lose(key) == Reach(key, "gone")

RequestsNext == \E key \in DOMAIN requests : Settle(key) \/ Refuse(key) \/ Lose(key)
=============================================================================
