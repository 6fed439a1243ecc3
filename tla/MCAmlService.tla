----------------------------- MODULE MCAmlService -----------------------------
(***************************************************************************)
(* Instance of AmlService for TLC: 1 pays 2, 2 pays about as much back, and *)
(* 1 pays again; a flag raised by hand suspends wallet 2.                  *)
(***************************************************************************)
EXTENDS AmlService

CONSTANTS p1, p2, p3, n1, n2, f1, d1

MCPayment == (p1 :> [from |-> 1, to |-> 2, amount |-> 100])
             @@ (p2 :> [from |-> 2, to |-> 1, amount |-> 105])
             @@ (p3 :> [from |-> 1, to |-> 2, amount |-> 30])

MCContent == [n \in Notices |-> [channel |-> IF n = n1 THEN "SMS" ELSE "PUSH", addressed |-> n = n1]]

MCByHand == f1 :> [severity |-> "CRITICAL", wallet |-> 2]

MCReported == {<<f1, "MANUAL", 1>>}
=============================================================================
