------------------------------- MODULE MCCallers -------------------------------
(***************************************************************************)
(* Instance of Callers for TLC: one page of each kind, two sagas with one  *)
(* key and a PayShap submission, and a merchant who stocks a product and   *)
(* records its sale for the first payment of the scanner; a phone that     *)
(* dials twice, and four payments of two PayShap codes and an unknown one. *)
(***************************************************************************)
EXTENDS Callers, TLC

CONSTANTS send, scan, cash, g1, g2, g3, w1, w2, w3, tea, x1, x2, p1, p2, p3, p4

MCKind == (send :> "send") @@ (scan :> "scan") @@ (cash :> "cash")
MCKindOf == [s \in Sessions |-> MCKind[s]]
MCSagaKey == [g \in Submissions |-> IF g = g3 THEN <<g3, 1>> ELSE <<g1, 1>>]
MCIsPayShap == [g \in Submissions |-> g = g3]

MCShap == {x1, x2, p1, p2, p3, p4}
MCMixes == {{send}, {cash}, {g1, g2, g3}, {app}, {scan, w1, w3, tea}, {w1, w2, w3, tea}, {phone}, MCShap, {reader}, {teller}}
MCPayShapAlone == {MCShap}

Work(kind, change) == [kind |-> kind, product |-> tea, change |-> change, key |-> <<scan, 1>>]
MCWorks == (w1 :> Work("adjust", 2)) @@ (w2 :> Work("adjust", -1)) @@ (w3 :> Work("sale", -1))

\* A wallet, a deleted one and a number that is none.
MCHolder == ("AHV-1" :> "open") @@ ("AHV-2" :> "deleted") @@ ("AHV-3" :> "nobody")
MCNumbers == DOMAIN MCHolder

\* Two payments of one code, one with the transactionId of the other; one of the other
\* code with a transaction nobody knows; and one of a code and a transaction unknown.
Pay(code, transaction) == [code |-> code, transaction |-> transaction, right |-> TRUE]
MCPays ==
    (p1 :> Pay(x1, x1)) @@ (p2 :> Pay(x1, x2)) @@ (p3 :> [Pay(x2, "none") EXCEPT !.right = FALSE])
    @@ (p4 :> Pay("none", "none"))
=============================================================================
