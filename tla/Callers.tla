-------------------------------- MODULE Callers --------------------------------
(***************************************************************************)
(* Everybody who asks the money-moving services for something: the pages,  *)
(* the mobile app, the orchestrator, the USSD menu, and the merchant who   *)
(* records the sale that a customer has paid for; and the pages that list  *)
(* what was paid. The simulated PayShap, which none of them calls, stands  *)
(* beside them.                                                            *)
(***************************************************************************)
EXTENDS Clients, Orchestrator

CONSTANTS Products, Works, MaxBreaks, Intents, MaxOpenings, MaxOpening, MaxRepeats, app,
          Numbers, Holder, MaxDials, MaxPresses, MaxAirtimeFaults, phone,
          Codes, Payers, Pays, MaxDbFaults,
          PageSize, MaxLines, MaxFetches, reader, teller,
          Mixes         \* bound: the sets of callers that are at work together

\* A page, the app and a phone make keys of their own; a number belongs to a wallet, a
\* deleted one or nobody; and the requests to the stock are about products.
ASSUME CallersAssumption ==
    /\ {"app", "ussd"} \cap Sessions = {}
    /\ IsFiniteSet(Submissions)
    /\ \A w \in DOMAIN Works :
         /\ Works[w].kind \in {"adjust", "sale"} /\ Works[w].product \in Products
         /\ Works[w].change \in Int
    /\ Holder \in [Numbers -> {"open", "deleted", "nobody"}]
    /\ PageSize \in Nat \ {0}

VARIABLES product, stock, moved, work, upset, breaks,
          bloc, pending, opening, paying, openings, keysOf, crossed,
          pressed, screen, named, dials, ordered, faulted,
          qrPayment, payer, dbFaults,
          book, scroll, table, fetches, fetched

Shop == INSTANCE Inventory
App == INSTANCE MobileApp
Ussd == INSTANCE UssdSession
Shap == INSTANCE PayShapMock
Lists == INSTANCE History

shopVars == <<product, stock, moved, work, upset, breaks>>
appVars == <<bloc, pending, opening, paying, openings, keysOf, crossed>>
ussdVars == <<pressed, screen, named, dials, ordered, faulted>>
shapVars == <<qrPayment, payer, dbFaults>>
listVars == <<book, scroll, table, fetches, fetched>>
vars == <<requests, page, sagaVars, shopVars, appVars, ussdVars, shapVars, listVars>>

Init ==
    /\ RequestsInit /\ ClientInit /\ OrchestratorInit
    /\ Shop!InventoryInit /\ App!AppInit /\ Ussd!UssdInit /\ Shap!ShapInit
    /\ Lists!HistoryInit

Arrived ==
    {s \in Sessions : page[s] # Blank} \cup {g \in Submissions : saga[g].at # "idle"}
    \cup {w \in DOMAIN Works : work[w].at # "idle"}
    \cup {p \in Products : product[p].row # "none"}
    \cup {a \in {app} : openings > 0} \cup {a \in {phone} : dials > 0}
    \cup {q \in Codes : qrPayment[q].status # "none"} \cup {p \in Payers : payer[p] # "idle"}
    \cup {r \in {reader} : scroll.at # "closed"} \cup {t \in {teller} : fetched > 0}

Next ==
    /\ \/ RequestsNext /\ UNCHANGED <<page, sagaVars, shopVars, appVars, ussdVars, shapVars, listVars>>
       \/ ClientNext /\ UNCHANGED <<sagaVars, shopVars, appVars, ussdVars, shapVars, listVars>>
       \/ OrchestratorNext /\ UNCHANGED <<page, shopVars, appVars, ussdVars, shapVars, listVars>>
       \/ Shop!InventoryNext /\ UNCHANGED <<page, sagaVars, appVars, ussdVars, shapVars, listVars>>
       \/ App!AppNext /\ UNCHANGED <<page, sagaVars, shopVars, ussdVars, shapVars, listVars>>
       \/ Ussd!UssdNext /\ UNCHANGED <<page, sagaVars, shopVars, appVars, shapVars, listVars>>
       \/ Shap!ShapNext /\ UNCHANGED <<requests, page, sagaVars, shopVars, appVars, ussdVars, listVars>>
       \/ /\ Lists!HistoryNext
          /\ UNCHANGED <<requests, page, sagaVars, shopVars, appVars, ussdVars, shapVars>>
    \* Arrived' is the same set for every mix.
    /\ \E arrived \in {Arrived'}, mix \in Mixes : arrived \subseteq mix

Spec == Init /\ [][Next]_vars

\* The stock of a tracked product is the sum of its recorded movements whenever no
\* handler is at it, unless two handlers have overlapped, one has failed half way, or a
\* sale came before the stock row; and stock below zero is the work of a sale.
MovementsExplainStock == Shop!MovementsExplainStock

\* Money goes to a wallet that the USSD session had shown with its holder's name, or,
\* by a "Try again" that is taken as an amount, to a deleted one.
OnlyNamedWalletsArePaid == Ussd!OnlyNamedWalletsArePaid

\* Airtime arrives only for money that was taken, and who is told that it was sent has
\* paid and got it. Who is told that it failed may have paid.
AirtimeIsPaidFor == Ussd!AirtimeIsPaidFor

\* Who is told by the simulated PayShap that a code or a transaction "has already been
\* processed" names one that a payment has gone through with.
DuplicatesWereProcessed == Shap!DuplicatesWereProcessed

\* A history read to its end has every line there was, and the table of the agents
\* shows the page it names unless its filter was changed too early.
HistoryIsComplete == Lists!HistoryIsComplete

\* However often a payment of the app is tried again, it is sent under one key, unless the
\* user gave it up, or began another one, while a handler of it was waiting.
RetriesKeepTheirKey == App!RetriesKeepTheirKey
=============================================================================
