------------------------------- MODULE Inventory -------------------------------
(***************************************************************************)
(* inventory-service: products with a stock, adjustments of the stock and  *)
(* sales recorded for a settled payment. Each handler is a row of separate *)
(* statements with a quantity computed from the first.                     *)
(***************************************************************************)
EXTENDS Requests

CONSTANTS
    Products,
    Works,          \* requests to the stock: id -> kind, product, change and, for a sale, key
    MaxBreaks       \* bound: handlers that fail between two statements

VARIABLES
    product,    \* inventory_products: isActive, trackStock and whether the stock row is there
    stock,      \* inventory_stock.quantity
    moved,      \* the sum of inventory_transactions, STOCK_OUT and SALE negative
    work,       \* per request where its handler stands and the quantity it read
    upset,      \* products on which handlers have overlapped or failed
    breaks

inventoryVars == <<product, stock, moved, work, upset, breaks>>

InventoryInit ==
    /\ product = [p \in Products |-> [row |-> "none", active |-> FALSE]]
    /\ stock = [p \in Products |-> 0] /\ moved = [p \in Products |-> 0]
    /\ work = [w \in DOMAIN Works |-> [at |-> "idle", saw |-> 0]]
    /\ upset = {} /\ breaks = 0

\* POST /products writes the product and, if its stock is to be tracked, which by
\* default it is not, then its stock row.
CreateProduct(p) ==
    /\ product[p].row = "none"
    /\ \E row \in {"created", "untracked"} : product' = [product EXCEPT ![p] = [row |-> row, active |-> TRUE]]
    /\ UNCHANGED <<requests, stock, moved, work, upset, breaks>>

CreateStock(p) ==
    /\ product[p].row = "created"
    /\ product' = [product EXCEPT ![p].row = "stocked"]
    /\ UNCHANGED <<requests, stock, moved, work, upset, breaks>>

\* PATCH and DELETE change whether a product is offered, which a sale does not ask.
ToggleActive(p) ==
    /\ product[p].row # "none"
    /\ product' = [product EXCEPT ![p].active = ~ @]
    /\ UNCHANGED <<requests, stock, moved, work, upset, breaks>>

HasStock(p) == product[p].row = "stocked"
Busy(p) == {w \in DOMAIN Works : Works[w].product = p /\ work[w].at \in {"update", "log", "log only"}}

Turn(w, where) == work' = [work EXCEPT ![w].at = where]
Sees(w, where) == work' = [work EXCEPT ![w] = [at |-> where, saw |-> stock[Works[w].product]]]

\* An adjustment needs a stock row, and refuses to go below zero. A sale looks for the
\* wallet transaction and refuses nothing else; without a stock row it is recorded and
\* no more, which for a product whose row is still to be written is a movement lost.
ReadStock(w) ==
    LET p == Works[w].product IN
    /\ work[w].at = "idle"
    /\ \/ /\ Works[w].kind = "adjust" /\ HasStock(p)
          /\ IF stock[p] + Works[w].change >= 0 THEN Sees(w, "update") ELSE Turn(w, "refused")
       \/ /\ Works[w].kind = "sale" /\ product[p].row # "none"
          /\ IF Stage(Works[w].key) # "settled" THEN Turn(w, "refused")
             ELSE Sees(w, IF HasStock(p) THEN "log" ELSE "log only")
    /\ upset' = IF Busy(p) # {} \/ product[p].row = "created" THEN upset \cup {p} ELSE upset
    /\ UNCHANGED <<requests, product, stock, moved, breaks>>

\* Mutant: the stock is set to the change.
SetStock(w) ==
    LET p == Works[w].product IN
    /\ work[w].at = "update"
    /\ stock' = [stock EXCEPT ![p] = Works[w].change]
    /\ Turn(w, IF Works[w].kind = "adjust" THEN "log" ELSE "done")
    /\ UNCHANGED <<requests, product, moved, upset, breaks>>

\* The quantity is written as computed from what was read.
UpdateStock(w) ==
    LET p == Works[w].product IN
    /\ work[w].at = "update"
    /\ stock' = [stock EXCEPT ![p] = work[w].saw + Works[w].change]
    /\ Turn(w, IF Works[w].kind = "adjust" THEN "log" ELSE "done")
    /\ UNCHANGED <<requests, product, moved, upset, breaks>>

\* The row of inventory_transactions: after the update for an adjustment, before it
\* for a sale.
LogMovement(w) ==
    LET p == Works[w].product IN
    /\ work[w].at \in {"log", "log only"}
    /\ moved' = [moved EXCEPT ![p] = @ + Works[w].change]
    /\ Turn(w, IF Works[w].kind = "adjust" \/ work[w].at = "log only" THEN "done" ELSE "update")
    /\ UNCHANGED <<requests, product, stock, upset, breaks>>

\* A statement fails, or the process dies between two.
BreakOff(w) ==
    /\ breaks < MaxBreaks /\ work[w].at \in {"update", "log", "log only"}
    /\ breaks' = breaks + 1
    /\ upset' = upset \cup {Works[w].product}
    /\ Turn(w, "error")
    /\ UNCHANGED <<requests, product, stock, moved>>

InventoryNext ==
    \/ \E p \in Products : CreateProduct(p) \/ CreateStock(p) \/ ToggleActive(p)
    \/ \E w \in DOMAIN Works : ReadStock(w) \/ UpdateStock(w) \/ LogMovement(w) \/ BreakOff(w)

(***************************************************************************)
(* Properties.                                                             *)
(***************************************************************************)
\* The stock of a product that is tracked is the sum of its recorded movements whenever
\* no handler is at it, unless two handlers have overlapped, one has failed half way, or a
\* sale came before the stock row. A product that is not tracked has no stock to agree.
\* And whatever the overlap, stock below zero is the work of a sale, for an adjustment
\* does not go there.
MovementsExplainStock ==
    \A p \in Products :
        /\ HasStock(p) /\ p \notin upset /\ Busy(p) = {} => stock[p] = moved[p]
        /\ stock[p] < 0 => \E w \in DOMAIN Works : Works[w].kind = "sale" /\ work[w].at = "done"
=============================================================================
