-------------------------------- MODULE Clients --------------------------------
(***************************************************************************)
(* The pages by which people move money: "Send Money" and "Scan QR" of the *)
(* PWA, and "Cash In" and "Cash Out" of the agent portal. A page is a      *)
(* small state machine around one request at a time, and every tap on its  *)
(* button makes a new idempotency key.                                     *)
(***************************************************************************)
EXTENDS Requests

CONSTANTS
    Sessions,       \* open pages
    KindOf,         \* the page of each: "send", "scan" or "cash"
    Amounts,        \* what people type
    MaxTaps         \* bound: taps per session

ASSUME ClientAssumption ==
    /\ KindOf \in [Sessions -> {"send", "scan", "cash"}]
    /\ Amounts \subseteq Nat \ {0}
    /\ MaxTaps \in Nat

VARIABLE page       \* per session what its React state holds

Blank == [step |-> "entry", draft |-> 0, taps |-> 0, waiting |-> FALSE, says |-> "nothing"]

ClientInit == page = [s \in Sessions |-> Blank]

Loading(s) == page[s].waiting
Key(s) == <<s, page[s].taps>>
Turn(s, fields) == page' = [page EXCEPT ![s] = WithFields(@, fields)]

\* A payment is composed: recipient and amount of the send page, a code looked up,
\* or a customer's wallet found. The send page stays usable while it loads.
Compose(s) ==
    /\ page[s].step = "entry"
    /\ \E a \in Amounts : Turn(s, [step |-> "confirm", draft |-> a, says |-> "nothing"])
    /\ UNCHANGED requests

\* The amount of a code without one, and of cash, may be typed over until the answer
\* is there.
Retype(s) ==
    /\ KindOf[s] # "send" /\ page[s].step \in {"confirm", "processing"}
    /\ \E a \in Amounts \ {page[s].draft} : Turn(s, [draft |-> a])
    /\ UNCHANGED requests

\* "Back" of the send page and of cash works during a request, that of the scanner not.
Back(s) ==
    /\ page[s].step \in (IF KindOf[s] = "cash" THEN {"confirm"} ELSE {"confirm", "error"})
    /\ KindOf[s] = "scan" => ~ Loading(s)
    /\ Turn(s, [step |-> "entry", says |-> "nothing"])
    /\ UNCHANGED requests

\* The button: a fresh key for each tap, and no second tap while one is under way. The
\* send page makes a uuid, the others a hash of 32 characters.
Tap(s) ==
    /\ page[s].step = "confirm" /\ ~ Loading(s) /\ page[s].taps < MaxTaps
    /\ Turn(s, [step |-> IF KindOf[s] = "scan" THEN "processing" ELSE "confirm",
                taps |-> page[s].taps + 1, waiting |-> TRUE])
    /\ Send(<<s, page[s].taps + 1>>, page[s].draft, KindOf[s] # "send")

\* Whatever was thrown, the send page says "payment was NOT sent", which with its keys
\* is true.
ShowError(s) == Turn(s, [step |-> "error", waiting |-> FALSE, says |-> "failed"])

\* Mutant: an answer to any tap of the session will do.
HearAny(s) ==
    /\ Loading(s)
    /\ \E n \in 1 .. page[s].taps : Stage(<<s, n>>) = "settled"
    /\ Turn(s, [step |-> "success", waiting |-> FALSE, says |-> "sent"])
    /\ UNCHANGED requests

\* An answer turns the page, wherever the user has gone meanwhile. Cash that was
\* reset has no wallet left to show.
Hear(s) ==
    /\ Loading(s)
    /\ \/ /\ Stage(Key(s)) = "settled"
          /\ Turn(s, [step |-> "success", waiting |-> FALSE,
                      says |-> IF KindOf[s] = "cash" /\ page[s].step = "entry"
                                 THEN "nothing" ELSE "sent"])
       \/ Stage(Key(s)) = "refused" /\ ShowError(s)
    /\ UNCHANGED requests

\* axios stops after ten seconds; the portal's has no limit.
OwnTimeout(s) ==
    /\ Loading(s) /\ KindOf[s] # "cash"
    /\ ShowError(s)
    /\ UNCHANGED requests

\* The gateway answers 503 after fifteen seconds, or the connection breaks.
GatewayTimeout(s) ==
    /\ Loading(s)
    /\ ShowError(s)
    /\ UNCHANGED requests

TryAgain(s) ==
    /\ page[s].step = "error"
    /\ Turn(s, [step |-> "confirm", says |-> "nothing"])
    /\ UNCHANGED requests

Finish(s) ==
    /\ page[s].step = "success"
    /\ Turn(s, [step |-> "entry", says |-> "nothing"])
    /\ UNCHANGED requests

ClientNext ==
    \E s \in Sessions :
        Compose(s) \/ Retype(s) \/ Back(s) \/ Tap(s) \/ Hear(s)
        \/ OwnTimeout(s) \/ GatewayTimeout(s) \/ TryAgain(s) \/ Finish(s)

(***************************************************************************)
(* Properties.                                                             *)
(***************************************************************************)
\* A page that shows a payment as sent has had an answer to its last tap: not to an
\* earlier one, and not to a request that was lost or is still under way.
SuccessMeansSettled == \A s \in Sessions : page[s].says = "sent" => Stage(Key(s)) = "settled"
=============================================================================
