------------------------------ MODULE UssdSession ------------------------------
(***************************************************************************)
(* ussd-service as a customer with a feature phone sees it. The service    *)
(* keeps no session: Africa's Talking sends everything that was pressed so *)
(* far, and routeUssd finds the page anew each time, so that an input once *)
(* given, "0. Back" and a wrong number included, stays in every request to *)
(* come. The last page of a session places an order, and the handler goes  *)
(* on with it when the customer has hung up.                               *)
(***************************************************************************)
EXTENDS Requests, Sequences

CONSTANTS
    Numbers,        \* what may be typed as a wallet number: wallets and other things
    Holder,         \* per number "open", "deleted" or "nobody"
    MaxDials,       \* bound: sessions
    MaxPresses,     \* bound: inputs of a session
    MaxAirtimeFaults \* bound: failures around the purchase of airtime

VARIABLES
    pressed,    \* the inputs of the session
    screen,     \* the page shown, or "off"
    named,      \* wallet numbers the session has shown with the name of their holder
    dials,
    ordered,    \* per session its confirmed order and what became of it
    faulted     \* failures so far

ussdVars == <<pressed, screen, named, dials, ordered, faulted>>

UssdInit ==
    /\ pressed = << >> /\ screen = "off" /\ named = {} /\ dials = 0
    /\ ordered = << >> /\ faulted = 0

(***************************************************************************)
(* The pages.                                                              *)
(***************************************************************************)
\* What parseZarToCents accepts among the inputs: the menu options are amounts as well.
Rands == {"1", "2", "3"}
Inputs == {"0"} \cup Rands \cup Numbers

HolderOf(number) == IF number \in Numbers THEN Holder[number] ELSE "nobody"

\* The amount page, the confirmation and what follows, for both menus; the rest of
\* a session after "0", or after an amount that is none, shows one page for ever.
PageAfterAmount(h, last) ==
    IF h[3] = "0" THEN "menu"
    ELSE IF h[3] \notin Rands THEN "invalid amount"
    ELSE IF Len(h) = 3 THEN "confirm"
    ELSE IF Len(h) > 4 THEN "menu"
    ELSE IF h[4] = "1" THEN last ELSE "end"

\* The recipient is looked up when it is the last input, and not again.
SendPage(h) ==
    IF Len(h) = 1 THEN "recipient"
    ELSE IF h[2] = "0" THEN "menu"
    ELSE IF Len(h) = 2 THEN IF HolderOf(h[2]) = "open" THEN "amount" ELSE "not found"
    ELSE PageAfterAmount(h, "send")

\* "0" as the phone is one's own number.
AirtimePage(h) ==
    IF Len(h) = 1 THEN "phone" ELSE IF Len(h) = 2 THEN "amount" ELSE PageAfterAmount(h, "airtime")

Page(h) ==
    IF h = << >> THEN "menu"
    ELSE IF h[1] = "1" THEN "end"       \* the balance; mini statement and exit end as well
    ELSE IF h[1] = "2" THEN SendPage(h)
    ELSE IF h[1] = "3" THEN AirtimePage(h)
    ELSE "menu"

\* Whatever is pressed on these pages, they are shown again.
Stuck(h) == h # << >> /\ Page(h) \in {"menu", "invalid amount"}

Ends(page) == page \in {"end", "send", "airtime"}

Dial ==
    /\ screen = "off" /\ dials < MaxDials
    /\ dials' = dials + 1
    /\ pressed' = << >> /\ named' = {} /\ screen' = Page(pressed')
    /\ UNCHANGED <<requests, ordered, faulted>>

HangUp ==
    /\ screen # "off"
    /\ screen' = "off" /\ pressed' = << >> /\ named' = {}
    /\ UNCHANGED <<requests, dials, ordered, faulted>>

NewOrder(page, h) ==
    WithEntry(ordered, dials,
              [kind |-> page, holder |-> HolderOf(h[2]), known |-> h[2] \in named,
               at |-> "read", charged |-> FALSE, arrived |-> FALSE, says |-> "nothing"])

\* An input that ends the session clears it; a confirmed order is placed.
Press(i) ==
    LET h == Append(pressed, i)
        page == Page(h) IN
    /\ screen # "off" /\ Len(pressed) < MaxPresses
    /\ IF Ends(page) THEN screen' = "off" /\ pressed' = << >> /\ named' = {}
       ELSE /\ screen' = page
            /\ pressed' = IF Stuck(pressed) THEN pressed ELSE h
            /\ named' = IF page = "amount" /\ h[1] = "2" THEN named \cup {h[2]} ELSE named
    /\ ordered' = IF page \in {"send", "airtime"} THEN NewOrder(page, h) ELSE ordered
    /\ UNCHANGED <<requests, dials, faulted>>

(***************************************************************************)
(* "Send Money", with a fresh key for each attempt.                        *)
(***************************************************************************)
Says(n, fields) == ordered' = [ordered EXCEPT ![n] = WithFields(@, fields)]
Failing == faulted < MaxAirtimeFaults /\ faulted' = faulted + 1

TransferKey(n) == <<"ussd", n>>

\* Mutant: the wallet number is taken as it is.
PayAnybody(n) ==
    /\ ordered[n].kind = "send" /\ ordered[n].at = "read"
    /\ Says(n, [at |-> "transfer"]) /\ Send(TransferKey(n), 1, TRUE)
    /\ UNCHANGED <<pressed, screen, named, dials, faulted>>

\* processSend finds the recipient without asking whether it is deleted.
StartTransfer(n) ==
    /\ ordered[n].kind = "send" /\ ordered[n].at = "read"
    /\ IF ordered[n].holder # "nobody"
         THEN Says(n, [at |-> "transfer"]) /\ Send(TransferKey(n), 1, TRUE)
         ELSE Says(n, [at |-> "done", says |-> "not found"]) /\ UNCHANGED requests
    /\ UNCHANGED <<pressed, screen, named, dials, faulted>>

\* "Transfer failed. Please try again" is also said when the commit was not confirmed.
EndTransfer(n) ==
    /\ ordered[n].kind = "send" /\ ordered[n].at = "transfer"
    /\ \/ Stage(TransferKey(n)) = "settled" /\ Says(n, [at |-> "done", says |-> "sent"]) /\ UNCHANGED faulted
       \/ Stage(TransferKey(n)) \in {"refused", "gone"}
            /\ Says(n, [at |-> "done", says |-> "failed"]) /\ UNCHANGED faulted
       \/ Stage(TransferKey(n)) = "settled" /\ Says(n, [at |-> "done", says |-> "failed"]) /\ Failing
    /\ UNCHANGED <<requests, pressed, screen, named, dials>>

(***************************************************************************)
(* "Buy Airtime": the debit commits, and then the provider is called.      *)
(***************************************************************************)
\* Mutant: the provider is called whatever became of the debit.
ChargeLater(n) ==
    /\ ordered[n].kind = "airtime" /\ ordered[n].at = "read"
    /\ \E charged \in BOOLEAN : Says(n, [at |-> "buy", charged |-> charged])
    /\ UNCHANGED <<requests, pressed, screen, named, dials, faulted>>

\* Too little money or no account, the debit, or a failure before or after its commit.
ChargeAirtime(n) ==
    /\ ordered[n].kind = "airtime" /\ ordered[n].at = "read"
    /\ \/ Says(n, [at |-> "done", says |-> "refused"]) /\ UNCHANGED faulted
       \/ Says(n, [at |-> "buy", charged |-> TRUE]) /\ UNCHANGED faulted
       \/ \E charged \in BOOLEAN : Says(n, [at |-> "done", says |-> "failed", charged |-> charged]) /\ Failing
    /\ UNCHANGED <<requests, pressed, screen, named, dials>>

\* A provider that fails leaves the debit as it is, and "Airtime purchase failed.
\* Please try again." is all the customer hears.
SendAirtime(n) ==
    /\ ordered[n].kind = "airtime" /\ ordered[n].at = "buy"
    /\ \/ Says(n, [at |-> "done", says |-> "sent", arrived |-> TRUE]) /\ UNCHANGED faulted
       \/ \E arrived \in BOOLEAN : Says(n, [at |-> "done", says |-> "failed", arrived |-> arrived]) /\ Failing
    /\ UNCHANGED <<requests, pressed, screen, named, dials>>

UssdServiceDies ==
    /\ \E n \in DOMAIN ordered : ordered[n].at # "done"
    /\ Failing
    /\ ordered' = [n \in DOMAIN ordered |-> [ordered[n] EXCEPT !.at = "done"]]
    /\ UNCHANGED <<requests, pressed, screen, named, dials>>

UssdNext ==
    \/ Dial \/ HangUp \/ UssdServiceDies
    \/ \E i \in Inputs : Press(i)
    \/ \E n \in DOMAIN ordered : StartTransfer(n) \/ EndTransfer(n) \/ ChargeAirtime(n) \/ SendAirtime(n)

(***************************************************************************)
(* Properties.                                                             *)
(***************************************************************************)
\* Money goes to a wallet that the session had shown with its holder's name, for all
\* the ways through the menus, back and forth. One way leads past it: "1. Try again"
\* after "Wallet not found", or anything else that reads as an amount, is an amount for
\* the wallet that was not found, and a confirmation pays it when it is a deleted one.
OnlyNamedWalletsArePaid ==
    \A n \in DOMAIN ordered :
        ordered[n].kind = "send" /\ Stage(TransferKey(n)) = "settled" =>
            \/ ordered[n].known
            \/ ordered[n].holder = "deleted"

\* Airtime arrives only for money that was taken, once for each confirmation, and who
\* is told that it was sent has both paid and got it, whatever failed or died on the
\* way. Who is told that it failed may have paid.
AirtimeIsPaidFor ==
    \A n \in DOMAIN ordered :
        /\ ordered[n].arrived => ordered[n].charged
        /\ ordered[n].kind = "airtime" /\ ordered[n].says = "sent" => ordered[n].arrived
=============================================================================
