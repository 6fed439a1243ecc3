------------------------------- MODULE MobileApp -------------------------------
(***************************************************************************)
(* "Send Money" of the Flutter app: PaymentBloc, the repository that keeps *)
(* the pending idempotency key in the offline cache, and the API client    *)
(* that repeats a request. Events are handled concurrently, and a handler  *)
(* that is waiting goes on when the state it started from is long gone.    *)
(* The service refuses whatever the app sends: it does not know the        *)
(* payment method AHAVA_WALLET, and the app's uuid leaves no room for the  *)
(* prefix of the credit's key. So no payment of the app ever settles.      *)
(* An intent is what the user entered; a chain is an intent and the "Try   *)
(* again"s that follow from it.                                            *)
(***************************************************************************)
EXTENDS Requests

CONSTANTS
    Intents,        \* recipient, amount and reference
    MaxOpenings,    \* bound: PaymentInitiated events,
    MaxOpening,     \* bound: those of them that wait at the same time
    MaxRepeats      \* _maxRetries of the client: 3

VARIABLES
    bloc,       \* what PaymentBloc shows
    pending,    \* the cached key and its intent
    opening,    \* _onInitiated handlers resolving their recipient
    paying,     \* _onConfirmed handlers waiting for their answer
    openings,   \* PaymentInitiated events so far
    keysOf,     \* per chain the keys it has been sent under
    crossed     \* chains that were under way when the pending key was dropped

appVars == <<bloc, pending, opening, paying, openings, keysOf, crossed>>

Nothing == [intent |-> "none", chain |-> 0, key |-> << >>]
Shows(state, what) ==
    [state |-> state, id |-> 0, intent |-> what.intent, chain |-> what.chain, key |-> what.key]

AppInit ==
    /\ bloc = Shows("entry", Nothing) /\ pending = Nothing
    /\ opening = {} /\ paying = {} /\ openings = 0
    /\ keysOf = << >> /\ crossed = {}

\* The handlers that will speak for a chain when they are done.
UnderWay == {h.chain : h \in opening} \cup {h.chain : h \in paying}

\* PaymentInitiated: from the form a chain begins, from a failure one goes on. The
\* screen stays as it is until the recipient is resolved.
Initiate(intent, chain) ==
    /\ openings < MaxOpenings /\ Cardinality(opening) < MaxOpening
    /\ openings' = openings + 1
    /\ opening' = opening \cup {[id |-> openings', intent |-> intent, chain |-> chain]}

Continue ==
    /\ bloc.state = "entry"
    /\ \E i \in Intents : Initiate(i, openings + 1)
    /\ UNCHANGED <<requests, bloc, pending, paying, keysOf, crossed>>

TryAgain ==
    /\ bloc.state = "failed" /\ bloc.chain # 0
    /\ Initiate(bloc.intent, bloc.chain)
    /\ UNCHANGED <<requests, bloc, pending, paying, keysOf, crossed>>

\* Mutant: every confirmation screen has a key of its own.
FreshKey(h) == pending' = [intent |-> h.intent, chain |-> h.chain, key |-> <<"app", h.id>>]

\* getOrCreatePendingIdempotencyKey: the cached key, if it was made for this intent.
TakeKey(h) ==
    pending' = IF pending.intent = h.intent THEN [pending EXCEPT !.chain = h.chain]
               ELSE [intent |-> h.intent, chain |-> h.chain, key |-> <<"app", h.id>>]

Open(h) ==
    /\ TakeKey(h)
    /\ bloc' = [Shows("ready", pending') EXCEPT !.id = h.id]
    /\ crossed' = IF pending'.key = pending.key THEN crossed ELSE crossed \cup (UnderWay \ {h.chain})
    /\ opening' = opening \ {h}
    /\ UNCHANGED <<requests, paying, openings, keysOf>>

\* The recipient cannot be resolved: a failure with nothing to go back to.
FailToOpen(h) ==
    /\ bloc' = Shows("failed", Nothing)
    /\ opening' = opening \ {h}
    /\ UNCHANGED <<requests, pending, paying, openings, keysOf, crossed>>

\* "Confirm & send", with a payment method and a key that the service does not take.
Confirm ==
    /\ bloc.state = "ready"
    /\ bloc' = [bloc EXCEPT !.state = "processing"]
    /\ paying' = paying \cup {[id |-> bloc.id, intent |-> bloc.intent, chain |-> bloc.chain,
                              key |-> bloc.key, tries |-> 0]}
    /\ SendAgain(bloc.key, FALSE)
    /\ keysOf' = [c \in DOMAIN keysOf \cup {bloc.chain} |->
                    (IF c \in DOMAIN keysOf THEN keysOf[c] ELSE {})
                    \cup (IF c = bloc.chain THEN {bloc.key} ELSE {})]
    /\ UNCHANGED <<pending, opening, openings, crossed>>

\* After a timeout or a broken connection the client repeats the request as it is.
Repeat(h) ==
    /\ h.tries < MaxRepeats
    /\ SendAgain(h.key, FALSE)
    /\ paying' = (paying \ {h}) \cup {[h EXCEPT !.tries = @ + 1]}
    /\ UNCHANGED <<bloc, pending, opening, openings, keysOf, crossed>>

\* Every ending, the 400 of the service included, is a failure that can be tried again:
\* none of its codes is one of those that the bloc takes for final.
EndPayment(h) ==
    /\ bloc' = Shows("failed", h)
    /\ paying' = paying \ {h}
    /\ UNCHANGED <<requests, pending, opening, openings, keysOf, crossed>>

\* "Edit details" and "Start new payment", which do not wait for a handler.
Reset ==
    /\ bloc.state \in {"ready", "failed"}
    /\ bloc' = Shows("entry", Nothing)
    /\ pending' = Nothing
    /\ crossed' = crossed \cup UnderWay
    /\ UNCHANGED <<requests, opening, paying, openings, keysOf>>

\* The app is killed or left with the system's back button; the cache survives, and
\* entering the screen clears it.
KillApp ==
    /\ bloc.state # "entry" \/ opening # {}
    /\ opening' = {} /\ paying' = {}
    /\ bloc' = Shows("entry", Nothing) /\ pending' = Nothing
    /\ UNCHANGED <<requests, openings, keysOf, crossed>>

AppNext ==
    \/ Continue \/ TryAgain \/ Confirm \/ Reset \/ KillApp
    \/ \E h \in opening : Open(h) \/ FailToOpen(h)
    \/ \E h \in paying : Repeat(h) \/ EndPayment(h)

(***************************************************************************)
(* Properties.                                                             *)
(***************************************************************************)
\* "The key persists across retries for the same payment intent": however often a
\* payment is tried again, and whatever is opened or ends meanwhile, it is sent under one
\* key, unless the user gave it up, or began another one, while a handler of it was
\* waiting: that handler comes back with a payment whose key is no longer the pending one.
RetriesKeepTheirKey == \A c \in DOMAIN keysOf \ crossed : Cardinality(keysOf[c]) <= 1
=============================================================================
