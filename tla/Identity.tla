-------------------------------- MODULE Identity --------------------------------
(***************************************************************************)
(* Accounts and sessions together: the services that keep the account of a *)
(* user, the PWA in one browser, and everybody else who asks the services  *)
(* for something: the mobile app, agents, a second browser.                *)
(***************************************************************************)
EXTENDS PwaSession

CONSTANTS
    Known,          \* bound: the users about whom others ask
    Choices,        \* bound: the limits that an agent sets together
    Mixes           \* bound: the kinds of callers that are at work together, and how much
                    \* they ask and meets them

ASSUME IdentityAssumption == Known \subseteq Users /\ Choices \subseteq SUBSET Limits

vars == <<serverVars, pwaVars>>

Init == AuthInit /\ PwaInit

Elsewhere == <<"phone", 0>>

\* What others ask for. Only an agent's token gets past requireAgentRole. A request
\* that waits for its handler might as well arrive later, so one waits at a time.
AskElsewhere ==
    /\ \A c \in DOMAIN calls : calls[c].at # "new"
    /\ \E u \in Known, right \in BOOLEAN :
         \/ \E kind \in {"login", "bind", "agentLogin"} : Submit(kind, u, [from |-> kind, device |-> Elsewhere, right |-> right])
         \/ right /\ Submit("register", u, [from |-> "register", device |-> Elsewhere, right |-> right])
         \/ right /\ Submit("open", u, [from |-> "open"])
         \/ \E t \in Tiers : right /\ Submit("upgrade", u, [from |-> "upgrade", tier |-> t])
         \/ \E w \in {x.by : x \in wallets[u]} \cup {0}, sets \in Choices :
              right /\ Submit("limits", u, [from |-> "limits", wallet |-> w, sets |-> sets])
         \/ \E t \in DOMAIN tokens : right /\ Submit("logout", u, [from |-> "logout", token |-> t])
    /\ UNCHANGED <<account, wallets, tokens, wrong, mixed, upset, breaks, lapses>>

Participants == {calls[c].from : c \in DOMAIN calls} \cup {p \in {"pwa"} : asked > 0}

Next ==
    /\ \/ PwaNext
       \/ AskElsewhere /\ UNCHANGED pwaVars
       \/ ServerNext /\ LoseDevice
          /\ UNCHANGED <<memory, stored, opened, screen, asks, asked, typos, guesses, drifted>>
    /\ \E present \in {Participants'}, mix \in Mixes :
         /\ present \subseteq mix.callers
         /\ made' <= mix.calls /\ asked' <= mix.asks /\ breaks' + lapses' <= mix.troubles

Spec == Init /\ [][Next]_vars

TypeOK ==
    /\ \A u \in Users :
         /\ account[u].tier \in Tiers /\ account[u].failed \in Nat
         /\ account[u].lock \in {"open", "locked", "lapsed"}
         /\ \A w \in wallets[u] : w.tier \in Tiers /\ \A k \in Limits : w.limits[k] \in Tiers \cup {Chosen}
    /\ made \in 0 .. MaxCalls /\ DOMAIN calls = 1 .. made
    /\ DOMAIN tokens \subseteq 1 .. made
    /\ memory.refresh \in 0 .. made /\ stored.refresh \in 0 .. made
    /\ screen \in {"login", "home"}
    /\ ownDevice \subseteq Users /\ drifted \subseteq {"asks", "tokens", "code"}

\* A browser that has an id when its register page is opened stays the device of the
\* account registered there, until the storage is cleared or another device is bound:
\* only then is a right PIN refused. Without an id, or after a tap that failed since the
\* page was opened, page and request differ in it, and nothing is promised. The states
\* of accounts, sessions and pages stay well typed meanwhile.
OwnBrowserIsKnown == TypeOK /\ \A u \in ownDevice : stored.device = account[u].device
=============================================================================
