------------------------------- MODULE PwaSession -------------------------------
(***************************************************************************)
(* Who is signed in to the PWA, in one browser: the api client with its    *)
(* tokens in memory and its interceptor, localStorage, and the pages that  *)
(* fill the one from the other. A request that is answered 401 asks for a  *)
(* new access token and is sent again as it was, and the request for the   *)
(* token goes through the same interceptor.                                *)
(***************************************************************************)
EXTENDS AuthService

CONSTANT MaxAsks        \* bound: what the user does in the browser

VARIABLES
    memory,     \* the api client's access and refresh token
    stored,     \* localStorage: user, tokens, device and staticQrHash
    opened,     \* the device id that the register page keeps while it is open, or none
    screen,     \* "login" or "home"
    asks,       \* what the pages are waiting for
    asked,
    typos,      \* per user wrong PINs typed here
    guesses,    \* per user wrong PINs the service has had from here
    drifted,    \* "asks": somebody signed in or out during a request; "tokens", "code": the
                \* login page was reached with tokens in memory, with a code in storage, or,
                \* of the code, somebody signed in over a session with one
    ownDevice   \* users registered here from a browser that had a device id, and kept it

pwaVars == <<memory, stored, opened, screen, asks, asked, typos, guesses, drifted, ownDevice>>

NoToken == [user |-> "none", expired |-> FALSE]
SignedOut == [access |-> NoToken, refresh |-> 0]
Empty == [user |-> "none", access |-> NoToken, refresh |-> 0, device |-> << >>, code |-> "none"]

PwaInit ==
    /\ memory = SignedOut /\ stored = Empty /\ opened = << >> /\ screen = "login"
    /\ asks = {} /\ asked = 0
    /\ typos = [u \in Users |-> 0] /\ guesses = [u \in Users |-> 0]
    /\ drifted = {} /\ ownDevice = {}

\* getDeviceId: the stored one, or a new one that is stored.
Device == IF stored.device # << >> THEN stored.device ELSE <<"client", asked>>

\* The register page takes an id when it is opened, and does not store it.
PageDevice == IF stored.device # << >> THEN stored.device ELSE <<"page", asked>>

Waiting(kind) == \E a \in asks : a.kind = kind

\* "Sign in" and "Create account"; the button is disabled while it loads. A register
\* page that is still open after a tap that failed has the id it was opened with,
\* whatever the client has stored since.
TapSubmit ==
    /\ screen = "login" /\ ~ Waiting("sign in") /\ asked < MaxAsks
    /\ asked' = asked + 1
    /\ \E u \in Users, right \in BOOLEAN, kind \in {"login", "register"} :
         /\ kind = "register" => right
         /\ opened' \in IF kind = "register" THEN {PageDevice} \cup ({opened} \ {<< >>}) ELSE {<< >>}
         /\ Submit(kind, u, [from |-> "pwa", device |-> Device, right |-> right])
         /\ asks' = asks \cup {[kind |-> "sign in", what |-> kind, user |-> u, right |-> right,
                                call |-> made', stage |-> "asked", with |-> NoToken,
                                device |-> Device, page |-> opened']}
         /\ typos' = IF right THEN typos ELSE [typos EXCEPT ![u] = @ + 1]
         /\ guesses' = IF right THEN guesses ELSE [guesses EXCEPT ![u] = @ + 1]
    /\ stored' = [stored EXCEPT !.device = Device]
    /\ UNCHANGED <<memory, screen, drifted, ownDevice>>

\* A page asks for a balance with the token in memory, or for the user's QR code if
\* none is in storage: the gateway and wallet-service know what the token is worth
\* without asking anybody.
Load(kind) ==
    /\ screen = "home" /\ ~ Waiting(kind) /\ asked < MaxAsks
    /\ kind = "qr" => stored.code = "none"
    /\ asked' = asked + 1
    /\ asks' = asks \cup {[kind |-> kind, what |-> kind, user |-> stored.user, right |-> TRUE,
                           call |-> 0, stage |-> "asked", with |-> memory.access, device |-> << >>, page |-> << >>]}
    /\ UNCHANGED <<memory, stored, opened, screen, typos, guesses, drifted, ownDevice>>

Answer(a) ==
    IF a.call # 0 THEN calls[a.call].at
    ELSE IF a.with = NoToken \/ (a.with.user # a.user /\ ~ a.with.expired) THEN "403"
    ELSE IF a.with.expired THEN "401" ELSE "ok"

Drop(a) == asks' = asks \ {a}
Becomes(a, b) == asks' = (asks \ {a}) \cup {b}

\* Mutant: a user id that is there is not stored again.
SignInKeepsUser(a) ==
    /\ a.kind = "sign in" /\ a.stage = "asked" /\ Answer(a) = "ok"
    /\ memory' = [access |-> [user |-> a.user, expired |-> FALSE], refresh |-> a.call]
    /\ stored' = [user |-> IF stored.user = "none" THEN a.user ELSE stored.user,
                  access |-> memory'.access, refresh |-> a.call,
                  device |-> IF a.what = "register" THEN a.page ELSE stored.device,
                  code |-> stored.code]
    /\ screen' = "home" /\ opened' = << >>
    /\ ownDevice' = IF a.what = "register" /\ account[a.user].device = a.page THEN ownDevice \cup {a.user} ELSE ownDevice
    /\ drifted' = drifted \cup {d \in {"asks"} : asks # {a}}
                         \cup {d \in {"code"} : screen = "home" /\ stored.code # "none"}
    /\ Drop(a)
    /\ UNCHANGED <<asked, typos, guesses, serverVars>>

\* Signed in: tokens in memory and in storage. The page of a registration stores its
\* own device id over the client's.
SignIn(a) ==
    /\ a.kind = "sign in" /\ a.stage = "asked" /\ Answer(a) = "ok"
    /\ memory' = [access |-> [user |-> a.user, expired |-> FALSE], refresh |-> a.call]
    /\ stored' = [user |-> a.user, access |-> memory'.access, refresh |-> a.call,
                  device |-> IF a.what = "register" THEN a.page ELSE stored.device,
                  code |-> stored.code]
    /\ screen' = "home" /\ opened' = << >>
    /\ ownDevice' = IF a.what = "register" /\ account[a.user].device = a.page THEN ownDevice \cup {a.user} ELSE ownDevice
    /\ drifted' = drifted \cup {d \in {"asks"} : asks # {a}}
                         \cup {d \in {"code"} : screen = "home" /\ stored.code # "none"}
    /\ Drop(a)
    /\ UNCHANGED <<asked, typos, guesses, serverVars>>

Loaded(a) ==
    /\ a.kind \in {"load", "qr"} /\ a.stage = "asked" /\ Answer(a) = "ok"
    /\ stored' = IF a.kind = "qr" THEN [stored EXCEPT !.code = a.user] ELSE stored
    /\ Drop(a)
    /\ UNCHANGED <<memory, opened, screen, asked, typos, guesses, drifted, ownDevice, serverVars>>

\* The interceptor: 401 and a refresh token in memory ask for a new access token, be
\* it to a page's request or to the request for a token itself.
AskRefresh(a) ==
    /\ memory.refresh # 0
    /\ \/ a.stage = "asked" /\ Answer(a) = "401"
       \/ a.stage = "refresh" /\ calls[a.call].at = "401"
    /\ Submit("refresh", stored.user, [from |-> "pwa", token |-> memory.refresh])
    /\ Becomes(a, [a EXCEPT !.stage = "refresh", !.call = made'])
    /\ UNCHANGED <<memory, stored, opened, screen, asked, typos, guesses, drifted, ownDevice>>

\* The new token is kept in memory only, whoever is signed in by now, and the request
\* is sent again: a login with the PIN it had.
SendAgain(a) ==
    /\ a.stage = "refresh" /\ calls[a.call].at = "ok"
    /\ memory' = [memory EXCEPT !.access = [user |-> tokens[calls[a.call].token].user, expired |-> FALSE]]
    /\ IF a.kind = "sign in"
         THEN /\ Submit(a.what, a.user, [from |-> "pwa", device |-> a.device, right |-> a.right])
              /\ Becomes(a, [a EXCEPT !.stage = "asked", !.call = made'])
              /\ guesses' = IF a.right THEN guesses ELSE [guesses EXCEPT ![a.user] = @ + 1]
         ELSE /\ Becomes(a, [a EXCEPT !.stage = "asked", !.call = 0, !.with = memory'.access])
              /\ UNCHANGED <<calls, made, guesses>>
    /\ UNCHANGED <<stored, opened, screen, asked, typos, drifted, ownDevice>>

\* Mutant: signing out leaves the refresh token in memory.
KeepRefresh == memory' = [memory EXCEPT !.access = NoToken]

\* apiClient.logout(): it tells nobody.
ForgetTokens == memory' = SignedOut

\* What is still there when the login page opens, besides the tokens.
LeftBehind ==
    {d \in {"code"} : stored'.code # "none"} \cup {d \in {"asks"} : asks' # {}}

\* The request has failed for good. A failed refresh signs out; a page that could not
\* load goes to the login page, whatever the reason, and leaves the tokens.
GiveUp(a) ==
    /\ Drop(a)
    /\ IF a.stage = "refresh"
         THEN ForgetTokens /\ stored' = [stored EXCEPT !.access = NoToken, !.refresh = 0]
         ELSE UNCHANGED <<memory, stored>>
    /\ screen' = IF a.kind = "load" THEN "login" ELSE screen
    /\ opened' = IF a.kind = "load" THEN << >> ELSE opened
    /\ drifted' = IF a.kind = "load"
                     THEN drifted \cup LeftBehind \cup {d \in {"tokens"} : memory'.refresh # 0}
                     ELSE drifted
    /\ UNCHANGED <<asked, typos, guesses, ownDevice, serverVars>>

\* A refusal that nothing can be done about, or no answer: the gateway's limit, ten
\* seconds, a broken connection.
Refused(a) ==
    /\ \/ a.stage = "asked" /\ Answer(a) \in {"403", "429", "409", "500"}
       \/ a.stage = "asked" /\ Answer(a) = "401" /\ memory.refresh = 0
       \/ a.stage = "refresh" /\ calls[a.call].at = "401" /\ memory.refresh = 0
    /\ GiveUp(a)

NoAnswer(a) == GiveUp(a)

\* Mutant: signing out on the first page also empties the storage.
SignOutClears ==
    /\ screen = "home"
    /\ ForgetTokens
    /\ screen' = "login"
    /\ stored' = Empty
    /\ (ownDevice' = {} \/ UNCHANGED ownDevice)
    /\ UNCHANGED asks /\ drifted' = drifted \cup LeftBehind
    /\ UNCHANGED <<opened, asked, typos, guesses, serverVars>>

\* Sign out: of the dashboard with everything in localStorage, the device id too; of
\* the first page with the tokens only. Whatever is being asked goes on.
SignOut ==
    /\ screen = "home"
    /\ ForgetTokens
    /\ screen' = "login"
    /\ \/ stored' = Empty /\ ownDevice' = {}
       \/ stored' = [stored EXCEPT !.access = NoToken, !.refresh = 0] /\ UNCHANGED ownDevice
    /\ UNCHANGED asks /\ drifted' = drifted \cup LeftBehind
    /\ UNCHANGED <<opened, asked, typos, guesses, serverVars>>

\* A page that needs a user takes the tokens from storage. After a reload nothing else
\* is left.
EnterPage ==
    /\ stored.access # NoToken
    /\ \/ UNCHANGED asks
       \/ asks' = {}
    /\ memory' = [access |-> stored.access, refresh |-> stored.refresh]
    /\ screen' = "home" /\ opened' = << >>
    /\ UNCHANGED <<stored, asked, typos, guesses, drifted, ownDevice, serverVars>>

\* After fifteen minutes an access token, wherever it is kept, is worth nothing.
ExpireAccess ==
    /\ ~ memory.access.expired /\ memory.access # NoToken
    /\ memory' = [memory EXCEPT !.access.expired = TRUE]
    /\ stored' = [stored EXCEPT !.access.expired = stored.access # NoToken]
    /\ UNCHANGED <<opened, screen, asks, asked, typos, guesses, drifted, ownDevice, serverVars>>

\* Somebody binds another device to the account: it is no longer the browser's.
LoseDevice ==
    ownDevice' = {u \in ownDevice : account'[u].device = account[u].device}

PwaAsks == TapSubmit \/ \E a \in asks : AskRefresh(a) \/ SendAgain(a)

PwaNext ==
    \/ \E kind \in {"load", "qr"} : Load(kind) /\ UNCHANGED serverVars
    \/ PwaAsks /\ UNCHANGED <<account, wallets, tokens, wrong, mixed, upset, breaks, lapses>>
    \/ \E a \in asks : SignIn(a) \/ Loaded(a) \/ Refused(a) \/ NoAnswer(a)
    \/ SignOut \/ EnterPage \/ ExpireAccess

(***************************************************************************)
(* Properties.                                                             *)
(***************************************************************************)
\* The pages act for the user who is signed in: the token in use and the QR code they
\* show for being paid are that user's, however requests, refreshes and sign-outs
\* follow each other. Two things a sign-in finds can be another user's: the answer to
\* a request that was under way, which brings a token or a code, and a code that only
\* the sign-out of the dashboard removes from storage, be it that nobody signed out or
\* that a sign-in ended after its page had been left for those of the user before.
PagesActForTheUser ==
    screen = "home" =>
        /\ "asks" \notin drifted /\ memory.access # NoToken => memory.access.user = stored.user
        /\ {"asks", "code"} \cap drifted = {} => stored.code \in {"none", stored.user}

\* A wrong PIN typed once is tried once. Only when a page that could not load had sent
\* the user to the login page with the tokens still in memory does the interceptor
\* repeat it, until the account is locked.
TypedOnceTriedOnce ==
    "tokens" \notin drifted => \A u \in Users : guesses[u] <= typos[u]
=============================================================================
