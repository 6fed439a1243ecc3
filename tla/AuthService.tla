------------------------------ MODULE AuthService ------------------------------
(***************************************************************************)
(* auth-service (registration, login, refresh, logout, device binding) and *)
(* what other services do to the tier that an account and its wallets      *)
(* share: kyc-service's tier upgrade, wallet-service's new wallets and     *)
(* limits; and agent-service's login with the same PIN. No handler opens a *)
(* database transaction: each is a row of separate statements, and others  *)
(* run between two of them.                                                *)
(***************************************************************************)
EXTENDS Integers, FiniteSets, Entries

CONSTANTS
    Users,
    Agents,         \* users with an ACTIVE agent profile
    Tiers,          \* 0 is TIER_0, and so on; 3 is MERCHANT
    PinLimit,       \* wrong PINs that lock: 5 in the code
    MaxCalls,       \* bound: requests to the services
    MaxBreaks,      \* bound: handlers that fail between two statements
    MaxLapses       \* bound: locks of fifteen minutes that run out

ASSUME AuthAssumption ==
    /\ Agents \subseteq Users
    /\ 0 \in Tiers /\ Tiers \subseteq 0 .. 3
    /\ PinLimit \in Nat \ {0} /\ MaxCalls \in Nat /\ MaxBreaks \in Nat /\ MaxLapses \in Nat

VARIABLES
    account,    \* users: tier, failedPinAttempts, pinLockedUntil and primaryDeviceId
    wallets,    \* wallets of each user: the call that made it, tier and limits
    tokens,     \* refresh_tokens: id -> user and whether revoked or expired
    calls,      \* requests under way or answered: id -> what it asks, where it stands
    made,       \* requests so far
    wrong,      \* per user wrong PINs counted or to be counted since the last right one
    mixed,      \* users whose logins have overlapped
    upset,      \* users whose wallets were being changed by two handlers, or by one that failed
    breaks, lapses

serverVars == <<account, wallets, tokens, calls, made, wrong, mixed, upset, breaks, lapses>>

NoAccount == [is |-> FALSE, tier |-> 0, failed |-> 0, lock |-> "open", device |-> << >>]

AuthInit ==
    /\ account = [u \in Users |-> NoAccount]
    /\ wallets = [u \in Users |-> {}]
    /\ tokens = << >> /\ calls = << >> /\ made = 0
    /\ wrong = [u \in Users |-> 0] /\ mixed = {} /\ upset = {}
    /\ breaks = 0 /\ lapses = 0

\* A limit is that of a tier, or what an agent chose.
TierLimits == {"dailyLimit", "monthlyLimit", "maxBalance"}
Limits == TierLimits \cup {"perTransactionLimit"}
Chosen == -1

\* No table has a line for MERCHANT: both services fall back to TIER_0.
LimitOf(tier) == IF tier \in 0 .. 2 THEN tier ELSE 0
LimitsOf(tier) == [k \in Limits |-> LimitOf(tier)]

\* A request arrives; what it carries beyond its kind and user is in the fields.
NewCall(kind, user) ==
    [from |-> "nobody", kind |-> kind, user |-> user, at |-> "new", saw |-> 0,
     device |-> << >>, right |-> FALSE, tier |-> 0, token |-> 0,
     wallet |-> 0, sets |-> {}, limits |-> LimitsOf(0)]

Submit(kind, user, fields) ==
    /\ made < MaxCalls
    /\ made' = made + 1
    /\ calls' = SetEntry(calls, made', WithFields(NewCall(kind, user), fields))

At(c, kind, where) == calls[c].kind = kind /\ calls[c].at = where
Move(c, where) == calls' = [calls EXCEPT ![c].at = where]
Sees(c, where, value) == calls' = [calls EXCEPT ![c].at = where, ![c].saw = value]

Finished == {"ok", "401", "403", "404", "409", "429", "500"}
UnderWay(u, kinds) ==
    {c \in DOMAIN calls : calls[c].user = u /\ calls[c].kind \in kinds /\ calls[c].at \notin Finished \cup {"new"}}

\* Two handlers are at the wallets of a user.
WalletWork == {"register", "upgrade", "open", "limits"}
MeetsWalletWork(c) ==
    upset' = IF UnderWay(calls[c].user, WalletWork) \subseteq {c} THEN upset ELSE upset \cup {calls[c].user}

(***************************************************************************)
(* Registration.                                                           *)
(***************************************************************************)
FindPhone(c) ==
    /\ At(c, "register", "new")
    /\ Move(c, IF account[calls[c].user].is THEN "409" ELSE "create")
    /\ UNCHANGED <<account, wallets, tokens, made, wrong, mixed, upset, breaks, lapses>>

\* Mutant: two registrations of one phone number both create their user.
CreateTwice(c) ==
    LET u == calls[c].user IN
    /\ At(c, "register", "create")
    /\ account' = [account EXCEPT ![u] = [NoAccount EXCEPT !.is = TRUE, !.device = calls[c].device]]
    /\ Move(c, "wallet")
    /\ MeetsWalletWork(c)
    /\ UNCHANGED <<wallets, tokens, made, wrong, mixed, breaks, lapses>>

\* The hash of the phone number is unique: of two registrations that have both found
\* it free, one fails.
CreateUser(c) ==
    LET u == calls[c].user IN
    /\ At(c, "register", "create")
    /\ IF account[u].is
         THEN Move(c, "500") /\ UNCHANGED <<account, upset>>
         ELSE /\ account' = [account EXCEPT ![u] = [NoAccount EXCEPT !.is = TRUE, !.device = calls[c].device]]
              /\ Move(c, "wallet")
              /\ MeetsWalletWork(c)
    /\ UNCHANGED <<wallets, tokens, made, wrong, mixed, breaks, lapses>>

Wallet(c, tier) ==
    [by |-> c, first |-> calls[c].kind = "register", tier |-> tier, limits |-> LimitsOf(tier)]

FirstWallet(c) ==
    /\ At(c, "register", "wallet")
    /\ wallets' = [wallets EXCEPT ![calls[c].user] = @ \cup {Wallet(c, 0)}]
    /\ Move(c, "token")
    /\ UNCHANGED <<account, tokens, made, wrong, mixed, upset, breaks, lapses>>

\* The refresh token; the access token of the answer is a value and has no row. The
\* audit entry that follows may still fail, and then the answer is an error.
IssueToken(c) ==
    /\ calls[c].kind \in {"register", "login", "agentLogin"} /\ calls[c].at = "token"
    /\ tokens' = SetEntry(tokens, c, [user |-> calls[c].user, revoked |-> FALSE])
    /\ \/ Move(c, "ok") /\ UNCHANGED breaks
       \/ breaks < MaxBreaks /\ breaks' = breaks + 1 /\ Move(c, "500")
    /\ UNCHANGED <<account, wallets, made, wrong, mixed, upset, lapses>>

(***************************************************************************)
(* Login, and the PIN.                                                     *)
(***************************************************************************)
\* The user is read once: lock, PIN and count are of that moment. The device is asked
\* after the PIN.
ReadLogin(c) ==
    LET u == calls[c].user
        a == account[u] IN
    /\ At(c, "login", "new")
    /\ \/ ~ a.is /\ Move(c, "401") /\ UNCHANGED <<wrong, mixed>>
       \/ a.is /\ a.lock = "locked" /\ Move(c, "429") /\ UNCHANGED <<wrong, mixed>>
       \/ /\ a.is /\ a.lock # "locked" /\ calls[c].right /\ a.device # calls[c].device
          /\ Move(c, "401") /\ UNCHANGED <<wrong, mixed>>
       \/ /\ a.is /\ a.lock # "locked" /\ (calls[c].right => a.device = calls[c].device)
          /\ Sees(c, IF calls[c].right THEN "reset" ELSE "wrong", a.failed)
          /\ wrong' = IF calls[c].right THEN wrong ELSE [wrong EXCEPT ![u] = @ + 1]
          /\ mixed' = IF UnderWay(u, {"login"}) = {} THEN mixed ELSE mixed \cup {u}
    /\ UNCHANGED <<account, wallets, tokens, made, upset, breaks, lapses>>

\* Mutant: a count that has locked once starts again.
RecordWrongPinModulo(c) ==
    LET u == calls[c].user
        failed == (calls[c].saw + 1) % PinLimit IN
    /\ At(c, "login", "wrong")
    /\ account' = [account EXCEPT ![u].failed = failed,
                                  ![u].lock = IF failed = 0 THEN "locked" ELSE "open"]
    /\ Move(c, "401")
    /\ UNCHANGED <<wallets, tokens, made, wrong, mixed, upset, breaks, lapses>>

\* The count is what was read and one, and so is the lock: below the limit it is
\* written as null, whatever another login has made of it since.
RecordWrongPin(c) ==
    LET u == calls[c].user
        failed == calls[c].saw + 1 IN
    /\ At(c, "login", "wrong")
    /\ account' = [account EXCEPT ![u].failed = failed,
                                  ![u].lock = IF failed >= PinLimit THEN "locked" ELSE "open"]
    /\ Move(c, "401")
    /\ UNCHANGED <<wallets, tokens, made, wrong, mixed, upset, breaks, lapses>>

ResetAttempts(c) ==
    LET u == calls[c].user IN
    /\ At(c, "login", "reset")
    /\ account' = [account EXCEPT ![u].failed = 0, ![u].lock = "open"]
    /\ wrong' = [wrong EXCEPT ![u] = 0]
    /\ Move(c, "token")
    /\ UNCHANGED <<wallets, tokens, made, mixed, upset, breaks, lapses>>

\* POST /agents/auth/login: the same PIN, with neither lock nor count nor device.
ReadAgentLogin(c) ==
    LET u == calls[c].user IN
    /\ At(c, "agentLogin", "new")
    /\ Move(c, IF account[u].is /\ u \in Agents /\ calls[c].right THEN "token" ELSE "401")
    /\ UNCHANGED <<account, wallets, tokens, made, wrong, mixed, upset, breaks, lapses>>

\* Fifteen minutes later; the count stays.
LapseLock(u) ==
    /\ account[u].lock = "locked" /\ lapses < MaxLapses
    /\ account' = [account EXCEPT ![u].lock = "lapsed"]
    /\ lapses' = lapses + 1
    /\ UNCHANGED <<wallets, tokens, calls, made, wrong, mixed, upset, breaks>>

\* The access token is for the user of the refresh token, which stays as it is. The
\* user id comes from the body and must be that of the token.
AnswerRefresh(c) ==
    LET t == calls[c].token IN
    /\ At(c, "refresh", "new")
    /\ Move(c, IF t \in DOMAIN tokens /\ ~ tokens[t].revoked /\ tokens[t].user = calls[c].user
                 THEN "ok" ELSE "401")
    /\ UNCHANGED <<account, wallets, tokens, made, wrong, mixed, upset, breaks, lapses>>

\* A refresh token ends after thirty days: 401 as for a revoked one.
ExpireToken(t) ==
    /\ ~ tokens[t].revoked
    /\ tokens' = [tokens EXCEPT ![t].revoked = TRUE]
    /\ UNCHANGED <<account, wallets, calls, made, wrong, mixed, upset, breaks, lapses>>

\* Logout names any token; only the mobile app calls it.
RevokeToken(c) ==
    LET t == calls[c].token IN
    /\ At(c, "logout", "new")
    /\ IF t \in DOMAIN tokens
         THEN tokens' = [tokens EXCEPT ![t].revoked = TRUE] /\ Move(c, "ok")
         ELSE Move(c, "500") /\ UNCHANGED tokens
    /\ UNCHANGED <<account, wallets, made, wrong, mixed, upset, breaks, lapses>>

\* The PIN is asked, and neither the lock nor the count.
BindDevice(c) ==
    LET u == calls[c].user IN
    \/ /\ At(c, "bind", "new")
       /\ Move(c, IF ~ account[u].is THEN "403" ELSE IF calls[c].right THEN "bind" ELSE "401")
       /\ UNCHANGED <<account, wallets, tokens, made, wrong, mixed, upset, breaks, lapses>>
    \/ /\ At(c, "bind", "bind")
       /\ account' = [account EXCEPT ![u].device = calls[c].device]
       /\ Move(c, "ok")
       /\ UNCHANGED <<wallets, tokens, made, wrong, mixed, upset, breaks, lapses>>

(***************************************************************************)
(* Tiers, wallets and limits.                                              *)
(***************************************************************************)
\* kyc-service: the user first, and then all wallets there are.
UpgradeUser(c) ==
    LET u == calls[c].user IN
    /\ At(c, "upgrade", "new")
    /\ IF account[u].is
         THEN /\ account' = [account EXCEPT ![u].tier = calls[c].tier]
              /\ Move(c, "wallets") /\ MeetsWalletWork(c)
         ELSE Move(c, "403") /\ UNCHANGED <<account, upset>>
    /\ UNCHANGED <<wallets, tokens, made, wrong, mixed, breaks, lapses>>

Upgraded(w, tier) ==
    [w EXCEPT !.tier = tier,
              !.limits = [k \in Limits |-> IF k \in TierLimits THEN LimitOf(tier) ELSE w.limits[k]]]

\* Mutant: only the wallet of the registration is updated.
UpgradeFirst(c) ==
    LET u == calls[c].user IN
    /\ At(c, "upgrade", "wallets")
    /\ wallets' = [wallets EXCEPT ![u] = {IF w.first THEN Upgraded(w, calls[c].tier) ELSE w : w \in @}]
    /\ Move(c, "ok")
    /\ UNCHANGED <<account, tokens, made, wrong, mixed, upset, breaks, lapses>>

\* updateMany; perTransactionLimit is not among the limits it sets.
UpgradeWallets(c) ==
    LET u == calls[c].user IN
    /\ At(c, "upgrade", "wallets")
    /\ wallets' = [wallets EXCEPT ![u] = {Upgraded(w, calls[c].tier) : w \in @}]
    /\ Move(c, "ok")
    /\ UNCHANGED <<account, tokens, made, wrong, mixed, upset, breaks, lapses>>

\* wallet-service: a wallet with the tier that was read.
OpenWallet(c) ==
    LET u == calls[c].user IN
    \/ /\ At(c, "open", "new")
       /\ IF account[u].is THEN Sees(c, "create", account[u].tier) /\ MeetsWalletWork(c)
          ELSE Move(c, "403") /\ UNCHANGED upset
       /\ UNCHANGED <<account, wallets, tokens, made, wrong, mixed, breaks, lapses>>
    \/ /\ At(c, "open", "create")
       /\ wallets' = [wallets EXCEPT ![u] = @ \cup {Wallet(c, calls[c].saw)}]
       /\ Move(c, "ok")
       /\ UNCHANGED <<account, tokens, made, wrong, mixed, upset, breaks, lapses>>

\* An agent sets some limits of any wallet; the others are written as they were read.
ReadLimits(c, w) ==
    calls' = [calls EXCEPT ![c].at = "write",
                ![c].limits = [k \in Limits |-> IF k \in calls[c].sets THEN Chosen ELSE w.limits[k]]]

SetLimits(c) ==
    LET u == calls[c].user IN
    \/ /\ At(c, "limits", "new")
       /\ \E w \in wallets[u] : w.by = calls[c].wallet /\ ReadLimits(c, w)
       /\ MeetsWalletWork(c)
       /\ UNCHANGED <<account, wallets, tokens, made, wrong, mixed, breaks, lapses>>
    \/ /\ At(c, "limits", "new")
       /\ \A w \in wallets[u] : w.by # calls[c].wallet
       /\ Move(c, "404")
       /\ UNCHANGED <<account, wallets, tokens, made, wrong, mixed, upset, breaks, lapses>>
    \/ /\ At(c, "limits", "write")
       /\ wallets' = [wallets EXCEPT ![u] =
                        {IF w.by = calls[c].wallet THEN [w EXCEPT !.limits = calls[c].limits] ELSE w : w \in @}]
       /\ Move(c, "ok")
       /\ UNCHANGED <<account, tokens, made, wrong, mixed, upset, breaks, lapses>>

\* A statement fails, or the service dies between two: the caller gets an error.
BreakOff(c) ==
    /\ breaks < MaxBreaks
    /\ calls[c].at \notin Finished \cup {"new"}
    /\ breaks' = breaks + 1
    /\ Move(c, "500")
    /\ upset' = IF calls[c].at \in {"wallet", "token", "wallets"} THEN upset \cup {calls[c].user} ELSE upset
    /\ mixed' = IF calls[c].at = "wrong" THEN mixed \cup {calls[c].user} ELSE mixed
    /\ UNCHANGED <<account, wallets, tokens, made, wrong, lapses>>

ServerNext ==
    \/ \E c \in DOMAIN calls :
          \/ FindPhone(c) \/ CreateUser(c) \/ FirstWallet(c) \/ IssueToken(c)
          \/ ReadLogin(c) \/ ReadAgentLogin(c) \/ RecordWrongPin(c) \/ ResetAttempts(c)
          \/ AnswerRefresh(c) \/ RevokeToken(c) \/ BindDevice(c)
          \/ UpgradeUser(c) \/ UpgradeWallets(c) \/ OpenWallet(c) \/ SetLimits(c)
          \/ BreakOff(c)
    \/ \E u \in Users : LapseLock(u)
    \/ \E t \in DOMAIN tokens : ExpireToken(t)

(***************************************************************************)
(* Properties.                                                             *)
(***************************************************************************)
\* "Attempts: n/5": wrong PINs one after the other are all counted, and as many as
\* the limit have locked the account, whatever comes between them and however often
\* a lock has run out: a login at the agent service neither counts nor asks the lock,
\* and leaves both as they are. Only logins that overlap lose a count or lift a lock.
WrongPinsLock ==
    \A u \in Users \ mixed :
        UnderWay(u, {"login"}) = {} =>
            /\ account[u].failed = wrong[u]
            /\ wrong[u] >= PinLimit => account[u].lock # "open"

\* A phone number is registered once: it has one first wallet, unless its registration
\* is under way or has failed half way, and a registration that was answered has left
\* its refresh token as well.
RegisteredOnce ==
    \A u \in Users :
        LET firsts == {w \in wallets[u] : w.first} IN
        /\ Cardinality(firsts) <= 1
        /\ account[u].is /\ u \notin upset /\ UnderWay(u, {"register"}) = {} =>
             \E w \in firsts : w.by \in DOMAIN tokens /\ tokens[w.by].user = u

\* A user and the wallets are of one tier when nobody is changing them, and the limits
\* that go with the tier are those of the tier or such as an agent has set since,
\* unless two handlers have been at the wallets at once or one has failed half way.
LimitsFit(limits, tier) == \A k \in TierLimits : limits[k] \in {LimitOf(tier), Chosen}

TiersAgree ==
    \A u \in Users \ upset :
        UnderWay(u, WalletWork) = {} =>
            \A w \in wallets[u] : w.tier = account[u].tier /\ LimitsFit(w.limits, account[u].tier)
=============================================================================
