---------------------------- MODULE IdentityProofs ----------------------------
(***************************************************************************)
(* Theorems about accounts and sessions, for any users, tiers and bounds:  *)
(* what the overlapping statements of the services leave of an account,    *)
(* and what the PWA makes of its tokens, its device id and its QR code.    *)
(***************************************************************************)
EXTENDS Identity, FiniteSetTheorems, TLAPS

(***************************************************************************)
(* Calls: their types, and the places each kind of them stands at.         *)
(***************************************************************************)
CallKinds == {"register", "login", "agentLogin", "refresh", "logout", "bind", "upgrade", "open", "limits"}
Places == {"new", "create", "wallet", "token", "reset", "wrong", "bind", "wallets", "write"} \cup Finished
Devices == {<< >>} \cup ({"client", "page", "phone"} \X Nat)
Somebody == Users \cup {"none"}

Callers == {"nobody", "pwa"} \cup CallKinds
LimitRow == [Limits -> Tiers \cup {Chosen}]
Call == [from : Callers, kind : CallKinds, user : Somebody, at : Places, saw : Nat,
         device : Devices, right : BOOLEAN, tier : Tiers, token : Nat,
         wallet : Nat, sets : SUBSET Limits, limits : LimitRow]

PlaceFits(kind, where) ==
    \/ where \in Finished \cup {"new"}
    \/ kind = "register" /\ where \in {"create", "wallet", "token"}
    \/ kind = "login" /\ where \in {"reset", "wrong", "token"}
    \/ kind = "agentLogin" /\ where = "token"
    \/ kind = "bind" /\ where = "bind"
    \/ kind = "upgrade" /\ where = "wallets"
    \/ kind = "open" /\ where = "create"
    \/ kind = "limits" /\ where = "write"

CallFits(r) ==
    /\ r \in Call
    /\ PlaceFits(r.kind, r.at)
    /\ r.kind # "refresh" => r.user \in Users
    /\ r.kind = "open" => r.saw \in Tiers

CallsTyped ==
    /\ made \in Nat /\ made <= MaxCalls
    /\ DOMAIN calls = 1 .. made
    /\ \A c \in DOMAIN calls : CallFits(calls[c])

AccountRow == [is : BOOLEAN, tier : Tiers, failed : Nat, lock : {"open", "locked", "lapsed"}, device : Devices]
WalletRow == [by : Nat, first : BOOLEAN, tier : Tiers, limits : LimitRow]

AccountsTyped ==
    /\ account \in [Users -> AccountRow]
    /\ wallets \in [Users -> SUBSET WalletRow]
    /\ wrong \in [Users -> Nat]

TokenRow == [user : Users, revoked : BOOLEAN]

\* A refresh token is the user's who asked, and a refresh that was granted had one.
TokensTrue ==
    /\ \A t \in DOMAIN tokens : tokens[t] \in TokenRow /\ t \in DOMAIN calls /\ tokens[t].user = calls[t].user
    /\ \A c \in DOMAIN calls : calls[c].kind = "refresh" /\ calls[c].at = "ok" =>
         calls[c].token \in DOMAIN tokens /\ tokens[calls[c].token].user = calls[c].user

(***************************************************************************)
(* What the calls under way make of one user.                              *)
(***************************************************************************)
LoggingIn(c, u) ==
    /\ c \in DOMAIN calls /\ calls[c].user = u
    /\ calls[c].kind = "login" /\ calls[c].at \in {"reset", "wrong", "token"}

Registering(c, u) ==
    /\ c \in DOMAIN calls /\ calls[c].user = u
    /\ calls[c].kind = "register" /\ calls[c].at \in {"wallet", "token"}

\* Past the point from which it changes the wallets: a registration that has not yet
\* created its user is not.
AtWallets(c, u) ==
    \/ Registering(c, u)
    \/ /\ c \in DOMAIN calls /\ calls[c].user = u
       /\ calls[c].kind \in {"upgrade", "open", "limits"}
       /\ calls[c].at \in {"wallets", "create", "write"}

\* Nobody works for a user who is not there.
NotYet(u) ==
    ~ account[u].is =>
        /\ wallets[u] = {} /\ wrong[u] = 0
        /\ \A c : ~ LoggingIn(c, u) /\ ~ AtWallets(c, u)

\* A wrong PIN that is still to be counted is the only difference.
PinsCounted(u) ==
    u \notin mixed =>
        /\ \A c, d : LoggingIn(c, u) /\ LoggingIn(d, u) => c = d
        /\ \A c : LoggingIn(c, u) /\ calls[c].at = "wrong" =>
             calls[c].saw = account[u].failed /\ wrong[u] = calls[c].saw + 1
        /\ (\A c : LoggingIn(c, u) => calls[c].at # "wrong") =>
             /\ account[u].failed = wrong[u]
             /\ wrong[u] >= PinLimit => account[u].lock # "open"

\* One first wallet, made by the one registration that goes on.
OneFirst(u) ==
    /\ \A v, w \in wallets[u] : v.first /\ w.first => v = w
    /\ \A w \in wallets[u] : w.first => w.by \in DOMAIN calls /\ calls[w.by].user = u
    /\ \A c, d : Registering(c, u) /\ Registering(d, u) => c = d
    /\ \A c : Registering(c, u) =>
         IF calls[c].at = "wallet" THEN \A w \in wallets[u] : ~ w.first
         ELSE \E w \in wallets[u] : w.first /\ w.by = c
    /\ account[u].is /\ u \notin upset /\ (\A c : ~ Registering(c, u)) =>
         \E w \in wallets[u] : w.first /\ w.by \in DOMAIN tokens

AllOfTier(u) ==
    \A w \in wallets[u] : w.tier = account[u].tier /\ LimitsFit(w.limits, account[u].tier)

\* One handler at the wallets, and what it has read or is about to write is of the tier.
TierKnown(u) ==
    u \notin upset =>
        /\ \A c, d : AtWallets(c, u) /\ AtWallets(d, u) => c = d
        /\ (\A c : AtWallets(c, u) => calls[c].kind # "upgrade") => AllOfTier(u)
        /\ \A c : AtWallets(c, u) =>
             /\ calls[c].kind = "upgrade" => account[u].tier = calls[c].tier
             /\ calls[c].kind = "open" => calls[c].saw = account[u].tier
             /\ calls[c].kind = "limits" => LimitsFit(calls[c].limits, account[u].tier)
             /\ Registering(c, u) /\ calls[c].at = "wallet" => account[u].tier = 0

UserInv(u) == NotYet(u) /\ PinsCounted(u) /\ OneFirst(u) /\ TierKnown(u)

ServerInv == CallsTyped /\ AccountsTyped /\ TokensTrue /\ \A u \in Users : UserInv(u)

(***************************************************************************)
(* The browser.                                                            *)
(***************************************************************************)
Token == [user : Somebody, expired : BOOLEAN]
Ask == [kind : {"sign in", "load", "qr"}, what : {"login", "register", "load", "qr"}, user : Somebody,
        right : BOOLEAN, call : Nat, stage : {"asked", "refresh"}, with : Token, device : Devices, page : Devices]

AskFits(a) ==
    /\ a \in Ask
    /\ a.call <= made
    /\ a.kind = "sign in" => a.user \in Users /\ a.what \in {"login", "register"} /\ a.call # 0
    /\ a.stage = "refresh" => a.call # 0 /\ calls[a.call].kind = "refresh"

SessionTyped ==
    /\ made \in Nat
    /\ memory \in [access : Token, refresh : Nat] /\ memory.refresh <= made
    /\ stored \in [user : Somebody, access : Token, refresh : Nat, device : Devices, code : Somebody]
    /\ screen \in {"login", "home"} /\ opened \in Devices
    /\ asked \in Nat
    /\ typos \in [Users -> Nat] /\ guesses \in [Users -> Nat]
    /\ drifted \subseteq {"asks", "tokens", "code"} /\ ownDevice \subseteq Users
    /\ \A a \in asks : AskFits(a)
    /\ \A a, b \in asks : a.kind = "sign in" /\ b.kind = "sign in" => a = b

\* Memory and storage: one refresh token in both, and the stored access token is the
\* stored user's.
StorageAgrees ==
    /\ memory.refresh = stored.refresh
    /\ stored.access # NoToken => stored.refresh # 0 /\ stored.access.user = stored.user

\* While nobody signs in or out during a request, all that is asked is asked for the
\* stored user.
AsksAgree ==
    "asks" \notin drifted =>
        /\ memory.access # NoToken => memory.access.user = stored.user
        /\ \A a \in asks :
             /\ a.kind # "sign in" => a.user = stored.user /\ screen = "home"
             /\ a.stage = "refresh" => calls[a.call].user = stored.user

CodeAgrees ==
    {"asks", "code"} \cap drifted = {} =>
        stored.code = "none" \/ (screen = "home" /\ stored.code = stored.user)

\* Without tokens left in memory nobody signs in where a refresh could be asked for.
NoRepeats ==
    "tokens" \notin drifted =>
        /\ screen = "login" => memory.refresh = 0
        /\ \A a \in asks : a.kind = "sign in" => screen = "login" /\ a.stage = "asked"
        /\ \A u \in Users : guesses[u] <= typos[u]

DeviceKept ==
    /\ stored.device = << >> => ownDevice = {}
    /\ \A u \in ownDevice : stored.device = account[u].device
    /\ opened # << >> => opened = stored.device \/ ownDevice = {}
    /\ \A a \in asks : a.kind = "sign in" /\ a.what = "register" =>
         a.page # << >> /\ (a.page = stored.device \/ ownDevice = {})

SessionInv == SessionTyped /\ StorageAgrees /\ AsksAgree /\ CodeAgrees /\ NoRepeats /\ DeviceKept

(***************************************************************************)
(* How calls change: one arrives, or one goes to another place.            *)
(***************************************************************************)
FieldsFit(fields) ==
    /\ DOMAIN fields \subseteq {"from", "device", "right", "tier", "token", "wallet", "sets"}
    /\ "from" \in DOMAIN fields => fields["from"] \in Callers
    /\ "device" \in DOMAIN fields => fields["device"] \in Devices
    /\ "right" \in DOMAIN fields => fields["right"] \in BOOLEAN
    /\ "tier" \in DOMAIN fields => fields["tier"] \in Tiers
    /\ "token" \in DOMAIN fields => fields["token"] \in Nat
    /\ "wallet" \in DOMAIN fields => fields["wallet"] \in Nat
    /\ "sets" \in DOMAIN fields => fields["sets"] \in SUBSET Limits

\* The limits of a tier are typed, and fit it; a tier without a line has those of TIER_0.
LEMMA LimitsFitTheirTier ==
    ASSUME NEW t \in Tiers
    PROVE  LimitsOf(t) \in LimitRow /\ LimitsFit(LimitsOf(t), t) /\ LimitOf(t) \in Tiers /\ t \in Nat
  BY AuthAssumption DEF AuthAssumption, LimitsOf, LimitOf, LimitRow, LimitsFit, Limits

\* Of the other calls nothing changes.
Arrives(kind, user) ==
    /\ made' = made + 1 /\ made' \in Nat /\ made' <= MaxCalls
    /\ DOMAIN calls' = 1 .. made' /\ made' \notin DOMAIN calls
    /\ \A c \in DOMAIN calls : c \in DOMAIN calls' /\ calls'[c] = calls[c]
    /\ \A c \in DOMAIN calls' : c = made' \/ c \in DOMAIN calls
    /\ made' \in DOMAIN calls' /\ CallFits(calls'[made'])
    /\ calls'[made'].kind = kind /\ calls'[made'].user = user /\ calls'[made'].at = "new"

LEMMA Submitted ==
    ASSUME CallsTyped, NEW kind \in CallKinds, NEW user \in Somebody,
           kind # "refresh" => user \in Users,
           NEW fields, FieldsFit(fields), Submit(kind, user, fields)
    PROVE  Arrives(kind, user)
  <1> DEFINE r == NewCall(kind, user)
             n == made + 1
             s == WithFields(r, fields)
  <1>1. made \in Nat /\ made < MaxCalls /\ made' = n /\ calls' = SetEntry(calls, n, s)
    BY AuthAssumption DEF Submit, CallsTyped
  <1>2. n \in Nat /\ n <= MaxCalls /\ n \notin 1 .. made /\ (1 .. made) \cup {n} = 1 .. n
    BY <1>1, AuthAssumption DEF AuthAssumption
  <1>3. DOMAIN calls = 1 .. made
    BY DEF CallsTyped
  <1>4. /\ DOMAIN calls' = 1 .. n /\ calls'[n] = s
        /\ \A c \in 1 .. made : calls'[c] = calls[c]
    <2> HIDE DEF s
    <2>1. DOMAIN calls' = 1 .. n
      BY <1>1, <1>2, <1>3 DEF SetEntry
    <2>2. \A i \in 1 .. n : calls'[i] = IF i = n THEN s ELSE calls[i]
      BY <1>1, <1>2, <1>3 DEF SetEntry
    <2> QED BY <2>1, <2>2, <1>2
  <1>5. /\ DOMAIN r = {"from", "kind", "user", "at", "saw", "device", "right", "tier", "token",
                       "wallet", "sets", "limits"}
        /\ r["from"] = "nobody" /\ r["kind"] = kind /\ r["user"] = user /\ r["at"] = "new" /\ r["saw"] = 0
        /\ r["device"] = << >> /\ r["right"] = FALSE /\ r["tier"] = 0 /\ r["token"] = 0
        /\ r["wallet"] = 0 /\ r["sets"] = {} /\ r["limits"] = LimitsOf(0)
    BY DEF NewCall
  <1>6. s = [f \in {"from", "kind", "user", "at", "saw", "device", "right", "tier", "token",
                    "wallet", "sets", "limits"} |->
               IF f \in DOMAIN fields THEN fields[f] ELSE r[f]]
    BY <1>5 DEF WithFields
  <1>7. /\ s["kind"] = kind /\ s["user"] = user /\ s["at"] = "new" /\ s["saw"] = 0
        /\ s["limits"] = LimitsOf(0)
    <2> HIDE DEF r
    <2>1. {"kind", "user", "at", "saw", "limits"} \cap DOMAIN fields = {}
      BY DEF FieldsFit
    <2> QED BY <1>5, <1>6, <2>1
  <1>8. s["from"] \in Callers /\ s["tier"] \in Tiers /\ s["token"] \in Nat
    <2> HIDE DEF r
    <2>1. 0 \in Tiers /\ "nobody" \in Callers /\ 0 \in Nat
      BY AuthAssumption DEF AuthAssumption, Callers
    <2>2. /\ s["from"] = IF "from" \in DOMAIN fields THEN fields["from"] ELSE "nobody"
          /\ s["tier"] = IF "tier" \in DOMAIN fields THEN fields["tier"] ELSE 0
          /\ s["token"] = IF "token" \in DOMAIN fields THEN fields["token"] ELSE 0
      BY <1>5, <1>6
    <2> HIDE DEF s
    <2> QED BY <2>1, <2>2 DEF FieldsFit
  <1>8a. s["right"] \in BOOLEAN
    <2> HIDE DEF r
    <2>1. CASE "right" \in DOMAIN fields
      <3>1. s["right"] = fields["right"]
        BY <1>6, <2>1
      <3> HIDE DEF s
      <3> QED BY <2>1, <3>1 DEF FieldsFit
    <2>2. CASE "right" \notin DOMAIN fields
      <3>1. s["right"] = r["right"]
        BY <1>6, <2>2
      <3> HIDE DEF s
      <3>2. r["right"] = FALSE
        BY <1>5
      <3> QED BY <3>1, <3>2, Zenon
    <2> QED BY <2>1, <2>2
  <1>9. s["device"] \in Devices
    <2> HIDE DEF r
    <2>1. s["device"] = IF "device" \in DOMAIN fields THEN fields["device"] ELSE << >>
      BY <1>5, <1>6
    <2>2. << >> \in Devices
      BY DEF Devices
    <2> QED BY <2>1, <2>2 DEF FieldsFit
  <1>9a. s["wallet"] \in Nat /\ s["sets"] \in SUBSET Limits /\ s["limits"] \in LimitRow
    <2> HIDE DEF r
    <2>1. /\ s["wallet"] = IF "wallet" \in DOMAIN fields THEN fields["wallet"] ELSE 0
          /\ s["sets"] = IF "sets" \in DOMAIN fields THEN fields["sets"] ELSE {}
      BY <1>5, <1>6
    <2>2. 0 \in Nat /\ {} \in SUBSET Limits
      OBVIOUS
    <2>3. 0 \in Tiers
      BY AuthAssumption DEF AuthAssumption
    <2>4. LimitsOf(0) \in LimitRow
      BY <2>3, LimitsFitTheirTier
    <2> HIDE DEF s
    <2> QED BY <1>7, <2>1, <2>2, <2>4 DEF FieldsFit
  <1>10. s \in Call /\ s.kind = kind /\ s.user = user /\ s.at = "new" /\ s.saw = 0
    <2> HIDE DEF r
    <2>1. "new" \in Places
      BY DEF Places
    <2>2. 0 \in Nat
      OBVIOUS
    <2> HIDE DEF s
    <2>3. s = [from |-> s["from"], kind |-> s["kind"], user |-> s["user"], at |-> s["at"], saw |-> s["saw"],
               device |-> s["device"], right |-> s["right"], tier |-> s["tier"], token |-> s["token"],
               wallet |-> s["wallet"], sets |-> s["sets"], limits |-> s["limits"]]
      BY <1>6
    <2> QED BY <2>1, <2>2, <2>3, <1>7, <1>8, <1>8a, <1>9, <1>9a DEF Call
  <1> HIDE DEF r, s
  <1>11. CallFits(s)
    <2>1. 0 \in Tiers
      BY AuthAssumption DEF AuthAssumption
    <2> QED BY <1>10, <2>1 DEF CallFits, PlaceFits
  <1>12. /\ \A c \in DOMAIN calls : c \in DOMAIN calls' /\ calls'[c] = calls[c]
         /\ \A c \in DOMAIN calls' : c = n \/ c \in DOMAIN calls
         /\ n \in DOMAIN calls' /\ n \notin DOMAIN calls
    BY <1>2, <1>3, <1>4
  <1>13. calls'[n] = s
    BY <1>4
  <1>14. CallFits(calls'[n]) /\ calls'[n].kind = kind /\ calls'[n].user = user /\ calls'[n].at = "new"
    BY <1>10, <1>11, <1>13
  <1> QED BY <1>1, <1>2, <1>4, <1>12, <1>14 DEF Arrives

\* The call c of a kind and user goes on; the rest of it stays.
Goes(c, where, value) ==
    /\ made' = made
    /\ DOMAIN calls' = DOMAIN calls
    /\ \A d \in DOMAIN calls : d # c => calls'[d] = calls[d]
    /\ calls'[c] \in Call
    /\ calls'[c].at = where /\ calls'[c].saw = value
    /\ calls'[c].kind = calls[c].kind /\ calls'[c].user = calls[c].user
    /\ calls'[c].tier = calls[c].tier /\ calls'[c].token = calls[c].token

LEMMA Moved ==
    ASSUME NEW c \in DOMAIN calls, calls[c] \in Call, made' = made, NEW where \in Places,
           Move(c, where)
    PROVE  Goes(c, where, calls[c].saw)
  <1> DEFINE r == [calls[c] EXCEPT !.at = where]
  <1>1. r \in Call /\ r.at = where /\ r.saw = calls[c].saw /\ r.kind = calls[c].kind
        /\ r.user = calls[c].user /\ r.tier = calls[c].tier /\ r.token = calls[c].token
    BY DEF Call
  <1>2. calls' = [calls EXCEPT ![c] = r]
    BY DEF Move
  <1> HIDE DEF r
  <1>3. calls'[c] = r /\ DOMAIN calls' = DOMAIN calls /\ \A d \in DOMAIN calls : d # c => calls'[d] = calls[d]
    BY <1>2
  <1> QED BY <1>1, <1>3 DEF Goes

LEMMA Saw ==
    ASSUME NEW c \in DOMAIN calls, calls[c] \in Call, made' = made,
           NEW where \in Places, NEW value \in Nat, Sees(c, where, value)
    PROVE  Goes(c, where, value)
  <1> DEFINE q == [calls[c] EXCEPT !.at = where]
             r == [q EXCEPT !.saw = value]
  <1>1. q \in Call /\ q.at = where /\ q.kind = calls[c].kind
        /\ q.user = calls[c].user /\ q.tier = calls[c].tier /\ q.token = calls[c].token
    BY DEF Call
  <1>2. calls' = [calls EXCEPT ![c] = r]
    BY DEF Sees
  <1> HIDE DEF q
  <1>3. r \in Call /\ r.at = where /\ r.saw = value /\ r.kind = calls[c].kind
        /\ r.user = calls[c].user /\ r.tier = calls[c].tier /\ r.token = calls[c].token
    BY <1>1 DEF Call
  <1> HIDE DEF r
  <1>4. calls'[c] = r /\ DOMAIN calls' = DOMAIN calls /\ \A d \in DOMAIN calls : d # c => calls'[d] = calls[d]
    BY <1>2
  <1> QED BY <1>3, <1>4 DEF Goes

(***************************************************************************)
(* What is left alone. A user for whom nobody begins or ends anything is   *)
(* as well off as before.                                                  *)
(***************************************************************************)
LoginsKept(u) ==
    \A c : /\ LoggingIn(c, u)' <=> LoggingIn(c, u)
           /\ LoggingIn(c, u) => calls'[c].at = calls[c].at /\ calls'[c].saw = calls[c].saw

WorkKept(u) ==
    \A c : /\ AtWallets(c, u)' <=> AtWallets(c, u)
           /\ Registering(c, u)' <=> Registering(c, u)
           /\ AtWallets(c, u) => /\ calls'[c].at = calls[c].at /\ calls'[c].saw = calls[c].saw
                                 /\ calls'[c].kind = calls[c].kind /\ calls'[c].tier = calls[c].tier
                                 /\ calls'[c].limits = calls[c].limits

RegistrationsKept(u) ==
    \A c : /\ Registering(c, u)' <=> Registering(c, u)
           /\ Registering(c, u) => calls'[c].at = calls[c].at

CallersKept == \A c \in DOMAIN calls : c \in DOMAIN calls' /\ calls'[c].user = calls[c].user /\ calls'[c].kind = calls[c].kind

\* At such a place a call of the kind has nothing to do with the PIN, or the wallets.
NoLogin(kind, where) == kind = "login" => where \notin {"reset", "wrong", "token"}
NoWork(kind, where) ==
    /\ kind = "register" => where \notin {"wallet", "token"}
    /\ kind \in {"upgrade", "open", "limits"} => where \notin {"wallets", "create", "write"}

LEMMA ArrivesTyped ==
    ASSUME CallsTyped, NEW kind, NEW user, Arrives(kind, user)
    PROVE  CallsTyped'
  BY DEF CallsTyped, Arrives

LEMMA GoesTyped ==
    ASSUME CallsTyped, NEW c \in DOMAIN calls, NEW where, NEW value, Goes(c, where, value),
           PlaceFits(calls[c].kind, where), calls[c].kind = "open" => value \in Tiers
    PROVE  CallsTyped'
  <1>1. CallFits(calls[c]) /\ CallFits(calls'[c])
    BY DEF CallsTyped, CallFits, Goes
  <1> QED BY <1>1 DEF CallsTyped, Goes

LEMMA ArrivesKeeps ==
    ASSUME NEW kind, NEW user, Arrives(kind, user), NEW u
    PROVE  LoginsKept(u) /\ WorkKept(u) /\ CallersKept
  <1>1. \A c \in DOMAIN calls : c \in DOMAIN calls' /\ calls'[c] = calls[c]
    BY DEF Arrives
  <1>2. \A c \in DOMAIN calls' : c \in DOMAIN calls \/ calls'[c].at = "new"
    BY DEF Arrives
  <1>3. LoginsKept(u)
    BY <1>1, <1>2 DEF LoginsKept, LoggingIn
  <1>4. WorkKept(u)
    BY <1>1, <1>2 DEF WorkKept, AtWallets, Registering
  <1> QED BY <1>1, <1>3, <1>4 DEF CallersKept

LEMMA GoesKeeps ==
    ASSUME NEW c \in DOMAIN calls, NEW where, NEW value, Goes(c, where, value), NEW u
    PROVE  /\ CallersKept
           /\ \/ calls[c].user # u
              \/ NoLogin(calls[c].kind, calls[c].at) /\ NoLogin(calls[c].kind, where)
              => LoginsKept(u)
           /\ \/ calls[c].user # u
              \/ NoWork(calls[c].kind, calls[c].at) /\ NoWork(calls[c].kind, where)
              => WorkKept(u)
           /\ calls[c].kind # "register" => RegistrationsKept(u)
  <1>1. /\ DOMAIN calls' = DOMAIN calls /\ \A d \in DOMAIN calls : d # c => calls'[d] = calls[d]
        /\ calls'[c].kind = calls[c].kind /\ calls'[c].user = calls[c].user /\ calls'[c].at = where
    BY DEF Goes
  <1>2. CallersKept
    BY <1>1 DEF CallersKept
  <1>3. ASSUME \/ calls[c].user # u
               \/ NoLogin(calls[c].kind, calls[c].at) /\ NoLogin(calls[c].kind, where)
        PROVE  LoginsKept(u)
    BY <1>1, <1>3 DEF LoginsKept, LoggingIn, NoLogin
  <1>4. ASSUME \/ calls[c].user # u
               \/ NoWork(calls[c].kind, calls[c].at) /\ NoWork(calls[c].kind, where)
        PROVE  WorkKept(u)
    BY <1>1, <1>4 DEF WorkKept, AtWallets, Registering, NoWork
  <1>5. ASSUME calls[c].kind # "register" PROVE RegistrationsKept(u)
    BY <1>1, <1>5 DEF RegistrationsKept, Registering
  <1> QED BY <1>2, <1>3, <1>4, <1>5

LEMMA PinsFrame ==
    ASSUME NEW u, PinsCounted(u), LoginsKept(u), wrong'[u] = wrong[u], u \in mixed => u \in mixed',
           account'[u].failed = account[u].failed,
           account'[u].lock = account[u].lock \/ account'[u].lock # "open"
    PROVE  PinsCounted(u)'
  <1> SUFFICES ASSUME u \notin mixed' PROVE PinsCounted(u)'
    BY DEF PinsCounted
  <1>1. \A c : LoggingIn(c, u)' <=> LoggingIn(c, u)
    BY DEF LoginsKept
  <1>2. \A c : LoggingIn(c, u) => calls'[c].at = calls[c].at /\ calls'[c].saw = calls[c].saw
    BY DEF LoginsKept
  <1> QED BY <1>1, <1>2 DEF PinsCounted

LEMMA FirstFrame ==
    ASSUME NEW u, OneFirst(u), RegistrationsKept(u), CallersKept, wallets'[u] = wallets[u],
           account'[u].is = account[u].is, u \in upset => u \in upset',
           DOMAIN tokens \subseteq DOMAIN tokens'
    PROVE  OneFirst(u)'
  <1>1. \A c : Registering(c, u)' <=> Registering(c, u)
    BY DEF RegistrationsKept
  <1>2. \A c : Registering(c, u) => calls'[c].at = calls[c].at
    BY DEF RegistrationsKept
  <1>3. \A w \in wallets'[u] : w.first => w.by \in DOMAIN calls' /\ calls'[w.by].user = u
    BY DEF OneFirst, CallersKept
  <1>4. \A v, w \in wallets'[u] : v.first /\ w.first => v = w
    BY DEF OneFirst
  <1>5. \A c, d : Registering(c, u)' /\ Registering(d, u)' => c = d
    BY <1>1 DEF OneFirst
  <1>6. ASSUME NEW c, Registering(c, u)'
        PROVE  IF calls'[c].at = "wallet" THEN \A w \in wallets'[u] : ~ w.first
               ELSE \E w \in wallets'[u] : w.first /\ w.by = c
    <2>1. Registering(c, u) /\ calls'[c].at = calls[c].at
      BY <1>1, <1>2, <1>6
    <2> QED BY <2>1 DEF OneFirst
  <1>7. ASSUME account'[u].is, u \notin upset', \A c : ~ Registering(c, u)'
        PROVE  \E w \in wallets'[u] : w.first /\ w.by \in DOMAIN tokens'
    <2>1. \A c : ~ Registering(c, u)
      BY <1>1, <1>7
    <2>2. account[u].is /\ u \notin upset
      BY <1>7
    <2>3. \E w \in wallets[u] : w.first /\ w.by \in DOMAIN tokens
      BY <2>1, <2>2 DEF OneFirst
    <2> QED BY <2>3
  <1> QED BY <1>3, <1>4, <1>5, <1>6, <1>7 DEF OneFirst

LEMMA TierFrame ==
    ASSUME NEW u, TierKnown(u), WorkKept(u), wallets'[u] = wallets[u],
           account'[u].tier = account[u].tier, u \in upset => u \in upset'
    PROVE  TierKnown(u)'
  <1> SUFFICES ASSUME u \notin upset' PROVE TierKnown(u)'
    BY DEF TierKnown
  <1>1. \A c : (AtWallets(c, u)' <=> AtWallets(c, u)) /\ (Registering(c, u)' <=> Registering(c, u))
    BY DEF WorkKept
  <1>2. \A c : AtWallets(c, u) => /\ calls'[c].at = calls[c].at /\ calls'[c].saw = calls[c].saw
                                  /\ calls'[c].kind = calls[c].kind /\ calls'[c].tier = calls[c].tier
                                  /\ calls'[c].limits = calls[c].limits
    BY DEF WorkKept
  <1>3. AllOfTier(u)' <=> AllOfTier(u)
    BY DEF AllOfTier
  <1>4. u \notin upset
    OBVIOUS
  <1>5. \A c, d : AtWallets(c, u)' /\ AtWallets(d, u)' => c = d
    BY <1>1, <1>4 DEF TierKnown
  <1>6. (\A c : AtWallets(c, u)' => calls'[c].kind # "upgrade") => AllOfTier(u)'
    BY <1>1, <1>2, <1>3, <1>4 DEF TierKnown
  <1>7. ASSUME NEW c, AtWallets(c, u)'
        PROVE  /\ calls'[c].kind = "upgrade" => account'[u].tier = calls'[c].tier
               /\ calls'[c].kind = "open" => calls'[c].saw = account'[u].tier
               /\ calls'[c].kind = "limits" => LimitsFit(calls'[c].limits, account'[u].tier)
               /\ Registering(c, u)' /\ calls'[c].at = "wallet" => account'[u].tier = 0
    BY <1>1, <1>2, <1>4, <1>7 DEF TierKnown
  <1> QED BY <1>5, <1>6, <1>7 DEF TierKnown

LEMMA NotYetFrame ==
    ASSUME NEW u, NotYet(u), LoginsKept(u), WorkKept(u), wallets'[u] = wallets[u], wrong'[u] = wrong[u],
           account[u].is => account'[u].is
    PROVE  NotYet(u)'
  BY DEF NotYet, LoginsKept, WorkKept

\* All of it: nothing that matters to the user happens.
LEMMA UserFrame ==
    ASSUME NEW u, UserInv(u), LoginsKept(u), WorkKept(u), CallersKept,
           account'[u] = account[u], wallets'[u] = wallets[u], wrong'[u] = wrong[u],
           u \in mixed => u \in mixed', u \in upset => u \in upset',
           DOMAIN tokens \subseteq DOMAIN tokens'
    PROVE  UserInv(u)'
  <1>1. RegistrationsKept(u)
    BY DEF WorkKept, RegistrationsKept, AtWallets
  <1> QED BY <1>1, PinsFrame, FirstFrame, TierFrame, NotYetFrame DEF UserInv

(***************************************************************************)
(* The steps of the services, one by one.                                  *)
(***************************************************************************)
LEMMA Fits ==
    ASSUME CallsTyped, NEW c \in DOMAIN calls
    PROVE  /\ CallFits(calls[c]) /\ calls[c] \in Call
           /\ \A where : PlaceFits(calls[c].kind, where) => where \in Places
  BY DEF CallsTyped, CallFits, PlaceFits, Places

LEMMA GoesTokens ==
    ASSUME TokensTrue, NEW c \in DOMAIN calls, NEW where, NEW value, Goes(c, where, value),
           calls[c].kind # "refresh" \/ where # "ok",
           DOMAIN tokens \subseteq DOMAIN tokens',
           \A t \in DOMAIN tokens' :
              tokens'[t] \in TokenRow /\ t \in DOMAIN calls /\ tokens'[t].user = calls[t].user
    PROVE  TokensTrue'
  <1>1. DOMAIN calls' = DOMAIN calls /\ \A d \in DOMAIN calls : calls'[d].user = calls[d].user
    BY DEF Goes
  <1>2. ASSUME NEW d \in DOMAIN calls, calls'[d].kind = "refresh", calls'[d].at = "ok"
        PROVE  calls'[d].token \in DOMAIN tokens' /\ tokens'[calls'[d].token].user = calls'[d].user
    <2>1. d # c /\ calls'[d] = calls[d]
      BY <1>2 DEF Goes
    <2> QED BY <1>2, <2>1 DEF TokensTrue
  <1> QED BY <1>1, <1>2 DEF TokensTrue

LEMMA OthersFrame ==
    ASSUME ServerInv, NEW c \in DOMAIN calls, NEW where, NEW value, Goes(c, where, value),
           NEW v \in Users, v # calls[c].user,
           account'[v] = account[v], wallets'[v] = wallets[v], wrong'[v] = wrong[v],
           v \in mixed => v \in mixed', v \in upset => v \in upset',
           DOMAIN tokens \subseteq DOMAIN tokens'
    PROVE  UserInv(v)'
  BY GoesKeeps, UserFrame DEF ServerInv

\* Nothing of accounts changes: a look, or a step that has to do with neither PIN nor
\* wallets.
LEMMA Quiet ==
    ASSUME ServerInv, NEW c \in DOMAIN calls, NEW where, Move(c, where),
           PlaceFits(calls[c].kind, where),
           NoLogin(calls[c].kind, calls[c].at), NoLogin(calls[c].kind, where),
           NoWork(calls[c].kind, calls[c].at), NoWork(calls[c].kind, where),
           UNCHANGED <<account, wallets, wrong, made>>,
           mixed \subseteq mixed', upset \subseteq upset'
    PROVE  /\ Goes(c, where, calls[c].saw)
           /\ CallsTyped' /\ AccountsTyped'
           /\ DOMAIN tokens \subseteq DOMAIN tokens' => \A u \in Users : UserInv(u)'
           /\ UNCHANGED tokens /\ (calls[c].kind # "refresh" \/ where # "ok") => TokensTrue'
  <1>1. Goes(c, where, calls[c].saw)
    BY Fits, Moved DEF ServerInv
  <1>2. CallsTyped'
    BY <1>1, Fits, GoesTyped DEF ServerInv, CallFits
  <1>3. AccountsTyped'
    BY DEF ServerInv, AccountsTyped
  <1>4. ASSUME DOMAIN tokens \subseteq DOMAIN tokens', NEW u \in Users
        PROVE  UserInv(u)'
    BY <1>1, <1>4, GoesKeeps, UserFrame DEF ServerInv
  <1>5. ASSUME UNCHANGED tokens, calls[c].kind # "refresh" \/ where # "ok"
        PROVE  TokensTrue'
    BY <1>1, <1>5, GoesTokens DEF ServerInv, TokensTrue
  <1> QED BY <1>1, <1>2, <1>3, <1>4, <1>5

LEMMA FindPhoneStep ==
    ASSUME ServerInv, NEW c \in DOMAIN calls, FindPhone(c)
    PROVE  ServerInv'
  <1> DEFINE where == IF account[calls[c].user].is THEN "409" ELSE "create"
  <1>1. calls[c].kind = "register" /\ calls[c].at = "new" /\ Move(c, where)
        /\ UNCHANGED <<account, wallets, wrong, made, mixed, upset, tokens>>
    BY DEF FindPhone, At
  <1>2. where \in {"409", "create"}
    OBVIOUS
  <1> HIDE DEF where
  <1>3. PlaceFits("register", where) /\ NoLogin("register", "new") /\ NoLogin("register", where)
        /\ NoWork("register", "new") /\ NoWork("register", where)
    BY <1>2 DEF PlaceFits, Finished, NoLogin, NoWork
  <1> QED BY <1>1, <1>3, Quiet DEF ServerInv

LEMMA ReadAgentLoginStep ==
    ASSUME ServerInv, NEW c \in DOMAIN calls, ReadAgentLogin(c)
    PROVE  ServerInv'
  <1>1. PICK where \in {"token", "401"} :
          /\ calls[c].kind = "agentLogin" /\ calls[c].at = "new" /\ Move(c, where)
          /\ UNCHANGED <<account, wallets, wrong, made, mixed, upset, tokens>>
    BY DEF ReadAgentLogin, At
  <1>2. PlaceFits("agentLogin", where) /\ NoLogin("agentLogin", "new") /\ NoLogin("agentLogin", where)
        /\ NoWork("agentLogin", "new") /\ NoWork("agentLogin", where)
    BY DEF PlaceFits, Finished, NoLogin, NoWork
  <1> QED BY <1>1, <1>2, Quiet DEF ServerInv

LEMMA AnswerRefreshStep ==
    ASSUME ServerInv, NEW c \in DOMAIN calls, AnswerRefresh(c)
    PROVE  ServerInv'
  <1> DEFINE t == calls[c].token
             granted == t \in DOMAIN tokens /\ ~ tokens[t].revoked /\ tokens[t].user = calls[c].user
             where == IF granted THEN "ok" ELSE "401"
  <1>1. calls[c].kind = "refresh" /\ calls[c].at = "new" /\ Move(c, where)
        /\ UNCHANGED <<account, wallets, wrong, made, mixed, upset, tokens>>
    BY DEF AnswerRefresh, At
  <1>2. where \in {"ok", "401"} /\ (where = "ok" => t \in DOMAIN tokens /\ tokens[t].user = calls[c].user)
    OBVIOUS
  <1> HIDE DEF where
  <1>3. PlaceFits("refresh", where) /\ NoLogin("refresh", "new") /\ NoLogin("refresh", where)
        /\ NoWork("refresh", "new") /\ NoWork("refresh", where)
    BY <1>2 DEF PlaceFits, Finished, NoLogin, NoWork
  <1>4. /\ Goes(c, where, calls[c].saw) /\ CallsTyped' /\ AccountsTyped'
        /\ \A u \in Users : UserInv(u)'
    BY <1>1, <1>3, Quiet
  <1>5. TokensTrue'
    <2>1. DOMAIN calls' = DOMAIN calls /\ \A d \in DOMAIN calls : calls'[d].user = calls[d].user
      BY <1>4 DEF Goes
    <2>2. calls'[c].at = where /\ calls'[c].token = t /\ calls'[c].user = calls[c].user
      BY <1>4 DEF Goes
    <2>3. \A d \in DOMAIN calls : d # c => calls'[d] = calls[d]
      BY <1>4 DEF Goes
    <2> QED BY <1>1, <1>2, <2>1, <2>2, <2>3 DEF ServerInv, TokensTrue
  <1> QED BY <1>4, <1>5 DEF ServerInv

\* A token is revoked, or ends: it is still the same user's.
LEMMA Revoked ==
    ASSUME TokensTrue, NEW t \in DOMAIN tokens, tokens' = [tokens EXCEPT ![t].revoked = TRUE]
    PROVE  /\ DOMAIN tokens' = DOMAIN tokens
           /\ \A s \in DOMAIN tokens : tokens'[s] \in TokenRow /\ tokens'[s].user = tokens[s].user
  <1>1. \A s \in DOMAIN tokens : tokens[s] \in TokenRow
    BY DEF TokensTrue
  <1>2. DOMAIN tokens' = DOMAIN tokens /\ \A s \in DOMAIN tokens : s # t => tokens'[s] = tokens[s]
    OBVIOUS
  <1> DEFINE r == [tokens[t] EXCEPT !.revoked = TRUE]
  <1>3. r \in TokenRow /\ r.user = tokens[t].user
    BY <1>1 DEF TokenRow
  <1>4. tokens'[t] = r
    OBVIOUS
  <1> QED BY <1>1, <1>2, <1>3, <1>4

LEMMA RevokeTokenStep ==
    ASSUME ServerInv, NEW c \in DOMAIN calls, RevokeToken(c)
    PROVE  ServerInv'
  <1> DEFINE t == calls[c].token
  <1>1. /\ calls[c].kind = "logout" /\ calls[c].at = "new"
        /\ UNCHANGED <<account, wallets, wrong, made, mixed, upset>>
    BY DEF RevokeToken, At
  <1>2. PICK where \in {"ok", "500"} : Move(c, where)
    BY DEF RevokeToken
  <1>3. /\ DOMAIN tokens' = DOMAIN tokens
        /\ \A s \in DOMAIN tokens : tokens'[s] \in TokenRow /\ tokens'[s].user = tokens[s].user
    BY Revoked DEF RevokeToken, ServerInv, TokensTrue
  <1>4. PlaceFits("logout", where) /\ NoLogin("logout", "new") /\ NoLogin("logout", where)
        /\ NoWork("logout", "new") /\ NoWork("logout", where)
    BY DEF PlaceFits, Finished, NoLogin, NoWork
  <1>5. /\ Goes(c, where, calls[c].saw) /\ CallsTyped' /\ AccountsTyped'
        /\ \A u \in Users : UserInv(u)'
    BY <1>1, <1>2, <1>3, <1>4, Quiet
  <1>6. TokensTrue'
    BY <1>1, <1>3, <1>5, GoesTokens DEF ServerInv, TokensTrue
  <1> QED BY <1>5, <1>6 DEF ServerInv

LEMMA CallsStay ==
    ASSUME UNCHANGED calls, NEW u
    PROVE  LoginsKept(u) /\ WorkKept(u) /\ CallersKept
  BY DEF LoginsKept, WorkKept, CallersKept, LoggingIn, AtWallets, Registering

LEMMA ExpireTokenStep ==
    ASSUME ServerInv, NEW t \in DOMAIN tokens, ExpireToken(t)
    PROVE  ServerInv'
  <1>1. /\ UNCHANGED <<account, wallets, calls, made, wrong, mixed, upset>>
        /\ DOMAIN tokens' = DOMAIN tokens
        /\ \A s \in DOMAIN tokens : tokens'[s] \in TokenRow /\ tokens'[s].user = tokens[s].user
    BY Revoked DEF ExpireToken, ServerInv
  <1>2. CallsTyped' /\ AccountsTyped'
    BY <1>1 DEF ServerInv, CallsTyped, AccountsTyped
  <1>3. TokensTrue'
    BY <1>1 DEF ServerInv, TokensTrue
  <1>4. ASSUME NEW u \in Users PROVE UserInv(u)'
    BY <1>1, CallsStay, UserFrame DEF ServerInv
  <1> QED BY <1>2, <1>3, <1>4 DEF ServerInv

(***************************************************************************)
(* PINs and devices.                                                       *)
(***************************************************************************)
LEMMA RowChanges ==
    ASSUME AccountsTyped, NEW u \in Users, NEW r \in AccountRow, account' = [account EXCEPT ![u] = r]
    PROVE  /\ account' \in [Users -> AccountRow] /\ account'[u] = r
           /\ \A v \in Users : v # u => account'[v] = account[v]
  BY DEF AccountsTyped

LEMMA BindDeviceStep ==
    ASSUME ServerInv, NEW c \in DOMAIN calls, BindDevice(c)
    PROVE  ServerInv'
  <1>0. PICK u \in Users : u = calls[c].user
    BY Fits DEF BindDevice, At, ServerInv, CallFits
  <1> DEFINE r == [account[u] EXCEPT !.device = calls[c].device]
  <1>1. /\ calls[c].kind = "bind" /\ calls[c].at \in {"new", "bind"}
        /\ UNCHANGED <<wallets, tokens, wrong, made, mixed, upset>>
    BY DEF BindDevice, At
  <1>2. PICK where \in {"403", "bind", "401", "ok"} : Move(c, where)
    BY DEF BindDevice
  <1>3. calls[c] \in Call
    BY <1>1, Fits DEF ServerInv, CallFits
  <1>4. account' = account \/ account' = [account EXCEPT ![u] = r]
    BY <1>0 DEF BindDevice
  <1>5. Goes(c, where, calls[c].saw) /\ CallsTyped'
    <2>1. PlaceFits("bind", where)
      BY DEF PlaceFits, Finished
    <2> QED BY <1>1, <1>2, <2>1, Fits, Moved, GoesTyped DEF ServerInv
  <1>6. /\ account' \in [Users -> AccountRow]
        /\ \A v \in Users : v # u => account'[v] = account[v]
        /\ account'[u].is = account[u].is /\ account'[u].failed = account[u].failed
        /\ account'[u].lock = account[u].lock /\ account'[u].tier = account[u].tier
    <2>1. r \in AccountRow /\ r.is = account[u].is /\ r.failed = account[u].failed
          /\ r.lock = account[u].lock /\ r.tier = account[u].tier
      BY <1>0, <1>3 DEF ServerInv, AccountsTyped, AccountRow, Call
    <2>2. CASE account' = account
      BY <2>2 DEF ServerInv, AccountsTyped
    <2> HIDE DEF r
    <2>3. CASE account' = [account EXCEPT ![u] = r]
      BY <1>3, <2>1, <2>3, RowChanges DEF ServerInv
    <2> QED BY <1>4, <2>2, <2>3
  <1> HIDE DEF r
  <1>7. AccountsTyped'
    BY <1>1, <1>6 DEF ServerInv, AccountsTyped
  <1>8. TokensTrue'
    BY <1>1, <1>5, GoesTokens DEF ServerInv, TokensTrue
  <1>9. UserInv(u)'
    <2>1. LoginsKept(u) /\ WorkKept(u) /\ RegistrationsKept(u) /\ CallersKept
      BY <1>0, <1>1, <1>5, GoesKeeps DEF NoLogin, NoWork
    <2>2. UserInv(u)
      BY <1>3 DEF ServerInv
    <2> QED BY <1>1, <1>6, <2>1, <2>2, PinsFrame, FirstFrame, TierFrame, NotYetFrame DEF UserInv
  <1>10. ASSUME NEW v \in Users, v # u PROVE UserInv(v)'
    BY <1>0, <1>1, <1>5, <1>6, <1>10, OthersFrame
  <1> QED BY <1>5, <1>7, <1>8, <1>9, <1>10 DEF ServerInv

LEMMA LapseLockStep ==
    ASSUME ServerInv, NEW u \in Users, LapseLock(u)
    PROVE  ServerInv'
  <1> DEFINE r == [account[u] EXCEPT !.lock = "lapsed"]
  <1>1. /\ UNCHANGED <<wallets, tokens, calls, made, wrong, mixed, upset>>
        /\ account' = [account EXCEPT ![u] = r]
    BY DEF LapseLock
  <1>2. r \in AccountRow /\ r.is = account[u].is /\ r.failed = account[u].failed
        /\ r.lock = "lapsed" /\ r.tier = account[u].tier
    BY DEF ServerInv, AccountsTyped, AccountRow
  <1> HIDE DEF r
  <1>3. /\ account' \in [Users -> AccountRow] /\ account'[u] = r
        /\ \A v \in Users : v # u => account'[v] = account[v]
    BY <1>1, <1>2, RowChanges DEF ServerInv
  <1>4. CallsTyped' /\ AccountsTyped' /\ TokensTrue'
    BY <1>1, <1>3 DEF ServerInv, CallsTyped, AccountsTyped, TokensTrue
  <1>5. UserInv(u)'
    <2>1. LoginsKept(u) /\ WorkKept(u) /\ CallersKept
      BY <1>1, CallsStay
    <2>2. UserInv(u) /\ RegistrationsKept(u)
      BY <2>1 DEF ServerInv, WorkKept, RegistrationsKept, AtWallets
    <2> QED BY <1>1, <1>2, <1>3, <2>1, <2>2, PinsFrame, FirstFrame, TierFrame, NotYetFrame DEF UserInv
  <1>6. ASSUME NEW v \in Users, v # u PROVE UserInv(v)'
    BY <1>1, <1>3, <1>6, CallsStay, UserFrame DEF ServerInv
  <1> QED BY <1>4, <1>5, <1>6 DEF ServerInv

\* A login ends, its PIN counted or right.
LEMMA PinsLeave ==
    ASSUME NEW u, PinsCounted(u), NEW c \in DOMAIN calls, NEW where, NEW value, Goes(c, where, value),
           LoggingIn(c, u), calls[c].at # "wrong", where \notin {"reset", "wrong", "token"},
           wrong'[u] = wrong[u], u \in mixed => u \in mixed', account'[u] = account[u]
    PROVE  PinsCounted(u)'
  <1> SUFFICES ASSUME u \notin mixed' PROVE PinsCounted(u)'
    BY DEF PinsCounted
  <1>1. u \notin mixed /\ \A d : LoggingIn(d, u) => d = c
    BY DEF PinsCounted
  <1>2. \A d : ~ LoggingIn(d, u)'
    BY <1>1 DEF Goes, LoggingIn
  <1>3. account[u].failed = wrong[u] /\ (wrong[u] >= PinLimit => account[u].lock # "open")
    BY <1>1 DEF PinsCounted
  <1> QED BY <1>2, <1>3 DEF PinsCounted

LEMMA ReadLoginStep ==
    ASSUME ServerInv, NEW c \in DOMAIN calls, ReadLogin(c)
    PROVE  ServerInv'
  <1>0. PICK u \in Users : u = calls[c].user
    BY Fits DEF ReadLogin, At, ServerInv, CallFits
  <1> DEFINE a == account[u]
             where == IF calls[c].right THEN "reset" ELSE "wrong"
  <1>1. /\ calls[c].kind = "login" /\ calls[c].at = "new"
        /\ UNCHANGED <<account, wallets, tokens, made, upset>>
    BY DEF ReadLogin, At
  <1>2. ASSUME NEW w \in {"401", "429"}, Move(c, w), UNCHANGED <<wrong, mixed>>
        PROVE  ServerInv'
    <2>1. PlaceFits("login", w) /\ NoLogin("login", "new") /\ NoLogin("login", w)
          /\ NoWork("login", "new") /\ NoWork("login", w)
      BY DEF PlaceFits, Finished, NoLogin, NoWork
    <2> QED BY <1>1, <1>2, <2>1, Quiet DEF ServerInv
  <1>3. ASSUME a.is, Sees(c, where, a.failed),
               wrong' = IF calls[c].right THEN wrong ELSE [wrong EXCEPT ![u] = @ + 1],
               mixed' = IF UnderWay(u, {"login"}) = {} THEN mixed ELSE mixed \cup {u}
        PROVE  ServerInv'
    <2>1. calls[c] \in Call /\ CallFits(calls[c])
      BY <1>1, Fits DEF ServerInv, CallFits
    <2>2. a.failed \in Nat /\ wrong \in [Users -> Nat]
      BY <2>1 DEF ServerInv, AccountsTyped, AccountRow
    <2>3. where \in {"reset", "wrong"} /\ (where = "wrong" <=> ~ calls[c].right)
      BY <2>1 DEF Call
    <2>4. Goes(c, where, a.failed) /\ CallsTyped'
      <3> HIDE DEF where
      <3>1. PlaceFits("login", where)
        BY <2>3 DEF PlaceFits
      <3> QED BY <1>1, <1>3, <2>1, <2>2, <3>1, Fits, Saw, GoesTyped DEF ServerInv
    <2>5. /\ wrong' \in [Users -> Nat] /\ \A v \in Users : v # u => wrong'[v] = wrong[v]
          /\ wrong'[u] = IF where = "wrong" THEN wrong[u] + 1 ELSE wrong[u]
      <3>1. CASE calls[c].right
        BY <1>3, <2>2, <2>3, <3>1
      <3>2. CASE ~ calls[c].right
        BY <1>3, <2>1, <2>2, <2>3, <3>2
      <3> QED BY <3>1, <3>2
    <2> HIDE DEF where
    <2>6. AccountsTyped' /\ TokensTrue'
      BY <1>1, <2>4, <2>5, GoesTokens DEF ServerInv, AccountsTyped, TokensTrue
    <2>7. mixed \subseteq mixed' /\ (u \notin mixed' => \A d : ~ LoggingIn(d, u))
      <3>1. \A d : LoggingIn(d, u) => d \in UnderWay(u, {"login"})
        BY DEF LoggingIn, UnderWay, Finished
      <3> QED BY <1>3, <3>1
    <2>8. PinsCounted(u)'
      <3> SUFFICES ASSUME u \notin mixed' PROVE PinsCounted(u)'
        BY DEF PinsCounted
      <3>1. u \notin mixed /\ \A d : ~ LoggingIn(d, u)
        BY <2>7
      <3>2. a.failed = wrong[u] /\ (wrong[u] >= PinLimit => a.lock # "open")
        BY <2>1, <3>1 DEF ServerInv, UserInv, PinsCounted
      <3>3. \A d : LoggingIn(d, u)' => d = c
        BY <2>4, <3>1 DEF Goes, LoggingIn
      <3>4. LoggingIn(c, u)' /\ calls'[c].at = where /\ calls'[c].saw = a.failed
        BY <1>0, <1>1, <2>3, <2>4 DEF Goes, LoggingIn
      <3>5. account' = account
        BY <1>1
      <3>6. CASE where = "wrong"
        BY <2>5, <3>2, <3>3, <3>4, <3>5, <3>6 DEF PinsCounted
      <3>7. CASE where # "wrong"
        BY <2>5, <3>2, <3>3, <3>4, <3>5, <3>7 DEF PinsCounted
      <3> QED BY <3>6, <3>7
    <2>9. UserInv(u)'
      <3>1. WorkKept(u) /\ RegistrationsKept(u) /\ CallersKept
        BY <1>1, <2>4, GoesKeeps DEF NoWork
      <3>2. UserInv(u)
        BY <2>1 DEF ServerInv
      <3>3. NotYet(u)'
        BY <1>1, <1>3 DEF NotYet
      <3> QED BY <1>1, <2>8, <3>1, <3>2, <3>3, FirstFrame, TierFrame DEF UserInv
    <2>10. ASSUME NEW v \in Users, v # u PROVE UserInv(v)'
      <3>1. v \in mixed => v \in mixed'
        BY <2>7
      <3> QED BY <1>0, <1>1, <2>4, <2>5, <2>10, <3>1, OthersFrame
    <2> QED BY <2>4, <2>6, <2>9, <2>10 DEF ServerInv
  <1> QED BY <1>0, <1>2, <1>3 DEF ReadLogin

LEMMA CountChanges ==
    ASSUME AccountsTyped, NEW u \in Users, NEW failed \in Nat, NEW lock \in {"open", "locked"},
           account' = [account EXCEPT ![u].failed = failed, ![u].lock = lock]
    PROVE  /\ account' \in [Users -> AccountRow]
           /\ account'[u].failed = failed /\ account'[u].lock = lock
           /\ account'[u].is = account[u].is /\ account'[u].tier = account[u].tier
           /\ \A v \in Users : v # u => account'[v] = account[v]
  <1> DEFINE q == [account[u] EXCEPT !.failed = failed]
             r == [q EXCEPT !.lock = lock]
  <1>1. q \in AccountRow /\ q.failed = failed /\ q.is = account[u].is /\ q.tier = account[u].tier
    BY DEF AccountsTyped, AccountRow
  <1>2. account' = [account EXCEPT ![u] = r]
    BY DEF AccountsTyped
  <1> HIDE DEF q
  <1>3. /\ r \in AccountRow /\ r.failed = failed /\ r.lock = lock
        /\ r.is = account[u].is /\ r.tier = account[u].tier
    BY <1>1 DEF AccountRow
  <1> HIDE DEF r
  <1> QED BY <1>2, <1>3, RowChanges

LEMMA RecordWrongPinStep ==
    ASSUME ServerInv, NEW c \in DOMAIN calls, RecordWrongPin(c)
    PROVE  ServerInv'
  <1>0. PICK u \in Users : u = calls[c].user
    BY Fits DEF RecordWrongPin, At, ServerInv, CallFits
  <1> DEFINE failed == calls[c].saw + 1
             lock == IF failed >= PinLimit THEN "locked" ELSE "open"
  <1>1. /\ calls[c].kind = "login" /\ calls[c].at = "wrong" /\ Move(c, "401")
        /\ account' = [account EXCEPT ![u].failed = failed, ![u].lock = lock]
        /\ UNCHANGED <<wallets, tokens, made, wrong, mixed, upset>>
    BY <1>0 DEF RecordWrongPin, At
  <1>2. calls[c] \in Call /\ calls[c].saw \in Nat /\ LoggingIn(c, u)
    BY <1>0, <1>1, Fits DEF ServerInv, Call, LoggingIn
  <1>3. Goes(c, "401", calls[c].saw) /\ CallsTyped'
    <2>1. PlaceFits("login", "401")
      BY DEF PlaceFits, Finished
    <2> QED BY <1>1, <2>1, Fits, Moved, GoesTyped DEF ServerInv
  <1>4. /\ account' \in [Users -> AccountRow]
        /\ account'[u].failed = failed /\ account'[u].lock = lock
        /\ account'[u].is = account[u].is /\ account'[u].tier = account[u].tier
        /\ \A v \in Users : v # u => account'[v] = account[v]
    <2>1. failed \in Nat /\ lock \in {"open", "locked"}
      BY <1>2
    <2> HIDE DEF failed, lock
    <2> QED BY <1>1, <2>1, CountChanges DEF ServerInv
  <1>5. AccountsTyped' /\ TokensTrue'
    BY <1>1, <1>3, <1>4, GoesTokens DEF ServerInv, AccountsTyped, TokensTrue
  <1>6. PinsCounted(u)'
    <2> SUFFICES ASSUME u \notin mixed' PROVE PinsCounted(u)'
      BY DEF PinsCounted
    <2>1. PinsCounted(u) /\ u \notin mixed
      BY <1>1 DEF ServerInv, UserInv
    <2>2. wrong[u] = failed /\ \A d : LoggingIn(d, u) => d = c
      BY <1>1, <1>2, <2>1 DEF PinsCounted
    <2>3. \A d : ~ LoggingIn(d, u)'
      BY <1>3, <2>2 DEF Goes, LoggingIn
    <2>4. wrong'[u] = failed /\ (failed >= PinLimit => lock # "open")
      BY <1>1, <2>2
    <2> HIDE DEF failed, lock
    <2> QED BY <1>4, <2>3, <2>4 DEF PinsCounted
  <1>7. UserInv(u)'
    <2>1. WorkKept(u) /\ RegistrationsKept(u) /\ CallersKept
      BY <1>1, <1>3, GoesKeeps DEF NoWork
    <2>2. UserInv(u)
      BY DEF ServerInv
    <2>3. NotYet(u)'
      BY <1>2, <1>4, <2>2 DEF NotYet, UserInv
    <2> QED BY <1>1, <1>4, <1>6, <2>1, <2>2, <2>3, FirstFrame, TierFrame DEF UserInv
  <1>8. ASSUME NEW v \in Users, v # u PROVE UserInv(v)'
    BY <1>0, <1>1, <1>3, <1>4, <1>8, OthersFrame
  <1> QED BY <1>3, <1>5, <1>7, <1>8 DEF ServerInv

LEMMA ResetAttemptsStep ==
    ASSUME ServerInv, NEW c \in DOMAIN calls, ResetAttempts(c)
    PROVE  ServerInv'
  <1>0. PICK u \in Users : u = calls[c].user
    BY Fits DEF ResetAttempts, At, ServerInv, CallFits
  <1>1. /\ calls[c].kind = "login" /\ calls[c].at = "reset" /\ Move(c, "token")
        /\ account' = [account EXCEPT ![u].failed = 0, ![u].lock = "open"]
        /\ wrong' = [wrong EXCEPT ![u] = 0]
        /\ UNCHANGED <<wallets, tokens, made, mixed, upset>>
    BY <1>0 DEF ResetAttempts, At
  <1>2. calls[c] \in Call /\ LoggingIn(c, u)
    BY <1>0, <1>1, Fits DEF ServerInv, LoggingIn
  <1>3. Goes(c, "token", calls[c].saw) /\ CallsTyped'
    <2>1. PlaceFits("login", "token")
      BY DEF PlaceFits
    <2> QED BY <1>1, <2>1, Fits, Moved, GoesTyped DEF ServerInv
  <1>4. /\ account' \in [Users -> AccountRow]
        /\ account'[u].failed = 0 /\ account'[u].lock = "open"
        /\ account'[u].is = account[u].is /\ account'[u].tier = account[u].tier
        /\ \A v \in Users : v # u => account'[v] = account[v]
    <2>1. 0 \in Nat
      OBVIOUS
    <2> QED BY <1>1, <2>1, CountChanges DEF ServerInv
  <1>5. wrong' \in [Users -> Nat] /\ wrong'[u] = 0 /\ \A v \in Users : v # u => wrong'[v] = wrong[v]
    BY <1>1 DEF ServerInv, AccountsTyped
  <1>6. AccountsTyped' /\ TokensTrue'
    BY <1>1, <1>3, <1>4, <1>5, GoesTokens DEF ServerInv, AccountsTyped, TokensTrue
  <1>7. PinsCounted(u)'
    <2> SUFFICES ASSUME u \notin mixed' PROVE PinsCounted(u)'
      BY DEF PinsCounted
    <2>1. \A d : LoggingIn(d, u) => d = c
      BY <1>1, <1>2 DEF ServerInv, UserInv, PinsCounted
    <2>2. \A d : LoggingIn(d, u)' => d = c
      BY <1>3, <2>1 DEF Goes, LoggingIn
    <2>3. calls'[c].at = "token"
      BY <1>3 DEF Goes
    <2>4. ~ (wrong'[u] >= PinLimit)
      BY <1>5, AuthAssumption DEF AuthAssumption
    <2> QED BY <1>4, <1>5, <2>2, <2>3, <2>4 DEF PinsCounted
  <1>8. UserInv(u)'
    <2>1. WorkKept(u) /\ RegistrationsKept(u) /\ CallersKept
      BY <1>1, <1>3, GoesKeeps DEF NoWork
    <2>2. UserInv(u)
      BY DEF ServerInv
    <2>3. NotYet(u)'
      BY <1>2, <1>4, <2>2 DEF NotYet, UserInv
    <2> QED BY <1>1, <1>4, <1>7, <2>1, <2>2, <2>3, FirstFrame, TierFrame DEF UserInv
  <1>9. ASSUME NEW v \in Users, v # u PROVE UserInv(v)'
    BY <1>0, <1>1, <1>3, <1>4, <1>5, <1>9, OthersFrame
  <1> QED BY <1>3, <1>6, <1>8, <1>9 DEF ServerInv

\* A handler leaves the wallets, its work done.
LEMMA TierLeave ==
    ASSUME NEW u, TierKnown(u), NEW c \in DOMAIN calls, NEW where, NEW value, Goes(c, where, value),
           AtWallets(c, u), calls[c].kind # "upgrade", NoWork(calls[c].kind, where),
           wallets'[u] = wallets[u], account'[u].tier = account[u].tier, u \in upset => u \in upset'
    PROVE  TierKnown(u)'
  <1> SUFFICES ASSUME u \notin upset' PROVE TierKnown(u)'
    BY DEF TierKnown
  <1>1. u \notin upset /\ \A d : AtWallets(d, u) => d = c
    BY DEF TierKnown
  <1>2. \A d : ~ AtWallets(d, u)'
    BY <1>1 DEF Goes, AtWallets, Registering, NoWork
  <1>3. AllOfTier(u)
    BY <1>1 DEF TierKnown
  <1>4. AllOfTier(u)'
    BY <1>3 DEF AllOfTier
  <1> QED BY <1>2, <1>4 DEF TierKnown

LEMMA IssueTokenStep ==
    ASSUME ServerInv, NEW c \in DOMAIN calls, IssueToken(c)
    PROVE  ServerInv'
  <1>0. PICK u \in Users : u = calls[c].user
    BY Fits DEF IssueToken, ServerInv, CallFits
  <1> DEFINE row == [user |-> u, revoked |-> FALSE]
  <1>1. /\ calls[c].kind \in {"register", "login", "agentLogin"} /\ calls[c].at = "token"
        /\ tokens' = SetEntry(tokens, c, row)
        /\ UNCHANGED <<account, wallets, made, wrong, mixed, upset>>
    BY <1>0 DEF IssueToken
  <1>2. PICK where \in {"ok", "500"} : Move(c, where)
    BY DEF IssueToken
  <1>3. Goes(c, where, calls[c].saw) /\ CallsTyped'
    <2>1. PlaceFits(calls[c].kind, where) /\ calls[c].kind # "open"
      BY <1>1 DEF PlaceFits, Finished
    <2> QED BY <1>1, <1>2, <2>1, Fits, Moved, GoesTyped DEF ServerInv
  <1>4. /\ DOMAIN tokens \subseteq DOMAIN tokens' /\ c \in DOMAIN tokens'
        /\ \A t \in DOMAIN tokens' :
             tokens'[t] \in TokenRow /\ t \in DOMAIN calls /\ tokens'[t].user = calls[t].user
    <2>1. row \in TokenRow /\ row.user = u
      BY DEF TokenRow
    <2> HIDE DEF row
    <2>2. /\ DOMAIN tokens' = DOMAIN tokens \cup {c}
          /\ \A t \in DOMAIN tokens' : tokens'[t] = IF t = c THEN row ELSE tokens[t]
      BY <1>1 DEF SetEntry
    <2> QED BY <1>0, <2>1, <2>2 DEF ServerInv, TokensTrue
  <1>5. AccountsTyped' /\ TokensTrue'
    BY <1>1, <1>3, <1>4, GoesTokens DEF ServerInv, AccountsTyped
  <1>6. UserInv(u) /\ CallersKept
    BY <1>3, GoesKeeps DEF ServerInv
  <1>7. UserInv(u)'
    <2>1. CASE calls[c].kind = "register"
      <3>1. LoginsKept(u)
        BY <1>3, <2>1, GoesKeeps DEF NoLogin
      <3>2. Registering(c, u) /\ AtWallets(c, u)
        BY <1>0, <1>1, <2>1 DEF Registering, AtWallets
      <3>3. TierKnown(u)'
        <4>1. NoWork("register", where)
          BY DEF NoWork
        <4> QED BY <1>1, <1>3, <1>6, <2>1, <3>2, <4>1, TierLeave DEF UserInv
      <3>4. OneFirst(u)'
        <4>1. \A d : Registering(d, u) => d = c
          BY <1>6, <3>2 DEF UserInv, OneFirst
        <4>2. \A d : ~ Registering(d, u)'
          BY <1>3, <4>1 DEF Goes, Registering
        <4>3. \E w \in wallets[u] : w.first /\ w.by = c
          BY <1>1, <1>6, <3>2 DEF UserInv, OneFirst
        <4>4. \A w \in wallets[u] : w.first => w.by \in DOMAIN calls' /\ calls'[w.by].user = u
          BY <1>6 DEF UserInv, OneFirst, CallersKept
        <4> QED BY <1>1, <1>4, <1>6, <4>2, <4>3, <4>4 DEF UserInv, OneFirst
      <3>5. NotYet(u)'
        BY <1>1, <1>6, <3>2 DEF UserInv, NotYet
      <3>6. PinsCounted(u)'
        BY <1>1, <1>6, <3>1, PinsFrame DEF UserInv
      <3> QED BY <3>3, <3>4, <3>5, <3>6 DEF UserInv
    <2>2. CASE calls[c].kind = "login"
      <3>1. WorkKept(u) /\ RegistrationsKept(u)
        BY <1>3, <2>2, GoesKeeps DEF NoWork
      <3>2. LoggingIn(c, u)
        BY <1>0, <1>1, <2>2 DEF LoggingIn
      <3>3. PinsCounted(u)'
        BY <1>1, <1>3, <1>6, <3>2, PinsLeave DEF UserInv
      <3>4. NotYet(u)'
        BY <1>1, <1>6, <3>2 DEF UserInv, NotYet
      <3> QED BY <1>1, <1>4, <1>6, <3>1, <3>3, <3>4, FirstFrame, TierFrame DEF UserInv
    <2>3. CASE calls[c].kind = "agentLogin"
      <3>1. LoginsKept(u) /\ WorkKept(u)
        BY <1>3, <2>3, GoesKeeps DEF NoLogin, NoWork
      <3> QED BY <1>1, <1>4, <1>6, <3>1, UserFrame
    <2> QED BY <1>1, <2>1, <2>2, <2>3
  <1>8. ASSUME NEW v \in Users, v # u PROVE UserInv(v)'
    BY <1>0, <1>1, <1>3, <1>4, <1>8, OthersFrame
  <1> QED BY <1>3, <1>5, <1>7, <1>8 DEF ServerInv

(***************************************************************************)
(* Wallets and tiers.                                                      *)
(***************************************************************************)
LEMMA Meeting ==
    ASSUME NEW c, NEW u, u = calls[c].user, MeetsWalletWork(c)
    PROVE  /\ upset \subseteq upset'
           /\ u \notin upset' => u \notin upset /\ \A d : AtWallets(d, u) => d = c
  <1>1. \A d : AtWallets(d, u) => d \in UnderWay(u, WalletWork)
    BY DEF AtWallets, Registering, UnderWay, WalletWork, Finished
  <1>2. CASE UnderWay(u, WalletWork) \subseteq {c}
    BY <1>1, <1>2 DEF MeetsWalletWork
  <1>3. CASE ~ (UnderWay(u, WalletWork) \subseteq {c})
    BY <1>3 DEF MeetsWalletWork
  <1> QED BY <1>2, <1>3

LEMMA WalletsChange ==
    ASSUME AccountsTyped, NEW u \in Users, NEW S \in SUBSET WalletRow, wallets' = [wallets EXCEPT ![u] = S]
    PROVE  /\ wallets' \in [Users -> SUBSET WalletRow] /\ wallets'[u] = S
           /\ \A v \in Users : v # u => wallets'[v] = wallets[v]
  BY DEF AccountsTyped

\* A handler begins its work at the wallets, with the tier it has read or writes.
LEMMA TierBegin ==
    ASSUME NEW u, TierKnown(u), NEW c \in DOMAIN calls, NEW where, NEW value, Goes(c, where, value),
           calls[c].user = u, ~ AtWallets(c, u), MeetsWalletWork(c), wallets'[u] = wallets[u],
           \/ /\ calls[c].kind = "upgrade" /\ where = "wallets"
              /\ account'[u].tier = calls[c].tier
           \/ /\ calls[c].kind = "open" /\ where = "create" /\ value = account[u].tier
              /\ account'[u].tier = account[u].tier
           \/ /\ calls[c].kind = "limits" /\ where = "write"
              /\ account'[u].tier = account[u].tier
              /\ AllOfTier(u) => LimitsFit(calls'[c].limits, account[u].tier)
    PROVE  TierKnown(u)'
  <1> SUFFICES ASSUME u \notin upset' PROVE TierKnown(u)'
    BY DEF TierKnown
  <1>1. u \notin upset /\ \A d : ~ AtWallets(d, u)
    <2>1. u = calls[c].user /\ MeetsWalletWork(c)
      OBVIOUS
    <2>2. u \notin upset' => u \notin upset /\ \A d : AtWallets(d, u) => d = c
      BY <2>1, Meeting
    <2> QED BY <2>2
  <1>2. AllOfTier(u)
    BY <1>1 DEF TierKnown
  <1>3. \A d : AtWallets(d, u)' => d = c
    BY <1>1 DEF Goes, AtWallets, Registering
  <1>4. AtWallets(c, u)' /\ ~ Registering(c, u)'
    BY DEF Goes, AtWallets, Registering
  <1>5. calls'[c].kind = calls[c].kind /\ calls'[c].saw = value /\ calls'[c].tier = calls[c].tier
    BY DEF Goes
  <1>6. CASE calls[c].kind = "upgrade"
    BY <1>3, <1>4, <1>5, <1>6 DEF TierKnown
  <1>7. CASE calls[c].kind # "upgrade"
    <2>1. AllOfTier(u)'
      BY <1>2, <1>7 DEF AllOfTier
    <2>2. /\ calls[c].kind = "open" => value = account'[u].tier
          /\ calls[c].kind = "limits" => LimitsFit(calls'[c].limits, account'[u].tier)
      BY <1>2, <1>7
    <2> QED BY <1>3, <1>4, <1>5, <1>7, <2>1, <2>2 DEF TierKnown
  <1> QED BY <1>6, <1>7

LEMMA CreateUserStep ==
    ASSUME ServerInv, NEW c \in DOMAIN calls, CreateUser(c)
    PROVE  ServerInv'
  <1>0. PICK u \in Users : u = calls[c].user
    BY Fits DEF CreateUser, At, ServerInv, CallFits
  <1> DEFINE q == [NoAccount EXCEPT !.is = TRUE]
             r == [q EXCEPT !.device = calls[c].device]
  <1>1. /\ calls[c].kind = "register" /\ calls[c].at = "create"
        /\ UNCHANGED <<wallets, tokens, made, wrong, mixed>>
        /\ calls[c] \in Call
    BY Fits DEF CreateUser, At, ServerInv
  <1>2. CASE account[u].is
    <2>1. Move(c, "500") /\ UNCHANGED <<account, upset>>
      BY <1>0, <1>2 DEF CreateUser
    <2>2. PlaceFits("register", "500") /\ NoLogin("register", "create") /\ NoLogin("register", "500")
          /\ NoWork("register", "create") /\ NoWork("register", "500")
      BY DEF PlaceFits, Finished, NoLogin, NoWork
    <2> QED BY <1>1, <2>1, <2>2, Quiet DEF ServerInv
  <1>3. CASE ~ account[u].is
    <2>1. Move(c, "wallet") /\ MeetsWalletWork(c) /\ account' = [account EXCEPT ![u] = r]
      BY <1>0, <1>3 DEF CreateUser
    <2>2. r \in AccountRow /\ r.is = TRUE /\ r.tier = 0 /\ r.failed = 0 /\ r.lock = "open"
      <3>1. 0 \in Tiers /\ calls[c].device \in Devices /\ << >> \in Devices
        BY <1>1, AuthAssumption DEF AuthAssumption, Call, Devices
      <3>2. q \in AccountRow /\ q.is = TRUE /\ q.tier = 0 /\ q.failed = 0 /\ q.lock = "open"
        BY <3>1 DEF NoAccount, AccountRow
      <3> HIDE DEF q
      <3> QED BY <3>1, <3>2 DEF AccountRow
    <2> HIDE DEF r
    <2>3. /\ account' \in [Users -> AccountRow] /\ account'[u] = r
          /\ \A v \in Users : v # u => account'[v] = account[v]
      BY <2>1, <2>2, RowChanges DEF ServerInv
    <2>4. Goes(c, "wallet", calls[c].saw) /\ CallsTyped'
      <3>1. PlaceFits("register", "wallet")
        BY DEF PlaceFits
      <3> QED BY <1>1, <2>1, <3>1, Fits, Moved, GoesTyped DEF ServerInv
    <2>5. AccountsTyped' /\ TokensTrue'
      BY <1>1, <2>3, <2>4, GoesTokens DEF ServerInv, AccountsTyped, TokensTrue
    <2>6. upset \subseteq upset'
      BY <1>0, <2>1, Meeting
    <2>7. wallets[u] = {} /\ wrong[u] = 0 /\ \A d : ~ LoggingIn(d, u) /\ ~ AtWallets(d, u)
      BY <1>3 DEF ServerInv, UserInv, NotYet
    <2>8. /\ \A d : ~ LoggingIn(d, u)'
          /\ \A d : AtWallets(d, u)' => d = c
          /\ \A d : Registering(d, u)' => d = c
          /\ Registering(c, u)' /\ calls'[c].at = "wallet" /\ calls'[c].kind = "register"
      <3>1. \A d : ~ LoggingIn(d, u)'
        BY <1>1, <2>4, <2>7 DEF Goes, LoggingIn
      <3>2. \A d : AtWallets(d, u)' => d = c
        BY <2>4, <2>7 DEF Goes, AtWallets, Registering
      <3>3. Registering(c, u)' /\ calls'[c].at = "wallet" /\ calls'[c].kind = "register"
        BY <1>0, <1>1, <2>4 DEF Goes, Registering
      <3> QED BY <3>1, <3>2, <3>3 DEF AtWallets
    <2>9. UserInv(u)'
      <3>1. wallets'[u] = {} /\ wrong'[u] = 0
        BY <1>1, <2>7
      <3>2. NotYet(u)'
        BY <2>2, <2>3 DEF NotYet
      <3>3. PinsCounted(u)'
        <4>1. ~ (wrong'[u] >= PinLimit)
          BY <3>1, AuthAssumption DEF AuthAssumption
        <4> QED BY <2>2, <2>3, <2>8, <3>1, <4>1 DEF PinsCounted
      <3>4. OneFirst(u)'
        BY <2>8, <3>1 DEF OneFirst
      <3>5. TierKnown(u)'
        <4>1. AllOfTier(u)'
          BY <3>1 DEF AllOfTier
        <4> QED BY <2>2, <2>3, <2>8, <4>1 DEF TierKnown
      <3> QED BY <3>2, <3>3, <3>4, <3>5 DEF UserInv
    <2>10. ASSUME NEW v \in Users, v # u PROVE UserInv(v)'
      BY <1>0, <1>1, <2>3, <2>4, <2>6, <2>10, OthersFrame
    <2> QED BY <2>4, <2>5, <2>9, <2>10 DEF ServerInv
  <1> QED BY <1>2, <1>3

LEMMA FirstWalletStep ==
    ASSUME ServerInv, NEW c \in DOMAIN calls, FirstWallet(c)
    PROVE  ServerInv'
  <1>0. PICK u \in Users : u = calls[c].user
    BY Fits DEF FirstWallet, At, ServerInv, CallFits
  <1> DEFINE w == [by |-> c, first |-> TRUE, tier |-> 0, limits |-> LimitsOf(0)]
  <1>1. /\ calls[c].kind = "register" /\ calls[c].at = "wallet" /\ Move(c, "token")
        /\ wallets' = [wallets EXCEPT ![u] = @ \cup {Wallet(c, 0)}]
        /\ UNCHANGED <<account, tokens, made, wrong, mixed, upset>>
    BY <1>0 DEF FirstWallet, At
  <1>2. Wallet(c, 0) = w
    BY <1>1 DEF Wallet
  <1>3. w \in WalletRow /\ w.by = c /\ w.first = TRUE /\ w.tier = 0 /\ LimitsFit(w.limits, 0)
    <2>1. c \in Nat /\ 0 \in Tiers
      BY AuthAssumption DEF AuthAssumption, ServerInv, CallsTyped
    <2>2. LimitsOf(0) \in LimitRow /\ LimitsFit(LimitsOf(0), 0)
      BY <2>1, LimitsFitTheirTier
    <2> QED BY <2>1, <2>2 DEF WalletRow
  <1> HIDE DEF w
  <1>4. /\ wallets' \in [Users -> SUBSET WalletRow] /\ wallets'[u] = wallets[u] \cup {w}
        /\ \A v \in Users : v # u => wallets'[v] = wallets[v]
    <2>1. wallets[u] \cup {w} \in SUBSET WalletRow
      BY <1>3 DEF ServerInv, AccountsTyped
    <2>2. wallets' = [wallets EXCEPT ![u] = wallets[u] \cup {w}]
      BY <1>1, <1>2
    <2> QED BY <2>1, <2>2, WalletsChange DEF ServerInv
  <1>5. Goes(c, "token", calls[c].saw) /\ CallsTyped'
    <2>1. PlaceFits("register", "token")
      BY DEF PlaceFits
    <2> QED BY <1>1, <2>1, Fits, Moved, GoesTyped DEF ServerInv
  <1>6. AccountsTyped' /\ TokensTrue'
    BY <1>1, <1>4, <1>5, GoesTokens DEF ServerInv, AccountsTyped, TokensTrue
  <1>7. UserInv(u) /\ Registering(c, u) /\ AtWallets(c, u)
    BY <1>0, <1>1 DEF ServerInv, Registering, AtWallets
  <1>8. Registering(c, u)' /\ calls'[c].at = "token" /\ calls'[c].kind = "register" /\ calls'[c].user = u
    BY <1>0, <1>1, <1>5 DEF Goes, Registering
  <1>9. OneFirst(u)'
    <2>1. \A v \in wallets[u] : ~ v.first
      BY <1>1, <1>7 DEF UserInv, OneFirst
    <2>2. \A v \in wallets'[u] : v.first => v = w
      BY <1>4, <2>1
    <2>3. \A d : Registering(d, u) => d = c
      BY <1>7 DEF UserInv, OneFirst
    <2>4. \A d : Registering(d, u)' => d = c
      BY <1>5, <2>3 DEF Goes, Registering
    <2>5. w \in wallets'[u] /\ c \in DOMAIN calls'
      BY <1>4, <1>5 DEF Goes
    <2> QED BY <1>3, <1>8, <2>2, <2>4, <2>5 DEF OneFirst
  <1>10. TierKnown(u)'
    <2> SUFFICES ASSUME u \notin upset' PROVE TierKnown(u)'
      BY DEF TierKnown
    <2>1. /\ \A d : AtWallets(d, u) => d = c
          /\ account[u].tier = 0
      BY <1>1, <1>7 DEF UserInv, TierKnown
    <2>2. AllOfTier(u)
      <3>1. \A d : AtWallets(d, u) => calls[d].kind # "upgrade"
        BY <1>1, <2>1
      <3> QED BY <1>1, <1>7, <3>1 DEF UserInv, TierKnown
    <2>3. AllOfTier(u)'
      BY <1>1, <1>3, <1>4, <2>1, <2>2 DEF AllOfTier
    <2>4. \A d : AtWallets(d, u)' => d = c
      BY <1>5, <2>1 DEF Goes, AtWallets, Registering
    <2> QED BY <1>8, <2>3, <2>4 DEF TierKnown
  <1>11. UserInv(u)'
    <2>1. LoginsKept(u)
      BY <1>1, <1>5, GoesKeeps DEF NoLogin
    <2>2. NotYet(u)'
      BY <1>1, <1>7 DEF UserInv, NotYet
    <2> QED BY <1>1, <1>7, <1>9, <1>10, <2>1, <2>2, PinsFrame DEF UserInv
  <1>12. ASSUME NEW v \in Users, v # u PROVE UserInv(v)'
    BY <1>0, <1>1, <1>4, <1>5, <1>12, OthersFrame
  <1> QED BY <1>5, <1>6, <1>11, <1>12 DEF ServerInv

LEMMA UpgradeUserStep ==
    ASSUME ServerInv, NEW c \in DOMAIN calls, UpgradeUser(c)
    PROVE  ServerInv'
  <1>0. PICK u \in Users : u = calls[c].user
    BY Fits DEF UpgradeUser, At, ServerInv, CallFits
  <1> DEFINE r == [account[u] EXCEPT !.tier = calls[c].tier]
  <1>1. /\ calls[c].kind = "upgrade" /\ calls[c].at = "new"
        /\ UNCHANGED <<wallets, tokens, made, wrong, mixed>>
        /\ calls[c] \in Call
    BY Fits DEF UpgradeUser, At, ServerInv
  <1>2. CASE ~ account[u].is
    <2>1. Move(c, "403") /\ UNCHANGED <<account, upset>>
      BY <1>0, <1>2 DEF UpgradeUser
    <2>2. PlaceFits("upgrade", "403") /\ NoLogin("upgrade", "new") /\ NoLogin("upgrade", "403")
          /\ NoWork("upgrade", "new") /\ NoWork("upgrade", "403")
      BY DEF PlaceFits, Finished, NoLogin, NoWork
    <2> QED BY <1>1, <2>1, <2>2, Quiet DEF ServerInv
  <1>3. CASE account[u].is
    <2>1. Move(c, "wallets") /\ MeetsWalletWork(c) /\ account' = [account EXCEPT ![u] = r]
      BY <1>0, <1>3 DEF UpgradeUser
    <2>2. /\ r \in AccountRow /\ r.is = account[u].is /\ r.tier = calls[c].tier
          /\ r.failed = account[u].failed /\ r.lock = account[u].lock
      BY <1>1 DEF ServerInv, AccountsTyped, AccountRow, Call
    <2> HIDE DEF r
    <2>3. /\ account' \in [Users -> AccountRow] /\ account'[u] = r
          /\ \A v \in Users : v # u => account'[v] = account[v]
      BY <2>1, <2>2, RowChanges DEF ServerInv
    <2>4. Goes(c, "wallets", calls[c].saw) /\ CallsTyped'
      <3>1. PlaceFits("upgrade", "wallets")
        BY DEF PlaceFits
      <3> QED BY <1>1, <2>1, <3>1, Fits, Moved, GoesTyped DEF ServerInv
    <2>5. AccountsTyped' /\ TokensTrue'
      BY <1>1, <2>3, <2>4, GoesTokens DEF ServerInv, AccountsTyped, TokensTrue
    <2>6. upset \subseteq upset'
      BY <1>0, <2>1, Meeting
    <2>7. UserInv(u)'
      <3>1. UserInv(u) /\ LoginsKept(u) /\ RegistrationsKept(u) /\ CallersKept
        BY <1>1, <2>4, GoesKeeps DEF ServerInv, NoLogin
      <3>2. NotYet(u)'
        BY <1>3, <2>2, <2>3 DEF NotYet
      <3>3. TierKnown(u)'
        <4>1. ~ AtWallets(c, u)
          BY <1>1 DEF AtWallets, Registering
        <4> QED BY <1>0, <1>1, <2>1, <2>2, <2>3, <2>4, <3>1, <4>1, TierBegin DEF UserInv
      <3>4. PinsCounted(u)'
        BY <1>1, <2>2, <2>3, <3>1, PinsFrame DEF UserInv
      <3>5. OneFirst(u)'
        BY <1>1, <2>2, <2>3, <2>6, <3>1, FirstFrame DEF UserInv
      <3> QED BY <3>2, <3>3, <3>4, <3>5 DEF UserInv
    <2>8. ASSUME NEW v \in Users, v # u PROVE UserInv(v)'
      BY <1>0, <1>1, <2>3, <2>4, <2>6, <2>8, OthersFrame
    <2> QED BY <2>4, <2>5, <2>7, <2>8 DEF ServerInv
  <1> QED BY <1>2, <1>3

\* Wallets change one by one, and none becomes or ceases to be the first.
LEMMA FirstMapped ==
    ASSUME NEW u, OneFirst(u), RegistrationsKept(u), CallersKept, NEW F,
           \A w \in wallets[u] : F[w].by = w.by /\ F[w].first = w.first,
           \A w \in wallets[u] : F[w] \in wallets'[u],
           \A x \in wallets'[u] : \E w \in wallets[u] : x = F[w],
           account'[u].is = account[u].is, u \in upset => u \in upset', DOMAIN tokens \subseteq DOMAIN tokens'
    PROVE  OneFirst(u)'
  <1>1. \A c : Registering(c, u)' <=> Registering(c, u)
    BY DEF RegistrationsKept
  <1>2. \A v, w \in wallets'[u] : v.first /\ w.first => v = w
    BY DEF OneFirst
  <1>3. \A w \in wallets'[u] : w.first => w.by \in DOMAIN calls' /\ calls'[w.by].user = u
    BY DEF OneFirst, CallersKept
  <1>4. \A c, d : Registering(c, u)' /\ Registering(d, u)' => c = d
    BY <1>1 DEF OneFirst
  <1>5. ASSUME NEW c, Registering(c, u)'
        PROVE  IF calls'[c].at = "wallet" THEN \A w \in wallets'[u] : ~ w.first
               ELSE \E w \in wallets'[u] : w.first /\ w.by = c
    <2>1. Registering(c, u) /\ calls'[c].at = calls[c].at
      BY <1>1, <1>5 DEF RegistrationsKept
    <2> QED BY <2>1 DEF OneFirst
  <1>6. ASSUME account'[u].is, u \notin upset', \A c : ~ Registering(c, u)'
        PROVE  \E w \in wallets'[u] : w.first /\ w.by \in DOMAIN tokens'
    <2>1. \E w \in wallets[u] : w.first /\ w.by \in DOMAIN tokens
      BY <1>1, <1>6 DEF OneFirst
    <2> QED BY <2>1
  <1> QED BY <1>2, <1>3, <1>4, <1>5, <1>6 DEF OneFirst

LEMMA UpgradedRow ==
    ASSUME NEW w \in WalletRow, NEW t \in Tiers
    PROVE  /\ Upgraded(w, t) \in WalletRow /\ Upgraded(w, t).by = w.by /\ Upgraded(w, t).first = w.first
           /\ Upgraded(w, t).tier = t /\ LimitsFit(Upgraded(w, t).limits, t)
  <1> DEFINE l == [k \in Limits |-> IF k \in TierLimits THEN LimitOf(t) ELSE w.limits[k]]
             p == [w EXCEPT !.tier = t]
             q == [p EXCEPT !.limits = l]
  <1>1. l \in LimitRow /\ LimitsFit(l, t)
    <2>1. LimitOf(t) \in Tiers /\ w.limits \in LimitRow
      BY LimitsFitTheirTier DEF WalletRow
    <2> QED BY <2>1 DEF LimitRow, LimitsFit, Limits
  <1>2. Upgraded(w, t) = q
    BY DEF Upgraded
  <1>3. p \in WalletRow /\ p.by = w.by /\ p.first = w.first /\ p.tier = t
    BY DEF WalletRow
  <1> HIDE DEF l, p
  <1>4. q \in WalletRow /\ q.by = w.by /\ q.first = w.first /\ q.tier = t /\ q.limits = l
    BY <1>1, <1>3 DEF WalletRow
  <1> QED BY <1>1, <1>2, <1>4

\* The last statement of a handler at the wallets: all of them are of the tier then.
LEMMA TierEnd ==
    ASSUME NEW u, TierKnown(u), NEW c \in DOMAIN calls, NEW where, NEW value, Goes(c, where, value),
           AtWallets(c, u), NoWork(calls[c].kind, where), u \in upset => u \in upset',
           u \notin upset => AllOfTier(u)'
    PROVE  TierKnown(u)'
  <1> SUFFICES ASSUME u \notin upset' PROVE TierKnown(u)'
    BY DEF TierKnown
  <1>1. u \notin upset /\ \A d : AtWallets(d, u) => d = c
    BY DEF TierKnown
  <1>2. \A d : ~ AtWallets(d, u)'
    BY <1>1 DEF Goes, AtWallets, Registering, NoWork
  <1> QED BY <1>1, <1>2 DEF TierKnown

LEMMA UpgradeWalletsStep ==
    ASSUME ServerInv, NEW c \in DOMAIN calls, UpgradeWallets(c)
    PROVE  ServerInv'
  <1>0. PICK u \in Users : u = calls[c].user
    BY Fits DEF UpgradeWallets, At, ServerInv, CallFits
  <1> DEFINE t == calls[c].tier
             F == [w \in wallets[u] |-> Upgraded(w, t)]
             S == {F[w] : w \in wallets[u]}
  <1>1. /\ calls[c].kind = "upgrade" /\ calls[c].at = "wallets" /\ Move(c, "ok")
        /\ wallets' = [wallets EXCEPT ![u] = {Upgraded(w, t) : w \in @}]
        /\ UNCHANGED <<account, tokens, made, wrong, mixed, upset>>
        /\ calls[c] \in Call
    BY <1>0, Fits DEF UpgradeWallets, At, ServerInv
  <1>2. t \in Tiers /\ wallets[u] \subseteq WalletRow
    BY <1>1 DEF Call, ServerInv, AccountsTyped
  <1>3. \A w \in wallets[u] : F[w] \in WalletRow /\ F[w].by = w.by /\ F[w].first = w.first
                              /\ F[w].tier = t /\ LimitsFit(F[w].limits, t)
    BY <1>2, UpgradedRow
  <1>4. S = {Upgraded(w, t) : w \in wallets[u]}
    OBVIOUS
  <1>5. S \in SUBSET WalletRow
    BY <1>3
  <1>6. wallets' = [wallets EXCEPT ![u] = S]
    BY <1>1, <1>4
  <1> HIDE DEF F
  <1>7. /\ wallets' \in [Users -> SUBSET WalletRow] /\ wallets'[u] = S
        /\ \A v \in Users : v # u => wallets'[v] = wallets[v]
    BY <1>5, <1>6, WalletsChange DEF ServerInv
  <1>8. Goes(c, "ok", calls[c].saw) /\ CallsTyped'
    <2>1. PlaceFits("upgrade", "ok")
      BY DEF PlaceFits, Finished
    <2> QED BY <1>1, <2>1, Fits, Moved, GoesTyped DEF ServerInv
  <1>9. AccountsTyped' /\ TokensTrue'
    BY <1>1, <1>7, <1>8, GoesTokens DEF ServerInv, AccountsTyped, TokensTrue
  <1>10. UserInv(u)'
    <2>1. UserInv(u) /\ LoginsKept(u) /\ RegistrationsKept(u) /\ CallersKept
      BY <1>1, <1>8, GoesKeeps DEF ServerInv, NoLogin
    <2>2. AtWallets(c, u)
      BY <1>0, <1>1 DEF AtWallets
    <2>3. NotYet(u)'
      BY <1>1, <2>1, <2>2 DEF UserInv, NotYet
    <2>4. OneFirst(u)'
      <3>1. \A w \in wallets[u] : F[w].by = w.by /\ F[w].first = w.first /\ F[w] \in wallets'[u]
        BY <1>3, <1>7
      <3>2. \A x \in wallets'[u] : \E w \in wallets[u] : x = F[w]
        BY <1>7
      <3>3. account'[u].is = account[u].is /\ tokens' = tokens /\ upset' = upset
        BY <1>1
      <3> QED BY <2>1, <3>1, <3>2, <3>3, FirstMapped DEF UserInv
    <2>5. TierKnown(u)'
      <3>1. u \notin upset => account[u].tier = t
        BY <1>1, <2>1, <2>2 DEF UserInv, TierKnown
      <3>2. u \notin upset => AllOfTier(u)'
        BY <1>1, <1>3, <1>7, <3>1 DEF AllOfTier
      <3>3. NoWork("upgrade", "ok")
        BY DEF NoWork
      <3> QED BY <1>1, <1>8, <2>1, <2>2, <3>2, <3>3, TierEnd DEF UserInv
    <2> QED BY <1>1, <2>1, <2>3, <2>4, <2>5, PinsFrame DEF UserInv
  <1>11. ASSUME NEW v \in Users, v # u PROVE UserInv(v)'
    BY <1>0, <1>1, <1>7, <1>8, <1>11, OthersFrame
  <1> QED BY <1>8, <1>9, <1>10, <1>11 DEF ServerInv

\* A wallet more that is not the first.
LEMMA FirstAdded ==
    ASSUME NEW u, OneFirst(u), RegistrationsKept(u), CallersKept, NEW w, ~ w.first,
           wallets'[u] = wallets[u] \cup {w},
           account'[u].is = account[u].is, u \in upset => u \in upset', DOMAIN tokens \subseteq DOMAIN tokens'
    PROVE  OneFirst(u)'
  <1>1. \A c : Registering(c, u)' <=> Registering(c, u)
    BY DEF RegistrationsKept
  <1>2. \A v \in wallets'[u] : v.first => v \in wallets[u]
    OBVIOUS
  <1>3. /\ \A v, x \in wallets'[u] : v.first /\ x.first => v = x
        /\ \A v \in wallets'[u] : v.first => v.by \in DOMAIN calls' /\ calls'[v.by].user = u
    BY <1>2 DEF OneFirst, CallersKept
  <1>4. \A c, d : Registering(c, u)' /\ Registering(d, u)' => c = d
    BY <1>1 DEF OneFirst
  <1>5. ASSUME NEW c, Registering(c, u)'
        PROVE  IF calls'[c].at = "wallet" THEN \A v \in wallets'[u] : ~ v.first
               ELSE \E v \in wallets'[u] : v.first /\ v.by = c
    <2>1. Registering(c, u) /\ calls'[c].at = calls[c].at
      BY <1>1, <1>5 DEF RegistrationsKept
    <2> QED BY <2>1 DEF OneFirst
  <1>6. ASSUME account'[u].is, u \notin upset', \A c : ~ Registering(c, u)'
        PROVE  \E v \in wallets'[u] : v.first /\ v.by \in DOMAIN tokens'
    <2>1. \E v \in wallets[u] : v.first /\ v.by \in DOMAIN tokens
      BY <1>1, <1>6 DEF OneFirst
    <2> QED BY <2>1
  <1> QED BY <1>3, <1>4, <1>5, <1>6 DEF OneFirst

\* A handler of wallets begins, with what it has read.
LEMMA WorkBegins ==
    ASSUME ServerInv, NEW c \in DOMAIN calls, NEW u \in Users, u = calls[c].user,
           NEW where, NEW value, Goes(c, where, value), CallsTyped',
           \/ calls[c].kind = "open" /\ where = "create" /\ value = account[u].tier
           \/ /\ calls[c].kind = "limits" /\ where = "write"
              /\ AllOfTier(u) => LimitsFit(calls'[c].limits, account[u].tier),
           calls[c].at = "new", account[u].is, MeetsWalletWork(c),
           UNCHANGED <<account, wallets, tokens, made, wrong, mixed>>
    PROVE  ServerInv'
  <1>1. AccountsTyped' /\ TokensTrue'
    BY GoesTokens DEF ServerInv, AccountsTyped, TokensTrue
  <1>2. upset \subseteq upset'
    BY Meeting
  <1>3. UserInv(u)'
    <2>1. UserInv(u) /\ LoginsKept(u) /\ RegistrationsKept(u) /\ CallersKept
      BY GoesKeeps DEF ServerInv, NoLogin
    <2>2. NotYet(u)'
      BY DEF NotYet
    <2>3. ~ AtWallets(c, u)
      BY DEF AtWallets, Registering
    <2>4. TierKnown(u)'
      BY <2>1, <2>3, TierBegin DEF UserInv
    <2> QED BY <1>2, <2>1, <2>2, <2>4, PinsFrame, FirstFrame DEF UserInv
  <1>4. ASSUME NEW v \in Users, v # u PROVE UserInv(v)'
    BY <1>2, <1>4, OthersFrame
  <1> QED BY <1>1, <1>3, <1>4 DEF ServerInv

LEMMA OpenWalletStep ==
    ASSUME ServerInv, NEW c \in DOMAIN calls, OpenWallet(c)
    PROVE  ServerInv'
  <1>0. PICK u \in Users : u = calls[c].user
    BY Fits DEF OpenWallet, At, ServerInv, CallFits
  <1>1. calls[c].kind = "open" /\ CallFits(calls[c]) /\ UNCHANGED <<account, tokens, made, wrong, mixed>>
    BY Fits DEF OpenWallet, At, ServerInv
  <1>2. ASSUME calls[c].at = "new", Move(c, "403"), UNCHANGED <<wallets, upset>>
        PROVE  ServerInv'
    <2>1. PlaceFits("open", "403") /\ NoLogin("open", "new") /\ NoLogin("open", "403")
          /\ NoWork("open", "new") /\ NoWork("open", "403")
      BY DEF PlaceFits, Finished, NoLogin, NoWork
    <2> QED BY <1>1, <1>2, <2>1, Quiet DEF ServerInv
  <1>3. ASSUME calls[c].at = "new", account[u].is, Sees(c, "create", account[u].tier), MeetsWalletWork(c),
               UNCHANGED wallets
        PROVE  ServerInv'
    <2>1. account[u].tier \in Tiers /\ account[u].tier \in Nat /\ PlaceFits("open", "create")
      BY LimitsFitTheirTier DEF ServerInv, AccountsTyped, AccountRow, PlaceFits
    <2>2. Goes(c, "create", account[u].tier) /\ CallsTyped'
      BY <1>1, <1>3, <2>1, Fits, Saw, GoesTyped DEF ServerInv
    <2> QED BY <1>0, <1>1, <1>3, <2>2, WorkBegins
  <1>4. ASSUME calls[c].at = "create", Move(c, "ok"), UNCHANGED upset,
               wallets' = [wallets EXCEPT ![u] = @ \cup {Wallet(c, calls[c].saw)}]
        PROVE  ServerInv'
    <2> DEFINE t == calls[c].saw
               w == [by |-> c, first |-> FALSE, tier |-> t, limits |-> LimitsOf(t)]
    <2>1. t \in Tiers /\ c \in Nat
      BY <1>1 DEF CallFits, ServerInv, CallsTyped
    <2>2. Wallet(c, t) = w
      BY <1>1 DEF Wallet
    <2>3. w \in WalletRow /\ ~ w.first /\ w.tier = t /\ LimitsFit(w.limits, t)
      <3>1. LimitsOf(t) \in LimitRow /\ LimitsFit(LimitsOf(t), t)
        BY <2>1, LimitsFitTheirTier
      <3> QED BY <2>1, <3>1 DEF WalletRow
    <2> HIDE DEF w
    <2>4. /\ wallets' \in [Users -> SUBSET WalletRow] /\ wallets'[u] = wallets[u] \cup {w}
          /\ \A v \in Users : v # u => wallets'[v] = wallets[v]
      <3>1. wallets[u] \cup {w} \in SUBSET WalletRow
        BY <2>3 DEF ServerInv, AccountsTyped
      <3>2. wallets' = [wallets EXCEPT ![u] = wallets[u] \cup {w}]
        BY <1>4, <2>2
      <3> QED BY <3>1, <3>2, WalletsChange DEF ServerInv
    <2>5. Goes(c, "ok", t) /\ CallsTyped'
      <3>1. PlaceFits("open", "ok")
        BY DEF PlaceFits, Finished
      <3> QED BY <1>1, <1>4, <2>1, <3>1, Fits, Moved, GoesTyped DEF ServerInv
    <2>6. AccountsTyped' /\ TokensTrue'
      BY <1>1, <2>4, <2>5, GoesTokens DEF ServerInv, AccountsTyped, TokensTrue
    <2>7. UserInv(u)'
      <3>1. UserInv(u) /\ LoginsKept(u) /\ RegistrationsKept(u) /\ CallersKept
        BY <1>1, <2>5, GoesKeeps DEF ServerInv, NoLogin
      <3>2. AtWallets(c, u)
        BY <1>0, <1>1, <1>4 DEF AtWallets
      <3>3. NotYet(u)'
        BY <1>1, <3>1, <3>2 DEF UserInv, NotYet
      <3>4. OneFirst(u)'
        BY <1>1, <1>4, <2>3, <2>4, <3>1, FirstAdded DEF UserInv
      <3>5. TierKnown(u)'
        <4>1. u \notin upset => t = account[u].tier /\ AllOfTier(u)
          <5> SUFFICES ASSUME u \notin upset PROVE t = account[u].tier /\ AllOfTier(u)
            OBVIOUS
          <5>1. t = account[u].tier /\ \A d : AtWallets(d, u) => d = c
            BY <1>1, <3>1, <3>2 DEF UserInv, TierKnown
          <5>2. \A d : AtWallets(d, u) => calls[d].kind # "upgrade"
            BY <1>1, <5>1
          <5> QED BY <3>1, <5>1, <5>2 DEF UserInv, TierKnown
        <4>2. u \notin upset => AllOfTier(u)'
          BY <1>1, <2>3, <2>4, <4>1 DEF AllOfTier
        <4>3. NoWork("open", "ok")
          BY DEF NoWork
        <4> QED BY <1>1, <1>4, <2>5, <3>1, <3>2, <4>2, <4>3, TierEnd DEF UserInv
      <3> QED BY <1>1, <3>1, <3>3, <3>4, <3>5, PinsFrame DEF UserInv
    <2>8. ASSUME NEW v \in Users, v # u PROVE UserInv(v)'
      BY <1>0, <1>1, <1>4, <2>4, <2>5, <2>8, OthersFrame
    <2> QED BY <2>5, <2>6, <2>7, <2>8 DEF ServerInv
  <1> QED BY <1>0, <1>2, <1>3, <1>4 DEF OpenWallet, At

\* One wallet with the limits that were decided on.
LimitedRow(w, by, limits) == IF w.by = by THEN [w EXCEPT !.limits = limits] ELSE w

LEMMA Limited ==
    ASSUME NEW w \in WalletRow, NEW by, NEW limits \in LimitRow
    PROVE  LET l == LimitedRow(w, by, limits) IN
           /\ l \in WalletRow /\ l.by = w.by /\ l.first = w.first /\ l.tier = w.tier
           /\ l.limits \in {limits, w.limits}
  <1> DEFINE p == [w EXCEPT !.limits = limits]
  <1>1. p \in WalletRow /\ p.by = w.by /\ p.first = w.first /\ p.tier = w.tier /\ p.limits = limits
    BY DEF WalletRow
  <1>2. LimitedRow(w, by, limits) = p \/ LimitedRow(w, by, limits) = w
    BY DEF LimitedRow
  <1> HIDE DEF p
  <1> QED BY <1>1, <1>2

\* What an agent sets, over the limits that were read.
LEMMA LimitsRead ==
    ASSUME CallsTyped, NEW c \in DOMAIN calls, made' = made, NEW w \in WalletRow, ReadLimits(c, w),
           calls[c].kind = "limits"
    PROVE  /\ Goes(c, "write", calls[c].saw) /\ CallsTyped'
           /\ \A t : LimitsFit(w.limits, t) => LimitsFit(calls'[c].limits, t)
  <1>1. PICK l : l = [k \in Limits |-> IF k \in calls[c].sets THEN Chosen ELSE w.limits[k]]
    OBVIOUS
  <1>2. l \in LimitRow /\ \A t : LimitsFit(w.limits, t) => LimitsFit(l, t)
    <2>1. w.limits \in LimitRow
      BY DEF WalletRow
    <2> QED BY <1>1, <2>1 DEF LimitRow, LimitsFit, Limits
  <1>3. calls[c] \in Call
    BY Fits
  <1>4. PICK q : q = [calls[c] EXCEPT !.at = "write"]
    OBVIOUS
  <1>5. /\ q \in Call /\ q.at = "write" /\ q.saw = calls[c].saw /\ q.kind = calls[c].kind
        /\ q.user = calls[c].user /\ q.tier = calls[c].tier /\ q.token = calls[c].token
    BY <1>3, <1>4 DEF Call, Places
  <1>6. PICK r : r = [q EXCEPT !.limits = l]
    OBVIOUS
  <1>7. /\ r \in Call /\ r.at = "write" /\ r.saw = calls[c].saw /\ r.kind = calls[c].kind
        /\ r.user = calls[c].user /\ r.tier = calls[c].tier /\ r.token = calls[c].token /\ r.limits = l
    BY <1>2, <1>5, <1>6 DEF Call
  <1>8. calls' = [calls EXCEPT ![c] = r]
    BY <1>1, <1>4, <1>6 DEF ReadLimits
  <1>9. calls'[c] = r /\ DOMAIN calls' = DOMAIN calls /\ \A d \in DOMAIN calls : d # c => calls'[d] = calls[d]
    BY <1>8
  <1>10. Goes(c, "write", calls[c].saw)
    BY <1>7, <1>9 DEF Goes
  <1>11. CallsTyped'
    <2>1. PlaceFits("limits", "write")
      BY DEF PlaceFits
    <2> QED BY <1>10, <2>1, GoesTyped
  <1> QED BY <1>2, <1>7, <1>9, <1>10, <1>11

LEMMA SetLimitsStep ==
    ASSUME ServerInv, NEW c \in DOMAIN calls, SetLimits(c)
    PROVE  ServerInv'
  <1>0. PICK u \in Users : u = calls[c].user
    BY Fits DEF SetLimits, At, ServerInv, CallFits
  <1>1. calls[c].kind = "limits" /\ CallFits(calls[c]) /\ UNCHANGED <<account, tokens, made, wrong, mixed>>
    BY Fits DEF SetLimits, At, ServerInv
  <1>2. ASSUME calls[c].at = "new", Move(c, "404"), UNCHANGED <<wallets, upset>>
        PROVE  ServerInv'
    <2>1. PlaceFits("limits", "404") /\ NoLogin("limits", "new") /\ NoLogin("limits", "404")
          /\ NoWork("limits", "new") /\ NoWork("limits", "404")
      BY DEF PlaceFits, Finished, NoLogin, NoWork
    <2> QED BY <1>1, <1>2, <2>1, Quiet DEF ServerInv
  <1>3. ASSUME calls[c].at = "new", NEW w \in wallets[u], ReadLimits(c, w), MeetsWalletWork(c),
               UNCHANGED wallets
        PROVE  ServerInv'
    <2>1. w \in WalletRow
      BY DEF ServerInv, AccountsTyped
    <2>2. /\ Goes(c, "write", calls[c].saw) /\ CallsTyped'
          /\ LimitsFit(w.limits, account[u].tier) => LimitsFit(calls'[c].limits, account[u].tier)
      BY <1>1, <1>3, <2>1, LimitsRead DEF ServerInv
    <2>3. account[u].is
      BY DEF ServerInv, UserInv, NotYet
    <2>4. AllOfTier(u) => LimitsFit(calls'[c].limits, account[u].tier)
      BY <2>2 DEF AllOfTier
    <2> QED BY <1>0, <1>1, <1>3, <2>2, <2>3, <2>4, WorkBegins
  <1>4. ASSUME calls[c].at = "write", Move(c, "ok"), UNCHANGED upset,
               wallets' = [wallets EXCEPT ![u] = {LimitedRow(w, calls[c].wallet, calls[c].limits) : w \in @}]
        PROVE  ServerInv'
    <2> DEFINE l == calls[c].limits
               F == [w \in wallets[u] |-> LimitedRow(w, calls[c].wallet, l)]
               S == {F[w] : w \in wallets[u]}
    <2>1. l \in LimitRow /\ wallets[u] \subseteq WalletRow
      BY <1>1 DEF CallFits, Call, ServerInv, AccountsTyped
    <2>2. \A w \in wallets[u] : F[w] \in WalletRow /\ F[w].by = w.by /\ F[w].first = w.first
                                /\ F[w].tier = w.tier /\ F[w].limits \in {l, w.limits}
      BY <2>1, Limited
    <2>3. S = {LimitedRow(w, calls[c].wallet, l) : w \in wallets[u]}
      OBVIOUS
    <2>4. S \in SUBSET WalletRow
      BY <2>2
    <2>5. wallets' = [wallets EXCEPT ![u] = S]
      BY <1>4, <2>3
    <2> HIDE DEF F
    <2>6. /\ wallets' \in [Users -> SUBSET WalletRow] /\ wallets'[u] = S
          /\ \A v \in Users : v # u => wallets'[v] = wallets[v]
      BY <2>4, <2>5, WalletsChange DEF ServerInv
    <2>7. Goes(c, "ok", calls[c].saw) /\ CallsTyped'
      <3>1. PlaceFits("limits", "ok")
        BY DEF PlaceFits, Finished
      <3> QED BY <1>1, <1>4, <3>1, Fits, Moved, GoesTyped DEF ServerInv
    <2>8. AccountsTyped' /\ TokensTrue'
      BY <1>1, <2>6, <2>7, GoesTokens DEF ServerInv, AccountsTyped, TokensTrue
    <2>9. UserInv(u)'
      <3>1. UserInv(u) /\ LoginsKept(u) /\ RegistrationsKept(u) /\ CallersKept
        BY <1>1, <2>7, GoesKeeps DEF ServerInv, NoLogin
      <3>2. AtWallets(c, u)
        BY <1>0, <1>1, <1>4 DEF AtWallets
      <3>3. NotYet(u)'
        BY <1>1, <3>1, <3>2 DEF UserInv, NotYet
      <3>4. OneFirst(u)'
        <4>1. \A w \in wallets[u] : F[w].by = w.by /\ F[w].first = w.first /\ F[w] \in wallets'[u]
          BY <2>2, <2>6
        <4>2. \A x \in wallets'[u] : \E w \in wallets[u] : x = F[w]
          BY <2>6
        <4>3. account'[u].is = account[u].is /\ tokens' = tokens /\ upset' = upset
          BY <1>1, <1>4
        <4> QED BY <3>1, <4>1, <4>2, <4>3, FirstMapped DEF UserInv
      <3>5. TierKnown(u)'
        <4>1. u \notin upset => LimitsFit(l, account[u].tier) /\ AllOfTier(u)
          <5> SUFFICES ASSUME u \notin upset PROVE LimitsFit(l, account[u].tier) /\ AllOfTier(u)
            OBVIOUS
          <5>1. LimitsFit(l, account[u].tier) /\ \A d : AtWallets(d, u) => d = c
            BY <1>1, <3>1, <3>2 DEF UserInv, TierKnown
          <5>2. \A d : AtWallets(d, u) => calls[d].kind # "upgrade"
            BY <1>1, <5>1
          <5> QED BY <3>1, <5>1, <5>2 DEF UserInv, TierKnown
        <4>2. u \notin upset => AllOfTier(u)'
          BY <1>1, <2>2, <2>6, <4>1 DEF AllOfTier
        <4>3. NoWork("limits", "ok")
          BY DEF NoWork
        <4> QED BY <1>1, <1>4, <2>7, <3>1, <3>2, <4>2, <4>3, TierEnd DEF UserInv
      <3> QED BY <1>1, <3>1, <3>3, <3>4, <3>5, PinsFrame DEF UserInv
    <2>10. ASSUME NEW v \in Users, v # u PROVE UserInv(v)'
      BY <1>0, <1>1, <1>4, <2>6, <2>7, <2>10, OthersFrame
    <2> QED BY <2>7, <2>8, <2>9, <2>10 DEF ServerInv
  <1> QED BY <1>0, <1>2, <1>3, <1>4 DEF SetLimits, At, LimitedRow

LEMMA BreakOffStep ==
    ASSUME ServerInv, NEW c \in DOMAIN calls, BreakOff(c)
    PROVE  ServerInv'
  <1> DEFINE kind == calls[c].kind
             place == calls[c].at
  <1>1. /\ Move(c, "500") /\ UNCHANGED <<account, wallets, tokens, made, wrong>>
        /\ upset \subseteq upset' /\ mixed \subseteq mixed'
        /\ place \in {"wallet", "token", "wallets"} => calls[c].user \in upset'
        /\ place = "wrong" => calls[c].user \in mixed'
        /\ place \notin Finished \cup {"new"}
    BY DEF BreakOff
  <1>2. PlaceFits(kind, place) /\ PlaceFits(kind, "500") /\ NoWork(kind, "500") /\ NoLogin(kind, "500")
    BY Fits DEF ServerInv, CallFits, PlaceFits, Finished, NoWork, NoLogin
  <1>3. Goes(c, "500", calls[c].saw) /\ CallsTyped'
    BY <1>1, <1>2, Fits, Moved, GoesTyped DEF ServerInv, CallFits
  <1>4. AccountsTyped' /\ TokensTrue'
    BY <1>1, <1>3, GoesTokens DEF ServerInv, AccountsTyped, TokensTrue
  <1>5. PICK u \in Users : u = calls[c].user
    <2>1. kind # "refresh"
      BY <1>1, <1>2 DEF PlaceFits
    <2> QED BY <2>1, Fits DEF ServerInv, CallFits
  <1>6. UserInv(u)'
    <2>1. UserInv(u) /\ CallersKept
      BY <1>3, GoesKeeps DEF ServerInv
    <2>2. /\ \A d : LoggingIn(d, u)' => LoggingIn(d, u) /\ d # c
          /\ \A d : AtWallets(d, u)' => AtWallets(d, u) /\ d # c
          /\ \A d : Registering(d, u)' => Registering(d, u) /\ d # c
          /\ \A d \in DOMAIN calls : d # c => calls'[d] = calls[d]
      BY <1>3 DEF Goes, LoggingIn, AtWallets, Registering
    <2>3. NotYet(u)'
      BY <1>1, <2>1, <2>2 DEF UserInv, NotYet
    <2>4. PinsCounted(u)'
      <3>1. CASE NoLogin(kind, place)
        <4>1. LoginsKept(u)
          BY <1>2, <1>3, <3>1, GoesKeeps
        <4> QED BY <1>1, <2>1, <4>1, PinsFrame DEF UserInv
      <3>2. CASE kind = "login" /\ place = "wrong"
        BY <1>1, <1>5, <3>2 DEF PinsCounted
      <3>3. CASE kind = "login" /\ place \in {"reset", "token"}
        <4>1. LoggingIn(c, u) /\ place # "wrong"
          BY <1>5, <3>3 DEF LoggingIn
        <4> QED BY <1>1, <1>3, <2>1, <4>1, PinsLeave DEF UserInv
      <3> QED BY <3>1, <3>2, <3>3 DEF NoLogin
    <2>5. OneFirst(u)'
      <3>1. CASE kind # "register" \/ place \notin {"wallet", "token"}
        <4>1. RegistrationsKept(u)
          BY <1>3, <1>5, <3>1 DEF Goes, RegistrationsKept, Registering
        <4> QED BY <1>1, <2>1, <4>1, FirstFrame DEF UserInv
      <3>2. CASE kind = "register" /\ place \in {"wallet", "token"}
        <4>1. u \in upset'
          BY <1>1, <1>5, <3>2
        <4>2. \A w \in wallets'[u] : w.first => w.by \in DOMAIN calls' /\ calls'[w.by].user = u
          BY <1>1, <2>1 DEF UserInv, OneFirst, CallersKept
        <4>3. \A d : ~ Registering(d, u)'
          <5>1. Registering(c, u)
            BY <1>5, <3>2 DEF Registering
          <5> QED BY <2>1, <2>2, <5>1 DEF UserInv, OneFirst
        <4> QED BY <1>1, <2>1, <4>1, <4>2, <4>3 DEF UserInv, OneFirst
      <3> QED BY <3>1, <3>2
    <2>6. TierKnown(u)'
      <3>1. CASE NoWork(kind, place)
        <4>1. WorkKept(u)
          BY <1>2, <1>3, <3>1, GoesKeeps
        <4> QED BY <1>1, <2>1, <4>1, TierFrame DEF UserInv
      <3>2. CASE place \in {"wallet", "token", "wallets"}
        BY <1>1, <1>5, <3>2 DEF TierKnown
      <3>3. CASE kind \in {"open", "limits"} /\ place \in {"create", "write"}
        <4>1. AtWallets(c, u) /\ kind # "upgrade"
          BY <1>5, <3>3 DEF AtWallets
        <4> QED BY <1>1, <1>2, <1>3, <2>1, <4>1, TierLeave DEF UserInv
      <3> QED BY <1>2, <3>1, <3>2, <3>3 DEF NoWork, PlaceFits, Finished
    <2> QED BY <2>3, <2>4, <2>5, <2>6 DEF UserInv
  <1>7. ASSUME NEW v \in Users, v # u PROVE UserInv(v)'
    BY <1>1, <1>3, <1>5, <1>7, OthersFrame
  <1> QED BY <1>3, <1>4, <1>6, <1>7 DEF ServerInv

LEMMA ServerStep ==
    ASSUME ServerInv, ServerNext
    PROVE  ServerInv'
  BY FindPhoneStep, CreateUserStep, FirstWalletStep, IssueTokenStep, ReadLoginStep, ReadAgentLoginStep,
     RecordWrongPinStep, ResetAttemptsStep, AnswerRefreshStep, RevokeTokenStep, BindDeviceStep,
     UpgradeUserStep, UpgradeWalletsStep, OpenWalletStep, SetLimitsStep, BreakOffStep, LapseLockStep,
     ExpireTokenStep
  DEF ServerNext

\* Somebody asks, and nothing else happens.
LEMMA ArrivalStep ==
    ASSUME ServerInv, NEW kind, NEW user, Arrives(kind, user),
           UNCHANGED <<account, wallets, tokens, wrong, mixed, upset>>
    PROVE  ServerInv'
  <1>1. CallsTyped' /\ AccountsTyped'
    BY ArrivesTyped DEF ServerInv, AccountsTyped
  <1>2. TokensTrue'
    BY DEF ServerInv, TokensTrue, Arrives
  <1>3. ASSUME NEW u \in Users PROVE UserInv(u)'
    BY ArrivesKeeps, UserFrame DEF ServerInv
  <1> QED BY <1>1, <1>2, <1>3 DEF ServerInv

LEMMA ServerBegins ==
    ASSUME AuthInit
    PROVE  ServerInv
  <1> USE DEF AuthInit
  <1>1. DOMAIN calls = {} /\ DOMAIN tokens = {}
    OBVIOUS
  <1>2. CallsTyped
    BY <1>1, AuthAssumption DEF CallsTyped, AuthAssumption
  <1>3. AccountsTyped
    <2>1. NoAccount \in AccountRow
      BY AuthAssumption DEF AuthAssumption, NoAccount, AccountRow, Devices
    <2> QED BY <2>1 DEF AccountsTyped
  <1>4. TokensTrue
    BY <1>1 DEF TokensTrue
  <1>5. ASSUME NEW u \in Users PROVE UserInv(u)
    <2>1. ~ account[u].is /\ account[u].failed = 0 /\ wallets[u] = {} /\ wrong[u] = 0
      BY DEF NoAccount
    <2>2. \A c : ~ LoggingIn(c, u) /\ ~ AtWallets(c, u) /\ ~ Registering(c, u)
      BY <1>1 DEF LoggingIn, AtWallets, Registering
    <2>3. ~ (wrong[u] >= PinLimit)
      BY <2>1, AuthAssumption DEF AuthAssumption
    <2>4. NotYet(u)
      BY <2>1, <2>2 DEF NotYet
    <2>5. PinsCounted(u)
      BY <2>1, <2>2, <2>3 DEF PinsCounted
    <2>6. OneFirst(u) /\ TierKnown(u)
      BY <2>1, <2>2 DEF OneFirst, TierKnown, AllOfTier
    <2> QED BY <2>4, <2>5, <2>6 DEF UserInv
  <1> QED BY <1>2, <1>3, <1>4, <1>5 DEF ServerInv

(***************************************************************************)
(* The browser, and the services under it.                                 *)
(***************************************************************************)
\* A call goes on or arrives: none changes its kind or its user.
CallsGrow == CallersKept /\ made' \in Nat /\ made <= made'

LEMMA AskStays ==
    ASSUME CallsTyped, CallsGrow, NEW a, AskFits(a)
    PROVE  /\ AskFits(a)'
           /\ a.stage = "refresh" => calls'[a.call].user = calls[a.call].user
  <1>1. a \in Ask /\ a.call <= made /\ made \in Nat /\ DOMAIN calls = 1 .. made /\ made' \in Nat /\ made <= made'
    BY DEF CallsTyped, CallsGrow, AskFits
  <1>1a. a.call \in Nat
    BY <1>1 DEF Ask
  <1>2. a.call # 0 => a.call \in DOMAIN calls
    BY <1>1, <1>1a
  <1>3. a.stage = "refresh" => calls'[a.call].user = calls[a.call].user /\ calls'[a.call].kind = "refresh"
    BY <1>2 DEF AskFits, CallsGrow, CallersKept
  <1>4. a.call <= made'
    BY <1>1, <1>1a
  <1> QED BY <1>1, <1>3, <1>4 DEF AskFits

LEMMA AskKept ==
    ASSUME NEW a, AskFits(a), UNCHANGED <<made, calls>>
    PROVE  AskFits(a)'
  BY DEF AskFits

LEMMA ServerGrows ==
    ASSUME CallsTyped, ServerNext
    PROVE  CallsGrow
  <1>1. made' = made /\ made \in Nat
    BY DEF CallsTyped, ServerNext, FindPhone, CreateUser, FirstWallet, IssueToken, ReadLogin, ReadAgentLogin,
           RecordWrongPin, ResetAttempts, AnswerRefresh, RevokeToken, BindDevice, UpgradeUser, UpgradeWallets,
           OpenWallet, SetLimits, BreakOff, LapseLock, ExpireToken
  <1>2. \/ calls' = calls
        \/ \E c \in DOMAIN calls : \E where : Move(c, where)
        \/ \E c \in DOMAIN calls : \E where, value : Sees(c, where, value)
        \/ \E c \in DOMAIN calls : \E w : ReadLimits(c, w)
    BY DEF ServerNext, FindPhone, CreateUser, FirstWallet, IssueToken, ReadLogin, ReadAgentLogin,
           RecordWrongPin, ResetAttempts, AnswerRefresh, RevokeToken, BindDevice, UpgradeUser, UpgradeWallets,
           OpenWallet, SetLimits, BreakOff, LapseLock, ExpireToken
  <1>3. CASE calls' = calls
    BY <1>1, <1>3 DEF CallsGrow, CallersKept
  <1>4. ASSUME NEW c \in DOMAIN calls, NEW r, calls' = [calls EXCEPT ![c] = r],
               r.user = calls[c].user, r.kind = calls[c].kind
        PROVE  CallsGrow
    BY <1>1, <1>4 DEF CallsGrow, CallersKept
  <1>5. ASSUME NEW c \in DOMAIN calls, NEW where, Move(c, where) PROVE CallsGrow
    <2> DEFINE r == [calls[c] EXCEPT !.at = where]
    <2>1. r.user = calls[c].user /\ r.kind = calls[c].kind
      BY DEF CallsTyped, CallFits, Call
    <2>2. calls' = [calls EXCEPT ![c] = r]
      BY <1>5 DEF Move
    <2> HIDE DEF r
    <2> QED BY <2>1, <2>2, <1>4
  <1>6. ASSUME NEW c \in DOMAIN calls, NEW where, NEW value, Sees(c, where, value) PROVE CallsGrow
    <2> DEFINE q == [calls[c] EXCEPT !.at = where]
               r == [q EXCEPT !.saw = value]
    <2>1. DOMAIN q = DOMAIN calls[c] /\ q.user = calls[c].user /\ q.kind = calls[c].kind
      BY DEF CallsTyped, CallFits, Call
    <2>2. calls' = [calls EXCEPT ![c] = r]
      BY <1>6 DEF Sees
    <2>3. {"user", "kind"} \subseteq DOMAIN calls[c]
      BY DEF CallsTyped, CallFits, Call
    <2> HIDE DEF q
    <2>4. r.user = calls[c].user /\ r.kind = calls[c].kind
      BY <2>1, <2>3
    <2> HIDE DEF r
    <2> QED BY <2>2, <2>4, <1>4
  <1>7. ASSUME NEW c \in DOMAIN calls, NEW w, ReadLimits(c, w) PROVE CallsGrow
    <2>1. PICK l : l = [k \in Limits |-> IF k \in calls[c].sets THEN Chosen ELSE w.limits[k]]
      OBVIOUS
    <2> DEFINE q == [calls[c] EXCEPT !.at = "write"]
               r == [q EXCEPT !.limits = l]
    <2>2. DOMAIN q = DOMAIN calls[c] /\ q.user = calls[c].user /\ q.kind = calls[c].kind
      BY DEF CallsTyped, CallFits, Call
    <2>3. calls' = [calls EXCEPT ![c] = r]
      BY <1>7, <2>1 DEF ReadLimits
    <2>4. {"user", "kind"} \subseteq DOMAIN calls[c]
      BY DEF CallsTyped, CallFits, Call
    <2> HIDE DEF q
    <2>5. r.user = calls[c].user /\ r.kind = calls[c].kind
      BY <2>2, <2>4
    <2> HIDE DEF r
    <2> QED BY <2>3, <2>5, <1>4
  <1> QED BY <1>2, <1>3, <1>5, <1>6, <1>7

\* The services work, and the browser waits.
LEMMA ServerUnderSession ==
    ASSUME ServerInv, SessionInv, ServerNext, LoseDevice,
           UNCHANGED <<memory, stored, opened, screen, asks, asked, typos, guesses, drifted>>
    PROVE  SessionInv'
  <1>1. CallsGrow /\ CallsTyped
    BY ServerGrows DEF ServerInv
  <1>2. \A a \in asks : AskFits(a)' /\ (a.stage = "refresh" => calls'[a.call].user = calls[a.call].user)
    BY <1>1, AskStays DEF SessionInv, SessionTyped
  <1>3. memory.refresh <= made'
    <2>1. memory.refresh \in Nat /\ memory.refresh <= made /\ made \in Nat /\ made' \in Nat /\ made <= made'
      BY <1>1 DEF SessionInv, SessionTyped, CallsGrow, CallsTyped
    <2> QED BY <2>1
  <1>4. \A u \in ownDevice' : u \in ownDevice /\ account'[u].device = account[u].device
    BY DEF LoseDevice
  <1>5. SessionTyped'
    <2>1. made' \in Nat /\ ownDevice' \subseteq Users
      BY <1>1, <1>4 DEF CallsGrow, SessionInv, SessionTyped
    <2> QED BY <1>2, <1>3, <2>1 DEF SessionInv, SessionTyped
  <1>6. StorageAgrees' /\ CodeAgrees' /\ NoRepeats'
    BY DEF SessionInv, StorageAgrees, CodeAgrees, NoRepeats
  <1>7. AsksAgree'
    BY <1>2 DEF SessionInv, AsksAgree
  <1>8. DeviceKept'
    BY <1>4 DEF SessionInv, DeviceKept
  <1> QED BY <1>5, <1>6, <1>7, <1>8 DEF SessionInv

\* Others ask, and the browser waits.
LEMMA GrowsUnderSession ==
    ASSUME CallsTyped, SessionInv, CallsGrow, UNCHANGED <<account, pwaVars>>
    PROVE  SessionInv'
  <1> USE DEF pwaVars
  <1>2. \A a \in asks : AskFits(a)' /\ (a.stage = "refresh" => calls'[a.call].user = calls[a.call].user)
    BY AskStays DEF SessionInv, SessionTyped
  <1>3. memory.refresh <= made'
    <2>1. memory.refresh \in Nat /\ memory.refresh <= made /\ made \in Nat /\ made' \in Nat /\ made <= made'
      BY DEF SessionInv, SessionTyped, CallsGrow, CallsTyped
    <2> QED BY <2>1
  <1>5. SessionTyped'
    BY <1>2, <1>3 DEF SessionInv, SessionTyped, CallsGrow
  <1>6. StorageAgrees' /\ CodeAgrees' /\ NoRepeats' /\ DeviceKept'
    BY DEF SessionInv, StorageAgrees, CodeAgrees, NoRepeats, DeviceKept
  <1>7. AsksAgree'
    BY <1>2 DEF SessionInv, AsksAgree
  <1> QED BY <1>5, <1>6, <1>7 DEF SessionInv

LEMMA LoadStep ==
    ASSUME SessionInv, NEW kind \in {"load", "qr"}, Load(kind), UNCHANGED serverVars
    PROVE  SessionInv'
  <1>0. PICK a : a = [kind |-> kind, what |-> kind, user |-> stored.user, right |-> TRUE,
                      call |-> 0, stage |-> "asked", with |-> memory.access, device |-> << >>, page |-> << >>]
    OBVIOUS
  <1>1. /\ asks' = asks \cup {a} /\ asked' = asked + 1 /\ screen = "home"
        /\ UNCHANGED <<memory, stored, opened, screen, typos, guesses, drifted, ownDevice>>
        /\ UNCHANGED <<account, calls, made>>
    BY <1>0 DEF Load, serverVars
  <1>2. made \in Nat
    BY DEF SessionInv, SessionTyped
  <1>3. a \in Ask
    <2>1. stored.user \in Somebody /\ memory.access \in Token /\ << >> \in Devices
      BY DEF SessionInv, SessionTyped, Devices
    <2> QED BY <1>0, <2>1 DEF Ask
  <1>4. a.kind = kind /\ a.user = stored.user /\ a.stage = "asked" /\ a.call = 0
    BY <1>0
  <1>5. AskFits(a)'
    <2>1. a.call <= made'
      BY <1>1, <1>2, <1>4
    <2> QED BY <1>3, <1>4, <2>1 DEF AskFits
  <1>6. \A b \in asks : AskFits(b)'
    BY <1>1, AskKept DEF SessionInv, SessionTyped
  <1>7. asked' \in Nat
    <2>1. asked \in Nat
      BY DEF SessionInv, SessionTyped
    <2> QED BY <1>1, <2>1
  <1>8. SessionTyped'
    <2>1. \A b \in asks' : AskFits(b)'
      BY <1>1, <1>5, <1>6
    <2>2. \A b, d \in asks' : b.kind = "sign in" /\ d.kind = "sign in" => b = d
      BY <1>1, <1>4 DEF SessionInv, SessionTyped
    <2> QED BY <1>1, <1>7, <2>1, <2>2 DEF SessionInv, SessionTyped
  <1>9. StorageAgrees' /\ CodeAgrees' /\ NoRepeats' /\ DeviceKept'
    BY <1>1, <1>4 DEF SessionInv, StorageAgrees, CodeAgrees, NoRepeats, DeviceKept
  <1>10. AsksAgree'
    BY <1>1, <1>4 DEF SessionInv, AsksAgree
  <1> QED BY <1>8, <1>9, <1>10 DEF SessionInv

LEMMA LoadedStep ==
    ASSUME SessionInv, NEW a \in asks, Loaded(a)
    PROVE  SessionInv'
  <1>1. /\ asks' \subseteq asks /\ a.kind # "sign in"
        /\ stored' = stored \/ stored' = [stored EXCEPT !.code = a.user]
        /\ UNCHANGED <<memory, opened, screen, asked, typos, guesses, drifted, ownDevice>>
        /\ UNCHANGED <<account, calls, made>>
    BY DEF Loaded, Drop, serverVars
  <1>2. a.user \in Somebody
    BY DEF SessionInv, SessionTyped, AskFits, Ask
  <1>3. /\ stored' \in [user : Somebody, access : Token, refresh : Nat, device : Devices, code : Somebody]
        /\ stored'.user = stored.user /\ stored'.access = stored.access /\ stored'.refresh = stored.refresh
        /\ stored'.device = stored.device /\ stored'.code \in {stored.code, a.user}
    BY <1>1, <1>2 DEF SessionInv, SessionTyped
  <1>4. SessionTyped'
    BY <1>1, <1>3 DEF SessionInv, SessionTyped, AskFits
  <1>5. StorageAgrees' /\ AsksAgree' /\ NoRepeats' /\ DeviceKept'
    BY <1>1, <1>3 DEF SessionInv, StorageAgrees, AsksAgree, NoRepeats, DeviceKept
  <1>6. CodeAgrees'
    BY <1>1, <1>3 DEF SessionInv, AsksAgree, CodeAgrees
  <1> QED BY <1>4, <1>5, <1>6 DEF SessionInv

LEMMA EnterPageStep ==
    ASSUME SessionInv, EnterPage
    PROVE  SessionInv'
  <1>1. /\ asks' \subseteq asks /\ stored.access # NoToken /\ screen' = "home" /\ opened' = << >>
        /\ memory' = [access |-> stored.access, refresh |-> stored.refresh]
        /\ UNCHANGED <<stored, asked, typos, guesses, drifted, ownDevice>>
        /\ UNCHANGED <<account, calls, made>>
    BY DEF EnterPage, serverVars
  <1>2. memory' \in [access : Token, refresh : Nat] /\ memory'.access = stored.access
        /\ memory'.refresh = stored.refresh /\ memory.refresh = stored.refresh
    BY <1>1 DEF SessionInv, SessionTyped, StorageAgrees
  <1>3. stored.refresh # 0 /\ stored.access.user = stored.user
    BY <1>1 DEF SessionInv, StorageAgrees
  <1>4. SessionTyped'
    <2>1. << >> \in Devices
      BY DEF Devices
    <2> QED BY <1>1, <1>2, <2>1 DEF SessionInv, SessionTyped, AskFits
  <1>5. StorageAgrees' /\ DeviceKept'
    BY <1>1, <1>2 DEF SessionInv, StorageAgrees, DeviceKept
  <1>6. AsksAgree' /\ CodeAgrees'
    BY <1>1, <1>2, <1>3 DEF SessionInv, AsksAgree, CodeAgrees
  <1>7. NoRepeats'
    <2>1. "tokens" \notin drifted => screen = "home"
      BY <1>2, <1>3 DEF SessionInv, SessionTyped, NoRepeats
    <2> QED BY <1>1, <2>1 DEF SessionInv, NoRepeats
  <1> QED BY <1>4, <1>5, <1>6, <1>7 DEF SessionInv

LEMMA ExpireAccessStep ==
    ASSUME SessionInv, ExpireAccess
    PROVE  SessionInv'
  <1> DEFINE m == [memory.access EXCEPT !.expired = TRUE]
             s == [stored.access EXCEPT !.expired = stored.access # NoToken]
  <1>1. /\ memory.access # NoToken
        /\ memory' = [memory EXCEPT !.access = m] /\ stored' = [stored EXCEPT !.access = s]
        /\ UNCHANGED <<opened, screen, asks, asked, typos, guesses, drifted, ownDevice>>
        /\ UNCHANGED <<account, calls, made>>
    BY DEF ExpireAccess, serverVars
  <1>2. m \in Token /\ m.user = memory.access.user
    BY DEF SessionInv, SessionTyped, Token
  <1>3. stored.access \in Token
    BY DEF SessionInv, SessionTyped
  <1>4. s \in Token /\ s.user = stored.access.user /\ (stored.access = NoToken => s = NoToken)
    <2>1. CASE stored.access = NoToken
      <3>1. s = [stored.access EXCEPT !.expired = FALSE]
        BY <2>1
      <3>2. s = NoToken
        <4>1. ASSUME NEW v
              PROVE  [[user |-> "none", expired |-> v] EXCEPT !.expired = v] = [user |-> "none", expired |-> v]
          OBVIOUS
        <4>2. [NoToken EXCEPT !.expired = FALSE] = NoToken
          BY <4>1, Zenon DEF NoToken
        <4> HIDE DEF s
        <4> QED BY <2>1, <3>1, <4>2
      <3> HIDE DEF s
      <3> QED BY <1>3, <2>1, <3>2
    <2>2. CASE stored.access # NoToken
      <3>1. s = [stored.access EXCEPT !.expired = TRUE]
        BY <2>2
      <3> HIDE DEF s
      <3> QED BY <1>3, <2>2, <3>1 DEF Token
    <2> QED BY <2>1, <2>2
  <1> HIDE DEF m, s
  <1>5. /\ memory' \in [access : Token, refresh : Nat]
        /\ memory'.access = m /\ memory'.refresh = memory.refresh
    BY <1>1, <1>2 DEF SessionInv, SessionTyped
  <1>6. /\ stored' \in [user : Somebody, access : Token, refresh : Nat, device : Devices, code : Somebody]
        /\ stored'.user = stored.user /\ stored'.access = s /\ stored'.refresh = stored.refresh
        /\ stored'.device = stored.device /\ stored'.code = stored.code
    BY <1>1, <1>4 DEF SessionInv, SessionTyped
  <1>7. SessionTyped'
    BY <1>1, <1>5, <1>6 DEF SessionInv, SessionTyped, AskFits
  <1>8. StorageAgrees'
    BY <1>4, <1>5, <1>6 DEF SessionInv, StorageAgrees
  <1>9. AsksAgree' /\ CodeAgrees' /\ NoRepeats' /\ DeviceKept'
    BY <1>1, <1>2, <1>5, <1>6 DEF SessionInv, AsksAgree, CodeAgrees, NoRepeats, DeviceKept
  <1> QED BY <1>7, <1>8, <1>9 DEF SessionInv

LEMMA SignOutStep ==
    ASSUME SessionInv, SignOut
    PROVE  SessionInv'
  <1>1. /\ screen = "home" /\ screen' = "login" /\ memory' = SignedOut
        /\ \/ stored' = Empty /\ ownDevice' = {}
           \/ stored' = [stored EXCEPT !.access = NoToken, !.refresh = 0] /\ ownDevice' = ownDevice
        /\ UNCHANGED <<opened, asks, asked, typos, guesses>>
        /\ UNCHANGED <<account, calls, made>>
    BY DEF SignOut, ForgetTokens, serverVars
  <1>2. /\ drifted \subseteq drifted' /\ drifted' \subseteq {"asks", "tokens", "code"}
        /\ "tokens" \in drifted' => "tokens" \in drifted
        /\ stored'.code # "none" => "code" \in drifted'
        /\ asks' # {} => "asks" \in drifted'
    BY DEF SignOut, LeftBehind, SessionInv, SessionTyped
  <1>3. NoToken \in Token /\ << >> \in Devices
    BY DEF NoToken, Token, Somebody, Devices
  <1>4. memory' \in [access : Token, refresh : Nat] /\ memory'.access = NoToken /\ memory'.refresh = 0
    BY <1>1, <1>3 DEF SignedOut
  <1>5. /\ stored' \in [user : Somebody, access : Token, refresh : Nat, device : Devices, code : Somebody]
        /\ stored'.access = NoToken /\ stored'.refresh = 0
        /\ \/ stored'.device = << >> /\ ownDevice' = {}
           \/ stored'.device = stored.device /\ ownDevice' = ownDevice
    <2>1. CASE stored' = Empty /\ ownDevice' = {}
      BY <1>3, <2>1 DEF Empty, Somebody
    <2>2. CASE stored' = [stored EXCEPT !.access = NoToken, !.refresh = 0] /\ ownDevice' = ownDevice
      <3> DEFINE q == [stored EXCEPT !.access = NoToken]
      <3>1. q \in [user : Somebody, access : Token, refresh : Nat, device : Devices, code : Somebody]
            /\ q.access = NoToken /\ q.device = stored.device
        BY <1>3 DEF SessionInv, SessionTyped
      <3>2. stored' = [q EXCEPT !.refresh = 0]
        BY <2>2
      <3> HIDE DEF q
      <3> QED BY <2>2, <3>1, <3>2
    <2> QED BY <1>1, <2>1, <2>2
  <1>6. SessionTyped'
    <2>1. made \in Nat /\ ownDevice' \subseteq Users
      BY <1>1, <1>5 DEF SessionInv, SessionTyped
    <2>2. 0 <= made'
      BY <1>1, <2>1
    <2> QED BY <1>1, <1>2, <1>4, <1>5, <2>1, <2>2 DEF SessionInv, SessionTyped, AskFits
  <1>7. StorageAgrees'
    BY <1>4, <1>5 DEF StorageAgrees
  <1>8. AsksAgree'
    BY <1>2, <1>4 DEF AsksAgree
  <1>9. CodeAgrees'
    BY <1>2 DEF CodeAgrees
  <1>10. NoRepeats'
    BY <1>1, <1>2, <1>4 DEF SessionInv, NoRepeats
  <1>11. DeviceKept'
    BY <1>1, <1>5 DEF SessionInv, DeviceKept
  <1> QED BY <1>6, <1>7, <1>8, <1>9, <1>10, <1>11 DEF SessionInv

\* Somebody is signed in. Without drift nothing else was asked for, and no code of
\* another user is left.
LEMMA SignInStep ==
    ASSUME CallsTyped, SessionInv, NEW a \in asks, SignIn(a)
    PROVE  SessionInv'
  <1>1. /\ a.kind = "sign in" /\ a.user \in Users /\ a.call \in Nat /\ a.call <= made /\ a.call # 0
        /\ a.page \in Devices /\ AskFits(a)
    <2>1. AskFits(a) /\ a.kind = "sign in"
      BY DEF SignIn, SessionInv, SessionTyped
    <2> QED BY <2>1 DEF AskFits, Ask
  <1>2. PICK t : t = [user |-> a.user, expired |-> FALSE]
    OBVIOUS
  <1>3. t \in Token /\ t.user = a.user
    BY <1>1, <1>2 DEF Token, Somebody
  <1>4. PICK device : device = IF a.what = "register" THEN a.page ELSE stored.device
    OBVIOUS
  <1>5. /\ memory' = [access |-> t, refresh |-> a.call] /\ screen' = "home" /\ opened' = << >> /\ asks' = asks \ {a}
        /\ UNCHANGED <<asked, typos, guesses>> /\ UNCHANGED <<account, calls, made>>
    BY <1>2 DEF SignIn, Drop, serverVars
  <1>6. stored' = [user |-> a.user, access |-> t, refresh |-> a.call, device |-> device, code |-> stored.code]
    <2>1. memory'.access = t
      BY <1>5
    <2>2. stored' = [user |-> a.user, access |-> memory'.access, refresh |-> a.call,
                     device |-> IF a.what = "register" THEN a.page ELSE stored.device, code |-> stored.code]
      BY DEF SignIn
    <2> QED BY <1>4, <2>1, <2>2
  <1>7. memory' \in [access : Token, refresh : Nat] /\ memory'.access = t /\ memory'.refresh = a.call
    BY <1>1, <1>3, <1>5
  <1>8. /\ stored' \in [user : Somebody, access : Token, refresh : Nat, device : Devices, code : Somebody]
        /\ stored'.user = a.user /\ stored'.access = t /\ stored'.refresh = a.call
        /\ stored'.device = device /\ stored'.code = stored.code
    <2>1. device \in Devices /\ stored.code \in Somebody /\ a.user \in Somebody
      BY <1>1, <1>4 DEF SessionInv, SessionTyped, Somebody
    <2> QED BY <1>1, <1>3, <1>6, <2>1
  <1>9. /\ drifted \subseteq drifted' /\ drifted' \subseteq {"asks", "tokens", "code"}
        /\ "tokens" \in drifted' => "tokens" \in drifted
        /\ "asks" \notin drifted' => asks = {a}
        /\ "code" \notin drifted' => screen = "login" \/ stored.code = "none"
    BY DEF SignIn, SessionInv, SessionTyped
  <1>10. \A b \in asks' : b \in asks /\ b.kind # "sign in"
    BY <1>1, <1>5 DEF SessionInv, SessionTyped
  <1>11. /\ ownDevice' \subseteq Users
         /\ \A u \in ownDevice' : u \in ownDevice \/ (a.what = "register" /\ u = a.user /\ account[u].device = a.page)
    BY <1>1 DEF SignIn, SessionInv, SessionTyped
  <1>12. SessionTyped'
    <2>1. \A b \in asks' : AskFits(b)'
      BY <1>5, <1>10, AskKept DEF SessionInv, SessionTyped
    <2>2. memory'.refresh <= made'
      BY <1>1, <1>5, <1>7
    <2>3. opened' \in Devices
      BY <1>5 DEF Devices
    <2> QED BY <1>5, <1>7, <1>8, <1>9, <1>10, <1>11, <2>1, <2>2, <2>3 DEF SessionInv, SessionTyped
  <1>13. StorageAgrees'
    BY <1>1, <1>3, <1>7, <1>8 DEF StorageAgrees
  <1>14. AsksAgree'
    BY <1>3, <1>5, <1>7, <1>8, <1>9 DEF AsksAgree
  <1>15. CodeAgrees'
    BY <1>8, <1>9 DEF SessionInv, CodeAgrees
  <1>16. NoRepeats'
    BY <1>5, <1>9, <1>10 DEF SessionInv, NoRepeats
  <1>17. DeviceKept'
    <2>1. a.what = "register" => a.page # << >> /\ (a.page = stored.device \/ ownDevice = {})
      BY <1>1 DEF SessionInv, DeviceKept
    <2>2. \A u \in ownDevice : stored.device = account[u].device /\ stored.device # << >>
      BY DEF SessionInv, DeviceKept
    <2>3. \A u \in ownDevice' : device = account[u].device /\ device # << >>
      BY <1>4, <1>11, <2>1, <2>2
    <2> QED BY <1>5, <1>8, <1>10, <2>3 DEF DeviceKept
  <1> QED BY <1>12, <1>13, <1>14, <1>15, <1>16, <1>17 DEF SessionInv

\* A request fails for good. A page that goes to the login page leaves behind what
\* drifted names.
LEMMA GiveUpStep ==
    ASSUME SessionInv, NEW a \in asks, GiveUp(a)
    PROVE  SessionInv'
  <1>1. /\ asks' \subseteq asks /\ UNCHANGED <<asked, typos, guesses, ownDevice>>
        /\ UNCHANGED <<account, calls, made>>
        /\ screen' = IF a.kind = "load" THEN "login" ELSE screen
        /\ opened' \in {opened, << >>}
        /\ \/ memory' = memory /\ stored' = stored
           \/ memory' = SignedOut /\ stored' = [stored EXCEPT !.access = NoToken, !.refresh = 0]
    BY DEF GiveUp, Drop, ForgetTokens, serverVars
  <1>2. NoToken \in Token
    BY DEF NoToken, Token, Somebody
  <1>3. made \in Nat
    BY DEF SessionInv, SessionTyped
  <1>4. /\ memory' \in [access : Token, refresh : Nat] /\ memory'.refresh <= made'
        /\ memory'.access # NoToken => memory'.access = memory.access
        /\ memory.refresh = 0 => memory'.refresh = 0
    <2>1. CASE memory' = memory
      BY <1>1, <2>1 DEF SessionInv, SessionTyped
    <2>2. CASE memory' = SignedOut
      <3>1. memory' \in [access : Token, refresh : Nat] /\ memory'.refresh = 0 /\ memory'.access = NoToken
        BY <1>2, <2>2 DEF SignedOut
      <3>2. memory'.refresh <= made'
        BY <1>1, <1>3, <3>1
      <3> QED BY <3>1, <3>2
    <2> QED BY <1>1, <2>1, <2>2
  <1>5. /\ stored' \in [user : Somebody, access : Token, refresh : Nat, device : Devices, code : Somebody]
        /\ stored'.user = stored.user /\ stored'.device = stored.device /\ stored'.code = stored.code
        /\ memory'.refresh = stored'.refresh
        /\ stored'.access = NoToken \/ (stored'.access = stored.access /\ stored'.refresh = stored.refresh)
    <2>1. CASE memory' = memory /\ stored' = stored
      BY <2>1 DEF SessionInv, SessionTyped, StorageAgrees
    <2>2. CASE memory' = SignedOut /\ stored' = [stored EXCEPT !.access = NoToken, !.refresh = 0]
      <3> DEFINE q == [stored EXCEPT !.access = NoToken]
      <3>1. q \in [user : Somebody, access : Token, refresh : Nat, device : Devices, code : Somebody]
            /\ q.access = NoToken /\ q.user = stored.user /\ q.device = stored.device /\ q.code = stored.code
        BY <1>2 DEF SessionInv, SessionTyped
      <3>2. stored' = [q EXCEPT !.refresh = 0]
        BY <2>2
      <3>3. memory'.refresh = 0
        BY <2>2 DEF SignedOut
      <3> HIDE DEF q
      <3> QED BY <3>1, <3>2, <3>3
    <2> QED BY <1>1, <2>1, <2>2
  <1>6. /\ drifted \subseteq drifted' /\ drifted' \subseteq {"asks", "tokens", "code"}
        /\ a.kind # "load" => drifted' = drifted
        /\ a.kind = "load" =>
             /\ stored'.code # "none" => "code" \in drifted'
             /\ asks' # {} => "asks" \in drifted'
             /\ memory'.refresh # 0 => "tokens" \in drifted'
    BY DEF GiveUp, LeftBehind, SessionInv, SessionTyped
  <1>7. SessionTyped'
    <2>1. \A b \in asks' : AskFits(b)'
      BY <1>1, AskKept DEF SessionInv, SessionTyped
    <2>2. << >> \in Devices
      BY DEF Devices
    <2> QED BY <1>1, <1>4, <1>5, <1>6, <2>1, <2>2 DEF SessionInv, SessionTyped
  <1>8. StorageAgrees'
    BY <1>5 DEF SessionInv, StorageAgrees
  <1>9. AsksAgree'
    BY <1>1, <1>4, <1>5, <1>6 DEF SessionInv, AsksAgree
  <1>10. CodeAgrees'
    BY <1>1, <1>5, <1>6 DEF SessionInv, CodeAgrees
  <1>11. NoRepeats'
    <2>1. CASE a.kind = "load"
      BY <1>1, <1>6, <2>1 DEF SessionInv, NoRepeats
    <2>2. CASE a.kind # "load"
      BY <1>1, <1>4, <1>6, <2>2 DEF SessionInv, NoRepeats
    <2> QED BY <2>1, <2>2
  <1>12. DeviceKept'
    BY <1>1, <1>5 DEF SessionInv, DeviceKept
  <1> QED BY <1>7, <1>8, <1>9, <1>10, <1>11, <1>12 DEF SessionInv

LEMMA ArrivalGrows ==
    ASSUME CallsTyped, NEW kind, NEW user, Arrives(kind, user)
    PROVE  CallsGrow
  <1>1. CallersKept
    BY ArrivesKeeps
  <1>2. made' \in Nat /\ made <= made'
    BY DEF CallsTyped, Arrives
  <1> QED BY <1>1, <1>2 DEF CallsGrow

\* What a request of the browser carries; the device id that goes with it.
LEMMA DeviceIds ==
    ASSUME SessionInv
    PROVE  /\ Device \in Devices /\ PageDevice \in Devices /\ PageDevice # << >> /\ Device # << >>
           /\ stored.device # << >> => Device = stored.device /\ PageDevice = stored.device
  <1>1. asked \in Nat /\ stored.device \in Devices
    BY DEF SessionInv, SessionTyped
  <1>2. /\ <<"client", asked>> \in {"client", "page", "phone"} \X Nat
        /\ <<"page", asked>> \in {"client", "page", "phone"} \X Nat
        /\ <<"client", asked>> # << >> /\ <<"page", asked>> # << >>
    BY <1>1
  <1> QED BY <1>1, <1>2 DEF Device, PageDevice, Devices

LEMMA SubmitsSignIn ==
    ASSUME ServerInv, NEW kind \in {"login", "register"}, NEW u \in Users, NEW right \in BOOLEAN,
           NEW device \in Devices, Submit(kind, u, [from |-> "pwa", device |-> device, right |-> right])
    PROVE  Arrives(kind, u)
  <1> DEFINE fields == [from |-> "pwa", device |-> device, right |-> right]
  <1>1. DOMAIN fields = {"from", "device", "right"} /\ fields["from"] = "pwa"
        /\ fields["device"] = device /\ fields["right"] = right
    OBVIOUS
  <1>2. kind \in CallKinds /\ u \in Somebody /\ "pwa" \in Callers
    BY DEF CallKinds, Somebody, Callers
  <1>3. Submit(kind, u, fields)
    OBVIOUS
  <1> HIDE DEF fields
  <1>4. fields["right"] \in BOOLEAN
    BY <1>1, Zenon
  <1>5. FieldsFit(fields)
    <2>1. fields["from"] \in Callers /\ fields["device"] \in Devices
      BY <1>1, <1>2
    <2>2. {"tier", "token", "wallet", "sets"} \cap DOMAIN fields = {} /\ DOMAIN fields \subseteq {"from", "device", "right"}
      BY <1>1
    <2> QED BY <1>4, <2>1, <2>2 DEF FieldsFit
  <1> QED BY <1>2, <1>3, <1>5, Submitted DEF ServerInv

LEMMA SubmitsRefresh ==
    ASSUME ServerInv, NEW user \in Somebody, NEW token \in Nat,
           Submit("refresh", user, [from |-> "pwa", token |-> token])
    PROVE  Arrives("refresh", user)
  <1> DEFINE fields == [from |-> "pwa", token |-> token]
  <1>1. DOMAIN fields = {"from", "token"} /\ fields["from"] = "pwa" /\ fields["token"] = token
    OBVIOUS
  <1>2. "refresh" \in CallKinds /\ "pwa" \in Callers
    BY DEF CallKinds, Callers
  <1>3. Submit("refresh", user, fields)
    OBVIOUS
  <1> HIDE DEF fields
  <1>4. FieldsFit(fields)
    <2>1. fields["from"] \in Callers /\ fields["token"] \in Nat
      BY <1>1, <1>2
    <2>2. DOMAIN fields \subseteq {"from", "token"}
          /\ {"tier", "device", "right", "wallet", "sets"} \cap DOMAIN fields = {}
      BY <1>1
    <2> QED BY <2>1, <2>2 DEF FieldsFit
  <1> QED BY <1>2, <1>3, <1>4, Submitted DEF ServerInv

LEMMA TapSubmitStep ==
    ASSUME ServerInv, SessionInv, TapSubmit,
           UNCHANGED <<account, wallets, tokens, wrong, mixed, upset, breaks, lapses>>
    PROVE  ServerInv' /\ SessionInv'
  <1>0. PICK page : page = opened'
    OBVIOUS
  <1>1. PICK u \in Users, right \in BOOLEAN, kind \in {"login", "register"} :
          /\ page \in IF kind = "register" THEN {PageDevice} \cup ({opened} \ {<< >>}) ELSE {<< >>}
          /\ Submit(kind, u, [from |-> "pwa", device |-> Device, right |-> right])
          /\ asks' = asks \cup {[kind |-> "sign in", what |-> kind, user |-> u, right |-> right,
                                 call |-> made', stage |-> "asked", with |-> NoToken,
                                 device |-> Device, page |-> page]}
          /\ typos' = IF right THEN typos ELSE [typos EXCEPT ![u] = @ + 1]
          /\ guesses' = IF right THEN guesses ELSE [guesses EXCEPT ![u] = @ + 1]
    BY <1>0 DEF TapSubmit
  <1>2. PICK device : device = Device
    OBVIOUS
  <1>3. device \in Devices /\ device # << >> /\ (stored.device # << >> => device = stored.device)
    BY <1>2, DeviceIds
  <1>4. /\ page \in Devices
        /\ kind = "register" => page # << >> /\ (page = device \/ ownDevice = {})
        /\ kind # "register" => page = << >>
    <2>1. opened \in Devices /\ << >> \in Devices
      BY DEF SessionInv, SessionTyped, Devices
    <2>2. stored.device = << >> => ownDevice = {}
      BY DEF SessionInv, DeviceKept
    <2>3. opened # << >> => opened = device \/ ownDevice = {}
      BY <1>3, <2>2 DEF SessionInv, DeviceKept
    <2>4. PageDevice \in Devices /\ PageDevice # << >> /\ (PageDevice = device \/ ownDevice = {})
      BY <1>3, <2>2, DeviceIds
    <2>5. CASE kind = "register"
      <3>1. page = PageDevice \/ (page = opened /\ opened # << >>)
        BY <1>1, <2>5
      <3> QED BY <2>1, <2>3, <2>4, <2>5, <3>1
    <2>6. CASE kind # "register"
      <3>1. page = << >>
        BY <1>1, <2>6
      <3> QED BY <2>1, <2>6, <3>1
    <2> QED BY <2>5, <2>6
  <1>5. /\ screen = "login" /\ asked' = asked + 1 /\ \A b \in asks : b.kind # "sign in"
        /\ stored' = [stored EXCEPT !.device = device]
        /\ UNCHANGED <<memory, screen, drifted, ownDevice, account>>
    BY <1>2 DEF TapSubmit, Waiting
  <1>6. Arrives(kind, u) /\ CallsTyped
    BY <1>1, <1>2, <1>3, SubmitsSignIn DEF ServerInv
  <1>7. ServerInv' /\ CallsGrow
    BY <1>6, ArrivalStep, ArrivalGrows
  <1>8. made' \in Nat /\ made' # 0
    BY <1>6 DEF Arrives, CallsTyped
  <1>9. PICK a : a = [kind |-> "sign in", what |-> kind, user |-> u, right |-> right,
                      call |-> made', stage |-> "asked", with |-> NoToken, device |-> device, page |-> page]
    OBVIOUS
  <1>10. a.kind = "sign in" /\ a.what = kind /\ a.user = u /\ a.call = made' /\ a.stage = "asked" /\ a.page = page
    BY <1>9
  <1>11. AskFits(a)'
    <2>1. NoToken \in Token /\ u \in Somebody
      BY DEF NoToken, Token, Somebody
    <2>2. a \in Ask
      BY <1>3, <1>4, <1>8, <1>9, <2>1 DEF Ask
    <2>3. a.call <= made'
      <3>1. a.call = made'
        BY <1>10
      <3> QED BY <1>8, <3>1
    <2> QED BY <1>8, <1>10, <2>2, <2>3 DEF AskFits
  <1>12. /\ asks' = asks \cup {a}
         /\ \A b \in asks : AskFits(b)' /\ (b.stage = "refresh" => calls'[b.call].user = calls[b.call].user)
    BY <1>1, <1>2, <1>6, <1>7, <1>9, AskStays DEF SessionInv, SessionTyped
  <1>13. /\ stored' \in [user : Somebody, access : Token, refresh : Nat, device : Devices, code : Somebody]
         /\ stored'.user = stored.user /\ stored'.access = stored.access /\ stored'.refresh = stored.refresh
         /\ stored'.device = device /\ stored'.code = stored.code
    BY <1>3, <1>5 DEF SessionInv, SessionTyped
  <1>14. /\ typos' \in [Users -> Nat] /\ guesses' \in [Users -> Nat]
         /\ (\A v \in Users : guesses[v] <= typos[v]) => \A v \in Users : guesses'[v] <= typos'[v]
    <2>1. typos \in [Users -> Nat] /\ guesses \in [Users -> Nat]
      BY DEF SessionInv, SessionTyped
    <2>2. CASE right
      BY <1>1, <2>1, <2>2
    <2>3. CASE ~ right
      <3>1. typos' = [typos EXCEPT ![u] = typos[u] + 1] /\ guesses' = [guesses EXCEPT ![u] = guesses[u] + 1]
        BY <1>1, <2>3
      <3> QED BY <2>1, <3>1
    <2> QED BY <2>2, <2>3
  <1>15. SessionTyped'
    <2>1. asked' \in Nat
      <3>1. asked \in Nat /\ asked' = asked + 1
        BY <1>5 DEF SessionInv, SessionTyped
      <3> QED BY <3>1
    <2>2. memory'.refresh <= made'
      <3>1. made \in Nat /\ memory.refresh \in Nat /\ memory.refresh <= made /\ made <= made'
            /\ memory'.refresh = memory.refresh
        BY <1>5, <1>7 DEF SessionInv, SessionTyped, CallsGrow
      <3> QED BY <1>8, <3>1
    <2>3. \A b, d \in asks' : b.kind = "sign in" /\ d.kind = "sign in" => b = d
      BY <1>5, <1>12
    <2>4. opened' \in Devices
      BY <1>0, <1>4
    <2>5. \A b \in asks' : AskFits(b)'
      BY <1>11, <1>12
    <2> QED BY <1>5, <1>8, <1>13, <1>14, <2>1, <2>2, <2>3, <2>4, <2>5 DEF SessionInv, SessionTyped
  <1>16. StorageAgrees' /\ CodeAgrees'
    BY <1>5, <1>13 DEF SessionInv, StorageAgrees, CodeAgrees
  <1>17. AsksAgree'
    BY <1>5, <1>10, <1>12, <1>13 DEF SessionInv, AsksAgree
  <1>18. NoRepeats'
    BY <1>5, <1>10, <1>12, <1>14 DEF SessionInv, NoRepeats
  <1>19. DeviceKept'
    <2>1. \A b \in asks' : b.kind = "sign in" => b = a
      BY <1>5, <1>12
    <2>2. \A v \in ownDevice : stored.device = account[v].device /\ stored.device # << >>
      BY DEF SessionInv, DeviceKept
    <2>3. stored'.device = device /\ device # << >> /\ opened' = page
          /\ ownDevice' = ownDevice /\ account' = account
      BY <1>0, <1>3, <1>5, <1>13
    <2> QED BY <1>3, <1>4, <1>10, <2>1, <2>2, <2>3 DEF DeviceKept
  <1> QED BY <1>7, <1>15, <1>16, <1>17, <1>18, <1>19 DEF SessionInv

\* A request that goes on stands for the one it was.
LEMMA Replaced ==
    ASSUME CallsTyped, SessionTyped, CallsGrow, NEW a \in asks, NEW b, AskFits(b)', b.kind = a.kind,
           asks' = (asks \ {a}) \cup {b}
    PROVE  /\ \A c \in asks' : AskFits(c)'
           /\ \A c, d \in asks' : c.kind = "sign in" /\ d.kind = "sign in" => c = d
           /\ \A c \in asks' : c = b \/ (c \in asks /\ (c.stage = "refresh" => calls'[c.call].user = calls[c.call].user))
           /\ b \in asks' /\ made' \in Nat /\ memory.refresh <= made'
  <1>1. \A c \in asks : AskFits(c)' /\ (c.stage = "refresh" => calls'[c.call].user = calls[c.call].user)
    BY AskStays DEF SessionTyped
  <1>2. \A c, d \in asks' : c.kind = "sign in" /\ d.kind = "sign in" => c = d
    BY DEF SessionTyped
  <1>3. made' \in Nat /\ memory.refresh <= made'
    <2>1. made \in Nat /\ memory.refresh \in Nat /\ memory.refresh <= made /\ made' \in Nat /\ made <= made'
      BY DEF SessionTyped, CallsGrow
    <2> QED BY <2>1
  <1> QED BY <1>1, <1>2, <1>3

LEMMA AskRefreshStep ==
    ASSUME ServerInv, SessionInv, NEW a \in asks, AskRefresh(a),
           UNCHANGED <<account, wallets, tokens, wrong, mixed, upset, breaks, lapses>>
    PROVE  ServerInv' /\ SessionInv'
  <1>1. /\ memory.refresh # 0 /\ Submit("refresh", stored.user, [from |-> "pwa", token |-> memory.refresh])
        /\ asks' = (asks \ {a}) \cup {[a EXCEPT !.stage = "refresh", !.call = made']}
        /\ UNCHANGED <<memory, stored, opened, screen, asked, typos, guesses, drifted, ownDevice, account>>
    BY DEF AskRefresh, Becomes
  <1>2. stored.user \in Somebody /\ memory.refresh \in Nat /\ AskFits(a) /\ a \in Ask
    BY DEF SessionInv, SessionTyped, AskFits
  <1>3. Arrives("refresh", stored.user) /\ CallsTyped
    BY <1>1, <1>2, SubmitsRefresh DEF ServerInv
  <1>4. ServerInv' /\ CallsGrow
    BY <1>1, <1>3, ArrivalStep, ArrivalGrows
  <1>5. made' \in Nat /\ made' # 0 /\ calls'[made'].kind = "refresh" /\ calls'[made'].user = stored.user
    BY <1>3 DEF Arrives, CallsTyped
  <1>6. PICK p : p = [a EXCEPT !.stage = "refresh"]
    OBVIOUS
  <1>7. p \in Ask /\ p.stage = "refresh" /\ p.kind = a.kind /\ p.user = a.user /\ p.what = a.what /\ p.page = a.page
    BY <1>2, <1>6 DEF Ask
  <1>8. PICK b : b = [p EXCEPT !.call = made']
    OBVIOUS
  <1>9. b \in Ask /\ b.stage = "refresh" /\ b.kind = a.kind /\ b.user = a.user /\ b.what = a.what /\ b.page = a.page
        /\ b.call = made'
    BY <1>5, <1>7, <1>8 DEF Ask
  <1>10. asks' = (asks \ {a}) \cup {b}
    BY <1>1, <1>6, <1>8
  <1>11. AskFits(b)'
    <2>1. b.call <= made'
      <3>1. b.call = made'
        BY <1>9
      <3> QED BY <1>5, <3>1
    <2> QED BY <1>2, <1>5, <1>9, <2>1 DEF AskFits
  <1>12. /\ \A c \in asks' : AskFits(c)'
         /\ \A c, d \in asks' : c.kind = "sign in" /\ d.kind = "sign in" => c = d
         /\ \A c \in asks' : c = b \/ (c \in asks /\ (c.stage = "refresh" => calls'[c.call].user = calls[c.call].user))
         /\ made' \in Nat /\ memory.refresh <= made'
    BY <1>3, <1>4, <1>9, <1>10, <1>11, Replaced DEF SessionInv
  <1>13. SessionTyped'
    BY <1>1, <1>12 DEF SessionInv, SessionTyped
  <1>14. StorageAgrees' /\ CodeAgrees'
    BY <1>1 DEF SessionInv, StorageAgrees, CodeAgrees
  <1>15. AsksAgree'
    BY <1>1, <1>5, <1>9, <1>12 DEF SessionInv, AsksAgree
  <1>16. NoRepeats'
    <2>1. "tokens" \notin drifted => a.kind # "sign in"
      BY <1>1 DEF SessionInv, NoRepeats
    <2> QED BY <1>1, <1>9, <1>12, <2>1 DEF SessionInv, NoRepeats
  <1>17. DeviceKept'
    <2>1. /\ DeviceKept /\ UNCHANGED <<stored, opened, ownDevice, account>>
          /\ \A c \in asks' : c = b \/ c \in asks
      BY <1>1, <1>12 DEF SessionInv
    <2>2. b.kind = a.kind /\ b.what = a.what /\ b.page = a.page
      BY <1>9
    <2> QED BY <2>1, <2>2 DEF DeviceKept
  <1> QED BY <1>4, <1>13, <1>14, <1>15, <1>16, <1>17 DEF SessionInv

\* The token that comes is of the user for whom it was asked.
LEMMA SendAgainStep ==
    ASSUME ServerInv, SessionInv, NEW a \in asks, SendAgain(a),
           UNCHANGED <<account, wallets, tokens, wrong, mixed, upset, breaks, lapses>>
    PROVE  ServerInv' /\ SessionInv'
  <1>1. AskFits(a) /\ a \in Ask /\ a.stage = "refresh" /\ calls[a.call].at = "ok"
    BY DEF SendAgain, SessionInv, SessionTyped, AskFits
  <1>2. a.call \in DOMAIN calls /\ calls[a.call].kind = "refresh"
    <2>1. a.call \in Nat /\ a.call <= made /\ a.call # 0 /\ made \in Nat /\ DOMAIN calls = 1 .. made
      <3>1. a.call \in Nat
        BY <1>1 DEF Ask
      <3> QED BY <1>1, <3>1 DEF AskFits, ServerInv, CallsTyped
    <2>2. a.call \in DOMAIN calls
      BY <2>1
    <2> QED BY <1>1, <2>2 DEF AskFits
  <1>3. PICK t : t = [user |-> tokens[calls[a.call].token].user, expired |-> FALSE]
    OBVIOUS
  <1>4. t \in Token /\ t.user = calls[a.call].user
    <2>1. /\ tokens[calls[a.call].token].user = calls[a.call].user
          /\ tokens[calls[a.call].token] \in TokenRow
      BY <1>1, <1>2 DEF ServerInv, TokensTrue
    <2>2. tokens[calls[a.call].token].user \in Somebody
      BY <2>1 DEF TokenRow, Somebody
    <2> QED BY <1>3, <2>1, <2>2 DEF Token
  <1>5. /\ memory' = [memory EXCEPT !.access = t]
        /\ UNCHANGED <<stored, opened, screen, asked, typos, drifted, ownDevice, account>>
    BY <1>3 DEF SendAgain
  <1>6. memory' \in [access : Token, refresh : Nat] /\ memory'.access = t /\ memory'.refresh = memory.refresh
    BY <1>4, <1>5 DEF SessionInv, SessionTyped
  <1>7. PICK p : p = [a EXCEPT !.stage = "asked"]
    OBVIOUS
  <1>8. p \in Ask /\ p.stage = "asked" /\ p.kind = a.kind /\ p.user = a.user /\ p.what = a.what /\ p.page = a.page
    BY <1>1, <1>7 DEF Ask
  <1>9. ASSUME NEW b, AskFits(b)', asks' = (asks \ {a}) \cup {b}, b.stage = "asked", b.kind = a.kind,
               b.user = a.user, b.what = a.what, b.page = a.page, CallsGrow, guesses' \in [Users -> Nat],
               a.kind # "sign in" => guesses' = guesses
        PROVE  SessionInv'
    <2>1. /\ \A c \in asks' : AskFits(c)'
          /\ \A c, d \in asks' : c.kind = "sign in" /\ d.kind = "sign in" => c = d
          /\ \A c \in asks' : c = b \/ (c \in asks /\ (c.stage = "refresh" => calls'[c.call].user = calls[c.call].user))
          /\ made' \in Nat /\ memory.refresh <= made'
      BY <1>9, Replaced DEF SessionInv, ServerInv
    <2>2. SessionTyped'
      BY <1>5, <1>6, <1>9, <2>1 DEF SessionInv, SessionTyped
    <2>3. StorageAgrees' /\ CodeAgrees'
      BY <1>5, <1>6 DEF SessionInv, StorageAgrees, CodeAgrees
    <2>4. AsksAgree'
      BY <1>1, <1>4, <1>5, <1>6, <1>9, <2>1 DEF SessionInv, AsksAgree
    <2>5. NoRepeats'
      <3>1. "tokens" \notin drifted => a.kind # "sign in"
        BY <1>1 DEF SessionInv, NoRepeats
      <3> QED BY <1>5, <1>6, <1>9, <2>1, <3>1 DEF SessionInv, NoRepeats
    <2>6. DeviceKept'
      BY <1>5, <1>9, <2>1 DEF SessionInv, DeviceKept
    <2> QED BY <2>2, <2>3, <2>4, <2>5, <2>6 DEF SessionInv
  <1>10. CASE a.kind = "sign in"
    <2>1. /\ Submit(a.what, a.user, [from |-> "pwa", device |-> a.device, right |-> a.right])
          /\ asks' = (asks \ {a}) \cup {[a EXCEPT !.stage = "asked", !.call = made']}
          /\ guesses' = IF a.right THEN guesses ELSE [guesses EXCEPT ![a.user] = @ + 1]
      BY <1>10 DEF SendAgain, Becomes
    <2>2. a.what \in {"login", "register"} /\ a.user \in Users /\ a.device \in Devices
      BY <1>1, <1>10 DEF AskFits, Ask
    <2>3. a.right \in BOOLEAN
      BY <1>1 DEF Ask
    <2>4. Arrives(a.what, a.user) /\ CallsTyped
      BY <2>1, <2>2, <2>3, SubmitsSignIn DEF ServerInv
    <2>5. ServerInv' /\ CallsGrow
      BY <2>4, ArrivalStep, ArrivalGrows
    <2>6. made' \in Nat /\ made' # 0
      BY <2>4 DEF Arrives, CallsTyped
    <2>7. PICK b : b = [p EXCEPT !.call = made']
      OBVIOUS
    <2>8. b \in Ask /\ b.stage = "asked" /\ b.kind = a.kind /\ b.user = a.user /\ b.what = a.what /\ b.page = a.page
          /\ b.call = made'
      BY <1>8, <2>6, <2>7 DEF Ask
    <2>9. asks' = (asks \ {a}) \cup {b}
      BY <1>7, <2>1, <2>7
    <2>10. AskFits(b)'
      <3>1. b.call <= made'
        <4>1. b.call = made'
          BY <2>8
        <4> QED BY <2>6, <4>1
      <3> QED BY <1>10, <2>2, <2>6, <2>8, <3>1 DEF AskFits
    <2>11. guesses' \in [Users -> Nat]
      <3>1. guesses \in [Users -> Nat]
        BY DEF SessionInv, SessionTyped
      <3>2. CASE a.right
        BY <2>1, <3>1, <3>2
      <3>3. CASE ~ a.right
        <4>1. guesses' = [guesses EXCEPT ![a.user] = guesses[a.user] + 1]
          BY <2>1, <3>3
        <4>2. guesses[a.user] + 1 \in Nat
          BY <2>2, <3>1
        <4> QED BY <3>1, <4>1, <4>2
      <3> QED BY <3>2, <3>3
    <2> QED BY <1>9, <1>10, <2>5, <2>8, <2>9, <2>10, <2>11
  <1>11. CASE a.kind # "sign in"
    <2>1. /\ asks' = (asks \ {a}) \cup {[a EXCEPT !.stage = "asked", !.call = 0, !.with = memory'.access]}
          /\ UNCHANGED <<calls, made, guesses>>
      BY <1>11 DEF SendAgain, Becomes
    <2>2. ServerInv'
      BY <2>1 DEF ServerInv, CallsTyped, AccountsTyped, TokensTrue, UserInv, NotYet, PinsCounted, OneFirst,
                  TierKnown, AllOfTier, LoggingIn, Registering, AtWallets
    <2>3. CallsGrow
      <3>1. made \in Nat
        BY DEF ServerInv, CallsTyped
      <3>2. made' \in Nat /\ made <= made'
        BY <2>1, <3>1
      <3> QED BY <2>1, <3>2 DEF CallsGrow, CallersKept
    <2>4. PICK q : q = [p EXCEPT !.call = 0]
      OBVIOUS
    <2>5. q \in Ask /\ q.stage = "asked" /\ q.kind = a.kind /\ q.user = a.user /\ q.what = a.what /\ q.page = a.page /\ q.call = 0
      BY <1>8, <2>4 DEF Ask
    <2>6. PICK b : b = [q EXCEPT !.with = t]
      OBVIOUS
    <2>7. b \in Ask /\ b.stage = "asked" /\ b.kind = a.kind /\ b.user = a.user /\ b.what = a.what /\ b.page = a.page
          /\ b.call = 0
      BY <1>4, <2>5, <2>6 DEF Ask
    <2>8. asks' = (asks \ {a}) \cup {b}
      BY <1>6, <1>7, <2>1, <2>4, <2>6
    <2>9. AskFits(b)'
      <3>1. b.call <= made'
        <4>1. b.call = 0 /\ made' \in Nat
          BY <2>3, <2>7 DEF CallsGrow
        <4> QED BY <4>1
      <3> QED BY <1>11, <2>7, <3>1 DEF AskFits
    <2>10. guesses' \in [Users -> Nat]
      BY <2>1 DEF SessionInv, SessionTyped
    <2> QED BY <1>9, <2>1, <2>2, <2>3, <2>7, <2>8, <2>9, <2>10
  <1> QED BY <1>10, <1>11

(***************************************************************************)
(* Accounts and sessions together.                                         *)
(***************************************************************************)
LEMMA ServerFrame ==
    ASSUME ServerInv, UNCHANGED serverVars
    PROVE  ServerInv'
  BY DEF serverVars, ServerInv, CallsTyped, AccountsTyped, TokensTrue, UserInv, NotYet, PinsCounted, OneFirst,
         TierKnown, AllOfTier, LoggingIn, Registering, AtWallets

LEMMA AskElsewhereStep ==
    ASSUME ServerInv, SessionInv, AskElsewhere, UNCHANGED pwaVars
    PROVE  ServerInv' /\ SessionInv'
  <1>1. UNCHANGED <<account, wallets, tokens, wrong, mixed, upset>>
    BY DEF AskElsewhere
  <1>2. PICK u \in Known, right \in BOOLEAN :
         \/ \E kind \in {"login", "bind", "agentLogin"} :
              Submit(kind, u, [from |-> kind, device |-> Elsewhere, right |-> right])
         \/ right /\ Submit("register", u, [from |-> "register", device |-> Elsewhere, right |-> right])
         \/ right /\ Submit("open", u, [from |-> "open"])
         \/ \E t \in Tiers : right /\ Submit("upgrade", u, [from |-> "upgrade", tier |-> t])
         \/ \E w \in {x.by : x \in wallets[u]} \cup {0}, sets \in Choices :
              right /\ Submit("limits", u, [from |-> "limits", wallet |-> w, sets |-> sets])
         \/ \E t \in DOMAIN tokens : right /\ Submit("logout", u, [from |-> "logout", token |-> t])
    BY DEF AskElsewhere
  <1>3. u \in Users /\ u \in Somebody
    BY IdentityAssumption DEF IdentityAssumption, Somebody
  <1>4. PICK device \in Devices : device = Elsewhere
    <2>1. <<"phone", 0>> \in {"client", "page", "phone"} \X Nat
      OBVIOUS
    <2> QED BY <2>1 DEF Elsewhere, Devices
  <1>5. ASSUME NEW kind \in CallKinds, NEW fields, FieldsFit(fields), Submit(kind, u, fields)
        PROVE  ServerInv' /\ SessionInv'
    <2>1. Arrives(kind, u) /\ CallsTyped
      BY <1>3, <1>5, Submitted DEF ServerInv
    <2>2. ServerInv' /\ CallsGrow
      BY <1>1, <2>1, ArrivalStep, ArrivalGrows
    <2> QED BY <1>1, <2>1, <2>2, GrowsUnderSession
  <1>6. ASSUME NEW kind \in {"login", "bind", "agentLogin", "register"},
               Submit(kind, u, [from |-> kind, device |-> device, right |-> right])
        PROVE  ServerInv' /\ SessionInv'
    <2> DEFINE fields == [from |-> kind, device |-> device, right |-> right]
    <2>1. DOMAIN fields = {"from", "device", "right"} /\ fields["from"] = kind
          /\ fields["device"] = device /\ fields["right"] = right
      OBVIOUS
    <2>2. kind \in CallKinds /\ kind \in Callers
      BY DEF CallKinds, Callers
    <2>3. Submit(kind, u, fields)
      BY <1>6
    <2> HIDE DEF fields
    <2>4. fields["right"] \in BOOLEAN
      BY <2>1, Zenon
    <2>5. FieldsFit(fields)
      <3>1. fields["from"] \in Callers /\ fields["device"] \in Devices
        BY <1>4, <2>1, <2>2
      <3>2. {"tier", "token", "wallet", "sets"} \cap DOMAIN fields = {} /\ DOMAIN fields \subseteq {"from", "device", "right"}
        BY <2>1
      <3> QED BY <2>4, <3>1, <3>2 DEF FieldsFit
    <2> QED BY <1>5, <2>2, <2>3, <2>5
  <1>7. ASSUME Submit("open", u, [from |-> "open"])
        PROVE  ServerInv' /\ SessionInv'
    <2>1. FieldsFit([from |-> "open"]) /\ "open" \in CallKinds
      BY DEF FieldsFit, CallKinds, Callers
    <2> QED BY <1>5, <1>7, <2>1
  <1>8. ASSUME NEW t \in Tiers, Submit("upgrade", u, [from |-> "upgrade", tier |-> t])
        PROVE  ServerInv' /\ SessionInv'
    <2>1. FieldsFit([from |-> "upgrade", tier |-> t]) /\ "upgrade" \in CallKinds
      BY DEF FieldsFit, CallKinds, Callers
    <2> QED BY <1>5, <1>8, <2>1
  <1>8a. ASSUME NEW w \in {x.by : x \in wallets[u]} \cup {0}, NEW sets \in Choices,
                Submit("limits", u, [from |-> "limits", wallet |-> w, sets |-> sets])
         PROVE  ServerInv' /\ SessionInv'
    <2>1. w \in Nat /\ sets \in SUBSET Limits
      BY <1>3, IdentityAssumption DEF IdentityAssumption, ServerInv, AccountsTyped, WalletRow
    <2>2. FieldsFit([from |-> "limits", wallet |-> w, sets |-> sets]) /\ "limits" \in CallKinds
      BY <2>1 DEF FieldsFit, CallKinds, Callers
    <2> QED BY <1>5, <1>8a, <2>2
  <1>9. ASSUME NEW t \in DOMAIN tokens, Submit("logout", u, [from |-> "logout", token |-> t])
        PROVE  ServerInv' /\ SessionInv'
    <2>1. t \in Nat
      <3>1. t \in 1 .. made /\ made \in Nat
        BY DEF ServerInv, TokensTrue, CallsTyped
      <3> QED BY <3>1
    <2>2. FieldsFit([from |-> "logout", token |-> t]) /\ "logout" \in CallKinds
      BY <2>1 DEF FieldsFit, CallKinds, Callers
    <2> QED BY <1>5, <1>9, <2>2
  <1> QED BY <1>2, <1>4, <1>6, <1>7, <1>8, <1>8a, <1>9

LEMMA PwaStep ==
    ASSUME ServerInv, SessionInv, PwaNext
    PROVE  ServerInv' /\ SessionInv'
  <1>1. ASSUME NEW kind \in {"load", "qr"}, Load(kind), UNCHANGED serverVars
        PROVE  ServerInv' /\ SessionInv'
    BY <1>1, LoadStep, ServerFrame
  <1>2. ASSUME PwaAsks, UNCHANGED <<account, wallets, tokens, wrong, mixed, upset, breaks, lapses>>
        PROVE  ServerInv' /\ SessionInv'
    BY <1>2, TapSubmitStep, AskRefreshStep, SendAgainStep DEF PwaAsks
  <1>3. ASSUME NEW a \in asks, SignIn(a) PROVE ServerInv' /\ SessionInv'
    <2>1. CallsTyped /\ UNCHANGED serverVars
      BY <1>3 DEF SignIn, ServerInv
    <2> QED BY <1>3, <2>1, SignInStep, ServerFrame
  <1>4. ASSUME NEW a \in asks, Loaded(a) PROVE ServerInv' /\ SessionInv'
    <2>1. UNCHANGED serverVars
      BY <1>4 DEF Loaded
    <2> QED BY <1>4, <2>1, LoadedStep, ServerFrame
  <1>5. ASSUME NEW a \in asks, Refused(a) \/ NoAnswer(a) PROVE ServerInv' /\ SessionInv'
    <2>1. GiveUp(a)
      BY <1>5 DEF Refused, NoAnswer
    <2>2. UNCHANGED serverVars
      BY <2>1 DEF GiveUp
    <2> QED BY <2>1, <2>2, GiveUpStep, ServerFrame
  <1>6. ASSUME SignOut PROVE ServerInv' /\ SessionInv'
    <2>1. UNCHANGED serverVars
      BY <1>6 DEF SignOut
    <2> QED BY <1>6, <2>1, SignOutStep, ServerFrame
  <1>7. ASSUME EnterPage PROVE ServerInv' /\ SessionInv'
    <2>1. UNCHANGED serverVars
      BY <1>7 DEF EnterPage
    <2> QED BY <1>7, <2>1, EnterPageStep, ServerFrame
  <1>8. ASSUME ExpireAccess PROVE ServerInv' /\ SessionInv'
    <2>1. UNCHANGED serverVars
      BY <1>8 DEF ExpireAccess
    <2> QED BY <1>8, <2>1, ExpireAccessStep, ServerFrame
  <1> QED BY <1>1, <1>2, <1>3, <1>4, <1>5, <1>6, <1>7, <1>8 DEF PwaNext

LEMMA SessionBegins ==
    ASSUME Init
    PROVE  SessionInv
  <1> USE DEF Init, AuthInit, PwaInit
  <1>1. NoToken \in Token /\ << >> \in Devices /\ "none" \in Somebody /\ opened = << >>
    BY DEF NoToken, Token, Somebody, Devices
  <1>2. memory \in [access : Token, refresh : Nat] /\ memory.refresh = 0 /\ memory.access = NoToken
    BY <1>1 DEF SignedOut
  <1>3. /\ stored \in [user : Somebody, access : Token, refresh : Nat, device : Devices, code : Somebody]
        /\ stored.access = NoToken /\ stored.refresh = 0 /\ stored.code = "none"
    BY <1>1 DEF Empty
  <1>4. typos \in [Users -> Nat] /\ guesses \in [Users -> Nat] /\ \A u \in Users : guesses[u] <= typos[u]
    OBVIOUS
  <1>5. memory.refresh <= made
    BY <1>2
  <1>6. SessionTyped
    BY <1>1, <1>2, <1>3, <1>4, <1>5 DEF SessionTyped
  <1>7. StorageAgrees /\ AsksAgree /\ CodeAgrees
    BY <1>2, <1>3 DEF StorageAgrees, AsksAgree, CodeAgrees
  <1>8. NoRepeats /\ DeviceKept
    BY <1>1, <1>2, <1>4 DEF NoRepeats, DeviceKept
  <1> QED BY <1>6, <1>7, <1>8 DEF SessionInv

LEMMA IdentityStep ==
    ASSUME ServerInv, SessionInv, [Next]_vars
    PROVE  ServerInv' /\ SessionInv'
  <1>1. CASE PwaNext
    BY <1>1, PwaStep
  <1>2. CASE AskElsewhere /\ UNCHANGED pwaVars
    BY <1>2, AskElsewhereStep
  <1>3. CASE ServerNext /\ LoseDevice /\ UNCHANGED <<memory, stored, opened, screen, asks, asked, typos, guesses, drifted>>
    BY <1>3, ServerStep, ServerUnderSession
  <1>4. CASE UNCHANGED vars
    <2>1. UNCHANGED serverVars /\ UNCHANGED <<account, pwaVars>>
      BY <1>4 DEF vars, serverVars
    <2>2. CallsGrow /\ CallsTyped
      <3>1. made \in Nat /\ made' = made /\ calls' = calls
        BY <2>1 DEF serverVars, ServerInv, CallsTyped
      <3>2. made' \in Nat /\ made <= made'
        BY <3>1
      <3> QED BY <3>1, <3>2 DEF CallsGrow, CallersKept, ServerInv
    <2> QED BY <2>1, <2>2, ServerFrame, GrowsUnderSession
  <1> QED BY <1>1, <1>2, <1>3, <1>4 DEF Next

\* What the statements of the services and the pages keep, in every state.
THEOREM IdentityKept == Spec => [](ServerInv /\ SessionInv)
  <1>1. Init => ServerInv /\ SessionInv
    BY ServerBegins, SessionBegins DEF Init
  <1>2. (ServerInv /\ SessionInv) /\ [Next]_vars => (ServerInv /\ SessionInv)'
    BY IdentityStep
  <1> QED BY <1>1, <1>2, PTL DEF Spec

(***************************************************************************)
(* The properties.                                                         *)
(***************************************************************************)
\* Wrong PINs one after the other are all counted, and as many as the limit have
\* locked the account, whatever the services do in between and wherever they are
\* interrupted; with one PIN on its way, the count it has read is still that of the
\* account, and this is what the next state needs.
THEOREM PinsLock == Spec => []WrongPinsLock
  <1>1. ServerInv /\ SessionInv => WrongPinsLock
    <2> SUFFICES ASSUME ServerInv, NEW u \in Users \ mixed, UnderWay(u, {"login"}) = {}
                 PROVE  /\ account[u].failed = wrong[u]
                        /\ wrong[u] >= PinLimit => account[u].lock # "open"
      BY DEF WrongPinsLock
    <2>1. \A c : ~ LoggingIn(c, u)
      BY DEF UnderWay, LoggingIn, Finished
    <2> QED BY <2>1 DEF ServerInv, UserInv, PinsCounted
  <1> QED BY <1>1, IdentityKept, PTL

\* A user is registered once, with one first wallet and, when the registration was
\* answered, its token: of the registrations that found the phone number free only one
\* creates the user and goes on.
THEOREM OneRegistration == Spec => []RegisteredOnce
  <1>1. ServerInv /\ SessionInv => RegisteredOnce
    <2> SUFFICES ASSUME ServerInv, NEW u \in Users
                 PROVE  /\ Cardinality({w \in wallets[u] : w.first}) <= 1
                        /\ account[u].is /\ u \notin upset /\ UnderWay(u, {"register"}) = {} =>
                             \E w \in {w \in wallets[u] : w.first} : w.by \in DOMAIN tokens /\ tokens[w.by].user = u
      BY DEF RegisteredOnce
    <2> DEFINE firsts == {w \in wallets[u] : w.first}
    <2>1. OneFirst(u)
      BY DEF ServerInv, UserInv
    <2>2. Cardinality(firsts) <= 1
      <3>1. CASE firsts = {}
        <4>1. Cardinality(firsts) = 0
          BY <3>1, FS_EmptySet
        <4> QED BY <4>1
      <3>2. CASE firsts # {}
        <4>1. PICK w : firsts = {w}
          BY <2>1, <3>2 DEF OneFirst
        <4>2. Cardinality(firsts) = 1
          BY <4>1, FS_Singleton
        <4> QED BY <4>2
      <3> QED BY <3>1, <3>2
    <2>3. ASSUME account[u].is, u \notin upset, UnderWay(u, {"register"}) = {}
          PROVE  \E w \in firsts : w.by \in DOMAIN tokens /\ tokens[w.by].user = u
      <3>1. \A c : ~ Registering(c, u)
        BY <2>3 DEF UnderWay, Registering, Finished
      <3>2. PICK w \in wallets[u] : w.first /\ w.by \in DOMAIN tokens
        BY <2>1, <2>3, <3>1 DEF OneFirst
      <3>3. calls[w.by].user = u /\ tokens[w.by].user = calls[w.by].user
        BY <2>1, <3>2 DEF OneFirst, ServerInv, TokensTrue
      <3> QED BY <3>2, <3>3
    <2> QED BY <2>2, <2>3
  <1> QED BY <1>1, IdentityKept, PTL

\* A user and the wallets are of one tier when nobody is at them, and the limits that go
\* with a tier are those of the tier or such as an agent has set since: a handler that was
\* alone wrote what it had read, or the tier it had given the user.
THEOREM OneTier == Spec => []TiersAgree
  <1>1. ServerInv /\ SessionInv => TiersAgree
    <2> SUFFICES ASSUME ServerInv, NEW u \in Users \ upset, UnderWay(u, WalletWork) = {}
                 PROVE  \A w \in wallets[u] : w.tier = account[u].tier /\ LimitsFit(w.limits, account[u].tier)
      BY DEF TiersAgree
    <2>1. \A c : ~ AtWallets(c, u)
      BY DEF UnderWay, AtWallets, Registering, WalletWork, Finished
    <2> QED BY <2>1 DEF ServerInv, UserInv, TierKnown, AllOfTier
  <1> QED BY <1>1, IdentityKept, PTL

\* The pages act for the user who is signed in, in whatever order requests, refreshes,
\* sign-ins and sign-outs follow each other.
THEOREM PagesAreTheUsers == Spec => []PagesActForTheUser
  <1>1. ServerInv /\ SessionInv => PagesActForTheUser
    BY DEF SessionInv, AsksAgree, CodeAgrees, PagesActForTheUser
  <1> QED BY <1>1, IdentityKept, PTL

\* A PIN is sent once for each time it is typed, as long as no page has left tokens in
\* memory at the login page: without a refresh token the interceptor repeats nothing.
THEOREM OneTryEach == Spec => []TypedOnceTriedOnce
  <1>1. ServerInv /\ SessionInv => TypedOnceTriedOnce
    BY DEF SessionInv, NoRepeats, TypedOnceTriedOnce
  <1> QED BY <1>1, IdentityKept, PTL

\* A browser that had its device id when its register page was opened has that of the
\* account registered there, until its storage is cleared or another device is bound, and
\* the states are well typed.
THEOREM BrowserIsKnown == Spec => []OwnBrowserIsKnown
  <1>1. ServerInv /\ SessionInv => OwnBrowserIsKnown
    <2> SUFFICES ASSUME ServerInv, SessionInv PROVE OwnBrowserIsKnown
      OBVIOUS
    <2>1. ASSUME NEW u \in Users
          PROVE  /\ account[u].tier \in Tiers /\ account[u].failed \in Nat
                 /\ account[u].lock \in {"open", "locked", "lapsed"}
                 /\ \A w \in wallets[u] : w.tier \in Tiers /\ \A k \in Limits : w.limits[k] \in Tiers \cup {Chosen}
      BY DEF ServerInv, AccountsTyped, AccountRow, WalletRow, LimitRow
    <2>2. made \in 0 .. MaxCalls /\ DOMAIN calls = 1 .. made
      <3>1. made \in Nat /\ made <= MaxCalls /\ MaxCalls \in Nat /\ DOMAIN calls = 1 .. made
        BY AuthAssumption DEF AuthAssumption, ServerInv, CallsTyped
      <3> QED BY <3>1
    <2>3. DOMAIN tokens \subseteq 1 .. made
      BY <2>2 DEF ServerInv, TokensTrue
    <2>4. memory.refresh \in 0 .. made /\ stored.refresh \in 0 .. made
      <3>1. made \in Nat /\ memory.refresh \in Nat /\ memory.refresh <= made /\ stored.refresh = memory.refresh
        BY DEF SessionInv, SessionTyped, StorageAgrees
      <3> QED BY <3>1
    <2>5. screen \in {"login", "home"} /\ ownDevice \subseteq Users /\ drifted \subseteq {"asks", "tokens", "code"}
      BY DEF SessionInv, SessionTyped
    <2>6. \A u \in ownDevice : stored.device = account[u].device
      BY DEF SessionInv, DeviceKept
    <2> QED BY <2>1, <2>2, <2>3, <2>4, <2>5, <2>6 DEF OwnBrowserIsKnown, TypeOK
  <1> QED BY <1>1, IdentityKept, PTL
=============================================================================
