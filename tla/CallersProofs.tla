----------------------------- MODULE CallersProofs -----------------------------
(***************************************************************************)
(* Theorems about those who ask the money-moving services for something,   *)
(* for any pages, submissions, products, numbers, codes and bounds: a      *)
(* small inductive invariant for each of them. They share the requests,    *)
(* and what one relies on is that a settled request stays settled.         *)
(***************************************************************************)
EXTENDS Callers, Sequences, FiniteSetTheorems, TLAPS

(***************************************************************************)
(* The requests.                                                           *)
(***************************************************************************)
Stages == {"sent", "settled", "refused", "gone"}
Request == [amount : Nat, fit : BOOLEAN, stage : Stages]
RequestsTyped == \A k \in DOMAIN requests : requests[k] \in Request

\* What becomes of one request: it is sent where it was not or had been refused or
\* lost, or it gets an answer.
Sent(key) == Stage(key)' = "sent" /\ Stage(key) \notin {"sent", "settled"}
Answered(key) == Stage(key) = "sent" /\ Stage(key)' \in {"settled", "refused", "gone"}
Kept(key) == Stage(key)' = Stage(key)

LEMMA AskedIsSent ==
    ASSUME NEW amount \in Nat, NEW fit \in BOOLEAN
    PROVE  Asked(amount, fit) \in Request /\ Asked(amount, fit).stage = "sent"
  BY DEF Asked, Request, Stages

\* Each of the three ways in which requests change leaves them well typed, and sends or
\* answers one of them.
LEMMA SendKinds ==
    ASSUME RequestsTyped, NEW key, NEW r \in Request, r.stage = "sent",
           requests' = WithEntry(requests, key, r), NEW other
    PROVE  /\ RequestsTyped'
           /\ Kept(other) \/ (other = key /\ Sent(key))
  <1>1. /\ DOMAIN requests' = DOMAIN requests \cup {key}
        /\ \A k \in DOMAIN requests : requests'[k] = requests[k]
        /\ key \notin DOMAIN requests => requests'[key] = r
    BY DEF WithEntry
  <1> QED BY <1>1 DEF RequestsTyped, Kept, Sent, Stage

LEMMA SendAgainKinds ==
    ASSUME RequestsTyped, NEW key, NEW r \in Request, r.stage = "sent", NEW other,
           requests' = IF key \in DOMAIN requests /\ requests[key].stage \in {"sent", "settled"}
                         THEN requests ELSE SetEntry(requests, key, r)
    PROVE  /\ RequestsTyped'
           /\ Kept(other) \/ (other = key /\ Sent(key))
  <1>1. CASE requests' = requests
    BY <1>1 DEF RequestsTyped, Kept, Stage
  <1>2. CASE ~ (key \in DOMAIN requests /\ requests[key].stage \in {"sent", "settled"})
    <2>1. requests' = SetEntry(requests, key, r)
      BY <1>2
    <2>2. /\ DOMAIN requests' = DOMAIN requests \cup {key}
          /\ \A k \in DOMAIN requests \ {key} : requests'[k] = requests[k]
          /\ requests'[key] = r
      BY <2>1 DEF SetEntry
    <2> QED BY <1>2, <2>2 DEF RequestsTyped, Kept, Sent, Stage
  <1> QED BY <1>1, <1>2

LEMMA ReachKinds ==
    ASSUME RequestsTyped, NEW key \in DOMAIN requests, NEW stage \in {"settled", "refused", "gone"},
           Reach(key, stage), NEW other
    PROVE  /\ RequestsTyped'
           /\ Kept(other) \/ (other = key /\ Answered(key))
  <1>1. requests[key] \in Request
    BY DEF RequestsTyped
  <1>2. /\ DOMAIN requests' = DOMAIN requests
        /\ \A k \in DOMAIN requests \ {key} : requests'[k] = requests[k]
        /\ requests'[key] = [requests[key] EXCEPT !.stage = stage]
    BY DEF Reach
  <1>3. requests'[key] \in Request /\ requests'[key].stage = stage
    BY <1>1, <1>2 DEF Request, Stages
  <1>4. RequestsTyped'
    BY <1>2, <1>3 DEF RequestsTyped
  <1>5. CASE other = key
    BY <1>2, <1>3, <1>4, <1>5 DEF Answered, Stage, Reach
  <1>6. CASE other # key
    BY <1>2, <1>4, <1>6 DEF Kept, Stage
  <1> QED BY <1>5, <1>6

(***************************************************************************)
(* The pages.                                                              *)
(***************************************************************************)
PageState ==
    [step : {"entry", "confirm", "processing", "success", "error"}, draft : Nat, taps : Nat,
     waiting : BOOLEAN, says : {"nothing", "sent", "failed"}]
PagesTyped == page \in [Sessions -> PageState]

\* What is said as sent is on the page of success, and the last tap has settled.
PagesTruthful ==
    \A s \in Sessions : page[s].says = "sent" => page[s].step = "success" /\ Stage(Key(s)) = "settled"

\* What an action turns on a page, field by field.
Now(s, fields, name) == IF name \in DOMAIN fields THEN fields[name] ELSE page[s][name]

LEMMA Turning ==
    ASSUME PagesTyped, NEW s \in Sessions, NEW fields, Turn(s, fields)
    PROVE  /\ \A t \in Sessions \ {s} : page'[t] = page[t]
           /\ \A name \in {"step", "draft", "taps", "waiting", "says"} : page'[s][name] = Now(s, fields, name)
           /\ page'[s] \in PageState => PagesTyped'
           /\ /\ Now(s, fields, "step") \in {"entry", "confirm", "processing", "success", "error"}
              /\ Now(s, fields, "draft") \in Nat /\ Now(s, fields, "taps") \in Nat
              /\ Now(s, fields, "waiting") \in BOOLEAN
              /\ Now(s, fields, "says") \in {"nothing", "sent", "failed"}
              => PagesTyped'
  <1> DEFINE names == {"step", "draft", "taps", "waiting", "says"}
  <1>1. DOMAIN page[s] = names /\ page \in [Sessions -> PageState]
    BY DEF PagesTyped, PageState
  <1>2. page' = [page EXCEPT ![s] = [name \in names |-> Now(s, fields, name)]]
    BY <1>1 DEF Turn, WithFields, Now
  <1>3. page'[s] = [name \in names |-> Now(s, fields, name)] /\ \A t \in Sessions \ {s} : page'[t] = page[t]
    BY <1>1, <1>2
  <1>4. page'[s] \in PageState => PagesTyped'
    BY <1>1, <1>2, <1>3 DEF PagesTyped
  <1>5. \A name \in names : page'[s][name] = Now(s, fields, name)
    BY <1>3
  <1>6. ASSUME Now(s, fields, "step") \in {"entry", "confirm", "processing", "success", "error"},
               Now(s, fields, "draft") \in Nat, Now(s, fields, "taps") \in Nat,
               Now(s, fields, "waiting") \in BOOLEAN,
               Now(s, fields, "says") \in {"nothing", "sent", "failed"}
        PROVE  page'[s] \in PageState
    <2> DEFINE f[name \in names] == Now(s, fields, name)
    <2>1. f \in PageState
      BY <1>6 DEF PageState
    <2> QED BY <1>3, <2>1
  <1> QED BY <1>3, <1>4, <1>5, <1>6

\* A page on which something happens: the others stay, and this one has a new state.
Moves(s) ==
    /\ PagesTyped'
    /\ \A t \in Sessions \ {s} : page'[t] = page[t]

Truthful(s) == page[s].says = "sent" => page[s].step = "success" /\ Stage(Key(s)) = "settled"

LEMMA PageFields ==
    ASSUME PagesTyped, NEW s \in Sessions
    PROVE  /\ page[s].step \in {"entry", "confirm", "processing", "success", "error"}
           /\ page[s].draft \in Nat /\ page[s].taps \in Nat /\ page[s].waiting \in BOOLEAN
           /\ page[s].says \in {"nothing", "sent", "failed"}
  BY DEF PagesTyped, PageState

LEMMA ComposeTurns ==
    ASSUME PagesTyped, NEW s \in Sessions, Compose(s)
    PROVE  Moves(s) /\ page'[s].says # "sent"
  <1>1. PICK a \in Amounts : Turn(s, [step |-> "confirm", draft |-> a, says |-> "nothing"])
    BY DEF Compose
  <1> DEFINE F == [step |-> "confirm", draft |-> a, says |-> "nothing"]
  <1>2. /\ Now(s, F, "step") = "confirm" /\ Now(s, F, "draft") = a /\ Now(s, F, "says") = "nothing"
        /\ Now(s, F, "taps") = page[s].taps /\ Now(s, F, "waiting") = page[s].waiting
    BY DEF Now
  <1>3. a \in Nat /\ Turn(s, F)
    BY <1>1, ClientAssumption DEF ClientAssumption
  <1> HIDE DEF F
  <1> QED BY <1>2, <1>3, PageFields, Turning DEF Moves

LEMMA RetypeTurns ==
    ASSUME PagesTyped, NEW s \in Sessions, Retype(s), Truthful(s)
    PROVE  Moves(s) /\ page'[s].says # "sent"
  <1>1. PICK a \in Amounts : Turn(s, [draft |-> a])
    BY DEF Retype
  <1> DEFINE F == [draft |-> a]
  <1>2. /\ Now(s, F, "step") = page[s].step /\ Now(s, F, "draft") = a /\ Now(s, F, "says") = page[s].says
        /\ Now(s, F, "taps") = page[s].taps /\ Now(s, F, "waiting") = page[s].waiting
    BY DEF Now
  <1>3. a \in Nat /\ Turn(s, F) /\ page[s].step \in {"confirm", "processing"}
    BY <1>1, ClientAssumption DEF ClientAssumption, Retype
  <1> HIDE DEF F
  <1> QED BY <1>2, <1>3, PageFields, Turning DEF Moves, Truthful

\* "Back", "Try again" and "Done" lead to a page that says nothing.
LEMMA ClearTurns ==
    ASSUME PagesTyped, NEW s \in Sessions, NEW step \in {"entry", "confirm"},
           Turn(s, [step |-> step, says |-> "nothing"])
    PROVE  Moves(s) /\ page'[s].says # "sent"
  <1> DEFINE F == [step |-> step, says |-> "nothing"]
  <1>2. /\ Now(s, F, "step") = step /\ Now(s, F, "draft") = page[s].draft /\ Now(s, F, "says") = "nothing"
        /\ Now(s, F, "taps") = page[s].taps /\ Now(s, F, "waiting") = page[s].waiting
    BY DEF Now
  <1>3. Turn(s, F)
    OBVIOUS
  <1> HIDE DEF F
  <1> QED BY <1>2, <1>3, PageFields, Turning DEF Moves

LEMMA TapTurns ==
    ASSUME PagesTyped, NEW s \in Sessions, Tap(s), Truthful(s)
    PROVE  Moves(s) /\ page'[s].says # "sent"
  <1> DEFINE step == IF KindOf[s] = "scan" THEN "processing" ELSE "confirm"
             F == [step |-> step, taps |-> page[s].taps + 1, waiting |-> TRUE]
  <1>2. /\ Now(s, F, "step") = step /\ Now(s, F, "draft") = page[s].draft
        /\ Now(s, F, "says") = page[s].says
        /\ Now(s, F, "taps") = page[s].taps + 1 /\ Now(s, F, "waiting") = TRUE
    BY DEF Now
  <1>3. Turn(s, F) /\ page[s].step = "confirm" /\ step \in {"processing", "confirm"}
    BY DEF Tap
  <1> HIDE DEF F, step
  <1>4. page[s].taps \in Nat /\ page[s].draft \in Nat
    BY PageFields
  <1>6. page[s].taps + 1 \in Nat
    BY <1>4
  <1>5. page[s].says \in {"nothing", "failed"}
    BY <1>3, PageFields DEF Truthful
  <1> QED BY <1>2, <1>3, <1>4, <1>5, <1>6, Turning DEF Moves

LEMMA ErrorTurns ==
    ASSUME PagesTyped, NEW s \in Sessions, ShowError(s)
    PROVE  Moves(s) /\ page'[s].says # "sent"
  <1> DEFINE F == [step |-> "error", waiting |-> FALSE, says |-> "failed"]
  <1>2. /\ Now(s, F, "step") = "error" /\ Now(s, F, "draft") = page[s].draft
        /\ Now(s, F, "says") = "failed"
        /\ Now(s, F, "taps") = page[s].taps /\ Now(s, F, "waiting") = FALSE
    BY DEF Now
  <1>3. Turn(s, F)
    BY DEF ShowError
  <1> HIDE DEF F
  <1> QED BY <1>2, <1>3, PageFields, Turning DEF Moves

LEMMA HearTurns ==
    ASSUME PagesTyped, NEW s \in Sessions, Hear(s)
    PROVE  Moves(s) /\ Truthful(s)'
  <1> DEFINE says == IF KindOf[s] = "cash" /\ page[s].step = "entry" THEN "nothing" ELSE "sent"
             F == [step |-> "success", waiting |-> FALSE, says |-> says]
  <1>1. CASE Stage(Key(s)) = "settled" /\ Turn(s, F)
    <2>2. /\ Now(s, F, "step") = "success" /\ Now(s, F, "draft") = page[s].draft
          /\ Now(s, F, "says") = says
          /\ Now(s, F, "taps") = page[s].taps /\ Now(s, F, "waiting") = FALSE
      BY DEF Now
    <2>3. Turn(s, F) /\ says \in {"nothing", "sent"} /\ requests' = requests /\ Stage(Key(s)) = "settled"
      BY <1>1 DEF Hear
    <2> HIDE DEF F, says
    <2>4. Moves(s) /\ page'[s].step = "success" /\ page'[s].taps = page[s].taps
      BY <2>2, <2>3, PageFields, Turning DEF Moves
    <2> QED BY <2>3, <2>4 DEF Truthful, Stage, Key
  <1>2. CASE Stage(Key(s)) = "refused" /\ ShowError(s)
    BY <1>2, ErrorTurns DEF Truthful
  <1> QED BY <1>1, <1>2 DEF Hear

LEMMA PagesStep ==
    ASSUME RequestsTyped, PagesTyped, PagesTruthful, NEW s \in Sessions,
           \/ Compose(s) \/ Retype(s) \/ Back(s) \/ Tap(s) \/ Hear(s)
           \/ OwnTimeout(s) \/ GatewayTimeout(s) \/ TryAgain(s) \/ Finish(s)
    PROVE  /\ RequestsTyped' /\ PagesTyped' /\ PagesTruthful'
           /\ \A k : Kept(k) \/ (k \in Sessions \X Nat /\ Sent(k))
  <1> DEFINE mine == \A k : Kept(k) \/ (k \in Sessions \X Nat /\ Sent(k))
  <1>0. Truthful(s)
    BY DEF PagesTruthful, Truthful
  <1>1. Moves(s) /\ Truthful(s)'
    <2>1. CASE Compose(s)
      BY <2>1, ComposeTurns DEF Truthful
    <2>2. CASE Retype(s)
      BY <1>0, <2>2, RetypeTurns DEF Truthful
    <2>3. CASE Back(s)
      BY <2>3, ClearTurns DEF Truthful, Back
    <2>4. CASE Tap(s)
      BY <1>0, <2>4, TapTurns DEF Truthful
    <2>5. CASE Hear(s)
      BY <2>5, HearTurns
    <2>6. CASE OwnTimeout(s) \/ GatewayTimeout(s)
      BY <2>6, ErrorTurns DEF Truthful, OwnTimeout, GatewayTimeout
    <2>7. CASE TryAgain(s)
      BY <2>7, ClearTurns DEF Truthful, TryAgain
    <2>8. CASE Finish(s)
      BY <2>8, ClearTurns DEF Truthful, Finish
    <2> QED BY <2>1, <2>2, <2>3, <2>4, <2>5, <2>6, <2>7, <2>8
  <1>2. RequestsTyped' /\ mine
    <2>1. CASE requests' = requests
      BY <2>1 DEF RequestsTyped, Kept, Stage
    <2>2. CASE Tap(s)
      <3>1. page[s].taps \in Nat /\ page[s].draft \in Nat
        BY PageFields
      <3> DEFINE r == Asked(page[s].draft, KindOf[s] # "send")
      <3>2. r \in Request /\ r.stage = "sent"
        BY <3>1, AskedIsSent
      <3>3. requests' = WithEntry(requests, <<s, page[s].taps + 1>>, r)
        BY <2>2 DEF Tap, Send
      <3>4. <<s, page[s].taps + 1>> \in Sessions \X Nat
        BY <3>1
      <3> HIDE DEF r
      <3> QED BY <3>2, <3>3, <3>4, SendKinds
    <2> QED BY <2>1, <2>2 DEF Compose, Retype, Back, Hear, OwnTimeout, GatewayTimeout, TryAgain, Finish
  <1>3. PagesTruthful'
    <2>1. SUFFICES ASSUME NEW t \in Sessions PROVE Truthful(t)'
      BY DEF PagesTruthful, Truthful
    <2>2. CASE t = s
      BY <1>1, <2>2
    <2>3. CASE t # s
      <3>1. page'[t] = page[t] /\ Truthful(t)
        BY <1>1, <2>3 DEF Moves, PagesTruthful, Truthful
      <3>2. Stage(Key(t)) = "settled" => Stage(Key(t))' = "settled"
        BY <1>2, <3>1 DEF Kept, Sent, Stage, Key
      <3> QED BY <3>1, <3>2 DEF Truthful
    <2> QED BY <2>2, <2>3
  <1> QED BY <1>1, <1>2, <1>3 DEF Moves

(***************************************************************************)
(* The app. A chain is alive while a handler will speak for it or the      *)
(* screen shows it. What is alive and was not crossed carries the pending  *)
(* key, whatever order the handlers end in; and a chain that is not alive  *)
(* never comes back.                                                       *)
(***************************************************************************)
AppKeys == ({"app"} \X Nat) \cup {<< >>}
Entered == Intents \cup {"none"}
BlocState == [state : {"entry", "ready", "processing", "failed"}, id : Nat,
              intent : Entered, chain : Nat, key : AppKeys]
PendingKey == [intent : Entered, chain : Nat, key : AppKeys]
OpeningHandler == [id : Nat, intent : Entered, chain : Nat]
PayingHandler == [id : Nat, intent : Entered, chain : Nat, key : AppKeys, tries : Nat]

AppTyped ==
    /\ bloc \in BlocState /\ pending \in PendingKey
    /\ opening \subseteq OpeningHandler /\ paying \subseteq PayingHandler
    /\ openings \in Nat

Alive(c) == c = bloc.chain \/ \E h \in opening \cup paying : h.chain = c
KeyedOnce(c) == \E k : keysOf[c] \subseteq {k}

\* Numbers are given out in turn.
AppNumbered ==
    /\ DOMAIN keysOf \subseteq 1 .. openings /\ bloc.chain <= openings
    /\ \A h \in opening :
         /\ h.id <= openings /\ h.chain \in 1 .. openings /\ pending.key # <<"app", h.id>>
         /\ \A g \in opening : g.id = h.id => g = h
    /\ \A n \in Nat : pending.key = <<"app", n>> => n <= openings
    /\ bloc.state = "ready" => bloc.chain # 0

\* A chain without a key has one handler, and is not shown yet.
AppFresh ==
    /\ \A h \in opening :
         h.chain \notin DOMAIN keysOf =>
             h.chain # bloc.chain /\ \A g \in opening : g.chain = h.chain => g = h
    /\ \A h \in paying : h.chain \in DOMAIN keysOf
    /\ bloc.state = "failed" /\ bloc.chain # 0 => bloc.chain \in DOMAIN keysOf

\* Who speaks for a chain that was not crossed knows the pending key and its intent.
AppAgreed ==
    /\ bloc.chain # 0 /\ bloc.chain \notin crossed => bloc.key = pending.key /\ bloc.intent = pending.intent
    /\ \A h \in paying : h.chain \notin crossed => h.key = pending.key /\ h.intent = pending.intent
    /\ \A h \in opening : h.chain \in DOMAIN keysOf \ crossed => h.intent = pending.intent
    /\ \A c \in DOMAIN keysOf \ crossed :
         KeyedOnce(c) /\ (Alive(c) => keysOf[c] \subseteq {pending.key})

AppInv == AppTyped /\ AppNumbered /\ AppFresh /\ AppAgreed

\* An event begins the opening of a chain that is new, or is shown as failed.
LEMMA Beginning ==
    ASSUME AppInv, NEW intent \in Entered, NEW chain \in Nat, App!Initiate(intent, chain),
           bloc' = bloc, pending' = pending, paying' = paying, keysOf' = keysOf, crossed' = crossed,
           \/ chain = openings + 1
           \/ chain = bloc.chain /\ chain \in DOMAIN keysOf /\ intent = bloc.intent
    PROVE  AppInv'
  <1> DEFINE h == [id |-> openings + 1, intent |-> intent, chain |-> chain]
  <1>0. /\ openings \in Nat /\ openings' = openings + 1 /\ opening' = opening \cup {h}
        /\ bloc.chain \in Nat
    BY DEF App!Initiate, AppInv, AppTyped, BlocState
  <1>1. h \in OpeningHandler /\ h.id = openings + 1 /\ h.chain = chain /\ h.intent = intent
    BY <1>0 DEF OpeningHandler
  <1> HIDE DEF h
  <1>2. AppTyped'
    BY <1>0, <1>1 DEF AppInv, AppTyped
  <1>3. chain \in 1 .. openings + 1
    BY <1>0 DEF AppInv, AppNumbered
  <1>4. AppNumbered'
    <2>1. DOMAIN keysOf' \subseteq 1 .. openings' /\ bloc'.chain <= openings'
      BY <1>0 DEF AppInv, AppNumbered
    <2>2. \A n \in Nat : pending'.key = <<"app", n>> => n <= openings'
      BY <1>0 DEF AppInv, AppNumbered
    <2>3. \A g \in opening : g.id \in Nat /\ g.id <= openings
      BY DEF AppInv, AppNumbered, AppTyped, OpeningHandler
    <2>4. ASSUME NEW g \in opening'
          PROVE  /\ g.id <= openings' /\ g.chain \in 1 .. openings' /\ pending'.key # <<"app", g.id>>
                 /\ \A f \in opening' : f.id = g.id => f = g
      <3>1. CASE g = h
        BY <1>0, <1>1, <1>3, <2>3, <3>1 DEF AppInv, AppNumbered
      <3>2. CASE g \in opening
        BY <1>0, <1>1, <2>3, <3>2 DEF AppInv, AppNumbered
      <3> QED BY <1>0, <2>4, <3>1, <3>2
    <2>5. bloc'.state = "ready" => bloc'.chain # 0
      BY DEF AppInv, AppNumbered
    <2> QED BY <2>1, <2>2, <2>4, <2>5 DEF AppNumbered
  <1>5. AppFresh'
    <2>1. CASE chain = openings + 1
      <3>1. /\ chain # bloc.chain /\ chain \notin DOMAIN keysOf
            /\ \A g \in opening : g.chain # chain
        BY <1>0, <2>1 DEF AppInv, AppNumbered
      <3> QED BY <1>0, <1>1, <3>1 DEF AppInv, AppFresh
    <2>2. CASE chain = bloc.chain /\ chain \in DOMAIN keysOf
      BY <1>0, <1>1, <2>2 DEF AppInv, AppFresh
    <2> QED BY <2>1, <2>2
  <1>6. AppAgreed'
    <2>1. chain \in DOMAIN keysOf \ crossed => intent = pending.intent /\ Alive(chain)
      BY <1>0 DEF AppInv, AppNumbered, AppAgreed, Alive
    <2>2. \A c \in DOMAIN keysOf : KeyedOnce(c)' <=> KeyedOnce(c)
      BY DEF KeyedOnce
    <2>3. \A c \in DOMAIN keysOf \ crossed : Alive(c)' => Alive(c)
      BY <1>0, <1>1, <2>1 DEF Alive
    <2> QED BY <1>0, <1>1, <2>1, <2>2, <2>3 DEF AppInv, AppAgreed
  <1> QED BY <1>2, <1>4, <1>5, <1>6 DEF AppInv

\* The screen that is ready has the pending key; if that key is new, every chain under way
\* but this one is crossed.
LEMMA OpeningReady ==
    ASSUME AppInv, NEW h \in opening, App!Open(h)
    PROVE  AppInv'
  <1>0. /\ h \in OpeningHandler /\ pending \in PendingKey /\ bloc \in BlocState
        /\ opening \subseteq OpeningHandler /\ paying \subseteq PayingHandler
        /\ opening' = opening \ {h}
        /\ paying' = paying /\ openings' = openings /\ keysOf' = keysOf
    BY DEF App!Open, AppInv, AppTyped
  <1>1. h.id \in Nat /\ h.intent \in Entered /\ h.chain \in Nat
    BY <1>0 DEF OpeningHandler
  <1>2. /\ pending'.intent = h.intent /\ pending'.chain = h.chain /\ pending' \in PendingKey
        /\ pending.intent = h.intent => pending'.key = pending.key
        /\ pending.intent # h.intent => pending'.key = <<"app", h.id>>
    <2>1. CASE pending.intent = h.intent
      <3>1. pending' = [pending EXCEPT !.chain = h.chain]
        BY <2>1 DEF App!Open, App!TakeKey
      <3> QED BY <1>0, <1>1, <2>1, <3>1 DEF PendingKey
    <2>2. CASE pending.intent # h.intent
      <3>1. pending' = [intent |-> h.intent, chain |-> h.chain, key |-> <<"app", h.id>>]
        BY <2>2 DEF App!Open, App!TakeKey
      <3>2. <<"app", h.id>> \in AppKeys
        BY <1>1 DEF AppKeys
      <3> QED BY <1>1, <2>2, <3>1, <3>2 DEF PendingKey
    <2> QED BY <2>1, <2>2
  <1>3. /\ bloc' \in BlocState /\ bloc'.intent = h.intent /\ bloc'.chain = h.chain
        /\ bloc'.key = pending'.key /\ bloc'.state = "ready"
    <2>1. bloc' = [[state |-> "ready", id |-> 0, intent |-> pending'.intent,
                    chain |-> pending'.chain, key |-> pending'.key] EXCEPT !.id = h.id]
      BY DEF App!Open, App!Shows
    <2>2. pending'.key \in AppKeys
      BY <1>2 DEF PendingKey
    <2> QED BY <1>1, <1>2, <2>1, <2>2 DEF BlocState
  <1>4. AppTyped'
    BY <1>0, <1>2, <1>3 DEF AppInv, AppTyped
  <1>5. AppNumbered'
    <2>1. h.id <= openings /\ h.chain \in 1 .. openings /\ openings \in Nat
      BY DEF AppInv, AppNumbered, AppTyped
    <2>2. \A n \in Nat : pending'.key = <<"app", n>> => n <= openings
      BY <1>1, <1>2, <2>1 DEF AppInv, AppNumbered
    <2>3. \A g \in opening' : pending'.key # <<"app", g.id>>
      BY <1>0, <1>2 DEF AppInv, AppNumbered
    <2> QED BY <1>0, <1>1, <1>3, <2>1, <2>2, <2>3 DEF AppInv, AppNumbered
  <1>6. AppFresh'
    BY <1>0, <1>3 DEF AppInv, AppFresh
  <1>7. AppAgreed'
    <2>1. \A c \in DOMAIN keysOf : KeyedOnce(c)' <=> KeyedOnce(c)
      BY <1>0 DEF KeyedOnce
    <2>2. \A c : Alive(c)' => Alive(c)
      BY <1>0, <1>3 DEF Alive
    <2>3. CASE pending.intent = h.intent
      <3>1. pending'.key = pending.key /\ pending'.intent = pending.intent /\ crossed' = crossed
        BY <1>2, <2>3 DEF App!Open
      <3> QED BY <1>0, <1>2, <1>3, <2>1, <2>2, <2>3, <3>1 DEF AppInv, AppAgreed
    <2>4. CASE pending.intent # h.intent
      <3>1. pending'.key # pending.key
        BY <1>2, <2>4 DEF AppInv, AppNumbered
      <3>2. crossed' = crossed \cup (App!UnderWay \ {h.chain})
        BY <3>1 DEF App!Open
      <3>3. \A g \in opening \cup paying : g.chain = h.chain \/ g.chain \in crossed'
        BY <3>2 DEF App!UnderWay
      <3>4. h.chain \notin DOMAIN keysOf \/ h.chain \in crossed
        BY <2>4 DEF AppInv, AppAgreed
      <3>5. crossed \subseteq crossed'
        BY <3>2
      <3>6. \A g \in paying' : g.chain \in crossed'
        BY <1>0, <3>3, <3>4, <3>5 DEF AppInv, AppFresh
      <3>7. \A g \in opening' : g.chain \notin DOMAIN keysOf' \ crossed'
        BY <1>0, <3>3, <3>4, <3>5
      <3>8. \A c \in DOMAIN keysOf' \ crossed' : ~ Alive(c)'
        BY <1>0, <1>3, <3>3, <3>4, <3>5 DEF Alive
      <3> QED BY <1>0, <1>2, <1>3, <2>1, <3>5, <3>6, <3>7, <3>8 DEF AppInv, AppAgreed
    <2> QED BY <2>3, <2>4
  <1> QED BY <1>4, <1>5, <1>6, <1>7 DEF AppInv

\* A tap on "Confirm & send": the chain shown is sent under the key shown.
LEMMA Confirming ==
    ASSUME AppInv, App!Confirm
    PROVE  AppInv' /\ bloc.key \in AppKeys
  <1> DEFINE c == bloc.chain
             h == [id |-> bloc.id, intent |-> bloc.intent, chain |-> c, key |-> bloc.key, tries |-> 0]
  <1>0. /\ bloc \in BlocState /\ bloc.state = "ready" /\ c \in Nat /\ c # 0 /\ c <= openings
        /\ openings \in Nat
    BY DEF AppInv, AppTyped, AppNumbered, App!Confirm, BlocState
  <1>1. h \in PayingHandler /\ h.chain = c /\ h.key = bloc.key /\ h.intent = bloc.intent
    BY <1>0 DEF PayingHandler, BlocState
  <1>2. /\ paying' = paying \cup {h} /\ opening' = opening /\ openings' = openings
        /\ pending' = pending /\ crossed' = crossed
        /\ DOMAIN keysOf' = DOMAIN keysOf \cup {c}
    BY DEF App!Confirm
  <1>3. /\ \A d \in DOMAIN keysOf \ {c} : keysOf'[d] = keysOf[d]
        /\ c \in DOMAIN keysOf => keysOf'[c] = keysOf[c] \cup {bloc.key}
        /\ c \notin DOMAIN keysOf => keysOf'[c] = {bloc.key}
    BY DEF App!Confirm
  <1>4. /\ bloc' \in BlocState /\ bloc'.chain = c /\ bloc'.key = bloc.key
        /\ bloc'.intent = bloc.intent /\ bloc'.state = "processing"
    BY <1>0 DEF App!Confirm, BlocState
  <1> HIDE DEF c, h
  <1>5. AppTyped'
    BY <1>1, <1>2, <1>4 DEF AppInv, AppTyped
  <1>6. AppNumbered'
    BY <1>0, <1>2, <1>4 DEF AppInv, AppNumbered
  <1>7. AppFresh'
    BY <1>1, <1>2, <1>4 DEF AppInv, AppFresh, c
  <1>8. AppAgreed'
    <2>1. c \notin crossed => bloc.key = pending.key /\ bloc.intent = pending.intent
      BY <1>0 DEF AppInv, AppAgreed, c
    <2>2. \A g \in opening : g.chain = c => c \in DOMAIN keysOf
      BY DEF AppInv, AppFresh, c
    <2>3. \A d : Alive(d)' => Alive(d)
      BY <1>1, <1>2, <1>4 DEF Alive, c
    <2>4. ASSUME NEW d \in DOMAIN keysOf' \ crossed'
          PROVE  KeyedOnce(d)' /\ (Alive(d)' => keysOf'[d] \subseteq {pending'.key})
      <3>1. CASE d = c
        <4>1. Alive(c)
          BY DEF Alive, c
        <4>2. keysOf'[c] \subseteq {pending.key}
          BY <1>2, <1>3, <2>1, <2>4, <3>1, <4>1 DEF AppInv, AppAgreed
        <4> QED BY <1>2, <3>1, <4>2 DEF KeyedOnce
      <3>2. CASE d # c
        BY <1>2, <1>3, <2>3, <2>4, <3>2 DEF AppInv, AppAgreed, KeyedOnce
      <3> QED BY <3>1, <3>2
    <2> QED BY <1>1, <1>2, <1>4, <2>1, <2>2, <2>4 DEF AppInv, AppAgreed
  <1>9. bloc.key \in AppKeys
    BY <1>0 DEF BlocState
  <1> QED BY <1>5, <1>6, <1>7, <1>8, <1>9 DEF AppInv

\* A handler that repeats its request speaks for the same chain.
LEMMA Repeating ==
    ASSUME AppInv, NEW h \in paying, App!Repeat(h)
    PROVE  AppInv' /\ h.key \in AppKeys
  <1> DEFINE g == [h EXCEPT !.tries = @ + 1]
  <1>1. h \in PayingHandler
    BY DEF AppInv, AppTyped
  <1>2. /\ g \in PayingHandler /\ g.chain = h.chain /\ g.key = h.key /\ g.intent = h.intent
        /\ h.key \in AppKeys
    BY <1>1 DEF PayingHandler
  <1>3. /\ paying' = (paying \ {h}) \cup {g} /\ bloc' = bloc /\ pending' = pending
        /\ opening' = opening /\ openings' = openings /\ keysOf' = keysOf /\ crossed' = crossed
    BY DEF App!Repeat
  <1> HIDE DEF g
  <1>4. AppTyped' /\ AppNumbered' /\ AppFresh'
    BY <1>2, <1>3 DEF AppInv, AppTyped, AppNumbered, AppFresh
  <1>5. \A d : (Alive(d)' <=> Alive(d)) /\ (KeyedOnce(d)' <=> KeyedOnce(d))
    BY <1>2, <1>3 DEF Alive, KeyedOnce
  <1>6. AppAgreed'
    BY <1>2, <1>3, <1>5 DEF AppInv, AppAgreed
  <1> QED BY <1>2, <1>4, <1>6 DEF AppInv

\* The end of a payment shows its chain, which was alive.
LEMMA Ending ==
    ASSUME AppInv, NEW h \in paying, App!EndPayment(h)
    PROVE  AppInv'
  <1>1. h \in PayingHandler
    BY DEF AppInv, AppTyped
  <1>2. /\ paying' = paying \ {h} /\ pending' = pending
        /\ opening' = opening /\ openings' = openings /\ keysOf' = keysOf /\ crossed' = crossed
    BY DEF App!EndPayment
  <1>3. /\ bloc' \in BlocState /\ bloc'.state = "failed" /\ bloc'.chain = h.chain
        /\ bloc'.key = h.key /\ bloc'.intent = h.intent
    <2>1. bloc' = [state |-> "failed", id |-> 0, intent |-> h.intent, chain |-> h.chain, key |-> h.key]
      BY DEF App!EndPayment, App!Shows
    <2> QED BY <1>1, <2>1 DEF BlocState, PayingHandler
  <1>4. h.chain \in DOMAIN keysOf
    BY DEF AppInv, AppFresh
  <1>5. AppTyped'
    BY <1>2, <1>3 DEF AppInv, AppTyped
  <1>6. AppNumbered'
    BY <1>2, <1>3, <1>4 DEF AppInv, AppNumbered, AppTyped
  <1>7. AppFresh'
    BY <1>2, <1>3, <1>4 DEF AppInv, AppFresh
  <1>8. \A d : (Alive(d)' => Alive(d)) /\ (KeyedOnce(d)' <=> KeyedOnce(d))
    BY <1>2, <1>3 DEF Alive, KeyedOnce
  <1>9. AppAgreed'
    BY <1>2, <1>3, <1>8 DEF AppInv, AppAgreed
  <1> QED BY <1>5, <1>6, <1>7, <1>9 DEF AppInv

\* The screen shows no chain any more: what is left was alive, and if the pending key is
\* dropped it is crossed.
LEMMA Clearing ==
    ASSUME AppInv, openings' = openings, keysOf' = keysOf, crossed \subseteq crossed',
           opening' \subseteq opening, paying' \subseteq paying,
           NEW state \in {"entry", "failed"}, bloc' = App!Shows(state, App!Nothing),
           \/ pending' = pending
           \/ pending' = App!Nothing /\ \A h \in opening' \cup paying' : h.chain \in crossed'
    PROVE  AppInv'
  <1>1. /\ bloc' \in BlocState /\ bloc'.chain = 0 /\ bloc'.state = state
    BY DEF App!Shows, App!Nothing, BlocState, Entered, AppKeys
  <1>2. App!Nothing \in PendingKey /\ App!Nothing.key = << >>
    BY DEF App!Nothing, PendingKey, Entered, AppKeys
  <1>3. \A n \in Nat : App!Nothing.key # <<"app", n>>
    BY <1>2
  <1>4. AppTyped'
    BY <1>1, <1>2 DEF AppInv, AppTyped
  <1>5. AppNumbered'
    <2>1. \A n \in Nat : pending'.key = <<"app", n>> => pending' = pending
      BY <1>3
    <2>2. \A h \in opening' : h \in opening /\ h.id \in Nat /\ pending'.key # <<"app", h.id>>
      BY <1>3 DEF AppInv, AppNumbered, AppTyped, OpeningHandler
    <2> QED BY <1>1, <2>1, <2>2 DEF AppInv, AppNumbered, AppTyped
  <1>6. AppFresh'
    BY <1>1 DEF AppInv, AppFresh, AppNumbered
  <1>7. AppAgreed'
    <2>1. \A d \in DOMAIN keysOf : (Alive(d)' => Alive(d)) /\ (KeyedOnce(d)' <=> KeyedOnce(d))
      BY <1>1 DEF Alive, KeyedOnce, AppInv, AppNumbered
    <2>2. CASE pending' = pending
      BY <1>1, <2>1, <2>2 DEF AppInv, AppAgreed
    <2>3. CASE \A h \in opening' \cup paying' : h.chain \in crossed'
      <3>1. \A d \in DOMAIN keysOf' \ crossed' : ~ Alive(d)'
        BY <1>1, <2>3 DEF Alive, AppInv, AppNumbered
      <3> QED BY <1>1, <2>1, <2>3, <3>1 DEF AppInv, AppAgreed
    <2> QED BY <2>2, <2>3
  <1> QED BY <1>4, <1>5, <1>6, <1>7 DEF AppInv

LEMMA AppInit == App!AppInit => AppInv
  <1> SUFFICES ASSUME App!AppInit PROVE AppInv
    OBVIOUS
  <1> USE DEF App!AppInit
  <1>1. /\ bloc \in BlocState /\ bloc.chain = 0 /\ bloc.state = "entry"
    BY DEF App!Shows, App!Nothing, BlocState, Entered, AppKeys
  <1>2. pending \in PendingKey /\ pending.key = << >>
    BY DEF App!Nothing, PendingKey, Entered, AppKeys
  <1>3. \A n \in Nat : pending.key # <<"app", n>>
    BY <1>2
  <1>4. DOMAIN keysOf = {}
    OBVIOUS
  <1> QED BY <1>1, <1>2, <1>3, <1>4 DEF AppInv, AppTyped, AppNumbered, AppFresh, AppAgreed, Alive

LEMMA AppStep ==
    ASSUME AppInv, RequestsTyped, App!AppNext
    PROVE  /\ AppInv' /\ RequestsTyped'
           /\ \A k : Kept(k) \/ (k \in AppKeys /\ Sent(k))
  <1> DEFINE mine == \A k : Kept(k) \/ (k \in AppKeys /\ Sent(k))
  <1>0. ASSUME requests' = requests PROVE RequestsTyped' /\ mine
    BY <1>0 DEF RequestsTyped, Kept, Stage
  <1>a. ASSUME NEW key \in AppKeys, App!SendAgain(key, FALSE) PROVE RequestsTyped' /\ mine
    <2> DEFINE r == Asked(1, FALSE)
    <2>1. r \in Request /\ r.stage = "sent"
      BY AskedIsSent
    <2>2. requests' = IF key \in DOMAIN requests /\ requests[key].stage \in {"sent", "settled"}
                        THEN requests ELSE SetEntry(requests, key, r)
      BY <1>a DEF App!SendAgain, App!Asked, Asked, App!SetEntry, SetEntry
    <2> HIDE DEF r
    <2> QED BY <1>a, <2>1, <2>2, SendAgainKinds
  <1>1. CASE App!Continue
    <2>1. PICK i \in Intents : App!Initiate(i, openings + 1)
      BY <1>1 DEF App!Continue
    <2>2. openings \in Nat
      BY DEF AppInv, AppTyped
    <2> QED BY <1>0, <1>1, <2>1, <2>2, Beginning DEF App!Continue, Entered
  <1>2. CASE App!TryAgain
    <2>1. /\ bloc.chain \in Nat /\ bloc.intent \in Entered /\ bloc.chain \in DOMAIN keysOf
      BY <1>2 DEF AppInv, AppTyped, AppFresh, BlocState, App!TryAgain
    <2> QED BY <1>0, <1>2, <2>1, Beginning DEF App!TryAgain
  <1>3. CASE App!Confirm
    BY <1>a, <1>3, Confirming DEF App!Confirm
  <1>4. CASE App!Reset
    <2>1. \A h \in opening \cup paying : h.chain \in App!UnderWay
      BY DEF App!UnderWay
    <2> QED BY <1>0, <1>4, <2>1, Clearing DEF App!Reset
  <1>5. CASE App!KillApp
    BY <1>0, <1>5, Clearing DEF App!KillApp
  <1>6. CASE \E h \in opening : App!Open(h)
    BY <1>0, <1>6, OpeningReady DEF App!Open
  <1>7. CASE \E h \in opening : App!FailToOpen(h)
    BY <1>0, <1>7, Clearing DEF App!FailToOpen
  <1>8. CASE \E h \in paying : App!Repeat(h)
    BY <1>a, <1>8, Repeating DEF App!Repeat
  <1>9. CASE \E h \in paying : App!EndPayment(h)
    BY <1>0, <1>9, Ending DEF App!EndPayment
  <1> QED BY <1>1, <1>2, <1>3, <1>4, <1>5, <1>6, <1>7, <1>8, <1>9 DEF App!AppNext

(***************************************************************************)
(* The phone. Whoever has come past the recipient of "Send Money" has seen *)
(* the name of its holder, unless the wallet is not an open one; a         *)
(* transfer belongs to a confirmed order; and what is bought was charged.  *)
(***************************************************************************)
Holders == {"open", "deleted", "nobody"}
OrderState == [kind : {"send", "airtime"}, holder : Holders, known : BOOLEAN,
               at : {"read", "transfer", "buy", "done"}, charged : BOOLEAN, arrived : BOOLEAN,
               says : {"nothing", "sent", "not found", "failed", "refused"}]
OrderFieldNames == {"kind", "holder", "known", "at", "charged", "arrived", "says"}

UssdTyped ==
    /\ pressed \in Seq(Ussd!Inputs)
    /\ \A n \in DOMAIN ordered : ordered[n] \in OrderState

RecipientShown ==
    Len(pressed) >= 2 /\ pressed[1] = "2" /\ pressed[2] # "0" /\ Ussd!HolderOf(pressed[2]) = "open" =>
        pressed[2] \in named

GoodOrder(r) ==
    /\ r.kind = "send" /\ r.holder = "open" => r.known
    /\ r.at = "buy" => r.charged
    /\ r.arrived => r.charged /\ r.at # "read"
    /\ r.kind = "airtime" /\ r.says = "sent" => r.arrived

TransferOrdered(n) ==
    Stage(Ussd!TransferKey(n)) # "none" =>
        n \in DOMAIN ordered /\ ordered[n].kind = "send" /\ ordered[n].holder # "nobody"

UssdInv ==
    /\ UssdTyped /\ RecipientShown
    /\ \A n \in DOMAIN ordered : GoodOrder(ordered[n])
    /\ \A n : TransferOrdered(n)

\* What is said of an order, field by field.
Told(n, fields, name) == IF name \in DOMAIN fields THEN fields[name] ELSE ordered[n][name]

LEMMA Telling ==
    ASSUME UssdTyped, NEW n \in DOMAIN ordered, NEW fields, Ussd!Says(n, fields)
    PROVE  /\ DOMAIN ordered' = DOMAIN ordered
           /\ \A m \in DOMAIN ordered \ {n} : ordered'[m] = ordered[m]
           /\ ordered'[n] = [name \in OrderFieldNames |-> Told(n, fields, name)]
  BY DEF Ussd!Says, Ussd!WithFields, UssdTyped, OrderState, OrderFieldNames, Told

\* An order that stays what it is, goes on, and is good.
LEMMA OrderGoesOn ==
    ASSUME UssdInv, NEW n \in DOMAIN ordered, NEW r \in OrderState,
           DOMAIN ordered' = DOMAIN ordered, \A m \in DOMAIN ordered \ {n} : ordered'[m] = ordered[m],
           ordered'[n] = r, r.kind = ordered[n].kind, r.holder = ordered[n].holder, GoodOrder(r),
           UNCHANGED <<pressed, named>>,
           \A m : Stage(Ussd!TransferKey(m))' # "none" =>
                     \/ Stage(Ussd!TransferKey(m)) # "none"
                     \/ m = n /\ r.kind = "send" /\ r.holder # "nobody"
    PROVE  UssdInv'
  <1>1. UssdTyped' /\ RecipientShown'
    BY DEF UssdInv, UssdTyped, RecipientShown
  <1>2. \A m \in DOMAIN ordered' : GoodOrder(ordered[m])'
    BY DEF UssdInv, GoodOrder
  <1>3. \A m : TransferOrdered(m)'
    BY DEF UssdInv, TransferOrdered
  <1> QED BY <1>1, <1>2, <1>3 DEF UssdInv, GoodOrder

LEMMA OrderFields ==
    ASSUME UssdInv, NEW n \in DOMAIN ordered
    PROVE  /\ ordered[n].kind \in {"send", "airtime"} /\ ordered[n].holder \in Holders
           /\ ordered[n].known \in BOOLEAN /\ ordered[n].at \in {"read", "transfer", "buy", "done"}
           /\ ordered[n].charged \in BOOLEAN /\ ordered[n].arrived \in BOOLEAN
           /\ ordered[n].says \in {"nothing", "sent", "not found", "failed", "refused"}
           /\ GoodOrder(ordered[n])
  BY DEF UssdInv, UssdTyped, OrderState

\* What may be said of an order, and what may be asked for it.
GoodWord(n, fields) ==
    /\ \A name \in {"kind", "holder", "known"} : name \notin DOMAIN fields
    /\ Told(n, fields, "at") \in {"read", "transfer", "buy", "done"}
    /\ Told(n, fields, "charged") \in BOOLEAN /\ Told(n, fields, "arrived") \in BOOLEAN
    /\ Told(n, fields, "says") \in {"nothing", "sent", "not found", "failed", "refused"}
    /\ Told(n, fields, "at") = "buy" => Told(n, fields, "charged")
    /\ Told(n, fields, "arrived") => Told(n, fields, "charged") /\ Told(n, fields, "at") # "read"
    /\ ordered[n].kind = "airtime" /\ Told(n, fields, "says") = "sent" => Told(n, fields, "arrived")

AskedFor(n) ==
    \A m : Stage(Ussd!TransferKey(m))' # "none" =>
               \/ Stage(Ussd!TransferKey(m)) # "none"
               \/ m = n /\ ordered[n].kind = "send" /\ ordered[n].holder # "nobody"

LEMMA TellingGoesOn ==
    ASSUME UssdInv, NEW n \in DOMAIN ordered, NEW fields, Ussd!Says(n, fields), GoodWord(n, fields),
           UNCHANGED <<pressed, named>>, AskedFor(n)
    PROVE  UssdInv'
  <1> DEFINE r == [kind |-> ordered[n].kind, holder |-> ordered[n].holder, known |-> ordered[n].known,
                   at |-> Told(n, fields, "at"), charged |-> Told(n, fields, "charged"),
                   arrived |-> Told(n, fields, "arrived"), says |-> Told(n, fields, "says")]
  <1>1. r \in OrderState /\ GoodOrder(r)
    BY OrderFields DEF OrderState, GoodOrder, GoodWord
  <1>2. r = [name \in OrderFieldNames |-> Told(n, fields, name)]
    <2>1. /\ Told(n, fields, "kind") = ordered[n].kind /\ Told(n, fields, "holder") = ordered[n].holder
          /\ Told(n, fields, "known") = ordered[n].known
      BY DEF Told, GoodWord
    <2>2. r = [name \in OrderFieldNames |-> r[name]]
      BY DEF OrderFieldNames
    <2>3. /\ r.kind = Told(n, fields, "kind") /\ r.holder = Told(n, fields, "holder")
          /\ r.known = Told(n, fields, "known") /\ r.at = Told(n, fields, "at")
          /\ r.charged = Told(n, fields, "charged") /\ r.arrived = Told(n, fields, "arrived")
          /\ r.says = Told(n, fields, "says")
      BY <2>1
    <2> HIDE DEF r
    <2>4. \A name \in OrderFieldNames : r[name] = Told(n, fields, name)
      BY <2>3 DEF OrderFieldNames
    <2> QED BY <2>2, <2>4
  <1>3. r.kind = ordered[n].kind /\ r.holder = ordered[n].holder
    OBVIOUS
  <1> HIDE DEF r
  <1>4. /\ DOMAIN ordered' = DOMAIN ordered
        /\ \A m \in DOMAIN ordered \ {n} : ordered'[m] = ordered[m]
        /\ ordered'[n] = r
    BY <1>2, Telling DEF UssdInv
  <1> QED BY <1>1, <1>3, <1>4, OrderGoesOn DEF AskedFor

\* A handler of an order goes on: what it says of the order is good, and it asks for a
\* transfer only to somebody.
LEMMA OrderStep ==
    ASSUME UssdInv, RequestsTyped, NEW n \in DOMAIN ordered,
           \/ Ussd!StartTransfer(n) \/ Ussd!EndTransfer(n)
           \/ Ussd!ChargeAirtime(n) \/ Ussd!SendAirtime(n)
    PROVE  /\ UssdInv' /\ RequestsTyped'
           /\ \A k : Kept(k) \/ (k = <<"ussd", n>> /\ Sent(k))
  <1> DEFINE o == ordered[n]
             mine == \A k : Kept(k) \/ (k = <<"ussd", n>> /\ Sent(k))
  <1>1. UNCHANGED <<pressed, named>>
    BY DEF Ussd!StartTransfer, Ussd!EndTransfer, Ussd!ChargeAirtime, Ussd!SendAirtime
  <1>2. ASSUME requests' = requests PROVE RequestsTyped' /\ mine /\ AskedFor(n)
    BY <1>2 DEF RequestsTyped, Kept, Stage, AskedFor
  <1>3. CASE Ussd!StartTransfer(n)
    <2>1. CASE o.holder # "nobody"
      <3> DEFINE F == [at |-> "transfer"]
      <3>1. Ussd!Says(n, F) /\ requests' = WithEntry(requests, Ussd!TransferKey(n), Asked(1, TRUE)) /\ o.kind = "send"
        BY <1>3, <2>1 DEF Ussd!StartTransfer, Ussd!Send, Ussd!Asked, Asked, Ussd!WithEntry, WithEntry
      <3>2. RequestsTyped' /\ mine
        <4> DEFINE r == Asked(1, TRUE)
        <4>1. r \in Request /\ r.stage = "sent"
          BY AskedIsSent
        <4>2. requests' = WithEntry(requests, Ussd!TransferKey(n), r)
          BY <3>1
        <4> HIDE DEF r
        <4> QED BY <4>1, <4>2, SendKinds DEF Ussd!TransferKey
      <3>3. AskedFor(n)
        BY <2>1, <3>1, <3>2 DEF Kept, Ussd!TransferKey, AskedFor
      <3>4. GoodWord(n, F)
        BY <3>1, OrderFields DEF Told, GoodWord, GoodOrder
      <3> HIDE DEF F
      <3> QED BY <1>1, <3>1, <3>2, <3>3, <3>4, TellingGoesOn
    <2>2. CASE o.holder = "nobody"
      <3> DEFINE F == [at |-> "done", says |-> "not found"]
      <3>1. Ussd!Says(n, F) /\ requests' = requests /\ o.kind = "send"
        BY <1>3, <2>2 DEF Ussd!StartTransfer
      <3>4. GoodWord(n, F)
        BY <3>1, OrderFields DEF Told, GoodWord, GoodOrder
      <3> HIDE DEF F
      <3> QED BY <1>1, <1>2, <3>1, <3>4, TellingGoesOn
    <2> QED BY <2>1, <2>2
  <1>4. CASE Ussd!EndTransfer(n)
    <2>1. PICK says \in {"sent", "failed"} : Ussd!Says(n, [at |-> "done", says |-> says])
      BY <1>4 DEF Ussd!EndTransfer
    <2> DEFINE F == [at |-> "done", says |-> says]
    <2>2. requests' = requests /\ o.kind = "send"
      BY <1>4 DEF Ussd!EndTransfer
    <2>3. GoodWord(n, F)
      BY <2>2, OrderFields DEF Told, GoodWord, GoodOrder
    <2>4. Ussd!Says(n, F)
      BY <2>1
    <2> HIDE DEF F
    <2> QED BY <1>1, <1>2, <2>2, <2>3, <2>4, TellingGoesOn
  <1>5. CASE Ussd!ChargeAirtime(n)
    <2>0. requests' = requests /\ o.kind = "airtime" /\ o.at = "read"
      BY <1>5 DEF Ussd!ChargeAirtime
    <2>1. CASE Ussd!Says(n, [at |-> "done", says |-> "refused"])
      <3> DEFINE F == [at |-> "done", says |-> "refused"]
      <3>1. GoodWord(n, F)
        BY <2>0, OrderFields DEF Told, GoodWord, GoodOrder
      <3>2. Ussd!Says(n, F)
        BY <2>1
      <3> HIDE DEF F
      <3> QED BY <1>1, <1>2, <2>0, <3>1, <3>2, TellingGoesOn
    <2>2. CASE Ussd!Says(n, [at |-> "buy", charged |-> TRUE])
      <3> DEFINE F == [at |-> "buy", charged |-> TRUE]
      <3>1. GoodWord(n, F)
        BY <2>0, OrderFields DEF Told, GoodWord, GoodOrder
      <3>2. Ussd!Says(n, F)
        BY <2>2
      <3> HIDE DEF F
      <3> QED BY <1>1, <1>2, <2>0, <3>1, <3>2, TellingGoesOn
    <2>3. ASSUME NEW charged \in BOOLEAN,
                 Ussd!Says(n, [at |-> "done", says |-> "failed", charged |-> charged])
          PROVE  UssdInv'
      <3> DEFINE F == [at |-> "done", says |-> "failed", charged |-> charged]
      <3>1. GoodWord(n, F)
        BY <2>0, <2>3, OrderFields DEF Told, GoodWord, GoodOrder
      <3>2. Ussd!Says(n, F)
        BY <2>3
      <3> HIDE DEF F
      <3> QED BY <1>1, <1>2, <2>0, <3>1, <3>2, TellingGoesOn
    <2> QED BY <1>2, <1>5, <2>0, <2>1, <2>2, <2>3 DEF Ussd!ChargeAirtime
  <1>6. CASE Ussd!SendAirtime(n)
    <2>0. requests' = requests /\ o.kind = "airtime" /\ o.at = "buy" /\ o.charged
      BY <1>6, OrderFields DEF Ussd!SendAirtime, GoodOrder
    <2>1. PICK arrived \in BOOLEAN, says \in {"sent", "failed"} :
             /\ Ussd!Says(n, [at |-> "done", says |-> says, arrived |-> arrived])
             /\ says = "sent" => arrived
      BY <1>6 DEF Ussd!SendAirtime
    <2> DEFINE F == [at |-> "done", says |-> says, arrived |-> arrived]
    <2>2. GoodWord(n, F)
      BY <2>0, <2>1, OrderFields DEF Told, GoodWord, GoodOrder
    <2>3. Ussd!Says(n, F)
      BY <2>1
    <2> HIDE DEF F
    <2> QED BY <1>1, <1>2, <2>0, <2>1, <2>2, <2>3, TellingGoesOn
  <1> QED BY <1>3, <1>4, <1>5, <1>6

LEMMA NewOrderIsGood ==
    ASSUME NEW kind \in {"send", "airtime"}, NEW holder \in Holders, NEW known \in BOOLEAN,
           kind = "send" /\ holder = "open" => known
    PROVE  LET o == [kind |-> kind, holder |-> holder, known |-> known, at |-> "read",
                     charged |-> FALSE, arrived |-> FALSE, says |-> "nothing"]
           IN  o \in OrderState /\ GoodOrder(o)
  BY DEF OrderState, GoodOrder

\* An input: the pages of a session are found anew from everything pressed, and whoever
\* gets to the end of "Send Money" came past the page that names the recipient.
LEMMA PressStep ==
    ASSUME UssdInv, NEW i \in Ussd!Inputs, Ussd!Press(i)
    PROVE  UssdInv'
  <1> DEFINE h == Append(pressed, i)
             page0 == Ussd!Page(h)
             o == [kind |-> page0, holder |-> Ussd!HolderOf(h[2]), known |-> h[2] \in named,
                   at |-> "read", charged |-> FALSE, arrived |-> FALSE, says |-> "nothing"]
  <1>1. /\ h \in Seq(Ussd!Inputs) /\ Len(h) = Len(pressed) + 1 /\ Len(pressed) \in Nat
        /\ \A j \in 1 .. Len(pressed) : h[j] = pressed[j]
    BY DEF UssdInv, UssdTyped
  <1>2. \A number : Ussd!HolderOf(number) \in Holders
    BY CallersAssumption DEF CallersAssumption, Ussd!HolderOf, Holders
  <1> HIDE DEF h
  <1>3. ASSUME page0 = "send"
        PROVE  Len(h) = 4 /\ h[1] = "2" /\ h[2] # "0"
    BY <1>1, <1>3 DEF Ussd!Page, Ussd!SendPage, Ussd!AirtimePage, Ussd!PageAfterAmount
  <1>4. ASSUME page0 \in {"send", "airtime"} PROVE o \in OrderState /\ GoodOrder(o)
    <2>1. ASSUME page0 = "send", Ussd!HolderOf(h[2]) = "open" PROVE h[2] \in named
      BY <1>1, <1>3, <2>1 DEF UssdInv, RecipientShown
    <2> DEFINE holder == Ussd!HolderOf(h[2])
               p(known) == [kind |-> page0, holder |-> holder, known |-> known, at |-> "read",
                            charged |-> FALSE, arrived |-> FALSE, says |-> "nothing"]
    <2>2. ASSUME NEW known \in BOOLEAN, page0 = "send" /\ holder = "open" => known
          PROVE  p(known) \in OrderState /\ GoodOrder(p(known))
      <3>1. page0 \in {"send", "airtime"} /\ holder \in Holders
        BY <1>2, <1>4
      <3> HIDE DEF page0, holder
      <3> QED BY <2>2, <3>1, NewOrderIsGood
    <2>3. CASE h[2] \in named
      <3>1. o = p(TRUE)
        BY <2>3
      <3> HIDE DEF o, p
      <3> QED BY <2>2, <3>1
    <2>4. CASE h[2] \notin named
      <3>1. o = p(FALSE)
        <4>1. (h[2] \in named) = FALSE
          BY <2>4
        <4> QED BY <4>1, Zenon
      <3> HIDE DEF o, p
      <3> QED BY <2>1, <2>2, <2>4, <3>1
    <2> QED BY <2>3, <2>4
  <1>5. /\ \A n \in DOMAIN ordered' : ordered'[n] \in OrderState /\ GoodOrder(ordered'[n])
        /\ \A n \in DOMAIN ordered : n \in DOMAIN ordered' /\ ordered'[n] = ordered[n]
    <2>1. CASE page0 \in {"send", "airtime"}
      <3>1. ordered' = WithEntry(ordered, dials, o)
        BY <2>1 DEF Ussd!Press, Ussd!NewOrder, Ussd!WithEntry, WithEntry, h
      <3> HIDE DEF o
      <3>2. /\ DOMAIN ordered' = DOMAIN ordered \cup {dials}
            /\ \A n \in DOMAIN ordered : ordered'[n] = ordered[n]
            /\ dials \notin DOMAIN ordered => ordered'[dials] = o
        BY <3>1 DEF WithEntry
      <3> QED BY <1>4, <2>1, <3>2 DEF UssdInv, UssdTyped
    <2>2. CASE page0 \notin {"send", "airtime"}
      <3>1. ordered' = ordered
        BY <2>2 DEF Ussd!Press, h
      <3> QED BY <3>1 DEF UssdInv, UssdTyped
    <2> QED BY <2>1, <2>2
  <1>6. pressed' \in Seq(Ussd!Inputs) /\ RecipientShown'
    <2>1. CASE Ussd!Ends(page0)
      <3>1. pressed' = << >>
        BY <2>1 DEF Ussd!Press, h
      <3> QED BY <3>1 DEF RecipientShown
    <2>2. CASE ~ Ussd!Ends(page0)
      <3>1. /\ pressed' = IF Ussd!Stuck(pressed) THEN pressed ELSE h
            /\ named' = IF page0 = "amount" /\ h[1] = "2" THEN named \cup {h[2]} ELSE named
        BY <2>2 DEF Ussd!Press, h
      <3>2. ASSUME Len(h) = 2, h[1] = "2", h[2] # "0", Ussd!HolderOf(h[2]) = "open"
            PROVE  page0 = "amount"
        <4>1. h # << >>
          BY <3>2
        <4>2. page0 = Ussd!SendPage(h)
          BY <3>2, <4>1 DEF Ussd!Page
        <4> QED BY <3>2, <4>2 DEF Ussd!SendPage
      <3> HIDE DEF page0
      <3>3. CASE Ussd!Stuck(pressed)
        BY <3>1, <3>3 DEF UssdInv, UssdTyped, RecipientShown
      <3>4. CASE ~ Ussd!Stuck(pressed)
        <4>1. pressed' = h /\ named \subseteq named' /\ (page0 = "amount" /\ h[1] = "2" => h[2] \in named')
          BY <3>1, <3>4
        <4>2. CASE Len(h) = 2
          BY <1>1, <3>2, <4>1, <4>2 DEF RecipientShown
        <4>3. CASE Len(h) # 2
          <5>1. Len(h) >= 2 => Len(pressed) >= 2 /\ h[1] = pressed[1] /\ h[2] = pressed[2]
            BY <1>1, <4>3
          <5> QED BY <1>1, <4>1, <5>1 DEF UssdInv, RecipientShown
        <4> QED BY <4>2, <4>3
      <3> QED BY <3>3, <3>4
    <2> QED BY <2>1, <2>2
  <1>7. \A n : TransferOrdered(n)'
    <2>1. requests' = requests
      BY DEF Ussd!Press
    <2> QED BY <1>5, <2>1 DEF UssdInv, TransferOrdered, Stage
  <1> QED BY <1>5, <1>6, <1>7 DEF UssdInv, UssdTyped, GoodOrder

LEMMA UssdStep ==
    ASSUME UssdInv, RequestsTyped, Ussd!UssdNext
    PROVE  /\ UssdInv' /\ RequestsTyped'
           /\ \A k : Kept(k) \/ (Sent(k) /\ \E n : k = <<"ussd", n>>)
  <1> DEFINE mine == \A k : Kept(k) \/ (Sent(k) /\ \E n : k = <<"ussd", n>>)
  <1>0. ASSUME requests' = requests PROVE RequestsTyped' /\ mine
    BY <1>0 DEF RequestsTyped, Kept, Stage
  <1>1. CASE Ussd!Dial \/ Ussd!HangUp
    <2>1. pressed' = << >> /\ UNCHANGED <<requests, ordered>>
      BY <1>1 DEF Ussd!Dial, Ussd!HangUp
    <2>2. UssdTyped' /\ RecipientShown'
      BY <2>1 DEF UssdInv, UssdTyped, RecipientShown
    <2> QED BY <1>0, <2>1, <2>2 DEF UssdInv, TransferOrdered, Stage, GoodOrder
  <1>2. CASE Ussd!UssdServiceDies
    <2>1. /\ DOMAIN ordered' = DOMAIN ordered /\ UNCHANGED <<requests, pressed, named>>
          /\ \A n \in DOMAIN ordered : ordered'[n] = [ordered[n] EXCEPT !.at = "done"]
      BY <1>2 DEF Ussd!UssdServiceDies
    <2>2. ASSUME NEW n \in DOMAIN ordered
          PROVE  /\ ordered'[n] \in OrderState /\ GoodOrder(ordered'[n])
                 /\ ordered'[n].kind = ordered[n].kind /\ ordered'[n].holder = ordered[n].holder
      <3> DEFINE o == ordered[n]
                 p == [o EXCEPT !.at = "done"]
      <3>1. o \in OrderState /\ GoodOrder(o) /\ ordered'[n] = p
        BY <2>1 DEF UssdInv, UssdTyped
      <3> HIDE DEF o
      <3>2. /\ p \in OrderState /\ p.at = "done" /\ p.kind = o.kind /\ p.holder = o.holder
            /\ p.known = o.known /\ p.charged = o.charged /\ p.arrived = o.arrived /\ p.says = o.says
        BY <3>1 DEF OrderState
      <3> HIDE DEF p
      <3>3. GoodOrder(p)
        BY <3>1, <3>2 DEF GoodOrder
      <3> QED BY <3>1, <3>2, <3>3 DEF o
    <2>3. UssdTyped' /\ RecipientShown'
      BY <2>1, <2>2 DEF UssdInv, UssdTyped, RecipientShown
    <2>4. \A n : TransferOrdered(n)'
      BY <2>1, <2>2 DEF UssdInv, TransferOrdered, Stage
    <2> QED BY <1>0, <2>1, <2>2, <2>3, <2>4 DEF UssdInv, GoodOrder
  <1>3. CASE \E i \in Ussd!Inputs : Ussd!Press(i)
    <2>1. requests' = requests
      BY <1>3 DEF Ussd!Press
    <2> QED BY <1>0, <1>3, <2>1, PressStep
  <1>4. ASSUME NEW n \in DOMAIN ordered,
               \/ Ussd!StartTransfer(n) \/ Ussd!EndTransfer(n)
               \/ Ussd!ChargeAirtime(n) \/ Ussd!SendAirtime(n)
        PROVE  UssdInv' /\ RequestsTyped' /\ mine
    BY <1>4, OrderStep
  <1> QED BY <1>1, <1>2, <1>3, <1>4 DEF Ussd!UssdNext

(***************************************************************************)
(* Together. Nobody changes what is another's, but for the requests, where *)
(* an answer may come at any time and everybody sends under own keys.      *)
(***************************************************************************)
CallersInv == RequestsTyped /\ PagesTyped /\ PagesTruthful /\ AppInv /\ UssdInv

SettledStays == \A k : Stage(k) = "settled" => Stage(k)' = "settled"
UssdKeysUntouched == \A n : Stage(Ussd!TransferKey(n))' # "none" => Stage(Ussd!TransferKey(n)) # "none"

LEMMA PagesKept ==
    ASSUME PagesTyped, PagesTruthful, page' = page, SettledStays
    PROVE  PagesTyped' /\ PagesTruthful'
  BY DEF PagesTyped, PagesTruthful, SettledStays, Key, Stage

LEMMA AppKept == AppInv /\ UNCHANGED appVars => AppInv'
  BY DEF appVars, AppInv, AppTyped, AppNumbered, AppFresh, AppAgreed, Alive, KeyedOnce

LEMMA UssdKept == UssdInv /\ UNCHANGED ussdVars /\ UssdKeysUntouched => UssdInv'
  <1> SUFFICES ASSUME UssdInv, UNCHANGED ussdVars, UssdKeysUntouched PROVE UssdInv'
    OBVIOUS
  <1>1. UssdTyped' /\ RecipientShown'
    BY DEF ussdVars, UssdInv, UssdTyped, RecipientShown
  <1>2. \A n \in DOMAIN ordered' : GoodOrder(ordered[n])'
    BY DEF ussdVars, UssdInv, GoodOrder
  <1>3. \A n : TransferOrdered(n)'
    BY DEF ussdVars, UssdInv, TransferOrdered, UssdKeysUntouched
  <1> QED BY <1>1, <1>2, <1>3 DEF UssdInv

LEMMA RequestsAnswered ==
    ASSUME RequestsTyped, RequestsNext
    PROVE  RequestsTyped' /\ \A k : Kept(k) \/ Answered(k)
  <1>1. PICK key \in DOMAIN requests, stage \in {"settled", "refused", "gone"} : Reach(key, stage)
    BY DEF RequestsNext, Settle, Refuse, Lose
  <1> QED BY <1>1, ReachKinds

\* Every step of anybody keeps the invariant.
LEMMA CallersStep ==
    ASSUME CallersInv, [Next]_vars
    PROVE  CallersInv'
  <1> USE DEF CallersInv
  <1>1. CASE RequestsNext /\ UNCHANGED <<page, sagaVars, shopVars, appVars, ussdVars, shapVars, listVars>>
    <2>1. RequestsTyped' /\ \A k : Kept(k) \/ Answered(k)
      BY <1>1, RequestsAnswered
    <2>2. SettledStays /\ UssdKeysUntouched
      BY <2>1 DEF Kept, Answered, SettledStays, UssdKeysUntouched
    <2> QED BY <1>1, <2>1, <2>2, PagesKept, AppKept, UssdKept
  <1>2. CASE ClientNext /\ UNCHANGED <<sagaVars, shopVars, appVars, ussdVars, shapVars, listVars>>
    <2>1. /\ RequestsTyped' /\ PagesTyped' /\ PagesTruthful'
          /\ \A k : Kept(k) \/ (k \in Sessions \X Nat /\ Sent(k))
      BY <1>2, PagesStep DEF ClientNext
    <2>2. \A n : Ussd!TransferKey(n) \notin Sessions \X Nat
      BY CallersAssumption DEF CallersAssumption, Ussd!TransferKey
    <2>3. UssdKeysUntouched
      BY <2>1, <2>2 DEF Kept, UssdKeysUntouched
    <2> QED BY <1>2, <2>1, <2>3, AppKept, UssdKept
  <1>3. CASE App!AppNext /\ UNCHANGED <<page, sagaVars, shopVars, ussdVars, shapVars, listVars>>
    <2>1. AppInv' /\ RequestsTyped' /\ \A k : Kept(k) \/ (k \in AppKeys /\ Sent(k))
      BY <1>3, AppStep
    <2>2. \A n : Ussd!TransferKey(n) \notin AppKeys
      BY DEF AppKeys, Ussd!TransferKey
    <2>3. SettledStays /\ UssdKeysUntouched
      BY <2>1, <2>2 DEF Kept, Sent, SettledStays, UssdKeysUntouched
    <2> QED BY <1>3, <2>1, <2>3, PagesKept, UssdKept
  <1>4. CASE Ussd!UssdNext /\ UNCHANGED <<page, sagaVars, shopVars, appVars, shapVars, listVars>>
    <2>1. UssdInv' /\ RequestsTyped' /\ \A k : Kept(k) \/ (Sent(k) /\ \E n : k = <<"ussd", n>>)
      BY <1>4, UssdStep
    <2>2. SettledStays
      BY <2>1 DEF Kept, Sent, SettledStays
    <2> QED BY <1>4, <2>1, <2>2, PagesKept, AppKept
  <1>5. CASE requests' = requests /\ page' = page /\ UNCHANGED <<appVars, ussdVars>>
    <2>1. RequestsTyped' /\ \A k : Kept(k)
      BY <1>5 DEF RequestsTyped, Kept, Stage
    <2>2. SettledStays /\ UssdKeysUntouched
      BY <2>1 DEF Kept, SettledStays, UssdKeysUntouched
    <2> QED BY <1>5, <2>1, <2>2, PagesKept, AppKept, UssdKept
  <1>6. ASSUME OrchestratorNext PROVE requests' = requests
    BY <1>6 DEF OrchestratorNext, StartSaga, StoreSaga, Call, Attempt, RestBreaker
  <1>7. ASSUME Shop!InventoryNext PROVE requests' = requests
    BY <1>7 DEF Shop!InventoryNext, Shop!CreateProduct, Shop!CreateStock, Shop!ToggleActive,
                Shop!ReadStock, Shop!UpdateStock, Shop!LogMovement, Shop!BreakOff
  <1> QED BY <1>1, <1>2, <1>3, <1>4, <1>5, <1>6, <1>7 DEF Next, vars

LEMMA CallersBegin == Init => CallersInv
  <1> SUFFICES ASSUME Init PROVE CallersInv
    OBVIOUS
  <1>1. requests = << >> /\ \A k : Stage(k) = "none"
    BY DEF Init, RequestsInit, Stage
  <1>2. PagesTyped /\ PagesTruthful
    BY DEF Init, ClientInit, Blank, PagesTyped, PageState, PagesTruthful
  <1>3. pressed = << >> /\ ordered = << >>
    BY DEF Init, Ussd!UssdInit
  <1>4. UssdInv
    BY <1>1, <1>3 DEF UssdInv, UssdTyped, RecipientShown, TransferOrdered
  <1> QED BY <1>1, <1>2, <1>4, AppInit DEF CallersInv, RequestsTyped, Init

\* The invariant that the theorems about pages, app and phone rest on: what is shown
\* as sent has settled, whoever speaks for a payment that was not given up knows its
\* one key, and an order to pay has come past the holder's name.
THEOREM CallersTyped == Spec => []CallersInv
  <1>1. Init => CallersInv
    BY CallersBegin
  <1>2. CallersInv /\ [Next]_vars => CallersInv'
    BY CallersStep
  <1> QED BY <1>1, <1>2, PTL DEF Spec

\* A page that shows a payment as sent has had an answer to its last tap.
THEOREM SentIsSettled == Spec => []SuccessMeansSettled
  <1>1. CallersInv => SuccessMeansSettled
    BY DEF CallersInv, PagesTruthful, SuccessMeansSettled
  <1> QED BY <1>1, CallersTyped, PTL

\* However often a payment of the app is tried again, it is sent under one key, unless it
\* was given up, or another one begun, while a handler of it was waiting.
THEOREM RetriesCarryOneKey == Spec => []RetriesKeepTheirKey
  <1>1. ASSUME CallersInv PROVE RetriesKeepTheirKey
    <2> SUFFICES ASSUME NEW c \in DOMAIN keysOf \ crossed PROVE Cardinality(keysOf[c]) <= 1
      <3>1. \A S : App!Cardinality(S) = Cardinality(S)
        BY DEF App!Cardinality, Cardinality
      <3> QED BY <3>1 DEF RetriesKeepTheirKey, App!RetriesKeepTheirKey
    <2>1. PICK k : keysOf[c] \subseteq {k}
      BY <1>1 DEF CallersInv, AppInv, AppAgreed, KeyedOnce
    <2>2. IsFiniteSet({k}) /\ Cardinality({k}) = 1
      BY FS_Singleton
    <2>3. Cardinality(keysOf[c]) <= Cardinality({k})
      BY <2>1, <2>2, FS_Subset
    <2> QED BY <2>2, <2>3
  <1> QED BY <1>1, CallersTyped, PTL

\* Money goes to a wallet that the USSD session had shown with its holder's name, or to
\* a deleted one.
THEOREM NamedBeforePaid == Spec => []OnlyNamedWalletsArePaid
  <1>1. ASSUME CallersInv PROVE OnlyNamedWalletsArePaid
    <2> SUFFICES ASSUME NEW n \in DOMAIN ordered, ordered[n].kind = "send",
                        Ussd!Stage(Ussd!TransferKey(n)) = "settled"
                 PROVE  ordered[n].known \/ ordered[n].holder = "deleted"
      BY DEF OnlyNamedWalletsArePaid, Ussd!OnlyNamedWalletsArePaid
    <2>1. Stage(Ussd!TransferKey(n)) = "settled"
      BY DEF Stage, Ussd!Stage
    <2>2. ordered[n].holder \in Holders \ {"nobody"} /\ GoodOrder(ordered[n])
      BY <1>1, <2>1, OrderFields DEF CallersInv, UssdInv, TransferOrdered
    <2> QED BY <2>2 DEF Holders, GoodOrder
  <1> QED BY <1>1, CallersTyped, PTL

\* Airtime arrives only for money that was taken, and who is told that it was sent has
\* paid and got it.
THEOREM AirtimeWasCharged == Spec => []AirtimeIsPaidFor
  <1>1. CallersInv => AirtimeIsPaidFor
    BY DEF CallersInv, UssdInv, GoodOrder, AirtimeIsPaidFor, Ussd!AirtimeIsPaidFor
  <1> QED BY <1>1, CallersTyped, PTL

(***************************************************************************)
(* The orchestrator.                                                       *)
(***************************************************************************)
SagaState == [at : {"idle", "debit", "undo", "store", "failed", "compensated"}, tried : Nat]
BreakerState == [state : {"CLOSED", "OPEN", "HALF_OPEN"}, failures : Nat, rested : BOOLEAN]
Calling == {g \in Submissions : InCall(g)}

SagasTyped == saga \in [Submissions -> SagaState] /\ breaker \in BreakerState

\* A circuit that is not open has counted fewer failures than it takes to open it, and
\* each call under way can add one.
BreakerCounts ==
    /\ breaker.state # "OPEN" => breaker.failures < CircuitThreshold
    /\ breaker.failures + Cardinality(Calling) < CircuitThreshold + Cardinality(Submissions)

SagaInv == SagasTyped /\ BreakerCounts

\* Submissions are finitely many, and so are those with a call under way.
LEMMA CallingBounds ==
    ASSUME NEW C, C \subseteq Submissions
    PROVE  /\ IsFiniteSet(C) /\ Cardinality(C) \in Nat /\ Cardinality(Submissions) \in Nat
           /\ Cardinality(C) <= Cardinality(Submissions)
  BY FS_Subset, FS_CardinalityType, CallersAssumption DEF CallersAssumption

\* A handler that goes to another place, or tries again: the others stay.
LEMMA SagaGoes ==
    ASSUME SagasTyped, NEW g \in Submissions, NEW r \in SagaState, saga' = [saga EXCEPT ![g] = r]
    PROVE  /\ saga' \in [Submissions -> SagaState] /\ saga'[g] = r
           /\ \A o \in Submissions \ {g} : saga'[o] = saga[o]
           /\ r.tried > 0 => Calling' = Calling \cup {g}
           /\ ~ (r.tried > 0) => Calling' = Calling \ {g}
  <1>1. saga' \in [Submissions -> SagaState] /\ saga'[g] = r /\ \A o \in Submissions \ {g} : saga'[o] = saga[o]
    BY DEF SagasTyped
  <1> QED BY <1>1 DEF Calling, InCall

LEMMA GoGoes ==
    ASSUME SagasTyped, NEW g \in Submissions, Go(g, "debit") \/ Go(g, "undo") \/ Go(g, "store")
                                               \/ Go(g, "failed") \/ Go(g, "compensated")
    PROVE  /\ saga' \in [Submissions -> SagaState] /\ Calling' = Calling \ {g}
           /\ \A o \in Submissions \ {g} : saga'[o] = saga[o]
  <1>1. PICK where \in {"debit", "undo", "store", "failed", "compensated"} : Go(g, where)
    OBVIOUS
  <1> DEFINE r == [at |-> where, tried |-> 0]
  <1>2. r \in SagaState /\ r.tried = 0 /\ r.at = where
    BY DEF SagaState
  <1>3. saga' = [saga EXCEPT ![g] = r]
    BY <1>1 DEF Go
  <1> HIDE DEF r
  <1>4. ~ (r.tried > 0)
    BY <1>2
  <1> QED BY <1>1, <1>2, <1>3, <1>4, SagaGoes

\* The circuit breaker counts a failure when a call ends, and lets no call begin while
\* it is open, unless it has rested and forgets its count.
LEMMA BreakerStep ==
    ASSUME SagaInv, OrchestratorNext
    PROVE  SagasTyped' /\ BreakerCounts'
  <1> USE DEF SagaInv
  <1>0. /\ Calling \subseteq Submissions /\ Cardinality(Calling) \in Nat /\ IsFiniteSet(Calling)
        /\ Cardinality(Submissions) \in Nat /\ CircuitThreshold \in Nat \ {0}
        /\ breaker.failures \in Nat /\ breaker.state \in {"CLOSED", "OPEN", "HALF_OPEN"}
        /\ breaker.rested \in BOOLEAN
    BY CallingBounds, OrchestratorAssumption DEF Calling, OrchestratorAssumption, SagasTyped, BreakerState
  <1>1. ASSUME NEW g \in Submissions, saga' \in [Submissions -> SagaState], Calling' = Calling \ {g},
               breaker' = breaker
        PROVE  SagasTyped' /\ BreakerCounts'
    <2>1. Cardinality(Calling') <= Cardinality(Calling) /\ Cardinality(Calling') \in Nat
      BY <1>0, <1>1, FS_Subset, FS_CardinalityType
    <2> QED BY <1>0, <1>1, <2>1 DEF SagasTyped, BreakerCounts
  <1>2. ASSUME NEW g \in Submissions, StartSaga(g) \/ StoreSaga(g)
        PROVE  SagasTyped' /\ BreakerCounts'
    BY <1>1, <1>2, GoGoes DEF StartSaga, StoreSaga
  <1>3. CASE RestBreaker
    <2>1. breaker' \in BreakerState /\ breaker'.state = breaker.state /\ breaker'.failures = breaker.failures
      BY <1>3 DEF RestBreaker, SagasTyped, BreakerState
    <2>2. saga' = saga /\ Calling' = Calling
      BY <1>3 DEF RestBreaker, Calling, InCall
    <2> QED BY <1>0, <2>1, <2>2 DEF SagasTyped, BreakerCounts
  <1>4. ASSUME NEW g \in Submissions, NEW call \in {"debit", "undo"}, Call(g, call)
        PROVE  SagasTyped' /\ BreakerCounts'
    <2>1. CASE breaker.state = "OPEN" /\ ~ breaker.rested /\ Go(g, After(g, call)) /\ UNCHANGED breaker
      BY <1>1, <2>1, GoGoes DEF After
    <2>2. CASE CheckCircuit /\ saga' = [saga EXCEPT ![g].tried = 1]
      <3> DEFINE r == [saga[g] EXCEPT !.tried = 1]
      <3>1. r \in SagaState /\ r.tried > 0 /\ saga' = [saga EXCEPT ![g] = r]
        BY <2>2 DEF SagasTyped, SagaState
      <3> HIDE DEF r
      <3>2. saga' \in [Submissions -> SagaState] /\ Calling' = Calling \cup {g}
        BY <3>1, SagaGoes
      <3>3. Cardinality(Calling') \in Nat /\ Cardinality(Calling') <= Cardinality(Submissions)
        BY <1>0, <3>2, CallingBounds
      <3>4. breaker' \in BreakerState /\ breaker'.failures < CircuitThreshold
        <4>1. CASE breaker.state = "OPEN"
          <5>1. breaker' = [state |-> "HALF_OPEN", failures |-> 0, rested |-> FALSE]
            BY <2>2, <4>1 DEF CheckCircuit
          <5> QED BY <1>0, <5>1 DEF BreakerState
        <4>2. CASE breaker.state # "OPEN"
          <5>1. breaker' = breaker
            BY <2>2, <4>2 DEF CheckCircuit
          <5> QED BY <4>2, <5>1 DEF BreakerCounts, SagasTyped
        <4> QED BY <4>1, <4>2
      <3>5. breaker'.failures \in Nat
        BY <3>4 DEF BreakerState
      <3> QED BY <1>0, <3>2, <3>3, <3>4, <3>5 DEF SagasTyped, BreakerCounts
    <2> QED BY <1>4, <2>1, <2>2 DEF Call
  <1>5. ASSUME NEW g \in Submissions, NEW call \in {"debit", "undo"}, Attempt(g, call)
        PROVE  SagasTyped' /\ BreakerCounts'
    <2>0. g \in Calling
      BY <1>5 DEF Attempt, Calling
    <2>1. CASE saga' = [saga EXCEPT ![g].tried = @ + 1] /\ UNCHANGED breaker
      <3> DEFINE r == [saga[g] EXCEPT !.tried = @ + 1]
      <3>1. saga[g].tried \in Nat
        BY DEF SagasTyped, SagaState
      <3>2. r \in SagaState /\ r.tried > 0 /\ saga' = [saga EXCEPT ![g] = r]
        BY <2>1, <3>1 DEF SagasTyped, SagaState
      <3> HIDE DEF r
      <3>3. saga' \in [Submissions -> SagaState] /\ Calling' = Calling
        <4>1. saga' \in [Submissions -> SagaState] /\ Calling' = Calling \cup {g}
          BY <3>2, SagaGoes
        <4> QED BY <2>0, <4>1
      <3> QED BY <2>1, <3>3 DEF SagasTyped, BreakerCounts
    <2>2. CASE Go(g, After(g, call)) /\ RecordFailure
      <3>1. saga' \in [Submissions -> SagaState] /\ Calling' = Calling \ {g}
        BY <2>2, GoGoes DEF After
      <3>2. Cardinality(Calling') = Cardinality(Calling) - 1 /\ Cardinality(Calling') \in Nat
        BY <1>0, <2>0, <3>1, FS_RemoveElement, FS_CardinalityType
      <3>3. /\ breaker' \in BreakerState /\ breaker'.failures = breaker.failures + 1
            /\ breaker'.state # "OPEN" => breaker.failures + 1 < CircuitThreshold
        BY <1>0, <2>2 DEF RecordFailure, BreakerState
      <3> QED BY <1>0, <3>1, <3>2, <3>3 DEF SagasTyped, BreakerCounts
    <2> QED BY <1>5, <2>1, <2>2 DEF Attempt, TriedAgain
  <1> QED BY <1>2, <1>3, <1>4, <1>5 DEF OrchestratorNext

LEMMA SagaKept == SagaInv /\ UNCHANGED sagaVars => SagaInv'
  BY DEF SagaInv, SagasTyped, BreakerCounts, Calling, InCall, sagaVars

LEMMA SagaBegins == Init => SagaInv
  <1> SUFFICES ASSUME OrchestratorInit PROVE SagaInv
    BY DEF Init
  <1> USE DEF OrchestratorInit
  <1>1. SagasTyped /\ breaker.failures = 0
    BY DEF SagasTyped, SagaState, BreakerState
  <1>2. Calling = {}
    BY DEF Calling, InCall
  <1>3. /\ Cardinality(Calling) = 0 /\ Cardinality(Submissions) \in Nat
        /\ CircuitThreshold \in Nat \ {0}
    BY <1>2, FS_EmptySet, CallingBounds, OrchestratorAssumption DEF OrchestratorAssumption
  <1> QED BY <1>1, <1>3 DEF SagaInv, BreakerCounts

LEMMA SagaStep ==
    ASSUME SagaInv, [Next]_vars
    PROVE  SagaInv'
  <1>1. OrchestratorNext \/ UNCHANGED sagaVars
    BY DEF Next, vars
  <1> QED BY <1>1, BreakerStep, SagaKept DEF SagaInv

\* However the calls overlap, a service in trouble gets at most one failing call more
\* from each submission than the threshold of the circuit breaker allows.
THEOREM BreakerHolds == Spec => []FailuresAreBounded
  <1>1. SagaInv => FailuresAreBounded
    BY DEF SagaInv, BreakerCounts, Calling, FailuresAreBounded
  <1> QED BY <1>1, SagaBegins, SagaStep, PTL DEF Spec

(***************************************************************************)
(* The shop. On a product that may be tracked, on which no two handlers    *)
(* have overlapped, none has failed and no sale came too early, at most    *)
(* one is at work, and from where it stands follows how stock and          *)
(* movements differ.                                                       *)
(***************************************************************************)
ProductState == [row : {"none", "untracked", "created", "stocked"}, active : BOOLEAN]
WorkState == [at : {"idle", "refused", "update", "log", "log only", "done", "error"}, saw : Int]

ShopTyped ==
    /\ product \in [Products -> ProductState]
    /\ stock \in [Products -> Int] /\ moved \in [Products -> Int]
    /\ work \in [DOMAIN Works -> WorkState]

AtWork(w) == work[w].at \in {"update", "log", "log only"}
Apart(p) == \A v, w \in DOMAIN Works :
                Works[v].product = p /\ AtWork(v) /\ Works[w].product = p /\ AtWork(w) => v = w
Steady(p) == product[p].row # "untracked" /\ p \notin upset
Quiet(p) == \A w \in DOMAIN Works : Works[w].product = p => ~ AtWork(w)

\* Before its first write a handler knows the stock; between the two, stock and
\* movements differ by its change.
InStep(w) ==
    LET p == Works[w].product
        first == IF Works[w].kind = "adjust" THEN "update" ELSE "log" IN
    /\ work[w].at # "log only"
    /\ work[w].at = first => stock[p] = moved[p]
    /\ work[w].at = "log" /\ Works[w].kind = "adjust" => stock[p] = moved[p] + Works[w].change
    /\ work[w].at = "update" /\ Works[w].kind = "sale" => moved[p] = stock[p] + Works[w].change
    /\ work[w].at = "update" \/ work[w].at = first => work[w].saw = stock[p]

StockExplained(p) ==
    Steady(p) =>
        /\ Apart(p)
        /\ Quiet(p) => stock[p] = moved[p]
        /\ \A w \in DOMAIN Works : Works[w].product = p /\ AtWork(w) => InStep(w)

\* An adjustment does not go below zero.
AdjustsUpward ==
    \A w \in DOMAIN Works :
        Works[w].kind = "adjust" /\ work[w].at = "update" => work[w].saw + Works[w].change >= 0

SaleDone == \E w \in DOMAIN Works : Works[w].kind = "sale" /\ work[w].at = "done"

ShopInv ==
    /\ ShopTyped /\ AdjustsUpward
    /\ \A p \in Products : StockExplained(p) /\ (stock[p] < 0 => SaleDone)

\* A handler moves: it is the only one that does, on its own product.
HandlerMoves(w) ==
    /\ work' \in [DOMAIN Works -> WorkState] /\ work[w].at # "done"
    /\ stock' \in [Products -> Int] /\ moved' \in [Products -> Int]
    /\ \A v \in DOMAIN Works \ {w} : work'[v] = work[v]
    /\ \A p \in Products \ {Works[w].product} : stock'[p] = stock[p] /\ moved'[p] = moved[p]
    /\ upset \subseteq upset' /\ upset' \subseteq upset \cup {Works[w].product}
    /\ product' = product

LEMMA WorkTyped ==
    ASSUME NEW w \in DOMAIN Works
    PROVE  /\ Works[w].kind \in {"adjust", "sale"} /\ Works[w].product \in Products
           /\ Works[w].change \in Int
  BY CallersAssumption DEF CallersAssumption

\* What is left to show of a handler that moves is about itself and its product.
LEMMA HandlerKeeps ==
    ASSUME ShopInv, NEW w \in DOMAIN Works, HandlerMoves(w),
           StockExplained(Works[w].product)',
           stock'[Works[w].product] < 0 => stock[Works[w].product] < 0 \/ SaleDone',
           Works[w].kind = "adjust" /\ work'[w].at = "update" => work'[w].saw + Works[w].change >= 0
    PROVE  ShopInv'
  <1> USE DEF ShopInv
  <1>1. SaleDone => SaleDone'
    BY DEF HandlerMoves, SaleDone
  <1>2. AdjustsUpward'
    BY DEF HandlerMoves, AdjustsUpward
  <1>3. ASSUME NEW p \in Products, p # Works[w].product
        PROVE  StockExplained(p)' /\ (stock'[p] < 0 => SaleDone')
    <2>1. stock'[p] = stock[p] /\ moved'[p] = moved[p] /\ (Steady(p)' <=> Steady(p))
      BY <1>3 DEF HandlerMoves, Steady
    <2>2. \A v \in DOMAIN Works : Works[v].product = p => work'[v] = work[v]
      BY <1>3 DEF HandlerMoves
    <2>3. /\ Apart(p)' <=> Apart(p)
          /\ Quiet(p)' <=> Quiet(p)
          /\ \A v \in DOMAIN Works : Works[v].product = p /\ AtWork(v)' => AtWork(v)
      BY <2>2 DEF Apart, Quiet, AtWork
    <2>4. \A v \in DOMAIN Works : Works[v].product = p /\ InStep(v) => InStep(v)'
      BY <2>1, <2>2 DEF InStep
    <2> QED BY <1>1, <2>1, <2>3, <2>4 DEF StockExplained
  <1>4. ShopTyped'
    BY DEF HandlerMoves, ShopTyped
  <1>5. \A p \in Products : StockExplained(p)' /\ (stock'[p] < 0 => SaleDone')
    BY <1>1, <1>3, WorkTyped
  <1> QED BY <1>2, <1>4, <1>5 DEF StockExplained, SaleDone, AdjustsUpward, ShopTyped

\* A handler turns to another place, with the quantity it knows or with the stock.
LEMMA HandlerTurns ==
    ASSUME ShopInv, NEW w \in DOMAIN Works,
           NEW where \in {"refused", "update", "log", "log only", "done", "error"}, Shop!Turn(w, where)
    PROVE  /\ work' \in [DOMAIN Works -> WorkState]
           /\ work'[w].at = where /\ work'[w].saw = work[w].saw
           /\ \A v \in DOMAIN Works \ {w} : work'[v] = work[v]
  <1>1. work \in [DOMAIN Works -> WorkState]
    BY DEF ShopInv, ShopTyped
  <1> DEFINE r == [work[w] EXCEPT !.at = where]
  <1>2. r \in WorkState /\ r.at = where /\ r.saw = work[w].saw
    BY <1>1 DEF WorkState
  <1>3. work' = [work EXCEPT ![w] = r]
    BY <1>1 DEF Shop!Turn, WorkState
  <1> HIDE DEF r
  <1> QED BY <1>1, <1>2, <1>3

LEMMA HandlerSees ==
    ASSUME ShopInv, NEW w \in DOMAIN Works,
           NEW where \in {"refused", "update", "log", "log only", "done", "error"}, Shop!Sees(w, where)
    PROVE  /\ work' \in [DOMAIN Works -> WorkState]
           /\ work'[w].at = where /\ work'[w].saw = stock[Works[w].product]
           /\ \A v \in DOMAIN Works \ {w} : work'[v] = work[v]
  <1>1. work \in [DOMAIN Works -> WorkState] /\ stock[Works[w].product] \in Int
    BY WorkTyped DEF ShopInv, ShopTyped
  <1> DEFINE r == [at |-> where, saw |-> stock[Works[w].product]]
  <1>2. r \in WorkState /\ r.at = where /\ r.saw = stock[Works[w].product]
    BY <1>1 DEF WorkState
  <1>3. work' = [work EXCEPT ![w] = r]
    BY DEF Shop!Sees
  <1> HIDE DEF r
  <1> QED BY <1>1, <1>2, <1>3

\* A handler whose product is upset, or that is at rest, has little to keep.
LEMMA AtRest ==
    ASSUME ShopInv, NEW w \in DOMAIN Works, UNCHANGED <<product, stock, moved>>, upset \subseteq upset',
           \A v \in DOMAIN Works \ {w} : work'[v] = work[v],
           ~ AtWork(w), ~ AtWork(w)'
    PROVE  StockExplained(Works[w].product)'
  <1>1. Works[w].product \in Products
    BY WorkTyped
  <1>2. StockExplained(Works[w].product)
    BY <1>1 DEF ShopInv
  <1>3. \A v \in DOMAIN Works : AtWork(v)' => AtWork(v) /\ v # w /\ work'[v] = work[v]
    BY DEF AtWork
  <1>4. \A v \in DOMAIN Works : AtWork(v) => AtWork(v)'
    BY DEF AtWork
  <1>5. \A v \in DOMAIN Works : AtWork(v)' /\ InStep(v) => InStep(v)'
    BY <1>3 DEF InStep
  <1> QED BY <1>2, <1>3, <1>4, <1>5 DEF StockExplained, Steady, Apart, Quiet

\* A handler alone on its product, in step with it.
LEMMA Alone ==
    ASSUME NEW w \in DOMAIN Works, Steady(Works[w].product)' => InStep(w)',
           Steady(Works[w].product)' =>
               \A v \in DOMAIN Works \ {w} : Works[v].product = Works[w].product => ~ AtWork(v)',
           AtWork(w)'
    PROVE  StockExplained(Works[w].product)'
  BY DEF StockExplained, Apart, Quiet

\* A handler that was the last on its product, and leaves stock and movements agreeing.
LEMMA LastLeaves ==
    ASSUME NEW w \in DOMAIN Works,
           Steady(Works[w].product)' =>
               /\ stock'[Works[w].product] = moved'[Works[w].product]
               /\ \A v \in DOMAIN Works \ {w} : Works[v].product = Works[w].product => ~ AtWork(v)',
           ~ AtWork(w)'
    PROVE  StockExplained(Works[w].product)'
  BY DEF StockExplained, Apart, Quiet

LEMMA ReadStockKeeps ==
    ASSUME ShopInv, NEW w \in DOMAIN Works, Shop!ReadStock(w)
    PROVE  ShopInv'
  <1> DEFINE p == Works[w].product
             what == Works[w]
  <1>1. /\ work[w].at = "idle" /\ UNCHANGED <<product, stock, moved>>
        /\ upset' = IF Shop!Busy(p) # {} \/ product[p].row = "created" THEN upset \cup {p} ELSE upset
        /\ product[p].row # "none"
    BY DEF Shop!ReadStock, Shop!HasStock
  <1>2. /\ stock \in [Products -> Int] /\ moved \in [Products -> Int]
        /\ p \in Products /\ what.kind \in {"adjust", "sale"} /\ what.change \in Int
        /\ StockExplained(p) /\ ~ AtWork(w) /\ product[p] \in ProductState
    BY <1>1, WorkTyped DEF ShopInv, ShopTyped, AtWork
  <1>3. ASSUME Steady(p)'
        PROVE  Steady(p) /\ Shop!HasStock(p) /\ Quiet(p) /\ stock[p] = moved[p]
    <2>1. Steady(p) /\ Shop!Busy(p) = {} /\ product[p].row = "stocked"
      BY <1>1, <1>2, <1>3 DEF Steady, ProductState
    <2> QED BY <1>2, <2>1 DEF Shop!Busy, Shop!HasStock, Quiet, AtWork, StockExplained
  <1>4. upset \subseteq upset' /\ upset' \subseteq upset \cup {p}
    BY <1>1
  <1>5. CASE Shop!Turn(w, "refused")
    <2>1. HandlerMoves(w) /\ work'[w].at = "refused"
      BY <1>1, <1>2, <1>4, <1>5, HandlerTurns DEF HandlerMoves
    <2>2. ~ AtWork(w)'
      BY <2>1 DEF AtWork
    <2>3. StockExplained(p)'
      BY <1>1, <1>2, <1>4, <2>1, <2>2, AtRest DEF HandlerMoves
    <2>4. stock'[p] < 0 => stock[p] < 0
      BY <1>1
    <2>5. work'[w].at # "update"
      BY <2>1
    <2> QED BY <2>1, <2>3, <2>4, <2>5, HandlerKeeps
  <1>6. ASSUME NEW where \in {"update", "log", "log only"}, Shop!Sees(w, where),
               where = "update" => what.kind = "adjust" /\ stock[p] + what.change >= 0,
               where = "log" => what.kind = "sale",
               where = "log only" => ~ Shop!HasStock(p)
        PROVE  ShopInv'
    <2>1. HandlerMoves(w) /\ work'[w].at = where /\ work'[w].saw = stock[p]
      BY <1>1, <1>2, <1>4, <1>6, HandlerSees DEF HandlerMoves
    <2>2. AtWork(w)'
      BY <2>1 DEF AtWork
    <2>3. \A v \in DOMAIN Works \ {w} : AtWork(v)' <=> AtWork(v)
      BY <2>1 DEF HandlerMoves, AtWork
    <2>4. Steady(p)' => \A v \in DOMAIN Works \ {w} : Works[v].product = p => ~ AtWork(v)'
      BY <1>3, <2>3 DEF Quiet
    <2>5. Steady(p)' => InStep(w)'
      BY <1>1, <1>3, <1>6, <2>1 DEF InStep
    <2>6. StockExplained(p)'
      BY <2>2, <2>4, <2>5, Alone
    <2>7. stock'[p] < 0 => stock[p] < 0
      BY <1>1
    <2>8. what.kind = "adjust" /\ work'[w].at = "update" => work'[w].saw + what.change >= 0
      BY <1>6, <2>1
    <2> QED BY <2>1, <2>6, <2>7, <2>8, HandlerKeeps
  <1>7. CASE what.kind = "adjust" /\ stock[p] + what.change >= 0 /\ Shop!Sees(w, "update")
    BY <1>6, <1>7
  <1>8. CASE what.kind = "sale" /\ Shop!HasStock(p) /\ Shop!Sees(w, "log")
    BY <1>6, <1>8
  <1>9. CASE what.kind = "sale" /\ ~ Shop!HasStock(p) /\ Shop!Sees(w, "log only")
    BY <1>6, <1>9
  <1> QED BY <1>5, <1>7, <1>8, <1>9 DEF Shop!ReadStock

LEMMA UpdateStockKeeps ==
    ASSUME ShopInv, NEW w \in DOMAIN Works, Shop!UpdateStock(w)
    PROVE  ShopInv'
  <1> DEFINE p == Works[w].product
             what == Works[w]
             where == IF what.kind = "adjust" THEN "log" ELSE "done"
  <1>1. /\ work[w].at = "update" /\ UNCHANGED <<product, moved, upset>>
        /\ stock' = [stock EXCEPT ![p] = work[w].saw + what.change]
        /\ Shop!Turn(w, where)
    BY DEF Shop!UpdateStock
  <1>2. /\ stock \in [Products -> Int] /\ moved \in [Products -> Int]
        /\ p \in Products /\ what.kind \in {"adjust", "sale"} /\ what.change \in Int
        /\ StockExplained(p) /\ AtWork(w) /\ work[w].saw \in Int
    BY <1>1, WorkTyped DEF ShopInv, ShopTyped, AtWork, WorkState
  <1>3. /\ stock' \in [Products -> Int] /\ stock'[p] = work[w].saw + what.change
        /\ \A q \in Products \ {p} : stock'[q] = stock[q]
    BY <1>1, <1>2
  <1>4. HandlerMoves(w) /\ work'[w].at = where
    BY <1>1, <1>2, <1>3, HandlerTurns DEF HandlerMoves
  <1>5. Steady(p)' => \A v \in DOMAIN Works \ {w} : Works[v].product = p => ~ AtWork(v)'
    <2>1. \A v \in DOMAIN Works \ {w} : AtWork(v)' <=> AtWork(v)
      BY <1>4 DEF HandlerMoves, AtWork
    <2> QED BY <1>1, <1>2, <2>1 DEF StockExplained, Steady, Apart
  <1>6. Steady(p) => InStep(w)
    BY <1>2 DEF StockExplained
  <1>7. CASE what.kind = "adjust"
    <2>1. work'[w].at = "log" /\ AtWork(w)'
      BY <1>4, <1>7 DEF AtWork
    <2>2. Steady(p)' => stock'[p] = moved'[p] + what.change
      BY <1>1, <1>2, <1>3, <1>6, <1>7 DEF InStep, Steady
    <2>3. Steady(p)' => InStep(w)'
      BY <1>7, <2>1, <2>2 DEF InStep
    <2>4. StockExplained(p)'
      BY <1>5, <2>1, <2>3, Alone
    <2>5. work[w].saw + what.change >= 0
      BY <1>1, <1>7 DEF ShopInv, AdjustsUpward
    <2>6. stock'[p] < 0 => stock[p] < 0
      BY <1>2, <1>3, <2>5
    <2>7. work'[w].at # "update"
      BY <2>1
    <2> QED BY <1>4, <2>4, <2>6, <2>7, HandlerKeeps
  <1>8. CASE what.kind = "sale"
    <2>1. work'[w].at = "done" /\ ~ AtWork(w)'
      BY <1>4, <1>8 DEF AtWork
    <2>2. Steady(p)' => stock'[p] = moved'[p]
      BY <1>1, <1>2, <1>3, <1>6, <1>8 DEF InStep, Steady
    <2>3. StockExplained(p)'
      BY <1>5, <2>1, <2>2, LastLeaves
    <2>4. SaleDone'
      BY <1>8, <2>1 DEF SaleDone
    <2> QED BY <1>4, <1>8, <2>3, <2>4, HandlerKeeps
  <1> QED BY <1>2, <1>7, <1>8

LEMMA LogMovementKeeps ==
    ASSUME ShopInv, NEW w \in DOMAIN Works, Shop!LogMovement(w)
    PROVE  ShopInv'
  <1> DEFINE p == Works[w].product
             what == Works[w]
             where == IF what.kind = "adjust" \/ work[w].at = "log only" THEN "done" ELSE "update"
  <1>1. /\ work[w].at \in {"log", "log only"} /\ UNCHANGED <<product, stock, upset>>
        /\ moved' = [moved EXCEPT ![p] = @ + what.change]
        /\ Shop!Turn(w, where)
    BY DEF Shop!LogMovement
  <1>2. /\ stock \in [Products -> Int] /\ moved \in [Products -> Int]
        /\ p \in Products /\ what.kind \in {"adjust", "sale"} /\ what.change \in Int
        /\ StockExplained(p) /\ AtWork(w) /\ work[w].saw \in Int
    BY <1>1, WorkTyped DEF ShopInv, ShopTyped, AtWork, WorkState
  <1>3. /\ moved' \in [Products -> Int] /\ moved'[p] = moved[p] + what.change
        /\ \A q \in Products \ {p} : moved'[q] = moved[q]
    <2> DEFINE m == moved[p] + what.change
    <2>1. m \in Int /\ moved' = [moved EXCEPT ![p] = m]
      <3>1. moved[p] \in Int /\ what.change \in Int
        BY <1>2
      <3>2. moved' = [moved EXCEPT ![p] = @ + what.change]
        BY <1>1
      <3> HIDE DEF p, what
      <3> QED BY <3>1, <3>2
    <2> HIDE DEF m
    <2>2. moved' \in [Products -> Int] /\ moved'[p] = m /\ \A q \in Products \ {p} : moved'[q] = moved[q]
      BY <1>2, <2>1
    <2> QED BY <2>2 DEF m
  <1>4. HandlerMoves(w) /\ work'[w].at = where /\ work'[w].saw = work[w].saw
    BY <1>1, <1>2, <1>3, HandlerTurns DEF HandlerMoves
  <1>5. Steady(p)' => \A v \in DOMAIN Works \ {w} : Works[v].product = p => ~ AtWork(v)'
    <2>1. \A v \in DOMAIN Works \ {w} : AtWork(v)' <=> AtWork(v)
      BY <1>4 DEF HandlerMoves, AtWork
    <2> QED BY <1>1, <1>2, <2>1 DEF StockExplained, Steady, Apart
  <1>6. Steady(p) => InStep(w)
    BY <1>2 DEF StockExplained
  <1>7. CASE where = "done"
    <2>1. work'[w].at = "done" /\ ~ AtWork(w)'
      BY <1>4, <1>7 DEF AtWork
    <2>2. Steady(p)' => stock'[p] = moved'[p]
      BY <1>1, <1>2, <1>3, <1>6, <1>7 DEF InStep, Steady
    <2>3. StockExplained(p)'
      BY <1>5, <2>1, <2>2, LastLeaves
    <2>4. stock'[p] < 0 => stock[p] < 0
      BY <1>1
    <2>5. work'[w].at # "update"
      BY <2>1
    <2> QED BY <1>4, <2>3, <2>4, <2>5, HandlerKeeps
  <1>8. CASE where = "update"
    <2>1. /\ work'[w].at = "update" /\ AtWork(w)'
          /\ what.kind = "sale" /\ work[w].at = "log"
      BY <1>1, <1>2, <1>4, <1>8 DEF AtWork
    <2>2. Steady(p)' => /\ moved'[p] = stock'[p] + what.change
                             /\ work'[w].saw = stock'[p]
      BY <1>1, <1>2, <1>3, <1>4, <1>6, <2>1 DEF InStep, Steady
    <2>3. Steady(p)' => InStep(w)'
      BY <2>1, <2>2 DEF InStep
    <2>4. StockExplained(p)'
      BY <1>5, <2>1, <2>3, Alone
    <2>5. stock'[p] < 0 => stock[p] < 0
      BY <1>1
    <2>6. what.kind # "adjust"
      BY <2>1
    <2> QED BY <1>4, <2>4, <2>5, <2>6, HandlerKeeps
  <1> QED BY <1>7, <1>8

LEMMA BreakOffKeeps ==
    ASSUME ShopInv, NEW w \in DOMAIN Works, Shop!BreakOff(w)
    PROVE  ShopInv'
  <1> DEFINE p == Works[w].product
  <1>1. /\ work[w].at \in {"update", "log", "log only"} /\ UNCHANGED <<product, stock, moved>>
        /\ upset' = upset \cup {p} /\ Shop!Turn(w, "error")
    BY DEF Shop!BreakOff
  <1>2. HandlerMoves(w) /\ work'[w].at = "error"
    BY <1>1, HandlerTurns DEF HandlerMoves, ShopInv, ShopTyped
  <1>3. StockExplained(p)' /\ (stock'[p] < 0 => stock[p] < 0)
    BY <1>1 DEF StockExplained, Steady
  <1>4. work'[w].at # "update"
    BY <1>2
  <1> QED BY <1>2, <1>3, <1>4, HandlerKeeps

\* Products are made and change without their stock.
LEMMA ProductKeeps ==
    ASSUME ShopInv, NEW p \in Products, Shop!CreateProduct(p) \/ Shop!CreateStock(p) \/ Shop!ToggleActive(p)
    PROVE  /\ UNCHANGED <<stock, moved, work, upset>> /\ product' \in [Products -> ProductState]
           /\ \A q \in Products : Steady(q)' => Steady(q)
  <1>1. product \in [Products -> ProductState] /\ UNCHANGED <<stock, moved, work, upset>>
    BY DEF ShopInv, ShopTyped, Shop!CreateProduct, Shop!CreateStock, Shop!ToggleActive
  <1>2. PICK r \in ProductState :
          product' = [product EXCEPT ![p] = r] /\ (r.row = product[p].row \/ product[p].row # "untracked")
    <2>1. CASE Shop!CreateProduct(p)
      <3>1. PICK row \in {"created", "untracked"} :
              product' = [product EXCEPT ![p] = [row |-> row, active |-> TRUE]]
        BY <2>1 DEF Shop!CreateProduct
      <3>2. [row |-> row, active |-> TRUE] \in ProductState /\ product[p].row # "untracked"
        BY <2>1 DEF ProductState, Shop!CreateProduct
      <3> QED BY <3>1, <3>2
    <2>2. CASE Shop!CreateStock(p)
      <3> DEFINE r == [product[p] EXCEPT !.row = "stocked"]
      <3>1. r \in ProductState /\ product' = [product EXCEPT ![p] = r] /\ product[p].row # "untracked"
        BY <1>1, <2>2 DEF ProductState, Shop!CreateStock
      <3> QED BY <3>1
    <2>3. CASE Shop!ToggleActive(p)
      <3> DEFINE r == [product[p] EXCEPT !.active = ~ @]
      <3>1. r \in ProductState /\ product' = [product EXCEPT ![p] = r] /\ r.row = product[p].row
        BY <1>1, <2>3 DEF ProductState, Shop!ToggleActive
      <3> QED BY <3>1
    <2> QED BY <2>1, <2>2, <2>3
  <1> QED BY <1>1, <1>2 DEF Steady

\* The stock of a tracked product is the sum of its movements unless handlers have
\* overlapped, one has failed half way or a sale came before the stock row; and stock
\* below zero is the work of a sale.
THEOREM StockIsExplained == Spec => []MovementsExplainStock
  <1>1. Init => ShopInv
    <2> SUFFICES ASSUME Shop!InventoryInit PROVE ShopInv
      BY DEF Init
    <2> USE DEF Shop!InventoryInit
    <2>1. /\ \A w \in DOMAIN Works : work[w].at = "idle"
          /\ work \in [DOMAIN Works -> WorkState]
      BY DEF WorkState
    <2>4. stock \in [Products -> Int] /\ moved \in [Products -> Int] /\ product \in [Products -> ProductState]
      BY DEF ProductState
    <2>3. ShopTyped /\ AdjustsUpward /\ \A w \in DOMAIN Works : ~ AtWork(w)
      <3> HIDE DEF Shop!InventoryInit
      <3> QED BY <2>1, <2>4 DEF ShopTyped, AdjustsUpward, AtWork
    <2>2. \A p \in Products : stock[p] = 0 /\ moved[p] = 0
      OBVIOUS
    <2> QED BY <2>2, <2>3 DEF ShopInv, StockExplained, Apart, Quiet
  <1>2. ASSUME ShopInv, UNCHANGED <<stock, moved, work, upset>>, product' \in [Products -> ProductState],
               \A p \in Products : Steady(p)' => Steady(p)
        PROVE  ShopInv'
    <2>1. ShopTyped' /\ AdjustsUpward' /\ (SaleDone => SaleDone')
      BY <1>2 DEF ShopInv, ShopTyped, AdjustsUpward, SaleDone
    <2>2. \A w \in DOMAIN Works : (AtWork(w)' <=> AtWork(w)) /\ (InStep(w) => InStep(w)')
      BY <1>2 DEF AtWork, InStep
    <2>3. \A p \in Products : StockExplained(p)'
      BY <1>2, <2>2 DEF ShopInv, StockExplained, Apart, Quiet
    <2> QED BY <1>2, <2>1, <2>3 DEF ShopInv
  <1>3. ASSUME ShopInv, Shop!InventoryNext PROVE ShopInv'
    <2>1. CASE \E p \in Products : Shop!CreateProduct(p) \/ Shop!CreateStock(p) \/ Shop!ToggleActive(p)
      BY <1>2, <1>3, <2>1, ProductKeeps
    <2>2. CASE \E w \in DOMAIN Works : \/ Shop!ReadStock(w) \/ Shop!UpdateStock(w)
                                       \/ Shop!LogMovement(w) \/ Shop!BreakOff(w)
      BY <1>3, <2>2, ReadStockKeeps, UpdateStockKeeps, LogMovementKeeps, BreakOffKeeps
    <2> QED BY <1>3, <2>1, <2>2 DEF Shop!InventoryNext
  <1>4. ShopInv /\ [Next]_vars => ShopInv'
    <2>1. Next => Shop!InventoryNext \/ UNCHANGED shopVars
      BY DEF Next
    <2>2. ShopInv /\ UNCHANGED shopVars => ShopInv'
      BY <1>2 DEF shopVars, ShopInv, ShopTyped, Steady
    <2> QED BY <1>3, <2>1, <2>2 DEF vars
  <1>5. ShopInv => MovementsExplainStock
    BY DEF ShopInv, StockExplained, Steady, Quiet, AtWork, SaleDone,
           MovementsExplainStock, Shop!MovementsExplainStock, Shop!Busy, Shop!HasStock
  <1> QED BY <1>1, <1>4, <1>5, PTL DEF Spec

(***************************************************************************)
(* The lists. New lines push the others on to later offsets, so that the   *)
(* offset a history has come to never passes an old line it does not have. *)
(***************************************************************************)
ScrollState == [at : {"closed", "loading", "shown", "left"}, lines : Seq(Nat), hasMore : BOOLEAN,
                old : SUBSET Nat]

BookInv ==
    /\ book \in Seq(Nat)
    /\ \A i \in 1 .. Len(book) : book[i] <= Len(book)
    /\ \A i, j \in 1 .. Len(book) : book[i] = book[j] => i = j

\* The first n lines of the book are in the history, as far as they are old.
HasUpTo(n) == \A i \in 1 .. n : book[i] \in scroll.old => \E j \in 1 .. Len(scroll.lines) : scroll.lines[j] = book[i]

ScrollInv ==
    /\ scroll \in ScrollState
    /\ Len(scroll.lines) <= Len(book)
    /\ \A x \in scroll.old : \E i \in 1 .. Len(book) : book[i] = x
    /\ HasUpTo(Len(scroll.lines))
    /\ scroll.at = "shown" /\ ~ scroll.hasMore => HasUpTo(Len(book))

LEMMA LinesGot ==
    ASSUME BookInv, NEW skip \in 0 .. Len(book), NEW take \in Nat
    PROVE  LET got == Lists!Lines(skip, take) IN
           /\ got \in Seq(Nat)
           /\ Len(got) = IF skip + take < Len(book) THEN take ELSE Len(book) - skip
           /\ \A i \in 1 .. Len(got) : got[i] = book[skip + i]
  BY DEF BookInv, Lists!Lines

LEMMA LineInserted ==
    ASSUME BookInv, NEW p \in 1 .. Len(book) + 1, NEW e \in Nat
    PROVE  LET b == Lists!InsertAt(book, p, e) IN
           /\ b \in Seq(Nat) /\ Len(b) = Len(book) + 1
           /\ \A i \in 1 .. Len(b) : b[i] = IF i < p THEN book[i] ELSE IF i = p THEN e ELSE book[i - 1]
  <1> DEFINE left == SubSeq(book, 1, p - 1)
             right == SubSeq(book, p, Len(book))
             c == left \o <<e>>
  <1>1. /\ left \in Seq(Nat) /\ Len(left) = p - 1
        /\ \A i \in 1 .. p - 1 : left[i] = book[i]
    BY DEF BookInv
  <1>2. /\ right \in Seq(Nat) /\ Len(right) = Len(book) - p + 1
        /\ \A i \in 1 .. Len(book) - p + 1 : right[i] = book[p + i - 1]
    BY DEF BookInv
  <1> HIDE DEF left, right
  <1>3. /\ c \in Seq(Nat) /\ Len(c) = p
        /\ \A i \in 1 .. p : c[i] = IF i < p THEN book[i] ELSE e
    BY <1>1
  <1> HIDE DEF c
  <1>4. /\ c \o right \in Seq(Nat) /\ Len(c \o right) = Len(book) + 1
        /\ \A i \in 1 .. Len(book) + 1 :
             (c \o right)[i] = IF i < p THEN book[i] ELSE IF i = p THEN e ELSE book[i - 1]
    <2>0. Len(book) \in Nat
      BY DEF BookInv
    <2>1. c \o right \in Seq(Nat) /\ Len(c \o right) = Len(book) + 1
      <3>1. c \o right \in Seq(Nat) /\ Len(c \o right) = Len(c) + Len(right)
        <4>1. c \in Seq(Nat) /\ right \in Seq(Nat)
          BY <1>2, <1>3
        <4> QED BY <4>1
      <3>2. p + (Len(book) - p + 1) = Len(book) + 1
        BY <2>0
      <3> QED BY <1>2, <1>3, <3>1, <3>2
    <2>2. ASSUME NEW i \in 1 .. Len(book) + 1
          PROVE  (c \o right)[i] = IF i <= p THEN c[i] ELSE right[i - p]
      BY <1>2, <1>3, <2>0
    <2>3. ASSUME NEW i \in 1 .. Len(book) + 1, i > p PROVE right[i - p] = book[i - 1]
      <3>1. i - p \in 1 .. Len(book) - p + 1
        BY <2>0, <2>3
      <3>2. p + (i - p) - 1 = i - 1
        BY <2>0
      <3> QED BY <1>2, <3>1, <3>2
    <2> QED BY <1>3, <2>0, <2>1, <2>2, <2>3
  <1>5. Lists!InsertAt(book, p, e) = c \o right
    BY DEF Lists!InsertAt, c, left, right
  <1> QED BY <1>4, <1>5

\* A line is committed: it is new, and no old line comes nearer to the beginning.
LEMMA CommitKeeps ==
    ASSUME BookInv, ScrollInv, Lists!CommitLine
    PROVE  BookInv' /\ ScrollInv'
  <1>0. Len(book) \in Nat /\ scroll' = scroll
    BY DEF BookInv, Lists!CommitLine
  <1>1. PICK p \in 1 .. Len(book) + 1 : book' = Lists!InsertAt(book, p, Len(book) + 1) /\ p <= 2
    <2>1. PICK p \in 1 .. (IF book = << >> THEN 1 ELSE 2) : book' = Lists!InsertAt(book, p, Len(book) + 1)
      BY DEF Lists!CommitLine
    <2>2. CASE book = << >>
      BY <2>1, <2>2
    <2>3. CASE book # << >>
      <3>1. Len(book) > 0
        BY <2>3 DEF BookInv
      <3>2. p \in 1 .. 2 /\ 2 <= Len(book) + 1
        BY <1>0, <2>1, <2>3, <3>1
      <3> QED BY <1>0, <2>1, <3>2
    <2> QED BY <2>2, <2>3
  <1> DEFINE e == Len(book) + 1
  <1>2. /\ book' \in Seq(Nat) /\ Len(book') = Len(book) + 1
        /\ \A i \in 1 .. Len(book) + 1 :
             book'[i] = IF i < p THEN book[i] ELSE IF i = p THEN e ELSE book[i - 1]
    <2>1. e \in Nat /\ book' = Lists!InsertAt(book, p, e)
      BY <1>0, <1>1
    <2> HIDE DEF e
    <2> DEFINE b == Lists!InsertAt(book, p, e)
    <2>2. /\ b \in Seq(Nat) /\ Len(b) = Len(book) + 1
          /\ \A i \in 1 .. Len(b) : b[i] = IF i < p THEN book[i] ELSE IF i = p THEN e ELSE book[i - 1]
      <3>1. e \in Nat
        BY <2>1
      <3> QED BY <3>1, LineInserted
    <2>3. book' = b
      BY <2>1
    <2> HIDE DEF b
    <2> QED BY <2>2, <2>3
  \* Where a line was, and where it is now.
  <1>3. ASSUME NEW i \in 1 .. Len(book)
        PROVE  \E k \in 1 .. Len(book) + 1 : book'[k] = book[i] /\ k <= i + 1
    <2>1. CASE i < p
      <3>1. i \in 1 .. Len(book) + 1 /\ i <= i + 1
        BY <1>0
      <3>2. book'[i] = book[i]
        BY <1>2, <2>1, <3>1
      <3> QED BY <3>1, <3>2
    <2>2. CASE i >= p
      <3>1. i + 1 <= i + 1 /\ i + 1 \in 1 .. Len(book) + 1 /\ ~ (i + 1 < p) /\ i + 1 # p /\ (i + 1) - 1 = i
        BY <1>0, <2>2
      <3>2. book'[i + 1] = book[i]
        BY <1>2, <3>1
      <3> QED BY <3>1, <3>2
    <2> QED BY <1>0, <2>1, <2>2
  <1>4. ASSUME NEW k \in 1 .. Len(book) + 1
        PROVE  \/ k = p /\ book'[k] = e
               \/ \E i \in 1 .. Len(book) :
                     book'[k] = book[i] /\ i <= k /\ k # p /\ i = IF k < p THEN k ELSE k - 1
    <2>1. CASE k < p
      BY <1>0, <1>2, <2>1
    <2>2. CASE k = p
      BY <1>2, <2>2
    <2>3. CASE k > p
      <3>1. k - 1 \in 1 .. Len(book) /\ ~ (k < p) /\ k # p /\ k - 1 <= k
        BY <1>0, <2>3
      <3> QED BY <1>2, <3>1
    <2> QED BY <1>0, <2>1, <2>2, <2>3
  <1>5. \A i \in 1 .. Len(book) : book[i] \in Nat /\ book[i] # e
    <2> SUFFICES ASSUME NEW i \in 1 .. Len(book) PROVE book[i] \in Nat /\ book[i] # e
      OBVIOUS
    <2>1. book[i] \in Nat /\ book[i] <= Len(book)
      BY DEF BookInv
    <2> QED BY <1>0, <2>1
  <1>6. BookInv'
    <2>1. \A k \in 1 .. Len(book) + 1 : book'[k] <= Len(book) + 1
      <3> SUFFICES ASSUME NEW k \in 1 .. Len(book) + 1 PROVE book'[k] <= Len(book) + 1
        OBVIOUS
      <3>1. CASE book'[k] = e
        BY <1>0, <3>1
      <3>2. CASE \E i \in 1 .. Len(book) : book'[k] = book[i]
        <4>1. PICK i \in 1 .. Len(book) : book'[k] = book[i]
          BY <3>2
        <4>2. book[i] <= Len(book) /\ book[i] \in Nat
          BY <1>5 DEF BookInv
        <4> QED BY <1>0, <4>1, <4>2
      <3> QED BY <1>4, <3>1, <3>2
    <2>2. ASSUME NEW k \in 1 .. Len(book) + 1, NEW l \in 1 .. Len(book) + 1, book'[k] = book'[l]
          PROVE  k = l
      <3>1. CASE k = p /\ book'[k] = e
        BY <1>4, <1>5, <2>2, <3>1
      <3>2. CASE l = p /\ book'[l] = e
        BY <1>4, <1>5, <2>2, <3>2
      <3>3. CASE k # p /\ l # p
        <4>1. PICK i \in 1 .. Len(book) : book'[k] = book[i] /\ i = IF k < p THEN k ELSE k - 1
          BY <1>4, <3>3
        <4>2. PICK j \in 1 .. Len(book) : book'[l] = book[j] /\ j = IF l < p THEN l ELSE l - 1
          BY <1>4, <3>3
        <4>3. i = j
          BY <2>2, <4>1, <4>2 DEF BookInv
        <4> QED BY <1>0, <3>3, <4>1, <4>2, <4>3
      <3> QED BY <1>4, <3>1, <3>2, <3>3
    <2> QED BY <1>2, <2>1, <2>2 DEF BookInv
  <1>7. ASSUME NEW n \in 0 .. Len(book), HasUpTo(n), NEW m \in Nat, m = n \/ (n = Len(book) /\ m = n + 1)
        PROVE  \A k \in 1 .. m : book'[k] \in scroll.old =>
                   \E j \in 1 .. Len(scroll.lines) : scroll.lines[j] = book'[k]
    <2> SUFFICES ASSUME NEW k \in 1 .. m, book'[k] \in scroll.old
                 PROVE  \E j \in 1 .. Len(scroll.lines) : scroll.lines[j] = book'[k]
      OBVIOUS
    <2>1. book'[k] # e
      BY <1>5 DEF ScrollInv
    <2>2. k \in 1 .. Len(book) + 1
      BY <1>0, <1>7
    <2>3. PICK i \in 1 .. Len(book) : book'[k] = book[i] /\ i = IF k < p THEN k ELSE k - 1
      BY <1>4, <2>1, <2>2
    <2>4. CASE i <= n
      BY <1>7, <2>3, <2>4 DEF HasUpTo
    <2>5. CASE i > n
      BY <1>0, <1>7, <2>3, <2>5
    <2> QED BY <1>0, <2>4, <2>5
  <1>8. ScrollInv'
    <2> DEFINE L == Len(scroll.lines)
    <2>1. L \in 0 .. Len(book) /\ L \in Nat
      BY <1>0 DEF ScrollInv, ScrollState
    <2>2. HasUpTo(L)'
      BY <1>0, <1>7, <2>1 DEF ScrollInv, HasUpTo
    <2>3. scroll.at = "shown" /\ ~ scroll.hasMore => HasUpTo(Len(book))'
      <3>1. HasUpTo(Len(book)) => \A k \in 1 .. Len(book) + 1 : book'[k] \in scroll.old =>
                   \E j \in 1 .. Len(scroll.lines) : scroll.lines[j] = book'[k]
        BY <1>0, <1>7
      <3> QED BY <1>0, <1>2, <3>1 DEF ScrollInv, HasUpTo
    <2>4. \A x \in scroll.old : \E k \in 1 .. Len(book) + 1 : book'[k] = x
      BY <1>3 DEF ScrollInv
    <2>5. L <= Len(book')
      BY <1>0, <1>2, <2>1
    <2> QED BY <1>0, <1>2, <2>2, <2>3, <2>4, <2>5 DEF ScrollInv
  <1> QED BY <1>6, <1>8

\* Two sequences, one after the other.
LEMMA Joined ==
    ASSUME NEW s \in Seq(Nat), NEW t \in Seq(Nat)
    PROVE  /\ s \o t \in Seq(Nat) /\ Len(s \o t) = Len(s) + Len(t)
           /\ \A i \in 1 .. Len(s) : i \in 1 .. Len(s \o t) /\ (s \o t)[i] = s[i]
           /\ \A i \in 1 .. Len(t) : Len(s) + i \in 1 .. Len(s \o t) /\ (s \o t)[Len(s) + i] = t[i]
  OBVIOUS

\* The first elements of a sequence are finitely many, and as many as there are places
\* if none is repeated.
FirstOf(s, m) == {s[i] : i \in 1 .. m}

LEMMA FirstElements ==
    ASSUME NEW s \in Seq(Nat), NEW m \in Nat, m <= Len(s)
    PROVE  /\ IsFiniteSet(FirstOf(s, m))
           /\ (\A i, j \in 1 .. Len(s) : s[i] = s[j] => i = j) => Cardinality(FirstOf(s, m)) = m
  <1> DEFINE S == FirstOf(s, m)
             f == [i \in 1 .. m |-> s[i]]
  <1>1. f \in Surjection(1 .. m, S)
    BY DEF Surjection, FirstOf
  <1>2. IsFiniteSet(1 .. m) /\ Cardinality(1 .. m) = m
    BY FS_Interval
  <1>3. ASSUME \A i, j \in 1 .. Len(s) : s[i] = s[j] => i = j
        PROVE  f \in Injection(1 .. m, S)
    <2>1. \A i \in 1 .. m : i \in 1 .. Len(s) /\ f[i] = s[i]
      OBVIOUS
    <2>2. f \in [1 .. m -> S]
      BY DEF FirstOf
    <2> HIDE DEF f, S
    <2> QED BY <1>3, <2>1, <2>2 DEF Injection, IsInjective
  <1> HIDE DEF S, f
  <1>4. IsFiniteSet(S) /\ (f \in Injection(1 .. m, S) => Cardinality(S) = m)
    BY <1>1, <1>2, FS_Surjection
  <1>5. (\A i, j \in 1 .. Len(s) : s[i] = s[j] => i = j) => Cardinality(S) = m
    BY <1>3, <1>4
  <1> QED BY <1>4, <1>5 DEF S

\* The next page is what follows the lines received, and a short one is the last.
LEMMA LoadKeeps ==
    ASSUME BookInv, ScrollInv, Lists!Load
    PROVE  BookInv' /\ ScrollInv'
  <1> DEFINE n == Len(scroll.lines)
             more == Lists!Lines(n, PageSize)
             lines == scroll.lines \o more
             old == IF n = 0 THEN Lists!ToSet(book) ELSE scroll.old
  <1>1. /\ scroll.lines \in Seq(Nat) /\ n \in 0 .. Len(book) /\ n \in Nat /\ Len(book) \in Nat
        /\ PageSize \in Nat /\ PageSize > 0 /\ book \in Seq(Nat)
    BY CallersAssumption DEF CallersAssumption, BookInv, ScrollInv, ScrollState
  <1>2. /\ scroll' = [at |-> "shown", lines |-> lines, hasMore |-> Len(more) = PageSize, old |-> old]
        /\ book' = book
    BY DEF Lists!Load
  <1>3. /\ more \in Seq(Nat)
        /\ Len(more) = IF n + PageSize < Len(book) THEN PageSize ELSE Len(book) - n
        /\ \A i \in 1 .. Len(more) : more[i] = book[n + i]
    BY <1>1, LinesGot
  <1> HIDE DEF more
  <1>4. lines \in Seq(Nat) /\ Len(lines) = n + Len(more)
    BY <1>1, <1>3, Joined
  <1>5. \A i \in 1 .. n : i \in 1 .. Len(lines) /\ lines[i] = scroll.lines[i]
    BY <1>1, <1>3, Joined
  <1>6. \A i \in 1 .. Len(more) : n + i \in 1 .. Len(lines) /\ lines[n + i] = book[n + i]
    BY <1>1, <1>3, Joined
  <1> HIDE DEF lines
  <1>7. Len(lines) <= Len(book) /\ (Len(more) # PageSize => Len(lines) = Len(book))
    <2>1. CASE n + PageSize < Len(book)
      <3>1. Len(more) = PageSize /\ Len(lines) = n + PageSize
        BY <1>3, <1>4, <2>1
      <3> QED BY <1>1, <2>1, <3>1
    <2>2. CASE ~ (n + PageSize < Len(book))
      <3>1. Len(lines) = n + (Len(book) - n)
        BY <1>3, <1>4, <2>2
      <3> HIDE DEF n
      <3> QED BY <1>1, <3>1
    <2> QED BY <2>1, <2>2
  <1>8. ASSUME NEW i \in 1 .. Len(lines), book[i] \in old
        PROVE  \E j \in 1 .. Len(lines) : lines[j] = book[i]
    <2>1. CASE i <= n
      <3>1. n # 0 /\ book[i] \in scroll.old /\ i \in 1 .. n
        BY <1>1, <1>8, <2>1
      <3>2. PICK j \in 1 .. n : scroll.lines[j] = book[i]
        BY <3>1 DEF ScrollInv, HasUpTo
      <3> QED BY <1>5, <3>2
    <2>2. CASE i > n
      <3>1. i - n \in 1 .. Len(more) /\ n + (i - n) = i
        <4>1. Len(more) \in Nat /\ i \in 1 .. n + Len(more)
          <5>1. Len(more) \in Nat
            BY <1>3
          <5> QED BY <1>4, <5>1
        <4> HIDE DEF n
        <4> QED BY <1>1, <2>2, <4>1
      <3>2. lines[i] = book[i]
        BY <1>6, <3>1
      <3> QED BY <3>2
    <2> QED BY <1>1, <1>4, <2>1, <2>2
  <1>9. old \subseteq Nat /\ \A x \in old : \E i \in 1 .. Len(book) : book[i] = x
    BY <1>1 DEF ScrollInv, ScrollState, Lists!ToSet
  <1> HIDE DEF old
  <1>10. /\ scroll'.at = "shown" /\ scroll'.lines = lines /\ scroll'.old = old
         /\ scroll'.hasMore = (Len(more) = PageSize)
    BY <1>2
  <1>11. scroll' \in ScrollState
    <2>1. scroll'.hasMore \in BOOLEAN
      BY <1>10
    <2>2. scroll' = [at |-> "shown", lines |-> lines, hasMore |-> scroll'.hasMore, old |-> old]
      BY <1>2
    <2> QED BY <1>4, <1>9, <2>1, <2>2 DEF ScrollState
  <1>12. BookInv'
    BY <1>2 DEF BookInv
  <1>13. /\ HasUpTo(Len(scroll.lines))'
         /\ scroll'.at = "shown" /\ ~ scroll'.hasMore => HasUpTo(Len(book))'
    BY <1>2, <1>7, <1>8, <1>10 DEF HasUpTo
  <1> QED BY <1>2, <1>7, <1>9, <1>10, <1>11, <1>12, <1>13 DEF ScrollInv

\* The history opens, is left, or asks for more: it shows what it showed.
LEMMA ScrollTurns ==
    ASSUME BookInv, ScrollInv, book' = book, NEW at \in {"loading", "left"},
           scroll' = [scroll EXCEPT !.at = at]
    PROVE  BookInv' /\ ScrollInv'
  <1>1. /\ scroll' \in ScrollState /\ scroll'.at = at /\ scroll'.lines = scroll.lines
        /\ scroll'.old = scroll.old
    BY DEF ScrollInv, ScrollState
  <1> QED BY <1>1 DEF BookInv, ScrollInv, HasUpTo

\* The lines received are at least as many different ones as there were old lines among
\* the first of the book.
LEMMA FewRepeated ==
    ASSUME BookInv, ScrollInv
    PROVE  Len(scroll.lines) - Cardinality(Lists!ToSet(scroll.lines)) <= Len(book) - Cardinality(scroll.old)
  <1> DEFINE n == Len(scroll.lines)
             N == Len(book)
             first == FirstOf(book, n)
             all == FirstOf(book, N)
             seen == Lists!ToSet(scroll.lines)
             old == scroll.old
  <1>1. /\ n \in Nat /\ N \in Nat /\ n <= N /\ scroll.lines \in Seq(Nat) /\ book \in Seq(Nat)
    BY DEF BookInv, ScrollInv, ScrollState
  <1>2. /\ IsFiniteSet(first) /\ Cardinality(first) = n
        /\ IsFiniteSet(all) /\ Cardinality(all) = N
    BY <1>1, FirstElements DEF BookInv
  <1>4. seen = FirstOf(scroll.lines, n)
    <2>1. DOMAIN scroll.lines = 1 .. n
      BY <1>1
    <2> QED BY <2>1 DEF Lists!ToSet, FirstOf
  <1>5. IsFiniteSet(seen)
    BY <1>1, <1>4, FirstElements
  <1>13. old \subseteq all
    BY DEF ScrollInv, FirstOf
  <1>14. first \subseteq all
    BY <1>1 DEF FirstOf
  <1>15. first \cap old \subseteq seen
    BY <1>4 DEF ScrollInv, HasUpTo, FirstOf
  <1> HIDE DEF first, all, seen
  <1>6. IsFiniteSet(old)
    BY <1>2, <1>13, FS_Subset
  <1>7. Cardinality(first \cap old) <= Cardinality(seen)
    BY <1>5, <1>15, FS_Subset
  <1>8. Cardinality(first \ old) = n - Cardinality(first \cap old)
    BY <1>2, FS_Difference
  <1>9. Cardinality(all \ old) = N - Cardinality(old)
    <2>1. all \cap old = old
      BY <1>13
    <2>2. Cardinality(all \ old) = Cardinality(all) - Cardinality(all \cap old)
      BY <1>2, FS_Difference
    <2> HIDE DEF N, old
    <2> QED BY <1>2, <2>1, <2>2
  <1>10. Cardinality(first \ old) <= Cardinality(all \ old)
    <2>1. first \ old \subseteq all \ old
      BY <1>14
    <2>2. IsFiniteSet(all \ old)
      BY <1>2, FS_Difference
    <2> QED BY <2>1, <2>2, FS_Subset
  <1>11. /\ Cardinality(first \cap old) \in Nat /\ Cardinality(seen) \in Nat /\ Cardinality(old) \in Nat
    <2>1. IsFiniteSet(first \cap old)
      BY <1>5, <1>15, FS_Subset
    <2> QED BY <1>5, <1>6, <2>1, FS_CardinalityType
  <1>12. n - Cardinality(seen) <= N - Cardinality(old)
    BY <1>1, <1>7, <1>8, <1>9, <1>10, <1>11
  <1> QED BY <1>12 DEF seen

\* A table that nobody has crossed waits for one answer at most, that of its page.
TableInv ==
    /\ DOMAIN table = {"open", "page", "lines", "of", "hasMore", "loading", "error", "crossed"}
    /\ \A f \in fetches : DOMAIN f = {"id", "page", "read", "got"}
    /\ ~ table.crossed =>
           /\ fetches = {} \/ \E f : fetches = {f} /\ f.page = table.page /\ table.loading
           /\ table.open /\ ~ table.loading /\ ~ table.error => table.of = table.page

LEMMA FetchKeeps ==
    ASSUME TableInv, NEW where, Lists!Fetch(where)
    PROVE  TableInv'
  <1> DEFINE g == [id |-> fetched', page |-> where, read |-> FALSE, got |-> << >>]
  <1>1. /\ DOMAIN table' = DOMAIN table
        /\ table'.page = where /\ table'.loading = TRUE
        /\ table'.crossed = (table.crossed \/ fetches # {})
    BY DEF TableInv, Lists!Fetch
  <1>2. fetches' = fetches \cup {g} /\ g.page = where /\ DOMAIN g = {"id", "page", "read", "got"}
    BY DEF Lists!Fetch
  <1> HIDE DEF g
  <1> QED BY <1>1, <1>2 DEF TableInv

LEMMA TableStep ==
    ASSUME TableInv, NEW f \in fetches, Lists!ReadLines(f) \/ Lists!ShowLines(f) \/ Lists!FailFetch(f)
    PROVE  TableInv'
  <1>1. CASE Lists!ReadLines(f)
    <2> DEFINE got == Lists!Lines((f.page - 1) * PageSize, PageSize + 1)
               g == [f EXCEPT !.read = TRUE, !.got = got]
    <2>1. fetches' = (fetches \ {f}) \cup {g} /\ table' = table
      BY <1>1 DEF Lists!ReadLines
    <2> HIDE DEF got
    <2>2. DOMAIN g = {"id", "page", "read", "got"} /\ g.page = f.page
      BY DEF TableInv
    <2> HIDE DEF g
    <2>3. ASSUME ~ table.crossed, fetches # {}
          PROVE  fetches' = {g} /\ g.page = table.page /\ table.loading
      BY <2>1, <2>2, <2>3 DEF TableInv
    <2> QED BY <2>1, <2>2, <2>3 DEF TableInv
  <1>2. CASE Lists!ShowLines(f)
    <2> DEFINE lines == SubSeq(f.got, 1, IF Len(f.got) < PageSize THEN Len(f.got) ELSE PageSize)
               more == Len(f.got) > PageSize
    <2>1. /\ table' = [table EXCEPT !.lines = lines, !.of = f.page, !.hasMore = more, !.loading = FALSE]
          /\ fetches' = fetches \ {f}
      BY <1>2 DEF Lists!ShowLines
    <2> HIDE DEF lines, more
    <2>2. /\ DOMAIN table' = DOMAIN table /\ table'.of = f.page /\ table'.page = table.page
          /\ table'.crossed = table.crossed
      BY <2>1 DEF TableInv
    <2>3. ~ table.crossed => fetches' = {} /\ f.page = table.page
      BY <2>1 DEF TableInv
    <2> QED BY <2>1, <2>2, <2>3 DEF TableInv
  <1>3. CASE Lists!FailFetch(f)
    <2>1. /\ DOMAIN table' = DOMAIN table /\ table'.error = TRUE /\ table'.crossed = table.crossed
          /\ fetches' = fetches \ {f}
      BY <1>3 DEF TableInv, Lists!FailFetch
    <2>2. ~ table.crossed => fetches' = {}
      BY <2>1 DEF TableInv
    <2> QED BY <2>1, <2>2 DEF TableInv
  <1> QED BY <1>1, <1>2, <1>3

ListsInv == BookInv /\ ScrollInv /\ TableInv

LEMMA ListsStep ==
    ASSUME ListsInv, Lists!HistoryNext
    PROVE  ListsInv'
  <1> USE DEF ListsInv
  <1>1. ASSUME UNCHANGED <<table, fetches>> PROVE TableInv'
    BY <1>1 DEF TableInv
  <1>2. ASSUME UNCHANGED <<book, scroll>> PROVE BookInv' /\ ScrollInv'
    BY <1>2 DEF BookInv, ScrollInv, HasUpTo
  <1>3. CASE Lists!CommitLine
    <2>1. UNCHANGED <<table, fetches>>
      BY <1>3 DEF Lists!CommitLine
    <2> QED BY <1>1, <1>3, <2>1, CommitKeeps
  <1>4. CASE Lists!Load
    <2>1. UNCHANGED <<table, fetches>>
      BY <1>4 DEF Lists!Load
    <2> QED BY <1>1, <1>4, <2>1, LoadKeeps
  <1>5. CASE Lists!OpenHistory \/ Lists!LeaveForLogin \/ Lists!LoadMore
    <2>1. /\ UNCHANGED <<book, table, fetches>>
          /\ \E at \in {"loading", "left"} : scroll' = [scroll EXCEPT !.at = at]
      BY <1>5 DEF Lists!OpenHistory, Lists!LeaveForLogin, Lists!LoadMore
    <2> QED BY <1>1, <2>1, ScrollTurns
  <1>6. CASE \E where : Lists!Fetch(where)
    <2>1. UNCHANGED <<book, scroll>>
      BY <1>6 DEF Lists!Fetch
    <2> QED BY <1>2, <1>6, <2>1, FetchKeeps
  <1>7. CASE \E f \in fetches : Lists!ReadLines(f) \/ Lists!ShowLines(f) \/ Lists!FailFetch(f)
    <2>1. UNCHANGED <<book, scroll>>
      BY <1>7 DEF Lists!ReadLines, Lists!ShowLines, Lists!FailFetch
    <2> QED BY <1>2, <1>7, <2>1, TableStep
  <1>8. Lists!OpenTable \/ Lists!TurnPage \/ Lists!ChangeFilter => \E where : Lists!Fetch(where)
    BY DEF Lists!OpenTable, Lists!TurnPage, Lists!ChangeFilter
  <1> QED BY <1>3, <1>4, <1>5, <1>6, <1>7, <1>8 DEF Lists!HistoryNext

\* A history read to its end has every line there was when it was opened and repeats no
\* more than were committed meanwhile; the table shows the page it names unless it was
\* crossed.
THEOREM ListsAreComplete == Spec => []HistoryIsComplete
  <1>1. Init => ListsInv
    <2> SUFFICES ASSUME Lists!HistoryInit PROVE ListsInv
      BY DEF Init
    <2>1. /\ book = << >> /\ fetches = {}
          /\ scroll = [at |-> "closed", lines |-> << >>, hasMore |-> TRUE, old |-> {}]
      BY DEF Lists!HistoryInit
    <2>2. BookInv
      BY <2>1 DEF BookInv
    <2>3. ScrollInv
      BY <2>1 DEF ScrollInv, ScrollState, HasUpTo
    <2>4. TableInv
      BY <2>1 DEF TableInv, Lists!HistoryInit
    <2> QED BY <2>2, <2>3, <2>4 DEF ListsInv
  <1>2. ListsInv /\ [Next]_vars => ListsInv'
    <2>1. ListsInv /\ UNCHANGED listVars => ListsInv'
      BY DEF listVars, ListsInv, BookInv, ScrollInv, HasUpTo, TableInv
    <2> QED BY <2>1, ListsStep DEF Next, vars
  <1>3. ASSUME ListsInv PROVE HistoryIsComplete
    <2>1. /\ BookInv /\ ScrollInv /\ TableInv /\ scroll.lines \in Seq(Nat)
      BY <1>3 DEF ListsInv, ScrollInv, ScrollState
    <2>2. scroll.at = "shown" /\ ~ scroll.hasMore => scroll.old \subseteq Lists!ToSet(scroll.lines)
      <3> SUFFICES ASSUME scroll.at = "shown", ~ scroll.hasMore, NEW x \in scroll.old
                   PROVE  x \in Lists!ToSet(scroll.lines)
        OBVIOUS
      <3>1. PICK i \in 1 .. Len(book) : book[i] = x
        BY <2>1 DEF ScrollInv
      <3>2. PICK j \in 1 .. Len(scroll.lines) : scroll.lines[j] = x
        BY <2>1, <3>1 DEF ScrollInv, HasUpTo
      <3> QED BY <2>1, <3>2 DEF Lists!ToSet
    <2>3. Lists!Idle /\ ~ table.error /\ ~ table.crossed => table.of = table.page
      BY <2>1 DEF TableInv, Lists!Idle
    <2>4. \A S : Lists!Cardinality(S) = Cardinality(S)
      BY DEF Lists!Cardinality, Cardinality
    <2> QED BY <2>1, <2>2, <2>3, <2>4, FewRepeated DEF HistoryIsComplete, Lists!HistoryIsComplete
  <1> QED BY <1>1, <1>2, <1>3, PTL DEF Spec
=============================================================================
