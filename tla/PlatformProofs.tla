---------------------------- MODULE PlatformProofs ----------------------------
(***************************************************************************)
(* Proofs about the money-moving services together, for any wallets,       *)
(* orders, calls and crashes: what the handlers of one service have judged *)
(* stays true while those of the others work on the same rows, the tables  *)
(* explain every balance and every answer, a QR code is what its payments  *)
(* have made of it, payments and QR payments implement Transfers, and the  *)
(* figures of a report differ by what was committed while it ran.          *)
(***************************************************************************)
EXTENDS Platform, WalletDbProofs, TLAPS

(***************************************************************************)
(* The services mean the same by the operators of Money and WalletDb.      *)
(***************************************************************************)
LEMMA PaymentOperators ==
    ASSUME NEW c, NEW w, NEW o, NEW D, NEW bal, NEW st, NEW b
    PROVE  /\ Payments!LockRow(c, w) <=> LockRow(c, w)
           /\ Payments!CanLock(c, w) <=> CanLock(c, w)
           /\ Payments!ReleaseAll(D) <=> ReleaseAll(D)
           /\ Payments!FirstRow(o) = FirstRow(o) /\ Payments!SecondRow(o) = SecondRow(o)
           /\ Payments!KeyOf(o) = KeyOf(o)
           /\ Payments!KeyTaken(o) <=> KeyTaken(o)
           /\ Payments!Covered(bal, o) <=> Covered(bal, o)
           /\ Payments!StatusAllows(st, o) <=> StatusAllows(st, o)
           /\ Payments!SeenBalances(o) = SeenBalances(o)
           /\ Payments!FeeOf(o) = FeeOf(o) /\ Payments!Movement(o, w) = Movement(o, w)
           /\ Payments!Settled(bal, o) = Settled(bal, o)
           /\ Payments!DebitRow(o, b) = DebitRow(o, b) /\ Payments!CreditRow(o, b) = CreditRow(o, b)
           /\ Payments!FeeRow(o, b) = FeeRow(o, b)
           /\ Payments!TransferEntries(o) = TransferEntries(o)
           /\ Payments!FeeEntries(o) = FeeEntries(o)
  <1>1. /\ Payments!CanLock(c, w) <=> CanLock(c, w)
        /\ Payments!LockRow(c, w) <=> LockRow(c, w)
        /\ Payments!ReleaseAll(D) <=> ReleaseAll(D)
    BY DEF Payments!CanLock, CanLock, Payments!LockRow, LockRow, Payments!ReleaseAll, ReleaseAll,
           Payments!Flows, Flows
  <1>2. Payments!FirstRow(o) = FirstRow(o) /\ Payments!SecondRow(o) = SecondRow(o)
    BY DEF Payments!FirstRow, Payments!SecondRow, Payments!LockOrder, FirstRow, SecondRow, LockOrder
  <1>3. /\ Payments!KeyOf(o) = KeyOf(o) /\ (Payments!KeyTaken(o) <=> KeyTaken(o))
        /\ Payments!SeenBalances(o) = SeenBalances(o)
        /\ Payments!StatusAllows(st, o) <=> StatusAllows(st, o)
    BY DEF Payments!KeyOf, KeyOf, Payments!KeyTaken, KeyTaken, Payments!SameKey, SameKey,
           Payments!SeenBalances, SeenBalances, Payments!StatusAllows, StatusAllows
  <1>4. Payments!FeeOf(o) = FeeOf(o)
    BY DEF Payments!FeeOf, Payments!CalculateTransferFee, FeeOf, CalculateTransferFee
  <1>5. Payments!TotalDebit(o) = TotalDebit(o)
    BY <1>4 DEF Payments!TotalDebit, TotalDebit
  <1>6. Payments!Covered(bal, o) <=> Covered(bal, o)
    BY <1>5 DEF Payments!Covered, Covered
  <1>7. \A v : Payments!Movement(o, v) = Movement(o, v)
    BY <1>4, <1>5 DEF Payments!Movement, Movement
  <1>8. Payments!Settled(bal, o) = Settled(bal, o)
    BY <1>7 DEF Payments!Settled, Settled
  <1>9. /\ Payments!DebitRow(o, b) = DebitRow(o, b) /\ Payments!CreditRow(o, b) = CreditRow(o, b)
        /\ Payments!FeeRow(o, b) = FeeRow(o, b)
    BY <1>4, <1>5 DEF Payments!DebitRow, DebitRow, Payments!CreditRow, CreditRow, Payments!FeeRow,
                      FeeRow, Payments!Row, Row
  <1>10. Payments!TransferEntries(o) = TransferEntries(o) /\ Payments!FeeEntries(o) = FeeEntries(o)
    BY <1>4 DEF Payments!TransferEntries, TransferEntries, Payments!FeeEntries, FeeEntries,
                Payments!Entry, Entry
  <1> QED BY <1>1, <1>2, <1>3, <1>4, <1>6, <1>7, <1>8, <1>9, <1>10

LEMMA QrOperators ==
    ASSUME NEW c, NEW w, NEW o, NEW D, NEW bal, NEW st, NEW b, NEW q
    PROVE  /\ Qr!LockRow(c, w) <=> LockRow(c, w)
           /\ Qr!CanLock(c, w) <=> CanLock(c, w)
           /\ Qr!ReleaseAll(D) <=> ReleaseAll(D)
           /\ Qr!RestrictWallet(w, st) <=> RestrictWallet(w, st)
           /\ Qr!FirstRow(o) = FirstRow(o) /\ Qr!SecondRow(o) = SecondRow(o)
           /\ Qr!KeyOf(o) = KeyOf(o)
           /\ Qr!KeyTaken(o) <=> KeyTaken(o)
           /\ Qr!Covered(bal, o) <=> Covered(bal, o)
           /\ Qr!StatusAllows(st, o) <=> StatusAllows(st, o)
           /\ Qr!SeenBalances(o) = SeenBalances(o)
           /\ Qr!Settled(bal, o) = Settled(bal, o)
           /\ Qr!DebitRow(o, b) = DebitRow(o, b) /\ Qr!CreditRow(o, b) = CreditRow(o, b)
           /\ Qr!TransferEntries(o) = TransferEntries(o)
           /\ (Qr!FitsOffer(o) <=> FitsOffer(o)) /\ (Qr!SingleUse(q) <=> SingleUse(q))
  <1>1. /\ Qr!CanLock(c, w) <=> CanLock(c, w)
        /\ Qr!LockRow(c, w) <=> LockRow(c, w)
        /\ Qr!ReleaseAll(D) <=> ReleaseAll(D)
        /\ Qr!RestrictWallet(w, st) <=> RestrictWallet(w, st)
    BY DEF Qr!CanLock, CanLock, Qr!LockRow, LockRow, Qr!ReleaseAll, ReleaseAll,
           Qr!Flows, Flows,
           Qr!RestrictWallet, RestrictWallet, Qr!locks, locks, Qr!calls, calls
  <1>2. Qr!FirstRow(o) = FirstRow(o) /\ Qr!SecondRow(o) = SecondRow(o)
    BY DEF Qr!FirstRow, Qr!SecondRow, Qr!LockOrder, FirstRow, SecondRow, LockOrder
  <1>3. /\ Qr!KeyOf(o) = KeyOf(o) /\ (Qr!KeyTaken(o) <=> KeyTaken(o))
        /\ Qr!SeenBalances(o) = SeenBalances(o)
        /\ Qr!StatusAllows(st, o) <=> StatusAllows(st, o)
        /\ (Qr!FitsOffer(o) <=> FitsOffer(o)) /\ (Qr!SingleUse(q) <=> SingleUse(q))
    BY DEF Qr!KeyOf, KeyOf, Qr!KeyTaken, KeyTaken, Qr!SameKey, SameKey,
           Qr!SeenBalances, SeenBalances, Qr!StatusAllows, StatusAllows, Qr!FitsOffer, FitsOffer,
           Qr!SingleUse, SingleUse
  <1>4. Qr!FeeOf(o) = FeeOf(o)
    BY DEF Qr!FeeOf, Qr!CalculateTransferFee, FeeOf, CalculateTransferFee
  <1>5. Qr!TotalDebit(o) = TotalDebit(o)
    BY <1>4 DEF Qr!TotalDebit, TotalDebit
  <1>6. Qr!Covered(bal, o) <=> Covered(bal, o)
    BY <1>5 DEF Qr!Covered, Covered
  <1>7. \A v : Qr!Movement(o, v) = Movement(o, v)
    BY <1>4, <1>5 DEF Qr!Movement, Movement
  <1>8. Qr!Settled(bal, o) = Settled(bal, o)
    BY <1>7 DEF Qr!Settled, Settled
  <1>9. Qr!DebitRow(o, b) = DebitRow(o, b) /\ Qr!CreditRow(o, b) = CreditRow(o, b)
    BY <1>4, <1>5 DEF Qr!DebitRow, DebitRow, Qr!CreditRow, CreditRow, Qr!Row, Row
  <1>10. Qr!TransferEntries(o) = TransferEntries(o)
    BY DEF Qr!TransferEntries, TransferEntries, Qr!Entry, Entry
  <1> QED BY <1>1, <1>2, <1>3, <1>6, <1>8, <1>9, <1>10

LEMMA BatchOperators ==
    ASSUME NEW c, NEW w, NEW o, NEW D, NEW bal, NEW b
    PROVE  /\ Batch!LockRow(c, w) <=> LockRow(c, w)
           /\ Batch!ReleaseAll(D) <=> ReleaseAll(D)
           /\ Batch!KeyOf(o) = KeyOf(o) /\ Batch!Placed(c) = Placed(c)
           /\ Batch!KeyTaken(o) <=> KeyTaken(o)
           /\ Batch!SeenBalances(o) = SeenBalances(o)
           /\ Batch!Settled(bal, o) = Settled(bal, o)
           /\ Batch!DebitRow(o, b) = DebitRow(o, b) /\ Batch!CreditRow(o, b) = CreditRow(o, b)
  <1>1. /\ Batch!LockRow(c, w) <=> LockRow(c, w)
        /\ Batch!ReleaseAll(D) <=> ReleaseAll(D)
    BY DEF Batch!CanLock, CanLock, Batch!LockRow, LockRow, Batch!ReleaseAll, ReleaseAll,
           Batch!Flows, Flows
  <1>3. /\ Batch!KeyOf(o) = KeyOf(o) /\ (Batch!KeyTaken(o) <=> KeyTaken(o))
        /\ Batch!SeenBalances(o) = SeenBalances(o) /\ Batch!Placed(c) = Placed(c)
    BY DEF Batch!KeyOf, KeyOf, Batch!KeyTaken, KeyTaken, Batch!SameKey, SameKey,
           Batch!SeenBalances, SeenBalances, Batch!Placed, Placed
  <1>4. Batch!FeeOf(o) = FeeOf(o)
    BY DEF Batch!FeeOf, Batch!CalculateTransferFee, FeeOf, CalculateTransferFee
  <1>5. Batch!TotalDebit(o) = TotalDebit(o)
    BY <1>4 DEF Batch!TotalDebit, TotalDebit
  <1>7. \A v : Batch!Movement(o, v) = Movement(o, v)
    BY <1>4, <1>5 DEF Batch!Movement, Movement
  <1>8. Batch!Settled(bal, o) = Settled(bal, o)
    BY <1>7 DEF Batch!Settled, Settled
  <1>9. Batch!DebitRow(o, b) = DebitRow(o, b) /\ Batch!CreditRow(o, b) = CreditRow(o, b)
    BY <1>4, <1>5 DEF Batch!DebitRow, DebitRow, Batch!CreditRow, CreditRow, Batch!Row, Row
  <1> QED BY <1>1, <1>3, <1>8, <1>9

(***************************************************************************)
(* Where the calls are, and what each has locked on its way there. The     *)
(* labels that two services share mean the same for the locks, so one      *)
(* invariant speaks of the calls of all of them.                           *)
(***************************************************************************)
Free == {"ussd", "airtime"}     \* the flows whose keys are fresh
Places(flow) ==
    {"idle", "respond", "done", "lost"} \cup
      (CASE flow = "payment" -> {"screen", "lockFirst", "lockSecond", "insert", "readPool", "lockPool",
                                 "audit", "commit"}
         [] flow = "qr"      -> {"lockFirst", "lockSecond", "lockQr", "insert", "commit"}
         [] OTHER            -> {"debitWallet", "creditWallet", "insert", "commit"})

Answers == {"none", "created", "replayed", "rejected", "error"}

Placing ==
    /\ pc \in [Calls -> UNION {Places(f) : f \in Flows}]
    /\ reply \in [Calls -> Answers]
    /\ \A c \in Calls : pc[c] \in Places(order[c].flow)

BothHeld == {"lockQr", "insert", "readPool", "lockPool", "audit", "commit"}
Inserted == {"readPool", "lockPool", "audit", "commit"}
OnCode(c) == order[c].flow = "qr" /\ pc[c] \in {"insert", "commit"}

Holding(c) ==
    /\ pc[c] = "lockSecond" => rowLock[FirstRow(order[c])] = c
    /\ pc[c] = "creditWallet" => rowLock[order[c].sender] = c
    /\ pc[c] \in BothHeld => rowLock[order[c].sender] = c /\ rowLock[order[c].receiver] = c
    /\ pc[c] \in Inserted /\ order[c].flow \notin Free => keyLock[KeyOf(order[c])] = c
    /\ pc[c] = "lockPool" => HasFeePool
    /\ pc[c] \in {"audit", "commit"} /\ order[c].flow = "payment" /\ HasFeePool => rowLock[FeePool] = c
    /\ OnCode(c) => qrLock[order[c].qr] = c

\* A transaction that locked before it read knows what it will change.
Judged(c) ==
    order[c].flow \in {"payment", "qr"} /\ pc[c] \in BothHeld =>
        /\ seen[c].sender = balance[order[c].sender]
        /\ seen[c].receiver = balance[order[c].receiver]
        /\ Covered(balance, order[c])
        /\ StatusAllows(status, order[c])

\* The code a transaction has locked can still be paid, though it may have expired.
Open(q) ==
    /\ qrs[q].active
    /\ qrs[q].maxUsage # Qr!Unlimited => qrs[q].usage < qrs[q].maxUsage

Scanning(c) ==
    order[c].flow = "qr" =>
        /\ OnCode(c) => Open(order[c].qr)
        /\ pc[c] \notin {"idle", "done", "lost"} => FitsOffer(order[c])

\* A call that has inserted its key, or made one, is alone with it.
Reserves(c) ==
    \/ pc[c] \in Inserted
    \/ order[c].flow \in Free /\ pc[c] \notin {"respond", "done", "lost"}

Unused(c) == Reserves(c) => \A r \in rows : ~ SameKey(r, Placed(c))

\* What the answer of a call relies on.
Succeeded(c) == pc[c] = "respond" \/ reply[c] = "created"

Told(c) ==
    /\ Succeeded(c) => Placed(c) \in SettledOrders
    /\ reply[c] = "replayed" => KeyTaken(order[c])
    /\ pc[c] # "done" => reply[c] = "none"

Alone == \A c \in Calls, d \in Calls :
            Succeeded(c) /\ Succeeded(d) /\ SameKey(Placed(c), Placed(d)) => c = d

CallInv(c) == Holding(c) /\ Judged(c) /\ Scanning(c) /\ Unused(c) /\ Told(c)

\* Every line has the debit line of its order beside it, and the ledger has entries of
\* settled orders only.
Attested ==
    /\ IsFiniteSet(rows) /\ IsFiniteSet(ledger)
    /\ \A r \in rows : \E d \in rows : d.kind = "DEBIT" /\ SameKey(d, r)
    /\ \A e \in ledger : \E d \in rows : d.kind = "DEBIT" /\ SameKey(d, e)

\* A code before it exists.
Uncreated(q) == qrs[q].made # "yes" => qrs[q].usage = 0 /\ ~ qrs[q].active /\ ~ qrs[q].expired
Limited(q) == qrs[q].made = "yes" => qrs[q].maxUsage = IF SingleUse(q) THEN 1 ELSE Qr!Unlimited
CodesWellMade == \A q \in QrIds : Uncreated(q) /\ Limited(q)

\* The report is a record of the kind that was asked for.
ReportFits ==
    /\ report.kind \in ReportKinds \cup {"none"}
    /\ report = [kind |-> report.kind, asked |-> report.asked, todo |-> report.todo,
                 got |-> report.got, from |-> report.from]
    /\ report.todo \subseteq Reports!Queries(report.kind)
    /\ \A q \in DOMAIN report.got : report.got[q] \in Int

PlatformInv ==
    /\ TypeOK
    /\ ReportFits
    /\ Placing
    /\ \A c \in Calls : CallInv(c)
    /\ Alone
    /\ Attested
    /\ CodesWellMade
    /\ UsageIsCounted
    /\ StatementsExplainBalances

(***************************************************************************)
(* What the step of one call leaves to the others: their places, their     *)
(* readings and their locks.                                               *)
(***************************************************************************)
PaymentStep(c) == (Payments!Handle(c) \/ Payments!Timeout(c)) /\ UNCHANGED <<qrVars, report>>
QrStep(c) == (Qr!Handle(c) \/ Qr!Timeout(c)) /\ UNCHANGED <<paymentVars, report>>
BatchStep(c) == (Batch!Handle(c) \/ Batch!Abort(c)) /\ UNCHANGED <<paymentVars, qrVars, report>>

Keeps(d) ==
    /\ pc'[d] = pc[d] /\ seen'[d] = seen[d] /\ reply'[d] = reply[d]
    /\ \A v \in Wallets : rowLock[v] = d => rowLock'[v] = d
    /\ \A k \in Flows \X Keys : keyLock[k] = d => keyLock'[k] = d
    /\ \A q \in QrIds : qrLock[q] = d => qrLock'[q] = d

\* A key that is locked is locked by nobody else.
LEMMA LockKeyKeeps ==
    ASSUME DbTypeOK, NEW c \in Calls, NEW k \in Flows \X Keys, keyLock[k] = NoCall,
           keyLock' = [keyLock EXCEPT ![k] = c]
    PROVE  /\ keyLock'[k] = c /\ keyLock' \in [Flows \X Keys -> CallOrNone]
           /\ \A d \in Calls, l \in Flows \X Keys : keyLock[l] = d => keyLock'[l] = d
  BY CallAssumption DEF DbTypeOK, CallAssumption, CallOrNone

LEMMA PaymentSpares ==
    ASSUME DbTypeOK, Placing, NEW c \in Calls, PaymentStep(c), NEW d \in Calls, d # c
    PROVE  order' = order /\ Keeps(d)
  <1> DEFINE o == order[c]
  <1> USE DEF Keeps, Payments!At, Payments!Goto, Payments!Answer, Payments!locks, Payments!tables,
              Payments!paymentVars, paymentVars, qrVars
  <1>0. /\ o \in Orders /\ KeyOf(o) \in Flows \X Keys
        /\ FirstRow(o) \in Wallets /\ SecondRow(o) \in Wallets
        /\ pc \in [Calls -> UNION {Places(f) : f \in Flows}] /\ reply \in [Calls -> Answers]
        /\ seen \in [Calls -> SeenRecord]
        /\ UNCHANGED qrVars
    BY OrderFields DEF DbTypeOK, Placing, SeenRecord, PaymentStep
  <1>1. CASE Payments!CheckKey(c)
    BY <1>0, <1>1 DEF Payments!CheckKey
  <1>2. CASE Payments!Screen(c)
    BY <1>0, <1>2 DEF Payments!Screen
  <1>3. CASE Payments!LockFirst(c)
    BY <1>0, <1>3, LockRowKeeps, PaymentOperators DEF Payments!LockFirst
  <1>4. CASE Payments!LockSecond(c)
    <2>1. pc'[d] = pc[d] /\ order' = order /\ seen'[d] = seen[d] /\ reply'[d] = reply[d]
      BY <1>0, <1>4 DEF Payments!LockSecond, Payments!Rollback
    <2>2. CASE LockRow(c, SecondRow(o)) /\ UNCHANGED keyLock
      BY <1>0, <2>1, <2>2, LockRowKeeps
    <2>3. CASE ReleaseAll({c})
      BY <1>0, <2>1, <2>3, ReleaseKeeps
    <2> QED BY <1>4, <2>2, <2>3, PaymentOperators DEF Payments!LockSecond, Payments!Rollback
  <1>5. CASE Payments!InsertRows(c)
    <2>1. pc'[d] = pc[d] /\ order' = order /\ seen' = seen /\ reply'[d] = reply[d]
      BY <1>0, <1>5 DEF Payments!InsertRows, Payments!Rollback
    <2>2. CASE /\ keyLock[KeyOf(o)] = NoCall /\ keyLock' = [keyLock EXCEPT ![KeyOf(o)] = c]
               /\ UNCHANGED rowLock
      BY <1>0, <2>1, <2>2, LockKeyKeeps
    <2>3. CASE ReleaseAll({c})
      BY <1>0, <2>1, <2>3, ReleaseKeeps
    <2> QED BY <1>5, <2>2, <2>3, PaymentOperators DEF Payments!InsertRows, Payments!Rollback
  <1>6. CASE Payments!ReadFeePool(c)
    BY <1>0, <1>6 DEF Payments!ReadFeePool
  <1>7. CASE Payments!UpdateFeePool(c)
    <2>1. LockRow(c, FeePool) /\ keyLock' = keyLock /\ order' = order /\ pc'[d] = pc[d]
          /\ seen' = seen /\ reply' = reply
      BY <1>0, <1>7, PaymentOperators DEF Payments!UpdateFeePool
    <2>2. CASE FeePool \in Wallets
      BY <1>0, <2>1, <2>2, LockRowKeeps
    <2>3. CASE FeePool \notin Wallets
      BY <1>0, <2>1, <2>3 DEF LockRow, DbTypeOK
    <2> QED BY <2>2, <2>3
  <1>8. CASE Payments!WriteAuditLog(c)
    BY <1>0, <1>8 DEF Payments!WriteAuditLog
  <1>9. CASE Payments!Commit(c)
    <2>1. /\ pc'[d] = pc[d] /\ order' = order /\ seen' = seen /\ reply' = reply
          /\ ReleaseAll({c})
      BY <1>0, <1>9, PaymentOperators DEF Payments!Commit
    <2> QED BY <1>0, <2>1, ReleaseKeeps
  <1>10. CASE Payments!Respond(c)
    BY <1>0, <1>10 DEF Payments!Respond
  <1>11. CASE Payments!Timeout(c)
    <2>1. /\ pc'[d] = pc[d] /\ order' = order /\ seen' = seen /\ reply'[d] = reply[d]
          /\ ReleaseAll({c})
      BY <1>0, <1>11, PaymentOperators DEF Payments!Timeout, Payments!Rollback
    <2> QED BY <1>0, <2>1, ReleaseKeeps
  <1> QED BY <1>1, <1>2, <1>3, <1>4, <1>5, <1>6, <1>7, <1>8, <1>9, <1>10, <1>11
          DEF PaymentStep, Payments!Handle

LEMMA QrSpares ==
    ASSUME DbTypeOK, qrLock \in [QrIds -> CallOrNone], Placing,
           NEW c \in Calls, QrStep(c), NEW d \in Calls, d # c
    PROVE  order' = order /\ Keeps(d)
  <1> DEFINE o == order[c]
  <1> USE DEF Keeps, Qr!At, Qr!Goto, Qr!Answer, Qr!locks, Qr!tables, Qr!qrVars
  <1>0. /\ o \in Orders /\ KeyOf(o) \in Flows \X Keys
        /\ FirstRow(o) \in Wallets /\ SecondRow(o) \in Wallets
        /\ pc \in [Calls -> UNION {Places(f) : f \in Flows}] /\ reply \in [Calls -> Answers]
        /\ seen \in [Calls -> SeenRecord]
    BY OrderFields DEF DbTypeOK, Placing, SeenRecord
  <1>r. ASSUME Qr!ReleaseAll({c}), Qr!ReleaseQr({c})
        PROVE  /\ \A v \in Wallets : rowLock[v] = d => rowLock'[v] = d
               /\ \A k \in Flows \X Keys : keyLock[k] = d => keyLock'[k] = d
               /\ \A q \in QrIds : qrLock[q] = d => qrLock'[q] = d
    <2>1. ReleaseAll({c})
      BY <1>r, QrOperators
    <2>2. \A q \in QrIds : qrLock[q] = d => qrLock'[q] = d
      BY <1>r DEF Qr!ReleaseQr
    <2> QED BY <2>1, <2>2, ReleaseKeeps
  <1>1. CASE Qr!ReadQr(c)
    BY <1>0, <1>1 DEF Qr!ReadQr
  <1>2. CASE Qr!LockFirst(c)
    BY <1>0, <1>2, LockRowKeeps, QrOperators DEF Qr!LockFirst
  <1>3. CASE Qr!LockSecond(c)
    <2>1. pc'[d] = pc[d] /\ order' = order /\ seen'[d] = seen[d] /\ reply'[d] = reply[d]
      BY <1>0, <1>3 DEF Qr!LockSecond, Qr!Rollback
    <2>2. CASE LockRow(c, SecondRow(o)) /\ UNCHANGED <<keyLock, qrLock>>
      BY <1>0, <2>1, <2>2, LockRowKeeps
    <2>3. CASE Qr!ReleaseAll({c}) /\ Qr!ReleaseQr({c})
      BY <2>1, <2>3, <1>r
    <2> QED BY <1>3, <2>2, <2>3, QrOperators DEF Qr!LockSecond, Qr!Rollback
  <1>4. CASE Qr!LockQr(c)
    <2>1. pc'[d] = pc[d] /\ order' = order /\ seen' = seen /\ reply'[d] = reply[d]
      BY <1>0, <1>4 DEF Qr!LockQr, Qr!Rollback
    <2>2. CASE qrLock[o.qr] = NoCall /\ qrLock' = [qrLock EXCEPT ![o.qr] = c] /\ UNCHANGED locks
      BY <2>1, <2>2, CallAssumption DEF CallAssumption, locks
    <2>3. CASE Qr!ReleaseAll({c}) /\ Qr!ReleaseQr({c})
      BY <2>1, <2>3, <1>r
    <2> QED BY <1>4, <2>2, <2>3 DEF Qr!LockQr, Qr!Rollback, locks
  <1>5. CASE Qr!InsertRows(c)
    <2>1. pc'[d] = pc[d] /\ order' = order /\ seen' = seen /\ reply'[d] = reply[d]
      BY <1>0, <1>5 DEF Qr!InsertRows, Qr!Rollback
    <2>2. CASE /\ keyLock[KeyOf(o)] = NoCall /\ keyLock' = [keyLock EXCEPT ![KeyOf(o)] = c]
               /\ UNCHANGED <<rowLock, qrLock>>
      BY <1>0, <2>1, <2>2, LockKeyKeeps
    <2>3. CASE Qr!ReleaseAll({c}) /\ Qr!ReleaseQr({c})
      BY <2>1, <2>3, <1>r
    <2> QED BY <1>5, <2>2, <2>3, QrOperators DEF Qr!InsertRows, Qr!Rollback
  <1>6. CASE Qr!Commit(c)
    BY <1>0, <1>6, <1>r DEF Qr!Commit
  <1>7. CASE Qr!Respond(c)
    BY <1>0, <1>7 DEF Qr!Respond
  <1>8. CASE Qr!Timeout(c)
    BY <1>0, <1>8, <1>r DEF Qr!Timeout, Qr!Rollback
  <1> QED BY <1>1, <1>2, <1>3, <1>4, <1>5, <1>6, <1>7, <1>8 DEF QrStep, Qr!Handle

LEMMA BatchSpares ==
    ASSUME DbTypeOK, Placing, NEW c \in Calls, BatchStep(c), NEW d \in Calls, d # c
    PROVE  order' = order /\ Keeps(d)
  <1> DEFINE o == order[c]
  <1> USE DEF Keeps, Batch!At, Batch!Goto, Batch!Answer, Batch!locks, Batch!tables, qrVars
  <1>0. /\ o \in Orders /\ KeyOf(o) \in Flows \X Keys
        /\ o.sender \in Wallets /\ o.receiver \in Wallets
        /\ pc \in [Calls -> UNION {Places(f) : f \in Flows}] /\ reply \in [Calls -> Answers]
        /\ seen \in [Calls -> SeenRecord]
        /\ UNCHANGED qrVars
    BY OrderFields DEF DbTypeOK, Placing, SeenRecord, BatchStep
  <1>1. CASE Batch!ReadWallets(c)
    BY <1>0, <1>1 DEF Batch!ReadWallets
  <1>2. CASE Batch!DebitWallet(c)
    BY <1>0, <1>2, LockRowKeeps, BatchOperators DEF Batch!DebitWallet
  <1>3. CASE Batch!CreditWallet(c)
    BY <1>0, <1>3, LockRowKeeps, BatchOperators DEF Batch!CreditWallet
  <1>4. CASE Batch!InsertRows(c)
    <2>1. pc'[d] = pc[d] /\ order' = order /\ seen' = seen /\ reply'[d] = reply[d]
      BY <1>0, <1>4 DEF Batch!InsertRows, Batch!Rollback
    <2>2. CASE /\ keyLock[KeyOf(o)] = NoCall /\ keyLock' = [keyLock EXCEPT ![KeyOf(o)] = c]
               /\ UNCHANGED rowLock
      BY <1>0, <2>1, <2>2, LockKeyKeeps
    <2>3. CASE ReleaseAll({c})
      BY <1>0, <2>1, <2>3, ReleaseKeeps
    <2>4. CASE UNCHANGED locks
      BY <1>0, <2>1, <2>4 DEF locks
    <2> QED BY <1>4, <2>2, <2>3, <2>4, BatchOperators DEF Batch!InsertRows, Batch!Rollback, locks
  <1>5. CASE Batch!Commit(c)
    <2>1. /\ pc'[d] = pc[d] /\ order' = order /\ seen' = seen /\ reply' = reply
          /\ ReleaseAll({c})
      BY <1>0, <1>5, BatchOperators DEF Batch!Commit
    <2> QED BY <1>0, <2>1, ReleaseKeeps
  <1>6. CASE Batch!Respond(c)
    BY <1>0, <1>6 DEF Batch!Respond
  <1>7. CASE Batch!Abort(c)
    <2>1. /\ pc'[d] = pc[d] /\ order' = order /\ seen' = seen /\ reply'[d] = reply[d]
          /\ ReleaseAll({c})
      BY <1>0, <1>7, BatchOperators DEF Batch!Abort, Batch!Rollback
    <2> QED BY <1>0, <2>1, ReleaseKeeps
  <1> QED BY <1>1, <1>2, <1>3, <1>4, <1>5, <1>6, <1>7 DEF BatchStep, Batch!Handle

(***************************************************************************)
(* What the step of a call does to the tables: nothing, or, when it        *)
(* commits, the movement and the lines of its order.                       *)
(***************************************************************************)
Still == UNCHANGED <<balance, status, rows, ledger, qrs>>

Quiet(c) == Still /\ (Succeeded(c)' => Succeeded(c))

\* Airtime leaves the sender and reaches nobody.
Delta(o, w) ==
    IF o.flow = "airtime" THEN (IF w = o.sender THEN 0 - o.amount ELSE 0) ELSE Movement(o, w)

Lines(c) ==
    LET o == Placed(c) IN
    IF o.flow = "airtime" THEN {DebitRow(o, seen[c].sender)}
    ELSE TransferRows(o, seen[c].sender, seen[c].receiver)
           \cup (IF o.flow = "payment" THEN FeeRows(o, seen[c].pool) ELSE {})

Postings(o) ==
    IF o.flow \notin {"payment", "qr"} THEN {}
    ELSE TransferEntries(o) \cup (IF o.flow = "payment" /\ HasFeePool THEN FeeEntries(o) ELSE {})

CodeAfter(o) ==
    IF o.flow = "qr"
      THEN [qrs EXCEPT ![o.qr].usage = @ + 1, ![o.qr].active = qrs[o.qr].maxUsage # 1]
      ELSE qrs

Settles(c) ==
    LET o == Placed(c) IN
    /\ pc[c] = "commit" /\ pc'[c] = "respond"
    /\ seen' = seen /\ reply' = reply
    /\ balance' \in [Wallets -> Int]
    /\ \A w \in Wallets : balance'[w] = balance[w] + Delta(o, w)
    /\ rows' = rows \cup Lines(c)
    /\ ledger' = ledger \cup Postings(o)
    /\ status' = status
    /\ qrs' = CodeAfter(o)

LEMMA PlacedIs ==
    ASSUME NEW c \in Calls, order[c] \in Orders
    PROVE  /\ Placed(c) \in Stored /\ order[c] \in Stored
           /\ Placed(c).flow = order[c].flow /\ Placed(c).sender = order[c].sender
           /\ Placed(c).receiver = order[c].receiver /\ Placed(c).amount = order[c].amount
           /\ Placed(c).qr = order[c].qr
           /\ order[c].flow \notin Free => Placed(c) = order[c]
           /\ order[c].flow \in Free => Placed(c).key = c
           /\ FeeOf(Placed(c)) = FeeOf(order[c]) /\ TotalDebit(Placed(c)) = TotalDebit(order[c])
  <1>1. order[c] \in Order
    BY MoneyAssumption DEF MoneyAssumption
  <1>2. /\ Placed(c).flow = order[c].flow /\ Placed(c).sender = order[c].sender
        /\ Placed(c).receiver = order[c].receiver /\ Placed(c).amount = order[c].amount
        /\ Placed(c).qr = order[c].qr
        /\ order[c].flow \notin Free => Placed(c) = order[c]
        /\ order[c].flow \in Free => Placed(c).key = c
    BY <1>1 DEF Placed, Free, Order
  <1> QED BY <1>2, OrdersAreStored DEF FeeOf, TotalDebit

LEMMA PaymentTables ==
    ASSUME DbTypeOK, Placing, NEW c \in Calls, PaymentStep(c)
    PROVE  Quiet(c) \/ (Settles(c) /\ order[c].flow = "payment")
  <1> USE DEF Payments!At, Payments!Goto, Payments!Answer, Payments!tables
  <1>0. UNCHANGED qrs
    BY DEF PaymentStep, qrVars
  <1>1. CASE Payments!Commit(c)
    <2> DEFINE o == order[c]
    <2>1. /\ o \in Orders /\ o.flow = "payment" /\ Placed(c) = o /\ o \in Stored
      <3>1. o \in Orders /\ o.flow = "payment"
        BY <1>1 DEF Payments!Commit, DbTypeOK
      <3> QED BY <3>1, PlacedIs DEF Free
    <2>2. balance' = Settled(balance, o)
      BY <1>1, PaymentOperators DEF Payments!Commit
    <2>3. /\ balance' \in [Wallets -> Int]
          /\ \A w \in Wallets : balance'[w] = balance[w] + Delta(o, w)
      BY <2>1, <2>2, StoredMovement DEF DbTypeOK, Delta
    <2>4. rows' = rows \cup Lines(c)
      <3>1. Lines(c) = {DebitRow(o, seen[c].sender), CreditRow(o, seen[c].receiver)}
                         \cup (IF HasFeePool THEN {FeeRow(o, seen[c].pool)} ELSE {})
        BY <2>1 DEF Lines, TransferRows, FeeRows
      <3>2. rows' = rows \cup {DebitRow(o, seen[c].sender), CreditRow(o, seen[c].receiver)}
                      \cup (IF HasFeePool THEN {FeeRow(o, seen[c].pool)} ELSE {})
        BY <1>1, PaymentOperators DEF Payments!Commit, Payments!HasFeePool, HasFeePool
      <3> QED BY <3>1, <3>2
    <2>5. ledger' = ledger \cup Postings(o)
      <3>1. Postings(o) = TransferEntries(o) \cup (IF HasFeePool THEN FeeEntries(o) ELSE {})
        BY <2>1 DEF Postings
      <3>2. ledger' = ledger \cup TransferEntries(o) \cup (IF HasFeePool THEN FeeEntries(o) ELSE {})
        BY <1>1, PaymentOperators DEF Payments!Commit, Payments!HasFeePool, HasFeePool
      <3> QED BY <3>1, <3>2
    <2>6. /\ pc[c] = "commit" /\ pc'[c] = "respond" /\ seen' = seen /\ reply' = reply
          /\ status' = status
      BY <1>1 DEF Payments!Commit, Placing
    <2> QED BY <1>0, <2>1, <2>3, <2>4, <2>5, <2>6 DEF Settles, CodeAfter
  <1>2. CASE ~ Payments!Commit(c)
    <2>1. Still
      BY <1>0, <1>2 DEF PaymentStep, Still, Payments!Handle, Payments!CheckKey, Payments!Screen,
           Payments!LockFirst, Payments!LockSecond, Payments!InsertRows, Payments!ReadFeePool,
           Payments!UpdateFeePool, Payments!WriteAuditLog, Payments!Respond, Payments!Timeout
    <2>2. Succeeded(c)' => Succeeded(c)
      BY <1>2 DEF Placing, PaymentStep, Succeeded, Payments!Handle, Payments!CheckKey, Payments!Screen,
           Payments!LockFirst, Payments!LockSecond, Payments!InsertRows, Payments!ReadFeePool,
           Payments!UpdateFeePool, Payments!WriteAuditLog, Payments!Respond, Payments!Timeout,
           Payments!Rollback
    <2> QED BY <2>1, <2>2 DEF Quiet
  <1> QED BY <1>1, <1>2

LEMMA QrTables ==
    ASSUME DbTypeOK, Placing, NEW c \in Calls, QrStep(c)
    PROVE  Quiet(c) \/ (Settles(c) /\ order[c].flow = "qr")
  <1> USE DEF Qr!At, Qr!Goto, Qr!Answer, Qr!tables, Qr!qrVars
  <1>1. CASE Qr!Commit(c)
    <2> DEFINE o == order[c]
    <2>1. /\ o \in Orders /\ o.flow = "qr" /\ Placed(c) = o /\ o \in Stored
      <3>1. o \in Orders /\ o.flow = "qr"
        BY <1>1 DEF Qr!Commit, DbTypeOK
      <3> QED BY <3>1, PlacedIs DEF Free
    <2>2. balance' = Settled(balance, o)
      BY <1>1, QrOperators DEF Qr!Commit
    <2>3. /\ balance' \in [Wallets -> Int]
          /\ \A w \in Wallets : balance'[w] = balance[w] + Delta(o, w)
      BY <2>1, <2>2, StoredMovement DEF DbTypeOK, Delta
    <2>4. rows' = rows \cup Lines(c)
      <3>1. Lines(c) = {DebitRow(o, seen[c].sender), CreditRow(o, seen[c].receiver)}
        BY <2>1 DEF Lines, TransferRows
      <3>2. rows' = rows \cup {DebitRow(o, seen[c].sender), CreditRow(o, seen[c].receiver)}
        BY <1>1, QrOperators DEF Qr!Commit
      <3> QED BY <3>1, <3>2
    <2>5. ledger' = ledger \cup Postings(o)
      BY <1>1, <2>1, QrOperators DEF Qr!Commit, Postings
    <2>6. /\ pc[c] = "commit" /\ pc'[c] = "respond" /\ seen' = seen /\ reply' = reply
          /\ status' = status /\ qrs' = CodeAfter(o)
      BY <1>1, <2>1 DEF Qr!Commit, Placing, CodeAfter
    <2> QED BY <2>1, <2>3, <2>4, <2>5, <2>6 DEF Settles
  <1>2. CASE ~ Qr!Commit(c)
    <2>1. Still
      BY <1>2 DEF QrStep, Still, Qr!Handle, Qr!ReadQr, Qr!LockFirst, Qr!LockSecond, Qr!LockQr,
                Qr!InsertRows, Qr!Respond, Qr!Timeout
    <2>2. Succeeded(c)' => Succeeded(c)
      BY <1>2 DEF Placing, QrStep, Succeeded, Qr!Handle, Qr!ReadQr, Qr!LockFirst, Qr!LockSecond, Qr!LockQr,
                Qr!InsertRows, Qr!Respond, Qr!Timeout, Qr!Rollback
    <2> QED BY <2>1, <2>2 DEF Quiet
  <1> QED BY <1>1, <1>2

LEMMA BatchTables ==
    ASSUME DbTypeOK, Placing, NEW c \in Calls, BatchStep(c)
    PROVE  Quiet(c) \/ (Settles(c) /\ order[c].flow \in Batch!BatchFlows)
  <1> USE DEF Batch!At, Batch!Goto, Batch!Answer, Batch!tables, Batch!BatchFlows
  <1>0. UNCHANGED qrs
    BY DEF BatchStep, qrVars
  <1>1. CASE Batch!Commit(c)
    <2> DEFINE o == Placed(c)
    <2>1. /\ o.flow \in {"cashIn", "cashOut", "ussd", "airtime"} /\ o \in Stored
          /\ order[c].flow \in {"cashIn", "cashOut", "ussd", "airtime"}
      <3>1. order[c] \in Orders /\ order[c].flow \in {"cashIn", "cashOut", "ussd", "airtime"}
        BY <1>1 DEF Batch!Commit, DbTypeOK
      <3> QED BY <3>1, PlacedIs
    <2>2. /\ balance' \in [Wallets -> Int]
          /\ \A w \in Wallets : balance'[w] = balance[w] + Delta(o, w)
      <3>1. CASE o.flow = "airtime"
        <4>1. balance' = [balance EXCEPT ![o.sender] = @ - o.amount]
          BY <1>1, <3>1, BatchOperators DEF Batch!Commit
        <4>2. o.sender \in Wallets /\ o.amount \in Nat /\ balance \in [Wallets -> Int]
          BY <2>1, StoredFields DEF DbTypeOK
        <4> HIDE DEF o
        <4> QED BY <3>1, <4>1, <4>2 DEF Delta
      <3>2. CASE o.flow # "airtime"
        <4>1. balance' = Settled(balance, o)
          BY <1>1, <3>2, BatchOperators DEF Batch!Commit
        <4> QED BY <2>1, <3>2, <4>1, StoredMovement DEF DbTypeOK, Delta
      <3> QED BY <3>1, <3>2
    <2>3. rows' = rows \cup Lines(c)
      <3>1. CASE o.flow = "airtime"
        <4>1. rows' = rows \cup {DebitRow(o, seen[c].sender)}
          BY <1>1, <3>1, BatchOperators DEF Batch!Commit
        <4> QED BY <3>1, <4>1 DEF Lines
      <3>2. CASE o.flow # "airtime"
        <4>1. rows' = rows \cup {DebitRow(o, seen[c].sender), CreditRow(o, seen[c].receiver)}
          BY <1>1, <3>2, BatchOperators DEF Batch!Commit
        <4> QED BY <2>1, <3>2, <4>1 DEF Lines, TransferRows
      <3> QED BY <3>1, <3>2
    <2>4. ledger' = ledger \cup Postings(o)
      BY <1>1, <2>1 DEF Batch!Commit, Postings
    <2>5. /\ pc[c] = "commit" /\ pc'[c] = "respond" /\ seen' = seen /\ reply' = reply
          /\ status' = status /\ qrs' = CodeAfter(o)
      BY <1>0, <1>1, <2>1 DEF Batch!Commit, Placing, CodeAfter
    <2> QED BY <2>1, <2>2, <2>3, <2>4, <2>5 DEF Settles
  <1>2. CASE ~ Batch!Commit(c)
    <2>1. Still
      BY <1>0, <1>2 DEF BatchStep, Still, Batch!Handle, Batch!ReadWallets, Batch!DebitWallet,
                Batch!CreditWallet, Batch!InsertRows, Batch!Respond, Batch!Abort
    <2>2. Succeeded(c)' => Succeeded(c)
      BY <1>2 DEF Placing, BatchStep, Succeeded, Batch!Handle, Batch!ReadWallets, Batch!DebitWallet,
                Batch!CreditWallet, Batch!InsertRows, Batch!Respond, Batch!Abort,
                Batch!Rollback
    <2> QED BY <2>1, <2>2 DEF Quiet
  <1> QED BY <1>1, <1>2

(***************************************************************************)
(* What the step of a call does to itself. It ends, or goes on to a place  *)
(* where it has what that place asks for, or settles.                      *)
(***************************************************************************)
\* The answers a call may be given where it is.
Due(c, a) ==
    \/ a \in {"rejected", "error"}
    \/ a = "replayed" /\ KeyTaken(order[c])
    \/ a = "created" /\ pc[c] = "respond"

LEMMA Ending ==
    ASSUME Placing, NEW c \in Calls, CallInv(c), order' = order, rows' = rows, NEW a, Due(c, a),
           pc' = [pc EXCEPT ![c] = "done"], reply' = [reply EXCEPT ![c] = a]
    PROVE  Placing' /\ CallInv(c)'
  <1> USE DEF Due
  <1>0. a \in Answers
    BY DEF Answers
  <1>1. pc'[c] = "done" /\ reply'[c] = a /\ \A f \in Flows : "done" \in Places(f)
    BY DEF Placing, Places
  <1>2. Placing'
    <2>1. "done" \in UNION {Places(f) : f \in Flows}
      BY DEF Places, Flows
    <2>2. \A d \in Calls : pc'[d] \in Places(order[d].flow)
      BY DEF Placing, Places
    <2> QED BY <1>0, <2>1, <2>2 DEF Placing
  <1>3. Holding(c)' /\ Judged(c)' /\ Scanning(c)'
    BY <1>1 DEF Holding, Judged, Scanning, OnCode, BothHeld, Inserted
  <1>4. Unused(c)'
    BY <1>1 DEF Unused, Reserves, Inserted
  <1>5. Told(c)'
    <2>1. SettledOrders' = SettledOrders /\ KeyTaken(order[c])' = KeyTaken(order[c])
          /\ Placed(c)' = Placed(c)
      BY DEF SettledOrders, OrderOf, KeyTaken, Placed
    <2>2. a = "created" => Placed(c) \in SettledOrders
      BY DEF CallInv, Told, Succeeded
    <2> QED BY <1>1, <2>1, <2>2 DEF Told, Succeeded
  <1> QED BY <1>2, <1>3, <1>4, <1>5 DEF CallInv

Moving(flow) == Places(flow) \ {"idle", "respond", "done", "lost"}

LEMMA GoingOn ==
    ASSUME Placing, Attested, DbTypeOK, NEW c \in Calls, CallInv(c), order' = order, rows' = rows,
           NEW l \in Moving(order[c].flow), pc' = [pc EXCEPT ![c] = l], reply' = reply,
           pc[c] \notin {"respond", "done", "lost"},
           l \in Inserted /\ pc[c] \notin Inserted /\ order[c].flow \notin Free => ~ KeyTaken(order[c])
    PROVE  Placing' /\ Told(c)' /\ Unused(c)' /\ pc'[c] = l
  <1>1. pc'[c] = l /\ reply'[c] = "none" /\ l \in Places(order[c].flow)
        /\ l \notin {"respond", "done", "lost"} /\ order[c] \in Orders
    BY DEF Placing, CallInv, Told, Moving, DbTypeOK
  <1>2. Placing'
    <2>1. order[c].flow \in Flows
      BY <1>1, OrderFields
    <2>2. l \in UNION {Places(f) : f \in Flows}
      BY <1>1, <2>1
    <2>3. \A d \in Calls : pc'[d] \in Places(order[d].flow)
      BY <1>1 DEF Placing
    <2> QED BY <2>2, <2>3 DEF Placing
  <1>3. Told(c)'
    BY <1>1 DEF Told, Succeeded
  <1>4. Unused(c)'
    <2>1. SUFFICES ASSUME Reserves(c)', NEW r \in rows PROVE ~ SameKey(r, Placed(c))
      BY DEF Unused, Placed
    <2>2. CASE Reserves(c)
      BY <2>2 DEF CallInv, Unused
    <2>3. CASE ~ Reserves(c)
      <3>1. l \in Inserted /\ pc[c] \notin Inserted /\ order[c].flow \notin Free
        BY <1>1, <2>1, <2>3 DEF Reserves
      <3>2. Placed(c) = order[c] /\ ~ KeyTaken(order[c])
        BY <1>1, <3>1, PlacedIs
      <3>3. PICK d \in rows : d.kind = "DEBIT" /\ SameKey(d, r)
        BY DEF Attested
      <3> QED BY <3>2, <3>3 DEF KeyTaken, SameKey
    <2> QED BY <2>2, <2>3
  <1> QED BY <1>1, <1>2, <1>3, <1>4

\* After the commit the order is among the settled ones.
LEMMA LinesOf ==
    ASSUME NEW c \in Calls
    PROVE  LET o == Placed(c) IN
           /\ \A r \in Lines(c) : SameKey(r, o) /\ r.flow = o.flow /\ r.qr = o.qr
           /\ DebitRow(o, seen[c].sender) \in Lines(c) /\ DebitRow(o, seen[c].sender).kind = "DEBIT"
           /\ \A r \in Lines(c) : r.kind = "DEBIT" => r = DebitRow(o, seen[c].sender)
  BY DEF Lines, TransferRows, FeeRows, DebitRow, CreditRow, FeeRow, Row, SameKey

LEMMA StoredOrder ==
    ASSUME NEW o \in Stored, NEW b
    PROVE  OrderOf(DebitRow(o, b)) = o
  <1>1. o = [flow |-> o.flow, key |-> o.key, sender |-> o.sender,
             receiver |-> o.receiver, amount |-> o.amount, qr |-> o.qr]
    BY DEF Stored
  <1> QED BY <1>1 DEF OrderOf, DebitRow, Row

LEMMA SettlesOrder ==
    ASSUME DbTypeOK, NEW c \in Calls, Settles(c)
    PROVE  SettledOrders' = SettledOrders \cup {Placed(c)}
  <1> DEFINE D == {x \in rows : x.kind = "DEBIT"}
             r == DebitRow(Placed(c), seen[c].sender)
  <1>1. {x \in rows' : x.kind = "DEBIT"} = D \cup {r}
    BY LinesOf DEF Settles
  <1>2. OrderOf(r) = Placed(c)
    BY PlacedIs, StoredOrder DEF DbTypeOK
  <1> QED BY <1>1, <1>2 DEF SettledOrders, OrderOf

LEMMA Settling ==
    ASSUME Placing, DbTypeOK, NEW c \in Calls, CallInv(c), order' = order, Settles(c),
           pc' = [pc EXCEPT ![c] = "respond"]
    PROVE  Placing' /\ CallInv(c)'
  <1>1. pc'[c] = "respond" /\ pc[c] = "commit" /\ reply' = reply /\ reply[c] = "none"
    BY DEF Placing, Settles, CallInv, Told
  <1>2. Placing'
    <2>1. "respond" \in UNION {Places(f) : f \in Flows}
      BY DEF Places, Flows
    <2>2. \A d \in Calls : pc'[d] \in Places(order[d].flow)
      BY DEF Placing, Places
    <2> QED BY <1>1, <2>1, <2>2 DEF Placing
  <1>3. Holding(c)' /\ Judged(c)'
    BY <1>1 DEF Holding, Judged, OnCode, BothHeld, Inserted
  <1>4. Unused(c)'
    BY <1>1 DEF Unused, Reserves, Inserted
  <1>5. Scanning(c)'
    BY <1>1 DEF CallInv, Scanning, OnCode
  <1>6. Told(c)'
    <2>1. Placed(c)' = Placed(c) /\ Placed(c) \in SettledOrders'
      BY SettlesOrder DEF Placed
    <2> QED BY <1>1, <2>1 DEF Told
  <1> QED BY <1>2, <1>3, <1>4, <1>5, <1>6 DEF CallInv

LEMMA PaymentOwn ==
    ASSUME DbTypeOK, Placing, Attested, NEW c \in Calls, CallInv(c), PaymentStep(c)
    PROVE  Placing' /\ CallInv(c)'
  <1> DEFINE o == order[c]
  <1> USE DEF Payments!At, Payments!Goto, Payments!Answer, Payments!locks, Payments!tables,
              Payments!paymentVars
  <1>0. /\ o \in Orders /\ KeyOf(o) \in Flows \X Keys
        /\ FirstRow(o) \in Wallets /\ SecondRow(o) \in Wallets
        /\ o.sender \in {FirstRow(o), SecondRow(o)} /\ o.receiver \in {FirstRow(o), SecondRow(o)}
        /\ pc \in [Calls -> UNION {Places(f) : f \in Flows}] /\ reply \in [Calls -> Answers]
        /\ seen \in [Calls -> SeenRecord]
        /\ UNCHANGED <<qrs, qrLock>>
    <2>1. o \in Orders
      BY DEF DbTypeOK
    <2>2. {FirstRow(o), SecondRow(o)} = {o.sender, o.receiver}
      BY <2>1, OrderFields
    <2> QED BY <2>1, <2>2, OrderFields DEF DbTypeOK, Placing, SeenRecord, PaymentStep, qrVars
  <1>1. o.flow = "payment" /\ order' = order
    BY DEF PaymentStep, Payments!Handle, Payments!CheckKey, Payments!Screen,
           Payments!LockFirst, Payments!LockSecond, Payments!InsertRows, Payments!ReadFeePool,
           Payments!UpdateFeePool, Payments!WriteAuditLog, Payments!Commit, Payments!Respond,
           Payments!Timeout, Payments!calls
  <1>2. /\ "screen" \in Moving(o.flow) /\ "lockFirst" \in Moving(o.flow)
        /\ "lockSecond" \in Moving(o.flow) /\ "insert" \in Moving(o.flow)
        /\ "readPool" \in Moving(o.flow) /\ "lockPool" \in Moving(o.flow)
        /\ "audit" \in Moving(o.flow) /\ "commit" \in Moving(o.flow)
    BY <1>1 DEF Moving, Places
  <1>3. Scanning(c)'
    BY <1>1 DEF Scanning, OnCode
  <1>4. "payment" \notin Free
    BY DEF Free
  <1>5. Holding(c) /\ Judged(c)
    BY DEF CallInv
  <1>e. ASSUME rows' = rows, pc' = [pc EXCEPT ![c] = "done"], NEW a \in {"rejected", "error"},
               reply' = [reply EXCEPT ![c] = a]
        PROVE  Placing' /\ CallInv(c)'
    <2>1. Due(c, a)
      BY <1>e DEF Due
    <2> QED BY <1>1, <1>e, <2>1, Ending
  <1> HIDE DEF o
  <1>6. CASE Payments!CheckKey(c)
    <2>1. CASE KeyTaken(o)
      <3>1. /\ rows' = rows /\ pc' = [pc EXCEPT ![c] = "done"] /\ Due(c, "replayed")
            /\ reply' = [reply EXCEPT ![c] = "replayed"]
        BY <1>6, <2>1, PaymentOperators DEF Payments!CheckKey, Due, o
      <3> QED BY <1>1, <3>1, Ending
    <2>2. CASE ~ KeyTaken(o)
      <3>1. /\ rows' = rows /\ pc' = [pc EXCEPT ![c] = "screen"] /\ reply' = reply /\ pc[c] = "idle"
        BY <1>6, <2>2, PaymentOperators DEF Payments!CheckKey, o
      <3>2. Placing' /\ Told(c)' /\ Unused(c)' /\ pc'[c] = "screen"
        BY <1>1, <1>2, <3>1, GoingOn DEF Inserted, o
      <3> QED BY <1>3, <3>2 DEF CallInv, Holding, Judged, BothHeld, Inserted, OnCode
    <2> QED BY <2>1, <2>2
  <1>7. CASE Payments!Screen(c)
    <2>1. CASE pc' = [pc EXCEPT ![c] = "lockFirst"] /\ reply' = reply
      <3>1. rows' = rows /\ pc[c] = "screen"
        BY <1>7 DEF Payments!Screen
      <3>2. Placing' /\ Told(c)' /\ Unused(c)' /\ pc'[c] = "lockFirst"
        BY <1>1, <1>2, <2>1, <3>1, GoingOn DEF Inserted, o
      <3> QED BY <1>3, <3>2 DEF CallInv, Holding, Judged, BothHeld, Inserted, OnCode
    <2>2. CASE ~ (pc' = [pc EXCEPT ![c] = "lockFirst"] /\ reply' = reply)
      BY <1>7, <2>2, <1>e DEF Payments!Screen
    <2> QED BY <2>1, <2>2
  <1>8. CASE Payments!LockFirst(c)
    <2>1. /\ rows' = rows /\ pc[c] = "lockFirst" /\ reply' = reply
          /\ pc' = [pc EXCEPT ![c] = "lockSecond"] /\ LockRow(c, FirstRow(o))
      BY <1>8, PaymentOperators DEF Payments!LockFirst, o
    <2>2. Placing' /\ Told(c)' /\ Unused(c)' /\ pc'[c] = "lockSecond"
      BY <1>1, <1>2, <2>1, GoingOn DEF Inserted, o
    <2>3. rowLock'[FirstRow(o)] = c
      BY <1>0, <2>1, LockRowKeeps
    <2> QED BY <1>1, <1>3, <2>2, <2>3 DEF CallInv, Holding, Judged, BothHeld, Inserted, OnCode, o
  <1>9. CASE Payments!LockSecond(c)
    <2>1. CASE StatusAllows(status, o) /\ Covered(balance, o)
      <3>1. /\ UNCHANGED <<rows, balance, status, reply>> /\ pc[c] = "lockSecond"
            /\ pc' = [pc EXCEPT ![c] = "insert"] /\ LockRow(c, SecondRow(o))
            /\ seen' = [seen EXCEPT ![c] = SeenBalances(o)]
        BY <1>9, <2>1, PaymentOperators DEF Payments!LockSecond, o
      <3>2. Placing' /\ Told(c)' /\ Unused(c)' /\ pc'[c] = "insert"
        BY <1>1, <1>2, <3>1, GoingOn DEF Inserted, o
      <3>3. rowLock'[FirstRow(o)] = c /\ rowLock'[SecondRow(o)] = c
        BY <1>0, <1>5, <3>1, LockRowKeeps DEF Holding, o
      <3>4. rowLock'[o.sender] = c /\ rowLock'[o.receiver] = c
        BY <1>0, <3>3
      <3>5. Holding(c)'
        BY <1>1, <3>2, <3>4 DEF Holding, BothHeld, Inserted, OnCode, o
      <3>6. Judged(c)'
        BY <1>0, <1>1, <2>1, <3>1 DEF Judged, SeenBalances, o
      <3> QED BY <1>3, <3>2, <3>5, <3>6 DEF CallInv
    <2>2. CASE ~ (StatusAllows(status, o) /\ Covered(balance, o))
      BY <1>9, <2>2, <1>e, PaymentOperators DEF Payments!LockSecond, Payments!Rollback, o
    <2> QED BY <2>1, <2>2
  <1>10. CASE Payments!InsertRows(c)
    <2>1. CASE ~ KeyTaken(o) /\ keyLock' = [keyLock EXCEPT ![KeyOf(o)] = c]
               /\ pc' = [pc EXCEPT ![c] = "readPool"] /\ reply' = reply /\ UNCHANGED rowLock
      <3>1. UNCHANGED <<rows, balance, status, seen>> /\ pc[c] = "insert" /\ keyLock[KeyOf(o)] = NoCall
        BY <1>10, PaymentOperators DEF Payments!InsertRows, o
      <3>2. Placing' /\ Told(c)' /\ Unused(c)' /\ pc'[c] = "readPool"
        BY <1>1, <1>2, <2>1, <3>1, GoingOn DEF Inserted, o
      <3>3. keyLock'[KeyOf(o)] = c
        BY <1>0, <2>1, <3>1, LockKeyKeeps
      <3>4. Holding(c)'
        BY <1>1, <1>5, <2>1, <3>1, <3>2, <3>3 DEF Holding, BothHeld, Inserted, OnCode, o
      <3>5. Judged(c)'
        BY <1>1, <1>5, <3>1 DEF Judged, BothHeld
      <3> QED BY <1>3, <3>2, <3>4, <3>5 DEF CallInv
    <2>2. CASE Payments!Rollback(c, "error")
      BY <1>10, <2>2, <1>e DEF Payments!InsertRows, Payments!Rollback
    <2> QED BY <1>10, <2>1, <2>2, PaymentOperators DEF Payments!InsertRows, o
  <1>11. CASE Payments!ReadFeePool(c)
    <2>1. UNCHANGED <<rows, balance, status, reply, rowLock, keyLock>> /\ pc[c] = "readPool"
      BY <1>11 DEF Payments!ReadFeePool
    <2>2. seen'[c].sender = seen[c].sender /\ seen'[c].receiver = seen[c].receiver
      BY <1>0, <1>11 DEF Payments!ReadFeePool, SeenRecord
    <2>3. Judged(c)'
      BY <1>1, <1>5, <2>1, <2>2 DEF Judged, BothHeld
    <2>4. CASE HasFeePool /\ pc' = [pc EXCEPT ![c] = "lockPool"]
      <3>1. Placing' /\ Told(c)' /\ Unused(c)' /\ pc'[c] = "lockPool"
        BY <1>1, <1>2, <2>1, <2>4, GoingOn DEF Inserted, o
      <3>2. Holding(c)'
        BY <1>1, <1>5, <2>1, <2>4, <3>1 DEF Holding, BothHeld, Inserted, OnCode, o
      <3> QED BY <1>3, <2>3, <3>1, <3>2 DEF CallInv
    <2>5. CASE ~ HasFeePool /\ pc' = [pc EXCEPT ![c] = "audit"]
      <3>1. Placing' /\ Told(c)' /\ Unused(c)' /\ pc'[c] = "audit"
        BY <1>1, <1>2, <2>1, <2>5, GoingOn DEF Inserted, o
      <3>2. Holding(c)'
        BY <1>1, <1>5, <2>1, <2>5, <3>1 DEF Holding, BothHeld, Inserted, OnCode, o
      <3> QED BY <1>3, <2>3, <3>1, <3>2 DEF CallInv
    <2> QED BY <1>11, <2>4, <2>5 DEF Payments!ReadFeePool, Payments!HasFeePool, HasFeePool
  <1>12. CASE Payments!UpdateFeePool(c)
    <2>1. /\ UNCHANGED <<rows, balance, status, reply, keyLock, seen>> /\ pc[c] = "lockPool"
          /\ pc' = [pc EXCEPT ![c] = "audit"] /\ LockRow(c, FeePool)
      BY <1>12, PaymentOperators DEF Payments!UpdateFeePool
    <2>2. Placing' /\ Told(c)' /\ Unused(c)' /\ pc'[c] = "audit"
      BY <1>1, <1>2, <2>1, GoingOn DEF Inserted, o
    <2>3. FeePool \in Wallets /\ rowLock[o.sender] = c /\ rowLock[o.receiver] = c
          /\ keyLock[KeyOf(o)] = c
      BY <1>1, <1>4, <1>5, <2>1 DEF Holding, HasFeePool, BothHeld, Inserted, o
    <2>4. rowLock'[FeePool] = c /\ rowLock'[o.sender] = c /\ rowLock'[o.receiver] = c
      BY <1>0, <2>1, <2>3, LockRowKeeps
    <2>5. Holding(c)'
      BY <1>1, <2>1, <2>2, <2>3, <2>4 DEF Holding, BothHeld, Inserted, OnCode, o
    <2>6. Judged(c)'
      BY <1>1, <1>5, <2>1 DEF Judged, BothHeld
    <2> QED BY <1>3, <2>2, <2>5, <2>6 DEF CallInv
  <1>13. CASE Payments!WriteAuditLog(c)
    <2>1. /\ UNCHANGED <<rows, balance, status, reply, rowLock, keyLock, seen>> /\ pc[c] = "audit"
          /\ pc' = [pc EXCEPT ![c] = "commit"]
      BY <1>13 DEF Payments!WriteAuditLog
    <2>2. Placing' /\ Told(c)' /\ Unused(c)' /\ pc'[c] = "commit"
      BY <1>1, <1>2, <2>1, GoingOn DEF Inserted, o
    <2>3. Holding(c)'
      BY <1>1, <1>5, <2>1, <2>2 DEF Holding, BothHeld, Inserted, OnCode, HasFeePool, o
    <2>4. Judged(c)'
      BY <1>1, <1>5, <2>1 DEF Judged, BothHeld
    <2> QED BY <1>3, <2>2, <2>3, <2>4 DEF CallInv
  <1>14. CASE Payments!Commit(c)
    <2>1. pc[c] = "commit" /\ pc' = [pc EXCEPT ![c] = "respond"] /\ pc'[c] = "respond"
      BY <1>0, <1>14 DEF Payments!Commit
    <2>2. Settles(c)
      <3>1. ~ Still
        <4>1. DebitRow(o, seen[c].sender) \in rows'
          BY <1>14, PaymentOperators DEF Payments!Commit, o
        <4>2. \A r \in rows : ~ SameKey(r, Placed(c))
          BY <2>1 DEF CallInv, Unused, Reserves, Inserted
        <4>3. Placed(c) = o
          BY <1>0, <1>1, <1>4, PlacedIs DEF o
        <4> QED BY <4>1, <4>2, <4>3 DEF Still, SameKey, DebitRow, Row
      <3> QED BY <3>1, PaymentTables DEF Quiet
    <2> QED BY <1>1, <2>1, <2>2, Settling
  <1>15. CASE Payments!Respond(c)
    <2>1. /\ rows' = rows /\ pc[c] = "respond" /\ pc' = [pc EXCEPT ![c] = "done"]
          /\ reply' = [reply EXCEPT ![c] = "created"] /\ Due(c, "created")
      BY <1>15 DEF Payments!Respond, Due
    <2> QED BY <1>1, <2>1, Ending
  <1>16. CASE Payments!Timeout(c)
    BY <1>16, <1>e DEF Payments!Timeout, Payments!Rollback
  <1> QED BY <1>6, <1>7, <1>8, <1>9, <1>10, <1>11, <1>12, <1>13, <1>14, <1>15, <1>16
          DEF PaymentStep, Payments!Handle

LEMMA QrOwn ==
    ASSUME DbTypeOK, qrLock \in [QrIds -> CallOrNone], Placing, Attested,
           NEW c \in Calls, CallInv(c), QrStep(c)
    PROVE  Placing' /\ CallInv(c)'
  <1> DEFINE o == order[c]
  <1> USE DEF Qr!At, Qr!Goto, Qr!Answer, Qr!locks, Qr!tables, Qr!qrVars
  <1>1. o.flow = "qr" /\ order' = order
    BY DEF QrStep, Qr!Handle, Qr!ReadQr, Qr!LockFirst, Qr!LockSecond, Qr!LockQr,
           Qr!InsertRows, Qr!Commit, Qr!Respond, Qr!Timeout, Qr!calls
  <1>0. /\ o \in Orders /\ KeyOf(o) \in Flows \X Keys /\ o.qr \in QrIds
        /\ FirstRow(o) \in Wallets /\ SecondRow(o) \in Wallets
        /\ o.sender \in {FirstRow(o), SecondRow(o)} /\ o.receiver \in {FirstRow(o), SecondRow(o)}
        /\ pc \in [Calls -> UNION {Places(f) : f \in Flows}] /\ reply \in [Calls -> Answers]
        /\ seen \in [Calls -> SeenRecord]
    <2>1. o \in Orders
      BY DEF DbTypeOK
    <2>2. {FirstRow(o), SecondRow(o)} = {o.sender, o.receiver}
      BY <2>1, OrderFields
    <2>3. o.qr \in QrIds
      BY <1>1, <2>1, MoneyAssumption DEF MoneyAssumption
    <2> QED BY <2>1, <2>2, <2>3, OrderFields DEF DbTypeOK, Placing, SeenRecord
  <1>2. /\ "lockFirst" \in Moving(o.flow) /\ "lockSecond" \in Moving(o.flow)
        /\ "lockQr" \in Moving(o.flow) /\ "insert" \in Moving(o.flow) /\ "commit" \in Moving(o.flow)
    BY <1>1 DEF Moving, Places
  <1>4. "qr" \notin Free
    BY DEF Free
  <1>5. Holding(c) /\ Judged(c) /\ Scanning(c)
    BY DEF CallInv
  <1>e. ASSUME rows' = rows, pc' = [pc EXCEPT ![c] = "done"], NEW a \in {"rejected", "error"},
               reply' = [reply EXCEPT ![c] = a]
        PROVE  Placing' /\ CallInv(c)'
    <2>1. Due(c, a)
      BY <1>e DEF Due
    <2> QED BY <1>1, <1>e, <2>1, Ending
  <1> HIDE DEF o
  <1>6. CASE Qr!ReadQr(c)
    <2>1. CASE qrs[o.qr].made = "yes" /\ Qr!Payable(o.qr) /\ FitsOffer(o)
      <3>1. rows' = rows /\ pc' = [pc EXCEPT ![c] = "lockFirst"] /\ reply' = reply /\ pc[c] = "idle"
        BY <1>6, <2>1, QrOperators DEF Qr!ReadQr, o
      <3>2. Placing' /\ Told(c)' /\ Unused(c)' /\ pc'[c] = "lockFirst"
        BY <1>1, <1>2, <3>1, GoingOn DEF Inserted, o
      <3>3. Scanning(c)'
        BY <1>1, <2>1, <3>2 DEF Scanning, OnCode, o
      <3> QED BY <3>2, <3>3 DEF CallInv, Holding, Judged, BothHeld, Inserted, OnCode
    <2>2. CASE ~ (qrs[o.qr].made = "yes" /\ Qr!Payable(o.qr) /\ FitsOffer(o))
      BY <1>6, <2>2, <1>e, QrOperators DEF Qr!ReadQr, o
    <2> QED BY <2>1, <2>2
  <1>7. CASE Qr!LockFirst(c)
    <2>1. /\ rows' = rows /\ pc[c] = "lockFirst" /\ reply' = reply
          /\ pc' = [pc EXCEPT ![c] = "lockSecond"] /\ LockRow(c, FirstRow(o))
      BY <1>7, QrOperators DEF Qr!LockFirst, o
    <2>2. Placing' /\ Told(c)' /\ Unused(c)' /\ pc'[c] = "lockSecond"
      BY <1>1, <1>2, <2>1, GoingOn DEF Inserted, o
    <2>3. rowLock'[FirstRow(o)] = c
      BY <1>0, <2>1, LockRowKeeps
    <2>4. Scanning(c)'
      BY <1>1, <1>5, <2>1, <2>2 DEF Scanning, OnCode, o
    <2> QED BY <1>1, <2>2, <2>3, <2>4 DEF CallInv, Holding, Judged, BothHeld, Inserted, OnCode, o
  <1>8. CASE Qr!LockSecond(c)
    <2>1. CASE StatusAllows(status, o) /\ Covered(balance, o)
      <3>1. /\ UNCHANGED <<rows, balance, status, reply>> /\ pc[c] = "lockSecond"
            /\ pc' = [pc EXCEPT ![c] = "lockQr"] /\ LockRow(c, SecondRow(o))
            /\ seen' = [seen EXCEPT ![c] = SeenBalances(o)]
        BY <1>8, <2>1, QrOperators DEF Qr!LockSecond, o
      <3>2. Placing' /\ Told(c)' /\ Unused(c)' /\ pc'[c] = "lockQr"
        BY <1>1, <1>2, <3>1, GoingOn DEF Inserted, o
      <3>3. rowLock'[FirstRow(o)] = c /\ rowLock'[SecondRow(o)] = c
        BY <1>0, <1>5, <3>1, LockRowKeeps DEF Holding, o
      <3>4. rowLock'[o.sender] = c /\ rowLock'[o.receiver] = c
        BY <1>0, <3>3
      <3>5. Holding(c)'
        BY <1>1, <3>2, <3>4 DEF Holding, BothHeld, Inserted, OnCode, o
      <3>6. Judged(c)'
        BY <1>0, <1>1, <2>1, <3>1 DEF Judged, SeenBalances, o
      <3>7. Scanning(c)'
        BY <1>1, <1>5, <3>1, <3>2 DEF Scanning, OnCode, o
      <3> QED BY <3>2, <3>5, <3>6, <3>7 DEF CallInv
    <2>2. CASE ~ (StatusAllows(status, o) /\ Covered(balance, o))
      BY <1>8, <2>2, <1>e, QrOperators DEF Qr!LockSecond, Qr!Rollback, o
    <2> QED BY <2>1, <2>2
  <1>9. CASE Qr!LockQr(c)
    <2>1. CASE Qr!Payable(o.qr)
      <3>1. /\ UNCHANGED <<rows, balance, status, reply, seen, locks, qrs>> /\ pc[c] = "lockQr"
            /\ pc' = [pc EXCEPT ![c] = "insert"] /\ qrLock' = [qrLock EXCEPT ![o.qr] = c]
        BY <1>9, <2>1 DEF Qr!LockQr, locks, o
      <3>2. Placing' /\ Told(c)' /\ Unused(c)' /\ pc'[c] = "insert"
        BY <1>1, <1>2, <3>1, GoingOn DEF Inserted, o
      <3>3. qrLock'[o.qr] = c
        BY <1>0, <3>1
      <3>4. Holding(c)'
        BY <1>1, <1>5, <3>1, <3>2, <3>3 DEF Holding, BothHeld, Inserted, OnCode, locks, o
      <3>5. Judged(c)'
        BY <1>1, <1>5, <3>1 DEF Judged, BothHeld
      <3>6. Scanning(c)'
        BY <1>1, <1>5, <2>1, <3>1, <3>2 DEF Scanning, OnCode, Open, Qr!Payable, o
      <3> QED BY <3>2, <3>4, <3>5, <3>6 DEF CallInv
    <2>2. CASE ~ Qr!Payable(o.qr)
      BY <1>9, <2>2, <1>e DEF Qr!LockQr, Qr!Rollback, o
    <2> QED BY <2>1, <2>2
  <1>10. CASE Qr!InsertRows(c)
    <2>1. CASE ~ KeyTaken(o) /\ keyLock' = [keyLock EXCEPT ![KeyOf(o)] = c]
               /\ pc' = [pc EXCEPT ![c] = "commit"] /\ UNCHANGED <<rowLock, qrLock, reply>>
      <3>1. /\ UNCHANGED <<rows, balance, status, seen, qrs>> /\ pc[c] = "insert"
            /\ keyLock[KeyOf(o)] = NoCall
        BY <1>10, QrOperators DEF Qr!InsertRows, o
      <3>2. Placing' /\ Told(c)' /\ Unused(c)' /\ pc'[c] = "commit"
        BY <1>1, <1>2, <2>1, <3>1, GoingOn DEF Inserted, o
      <3>3. keyLock'[KeyOf(o)] = c
        BY <1>0, <2>1, <3>1, LockKeyKeeps
      <3>4. Holding(c)'
        BY <1>1, <1>5, <2>1, <3>1, <3>2, <3>3 DEF Holding, BothHeld, Inserted, OnCode, o
      <3>5. Judged(c)'
        BY <1>1, <1>5, <3>1 DEF Judged, BothHeld
      <3>6. Scanning(c)'
        BY <1>1, <1>5, <3>1, <3>2 DEF Scanning, OnCode, Open, o
      <3> QED BY <3>2, <3>4, <3>5, <3>6 DEF CallInv
    <2>2. CASE Qr!Rollback(c, "error")
      BY <1>10, <2>2, <1>e DEF Qr!InsertRows, Qr!Rollback
    <2> QED BY <1>10, <2>1, <2>2, QrOperators DEF Qr!InsertRows, o
  <1>11. CASE Qr!Commit(c)
    <2>1. pc[c] = "commit" /\ pc' = [pc EXCEPT ![c] = "respond"] /\ pc'[c] = "respond"
      BY <1>0, <1>11 DEF Qr!Commit
    <2>2. Settles(c)
      <3>1. ~ Still
        <4>1. DebitRow(o, seen[c].sender) \in rows'
          BY <1>11, QrOperators DEF Qr!Commit, o
        <4>2. \A r \in rows : ~ SameKey(r, Placed(c))
          BY <2>1 DEF CallInv, Unused, Reserves, Inserted
        <4>3. Placed(c) = o
          BY <1>0, <1>1, <1>4, PlacedIs DEF o
        <4> QED BY <4>1, <4>2, <4>3 DEF Still, SameKey, DebitRow, Row
      <3> QED BY <3>1, QrTables DEF Quiet
    <2> QED BY <1>1, <2>1, <2>2, Settling
  <1>12. CASE Qr!Respond(c)
    <2>1. /\ rows' = rows /\ pc[c] = "respond" /\ pc' = [pc EXCEPT ![c] = "done"]
          /\ reply' = [reply EXCEPT ![c] = "created"] /\ Due(c, "created")
      BY <1>12 DEF Qr!Respond, Due
    <2> QED BY <1>1, <2>1, Ending
  <1>13. CASE Qr!Timeout(c)
    BY <1>13, <1>e DEF Qr!Timeout, Qr!Rollback
  <1> QED BY <1>6, <1>7, <1>8, <1>9, <1>10, <1>11, <1>12, <1>13 DEF QrStep, Qr!Handle

LEMMA BatchOwn ==
    ASSUME DbTypeOK, Placing, Attested, NEW c \in Calls, CallInv(c), BatchStep(c)
    PROVE  Placing' /\ CallInv(c)'
  <1> DEFINE o == order[c]
  <1> USE DEF Batch!At, Batch!Goto, Batch!Answer, Batch!locks, Batch!tables, Batch!BatchFlows
  <1>1. o.flow \in {"cashIn", "cashOut", "ussd", "airtime"} /\ order' = order
    BY DEF BatchStep, Batch!Handle, Batch!ReadWallets, Batch!DebitWallet, Batch!CreditWallet,
           Batch!InsertRows, Batch!Commit, Batch!Respond, Batch!Abort, Batch!calls
  <1>0. /\ o \in Orders /\ KeyOf(o) \in Flows \X Keys
        /\ o.sender \in Wallets /\ o.receiver \in Wallets
        /\ o.flow = "airtime" => o.receiver = o.sender
        /\ pc \in [Calls -> UNION {Places(f) : f \in Flows}] /\ reply \in [Calls -> Answers]
        /\ seen \in [Calls -> SeenRecord]
    <2>1. o \in Orders
      BY DEF DbTypeOK
    <2>2. o.flow = "airtime" => o.receiver = o.sender
      BY <2>1, MoneyAssumption DEF MoneyAssumption
    <2> QED BY <2>1, <2>2, OrderFields DEF DbTypeOK, Placing, SeenRecord
  <1>2. /\ "debitWallet" \in Moving(o.flow) /\ "creditWallet" \in Moving(o.flow)
        /\ "insert" \in Moving(o.flow) /\ "commit" \in Moving(o.flow)
    BY <1>1 DEF Moving, Places
  <1>3. Scanning(c)' /\ Judged(c)'
    BY <1>1 DEF Scanning, Judged
  <1>5. Holding(c)
    BY DEF CallInv
  <1>e. ASSUME rows' = rows, pc' = [pc EXCEPT ![c] = "done"], NEW a \in {"rejected", "error"},
               reply' = [reply EXCEPT ![c] = a]
        PROVE  Placing' /\ CallInv(c)'
    <2>1. Due(c, a)
      BY <1>e DEF Due
    <2> QED BY <1>1, <1>e, <2>1, Ending
  <1> HIDE DEF o
  <1>6. CASE Batch!ReadWallets(c)
    <2>1. CASE pc' = [pc EXCEPT ![c] = "debitWallet"] /\ reply' = reply
      <3>1. rows' = rows /\ pc[c] = "idle"
        BY <1>6 DEF Batch!ReadWallets
      <3>2. Placing' /\ Told(c)' /\ Unused(c)' /\ pc'[c] = "debitWallet"
        BY <1>1, <1>2, <2>1, <3>1, GoingOn DEF Inserted, o
      <3> QED BY <1>3, <3>2 DEF CallInv, Holding, BothHeld, Inserted, OnCode
    <2>2. CASE ~ (pc' = [pc EXCEPT ![c] = "debitWallet"] /\ reply' = reply)
      BY <1>6, <2>2, <1>e DEF Batch!ReadWallets
    <2> QED BY <2>1, <2>2
  <1>7. CASE Batch!DebitWallet(c)
    <2>1. /\ UNCHANGED <<rows, reply, keyLock>> /\ pc[c] = "debitWallet" /\ LockRow(c, o.sender)
          /\ pc' = [pc EXCEPT ![c] = IF o.flow = "airtime" THEN "insert" ELSE "creditWallet"]
      BY <1>7, BatchOperators DEF Batch!DebitWallet, o
    <2>2. rowLock'[o.sender] = c
      BY <1>0, <2>1, LockRowKeeps
    <2>3. CASE o.flow = "airtime"
      <3>1. pc' = [pc EXCEPT ![c] = "insert"]
        BY <2>1, <2>3
      <3>2. Placing' /\ Told(c)' /\ Unused(c)' /\ pc'[c] = "insert"
        BY <1>1, <1>2, <2>1, <3>1, GoingOn DEF Inserted, o
      <3>3. Holding(c)'
        BY <1>0, <1>1, <2>2, <2>3, <3>2 DEF Holding, BothHeld, Inserted, OnCode, o
      <3> QED BY <1>3, <3>2, <3>3 DEF CallInv
    <2>4. CASE o.flow # "airtime"
      <3>1. pc' = [pc EXCEPT ![c] = "creditWallet"]
        BY <2>1, <2>4
      <3>2. Placing' /\ Told(c)' /\ Unused(c)' /\ pc'[c] = "creditWallet"
        BY <1>1, <1>2, <2>1, <3>1, GoingOn DEF Inserted, o
      <3>3. Holding(c)'
        BY <1>1, <2>2, <3>2 DEF Holding, BothHeld, Inserted, OnCode, o
      <3> QED BY <1>3, <3>2, <3>3 DEF CallInv
    <2> QED BY <2>3, <2>4
  <1>8. CASE Batch!CreditWallet(c)
    <2>1. /\ UNCHANGED <<rows, reply, keyLock>> /\ pc[c] = "creditWallet" /\ LockRow(c, o.receiver)
          /\ pc' = [pc EXCEPT ![c] = "insert"]
      BY <1>8, BatchOperators DEF Batch!CreditWallet, o
    <2>2. rowLock'[o.sender] = c /\ rowLock'[o.receiver] = c
      BY <1>0, <1>5, <2>1, LockRowKeeps DEF Holding, o
    <2>3. Placing' /\ Told(c)' /\ Unused(c)' /\ pc'[c] = "insert"
      BY <1>1, <1>2, <2>1, GoingOn DEF Inserted, o
    <2>4. Holding(c)'
      BY <1>1, <2>2, <2>3 DEF Holding, BothHeld, Inserted, OnCode, o
    <2> QED BY <1>3, <2>3, <2>4 DEF CallInv
  <1>9. CASE Batch!InsertRows(c)
    <2>0. rows' = rows /\ pc[c] = "insert"
      BY <1>9 DEF Batch!InsertRows
    <2>1. CASE o.flow \in Free /\ pc' = [pc EXCEPT ![c] = "commit"] /\ UNCHANGED <<locks, reply>>
      <3>1. Placing' /\ Told(c)' /\ Unused(c)' /\ pc'[c] = "commit"
        BY <1>1, <1>2, <2>0, <2>1, GoingOn DEF Inserted, o
      <3>2. Holding(c)'
        BY <1>1, <1>5, <2>0, <2>1, <3>1 DEF Holding, BothHeld, Inserted, OnCode, locks, o
      <3> QED BY <1>3, <3>1, <3>2 DEF CallInv
    <2>2. CASE /\ o.flow \notin Free /\ ~ KeyTaken(o) /\ keyLock[KeyOf(o)] = NoCall
               /\ keyLock' = [keyLock EXCEPT ![KeyOf(o)] = c]
               /\ pc' = [pc EXCEPT ![c] = "commit"] /\ UNCHANGED <<rowLock, reply>>
      <3>1. Placing' /\ Told(c)' /\ Unused(c)' /\ pc'[c] = "commit"
        BY <1>1, <1>2, <2>0, <2>2, GoingOn DEF Inserted, o
      <3>2. keyLock'[KeyOf(o)] = c
        BY <1>0, <2>2, LockKeyKeeps
      <3>3. Holding(c)'
        BY <1>1, <1>5, <2>0, <2>2, <3>1, <3>2 DEF Holding, BothHeld, Inserted, OnCode, o
      <3> QED BY <1>3, <3>1, <3>3 DEF CallInv
    <2>3. CASE Batch!Rollback(c, "error")
      BY <2>0, <2>3, <1>e DEF Batch!Rollback
    <2> QED BY <1>9, <2>1, <2>2, <2>3, BatchOperators DEF Batch!InsertRows, Free, locks, o
  <1>10. CASE Batch!Commit(c)
    <2>1. pc[c] = "commit" /\ pc' = [pc EXCEPT ![c] = "respond"] /\ pc'[c] = "respond"
      BY <1>0, <1>10 DEF Batch!Commit
    <2>2. Settles(c)
      <3>1. ~ Still
        <4>1. DebitRow(Placed(c), seen[c].sender) \in rows'
          BY <1>10, BatchOperators DEF Batch!Commit
        <4>2. \A r \in rows : ~ SameKey(r, Placed(c))
          BY <2>1 DEF CallInv, Unused, Reserves, Inserted
        <4> QED BY <4>1, <4>2 DEF Still, SameKey, DebitRow, Row
      <3> QED BY <3>1, BatchTables DEF Quiet
    <2> QED BY <1>1, <2>1, <2>2, Settling
  <1>11. CASE Batch!Respond(c)
    <2>1. /\ rows' = rows /\ pc[c] = "respond" /\ pc' = [pc EXCEPT ![c] = "done"]
          /\ \/ reply' = [reply EXCEPT ![c] = "created"] /\ Due(c, "created")
             \/ reply' = [reply EXCEPT ![c] = "error"] /\ Due(c, "error")
      BY <1>11 DEF Batch!Respond, Due
    <2> QED BY <1>1, <2>1, Ending
  <1>12. CASE Batch!Abort(c)
    BY <1>12, <1>e DEF Batch!Abort, Batch!Rollback
  <1> QED BY <1>6, <1>7, <1>8, <1>9, <1>10, <1>11, <1>12 DEF BatchStep, Batch!Handle

(***************************************************************************)
(* What is true of a call survives the steps of the others.                *)
(***************************************************************************)
LEMMA Spared ==
    ASSUME DbTypeOK, NEW d \in Calls, CallInv(d), Keeps(d), UNCHANGED <<order, balance, rows>>,
           \A v \in Wallets : rowLock[v] # NoCall => status'[v] = status[v],
           \A q \in QrIds : Open(q) => Open(q)'
    PROVE  CallInv(d)'
  <1> DEFINE o == order[d]
  <1>1. /\ o \in Orders /\ KeyOf(o) \in Flows \X Keys /\ o.sender \in Wallets /\ o.receiver \in Wallets
        /\ FirstRow(o) \in Wallets /\ SecondRow(o) \in Wallets
        /\ OnCode(d) => o.qr \in QrIds
    <2>1. o \in Orders
      BY DEF DbTypeOK
    <2>2. OnCode(d) => o.qr \in QrIds
      BY <2>1, MoneyAssumption DEF MoneyAssumption, OnCode
    <2> QED BY <2>1, <2>2, OrderFields
  <1> HIDE DEF o
  <1>2. Holding(d)'
    BY <1>1 DEF CallInv, Holding, Keeps, OnCode, HasFeePool, o
  <1>3. Judged(d)'
    <2>1. SUFFICES ASSUME o.flow \in {"payment", "qr"}, pc[d] \in BothHeld PROVE Judged(d)'
      BY DEF Judged, Keeps, o
    <2>2. rowLock[o.sender] # NoCall /\ rowLock[o.receiver] # NoCall
      BY <2>1, CallAssumption DEF CallInv, Holding, CallAssumption, o
    <2>3. status'[o.sender] = status[o.sender] /\ status'[o.receiver] = status[o.receiver]
      BY <1>1, <2>2
    <2> QED BY <2>1, <2>3 DEF CallInv, Judged, Keeps, Covered, StatusAllows, o
  <1>4. Scanning(d)' /\ Unused(d)'
    <2>1. Placed(d)' = Placed(d)
      BY DEF Placed
    <2>2. OnCode(d) => Open(o.qr)'
      BY <1>1 DEF CallInv, Scanning, OnCode, o
    <2>3. o' = o
      BY DEF o
    <2> QED BY <2>1, <2>2, <2>3 DEF CallInv, Scanning, Unused, Reserves, Keeps, OnCode, Open, o
  <1>5. Told(d)'
    <2>1. SettledOrders' = SettledOrders /\ KeyTaken(o)' = KeyTaken(o) /\ Placed(d)' = Placed(d)
      BY DEF SettledOrders, OrderOf, KeyTaken, Placed, o
    <2> QED BY <2>1 DEF CallInv, Told, Succeeded, Keeps, o
  <1> QED BY <1>2, <1>3, <1>4, <1>5 DEF CallInv

\* Who commits has every row locked that he changes.
LEMMA SettlesLocally ==
    ASSUME DbTypeOK, NEW c \in Calls, Holding(c), Settles(c), NEW w \in Wallets, rowLock[w] # c
    PROVE  balance'[w] = balance[w]
  <1> DEFINE o == Placed(c)
  <1>1. /\ o \in Stored /\ o.sender = order[c].sender /\ o.receiver = order[c].receiver
        /\ o.flow = order[c].flow /\ balance[w] \in Int
        /\ o.sender \in Nat /\ o.amount \in Nat /\ FeeOf(o) \in Nat /\ TotalDebit(o) \in Nat
        /\ o.flow # "payment" => FeeOf(o) = 0
    BY PlacedIs, StoredFields DEF DbTypeOK
  <1>2. /\ rowLock[o.sender] = c /\ rowLock[o.receiver] = c
        /\ o.flow = "payment" /\ HasFeePool => rowLock[FeePool] = c
    BY <1>1 DEF Holding, Settles, BothHeld
  <1>3. w # o.sender /\ w # o.receiver /\ (o.flow = "payment" => w # FeePool)
    BY <1>2 DEF HasFeePool
  <1>4. balance'[w] = balance[w] + Delta(o, w)
    BY DEF Settles
  <1> HIDE DEF o
  <1>5. Delta(o, w) = 0
    BY <1>1, <1>3 DEF Delta, Movement
  <1> QED BY <1>1, <1>4, <1>5

LEMMA SparedSettles ==
    ASSUME DbTypeOK, Placing, qrs \in [QrIds -> [made : {"no", "checked", "yes"}, active : BOOLEAN,
               usage : Nat, maxUsage : {Qr!Unlimited, 1}, expired : BOOLEAN]],
           NEW c \in Calls, CallInv(c), Settles(c), order' = order,
           NEW d \in Calls, d # c, CallInv(d), Keeps(d)
    PROVE  CallInv(d)'
  <1> DEFINE o == order[d]
  <1>1. /\ o \in Orders /\ KeyOf(o) \in Flows \X Keys /\ o.sender \in Wallets /\ o.receiver \in Wallets
        /\ FirstRow(o) \in Wallets /\ SecondRow(o) \in Wallets
        /\ OnCode(d) => o.qr \in QrIds
        /\ order[c] \in Orders
    <2>1. o \in Orders /\ order[c] \in Orders
      BY DEF DbTypeOK
    <2>2. OnCode(d) => o.qr \in QrIds
      BY <2>1, MoneyAssumption DEF MoneyAssumption, OnCode
    <2> QED BY <2>1, <2>2, OrderFields
  <1>2. Holding(d) /\ Judged(d) /\ Scanning(d) /\ Unused(d) /\ Told(d)
        /\ Holding(c) /\ Unused(c) /\ Placed(d)' = Placed(d) /\ pc[c] = "commit"
    BY DEF CallInv, Placed, Settles
  <1> HIDE DEF o
  <1>3. Holding(d)'
    BY <1>1, <1>2 DEF Holding, Keeps, OnCode, HasFeePool, o
  <1>4. Judged(d)'
    <2>1. SUFFICES ASSUME o.flow \in {"payment", "qr"}, pc[d] \in BothHeld PROVE Judged(d)'
      BY DEF Judged, Keeps, o
    <2>2. rowLock[o.sender] = d /\ rowLock[o.receiver] = d
      BY <1>2, <2>1 DEF Holding, o
    <2>3. balance'[o.sender] = balance[o.sender] /\ balance'[o.receiver] = balance[o.receiver]
      BY <1>1, <1>2, <2>2, SettlesLocally
    <2>4. status' = status /\ seen' = seen
      BY DEF Settles
    <2> QED BY <1>2, <2>1, <2>3, <2>4 DEF Judged, Keeps, Covered, StatusAllows, o
  <1>5. Scanning(d)'
    <2>1. ASSUME OnCode(d) PROVE Open(o.qr)'
      <3>1. qrLock[o.qr] = d /\ o.qr \in QrIds /\ Open(o.qr)
        BY <1>1, <1>2, <2>1 DEF Holding, Scanning, OnCode, o
      <3>2. order[c].flow = "qr" => Placed(c).qr # o.qr
        BY <1>1, <1>2, <3>1, PlacedIs DEF Holding, OnCode
      <3>3. qrs'[o.qr] = qrs[o.qr]
        BY <1>1, <3>1, <3>2, PlacedIs DEF Settles, CodeAfter
      <3>4. o' = o
        BY DEF o
      <3> QED BY <3>1, <3>3, <3>4 DEF Open
    <2> QED BY <1>2, <2>1 DEF Scanning, Keeps, OnCode, o
  <1>6. Unused(d)'
    <2>1. SUFFICES ASSUME Reserves(d), NEW r \in rows', SameKey(r, Placed(d)) PROVE FALSE
      BY <1>2 DEF Unused, Reserves, Keeps
    <2>2. r \in Lines(c)
      BY <1>2, <2>1 DEF Unused, Settles
    <2>3. SameKey(Placed(c), Placed(d))
      BY <2>1, <2>2, LinesOf DEF SameKey
    <2>4. order[c].flow = o.flow
      BY <1>1, <2>3, PlacedIs DEF SameKey, o
    <2>5. CASE o.flow \in Free
      BY <1>1, <2>3, <2>4, <2>5, PlacedIs DEF SameKey, o
    <2>6. CASE o.flow \notin Free
      <3>1. KeyOf(order[c]) = KeyOf(o)
        BY <1>1, <2>3, <2>4, <2>6, PlacedIs DEF SameKey, KeyOf, o
      <3>2. keyLock[KeyOf(order[c])] = c
        BY <1>2, <2>4, <2>6 DEF Holding, Inserted
      <3>3. keyLock[KeyOf(o)] = d
        BY <1>2, <2>1, <2>6 DEF Holding, Reserves, o
      <3> QED BY <3>1, <3>2, <3>3
    <2> QED BY <2>5, <2>6
  <1>7. Told(d)'
    <2>1. SettledOrders \subseteq SettledOrders' /\ (KeyTaken(o) => KeyTaken(o)')
      <3>1. rows \subseteq rows'
        BY DEF Settles
      <3> QED BY <3>1 DEF SettledOrders, OrderOf, KeyTaken, o
    <2> QED BY <1>2, <2>1 DEF Told, Succeeded, Keeps, o
  <1> QED BY <1>3, <1>4, <1>5, <1>6, <1>7 DEF CallInv

(***************************************************************************)
(* Types.                                                                  *)
(***************************************************************************)
LocksTyped ==
    /\ rowLock \in [Wallets -> CallOrNone]
    /\ keyLock \in [Flows \X Keys -> CallOrNone]
    /\ auditLock \in CallOrNone
    /\ qrLock \in [QrIds -> CallOrNone]

\* The variables a call writes besides the tables that Quiet and Settles tell of.
SideTyped ==
    /\ LocksTyped
    /\ seen \in [Calls -> SeenRecord]
    /\ audited \subseteq (Flows \X Keys) \cup ({"suspend"} \X Wallets)
    /\ auditDue \subseteq Wallets

LEMMA SeenTyped ==
    ASSUME DbTypeOK, NEW c \in Calls
    PROVE  /\ SeenBalances(order[c]) \in SeenRecord
           /\ HasFeePool => balance[FeePool] + Movement(order[c], FeePool) - FeeOf(order[c]) \in Int
  <1>1. order[c] \in Orders /\ balance \in [Wallets -> Int]
    BY DEF DbTypeOK
  <1>2. SeenBalances(order[c]) \in SeenRecord
    BY <1>1, OrderFields DEF SeenBalances, SeenRecord
  <1>3. HasFeePool => balance[FeePool] + Movement(order[c], FeePool) - FeeOf(order[c]) \in Int
    BY <1>1, MovementBounds, FeeIsNat DEF HasFeePool
  <1> QED BY <1>2, <1>3

LEMMA PaymentTypes ==
    ASSUME TypeOK, NEW c \in Calls, PaymentStep(c)
    PROVE  SideTyped'
  <1> DEFINE o == order[c]
  <1> USE DEF Payments!At, Payments!Goto, Payments!Answer, Payments!locks, Payments!tables,
              Payments!paymentVars, LocksTyped, SideTyped
  <1>0. /\ o \in Orders /\ KeyOf(o) \in Flows \X Keys /\ DbTypeOK
        /\ seen \in [Calls -> SeenRecord] /\ LocksTyped
        /\ audited \subseteq (Flows \X Keys) \cup ({"suspend"} \X Wallets)
        /\ auditDue \subseteq Wallets
        /\ UNCHANGED <<auditDue, qrLock>>
    BY OrderFields DEF TypeOK, DbTypeOK, SeenRecord, PaymentStep, qrVars
  <1> HIDE DEF o
  <1>r. ReleaseAll({c}) => LocksTyped'
    BY <1>0, ReleaseType
  <1>1. CASE Payments!CheckKey(c) \/ Payments!Screen(c) \/ Payments!Respond(c)
    BY <1>0, <1>1 DEF Payments!CheckKey, Payments!Screen, Payments!Respond
  <1>2. CASE Payments!LockFirst(c)
    BY <1>0, <1>2, LockRowType, PaymentOperators DEF Payments!LockFirst
  <1>3. CASE Payments!LockSecond(c)
    <2>1. seen' \in [Calls -> SeenRecord] /\ audited' = audited
      BY <1>0, <1>3, SeenTyped, PaymentOperators DEF Payments!LockSecond
    <2>2. CASE LockRow(c, SecondRow(o)) /\ UNCHANGED <<keyLock, auditLock>>
      BY <1>0, <2>1, <2>2, LockRowType
    <2>3. CASE ReleaseAll({c})
      BY <1>0, <1>r, <2>1, <2>3
    <2> QED BY <1>3, <2>2, <2>3, PaymentOperators DEF Payments!LockSecond, Payments!Rollback, o
  <1>4. CASE Payments!InsertRows(c)
    <2>1. seen' = seen /\ audited' = audited
      BY <1>4 DEF Payments!InsertRows
    <2>2. CASE /\ keyLock[KeyOf(o)] = NoCall /\ keyLock' = [keyLock EXCEPT ![KeyOf(o)] = c]
               /\ UNCHANGED <<rowLock, auditLock>>
      BY <1>0, <2>1, <2>2, LockKeyKeeps
    <2>3. CASE ReleaseAll({c})
      BY <1>0, <1>r, <2>1, <2>3
    <2> QED BY <1>4, <2>2, <2>3, PaymentOperators DEF Payments!InsertRows, Payments!Rollback, o
  <1>5. CASE Payments!ReadFeePool(c)
    <2>1. UNCHANGED <<rowLock, keyLock, auditLock, audited>>
      BY <1>5 DEF Payments!ReadFeePool
    <2>2. seen' \in [Calls -> SeenRecord]
      <3>1. CASE HasFeePool
        <4> DEFINE x == balance[FeePool] + Movement(order[c], FeePool) - FeeOf(order[c])
        <4>1. x \in Int
          BY <1>0, <3>1, SeenTyped
        <4>2. seen' = [seen EXCEPT ![c] = [@ EXCEPT !.pool = x]]
          BY <1>5, <3>1, PaymentOperators DEF Payments!ReadFeePool, Payments!HasFeePool, HasFeePool
        <4> HIDE DEF x
        <4> QED BY <1>0, <4>1, <4>2, SeenPool
      <3>2. CASE ~ HasFeePool
        BY <1>0, <1>5, <3>2 DEF Payments!ReadFeePool, Payments!HasFeePool, HasFeePool
      <3> QED BY <3>1, <3>2
    <2> QED BY <1>0, <2>1, <2>2
  <1>6. CASE Payments!UpdateFeePool(c)
    BY <1>0, <1>6, LockRowType, PaymentOperators DEF Payments!UpdateFeePool
  <1>7. CASE Payments!WriteAuditLog(c)
    BY <1>0, <1>7 DEF Payments!WriteAuditLog, CallOrNone
  <1>8. CASE Payments!Commit(c)
    <2>1. seen' = seen /\ audited' = audited \cup {KeyOf(o)} /\ ReleaseAll({c})
      BY <1>8, PaymentOperators DEF Payments!Commit, o
    <2> QED BY <1>0, <1>r, <2>1
  <1>9. CASE Payments!Timeout(c)
    <2>1. seen' = seen /\ audited' = audited /\ ReleaseAll({c})
      BY <1>9, PaymentOperators DEF Payments!Timeout, Payments!Rollback
    <2> QED BY <1>0, <1>r, <2>1
  <1> QED BY <1>1, <1>2, <1>3, <1>4, <1>5, <1>6, <1>7, <1>8, <1>9
          DEF PaymentStep, Payments!Handle

LEMMA QrTypes ==
    ASSUME TypeOK, NEW c \in Calls, QrStep(c)
    PROVE  SideTyped'
  <1> DEFINE o == order[c]
  <1> USE DEF Qr!At, Qr!Goto, Qr!Answer, Qr!locks, Qr!tables, Qr!qrVars, LocksTyped, SideTyped
  <1>0. /\ o \in Orders /\ KeyOf(o) \in Flows \X Keys /\ DbTypeOK
        /\ seen \in [Calls -> SeenRecord] /\ LocksTyped
        /\ audited \subseteq (Flows \X Keys) \cup ({"suspend"} \X Wallets)
        /\ auditDue \subseteq Wallets
    BY OrderFields DEF TypeOK, DbTypeOK, SeenRecord
  <1> HIDE DEF o
  <1>r. Qr!ReleaseAll({c}) /\ Qr!ReleaseQr({c}) => LocksTyped'
    <2>1. ReleaseAll({c}) <=> Qr!ReleaseAll({c})
      BY QrOperators
    <2>2. Qr!ReleaseQr({c}) => qrLock' \in [QrIds -> CallOrNone]
      BY <1>0 DEF Qr!ReleaseQr, CallOrNone
    <2> QED BY <1>0, <2>1, <2>2, ReleaseType
  <1>1. CASE Qr!ReadQr(c) \/ Qr!Respond(c)
    BY <1>0, <1>1 DEF Qr!ReadQr, Qr!Respond
  <1>2. CASE Qr!LockFirst(c)
    BY <1>0, <1>2, LockRowType, QrOperators DEF Qr!LockFirst
  <1>3. CASE Qr!LockSecond(c)
    <2>1. seen' \in [Calls -> SeenRecord] /\ audited' = audited /\ auditDue' = auditDue
      BY <1>0, <1>3, SeenTyped, QrOperators DEF Qr!LockSecond
    <2>2. CASE LockRow(c, SecondRow(o)) /\ UNCHANGED <<keyLock, auditLock, qrLock>>
      BY <1>0, <2>1, <2>2, LockRowType
    <2>3. CASE Qr!ReleaseAll({c}) /\ Qr!ReleaseQr({c})
      BY <1>0, <1>r, <2>1, <2>3
    <2> QED BY <1>3, <2>2, <2>3, QrOperators DEF Qr!LockSecond, Qr!Rollback, o
  <1>4. CASE Qr!LockQr(c)
    <2>1. seen' = seen /\ audited' = audited /\ auditDue' = auditDue
      BY <1>4 DEF Qr!LockQr
    <2>2. CASE qrLock' = [qrLock EXCEPT ![o.qr] = c] /\ UNCHANGED <<rowLock, keyLock, auditLock>>
      BY <1>0, <2>1, <2>2 DEF CallOrNone
    <2>3. CASE Qr!ReleaseAll({c}) /\ Qr!ReleaseQr({c})
      BY <1>0, <1>r, <2>1, <2>3
    <2> QED BY <1>4, <2>2, <2>3 DEF Qr!LockQr, Qr!Rollback, o
  <1>5. CASE Qr!InsertRows(c)
    <2>1. seen' = seen /\ audited' = audited /\ auditDue' = auditDue
      BY <1>5 DEF Qr!InsertRows
    <2>2. CASE /\ keyLock[KeyOf(o)] = NoCall /\ keyLock' = [keyLock EXCEPT ![KeyOf(o)] = c]
               /\ UNCHANGED <<rowLock, auditLock, qrLock>>
      BY <1>0, <2>1, <2>2, LockKeyKeeps
    <2>3. CASE Qr!ReleaseAll({c}) /\ Qr!ReleaseQr({c})
      BY <1>0, <1>r, <2>1, <2>3
    <2> QED BY <1>5, <2>2, <2>3, QrOperators DEF Qr!InsertRows, Qr!Rollback, o
  <1>6. CASE Qr!Commit(c)
    BY <1>0, <1>r, <1>6 DEF Qr!Commit
  <1>7. CASE Qr!Timeout(c)
    BY <1>0, <1>r, <1>7 DEF Qr!Timeout, Qr!Rollback
  <1> QED BY <1>1, <1>2, <1>3, <1>4, <1>5, <1>6, <1>7 DEF QrStep, Qr!Handle

LEMMA BatchTypes ==
    ASSUME TypeOK, NEW c \in Calls, BatchStep(c)
    PROVE  SideTyped'
  <1> DEFINE o == order[c]
  <1> USE DEF Batch!At, Batch!Goto, Batch!Answer, Batch!locks, Batch!tables, LocksTyped, SideTyped
  <1>0. /\ o \in Orders /\ KeyOf(o) \in Flows \X Keys /\ DbTypeOK
        /\ seen \in [Calls -> SeenRecord] /\ LocksTyped
        /\ audited \subseteq (Flows \X Keys) \cup ({"suspend"} \X Wallets)
        /\ auditDue \subseteq Wallets
        /\ UNCHANGED <<auditDue, qrLock>>
    BY OrderFields DEF TypeOK, DbTypeOK, SeenRecord, BatchStep, qrVars
  <1> HIDE DEF o
  <1>r. ReleaseAll({c}) => LocksTyped'
    BY <1>0, ReleaseType
  <1>1. CASE Batch!ReadWallets(c)
    <2>1. /\ UNCHANGED <<audited, rowLock, keyLock, auditLock>>
          /\ seen' = [seen EXCEPT ![c] = SeenBalances(order[c])]
      BY <1>1, BatchOperators DEF Batch!ReadWallets
    <2> QED BY <1>0, <2>1, SeenTyped
  <1>6. CASE Batch!Respond(c)
    BY <1>0, <1>6 DEF Batch!Respond
  <1>2. CASE Batch!DebitWallet(c) \/ Batch!CreditWallet(c)
    BY <1>0, <1>2, LockRowType, BatchOperators DEF Batch!DebitWallet, Batch!CreditWallet
  <1>3. CASE Batch!InsertRows(c)
    <2>1. seen' = seen /\ audited' = audited
      BY <1>3 DEF Batch!InsertRows
    <2>2. CASE /\ keyLock[KeyOf(o)] = NoCall /\ keyLock' = [keyLock EXCEPT ![KeyOf(o)] = c]
               /\ UNCHANGED <<rowLock, auditLock>>
      BY <1>0, <2>1, <2>2, LockKeyKeeps
    <2>3. CASE ReleaseAll({c})
      BY <1>0, <1>r, <2>1, <2>3
    <2>4. CASE UNCHANGED locks
      BY <1>0, <2>1, <2>4 DEF locks
    <2> QED BY <1>3, <2>2, <2>3, <2>4, BatchOperators DEF Batch!InsertRows, Batch!Rollback, locks, o
  <1>4. CASE Batch!Commit(c)
    <2>1. seen' = seen /\ audited' = audited /\ ReleaseAll({c})
      BY <1>4, BatchOperators DEF Batch!Commit
    <2> QED BY <1>0, <1>r, <2>1
  <1>5. CASE Batch!Abort(c)
    <2>1. seen' = seen /\ audited' = audited /\ ReleaseAll({c})
      BY <1>5, BatchOperators DEF Batch!Abort, Batch!Rollback
    <2> QED BY <1>0, <1>r, <2>1
  <1> QED BY <1>1, <1>2, <1>3, <1>4, <1>5, <1>6 DEF BatchStep, Batch!Handle

(***************************************************************************)
(* A step of any handler, as the tables see it.                            *)
(***************************************************************************)
Step(c) == PaymentStep(c) \/ QrStep(c) \/ BatchStep(c)

LEMMA StepKinds ==
    ASSUME PlatformInv, NEW c \in Calls, Step(c)
    PROVE  /\ order' = order /\ report' = report
           /\ Placing' /\ \A d \in Calls : CallInv(d)'
           /\ \A d \in Calls \ {c} : Keeps(d)
           /\ Quiet(c) \/ Settles(c)
           /\ SideTyped'
  <1>0. /\ TypeOK /\ DbTypeOK /\ Placing /\ Attested /\ CallInv(c)
        /\ qrLock \in [QrIds -> CallOrNone]
    BY DEF PlatformInv, TypeOK
  <1>1. Placing' /\ CallInv(c)'
    BY <1>0, PaymentOwn, QrOwn, BatchOwn DEF Step
  <1>2. Quiet(c) \/ Settles(c)
    BY <1>0, PaymentTables, QrTables, BatchTables DEF Step
  <1>3. SideTyped'
    BY <1>0, PaymentTypes, QrTypes, BatchTypes DEF Step
  <1>4. order' = order
    <2>1. CASE PaymentStep(c)
      BY <2>1 DEF PaymentStep, Payments!Handle, Payments!CheckKey, Payments!Screen,
           Payments!LockFirst, Payments!LockSecond, Payments!InsertRows, Payments!ReadFeePool,
           Payments!UpdateFeePool, Payments!WriteAuditLog, Payments!Commit, Payments!Respond,
           Payments!Timeout
    <2>2. CASE QrStep(c)
      BY <2>2 DEF QrStep, Qr!Handle, Qr!ReadQr, Qr!LockFirst, Qr!LockSecond, Qr!LockQr,
           Qr!InsertRows, Qr!Commit, Qr!Respond, Qr!Timeout
    <2>3. CASE BatchStep(c)
      BY <2>3 DEF BatchStep, Batch!Handle, Batch!ReadWallets, Batch!DebitWallet,
           Batch!CreditWallet, Batch!InsertRows, Batch!Commit, Batch!Respond, Batch!Abort
    <2> QED BY <2>1, <2>2, <2>3 DEF Step
  <1>5. \A d \in Calls \ {c} : Keeps(d)
    BY <1>0, PaymentSpares, QrSpares, BatchSpares DEF Step
  <1>6. ASSUME NEW d \in Calls \ {c} PROVE CallInv(d)'
    <2>1. CallInv(d) /\ Keeps(d)
      BY <1>5 DEF PlatformInv
    <2>2. CASE Quiet(c)
      <3>1. /\ UNCHANGED <<order, balance, rows>> /\ status' = status
            /\ \A q \in QrIds : Open(q) => Open(q)'
        BY <1>4, <2>2 DEF Quiet, Still, Open
      <3> QED BY <1>0, <2>1, <3>1, Spared
    <2>3. CASE Settles(c)
      BY <1>0, <1>4, <2>1, <2>3, SparedSettles DEF TypeOK
    <2> QED BY <1>2, <2>2, <2>3
  <1>7. report' = report
    BY DEF Step, PaymentStep, QrStep, BatchStep
  <1> QED BY <1>1, <1>2, <1>3, <1>4, <1>5, <1>6, <1>7

\* No two calls with one key succeed.
LEMMA AloneStep ==
    ASSUME PlatformInv, NEW c \in Calls, Step(c)
    PROVE  Alone'
  <1>0. /\ order' = order /\ (\A d \in Calls \ {c} : Keeps(d)) /\ (Quiet(c) \/ Settles(c))
        /\ \A d \in Calls : Placed(d)' = Placed(d)
    BY StepKinds DEF Placed
  <1>1. \A d \in Calls \ {c} : Succeeded(d)' <=> Succeeded(d)
    BY <1>0 DEF Keeps, Succeeded
  <1>2. CASE Quiet(c)
    BY <1>0, <1>1, <1>2 DEF Quiet, Alone, PlatformInv
  <1>3. CASE Settles(c)
    <2>1. ASSUME NEW d \in Calls \ {c}, Succeeded(d)
          PROVE  ~ SameKey(Placed(c), Placed(d)) /\ ~ SameKey(Placed(d), Placed(c))
      <3>1. Placed(d) \in SettledOrders
        BY <2>1 DEF PlatformInv, CallInv, Told
      <3>2. PICK r \in rows : SameKey(r, Placed(d))
        BY <3>1 DEF SettledOrders, OrderOf, SameKey
      <3>3. \A s \in rows : ~ SameKey(s, Placed(c))
        BY <1>3 DEF PlatformInv, CallInv, Unused, Reserves, Settles, Inserted
      <3> QED BY <3>2, <3>3 DEF SameKey
    <2> QED BY <1>0, <1>1, <2>1 DEF Alone, PlatformInv
  <1> QED BY <1>0, <1>2, <1>3

\* What a commit writes is well typed.
LEMMA SettlesTypes ==
    ASSUME TypeOK, NEW c \in Calls, Settles(c)
    PROVE  /\ Lines(c) \subseteq RowType /\ Postings(Placed(c)) \subseteq EntryType
           /\ IsFiniteSet(Lines(c)) /\ IsFiniteSet(Postings(Placed(c)))
           /\ \A e \in Postings(Placed(c)) : SameKey(e, Placed(c))
  <1> DEFINE o == Placed(c)
             s == seen[c]
  <1>1. /\ o \in Stored /\ order[c] \in Orders
        /\ s.sender \in Int /\ s.receiver \in Int /\ s.pool \in Int
        /\ o.flow \in {"payment", "qr"} => o \in Orders
    BY PlacedIs DEF TypeOK, DbTypeOK, Free
  <1> HIDE DEF o, s
  <1>2. /\ DebitRow(o, s.sender) \in RowType /\ CreditRow(o, s.receiver) \in RowType
        /\ FeeRow(o, s.pool) \in RowType
    BY <1>1, StoredRows
  <1>3. Lines(c) \subseteq RowType
    BY <1>2 DEF Lines, TransferRows, FeeRows, o, s
  <1>4. IsFiniteSet(Lines(c))
    <2>1. Lines(c) \subseteq {DebitRow(o, s.sender), CreditRow(o, s.receiver), FeeRow(o, s.pool)}
      BY DEF Lines, TransferRows, FeeRows, o, s
    <2>2. IsFiniteSet({DebitRow(o, s.sender)} \cup {CreditRow(o, s.receiver)} \cup {FeeRow(o, s.pool)})
      BY FS_Singleton, FS_Union
    <2>3. {DebitRow(o, s.sender), CreditRow(o, s.receiver), FeeRow(o, s.pool)}
             = {DebitRow(o, s.sender)} \cup {CreditRow(o, s.receiver)} \cup {FeeRow(o, s.pool)}
      OBVIOUS
    <2> QED BY <2>1, <2>2, <2>3, FS_Subset
  <1>5. Postings(o) \subseteq EntryType
    BY <1>1, WritesType DEF Postings
  <1>6. IsFiniteSet(Postings(o))
    <2> DEFINE a == Entry(o, "transfer", "DEBIT", o.sender, o.amount)
               b == Entry(o, "transfer", "CREDIT", o.receiver, o.amount)
               f == Entry(o, "fee", "DEBIT", o.sender, FeeOf(o))
               g == Entry(o, "fee", "CREDIT", FeePool, FeeOf(o))
    <2>1. Postings(o) \subseteq {a} \cup {b} \cup {f} \cup {g}
      BY DEF Postings, TransferEntries, FeeEntries
    <2> HIDE DEF a, b, f, g
    <2>2. IsFiniteSet({a} \cup {b} \cup {f} \cup {g})
      BY FS_Singleton, FS_Union
    <2> QED BY <2>1, <2>2, FS_Subset
  <1>7. \A e \in Postings(o) : SameKey(e, o)
    BY DEF Postings, TransferEntries, FeeEntries, Entry, SameKey
  <1> QED BY <1>3, <1>4, <1>5, <1>6, <1>7 DEF o

LEMMA AttestedStep ==
    ASSUME PlatformInv, NEW c \in Calls, Step(c)
    PROVE  Attested'
  <1>1. CASE Quiet(c)
    BY <1>1 DEF PlatformInv, Attested, Quiet, Still
  <1>2. CASE Settles(c)
    <2>0. TypeOK /\ Attested /\ rows' = rows \cup Lines(c) /\ ledger' = ledger \cup Postings(Placed(c))
      BY <1>2 DEF PlatformInv, Settles
    <2>1. IsFiniteSet(rows') /\ IsFiniteSet(ledger')
      BY <1>2, <2>0, SettlesTypes, FS_Union DEF Attested
    <2>2. PICK d \in rows' : d.kind = "DEBIT" /\ SameKey(d, Placed(c))
      BY <2>0, LinesOf
    <2>3. \A r \in rows' : \E e \in rows' : e.kind = "DEBIT" /\ SameKey(e, r)
      <3>1. ASSUME NEW r \in Lines(c) PROVE SameKey(d, r)
        BY <2>2, <3>1, LinesOf DEF SameKey
      <3> QED BY <2>0, <2>2, <3>1 DEF Attested
    <2>4. \A e \in ledger' : \E r \in rows' : r.kind = "DEBIT" /\ SameKey(r, e)
      <3>1. ASSUME NEW e \in Postings(Placed(c)) PROVE SameKey(d, e)
        BY <1>2, <2>0, <2>2, <3>1, SettlesTypes DEF SameKey
      <3> QED BY <2>0, <2>2, <3>1 DEF Attested
    <2> QED BY <2>1, <2>3, <2>4 DEF Attested
  <1> QED BY <1>1, <1>2, StepKinds

(***************************************************************************)
(* The tables after the step of a call.                                    *)
(***************************************************************************)
QrRow == [made : {"no", "checked", "yes"}, active : BOOLEAN, usage : Nat,
          maxUsage : {Qr!Unlimited, 1}, expired : BOOLEAN]

LEMMA CodesTyped ==
    ASSUME TypeOK, NEW c \in Calls, Settles(c)
    PROVE  qrs' \in [QrIds -> QrRow]
  <1>1. order[c] \in Orders /\ qrs \in [QrIds -> QrRow]
    BY DEF TypeOK, DbTypeOK, QrRow
  <1>2. CASE order[c].flow = "qr"
    <2> DEFINE q == Placed(c).qr
               on == qrs[q].maxUsage # 1
    <2>1. q \in QrIds
      BY <1>1, <1>2, PlacedIs, MoneyAssumption DEF MoneyAssumption
    <2>2. qrs' = [qrs EXCEPT ![q].usage = @ + 1, ![q].active = on]
      BY <1>1, <1>2, PlacedIs DEF Settles, CodeAfter
    <2>3. on \in BOOLEAN
      OBVIOUS
    <2> DEFINE g == [qrs EXCEPT ![q].usage = @ + 1]
    <2>4. g \in [QrIds -> QrRow] /\ qrs' = [g EXCEPT ![q].active = on]
      BY <1>1, <2>1, <2>2 DEF QrRow
    <2> HIDE DEF q, on, g
    <2>5. [g EXCEPT ![q].active = on] \in [QrIds -> QrRow]
      BY <2>1, <2>3, <2>4 DEF QrRow
    <2> QED BY <2>4, <2>5
  <1>3. CASE order[c].flow # "qr"
    BY <1>1, <1>3, PlacedIs DEF Settles, CodeAfter
  <1> QED BY <1>2, <1>3

LEMMA TypeStep ==
    ASSUME PlatformInv, NEW c \in Calls, Step(c)
    PROVE  TypeOK'
  <1>0. TypeOK /\ SideTyped' /\ order' = order /\ report' = report /\ (Quiet(c) \/ Settles(c))
    BY StepKinds DEF PlatformInv
  <1>1. /\ balance' \in [Wallets -> Int] /\ status' \in [Wallets -> Statuses]
        /\ rows' \subseteq RowType /\ ledger' \subseteq EntryType
        /\ qrs' \in [QrIds -> QrRow]
    <2>1. CASE Quiet(c)
      BY <1>0, <2>1 DEF Quiet, Still, TypeOK, DbTypeOK, QrRow
    <2>2. CASE Settles(c)
      <3>1. Lines(c) \subseteq RowType /\ Postings(Placed(c)) \subseteq EntryType
        BY <1>0, <2>2, SettlesTypes
      <3> QED BY <1>0, <2>2, <3>1, CodesTyped DEF Settles, TypeOK, DbTypeOK
    <2> QED BY <1>0, <2>1, <2>2
  <1>2. DbTypeOK'
    BY <1>0, <1>1 DEF TypeOK, DbTypeOK, SideTyped, LocksTyped, SeenRecord
  <1>3. report'.todo \subseteq Reports!Queries(report'.kind)
    BY <1>0 DEF TypeOK
  <1> QED BY <1>0, <1>1, <1>2, <1>3 DEF TypeOK, SideTyped, LocksTyped, QrRow, Reports!Queries

\* The lines a commit writes add up to what it moves.
LEMMA LinesAdd ==
    ASSUME TypeOK, Attested, NEW c \in Calls, Unused(c), Settles(c), NEW w \in Wallets
    PROVE  Adds(rows, rows', w, Delta(Placed(c), w))
  <1> DEFINE o == Placed(c)
             b == seen[c].sender
             d == seen[c].receiver
             p == seen[c].pool
  <1>1. /\ o \in Stored /\ b \in Int /\ d \in Int /\ p \in Int
        /\ rows \subseteq RowType /\ IsFiniteSet(rows)
    BY PlacedIs DEF TypeOK, DbTypeOK, Attested
  <1>2. \A r \in rows : ~ SameKey(r, o)
    BY DEF Unused, Reserves, Inserted, Settles
  <1>3. rows' = rows \cup (IF o.flow = "airtime" THEN {DebitRow(o, b)}
                            ELSE TransferRows(o, b, d)
                                   \cup (IF o.flow = "payment" THEN FeeRows(o, p) ELSE {}))
    BY DEF Settles, Lines
  <1> HIDE DEF o, b, d, p
  <1>4. CASE o.flow = "airtime"
    <2>1. Adds(rows, rows', w, 0 - Paid(o, w))
      BY <1>1, <1>2, <1>3, <1>4, DebitAdds
    <2>2. 0 - Paid(o, w) = Delta(o, w)
      BY <1>1, <1>4, StoredFields DEF Paid, Delta
    <2> QED BY <2>1, <2>2 DEF o
  <1>5. CASE o.flow = "payment"
    <2>1. rows' = rows \cup TransferRows(o, b, d) \cup FeeRows(o, p)
      BY <1>3, <1>5
    <2>2. Adds(rows, rows', w, Movement(o, w))
      BY <1>1, <1>2, <2>1, PaymentAdds
    <2> QED BY <1>5, <2>2 DEF Delta, o
  <1>6. CASE o.flow \notin {"airtime", "payment"}
    <2>1. rows' = rows \cup TransferRows(o, b, d)
      BY <1>3, <1>6
    <2>2. Adds(rows, rows', w, Movement(o, w))
      BY <1>1, <1>2, <1>6, <2>1, FreeAdds
    <2> QED BY <1>6, <2>2 DEF Delta, o
  <1> QED BY <1>4, <1>5, <1>6

LEMMA StatementsStep ==
    ASSUME PlatformInv, NEW c \in Calls, Step(c)
    PROVE  StatementsExplainBalances'
  <1>1. CASE Quiet(c)
    BY <1>1 DEF PlatformInv, StatementsExplainBalances, Quiet, Still
  <1>2. CASE Settles(c)
    <2>1. SUFFICES ASSUME NEW w \in Wallets PROVE balance'[w] = Opening[w] + Gained(rows', w)
      BY DEF StatementsExplainBalances, Gained, SignedSum
    <2>2. Adds(rows, rows', w, Delta(Placed(c), w))
      BY <1>2, LinesAdd DEF PlatformInv, CallInv
    <2>3. balance'[w] = balance[w] + Delta(Placed(c), w) /\ balance[w] = Opening[w] + Gained(rows, w)
      BY <1>2 DEF PlatformInv, StatementsExplainBalances, Gained, SignedSum, Settles
    <2>4. Opening[w] \in Nat
      BY MoneyAssumption DEF MoneyAssumption
    <2> QED BY <2>2, <2>3, <2>4 DEF Adds
  <1> QED BY <1>1, <1>2, StepKinds

\* The payments that carry a code.
Paying(q) == {r \in rows : r.kind = "DEBIT" /\ r.qr = q}

Counted(q) ==
    /\ qrs[q].usage = Cardinality(Paying(q))
    /\ SingleUse(q) => Cardinality(Paying(q)) <= 1
    /\ qrs[q].made = "yes" => (qrs[q].active <=> ~ (SingleUse(q) /\ Paying(q) # {}))

LEMMA UsageIs == UsageIsCounted <=> \A q \in QrIds : Counted(q)
  BY DEF UsageIsCounted, Counted, Paying

\* A commit that does not pay by q leaves it alone, and one that does finds it payable.
LEMMA CodeSettles ==
    ASSUME PlatformInv, NEW c \in Calls, Settles(c), NEW q \in QrIds
    PROVE  Counted(q)' /\ Uncreated(q)' /\ Limited(q)'
  <1> DEFINE o == Placed(c)
             r == DebitRow(o, seen[c].sender)
  <1>1. /\ order[c] \in Orders /\ qrs[q] \in QrRow /\ Counted(q) /\ Uncreated(q) /\ Limited(q)
        /\ IsFiniteSet(Paying(q)) /\ IsFiniteSet(rows)
    <2>1. order[c] \in Orders /\ qrs[q] \in QrRow /\ IsFiniteSet(rows)
      BY DEF PlatformInv, TypeOK, DbTypeOK, QrRow, Attested
    <2>2. IsFiniteSet(Paying(q))
      BY <2>1, FS_Subset DEF Paying
    <2> QED BY <2>1, <2>2, UsageIs DEF PlatformInv, CodesWellMade
  <1>2. Paying(q)' = IF o.qr = q THEN Paying(q) \cup {r} ELSE Paying(q)
    BY LinesOf DEF Paying, Settles
  <1>3. o.flow = order[c].flow /\ o.qr = order[c].qr /\ qrs' = CodeAfter(o)
    BY <1>1, PlacedIs DEF Settles
  <1>4. r \notin Paying(q)
    <2>1. SameKey(r, o) /\ \A s \in rows : ~ SameKey(s, o)
      BY LinesOf DEF PlatformInv, CallInv, Unused, Reserves, Inserted, Settles
    <2> QED BY <2>1 DEF Paying
  <1> HIDE DEF o, r
  <1>5. CASE order[c].flow = "qr" /\ o.qr = q
    <2>1. qrs'[q] = [qrs[q] EXCEPT !.usage = @ + 1, !.active = qrs[q].maxUsage # 1]
      BY <1>3, <1>5 DEF CodeAfter, PlatformInv, TypeOK
    <2>2. /\ qrs'[q].usage = qrs[q].usage + 1 /\ qrs'[q].active = (qrs[q].maxUsage # 1)
          /\ qrs'[q].made = qrs[q].made /\ qrs'[q].maxUsage = qrs[q].maxUsage
          /\ qrs'[q].expired = qrs[q].expired
      BY <1>1, <2>1 DEF QrRow
    <2>3. Open(q)
      BY <1>3, <1>5 DEF PlatformInv, CallInv, Scanning, OnCode, Settles
    <2>4. qrs[q].made = "yes" /\ qrs[q].maxUsage = IF SingleUse(q) THEN 1 ELSE 0
      BY <1>1, <2>3 DEF Open, Uncreated, Limited, Qr!Unlimited
    <2>5. Cardinality(Paying(q)') = Cardinality(Paying(q)) + 1 /\ Paying(q)' # {}
      BY <1>1, <1>2, <1>4, <1>5, FS_AddElement
    <2>6. qrs[q].usage = Cardinality(Paying(q)) /\ qrs[q].usage \in Nat
      BY <1>1 DEF Counted, QrRow
    <2>7. SingleUse(q) => qrs[q].usage = 0
      BY <2>3, <2>4, <2>6 DEF Open, Qr!Unlimited
    <2>8. Counted(q)'
      <3>1. qrs'[q].usage = Cardinality(Paying(q)')
        BY <2>2, <2>5, <2>6
      <3>2. SingleUse(q) => Cardinality(Paying(q)') <= 1
        BY <2>5, <2>6, <2>7
      <3>3. qrs'[q].active <=> ~ (SingleUse(q) /\ Paying(q)' # {})
        <4>1. CASE SingleUse(q)
          <5>1. qrs'[q].active = FALSE
            BY <2>2, <2>4, <4>1
          <5> QED BY <2>5, <4>1, <5>1
        <4>2. CASE ~ SingleUse(q)
          <5>1. qrs[q].maxUsage # 1
            BY <2>4, <4>2
          <5>2. qrs'[q].active = TRUE
            BY <2>2, <5>1, Zenon
          <5> QED BY <4>2, <5>2
        <4> QED BY <4>1, <4>2
      <3> QED BY <3>1, <3>2, <3>3 DEF Counted, SingleUse
    <2> QED BY <2>2, <2>4, <2>8, <1>1 DEF Uncreated, Limited, SingleUse, Qr!Unlimited
  <1>6. CASE ~ (order[c].flow = "qr" /\ o.qr = q)
    <2>1. o.qr # q
      BY <1>1, <1>3, <1>6, MoneyAssumption DEF MoneyAssumption
    <2>2. qrs'[q] = qrs[q] /\ Paying(q)' = Paying(q)
      BY <1>2, <1>3, <2>1 DEF CodeAfter, PlatformInv, TypeOK
    <2> QED BY <1>1, <2>2 DEF Counted, Uncreated, Limited, SingleUse, Qr!Unlimited
  <1> QED BY <1>5, <1>6

LEMMA CodesStep ==
    ASSUME PlatformInv, NEW c \in Calls, Step(c)
    PROVE  UsageIsCounted' /\ CodesWellMade'
  <1>1. CASE Quiet(c)
    BY <1>1 DEF PlatformInv, UsageIsCounted, CodesWellMade, Uncreated, Limited, Quiet, Still
  <1>2. CASE Settles(c)
    BY <1>2, CodeSettles DEF CodesWellMade, UsageIsCounted, Counted, Paying
  <1> QED BY <1>1, <1>2, StepKinds

LEMMA CallStep ==
    ASSUME PlatformInv, NEW c \in Calls, Step(c)
    PROVE  PlatformInv'
  <1>1. ReportFits'
    BY StepKinds DEF PlatformInv, ReportFits, Reports!Queries
  <1> QED BY <1>1, StepKinds, AloneStep, AttestedStep, TypeStep, CodesStep, StatementsStep
          DEF PlatformInv

(***************************************************************************)
(* The steps that are no call's: calls die with their process, a wallet    *)
(* nobody has locked is restricted, a code is made or expires.             *)
(***************************************************************************)
Dies(d) == pc[d] # "done" /\ pc'[d] = "lost" /\ reply'[d] = reply[d]

Outside ==
    /\ UNCHANGED <<order, balance, rows, ledger>>
    /\ \A d \in Calls : Keeps(d) \/ Dies(d)
    /\ \A v \in Wallets : rowLock[v] # NoCall => status'[v] = status[v]
    /\ \A q \in QrIds : Open(q) => Open(q)'

LEMMA OutsideSpares ==
    ASSUME PlatformInv, Outside
    PROVE  (\A d \in Calls : CallInv(d)') /\ Alone' /\ Attested' /\ StatementsExplainBalances'
  <1>1. ASSUME NEW d \in Calls PROVE CallInv(d)' /\ (Succeeded(d)' => Succeeded(d))
    <2>0. DbTypeOK /\ CallInv(d)
      BY DEF PlatformInv, TypeOK
    <2>1. CASE Keeps(d)
      BY <2>0, <2>1, Spared DEF Outside, Keeps, Succeeded
    <2>2. CASE Dies(d)
      <3>1. pc'[d] = "lost" /\ reply'[d] = "none"
        BY <2>0, <2>2 DEF Dies, CallInv, Told
      <3> QED BY <3>1 DEF CallInv, Holding, Judged, Scanning, Unused, Told, Reserves, Succeeded,
                          Inserted, BothHeld, OnCode
    <2> QED BY <2>1, <2>2 DEF Outside
  <1>2. Alone'
    <2>1. \A d \in Calls : Placed(d)' = Placed(d)
      BY DEF Placed, Outside
    <2> QED BY <1>1, <2>1 DEF PlatformInv, Alone
  <1>3. Attested' /\ StatementsExplainBalances'
    BY DEF PlatformInv, Attested, StatementsExplainBalances, Outside
  <1> QED BY <1>1, <1>2, <1>3

LEMMA OutsideInv ==
    ASSUME PlatformInv, Outside, Placing', DbTypeOK', ReportFits', auditDue' \subseteq Wallets,
           qrLock' \in [QrIds -> CallOrNone], qrs' \in [QrIds -> QrRow],
           \A q \in QrIds : Counted(q)' /\ Uncreated(q)' /\ Limited(q)'
    PROVE  PlatformInv'
  <1>1. TypeOK'
    BY DEF TypeOK, ReportFits, QrRow
  <1>2. UsageIsCounted' /\ CodesWellMade'
    BY DEF UsageIsCounted, CodesWellMade, Counted, Paying
  <1> QED BY <1>1, <1>2, OutsideSpares DEF PlatformInv

LEMMA CodesStay ==
    ASSUME PlatformInv, UNCHANGED <<rows, qrs>>
    PROVE  /\ \A q \in QrIds : Counted(q)' /\ Uncreated(q)' /\ Limited(q)'
           /\ \A q \in QrIds : Open(q) => Open(q)'
           /\ qrs' \in [QrIds -> QrRow]
  <1>1. \A q \in QrIds : Counted(q) /\ Uncreated(q) /\ Limited(q)
    BY UsageIs DEF PlatformInv, CodesWellMade
  <1>2. qrs' \in [QrIds -> QrRow]
    BY DEF PlatformInv, TypeOK, QrRow
  <1> QED BY <1>1, <1>2 DEF Counted, Paying, Uncreated, Limited, Open

LEMMA CallsStay ==
    ASSUME PlatformInv, UNCHANGED <<calls, rowLock, keyLock, qrLock>>
    PROVE  Placing' /\ \A d \in Calls : Keeps(d)
  BY DEF PlatformInv, Placing, Keeps, calls

\* Reports and retried jobs look on.
LEMMA LookingOn ==
    ASSUME PlatformInv, UNCHANGED <<tables, locks, calls, qrVars>>, ReportFits'
    PROVE  PlatformInv'
  <1>1. Outside
    BY CallsStay, CodesStay DEF Outside, tables, locks, calls, qrVars
  <1>2. DbTypeOK'
    BY DEF PlatformInv, TypeOK, DbTypeOK, tables, locks, calls
  <1>3. auditDue' \subseteq Wallets /\ qrLock' \in [QrIds -> CallOrNone]
    BY DEF PlatformInv, TypeOK, qrVars
  <1> QED BY <1>1, <1>2, <1>3, CallsStay, CodesStay, OutsideInv DEF tables, locks, qrVars

LEMMA ReportStays ==
    ASSUME PlatformInv, UNCHANGED report
    PROVE  ReportFits'
  BY DEF PlatformInv, ReportFits, Reports!Queries

LEMMA RestrictStep ==
    ASSUME PlatformInv, NEW w \in Wallets, NEW s \in {"SUSPENDED", "FROZEN"}, RestrictWallet(w, s),
           auditDue' \subseteq Wallets, UNCHANGED <<qrs, qrLock, report>>
    PROVE  PlatformInv'
  <1>1. Outside
    <2>1. \A v \in Wallets : rowLock[v] # NoCall => status'[v] = status[v]
      BY DEF RestrictWallet, PlatformInv, TypeOK, DbTypeOK
    <2> QED BY <2>1, CallsStay, CodesStay DEF Outside, RestrictWallet, locks, calls
  <1>2. DbTypeOK'
    BY DEF PlatformInv, TypeOK, DbTypeOK, RestrictWallet, locks, calls, Statuses
  <1>3. qrLock' \in [QrIds -> CallOrNone]
    BY DEF PlatformInv, TypeOK
  <1> QED BY <1>1, <1>2, <1>3, CallsStay, CodesStay, ReportStays, OutsideInv DEF RestrictWallet, locks

LEMMA AuditStep ==
    ASSUME PlatformInv, NEW w \in Watched, Qr!AuditSuspension(w), UNCHANGED report
    PROVE  PlatformInv'
  <1>0. /\ w \in Wallets /\ UNCHANGED <<balance, status, rows, ledger, locks, calls, qrs, qrLock>>
        /\ auditDue' \subseteq auditDue
        /\ audited' \subseteq audited \cup {<<"suspend", w>>}
    BY CallAssumption DEF CallAssumption, Qr!AuditSuspension, Qr!locks, Qr!calls, locks, calls
  <1>1. Outside
    BY <1>0, CallsStay, CodesStay DEF Outside, locks, calls
  <1>2. DbTypeOK'
    BY <1>0 DEF PlatformInv, TypeOK, DbTypeOK, locks, calls
  <1>3. auditDue' \subseteq Wallets /\ qrLock' \in [QrIds -> CallOrNone]
    BY <1>0 DEF PlatformInv, TypeOK
  <1> QED BY <1>0, <1>1, <1>2, <1>3, CallsStay, CodesStay, ReportStays, OutsideInv DEF locks

\* A code is made active, unused and with its limit, or expires, which is no usage.
LEMMA MakingStep ==
    ASSUME PlatformInv, NEW q \in QrIds, Qr!StartQr(q) \/ Qr!CreateQr(q) \/ Qr!ExpireQr(q),
           UNCHANGED report
    PROVE  PlatformInv'
  <1>0. /\ UNCHANGED <<tables, locks, calls, qrLock, auditDue>>
        /\ qrs \in [QrIds -> QrRow]
        /\ \A p \in QrIds : Counted(p) /\ Uncreated(p) /\ Limited(p)
        /\ IsFiniteSet(Paying(q))
    <2>1. UNCHANGED <<tables, locks, calls, qrLock, auditDue>>
      BY DEF Qr!StartQr, Qr!CreateQr, Qr!ExpireQr, Qr!tables, Qr!locks, Qr!calls,
             tables, locks, calls
    <2>2. IsFiniteSet(Paying(q))
      BY FS_Subset DEF Paying, PlatformInv, Attested
    <2> QED BY <2>1, <2>2, UsageIs DEF PlatformInv, TypeOK, QrRow, CodesWellMade
  <1>1. /\ qrs' \in [QrIds -> QrRow]
        /\ \A p \in QrIds \ {q} : qrs'[p] = qrs[p]
        /\ Counted(q)' /\ Uncreated(q)' /\ Limited(q)' /\ (Open(q) => Open(q)')
    <2>p. Paying(q)' = Paying(q)
      BY <1>0 DEF Paying, tables
    <2>1. CASE Qr!StartQr(q)
      <3>1. qrs' = [qrs EXCEPT ![q].made = "checked"] /\ qrs[q].made = "no"
        BY <2>1 DEF Qr!StartQr
      <3>2. /\ qrs'[q].usage = qrs[q].usage /\ qrs'[q].active = qrs[q].active
            /\ qrs'[q].made = "checked" /\ qrs'[q].expired = qrs[q].expired
        BY <1>0, <3>1 DEF QrRow
      <3> QED BY <1>0, <2>p, <3>1, <3>2 DEF Counted, Uncreated, Limited, Open, SingleUse, QrRow
    <2>2. CASE Qr!CreateQr(q)
      <3> DEFINE row == [made |-> "yes", active |-> TRUE, usage |-> 0, expired |-> FALSE,
                         maxUsage |-> IF SingleUse(q) THEN 1 ELSE Qr!Unlimited]
      <3>1. qrs' = [qrs EXCEPT ![q] = row] /\ qrs[q].made = "checked"
        BY <2>2, QrOperators DEF Qr!CreateQr
      <3>2. row \in QrRow /\ row.made = "yes" /\ row.active = TRUE /\ row.usage = 0
            /\ row.maxUsage = IF SingleUse(q) THEN 1 ELSE Qr!Unlimited
        BY DEF QrRow
      <3> HIDE DEF row
      <3>3. Cardinality(Paying(q)) = 0 /\ Paying(q) = {} /\ ~ Open(q)
        BY <1>0, <3>1, FS_EmptySet DEF Counted, Uncreated, Open
      <3>4. qrs'[q] = row
        BY <1>0, <3>1
      <3>5. Counted(q)'
        BY <2>p, <3>2, <3>3, <3>4 DEF Counted, SingleUse
      <3> QED BY <1>0, <3>1, <3>2, <3>3, <3>4, <3>5 DEF Uncreated, Limited, SingleUse, Qr!Unlimited
    <2>3. CASE Qr!ExpireQr(q)
      <3>1. qrs' = [qrs EXCEPT ![q].expired = TRUE]
        BY <2>3 DEF Qr!ExpireQr
      <3>2. /\ qrs'[q].usage = qrs[q].usage /\ qrs'[q].active = qrs[q].active
            /\ qrs'[q].made = qrs[q].made /\ qrs'[q].maxUsage = qrs[q].maxUsage
            /\ qrs[q].made = "yes"
        BY <1>0, <2>3, <3>1 DEF QrRow, Qr!ExpireQr
      <3>3. Counted(q)' /\ Uncreated(q)' /\ Limited(q)' /\ (Open(q) => Open(q)')
        BY <1>0, <2>p, <3>2 DEF Counted, Uncreated, Limited, Open, SingleUse, Qr!Unlimited
      <3> QED BY <1>0, <3>1, <3>3 DEF QrRow
    <2> QED BY <2>1, <2>2, <2>3
  <1>2. \A p \in QrIds : Counted(p)' /\ Uncreated(p)' /\ Limited(p)' /\ (Open(p) => Open(p)')
    <2>1. ASSUME NEW p \in QrIds \ {q}
          PROVE  Counted(p)' /\ Uncreated(p)' /\ Limited(p)' /\ (Open(p) => Open(p)')
      BY <1>0, <1>1 DEF Counted, Paying, Uncreated, Limited, Open, SingleUse, Qr!Unlimited, tables
    <2> QED BY <1>1, <2>1
  <1>3. Outside
    BY <1>0, <1>2, CallsStay DEF Outside, tables, locks, calls
  <1>4. DbTypeOK'
    BY <1>0 DEF PlatformInv, TypeOK, DbTypeOK, tables, locks, calls
  <1>5. auditDue' \subseteq Wallets /\ qrLock' \in [QrIds -> CallOrNone]
    BY <1>0 DEF PlatformInv, TypeOK
  <1> QED BY <1>0, <1>1, <1>2, <1>3, <1>4, <1>5, CallsStay, ReportStays, OutsideInv DEF locks

\* Calls that die leave their places, and their locks to the others.
LEMMA DyingPlaces ==
    ASSUME Placing, NEW D, UNCHANGED <<order, reply>>,
           pc' = [c \in Calls |-> IF c \in D THEN "lost" ELSE pc[c]]
    PROVE  Placing'
  <1>1. "lost" \in UNION {Places(f) : f \in Flows}
    BY DEF Places, Flows
  <1>2. \A d \in Calls : pc'[d] \in Places(order[d].flow)
    BY DEF Placing, Places
  <1>3. pc' \in [Calls -> UNION {Places(f) : f \in Flows}]
    BY <1>1 DEF Placing
  <1> QED BY <1>2, <1>3 DEF Placing

LEMMA PaymentCrash ==
    ASSUME PlatformInv, Payments!Crash, UNCHANGED <<qrVars, report>>
    PROVE  PlatformInv'
  <1> DEFINE D == {c \in Calls : Payments!InFlight(c)}
  <1>0. /\ UNCHANGED <<tables, order, seen, reply, qrs, qrLock, auditDue>>
        /\ pc' = [c \in Calls |-> IF c \in D THEN "lost" ELSE pc[c]]
        /\ ReleaseAll(D)
    BY PaymentOperators DEF Payments!Crash, Payments!tables, tables, qrVars
  <1>1. ASSUME NEW d \in Calls PROVE Keeps(d) \/ Dies(d)
    <2>1. CASE d \in D
      BY <1>0, <2>1 DEF Dies, Payments!InFlight
    <2>2. CASE d \notin D
      <3> HIDE DEF D
      <3> QED BY <1>0, <2>2, ReleaseKeeps DEF Keeps
    <2> QED BY <2>1, <2>2
  <1> HIDE DEF D
  <1>2. Outside
    BY <1>0, <1>1, CodesStay DEF Outside, tables
  <1>3. DbTypeOK'
    BY <1>0, ReleaseType DEF PlatformInv, TypeOK, DbTypeOK, tables
  <1>4. Placing'
    BY <1>0, DyingPlaces DEF PlatformInv
  <1>5. auditDue' \subseteq Wallets /\ qrLock' \in [QrIds -> CallOrNone]
    BY <1>0 DEF PlatformInv, TypeOK
  <1> QED BY <1>0, <1>2, <1>3, <1>4, <1>5, CodesStay, ReportStays, OutsideInv DEF tables

LEMMA QrCrash ==
    ASSUME PlatformInv, Qr!Crash, UNCHANGED report
    PROVE  PlatformInv'
  <1> DEFINE D == {c \in Calls : Qr!InFlight(c)}
  <1>0. /\ UNCHANGED <<tables, order, seen, reply>> /\ auditDue' = {}
        /\ pc' = [c \in Calls |-> IF c \in D THEN "lost" ELSE pc[c]]
        /\ ReleaseAll(D) /\ Qr!ReleaseQr(D)
        /\ qrs' = [q \in QrIds |-> IF qrs[q].made = "checked" THEN Qr!NoRow ELSE qrs[q]]
    BY QrOperators DEF Qr!Crash, Qr!tables, tables
  <1>1. ASSUME NEW d \in Calls PROVE Keeps(d) \/ Dies(d)
    <2>1. CASE d \in D
      BY <1>0, <2>1 DEF Dies, Qr!InFlight, Qr!InTransaction, Qr!HasLocks
    <2>2. CASE d \notin D
      <3> HIDE DEF D
      <3>1. \A q \in QrIds : qrLock[q] = d => qrLock'[q] = d
        BY <1>0, <2>2 DEF Qr!ReleaseQr
      <3> QED BY <1>0, <2>2, <3>1, ReleaseKeeps DEF Keeps
    <2> QED BY <2>1, <2>2
  <1> HIDE DEF D
  <1>2. ASSUME NEW q \in QrIds
        PROVE  Counted(q)' /\ Uncreated(q)' /\ Limited(q)' /\ (Open(q) => Open(q)') /\ qrs'[q] \in QrRow
    <2>1. /\ Counted(q) /\ Uncreated(q) /\ Limited(q) /\ qrs[q] \in QrRow /\ Paying(q)' = Paying(q)
      BY <1>0, UsageIs DEF PlatformInv, CodesWellMade, TypeOK, QrRow, Paying, tables
    <2>2. CASE qrs[q].made = "checked"
      <3>1. qrs'[q] = Qr!NoRow
        BY <1>0, <2>2
      <3>2. /\ Qr!NoRow \in QrRow /\ Qr!NoRow.made = "no" /\ Qr!NoRow.usage = 0
            /\ Qr!NoRow.active = FALSE /\ Qr!NoRow.expired = FALSE
        BY DEF Qr!NoRow, QrRow
      <3>3. qrs[q].usage = 0 /\ ~ qrs[q].active
        BY <2>1, <2>2 DEF Uncreated
      <3> QED BY <2>1, <3>1, <3>2, <3>3 DEF Counted, Uncreated, Limited, Open, SingleUse
    <2>3. CASE qrs[q].made # "checked"
      <3>1. qrs'[q] = qrs[q]
        BY <1>0, <2>3
      <3> QED BY <2>1, <3>1 DEF Counted, Uncreated, Limited, Open, SingleUse, Qr!Unlimited
    <2> QED BY <2>2, <2>3
  <1>3. Outside
    BY <1>0, <1>1, <1>2 DEF Outside, tables
  <1>4. DbTypeOK'
    BY <1>0, ReleaseType DEF PlatformInv, TypeOK, DbTypeOK, tables
  <1>5. Placing'
    BY <1>0, DyingPlaces DEF PlatformInv
  <1>6. qrLock' \in [QrIds -> CallOrNone] /\ qrs' \in [QrIds -> QrRow]
    BY <1>0, <1>2 DEF PlatformInv, TypeOK, Qr!ReleaseQr, CallOrNone
  <1> QED BY <1>0, <1>2, <1>3, <1>4, <1>5, <1>6, ReportStays, OutsideInv

(***************************************************************************)
(* The figures of a report are numbers.                                    *)
(***************************************************************************)
LEMMA ReportSums ==
    ASSUME NEW S
    PROVE  Reports!SumOf(S) = SumOf(S)
  BY DEF Reports!SumOf, Reports!MapThenSumSet, Reports!MapThenFoldSet, SumOf, MapThenSumSet, MapThenFoldSet

LEMMA ReportCounts ==
    ASSUME NEW S
    PROVE  Reports!Cardinality(S) = Cardinality(S)
  BY DEF Reports!Cardinality, Cardinality

LEMMA SumOfType ==
    ASSUME NEW S, IsFiniteSet(S), \A r \in S : r.amount \in Int
    PROVE  SumOf(S) \in Int
  <1> DEFINE f == [r \in S |-> r.amount]
  <1>1. \A r \in S : f[r] \in Int
    OBVIOUS
  <1> HIDE DEF f
  <1>2. SumFunctionOnSet(f, S) \in Int
    BY <1>1, SumType
  <1> QED BY <1>2, SumOfIsSum DEF f

\* The sum over some wallets, as the sum of a function.
LEMMA WalletTotals ==
    ASSUME NEW S, NEW b
    PROVE  MapThenSumSet(LAMBDA w : b[w], S) = SumFunctionOnSet([r \in S |-> b[r]], S)
  <1> DEFINE f == [r \in S |-> b[r]]
             e(g, s) == IF s = {} THEN 0 ELSE b[Picked(s)] + g[s \ {Picked(s)}]
             k(g, s) == IF s = {} THEN 0 ELSE f[Picked(s)] + g[s \ {Picked(s)}]
             Solves(g) == g = [s \in SUBSET S |-> e(g, s)]
  <1>1. MapThenSumSet(LAMBDA w : b[w], S) = (CHOOSE g : Solves(g))[S]
    BY DEF MapThenSumSet, MapThenFoldSet, Picked
  <1>2. SumFunctionOnSet(f, S) = (CHOOSE g : Sums(g, f, S))[S]
    BY DEF SumFunctionOnSet, FoldFunctionOnSet, MapThenFoldSet, Sums, Picked
  <1>3. \A s \in SUBSET S : s # {} => b[Picked(s)] = f[Picked(s)]
    BY PickedIn
  <1>4. ASSUME NEW g PROVE Solves(g) <=> Sums(g, f, S)
    <2>1. \A s \in SUBSET S : e(g, s) = k(g, s)
      BY <1>3
    <2> HIDE DEF e, k
    <2>2. [s \in SUBSET S |-> e(g, s)] = [s \in SUBSET S |-> k(g, s)]
      BY <2>1
    <2> QED BY <2>2 DEF Sums, k
  <1> HIDE DEF f, Solves
  <1>5. (CHOOSE g : Solves(g)) = (CHOOSE g : Sums(g, f, S))
    BY <1>4
  <1> QED BY <1>1, <1>2, <1>5 DEF f

LEMMA BalanceSum ==
    ASSUME NEW S \in SUBSET Wallets, DbTypeOK
    PROVE  MapThenSumSet(LAMBDA w : balance[w], S) \in Int
  <1> DEFINE f == [w \in S |-> balance[w]]
  <1>1. \A w \in S : f[w] \in Int
    BY DEF DbTypeOK
  <1> HIDE DEF f
  <1>2. SumFunctionOnSet(f, S) \in Int
    BY <1>1, SumType, MoneyAssumption, FS_Subset DEF MoneyAssumption
  <1> QED BY <1>2, WalletTotals DEF f

LEMMA WalletsPaying ==
    ASSUME NEW S, IsFiniteSet(S)
    PROVE  IsFiniteSet({r.wallet : r \in S})
  <1> DEFINE T == {r.wallet : r \in S}
             f == [r \in S |-> r.wallet]
  <1>1. f \in Surjection(S, T)
    BY DEF Surjection
  <1> QED BY <1>1, FS_Surjection

LEMMA FigureIsInt ==
    ASSUME TypeOK, Attested, ReportFits, NEW q \in Reports!Queries(report.kind)
    PROVE  Reports!Figure(q) \in Int
  <1>1. q \in {"debits", "credits", "count", "large", "wallets", "ledgerNet", "walletSum", "today", "allTime"}
    BY ReportAssumption DEF ReportAssumption, ReportFits, Reports!Queries
  <1>2. /\ IsFiniteSet(Reports!Debits) /\ IsFiniteSet(Reports!Credits) /\ IsFiniteSet(Reports!FloatLines)
        /\ IsFiniteSet({r \in Reports!Debits : r.amount >= LargeAmount})
    BY FS_Subset DEF Attested, Reports!Debits, Reports!Credits, Reports!FloatLines
  <1>3. Reports!DebitTotal \in Int /\ Reports!CreditTotal \in Int
    BY <1>2, ReportSums, SumOfType DEF Reports!DebitTotal, Reports!CreditTotal, Reports!Debits,
       Reports!Credits, TypeOK, DbTypeOK, RowType
  <1>4. Reports!LedgerNet \in Int
    <2> DEFINE S(type) == {e \in ledger : e.type = type}
    <2>1. \A type : IsFiniteSet(S(type)) /\ \A e \in S(type) : e.amount \in Int
      BY FS_Subset DEF Attested, TypeOK, DbTypeOK, EntryType
    <2>2. SumOf(S("CREDIT")) \in Int /\ SumOf(S("DEBIT")) \in Int
      BY <2>1, SumOfType
    <2> QED BY <2>2, ReportSums DEF Reports!LedgerNet
  <1>5. Reports!WalletSum \in Int
    <2> DEFINE S == {w \in Wallets : status[w] = "ACTIVE"}
    <2>1. MapThenSumSet(LAMBDA w : balance[w], S) \in Int
      BY BalanceSum DEF TypeOK
    <2> QED BY <2>1 DEF Reports!WalletSum, Reports!MapThenSumSet, Reports!MapThenFoldSet,
                        MapThenSumSet, MapThenFoldSet
  <1>6. /\ Cardinality(Reports!Debits) \in Int /\ Cardinality(Reports!FloatLines) \in Int
        /\ Cardinality({r \in Reports!Debits : r.amount >= LargeAmount}) \in Int
        /\ Cardinality({r.wallet : r \in Reports!Debits}) \in Int
    BY <1>2, WalletsPaying, FS_CardinalityType
  <1> QED BY <1>1, <1>3, <1>4, <1>5, <1>6, ReportCounts DEF Reports!Figure

LEMMA ReportStep ==
    ASSUME PlatformInv, Reports!Next, UNCHANGED <<locks, calls, paymentVars, qrVars>>
    PROVE  PlatformInv'
  <1> DEFINE k == report.kind
             R(a, t, g, f) == [kind |-> k, asked |-> a, todo |-> t, got |-> g, from |-> f]
  <1>1. UNCHANGED tables
    BY DEF Reports!Next, Reports!AskReport, Reports!RunQuery, Reports!tables, tables
  <1>2. /\ k \in ReportKinds \cup {"none"}
        /\ report = R(report.asked, report.todo, report.got, report.from)
        /\ report.todo \subseteq Reports!Queries(k)
        /\ \A q \in DOMAIN report.got : report.got[q] \in Int
    BY DEF PlatformInv, ReportFits
  <1>3. ReportFits'
    <2>1. CASE Reports!AskReport
      <3>1. report' = R(TRUE, Reports!Queries(k), report.got, Reports!Truth)
        BY <1>2, <2>1 DEF Reports!AskReport
      <3> QED BY <1>2, <3>1 DEF ReportFits
    <2>2. CASE \E q \in report.todo : Reports!RunQuery(q)
      <3>1. PICK q \in report.todo : Reports!RunQuery(q)
        BY <2>2
      <3> DEFINE g == [p \in DOMAIN report.got \cup {q} |->
                         IF p = q THEN Reports!Figure(q) ELSE report.got[p]]
      <3>2. report' = R(report.asked, report.todo \ {q}, g, report.from)
        BY <1>2, <3>1 DEF Reports!RunQuery
      <3>3. Reports!Figure(q) \in Int
        BY <1>2, FigureIsInt DEF PlatformInv
      <3>4. DOMAIN g = DOMAIN report.got \cup {q} /\ \A p \in DOMAIN g : g[p] \in Int
        BY <1>2, <3>3
      <3> HIDE DEF g
      <3> QED BY <1>2, <3>2, <3>4 DEF ReportFits
    <2> QED BY <2>1, <2>2 DEF Reports!Next
  <1> QED BY <1>1, <1>3, LookingOn

(***************************************************************************)
(* The invariant.                                                          *)
(***************************************************************************)
LEMMA InvInit == Init => PlatformInv
  <1> SUFFICES ASSUME Init PROVE PlatformInv
    OBVIOUS
  <1> USE DEF Payments!DbInit, Qr!DbInit, Init, Payments!Init, Qr!Init
  <1>1. /\ balance = Opening /\ status = InitialStatus
        /\ rows = {} /\ ledger = {} /\ audited = {}
        /\ rowLock = [w \in Wallets |-> NoCall]
        /\ keyLock = [k \in Flows \X Keys |-> NoCall]
        /\ auditLock = NoCall
        /\ pc = [c \in Calls |-> "idle"]
        /\ order \in [Calls -> Orders]
        /\ seen = [c \in Calls |-> [sender |-> 0, receiver |-> 0, pool |-> 0]]
        /\ reply = [c \in Calls |-> "none"]
        /\ qrs = [q \in QrIds |-> Qr!NoRow] /\ qrLock = [q \in QrIds |-> NoCall] /\ auditDue = {}
    BY DEF Flows, Payments!Flows, Qr!Flows
  <1> HIDE DEF Payments!DbInit, Qr!DbInit, Payments!Init, Qr!Init
  <1>2. DbTypeOK
    BY <1>1, MoneyAssumption DEF MoneyAssumption, DbTypeOK, CallOrNone
  <1>3. ReportFits
    <2>1. PICK k \in ReportKinds \cup {"none"} :
            report = [kind |-> k, asked |-> FALSE, todo |-> {}, got |-> [q \in {} |-> 0],
                      from |-> Reports!Truth]
      BY DEF Reports!ReportInit
    <2>2. DOMAIN [q \in {} |-> 0] = {}
      OBVIOUS
    <2> QED BY <2>1, <2>2 DEF ReportFits
  <1>4. /\ Qr!NoRow \in QrRow /\ Qr!NoRow.made = "no" /\ Qr!NoRow.usage = 0
        /\ Qr!NoRow.active = FALSE /\ Qr!NoRow.expired = FALSE
    BY DEF Qr!NoRow, QrRow
  <1>5. TypeOK
    BY <1>1, <1>2, <1>3, <1>4 DEF TypeOK, ReportFits, QrRow, CallOrNone
  <1>6. Placing
    <2>1. \A f \in Flows : "idle" \in Places(f)
      BY DEF Places
    <2>2. "idle" \in UNION {Places(f) : f \in Flows}
      BY <2>1 DEF Flows
    <2>3. \A c \in Calls : order[c].flow \in Flows
      BY <1>1, OrderFields
    <2> QED BY <1>1, <2>1, <2>2, <2>3 DEF Placing, Answers
  <1>7. ASSUME NEW c \in Calls PROVE CallInv(c) /\ ~ Succeeded(c)
    BY <1>1 DEF CallInv, Holding, Judged, Scanning, Unused, Told, Succeeded, OnCode, BothHeld, Inserted
  <1>8. Alone
    BY <1>7 DEF Alone
  <1>9. Attested
    BY <1>1, FS_EmptySet DEF Attested
  <1>10. UsageIsCounted /\ CodesWellMade
    BY <1>1, <1>4, FS_EmptySet DEF UsageIsCounted, CodesWellMade, Uncreated, Limited
  <1>11. StatementsExplainBalances
    <2>1. SUFFICES ASSUME NEW w \in Wallets PROVE balance[w] = Opening[w] + Gained(rows, w)
      BY DEF StatementsExplainBalances, Gained, SignedSum
    <2>2. Gained(rows, w) = 0 /\ Opening[w] \in Nat
      BY <1>1, NothingGained, MoneyAssumption DEF MoneyAssumption
    <2> QED BY <1>1, <2>2
  <1> QED BY <1>3, <1>5, <1>6, <1>7, <1>8, <1>9, <1>10, <1>11 DEF PlatformInv

\* Who is at work in a step.
Restricts(w) ==
    /\ \E s \in {"SUSPENDED", "FROZEN"} : RestrictWallet(w, s)
    /\ auditDue' \subseteq auditDue \cup {w}
    /\ UNCHANGED <<qrs, qrLock, report>>

Elsewhere ==
    \/ /\ UNCHANGED <<tables, locks, calls, qrVars>>
       /\ UNCHANGED report \/ (Reports!Next /\ UNCHANGED paymentVars)
    \/ Payments!Crash /\ UNCHANGED <<qrVars, report>>
    \/ Qr!Crash /\ UNCHANGED report
    \/ \E q \in QrIds : (Qr!StartQr(q) \/ Qr!CreateQr(q) \/ Qr!ExpireQr(q)) /\ UNCHANGED report
    \/ \E w \in Watched : Qr!AuditSuspension(w) /\ UNCHANGED report

LEMMA NextKinds ==
    ASSUME [Next]_vars
    PROVE  (\E c \in Calls : Step(c)) \/ Elsewhere \/ (\E w \in Wallets : Restricts(w))
  <1>1. CASE UNCHANGED vars
    BY <1>1 DEF vars, Elsewhere
  <1>2. CASE Payments!PaymentNext /\ UNCHANGED <<qrVars, report>>
    <2>1. CASE \E c \in Calls : Payments!Handle(c) \/ Payments!Timeout(c)
      BY <1>2, <2>1 DEF Step, PaymentStep
    <2>2. CASE \E k \in amlPending : Payments!ResolveEnqueue(k)
      BY <1>2, <2>2 DEF Payments!ResolveEnqueue, Payments!tables, Payments!locks, Payments!calls,
                       tables, locks, calls, Elsewhere
    <2>3. CASE Payments!Crash
      BY <1>2, <2>3 DEF Elsewhere
    <2> QED BY <1>2, <2>1, <2>2, <2>3 DEF Payments!PaymentNext
  <1>3. CASE Qr!Next /\ UNCHANGED <<paymentVars, report>>
    <2>1. CASE \E c \in Calls : Qr!Handle(c) \/ Qr!Timeout(c)
      BY <1>3, <2>1 DEF Step, QrStep
    <2>2. CASE \E q \in QrIds : Qr!StartQr(q) \/ Qr!CreateQr(q) \/ Qr!ExpireQr(q)
      BY <1>3, <2>2 DEF Elsewhere
    <2>3. CASE \E w \in Watched : Qr!SuspendWallet(w) \/ Qr!FreezeWallet(w)
      <3>1. PICK w \in Watched : Qr!SuspendWallet(w) \/ Qr!FreezeWallet(w)
        BY <2>3
      <3>2. \E s \in {"SUSPENDED", "FROZEN"} : RestrictWallet(w, s)
        BY <3>1, QrOperators DEF Qr!SuspendWallet, Qr!FreezeWallet
      <3>3. w \in Wallets /\ Restricts(w)
        BY <1>3, <3>1, <3>2, CallAssumption DEF CallAssumption, Restricts, Qr!SuspendWallet,
           Qr!FreezeWallet, Qr!qrVars
      <3> QED BY <3>3
    <2>4. CASE \E w \in Watched : Qr!AuditSuspension(w)
      BY <1>3, <2>4 DEF Elsewhere
    <2>5. CASE Qr!Crash
      BY <1>3, <2>5 DEF Elsewhere
    <2> QED BY <1>3, <2>1, <2>2, <2>3, <2>4, <2>5 DEF Qr!Next
  <1>4. CASE Batch!Next /\ UNCHANGED <<paymentVars, qrVars, report>>
    BY <1>4 DEF Batch!Next, Step, BatchStep
  <1>5. CASE Reports!Next /\ UNCHANGED <<locks, calls, paymentVars, qrVars>>
    BY <1>5 DEF Elsewhere, Reports!Next, Reports!AskReport, Reports!RunQuery, Reports!tables, tables
  <1> QED BY <1>1, <1>2, <1>3, <1>4, <1>5 DEF Next

LEMMA InvNext == PlatformInv /\ [Next]_vars => PlatformInv'
  <1> SUFFICES ASSUME PlatformInv, [Next]_vars PROVE PlatformInv'
    OBVIOUS
  <1>1. CASE \E c \in Calls : Step(c)
    BY <1>1, CallStep
  <1>2. CASE \E w \in Wallets : Restricts(w)
    <2>1. PICK w \in Wallets, s \in {"SUSPENDED", "FROZEN"} :
            /\ RestrictWallet(w, s) /\ auditDue' \subseteq auditDue \cup {w}
            /\ UNCHANGED <<qrs, qrLock, report>>
      BY <1>2 DEF Restricts
    <2>2. auditDue' \subseteq Wallets
      BY <2>1 DEF PlatformInv, TypeOK
    <2> QED BY <2>1, <2>2, RestrictStep
  <1>3. CASE Elsewhere
    BY <1>3, LookingOn, ReportStays, ReportStep, PaymentCrash, QrCrash, MakingStep, AuditStep
       DEF Elsewhere
  <1> QED BY <1>1, <1>2, <1>3, NextKinds

\* The strengthening holds in every reachable state, whatever the wallets, codes,
\* flows and reports: the calls of every service and what they share keep their form.
THEOREM PlatformInvHolds == Spec => []PlatformInv
  BY InvInit, InvNext, PTL DEF Spec

\* Money and lines move in commits only, and statuses only change when a wallet is restricted.
LEMMA WhoWrites ==
    ASSUME PlatformInv, [Next]_vars
    PROVE  /\ order' = order
           /\ \/ \E c \in Calls : Settles(c)
              \/ /\ UNCHANGED <<balance, rows, ledger>>
                 /\ UNCHANGED status \/ \E w \in Wallets : Restricts(w)
  <1>1. CASE \E c \in Calls : Step(c)
    BY <1>1, StepKinds DEF Quiet, Still
  <1>2. CASE \E w \in Wallets : Restricts(w)
    BY <1>2 DEF Restricts, RestrictWallet, calls
  <1>3. CASE Elsewhere
    BY <1>3 DEF Elsewhere, tables, calls, Payments!Crash, Payments!tables, Qr!Crash, Qr!tables,
       Qr!StartQr, Qr!CreateQr, Qr!ExpireQr, Qr!AuditSuspension, Qr!calls
  <1> QED BY <1>1, <1>2, <1>3, NextKinds

(***************************************************************************)
(* What it gives.                                                          *)
(***************************************************************************)
\* A code is what its payments have made of it, and a single-use code is paid once,
\* however many customers scan it at the same time and whatever crashes.
THEOREM CodesCounted == Spec => []CodesAreCounted
  <1>1. PlatformInv => CodesAreCounted
    BY DEF PlatformInv, CodesAreCounted
  <1> QED BY <1>1, PlatformInvHolds, PTL

LEMMA AnswersAgree ==
    ASSUME PlatformInv
    PROVE  BooksAndAnswersAgree
  <1>1. SuccessIsBacked
    <2>1. ASSUME NEW c \in Calls, reply[c] = "created"
          PROVE  /\ Placed(c) \in SettledOrders
                 /\ \A d \in Calls \ {c} : SameKey(Placed(c), Placed(d)) => reply[d] # "created"
      BY <2>1 DEF PlatformInv, CallInv, Told, Succeeded, Alone
    <2> QED BY <2>1 DEF SuccessIsBacked, PlatformInv, CallInv, Told
  <1>2. Payments!LockedRowsAreCurrent
    <2>1. SUFFICES ASSUME NEW c \in Calls, order[c].flow = "payment", pc[c] \in Payments!HasChecked
                   PROVE  /\ seen[c].sender = balance[order[c].sender]
                          /\ seen[c].receiver = balance[order[c].receiver]
                          /\ Payments!Covered(balance, order[c])
                          /\ Payments!StatusAllows(status, order[c])
      BY DEF Payments!LockedRowsAreCurrent
    <2>2. pc[c] \in BothHeld
      BY <2>1 DEF Payments!HasChecked, Payments!HasLocks, BothHeld
    <2> QED BY <2>1, <2>2, PaymentOperators DEF PlatformInv, CallInv, Judged
  <1>3. Qr!LockedRowsAreCurrent
    <2>1. SUFFICES ASSUME NEW c \in Calls, order[c].flow = "qr", pc[c] \in Qr!HasLocks \ {"lockSecond"}
                   PROVE  /\ seen[c].sender = balance[order[c].sender]
                          /\ seen[c].receiver = balance[order[c].receiver]
                          /\ Qr!Covered(balance, order[c])
                          /\ Qr!StatusAllows(status, order[c])
      BY DEF Qr!LockedRowsAreCurrent
    <2>2. pc[c] \in BothHeld
      BY <2>1 DEF Qr!HasLocks, BothHeld
    <2> QED BY <2>1, <2>2, QrOperators DEF PlatformInv, CallInv, Judged
  <1> QED BY <1>1, <1>2, <1>3 DEF BooksAndAnswersAgree, LockedRowsAreCurrent, PlatformInv

\* With all the flows at work, the statements explain every balance, every success is
\* backed by rows of its order, and what was judged on locked rows still holds.
THEOREM BooksAgree == Spec => []BooksAndAnswersAgree
  BY AnswersAgree, PlatformInvHolds, PTL

\* What a payment or a QR payment commits was judged on what it finds.
LEMMA SettlesJudged ==
    ASSUME PlatformInv, NEW c \in Calls, Settles(c), Placed(c).flow \in {"payment", "qr"}
    PROVE  LET o == Placed(c) IN
           /\ o = order[c] /\ o \in Orders
           /\ seen[c].sender = balance[o.sender] /\ seen[c].receiver = balance[o.receiver]
           /\ Covered(balance, o) /\ StatusAllows(status, o)
           /\ \A w \in Wallets : balance'[w] = balance[w] + Movement(o, w)
           /\ balance' = Settled(balance, o)
           /\ \A r \in rows : ~ SameKey(r, o)
  <1>1. order[c] \in Orders /\ balance \in [Wallets -> Int]
    BY DEF PlatformInv, TypeOK, DbTypeOK
  <1>2. Placed(c) = order[c] /\ Placed(c).flow = order[c].flow
    BY <1>1, PlacedIs DEF Free
  <1>3. pc[c] \in BothHeld /\ Judged(c) /\ \A r \in rows : ~ SameKey(r, Placed(c))
    BY DEF PlatformInv, CallInv, Unused, Reserves, Inserted, BothHeld, Settles
  <1>4. \A w \in Wallets : balance'[w] = balance[w] + Movement(Placed(c), w)
    BY <1>2 DEF Settles, Delta
  <1>5. balance' = Settled(balance, Placed(c))
    BY <1>1, <1>2, <1>4, SettledType DEF Settles
  <1> QED BY <1>1, <1>2, <1>3, <1>4, <1>5 DEF Judged

LEMMA HonestStep ==
    ASSUME PlatformInv, [Next]_vars, NEW r \in NewRows, r.flow \in {"payment", "qr"}
    PROVE  /\ r.wallet # FeePool /\ r.wallet # r.counterparty
                => r.before = balance[r.wallet] /\ r.after = balance'[r.wallet]
           /\ r.kind = "DEBIT" => balance'[r.wallet] >= 0
  <1>1. PICK c \in Calls : Settles(c)
    BY WhoWrites DEF NewRows
  <1> DEFINE o == Placed(c)
             b == seen[c].sender
             d == seen[c].receiver
  <1>2. r \in Lines(c) /\ r.flow = o.flow
    BY <1>1, LinesOf DEF NewRows, Settles
  <1>3. /\ o \in Orders /\ o.flow \in {"payment", "qr"}
        /\ b = balance[o.sender] /\ d = balance[o.receiver] /\ Covered(balance, o)
        /\ \A w \in Wallets : balance'[w] = balance[w] + Movement(o, w)
        /\ balance \in [Wallets -> Int]
    BY <1>1, <1>2, SettlesJudged DEF PlatformInv, TypeOK, DbTypeOK
  <1>4. r \in {DebitRow(o, b), CreditRow(o, d), FeeRow(o, seen[c].pool)}
    BY <1>2 DEF Lines, TransferRows, FeeRows
  <1> HIDE DEF o, b, d
  <1>5. /\ o.sender \in Wallets /\ o.receiver \in Wallets /\ o.amount \in Nat
        /\ FeeOf(o) \in Nat /\ TotalDebit(o) \in Nat
        /\ balance[o.sender] \in Int /\ balance[o.receiver] \in Int
    BY <1>3, OrderFields, FeeIsNat
  <1>6. CASE r = DebitRow(o, b)
    <2>1. /\ r.wallet = o.sender /\ r.counterparty = o.receiver
          /\ r.before = b /\ r.after = b - TotalDebit(o)
      BY <1>6 DEF DebitRow, Row
    <2>2. o.sender # FeePool /\ o.sender # o.receiver => Movement(o, o.sender) = 0 - TotalDebit(o)
      BY <1>5 DEF Movement
    <2>3. Movement(o, o.sender) \in Int /\ Movement(o, o.sender) >= 0 - TotalDebit(o)
      BY <1>3, <1>5, MovementBounds
    <2>4. balance'[o.sender] = balance[o.sender] + Movement(o, o.sender)
      BY <1>3, <1>5
    <2> QED BY <1>3, <1>5, <2>1, <2>2, <2>3, <2>4 DEF Covered
  <1>7. CASE r = CreditRow(o, d)
    <2>1. /\ r.wallet = o.receiver /\ r.counterparty = o.sender /\ r.kind = "CREDIT"
          /\ r.before = d /\ r.after = d + o.amount
      BY <1>7 DEF CreditRow, Row
    <2>2. o.receiver # FeePool /\ o.sender # o.receiver => Movement(o, o.receiver) = o.amount
      BY <1>5 DEF Movement
    <2>3. balance'[o.receiver] = balance[o.receiver] + Movement(o, o.receiver)
      BY <1>3, <1>5
    <2> QED BY <1>3, <1>5, <2>1, <2>2, <2>3
  <1>8. CASE r = FeeRow(o, seen[c].pool)
    BY <1>8 DEF FeeRow, Row
  <1> QED BY <1>4, <1>6, <1>7, <1>8

\* The balances on the statement lines of payments and QR payments are those the wallets
\* had, though agents and USSD write the same wallets without locking before they read.
THEOREM LinesAreHonest == Spec => RowsAreHonest
  <1>1. PlatformInv /\ [Next]_vars =>
          [\A r \in NewRows :
             r.flow \in {"payment", "qr"} /\ r.wallet # FeePool /\ r.wallet # r.counterparty =>
               r.before = balance[r.wallet] /\ r.after = balance'[r.wallet]]_<<tables>>
    BY HonestStep
  <1> QED BY <1>1, PlatformInvHolds, PTL DEF Spec, RowsAreHonest

\* No commit of a payment or QR payment overdraws its sender, whatever the flows that
\* judge before they lock do to the same wallet.
THEOREM CheckedCommitsAreCovered == Spec => CheckedFlowsNeverOverdraw
  <1>1. PlatformInv /\ [Next]_vars =>
          [\A r \in NewRows : r.kind = "DEBIT" /\ r.flow \in {"payment", "qr"} =>
             balance'[r.wallet] >= 0]_<<tables>>
    BY HonestStep
  <1> QED BY <1>1, PlatformInvHolds, PTL DEF Spec, CheckedFlowsNeverOverdraw

(***************************************************************************)
(* Payments and QR payments alone. The flows of agents and USSD post no    *)
(* ledger entries and judge before they lock, and without a fee pool the   *)
(* fee leaves the sender and is posted nowhere (run no_fee_pool): with     *)
(* either the ledger does not explain the balances, and with the former    *)
(* the services do not implement Transfers.                                *)
(***************************************************************************)
CheckedFlowsOnly == \A o \in Orders : o.flow \in {"payment", "qr"}

LedgerBalanced == \A w \in Wallets : balance[w] = Opening[w] + Net(ledger, w)

LEMMA LedgerSettles ==
    ASSUME CheckedFlowsOnly, HasFeePool, PlatformInv, LedgerBalanced, NEW c \in Calls, Settles(c)
    PROVE  LedgerBalanced'
  <1> DEFINE o == Placed(c)
  <1>0. order[c] \in Orders /\ o \in Stored /\ o.flow = order[c].flow
    BY PlacedIs DEF PlatformInv, TypeOK, DbTypeOK
  <1>1. /\ o \in Stored /\ o.flow \in {"payment", "qr"}
        /\ \A r \in rows : ~ SameKey(r, o)
        /\ balance' = Settled(balance, o) /\ balance \in [Wallets -> Int]
        /\ \A w \in Wallets : balance'[w] = balance[w] + Movement(o, w)
        /\ ledger' = ledger \cup TransferEntries(o) \cup (IF o.flow = "payment" THEN FeeEntries(o) ELSE {})
    <2>1. o.flow \in {"payment", "qr"}
      BY <1>0 DEF CheckedFlowsOnly
    <2>2. ledger' = ledger \cup TransferEntries(o) \cup (IF o.flow = "payment" THEN FeeEntries(o) ELSE {})
      BY <2>1 DEF Settles, Postings
    <2> QED BY <1>0, <2>1, <2>2, SettlesJudged DEF PlatformInv, TypeOK, DbTypeOK
  <1>2. IsFiniteSet(ledger) /\ ledger \subseteq Entries
    BY DEF PlatformInv, Attested, TypeOK, DbTypeOK, EntryType, Entries
  <1> HIDE DEF o
  <1>3. \A e \in ledger : ~ SameKey(e, o)
    BY <1>1 DEF PlatformInv, Attested, SameKey
  <1>4. SUFFICES ASSUME NEW w \in Wallets PROVE balance'[w] = Opening[w] + Net(ledger', w)
    BY DEF LedgerBalanced, Net, Side
  <1>5. Posts(ledger, ledger', w, Movement(o, w))
    <2>1. CASE o.flow = "payment"
      <3>1. ledger' = ledger \cup TransferEntries(o) \cup FeeEntries(o)
        BY <1>1, <2>1
      <3> QED BY <1>1, <1>2, <1>3, <3>1, PaymentPosts
    <2>2. CASE o.flow # "payment"
      <3>1. ledger' = ledger \cup TransferEntries(o)
        BY <1>1, <2>2
      <3> QED BY <1>1, <1>2, <1>3, <2>2, <3>1, FreePosts
    <2> QED BY <2>1, <2>2
  <1>6. balance[w] = Opening[w] + Net(ledger, w) /\ Opening[w] \in Nat
    BY MoneyAssumption DEF LedgerBalanced, MoneyAssumption
  <1> QED BY <1>1, <1>5, <1>6 DEF Posts

\* Where only payments and QR payments move money and the fee pool exists, the double
\* entries explain every balance.
THEOREM LedgerReconciles ==
    ASSUME CheckedFlowsOnly, HasFeePool
    PROVE  Spec => []LedgerExplainsBalances
  <1>1. Init => LedgerBalanced
    <2>1. SUFFICES ASSUME Init, NEW w \in Wallets PROVE balance[w] = Opening[w] + Net(ledger, w)
      BY DEF LedgerBalanced
    <2>2. balance = Opening /\ ledger = {}
      BY <2>1 DEF Init, Payments!Init, Payments!DbInit
    <2>3. Opening[w] \in Nat /\ Net(ledger, w) = 0
      BY <2>1, <2>2, NothingGained, MoneyAssumption DEF MoneyAssumption
    <2> QED BY <2>2, <2>3
  <1>2. PlatformInv /\ LedgerBalanced /\ [Next]_vars => LedgerBalanced'
    <2>1. SUFFICES ASSUME PlatformInv, LedgerBalanced, [Next]_vars PROVE LedgerBalanced'
      OBVIOUS
    <2>2. CASE \E c \in Calls : Settles(c)
      BY <2>1, <2>2, LedgerSettles
    <2>3. CASE UNCHANGED <<balance, rows, ledger>>
      BY <2>1, <2>3 DEF LedgerBalanced, Net, Side
    <2> QED BY <2>1, <2>2, <2>3, WhoWrites
  <1>3. PlatformInv /\ LedgerBalanced => LedgerExplainsBalances
    <2>1. SUFFICES ASSUME PlatformInv, LedgerBalanced, NEW w \in Wallets
                   PROVE  balance[w] - Opening[w]
                            = SumOf({e \in ledger : e.wallet = w /\ e.type = "CREDIT"})
                                - SumOf({e \in ledger : e.wallet = w /\ e.type = "DEBIT"})
      BY DEF LedgerExplainsBalances
    <2>2. balance[w] = Opening[w] + Net(ledger, w) /\ Opening[w] \in Nat /\ balance[w] \in Int
      BY <2>1, MoneyAssumption DEF LedgerBalanced, MoneyAssumption, PlatformInv, TypeOK, DbTypeOK
    <2>3. Net(ledger, w) = SumOf({e \in ledger : e.wallet = w /\ e.type = "CREDIT"})
                             - SumOf({e \in ledger : e.wallet = w /\ e.type = "DEBIT"})
      BY DEF Net, Side
    <2>4. Net(ledger, w) \in Int
      <3>1. \A type : /\ IsFiniteSet(Side(ledger, w, type))
                      /\ \A e \in Side(ledger, w, type) : e.amount \in Int
        BY <2>1, FS_Subset DEF Side, PlatformInv, Attested, TypeOK, DbTypeOK, EntryType
      <3>2. SumOf(Side(ledger, w, "CREDIT")) \in Int /\ SumOf(Side(ledger, w, "DEBIT")) \in Int
        BY <3>1, SumOfType
      <3> QED BY <3>2 DEF Net
    <2> QED BY <2>2, <2>3, <2>4
  <1> QED BY <1>1, <1>2, <1>3, PlatformInvHolds, PTL DEF Spec

(***************************************************************************)
(* The refinement.                                                         *)
(***************************************************************************)
LEMMA PromiseOperators ==
    ASSUME NEW o, NEW p, NEW st, NEW bal, NEW q
    PROVE  /\ Promise!SameKey(p, o) <=> SameKey(p, o)
           /\ Promise!StatusAllows(st, o) <=> StatusAllows(st, o)
           /\ Promise!Covered(bal, o) <=> Covered(bal, o)
           /\ Promise!Settled(bal, o) = Settled(bal, o)
           /\ (Promise!FitsOffer(o) <=> FitsOffer(o)) /\ (Promise!SingleUse(q) <=> SingleUse(q))
  <1>1. Promise!SameKey(p, o) <=> SameKey(p, o)
    BY DEF Promise!SameKey, SameKey
  <1>2. /\ Promise!StatusAllows(st, o) <=> StatusAllows(st, o)
        /\ (Promise!FitsOffer(o) <=> FitsOffer(o)) /\ (Promise!SingleUse(q) <=> SingleUse(q))
    BY DEF Promise!StatusAllows, StatusAllows, Promise!FitsOffer, FitsOffer,
           Promise!SingleUse, SingleUse
  <1>3. Promise!FeeOf(o) = FeeOf(o)
    BY DEF Promise!FeeOf, Promise!CalculateTransferFee, FeeOf, CalculateTransferFee
  <1>4. Promise!TotalDebit(o) = TotalDebit(o)
    BY <1>3 DEF Promise!TotalDebit, TotalDebit
  <1>5. Promise!Covered(bal, o) <=> Covered(bal, o)
    BY <1>4 DEF Promise!Covered, Covered
  <1>6. \A w : Promise!Movement(o, w) = Movement(o, w)
    BY <1>3, <1>4 DEF Promise!Movement, Movement
  <1>7. Promise!Settled(bal, o) = Settled(bal, o)
    BY <1>6 DEF Promise!Settled, Settled
  <1> QED BY <1>1, <1>2, <1>5, <1>7

\* A code that is locked and open, and is single-use, has been paid by nobody.
LEMMA OpenIsUnpaid ==
    ASSUME PlatformInv, NEW q \in QrIds, Open(q), SingleUse(q), NEW p \in SettledOrders
    PROVE  p.qr # q
  <1>1. Counted(q) /\ Uncreated(q)
    BY UsageIs DEF PlatformInv, CodesWellMade
  <1>2. Paying(q) = {}
    BY <1>1 DEF Counted, Uncreated, Open
  <1>3. PICK r \in rows : r.kind = "DEBIT" /\ p = OrderOf(r)
    BY DEF SettledOrders
  <1> QED BY <1>2, <1>3 DEF Paying, OrderOf

LEMMA SettlesPromise ==
    ASSUME CheckedFlowsOnly, PlatformInv, NEW c \in Calls, Settles(c)
    PROVE  Promise!Settle(order[c]) /\ order[c] \in Orders
  <1> DEFINE o == order[c]
  <1>1. /\ o \in Orders /\ Placed(c) = o /\ o.flow \in {"payment", "qr"}
        /\ Covered(balance, o) /\ StatusAllows(status, o) /\ balance' = Settled(balance, o)
        /\ \A r \in rows : ~ SameKey(r, o)
        /\ DbTypeOK
    <2>1. o \in Orders /\ DbTypeOK
      BY DEF PlatformInv, TypeOK, DbTypeOK
    <2>2. Placed(c).flow \in {"payment", "qr"}
      BY <2>1, PlacedIs DEF CheckedFlowsOnly
    <2> QED BY <2>1, <2>2, SettlesJudged
  <1>2. SettledOrders' = SettledOrders \cup {o} /\ status' = status
    BY <1>1, SettlesOrder DEF Settles
  <1>3. \A p \in SettledOrders : ~ SameKey(p, o)
    BY <1>1 DEF SettledOrders, OrderOf, SameKey
  <1>4. o.flow = "qr" => FitsOffer(o) /\ (SingleUse(o.qr) => \A p \in SettledOrders : p.qr # o.qr)
    <2>1. SUFFICES ASSUME o.flow = "qr"
                   PROVE  FitsOffer(o) /\ (SingleUse(o.qr) => \A p \in SettledOrders : p.qr # o.qr)
      OBVIOUS
    <2>2. FitsOffer(o) /\ Open(o.qr)
      BY <2>1 DEF PlatformInv, CallInv, Scanning, OnCode, Settles
    <2>3. o.qr \in QrIds
      BY <1>1, <2>1, MoneyAssumption DEF MoneyAssumption
    <2> QED BY <2>2, <2>3, OpenIsUnpaid
  <1> HIDE DEF o
  <1>5. Promise!Settle(o)
    BY <1>1, <1>2, <1>3, <1>4, PromiseOperators DEF Promise!Settle
  <1> QED BY <1>1, <1>5 DEF o

LEMMA OthersPromise ==
    ASSUME PlatformInv, [Next]_vars, ~ \E c \in Calls : Settles(c)
    PROVE  \/ UNCHANGED <<balance, status, SettledOrders>>
           \/ \E w \in Wallets : Promise!Restrict(w)
  <1>1. UNCHANGED <<balance, rows>> /\ (UNCHANGED status \/ \E w \in Wallets : Restricts(w))
    BY WhoWrites
  <1>2. UNCHANGED SettledOrders
    BY <1>1 DEF SettledOrders, OrderOf
  <1> QED BY <1>1, <1>2 DEF Restricts, RestrictWallet, Promise!Restrict

\* Payments and QR payments together implement the atomic transfers of Transfers: keys
\* settle once, single-use codes once, between wallets in order and never beyond the
\* balance, however their handlers interleave, time out or die.
THEOREM PlatformKeepsPromise ==
    ASSUME CheckedFlowsOnly
    PROVE  Spec => PromiseKept
  <1>1. Init => Promise!Init
    BY DEF Init, Payments!Init, Payments!DbInit, Promise!Init, SettledOrders
  <1>2. PlatformInv /\ [Next]_vars => [Promise!Next]_(Promise!vars)
    <2> SUFFICES ASSUME PlatformInv, [Next]_vars PROVE [Promise!Next]_(Promise!vars)
      OBVIOUS
    <2>1. CASE \E c \in Calls : Settles(c)
      BY <2>1, SettlesPromise DEF Promise!Next
    <2>2. CASE ~ \E c \in Calls : Settles(c)
      BY <2>2, OthersPromise DEF Promise!Next, Promise!vars
    <2> QED BY <2>1, <2>2
  <1> QED BY <1>1, <1>2, PlatformInvHolds, PTL DEF Spec, PromiseKept, Promise!Spec

(***************************************************************************)
(* Expiry.                                                                 *)
(***************************************************************************)
Early == {"idle", "lockFirst", "lockSecond", "lockQr"}
Expired(c) == order[c].flow = "qr" /\ qrs[order[c].qr].expired
Late(c) == Expired(c) /\ pc[c] \in Early \cup {"done", "lost"} /\ reply[c] # "created"

LEMMA ExpiredForGood ==
    ASSUME PlatformInv, [Next]_vars, NEW c \in Calls, Expired(c)
    PROVE  Expired(c)'
  <1> DEFINE q == order[c].qr
  <1>1. /\ q \in QrIds /\ qrs \in [QrIds -> QrRow] /\ qrs[q].made = "yes" /\ order' = order
    <2>1. q \in QrIds
      BY MoneyAssumption DEF MoneyAssumption, Expired, PlatformInv, TypeOK, DbTypeOK
    <2> QED BY <2>1, WhoWrites DEF PlatformInv, TypeOK, QrRow, CodesWellMade, Uncreated, Expired
  <1> SUFFICES qrs'[q].expired
    BY <1>1 DEF Expired
  <1>2. qrs[q].expired
    BY DEF Expired
  <1> HIDE DEF q
  <1>3. ASSUME NEW d \in Calls, Step(d) PROVE qrs'[q].expired
    <2>1. CASE Quiet(d)
      BY <1>2, <2>1 DEF Quiet, Still
    <2>2. CASE Settles(d)
      BY <1>1, <1>2, <2>2 DEF Settles, CodeAfter, QrRow
    <2> QED BY <1>3, <2>1, <2>2, StepKinds
  <1>4. CASE \E w \in Wallets : Restricts(w)
    BY <1>2, <1>4 DEF Restricts
  <1>5. CASE Elsewhere
    <2>1. CASE \E p \in QrIds : Qr!StartQr(p) \/ Qr!CreateQr(p) \/ Qr!ExpireQr(p)
      BY <1>1, <1>2, <2>1 DEF Qr!StartQr, Qr!CreateQr, Qr!ExpireQr, QrRow
    <2>2. CASE Qr!Crash
      BY <1>1, <1>2, <2>2 DEF Qr!Crash
    <2> QED BY <1>2, <1>5, <2>1, <2>2 DEF Elsewhere, qrVars, Qr!AuditSuspension
  <1> QED BY <1>3, <1>4, <1>5, NextKinds

LEMMA LateStays ==
    ASSUME PlatformInv, [Next]_vars, NEW c \in Calls, Late(c)
    PROVE  Late(c)'
  <1>0. Expired(c)' /\ order' = order /\ Placing /\ Placing'
    BY ExpiredForGood, WhoWrites, InvNext DEF Late, PlatformInv
  <1> SUFFICES pc'[c] \in Early \cup {"done", "lost"} /\ reply'[c] # "created"
    BY <1>0 DEF Late
  <1> USE DEF Late, Early
  <1>1. CASE QrStep(c)
    <2>1. ~ Qr!Payable(order[c].qr)
      BY DEF Expired, Qr!Payable
    <2> QED BY <1>0, <1>1, <2>1 DEF QrStep, Qr!Handle, Qr!ReadQr, Qr!LockFirst, Qr!LockSecond,
            Qr!LockQr, Qr!InsertRows, Qr!Commit, Qr!Respond, Qr!Timeout, Qr!Rollback, Qr!Answer,
            Qr!Goto, Qr!At, Placing
  <1>2. ASSUME NEW d \in Calls, Step(d), ~ QrStep(c) PROVE Keeps(c)
    <2>1. CASE d = c
      BY <1>2, <2>1 DEF Expired, Step, PaymentStep, BatchStep, Payments!Handle, Payments!Timeout,
         Payments!At, Payments!CheckKey, Payments!Screen, Payments!LockFirst, Payments!LockSecond,
         Payments!InsertRows, Payments!ReadFeePool, Payments!UpdateFeePool, Payments!WriteAuditLog,
         Payments!Commit, Payments!Respond, Batch!Handle, Batch!Abort, Batch!At, Batch!BatchFlows,
         Batch!ReadWallets, Batch!DebitWallet, Batch!CreditWallet, Batch!InsertRows, Batch!Commit,
         Batch!Respond
    <2>2. CASE d # c
      BY <1>2, <2>2, StepKinds
    <2> QED BY <2>1, <2>2
  <1>3. CASE \E w \in Wallets : Restricts(w)
    BY <1>3 DEF Restricts, RestrictWallet, calls
  <1>4. CASE Elsewhere
    <2>1. reply' = reply /\ (pc'[c] = pc[c] \/ pc'[c] = "lost")
      BY <1>4 DEF Elsewhere, calls, Payments!Crash, Qr!Crash, Qr!StartQr, Qr!CreateQr,
         Qr!ExpireQr, Qr!AuditSuspension, Qr!calls
    <2> QED BY <2>1
  <1> QED BY <1>1, <1>2, <1>3, <1>4, NextKinds DEF Keeps

\* A code is what its payments have made of it to the end; and a customer who has not
\* locked the QR row when the code expires does not pay by it, whatever he read before.
THEOREM CodesKept == Spec => CodesAreKept
  <1>1. Spec => []UsageIsCounted
    <2>1. PlatformInv => UsageIsCounted
      BY DEF PlatformInv
    <2> QED BY <2>1, PlatformInvHolds, PTL
  <1>2. ASSUME NEW c \in Calls
        PROVE  Spec => [](order[c].flow = "qr"
                            /\ qrs[order[c].qr].expired
                            /\ pc[c] \in {"idle", "lockFirst", "lockSecond", "lockQr"}
                          => [](reply[c] # "created" /\ pc[c] # "respond"))
    <2> DEFINE Scans == /\ order[c].flow = "qr"
                        /\ qrs[order[c].qr].expired
                        /\ pc[c] \in {"idle", "lockFirst", "lockSecond", "lockQr"}
               Unpaid == reply[c] # "created" /\ pc[c] # "respond"
               L == Late(c)
    <2>1. PlatformInv /\ Scans => L
      BY DEF PlatformInv, CallInv, Told, Late, Expired, Early
    <2>2. PlatformInv /\ [Next]_vars /\ L => L'
      BY LateStays
    <2>3. L => Unpaid
      BY DEF Late, Early
    <2>4. Spec => [](Scans => []Unpaid)
      <3> HIDE DEF Scans, Unpaid, L
      <3> QED BY <2>1, <2>2, <2>3, PlatformInvHolds, PTL DEF Spec
    <2> QED BY <2>4, PTL
  <1> QED BY <1>1, <1>2 DEF CodesAreKept

(***************************************************************************)
(* Reports. Each query sees one moment, so the argument holds the figure   *)
(* of each against the totals when the report was asked for and the        *)
(* totals now, which only grow.                                            *)
(***************************************************************************)
\* What all wallets hold.
Held(b) == SumFunctionOnSet([w \in Wallets |-> b[w]], Wallets)

\* What o takes out of the wallets.
Sold(o) == IF o.flow = "airtime" THEN o.amount ELSE 0

\* With the fee pool there, a commit moves money from wallet to wallet; only airtime leaves.
LEMMA HeldSettles ==
    ASSUME HasFeePool, DbTypeOK, NEW c \in Calls, Settles(c)
    PROVE  /\ Held(balance') = Held(balance) - Sold(Placed(c))
           /\ Held(balance) \in Int
  <1> DEFINE o == Placed(c)
             x == IF o.flow = "airtime" THEN 0 - o.amount ELSE 0 - TotalDebit(o)
             y == IF o.flow = "airtime" THEN 0 ELSE o.amount
             z == IF o.flow = "airtime" THEN 0 ELSE FeeOf(o)
  <1>1. o \in Stored /\ IsFiniteSet(Wallets) /\ FeePool \in Wallets
    BY PlacedIs, MoneyAssumption DEF DbTypeOK, MoneyAssumption, HasFeePool
  <1>2. \A w \in Wallets : balance[w] \in Int /\ balance'[w] = balance[w] + Delta(o, w)
    BY DEF DbTypeOK, Settles
  <1> HIDE DEF o
  <1>3. /\ o.sender \in Wallets /\ o.receiver \in Wallets /\ o.amount \in Nat
        /\ FeeOf(o) \in Nat /\ TotalDebit(o) \in Nat /\ TotalDebit(o) = o.amount + FeeOf(o)
    BY <1>1, StoredFields
  <1>4. /\ x \in Int /\ y \in Int /\ z \in Int
        /\ x + y + z = 0 - Sold(o) /\ Sold(o) \in Int
    BY <1>3 DEF Sold
  <1>5. \A w \in Wallets : Delta(o, w) = (IF w = o.sender THEN x ELSE 0) + (IF w = o.receiver THEN y ELSE 0)
                                           + (IF w = FeePool THEN z ELSE 0)
    BY <1>3 DEF Delta, Movement
  <1> HIDE DEF x, y, z
  <1>6. PICK f : f = [w \in Wallets |-> balance[w]]
    OBVIOUS
  <1>7. PICK g : g = [w \in Wallets |-> balance'[w]]
    OBVIOUS
  <1>8. Held(balance) = SumFunctionOnSet(f, Wallets) /\ Held(balance') = SumFunctionOnSet(g, Wallets)
    BY <1>6, <1>7 DEF Held
  <1>9. PICK f1 : f1 = [w \in Wallets |-> balance[w] + (IF w = o.sender THEN x ELSE 0)]
    OBVIOUS
  <1>10. PICK f2 : f2 = [w \in Wallets |-> balance[w] + (IF w = o.sender THEN x ELSE 0)
                                             + (IF w = o.receiver THEN y ELSE 0)]
    OBVIOUS
  <1>11. Bumps(f, f1, Wallets, o.sender, x)
    BY <1>2, <1>3, <1>4, <1>6, <1>9 DEF Bumps
  <1>12. Bumps(f1, f2, Wallets, o.receiver, y)
    BY <1>2, <1>3, <1>4, <1>9, <1>10 DEF Bumps
  <1>13. Bumps(f2, g, Wallets, FeePool, z)
    <2>1. \A w \in Wallets : f2[w] \in Int /\ g[w] = f2[w] + (IF w = FeePool THEN z ELSE 0)
      <3> SUFFICES ASSUME NEW w \in Wallets
                   PROVE  f2[w] \in Int /\ g[w] = f2[w] + (IF w = FeePool THEN z ELSE 0)
        OBVIOUS
      <3>1. f2[w] = balance[w] + (IF w = o.sender THEN x ELSE 0) + (IF w = o.receiver THEN y ELSE 0)
        BY <1>10
      <3>2. g[w] = balance[w] + Delta(o, w) /\ balance[w] \in Int
        BY <1>2, <1>7
      <3>3. Delta(o, w) = (IF w = o.sender THEN x ELSE 0) + (IF w = o.receiver THEN y ELSE 0)
                            + (IF w = FeePool THEN z ELSE 0)
        BY <1>5
      <3> QED BY <1>4, <3>1, <3>2, <3>3
    <2> QED BY <1>1, <1>4, <2>1 DEF Bumps
  <1>14. /\ SumFunctionOnSet(f1, Wallets) = SumFunctionOnSet(f, Wallets) + x
         /\ SumFunctionOnSet(f, Wallets) \in Int
    BY <1>1, <1>11, SumBump
  <1>15. SumFunctionOnSet(f2, Wallets) = SumFunctionOnSet(f1, Wallets) + y
    BY <1>1, <1>12, SumBump
  <1>16. SumFunctionOnSet(g, Wallets) = SumFunctionOnSet(f2, Wallets) + z
    BY <1>1, <1>13, SumBump
  <1> QED BY <1>4, <1>8, <1>14, <1>15, <1>16 DEF o

\* Credits less debits of all entries.
Balance(L) == SumOf({e \in L : e.type = "CREDIT"}) - SumOf({e \in L : e.type = "DEBIT"})

\* A debit and a credit of the same amount leave the ledger as balanced as it was.
LEMMA PairBalances ==
    ASSUME NEW L, IsFiniteSet(L), L \subseteq Entries, NEW d \in Entries, NEW c \in Entries,
           d \notin L, c \notin L, d.type = "DEBIT", c.type = "CREDIT", d.amount = c.amount
    PROVE  /\ Balance(L \cup {d, c}) = Balance(L)
           /\ IsFiniteSet(L \cup {d, c}) /\ L \cup {d, c} \subseteq Entries
  <1> DEFINE C == {e \in L : e.type = "CREDIT"}
             D == {e \in L : e.type = "DEBIT"}
  <1>1. IsFiniteSet(C) /\ IsFiniteSet(D) /\ C \subseteq Entries /\ D \subseteq Entries
    BY FS_Subset
  <1>2. /\ {e \in L \cup {d, c} : e.type = "CREDIT"} = C \cup {c}
        /\ {e \in L \cup {d, c} : e.type = "DEBIT"} = D \cup {d}
    OBVIOUS
  <1>3. c \notin C /\ d \notin D
    OBVIOUS
  <1>4. Balance(L) = SumOf(C) - SumOf(D) /\ Balance(L \cup {d, c}) = SumOf(C \cup {c}) - SumOf(D \cup {d})
    BY <1>2 DEF Balance
  <1> HIDE DEF C, D
  <1>5. c.amount \in Int /\ (\A e \in C : e.amount \in Int) /\ \A e \in D : e.amount \in Int
    BY <1>1 DEF Entries
  <1>6. SumOf(C \cup {c}) = SumOf(C) + c.amount /\ SumOf(C) \in Int
    BY <1>1, <1>3, <1>5, SumOfAdd
  <1>7. SumOf(D \cup {d}) = SumOf(D) + d.amount /\ SumOf(D) \in Int
    BY <1>1, <1>3, <1>5, SumOfAdd
  <1>8. IsFiniteSet(L \cup {d, c})
    <2>1. IsFiniteSet(L \cup {d}) /\ L \cup {d, c} = (L \cup {d}) \cup {c}
      BY FS_AddElement
    <2> QED BY <2>1, FS_AddElement
  <1> QED BY <1>4, <1>5, <1>6, <1>7, <1>8

\* So the entries of a commit do, with a fee or without.
LEMMA PostingsBalance ==
    ASSUME PlatformInv, NEW c \in Calls, Settles(c)
    PROVE  Balance(ledger') = Balance(ledger)
  <1> DEFINE o == Placed(c)
             d == Entry(o, "transfer", "DEBIT", o.sender, o.amount)
             e == Entry(o, "transfer", "CREDIT", o.receiver, o.amount)
             f == Entry(o, "fee", "DEBIT", o.sender, FeeOf(o))
             g == Entry(o, "fee", "CREDIT", FeePool, FeeOf(o))
             L == ledger \cup {d, e}
  <1>1. o \in Stored /\ IsFiniteSet(ledger) /\ ledger \subseteq Entries /\ FeePool \in Nat
    BY PlacedIs, MoneyAssumption DEF MoneyAssumption, PlatformInv, TypeOK, DbTypeOK, Attested, EntryType, Entries
  <1>2. \A r \in rows : ~ SameKey(r, o)
    BY DEF PlatformInv, CallInv, Unused, Reserves, Inserted, Settles
  <1>3. \A x \in ledger : ~ SameKey(x, o)
    BY <1>2 DEF PlatformInv, Attested, SameKey
  <1>4. /\ SameKey(d, o) /\ SameKey(e, o) /\ SameKey(f, o) /\ SameKey(g, o)
        /\ d.type = "DEBIT" /\ e.type = "CREDIT" /\ f.type = "DEBIT" /\ g.type = "CREDIT"
        /\ d.amount = e.amount /\ f.amount = g.amount
        /\ f \notin {d, e} /\ g \notin {d, e}
    BY DEF Entry, SameKey
  <1>5. Postings(o) \in {{}, {d, e}, {d, e} \cup {f, g}}
    BY DEF Postings, TransferEntries, FeeEntries
  <1>6. ledger' = ledger \cup Postings(o)
    BY DEF Settles
  <1>7. d \in Entries /\ e \in Entries /\ f \in Entries /\ g \in Entries
    BY <1>1, StoredFields, EntryShares
  <1> HIDE DEF o, d, e, f, g
  <1>8. d \notin ledger /\ e \notin ledger /\ f \notin L /\ g \notin L
    BY <1>3, <1>4
  <1>9. Balance(L) = Balance(ledger) /\ IsFiniteSet(L) /\ L \subseteq Entries
    BY <1>1, <1>4, <1>7, <1>8, PairBalances
  <1> HIDE DEF L
  <1>10. Balance(L \cup {f, g}) = Balance(L)
    BY <1>4, <1>7, <1>8, <1>9, PairBalances
  <1>11. ledger' = ledger \/ ledger' = L \/ ledger' = L \cup {f, g}
    <2>1. ASSUME Postings(o) = {} PROVE ledger' = ledger
      BY <1>6, <2>1
    <2>2. ASSUME Postings(o) = {d, e} PROVE ledger' = L
      BY <1>6, <2>2 DEF L
    <2>3. ASSUME Postings(o) = {d, e} \cup {f, g} PROVE ledger' = L \cup {f, g}
      BY <1>6, <2>3 DEF L
    <2> QED BY <1>5, <2>1, <2>2, <2>3
  <1> QED BY <1>9, <1>10, <1>11
(***************************************************************************)
(* The totals a report counts, and what a commit adds to them.             *)
(***************************************************************************)
AllActive == \A w \in Wallets : status[w] = "ACTIVE"
DebitCount == Cardinality(Reports!Debits)
FloatCount == Cardinality(Reports!FloatLines)

LEMMA TotalsAre ==
    /\ Reports!DebitTotal = SumOf(Reports!Debits) /\ Reports!CreditTotal = SumOf(Reports!Credits)
    /\ Reports!AirtimeSold = SumOf({r \in Reports!Debits : r.flow = "airtime"})
    /\ Reports!LedgerNet = Balance(ledger)
  BY ReportSums DEF Reports!DebitTotal, Reports!CreditTotal, Reports!AirtimeSold, Reports!LedgerNet, Balance

LEMMA LinesTyped ==
    ASSUME PlatformInv
    PROVE  /\ IsFiniteSet(Reports!Debits) /\ IsFiniteSet(Reports!Credits) /\ IsFiniteSet(Reports!FloatLines)
           /\ Reports!Debits \subseteq rows /\ Reports!Credits \subseteq rows
           /\ \A r \in rows : r.amount \in Int
  <1>1. IsFiniteSet(rows) /\ rows \subseteq RowType
    BY DEF PlatformInv, Attested, TypeOK, DbTypeOK
  <1>2. \A r \in rows : r.amount \in Int
    BY <1>1 DEF RowType
  <1> QED BY <1>1, <1>2, FS_Subset DEF Reports!Debits, Reports!Credits, Reports!FloatLines

LEMMA TotalsTyped ==
    ASSUME PlatformInv
    PROVE  /\ Reports!DebitTotal \in Int /\ Reports!CreditTotal \in Int /\ Reports!AirtimeSold \in Int
           /\ DebitCount \in Nat /\ FloatCount \in Nat
  <1>1. IsFiniteSet({r \in Reports!Debits : r.flow = "airtime"})
    BY LinesTyped, FS_Subset
  <1>2. /\ \A r \in Reports!Debits : r.amount \in Int
        /\ \A r \in Reports!Credits : r.amount \in Int
        /\ \A r \in {s \in Reports!Debits : s.flow = "airtime"} : r.amount \in Int
    BY LinesTyped
  <1>3. /\ SumOf(Reports!Debits) \in Int /\ SumOf(Reports!Credits) \in Int
        /\ SumOf({r \in Reports!Debits : r.flow = "airtime"}) \in Int
    BY <1>1, <1>2, LinesTyped, SumOfType
  <1>4. DebitCount \in Nat /\ FloatCount \in Nat
    BY LinesTyped, FS_CardinalityType DEF DebitCount, FloatCount
  <1> QED BY <1>3, <1>4, TotalsAre

LEMMA TotalsSettle ==
    ASSUME PlatformInv, NEW c \in Calls, Settles(c)
    PROVE  /\ Placed(c).amount \in Nat
           /\ Reports!DebitTotal' = Reports!DebitTotal + Placed(c).amount
           /\ Reports!CreditTotal' = Reports!CreditTotal + (Placed(c).amount - Sold(Placed(c)))
           /\ Reports!AirtimeSold' = Reports!AirtimeSold + Sold(Placed(c))
           /\ DebitCount <= DebitCount' /\ FloatCount <= FloatCount'
  <1> DEFINE o == Placed(c)
             a == DebitRow(o, seen[c].sender)
             b == CreditRow(o, seen[c].receiver)
             D == Reports!Debits
             C == Reports!Credits
             A == {r \in D : r.flow = "airtime"}
  <1>1. /\ o \in Stored /\ o.amount \in Nat
    BY PlacedIs, StoredFields DEF PlatformInv, TypeOK, DbTypeOK
  <1>2. \A r \in rows : ~ SameKey(r, o)
    BY DEF PlatformInv, CallInv, Unused, Reserves, Inserted, Settles
  <1>3. /\ a.kind = "DEBIT" /\ a.flow = o.flow /\ a.amount = o.amount /\ SameKey(a, o)
        /\ b.kind = "CREDIT" /\ b.flow = o.flow /\ b.amount = o.amount /\ SameKey(b, o)
    BY DEF DebitRow, CreditRow, Row, SameKey
  <1>4. rows' = rows \cup Lines(c) /\ a \in Lines(c) /\ \A r \in Lines(c) : r.kind = "DEBIT" => r = a
    BY LinesOf DEF Settles
  <1>5. /\ o.flow # "airtime" => b \in Lines(c)
        /\ \A r \in Lines(c) : r.kind = "CREDIT" => r = b /\ o.flow # "airtime"
    <2>1. CASE o.flow = "airtime"
      <3>1. Lines(c) = {a}
        BY <2>1 DEF Lines
      <3> QED BY <1>3, <2>1, <3>1
    <2>2. CASE o.flow # "airtime"
      <3>1. Lines(c) = {a, b} \cup (IF o.flow = "payment" THEN FeeRows(o, seen[c].pool) ELSE {})
        BY <2>2 DEF Lines, TransferRows
      <3>2. \A r \in FeeRows(o, seen[c].pool) : r.kind = "FEE"
        BY DEF FeeRows, FeeRow, Row
      <3> QED BY <1>3, <2>2, <3>1, <3>2
    <2> QED BY <2>1, <2>2
  <1> HIDE DEF o, a, b
  <1>6. D' = D \cup {a} /\ C' = (IF o.flow = "airtime" THEN C ELSE C \cup {b})
    BY <1>3, <1>4, <1>5 DEF Reports!Debits, Reports!Credits
  <1>7. a \notin D /\ b \notin C /\ a \notin A
    BY <1>2, <1>3, LinesTyped
  <1>8. {r \in D' : r.flow = "airtime"} = IF o.flow = "airtime" THEN A \cup {a} ELSE A
    BY <1>3, <1>6
  <1>9. /\ IsFiniteSet(D) /\ IsFiniteSet(C) /\ IsFiniteSet(A) /\ a.amount \in Int /\ b.amount \in Int
        /\ \A r \in D : r.amount \in Int
        /\ \A r \in C : r.amount \in Int
        /\ \A r \in A : r.amount \in Int
    BY <1>1, <1>3, LinesTyped, FS_Subset
  <1>10. /\ Reports!DebitTotal' = SumOf(D') /\ Reports!CreditTotal' = SumOf(C')
         /\ Reports!AirtimeSold' = SumOf({r \in D' : r.flow = "airtime"})
         /\ Reports!DebitTotal = SumOf(D) /\ Reports!CreditTotal = SumOf(C) /\ Reports!AirtimeSold = SumOf(A)
    BY ReportSums DEF Reports!DebitTotal, Reports!CreditTotal, Reports!AirtimeSold
  <1>11. DebitCount <= DebitCount'
    <2>1. IsFiniteSet(D \cup {a}) /\ D \subseteq D \cup {a}
      BY <1>9, FS_AddElement
    <2>2. Cardinality(D) <= Cardinality(D \cup {a})
      BY <2>1, FS_Subset
    <2> QED BY <1>6, <2>2 DEF DebitCount
  <1>12. FloatCount <= FloatCount'
    <2> DEFINE F == {r \in rows' : r.wallet = Float}
    <2>1. IsFiniteSet(rows')
      BY <1>4, SettlesTypes, FS_Union DEF PlatformInv, Attested
    <2>2. IsFiniteSet(F) /\ Reports!FloatLines \subseteq F /\ Reports!FloatLines' = F
      BY <1>4, <2>1, FS_Subset DEF Reports!FloatLines
    <2> HIDE DEF F
    <2>3. Cardinality(Reports!FloatLines) <= Cardinality(F)
      BY <2>2, FS_Subset
    <2> QED BY <2>2, <2>3 DEF FloatCount
  <1> HIDE DEF D, C, A
  <1>13. /\ SumOf(D \cup {a}) = SumOf(D) + a.amount /\ SumOf(D) \in Int
         /\ SumOf(C \cup {b}) = SumOf(C) + b.amount /\ SumOf(C) \in Int
         /\ SumOf(A \cup {a}) = SumOf(A) + a.amount /\ SumOf(A) \in Int
    BY <1>7, <1>9, SumOfAdd
  <1>14. SumOf(D') = SumOf(D) + o.amount
    BY <1>3, <1>6, <1>13
  <1>15. CASE o.flow = "airtime"
    <2>1. SumOf(C') = SumOf(C) /\ SumOf({r \in D' : r.flow = "airtime"}) = SumOf(A) + o.amount
      BY <1>3, <1>6, <1>8, <1>13, <1>15
    <2>2. Sold(o) = o.amount
      BY <1>15 DEF Sold
    <2>3. SumOf(C') = SumOf(C) + (o.amount - Sold(o)) /\ SumOf({r \in D' : r.flow = "airtime"}) = SumOf(A) + Sold(o)
      BY <1>1, <1>13, <2>1, <2>2
    <2> QED BY <1>1, <1>10, <1>11, <1>12, <1>14, <2>3 DEF o
  <1>16. CASE o.flow # "airtime"
    <2>1. SumOf(C') = SumOf(C) + o.amount /\ SumOf({r \in D' : r.flow = "airtime"}) = SumOf(A)
      BY <1>3, <1>6, <1>8, <1>13, <1>16
    <2>2. Sold(o) = 0
      BY <1>16 DEF Sold
    <2>3. SumOf(C') = SumOf(C) + (o.amount - Sold(o)) /\ SumOf({r \in D' : r.flow = "airtime"}) = SumOf(A) + Sold(o)
      BY <1>1, <1>13, <2>1, <2>2
    <2> QED BY <1>1, <1>10, <1>11, <1>12, <1>14, <2>3 DEF o
  <1> QED BY <1>15, <1>16

(***************************************************************************)
(* The books, and how they grow.                                           *)
(***************************************************************************)
\* Every debit is somebody's credit or airtime; the ledger balances; what the wallets
\* held at the start and do not hold now went for airtime.
Books ==
    /\ Reports!DebitTotal = Reports!CreditTotal + Reports!AirtimeSold
    /\ Reports!LedgerNet = 0
    /\ Held(balance) = Held(Opening) - Reports!AirtimeSold

Grows ==
    /\ Reports!CreditTotal <= Reports!CreditTotal' /\ Reports!AirtimeSold <= Reports!AirtimeSold'
    /\ DebitCount <= DebitCount' /\ FloatCount <= FloatCount'
    /\ AllActive' => AllActive

LEMMA HeldType ==
    ASSUME NEW b, \A w \in Wallets : b[w] \in Int
    PROVE  Held(b) \in Int
  <1> DEFINE f == [w \in Wallets |-> b[w]]
  <1>1. \A w \in Wallets : f[w] \in Int
    OBVIOUS
  <1> HIDE DEF f
  <1>2. SumFunctionOnSet(f, Wallets) \in Int
    BY <1>1, SumType, MoneyAssumption DEF MoneyAssumption
  <1> QED BY <1>2 DEF Held, f

LEMMA HeldOpening == Held(Opening) \in Int
  <1>1. \A w \in Wallets : Opening[w] \in Nat
    BY MoneyAssumption DEF MoneyAssumption
  <1> QED BY <1>1, HeldType

LEMMA BooksInit == Init => Books
  <1> SUFFICES ASSUME Init PROVE Books
    OBVIOUS
  <1>1. rows = {} /\ ledger = {} /\ balance = Opening
    BY DEF Init, Payments!Init, Payments!DbInit
  <1>2. /\ Reports!Debits = {} /\ Reports!Credits = {} /\ {r \in Reports!Debits : r.flow = "airtime"} = {}
        /\ {e \in ledger : e.type = "CREDIT"} = {} /\ {e \in ledger : e.type = "DEBIT"} = {}
    BY <1>1 DEF Reports!Debits, Reports!Credits
  <1>3. Reports!DebitTotal = 0 /\ Reports!CreditTotal = 0 /\ Reports!AirtimeSold = 0 /\ Reports!LedgerNet = 0
    <2>1. SumOf({}) = 0
      BY SumsOfNothing
    <2>2. Balance(ledger) = SumOf({}) - SumOf({})
      BY <1>2 DEF Balance
    <2> QED BY <1>2, <2>1, <2>2, TotalsAre
  <1> QED BY <1>1, <1>3, HeldOpening DEF Books

LEMMA BooksNext ==
    ASSUME HasFeePool, PlatformInv, Books, [Next]_vars
    PROVE  Books' /\ Grows
  <1>1. CASE \E c \in Calls : Settles(c)
    <2>1. PICK c \in Calls : Settles(c)
      BY <1>1
    <2> DEFINE x == Placed(c).amount
               y == Sold(Placed(c))
    <2>2. /\ Reports!DebitTotal' = Reports!DebitTotal + x
          /\ Reports!CreditTotal' = Reports!CreditTotal + (x - y)
          /\ Reports!AirtimeSold' = Reports!AirtimeSold + y
          /\ DebitCount <= DebitCount' /\ FloatCount <= FloatCount'
          /\ x \in Nat
      BY <2>1, TotalsSettle
    <2>3. Held(balance') = Held(balance) - y /\ Held(balance) \in Int
      BY <2>1, HeldSettles DEF PlatformInv, TypeOK
    <2>4. Reports!LedgerNet' = Reports!LedgerNet
      <3>1. Reports!LedgerNet' = Balance(ledger') /\ Reports!LedgerNet = Balance(ledger)
        BY ReportSums DEF Reports!LedgerNet, Balance
      <3> QED BY <2>1, <3>1, PostingsBalance
    <2>5. AllActive' => AllActive
      BY <2>1 DEF Settles, AllActive
    <2>6. y \in {0, x}
      BY DEF Sold
    <2>7. Held(balance)' = Held(balance')
      BY DEF Held
    <2> HIDE DEF x, y
    <2>8. /\ Reports!DebitTotal \in Int /\ Reports!CreditTotal \in Int /\ Reports!AirtimeSold \in Int
      BY TotalsTyped
    <2>9. Grows
      BY <2>2, <2>5, <2>6, <2>8 DEF Grows
    <2>10. Reports!DebitTotal' = Reports!CreditTotal' + Reports!AirtimeSold'
      BY <2>2, <2>6, <2>8 DEF Books
    <2>11. Held(balance') = Held(Opening) - Reports!AirtimeSold'
      BY <2>2, <2>3, <2>6, <2>8, HeldOpening DEF Books
    <2>12. Books'
      <3>1. Reports!LedgerNet' = 0
        BY <2>4 DEF Books
      <3>2. (Held(Opening) - Reports!AirtimeSold)' = Held(Opening) - Reports!AirtimeSold'
        BY DEF Held
      <3> QED BY <2>7, <2>10, <2>11, <3>1, <3>2 DEF Books
    <2> QED BY <2>9, <2>12
  <1>2. CASE /\ UNCHANGED <<balance, rows, ledger>>
             /\ UNCHANGED status \/ \E w \in Wallets : Restricts(w)
    <2>1. /\ Reports!DebitTotal' = Reports!DebitTotal /\ Reports!CreditTotal' = Reports!CreditTotal
          /\ Reports!AirtimeSold' = Reports!AirtimeSold /\ Reports!LedgerNet' = Reports!LedgerNet
          /\ DebitCount' = DebitCount /\ FloatCount' = FloatCount
      BY <1>2 DEF Reports!DebitTotal, Reports!CreditTotal, Reports!AirtimeSold, Reports!LedgerNet,
         Reports!Debits, Reports!Credits, Reports!FloatLines, DebitCount, FloatCount
    <2>2. Held(balance)' = Held(balance) /\ Held(Opening)' = Held(Opening)
      BY <1>2 DEF Held
    <2>3. AllActive' => AllActive
      <3>1. CASE UNCHANGED status
        BY <3>1 DEF AllActive
      <3>2. CASE \E w \in Wallets : Restricts(w)
        <4>1. PICK w \in Wallets, s \in {"SUSPENDED", "FROZEN"} : RestrictWallet(w, s)
          BY <3>2 DEF Restricts
        <4>2. status'[w] = s
          BY <4>1 DEF RestrictWallet, PlatformInv, TypeOK, DbTypeOK
        <4> QED BY <4>2 DEF AllActive
      <3> QED BY <1>2, <3>1, <3>2
    <2> QED BY <2>1, <2>2, <2>3, TotalsTyped DEF Books, Grows
  <1> QED BY <1>1, <1>2, WhoWrites

(***************************************************************************)
(* What each figure of a report says of the moment it was taken.           *)
(***************************************************************************)
\* A figure lies between the truth when the report was asked for and the truth now.
Explained(q, x) ==
    /\ q = "debits" =>
         /\ report.from.credits + report.from.airtime <= x
         /\ x <= Reports!CreditTotal + Reports!AirtimeSold
    /\ q = "credits" => report.from.credits <= x /\ x <= Reports!CreditTotal
    /\ q = "count" => report.from.count <= x
    /\ q \in {"large", "wallets"} => x <= DebitCount
    /\ q = "allTime" => report.from.float <= x
    /\ q = "today" => x <= FloatCount
    /\ q = "ledgerNet" => x = 0
    /\ q = "walletSum" /\ AllActive =>
         /\ Held(Opening) - Reports!AirtimeSold <= x
         /\ x <= Held(Opening) - report.from.airtime

\* The truth when the report was asked for, and what has been counted since.
Since ==
    /\ report.from.credits \in Int /\ report.from.credits <= Reports!CreditTotal
    /\ report.from.airtime \in Int /\ report.from.airtime <= Reports!AirtimeSold
    /\ report.from.count \in Int /\ report.from.count <= DebitCount
    /\ report.from.float \in Int /\ report.from.float <= FloatCount

\* A report that was not asked for has no figures; one that was has them all or still to
\* take, and those it has are explained.
ReportKept ==
    /\ Books
    /\ ~ report.asked => DOMAIN report.got = {} /\ report.todo = {}
    /\ report.asked =>
         /\ Since
         /\ Reports!Queries(report.kind) = DOMAIN report.got \cup report.todo
         /\ \A q \in DOMAIN report.got : Explained(q, report.got[q])

LEMMA FigureExplained ==
    ASSUME PlatformInv, Books, Since, NEW q, NEW x, x = Reports!Figure(q)
    PROVE  Explained(q, x)
  <1>0. /\ Reports!CreditTotal \in Int /\ Reports!AirtimeSold \in Int /\ DebitCount \in Nat /\ FloatCount \in Nat
        /\ report.from.credits \in Int /\ report.from.airtime \in Int
        /\ report.from.credits <= Reports!CreditTotal /\ report.from.airtime <= Reports!AirtimeSold
        /\ report.from.count <= DebitCount /\ report.from.float <= FloatCount
    BY TotalsTyped DEF Since
  <1>1. CASE q = "debits"
    <2>1. x = Reports!CreditTotal + Reports!AirtimeSold
      BY <1>1 DEF Reports!Figure, Books
    <2>2. report.from.credits + report.from.airtime <= x /\ x <= Reports!CreditTotal + Reports!AirtimeSold
      BY <1>0, <2>1
    <2> QED BY <1>1, <2>2 DEF Explained
  <1>2. CASE q = "credits"
    <2>1. x = Reports!CreditTotal
      BY <1>2 DEF Reports!Figure
    <2>2. report.from.credits <= x /\ x <= Reports!CreditTotal
      BY <1>0, <2>1
    <2> QED BY <1>2, <2>2 DEF Explained
  <1>3. CASE q = "count"
    <2>1. x = DebitCount
      BY <1>3, ReportCounts DEF Reports!Figure, DebitCount
    <2> QED BY <1>0, <1>3, <2>1 DEF Explained
  <1>4. CASE q = "large"
    <2> DEFINE L == {r \in Reports!Debits : r.amount >= LargeAmount}
    <2>1. x = Cardinality(L)
      BY <1>4, ReportCounts DEF Reports!Figure
    <2>2. Cardinality(L) <= DebitCount
      BY LinesTyped, FS_Subset DEF DebitCount
    <2> HIDE DEF L
    <2> QED BY <1>4, <2>1, <2>2 DEF Explained
  <1>5. CASE q = "wallets"
    <2> DEFINE W == {r.wallet : r \in Reports!Debits}
               f == [r \in Reports!Debits |-> r.wallet]
    <2>1. x = Cardinality(W)
      BY <1>5, ReportCounts DEF Reports!Figure
    <2>2. f \in Surjection(Reports!Debits, W)
      BY DEF Surjection
    <2> HIDE DEF W, f
    <2>3. Cardinality(W) <= DebitCount
      BY <2>2, LinesTyped, FS_Surjection DEF DebitCount
    <2> QED BY <1>5, <2>1, <2>3 DEF Explained
  <1>6. CASE q \in {"today", "allTime"}
    <2>1. x = FloatCount
      BY <1>6, ReportCounts DEF Reports!Figure, FloatCount
    <2>2. report.from.float <= x /\ x <= FloatCount
      BY <1>0, <2>1
    <2> QED BY <1>6, <2>2 DEF Explained
  <1>7. CASE q = "ledgerNet"
    <2>1. x = 0
      BY <1>7 DEF Reports!Figure, Books
    <2> QED BY <1>7, <2>1 DEF Explained
  <1>8. CASE q = "walletSum"
    <2>1. x = Reports!WalletSum
      BY <1>8 DEF Reports!Figure
    <2>2. ASSUME AllActive
          PROVE  Held(Opening) - Reports!AirtimeSold <= x /\ x <= Held(Opening) - report.from.airtime
      <3>1. {w \in Wallets : status[w] = "ACTIVE"} = Wallets
        BY <2>2 DEF AllActive
      <3>2. Reports!WalletSum = MapThenSumSet(LAMBDA w : balance[w], Wallets)
        BY <3>1 DEF Reports!WalletSum, Reports!MapThenSumSet, Reports!MapThenFoldSet, MapThenSumSet, MapThenFoldSet
      <3>3. x = Held(balance)
        BY <2>1, <3>2, WalletTotals DEF Held
      <3>4. Held(balance) = Held(Opening) - Reports!AirtimeSold /\ Held(Opening) \in Int
        BY HeldOpening DEF Books
      <3> QED BY <1>0, <3>3, <3>4
    <2> QED BY <1>8, <2>2 DEF Explained
  <1>9. CASE q \notin {"debits", "credits", "count", "large", "wallets", "today", "allTime", "ledgerNet", "walletSum"}
    BY <1>9 DEF Explained
  <1> QED BY <1>1, <1>2, <1>3, <1>4, <1>5, <1>6, <1>7, <1>8, <1>9

\* The totals are numbers, now and in the next state.
Totalled ==
    /\ Reports!CreditTotal \in Int /\ Reports!AirtimeSold \in Int
    /\ DebitCount \in Nat /\ FloatCount \in Nat

LEMMA TotalsNow == PlatformInv => Totalled
  BY TotalsTyped DEF Totalled

LEMMA TotalsNext == PlatformInv' => Totalled'
  BY TotalsNow, PTL

\* What explains a figure now explains it later.
LEMMA StaysExplained ==
    ASSUME PlatformInv, Totalled', Grows, Since, report'.from = report.from, NEW q, NEW x \in Int, Explained(q, x)
    PROVE  Explained(q, x)'
  <1>1. /\ Reports!CreditTotal \in Int /\ Reports!CreditTotal' \in Int /\ Reports!CreditTotal <= Reports!CreditTotal'
        /\ Reports!AirtimeSold \in Int /\ Reports!AirtimeSold' \in Int /\ Reports!AirtimeSold <= Reports!AirtimeSold'
        /\ DebitCount \in Nat /\ DebitCount' \in Nat /\ FloatCount \in Nat /\ FloatCount' \in Nat
        /\ DebitCount <= DebitCount' /\ FloatCount <= FloatCount'
        /\ Held(Opening)' = Held(Opening) /\ Held(Opening) \in Int
    BY TotalsTyped, HeldOpening DEF Totalled, Grows, Held
  <1>2. /\ report.from.credits \in Int /\ report.from.airtime \in Int
        /\ report'.from.credits = report.from.credits /\ report'.from.airtime = report.from.airtime
        /\ report'.from.count = report.from.count /\ report'.from.float = report.from.float
    BY DEF Since
  <1>3. /\ x <= Reports!CreditTotal + Reports!AirtimeSold => x <= Reports!CreditTotal' + Reports!AirtimeSold'
        /\ x <= Reports!CreditTotal => x <= Reports!CreditTotal'
        /\ Held(Opening) - Reports!AirtimeSold <= x => Held(Opening) - Reports!AirtimeSold' <= x
    <2>1. PICK a, b, d, e, h : /\ a = Reports!CreditTotal /\ b = Reports!CreditTotal'
                               /\ d = Reports!AirtimeSold /\ e = Reports!AirtimeSold' /\ h = Held(Opening)
      OBVIOUS
    <2>2. a \in Int /\ b \in Int /\ d \in Int /\ e \in Int /\ h \in Int /\ a <= b /\ d <= e
      BY <1>1, <2>1
    <2>3. /\ x <= a + d => x <= b + e
          /\ x <= a => x <= b
          /\ h - d <= x => h - e <= x
      BY <2>2
    <2> QED BY <2>1, <2>3
  <1>4. /\ x <= DebitCount => x <= DebitCount'
        /\ x <= FloatCount => x <= FloatCount'
    BY <1>1
  <1>5. AllActive' => AllActive
    BY DEF Grows
  <1> QED BY <1>1, <1>2, <1>3, <1>4, <1>5 DEF Explained

LEMMA SinceStays ==
    ASSUME PlatformInv, Totalled', Grows, Since, report'.from = report.from
    PROVE  Since'
  <1>1. /\ Reports!CreditTotal \in Int /\ Reports!CreditTotal' \in Int /\ Reports!CreditTotal <= Reports!CreditTotal'
        /\ Reports!AirtimeSold \in Int /\ Reports!AirtimeSold' \in Int /\ Reports!AirtimeSold <= Reports!AirtimeSold'
    BY TotalsTyped DEF Totalled, Grows
  <1>2. /\ DebitCount \in Nat /\ DebitCount' \in Nat /\ FloatCount \in Nat /\ FloatCount' \in Nat
        /\ DebitCount <= DebitCount' /\ FloatCount <= FloatCount'
    BY TotalsTyped DEF Totalled, Grows
  <1> QED BY <1>1, <1>2 DEF Since

LEMMA ReportKeptInit == Init => ReportKept
  <1> SUFFICES ASSUME Init PROVE ReportKept
    OBVIOUS
  <1>1. report.asked = FALSE /\ report.todo = {} /\ report.got = [q \in {} |-> 0]
    BY DEF Init, Reports!ReportInit
  <1>2. DOMAIN report.got = {}
    BY <1>1
  <1> QED BY <1>1, <1>2, BooksInit DEF ReportKept

\* Other steps leave the report; what it has been told stays explained.
LEMMA ReportWaits ==
    ASSUME PlatformInv, Totalled', ReportKept, Books', Grows, UNCHANGED report
    PROVE  ReportKept'
  <1>1. CASE ~ report.asked
    BY <1>1 DEF ReportKept
  <1>2. CASE report.asked
    <2>1. Since'
      BY <1>2, SinceStays DEF ReportKept
    <2>2. \A q \in DOMAIN report.got : Explained(q, report.got[q])'
      <3> SUFFICES ASSUME NEW q \in DOMAIN report.got PROVE Explained(q, report.got[q])'
        OBVIOUS
      <3>1. PICK x : x = report.got[q]
        OBVIOUS
      <3>2. x \in Int /\ Explained(q, x) /\ Since
        BY <1>2, <3>1 DEF ReportKept, PlatformInv, ReportFits
      <3>3. Explained(q, x)'
        BY <3>2, StaysExplained
      <3> QED BY <3>1, <3>3 DEF Explained
    <2> QED BY <1>2, <2>1, <2>2 DEF ReportKept
  <1> QED BY <1>1, <1>2

\* A query finds the truth of its moment.
LEMMA ReportMoves ==
    ASSUME PlatformInv, Totalled', ReportKept, Books', Grows, Reports!Next
    PROVE  ReportKept'
  <1> DEFINE k == report.kind
             R(a, t, g, f) == [kind |-> k, asked |-> a, todo |-> t, got |-> g, from |-> f]
  <1>1. UNCHANGED tables
    BY DEF Reports!Next, Reports!AskReport, Reports!RunQuery, Reports!tables, tables
  <1>2. /\ report = R(report.asked, report.todo, report.got, report.from)
        /\ report.todo \subseteq Reports!Queries(k)
        /\ \A q \in DOMAIN report.got : report.got[q] \in Int
    BY DEF PlatformInv, ReportFits
  <1>3. CASE Reports!AskReport
    <2>1. report' = R(TRUE, Reports!Queries(k), report.got, Reports!Truth) /\ ~ report.asked
      BY <1>2, <1>3 DEF Reports!AskReport
    <2>2. /\ report'.asked = TRUE /\ report'.kind = report.kind /\ report'.todo = Reports!Queries(report.kind)
          /\ report'.got = report.got /\ report'.from = Reports!Truth
      BY <2>1
    <2>3. DOMAIN report.got = {}
      BY <2>1 DEF ReportKept
    <2>4. /\ report'.from.credits = Reports!CreditTotal /\ report'.from.airtime = Reports!AirtimeSold
          /\ report'.from.count = DebitCount /\ report'.from.float = FloatCount
      BY <2>2, ReportCounts DEF Reports!Truth, DebitCount, FloatCount
    <2>5. Reports!CreditTotal' = Reports!CreditTotal /\ Reports!AirtimeSold' = Reports!AirtimeSold
      BY <1>1 DEF tables, Reports!CreditTotal, Reports!AirtimeSold, Reports!Credits, Reports!Debits
    <2>6. DebitCount' = DebitCount /\ FloatCount' = FloatCount
      BY <1>1 DEF tables, DebitCount, FloatCount, Reports!Debits, Reports!FloatLines
    <2>7. Since'
      BY <2>4, <2>5, <2>6 DEF Totalled, Since
    <2> QED BY <2>2, <2>3, <2>7 DEF ReportKept, Reports!Queries
  <1>4. ASSUME NEW q \in report.todo, Reports!RunQuery(q) PROVE ReportKept'
    <2> DEFINE g == [p \in DOMAIN report.got \cup {q} |->
                       IF p = q THEN Reports!Figure(q) ELSE report.got[p]]
    <2>1. report' = R(report.asked, report.todo \ {q}, g, report.from)
      BY <1>2, <1>4 DEF Reports!RunQuery
    <2>2. /\ report'.asked = report.asked /\ report'.kind = report.kind /\ report'.todo = report.todo \ {q}
          /\ report'.got = g /\ report'.from = report.from
      BY <2>1
    <2>3. DOMAIN report'.got = DOMAIN report.got \cup {q}
      BY <2>2
    <2>4. PICK y : y = Reports!Figure(q)
      OBVIOUS
    <2>5. report'.got[q] = y /\ \A p \in DOMAIN report.got : p # q => report'.got[p] = report.got[p]
      BY <2>2, <2>4
    <2>6. y \in Int
      BY <1>2, <2>4, FigureIsInt DEF PlatformInv
    <2> HIDE DEF g
    <2>7. CASE ~ report.asked
      BY <1>4, <2>7 DEF ReportKept
    <2>8. CASE report.asked
      <3>1. Since /\ Since'
        BY <2>2, <2>8, SinceStays DEF ReportKept
      <3>2. ASSUME NEW p \in DOMAIN report'.got PROVE Explained(p, report.got[p])'
        <4>1. PICK x : x = report'.got[p]
          OBVIOUS
        <4>2. x \in Int /\ Explained(p, x)
          <5>1. CASE p = q
            BY <2>4, <2>5, <2>6, <3>1, <4>1, <5>1, FigureExplained DEF ReportKept
          <5>2. CASE p # q
            BY <1>2, <2>3, <2>5, <2>8, <4>1, <5>2 DEF ReportKept
          <5> QED BY <5>1, <5>2
        <4>3. Explained(p, x)'
          BY <2>2, <3>1, <4>2, StaysExplained
        <4> QED BY <4>1, <4>3 DEF Explained
      <3>3. Reports!Queries(report'.kind) = DOMAIN report'.got \cup report'.todo
        <4>1. Reports!Queries(report.kind) = DOMAIN report.got \cup report.todo
          BY <2>8 DEF ReportKept
        <4> QED BY <1>4, <2>2, <2>3, <4>1
      <3> QED BY <2>2, <2>8, <3>1, <3>2, <3>3 DEF ReportKept, Reports!Queries
    <2> QED BY <2>7, <2>8
  <1> QED BY <1>3, <1>4 DEF Reports!Next

\* What is known of the figures of an answered report gives the bounds.
LEMMA KeptExplains ==
    ASSUME PlatformInv, ReportKept
    PROVE  ReportsAreExplained
  <1>1. /\ Reports!CreditTotal \in Int /\ Reports!AirtimeSold \in Int /\ DebitCount \in Nat /\ FloatCount \in Nat
    BY TotalsTyped
  <1>2. ASSUME NEW k, Reports!Answered(k)
        PROVE  /\ Since /\ report.kind = k
               /\ \A q \in Reports!Queries(k) : report.got[q] \in Int /\ Explained(q, report.got[q])
    BY <1>2 DEF Reports!Answered, ReportKept, PlatformInv, ReportFits
  <1>3. ASSUME Reports!Answered("reconciliation")
        PROVE  LET meanwhile == Reports!CreditTotal - report.from.credits IN
               report.got.debits - report.got.credits
                 \in report.from.airtime - meanwhile .. Reports!AirtimeSold + meanwhile
    <2>1. Reports!Queries("reconciliation") = {"debits", "credits"}
      BY DEF Reports!Queries
    <2>2. /\ Since /\ report.got["debits"] \in Int /\ Explained("debits", report.got["debits"])
          /\ report.got["credits"] \in Int /\ Explained("credits", report.got["credits"])
      BY <1>2, <1>3, <2>1
    <2>3. /\ report.from.credits + report.from.airtime <= report.got.debits
          /\ report.got.debits <= Reports!CreditTotal + Reports!AirtimeSold
          /\ report.from.credits <= report.got.credits /\ report.got.credits <= Reports!CreditTotal
          /\ report.got.debits \in Int /\ report.got.credits \in Int
          /\ report.from.credits \in Int /\ report.from.airtime \in Int
      BY <2>2 DEF Explained, Since
    <2> QED BY <1>1, <2>3
  <1>4. ASSUME Reports!Answered("sarb")
        PROVE  LET meanwhile == DebitCount - report.from.count IN
               /\ report.got.large <= report.got.count + meanwhile
               /\ report.got.wallets <= report.got.count + meanwhile
    <2>1. Reports!Queries("sarb") = {"count", "large", "wallets"}
      BY DEF Reports!Queries
    <2>2. /\ Since /\ report.got["count"] \in Int /\ Explained("count", report.got["count"])
          /\ report.got["large"] \in Int /\ Explained("large", report.got["large"])
          /\ report.got["wallets"] \in Int /\ Explained("wallets", report.got["wallets"])
      BY <1>2, <1>4, <2>1
    <2>3. /\ report.from.count <= report.got.count /\ report.got.large <= DebitCount
          /\ report.got.wallets <= DebitCount /\ report.from.count \in Int
          /\ report.got.count \in Int /\ report.got.large \in Int /\ report.got.wallets \in Int
      BY <2>2 DEF Explained, Since
    <2> QED BY <1>1, <2>3
  <1>5. ASSUME Reports!Answered("stats")
        PROVE  report.got.today <= report.got.allTime + FloatCount - report.from.float
    <2>1. Reports!Queries("stats") = {"today", "allTime"}
      BY DEF Reports!Queries
    <2>2. /\ Since /\ report.got["today"] \in Int /\ Explained("today", report.got["today"])
          /\ report.got["allTime"] \in Int /\ Explained("allTime", report.got["allTime"])
      BY <1>2, <1>5, <2>1
    <2>3. /\ report.from.float <= report.got.allTime /\ report.got.today <= FloatCount
          /\ report.from.float \in Int /\ report.got.allTime \in Int /\ report.got.today \in Int
      BY <2>2 DEF Explained, Since
    <2> QED BY <1>1, <2>3
  <1>6. ASSUME Reports!Answered("ledgerReconcile"), AllActive
        PROVE  Held(Opening) - (report.got.walletSum - report.got.ledgerNet)
                 \in report.from.airtime .. Reports!AirtimeSold
    <2>1. Reports!Queries("ledgerReconcile") = {"ledgerNet", "walletSum"}
      BY DEF Reports!Queries
    <2>2. /\ Since /\ report.got["ledgerNet"] \in Int /\ Explained("ledgerNet", report.got["ledgerNet"])
          /\ report.got["walletSum"] \in Int /\ Explained("walletSum", report.got["walletSum"])
      BY <1>2, <1>6, <2>1
    <2>3. /\ report.got.ledgerNet = 0 /\ Held(Opening) - Reports!AirtimeSold <= report.got.walletSum
          /\ report.got.walletSum <= Held(Opening) - report.from.airtime
          /\ report.got.walletSum \in Int /\ report.from.airtime \in Int
      BY <1>6, <2>2 DEF Explained, Since
    <2> QED BY <1>1, <2>3, HeldOpening
  <1>7. Reports!MapThenSumSet(LAMBDA w : Opening[w], Wallets) = Held(Opening)
    <2>1. Reports!MapThenSumSet(LAMBDA w : Opening[w], Wallets) = MapThenSumSet(LAMBDA w : Opening[w], Wallets)
      BY DEF Reports!MapThenSumSet, Reports!MapThenFoldSet, MapThenSumSet, MapThenFoldSet
    <2> QED BY <2>1, WalletTotals DEF Held
  <1>8. Reports!Cardinality(Reports!Debits) = DebitCount /\ Reports!Cardinality(Reports!FloatLines) = FloatCount
    BY ReportCounts DEF DebitCount, FloatCount
  <1>9. Reports!DiscrepanciesAreExplained
    BY <1>3, <1>4, <1>5, <1>6, <1>7, <1>8 DEF Reports!DiscrepanciesAreExplained, AllActive
  <1> QED BY <1>9 DEF ReportsAreExplained

\* Where the fee pool exists, the figures of every report that has been answered differ by
\* what was committed while its queries ran and by no more.
THEOREM ReportsExplained ==
    ASSUME HasFeePool
    PROVE  Spec => []ReportsAreExplained
  <1>1. Init => ReportKept
    BY ReportKeptInit
  <1>2. PlatformInv /\ ReportKept /\ [Next]_vars /\ Totalled' => ReportKept'
    <2> SUFFICES ASSUME PlatformInv, ReportKept, [Next]_vars, Totalled' PROVE ReportKept'
      OBVIOUS
    <2>1. Books' /\ Grows
      BY BooksNext DEF ReportKept
    <2>2. CASE UNCHANGED report
      BY <2>1, <2>2, ReportWaits
    <2>3. CASE Reports!Next
      BY <2>1, <2>3, ReportMoves
    <2>4. UNCHANGED report \/ Reports!Next
      BY DEF Next, vars
    <2> QED BY <2>2, <2>3, <2>4
  <1>3. PlatformInv /\ ReportKept => ReportsAreExplained
    BY KeptExplains
  <1> QED BY <1>1, <1>2, <1>3, TotalsNow, PlatformInvHolds, PTL DEF Spec
=============================================================================
