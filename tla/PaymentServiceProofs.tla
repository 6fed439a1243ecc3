------------------------- MODULE PaymentServiceProofs -------------------------
(***************************************************************************)
(* Proofs about PaymentService for any wallets, orders, calls and crashes: *)
(* its type invariant, that what a transaction has judged stays true until *)
(* it commits, that no wallet is overdrawn, that no key settles twice, and *)
(* that it implements the atomic transfers of module Transfers.            *)
(***************************************************************************)
EXTENDS PaymentService, WalletDbProofs, TLAPS

LEMMA TypeInit == Init => TypeOK
  <1> SUFFICES ASSUME Init PROVE TypeOK
    OBVIOUS
  <1>1. /\ Opening \in [Wallets -> Nat] /\ InitialStatus \in [Wallets -> Statuses]
    BY MoneyAssumption DEF MoneyAssumption
  <1>2. balance \in [Wallets -> Int] /\ status \in [Wallets -> Statuses]
    BY <1>1 DEF Init, DbInit
  <1>3. DbTypeOK
    BY <1>2 DEF Init, DbInit, DbTypeOK, CallOrNone
  <1> QED BY <1>3, CrashAssumption DEF Init, DbInit, TypeOK, Labels, CrashAssumption

\* The read balances are those of typed wallets, and a fee pool's movement is an
\* integer.
LEMMA SeenType ==
    ASSUME DbTypeOK, NEW c \in Calls
    PROVE  /\ order[c] \in Orders
           /\ balance[order[c].sender] \in Int /\ balance[order[c].receiver] \in Int
           /\ HasFeePool => balance[FeePool] + Movement(order[c], FeePool) - FeeOf(order[c]) \in Int
           /\ seen[c].sender \in Int /\ seen[c].receiver \in Int /\ seen[c].pool \in Int
  <1>1. order[c] \in Orders /\ balance \in [Wallets -> Int]
    BY DEF DbTypeOK
  <1>2. balance[order[c].sender] \in Int /\ balance[order[c].receiver] \in Int
    BY <1>1, OrderFields
  <1>3. HasFeePool => balance[FeePool] + Movement(order[c], FeePool) - FeeOf(order[c]) \in Int
    BY <1>1, MovementBounds, FeeIsNat DEF HasFeePool
  <1>4. seen[c].sender \in Int /\ seen[c].receiver \in Int /\ seen[c].pool \in Int
    BY DEF DbTypeOK
  <1> QED BY <1>1, <1>2, <1>3, <1>4

\* Each step of a handler keeps the types.
LEMMA TypeHandle ==
    ASSUME TypeOK, NEW c \in Calls, Handle(c)
    PROVE  TypeOK'
  <1> USE DEF TypeOK, Goto, Answer, Labels, InTransaction, HasLocks, calls, tables, locks, paymentVars
  <1>0. order[c] \in Orders
    BY DEF DbTypeOK
  <1>1. CASE CheckKey(c)
    BY <1>1 DEF CheckKey, DbTypeOK
  <1>2. CASE Screen(c)
    BY <1>2 DEF Screen, DbTypeOK
  <1>3. CASE LockFirst(c)
    <2>1. rowLock' \in [Wallets -> CallOrNone]
      BY <1>3, LockRowType DEF LockFirst, DbTypeOK
    <2> QED BY <1>3, <2>1 DEF LockFirst, DbTypeOK
  <1>4. CASE LockSecond(c)
    <2>1. seen' \in [Calls -> [sender : Int, receiver : Int, pool : Int]]
      BY <1>4, SeenType DEF LockSecond, DbTypeOK, SeenBalances
    <2>2. CASE StatusAllows(status, order[c]) /\ Covered(balance, order[c])
      <3>1. LockRow(c, SecondRow(order[c]))
        BY <1>4, <2>2 DEF LockSecond
      <3>2. rowLock' \in [Wallets -> CallOrNone]
        BY <3>1, LockRowType DEF DbTypeOK
      <3> QED BY <1>4, <2>1, <2>2, <3>2 DEF LockSecond, DbTypeOK
    <2>3. CASE ~ (StatusAllows(status, order[c]) /\ Covered(balance, order[c]))
      <3>1. ReleaseAll({c}) /\ Answer(c, "rejected")
        BY <1>4, <2>3 DEF LockSecond, Rollback
      <3> QED BY <1>4, <2>1, <3>1, ReleaseType DEF LockSecond, DbTypeOK
    <2> QED BY <2>2, <2>3
  <1>5. CASE InsertRows(c)
    <2>1. CASE KeyTaken(order[c]) \/ ~ CreditKeyFits(order[c])
      <3>1. ReleaseAll({c}) /\ Answer(c, "error")
        BY <1>5, <2>1 DEF InsertRows, Rollback
      <3> QED BY <1>5, <3>1, ReleaseType DEF InsertRows, DbTypeOK
    <2>2. CASE ~ (KeyTaken(order[c]) \/ ~ CreditKeyFits(order[c]))
      <3>1. keyLock' \in [Flows \X Keys -> CallOrNone]
        BY <1>5, <2>2, <1>0, OrderFields DEF InsertRows, DbTypeOK, CallOrNone
      <3> QED BY <1>5, <2>2, <3>1 DEF InsertRows, DbTypeOK
    <2> QED BY <2>1, <2>2
  <1>6. CASE ReadFeePool(c)
    <2>1. seen' \in [Calls -> SeenRecord]
      <3>1. seen \in [Calls -> SeenRecord]
        BY DEF DbTypeOK, SeenRecord
      <3>2. CASE HasFeePool
        <4> DEFINE x == balance[FeePool] + Movement(order[c], FeePool) - FeeOf(order[c])
        <4>1. x \in Int
          BY <3>2, SeenType
        <4>2. seen' = [seen EXCEPT ![c] = [@ EXCEPT !.pool = x]]
          BY <1>6, <3>2 DEF ReadFeePool
        <4> HIDE DEF x
        <4> QED BY <3>1, <4>1, <4>2, SeenPool
      <3>3. CASE ~ HasFeePool
        BY <1>6, <3>1, <3>3 DEF ReadFeePool
      <3> QED BY <3>2, <3>3
    <2> QED BY <1>6, <2>1 DEF ReadFeePool, DbTypeOK, SeenRecord
  <1>7. CASE UpdateFeePool(c)
    <2>1. rowLock' \in [Wallets -> CallOrNone]
      BY <1>7, LockRowType DEF UpdateFeePool, DbTypeOK
    <2> QED BY <1>7, <2>1 DEF UpdateFeePool, DbTypeOK
  <1>8. CASE WriteAuditLog(c)
    BY <1>8 DEF WriteAuditLog, DbTypeOK, CallOrNone
  <1>9. CASE Commit(c)
    <2>1. balance' \in [Wallets -> Int]
      BY <1>9, <1>0, SettledType DEF Commit, DbTypeOK
    <2>2. rows' \subseteq RowType
      BY <1>9, <1>0, WritesType, SeenType DEF Commit, DbTypeOK
    <2>3. ledger' \subseteq EntryType
      BY <1>9, <1>0, WritesType, SeenType DEF Commit, DbTypeOK
    <2>4. audited' \subseteq (Flows \X Keys) \cup ({"suspend"} \X Wallets)
      BY <1>9, <1>0, OrderFields DEF Commit, DbTypeOK
    <2>5. /\ rowLock' \in [Wallets -> CallOrNone]
          /\ keyLock' \in [Flows \X Keys -> CallOrNone]
          /\ auditLock' \in CallOrNone
      BY <1>9, ReleaseType DEF Commit
    <2>6. DbTypeOK'
      BY <1>9, <2>1, <2>2, <2>3, <2>4, <2>5 DEF Commit, DbTypeOK
    <2> QED BY <1>9, <2>6 DEF Commit
  <1>10. CASE Respond(c)
    <2>1. KeyOf(order[c]) \in Flows \X Keys
      BY <1>0, OrderFields
    <2> QED BY <1>10, <2>1 DEF Respond, DbTypeOK
  <1> QED
    BY <1>1, <1>2, <1>3, <1>4, <1>5, <1>6, <1>7, <1>8, <1>9, <1>10 DEF Handle

LEMMA TypeNext == TypeOK /\ [Next]_vars => TypeOK'
  <1> SUFFICES ASSUME TypeOK, [Next]_vars PROVE TypeOK'
    OBVIOUS
  <1>1. ASSUME NEW c \in Calls, Handle(c) PROVE TypeOK'
    BY <1>1, TypeHandle
  <1>2. ASSUME NEW c \in Calls, Timeout(c) PROVE TypeOK'
    <2>1. ReleaseAll({c}) /\ Answer(c, "error")
      BY <1>2 DEF Timeout, Rollback
    <2> QED BY <1>2, <2>1, ReleaseType
            DEF TypeOK, DbTypeOK, Timeout, Answer, Goto, Labels, tables, paymentVars
  <1>3. ASSUME NEW k \in amlPending, ResolveEnqueue(k) PROVE TypeOK'
    BY <1>3 DEF TypeOK, DbTypeOK, ResolveEnqueue, tables, locks, calls
  <1>4. CASE Crash
    <2>1. ReleaseAll({c \in Calls : InFlight(c)})
      BY <1>4 DEF Crash
    <2>2. crashes' \in 0 .. MaxCrashes
      BY <1>4, CrashAssumption DEF Crash, TypeOK
    <2> QED BY <1>4, <2>1, <2>2, ReleaseType DEF TypeOK, DbTypeOK, Crash, Labels, tables
  <1>5. CASE Operator
    <2>1. status' \in [Wallets -> Statuses]
      BY <1>5 DEF Operator, RestrictAny, RestrictWallet, TypeOK, DbTypeOK, Statuses
    <2> QED BY <1>5, <2>1 DEF Operator, RestrictAny, RestrictWallet, TypeOK, DbTypeOK,
                              locks, calls, paymentVars
  <1>6. CASE UNCHANGED vars
    BY <1>6 DEF TypeOK, DbTypeOK, vars, tables, locks, calls, paymentVars
  <1> QED BY <1>1, <1>2, <1>3, <1>4, <1>5, <1>6 DEF Next, PaymentNext

\* The variables of the database and of the handlers have their types.
THEOREM TypeCorrect == Spec => []TypeOK
  BY TypeInit, TypeNext, PTL DEF Spec
(***************************************************************************)
(* Locks. A transaction holds the rows, the key and the fee pool that its  *)
(* place in the handler says it has locked, and nobody takes them from it. *)
(***************************************************************************)
Inserted == {"readPool", "lockPool", "audit", "commit"}

HoldsLocks(c) ==
    /\ order[c].flow # "payment" => pc[c] = "idle"
    /\ pc[c] \in HasLocks => rowLock[FirstRow(order[c])] = c
    /\ pc[c] \in HasChecked => rowLock[SecondRow(order[c])] = c
    /\ pc[c] \in Inserted => keyLock[KeyOf(order[c])] = c
    /\ pc[c] = "lockPool" => HasFeePool
    /\ pc[c] \in {"audit", "commit"} /\ HasFeePool => rowLock[FeePool] = c

LocksHeld == \A c \in Calls : HoldsLocks(c)

\* A step of one call leaves the place, the locks and the readings of the others.
Untouched(d) ==
    /\ pc'[d] = pc[d] /\ order'[d] = order[d] /\ seen'[d] = seen[d] /\ reply'[d] = reply[d]
    /\ \A v \in Wallets : rowLock[v] = d => rowLock'[v] = d
    /\ \A k \in Flows \X Keys : keyLock[k] = d => keyLock'[k] = d

LEMMA OthersUntouched ==
    ASSUME TypeOK, NEW c \in Calls, Handle(c) \/ Timeout(c), NEW d \in Calls, d # c
    PROVE  Untouched(d)
  <1> USE DEF Untouched, Goto, Answer, calls, tables, locks, paymentVars
  <1>0. /\ pc \in [Calls -> Labels] /\ order[c] \in Orders /\ seen \in [Calls -> SeenRecord]
        /\ reply \in [Calls -> {"none", "created", "replayed", "rejected", "error"}]
        /\ DbTypeOK
    BY DEF TypeOK, DbTypeOK, SeenRecord
  <1>1. CASE CheckKey(c)
    BY <1>0, <1>1 DEF CheckKey
  <1>2. CASE Screen(c)
    BY <1>0, <1>2 DEF Screen
  <1>3. CASE LockFirst(c)
    BY <1>0, <1>3, OrderFields, LockRowKeeps DEF LockFirst
  <1>4. CASE LockSecond(c)
    <2>1. pc'[d] = pc[d] /\ order' = order /\ seen'[d] = seen[d] /\ reply'[d] = reply[d]
      BY <1>0, <1>4 DEF LockSecond, Rollback
    <2>2. CASE LockRow(c, SecondRow(order[c])) /\ UNCHANGED keyLock
      BY <1>0, <2>1, <2>2, OrderFields, LockRowKeeps
    <2>3. CASE ReleaseAll({c})
      BY <2>1, <2>3, ReleaseKeeps
    <2> QED BY <1>4, <2>2, <2>3 DEF LockSecond, Rollback
  <1>5. CASE InsertRows(c)
    <2>1. pc'[d] = pc[d] /\ order' = order /\ seen' = seen /\ reply'[d] = reply[d]
      BY <1>0, <1>5 DEF InsertRows, Rollback
    <2>2. CASE keyLock' = [keyLock EXCEPT ![KeyOf(order[c])] = c] /\ UNCHANGED rowLock
      BY <1>5, <2>1, <2>2, CallAssumption DEF InsertRows, CallAssumption, TypeOK, DbTypeOK
    <2>3. CASE ReleaseAll({c})
      BY <2>1, <2>3, ReleaseKeeps
    <2> QED BY <1>5, <2>2, <2>3 DEF InsertRows, Rollback
  <1>6. CASE ReadFeePool(c)
    BY <1>0, <1>6 DEF ReadFeePool
  <1>7. CASE UpdateFeePool(c)
    <2>1. CASE FeePool \in Wallets
      BY <1>0, <1>7, <2>1, LockRowKeeps DEF UpdateFeePool
    <2>2. CASE FeePool \notin Wallets
      BY <1>0, <1>7, <2>2 DEF UpdateFeePool, LockRow, TypeOK, DbTypeOK
    <2> QED BY <2>1, <2>2
  <1>8. CASE WriteAuditLog(c)
    BY <1>0, <1>8 DEF WriteAuditLog
  <1>9. CASE Commit(c)
    <2>1. pc'[d] = pc[d] /\ order' = order /\ seen' = seen /\ reply' = reply
      BY <1>0, <1>9 DEF Commit
    <2> QED BY <1>9, <2>1, ReleaseKeeps DEF Commit
  <1>10. CASE Respond(c)
    BY <1>0, <1>10 DEF Respond
  <1>11. CASE Timeout(c)
    <2>1. pc'[d] = pc[d] /\ order' = order /\ seen' = seen /\ reply'[d] = reply[d]
      BY <1>0, <1>11 DEF Timeout, Rollback
    <2> QED BY <1>11, <2>1, ReleaseKeeps DEF Timeout, Rollback
  <1> QED BY <1>1, <1>2, <1>3, <1>4, <1>5, <1>6, <1>7, <1>8, <1>9, <1>10, <1>11 DEF Handle
\* The step of a call leaves it with the locks of its new place.
LEMMA OwnLocks ==
    ASSUME TypeOK, LocksHeld, NEW c \in Calls, Handle(c) \/ Timeout(c)
    PROVE  HoldsLocks(c)'
  <1> USE DEF HoldsLocks, Goto, Answer, HasLocks, HasChecked, Inserted, At,
              calls, tables, locks, paymentVars
  <1>0. /\ pc \in [Calls -> Labels] /\ order[c] \in Orders
        /\ FirstRow(order[c]) \in Wallets /\ SecondRow(order[c]) \in Wallets
        /\ KeyOf(order[c]) \in Flows \X Keys
        /\ HoldsLocks(c) /\ DbTypeOK
    BY OrderFields DEF TypeOK, DbTypeOK, LocksHeld
  <1>1. CASE CheckKey(c)
    BY <1>0, <1>1 DEF CheckKey
  <1>2. CASE Screen(c)
    BY <1>0, <1>2 DEF Screen
  <1>3. CASE LockFirst(c)
    BY <1>0, <1>3, LockRowKeeps DEF LockFirst
  <1>4. CASE LockSecond(c)
    <2>1. CASE LockRow(c, SecondRow(order[c])) /\ Goto(c, "insert")
      <3>1. rowLock'[SecondRow(order[c])] = c /\ rowLock'[FirstRow(order[c])] = c
        BY <1>0, <1>4, <2>1, LockRowKeeps DEF LockSecond
      <3> QED BY <1>0, <1>4, <2>1, <3>1 DEF LockSecond
    <2>2. CASE Answer(c, "rejected")
      BY <1>0, <1>4, <2>2 DEF LockSecond
    <2> QED BY <1>4, <2>1, <2>2 DEF LockSecond, Rollback
  <1>5. CASE InsertRows(c)
    <2>1. CASE keyLock' = [keyLock EXCEPT ![KeyOf(order[c])] = c] /\ Goto(c, "readPool")
      <3>1. keyLock'[KeyOf(order[c])] = c /\ rowLock' = rowLock
        BY <1>0, <1>5, <2>1 DEF InsertRows, TypeOK, DbTypeOK, Rollback
      <3> QED BY <1>0, <1>5, <2>1, <3>1 DEF InsertRows
    <2>2. CASE Answer(c, "error")
      BY <1>0, <1>5, <2>2 DEF InsertRows
    <2> QED BY <1>5, <2>1, <2>2 DEF InsertRows, Rollback
  <1>6. CASE ReadFeePool(c)
    BY <1>0, <1>6 DEF ReadFeePool
  <1>7. CASE UpdateFeePool(c)
    <2>1. FeePool \in Wallets
      BY <1>0, <1>7 DEF UpdateFeePool, HasFeePool
    <2>2. LockRow(c, FeePool) /\ pc[c] = "lockPool"
      BY <1>7 DEF UpdateFeePool
    <2>3. rowLock'[FeePool] = c
      BY <1>0, <2>1, <2>2, LockRowKeeps
    <2>4. rowLock'[FirstRow(order[c])] = c /\ rowLock'[SecondRow(order[c])] = c
      BY <1>0, <2>1, <2>2, LockRowKeeps
    <2> QED BY <1>0, <1>7, <2>3, <2>4 DEF UpdateFeePool
  <1>8. CASE WriteAuditLog(c)
    <2>1. HasFeePool => rowLock[FeePool] = c
      BY <1>0, <1>8 DEF WriteAuditLog
    <2> QED BY <1>0, <1>8, <2>1 DEF WriteAuditLog
  <1>9. CASE Commit(c)
    BY <1>0, <1>9 DEF Commit
  <1>10. CASE Respond(c)
    BY <1>0, <1>10 DEF Respond
  <1>11. CASE Timeout(c)
    BY <1>0, <1>11 DEF Timeout, Rollback
  <1> QED BY <1>1, <1>2, <1>3, <1>4, <1>5, <1>6, <1>7, <1>8, <1>9, <1>10, <1>11 DEF Handle

LEMMA LocksInit == Init => LocksHeld
  BY DEF Init, DbInit, LocksHeld, HoldsLocks, HasLocks, HasChecked, Inserted

LEMMA LocksNext == TypeOK /\ LocksHeld /\ [Next]_vars => LocksHeld'
  <1> SUFFICES ASSUME TypeOK, LocksHeld, [Next]_vars, NEW d \in Calls
               PROVE  HoldsLocks(d)'
    BY DEF LocksHeld
  <1>0. /\ HoldsLocks(d)
        /\ FirstRow(order[d]) \in Wallets /\ SecondRow(order[d]) \in Wallets
        /\ KeyOf(order[d]) \in Flows \X Keys
    BY OrderFields DEF TypeOK, DbTypeOK, LocksHeld
  <1>1. ASSUME NEW c \in Calls, Handle(c) \/ Timeout(c) PROVE HoldsLocks(d)'
    <2>1. CASE c = d
      BY <1>1, <2>1, OwnLocks
    <2>2. CASE c # d
      <3>1. Untouched(d)
        BY <1>1, <2>2, OthersUntouched
      <3> QED BY <1>0, <3>1 DEF Untouched, HoldsLocks, HasFeePool
    <2> QED BY <2>1, <2>2
  <1>2. ASSUME NEW k \in amlPending, ResolveEnqueue(k) PROVE HoldsLocks(d)'
    BY <1>0, <1>2 DEF ResolveEnqueue, HoldsLocks, calls, locks
  <1>3. CASE Crash
    <2>1. CASE InFlight(d)
      <3>1. pc'[d] = "lost" /\ order'[d] = order[d]
        BY <1>3, <2>1 DEF Crash
      <3> QED BY <2>1, <3>1 DEF HoldsLocks, InFlight, HasLocks, HasChecked, Inserted
    <2>2. CASE ~ InFlight(d)
      <3>1. pc'[d] = pc[d] /\ order'[d] = order[d]
        BY <1>3, <2>2 DEF Crash
      <3>2. pc[d] \in {"idle", "done", "lost"}
        BY <1>0, <2>2 DEF InFlight, HoldsLocks
      <3> QED BY <1>0, <3>1, <3>2 DEF HoldsLocks, HasLocks, HasChecked, Inserted
    <2> QED BY <2>1, <2>2
  <1>4. CASE Operator
    BY <1>0, <1>4 DEF Operator, RestrictAny, RestrictWallet, HoldsLocks, calls, locks
  <1>5. CASE UNCHANGED vars
    BY <1>0, <1>5 DEF HoldsLocks, vars, calls, locks
  <1> QED BY <1>1, <1>2, <1>3, <1>4, <1>5 DEF Next, PaymentNext
(***************************************************************************)
(* Judgements. What a transaction has judged under its locks stays true.   *)
(***************************************************************************)
Judged(c) ==
    order[c].flow = "payment" /\ pc[c] \in HasChecked =>
        /\ seen[c].sender = balance[order[c].sender]
        /\ seen[c].receiver = balance[order[c].receiver]
        /\ Covered(balance, order[c])
        /\ StatusAllows(status, order[c])

\* A transaction past its judgement has both wallets of its order locked.
LEMMA PartiesLocked ==
    ASSUME TypeOK, LocksHeld, NEW c \in Calls, pc[c] \in HasChecked
    PROVE  /\ order[c] \in Orders /\ order[c].flow = "payment"
           /\ order[c].sender \in Wallets /\ order[c].receiver \in Wallets
           /\ rowLock[order[c].sender] = c /\ rowLock[order[c].receiver] = c
  <1>1. order[c] \in Orders /\ HoldsLocks(c)
    BY DEF TypeOK, DbTypeOK, LocksHeld
  <1>2. rowLock[FirstRow(order[c])] = c /\ rowLock[SecondRow(order[c])] = c
    BY <1>1 DEF HoldsLocks, HasChecked
  <1>3. order[c].flow = "payment"
    BY <1>1 DEF HoldsLocks, HasChecked, HasLocks
  <1> QED BY <1>1, <1>2, <1>3, OrderFields DEF FirstRow, SecondRow, LockOrder

\* A commit moves no money of a wallet that another call has locked.
LEMMA CommitIsLocal ==
    ASSUME TypeOK, LocksHeld, NEW c \in Calls, Commit(c),
           NEW w \in Wallets, rowLock[w] \in Calls \ {c}
    PROVE  balance'[w] = balance[w]
  <1>1. /\ order[c] \in Orders /\ rowLock[order[c].sender] = c /\ rowLock[order[c].receiver] = c
    BY PartiesLocked DEF Commit, At, HasChecked, HasLocks
  <1>2. HasFeePool => rowLock[FeePool] = c
    BY DEF Commit, At, LocksHeld, HoldsLocks
  <1>3. w \notin {order[c].sender, order[c].receiver, FeePool}
    BY <1>1, <1>2 DEF HasFeePool
  <1>4. Movement(order[c], w) = 0
    BY <1>1, <1>3, MovementBounds
  <1>5. balance'[w] = balance[w] + Movement(order[c], w) /\ balance[w] \in Int
    BY <1>1, SettledType DEF Commit, TypeOK, DbTypeOK
  <1> QED BY <1>4, <1>5

LEMMA JudgedHandle ==
    ASSUME TypeOK, LocksHeld, NEW c \in Calls, Handle(c) \/ Timeout(c),
           NEW d \in Calls, Judged(d)
    PROVE  Judged(d)'
  <1> USE DEF Judged
  <1>0. /\ pc \in [Calls -> Labels] /\ order[d] \in Orders /\ seen \in [Calls -> SeenRecord]
    BY DEF TypeOK, DbTypeOK, SeenRecord
  <1>1. CASE c # d
    <2>1. pc'[d] = pc[d] /\ order'[d] = order[d] /\ seen'[d] = seen[d]
      BY <1>1, OthersUntouched DEF Untouched
    <2>2. CASE Commit(c) /\ pc[d] \in HasChecked
      <3>1. /\ order[d].sender \in Wallets /\ order[d].receiver \in Wallets
            /\ rowLock[order[d].sender] = d /\ rowLock[order[d].receiver] = d
        BY <2>2, PartiesLocked
      <3>2. /\ balance'[order[d].sender] = balance[order[d].sender]
            /\ balance'[order[d].receiver] = balance[order[d].receiver]
            /\ status' = status
        BY <1>1, <2>2, <3>1, CommitIsLocal DEF Commit
      <3> QED BY <2>1, <3>2 DEF Covered, StatusAllows
    <2>3. CASE pc[d] \notin HasChecked
      BY <2>1, <2>3
    <2>4. CASE ~ Commit(c)
      <3>1. balance' = balance /\ status' = status
        BY <2>4 DEF Handle, CheckKey, Screen, LockFirst, LockSecond, InsertRows, ReadFeePool,
                    UpdateFeePool, WriteAuditLog, Respond, Timeout, tables
      <3> QED BY <2>1, <3>1
    <2> QED BY <2>2, <2>3, <2>4
  <1>2. CASE c = d
    <2> USE DEF HasChecked, HasLocks, Goto, Answer, At, tables, locks, calls
    <2>1. CASE LockSecond(d)
      <3>1. CASE StatusAllows(status, order[d]) /\ Covered(balance, order[d])
        <4>1. seen'[d] = SeenBalances(order[d]) /\ balance' = balance /\ status' = status
              /\ order' = order
          BY <1>0, <2>1 DEF LockSecond
        <4> QED BY <3>1, <4>1 DEF SeenBalances
      <3>2. CASE ~ (StatusAllows(status, order[d]) /\ Covered(balance, order[d]))
        BY <1>0, <2>1, <3>2 DEF LockSecond, Rollback
      <3> QED BY <3>1, <3>2
    <2>2. CASE ReadFeePool(d)
      <3>1. balance' = balance /\ status' = status /\ order' = order /\ pc[d] \in HasChecked
        BY <2>2 DEF ReadFeePool
      <3>2. seen'[d].sender = seen[d].sender /\ seen'[d].receiver = seen[d].receiver
        <4>1. CASE HasFeePool
          <5> DEFINE x == balance[FeePool] + Movement(order[d], FeePool) - FeeOf(order[d])
          <5>1. x \in Int
            BY <4>1, SeenType DEF TypeOK
          <5>2. seen' = [seen EXCEPT ![d] = [@ EXCEPT !.pool = x]]
            BY <2>2, <4>1 DEF ReadFeePool
          <5> HIDE DEF x
          <5> QED BY <1>0, <5>1, <5>2, SeenPool
        <4>2. CASE ~ HasFeePool
          BY <2>2, <4>2 DEF ReadFeePool
        <4> QED BY <4>1, <4>2
      <3>3. order[d].flow = "payment"
        BY <2>2 DEF ReadFeePool
      <3> QED BY <3>1, <3>2, <3>3
    <2>3. CASE InsertRows(d)
      BY <1>0, <2>3 DEF InsertRows, Rollback
    <2>4. CASE UpdateFeePool(d) \/ WriteAuditLog(d)
      BY <1>0, <2>4 DEF UpdateFeePool, WriteAuditLog
    <2>5. CASE CheckKey(d) \/ Screen(d) \/ LockFirst(d) \/ Commit(d) \/ Respond(d) \/ Timeout(d)
      <3>1. pc'[d] \in {"done", "screen", "lockFirst", "lockSecond", "respond"}
        BY <1>0, <2>5 DEF CheckKey, Screen, LockFirst, Commit, Respond, Timeout, Rollback
      <3> QED BY <3>1
    <2> QED BY <1>2, <2>1, <2>2, <2>3, <2>4, <2>5 DEF Handle
  <1> QED BY <1>1, <1>2

LEMMA JudgedNext ==
    TypeOK /\ LocksHeld /\ LockedRowsAreCurrent /\ [Next]_vars => LockedRowsAreCurrent'
  <1> SUFFICES ASSUME TypeOK, LocksHeld, LockedRowsAreCurrent, [Next]_vars, NEW d \in Calls
               PROVE  Judged(d)'
    BY DEF LockedRowsAreCurrent, Judged
  <1>0. Judged(d)
    BY DEF LockedRowsAreCurrent, Judged
  <1>1. ASSUME NEW c \in Calls, Handle(c) \/ Timeout(c) PROVE Judged(d)'
    BY <1>0, <1>1, JudgedHandle
  <1>2. ASSUME NEW k \in amlPending, ResolveEnqueue(k) PROVE Judged(d)'
    BY <1>0, <1>2 DEF ResolveEnqueue, Judged, calls, tables
  <1>3. CASE Crash
    <2>1. CASE InFlight(d)
      <3>1. pc'[d] = "lost"
        BY <1>3, <2>1 DEF Crash
      <3> QED BY <3>1 DEF Judged, HasChecked, HasLocks
    <2>2. CASE ~ InFlight(d)
      <3>1. pc'[d] = pc[d] /\ UNCHANGED <<balance, status, order, seen>>
        BY <1>3, <2>2 DEF Crash, tables
      <3> QED BY <1>0, <3>1 DEF Judged
    <2> QED BY <2>1, <2>2
  <1>4. CASE Operator
    <2>1. UNCHANGED <<balance, order, seen, pc>>
      BY <1>4 DEF Operator, RestrictAny, RestrictWallet, calls
    <2>2. CASE pc[d] \in HasChecked
      <3>1. PICK w \in Watched, s \in {"SUSPENDED", "FROZEN"} : RestrictWallet(w, s)
        BY <1>4 DEF Operator, RestrictAny
      <3>2. /\ order[d].sender \in Wallets /\ order[d].receiver \in Wallets
            /\ rowLock[order[d].sender] = d /\ rowLock[order[d].receiver] = d
        BY <2>2, PartiesLocked
      <3>3. /\ status'[order[d].sender] = status[order[d].sender]
            /\ status'[order[d].receiver] = status[order[d].receiver]
        BY <3>1, <3>2, CallAssumption DEF RestrictWallet, CallAssumption, TypeOK, DbTypeOK
      <3> QED BY <1>0, <2>1, <3>3 DEF Judged, StatusAllows
    <2>3. CASE pc[d] \notin HasChecked
      BY <2>1, <2>3 DEF Judged
    <2> QED BY <2>2, <2>3
  <1>5. CASE UNCHANGED vars
    BY <1>0, <1>5 DEF Judged, vars, calls, tables
  <1> QED BY <1>1, <1>2, <1>3, <1>4, <1>5 DEF Next, PaymentNext
(***************************************************************************)
(* Money and keys. No commit overdraws a wallet, and while a transaction   *)
(* has inserted its key, nobody else commits one.                          *)
(***************************************************************************)
KeyReserved(c) == pc[c] \in Inserted => ~ KeyTaken(order[c]) /\ CreditKeyFits(order[c])

KeysReserved == \A c \in Calls : KeyReserved(c)

\* Only payments write rows here, and their keys were short enough.
RowsArePayments == \A r \in rows : r.flow = "payment" /\ KeyLength[r.key] <= 29

\* The balance of a sender was judged under the lock that the commit still holds.
LEMMA CommitCovered ==
    ASSUME TypeOK, LocksHeld, LockedRowsAreCurrent, NoOverdraft, NEW c \in Calls, Commit(c)
    PROVE  NoOverdraft'
  <1> SUFFICES ASSUME NEW w \in Wallets PROVE balance'[w] >= 0
    BY DEF NoOverdraft
  <1>1. /\ order[c] \in Orders /\ Covered(balance, order[c])
    BY PartiesLocked DEF Commit, At, HasChecked, HasLocks, LockedRowsAreCurrent
  <1>2. /\ balance'[w] = balance[w] + Movement(order[c], w) /\ balance[w] \in Int
    BY <1>1, SettledType DEF Commit, TypeOK, DbTypeOK
  <1>3. balance[w] >= 0 /\ TotalDebit(order[c]) \in Nat
    BY <1>1, FeeIsNat DEF NoOverdraft
  <1>4. CASE w = order[c].sender
    BY <1>1, <1>2, <1>3, <1>4, MovementBounds DEF Covered
  <1>5. CASE w # order[c].sender
    BY <1>1, <1>2, <1>3, <1>5, MovementBounds
  <1> QED BY <1>4, <1>5

\* Which actions write the rows of wallet_transactions: the commits.
LEMMA OnlyCommitsWrite ==
    ASSUME [Next]_vars
    PROVE  \/ UNCHANGED <<balance, rows>>
           \/ \E c \in Calls : Commit(c)
  BY DEF Next, PaymentNext, Handle, CheckKey, Screen, LockFirst, LockSecond, InsertRows,
         ReadFeePool, UpdateFeePool, WriteAuditLog, Respond, ResolveEnqueue, Timeout, Crash,
         Operator, RestrictAny, RestrictWallet, tables, vars

LEMMA OverdraftNext ==
    TypeOK /\ LocksHeld /\ LockedRowsAreCurrent /\ NoOverdraft /\ [Next]_vars => NoOverdraft'
  BY OnlyCommitsWrite, CommitCovered DEF NoOverdraft

\* The debit rows after a commit are those before it and the one of the order.
LEMMA CommitRows ==
    ASSUME NEW c \in Calls, Commit(c)
    PROVE  LET o == order[c] IN
           /\ \A r \in rows' \ rows : r.flow = o.flow /\ r.key = o.key
           /\ \A r \in rows' \ rows : r.kind = "DEBIT" => r = DebitRow(o, seen[c].sender)
           /\ rows \subseteq rows' /\ DebitRow(o, seen[c].sender) \in rows'
           /\ DebitRow(o, seen[c].sender).kind = "DEBIT"
  BY DEF Commit, DebitRow, CreditRow, FeeRow, Row

\* Before the commit of another call, its key was locked and not ours.
LEMMA KeysNext ==
    ASSUME TypeOK, LocksHeld, KeysReserved, RowsArePayments, [Next]_vars
    PROVE  KeysReserved' /\ RowsArePayments'
  <1>1. CASE \E c \in Calls : Commit(c)
    <2>1. PICK c \in Calls : Commit(c)
      BY <1>1
    <2>2. /\ order[c] \in Orders /\ order[c].flow = "payment" /\ pc[c] = "commit"
          /\ KeyReserved(c) /\ keyLock[KeyOf(order[c])] = c
          /\ order' = order /\ pc' = [pc EXCEPT ![c] = "respond"]
      BY <2>1 DEF Commit, At, Goto, TypeOK, DbTypeOK, KeysReserved, LocksHeld, HoldsLocks, Inserted
    <2>3. RowsArePayments'
      <3>1. KeyLength[order[c].key] <= 29
        <4>1. KeyLength[order[c].key] \in Nat
          BY <2>2, OrderFields, MoneyAssumption DEF MoneyAssumption, KeyColumnWidth
        <4> QED BY <2>2, <4>1 DEF KeyReserved, CreditKeyFits, Inserted, KeyColumnWidth
      <3> QED BY <2>1, <2>2, <3>1, CommitRows DEF RowsArePayments
    <2>4. ASSUME NEW d \in Calls PROVE KeyReserved(d)'
      <3>1. CASE d = c
        BY <2>2, <3>1 DEF KeyReserved, Inserted, TypeOK
      <3>2. CASE d # c /\ pc[d] \in Inserted
        <4>1. keyLock[KeyOf(order[d])] = d /\ KeyReserved(d)
          BY <3>2 DEF LocksHeld, HoldsLocks, KeysReserved
        <4>2. ~ SameKey(order[c], order[d])
          BY <2>2, <3>2, <4>1 DEF SameKey, KeyOf
        <4>3. ~ KeyTaken(order[d])'
          <5>1. ASSUME NEW r \in rows', r.kind = "DEBIT" PROVE ~ SameKey(r, order[d])
            <6>1. CASE r \in rows
              BY <3>2, <4>1, <5>1, <6>1 DEF KeyReserved, KeyTaken
            <6>2. CASE r \notin rows
              BY <2>1, <4>2, <5>1, <6>2, CommitRows DEF SameKey
            <6> QED BY <6>1, <6>2
          <5> QED BY <2>2, <5>1 DEF KeyTaken
        <4> QED BY <2>2, <3>2, <4>1, <4>3 DEF KeyReserved, CreditKeyFits
      <3>3. CASE d # c /\ pc[d] \notin Inserted
        BY <2>2, <3>3 DEF KeyReserved, TypeOK
      <3> QED BY <3>1, <3>2, <3>3
    <2> QED BY <2>3, <2>4 DEF KeysReserved
  <1>2. CASE UNCHANGED rows
    <2>1. RowsArePayments'
      BY <1>2 DEF RowsArePayments
    <2>2. ASSUME NEW d \in Calls PROVE KeyReserved(d)'
      <3>0. KeyReserved(d) /\ pc \in [Calls -> Labels]
        BY DEF KeysReserved, TypeOK
      <3>1. CASE pc'[d] = pc[d] /\ order'[d] = order[d]
        BY <1>2, <3>0, <3>1 DEF KeyReserved, KeyTaken, CreditKeyFits
      <3>2. CASE pc'[d] \notin Inserted
        BY <3>2 DEF KeyReserved
      <3>3. ASSUME Handle(d) \/ Timeout(d) PROVE KeyReserved(d)'
        <4> USE <3>0 DEF Goto, Answer, At, Inserted
        <4>1. CASE CheckKey(d) \/ Screen(d) \/ LockFirst(d) \/ Commit(d) \/ Respond(d) \/ Timeout(d)
          <5>1. pc'[d] \in {"done", "screen", "lockFirst", "lockSecond", "respond"}
            BY <4>1 DEF CheckKey, Screen, LockFirst, Commit, Respond, Timeout, Rollback
          <5> QED BY <5>1, <3>2
        <4>2. CASE LockSecond(d)
          BY <4>2, <3>2 DEF LockSecond, Rollback
        <4>3. CASE InsertRows(d)
          <5>1. CASE KeyTaken(order[d]) \/ ~ CreditKeyFits(order[d])
            BY <4>3, <5>1, <3>2 DEF InsertRows, Rollback
          <5>2. CASE ~ KeyTaken(order[d]) /\ CreditKeyFits(order[d])
            BY <1>2, <4>3, <5>2 DEF InsertRows, KeyReserved, KeyTaken, CreditKeyFits
          <5> QED BY <5>1, <5>2
        <4>4. CASE ReadFeePool(d) \/ UpdateFeePool(d) \/ WriteAuditLog(d)
          <5>1. pc[d] \in Inserted /\ order' = order
            BY <4>4 DEF ReadFeePool, UpdateFeePool, WriteAuditLog
          <5> QED BY <1>2, <5>1 DEF KeyReserved, KeyTaken, CreditKeyFits
        <4> QED BY <3>3, <4>1, <4>2, <4>3, <4>4 DEF Handle
      <3>4. ASSUME NEW c \in Calls, c # d, Handle(c) \/ Timeout(c) PROVE KeyReserved(d)'
        BY <3>1, <3>4, OthersUntouched DEF Untouched
      <3>5. CASE Crash
        <4>1. pc'[d] \in {"lost", pc[d]} /\ order' = order
          BY <3>0, <3>5 DEF Crash
        <4> QED BY <3>1, <3>2, <4>1 DEF Inserted
      <3>6. CASE Operator \/ UNCHANGED vars \/ \E k \in amlPending : ResolveEnqueue(k)
        BY <3>1, <3>6 DEF Operator, RestrictAny, RestrictWallet, ResolveEnqueue, vars, calls
      <3> QED BY <3>3, <3>4, <3>5, <3>6 DEF Next, PaymentNext
    <2> QED BY <2>1, <2>2 DEF KeysReserved
  <1> QED BY <1>1, <1>2, OnlyCommitsWrite
(***************************************************************************)
(* The inductive invariant and its consequences.                           *)
(***************************************************************************)
IInv ==
    /\ TypeOK
    /\ LocksHeld
    /\ LockedRowsAreCurrent
    /\ NoOverdraft
    /\ KeysReserved
    /\ RowsArePayments

LEMMA IInvInit == Init => IInv
  <1> SUFFICES ASSUME Init PROVE IInv
    OBVIOUS
  <1>1. TypeOK /\ LocksHeld
    BY TypeInit, LocksInit
  <1>2. LockedRowsAreCurrent /\ KeysReserved /\ RowsArePayments
    BY DEF Init, DbInit, LockedRowsAreCurrent, HasChecked, HasLocks, KeysReserved,
           KeyReserved, Inserted, RowsArePayments
  <1>3. NoOverdraft
    BY MoneyAssumption DEF MoneyAssumption, Init, DbInit, NoOverdraft
  <1> QED BY <1>1, <1>2, <1>3 DEF IInv

LEMMA IInvNext == IInv /\ [Next]_vars => IInv'
  BY TypeNext, LocksNext, JudgedNext, OverdraftNext, KeysNext DEF IInv

THEOREM IInvHolds == Spec => []IInv
  BY IInvInit, IInvNext, PTL DEF Spec

\* What a transaction has read and judged under its locks stays true until it ends.
THEOREM JudgementsStayTrue == Spec => []LockedRowsAreCurrent
  <1>1. IInv => LockedRowsAreCurrent
    BY DEF IInv
  <1> QED BY <1>1, IInvHolds, PTL

\* Payments never overdraw a wallet, whoever else spends from it.
THEOREM NeverOverdrawn == Spec => []NoOverdraft
  <1>1. IInv => NoOverdraft
    BY DEF IInv
  <1> QED BY <1>1, IInvHolds, PTL

\* A payment with a key of 30 characters or more, such as a UUID, never settles.
THEOREM UuidKeysNeverSettle == Spec => []LongKeysNeverSettle
  <1>1. IInv => LongKeysNeverSettle
    BY DEF IInv, RowsArePayments, LongKeysNeverSettle
  <1> QED BY <1>1, IInvHolds, PTL

(***************************************************************************)
(* Refinement: each commit is one atomic transfer.                         *)
(***************************************************************************)
LEMMA CommitSettles ==
    ASSUME NEW c \in Calls, Commit(c), order[c] \in Orders
    PROVE  SettledOrders' = SettledOrders \cup {order[c]}
  <1> DEFINE D == {x \in rows : x.kind = "DEBIT"}
             r == DebitRow(order[c], seen[c].sender)
  <1>1. {x \in rows' : x.kind = "DEBIT"} = D \cup {r}
    BY CommitRows
  <1>2. OrderOf(r) = order[c]
    BY OrderOfDebit
  <1> QED BY <1>1, <1>2 DEF SettledOrders, OrderOf

\* Both levels mean the same by the operators of module Money.
LEMMA PromiseOperators ==
    ASSUME NEW o, NEW p, NEW st, NEW bal
    PROVE  /\ Promise!SameKey(p, o) <=> SameKey(p, o)
           /\ Promise!StatusAllows(st, o) <=> StatusAllows(st, o)
           /\ Promise!Covered(bal, o) <=> Covered(bal, o)
           /\ Promise!Settled(bal, o) = Settled(bal, o)
  <1>1. Promise!SameKey(p, o) <=> SameKey(p, o)
    BY DEF Promise!SameKey, SameKey
  <1>2. Promise!StatusAllows(st, o) <=> StatusAllows(st, o)
    BY DEF Promise!StatusAllows, StatusAllows
  <1>3. Promise!FeeOf(o) = FeeOf(o)
    BY DEF Promise!FeeOf, Promise!CalculateTransferFee, FeeOf, CalculateTransferFee
  <1>4. Promise!TotalDebit(o) = TotalDebit(o)
    BY <1>3 DEF Promise!TotalDebit, TotalDebit
  <1>5. Promise!Covered(bal, o) <=> Covered(bal, o)
    BY <1>4 DEF Promise!Covered, Covered
  <1>6. \A w : Promise!Movement(o, w) = Movement(o, w)
    BY <1>3, <1>4 DEF Promise!Movement, Movement
  <1>7. Promise!Settled(bal, o) = Settled(bal, o)
    BY <1>6 DEF Promise!Settled, Settled
  <1> QED BY <1>1, <1>2, <1>5, <1>7

LEMMA CommitKeepsPromise ==
    ASSUME IInv, NEW c \in Calls, Commit(c)
    PROVE  Promise!Settle(order[c]) /\ order[c] \in Orders
  <1>1. /\ order[c] \in Orders /\ order[c].flow = "payment"
        /\ StatusAllows(status, order[c]) /\ Covered(balance, order[c])
    BY PartiesLocked DEF Commit, At, HasChecked, HasLocks, LockedRowsAreCurrent, IInv
  <1>2. \A p \in SettledOrders : ~ SameKey(p, order[c])
    <2>1. ~ KeyTaken(order[c])
      BY DEF IInv, KeysReserved, KeyReserved, Inserted, Commit, At
    <2> QED BY <2>1 DEF KeyTaken, SettledOrders, OrderOf, SameKey
  <1>3. SettledOrders' = SettledOrders \cup {order[c]}
    BY <1>1, CommitSettles
  <1>4. balance' = Settled(balance, order[c]) /\ status' = status
    BY DEF Commit
  <1> QED BY <1>1, <1>2, <1>3, <1>4, PromiseOperators DEF Promise!Settle

LEMMA OthersKeepPromise ==
    ASSUME IInv, [Next]_vars, ~ \E c \in Calls : Commit(c)
    PROVE  \/ UNCHANGED <<balance, status, SettledOrders>>
           \/ \E w \in Wallets : Promise!Restrict(w)
  <1>1. UNCHANGED <<balance, rows>>
    BY OnlyCommitsWrite
  <1>2. UNCHANGED SettledOrders
    BY <1>1 DEF SettledOrders
  <1>3. CASE Operator
    <2>1. PICK w \in Watched, s \in {"SUSPENDED", "FROZEN"} : RestrictWallet(w, s)
      BY <1>3 DEF Operator, RestrictAny
    <2>2. Promise!Restrict(w)
      BY <1>1, <1>2, <2>1 DEF Promise!Restrict, RestrictWallet
    <2> QED BY <2>1, <2>2, CallAssumption DEF CallAssumption
  <1>4. CASE ~ Operator
    <2>1. UNCHANGED status
      BY <1>4 DEF Next, PaymentNext, Handle, CheckKey, Screen, LockFirst, LockSecond, InsertRows,
                  ReadFeePool, UpdateFeePool, WriteAuditLog, Commit, Respond, ResolveEnqueue,
                  Timeout, Crash, tables, vars
    <2> QED BY <1>1, <1>2, <2>1
  <1> QED BY <1>3, <1>4

\* The handler of POST /payments implements the atomic transfers of Transfers.
THEOREM PaymentsKeepPromise == Spec => PromiseKept
  <1>1. Init => Promise!Init
    BY DEF Init, DbInit, Promise!Init, SettledOrders
  <1>2. IInv /\ [Next]_vars => [Promise!Next]_(Promise!vars)
    <2> SUFFICES ASSUME IInv, [Next]_vars PROVE [Promise!Next]_(Promise!vars)
      OBVIOUS
    <2>1. CASE \E c \in Calls : Commit(c)
      BY <2>1, CommitKeepsPromise DEF Promise!Next
    <2>2. CASE ~ \E c \in Calls : Commit(c)
      BY <2>2, OthersKeepPromise DEF Promise!Next, Promise!vars
    <2> QED BY <2>1, <2>2
  <1> QED BY <1>1, <1>2, IInvHolds, PTL DEF Spec, PromiseKept, Promise!Spec
(***************************************************************************)
(* Answers. Whoever is told that his payment was created has paid, and he  *)
(* is the only one with that key who is told so.                           *)
(***************************************************************************)
Succeeded(c) == pc[c] = "respond" \/ reply[c] = "created"

Backed(c) ==
    /\ Succeeded(c) => /\ order[c] \in SettledOrders
                       /\ \A d \in Calls \ {c} : SameKey(order[c], order[d]) => ~ Succeeded(d)
    /\ reply[c] = "replayed" => KeyTaken(order[c])

AllBacked == \A c \in Calls : Backed(c)

\* Statement lines, and so debits, are never removed.
LEMMA RowsStay ==
    ASSUME [Next]_vars
    PROVE  rows \subseteq rows'
  BY OnlyCommitsWrite, CommitRows

LEMMA DebitsStay ==
    ASSUME [Next]_vars
    PROVE  SettledOrders \subseteq SettledOrders'
  BY RowsStay DEF SettledOrders, OrderOf

\* A settled order has taken its key.
LEMMA SettledTakesKey ==
    ASSUME NEW o \in SettledOrders, NEW p, SameKey(o, p)
    PROVE  KeyTaken(p)
  BY DEF SettledOrders, OrderOf, KeyTaken, SameKey

\* The step of another call, or of nobody, that is not a commit adds no success.
LEMMA BackedQuiet ==
    ASSUME AllBacked, [Next]_vars, UNCHANGED order,
           \A d \in Calls : Succeeded(d)' => Succeeded(d),
           \A d \in Calls : reply'[d] = "replayed" => reply[d] = "replayed" \/ KeyTaken(order[d])
    PROVE  AllBacked'
  <1> SUFFICES ASSUME NEW c \in Calls PROVE Backed(c)'
    BY DEF AllBacked
  <1>1. ASSUME Succeeded(c)'
        PROVE  /\ order'[c] \in SettledOrders'
               /\ \A d \in Calls \ {c} : SameKey(order'[c], order'[d]) => ~ Succeeded(d)'
    BY <1>1, DebitsStay DEF AllBacked, Backed
  <1>2. ASSUME reply'[c] = "replayed" PROVE KeyTaken(order[c])'
    <2>1. KeyTaken(order[c])
      BY <1>2 DEF AllBacked, Backed
    <2> QED BY <2>1, RowsStay DEF KeyTaken
  <1> QED BY <1>1, <1>2 DEF Backed

LEMMA BackedCommit ==
    ASSUME IInv, AllBacked, [Next]_vars, NEW c \in Calls, Commit(c)
    PROVE  AllBacked'
  <1> SUFFICES ASSUME NEW d \in Calls PROVE Backed(d)'
    BY DEF AllBacked
  <1>1. /\ order[c] \in Orders /\ order' = order /\ reply' = reply
        /\ pc \in [Calls -> Labels] /\ pc' = [pc EXCEPT ![c] = "respond"]
    BY DEF Commit, Goto, IInv, TypeOK, DbTypeOK
  <1>2. ~ KeyTaken(order[c])
    BY DEF IInv, KeysReserved, KeyReserved, Inserted, Commit, At
  <1>3. order[c] \in SettledOrders'
    BY <1>1, CommitSettles
  <1>4. ASSUME NEW e \in Calls \ {c}, SameKey(order[e], order[c]) \/ SameKey(order[c], order[e])
        PROVE  ~ Succeeded(e)'
    <2>1. SUFFICES ASSUME Succeeded(e) PROVE FALSE
      BY <1>1 DEF Succeeded
    <2>2. order[e] \in SettledOrders /\ SameKey(order[e], order[c])
      BY <1>4, <2>1 DEF AllBacked, Backed, SameKey
    <2> QED BY <1>2, <2>2, SettledTakesKey
  <1>5. CASE d = c
    <2>1. reply[c] = "replayed" => KeyTaken(order[c])
      BY DEF AllBacked, Backed
    <2> QED BY <1>1, <1>2, <1>3, <1>4, <1>5, <2>1 DEF Backed
  <1>6. CASE d # c
    <2>1. Succeeded(d)' <=> Succeeded(d)
      BY <1>1, <1>6 DEF Succeeded
    <2>2. reply'[d] = "replayed" => KeyTaken(order[d])'
      <3>1. reply[d] = "replayed" => KeyTaken(order[d])
        BY DEF AllBacked, Backed
      <3> QED BY <1>1, <3>1, RowsStay DEF KeyTaken
    <2>3. ASSUME Succeeded(d)
          PROVE  /\ order'[d] \in SettledOrders'
                 /\ \A e \in Calls \ {d} : SameKey(order'[d], order'[e]) => ~ Succeeded(e)'
      <3>1. order'[d] \in SettledOrders'
        BY <1>1, <2>3, DebitsStay DEF AllBacked, Backed
      <3>2. ~ SameKey(order[d], order[c])
        BY <1>4, <1>6, <2>1, <2>3
      <3>3. ASSUME NEW e \in Calls \ {d}, SameKey(order[d], order[e]) PROVE ~ Succeeded(e)'
        <4>1. e # c
          BY <3>2, <3>3
        <4>2. ~ Succeeded(e)
          BY <2>3, <3>3 DEF AllBacked, Backed
        <4> QED BY <1>1, <4>1, <4>2 DEF Succeeded
      <3> QED BY <1>1, <3>1, <3>3
    <2> QED BY <2>1, <2>2, <2>3 DEF Backed
  <1> QED BY <1>5, <1>6

LEMMA BackedNext ==
    ASSUME IInv, AllBacked, [Next]_vars
    PROVE  AllBacked'
  <1> USE DEF Goto, Answer, calls, locks, tables, paymentVars
  <1>0. /\ pc \in [Calls -> Labels]
        /\ reply \in [Calls -> {"none", "created", "replayed", "rejected", "error"}]
    BY DEF IInv, TypeOK
  <1>1. CASE \E c \in Calls : Commit(c)
    BY <1>1, BackedCommit
  <1>2. ASSUME NEW c \in Calls, Handle(c) \/ Timeout(c), ~ Commit(c) PROVE AllBacked'
    <2>1. order' = order
      BY <1>2 DEF Handle, CheckKey, Screen, LockFirst, LockSecond, InsertRows, ReadFeePool,
                  UpdateFeePool, WriteAuditLog, Respond, Timeout
    <2>2. ASSUME NEW d \in Calls, d # c
          PROVE  (Succeeded(d)' => Succeeded(d)) /\ reply'[d] = reply[d]
      BY <1>2, <2>2, OthersUntouched DEF IInv, Untouched, Succeeded
    <2>3. Succeeded(c)' => Succeeded(c)
      <3>1. CASE Respond(c)
        BY <3>1 DEF Respond, At, Succeeded
      <3>2. CASE ~ Respond(c)
        <4>1. pc'[c] # "respond"
          BY <1>0, <1>2, <3>2 DEF Handle, CheckKey, Screen, LockFirst, LockSecond, InsertRows,
             ReadFeePool, UpdateFeePool, WriteAuditLog, Timeout, Rollback
        <4>2. reply'[c] \in {reply[c], "replayed", "rejected", "error"}
          BY <1>0, <1>2, <3>2 DEF Handle, CheckKey, Screen, LockFirst, LockSecond, InsertRows,
             ReadFeePool, UpdateFeePool, WriteAuditLog, Timeout, Rollback
        <4> QED BY <4>1, <4>2 DEF Succeeded
      <3> QED BY <3>1, <3>2
    <2>4. reply'[c] = "replayed" => reply[c] = "replayed" \/ KeyTaken(order[c])
      BY <1>0, <1>2 DEF Handle, CheckKey, Screen, LockFirst, LockSecond, InsertRows,
         ReadFeePool, UpdateFeePool, WriteAuditLog, Respond, Timeout, Rollback
    <2> QED BY <2>1, <2>2, <2>3, <2>4, BackedQuiet
  <1>3. CASE Crash
    <2>1. \A d \in Calls : pc'[d] \in {"lost", pc[d]}
      BY <1>0, <1>3 DEF Crash
    <2> QED BY <1>3, <2>1, BackedQuiet DEF Crash, Succeeded
  <1>4. CASE Operator \/ UNCHANGED vars \/ \E k \in amlPending : ResolveEnqueue(k)
    <2>1. UNCHANGED <<pc, order, reply>>
      BY <1>4 DEF Operator, RestrictAny, RestrictWallet, ResolveEnqueue, vars
    <2> QED BY <2>1, BackedQuiet DEF Succeeded
  <1> QED BY <1>1, <1>2, <1>3, <1>4 DEF Next, PaymentNext

\* Every success answer is backed by a committed debit, and is the only one for
\* its key.
THEOREM SuccessesAreBacked == Spec => []SuccessIsBacked
  <1>1. Init => AllBacked
    BY DEF Init, DbInit, AllBacked, Backed, Succeeded
  <1>2. IInv /\ AllBacked /\ [Next]_vars => AllBacked'
    BY BackedNext
  <1>3. IInv /\ AllBacked => SuccessIsBacked
    <2> SUFFICES ASSUME IInv, AllBacked, NEW c \in Calls, reply[c] = "created"
                 PROVE  /\ Placed(c) \in SettledOrders
                        /\ \A d \in Calls \ {c} : SameKey(Placed(c), Placed(d)) => reply[d] # "created"
      BY DEF SuccessIsBacked, AllBacked, Backed
    <2>1. order[c] \in SettledOrders
      BY DEF AllBacked, Backed, Succeeded
    <2>2. order[c].flow = "payment"
      BY <2>1 DEF IInv, RowsArePayments, SettledOrders, OrderOf
    <2>3. Placed(c) = order[c]
      BY <2>2 DEF Placed
    <2>4. ASSUME NEW d \in Calls \ {c}, SameKey(Placed(c), Placed(d)) PROVE reply[d] # "created"
      <3>1. CASE order[d].flow = "payment"
        <4>1. SameKey(order[c], order[d])
          BY <2>3, <2>4, <3>1 DEF Placed
        <4> QED BY <4>1 DEF AllBacked, Backed, Succeeded
      <3>2. CASE order[d].flow # "payment"
        <4>1. reply[d] = "created" => order[d] \in SettledOrders
          BY DEF AllBacked, Backed, Succeeded
        <4> QED BY <3>2, <4>1 DEF IInv, RowsArePayments, SettledOrders, OrderOf
      <3> QED BY <3>1, <3>2
    <2> QED BY <2>1, <2>3, <2>4
  <1> QED BY <1>1, <1>2, <1>3, IInvHolds, PTL DEF Spec

(***************************************************************************)
(* Books. Every statement line belongs to a debit, so the lines of a key   *)
(* that is not taken are new, and the commit that writes them moves        *)
(* exactly what they say.                                                  *)
(***************************************************************************)
Booked ==
    /\ IsFiniteSet(rows)
    /\ \A r \in rows : KeyTaken(r)
    /\ \A w \in Wallets : balance[w] = Opening[w] + Gained(rows, w)

LEMMA BookedInit == Init => Booked
  <1> SUFFICES ASSUME Init PROVE Booked
    OBVIOUS
  <1>1. rows = {} /\ balance = Opening
    BY DEF Init, DbInit
  <1>2. IsFiniteSet(rows)
    BY <1>1, FS_EmptySet
  <1>3. \A w \in Wallets : Opening[w] \in Nat
    BY MoneyAssumption DEF MoneyAssumption
  <1>4. \A w \in Wallets : balance[w] = Opening[w] + Gained(rows, w)
    BY <1>1, <1>3, NothingGained
  <1> QED BY <1>1, <1>2, <1>4 DEF Booked

LEMMA BookedCommit ==
    ASSUME IInv, Booked, NEW c \in Calls, Commit(c)
    PROVE  Booked'
  <1> DEFINE o == order[c]
             b == seen[c].sender
             d == seen[c].receiver
             p == seen[c].pool
  <1>1. /\ o \in Stored /\ b \in Int /\ d \in Int /\ p \in Int
        /\ rows \subseteq RowType /\ IsFiniteSet(rows) /\ balance \in [Wallets -> Int]
    BY SeenType, OrdersAreStored DEF IInv, TypeOK, DbTypeOK, Booked
  <1>2. \A r \in rows : ~ SameKey(r, o)
    <2>1. ~ KeyTaken(o)
      BY DEF IInv, KeysReserved, KeyReserved, Inserted, Commit, At
    <2> QED BY <2>1 DEF Booked, KeyTaken, SameKey
  <1>3. rows' = rows \cup TransferRows(o, b, d) \cup FeeRows(o, p) /\ balance' = Settled(balance, o)
    BY DEF Commit, TransferRows, FeeRows
  <1> HIDE DEF o, b, d, p
  <1>4. \A r \in rows' : KeyTaken(r)'
    <2>1. /\ DebitRow(o, b) \in rows' /\ DebitRow(o, b).kind = "DEBIT" /\ rows \subseteq rows'
          /\ \A r \in rows' \ rows : SameKey(DebitRow(o, b), r)
      BY <1>3 DEF TransferRows, FeeRows, DebitRow, CreditRow, FeeRow, Row, SameKey
    <2> QED BY <1>3, <2>1 DEF Booked, KeyTaken
  <1>5. ASSUME NEW w \in Wallets PROVE balance'[w] = Opening[w] + Gained(rows', w)
    <2>1. /\ balance'[w] = balance[w] + Movement(o, w) /\ balance[w] = Opening[w] + Gained(rows, w)
          /\ Opening[w] \in Nat
      BY <1>1, <1>3, <1>5, StoredMovement, MoneyAssumption DEF Booked, MoneyAssumption
    <2>2. Adds(rows, rows', w, Movement(o, w))
      BY <1>1, <1>2, <1>3, PaymentAdds
    <2> QED BY <2>1, <2>2 DEF Adds
  <1>6. IsFiniteSet(rows')
    <2>1. Adds(rows, rows', order[c].sender, Movement(o, order[c].sender))
      BY <1>1, <1>2, <1>3, PaymentAdds, StoredFields DEF o
    <2> QED BY <2>1, AddsNothing
  <1> QED BY <1>4, <1>5, <1>6 DEF Booked

LEMMA BookedNext == IInv /\ Booked /\ [Next]_vars => Booked'
  BY OnlyCommitsWrite, BookedCommit DEF Booked, KeyTaken, Gained

\* The lines of a wallet add up to what its balance has gained or lost, whatever
\* requests repeat, race, time out or crash.
THEOREM StatementsReconcile == Spec => []StatementsExplainBalances
  <1>1. Booked => StatementsExplainBalances
    BY DEF Booked, StatementsExplainBalances, Gained, SignedSum
  <1> QED BY <1>1, BookedInit, BookedNext, IInvHolds, PTL DEF Spec

(***************************************************************************)
(* Waiting. Whoever has a lock is far enough in its transaction to have    *)
(* taken it, so who waits for whom can be read off their places.           *)
(***************************************************************************)
HoldsRow(d, w) ==
    /\ pc[d] \in HasLocks
    /\ \/ w = FirstRow(order[d])
       \/ w = SecondRow(order[d]) /\ pc[d] \in HasChecked
       \/ w = FeePool /\ pc[d] \in {"audit", "commit"}

HoldsNoMore(d) ==
    /\ \A w \in Wallets : rowLock[w] = d => HoldsRow(d, w)
    /\ \A k \in Flows \X Keys : keyLock[k] = d => pc[d] \in Inserted
    /\ auditLock = d => pc[d] = "commit"

HoldersPlaced == \A d \in Calls : HoldsNoMore(d)

\* A step of one call takes no lock for another.
TakesNothing(d) ==
    /\ \A w \in Wallets : rowLock'[w] = d => rowLock[w] = d
    /\ \A k \in Flows \X Keys : keyLock'[k] = d => keyLock[k] = d
    /\ auditLock' = d => auditLock = d

LEMMA ReleaseTakesNothing ==
    ASSUME NEW D, ReleaseAll(D), NEW d \in Calls
    PROVE  /\ TakesNothing(d)
           /\ d \in D => /\ \A w \in Wallets : rowLock'[w] # d
                         /\ \A k \in Flows \X Keys : keyLock'[k] # d
                         /\ auditLock' # d
  BY CallAssumption DEF ReleaseAll, TakesNothing, CallAssumption

LEMMA LockTakesOne ==
    ASSUME TypeOK, NEW c \in Calls, NEW w, LockRow(c, w), NEW d \in Calls, NEW v \in Wallets,
           rowLock'[v] = d
    PROVE  rowLock[v] = d \/ (d = c /\ v = w)
  BY DEF LockRow, TypeOK, DbTypeOK

LEMMA OthersTakeNothing ==
    ASSUME TypeOK, NEW c \in Calls, Handle(c) \/ Timeout(c), NEW d \in Calls, d # c
    PROVE  TakesNothing(d)
  <1> USE DEF locks
  <1>1. CASE UNCHANGED locks
    BY <1>1 DEF TakesNothing
  <1>2. CASE ReleaseAll({c})
    BY <1>2, ReleaseTakesNothing
  <1>3. CASE \E w : LockRow(c, w) /\ UNCHANGED <<keyLock, auditLock>>
    BY <1>3, LockTakesOne DEF TakesNothing
  <1>4. CASE keyLock' = [keyLock EXCEPT ![KeyOf(order[c])] = c] /\ UNCHANGED <<rowLock, auditLock>>
    BY <1>4 DEF TakesNothing, TypeOK, DbTypeOK
  <1>5. CASE auditLock' = c /\ UNCHANGED <<rowLock, keyLock>>
    BY <1>5 DEF TakesNothing
  <1> QED BY <1>1, <1>2, <1>3, <1>4, <1>5
          DEF Handle, CheckKey, Screen, LockFirst, LockSecond, InsertRows, ReadFeePool,
              UpdateFeePool, WriteAuditLog, Commit, Respond, Timeout, Rollback

\* A call that has no lock after its step is placed right, wherever it is.
LEMMA OwnPlace ==
    ASSUME TypeOK, HoldersPlaced, NEW c \in Calls, Handle(c) \/ Timeout(c)
    PROVE  HoldsNoMore(c)'
  <1> USE DEF HoldsNoMore, HoldsRow, HasLocks, HasChecked, Inserted, Goto, At, locks, calls
  <1>0. HoldsNoMore(c) /\ pc \in [Calls -> Labels] /\ DbTypeOK /\ c # NoCall
    BY CallAssumption DEF HoldersPlaced, TypeOK, CallAssumption
  <1>1. CASE ReleaseAll({c})
    BY <1>1, ReleaseTakesNothing
  <1>2. CASE CheckKey(c) \/ Screen(c) \/ ReadFeePool(c) \/ Respond(c)
    <2>1. UNCHANGED <<rowLock, keyLock, auditLock, order>>
      BY <1>2 DEF CheckKey, Screen, ReadFeePool, Respond
    <2>2. /\ pc[c] \in {"idle", "screen", "respond"} \/ pc'[c] \in {"lockPool", "audit"}
          /\ pc[c] \in {"idle", "screen", "respond", "readPool"}
      BY <1>0, <1>2 DEF CheckKey, Screen, ReadFeePool, Respond
    <2> QED BY <1>0, <2>1, <2>2
  <1>3. CASE LockFirst(c)
    <2>1. /\ LockRow(c, FirstRow(order[c])) /\ UNCHANGED <<keyLock, auditLock, order>>
          /\ pc[c] = "lockFirst" /\ pc'[c] = "lockSecond"
      BY <1>0, <1>3 DEF LockFirst
    <2> QED BY <1>0, <2>1, LockTakesOne
  <1>4. CASE LockSecond(c) /\ ~ ReleaseAll({c})
    <2>1. /\ LockRow(c, SecondRow(order[c])) /\ UNCHANGED <<keyLock, auditLock, order>>
          /\ pc[c] = "lockSecond" /\ pc'[c] = "insert"
      BY <1>0, <1>4 DEF LockSecond, Rollback
    <2> QED BY <1>0, <2>1, LockTakesOne
  <1>5. CASE InsertRows(c) /\ ~ ReleaseAll({c})
    <2>1. /\ UNCHANGED <<rowLock, auditLock, order>>
          /\ pc[c] = "insert" /\ pc'[c] = "readPool"
      BY <1>0, <1>5 DEF InsertRows, Rollback
    <2> QED BY <1>0, <2>1
  <1>6. CASE UpdateFeePool(c)
    <2>1. /\ LockRow(c, FeePool) /\ UNCHANGED <<keyLock, auditLock, order>>
          /\ pc[c] = "lockPool" /\ pc'[c] = "audit"
      BY <1>0, <1>6 DEF UpdateFeePool
    <2> QED BY <1>0, <2>1, LockTakesOne
  <1>7. CASE WriteAuditLog(c)
    <2>1. /\ UNCHANGED <<rowLock, keyLock, order>>
          /\ pc[c] = "audit" /\ pc'[c] = "commit"
      BY <1>0, <1>7 DEF WriteAuditLog
    <2> QED BY <1>0, <2>1
  <1>8. CASE Commit(c) \/ Timeout(c)
    BY <1>1, <1>8 DEF Commit, Timeout, Rollback
  <1> QED BY <1>1, <1>2, <1>3, <1>4, <1>5, <1>6, <1>7, <1>8 DEF Handle

LEMMA HoldersInit == Init => HoldersPlaced
  BY CallAssumption DEF Init, DbInit, HoldersPlaced, HoldsNoMore, CallAssumption

LEMMA HoldersNext == TypeOK /\ HoldersPlaced /\ [Next]_vars => HoldersPlaced'
  <1> SUFFICES ASSUME TypeOK, HoldersPlaced, [Next]_vars, NEW d \in Calls
               PROVE  HoldsNoMore(d)'
    BY DEF HoldersPlaced
  <1>0. HoldsNoMore(d)
    BY DEF HoldersPlaced
  <1>1. ASSUME NEW c \in Calls, Handle(c) \/ Timeout(c) PROVE HoldsNoMore(d)'
    <2>1. CASE c = d
      BY <1>1, <2>1, OwnPlace
    <2>2. CASE c # d
      <3>1. Untouched(d) /\ TakesNothing(d)
        BY <1>1, <2>2, OthersUntouched, OthersTakeNothing
      <3> QED BY <1>0, <3>1 DEF Untouched, TakesNothing, HoldsNoMore, HoldsRow
    <2> QED BY <2>1, <2>2
  <1>2. CASE Crash
    <2>1. ReleaseAll({c \in Calls : InFlight(c)})
      BY <1>2 DEF Crash
    <2>2. CASE InFlight(d)
      BY <2>1, <2>2, ReleaseTakesNothing DEF HoldsNoMore
    <2>3. CASE ~ InFlight(d)
      <3>1. pc'[d] = pc[d] /\ order' = order /\ TakesNothing(d)
        BY <1>2, <2>1, <2>3, ReleaseTakesNothing DEF Crash
      <3> QED BY <1>0, <3>1 DEF TakesNothing, HoldsNoMore, HoldsRow
    <2> QED BY <2>2, <2>3
  <1>3. CASE Operator \/ UNCHANGED vars \/ \E k \in amlPending : ResolveEnqueue(k)
    <2>1. UNCHANGED <<rowLock, keyLock, auditLock, pc, order>>
      BY <1>3 DEF Operator, RestrictAny, RestrictWallet, ResolveEnqueue, vars, locks, calls
    <2> QED BY <1>0, <2>1 DEF HoldsNoMore, HoldsRow
  <1> QED BY <1>1, <1>2, <1>3 DEF Next, PaymentNext

\* Hypothesis: the fee pool, which every payment locks last, is itself party to
\* none of the orders. A payment to it would lock it early, and then two payments
\* can wait for each other.
PoolIsNoParty == \A o \in Orders : FeePool \notin {o.sender, o.receiver}

LEMMA FirstIsLower ==
    ASSUME NEW o \in Orders
    PROVE  /\ FirstRow(o) \in Nat /\ SecondRow(o) \in Nat /\ FirstRow(o) <= SecondRow(o)
  <1>1. o.sender \in Nat /\ o.receiver \in Nat
    BY OrderFields
  <1> QED BY <1>1 DEF FirstRow, SecondRow, LockOrder

LEMMA CirclesBreak ==
    ASSUME PoolIsNoParty, TypeOK, LocksHeld, HoldersPlaced
    PROVE  NoWaitCycle
  <1> SUFFICES ASSUME NEW S \in (SUBSET Calls) \ {{}}, \A c \in S : \E d \in S : Waits(c, d)
               PROVE  FALSE
    BY DEF NoWaitCycle
  <1>1. ASSUME NEW c \in S
        PROVE  /\ order[c] \in Orders /\ HoldsNoMore(c)
               /\ FirstRow(order[c]) \in Wallets \ {FeePool}
               /\ SecondRow(order[c]) \in Wallets \ {FeePool}
               /\ KeyOf(order[c]) \in Flows \X Keys
    <2>1. order[c] \in Orders
      BY DEF TypeOK, DbTypeOK
    <2> QED BY <2>1, OrderFields DEF HoldersPlaced, PoolIsNoParty
  <1>2. \A c \in S : pc[c] \in {"lockFirst", "lockSecond", "insert", "lockPool", "audit"}
    BY DEF Waits, At
  \* Whoever writes the audit row next waits for nobody, and so on up the handler.
  <1>3. \A c \in S : pc[c] # "audit"
    BY <1>1, <1>2 DEF Waits, At, HoldsNoMore
  <1>4. \A c \in S : pc[c] # "lockPool"
    <2> SUFFICES ASSUME NEW c \in S, pc[c] = "lockPool" PROVE FALSE
      OBVIOUS
    <2>1. PICK d \in S : rowLock[FeePool] = d
      BY DEF Waits, At
    <2>2. FeePool \in Wallets
      BY DEF LocksHeld, HoldsLocks, HasFeePool
    <2>3. HoldsRow(d, FeePool)
      BY <1>1, <2>1, <2>2 DEF HoldsNoMore
    <2> QED BY <1>1, <1>2, <1>3, <2>3 DEF HoldsRow
  <1>5. \A c \in S : pc[c] # "insert"
    BY <1>1, <1>2, <1>3, <1>4 DEF Waits, At, HoldsNoMore, Inserted
  \* The rest wait for rows, each held by one that waits for its second row.
  <1>6. ASSUME NEW d \in S, NEW w \in Wallets \ {FeePool}, rowLock[w] = d
        PROVE  pc[d] = "lockSecond" /\ w = FirstRow(order[d])
    BY <1>1, <1>2, <1>3, <1>4, <1>5, <1>6 DEF HoldsNoMore, HoldsRow, HasLocks, HasChecked
  <1>7. ASSUME NEW c \in S, pc[c] = "lockSecond"
        PROVE  \E d \in S \ {c} : rowLock[SecondRow(order[c])] = d
    BY <1>7 DEF Waits, At
  <1>8. \E c \in S : pc[c] = "lockSecond"
    <2>1. PICK c \in S : TRUE
      OBVIOUS
    <2>2. CASE pc[c] = "lockFirst"
      <3>1. PICK d \in S : rowLock[FirstRow(order[c])] = d
        BY <2>2 DEF Waits, At
      <3> QED BY <1>1, <1>6, <3>1
    <2> QED BY <1>2, <1>3, <1>4, <1>5, <2>2
  <1> DEFINE second(c) == SecondRow(order[c])
             Awaited == {second(c) : c \in {c \in S : pc[c] = "lockSecond"}}
  <1>9. PICK c \in S : pc[c] = "lockSecond" /\ \A a \in Awaited : a <= second(c)
    <2>1. Awaited \subseteq Wallets /\ Awaited # {}
      BY <1>1, <1>8
    <2>2. IsFiniteSet(Awaited) /\ Awaited \subseteq Nat
      BY <2>1, FS_Subset, MoneyAssumption DEF MoneyAssumption
    <2>3. PICK m \in Awaited : \A a \in Awaited : a <= m
      <3> HIDE DEF Awaited
      <3> QED BY <2>1, <2>2, Greatest
    <2> QED BY <2>3
  <1>10. PICK d \in S \ {c} : rowLock[second(c)] = d
    BY <1>7, <1>9
  <1>11. pc[d] = "lockSecond" /\ second(c) = FirstRow(order[d])
    BY <1>1, <1>6, <1>10
  <1>12. second(d) = second(c)
    <2>1. second(d) <= second(c)
      BY <1>9, <1>11
    <2>2. FirstRow(order[d]) <= second(d) /\ FirstRow(order[d]) \in Nat /\ second(d) \in Nat
      BY <1>1, FirstIsLower
    <2> QED BY <1>11, <2>1, <2>2
  <1> QED BY <1>7, <1>10, <1>11, <1>12

\* Payments never wait for each other in a circle, however many there are, as long
\* as none of them pays the fee pool.
THEOREM PaymentsNeverDeadlock ==
    ASSUME PoolIsNoParty
    PROVE  Spec => []NoWaitCycle
  <1>1. IInv /\ HoldersPlaced => NoWaitCycle
    BY CirclesBreak DEF IInv
  <1>2. IInv /\ HoldersPlaced /\ [Next]_vars => HoldersPlaced'
    BY HoldersNext DEF IInv
  <1> QED BY <1>1, <1>2, HoldersInit, IInvHolds, PTL DEF Spec
=============================================================================
