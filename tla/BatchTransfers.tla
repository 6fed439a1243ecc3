---------------------------- MODULE BatchTransfers ----------------------------
(***************************************************************************)
(* The money movements of agent-service (POST /agents/cash-in and          *)
(* /agents/cash-out, between a customer and the agent's float) and of      *)
(* ussd-service ("Send Money", and "Buy Airtime", which credits nobody).   *)
(* They check the balance first and then run an array of statements in one *)
(* transaction:                                                            *)
(*                                                                         *)
(*   idle -> debitWallet -> creditWallet -> insert -> commit -> respond    *)
(*                                                                         *)
(* without SELECT ... FOR UPDATE, statuses, ledger or audit entries. The   *)
(* agent's commission is computed for the answer and never moved.          *)
(***************************************************************************)
EXTENDS WalletDb

vars == <<tables, locks, calls>>

Init == DbInit

BatchFlows == {"cashIn", "cashOut", "ussd", "airtime"}

At(c, label) == order[c].flow \in BatchFlows /\ pc[c] = label
Goto(c, label) == pc' = [pc EXCEPT ![c] = label]
Answer(c, what) == Goto(c, "done") /\ reply' = [reply EXCEPT ![c] = what]

Rollback(c, what) ==
    /\ ReleaseAll({c})
    /\ Answer(c, what)

\* The wallet the handler looks up with isDeleted: false.
CustomerWallet(o) == IF o.flow = "cashIn" THEN o.receiver ELSE o.sender

\* Plain reads, before and outside of the transaction; only the sender's balance
\* is judged. What they return goes into the statement lines.
ReadWallets(c) ==
    LET o == order[c] IN
    /\ At(c, "idle")
    /\ seen' = [seen EXCEPT ![c] = SeenBalances(o)]
    /\ IF status[CustomerWallet(o)] # "DELETED" /\ Covered(balance, o)
         THEN Goto(c, "debitWallet") /\ UNCHANGED reply
         ELSE Answer(c, "rejected")
    /\ UNCHANGED <<tables, locks, order>>

\* balance: { decrement }, which locks the row of whoever pays first.
DebitWallet(c) ==
    /\ At(c, "debitWallet")
    /\ LockRow(c, order[c].sender)
    /\ Goto(c, IF order[c].flow = "airtime" THEN "insert" ELSE "creditWallet")
    /\ UNCHANGED <<tables, keyLock, auditLock, order, seen, reply>>

CreditWallet(c) ==
    /\ At(c, "creditWallet")
    /\ LockRow(c, order[c].receiver)
    /\ Goto(c, "insert")
    /\ UNCHANGED <<tables, keyLock, auditLock, order, seen, reply>>

\* The unique keys of the two rows are derived from the client's key, or fresh.
InsertRows(c) ==
    LET o == order[c] IN
    /\ At(c, "insert")
    /\ IF o.flow \in {"ussd", "airtime"}
         THEN Goto(c, "commit") /\ UNCHANGED <<locks, reply>>
         ELSE /\ keyLock[KeyOf(o)] = NoCall
              /\ IF KeyTaken(o)
                   THEN Rollback(c, "error")
                   ELSE /\ keyLock' = [keyLock EXCEPT ![KeyOf(o)] = c]
                        /\ Goto(c, "commit")
                        /\ UNCHANGED <<rowLock, auditLock, reply>>
    /\ UNCHANGED <<tables, order, seen>>

\* Mutant: balances are set from what was read, not incremented and decremented.
CommitReadBalances(c) ==
    LET o == Placed(c) IN
    /\ At(c, "commit")
    /\ balance' = [balance EXCEPT ![o.sender] = seen[c].sender - o.amount,
                                  ![o.receiver] = seen[c].receiver + o.amount]
    /\ rows' = rows \cup {DebitRow(o, seen[c].sender), CreditRow(o, seen[c].receiver)}
    /\ ReleaseAll({c})
    /\ Goto(c, "respond")
    /\ UNCHANGED <<status, ledger, audited, order, seen, reply>>

Commit(c) ==
    LET o == Placed(c) IN
    /\ At(c, "commit")
    /\ IF o.flow = "airtime"
         THEN /\ balance' = [balance EXCEPT ![o.sender] = @ - o.amount]
              /\ rows' = rows \cup {DebitRow(o, seen[c].sender)}
         ELSE /\ balance' = Settled(balance, o)
              /\ rows' = rows \cup {DebitRow(o, seen[c].sender), CreditRow(o, seen[c].receiver)}
    /\ ReleaseAll({c})
    /\ Goto(c, "respond")
    /\ UNCHANGED <<status, ledger, audited, order, seen, reply>>

\* Airtime is bought from its provider only now, and the debit stays when he fails.
Respond(c) ==
    /\ At(c, "respond")
    /\ \/ Answer(c, "created")
       \/ order[c].flow = "airtime" /\ Answer(c, "error")
    /\ UNCHANGED <<tables, locks, order, seen>>

\* Cash-in locks the float first and cash-out the customer first: PostgreSQL
\* aborts the victim of a deadlock, and a lost connection aborts as well.
HasLocks == {"creditWallet", "insert", "commit"}

Abort(c) ==
    /\ order[c].flow \in BatchFlows /\ pc[c] \in {"debitWallet"} \cup HasLocks
    /\ Rollback(c, "error")
    /\ UNCHANGED <<tables, order, seen>>

Handle(c) ==
    \/ ReadWallets(c) \/ DebitWallet(c) \/ CreditWallet(c)
    \/ InsertRows(c) \/ Commit(c) \/ Respond(c)

Next == \E c \in Calls : Handle(c) \/ Abort(c)

Spec == Init /\ [][Next]_vars

Waits(c, d) ==
    LET o == order[c] IN
    /\ c # d
    /\ \/ At(c, "debitWallet") /\ rowLock[o.sender] = d
       \/ At(c, "creditWallet") /\ rowLock[o.receiver] = d
       \/ At(c, "insert") /\ o.flow \notin {"ussd", "airtime"} /\ keyLock[KeyOf(o)] = d
=============================================================================
