------------------------------ MODULE AuditChain ------------------------------
(***************************************************************************)
(* writeAuditLog of packages/shared-audit: every service appends its rows  *)
(* to one hash-chained table. A writer takes its timestamp first, then the *)
(* advisory lock, then links its row to the one with the latest timestamp: *)
(*                                                                         *)
(*   idle -> lock -> read -> insert -> commit -> done                      *)
(*                                                                         *)
(* The transaction is writeAuditLog's own, or that of the payment that     *)
(* calls it; either may roll back until it commits. A row is named by its  *)
(* writer, and so is its record_hash, which covers prev_hash.              *)
(***************************************************************************)
EXTENDS Integers, Sequences

CONSTANTS
    Writers,    \* calls of writeAuditLog
    None,       \* prev_hash NULL, and the holder of a free lock
    MaxTime     \* bound: the last tick of the clock, in its resolution (1 ms)

ASSUME AuditAssumption == None \notin Writers /\ MaxTime \in Nat

VARIABLES
    now,            \* new Date()
    chain,          \* audit_logs: the committed rows, in the order of their commits
    advisory,       \* the writer that holds pg_advisory_xact_lock(913502771)
    createdAt,      \* the timestamp each writer has taken
    prevHash,       \* the hash each writer has read
    pc              \* where each writer is

vars == <<now, chain, advisory, createdAt, prevHash, pc>>

Init ==
    /\ now = 0
    /\ chain = <<>>
    /\ advisory = None
    /\ createdAt = [w \in Writers |-> 0]
    /\ prevHash = [w \in Writers |-> None]
    /\ pc = [w \in Writers |-> "idle"]

Goto(w, label) == pc' = [pc EXCEPT ![w] = label]

Tick ==
    /\ now < MaxTime
    /\ now' = now + 1
    /\ UNCHANGED <<chain, advisory, createdAt, prevHash, pc>>

\* const createdAt = new Date(), outside of run().
Stamp(w) ==
    /\ pc[w] = "idle"
    /\ createdAt' = [createdAt EXCEPT ![w] = now]
    /\ Goto(w, "lock")
    /\ UNCHANGED <<now, chain, advisory, prevHash>>

\* Mutant: no advisory lock.
PassLock(w) ==
    /\ pc[w] = "lock"
    /\ Goto(w, "read")
    /\ UNCHANGED <<now, chain, advisory, createdAt, prevHash>>

TakeLock(w) ==
    /\ pc[w] = "lock"
    /\ advisory = None
    /\ advisory' = w
    /\ Goto(w, "read")
    /\ UNCHANGED <<now, chain, createdAt, prevHash>>

\* findFirst, orderBy: { createdAt: "desc" }: one of the latest committed rows.
Rows == 1 .. Len(chain)
Latest == {i \in Rows : \A j \in Rows : chain[j].createdAt <= chain[i].createdAt}

\* Mutant: where: { createdAt: { lt: createdAt } }.
ReadEarlier(w) ==
    LET earlier == {i \in Rows : chain[i].createdAt < createdAt[w]} IN
    /\ pc[w] = "read"
    /\ \/ earlier = {} /\ prevHash' = [prevHash EXCEPT ![w] = None]
       \/ \E i \in earlier :
            /\ \A j \in earlier : chain[j].createdAt <= chain[i].createdAt
            /\ prevHash' = [prevHash EXCEPT ![w] = chain[i].hash]
    /\ Goto(w, "insert")
    /\ UNCHANGED <<now, chain, advisory, createdAt>>

ReadLast(w) ==
    /\ pc[w] = "read"
    /\ \/ chain = <<>> /\ prevHash' = [prevHash EXCEPT ![w] = None]
       \/ \E i \in Latest : prevHash' = [prevHash EXCEPT ![w] = chain[i].hash]
    /\ Goto(w, "insert")
    /\ UNCHANGED <<now, chain, advisory, createdAt>>

Insert(w) ==
    /\ pc[w] = "insert"
    /\ Goto(w, "commit")
    /\ UNCHANGED <<now, chain, advisory, createdAt, prevHash>>

RecordOf(w) == [hash |-> w, createdAt |-> createdAt[w], prev |-> prevHash[w]]

Commit(w) ==
    /\ pc[w] = "commit"
    /\ chain' = Append(chain, RecordOf(w))
    /\ advisory' = None
    /\ Goto(w, "done")
    /\ UNCHANGED <<now, createdAt, prevHash>>

\* The transaction ends in a rollback, which frees the lock.
Rollback(w) ==
    /\ pc[w] \in {"lock", "read", "insert", "commit"}
    /\ advisory' = IF advisory = w THEN None ELSE advisory
    /\ Goto(w, "done")
    /\ UNCHANGED <<now, chain, createdAt, prevHash>>

Write(w) == Stamp(w) \/ TakeLock(w) \/ ReadLast(w) \/ Insert(w) \/ Commit(w)

Next == Tick \/ \E w \in Writers : Write(w) \/ Rollback(w)

Spec == Init /\ [][Next]_vars

(***************************************************************************)
(* Properties.                                                             *)
(***************************************************************************)
TypeOK ==
    /\ now \in 0 .. MaxTime
    /\ chain \in Seq([hash : Writers, createdAt : 0 .. MaxTime, prev : Writers \cup {None}])
    /\ advisory \in Writers \cup {None}
    /\ createdAt \in [Writers -> 0 .. MaxTime]
    /\ prevHash \in [Writers -> Writers \cup {None}]
    /\ pc \in [Writers -> {"idle", "lock", "read", "insert", "commit", "done"}]

\* The chain is well formed and has one beginning, however many services write the
\* first rows: no two of them find the table empty.
OneBeginning == TypeOK /\ \A i \in Rows : chain[i].prev = None <=> i = 1

\* A row is linked to the one committed just before it, unless an earlier row carries a
\* timestamp at least as late as that one: the only way a row loses its place in the
\* chain is a clock that did not move on between taking the timestamp and the lock.
OnlyLateRowsAreSkipped ==
    \A i \in Rows \ {1} :
        \/ chain[i].prev = chain[i - 1].hash
        \/ \E j \in 1 .. i - 2 : chain[j].createdAt >= chain[i - 1].createdAt

\* "altering or removing a row breaks the chain for every row after it": every row
\* that has a successor is covered by the hash of one.
EveryRowIsCovered ==
    \A i \in Rows : i < Len(chain) => \E j \in i + 1 .. Len(chain) : chain[j].prev = chain[i].hash
=============================================================================
