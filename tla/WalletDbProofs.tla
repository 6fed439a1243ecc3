----------------------------- MODULE WalletDbProofs -----------------------------
(***************************************************************************)
(* Lemmas about the tables and locks of WalletDb that the proofs about its *)
(* services share: what an order moves, what locking and releasing keep,   *)
(* and what the rows and ledger entries of one order add to the sums.      *)
(***************************************************************************)
EXTENDS WalletDb, Sums

(***************************************************************************)
(* Orders and amounts.                                                     *)
(***************************************************************************)
\* The fields of an order are those its HTTP request was parsed into.
LEMMA OrderFields ==
    ASSUME NEW o \in Orders
    PROVE  /\ o \in Order
           /\ o.flow \in Flows /\ o.key \in Keys
           /\ o.sender \in Wallets /\ o.receiver \in Wallets
           /\ o.sender \in Nat /\ o.receiver \in Nat
           /\ o.amount \in Nat /\ o.amount > 0
           /\ o.qr \in QrIds \cup {NoQr}
           /\ KeyOf(o) \in Flows \X Keys
           /\ FirstRow(o) \in Wallets /\ SecondRow(o) \in Wallets
           /\ {FirstRow(o), SecondRow(o)} = {o.sender, o.receiver}
  <1>1. o \in Order /\ Wallets \subseteq Nat
    BY MoneyAssumption DEF MoneyAssumption
  <1>2. /\ o.flow \in Flows /\ o.key \in Keys
        /\ o.sender \in Wallets /\ o.receiver \in Wallets
        /\ o.amount \in Nat /\ o.amount > 0
        /\ o.qr \in QrIds \cup {NoQr}
    BY <1>1 DEF Order, Amounts
  <1>3. o.sender \in Nat /\ o.receiver \in Nat
    BY <1>1, <1>2
  <1>4. KeyOf(o) \in Flows \X Keys
    BY <1>2 DEF KeyOf
  <1>5. /\ FirstRow(o) \in Wallets /\ SecondRow(o) \in Wallets
        /\ {FirstRow(o), SecondRow(o)} = {o.sender, o.receiver}
    BY <1>2 DEF FirstRow, SecondRow, LockOrder
  <1> QED BY <1>1, <1>2, <1>3, <1>4, <1>5

\* calculateTransferFee never returns a negative fee, so an order debits at
\* least its amount.
LEMMA FeeIsNat ==
    ASSUME NEW o \in Orders
    PROVE  FeeOf(o) \in Nat /\ TotalDebit(o) \in Nat /\ TotalDebit(o) > 0
  <1>1. o.amount \in Nat /\ o.amount > 0
    BY OrderFields
  <1>2. CalculateTransferFee(o.amount) \in Nat
    BY <1>1 DEF CalculateTransferFee
  <1> QED BY <1>1, <1>2 DEF FeeOf, TotalDebit

\* Settling an order takes money from its sender only, and touches no wallet
\* besides the two parties and the fee pool.
LEMMA MovementBounds ==
    ASSUME NEW o \in Orders, NEW w \in Wallets
    PROVE  /\ Movement(o, w) \in Int
           /\ w # o.sender => Movement(o, w) >= 0
           /\ Movement(o, w) >= 0 - TotalDebit(o)
           /\ w \notin {o.sender, o.receiver, FeePool} => Movement(o, w) = 0
  <1>1. /\ FeeOf(o) \in Nat /\ TotalDebit(o) \in Nat /\ o.amount \in Nat
        /\ TotalDebit(o) = o.amount + FeeOf(o)
    BY FeeIsNat, OrderFields DEF TotalDebit
  <1> QED BY <1>1 DEF Movement

(***************************************************************************)
(* Types.                                                                  *)
(***************************************************************************)
\* Every action of the handlers ends in one of these three ways with the locks.
LEMMA LockRowType ==
    ASSUME rowLock \in [Wallets -> CallOrNone], NEW c \in Calls, NEW w, LockRow(c, w)
    PROVE  rowLock' \in [Wallets -> CallOrNone]
  BY DEF LockRow, CallOrNone

LEMMA ReleaseType ==
    ASSUME DbTypeOK, NEW D, ReleaseAll(D)
    PROVE  /\ rowLock' \in [Wallets -> CallOrNone]
           /\ keyLock' \in [Flows \X Keys -> CallOrNone]
           /\ auditLock' \in CallOrNone
  BY DEF DbTypeOK, ReleaseAll, CallOrNone

\* What a payment writes when it commits has the types of its tables.
LEMMA WritesType ==
    ASSUME NEW o \in Orders, NEW b \in Int
    PROVE  /\ DebitRow(o, b) \in RowType /\ CreditRow(o, b) \in RowType
           /\ FeeRow(o, b) \in RowType
           /\ TransferEntries(o) \subseteq EntryType /\ FeeEntries(o) \subseteq EntryType
  <1>1. /\ o.flow \in Flows /\ o.key \in Keys /\ o.sender \in Nat /\ o.receiver \in Nat
        /\ o.amount \in Nat /\ o.qr \in QrIds \cup {NoQr} /\ FeePool \in Nat
        /\ FeeOf(o) \in Nat /\ TotalDebit(o) \in Nat
    BY OrderFields, FeeIsNat, MoneyAssumption DEF MoneyAssumption
  <1>2. DebitRow(o, b) \in RowType /\ CreditRow(o, b) \in RowType /\ FeeRow(o, b) \in RowType
    BY <1>1 DEF DebitRow, CreditRow, FeeRow, Row, RowType
  <1>3. TransferEntries(o) \subseteq EntryType /\ FeeEntries(o) \subseteq EntryType
    BY <1>1 DEF TransferEntries, FeeEntries, Entry, EntryType
  <1> QED BY <1>2, <1>3

LEMMA SettledType ==
    ASSUME NEW o \in Orders, NEW bal \in [Wallets -> Int]
    PROVE  /\ Settled(bal, o) \in [Wallets -> Int]
           /\ \A w \in Wallets : Settled(bal, o)[w] = bal[w] + Movement(o, w)
  BY MovementBounds DEF Settled

\* Recording what was read for one call changes nothing for another.
SeenRecord == [sender : Int, receiver : Int, pool : Int]

LEMMA SeenPool ==
    ASSUME NEW s \in [Calls -> SeenRecord], NEW c \in Calls, NEW x \in Int,
           NEW t, t = [s EXCEPT ![c] = [@ EXCEPT !.pool = x]]
    PROVE  /\ t \in [Calls -> SeenRecord]
           /\ t[c].sender = s[c].sender /\ t[c].receiver = s[c].receiver
           /\ \A d \in Calls \ {c} : t[d] = s[d]
  <1>1. s[c] \in SeenRecord
    OBVIOUS
  <1>2. /\ [s[c] EXCEPT !.pool = x] \in SeenRecord
        /\ [s[c] EXCEPT !.pool = x].sender = s[c].sender
        /\ [s[c] EXCEPT !.pool = x].receiver = s[c].receiver
    BY <1>1 DEF SeenRecord
  <1>3. t = [s EXCEPT ![c] = [s[c] EXCEPT !.pool = x]]
    OBVIOUS
  <1> HIDE DEF SeenRecord
  <1> QED BY <1>1, <1>2, <1>3

\* Locking a row gives it to the caller, and takes it from nobody.
LEMMA LockRowKeeps ==
    ASSUME DbTypeOK, NEW c \in Calls, NEW w \in Wallets, LockRow(c, w)
    PROVE  /\ rowLock'[w] = c
           /\ \A d \in Calls, v \in Wallets : rowLock[v] = d => rowLock'[v] = d
  BY CallAssumption DEF DbTypeOK, LockRow, CanLock, CallAssumption

\* The end of some transactions takes no lock from the others.
LEMMA ReleaseKeeps ==
    ASSUME NEW D, ReleaseAll(D), NEW d \in Calls, d \notin D
    PROVE  /\ \A v \in Wallets : rowLock[v] = d => rowLock'[v] = d
           /\ \A k \in Flows \X Keys : keyLock[k] = d => keyLock'[k] = d
  BY DEF ReleaseAll

\* The order can be read back from its debit row.
LEMMA OrderOfDebit ==
    ASSUME NEW o \in Orders, NEW b
    PROVE  OrderOf(DebitRow(o, b)) = o
  <1>1. o = [flow |-> o.flow, key |-> o.key, sender |-> o.sender,
             receiver |-> o.receiver, amount |-> o.amount, qr |-> o.qr]
    BY OrderFields DEF Order
  <1> QED BY <1>1 DEF OrderOf, DebitRow, Row


(***************************************************************************)
(* Sums. MapThenSumSet is SumFunctionOnSet of the function it maps, so one *)
(* more row adds its own value to a total and nothing else.                *)
(***************************************************************************)
LEMMA SumOfIsSum ==
    ASSUME NEW S
    PROVE  SumOf(S) = SumFunctionOnSet([r \in S |-> r.amount], S)
  <1> DEFINE f == [r \in S |-> r.amount]
             e(g, s) == IF s = {} THEN 0 ELSE Picked(s).amount + g[s \ {Picked(s)}]
             k(g, s) == IF s = {} THEN 0 ELSE f[Picked(s)] + g[s \ {Picked(s)}]
             Solves(g) == g = [s \in SUBSET S |-> e(g, s)]
  <1>1. SumOf(S) = (CHOOSE g : Solves(g))[S]
    BY DEF SumOf, MapThenSumSet, MapThenFoldSet, Picked
  <1>2. SumFunctionOnSet(f, S) = (CHOOSE g : Sums(g, f, S))[S]
    BY DEF SumFunctionOnSet, FoldFunctionOnSet, MapThenFoldSet, Sums, Picked
  <1>3. \A s \in SUBSET S : s # {} => Picked(s).amount = f[Picked(s)]
    BY PickedIn
  <1>4. ASSUME NEW g PROVE Solves(g) <=> Sums(g, f, S)
    <2>1. \A s \in SUBSET S : e(g, s) = k(g, s)
      BY <1>3
    <2> HIDE DEF e, k
    <2>2. [s \in SUBSET S |-> e(g, s)] = [s \in SUBSET S |-> k(g, s)]
      BY <2>1
    <2> QED BY <2>2 DEF Sums, k
  <1> HIDE DEF f, Solves
  <1>5. (CHOOSE g : Solves(g)) = (CHOOSE g : Sums(g, f, S))
    BY <1>4
  <1> QED BY <1>1, <1>2, <1>5 DEF f

\* The total of the signed lines of a statement.
SignedSum(S) == MapThenSumSet(Signed, S)

LEMMA SignedSumIsSum ==
    ASSUME NEW S
    PROVE  SignedSum(S) = SumFunctionOnSet([r \in S |-> Signed(r)], S)
  <1> DEFINE f == [r \in S |-> Signed(r)]
             e(g, s) == IF s = {} THEN 0 ELSE Signed(Picked(s)) + g[s \ {Picked(s)}]
             k(g, s) == IF s = {} THEN 0 ELSE f[Picked(s)] + g[s \ {Picked(s)}]
             Solves(g) == g = [s \in SUBSET S |-> e(g, s)]
  <1>1. SignedSum(S) = (CHOOSE g : Solves(g))[S]
    BY DEF SignedSum, MapThenSumSet, MapThenFoldSet, Picked
  <1>2. SumFunctionOnSet(f, S) = (CHOOSE g : Sums(g, f, S))[S]
    BY DEF SumFunctionOnSet, FoldFunctionOnSet, MapThenFoldSet, Sums, Picked
  <1>3. \A s \in SUBSET S : s # {} => Signed(Picked(s)) = f[Picked(s)]
    BY PickedIn
  <1>4. ASSUME NEW g PROVE Solves(g) <=> Sums(g, f, S)
    <2>1. \A s \in SUBSET S : e(g, s) = k(g, s)
      BY <1>3
    <2> HIDE DEF e, k
    <2>2. [s \in SUBSET S |-> e(g, s)] = [s \in SUBSET S |-> k(g, s)]
      BY <2>1
    <2> QED BY <2>2 DEF Sums, k
  <1> HIDE DEF f, Solves
  <1>5. (CHOOSE g : Solves(g)) = (CHOOSE g : Sums(g, f, S))
    BY <1>4
  <1> QED BY <1>1, <1>2, <1>5 DEF f

LEMMA SumOfAdd ==
    ASSUME NEW S, IsFiniteSet(S), \A r \in S : r.amount \in Int,
           NEW a, a \notin S, a.amount \in Int
    PROVE  SumOf(S \cup {a}) = SumOf(S) + a.amount /\ SumOf(S) \in Int
  <1> DEFINE T == S \cup {a}
             f == [r \in S |-> r.amount]
             g == [r \in T |-> r.amount]
  <1>1. SumOf(S) = SumFunctionOnSet(f, S) /\ SumOf(T) = SumFunctionOnSet(g, T)
    BY SumOfIsSum
  <1>2. g[a] = a.amount /\ g[a] \in Int /\ (\A x \in S : g[x] \in Int) /\ \A x \in S : f[x] = g[x]
    OBVIOUS
  <1> HIDE DEF f, g
  <1>3. SumFunctionOnSet(g, T) = SumFunctionOnSet(g, S) + g[a]
    BY <1>2, SumAdd
  <1>4. SumFunctionOnSet(f, S) = SumFunctionOnSet(g, S)
    BY <1>2, SumCongruent
  <1>5. SumFunctionOnSet(g, S) \in Int
    BY <1>2, SumType
  <1> QED BY <1>1, <1>2, <1>3, <1>4, <1>5

LEMMA SignedSumAdd ==
    ASSUME NEW S, IsFiniteSet(S), \A r \in S : Signed(r) \in Int,
           NEW a, a \notin S, Signed(a) \in Int
    PROVE  SignedSum(S \cup {a}) = SignedSum(S) + Signed(a) /\ SignedSum(S) \in Int
  <1> DEFINE T == S \cup {a}
             f == [r \in S |-> Signed(r)]
             g == [r \in T |-> Signed(r)]
  <1>1. SignedSum(S) = SumFunctionOnSet(f, S) /\ SignedSum(T) = SumFunctionOnSet(g, T)
    BY SignedSumIsSum
  <1>2. g[a] = Signed(a) /\ (\A x \in S : g[x] \in Int) /\ \A x \in S : f[x] = g[x]
    OBVIOUS
  <1> HIDE DEF f, g
  <1>3. SumFunctionOnSet(g, T) = SumFunctionOnSet(g, S) + Signed(a)
    BY <1>2, SumAdd
  <1>4. SumFunctionOnSet(f, S) = SumFunctionOnSet(g, S)
    BY <1>2, SumCongruent
  <1>5. SumFunctionOnSet(g, S) \in Int
    BY <1>2, SumType
  <1> QED BY <1>1, <1>3, <1>4, <1>5

LEMMA SumsOfNothing == SumOf({}) = 0 /\ SignedSum({}) = 0
  BY SumOfIsSum, SignedSumIsSum, SumEmpty

LEMMA SignedType ==
    ASSUME NEW r \in RowType
    PROVE  Signed(r) \in Int
  <1>1. r.amount \in Nat /\ r.fee \in Nat
    BY DEF RowType
  <1> QED BY <1>1 DEF Signed

\* What the statement lines of S say that wallet w has gained.
Gained(S, w) == SignedSum({r \in S : r.wallet = w})

LEMMA GainedAdd ==
    ASSUME NEW S, IsFiniteSet(S), S \subseteq RowType, NEW a \in RowType, a \notin S, NEW w
    PROVE  /\ Gained(S \cup {a}, w) = Gained(S, w) + (IF a.wallet = w THEN Signed(a) ELSE 0)
           /\ Gained(S, w) \in Int
           /\ IsFiniteSet(S \cup {a}) /\ S \cup {a} \subseteq RowType
  <1> DEFINE lines == {r \in S : r.wallet = w}
             more == {r \in S \cup {a} : r.wallet = w}
  <1>1. IsFiniteSet(lines) /\ lines \subseteq S
    <2>1. lines \subseteq S
      OBVIOUS
    <2> QED BY <2>1, FS_Subset
  <1>2. Signed(a) \in Int /\ \A r \in lines : Signed(r) \in Int
    BY SignedType
  <1>3. a \notin lines
    OBVIOUS
  <1>4. more = IF a.wallet = w THEN lines \cup {a} ELSE lines
    OBVIOUS
  <1> HIDE DEF lines, more
  <1>5. SignedSum(lines \cup {a}) = SignedSum(lines) + Signed(a) /\ SignedSum(lines) \in Int
    BY <1>1, <1>2, <1>3, SignedSumAdd
  <1>6. SignedSum(more) = SignedSum(lines) + (IF a.wallet = w THEN Signed(a) ELSE 0)
    BY <1>4, <1>5
  <1>7. IsFiniteSet(S \cup {a})
    BY FS_AddElement
  <1> QED BY <1>5, <1>6, <1>7 DEF Gained, lines, more

(***************************************************************************)
(* Orders as they are stored: with the client's key, or a fresh one that   *)
(* the call stands for.                                                    *)
(***************************************************************************)
Stored ==
    [flow : Flows, key : Keys \cup Calls, sender : Wallets, receiver : Wallets,
     amount : Amounts, qr : QrIds \cup {NoQr}]

LEMMA OrdersAreStored ==
    ASSUME NEW c \in Calls, order[c] \in Orders
    PROVE  order[c] \in Stored /\ Placed(c) \in Stored
  <1>1. order[c] \in Order
    BY MoneyAssumption DEF MoneyAssumption
  <1>2. order[c] \in Stored
    BY <1>1 DEF Order, Stored
  <1>3. [order[c] EXCEPT !.key = c] \in Stored
    BY <1>2 DEF Stored
  <1> QED BY <1>2, <1>3 DEF Placed

LEMMA StoredFields ==
    ASSUME NEW o \in Stored
    PROVE  /\ o.sender \in Wallets /\ o.receiver \in Wallets
           /\ o.sender \in Nat /\ o.receiver \in Nat
           /\ o.amount \in Nat /\ o.amount > 0
           /\ FeeOf(o) \in Nat /\ TotalDebit(o) \in Nat /\ TotalDebit(o) = o.amount + FeeOf(o)
           /\ o.flow # "payment" => FeeOf(o) = 0
  <1>1. o.sender \in Wallets /\ o.receiver \in Wallets /\ o.amount \in Nat /\ o.amount > 0
    BY DEF Stored, Amounts
  <1>2. Wallets \subseteq Nat
    BY MoneyAssumption DEF MoneyAssumption
  <1>3. CalculateTransferFee(o.amount) \in Nat
    BY <1>1 DEF CalculateTransferFee
  <1>4. FeeOf(o) \in Nat /\ (o.flow # "payment" => FeeOf(o) = 0)
    BY <1>3 DEF FeeOf
  <1>5. TotalDebit(o) \in Nat /\ TotalDebit(o) = o.amount + FeeOf(o)
    BY <1>1, <1>4 DEF TotalDebit
  <1>6. o.sender \in Nat /\ o.receiver \in Nat
    BY <1>1, <1>2
  <1> QED BY <1>1, <1>4, <1>5, <1>6

LEMMA StoredRows ==
    ASSUME NEW o \in Stored, NEW b \in Int
    PROVE  /\ DebitRow(o, b) \in RowType /\ CreditRow(o, b) \in RowType
           /\ FeeRow(o, b) \in RowType
  <1>1. /\ o.flow \in Flows /\ o.key \in Keys \cup Calls /\ o.qr \in QrIds \cup {NoQr}
        /\ FeePool \in Nat
    BY MoneyAssumption DEF MoneyAssumption, Stored
  <1> QED BY <1>1, StoredFields DEF DebitRow, CreditRow, FeeRow, Row, RowType

LEMMA StoredMovement ==
    ASSUME NEW o \in Stored, NEW bal \in [Wallets -> Int]
    PROVE  /\ Settled(bal, o) \in [Wallets -> Int]
           /\ \A w \in Wallets : /\ Movement(o, w) \in Int
                                 /\ Settled(bal, o)[w] = bal[w] + Movement(o, w)
  <1>1. \A w \in Wallets : Movement(o, w) \in Int
    BY StoredFields DEF Movement
  <1> QED BY <1>1 DEF Settled

(***************************************************************************)
(* What the statement lines of one order add. They are new lines when no   *)
(* line has its key yet.                                                   *)
(***************************************************************************)
Paid(o, w) == IF w = o.sender THEN TotalDebit(o) ELSE 0
Received(o, w) == IF w = o.receiver THEN o.amount ELSE 0
Pooled(o, w) == IF w = FeePool THEN FeeOf(o) ELSE 0

LEMMA PartsType ==
    ASSUME NEW o \in Stored, NEW w
    PROVE  /\ Paid(o, w) \in Nat /\ Received(o, w) \in Nat /\ Pooled(o, w) \in Nat
           /\ Movement(o, w) = Received(o, w) + Pooled(o, w) - Paid(o, w)
  BY StoredFields DEF Paid, Received, Pooled, Movement

\* The lines of T tell x more about w than those of S.
Adds(S, T, w, x) ==
    /\ Gained(T, w) = Gained(S, w) + x
    /\ Gained(S, w) \in Int /\ x \in Int
    /\ IsFiniteSet(T) /\ T \subseteq RowType

LEMMA AddsTwice ==
    ASSUME NEW S, NEW T, NEW U, NEW w, NEW x, NEW y, Adds(S, T, w, x), Adds(T, U, w, y)
    PROVE  Adds(S, U, w, x + y)
  BY DEF Adds

LEMMA AddsNothing ==
    ASSUME NEW S, NEW T, NEW w, NEW x, Adds(S, T, w, x)
    PROVE  IsFiniteSet(T) /\ T \subseteq RowType
  BY DEF Adds

LEMMA DebitAdds ==
    ASSUME NEW S, IsFiniteSet(S), S \subseteq RowType, NEW o \in Stored, NEW b \in Int,
           \A r \in S : ~ SameKey(r, o), NEW w
    PROVE  Adds(S, S \cup {DebitRow(o, b)}, w, 0 - Paid(o, w))
  <1> DEFINE a == DebitRow(o, b)
  <1>1. /\ a.wallet = o.sender /\ a.kind = "DEBIT" /\ SameKey(a, o)
        /\ a.amount = o.amount /\ a.fee = FeeOf(o)
    BY DEF DebitRow, Row, SameKey
  <1>2. a \in RowType /\ a \notin S
    BY <1>1, StoredRows
  <1>3. Signed(a) = 0 - TotalDebit(o) /\ TotalDebit(o) \in Nat
    BY <1>1, StoredFields DEF Signed
  <1> HIDE DEF a
  <1>4. /\ Gained(S \cup {a}, w) = Gained(S, w) + (IF a.wallet = w THEN Signed(a) ELSE 0)
        /\ Gained(S, w) \in Int
        /\ IsFiniteSet(S \cup {a}) /\ S \cup {a} \subseteq RowType
    BY <1>2, GainedAdd
  <1>5. Adds(S, S \cup {a}, w, 0 - Paid(o, w))
    BY <1>1, <1>3, <1>4 DEF Paid, Adds
  <1> QED BY <1>5 DEF a

LEMMA CreditAdds ==
    ASSUME NEW S, IsFiniteSet(S), S \subseteq RowType, NEW o \in Stored, NEW b \in Int,
           \A r \in S : SameKey(r, o) => r.kind # "CREDIT", NEW w
    PROVE  Adds(S, S \cup {CreditRow(o, b)}, w, Received(o, w))
  <1> DEFINE a == CreditRow(o, b)
  <1>1. a.wallet = o.receiver /\ a.kind = "CREDIT" /\ SameKey(a, o) /\ a.amount = o.amount
    BY DEF CreditRow, Row, SameKey
  <1>2. a \in RowType /\ a \notin S
    BY <1>1, StoredRows
  <1>3. Signed(a) = o.amount /\ o.amount \in Nat
    BY <1>1, StoredFields DEF Signed
  <1> HIDE DEF a
  <1>4. /\ Gained(S \cup {a}, w) = Gained(S, w) + (IF a.wallet = w THEN Signed(a) ELSE 0)
        /\ Gained(S, w) \in Int
        /\ IsFiniteSet(S \cup {a}) /\ S \cup {a} \subseteq RowType
    BY <1>2, GainedAdd
  <1>5. Adds(S, S \cup {a}, w, Received(o, w))
    BY <1>1, <1>3, <1>4 DEF Received, Adds
  <1> QED BY <1>5 DEF a

LEMMA FeeAdds ==
    ASSUME NEW S, IsFiniteSet(S), S \subseteq RowType, NEW o \in Stored, NEW b \in Int,
           \A r \in S : SameKey(r, o) => r.kind # "FEE", NEW w
    PROVE  Adds(S, S \cup {FeeRow(o, b)}, w, Pooled(o, w))
  <1> DEFINE a == FeeRow(o, b)
  <1>1. a.wallet = FeePool /\ a.kind = "FEE" /\ SameKey(a, o) /\ a.amount = FeeOf(o)
    BY DEF FeeRow, Row, SameKey
  <1>2. a \in RowType /\ a \notin S
    BY <1>1, StoredRows
  <1>3. Signed(a) = FeeOf(o) /\ FeeOf(o) \in Nat
    BY <1>1, StoredFields DEF Signed
  <1> HIDE DEF a
  <1>4. /\ Gained(S \cup {a}, w) = Gained(S, w) + (IF a.wallet = w THEN Signed(a) ELSE 0)
        /\ Gained(S, w) \in Int
        /\ IsFiniteSet(S \cup {a}) /\ S \cup {a} \subseteq RowType
    BY <1>2, GainedAdd
  <1>5. Adds(S, S \cup {a}, w, Pooled(o, w))
    BY <1>1, <1>3, <1>4 DEF Pooled, Adds
  <1> QED BY <1>5 DEF a

\* The two lines of a transfer, and the FEE line of a payment. Without a FEE_POOL
\* wallet none is written, and no wallet there is has received the fee.
TransferRows(o, b, d) == {DebitRow(o, b), CreditRow(o, d)}
FeeRows(o, p) == IF HasFeePool THEN {FeeRow(o, p)} ELSE {}

LEMMA TransferAdds ==
    ASSUME NEW S, IsFiniteSet(S), S \subseteq RowType, NEW o \in Stored, NEW b \in Int,
           NEW d \in Int, \A r \in S : ~ SameKey(r, o), NEW w
    PROVE  Adds(S, S \cup TransferRows(o, b, d), w, (0 - Paid(o, w)) + Received(o, w))
  <1> DEFINE one == S \cup {DebitRow(o, b)}
  <1>1. Adds(S, one, w, 0 - Paid(o, w))
    BY DebitAdds
  <1>2. \A r \in one : SameKey(r, o) => r.kind # "CREDIT"
    BY DEF DebitRow, Row
  <1>3. S \cup TransferRows(o, b, d) = one \cup {CreditRow(o, d)}
    BY DEF TransferRows
  <1> HIDE DEF one
  <1>4. IsFiniteSet(one) /\ one \subseteq RowType
    BY <1>1, AddsNothing
  <1>5. Adds(one, one \cup {CreditRow(o, d)}, w, Received(o, w))
    BY <1>2, <1>4, CreditAdds
  <1> QED BY <1>1, <1>3, <1>5, AddsTwice

LEMMA PaymentAdds ==
    ASSUME NEW S, IsFiniteSet(S), S \subseteq RowType, NEW o \in Stored, NEW b \in Int,
           NEW d \in Int, NEW p \in Int, \A r \in S : ~ SameKey(r, o), NEW w \in Wallets
    PROVE  Adds(S, S \cup TransferRows(o, b, d) \cup FeeRows(o, p), w, Movement(o, w))
  <1> DEFINE two == S \cup TransferRows(o, b, d)
             x == (0 - Paid(o, w)) + Received(o, w)
  <1>1. Adds(S, two, w, x)
    BY TransferAdds
  <1>2. \A r \in two : SameKey(r, o) => r.kind # "FEE"
    BY DEF TransferRows, DebitRow, CreditRow, Row
  <1>3. /\ Paid(o, w) \in Nat /\ Received(o, w) \in Nat /\ Pooled(o, w) \in Nat
        /\ Movement(o, w) = x + Pooled(o, w)
    BY PartsType
  <1>4. x \in Int
    BY <1>3
  <1> HIDE DEF two, x
  <1>5. CASE HasFeePool
    <2>1. IsFiniteSet(two) /\ two \subseteq RowType
      BY <1>1, AddsNothing
    <2>2. Adds(two, two \cup {FeeRow(o, p)}, w, Pooled(o, w))
      BY <1>2, <2>1, FeeAdds
    <2>3. Adds(S, two \cup {FeeRow(o, p)}, w, Movement(o, w))
      BY <1>1, <1>3, <2>2, AddsTwice
    <2> QED BY <1>5, <2>3 DEF FeeRows, two
  <1>6. CASE ~ HasFeePool
    <2>1. Pooled(o, w) = 0 /\ two \cup FeeRows(o, p) = two
      BY <1>6 DEF Pooled, HasFeePool, FeeRows
    <2>2. Movement(o, w) = x
      BY <1>3, <1>4, <2>1
    <2> QED BY <1>1, <2>1, <2>2 DEF two
  <1> QED BY <1>5, <1>6

\* An order of another service has no fee.
LEMMA FreeAdds ==
    ASSUME NEW S, IsFiniteSet(S), S \subseteq RowType, NEW o \in Stored, o.flow # "payment",
           NEW b \in Int, NEW d \in Int, \A r \in S : ~ SameKey(r, o), NEW w
    PROVE  Adds(S, S \cup TransferRows(o, b, d), w, Movement(o, w))
  <1>1. /\ Paid(o, w) \in Nat /\ Received(o, w) \in Nat /\ Pooled(o, w) = 0
        /\ Movement(o, w) = Received(o, w) + Pooled(o, w) - Paid(o, w)
    BY PartsType, StoredFields DEF Pooled
  <1>2. Movement(o, w) = (0 - Paid(o, w)) + Received(o, w)
    BY <1>1
  <1> QED BY <1>2, TransferAdds

(***************************************************************************)
(* The same for the double-entry ledger.                                   *)
(***************************************************************************)
Side(L, w, type) == {e \in L : e.wallet = w /\ e.type = type}
Net(L, w) == SumOf(Side(L, w, "CREDIT")) - SumOf(Side(L, w, "DEBIT"))
Signum(e) == IF e.type = "CREDIT" THEN e.amount ELSE 0 - e.amount
Share(e, w) == IF e.wallet = w THEN Signum(e) ELSE 0

\* The entries of o in the ledger, whose key and flow need not be a client's.
Entries == [flow : Flows, key : Keys \cup Calls, leg : {"transfer", "fee"},
            type : {"DEBIT", "CREDIT"}, wallet : Nat, amount : Nat]

LEMMA SideAdd ==
    ASSUME NEW L, IsFiniteSet(L), L \subseteq Entries, NEW e \in Entries, e \notin L, NEW w, NEW type
    PROVE  /\ SumOf(Side(L \cup {e}, w, type))
                = SumOf(Side(L, w, type)) + (IF e.wallet = w /\ e.type = type THEN e.amount ELSE 0)
           /\ SumOf(Side(L, w, type)) \in Int
  <1> DEFINE side == Side(L, w, type)
  <1>1. IsFiniteSet(side) /\ side \subseteq L
    <2>1. side \subseteq L
      BY DEF Side
    <2> QED BY <2>1, FS_Subset
  <1>2. e.amount \in Int /\ \A x \in side : x.amount \in Int
    BY <1>1 DEF Entries
  <1>3. Side(L \cup {e}, w, type) = IF e.wallet = w /\ e.type = type THEN side \cup {e} ELSE side
    BY DEF Side
  <1>4. e \notin side
    BY <1>1
  <1> HIDE DEF side
  <1>5. SumOf(side \cup {e}) = SumOf(side) + e.amount /\ SumOf(side) \in Int
    BY <1>1, <1>2, <1>4, SumOfAdd
  <1> QED BY <1>2, <1>3, <1>5 DEF side

LEMMA NetAdd ==
    ASSUME NEW L, IsFiniteSet(L), L \subseteq Entries, NEW e \in Entries, e \notin L, NEW w
    PROVE  /\ Net(L \cup {e}, w) = Net(L, w) + Share(e, w)
           /\ Net(L, w) \in Int /\ Share(e, w) \in Int
           /\ IsFiniteSet(L \cup {e}) /\ L \cup {e} \subseteq Entries
  <1> DEFINE credits(M) == SumOf(Side(M, w, "CREDIT"))
             debits(M) == SumOf(Side(M, w, "DEBIT"))
  <1>1. /\ credits(L \cup {e})
             = credits(L) + (IF e.wallet = w /\ e.type = "CREDIT" THEN e.amount ELSE 0)
        /\ credits(L) \in Int
    BY SideAdd
  <1>2. /\ debits(L \cup {e})
             = debits(L) + (IF e.wallet = w /\ e.type = "DEBIT" THEN e.amount ELSE 0)
        /\ debits(L) \in Int
    BY SideAdd
  <1>3. e.amount \in Int /\ e.type \in {"CREDIT", "DEBIT"}
    BY DEF Entries
  <1>4. /\ Net(L, w) = credits(L) - debits(L)
        /\ Net(L \cup {e}, w) = credits(L \cup {e}) - debits(L \cup {e})
    BY DEF Net
  <1> HIDE DEF credits, debits
  <1>5. Net(L \cup {e}, w) = Net(L, w) + Share(e, w) /\ Net(L, w) \in Int /\ Share(e, w) \in Int
    BY <1>1, <1>2, <1>3, <1>4 DEF Share, Signum
  <1>6. IsFiniteSet(L \cup {e})
    BY FS_AddElement
  <1> QED BY <1>5, <1>6

\* A debit and a credit entry that are not in the ledger yet.
LEMMA PairPosted ==
    ASSUME NEW L, IsFiniteSet(L), L \subseteq Entries, NEW d \in Entries, NEW c \in Entries,
           d \notin L, c \notin L, c # d, NEW w
    PROVE  /\ Net(L \cup {d, c}, w) = Net(L, w) + Share(d, w) + Share(c, w)
           /\ Net(L, w) \in Int
           /\ IsFiniteSet(L \cup {d, c}) /\ L \cup {d, c} \subseteq Entries
  <1> DEFINE M == L \cup {d}
  <1>1. c \notin M /\ L \cup {d, c} = M \cup {c}
    OBVIOUS
  <1>2. /\ Net(M, w) = Net(L, w) + Share(d, w) /\ Net(L, w) \in Int /\ Share(d, w) \in Int
        /\ IsFiniteSet(M) /\ M \subseteq Entries
    BY NetAdd
  <1> HIDE DEF M
  <1>3. /\ Net(M \cup {c}, w) = Net(M, w) + Share(c, w) /\ Share(c, w) \in Int
        /\ IsFiniteSet(M \cup {c}) /\ M \cup {c} \subseteq Entries
    BY <1>1, <1>2, NetAdd
  <1>4. Net(M \cup {c}, w) = Net(L, w) + Share(d, w) + Share(c, w)
    BY <1>2, <1>3
  <1> QED BY <1>1, <1>2, <1>3, <1>4

Given(who, amount, w) == IF w = who THEN amount ELSE 0

\* The entries of one order post what it moves, the fee with the entries of the fee.
LEMMA EntryShares ==
    ASSUME NEW o \in Stored, NEW leg \in {"transfer", "fee"}, NEW who \in Nat, NEW amount \in Nat, NEW w
    PROVE  /\ Entry(o, leg, "DEBIT", who, amount) \in Entries
           /\ Entry(o, leg, "CREDIT", who, amount) \in Entries
           /\ Share(Entry(o, leg, "DEBIT", who, amount), w) = 0 - Given(who, amount, w)
           /\ Share(Entry(o, leg, "CREDIT", who, amount), w) = Given(who, amount, w)
           /\ Given(who, amount, w) \in Nat
  BY DEF Stored, Entry, Entries, Share, Signum, Given

LEMMA TransferPosted ==
    ASSUME NEW L, IsFiniteSet(L), L \subseteq Entries, NEW o \in Stored, NEW w,
           \A e \in L : ~ SameKey(e, o)
    PROVE  /\ Net(L \cup TransferEntries(o), w)
                = Net(L, w) - Given(o.sender, o.amount, w) + Given(o.receiver, o.amount, w)
           /\ Net(L, w) \in Int
           /\ IsFiniteSet(L \cup TransferEntries(o)) /\ L \cup TransferEntries(o) \subseteq Entries
  <1> DEFINE d == Entry(o, "transfer", "DEBIT", o.sender, o.amount)
             c == Entry(o, "transfer", "CREDIT", o.receiver, o.amount)
  <1>1. o.sender \in Nat /\ o.receiver \in Nat /\ o.amount \in Nat
    BY StoredFields
  <1>2. /\ d \in Entries /\ c \in Entries
        /\ Share(d, w) = 0 - Given(o.sender, o.amount, w)
        /\ Share(c, w) = Given(o.receiver, o.amount, w)
        /\ Given(o.sender, o.amount, w) \in Nat /\ Given(o.receiver, o.amount, w) \in Nat
    BY <1>1, EntryShares
  <1>3. d \notin L /\ c \notin L /\ c # d
    BY DEF Entry, SameKey
  <1>4. TransferEntries(o) = {d, c}
    BY DEF TransferEntries
  <1> HIDE DEF d, c
  <1>5. /\ Net(L \cup {d, c}, w) = Net(L, w) + Share(d, w) + Share(c, w)
        /\ Net(L, w) \in Int
        /\ IsFiniteSet(L \cup {d, c}) /\ L \cup {d, c} \subseteq Entries
    BY <1>2, <1>3, PairPosted
  <1>6. Net(L \cup {d, c}, w)
           = Net(L, w) - Given(o.sender, o.amount, w) + Given(o.receiver, o.amount, w)
    BY <1>2, <1>5
  <1> QED BY <1>4, <1>5, <1>6

LEMMA FeePosted ==
    ASSUME NEW L, IsFiniteSet(L), L \subseteq Entries, NEW o \in Stored, NEW w,
           \A e \in L : ~ SameKey(e, o)
    PROVE  /\ Net(L \cup TransferEntries(o) \cup FeeEntries(o), w) = Net(L, w) + Movement(o, w)
           /\ IsFiniteSet(L \cup TransferEntries(o) \cup FeeEntries(o))
           /\ L \cup TransferEntries(o) \cup FeeEntries(o) \subseteq Entries
  <1> DEFINE M == L \cup TransferEntries(o)
             d == Entry(o, "fee", "DEBIT", o.sender, FeeOf(o))
             c == Entry(o, "fee", "CREDIT", FeePool, FeeOf(o))
  <1>1. o.sender \in Nat /\ o.receiver \in Nat /\ FeePool \in Nat /\ FeeOf(o) \in Nat /\ o.amount \in Nat
    BY StoredFields, MoneyAssumption DEF MoneyAssumption
  <1>2. /\ d \in Entries /\ c \in Entries
        /\ Share(d, w) = 0 - Given(o.sender, FeeOf(o), w)
        /\ Share(c, w) = Given(FeePool, FeeOf(o), w)
        /\ Given(o.sender, FeeOf(o), w) \in Nat /\ Given(FeePool, FeeOf(o), w) \in Nat
        /\ Given(o.sender, o.amount, w) \in Nat /\ Given(o.receiver, o.amount, w) \in Nat
    <2>1. Given(o.sender, o.amount, w) \in Nat /\ Given(o.receiver, o.amount, w) \in Nat
      BY <1>1 DEF Given
    <2> QED BY <1>1, <2>1, EntryShares
  <1>3. d \notin M /\ c \notin M /\ c # d
    BY DEF Entry, SameKey, TransferEntries
  <1>4. L \cup TransferEntries(o) \cup FeeEntries(o) = M \cup {d, c}
    BY DEF FeeEntries
  <1> HIDE DEF d, c
  <1>5. /\ Net(M, w) = Net(L, w) - Given(o.sender, o.amount, w) + Given(o.receiver, o.amount, w)
        /\ Net(L, w) \in Int /\ IsFiniteSet(M) /\ M \subseteq Entries
    BY TransferPosted
  <1> HIDE DEF M
  <1>6. /\ Net(M \cup {d, c}, w) = Net(M, w) + Share(d, w) + Share(c, w)
        /\ IsFiniteSet(M \cup {d, c}) /\ M \cup {d, c} \subseteq Entries
    BY <1>2, <1>3, <1>5, PairPosted
  <1>7. Movement(o, w) = Given(o.receiver, o.amount, w) + Given(FeePool, FeeOf(o), w)
                           - Given(o.sender, o.amount, w) - Given(o.sender, FeeOf(o), w)
    BY <1>1, StoredFields DEF Given, Movement
  <1>8. Net(M \cup {d, c}, w) = Net(L, w) + Movement(o, w)
    BY <1>2, <1>5, <1>6, <1>7
  <1> QED BY <1>4, <1>6, <1>8

\* The entries of M post x more to w than those of L.
Posts(L, M, w, x) ==
    /\ Net(M, w) = Net(L, w) + x
    /\ Net(L, w) \in Int /\ x \in Int
    /\ IsFiniteSet(M) /\ M \subseteq Entries

LEMMA PaymentPosts ==
    ASSUME NEW L, IsFiniteSet(L), L \subseteq Entries, NEW o \in Stored, NEW w,
           \A e \in L : ~ SameKey(e, o)
    PROVE  Posts(L, L \cup TransferEntries(o) \cup FeeEntries(o), w, Movement(o, w))
  <1>1. Movement(o, w) \in Int
    BY PartsType
  <1>2. Net(L, w) \in Int
    BY TransferPosted
  <1> QED BY <1>1, <1>2, FeePosted DEF Posts

LEMMA FreePosts ==
    ASSUME NEW L, IsFiniteSet(L), L \subseteq Entries, NEW o \in Stored, NEW w,
           \A e \in L : ~ SameKey(e, o), o.flow # "payment"
    PROVE  Posts(L, L \cup TransferEntries(o), w, Movement(o, w))
  <1> DEFINE M == L \cup TransferEntries(o)
  <1>1. /\ Net(M, w) = Net(L, w) - Given(o.sender, o.amount, w) + Given(o.receiver, o.amount, w)
        /\ Net(L, w) \in Int
        /\ IsFiniteSet(M) /\ M \subseteq Entries
    BY TransferPosted
  <1>2. FeeOf(o) = 0 /\ TotalDebit(o) = o.amount /\ o.amount \in Nat
    BY StoredFields
  <1>3. /\ Movement(o, w) = Given(o.receiver, o.amount, w) - Given(o.sender, o.amount, w)
        /\ Given(o.receiver, o.amount, w) \in Nat /\ Given(o.sender, o.amount, w) \in Nat
    BY <1>2 DEF Movement, Given
  <1> HIDE DEF M
  <1>4. Posts(L, M, w, Movement(o, w))
    BY <1>1, <1>3 DEF Posts
  <1> QED BY <1>4 DEF M

LEMMA NothingGained ==
    ASSUME NEW w
    PROVE  Gained({}, w) = 0 /\ Net({}, w) = 0
  <1>1. {r \in {} : r.wallet = w} = {} /\ \A type : Side({}, w, type) = {}
    BY DEF Side
  <1> QED BY <1>1, SumsOfNothing DEF Gained, Net
=============================================================================
