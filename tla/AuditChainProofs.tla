--------------------------- MODULE AuditChainProofs ---------------------------
(***************************************************************************)
(* Proofs about AuditChain for any number of writers and any clock: the    *)
(* chain has one beginning, and only rows with a late timestamp are        *)
(* skipped by their successors.                                            *)
(***************************************************************************)
EXTENDS AuditChain, TLAPS

RecordType == [hash : Writers, createdAt : 0 .. MaxTime, prev : Writers \cup {None}]

LEMMA RecordTyped ==
    ASSUME TypeOK, NEW w \in Writers
    PROVE  RecordOf(w) \in RecordType
  BY DEF TypeOK, RecordOf, RecordType

LEMMA RowTyped ==
    ASSUME TypeOK, NEW i \in Rows
    PROVE  chain[i].hash \in Writers /\ chain[i].createdAt \in Nat
  <1>1. chain \in Seq(RecordType)
    BY DEF TypeOK, RecordType
  <1>2. chain[i] \in RecordType
    BY <1>1 DEF Rows
  <1>3. 0 .. MaxTime \subseteq Nat
    BY AuditAssumption DEF AuditAssumption
  <1> QED BY <1>2, <1>3 DEF RecordType

LEMMA TypeNext == TypeOK /\ [Next]_vars => TypeOK'
  <1> SUFFICES ASSUME TypeOK, [Next]_vars PROVE TypeOK'
    OBVIOUS
  <1> USE DEF TypeOK, Goto
  <1>1. CASE Tick
    BY <1>1, AuditAssumption DEF Tick, AuditAssumption
  <1>2. ASSUME NEW w \in Writers, Stamp(w) \/ TakeLock(w) \/ Insert(w) \/ Rollback(w) PROVE TypeOK'
    BY <1>2 DEF Stamp, TakeLock, Insert, Rollback
  <1>3. ASSUME NEW w \in Writers, ReadLast(w) PROVE TypeOK'
    <2>1. \A i \in Rows : chain[i].hash \in Writers
      BY RowTyped
    <2>2. prevHash' \in [Writers -> Writers \cup {None}]
      BY <1>3, <2>1 DEF ReadLast, Latest
    <2> QED BY <1>3, <2>2 DEF ReadLast
  <1>4. ASSUME NEW w \in Writers, Commit(w) PROVE TypeOK'
    <2>1. chain' \in Seq(RecordType)
      <3>1. chain \in Seq(RecordType) /\ chain' = Append(chain, RecordOf(w))
        BY <1>4 DEF Commit, RecordType
      <3> QED BY <3>1, RecordTyped
    <2> QED BY <1>4, <2>1 DEF Commit, RecordType
  <1>5. CASE UNCHANGED vars
    BY <1>5 DEF vars
  <1> QED BY <1>1, <1>2, <1>3, <1>4, <1>5 DEF Next, Write

\* The writer past the lock is the only one, and what it has read stays one of the
\* latest rows until it commits, because nobody else can add a row.
OneWriter == \A w \in Writers : pc[w] \in {"read", "insert", "commit"} => advisory = w

LinksLatest ==
    \A w \in Writers : pc[w] \in {"insert", "commit"} =>
        \/ chain = <<>> /\ prevHash[w] = None
        \/ \E i \in Latest : prevHash[w] = chain[i].hash

ChainInv ==
    /\ TypeOK
    /\ OneWriter
    /\ LinksLatest
    /\ \A i \in Rows : chain[i].prev = None <=> i = 1
    /\ OnlyLateRowsAreSkipped

LEMMA ChainInit == Init => ChainInv
  <1> SUFFICES ASSUME Init PROVE ChainInv
    OBVIOUS
  <1>1. chain = <<>> /\ Rows = {}
    BY DEF Init, Rows
  <1>2. TypeOK
    BY AuditAssumption DEF Init, TypeOK, AuditAssumption
  <1> QED BY <1>1, <1>2 DEF Init, ChainInv, OneWriter, LinksLatest, OnlyLateRowsAreSkipped

\* The new row is the last one, and the others keep their places.
LEMMA Appended ==
    ASSUME TypeOK, NEW w \in Writers, Commit(w)
    PROVE  /\ Len(chain') = Len(chain) + 1 /\ Len(chain) \in Nat
           /\ Rows' = Rows \cup {Len(chain) + 1}
           /\ \A i \in Rows : chain'[i] = chain[i]
           /\ chain'[Len(chain) + 1] = RecordOf(w)
  <1>1. chain \in Seq(RecordType) /\ RecordOf(w) \in RecordType
    BY RecordTyped DEF TypeOK, RecordType
  <1>2. chain' = Append(chain, RecordOf(w))
    BY DEF Commit
  <1> QED BY <1>1, <1>2 DEF Rows

LEMMA ChainCommit ==
    ASSUME ChainInv, NEW w \in Writers, Commit(w)
    PROVE  ChainInv'
  <1> DEFINE n == Len(chain)
  <1>1. /\ n \in Nat /\ Rows = 1 .. n /\ Rows' = 1 .. n + 1
        /\ \A i \in 1 .. n : chain'[i] = chain[i]
        /\ chain'[n + 1].prev = prevHash[w]
    <2>1. /\ Len(chain') = n + 1 /\ n \in Nat
          /\ Rows = 1 .. n /\ \A i \in Rows : chain'[i] = chain[i]
          /\ chain'[n + 1] = RecordOf(w)
      BY Appended DEF ChainInv, Rows
    <2> QED BY <2>1 DEF Rows, RecordOf
  <1>2. TypeOK /\ TypeOK'
    BY TypeNext DEF ChainInv, Next, Write
  <1>3. advisory = w /\ pc' = [pc EXCEPT ![w] = "done"]
    BY DEF ChainInv, OneWriter, Commit, Goto
  <1>4. \A v \in Writers : pc'[v] \notin {"read", "insert", "commit"}
    BY <1>2, <1>3 DEF ChainInv, OneWriter, TypeOK
  <1>5. \/ n = 0 /\ prevHash[w] = None
        \/ /\ prevHash[w] \in Writers
           /\ \E i \in 1 .. n : /\ prevHash[w] = chain[i].hash
                                /\ chain[n].createdAt <= chain[i].createdAt
    <2>1. CASE chain = <<>> /\ prevHash[w] = None
      BY <2>1
    <2>2. CASE \E i \in Latest : prevHash[w] = chain[i].hash
      <3>1. PICK i \in Latest : prevHash[w] = chain[i].hash
        BY <2>2
      <3>2. i \in 1 .. n /\ n \in Rows /\ chain[n].createdAt <= chain[i].createdAt
        BY <1>1, <3>1 DEF Latest
      <3>3. chain[i].hash \in Writers
        BY <1>1, <1>2, <3>2, RowTyped
      <3> QED BY <3>1, <3>2, <3>3
    <2> QED BY <2>1, <2>2 DEF ChainInv, LinksLatest, Commit
  <1> HIDE DEF n
  <1>6. \A i \in Rows' : chain'[i].prev = None <=> i = 1
    <2> SUFFICES ASSUME NEW i \in Rows' PROVE chain'[i].prev = None <=> i = 1
      OBVIOUS
    <2>1. CASE i \in 1 .. n
      BY <1>1, <2>1 DEF ChainInv
    <2>2. CASE i = n + 1
      BY <1>1, <1>5, <2>2, AuditAssumption DEF AuditAssumption
    <2> QED BY <1>1, <2>1, <2>2
  <1>7. OnlyLateRowsAreSkipped'
    <2> SUFFICES ASSUME NEW i \in Rows' \ {1}
                 PROVE  \/ chain'[i].prev = chain'[i - 1].hash
                        \/ \E j \in 1 .. i - 2 : chain'[j].createdAt >= chain'[i - 1].createdAt
      BY DEF OnlyLateRowsAreSkipped
    <2>1. CASE i \in 1 .. n
      <3>1. \/ chain[i].prev = chain[i - 1].hash
            \/ \E j \in 1 .. i - 2 : chain[j].createdAt >= chain[i - 1].createdAt
        BY <1>1, <2>1 DEF ChainInv, OnlyLateRowsAreSkipped
      <3>2. i - 1 \in 1 .. n /\ \A j \in 1 .. i - 2 : j \in 1 .. n
        BY <1>1, <2>1
      <3> QED BY <1>1, <2>1, <3>1, <3>2
    <2>2. CASE i = n + 1
      <3>1. PICK k \in 1 .. n : /\ prevHash[w] = chain[k].hash
                                /\ chain[n].createdAt <= chain[k].createdAt
        BY <1>1, <1>5, <2>2
      <3>2. i - 1 = n /\ n \in 1 .. n /\ chain'[n] = chain[n] /\ chain'[k] = chain[k]
        BY <1>1, <2>2, <3>1
      <3>3. CASE k = n
        BY <1>1, <2>2, <3>1, <3>2, <3>3
      <3>4. CASE k # n
        <4>1. k \in 1 .. i - 2
          BY <1>1, <2>2, <3>4
        <4>2. chain[k].createdAt \in Nat /\ chain[n].createdAt \in Nat
          BY <1>1, <1>2, <3>2, RowTyped
        <4>3. chain'[k].createdAt >= chain'[i - 1].createdAt
          BY <3>1, <3>2, <4>2
        <4> QED BY <4>1, <4>3
      <3> QED BY <3>3, <3>4
    <2> QED BY <1>1, <2>1, <2>2
  <1> QED BY <1>2, <1>4, <1>6, <1>7 DEF ChainInv, OneWriter, LinksLatest

LEMMA ChainNext == ChainInv /\ [Next]_vars => ChainInv'
  <1> SUFFICES ASSUME ChainInv, [Next]_vars PROVE ChainInv'
    OBVIOUS
  <1>1. ASSUME NEW w \in Writers, Commit(w) PROVE ChainInv'
    BY <1>1, ChainCommit
  <1>2. TypeOK'
    BY TypeNext DEF ChainInv
  <1>3. ASSUME UNCHANGED chain, OneWriter', LinksLatest' PROVE ChainInv'
    BY <1>2, <1>3 DEF ChainInv, Rows, OnlyLateRowsAreSkipped
  <1> USE DEF ChainInv, TypeOK, OneWriter, Goto
  <1>4. CASE Tick \/ UNCHANGED vars
    <2>1. UNCHANGED <<chain, advisory, prevHash, pc>>
      BY <1>4 DEF Tick, vars
    <2> QED BY <1>3, <2>1 DEF LinksLatest, Latest, Rows
  <1>5. ASSUME NEW w \in Writers, Stamp(w) \/ Insert(w) \/ Rollback(w) PROVE ChainInv'
    <2>1. UNCHANGED <<chain, prevHash>>
      BY <1>5 DEF Stamp, Insert, Rollback
    <2>2. OneWriter'
      BY <1>5, AuditAssumption DEF Stamp, Insert, Rollback, AuditAssumption
    <2>3. LinksLatest'
      BY <1>5, <2>1 DEF Stamp, Insert, Rollback, LinksLatest, Latest, Rows
    <2> QED BY <1>3, <2>1, <2>2, <2>3
  <1>6. ASSUME NEW w \in Writers, TakeLock(w) PROVE ChainInv'
    <2>1. UNCHANGED <<chain, prevHash>>
      BY <1>6 DEF TakeLock
    <2>2. OneWriter'
      BY <1>6, AuditAssumption DEF TakeLock, AuditAssumption
    <2>3. LinksLatest'
      BY <1>6, <2>1 DEF TakeLock, LinksLatest, Latest, Rows
    <2> QED BY <1>3, <2>1, <2>2, <2>3
  <1>7. ASSUME NEW w \in Writers, ReadLast(w) PROVE ChainInv'
    <2>1. UNCHANGED <<chain, advisory>> /\ \A v \in Writers \ {w} : pc[v] \notin {"insert", "commit"}
      BY <1>7 DEF ReadLast
    <2>2. OneWriter'
      BY <1>7 DEF ReadLast
    <2>3. LinksLatest'
      <3> SUFFICES ASSUME NEW v \in Writers, pc'[v] \in {"insert", "commit"}
                   PROVE  \/ chain = <<>> /\ prevHash'[v] = None
                          \/ \E i \in Latest : prevHash'[v] = chain[i].hash
        BY <2>1 DEF LinksLatest, Latest, Rows
      <3>1. v = w
        BY <1>7, <2>1 DEF ReadLast
      <3> QED BY <1>7, <3>1 DEF ReadLast
    <2> QED BY <1>3, <2>1, <2>2, <2>3
  <1> QED BY <1>1, <1>4, <1>5, <1>6, <1>7 DEF Next, Write

LEMMA ChainHolds == Spec => []ChainInv
  BY ChainInit, ChainNext, PTL DEF Spec

\* The chain has one beginning, however many services write the first rows at once.
THEOREM ChainHasOneBeginning == Spec => []OneBeginning
  <1>1. ChainInv => OneBeginning
    BY DEF ChainInv, OneBeginning
  <1> QED BY <1>1, ChainHolds, PTL

\* A row is linked to the one committed just before it, unless an earlier one carries
\* a timestamp at least as late.
THEOREM SkipsAreLate == Spec => []OnlyLateRowsAreSkipped
  <1>1. ChainInv => OnlyLateRowsAreSkipped
    BY DEF ChainInv
  <1> QED BY <1>1, ChainHolds, PTL
=============================================================================
