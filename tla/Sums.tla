---------------------------------- MODULE Sums ----------------------------------
(***************************************************************************)
(* Finite sets: the greatest number of one, and sums over one, which are   *)
(* folds (SumFunctionOnSet) and whose facts an account book needs.         *)
(* Induction over a finite set is the choice of a minimal counterexample.  *)
(***************************************************************************)
EXTENDS FiniteSetsExt, FiniteSetTheorems, TLAPS

Picked(s) == CHOOSE x \in s : TRUE

\* The equation that SumFunctionOnSet(fun, S) solves.
Sums(g, fun, S) ==
    g = [s \in SUBSET S |-> IF s = {} THEN 0 ELSE fun[Picked(s)] + g[s \ {Picked(s)}]]

LEMMA SumsAt ==
    ASSUME NEW g, NEW fun, NEW S, Sums(g, fun, S), NEW s \in SUBSET S
    PROVE  g[s] = IF s = {} THEN 0 ELSE fun[Picked(s)] + g[s \ {Picked(s)}]
  <1> DEFINE e(t) == IF t = {} THEN 0 ELSE fun[Picked(t)] + g[t \ {Picked(t)}]
  <1>1. g = [t \in SUBSET S |-> e(t)]
    BY DEF Sums
  <1> HIDE DEF e
  <1>2. g[s] = e(s)
    BY <1>1
  <1> QED BY <1>2 DEF e

LEMMA PickedIn ==
    ASSUME NEW s, s # {}
    PROVE  Picked(s) \in s
  BY DEF Picked

\* A property of subsets of a finite set that fails somewhere fails first somewhere.
LEMMA Minimal ==
    ASSUME NEW S, IsFiniteSet(S), NEW Bad, Bad \subseteq SUBSET S, Bad # {}
    PROVE  \E T \in Bad : \A U \in SUBSET T : U # T => U \notin Bad
  <1>1. IsWellFoundedOn(StrictSubsetOrdering(S), SUBSET S)
    BY FS_StrictSubsetOrderingWellFounded, FS_FiniteSubsetsOfFinite
  <1>2. PICK T \in Bad : \A U \in Bad : <<U, T>> \notin StrictSubsetOrdering(S)
    BY <1>1, WFMin
  <1> QED BY <1>2 DEF StrictSubsetOrdering

\* A finite set of numbers has a greatest one: the one with the fewest above it.
LEMMA Greatest ==
    ASSUME NEW A, IsFiniteSet(A), A \subseteq Nat, A # {}
    PROVE  \E m \in A : \A a \in A : a <= m
  <1> DEFINE above(a) == {b \in A : b > a}
             Bad == {above(a) : a \in A}
  <1>1. PICK T \in Bad : \A U \in SUBSET T : U # T => U \notin Bad
    <2>1. Bad \subseteq SUBSET A /\ Bad # {}
      OBVIOUS
    <2> HIDE DEF Bad
    <2> QED BY <2>1, Minimal
  <1>2. PICK m \in A : T = above(m)
    BY <1>1
  <1>3. ASSUME NEW a \in A, ~ (a <= m) PROVE FALSE
    <2>1. a > m /\ a \in Nat /\ m \in Nat
      BY <1>3
    <2>2. a \in above(m) /\ a \notin above(a)
      BY <2>1
    <2>3. ASSUME NEW b \in above(a) PROVE b \in above(m)
      <3>1. b \in Nat /\ b > a /\ b \in A
        OBVIOUS
      <3> QED BY <2>1, <3>1
    <2>4. above(a) \in Bad
      OBVIOUS
    <2> HIDE DEF above, Bad
    <2> QED BY <1>1, <1>2, <2>2, <2>3, <2>4
  <1> QED BY <1>3

\* Solutions for two sets and two functions agree where the functions do.
LEMMA SumsAgree ==
    ASSUME NEW S, NEW T, NEW f, NEW g, NEW fs, NEW gs,
           IsFiniteSet(S), Sums(fs, f, S), Sums(gs, g, T),
           \A x \in S \cap T : f[x] = g[x],
           NEW U, U \subseteq S \cap T
    PROVE  fs[U] = gs[U]
  <1> DEFINE Bad == {W \in SUBSET (S \cap T) : fs[W] # gs[W]}
  <1> SUFFICES ASSUME Bad # {} PROVE FALSE
    OBVIOUS
  <1>1. PICK W \in Bad : \A V \in SUBSET W : V # W => V \notin Bad
    <2>1. Bad \subseteq SUBSET S
      OBVIOUS
    <2> HIDE DEF Bad
    <2> QED BY <2>1, Minimal
  <1>2. W # {}
    BY <1>1, SumsAt
  <1>3. Picked(W) \in W
    BY <1>2, PickedIn
  <1>4. /\ fs[W] = f[Picked(W)] + fs[W \ {Picked(W)}]
        /\ gs[W] = g[Picked(W)] + gs[W \ {Picked(W)}]
    BY <1>1, <1>2, SumsAt
  <1>5. fs[W \ {Picked(W)}] = gs[W \ {Picked(W)}]
    BY <1>1, <1>3
  <1> QED BY <1>1, <1>3, <1>4, <1>5

LEMMA SumsExist ==
    ASSUME NEW S, IsFiniteSet(S), NEW fun
    PROVE  \E g : Sums(g, fun, S)
  <1> DEFINE Bad == {T \in SUBSET S : ~ \E g : Sums(g, fun, T)}
  <1> SUFFICES ASSUME Bad # {} PROVE FALSE
    OBVIOUS
  <1>1. PICK T \in Bad : \A U \in SUBSET T : U # T => U \notin Bad
    <2>1. Bad \subseteq SUBSET S
      OBVIOUS
    <2> HIDE DEF Bad
    <2> QED BY <2>1, Minimal
  <1> DEFINE G(U) == CHOOSE g : Sums(g, fun, U)
             h == [s \in SUBSET T |-> IF s = {} THEN 0
                                      ELSE fun[Picked(s)] + G(s \ {Picked(s)})[s \ {Picked(s)}]]
  <1>2. ASSUME NEW U \in SUBSET T, U # T PROVE Sums(G(U), fun, U)
    <2>1. U \in SUBSET S /\ U \notin Bad
      BY <1>1, <1>2
    <2>2. \E g : Sums(g, fun, U)
      BY <2>1
    <2> QED BY <2>2
  <1> HIDE DEF G
  <1>3. ASSUME NEW U \in SUBSET T, U # T PROVE h[U] = G(U)[U]
    <2>1. h[U] = IF U = {} THEN 0 ELSE fun[Picked(U)] + G(U \ {Picked(U)})[U \ {Picked(U)}]
      OBVIOUS
    <2>2. G(U)[U] = IF U = {} THEN 0 ELSE fun[Picked(U)] + G(U)[U \ {Picked(U)}]
      BY <1>2, <1>3, SumsAt
    <2>3. ASSUME U # {} PROVE G(U)[U \ {Picked(U)}] = G(U \ {Picked(U)})[U \ {Picked(U)}]
      <3>1. Picked(U) \in U
        BY <2>3, PickedIn
      <3>2. IsFiniteSet(U)
        BY FS_Subset, <1>1
      <3> DEFINE V == U \ {Picked(U)}
      <3>3. V \in SUBSET T /\ V # T /\ V \subseteq U
        BY <3>1
      <3>4. Sums(G(V), fun, V) /\ Sums(G(U), fun, U)
        BY <1>2, <1>3, <3>3
      <3> HIDE DEF V
      <3>5. G(U)[V] = G(V)[V]
        BY <3>2, <3>3, <3>4, SumsAgree
      <3> QED BY <3>5 DEF V
    <2> QED BY <2>1, <2>2, <2>3
  <1>4. ASSUME NEW s \in SUBSET T, s # {}
        PROVE  G(s \ {Picked(s)})[s \ {Picked(s)}] = h[s \ {Picked(s)}]
    <2>1. Picked(s) \in s
      BY <1>4, PickedIn
    <2>2. s \ {Picked(s)} \in SUBSET T /\ s \ {Picked(s)} # T
      BY <2>1
    <2> HIDE DEF h
    <2> QED BY <1>3, <2>2
  <1>5. Sums(h, fun, T)
    <2> DEFINE e(s) == IF s = {} THEN 0 ELSE fun[Picked(s)] + h[s \ {Picked(s)}]
    <2>1. \A s \in SUBSET T : h[s] = e(s)
      <3> SUFFICES ASSUME NEW s \in SUBSET T PROVE h[s] = e(s)
        OBVIOUS
      <3>1. h[s] = IF s = {} THEN 0 ELSE fun[Picked(s)] + G(s \ {Picked(s)})[s \ {Picked(s)}]
        OBVIOUS
      <3> QED BY <1>4, <3>1
    <2>2. h = [s \in SUBSET T |-> h[s]]
      OBVIOUS
    <2> HIDE DEF h, e
    <2>3. h = [s \in SUBSET T |-> e(s)]
      BY <2>1, <2>2
    <2> QED BY <2>3 DEF e, Sums
  <1> QED BY <1>1, <1>5

LEMMA SumSolves ==
    ASSUME NEW fun, NEW S, IsFiniteSet(S)
    PROVE  \E g : Sums(g, fun, S) /\ SumFunctionOnSet(fun, S) = g[S]
  <1>1. SumFunctionOnSet(fun, S) = (CHOOSE h : Sums(h, fun, S))[S]
    BY DEF SumFunctionOnSet, FoldFunctionOnSet, MapThenFoldSet, Sums, Picked
  <1> QED BY <1>1, SumsExist

\* An empty sum is 0.
THEOREM SumEmpty ==
    ASSUME NEW fun
    PROVE  SumFunctionOnSet(fun, {}) = 0
  <1>1. IsFiniteSet({})
    BY FS_EmptySet
  <1>2. PICK g : Sums(g, fun, {}) /\ SumFunctionOnSet(fun, {}) = g[{}]
    BY <1>1, SumSolves
  <1> QED BY <1>2, SumsAt

\* A sum asks for the values on its set only.
THEOREM SumCongruent ==
    ASSUME NEW S, IsFiniteSet(S), NEW f, NEW g, \A x \in S : f[x] = g[x]
    PROVE  SumFunctionOnSet(f, S) = SumFunctionOnSet(g, S)
  <1>1. PICK fs : Sums(fs, f, S) /\ SumFunctionOnSet(f, S) = fs[S]
    BY SumSolves
  <1>2. PICK gs : Sums(gs, g, S) /\ SumFunctionOnSet(g, S) = gs[S]
    BY SumSolves
  <1> QED BY <1>1, <1>2, SumsAgree

\* Integers add up to an integer.
THEOREM SumType ==
    ASSUME NEW S, IsFiniteSet(S), NEW fun, \A x \in S : fun[x] \in Int
    PROVE  SumFunctionOnSet(fun, S) \in Int
  <1>1. PICK g : Sums(g, fun, S) /\ SumFunctionOnSet(fun, S) = g[S]
    BY SumSolves
  <1> DEFINE Bad == {T \in SUBSET S : g[T] \notin Int}
  <1> SUFFICES ASSUME Bad # {} PROVE FALSE
    BY <1>1
  <1>2. PICK T \in Bad : \A U \in SUBSET T : U # T => U \notin Bad
    <2>1. Bad \subseteq SUBSET S
      OBVIOUS
    <2> HIDE DEF Bad
    <2> QED BY <2>1, Minimal
  <1>3. g[T] = IF T = {} THEN 0 ELSE fun[Picked(T)] + g[T \ {Picked(T)}]
    BY <1>1, <1>2, SumsAt
  <1>4. T # {} => g[T \ {Picked(T)}] \in Int /\ fun[Picked(T)] \in Int
    BY <1>2, PickedIn
  <1> QED BY <1>2, <1>3, <1>4

\* Any element may be taken out of a sum, whichever the fold picks first.
THEOREM SumRemove ==
    ASSUME NEW S, IsFiniteSet(S), NEW fun, \A x \in S : fun[x] \in Int, NEW a \in S
    PROVE  SumFunctionOnSet(fun, S) = fun[a] + SumFunctionOnSet(fun, S \ {a})
  <1>1. PICK g : Sums(g, fun, S) /\ SumFunctionOnSet(fun, S) = g[S]
    BY SumSolves
  <1>2. ASSUME NEW T \in SUBSET S
        PROVE  g[T] \in Int /\ g[T] = SumFunctionOnSet(fun, T)
    <2>1. IsFiniteSet(T)
      BY FS_Subset
    <2>2. PICK h : Sums(h, fun, T) /\ SumFunctionOnSet(fun, T) = h[T]
      BY <2>1, SumSolves
    <2>3. g[T] = h[T]
      BY <1>1, <2>2, SumsAgree
    <2> QED BY <2>1, <2>2, <2>3, SumType
  <1> DEFINE Bad == {T \in SUBSET S : \E x \in T : g[T] # fun[x] + g[T \ {x}]}
  <1>3. Bad = {}
    <2> SUFFICES ASSUME Bad # {} PROVE FALSE
      OBVIOUS
    <2>1. PICK T \in Bad : \A U \in SUBSET T : U # T => U \notin Bad
      <3>1. Bad \subseteq SUBSET S
        OBVIOUS
      <3> HIDE DEF Bad
      <3> QED BY <3>1, Minimal
    <2>2. PICK x \in T : g[T] # fun[x] + g[T \ {x}]
      BY <2>1
    <2> DEFINE y == Picked(T)
    <2>3. y \in T /\ T \subseteq S
      BY <2>1, <2>2, PickedIn
    <2>4. g[T] = fun[y] + g[T \ {y}]
      BY <1>1, <2>2, <2>3, SumsAt
    <2> HIDE DEF y
    <2>5. x # y
      BY <2>2, <2>4
    <2>6. g[T \ {y}] = fun[x] + g[(T \ {y}) \ {x}]
      <3>1. T \ {y} \in SUBSET T /\ T \ {y} # T /\ x \in T \ {y}
        BY <2>3, <2>5
      <3> QED BY <2>1, <2>3, <3>1
    <2>7. g[T \ {x}] = fun[y] + g[(T \ {x}) \ {y}]
      <3>1. T \ {x} \in SUBSET T /\ T \ {x} # T /\ y \in T \ {x}
        BY <2>3, <2>5
      <3> QED BY <2>1, <2>3, <3>1
    <2>8. (T \ {x}) \ {y} = (T \ {y}) \ {x}
      OBVIOUS
    <2> DEFINE rest == g[(T \ {y}) \ {x}]
    <2>9. rest \in Int /\ fun[x] \in Int /\ fun[y] \in Int
      <3>1. (T \ {y}) \ {x} \in SUBSET S
        BY <2>3
      <3> QED BY <1>2, <2>3, <3>1
    <2>10. g[T] = fun[y] + (fun[x] + rest) /\ g[T \ {x}] = fun[y] + rest
      BY <2>4, <2>6, <2>7, <2>8
    <2> HIDE DEF rest
    <2> QED BY <2>2, <2>9, <2>10
  <1>4. g[S] = fun[a] + g[S \ {a}]
    BY <1>3
  <1> QED BY <1>1, <1>2, <1>4

\* A new element adds its value.
THEOREM SumAdd ==
    ASSUME NEW S, IsFiniteSet(S), NEW a, a \notin S,
           NEW fun, fun[a] \in Int, \A x \in S : fun[x] \in Int
    PROVE  SumFunctionOnSet(fun, S \cup {a}) = SumFunctionOnSet(fun, S) + fun[a]
  <1>1. IsFiniteSet(S \cup {a})
    BY FS_AddElement
  <1>2. (S \cup {a}) \ {a} = S
    OBVIOUS
  <1>3. SumFunctionOnSet(fun, S) \in Int
    BY SumType
  <1> DEFINE T == S \cup {a}
             all == SumFunctionOnSet(fun, T)
             part == SumFunctionOnSet(fun, S)
  <1>4. a \in T /\ \A x \in T : fun[x] \in Int
    OBVIOUS
  <1> HIDE DEF T
  <1>5. SumFunctionOnSet(fun, T) = fun[a] + SumFunctionOnSet(fun, T \ {a})
    BY <1>1, <1>4, SumRemove DEF T
  <1>6. T \ {a} = S
    BY <1>2 DEF T
  <1>7. all = fun[a] + part /\ part \in Int
    BY <1>3, <1>5, <1>6
  <1> HIDE DEF all, part
  <1>8. all = part + fun[a]
    BY <1>7
  <1> QED BY <1>8 DEF all, part, T

\* g is f, with x more at one place.
Bumps(f, g, S, a, x) ==
    /\ a \in S /\ x \in Int
    /\ \A s \in S : f[s] \in Int
    /\ g[a] = f[a] + x /\ \A s \in S \ {a} : g[s] = f[s]

LEMMA SumBump ==
    ASSUME NEW S, IsFiniteSet(S), NEW f, NEW g, NEW a, NEW x, Bumps(f, g, S, a, x)
    PROVE  SumFunctionOnSet(g, S) = SumFunctionOnSet(f, S) + x /\ SumFunctionOnSet(f, S) \in Int
  <1> USE DEF Bumps
  <1> DEFINE T == S \ {a}
  <1>1. IsFiniteSet(T) /\ T \subseteq S
    BY FS_Subset
  <1>2. \A s \in S : g[s] \in Int
    <2>1. ASSUME NEW s \in S PROVE g[s] \in Int
      <3>1. CASE s = a
        BY <3>1
      <3>2. CASE s # a
        BY <3>2
      <3> QED BY <3>1, <3>2
    <2> QED BY <2>1
  <1>3. SumFunctionOnSet(f, S) = f[a] + SumFunctionOnSet(f, T)
    BY SumRemove
  <1>4. SumFunctionOnSet(g, S) = g[a] + SumFunctionOnSet(g, T)
    BY <1>2, SumRemove
  <1>5. \A s \in T : g[s] = f[s]
    OBVIOUS
  <1> HIDE DEF T
  <1>6. SumFunctionOnSet(g, T) = SumFunctionOnSet(f, T)
    BY <1>1, <1>5, SumCongruent
  <1>7. SumFunctionOnSet(f, T) \in Int
    BY <1>1, SumType
  <1>8. g[a] = f[a] + x /\ f[a] \in Int
    OBVIOUS
  <1> QED BY <1>3, <1>4, <1>6, <1>7, <1>8
=============================================================================
