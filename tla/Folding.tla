------------------------------ MODULE Folding ------------------------------
(***************************************************************************)
(* Induction over a loop.  The loops of getData(), addRecords() and save() *)
(* are folds: FoldLeft(op, base, seq) of the community modules, which      *)
(* takes the elements of seq one by one.  What holds before the first turn *)
(* and is kept by every turn holds of the result (FoldInduction).          *)
(*                                                                         *)
(* The turn and the loop invariant are constants of this module, to be     *)
(* replaced in an INSTANCE: the provers cannot use a theorem with an       *)
(* operator among its variables.                                           *)
(***************************************************************************)
EXTENDS Integers, Sequences, FiniteSetTheorems, TLAPS

CONSTANTS op(_, _),       \* one turn
          base, seq,      \* where the loop starts and what it goes through
          After(_, _)     \* the loop invariant: turns taken, value reached

Largest(s) == CHOOSE x \in s : \A y \in s : x >= y
Others(s) == s \ {Largest(s)}

\* The recursive function behind FoldLeft: g folds every subset of S, of which
\* the largest element is taken last.
Iter(g, S) ==
    g = [s \in SUBSET S |-> IF s = {} THEN base ELSE op(g[Others(s)], seq[Largest(s)])]

\* FoldLeft(op, base, seq).
Folded == (CHOOSE g : Iter(g, 1..Len(seq)))[1..Len(seq)]

-----------------------------------------------------------------------------
(* The recursion is well founded *)

\* Induction on finite sets, as the absence of a minimal counterexample.
LEMMA MinimalSet ==
    ASSUME NEW S, NEW T, T \subseteq FiniteSubsetsOf(S), T # {}
    PROVE  \E U \in T : \A V \in T : V \subseteq U => V = U
  <1>1. PICK U \in T : \A V \in T : <<V, U>> \notin StrictSubsetOrdering(S)
    BY FS_StrictSubsetOrderingWellFounded, WFMin
  <1>2. QED
    BY <1>1 DEF StrictSubsetOrdering, FiniteSubsetsOf

\* A finite set of integers has a largest element.
LEMMA LargestIn ==
    ASSUME NEW s, IsFiniteSet(s), s \subseteq Int, s # {}
    PROVE  Largest(s) \in s /\ Others(s) \subseteq s /\ Others(s) # s
  <1> DEFINE T == {U \in SUBSET s : U # {} /\ ~\E x \in U : \A y \in U : x >= y}
  <1>1. T = {}
    <2>1. SUFFICES ASSUME T # {} PROVE FALSE
      OBVIOUS
    <2>2. T \subseteq FiniteSubsetsOf(s)
      BY FS_FiniteSubsetsOfFinite
    <2> HIDE DEF T
    <2>3. PICK U \in T : \A Y \in T : Y \subseteq U => Y = U
      BY <2>1, <2>2, MinimalSet
    <2>4. U \subseteq s /\ U # {} /\ ~\E x \in U : \A y \in U : x >= y
      BY <2>3 DEF T
    <2>5. PICK u \in U : TRUE
      BY <2>4
    <2>6. U \ {u} \notin T
      BY <2>3, <2>5
    <2>7. CASE U \ {u} = {}
      BY <2>4, <2>5, <2>7
    <2>8. CASE U \ {u} # {}
      <3>1. PICK x \in U \ {u} : \A y \in U \ {u} : x >= y
        BY <2>4, <2>6, <2>8 DEF T
      <3>2. x \in Int /\ u \in Int /\ \A y \in U : y \in Int
        BY <2>4, <3>1
      <3>3. CASE u <= x
        BY <2>4, <3>1, <3>2, <3>3
      <3>4. CASE x < u
        BY <2>4, <3>1, <3>2, <3>4
      <3>5. QED
        BY <3>2, <3>3, <3>4
    <2>9. QED
      BY <2>7, <2>8
  <1> HIDE DEF T
  <1>2. \E x \in s : \A y \in s : x >= y
    BY <1>1 DEF T
  <1>3. QED
    BY <1>2 DEF Largest, Others

\* Two such functions agree where both are defined.
LEMMA IterUnique ==
    ASSUME NEW g, NEW h, NEW V, NEW W, Iter(g, V), Iter(h, W),
           NEW X, X \subseteq V, X \subseteq W, IsFiniteSet(X), X \subseteq Int
    PROVE  g[X] = h[X]
  <1> DEFINE T == {U \in SUBSET X : g[U] # h[U]}
  <1>1. SUFFICES ASSUME T # {} PROVE FALSE
    OBVIOUS
  <1>2. T \subseteq FiniteSubsetsOf(X)
    BY FS_FiniteSubsetsOfFinite
  <1> HIDE DEF T
  <1>3. PICK U \in T : \A Y \in T : Y \subseteq U => Y = U
    BY <1>1, <1>2, MinimalSet
  <1>4. U \in SUBSET V /\ U \in SUBSET W /\ U \in SUBSET X /\ g[U] # h[U]
    BY <1>3 DEF T
  <1>5. /\ g[U] = IF U = {} THEN base ELSE op(g[Others(U)], seq[Largest(U)])
        /\ h[U] = IF U = {} THEN base ELSE op(h[Others(U)], seq[Largest(U)])
    BY <1>4 DEF Iter
  <1>6. U # {}
    BY <1>4, <1>5
  <1>7. Others(U) \subseteq U /\ Others(U) # U
    <2>1. IsFiniteSet(U) /\ U \subseteq Int
      BY <1>4, FS_Subset
    <2>2. QED
      BY <1>6, <2>1, LargestIn
  <1>8. g[Others(U)] = h[Others(U)]
    BY <1>3, <1>4, <1>7 DEF T
  <1>9. QED
    BY <1>4, <1>5, <1>8

LEMMA IterExists ==
    ASSUME NEW S, IsFiniteSet(S), S \subseteq Int
    PROVE  \E g : Iter(g, S)
  <1> DEFINE T == {U \in SUBSET S : ~\E g : Iter(g, U)}
  <1>1. SUFFICES ASSUME T # {} PROVE FALSE
    OBVIOUS
  <1>2. T \subseteq FiniteSubsetsOf(S)
    BY FS_FiniteSubsetsOfFinite
  <1> HIDE DEF T
  <1>3. PICK U \in T : \A Y \in T : Y \subseteq U => Y = U
    BY <1>1, <1>2, MinimalSet
  <1>4. U \in SUBSET S /\ ~\E g : Iter(g, U)
    BY <1>3 DEF T
  <1> DEFINE G(V) == CHOOSE g : Iter(g, V)
             h == [s \in SUBSET U |-> IF s = {} THEN base
                                      ELSE op(G(Others(s))[Others(s)], seq[Largest(s)])]
  <1>5. ASSUME NEW V \in SUBSET U, V # U PROVE Iter(G(V), V)
    <2>1. V \notin T /\ V \in SUBSET S
      BY <1>3, <1>4, <1>5
    <2>2. \E g : Iter(g, V)
      BY <2>1 DEF T
    <2>4. QED
      BY <2>2
  <1> HIDE DEF G
  <1>f. ASSUME NEW V \in SUBSET U PROVE IsFiniteSet(V) /\ V \subseteq Int
    BY <1>4, FS_Subset
  <1>6. ASSUME NEW V \in SUBSET U, V # U PROVE h[V] = G(V)[V]
    <2>1. G(V)[V] = IF V = {} THEN base ELSE op(G(V)[Others(V)], seq[Largest(V)])
      BY <1>5, <1>6 DEF Iter
    <2>2. CASE V = {}
      BY <2>1, <2>2
    <2>3. CASE V # {}
      <3>1. Others(V) \in SUBSET U /\ Others(V) # U /\ Others(V) \subseteq V
        BY <1>6, <1>f, <2>3, LargestIn
      <3>2. Iter(G(V), V) /\ Iter(G(Others(V)), Others(V)) /\ IsFiniteSet(Others(V)) /\ Others(V) \subseteq Int
        BY <1>5, <1>6, <1>f, <3>1
      <3>3. G(V)[Others(V)] = G(Others(V))[Others(V)]
        BY <3>1, <3>2, IterUnique
      <3>4. QED
        BY <2>1, <2>3, <3>3
    <2>4. QED
      BY <2>2, <2>3
  <1>7. Iter(h, U)
    <2>1. ASSUME NEW s \in SUBSET U, s # {} PROVE h[Others(s)] = G(Others(s))[Others(s)]
      <3>1. Others(s) \in SUBSET U /\ Others(s) # U
        BY <1>f, <2>1, LargestIn
      <3>2. QED
        BY <1>6, <3>1
    <2>2. h = [s \in SUBSET U |-> IF s = {} THEN base ELSE op(h[Others(s)], seq[Largest(s)])]
      BY <2>1
    <2>3. QED
      BY <2>2 DEF Iter
  <1>8. QED
    BY <1>4, <1>7

-----------------------------------------------------------------------------
(* Induction over the turns *)

\* A non-empty set of numbers up to N has a least element.
LEMMA LeastNumber ==
    ASSUME NEW N \in Nat, NEW T, T \subseteq 0..N, T # {}
    PROVE  \E m \in T : \A n \in T : m <= n
  <1> DEFINE W == {0..n : n \in T}
  <1>1. W \subseteq FiniteSubsetsOf(0..N) /\ W # {}
    <2>1. ASSUME NEW n \in T
          PROVE  0..n \in FiniteSubsetsOf(0..N)
      <3>1. n \in Int /\ 0..n \subseteq 0..N
        OBVIOUS
      <3>2. IsFiniteSet(0..n)
        BY <3>1, FS_Interval
      <3>3. QED
        BY <3>1, <3>2 DEF FiniteSubsetsOf
    <2>2. QED
      BY <2>1
  <1>2. PICK U \in W : \A V \in W : V \subseteq U => V = U
    <2> HIDE DEF W
    <2>1. QED
      BY <1>1, MinimalSet
  <1>3. PICK m \in T : U = 0..m
    BY <1>2
  <1>4. ASSUME NEW n \in T, n < m
        PROVE  FALSE
    <2>1. n \in 0..N /\ m \in 0..N
      OBVIOUS
    <2>2. 0..n \subseteq U /\ m \in U /\ m \notin 0..n
      BY <1>3, <1>4, <2>1
    <2>3. QED
      BY <1>2, <2>2
  <1>5. \A n \in T : m <= n
    <2>1. \A n \in T : n \in Int /\ m \in Int
      OBVIOUS
    <2>2. QED
      BY <1>4, <2>1
  <1>6. QED
    BY <1>5

\* The values the loop goes through: h[n] after n turns.
LEMMA FoldTurns ==
    ASSUME Len(seq) \in Nat
    PROVE  \E h : /\ h[0] = base /\ h[Len(seq)] = Folded
                  /\ \A n \in 1..Len(seq) : h[n] = op(h[n - 1], seq[n])
  <1> DEFINE N == Len(seq)
             g == CHOOSE f : Iter(f, 1..N)
             h == [n \in 0..N |-> g[1..n]]
  <1>1. N \in Nat
    OBVIOUS
  <1>2. Iter(g, 1..N)
    <2>1. IsFiniteSet(1..N) /\ 1..N \subseteq Int
      BY <1>1, FS_Interval
    <2>2. \E f : Iter(f, 1..N)
      BY <2>1, IterExists
    <2>3. QED
      BY <2>2, Zenon
  <1>3. h[N] = Folded
    <2>1. N \in 0..N
      BY <1>1
    <2>2. QED
      BY <2>1, Zenon DEF Folded
  <1> HIDE DEF g
  <1>4. h[0] = base
    <2>1. 1..0 = {} /\ {} \in SUBSET (1..N)
      OBVIOUS
    <2>2. g[{}] = base
      BY <1>2, <2>1 DEF Iter
    <2>3. 0 \in 0..N
      BY <1>1
    <2>4. h[0] = g[1..0]
      BY <2>3
    <2>5. QED
      BY <2>1, <2>2, <2>4, Zenon
  <1>5. ASSUME NEW n \in 1..N PROVE h[n] = op(h[n - 1], seq[n])
    <2>0. n \in Int /\ 1 <= n /\ n <= N /\ N \in Int /\ n \in 1..n
      BY <1>1, <1>5
    <2>1. 1..n \in SUBSET (1..N) /\ 1..n # {} /\ n - 1 \in 0..N /\ n \in 0..N
      <3>1. \A k \in 1..n : k \in 1..N
        BY <2>0
      <3>2. 1..n \in SUBSET (1..N) /\ 1..n # {}
        BY <2>0, <3>1, Zenon
      <3>3. QED
        BY <2>0, <3>2
    <2>2. Largest(1..n) = n
      BY <1>1, <1>5 DEF Largest
    <2>3. Others(1..n) = 1..(n - 1)
      BY <1>1, <2>2 DEF Others
    <2>4. g[1..n] = op(g[Others(1..n)], seq[Largest(1..n)])
      BY <1>2, <2>1 DEF Iter
    <2>5. QED
      BY <2>1, <2>2, <2>3, <2>4
  <1> HIDE DEF h
  <1>6. QED
    BY <1>3, <1>4, <1>5

\* A loop invariant that holds at the start and is kept by every turn holds at
\* the end.
THEOREM FoldInduction ==
    ASSUME Len(seq) \in Nat,
           After(0, base),
           \A n \in 1..Len(seq) : \A a : After(n - 1, a) => After(n, op(a, seq[n]))
    PROVE  After(Len(seq), Folded)
  <1> DEFINE N == Len(seq)
  <1>1. PICK h : /\ h[0] = base /\ h[N] = Folded
                 /\ \A n \in 1..N : h[n] = op(h[n - 1], seq[n])
    BY FoldTurns
  <1> DEFINE T == {n \in 0..N : ~After(n, h[n])}
  <1>2. T = {}
    <2>1. SUFFICES ASSUME T # {} PROVE FALSE
      OBVIOUS
    <2>2. T \subseteq 0..N /\ N \in Nat
      OBVIOUS
    <2> HIDE DEF T, N
    <2>3. PICK m \in T : \A n \in T : m <= n
      BY <2>1, <2>2, LeastNumber
    <2>4. m \in 0..N /\ ~After(m, h[m])
      BY <2>3 DEF T
    <2>5. m # 0
      BY <1>1, <2>4
    <2>6. m \in 1..N /\ m - 1 \in 0..N /\ ~(m <= m - 1)
      BY <2>2, <2>4, <2>5
    <2>7. After(m - 1, h[m - 1])
      BY <2>3, <2>6 DEF T
    <2>8. After(m, op(h[m - 1], seq[m]))
      BY <2>6, <2>7 DEF N
    <2>9. QED
      BY <1>1, <2>4, <2>6, <2>8
  <1>3. N \in 0..N
    OBVIOUS
  <1>4. After(N, h[N])
    BY <1>2, <1>3
  <1>5. QED
    BY <1>1, <1>4

=============================================================================
