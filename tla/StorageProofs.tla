---------------------------- MODULE StorageProofs ---------------------------
(***************************************************************************)
(* Where records are put and which directories are removed, for every set  *)
(* of days and channels, every budget and every number of writes; that the *)
(* byte budget never wraps below zero, and by how much the files exceed it. *)
(***************************************************************************)
EXTENDS Storage, Functions, FiniteSetTheorems, TLAPS

-----------------------------------------------------------------------------
(* Sums over finite sets.  The library's induction theorems are used in    *)
(* the form that takes no operator: a non-empty set of finite sets has a   *)
(* minimal element.                                                        *)

\* Induction on finite sets, as the absence of a minimal counterexample.
LEMMA MinimalSet ==
    ASSUME NEW S, NEW T, T \subseteq FiniteSubsetsOf(S), T # {}
    PROVE  \E U \in T : \A V \in T : V \subseteq U => V = U
  <1>1. PICK U \in T : \A V \in T : <<V, U>> \notin StrictSubsetOrdering(S)
    BY FS_StrictSubsetOrderingWellFounded, WFMin
  <1>2. QED
    BY <1>1 DEF StrictSubsetOrdering, FiniteSubsetsOf

-----------------------------------------------------------------------------
(* The recursive function behind SumFunctionOnSet *)

Pick(s) == CHOOSE x \in s : TRUE
Rest(s) == s \ {Pick(s)}

\* g adds up b over every subset of S.
Adds(g, b, S) ==
    g = [s \in SUBSET S |-> IF s = {} THEN 0 ELSE b[Pick(s)] + g[Rest(s)]]

LEMMA SumUnfolds ==
    ASSUME NEW b, NEW S
    PROVE  SumFunctionOnSet(b, S) = (CHOOSE g : Adds(g, b, S))[S]
  BY DEF SumFunctionOnSet, FoldFunctionOnSet, MapThenFoldSet, Adds, Pick, Rest

LEMMA PickRest ==
    ASSUME NEW s, s # {}
    PROVE  Pick(s) \in s /\ Rest(s) \subseteq s /\ Rest(s) # s
  BY DEF Pick, Rest

\* Two such functions agree where both are defined.
LEMMA AddsUnique ==
    ASSUME NEW b, NEW g, NEW h, NEW V, NEW W, Adds(g, b, V), Adds(h, b, W),
           NEW X, X \subseteq V, X \subseteq W, IsFiniteSet(X)
    PROVE  g[X] = h[X]
  <1> DEFINE T == {U \in SUBSET X : g[U] # h[U]}
  <1>1. SUFFICES ASSUME T # {} PROVE FALSE
    OBVIOUS
  <1>2. T \subseteq FiniteSubsetsOf(X)
    BY FS_FiniteSubsetsOfFinite
  <1> HIDE DEF T
  <1>3. PICK U \in T : \A Y \in T : Y \subseteq U => Y = U
    BY <1>1, <1>2, MinimalSet
  <1>4. U \in SUBSET V /\ U \in SUBSET W /\ U \in SUBSET X /\ g[U] # h[U]
    BY <1>3 DEF T
  <1>5. /\ g[U] = IF U = {} THEN 0 ELSE b[Pick(U)] + g[Rest(U)]
        /\ h[U] = IF U = {} THEN 0 ELSE b[Pick(U)] + h[Rest(U)]
    BY <1>4 DEF Adds
  <1>6. U # {}
    BY <1>4, <1>5
  <1>7. g[Rest(U)] = h[Rest(U)]
    BY <1>3, <1>4, <1>6, PickRest DEF T
  <1>8. QED
    BY <1>4, <1>5, <1>7

LEMMA AddsExists ==
    ASSUME NEW b, NEW S, IsFiniteSet(S)
    PROVE  \E g : Adds(g, b, S)
  <1> DEFINE T == {U \in SUBSET S : ~\E g : Adds(g, b, U)}
  <1>1. SUFFICES ASSUME T # {} PROVE FALSE
    OBVIOUS
  <1>2. T \subseteq FiniteSubsetsOf(S)
    BY FS_FiniteSubsetsOfFinite
  <1> HIDE DEF T
  <1>3. PICK U \in T : \A Y \in T : Y \subseteq U => Y = U
    BY <1>1, <1>2, MinimalSet
  <1>4. U \in SUBSET S /\ ~\E g : Adds(g, b, U)
    BY <1>3 DEF T
  <1> DEFINE G(V) == CHOOSE g : Adds(g, b, V)
             h == [s \in SUBSET U |-> IF s = {} THEN 0 ELSE b[Pick(s)] + G(Rest(s))[Rest(s)]]
  <1>5. ASSUME NEW V \in SUBSET U, V # U PROVE Adds(G(V), b, V) /\ IsFiniteSet(V)
    <2>1. V \notin T /\ V \in SUBSET S
      BY <1>3, <1>4, <1>5
    <2>2. \E g : Adds(g, b, V)
      BY <2>1 DEF T
    <2>3. IsFiniteSet(V)
      BY <2>1, FS_Subset
    <2>4. QED
      BY <2>2, <2>3
  <1> HIDE DEF G
  <1>6. ASSUME NEW V \in SUBSET U, V # U PROVE h[V] = G(V)[V]
    <2>1. G(V)[V] = IF V = {} THEN 0 ELSE b[Pick(V)] + G(V)[Rest(V)]
      BY <1>5, <1>6 DEF Adds
    <2>2. CASE V = {}
      BY <2>1, <2>2
    <2>3. CASE V # {}
      <3>1. Rest(V) \in SUBSET U /\ Rest(V) # U /\ Rest(V) \subseteq V
        BY <1>6, <2>3, PickRest
      <3>2. Adds(G(V), b, V) /\ Adds(G(Rest(V)), b, Rest(V)) /\ IsFiniteSet(Rest(V))
        BY <1>5, <1>6, <3>1
      <3>3. G(V)[Rest(V)] = G(Rest(V))[Rest(V)]
        BY <3>1, <3>2, AddsUnique
      <3>4. QED
        BY <2>1, <2>3, <3>3
    <2>4. QED
      BY <2>2, <2>3
  <1>7. Adds(h, b, U)
    <2>1. ASSUME NEW s \in SUBSET U, s # {} PROVE h[Rest(s)] = G(Rest(s))[Rest(s)]
      <3>1. Rest(s) \in SUBSET U /\ Rest(s) # U
        BY <2>1, PickRest
      <3>2. QED
        BY <1>6, <3>1
    <2>2. h = [s \in SUBSET U |-> IF s = {} THEN 0 ELSE b[Pick(s)] + h[Rest(s)]]
      BY <2>1
    <2>3. QED
      BY <2>2 DEF Adds
  <1>8. QED
    BY <1>4, <1>7

-----------------------------------------------------------------------------
(* What SumFunctionOnSet computes *)

LEMMA SumAdds ==
    ASSUME NEW b, NEW S, IsFiniteSet(S)
    PROVE  \E g : Adds(g, b, S) /\ SumFunctionOnSet(b, S) = g[S]
  <1>1. Adds(CHOOSE g : Adds(g, b, S), b, S)
    BY AddsExists
  <1>2. QED
    BY <1>1, SumUnfolds

LEMMA SumEmpty ==
    ASSUME NEW b
    PROVE  SumFunctionOnSet(b, {}) = 0
  <1>1. PICK g : Adds(g, b, {}) /\ SumFunctionOnSet(b, {}) = g[{}]
    BY SumAdds, FS_EmptySet
  <1>2. QED
    BY <1>1 DEF Adds

LEMMA SumStep ==
    ASSUME NEW b, NEW S, IsFiniteSet(S), S # {}
    PROVE  SumFunctionOnSet(b, S) = b[Pick(S)] + SumFunctionOnSet(b, Rest(S))
  <1>1. Rest(S) \subseteq S /\ IsFiniteSet(Rest(S))
    BY PickRest, FS_RemoveElement DEF Rest
  <1>2. PICK g : Adds(g, b, S) /\ SumFunctionOnSet(b, S) = g[S]
    BY SumAdds
  <1>3. PICK h : Adds(h, b, Rest(S)) /\ SumFunctionOnSet(b, Rest(S)) = h[Rest(S)]
    BY <1>1, SumAdds
  <1>4. g[Rest(S)] = h[Rest(S)]
    BY <1>1, <1>2, <1>3, AddsUnique
  <1>5. S \in SUBSET S
    OBVIOUS
  <1>6. g[S] = b[Pick(S)] + g[Rest(S)]
    BY <1>2, <1>5 DEF Adds
  <1>7. QED
    BY <1>2, <1>3, <1>4, <1>6

\* A sum of natural numbers is one.
LEMMA SumType ==
    ASSUME NEW b, NEW S, IsFiniteSet(S), \A x \in S : b[x] \in Nat
    PROVE  SumFunctionOnSet(b, S) \in Nat
  <1> DEFINE T == {U \in SUBSET S : SumFunctionOnSet(b, U) \notin Nat}
  <1>1. SUFFICES ASSUME T # {} PROVE FALSE
    OBVIOUS
  <1>2. T \subseteq FiniteSubsetsOf(S)
    BY FS_FiniteSubsetsOfFinite
  <1> HIDE DEF T
  <1>3. PICK U \in T : \A Y \in T : Y \subseteq U => Y = U
    BY <1>1, <1>2, MinimalSet
  <1>4. U \in SUBSET S /\ SumFunctionOnSet(b, U) \notin Nat
    BY <1>3 DEF T
  <1>5. IsFiniteSet(U)
    BY <1>4, FS_Subset
  <1>6. U # {}
    BY <1>4, SumEmpty
  <1>7. SumFunctionOnSet(b, U) = b[Pick(U)] + SumFunctionOnSet(b, Rest(U))
    BY <1>5, <1>6, SumStep
  <1>8. Pick(U) \in S /\ Rest(U) \subseteq U /\ Rest(U) # U
    BY <1>4, <1>6, PickRest
  <1>9. SumFunctionOnSet(b, Rest(U)) \in Nat
    BY <1>3, <1>4, <1>8 DEF T
  <1>10. QED
    BY <1>4, <1>7, <1>8, <1>9

\* Only the values on S matter.
LEMMA SumSame ==
    ASSUME NEW b, NEW c, NEW S, IsFiniteSet(S), \A x \in S : b[x] = c[x]
    PROVE  SumFunctionOnSet(b, S) = SumFunctionOnSet(c, S)
  <1> DEFINE T == {U \in SUBSET S : SumFunctionOnSet(b, U) # SumFunctionOnSet(c, U)}
  <1>1. SUFFICES ASSUME T # {} PROVE FALSE
    OBVIOUS
  <1>2. T \subseteq FiniteSubsetsOf(S)
    BY FS_FiniteSubsetsOfFinite
  <1> HIDE DEF T
  <1>3. PICK U \in T : \A Y \in T : Y \subseteq U => Y = U
    BY <1>1, <1>2, MinimalSet
  <1>4. U \in SUBSET S /\ SumFunctionOnSet(b, U) # SumFunctionOnSet(c, U)
    BY <1>3 DEF T
  <1>5. IsFiniteSet(U)
    BY <1>4, FS_Subset
  <1>6. U # {}
    BY <1>4, SumEmpty
  <1>7. /\ SumFunctionOnSet(b, U) = b[Pick(U)] + SumFunctionOnSet(b, Rest(U))
        /\ SumFunctionOnSet(c, U) = c[Pick(U)] + SumFunctionOnSet(c, Rest(U))
    BY <1>5, <1>6, SumStep
  <1>8. Pick(U) \in S /\ Rest(U) \subseteq U /\ Rest(U) # U
    BY <1>4, <1>6, PickRest
  <1>9. SumFunctionOnSet(b, Rest(U)) = SumFunctionOnSet(c, Rest(U))
    BY <1>3, <1>4, <1>8 DEF T
  <1>10. QED
    BY <1>4, <1>7, <1>8, <1>9

\* Any element may be taken out first, not only the one the fold picks.
LEMMA SumRemove ==
    ASSUME NEW b, NEW S, IsFiniteSet(S), \A x \in S : b[x] \in Nat, NEW e \in S
    PROVE  SumFunctionOnSet(b, S) = b[e] + SumFunctionOnSet(b, S \ {e})
  <1> DEFINE T == {U \in SUBSET S : \E x \in U :
                     SumFunctionOnSet(b, U) # b[x] + SumFunctionOnSet(b, U \ {x})}
  <1>1. SUFFICES ASSUME T # {} PROVE FALSE
    OBVIOUS
  <1>2. T \subseteq FiniteSubsetsOf(S)
    BY FS_FiniteSubsetsOfFinite
  <1> HIDE DEF T
  <1>3. PICK U \in T : \A Y \in T : Y \subseteq U => Y = U
    BY <1>1, <1>2, MinimalSet
  <1>4. U \in SUBSET S
    BY <1>3 DEF T
  <1>5. PICK x \in U : SumFunctionOnSet(b, U) # b[x] + SumFunctionOnSet(b, U \ {x})
    BY <1>3 DEF T
  <1> DEFINE p == Pick(U)
  <1>6. IsFiniteSet(U) /\ p \in U /\ Rest(U) = U \ {p}
    BY <1>4, <1>5, FS_Subset, PickRest DEF Rest
  <1>7. SumFunctionOnSet(b, U) = b[p] + SumFunctionOnSet(b, U \ {p})
    BY <1>5, <1>6, SumStep
  <1> HIDE DEF p
  <1>8. x # p
    BY <1>5, <1>7
  <1>9. SumFunctionOnSet(b, U \ {p}) = b[x] + SumFunctionOnSet(b, (U \ {p}) \ {x})
    <2>1. U \ {p} \notin T /\ U \ {p} \in SUBSET S /\ x \in U \ {p}
      BY <1>3, <1>4, <1>5, <1>6, <1>8
    <2>2. QED
      BY <2>1 DEF T
  <1>10. SumFunctionOnSet(b, U \ {x}) = b[p] + SumFunctionOnSet(b, (U \ {x}) \ {p})
    <2>1. U \ {x} \notin T /\ U \ {x} \in SUBSET S /\ p \in U \ {x}
      BY <1>3, <1>4, <1>5, <1>6, <1>8
    <2>2. QED
      BY <2>1 DEF T
  <1>11. (U \ {x}) \ {p} = (U \ {p}) \ {x}
    OBVIOUS
  <1>12. SumFunctionOnSet(b, (U \ {p}) \ {x}) \in Nat /\ b[x] \in Nat /\ b[p] \in Nat
    <2>1. (U \ {p}) \ {x} \in SUBSET S
      BY <1>4
    <2>2. IsFiniteSet((U \ {p}) \ {x})
      BY <2>1, FS_Subset
    <2>3. QED
      BY <1>4, <1>5, <1>6, <2>1, <2>2, SumType
  <1>13. QED
    BY <1>5, <1>7, <1>9, <1>10, <1>11, <1>12

\* An element more.
LEMMA SumAdd ==
    ASSUME NEW b, NEW S, IsFiniteSet(S), NEW e, e \notin S,
           \A x \in S \cup {e} : b[x] \in Nat
    PROVE  SumFunctionOnSet(b, S \cup {e}) = b[e] + SumFunctionOnSet(b, S)
  <1>1. IsFiniteSet(S \cup {e}) /\ (S \cup {e}) \ {e} = S
    BY FS_AddElement
  <1>2. QED
    BY <1>1, SumRemove

\* One value changes.
LEMMA SumChange ==
    ASSUME NEW b, NEW c, NEW S, IsFiniteSet(S), NEW e \in S,
           \A x \in S : b[x] \in Nat /\ c[x] \in Nat,
           \A x \in S \ {e} : b[x] = c[x]
    PROVE  /\ SumFunctionOnSet(b, S) \in Nat /\ SumFunctionOnSet(c, S) \in Nat
           /\ SumFunctionOnSet(c, S) + b[e] = SumFunctionOnSet(b, S) + c[e]
  <1>1. IsFiniteSet(S \ {e})
    BY FS_RemoveElement
  <1>2. SumFunctionOnSet(b, S \ {e}) = SumFunctionOnSet(c, S \ {e})
    BY <1>1, SumSame
  <1>3. SumFunctionOnSet(b, S \ {e}) \in Nat
    BY <1>1, SumType
  <1>4. /\ SumFunctionOnSet(b, S) = b[e] + SumFunctionOnSet(b, S \ {e})
        /\ SumFunctionOnSet(c, S) = c[e] + SumFunctionOnSet(c, S \ {e})
    BY SumRemove
  <1>5. QED
    BY <1>2, <1>3, <1>4

\* Nothing adds up to nothing.
LEMMA SumZero ==
    ASSUME NEW b, NEW S, IsFiniteSet(S), \A x \in S : b[x] = 0
    PROVE  SumFunctionOnSet(b, S) = 0
  <1> DEFINE T == {U \in SUBSET S : SumFunctionOnSet(b, U) # 0}
  <1>1. SUFFICES ASSUME T # {} PROVE FALSE
    OBVIOUS
  <1>2. T \subseteq FiniteSubsetsOf(S)
    BY FS_FiniteSubsetsOfFinite
  <1> HIDE DEF T
  <1>3. PICK U \in T : \A Y \in T : Y \subseteq U => Y = U
    BY <1>1, <1>2, MinimalSet
  <1>4. U \in SUBSET S /\ SumFunctionOnSet(b, U) # 0
    BY <1>3 DEF T
  <1>5. IsFiniteSet(U)
    BY <1>4, FS_Subset
  <1>6. U # {}
    BY <1>4, SumEmpty
  <1>7. SumFunctionOnSet(b, U) = b[Pick(U)] + SumFunctionOnSet(b, Rest(U))
    BY <1>5, <1>6, SumStep
  <1>8. Pick(U) \in S /\ Rest(U) \subseteq U /\ Rest(U) # U
    BY <1>4, <1>6, PickRest
  <1>9. SumFunctionOnSet(b, Rest(U)) = 0
    BY <1>3, <1>4, <1>8 DEF T
  <1>10. QED
    BY <1>4, <1>7, <1>8, <1>9

\* A part is no more than the whole.
LEMMA SumPart ==
    ASSUME NEW b, NEW S, IsFiniteSet(S), \A x \in S : b[x] \in Nat, NEW P \in SUBSET S
    PROVE  SumFunctionOnSet(b, P) <= SumFunctionOnSet(b, S)
  <1>0. ASSUME NEW V \in SUBSET S
        PROVE  IsFiniteSet(V) /\ SumFunctionOnSet(b, V) \in Nat
    BY FS_Subset, SumType
  <1> DEFINE T == {V \in SUBSET S : /\ P \subseteq V
                                    /\ ~(SumFunctionOnSet(b, P) <= SumFunctionOnSet(b, V))}
  <1>1. SUFFICES ASSUME T # {} PROVE FALSE
    OBVIOUS
  <1>2. T \subseteq FiniteSubsetsOf(S)
    BY FS_FiniteSubsetsOfFinite
  <1> HIDE DEF T
  <1>3. PICK U \in T : \A Y \in T : Y \subseteq U => Y = U
    BY <1>1, <1>2, MinimalSet
  <1>4. /\ U \in SUBSET S /\ P \subseteq U
        /\ ~(SumFunctionOnSet(b, P) <= SumFunctionOnSet(b, U))
    BY <1>3 DEF T
  <1>5. U # P
    BY <1>0, <1>4
  <1>6. PICK e \in U : e \notin P
    BY <1>4, <1>5
  <1>7. U \ {e} \in SUBSET S /\ P \subseteq U \ {e} /\ U \ {e} \notin T
    BY <1>3, <1>4, <1>6
  <1>8. SumFunctionOnSet(b, P) <= SumFunctionOnSet(b, U \ {e})
    BY <1>7 DEF T
  <1>9. SumFunctionOnSet(b, U) = b[e] + SumFunctionOnSet(b, U \ {e})
    BY <1>0, <1>4, <1>6, SumRemove
  <1>10. QED
    BY <1>0, <1>4, <1>6, <1>7, <1>8, <1>9

-----------------------------------------------------------------------------
(* Bytes on their way to the files *)

(* A record has a size, and a failed write() leaves no more than that.     *)
LEMMA RequestBytes ==
    ASSUME TypeOK
    PROVE  /\ req.channel \in Channels /\ req.size \in Nat /\ req.size \in Sizes
           /\ RecordBytes(req.channel, req.size) \in Nat
           /\ \A n \in FailedBytes(req.channel, req.size) :
                  n \in Nat /\ n <= RecordBytes(req.channel, req.size)
  <1>1. req.channel \in Channels /\ req.size \in Sizes
    BY DEF TypeOK
  <1>2. req.size \in Nat
    BY <1>1, StorageAssumption
  <1> QED
    BY <1>1, <1>2 DEF FailedBytes, PartBytes, RecordBytes, IndexEntry, RecordHeader,
       Timestamp

(* What AppendBytes() does, value by value.                                *)
LEMMA AppendValues ==
    ASSUME TypeOK, yyyymmdd_ \in Days, NEW c \in Channels, NEW n \in Nat,
           NEW new \in SUBSET Ids, AppendBytes(c, n, new)
    PROVE  \/ orphaned /\ bytes' = bytes /\ held' = held /\ pending' = pending
                       /\ buffered' = buffered
           \/ /\ ~orphaned
              /\ held' \in [Days -> SUBSET Ids]
              /\ \A d \in Days : held'[d] = IF d = yyyymmdd_ THEN held[d] \cup new
                                            ELSE held[d]
              /\ buffered' \in [Channels -> SUBSET Ids]
              /\ \A k \in Channels : buffered'[k] \subseteq
                                         IF k = c THEN buffered[k] \cup new ELSE buffered[k]
              /\ bytes' \in [Days -> Nat] /\ pending' \in [Channels -> Nat]
              /\ \E rest \in Nat :
                     /\ rest <= pending[c] + n
                     /\ \A k \in Channels : pending'[k] = IF k = c THEN rest ELSE pending[k]
                     /\ \A d \in Days : bytes'[d] = IF d = yyyymmdd_
                                                    THEN bytes[d] + (pending[c] + n - rest)
                                                    ELSE bytes[d]
  <1>0. /\ bytes \in [Days -> Nat] /\ held \in [Days -> SUBSET Ids]
        /\ pending \in [Channels -> Nat] /\ buffered \in [Channels -> SUBSET Ids]
    BY DEF TypeOK
  <1>1. CASE orphaned
    BY <1>1 DEF AppendBytes, buffers
  <1>2. CASE ~orphaned
    <2>1. held' = [held EXCEPT ![yyyymmdd_] = @ \cup new]
      BY <1>2 DEF AppendBytes
    <2>2. PICK rest \in {pending[c] + n, n, 0} :
              /\ pending' = [pending EXCEPT ![c] = rest]
              /\ bytes' = [bytes EXCEPT ![yyyymmdd_] = @ + (pending[c] + n - rest)]
              /\ buffered' = [buffered EXCEPT ![c] =
                                 IF rest = 0 THEN {}
                                 ELSE IF rest = n THEN new ELSE @ \cup new]
      BY <1>2 DEF AppendBytes
    <2>3. rest \in Nat /\ rest <= pending[c] + n /\ pending[c] + n - rest \in Nat
      BY <1>0
    <2>4. /\ held' \in [Days -> SUBSET Ids]
          /\ \A d \in Days : held'[d] = IF d = yyyymmdd_ THEN held[d] \cup new
                                        ELSE held[d]
      BY <1>0, <2>1
    <2>5. /\ buffered' \in [Channels -> SUBSET Ids]
          /\ \A k \in Channels : buffered'[k] \subseteq
                                     IF k = c THEN buffered[k] \cup new ELSE buffered[k]
      BY <1>0, <2>2
    <2>6. /\ bytes' \in [Days -> Nat]
          /\ \A d \in Days : bytes'[d] = IF d = yyyymmdd_
                                         THEN bytes[d] + (pending[c] + n - rest)
                                         ELSE bytes[d]
      BY <1>0, <2>2, <2>3
    <2>7. /\ pending' \in [Channels -> Nat]
          /\ \A k \in Channels : pending'[k] = IF k = c THEN rest ELSE pending[k]
      BY <1>0, <2>2, <2>3
    <2> QED
      BY <1>2, <2>3, <2>4, <2>5, <2>6, <2>7
  <1> QED
    BY <1>1, <1>2

(* What CloseFolder does: some records are lost, those of the buffers of   *)
(* the channels "lost", the bytes of the other buffers reach the files.    *)
LEMMA CloseValues ==
    ASSUME TypeOK, CloseFolder
    PROVE  /\ ~orphaned' /\ pending' = NothingPending /\ buffered' = NothingBuffered
           /\ files_' = [c \in Channels |-> "none"]
           /\ \/ /\ ~(yyyymmdd_ # NoDay /\ ~orphaned)
                 /\ bytes' = bytes /\ held' = held
              \/ /\ yyyymmdd_ \in Days /\ yyyymmdd_ # NoDay /\ ~orphaned
                 /\ \E lost \in SUBSET Channels :
                      /\ held' \in [Days -> SUBSET Ids]
                      /\ \A d \in Days : held'[d] =
                             IF d = yyyymmdd_
                             THEN held[d] \ UNION {buffered[c] : c \in lost} ELSE held[d]
                      /\ bytes' \in [Days -> Nat]
                      /\ SumFunctionOnSet(pending, Channels \ lost) \in Nat
                      /\ \A d \in Days : bytes'[d] =
                             IF d = yyyymmdd_
                             THEN bytes[d] + SumFunctionOnSet(pending, Channels \ lost)
                             ELSE bytes[d]
  <1>0. /\ bytes \in [Days -> Nat] /\ held \in [Days -> SUBSET Ids]
        /\ pending \in [Channels -> Nat] /\ yyyymmdd_ \in Days \cup {NoDay}
    BY DEF TypeOK
  <1>1. /\ orphaned' = FALSE /\ pending' = NothingPending /\ buffered' = NothingBuffered
        /\ files_' = [c \in Channels |-> "none"]
    BY DEF CloseFolder
  <1>2. CASE ~(yyyymmdd_ # NoDay /\ ~orphaned)
    <2>1. bytes' = bytes /\ held' = held
      BY <1>2 DEF CloseFolder
    <2> QED
      BY <1>1, <1>2, <2>1
  <1>3. CASE yyyymmdd_ # NoDay /\ ~orphaned
    <2>1. PICK lost \in SUBSET Channels :
              /\ bytes' = [bytes EXCEPT ![yyyymmdd_] =
                               @ + SumFunctionOnSet(pending, Channels \ lost)]
              /\ held' = [held EXCEPT ![yyyymmdd_] =
                              @ \ UNION {buffered[c] : c \in lost}]
      BY <1>3 DEF CloseFolder
    <2>2. SumFunctionOnSet(pending, Channels \ lost) \in Nat
      <3>1. IsFiniteSet(Channels \ lost)
        BY FS_Subset, StorageAssumption
      <3> QED
        BY <1>0, <3>1, SumType
    <2> DEFINE gone == UNION {buffered[c] : c \in lost}
               flushed == SumFunctionOnSet(pending, Channels \ lost)
    <2>3. /\ held' = [held EXCEPT ![yyyymmdd_] = @ \ gone]
          /\ bytes' = [bytes EXCEPT ![yyyymmdd_] = @ + flushed]
          /\ flushed \in Nat /\ yyyymmdd_ \in Days
      BY <1>0, <1>3, <2>1, <2>2
    <2> HIDE DEF gone, flushed
    <2>4. /\ held' \in [Days -> SUBSET Ids]
          /\ \A d \in Days : held'[d] = IF d = yyyymmdd_ THEN held[d] \ gone ELSE held[d]
      BY <1>0, <2>3
    <2>5. /\ bytes' \in [Days -> Nat]
          /\ \A d \in Days : bytes'[d] = IF d = yyyymmdd_ THEN bytes[d] + flushed
                                         ELSE bytes[d]
      BY <1>0, <2>3
    <2>6. /\ yyyymmdd_ \in Days /\ yyyymmdd_ # NoDay /\ ~orphaned
          /\ \E l \in SUBSET Channels :
               /\ held' \in [Days -> SUBSET Ids]
               /\ \A d \in Days : held'[d] =
                      IF d = yyyymmdd_
                      THEN held[d] \ UNION {buffered[c] : c \in l} ELSE held[d]
               /\ bytes' \in [Days -> Nat]
               /\ SumFunctionOnSet(pending, Channels \ l) \in Nat
               /\ \A d \in Days : bytes'[d] =
                      IF d = yyyymmdd_
                      THEN bytes[d] + SumFunctionOnSet(pending, Channels \ l)
                      ELSE bytes[d]
      BY <1>3, <2>2, <2>3, <2>4, <2>5, Zenon DEF gone, flushed
    <2> QED
      BY <1>1, <2>6
  <1> QED
    BY <1>2, <1>3

-----------------------------------------------------------------------------
(* Records in the directory of their day *)

(* The active Folder has been switched to the request's day before a       *)
(* channel is touched, and the id of a new request is not in use yet.      *)
PlacementInv ==
    /\ req.id \in Nat /\ req.day \in Days
    /\ held \in [Days -> SUBSET Ids]
    /\ day_of \in [Ids -> Days]
    /\ \A d \in Days : \A i \in held[d] : i <= req.id
    /\ pc \in {"space", "day", "channel"} =>
           /\ req.id \in Ids /\ day_of[req.id] = req.day
           /\ \A d \in Days : req.id \notin held[d]
    /\ pc = "channel" => yyyymmdd_ = req.day

DayInv == PlacementInv /\ RecordInItsDay

-----------------------------------------------------------------------------

LEMMA InitDay == ASSUME Init PROVE DayInv
  <1>1. (CHOOSE d \in Days : TRUE) \in Days
    BY StorageAssumption
  <1>2. held = [d \in Days |-> {}] /\ pc = "down"
    BY DEF Init
  <1>3. req.id = 0 /\ req.day \in Days
    BY <1>1 DEF Init
  <1>4. day_of \in [Ids -> Days]
    BY <1>1 DEF Init
  <1>5. PlacementInv
    BY <1>2, <1>3, <1>4 DEF PlacementInv
  <1> QED
    BY <1>2, <1>5 DEF DayInv, RecordInItsDay

(* A step that takes records away at most, and does not enter the code     *)
(* that relies on the active day.                                          *)
LEMMA FewerRecords ==
    ASSUME DayInv, held' \in [Days -> SUBSET Ids],
           \A e \in Days : held'[e] \subseteq held[e],
           req' = req, day_of' = day_of,
           \/ pc' = pc /\ yyyymmdd_' = yyyymmdd_
           \/ pc' \in {"down", "ready", "constructor"}
           \/ pc' = "day" /\ pc = "space"
           \/ pc' = "channel" /\ pc = "day" /\ yyyymmdd_' = req.day
    PROVE  DayInv'
  <1>1. Ids' = Ids
    BY DEF Ids
  <1>2. PlacementInv'
    BY <1>1 DEF DayInv, PlacementInv
  <1> QED
    BY <1>2 DEF DayInv, RecordInItsDay

LEMMA SameRecords ==
    ASSUME DayInv, held' = held, req' = req, day_of' = day_of,
           \/ pc' = pc /\ yyyymmdd_' = yyyymmdd_
           \/ pc' \in {"down", "ready", "constructor"}
           \/ pc' = "day" /\ pc = "space"
           \/ pc' = "channel" /\ pc = "day" /\ yyyymmdd_' = req.day
    PROVE  DayInv'
  BY DEF DayInv, PlacementInv, RecordInItsDay, Ids

(* The record being written goes into the active day, which is its own.    *)
LEMMA RecordAppended ==
    ASSUME DayInv, TypeOK, pc = "channel", NEW n \in Nat, NEW new \in SUBSET {req.id},
           AppendBytes(req.channel, n, new), req' = req, day_of' = day_of, pc' = "ready"
    PROVE  DayInv'
  <1>1. /\ yyyymmdd_ = req.day /\ req.id \in Ids /\ day_of[req.id] = req.day
        /\ req.day \in Days
    BY DEF DayInv, PlacementInv
  <1>2. new \in SUBSET Ids /\ req.channel \in Channels /\ yyyymmdd_ \in Days
    BY <1>1 DEF TypeOK
  <1>3. CASE held' = held
    BY <1>3, SameRecords
  <1>4. CASE held' # held
    <2>1. /\ held' \in [Days -> SUBSET Ids]
          /\ \A d \in Days : held'[d] = IF d = yyyymmdd_ THEN held[d] \cup new
                                        ELSE held[d]
      BY <1>2, <1>4, AppendValues
    <2>2. \A e \in Days : \A i \in held'[e] :
              i \in held[e] \/ (e = req.day /\ i = req.id)
      BY <1>1, <2>1
    <2>3. RecordInItsDay'
      BY <1>1, <2>2 DEF DayInv, RecordInItsDay
    <2>4. PlacementInv'
      BY <1>1, <2>1, <2>2 DEF DayInv, PlacementInv, Ids
    <2> QED
      BY <2>3, <2>4 DEF DayInv
  <1> QED
    BY <1>3, <1>4

LEMMA DayStep == ASSUME DayInv, TypeOK, [Next]_vars PROVE DayInv'
  <1> USE DEF disk, folder_
  <1>a. ASSUME NEW d \in Days, deleteFolder(d)
        PROVE  /\ held' \in [Days -> SUBSET Ids]
               /\ \A e \in Days : held'[e] \subseteq held[e]
    BY <1>a DEF deleteFolder, DayInv, PlacementInv
  <1>b. ASSUME CloseFolder
        PROVE  /\ held' \in [Days -> SUBSET Ids]
               /\ \A e \in Days : held'[e] \subseteq held[e]
    <2>1. CASE held' = held
      BY <2>1 DEF DayInv, PlacementInv
    <2>2. CASE held' # held
      <3>1. PICK lost \in SUBSET Channels :
                /\ held' \in [Days -> SUBSET Ids]
                /\ \A d \in Days : held'[d] =
                       IF d = yyyymmdd_
                       THEN held[d] \ UNION {buffered[c] : c \in lost} ELSE held[d]
        BY <1>b, <2>2, CloseValues
      <3> QED
        BY <3>1
    <2> QED
      BY <2>1, <2>2
  <1>1. CASE Start
    BY <1>1, SameRecords DEF Start
  <1>2. CASE ConstructorEvict
    BY <1>a, <1>2, FewerRecords DEF ConstructorEvict
  <1>3. CASE ConstructorDone
    BY <1>3, SameRecords DEF ConstructorDone
  <1>4. ASSUME NEW d \in Days, NEW c \in Channels, NEW s \in Sizes, Write(d, c, s)
        PROVE  DayInv'
    <2>1. /\ held' = held /\ pc' = "space"
          /\ req'.id = req.id + 1 /\ req'.day = d
          /\ day_of' = [day_of EXCEPT ![req.id + 1] = d]
          /\ req.id < MaxWrites
      BY <1>4 DEF Write
    <2>2. req.id \in Nat /\ req.id + 1 \in Ids
      BY <2>1, StorageAssumption DEF DayInv, PlacementInv, Ids
    <2>3. \A e \in Days : \A i \in held[e] : i \in Ids /\ i <= req.id
      BY DEF DayInv, PlacementInv
    <2>4. \A e \in Days : \A i \in held[e] : day_of'[i] = day_of[i]
      BY <2>1, <2>2, <2>3 DEF DayInv, PlacementInv, Ids
    <2>5. RecordInItsDay'
      BY <2>1, <2>4 DEF DayInv, RecordInItsDay
    <2>6. day_of' \in [Ids -> Days] /\ day_of'[req.id + 1] = d
      BY <1>4, <2>1, <2>2 DEF DayInv, PlacementInv
    <2>7. \A e \in Days : \A i \in held'[e] : i <= req'.id /\ i # req'.id
      BY <2>1, <2>2, <2>3 DEF Ids
    <2>8. PlacementInv'
      BY <1>4, <2>1, <2>2, <2>6, <2>7 DEF DayInv, PlacementInv, Ids
    <2> QED
      BY <2>5, <2>8 DEF DayInv
  <1>5. CASE Evict
    BY <1>a, <1>5, FewerRecords DEF Evict
  <1>6. CASE NothingToEvict
    BY <1>6, SameRecords DEF NothingToEvict, Returns
  <1>7. CASE HasSpace
    BY <1>7, SameRecords DEF HasSpace
  <1>8. CASE KeepDay
    BY <1>8, SameRecords DEF KeepDay, sameDay
  <1>9. CASE NewDay
    BY <1>b, <1>9, FewerRecords DEF NewDay
  <1>10. CASE NewDayFails
    BY <1>b, <1>10, FewerRecords DEF NewDayFails, Returns
  <1>11. CASE OpenChannel
    BY <1>11, SameRecords DEF OpenChannel
  <1>12. CASE OpenChannelFails
    BY <1>12, SameRecords DEF OpenChannelFails, Returns
  <1>13. CASE RefuseRecord
    BY <1>13, SameRecords DEF RefuseRecord, Returns
  <1>14. CASE WriteRecord
    <2>1. RecordBytes(req.channel, req.size) \in Nat
      BY RequestBytes
    <2> QED
      BY <1>14, <2>1, RecordAppended DEF WriteRecord, Returns
  <1>15. CASE WriteFails
    <2>1. req' = req /\ day_of' = day_of /\ pc = "channel" /\ pc' = "ready"
      BY <1>15 DEF WriteFails, Returns
    <2>2. CASE LoseBuffers(req.channel)
      <3>1. /\ held' \in [Days -> SUBSET Ids]
            /\ \A e \in Days : held'[e] \subseteq held[e]
        BY <2>2 DEF LoseBuffers, DayInv, PlacementInv
      <3> QED
        BY <2>1, <3>1, FewerRecords
    <2>3. ASSUME NEW n \in FailedBytes(req.channel, req.size),
                 AppendBytes(req.channel, n,
                     IF n = RecordBytes(req.channel, req.size) THEN {req.id} ELSE {})
          PROVE  DayInv'
      <3>1. n \in Nat
        BY RequestBytes
      <3>2. (IF n = RecordBytes(req.channel, req.size) THEN {req.id} ELSE {})
                \in SUBSET {req.id}
        OBVIOUS
      <3> QED
        BY <2>1, <2>3, <3>1, <3>2, RecordAppended
    <2> QED
      BY <1>15, <2>2, <2>3 DEF WriteFails
  <1>16. CASE Crash
    <2>1. req' = req /\ day_of' = day_of /\ pc' = "down"
      BY <1>16 DEF Crash
    <2>2. /\ held' \in [Days -> SUBSET Ids]
          /\ \A e \in Days : held'[e] \subseteq held[e]
      <3>1. held \in [Days -> SUBSET Ids]
        BY DEF TypeOK
      <3>2. CASE held' = [d \in Days |-> held[d] \ volatile]
        BY <3>1, <3>2
      <3>3. ASSUME NEW d \in Days, NEW kept \in SUBSET held[d],
                   held' = [e \in Days |->
                               (IF e = d THEN kept ELSE held[e]) \ volatile]
            PROVE  /\ held' \in [Days -> SUBSET Ids]
                   /\ \A e \in Days : held'[e] \subseteq held[e]
        BY <3>1, <3>3
      <3> QED
        BY <1>16, <3>2, <3>3 DEF Crash
    <2> QED
      BY <2>1, <2>2, FewerRecords
  <1>17. CASE UNCHANGED vars
    BY <1>17, SameRecords DEF vars
  <1> QED
    BY <1>1, <1>2, <1>3, <1>4, <1>5, <1>6, <1>7, <1>8, <1>9, <1>10, <1>11,
       <1>12, <1>13, <1>14, <1>15, <1>16, <1>17 DEF Next, WriteStep

-----------------------------------------------------------------------------
(* The budget *)

(* Once the eviction loop of write() has ended, the worst case of the      *)
(* request is available until the record is charged.                       *)
BudgetInv == /\ TypeOK
             /\ IsFiniteSet(dirs)
             /\ BudgetNeverWraps
             /\ pc \in {"day", "channel"} => Fits
             /\ pc = "channel" => yyyymmdd_ \in Days
             /\ pc \in {"space", "day", "channel"} => req.id \in Ids

(* A record is never larger than maxRecordSize() estimated.                *)
LEMMA EstimateIsEnough ==
    ASSUME NEW c, NEW s \in Nat
    PROVE  /\ RecordBytes(c, s) \in Nat
           /\ maxRecordSize(s) \in Nat
           /\ RecordBytes(c, s) <= maxRecordSize(s)
  BY DEF RecordBytes, maxRecordSize, Header, IndexEntry, RecordHeader, Timestamp

(* What write() returns.                                                   *)
LEMMA ErrorResults == /\ 0 \in Results /\ -EINVAL \in Results /\ -EIO \in Results
                      /\ \A c \in Channels, s \in Sizes : RecordBytes(c, s) \in Results
  BY DEF Results

LEMMA InitBudget == ASSUME Init PROVE BudgetInv
  <1>1. /\ (CHOOSE d \in Days : TRUE) \in Days
        /\ (CHOOSE c \in Channels : TRUE) \in Channels
        /\ (CHOOSE s \in Sizes : TRUE) \in Sizes
    BY StorageAssumption
  <1>2. req \in [id : 0..MaxWrites, day : Days, channel : Channels, size : Sizes]
    BY <1>1, StorageAssumption DEF Init
  <1>3. day_of \in [Ids -> Days] /\ held \in [Days -> SUBSET Ids]
    BY <1>1 DEF Init
  <1>4. bytes \in [Days -> Nat] /\ dirs \subseteq Days
    BY DEF Init
  <1>5. files_ \in [Channels -> {"none", "open", "bad", "failed"}]
    BY DEF Init
  <1>6. /\ available_bytes_ = 0 /\ used = 0 /\ yyyymmdd_ = NoDay
        /\ orphaned = FALSE /\ pc = "down" /\ result \in Results
        /\ opened = 0 /\ uncharged = 0
    BY ErrorResults DEF Init, NoResult
  <1>8. pending \in [Channels -> Nat] /\ buffered \in [Channels -> SUBSET Ids]
    BY DEF Init, NothingPending, NothingBuffered
  <1>7. TypeOK
    <2>1. /\ available_bytes_ \in Int /\ used \in Nat
          /\ yyyymmdd_ \in Days \cup {NoDay}
          /\ opened \in Nat /\ uncharged \in Nat
      BY <1>6
    <2>2. orphaned \in BOOLEAN
      BY <1>6
    <2> QED
      BY <1>2, <1>3, <1>4, <1>5, <1>6, <1>8, <2>1, <2>2, Zenon DEF TypeOK
  <1> QED
    BY <1>6, <1>7, FS_EmptySet DEF Init, BudgetInv, BudgetNeverWraps

(* What usedBytes() adds up is a number.                                   *)
LEMMA UsedIsNat == ASSUME TypeOK, IsFiniteSet(dirs) PROVE usedBytes \in Nat
  <1>1. SumFunctionOnSet(bytes, dirs) \in Nat
    BY SumType DEF TypeOK
  <1> QED
    BY <1>1, StorageAssumption DEF usedBytes

(* Only a new day adds a directory, one at a time.                         *)
LEMMA FiniteStep == ASSUME IsFiniteSet(dirs), [Next]_vars PROVE IsFiniteSet(dirs')
  <1> USE DEF disk
  <1>1. dirs' = dirs \/ (\E d \in Days : dirs' = dirs \ {d}) \/ (\E d : dirs' = dirs \cup {d})
    BY DEF Next, WriteStep, vars, Start, ConstructorEvict, ConstructorDone, Write,
       Evict, NothingToEvict, HasSpace, KeepDay, NewDay, NewDayFails, OpenChannel,
       OpenChannelFails, RefuseRecord, WriteRecord, WriteFails, Crash, deleteFolder
  <1> QED
    BY <1>1, FS_AddElement, FS_RemoveElement

LEMMA TypeStep == ASSUME BudgetInv, [Next]_vars PROVE TypeOK'
  <1> USE StorageAssumption DEF disk, folder_, buffers
  <1>0. TypeOK /\ Ids' = Ids
    BY DEF BudgetInv, Ids
  <1>a. /\ 0 \in Results /\ -EINVAL \in Results /\ -EIO \in Results
        /\ NoResult \in Results
        /\ RecordBytes(req.channel, req.size) \in Results
    BY <1>0, ErrorResults, RequestBytes DEF NoResult
  <1>c. NothingPending \in [Channels -> Nat] /\ NothingBuffered \in [Channels -> SUBSET Ids]
    BY DEF NothingPending, NothingBuffered
  <1>d. ASSUME NEW d \in Days, deleteFolder(d)
        PROVE  /\ dirs' \subseteq Days /\ bytes' \in [Days -> Nat]
               /\ held' \in [Days -> SUBSET Ids]
               /\ pending' \in [Channels -> Nat] /\ buffered' \in [Channels -> SUBSET Ids]
               /\ freed_bytes(d) \in Nat
    BY <1>0, <1>c, <1>d DEF deleteFolder, freed_bytes, TypeOK
  <1>e. ASSUME NEW d \in Days, deleteFolder(d) PROVE orphaned' \in BOOLEAN
    BY <1>0, <1>e, Zenon DEF deleteFolder, TypeOK
  <1>1. CASE Start
    <2>1. usedBytes \in Nat
      BY UsedIsNat DEF BudgetInv
    <2> QED
      BY <1>0, <1>1, <2>1 DEF Start, TypeOK
  <1>2. CASE ConstructorEvict
    BY <1>0, <1>d, <1>e, <1>2 DEF ConstructorEvict, TypeOK
  <1>3. CASE ConstructorDone
    BY <1>0, <1>3 DEF ConstructorDone, TypeOK
  <1>4. ASSUME NEW d \in Days, NEW c \in Channels, NEW s \in Sizes, Write(d, c, s)
        PROVE  TypeOK'
    BY <1>0, <1>4 DEF Write, TypeOK, Ids
  <1>5. CASE Evict
    BY <1>0, <1>d, <1>e, <1>5 DEF Evict, TypeOK
  <1>6. CASE NothingToEvict
    BY <1>0, <1>a, <1>6 DEF NothingToEvict, Returns, TypeOK
  <1>7. CASE HasSpace
    BY <1>0, <1>7 DEF HasSpace, TypeOK
  <1>8. CASE KeepDay
    BY <1>0, <1>8 DEF KeepDay, TypeOK
  <1>b. ASSUME CloseFolder
        PROVE  /\ bytes' \in [Days -> Nat] /\ held' \in [Days -> SUBSET Ids]
               /\ files_' \in [Channels -> {"none", "open", "bad", "failed"}]
               /\ ~orphaned' /\ orphaned' \in BOOLEAN
               /\ pending' \in [Channels -> Nat] /\ buffered' \in [Channels -> SUBSET Ids]
    <2>1. files_' \in [Channels -> {"none", "open", "bad", "failed"}]
      BY <1>b DEF CloseFolder
    <2>2. bytes' \in [Days -> Nat] /\ held' \in [Days -> SUBSET Ids]
      <3>1. bytes \in [Days -> Nat] /\ held \in [Days -> SUBSET Ids]
        BY <1>0 DEF TypeOK
      <3> QED
        BY <1>0, <1>b, <3>1, CloseValues
    <2>3. orphaned' = FALSE /\ pending' = NothingPending /\ buffered' = NothingBuffered
      BY <1>b DEF CloseFolder
    <2> QED
      BY <1>c, <2>1, <2>2, <2>3
  <1>9. CASE NewDay
    BY <1>0, <1>9, <1>b DEF NewDay, TypeOK
  <1>10. CASE NewDayFails
    BY <1>0, <1>a, <1>10, <1>b DEF NewDayFails, Returns, TypeOK
  <1>11. CASE OpenChannel
    <2>1. yyyymmdd_ \in Days /\ HeaderBytes(req.channel) \in Nat
      BY <1>11 DEF OpenChannel, BudgetInv, HeaderBytes, Header
    <2> QED
      BY <1>0, <1>11, <2>1 DEF OpenChannel, TypeOK
  <1>12. CASE OpenChannelFails
    <2>1. yyyymmdd_ \in Days /\ Header \in Nat
      BY <1>12 DEF OpenChannelFails, BudgetInv, Header
    <2> QED
      BY <1>0, <1>a, <1>12, <2>1 DEF OpenChannelFails, Returns, TypeOK
  <1>13. CASE RefuseRecord
    BY <1>0, <1>a, <1>13 DEF RefuseRecord, Returns, TypeOK
  <1>f. ASSUME pc = "channel", NEW n \in Nat, NEW new \in SUBSET {req.id},
               AppendBytes(req.channel, n, new)
        PROVE  /\ bytes' \in [Days -> Nat] /\ held' \in [Days -> SUBSET Ids]
               /\ pending' \in [Channels -> Nat] /\ buffered' \in [Channels -> SUBSET Ids]
    <2>1. yyyymmdd_ \in Days /\ new \in SUBSET Ids /\ req.channel \in Channels
      BY <1>0, <1>f, RequestBytes DEF BudgetInv
    <2>2. /\ bytes \in [Days -> Nat] /\ held \in [Days -> SUBSET Ids]
          /\ pending \in [Channels -> Nat] /\ buffered \in [Channels -> SUBSET Ids]
      BY <1>0 DEF TypeOK
    <2> QED
      BY <1>0, <1>f, <2>1, <2>2, AppendValues
  <1>14. CASE WriteRecord
    <2>1. RecordBytes(req.channel, req.size) \in Nat
      BY <1>0, RequestBytes
    <2>2. /\ bytes' \in [Days -> Nat] /\ held' \in [Days -> SUBSET Ids]
          /\ pending' \in [Channels -> Nat] /\ buffered' \in [Channels -> SUBSET Ids]
      BY <1>f, <1>14, <2>1 DEF WriteRecord
    <2> QED
      BY <1>0, <1>a, <1>14, <2>1, <2>2 DEF WriteRecord, Charged, Reported, Returns, TypeOK
  <1>15. CASE WriteFails
    <2>1. RecordBytes(req.channel, req.size) \in Nat
      BY <1>0, RequestBytes
    <2>2. /\ bytes' \in [Days -> Nat] /\ held' \in [Days -> SUBSET Ids]
          /\ pending' \in [Channels -> Nat] /\ buffered' \in [Channels -> SUBSET Ids]
      <3>1. CASE LoseBuffers(req.channel)
        BY <1>0, <3>1 DEF LoseBuffers, TypeOK
      <3>2. ASSUME NEW n \in FailedBytes(req.channel, req.size),
                   AppendBytes(req.channel, n,
                       IF n = RecordBytes(req.channel, req.size) THEN {req.id} ELSE {})
            PROVE  /\ bytes' \in [Days -> Nat] /\ held' \in [Days -> SUBSET Ids]
                   /\ pending' \in [Channels -> Nat]
                   /\ buffered' \in [Channels -> SUBSET Ids]
        <4>1. n \in Nat /\ pc = "channel"
          BY <1>0, <1>15, RequestBytes DEF WriteFails
        <4>2. (IF n = RecordBytes(req.channel, req.size) THEN {req.id} ELSE {})
                  \in SUBSET {req.id}
          OBVIOUS
        <4> QED
          BY <1>f, <3>2, <4>1, <4>2
      <3> QED
        BY <1>15, <3>1, <3>2 DEF WriteFails
    <2>3. files_' \in [Channels -> {"none", "open", "bad", "failed"}]
      BY <1>0, <1>15 DEF WriteFails, TypeOK
    <2>4. uncharged' \in Nat
      BY <1>0, <1>15, <2>1 DEF WriteFails, TypeOK
    <2> QED
      BY <1>0, <1>a, <1>15, <2>2, <2>3, <2>4 DEF WriteFails, Returns, TypeOK
  <1>16. CASE Crash
    <2>1. bytes' \in [Days -> Nat] /\ held' \in [Days -> SUBSET Ids]
      <3>1. bytes \in [Days -> Nat] /\ held \in [Days -> SUBSET Ids]
        BY <1>0 DEF TypeOK
      <3>2. CASE held' = [d \in Days |-> held[d] \ volatile] /\ bytes' = bytes
        BY <3>1, <3>2
      <3>3. ASSUME NEW d \in Days, NEW left \in Leftovers, NEW kept \in SUBSET held[d],
                   bytes' = [bytes EXCEPT ![d] = left],
                   held' = [e \in Days |->
                               (IF e = d THEN kept ELSE held[e]) \ volatile]
            PROVE  bytes' \in [Days -> Nat] /\ held' \in [Days -> SUBSET Ids]
        BY <3>1, <3>3
      <3> QED
        BY <1>16, <3>2, <3>3 DEF Crash
    <2>2. files_' \in [Channels -> {"none", "open", "bad", "failed"}]
      BY <1>16 DEF Crash
    <2>3. /\ dirs' = dirs /\ req' = req /\ day_of' = day_of
          /\ available_bytes_' \in Int /\ used' \in Nat
          /\ yyyymmdd_' \in Days \cup {NoDay}
          /\ pending' \in [Channels -> Nat] /\ buffered' \in [Channels -> SUBSET Ids]
          /\ opened' \in Nat /\ uncharged' \in Nat /\ result' \in Results
          /\ pc' = "down"
      BY <1>a, <1>c, <1>16 DEF Crash
    <2>4. orphaned' \in BOOLEAN
      BY <1>16 DEF Crash
    <2> QED
      BY <1>0, <2>1, <2>2, <2>3, <2>4, Zenon DEF TypeOK
  <1>17. CASE UNCHANGED vars
    BY <1>0, <1>17 DEF vars, TypeOK
  <1> QED
    BY <1>1, <1>2, <1>3, <1>4, <1>5, <1>6, <1>7, <1>8, <1>9, <1>10, <1>11,
       <1>12, <1>13, <1>14, <1>15, <1>16, <1>17 DEF Next, WriteStep

LEMMA BudgetStep == ASSUME BudgetInv, [Next]_vars PROVE BudgetInv'
  <1> DEFINE Others == /\ BudgetNeverWraps
                       /\ pc \in {"day", "channel"} => Fits
                       /\ pc = "channel" => yyyymmdd_ \in Days
                       /\ pc \in {"space", "day", "channel"} => req.id \in Ids
  <1> SUFFICES Others'
    BY TypeStep, FiniteStep DEF BudgetInv
  <1> USE StorageAssumption DEF disk, folder_, buffers, BudgetInv, BudgetNeverWraps, Fits,
          Ids
  <1>0. TypeOK /\ TypeOK'
    BY TypeStep
  <1>1. CASE Start
    BY <1>0, <1>1 DEF Start
  <1>2. CASE ConstructorEvict
    BY <1>0, <1>2 DEF ConstructorEvict, freed_bytes, TypeOK
  <1>3. CASE ConstructorDone
    BY <1>0, <1>3 DEF ConstructorDone, TypeOK
  <1>4. ASSUME NEW d \in Days, NEW c \in Channels, NEW s \in Sizes, Write(d, c, s)
        PROVE  Others'
    BY <1>0, <1>4 DEF Write, TypeOK
  <1>5. CASE Evict
    BY <1>0, <1>5 DEF Evict, freed_bytes, TypeOK
  <1>6. CASE NothingToEvict
    BY <1>0, <1>6 DEF NothingToEvict, Returns
  <1>7. CASE HasSpace
    BY <1>0, <1>7 DEF HasSpace
  <1>8. CASE KeepDay
    BY <1>0, <1>8 DEF KeepDay, sameDay, TypeOK
  <1>9. CASE NewDay
    BY <1>0, <1>9 DEF NewDay, TypeOK
  <1>10. CASE NewDayFails
    BY <1>0, <1>10 DEF NewDayFails, Returns
  <1>11. CASE OpenChannel
    BY <1>0, <1>11 DEF OpenChannel
  <1>12. CASE OpenChannelFails
    BY <1>0, <1>12 DEF OpenChannelFails, Returns
  <1>13. CASE RefuseRecord
    BY <1>0, <1>13 DEF RefuseRecord, Returns
  <1>14. CASE WriteRecord
    <2>1. /\ maxRecordSize(req.size) <= available_bytes_
          /\ req.size \in Nat /\ available_bytes_ \in Int
          /\ available_bytes_' = available_bytes_ - RecordBytes(req.channel, req.size)
          /\ pc' = "ready"
      BY <1>0, <1>14 DEF WriteRecord, Charged, Reported, Returns, TypeOK
    <2>2. available_bytes_' >= 0
      BY <2>1, EstimateIsEnough
    <2> QED
      BY <2>1, <2>2
  <1>15. CASE WriteFails
    BY <1>0, <1>15 DEF WriteFails, Returns
  <1>16. CASE Crash
    BY <1>0, <1>16 DEF Crash
  <1>17. CASE UNCHANGED vars
    BY <1>0, <1>17 DEF vars
  <1> QED
    BY <1>1, <1>2, <1>3, <1>4, <1>5, <1>6, <1>7, <1>8, <1>9, <1>10, <1>11,
       <1>12, <1>13, <1>14, <1>15, <1>16, <1>17 DEF Next, WriteStep

-----------------------------------------------------------------------------
(* Refinement *)

(* A day with records has a directory, and so has the active Folder as     *)
(* long as it was not evicted: this is why the oldest directory is the     *)
(* oldest day with records.                                                *)
DirInv == /\ \A d \in Days : held[d] # {} => d \in dirs
          /\ yyyymmdd_ # NoDay /\ ~orphaned => yyyymmdd_ \in dirs

(* What the stream buffers have belongs to the active Folder, each record  *)
(* to one channel.                                                         *)
BufferInv == /\ \A c \in Channels : \A i \in buffered[c] :
                    yyyymmdd_ \in Days /\ ~orphaned /\ i \in held[yyyymmdd_]
             /\ \A c, k \in Channels : \A i \in buffered[c] :
                    i \in buffered[k] => c = k

RetentionInv == BudgetInv /\ DayInv /\ DirInv /\ BufferInv

(* Eviction takes a directory and its records together.                    *)
LEMMA DirEvict ==
    ASSUME TypeOK, DirInv, NEW d \in Days, deleteFolder(d), yyyymmdd_' = yyyymmdd_
    PROVE  DirInv'
  <1>1. \A e \in Days : held'[e] # {} => e # d /\ held[e] # {}
    BY DEF deleteFolder, TypeOK
  <1>2. dirs' = dirs \ {d}
    BY DEF deleteFolder
  <1>3. ASSUME ~orphaned' PROVE ~orphaned /\ d # yyyymmdd_
    BY <1>3, Zenon DEF deleteFolder
  <1>4. \A e \in Days : held'[e] # {} => e \in dirs'
    BY <1>1, <1>2 DEF DirInv
  <1>5. yyyymmdd_' # NoDay /\ ~orphaned' => yyyymmdd_' \in dirs'
    BY <1>2, <1>3 DEF DirInv
  <1> QED
    BY <1>4, <1>5 DEF DirInv, NoDay

(* Nothing is added to the records, and every directory stays.             *)
LEMMA DirFewer ==
    ASSUME DirInv, dirs \subseteq dirs', \A d \in Days : held'[d] \subseteq held[d],
           \/ yyyymmdd_' = yyyymmdd_ /\ orphaned' = orphaned
           \/ yyyymmdd_' = NoDay \/ yyyymmdd_' \in dirs'
    PROVE  DirInv'
  BY DEF DirInv, NoDay

LEMMA DirAppend ==
    ASSUME RetentionInv, pc = "channel", NEW n \in Nat, NEW new \in SUBSET {req.id},
           AppendBytes(req.channel, n, new), dirs' = dirs, yyyymmdd_' = yyyymmdd_,
           orphaned' = orphaned
    PROVE  DirInv'
  <1>1. /\ TypeOK /\ yyyymmdd_ \in Days /\ yyyymmdd_ # NoDay
        /\ req.channel \in Channels /\ new \in SUBSET Ids
    BY StorageAssumption, RequestBytes DEF RetentionInv, BudgetInv, NoDay
  <1>2. CASE held' = held
    BY <1>2, DirFewer DEF RetentionInv
  <1>3. CASE held' # held
    <2>1. ~orphaned /\ \A d \in Days : d # yyyymmdd_ => held'[d] = held[d]
      BY <1>1, <1>3, AppendValues
    <2> QED
      BY <1>1, <2>1 DEF RetentionInv, DirInv, NoDay
  <1> QED
    BY <1>2, <1>3

(* CloseFolder and Crash take records away at most.                        *)
LEMMA CloseFewer ==
    ASSUME TypeOK, CloseFolder
    PROVE  \A d \in Days : held'[d] \subseteq held[d]
  <1>1. CASE held' = held
    BY <1>1
  <1>2. CASE held' # held
    <2>1. PICK lost \in SUBSET Channels :
              \A d \in Days : held'[d] =
                     IF d = yyyymmdd_
                     THEN held[d] \ UNION {buffered[c] : c \in lost} ELSE held[d]
      BY <1>2, CloseValues
    <2> QED
      BY <2>1
  <1> QED
    BY <1>1, <1>2

LEMMA CrashFewer ==
    ASSUME Crash
    PROVE  \A d \in Days : held'[d] \subseteq held[d]
  <1>1. CASE held' = [d \in Days |-> held[d] \ volatile]
    BY <1>1
  <1>2. ASSUME NEW d \in Days, NEW kept \in SUBSET held[d],
               held' = [e \in Days |-> (IF e = d THEN kept ELSE held[e]) \ volatile]
        PROVE  \A e \in Days : held'[e] \subseteq held[e]
    BY <1>2
  <1> QED
    BY <1>1, <1>2 DEF Crash

LEMMA DirStep == ASSUME RetentionInv, [Next]_vars PROVE DirInv'
  <1> USE DEF disk, folder_, RetentionInv
  <1>0. TypeOK /\ DirInv
    BY DEF BudgetInv
  <1>1. CASE Start
    BY <1>0, <1>1, DirFewer DEF Start
  <1>2. CASE ConstructorEvict
    BY <1>0, <1>2, DirEvict DEF ConstructorEvict
  <1>3. CASE ConstructorDone
    BY <1>0, <1>3, DirFewer DEF ConstructorDone
  <1>4. ASSUME NEW d \in Days, NEW c \in Channels, NEW s \in Sizes, Write(d, c, s)
        PROVE  DirInv'
    BY <1>0, <1>4, DirFewer DEF Write
  <1>5. CASE Evict
    BY <1>0, <1>5, DirEvict DEF Evict
  <1>6. CASE NothingToEvict
    BY <1>0, <1>6, DirFewer DEF NothingToEvict
  <1>7. CASE HasSpace
    BY <1>0, <1>7, DirFewer DEF HasSpace
  <1>8. CASE KeepDay
    BY <1>0, <1>8, DirFewer DEF KeepDay
  <1>9. CASE NewDay
    BY <1>0, <1>9, CloseFewer, DirFewer DEF NewDay
  <1>10. CASE NewDayFails
    BY <1>0, <1>10, CloseFewer, DirFewer DEF NewDayFails
  <1>11. CASE OpenChannel
    BY <1>0, <1>11, DirFewer DEF OpenChannel
  <1>12. CASE OpenChannelFails
    BY <1>0, <1>12, DirFewer DEF OpenChannelFails
  <1>13. CASE RefuseRecord
    BY <1>0, <1>13, DirFewer DEF RefuseRecord
  <1>14. CASE WriteRecord
    BY <1>0, <1>14, RequestBytes, DirAppend DEF WriteRecord
  <1>15. CASE WriteFails
    <2>1. /\ dirs' = dirs /\ yyyymmdd_' = yyyymmdd_ /\ orphaned' = orphaned
          /\ pc = "channel"
      BY <1>15 DEF WriteFails
    <2>2. CASE LoseBuffers(req.channel)
      <3>1. \A d \in Days : held'[d] \subseteq held[d]
        BY <2>2 DEF LoseBuffers
      <3> QED
        BY <1>0, <2>1, <3>1, DirFewer
    <2>3. ASSUME NEW n \in FailedBytes(req.channel, req.size),
                 AppendBytes(req.channel, n,
                     IF n = RecordBytes(req.channel, req.size) THEN {req.id} ELSE {})
          PROVE  DirInv'
      <3>1. n \in Nat
        BY <1>0, RequestBytes
      <3>2. (IF n = RecordBytes(req.channel, req.size) THEN {req.id} ELSE {})
                \in SUBSET {req.id}
        OBVIOUS
      <3> QED
        BY <2>1, <2>3, <3>1, <3>2, DirAppend
    <2> QED
      BY <1>15, <2>2, <2>3 DEF WriteFails
  <1>16. CASE Crash
    <2>1. dirs' = dirs /\ yyyymmdd_' = NoDay
      BY <1>16 DEF Crash
    <2> QED
      BY <1>0, <1>16, <2>1, CrashFewer, DirFewer
  <1>17. CASE UNCHANGED vars
    BY <1>0, <1>17, DirFewer DEF vars
  <1> QED
    BY <1>1, <1>2, <1>3, <1>4, <1>5, <1>6, <1>7, <1>8, <1>9, <1>10, <1>11,
       <1>12, <1>13, <1>14, <1>15, <1>16, <1>17 DEF Next, WriteStep

-----------------------------------------------------------------------------
(* The buffers *)

(* Days that the evicted one does not touch.                               *)
LEMMA OtherDays ==
    ASSUME DayInv, NEW d \in Days, NEW e \in Days, d # e
    PROVE  \A i \in held[d] : i \notin held[e]
  BY DEF DayInv, RecordInItsDay

LEMMA BufferEvict ==
    ASSUME TypeOK, DayInv, BufferInv, NEW d \in Days, deleteFolder(d),
           yyyymmdd_' = yyyymmdd_
    PROVE  BufferInv'
  <1>1. CASE d = yyyymmdd_
    <2>1. buffered' = NothingBuffered
      BY <1>1 DEF deleteFolder
    <2> QED
      BY <2>1 DEF BufferInv, NothingBuffered
  <1>2. CASE d # yyyymmdd_
    <2>1. buffered' = buffered /\ (orphaned' <=> orphaned)
      BY <1>2, Zenon DEF deleteFolder, TypeOK
    <2>2. yyyymmdd_ \in Days => held'[yyyymmdd_] = held[yyyymmdd_]
      BY <1>2 DEF deleteFolder, TypeOK
    <2> QED
      BY <2>1, <2>2 DEF BufferInv
  <1> QED
    BY <1>1, <1>2

LEMMA BufferAppend ==
    ASSUME RetentionInv, pc = "channel", NEW n \in Nat, NEW new \in SUBSET {req.id},
           AppendBytes(req.channel, n, new), yyyymmdd_' = yyyymmdd_,
           orphaned' = orphaned
    PROVE  BufferInv'
  <1>1. /\ TypeOK /\ yyyymmdd_ \in Days /\ BufferInv
        /\ req.channel \in Channels /\ new \in SUBSET Ids
    BY RequestBytes DEF RetentionInv, BudgetInv
  <1>2. \A d \in Days : req.id \notin held[d]
    BY DEF RetentionInv, DayInv, PlacementInv
  <1>3. CASE orphaned
    <2>1. buffered' = buffered /\ held' = held
      BY <1>1, <1>3, AppendValues
    <2> QED
      BY <1>1, <2>1 DEF BufferInv
  <1>4. CASE ~orphaned
    <2>1. /\ held'[yyyymmdd_] = held[yyyymmdd_] \cup new
          /\ \A k \in Channels : buffered'[k] \subseteq
                 IF k = req.channel THEN buffered[k] \cup new ELSE buffered[k]
      BY <1>1, <1>4, AppendValues
    <2>2. \A c \in Channels : \A i \in buffered'[c] :
              \/ i \in buffered[c]
              \/ i = req.id /\ c = req.channel /\ i \in new
      BY <2>1
    <2>3. \A c \in Channels : req.id \notin buffered[c]
      BY <1>1, <1>2 DEF BufferInv
    <2>4. \A c \in Channels : \A i \in buffered'[c] : i \in held'[yyyymmdd_]
      BY <1>1, <2>1, <2>2 DEF BufferInv
    <2>5. \A c, k \in Channels : \A i \in buffered'[c] : i \in buffered'[k] => c = k
      BY <1>1, <2>2, <2>3 DEF BufferInv
    <2> QED
      BY <1>1, <1>4, <2>4, <2>5 DEF BufferInv
  <1> QED
    BY <1>3, <1>4

LEMMA BufferSame ==
    ASSUME BufferInv, buffered' = buffered, held' = held, yyyymmdd_' = yyyymmdd_,
           orphaned' = orphaned
    PROVE  BufferInv'
  BY DEF BufferInv

LEMMA BufferNone == ASSUME buffered' = NothingBuffered PROVE BufferInv'
  BY DEF BufferInv, NothingBuffered

LEMMA BufferStep == ASSUME RetentionInv, [Next]_vars PROVE BufferInv'
  <1> USE DEF disk, folder_, buffers
  <1>0. TypeOK /\ BufferInv /\ DayInv
    BY DEF RetentionInv, BudgetInv
  <1>1. CASE Start
    BY <1>0, <1>1, BufferSame DEF Start
  <1>2. CASE ConstructorEvict
    BY <1>0, <1>2, BufferEvict DEF ConstructorEvict
  <1>3. CASE ConstructorDone
    BY <1>0, <1>3, BufferSame DEF ConstructorDone
  <1>4. ASSUME NEW d \in Days, NEW c \in Channels, NEW s \in Sizes, Write(d, c, s)
        PROVE  BufferInv'
    BY <1>0, <1>4, BufferSame DEF Write
  <1>5. CASE Evict
    BY <1>0, <1>5, BufferEvict DEF Evict
  <1>6. CASE NothingToEvict
    BY <1>0, <1>6, BufferSame DEF NothingToEvict
  <1>7. CASE HasSpace
    BY <1>0, <1>7, BufferSame DEF HasSpace
  <1>8. CASE KeepDay
    BY <1>0, <1>8, BufferSame DEF KeepDay
  <1>9. CASE NewDay
    BY <1>9, BufferNone DEF NewDay, CloseFolder
  <1>10. CASE NewDayFails
    BY <1>10, BufferNone DEF NewDayFails, CloseFolder
  <1>11. CASE OpenChannel
    BY <1>0, <1>11, BufferSame DEF OpenChannel
  <1>12. CASE OpenChannelFails
    BY <1>0, <1>12, BufferSame DEF OpenChannelFails
  <1>13. CASE RefuseRecord
    BY <1>0, <1>13, BufferSame DEF RefuseRecord
  <1>14. CASE WriteRecord
    BY <1>0, <1>14, RequestBytes, BufferAppend DEF WriteRecord
  <1>15. CASE WriteFails
    <2>1. yyyymmdd_' = yyyymmdd_ /\ orphaned' = orphaned /\ pc = "channel"
      BY <1>15 DEF WriteFails
    <2>2. CASE LoseBuffers(req.channel)
      <3>1. buffered \in [Channels -> SUBSET Ids] /\ held \in [Days -> SUBSET Ids]
            /\ req.channel \in Channels
        BY <1>0, RequestBytes DEF TypeOK
      <3>2. /\ \A k \in Channels : buffered'[k] = IF k = req.channel THEN {}
                                                  ELSE buffered[k]
            /\ \A d \in Days : held'[d] = held[d] \ buffered[req.channel]
        BY <2>2, <3>1 DEF LoseBuffers
      <3>3. \A c \in Channels : \A i \in buffered'[c] :
                i \in buffered[c] /\ c # req.channel
        BY <3>2
      <3>4. \A c \in Channels : \A i \in buffered'[c] : i \notin buffered[req.channel]
        BY <1>0, <3>1, <3>3 DEF BufferInv
      <3> QED
        BY <1>0, <2>1, <3>2, <3>3, <3>4 DEF BufferInv
    <2>3. ASSUME NEW n \in FailedBytes(req.channel, req.size),
                 AppendBytes(req.channel, n,
                     IF n = RecordBytes(req.channel, req.size) THEN {req.id} ELSE {})
          PROVE  BufferInv'
      <3>1. n \in Nat
        BY <1>0, RequestBytes
      <3>2. (IF n = RecordBytes(req.channel, req.size) THEN {req.id} ELSE {})
                \in SUBSET {req.id}
        OBVIOUS
      <3> QED
        BY <2>1, <2>3, <3>1, <3>2, BufferAppend
    <2> QED
      BY <1>15, <2>2, <2>3 DEF WriteFails
  <1>16. CASE Crash
    BY <1>16, BufferNone DEF Crash
  <1>17. CASE UNCHANGED vars
    BY <1>0, <1>17, BufferSame DEF vars
  <1> QED
    BY <1>1, <1>2, <1>3, <1>4, <1>5, <1>6, <1>7, <1>8, <1>9, <1>10, <1>11,
       <1>12, <1>13, <1>14, <1>15, <1>16, <1>17 DEF Next, WriteStep

-----------------------------------------------------------------------------
(* Steps of Retention *)

(* The records at risk are those of the active day.                        *)
LEMMA AtRisk ==
    ASSUME RetentionInv
    PROVE  /\ \A i \in volatile : yyyymmdd_ \in Days /\ ~orphaned /\ i \in held[yyyymmdd_]
           /\ \A d \in Days : d # yyyymmdd_ => held[d] \ volatile = held[d]
  <1>1. \A i \in volatile : yyyymmdd_ \in Days /\ ~orphaned /\ i \in held[yyyymmdd_]
    BY DEF RetentionInv, BufferInv, volatile
  <1>2. ASSUME NEW d \in Days, d # yyyymmdd_, NEW i \in held[d] PROVE i \notin volatile
    BY <1>1, <1>2, OtherDays DEF RetentionInv
  <1> QED
    BY <1>1, <1>2

LEMMA NothingAtRisk == ASSUME buffered' = NothingBuffered PROVE volatile' = {}
  BY DEF volatile, NothingBuffered

(* Giving up the oldest directory is giving up the oldest day.             *)
LEMMA ExpireStep ==
    ASSUME RetentionInv, NEW d \in Days, Oldest(d), deleteFolder(d),
           req' = req, day_of' = day_of
    PROVE  R!Expire(d)
  <1>1. \A e \in Days : held[e] # {} => d <= e
    BY DEF RetentionInv, DirInv, Oldest
  <1>2. held' = [held EXCEPT ![d] = {}]
    BY DEF deleteFolder
  <1>3. volatile' = volatile \ held[d]
    <2>1. CASE d = yyyymmdd_
      <3>1. volatile' = {}
        BY <2>1, NothingAtRisk DEF deleteFolder
      <3> QED
        BY <2>1, <3>1, AtRisk
    <2>2. CASE d # yyyymmdd_
      <3>1. volatile' = volatile
        BY <2>2 DEF deleteFolder, volatile
      <3>2. held[d] \ volatile = held[d]
        BY <2>2, AtRisk
      <3> QED
        BY <3>1, <3>2
    <2> QED
      BY <2>1, <2>2
  <1> QED
    BY <1>1, <1>2, <1>3 DEF R!Expire, R!OldestWithRecords

(* A step that neither stores nor loses a record.                          *)
LEMMA SafeStep ==
    ASSUME TypeOK, held' = held, volatile' \subseteq volatile, req' = req, day_of' = day_of
    PROVE  R!AbsNext
  <1>1. held = [d \in Days |-> held[d] \ {}]
    BY DEF TypeOK
  <1>2. R!Settle({})
    BY <1>1 DEF R!Settle
  <1> QED
    BY <1>2 DEF R!AbsNext

(* What goes into the files of the active day is the request's record.     *)
LEMMA StoreStep ==
    ASSUME RetentionInv, pc = "channel", NEW n \in Nat, NEW new \in SUBSET {req.id},
           AppendBytes(req.channel, n, new), req' = req, day_of' = day_of
    PROVE  R!AbsNext
  <1>1. /\ TypeOK /\ yyyymmdd_ \in Days /\ BufferInv /\ DayInv
        /\ req.channel \in Channels /\ new \in SUBSET Ids
        /\ held \in [Days -> SUBSET Ids]
    BY RequestBytes DEF RetentionInv, BudgetInv, TypeOK
  <1>2. /\ req.id \in Ids /\ req.id > 0 /\ day_of[req.id] = yyyymmdd_
    BY DEF RetentionInv, DayInv, PlacementInv, Ids
  <1>3. CASE orphaned
    <2>1. buffered' = buffered /\ held' = held
      BY <1>1, <1>3, AppendValues
    <2>2. volatile' = volatile
      BY <2>1 DEF volatile
    <2> QED
      BY <1>1, <2>1, <2>2, SafeStep
  <1>4. CASE ~orphaned
    <2>1. /\ held' \in [Days -> SUBSET Ids]
          /\ \A d \in Days : held'[d] = IF d = yyyymmdd_ THEN held[d] \cup new
                                        ELSE held[d]
          /\ \A k \in Channels : buffered'[k] \subseteq
                 IF k = req.channel THEN buffered[k] \cup new ELSE buffered[k]
      BY <1>1, <1>4, AppendValues
    <2>2. volatile' \subseteq volatile \cup new
      BY <1>1, <2>1 DEF volatile
    <2>3. CASE new = {}
      <3>1. held' = held
        BY <1>1, <2>1, <2>3
      <3> QED
        BY <1>1, <2>2, <2>3, <3>1, SafeStep
    <2>4. CASE new = {req.id}
      <3>1. held' = [held EXCEPT ![yyyymmdd_] = @ \cup {req.id}]
        BY <1>1, <2>1, <2>4
      <3>2. \A i \in volatile' : day_of[i] = yyyymmdd_
        BY <1>1, <1>2, <2>2, <2>4, AtRisk DEF DayInv, RecordInItsDay
      <3>3. R!Store
        BY <1>2, <2>2, <2>4, <3>1, <3>2 DEF R!Store
      <3> QED
        BY <3>3 DEF R!AbsNext
    <2> QED
      BY <2>3, <2>4
  <1> QED
    BY <1>3, <1>4

(* Closing the active Folder settles what its buffers have.                *)
LEMMA CloseStep ==
    ASSUME RetentionInv, CloseFolder, req' = req, day_of' = day_of
    PROVE  R!AbsNext
  <1>1. TypeOK /\ held \in [Days -> SUBSET Ids] /\ DayInv
    BY DEF RetentionInv, BudgetInv, TypeOK
  <1>2. volatile' = {}
    BY NothingAtRisk DEF CloseFolder
  <1>3. CASE held' = held
    BY <1>1, <1>2, <1>3, SafeStep
  <1>4. CASE held' # held
    <2>1. PICK lost \in SUBSET Channels :
              /\ held' \in [Days -> SUBSET Ids]
              /\ \A d \in Days : held'[d] =
                     IF d = yyyymmdd_
                     THEN held[d] \ UNION {buffered[c] : c \in lost} ELSE held[d]
      BY <1>1, <1>4, CloseValues
    <2> DEFINE gone == UNION {buffered[c] : c \in lost}
    <2>2. gone \subseteq volatile
      BY DEF volatile
    <2>3. \A d \in Days : held'[d] = IF d = yyyymmdd_ THEN held[d] \ gone ELSE held[d]
      BY <2>1
    <2> HIDE DEF gone
    <2>4. \A d \in Days : held'[d] = held[d] \ gone
      BY <2>2, <2>3, AtRisk
    <2>5. held' = [d \in Days |-> held[d] \ gone]
      BY <2>1, <2>4
    <2>6. R!Settle(gone)
      BY <1>2, <2>2, <2>5 DEF R!Settle
    <2> QED
      BY <2>2, <2>6 DEF R!AbsNext
  <1> QED
    BY <1>3, <1>4

(* A failing stream loses what was in the buffers of its channel.          *)
LEMMA LoseStep ==
    ASSUME RetentionInv, LoseBuffers(req.channel), req' = req, day_of' = day_of
    PROVE  R!AbsNext
  <1>1. /\ TypeOK /\ req.channel \in Channels /\ BufferInv
        /\ buffered \in [Channels -> SUBSET Ids]
    BY RequestBytes DEF RetentionInv, BudgetInv, TypeOK
  <1>2. /\ \A k \in Channels : buffered'[k] = IF k = req.channel THEN {} ELSE buffered[k]
        /\ held' = [d \in Days |-> held[d] \ buffered[req.channel]]
    BY <1>1 DEF LoseBuffers
  <1>3. buffered[req.channel] \subseteq volatile
    BY <1>1 DEF volatile
  <1>4. \A i \in volatile' : i \in volatile /\ i \notin buffered[req.channel]
    <2>1. ASSUME NEW i \in volatile' PROVE \E k \in Channels : i \in buffered'[k]
      BY DEF volatile
    <2> QED
      BY <1>1, <1>2, <2>1 DEF volatile, BufferInv
  <1>5. R!Settle(buffered[req.channel])
    BY <1>2, <1>3, <1>4 DEF R!Settle
  <1> QED
    BY <1>3, <1>5 DEF R!AbsNext

(* Every step of Storage is a step of Retention or leaves it alone.        *)
LEMMA RetentionStep ==
    ASSUME RetentionInv, [Next]_vars
    PROVE  [R!AbsNext]_(R!absVars)
  <1> USE DEF disk, R!absVars
  <1>0. TypeOK
    BY DEF RetentionInv, BudgetInv
  <1>1. CASE ConstructorEvict
    BY <1>1, ExpireStep DEF ConstructorEvict, R!AbsNext
  <1>2. CASE Evict
    BY <1>2, ExpireStep DEF Evict, R!AbsNext
  <1>3. ASSUME NEW d \in Days, NEW c \in Channels, NEW s \in Sizes, Write(d, c, s)
        PROVE  R!AbsNext
    <2>1. volatile' = volatile
      BY <1>3 DEF Write, folder_, volatile
    <2>2. R!Submit(d)
      BY <1>3, <2>1 DEF Write, R!Submit
    <2> QED
      BY <2>2 DEF R!AbsNext
  <1>4. CASE WriteRecord
    BY <1>0, <1>4, RequestBytes, StoreStep DEF WriteRecord
  <1>5. CASE WriteFails
    <2>1. req' = req /\ day_of' = day_of /\ pc = "channel"
      BY <1>5 DEF WriteFails
    <2>2. ASSUME NEW n \in FailedBytes(req.channel, req.size),
                 AppendBytes(req.channel, n,
                     IF n = RecordBytes(req.channel, req.size) THEN {req.id} ELSE {})
          PROVE  R!AbsNext
      <3>1. n \in Nat
        BY <1>0, RequestBytes
      <3>2. (IF n = RecordBytes(req.channel, req.size) THEN {req.id} ELSE {})
                \in SUBSET {req.id}
        OBVIOUS
      <3> QED
        BY <2>1, <2>2, <3>1, <3>2, StoreStep
    <2> QED
      BY <1>5, <2>1, <2>2, LoseStep DEF WriteFails
  <1>6. CASE NewDay \/ NewDayFails
    BY <1>6, CloseStep DEF NewDay, NewDayFails
  <1>7. CASE Crash
    <2>1. req' = req /\ day_of' = day_of /\ volatile' = {}
      BY <1>7, NothingAtRisk DEF Crash
    <2>2. CASE held' = [d \in Days |-> held[d] \ volatile]
      <3>1. R!Settle(volatile)
        BY <2>1, <2>2 DEF R!Settle
      <3> QED
        BY <3>1 DEF R!AbsNext
    <2>3. ASSUME NEW d \in Days, NEW kept \in SUBSET held[d], Oldest(d),
                 held' = [e \in Days |-> (IF e = d THEN kept ELSE held[e]) \ volatile]
          PROVE  R!AbsNext
      <3>1. \A e \in Days : held[e] # {} => d <= e
        BY <2>3 DEF RetentionInv, DirInv, Oldest
      <3>2. R!Break(d, kept)
        BY <2>1, <2>3, <3>1 DEF R!Break, R!OldestWithRecords
      <3> QED
        BY <3>2 DEF R!AbsNext
    <2> QED
      BY <1>7, <2>2, <2>3 DEF Crash
  <1>8. CASE \/ Start \/ ConstructorDone \/ NothingToEvict \/ HasSpace \/ KeepDay
             \/ OpenChannel \/ OpenChannelFails \/ RefuseRecord \/ UNCHANGED vars
    <2>1. held' = held /\ buffered' = buffered /\ req' = req /\ day_of' = day_of
      BY <1>8 DEF Start, ConstructorDone, NothingToEvict, HasSpace, KeepDay,
         OpenChannel, OpenChannelFails, RefuseRecord, vars, folder_, buffers
    <2>2. volatile' = volatile
      BY <2>1 DEF volatile
    <2> QED
      BY <2>1, <2>2
  <1> QED
    BY <1>1, <1>2, <1>3, <1>4, <1>5, <1>6, <1>7, <1>8 DEF Next, WriteStep

LEMMA InitRetention == ASSUME Init PROVE RetentionInv
  <1>1. BufferInv
    BY DEF Init, BufferInv, NothingBuffered
  <1>2. DirInv
    BY DEF Init, DirInv
  <1> QED
    BY <1>1, <1>2, InitBudget, InitDay DEF RetentionInv

LEMMA RetentionInvStep == ASSUME RetentionInv, [Next]_vars PROVE RetentionInv'
  <1>1. TypeOK
    BY DEF RetentionInv, BudgetInv
  <1> QED
    BY <1>1, BudgetStep, DayStep, DirStep, BufferStep DEF RetentionInv

-----------------------------------------------------------------------------
(* The overshoot *)

(* Nothing is left of a removed directory, nothing waits in the buffers of *)
(* a Folder that has no directory, and no Folder exists before the         *)
(* constructor is done.                                                    *)
DiskInv == /\ \A d \in Days \ dirs : bytes[d] = 0
           /\ orphaned \/ yyyymmdd_ = NoDay => pending = NothingPending
           /\ pc \in {"down", "constructor"} =>
                  yyyymmdd_ = NoDay /\ ~orphaned /\ opened = 0 /\ uncharged = 0

(* What is on disk, what is buffered and what is still available add up to *)
(* the budget, except for the headers and the failed records that were not *)
(* charged.  While the constructor evicts, what it measured is still to be *)
(* charged.                                                                *)
AccountInv ==
    /\ pc = "constructor" => usedBytes + available_bytes_ <= max_size + used
    /\ pc \notin {"down", "constructor"} =>
           usedBytes + pendingBytes + available_bytes_
               <= max_size + 2 * Header * opened + uncharged

SpaceInv == RetentionInv /\ DiskInv /\ AccountInv

LEMMA InitSpace == ASSUME Init PROVE DiskInv /\ AccountInv
  BY DEF Init, DiskInv, AccountInv

LEMMA Cancel ==
    ASSUME NEW s \in Nat, NEW t \in Nat, NEW x \in Nat, NEW y \in Nat, NEW n \in Nat,
           t + x = s + y, y = x + n
    PROVE  t = s + n
  OBVIOUS

(* Bytes written into a directory that exists are bytes in use.            *)
LEMMA UsedGrows ==
    ASSUME TypeOK, IsFiniteSet(dirs), NEW d \in dirs, NEW n \in Nat,
           \A e \in dirs : bytes'[e] = IF e = d THEN bytes[e] + n ELSE bytes[e]
    PROVE  SumFunctionOnSet(bytes', dirs) = SumFunctionOnSet(bytes, dirs) + n
  <1>1. \A e \in dirs : bytes[e] \in Nat /\ bytes'[e] \in Nat
    BY DEF TypeOK
  <1>2. \A e \in dirs \ {d} : bytes[e] = bytes'[e]
    BY DEF TypeOK
  <1>3. bytes'[d] = bytes[d] + n
    BY DEF TypeOK
  <1>4. /\ SumFunctionOnSet(bytes, dirs) \in Nat /\ SumFunctionOnSet(bytes', dirs) \in Nat
        /\ SumFunctionOnSet(bytes', dirs) + bytes[d] = SumFunctionOnSet(bytes, dirs) + bytes'[d]
    BY <1>1, <1>2, SumChange
  <1> QED
    BY <1>1, <1>3, <1>4, Cancel

(* What deleteFolder() frees is what usedBytes() loses.                    *)
LEMMA UsedShrinks ==
    ASSUME BudgetInv, BudgetInv', NEW d \in dirs, deleteFolder(d)
    PROVE  /\ usedBytes = usedBytes' + freed_bytes(d)
           /\ usedBytes' \in Nat /\ freed_bytes(d) \in Nat
  <1>1. d \in Days /\ dirs \subseteq Days /\ bytes \in [Days -> Nat]
    BY DEF BudgetInv, TypeOK
  <1>2. \A e \in dirs \ {d} : bytes[e] = bytes'[e]
    BY <1>1 DEF deleteFolder
  <1>3. IsFiniteSet(dirs) /\ IsFiniteSet(dirs \ {d})
    BY FS_RemoveElement DEF BudgetInv
  <1>4. SumFunctionOnSet(bytes, dirs \ {d}) = SumFunctionOnSet(bytes', dirs \ {d})
    BY <1>2, <1>3, SumSame
  <1>5. SumFunctionOnSet(bytes, dirs) = bytes[d] + SumFunctionOnSet(bytes, dirs \ {d})
    BY <1>1, <1>3, SumRemove
  <1>6. SumFunctionOnSet(bytes', dirs \ {d}) \in Nat
    BY <1>1, <1>3, <1>4, SumType
  <1>7. usedBytes' = ForeignBytes + SumFunctionOnSet(bytes', dirs \ {d})
    BY DEF usedBytes, deleteFolder
  <1> QED
    BY <1>1, <1>4, <1>5, <1>6, <1>7, StorageAssumption DEF usedBytes, freed_bytes

(* What the buffers hold is a number, and nothing when nothing is pending. *)
LEMMA PendingIsNat == ASSUME TypeOK PROVE pendingBytes \in Nat
  BY SumType, StorageAssumption DEF TypeOK, pendingBytes

LEMMA NonePending ==
    ASSUME NEW p, p = NothingPending
    PROVE  SumFunctionOnSet(p, Channels) = 0
  BY SumZero, StorageAssumption DEF NothingPending

(* Closing the active Folder turns what was buffered into bytes in use, as *)
(* far as it is not lost.                                                  *)
LEMMA UsedClosed ==
    ASSUME SpaceInv, CloseFolder
    PROVE  /\ SumFunctionOnSet(bytes', dirs) \in Nat
           /\ SumFunctionOnSet(bytes', dirs) <= SumFunctionOnSet(bytes, dirs) + pendingBytes
           /\ \A d \in Days \ dirs : bytes'[d] = 0
  <1>1. TypeOK /\ IsFiniteSet(dirs) /\ DirInv /\ DiskInv
    BY DEF SpaceInv, RetentionInv, BudgetInv
  <1>2. SumFunctionOnSet(bytes, dirs) \in Nat /\ pendingBytes \in Nat
    BY <1>1, SumType, PendingIsNat DEF TypeOK
  <1>3. CASE yyyymmdd_ # NoDay /\ ~orphaned
    <2>1. yyyymmdd_ \in dirs
      BY <1>1, <1>3 DEF DirInv
    <2>2. PICK lost \in SUBSET Channels :
              /\ SumFunctionOnSet(pending, Channels \ lost) \in Nat
              /\ \A d \in Days : bytes'[d] =
                     IF d = yyyymmdd_
                     THEN bytes[d] + SumFunctionOnSet(pending, Channels \ lost)
                     ELSE bytes[d]
      BY <1>1, <1>3, CloseValues
    <2> DEFINE flushed == SumFunctionOnSet(pending, Channels \ lost)
    <2>3. /\ flushed \in Nat
          /\ \A d \in Days : bytes'[d] = IF d = yyyymmdd_ THEN bytes[d] + flushed
                                         ELSE bytes[d]
      BY <2>2
    <2>4. flushed <= pendingBytes
      <3>1. \A c \in Channels : pending[c] \in Nat
        BY <1>1 DEF TypeOK
      <3>2. Channels \ lost \in SUBSET Channels
        OBVIOUS
      <3> QED
        BY <3>1, <3>2, SumPart, StorageAssumption DEF pendingBytes
    <2> HIDE DEF flushed
    <2>5. SumFunctionOnSet(bytes', dirs) = SumFunctionOnSet(bytes, dirs) + flushed
      BY <1>1, <2>1, <2>3, UsedGrows DEF TypeOK
    <2>6. \A d \in Days \ dirs : bytes'[d] = 0
      BY <1>1, <2>1, <2>3 DEF DiskInv
    <2> QED
      BY <1>2, <2>3, <2>4, <2>5, <2>6
  <1>4. CASE ~(yyyymmdd_ # NoDay /\ ~orphaned)
    <2>1. bytes' = bytes
      BY <1>1, <1>4, CloseValues
    <2> QED
      BY <1>1, <1>2, <2>1 DEF DiskInv
  <1> QED
    BY <1>3, <1>4

(* Bytes appended to a channel are in its buffers or in the files.         *)
LEMMA UsedAppended ==
    ASSUME SpaceInv, pc = "channel", NEW n \in Nat, NEW new \in SUBSET {req.id},
           AppendBytes(req.channel, n, new)
    PROVE  /\ SumFunctionOnSet(bytes', dirs) \in Nat
           /\ pendingBytes' \in Nat
           /\ SumFunctionOnSet(bytes', dirs) + pendingBytes'
                  <= SumFunctionOnSet(bytes, dirs) + pendingBytes + n
           /\ \A d \in Days \ dirs : bytes'[d] = 0
           /\ orphaned => pending' = pending
  <1>1. /\ TypeOK /\ IsFiniteSet(dirs) /\ DirInv /\ DiskInv /\ yyyymmdd_ \in Days
        /\ yyyymmdd_ # NoDay /\ req.channel \in Channels /\ new \in SUBSET Ids
    BY RequestBytes, StorageAssumption DEF SpaceInv, RetentionInv, BudgetInv, NoDay
  <1>2. SumFunctionOnSet(bytes, dirs) \in Nat /\ pendingBytes \in Nat
    BY <1>1, SumType, PendingIsNat DEF TypeOK
  <1>3. CASE orphaned
    <2>1. bytes' = bytes /\ pending' = pending
      BY <1>1, <1>3, AppendValues
    <2>2. pendingBytes' = pendingBytes
      BY <2>1 DEF pendingBytes
    <2> QED
      BY <1>1, <1>2, <2>1, <2>2 DEF DiskInv
  <1>4. CASE ~orphaned
    <2>1. PICK rest \in Nat :
              /\ rest <= pending[req.channel] + n
              /\ \A k \in Channels : pending'[k] = IF k = req.channel THEN rest
                                                   ELSE pending[k]
              /\ \A d \in Days : bytes'[d] = IF d = yyyymmdd_
                                             THEN bytes[d] + (pending[req.channel] + n - rest)
                                             ELSE bytes[d]
      BY <1>1, <1>4, AppendValues
    <2>2. yyyymmdd_ \in dirs
      BY <1>1, <1>4 DEF DirInv
    <2>3. pending[req.channel] \in Nat /\ \A k \in Channels : pending[k] \in Nat
      BY <1>1 DEF TypeOK
    <2> DEFINE pushed == pending[req.channel] + n - rest
    <2>4. /\ pushed \in Nat
          /\ \A d \in Days : bytes'[d] = IF d = yyyymmdd_ THEN bytes[d] + pushed
                                         ELSE bytes[d]
      BY <2>1, <2>3
    <2>5. pushed + rest = pending[req.channel] + n
      BY <2>1, <2>3
    <2> HIDE DEF pushed
    <2>6. SumFunctionOnSet(bytes', dirs) = SumFunctionOnSet(bytes, dirs) + pushed
      BY <1>1, <2>2, <2>4, UsedGrows DEF TypeOK
    <2>7. /\ SumFunctionOnSet(pending', Channels) \in Nat
          /\ SumFunctionOnSet(pending', Channels) + pending[req.channel]
                 = SumFunctionOnSet(pending, Channels) + pending'[req.channel]
      <3>1. \A k \in Channels : pending[k] \in Nat /\ pending'[k] \in Nat
        BY <2>1, <2>3
      <3>2. \A k \in Channels \ {req.channel} : pending[k] = pending'[k]
        BY <2>1
      <3>3. IsFiniteSet(Channels) /\ req.channel \in Channels
        BY <1>1, StorageAssumption
      <3> QED
        BY <3>1, <3>2, <3>3, SumChange
    <2>8. pending'[req.channel] = rest
      BY <1>1, <2>1
    <2>9. pendingBytes' \in Nat /\ pendingBytes' + pending[req.channel] = pendingBytes + rest
      BY <2>7, <2>8 DEF pendingBytes
    <2>10. \A d \in Days \ dirs : bytes'[d] = 0
      BY <1>1, <2>2, <2>4 DEF DiskInv
    <2>11. SumFunctionOnSet(bytes', dirs) + pendingBytes'
               = SumFunctionOnSet(bytes, dirs) + pendingBytes + n
      BY <1>2, <2>1, <2>3, <2>4, <2>5, <2>6, <2>9
    <2>12. SumFunctionOnSet(bytes', dirs) \in Nat
      BY <1>2, <2>4, <2>6
    <2> QED
      BY <1>2, <1>4, <2>9, <2>10, <2>11, <2>12
  <1> QED
    BY <1>3, <1>4

(* A channel that loses its buffers frees what was pending.                *)
LEMMA UsedLost ==
    ASSUME SpaceInv, LoseBuffers(req.channel)
    PROVE  /\ bytes' = bytes /\ pendingBytes' \in Nat /\ pendingBytes' <= pendingBytes
           /\ orphaned \/ yyyymmdd_ = NoDay => pending' = NothingPending
  <1>1. TypeOK /\ req.channel \in Channels /\ pending \in [Channels -> Nat] /\ DiskInv
    BY RequestBytes DEF SpaceInv, RetentionInv, BudgetInv, TypeOK
  <1>2. \A k \in Channels : pending'[k] = IF k = req.channel THEN 0 ELSE pending[k]
    BY <1>1 DEF LoseBuffers
  <1>3. /\ SumFunctionOnSet(pending', Channels) \in Nat
        /\ SumFunctionOnSet(pending, Channels) \in Nat
        /\ SumFunctionOnSet(pending', Channels) + pending[req.channel]
               = SumFunctionOnSet(pending, Channels) + pending'[req.channel]
    <2>1. \A k \in Channels : pending[k] \in Nat /\ pending'[k] \in Nat
      BY <1>1, <1>2
    <2>2. \A k \in Channels \ {req.channel} : pending[k] = pending'[k]
      BY <1>2
    <2> QED
      BY <1>1, <2>1, <2>2, SumChange, StorageAssumption
  <1>4. pending[req.channel] \in Nat /\ pending'[req.channel] = 0
    BY <1>1, <1>2
  <1>5. pendingBytes' \in Nat /\ pendingBytes' <= pendingBytes
    BY <1>3, <1>4 DEF pendingBytes
  <1>6. ASSUME orphaned \/ yyyymmdd_ = NoDay PROVE pending' = NothingPending
    <2>1. pending = NothingPending
      BY <1>1, <1>6 DEF DiskInv
    <2>2. pending' = [pending EXCEPT ![req.channel] = 0]
      BY DEF LoseBuffers
    <2> QED
      BY <2>1, <2>2 DEF NothingPending
  <1> QED
    BY <1>5, <1>6 DEF LoseBuffers

LEMMA DiskStep == ASSUME SpaceInv, [Next]_vars PROVE DiskInv'
  <1> USE DEF disk, folder_, buffers, SpaceInv, RetentionInv, BudgetInv, DiskInv
  <1>0. TypeOK /\ NoDay \notin Days
    BY StorageAssumption DEF NoDay
  <1>a. ASSUME NEW d \in Days, deleteFolder(d), yyyymmdd_' = yyyymmdd_, pc' = pc,
               opened' = opened, uncharged' = uncharged
        PROVE  DiskInv'
    <2>1. \A e \in Days \ dirs' : bytes'[e] = 0
      BY <1>0, <1>a DEF deleteFolder, TypeOK
    <2>2. orphaned' \/ yyyymmdd_' = NoDay => pending' = NothingPending
      BY <1>0, <1>a, Zenon DEF deleteFolder
    <2>3. pc' \in {"down", "constructor"} =>
              yyyymmdd_' = NoDay /\ ~orphaned' /\ opened' = 0 /\ uncharged' = 0
      BY <1>0, <1>a, Zenon DEF deleteFolder
    <2> QED
      BY <2>1, <2>2, <2>3, Zenon DEF NoDay, NothingPending
  <1>1. CASE Start
    BY <1>1 DEF Start
  <1>2. CASE ConstructorEvict
    BY <1>a, <1>2 DEF ConstructorEvict
  <1>3. CASE ConstructorDone
    BY <1>3 DEF ConstructorDone
  <1>4. ASSUME NEW d \in Days, NEW c \in Channels, NEW s \in Sizes, Write(d, c, s)
        PROVE  DiskInv'
    BY <1>4 DEF Write
  <1>5. CASE Evict
    BY <1>a, <1>5 DEF Evict
  <1>6. CASE NothingToEvict
    BY <1>6 DEF NothingToEvict, Returns
  <1>7. CASE HasSpace
    BY <1>7 DEF HasSpace
  <1>8. CASE KeepDay
    BY <1>8 DEF KeepDay
  <1>9. CASE NewDay
    <2>1. \A d \in Days \ dirs : bytes'[d] = 0
      BY <1>9, UsedClosed DEF NewDay
    <2>2. dirs \subseteq dirs' /\ pending' = NothingPending /\ pc' = "channel"
      BY <1>9 DEF NewDay, CloseFolder
    <2> QED
      BY <2>1, <2>2
  <1>10. CASE NewDayFails
    <2>1. \A d \in Days \ dirs : bytes'[d] = 0
      BY <1>10, UsedClosed DEF NewDayFails
    <2>2. dirs' = dirs /\ pending' = NothingPending /\ pc' = "ready"
      BY <1>10 DEF NewDayFails, CloseFolder, Returns
    <2> QED
      BY <2>1, <2>2
  <1>b. ASSUME pc = "channel", ~orphaned PROVE yyyymmdd_ \in dirs /\ yyyymmdd_ # NoDay
    BY <1>0, <1>b DEF DirInv
  <1>11. CASE OpenChannel
    <2>1. \A d \in Days \ dirs : bytes'[d] = bytes[d]
      BY <1>0, <1>b, <1>11 DEF OpenChannel, TypeOK
    <2> QED
      BY <1>11, <2>1 DEF OpenChannel
  <1>12. CASE OpenChannelFails
    <2>1. \A d \in Days \ dirs : bytes'[d] = bytes[d]
      BY <1>0, <1>b, <1>12 DEF OpenChannelFails, TypeOK
    <2> QED
      BY <1>12, <2>1 DEF OpenChannelFails, Returns
  <1>13. CASE RefuseRecord
    BY <1>13 DEF RefuseRecord, Returns
  <1>c. ASSUME pc = "channel", NEW n \in Nat, NEW new \in SUBSET {req.id},
               AppendBytes(req.channel, n, new), dirs' = dirs, orphaned' = orphaned,
               yyyymmdd_' = yyyymmdd_, pc' = "ready"
        PROVE  DiskInv'
    <2>1. (\A d \in Days \ dirs : bytes'[d] = 0) /\ (orphaned => pending' = pending)
      BY <1>c, UsedAppended
    <2>2. yyyymmdd_ # NoDay
      BY <1>0, <1>c
    <2>3. orphaned' \/ yyyymmdd_' = NoDay => pending' = NothingPending
      BY <1>c, <2>1, <2>2 DEF NoDay
    <2>4. NothingPending' = NothingPending
      BY DEF NothingPending
    <2> QED
      BY <1>c, <2>1, <2>3, <2>4
  <1>14. CASE WriteRecord
    BY <1>0, <1>c, <1>14, RequestBytes DEF WriteRecord, Returns
  <1>15. CASE WriteFails
    <2>1. /\ dirs' = dirs /\ orphaned' = orphaned /\ yyyymmdd_' = yyyymmdd_
          /\ pc = "channel" /\ pc' = "ready"
      BY <1>15 DEF WriteFails, Returns
    <2>2. CASE LoseBuffers(req.channel)
      <3>1. /\ bytes' = bytes
            /\ orphaned \/ yyyymmdd_ = NoDay => pending' = NothingPending
        BY <2>2, UsedLost
      <3>2. NothingPending' = NothingPending
        BY DEF NothingPending
      <3> QED
        BY <2>1, <3>1, <3>2 DEF NoDay
    <2>3. ASSUME NEW n \in FailedBytes(req.channel, req.size),
                 AppendBytes(req.channel, n,
                     IF n = RecordBytes(req.channel, req.size) THEN {req.id} ELSE {})
          PROVE  DiskInv'
      <3>1. n \in Nat
        BY <1>0, RequestBytes
      <3>2. (IF n = RecordBytes(req.channel, req.size) THEN {req.id} ELSE {})
                \in SUBSET {req.id}
        OBVIOUS
      <3> QED
        BY <1>c, <2>1, <2>3, <3>1, <3>2
    <2> QED
      BY <1>15, <2>2, <2>3 DEF WriteFails
  <1>16. CASE Crash
    <2>1. /\ dirs' = dirs /\ ~orphaned' /\ yyyymmdd_' = NoDay
          /\ pending' = NothingPending /\ opened' = 0 /\ uncharged' = 0
      BY <1>16 DEF Crash
    <2>2. \A d \in Days \ dirs : bytes'[d] = 0
      <3>1. bytes \in [Days -> Nat]
        BY <1>0 DEF TypeOK
      <3>2. ASSUME NEW d \in Days, NEW left \in Leftovers, Oldest(d),
                   bytes' = [bytes EXCEPT ![d] = left]
            PROVE  \A e \in Days \ dirs : bytes'[e] = 0
        BY <3>1, <3>2 DEF Oldest
      <3> QED
        BY <1>16, <3>2 DEF Crash
    <2>3. NothingPending' = NothingPending
      BY DEF NothingPending
    <2> QED
      BY <2>1, <2>2, <2>3
  <1>17. CASE UNCHANGED vars
    BY <1>17 DEF vars
  <1> QED
    BY <1>1, <1>2, <1>3, <1>4, <1>5, <1>6, <1>7, <1>8, <1>9, <1>10, <1>11,
       <1>12, <1>13, <1>14, <1>15, <1>16, <1>17 DEF Next, WriteStep

(* Bytes move from the budget to the buffers or the files: none is new, n  *)
(* of them are charged, or n of them are not.                              *)
LEMMA NoneNew ==
    ASSUME NEW t \in Int, NEW a \in Int, NEW s \in Int, NEW b \in Int,
           NEW m \in Int, t + a <= m, s <= t, b = a
    PROVE  s + b <= m
  OBVIOUS

LEMMA NewCharged ==
    ASSUME NEW t \in Int, NEW a \in Int, NEW s \in Int, NEW b \in Int, NEW n \in Nat,
           NEW m \in Int, t + a <= m, s <= t + n, b = a - n
    PROVE  s + b <= m
  OBVIOUS

LEMMA NewUncharged ==
    ASSUME NEW t \in Int, NEW a \in Int, NEW s \in Int, NEW b \in Int, NEW n \in Nat,
           NEW m \in Int, t + a <= m, s <= t + n, b = a
    PROVE  s + b <= m + n
  OBVIOUS

(* u bytes in use and p pending become v and q.                            *)
LEMMA Emptied ==
    ASSUME NEW u \in Int, NEW p \in Int, NEW v \in Int, NEW q \in Int, v <= u + p, q <= 0
    PROVE  v + q <= u + p
  OBVIOUS

LEMMA Drained ==
    ASSUME NEW u \in Int, NEW p \in Int, NEW v \in Int, NEW q \in Int, v = u, q <= p
    PROVE  v + q <= u + p
  OBVIOUS

LEMMA Less ==
    ASSUME NEW t \in Int, NEW s \in Int, NEW n \in Nat, NEW m \in Int, t <= s + n, n <= m
    PROVE  t <= s + m
  OBVIOUS

LEMMA AtMost ==
    ASSUME NEW t \in Int, NEW s \in Int, NEW n \in Nat, t <= s
    PROVE  t <= s + n
  OBVIOUS

LEMMA AccountStep == ASSUME SpaceInv, [Next]_vars PROVE AccountInv'
  <1> USE DEF disk, folder_, buffers
  <1>0. /\ BudgetInv /\ BudgetInv' /\ DirInv /\ DiskInv /\ AccountInv
        /\ TypeOK /\ TypeOK' /\ IsFiniteSet(dirs) /\ IsFiniteSet(dirs')
    BY BudgetStep DEF SpaceInv, RetentionInv, BudgetInv
  <1>n. /\ usedBytes \in Nat /\ usedBytes' \in Nat
        /\ SumFunctionOnSet(bytes, dirs) \in Nat
        /\ available_bytes_ \in Int /\ available_bytes_' \in Int
        /\ pendingBytes \in Nat /\ pendingBytes' \in Nat /\ used \in Nat /\ used' \in Nat
        /\ opened \in Nat /\ opened' \in Nat /\ 2 * Header = 98
        /\ uncharged \in Nat /\ uncharged' \in Nat
        /\ max_size \in Nat /\ ForeignBytes \in Nat /\ Header = 49
    <2>1. usedBytes \in Nat
      BY <1>0, UsedIsNat
    <2>2. usedBytes' \in Nat
      <3>1. SumFunctionOnSet(bytes', dirs') \in Nat
        BY <1>0, SumType DEF TypeOK
      <3> QED
        BY <3>1, StorageAssumption DEF usedBytes
    <2>3. SumFunctionOnSet(bytes, dirs) \in Nat
      BY <1>0, SumType DEF TypeOK
    <2>4. pendingBytes \in Nat
      BY <1>0, PendingIsNat
    <2>5. pendingBytes' \in Nat
      BY <1>0, SumType, StorageAssumption DEF TypeOK, pendingBytes
    <2> QED
      BY <1>0, <2>1, <2>2, <2>3, <2>4, <2>5, StorageAssumption DEF TypeOK, Header
  <1>u. ASSUME dirs' = dirs, bytes' = bytes PROVE usedBytes' = usedBytes
    BY <1>u DEF usedBytes
  <1>p. ASSUME pending' = pending PROVE pendingBytes' = pendingBytes
    BY <1>p DEF pendingBytes
  <1>z. ASSUME pending' = NothingPending PROVE pendingBytes' <= 0
    BY <1>z, NonePending DEF pendingBytes
  <1>g. ASSUME dirs' = dirs, NEW n \in Nat, pc = "channel", ~orphaned,
               \A e \in Days : bytes'[e] = IF e = yyyymmdd_ THEN bytes[e] + n
                                          ELSE bytes[e]
        PROVE  usedBytes' = usedBytes + n
    <2>1. yyyymmdd_ \in dirs
      BY <1>0, <1>g, StorageAssumption DEF DirInv, BudgetInv, NoDay
    <2>2. SumFunctionOnSet(bytes', dirs) = SumFunctionOnSet(bytes, dirs) + n
      BY <1>0, <1>g, <2>1, UsedGrows DEF TypeOK
    <2> QED
      BY <1>g, <1>n, <2>2 DEF usedBytes
  <1> DEFINE t == usedBytes + pendingBytes
             s == usedBytes' + pendingBytes'
             b == available_bytes_'
             m == max_size + 98 * opened + uncharged
  <1>i. /\ usedBytes \in Int /\ usedBytes' \in Int
        /\ pendingBytes \in Int /\ pendingBytes' \in Int
        /\ available_bytes_ \in Int /\ available_bytes_' \in Int
        /\ max_size + 98 * opened + uncharged \in Int
        /\ usedBytes' + pendingBytes' \in Int /\ usedBytes + pendingBytes \in Int
    BY <1>n
  <1>w. ASSUME pc \notin {"down", "constructor"}
        PROVE  usedBytes + pendingBytes + available_bytes_
                   <= max_size + 98 * opened + uncharged
    BY <1>0, <1>n, <1>w DEF AccountInv
  <1>v. ASSUME pc' # "constructor",
               usedBytes' + pendingBytes' + available_bytes_'
                   <= max_size + 98 * opened' + uncharged'
        PROVE  AccountInv'
    BY <1>n, <1>v DEF AccountInv
  <1>1. CASE Start
    BY <1>n, <1>u, <1>1 DEF Start, AccountInv
  <1>2. CASE ConstructorEvict
    <2>1. PICK d \in Days : /\ Oldest(d) /\ deleteFolder(d)
                            /\ available_bytes_' = available_bytes_ + freed_bytes(d)
      BY <1>2 DEF ConstructorEvict
    <2>2. usedBytes = usedBytes' + freed_bytes(d) /\ freed_bytes(d) \in Nat
      BY <1>0, <2>1, UsedShrinks DEF Oldest
    <2>3. pc = "constructor" /\ pc' = "constructor" /\ used' = used
      BY <1>2 DEF ConstructorEvict
    <2> QED
      BY <1>0, <1>n, <2>1, <2>2, <2>3 DEF AccountInv
  <1>3. CASE ConstructorDone
    <2>1. /\ pending = NothingPending /\ pending' = pending
          /\ opened' = 0 /\ uncharged' = 0
      BY <1>0, <1>3 DEF ConstructorDone, DiskInv
    <2>2. pendingBytes' <= 0
      BY <1>z, <2>1
    <2> QED
      BY <1>0, <1>n, <1>u, <1>p, <1>3, <2>1, <2>2 DEF ConstructorDone, AccountInv
  <1>4. ASSUME NEW d \in Days, NEW c \in Channels, NEW size \in Sizes, Write(d, c, size)
        PROVE  AccountInv'
    BY <1>0, <1>n, <1>u, <1>p, <1>4 DEF Write, AccountInv
  <1>5. CASE Evict
    <2>1. PICK d \in Days : /\ Oldest(d) /\ deleteFolder(d)
                            /\ available_bytes_' = available_bytes_ + freed_bytes(d)
      BY <1>5 DEF Evict
    <2>2. usedBytes = usedBytes' + freed_bytes(d) /\ freed_bytes(d) \in Nat
      BY <1>0, <2>1, UsedShrinks DEF Oldest
    <2>3. /\ pc = "space" /\ pc' = "space" /\ opened' = opened /\ uncharged' = uncharged
          /\ pending' = pending \/ pending' = NothingPending
      BY <1>5, <2>1 DEF Evict, deleteFolder
    <2>4. pendingBytes' <= pendingBytes
      BY <1>n, <1>p, <1>z, <2>3
    <2> QED
      BY <1>0, <1>n, <2>1, <2>2, <2>3, <2>4 DEF AccountInv
  <1>6. CASE NothingToEvict
    BY <1>0, <1>n, <1>u, <1>p, <1>6 DEF NothingToEvict, Returns, AccountInv
  <1>7. CASE HasSpace
    BY <1>0, <1>n, <1>u, <1>p, <1>7 DEF HasSpace, AccountInv
  <1>8. CASE KeepDay
    BY <1>0, <1>n, <1>u, <1>p, <1>8 DEF KeepDay, AccountInv
  <1>9. CASE NewDay
    <2>1. /\ SumFunctionOnSet(bytes', dirs) \in Nat
          /\ SumFunctionOnSet(bytes', dirs) <= SumFunctionOnSet(bytes, dirs) + pendingBytes
          /\ \A d \in Days \ dirs : bytes'[d] = 0
      BY <1>9, UsedClosed DEF NewDay
    <2>2. /\ dirs' = dirs \cup {req.day} /\ req.day \in Days /\ pending' = NothingPending
          /\ pc = "day" /\ pc' = "channel"
          /\ available_bytes_' = available_bytes_ /\ opened' = opened
          /\ uncharged' = uncharged
      BY <1>0, <1>9 DEF NewDay, CloseFolder, TypeOK
    <2>3. SumFunctionOnSet(bytes', dirs') = SumFunctionOnSet(bytes', dirs)
      <3>1. CASE req.day \in dirs
        <4>1. dirs' = dirs
          BY <2>2, <3>1
        <4> QED
          BY <4>1
      <3>2. CASE req.day \notin dirs
        <4>1. bytes'[req.day] = 0
          BY <2>1, <2>2, <3>2
        <4>2. \A e \in dirs \cup {req.day} : bytes'[e] \in Nat
          BY <1>0, <2>2 DEF TypeOK
        <4>3. SumFunctionOnSet(bytes', dirs \cup {req.day})
                  = bytes'[req.day] + SumFunctionOnSet(bytes', dirs)
          BY <1>0, <3>2, <4>2, SumAdd
        <4> QED
          BY <1>n, <2>1, <2>2, <4>1, <4>3
      <3> QED
        BY <3>1, <3>2
    <2>4. usedBytes' <= usedBytes + pendingBytes
      BY <1>n, <2>1, <2>3 DEF usedBytes
    <2>5. pendingBytes' <= 0
      BY <1>z, <2>2
    <2>6. usedBytes' + pendingBytes' <= usedBytes + pendingBytes
      BY <1>i, <2>4, <2>5, Emptied, Zenon
    <2>w. usedBytes + pendingBytes + available_bytes_
              <= max_size + 98 * opened + uncharged
      BY <1>w, <2>2
    <2>7. usedBytes' + pendingBytes' + available_bytes_'
              <= max_size + 98 * opened + uncharged
      <3>1. /\ t \in Int /\ s \in Int /\ b \in Int /\ m \in Int /\ available_bytes_ \in Int
            /\ t + available_bytes_ <= m /\ s <= t /\ b = available_bytes_
        BY <1>i, <2>2, <2>6, <2>w
      <3>2. s + b <= m
        <4> HIDE DEF t, s, b, m
        <4> QED
          BY <3>1, NoneNew
      <3> QED
        BY <3>2
    <2> QED
      BY <1>n, <1>v, <2>2, <2>7
  <1>10. CASE NewDayFails
    <2>1. /\ SumFunctionOnSet(bytes', dirs) \in Nat
          /\ SumFunctionOnSet(bytes', dirs) <= SumFunctionOnSet(bytes, dirs) + pendingBytes
      BY <1>10, UsedClosed DEF NewDayFails
    <2>2. /\ dirs' = dirs /\ pending' = NothingPending /\ pc = "day" /\ pc' = "ready"
          /\ available_bytes_' = available_bytes_ /\ opened' = opened
          /\ uncharged' = uncharged
      BY <1>10 DEF NewDayFails, CloseFolder, Returns
    <2>3. usedBytes' <= usedBytes + pendingBytes
      BY <1>n, <2>1, <2>2 DEF usedBytes
    <2>4. pendingBytes' <= 0
      BY <1>z, <2>2
    <2>6. usedBytes' + pendingBytes' <= usedBytes + pendingBytes
      BY <1>i, <2>3, <2>4, Emptied, Zenon
    <2>w. usedBytes + pendingBytes + available_bytes_
              <= max_size + 98 * opened + uncharged
      BY <1>w, <2>2
    <2>7. usedBytes' + pendingBytes' + available_bytes_'
              <= max_size + 98 * opened + uncharged
      <3>1. /\ t \in Int /\ s \in Int /\ b \in Int /\ m \in Int /\ available_bytes_ \in Int
            /\ t + available_bytes_ <= m /\ s <= t /\ b = available_bytes_
        BY <1>i, <2>2, <2>6, <2>w
      <3>2. s + b <= m
        <4> HIDE DEF t, s, b, m
        <4> QED
          BY <3>1, NoneNew
      <3> QED
        BY <3>2
    <2> QED
      BY <1>n, <1>v, <2>2, <2>7
  <1>11. CASE OpenChannel
    <2>1. HeaderBytes(req.channel) \in Nat /\ HeaderBytes(req.channel) <= 98
      BY DEF HeaderBytes, Header
    <2>2. /\ dirs' = dirs /\ pc = "channel" /\ ~orphaned
          /\ \A e \in Days : bytes'[e] = IF e = yyyymmdd_
                                         THEN bytes[e] + HeaderBytes(req.channel)
                                         ELSE bytes[e]
      BY <1>0, <1>11 DEF OpenChannel, TypeOK
    <2>3. usedBytes' = usedBytes + HeaderBytes(req.channel)
      BY <1>g, <2>1, <2>2
    <2> QED
      BY <1>0, <1>n, <1>p, <1>11, <2>1, <2>3 DEF OpenChannel, AccountInv
  <1>12. CASE OpenChannelFails
    <2>1. /\ dirs' = dirs /\ pc = "channel"
          /\ \/ bytes' = bytes
             \/ /\ ~orphaned
                /\ \A e \in Days : bytes'[e] = IF e = yyyymmdd_ THEN bytes[e] + 49
                                               ELSE bytes[e]
      BY <1>0, <1>n, <1>12 DEF OpenChannelFails, TypeOK
    <2>2. usedBytes' <= usedBytes + 49
      BY <1>g, <1>n, <1>u, <2>1
    <2> QED
      BY <1>0, <1>n, <1>p, <1>12, <2>2 DEF OpenChannelFails, Returns, AccountInv
  <1>13. CASE RefuseRecord
    BY <1>0, <1>n, <1>u, <1>p, <1>13 DEF RefuseRecord, Returns, AccountInv
  <1>r. ASSUME pc = "channel", NEW n \in Nat, NEW new \in SUBSET {req.id},
               AppendBytes(req.channel, n, new), dirs' = dirs
        PROVE  usedBytes' + pendingBytes' <= usedBytes + pendingBytes + n
    <2>1. /\ SumFunctionOnSet(bytes', dirs) \in Nat
          /\ SumFunctionOnSet(bytes', dirs) + pendingBytes'
                 <= SumFunctionOnSet(bytes, dirs) + pendingBytes + n
      BY <1>r, UsedAppended
    <2>2. /\ usedBytes = ForeignBytes + SumFunctionOnSet(bytes, dirs)
          /\ usedBytes' = ForeignBytes + SumFunctionOnSet(bytes', dirs)
      BY <1>r DEF usedBytes
    <2> QED
      BY <1>n, <2>1, <2>2
  <1>14. CASE WriteRecord
    <2> DEFINE written == RecordBytes(req.channel, req.size)
    <2>1. written \in Nat
      BY <1>0, RequestBytes
    <2>2. /\ dirs' = dirs /\ pc = "channel" /\ pc' = "ready" /\ opened' = opened
          /\ uncharged' = uncharged
          /\ available_bytes_' = available_bytes_ - written
      BY <1>14 DEF WriteRecord, Returns, Charged, Reported
    <2>3. usedBytes' + pendingBytes' <= usedBytes + pendingBytes + written
      BY <1>r, <1>14, <2>1, <2>2 DEF WriteRecord
    <2> HIDE DEF written
    <2>w. usedBytes + pendingBytes + available_bytes_
              <= max_size + 98 * opened + uncharged
      BY <1>w, <2>2
    <2>4. usedBytes' + pendingBytes' + available_bytes_'
              <= max_size + 98 * opened + uncharged
      <3>1. /\ t \in Int /\ s \in Int /\ b \in Int /\ m \in Int /\ available_bytes_ \in Int
            /\ t + available_bytes_ <= m /\ s <= t + written /\ b = available_bytes_ - written
        BY <1>i, <2>1, <2>2, <2>3, <2>w
      <3>2. s + b <= m
        <4> HIDE DEF t, s, b, m
        <4> QED
          BY <2>1, <3>1, NewCharged
      <3> QED
        BY <3>2
    <2> QED
      BY <1>n, <1>v, <2>2, <2>4
  <1>15. CASE WriteFails
    <2> DEFINE written == RecordBytes(req.channel, req.size)
    <2>1. written \in Nat
      BY <1>0, RequestBytes
    <2>2. /\ dirs' = dirs /\ pc = "channel" /\ pc' = "ready" /\ opened' = opened
          /\ uncharged' = uncharged + written
          /\ available_bytes_' = available_bytes_
      BY <1>15 DEF WriteFails, Returns
    <2>3. usedBytes' + pendingBytes' <= usedBytes + pendingBytes + written
      <3>1. CASE LoseBuffers(req.channel)
        <4>1. bytes' = bytes /\ pendingBytes' <= pendingBytes
          BY <3>1, UsedLost
        <4>2. usedBytes' = usedBytes
          BY <1>u, <2>2, <4>1
        <4>3. usedBytes' + pendingBytes' <= usedBytes + pendingBytes
          BY <1>i, <4>1, <4>2, Drained, Zenon
        <4> HIDE DEF written
        <4> QED
          BY <1>i, <2>1, <4>3, AtMost
      <3>2. ASSUME NEW n \in FailedBytes(req.channel, req.size),
                   AppendBytes(req.channel, n,
                       IF n = RecordBytes(req.channel, req.size) THEN {req.id} ELSE {})
            PROVE  usedBytes' + pendingBytes' <= usedBytes + pendingBytes + written
        <4>1. n \in Nat /\ n <= written
          BY <1>0, RequestBytes
        <4>2. (IF n = RecordBytes(req.channel, req.size) THEN {req.id} ELSE {})
                  \in SUBSET {req.id}
          OBVIOUS
        <4>3. usedBytes' + pendingBytes' <= usedBytes + pendingBytes + n
          BY <1>r, <2>2, <3>2, <4>1, <4>2
        <4>4. n \in Int /\ written \in Int
          BY <2>1, <4>1
        <4> HIDE DEF written
        <4> QED
          BY <1>i, <4>1, <4>3, <4>4, Less
      <3> QED
        BY <1>15, <3>1, <3>2 DEF WriteFails
    <2> HIDE DEF written
    <2>w. usedBytes + pendingBytes + available_bytes_
              <= max_size + 98 * opened + uncharged
      BY <1>w, <2>2
    <2>4. usedBytes' + pendingBytes' + available_bytes_'
              <= max_size + 98 * opened + uncharged + written
      <3>1. /\ t \in Int /\ s \in Int /\ b \in Int /\ m \in Int /\ available_bytes_ \in Int
            /\ t + available_bytes_ <= m /\ s <= t + written /\ b = available_bytes_
        BY <1>i, <2>1, <2>2, <2>3, <2>w
      <3>2. s + b <= m + written
        <4> HIDE DEF t, s, b, m
        <4> QED
          BY <2>1, <3>1, NewUncharged
      <3> QED
        BY <3>2
    <2>5. max_size + 98 * opened + uncharged + written
              = max_size + 98 * opened' + uncharged'
      BY <1>n, <2>1, <2>2
    <2> QED
      BY <1>n, <1>v, <2>2, <2>4, <2>5
  <1>16. CASE Crash
    BY <1>16 DEF Crash, AccountInv
  <1>17. CASE UNCHANGED vars
    BY <1>0, <1>u, <1>p, <1>17 DEF vars, AccountInv
  <1> QED
    BY <1>1, <1>2, <1>3, <1>4, <1>5, <1>6, <1>7, <1>8, <1>9, <1>10, <1>11,
       <1>12, <1>13, <1>14, <1>15, <1>16, <1>17 DEF Next, WriteStep

-----------------------------------------------------------------------------
(* Theorems *)

(* BudgetInv holds initially and every step of the constructor and of      *)
(* write() preserves it.                                                   *)
THEOREM BudgetInductive == Spec => []BudgetInv
  <1>1. Init => BudgetInv
    BY InitBudget
  <1>2. BudgetInv /\ [Next]_vars => BudgetInv'
    BY BudgetStep
  <1> QED
    BY <1>1, <1>2, PTL DEF Spec

(* The variables of Storage, its backend and its Folder keep their types.  *)
THEOREM StorageTypeCorrect == Spec => []TypeOK
  BY BudgetInductive, PTL DEF BudgetInv

(* The unsigned available_bytes_ never wraps below zero, because no write  *)
(* is charged more than the estimate the eviction loop made room for.      *)
THEOREM BudgetCorrect == Spec => []BudgetNeverWraps
  BY BudgetInductive, PTL DEF BudgetInv

(* The files of all day directories, with what the streams still buffer,   *)
(* exceed the budget by at most the headers that Folder::write() did not   *)
(* report (two for each pair opened since start-up) and the records whose  *)
(* write failed half-way, through evictions of the active day, failures to *)
(* open, lost buffers and restarts over what was left.                     *)
THEOREM OvershootCorrect == Spec => []OvershootBounded
  <1>1. Init => SpaceInv
    BY InitRetention, InitSpace DEF SpaceInv
  <1>2. SpaceInv /\ [Next]_vars => SpaceInv'
    BY RetentionInvStep, DiskStep, AccountStep DEF SpaceInv
  <1>3. SpaceInv => OvershootBounded
    <2> SUFFICES ASSUME SpaceInv PROVE OvershootBounded
      OBVIOUS
    <2>1. /\ available_bytes_ >= 0 /\ available_bytes_ \in Int /\ uncharged \in Nat
          /\ opened \in Nat /\ max_size \in Nat /\ Header = 49
      BY StorageAssumption DEF SpaceInv, RetentionInv, BudgetInv, BudgetNeverWraps,
         TypeOK, Header
    <2>2. usedBytes \in Nat
      BY UsedIsNat DEF SpaceInv, RetentionInv, BudgetInv
    <2>3. pendingBytes \in Nat
      BY PendingIsNat DEF SpaceInv, RetentionInv, BudgetInv
    <2> QED
      BY <2>1, <2>2, <2>3 DEF SpaceInv, AccountInv, OvershootBounded
  <1> QED
    BY <1>1, <1>2, <1>3, PTL DEF Spec

(* Folder and FilesystemStorageBackend never put a record into the         *)
(* directory of another day, in whatever order timestamps arrive and       *)
(* wherever the process crashes.                                           *)
THEOREM DayCorrect == Spec => []RecordInItsDay
  <1>1. Init => BudgetInv /\ DayInv
    BY InitBudget, InitDay
  <1>2. BudgetInv /\ DayInv /\ [Next]_vars => (BudgetInv /\ DayInv)'
    <2>1. BudgetInv => TypeOK
      BY DEF BudgetInv
    <2> QED
      BY <2>1, BudgetStep, DayStep
  <1>3. DayInv => RecordInItsDay
    BY DEF DayInv
  <1> QED
    BY <1>1, <1>2, <1>3, PTL DEF Spec

(* Storage implements Retention: what it keeps is what was accepted, day   *)
(* by day, minus the oldest days and what was still buffered when a stream *)
(* failed or the process died; a removal that a crash interrupts leaves a  *)
(* part of the oldest day only.                                            *)
THEOREM RetentionRefinement == Spec => ImplementsRetention
  <1>1. Init => RetentionInv
    BY InitRetention
  <1>2. RetentionInv /\ [Next]_vars => RetentionInv'
    BY RetentionInvStep
  <1>3. Init => R!AbsInit
    <2> SUFFICES ASSUME Init PROVE R!AbsInit
      OBVIOUS
    <2>1. day_of \in [1..MaxWrites -> Days]
      BY InitDay DEF DayInv, PlacementInv, Ids
    <2>2. req.id = 0 /\ held = [d \in Days |-> {}]
      BY DEF Init
    <2>3. volatile = {}
      BY DEF Init, NothingBuffered, volatile
    <2> QED
      BY <2>1, <2>2, <2>3 DEF R!AbsInit
  <1>4. RetentionInv /\ [Next]_vars => [R!AbsNext]_(R!absVars)
    BY RetentionStep
  <1> QED
    BY <1>1, <1>2, <1>3, <1>4, PTL DEF Spec, ImplementsRetention, R!AbsSpec

=============================================================================
