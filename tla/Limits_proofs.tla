--------------------------- MODULE Limits_proofs ----------------------------
(***************************************************************************)
(* What gets past the two rate limiters of one client, for any numbers of  *)
(* processes, callers, limits and windows: a bound of the sum, over any    *)
(* stretch of time as long as a window, of what was admitted.              *)
(*                                                                         *)
(* The middleware.  In Redis, what was admitted in a window of the clock   *)
(* is within its count, or within the limit when the count has passed it;  *)
(* any stretch meets two windows of the clock.  In memory, a process that  *)
(* is alive holds what it admitted lately, so what was admitted and the    *)
(* room the living have left are together within the limit for every life  *)
(* begun.                                                                  *)
(*                                                                         *)
(* The gateway.  A check over Redis decides on a count it read before its  *)
(* last call, so it counts with what was admitted from the moment it read  *)
(* a count below the limit.  What was counted in a window is stored as     *)
(* long as the window lasts, and may go afterwards, when it expires or a   *)
(* check of a later stamp cleans it away, while checks of the window are   *)
(* still out; from then on all of these may pass once more.                *)
(*                                                                         *)
(* The sums are the library's recursive folds over finite sets.  What      *)
(* holds of them is shown without induction over sets as a rule: if it     *)
(* fails for a finite set, it fails for one all of whose subsets have it.  *)
(***************************************************************************)
EXTENDS RequestLimits, GatewayLimits, Integers, FiniteSetTheorems, TLAPS

-----------------------------------------------------------------------------
(* Sums                                                                    *)

\* A property of the subsets of a finite set that fails for one of them fails

\* for one all smaller subsets of which have it.
LEMMA LeastSubset ==
    ASSUME NEW S, IsFiniteSet(S), NEW B \in SUBSET SUBSET S, B # {}
    PROVE  \E T \in B : \A U \in B : U \subseteq T => U = T
<1> DEFINE F == FiniteSubsetsOf(S)  R == StrictSubsetOrdering(S)
<1>1. IsWellFoundedOn(R, F)
  BY FS_StrictSubsetOrderingWellFounded
<1>2. B \subseteq F
  BY FS_Subset DEF FiniteSubsetsOf
<1> HIDE DEF F, R
<1>3. \E T \in B : \A U \in B : ~ (<<U, T>> \in R)
  BY <1>1, <1>2, WFMin
<1>4. \A T, U \in B : U \subseteq T /\ U # T => <<U, T>> \in R
  BY DEF R, StrictSubsetOrdering
<1> QED
  BY <1>3, <1>4

\* The element a sum takes first, and the recursive definition of the sums of
\* f over the subsets of S, which is that of the library.
Pick(T) == CHOOSE t \in T : TRUE
SumsOf(f, S, g) ==
  g = [T \in SUBSET S |-> IF T = {} THEN 0 ELSE f[Pick(T)] + g[T \ {Pick(T)}]]
TheSums(f, S) == CHOOSE g : SumsOf(f, S, g)

\* The sum in these terms.
LEMMA TotalIs ==
    ASSUME NEW f, NEW S PROVE Total(f, S) = TheSums(f, S)[S]
BY DEF Total, MapThenSumSet, MapThenFoldSet, TheSums, SumsOf, Pick

LEMMA Picked ==
    ASSUME NEW T, T # {}
    PROVE  Pick(T) \in T /\ T \ {Pick(T)} \subseteq T /\ T \ {Pick(T)} # T
BY DEF Pick

\* At most one function satisfies the recursion.
LEMMA SumsUnique ==
    ASSUME NEW f, NEW S, IsFiniteSet(S), NEW g, NEW h, SumsOf(f, S, g), SumsOf(f, S, h)
    PROVE  g = h
<1> DEFINE B == {T \in SUBSET S : g[T] # h[T]}
<1>1. CASE B # {}
  <2>1. PICK T \in B : \A U \in B : U \subseteq T => U = T
    <3>1. B \in SUBSET SUBSET S
      OBVIOUS
    <3> HIDE DEF B
    <3> QED
      BY <1>1, <3>1, LeastSubset
  <2>2. g[T] # h[T] /\ T \in SUBSET S
    BY <2>1
  <2>3. T # {}
    BY <2>2 DEF SumsOf
  <2>4. T \ {Pick(T)} \in SUBSET S /\ g[T \ {Pick(T)}] = h[T \ {Pick(T)}]
    BY <2>1, <2>2, <2>3, Picked
  <2>5. g[T] = h[T]
    BY <2>2, <2>3, <2>4 DEF SumsOf
  <2> QED
    BY <2>2, <2>5
<1>2. CASE B = {}
  BY <1>2 DEF SumsOf
<1> QED
  BY <1>1, <1>2

\* On a smaller set it is the same function.
LEMMA SumsRestricted ==
    ASSUME NEW f, NEW S, NEW T \in SUBSET S, NEW g, SumsOf(f, S, g)
    PROVE  SumsOf(f, T, [U \in SUBSET T |-> g[U]])
<1> DEFINE h == [U \in SUBSET T |-> g[U]]
<1>1. \A U \in SUBSET T : h[U] = IF U = {} THEN 0 ELSE f[Pick(U)] + h[U \ {Pick(U)}]
  <2> TAKE U \in SUBSET T
  <2>1. U \in SUBSET S /\ U \ {Pick(U)} \in SUBSET T
    OBVIOUS
  <2>2. g[U] = IF U = {} THEN 0 ELSE f[Pick(U)] + g[U \ {Pick(U)}]
    BY <2>1 DEF SumsOf
  <2> QED
    BY <2>1, <2>2
<1>2. h = [U \in SUBSET T |-> h[U]]
  OBVIOUS
<1> HIDE DEF h
<1>3. SumsOf(f, T, h)
  BY <1>1, <1>2 DEF SumsOf
<1> QED
  BY <1>3 DEF h

\* The recursion defines a function: were it not for some set, then for a least one.
LEMMA SumsExist ==
    ASSUME NEW f, NEW S, IsFiniteSet(S)
    PROVE  SumsOf(f, S, TheSums(f, S))
<1> DEFINE B == {T \in SUBSET S : ~ SumsOf(f, T, TheSums(f, T))}
<1>1. CASE B # {}
  <2>1. PICK T \in B : \A U \in B : U \subseteq T => U = T
    <3>1. B \in SUBSET SUBSET S
      OBVIOUS
    <3> HIDE DEF B
    <3> QED
      BY <1>1, <3>1, LeastSubset
  <2>2. T \in SUBSET S /\ ~ SumsOf(f, T, TheSums(f, T))
    BY <2>1
  <2>3. ASSUME NEW U \in SUBSET T, U # T
        PROVE  IsFiniteSet(U) /\ SumsOf(f, U, TheSums(f, U))
    BY <2>1, <2>2, <2>3, FS_Subset
  <2>4. ASSUME NEW U \in SUBSET T, U # T, NEW V \in SUBSET U
        PROVE  TheSums(f, U)[V] = TheSums(f, V)[V]
    <3>1. V \in SUBSET T /\ V # T
      BY <2>4
    <3>2. IsFiniteSet(V) /\ SumsOf(f, V, TheSums(f, V)) /\ SumsOf(f, U, TheSums(f, U))
      BY <2>3, <2>4, <3>1
    <3>3. SumsOf(f, V, [W \in SUBSET V |-> TheSums(f, U)[W]])
      <4>1. V \in SUBSET U /\ SumsOf(f, U, TheSums(f, U))
        BY <2>4, <3>2
      <4> QED
        BY <4>1, SumsRestricted
    <3>4. TheSums(f, V) = [W \in SUBSET V |-> TheSums(f, U)[W]]
      BY <3>2, <3>3, SumsUnique
    <3> QED
      BY <3>4
  <2> DEFINE rest(U) == U \ {Pick(U)}
             g == [U \in SUBSET T |->
                     IF U = {} THEN 0 ELSE f[Pick(U)] + TheSums(f, rest(U))[rest(U)]]
  <2>5. ASSUME NEW U \in SUBSET T, U # {} PROVE g[rest(U)] = TheSums(f, rest(U))[rest(U)]
    <3> DEFINE V == rest(U)
    <3>1. V \in SUBSET T /\ V # T
      BY <2>5, Picked
    <3>2. SumsOf(f, V, TheSums(f, V))
      BY <2>3, <3>1
    <3> HIDE DEF V
    <3>3. CASE V = {}
      <4>1. TheSums(f, V)[V] = 0
        BY <3>2, <3>3 DEF SumsOf
      <4>2. g[V] = 0
        BY <3>1, <3>3
      <4> QED
        BY <4>1, <4>2 DEF V
    <3>4. CASE V # {}
      <4>1. rest(V) \in SUBSET V
        OBVIOUS
      <4>2. TheSums(f, V)[V] = f[Pick(V)] + TheSums(f, V)[rest(V)]
        BY <3>2, <3>4 DEF SumsOf
      <4>3. TheSums(f, V)[rest(V)] = TheSums(f, rest(V))[rest(V)]
        BY <2>4, <3>1, <4>1
      <4>4. g[V] = f[Pick(V)] + TheSums(f, rest(V))[rest(V)]
        BY <3>1, <3>4
      <4> QED
        BY <4>2, <4>3, <4>4 DEF V
    <3> QED
      BY <3>3, <3>4
  <2>6. \A U \in SUBSET T : g[U] = IF U = {} THEN 0 ELSE f[Pick(U)] + g[rest(U)]
    BY <2>5
  <2>7. g = [U \in SUBSET T |-> g[U]]
    OBVIOUS
  <2> HIDE DEF g
  <2>8. SumsOf(f, T, g)
    BY <2>6, <2>7 DEF SumsOf
  <2>9. SumsOf(f, T, TheSums(f, T))
    BY <2>8 DEF TheSums
  <2> QED
    BY <2>2, <2>9
<1>2. CASE B = {}
  BY <1>2
<1> QED
  BY <1>1, <1>2

\* The sum of nothing, and the sum of a set as the library unfolds it.
LEMMA TotalUnfolds ==
    ASSUME NEW f, NEW S, IsFiniteSet(S)
    PROVE  /\ S = {} => Total(f, S) = 0
           /\ S # {} => Total(f, S) = f[Pick(S)] + Total(f, S \ {Pick(S)})
<1>1. SumsOf(f, S, TheSums(f, S))
  BY SumsExist
<1>2. CASE S = {}
  BY <1>1, <1>2, TotalIs DEF SumsOf
<1>3. CASE S # {}
  <2> DEFINE U == S \ {Pick(S)}
  <2>1. U \in SUBSET S /\ IsFiniteSet(U)
    BY FS_Subset
  <2>2. TheSums(f, S)[S] = f[Pick(S)] + TheSums(f, S)[U]
    BY <1>1, <1>3 DEF SumsOf
  <2> HIDE DEF U
  <2>3. SumsOf(f, U, TheSums(f, U))
    BY <2>1, SumsExist
  <2>4. SumsOf(f, U, [W \in SUBSET U |-> TheSums(f, S)[W]])
    BY <1>1, <2>1, SumsRestricted
  <2>5. TheSums(f, U)[U] = TheSums(f, S)[U]
    <3>1. TheSums(f, U) = [W \in SUBSET U |-> TheSums(f, S)[W]]
      BY <2>1, <2>3, <2>4, SumsUnique
    <3> QED
      BY <3>1
  <2>6. Total(f, S) = TheSums(f, S)[S] /\ Total(f, U) = TheSums(f, U)[U]
    BY TotalIs
  <2> QED
    BY <1>3, <2>2, <2>5, <2>6 DEF U
<1> QED
  BY <1>2, <1>3

\* Sums of natural numbers are natural numbers.
LEMMA TotalTyped ==
    ASSUME NEW f, NEW S, IsFiniteSet(S), \A t \in S : f[t] \in Nat
    PROVE  Total(f, S) \in Nat
<1> DEFINE B == {T \in SUBSET S : Total(f, T) \notin Nat}
<1>1. CASE B # {}
  <2>1. PICK T \in B : \A U \in B : U \subseteq T => U = T
    <3>1. B \in SUBSET SUBSET S
      OBVIOUS
    <3> HIDE DEF B
    <3> QED
      BY <1>1, <3>1, LeastSubset
  <2>2. T \in SUBSET S /\ Total(f, T) \notin Nat /\ IsFiniteSet(T)
    BY <2>1, FS_Subset
  <2>3. T # {}
    <3>1. T = {} => Total(f, T) = 0
      BY <2>2, TotalUnfolds
    <3> QED
      BY <2>2, <3>1
  <2>4. Total(f, T) = f[Pick(T)] + Total(f, T \ {Pick(T)})
    BY <2>2, <2>3, TotalUnfolds
  <2>5. Total(f, T \ {Pick(T)}) \in Nat /\ f[Pick(T)] \in Nat
    BY <2>1, <2>2, <2>3, Picked
  <2> QED
    BY <2>2, <2>4, <2>5
<1>2. CASE B = {}
  BY <1>2
<1> QED
  BY <1>1, <1>2

\* Any element can be taken first.
LEMMA TotalTakes ==
    ASSUME NEW f, NEW S, IsFiniteSet(S), \A t \in S : f[t] \in Nat, NEW x \in S
    PROVE  Total(f, S) = f[x] + Total(f, S \ {x})
<1> DEFINE B == {T \in SUBSET S : \E t \in T : Total(f, T) # f[t] + Total(f, T \ {t})}
<1>1. CASE B # {}
  <2>1. PICK T \in B : \A U \in B : U \subseteq T => U = T
    <3>1. B \in SUBSET SUBSET S
      OBVIOUS
    <3> HIDE DEF B
    <3> QED
      BY <1>1, <3>1, LeastSubset
  <2>2. T \in SUBSET S /\ IsFiniteSet(T)
    BY <2>1, FS_Subset
  <2>3. PICK t \in T : Total(f, T) # f[t] + Total(f, T \ {t})
    BY <2>1
  <2> DEFINE p == Pick(T)
  <2>4. p \in T /\ Total(f, T) = f[p] + Total(f, T \ {p})
    BY <2>2, <2>3, Picked, TotalUnfolds
  <2> HIDE DEF p
  <2>5. p # t
    BY <2>3, <2>4
  <2>6. /\ T \ {p} \in SUBSET S /\ T \ {p} \notin B /\ t \in T \ {p}
        /\ T \ {t} \in SUBSET S /\ T \ {t} \notin B /\ p \in T \ {t}
    BY <2>1, <2>2, <2>3, <2>4, <2>5
  <2>7. /\ Total(f, T \ {p}) = f[t] + Total(f, (T \ {p}) \ {t})
        /\ Total(f, T \ {t}) = f[p] + Total(f, (T \ {t}) \ {p})
    BY <2>6
  <2>8. (T \ {p}) \ {t} = (T \ {t}) \ {p}
    OBVIOUS
  <2>9. f[t] \in Nat /\ f[p] \in Nat /\ Total(f, (T \ {t}) \ {p}) \in Nat
    <3>1. IsFiniteSet((T \ {t}) \ {p})
      BY <2>2, FS_Subset
    <3> QED
      BY <2>2, <2>3, <2>4, <3>1, TotalTyped
  <2> DEFINE r == Total(f, (T \ {t}) \ {p})
  <2>10. Total(f, T) = f[p] + (f[t] + r) /\ Total(f, T \ {t}) = f[p] + r /\ r \in Nat
    BY <2>4, <2>7, <2>8, <2>9
  <2> HIDE DEF r
  <2> QED
    BY <2>3, <2>9, <2>10
<1>2. CASE B = {}
  BY <1>2
<1> QED
  BY <1>1, <1>2

\* A sum depends only on what it adds, and grows with each of it.
LEMMA TotalMonotone ==
    ASSUME NEW f, NEW g, NEW S, IsFiniteSet(S),
           \A t \in S : f[t] \in Nat /\ g[t] \in Nat /\ f[t] <= g[t]
    PROVE  Total(f, S) <= Total(g, S)
<1> DEFINE B == {T \in SUBSET S : ~(Total(f, T) <= Total(g, T))}
<1>1. CASE B # {}
  <2>1. PICK T \in B : \A U \in B : U \subseteq T => U = T
    <3>1. B \in SUBSET SUBSET S
      OBVIOUS
    <3> HIDE DEF B
    <3> QED
      BY <1>1, <3>1, LeastSubset
  <2>2. T \in SUBSET S /\ IsFiniteSet(T) /\ ~(Total(f, T) <= Total(g, T))
    BY <2>1, FS_Subset
  <2>3. T # {}
    <3>1. CASE T = {}
      <4>1. Total(f, T) = 0 /\ Total(g, T) = 0
        BY <2>2, <3>1, TotalUnfolds
      <4> QED
        BY <2>2, <4>1
    <3> QED
      BY <3>1
  <2> DEFINE p == Pick(T)  U == T \ {p}
  <2>4. /\ p \in T /\ U \in SUBSET S /\ U \notin B /\ IsFiniteSet(U)
        /\ Total(f, T) = f[p] + Total(f, U) /\ Total(g, T) = g[p] + Total(g, U)
    BY <2>1, <2>2, <2>3, Picked, TotalUnfolds, FS_Subset
  <2>5. Total(f, U) <= Total(g, U)
    BY <2>4
  <2>6. Total(f, U) \in Nat /\ Total(g, U) \in Nat
    BY <2>4, TotalTyped
  <2>7. f[p] \in Nat /\ g[p] \in Nat /\ f[p] <= g[p]
    BY <2>2, <2>4
  <2> HIDE DEF p, U
  <2> QED
    BY <2>2, <2>4, <2>5, <2>6, <2>7
<1>2. CASE B = {}
  BY <1>2
<1> QED
  BY <1>1, <1>2

\* Equal values have equal sums.
LEMMA TotalSame ==
    ASSUME NEW f, NEW g, NEW S, IsFiniteSet(S), \A t \in S : f[t] \in Nat /\ g[t] = f[t]
    PROVE  Total(f, S) = Total(g, S)
<1>1. Total(f, S) <= Total(g, S) /\ Total(g, S) <= Total(f, S)
  BY TotalMonotone
<1>2. Total(f, S) \in Nat /\ Total(g, S) \in Nat
  BY TotalTyped
<1> QED
  BY <1>1, <1>2

\* A larger set has a larger sum.
LEMMA TotalOfMore ==
    ASSUME NEW f, NEW S, IsFiniteSet(S), \A t \in S : f[t] \in Nat, NEW T \in SUBSET S
    PROVE  Total(f, T) <= Total(f, S)
<1> DEFINE B == {U \in SUBSET S : T \subseteq U /\ ~(Total(f, T) <= Total(f, U))}
<1>1. CASE B # {}
  <2>1. PICK U \in B : \A V \in B : V \subseteq U => V = U
    <3>1. B \in SUBSET SUBSET S
      OBVIOUS
    <3> HIDE DEF B
    <3> QED
      BY <1>1, <3>1, LeastSubset
  <2>2. U \in SUBSET S /\ T \subseteq U /\ ~(Total(f, T) <= Total(f, U))
    BY <2>1
  <2>3. IsFiniteSet(U) /\ IsFiniteSet(T) /\ Total(f, T) \in Nat
    BY <2>2, FS_Subset, TotalTyped
  <2>4. PICK x \in U : x \notin T
    BY <2>2, <2>3
  <2> DEFINE V == U \ {x}
  <2>5. V \in SUBSET S /\ T \subseteq V /\ V \notin B /\ IsFiniteSet(V)
    BY <2>1, <2>2, <2>3, <2>4, FS_Subset
  <2>6. Total(f, T) <= Total(f, V)
    BY <2>5
  <2>7. Total(f, U) = f[x] + Total(f, V)
    BY <2>2, <2>3, <2>4, TotalTakes
  <2>8. f[x] \in Nat /\ Total(f, V) \in Nat
    BY <2>2, <2>4, <2>5, TotalTyped
  <2> HIDE DEF V
  <2> QED
    BY <2>2, <2>3, <2>6, <2>7, <2>8
<1>2. CASE B = {}
  <2>1. S \notin B
    BY <1>2
  <2> QED
    BY <2>1
<1> QED
  BY <1>1, <1>2

\* One value changes.
LEMMA TotalChanges ==
    ASSUME NEW f, NEW g, NEW S, IsFiniteSet(S), NEW x \in S,
           \A t \in S : f[t] \in Nat /\ g[t] \in Nat /\ (t # x => g[t] = f[t])
    PROVE  Total(g, S) + f[x] = Total(f, S) + g[x]
<1> DEFINE U == S \ {x}
<1>1. IsFiniteSet(U) /\ U \subseteq S
  BY FS_Subset
<1>2. Total(f, S) = f[x] + Total(f, U) /\ Total(g, S) = g[x] + Total(g, U)
  BY TotalTakes
<1>3. Total(f, U) = Total(g, U)
  BY <1>1, TotalSame
<1>4. Total(f, U) \in Nat /\ f[x] \in Nat /\ g[x] \in Nat
  BY <1>1, TotalTyped
<1> HIDE DEF U
<1> QED
  BY <1>2, <1>3, <1>4

\* The sum of zeros.
LEMMA TotalZero ==
    ASSUME NEW f, NEW S, IsFiniteSet(S), \A t \in S : f[t] = 0
    PROVE  Total(f, S) = 0
<1> DEFINE B == {T \in SUBSET S : Total(f, T) # 0}
<1>1. CASE B # {}
  <2>1. PICK T \in B : \A U \in B : U \subseteq T => U = T
    <3>1. B \in SUBSET SUBSET S
      OBVIOUS
    <3> HIDE DEF B
    <3> QED
      BY <1>1, <3>1, LeastSubset
  <2>2. T \in SUBSET S /\ IsFiniteSet(T) /\ Total(f, T) # 0 /\ T # {}
    BY <2>1, FS_Subset, TotalUnfolds
  <2>3. Total(f, T) = f[Pick(T)] + Total(f, T \ {Pick(T)})
    BY <2>2, TotalUnfolds
  <2>4. f[Pick(T)] = 0 /\ Total(f, T \ {Pick(T)}) = 0
    BY <2>1, <2>2, Picked
  <2> QED
    BY <2>2, <2>3, <2>4
<1>2. CASE B = {}
  BY <1>2
<1> QED
  BY <1>1, <1>2

\* Two sets have together at most what each has.
LEMMA TotalOfUnion ==
    ASSUME NEW f, NEW S, IsFiniteSet(S), \A t \in S : f[t] \in Nat,
           NEW T \in SUBSET S, NEW U \in SUBSET S
    PROVE  Total(f, T \cup U) <= Total(f, T) + Total(f, U)
<1> DEFINE B == {V \in SUBSET S : ~(Total(f, T \cup V) <= Total(f, T) + Total(f, V))}
<1>1. CASE B # {}
  <2>1. PICK V \in B : \A W \in B : W \subseteq V => W = V
    <3>1. B \in SUBSET SUBSET S
      OBVIOUS
    <3> HIDE DEF B
    <3> QED
      BY <1>1, <3>1, LeastSubset
  <2>2. V \in SUBSET S /\ ~(Total(f, T \cup V) <= Total(f, T) + Total(f, V))
    BY <2>1
  <2>3. /\ IsFiniteSet(T) /\ IsFiniteSet(V) /\ IsFiniteSet(T \cup V)
        /\ Total(f, T) \in Nat /\ Total(f, V) \in Nat /\ Total(f, T \cup V) \in Nat
    BY <2>2, FS_Subset, TotalTyped
  <2>4. V # {}
    <3>1. CASE V = {}
      <4>1. T \cup V = T /\ Total(f, V) = 0
        BY <2>3, <3>1, TotalUnfolds
      <4> QED
        BY <2>2, <2>3, <4>1
    <3> QED
      BY <3>1
  <2>5. PICK x \in V : TRUE
    BY <2>4
  <2> DEFINE W == V \ {x}
  <2>6. W \in SUBSET S /\ W \notin B /\ IsFiniteSet(W) /\ IsFiniteSet(T \cup W)
    BY <2>1, <2>2, <2>5, FS_Subset
  <2>7. /\ Total(f, W) \in Nat /\ Total(f, T \cup W) \in Nat /\ f[x] \in Nat
        /\ Total(f, V) = f[x] + Total(f, W)
        /\ Total(f, T \cup W) <= Total(f, T) + Total(f, W)
    BY <2>2, <2>3, <2>5, <2>6, TotalTyped, TotalTakes
  <2>8. Total(f, T \cup V) <= f[x] + Total(f, T \cup W)
    <3>1. CASE x \in T
      <4>1. T \cup V = T \cup W
        BY <2>5, <3>1
      <4>2. Total(f, T \cup V) = Total(f, T \cup W)
        BY <4>1
      <4> HIDE DEF W
      <4> QED
        BY <2>7, <4>2
    <3>2. CASE x \notin T
      <4>1. (T \cup V) \ {x} = T \cup W /\ x \in T \cup V
        BY <2>5, <3>2
      <4>2. Total(f, T \cup V) = f[x] + Total(f, (T \cup V) \ {x})
        BY <2>2, <2>3, <4>1, TotalTakes
      <4> QED
        BY <2>7, <4>1, <4>2
    <3> QED
      BY <3>1, <3>2
  <2> HIDE DEF W
  <2> QED
    BY <2>2, <2>3, <2>7, <2>8
<1>2. CASE B = {}
  <2>1. U \notin B
    BY <1>2
  <2> QED
    BY <2>1
<1> QED
  BY <1>1, <1>2

\* As often the same as there are elements that have it.
LEMMA TotalOfSome ==
    ASSUME NEW S, IsFiniteSet(S), NEW M \in SUBSET S, NEW n \in Nat, NEW f,
           \A t \in S : f[t] = IF t \in M THEN n ELSE 0
    PROVE  Cardinality(M) \in Nat /\ Total(f, S) = Cardinality(M) * n
<1> DEFINE B == {T \in SUBSET S : Total(f, T) # Cardinality(T \cap M) * n}
<1>1. CASE B # {}
  <2>1. PICK T \in B : \A U \in B : U \subseteq T => U = T
    <3>1. B \in SUBSET SUBSET S
      OBVIOUS
    <3> HIDE DEF B
    <3> QED
      BY <1>1, <3>1, LeastSubset
  <2>2. /\ T \in SUBSET S /\ IsFiniteSet(T) /\ IsFiniteSet(T \cap M)
        /\ Total(f, T) # Cardinality(T \cap M) * n
    BY <2>1, FS_Subset
  <2>3. T # {}
    <3>1. CASE T = {}
      <4>1. T \cap M = {}
        BY <3>1
      <4>2. Cardinality(T \cap M) = 0 /\ Total(f, T) = 0
        BY <2>2, <3>1, <4>1, FS_EmptySet, TotalUnfolds
      <4> QED
        BY <2>2, <4>2
    <3> QED
      BY <3>1
  <2> DEFINE p == Pick(T)  U == T \ {p}
  <2>4. /\ p \in T /\ U \in SUBSET S /\ U \notin B /\ IsFiniteSet(U \cap M)
        /\ Total(f, T) = f[p] + Total(f, U)
    BY <2>1, <2>2, <2>3, Picked, TotalUnfolds, FS_Subset
  <2>5. Total(f, U) = Cardinality(U \cap M) * n /\ Cardinality(U \cap M) \in Nat
    BY <2>4, FS_CardinalityType
  <2>6. CASE p \in M
    <3>1. p \in T \cap M /\ U \cap M = (T \cap M) \ {p}
      BY <2>4, <2>6
    <3>2. Cardinality(T \cap M) \in Nat
      BY <2>2, FS_CardinalityType
    <3> HIDE DEF p, U
    <3>8. Cardinality((T \cap M) \ {p}) = Cardinality(T \cap M) - 1
      BY <2>2, <3>1, FS_RemoveElement
    <3>9. Cardinality(U \cap M) = Cardinality((T \cap M) \ {p})
      BY <3>1
    <3>3. f[p] = n
      BY <2>2, <2>4, <2>6
    <3> DEFINE k == Cardinality(U \cap M)
    <3>4. Cardinality(T \cap M) = k + 1
      BY <2>5, <3>2, <3>8, <3>9
    <3> HIDE DEF k
    <3>5. k \in Nat /\ Total(f, T) = n + k * n
      BY <2>4, <2>5, <3>3 DEF k
    <3>6. n + k * n = (k + 1) * n
      BY <3>5
    <3> QED
      BY <2>2, <3>4, <3>5, <3>6
  <2>7. CASE p \notin M
    <3>1. U \cap M = T \cap M /\ f[p] = 0
      BY <2>2, <2>4, <2>7
    <3>2. Total(f, U) \in Nat
      BY <2>5
    <3>3. Cardinality(U \cap M) = Cardinality(T \cap M)
      BY <3>1
    <3> HIDE DEF U, p
    <3>4. Total(f, T) = Total(f, U)
      BY <2>4, <3>1, <3>2
    <3> QED
      BY <2>2, <2>5, <3>3, <3>4
  <2> QED
    BY <2>6, <2>7
<1>2. CASE B = {}
  <2>1. Total(f, S) = Cardinality(M) * n
    <3>1. Total(f, S) = Cardinality(S \cap M) * n
      BY <1>2
    <3>2. S \cap M = M
      OBVIOUS
    <3> QED
      BY <3>1, <3>2
  <2>2. IsFiniteSet(M)
    BY FS_Subset
  <2>3. Cardinality(M) \in Nat
    BY <2>2, FS_CardinalityType
  <2> QED
    BY <2>1, <2>3
<1> QED
  BY <1>1, <1>2

\* One element has one more.
LEMMA TotalPlusOne ==
    ASSUME NEW f, NEW g, NEW S, IsFiniteSet(S), NEW x,
           \A t \in S : f[t] \in Nat /\ g[t] = f[t] + (IF t = x THEN 1 ELSE 0)
    PROVE  Total(f, S) \in Nat /\ Total(g, S) = Total(f, S) + (IF x \in S THEN 1 ELSE 0)
<1>1. \A t \in S : f[t] \in Nat /\ g[t] \in Nat /\ (t # x => g[t] = f[t])
  OBVIOUS
<1>2. Total(f, S) \in Nat /\ Total(g, S) \in Nat
  BY <1>1, TotalTyped
<1>3. CASE x \in S
  <2>1. Total(g, S) + f[x] = Total(f, S) + g[x]
    BY <1>1, <1>3, TotalChanges
  <2>2. g[x] = f[x] + 1 /\ f[x] \in Nat
    BY <1>3
  <2> QED
    BY <1>2, <1>3, <2>1, <2>2
<1>4. CASE x \notin S
  <2>1. \A t \in S : f[t] \in Nat /\ g[t] = f[t]
    BY <1>1, <1>4
  <2>2. Total(f, S) = Total(g, S)
    BY <2>1, TotalSame
  <2> QED
    BY <1>2, <1>4, <2>2
<1> QED
  BY <1>3, <1>4

\* How many there are of some, and of fewer.
LEMMA Fewer ==
    ASSUME NEW S, IsFiniteSet(S), NEW X \in SUBSET S, NEW Y \in SUBSET X
    PROVE  /\ Cardinality(X) \in Nat /\ Cardinality(Y) \in Nat
           /\ Cardinality(Y) <= Cardinality(X) /\ Cardinality(X) <= Cardinality(S)
           /\ (\E c \in X : c \notin Y) => Cardinality(Y) + 1 <= Cardinality(X)
<1>1. IsFiniteSet(X) /\ IsFiniteSet(Y)
  BY FS_Subset
<1>2. Cardinality(X) \in Nat /\ Cardinality(Y) \in Nat /\ Cardinality(S) \in Nat
  BY <1>1, FS_CardinalityType
<1>3. Cardinality(Y) <= Cardinality(X) /\ Cardinality(X) <= Cardinality(S)
  BY <1>1, FS_Subset
<1>4. ASSUME NEW c \in X, c \notin Y PROVE Cardinality(Y) + 1 <= Cardinality(X)
  <2>1. IsFiniteSet(X \ {c}) /\ Cardinality(X \ {c}) = Cardinality(X) - 1
    BY <1>1, FS_RemoveElement
  <2>2. Y \subseteq X \ {c}
    BY <1>4
  <2>3. Cardinality(Y) <= Cardinality(X \ {c})
    BY <2>1, <2>2, FS_Subset
  <2> QED
    BY <1>2, <2>1, <2>3
<1> QED
  BY <1>2, <1>3, <1>4

\* A value that some elements have and the others do not.
LEMMA TotalWhereSome ==
    ASSUME NEW f, NEW S, IsFiniteSet(S), \A t \in S : f[t] \in Nat,
           NEW T \in SUBSET S, NEW U \in SUBSET S, \A t \in T \ U : f[t] = 0
    PROVE  Total(f, T) <= Total(f, U)
<1> DEFINE V == T \cap U  W == T \ U
<1>1. V \in SUBSET S /\ W \in SUBSET S /\ V \cup W = T /\ V \in SUBSET U
  OBVIOUS
<1>2. IsFiniteSet(U) /\ IsFiniteSet(V) /\ IsFiniteSet(W) /\ \A t \in U : f[t] \in Nat
  BY <1>1, FS_Subset
<1>3. Total(f, W) = 0
  BY <1>2, TotalZero
<1>4. Total(f, V) <= Total(f, U)
  BY <1>1, <1>2, TotalOfMore
<1>5. Total(f, V \cup W) <= Total(f, V) + Total(f, W)
  BY <1>1, TotalOfUnion
<1>6. Total(f, V \cup W) = Total(f, T)
  BY <1>1
<1>7. Total(f, V) \in Nat /\ Total(f, U) \in Nat /\ Total(f, T) \in Nat
  <2>1. IsFiniteSet(T) /\ (\A t \in T : f[t] \in Nat) /\ \A t \in V : f[t] \in Nat
    BY <1>1, FS_Subset
  <2> QED
    BY <1>2, <2>1, TotalTyped
<1> HIDE DEF V, W
<1> QED
  BY <1>3, <1>4, <1>5, <1>6, <1>7

-----------------------------------------------------------------------------
(* Division                                                                *)

\* Quotient and remainder, and multiples of different numbers.
LEMMA Divided ==
    ASSUME NEW M \in Nat \ {0}, NEW x \in Nat
    PROVE  /\ x \div M \in Nat /\ x % M \in 0 .. M - 1
           /\ x = M * (x \div M) + (x % M)
<1>1. x \div M \in Int /\ x % M \in 0 .. M - 1 /\ x = M * (x \div M) + (x % M)
  OBVIOUS
<1> QED
  BY <1>1

LEMMA Multiples ==
    ASSUME NEW M \in Nat \ {0}, NEW p \in Nat, NEW q \in Nat, p < q
    PROVE  M * p + M <= M * q
<1>1. PICK d \in Nat : q = (p + 1) + d
  <2>1. q - (p + 1) \in Nat /\ q = (p + 1) + (q - (p + 1))
    OBVIOUS
  <2> QED
    BY <2>1
<1>2. M * q = M * p + M + M * d
  BY <1>1
<1>3. M * d \in Nat
  OBVIOUS
<1>4. M * p \in Nat
  OBVIOUS
<1> QED
  BY <1>2, <1>3, <1>4

\* Multiples of M.
LEMMA MultipleIs ==
    ASSUME NEW M \in Nat \ {0}, NEW q \in Nat
    PROVE  M * q \in Nat /\ (M * q) % M = 0
<1> DEFINE x == M * q  p == x \div M  r == x % M
<1>1. x \in Nat
  OBVIOUS
<1>2. p \in Nat /\ r \in 0 .. M - 1 /\ x = M * p + r
  BY <1>1, Divided
<1> HIDE DEF p, r
<1>3. CASE p < q
  <2>1. M * p + M <= M * q /\ M * p \in Nat
    BY <1>2, <1>3, Multiples
  <2> QED
    BY <1>2, <2>1
<1>4. CASE q < p
  <2>1. M * q + M <= M * p /\ M * p \in Nat
    BY <1>2, <1>4, Multiples
  <2> QED
    BY <1>2, <2>1
<1>5. CASE p = q
  <2>1. r = 0
    BY <1>1, <1>2, <1>5
  <2> QED
    BY <1>1, <2>1 DEF r
<1> QED
  BY <1>2, <1>3, <1>4, <1>5

LEMMA MultiplesApart ==
    ASSUME NEW M \in Nat \ {0}, NEW b \in Nat, NEW c \in Nat, b % M = 0, c % M = 0,
           b <= c, c < b + M
    PROVE  c = b
<1> DEFINE p == b \div M  q == c \div M
<1>1. p \in Nat /\ q \in Nat /\ b = M * p /\ c = M * q /\ M * p \in Nat /\ M * q \in Nat
  <2>1. /\ p \in Nat /\ b = M * p + (b % M) /\ q \in Nat /\ c = M * q + (c % M)
    BY Divided
  <2> HIDE DEF p, q
  <2>2. M * p \in Nat /\ M * q \in Nat
    BY <2>1
  <2> QED
    BY <2>1, <2>2
<1> HIDE DEF p, q
<1>2. CASE p < q
  BY <1>1, <1>2, Multiples
<1>3. CASE q < p
  BY <1>1, <1>3, Multiples
<1> QED
  BY <1>1, <1>2, <1>3

\* The multiple that begins the window x is in, and the next.
LEMMA MultipleBefore ==
    ASSUME NEW M \in Nat \ {0}, NEW x \in Nat
    PROVE  \E b \in Nat : b % M = 0 /\ (b + M) % M = 0 /\ b <= x /\ x < b + M
<1> DEFINE q == x \div M  r == x % M
<1>1. q \in Nat /\ r \in 0 .. M - 1 /\ x = M * q + r
  BY Divided
<1> HIDE DEF q, r
<1>2. M * q \in Nat /\ (M * q) % M = 0 /\ (M * (q + 1)) % M = 0
  BY <1>1, MultipleIs
<1>3. M * (q + 1) = M * q + M
  BY <1>1
<1>4. M * q <= x /\ x < M * q + M
  BY <1>1, <1>2
<1> QED
  BY <1>2, <1>3, <1>4

-----------------------------------------------------------------------------
(* The requests of one address                                             *)

Limitations == {<<Minute, PerMinute>>, <<Hour, PerHour>>}
Stretch(start, length) == {t \in Ticks : t >= start /\ t < start + length}
Counted(length) == IF length = Minute THEN counts.minute ELSE counts.hour
Held(p, T) == Total(history[p], T)

\* Redis: a clock window admits no more than it counts, or the limit.
ClockWindows(length, limit) ==
  \A b \in Nat : b % length = 0 =>
    /\ Total(byRedis, Stretch(b, length)) <= limit
    /\ b <= time /\ time < b + length => Total(byRedis, Stretch(b, length)) <= Counted(length)

\* Memory: what the processes that count in memory may yet admit in a stretch that is
\* not over, and what was admitted in it, are the limit for every life at most.
Room(T, limit) ==
  [p \in Dispatchers |-> IF mode[p] = "memory" THEN limit - Held(p, T) ELSE 0]
Lives(length, limit) ==
  \A start \in Ticks :
    /\ Total(byMemory, Stretch(start, length)) <= lifetimes * limit
    /\ time < start + length =>
         /\ \A p \in Dispatchers : Held(p, Stretch(start, length)) <= limit
         /\ Total(byMemory, Stretch(start, length))
              + Total(Room(Stretch(start, length), limit), Dispatchers) <= lifetimes * limit

NothingAhead ==
  \A t \in Ticks : t > time => byRedis[t] = 0 /\ \A p \in Dispatchers : history[p][t] = 0

AdmissionInv ==
  /\ LimitsTypeOK /\ NothingAhead
  /\ \A window \in Limitations :
       ClockWindows(window[1], window[2]) /\ Lives(window[1], window[2])

\* What the assumptions say, and the types of what the steps use.
LEMMA LimitFacts ==
    ASSUME LimitsAssumption
    PROVE  /\ \A window \in Limitations :
                /\ window[1] \in Nat \ {0} /\ window[2] \in Nat \ {0} /\ window[1] <= Hour
                /\ window = <<Minute, PerMinute>> \/ window = <<Hour, PerHour>>
           /\ Minute \in Nat \ {0} /\ Hour \in Nat \ {0} /\ Minute < Hour
           /\ PerMinute \in Nat \ {0} /\ PerHour \in Nat \ {0}
           /\ LastTick \in Nat /\ MaxRequests \in Nat /\ MaxRestarts \in Nat
           /\ IsFiniteSet(Dispatchers) /\ IsFiniteSet(Ticks) /\ Ticks \subseteq Nat /\ 0 \in Ticks
<1>1. /\ Minute \in Nat \ {0} /\ Hour \in Nat \ {0} /\ Minute < Hour
      /\ PerMinute \in Nat \ {0} /\ PerHour \in Nat \ {0}
      /\ LastTick \in Nat /\ MaxRequests \in Nat /\ MaxRestarts \in Nat
      /\ IsFiniteSet(Dispatchers)
  BY DEF LimitsAssumption
<1>2. IsFiniteSet(Ticks) /\ Ticks \subseteq Nat /\ 0 \in Ticks
  BY <1>1, FS_Interval DEF Ticks
<1> QED
  BY <1>1, <1>2 DEF Limitations

LEMMA TicksOf ==
    ASSUME LimitsAssumption, NEW start \in Nat, NEW length \in Nat, NEW f \in [Ticks -> Nat]
    PROVE  /\ Stretch(start, length) \in SUBSET Ticks /\ IsFiniteSet(Stretch(start, length))
           /\ (\A t \in Stretch(start, length) : f[t] \in Nat)
           /\ Total(f, Stretch(start, length)) \in Nat
<1>1. Stretch(start, length) \in SUBSET Ticks
  BY DEF Stretch
<1>2. IsFiniteSet(Stretch(start, length))
  BY <1>1, LimitFacts, FS_Subset
<1>3. \A t \in Stretch(start, length) : f[t] \in Nat
  BY <1>1
<1> QED
  BY <1>1, <1>2, <1>3, TotalTyped

LEMMA LimitsTyped ==
    ASSUME LimitsAssumption, LimitsTypeOK
    PROVE  /\ time \in Ticks /\ time \in Nat
           /\ counts.minute \in Nat /\ counts.hour \in Nat
           /\ (\A length \in Nat : Counted(length) \in Nat)
           /\ mode \in [Dispatchers -> Modes] /\ history \in [Dispatchers -> [Ticks -> Nat]]
           /\ (\A p \in Dispatchers : history[p] \in [Ticks -> Nat])
           /\ byRedis \in [Ticks -> Nat] /\ byMemory \in [Ticks -> Nat]
           /\ lifetimes \in Nat
BY LimitFacts DEF LimitsTypeOK, Counted

\* A step that neither admits nor ages leaves the counts in memory as they are.
LEMMA MemoryStays ==
    ASSUME LimitsAssumption, AdmissionInv,
           UNCHANGED <<mode, history, byMemory, lifetimes>>, time' >= time, time' \in Nat,
           NEW window \in Limitations
    PROVE  Lives(window[1], window[2])'
<1> DEFINE length == window[1]  limit == window[2]
<1>1. Lives(length, limit) /\ length \in Nat /\ time \in Nat
  BY LimitFacts, LimitsTyped DEF AdmissionInv
<1> HIDE DEF length, limit
<1>2. ASSUME NEW start \in Ticks
      PROVE  (/\ Total(byMemory, Stretch(start, length)) <= lifetimes * limit
              /\ time < start + length =>
                   /\ \A p \in Dispatchers : Held(p, Stretch(start, length)) <= limit
                   /\ Total(byMemory, Stretch(start, length))
                        + Total(Room(Stretch(start, length), limit), Dispatchers)
                        <= lifetimes * limit)'
  <2>1. time' < start + length => time < start + length
    BY <1>1, LimitFacts
  <2>2. /\ Room(Stretch(start, length), limit)' = Room(Stretch(start, length), limit)
        /\ \A p \in Dispatchers : Held(p, Stretch(start, length))' = Held(p, Stretch(start, length))
    BY DEF Room, Held, Stretch
  <2> QED
    BY <1>1, <2>1, <2>2 DEF Lives, Stretch
<1>3. Lives(length, limit)'
  BY <1>2 DEF Lives
<1> QED
  BY <1>3 DEF length, limit

\* A request is counted in Redis, and admitted only within the limits.
LEMMA RedisStepKeeps ==
    ASSUME LimitsAssumption, AdmissionInv,
           UNCHANGED <<time, mode, history, byMemory, lifetimes, restarts>>,
           arrived' \in 0 .. MaxRequests, counts' \in [minute : Nat, hour : Nat],
           counts'.minute >= counts.minute, counts'.hour >= counts.hour,
           \/ byRedis' = byRedis
           \/ /\ byRedis' = [byRedis EXCEPT ![time] = @ + 1]
              /\ counts'.minute = counts.minute + 1 /\ counts'.hour = counts.hour + 1
              /\ counts'.minute <= PerMinute /\ counts'.hour <= PerHour
    PROVE  AdmissionInv'
<1>1. /\ time \in Ticks /\ time \in Nat /\ byRedis \in [Ticks -> Nat]
      /\ counts.minute \in Nat /\ counts.hour \in Nat
      /\ counts'.minute \in Nat /\ counts'.hour \in Nat
      /\ Ticks \subseteq Nat
  BY LimitsTyped, LimitFacts DEF AdmissionInv
<1>2. byRedis' \in [Ticks -> Nat]
  <2>1. byRedis[time] + 1 \in Nat
    BY <1>1
  <2> QED
    BY <1>1, <2>1
<1>3. LimitsTypeOK'
  BY <1>2 DEF AdmissionInv, LimitsTypeOK
<1>4. NothingAhead'
  <2>1. \A t \in Ticks : t > time => byRedis'[t] = byRedis[t]
    BY <1>1
  <2> QED
    BY <2>1 DEF AdmissionInv, NothingAhead
<1>5. ASSUME NEW window \in Limitations
      PROVE  ClockWindows(window[1], window[2])'
  <2> DEFINE length == window[1]  limit == window[2]
  <2>1. /\ length \in Nat \ {0} /\ limit \in Nat /\ ClockWindows(length, limit)
        /\ Counted(length) \in Nat
    BY LimitFacts, LimitsTyped DEF AdmissionInv
  <2>2. /\ Counted(length)' \in Nat /\ Counted(length)' >= Counted(length)
        /\ byRedis' # byRedis =>
             Counted(length)' = Counted(length) + 1 /\ Counted(length)' <= limit
    <3>1. window = <<Minute, PerMinute>> \/ window = <<Hour, PerHour>>
      BY LimitFacts
    <3>2. CASE window = <<Minute, PerMinute>>
      BY <1>1, <3>2 DEF Counted
    <3>3. CASE window = <<Hour, PerHour>>
      BY <1>1, <3>3, LimitFacts DEF Counted
    <3> QED
      BY <3>1, <3>2, <3>3
  <2> HIDE DEF length, limit
  <2>3. ASSUME NEW b \in Nat, b % length = 0
        PROVE  /\ Total(byRedis', Stretch(b, length)) <= limit
               /\ b <= time /\ time < b + length =>
                    Total(byRedis', Stretch(b, length)) <= Counted(length)'
    <3> DEFINE T == Stretch(b, length)
    <3>1. T \in SUBSET Ticks /\ IsFiniteSet(T) /\ Total(byRedis, T) \in Nat
      BY <1>1, <2>1, TicksOf
    <3>2. /\ Total(byRedis, T) <= limit
          /\ b <= time /\ time < b + length => Total(byRedis, T) <= Counted(length)
      BY <2>1, <2>3 DEF ClockWindows
    <3>3. time \in T <=> b <= time /\ time < b + length
      BY <1>1, <2>1 DEF Stretch
    <3> HIDE DEF T
    <3>4. CASE byRedis' = byRedis
      BY <2>1, <2>2, <3>1, <3>2, <3>4 DEF T
    <3>5. CASE byRedis' # byRedis
      <4>1. PICK now \in Ticks : now = time
        BY <1>1
      <4>2. \A t \in T : byRedis[t] \in Nat /\ byRedis'[t] = byRedis[t] + (IF t = now THEN 1 ELSE 0)
        BY <1>1, <3>1, <3>5, <4>1
      <4>3. Total(byRedis', T) = Total(byRedis, T) + (IF now \in T THEN 1 ELSE 0)
        BY <3>1, <4>2, TotalPlusOne
      <4> QED
        BY <2>1, <2>2, <3>1, <3>2, <3>3, <3>5, <4>1, <4>3 DEF T
    <3> QED
      BY <3>4, <3>5
  <2>4. ClockWindows(length, limit)'
    BY <2>3 DEF ClockWindows, Stretch, Counted
  <2> QED
    BY <2>4 DEF length, limit
<1>6. \A window \in Limitations : Lives(window[1], window[2])'
  BY <1>1, MemoryStays
<1> QED
  BY <1>3, <1>4, <1>5, <1>6 DEF AdmissionInv, Limitations

\* A dispatch over Redis, answered or not.
LEMMA RedisDispatchKeeps ==
    ASSUME LimitsAssumption, AdmissionInv, NEW p \in Dispatchers, RedisDispatch(p)
    PROVE  AdmissionInv'
<1>1. /\ counts.minute \in Nat /\ counts.hour \in Nat /\ arrived \in 0 .. MaxRequests
      /\ MaxRequests \in Nat /\ PerMinute \in Nat /\ PerHour \in Nat
  BY LimitsTyped, LimitFacts DEF AdmissionInv, LimitsTypeOK
<1>2. /\ counts' = [minute |-> counts.minute + 1, hour |-> counts.hour + 1]
      /\ arrived' = arrived + 1 /\ arrived < MaxRequests
      /\ UNCHANGED <<time, mode, history, byMemory, lifetimes, restarts>>
      /\ byRedis' = IF counts'.minute > PerMinute \/ counts'.hour > PerHour
                    THEN byRedis ELSE [byRedis EXCEPT ![time] = @ + 1]
  BY DEF RedisDispatch, Arrives
<1>3. /\ counts'.minute = counts.minute + 1 /\ counts'.hour = counts.hour + 1
      /\ counts' \in [minute : Nat, hour : Nat] /\ arrived' \in 0 .. MaxRequests
      /\ counts'.minute >= counts.minute /\ counts'.hour >= counts.hour
  BY <1>1, <1>2
<1>4. \/ byRedis' = byRedis
      \/ /\ byRedis' = [byRedis EXCEPT ![time] = @ + 1]
         /\ counts'.minute <= PerMinute /\ counts'.hour <= PerHour
  BY <1>1, <1>2, <1>3
<1> QED
  BY <1>2, <1>3, <1>4, RedisStepKeeps

LEMMA RedisLetsThroughKeeps ==
    ASSUME LimitsAssumption, AdmissionInv, NEW p \in Dispatchers, RedisLetsThrough(p)
    PROVE  AdmissionInv'
<1>1. /\ counts \in [minute : Nat, hour : Nat]
      /\ counts.minute \in Nat /\ counts.hour \in Nat /\ arrived \in 0 .. MaxRequests
      /\ MaxRequests \in Nat
  BY LimitsTyped, LimitFacts DEF AdmissionInv, LimitsTypeOK
<1>2. /\ counts' \in {counts, [minute |-> counts.minute + 1, hour |-> counts.hour + 1]}
      /\ arrived' = arrived + 1 /\ arrived < MaxRequests
      /\ UNCHANGED <<time, mode, history, byRedis, byMemory, lifetimes, restarts>>
  BY DEF RedisLetsThrough, Arrives
<1>3. /\ counts' \in [minute : Nat, hour : Nat] /\ arrived' \in 0 .. MaxRequests
      /\ counts'.minute >= counts.minute /\ counts'.hour >= counts.hour
  BY <1>1, <1>2
<1> QED
  BY <1>2, <1>3, RedisStepKeeps

\* What the cleaning keeps is all there was of a stretch that is not over, and a

\* request is admitted only while such a stretch holds less than the limit.
LEMMA KeptFacts ==
    ASSUME LimitsAssumption, AdmissionInv, NEW p \in Dispatchers,
           NEW window \in Limitations, NEW start \in Ticks, time < start + window[1]
    PROVE  LET kept == Kept(p)
               T == Stretch(start, window[1])
           IN  /\ kept \in [Ticks -> Nat]
               /\ \A t \in T : kept[t] = history[p][t]
               /\ Total(kept, Since(Minute)) < PerMinute /\ Total(kept, Ticks) < PerHour
                    => Total(kept, T) < window[2]
<1> DEFINE length == window[1]  kept == Kept(p)  T == Stretch(start, length)
<1>1. /\ length \in Nat \ {0} /\ length <= Hour /\ Hour \in Nat /\ Minute \in Nat
      /\ time \in Nat /\ start \in Nat /\ Ticks \subseteq Nat /\ IsFiniteSet(Ticks)
      /\ history[p] \in [Ticks -> Nat] /\ NothingAhead
      /\ PerMinute \in Nat /\ PerHour \in Nat
  BY LimitFacts, LimitsTyped DEF AdmissionInv
<1>2. kept \in [Ticks -> Nat]
  BY <1>1 DEF Kept
<1>3. T \in SUBSET Ticks /\ IsFiniteSet(T) /\ Total(kept, T) \in Nat
  BY <1>1, <1>2, TicksOf
<1>4. \A t \in T : t \in Nat /\ t >= start /\ t \in Ticks
  BY <1>1 DEF Stretch
<1>5. \A t \in T : t <= time => time - t < length
  <2> TAKE t \in T
  <2>1. t \in Nat /\ t >= start
    BY <1>4
  <2> QED
    BY <1>1, <2>1
<1>6. \A t \in T : kept[t] = history[p][t]
  <2> TAKE t \in T
  <2>1. CASE t <= time
    <3>1. time - t < Hour
      BY <1>1, <1>4, <1>5, <2>1
    <3> QED
      BY <1>4, <2>1, <3>1 DEF Kept, Since
  <2>2. CASE ~(t <= time)
    <3>1. t > time /\ t \in Ticks
      BY <1>1, <1>4, <2>2
    <3>2. history[p][t] = 0
      BY <1>1, <3>1 DEF NothingAhead
    <3> QED
      BY <2>2, <3>1, <3>2 DEF Kept, Since
  <2> QED
    BY <2>1, <2>2
<1>7. ASSUME Total(kept, Since(Minute)) < PerMinute, Total(kept, Ticks) < PerHour
      PROVE  Total(kept, T) < window[2]
  <2>1. \A t \in Ticks : kept[t] \in Nat
    BY <1>2
  <2>2. CASE window = <<Hour, PerHour>>
    <3>1. Total(kept, T) <= Total(kept, Ticks)
      BY <1>1, <1>3, <2>1, TotalOfMore
    <3>2. Total(kept, Ticks) \in Nat
      BY <1>1, <2>1, TotalTyped
    <3>3. window[2] = PerHour
      BY <2>2
    <3> HIDE DEF kept, T
    <3> QED
      BY <1>1, <1>3, <1>7, <3>1, <3>2, <3>3
  <2>3. CASE window = <<Minute, PerMinute>>
    <3>1. Since(Minute) \in SUBSET Ticks /\ window[2] = PerMinute /\ length = Minute
      BY <2>3 DEF Since
    <3>2. \A t \in T \ Since(Minute) : kept[t] = 0
      <4> SUFFICES ASSUME NEW t \in T \ Since(Minute) PROVE kept[t] = 0
        OBVIOUS
      <4>1. ~(t <= time)
        BY <1>4, <1>5, <3>1 DEF Since
      <4> QED
        BY <1>4, <4>1 DEF Kept, Since
    <3>3. Total(kept, T) <= Total(kept, Since(Minute))
      BY <1>1, <1>3, <2>1, <3>1, <3>2, TotalWhereSome
    <3>4. Total(kept, Since(Minute)) \in Nat
      <4>1. IsFiniteSet(Since(Minute))
        BY <1>1, <3>1, FS_Subset
      <4> QED
        BY <2>1, <3>1, <4>1, TotalTyped
    <3> HIDE DEF kept, T
    <3> QED
      BY <1>1, <1>3, <1>7, <3>1, <3>3, <3>4
  <2> QED
    BY <2>2, <2>3, LimitFacts
<1> QED
  BY <1>2, <1>6, <1>7

\* A dispatch from memory takes of the room what it admits.
LEMMA MemoryDispatchKeeps ==
    ASSUME LimitsAssumption, AdmissionInv, NEW p \in Dispatchers, MemoryDispatch(p)
    PROVE  AdmissionInv'
<1> DEFINE kept == Kept(p)
           admits == Total(kept, Since(Minute)) < PerMinute /\ Total(kept, Ticks) < PerHour
<1>1. /\ time \in Ticks /\ time \in Nat /\ byMemory \in [Ticks -> Nat]
      /\ history \in [Dispatchers -> [Ticks -> Nat]] /\ history[p] \in [Ticks -> Nat]
      /\ kept \in [Ticks -> Nat] /\ Ticks \subseteq Nat /\ lifetimes \in Nat
      /\ arrived \in 0 .. MaxRequests /\ MaxRequests \in Nat /\ mode[p] = "memory"
  BY LimitFacts, LimitsTyped DEF AdmissionInv, LimitsTypeOK, MemoryDispatch, Kept
<1>2. /\ history' = [history EXCEPT ![p] = IF admits THEN [kept EXCEPT ![time] = @ + 1] ELSE kept]
      /\ byMemory' = IF admits THEN [byMemory EXCEPT ![time] = @ + 1] ELSE byMemory
      /\ arrived < MaxRequests /\ arrived' = arrived + 1
      /\ UNCHANGED <<time, mode, counts, byRedis, lifetimes, restarts>>
  BY DEF MemoryDispatch, Arrives
<1>3. kept[time] + 1 \in Nat /\ byMemory[time] + 1 \in Nat
  BY <1>1
<1>4. /\ byMemory' \in [Ticks -> Nat]
      /\ \A t \in Ticks : byMemory'[t] = byMemory[t] + (IF admits /\ t = time THEN 1 ELSE 0)
  BY <1>1, <1>2, <1>3
<1>5. /\ history' \in [Dispatchers -> [Ticks -> Nat]]
      /\ \A t \in Ticks : history'[p][t] = kept[t] + (IF admits /\ t = time THEN 1 ELSE 0)
      /\ \A q \in Dispatchers \ {p} : history'[q] = history[q]
  BY <1>1, <1>2, <1>3
<1>6. LimitsTypeOK'
  <2>1. arrived' \in 0 .. MaxRequests
    BY <1>1, <1>2
  <2> QED
    BY <1>2, <1>4, <1>5, <2>1 DEF AdmissionInv, LimitsTypeOK
<1>7. NothingAhead'
  <2> SUFFICES ASSUME NEW t \in Ticks, t > time
               PROVE  byRedis'[t] = 0 /\ \A q \in Dispatchers : history'[q][t] = 0
    BY <1>2 DEF NothingAhead
  <2>1. byRedis[t] = 0 /\ \A q \in Dispatchers : history[q][t] = 0
    BY DEF AdmissionInv, NothingAhead
  <2>2. t # time /\ t \in Nat
    BY <1>1
  <2>3. kept[t] = 0
    BY <2>1 DEF Kept
  <2>4. history'[p][t] = 0
    BY <1>1, <1>5, <2>2, <2>3
  <2> QED
    BY <1>2, <1>5, <2>1, <2>4
<1>8. \A window \in Limitations : ClockWindows(window[1], window[2])'
  BY <1>2 DEF AdmissionInv, ClockWindows, Stretch, Counted, Limitations
<1>9. ASSUME NEW window \in Limitations PROVE Lives(window[1], window[2])'
  <2> DEFINE length == window[1]  limit == window[2]
  <2>1. /\ length \in Nat \ {0} /\ limit \in Nat \ {0} /\ Lives(length, limit)
        /\ IsFiniteSet(Dispatchers)
    BY LimitFacts DEF AdmissionInv
  <2>2. ASSUME NEW start \in Ticks
        PROVE  (/\ Total(byMemory, Stretch(start, length)) <= lifetimes * limit
                /\ time < start + length =>
                     /\ \A q \in Dispatchers : Held(q, Stretch(start, length)) <= limit
                     /\ Total(byMemory, Stretch(start, length))
                          + Total(Room(Stretch(start, length), limit), Dispatchers)
                          <= lifetimes * limit)'
    <3> DEFINE T == Stretch(start, length)
               more == IF admits /\ time \in T THEN 1 ELSE 0
               room == Room(T, limit)
               budget == lifetimes * limit
    <3>1. /\ T \in SUBSET Ticks /\ IsFiniteSet(T) /\ Total(byMemory, T) \in Nat
          /\ \A t \in T : byMemory[t] \in Nat
          /\ \A q \in Dispatchers : Held(q, T) \in Nat /\ Held(q, T)' \in Nat
      <4>1. start \in Nat /\ length \in Nat
        BY <1>1, <2>1
      <4>2. T' = T
        BY DEF Stretch
      <4>3. \A q \in Dispatchers : history[q] \in [Ticks -> Nat] /\ history'[q] \in [Ticks -> Nat]
        BY <1>1, <1>5
      <4> QED
        BY <1>1, <4>1, <4>2, <4>3, TicksOf DEF Held
    <3>2. budget \in Nat /\ Total(byMemory, T) <= budget
      BY <1>1, <2>1 DEF Lives
    <3>3. T' = T /\ time \in T => time < start + length
      BY DEF Stretch
    <3> HIDE DEF T, room, more
    <3>4. Total(byMemory', T) = Total(byMemory, T) + more
      <4>1. PICK now \in Ticks : now = time
        BY <1>1
      <4>2. CASE admits
        <5>1. \A t \in T : byMemory'[t] = byMemory[t] + (IF t = now THEN 1 ELSE 0)
          BY <1>4, <3>1, <4>1, <4>2
        <5>2. Total(byMemory', T) = Total(byMemory, T) + (IF now \in T THEN 1 ELSE 0)
          BY <3>1, <5>1, TotalPlusOne
        <5> QED
          BY <4>1, <4>2, <5>2 DEF more
      <4>3. CASE ~admits
        BY <1>2, <3>1, <4>3 DEF more
      <4> QED
        BY <4>2, <4>3
    <3>5. CASE ~(time < start + length)
      <4>1. more = 0
        BY <1>1, <2>1, <3>3, <3>5 DEF more, T, Stretch
      <4>2. Total(byMemory', T) <= budget
        BY <3>1, <3>2, <3>4, <4>1
      <4> QED
        BY <1>2, <3>3, <3>5, <4>2 DEF T, Stretch
    <3>6. CASE time < start + length
      <4>1. /\ \A q \in Dispatchers : Held(q, T) <= limit
            /\ Total(byMemory, T) + Total(room, Dispatchers) <= budget
        BY <2>1, <3>6 DEF Lives, T, room
      <4>2. /\ \A t \in T : kept[t] = history[p][t] /\ kept[t] \in Nat
            /\ admits => Total(kept, T) < limit
        BY <1>1, <3>1, <3>6, KeptFacts DEF T
      <4>3. Held(p, T) = Total(kept, T)
        <5>1. Total(kept, T) = Total(history[p], T)
          BY <3>1, <4>2, TotalSame
        <5> QED
          BY <5>1 DEF Held
      <4>4. Held(p, T)' = Held(p, T) + more
        <5>1. PICK now \in Ticks : now = time
          BY <1>1
        <5>2. CASE admits
          <6>1. \A t \in T : kept[t] \in Nat /\ history'[p][t] = kept[t] + (IF t = now THEN 1 ELSE 0)
            BY <1>5, <3>1, <4>2, <5>1, <5>2
          <6>2. PICK new : new = history'[p]
            OBVIOUS
          <6>3. \A t \in T : kept[t] \in Nat /\ new[t] = kept[t] + (IF t = now THEN 1 ELSE 0)
            BY <6>1, <6>2
          <6> HIDE DEF kept, T
          <6>4. Total(new, T) = Total(kept, T) + (IF now \in T THEN 1 ELSE 0)
            BY <3>1, <6>3, TotalPlusOne
          <6> QED
            BY <3>3, <4>3, <5>1, <5>2, <6>2, <6>4 DEF more, Held, T
        <5>3. CASE ~admits
          <6>1. \A t \in T : kept[t] \in Nat /\ history'[p][t] = kept[t]
            BY <1>2, <1>1, <3>1, <4>2, <5>3
          <6>2. Total(kept, T) = Total(history'[p], T)
            BY <3>1, <6>1, TotalSame
          <6> QED
            BY <3>1, <3>3, <4>3, <5>3, <6>2 DEF more, Held
        <5> QED
          BY <5>2, <5>3
      <4>5. \A q \in Dispatchers \ {p} : Held(q, T)' = Held(q, T)
        BY <1>5, <3>3 DEF Held
      <4>6. /\ more \in {0, 1}
            /\ more = 1 => Held(p, T) < limit
        BY <4>2, <4>3 DEF more
      <4>7. \A q \in Dispatchers : Held(q, T)' <= limit
        <5> TAKE q \in Dispatchers
        <5>1. CASE q = p
          BY <2>1, <3>1, <4>1, <4>4, <4>6, <5>1
        <5>2. CASE q # p
          BY <4>1, <4>5, <5>2
        <5> QED
          BY <5>1, <5>2
      <4>8. /\ \A q \in Dispatchers : room[q] = IF mode[q] = "memory" THEN limit - Held(q, T) ELSE 0
            /\ \A q \in Dispatchers :
                 room'[q] = IF mode[q] = "memory" THEN limit - Held(q, T)' ELSE 0
        BY <1>2, <3>3 DEF room, Room
      <4>9. /\ \A q \in Dispatchers : room[q] \in Nat /\ room'[q] \in Nat
            /\ Total(room, Dispatchers) \in Nat /\ Total(room', Dispatchers) \in Nat
        <5>1. \A q \in Dispatchers : room[q] \in Nat
          <6> TAKE q \in Dispatchers
          <6>1. Held(q, T) \in Nat /\ Held(q, T) <= limit
            BY <3>1, <4>1
          <6>2. room[q] = limit - Held(q, T) \/ room[q] = 0
            BY <4>8
          <6> QED
            BY <2>1, <6>1, <6>2
        <5>2. \A q \in Dispatchers : room'[q] \in Nat
          <6> TAKE q \in Dispatchers
          <6>1. Held(q, T)' \in Nat /\ Held(q, T)' <= limit
            BY <3>1, <4>7
          <6>2. room'[q] = limit - Held(q, T)' \/ room'[q] = 0
            BY <4>8
          <6> QED
            BY <2>1, <6>1, <6>2
        <5> QED
          BY <2>1, <5>1, <5>2, TotalTyped
      <4>10. \A q \in Dispatchers : q # p => room'[q] = room[q]
        BY <4>5, <4>8
      <4>11. room'[p] = room[p] - more
        <5>1. room[p] = limit - Held(p, T) /\ room'[p] = limit - Held(p, T)'
          BY <1>1, <4>8
        <5> QED
          BY <2>1, <3>1, <4>4, <4>6, <5>1
      <4>12. Total(room', Dispatchers) + room[p] = Total(room, Dispatchers) + room'[p]
        BY <2>1, <4>9, <4>10, TotalChanges
      <4>13. Total(byMemory', T) + Total(room', Dispatchers) <= budget
        BY <3>1, <3>2, <3>4, <4>1, <4>6, <4>9, <4>11, <4>12
      <4>14. Total(byMemory', T) <= budget
        <5>1. Total(byMemory', T) \in Nat
          BY <3>1, <3>4, <4>6
        <5> QED
          BY <3>2, <4>9, <4>13, <5>1
      <4> QED
        BY <1>2, <3>3, <3>6, <4>7, <4>13, <4>14 DEF T, room
    <3> QED
      BY <3>5, <3>6
  <2>3. Lives(length, limit)'
    BY <2>2 DEF Lives
  <2> QED
    BY <2>3
<1> QED
  BY <1>6, <1>7, <1>8, <1>9 DEF AdmissionInv, Limitations

\* A process forgets what it admitted: its next life has the limit once more.
LEMMA LimiterRestartsKeeps ==
    ASSUME LimitsAssumption, AdmissionInv, NEW p \in Dispatchers, NEW m \in Modes,
           LimiterRestarts(p, m)
    PROVE  AdmissionInv'
<1> DEFINE born == IF m = "memory" THEN 1 ELSE 0
<1>1. /\ None \in [Ticks -> Nat] /\ \A t \in Ticks : None[t] = 0
      /\ history \in [Dispatchers -> [Ticks -> Nat]] /\ mode \in [Dispatchers -> Modes]
      /\ byMemory \in [Ticks -> Nat] /\ lifetimes \in Nat
      /\ restarts \in 0 .. MaxRestarts /\ MaxRestarts \in Nat
  BY LimitFacts, LimitsTyped DEF AdmissionInv, LimitsTypeOK, None
<1>2. /\ mode' = [mode EXCEPT ![p] = m] /\ history' = [history EXCEPT ![p] = None]
      /\ lifetimes' = lifetimes + born /\ born \in {0, 1}
      /\ restarts < MaxRestarts /\ restarts' = restarts + 1
      /\ UNCHANGED <<time, counts, byRedis, byMemory, arrived>>
  BY DEF LimiterRestarts
<1>3. /\ history' \in [Dispatchers -> [Ticks -> Nat]] /\ history'[p] = None
      /\ \A q \in Dispatchers \ {p} : history'[q] = history[q] /\ mode'[q] = mode[q]
      /\ mode' \in [Dispatchers -> Modes] /\ mode'[p] = m
      /\ lifetimes' \in Nat /\ restarts' \in 0 .. MaxRestarts
  BY <1>1, <1>2
<1>4. LimitsTypeOK'
  BY <1>2, <1>3 DEF AdmissionInv, LimitsTypeOK
<1>5. NothingAhead'
  <2>1. \A q \in Dispatchers, t \in Ticks : history'[q][t] = 0 \/ history'[q][t] = history[q][t]
    BY <1>1, <1>3
  <2> QED
    BY <1>2, <2>1 DEF AdmissionInv, NothingAhead
<1>6. \A window \in Limitations : ClockWindows(window[1], window[2])'
  BY <1>2 DEF AdmissionInv, ClockWindows, Stretch, Counted, Limitations
<1>7. ASSUME NEW window \in Limitations PROVE Lives(window[1], window[2])'
  <2> DEFINE length == window[1]  limit == window[2]
  <2>1. /\ length \in Nat \ {0} /\ limit \in Nat \ {0} /\ Lives(length, limit)
        /\ IsFiniteSet(Dispatchers) /\ Ticks \subseteq Nat
    BY LimitFacts DEF AdmissionInv
  <2> HIDE DEF length, limit
  <2>2. ASSUME NEW start \in Ticks
        PROVE  (/\ Total(byMemory, Stretch(start, length)) <= lifetimes * limit
                /\ time < start + length =>
                     /\ \A q \in Dispatchers : Held(q, Stretch(start, length)) <= limit
                     /\ Total(byMemory, Stretch(start, length))
                          + Total(Room(Stretch(start, length), limit), Dispatchers)
                          <= lifetimes * limit)'
    <3> DEFINE T == Stretch(start, length)
               room == Room(T, limit)
               budget == lifetimes * limit
               more == lifetimes' * limit
    <3>1. /\ T \in SUBSET Ticks /\ IsFiniteSet(T) /\ Total(byMemory, T) \in Nat
          /\ \A q \in Dispatchers : Held(q, T) \in Nat
      <4>1. start \in Nat /\ length \in Nat
        BY <2>1
      <4>2. \A q \in Dispatchers : history[q] \in [Ticks -> Nat]
        BY <1>1
      <4> QED
        BY <1>1, <4>1, <4>2, TicksOf DEF Held
    <3>2. /\ budget \in Nat /\ Total(byMemory, T) <= budget
          /\ more = budget + (IF m = "memory" THEN limit ELSE 0)
      <4>1. CASE m = "memory"
        <5>1. lifetimes' = lifetimes + 1
          BY <1>2, <4>1
        <5>2. (lifetimes + 1) * limit = lifetimes * limit + limit
          BY <1>1, <2>1
        <5> QED
          BY <1>1, <2>1, <4>1, <5>1, <5>2 DEF Lives
      <4>2. CASE m # "memory"
        BY <1>1, <1>2, <2>1, <4>2 DEF Lives
      <4> QED
        BY <4>1, <4>2
    <3>3. T' = T
      BY DEF Stretch
    <3> HIDE DEF T, room, budget
    <3>4. Total(byMemory, T) <= more
      <4> HIDE DEF more
      <4> QED
        BY <2>1, <3>1, <3>2
    <3>5. CASE ~(time < start + length)
      BY <1>2, <3>3, <3>4, <3>5 DEF T, Stretch
    <3>6. CASE time < start + length
      <4>1. /\ \A q \in Dispatchers : Held(q, T) <= limit
            /\ Total(byMemory, T) + Total(room, Dispatchers) <= budget
        BY <2>1, <3>6 DEF Lives, T, room, budget
      <4>2. Held(p, T)' = 0
        <5>1. \A t \in T : None[t] = 0
          BY <1>1, <3>1
        <5>2. Total(None, T) = 0
          BY <3>1, <5>1, TotalZero
        <5> QED
          BY <1>3, <3>3, <5>2 DEF Held
      <4>3. \A q \in Dispatchers \ {p} : Held(q, T)' = Held(q, T)
        BY <1>3, <3>3 DEF Held
      <4>4. \A q \in Dispatchers : Held(q, T)' <= limit /\ Held(q, T)' \in Nat
        <5> TAKE q \in Dispatchers
        <5>1. CASE q = p
          BY <2>1, <4>2, <5>1
        <5>2. CASE q # p
          BY <3>1, <4>1, <4>3, <5>2
        <5> QED
          BY <5>1, <5>2
      <4>5. /\ \A q \in Dispatchers : room[q] = IF mode[q] = "memory" THEN limit - Held(q, T) ELSE 0
            /\ \A q \in Dispatchers :
                 room'[q] = IF mode'[q] = "memory" THEN limit - Held(q, T)' ELSE 0
        BY <3>3 DEF room, Room
      <4>6. /\ \A q \in Dispatchers : room[q] \in Nat /\ room'[q] \in Nat
            /\ Total(room, Dispatchers) \in Nat /\ Total(room', Dispatchers) \in Nat
        <5>1. \A q \in Dispatchers : room[q] \in Nat
          <6> TAKE q \in Dispatchers
          <6>1. Held(q, T) \in Nat /\ Held(q, T) <= limit
            BY <3>1, <4>1
          <6>2. room[q] = limit - Held(q, T) \/ room[q] = 0
            BY <4>5
          <6> QED
            BY <2>1, <6>1, <6>2
        <5>2. \A q \in Dispatchers : room'[q] \in Nat
          <6> TAKE q \in Dispatchers
          <6>1. Held(q, T)' \in Nat /\ Held(q, T)' <= limit
            BY <4>4
          <6>2. room'[q] = limit - Held(q, T)' \/ room'[q] = 0
            BY <4>5
          <6> QED
            BY <2>1, <6>1, <6>2
        <5> QED
          BY <2>1, <5>1, <5>2, TotalTyped
      <4>7. \A q \in Dispatchers : q # p => room'[q] = room[q]
        BY <1>3, <4>3, <4>5
      <4>8. room'[p] = IF m = "memory" THEN limit ELSE 0
        BY <1>3, <2>1, <4>2, <4>5
      <4>9. Total(room', Dispatchers) + room[p] = Total(room, Dispatchers) + room'[p]
        BY <2>1, <4>6, <4>7, TotalChanges
      <4>10. Total(byMemory, T) + Total(room', Dispatchers) <= more
        <5> HIDE DEF more
        <5>1. room[p] \in Nat
          BY <4>6
        <5> QED
          BY <2>1, <3>1, <3>2, <4>1, <4>6, <4>8, <4>9, <5>1
      <4> QED
        BY <1>2, <3>3, <3>4, <3>6, <4>4, <4>10 DEF T, room
    <3> QED
      BY <3>5, <3>6
  <2>3. Lives(length, limit)'
    BY <2>2 DEF Lives
  <2> QED
    BY <2>3 DEF length, limit
<1> QED
  BY <1>4, <1>5, <1>6, <1>7 DEF AdmissionInv, Limitations

\* A clock window begins with nothing counted and nothing admitted.
LEMMA TickOnKeeps ==
    ASSUME LimitsAssumption, AdmissionInv, TickOn
    PROVE  AdmissionInv'
<1>1. /\ time \in Ticks /\ time \in Nat /\ Ticks \subseteq Nat /\ time < LastTick
      /\ time' = time + 1 /\ time' \in Ticks /\ time' \in Nat /\ LastTick \in Nat
      /\ counts.minute \in Nat /\ counts.hour \in Nat
      /\ counts' = [minute |-> IF time' % Minute = 0 THEN 0 ELSE counts.minute,
                    hour |-> IF time' % Hour = 0 THEN 0 ELSE counts.hour]
      /\ arrived' = 0 /\ MaxRequests \in Nat /\ byRedis \in [Ticks -> Nat]
      /\ UNCHANGED <<mode, history, byRedis, byMemory, lifetimes, restarts>>
  <2>1. /\ time \in Ticks /\ counts.minute \in Nat /\ counts.hour \in Nat
        /\ byRedis \in [Ticks -> Nat] /\ MaxRequests \in Nat /\ LastTick \in Nat
    BY LimitFacts, LimitsTyped DEF AdmissionInv
  <2>2. /\ time < LastTick /\ time' = time + 1 /\ arrived' = 0
        /\ counts' = [minute |-> IF time' % Minute = 0 THEN 0 ELSE counts.minute,
                      hour |-> IF time' % Hour = 0 THEN 0 ELSE counts.hour]
        /\ UNCHANGED <<mode, history, byRedis, byMemory, lifetimes, restarts>>
    BY DEF TickOn
  <2>3. time \in Nat /\ Ticks \subseteq Nat /\ time' \in Ticks /\ time' \in Nat
    BY <2>1, <2>2 DEF Ticks
  <2> QED
    BY <2>1, <2>2, <2>3
<1>2. LimitsTypeOK'
  BY <1>1 DEF AdmissionInv, LimitsTypeOK
<1>3. NothingAhead'
  <2>1. \A t \in Ticks : t > time' => t > time
    BY <1>1
  <2> QED
    BY <1>1, <2>1 DEF AdmissionInv, NothingAhead
<1>4. ASSUME NEW window \in Limitations PROVE ClockWindows(window[1], window[2])'
  <2> DEFINE length == window[1]  limit == window[2]
  <2>1. /\ length \in Nat \ {0} /\ limit \in Nat \ {0} /\ ClockWindows(length, limit)
    BY LimitFacts DEF AdmissionInv
  <2>2. Counted(length)' = IF time' % length = 0 THEN 0 ELSE Counted(length)
    <3>1. CASE window = <<Minute, PerMinute>>
      BY <1>1, <3>1 DEF Counted
    <3>2. CASE window = <<Hour, PerHour>>
      BY <1>1, <3>2, LimitFacts DEF Counted
    <3> QED
      BY <3>1, <3>2, LimitFacts
  <2> HIDE DEF length, limit
  <2>3. ASSUME NEW b \in Nat, b % length = 0
        PROVE  /\ Total(byRedis', Stretch(b, length)) <= limit
               /\ b <= time' /\ time' < b + length =>
                    Total(byRedis', Stretch(b, length)) <= Counted(length)'
    <3>1. /\ Total(byRedis, Stretch(b, length)) <= limit
          /\ b <= time /\ time < b + length => Total(byRedis, Stretch(b, length)) <= Counted(length)
      BY <2>1, <2>3 DEF ClockWindows
    <3>2. ASSUME b <= time', time' < b + length
          PROVE  Total(byRedis, Stretch(b, length)) <= Counted(length)'
      <4>1. CASE time' % length = 0
        <5>1. PICK n \in Nat : n = time'
          BY <1>1
        <5>2. n = b
          BY <2>1, <2>3, <3>2, <4>1, <5>1, MultiplesApart
        <5>3. \A t \in Stretch(b, length) : t \in Ticks /\ t > time
          BY <1>1, <5>1, <5>2 DEF Stretch
        <5>4. \A t \in Stretch(b, length) : byRedis[t] = 0
          BY <5>3 DEF AdmissionInv, NothingAhead
        <5>5. IsFiniteSet(Stretch(b, length))
          BY <1>1, <2>1, TicksOf
        <5>6. Total(byRedis, Stretch(b, length)) = 0
          BY <5>4, <5>5, TotalZero
        <5> QED
          BY <2>2, <4>1, <5>6
      <4>2. CASE time' % length # 0
        <5>1. b <= time /\ time < b + length
          BY <1>1, <2>1, <2>3, <3>2, <4>2
        <5> QED
          BY <2>2, <3>1, <4>2, <5>1
      <4> QED
        BY <4>1, <4>2
    <3> QED
      BY <1>1, <3>1, <3>2
  <2>4. ClockWindows(length, limit)'
    BY <2>3 DEF ClockWindows, Stretch
  <2> QED
    BY <2>4 DEF length, limit
<1>5. ASSUME NEW window \in Limitations PROVE Lives(window[1], window[2])'
  <2>1. time' >= time
    BY <1>1
  <2> QED
    BY <1>1, <2>1, MemoryStays
<1> QED
  BY <1>2, <1>3, <1>4, <1>5 DEF AdmissionInv, Limitations

\* At first nothing is admitted and nothing counted.
LEMMA AdmissionStarts ==
    ASSUME LimitsAssumption, LimitsInit
    PROVE  AdmissionInv
<1>1. /\ IsFiniteSet(Dispatchers) /\ IsFiniteSet(Ticks) /\ Ticks \subseteq Nat /\ 0 \in Ticks
      /\ None \in [Ticks -> Nat] /\ (\A t \in Ticks : None[t] = 0)
      /\ byRedis = None /\ byMemory = None /\ history = [p \in Dispatchers |-> None]
      /\ mode \in [Dispatchers -> Modes] /\ time = 0
  BY LimitFacts DEF LimitsInit, None
<1>2. /\ lifetimes \in Nat
      /\ lifetimes = Cardinality({p \in Dispatchers : mode[p] = "memory"})
  <2>1. IsFiniteSet({p \in Dispatchers : mode[p] = "memory"})
    BY <1>1, FS_Subset
  <2> QED
    BY <2>1, FS_CardinalityType DEF LimitsInit
<1>3. LimitsTypeOK /\ NothingAhead
  BY <1>1, <1>2, LimitFacts DEF LimitsInit, LimitsTypeOK, NothingAhead
<1>4. ASSUME NEW start \in Nat, NEW length \in Nat
      PROVE  /\ Total(byRedis, Stretch(start, length)) = 0
             /\ Total(byMemory, Stretch(start, length)) = 0
             /\ \A p \in Dispatchers : Held(p, Stretch(start, length)) = 0
  <2>1. IsFiniteSet(Stretch(start, length)) /\ \A t \in Stretch(start, length) : None[t] = 0
    BY <1>1, TicksOf DEF Stretch
  <2>2. Total(None, Stretch(start, length)) = 0
    BY <2>1, TotalZero
  <2> QED
    BY <1>1, <2>2 DEF Held
<1>5. ASSUME NEW window \in Limitations
      PROVE  ClockWindows(window[1], window[2]) /\ Lives(window[1], window[2])
  <2> DEFINE length == window[1]  limit == window[2]
  <2>1. length \in Nat \ {0} /\ limit \in Nat \ {0} /\ Counted(length) = 0
    BY LimitFacts DEF LimitsInit, Counted
  <2> HIDE DEF length, limit
  <2>2. ClockWindows(length, limit)
    <3>1. \A b \in Nat : Total(byRedis, Stretch(b, length)) = 0
      BY <1>4, <2>1
    <3> QED
      BY <2>1, <3>1 DEF ClockWindows
  <2>3. ASSUME NEW start \in Ticks
        PROVE  /\ Total(byMemory, Stretch(start, length)) <= lifetimes * limit
               /\ \A p \in Dispatchers : Held(p, Stretch(start, length)) <= limit
               /\ Total(byMemory, Stretch(start, length))
                    + Total(Room(Stretch(start, length), limit), Dispatchers) <= lifetimes * limit
    <3> DEFINE T == Stretch(start, length)
               M == {p \in Dispatchers : mode[p] = "memory"}
    <3>1. Total(byMemory, T) = 0 /\ \A p \in Dispatchers : Held(p, T) = 0
      BY <1>1, <1>4, <2>1
    <3> HIDE DEF T
    <3>2. \A p \in Dispatchers : Room(T, limit)[p] = IF p \in M THEN limit ELSE 0
      BY <2>1, <3>1 DEF Room
    <3>3. Total(Room(T, limit), Dispatchers) = Cardinality(M) * limit
      <4>1. M \in SUBSET Dispatchers /\ limit \in Nat
        BY <2>1
      <4> HIDE DEF M
      <4> QED
        BY <1>1, <3>2, <4>1, TotalOfSome
    <3>4. lifetimes * limit \in Nat /\ Cardinality(M) * limit = lifetimes * limit
      BY <1>2, <2>1
    <3> QED
      BY <2>1, <3>1, <3>3, <3>4 DEF T
  <2>4. Lives(length, limit)
    BY <2>3 DEF Lives
  <2> QED
    BY <2>2, <2>4 DEF length, limit
<1> QED
  BY <1>3, <1>5 DEF AdmissionInv

\* Two clock windows cover any stretch as long as one.
LEMMA RedisAdmits ==
    ASSUME LimitsAssumption, AdmissionInv, NEW window \in Limitations, NEW start \in Ticks
    PROVE  Total(byRedis, Stretch(start, window[1])) <= 2 * window[2]
<1> DEFINE length == window[1]  limit == window[2]
<1>1. /\ length \in Nat \ {0} /\ limit \in Nat /\ ClockWindows(length, limit)
      /\ start \in Nat /\ byRedis \in [Ticks -> Nat] /\ IsFiniteSet(Ticks) /\ Ticks \subseteq Nat
  BY LimitFacts, LimitsTyped DEF AdmissionInv
<1> HIDE DEF length, limit
<1>2. PICK b \in Nat : b % length = 0 /\ (b + length) % length = 0 /\ b <= start /\ start < b + length
  BY <1>1, MultipleBefore
<1> DEFINE T == Stretch(start, length)  U == Stretch(b, length)  V == Stretch(b + length, length)
<1>3. /\ T \in SUBSET Ticks /\ U \in SUBSET Ticks /\ V \in SUBSET Ticks
      /\ Total(byRedis, T) \in Nat /\ Total(byRedis, U) \in Nat /\ Total(byRedis, V) \in Nat
  <2>1. b + length \in Nat /\ length \in Nat
    BY <1>1
  <2> QED
    BY <1>1, <2>1, TicksOf
<1>4. Total(byRedis, U) <= limit /\ Total(byRedis, V) <= limit
  <2>1. b + length \in Nat
    BY <1>1
  <2> QED
    BY <1>1, <1>2, <2>1 DEF ClockWindows
<1>5. T \subseteq U \cup V
  <2> SUFFICES ASSUME NEW t \in Ticks, t >= start, t < start + length
               PROVE  \/ t >= b /\ t < b + length
                      \/ t >= b + length /\ t < (b + length) + length
    BY DEF Stretch
  <2>1. t \in Nat
    BY <1>1
  <2> QED
    BY <1>1, <1>2, <2>1
<1> HIDE DEF T, U, V
<1>6. /\ Total(byRedis, T) <= Total(byRedis, U \cup V)
      /\ Total(byRedis, U \cup V) <= Total(byRedis, U) + Total(byRedis, V)
      /\ Total(byRedis, U \cup V) \in Nat
  <2>1. /\ \A t \in Ticks : byRedis[t] \in Nat
        /\ \A t \in U \cup V : byRedis[t] \in Nat
        /\ IsFiniteSet(U \cup V) /\ T \in SUBSET (U \cup V)
    BY <1>1, <1>3, <1>5, FS_Subset
  <2>2. Total(byRedis, T) <= Total(byRedis, U \cup V)
    BY <2>1, TotalOfMore
  <2>3. Total(byRedis, U \cup V) <= Total(byRedis, U) + Total(byRedis, V)
    BY <1>1, <1>3, <2>1, TotalOfUnion
  <2> QED
    BY <2>1, <2>2, <2>3, TotalTyped
<1>7. Total(byRedis, T) <= 2 * limit
  BY <1>1, <1>3, <1>4, <1>6
<1> QED
  BY <1>7 DEF T, length, limit

\* In any stretch as long as a minute or an hour, the processes that count in Redis
\* let through twice the limit at most together, and the others the limit for every
\* life of each, for any number of processes, limits and lengths.
THEOREM AdmissionsAreBounded ==
    ASSUME LimitsAssumption PROVE LimitsSpec => [](LimitsTypeOK /\ AdmissionsBounded)
<1>1. LimitsInit => AdmissionInv
  BY AdmissionStarts
<1>2. AdmissionInv /\ [LimitsNext]_limitVars => AdmissionInv'
  <2> SUFFICES ASSUME AdmissionInv, [LimitsNext]_limitVars PROVE AdmissionInv'
    OBVIOUS
  <2>1. CASE UNCHANGED limitVars
    <3>1. UNCHANGED <<time, mode, counts, history, byRedis, byMemory, lifetimes, arrived, restarts>>
      BY <2>1 DEF limitVars
    <3>2. LimitsTypeOK' /\ NothingAhead'
      BY <3>1 DEF AdmissionInv, LimitsTypeOK, NothingAhead
    <3>3. ASSUME NEW window \in Limitations
          PROVE  ClockWindows(window[1], window[2])' /\ Lives(window[1], window[2])'
      <4>1. time' >= time /\ time' \in Nat
        BY <3>1, LimitsTyped DEF AdmissionInv
      <4>2. Lives(window[1], window[2])'
        BY <3>1, <4>1, MemoryStays
      <4>3. ClockWindows(window[1], window[2])'
        BY <3>1 DEF AdmissionInv, ClockWindows, Stretch, Counted
      <4> QED
        BY <4>2, <4>3
    <3> QED
      BY <3>2, <3>3 DEF AdmissionInv, Limitations
  <2>2. CASE LimitsNext
    BY <2>2, RedisDispatchKeeps, RedisLetsThroughKeeps, MemoryDispatchKeeps,
       LimiterRestartsKeeps, TickOnKeeps DEF LimitsNext
  <2> QED
    BY <2>1, <2>2
<1>3. AdmissionInv => LimitsTypeOK /\ AdmissionsBounded
  <2> SUFFICES ASSUME AdmissionInv PROVE AdmissionsBounded
    BY DEF AdmissionInv
  <2>1. ASSUME NEW window \in Limitations, NEW start \in Ticks
        PROVE  /\ Total(byRedis, Stretch(start, window[1])) <= 2 * window[2]
               /\ Total(byMemory, Stretch(start, window[1])) <= lifetimes * window[2]
    BY RedisAdmits DEF AdmissionInv, Lives
  <2> QED
    BY <2>1 DEF AdmissionsBounded, Stretches, Stretch, Limitations
<1> QED
  BY <1>1, <1>2, <1>3, PTL DEF LimitsSpec

-----------------------------------------------------------------------------
(* The gateway                                                             *)

Sliding == algorithm = "sliding_window_log"
Callers == Cardinality(Checkers) - 1
Extra == IF overRedis THEN Callers ELSE 0
In(start) == {t \in Stamps : start <= t /\ t < start + Window}
Had(start) == Total(admitted, In(start))
Past(now) == now <= clock
\* The stretches of time a bound is about.
Counts(start) == Sliding \/ start % Window = 0

GatewayTypeInv ==
    /\ GatewayLimitsTypeOK
    /\ algorithm \in {"sliding_window", "sliding_window_log", "quota"}
    /\ ~overRedis => logDue = 0 /\ \A w \in Windows : due[w] = 0
    /\ \A c \in Checkers :
         /\ ~overRedis => checking[c].step = "idle"
         /\ checking[c].step = "previous" => ~Sliding
         /\ checking[c].step = "timestamps" => Sliding
         /\ checking[c].now <= clock

\* The checks of a window that have read a count that lets them pass, and those
\* that may yet read how many there are; whether the storage still has all that
\* was admitted in the window.
Ready(start) ==
    {c \in Checkers : /\ checking[c].step \in {"previous", "decide"}
                      /\ checking[c].now \in In(start) /\ Below(checking[c].count)}
Waiting(start) ==
    {c \in Checkers : checking[c].step \in {"first", "timestamps"} /\ checking[c].now \in In(start)}
Intact(start) ==
    IF Sliding THEN \A t \in In(start) : log[t] = admitted[t]
               ELSE counters[WindowOf(start)] = Had(start)

Bounded(start) ==
    /\ Intact(start) => Had(start) + Cardinality(Ready(start)) <= Limit + Extra
    /\ ~Intact(start) =>
         Had(start) + Cardinality(Ready(start) \cup Waiting(start)) <= Limit + Surplus

\* Nothing is stored that was not admitted, and nothing goes while the window lasts.
Stored(start) ==
    /\ Sliding => /\ log[start] <= admitted[start]
                  /\ log[start] # 0 => start <= clock
                  /\ logDue # 0 /\ log[start] # 0 => start + Window < logDue
    /\ ~Sliding => /\ counters[WindowOf(start)] <= Had(start)
                   /\ due[WindowOf(start)] # 0 => start + Window <= due[WindowOf(start)]
    /\ clock < start + Window => Intact(start)

OvershootInv ==
    /\ GatewayTypeInv
    /\ \A start \in Stamps : Counts(start) => Stored(start) /\ Bounded(start)


\* What the assumptions say of stamps and of windows.
LEMMA StampFacts ==
    ASSUME GatewayLimitsAssumption
    PROVE  /\ IsFiniteSet(Stamps) /\ Stamps \subseteq Nat
           /\ \A start \in Stamps : In(start) \subseteq Stamps /\ IsFiniteSet(In(start))
           /\ Limit \in Nat \ {0} /\ Window \in Nat \ {0} /\ LastStamp \in Nat
           /\ Callers \in Nat /\ Cardinality(Checkers) = Callers + 1
<1>1. Limit \in Nat \ {0} /\ Window \in Nat \ {0} /\ LastStamp \in Nat
  BY DEF GatewayLimitsAssumption
<1>2. IsFiniteSet(Stamps) /\ Stamps \subseteq Nat
  BY <1>1, FS_Interval DEF Stamps
<1>3. \A start \in Stamps : In(start) \subseteq Stamps /\ IsFiniteSet(In(start))
  BY <1>2, FS_Subset DEF In
<1>4. Cardinality(Checkers) \in Nat /\ Cardinality(Checkers) # 0
  BY FS_CardinalityType, FS_EmptySet DEF GatewayLimitsAssumption
<1> QED
  BY <1>1, <1>2, <1>3, <1>4 DEF Callers

\* The stamps from a multiple of the window on, up to the next, are in one window.
LEMMA WindowFacts ==
    ASSUME GatewayLimitsAssumption
    PROVE  /\ Windows \subseteq Nat
           /\ \A t \in Stamps :
                /\ WindowOf(t) \in Windows /\ t % Window \in 0 .. Window - 1
                /\ WindowOf(t) # 0 => WindowOf(t) - 1 \in Windows
           /\ \A start \in Stamps : start % Window = 0 =>
                \A t \in Stamps : t \in In(start) <=> WindowOf(t) = WindowOf(start)
<1>1. Window \in Nat \ {0} /\ LastStamp \in Nat
  BY DEF GatewayLimitsAssumption
<1>2. ASSUME NEW t \in 0 .. LastStamp
      PROVE  /\ t \div Window \in Nat /\ t % Window \in 0 .. Window - 1
             /\ t = Window * (t \div Window) + (t % Window)
  <2>1. t \in Nat
    BY <1>1
  <2> QED
    BY <1>1, <2>1, Divided
<1>3. LastStamp \div Window \in Nat
  BY <1>1, Divided
<1>4. ASSUME NEW s \in 0 .. LastStamp, NEW t \in 0 .. LastStamp, s <= t
      PROVE  s \div Window <= t \div Window
  <2> DEFINE p == s \div Window  q == t \div Window
  <2>1. /\ p \in Nat /\ q \in Nat /\ s = Window * p + (s % Window)
        /\ t = Window * q + (t % Window) /\ s % Window \in 0 .. Window - 1
        /\ t % Window \in 0 .. Window - 1
    BY <1>2
  <2> HIDE DEF p, q
  <2>2. CASE q < p
    <3>1. Window * q + Window <= Window * p
      BY <1>1, <2>1, <2>2, Multiples
    <3>2. Window * q \in Nat /\ Window * p \in Nat
      BY <1>1, <2>1
    <3> QED
      BY <1>1, <1>4, <2>1, <3>1, <3>2
  <2>3. CASE p <= q
    BY <2>3 DEF p, q
  <2> QED
    BY <2>1, <2>2, <2>3
<1>5. ASSUME NEW s \in 0 .. LastStamp, NEW t \in 0 .. LastStamp,
             s <= t, t < s + Window, s % Window = 0
      PROVE  t \div Window = s \div Window
  <2> DEFINE p == s \div Window  q == t \div Window
  <2>1. /\ p \in Nat /\ q \in Nat /\ s = Window * p /\ t = Window * q + (t % Window)
        /\ t % Window \in 0 .. Window - 1 /\ p <= q
    <3>1. p \in Nat /\ s = Window * p + (s % Window) /\ Window * p \in Nat
      BY <1>1, <1>2
    <3>2. s = Window * p
      BY <1>5, <3>1
    <3> QED
      BY <1>2, <1>4, <1>5, <3>1, <3>2
  <2> HIDE DEF p, q
  <2>2. CASE p < q
    <3>1. Window * p + Window <= Window * q
      BY <1>1, <2>1, <2>2, Multiples
    <3>2. Window * q \in Nat /\ Window * p \in Nat
      BY <1>1, <2>1
    <3> QED
      BY <1>1, <1>5, <2>1, <3>1, <3>2
  <2>3. CASE p = q
    BY <2>3 DEF p, q
  <2> QED
    BY <2>1, <2>2, <2>3
<1>8. ASSUME NEW s \in 0 .. LastStamp, NEW t \in 0 .. LastStamp,
             s % Window = 0, t \div Window = s \div Window
      PROVE  s <= t /\ t < s + Window
  <2> DEFINE p == s \div Window  m == t % Window
  <2>1. p \in Nat /\ s = Window * p + (s % Window) /\ Window * p \in Nat
    BY <1>1, <1>2
  <2>2. s = Window * p
    BY <1>8, <2>1
  <2>3. t = Window * p + m /\ m \in 0 .. Window - 1
    BY <1>2, <1>8
  <2> HIDE DEF p, m
  <2> QED
    BY <1>1, <2>1, <2>2, <2>3
<1>6. Windows \subseteq Nat /\ LastStamp \in 0 .. LastStamp
  BY <1>1, <1>3 DEF Windows
<1>7. ASSUME NEW t \in Stamps
      PROVE  /\ WindowOf(t) \in Windows /\ t % Window \in 0 .. Window - 1
             /\ WindowOf(t) # 0 => WindowOf(t) - 1 \in Windows
  <2>1. t \in 0 .. LastStamp /\ t <= LastStamp
    BY <1>1 DEF Stamps
  <2>2. t \div Window \in Nat /\ t \div Window <= LastStamp \div Window
    BY <1>2, <1>4, <1>6, <2>1
  <2>3. t % Window \in 0 .. Window - 1
    BY <1>2, <2>1
  <2> DEFINE p == t \div Window  q == LastStamp \div Window
  <2>4. p \in Nat /\ q \in Nat /\ p <= q
    BY <1>3, <2>2
  <2> HIDE DEF p, q
  <2>5. p \in 0 .. q /\ (p # 0 => p - 1 \in 0 .. q)
    BY <2>4
  <2> QED
    BY <2>3, <2>5 DEF WindowOf, Windows, p, q
<1>9. ASSUME NEW start \in Stamps, start % Window = 0, NEW t \in Stamps
      PROVE  t \in In(start) <=> WindowOf(t) = WindowOf(start)
  BY <1>5, <1>8, <1>9 DEF WindowOf, Stamps, In
<1> QED
  BY <1>6, <1>7, <1>9

\* The estimate of the sliding window is never below what the window itself holds.
LEMMA EstimateFacts ==
    ASSUME GatewayLimitsAssumption, GatewayTypeInv, NEW now \in Stamps, NEW count \in Nat
    PROVE  Estimate(now, count) \in Nat /\ count <= Estimate(now, count)
<1>1. Window \in Nat \ {0} /\ Window - (now % Window) \in Nat
  <2>1. Window \in Nat \ {0} /\ now % Window \in 0 .. Window - 1
    BY StampFacts, WindowFacts
  <2> DEFINE m == now % Window
  <2> HIDE DEF m
  <2>2. Window \in Nat \ {0} /\ m \in 0 .. Window - 1
    BY <2>1 DEF m
  <2>3. Window - m \in Nat
    BY <2>2
  <2> QED
    BY <2>2, <2>3 DEF m
<1>2. Previous(now) \in Nat
  BY WindowFacts DEF Previous, GatewayTypeInv, GatewayLimitsTypeOK
<1> DEFINE x == Previous(now) * (Window - (now % Window))
           y == x + count * Window
<1>3. x \in Nat /\ count * Window \in Nat
  BY <1>1, <1>2
<1> HIDE DEF x
<1>4. y \in Nat /\ Window * count <= y /\ Window * count \in Nat
  BY <1>1, <1>3
<1> HIDE DEF y
<1> DEFINE q == y \div Window
<1>5. q \in Nat /\ y % Window \in 0 .. Window - 1 /\ y = Window * q + (y % Window)
  BY <1>1, <1>4, Divided
<1>6. Estimate(now, count) = q
  BY DEF Estimate, x, y
<1> HIDE DEF q
<1>7. CASE q < count
  <2>1. Window * q + Window <= Window * count /\ Window * q \in Nat
    BY <1>1, <1>5, <1>7, Multiples
  <2> QED
    BY <1>1, <1>4, <1>5, <2>1
<1>8. CASE count <= q
  BY <1>5, <1>6, <1>8
<1> QED
  BY <1>5, <1>7, <1>8

LEMMA InWindowTyped ==
    ASSUME GatewayLimitsAssumption, GatewayTypeInv, NEW now \in Stamps
    PROVE  /\ InWindow(now) \in [Stamps -> Nat]
           /\ Total(InWindow(now), Stamps) \in Nat /\ Total(log, Stamps) \in Nat
<1>1. log \in [Stamps -> Nat] /\ IsFiniteSet(Stamps)
  BY StampFacts DEF GatewayTypeInv, GatewayLimitsTypeOK
<1>2. InWindow(now) \in [Stamps -> Nat]
  BY <1>1 DEF InWindow
<1>3. (\A t \in Stamps : InWindow(now)[t] \in Nat) /\ \A t \in Stamps : log[t] \in Nat
  BY <1>1, <1>2
<1> QED
  BY <1>1, <1>2, <1>3, TotalTyped

\* What one check had allowed, once it is.
LEMMA HadAfter ==
    ASSUME GatewayLimitsAssumption, GatewayTypeInv, NEW start \in Stamps
    PROVE  /\ Had(start) \in Nat
           /\ admitted' = admitted => Had(start)' = Had(start)
           /\ \A now \in Stamps :
                Allow(now) => Had(start)' = Had(start) + (IF now \in In(start) THEN 1 ELSE 0)
<1>1. admitted \in [Stamps -> Nat] /\ In(start) \in SUBSET Stamps /\ IsFiniteSet(In(start))
  BY StampFacts DEF GatewayTypeInv, GatewayLimitsTypeOK
<1>2. Had(start) \in Nat
  <2>1. \A t \in In(start) : admitted[t] \in Nat
    BY <1>1
  <2> QED
    BY <1>1, <2>1, TotalTyped DEF Had
<1>3. ASSUME NEW now \in Stamps, Allow(now)
      PROVE  Had(start)' = Had(start) + (IF now \in In(start) THEN 1 ELSE 0)
  <2>1. admitted' = [admitted EXCEPT ![now] = @ + 1]
    BY <1>3 DEF Allow
  <2>2. \A t \in In(start) :
          admitted[t] \in Nat /\ admitted'[t] = admitted[t] + (IF t = now THEN 1 ELSE 0)
    BY <1>1, <2>1
  <2>4. Total(admitted', In(start)) = Total(admitted, In(start)) + (IF now \in In(start) THEN 1 ELSE 0)
    BY <1>1, <2>2, TotalPlusOne
  <2>3. In(start)' = In(start)
    BY DEF In
  <2> QED
    BY <2>3, <2>4 DEF Had
<1>4. In(start)' = In(start)
  BY DEF In
<1> QED
  BY <1>2, <1>3, <1>4 DEF Had

\* Types.
LEMMA Incremented ==
    ASSUME NEW D, NEW f \in [D -> Nat], NEW x \in D
    PROVE  [f EXCEPT ![x] = @ + 1] \in [D -> Nat]
OBVIOUS

LEMMA CheckTyped ==
    ASSUME GatewayTypeInv, NEW c \in Checkers
    PROVE  /\ checking[c].step \in {"idle", "first", "previous", "timestamps", "decide"}
           /\ checking[c].now \in Stamps /\ checking[c].count \in Nat
BY DEF GatewayTypeInv, GatewayLimitsTypeOK

LEMMA MemoryStepTyped ==
    ASSUME GatewayLimitsAssumption, GatewayTypeInv, CheckInMemory
    PROVE  GatewayTypeInv' /\ UNCHANGED <<due, logDue>>
<1>1. /\ clock \in Stamps /\ WindowOf(clock) \in Windows
      /\ counters \in [Windows -> Nat] /\ log \in [Stamps -> Nat] /\ admitted \in [Stamps -> Nat]
      /\ InWindow(clock) \in [Stamps -> Nat]
  BY WindowFacts, InWindowTyped DEF GatewayTypeInv, GatewayLimitsTypeOK
<1>2. /\ [counters EXCEPT ![WindowOf(clock)] = @ + 1] \in [Windows -> Nat]
      /\ [admitted EXCEPT ![clock] = @ + 1] \in [Stamps -> Nat]
      /\ [InWindow(clock) EXCEPT ![clock] = @ + 1] \in [Stamps -> Nat]
  BY <1>1, Incremented
<1>3. UNCHANGED <<algorithm, overRedis, clock, checking>> /\ ~overRedis
  BY DEF CheckInMemory, Unchanged
<1>4. /\ counters' \in [Windows -> Nat] /\ log' \in [Stamps -> Nat]
      /\ admitted' \in [Stamps -> Nat] /\ UNCHANGED <<due, logDue>>
  <2>1. CASE SlidingWindowLog(clock) /\ UNCHANGED <<counters, due, logDue>>
    BY <1>1, <1>2, <2>1 DEF SlidingWindowLog, Allow
  <2>2. CASE Increment(clock) /\ Allow(clock)
    BY <1>1, <1>2, <1>3, <2>2 DEF Increment, Allow
  <2>3. CASE UNCHANGED <<Storage, admitted>>
    BY <1>1, <2>3 DEF Storage
  <2> QED
    BY <2>1, <2>2, <2>3 DEF CheckInMemory, SlidingWindow, CheckQuota
<1> QED
  BY <1>3, <1>4 DEF GatewayTypeInv, GatewayLimitsTypeOK, Sliding

LEMMA CheckGoesTyped ==
    ASSUME GatewayTypeInv, NEW c \in Checkers, overRedis,
           NEW step, NEW now, NEW count,
           step \in {"first", "previous", "timestamps", "decide"},
           now \in Stamps, Past(now), count \in Nat,
           step = "previous" => ~Sliding, step = "timestamps" => Sliding,
           CheckGoes(c, step, now, count), log' \in [Stamps -> Nat], logDue' \in Nat,
           UNCHANGED <<counters, due, admitted>>
    PROVE  /\ GatewayTypeInv'
           /\ \A d \in Checkers : checking'[d] =
                IF d = c THEN [step |-> step, now |-> now, count |-> count] ELSE checking[d]
<1> DEFINE next == [step |-> step, now |-> now, count |-> count]
<1>1. checking' = [checking EXCEPT ![c] = next] /\ UNCHANGED <<algorithm, overRedis, clock>>
  BY DEF CheckGoes, Unchanged
<1>2. next \in [step : {"idle", "first", "previous", "timestamps", "decide"},
                now : Stamps, count : Nat]
  OBVIOUS
<1>3. next.step = step /\ next.now = now
  OBVIOUS
<1> HIDE DEF next
<1>4. /\ checking' \in [Checkers ->
           [step : {"idle", "first", "previous", "timestamps", "decide"}, now : Stamps, count : Nat]]
      /\ \A d \in Checkers : checking'[d] = IF d = c THEN next ELSE checking[d]
  BY <1>1, <1>2 DEF GatewayTypeInv, GatewayLimitsTypeOK
<1>5. GatewayLimitsTypeOK'
  BY <1>1, <1>4 DEF GatewayTypeInv, GatewayLimitsTypeOK
<1>6. GatewayTypeInv'
  BY <1>1, <1>3, <1>4, <1>5 DEF GatewayTypeInv, Sliding, Past
<1> QED
  BY <1>1, <1>4, <1>6 DEF next

-----------------------------------------------------------------------------
(* How the bound of one window is kept.                                    *)

\* How many checks there can be.
LEMMA ChecksOf ==
    ASSUME GatewayLimitsAssumption, GatewayTypeInv, NEW start \in Stamps
    PROVE  /\ Ready(start) \in SUBSET Checkers /\ Waiting(start) \in SUBSET Checkers
           /\ Limit \in Nat /\ Extra \in Nat /\ Surplus \in Nat /\ IsFiniteSet(Checkers)
           /\ overRedis => /\ Extra = Callers /\ Callers \in Nat
                           /\ Surplus = Extra + Callers + 1
                           /\ \A X \in SUBSET Checkers : Cardinality(X) <= Callers + 1
           /\ ~overRedis => /\ Extra = 0 /\ Surplus = 0
                            /\ Ready(start) = {} /\ Waiting(start) = {}
           /\ \A X \in SUBSET Checkers : \A Y \in SUBSET X :
                /\ Cardinality(X) \in Nat /\ Cardinality(Y) \in Nat
                /\ Cardinality(Y) <= Cardinality(X)
                /\ (\E c \in X : c \notin Y) => Cardinality(Y) + 1 <= Cardinality(X)
<1>1. /\ Ready(start) \in SUBSET Checkers /\ Waiting(start) \in SUBSET Checkers
      /\ Limit \in Nat /\ Callers \in Nat /\ Cardinality(Checkers) = Callers + 1
      /\ IsFiniteSet(Checkers) /\ overRedis \in BOOLEAN
  BY StampFacts DEF Ready, Waiting, GatewayLimitsAssumption, GatewayTypeInv, GatewayLimitsTypeOK
<1>2. \A X \in SUBSET Checkers : \A Y \in SUBSET X :
        /\ Cardinality(X) \in Nat /\ Cardinality(Y) \in Nat
        /\ Cardinality(Y) <= Cardinality(X)
        /\ (\E c \in X : c \notin Y) => Cardinality(Y) + 1 <= Cardinality(X)
  BY <1>1, Fewer
<1>3. \A X \in SUBSET Checkers : Cardinality(X) <= Callers + 1
  <2>1. Checkers \in SUBSET Checkers
    OBVIOUS
  <2> QED
    BY <1>1, <1>2, <2>1
<1>4. overRedis => Extra = Callers /\ Surplus = Extra + Callers + 1
  BY <1>1 DEF Extra, Surplus
<1>5. ~overRedis => /\ Extra = 0 /\ Surplus = 0 /\ Ready(start) = {} /\ Waiting(start) = {}
  BY DEF Extra, Surplus, Ready, Waiting, GatewayTypeInv
<1> QED
  BY <1>1, <1>2, <1>3, <1>4, <1>5

\* A step that admits nothing there: no check more is ready, and where what was
\* stored is gone, no check more may pass, or it goes just now and all may.
LEMMA BoundedQuiet ==
    ASSUME GatewayLimitsAssumption, GatewayTypeInv, NEW start \in Stamps, Bounded(start),
           UNCHANGED <<algorithm, overRedis>>, Had(start)' = Had(start),
           Ready(start)' \in SUBSET Ready(start), Waiting(start)' \in SUBSET Checkers,
           Intact(start)' => Intact(start),
           \/ Intact(start)'
           \/ Intact(start) /\ overRedis
           \/ ~Intact(start) /\ Waiting(start)' \subseteq Ready(start) \cup Waiting(start)
    PROVE  Bounded(start)'
<1> DEFINE ready == Ready(start)  waiting == Waiting(start)
           more == Ready(start)'  later == Waiting(start)'
           had == Had(start)
<1>1. /\ ready \in SUBSET Checkers /\ waiting \in SUBSET Checkers
      /\ more \in SUBSET ready /\ later \in SUBSET Checkers
      /\ Limit \in Nat /\ Extra \in Nat /\ Surplus \in Nat /\ had \in Nat
      /\ overRedis => /\ Extra = Callers /\ Callers \in Nat /\ Surplus = Extra + Callers + 1
                      /\ \A X \in SUBSET Checkers : Cardinality(X) <= Callers + 1
      /\ \A X \in SUBSET Checkers : \A Y \in SUBSET X :
           Cardinality(X) \in Nat /\ Cardinality(Y) \in Nat /\ Cardinality(Y) <= Cardinality(X)
  BY ChecksOf, HadAfter
<1>2. /\ Intact(start) => had + Cardinality(ready) <= Limit + Extra
      /\ ~Intact(start) => had + Cardinality(ready \cup waiting) <= Limit + Surplus
  BY DEF Bounded
<1>3. Extra' = Extra /\ Surplus' = Surplus
  BY DEF Extra, Surplus, Callers
<1> SUFFICES /\ Intact(start)' => had + Cardinality(more) <= Limit + Extra
             /\ ~Intact(start)' => had + Cardinality(more \cup later) <= Limit + Surplus
  BY <1>3 DEF Bounded
<1> HIDE DEF ready, waiting, more, later, had
<1>4. CASE Intact(start)'
  <2>1. /\ Cardinality(more) <= Cardinality(ready)
        /\ Cardinality(more) \in Nat /\ Cardinality(ready) \in Nat
    BY <1>1
  <2> QED
    BY <1>1, <1>2, <1>4, <2>1
<1>5. CASE ~Intact(start)' /\ Intact(start) /\ overRedis
  <2>1. more \cup later \in SUBSET Checkers /\ more \cup later \in SUBSET (more \cup later)
    BY <1>1
  <2>2. /\ Cardinality(more \cup later) <= Callers + 1 /\ Cardinality(more \cup later) \in Nat
        /\ Cardinality(ready) \in Nat
    BY <1>1, <1>5, <2>1
  <2> QED
    BY <1>1, <1>2, <1>5, <2>2
<1>6. CASE ~Intact(start)' /\ ~Intact(start) /\ later \subseteq ready \cup waiting
  <2>1. ready \cup waiting \in SUBSET Checkers /\ more \cup later \in SUBSET (ready \cup waiting)
    BY <1>1, <1>6
  <2>2. /\ Cardinality(more \cup later) <= Cardinality(ready \cup waiting)
        /\ Cardinality(more \cup later) \in Nat /\ Cardinality(ready \cup waiting) \in Nat
    BY <1>1, <2>1
  <2> QED
    BY <1>1, <1>2, <1>6, <2>2
<1> QED
  BY <1>4, <1>5, <1>6 DEF later, ready, waiting

\* A check that reads less than the limit while all is stored: any may pass now.
LEMMA BoundedRead ==
    ASSUME GatewayLimitsAssumption, GatewayTypeInv, NEW start \in Stamps, overRedis,
           UNCHANGED <<algorithm, overRedis>>, Had(start)' = Had(start), Had(start) < Limit,
           Ready(start)' \in SUBSET Checkers, Intact(start)'
    PROVE  Bounded(start)'
<1>1. /\ Limit \in Nat /\ Callers \in Nat /\ Had(start) \in Nat /\ Extra = Callers
      /\ Cardinality(Ready(start)') <= Callers + 1 /\ Cardinality(Ready(start)') \in Nat
  BY ChecksOf, HadAfter
<1>2. Extra' = Extra
  BY DEF Extra, Callers
<1> QED
  BY <1>1, <1>2 DEF Bounded

\* A ready check that is admitted is out no more.
LEMMA BoundedAdmits ==
    ASSUME GatewayLimitsAssumption, GatewayTypeInv, NEW start \in Stamps, Bounded(start),
           UNCHANGED <<algorithm, overRedis>>, Had(start)' = Had(start) + 1,
           NEW c \in Ready(start), c \notin Ready(start)', c \notin Waiting(start)',
           Ready(start)' \in SUBSET Ready(start), Waiting(start)' \in SUBSET Waiting(start),
           Intact(start)' <=> Intact(start)
    PROVE  Bounded(start)'
<1> DEFINE ready == Ready(start)  both == Ready(start) \cup Waiting(start)
           more == Ready(start)'  later == Ready(start)' \cup Waiting(start)'
           had == Had(start)
<1>1. /\ ready \in SUBSET Checkers /\ both \in SUBSET Checkers
      /\ more \in SUBSET ready /\ later \in SUBSET both
      /\ c \in ready /\ c \in both /\ c \notin more /\ c \notin later
      /\ Limit \in Nat /\ Extra \in Nat /\ Surplus \in Nat /\ had \in Nat
      /\ \A X \in SUBSET Checkers : \A Y \in SUBSET X :
           /\ Cardinality(X) \in Nat /\ Cardinality(Y) \in Nat
           /\ (\E d \in X : d \notin Y) => Cardinality(Y) + 1 <= Cardinality(X)
  BY ChecksOf, HadAfter
<1>2. /\ Intact(start) => had + Cardinality(ready) <= Limit + Extra
      /\ ~Intact(start) => had + Cardinality(both) <= Limit + Surplus
  BY DEF Bounded
<1>3. Extra' = Extra /\ Surplus' = Surplus
  BY DEF Extra, Surplus, Callers
<1> SUFFICES /\ Intact(start) => had + 1 + Cardinality(more) <= Limit + Extra
             /\ ~Intact(start) => had + 1 + Cardinality(later) <= Limit + Surplus
  BY <1>3 DEF Bounded
<1> HIDE DEF ready, both, more, later, had
<1>4. /\ Cardinality(more) + 1 <= Cardinality(ready) /\ Cardinality(later) + 1 <= Cardinality(both)
      /\ {Cardinality(more), Cardinality(ready), Cardinality(later), Cardinality(both)} \subseteq Nat
  BY <1>1
<1> QED
  BY <1>1, <1>2, <1>4

-----------------------------------------------------------------------------

\* A check in memory reads and writes in one step.
LEMMA CheckInMemoryKeeps ==
    ASSUME GatewayLimitsAssumption, OvershootInv, CheckInMemory
    PROVE  OvershootInv'
<1> DEFINE now == clock  kept == InWindow(clock)
<1>1. /\ GatewayTypeInv /\ GatewayTypeInv' /\ ~overRedis /\ ~overRedis'
      /\ UNCHANGED <<algorithm, overRedis, clock, checking, due, logDue>>
  BY MemoryStepTyped DEF OvershootInv, CheckInMemory, Unchanged
<1>2. /\ now \in Stamps /\ Stamps \subseteq Nat /\ Limit \in Nat \ {0} /\ Window \in Nat \ {0}
      /\ counters \in [Windows -> Nat] /\ log \in [Stamps -> Nat] /\ admitted \in [Stamps -> Nat]
      /\ kept \in [Stamps -> Nat] /\ Total(kept, Stamps) \in Nat /\ WindowOf(now) \in Windows
      /\ logDue = 0 /\ \A w \in Windows : due[w] = 0
  BY <1>1, StampFacts, WindowFacts, InWindowTyped DEF GatewayTypeInv, GatewayLimitsTypeOK
<1>3. ASSUME NEW start \in Stamps, Counts(start)' PROVE Stored(start)' /\ Bounded(start)'
  <2>1. /\ Counts(start) /\ Stored(start) /\ Bounded(start)
        /\ In(start) \subseteq Stamps /\ IsFiniteSet(In(start)) /\ In(start)' = In(start)
        /\ IsFiniteSet(Stamps) /\ start \in Nat
        /\ \A t \in In(start) : start <= t /\ t < start + Window
        /\ WindowOf(start) \in Windows
    BY <1>1, <1>2, <1>3, StampFacts, WindowFacts DEF OvershootInv, Counts, Sliding, In
  <2>2. Had(start) \in Nat /\ Had(start) <= Limit
    <3>1. /\ Ready(start) = {} /\ Ready(start) \cup Waiting(start) = {}
          /\ Extra = 0 /\ Surplus = 0
      BY <1>1, ChecksOf
    <3>2. Cardinality(Ready(start)) = 0 /\ Cardinality(Ready(start) \cup Waiting(start)) = 0
      BY <3>1, FS_EmptySet
    <3>3. Had(start) \in Nat
      BY <1>1, HadAfter
    <3>4. Had(start) + 0 <= Limit + 0
      BY <2>1, <3>1, <3>2 DEF Bounded
    <3> QED
      BY <1>2, <3>3, <3>4
  <2>3. ASSUME Had(start)' <= Limit, Had(start)' \in Nat PROVE Bounded(start)'
    <3>1. Ready(start)' = {} /\ Waiting(start)' = {} /\ Extra' = 0 /\ Surplus' = 0
      BY <1>1 DEF Ready, Waiting, GatewayTypeInv, Extra, Surplus
    <3>2. Cardinality(Ready(start)') = 0 /\ Cardinality(Ready(start)' \cup Waiting(start)') = 0
      BY <3>1, FS_EmptySet
    <3> QED
      BY <1>2, <2>3, <3>1, <3>2 DEF Bounded
  <2>4. Had(start)' = Had(start) + (IF now \in In(start) THEN 1 ELSE 0) \/ admitted' = admitted
    <3>1. Allow(now) \/ admitted' = admitted
      BY DEF CheckInMemory, SlidingWindow, SlidingWindowLog, CheckQuota
    <3> QED
      BY <1>1, <1>2, <3>1, HadAfter
  <2>5. CASE Sliding
    <3>1. /\ \/ /\ Total(kept, Stamps) < Limit /\ Allow(now)
                /\ log' = [kept EXCEPT ![now] = @ + 1]
             \/ log' = kept /\ admitted' = admitted
          /\ Sliding'
      BY <1>1, <2>5 DEF CheckInMemory, SlidingWindowLog, Below, Sliding
    <3>2. \A t \in Stamps : kept[t] <= log[t] /\ (t + Window > now => kept[t] = log[t])
      BY <1>2 DEF InWindow
    <3>3. /\ log[start] <= admitted[start] /\ (now < start + Window => Intact(start))
          /\ log[start] # 0 => start <= clock
      BY <2>1, <2>5 DEF Stored
    <3>4. now < start + Window => \A t \in In(start) : kept[t] = admitted[t]
      <4> SUFFICES ASSUME now < start + Window, NEW t \in In(start) PROVE kept[t] = admitted[t]
        OBVIOUS
      <4>1. log[t] = admitted[t] /\ t \in Stamps
        BY <2>1, <2>5, <3>3 DEF Intact
      <4>2. t + Window > now
        <5>1. t \in Nat /\ clock \in Nat /\ start \in Nat /\ Window \in Nat /\ start <= t
          BY <1>2, <2>1
        <5> QED
          BY <5>1
      <4> QED
        BY <3>2, <4>1, <4>2
    <3> HIDE DEF kept, now
    <3>5. CASE log' = kept /\ admitted' = admitted
      <4>1. Had(start)' = Had(start)
        BY <1>1, <3>5, HadAfter
      <4>2. log'[start] <= admitted'[start] /\ (log'[start] # 0 => start <= clock)
        <5>1. kept[start] \in Nat /\ admitted[start] \in Nat /\ log[start] \in Nat
          BY <1>2
        <5> QED
          BY <3>2, <3>3, <3>5, <5>1
      <4>3. (clock < start + Window => Intact(start))'
        BY <1>1, <2>1, <3>1, <3>4, <3>5 DEF Intact, now
      <4>4. Stored(start)'
        BY <1>1, <1>2, <3>1, <4>2, <4>3 DEF Stored
      <4> QED
        BY <2>2, <2>3, <4>1, <4>4
    <3>6. CASE /\ Total(kept, Stamps) < Limit /\ Allow(now)
               /\ log' = [kept EXCEPT ![now] = @ + 1]
      <4>1. now \in Stamps /\ admitted' = [admitted EXCEPT ![now] = @ + 1]
        BY <1>2, <3>6 DEF Allow, now
      <4>2. /\ \A t \in Stamps : log'[t] = kept[t] + (IF t = now THEN 1 ELSE 0)
            /\ \A t \in Stamps : admitted'[t] = admitted[t] + (IF t = now THEN 1 ELSE 0)
        BY <1>2, <3>6, <4>1
      <4>3. log'[start] <= admitted'[start] /\ (log'[start] # 0 => start <= clock)
        <5>1. kept[start] \in Nat /\ admitted[start] \in Nat /\ log[start] \in Nat
              /\ clock \in Nat /\ start \in Nat
          BY <1>2, <2>1 DEF now
        <5>2. /\ kept[start] <= log[start] /\ log[start] <= admitted[start]
              /\ log[start] # 0 => start <= clock
              /\ \/ log'[start] = kept[start] /\ admitted'[start] = admitted[start]
                 \/ /\ log'[start] = kept[start] + 1 /\ admitted'[start] = admitted[start] + 1
                    /\ start = clock
          BY <3>2, <3>3, <4>2, <5>1 DEF now
        <5> QED
          BY <5>1, <5>2
      <4>4. (clock < start + Window => Intact(start))'
        BY <1>1, <1>2, <2>1, <3>1, <3>4, <4>2 DEF Intact, now
      <4>5. Stored(start)'
        BY <1>1, <1>2, <3>1, <4>3, <4>4 DEF Stored
      <4>6. Had(start)' = Had(start) + (IF now \in In(start) THEN 1 ELSE 0)
        BY <1>1, <3>6, <4>1, HadAfter
      <4>7. CASE now \in In(start)
        <5>1. \A t \in In(start) : kept[t] = admitted[t] /\ kept[t] \in Nat /\ admitted[t] \in Nat
          BY <1>2, <2>1, <3>4, <4>7
        <5>2. Total(admitted, In(start)) = Total(kept, In(start))
          BY <2>1, <5>1, TotalSame
        <5>3. Total(kept, In(start)) <= Total(kept, Stamps)
          <6>1. \A t \in Stamps : kept[t] \in Nat
            BY <1>2
          <6> QED
            BY <2>1, <6>1, TotalOfMore
        <5>4. Had(start) < Limit
          BY <1>2, <2>2, <3>6, <5>2, <5>3 DEF Had
        <5> QED
          BY <1>2, <2>2, <2>3, <4>5, <4>6, <4>7, <5>4
      <4>8. CASE now \notin In(start)
        BY <2>2, <2>3, <4>5, <4>6, <4>8
      <4> QED
        BY <4>7, <4>8
    <3> QED
      BY <3>1, <3>5, <3>6
  <2>6. CASE ~Sliding
    <3>1. /\ ~Sliding'
          /\ \/ counters' = counters /\ admitted' = admitted
             \/ /\ Allow(now) /\ counters' = [counters EXCEPT ![WindowOf(now)] = @ + 1]
                /\ counters[WindowOf(now)] < Limit
      <4>1. CASE algorithm = "quota"
        BY <1>1, <2>6, <4>1 DEF CheckInMemory, CheckQuota, Below, Increment, Storage, Sliding
      <4>2. CASE algorithm = "sliding_window"
        <5>1. counters[WindowOf(now)] \in Nat
          BY <1>2
        <5>2. /\ Estimate(now, counters[WindowOf(now)]) \in Nat
              /\ counters[WindowOf(now)] <= Estimate(now, counters[WindowOf(now)])
          BY <1>1, <1>2, <5>1, EstimateFacts
        <5>3. \/ counters' = counters /\ admitted' = admitted
              \/ /\ Allow(now) /\ counters' = [counters EXCEPT ![WindowOf(now)] = @ + 1]
                 /\ Estimate(now, counters[WindowOf(now)]) < Limit
          BY <4>2 DEF CheckInMemory, SlidingWindow, Below, Increment, Storage
        <5> QED
          BY <1>1, <1>2, <2>6, <5>1, <5>2, <5>3 DEF Sliding
      <4> QED
        BY <1>1, <2>6, <4>1, <4>2 DEF GatewayTypeInv, Sliding
    <3>2. /\ counters[WindowOf(start)] <= Had(start) /\ counters[WindowOf(start)] \in Nat
          /\ now < start + Window => counters[WindowOf(start)] = Had(start)
          /\ now \in In(start) <=> WindowOf(now) = WindowOf(start)
          /\ now \in In(start) => now < start + Window
      BY <1>2, <2>1, <2>6, WindowFacts DEF Stored, Intact, Counts
    <3>3. ASSUME Had(start)' \in Nat, counters'[WindowOf(start)] <= Had(start)',
                 now < start + Window => counters'[WindowOf(start)] = Had(start)'
          PROVE  Stored(start)'
      <4>1. WindowOf(start)' = WindowOf(start)
        BY DEF WindowOf
      <4> QED
        BY <1>1, <1>2, <2>1, <3>1, <3>3, <4>1 DEF Stored, Intact
    <3> HIDE DEF now
    <3>4. CASE counters' = counters /\ admitted' = admitted
      <4>1. Had(start)' = Had(start)
        BY <1>1, <3>4, HadAfter
      <4> QED
        BY <2>2, <2>3, <3>2, <3>3, <3>4, <4>1
    <3>5. CASE /\ Allow(now) /\ counters' = [counters EXCEPT ![WindowOf(now)] = @ + 1]
               /\ counters[WindowOf(now)] < Limit
      <4>1. Had(start)' = Had(start) + (IF now \in In(start) THEN 1 ELSE 0)
        BY <1>1, <1>2, <3>5, HadAfter
      <4>2. counters'[WindowOf(start)] =
              counters[WindowOf(start)] + (IF now \in In(start) THEN 1 ELSE 0)
        BY <1>2, <2>1, <3>2, <3>5
      <4>3. now \in In(start) => Had(start) < Limit
        BY <1>2, <2>2, <3>2, <3>5
      <4>4. Had(start)' \in Nat /\ Had(start)' <= Limit
        BY <1>2, <2>2, <4>1, <4>3
      <4>5. /\ counters'[WindowOf(start)] <= Had(start)'
            /\ now < start + Window => counters'[WindowOf(start)] = Had(start)'
        BY <2>2, <3>2, <4>1, <4>2
      <4> QED
        BY <2>3, <3>3, <4>4, <4>5
    <3> QED
      BY <3>1, <3>4, <3>5
  <2> QED
    BY <2>5, <2>6
<1> QED
  BY <1>1, <1>3 DEF OvershootInv

-----------------------------------------------------------------------------
(* The commands over Redis.                                                *)

\* What the invariant says of a check and of a window.
LEMMA CheckFacts ==
    ASSUME GatewayLimitsAssumption, OvershootInv, NEW c \in Checkers, checking[c].step # "idle"
    PROVE  /\ GatewayTypeInv /\ overRedis /\ clock \in Stamps /\ Stamps \subseteq Nat
           /\ checking[c].now \in Stamps /\ checking[c].now <= clock /\ checking[c].count \in Nat
           /\ counters \in [Windows -> Nat] /\ log \in [Stamps -> Nat] /\ admitted \in [Stamps -> Nat]
           /\ due \in [Windows -> Nat] /\ logDue \in Nat
           /\ checking[c].step = "timestamps" => Sliding
           /\ checking[c].step = "previous" => ~Sliding
BY CheckTyped, StampFacts DEF OvershootInv, GatewayTypeInv, GatewayLimitsTypeOK

LEMMA StoredFacts ==
    ASSUME GatewayLimitsAssumption, OvershootInv, NEW start \in Stamps, Counts(start)
    PROVE  /\ Stored(start) /\ Bounded(start) /\ GatewayTypeInv
           /\ Had(start) \in Nat /\ start \in Nat /\ Window \in Nat \ {0} /\ Limit \in Nat \ {0}
           /\ In(start) \subseteq Stamps /\ IsFiniteSet(In(start)) /\ In(start)' = In(start)
           /\ \A t \in In(start) : t \in Nat /\ start <= t /\ t < start + Window
           /\ WindowOf(start) \in Windows /\ WindowOf(start)' = WindowOf(start)
           /\ ~Sliding => \A t \in Stamps : t \in In(start) <=> WindowOf(t) = WindowOf(start)
           /\ start \in In(start)
<1>1. GatewayTypeInv /\ Stored(start) /\ Bounded(start)
  BY DEF OvershootInv
<1>2. Had(start) \in Nat
  BY <1>1, HadAfter
<1>3. start \in Nat /\ start \in In(start) /\ Window \in Nat \ {0}
  BY StampFacts DEF In
<1> QED
  BY <1>1, <1>2, <1>3, StampFacts, WindowFacts DEF Counts, In, WindowOf

\* A check takes the time: while the window lasts everything is stored.
LEMMA BeginKeeps ==
    ASSUME GatewayLimitsAssumption, OvershootInv, NEW c \in Checkers, Begin(c)
    PROVE  OvershootInv'
<1>1. /\ GatewayTypeInv /\ overRedis /\ checking[c].step = "idle" /\ clock \in Stamps
      /\ UNCHANGED <<counters, due, log, logDue, admitted>> /\ CheckGoes(c, "first", clock, 0)
      /\ log' \in [Stamps -> Nat] /\ logDue' \in Nat /\ Past(clock)
  BY StampFacts DEF OvershootInv, Begin, NoCheck, Storage, GatewayTypeInv, GatewayLimitsTypeOK,
     Past
<1>2. /\ GatewayTypeInv' /\ UNCHANGED <<algorithm, overRedis, clock>>
      /\ \A d \in Checkers : checking'[d] =
           IF d = c THEN [step |-> "first", now |-> clock, count |-> 0] ELSE checking[d]
  <2> DEFINE step == "first"  count == 0
  <2>1. step \in {"first", "previous", "timestamps", "decide"} /\ count \in Nat
        /\ step # "previous" /\ step # "timestamps" /\ CheckGoes(c, step, clock, count)
    BY <1>1
  <2> HIDE DEF step, count
  <2>2. /\ GatewayTypeInv'
        /\ \A d \in Checkers : checking'[d] =
             IF d = c THEN [step |-> step, now |-> clock, count |-> count] ELSE checking[d]
    BY <1>1, <2>1, CheckGoesTyped
  <2>3. UNCHANGED <<algorithm, overRedis, clock>>
    BY DEF Begin, CheckGoes, Unchanged
  <2> QED
    BY <2>2, <2>3 DEF step, count
<1>3. ASSUME NEW start \in Stamps, Counts(start)' PROVE Stored(start)' /\ Bounded(start)'
  <2>1. Counts(start)
    BY <1>2, <1>3 DEF Counts, Sliding
  <2>2. Had(start)' = Had(start)
    BY <1>1, HadAfter
  <2>3. Intact(start)' = Intact(start) /\ Stored(start)'
    BY <1>1, <1>2, <2>1, <2>2, StoredFacts DEF Stored, Intact, Sliding
  <2>4. Ready(start)' \in SUBSET Ready(start)
    BY <1>2, <2>1, StoredFacts DEF Ready, Below
  <2>5. Waiting(start)' \in SUBSET Checkers
    BY DEF Waiting
  <2>6. CASE clock \in In(start)
    <3>1. Intact(start)
      BY <2>1, <2>6, StoredFacts DEF Stored
    <3> QED
      BY <1>1, <1>2, <2>1, <2>2, <2>3, <2>4, <2>5, <3>1, StoredFacts, BoundedQuiet
  <2>7. CASE clock \notin In(start)
    <3>1. Waiting(start)' \subseteq Waiting(start)
      BY <1>2, <2>1, <2>7, StoredFacts DEF Waiting
    <3> QED
      BY <1>1, <1>2, <2>1, <2>2, <2>3, <2>4, <2>5, <3>1, StoredFacts, BoundedQuiet
  <2> QED
    BY <2>6, <2>7
<1> QED
  BY <1>2, <1>3 DEF OvershootInv

\* A check reads how many there are, and no fewer than were admitted in its window
\* if the storage has them all: below the limit any may pass then.
LEMMA ReadKeeps ==
    ASSUME GatewayLimitsAssumption, OvershootInv, NEW c \in Checkers,
           checking[c].step \in {"first", "timestamps"},
           NEW step \in {"previous", "decide"}, NEW count \in Nat, step = "previous" => ~Sliding,
           CheckGoes(c, step, checking[c].now, count),
           UNCHANGED <<counters, due, log, logDue, admitted>>,
           \A start \in Stamps :
             Counts(start) /\ Intact(start) /\ checking[c].now \in In(start) => Had(start) <= count
    PROVE  OvershootInv'
<1> DEFINE now == checking[c].now
<1>1. /\ GatewayTypeInv /\ overRedis /\ now \in Stamps /\ Past(now)
      /\ log' \in [Stamps -> Nat] /\ logDue' \in Nat
  BY CheckFacts DEF Past
<1>2. /\ step \in {"first", "previous", "timestamps", "decide"}
      /\ step = "timestamps" => Sliding
      /\ UNCHANGED <<counters, due, admitted>>
  OBVIOUS
<1>3. /\ GatewayTypeInv' /\ UNCHANGED <<algorithm, overRedis, clock>>
      /\ \A d \in Checkers : checking'[d] =
           IF d = c THEN [step |-> step, now |-> now, count |-> count] ELSE checking[d]
  <2>1. /\ GatewayTypeInv'
        /\ \A d \in Checkers : checking'[d] =
             IF d = c THEN [step |-> step, now |-> now, count |-> count] ELSE checking[d]
    BY <1>1, <1>2, CheckGoesTyped
  <2>2. UNCHANGED <<algorithm, overRedis, clock>>
    BY DEF CheckGoes, Unchanged
  <2> QED
    BY <2>1, <2>2
<1>4. ASSUME NEW start \in Stamps, Counts(start)' PROVE Stored(start)' /\ Bounded(start)'
  <2>1. Counts(start)
    BY <1>3, <1>4 DEF Counts, Sliding
  <2>2. Had(start)' = Had(start)
    BY <1>1, HadAfter
  <2>3. Intact(start)' = Intact(start) /\ Stored(start)'
    BY <1>1, <1>3, <2>1, <2>2, StoredFacts DEF Stored, Intact, Sliding
  <2>4. /\ Ready(start)' \in SUBSET Checkers /\ Waiting(start)' \in SUBSET Checkers
        /\ \A d \in Checkers : d # c => /\ d \in Ready(start)' => d \in Ready(start)
                                        /\ d \in Waiting(start)' => d \in Waiting(start)
        /\ c \notin Waiting(start)'
        /\ c \in Ready(start)' => now \in In(start) /\ count < Limit
    BY <1>2, <1>3, <2>1, StoredFacts DEF Ready, Waiting, Below
  <2>5. CASE c \in Ready(start)' /\ Intact(start)
    <3>1. Had(start) < Limit
      <4>1. Had(start) <= count /\ count < Limit /\ now \in In(start)
        BY <2>1, <2>4, <2>5
      <4> QED
        BY <1>1, <2>1, <4>1, StoredFacts
    <3> QED
      BY <1>1, <1>3, <2>2, <2>3, <2>4, <2>5, <3>1, BoundedRead
  <2>6. CASE c \in Ready(start)' /\ ~Intact(start)
    <3>1. c \in Waiting(start) /\ Waiting(start) \in SUBSET Checkers
      BY <1>1, <2>4, <2>6 DEF Waiting
    <3> DEFINE ready == Ready(start)  waiting == Waiting(start)
               more == Ready(start)'  later == Waiting(start)'
    <3>2. more \cup later \in SUBSET (ready \cup waiting) /\ ready \cup waiting \in SUBSET Checkers
      BY <2>4, <3>1 DEF Ready
    <3>3. /\ Cardinality(more \cup later) <= Cardinality(ready \cup waiting)
          /\ Cardinality(more \cup later) \in Nat /\ Cardinality(ready \cup waiting) \in Nat
      BY <1>1, <3>2, ChecksOf
    <3>4. Had(start) + Cardinality(ready \cup waiting) <= Limit + Surplus
          /\ Had(start) \in Nat /\ Limit \in Nat
      BY <2>1, <2>6, StoredFacts DEF Bounded
    <3>5. Surplus' = Surplus /\ Surplus \in Nat
      BY <1>1, <1>3, ChecksOf DEF Surplus
    <3> HIDE DEF ready, waiting, more, later
    <3>6. Had(start)' + Cardinality(more \cup later) <= Limit + Surplus'
      BY <2>2, <3>3, <3>4, <3>5
    <3>7. ~Intact(start)'
      BY <2>3, <2>6
    <3> QED
      BY <2>3, <3>6, <3>7 DEF Bounded, more, later
  <2>7. CASE c \notin Ready(start)'
    <3>1. Ready(start)' \in SUBSET Ready(start) /\ Waiting(start)' \subseteq Waiting(start)
      BY <2>4, <2>7
    <3> QED
      BY <1>1, <1>3, <2>1, <2>2, <2>3, <2>4, <3>1, StoredFacts, BoundedQuiet
  <2> QED
    BY <2>5, <2>6, <2>7
<1> QED
  BY <1>3, <1>4 DEF OvershootInv

LEMMA ReadCounterKeeps ==
    ASSUME GatewayLimitsAssumption, OvershootInv, NEW c \in Checkers, ReadCounter(c)
    PROVE  OvershootInv'
<1> DEFINE now == checking[c].now
           count == counters[WindowOf(now)]
<1>1. /\ checking[c].step = "first" /\ ~Sliding /\ now \in Stamps /\ count \in Nat
      /\ UNCHANGED <<counters, due, log, logDue, admitted>>
  BY CheckFacts, WindowFacts DEF ReadCounter, Storage, Sliding
<1>2. PICK step \in {"previous", "decide"} : CheckGoes(c, step, now, count)
  BY DEF ReadCounter
<1>3. ASSUME NEW start \in Stamps, Counts(start), Intact(start), now \in In(start)
      PROVE  Had(start) <= count
  <2>1. WindowOf(now) = WindowOf(start) /\ Had(start) \in Nat
    BY <1>1, <1>3, StoredFacts
  <2> QED
    BY <1>1, <1>3, <2>1 DEF Intact
<1> HIDE DEF count
<1> QED
  BY <1>1, <1>2, <1>3, ReadKeeps

LEMMA ReadPreviousKeeps ==
    ASSUME GatewayLimitsAssumption, OvershootInv, NEW c \in Checkers, ReadPrevious(c)
    PROVE  OvershootInv'
<1> DEFINE now == checking[c].now
           count == checking[c].count
           estimate == Estimate(now, count)
<1>1. /\ checking[c].step = "previous" /\ GatewayTypeInv /\ overRedis /\ ~Sliding
      /\ now \in Stamps /\ Past(now) /\ count \in Nat
      /\ UNCHANGED <<counters, due, log, logDue, admitted>>
      /\ log' \in [Stamps -> Nat] /\ logDue' \in Nat
  BY CheckFacts DEF ReadPrevious, Storage, Past
<1>2. estimate \in Nat /\ count <= estimate
  BY <1>1, EstimateFacts
<1>3. CheckGoes(c, "decide", now, estimate)
  BY DEF ReadPrevious
<1> HIDE DEF estimate
<1>4. /\ GatewayTypeInv' /\ UNCHANGED <<algorithm, overRedis, clock>>
      /\ \A d \in Checkers : checking'[d] =
           IF d = c THEN [step |-> "decide", now |-> now, count |-> estimate] ELSE checking[d]
  <2>1. /\ GatewayTypeInv'
        /\ \A d \in Checkers : checking'[d] =
             IF d = c THEN [step |-> "decide", now |-> now, count |-> estimate] ELSE checking[d]
    BY <1>1, <1>2, <1>3, CheckGoesTyped
  <2>2. UNCHANGED <<algorithm, overRedis, clock>>
    BY <1>3 DEF CheckGoes, Unchanged
  <2> QED
    BY <2>1, <2>2
<1>5. ASSUME NEW start \in Stamps, Counts(start)' PROVE Stored(start)' /\ Bounded(start)'
  <2>1. Counts(start)
    BY <1>4, <1>5 DEF Counts, Sliding
  <2>2. Had(start)' = Had(start)
    BY <1>1, HadAfter
  <2>3. Intact(start)' = Intact(start) /\ Stored(start)'
    BY <1>1, <1>4, <2>1, <2>2, StoredFacts DEF Stored, Intact, Sliding
  <2>4. ASSUME NEW d \in Ready(start)' PROVE d \in Ready(start)
    <3>1. /\ d \in Checkers /\ checking'[d].step \in {"previous", "decide"}
          /\ checking'[d].now \in In(start) /\ checking'[d].count < Limit
      BY <2>1, <2>4, StoredFacts DEF Ready, Below
    <3>2. CASE d = c
      <4>1. now \in In(start) /\ estimate < Limit
        BY <1>4, <3>1, <3>2
      <4>2. Below(count)
        BY <1>1, <1>2, <4>1, StampFacts DEF Below
      <4> QED
        BY <1>1, <3>1, <3>2, <4>1, <4>2 DEF Ready
    <3>3. CASE d # c
      BY <1>4, <3>1, <3>3 DEF Ready, Below
    <3> QED
      BY <3>2, <3>3
  <2>5. Waiting(start)' \subseteq Waiting(start) /\ Waiting(start)' \in SUBSET Checkers
    BY <1>4, <2>1, StoredFacts DEF Waiting
  <2> QED
    BY <1>1, <1>4, <2>1, <2>2, <2>3, <2>4, <2>5, StoredFacts, BoundedQuiet
<1> QED
  BY <1>4, <1>5 DEF OvershootInv

\* The rest of the log: what goes has been out of the window for every check begun
\* since; a check that is still out may not find what was admitted in its own.
LEMMA CleanupExpiredKeeps ==
    ASSUME GatewayLimitsAssumption, OvershootInv, NEW c \in Checkers, CleanupExpired(c)
    PROVE  OvershootInv'
<1> DEFINE now == checking[c].now  kept == InWindow(now)
<1>1. /\ checking[c].step = "first" /\ GatewayTypeInv /\ overRedis /\ Sliding
      /\ now \in Stamps /\ now <= clock /\ clock \in Stamps /\ Stamps \subseteq Nat
      /\ log \in [Stamps -> Nat] /\ admitted \in [Stamps -> Nat] /\ kept \in [Stamps -> Nat]
      /\ log' = kept /\ logDue' = 0 /\ UNCHANGED <<counters, due, admitted>>
      /\ \A t \in Stamps : kept[t] <= log[t] /\ (t + Window > now => kept[t] = log[t])
  <2>1. checking[c].step = "first" /\ Sliding
    BY DEF CleanupExpired, Sliding
  <2>2. /\ GatewayTypeInv /\ overRedis /\ now \in Stamps /\ now <= clock /\ clock \in Stamps
        /\ Stamps \subseteq Nat /\ log \in [Stamps -> Nat] /\ admitted \in [Stamps -> Nat]
    BY <2>1, CheckFacts
  <2>3. kept \in [Stamps -> Nat]
    BY <2>2, InWindowTyped
  <2>4. \A t \in Stamps : kept[t] <= log[t] /\ (t + Window > now => kept[t] = log[t])
    BY <2>2 DEF InWindow
  <2> QED
    BY <2>1, <2>2, <2>3, <2>4 DEF CleanupExpired
<1> HIDE DEF kept
<1>2. /\ GatewayTypeInv' /\ UNCHANGED <<algorithm, overRedis, clock>>
      /\ \A d \in Checkers : checking'[d] =
           IF d = c THEN [step |-> "timestamps", now |-> now, count |-> 0] ELSE checking[d]
  <2> DEFINE step == "timestamps"  count == 0
  <2>1. step \in {"first", "previous", "timestamps", "decide"} /\ count \in Nat
        /\ step # "previous" /\ CheckGoes(c, step, now, count) /\ Past(now)
        /\ log' \in [Stamps -> Nat] /\ logDue' \in Nat
    BY <1>1 DEF CleanupExpired, Past
  <2> HIDE DEF step, count
  <2>2. /\ GatewayTypeInv'
        /\ \A d \in Checkers : checking'[d] =
             IF d = c THEN [step |-> step, now |-> now, count |-> count] ELSE checking[d]
    BY <1>1, <2>1, CheckGoesTyped
  <2>3. UNCHANGED <<algorithm, overRedis, clock>>
    BY DEF CleanupExpired, CheckGoes, Unchanged
  <2> QED
    BY <2>2, <2>3 DEF step, count
<1>3. \A t \in Stamps : Stored(t) /\ log[t] \in Nat /\ admitted[t] \in Nat /\ log[t] <= admitted[t]
  BY <1>1 DEF OvershootInv, Counts, Stored
<1>4. ASSUME NEW start \in Stamps, Counts(start)' PROVE Stored(start)' /\ Bounded(start)'
  <2>1. Counts(start)
    BY <1>1 DEF Counts
  <2>2. Had(start)' = Had(start)
    BY <1>1, HadAfter
  <2>3. /\ In(start) \subseteq Stamps /\ In(start)' = In(start) /\ start \in Nat
        /\ Window \in Nat \ {0} /\ clock \in Nat /\ now \in Nat
        /\ \A t \in In(start) : t \in Nat /\ start <= t
    BY <1>1, <2>1, StoredFacts
  <2>4. Intact(start)' => Intact(start)
    <3> SUFFICES ASSUME Intact(start)', NEW t \in In(start) PROVE log[t] = admitted[t]
      BY <1>1 DEF Intact
    <3>1. log'[t] = admitted'[t] /\ t \in Stamps
      BY <1>1, <1>2, <2>3 DEF Intact, Sliding
    <3>2. kept[t] = admitted[t] /\ kept[t] <= log[t] /\ log[t] <= admitted[t]
          /\ kept[t] \in Nat /\ log[t] \in Nat /\ admitted[t] \in Nat
      BY <1>1, <1>3, <3>1
    <3> QED
      BY <3>2
  <2>5. clock < start + Window => Intact(start)'
    <3> SUFFICES ASSUME clock < start + Window, NEW t \in In(start) PROVE log'[t] = admitted'[t]
      BY <1>1, <1>2, <2>3 DEF Intact, Sliding
    <3>1. Intact(start) /\ t \in Stamps
      BY <1>3, <2>3 DEF Stored
    <3>2. t + Window > now
      BY <1>1, <2>3
    <3> QED
      BY <1>1, <3>1, <3>2 DEF Intact
  <2>6. log'[start] <= admitted'[start] /\ (log'[start] # 0 => start <= clock)
    <3>1. /\ kept[start] <= log[start] /\ log[start] <= admitted[start]
          /\ kept[start] \in Nat /\ log[start] \in Nat /\ admitted[start] \in Nat
          /\ log[start] # 0 => start <= clock
      BY <1>1, <1>3 DEF Stored
    <3> QED
      BY <1>1, <3>1
  <2>7. Stored(start)'
    BY <1>1, <1>2, <2>5, <2>6 DEF Stored, Sliding
  <2>8. /\ Ready(start)' \in SUBSET Ready(start) /\ Waiting(start)' \in SUBSET Checkers
        /\ Waiting(start)' \subseteq Waiting(start)
    BY <1>1, <1>2, <2>3 DEF Ready, Waiting, Below
  <2> QED
    BY <1>1, <1>2, <2>1, <2>2, <2>4, <2>7, <2>8, StoredFacts, BoundedQuiet
<1> QED
  BY <1>2, <1>4 DEF OvershootInv

\* What the log holds of a window that is intact is no more than it holds at all.
LEMMA GetTimestampsKeeps ==
    ASSUME GatewayLimitsAssumption, OvershootInv, NEW c \in Checkers, GetTimestamps(c)
    PROVE  OvershootInv'
<1> DEFINE now == checking[c].now
           count == Total(log, Stamps)
<1>1. /\ checking[c].step = "timestamps" /\ GatewayTypeInv /\ Sliding
      /\ log \in [Stamps -> Nat] /\ admitted \in [Stamps -> Nat] /\ count \in Nat
      /\ CheckGoes(c, "decide", now, count)
      /\ UNCHANGED <<counters, due, log, logDue, admitted>>
  BY CheckFacts, InWindowTyped DEF GetTimestamps, Storage
<1>2. ASSUME NEW start \in Stamps, Counts(start), Intact(start) PROVE Had(start) <= count
  <2>1. In(start) \subseteq Stamps /\ IsFiniteSet(In(start)) /\ IsFiniteSet(Stamps)
    BY StampFacts
  <2>2. \A t \in In(start) : log[t] \in Nat /\ admitted[t] = log[t]
    BY <1>1, <1>2, <2>1 DEF Intact
  <2>3. Total(log, In(start)) = Had(start)
    BY <2>1, <2>2, TotalSame DEF Had
  <2>4. \A t \in Stamps : log[t] \in Nat
    BY <1>1
  <2> QED
    BY <2>1, <2>3, <2>4, TotalOfMore
<1> DEFINE step == "decide"
<1>3. step \in {"previous", "decide"} /\ step # "previous" /\ CheckGoes(c, step, now, count)
  BY <1>1
<1> HIDE DEF count, step
<1> QED
  BY <1>1, <1>2, <1>3, ReadKeeps

\* What a decision does to the bound of one window.
LEMMA DecidedBounded ==
    ASSUME GatewayLimitsAssumption, GatewayTypeInv, NEW start \in Stamps, Bounded(start),
           UNCHANGED <<algorithm, overRedis>>, NEW c \in Checkers, checking[c].step = "decide",
           \A d \in Checkers : checking'[d] = IF d = c THEN NoCheck ELSE checking[d],
           Had(start)' = Had(start) + (IF Below(checking[c].count) /\ checking[c].now \in In(start)
                                       THEN 1 ELSE 0),
           In(start)' = In(start), Intact(start)' <=> Intact(start)
    PROVE  Bounded(start)'
<1>1. /\ Ready(start)' \in SUBSET Ready(start) /\ Waiting(start)' \in SUBSET Waiting(start)
      /\ Waiting(start) \in SUBSET Checkers /\ c \notin Ready(start)' /\ c \notin Waiting(start)'
  BY DEF Ready, Waiting, Below, NoCheck
<1>2. CASE Below(checking[c].count) /\ checking[c].now \in In(start)
  <2>1. c \in Ready(start) /\ Had(start)' = Had(start) + 1
    BY <1>2 DEF Ready
  <2> QED
    BY <1>1, <2>1, BoundedAdmits
<1>3. CASE ~(Below(checking[c].count) /\ checking[c].now \in In(start))
  <2>1. Had(start)' = Had(start)
    BY <1>3, HadAfter
  <2> QED
    BY <1>1, <2>1, BoundedQuiet
<1> QED
  BY <1>2, <1>3

\* A check counts and is let through at once; what it counts lives on until the
\* window in which it began is over.
LEMMA DecideKeeps ==
    ASSUME GatewayLimitsAssumption, OvershootInv, NEW c \in Checkers, Decide(c)
    PROVE  OvershootInv'
<1> DEFINE it == checking[c].now
           passes == Below(checking[c].count)
           kinds == [step : {"idle", "first", "previous", "timestamps", "decide"},
                     now : Stamps, count : Nat]
<1>1. /\ GatewayTypeInv /\ overRedis /\ checking[c].step = "decide" /\ it \in Stamps
      /\ UNCHANGED <<algorithm, overRedis, clock>> /\ it <= clock
      /\ clock \in Stamps /\ Stamps \subseteq Nat /\ WindowOf(it) \in Windows
      /\ counters \in [Windows -> Nat] /\ log \in [Stamps -> Nat] /\ admitted \in [Stamps -> Nat]
      /\ due \in [Windows -> Nat] /\ logDue \in Nat /\ checking \in [Checkers -> kinds]
  <2>1. checking[c].step = "decide" /\ UNCHANGED <<algorithm, overRedis, clock>>
    BY DEF Decide, CheckEnds, Unchanged
  <2>2. GatewayTypeInv /\ checking \in [Checkers -> kinds]
    BY DEF OvershootInv, GatewayTypeInv, GatewayLimitsTypeOK
  <2>3. checking[c].step # "idle"
    BY <2>1
  <2> HIDE DEF kinds
  <2> QED
    BY <2>1, <2>2, <2>3, CheckFacts, WindowFacts
<1>2. PICK now \in Stamps : now = it
  BY <1>1
<1>3. /\ checking' = [checking EXCEPT ![c] = NoCheck]
      /\ \/ /\ passes /\ Allow(now)
            /\ IF Sliding THEN AddTimestamp(now) ELSE Increment(now)
         \/ ~passes /\ UNCHANGED <<counters, due, log, logDue, admitted>>
  BY <1>2 DEF Decide, CheckEnds, Sliding, Storage
<1>4. \A d \in Checkers : checking'[d] = IF d = c THEN NoCheck ELSE checking[d]
  BY <1>1, <1>3
<1>5. Window \in Nat \ {0} /\ Life \in Nat /\ Window <= Life /\ clock \in Nat
  BY <1>1, StampFacts DEF Life
<1>6. /\ GatewayTypeInv'
      /\ passes /\ ~Sliding =>
           \A w \in Windows :
             /\ counters'[w] = counters[w] + (IF w = WindowOf(now) THEN 1 ELSE 0)
             /\ due'[w] = IF w = WindowOf(now) THEN clock + Life ELSE due[w]
      /\ passes /\ Sliding =>
           /\ \A t \in Stamps : log'[t] = log[t] + (IF t = now THEN 1 ELSE 0)
           /\ logDue' = clock + Window + 1
      /\ passes => \A t \in Stamps : admitted'[t] = admitted[t] + (IF t = now THEN 1 ELSE 0)
  <2>1. NoCheck \in kinds /\ NoCheck.step = "idle" /\ NoCheck.now = 0
    BY StampFacts DEF NoCheck, Stamps
  <2>2. checking' \in [Checkers -> kinds]
    BY <1>1, <1>3, <2>1
  <2>3. CASE passes /\ Sliding
    <3>1. /\ log' = [log EXCEPT ![now] = @ + 1] /\ logDue' = clock + Window + 1
          /\ admitted' = [admitted EXCEPT ![now] = @ + 1] /\ UNCHANGED <<counters, due>>
      BY <1>3, <2>3 DEF AddTimestamp, Allow
    <3>2. /\ log' \in [Stamps -> Nat] /\ admitted' \in [Stamps -> Nat] /\ logDue' \in Nat
          /\ \A t \in Stamps : log'[t] = log[t] + (IF t = now THEN 1 ELSE 0)
          /\ \A t \in Stamps : admitted'[t] = admitted[t] + (IF t = now THEN 1 ELSE 0)
      BY <1>1, <1>5, <3>1
    <3>3. GatewayLimitsTypeOK'
      BY <1>1, <2>2, <3>1, <3>2 DEF GatewayTypeInv, GatewayLimitsTypeOK
    <3>4. GatewayTypeInv'
      BY <1>1, <1>4, <2>1, <3>3 DEF GatewayTypeInv, Sliding
    <3> QED
      BY <2>3, <3>1, <3>2, <3>4
  <2>4. CASE passes /\ ~Sliding
    <3>1. /\ counters' = [counters EXCEPT ![WindowOf(now)] = @ + 1]
          /\ due' = [due EXCEPT ![WindowOf(now)] = clock + Life]
          /\ admitted' = [admitted EXCEPT ![now] = @ + 1] /\ UNCHANGED <<log, logDue>>
      BY <1>1, <1>3, <2>4 DEF Increment, Allow
    <3>2. /\ counters' \in [Windows -> Nat] /\ admitted' \in [Stamps -> Nat]
          /\ due' \in [Windows -> Nat]
          /\ \A w \in Windows :
               /\ counters'[w] = counters[w] + (IF w = WindowOf(now) THEN 1 ELSE 0)
               /\ due'[w] = IF w = WindowOf(now) THEN clock + Life ELSE due[w]
          /\ \A t \in Stamps : admitted'[t] = admitted[t] + (IF t = now THEN 1 ELSE 0)
      <4> DEFINE later == clock + Life  w == WindowOf(now)
      <4>1. later \in Nat /\ w \in Windows
        BY <1>1, <1>2, <1>5
      <4> HIDE DEF later, w
      <4>2. /\ counters' = [counters EXCEPT ![w] = @ + 1]
            /\ due' = [due EXCEPT ![w] = later]
            /\ admitted' = [admitted EXCEPT ![now] = @ + 1]
        BY <3>1 DEF later, w
      <4>3. /\ counters' \in [Windows -> Nat] /\ admitted' \in [Stamps -> Nat]
            /\ due' \in [Windows -> Nat]
            /\ \A v \in Windows : /\ counters'[v] = counters[v] + (IF v = w THEN 1 ELSE 0)
                                  /\ due'[v] = IF v = w THEN later ELSE due[v]
            /\ \A t \in Stamps : admitted'[t] = admitted[t] + (IF t = now THEN 1 ELSE 0)
        BY <1>1, <4>1, <4>2
      <4> QED
        BY <4>3 DEF later, w
    <3>3. GatewayLimitsTypeOK'
      BY <1>1, <2>2, <3>1, <3>2 DEF GatewayTypeInv, GatewayLimitsTypeOK
    <3>4. GatewayTypeInv'
      BY <1>1, <1>4, <2>1, <3>3 DEF GatewayTypeInv, Sliding
    <3> QED
      BY <2>4, <3>2, <3>4
  <2>5. CASE ~passes
    <3>1. GatewayLimitsTypeOK'
      BY <1>1, <1>3, <2>2, <2>5 DEF GatewayTypeInv, GatewayLimitsTypeOK
    <3>2. GatewayTypeInv'
      BY <1>1, <1>4, <2>1, <3>1 DEF GatewayTypeInv, Sliding
    <3> QED
      BY <2>5, <3>2
  <2> QED
    BY <2>3, <2>4, <2>5
<1>7. ASSUME NEW start \in Stamps, Counts(start)' PROVE Stored(start)' /\ Bounded(start)'
  <2>1. /\ Counts(start) /\ Stored(start) /\ Bounded(start) /\ Had(start) \in Nat
        /\ In(start) \subseteq Stamps /\ In(start)' = In(start) /\ start \in Nat /\ now \in Nat
        /\ now \in In(start) => start <= now
        /\ WindowOf(start) \in Windows /\ WindowOf(start)' = WindowOf(start)
        /\ ~Sliding => (now \in In(start) <=> WindowOf(now) = WindowOf(start))
        /\ start \in In(start) /\ (Sliding' <=> Sliding)
    <3>1. Counts(start) /\ (Sliding' <=> Sliding)
      BY <1>1, <1>7 DEF Counts, Sliding
    <3> QED
      BY <1>1, <3>1, StoredFacts
  <2>2. Had(start)' = Had(start) + (IF passes /\ now \in In(start) THEN 1 ELSE 0)
    BY <1>1, <1>3, <2>1, HadAfter
  <2>3. CASE Sliding
    <3>1. /\ \A t \in Stamps : /\ log[t] \in Nat /\ admitted[t] \in Nat
                               /\ \/ log'[t] = log[t] /\ admitted'[t] = admitted[t]
                                  \/ log'[t] = log[t] + 1 /\ admitted'[t] = admitted[t] + 1
          /\ \A t \in Stamps : log'[t] = log[t] \/ (t = now /\ passes)
      <4>1. \A t \in Stamps : log[t] \in Nat /\ admitted[t] \in Nat
        BY <1>1
      <4>2. CASE passes
        <5>1. \A t \in Stamps : /\ log'[t] = log[t] + (IF t = now THEN 1 ELSE 0)
                                /\ admitted'[t] = admitted[t] + (IF t = now THEN 1 ELSE 0)
          BY <1>6, <2>3, <4>2
        <5> HIDE DEF passes
        <5> QED
          BY <4>1, <4>2, <5>1
      <4>3. CASE ~passes
        <5>1. log' = log /\ admitted' = admitted
          BY <1>3, <4>3
        <5> QED
          BY <4>1, <5>1
      <4> QED
        BY <4>2, <4>3
    <3>2. ASSUME NEW t \in In(start) PROVE log'[t] = admitted'[t] <=> log[t] = admitted[t]
      <4>1. t \in Stamps
        BY <2>1
      <4>2. /\ log[t] \in Nat /\ admitted[t] \in Nat
            /\ \/ log'[t] = log[t] /\ admitted'[t] = admitted[t]
               \/ log'[t] = log[t] + 1 /\ admitted'[t] = admitted[t] + 1
        BY <3>1, <4>1
      <4> QED
        BY <4>2
    <3>3. Intact(start)' <=> Intact(start)
      BY <2>1, <2>3, <3>2 DEF Intact
    <3>4. log'[start] <= admitted'[start] /\ (log'[start] # 0 => start <= clock)
      <4>1. log[start] <= admitted[start] /\ (log[start] # 0 => start <= clock)
        BY <2>1, <2>3 DEF Stored
      <4> QED
        BY <1>1, <1>2, <3>1, <4>1
    <3>5. logDue' # 0 /\ log'[start] # 0 => start + Window < logDue'
      <4>1. CASE passes
        BY <1>1, <1>5, <1>6, <2>1, <2>3, <3>4, <4>1
      <4>2. CASE ~passes
        BY <1>3, <2>1, <2>3, <4>2 DEF Stored
      <4> QED
        BY <4>1, <4>2
    <3>6. clock < start + Window => Intact(start)'
      BY <2>1, <3>3 DEF Stored
    <3> QED
      BY <1>1, <2>1, <2>3, <3>3, <3>4, <3>5, <3>6, DecidedBounded, <1>2, <1>3, <1>4, <2>2
         DEF Stored
  <2>4. CASE ~Sliding
    <3> DEFINE w == WindowOf(start)
    <3>1. counters'[w] = counters[w] + (IF passes /\ now \in In(start) THEN 1 ELSE 0)
          /\ counters[w] \in Nat /\ counters[w] <= Had(start)
      BY <1>1, <1>3, <1>6, <2>1, <2>4 DEF Stored
    <3>2. Intact(start)' <=> Intact(start)
      BY <2>1, <2>2, <2>4, <3>1 DEF Intact
    <3>3. counters'[w] <= Had(start)'
      BY <2>1, <2>2, <3>1
    <3>4. due'[w] # 0 => start + Window <= due'[w]
      <4>1. CASE passes /\ now \in In(start)
        <5>1. due'[w] = clock + Life
          BY <1>6, <2>1, <2>4, <4>1
        <5> QED
          BY <1>1, <1>2, <1>5, <2>1, <4>1, <5>1
      <4>2. CASE ~(passes /\ now \in In(start))
        <5>1. due'[w] = due[w]
          BY <1>3, <1>6, <2>1, <2>4, <4>2
        <5> QED
          BY <2>1, <2>4, <5>1 DEF Stored
      <4> QED
        BY <4>1, <4>2
    <3>5. clock < start + Window => Intact(start)'
      BY <2>1, <3>2 DEF Stored
    <3>6. Stored(start)'
      BY <1>1, <2>1, <2>4, <3>3, <3>4, <3>5 DEF Stored
    <3> QED
      BY <1>1, <1>2, <1>3, <1>4, <2>1, <2>2, <3>2, <3>6, DecidedBounded
  <2> QED
    BY <2>3, <2>4
<1> QED
  BY <1>6, <1>7 DEF OvershootInv

\* A counter goes when its window is over.
LEMMA CounterExpiresKeeps ==
    ASSUME GatewayLimitsAssumption, OvershootInv, NEW w \in Windows, CounterExpires(w)
    PROVE  OvershootInv'
<1>1. /\ GatewayTypeInv /\ clock \in Stamps /\ Stamps \subseteq Nat
      /\ counters \in [Windows -> Nat] /\ due \in [Windows -> Nat]
      /\ due[w] # 0 /\ clock >= due[w]
      /\ counters' = [counters EXCEPT ![w] = 0] /\ due' = [due EXCEPT ![w] = 0]
      /\ UNCHANGED <<algorithm, overRedis, clock, log, logDue, checking, admitted>>
  BY StampFacts DEF OvershootInv, GatewayTypeInv, GatewayLimitsTypeOK, CounterExpires, Unchanged
<1>2. /\ counters' \in [Windows -> Nat] /\ due' \in [Windows -> Nat] /\ overRedis
      /\ \A v \in Windows : /\ counters'[v] = IF v = w THEN 0 ELSE counters[v]
                            /\ due'[v] = IF v = w THEN 0 ELSE due[v]
  BY <1>1 DEF GatewayTypeInv
<1>3. GatewayTypeInv'
  BY <1>1, <1>2 DEF GatewayTypeInv, GatewayLimitsTypeOK, Sliding
<1>4. ASSUME NEW start \in Stamps, Counts(start)' PROVE Stored(start)' /\ Bounded(start)'
  <2>1. Counts(start) /\ (Sliding' <=> Sliding)
    BY <1>1, <1>4 DEF Counts, Sliding
  <2>2. Had(start)' = Had(start) /\ Had(start) \in Nat
    BY <1>1, HadAfter
  <2>3. /\ Stored(start) /\ Bounded(start) /\ WindowOf(start) \in Windows /\ start \in Nat
        /\ Window \in Nat \ {0} /\ WindowOf(start)' = WindowOf(start) /\ In(start)' = In(start)
    BY <2>1, StoredFacts
  <2>4. Stored(start)' /\ (Intact(start)' => Intact(start))
    <3>1. CASE Sliding \/ WindowOf(start) # w
      BY <1>1, <1>2, <2>1, <2>2, <2>3, <3>1 DEF Stored, Intact
    <3>2. CASE ~Sliding /\ WindowOf(start) = w
      <4>1. counters[w] <= Had(start) /\ counters[w] \in Nat /\ ~(clock < start + Window)
        BY <1>1, <2>3, <3>2 DEF Stored
      <4> QED
        BY <1>1, <1>2, <2>1, <2>2, <2>3, <3>2, <4>1 DEF Stored, Intact
    <3> QED
      BY <3>1, <3>2
  <2>5. Ready(start)' \in SUBSET Ready(start) /\ Waiting(start)' \in SUBSET Waiting(start)
        /\ Waiting(start) \in SUBSET Checkers
    BY <1>1, <2>3 DEF Ready, Waiting, Below
  <2> QED
    BY <1>1, <1>2, <2>2, <2>3, <2>4, <2>5, BoundedQuiet
<1> QED
  BY <1>3, <1>4 DEF OvershootInv

\* So does the log, after the last of its windows.
LEMMA LogExpiresKeeps ==
    ASSUME GatewayLimitsAssumption, OvershootInv, LogExpires
    PROVE  OvershootInv'
<1>1. /\ GatewayTypeInv /\ clock \in Stamps /\ Stamps \subseteq Nat
      /\ log \in [Stamps -> Nat] /\ admitted \in [Stamps -> Nat] /\ logDue \in Nat
      /\ logDue # 0 /\ clock >= logDue
      /\ log' = [t \in Stamps |-> 0] /\ logDue' = 0
      /\ UNCHANGED <<algorithm, overRedis, clock, counters, due, checking, admitted>>
  BY StampFacts DEF OvershootInv, GatewayTypeInv, GatewayLimitsTypeOK, LogExpires, Unchanged
<1>2. log' \in [Stamps -> Nat] /\ overRedis /\ \A t \in Stamps : log'[t] = 0
  BY <1>1 DEF GatewayTypeInv
<1>3. GatewayTypeInv'
  BY <1>1, <1>2 DEF GatewayTypeInv, GatewayLimitsTypeOK, Sliding
<1>4. ASSUME NEW start \in Stamps, Counts(start)' PROVE Stored(start)' /\ Bounded(start)'
  <2>1. Counts(start) /\ (Sliding' <=> Sliding)
    BY <1>1, <1>4 DEF Counts, Sliding
  <2>2. Had(start)' = Had(start) /\ Had(start) \in Nat
    BY <1>1, HadAfter
  <2>3. /\ Stored(start) /\ Bounded(start) /\ start \in Nat /\ In(start) \subseteq Stamps
        /\ Window \in Nat \ {0} /\ WindowOf(start)' = WindowOf(start) /\ In(start)' = In(start)
        /\ \A t \in In(start) : t \in Nat /\ start <= t
    BY <2>1, StoredFacts
  <2>4. Sliding => \A t \in Stamps : /\ log[t] <= admitted[t] /\ log[t] \in Nat /\ admitted[t] \in Nat
                                     /\ log[t] # 0 => t + Window < logDue
    BY <1>1 DEF OvershootInv, Counts, Stored
  <2>6. ASSUME Sliding PROVE Stored(start)' /\ (Intact(start)' => Intact(start))
    <3>1. Intact(start)' => Intact(start)
      <4> SUFFICES ASSUME Intact(start)', NEW t \in In(start) PROVE log[t] = admitted[t]
        BY <2>6 DEF Intact
      <4>1. t \in Stamps /\ admitted[t] = 0
        BY <1>1, <1>2, <2>1, <2>3, <2>6 DEF Intact
      <4> QED
        BY <2>4, <2>6, <4>1
    <3>2. clock < start + Window => Intact(start)'
      <4> SUFFICES ASSUME clock < start + Window, NEW t \in In(start) PROVE log'[t] = admitted'[t]
        BY <2>1, <2>3, <2>6 DEF Intact
      <4>1. log[t] = admitted[t] /\ t \in Stamps /\ t \in Nat /\ start <= t
        BY <2>3, <2>6 DEF Stored, Intact
      <4>2. log[t] # 0 => t + Window < logDue
        BY <2>4, <2>6, <4>1
      <4>3. log[t] = 0
        BY <1>1, <2>3, <4>1, <4>2
      <4> QED
        BY <1>1, <1>2, <4>1, <4>3
    <3>3. log'[start] <= admitted'[start] /\ log'[start] = 0
      BY <1>1, <1>2
    <3>4. Stored(start)'
      BY <1>1, <2>1, <2>6, <3>2, <3>3 DEF Stored
    <3> QED
      BY <3>1, <3>4
  <2>7. Stored(start)' /\ (Intact(start)' => Intact(start))
    <3>1. ~Sliding => Stored(start)' /\ (Intact(start)' => Intact(start))
      BY <1>1, <2>1, <2>2, <2>3 DEF Stored, Intact
    <3>2. Sliding => Stored(start)' /\ (Intact(start)' => Intact(start))
      BY <2>6
    <3> QED
      BY <3>1, <3>2
  <2>8. Ready(start)' \in SUBSET Ready(start) /\ Waiting(start)' \in SUBSET Waiting(start)
        /\ Waiting(start) \in SUBSET Checkers
    BY <1>1, <2>3 DEF Ready, Waiting, Below
  <2> QED
    BY <1>1, <1>2, <2>2, <2>3, <2>7, <2>8, BoundedQuiet
<1> QED
  BY <1>3, <1>4 DEF OvershootInv

\* The clock alone.
LEMMA StampAdvancesKeeps ==
    ASSUME GatewayLimitsAssumption, OvershootInv, StampAdvances
    PROVE  OvershootInv'
<1>1. /\ UNCHANGED <<algorithm, overRedis, counters, due, log, logDue, checking, admitted>>
      /\ clock \in Stamps /\ clock' = clock + 1 /\ clock' \in Stamps
      /\ Stamps \subseteq Nat /\ Window \in Nat /\ GatewayTypeInv
  BY StampFacts DEF StampAdvances, OvershootInv, GatewayTypeInv, GatewayLimitsTypeOK, Stamps, Storage
<1>2. GatewayTypeInv'
  <2>1. \A c \in Checkers : checking[c].now \in Nat /\ checking[c].now <= clock /\ clock \in Nat
    BY <1>1 DEF GatewayTypeInv, GatewayLimitsTypeOK
  <2>2. \A c \in Checkers : checking'[c].now <= clock'
    BY <1>1, <2>1
  <2> QED
    BY <1>1, <2>2 DEF GatewayTypeInv, GatewayLimitsTypeOK, Sliding
<1>3. ASSUME NEW start \in Stamps, Counts(start)' PROVE Stored(start)' /\ Bounded(start)'
  <2>1. /\ Intact(start)' = Intact(start) /\ Had(start)' = Had(start)
        /\ Ready(start)' = Ready(start) /\ Waiting(start)' = Waiting(start)
        /\ Extra' = Extra /\ Surplus' = Surplus
    BY <1>1 DEF Intact, Had, In, Ready, Waiting, Below, Extra, Callers, Surplus, Sliding, WindowOf
  <2>2. Stored(start) /\ Bounded(start)
    BY <1>1, <1>3 DEF OvershootInv, Counts, Sliding
  <2>3. /\ clock' < start + Window => clock < start + Window
        /\ start <= clock => start <= clock'
    BY <1>1
  <2>4. Stored(start)'
    BY <1>1, <2>1, <2>2, <2>3 DEF Stored, Sliding, WindowOf
  <2> QED
    BY <2>1, <2>2, <2>4 DEF Bounded
<1> QED
  BY <1>2, <1>3 DEF OvershootInv

\* At first nothing is admitted.
LEMMA OvershootStarts ==
    ASSUME GatewayLimitsAssumption, GatewayLimitsInit
    PROVE  OvershootInv
<1>1. /\ IsFiniteSet(Stamps) /\ Stamps \subseteq Nat /\ 0 \in Stamps
      /\ Limit \in Nat \ {0} /\ Callers \in Nat /\ Extra \in Nat
  BY StampFacts DEF Stamps, Extra
<1>2. GatewayTypeInv
  BY <1>1 DEF GatewayLimitsInit, GatewayTypeInv, GatewayLimitsTypeOK, NoCheck
<1>3. ASSUME NEW start \in Stamps PROVE Stored(start) /\ Bounded(start)
  <2>1. Had(start) = 0
    <3>1. IsFiniteSet(In(start)) /\ \A t \in In(start) : admitted[t] = 0
      BY <1>3, StampFacts DEF GatewayLimitsInit, In
    <3> QED
      BY <3>1, TotalZero DEF Had
  <2>2. /\ WindowOf(start) \in Windows /\ In(start) \subseteq Stamps
        /\ counters[WindowOf(start)] = 0 /\ due[WindowOf(start)] = 0 /\ logDue = 0
        /\ log[start] = 0 /\ admitted[start] = 0
    BY StampFacts, WindowFacts DEF GatewayLimitsInit
  <2>3. Ready(start) = {} /\ Intact(start)
    BY <2>1, <2>2 DEF GatewayLimitsInit, NoCheck, Ready, Intact
  <2>4. Cardinality(Ready(start)) = 0
    BY <2>3, FS_EmptySet
  <2> QED
    BY <1>1, <2>1, <2>2, <2>3, <2>4 DEF Stored, Bounded
<1> QED
  BY <1>2, <1>3 DEF OvershootInv

\* A window of the clock or of the log lets through the limit and what checks that
\* overlap over Redis, or outlive what was counted, may add to it, for any number
\* of callers, limit and window.
THEOREM GatewayOvershootIsBounded ==
    ASSUME GatewayLimitsAssumption
    PROVE  GatewayLimitsSpec => [](GatewayLimitsTypeOK /\ OvershootBounded)
<1>1. GatewayLimitsInit => OvershootInv
  BY OvershootStarts
<1>2. OvershootInv /\ [GatewayLimitsNext]_gatewayLimitVars => OvershootInv'
  <2> SUFFICES ASSUME OvershootInv, [GatewayLimitsNext]_gatewayLimitVars PROVE OvershootInv'
    OBVIOUS
  <2>1. CASE UNCHANGED gatewayLimitVars
    <3>1. UNCHANGED <<algorithm, overRedis, clock, counters, due, log, logDue, checking, admitted>>
      BY <2>1 DEF gatewayLimitVars
    <3>2. GatewayTypeInv'
      BY <3>1 DEF OvershootInv, GatewayTypeInv, GatewayLimitsTypeOK, Sliding
    <3>3. ASSUME NEW start \in Stamps, Counts(start)' PROVE Stored(start)' /\ Bounded(start)'
      <4>1. /\ Counts(start) /\ Intact(start)' = Intact(start) /\ Had(start)' = Had(start)
            /\ Ready(start)' = Ready(start) /\ Waiting(start)' = Waiting(start)
            /\ Extra' = Extra /\ Surplus' = Surplus
        BY <3>1, <3>3 DEF Counts, Intact, Had, In, Ready, Waiting, Below, Extra, Callers, Surplus,
           Sliding, WindowOf
      <4>2. Stored(start) /\ Bounded(start)
        BY <4>1 DEF OvershootInv
      <4>3. Stored(start)'
        BY <3>1, <4>1, <4>2 DEF Stored, Sliding, WindowOf
      <4> QED
        BY <4>1, <4>2, <4>3 DEF Bounded
    <3> QED
      BY <3>2, <3>3 DEF OvershootInv
  <2>2. CASE GatewayLimitsNext
    BY <2>2, CheckInMemoryKeeps, BeginKeeps, ReadCounterKeeps, ReadPreviousKeeps,
       CleanupExpiredKeeps, GetTimestampsKeeps, DecideKeeps, CounterExpiresKeeps,
       LogExpiresKeeps, StampAdvancesKeeps DEF GatewayLimitsNext
  <2> QED
    BY <2>1, <2>2
<1>3. OvershootInv => GatewayLimitsTypeOK /\ OvershootBounded
  <2> SUFFICES ASSUME OvershootInv, NEW start \in Stamps, Counts(start)
               PROVE  Had(start) <= Limit + Surplus
    BY DEF OvershootInv, GatewayTypeInv, OvershootBounded, Had, In, Counts, Sliding
  <2>1. /\ Bounded(start) /\ Had(start) \in Nat /\ GatewayTypeInv
    BY StoredFacts
  <2>2. /\ Limit \in Nat /\ Extra \in Nat /\ Surplus \in Nat /\ Extra <= Surplus
        /\ Cardinality(Ready(start)) \in Nat /\ Cardinality(Ready(start) \cup Waiting(start)) \in Nat
    <3>1. /\ Ready(start) \in SUBSET Checkers /\ Ready(start) \cup Waiting(start) \in SUBSET Checkers
          /\ Ready(start) \in SUBSET Ready(start)
          /\ Ready(start) \cup Waiting(start) \in SUBSET (Ready(start) \cup Waiting(start))
      BY DEF Ready, Waiting
    <3> QED
      BY <2>1, <3>1, ChecksOf
  <2> QED
    BY <2>1, <2>2 DEF Bounded
<1> QED
  BY <1>1, <1>2, <1>3, PTL DEF GatewayLimitsSpec
=============================================================================
