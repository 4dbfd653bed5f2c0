---------------------------- MODULE SumTheorems ----------------------------
(***************************************************************************)
(* Sums of a function over a finite set, as the books of the pool use them.*)
(* SumFunctionOnSet is a recursive function, so it has to be shown to be   *)
(* well defined first.  Induction over finite sets is by the smallest      *)
(* counterexample.                                                         *)
(***************************************************************************)
EXTENDS Functions, FiniteSetTheorems, TLAPS

\* A nonempty set of subsets of a finite set has a minimal element.
LEMMA SmallestSet ==
  ASSUME NEW S, IsFiniteSet(S), NEW B \in SUBSET SUBSET S, B # {}
  PROVE  \E T \in B : \A U \in SUBSET T : U # T => U \notin B
<1>1. IsWellFoundedOn(StrictSubsetOrdering(S), FiniteSubsetsOf(S))
  BY FS_StrictSubsetOrderingWellFounded
<1>2. B \subseteq FiniteSubsetsOf(S)
  BY FS_FiniteSubsetsOfFinite
<1>3. PICK T \in B : \A U \in B : <<U, T>> \notin StrictSubsetOrdering(S)
  BY <1>1, <1>2, WFMin
<1>4. QED
  BY <1>3 DEF StrictSubsetOrdering

-----------------------------------------------------------------------------
(* The recursive function is well defined.                                  *)

First(s) == CHOOSE x \in s : TRUE
Rest(s) == s \ {First(s)}
Equation(f, S, g) ==
  g = [s \in SUBSET S |-> IF s = {} THEN 0 ELSE f[First(s)] + g[Rest(s)]]
Iter(f, S) == CHOOSE g : Equation(f, S, g)

LEMMA SumIsIter ==
  ASSUME NEW f, NEW S PROVE SumFunctionOnSet(f, S) = Iter(f, S)[S]
BY DEF SumFunctionOnSet, FoldFunctionOnSet, MapThenFoldSet, Iter, Equation,
       First, Rest

LEMMA FirstIn == ASSUME NEW s, s # {} PROVE First(s) \in s
BY DEF First

\* The equation holds for the set, and all its subsets have the same sums.
Settled(f, T) ==
  /\ Equation(f, T, Iter(f, T))
  /\ \A W \in SUBSET T : Iter(f, T)[W] = Iter(f, W)[W]

LEMMA AllSettled ==
  ASSUME NEW f, NEW S, IsFiniteSet(S) PROVE Settled(f, S)
<1> DEFINE B == {T \in SUBSET S : ~Settled(f, T)}
<1> SUFFICES ASSUME B # {} PROVE FALSE
  OBVIOUS
<1>1. PICK T \in B : \A U \in SUBSET T : U # T => U \notin B
  <2>1. B \in SUBSET SUBSET S
    OBVIOUS
  <2> HIDE DEF B
  <2>2. QED
    BY <2>1, SmallestSet
<1>2. \A U \in SUBSET T : U # T => Settled(f, U)
  BY <1>1
<1> HIDE DEF B
<1> DEFINE v(s) == Iter(f, s)[s]
<1>3. ASSUME NEW V \in SUBSET T, V # T
      PROVE  v(V) = IF V = {} THEN 0 ELSE f[First(V)] + v(Rest(V))
  <2>1. Settled(f, V) /\ V \in SUBSET V /\ Rest(V) \in SUBSET V
    BY <1>2, <1>3 DEF Rest
  <2>2. Iter(f, V)[V] = IF V = {} THEN 0 ELSE f[First(V)] + Iter(f, V)[Rest(V)]
    BY <2>1 DEF Settled, Equation
  <2>3. Iter(f, V)[Rest(V)] = Iter(f, Rest(V))[Rest(V)]
    BY <2>1 DEF Settled
  <2>4. QED
    BY <2>2, <2>3
<1> DEFINE g == [W \in SUBSET T |-> IF W = {} THEN 0 ELSE f[First(W)] + v(Rest(W))]
<1>4. ASSUME NEW W \in SUBSET T, W # {} PROVE g[Rest(W)] = v(Rest(W))
  <2>1. Rest(W) \in SUBSET T /\ Rest(W) # T
    BY <1>4, FirstIn DEF Rest
  <2>2. QED
    BY <2>1, <1>3
<1>5. Equation(f, T, g)
  BY <1>4 DEF Equation
<1>6. Equation(f, T, Iter(f, T))
  BY <1>5 DEF Iter
<1> DEFINE h == Iter(f, T)
<1>7. \A W \in SUBSET T :
        h[W] = IF W = {} THEN 0 ELSE f[First(W)] + h[Rest(W)]
  BY <1>6 DEF Equation
<1> HIDE DEF g, h
<1> DEFINE D == {W \in SUBSET T : h[W] # v(W)}
<1>8. D = {}
  <2> SUFFICES ASSUME D # {} PROVE FALSE
    OBVIOUS
  <2>1. IsFiniteSet(T)
    BY FS_Subset DEF B
  <2>2. PICK W \in D : \A U \in SUBSET W : U # W => U \notin D
    <3>1. D \in SUBSET SUBSET T
      OBVIOUS
    <3> HIDE DEF D
    <3>2. QED
      BY <2>1, <3>1, SmallestSet
  <2>3. W # T
    BY <2>2 DEF h
  <2>4. v(W) = IF W = {} THEN 0 ELSE f[First(W)] + v(Rest(W))
    BY <1>3, <2>3
  <2>5. W # {} => h[Rest(W)] = v(Rest(W))
    BY <2>2, FirstIn DEF Rest
  <2>6. QED
    BY <1>7, <2>2, <2>4, <2>5
<1>9. Settled(f, T)
  BY <1>6, <1>8 DEF Settled, h
<1>10. QED
  BY <1>1, <1>9 DEF B

LEMMA SumEquation ==
  ASSUME NEW f, NEW S, IsFiniteSet(S)
  PROVE  SumFunctionOnSet(f, S) =
           IF S = {} THEN 0
           ELSE f[First(S)] + SumFunctionOnSet(f, Rest(S))
<1>1. Settled(f, S)
  BY AllSettled
<1>2. S \in SUBSET S /\ Rest(S) \in SUBSET S
  BY DEF Rest
<1>3. Iter(f, S)[S] = IF S = {} THEN 0 ELSE f[First(S)] + Iter(f, S)[Rest(S)]
  BY <1>1, <1>2 DEF Settled, Equation
<1>4. Iter(f, S)[Rest(S)] = Iter(f, Rest(S))[Rest(S)]
  BY <1>1, <1>2 DEF Settled
<1>5. QED
  BY <1>3, <1>4, SumIsIter

-----------------------------------------------------------------------------
(* What sums are used for.                                                  *)

LEMMA SumEmpty == ASSUME NEW f PROVE SumFunctionOnSet(f, {}) = 0
BY SumEquation, FS_EmptySet

\* Induction over the subsets of a finite set.
LEMMA SetInduction ==
  ASSUME NEW S, IsFiniteSet(S), NEW G,
         \A T \in SUBSET S : (\A U \in SUBSET T : U # T => U \in G) => T \in G
  PROVE  S \in G
<1> DEFINE B == {T \in SUBSET S : T \notin G}
<1>1. SUFFICES ASSUME B # {} PROVE FALSE
  OBVIOUS
<1>2. B \in SUBSET SUBSET S
  OBVIOUS
<1>3. PICK T \in B : \A U \in SUBSET T : U # T => U \notin B
  <2> HIDE DEF B
  <2>1. QED
    BY <1>1, <1>2, SmallestSet
<1>4. QED
  BY <1>3

\* A sum of integers is one.
LEMMA SumInt ==
  ASSUME NEW S, IsFiniteSet(S), NEW f, \A x \in S : f[x] \in Int
  PROVE  SumFunctionOnSet(f, S) \in Int
<1> DEFINE G == {T \in SUBSET S : SumFunctionOnSet(f, T) \in Int}
<1>1. ASSUME NEW T \in SUBSET S, \A U \in SUBSET T : U # T => U \in G
      PROVE  T \in G
  <2>1. CASE T = {}
    BY <2>1, SumEmpty
  <2>2. CASE T # {}
    <3>1. First(T) \in T /\ Rest(T) \in SUBSET T /\ Rest(T) # T
      BY <2>2, FirstIn DEF Rest
    <3>2. SumFunctionOnSet(f, Rest(T)) \in Int
      BY <1>1, <3>1
    <3>3. SumFunctionOnSet(f, T) = f[First(T)] + SumFunctionOnSet(f, Rest(T))
      BY <2>2, SumEquation, FS_Subset
    <3>4. QED
      BY <3>1, <3>2, <3>3
  <2>3. QED
    BY <2>1, <2>2
<1> HIDE DEF G
<1>2. S \in G
  BY <1>1, SetInduction
<1>3. QED
  BY <1>2 DEF G

\* Any element can be taken out of a sum.
LEMMA SumRemove ==
  ASSUME NEW S, IsFiniteSet(S), NEW f, \A x \in S : f[x] \in Int, NEW y \in S
  PROVE  SumFunctionOnSet(f, S) = f[y] + SumFunctionOnSet(f, S \ {y})
<1> DEFINE Sum(T) == SumFunctionOnSet(f, T)
           G == {T \in SUBSET S : \A z \in T : Sum(T) = f[z] + Sum(T \ {z})}
<1>0. ASSUME NEW T \in SUBSET S PROVE IsFiniteSet(T) /\ Sum(T) \in Int
  BY FS_Subset, SumInt
<1>1. ASSUME NEW T \in SUBSET S, \A U \in SUBSET T : U # T => U \in G,
             NEW z \in T
      PROVE  Sum(T) = f[z] + Sum(T \ {z})
  <2> DEFINE x == First(T)
  <2>1. x \in T /\ Rest(T) = T \ {x}
    BY FirstIn DEF Rest
  <2>2. Sum(T) = f[x] + Sum(T \ {x})
    BY <1>0, <2>1, SumEquation
  <2>3. CASE z = x
    BY <2>2, <2>3
  <2>4. CASE z # x
    <3> HIDE DEF x
    <3>1. T \ {x} \in G /\ T \ {z} \in G
      BY <1>1, <2>1
    <3> HIDE DEF Sum
    <3>2. Sum(T \ {x}) = f[z] + Sum((T \ {x}) \ {z})
      BY <2>4, <3>1
    <3>3. Sum(T \ {z}) = f[x] + Sum((T \ {z}) \ {x})
      BY <2>1, <2>4, <3>1
    <3>4. (T \ {x}) \ {z} = (T \ {z}) \ {x} /\ (T \ {x}) \ {z} \in SUBSET S
      OBVIOUS
    <3>5. Sum((T \ {x}) \ {z}) \in Int /\ f[x] \in Int /\ f[z] \in Int
      BY <1>0, <2>1, <3>4
    <3>6. Sum((T \ {z}) \ {x}) = Sum((T \ {x}) \ {z})
      BY <3>4
    <3>7. \A a, b, c \in Int : a + (b + c) = b + (a + c)
      OBVIOUS
    <3>8. QED
      BY <2>2, <3>2, <3>3, <3>5, <3>6, <3>7
  <2>5. QED
    BY <2>3, <2>4
<1>2. S \in G
  <2>1. \A T \in SUBSET S : (\A U \in SUBSET T : U # T => U \in G) => T \in G
    BY <1>1
  <2> HIDE DEF G
  <2>2. QED
    BY <2>1, SetInduction
<1>3. QED
  BY <1>2

\* A sum of numbers that are not negative is not negative.
LEMMA SumNat ==
  ASSUME NEW S, IsFiniteSet(S), NEW f, \A x \in S : f[x] \in Nat
  PROVE  SumFunctionOnSet(f, S) \in Nat
<1> DEFINE G == {T \in SUBSET S : SumFunctionOnSet(f, T) \in Nat}
<1>1. ASSUME NEW T \in SUBSET S, \A U \in SUBSET T : U # T => U \in G
      PROVE  T \in G
  <2>1. CASE T = {}
    BY <2>1, SumEmpty
  <2>2. CASE T # {}
    <3>1. First(T) \in T /\ Rest(T) \in SUBSET T /\ Rest(T) # T
      BY <2>2, FirstIn DEF Rest
    <3>2. SumFunctionOnSet(f, Rest(T)) \in Nat
      BY <1>1, <3>1
    <3>3. SumFunctionOnSet(f, T) = f[First(T)] + SumFunctionOnSet(f, Rest(T))
      BY <2>2, SumEquation, FS_Subset
    <3>4. QED
      BY <3>1, <3>2, <3>3
  <2>3. QED
    BY <2>1, <2>2
<1> HIDE DEF G
<1>2. S \in G
  BY <1>1, SetInduction
<1>3. QED
  BY <1>2 DEF G

\* Only the values on the set count.
LEMMA SumSame ==
  ASSUME NEW S, IsFiniteSet(S), NEW f, NEW g, \A x \in S : f[x] = g[x]
  PROVE  SumFunctionOnSet(f, S) = SumFunctionOnSet(g, S)
<1> DEFINE G == {T \in SUBSET S : SumFunctionOnSet(f, T) = SumFunctionOnSet(g, T)}
<1>1. ASSUME NEW T \in SUBSET S, \A U \in SUBSET T : U # T => U \in G
      PROVE  T \in G
  <2>1. CASE T = {}
    BY <2>1, SumEmpty
  <2>2. CASE T # {}
    <3>1. First(T) \in T /\ Rest(T) \in SUBSET T /\ Rest(T) # T
      BY <2>2, FirstIn DEF Rest
    <3>2. Rest(T) \in G
      BY <1>1, <3>1
    <3>3. IsFiniteSet(T)
      BY FS_Subset
    <3>4. /\ SumFunctionOnSet(f, T) = f[First(T)] + SumFunctionOnSet(f, Rest(T))
          /\ SumFunctionOnSet(g, T) = g[First(T)] + SumFunctionOnSet(g, Rest(T))
      BY <2>2, <3>3, SumEquation
    <3>5. QED
      BY <3>1, <3>2, <3>4
  <2>3. QED
    BY <2>1, <2>2
<1> HIDE DEF G
<1>2. S \in G
  BY <1>1, SetInduction
<1>3. QED
  BY <1>2 DEF G

\* A sum changes by what one of its values changes.
LEMMA SumChange ==
  ASSUME NEW S, IsFiniteSet(S), NEW f, NEW g, NEW y \in S,
         \A x \in S : f[x] \in Int /\ g[x] \in Int,
         \A x \in S \ {y} : f[x] = g[x]
  PROVE  SumFunctionOnSet(g, S) = SumFunctionOnSet(f, S) + (g[y] - f[y])
<1>1. IsFiniteSet(S \ {y})
  BY FS_Subset
<1>2. SumFunctionOnSet(f, S \ {y}) = SumFunctionOnSet(g, S \ {y})
  BY <1>1, SumSame
<1>3. /\ SumFunctionOnSet(f, S) = f[y] + SumFunctionOnSet(f, S \ {y})
      /\ SumFunctionOnSet(g, S) = g[y] + SumFunctionOnSet(g, S \ {y})
  BY SumRemove
<1>4. SumFunctionOnSet(f, S \ {y}) \in Int
  BY <1>1, SumInt
<1>5. QED
  BY <1>2, <1>3, <1>4

\* A larger set has a larger sum.
LEMMA SumSubset ==
  ASSUME NEW S, IsFiniteSet(S), NEW f, \A x \in S : f[x] \in Nat,
         NEW R \in SUBSET S
  PROVE  SumFunctionOnSet(f, R) <= SumFunctionOnSet(f, S)
<1> DEFINE Sum(T) == SumFunctionOnSet(f, T)
           G == {T \in SUBSET S : R \subseteq T => Sum(R) <= Sum(T)}
<1>1. ASSUME NEW T \in SUBSET S, \A U \in SUBSET T : U # T => U \in G,
             R \subseteq T
      PROVE  Sum(R) <= Sum(T)
  <2>1. IsFiniteSet(T) /\ Sum(T) \in Nat
    BY FS_Subset, SumNat
  <2>2. CASE R = T
    BY <2>1, <2>2
  <2>3. CASE R # T
    <3>1. PICK y \in T : y \notin R
      BY <1>1, <2>3
    <3>2. Sum(T) = f[y] + Sum(T \ {y})
      BY <2>1, SumRemove
    <3>3. IsFiniteSet(T \ {y}) /\ IsFiniteSet(R)
      BY <1>1, <2>1, FS_Subset
    <3>4. Sum(T \ {y}) \in Nat /\ Sum(R) \in Nat
      BY <3>3, SumNat
    <3>5. Sum(R) <= Sum(T \ {y})
      BY <1>1, <3>1
    <3>6. f[y] \in Nat
      OBVIOUS
    <3> HIDE DEF Sum
    <3>7. QED
      BY <3>2, <3>4, <3>5, <3>6
  <2>4. QED
    BY <2>2, <2>3
<1>2. \A T \in SUBSET S : (\A U \in SUBSET T : U # T => U \in G) => T \in G
  BY <1>1
<1> HIDE DEF G
<1>3. S \in G
  BY <1>2, SetInduction
<1>4. QED
  BY <1>3 DEF G

\* If every part, times t, is within a times its weight, so is the sum.
LEMMA SumWithinPart ==
  ASSUME NEW S, IsFiniteSet(S), NEW p, NEW w, NEW t \in Nat, NEW a \in Nat,
         \A x \in S : p[x] \in Nat /\ w[x] \in Nat /\ p[x] * t <= w[x] * a
  PROVE  SumFunctionOnSet(p, S) * t <= SumFunctionOnSet(w, S) * a
<1> DEFINE P(T) == SumFunctionOnSet(p, T)
           W(T) == SumFunctionOnSet(w, T)
           G == {T \in SUBSET S : P(T) * t <= W(T) * a}
<1>1. ASSUME NEW T \in SUBSET S, \A U \in SUBSET T : U # T => U \in G
      PROVE  P(T) * t <= W(T) * a
  <2>1. CASE T = {}
    BY <2>1, SumEmpty
  <2>2. CASE T # {}
    <3> DEFINE y == First(T)
               R == Rest(T)
    <3>1. y \in T /\ R \in SUBSET T /\ R # T /\ R \in SUBSET S
      BY <2>2, FirstIn DEF Rest
    <3>2. P(R) * t <= W(R) * a
      BY <1>1, <3>1
    <3>3. IsFiniteSet(T) /\ IsFiniteSet(R)
      BY <3>1, FS_Subset
    <3>4. P(T) = p[y] + P(R) /\ W(T) = w[y] + W(R)
      BY <2>2, <3>3, SumEquation
    <3>5. P(R) \in Nat /\ W(R) \in Nat
      BY <3>1, <3>3, SumNat
    <3>6. p[y] \in Nat /\ w[y] \in Nat /\ p[y] * t <= w[y] * a
      BY <3>1
    <3> HIDE DEF P, W, y, R
    <3>7. \A i, j, k \in Nat : (i + j) * k = i * k + j * k
      OBVIOUS
    <3>8. /\ P(T) * t = p[y] * t + P(R) * t
          /\ W(T) * a = w[y] * a + W(R) * a
      BY <3>4, <3>5, <3>6, <3>7
    <3>9. /\ p[y] * t \in Nat /\ P(R) * t \in Nat
          /\ w[y] * a \in Nat /\ W(R) * a \in Nat
      BY <3>5, <3>6
    <3>10. \A i, j, k, l \in Nat : i <= j /\ k <= l => i + k <= j + l
      OBVIOUS
    <3>11. QED
      BY <3>2, <3>6, <3>8, <3>9, <3>10
  <2>3. QED
    BY <2>1, <2>2
<1>2. \A T \in SUBSET S : (\A U \in SUBSET T : U # T => U \in G) => T \in G
  BY <1>1
<1> HIDE DEF G
<1>3. S \in G
  BY <1>2, SetInduction
<1>4. QED
  BY <1>3 DEF G

\* The image of a finite set is finite.
LEMMA FiniteImage ==
  ASSUME NEW S, IsFiniteSet(S), NEW b
  PROVE  IsFiniteSet({b[x] : x \in S})
<1> DEFINE G == {T \in SUBSET S : IsFiniteSet({b[x] : x \in T})}
<1>1. ASSUME NEW T \in SUBSET S, \A U \in SUBSET T : U # T => U \in G
      PROVE  T \in G
  <2>1. CASE T = {}
    <3>1. {b[x] : x \in T} = {}
      BY <2>1
    <3>2. QED
      BY <3>1, FS_EmptySet
  <2>2. CASE T # {}
    <3>1. PICK y \in T : TRUE
      BY <2>2
    <3>2. {b[x] : x \in T} = {b[x] : x \in T \ {y}} \cup {b[y]}
      OBVIOUS
    <3>3. IsFiniteSet({b[x] : x \in T \ {y}})
      BY <1>1
    <3>4. IsFiniteSet({b[x] : x \in T \ {y}} \cup {b[y]})
      BY <3>3, FS_AddElement
    <3>5. QED
      BY <3>2, <3>4
  <2>3. QED
    BY <2>1, <2>2
<1> HIDE DEF G
<1>2. S \in G
  BY <1>1, SetInduction
<1>3. QED
  BY <1>2 DEF G

\* A sum over an image is the sum over what is mapped, one to one.
LEMMA SumImage ==
  ASSUME NEW S, IsFiniteSet(S), NEW b, NEW f,
         \A x, y \in S : b[x] = b[y] => x = y,
         \A x \in S : f[b[x]] \in Int
  PROVE  SumFunctionOnSet(f, {b[x] : x \in S}) =
           SumFunctionOnSet([x \in S |-> f[b[x]]], S)
<1> DEFINE Im(T) == {b[x] : x \in T}
           h == [x \in S |-> f[b[x]]]
           G == {T \in SUBSET S :
                   SumFunctionOnSet(f, Im(T)) = SumFunctionOnSet(h, T)}
<1>1. ASSUME NEW T \in SUBSET S, \A U \in SUBSET T : U # T => U \in G
      PROVE  SumFunctionOnSet(f, Im(T)) = SumFunctionOnSet(h, T)
  <2>1. CASE T = {}
    <3>1. Im(T) = {}
      BY <2>1
    <3>2. QED
      BY <2>1, <3>1, SumEmpty
  <2>2. CASE T # {}
    <3>1. PICK y \in T : TRUE
      BY <2>2
    <3>2. IsFiniteSet(T) /\ IsFiniteSet(Im(T))
      BY FS_Subset, FiniteImage
    <3>3. /\ b[y] \in Im(T)
          /\ \A z \in Im(T) : f[z] \in Int
          /\ \A z \in T : h[z] \in Int
      OBVIOUS
    <3>4. /\ SumFunctionOnSet(f, Im(T)) =
               f[b[y]] + SumFunctionOnSet(f, Im(T) \ {b[y]})
          /\ SumFunctionOnSet(h, T) = h[y] + SumFunctionOnSet(h, T \ {y})
      <4> HIDE DEF h, Im
      <4>1. QED
        BY <3>2, <3>3, SumRemove
    <3>5. Im(T) \ {b[y]} = Im(T \ {y})
      OBVIOUS
    <3>6. SumFunctionOnSet(f, Im(T \ {y})) = SumFunctionOnSet(h, T \ {y})
      BY <1>1
    <3>7. QED
      BY <3>4, <3>5, <3>6
  <2>3. QED
    BY <2>1, <2>2
<1>2. \A T \in SUBSET S : (\A U \in SUBSET T : U # T => U \in G) => T \in G
  BY <1>1
<1> HIDE DEF G
<1>3. S \in G
  BY <1>2, SetInduction
<1>4. QED
  BY <1>3 DEF G

\* Two sets that do not meet have the sum of their sums.
LEMMA SumDisjoint ==
  ASSUME NEW S, IsFiniteSet(S), NEW R, IsFiniteSet(R), S \cap R = {}, NEW f,
         \A x \in S \cup R : f[x] \in Int
  PROVE  SumFunctionOnSet(f, S \cup R) =
           SumFunctionOnSet(f, S) + SumFunctionOnSet(f, R)
<1> DEFINE Sum(T) == SumFunctionOnSet(f, T)
           G == {T \in SUBSET R : Sum(S \cup T) = Sum(S) + Sum(T)}
<1>1. Sum(S) \in Int
  BY SumInt
<1>2. ASSUME NEW T \in SUBSET R, \A U \in SUBSET T : U # T => U \in G
      PROVE  Sum(S \cup T) = Sum(S) + Sum(T)
  <2>1. CASE T = {}
    <3>1. S \cup T = S /\ Sum(T) = 0
      BY <2>1, SumEmpty
    <3>2. QED
      BY <1>1, <3>1
  <2>2. CASE T # {}
    <3>1. PICK y \in T : TRUE
      BY <2>2
    <3>2. IsFiniteSet(T) /\ IsFiniteSet(S \cup T) /\ IsFiniteSet(T \ {y})
      BY FS_Subset, FS_Union
    <3>3. Sum(T) = f[y] + Sum(T \ {y})
      BY <3>2, SumRemove
    <3>4. Sum(S \cup T) = f[y] + Sum((S \cup T) \ {y})
      BY <3>2, SumRemove
    <3>5. (S \cup T) \ {y} = S \cup (T \ {y})
      BY <3>1
    <3>6. Sum(S \cup (T \ {y})) = Sum(S) + Sum(T \ {y})
      BY <1>2, <3>1
    <3>7. Sum(T \ {y}) \in Int /\ f[y] \in Int
      BY <3>2, SumInt
    <3>8. Sum(S \cup T) = f[y] + (Sum(S) + Sum(T \ {y}))
      BY <3>4, <3>5, <3>6
    <3> HIDE DEF Sum
    <3>9. \A a, b, c \in Int : a + (b + c) = b + (a + c)
      OBVIOUS
    <3>10. QED
      BY <1>1, <3>3, <3>7, <3>8, <3>9
  <2>3. QED
    BY <2>1, <2>2
<1>3. \A T \in SUBSET R : (\A U \in SUBSET T : U # T => U \in G) => T \in G
  BY <1>2
<1> HIDE DEF G
<1>4. R \in G
  BY <1>3, SetInduction
<1>5. QED
  BY <1>4 DEF G

\* Summing by a key and then over the keys is summing.
LEMMA SumByKey ==
  ASSUME NEW S, IsFiniteSet(S), NEW K, IsFiniteSet(K), NEW f, NEW key,
         \A x \in S : f[x] \in Int /\ key[x] \in K
  PROVE  SumFunctionOnSet(f, S) =
           SumFunctionOnSet(
             [k \in K |-> SumFunctionOnSet(f, {x \in S : key[x] = k})], K)
<1> DEFINE Sum(T) == SumFunctionOnSet(f, T)
           Of(T, k) == {x \in T : key[x] = k}
           By(T) == [k \in K |-> Sum(Of(T, k))]
           G == {T \in SUBSET S : Sum(T) = SumFunctionOnSet(By(T), K)}
<1>1. ASSUME NEW T \in SUBSET S, NEW k \in K
      PROVE  IsFiniteSet(Of(T, k)) /\ By(T)[k] = Sum(Of(T, k)) /\ By(T)[k] \in Int
  <2>1. IsFiniteSet(Of(T, k)) /\ \A x \in Of(T, k) : f[x] \in Int
    BY FS_Subset
  <2>2. QED
    BY <2>1, SumInt
<1>2. ASSUME NEW T \in SUBSET S, \A U \in SUBSET T : U # T => U \in G
      PROVE  Sum(T) = SumFunctionOnSet(By(T), K)
  <2>1. CASE T = {}
    <3>1. \A k \in K : By(T)[k] = 0
      <4>1. \A k \in K : Of(T, k) = {}
        BY <2>1
      <4>2. QED
        BY <4>1, SumEmpty
    <3>2. \A k \in K : By(T)[k] * 1 <= By(T)[k] * 0 /\ By(T)[k] \in Nat
      BY <3>1
    <3>3. SumFunctionOnSet(By(T), K) \in Nat
      <4> HIDE DEF By
      <4>1. QED
        BY <3>2, SumNat
    <3>4. SumFunctionOnSet(By(T), K) * 1 <= SumFunctionOnSet(By(T), K) * 0
      <4> HIDE DEF By
      <4>1. QED
        BY <3>2, SumWithinPart
    <3>5. SumFunctionOnSet(By(T), K) = 0
      <4> HIDE DEF By
      <4>1. QED
        BY <3>3, <3>4
    <3>6. QED
      BY <2>1, <3>5, SumEmpty
  <2>2. CASE T # {}
    <3>1. PICK y \in T : TRUE
      BY <2>2
    <3> DEFINE R == T \ {y}
               q == key[y]
    <3>2. q \in K /\ f[y] \in Int /\ R \in SUBSET S /\ R # T
      BY <3>1
    <3>3. IsFiniteSet(T) /\ \A x \in T : f[x] \in Int
      BY FS_Subset
    <3>4. Sum(T) = f[y] + Sum(R)
      BY <3>3, SumRemove
    <3>5. Sum(R) = SumFunctionOnSet(By(R), K)
      BY <1>2, <3>2
    <3>6. By(T)[q] = f[y] + By(R)[q]
      <4>1. y \in Of(T, q) /\ Of(R, q) = Of(T, q) \ {y}
        OBVIOUS
      <4>2. IsFiniteSet(Of(T, q)) /\ \A x \in Of(T, q) : f[x] \in Int
        BY <1>1, <3>2
      <4>3. Sum(Of(T, q)) = f[y] + Sum(Of(T, q) \ {y})
        <5> HIDE DEF Of
        <5>1. QED
          BY <4>1, <4>2, SumRemove
      <4>4. QED
        BY <1>1, <3>2, <4>1, <4>3
    <3>7. \A k \in K \ {q} : By(R)[k] = By(T)[k]
      <4>1. \A k \in K \ {q} : Of(R, k) = Of(T, k)
        OBVIOUS
      <4>2. QED
        BY <4>1
    <3>8. \A k \in K : By(R)[k] \in Int /\ By(T)[k] \in Int
      BY <1>1, <3>2
    <3>9. SumFunctionOnSet(By(T), K) =
            SumFunctionOnSet(By(R), K) + (By(T)[q] - By(R)[q])
      <4> HIDE DEF By, R, q
      <4>1. QED
        BY <3>2, <3>7, <3>8, SumChange
    <3>10. SumFunctionOnSet(By(R), K) \in Int
      <4> HIDE DEF By, R
      <4>1. QED
        BY <3>8, SumInt
    <3> HIDE DEF By, R, q, Sum
    <3>11. QED
      BY <3>2, <3>4, <3>5, <3>6, <3>8, <3>9, <3>10
  <2>3. QED
    BY <2>1, <2>2
<1>3. \A T \in SUBSET S : (\A U \in SUBSET T : U # T => U \in G) => T \in G
  BY <1>2
<1> HIDE DEF G
<1>4. S \in G
  BY <1>3, SetInduction
<1>5. QED
  BY <1>4 DEF G

\* Term by term smaller, a sum is smaller.
LEMMA SumMonotone ==
  ASSUME NEW S, IsFiniteSet(S), NEW f, NEW g,
         \A x \in S : f[x] \in Nat /\ g[x] \in Nat /\ f[x] <= g[x]
  PROVE  SumFunctionOnSet(f, S) <= SumFunctionOnSet(g, S)
<1>1. SumFunctionOnSet(f, S) * 1 <= SumFunctionOnSet(g, S) * 1
  BY SumWithinPart
<1>2. SumFunctionOnSet(f, S) \in Nat /\ SumFunctionOnSet(g, S) \in Nat
  BY SumNat
<1>3. QED
  BY <1>1, <1>2
=============================================================================
