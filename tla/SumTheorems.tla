---------------------------- MODULE SumTheorems ----------------------------
(***************************************************************************)
(* What SumFunctionOnSet of the module Functions, a fold, computes on      *)
(* finite sets of naturals: the facts that accounts kept in a counter rest *)
(* on.  Induction is on the cardinality, through the least number of a set *)
(* of counterexamples.                                                     *)
(***************************************************************************)
EXTENDS Integers, FiniteSets, Functions, FiniteSetTheorems,
        WellFoundedInduction, TLAPS

(* A set of naturals that is not empty has a least element.                *)
LEMMA LeastNat ==
    ASSUME NEW T, T \subseteq Nat, T # {}
    PROVE  \E n \in T : \A m \in T : n <= m
<1> DEFINE R == OpToRel(<, Nat)
<1>1. PICK x \in T : \A y \in T : ~ (<<y, x>> \in R)
  <2>1. IsWellFoundedOn(R, Nat)
    BY NatLessThanWellFounded
  <2> HIDE DEF R
  <2>2. QED
    BY <2>1, WFMin
<1>2. \A y \in T : ~(y < x)
  BY <1>1 DEF OpToRel
<1>3. QED
  BY <1>2

-----------------------------------------------------------------------------
(* The function the fold is defined by: the sums of all subsets of S.      *)
First(s) == CHOOSE x \in s : TRUE
Step(g, f, s) == IF s = {} THEN 0 ELSE f[First(s)] + g[s \ {First(s)}]
IsSum(g, f, S) == /\ g \in [SUBSET S -> Nat]
                  /\ \A s \in SUBSET S : g[s] = Step(g, f, s)

LEMMA FirstIn ==
    ASSUME NEW s, s # {}
    PROVE  First(s) \in s
  BY DEF First

LEMMA SumIs ==
    ASSUME NEW f, NEW S
    PROVE  SumFunctionOnSet(f, S) = (CHOOSE g : g = [s \in SUBSET S |-> Step(g, f, s)])[S]
  BY DEF SumFunctionOnSet, FoldFunctionOnSet, MapThenFoldSet, Step, First

LEMMA Smaller ==
    ASSUME NEW S, IsFiniteSet(S), NEW T \in SUBSET S, NEW x \in T
    PROVE  /\ IsFiniteSet(T) /\ Cardinality(T) \in Nat
           /\ T \ {x} \in SUBSET S
           /\ Cardinality(T \ {x}) = Cardinality(T) - 1
           /\ Cardinality(T) > 0
<1>1. IsFiniteSet(T)
  BY FS_Subset
<1>2. Cardinality(T) \in Nat
  BY <1>1, FS_CardinalityType
<1>3. Cardinality(T \ {x}) = Cardinality(T) - 1
  BY <1>1, FS_RemoveElement
<1>4. IsFiniteSet(T \ {x}) /\ Cardinality(T \ {x}) \in Nat
  BY <1>1, FS_Subset, FS_CardinalityType
<1>5. QED
  BY <1>1, <1>2, <1>3, <1>4

LEMMA SumExists ==
    ASSUME NEW f, NEW S, IsFiniteSet(S), \A x \in S : f[x] \in Nat
    PROVE  \E g : IsSum(g, f, S)
<1> DEFINE Small(n) == {s \in SUBSET S : Cardinality(s) <= n}
           Upto(g, n) == /\ g \in [Small(n) -> Nat]
                         /\ \A s \in Small(n) : g[s] = Step(g, f, s)
           Bad == {n \in Nat : ~\E g : Upto(g, n)}
<1>1. Bad = {}
  <2> SUFFICES ASSUME Bad # {}
               PROVE  FALSE
    OBVIOUS
  <2>1. PICK n \in Bad : \A m \in Bad : n <= m
    <3> HIDE DEF Bad
    <3>1. Bad \subseteq Nat
      BY DEF Bad
    <3>2. QED
      BY <3>1, LeastNat
  <2>2. CASE n = 0
    <3> DEFINE g == [s \in Small(0) |-> 0]
    <3>1. ASSUME NEW s \in Small(0)
          PROVE  s = {}
      <4>1. ASSUME NEW x \in s
            PROVE  FALSE
        <5>1. Cardinality(s) \in Nat /\ Cardinality(s) > 0
          BY Smaller
        <5>2. QED
          BY <5>1
      <4>2. QED
        BY <4>1
    <3>2. Upto(g, 0)
      BY <3>1 DEF Step
    <3>3. QED
      BY <2>2, <3>2
  <2>3. CASE n > 0
    <3>1. n - 1 \in Nat /\ n - 1 \notin Bad
      <4>1. n \in Nat
        OBVIOUS
      <4> HIDE DEF Bad
      <4>2. QED
        BY <4>1, <2>1, <2>3
    <3>2. PICK g : Upto(g, n - 1)
      BY <3>1
    <3> DEFINE h == [s \in Small(n) |-> IF s \in Small(n - 1) THEN g[s]
                                        ELSE Step(g, f, s)]
    <3>3. ASSUME NEW s \in Small(n), s # {}
          PROVE  First(s) \in S /\ s \ {First(s)} \in Small(n - 1)
      <4>1. First(s) \in s
        BY <3>3, FirstIn
      <4>2. QED
        BY <4>1, Smaller
    <3>4. \A s \in Small(n) : Step(g, f, s) \in Nat
      BY <3>2, <3>3 DEF Step
    <3>5. h \in [Small(n) -> Nat]
      BY <3>2, <3>4
    <3>6. Small(n - 1) \subseteq Small(n)
      <4>1. \A s \in SUBSET S : Cardinality(s) \in Nat
        BY FS_Subset, FS_CardinalityType
      <4>2. QED
        BY <4>1
    <3>7. \A s \in Small(n) : Step(h, f, s) = Step(g, f, s)
      BY <3>3, <3>6 DEF Step
    <3>8. \A s \in Small(n) : h[s] = Step(g, f, s)
      BY <3>2
    <3>9. Upto(h, n)
      BY <3>5, <3>7, <3>8
    <3>10. QED
      BY <3>9
  <2>4. QED
    BY <2>1, <2>2, <2>3
<1>2. Cardinality(S) \in Nat
  BY FS_CardinalityType
<1>3. PICK g : Upto(g, Cardinality(S))
  BY <1>1, <1>2
<1>4. Small(Cardinality(S)) = SUBSET S
  BY FS_Subset
<1>5. QED
  BY <1>3, <1>4 DEF IsSum

(* Functions that satisfy the equation of the sums of f and of e agree on  *)
(* a set on which f and e do.                                              *)
LEMMA SumAgree ==
    ASSUME NEW f, NEW e, NEW g, NEW h, NEW T, IsFiniteSet(T),
           \A s \in SUBSET T : g[s] = Step(g, f, s),
           \A s \in SUBSET T : h[s] = Step(h, e, s),
           \A x \in T : f[x] = e[x]
    PROVE  \A s \in SUBSET T : g[s] = h[s]
<1> DEFINE Bad == {n \in Nat : \E s \in SUBSET T : Cardinality(s) = n /\ g[s] # h[s]}
<1>1. Bad = {}
  <2> SUFFICES ASSUME Bad # {}
               PROVE  FALSE
    OBVIOUS
  <2>1. PICK n \in Bad : \A m \in Bad : n <= m
    <3> HIDE DEF Bad
    <3>1. Bad \subseteq Nat
      BY DEF Bad
    <3>2. QED
      BY <3>1, LeastNat
  <2>2. PICK s \in SUBSET T : Cardinality(s) = n /\ g[s] # h[s]
    OBVIOUS
  <2>3. s # {}
    BY <2>2 DEF Step
  <2> DEFINE x == First(s)
             t == s \ {x}
  <2>4. x \in s
    BY <2>3, FirstIn
  <2>5. t \in SUBSET T /\ Cardinality(t) = n - 1 /\ n - 1 \in Nat
    <3> HIDE DEF x
    <3>1. /\ Cardinality(s) \in Nat
          /\ t \in SUBSET T
          /\ Cardinality(t) = Cardinality(s) - 1
          /\ Cardinality(s) > 0
      BY <2>4, Smaller
    <3> HIDE DEF t
    <3>2. QED
      BY <2>2, <3>1
  <2>6. g[t] = h[t]
    <3>1. n - 1 \notin Bad
      <4>1. n \in Nat
        OBVIOUS
      <4> HIDE DEF Bad
      <4>2. QED
        BY <4>1, <2>1
    <3> HIDE DEF t
    <3>2. QED
      BY <2>5, <3>1
  <2>7. g[s] = f[x] + g[t] /\ h[s] = e[x] + h[t]
    BY <2>3 DEF Step
  <2>8. f[x] = e[x]
    BY <2>4
  <2>9. QED
    BY <2>2, <2>6, <2>7, <2>8
<1>2. ASSUME NEW s \in SUBSET T
      PROVE  g[s] = h[s]
  <2>1. Cardinality(s) \in Nat
    BY FS_Subset, FS_CardinalityType
  <2>2. Cardinality(s) \notin Bad
    BY <1>1
  <2>3. QED
    BY <2>1, <2>2
<1>3. QED
  BY <1>2

LEMMA SumChosen ==
    ASSUME NEW f, NEW S, IsFiniteSet(S), \A x \in S : f[x] \in Nat
    PROVE  \E g : IsSum(g, f, S) /\ SumFunctionOnSet(f, S) = g[S]
<1>1. PICK h : IsSum(h, f, S)
  BY SumExists
<1>2. h = [s \in SUBSET S |-> Step(h, f, s)]
  BY <1>1 DEF IsSum
<1> DEFINE g == CHOOSE g : g = [s \in SUBSET S |-> Step(g, f, s)]
<1>3. g = [s \in SUBSET S |-> Step(g, f, s)]
  BY <1>2
<1>4. SumFunctionOnSet(f, S) = g[S]
  BY SumIs
<1> HIDE DEF g
<1>5. \A s \in SUBSET S : g[s] = Step(g, f, s)
  BY <1>3
<1>6. \A s \in SUBSET S : h[s] = Step(h, f, s)
  BY <1>1 DEF IsSum
<1>7. \A s \in SUBSET S : g[s] = h[s]
  BY <1>5, <1>6, SumAgree
<1>8. SumFunctionOnSet(f, S) = h[S]
  BY <1>4, <1>7
<1>9. QED
  BY <1>1, <1>8

-----------------------------------------------------------------------------
(* The sum is a natural number and depends on the values on S only.        *)
LEMMA SumNat ==
    ASSUME NEW f, NEW S, IsFiniteSet(S), \A x \in S : f[x] \in Nat
    PROVE  SumFunctionOnSet(f, S) \in Nat
<1>1. PICK g : IsSum(g, f, S) /\ SumFunctionOnSet(f, S) = g[S]
  BY SumChosen
<1>2. QED
  BY <1>1 DEF IsSum

LEMMA SumSame ==
    ASSUME NEW f, NEW e, NEW S, IsFiniteSet(S),
           \A x \in S : f[x] \in Nat, \A x \in S : e[x] = f[x]
    PROVE  SumFunctionOnSet(e, S) = SumFunctionOnSet(f, S)
<1>1. PICK g : IsSum(g, f, S) /\ SumFunctionOnSet(f, S) = g[S]
  BY SumChosen
<1>2. \A x \in S : e[x] \in Nat
  OBVIOUS
<1>3. PICK h : IsSum(h, e, S) /\ SumFunctionOnSet(e, S) = h[S]
  BY <1>2, SumChosen
<1>4. /\ \A s \in SUBSET S : g[s] = Step(g, f, s)
      /\ \A s \in SUBSET S : h[s] = Step(h, e, s)
  BY <1>1, <1>3 DEF IsSum
<1>5. \A s \in SUBSET S : h[s] = g[s]
  BY <1>4, SumAgree
<1>6. QED
  BY <1>1, <1>3, <1>5

(* One step of the fold.                                                   *)
LEMMA SumEmpty ==
    ASSUME NEW f
    PROVE  SumFunctionOnSet(f, {}) = 0
<1>1. IsFiniteSet({}) /\ \A x \in {} : f[x] \in Nat
  BY FS_EmptySet
<1>2. PICK g : IsSum(g, f, {}) /\ SumFunctionOnSet(f, {}) = g[{}]
  BY <1>1, SumChosen
<1>3. QED
  BY <1>2 DEF IsSum, Step

LEMMA SumFirst ==
    ASSUME NEW f, NEW S, IsFiniteSet(S), \A x \in S : f[x] \in Nat, S # {}
    PROVE  SumFunctionOnSet(f, S)
             = f[First(S)] + SumFunctionOnSet(f, S \ {First(S)})
<1> DEFINE T == S \ {First(S)}
<1>1. PICK g : IsSum(g, f, S) /\ SumFunctionOnSet(f, S) = g[S]
  BY SumChosen
<1>2. IsFiniteSet(T) /\ T \in SUBSET S
  BY FS_Subset
<1>3. g[S] = f[First(S)] + g[T]
  BY <1>1 DEF IsSum, Step
<1> HIDE DEF T
<1>4. \A x \in T : f[x] \in Nat
  BY <1>2
<1>5. PICK h : IsSum(h, f, T) /\ SumFunctionOnSet(f, T) = h[T]
  BY <1>2, <1>4, SumChosen
<1>6. /\ \A s \in SUBSET T : g[s] = Step(g, f, s)
      /\ \A s \in SUBSET T : h[s] = Step(h, f, s)
  BY <1>1, <1>2, <1>5 DEF IsSum
<1>7. \A s \in SUBSET T : g[s] = h[s]
  BY <1>2, <1>6, SumAgree
<1>8. g[T] = h[T]
  BY <1>7
<1>9. QED
  BY <1>1, <1>3, <1>5, <1>8 DEF T

-----------------------------------------------------------------------------
(* Induction on a finite set: B holds all its subsets if it holds each one *)
(* that it holds all smaller ones of.                                      *)
LEMMA SubsetInduction ==
    ASSUME NEW S, IsFiniteSet(S), NEW B, {} \in B,
           \A T \in SUBSET S :
              T # {} /\ (\A x \in T : T \ {x} \in B) => T \in B
    PROVE  SUBSET S \subseteq B
<1> DEFINE Bad == {n \in Nat : \E s \in SUBSET S : Cardinality(s) = n /\ s \notin B}
<1>1. Bad = {}
  <2> SUFFICES ASSUME Bad # {}
               PROVE  FALSE
    OBVIOUS
  <2>1. PICK n \in Bad : \A m \in Bad : n <= m
    <3> HIDE DEF Bad
    <3>1. Bad \subseteq Nat
      BY DEF Bad
    <3>2. QED
      BY <3>1, LeastNat
  <2>2. PICK s \in SUBSET S : Cardinality(s) = n /\ s \notin B
    OBVIOUS
  <2>3. ASSUME NEW x \in s
        PROVE  s \ {x} \in B
    <3>1. /\ Cardinality(s) \in Nat
          /\ s \ {x} \in SUBSET S
          /\ Cardinality(s \ {x}) = Cardinality(s) - 1
          /\ Cardinality(s) > 0
      BY Smaller
    <3>2. n - 1 \in Nat /\ n - 1 \notin Bad
      <4>1. n \in Nat /\ n > 0
        BY <2>2, <3>1
      <4> HIDE DEF Bad
      <4>2. QED
        BY <4>1, <2>1
    <3>3. QED
      BY <2>2, <3>1, <3>2
  <2>4. QED
    BY <2>2, <2>3
<1>2. ASSUME NEW s \in SUBSET S
      PROVE  s \in B
  <2>1. Cardinality(s) \in Nat
    BY FS_Subset, FS_CardinalityType
  <2>2. Cardinality(s) \notin Bad
    BY <1>1
  <2>3. QED
    BY <2>1, <2>2
<1>3. QED
  BY <1>2

(* Any element can be taken out of a sum, not only the one the fold takes. *)
LEMMA SumRemove ==
    ASSUME NEW f, NEW S, IsFiniteSet(S), \A x \in S : f[x] \in Nat, NEW x \in S
    PROVE  SumFunctionOnSet(f, S) = f[x] + SumFunctionOnSet(f, S \ {x})
<1> DEFINE B == {T \in SUBSET S : \A y \in T :
                  SumFunctionOnSet(f, T) = f[y] + SumFunctionOnSet(f, T \ {y})}
<1>1. {} \in B
  OBVIOUS
<1>2. ASSUME NEW T \in SUBSET S, T # {}, \A y \in T : T \ {y} \in B
      PROVE  T \in B
  <2>1. \A R \in SUBSET T : IsFiniteSet(R) /\ \A y \in R : f[y] \in Nat
    BY FS_Subset
  <2>2. \A R \in SUBSET T : SumFunctionOnSet(f, R) \in Nat
    BY <2>1, SumNat
  <2> DEFINE a == First(T)
  <2>3. a \in T
    BY <1>2, FirstIn
  <2>4. SumFunctionOnSet(f, T) = f[a] + SumFunctionOnSet(f, T \ {a})
    BY <1>2, <2>1, SumFirst
  <2> HIDE DEF a
  <2>5. ASSUME NEW y \in T
        PROVE  SumFunctionOnSet(f, T) = f[y] + SumFunctionOnSet(f, T \ {y})
    <3>1. CASE y = a
      BY <3>1, <2>4
    <3>2. CASE y # a
      <4> DEFINE R == (T \ {a}) \ {y}
      <4>1. R = (T \ {y}) \ {a}
        OBVIOUS
      <4>2. SumFunctionOnSet(f, T \ {a}) = f[y] + SumFunctionOnSet(f, R)
        BY <1>2, <2>3, <3>2
      <4>3. SumFunctionOnSet(f, T \ {y}) = f[a] + SumFunctionOnSet(f, R)
        BY <1>2, <2>3, <3>2, <4>1
      <4>4. SumFunctionOnSet(f, R) \in Nat /\ f[a] \in Nat /\ f[y] \in Nat
        BY <2>1, <2>2, <2>3
      <4>5. QED
        BY <2>4, <4>2, <4>3, <4>4
    <3>3. QED
      BY <3>1, <3>2
  <2>6. QED
    BY <2>5
<1>3. SUBSET S \subseteq B
  <2> HIDE DEF B
  <2>1. \A T \in SUBSET S :
           T # {} /\ (\A y \in T : T \ {y} \in B) => T \in B
    BY <1>2
  <2>2. QED
    BY <1>1, <2>1, SubsetInduction
<1>4. S \in B
  BY <1>3
<1>5. QED
  BY <1>4

(* One more element.                                                       *)
LEMMA SumInsert ==
    ASSUME NEW f, NEW S, IsFiniteSet(S), NEW x, x \notin S,
           \A y \in S \cup {x} : f[y] \in Nat
    PROVE  SumFunctionOnSet(f, S \cup {x}) = f[x] + SumFunctionOnSet(f, S)
<1> DEFINE T == S \cup {x}
<1>1. IsFiniteSet(T)
  BY FS_AddElement
<1>2. x \in T /\ T \ {x} = S /\ \A y \in T : f[y] \in Nat
  OBVIOUS
<1> HIDE DEF T
<1>3. SumFunctionOnSet(f, T) = f[x] + SumFunctionOnSet(f, T \ {x})
  BY <1>1, <1>2, SumRemove
<1>4. QED
  BY <1>2, <1>3 DEF T

(* One value changed.                                                      *)
LEMMA SumChange ==
    ASSUME NEW f, NEW e, NEW S, IsFiniteSet(S), NEW x \in S,
           \A y \in S : f[y] \in Nat, e[x] \in Nat,
           \A y \in S \ {x} : e[y] = f[y]
    PROVE  SumFunctionOnSet(e, S) = SumFunctionOnSet(f, S) - f[x] + e[x]
<1> DEFINE T == S \ {x}
<1>1. IsFiniteSet(T)
  BY FS_Subset
<1>2. SumFunctionOnSet(f, S) = f[x] + SumFunctionOnSet(f, T)
  BY SumRemove
<1>3. \A y \in S : e[y] \in Nat
  OBVIOUS
<1>4. SumFunctionOnSet(e, S) = e[x] + SumFunctionOnSet(e, T)
  BY <1>3, SumRemove
<1>5. \A y \in T : f[y] \in Nat /\ e[y] = f[y]
  OBVIOUS
<1> HIDE DEF T
<1>6. SumFunctionOnSet(e, T) = SumFunctionOnSet(f, T)
  BY <1>1, <1>5, SumSame
<1>7. SumFunctionOnSet(f, T) \in Nat
  BY <1>1, <1>5, SumNat
<1>8. QED
  BY <1>2, <1>4, <1>6, <1>7

(* A set of many elements of some size has a large sum.                    *)
LEMMA SumAtLeast ==
    ASSUME NEW f, NEW S, IsFiniteSet(S), NEW m \in Nat,
           \A x \in S : f[x] \in Nat /\ f[x] >= m
    PROVE  SumFunctionOnSet(f, S) >= m * Cardinality(S)
<1> DEFINE B == {T \in SUBSET S : SumFunctionOnSet(f, T) >= m * Cardinality(T)}
<1>1. {} \in B
  BY SumEmpty, FS_EmptySet
<1>2. ASSUME NEW T \in SUBSET S, T # {}, \A y \in T : T \ {y} \in B
      PROVE  T \in B
  <2>1. PICK x \in T : TRUE
    BY <1>2
  <2> DEFINE R == T \ {x}
  <2>2. /\ IsFiniteSet(T) /\ Cardinality(T) \in Nat
        /\ R \in SUBSET S
        /\ Cardinality(R) = Cardinality(T) - 1
        /\ Cardinality(T) > 0
    BY Smaller
  <2>3. SumFunctionOnSet(f, T) = f[x] + SumFunctionOnSet(f, R)
    BY <2>2, SumRemove
  <2>4. SumFunctionOnSet(f, R) >= m * Cardinality(R)
    BY <1>2
  <2>5. IsFiniteSet(R)
    BY <2>2, FS_Subset
  <2>6. SumFunctionOnSet(f, R) \in Nat
    BY <2>2, <2>5, SumNat
  <2> HIDE DEF R
  <2>7. m * Cardinality(T) = m * Cardinality(R) + m
    <3>1. \A i \in Nat, j \in Nat : j > 0 => i * j = i * (j - 1) + i
      OBVIOUS
    <3>2. QED
      BY <2>2, <3>1
  <2>8. m * Cardinality(R) \in Nat
    BY <2>2
  <2>9. f[x] \in Nat /\ f[x] >= m
    OBVIOUS
  <2>10. QED
    BY <2>3, <2>4, <2>6, <2>7, <2>8, <2>9
<1>3. SUBSET S \subseteq B
  <2> HIDE DEF B
  <2>1. \A T \in SUBSET S :
           T # {} /\ (\A y \in T : T \ {y} \in B) => T \in B
    BY <1>2
  <2>2. QED
    BY <1>1, <2>1, SubsetInduction
<1>4. S \in B
  BY <1>3
<1>5. QED
  BY <1>4

(* More elements, all of one value.                                        *)
LEMMA SumBlock ==
    ASSUME NEW f, NEW S, IsFiniteSet(S), NEW D, IsFiniteSet(D), S \cap D = {},
           \A x \in S : f[x] \in Nat, NEW v \in Nat, \A x \in D : f[x] = v
    PROVE  SumFunctionOnSet(f, S \cup D)
             = SumFunctionOnSet(f, S) + v * Cardinality(D)
<1> DEFINE B == {T \in SUBSET D : SumFunctionOnSet(f, S \cup T)
                              = SumFunctionOnSet(f, S) + v * Cardinality(T)}
<1>0. SumFunctionOnSet(f, S) \in Nat
  BY SumNat
<1>1. {} \in B
  <2>1. S \cup {} = S /\ v * Cardinality({}) = 0
    BY FS_EmptySet
  <2>2. QED
    BY <1>0, <2>1
<1>2. ASSUME NEW T \in SUBSET D, T # {}, \A y \in T : T \ {y} \in B
      PROVE  T \in B
  <2>1. PICK x \in T : TRUE
    BY <1>2
  <2> DEFINE R == T \ {x}
  <2>2. /\ IsFiniteSet(T) /\ Cardinality(T) \in Nat
        /\ R \in SUBSET D
        /\ Cardinality(R) = Cardinality(T) - 1
        /\ Cardinality(T) > 0
    BY Smaller
  <2>3. IsFiniteSet(S \cup R)
    BY <2>2, FS_Subset, FS_Union
  <2>4. x \notin S \cup R /\ (S \cup R) \cup {x} = S \cup T
    OBVIOUS
  <2>5. \A y \in (S \cup R) \cup {x} : f[y] \in Nat
    OBVIOUS
  <2>6. SumFunctionOnSet(f, (S \cup R) \cup {x})
          = f[x] + SumFunctionOnSet(f, S \cup R)
    BY <2>3, <2>4, <2>5, SumInsert
  <2>7. SumFunctionOnSet(f, S \cup R)
          = SumFunctionOnSet(f, S) + v * Cardinality(R)
    BY <1>2
  <2> HIDE DEF R
  <2>8. v * Cardinality(T) = v * Cardinality(R) + v
    <3>1. \A i \in Nat, j \in Nat : j > 0 => i * j = i * (j - 1) + i
      OBVIOUS
    <3>2. QED
      BY <2>2, <3>1
  <2>9. v * Cardinality(R) \in Nat /\ f[x] = v
    BY <2>2
  <2>10. SumFunctionOnSet(f, S \cup T)
          = SumFunctionOnSet(f, S) + v * Cardinality(T)
    <3>1. SumFunctionOnSet(f, S \cup T)
            = v + (SumFunctionOnSet(f, S) + v * Cardinality(R))
      BY <2>4, <2>6, <2>7, <2>9
    <3>2. QED
      BY <1>0, <2>8, <2>9, <3>1
  <2>11. QED
    BY <2>10
<1>3. SUBSET D \subseteq B
  <2> HIDE DEF B
  <2>1. \A T \in SUBSET D :
           T # {} /\ (\A y \in T : T \ {y} \in B) => T \in B
    BY <1>2
  <2>2. QED
    BY <1>1, <2>1, SubsetInduction
<1>4. D \in B
  BY <1>3
<1>5. QED
  BY <1>4
=============================================================================
