----------------------------- MODULE DataLemmas -----------------------------
(***************************************************************************)
(* Lemmas about the operators of the community modules that the business   *)
(* engines and other modules are built from: sums of the values of a       *)
(* function over a finite set, sequences without repetition as sets, and   *)
(* functions that are computed place by place.                             *)
(* A sum is a fold, which is a recursive function over the subsets of a    *)
(* set: that the function exists is shown for subsets of at most n         *)
(* elements, n by n, and what it computes by taking a smallest set for     *)
(* which it would be wrong.                                                *)
(***************************************************************************)
EXTENDS Integers, Sequences, FiniteSets, Functions, SequencesExt, FiniteSetTheorems, SequenceTheorems,
        WellFoundedInduction, TLAPS

\* A nonempty set of natural numbers has a least element.
LEMMA FirstOf ==
  ASSUME NEW T, T \subseteq Nat, T # {}
  PROVE  \E m \in T : \A u \in T : m <= u
<1> DEFINE R == {p \in Nat \X Nat : p[1] < p[2]}
<1>0. IsWellFoundedOn(R, Nat) BY NatLessThanWellFounded, Zenon DEF OpToRel
<1> HIDE DEF R
<1>1. PICK m \in T : \A u \in T : ~(<<u, m>> \in R) BY <1>0, WFMin, Zenon
<1>2. ASSUME NEW u \in T PROVE m <= u
 <2>1. m \in Nat /\ u \in Nat /\ <<u, m>> \in Nat \X Nat BY <1>1, <1>2
 <2>2. ~(u < m) BY <1>1, <1>2, <2>1 DEF R
 <2> QED BY <2>1, <2>2
<1> QED BY <1>1, <1>2

\* A nonempty set of subsets of a finite set has one that contains no other.
LEMMA SmallestOf ==
  ASSUME NEW S, IsFiniteSet(S), NEW T, T \subseteq SUBSET S, T # {}
  PROVE  \E U \in T : \A V \in T : V \subseteq U => V = U
<1>1. T \subseteq FiniteSubsetsOf(S) BY FS_FiniteSubsetsOfFinite
<1>2. IsWellFoundedOn(StrictSubsetOrdering(S), FiniteSubsetsOf(S))
  BY FS_StrictSubsetOrderingWellFounded
<1>3. PICK U \in T : \A V \in T : ~(<<V, U>> \in StrictSubsetOrdering(S))
  BY <1>1, <1>2, WFMin, Zenon
<1>4. ASSUME NEW V \in T, V \subseteq U PROVE V = U
 <2>1. <<V, U>> \in (SUBSET S) \X (SUBSET S) BY <1>3
 <2> QED BY <1>3, <1>4, <2>1 DEF StrictSubsetOrdering
<1> QED BY <1>3, <1>4

\* A nonempty finite set of integers has a greatest and a least element.
LEMMA Extremes ==
  ASSUME NEW S, IsFiniteSet(S), S # {}, \A x \in S : x \in Int
  PROVE  /\ Max(S) \in S /\ \A y \in S : Max(S) >= y
         /\ Min(S) \in S /\ \A y \in S : Min(S) <= y
<1> DEFINE Bounded(U) == (\E x \in U : \A y \in U : x >= y) /\ (\E x \in U : \A y \in U : x <= y)
           Bad == {U \in SUBSET S : U # {} /\ ~ Bounded(U)}
<1>1. Bad = {}
 <2> SUFFICES ASSUME Bad # {} PROVE FALSE
   OBVIOUS
 <2>1. PICK U \in Bad : \A V \in Bad : V \subseteq U => V = U
  <3>1. Bad \subseteq SUBSET S OBVIOUS
  <3> HIDE DEF Bad
  <3> QED BY <3>1, SmallestOf
 <2>2. PICK x \in U : TRUE BY <2>1
 <2>3. U \ {x} \in SUBSET S /\ U \ {x} \subseteq U /\ U \ {x} # U /\ x \in Int BY <2>1, <2>2
 <2>4. CASE U \ {x} = {}
  <3>1. U = {x} BY <2>2, <2>4
  <3>2. \A y \in U : x >= y /\ x <= y BY <2>3, <3>1
  <3> QED BY <2>1, <2>2, <3>2
 <2>5. CASE U \ {x} # {}
  <3>1. Bounded(U \ {x}) BY <2>1, <2>3, <2>5
  <3>2. PICK a \in U \ {x} : \A y \in U \ {x} : a >= y BY <3>1
  <3>3. PICK b \in U \ {x} : \A y \in U \ {x} : b <= y BY <3>1
  <3>4. a \in Int /\ b \in Int /\ U \subseteq Int BY <2>1
  <3>5. \E c \in U : \A y \in U : c >= y
   <4>1. CASE a >= x
    <5>1. \A y \in U : a >= y BY <3>2, <4>1
    <5> QED BY <5>1
   <4>2. CASE ~(a >= x)
    <5>1. \A y \in U : x >= y BY <2>3, <3>2, <3>4, <4>2
    <5> QED BY <2>2, <5>1
   <4> QED BY <4>1, <4>2
  <3>6. \E c \in U : \A y \in U : c <= y
   <4>1. CASE b <= x
    <5>1. \A y \in U : b <= y BY <3>3, <4>1
    <5> QED BY <5>1
   <4>2. CASE ~(b <= x)
    <5>1. \A y \in U : x <= y BY <2>3, <3>3, <3>4, <4>2
    <5> QED BY <2>2, <5>1
   <4> QED BY <4>1, <4>2
  <3> QED BY <2>1, <3>5, <3>6
 <2> QED BY <2>4, <2>5
<1>2. Bounded(S) BY <1>1
<1> QED BY <1>2, Zenon DEF Max, Min

\* h is the sum of f over every subset of S, as the recursion of the fold has it.
IsSum(f, S, h) ==
  h = [s \in SUBSET S |-> IF s = {} THEN 0
                          ELSE f[CHOOSE x \in s : TRUE] + h[s \ {CHOOSE x \in s : TRUE}]]

\* SumFunctionOnSet, unfolded.
LEMMA SumUnfolds ==
   ASSUME NEW f, NEW S
   PROVE SumFunctionOnSet(f, S) = (CHOOSE h : IsSum(f, S, h))[S]
BY DEF SumFunctionOnSet, FoldFunctionOnSet, MapThenFoldSet, IsSum

\* There is a function that the recursion of a sum describes.
LEMMA SumExists ==
  ASSUME NEW f, NEW S, IsFiniteSet(S), \A x \in S : f[x] \in Int
  PROVE  \E h \in [SUBSET S -> Int] : IsSum(f, S, h)
<1> DEFINE c(s) == CHOOSE x \in s : TRUE
           Value(h, s) == IF s = {} THEN 0 ELSE f[c(s)] + h[s \ {c(s)}]
           Upto(h, n) == \A s \in SUBSET S : Cardinality(s) <= n => h[s] = Value(h, s)
           Bad == {n \in Nat : ~ \E h \in [SUBSET S -> Int] : Upto(h, n)}
<1>1. \A s \in SUBSET S : /\ IsFiniteSet(s) /\ Cardinality(s) \in Nat
                          /\ Cardinality(s) <= Cardinality(S)
                          /\ s # {} => /\ c(s) \in S /\ s \ {c(s)} \in SUBSET S
                                       /\ Cardinality(s \ {c(s)}) = Cardinality(s) - 1
 <2> SUFFICES ASSUME NEW s \in SUBSET S
              PROVE  /\ IsFiniteSet(s) /\ Cardinality(s) \in Nat
                     /\ Cardinality(s) <= Cardinality(S)
                     /\ s # {} => /\ c(s) \in S /\ s \ {c(s)} \in SUBSET S
                                  /\ Cardinality(s \ {c(s)}) = Cardinality(s) - 1
   OBVIOUS
 <2>1. IsFiniteSet(s) /\ Cardinality(s) <= Cardinality(S) /\ Cardinality(s) \in Nat
   BY FS_Subset, FS_CardinalityType
 <2>2. s # {} => c(s) \in s OBVIOUS
 <2>3. c(s) \in s => Cardinality(s \ {c(s)}) = Cardinality(s) - 1
  <3> HIDE DEF c
  <3> QED BY <2>1, FS_RemoveElement
 <2> QED BY <2>1, <2>2, <2>3
<1>2. 0 \notin Bad
 <2> DEFINE h == [s \in SUBSET S |-> 0]
 <2>1. \A s \in SUBSET S : Cardinality(s) <= 0 => s = {} BY <1>1, FS_EmptySet
 <2>2. h \in [SUBSET S -> Int] /\ Upto(h, 0) BY <2>1
 <2> QED BY <2>2
<1>3. ASSUME NEW n \in Nat, n \notin Bad PROVE n + 1 \notin Bad
 <2>1. PICK h \in [SUBSET S -> Int] : Upto(h, n) BY <1>3
 <2> DEFINE g == [s \in SUBSET S |-> IF Cardinality(s) <= n THEN h[s] ELSE Value(h, s)]
 <2>2. g \in [SUBSET S -> Int]
  <3>1. ASSUME NEW s \in SUBSET S PROVE Value(h, s) \in Int
   <4>1. s # {} => f[c(s)] \in Int /\ h[s \ {c(s)}] \in Int
    <5> HIDE DEF c
    <5> QED BY <1>1
   <4> HIDE DEF c
   <4> QED BY <4>1
  <3> HIDE DEF Value
  <3> QED BY <3>1
 <2>3. Upto(g, n + 1)
  <3> SUFFICES ASSUME NEW s \in SUBSET S, Cardinality(s) <= n + 1
               PROVE  g[s] = Value(g, s)
    OBVIOUS
  <3> HIDE DEF c
  <3>1. CASE s = {}
   <4>1. Cardinality(s) <= n BY <3>1, FS_EmptySet
   <4> QED BY <3>1, <4>1, <2>1
  <3>2. CASE s # {}
   <4>1. s \ {c(s)} \in SUBSET S /\ Cardinality(s \ {c(s)}) <= n BY <3>2, <1>1
   <4>2. g[s \ {c(s)}] = h[s \ {c(s)}] BY <4>1
   <4>3. g[s] = Value(h, s) BY <2>1
   <4> QED BY <4>2, <4>3, <3>2
  <3> QED BY <3>1, <3>2
 <2> HIDE DEF g, Upto
 <2> QED BY <2>2, <2>3
<1> HIDE DEF Upto
<1>4. Bad = {}
 <2> SUFFICES ASSUME Bad # {} PROVE FALSE
   OBVIOUS
 <2>1. PICK m \in Bad : \A n \in Bad : m <= n BY FirstOf
 <2>2. m \in Nat /\ m # 0 BY <2>1, <1>2
 <2> HIDE DEF Bad
 <2>3. m - 1 \in Nat /\ m - 1 \notin Bad BY <2>1, <2>2
 <2> QED BY <2>1, <2>2, <2>3, <1>3
<1>5. Cardinality(S) \in Nat BY FS_CardinalityType
<1>6. PICK h \in [SUBSET S -> Int] : Upto(h, Cardinality(S)) BY <1>4, <1>5
<1>7. \A s \in SUBSET S : h[s] = Value(h, s) BY <1>1, <1>6 DEF Upto
<1>8. IsSum(f, S, h) BY <1>7, Zenon DEF IsSum
<1> QED BY <1>8

\* The recursion determines its function.
LEMMA SumsAgree ==
  ASSUME NEW f, NEW S, IsFiniteSet(S), NEW T, T \subseteq S, NEW g, NEW h,
         IsSum(f, S, g), IsSum(f, T, h)
  PROVE  \A s \in SUBSET T : g[s] = h[s]
<1> DEFINE c(s) == CHOOSE x \in s : TRUE
           Bad == {s \in SUBSET T : g[s] # h[s]}
<1>1. IsFiniteSet(T) /\ Bad \subseteq SUBSET T BY FS_Subset
<1>2. \A s \in SUBSET T : s \in SUBSET S /\ (s # {} => c(s) \in s) OBVIOUS
<1>3. \A s \in SUBSET T : /\ g[s] = IF s = {} THEN 0 ELSE f[c(s)] + g[s \ {c(s)}]
                          /\ h[s] = IF s = {} THEN 0 ELSE f[c(s)] + h[s \ {c(s)}]
  BY <1>2, Zenon DEF IsSum
<1> SUFFICES ASSUME Bad # {} PROVE FALSE
  OBVIOUS
<1>4. PICK s \in Bad : \A u \in Bad : u \subseteq s => u = s
 <2> HIDE DEF Bad, c
 <2> QED BY <1>1, SmallestOf
<1>5. s # {} BY <1>3, <1>4
<1> HIDE DEF c
<1>6. s \ {c(s)} \in SUBSET T /\ s \ {c(s)} \subseteq s /\ s \ {c(s)} # s
  BY <1>2, <1>4, <1>5
<1>7. g[s \ {c(s)}] = h[s \ {c(s)}] BY <1>4, <1>6
<1> QED BY <1>3, <1>4, <1>5, <1>7

\* A sum starts at the element that is chosen.
LEMMA SumRecursion ==
  ASSUME NEW f, NEW S, IsFiniteSet(S), \A x \in S : f[x] \in Int
  PROVE  /\ SumFunctionOnSet(f, S) \in Int
         /\ S = {} => SumFunctionOnSet(f, S) = 0
         /\ S # {} => \E x \in S : /\ x = CHOOSE y \in S : TRUE
                                   /\ SumFunctionOnSet(f, S) = f[x] + SumFunctionOnSet(f, S \ {x})
<1> DEFINE H(T) == CHOOSE h : IsSum(f, T, h)
           c == CHOOSE y \in S : TRUE
<1>1. ASSUME NEW T \in SUBSET S
      PROVE  IsSum(f, T, H(T)) /\ H(T)[T] \in Int /\ SumFunctionOnSet(f, T) = H(T)[T]
 <2>1. IsFiniteSet(T) /\ \A x \in T : f[x] \in Int BY FS_Subset
 <2>2. PICK h \in [SUBSET T -> Int] : IsSum(f, T, h) BY <2>1, SumExists, Zenon
 <2>3. IsSum(f, T, H(T)) BY <2>2, Zenon
 <2> HIDE DEF H
 <2>4. H(T)[T] = h[T] BY <2>1, <2>2, <2>3, SumsAgree
 <2>5. SumFunctionOnSet(f, T) = H(T)[T] BY SumUnfolds, Zenon DEF H
 <2> QED BY <2>2, <2>3, <2>4, <2>5
<1>2. S \in SUBSET S /\ S \ {c} \in SUBSET S OBVIOUS
<1>3. H(S)[S] = IF S = {} THEN 0 ELSE f[c] + H(S)[S \ {c}]
 <2>1. IsSum(f, S, H(S)) BY <1>1, <1>2
 <2> HIDE DEF H
 <2> QED BY <2>1, <1>2, Zenon DEF IsSum
<1>4. H(S)[S \ {c}] = H(S \ {c})[S \ {c}]
 <2>1. IsSum(f, S, H(S)) /\ IsSum(f, S \ {c}, H(S \ {c})) BY <1>1, <1>2
 <2> HIDE DEF H, c
 <2>2. S \ {c} \subseteq S /\ S \ {c} \in SUBSET (S \ {c}) OBVIOUS
 <2>3. \A s \in SUBSET (S \ {c}) : H(S)[s] = H(S \ {c})[s] BY <2>1, <2>2, SumsAgree
 <2> QED BY <2>2, <2>3
<1>5. S # {} => c \in S OBVIOUS
<1> HIDE DEF H, c
<1>6. SumFunctionOnSet(f, S) = H(S)[S] /\ H(S)[S] \in Int
      /\ SumFunctionOnSet(f, S \ {c}) = H(S \ {c})[S \ {c}]
  BY <1>1, <1>2
<1>7. S # {} => /\ c = CHOOSE y \in S : TRUE
                /\ SumFunctionOnSet(f, S) = f[c] + SumFunctionOnSet(f, S \ {c})
  BY <1>3, <1>4, <1>6 DEF c
<1> QED BY <1>3, <1>5, <1>6, <1>7

\* Any element may be taken out of a sum.
LEMMA SumRemoves ==
  ASSUME NEW f, NEW S, IsFiniteSet(S), \A x \in S : f[x] \in Int, NEW e \in S
  PROVE  SumFunctionOnSet(f, S) = f[e] + SumFunctionOnSet(f, S \ {e})
<1> DEFINE Sum(T) == SumFunctionOnSet(f, T)
           Bad == {T \in SUBSET S : \E x \in T : Sum(T) # f[x] + Sum(T \ {x})}
<1>1. ASSUME NEW T \in SUBSET S
      PROVE  /\ Sum(T) \in Int
             /\ T # {} => \E x \in T : Sum(T) = f[x] + Sum(T \ {x})
 <2>1. IsFiniteSet(T) /\ \A x \in T : f[x] \in Int BY FS_Subset
 <2> QED BY <2>1, SumRecursion
<1> HIDE DEF Sum
<1> SUFFICES ASSUME Bad # {} PROVE FALSE
  BY DEF Sum
<1>2. PICK T \in Bad : \A U \in Bad : U \subseteq T => U = T
 <2>1. Bad \subseteq SUBSET S OBVIOUS
 <2> HIDE DEF Bad
 <2> QED BY <2>1, SmallestOf
<1>3. PICK x \in T : Sum(T) # f[x] + Sum(T \ {x}) BY <1>2
<1>4. PICK y \in T : Sum(T) = f[y] + Sum(T \ {y}) BY <1>1, <1>2
<1>5. x # y /\ x \in S /\ y \in S /\ f[x] \in Int /\ f[y] \in Int BY <1>2, <1>3, <1>4
<1>6. ASSUME NEW z \in T, NEW u \in T, u # z
      PROVE  Sum(T \ {z}) = f[u] + Sum((T \ {z}) \ {u})
 <2>1. T \ {z} \in SUBSET S /\ T \ {z} \subseteq T /\ T \ {z} # T /\ u \in T \ {z}
   BY <1>2, <1>6
 <2>2. T \ {z} \notin Bad BY <1>2, <2>1
 <2> QED BY <2>1, <2>2
<1>7. (T \ {x}) \ {y} = (T \ {y}) \ {x} /\ (T \ {x}) \ {y} \in SUBSET S BY <1>2
<1>8. Sum(T \ {x}) = f[y] + Sum((T \ {x}) \ {y}) BY <1>3, <1>4, <1>5, <1>6
<1>9. Sum(T \ {y}) = f[x] + Sum((T \ {x}) \ {y}) BY <1>3, <1>4, <1>5, <1>6, <1>7
<1>10. Sum((T \ {x}) \ {y}) \in Int BY <1>1, <1>7
<1> QED BY <1>3, <1>4, <1>5, <1>8, <1>9, <1>10

\* A new element is added.
LEMMA SumAdds ==
  ASSUME NEW f, NEW S, IsFiniteSet(S), NEW e, e \notin S, \A x \in S \cup {e} : f[x] \in Int
  PROVE  SumFunctionOnSet(f, S \cup {e}) = f[e] + SumFunctionOnSet(f, S)
<1>1. IsFiniteSet(S \cup {e}) /\ e \in S \cup {e} /\ (S \cup {e}) \ {e} = S BY FS_AddElement
<1>2. SumFunctionOnSet(f, S \cup {e}) = f[e] + SumFunctionOnSet(f, (S \cup {e}) \ {e})
  BY <1>1, SumRemoves
<1> QED BY <1>1, <1>2

\* A sum of sums.
LEMMA SumOfSums ==
  ASSUME NEW f, NEW g, NEW h, NEW S, IsFiniteSet(S),
         \A x \in S : f[x] \in Int /\ g[x] \in Int /\ h[x] \in Int /\ h[x] = f[x] + g[x]
  PROVE  SumFunctionOnSet(h, S) = SumFunctionOnSet(f, S) + SumFunctionOnSet(g, S)
<1> DEFINE F(T) == SumFunctionOnSet(f, T)
           G(T) == SumFunctionOnSet(g, T)
           H(T) == SumFunctionOnSet(h, T)
           Bad == {T \in SUBSET S : H(T) # F(T) + G(T)}
<1>1. ASSUME NEW T \in SUBSET S
      PROVE  /\ F(T) \in Int /\ G(T) \in Int /\ H(T) \in Int
             /\ T = {} => F(T) = 0 /\ G(T) = 0 /\ H(T) = 0
             /\ \A x \in T : F(T) = f[x] + F(T \ {x}) /\ G(T) = g[x] + G(T \ {x}) /\ H(T) = h[x] + H(T \ {x})
 <2>1. IsFiniteSet(T) /\ \A x \in T : f[x] \in Int /\ g[x] \in Int /\ h[x] \in Int
   BY FS_Subset
 <2>2. /\ F(T) \in Int /\ G(T) \in Int /\ H(T) \in Int
       /\ T = {} => F(T) = 0 /\ G(T) = 0 /\ H(T) = 0
   BY <2>1, SumRecursion
 <2>3. \A x \in T : F(T) = f[x] + F(T \ {x}) /\ G(T) = g[x] + G(T \ {x}) /\ H(T) = h[x] + H(T \ {x})
   BY <2>1, SumRemoves
 <2> QED BY <2>2, <2>3
<1> HIDE DEF F, G, H
<1> SUFFICES ASSUME Bad # {} PROVE FALSE
  BY DEF F, G, H
<1>2. PICK T \in Bad : \A U \in Bad : U \subseteq T => U = T
 <2>1. Bad \subseteq SUBSET S OBVIOUS
 <2> HIDE DEF Bad
 <2> QED BY <2>1, SmallestOf
<1>3. PICK x \in T : TRUE BY <1>1, <1>2
<1>4. T \in SUBSET S /\ T \ {x} \in SUBSET S /\ T \ {x} # T /\ T \ {x} \subseteq T
  BY <1>2, <1>3
<1>5. H(T \ {x}) = F(T \ {x}) + G(T \ {x}) BY <1>2, <1>4
<1>6. F(T) = f[x] + F(T \ {x}) /\ G(T) = g[x] + G(T \ {x}) /\ H(T) = h[x] + H(T \ {x})
  BY <1>1, <1>3, <1>4
<1>7. F(T \ {x}) \in Int /\ G(T \ {x}) \in Int /\ f[x] \in Int /\ g[x] \in Int /\ h[x] = f[x] + g[x]
  BY <1>1, <1>3, <1>4
<1>8. H(T) = F(T) + G(T) BY <1>5, <1>6, <1>7
<1> QED BY <1>2, <1>8

\* Zeros add up to zero.
LEMMA SumOfZeros ==
  ASSUME NEW f, NEW S, IsFiniteSet(S), \A x \in S : f[x] = 0
  PROVE  SumFunctionOnSet(f, S) = 0
<1> DEFINE z == SumFunctionOnSet(f, S)
<1>1. z = z + z BY SumOfSums
<1>2. z \in Int BY SumRecursion
<1>3. z = 0
 <2> HIDE DEF z
 <2> QED BY <1>1, <1>2
<1> QED BY <1>3

\* A sum depends on the values added only.
LEMMA SumSame ==
  ASSUME NEW f, NEW g, NEW S, IsFiniteSet(S), \A x \in S : f[x] \in Int /\ g[x] = f[x]
  PROVE  SumFunctionOnSet(g, S) = SumFunctionOnSet(f, S)
<1> DEFINE no == [x \in S |-> 0]
<1>1. \A x \in S : no[x] = 0 OBVIOUS
<1> HIDE DEF no
<1>2. SumFunctionOnSet(no, S) = 0 BY <1>1, SumOfZeros
<1>3. \A x \in S : f[x] \in Int /\ no[x] \in Int /\ g[x] \in Int /\ g[x] = f[x] + no[x]
  BY <1>1
<1>4. SumFunctionOnSet(g, S) = SumFunctionOnSet(f, S) + SumFunctionOnSet(no, S)
  BY <1>3, SumOfSums
<1>5. SumFunctionOnSet(f, S) \in Int BY SumRecursion
<1> QED BY <1>2, <1>4, <1>5

\* The values of one place changed.
LEMMA SumChanges ==
  ASSUME NEW f, NEW g, NEW S, IsFiniteSet(S), NEW e \in S,
         \A x \in S : f[x] \in Int /\ g[x] \in Int, \A x \in S \ {e} : g[x] = f[x]
  PROVE  SumFunctionOnSet(g, S) = SumFunctionOnSet(f, S) - f[e] + g[e]
<1>1. IsFiniteSet(S \ {e}) BY FS_RemoveElement
<1>2. SumFunctionOnSet(f, S) = f[e] + SumFunctionOnSet(f, S \ {e}) BY SumRemoves
<1>3. SumFunctionOnSet(g, S) = g[e] + SumFunctionOnSet(g, S \ {e}) BY SumRemoves
<1>4. SumFunctionOnSet(g, S \ {e}) = SumFunctionOnSet(f, S \ {e}) BY <1>1, SumSame
<1>5. SumFunctionOnSet(f, S \ {e}) \in Int BY <1>1, SumRecursion
<1> QED BY <1>2, <1>3, <1>4, <1>5

\* A sum over a set is the sum over a part of it and over the rest.
LEMMA SumParts ==
  ASSUME NEW f, NEW S, IsFiniteSet(S), \A x \in S : f[x] \in Int, NEW P
  PROVE  SumFunctionOnSet(f, S) = SumFunctionOnSet(f, S \cap P) + SumFunctionOnSet(f, S \ P)
<1> DEFINE F(T) == SumFunctionOnSet(f, T)
           Bad == {T \in SUBSET S : F(T) # F(T \cap P) + F(T \ P)}
<1>1. ASSUME NEW T \in SUBSET S
      PROVE  /\ F(T) \in Int
             /\ T = {} => F(T) = 0
             /\ \A x \in T : F(T) = f[x] + F(T \ {x})
 <2>1. IsFiniteSet(T) /\ \A x \in T : f[x] \in Int BY FS_Subset
 <2>2. F(T) \in Int /\ (T = {} => F(T) = 0) BY <2>1, SumRecursion
 <2>3. \A x \in T : F(T) = f[x] + F(T \ {x}) BY <2>1, SumRemoves
 <2> QED BY <2>2, <2>3
<1> HIDE DEF F
<1> SUFFICES ASSUME Bad # {} PROVE FALSE
  BY DEF F
<1>2. PICK T \in Bad : \A U \in Bad : U \subseteq T => U = T
 <2>1. Bad \subseteq SUBSET S OBVIOUS
 <2> HIDE DEF Bad
 <2> QED BY <2>1, SmallestOf
<1>3. T # {}
 <2>1. T = {} => T \cap P = {} /\ T \ P = {} OBVIOUS
 <2>2. {} \in SUBSET S OBVIOUS
 <2>3. F({}) = 0 BY <1>1, <2>2
 <2>4. T = {} => F(T) = F(T \cap P) + F(T \ P) BY <2>1, <2>3
 <2> QED BY <1>2, <2>4
<1>4. PICK x \in T : TRUE BY <1>3
<1>5. /\ T \in SUBSET S /\ T \ {x} \in SUBSET S /\ T \ {x} # T /\ T \ {x} \subseteq T
      /\ T \cap P \in SUBSET S /\ T \ P \in SUBSET S
  BY <1>2, <1>4
<1>6. F(T \ {x}) = F((T \ {x}) \cap P) + F((T \ {x}) \ P) BY <1>2, <1>5
<1>7. F(T) = f[x] + F(T \ {x}) /\ f[x] \in Int BY <1>1, <1>4, <1>5
<1>8. CASE x \in P
 <2>1. (T \ {x}) \cap P = (T \cap P) \ {x} /\ (T \ {x}) \ P = T \ P /\ x \in T \cap P
   BY <1>4, <1>8
 <2>2. F(T \cap P) = f[x] + F((T \cap P) \ {x}) BY <1>1, <1>5, <2>1
 <2>3. (T \cap P) \ {x} \in SUBSET S BY <1>5
 <2>4. F((T \cap P) \ {x}) \in Int /\ F(T \ P) \in Int BY <1>1, <1>5, <2>3
 <2>5. F(T \ {x}) = F((T \cap P) \ {x}) + F(T \ P) BY <1>6, <2>1
 <2>6. F(T) = F(T \cap P) + F(T \ P) BY <1>7, <2>2, <2>4, <2>5
 <2> QED BY <1>2, <2>6
<1>9. CASE x \notin P
 <2>1. (T \ {x}) \cap P = T \cap P /\ (T \ {x}) \ P = (T \ P) \ {x} /\ x \in T \ P
   BY <1>4, <1>9
 <2>2. F(T \ P) = f[x] + F((T \ P) \ {x}) BY <1>1, <1>5, <2>1
 <2>3. (T \ P) \ {x} \in SUBSET S BY <1>5
 <2>4. F((T \ P) \ {x}) \in Int /\ F(T \cap P) \in Int BY <1>1, <1>5, <2>3
 <2>5. F(T \ {x}) = F(T \cap P) + F((T \ P) \ {x}) BY <1>6, <2>1
 <2>6. F(T) = F(T \cap P) + F(T \ P) BY <1>7, <2>2, <2>4, <2>5
 <2> QED BY <1>2, <2>6
<1> QED BY <1>8, <1>9

\* The same when the part is a subset.
LEMMA SumSplits ==
  ASSUME NEW f, NEW S, IsFiniteSet(S), \A x \in S : f[x] \in Int, NEW P, P \subseteq S,
         NEW R, R = S \ P
  PROVE  SumFunctionOnSet(f, S) = SumFunctionOnSet(f, P) + SumFunctionOnSet(f, R)
<1>1. S \cap P = P OBVIOUS
<1>2. SumFunctionOnSet(f, S) = SumFunctionOnSet(f, S \cap P) + SumFunctionOnSet(f, S \ P)
  BY SumParts, Z3
<1> QED BY <1>1, <1>2

\* Two sets that share nothing are added up.
LEMMA SumJoins ==
  ASSUME NEW f, NEW S, NEW P, S \cap P = {}, IsFiniteSet(S \cup P), \A x \in S \cup P : f[x] \in Int
  PROVE  SumFunctionOnSet(f, S \cup P) = SumFunctionOnSet(f, S) + SumFunctionOnSet(f, P)
<1>1. S \subseteq S \cup P /\ P = (S \cup P) \ S OBVIOUS
<1> QED BY <1>1, SumSplits

\* A sum of natural numbers is one.
LEMMA SumIsNatural ==
  ASSUME NEW f, NEW S, IsFiniteSet(S), \A x \in S : f[x] \in Nat
  PROVE  SumFunctionOnSet(f, S) \in Nat
<1> DEFINE F(T) == SumFunctionOnSet(f, T)
           Bad == {T \in SUBSET S : F(T) \notin Nat}
<1>1. ASSUME NEW T \in SUBSET S
      PROVE  /\ T = {} => F(T) = 0
             /\ \A x \in T : F(T) = f[x] + F(T \ {x})
 <2>1. IsFiniteSet(T) /\ \A x \in T : f[x] \in Int BY FS_Subset
 <2>2. T = {} => F(T) = 0 BY <2>1, SumRecursion
 <2>3. \A x \in T : F(T) = f[x] + F(T \ {x}) BY <2>1, SumRemoves
 <2> QED BY <2>2, <2>3
<1> HIDE DEF F
<1> SUFFICES ASSUME Bad # {} PROVE FALSE
  BY DEF F
<1>2. PICK T \in Bad : \A U \in Bad : U \subseteq T => U = T
 <2>1. Bad \subseteq SUBSET S OBVIOUS
 <2> HIDE DEF Bad
 <2> QED BY <2>1, SmallestOf
<1>3. PICK x \in T : TRUE BY <1>1, <1>2
<1>4. T \in SUBSET S /\ T \ {x} \in SUBSET S /\ T \ {x} # T /\ T \ {x} \subseteq T
  BY <1>2, <1>3
<1>5. F(T \ {x}) \in Nat BY <1>2, <1>4
<1>6. F(T) = f[x] + F(T \ {x}) /\ f[x] \in Nat BY <1>1, <1>3, <1>4
<1> QED BY <1>2, <1>5, <1>6

-----------------------------------------------------------------------------
\* Sequences without repetition: the empty one.
LEMMA SetOfEmpty == ToSet(<<>>) = {} /\ IsInjective(<<>>)
BY DEF ToSet, IsInjective

\* Taking the head away takes it out of the set.
LEMMA SetOfTail ==
  ASSUME NEW S, NEW s \in Seq(S), IsInjective(s), s # <<>>
  PROVE  /\ Tail(s) \in Seq(S) /\ Head(s) \in S /\ Head(s) \in ToSet(s)
         /\ IsInjective(Tail(s))
         /\ ToSet(Tail(s)) = ToSet(s) \ {Head(s)}
<1>1. /\ Tail(s) \in Seq(S) /\ Len(s) \in Nat \ {0} /\ Head(s) = s[1]
      /\ Len(Tail(s)) = Len(s) - 1
      /\ \A i \in 1 .. Len(s) - 1 : Tail(s)[i] = s[i + 1]
  BY HeadTailProperties, ElementOfSeq
<1>2. DOMAIN s = 1 .. Len(s) /\ DOMAIN Tail(s) = 1 .. Len(s) - 1 BY <1>1
<1> DEFINE t == Tail(s)
           n == Len(s)
<1> HIDE DEF t
<1>3. /\ DOMAIN t = 1 .. n - 1 /\ DOMAIN s = 1 .. n /\ n \in Nat \ {0}
      /\ \A i \in 1 .. n - 1 : t[i] = s[i + 1] /\ i + 1 \in 1 .. n
  BY <1>1, <1>2 DEF t
<1> HIDE DEF n
<1>4. IsInjective(t)
 <2> SUFFICES ASSUME NEW i \in 1 .. n - 1, NEW j \in 1 .. n - 1, t[i] = t[j] PROVE i = j
   BY <1>3 DEF IsInjective
 <2>1. s[i + 1] = s[j + 1] /\ i + 1 \in 1 .. n /\ j + 1 \in 1 .. n BY <1>3
 <2>2. i + 1 = j + 1 BY <2>1, <1>3 DEF IsInjective
 <2> QED BY <2>2
<1>5. ASSUME NEW x \in ToSet(t) PROVE x \in ToSet(s) \ {s[1]}
 <2>1. PICK i \in 1 .. n - 1 : x = t[i] BY <1>3, <1>5 DEF ToSet
 <2>2. x = s[i + 1] /\ i + 1 \in 1 .. n /\ i + 1 # 1 /\ 1 \in 1 .. n BY <2>1, <1>3
 <2> QED BY <2>2, <1>3 DEF ToSet, IsInjective
<1>6. ASSUME NEW x \in ToSet(s) \ {s[1]} PROVE x \in ToSet(t)
 <2>1. PICK i \in 1 .. n : x = s[i] BY <1>3, <1>6 DEF ToSet
 <2>2. i - 1 \in 1 .. n - 1 /\ (i - 1) + 1 = i BY <1>6, <2>1, <1>3
 <2>3. t[i - 1] = x BY <2>1, <2>2, <1>3
 <2> QED BY <2>2, <2>3, <1>3 DEF ToSet
<1>7. s[1] \in ToSet(s) /\ s[1] \in S
 <2>1. 1 \in 1 .. n BY <1>3
 <2>2. s[1] \in S BY <2>1, ElementOfSeq DEF n
 <2> QED BY <1>3, <2>1, <2>2 DEF ToSet
<1>8. ToSet(t) = ToSet(s) \ {s[1]} BY <1>5, <1>6
<1> QED BY <1>1, <1>4, <1>7, <1>8 DEF t

\* Two sequences that share nothing are joined.
LEMMA SetOfConcat ==
  ASSUME NEW S, NEW s \in Seq(S), NEW r \in Seq(S), IsInjective(s), IsInjective(r),
         ToSet(s) \cap ToSet(r) = {}
  PROVE  /\ s \o r \in Seq(S) /\ IsInjective(s \o r)
         /\ ToSet(s \o r) = ToSet(s) \cup ToSet(r)
<1> DEFINE t == s \o r
           n == Len(s)
           m == Len(r)
<1>1. t \in Seq(S) /\ Len(t) = n + m /\ n \in Nat /\ m \in Nat BY ConcatProperties
<1>2. \A i \in 1 .. n + m : t[i] = IF i <= n THEN s[i] ELSE r[i - n] BY ConcatProperties
<1>3. DOMAIN s = 1 .. n /\ DOMAIN r = 1 .. m /\ DOMAIN t = 1 .. n + m BY <1>1
<1> HIDE DEF t, n, m
<1>4. \A i \in 1 .. n : i \in 1 .. n + m /\ t[i] = s[i] BY <1>1, <1>2
<1>5. \A i \in 1 .. m : i + n \in 1 .. n + m /\ t[i + n] = r[i] BY <1>1, <1>2
<1>6. \A i \in 1 .. n + m : i \in 1 .. n \/ (i - n \in 1 .. m /\ ~(i <= n)) BY <1>1
<1>7. \A i \in 1 .. n : s[i] \in ToSet(s) BY <1>3 DEF ToSet
<1>8. \A i \in 1 .. m : r[i] \in ToSet(r) BY <1>3 DEF ToSet
<1>9. ASSUME NEW i \in 1 .. n + m, NEW j \in 1 .. n + m, t[i] = t[j] PROVE i = j
 <2>1. CASE i \in 1 .. n /\ j \in 1 .. n BY <2>1, <1>9, <1>4, <1>3 DEF IsInjective
 <2>2. CASE i \in 1 .. n /\ ~(j <= n) /\ j - n \in 1 .. m
   BY <2>2, <1>9, <1>2, <1>4, <1>7, <1>8
 <2>3. CASE j \in 1 .. n /\ ~(i <= n) /\ i - n \in 1 .. m
   BY <2>3, <1>9, <1>2, <1>4, <1>7, <1>8
 <2>4. CASE ~(j <= n) /\ j - n \in 1 .. m /\ ~(i <= n) /\ i - n \in 1 .. m
  <3>1. r[i - n] = r[j - n] BY <2>4, <1>9, <1>2
  <3>2. i - n = j - n BY <2>4, <3>1, <1>3 DEF IsInjective
  <3> QED BY <3>2, <1>1
 <2> QED BY <1>6, <2>1, <2>2, <2>3, <2>4
<1>10. IsInjective(t) BY <1>3, <1>9 DEF IsInjective
<1>11. ASSUME NEW x \in ToSet(t) PROVE x \in ToSet(s) \cup ToSet(r)
 <2>1. PICK i \in 1 .. n + m : x = t[i] BY <1>3, <1>11 DEF ToSet
 <2> QED BY <2>1, <1>2, <1>4, <1>6, <1>7, <1>8
<1>12. ASSUME NEW x \in ToSet(s) PROVE x \in ToSet(t)
 <2>1. PICK i \in 1 .. n : x = s[i] BY <1>3, <1>12 DEF ToSet
 <2> QED BY <2>1, <1>3, <1>4 DEF ToSet
<1>13. ASSUME NEW x \in ToSet(r) PROVE x \in ToSet(t)
 <2>1. PICK i \in 1 .. m : x = r[i] BY <1>3, <1>13 DEF ToSet
 <2>2. i + n \in 1 .. n + m /\ t[i + n] = x BY <1>5, <2>1
 <2> QED BY <1>3, <2>2 DEF ToSet
<1>14. ToSet(t) = ToSet(s) \cup ToSet(r) BY <1>11, <1>12, <1>13
<1> QED BY <1>1, <1>10, <1>14 DEF t

\* A new element at the end.
LEMMA SetOfAppend ==
  ASSUME NEW S, NEW s \in Seq(S), NEW e \in S, IsInjective(s), e \notin ToSet(s)
  PROVE  /\ Append(s, e) \in Seq(S) /\ IsInjective(Append(s, e))
         /\ ToSet(Append(s, e)) = ToSet(s) \cup {e}
<1>1. <<e>> \in Seq(S) /\ IsInjective(<<e>>) /\ ToSet(<<e>>) = {e} BY DEF IsInjective, ToSet
<1>2. Append(s, e) = s \o <<e>> BY AppendIsConcat
<1>3. ToSet(s) \cap ToSet(<<e>>) = {} BY <1>1
<1> DEFINE r == <<e>>
<1>4. r \in Seq(S) /\ IsInjective(r) /\ ToSet(r) = {e} /\ ToSet(s) \cap ToSet(r) = {}
  BY <1>1, <1>3
<1> HIDE DEF r
<1>5. s \o r \in Seq(S) /\ IsInjective(s \o r) BY <1>4, SetOfConcat
<1>6. ToSet(s \o r) = ToSet(s) \cup ToSet(r) BY <1>4, SetOfConcat
<1>7. Append(s, e) = s \o r BY <1>2 DEF r
<1> QED BY <1>4, <1>5, <1>6, <1>7

\* As many elements as the sequence is long.
LEMMA SizeOfSet ==
  ASSUME NEW S, NEW s \in Seq(S), IsInjective(s)
  PROVE  IsFiniteSet(ToSet(s)) /\ Cardinality(ToSet(s)) = Len(s)
<1>1. Len(s) \in Nat /\ DOMAIN s = 1 .. Len(s) OBVIOUS
<1>2. s \in Bijection(1 .. Len(s), ToSet(s))
 <2>1. s \in [1 .. Len(s) -> ToSet(s)] BY <1>1 DEF ToSet
 <2>2. \A t \in ToSet(s) : \E i \in 1 .. Len(s) : s[i] = t BY <1>1 DEF ToSet
 <2> QED BY <2>1, <2>2 DEF Bijection, Injection, Surjection
<1>3. ExistsBijection(1 .. Len(s), ToSet(s)) BY <1>2 DEF ExistsBijection
<1> QED BY <1>1, <1>3, FS_CountingElements, FS_NatBijection

\* A sum over places counted from another start.
LEMMA SumShifts ==
  ASSUME NEW f, NEW g, NEW n \in Nat, NEW k \in Int,
         \A i \in 1 .. n : g[i] \in Int /\ f[i + k] = g[i]
  PROVE  SumFunctionOnSet(f, k + 1 .. k + n) = SumFunctionOnSet(g, 1 .. n)
<1> DEFINE F(m) == SumFunctionOnSet(f, k + 1 .. k + m)
           G(m) == SumFunctionOnSet(g, 1 .. m)
           Bad == {m \in 0 .. n : F(m) # G(m)}
<1>1. F(0) = 0 /\ G(0) = 0
 <2>1. k + 1 .. k + 0 = {} /\ 1 .. 0 = {} /\ IsFiniteSet({}) BY FS_EmptySet
 <2> QED BY <2>1, SumOfZeros
<1>2. ASSUME NEW m \in 1 .. n
      PROVE  F(m) = F(m - 1) + f[m + k] /\ G(m) = G(m - 1) + g[m] /\ F(m - 1) \in Int /\ G(m - 1) \in Int
 <2>1. /\ IsFiniteSet(k + 1 .. k + (m - 1)) /\ IsFiniteSet(1 .. m - 1)
       /\ m \notin 1 .. m - 1 /\ m + k \notin k + 1 .. k + (m - 1)
   BY FS_Interval
 <2>2. k + 1 .. k + m = (k + 1 .. k + (m - 1)) \cup {m + k} /\ 1 .. m = (1 .. m - 1) \cup {m}
   OBVIOUS
 <2>3. \A j \in (k + 1 .. k + (m - 1)) \cup {m + k} : f[j] \in Int
  <3> SUFFICES ASSUME NEW j \in (k + 1 .. k + (m - 1)) \cup {m + k} PROVE f[j] \in Int
    OBVIOUS
  <3>1. j - k \in 1 .. n /\ (j - k) + k = j OBVIOUS
  <3> QED BY <3>1
 <2>4. \A j \in (1 .. m - 1) \cup {m} : g[j] \in Int OBVIOUS
 <2>5. SumFunctionOnSet(f, (k + 1 .. k + (m - 1)) \cup {m + k})
         = f[m + k] + SumFunctionOnSet(f, k + 1 .. k + (m - 1))
   BY <2>1, <2>3, SumAdds
 <2>6. SumFunctionOnSet(g, (1 .. m - 1) \cup {m}) = g[m] + SumFunctionOnSet(g, 1 .. m - 1)
   BY <2>1, <2>4, SumAdds
 <2>7. F(m - 1) \in Int BY <2>1, <2>3, SumRecursion
 <2>8. G(m - 1) \in Int BY <2>1, <2>4, SumRecursion
 <2>9. f[m + k] \in Int /\ g[m] \in Int OBVIOUS
 <2> DEFINE a == SumFunctionOnSet(f, k + 1 .. k + (m - 1))
            b == SumFunctionOnSet(g, 1 .. m - 1)
 <2>10. F(m) = f[m + k] + a /\ G(m) = g[m] + b BY <2>2, <2>5, <2>6
 <2>11. F(m - 1) = a /\ G(m - 1) = b OBVIOUS
 <2> HIDE DEF F, G, a, b
 <2> QED BY <2>7, <2>8, <2>9, <2>10, <2>11
<1> HIDE DEF F, G
<1> SUFFICES F(n) = G(n)
  BY DEF F, G
<1> SUFFICES ASSUME Bad # {} PROVE FALSE
  OBVIOUS
<1>3. PICK m \in Bad : \A u \in Bad : m <= u
 <2>1. Bad \subseteq Nat /\ Bad # {} OBVIOUS
 <2> HIDE DEF Bad
 <2> QED BY <2>1, FirstOf
<1>4. m \in 1 .. n /\ m - 1 \notin Bad /\ m - 1 \in 0 .. n BY <1>1, <1>3
<1>5. F(m - 1) = G(m - 1) BY <1>4
<1> QED BY <1>2, <1>3, <1>4, <1>5

\* h has the n values of f and then the m values of g.
Joins(h, f, n, g, m) ==
  /\ \A i \in 1 .. n : f[i] \in Int /\ h[i] = f[i]
  /\ \A i \in 1 .. m : g[i] \in Int /\ h[i + n] = g[i]

\* The sum of a joined sequence.
LEMMA SumOfJoined ==
  ASSUME NEW f, NEW g, NEW h, NEW n \in Nat, NEW m \in Nat, Joins(h, f, n, g, m)
  PROVE  SumFunctionOnSet(h, 1 .. n + m) = SumFunctionOnSet(f, 1 .. n) + SumFunctionOnSet(g, 1 .. m)
<1>a. \A i \in 1 .. n : f[i] \in Int /\ h[i] = f[i] BY DEF Joins
<1>b. \A i \in 1 .. m : g[i] \in Int /\ h[i + n] = g[i] BY DEF Joins
<1>1. /\ 1 .. n + m = (1 .. n) \cup (n + 1 .. n + m)
      /\ (1 .. n) \cap (n + 1 .. n + m) = {}
  OBVIOUS
<1>2. IsFiniteSet((1 .. n) \cup (n + 1 .. n + m)) /\ IsFiniteSet(1 .. n)
 <2>1. IsFiniteSet(1 .. n) BY FS_Interval
 <2>2. IsFiniteSet(n + 1 .. n + m) BY FS_Interval
 <2> QED BY <2>1, <2>2, FS_Union
<1>3. \A i \in (1 .. n) \cup (n + 1 .. n + m) : h[i] \in Int
 <2> SUFFICES ASSUME NEW i \in (1 .. n) \cup (n + 1 .. n + m) PROVE h[i] \in Int
   OBVIOUS
 <2>1. CASE i \in 1 .. n BY <1>a, <2>1
 <2>2. CASE i \notin 1 .. n
  <3>1. i - n \in 1 .. m /\ (i - n) + n = i BY <2>2
  <3> QED BY <1>b, <3>1
 <2> QED BY <2>1, <2>2
<1>4. SumFunctionOnSet(h, (1 .. n) \cup (n + 1 .. n + m))
        = SumFunctionOnSet(h, 1 .. n) + SumFunctionOnSet(h, n + 1 .. n + m)
  BY <1>1, <1>2, <1>3, SumJoins
<1>5. SumFunctionOnSet(h, 1 .. n) = SumFunctionOnSet(f, 1 .. n) BY <1>a, <1>2, SumSame
<1>6. SumFunctionOnSet(h, n + 1 .. n + m) = SumFunctionOnSet(g, 1 .. m) BY <1>b, SumShifts
<1> QED BY <1>1, <1>4, <1>5, <1>6

(* What the elements of a sequence weigh together.                         *)

Sum(w, es) == SumFunctionOnSet([i \in DOMAIN es |-> w[es[i]]], DOMAIN es)

\* A sum of whole weights is whole, and natural where the weights are.
LEMMA SumType ==
  ASSUME NEW E, NEW es \in Seq(E), NEW w \in [E -> Int]
  PROVE  Sum(w, es) \in Int /\ (w \in [E -> Nat] => Sum(w, es) \in Nat)
<1> DEFINE f == [i \in DOMAIN es |-> w[es[i]]]
<1>1. DOMAIN es = 1 .. Len(es) /\ Len(es) \in Nat /\ \A i \in DOMAIN es : es[i] \in E
  OBVIOUS
<1>2. IsFiniteSet(DOMAIN es) BY <1>1, FS_Interval
<1>3. \A i \in DOMAIN es : f[i] \in Int BY <1>1
<1>4. w \in [E -> Nat] => \A i \in DOMAIN es : f[i] \in Nat BY <1>1
<1>5. Sum(w, es) = SumFunctionOnSet(f, DOMAIN es) BY DEF Sum
<1> HIDE DEF f
<1>6. SumFunctionOnSet(f, DOMAIN es) \in Int BY <1>2, <1>3, SumRecursion
<1>7. w \in [E -> Nat] => SumFunctionOnSet(f, DOMAIN es) \in Nat BY <1>2, <1>4, SumIsNatural
<1> QED BY <1>5, <1>6, <1>7

\* Sequences without weight.
LEMMA SumOfNone ==
  ASSUME NEW E, NEW es \in Seq(E), NEW w \in [E -> Int], \A i \in DOMAIN es : w[es[i]] = 0
  PROVE  Sum(w, es) = 0
<1> DEFINE f == [i \in DOMAIN es |-> w[es[i]]]
<1>1. DOMAIN es = 1 .. Len(es) /\ Len(es) \in Nat OBVIOUS
<1>2. IsFiniteSet(DOMAIN es) BY <1>1, FS_Interval
<1>3. \A i \in DOMAIN es : f[i] = 0 OBVIOUS
<1>4. Sum(w, es) = SumFunctionOnSet(f, DOMAIN es) BY DEF Sum
<1> HIDE DEF f
<1> QED BY <1>2, <1>3, <1>4, SumOfZeros

\* Only one of the events has weight.
LEMMA SumOfOne ==
  ASSUME NEW E, NEW es \in Seq(E), NEW w \in [E -> Int], NEW k \in DOMAIN es,
         \A i \in DOMAIN es : i # k => w[es[i]] = 0
  PROVE  Sum(w, es) = w[es[k]]
<1> DEFINE f == [i \in DOMAIN es |-> w[es[i]]]
           D == DOMAIN es \ {k}
<1>1. DOMAIN es = 1 .. Len(es) /\ Len(es) \in Nat /\ \A i \in DOMAIN es : es[i] \in E
  OBVIOUS
<1>2. IsFiniteSet(D)
 <2>1. IsFiniteSet(DOMAIN es) BY <1>1, FS_Interval
 <2> QED BY <2>1, FS_RemoveElement
<1>3. \A i \in DOMAIN es : f[i] \in Int BY <1>1
<1>4. Sum(w, es) = SumFunctionOnSet(f, DOMAIN es) /\ f[k] = w[es[k]] BY DEF Sum
<1>5. \A i \in D : f[i] = 0 OBVIOUS
<1>6. DOMAIN es = D \cup {k} /\ k \notin D OBVIOUS
<1> HIDE DEF f, D
<1>7. SumFunctionOnSet(f, D) = 0 BY <1>2, <1>5, SumOfZeros
<1>8. \A i \in D \cup {k} : f[i] \in Int BY <1>3, <1>6
<1>9. SumFunctionOnSet(f, D \cup {k}) = f[k] + SumFunctionOnSet(f, D)
  BY <1>2, <1>6, <1>8, SumAdds
<1> QED BY <1>3, <1>4, <1>6, <1>7, <1>9

\* The empty sequence weighs nothing, a single event what it weighs.
LEMMA SumOfEvents ==
  ASSUME NEW E, NEW w \in [E -> Int]
  PROVE  Sum(w, << >>) = 0 /\ \A e \in E : Sum(w, << e >>) = w[e]
<1>1. Sum(w, << >>) = 0
 <2> DEFINE es == << >>
 <2>1. es \in Seq(E) /\ \A i \in DOMAIN es : w[es[i]] = 0 OBVIOUS
 <2> HIDE DEF es
 <2>2. Sum(w, es) = 0 BY <2>1, SumOfNone
 <2> QED BY <2>2 DEF es
<1>2. ASSUME NEW e \in E PROVE Sum(w, << e >>) = w[e]
 <2> DEFINE es == << e >>
 <2>1. es \in Seq(E) /\ DOMAIN es = {1} /\ es[1] = e OBVIOUS
 <2> HIDE DEF es
 <2>2. 1 \in DOMAIN es /\ \A i \in DOMAIN es : i # 1 => w[es[i]] = 0 BY <2>1
 <2>3. Sum(w, es) = w[es[1]] BY <2>1, <2>2, SumOfOne
 <2> QED BY <2>1, <2>3 DEF es
<1> QED BY <1>1, <1>2

\* Joined sequences weigh what their parts weigh together.
LEMMA SumOfConcat ==
  ASSUME NEW E, NEW s \in Seq(E), NEW r \in Seq(E), NEW w \in [E -> Int]
  PROVE  Sum(w, s \o r) = Sum(w, s) + Sum(w, r)
<1> DEFINE t == s \o r
           f == [i \in DOMAIN s |-> w[s[i]]]
           g == [i \in DOMAIN r |-> w[r[i]]]
           h == [i \in DOMAIN t |-> w[t[i]]]
           n == Len(s)
           m == Len(r)
<1>1. /\ t \in Seq(E) /\ n \in Nat /\ m \in Nat
      /\ DOMAIN s = 1 .. n /\ DOMAIN r = 1 .. m /\ DOMAIN t = 1 .. n + m
      /\ \A i \in 1 .. n : t[i] = s[i] /\ s[i] \in E
      /\ \A i \in 1 .. m : t[i + n] = r[i] /\ r[i] \in E
  OBVIOUS
<1> HIDE DEF t, n, m
<1>2. \A i \in 1 .. n : f[i] \in Int /\ h[i] = f[i] BY <1>1
<1>3. \A i \in 1 .. m : g[i] \in Int /\ h[i + n] = g[i]
 <2> SUFFICES ASSUME NEW i \in 1 .. m PROVE g[i] \in Int /\ h[i + n] = g[i]
   OBVIOUS
 <2>1. i + n \in 1 .. n + m BY <1>1
 <2> QED BY <1>1, <2>1
<1>4. /\ Sum(w, s) = SumFunctionOnSet(f, 1 .. n)
      /\ Sum(w, r) = SumFunctionOnSet(g, 1 .. m)
      /\ Sum(w, t) = SumFunctionOnSet(h, 1 .. n + m)
  BY <1>1 DEF Sum
<1> HIDE DEF f, g, h
<1>5. SumFunctionOnSet(h, 1 .. n + m) = SumFunctionOnSet(f, 1 .. n) + SumFunctionOnSet(g, 1 .. m)
 <2>1. n \in Nat /\ m \in Nat BY <1>1
 <2>2. Joins(h, f, n, g, m) BY <1>2, <1>3 DEF Joins
 <2> QED BY <2>1, <2>2, SumOfJoined
<1> QED BY <1>4, <1>5 DEF t

\* The front of a queue.
LEMMA SumOfTail ==
  ASSUME NEW E, NEW s \in Seq(E), s # << >>, NEW w \in [E -> Int]
  PROVE  /\ Head(s) \in E /\ Tail(s) \in Seq(E)
         /\ Sum(w, s) = w[Head(s)] + Sum(w, Tail(s))
<1>1. Head(s) \in E /\ Tail(s) \in Seq(E) /\ s = << Head(s) >> \o Tail(s) OBVIOUS
<1>2. << Head(s) >> \in Seq(E) BY <1>1
<1>3. Sum(w, << Head(s) >> \o Tail(s)) = Sum(w, << Head(s) >>) + Sum(w, Tail(s))
  BY <1>1, <1>2, SumOfConcat
<1> QED BY <1>1, <1>3, SumOfEvents

\* Where a sum of natural weights is 0, nothing has weight.
LEMMA SumIsPositive ==
  ASSUME NEW E, NEW es \in Seq(E), NEW w \in [E -> Nat], NEW k \in DOMAIN es
  PROVE  w[es[k]] <= Sum(w, es)
<1> DEFINE f == [i \in DOMAIN es |-> w[es[i]]]
           D == DOMAIN es \ {k}
<1>1. DOMAIN es = 1 .. Len(es) /\ Len(es) \in Nat /\ \A i \in DOMAIN es : es[i] \in E
  OBVIOUS
<1>2. IsFiniteSet(D)
 <2>1. IsFiniteSet(DOMAIN es) BY <1>1, FS_Interval
 <2> QED BY <2>1, FS_RemoveElement
<1>3. \A i \in DOMAIN es : f[i] \in Nat BY <1>1
<1>4. Sum(w, es) = SumFunctionOnSet(f, DOMAIN es) /\ f[k] = w[es[k]] BY DEF Sum
<1>6. DOMAIN es = D \cup {k} /\ k \notin D OBVIOUS
<1> HIDE DEF f, D
<1>7. SumFunctionOnSet(f, D) \in Nat
 <2>1. \A i \in D : f[i] \in Nat BY <1>3, <1>6
 <2> QED BY <1>2, <2>1, SumIsNatural
<1>8. \A i \in D \cup {k} : f[i] \in Int BY <1>3, <1>6
<1>9. SumFunctionOnSet(f, D \cup {k}) = f[k] + SumFunctionOnSet(f, D)
  BY <1>2, <1>6, <1>8, SumAdds
<1> QED BY <1>3, <1>4, <1>6, <1>7, <1>9

-----------------------------------------------------------------------------
\* A sum, class by class.
LEMMA SumByClass ==
  ASSUME NEW f, NEW S, IsFiniteSet(S), \A x \in S : f[x] \in Int,
         NEW T, IsFiniteSet(T), NEW C, \A k \in T : C[k] \subseteq S,
         \A x \in S : \E k \in T : x \in C[k],
         \A k, l \in T : \A x \in S : x \in C[k] /\ x \in C[l] => k = l,
         NEW g, \A k \in T : g[k] = SumFunctionOnSet(f, C[k])
  PROVE  SumFunctionOnSet(g, T) = SumFunctionOnSet(f, S)
<1> DEFINE In(U) == {x \in S : \E k \in U : x \in C[k]}
           Of(k) == C[k]
           F(U) == SumFunctionOnSet(f, In(U))
           G(U) == SumFunctionOnSet(g, U)
           Bad == {U \in SUBSET T : G(U) # F(U)}
<1>1. \A k \in T : IsFiniteSet(Of(k)) /\ g[k] = SumFunctionOnSet(f, Of(k)) /\ g[k] \in Int
 <2> SUFFICES ASSUME NEW k \in T
              PROVE  IsFiniteSet(Of(k)) /\ g[k] = SumFunctionOnSet(f, Of(k)) /\ g[k] \in Int
   OBVIOUS
 <2>1. Of(k) \subseteq S OBVIOUS
 <2>2. IsFiniteSet(Of(k)) BY <2>1, FS_Subset
 <2>3. \A x \in Of(k) : f[x] \in Int OBVIOUS
 <2>4. SumFunctionOnSet(f, Of(k)) \in Int
  <3> HIDE DEF Of
  <3> QED BY <2>2, <2>3, SumRecursion
 <2> QED BY <2>2, <2>4
<1>2. G({}) = F({})
 <2>1. In({}) = {} /\ IsFiniteSet({}) BY FS_EmptySet
 <2>2. SumFunctionOnSet(g, {}) = 0 /\ SumFunctionOnSet(f, {}) = 0 BY <2>1, SumOfZeros
 <2> QED BY <2>1, <2>2
<1>3. ASSUME NEW U \in SUBSET T, NEW k \in U
      PROVE  /\ F(U) = F(U \ {k}) + g[k] /\ G(U) = G(U \ {k}) + g[k]
             /\ F(U \ {k}) \in Int /\ G(U \ {k}) \in Int
 <2>1. In(U) = In(U \ {k}) \cup Of(k) /\ In(U \ {k}) \cap Of(k) = {} /\ In(U) \subseteq S
   OBVIOUS
 <2>2. IsFiniteSet(In(U)) /\ IsFiniteSet(In(U \ {k})) BY <2>1, FS_Subset
 <2>3. \A x \in In(U) : f[x] \in Int BY <2>1
 <2> DEFINE A == In(U \ {k})
            B == Of(k)
            D == In(U)
 <2>4. D = A \cup B /\ A \cap B = {} /\ IsFiniteSet(D) /\ IsFiniteSet(A) /\ \A x \in D : f[x] \in Int
   BY <2>1, <2>2, <2>3
 <2>5. g[k] = SumFunctionOnSet(f, B) /\ g[k] \in Int BY <1>1
 <2>6. F(U) = SumFunctionOnSet(f, D) /\ F(U \ {k}) = SumFunctionOnSet(f, A) OBVIOUS
 <2> HIDE DEF A, B, D
 <2>7. SumFunctionOnSet(f, A \cup B) = SumFunctionOnSet(f, A) + SumFunctionOnSet(f, B)
   BY <2>4, SumJoins
 <2>8. \A x \in A : f[x] \in Int BY <2>4
 <2>9. SumFunctionOnSet(f, A) \in Int BY <2>4, <2>8, SumRecursion
 <2>10. IsFiniteSet(U) /\ IsFiniteSet(U \ {k}) /\ \A x \in U : g[x] \in Int
   BY <1>1, FS_Subset
 <2>11. G(U) = g[k] + G(U \ {k}) BY <2>10, SumRemoves
 <2>12. G(U \ {k}) \in Int BY <2>10, SumRecursion
 <2> HIDE DEF F, G
 <2> QED BY <2>4, <2>5, <2>6, <2>7, <2>9, <2>11, <2>12
<1>4. In(T) = S /\ T \in SUBSET T OBVIOUS
<1>5. F(T) = SumFunctionOnSet(f, S) /\ G(T) = SumFunctionOnSet(g, T) BY <1>4
<1> HIDE DEF F, G
<1> SUFFICES ASSUME Bad # {} PROVE FALSE
  BY <1>4, <1>5
<1>6. PICK U \in Bad : \A V \in Bad : V \subseteq U => V = U
 <2>1. Bad \subseteq SUBSET T /\ Bad # {} /\ IsFiniteSet(T) OBVIOUS
 <2> HIDE DEF Bad
 <2> QED BY <2>1, SmallestOf
<1>7. U # {} /\ U \in SUBSET T BY <1>2, <1>6
<1>8. PICK k \in U : TRUE BY <1>7
<1>9. U \ {k} \in SUBSET T /\ U \ {k} # U /\ U \ {k} \subseteq U BY <1>7, <1>8
<1>10. G(U \ {k}) = F(U \ {k}) BY <1>6, <1>9
<1> QED BY <1>3, <1>6, <1>7, <1>8, <1>10

\* A set as a sequence.
LEMMA SetAsSeq ==
  ASSUME NEW S, IsFiniteSet(S)
  PROVE  /\ SetToSeq(S) \in Seq(S)
         /\ IsInjective(SetToSeq(S))
         /\ ToSet(SetToSeq(S)) = S
<1> DEFINE n == Cardinality(S)
           T == {f \in [1 .. n -> S] : IsInjective(f)}
           f == SetToSeq(S)
<1>1. n \in Nat /\ ExistsBijection(1 .. n, S) BY FS_CardinalityType
<1>2. PICK g \in Bijection(1 .. n, S) : TRUE BY <1>1 DEF ExistsBijection
<1>3. g \in [1 .. n -> S] /\ \A i, j \in 1 .. n : g[i] = g[j] => i = j
  BY <1>2 DEF Bijection, Injection, IsInjective
<1>4. IsInjective(g) BY <1>3 DEF IsInjective
<1>5. f = CHOOSE h \in [1 .. n -> S] : IsInjective(h) BY DEF SetToSeq
<1> HIDE DEF f, n
<1>6. f \in [1 .. n -> S] /\ IsInjective(f) BY <1>3, <1>4, <1>5, Zenon
<1>7. f \in Seq(S) BY <1>1, <1>6
<1>8. f \in Injection(1 .. n, S) BY <1>6 DEF Injection, IsInjective
<1>9. IsFiniteSet(1 .. n) /\ Cardinality(1 .. n) = n /\ Cardinality(S) = n
  BY <1>1, FS_Interval DEF n
<1>10. f \in Surjection(1 .. n, S) BY <1>8, <1>9, FS_Injection
<1>11. ToSet(f) = S BY <1>6, <1>10 DEF ToSet, Surjection
<1> QED BY <1>6, <1>7, <1>11 DEF f

\* A sum over the elements of a sequence that repeats none, place by place.
LEMMA SumOfPlaces ==
  ASSUME NEW T, NEW s \in Seq(T), IsInjective(s),
         NEW f, \A i \in DOMAIN s : f[i] \in Int,
         NEW g, \A i \in DOMAIN s : g[s[i]] = f[i]
  PROVE  SumFunctionOnSet(g, ToSet(s)) = SumFunctionOnSet(f, DOMAIN s)
<1> DEFINE U == ToSet(s)
           D == DOMAIN s
           C == [x \in U |-> {i \in D : s[i] = x}]
<1>1. D = 1 .. Len(s) /\ Len(s) \in Nat OBVIOUS
<1>2. IsFiniteSet(D) /\ IsFiniteSet(U)
 <2>1. IsFiniteSet(U) BY SizeOfSet
 <2>2. IsFiniteSet(1 .. Len(s)) BY <1>1, FS_Interval
 <2> QED BY <1>1, <2>1, <2>2
<1>3. \A x \in U : C[x] \subseteq D OBVIOUS
<1>4. \A i \in D : \E x \in U : i \in C[x] BY DEF ToSet
<1>5. \A x, y \in U : \A i \in D : i \in C[x] /\ i \in C[y] => x = y OBVIOUS
<1>6. \A x \in U : g[x] = SumFunctionOnSet(f, C[x])
 <2> SUFFICES ASSUME NEW x \in U PROVE g[x] = SumFunctionOnSet(f, C[x])
   OBVIOUS
 <2>1. PICK i \in D : s[i] = x BY DEF ToSet
 <2>2. C[x] = {i} BY <2>1 DEF IsInjective
 <2>3. IsFiniteSet({}) /\ i \notin {} /\ {} \cup {i} = {i} BY FS_EmptySet
 <2>4. \A j \in {} \cup {i} : f[j] \in Int BY <2>1
 <2>5. SumFunctionOnSet(f, {} \cup {i}) = f[i] + SumFunctionOnSet(f, {})
   BY <2>3, <2>4, SumAdds
 <2>6. SumFunctionOnSet(f, {}) = 0 BY <2>3, SumOfZeros
 <2>7. f[i] \in Int /\ g[x] = f[i] BY <2>1
 <2> DEFINE a == SumFunctionOnSet(f, {})
            b == SumFunctionOnSet(f, {i})
 <2>8. a = 0 /\ b = f[i] + a BY <2>3, <2>5, <2>6
 <2>9. SumFunctionOnSet(f, C[x]) = b BY <2>2
 <2> HIDE DEF a, b, C
 <2> QED BY <2>7, <2>8, <2>9
<1>7. \A i \in D : f[i] \in Int OBVIOUS
<1> HIDE DEF C, D, U
<1>8. SumFunctionOnSet(g, U) = SumFunctionOnSet(f, D)
  BY <1>2, <1>3, <1>4, <1>5, <1>6, <1>7, SumByClass
<1> QED BY <1>8 DEF U, D

\* The sum of the first places grows place by place.
LEMMA SumsGrow ==
  ASSUME NEW k \in Nat, NEW f, \A i \in 1 .. k : f[i] \in Int
  PROVE  /\ SumFunctionOnSet(f, 1 .. 0) = 0
         /\ \A m \in 0 .. k : SumFunctionOnSet(f, 1 .. m) \in Int
         /\ \A m \in 1 .. k : SumFunctionOnSet(f, 1 .. m) = SumFunctionOnSet(f, 1 .. m - 1) + f[m]
<1>1. SumFunctionOnSet(f, 1 .. 0) = 0
 <2>1. 1 .. 0 = {} /\ IsFiniteSet({}) BY FS_EmptySet
 <2> QED BY <2>1, SumOfZeros
<1>2. ASSUME NEW m \in 0 .. k PROVE SumFunctionOnSet(f, 1 .. m) \in Int
 <2>1. IsFiniteSet(1 .. m)
  <3>1. 1 \in Int /\ m \in Int OBVIOUS
  <3> QED BY <3>1, FS_Interval, Zenon
 <2>2. \A i \in 1 .. m : f[i] \in Int OBVIOUS
 <2> QED BY <2>1, <2>2, SumRecursion
<1>3. ASSUME NEW m \in 1 .. k
      PROVE  SumFunctionOnSet(f, 1 .. m) = SumFunctionOnSet(f, 1 .. m - 1) + f[m]
 <2>1. IsFiniteSet(1 .. m - 1) /\ m \notin 1 .. m - 1 /\ 1 .. m = (1 .. m - 1) \cup {m}
  <3>1. 1 \in Int /\ m - 1 \in Int OBVIOUS
  <3>2. IsFiniteSet(1 .. m - 1) BY <3>1, FS_Interval, Zenon
  <3> QED BY <3>2
 <2>2. \A i \in (1 .. m - 1) \cup {m} : f[i] \in Int OBVIOUS
 <2>3. SumFunctionOnSet(f, (1 .. m - 1) \cup {m}) = f[m] + SumFunctionOnSet(f, 1 .. m - 1)
   BY <2>1, <2>2, SumAdds
 <2>4. f[m] \in Int /\ SumFunctionOnSet(f, 1 .. m - 1) \in Int BY <1>2
 <2> DEFINE a == SumFunctionOnSet(f, 1 .. m - 1)
            b == SumFunctionOnSet(f, 1 .. m)
 <2>5. a \in Int /\ b = f[m] + a BY <2>1, <2>3, <2>4
 <2> HIDE DEF a, b
 <2>6. b = a + f[m] BY <2>4, <2>5
 <2> QED BY <2>6 DEF a, b
<1> QED BY <1>1, <1>2, <1>3

\* n things handed out in order, to each place as many as it takes and are left:
\* where there is room for them, all are.
LEMMA AllHandedOut ==
  ASSUME NEW k \in Nat, NEW free, \A i \in 1 .. k : free[i] \in Nat,
         NEW n \in Nat, n <= SumFunctionOnSet(free, 1 .. k),
         NEW take,
         \A i \in 1 .. k : take[i] = LET left == n - SumFunctionOnSet(free, 1 .. i - 1)
                                     IN  IF left <= 0 THEN 0 ELSE IF free[i] <= left THEN free[i] ELSE left
  PROVE  /\ \A i \in 1 .. k : take[i] \in Nat /\ take[i] <= free[i]
         /\ SumFunctionOnSet(take, 1 .. k) = n
<1> DEFINE F(m) == SumFunctionOnSet(free, 1 .. m)
           T(m) == SumFunctionOnSet(take, 1 .. m)
           Least(m) == IF F(m) <= n THEN F(m) ELSE n
           Bad == {m \in 0 .. k : T(m) # Least(m)}
<1>1. /\ F(0) = 0 /\ \A m \in 0 .. k : F(m) \in Int
      /\ \A m \in 1 .. k : F(m) = F(m - 1) + free[m]
 <2>1. \A i \in 1 .. k : free[i] \in Int OBVIOUS
 <2> QED BY <2>1, SumsGrow
<1>2. \A i \in 1 .. k : take[i] = IF n - F(i - 1) <= 0 THEN 0
                                  ELSE IF free[i] <= n - F(i - 1) THEN free[i] ELSE n - F(i - 1)
  OBVIOUS
<1>3. \A m \in 0 .. k : F(m) \in Nat
 <2> SUFFICES ASSUME NEW m \in 0 .. k PROVE F(m) \in Nat
   OBVIOUS
 <2>1. IsFiniteSet(1 .. m)
  <3>1. 1 \in Int /\ m \in Int OBVIOUS
  <3> QED BY <3>1, FS_Interval, Zenon
 <2>2. \A i \in 1 .. m : free[i] \in Nat OBVIOUS
 <2> QED BY <2>1, <2>2, SumIsNatural DEF F
<1>4. n <= F(k) OBVIOUS
<1> HIDE DEF F
<1>5. \A i \in 1 .. k : take[i] \in Nat /\ take[i] <= free[i]
 <2> SUFFICES ASSUME NEW i \in 1 .. k PROVE take[i] \in Nat /\ take[i] <= free[i]
   OBVIOUS
 <2>1. F(i - 1) \in Nat /\ free[i] \in Nat BY <1>3
 <2> QED BY <1>2, <2>1
<1>6. /\ T(0) = 0 /\ \A m \in 0 .. k : T(m) \in Int
      /\ \A m \in 1 .. k : T(m) = T(m - 1) + take[m]
 <2>1. \A i \in 1 .. k : take[i] \in Int BY <1>5
 <2> QED BY <2>1, SumsGrow
<1> HIDE DEF T
<1>7. Bad = {}
 <2> SUFFICES ASSUME Bad # {} PROVE FALSE
   OBVIOUS
 <2>1. PICK m \in Bad : \A u \in Bad : m <= u
  <3>1. Bad \subseteq Nat OBVIOUS
  <3> HIDE DEF Bad
  <3> QED BY <3>1, FirstOf
 <2>2. m \in 1 .. k /\ m - 1 \in 0 .. k BY <1>1, <1>6, <2>1
 <2>3. T(m - 1) = Least(m - 1) BY <2>1, <2>2
 <2>4. F(m) = F(m - 1) + free[m] /\ T(m) = T(m - 1) + take[m] /\ free[m] \in Nat
   BY <1>1, <1>6, <2>2
 <2>5. F(m - 1) \in Nat BY <1>3, <2>2
 <2>6. take[m] = IF n - F(m - 1) <= 0 THEN 0
                 ELSE IF free[m] <= n - F(m - 1) THEN free[m] ELSE n - F(m - 1)
   BY <1>2, <2>2
 <2>7. T(m) = Least(m) BY <2>3, <2>4, <2>5, <2>6
 <2> QED BY <2>1, <2>7
<1>8. T(k) = Least(k) BY <1>7
<1>9. F(k) \in Nat BY <1>3
<1>10. T(k) = n BY <1>4, <1>8, <1>9
<1> QED BY <1>5, <1>10 DEF T

-----------------------------------------------------------------------------
(* Quotients and remainders.                                               *)

\* The integer quotient, from both sides.
LEMMA DivisionBounds ==
  ASSUME NEW n \in Nat, NEW d \in Nat \ {0}
  PROVE  n \div d \in Nat /\ d * (n \div d) <= n /\ n < d * (n \div d) + d
OBVIOUS

\* The quotient is the only number between them.
LEMMA DivisionUnique ==
  ASSUME NEW n \in Nat, NEW d \in Nat \ {0}, NEW q \in Nat, d * q <= n, n < d * q + d
  PROVE  n \div d = q
OBVIOUS

\* Larger numbers have no smaller quotients.
LEMMA DivisionMonotone ==
  ASSUME NEW m \in Nat, NEW n \in Nat, m <= n, NEW d \in Nat \ {0}
  PROVE  m \div d <= n \div d
<1> DEFINE p == m \div d
           q == n \div d
<1>1. p \in Nat /\ q \in Nat /\ d * p <= m /\ n < d * q + d BY DivisionBounds
<1> HIDE DEF p, q
<1>2. d * p < d * q + d BY <1>1
<1>3. d * p < d * (q + 1) BY <1>1, <1>2
<1>4. p < q + 1 BY <1>1, <1>3
<1> QED
  BY <1>1, <1>4 DEF p, q

\* A multiple leaves no remainder.
LEMMA MultipleHasNoRest ==
  ASSUME NEW d \in Nat \ {0}, NEW q \in Nat
  PROVE  (d * q) % d = 0
OBVIOUS

\* A number and its quotient and remainder.
LEMMA DivisionRemainder ==
  ASSUME NEW n \in Nat, NEW d \in Nat \ {0}
  PROVE  /\ n % d \in Nat /\ n % d < d /\ n = d * (n \div d) + (n % d)
OBVIOUS

\* What leaves no remainder is a multiple.
LEMMA NoRestIsMultiple ==
  ASSUME NEW n \in Nat, NEW d \in Nat \ {0}, n % d = 0
  PROVE  \E q \in Nat : n = d * q
<1> DEFINE q == n \div d
<1>1. q \in Nat /\ n = d * q + 0 BY DivisionBounds, DivisionRemainder
<1> HIDE DEF q
<1>2. d * q \in Nat BY <1>1
<1> QED BY <1>1, <1>2

\* A quotient grows where the divisor divides.
LEMMA DivisionOfNext ==
  ASSUME NEW n \in Nat, NEW d \in Nat \ {0}
  PROVE  /\ (n + 1) % d = 0 => (n + 1) \div d = n \div d + 1
         /\ (n + 1) % d # 0 => (n + 1) \div d = n \div d
<1> DEFINE p == (n + 1) \div d
           q == n \div d
           r == (n + 1) % d
<1>1. p \in Nat /\ q \in Nat /\ d * q <= n /\ n < d * q + d BY DivisionBounds
<1>2. r \in Nat /\ r < d /\ n + 1 = d * p + r BY DivisionRemainder
<1>3. ASSUME r = 0 PROVE p = q + 1
 <2> HIDE DEF p, q, r
 <2>1. d * q < d * p /\ d * p < d * (q + 2) BY <1>1, <1>2, <1>3
 <2>2. q < p BY <1>1, <2>1
 <2>3. p < q + 2 BY <1>1, <2>1
 <2> QED BY <1>1, <2>2, <2>3
<1>4. ASSUME r # 0 PROVE p = q
 <2> HIDE DEF p, r
 <2>1. d * p <= n /\ n < d * p + d BY <1>1, <1>2, <1>4
 <2> QED BY <1>1, <2>1, DivisionUnique
<1> QED BY <1>3, <1>4

\* Dividing is transitive.
LEMMA DivisionChain ==
  ASSUME NEW n \in Nat, NEW d \in Nat \ {0}, NEW r \in Nat \ {0}, n % d = 0, d % r = 0
  PROVE  n % r = 0
<1> DEFINE p == n \div d
           q == d \div r
<1>1. p \in Nat /\ q \in Nat BY DivisionBounds
<1>2. n = d * p + 0 /\ d = r * q + 0 BY DivisionRemainder
<1> HIDE DEF p, q
<1>3. n = r * (q * p)
 <2>1. n = (r * q) * p BY <1>1, <1>2
 <2>2. (r * q) * p = r * (q * p) BY <1>1
 <2> QED BY <2>1, <2>2
<1>4. q * p \in Nat BY <1>1
<1> QED BY <1>3, <1>4, MultipleHasNoRest

-----------------------------------------------------------------------------
(* Functions that are computed place by place: they exist, and what each    *)
(* step preserves holds at every place.                                    *)

\* f starts with c, G computes each further value from its place and the value
\* before it, and each value is of the kind that its place admits.
IsComputed(f, n, c, G, T) ==
  /\ f = [k \in 0 .. n |-> IF k = 0 THEN c ELSE G[<<k, f[k - 1]>>]]
  /\ \A k \in 0 .. n : f[k] \in T[k]

\* A function computed place by place exists, and each value is of the kind
\* that its place admits.
LEMMA IteratesExist ==
  ASSUME NEW n \in Nat, NEW T, NEW G, NEW c, c \in T[0],
         \A k \in 1 .. n : \A x \in T[k - 1] : G[<<k, x>>] \in T[k]
  PROVE  \E f : IsComputed(f, n, c, G, T)
<1> USE DEF IsComputed
<1> DEFINE IsIterate(m, f) == IsComputed(f, m, c, G, T)
           Bad == {m \in 0 .. n : ~ \E f : IsIterate(m, f)}
<1>1. Bad = {}
 <2> SUFFICES ASSUME Bad # {} PROVE FALSE
   OBVIOUS
 <2>1. PICK m \in Bad : \A u \in Bad : m <= u
  <3>1. Bad \subseteq Nat OBVIOUS
  <3> HIDE DEF Bad
  <3> QED BY <3>1, FirstOf
 <2>2. m \in 0 .. n /\ ~ \E f : IsIterate(m, f) BY <2>1
 <2>3. m # 0
  <3> SUFFICES ASSUME m = 0 PROVE FALSE
    OBVIOUS
  <3> DEFINE f == [k \in 0 .. 0 |-> c]
  <3>1. IsIterate(0, f)
   <4>1. \A k \in 0 .. 0 : k = 0 OBVIOUS
   <4> QED BY <4>1
  <3> QED BY <3>1, <2>2
 <2>4. m - 1 \in 0 .. n /\ m - 1 \notin Bad
  <3>1. m - 1 \in 0 .. n /\ ~(m <= m - 1) BY <2>2, <2>3
  <3> HIDE DEF Bad
  <3> QED BY <3>1, <2>1
 <2>5. PICK f : IsIterate(m - 1, f) BY <2>4
 <2> DEFINE g == [k \in 0 .. m |-> IF k = m THEN G[<<m, f[m - 1]>>] ELSE f[k]]
 <2>6. \A k \in 0 .. m : k # m => k \in 0 .. (m - 1) BY <2>2, <2>3
 <2>7. \A k \in 0 .. m : k # 0 => k - 1 \in 0 .. (m - 1) /\ k - 1 \in 0 .. m /\ k - 1 # m
   BY <2>2, <2>3
 <2>8. /\ \A k \in 0 .. (m - 1) : f[k] = IF k = 0 THEN c ELSE G[<<k, f[k - 1]>>]
       /\ \A k \in 0 .. (m - 1) : f[k] \in T[k]
   BY <2>5
 <2>9. m \in 1 .. n /\ m - 1 \in 0 .. (m - 1) /\ m \in 0 .. m BY <2>2, <2>3
 <2>10. G[<<m, f[m - 1]>>] \in T[m] BY <2>8, <2>9
 <2> HIDE DEF IsIterate, Bad
 <2>11. \A k \in 0 .. m : g[k] = IF k = 0 THEN c ELSE G[<<k, g[k - 1]>>]
  <3> SUFFICES ASSUME NEW k \in 0 .. m PROVE g[k] = IF k = 0 THEN c ELSE G[<<k, g[k - 1]>>]
    OBVIOUS
  <3>1. CASE k = 0 BY <3>1, <2>3, <2>6, <2>8
  <3>2. CASE k # 0
   <4>1. g[k - 1] = f[k - 1] BY <3>2, <2>7
   <4>2. CASE k = m BY <4>1, <4>2, <2>3
   <4>3. CASE k # m BY <4>1, <4>3, <2>6, <2>8
   <4> QED BY <4>2, <4>3
  <3> QED BY <3>1, <3>2
 <2>12. \A k \in 0 .. m : g[k] \in T[k] BY <2>6, <2>8, <2>10
 <2>13. g = [k \in 0 .. m |-> g[k]] OBVIOUS
 <2> HIDE DEF g
 <2>14. g = [k \in 0 .. m |-> IF k = 0 THEN c ELSE G[<<k, g[k - 1]>>]] BY <2>11, <2>13
 <2>15. IsIterate(m, g) BY <2>12, <2>14 DEF IsIterate
 <2> QED BY <2>2, <2>15
<1>2. n \in 0 .. n OBVIOUS
<1> QED BY <1>1, <1>2

\* What holds of the first value, and of each when of the one before it, holds
\* of all.
LEMMA IteratesKeep ==
  ASSUME NEW n \in Nat, NEW T, NEW f, f[0] \in T[0],
         \A k \in 1 .. n : f[k - 1] \in T[k - 1] => f[k] \in T[k]
  PROVE  \A k \in 0 .. n : f[k] \in T[k]
<1> DEFINE Bad == {k \in 0 .. n : f[k] \notin T[k]}
<1> SUFFICES ASSUME Bad # {} PROVE FALSE
  OBVIOUS
<1>1. PICK m \in Bad : \A u \in Bad : m <= u
 <2>1. Bad \subseteq Nat OBVIOUS
 <2> HIDE DEF Bad
 <2> QED BY <2>1, FirstOf
<1>2. m \in 1 .. n /\ m - 1 \in 0 .. n BY <1>1
<1>3. m - 1 \notin Bad
 <2>1. ~(m <= m - 1) BY <1>2
 <2> HIDE DEF Bad
 <2> QED BY <2>1, <1>1
<1> QED BY <1>1, <1>2, <1>3
=============================================================================
