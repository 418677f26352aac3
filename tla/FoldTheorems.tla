------------------------------ MODULE FoldTheorems ------------------------------
(***************************************************************************)
(* Facts about the operators of the community modules that the models are  *)
(* built from and that the library has no theorems about: extrema of sets  *)
(* of numbers, sums and folds over finite sets and sequences, and          *)
(* flattened sequences.  Each is a recursive function, of which tlapm      *)
(* knows only that it is some solution of its equation: that there is one  *)
(* is shown first, once for all of them.                                   *)
(***************************************************************************)
EXTENDS Integers, Sequences, SequencesExt, FiniteSetTheorems, SequenceTheorems,
        WellFoundedInduction, TLAPS

-----------------------------------------------------------------------------
(* Induction, over a set of good cases.                                    *)

LEMMA LeastNumber ==
    ASSUME NEW S \in SUBSET Nat, S # {}
    PROVE  \E x \in S : \A y \in S : x <= y
  <1> DEFINE R == OpToRel(<, Nat)
  <1>1. IsWellFoundedOn(R, Nat)
    BY NatLessThanWellFounded
  <1>2. PICK x \in S : \A y \in S : ~(<<y, x>> \in R)
    <2> HIDE DEF R
    <2>1. QED BY <1>1, WFMin
  <1>3. \A y \in S : ~(y < x)
    BY <1>2 DEF OpToRel
  <1>4. QED BY <1>3

LEMMA CountingUp ==
    ASSUME NEW n \in Nat, NEW good, 0 \in good,
           \A i \in 1..n : i - 1 \in good => i \in good
    PROVE  \A i \in 0..n : i \in good
  <1> DEFINE bad == {i \in 0..n : i \notin good}
  <1> SUFFICES ASSUME bad # {} PROVE FALSE
    OBVIOUS
  <1>1. PICK i \in bad : \A j \in bad : i <= j
    <2>1. bad \in SUBSET Nat
      OBVIOUS
    <2> HIDE DEF bad
    <2>2. QED BY <2>1, LeastNumber
  <1>2. i \in 1..n /\ i - 1 \in 0..n
    OBVIOUS
  <1>3. i - 1 \in good
    BY <1>1, <1>2
  <1>4. QED BY <1>2, <1>3

\* A set of subsets of a finite set is all of them if it goes from the smaller to the larger.
LEMMA GrowingSets ==
    ASSUME NEW D, IsFiniteSet(D), NEW good, {} \in good,
           \A s \in SUBSET D : s # {} /\ (\A x \in s : s \ {x} \in good) => s \in good
    PROVE  \A s \in SUBSET D : s \in good
  <1> DEFINE n == Cardinality(D)
             done == {i \in Nat : \A s \in SUBSET D : Cardinality(s) = i => s \in good}
  <1>1. \A s \in SUBSET D : IsFiniteSet(s) /\ Cardinality(s) \in 0..n
    <2> TAKE s \in SUBSET D
    <2>1. IsFiniteSet(s) /\ Cardinality(s) <= n
      BY FS_Subset
    <2>2. QED BY <2>1, FS_CardinalityType
  <1>2. n \in Nat
    BY FS_CardinalityType
  <1>3. 0 \in done
    BY <1>1, FS_EmptySet
  <1>4. ASSUME NEW i \in 1..n, i - 1 \in done PROVE i \in done
    <2> SUFFICES ASSUME NEW s \in SUBSET D, Cardinality(s) = i PROVE s \in good
      OBVIOUS
    <2>1. s # {}
      BY FS_EmptySet
    <2>2. \A x \in s : Cardinality(s \ {x}) = i - 1
      BY <1>1, FS_RemoveElement
    <2>3. \A x \in s : s \ {x} \in good
      BY <1>4, <2>2
    <2>4. QED BY <2>1, <2>3
  <1> HIDE DEF done
  <1>5. \A i \in 0..n : i \in done
    <2> HIDE DEF n
    <2>1. QED BY <1>2, <1>3, <1>4, CountingUp
  <1>6. QED BY <1>1, <1>5 DEF done

-----------------------------------------------------------------------------
(* The least and the greatest number of a set.                             *)

LEMMA MinOfNumbers ==
    ASSUME NEW S \in SUBSET Nat, S # {}
    PROVE  Min(S) \in S /\ \A y \in S : Min(S) <= y
  BY LeastNumber DEF Min

LEMMA MaxOfNumbers ==
    ASSUME NEW S \in SUBSET Int, IsFiniteSet(S), S # {}
    PROVE  Max(S) \in S /\ \A y \in S : Max(S) >= y
  <1> DEFINE good == {s \in SUBSET S : s = {} \/ \E x \in s : \A y \in s : x >= y}
  <1>1. {} \in good
    OBVIOUS
  <1>2. ASSUME NEW s \in SUBSET S, s # {}, \A x \in s : s \ {x} \in good PROVE s \in good
    <2>1. PICK x \in s : TRUE
      BY <1>2
    <2>2. CASE s \ {x} = {}
      <3>1. \A y \in s : y = x
        BY <2>2
      <3>2. QED BY <3>1
    <2>3. CASE s \ {x} # {}
      <3>1. PICK z \in s \ {x} : \A y \in s \ {x} : z >= y
        BY <1>2, <2>3
      <3>2. (\A y \in s : z >= y) \/ (\A y \in s : x >= y)
        BY <3>1
      <3>3. QED BY <3>2
    <2>4. QED BY <2>2, <2>3
  <1> HIDE DEF good
  <1>3. S \in good
    BY <1>1, <1>2, GrowingSets
  <1>4. \E x \in S : \A y \in S : x >= y
    BY <1>3 DEF good
  <1>5. QED BY <1>4 DEF Max

-----------------------------------------------------------------------------
(***************************************************************************)
(* Folds over the finite set D.  The element taken next from a set s is    *)
(* pick[s], and step[<<s, a>>] is what becomes of a when it is taken.          *)
(***************************************************************************)
Picks(D, pick) == \A s \in SUBSET D : s # {} => pick[s] \in s

FoldsTo(D, pick, step, base, iter) ==
    iter = [s \in SUBSET D |-> IF s = {} THEN base ELSE step[<<s, iter[s \ {pick[s]}]>>]]

LEMMA FoldExists ==
    ASSUME NEW D, IsFiniteSet(D), NEW pick, Picks(D, pick),
           NEW A, NEW base \in A, NEW step \in [(SUBSET D) \X A -> A]
    PROVE  \E iter \in [SUBSET D -> A] : FoldsTo(D, pick, step, base, iter)
  <1> DEFINE n == Cardinality(D)
             Solves(iter, i) ==
                \A s \in SUBSET D : Cardinality(s) <= i =>
                    iter[s] = IF s = {} THEN base ELSE step[<<s, iter[s \ {pick[s]}]>>]
             good == {i \in Nat : \E iter \in [SUBSET D -> A] : Solves(iter, i)}
  <1>1. \A s \in SUBSET D : IsFiniteSet(s) /\ Cardinality(s) \in 0..n
    <2> TAKE s \in SUBSET D
    <2>1. IsFiniteSet(s) /\ Cardinality(s) <= n
      BY FS_Subset
    <2>2. QED BY <2>1, FS_CardinalityType
  <1>2. n \in Nat
    BY FS_CardinalityType
  <1>3. 0 \in good
    <2> DEFINE iter == [s \in SUBSET D |-> base]
    <2>1. iter \in [SUBSET D -> A]
      OBVIOUS
    <2>2. \A s \in SUBSET D : Cardinality(s) <= 0 => s = {}
      BY <1>1, FS_EmptySet
    <2>3. Solves(iter, 0)
      BY <2>2
    <2> HIDE DEF iter
    <2>4. QED BY <2>1, <2>3
  <1>4. ASSUME NEW i \in 1..n, i - 1 \in good PROVE i \in good
    <2>1. PICK old \in [SUBSET D -> A] : Solves(old, i - 1)
      BY <1>4
    <2> DEFINE iter == [s \in SUBSET D |-> IF s = {} THEN base ELSE step[<<s, old[s \ {pick[s]}]>>]]
    <2>2. \A s \in SUBSET D : old[s \ {pick[s]}] \in A
      BY <2>1
    <2>3. iter \in [SUBSET D -> A]
      BY <2>2
    <2>4. \A s \in SUBSET D : Cardinality(s) <= i - 1 => iter[s] = old[s]
      BY <2>1
    <2>5. \A s \in SUBSET D : s # {} => Cardinality(s \ {pick[s]}) = Cardinality(s) - 1
      BY <1>1, FS_RemoveElement DEF Picks
    <2>6. ASSUME NEW s \in SUBSET D, Cardinality(s) <= i, s # {}
          PROVE  iter[s] = step[<<s, iter[s \ {pick[s]}]>>]
      <3>1. s \ {pick[s]} \in SUBSET D /\ Cardinality(s \ {pick[s]}) <= i - 1
        BY <1>1, <2>5, <2>6
      <3>2. iter[s \ {pick[s]}] = old[s \ {pick[s]}]
        BY <2>4, <3>1
      <3>3. QED BY <2>6, <3>2
    <2>7. Solves(iter, i)
      BY <2>6
    <2> HIDE DEF iter, Solves
    <2>8. QED BY <2>3, <2>7
  <1> HIDE DEF good
  <1>5. n \in good
    <2> HIDE DEF n
    <2>1. QED BY <1>2, <1>3, <1>4, CountingUp
  <1>6. PICK iter \in [SUBSET D -> A] : Solves(iter, n)
    BY <1>5 DEF good
  <1>7. \A s \in SUBSET D : iter[s] = IF s = {} THEN base ELSE step[<<s, iter[s \ {pick[s]}]>>]
    <2>1. \A s \in SUBSET D : Cardinality(s) <= n
      BY <1>1, <1>2
    <2>2. QED BY <1>6, <2>1, Zenon
  <1>8. iter = [s \in SUBSET D |-> IF s = {} THEN base ELSE step[<<s, iter[s \ {pick[s]}]>>]]
    BY <1>7
  <1>9. QED BY <1>8 DEF FoldsTo

-----------------------------------------------------------------------------
(* Sums over finite sets.                                                  *)

Chosen(s) == CHOOSE x \in s : TRUE

SumsTo(f, S, iter) ==
    iter = [s \in SUBSET S |-> IF s = {} THEN 0 ELSE f[Chosen(s)] + iter[s \ {Chosen(s)}]]

\* iter[s] is the sum over s, for every subset s of S.
IsSums(f, S, iter) ==
    /\ iter \in [SUBSET S -> Int] /\ SumsTo(f, S, iter)
    /\ \A s \in SUBSET S : SumFunctionOnSet(f, s) = iter[s]

LEMMA SumIsSome ==
    ASSUME NEW f, NEW S
    PROVE  SumFunctionOnSet(f, S) = (CHOOSE iter : SumsTo(f, S, iter))[S]
  BY DEF SumFunctionOnSet, FoldFunctionOnSet, MapThenFoldSet, SumsTo, Chosen

LEMMA SumExists ==
    ASSUME NEW S, IsFiniteSet(S), NEW f, \A x \in S : f[x] \in Int
    PROVE  \E iter \in [SUBSET S -> Int] :
              SumsTo(f, S, iter) /\ SumFunctionOnSet(f, S) = iter[S]
  <1> DEFINE pick == [s \in SUBSET S |-> Chosen(s)]
             step == [p \in (SUBSET S) \X Int |-> IF p[1] = {} THEN 0 ELSE f[Chosen(p[1])] + p[2]]
  <1>1. \A s \in SUBSET S : s # {} => Chosen(s) \in s
    BY DEF Chosen
  <1>2. Picks(S, pick)
    BY <1>1 DEF Picks
  <1>3. \A s \in SUBSET S : s # {} => f[Chosen(s)] \in Int
    BY <1>1
  <1>4. step \in [(SUBSET S) \X Int -> Int]
    BY <1>3
  <1>5. PICK iter \in [SUBSET S -> Int] : FoldsTo(S, pick, step, 0, iter)
    <2> HIDE DEF pick, step
    <2>1. 0 \in Int
      OBVIOUS
    <2>2. QED BY <1>2, <1>4, <2>1, FoldExists, Zenon
  <1>6. ASSUME NEW s \in SUBSET S, s # {} PROVE iter[s] = f[Chosen(s)] + iter[s \ {Chosen(s)}]
    <2>1. iter[s] = step[<<s, iter[s \ {pick[s]}]>>]
      BY <1>5, <1>6 DEF FoldsTo
    <2>2. pick[s] = Chosen(s) /\ iter[s \ {Chosen(s)}] \in Int
      OBVIOUS
    <2>3. QED BY <1>6, <2>1, <2>2
  <1>7. iter[{}] = 0
    BY <1>5 DEF FoldsTo
  <1>8. SumsTo(f, S, iter)
    BY <1>6, <1>7 DEF SumsTo
  <1> DEFINE sum == CHOOSE it : SumsTo(f, S, it)
  <1>9. SumsTo(f, S, sum)
    BY <1>8
  <1> HIDE DEF sum
  <1>10. sum[{}] = 0 /\ \A s \in SUBSET S : s # {} => sum[s] = f[Chosen(s)] + sum[s \ {Chosen(s)}]
    BY <1>9 DEF SumsTo
  <1>11. sum \in [SUBSET S -> Int]
    <2> DEFINE good == {s \in SUBSET S : sum[s] \in Int}
    <2>1. {} \in good
      BY <1>10
    <2>2. ASSUME NEW s \in SUBSET S, s # {}, \A x \in s : s \ {x} \in good PROVE s \in good
      <3>1. Chosen(s) \in s /\ f[Chosen(s)] \in Int
        BY <1>1, <1>3, <2>2
      <3>2. sum[s \ {Chosen(s)}] \in Int
        BY <2>2, <3>1
      <3>3. sum[s] = f[Chosen(s)] + sum[s \ {Chosen(s)}]
        BY <1>10, <2>2
      <3>4. QED BY <3>1, <3>2, <3>3
    <2> HIDE DEF good
    <2>3. \A s \in SUBSET S : s \in good
      BY <2>1, <2>2, GrowingSets
    <2>4. sum = [s \in SUBSET S |-> sum[s]]
      BY <1>9 DEF SumsTo
    <2>5. QED BY <2>3, <2>4 DEF good
  <1>12. QED BY <1>9, <1>11, SumIsSome DEF sum

\* The sums over the subsets of S are one function.
LEMMA SumsAgree ==
    ASSUME NEW S, IsFiniteSet(S), NEW f, \A x \in S : f[x] \in Int
    PROVE  \E iter : IsSums(f, S, iter)
  <1>1. PICK iter \in [SUBSET S -> Int] : SumsTo(f, S, iter) /\ SumFunctionOnSet(f, S) = iter[S]
    BY SumExists
  <1>2. ASSUME NEW t \in SUBSET S PROVE SumFunctionOnSet(f, t) = iter[t]
    <2>1. IsFiniteSet(t)
      BY FS_Subset
    <2>2. PICK part \in [SUBSET t -> Int] : SumsTo(f, t, part) /\ SumFunctionOnSet(f, t) = part[t]
      BY <2>1, SumExists
    <2> DEFINE good == {s \in SUBSET t : part[s] = iter[s]}
    <2>3. {} \in good
      BY <1>1, <2>2 DEF SumsTo
    <2>4. ASSUME NEW s \in SUBSET t, s # {}, \A x \in s : s \ {x} \in good PROVE s \in good
      <3>1. Chosen(s) \in s /\ s \in SUBSET S
        BY <2>4 DEF Chosen
      <3>2. part[s \ {Chosen(s)}] = iter[s \ {Chosen(s)}]
        BY <2>4, <3>1
      <3>3. part[s] = f[Chosen(s)] + part[s \ {Chosen(s)}]
        BY <2>2, <2>4 DEF SumsTo
      <3>4. iter[s] = f[Chosen(s)] + iter[s \ {Chosen(s)}]
        BY <1>1, <2>4, <3>1 DEF SumsTo
      <3>5. QED BY <3>2, <3>3, <3>4
    <2> HIDE DEF good
    <2>5. \A s \in SUBSET t : s \in good
      BY <2>1, <2>3, <2>4, GrowingSets
    <2>6. QED BY <2>2, <2>5 DEF good
  <1>3. QED BY <1>1, <1>2 DEF IsSums

Sums(f, S) ==
    /\ SumFunctionOnSet(f, {}) = 0
    /\ \A s \in SUBSET S : SumFunctionOnSet(f, s) \in Int
    /\ \A s \in SUBSET S : \A x \in s :
          SumFunctionOnSet(f, s) = f[x] + SumFunctionOnSet(f, s \ {x})

LEMMA SumProperties ==
    ASSUME NEW S, IsFiniteSet(S), NEW f, \A x \in S : f[x] \in Int
    PROVE  Sums(f, S)
  <1>0. PICK iter : IsSums(f, S, iter)
    BY SumsAgree, Zenon
  <1>1. /\ iter \in [SUBSET S -> Int] /\ SumsTo(f, S, iter)
        /\ \A s \in SUBSET S : SumFunctionOnSet(f, s) = iter[s]
    BY <1>0 DEF IsSums
  <1> DEFINE good == {s \in SUBSET S : \A x \in s : iter[s] = f[x] + iter[s \ {x}]}
  <1>2. {} \in good
    OBVIOUS
  <1>3. ASSUME NEW s \in SUBSET S, s # {}, \A x \in s : s \ {x} \in good PROVE s \in good
    <2> DEFINE y == Chosen(s)
    <2>1. y \in s
      BY <1>3 DEF Chosen
    <2>2. iter[s] = f[y] + iter[s \ {y}]
      BY <1>1, <1>3 DEF SumsTo
    <2> HIDE DEF y, good
    <2>3. ASSUME NEW x \in s, x # y PROVE iter[s] = f[x] + iter[s \ {x}]
      <3> DEFINE r == iter[(s \ {x}) \ {y}]
      <3>0. (s \ {y}) \ {x} = (s \ {x}) \ {y}
        OBVIOUS
      <3>1. iter[s \ {y}] = f[x] + r
        BY <1>3, <2>1, <2>3, <3>0 DEF good
      <3>2. iter[s \ {x}] = f[y] + r
        BY <1>3, <2>1, <2>3 DEF good
      <3>3. f[x] \in Int /\ f[y] \in Int /\ r \in Int
        BY <1>1, <2>1
      <3> HIDE DEF r
      <3>4. QED BY <2>2, <3>1, <3>2, <3>3
    <2>4. QED BY <2>2, <2>3 DEF good
  <1> HIDE DEF good
  <1>4. \A s \in SUBSET S : s \in good
    BY <1>2, <1>3, GrowingSets
  <1>5. \A s \in SUBSET S : \A x \in s : iter[s] = f[x] + iter[s \ {x}]
    BY <1>4 DEF good
  <1>6. iter[{}] = 0
    BY <1>1 DEF SumsTo
  <1>7. \A s \in SUBSET S : \A x \in s : s \ {x} \in SUBSET S
    OBVIOUS
  <1>8. QED BY <1>1, <1>5, <1>6, <1>7 DEF Sums

LEMMA Proportions ==
    ASSUME NEW p \in Int, NEW q \in Int, NEW a \in Int, NEW b \in Int, NEW c \in Int, NEW d \in Int,
           p * a = q * b, p * c = q * d
    PROVE  p * (a + c) = q * (b + d)
  OBVIOUS

\* p times the one sum is q times the other if it is so of each summand.
LEMMA SumProportional ==
    ASSUME NEW S, IsFiniteSet(S), NEW f, NEW g, \A x \in S : f[x] \in Int /\ g[x] \in Int,
           NEW p \in Int, NEW q \in Int, \A x \in S : p * f[x] = q * g[x]
    PROVE  p * SumFunctionOnSet(f, S) = q * SumFunctionOnSet(g, S)
  <1> DEFINE F(s) == SumFunctionOnSet(f, s)
             G(s) == SumFunctionOnSet(g, s)
             good == {s \in SUBSET S : p * F(s) = q * G(s)}
  <1>1. /\ F({}) = 0 /\ \A s \in SUBSET S : F(s) \in Int
        /\ \A s \in SUBSET S : \A x \in s : F(s) = f[x] + F(s \ {x})
    <2>1. \A x \in S : f[x] \in Int
      OBVIOUS
    <2>2. Sums(f, S)
      BY <2>1, SumProperties, Zenon
    <2>3. QED BY <2>2, Zenon DEF Sums
  <1>2. /\ G({}) = 0 /\ \A s \in SUBSET S : G(s) \in Int
        /\ \A s \in SUBSET S : \A x \in s : G(s) = g[x] + G(s \ {x})
    <2>1. \A x \in S : g[x] \in Int
      OBVIOUS
    <2>2. Sums(g, S)
      BY <2>1, SumProperties, Zenon
    <2>3. QED BY <2>2, Zenon DEF Sums
  <1> HIDE DEF F, G
  <1>3. {} \in good
    BY <1>1, <1>2
  <1>4. ASSUME NEW s \in SUBSET S, s # {}, \A x \in s : s \ {x} \in good PROVE s \in good
    <2>1. PICK x \in s : TRUE
      BY <1>4
    <2>2. F(s) = f[x] + F(s \ {x}) /\ G(s) = g[x] + G(s \ {x})
      BY <1>1, <1>2
    <2>3. p * F(s \ {x}) = q * G(s \ {x}) /\ p * f[x] = q * g[x]
      BY <1>4
    <2>4. f[x] \in Int /\ g[x] \in Int /\ F(s \ {x}) \in Int /\ G(s \ {x}) \in Int
      BY <1>1, <1>2
    <2> DEFINE a == f[x]
               b == g[x]
               c == F(s \ {x})
               d == G(s \ {x})
    <2>5. p * (a + c) = q * (b + d)
      <3>1. p * a = q * b /\ p * c = q * d
        BY <2>3
      <3>2. a \in Int /\ b \in Int /\ c \in Int /\ d \in Int
        BY <2>4
      <3> HIDE DEF a, b, c, d
      <3>3. p \in Int /\ q \in Int
        OBVIOUS
      <3>4. QED BY <3>1, <3>2, <3>3, Proportions
    <2> HIDE DEF a, b, c, d
    <2>6. p * F(s) = q * G(s)
      BY <2>2, <2>5 DEF a, b, c, d
    <2>7. QED BY <2>6
  <1> HIDE DEF good
  <1>5. \A s \in SUBSET S : s \in good
    BY <1>3, <1>4, GrowingSets
  <1>6. QED BY <1>5 DEF good, F, G

LEMMA SumMonotone ==
    ASSUME NEW S, IsFiniteSet(S), NEW f, NEW g,
           \A x \in S : f[x] \in Int /\ g[x] \in Int /\ f[x] <= g[x]
    PROVE  SumFunctionOnSet(f, S) <= SumFunctionOnSet(g, S)
  <1> DEFINE F(s) == SumFunctionOnSet(f, s)
             G(s) == SumFunctionOnSet(g, s)
             good == {s \in SUBSET S : F(s) <= G(s)}
  <1>1. /\ F({}) = 0 /\ \A s \in SUBSET S : F(s) \in Int
        /\ \A s \in SUBSET S : \A x \in s : F(s) = f[x] + F(s \ {x})
    <2>1. \A x \in S : f[x] \in Int
      OBVIOUS
    <2>2. Sums(f, S)
      BY <2>1, SumProperties, Zenon
    <2>3. QED BY <2>2, Zenon DEF Sums
  <1>2. /\ G({}) = 0 /\ \A s \in SUBSET S : G(s) \in Int
        /\ \A s \in SUBSET S : \A x \in s : G(s) = g[x] + G(s \ {x})
    <2>1. \A x \in S : g[x] \in Int
      OBVIOUS
    <2>2. Sums(g, S)
      BY <2>1, SumProperties, Zenon
    <2>3. QED BY <2>2, Zenon DEF Sums
  <1> HIDE DEF F, G
  <1>3. {} \in good
    BY <1>1, <1>2
  <1>4. ASSUME NEW s \in SUBSET S, s # {}, \A x \in s : s \ {x} \in good PROVE s \in good
    <2>1. PICK x \in s : TRUE
      BY <1>4
    <2>2. F(s) = f[x] + F(s \ {x}) /\ G(s) = g[x] + G(s \ {x})
      BY <1>1, <1>2
    <2>3. F(s \ {x}) <= G(s \ {x}) /\ f[x] <= g[x]
      BY <1>4
    <2>4. f[x] \in Int /\ g[x] \in Int /\ F(s \ {x}) \in Int /\ G(s \ {x}) \in Int
      BY <1>1, <1>2
    <2>5. F(s) <= G(s)
      BY <2>2, <2>3, <2>4
    <2>6. QED BY <2>5
  <1> HIDE DEF good
  <1>5. \A s \in SUBSET S : s \in good
    BY <1>3, <1>4, GrowingSets
  <1>6. QED BY <1>5 DEF good, F, G

\* Sums of natural numbers: over nothing, of a part, and of no less than each summand.
LEMMA SumOfNumbers ==
    ASSUME NEW S, IsFiniteSet(S), NEW f, \A x \in S : f[x] \in Nat
    PROVE  /\ SumFunctionOnSet(f, {}) = 0
           /\ \A s \in SUBSET S : SumFunctionOnSet(f, s) \in Nat
           /\ \A s \in SUBSET S : \A x \in s :
                 SumFunctionOnSet(f, s) = f[x] + SumFunctionOnSet(f, s \ {x})
           /\ \A s \in SUBSET S : \A t \in SUBSET s :
                 SumFunctionOnSet(f, t) <= SumFunctionOnSet(f, s)
           /\ \A s \in SUBSET S : \A x \in s : f[x] <= SumFunctionOnSet(f, s)
  <1> DEFINE F(s) == SumFunctionOnSet(f, s)
             good == {s \in SUBSET S : F(s) \in Nat /\ \A t \in SUBSET s : F(t) <= F(s)}
  <1>1. \A x \in S : f[x] \in Int
    OBVIOUS
  <1>2. /\ F({}) = 0 /\ \A s \in SUBSET S : F(s) \in Int
        /\ \A s \in SUBSET S : \A x \in s : F(s) = f[x] + F(s \ {x})
    <2>1. Sums(f, S)
      BY <1>1, SumProperties, Zenon
    <2>2. QED BY <2>1, Zenon DEF Sums
  <1> HIDE DEF F
  <1>3. {} \in good
    <2>1. \A t \in SUBSET {} : t = {}
      OBVIOUS
    <2>2. QED BY <1>2, <2>1
  <1>4. ASSUME NEW s \in SUBSET S, s # {}, \A x \in s : s \ {x} \in good PROVE s \in good
    <2>1. \A x \in s : /\ F(s) = f[x] + F(s \ {x}) /\ f[x] \in Nat
                       /\ F(s \ {x}) \in Nat /\ F(s \ {x}) <= F(s)
      BY <1>2, <1>4
    <2>2. F(s) \in Nat
      <3>1. PICK x \in s : TRUE
        BY <1>4
      <3>2. F(s) = f[x] + F(s \ {x}) /\ f[x] \in Nat /\ F(s \ {x}) \in Nat
        BY <2>1
      <3>3. QED BY <3>2
    <2>3. ASSUME NEW t \in SUBSET s PROVE F(t) <= F(s)
      <3>1. CASE t = s
        BY <2>2, <3>1
      <3>2. CASE t # s
        <4>1. PICK x \in s : x \notin t
          BY <3>2
        <4>2. t \in SUBSET (s \ {x})
          BY <4>1
        <4>3. F(t) <= F(s \ {x}) /\ F(t) \in Int
          BY <1>2, <1>4, <4>2
        <4>4. QED BY <2>1, <2>2, <4>3
      <3>3. QED BY <3>1, <3>2
    <2>4. QED BY <2>2, <2>3
  <1> HIDE DEF good
  <1>5. \A s \in SUBSET S : s \in good
    BY <1>3, <1>4, GrowingSets
  <1>6. /\ \A s \in SUBSET S : F(s) \in Nat
        /\ \A s \in SUBSET S : \A t \in SUBSET s : F(t) <= F(s)
    BY <1>5 DEF good
  <1>7. \A s \in SUBSET S : \A x \in s : f[x] <= F(s)
    <2> SUFFICES ASSUME NEW s \in SUBSET S, NEW x \in s PROVE f[x] <= F(s)
      OBVIOUS
    <2>1. F(s) = f[x] + F(s \ {x}) /\ F(s \ {x}) \in Nat /\ f[x] \in Nat
      BY <1>2, <1>6
    <2>2. QED BY <2>1
  <1>8. QED BY <1>2, <1>6, <1>7 DEF F

\* Adding nothing outside of S.
LEMMA SumExtended ==
    ASSUME NEW T, IsFiniteSet(T), NEW S \in SUBSET T, NEW f, NEW g,
           \A x \in S : f[x] \in Int /\ g[x] = f[x], \A x \in T \ S : g[x] = 0
    PROVE  SumFunctionOnSet(g, T) = SumFunctionOnSet(f, S)
  <1> DEFINE F(s) == SumFunctionOnSet(f, s)
             G(s) == SumFunctionOnSet(g, s)
             good == {s \in SUBSET T : G(s) = F(s \cap S)}
  <1>1. IsFiniteSet(S) /\ \A x \in S : f[x] \in Int
    BY FS_Subset
  <1>2. \A x \in T : g[x] \in Int
    OBVIOUS
  <1>3. Sums(f, S) /\ Sums(g, T)
    BY <1>1, <1>2, SumProperties, Zenon
  <1>4. /\ F({}) = 0 /\ \A s \in SUBSET S : F(s) \in Int
        /\ \A s \in SUBSET S : \A x \in s : F(s) = f[x] + F(s \ {x})
    BY <1>3, Zenon DEF Sums
  <1>5. /\ G({}) = 0 /\ \A s \in SUBSET T : \A x \in s : G(s) = g[x] + G(s \ {x})
    BY <1>3, Zenon DEF Sums
  <1> HIDE DEF F, G
  <1>6. {} \in good
    <2>1. {} \cap S = {}
      OBVIOUS
    <2>2. QED BY <1>4, <1>5, <2>1
  <1>7. ASSUME NEW s \in SUBSET T, s # {}, \A x \in s : s \ {x} \in good PROVE s \in good
    <2>1. PICK x \in s : TRUE
      BY <1>7
    <2>2. G(s) = g[x] + F((s \ {x}) \cap S)
      BY <1>5, <1>7
    <2>3. CASE x \in S
      <3>1. (s \ {x}) \cap S = (s \cap S) \ {x}
        OBVIOUS
      <3>2. F(s \cap S) = f[x] + F((s \cap S) \ {x})
        BY <1>4, <2>3
      <3>3. g[x] = f[x]
        BY <2>3
      <3>4. QED BY <2>2, <3>1, <3>2, <3>3
    <2>4. CASE x \notin S
      <3>1. (s \ {x}) \cap S = s \cap S
        BY <2>4
      <3>2. g[x] = 0 /\ F(s \cap S) \in Int
        BY <1>4, <2>4
      <3>3. G(s) = g[x] + F(s \cap S)
        BY <2>2, <3>1, Zenon
      <3>4. G(s) = F(s \cap S)
        BY <3>2, <3>3
      <3>5. QED BY <3>4
    <2>5. QED BY <2>3, <2>4
  <1> HIDE DEF good
  <1>8. \A s \in SUBSET T : s \in good
    BY <1>6, <1>7, GrowingSets
  <1>9. T \cap S = S
    OBVIOUS
  <1>10. QED BY <1>8, <1>9 DEF good, F, G

(* A sum of numbers up to c.                                               *)
LEMMA SumBounded ==
    ASSUME NEW S, IsFiniteSet(S), NEW c \in Nat, NEW f, \A x \in S : f[x] \in Nat /\ f[x] <= c
    PROVE  SumFunctionOnSet(f, S) <= c * Cardinality(S)
  <1> DEFINE F(s) == SumFunctionOnSet(f, s)
             good == {s \in SUBSET S : F(s) <= c * Cardinality(s)}
  <1>1. /\ F({}) = 0 /\ \A s \in SUBSET S : F(s) \in Nat
        /\ \A s \in SUBSET S : \A x \in s : F(s) = f[x] + F(s \ {x})
    BY SumOfNumbers
  <1>2. \A s \in SUBSET S : IsFiniteSet(s) /\ Cardinality(s) \in Nat
    BY FS_Subset, FS_CardinalityType
  <1>3. {} \in good
    BY <1>1, FS_EmptySet
  <1> HIDE DEF F
  <1>4. ASSUME NEW s \in SUBSET S, s # {}, \A x \in s : s \ {x} \in good PROVE s \in good
    <2>1. PICK x \in s : TRUE
      BY <1>4
    <2>2. s \ {x} \in SUBSET S /\ F(s \ {x}) <= c * Cardinality(s \ {x})
      BY <1>4
    <2>3. Cardinality(s \ {x}) = Cardinality(s) - 1
      BY <1>2, FS_RemoveElement
    <2>4. F(s) = f[x] + F(s \ {x}) /\ F(s \ {x}) \in Nat /\ f[x] \in Nat /\ f[x] <= c
      BY <1>1, <2>2
    <2>5. Cardinality(s) \in Nat /\ Cardinality(s \ {x}) \in Nat
      BY <1>2, <2>2
    <2> DEFINE k == Cardinality(s \ {x})
    <2>6. c * Cardinality(s) = c + c * k /\ c * k \in Nat
      BY <2>3, <2>5
    <2>7. F(s) <= c * Cardinality(s)
      BY <2>2, <2>4, <2>6
    <2>8. QED BY <2>7
  <1> HIDE DEF good
  <1>5. \A s \in SUBSET S : s \in good
    BY <1>3, <1>4, GrowingSets
  <1>6. QED BY <1>5 DEF good, F

-----------------------------------------------------------------------------
(***************************************************************************)
(* Folds of sequences.  The accumulator is in A, and step[<<a, x>>] is     *)
(* what becomes of a when x is taken.  There is a fold, and any has its    *)
(* accumulator after each element in A.                                    *)
(***************************************************************************)
\* iter[s] is the fold over the elements of seq at the places s.
FoldsLeft(seq, step, base, iter) ==
    \A s \in SUBSET DOMAIN seq :
        iter[s] = IF s = {} THEN base ELSE step[<<iter[s \ {Max(s)}], seq[Max(s)]>>]

\* The same, as long as the accumulator is known to be in A.
FoldsLeftIn(A, seq, step, base, iter) ==
    /\ iter[{}] = base
    /\ \A s \in SUBSET DOMAIN seq : s # {} /\ iter[s \ {Max(s)}] \in A =>
          iter[s] = step[<<iter[s \ {Max(s)}], seq[Max(s)]>>]

\* acc[i] is the accumulator after the first i elements.
Accumulates(seq, step, base, acc) ==
    /\ acc[0] = base
    /\ \A i \in 1..Len(seq) : acc[i] = step[<<acc[i - 1], seq[i]>>]

Accumulated(A, seq, step, base, last) ==
    \E acc \in [0..Len(seq) -> A] : Accumulates(seq, step, base, acc) /\ last = acc[Len(seq)]

LEMMA LastPlace ==
    ASSUME NEW X, NEW seq \in Seq(X), NEW s \in SUBSET DOMAIN seq, s # {}
    PROVE  Max(s) \in s /\ Max(s) \in DOMAIN seq
  <1>1. DOMAIN seq = 1..Len(seq) /\ Len(seq) \in Nat
    OBVIOUS
  <1>2. IsFiniteSet(1..Len(seq))
    BY <1>1, FS_Interval
  <1>3. IsFiniteSet(s) /\ s \in SUBSET Int
    BY <1>1, <1>2, FS_Subset
  <1>4. QED BY <1>3, MaxOfNumbers

LEMMA FoldLeftExists ==
    ASSUME NEW X, NEW seq \in Seq(X), NEW A, NEW base \in A, NEW step \in [A \X X -> A]
    PROVE  \E iter \in [SUBSET DOMAIN seq -> A] : FoldsLeft(seq, step, base, iter)
  <1> DEFINE D == DOMAIN seq
             pick == [s \in SUBSET D |-> Max(s)]
             take == [p \in (SUBSET D) \X A |->
                         IF p[1] = {} THEN base ELSE step[<<p[2], seq[Max(p[1])]>>]]
  <1>1. IsFiniteSet(D)
    BY FS_Interval
  <1>2. \A s \in SUBSET D : s # {} => Max(s) \in s /\ seq[Max(s)] \in X
    BY LastPlace
  <1>3. Picks(D, pick)
    BY <1>2 DEF Picks
  <1>4. take \in [(SUBSET D) \X A -> A]
    BY <1>2
  <1>5. PICK iter \in [SUBSET D -> A] : FoldsTo(D, pick, take, base, iter)
    <2> HIDE DEF D, pick, take
    <2>1. QED BY <1>1, <1>3, <1>4, FoldExists, Zenon
  <1>6. iter[{}] = base
    BY <1>5 DEF FoldsTo
  <1>7. ASSUME NEW s \in SUBSET D, s # {}
        PROVE  iter[s] = step[<<iter[s \ {Max(s)}], seq[Max(s)]>>]
    <2>1. pick[s] = Max(s) /\ iter[s \ {Max(s)}] \in A
      OBVIOUS
    <2>2. iter[s] = take[<<s, iter[s \ {Max(s)}]>>]
      BY <1>5, <1>7, <2>1 DEF FoldsTo
    <2>3. take[<<s, iter[s \ {Max(s)}]>>] = step[<<iter[s \ {Max(s)}], seq[Max(s)]>>]
      BY <1>7, <2>1
    <2>4. QED BY <2>2, <2>3
  <1>8. QED BY <1>6, <1>7 DEF FoldsLeft

LEMMA FoldLeftAccumulates ==
    ASSUME NEW X, NEW seq \in Seq(X), NEW A, NEW base \in A, NEW step \in [A \X X -> A],
           NEW iter, FoldsLeftIn(A, seq, step, base, iter)
    PROVE  Accumulated(A, seq, step, base, iter[DOMAIN seq])
  <1> DEFINE acc == [i \in 0..Len(seq) |-> iter[1..i]]
             good == {i \in 0..Len(seq) : acc[i] \in A /\ (i > 0 => acc[i] = step[<<acc[i - 1], seq[i]>>])}
  <1>1. DOMAIN seq = 1..Len(seq) /\ Len(seq) \in Nat
    OBVIOUS
  <1>2. acc[0] = base
    <2>1. 1..0 = {}
      OBVIOUS
    <2>2. QED BY <1>1, <2>1 DEF FoldsLeftIn
  <1>3. ASSUME NEW i \in 1..Len(seq) PROVE Max(1..i) = i /\ (1..i) \ {i} = 1..(i - 1)
    <2>1. IsFiniteSet(1..i) /\ 1..i # {} /\ 1..i \in SUBSET Int /\ i \in 1..i
      <3>1. i \in 1..i /\ i \in Int
        BY <1>1
      <3>2. IsFiniteSet(1..i)
        BY <3>1, FS_Interval
      <3>3. \A j \in 1..i : j \in Int
        BY <3>1
      <3>4. QED BY <3>1, <3>2, <3>3, Zenon
    <2>2. Max(1..i) \in 1..i /\ Max(1..i) >= i
      BY <2>1, MaxOfNumbers
    <2>3. QED BY <1>1, <2>2
  <1>4. 0 \in good
    BY <1>1, <1>2
  <1>5. ASSUME NEW i \in 1..Len(seq), i - 1 \in good PROVE i \in good
    <2>1. i - 1 \in 0..Len(seq) /\ i \in 0..Len(seq) /\ 1..i \in SUBSET DOMAIN seq /\ 1..i # {}
      <3>1. i - 1 \in 0..Len(seq) /\ i \in 0..Len(seq) /\ i \in 1..i
        BY <1>1
      <3>2. 1..i \in SUBSET DOMAIN seq
        BY <1>1
      <3>3. QED BY <3>1, <3>2
    <2>2. acc[i - 1] = iter[(1..i) \ {Max(1..i)}] /\ acc[i] = iter[1..i] /\ acc[i - 1] \in A
      BY <1>3, <1>5, <2>1
    <2>3. acc[i] = step[<<acc[i - 1], seq[i]>>]
      <3> HIDE DEF acc
      <3>1. QED BY <1>3, <2>1, <2>2 DEF FoldsLeftIn
    <2>4. acc[i] \in A
      <3> HIDE DEF acc
      <3>1. seq[i] \in X
        OBVIOUS
      <3>2. QED BY <2>2, <2>3, <3>1
    <2> HIDE DEF acc
    <2>5. QED BY <1>1, <2>1, <2>3, <2>4
  <1> HIDE DEF good
  <1>6. \A i \in 0..Len(seq) : i \in good
    BY <1>1, <1>4, <1>5, CountingUp
  <1>7. acc \in [0..Len(seq) -> A]
    <2>1. \A i \in 0..Len(seq) : acc[i] \in A
      <3> HIDE DEF acc
      <3>1. QED BY <1>6 DEF good
    <2>2. QED BY <2>1
  <1>8. acc[Len(seq)] = iter[DOMAIN seq]
    BY <1>1
  <1>9. Accumulates(seq, step, base, acc)
    <2>1. \A i \in 1..Len(seq) : i \in 0..Len(seq) /\ i > 0
      BY <1>1
    <2> HIDE DEF acc
    <2>2. QED BY <1>2, <1>6, <2>1 DEF good, Accumulates
  <1> HIDE DEF acc
  <1>10. QED BY <1>7, <1>8, <1>9 DEF Accumulated

-----------------------------------------------------------------------------
(* Flattened sequences: acc[i] is what the first i sequences make.         *)

Flattens(seqs, acc) ==
    /\ acc[0] = <<>>
    /\ \A i \in 1..Len(seqs) : acc[i] = acc[i - 1] \o seqs[i]

LEMMA FlattensIsUnique ==
    ASSUME NEW seqs, Len(seqs) \in Nat, NEW a, NEW b, Flattens(seqs, a), Flattens(seqs, b)
    PROVE  \A i \in 0..Len(seqs) : a[i] = b[i]
  <1> DEFINE n == Len(seqs)
             good == {i \in 0..n : a[i] = b[i]}
  <1>1. 0 \in good
    BY DEF Flattens
  <1>2. ASSUME NEW i \in 1..n, i - 1 \in good PROVE i \in good
    <2>1. a[i - 1] = b[i - 1] /\ i \in 0..n
      BY <1>2
    <2>2. a[i] = b[i]
      BY <2>1, Zenon DEF Flattens
    <2>3. QED BY <2>1, <2>2
  <1> HIDE DEF good
  <1>3. \A i \in 0..n : i \in good
    BY <1>1, <1>2, CountingUp
  <1>4. QED BY <1>3 DEF good

LEMMA FlattenAccumulates ==
    ASSUME NEW X, NEW seqs \in Seq(Seq(X))
    PROVE  \E acc \in [0..Len(seqs) -> Seq(X)] :
              Flattens(seqs, acc) /\ FlattenSeq(seqs) = acc[Len(seqs)]
  <1> DEFINE A == Seq(X)
             n == Len(seqs)
             step == [p \in A \X A |-> p[1] \o p[2]]
  <1>1. n \in Nat /\ seqs \in Seq(A) /\ <<>> \in A /\ step \in [A \X A -> A]
    OBVIOUS
  <1>2. \A x, y \in A : step[<<x, y>>] = x \o y
    OBVIOUS
  <1>3. \A i \in 1..n : seqs[i] \in A
    OBVIOUS
  <1>4. PICK acc \in [0..n -> A] : Accumulates(seqs, step, <<>>, acc)
    <2> DEFINE empty == <<>>
    <2>1. seqs \in Seq(A) /\ empty \in A /\ step \in [A \X A -> A]
      BY <1>1
    <2> HIDE DEF A, step, empty
    <2>2. PICK iter \in [SUBSET DOMAIN seqs -> A] : FoldsLeft(seqs, step, empty, iter)
      BY <2>1, FoldLeftExists
    <2>3. FoldsLeftIn(A, seqs, step, empty, iter)
      BY <2>2 DEF FoldsLeft, FoldsLeftIn
    <2>4. Accumulated(A, seqs, step, empty, iter[DOMAIN seqs])
      BY <2>1, <2>3, FoldLeftAccumulates, Zenon
    <2>5. QED BY <2>4 DEF empty, Accumulated
  <1>5. \A i \in 1..n : i - 1 \in 0..n /\ i \in 0..n
    BY <1>1
  <1>6. Flattens(seqs, acc)
    <2>1. ASSUME NEW i \in 1..n PROVE acc[i] = acc[i - 1] \o seqs[i]
      <3>1. acc[i - 1] \in A
        BY <1>5
      <3>2. acc[i] = step[<<acc[i - 1], seqs[i]>>]
        BY <1>4 DEF Accumulates
      <3> HIDE DEF A, step
      <3>3. QED BY <1>2, <1>3, <3>1, <3>2
    <2>2. QED BY <1>4, <2>1 DEF Accumulates, Flattens
  <1> HIDE DEF step
  <1>7. CASE n = 0
    <2>1. seqs = <<>>
      BY <1>7
    <2>2. FlattenSeq(seqs) = acc[n]
      BY <1>6, <1>7, <2>1 DEF FlattenSeq, Flattens
    <2>3. QED BY <1>6, <2>2
  <1>8. CASE n # 0
    <2> DEFINE Parts(f) == f = [i \in 1..n |-> IF i = 1 THEN seqs[i] ELSE f[i - 1] \o seqs[i]]
               flat == CHOOSE f : Parts(f)
    <2>1. FlattenSeq(seqs) = flat[n]
      BY <1>8 DEF FlattenSeq
    <2> DEFINE f == [i \in 1..n |-> acc[i]]
    <2>2. ASSUME NEW i \in 1..n PROVE f[i] = IF i = 1 THEN seqs[i] ELSE f[i - 1] \o seqs[i]
      <3>1. acc[i] = acc[i - 1] \o seqs[i]
        BY <1>6 DEF Flattens
      <3>2. CASE i = 1
        <4>1. acc[i - 1] = <<>>
          BY <1>6, <3>2 DEF Flattens
        <4>2. <<>> \o seqs[i] = seqs[i]
          BY <1>3
        <4>3. QED BY <3>1, <3>2, <4>1, <4>2
      <3>3. CASE i # 1
        <4>1. i - 1 \in 1..n
          BY <1>1, <3>3
        <4>2. QED BY <3>1, <3>3, <4>1
      <3>4. QED BY <3>2, <3>3
    <2>3. Parts(f)
      <3>1. f = [i \in 1..n |-> f[i]]
        OBVIOUS
      <3> HIDE DEF f
      <3>2. QED BY <2>2, <3>1
    <2>4. Parts(flat)
      <3> HIDE DEF f
      <3>1. QED BY <2>3
    <2> HIDE DEF flat
    <2> DEFINE g == [i \in 0..n |-> IF i = 0 THEN <<>> ELSE flat[i]]
    <2>5. g[0] = <<>>
      BY <1>1
    <2>6. ASSUME NEW i \in 1..n PROVE g[i] = g[i - 1] \o seqs[i]
      <3>1. flat[i] = IF i = 1 THEN seqs[i] ELSE flat[i - 1] \o seqs[i]
        BY <2>4
      <3>2. g[i] = flat[i] /\ g[i - 1] = IF i = 1 THEN <<>> ELSE flat[i - 1]
        BY <1>1
      <3>3. <<>> \o seqs[i] = seqs[i]
        BY <1>3
      <3>4. g[i] = g[i - 1] \o seqs[i]
        <4> HIDE DEF g
        <4>1. QED BY <3>1, <3>2, <3>3
      <3>5. QED BY <3>4
    <2> HIDE DEF g
    <2>7. \A i \in 0..n : g[i] = acc[i]
      <3>1. Flattens(seqs, g)
        BY <2>5, <2>6, Zenon DEF Flattens
      <3>2. Len(seqs) \in Nat
        BY <1>1
      <3>3. \A i \in 0..Len(seqs) : g[i] = acc[i]
        BY <1>6, <3>1, <3>2, FlattensIsUnique
      <3>4. QED BY <3>3
    <2>8. g[n] = flat[n]
      BY <1>1, <1>8 DEF g
    <2>9. n \in 0..n
      BY <1>1
    <2>10. FlattenSeq(seqs) = acc[n]
      BY <2>1, <2>7, <2>8, <2>9
    <2>11. QED BY <1>6, <2>10
  <1>9. QED BY <1>7, <1>8

LEMMA FlattenOfEmpty == FlattenSeq(<<>>) = <<>>
  BY DEF FlattenSeq

LEMMA FlattenIsSeq ==
    ASSUME NEW X, NEW seqs \in Seq(Seq(X))
    PROVE  FlattenSeq(seqs) \in Seq(X)
  <1>1. PICK acc \in [0..Len(seqs) -> Seq(X)] : FlattenSeq(seqs) = acc[Len(seqs)]
    BY FlattenAccumulates
  <1>2. Len(seqs) \in 0..Len(seqs)
    OBVIOUS
  <1>3. QED BY <1>1, <1>2

LEMMA FlattenOfAppend ==
    ASSUME NEW X, NEW seqs \in Seq(Seq(X)), NEW s \in Seq(X)
    PROVE  FlattenSeq(Append(seqs, s)) = FlattenSeq(seqs) \o s
  <1> DEFINE n == Len(seqs)
             more == Append(seqs, s)
  <1>1. /\ n \in Nat /\ more \in Seq(Seq(X)) /\ Len(more) = n + 1 /\ more[n + 1] = s
        /\ \A i \in 1..n : more[i] = seqs[i]
    BY AppendProperties
  <1>2. PICK a : Flattens(seqs, a) /\ FlattenSeq(seqs) = a[n]
    BY FlattenAccumulates
  <1> HIDE DEF more
  <1>3. PICK b : Flattens(more, b) /\ FlattenSeq(more) = b[Len(more)]
    BY <1>1, FlattenAccumulates
  <1>4. Flattens(seqs, b)
    <2>1. \A i \in 1..n : i \in 1..Len(more) /\ more[i] = seqs[i]
      BY <1>1
    <2>2. QED BY <1>3, <2>1, Zenon DEF Flattens
  <1>5. a[n] = b[n]
    <2>1. \A i \in 0..n : a[i] = b[i]
      BY <1>1, <1>2, <1>4, FlattensIsUnique
    <2>2. n \in 0..n
      BY <1>1
    <2>3. QED BY <2>1, <2>2
  <1>6. b[n + 1] = b[n] \o s
    <2>1. n + 1 \in 1..Len(more) /\ (n + 1) - 1 = n
      BY <1>1
    <2>2. b[n + 1] = b[(n + 1) - 1] \o more[n + 1]
      BY <1>3, <2>1 DEF Flattens
    <2>3. QED BY <1>1, <2>1, <2>2
  <1>7. QED BY <1>1, <1>2, <1>3, <1>5, <1>6 DEF more

LEMMA FlattenOfOne ==
    ASSUME NEW X, NEW s \in Seq(X)
    PROVE  FlattenSeq(<<s>>) = s
  <1>1. <<>> \in Seq(Seq(X)) /\ Append(<<>>, s) = <<s>>
    OBVIOUS
  <1>2. FlattenSeq(<<s>>) = FlattenSeq(<<>>) \o s
    BY <1>1, FlattenOfAppend
  <1>3. QED BY <1>2, FlattenOfEmpty, ConcatEmptySeq

LEMMA ConcatAssociates ==
    ASSUME NEW X, NEW x \in Seq(X), NEW y \in Seq(X), NEW z \in Seq(X)
    PROVE  (x \o y) \o z = x \o (y \o z)
  BY ConcatAssociative, SMT

LEMMA FlattenOfConcat ==
    ASSUME NEW X, NEW seqs \in Seq(Seq(X)), NEW more \in Seq(Seq(X))
    PROVE  FlattenSeq(seqs \o more) = FlattenSeq(seqs) \o FlattenSeq(more)
  <1> DEFINE m == Len(more)
             n == Len(seqs)
             both == seqs \o more
  <1>1. /\ n \in Nat /\ m \in Nat /\ both \in Seq(Seq(X)) /\ Len(both) = n + m
        /\ \A i \in 1..n : both[i] = seqs[i]
        /\ \A i \in 1..m : both[n + i] = more[i]
    <2>1. /\ n \in Nat /\ m \in Nat /\ both \in Seq(Seq(X)) /\ Len(both) = n + m
          /\ \A i \in 1..(n + m) : both[i] = IF i <= n THEN seqs[i] ELSE more[i - n]
      BY ConcatProperties, LenProperties
    <2> HIDE DEF both, n, m
    <2>2. ASSUME NEW i \in 1..m PROVE both[n + i] = more[i]
      <3>1. n + i \in 1..(n + m) /\ ~(n + i <= n) /\ (n + i) - n = i
        BY <2>1
      <3>2. QED BY <2>1, <3>1
    <2>3. ASSUME NEW i \in 1..n PROVE both[i] = seqs[i]
      <3>1. i \in 1..(n + m) /\ i <= n
        BY <2>1
      <3>2. QED BY <2>1, <3>1
    <2>4. QED BY <2>1, <2>2, <2>3
  <1>2. PICK a : Flattens(seqs, a) /\ FlattenSeq(seqs) = a[n]
    BY FlattenAccumulates
  <1>3. PICK b \in [0..m -> Seq(X)] : Flattens(more, b) /\ FlattenSeq(more) = b[m]
    BY FlattenAccumulates
  <1> HIDE DEF both
  <1>4. PICK c : Flattens(both, c) /\ FlattenSeq(both) = c[Len(both)]
    BY <1>1, FlattenAccumulates
  <1>5. c[n] = FlattenSeq(seqs)
    <2>1. Flattens(seqs, c)
      <3>1. \A i \in 1..n : i \in 1..Len(both) /\ both[i] = seqs[i]
        BY <1>1
      <3>2. QED BY <1>4, <3>1 DEF Flattens
    <2>2. \A i \in 0..n : a[i] = c[i]
      BY <1>1, <1>2, <2>1, FlattensIsUnique
    <2>3. n \in 0..n
      BY <1>1
    <2>4. QED BY <1>2, <2>2, <2>3
  <1> DEFINE good == {i \in 0..m : c[n + i] = FlattenSeq(seqs) \o b[i]}
  <1>6. FlattenSeq(seqs) \in Seq(X)
    BY FlattenIsSeq
  <1>7. 0 \in good
    <2>1. b[0] = <<>> /\ n + 0 = n /\ 0 \in 0..m
      BY <1>1, <1>3 DEF Flattens
    <2>2. QED BY <1>5, <1>6, <2>1, ConcatEmptySeq
  <1>8. ASSUME NEW i \in 1..m, i - 1 \in good PROVE i \in good
    <2>1. /\ i \in 0..m /\ i - 1 \in 0..m /\ n + i \in 1..Len(both) /\ (n + i) - 1 = n + (i - 1)
      BY <1>1
    <2>2. c[n + i] = c[n + (i - 1)] \o more[i]
      <3>1. c[n + i] = c[(n + i) - 1] \o both[n + i]
        BY <1>4, <2>1 DEF Flattens
      <3>2. QED BY <1>1, <2>1, <3>1
    <2>3. b[i] = b[i - 1] \o more[i] /\ b[i - 1] \in Seq(X) /\ more[i] \in Seq(X)
      <3>1. b[i] = b[i - 1] \o more[i]
        BY <1>3, Zenon DEF Flattens
      <3>2. b[i - 1] \in Seq(X)
        BY <1>3, <2>1, Zenon
      <3>3. more[i] \in Seq(X)
        BY ElementOfSeq, Zenon
      <3>4. QED BY <3>1, <3>2, <3>3
    <2>4. c[n + (i - 1)] = FlattenSeq(seqs) \o b[i - 1]
      BY <1>8
    <2>5. (FlattenSeq(seqs) \o b[i - 1]) \o more[i] = FlattenSeq(seqs) \o (b[i - 1] \o more[i])
      <3> HIDE DEF n, m
      <3> DEFINE u == FlattenSeq(seqs)
                 v == b[i - 1]
                 w == more[i]
      <3>1. u \in Seq(X) /\ v \in Seq(X) /\ w \in Seq(X)
        BY <1>6, <2>3
      <3> HIDE DEF u, v, w
      <3>2. (u \o v) \o w = u \o (v \o w)
        BY <3>1, ConcatAssociates, SMT
      <3>3. QED BY <3>2 DEF u, v, w
    <2>6. QED BY <2>1, <2>2, <2>3, <2>4, <2>5
  <1>9. m \in good
    <2> HIDE DEF good, m
    <2>1. \A i \in 0..m : i \in good
      BY <1>1, <1>7, <1>8, CountingUp
    <2>2. m \in 0..m
      BY <1>1
    <2>3. QED BY <2>1, <2>2
  <1>10. QED BY <1>1, <1>3, <1>4, <1>9 DEF both

LEMMA FlattenElements ==
    ASSUME NEW X, NEW seqs \in Seq(Seq(X))
    PROVE  ToSet(FlattenSeq(seqs)) = UNION {ToSet(seqs[i]) : i \in DOMAIN seqs}
  <1> DEFINE n == Len(seqs)
             Upto(i) == UNION {ToSet(seqs[j]) : j \in 1..i}
  <1>1. PICK acc \in [0..n -> Seq(X)] : Flattens(seqs, acc) /\ FlattenSeq(seqs) = acc[n]
    BY FlattenAccumulates
  <1>2. n \in Nat /\ DOMAIN seqs = 1..n
    OBVIOUS
  <1> DEFINE good == {i \in 0..n : ToSet(acc[i]) = Upto(i)}
  <1>3. 0 \in good
    <2>1. acc[0] = <<>> /\ 0 \in 0..n
      BY <1>1, <1>2 DEF Flattens
    <2>2. ToSet(<<>>) = {} /\ Upto(0) = {}
      BY DEF ToSet
    <2>3. QED BY <2>1, <2>2
  <1>4. ASSUME NEW i \in 1..n, i - 1 \in good PROVE i \in good
    <2>1. i \in 0..n /\ i - 1 \in 0..n
      BY <1>2
    <2>2. acc[i] = acc[i - 1] \o seqs[i]
      BY <1>1, Zenon DEF Flattens
    <2>3. acc[i - 1] \in Seq(X) /\ seqs[i] \in Seq(X)
      <3>1. acc[i - 1] \in Seq(X)
        BY <2>1, Zenon
      <3>2. seqs[i] \in Seq(X)
        BY ElementOfSeq, Zenon
      <3>3. QED BY <3>1, <3>2
    <2>4. ToSet(acc[i - 1] \o seqs[i]) = ToSet(acc[i - 1]) \cup ToSet(seqs[i])
      <3>1. \A s, t \in Seq(X) : Range(s \o t) = Range(s) \cup Range(t)
        BY RangeConcatenation, Zenon
      <3>2. QED BY <2>3, <3>1, Zenon DEF Range, ToSet
    <2>5. Upto(i) = Upto(i - 1) \cup ToSet(seqs[i])
      <3>1. 1..i = (1..(i - 1)) \cup {i}
        BY <1>2
      <3>2. QED BY <3>1
    <2>6. ToSet(acc[i - 1]) = Upto(i - 1)
      BY <1>4
    <2> HIDE DEF Upto
    <2>7. QED BY <2>1, <2>2, <2>4, <2>5, <2>6
  <1>5. n \in good
    <2> HIDE DEF good, n
    <2>1. \A i \in 0..n : i \in good
      BY <1>2, <1>3, <1>4, CountingUp
    <2>2. n \in 0..n
      BY <1>2
    <2>3. QED BY <2>1, <2>2
  <1>6. QED BY <1>1, <1>2, <1>5

-----------------------------------------------------------------------------
(* Elements of sequences, images and places.                               *)

(* An element more.                                                        *)
LEMMA ElementsOfAppend ==
    ASSUME NEW X, NEW s \in Seq(X), NEW x \in X
    PROVE  ToSet(Append(s, x)) = ToSet(s) \cup {x}
  <1> DEFINE n == Len(s)
             more == Append(s, x)
  <1>1. /\ n \in Nat /\ Len(more) = n + 1 /\ more[n + 1] = x /\ \A i \in 1..n : more[i] = s[i]
        /\ DOMAIN s = 1..n /\ DOMAIN more = 1..(n + 1)
    BY AppendProperties
  <1> HIDE DEF n, more
  <1>2. ASSUME NEW y \in ToSet(more) PROVE y \in ToSet(s) \cup {x}
    <2>1. PICK i \in 1..(n + 1) : y = more[i]
      BY <1>1 DEF ToSet
    <2>2. CASE i = n + 1
      BY <1>1, <2>1, <2>2
    <2>3. CASE i # n + 1
      <3>1. i \in 1..n
        BY <1>1, <2>3
      <3>2. QED BY <1>1, <2>1, <3>1 DEF ToSet
    <2>4. QED BY <2>2, <2>3
  <1>3. ASSUME NEW y \in ToSet(s) \cup {x} PROVE y \in ToSet(more)
    <2>1. CASE y = x
      <3>1. n + 1 \in 1..(n + 1)
        BY <1>1
      <3>2. QED BY <1>1, <2>1, <3>1 DEF ToSet
    <2>2. CASE y \in ToSet(s)
      <3>1. PICK i \in 1..n : y = s[i]
        BY <1>1, <2>2 DEF ToSet
      <3>2. i \in 1..(n + 1)
        BY <1>1
      <3>3. QED BY <1>1, <3>1, <3>2 DEF ToSet
    <2>3. QED BY <2>1, <2>2
  <1>4. QED BY <1>2, <1>3 DEF more

(* The elements of two sequences.                                          *)
LEMMA ElementsOfConcat ==
    ASSUME NEW X, NEW s \in Seq(X), NEW t \in Seq(X)
    PROVE  s \o t \in Seq(X) /\ ToSet(s \o t) = ToSet(s) \cup ToSet(t)
  <1> DEFINE m == Len(s)
             n == Len(t)
             st == s \o t
  <1>1. /\ st \in Seq(X) /\ m \in Nat /\ n \in Nat /\ Len(st) = m + n
        /\ \A i \in 1..(m + n) : st[i] = IF i <= m THEN s[i] ELSE t[i - m]
        /\ DOMAIN s = 1..m /\ DOMAIN t = 1..n /\ DOMAIN st = 1..(m + n)
    BY ConcatProperties
  <1> HIDE DEF m, n, st
  <1>2. ASSUME NEW y \in ToSet(st) PROVE y \in ToSet(s) \cup ToSet(t)
    <2>1. PICK i \in 1..(m + n) : y = st[i]
      BY <1>1 DEF ToSet
    <2>2. CASE i <= m
      <3>1. i \in 1..m /\ y = s[i]
        BY <1>1, <2>1, <2>2
      <3>2. QED BY <1>1, <3>1 DEF ToSet
    <2>3. CASE ~(i <= m)
      <3>1. i - m \in 1..n /\ y = t[i - m]
        BY <1>1, <2>1, <2>3
      <3>2. QED BY <1>1, <3>1 DEF ToSet
    <2>4. QED BY <2>2, <2>3
  <1>3. ASSUME NEW y \in ToSet(s) PROVE y \in ToSet(st)
    <2>1. PICK i \in 1..m : y = s[i]
      BY <1>1 DEF ToSet
    <2>2. i \in 1..(m + n) /\ y = st[i]
      BY <1>1, <2>1
    <2>3. QED BY <1>1, <2>2 DEF ToSet
  <1>4. ASSUME NEW y \in ToSet(t) PROVE y \in ToSet(st)
    <2>1. PICK i \in 1..n : y = t[i]
      BY <1>1 DEF ToSet
    <2>2. i + m \in 1..(m + n) /\ ~(i + m <= m) /\ (i + m) - m = i
      BY <1>1
    <2>3. y = st[i + m]
      BY <1>1, <2>1, <2>2
    <2>4. QED BY <1>1, <2>2, <2>3 DEF ToSet
  <1>5. QED BY <1>1, <1>2, <1>3, <1>4 DEF st

(* The last of a concatenation.                                            *)
LEMMA LatestOfConcat ==
    ASSUME NEW X, NEW old \in Seq(X), NEW hits \in Seq(X), Len(hits) # 0
    PROVE  SubSeq(old \o hits, Len(old \o hits) - Len(hits) + 1, Len(old \o hits)) = hits
  <1> DEFINE k == Len(old)
             m == Len(hits)
  <1>1. k \in Nat /\ m \in Nat \ {0} /\ Len(old \o hits) = k + m
    OBVIOUS
  <1>2. SubSeq(old \o hits, k + 1, k + m) = SubSeq(hits, (k + 1) - k, (k + m) - k)
    BY <1>1, SubSeqOfConcat2
  <1>3. SubSeq(hits, 1, m) = hits
    BY SubSeqFull
  <1>4. QED BY <1>1, <1>2, <1>3

(* A sequence is one of its elements.                                      *)
LEMMA SeqOfItsElements ==
    ASSUME NEW X, NEW s \in Seq(X)
    PROVE  s \in Seq(ToSet(s)) /\ ToSet(s) \subseteq X
  BY SeqOfRange DEF Range, ToSet

(* The image of a set.                                                     *)
ImageOf(f, S) == {f[x] : x \in S}

(* Different elements have different images.                               *)
Injects(f, S, T) == f \in [S -> T] /\ \A x, y \in S : f[x] = f[y] => x = y

(* The image is as large as the set.                                       *)
LEMMA ImageSize ==
    ASSUME NEW S, NEW T, IsFiniteSet(S), NEW f, Injects(f, S, T)
    PROVE  Cardinality(ImageOf(f, S)) = Cardinality(S)
  <1> DEFINE R == ImageOf(f, S)
  <1>1. f \in [S -> R]
    <2>1. DOMAIN f = S /\ f = [x \in S |-> f[x]]
      BY DEF Injects
    <2>2. \A x \in S : f[x] \in R
      BY DEF ImageOf
    <2> HIDE DEF R
    <2>3. QED BY <2>1, <2>2
  <1>2. f \in Bijection(S, R)
    BY <1>1 DEF Bijection, Injection, Surjection, IsInjective, Injects, ImageOf
  <1>3. ExistsBijection(S, R)
    BY <1>2 DEF ExistsBijection
  <1>4. QED BY <1>3, FS_Bijection

(* An injection into a set of the same size reaches all of it.             *)
LEMMA InjectionOnto ==
    ASSUME NEW S, NEW T, IsFiniteSet(S), IsFiniteSet(T), Cardinality(S) = Cardinality(T),
           NEW f, Injects(f, S, T)
    PROVE  ImageOf(f, S) = T
  <1>1. ImageOf(f, S) \subseteq T
    BY DEF ImageOf, Injects
  <1>2. Cardinality(ImageOf(f, S)) = Cardinality(T)
    BY ImageSize
  <1>3. QED BY <1>1, <1>2, FS_Subset

(* The places of a finite set in a strict total order, given as its pairs. *)
Orders(R, S) ==
    /\ \A x \in S : <<x, x>> \notin R
    /\ \A x, y, z \in S : <<x, y>> \in R /\ <<y, z>> \in R => <<x, z>> \in R
    /\ \A x, y \in S : x = y \/ <<x, y>> \in R \/ <<y, x>> \in R

(* The elements before one of them.                                        *)
BeforeIn(R, S, x) == {y \in S : <<y, x>> \in R}

(* Their numbers are places: in the order, and each taken.                 *)
PlacesGiven(R, S) ==
    /\ \A x, y \in S : <<x, y>> \in R => Cardinality(BeforeIn(R, S, x)) < Cardinality(BeforeIn(R, S, y))
    /\ \A k \in 1..Cardinality(S) : \E x \in S : Cardinality(BeforeIn(R, S, x)) = k - 1

(* A strict total order of a finite set gives each of them a place.        *)
LEMMA PlacesInOrder ==
    ASSUME NEW S, IsFiniteSet(S), NEW R, Orders(R, S)
    PROVE  PlacesGiven(R, S)
  <1> DEFINE n == Cardinality(S)
             B(x) == BeforeIn(R, S, x)
  <1>0. n \in Nat
    BY FS_CardinalityType
  <1>1. \A x \in S : IsFiniteSet(B(x)) /\ Cardinality(B(x)) \in 0..(n - 1)
    <2> TAKE x \in S
    <2>1. B(x) \in SUBSET S /\ x \notin B(x)
      BY DEF BeforeIn, Orders
    <2> HIDE DEF B
    <2>2. IsFiniteSet(B(x)) /\ Cardinality(B(x)) <= n /\ (Cardinality(B(x)) = n => B(x) = S)
      BY <2>1, FS_Subset
    <2>3. Cardinality(B(x)) \in Nat
      BY <2>2, FS_CardinalityType
    <2> HIDE DEF n
    <2>4. QED BY <1>0, <2>1, <2>2, <2>3
  <1>2. ASSUME NEW x \in S, NEW y \in S, <<x, y>> \in R
        PROVE  Cardinality(B(x)) < Cardinality(B(y))
    <2>1. B(x) \in SUBSET B(y) /\ x \in B(y) /\ x \notin B(x)
      BY <1>2 DEF BeforeIn, Orders
    <2> HIDE DEF B
    <2>2. Cardinality(B(x)) <= Cardinality(B(y)) /\ Cardinality(B(x)) # Cardinality(B(y))
      BY <1>1, <2>1, FS_Subset
    <2> HIDE DEF n
    <2>3. QED BY <1>0, <1>1, <2>2
  <1> HIDE DEF n, B
  <1>3. ASSUME NEW x \in S, NEW y \in S, Cardinality(B(x)) = Cardinality(B(y)) PROVE x = y
    <2>1. Cardinality(B(x)) \in Int
      BY <1>0, <1>1
    <2>2. <<x, y>> \notin R /\ <<y, x>> \notin R
      BY <1>2, <1>3, <2>1
    <2>3. QED BY <2>2 DEF Orders
  <1>4. ASSUME NEW k \in 1..n PROVE \E x \in S : Cardinality(B(x)) = k - 1
    <2> DEFINE places == 0..(n - 1)
               f == [x \in S |-> Cardinality(B(x))]
    <2>1. IsFiniteSet(places) /\ Cardinality(places) = n
      <3>1. 0 \in Int /\ n - 1 \in Int /\ ~(0 > n - 1) /\ (n - 1) - 0 + 1 = n
        BY <1>0
      <3>2. QED BY <3>1, FS_Interval
    <2>2. Injects(f, S, places)
      BY <1>1, <1>3 DEF Injects
    <2>3. k - 1 \in places
      BY <1>0
    <2> HIDE DEF places, f
    <2>4. ImageOf(f, S) = places
      BY <2>1, <2>2, InjectionOnto DEF n
    <2>5. QED BY <2>3, <2>4 DEF f, ImageOf
  <1>5. QED BY <1>2, <1>4 DEF n, B, PlacesGiven

(* A set with two elements or more has two that differ.                    *)
LEMMA TwoOfMany ==
    ASSUME NEW S, Cardinality(S) > 1
    PROVE  \E x, y \in S : x # y
  <1>1. S # {}
    BY FS_EmptySet
  <1>2. PICK x \in S : TRUE
    BY <1>1
  <1>3. S # {x}
    BY FS_Singleton
  <1>4. QED BY <1>2, <1>3
==============================================================================
