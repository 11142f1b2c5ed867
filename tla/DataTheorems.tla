----------------------------- MODULE DataTheorems -----------------------------
(***************************************************************************)
(* What the proofs need to know of the data of the models: least elements, *)
(* which stand for induction, sums over finite sets, which are what the    *)
(* contracts' totals are compared with, and lists without repetitions.     *)
(***************************************************************************)
EXTENDS Integers, FiniteSets, Functions, Sequences, SequencesExt, SequenceTheorems,
        WellFoundedInduction, FiniteSetTheorems, TLAPS

\* A set of numbers that is not empty has a least one: the least number for
\* which a claim fails cannot exist if the claim follows from smaller ones.
LEMMA MinimumExists ==
    ASSUME NEW T \in SUBSET Nat, T # {}
    PROVE  \E x \in T : \A y \in T : x <= y
<1> DEFINE R == OpToRel(<, Nat)
<1>1. PICK x \in T : \A y \in T : ~(<<y, x>> \in R)
  <2>1. IsWellFoundedOn(R, Nat)
    BY NatLessThanWellFounded
  <2> HIDE DEF R
  <2> QED BY <2>1, WFMin
<1>2. \A y \in T : ~(y < x)
  BY <1>1 DEF OpToRel
<1> QED BY <1>2

\* A set of subsets of a finite set that is not empty has a minimal one.
LEMMA MinimalSubset ==
    ASSUME NEW S, IsFiniteSet(S), NEW T \in SUBSET (SUBSET S), T # {}
    PROVE  \E x \in T : \A y \in T : y \subseteq x => y = x
<1> DEFINE R == StrictSubsetOrdering(S)
<1>1. IsWellFoundedOn(R, SUBSET S)
  BY FS_StrictSubsetOrderingWellFounded, FS_FiniteSubsetsOfFinite
<1>2. PICK x \in T : \A y \in T : ~(<<y, x>> \in R)
  <2> HIDE DEF R
  <2> QED BY <1>1, WFMin
<1>3. \A y \in T : ~(y \subseteq x /\ y # x)
  BY <1>2 DEF StrictSubsetOrdering
<1> QED BY <1>3

\* A set of positions that is not empty has a largest one.
LEMMA MaximumExists ==
    ASSUME NEW n \in Nat, NEW S \in SUBSET (0..n), S # {}
    PROVE  \E i \in S : \A j \in S : j <= i
<1> DEFINE R == OpToRel(<, Nat)
           T == {n - i : i \in S}
<1>1. T \subseteq Nat /\ T # {}
  <2>1. T \subseteq Nat
    OBVIOUS
  <2>2. PICK i \in S : TRUE
    OBVIOUS
  <2>3. n - i \in T
    OBVIOUS
  <2> QED BY <2>1, <2>3
<1>2. PICK x \in T : \A y \in T : ~(<<y, x>> \in R)
  <2>1. IsWellFoundedOn(R, Nat)
    BY NatLessThanWellFounded
  <2> HIDE DEF R, T
  <2> QED BY <1>1, <2>1, WFMin
<1>3. \A y \in T : ~(y < x)
  BY <1>1, <1>2 DEF OpToRel
<1>4. PICK i \in S : x = n - i
  OBVIOUS
<1>5. ASSUME NEW j \in S PROVE j <= i
  <2>1. n - j \in T
    OBVIOUS
  <2>2. ~(n - j < n - i)
    BY <1>3, <1>4, <2>1
  <2>3. i \in Nat /\ j \in Nat
    OBVIOUS
  <2> QED BY <2>2, <2>3
<1> QED BY <1>5

-----------------------------------------------------------------------------
(* Sums of functions, as Functions defines them: the sum of each subset of *)
(* the domain is that of an element of it and of the rest.                 *)

someOf(s) == CHOOSE x \in s : TRUE

Summing(g, f, S) ==
    g = [s \in SUBSET S |-> IF s = {} THEN 0 ELSE f[someOf(s)] + g[s \ {someOf(s)}]]

PartialSums(f, S) == CHOOSE g : Summing(g, f, S)

\* SumFunction is the last of the partial sums.
LEMMA SumIsPartial ==
    ASSUME NEW f
    PROVE  SumFunction(f) = PartialSums(f, DOMAIN f)[DOMAIN f]
  BY DEF SumFunction, SumFunctionOnSet, FoldFunctionOnSet, MapThenFoldSet, PartialSums,
         Summing, someOf

\* The recursion determines the sums.
LEMMA SummingAgree ==
    ASSUME NEW S, IsFiniteSet(S), NEW f, NEW U \in SUBSET S, NEW W \in SUBSET S,
           NEW g, Summing(g, f, U), NEW h, Summing(h, f, W)
    PROVE  \A s \in SUBSET S : s \subseteq U /\ s \subseteq W => g[s] = h[s]
<1> DEFINE T == {s \in SUBSET S : s \subseteq U /\ s \subseteq W /\ g[s] # h[s]}
<1> SUFFICES ASSUME T # {} PROVE FALSE
  OBVIOUS
<1>1. PICK s \in T : \A y \in T : y \subseteq s => y = s
  <2>1. T \in SUBSET (SUBSET S)
    OBVIOUS
  <2> HIDE DEF T
  <2> QED BY <2>1, MinimalSubset
<1>2. s # {}
  BY <1>1 DEF Summing
<1>3. someOf(s) \in s
  BY <1>2 DEF someOf
<1> DEFINE r == s \ {someOf(s)}
<1>4. r \notin T /\ r \subseteq U /\ r \subseteq W
  BY <1>1, <1>3
<1>5. g[r] = h[r]
  BY <1>4
<1>6. g[s] = f[someOf(s)] + g[r]
  BY <1>1, <1>2 DEF Summing
<1>7. h[s] = f[someOf(s)] + h[r]
  BY <1>1, <1>2 DEF Summing
<1> QED BY <1>1, <1>5, <1>6, <1>7

\* There are such sums, and they are integers.
LEMMA SummingExists ==
    ASSUME NEW S, IsFiniteSet(S), NEW f \in [S -> Int]
    PROVE  \A U \in SUBSET S : \E g \in [SUBSET U -> Int] : Summing(g, f, U)
<1> DEFINE Has(U) == \E g \in [SUBSET U -> Int] : Summing(g, f, U)
           T == {U \in SUBSET S : ~Has(U)}
<1> SUFFICES ASSUME T # {} PROVE FALSE
  OBVIOUS
<1>1. PICK U \in T : \A y \in T : y \subseteq U => y = U
  <2>1. T \in SUBSET (SUBSET S)
    OBVIOUS
  <2> HIDE DEF T
  <2> QED BY <2>1, MinimalSubset
<1>2. \A s \in SUBSET U : s # U => Has(s)
  BY <1>1
<1> DEFINE G == [s \in SUBSET U |-> CHOOSE g \in [SUBSET s -> Int] : Summing(g, f, s)]
<1>3. ASSUME NEW s \in SUBSET U, s # U
      PROVE  G[s] \in [SUBSET s -> Int] /\ Summing(G[s], f, s)
  BY <1>2, <1>3
<1> HIDE DEF G
<1> DEFINE rest(s) == s \ {someOf(s)}
           sum(s) == IF s = {} THEN 0 ELSE f[someOf(s)] + G[rest(s)][rest(s)]
           g == [s \in SUBSET U |-> sum(s)]
<1>4. ASSUME NEW s \in SUBSET U, s # {}
      PROVE  someOf(s) \in s /\ rest(s) \in SUBSET U /\ rest(s) # U
  BY <1>4 DEF someOf
<1>5. g \in [SUBSET U -> Int]
  <2>1. ASSUME NEW s \in SUBSET U, s # {}
        PROVE  f[someOf(s)] + G[rest(s)][rest(s)] \in Int
    <3>1. G[rest(s)] \in [SUBSET rest(s) -> Int]
      BY <1>3, <1>4, <2>1
    <3>2. G[rest(s)][rest(s)] \in Int
      BY <3>1
    <3>3. f[someOf(s)] \in Int
      BY <1>4, <2>1
    <3> QED BY <3>2, <3>3
  <2>2. \A s \in SUBSET U : sum(s) \in Int
    BY <2>1
  <2> HIDE DEF sum
  <2> QED BY <2>2
<1>6. ASSUME NEW s \in SUBSET U, s # U
      PROVE  g[s] = G[s][s]
  <2>1. Summing(G[s], f, s)
    BY <1>3, <1>6
  <2>2. CASE s = {}
    BY <2>1, <2>2 DEF Summing
  <2>3. CASE s # {}
    <3>1. Summing(G[rest(s)], f, rest(s))
      BY <1>3, <1>4, <2>3
    <3>2. rest(s) \in SUBSET S /\ s \in SUBSET S
      OBVIOUS
    <3>3. G[rest(s)][rest(s)] = G[s][rest(s)]
      <4> DEFINE r == rest(s)
                 gr == G[r]
                 gs == G[s]
      <4>1. r \subseteq r /\ r \subseteq s /\ r \in SUBSET S
        OBVIOUS
      <4>2. Summing(gr, f, r) /\ Summing(gs, f, s)
        BY <2>1, <3>1
      <4> HIDE DEF r, gr, gs
      <4>3. \A t \in SUBSET S : t \subseteq r /\ t \subseteq s => gr[t] = gs[t]
        BY <3>2, <4>1, <4>2, SummingAgree
      <4>4. gr[r] = gs[r]
        BY <4>1, <4>3
      <4> QED BY <4>4 DEF r, gr, gs
    <3>4. G[s][s] = f[someOf(s)] + G[s][rest(s)]
      BY <2>1, <2>3 DEF Summing
    <3> QED BY <2>3, <3>3, <3>4
  <2> QED BY <2>2, <2>3
<1>7. Summing(g, f, U)
  <2>1. ASSUME NEW s \in SUBSET U
        PROVE  g[s] = IF s = {} THEN 0 ELSE f[someOf(s)] + g[rest(s)]
    <3>1. CASE s = {}
      BY <3>1
    <3>2. CASE s # {}
      <4>1. g[rest(s)] = G[rest(s)][rest(s)]
        BY <1>4, <1>6, <3>2
      <4> QED BY <3>2, <4>1
    <3> QED BY <3>1, <3>2
  <2> HIDE DEF g
  <2>2. g = [s \in SUBSET U |-> g[s]]
    BY <1>5
  <2> QED BY <2>1, <2>2 DEF Summing
<1> QED BY <1>1, <1>5, <1>7

\* The sums of Functions are those.
LEMMA PartialSumsType ==
    ASSUME NEW S, IsFiniteSet(S), NEW f \in [S -> Int]
    PROVE  Summing(PartialSums(f, S), f, S) /\ PartialSums(f, S) \in [SUBSET S -> Int]
<1>1. PICK g \in [SUBSET S -> Int] : Summing(g, f, S)
  BY SummingExists
<1>2. Summing(PartialSums(f, S), f, S)
  BY <1>1 DEF PartialSums
<1>3. \A s \in SUBSET S : PartialSums(f, S)[s] = g[s]
  BY <1>1, <1>2, SummingAgree
<1>4. PartialSums(f, S) = [s \in SUBSET S |-> PartialSums(f, S)[s]]
  BY <1>2 DEF Summing
<1> QED BY <1>1, <1>2, <1>3, <1>4

\* Which element is taken apart does not matter.
LEMMA PartialSumsSplit ==
    ASSUME NEW S, IsFiniteSet(S), NEW f \in [S -> Int]
    PROVE  \A s \in SUBSET S : \A x \in s :
               PartialSums(f, S)[s] = f[x] + PartialSums(f, S)[s \ {x}]
<1> DEFINE g == PartialSums(f, S)
           T == {s \in SUBSET S : \E x \in s : g[s] # f[x] + g[s \ {x}]}
<1>1. Summing(g, f, S) /\ g \in [SUBSET S -> Int]
  BY PartialSumsType
<1> HIDE DEF g
<1> SUFFICES ASSUME T # {} PROVE FALSE
  BY DEF g
<1>2. PICK s \in T : \A y \in T : y \subseteq s => y = s
  <2>1. T \in SUBSET (SUBSET S)
    OBVIOUS
  <2> HIDE DEF T
  <2> QED BY <2>1, MinimalSubset
<1>3. PICK x \in s : g[s] # f[x] + g[s \ {x}]
  OBVIOUS
<1> DEFINE c == someOf(s)
<1>4. c \in s
  BY <1>3 DEF someOf
<1>5. g[s] = f[c] + g[s \ {c}]
  BY <1>1, <1>3 DEF Summing
<1>6. c # x
  BY <1>3, <1>5
<1>7. s \ {c} \notin T /\ s \ {x} \notin T
  BY <1>2, <1>4
<1>8. s \ {c} \in SUBSET S /\ s \ {x} \in SUBSET S /\ x \in s \ {c} /\ c \in s \ {x}
  BY <1>4, <1>6
<1>9. /\ g[s \ {c}] = f[x] + g[(s \ {c}) \ {x}]
      /\ g[s \ {x}] = f[c] + g[(s \ {x}) \ {c}]
  BY <1>7, <1>8
<1>10. (s \ {c}) \ {x} = (s \ {x}) \ {c}
  OBVIOUS
<1>11. f[c] \in Int /\ f[x] \in Int /\ g[(s \ {c}) \ {x}] \in Int
  BY <1>1, <1>4
<1>12. g[s \ {x}] = f[c] + g[(s \ {c}) \ {x}]
  BY <1>9, <1>10
<1>13. g[s] = f[c] + (f[x] + g[(s \ {c}) \ {x}])
  BY <1>5, <1>9
<1>14. g[s] # f[x] + (f[c] + g[(s \ {c}) \ {x}])
  BY <1>3, <1>12
<1> HIDE DEF c, T
<1> QED BY <1>11, <1>13, <1>14

\* A function that is nowhere larger on a set has no larger sum over it.
LEMMA PartialSumsMonotone ==
    ASSUME NEW S, IsFiniteSet(S), NEW f \in [S -> Int], NEW h \in [S -> Int]
    PROVE  \A s \in SUBSET S : (\A x \in s : f[x] <= h[x]) =>
               PartialSums(f, S)[s] <= PartialSums(h, S)[s]
<1> DEFINE F == PartialSums(f, S)
           H == PartialSums(h, S)
           T == {s \in SUBSET S : (\A x \in s : f[x] <= h[x]) /\ ~(F[s] <= H[s])}
<1>1. /\ Summing(F, f, S) /\ F \in [SUBSET S -> Int]
      /\ Summing(H, h, S) /\ H \in [SUBSET S -> Int]
  BY PartialSumsType
<1> HIDE DEF F, H
<1> SUFFICES ASSUME T # {} PROVE FALSE
  BY DEF F, H
<1>2. PICK s \in T : \A y \in T : y \subseteq s => y = s
  <2>1. T \in SUBSET (SUBSET S)
    OBVIOUS
  <2> HIDE DEF T
  <2> QED BY <2>1, MinimalSubset
<1>3. s # {}
  BY <1>1, <1>2 DEF Summing
<1> DEFINE c == someOf(s)
           r == s \ {c}
<1>4. c \in s
  BY <1>3 DEF someOf
<1>5. r \in SUBSET S /\ r \notin T
  BY <1>2, <1>4
<1>6. F[r] <= H[r]
  BY <1>5
<1>7. F[s] = f[c] + F[r] /\ H[s] = h[c] + H[r]
  BY <1>1, <1>3 DEF Summing
<1>8. f[c] \in Int /\ h[c] \in Int /\ F[r] \in Int /\ H[r] \in Int
  BY <1>1, <1>4, <1>5
<1>9. f[c] <= h[c] /\ ~(F[s] <= H[s])
  BY <1>2, <1>4
<1> HIDE DEF c, r, T
<1> QED BY <1>6, <1>7, <1>8, <1>9

Combines(h, f, a, g, S) == \A x \in S : h[x] = f[x] + a * g[x]

\* Sums are linear.
LEMMA PartialSumsLinear ==
    ASSUME NEW S, IsFiniteSet(S), NEW f \in [S -> Int], NEW g \in [S -> Int],
           NEW h \in [S -> Int], NEW a \in Int, Combines(h, f, a, g, S)
    PROVE  \A s \in SUBSET S :
               PartialSums(h, S)[s] = PartialSums(f, S)[s] + a * PartialSums(g, S)[s]
<1> DEFINE F == PartialSums(f, S)
           G == PartialSums(g, S)
           H == PartialSums(h, S)
           T == {s \in SUBSET S : H[s] # F[s] + a * G[s]}
<1>1. /\ Summing(F, f, S) /\ F \in [SUBSET S -> Int]
      /\ Summing(G, g, S) /\ G \in [SUBSET S -> Int]
      /\ Summing(H, h, S) /\ H \in [SUBSET S -> Int]
  BY PartialSumsType
<1> HIDE DEF F, G, H
<1> SUFFICES ASSUME T # {} PROVE FALSE
  BY DEF F, G, H
<1>2. PICK s \in T : \A y \in T : y \subseteq s => y = s
  <2>1. T \in SUBSET (SUBSET S)
    OBVIOUS
  <2> HIDE DEF T
  <2> QED BY <2>1, MinimalSubset
<1>3. s # {}
  <2>1. F[{}] = 0 /\ G[{}] = 0 /\ H[{}] = 0
    BY <1>1 DEF Summing
  <2>2. 0 + a * 0 = 0
    OBVIOUS
  <2>3. H[s] # F[s] + a * G[s]
    BY <1>2
  <2> QED BY <2>1, <2>2, <2>3
<1> DEFINE c == someOf(s)
           r == s \ {c}
<1>4. c \in s
  BY <1>3 DEF someOf
<1>5. r \in SUBSET S /\ r \notin T
  BY <1>2, <1>4
<1>6. H[r] = F[r] + a * G[r]
  BY <1>5
<1>7. F[s] = f[c] + F[r] /\ G[s] = g[c] + G[r] /\ H[s] = h[c] + H[r]
  BY <1>1, <1>3 DEF Summing
<1>8. /\ f[c] \in Int /\ g[c] \in Int /\ h[c] \in Int
      /\ F[r] \in Int /\ G[r] \in Int /\ H[r] \in Int
  BY <1>1, <1>4, <1>5
<1>9. h[c] = f[c] + a * g[c] /\ H[s] # F[s] + a * G[s]
  BY <1>2, <1>4 DEF Combines
<1> HIDE DEF c, r, T
<1>10. a * (g[c] + G[r]) = a * g[c] + a * G[r]
  BY <1>8
<1>11. a * g[c] \in Int /\ a * G[r] \in Int
  BY <1>8
<1> QED BY <1>6, <1>7, <1>8, <1>9, <1>10, <1>11

-----------------------------------------------------------------------------
(* The facts about SumFunction that the proofs cite *)

\* A finite sum of integers is an integer.
LEMMA SumType ==
    ASSUME NEW S, IsFiniteSet(S), NEW f \in [S -> Int]
    PROVE  SumFunction(f) = PartialSums(f, S)[S] /\ SumFunction(f) \in Int
<1>1. DOMAIN f = S
  OBVIOUS
<1>2. SumFunction(f) = PartialSums(f, S)[S]
  BY <1>1, SumIsPartial
<1>3. PartialSums(f, S) \in [SUBSET S -> Int] /\ S \in SUBSET S
  BY PartialSumsType
<1> QED BY <1>2, <1>3

\* A sum over a larger function is larger.
LEMMA SumMonotone ==
    ASSUME NEW S, IsFiniteSet(S), NEW f \in [S -> Int], NEW h \in [S -> Int],
           \A x \in S : f[x] <= h[x]
    PROVE  SumFunction(f) <= SumFunction(h)
<1>1. PartialSums(f, S)[S] <= PartialSums(h, S)[S]
  BY PartialSumsMonotone
<1> QED BY <1>1, SumType

\* The sum of f + a * g is that of f and a times that of g.
LEMMA SumLinear ==
    ASSUME NEW S, IsFiniteSet(S), NEW f \in [S -> Int], NEW g \in [S -> Int],
           NEW h \in [S -> Int], NEW a \in Int, Combines(h, f, a, g, S)
    PROVE  SumFunction(h) = SumFunction(f) + a * SumFunction(g)
<1>1. PartialSums(h, S)[S] = PartialSums(f, S)[S] + a * PartialSums(g, S)[S]
  <2>1. \A s \in SUBSET S :
            PartialSums(h, S)[s] = PartialSums(f, S)[s] + a * PartialSums(g, S)[s]
    BY PartialSumsLinear
  <2> QED BY <2>1
<1>2. /\ SumFunction(f) = PartialSums(f, S)[S]
      /\ SumFunction(g) = PartialSums(g, S)[S]
      /\ SumFunction(h) = PartialSums(h, S)[S]
  BY SumType
<1> QED BY <1>1, <1>2

\* The sum of zeros.
LEMMA SumZero ==
    ASSUME NEW S, IsFiniteSet(S), NEW f \in [S -> Int], \A x \in S : f[x] = 0
    PROVE  SumFunction(f) = 0
<1>1. Combines(f, f, 1, f, S)
  BY DEF Combines
<1>2. SumFunction(f) = SumFunction(f) + 1 * SumFunction(f)
  BY <1>1, SumLinear
<1>3. SumFunction(f) \in Int
  BY SumType
<1> DEFINE v == SumFunction(f)
<1>4. v \in Int /\ v = v + 1 * v
  BY <1>2, <1>3
<1> HIDE DEF v
<1>5. v = 0
  BY <1>4
<1> QED BY <1>5 DEF v

\* A common factor of the summands is one of the sum.
LEMMA SumScaled ==
    ASSUME NEW S, IsFiniteSet(S), NEW f \in [S -> Int], NEW h \in [S -> Int],
           NEW a \in Int, \A x \in S : h[x] = a * f[x]
    PROVE  SumFunction(h) = a * SumFunction(f)
<1> DEFINE zero == [x \in S |-> 0]
<1>1. zero \in [S -> Int] /\ \A x \in S : zero[x] = 0
  OBVIOUS
<1> HIDE DEF zero
<1>2. SumFunction(zero) = 0
  BY <1>1, SumZero
<1>3. Combines(h, zero, a, f, S)
  BY <1>1 DEF Combines
<1>4. SumFunction(h) = SumFunction(zero) + a * SumFunction(f)
  BY <1>1, <1>3, SumLinear
<1>5. SumFunction(f) \in Int
  BY SumType
<1> QED BY <1>2, <1>4, <1>5

\* An entry of a table changes the total by as much.
LEMMA SumUpdate ==
    ASSUME NEW S, IsFiniteSet(S), NEW f \in [S -> Int], NEW h \in [S -> Int],
           NEW x \in S, \A y \in S \ {x} : h[y] = f[y]
    PROVE  SumFunction(h) = SumFunction(f) - f[x] + h[x]
<1> DEFINE F == PartialSums(f, S)
           H == PartialSums(h, S)
           r == S \ {x}
<1>1. F[S] = f[x] + F[r] /\ H[S] = h[x] + H[r]
  BY PartialSumsSplit
<1>2. F[r] <= H[r] /\ H[r] <= F[r]
  <2>1. r \in SUBSET S /\ (\A y \in r : f[y] <= h[y]) /\ (\A y \in r : h[y] <= f[y])
    OBVIOUS
  <2> HIDE DEF r
  <2> QED BY <2>1, PartialSumsMonotone
<1>3. F[r] \in Int /\ H[r] \in Int /\ f[x] \in Int /\ h[x] \in Int
  <2>1. F \in [SUBSET S -> Int] /\ H \in [SUBSET S -> Int]
    BY PartialSumsType
  <2>2. r \in SUBSET S
    OBVIOUS
  <2> HIDE DEF F, H, r
  <2> QED BY <2>1, <2>2
<1>4. SumFunction(f) = F[S] /\ SumFunction(h) = H[S]
  BY SumType
<1> HIDE DEF F, H, r
<1> QED BY <1>1, <1>2, <1>3, <1>4

\* A total of amounts is an amount, and no part of it is larger.
LEMMA SumNat ==
    ASSUME NEW S, IsFiniteSet(S), NEW f \in [S -> Nat]
    PROVE  SumFunction(f) \in Nat /\ \A x \in S : f[x] <= SumFunction(f)
<1> DEFINE zero == [x \in S |-> 0]
<1>1. f \in [S -> Int] /\ zero \in [S -> Int]
  OBVIOUS
<1>2. SumFunction(zero) = 0
  BY <1>1, SumZero
<1>3. SumFunction(f) \in Int /\ SumFunction(zero) <= SumFunction(f)
  <2>1. \A x \in S : zero[x] <= f[x]
    OBVIOUS
  <2> HIDE DEF zero
  <2> QED BY <1>1, <2>1, SumType, SumMonotone
<1>4. ASSUME NEW x \in S PROVE f[x] <= SumFunction(f)
  <2> DEFINE g == [f EXCEPT ![x] = 0]
  <2>1. g \in [S -> Int] /\ g[x] = 0 /\ \A y \in S \ {x} : g[y] = f[y]
    OBVIOUS
  <2>2. \A y \in S : zero[y] <= g[y]
    OBVIOUS
  <2> HIDE DEF g, zero
  <2>3. SumFunction(g) = SumFunction(f) - f[x] + g[x]
    BY <1>1, <2>1, SumUpdate
  <2>4. SumFunction(zero) <= SumFunction(g)
    BY <1>1, <2>1, <2>2, SumMonotone
  <2>5. f[x] \in Int
    OBVIOUS
  <2> QED BY <1>2, <1>3, <2>1, <2>3, <2>4, <2>5
<1> QED BY <1>2, <1>3, <1>4

\* A sum of ones counts the elements.
LEMMA SumOnes ==
    ASSUME NEW S, IsFiniteSet(S), NEW f \in [S -> Int], \A x \in S : f[x] = 1
    PROVE  SumFunction(f) = Cardinality(S)
<1> DEFINE F == PartialSums(f, S)
           T == {s \in SUBSET S : F[s] # Cardinality(s)}
<1>1. Summing(F, f, S) /\ F \in [SUBSET S -> Int]
  BY PartialSumsType
<1>2. \A s \in SUBSET S : \A x \in s : F[s] = f[x] + F[s \ {x}]
  BY PartialSumsSplit
<1> HIDE DEF F
<1>3. T = {}
  <2> SUFFICES ASSUME T # {} PROVE FALSE
    OBVIOUS
  <2>1. PICK s \in T : \A y \in T : y \subseteq s => y = s
    <3>1. T \in SUBSET (SUBSET S)
      OBVIOUS
    <3> HIDE DEF T
    <3> QED BY <3>1, MinimalSubset
  <2>2. s \in SUBSET S /\ F[s] # Cardinality(s) /\ IsFiniteSet(s)
    BY <2>1, FS_Subset
  <2>3. s # {}
    <3>1. F[{}] = 0
      BY <1>1 DEF Summing
    <3>2. Cardinality({}) = 0
      BY FS_EmptySet
    <3> QED BY <2>2, <3>1, <3>2
  <2>4. PICK x \in s : TRUE
    BY <2>3
  <2> DEFINE r == s \ {x}
  <2>5. r \in SUBSET S /\ r # s /\ r \subseteq s
    BY <2>2
  <2>6. r \notin T
    <3> HIDE DEF T
    <3> QED BY <2>1, <2>5
  <2>7. F[r] = Cardinality(r)
    BY <2>5, <2>6
  <2>8. IsFiniteSet(r) /\ Cardinality(r) = Cardinality(s) - 1
    BY <2>2, FS_RemoveElement
  <2>9. F[s] = 1 + F[r]
    BY <1>2, <2>2
  <2>10. Cardinality(s) \in Nat
    BY <2>2, FS_CardinalityType
  <2> HIDE DEF r
  <2> QED BY <2>2, <2>7, <2>8, <2>9, <2>10
<1>4. F[S] = Cardinality(S)
  BY <1>3
<1> QED BY <1>4, SumType DEF F

-----------------------------------------------------------------------------
(* Recursion that halves its argument: loops that shift a number to the    *)
(* right until one is left.                                                *)

\* The values up to m of the function that is b up to one, and from then on
\* step[k] of its value at half of k.
Halving(f, b, step, V, m) ==
    /\ f \in [0..m -> V]
    /\ \A k \in 0..m : f[k] = IF k <= 1 THEN b ELSE step[k][f[k \div 2]]

\* Half of a number above one is a smaller one.
LEMMA HalfSmaller ==
    ASSUME NEW k \in Nat, k > 1
    PROVE  k \div 2 \in Nat /\ k \div 2 < k
  OBVIOUS

\* There are such values.
LEMMA HalvingExists ==
    ASSUME NEW V, NEW b \in V, NEW step \in [Nat -> [V -> V]]
    PROVE  \A m \in Nat : \E f : Halving(f, b, step, V, m)
<1> DEFINE T == {m \in Nat : ~ \E f : Halving(f, b, step, V, m)}
<1> SUFFICES ASSUME T # {} PROVE FALSE
  OBVIOUS
<1>1. PICK m \in T : \A y \in T : m <= y
  <2> HIDE DEF T
  <2>1. T \in SUBSET Nat
    BY DEF T
  <2> QED BY <2>1, MinimumExists
<1>2. m \in Nat
  BY <1>1
<1>3. CASE m = 0
  <2>1. Halving([k \in 0..0 |-> b], b, step, V, 0)
    BY DEF Halving
  <2> QED BY <1>1, <1>3, <2>1
<1>4. CASE m # 0
  <2>1. m - 1 \in Nat /\ m - 1 \notin T
    <3> HIDE DEF T
    <3> QED BY <1>1, <1>2, <1>4
  <2>2. PICK f : Halving(f, b, step, V, m - 1)
    BY <2>1
  <2> DEFINE last == IF m <= 1 THEN b ELSE step[m][f[m \div 2]]
             g == [k \in 0..m |-> IF k = m THEN last ELSE f[k]]
  <2>3. f \in [0..(m - 1) -> V]
    BY <2>2 DEF Halving
  <2>4. last \in V
    <3>1. CASE m <= 1
      BY <3>1
    <3>2. CASE ~(m <= 1)
      <4>1. m \div 2 \in 0..(m - 1)
        BY <1>2, <3>2, HalfSmaller
      <4>2. f[m \div 2] \in V
        BY <2>3, <4>1
      <4>3. step[m] \in [V -> V]
        BY <1>2
      <4>4. step[m][f[m \div 2]] \in V
        BY <4>2, <4>3
      <4> QED BY <3>2, <4>4
    <3> QED BY <3>1, <3>2
  <2> HIDE DEF last
  <2>5. g \in [0..m -> V]
    <3>1. ASSUME NEW k \in 0..m PROVE (IF k = m THEN last ELSE f[k]) \in V
      BY <2>1, <2>3, <2>4
    <3> QED BY <3>1
  <2>6. ASSUME NEW k \in 0..m
        PROVE  g[k] = IF k <= 1 THEN b ELSE step[k][g[k \div 2]]
    <3>1. ASSUME k > 1 PROVE g[k \div 2] = f[k \div 2]
      <4>1. k \div 2 \in Nat /\ k \div 2 < k
        BY <3>1, HalfSmaller
      <4>2. k \div 2 \in 0..m /\ k \div 2 # m
        BY <1>2, <4>1
      <4> QED BY <4>2
    <3>2. CASE k = m
      <4>1. g[k] = last
        BY <3>2
      <4>2. last = IF k <= 1 THEN b ELSE step[k][f[k \div 2]]
        BY <3>2 DEF last
      <4> HIDE DEF g
      <4> QED BY <1>2, <3>1, <4>1, <4>2
    <3>3. CASE k # m
      <4>1. g[k] = f[k] /\ k \in 0..(m - 1)
        BY <1>2, <3>3
      <4>2. f[k] = IF k <= 1 THEN b ELSE step[k][f[k \div 2]]
        BY <2>2, <4>1 DEF Halving
      <4> HIDE DEF g
      <4> QED BY <1>2, <3>1, <4>1, <4>2
    <3> QED BY <3>2, <3>3
  <2> HIDE DEF g
  <2>7. Halving(g, b, step, V, m)
    BY <2>5, <2>6 DEF Halving
  <2> QED BY <1>1, <2>7
<1> QED BY <1>3, <1>4

\* They are determined.
LEMMA HalvingAgree ==
    ASSUME NEW V, NEW b, NEW step, NEW m \in Nat, NEW n \in Nat, NEW f, NEW g,
           Halving(f, b, step, V, m), Halving(g, b, step, V, n)
    PROVE  \A k \in Nat : k <= m /\ k <= n => f[k] = g[k]
<1> DEFINE T == {k \in Nat : k <= m /\ k <= n /\ f[k] # g[k]}
<1> SUFFICES ASSUME T # {} PROVE FALSE
  OBVIOUS
<1>1. PICK k \in T : \A y \in T : k <= y
  <2> HIDE DEF T
  <2>1. T \in SUBSET Nat
    BY DEF T
  <2> QED BY <2>1, MinimumExists
<1>2. k \in 0..m /\ k \in 0..n /\ f[k] # g[k]
  BY <1>1
<1>3. /\ f[k] = IF k <= 1 THEN b ELSE step[k][f[k \div 2]]
      /\ g[k] = IF k <= 1 THEN b ELSE step[k][g[k \div 2]]
  BY <1>2 DEF Halving
<1>4. k > 1
  BY <1>2, <1>3
<1>5. k \div 2 \in Nat /\ k \div 2 < k
  BY <1>4, HalfSmaller
<1>6. k \div 2 \notin T
  <2> HIDE DEF T
  <2>1. k \in Nat
    BY <1>2
  <2> QED BY <1>1, <1>5, <2>1
<1>7. k \div 2 <= m /\ k \div 2 <= n
  BY <1>2, <1>5
<1>8. f[k \div 2] = g[k \div 2]
  BY <1>5, <1>6, <1>7
<1> QED BY <1>2, <1>3, <1>4, <1>8

\* The function with all these values.
Halves(f, b, step) ==
    \A n \in Nat : f[n] = IF n <= 1 THEN b ELSE step[n][f[n \div 2]]

\* The recursion has a solution.
LEMMA HalvingRecursion ==
    ASSUME NEW V, NEW b \in V, NEW step \in [Nat -> [V -> V]]
    PROVE  \E f \in [Nat -> V] : Halves(f, b, step)
<1> DEFINE F == [m \in Nat |-> CHOOSE f : Halving(f, b, step, V, m)]
           G == [m \in Nat |-> F[m][m]]
<1>1. \A m \in Nat : Halving(F[m], b, step, V, m)
  BY HalvingExists
<1> HIDE DEF F
<1>2. G \in [Nat -> V]
  BY <1>1 DEF Halving
<1>3. ASSUME NEW n \in Nat
      PROVE  G[n] = IF n <= 1 THEN b ELSE step[n][G[n \div 2]]
  <2>1. F[n][n] = IF n <= 1 THEN b ELSE step[n][F[n][n \div 2]]
    BY <1>1 DEF Halving
  <2>2. ASSUME n > 1 PROVE F[n][n \div 2] = G[n \div 2]
    <3>1. n \div 2 \in Nat /\ n \div 2 <= n /\ n \div 2 <= n \div 2
      BY <2>2, HalfSmaller
    <3>2. Halving(F[n], b, step, V, n) /\ Halving(F[n \div 2], b, step, V, n \div 2)
      BY <1>1, <3>1
    <3> DEFINE h == n \div 2
               fn == F[n]
               fh == F[h]
    <3>3. Halving(fn, b, step, V, n) /\ Halving(fh, b, step, V, h) /\ h \in Nat
      BY <3>1, <3>2
    <3>4. h <= n /\ h <= h
      BY <3>1
    <3>5. fh[h] = G[h]
      BY <3>1
    <3> HIDE DEF h, fn, fh, G
    <3>6. fn[h] = fh[h]
      BY <3>3, <3>4, HalvingAgree
    <3> QED BY <3>5, <3>6 DEF fn, h
  <2>3. G[n] = F[n][n]
    OBVIOUS
  <2> HIDE DEF G
  <2> QED BY <2>1, <2>2, <2>3
<1> HIDE DEF G
<1>4. Halves(G, b, step)
  BY <1>3 DEF Halves
<1> QED BY <1>2, <1>4

-----------------------------------------------------------------------------
(* Rounding *)

\* A quotient times the divisor falls short of the dividend by less than
\* the divisor.
LEMMA QuotientBounds ==
    ASSUME NEW x \in Int, NEW y \in Nat, y > 0
    PROVE  /\ x \div y \in Int
           /\ y * (x \div y) <= x
           /\ x < y * (x \div y) + y
  OBVIOUS

\* A quotient is the greatest number whose product with the divisor is not
\* above the dividend.
LEMMA QuotientGreatest ==
    ASSUME NEW x \in Int, NEW y \in Nat, y > 0, NEW q \in Int
    PROVE  /\ y * q <= x => q <= x \div y
           /\ x < y * q + y => x \div y <= q
  OBVIOUS

\* A common positive factor does not change an order.
LEMMA CancelFactor ==
    ASSUME NEW x \in Int, NEW y \in Int, NEW k \in Nat, k > 0
    PROVE  /\ k * x <= k * y => x <= y
           /\ x <= y => k * x <= k * y
  OBVIOUS

-----------------------------------------------------------------------------
(* Lists *)

\* A list without repetitions names the members of a set.
Lists(list, S) ==
    /\ \A i \in 1..Len(list) : list[i] \in S
    /\ \A b \in S : \E i \in 1..Len(list) : list[i] = b
    /\ \A i, j \in 1..Len(list) : list[i] = list[j] => i = j
    /\ Len(list) = Cardinality(S)

\* The elements of a list after an insertion.
LEMMA InsertedAt ==
    ASSUME NEW S, NEW list \in Seq(S), NEW e \in S, NEW i \in 1..(Len(list) + 1)
    PROVE  /\ InsertAt(list, i, e) \in Seq(S)
           /\ Len(InsertAt(list, i, e)) = Len(list) + 1
           /\ \A j \in 1..(Len(list) + 1) :
                  InsertAt(list, i, e)[j] = IF j < i THEN list[j]
                                            ELSE IF j = i THEN e ELSE list[j - 1]
<1> DEFINE front == SubSeq(list, 1, i - 1)
           back == SubSeq(list, i, Len(list))
<1>1. /\ front \in Seq(S) /\ Len(front) = i - 1
      /\ \A j \in 1..(i - 1) : front[j] = list[j]
  OBVIOUS
<1>2. /\ back \in Seq(S) /\ Len(back) = Len(list) - i + 1
      /\ \A j \in 1..(Len(list) - i + 1) : back[j] = list[j + i - 1]
  OBVIOUS
<1>3. InsertAt(list, i, e) = front \o <<e>> \o back
  BY DEF InsertAt
<1> HIDE DEF front, back
<1> DEFINE head == front \o <<e>>
<1>4. /\ head \in Seq(S) /\ Len(head) = i
      /\ \A j \in 1..(i - 1) : head[j] = list[j]
      /\ head[i] = e
  BY <1>1
<1> HIDE DEF head
<1>5. /\ head \o back \in Seq(S) /\ Len(head \o back) = Len(list) + 1
      /\ \A j \in 1..i : (head \o back)[j] = head[j]
      /\ \A j \in (i + 1)..(Len(list) + 1) : (head \o back)[j] = back[j - i]
  <2>1. /\ head \o back \in Seq(S)
        /\ Len(head \o back) = Len(head) + Len(back)
        /\ \A j \in 1..(Len(head) + Len(back)) :
               (head \o back)[j] = IF j <= Len(head) THEN head[j]
                                                    ELSE back[j - Len(head)]
    BY <1>2, <1>4, ConcatProperties
  <2> QED BY <1>2, <1>4, <2>1
<1>6. \A j \in (i + 1)..(Len(list) + 1) : (head \o back)[j] = list[j - 1]
  <2> TAKE j \in (i + 1)..(Len(list) + 1)
  <2>1. j - i \in 1..(Len(list) - i + 1) /\ (j - i) + i - 1 = j - 1
    OBVIOUS
  <2>2. back[j - i] = list[(j - i) + i - 1]
    BY <1>2, <2>1
  <2> QED BY <1>5, <2>1, <2>2
<1>7. InsertAt(list, i, e) = head \o back
  BY <1>3 DEF head
<1> QED BY <1>4, <1>5, <1>6, <1>7

\* The elements of a list after a removal.
LEMMA RemovedAt ==
    ASSUME NEW S, NEW list \in Seq(S), NEW i \in 1..Len(list)
    PROVE  /\ RemoveAt(list, i) \in Seq(S)
           /\ Len(RemoveAt(list, i)) = Len(list) - 1
           /\ \A j \in 1..(Len(list) - 1) :
                  RemoveAt(list, i)[j] = IF j < i THEN list[j] ELSE list[j + 1]
<1> DEFINE front == SubSeq(list, 1, i - 1)
           back == SubSeq(list, i + 1, Len(list))
<1>1. /\ front \in Seq(S) /\ Len(front) = i - 1
      /\ \A j \in 1..(i - 1) : front[j] = list[j]
  OBVIOUS
<1>2. /\ back \in Seq(S) /\ Len(back) = Len(list) - i
      /\ \A j \in 1..(Len(list) - i) : back[j] = list[j + i]
  OBVIOUS
<1>3. RemoveAt(list, i) = front \o back
  BY DEF RemoveAt
<1> HIDE DEF front, back
<1>4. /\ front \o back \in Seq(S) /\ Len(front \o back) = Len(list) - 1
      /\ \A j \in 1..(i - 1) : (front \o back)[j] = front[j]
      /\ \A j \in i..(Len(list) - 1) : (front \o back)[j] = back[j - (i - 1)]
  <2>1. /\ front \o back \in Seq(S)
        /\ Len(front \o back) = Len(front) + Len(back)
        /\ \A j \in 1..(Len(front) + Len(back)) :
               (front \o back)[j] = IF j <= Len(front) THEN front[j]
                                                      ELSE back[j - Len(front)]
    BY <1>1, <1>2, ConcatProperties
  <2> QED BY <1>1, <1>2, <2>1
<1>5. \A j \in i..(Len(list) - 1) : (front \o back)[j] = list[j + 1]
  <2> TAKE j \in i..(Len(list) - 1)
  <2>1. j - (i - 1) \in 1..(Len(list) - i) /\ (j - (i - 1)) + i = j + 1
    OBVIOUS
  <2>2. back[j - (i - 1)] = list[(j - (i - 1)) + i]
    BY <1>2, <2>1
  <2> QED BY <1>4, <2>1, <2>2
<1> QED BY <1>1, <1>3, <1>4, <1>5

\* A list with one more element, at position i
OneMore(new, list, i, b) ==
    /\ Len(new) = Len(list) + 1
    /\ \A j \in 1..(Len(list) + 1) :
           new[j] = IF j < i THEN list[j] ELSE IF j = i THEN b ELSE list[j - 1]

\* An element inserted anywhere is listed with the others.
LEMMA ListedInsert ==
    ASSUME NEW U, NEW S \in SUBSET U, IsFiniteSet(S), NEW list \in Seq(U),
           Lists(list, S), NEW b \in U, b \notin S, NEW i \in 1..(Len(list) + 1),
           NEW new, OneMore(new, list, i, b)
    PROVE  Lists(new, S \cup {b})
<1>1. Len(new) = Len(list) + 1 /\ Len(list) \in Nat
  BY DEF OneMore
<1>2. \A j \in 1..(Len(list) + 1) :
          new[j] = IF j < i THEN list[j] ELSE IF j = i THEN b ELSE list[j - 1]
  BY DEF OneMore
<1>3. \A j \in 1..Len(new) : new[j] \in S \cup {b}
  BY <1>1, <1>2 DEF Lists
<1>4. ASSUME NEW c \in S \cup {b} PROVE \E j \in 1..Len(new) : new[j] = c
  <2>1. CASE c = b
    BY <1>1, <1>2, <2>1
  <2>2. CASE c # b
    <3>1. PICK j \in 1..Len(list) : list[j] = c
      BY <2>2 DEF Lists
    <3>2. CASE j < i
      BY <1>1, <1>2, <3>1, <3>2
    <3>3. CASE j >= i
      <4>1. j + 1 \in 1..(Len(list) + 1) /\ ~(j + 1 < i) /\ j + 1 # i
            /\ (j + 1) - 1 = j
        BY <1>1, <3>3
      <4>2. new[j + 1] = c
        BY <1>2, <3>1, <4>1
      <4> QED BY <1>1, <4>1, <4>2
    <3> QED BY <3>2, <3>3
  <2> QED BY <2>1, <2>2
<1>5. ASSUME NEW j \in 1..Len(new), NEW k \in 1..Len(new), new[j] = new[k]
      PROVE  j = k
  <2> DEFINE at(m) == IF m < i THEN m ELSE m - 1
  <2>1. \A m \in 1..Len(new) : m # i => at(m) \in 1..Len(list) /\ new[m] = list[at(m)]
    BY <1>1, <1>2
  <2>2. \A m \in 1..Len(new) : m # i => new[m] # b
    BY <2>1 DEF Lists
  <2>3. new[i] = b
    BY <1>2
  <2>4. CASE j = i \/ k = i
    BY <1>5, <2>2, <2>3, <2>4
  <2>5. CASE j # i /\ k # i
    <3>1. at(j) = at(k)
      <4>1. /\ at(j) \in 1..Len(list) /\ at(k) \in 1..Len(list)
            /\ list[at(j)] = list[at(k)]
        BY <1>5, <2>1, <2>5
      <4> HIDE DEF at
      <4> QED BY <4>1 DEF Lists
    <3> QED BY <1>1, <2>5, <3>1
  <2> QED BY <2>4, <2>5
<1>6. Len(new) = Cardinality(S \cup {b})
  <2>1. Cardinality(S \cup {b}) = Cardinality(S) + 1
    BY FS_AddElement
  <2> QED BY <1>1, <2>1 DEF Lists
<1> QED BY <1>3, <1>4, <1>5, <1>6 DEF Lists

\* A list with one element less, the one at position i
OneLess(new, list, i) ==
    /\ Len(new) = Len(list) - 1
    /\ \A j \in 1..(Len(list) - 1) :
           new[j] = IF j < i THEN list[j] ELSE list[j + 1]

\* An element that is removed is listed no more, the others are.
LEMMA ListedRemove ==
    ASSUME NEW U, NEW S \in SUBSET U, IsFiniteSet(S), NEW list \in Seq(U),
           Lists(list, S), NEW i \in 1..Len(list), NEW b, list[i] = b,
           NEW new, OneLess(new, list, i)
    PROVE  Lists(new, S \ {b})
<1>1. b \in S
  BY DEF Lists
<1>2. Len(new) = Len(list) - 1 /\ Len(list) \in Nat
  BY DEF OneLess
<1>3. \A j \in 1..(Len(list) - 1) :
          new[j] = IF j < i THEN list[j] ELSE list[j + 1]
  BY DEF OneLess
<1> DEFINE at(m) == IF m < i THEN m ELSE m + 1
<1>4. \A m \in 1..Len(new) : /\ at(m) \in 1..Len(list) /\ at(m) # i
                              /\ new[m] = list[at(m)]
  BY <1>1, <1>2, <1>3
<1>5. \A j, k \in 1..Len(list) : list[j] = list[k] => j = k
  BY DEF Lists
<1>6. \A m \in 1..Len(new) : new[m] \in S \ {b}
  <2> TAKE m \in 1..Len(new)
  <2>1. at(m) \in 1..Len(list) /\ at(m) # i /\ new[m] = list[at(m)]
    BY <1>4
  <2> HIDE DEF at
  <2>2. list[at(m)] \in S /\ list[at(m)] # list[i]
    BY <1>1, <1>5, <2>1 DEF Lists
  <2> QED BY <1>1, <2>1, <2>2
<1>7. ASSUME NEW c \in S \ {b} PROVE \E j \in 1..Len(new) : new[j] = c
  <2>1. PICK j \in 1..Len(list) : list[j] = c
    BY DEF Lists
  <2>2. j # i
    BY <1>1, <2>1
  <2>3. CASE j < i
    BY <1>1, <1>2, <1>3, <2>1, <2>3
  <2>4. CASE j > i
    <3>1. j - 1 \in 1..(Len(list) - 1) /\ ~(j - 1 < i) /\ (j - 1) + 1 = j
      BY <1>1, <1>2, <2>4
    <3>2. new[j - 1] = c
      BY <1>3, <2>1, <3>1
    <3> QED BY <1>2, <3>1, <3>2
  <2> QED BY <1>1, <2>2, <2>3, <2>4
<1>8. ASSUME NEW j \in 1..Len(new), NEW k \in 1..Len(new), new[j] = new[k]
      PROVE  j = k
  <2>1. at(j) = at(k)
    <3>1. /\ at(j) \in 1..Len(list) /\ at(k) \in 1..Len(list)
          /\ list[at(j)] = list[at(k)]
      BY <1>4, <1>8
    <3> HIDE DEF at
    <3> QED BY <1>5, <3>1
  <2> QED BY <1>1, <1>2, <2>1
<1>9. Len(new) = Cardinality(S \ {b})
  <2>1. Cardinality(S \ {b}) = Cardinality(S) - 1
    BY <1>1, FS_RemoveElement
  <2> QED BY <1>2, <2>1 DEF Lists
<1> QED BY <1>2, <1>6, <1>7, <1>8, <1>9 DEF Lists
=============================================================================
