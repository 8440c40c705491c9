-------------------------- MODULE ArithmeticProofs --------------------------
(***************************************************************************)
(* The arithmetic the models are built from, for every value: what the     *)
(* rounding of CurveMath guarantees, and sums over finite sets.            *)
(***************************************************************************)
EXTENDS CurveMath, Functions, FiniteSetTheorems, TLAPS

(* A product of naturals grows with each factor. *)
LEMMA ProductMonotone ==
    ASSUME NEW x \in Nat, NEW y \in Nat, NEW n \in Nat, x <= y
    PROVE  x * n <= y * n
  OBVIOUS

(* Cancelling a positive factor. *)
LEMMA ProductCancel ==
    ASSUME NEW x \in Nat, NEW y \in Nat, NEW n \in Nat, n * x <= n * y, n > 0
    PROVE  x <= y
  OBVIOUS

(* Integer division, as the two inequalities that define it. *)
LEMMA DivBounds ==
    ASSUME NEW a \in Nat, NEW b \in Nat, b > 0
    PROVE  /\ a \div b \in Nat
           /\ b * (a \div b) <= a
           /\ a < b * (a \div b) + b
  OBVIOUS

(* ceilDiv is the least multiple that covers the dividend. *)
LEMMA CeilDivBounds ==
    ASSUME NEW a \in Nat, NEW b \in Nat, b > 0
    PROVE  /\ CeilDiv(a, b) \in Nat
           /\ a <= b * CeilDiv(a, b)
           /\ b * CeilDiv(a, b) < a + b
  BY DivBounds DEF CeilDiv

(* buyTokensOut never pays out the whole reserve and never lowers the      *)
(* product of the two reserves.                                            *)
THEOREM BuyKeepsK ==
    ASSUME NEW vE \in Nat, NEW vT \in Nat, NEW ethIn \in Nat, vE > 0, vT > 0
    PROVE  /\ BuyTokensOut(vE, vT, ethIn) \in Nat
           /\ BuyTokensOut(vE, vT, ethIn) < vT
           /\ vE * vT <= (vE + ethIn) * (vT - BuyTokensOut(vE, vT, ethIn))
  <1> DEFINE kept == CeilDiv(vE * vT, vE + ethIn)
  <1>1. vE * vT \in Nat /\ vE * vT > 0 /\ vE + ethIn \in Nat /\ vE + ethIn > 0
    OBVIOUS
  <1>2. /\ kept \in Nat
        /\ vE * vT <= (vE + ethIn) * kept
        /\ (vE + ethIn) * kept < vE * vT + (vE + ethIn)
    BY <1>1, CeilDivBounds
  <1> HIDE DEF kept
  <1>3. kept > 0
    BY <1>1, <1>2
  <1>4. kept <= vT
    <2>1. vE * vT <= (vE + ethIn) * vT
      BY ProductMonotone
    <2>2. (vE + ethIn) * kept < (vE + ethIn) * (vT + 1)
      BY <1>2, <2>1
    <2>3. kept < vT + 1
      BY <1>1, <1>2, <2>2
    <2> QED BY <1>2, <2>3
  <1>5. BuyTokensOut(vE, vT, ethIn) = vT - kept
    BY DEF BuyTokensOut, kept
  <1> QED BY <1>2, <1>3, <1>4, <1>5

(* sellEthOut never lowers the product of the two reserves either. *)
THEOREM SellKeepsK ==
    ASSUME NEW vE \in Nat, NEW vT \in Nat, NEW tokenIn \in Nat, vE > 0, vT > 0
    PROVE  /\ SellEthOut(vE, vT, tokenIn) \in Nat
           /\ SellEthOut(vE, vT, tokenIn) < vE
           /\ vE * vT <= (vE - SellEthOut(vE, vT, tokenIn)) * (vT + tokenIn)
  <1> DEFINE kept == CeilDiv(vE * vT, vT + tokenIn)
  <1>1. vE * vT \in Nat /\ vE * vT > 0 /\ vT + tokenIn \in Nat /\ vT + tokenIn > 0
    OBVIOUS
  <1>2. /\ kept \in Nat
        /\ vE * vT <= (vT + tokenIn) * kept
        /\ (vT + tokenIn) * kept < vE * vT + (vT + tokenIn)
    BY <1>1, CeilDivBounds
  <1> HIDE DEF kept
  <1>3. kept > 0
    BY <1>1, <1>2
  <1>4. kept <= vE
    <2>1. vE * vT <= (vT + tokenIn) * vE
      BY ProductMonotone
    <2>2. (vT + tokenIn) * kept < (vT + tokenIn) * (vE + 1)
      BY <1>2, <2>1
    <2>3. kept < vE + 1
      BY <1>1, <1>2, <2>2
    <2> QED BY <1>2, <2>3
  <1>5. SellEthOut(vE, vT, tokenIn) = vE - kept
    BY DEF SellEthOut, kept
  <1> QED BY <1>2, <1>3, <1>4, <1>5

(* Why a sale never reaches below the initial virtual ETH: if the product  *)
(* of the reserves is at least e0 * t0 and the sale brings the token       *)
(* reserve back to at most t0, at least e0 wei stay.                       *)
THEOREM SellLeavesInitialEth ==
    ASSUME NEW vE \in Nat, NEW vT \in Nat, NEW tokenIn \in Nat, vE > 0, vT > 0,
           NEW e0 \in Nat, NEW t0 \in Nat, t0 > 0,
           vE * vT >= e0 * t0, vT + tokenIn <= t0
    PROVE  vE - SellEthOut(vE, vT, tokenIn) >= e0
  <1> DEFINE kept == vE - SellEthOut(vE, vT, tokenIn)
  <1>1. kept \in Nat /\ vE * vT <= kept * (vT + tokenIn)
    <2>1. /\ SellEthOut(vE, vT, tokenIn) \in Nat
          /\ SellEthOut(vE, vT, tokenIn) < vE
          /\ vE * vT <= kept * (vT + tokenIn)
      BY SellKeepsK, Zenon
    <2>2. kept \in Nat
      BY <2>1
    <2> QED BY <2>1, <2>2
  <1> HIDE DEF kept
  <1>2. kept * (vT + tokenIn) <= t0 * kept
    BY <1>1, ProductMonotone
  <1>3. t0 * e0 <= t0 * kept
    BY <1>1, <1>2
  <1>4. e0 <= kept
    BY <1>1, <1>3, ProductCancel
  <1> QED BY <1>4 DEF kept

-----------------------------------------------------------------------------
(* Induction.  A library theorem that takes a predicate cannot be used, but the *)
(* well-foundedness of < and its minimal elements are first-order facts.   *)

(* A set of naturals has a least element. *)
LEMMA LeastNatural ==
    ASSUME NEW T \in SUBSET Nat, T # {}
    PROVE  \E n \in T : \A m \in T : n <= m
  <1> DEFINE R == OpToRel(<, Nat)
  <1>1. PICK n \in T : \A m \in T : <<m, n>> \notin R
    <2>1. IsWellFoundedOn(R, Nat)
      BY NatLessThanWellFounded
    <2> HIDE DEF R
    <2> QED BY <2>1, WFMin
  <1>2. \A m \in T : ~(m < n)
    BY <1>1 DEF OpToRel
  <1> QED BY <1>2

(* What holds for 0 and for n + 1 whenever for n is all of Nat. *)
LEMMA InductionOnNat ==
    ASSUME NEW T, 0 \in T, \A n \in Nat : n \in T => n + 1 \in T
    PROVE  \A n \in Nat : n \in T
  <1> SUFFICES ASSUME NEW k \in Nat, k \notin T PROVE FALSE
    OBVIOUS
  <1>1. PICK n \in Nat \ T : \A m \in Nat \ T : n <= m
    <2>1. Nat \ T \in SUBSET Nat /\ Nat \ T # {}
      OBVIOUS
    <2> QED BY <2>1, LeastNatural
  <1>2. n - 1 \in Nat /\ n - 1 \in T
    BY <1>1
  <1> QED BY <1>1, <1>2

-----------------------------------------------------------------------------
(* SumFunctionOnSet: the fold it stands for exists, whichever element it   *)
(* takes first.                                                            *)

Chosen(s) == CHOOSE x \in s : TRUE
SumStep(f, g, s) == IF s = {} THEN 0 ELSE f[Chosen(s)] + g[s \ {Chosen(s)}]
IsSum(f, S, g) == g = [s \in SUBSET S |-> SumStep(f, g, s)]

(* SumFunctionOnSet, unfolded. *)
LEMMA SumIsChosen ==
    ASSUME NEW f, NEW S
    PROVE  SumFunctionOnSet(f, S) = (CHOOSE g : IsSum(f, S, g))[S]
  BY DEF SumFunctionOnSet, FoldFunctionOnSet, MapThenFoldSet, IsSum, SumStep, Chosen

(* Subsets small enough for n steps of the recursion. *)
Layer(S, n) == {s \in SUBSET S : Cardinality(s) <= n}

(* The recursion goes to a smaller subset. *)
LEMMA SmallerSubset ==
    ASSUME NEW S, IsFiniteSet(S), NEW n \in Nat, NEW s \in Layer(S, n + 1), s # {}
    PROVE  /\ Chosen(s) \in s
           /\ s \ {Chosen(s)} \in Layer(S, n) /\ s \ {Chosen(s)} \in Layer(S, n + 1)
  <1>1. Chosen(s) \in s
    BY DEF Chosen
  <1>2. IsFiniteSet(s) /\ Cardinality(s) \in Nat /\ Cardinality(s) <= n + 1
    BY FS_Subset, FS_CardinalityType DEF Layer
  <1>3. Cardinality(s \ {Chosen(s)}) = Cardinality(s) - 1
    BY <1>1, <1>2, FS_RemoveElement
  <1> QED BY <1>1, <1>2, <1>3 DEF Layer

(* The recursion has a solution: layer by layer. *)
LEMMA SumExists ==
    ASSUME NEW f, NEW S, IsFiniteSet(S)
    PROVE  \E g : IsSum(f, S, g)
  <1> DEFINE T == {n \in Nat : \E g : g = [s \in Layer(S, n) |-> SumStep(f, g, s)]}
  <1>1. 0 \in T
    <2>1. \A s \in Layer(S, 0) : s = {}
      BY FS_Subset, FS_CardinalityType, FS_EmptySet DEF Layer
    <2> DEFINE g == [s \in Layer(S, 0) |-> 0]
    <2>2. g = [s \in Layer(S, 0) |-> SumStep(f, g, s)]
      BY <2>1 DEF SumStep
    <2> QED BY <2>2
  <1>2. ASSUME NEW n \in Nat, n \in T PROVE n + 1 \in T
    <2>1. PICK g : g = [s \in Layer(S, n) |-> SumStep(f, g, s)]
      BY <1>2
    <2> DEFINE h == [s \in Layer(S, n + 1) |-> SumStep(f, g, s)]
    <2>2. ASSUME NEW s \in Layer(S, n + 1) PROVE SumStep(f, g, s) = SumStep(f, h, s)
      <3>1. CASE s = {}
        BY <3>1 DEF SumStep
      <3>2. CASE s # {}
        <4> DEFINE r == s \ {Chosen(s)}
        <4>1. r \in Layer(S, n) /\ r \in Layer(S, n + 1)
          BY <3>2, SmallerSubset
        <4> HIDE DEF r
        <4>2. g[r] = SumStep(f, g, r) /\ h[r] = SumStep(f, g, r)
          BY <2>1, <4>1
        <4> HIDE DEF h
        <4> QED BY <3>2, <4>2 DEF SumStep, r
      <3> QED BY <3>1, <3>2
    <2>3. h = [s \in Layer(S, n + 1) |-> SumStep(f, h, s)]
      BY <2>2
    <2>4. \E e : e = [s \in Layer(S, n + 1) |-> SumStep(f, e, s)]
      <3> HIDE DEF h
      <3> QED BY <2>3
    <2> QED BY <2>4
  <1>3. Cardinality(S) \in T
    <2> HIDE DEF T
    <2> QED BY <1>1, <1>2, InductionOnNat, FS_CardinalityType
  <1>4. Layer(S, Cardinality(S)) = SUBSET S
    BY FS_Subset DEF Layer
  <1> QED BY <1>3, <1>4 DEF IsSum

(* The recursion of a sum, whatever element it takes first. *)
LEMMA SumTakesAny ==
    ASSUME NEW S, IsFiniteSet(S), NEW f, \A x \in S : f[x] \in Int,
           NEW g, IsSum(f, S, g)
    PROVE  \A s \in SUBSET S :
              g[s] \in Int /\ \A x \in s : g[s] = f[x] + g[s \ {x}]
  <1> DEFINE Good(s) == g[s] \in Int /\ \A x \in s : g[s] = f[x] + g[s \ {x}]
             T == {n \in Nat : \A s \in Layer(S, n) : Good(s)}
  <1>0. \A s \in SUBSET S : g[s] = SumStep(f, g, s)
    BY DEF IsSum
  <1>1. 0 \in T
    <2>1. \A s \in Layer(S, 0) : s = {}
      BY FS_Subset, FS_CardinalityType, FS_EmptySet DEF Layer
    <2>2. g[{}] = 0
      BY <1>0 DEF SumStep
    <2>3. Good({})
      BY <2>2
    <2> HIDE DEF Good
    <2> QED BY <2>1, <2>3
  <1>2. ASSUME NEW n \in Nat, n \in T PROVE n + 1 \in T
    <2>0. \A s \in Layer(S, n) : Good(s)
      BY <1>2
    <2> SUFFICES ASSUME NEW s \in Layer(S, n + 1), s # {} PROVE Good(s)
      <3>1. g[{}] = 0
        BY <1>0 DEF SumStep
      <3> QED BY <3>1
    <2> DEFINE c == Chosen(s)
    <2>1. c \in s /\ s \ {c} \in Layer(S, n)
      BY SmallerSubset
    <2>2. s \in SUBSET S
      BY DEF Layer
    <2>3. g[s] = f[c] + g[s \ {c}]
      BY <1>0, <2>2 DEF SumStep
    <2> HIDE DEF c
    <2>4. f[c] \in Int /\ g[s \ {c}] \in Int /\ g[s] \in Int
      BY <2>0, <2>1, <2>2, <2>3
    <2>5. ASSUME NEW x \in s, x # c PROVE g[s] = f[x] + g[s \ {x}]
      <3> DEFINE r == (s \ {c}) \ {x}
      <3>1. g[s \ {c}] = f[x] + g[r] /\ g[r] \in Int /\ f[x] \in Int
        <4>1. x \in s \ {c} /\ r \in Layer(S, n)
          <5>1. IsFiniteSet(s \ {c})
            BY <2>2, FS_Subset
          <5>2. Cardinality(r) <= Cardinality(s \ {c})
            BY <5>1, FS_Subset
          <5>3. Cardinality(r) \in Nat /\ Cardinality(s \ {c}) \in Nat
            BY <5>1, FS_Subset, FS_CardinalityType
          <5>4. Cardinality(s \ {c}) <= n
            BY <2>1 DEF Layer
          <5>5. Cardinality(r) <= n
            BY <5>2, <5>3, <5>4
          <5> QED BY <2>2, <2>5, <5>5 DEF Layer
        <4> QED BY <2>0, <2>1, <2>2, <4>1
      <3>2. s \ {x} \in Layer(S, n) /\ c \in s \ {x}
        <4>1. IsFiniteSet(s) /\ Cardinality(s) <= n + 1 /\ Cardinality(s) \in Nat
          BY <2>2, FS_Subset, FS_CardinalityType DEF Layer
        <4>2. Cardinality(s \ {x}) = Cardinality(s) - 1
          BY <4>1, FS_RemoveElement
        <4> QED BY <2>1, <2>2, <2>5, <4>1, <4>2 DEF Layer
      <3>3. (s \ {x}) \ {c} = r
        OBVIOUS
      <3> HIDE DEF r
      <3>4. g[s \ {x}] = f[c] + g[r]
        BY <2>0, <3>2, <3>3
      <3> QED BY <2>3, <2>4, <3>1, <3>4
    <2> QED BY <2>3, <2>4, <2>5
  <1>3. \A n \in Nat : n \in T
    <2> HIDE DEF T
    <2> QED BY <1>1, <1>2, InductionOnNat
  <1>4. Layer(S, Cardinality(S)) = SUBSET S /\ Cardinality(S) \in Nat
    BY FS_Subset, FS_CardinalityType DEF Layer
  <1> QED BY <1>3, <1>4

(* Functions that satisfy the recursion for values that agree are equal.   *)
LEMMA SumUnique ==
    ASSUME NEW S, IsFiniteSet(S), NEW f, NEW g, IsSum(f, S, g),
           NEW U, S \subseteq U, NEW e, NEW h, IsSum(e, U, h), \A x \in S : e[x] = f[x]
    PROVE  \A s \in SUBSET S : g[s] = h[s]
  <1> DEFINE T == {n \in Nat : \A s \in Layer(S, n) : g[s] = h[s]}
  <1>0. \A s \in SUBSET S : g[s] = SumStep(f, g, s) /\ h[s] = SumStep(e, h, s)
    BY DEF IsSum
  <1>1. 0 \in T
    <2>1. \A s \in Layer(S, 0) : s = {}
      BY FS_Subset, FS_CardinalityType, FS_EmptySet DEF Layer
    <2> QED BY <1>0, <2>1 DEF SumStep
  <1>2. ASSUME NEW n \in Nat, n \in T PROVE n + 1 \in T
    <2> SUFFICES ASSUME NEW s \in Layer(S, n + 1) PROVE g[s] = h[s]
      OBVIOUS
    <2>1. s \in SUBSET S
      BY DEF Layer
    <2>2. CASE s = {}
      BY <1>0, <2>1, <2>2 DEF SumStep
    <2>3. CASE s # {}
      <3>1. Chosen(s) \in S /\ g[s \ {Chosen(s)}] = h[s \ {Chosen(s)}]
        BY <1>2, <2>1, <2>3, SmallerSubset
      <3> QED BY <1>0, <2>1, <2>3, <3>1 DEF SumStep
    <2> QED BY <2>2, <2>3
  <1>3. \A n \in Nat : n \in T
    <2> HIDE DEF T
    <2> QED BY <1>1, <1>2, InductionOnNat
  <1>4. Layer(S, Cardinality(S)) = SUBSET S /\ Cardinality(S) \in Nat
    BY FS_Subset, FS_CardinalityType DEF Layer
  <1> QED BY <1>3, <1>4

(* A sum is the value of a solution. *)
LEMMA SumIsSum ==
    ASSUME NEW f, NEW S, IsFiniteSet(S)
    PROVE  \E g : IsSum(f, S, g) /\ SumFunctionOnSet(f, S) = g[S]
  BY SumExists, SumIsChosen

-----------------------------------------------------------------------------
(* What the proofs use: sums over finite sets. *)

(* Only the values on the set matter. *)
LEMMA SumAgrees ==
    ASSUME NEW S, IsFiniteSet(S), NEW f, NEW e, \A x \in S : e[x] = f[x]
    PROVE  SumFunctionOnSet(e, S) = SumFunctionOnSet(f, S)
  <1>1. PICK g : IsSum(f, S, g) /\ SumFunctionOnSet(f, S) = g[S]
    BY SumIsSum
  <1>2. PICK h : IsSum(e, S, h) /\ SumFunctionOnSet(e, S) = h[S]
    BY SumIsSum
  <1>3. \A s \in SUBSET S : g[s] = h[s]
    BY <1>1, <1>2, SumUnique
  <1> QED BY <1>1, <1>2, <1>3

(* An empty sum is 0. *)
LEMMA SumEmpty ==
    ASSUME NEW f
    PROVE  SumFunctionOnSet(f, {}) = 0
  <1>1. PICK g : IsSum(f, {}, g) /\ SumFunctionOnSet(f, {}) = g[{}]
    BY SumIsSum, FS_EmptySet
  <1>2. g[{}] = SumStep(f, g, {})
    BY <1>1 DEF IsSum
  <1> QED BY <1>1, <1>2 DEF SumStep

(* A sum of integers is one. *)
LEMMA SumType ==
    ASSUME NEW S, IsFiniteSet(S), NEW f, \A x \in S : f[x] \in Int
    PROVE  SumFunctionOnSet(f, S) \in Int
  <1>1. PICK g : IsSum(f, S, g) /\ SumFunctionOnSet(f, S) = g[S]
    BY SumIsSum
  <1> QED BY <1>1, SumTakesAny

(* One more element adds its value. *)
LEMMA SumAdds ==
    ASSUME NEW S, IsFiniteSet(S), NEW x, x \notin S, NEW f, \A y \in S \cup {x} : f[y] \in Int
    PROVE  SumFunctionOnSet(f, S \cup {x}) = SumFunctionOnSet(f, S) + f[x]
  <1> DEFINE U == S \cup {x}
  <1>0. IsFiniteSet(U) /\ S \subseteq U /\ x \in U /\ S \in SUBSET U /\ U \ {x} = S
    BY FS_AddElement
  <1> HIDE DEF U
  <1>1. PICK g : IsSum(f, S, g) /\ SumFunctionOnSet(f, S) = g[S]
    BY SumIsSum
  <1>2. PICK h : IsSum(f, U, h) /\ SumFunctionOnSet(f, U) = h[U]
    BY <1>0, SumIsSum
  <1>3. g[S] = h[S]
    <2>1. \A s \in SUBSET S : g[s] = h[s]
      BY <1>0, <1>1, <1>2, SumUnique
    <2> QED BY <2>1
  <1>4. \A y \in U : f[y] \in Int
    BY DEF U
  <1>5. h[U] = f[x] + h[S] /\ h[S] \in Int
    BY <1>0, <1>2, <1>4, SumTakesAny
  <1>6. f[x] \in Int
    BY <1>0, <1>4
  <1> QED BY <1>1, <1>2, <1>3, <1>5, <1>6 DEF U

(* Changing one value changes the sum by as much. *)
LEMMA SumChanges ==
    ASSUME NEW S, IsFiniteSet(S), NEW x \in S,
           NEW f, \A y \in S : f[y] \in Int,
           NEW e, e[x] \in Int, \A y \in S \ {x} : e[y] = f[y]
    PROVE  SumFunctionOnSet(e, S) = SumFunctionOnSet(f, S) - f[x] + e[x]
  <1> DEFINE R == S \ {x}
  <1>1. IsFiniteSet(R) /\ S = R \cup {x} /\ x \notin R
    BY FS_RemoveElement
  <1>2. \A y \in R : f[y] \in Int /\ e[y] = f[y]
    OBVIOUS
  <1>3. f[x] \in Int
    OBVIOUS
  <1> HIDE DEF R
  <1>4. SumFunctionOnSet(f, R \cup {x}) = SumFunctionOnSet(f, R) + f[x]
    BY <1>1, <1>2, <1>3, SumAdds
  <1>5. SumFunctionOnSet(e, R \cup {x}) = SumFunctionOnSet(e, R) + e[x]
    BY <1>1, <1>2, SumAdds
  <1>6. SumFunctionOnSet(e, R) = SumFunctionOnSet(f, R)
    BY <1>1, <1>2, SumAgrees
  <1>7. SumFunctionOnSet(f, R) \in Int
    BY <1>1, <1>2, SumType
  <1> QED BY <1>1, <1>3, <1>4, <1>5, <1>6, <1>7

(* A sum of naturals is at least each of them. *)
LEMMA SumOfNaturals ==
    ASSUME NEW S, IsFiniteSet(S), NEW f, \A x \in S : f[x] \in Nat
    PROVE  /\ SumFunctionOnSet(f, S) \in Nat
           /\ \A x \in S : f[x] <= SumFunctionOnSet(f, S)
  <1>1. PICK g : IsSum(f, S, g) /\ SumFunctionOnSet(f, S) = g[S]
    BY SumIsSum
  <1>2. \A s \in SUBSET S : g[s] \in Int /\ \A x \in s : g[s] = f[x] + g[s \ {x}]
    BY <1>1, SumTakesAny
  <1> DEFINE T == {n \in Nat : \A s \in Layer(S, n) : g[s] \in Nat}
  <1>3. 0 \in T
    <2>1. \A s \in Layer(S, 0) : s = {}
      BY FS_Subset, FS_CardinalityType, FS_EmptySet DEF Layer
    <2>2. g[{}] = 0
      BY <1>1 DEF IsSum, SumStep
    <2> QED BY <2>1, <2>2
  <1>4. ASSUME NEW n \in Nat, n \in T PROVE n + 1 \in T
    <2> SUFFICES ASSUME NEW s \in Layer(S, n + 1), s # {} PROVE g[s] \in Nat
      <3>1. g[{}] = 0
        BY <1>1 DEF IsSum, SumStep
      <3> QED BY <3>1
    <2>1. Chosen(s) \in s /\ s \ {Chosen(s)} \in Layer(S, n) /\ s \in SUBSET S
      BY SmallerSubset DEF Layer
    <2>2. g[s \ {Chosen(s)}] \in Nat /\ f[Chosen(s)] \in Nat
      BY <1>4, <2>1
    <2>3. g[s] = f[Chosen(s)] + g[s \ {Chosen(s)}]
      BY <1>2, <2>1
    <2> QED BY <2>2, <2>3
  <1>5. \A n \in Nat : n \in T
    <2> HIDE DEF T
    <2> QED BY <1>3, <1>4, InductionOnNat
  <1>6. Layer(S, Cardinality(S)) = SUBSET S /\ Cardinality(S) \in Nat
    BY FS_Subset, FS_CardinalityType DEF Layer
  <1>7. \A s \in SUBSET S : g[s] \in Nat
    BY <1>5, <1>6
  <1>8. \A x \in S : g[S] = f[x] + g[S \ {x}] /\ g[S \ {x}] \in Nat
    BY <1>2, <1>7
  <1>9. ASSUME NEW x \in S PROVE f[x] <= g[S]
    <2>1. f[x] \in Nat /\ g[S] = f[x] + g[S \ {x}] /\ g[S \ {x}] \in Nat
      BY <1>8
    <2> QED BY <2>1
  <1>10. g[S] \in Nat
    BY <1>7
  <1> QED BY <1>1, <1>9, <1>10

(* A sum of zeros is 0. *)
LEMMA SumOfZeros ==
    ASSUME NEW S, IsFiniteSet(S), NEW f, \A x \in S : f[x] = 0
    PROVE  SumFunctionOnSet(f, S) = 0
  <1>1. PICK g : IsSum(f, S, g) /\ SumFunctionOnSet(f, S) = g[S]
    BY SumIsSum
  <1>2. \A s \in SUBSET S : g[s] = SumStep(f, g, s)
    BY <1>1 DEF IsSum
  <1> DEFINE T == {n \in Nat : \A s \in Layer(S, n) : g[s] = 0}
  <1>3. 0 \in T
    <2>1. \A s \in Layer(S, 0) : s = {}
      BY FS_Subset, FS_CardinalityType, FS_EmptySet DEF Layer
    <2> QED BY <1>2, <2>1 DEF SumStep
  <1>4. ASSUME NEW n \in Nat, n \in T PROVE n + 1 \in T
    <2> SUFFICES ASSUME NEW s \in Layer(S, n + 1), s # {} PROVE g[s] = 0
      BY <1>2 DEF SumStep
    <2>1. Chosen(s) \in S /\ s \ {Chosen(s)} \in Layer(S, n) /\ s \in SUBSET S
      BY SmallerSubset DEF Layer
    <2>2. g[s \ {Chosen(s)}] = 0 /\ f[Chosen(s)] = 0
      BY <1>4, <2>1
    <2> QED BY <1>2, <2>1, <2>2 DEF SumStep
  <1>5. \A n \in Nat : n \in T
    <2> HIDE DEF T
    <2> QED BY <1>3, <1>4, InductionOnNat
  <1>6. Layer(S, Cardinality(S)) = SUBSET S /\ Cardinality(S) \in Nat
    BY FS_Subset, FS_CardinalityType DEF Layer
  <1> QED BY <1>1, <1>5, <1>6

-----------------------------------------------------------------------------
(* The same for a function and its whole domain. *)

(* Another value at one point. *)
LEMMA OneTermChanges ==
    ASSUME NEW S, IsFiniteSet(S), NEW f \in [S -> Int], NEW x \in S, NEW v \in Int
    PROVE  SumFunction([f EXCEPT ![x] = v]) = SumFunction(f) - f[x] + v
  <1> DEFINE e == [f EXCEPT ![x] = v]
  <1>1. /\ DOMAIN e = S /\ DOMAIN f = S /\ e[x] = v
        /\ \A y \in S : f[y] \in Int
        /\ \A y \in S \ {x} : e[y] = f[y]
    OBVIOUS
  <1> HIDE DEF e
  <1>2. SumFunctionOnSet(e, S) = SumFunctionOnSet(f, S) - f[x] + e[x]
    BY <1>1, SumChanges
  <1> QED BY <1>1, <1>2 DEF SumFunction, e

(* A new point in the domain. *)
LEMMA OneTermMore ==
    ASSUME NEW S, IsFiniteSet(S), NEW f \in [S -> Int], NEW x, x \notin S,
           NEW e \in [S \cup {x} -> Int], \A y \in S : e[y] = f[y]
    PROVE  SumFunction(e) = SumFunction(f) + e[x]
  <1>1. /\ DOMAIN e = S \cup {x} /\ DOMAIN f = S
        /\ \A y \in S \cup {x} : e[y] \in Int
    OBVIOUS
  <1>2. SumFunctionOnSet(e, S \cup {x}) = SumFunctionOnSet(e, S) + e[x]
    BY <1>1, SumAdds
  <1>3. SumFunctionOnSet(e, S) = SumFunctionOnSet(f, S)
    BY SumAgrees
  <1> QED BY <1>1, <1>2, <1>3 DEF SumFunction

=============================================================================
