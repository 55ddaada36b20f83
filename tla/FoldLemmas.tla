------------------------------ MODULE FoldLemmas ------------------------------
(***************************************************************************)
(* What a sum over a finite set is worth, and what a fold over a sequence  *)
(* does, proved from their definitions.                                    *)
(*                                                                         *)
(* Induction over a set is done without the library's induction theorems,  *)
(* which take an operator: the family of the subsets for which a formula   *)
(* fails has a smallest member if it has any (the strict subsets of a      *)
(* finite set are well-founded), and that member is refuted.  A fold is a  *)
(* recursive function, so that it has to be shown to exist before anything *)
(* can be said of its values.                                              *)
(***************************************************************************)
EXTENDS Naturals, FiniteSetsExt, Functions, Filtering, FiniteSetTheorems,
        WellFoundedInduction, TLAPS

\* A family of subsets of a finite set has a smallest member.
LEMMA MinimalSubset ==
    ASSUME NEW S, IsFiniteSet(S), NEW F, F \subseteq SUBSET S, F # {}
    PROVE  \E T \in F : \A U \in F : ~(U \subseteq T /\ U # T)
<1>1. F \subseteq FiniteSubsetsOf(S)
  BY FS_FiniteSubsetsOfFinite
<1>2. IsWellFoundedOn(StrictSubsetOrdering(S), FiniteSubsetsOf(S))
  BY FS_StrictSubsetOrderingWellFounded
<1>3. \E T \in F : \A U \in F : ~(<<U, T>> \in StrictSubsetOrdering(S))
  BY <1>1, <1>2, WFMin
<1> QED
  BY <1>3 DEF StrictSubsetOrdering

\* What holds of a subset whenever it holds of all its strict subsets holds of
\* every subset of a finite set.
LEMMA SubsetInduction ==
    ASSUME NEW S, IsFiniteSet(S), NEW F,
           \A T \in SUBSET S : (\A U \in SUBSET T : U # T => U \in F) => T \in F
    PROVE  \A T \in SUBSET S : T \in F
<1> DEFINE G == (SUBSET S) \ F
<1> SUFFICES ASSUME G # {} PROVE FALSE
  OBVIOUS
<1>1. PICK T \in G : \A U \in G : ~(U \subseteq T /\ U # T)
  <2>1. G \subseteq SUBSET S
    OBVIOUS
  <2> HIDE DEF G
  <2> QED
    BY <2>1, MinimalSubset
<1> QED
  BY <1>1

-----------------------------------------------------------------------------
\* The element that SumFunctionOnSet takes next, and the function it computes.
AnyOf(s) == CHOOSE x \in s : TRUE
IsSum(g, f, S) ==
    g = [s \in SUBSET S |-> IF s = {} THEN 0 ELSE f[AnyOf(s)] + g[s \ {AnyOf(s)}]]

\* The sum is that function's value.
LEMMA SumDef ==
    ASSUME NEW f, NEW S
    PROVE  SumFunctionOnSet(f, S) = (CHOOSE g : IsSum(g, f, S))[S]
  BY DEF SumFunctionOnSet, FoldFunctionOnSet, MapThenFoldSet, IsSum, AnyOf


\* A set with zero and the successor of each of its numbers has every number.
LEMMA NatSetInduction ==
    ASSUME NEW A, 0 \in A, \A n \in Nat : n \in A => n + 1 \in A
    PROVE  Nat \subseteq A
<1> DEFINE B == Nat \ A
<1> SUFFICES ASSUME B # {} PROVE FALSE
  OBVIOUS
<1>1. PICK n \in B : \A m \in B : ~(<<m, n>> \in OpToRel(<, Nat))
  <2> B \subseteq Nat
    OBVIOUS
  <2> HIDE DEF B
  <2> QED
    BY NatLessThanWellFounded, WFMin
<1>2. \A m \in B : ~(m < n)
  BY <1>1 DEF OpToRel
<1>3. n # 0 /\ n - 1 \in Nat /\ n - 1 \in A
  BY <1>2
<1> QED
  BY <1>3

\* There is such a function: it is built for ever larger subsets.
LEMMA SumExists ==
    ASSUME NEW S, IsFiniteSet(S), NEW f
    PROVE  \E g : IsSum(g, f, S)
<1> DEFINE Body(g, s) == IF s = {} THEN 0 ELSE f[AnyOf(s)] + g[s \ {AnyOf(s)}]
           Good(g, n) == /\ g = [s \in SUBSET S |-> g[s]]
                         /\ \A s \in SUBSET S : Cardinality(s) <= n => g[s] = Body(g, s)
           A == {n \in Nat : \E g : Good(g, n)}
<1>1. \A s \in SUBSET S : /\ IsFiniteSet(s) /\ Cardinality(s) \in Nat
                          /\ Cardinality(s) <= Cardinality(S)
                          /\ s # {} => /\ s \ {AnyOf(s)} \in SUBSET S
                                       /\ Cardinality(s \ {AnyOf(s)}) = Cardinality(s) - 1
                          /\ Cardinality(s) = 0 => s = {}
  <2> SUFFICES ASSUME NEW s \in SUBSET S
               PROVE  /\ IsFiniteSet(s) /\ Cardinality(s) \in Nat
                      /\ Cardinality(s) <= Cardinality(S)
                      /\ s # {} => /\ s \ {AnyOf(s)} \in SUBSET S
                                   /\ Cardinality(s \ {AnyOf(s)}) = Cardinality(s) - 1
                      /\ Cardinality(s) = 0 => s = {}
    OBVIOUS
  <2>1. IsFiniteSet(s) /\ Cardinality(s) <= Cardinality(S)
    BY FS_Subset
  <2>2. Cardinality(s) \in Nat
    BY <2>1, FS_CardinalityType
  <2>3. s # {} => AnyOf(s) \in s
    BY DEF AnyOf
  <2>4. s # {} => Cardinality(s \ {AnyOf(s)}) = Cardinality(s) - 1
    BY <2>1, <2>3, FS_RemoveElement
  <2>5. Cardinality(s) = 0 => s = {}
    BY <2>1, FS_EmptySet
  <2> QED
    BY <2>1, <2>2, <2>4, <2>5
<1>2. 0 \in A
  <2> DEFINE g0 == [s \in SUBSET S |-> 0]
  <2>1. ASSUME NEW s \in SUBSET S, Cardinality(s) <= 0 PROVE s = {} /\ g0[s] = 0
    <3>1. Cardinality(s) \in Nat
      BY <1>1
    <3>2. Cardinality(s) = 0
      BY <2>1, <3>1
    <3> QED
      BY <1>1, <3>2
  <2>2. g0 = [s \in SUBSET S |-> g0[s]]
    OBVIOUS
  <2> HIDE DEF g0
  <2>3. Good(g0, 0)
    BY <2>1, <2>2
  <2> HIDE DEF Good
  <2> QED
    BY <2>3
<1>3. ASSUME NEW n \in Nat, n \in A PROVE n + 1 \in A
  <2>1. PICK g : Good(g, n)
    BY <1>3
  <2> DEFINE h == [s \in SUBSET S |-> IF Cardinality(s) = n + 1 THEN Body(g, s) ELSE g[s]]
  <2>2. \A s \in SUBSET S : Cardinality(s) <= n + 1 => h[s] = Body(h, s)
    <3> SUFFICES ASSUME NEW s \in SUBSET S, Cardinality(s) <= n + 1 PROVE h[s] = Body(h, s)
      OBVIOUS
    <3>1. s # {} => h[s \ {AnyOf(s)}] = g[s \ {AnyOf(s)}]
      BY <1>1
    <3>2. Body(h, s) = Body(g, s)
      BY <3>1
    <3>3. h[s] = Body(g, s)
      <4>1. CASE Cardinality(s) = n + 1
        BY <4>1
      <4>2. CASE Cardinality(s) # n + 1
        <5>0. Cardinality(s) \in Nat
          BY <1>1
        <5>1. Cardinality(s) <= n
          BY <4>2, <5>0
        <5>2. g[s] = Body(g, s)
          BY <2>1, <5>1
        <5> QED
          BY <4>2, <5>2
      <4> QED
        BY <4>1, <4>2
    <3> QED
      BY <3>2, <3>3
  <2>3. h = [s \in SUBSET S |-> h[s]]
    OBVIOUS
  <2> HIDE DEF h
  <2>4. Good(h, n + 1)
    BY <2>2, <2>3
  <2> HIDE DEF Good
  <2> QED
    BY <2>4
<1>4. Cardinality(S) \in A
  <2> HIDE DEF A
  <2>1. Cardinality(S) \in Nat
    BY FS_CardinalityType
  <2> QED
    BY <2>1, <1>2, <1>3, NatSetInduction
<1>5. PICK g : Good(g, Cardinality(S))
  BY <1>4
<1>6. g = [s \in SUBSET S |-> Body(g, s)]
  BY <1>1, <1>5
<1> QED
  BY <1>6 DEF IsSum

\* The sum takes one element off, the one it chooses.
LEMMA SumAny ==
    ASSUME NEW S, IsFiniteSet(S), NEW f, S # {}
    PROVE  /\ AnyOf(S) \in S
         /\ SumFunctionOnSet(f, S) = f[AnyOf(S)] + SumFunctionOnSet(f, S \ {AnyOf(S)})
<1> DEFINE G(T) == CHOOSE g : IsSum(g, f, T)
           U == S \ {AnyOf(S)}
<1>1. AnyOf(S) \in S
  BY DEF AnyOf
<1>2. IsFiniteSet(U)
  BY FS_Subset
<1>3. IsSum(G(S), f, S) /\ IsSum(G(U), f, U)
  BY <1>2, SumExists
<1>4. \A T \in SUBSET U : G(S)[T] = G(U)[T]
  <2> DEFINE F == {T \in SUBSET U : G(S)[T] = G(U)[T]}
  <2> HIDE DEF G
  <2>1. ASSUME NEW T \in SUBSET U, \A V \in SUBSET T : V # T => V \in F PROVE T \in F
    <3>1. T \in SUBSET S
      OBVIOUS
    <3>2. G(S)[T] = IF T = {} THEN 0 ELSE f[AnyOf(T)] + G(S)[T \ {AnyOf(T)}]
      BY <1>3, <3>1 DEF IsSum
    <3>3. G(U)[T] = IF T = {} THEN 0 ELSE f[AnyOf(T)] + G(U)[T \ {AnyOf(T)}]
      BY <1>3 DEF IsSum
    <3>4. T # {} => T \ {AnyOf(T)} # T
      BY DEF AnyOf
    <3>5. T # {} => G(S)[T \ {AnyOf(T)}] = G(U)[T \ {AnyOf(T)}]
      BY <2>1, <3>4
    <3> QED
      BY <3>2, <3>3, <3>5
  <2> HIDE DEF F
  <2>2. \A T \in SUBSET U : T \in F
    BY <1>2, <2>1, SubsetInduction
  <2> QED
    BY <2>2 DEF F
<1>5. G(S)[S] = f[AnyOf(S)] + G(S)[U]
  <2> HIDE DEF G
  <2> QED
    BY <1>3 DEF IsSum
<1>6. SumFunctionOnSet(f, S) = G(S)[S] /\ SumFunctionOnSet(f, U) = G(U)[U]
  BY SumDef
<1> HIDE DEF G
<1> QED
  BY <1>1, <1>4, <1>5, <1>6

\* The sum over nothing is zero.
LEMMA SumEmpty ==
    ASSUME NEW f PROVE SumFunctionOnSet(f, {}) = 0
<1>1. IsSum(CHOOSE g : IsSum(g, f, {}), f, {})
  BY SumExists, FS_EmptySet
<1> QED
  BY <1>1, SumDef DEF IsSum

\* A sum of natural numbers is one.
LEMMA SumNat ==
    ASSUME NEW S, IsFiniteSet(S), NEW f, \A x \in S : f[x] \in Nat
    PROVE  SumFunctionOnSet(f, S) \in Nat
<1> DEFINE F == {T \in SUBSET S : SumFunctionOnSet(f, T) \in Nat}
<1>1. ASSUME NEW T \in SUBSET S, \A V \in SUBSET T : V # T => V \in F PROVE T \in F
  <2>1. CASE T = {}
    BY <2>1, SumEmpty
  <2>2. CASE T # {}
    <3>1. IsFiniteSet(T)
      BY FS_Subset
    <3>2. /\ AnyOf(T) \in T
          /\ SumFunctionOnSet(f, T) = f[AnyOf(T)] + SumFunctionOnSet(f, T \ {AnyOf(T)})
      BY <2>2, <3>1, SumAny
    <3>3. SumFunctionOnSet(f, T \ {AnyOf(T)}) \in Nat
      BY <1>1, <3>2
    <3>4. f[AnyOf(T)] \in Nat
      BY <3>2
    <3> QED
      BY <3>2, <3>3, <3>4
  <2> QED
    BY <2>1, <2>2
<1> HIDE DEF F
<1>2. S \in F
  BY <1>1, SubsetInduction
<1> QED
  BY <1>2 DEF F

\* Any element may be taken off first: the order of the fold does not matter.
LEMMA SumRemove ==
    ASSUME NEW S, IsFiniteSet(S), NEW f, \A x \in S : f[x] \in Nat, NEW y \in S
    PROVE  SumFunctionOnSet(f, S) = f[y] + SumFunctionOnSet(f, S \ {y})
<1> DEFINE Val(T) == SumFunctionOnSet(f, T)
           F == {T \in SUBSET S : \A x \in T : Val(T) = f[x] + Val(T \ {x})}
<1>0. \A T \in SUBSET S : Val(T) \in Nat
  BY FS_Subset, SumNat
<1>1. ASSUME NEW T \in SUBSET S, \A V \in SUBSET T : V # T => V \in F PROVE T \in F
  <2> SUFFICES ASSUME NEW x \in T PROVE Val(T) = f[x] + Val(T \ {x})
    OBVIOUS
  <2> DEFINE c == AnyOf(T)
  <2>1. IsFiniteSet(T)
    BY FS_Subset
  <2>2. c \in T /\ Val(T) = f[c] + Val(T \ {c})
    BY <2>1, SumAny
  <2> HIDE DEF c
  <2>3. CASE c = x
    BY <2>2, <2>3
  <2>4. CASE c # x
    <3> HIDE DEF Val
    <3>1. Val(T \ {c}) = f[x] + Val((T \ {c}) \ {x})
      BY <1>1, <2>2, <2>4
    <3>2. Val(T \ {x}) = f[c] + Val((T \ {x}) \ {c})
      BY <1>1, <2>2, <2>4
    <3>3. (T \ {c}) \ {x} = (T \ {x}) \ {c}
      OBVIOUS
    <3>4. f[x] \in Nat /\ f[c] \in Nat /\ Val((T \ {x}) \ {c}) \in Nat
      BY <1>0, <2>2
    <3> QED
      BY <2>2, <3>1, <3>2, <3>3, <3>4
  <2> QED
    BY <2>3, <2>4
<1> HIDE DEF F
<1>2. S \in F
  BY <1>1, SubsetInduction
<1> QED
  BY <1>2 DEF F

\* The sum depends on the values over the set only.
LEMMA SumSame ==
    ASSUME NEW S, IsFiniteSet(S), NEW f, NEW g, \A x \in S : f[x] = g[x]
    PROVE  SumFunctionOnSet(f, S) = SumFunctionOnSet(g, S)
<1> DEFINE F == {T \in SUBSET S : SumFunctionOnSet(f, T) = SumFunctionOnSet(g, T)}
<1>1. ASSUME NEW T \in SUBSET S, \A V \in SUBSET T : V # T => V \in F PROVE T \in F
  <2>1. CASE T = {}
    BY <2>1, SumEmpty
  <2>2. CASE T # {}
    <3>1. IsFiniteSet(T)
      BY FS_Subset
    <3>2. /\ AnyOf(T) \in T
          /\ SumFunctionOnSet(f, T) = f[AnyOf(T)] + SumFunctionOnSet(f, T \ {AnyOf(T)})
          /\ SumFunctionOnSet(g, T) = g[AnyOf(T)] + SumFunctionOnSet(g, T \ {AnyOf(T)})
      BY <2>2, <3>1, SumAny
    <3>3. SumFunctionOnSet(f, T \ {AnyOf(T)}) = SumFunctionOnSet(g, T \ {AnyOf(T)})
      BY <1>1, <3>2
    <3> QED
      BY <3>2, <3>3
  <2> QED
    BY <2>1, <2>2
<1> HIDE DEF F
<1>2. S \in F
  BY <1>1, SubsetInduction
<1> QED
  BY <1>2 DEF F

\* The sum of all values of a function whose one value was lowered or raised.
LEMMA SumChange ==
    ASSUME NEW S, IsFiniteSet(S), NEW f \in [S -> Nat], NEW g \in [S -> Nat], NEW y \in S,
           \A x \in S \ {y} : g[x] = f[x]
    PROVE  SumFunction(g) + f[y] = SumFunction(f) + g[y]
<1>1. /\ SumFunction(f) = SumFunctionOnSet(f, S)
      /\ SumFunction(g) = SumFunctionOnSet(g, S)
  <2>1. DOMAIN f = S /\ DOMAIN g = S
    OBVIOUS
  <2> QED
    BY <2>1 DEF SumFunction
<1>2. /\ SumFunctionOnSet(f, S) = f[y] + SumFunctionOnSet(f, S \ {y})
      /\ SumFunctionOnSet(g, S) = g[y] + SumFunctionOnSet(g, S \ {y})
  BY SumRemove
<1>3. IsFiniteSet(S \ {y})
  BY FS_Subset
<1>4. SumFunctionOnSet(f, S \ {y}) = SumFunctionOnSet(g, S \ {y})
  BY <1>3, SumSame
<1>5. SumFunctionOnSet(f, S \ {y}) \in Nat
  BY <1>3, SumNat
<1>6. f[y] \in Nat /\ g[y] \in Nat
  OBVIOUS
<1> QED
  BY <1>1, <1>2, <1>4, <1>5, <1>6

\* A set of numbers that has a largest one has it for its Max.
LEMMA MaxIs ==
    ASSUME NEW S, NEW m \in S, \A x \in S : x <= m /\ x \in Nat
    PROVE  Max(S) \in S /\ \A x \in S : x <= Max(S)
<1>1. \E n \in S : \A x \in S : n >= x
  OBVIOUS
<1> QED
  BY <1>1 DEF Max

\* A finite set of numbers that is not empty has a largest one.
LEMMA FiniteMax ==
    ASSUME NEW S, IsFiniteSet(S), S \subseteq Nat, S # {}
    PROVE  Max(S) \in S /\ \A x \in S : x <= Max(S)
<1> DEFINE F == {T \in SUBSET S : T # {} => \E m \in T : \A x \in T : x <= m}
<1>1. ASSUME NEW T \in SUBSET S, \A V \in SUBSET T : V # T => V \in F PROVE T \in F
  <2> SUFFICES ASSUME NEW y \in T PROVE \E m \in T : \A x \in T : x <= m
    OBVIOUS
  <2>1. T \ {y} \in F
    BY <1>1
  <2>2. CASE T \ {y} = {}
    <3>1. \A x \in T : x <= y
      BY <2>2
    <3> QED
      BY <3>1
  <2>3. CASE T \ {y} # {}
    <3>1. PICK m \in T \ {y} : \A x \in T \ {y} : x <= m
      BY <2>1, <2>3
    <3>2. m \in Nat /\ y \in Nat
      OBVIOUS
    <3>3. CASE y <= m
      BY <3>1, <3>3
    <3>4. CASE m <= y
      <4>1. \A x \in T : x <= y
        BY <3>1, <3>2, <3>4
      <4> QED
        BY <4>1
    <3> QED
      BY <3>2, <3>3, <3>4
  <2> QED
    BY <2>2, <2>3
<1> HIDE DEF F
<1>2. S \in F
  BY <1>1, SubsetInduction
<1>3. PICK m \in S : \A x \in S : x <= m
  BY <1>2 DEF F
<1> QED
  BY <1>3, MaxIs

\* The smallest of a set of numbers is one of them.
LEMMA MinIs == ASSUME NEW S, S \subseteq Nat, S # {} PROVE Min(S) \in S
<1>1. PICK n \in S : \A m \in S : ~(<<m, n>> \in OpToRel(<, Nat))
  BY NatLessThanWellFounded, WFMin
<1>2. \A m \in S : ~(m < n)
  BY <1>1 DEF OpToRel
<1>3. \A m \in S : n <= m
  BY <1>2
<1> QED
  BY <1>3 DEF Min

-----------------------------------------------------------------------------
(* A fold whose accumulator stays in a set: D is what it ranges over, ch   *)
(* the element it takes off next, f its step as a function.                *)

Picks(ch, D) == \A s \in SUBSET D : s # {} => ch[s] \in s
Steps(f, D, St) == \A v \in St, i \in D : f[<<v, i>>] \in St
FoldsTo(g, f, ch, D, St, base) ==
    /\ g \in [SUBSET D -> St]
    /\ \A s \in SUBSET D : g[s] = IF s = {} THEN base ELSE f[<<g[s \ {ch[s]}], ch[s]>>]
FoldsWithin(g, f, ch, D, St, base) ==
    /\ g[{}] = base
    /\ \A s \in SUBSET D : s # {} /\ g[s \ {ch[s]}] \in St =>
           g[s] = f[<<g[s \ {ch[s]}], ch[s]>>]

\* There is a function that computes the fold.
LEMMA FoldExists ==
    ASSUME NEW D, IsFiniteSet(D), NEW ch, Picks(ch, D), NEW St, NEW base \in St, NEW f,
           Steps(f, D, St)
    PROVE  \E g : FoldsTo(g, f, ch, D, St, base)
<1> DEFINE Body(g, s) == IF s = {} THEN base ELSE f[<<g[s \ {ch[s]}], ch[s]>>]
           Good(g, n) == /\ g \in [SUBSET D -> St]
                         /\ \A s \in SUBSET D : Cardinality(s) <= n => g[s] = Body(g, s)
           A == {n \in Nat : \E g : Good(g, n)}
<1>1. ASSUME NEW s \in SUBSET D
      PROVE  /\ Cardinality(s) \in Nat /\ Cardinality(s) <= Cardinality(D)
             /\ s # {} => /\ ch[s] \in D /\ s \ {ch[s]} \in SUBSET D
                          /\ Cardinality(s \ {ch[s]}) = Cardinality(s) - 1
             /\ Cardinality(s) = 0 => s = {}
  <2>1. IsFiniteSet(s) /\ Cardinality(s) <= Cardinality(D)
    BY FS_Subset
  <2>2. Cardinality(s) \in Nat
    BY <2>1, FS_CardinalityType
  <2>3. s # {} => ch[s] \in s
    BY DEF Picks
  <2>4. s # {} => Cardinality(s \ {ch[s]}) = Cardinality(s) - 1
    BY <2>1, <2>3, FS_RemoveElement
  <2>5. Cardinality(s) = 0 => s = {}
    BY <2>1, FS_EmptySet
  <2> QED
    BY <2>1, <2>2, <2>3, <2>4, <2>5
<1>2. 0 \in A
  <2> DEFINE g0 == [s \in SUBSET D |-> base]
  <2>1. ASSUME NEW s \in SUBSET D, Cardinality(s) <= 0 PROVE s = {} /\ g0[s] = base
    <3>1. Cardinality(s) \in Nat
      BY <1>1
    <3>2. Cardinality(s) = 0
      BY <2>1, <3>1
    <3> QED
      BY <1>1, <3>2
  <2>2. g0 \in [SUBSET D -> St]
    OBVIOUS
  <2> HIDE DEF g0
  <2>3. Good(g0, 0)
    BY <2>1, <2>2
  <2> HIDE DEF Good
  <2> QED
    BY <2>3
<1>3. ASSUME NEW n \in Nat, n \in A PROVE n + 1 \in A
  <2>1. PICK g : Good(g, n)
    BY <1>3
  <2> DEFINE h == [s \in SUBSET D |-> IF Cardinality(s) = n + 1 THEN Body(g, s) ELSE g[s]]
  <2>2. ASSUME NEW s \in SUBSET D PROVE Body(g, s) \in St
    BY <1>1, <2>1 DEF Steps
  <2>3. h \in [SUBSET D -> St]
    <3> HIDE DEF Body
    <3> QED
      BY <2>1, <2>2
  <2>4. ASSUME NEW s \in SUBSET D, Cardinality(s) <= n + 1 PROVE h[s] = Body(h, s)
    <3>1. s # {} => h[s \ {ch[s]}] = g[s \ {ch[s]}]
      <4> HIDE DEF Body
      <4>1. s # {} => Cardinality(s \ {ch[s]}) # n + 1
        BY <1>1, <2>4
      <4> QED
        BY <1>1, <4>1
    <3>2. Body(h, s) = Body(g, s)
      BY <3>1
    <3>3. CASE Cardinality(s) = n + 1
      BY <3>2, <3>3
    <3>4. CASE Cardinality(s) # n + 1
      <4>0. Cardinality(s) \in Nat
        BY <1>1
      <4>1. Cardinality(s) <= n
        BY <2>4, <3>4, <4>0
      <4>2. g[s] = Body(g, s)
        BY <2>1, <4>1
      <4> QED
        BY <3>2, <3>4, <4>2
    <3> QED
      BY <3>3, <3>4
  <2> HIDE DEF h
  <2>5. Good(h, n + 1)
    BY <2>3, <2>4
  <2> HIDE DEF Good
  <2> QED
    BY <2>5
<1>4. Cardinality(D) \in A
  <2> HIDE DEF A
  <2>1. Cardinality(D) \in Nat
    BY FS_CardinalityType
  <2> QED
    BY <2>1, <1>2, <1>3, NatSetInduction
<1>5. PICK g : Good(g, Cardinality(D))
  BY <1>4
<1>6. \A s \in SUBSET D : g[s] = Body(g, s)
  <2> HIDE DEF Body
  <2> QED
    BY <1>1, <1>5
<1>7. g \in [SUBSET D -> St]
  BY <1>5
<1> QED
  BY <1>6, <1>7 DEF FoldsTo

\* Whatever computes it has its values in that set.
LEMMA FoldValues ==
    ASSUME NEW D, IsFiniteSet(D), NEW ch, Picks(ch, D), NEW St, NEW base \in St, NEW f,
           Steps(f, D, St), NEW g, FoldsWithin(g, f, ch, D, St, base)
    PROVE  \A s \in SUBSET D : g[s] \in St
<1> DEFINE F == {s \in SUBSET D : g[s] \in St}
<1>1. ASSUME NEW T \in SUBSET D, \A U \in SUBSET T : U # T => U \in F PROVE T \in F
  <2>1. CASE T = {}
    BY <2>1 DEF FoldsWithin
  <2>2. CASE T # {}
    <3>1. ch[T] \in T
      BY <2>2 DEF Picks
    <3>2. g[T \ {ch[T]}] \in St
      BY <1>1, <3>1
    <3>3. g[T] = f[<<g[T \ {ch[T]}], ch[T]>>]
      BY <2>2, <3>2 DEF FoldsWithin
    <3> QED
      BY <3>1, <3>2, <3>3 DEF Steps
  <2> QED
    BY <2>1, <2>2
<1> HIDE DEF F
<1>2. \A T \in SUBSET D : T \in F
  BY <1>1, SubsetInduction
<1> QED
  BY <1>2 DEF F

\* FoldLeft takes the largest index off, FoldRight the smallest.
LEMMA LastPicked ==
    ASSUME NEW n \in Nat
    PROVE  /\ IsFiniteSet(1 .. n)
           /\ \A s \in SUBSET (1 .. n) : s # {} => Max(s) \in s
           /\ \A k \in 1 .. n : Max(1 .. k) = k /\ (1 .. k) \ {k} = 1 .. (k - 1)
<1>1. IsFiniteSet(1 .. n)
  BY FS_Interval
<1>2. ASSUME NEW s \in SUBSET (1 .. n), s # {} PROVE Max(s) \in s
  <2>1. IsFiniteSet(s)
    BY <1>1, FS_Subset
  <2>2. s \subseteq Nat
    OBVIOUS
  <2> QED
    BY <1>2, <2>1, <2>2, FiniteMax
<1>3. ASSUME NEW k \in 1 .. n PROVE Max(1 .. k) = k /\ (1 .. k) \ {k} = 1 .. (k - 1)
  <2>1. k \in 1 .. k /\ \A x \in 1 .. k : x <= k /\ x \in Nat
    OBVIOUS
  <2>2. Max(1 .. k) \in 1 .. k /\ \A x \in 1 .. k : x <= Max(1 .. k)
    BY <2>1, MaxIs
  <2> QED
    BY <2>1, <2>2
<1> QED
  BY <1>1, <1>2, <1>3

\* The first element of a set of places can be picked, and what is left without it.
LEMMA FirstPicked ==
    ASSUME NEW n \in Nat
    PROVE  /\ IsFiniteSet(1 .. n)
           /\ \A s \in SUBSET (1 .. n) : s # {} => Min(s) \in s
           /\ \A k \in 1 .. n : Min(k .. n) = k /\ (k .. n) \ {k} = (k + 1) .. n
<1>1. IsFiniteSet(1 .. n)
  BY FS_Interval
<1>2. ASSUME NEW s \in SUBSET (1 .. n), s # {} PROVE Min(s) \in s
  <2>1. s \subseteq Nat
    OBVIOUS
  <2> QED
    BY <1>2, <2>1, MinIs
<1>3. ASSUME NEW k \in 1 .. n PROVE Min(k .. n) = k /\ (k .. n) \ {k} = (k + 1) .. n
  <2>1. k \in k .. n /\ \A x \in k .. n : k <= x /\ x \in Nat
    OBVIOUS
  <2>2. \A m \in k .. n : (\A x \in k .. n : m <= x) <=> m = k
    BY <2>1
  <2>3. Min(k .. n) = k
    BY <2>1, <2>2 DEF Min
  <2> QED
    BY <2>3
<1> QED
  BY <1>1, <1>2, <1>3

-----------------------------------------------------------------------------
(***************************************************************************)
(* Filtered, element by element: one stage for each, and the last stage is *)
(* the filter.  What it gives when nothing or one element is left out, and *)
(* what it gives of any sequence: the elements that are kept, each from a  *)
(* place of its own.                                                       *)
(***************************************************************************)
\* The stages of a filter, one per element.
StagesOf(c, seq, S) ==
    /\ c[0] = <<>>
    /\ \A k \in 1 .. Len(seq) :
          c[k] = IF seq[k] \in S THEN Append(c[k - 1], seq[k]) ELSE c[k - 1]

\* A filter is the last of its stages.
LEMMA FilterStages ==
    ASSUME NEW R, NEW seq \in Seq(R), NEW S
    PROVE  \E c \in [0 .. Len(seq) -> Seq(R)] :
             StagesOf(c, seq, S) /\ Filtered(seq, S) = c[Len(seq)]
<1> DEFINE n == Len(seq)
           D == 1 .. n
           St == Seq(R)
           ch == [s \in SUBSET D |-> Max(s)]
           Step(v, k) == IF seq[k] \in S THEN Append(v, seq[k]) ELSE v
           f == [p \in St \X D |-> Step(p[1], p[2])]
           none == <<>>
           Computes(g) == g = [s \in SUBSET D |-> IF s = {} THEN none
                                      ELSE Step(g[s \ {Max(s)}], Max(s))]
           fold == CHOOSE g : Computes(g)
           c == [k \in 0 .. n |-> fold[1 .. k]]
<1>0. n \in Nat /\ D = DOMAIN seq /\ none \in St
  OBVIOUS
<1>1. /\ IsFiniteSet(D) /\ \A s \in SUBSET D : s # {} => Max(s) \in s
      /\ \A k \in D : Max(1 .. k) = k /\ (1 .. k) \ {k} = 1 .. (k - 1)
  BY <1>0, LastPicked
<1>2. Picks(ch, D)
  BY <1>1 DEF Picks
<1>3. \A v \in St, k \in D : Step(v, k) \in St
  OBVIOUS
<1>4. Filtered(seq, S) = fold[D]
  BY <1>0 DEF Filtered, FoldLeft, MapThenFoldSet
<1> HIDE DEF Step, St, none
<1>5. Steps(f, D, St)
  BY <1>3 DEF Steps
<1>6. \A v \in St, k \in D : f[<<v, k>>] = Step(v, k)
  OBVIOUS
<1>7. \A s \in SUBSET D : ch[s] = Max(s)
  OBVIOUS
<1> HIDE DEF D, ch, f
<1>8. \E g : Computes(g)
  <2>1. PICK g : FoldsTo(g, f, ch, D, St, none)
    BY <1>0, <1>1, <1>2, <1>5, FoldExists
  <2>2. ASSUME NEW s \in SUBSET D
        PROVE  g[s] = IF s = {} THEN none ELSE Step(g[s \ {Max(s)}], Max(s))
    <3>1. s # {} => Max(s) \in D
      BY <1>1
    <3> QED
      BY <1>6, <1>7, <2>1, <3>1 DEF FoldsTo
  <2>3. Computes(g)
    BY <2>1, <2>2 DEF FoldsTo
  <2> QED
    BY <2>3
<1>9. Computes(fold)
  BY <1>8
<1> HIDE DEF fold
<1>10. fold[{}] = none
  BY <1>9
<1>11. ASSUME NEW s \in SUBSET D, s # {}
       PROVE  fold[s] = Step(fold[s \ {Max(s)}], Max(s))
  BY <1>9, <1>11
<1>12. ASSUME NEW s \in SUBSET D, s # {}, fold[s \ {ch[s]}] \in St
       PROVE  fold[s] = f[<<fold[s \ {ch[s]}], ch[s]>>]
  <2>1. Max(s) \in D /\ ch[s] = Max(s)
    BY <1>1, <1>7, <1>12
  <2> QED
    BY <1>6, <1>11, <1>12, <2>1
<1>13. FoldsWithin(fold, f, ch, D, St, none)
  BY <1>10, <1>12 DEF FoldsWithin
<1>14. \A s \in SUBSET D : fold[s] \in St
  BY <1>0, <1>1, <1>2, <1>5, <1>13, FoldValues
<1>15. ASSUME NEW k \in 0 .. n PROVE 1 .. k \in SUBSET D
  BY <1>0 DEF D
<1>16. c \in [0 .. n -> St]
  BY <1>14, <1>15
<1>17. c[0] = none /\ c[n] = fold[D]
  <2>1. 1 .. 0 = {} /\ 0 \in 0 .. n /\ n \in 0 .. n
    BY <1>0
  <2> QED
    BY <1>10, <2>1 DEF D
<1>18. ASSUME NEW k \in 1 .. n PROVE c[k] = Step(c[k - 1], k)
  <2>1. k \in 0 .. n /\ k - 1 \in 0 .. n /\ 1 .. k # {} /\ k \in D
    <3>1. k \in 1 .. k
      BY <1>0
    <3>2. k \in 0 .. n /\ k - 1 \in 0 .. n /\ k \in D
      BY <1>0 DEF D
    <3> QED
      BY <3>1, <3>2
  <2>2. fold[1 .. k] = Step(fold[(1 .. k) \ {k}], k)
    BY <1>1, <1>11, <1>15, <2>1
  <2>3. (1 .. k) \ {k} = 1 .. (k - 1)
    BY <1>1, <2>1
  <2> QED
    BY <2>1, <2>2, <2>3
<1> HIDE DEF c
<1> QED
  BY <1>4, <1>16, <1>17, <1>18 DEF StagesOf, none, Step, St

\* What is true of no element, and stays true with one more, is true of all.
LEMMA UpTo ==
    ASSUME NEW n \in Nat, NEW P, 0 \in P, \A k \in 1 .. n : k - 1 \in P => k \in P
    PROVE  \A k \in 0 .. n : k \in P
<1> DEFINE A == {k \in Nat : k <= n => k \in P}
<1>1. 0 \in A
  OBVIOUS
<1>2. ASSUME NEW k \in Nat, k \in A PROVE k + 1 \in A
  <2>1. CASE k + 1 <= n
    <3>1. k \in P /\ k + 1 \in 1 .. n /\ (k + 1) - 1 = k
      BY <1>2, <2>1
    <3> QED
      BY <3>1
  <2>2. CASE ~(k + 1 <= n)
    BY <2>2
  <2> QED
    BY <2>1, <2>2
<1> HIDE DEF A
<1>3. Nat \subseteq A
  BY <1>1, <1>2, NatSetInduction
<1> QED
  BY <1>3 DEF A

\* The filter is what these stages lead to, however they are found.
LEMMA FilterIs ==
    ASSUME NEW R, NEW seq \in Seq(R), NEW S, NEW e, StagesOf(e, seq, S)
    PROVE  Filtered(seq, S) = e[Len(seq)]
<1>1. PICK c \in [0 .. Len(seq) -> Seq(R)] :
        StagesOf(c, seq, S) /\ Filtered(seq, S) = c[Len(seq)]
  BY FilterStages
<1> DEFINE P == {k \in 0 .. Len(seq) : c[k] = e[k]}
<1>2. Len(seq) \in Nat
  OBVIOUS
<1>3. 0 \in P
  BY <1>1, <1>2 DEF StagesOf
<1>4. \A k \in 1 .. Len(seq) : k - 1 \in P => k \in P
  BY <1>1, <1>2 DEF StagesOf
<1> HIDE DEF P
<1>5. \A k \in 0 .. Len(seq) : k \in P
  BY <1>2, <1>3, <1>4, UpTo
<1>6. Len(seq) \in P
  BY <1>2, <1>5
<1> QED
  BY <1>1, <1>6 DEF P

\* Nothing is left out.
LEMMA FilterAll ==
    ASSUME NEW R, NEW seq \in Seq(R), NEW S, ToSet(seq) \subseteq S
    PROVE  Filtered(seq, S) = seq
<1> DEFINE e == [k \in 0 .. Len(seq) |-> SubSeq(seq, 1, k)]
<1>1. Len(seq) \in Nat
  OBVIOUS
<1>2. e[0] = <<>>
  BY <1>1
<1>3. ASSUME NEW k \in 1 .. Len(seq)
      PROVE  e[k] = IF seq[k] \in S THEN Append(e[k - 1], seq[k]) ELSE e[k - 1]
  <2>1. seq[k] \in S
    BY DEF ToSet
  <2>2. SubSeq(seq, 1, k) = Append(SubSeq(seq, 1, k - 1), seq[k])
    BY <1>1
  <2>3. k \in 0 .. Len(seq) /\ k - 1 \in 0 .. Len(seq)
    BY <1>1
  <2> QED
    BY <2>1, <2>2, <2>3
<1>4. e[Len(seq)] = seq
  <2>1. SubSeq(seq, 1, Len(seq)) = seq
    OBVIOUS
  <2> QED
    BY <1>1, <2>1
<1> HIDE DEF e
<1>5. StagesOf(e, seq, S)
  BY <1>2, <1>3 DEF StagesOf
<1> QED
  BY <1>4, <1>5, FilterIs

\* A sequence without the element at one place.
Dropped(seq, p) == [i \in 1 .. (Len(seq) - 1) |-> IF i < p THEN seq[i] ELSE seq[i + 1]]

\* One is left out.
LEMMA FilterOne ==
    ASSUME NEW R, NEW seq \in Seq(R), NEW S, NEW p \in DOMAIN seq, seq[p] \notin S,
           \A i \in DOMAIN seq : i # p => seq[i] \in S
    PROVE  Filtered(seq, S) = Dropped(seq, p)
<1> DEFINE Upto(k) == IF k < p THEN SubSeq(seq, 1, k)
                      ELSE [i \in 1 .. (k - 1) |-> IF i < p THEN seq[i] ELSE seq[i + 1]]
           e == [k \in 0 .. Len(seq) |-> Upto(k)]
<1>1. Len(seq) \in Nat /\ DOMAIN seq = 1 .. Len(seq) /\ p \in 1 .. Len(seq)
  OBVIOUS
<1>2. e[0] = <<>>
  BY <1>1
<1>3. ASSUME NEW k \in 1 .. Len(seq)
      PROVE  Upto(k) = IF seq[k] \in S THEN Append(Upto(k - 1), seq[k]) ELSE Upto(k - 1)
  <2>1. CASE k < p
    <3>1. seq[k] \in S
      BY <1>1, <2>1
    <3>2. SubSeq(seq, 1, k) = Append(SubSeq(seq, 1, k - 1), seq[k])
      BY <1>1
    <3> QED
      BY <1>1, <2>1, <3>1, <3>2
  <2>2. CASE k = p
    <3>1. seq[k] \notin S
      BY <2>2
    <3>2. SubSeq(seq, 1, p - 1) = [i \in 1 .. (p - 1) |-> IF i < p THEN seq[i] ELSE seq[i + 1]]
      BY <1>1
    <3>3. Upto(k) = [i \in 1 .. (p - 1) |-> IF i < p THEN seq[i] ELSE seq[i + 1]]
      BY <1>1, <2>2
    <3>4. Upto(k - 1) = SubSeq(seq, 1, p - 1)
      BY <1>1, <2>2
    <3> QED
      BY <3>1, <3>2, <3>3, <3>4
  <2>3. CASE k > p
    <3>1. seq[k] \in S
      BY <1>1, <2>3
    <3> DEFINE a == [i \in 1 .. (k - 2) |-> IF i < p THEN seq[i] ELSE seq[i + 1]]
               b == [i \in 1 .. (k - 1) |-> IF i < p THEN seq[i] ELSE seq[i + 1]]
    <3>2. \A i \in 1 .. (k - 1) : (IF i < p THEN seq[i] ELSE seq[i + 1]) \in R
      BY <1>1, <2>3
    <3>3. a \in Seq(R) /\ Len(a) = k - 2
      BY <1>1, <2>3, <3>2
    <3>4. b \in Seq(R) /\ Len(b) = k - 1
      BY <1>1, <2>3, <3>2
    <3>5. b = Append(a, seq[k])
      BY <1>1, <2>3, <3>3, <3>4
    <3>6. Upto(k) = b /\ Upto(k - 1) = a
      BY <1>1, <2>3
    <3> QED
      BY <3>1, <3>5, <3>6
  <2> QED
    BY <1>1, <2>1, <2>2, <2>3
<1>4. \A k \in 1 .. Len(seq) :
        e[k] = IF seq[k] \in S THEN Append(e[k - 1], seq[k]) ELSE e[k - 1]
  <2> HIDE DEF Upto
  <2>1. \A k \in 1 .. Len(seq) : k \in 0 .. Len(seq) /\ k - 1 \in 0 .. Len(seq)
    BY <1>1
  <2> QED
    BY <1>3, <2>1
<1>5. e[Len(seq)] = Dropped(seq, p)
  <2>1. Len(seq) \in 0 .. Len(seq) /\ ~(Len(seq) < p)
    BY <1>1
  <2>2. e[Len(seq)] = Upto(Len(seq))
    BY <2>1
  <2> QED
    BY <2>1, <2>2 DEF Dropped
<1> HIDE DEF e
<1>6. StagesOf(e, seq, S)
  BY <1>2, <1>4 DEF StagesOf
<1> QED
  BY <1>5, <1>6, FilterIs

\* Every element that is kept comes from a place of its own.
PlacesOf(m, out, seq, S) ==
    /\ m \in [1 .. Len(out) -> 1 .. Len(seq)]
    /\ \A i, j \in DOMAIN m : m[i] = m[j] => i = j
    /\ \A i \in DOMAIN m : out[i] = seq[m[i]] /\ seq[m[i]] \in S
    /\ \A k \in 1 .. Len(seq) : seq[k] \in S => \E i \in DOMAIN m : m[i] = k

\* A filter gives the elements that are kept, each from a place of its own.
LEMMA FilterPlaces ==
    ASSUME NEW R, NEW seq \in Seq(R), NEW S
    PROVE  Filtered(seq, S) \in Seq(R) /\ \E m : PlacesOf(m, Filtered(seq, S), seq, S)
<1> DEFINE n == Len(seq)
<1>0. PICK c \in [0 .. Len(seq) -> Seq(R)] :
        StagesOf(c, seq, S) /\ Filtered(seq, S) = c[Len(seq)]
  BY FilterStages
<1>1. /\ c \in [0 .. n -> Seq(R)] /\ c[0] = <<>> /\ Filtered(seq, S) = c[n]
      /\ \A k \in 1 .. n : c[k] = IF seq[k] \in S THEN Append(c[k - 1], seq[k]) ELSE c[k - 1]
  BY <1>0 DEF StagesOf
<1> DEFINE Placed(k, m) ==
             /\ m \in [1 .. Len(c[k]) -> 1 .. k]
             /\ \A i, j \in DOMAIN m : m[i] = m[j] => i = j
             /\ \A i \in DOMAIN m : c[k][i] = seq[m[i]] /\ seq[m[i]] \in S
             /\ \A j \in 1 .. k : seq[j] \in S => \E i \in DOMAIN m : m[i] = j
           P == {k \in 0 .. n : \E m : Placed(k, m)}
<1>2. n \in Nat
  OBVIOUS
<1>3. 0 \in P
  <2>1. Placed(0, [i \in {} |-> 0])
    BY <1>1
  <2> HIDE DEF Placed
  <2> QED
    BY <1>2, <2>1
<1>4. ASSUME NEW k \in 1 .. n, k - 1 \in P PROVE k \in P
  <2>1. PICK m : Placed(k - 1, m)
    BY <1>4
  <2>2. c[k - 1] \in Seq(R) /\ Len(c[k - 1]) \in Nat /\ seq[k] \in R /\ k \in 0 .. n
    <3>1. k - 1 \in 0 .. n /\ k \in 0 .. n /\ k \in 1 .. n
      BY <1>2
    <3>2. c[k - 1] \in Seq(R)
      BY <1>1, <3>1
    <3> QED
      BY <3>1, <3>2
  <2>3. CASE seq[k] \notin S
    <3>1. c[k] = c[k - 1]
      BY <1>1, <2>3
    <3>2. Placed(k, m)
      BY <1>2, <2>1, <2>2, <2>3, <3>1
    <3> HIDE DEF Placed
    <3> QED
      BY <2>2, <3>2
  <2>4. CASE seq[k] \in S
    <3> DEFINE l == Len(c[k - 1]) + 1
               new == [i \in 1 .. l |-> IF i = l THEN k ELSE m[i]]
    <3>1. c[k] = Append(c[k - 1], seq[k])
      BY <1>1, <2>4
    <3>2. Len(c[k]) = l /\ c[k][l] = seq[k] /\ \A i \in 1 .. (l - 1) : c[k][i] = c[k - 1][i]
      BY <2>2, <3>1
    <3>3. DOMAIN m = 1 .. (l - 1) /\ \A i \in 1 .. (l - 1) : m[i] \in 1 .. (k - 1)
      BY <2>1, <2>2
    <3>4. DOMAIN new = 1 .. l /\ new[l] = k /\ \A i \in 1 .. (l - 1) : new[i] = m[i]
      BY <2>2
    <3>5. new \in [1 .. Len(c[k]) -> 1 .. k]
      <4>1. \A i \in 1 .. l : new[i] \in 1 .. k
        BY <2>2, <3>3, <3>4
      <4>2. new = [i \in 1 .. l |-> new[i]]
        OBVIOUS
      <4> HIDE DEF new
      <4> QED
        BY <3>2, <3>4, <4>1, <4>2
    <3> HIDE DEF new
    <3>6. \A i, j \in DOMAIN new : new[i] = new[j] => i = j
      <4> SUFFICES ASSUME NEW i \in 1 .. l, NEW j \in 1 .. l, new[i] = new[j] PROVE i = j
        BY <3>4
      <4>1. CASE i = l \/ j = l
        BY <2>2, <3>3, <3>4, <4>1
      <4>2. CASE i # l /\ j # l
        <5>. l \in Nat
          BY <2>2
        <5> HIDE DEF l
        <5>0. i \in 1 .. (l - 1)
          BY <4>2
        <5>1. j \in 1 .. (l - 1)
          BY <4>2
        <5>2. new[i] = m[i] /\ new[j] = m[j] /\ i \in DOMAIN m /\ j \in DOMAIN m
          BY <3>3, <3>4, <5>0, <5>1
        <5> QED
          BY <2>1, <5>2
      <4> QED
        BY <4>1, <4>2
    <3>7. \A i \in DOMAIN new : c[k][i] = seq[new[i]] /\ seq[new[i]] \in S
      <4> SUFFICES ASSUME NEW i \in 1 .. l PROVE c[k][i] = seq[new[i]] /\ seq[new[i]] \in S
        BY <3>4
      <4>1. CASE i = l
        BY <2>4, <3>2, <3>4, <4>1
      <4>2. CASE i # l
        <5>1. i \in 1 .. (l - 1)
          BY <2>2, <4>2
        <5> QED
          BY <2>1, <3>2, <3>3, <3>4, <5>1
      <4> QED
        BY <4>1, <4>2
    <3>8. \A j \in 1 .. k : seq[j] \in S => \E i \in DOMAIN new : new[i] = j
      <4> SUFFICES ASSUME NEW j \in 1 .. k, seq[j] \in S PROVE \E i \in 1 .. l : new[i] = j
        BY <3>4
      <4>1. CASE j = k
        <5>1. l \in 1 .. l
          BY <2>2
        <5> QED
          BY <3>4, <4>1, <5>1
      <4>2. CASE j # k
        <5>1. j \in 1 .. (k - 1)
          BY <1>2, <4>2
        <5>2. PICK i \in 1 .. (l - 1) : m[i] = j
          BY <2>1, <3>3, <5>1
        <5>3. i \in 1 .. l
          BY <2>2
        <5> QED
          BY <3>4, <5>2, <5>3
      <4> QED
        BY <4>1, <4>2
    <3>9. Placed(k, new)
      BY <3>5, <3>6, <3>7, <3>8
    <3> HIDE DEF Placed
    <3> QED
      BY <2>2, <3>9
  <2> QED
    BY <2>3, <2>4
<1> HIDE DEF P
<1>5. \A k \in 0 .. n : k \in P
  BY <1>2, <1>3, <1>4, UpTo
<1>6. n \in 0 .. n
  BY <1>2
<1>7. PICK m : Placed(n, m)
  BY <1>5, <1>6 DEF P
<1>8. c[n] \in Seq(R) /\ Filtered(seq, S) = c[n]
  BY <1>1, <1>6
<1>9. PlacesOf(m, c[n], seq, S)
  BY <1>7 DEF PlacesOf
<1> HIDE DEF Placed
<1> QED
  BY <1>8, <1>9

\* What is kept is what there was of S.
LEMMA FilterSet ==
    ASSUME NEW R, NEW seq \in Seq(R), NEW S
    PROVE  /\ Filtered(seq, S) \in Seq(R)
           /\ ToSet(Filtered(seq, S)) = ToSet(seq) \cap S
           /\ IsInjective(seq) => IsInjective(Filtered(seq, S))
<1> DEFINE F == Filtered(seq, S)
<1>1. F \in Seq(R)
  BY FilterPlaces
<1>2. PICK m : PlacesOf(m, F, seq, S)
  BY FilterPlaces
<1> HIDE DEF F
<1>3. DOMAIN F = DOMAIN m /\ DOMAIN seq = 1 .. Len(seq) /\ \A i \in DOMAIN m : m[i] \in DOMAIN seq
  BY <1>1, <1>2 DEF PlacesOf
<1>4. ToSet(F) = ToSet(seq) \cap S
  BY <1>2, <1>3 DEF ToSet, PlacesOf
<1>5. IsInjective(seq) => IsInjective(F)
  BY <1>2, <1>3 DEF IsInjective, PlacesOf
<1> QED
  BY <1>1, <1>4, <1>5 DEF F
=============================================================================
