--------------------------- MODULE ServiceAnswersProofs ---------------------
(***************************************************************************)
(* Proofs that what TLC checks of the answers of the service on small      *)
(* inputs holds for inputs of every size.                                  *)
(*                                                                         *)
(* An answer is computed in one step, so that its property is a fact about *)
(* the operators of the model: sums over sets, sorted sets, the repeated   *)
(* steps of a loop.  The first sections are about such operators; there    *)
(* follows one for each component and, for each action, the lemma that its *)
(* answer is right.                                                        *)
(***************************************************************************)
EXTENDS ServiceAnswers, FiniteSetTheorems, WellFoundedInduction, TLAPS

-----------------------------------------------------------------------------
(* Induction and folds. *)

\* Induction over the numbers, with a set in the place of an operator.
LEMMA NatSetInduction ==
    ASSUME NEW P, 0 \in P, \A n \in Nat : n \in P => n + 1 \in P
    PROVE  \A n \in Nat : n \in P
<1> DEFINE Q == Nat \ P
<1> SUFFICES ASSUME Q # {} PROVE FALSE
    OBVIOUS
<1>1. PICK n \in Q : \A k \in Q : ~ <<k, n>> \in OpToRel(<, Nat)
    BY NatLessThanWellFounded, WFMin, Q \subseteq Nat
<1>2. n # 0
    OBVIOUS
<1>3. n - 1 \in Nat /\ n - 1 < n
    BY <1>2
<1>4. n - 1 \notin Q
    BY <1>1, <1>3 DEF OpToRel
<1> QED
    BY <1>3, <1>4

\* A set of finite sets that has the empty one and goes on to have sets with one
\* element more has them all.
LEMMA SubsetInduction ==
    ASSUME NEW S, IsFiniteSet(S), NEW P, {} \in P,
           \A T \in SUBSET S : \A x \in S \ T : T \in P => T \cup {x} \in P
    PROVE  S \in P
<1> DEFINE Q == {n \in Nat : \A T \in SUBSET S : Cardinality(T) = n => T \in P}
<1>f. \A T \in SUBSET S : IsFiniteSet(T) /\ Cardinality(T) \in Nat
    BY FS_Subset, FS_CardinalityType
<1>1. 0 \in Q
    BY <1>f, FS_EmptySet
<1>2. ASSUME NEW n \in Nat, n \in Q PROVE n + 1 \in Q
  <2> SUFFICES ASSUME NEW T \in SUBSET S, Cardinality(T) = n + 1 PROVE T \in P
    OBVIOUS
  <2>1. PICK x \in T : TRUE
    BY <1>f, FS_EmptySet
  <2>2. T \ {x} \in SUBSET S /\ Cardinality(T \ {x}) = n
    <3>1. IsFiniteSet(T)
      BY <1>f
    <3>2. Cardinality(T \ {x}) = Cardinality(T) - 1
      BY <3>1, <2>1, FS_RemoveElement
    <3> QED
      BY <3>2
  <2>3. T \ {x} \in P
    BY <1>2, <2>2
  <2>4. (T \ {x}) \cup {x} = T
    BY <2>1
  <2> QED
    BY <2>2, <2>3, <2>4
<1>3. \A n \in Nat : n \in Q
  <2> HIDE DEF Q
  <2> QED BY <1>1, <1>2, NatSetInduction
<1> QED
    BY <1>3, <1>f

-----------------------------------------------------------------------------
(* Folds.  An operation is a function on pairs, so that what holds of sums and *)
(* of products is said once.                                                   *)

\* Folds take the elements of a set in the order in which CHOOSE picks them.
Pick(T) == CHOOSE x \in T : TRUE
IsFold(iter, op, base, f, S) ==
    iter = [T \in SUBSET S |->
                IF T = {} THEN base ELSE op[<<f[Pick(T)], iter[T \ {Pick(T)}]>>]]

\* What a fold takes first of a set is in it, and leaves a smaller set.
LEMMA PickIsFirst ==
    ASSUME NEW S, IsFiniteSet(S), NEW T \in SUBSET S, T # {}
    PROVE  /\ Pick(T) \in S /\ Pick(T) \in T /\ T \ {Pick(T)} \in SUBSET S
           /\ Cardinality(T \ {Pick(T)}) = Cardinality(T) - 1
           /\ Cardinality(T) # 0 /\ Cardinality(T) \in Nat
<1>1. Pick(T) \in T
  BY DEF Pick
<1>2. IsFiniteSet(T) /\ Cardinality(T) \in Nat
  BY FS_Subset, FS_CardinalityType
<1>3. Cardinality(T \ {Pick(T)}) = Cardinality(T) - 1
  BY <1>1, <1>2, FS_RemoveElement
<1>4. Cardinality(T) # 0
  BY <1>2, FS_EmptySet
<1> QED
  BY <1>1, <1>2, <1>3, <1>4

\* There is a fold of every finite set.
LEMMA FoldsExist ==
    ASSUME NEW S, IsFiniteSet(S), NEW V, NEW op, \A x, y \in V : op[<<x, y>>] \in V,
           NEW base \in V, NEW f, \A x \in S : f[x] \in V
    PROVE  \E g \in [SUBSET S -> V] : IsFold(g, op, base, f, S)
<1> DEFINE Small(n) == {T \in SUBSET S : Cardinality(T) <= n}
           Upto(n) == {g \in [Small(n) -> V] : \A T \in Small(n) :
                        g[T] = IF T = {} THEN base ELSE op[<<f[Pick(T)], g[T \ {Pick(T)}]>>]}
           Q == {n \in Nat : Upto(n) # {}}
<1>f. \A T \in SUBSET S : IsFiniteSet(T) /\ Cardinality(T) \in Nat
  BY FS_Subset, FS_CardinalityType
<1>1. 0 \in Q
  <2>1. Small(0) = {{}}
    <3>1. {} \in Small(0)
      BY FS_EmptySet
    <3>2. \A T \in Small(0) : T = {}
      BY <1>f, FS_EmptySet
    <3> QED
      BY <3>1, <3>2
  <2>2. [T \in Small(0) |-> base] \in Upto(0)
    BY <2>1
  <2> QED
    BY <2>2
<1>2. ASSUME NEW n \in Nat, n \in Q PROVE n + 1 \in Q
  <2>1. PICK g \in Upto(n) : TRUE
    BY <1>2
  <2> DEFINE Next1(T) == IF T = {} THEN base ELSE op[<<f[Pick(T)], g[T \ {Pick(T)}]>>]
             h == [T \in Small(n + 1) |-> Next1(T)]
  <2>2. ASSUME NEW T \in Small(n + 1), T # {}
        PROVE  T \ {Pick(T)} \in Small(n) /\ Pick(T) \in S
    <3>1. Cardinality(T) \in Nat /\ Cardinality(T) <= n + 1
      BY <1>f
    <3> QED
      BY <2>2, <3>1, PickIsFirst
  <2>3. h \in [Small(n + 1) -> V]
    <3>1. ASSUME NEW T \in Small(n + 1) PROVE Next1(T) \in V
      BY <2>1, <2>2
    <3> QED
      BY <3>1
  <2>4. \A T \in Small(n) : T \in Small(n + 1) /\ h[T] = g[T]
    <3>1. ASSUME NEW T \in Small(n) PROVE T \in Small(n + 1)
      BY <1>f
    <3> QED
      BY <3>1, <2>1
  <2>5. ASSUME NEW T \in Small(n + 1), T # {}
        PROVE  h[T] = op[<<f[Pick(T)], h[T \ {Pick(T)}]>>]
    BY <2>2, <2>4, <2>5
  <2>6. {} \in Small(n + 1) => h[{}] = base
    OBVIOUS
  <2>7. h \in Upto(n + 1)
    <3>1. \A T \in Small(n + 1) :
             h[T] = IF T = {} THEN base ELSE op[<<f[Pick(T)], h[T \ {Pick(T)}]>>]
      <4> HIDE DEF h
      <4> QED
        BY <2>5, <2>6
    <3> HIDE DEF h, Small
    <3> QED
      BY <2>3, <3>1
  <2>8. Upto(n + 1) # {}
    <3> HIDE DEF h, Upto
    <3> QED
      BY <2>7
  <2> HIDE DEF Upto
  <2> QED
    BY <2>8
<1>3. \A n \in Nat : n \in Q
  <2> HIDE DEF Q
  <2> QED
    BY <1>1, <1>2, NatSetInduction
<1>4. PICK g \in Upto(Cardinality(S)) : TRUE
  BY <1>3, <1>f
<1>5. Small(Cardinality(S)) = SUBSET S
  BY FS_Subset
<1>6. g \in [SUBSET S -> V] /\ IsFold(g, op, base, f, S)
  BY <1>4, <1>5 DEF IsFold
<1> QED
  BY <1>6

\* The parts of a fold depend on what is folded, and not on the rest.
LEMMA FoldIsLocal ==
    ASSUME NEW S, IsFiniteSet(S), NEW R \in SUBSET S, NEW op, NEW base,
           NEW f, NEW g, \A x \in R : g[x] = f[x],
           NEW s, IsFold(s, op, base, f, S), NEW r, IsFold(r, op, base, g, R)
    PROVE  \A T \in SUBSET R : s[T] = r[T]
<1> DEFINE Q == {n \in Nat : \A T \in SUBSET R : Cardinality(T) = n => s[T] = r[T]}
<1>f. IsFiniteSet(R) /\ \A T \in SUBSET R : IsFiniteSet(T) /\ Cardinality(T) \in Nat
  BY FS_Subset, FS_CardinalityType
<1>1. 0 \in Q
  <2>1. ASSUME NEW T \in SUBSET R, Cardinality(T) = 0 PROVE T = {}
    BY <1>f, <2>1, FS_EmptySet
  <2>2. s[{}] = base /\ r[{}] = base
    BY DEF IsFold
  <2> QED
    BY <2>1, <2>2
<1>2. ASSUME NEW n \in Nat, n \in Q PROVE n + 1 \in Q
  <2> SUFFICES ASSUME NEW T \in SUBSET R, Cardinality(T) = n + 1 PROVE s[T] = r[T]
    OBVIOUS
  <2>1. T # {}
    <3>1. Cardinality({}) = 0 /\ n + 1 # 0
      BY FS_EmptySet
    <3> QED
      BY <3>1
  <2>2. /\ Pick(T) \in T /\ T \ {Pick(T)} \in SUBSET R /\ Cardinality(T \ {Pick(T)}) = n
    BY <1>f, <2>1, PickIsFirst
  <2>3. s[T \ {Pick(T)}] = r[T \ {Pick(T)}]
    BY <1>2, <2>2
  <2>4. s[T] = op[<<f[Pick(T)], s[T \ {Pick(T)}]>>]
    BY <2>1 DEF IsFold
  <2>5. r[T] = op[<<g[Pick(T)], r[T \ {Pick(T)}]>>]
    BY <2>1 DEF IsFold
  <2> QED
    BY <2>2, <2>3, <2>4, <2>5
<1>3. \A n \in Nat : n \in Q
  <2> HIDE DEF Q
  <2> QED
    BY <1>1, <1>2, NatSetInduction
<1> QED
  BY <1>3, <1>f

\* An operation for which the order does not matter.
Commutes(op, V) == \A x, y, z \in V : op[<<x, op[<<y, z>>]>>] = op[<<y, op[<<x, z>>]>>]

\* A fold whose operation does not mind the order of its operands.
AnyOrder(s, op, base, f, S, V) ==
    /\ s \in [SUBSET S -> V] /\ IsFold(s, op, base, f, S)
    /\ Commutes(op, V) /\ \A x \in S : f[x] \in V

\* Where the order does not matter, any element may be the first one.
LEMMA FoldFirst ==
    ASSUME NEW S, IsFiniteSet(S), NEW V, NEW op, NEW base, NEW f, NEW s,
           AnyOrder(s, op, base, f, S, V), NEW x \in S
    PROVE  s[S] = op[<<f[x], s[S \ {x}]>>]
<1> DEFINE Q == {n \in Nat : \A T \in SUBSET S : \A y \in T :
                    Cardinality(T) = n => s[T] = op[<<f[y], s[T \ {y}]>>]}
<1>0. /\ s \in [SUBSET S -> V] /\ IsFold(s, op, base, f, S)
      /\ Commutes(op, V) /\ \A y \in S : f[y] \in V
  BY DEF AnyOrder
<1>f. \A T \in SUBSET S : IsFiniteSet(T) /\ Cardinality(T) \in Nat
  BY FS_Subset, FS_CardinalityType
<1>1. 0 \in Q
  <2>1. ASSUME NEW T \in SUBSET S, Cardinality(T) = 0 PROVE T = {}
    BY <1>f, <2>1, FS_EmptySet
  <2> QED
    BY <2>1
<1>2. ASSUME NEW n \in Nat, n \in Q PROVE n + 1 \in Q
  <2> SUFFICES ASSUME NEW T \in SUBSET S, NEW y \in T, Cardinality(T) = n + 1
               PROVE  s[T] = op[<<f[y], s[T \ {y}]>>]
    OBVIOUS
  <2> DEFINE c == Pick(T)
  <2>1. c \in T
    BY DEF Pick
  <2>2. s[T] = op[<<f[c], s[T \ {c}]>>]
    BY <1>0, <2>1 DEF IsFold
  <2>3. CASE y = c
    BY <2>2, <2>3
  <2>4. CASE y # c
    <3>1. IsFiniteSet(T)
      BY <1>f
    <3>2. Cardinality(T \ {c}) = n /\ Cardinality(T \ {y}) = n
      <4>1. Cardinality(T \ {c}) = Cardinality(T) - 1
        BY <2>1, <3>1, FS_RemoveElement
      <4>2. Cardinality(T \ {y}) = Cardinality(T) - 1
        BY <3>1, FS_RemoveElement
      <4> QED
        BY <4>1, <4>2
    <3>3. y \in T \ {c} /\ c \in T \ {y}
      BY <2>1, <2>4
    <3> HIDE DEF c
    <3>4. s[T \ {c}] = op[<<f[y], s[(T \ {c}) \ {y}]>>]
      BY <1>2, <3>2, <3>3
    <3>5. s[T \ {y}] = op[<<f[c], s[(T \ {y}) \ {c}]>>]
      BY <1>2, <3>2, <3>3
    <3>6. (T \ {c}) \ {y} = (T \ {y}) \ {c}
      OBVIOUS
    <3> DEFINE z == s[(T \ {c}) \ {y}]
    <3>7. z \in V /\ f[c] \in V /\ f[y] \in V
      BY <1>0, <2>1
    <3> HIDE DEF z
    <3>8. op[<<f[c], op[<<f[y], z>>]>>] = op[<<f[y], op[<<f[c], z>>]>>]
      BY <1>0, <3>7 DEF Commutes
    <3>9. s[T \ {c}] = op[<<f[y], z>>] /\ s[T \ {y}] = op[<<f[c], z>>]
      BY <3>4, <3>5, <3>6 DEF z
    <3> QED
      BY <2>2, <3>8, <3>9
  <2> QED
    BY <2>3, <2>4
<1>3. \A n \in Nat : n \in Q
  <2> HIDE DEF Q
  <2> QED
    BY <1>1, <1>2, NatSetInduction
<1>4. S \in SUBSET S /\ Cardinality(S) \in Q
  BY <1>3, <1>f
<1> QED
  BY <1>4

-----------------------------------------------------------------------------
(* Sums. *)

\* Addition on pairs, and the fold that SumFunctionOnSet stands for.
Plus == [pair \in Int \X Int |-> pair[1] + pair[2]]
SumFold(f, S) ==
    CHOOSE iter : iter = [T \in SUBSET S |->
                            IF T = {} THEN 0 ELSE f[Pick(T)] + iter[T \ {Pick(T)}]]

\* Addition may be done in any order.
LEMMA PlusAdds ==
    /\ \A x, y \in Int : Plus[<<x, y>>] = x + y
    /\ \A x, y \in Int : Plus[<<x, y>>] \in Int
    /\ Commutes(Plus, Int)
<1>1. \A x, y \in Int : Plus[<<x, y>>] = x + y
  BY DEF Plus
<1>2. \A x, y \in Int : x + y \in Int
  OBVIOUS
<1>3. \A x, y \in Int : Plus[<<x, y>>] \in Int
  <2> SUFFICES ASSUME NEW x \in Int, NEW y \in Int PROVE Plus[<<x, y>>] \in Int
    OBVIOUS
  <2>1. Plus[<<x, y>>] = x + y
    BY <1>1
  <2> QED
    BY <2>1
<1>4. ASSUME NEW x \in Int, NEW y \in Int, NEW z \in Int
      PROVE  Plus[<<x, Plus[<<y, z>>]>>] = x + (y + z)
  <2>1. Plus[<<y, z>>] = y + z /\ y + z \in Int
    BY <1>1
  <2> QED
    BY <1>1, <2>1
<1>5. ASSUME NEW x \in Int, NEW y \in Int, NEW z \in Int
      PROVE  Plus[<<x, Plus[<<y, z>>]>>] = Plus[<<y, Plus[<<x, z>>]>>]
  <2>1. x + (y + z) = y + (x + z)
    OBVIOUS
  <2> QED
    BY <1>4, <2>1
<1> QED
  BY <1>1, <1>3, <1>5 DEF Commutes

\* A sum is a fold of addition.
LEMMA SumIsFold ==
    ASSUME NEW S, IsFiniteSet(S), NEW f, \A x \in S : f[x] \in Int
    PROVE  /\ SumFunctionOnSet(f, S) = SumFold(f, S)[S]
           /\ SumFold(f, S) \in [SUBSET S -> Int] /\ IsFold(SumFold(f, S), Plus, 0, f, S)
<1> DEFINE Eq(iter) == iter = [T \in SUBSET S |->
                                IF T = {} THEN 0 ELSE f[Pick(T)] + iter[T \ {Pick(T)}]]
<1>1. SumFunctionOnSet(f, S) = SumFold(f, S)[S]
  BY DEF SumFunctionOnSet, FoldFunctionOnSet, MapThenFoldSet, SumFold, Pick
<1>2. \A x, y \in Int : Plus[<<x, y>>] = x + y
  BY PlusAdds
<1>3. PICK g \in [SUBSET S -> Int] : IsFold(g, Plus, 0, f, S)
  <2>1. (\A x, y \in Int : Plus[<<x, y>>] \in Int) /\ 0 \in Int
    BY PlusAdds
  <2> QED
    BY <2>1, FoldsExist, Zenon
<1>4. Eq(g)
  <2>1. ASSUME NEW T \in SUBSET S
        PROVE  g[T] = IF T = {} THEN 0 ELSE f[Pick(T)] + g[T \ {Pick(T)}]
    <3>1. g[T] = IF T = {} THEN 0 ELSE Plus[<<f[Pick(T)], g[T \ {Pick(T)}]>>]
      BY <1>3 DEF IsFold
    <3>2. T # {} => f[Pick(T)] \in Int /\ g[T \ {Pick(T)}] \in Int
      BY PickIsFirst
    <3> QED
      BY <1>2, <3>1, <3>2
  <2> QED
    BY <2>1
<1> DEFINE s == SumFold(f, S)
<1>5. Eq(s)
  BY <1>4 DEF SumFold
<1>6. s = g
  <2> DEFINE V == {f[x] : x \in S} \cup {s[T] : T \in SUBSET S} \cup {g[T] : T \in SUBSET S}
             op == [pair \in V \X V |-> pair[1] + pair[2]]
  <2>1. ASSUME NEW h, Eq(h), \A T \in SUBSET S : h[T] \in V PROVE IsFold(h, op, 0, f, S)
    <3>1. ASSUME NEW T \in SUBSET S, T # {}
          PROVE  f[Pick(T)] + h[T \ {Pick(T)}] = op[<<f[Pick(T)], h[T \ {Pick(T)}]>>]
      <4>1. f[Pick(T)] \in V /\ h[T \ {Pick(T)}] \in V
        BY <2>1, <3>1, PickIsFirst
      <4> HIDE DEF V
      <4> QED
        BY <4>1
    <3>2. /\ h = [T \in SUBSET S |-> h[T]]
          /\ \A T \in SUBSET S : h[T] = IF T = {} THEN 0 ELSE f[Pick(T)] + h[T \ {Pick(T)}]
      BY <2>1
    <3> HIDE DEF op
    <3>3. \A T \in SUBSET S :
            h[T] = IF T = {} THEN 0 ELSE op[<<f[Pick(T)], h[T \ {Pick(T)}]>>]
      BY <3>1, <3>2
    <3> QED
      BY <3>2, <3>3 DEF IsFold
  <2>2. IsFold(s, op, 0, f, S) /\ IsFold(g, op, 0, f, S)
    <3>1. \A T \in SUBSET S : s[T] \in V /\ g[T] \in V
      OBVIOUS
    <3> HIDE DEF V, op, s, Eq
    <3> QED
      BY <1>4, <1>5, <2>1, <3>1
  <2> HIDE DEF op, s
  <2>3. \A T \in SUBSET S : s[T] = g[T]
    BY <2>2, FoldIsLocal
  <2>4. s = [T \in SUBSET S |-> s[T]] /\ g = [T \in SUBSET S |-> g[T]]
    BY <1>5
  <2> QED
    BY <2>3, <2>4
<1> QED
  BY <1>1, <1>3, <1>6

\* The parts of a sum depend on what is summed up, and not on the rest.
LEMMA SumIsLocal ==
    ASSUME NEW S, IsFiniteSet(S), NEW f, \A x \in S : f[x] \in Int,
           NEW R \in SUBSET S, NEW g, \A x \in R : g[x] = f[x]
    PROVE  SumFold(f, S)[R] = SumFunctionOnSet(g, R)
<1>1. IsFiniteSet(R) /\ \A x \in R : g[x] \in Int
  BY FS_Subset
<1>2. IsFold(SumFold(f, S), Plus, 0, f, S)
  BY SumIsFold
<1>3. IsFold(SumFold(g, R), Plus, 0, g, R) /\ SumFunctionOnSet(g, R) = SumFold(g, R)[R]
  BY <1>1, SumIsFold
<1> DEFINE s == SumFold(f, S)
           r == SumFold(g, R)
<1> HIDE DEF s, r
<1>5. IsFold(s, Plus, 0, f, S) /\ IsFold(r, Plus, 0, g, R)
  BY <1>2, <1>3 DEF s, r
<1>4. \A T \in SUBSET R : s[T] = r[T]
  BY <1>5, FoldIsLocal
<1> QED
  BY <1>3, <1>4 DEF s, r

\* The empty sum is 0.
LEMMA SumEmpty == ASSUME NEW f PROVE SumFunctionOnSet(f, {}) = 0
<1>1. IsFiniteSet({}) /\ \A x \in {} : f[x] \in Int
  BY FS_EmptySet
<1>2. IsFold(SumFold(f, {}), Plus, 0, f, {}) /\ SumFunctionOnSet(f, {}) = SumFold(f, {})[{}]
  BY <1>1, SumIsFold, Zenon
<1> QED
  BY <1>2 DEF IsFold

\* A sum of numbers is a number.
LEMMA SumType ==
    ASSUME NEW S, IsFiniteSet(S), NEW f, \A x \in S : f[x] \in Int
    PROVE  SumFunctionOnSet(f, S) \in Int
<1>1. SumFunctionOnSet(f, S) = SumFold(f, S)[S] /\ SumFold(f, S) \in [SUBSET S -> Int]
  BY SumIsFold
<1>2. S \in SUBSET S
  OBVIOUS
<1> QED
  BY <1>1, <1>2

\* Any element may be the first one.
LEMMA SumFirst ==
    ASSUME NEW S, IsFiniteSet(S), NEW f, \A x \in S : f[x] \in Int, NEW x \in S
    PROVE  SumFunctionOnSet(f, S) = f[x] + SumFunctionOnSet(f, S \ {x})
<1> DEFINE s == SumFold(f, S)
<1>1. s \in [SUBSET S -> Int] /\ IsFold(s, Plus, 0, f, S) /\ SumFunctionOnSet(f, S) = s[S]
  BY SumIsFold
<1>2. 0 \in Int /\ Commutes(Plus, Int)
  BY PlusAdds
<1>3. SumFunctionOnSet(f, S \ {x}) = s[S \ {x}]
  BY SumIsLocal
<1> HIDE DEF s
<1>7. AnyOrder(s, Plus, 0, f, S, Int)
  BY <1>1, <1>2 DEF AnyOrder
<1>4. s[S] = Plus[<<f[x], s[S \ {x}]>>]
  BY <1>7, FoldFirst
<1>5. f[x] \in Int /\ s[S \ {x}] \in Int
  BY <1>1
<1>6. Plus[<<f[x], s[S \ {x}]>>] = f[x] + s[S \ {x}]
  BY <1>5, PlusAdds
<1> QED
  BY <1>1, <1>3, <1>4, <1>6

-----------------------------------------------------------------------------
(* Products. *)

\* Multiplication on pairs, and the fold that ProductFunctionOnSet stands for.
Mul == [pair \in Int \X Int |-> pair[1] * pair[2]]
ProductFold(f, S) ==
    CHOOSE iter : iter = [T \in SUBSET S |->
                            IF T = {} THEN 1 ELSE f[Pick(T)] * iter[T \ {Pick(T)}]]

\* Multiplication may be done in any order.
LEMMA PairsMultiply ==
    /\ \A x, y \in Int : Mul[<<x, y>>] = x * y
    /\ \A x, y \in Int : Mul[<<x, y>>] \in Int
    /\ Commutes(Mul, Int)
<1>1. \A x, y \in Int : Mul[<<x, y>>] = x * y
  BY DEF Mul
<1>2. \A x, y \in Int : x * y \in Int
  OBVIOUS
<1>3. \A x, y \in Int : Mul[<<x, y>>] \in Int
  <2> SUFFICES ASSUME NEW x \in Int, NEW y \in Int PROVE Mul[<<x, y>>] \in Int
    OBVIOUS
  <2>1. Mul[<<x, y>>] = x * y
    BY <1>1
  <2> QED
    BY <2>1
<1>4. ASSUME NEW x \in Int, NEW y \in Int, NEW z \in Int
      PROVE  Mul[<<x, Mul[<<y, z>>]>>] = x * (y * z)
  <2>1. Mul[<<y, z>>] = y * z /\ y * z \in Int
    BY <1>1
  <2> QED
    BY <1>1, <2>1
<1>5. ASSUME NEW x \in Int, NEW y \in Int, NEW z \in Int
      PROVE  Mul[<<x, Mul[<<y, z>>]>>] = Mul[<<y, Mul[<<x, z>>]>>]
  <2>1. x * (y * z) = y * (x * z)
    OBVIOUS
  <2> QED
    BY <1>4, <2>1
<1> QED
  BY <1>1, <1>3, <1>5 DEF Commutes

\* A product is a fold of multiplication.
LEMMA ProductIsFold ==
    ASSUME NEW S, IsFiniteSet(S), NEW f, \A x \in S : f[x] \in Int
    PROVE  /\ ProductFunctionOnSet(f, S) = ProductFold(f, S)[S]
           /\ ProductFold(f, S) \in [SUBSET S -> Int] /\ IsFold(ProductFold(f, S), Mul, 1, f, S)
<1> DEFINE Eq(iter) == iter = [T \in SUBSET S |->
                                IF T = {} THEN 1 ELSE f[Pick(T)] * iter[T \ {Pick(T)}]]
<1>1. ProductFunctionOnSet(f, S) = ProductFold(f, S)[S]
  BY DEF ProductFunctionOnSet, FoldFunctionOnSet, MapThenFoldSet, ProductFold, Pick
<1>2. \A x, y \in Int : Mul[<<x, y>>] = x * y
  BY PairsMultiply
<1>3. PICK g \in [SUBSET S -> Int] : IsFold(g, Mul, 1, f, S)
  <2>1. (\A x, y \in Int : Mul[<<x, y>>] \in Int) /\ 1 \in Int
    BY PairsMultiply
  <2> QED
    BY <2>1, FoldsExist, Zenon
<1>4. Eq(g)
  <2>1. ASSUME NEW T \in SUBSET S
        PROVE  g[T] = IF T = {} THEN 1 ELSE f[Pick(T)] * g[T \ {Pick(T)}]
    <3>1. g[T] = IF T = {} THEN 1 ELSE Mul[<<f[Pick(T)], g[T \ {Pick(T)}]>>]
      BY <1>3 DEF IsFold
    <3>2. T # {} => f[Pick(T)] \in Int /\ g[T \ {Pick(T)}] \in Int
      BY PickIsFirst
    <3> QED
      BY <1>2, <3>1, <3>2
  <2> QED
    BY <2>1
<1> DEFINE s == ProductFold(f, S)
<1>5. Eq(s)
  BY <1>4 DEF ProductFold
<1>6. s = g
  <2> DEFINE V == {f[x] : x \in S} \cup {s[T] : T \in SUBSET S} \cup {g[T] : T \in SUBSET S}
             op == [pair \in V \X V |-> pair[1] * pair[2]]
  <2>1. ASSUME NEW h, Eq(h), \A T \in SUBSET S : h[T] \in V PROVE IsFold(h, op, 1, f, S)
    <3>1. ASSUME NEW T \in SUBSET S, T # {}
          PROVE  f[Pick(T)] * h[T \ {Pick(T)}] = op[<<f[Pick(T)], h[T \ {Pick(T)}]>>]
      <4>1. f[Pick(T)] \in V /\ h[T \ {Pick(T)}] \in V
        BY <2>1, <3>1, PickIsFirst
      <4> HIDE DEF V
      <4> QED
        BY <4>1
    <3>2. /\ h = [T \in SUBSET S |-> h[T]]
          /\ \A T \in SUBSET S : h[T] = IF T = {} THEN 1 ELSE f[Pick(T)] * h[T \ {Pick(T)}]
      BY <2>1
    <3> HIDE DEF op
    <3>3. \A T \in SUBSET S :
            h[T] = IF T = {} THEN 1 ELSE op[<<f[Pick(T)], h[T \ {Pick(T)}]>>]
      BY <3>1, <3>2
    <3> QED
      BY <3>2, <3>3 DEF IsFold
  <2>2. IsFold(s, op, 1, f, S) /\ IsFold(g, op, 1, f, S)
    <3>1. \A T \in SUBSET S : s[T] \in V /\ g[T] \in V
      OBVIOUS
    <3> HIDE DEF V, op, s, Eq
    <3> QED
      BY <1>4, <1>5, <2>1, <3>1
  <2> HIDE DEF op, s
  <2>3. \A T \in SUBSET S : s[T] = g[T]
    BY <2>2, FoldIsLocal
  <2>4. s = [T \in SUBSET S |-> s[T]] /\ g = [T \in SUBSET S |-> g[T]]
    BY <1>5
  <2> QED
    BY <2>3, <2>4
<1> QED
  BY <1>1, <1>3, <1>6

\* The parts of a product depend on what is multiplied, and not on the rest.
LEMMA ProductIsLocal ==
    ASSUME NEW S, IsFiniteSet(S), NEW f, \A x \in S : f[x] \in Int,
           NEW R \in SUBSET S, NEW g, \A x \in R : g[x] = f[x]
    PROVE  ProductFold(f, S)[R] = ProductFunctionOnSet(g, R)
<1>1. IsFiniteSet(R) /\ \A x \in R : g[x] \in Int
  BY FS_Subset
<1>2. IsFold(ProductFold(f, S), Mul, 1, f, S)
  BY ProductIsFold
<1>3. IsFold(ProductFold(g, R), Mul, 1, g, R) /\ ProductFunctionOnSet(g, R) = ProductFold(g, R)[R]
  BY <1>1, ProductIsFold
<1> DEFINE s == ProductFold(f, S)
           r == ProductFold(g, R)
<1> HIDE DEF s, r
<1>5. IsFold(s, Mul, 1, f, S) /\ IsFold(r, Mul, 1, g, R)
  BY <1>2, <1>3 DEF s, r
<1>4. \A T \in SUBSET R : s[T] = r[T]
  BY <1>5, FoldIsLocal
<1> QED
  BY <1>3, <1>4 DEF s, r

\* The empty product is 1.
LEMMA ProductEmpty == ASSUME NEW f PROVE ProductFunctionOnSet(f, {}) = 1
<1>1. IsFiniteSet({}) /\ \A x \in {} : f[x] \in Int
  BY FS_EmptySet
<1>2. IsFold(ProductFold(f, {}), Mul, 1, f, {}) /\ ProductFunctionOnSet(f, {}) = ProductFold(f, {})[{}]
  BY <1>1, ProductIsFold, Zenon
<1> QED
  BY <1>2 DEF IsFold

\* A product of numbers is a number.
LEMMA ProductType ==
    ASSUME NEW S, IsFiniteSet(S), NEW f, \A x \in S : f[x] \in Int
    PROVE  ProductFunctionOnSet(f, S) \in Int
<1>1. ProductFunctionOnSet(f, S) = ProductFold(f, S)[S] /\ ProductFold(f, S) \in [SUBSET S -> Int]
  BY ProductIsFold
<1>2. S \in SUBSET S
  OBVIOUS
<1> QED
  BY <1>1, <1>2

\* Any element may be the first one.
LEMMA ProductFirst ==
    ASSUME NEW S, IsFiniteSet(S), NEW f, \A x \in S : f[x] \in Int, NEW x \in S
    PROVE  ProductFunctionOnSet(f, S) = f[x] * ProductFunctionOnSet(f, S \ {x})
<1> DEFINE s == ProductFold(f, S)
<1>1. s \in [SUBSET S -> Int] /\ IsFold(s, Mul, 1, f, S) /\ ProductFunctionOnSet(f, S) = s[S]
  BY ProductIsFold
<1>2. 1 \in Int /\ Commutes(Mul, Int)
  BY PairsMultiply
<1>3. ProductFunctionOnSet(f, S \ {x}) = s[S \ {x}]
  BY ProductIsLocal
<1> HIDE DEF s
<1>7. AnyOrder(s, Mul, 1, f, S, Int)
  BY <1>1, <1>2 DEF AnyOrder
<1>4. s[S] = Mul[<<f[x], s[S \ {x}]>>]
  BY <1>7, FoldFirst
<1>5. f[x] \in Int /\ s[S \ {x}] \in Int
  BY <1>1
<1>6. Mul[<<f[x], s[S \ {x}]>>] = f[x] * s[S \ {x}]
  BY <1>5, PairsMultiply
<1> QED
  BY <1>1, <1>3, <1>4, <1>6
-----------------------------------------------------------------------------
(* Sizes and sums of parts. *)

\* The image of a finite set is finite, and as large when nothing is confused.
LEMMA ImageSize ==
    ASSUME NEW S, IsFiniteSet(S), NEW f
    PROVE  LET T == {f[x] : x \in S}
           IN  /\ IsFiniteSet(T)
               /\ Cardinality(T) <= Cardinality(S)
               /\ (\A x, y \in S : f[x] = f[y] => x = y) => Cardinality(T) = Cardinality(S)
<1> DEFINE T == {f[x] : x \in S}
           g == [x \in S |-> f[x]]
<1>1. g \in Surjection(S, T)
  BY DEF Surjection
<1>2. IsFiniteSet(T) /\ Cardinality(T) <= Cardinality(S)
      /\ (Cardinality(T) = Cardinality(S) <=> g \in Injection(S, T))
  <2> HIDE DEF T, g
  <2> QED BY <1>1, FS_Surjection
<1>3. (\A x, y \in S : f[x] = f[y] => x = y) => g \in Injection(S, T)
  BY DEF Injection, IsInjective
<1> HIDE DEF T, g
<1>4. (\A x, y \in S : f[x] = f[y] => x = y) => Cardinality(T) = Cardinality(S)
  BY <1>2, <1>3
<1> QED
  BY <1>2, <1>4 DEF T

\* The number of elements of disjoint sets is the sum of their numbers.
LEMMA SizeOfDisjoint ==
    ASSUME NEW S, IsFiniteSet(S), NEW f, \A x \in S : IsFiniteSet(f[x]),
           \A x, y \in S : x # y => f[x] \cap f[y] = {},
           NEW size, \A x \in S : size[x] = Cardinality(f[x])
    PROVE  LET U == UNION {f[x] : x \in S}
           IN  IsFiniteSet(U) /\ Cardinality(U) = SumFunctionOnSet(size, S)
<1> DEFINE U(T) == UNION {f[x] : x \in T}
           P == {T \in SUBSET S : IsFiniteSet(U(T)) /\ Cardinality(U(T)) = SumFunctionOnSet(size, T)}
<1>s. \A x \in S : size[x] \in Int
  BY FS_CardinalityType
<1>1. {} \in P
  <2>1. U({}) = {}
    OBVIOUS
  <2> HIDE DEF U
  <2> QED
    BY <2>1, FS_EmptySet, SumEmpty
<1>2. ASSUME NEW T \in SUBSET S, NEW x \in S \ T, T \in P PROVE T \cup {x} \in P
  <2>1. U(T \cup {x}) = U(T) \cup f[x] /\ U(T) \cap f[x] = {}
    OBVIOUS
  <2> DEFINE V == T \cup {x}
  <2>2. V \ {x} = T /\ IsFiniteSet(V) /\ x \in V /\ V \in SUBSET S
    BY FS_Subset
  <2>3. \A y \in V : size[y] \in Int
    BY <1>s
  <2>4. SumFunctionOnSet(size, V) = size[x] + SumFunctionOnSet(size, V \ {x})
    <3> HIDE DEF V
    <3> QED
      BY <2>2, <2>3, SumFirst
  <2> HIDE DEF U, V
  <2>5. IsFiniteSet(U(T)) /\ Cardinality(U(T)) = SumFunctionOnSet(size, T)
    BY <1>2
  <2>6. IsFiniteSet(f[x]) /\ size[x] = Cardinality(f[x])
    OBVIOUS
  <2>7. Cardinality({}) = 0
    BY FS_EmptySet
  <2>8. /\ IsFiniteSet(U(T) \cup f[x])
        /\ Cardinality(U(T) \cup f[x]) = Cardinality(U(T)) + Cardinality(f[x])
    <3>1. /\ IsFiniteSet(U(T) \cup f[x])
          /\ Cardinality(U(T) \cup f[x])
                = Cardinality(U(T)) + Cardinality(f[x]) - Cardinality(U(T) \cap f[x])
      BY <2>5, <2>6, FS_Union
    <3>2. Cardinality(U(T)) \in Nat /\ Cardinality(f[x]) \in Nat
      BY <2>5, <2>6, FS_CardinalityType
    <3>3. Cardinality(U(T) \cap f[x]) = 0
      BY <2>1, <2>7
    <3> QED
      BY <3>1, <3>2, <3>3
  <2>9. Cardinality(U(T)) \in Nat /\ Cardinality(f[x]) \in Nat
    BY <2>5, <2>6, FS_CardinalityType
  <2>10. SumFunctionOnSet(size, V) = Cardinality(U(T)) + Cardinality(f[x])
    <3>1. SumFunctionOnSet(size, V) = size[x] + SumFunctionOnSet(size, T)
      BY <2>2, <2>4
    <3> QED
      BY <2>5, <2>6, <2>9, <3>1
  <2>11. IsFiniteSet(U(V)) /\ Cardinality(U(V)) = SumFunctionOnSet(size, V)
    BY <2>1, <2>8, <2>10 DEF V
  <2> QED
    BY <2>2, <2>11 DEF V
<1>3. S \in P
  <2> HIDE DEF P
  <2> QED
    BY <1>1, <1>2, SubsetInduction
<1> QED
  BY <1>3

\* A sum is determined by what is summed up.
LEMMA SumOfEquals ==
    ASSUME NEW S, IsFiniteSet(S), NEW f, \A x \in S : f[x] \in Int,
           NEW g, \A x \in S : g[x] = f[x]
    PROVE  SumFunctionOnSet(f, S) = SumFunctionOnSet(g, S)
<1>1. SumFold(f, S)[S] = SumFunctionOnSet(g, S)
  BY SumIsLocal
<1> QED
  BY <1>1, SumIsFold

\* Smaller summands have the smaller sum.
LEMMA SumMonotone ==
    ASSUME NEW S, IsFiniteSet(S), NEW f, NEW g,
           \A x \in S : f[x] \in Int /\ g[x] \in Int /\ f[x] <= g[x]
    PROVE  SumFunctionOnSet(f, S) <= SumFunctionOnSet(g, S)
<1> DEFINE P == {T \in SUBSET S : SumFunctionOnSet(f, T) <= SumFunctionOnSet(g, T)}
<1>1. {} \in P
  BY SumEmpty
<1>2. ASSUME NEW T \in SUBSET S, NEW x \in S \ T, T \in P PROVE T \cup {x} \in P
  <2> DEFINE V == T \cup {x}
  <2>1. V \ {x} = T /\ IsFiniteSet(V) /\ IsFiniteSet(T) /\ x \in V /\ V \in SUBSET S
    BY FS_Subset
  <2> HIDE DEF V
  <2>2. SumFunctionOnSet(f, V) = f[x] + SumFunctionOnSet(f, T)
    BY <2>1, SumFirst
  <2>3. SumFunctionOnSet(g, V) = g[x] + SumFunctionOnSet(g, T)
    BY <2>1, SumFirst
  <2>4. SumFunctionOnSet(f, T) \in Int /\ SumFunctionOnSet(g, T) \in Int
    BY <2>1, SumType
  <2>5. SumFunctionOnSet(f, T) <= SumFunctionOnSet(g, T)
    BY <1>2
  <2>6. SumFunctionOnSet(f, V) <= SumFunctionOnSet(g, V)
    BY <2>2, <2>3, <2>4, <2>5
  <2> QED
    BY <2>1, <2>6 DEF V
<1>3. S \in P
  <2> HIDE DEF P
  <2> QED
    BY <1>1, <1>2, SubsetInduction
<1> QED
  BY <1>3

\* The sum of a constant is a multiple of it.
LEMMA SumOfConstants ==
    ASSUME NEW S, IsFiniteSet(S), NEW m \in Int, NEW f, \A x \in S : f[x] = m
    PROVE  SumFunctionOnSet(f, S) = m * Cardinality(S)
<1> DEFINE P == {T \in SUBSET S : SumFunctionOnSet(f, T) = m * Cardinality(T)}
<1>1. {} \in P
  BY SumEmpty, FS_EmptySet
<1>2. ASSUME NEW T \in SUBSET S, NEW x \in S \ T, T \in P PROVE T \cup {x} \in P
  <2> DEFINE V == T \cup {x}
  <2>1. V \ {x} = T /\ IsFiniteSet(V) /\ IsFiniteSet(T) /\ x \in V /\ V \in SUBSET S
    BY FS_Subset
  <2>2. Cardinality(V) = Cardinality(T) + 1 /\ Cardinality(T) \in Nat
    BY <2>1, FS_AddElement, FS_CardinalityType
  <2> HIDE DEF V
  <2>3. SumFunctionOnSet(f, V) = m + SumFunctionOnSet(f, T)
    BY <2>1, SumFirst
  <2>4. SumFunctionOnSet(f, T) = m * Cardinality(T)
    BY <1>2
  <2>5. SumFunctionOnSet(f, V) = m * Cardinality(V)
    BY <2>2, <2>3, <2>4
  <2> QED
    BY <2>1, <2>5 DEF V
<1>3. S \in P
  <2> HIDE DEF P
  <2> QED
    BY <1>1, <1>2, SubsetInduction
<1> QED
  BY <1>3
-----------------------------------------------------------------------------
(* Sorted sets. *)

\* A relation that puts the elements of a set one after the other.
Orders(less, S) ==
    /\ \A x \in S : <<x, x>> \notin less
    /\ \A x, y \in S : x # y => <<x, y>> \in less \/ <<y, x>> \in less
    /\ \A x, y, z \in S : <<x, y>> \in less /\ <<y, z>> \in less => <<x, z>> \in less

\* A finite set in an order has a first element.
LEMMA FirstExists ==
    ASSUME NEW S, IsFiniteSet(S), S # {}, NEW less, Orders(less, S)
    PROVE  \E x \in S : \A y \in S \ {x} : <<x, y>> \in less
<1> DEFINE First(T, x) == x \in T /\ \A y \in T \ {x} : <<x, y>> \in less
           P == {T \in SUBSET S : T = {} \/ \E x \in T : First(T, x)}
<1>1. {} \in P
  OBVIOUS
<1>2. ASSUME NEW T \in SUBSET S, NEW x \in S \ T, T \in P PROVE T \cup {x} \in P
  <2>0. T \cup {x} \in SUBSET S
    OBVIOUS
  <2>1. CASE T = {}
    <3>1. First(T \cup {x}, x)
      BY <2>1
    <3> HIDE DEF First
    <3> QED
      BY <2>0, <3>1
  <2>2. CASE T # {}
    <3>1. PICK c \in T : First(T, c)
      BY <1>2, <2>2
    <3>2. First(T \cup {x}, c) \/ First(T \cup {x}, x)
      <4>1. CASE <<c, x>> \in less
        BY <3>1, <4>1
      <4>2. CASE <<x, c>> \in less
        <5>1. \A y \in T : <<x, y>> \in less
          BY <3>1, <4>2 DEF Orders
        <5> QED
          BY <5>1
      <4> QED
        BY <4>1, <4>2 DEF Orders
    <3> HIDE DEF First
    <3> QED
      BY <2>0, <3>1, <3>2
  <2> QED
    BY <2>1, <2>2
<1>3. S \in P
  <2> HIDE DEF P
  <2> QED
    BY <1>1, <1>2, SubsetInduction
<1> QED
  BY <1>3

\* What comes before an element.
Below(x, S, less) == {y \in S : <<y, x>> \in less}

\* Where an element stands is where as many are before it.
LEMMA Places ==
    ASSUME NEW S, IsFiniteSet(S), NEW less, Orders(less, S)
    PROVE  /\ \A x \in S : Cardinality(Below(x, S, less)) \in 0 .. Cardinality(S) - 1
           /\ \A x, y \in S : <<x, y>> \in less
                => Cardinality(Below(x, S, less)) < Cardinality(Below(y, S, less))
           /\ \A i \in 0 .. Cardinality(S) - 1 : \E x \in S : Cardinality(Below(x, S, less)) = i
<1> DEFINE rank == [x \in S |-> Cardinality(Below(x, S, less))]
           n == Cardinality(S)
           image == {rank[x] : x \in S}
<1>0. n \in Nat
  BY FS_CardinalityType
<1>1. \A x \in S : IsFiniteSet(Below(x, S, less)) /\ Cardinality(Below(x, S, less)) \in Nat
  BY FS_Subset, FS_CardinalityType DEF Below
<1>2. ASSUME NEW x \in S PROVE Cardinality(Below(x, S, less)) \in 0 .. n - 1
  <2>1. Below(x, S, less) \subseteq S \ {x}
    BY DEF Below, Orders
  <2>2. IsFiniteSet(S \ {x}) /\ Cardinality(S \ {x}) = n - 1
    BY FS_RemoveElement
  <2>3. Cardinality(Below(x, S, less)) <= n - 1
    BY <2>1, <2>2, FS_Subset
  <2> QED
    BY <1>0, <1>1, <2>3
<1>3. ASSUME NEW x \in S, NEW y \in S, <<x, y>> \in less
      PROVE  Cardinality(Below(x, S, less)) < Cardinality(Below(y, S, less))
  <2>1. Below(x, S, less) \cup {x} \subseteq Below(y, S, less) /\ x \notin Below(x, S, less)
    BY <1>3 DEF Below, Orders
  <2>2. Cardinality(Below(x, S, less) \cup {x}) = Cardinality(Below(x, S, less)) + 1
    BY <1>1, <2>1, FS_AddElement
  <2>3. Cardinality(Below(x, S, less) \cup {x}) <= Cardinality(Below(y, S, less))
    BY <1>1, <2>1, FS_Subset
  <2> QED
    BY <1>1, <2>2, <2>3
<1>4. ASSUME NEW x \in S, NEW y \in S, rank[x] = rank[y] PROVE x = y
  <2> SUFFICES ASSUME x # y PROVE FALSE
    OBVIOUS
  <2>1. <<x, y>> \in less \/ <<y, x>> \in less
    BY DEF Orders
  <2>2. Cardinality(Below(x, S, less)) = Cardinality(Below(y, S, less))
    BY <1>4
  <2> QED
    BY <1>1, <1>3, <2>1, <2>2
<1>5. \A x \in S : rank[x] \in 0 .. n - 1
  BY <1>2
<1>6. image \subseteq 0 .. n - 1
  BY <1>5
<1> HIDE DEF rank
<1>7. IsFiniteSet(image) /\ Cardinality(image) = n
  <2>1. \A x, y \in S : rank[x] = rank[y] => x = y
    BY <1>4
  <2> QED
    BY <2>1, ImageSize
<1>8. IsFiniteSet(0 .. n - 1) /\ Cardinality(0 .. n - 1) = n
  <2>1. IsFiniteSet(0 .. n - 1)
    BY <1>0, FS_Interval
  <2>2. Cardinality(0 .. n - 1) = IF 0 > n - 1 THEN 0 ELSE (n - 1) - 0 + 1
    BY <1>0, FS_Interval
  <2> QED
    BY <1>0, <2>1, <2>2
<1> HIDE DEF image, n
<1>9. image = 0 .. n - 1
  BY <1>6, <1>7, <1>8, FS_Subset
<1>10. \A i \in 0 .. n - 1 : \E x \in S : rank[x] = i
  BY <1>9 DEF image
<1> QED
  BY <1>2, <1>3, <1>10 DEF rank, n

\* Sorting lists every element once, and each after those that are less.
Sorted(f, S, less) ==
    /\ f \in [1 .. Cardinality(S) -> S]
    /\ \A x \in S : \E i \in 1 .. Cardinality(S) : f[i] = x
    /\ \A i, j \in 1 .. Cardinality(S) : i < j => <<f[i], f[j]>> \in less
    /\ \A i, j \in 1 .. Cardinality(S) : f[i] = f[j] => i = j

\* InOrder gives the elements of a set in their order, each at one place.
LEMMA InOrderSorts ==
    ASSUME NEW S, IsFiniteSet(S), NEW less, Orders(less, S)
    PROVE  Sorted(InOrder(S, less), S, less)
<1> DEFINE n == Cardinality(S)
           f == InOrder(S, less)
           at(x) == Cardinality(Below(x, S, less))
<1>0. n \in Nat
  BY FS_CardinalityType
<1>1. /\ \A x \in S : at(x) \in 0 .. n - 1
      /\ \A x, y \in S : <<x, y>> \in less => at(x) < at(y)
      /\ \A i \in 0 .. n - 1 : \E x \in S : at(x) = i
  BY Places
<1>2. f = [i \in 1 .. n |-> CHOOSE x \in S : at(x) = i - 1]
  BY DEF InOrder, Below
<1> HIDE DEF f, n, at
<1>3. ASSUME NEW i \in 1 .. n PROVE f[i] \in S /\ at(f[i]) = i - 1
  <2>1. i - 1 \in 0 .. n - 1
    BY <1>0
  <2>2. \E x \in S : at(x) = i - 1
    BY <1>1, <2>1
  <2> QED
    BY <1>2, <2>2
<1>4. ASSUME NEW x \in S, NEW y \in S, at(x) = at(y) PROVE x = y
  <2>1. at(x) \in Int /\ at(y) \in Int
    BY <1>0, <1>1
  <2>2. ~(at(x) < at(y)) /\ ~(at(y) < at(x))
    BY <1>4, <2>1
  <2> QED
    BY <1>1, <2>2 DEF Orders
<1>5. f \in [1 .. n -> S]
  BY <1>2, <1>3
<1>6. ASSUME NEW x \in S PROVE \E i \in 1 .. n : f[i] = x
  <2>1. at(x) + 1 \in 1 .. n /\ (at(x) + 1) - 1 = at(x)
    BY <1>0, <1>1
  <2> QED
    BY <1>3, <1>4, <2>1
<1>7. ASSUME NEW i \in 1 .. n, NEW j \in 1 .. n, i < j PROVE <<f[i], f[j]>> \in less
  <2>1. f[i] \in S /\ f[j] \in S /\ at(f[i]) = i - 1 /\ at(f[j]) = j - 1
    BY <1>3
  <2>2. f[i] # f[j] /\ ~(at(f[j]) < at(f[i]))
    BY <1>0, <1>7, <2>1
  <2> QED
    BY <1>1, <2>1, <2>2 DEF Orders
<1>8. ASSUME NEW i \in 1 .. n, NEW j \in 1 .. n, f[i] = f[j] PROVE i = j
  BY <1>0, <1>3, <1>8
<1> QED
  BY <1>5, <1>6, <1>7, <1>8 DEF Sorted, n, f

\* The elements of a set that have one value of a key.
Part(T, key, d) == {x \in T : key[x] = d}

\* A set has as many elements as its parts have together.
LEMMA SumOfParts ==
    ASSUME NEW T, IsFiniteSet(T), NEW D, IsFiniteSet(D), NEW key, \A x \in T : key[x] \in D,
           NEW size, \A d \in D : size[d] = Cardinality(Part(T, key, d))
    PROVE  SumFunctionOnSet(size, D) = Cardinality(T)
<1> DEFINE f == [d \in D |-> Part(T, key, d)]
           U == UNION {f[d] : d \in D}
<1>1. \A d \in D : IsFiniteSet(f[d])
  <2> SUFFICES ASSUME NEW d \in D PROVE IsFiniteSet(Part(T, key, d))
    OBVIOUS
  <2>1. Part(T, key, d) \subseteq T
    BY DEF Part
  <2> QED
    BY <2>1, FS_Subset
<1>5. \A d \in D : size[d] = Cardinality(f[d])
  OBVIOUS
<1>2. \A d, e \in D : d # e => f[d] \cap f[e] = {}
  BY DEF Part
<1>3. U = T
  <2>1. \A x \in T : x \in f[key[x]]
    BY DEF Part
  <2>2. \A d \in D : f[d] \subseteq T
    BY DEF Part
  <2> HIDE DEF f
  <2> QED
    BY <2>1, <2>2
<1> HIDE DEF f
<1>4. Cardinality(U) = SumFunctionOnSet(size, D)
  BY <1>1, <1>2, <1>5, SizeOfDisjoint
<1> HIDE DEF U
<1> QED
  BY <1>3, <1>4

\* A finite set of numbers has a smallest one and a largest one.
LEMMA BoundsExist ==
    ASSUME NEW S \in SUBSET Int, IsFiniteSet(S), S # {}
    PROVE  /\ Min(S) \in S /\ \A x \in S : Min(S) <= x
           /\ Max(S) \in S /\ \A x \in S : x <= Max(S)
<1> DEFINE less == {pair \in S \X S : pair[1] < pair[2]}
           more == {pair \in S \X S : pair[1] > pair[2]}
<1>1. \A x, y \in S : (<<x, y>> \in less <=> x < y) /\ (<<x, y>> \in more <=> x > y)
  OBVIOUS
<1> HIDE DEF less, more
<1>2. Orders(less, S) /\ Orders(more, S)
  BY <1>1 DEF Orders
<1>3. \E x \in S : \A y \in S \ {x} : <<x, y>> \in less
  BY <1>2, FirstExists
<1>4. \E x \in S : \A y \in S \ {x} : <<x, y>> \in more
  BY <1>2, FirstExists
<1>5. \E x \in S : \A y \in S : x <= y
  <2>1. PICK x \in S : \A y \in S \ {x} : <<x, y>> \in less
    BY <1>3
  <2>2. ASSUME NEW y \in S PROVE x <= y
    <3>0. x \in Int /\ y \in Int
      OBVIOUS
    <3>1. CASE y = x
      BY <3>0, <3>1
    <3>2. CASE y # x
      <4>1. <<x, y>> \in less
        BY <2>1, <3>2
      <4>2. x < y
        BY <1>1, <4>1
      <4> QED
        BY <3>0, <4>2
    <3> QED
      BY <3>1, <3>2
  <2> QED
    BY <2>2
<1>6. \E x \in S : \A y \in S : x >= y
  <2>1. PICK x \in S : \A y \in S \ {x} : <<x, y>> \in more
    BY <1>4
  <2>2. ASSUME NEW y \in S PROVE x >= y
    <3>0. x \in Int /\ y \in Int
      OBVIOUS
    <3>1. CASE y = x
      BY <3>0, <3>1
    <3>2. CASE y # x
      <4>1. <<x, y>> \in more
        BY <2>1, <3>2
      <4>2. x > y
        BY <1>1, <4>1
      <4> QED
        BY <3>0, <4>2
    <3> QED
      BY <3>1, <3>2
  <2> QED
    BY <2>2
<1> QED
  BY <1>5, <1>6 DEF Min, Max

-----------------------------------------------------------------------------
(* More about sums and products. *)

\* A product of positive numbers is positive.
LEMMA ProductIsPositive ==
    ASSUME NEW S, IsFiniteSet(S), NEW f, \A x \in S : f[x] \in Nat \ {0}
    PROVE  ProductFunctionOnSet(f, S) \in Nat \ {0}
<1> DEFINE P == {T \in SUBSET S : ProductFunctionOnSet(f, T) \in Nat \ {0}}
<1>1. {} \in P
  BY ProductEmpty
<1>2. ASSUME NEW T \in SUBSET S, NEW x \in S \ T, T \in P PROVE T \cup {x} \in P
  <2> DEFINE V == T \cup {x}
             m == ProductFunctionOnSet(f, T)
  <2>1. V \ {x} = T /\ IsFiniteSet(V) /\ x \in V /\ V \in SUBSET S
    BY FS_Subset
  <2> HIDE DEF V
  <2>2. ProductFunctionOnSet(f, V) = f[x] * m
    BY <2>1, ProductFirst
  <2>3. m \in Nat \ {0} /\ f[x] \in Nat \ {0}
    BY <1>2
  <2> HIDE DEF m
  <2>4. f[x] * m \in Nat \ {0}
    BY <2>3
  <2> QED
    BY <2>1, <2>2, <2>4 DEF V
<1>3. S \in P
  <2> HIDE DEF P
  <2> QED
    BY <1>1, <1>2, SubsetInduction
<1> QED
  BY <1>3

\* A factor of the summands is a factor of the sum.
LEMMA SumOfMultiples ==
    ASSUME NEW S, IsFiniteSet(S), NEW m \in Int, NEW f, \A x \in S : f[x] \in Int,
           NEW g, \A x \in S : g[x] = m * f[x]
    PROVE  SumFunctionOnSet(g, S) = m * SumFunctionOnSet(f, S)
<1> DEFINE P == {T \in SUBSET S : SumFunctionOnSet(g, T) = m * SumFunctionOnSet(f, T)}
<1>0. \A x \in S : g[x] \in Int
  OBVIOUS
<1>1. {} \in P
  BY SumEmpty
<1>2. ASSUME NEW T \in SUBSET S, NEW x \in S \ T, T \in P PROVE T \cup {x} \in P
  <2> DEFINE V == T \cup {x}
             s == SumFunctionOnSet(f, T)
  <2>1. V \ {x} = T /\ IsFiniteSet(V) /\ IsFiniteSet(T) /\ x \in V /\ V \in SUBSET S
    BY FS_Subset
  <2> HIDE DEF V
  <2>2. SumFunctionOnSet(f, V) = f[x] + s
    BY <2>1, SumFirst
  <2>3. SumFunctionOnSet(g, V) = g[x] + SumFunctionOnSet(g, T)
    BY <1>0, <2>1, SumFirst
  <2>4. s \in Int
    BY <2>1, SumType
  <2>5. SumFunctionOnSet(g, T) = m * s
    BY <1>2
  <2>6. g[x] = m * f[x] /\ f[x] \in Int
    OBVIOUS
  <2> HIDE DEF s
  <2>7. m * f[x] + m * s = m * (f[x] + s)
    BY <2>4, <2>6
  <2> QED
    BY <2>1, <2>2, <2>3, <2>5, <2>6, <2>7 DEF V
<1>3. S \in P
  <2> HIDE DEF P
  <2> QED
    BY <1>1, <1>2, SubsetInduction
<1> QED
  BY <1>3

\* The difference of two sums is the sum of the differences.
LEMMA SumOfDifferences ==
    ASSUME NEW S, IsFiniteSet(S), NEW f, NEW g, \A x \in S : f[x] \in Int /\ g[x] \in Int,
           NEW h, \A x \in S : h[x] = f[x] - g[x]
    PROVE  SumFunctionOnSet(h, S) = SumFunctionOnSet(f, S) - SumFunctionOnSet(g, S)
<1> DEFINE P == {T \in SUBSET S :
                    SumFunctionOnSet(h, T) = SumFunctionOnSet(f, T) - SumFunctionOnSet(g, T)}
<1>0. \A x \in S : h[x] \in Int
  OBVIOUS
<1>1. {} \in P
  BY SumEmpty
<1>2. ASSUME NEW T \in SUBSET S, NEW x \in S \ T, T \in P PROVE T \cup {x} \in P
  <2> DEFINE V == T \cup {x}
  <2>1. V \ {x} = T /\ IsFiniteSet(V) /\ IsFiniteSet(T) /\ x \in V /\ V \in SUBSET S
    BY FS_Subset
  <2> HIDE DEF V
  <2>2. SumFunctionOnSet(f, V) = f[x] + SumFunctionOnSet(f, T)
    BY <2>1, SumFirst
  <2>3. SumFunctionOnSet(g, V) = g[x] + SumFunctionOnSet(g, T)
    BY <2>1, SumFirst
  <2>4. SumFunctionOnSet(h, V) = h[x] + SumFunctionOnSet(h, T)
    BY <1>0, <2>1, SumFirst
  <2>5. /\ SumFunctionOnSet(f, T) \in Int /\ SumFunctionOnSet(g, T) \in Int
        /\ SumFunctionOnSet(h, T) \in Int
    BY <1>0, <2>1, SumType
  <2>6. SumFunctionOnSet(h, T) = SumFunctionOnSet(f, T) - SumFunctionOnSet(g, T)
    BY <1>2
  <2>7. f[x] \in Int /\ g[x] \in Int /\ h[x] = f[x] - g[x]
    OBVIOUS
  <2>8. SumFunctionOnSet(h, V) = SumFunctionOnSet(f, V) - SumFunctionOnSet(g, V)
    BY <2>2, <2>3, <2>4, <2>5, <2>6, <2>7
  <2> QED
    BY <2>1, <2>8 DEF V
<1>3. S \in P
  <2> HIDE DEF P
  <2> QED
    BY <1>1, <1>2, SubsetInduction
<1> QED
  BY <1>3

\* If every summand is smaller, so is the sum of one or more.
LEMMA SumOfLess ==
    ASSUME NEW S, IsFiniteSet(S), S # {}, NEW f, NEW g,
           \A x \in S : f[x] \in Int /\ g[x] \in Int /\ f[x] < g[x]
    PROVE  SumFunctionOnSet(f, S) < SumFunctionOnSet(g, S)
<1>1. PICK x \in S : TRUE
  OBVIOUS
<1>2. IsFiniteSet(S \ {x})
  BY FS_Subset
<1>3. /\ SumFunctionOnSet(f, S) = f[x] + SumFunctionOnSet(f, S \ {x})
      /\ SumFunctionOnSet(g, S) = g[x] + SumFunctionOnSet(g, S \ {x})
  BY SumFirst
<1>4. SumFunctionOnSet(f, S \ {x}) <= SumFunctionOnSet(g, S \ {x})
  BY <1>2, SumMonotone
<1>5. SumFunctionOnSet(f, S \ {x}) \in Int /\ SumFunctionOnSet(g, S \ {x}) \in Int
  BY <1>2, SumType
<1> QED
  BY <1>1, <1>3, <1>4, <1>5

\* Every factor divides a product.
LEMMA FactorOut ==
    ASSUME NEW S, IsFiniteSet(S), NEW f, \A x \in S : f[x] \in Nat \ {0}, NEW x \in S
    PROVE  /\ ProductFunctionOnSet(f, S \ {x}) \in Nat \ {0}
           /\ ProductFunctionOnSet(f, S) = f[x] * ProductFunctionOnSet(f, S \ {x})
<1>1. IsFiniteSet(S \ {x})
  BY FS_Subset
<1>2. \A y \in S : f[y] \in Int
  OBVIOUS
<1> QED
  BY <1>1, <1>2, ProductIsPositive, ProductFirst

\* A sum of naturals is a natural.
LEMMA SumOfNaturals ==
    ASSUME NEW S, IsFiniteSet(S), NEW f, \A x \in S : f[x] \in Nat
    PROVE  SumFunctionOnSet(f, S) \in Nat
<1> DEFINE zero == [x \in S |-> 0]
           s == SumFunctionOnSet(f, S)
<1>1. SumFunctionOnSet(zero, S) = 0 * Cardinality(S)
  <2>1. \A x \in S : zero[x] = 0
    OBVIOUS
  <2> HIDE DEF zero
  <2> QED
    BY <2>1, SumOfConstants
<1>2. \A x \in S : zero[x] \in Int /\ f[x] \in Int /\ zero[x] <= f[x]
  OBVIOUS
<1> HIDE DEF zero
<1>3. SumFunctionOnSet(zero, S) <= s
  BY <1>2, SumMonotone
<1>4. s \in Int
  BY <1>2, SumType
<1>5. Cardinality(S) \in Nat
  BY FS_CardinalityType
<1> HIDE DEF s
<1>6. s \in Nat
  BY <1>1, <1>3, <1>4, <1>5
<1> QED
  BY <1>6 DEF s
-----------------------------------------------------------------------------
(* Questions and answers. *)

\* A step asks one question, and every kind of question has one action.
LEMMA OneAnswer ==
    ASSUME ServiceNext
    PROVE  /\ question.kind = "none"
           /\ \/ CountUnits /\ question'.kind = "units"
              \/ AssessHealth /\ question'.kind = "health"
              \/ ComputeTrend /\ question'.kind = "trend"
              \/ DetectImproving /\ question'.kind = "improving"
              \/ DetectRecurring /\ question'.kind = "recurring"
              \/ BuildWindows /\ question'.kind = "windows"
              \/ CompareBrands /\ question'.kind = "benchmark"
              \/ RankToday /\ question'.kind = "today"
              \/ ReadDashboard /\ question'.kind = "dashboard"
              \/ ReadToday /\ question'.kind = "readiness"
              \/ ListFeedback /\ question'.kind = "pages"
              \/ Write /\ question'.kind = "card"
              \/ Classify /\ question'.kind = "classification"
              \/ ParseFile /\ question'.kind = "file"
<1>1. CountUnits => question'.kind = "units"  BY DEF CountUnits
<1>2. AssessHealth => question'.kind = "health"  BY DEF AssessHealth
<1>3. ComputeTrend => question'.kind = "trend"  BY DEF ComputeTrend
<1>4. DetectImproving => question'.kind = "improving"  BY DEF DetectImproving
<1>5. DetectRecurring => question'.kind = "recurring"  BY DEF DetectRecurring
<1>6. BuildWindows => question'.kind = "windows"  BY DEF BuildWindows
<1>7. CompareBrands => question'.kind = "benchmark"  BY DEF CompareBrands
<1>8. RankToday => question'.kind = "today"  BY DEF RankToday
<1>9. ReadDashboard => question'.kind = "dashboard"  BY DEF ReadDashboard
<1>10. ReadToday => question'.kind = "readiness"  BY DEF ReadToday
<1>11. ListFeedback => question'.kind = "pages"  BY DEF ListFeedback
<1>12. Write => question'.kind = "card"  BY DEF Write
<1>13. Classify => question'.kind = "classification"  BY DEF Classify
<1>14. ParseFile => question'.kind = "file"  BY DEF ParseFile
<1> QED
  BY <1>1, <1>2, <1>3, <1>4, <1>5, <1>6, <1>7, <1>8, <1>9, <1>10, <1>11, <1>12, <1>13, <1>14
  DEF ServiceNext, Next
-----------------------------------------------------------------------------
(* Health of sources. *)

\* There is always a worst connector, and none is worse.
LEMMA WorstIsWorst ==
    ASSUME NEW rows, rows # {}, \A r \in rows : r.status \in {"healthy", "partial", "stale", "failed"}
    PROVE  \A r \in rows : Severity[EffectiveStatus(r)] <= Severity[WorstStatus(rows)]
<1> DEFINE S == {EffectiveStatus(r) : r \in rows}
           Worst(s) == \A r \in rows : Severity[EffectiveStatus(r)] <= Severity[s]
<1>1. \A r \in rows : EffectiveStatus(r) \in {"healthy", "partial", "stale", "failed"}
  BY DEF EffectiveStatus
<1>2. /\ Severity["healthy"] = 0 /\ Severity["partial"] = 1
      /\ Severity["stale"] = 2 /\ Severity["failed"] = 3
  BY DEF Severity
<1>3. \E s \in S : Worst(s)
  <2>1. CASE "failed" \in S
    BY <1>1, <1>2, <2>1
  <2>2. CASE "failed" \notin S /\ "stale" \in S
    BY <1>1, <1>2, <2>2
  <2>3. CASE "failed" \notin S /\ "stale" \notin S /\ "partial" \in S
    BY <1>1, <1>2, <2>3
  <2>4. CASE S \cap {"failed", "stale", "partial"} = {}
    BY <1>1, <1>2, <2>4
  <2> QED
    BY <2>1, <2>2, <2>3, <2>4
<1>4. WorstStatus(rows) = CHOOSE s \in S : Worst(s)
  BY DEF WorstStatus
<1> HIDE DEF S, Worst
<1>5. Worst(CHOOSE s \in S : Worst(s))
  BY <1>3
<1> QED
  BY <1>4, <1>5 DEF Worst

\* _health_assessments looks at the worst connector: what it finds healthy was
\* healthy in every row.
LEMMA HealthOfOne == AssessHealth => OneBadConnectorIsSeen'
<1> SUFFICES ASSUME AssessHealth, answer' = {}
             PROVE  /\ question'.rows # {}
                    /\ \A r \in question'.rows :
                        r.status = "healthy" /\ r.age # None /\ r.age <= StaleHours
  BY DEF OneBadConnectorIsSeen, Asked
<1>1. PICK source \in HealthInputs :
        /\ question' = [kind |-> "health", rows |-> source.rows, records |-> source.records]
        /\ answer' = HealthReasons(source.rows, source.records)
  BY DEF AssessHealth
<1>2. question'.rows = source.rows
  BY <1>1
<1>3. WorstStatus(source.rows) = "healthy"
  <2>1. HealthReasons(source.rows, source.records) = {}
    BY <1>1
  <2> SUFFICES ASSUME WorstStatus(source.rows) # "healthy"
               PROVE  "source_status" \in HealthReasons(source.rows, source.records)
    BY <2>1
  <2> QED
    BY Zenon DEF HealthReasons
<1>4. source.rows # {}
  BY <1>3 DEF WorstStatus
<1>5. \A r \in source.rows : r.status \in {"healthy", "partial", "stale", "failed"}
                             /\ r.age \in Nat \cup {None}
  BY HealthAssumption
<1>6. ASSUME NEW r \in source.rows
      PROVE  r.status = "healthy" /\ r.age # None /\ r.age <= StaleHours
  <2>1. Severity[EffectiveStatus(r)] <= 0
    BY <1>3, <1>4, <1>5, WorstIsWorst DEF Severity
  <2>2. EffectiveStatus(r) \in {"healthy", "partial", "stale", "failed"}
    BY <1>5 DEF EffectiveStatus
  <2>3. EffectiveStatus(r) = "healthy"
    BY <2>1, <2>2 DEF Severity
  <2> QED
    BY <1>5, <2>3, HealthAssumption DEF EffectiveStatus
<1> QED
  BY <1>2, <1>4, <1>6

\* compute_stratified_trend: a stratum that fails leaves the eligible ones, and
\* what it takes along is missed by the required groups.
LEMMA FailingSource == ComputeTrend => AFailingSourceNeverRaises'
<1> SUFFICES ASSUME ComputeTrend, NEW i \in DOMAIN question'.strata
             PROVE  ~Qualifies([question'.strata EXCEPT ![i].healthy = FALSE], question'.required)
  BY DEF AFailingSourceNeverRaises, Asked
<1>1. PICK strata \in TrendInputs :
        question' = [kind |-> "trend", strata |-> strata,
                     required |-> {strata[j].group : j \in DOMAIN strata}]
  BY DEF ComputeTrend
<1> DEFINE required == {strata[j].group : j \in DOMAIN strata}
           failing == [strata EXCEPT ![i].healthy = FALSE]
<1>2. question'.strata = strata /\ question'.required = required
  BY <1>1
<1>3. i \in DOMAIN failing /\ ~failing[i].healthy /\ failing[i].group = strata[i].group
  <2>1. strata \in Seq(Strata) /\ i \in DOMAIN strata
    BY <1>2, TrendAssumption
  <2>2. strata[i] \in Strata
    BY <2>1
  <2>3. failing[i] = [strata[i] EXCEPT !.healthy = FALSE] /\ i \in DOMAIN failing
    BY <2>1
  <2> HIDE DEF failing
  <2> QED
    BY <2>2, <2>3 DEF Strata
<1>4. failing[i].group \in required
  BY <1>2, <1>3
<1> HIDE DEF failing, required
<1>5. "required_source_unhealthy" \in HealthSuppressions(failing, required)
  BY <1>3, <1>4 DEF HealthSuppressions
<1>6. Suppressions(failing, required) # {}
  BY <1>5 DEF Suppressions
<1>7. ~Qualifies(failing, required)
  BY <1>6 DEF Qualifies
<1> QED
  BY <1>2, <1>7 DEF failing

\* detect_improving: every group of the reference has to be covered.
LEMMA MissingFeed == DetectImproving => MissingFeedIsNotImprovement'
<1> DEFINE without(strata, g) == [i \in DOMAIN strata |->
                        [strata[i] EXCEPT !.healthy = @ /\ strata[i].group # g]]
<1> SUFFICES ASSUME DetectImproving, NEW g \in question'.reference.groups
             PROVE  ~Improves(question'.reference, without(question'.strata, g), MinCurrent)
  BY DEF MissingFeedIsNotImprovement, Asked
<1>1. PICK strata \in TrendInputs : question'.strata = strata
  BY DEF DetectImproving
<1> DEFINE left == without(strata, g)
<1>2. ASSUME NEW i \in DOMAIN left, left[i].healthy
      PROVE  left[i].group # g
  <2>1. i \in DOMAIN strata /\ strata \in Seq(Strata)
    BY TrendAssumption
  <2>2. strata[i] \in Strata
    BY <2>1
  <2>3. left[i] = [strata[i] EXCEPT !.healthy = @ /\ strata[i].group # g]
    OBVIOUS
  <2>4. left[i].healthy = (strata[i].healthy /\ strata[i].group # g)
        /\ left[i].group = strata[i].group
    BY <2>2, <2>3 DEF Strata
  <2> QED
    BY <1>2, <2>4
<1> HIDE DEF left
<1>3. g \notin {left[i].group : i \in Eligible(left)}
  BY <1>2 DEF Eligible
<1>4. ~Improves(question'.reference, left, MinCurrent)
  BY <1>3 DEF Improves, Covers
<1> QED
  BY <1>1, <1>4 DEF left
-----------------------------------------------------------------------------
(* Readiness of Today. *)

\* Disjoint sets that are large enough are large enough together.
LEMMA DisjointAtLeast ==
    ASSUME NEW S, IsFiniteSet(S), NEW f, NEW m \in Nat,
           \A x \in S : IsFiniteSet(f[x]) /\ Cardinality(f[x]) >= m,
           \A x, y \in S : x # y => f[x] \cap f[y] = {},
           NEW T, IsFiniteSet(T), \A x \in S : f[x] \subseteq T
    PROVE  Cardinality(T) >= m * Cardinality(S)
<1> DEFINE size == [x \in S |-> Cardinality(f[x])]
           U == UNION {f[x] : x \in S}
           least == [x \in S |-> m]
<1>1. \A x \in S : size[x] = Cardinality(f[x]) /\ size[x] \in Int /\ least[x] = m
  BY FS_CardinalityType
<1>2. U \subseteq T
  OBVIOUS
<1> HIDE DEF size, least
<1>3. IsFiniteSet(U) /\ Cardinality(U) = SumFunctionOnSet(size, S)
  BY <1>1, SizeOfDisjoint
<1>4. SumFunctionOnSet(least, S) = m * Cardinality(S)
  BY <1>1, SumOfConstants
<1>5. SumFunctionOnSet(least, S) <= SumFunctionOnSet(size, S)
  <2>1. \A x \in S : least[x] \in Int /\ size[x] \in Int /\ least[x] <= size[x]
    BY <1>1
  <2> QED
    BY <2>1, SumMonotone
<1> HIDE DEF U
<1>6. Cardinality(U) <= Cardinality(T) /\ Cardinality(T) \in Nat /\ Cardinality(U) \in Nat
  BY <1>2, <1>3, FS_Subset, FS_CardinalityType
<1>7. Cardinality(S) \in Nat
  BY FS_CardinalityType
<1>8. m * Cardinality(S) \in Int
  BY <1>7
<1> QED
  BY <1>3, <1>4, <1>5, <1>6, <1>8

\* The windows of the analysis follow one another.
LEMMA DaysInOrder ==
    /\ AnalysisDays.baseline[1] \in Int /\ AnalysisDays.baseline[2] \in Int
    /\ AnalysisDays.current[1] \in Int /\ AnalysisDays.current[2] \in Int
    /\ AnalysisDays.baseline[1] <= AnalysisDays.current[1]
BY RowsAssumption DEF AnalysisDays, LocalDays, Windows, EndOfWindow

\* What the sources' signals count are groups of different posts, and readiness
\* counts each of them.
LEMMA GroupsAreEnough ==
    ASSUME NEW rows, IsRows(rows), Guardian # None, None \notin Int, NEW window,
           window[1] \in Int, window[2] \in Int,
           NEW S, IsFiniteSet(S), NEW m \in Nat,
           \A s \in S : Cardinality(SignalPosts(rows, window, s)) >= m
    PROVE  LET signals == {r \in Completed(rows) : Claimed(r) = Guardian}
               groups == {r.group : r \in InPeriod(signals, window, FALSE)}
           IN  Cardinality(groups) \in Nat /\ Cardinality(groups) >= m * Cardinality(S)
<1> DEFINE posts == {r \in rows :
                        /\ Resolved(r) = Guardian /\ r.day # None /\ ~r.inferred
                        /\ window[1] <= r.day /\ r.day < window[2]}
           mine(s) == SignalPosts(rows, window, s)
           signals == {r \in Completed(rows) : Claimed(r) = Guardian}
           dated == InPeriod(signals, window, FALSE)
           groups == {r.group : r \in dated}
           f == [s \in S |-> {r.group : r \in mine(s)}]
           groupOf == [r \in rows |-> r.group]
<1>1. IsFiniteSet(groups)
  <2>1. IsFiniteSet(dated) /\ dated \subseteq rows
    BY FS_Subset DEF IsRows, InPeriod, Completed
  <2>2. groups = {groupOf[r] : r \in dated}
    BY <2>1
  <2> HIDE DEF groups, dated, groupOf
  <2>3. IsFiniteSet({groupOf[r] : r \in dated})
    BY <2>1, ImageSize
  <2> QED
    BY <2>2, <2>3
<1>2. ASSUME NEW r \in posts, NEW t \in posts, r.group = t.group,
             \A u \in posts : u.group = r.group => r.id <= u.id,
             \A u \in posts : u.group = t.group => t.id <= u.id
      PROVE  r = t
  <2>1. r.id \in Nat /\ t.id \in Nat
    BY DEF IsRows
  <2>2. r.id <= t.id /\ t.id <= r.id
    BY <1>2
  <2> QED
    BY <2>1, <2>2 DEF IsRows
<1>3. ASSUME NEW s \in S
      PROVE  IsFiniteSet(f[s]) /\ Cardinality(f[s]) >= m /\ f[s] \subseteq groups
  <2>1. IsFiniteSet(mine(s)) /\ mine(s) \subseteq rows
    BY FS_Subset DEF IsRows, SignalPosts
  <2>2. f[s] = {groupOf[r] : r \in mine(s)}
    BY <2>1
  <2>3. \A r, t \in mine(s) : groupOf[r] = groupOf[t] => r = t
    BY <1>2 DEF SignalPosts
  <2>4. f[s] \subseteq groups
    <3>1. \A r \in mine(s) : r \in dated
      BY DEF InPeriod, Completed, OnTime, Resolved, Claimed, SignalPosts
    <3> HIDE DEF mine, dated
    <3> QED
      BY <3>1
  <2>5. Cardinality(mine(s)) >= m
    OBVIOUS
  <2> HIDE DEF mine, groupOf, f, groups
  <2>6. IsFiniteSet({groupOf[r] : r \in mine(s)})
        /\ Cardinality({groupOf[r] : r \in mine(s)}) = Cardinality(mine(s))
    BY <2>1, <2>3, ImageSize
  <2> QED
    BY <2>2, <2>4, <2>5, <2>6
<1>4. ASSUME NEW s \in S, NEW t \in S, s # t PROVE f[s] \cap f[t] = {}
  <2> SUFFICES ASSUME NEW g \in f[s], g \in f[t] PROVE FALSE
    OBVIOUS
  <2>1. PICK r \in mine(s) : r.group = g
    OBVIOUS
  <2>2. PICK u \in mine(t) : u.group = g
    OBVIOUS
  <2>3. r = u
    BY <1>2, <2>1, <2>2 DEF SignalPosts
  <2> QED
    BY <1>4, <2>3 DEF SignalPosts
<1> HIDE DEF f, groups
<1>5. Cardinality(groups) >= m * Cardinality(S)
  BY <1>1, <1>3, <1>4, DisjointAtLeast
<1>6. Cardinality(groups) \in Nat
  BY <1>1, FS_CardinalityType
<1> QED
  BY <1>5, <1>6 DEF groups

\* The first answer of Today does not hide what a signal would count.
LEMMA Ready == ReadToday => ReadinessNeverHidesASignal'
<1> SUFFICES ASSUME ReadToday, Cardinality(StrongSources(question'.rows)) >= MinSourceGroups
             PROVE  answer'.next # "connect"
  BY DEF ReadinessNeverHidesASignal, Asked
<1>0. PICK q \in TodayInputs :
        /\ question' = [kind |-> "readiness", rows |-> q.rows, groups |-> q.groups]
        /\ answer' = [next |-> NextStep(q.rows, AnalysisDays, FALSE, OverallHealth(q.groups)),
                      sources |-> {SourceView(g) : g \in q.groups}]
  BY Zenon DEF ReadToday
<1>1. /\ question'.rows = q.rows
      /\ answer'.next = NextStep(q.rows, AnalysisDays, FALSE, OverallHealth(q.groups))
  BY <1>0
<1> DEFINE rows == q.rows
           S == StrongSources(rows)
           ready == Readiness(rows, AnalysisDays, FALSE)
           sourceOf == [r \in rows |-> r.source]
<1>2. IsRows(rows) /\ Guardian # None /\ None \notin Int /\ MinSourceGroups \in Nat
  BY RowsAssumption
<1>3. IsFiniteSet(S) /\ Cardinality(S) \in Nat /\ Cardinality(S) >= MinSourceGroups
  <2>1. S \in SUBSET {sourceOf[r] : r \in rows}
    BY DEF StrongSources
  <2> HIDE DEF sourceOf, rows, S
  <2>2. IsFiniteSet({sourceOf[r] : r \in rows})
    BY <1>2, ImageSize DEF IsRows
  <2>3. IsFiniteSet(S)
    BY <2>1, <2>2, FS_Subset
  <2> QED
    BY <1>1, <2>3, FS_CardinalityType DEF rows, S
<1>4. ready.current \in Nat /\ ready.current >= MinCurrent * Cardinality(S)
  <2> DEFINE signals == {r \in Completed(rows) : Claimed(r) = Guardian}
             groups == {r.group : r \in InPeriod(signals, AnalysisDays.current, FALSE)}
  <2>1. \A s \in S : Cardinality(SignalPosts(rows, AnalysisDays.current, s)) >= MinCurrent
    BY DEF StrongSources
  <2>2. ready.current = Cardinality(groups)
    BY DEF Readiness
  <2>3. Cardinality(groups) \in Nat /\ Cardinality(groups) >= MinCurrent * Cardinality(S)
    <3>1. MinCurrent \in Nat
      BY AnalyticsAssumption
    <3> HIDE DEF S, rows
    <3> QED
      BY <1>2, <1>3, <2>1, <3>1, DaysInOrder, GroupsAreEnough
  <2> QED
    BY <2>2, <2>3
<1>5. ready.baseline \in Nat /\ ready.baseline >= MinBaseline * Cardinality(S)
  <2> DEFINE signals == {r \in Completed(rows) : Claimed(r) = Guardian}
             groups == {r.group : r \in InPeriod(signals, AnalysisDays.baseline, FALSE)}
  <2>1. \A s \in S : Cardinality(SignalPosts(rows, AnalysisDays.baseline, s)) >= MinBaseline
    BY DEF StrongSources
  <2>2. ready.baseline = Cardinality(groups)
    BY DEF Readiness
  <2>3. Cardinality(groups) \in Nat /\ Cardinality(groups) >= MinBaseline * Cardinality(S)
    <3>1. MinBaseline \in Nat
      BY AnalyticsAssumption
    <3> HIDE DEF S, rows
    <3> QED
      BY <1>2, <1>3, <2>1, <3>1, DaysInOrder, GroupsAreEnough
  <2> QED
    BY <2>2, <2>3
<1>6. ready.sources \in Nat /\ ready.sources >= Cardinality(S)
  <2> DEFINE signals == {r \in Completed(rows) : Claimed(r) = Guardian}
             dated == InPeriod(signals, <<AnalysisDays.baseline[1], AnalysisDays.current[2]>>, FALSE)
             T == {r.source : r \in dated}
  <2>1. ASSUME NEW s \in S PROVE s \in T
    <3> DEFINE mine == SignalPosts(rows, AnalysisDays.current, s)
    <3>1. Cardinality(mine) >= MinCurrent
      BY DEF StrongSources
    <3>2. mine # {}
      <4> HIDE DEF mine
      <4> QED
        BY <3>1, FS_EmptySet, AnalyticsAssumption
    <3>3. PICK r \in mine : TRUE
      BY <3>2
    <3>4. r \in rows /\ r.day \in Int
      BY <1>2 DEF IsRows, SignalPosts
    <3>5. r \in signals
      BY <1>2 DEF Completed, Resolved, Claimed, SignalPosts
    <3>6. r \in dated
      BY <3>4, <3>5, DaysInOrder DEF InPeriod, OnTime, SignalPosts
    <3>7. r.source = s
      BY DEF SignalPosts
    <3> HIDE DEF dated
    <3> QED
      BY <3>6, <3>7
  <2>2. dated \in SUBSET rows
    BY DEF InPeriod, Completed
  <2>3. IsFiniteSet(T)
    <3>1. IsFiniteSet(dated)
      BY <1>2, <2>2, FS_Subset DEF IsRows
    <3>2. T = {sourceOf[r] : r \in dated}
      BY <2>2
    <3> HIDE DEF dated, T, sourceOf
    <3> QED
      BY <3>1, <3>2, ImageSize
  <2>4. ready.sources = Cardinality(T)
    BY DEF Readiness
  <2> HIDE DEF T, S, ready
  <2>5. S \in SUBSET T
    BY <2>1
  <2> QED
    BY <2>3, <2>4, <2>5, FS_Subset, FS_CardinalityType
<1> HIDE DEF ready, S
<1>7. ASSUME NEW m \in Nat PROVE m * Cardinality(S) >= m * MinSourceGroups
  BY <1>2, <1>3
<1>8. MinCurrent \in Nat /\ MinBaseline \in Nat
  BY AnalyticsAssumption
<1>9. ready.current >= MinCurrent * MinSourceGroups
  BY <1>2, <1>3, <1>4, <1>7, <1>8
<1>10. ready.baseline >= MinBaseline * MinSourceGroups
  BY <1>2, <1>3, <1>5, <1>7, <1>8
<1>11. ~Insufficient(ready)
  BY <1>2, <1>3, <1>4, <1>5, <1>6, <1>8, <1>9, <1>10 DEF Insufficient
<1> QED
  BY <1>1, <1>11 DEF NextStep, ready
-----------------------------------------------------------------------------
(* Replies of the provider. *)

\* What is defined by steps from one value to the next is defined.
Defined(n, C, first, step) ==
    \E f \in [0 .. n -> C] : f[0] = first /\ \A k \in 1 .. n : f[k] = step[k][f[k - 1]]

\* What is defined from one number to the next is defined.
LEMMA Recursion ==
    ASSUME NEW n \in Nat, NEW C, NEW first \in C, NEW step, \A k \in 1 .. n, c \in C : step[k][c] \in C
    PROVE  Defined(n, C, first, step)
<1> DEFINE Upto(m) == {f \in [0 .. m -> C] :
                         f[0] = first /\ \A k \in 1 .. m : f[k] = step[k][f[k - 1]]}
           P == {m \in Nat : m <= n => Upto(m) # {}}
<1>1. 0 \in P
  <2>1. [k \in 0 .. 0 |-> first] \in Upto(0)
    OBVIOUS
  <2> QED
    BY <2>1
<1>2. ASSUME NEW m \in Nat, m \in P PROVE m + 1 \in P
  <2> SUFFICES ASSUME m + 1 <= n PROVE Upto(m + 1) # {}
    OBVIOUS
  <2>1. PICK f \in Upto(m) : TRUE
    BY <1>2
  <2> DEFINE g == [k \in 0 .. m + 1 |-> IF k = m + 1 THEN step[m + 1][f[m]] ELSE f[k]]
  <2>2. f \in [0 .. m -> C] /\ f[0] = first /\ \A k \in 1 .. m : f[k] = step[k][f[k - 1]]
    OBVIOUS
  <2>3. step[m + 1][f[m]] \in C
    BY <2>2
  <2>4. g \in [0 .. m + 1 -> C]
    BY <2>2, <2>3
  <2>5. g[0] = first
    BY <2>2
  <2>6. ASSUME NEW k \in 1 .. m + 1 PROVE g[k] = step[k][g[k - 1]]
    <3>1. CASE k = m + 1
      <4>1. g[k] = step[m + 1][f[m]] /\ g[m] = f[m] /\ k - 1 = m
        BY <3>1
      <4> HIDE DEF g
      <4> QED
        BY <3>1, <4>1
    <3>2. CASE k # m + 1
      <4>1. k \in 1 .. m /\ k - 1 \in 0 .. m
        BY <3>2
      <4>2. g[k] = f[k] /\ g[k - 1] = f[k - 1]
        BY <4>1
      <4> HIDE DEF g
      <4> QED
        BY <2>2, <4>1, <4>2
    <3> QED
      BY <3>1, <3>2
  <2> HIDE DEF g
  <2>7. g \in Upto(m + 1)
    BY <2>4, <2>5, <2>6
  <2> QED
    BY <2>7
<1>3. \A m \in Nat : m \in P
  <2> HIDE DEF P
  <2> QED
    BY <1>1, <1>2, NatSetInduction
<1>4. PICK f \in Upto(n) : TRUE
  BY <1>3
<1> QED
  BY <1>4 DEF Defined

\* The reply that follows a row of failures is the one that is looked at.
LEMMA PostSkipsFailures ==
    ASSUME NEW replies, NEW k \in Nat, NEW good \in Nat, k <= good, good <= k + TransportRetries,
           \A j \in k .. good - 1 : replies[j] = NoReply, replies[good] # NoReply
    PROVE  Post(replies, k).reply = replies[good] /\ Post(replies, k).next = good + 1
<1> DEFINE tried == {i \in k .. k + TransportRetries : \A j \in k .. i - 1 : replies[j] = NoReply}
<1>0. TransportRetries \in Nat
  BY RepliesAssumption
<1>1. good \in tried
  BY <1>0
<1>2. ASSUME NEW i \in tried PROVE i <= good
  <2> SUFFICES ASSUME good < i PROVE FALSE
    BY <1>0
  <2>1. good \in k .. i - 1
    BY <1>0
  <2> QED
    BY <2>1
<1>3. IsFiniteSet(tried) /\ tried \in SUBSET Int
  <2>1. IsFiniteSet(k .. k + TransportRetries)
    BY <1>0, FS_Interval
  <2>2. tried \in SUBSET (k .. k + TransportRetries)
    OBVIOUS
  <2>3. tried \in SUBSET Int
    BY <1>0
  <2> HIDE DEF tried
  <2> QED
    BY <2>1, <2>2, <2>3, FS_Subset
<1>4. Max(tried) = good
  <2> HIDE DEF tried
  <2>1. Max(tried) \in tried /\ \A x \in tried : x <= Max(tried)
    BY <1>1, <1>3, BoundsExist
  <2>2. Max(tried) <= good /\ good <= Max(tried)
    BY <1>1, <1>2, <2>1
  <2>3. Max(tried) \in Int
    BY <1>3, <2>1
  <2> QED
    BY <2>2, <2>3
<1> QED
  BY <1>4 DEF Post

\* Every post ends with a reply.
LEMMA PostAdvances ==
    ASSUME NEW replies, NEW k \in Nat
    PROVE  Post(replies, k).next \in Nat
<1> DEFINE tried == {i \in k .. k + TransportRetries : \A j \in k .. i - 1 : replies[j] = NoReply}
<1>0. TransportRetries \in Nat
  BY RepliesAssumption
<1>1. k \in tried
  BY <1>0
<1>2. IsFiniteSet(tried) /\ tried \in SUBSET Int
  <2>1. IsFiniteSet(k .. k + TransportRetries)
    BY <1>0, FS_Interval
  <2>2. tried \in SUBSET (k .. k + TransportRetries)
    OBVIOUS
  <2>3. tried \in SUBSET Int
    BY <1>0
  <2> HIDE DEF tried
  <2> QED
    BY <2>1, <2>2, <2>3, FS_Subset
<1>3. Max(tried) \in tried
  <2> HIDE DEF tried
  <2> QED BY <1>1, <1>2, BoundsExist
<1>4. Max(tried) + 1 \in Nat
  BY <1>0, <1>3
<1> QED
  BY <1>4 DEF Post

\* Every validation retry posts after the replies that the one before has used.
LEMMA PostsFollow ==
    ASSUME NEW replies
    PROVE  /\ Posts(replies)[0] = Post(replies, 1)
           /\ \A v \in 1 .. ValidationRetries :
                Posts(replies)[v] = Post(replies, Posts(replies)[v - 1].next)
<1> DEFINE C == {Post(replies, k) : k \in Nat}
           n == ValidationRetries
           next == [k \in 1 .. n |-> [c \in C |-> Post(replies, c.next)]]
           Eq(f) == f = [v \in 0 .. n |-> IF v = 0 THEN Post(replies, 1)
                                          ELSE Post(replies, f[v - 1].next)]
<1>1. n \in Nat /\ Post(replies, 1) \in C
  BY RepliesAssumption
<1>2. \A c \in C : Post(replies, c.next) \in C
  BY PostAdvances
<1>3. \A k \in 1 .. n, c \in C : next[k][c] = Post(replies, c.next) /\ next[k][c] \in C
  BY <1>2
<1>a. \A k \in 1 .. n, c \in C : next[k][c] \in C
  BY <1>3
<1>4. PICK f \in [0 .. n -> C] : f[0] = Post(replies, 1) /\ \A k \in 1 .. n : f[k] = next[k][f[k - 1]]
  <2> HIDE DEF C, n, next
  <2>1. Defined(n, C, Post(replies, 1), next)
    BY <1>1, <1>a, Recursion
  <2> QED
    BY <2>1 DEF Defined
<1>5. Eq(f)
  <2> HIDE DEF next, C
  <2>1. \A v \in 0 .. n : f[v] = IF v = 0 THEN Post(replies, 1) ELSE Post(replies, f[v - 1].next)
    BY <1>1, <1>3, <1>4
  <2> QED
    BY <2>1
<1>6. Posts(replies) = CHOOSE g : Eq(g)
  BY DEF Posts
<1>7. Eq(Posts(replies))
  <2> HIDE DEF Eq
  <2> QED
    BY <1>5, <1>6
<1> DEFINE p == Posts(replies)
<1>8. p = [v \in 0 .. n |-> IF v = 0 THEN Post(replies, 1) ELSE Post(replies, p[v - 1].next)]
  BY <1>7
<1> HIDE DEF p
<1>9. p[0] = Post(replies, 1)
  <2>1. 0 \in 0 .. n
    BY <1>1
  <2> QED
    BY <1>8, <2>1
<1>10. ASSUME NEW v \in 1 .. n PROVE p[v] = Post(replies, p[v - 1].next)
  <2>1. v \in 0 .. n /\ v # 0
    BY <1>1
  <2> QED
    BY <1>8, <2>1
<1> QED
  BY <1>9, <1>10 DEF p

\* One bad reply between those that were retried costs one validation retry.
LEMMA Repaired == Classify => OneBadReplyIsRepaired'
<1> DEFINE fails(replies, i, j) == \A k \in i .. j : replies[k] = NoReply
<1> SUFFICES ASSUME Classify, ValidationRetries > 0,
                    NEW bad \in DOMAIN question'.replies, NEW good \in DOMAIN question'.replies,
                    bad < good,
                    question'.replies[bad] \in (Objects \ Valid(question'.request)) \cup {Malformed},
                    question'.replies[good] \in Valid(question'.request),
                    fails(question'.replies, 1, bad - 1), bad - 1 <= TransportRetries,
                    fails(question'.replies, bad + 1, good - 1), good - bad - 1 <= TransportRetries
             PROVE  answer'.accepted /\ answer'.reply = question'.replies[good]
  BY DEF OneBadReplyIsRepaired, Asked
<1>1. PICK q \in ClassifyInputs :
        /\ question' = [kind |-> "classification", request |-> q.request, replies |-> q.replies]
        /\ answer' = Request(q.replies, Valid(q.request), TRUE)
  BY Zenon DEF Classify
<1> DEFINE replies == q.replies
           valid == Valid(q.request)
           post == Posts(replies)
           n == ValidationRetries
           asked == {v \in 0 .. n : \A w \in 0 .. v - 1 : Repairable(post[w].reply, valid, TRUE)}
<1>2. question'.replies = replies /\ question'.request = q.request
  BY <1>1
<1>3. n \in Nat /\ n > 0 /\ TransportRetries \in Nat
  BY RepliesAssumption
<1>4. bad \in Nat \ {0} /\ good \in Nat /\ bad < good
  BY <1>2, RepliesAssumption
<1>5. /\ replies[bad] \in (Objects \ valid) \cup {Malformed} /\ replies[good] \in valid
      /\ fails(replies, 1, bad - 1) /\ fails(replies, bad + 1, good - 1)
  BY <1>2
<1>6. valid \subseteq Objects
  BY DEF Valid
<1>7. replies[bad] \notin {NoReply, Refused} /\ replies[good] \notin {NoReply, Refused, Malformed}
  BY <1>5, <1>6, RepliesAssumption
<1> HIDE DEF valid, replies
<1>8. post[0].reply = replies[bad] /\ post[0].next = bad + 1
  <2>1. Post(replies, 1).reply = replies[bad] /\ Post(replies, 1).next = bad + 1
    BY <1>3, <1>4, <1>5, <1>7, PostSkipsFailures
  <2> QED
    BY <2>1, PostsFollow
<1>9. post[1].reply = replies[good] /\ 1 \in 0 .. n
  <2>1. bad + 1 \in Nat /\ bad + 1 <= good /\ good <= (bad + 1) + TransportRetries
    BY <1>3, <1>4
  <2>2. Post(replies, bad + 1).reply = replies[good]
    BY <1>3, <1>4, <1>5, <1>7, <2>1, PostSkipsFailures
  <2>3. post[1] = Post(replies, post[0].next)
    <3>1. 1 \in 1 .. n /\ 1 - 1 = 0
      BY <1>3
    <3> QED
      BY <3>1, PostsFollow
  <2> QED
    BY <1>3, <1>8, <2>2, <2>3
<1> HIDE DEF post
<1>10. Repairable(post[0].reply, valid, TRUE)
  BY <1>5, <1>7, <1>8 DEF Repairable
<1>11. ~Repairable(post[1].reply, valid, TRUE)
  BY <1>5, <1>7, <1>9 DEF Repairable
<1>12. Max(asked) = 1
  <2>0. asked \subseteq 0 .. n /\ \A v \in asked : \A w \in 0 .. v - 1 : Repairable(post[w].reply, valid, TRUE)
    BY Zenon
  <2>1. 1 \in asked
    <3>1. \A w \in 0 .. 1 - 1 : w = 0
      OBVIOUS
    <3> QED
      BY <1>9, <1>10, <3>1, Zenon
  <2> HIDE DEF asked
  <2>2. \A v \in asked : v <= 1
    <3> SUFFICES ASSUME NEW v \in asked, v > 1 PROVE FALSE
      BY <1>3, <2>0
    <3>1. 1 \in 0 .. v - 1
      BY <1>3, <2>0
    <3> QED
      BY <1>11, <2>0, <3>1, Zenon
  <2>3. asked \in SUBSET Int /\ IsFiniteSet(asked)
    <3>1. IsFiniteSet(0 .. n)
      BY <1>3, FS_Interval
    <3>2. asked \in SUBSET (0 .. n)
      BY <2>0
    <3>3. IsFiniteSet(asked)
      BY <3>1, <3>2, FS_Subset
    <3> QED
      BY <1>3, <2>0, <3>3
  <2>4. Max(asked) \in asked /\ 1 <= Max(asked)
    BY <2>1, <2>3, BoundsExist
  <2>5. Max(asked) <= 1 /\ Max(asked) \in Int
    BY <2>2, <2>3, <2>4
  <2> QED
    BY <2>4, <2>5
<1>13. /\ Request(replies, valid, TRUE).reply = post[1].reply
       /\ Request(replies, valid, TRUE).accepted = (post[1].reply \in valid)
  BY <1>12 DEF Request, post
<1> QED
  BY <1>1, <1>2, <1>5, <1>9, <1>13 DEF replies, valid

\* A card is a valid draft: either a reply or the template that is validated too.
LEMMA GroundedCard == Write => OnlyGroundedAnswersAreUsed'
<1> SUFFICES ASSUME Write, question'.kind = "card", answer'.written
             PROVE  /\ answer'.draft.numbers \subseteq question'.packet.numbers
                    /\ ToSet(answer'.draft.evidence) \subseteq ToSet(question'.packet.evidence)
                    /\ answer'.draft.owner = Playbook.owner
  <2>1. Write => question'.kind = "card"
    BY DEF Write
  <2> QED
    BY <2>1 DEF OnlyGroundedAnswersAreUsed, Asked
<1>1. PICK q \in CardInputs :
        /\ question' = [kind |-> "card", packet |-> q.packet, replies |-> q.replies]
        /\ answer' = WriteCard(q.packet, q.replies, Drafts)
  BY Zenon DEF Write
<1>2. answer'.written = ValidDraft(answer'.draft, q.packet) /\ question'.packet = q.packet
  BY <1>1 DEF WriteCard
<1> QED
  BY <1>2 DEF ValidDraft

\* A classification that is accepted was validated.
LEMMA GroundedClassification == Classify => OnlyGroundedAnswersAreUsed'
<1> SUFFICES ASSUME Classify, question'.kind = "classification", answer'.accepted
             PROVE  \/ question'.request.fixed # "none" \/ answer'.reply.primary = "none"
                    \/ answer'.reply.brandSpan = "text"
  <2>1. Classify => question'.kind = "classification"
    BY DEF Classify
  <2> QED
    BY <2>1 DEF OnlyGroundedAnswersAreUsed, Asked
<1>1. PICK q \in ClassifyInputs :
        /\ question' = [kind |-> "classification", request |-> q.request, replies |-> q.replies]
        /\ answer' = Request(q.replies, Valid(q.request), TRUE)
  BY Zenon DEF Classify
<1>2. answer'.accepted = (answer'.reply \in Valid(q.request)) /\ question'.request = q.request
  BY <1>1 DEF Request
<1> QED
  BY <1>2 DEF Valid, ValidClassification
-----------------------------------------------------------------------------
(* The cards of Today. *)

\* Among candidates with ids of their own one is always the best: none is
\* stronger, and none is as strong with fewer cards of its owner.
LEMMA BestIsBest ==
    ASSUME NEW S, IsFiniteSet(S), S # {}, \A c \in S : c.id \in Int /\ c.strength \in Int,
           \A c, e \in S : c.id = e.id => c = e,
           NEW load, \A c \in S : load[c.owner] \in Nat
    PROVE  /\ Best(S, load) \in S
           /\ \A c \in S \ {Best(S, load)} : ~Stronger(c, Best(S, load), load)
<1> DEFINE Wins(c, e) == Stronger(c, e, load) \/ (~Stronger(e, c, load) /\ c.id < e.id)
           less == {pair \in S \X S : Wins(pair[1], pair[2])}
<1>1. \A c, e \in S : c # e => Wins(c, e) \/ Wins(e, c)
  BY DEF Stronger
<1>2. \A c, e, g \in S : Wins(c, e) /\ Wins(e, g) => Wins(c, g)
  BY DEF Stronger
<1>3. \A c, e \in S : Wins(c, e) => ~Stronger(e, c, load)
  BY DEF Stronger
<1>4. \A c \in S : ~Wins(c, c)
  BY DEF Stronger
<1> HIDE DEF Wins
<1>5. \A c, e \in S : <<c, e>> \in less <=> Wins(c, e)
  OBVIOUS
<1> HIDE DEF less
<1>6. Orders(less, S)
  BY <1>1, <1>2, <1>4, <1>5 DEF Orders
<1>7. \E c \in S : \A e \in S \ {c} : Wins(c, e)
  <2>1. \E c \in S : \A e \in S \ {c} : <<c, e>> \in less
    BY <1>6, FirstExists
  <2> QED
    BY <1>5, <2>1
<1>8. Best(S, load) = CHOOSE c \in S : \A e \in S \ {c} : Wins(c, e)
  BY DEF Best, Wins
<1>9. Best(S, load) \in S /\ \A e \in S \ {Best(S, load)} : Wins(Best(S, load), e)
  BY <1>7, <1>8
<1> QED
  BY <1>3, <1>9

\* The owners of the cards before the i-th one, in a sequence of cards.
OwnedBefore(s, i, o) == \E j \in 1 .. i - 1 : s[j].owner = o
\* Each card was the best of those that were left.
WellChosen(s, healthy) ==
    \A i \in 1 .. Len(s) : \A c \in healthy : (\A j \in 1 .. i : s[j] # c) =>
        /\ c.strength <= s[i].strength
        /\ c.strength = s[i].strength /\ OwnedBefore(s, i, s[i].owner)
            => OwnedBefore(s, i, c.owner)

\* The load of an owner is positive exactly when a card before is the owner's.
LEMMA LoadCounts ==
    ASSUME NEW T, NEW s \in Seq(T), NEW owners, NEW o \in owners
    PROVE  /\ Load(s, owners)[o] \in Nat
           /\ Load(s, owners)[o] > 0 <=> OwnedBefore(s, Len(s) + 1, o)
<1> DEFINE mine == {i \in DOMAIN s : s[i].owner = o}
<1>0. Len(s) \in Nat /\ DOMAIN s = 1 .. Len(s)
  OBVIOUS
<1>1. IsFiniteSet(mine)
  <2>1. IsFiniteSet(1 .. Len(s)) /\ mine \in SUBSET (1 .. Len(s))
    BY <1>0, FS_Interval
  <2> HIDE DEF mine
  <2> QED
    BY <2>1, FS_Subset
<1>2. Load(s, owners)[o] = Cardinality(mine)
  BY DEF Load
<1>3. Cardinality(mine) \in Nat /\ (Cardinality(mine) = 0 <=> mine = {})
  <2> HIDE DEF mine
  <2> QED
    BY <1>1, FS_EmptySet, FS_CardinalityType
<1>4. mine # {} <=> OwnedBefore(s, Len(s) + 1, o)
  BY <1>0 DEF OwnedBefore
<1> HIDE DEF mine
<1> QED
  BY <1>2, <1>3, <1>4

\* One more card: the best of the others.
LEMMA OneMoreCard ==
    ASSUME NEW healthy, IsFiniteSet(healthy), \A c \in healthy : c.id \in Int /\ c.strength \in Int,
           \A c, e \in healthy : c.id = e.id => c = e,
           NEW owners, \A c \in healthy : c.owner \in owners,
           NEW s \in Seq(healthy), WellChosen(s, healthy),
           healthy \ {s[i] : i \in DOMAIN s} # {}
    PROVE  LET rest == healthy \ {s[i] : i \in DOMAIN s}
               more == Append(s, Best(rest, Load(s, owners)))
           IN  more \in Seq(healthy) /\ WellChosen(more, healthy)
<1> DEFINE rest == healthy \ {s[i] : i \in DOMAIN s}
           load == Load(s, owners)
           b == Best(rest, load)
           more == Append(s, b)
<1>1. IsFiniteSet(rest) /\ rest # {} /\ rest \subseteq healthy
  <2>1. rest \subseteq healthy /\ rest # {}
    OBVIOUS
  <2> HIDE DEF rest
  <2> QED
    BY <2>1, FS_Subset
<1>2. \A c \in rest : load[c.owner] \in Nat
                      /\ (load[c.owner] > 0 <=> OwnedBefore(s, Len(s) + 1, c.owner))
  BY <1>1, LoadCounts
<1>3. b \in rest /\ \A c \in rest \ {b} : ~Stronger(c, b, load)
  <2> HIDE DEF rest, load
  <2> QED
    BY <1>1, <1>2, BestIsBest
<1>r. rest = {c \in healthy : \A i \in 1 .. Len(s) : s[i] # c}
  OBVIOUS
<1> HIDE DEF rest, load, b
<1>4. b \in healthy
  BY <1>1, <1>3
<1>5. /\ more \in Seq(healthy) /\ Len(more) = Len(s) + 1 /\ more[Len(s) + 1] = b
      /\ Len(s) \in Nat /\ \A i \in 1 .. Len(s) : more[i] = s[i]
  BY <1>4
<1> HIDE DEF more
<1>6. ASSUME NEW i \in 1 .. Len(more), NEW c \in healthy, \A j \in 1 .. i : more[j] # c
      PROVE  /\ c.strength <= more[i].strength
             /\ c.strength = more[i].strength /\ OwnedBefore(more, i, more[i].owner)
                 => OwnedBefore(more, i, c.owner)
  <2>1. CASE i \in 1 .. Len(s)
    <3>1. \A j \in 1 .. i : j \in 1 .. Len(s) /\ more[j] = s[j]
      BY <1>5, <2>1
    <3>2. more[i] = s[i] /\ \A j \in 1 .. i : s[j] # c
      BY <1>5, <1>6, <2>1, <3>1
    <3>3. \A o : OwnedBefore(more, i, o) <=> OwnedBefore(s, i, o)
      <4>1. \A j \in 1 .. i - 1 : more[j] = s[j]
        BY <1>5, <2>1
      <4> QED
        BY <4>1 DEF OwnedBefore
    <3> QED
      BY <2>1, <3>2, <3>3 DEF WellChosen
  <2>2. CASE i = Len(s) + 1
    <3>1. c \in rest \ {b}
      <4>1. \A j \in 1 .. Len(s) : s[j] # c
        <5> SUFFICES ASSUME NEW j \in 1 .. Len(s) PROVE s[j] # c
          OBVIOUS
        <5>1. j \in 1 .. i /\ more[j] = s[j]
          BY <1>5, <2>2
        <5> QED
          BY <1>6, <5>1
      <4>2. more[i] # c /\ more[i] = b
        BY <1>5, <1>6, <2>2
      <4> QED
        BY <1>r, <4>1, <4>2
    <3>2. ~Stronger(c, b, load)
      BY <1>3, <3>1
    <3>3. c.strength \in Int /\ b.strength \in Int /\ load[c.owner] \in Nat /\ load[b.owner] \in Nat
      BY <1>1, <1>2, <1>3, <3>1
    <3>4. \A o : OwnedBefore(more, i, o) <=> OwnedBefore(s, i, o)
      <4>1. \A j \in 1 .. i - 1 : more[j] = s[j]
        BY <1>5, <2>2
      <4> QED
        BY <4>1 DEF OwnedBefore
    <3>5. more[i] = b
      BY <1>5, <2>2
    <3>6. /\ load[c.owner] > 0 <=> OwnedBefore(s, i, c.owner)
          /\ load[b.owner] > 0 <=> OwnedBefore(s, i, b.owner)
      BY <1>2, <1>3, <2>2, <3>1
    <3>7. c.strength <= b.strength
      BY <3>2, <3>3 DEF Stronger
    <3>8. c.strength = b.strength => load[b.owner] <= load[c.owner]
      BY <3>2, <3>3 DEF Stronger
    <3> QED
      BY <3>3, <3>4, <3>5, <3>6, <3>7, <3>8
  <2> QED
    BY <1>5, <2>1, <2>2
<1> QED
  BY <1>5, <1>6 DEF WellChosen, more, b, rest, load

\* What Today shows was well chosen, card for card.
LEMMA TodayIsWellChosen ==
    ASSUME NEW candidates \in CandidateInputs
    PROVE  LET healthy == {c \in candidates : c.healthy}
           IN  Today(candidates) \in Seq(healthy) /\ WellChosen(Today(candidates), healthy)
<1> DEFINE healthy == {c \in candidates : c.healthy}
           owners == {c.owner : c \in candidates}
           rest(s) == healthy \ {s[i] : i \in DOMAIN s}
           Next1(s) == IF rest(s) = {} THEN s ELSE Append(s, Best(rest(s), Load(s, owners)))
           C == {s \in Seq(healthy) : WellChosen(s, healthy)}
           step == [k \in 1 .. Limit |-> [s \in C |-> Next1(s)]]
           Eq(f) == f = [k \in 0 .. Limit |-> IF k = 0 THEN <<>> ELSE Next1(f[k - 1])]
<1>1. /\ IsFiniteSet(healthy) /\ \A c \in healthy : c.id \in Int /\ c.strength \in Int
      /\ \A c, e \in healthy : c.id = e.id => c = e
      /\ \A c \in healthy : c.owner \in owners
      /\ Limit \in Nat
  <2>1. IsFiniteSet(candidates) /\ healthy \subseteq candidates
    BY CandidatesAssumption
  <2>2. IsFiniteSet(healthy)
    <3> HIDE DEF healthy
    <3> QED
      BY <2>1, FS_Subset
  <2> QED
    BY <2>1, <2>2, CandidatesAssumption
<1>2. <<>> \in C
  BY DEF WellChosen
<1> HIDE DEF healthy, owners
<1>3. ASSUME NEW s \in C PROVE Next1(s) \in C
  <2>1. CASE rest(s) = {}
    BY <2>1
  <2>2. CASE rest(s) # {}
    <3>1. Next1(s) = Append(s, Best(rest(s), Load(s, owners)))
      BY <2>2
    <3>2. s \in Seq(healthy) /\ WellChosen(s, healthy)
      OBVIOUS
    <3> HIDE DEF Next1
    <3>3. Next1(s) \in Seq(healthy) /\ WellChosen(Next1(s), healthy)
      BY <1>1, <2>2, <3>1, <3>2, OneMoreCard
    <3> QED
      BY <3>3
  <2> QED
    BY <2>1, <2>2
<1> HIDE DEF C, Next1
<1>4. PICK f : f \in [0 .. Limit -> C] /\ Eq(f)
  <2>1. \A k \in 1 .. Limit, s \in C : step[k][s] = Next1(s)
    OBVIOUS
  <2>2. \A k \in 1 .. Limit, s \in C : step[k][s] \in C
    BY <1>3, <2>1
  <2> HIDE DEF step
  <2>3. Defined(Limit, C, <<>>, step)
    BY <1>1, <1>2, <2>2, Recursion
  <2>4. PICK f \in [0 .. Limit -> C] :
            f[0] = <<>> /\ \A k \in 1 .. Limit : f[k] = step[k][f[k - 1]]
    BY <2>3 DEF Defined
  <2>5. \A k \in 1 .. Limit : f[k] = Next1(f[k - 1])
    BY <1>1, <2>1, <2>4
  <2>6. Eq(f)
    BY <1>1, <2>4, <2>5
  <2> QED
    BY <2>4, <2>6
<1>5. ChosenCards(candidates) = CHOOSE g : Eq(g)
  BY DEF ChosenCards, Next1, owners, healthy
<1> HIDE DEF Eq
<1>6. Eq(ChosenCards(candidates))
  BY <1>4, <1>5
<1> DEFINE g == ChosenCards(candidates)
<1>7. g = [k \in 0 .. Limit |-> IF k = 0 THEN <<>> ELSE Next1(g[k - 1])]
  BY <1>6 DEF Eq
<1> HIDE DEF g
<1> DEFINE P == {k \in Nat : k <= Limit => g[k] \in C}
<1>8. 0 \in P
  BY <1>1, <1>2, <1>7
<1>9. ASSUME NEW k \in Nat, k \in P PROVE k + 1 \in P
  <2> SUFFICES ASSUME k + 1 <= Limit PROVE g[k + 1] \in C
    OBVIOUS
  <2>1. g[k] \in C /\ k + 1 \in 0 .. Limit /\ k + 1 # 0 /\ (k + 1) - 1 = k
    BY <1>1, <1>9
  <2>2. g[k + 1] = Next1(g[k])
    BY <1>7, <2>1
  <2> QED
    BY <1>3, <2>1, <2>2
<1>10. \A k \in Nat : k \in P
  <2> HIDE DEF P
  <2> QED
    BY <1>8, <1>9, NatSetInduction
<1>11. Today(candidates) = g[Limit] /\ g[Limit] \in C
  BY <1>1, <1>10 DEF Today, g
<1> QED
  BY <1>11 DEF C, healthy

\* rank_today_candidates: by induction over the cards, each was the best of
\* those left.
LEMMA ShownCards ==
    RankToday => StrongestAreShown' /\ TiesSpreadOwners'
<1> SUFFICES ASSUME RankToday PROVE StrongestAreShown' /\ TiesSpreadOwners'
  OBVIOUS
<1>1. PICK candidates \in CandidateInputs :
        /\ question' = [kind |-> "today", candidates |-> candidates]
        /\ answer' = Today(candidates)
  BY Zenon DEF RankToday
<1> DEFINE healthy == {c \in candidates : c.healthy}
           s == Today(candidates)
<1>2. s \in Seq(healthy) /\ WellChosen(s, healthy)
  BY TodayIsWellChosen
<1>3. question'.candidates = candidates /\ answer' = s
  BY <1>1
<1>4. ASSUME NEW i \in DOMAIN s, NEW c \in candidates \ ToSet(s), c.healthy
      PROVE  /\ c.strength <= s[i].strength
             /\ c.strength = s[i].strength /\ (\E j \in 1 .. i - 1 : s[j].owner = s[i].owner)
                => \E j \in 1 .. i - 1 : s[j].owner = c.owner
  <2>1. DOMAIN s = 1 .. Len(s) /\ Len(s) \in Nat
    BY <1>2
  <2>2. c \in healthy /\ i \in 1 .. Len(s)
    <3>1. c \in healthy
      BY <1>4
    <3> HIDE DEF s, healthy
    <3> QED
      BY <2>1, <3>1
  <2>3. \A j \in 1 .. i : s[j] # c
    BY <1>2, <2>1, <2>2 DEF ToSet
  <2> HIDE DEF s, healthy
  <2> QED
    BY <1>2, <2>2, <2>3 DEF WellChosen, OwnedBefore
<1> HIDE DEF s
<1> QED
  BY <1>3, <1>4 DEF StrongestAreShown, TiesSpreadOwners, Asked
-----------------------------------------------------------------------------
(* The dashboard: evidence and comparison. *)

\* Newer feedback first: there is one order of the rows.
LEMMA NewerOrders ==
    ASSUME NEW rows, IsRows(rows), NEW S \in SUBSET rows
    PROVE  Orders({pair \in S \X S : Newer(pair[1], pair[2])}, S)
<1> DEFINE less == {pair \in S \X S : Newer(pair[1], pair[2])}
<1>1. \A r, s \in S : <<r, s>> \in less <=> Newer(r, s)
  OBVIOUS
<1>2. \A r \in S : r.id \in Nat /\ r.day \in Int \cup {None} /\ r.confidence \in Nat
  BY DEF IsRows
<1>3. \A r, s \in S : r.id = s.id => r = s
  BY DEF IsRows
<1>4. None \notin Int
  BY RowsAssumption
<1> HIDE DEF less
<1>5. \A r \in S : ~Newer(r, r)
  BY <1>2, <1>4 DEF Newer, Later
<1>6. \A r, s \in S : r # s => Newer(r, s) \/ Newer(s, r)
  BY <1>2, <1>3, <1>4 DEF Newer, Later
<1>7. \A r, s, t \in S : Newer(r, s) /\ Newer(s, t) => Newer(r, t)
  BY <1>2, <1>4 DEF Newer, Later
<1> QED
  BY <1>1, <1>5, <1>6, <1>7 DEF Orders

\* How many rows of a part are a product's.
OfProduct(part, p) == Cardinality({r \in part : r.product = p})

\* Products take turns: what is sooner than the newest row of a product that is
\* not shown is sooner than the oldest row of a product that shows two more.
LEMMA ProductsTakeTurns ==
    ASSUME NEW rows, IsRows(rows), NEW E \in SUBSET rows, NEW products, NEW p, NEW q,
           OfProduct(Sample(products, E), p) < OfProduct(E, p)
    PROVE  OfProduct(Sample(products, E), q) <= OfProduct(Sample(products, E), p) + 1
<1> DEFINE shown(x) == {r \in Sample(products, E) : r.product = x}
           all(x) == {r \in E : r.product = x}
           before(r) == {s \in E : s.product = r.product /\ s # r /\ Newer(s, r)}
           sooner(r) == {s \in E \ {r} : Sooner(products, E, s, r)}
<1>1. IsFiniteSet(E) /\ Sample(products, E) \subseteq E
  BY FS_Subset DEF IsRows, Sample
<1>2. ASSUME NEW x
      PROVE  IsFiniteSet(shown(x)) /\ IsFiniteSet(all(x)) /\ shown(x) \subseteq all(x)
  <2>1. shown(x) \subseteq E /\ all(x) \subseteq E /\ shown(x) \subseteq all(x)
    BY <1>1
  <2> HIDE DEF shown, all
  <2> QED
    BY <1>1, <2>1, FS_Subset
<1>3. ASSUME NEW r \in E
      PROVE  /\ IsFiniteSet(before(r)) /\ Cardinality(before(r)) \in Nat
             /\ Round(E, r) = Cardinality(before(r))
             /\ IsFiniteSet(sooner(r)) /\ Cardinality(sooner(r)) \in Nat
             /\ (r \in Sample(products, E) <=> Cardinality(sooner(r)) < EvidenceLimit)
  <2>1. before(r) \subseteq E /\ sooner(r) \subseteq E
    OBVIOUS
  <2>2. Round(E, r) = Cardinality(before(r))
    BY DEF Round
  <2>3. r \in Sample(products, E) <=> Cardinality(sooner(r)) < EvidenceLimit
    BY DEF Sample
  <2> HIDE DEF before, sooner
  <2> QED
    BY <1>1, <2>1, <2>2, <2>3, FS_Subset, FS_CardinalityType
<1>4. /\ Cardinality(shown(p)) \in Nat /\ Cardinality(all(p)) \in Nat
      /\ Cardinality(shown(q)) \in Nat
  <2> HIDE DEF shown, all
  <2> QED
    BY <1>2, FS_CardinalityType
<1>5. Cardinality(shown(p)) < Cardinality(all(p))
  BY DEF OfProduct
<1>6. \A S \in SUBSET E : S # {} => \E r \in S : \A s \in S \ {r} : Newer(r, s)
  <2> SUFFICES ASSUME NEW S \in SUBSET E, S # {} PROVE \E r \in S : \A s \in S \ {r} : Newer(r, s)
    OBVIOUS
  <2> DEFINE less == {pair \in S \X S : Newer(pair[1], pair[2])}
  <2>1. IsFiniteSet(S) /\ S \in SUBSET rows
    BY <1>1, FS_Subset
  <2>2. Orders(less, S)
    BY <2>1, NewerOrders
  <2>3. \A r, s \in S : <<r, s>> \in less => Newer(r, s)
    OBVIOUS
  <2> HIDE DEF less
  <2>4. \E r \in S : \A s \in S \ {r} : <<r, s>> \in less
    BY <2>1, <2>2, FirstExists
  <2> QED
    BY <2>3, <2>4
<1>7. \A S \in SUBSET E : S # {} => \E r \in S : \A s \in S \ {r} : Newer(s, r)
  <2> SUFFICES ASSUME NEW S \in SUBSET E, S # {} PROVE \E r \in S : \A s \in S \ {r} : Newer(s, r)
    OBVIOUS
  <2> DEFINE less == {pair \in S \X S : Newer(pair[1], pair[2])}
             more == {pair \in S \X S : Newer(pair[2], pair[1])}
  <2>1. IsFiniteSet(S) /\ S \in SUBSET rows
    BY <1>1, FS_Subset
  <2>2. Orders(less, S)
    BY <2>1, NewerOrders
  <2>3. \A r, s \in S : (<<r, s>> \in less <=> Newer(r, s)) /\ (<<s, r>> \in more <=> Newer(r, s))
    OBVIOUS
  <2> HIDE DEF less, more
  <2>4. Orders(more, S)
    BY <2>2, <2>3 DEF Orders
  <2>5. \E r \in S : \A s \in S \ {r} : <<r, s>> \in more
    BY <2>1, <2>4, FirstExists
  <2> QED
    BY <2>3, <2>5
<1>8. SUFFICES ASSUME Cardinality(shown(q)) > Cardinality(shown(p)) + 1 PROVE FALSE
  BY <1>4 DEF OfProduct
<1> HIDE DEF shown, all, before, sooner
\* The newest row of p that is not shown: all before it are.
<1>9. PICK r \in all(p) \ shown(p) : \A s \in (all(p) \ shown(p)) \ {r} : Newer(r, s)
  <2>1. all(p) \ shown(p) # {}
    <3>1. shown(p) # all(p) /\ shown(p) \subseteq all(p)
      BY <1>2, <1>4, <1>5
    <3> QED
      BY <3>1
  <2>2. all(p) \ shown(p) \in SUBSET E
    BY DEF all
  <2> QED
    BY <1>6, <2>1, <2>2
<1>10. r \in E /\ r.product = p /\ r \notin Sample(products, E)
  BY <1>9 DEF all, shown
<1>11. \A s, t \in E : s # t => ~(Newer(s, t) /\ Newer(t, s))
  <2>1. \A s \in E : s.id \in Nat /\ s.day \in Int \cup {None} /\ s.confidence \in Nat
    BY DEF IsRows
  <2> QED
    BY <2>1, RowsAssumption DEF Newer, Later
<1>12. before(r) \subseteq shown(p)
  <2> SUFFICES ASSUME NEW s \in before(r), s \notin shown(p) PROVE FALSE
    OBVIOUS
  <2>1. s \in E /\ s.product = p /\ s # r /\ Newer(s, r)
    BY <1>10 DEF before
  <2>2. s \in (all(p) \ shown(p)) \ {r}
    BY <2>1 DEF all
  <2> QED
    BY <1>9, <1>10, <1>11, <2>1, <2>2
<1>13. Round(E, r) \in Nat /\ Round(E, r) <= Cardinality(shown(p))
  BY <1>2, <1>3, <1>10, <1>12, FS_Subset
\* The oldest row that is shown of q: all others are before it.
<1>14. PICK t \in shown(q) : \A s \in shown(q) \ {t} : Newer(s, t)
  <2>1. shown(q) # {}
    BY <1>4, <1>8, FS_EmptySet
  <2>2. shown(q) \in SUBSET E
    BY <1>1 DEF shown
  <2> QED
    BY <1>7, <2>1, <2>2
<1>15. t \in E /\ t.product = q /\ t \in Sample(products, E)
  BY <1>1 DEF shown
<1>16. shown(q) \ {t} \subseteq before(t)
  BY <1>1, <1>14, <1>15 DEF shown, before
<1>17. Round(E, t) \in Nat /\ Round(E, t) >= Cardinality(shown(q)) - 1
  <2>1. IsFiniteSet(shown(q) \ {t}) /\ Cardinality(shown(q) \ {t}) = Cardinality(shown(q)) - 1
    BY <1>2, FS_RemoveElement
  <2>2. Cardinality(shown(q) \ {t}) <= Cardinality(before(t))
    BY <1>3, <1>15, <1>16, FS_Subset
  <2>3. Round(E, t) = Cardinality(before(t)) /\ Round(E, t) \in Nat
    BY <1>3, <1>15
  <2> QED
    BY <1>4, <2>1, <2>2, <2>3
<1>18. Round(E, r) < Round(E, t)
  BY <1>4, <1>8, <1>13, <1>17
<1>19. sooner(r) \subseteq sooner(t)
  <2> SUFFICES ASSUME NEW s \in sooner(r) PROVE s \in sooner(t)
    OBVIOUS
  <2>1. s \in E /\ Sooner(products, E, s, r)
    BY DEF sooner
  <2>2. Round(E, s) \in Nat
    BY <1>3, <2>1
  <2>3. Round(E, s) <= Round(E, r)
    BY <1>13, <2>1, <2>2 DEF Sooner
  <2>4. Round(E, s) < Round(E, t)
    BY <1>13, <1>17, <1>18, <2>2, <2>3
  <2>5. s # t /\ Sooner(products, E, s, t)
    BY <1>17, <2>2, <2>4 DEF Sooner
  <2> QED
    BY <2>1, <2>5 DEF sooner
<1>20. Cardinality(sooner(r)) <= Cardinality(sooner(t))
  BY <1>3, <1>15, <1>19, FS_Subset
<1>21. Cardinality(sooner(t)) < EvidenceLimit
  BY <1>3, <1>15
<1>22. Cardinality(sooner(r)) \in Nat /\ Cardinality(sooner(t)) \in Nat
  BY <1>3, <1>10, <1>15
<1>23. Cardinality(sooner(r)) < EvidenceLimit
  BY <1>20, <1>21, <1>22, ViewsAssumption
<1> QED
  BY <1>3, <1>10, <1>23

\* What ReadDashboard asks and answers, field by field.
ShowsDashboard(q) ==
    LET period == PeriodOf(q).name
        windows == DashboardDays(PeriodOf(q))
        products == Products(q.rows, windows, q.inferred)
        evidence == EvidenceRows(q.rows, q.range.name, windows.current, q.inferred)
    IN  /\ question.rows = q.rows /\ question.range = q.range.name /\ question.period = period
        /\ question.windows = windows /\ question.inferred = q.inferred
        /\ answer.state = DataState(q.rows, windows, q.inferred)
        /\ answer.products = products
        /\ answer.trend = SentimentTrend(q.rows, period, windows.current, q.inferred)
        /\ answer.productTrends = [p \in DOMAIN products |->
                ProductTrend(q.rows, p, period, windows.current, q.inferred)]
        /\ answer.evidence = Sample(products, evidence)
        /\ answer.comparison = Compared(q.rows, windows.current, q.inferred)
        /\ answer.allDetails = [p \in ToSet(SubtopicOrder) |->
                Detail(q.rows, p, None, None, q.inferred)]
        /\ answer.details = [p \in ToSet(SubtopicOrder) |->
                Detail(q.rows, p, windows.current, windows.baseline, q.inferred)]

\* A step that reads the dashboard shows the dashboard of one of its inputs.
LEMMA DashboardShown ==
    ASSUME ReadDashboard
    PROVE  \E q \in DashboardInputs : ShowsDashboard(q)'
<1>1. PICK q \in DashboardInputs :
        LET period == PeriodOf(q).name
            windows == DashboardDays(PeriodOf(q))
            products == Products(q.rows, windows, q.inferred)
            details(now, before) == [p \in ToSet(SubtopicOrder) |->
                                    Detail(q.rows, p, now, before, q.inferred)]
        IN  /\ question' = [kind |-> "dashboard", rows |-> q.rows, range |-> q.range.name,
                            period |-> period, windows |-> windows, inferred |-> q.inferred]
            /\ answer' = [state |-> DataState(q.rows, windows, q.inferred),
                          products |-> products,
                          trend |-> SentimentTrend(q.rows, period, windows.current, q.inferred),
                          productTrends |-> [p \in DOMAIN products |->
                              ProductTrend(q.rows, p, period, windows.current, q.inferred)],
                          evidence |-> Sample(products, EvidenceRows(q.rows, q.range.name,
                                                          windows.current, q.inferred)),
                          comparison |-> Compared(q.rows, windows.current, q.inferred),
                          allDetails |-> details(None, None),
                          details |-> details(windows.current, windows.baseline)]
  BY Zenon DEF ReadDashboard
<1>2. ShowsDashboard(q)'
  BY <1>1 DEF ShowsDashboard
<1> QED
  BY <1>2

\* The evidence of the dashboard takes turns.
LEMMA SpreadEvidence == ReadDashboard => EvidenceIsSpread'
<1> SUFFICES ASSUME ReadDashboard PROVE EvidenceIsSpread'
  OBVIOUS
<1>1. PICK q \in DashboardInputs : ShowsDashboard(q)'
  BY DashboardShown
<1> DEFINE rows == q.rows
           windows == DashboardDays(PeriodOf(q))
           products == Products(rows, windows, q.inferred)
           E == EvidenceRows(rows, q.range.name, windows.current, q.inferred)
<1>2. /\ question'.rows = rows /\ question'.range = q.range.name
      /\ question'.windows = windows /\ question'.inferred = q.inferred
      /\ answer'.products = products /\ answer'.evidence = Sample(products, E)
  BY <1>1 DEF ShowsDashboard
<1>3. EvidenceRows(question'.rows, question'.range, question'.windows.current,
                   question'.inferred) = E
  BY <1>2
<1>4. IsRows(rows) /\ E \in SUBSET rows
  BY RowsAssumption DEF EvidenceRows, InPeriod, GuardianRows, Independent
<1>5. ASSUME NEW p, NEW x, OfProduct(Sample(products, E), p) < OfProduct(E, p)
      PROVE  OfProduct(Sample(products, E), x) <= OfProduct(Sample(products, E), p) + 1
  <2> HIDE DEF products, E, rows
  <2> QED
    BY <1>4, <1>5, ProductsTakeTurns
<1> HIDE DEF products, E, rows, windows
<1> QED
  BY <1>2, <1>3, <1>5 DEF EvidenceIsSpread, OfProduct

\* A comparison rests on enough feedback of every brand.
LEMMA EnoughCompared ==
    ASSUME NEW rows, IsRows(rows), NEW window, NEW inferred, NEW b \in Brands,
           Compared(rows, window, inferred) # <<>>
    PROVE  Compared(rows, window, inferred)[b].feedback >= MinSample
<1> DEFINE basis == Basis(rows, window, inferred)
           mine == {r \in basis : Resolved(r) = b}
           current == OfBrands(InPeriod(Independent(rows), window, inferred))
           cohorts == {{r \in current : r.source = s} : s \in PublicSources}
           common == {c \in cohorts : EveryBrand(c)}
           matched == \E s \in PublicSources : EveryBrand({r \in current : r.source = s})
           all == OfBrands(Independent(rows))
<1>1. /\ Compared(rows, window, inferred) = [x \in Brands |-> Counts({r \in basis : Resolved(r) = x})]
      /\ matched \/ EveryBrand(all)
  BY DEF Compared
<1>2. Compared(rows, window, inferred)[b].feedback = Cardinality(mine)
  BY <1>1 DEF Counts
<1>3. current \subseteq rows /\ all \subseteq rows
  BY DEF OfBrands, Completed, InPeriod, Independent
<1>4. mine \subseteq rows
  <2>1. basis = IF common # {} THEN UNION common ELSE all
    BY DEF Basis
  <2>2. UNION common \subseteq current
    OBVIOUS
  <2> HIDE DEF basis, common, current, all
  <2> QED
    BY <1>3, <2>1, <2>2
<1>5. PICK part \in SUBSET basis : EveryBrand(part)
  <2>1. basis = IF common # {} THEN UNION common ELSE all
    BY DEF Basis
  <2>2. CASE common # {}
    <3>1. PICK c \in common : TRUE
      BY <2>2
    <3>2. c \subseteq UNION common /\ EveryBrand(c)
      BY <3>1
    <3> HIDE DEF basis, common
    <3> QED
      BY <2>1, <2>2, <3>2
  <2>3. CASE common = {}
    <3>1. ~matched
      <4> SUFFICES ASSUME NEW s \in PublicSources, EveryBrand({r \in current : r.source = s})
                   PROVE  FALSE
        OBVIOUS
      <4>1. {r \in current : r.source = s} \in common
        OBVIOUS
      <4> QED
        BY <2>3, <4>1
    <3> HIDE DEF basis, common, matched, all
    <3> QED
      BY <1>1, <2>1, <2>3, <3>1
  <2> QED
    BY <2>2, <2>3
<1>6. {r \in part : Resolved(r) = b} \subseteq mine
  OBVIOUS
<1>7. Cardinality({r \in part : Resolved(r) = b}) >= MinSample
  BY <1>5 DEF EveryBrand
<1>8. IsFiniteSet(mine)
  <2> HIDE DEF mine
  <2> QED
    BY <1>4, FS_Subset DEF IsRows
<1> HIDE DEF mine, basis
<1> DEFINE some == {r \in part : Resolved(r) = b}
<1>10. some \subseteq mine /\ Cardinality(some) >= MinSample
  BY <1>6, <1>7
<1> HIDE DEF some
<1>9. Cardinality(some) \in Nat /\ Cardinality(some) <= Cardinality(mine) /\ Cardinality(mine) \in Nat
  BY <1>8, <1>10, FS_Subset, FS_CardinalityType
<1> QED
  BY <1>2, <1>9, <1>10, AnalyticsAssumption

\* A basis of comparison is only used when every brand has enough.
LEMMA ComparedEnough == ReadDashboard => ComparedBrandsHaveEnough'
<1> SUFFICES ASSUME ReadDashboard, answer'.comparison # <<>>, NEW b \in Brands
             PROVE  answer'.comparison[b].feedback >= MinSample
  BY DEF ComparedBrandsHaveEnough
<1>1. PICK q \in DashboardInputs : ShowsDashboard(q)'
  BY DashboardShown
<1>2. answer'.comparison = Compared(q.rows, DashboardDays(PeriodOf(q)).current, q.inferred)
  BY <1>1 DEF ShowsDashboard
<1>3. IsRows(q.rows)
  BY RowsAssumption
<1> QED
  BY <1>2, <1>3, EnoughCompared
-----------------------------------------------------------------------------
(* The dashboard: products, problems and trends. *)

\* The rows that stand for the feedback of Guardian are rows.
LEMMA GuardianRowsAreRows ==
    ASSUME NEW rows, IsRows(rows)
    PROVE  /\ GuardianRows(rows) \subseteq rows /\ IsFiniteSet(GuardianRows(rows))
           /\ LET products == {r.product : r \in GuardianRows(rows)}
              IN  IsFiniteSet(products)
<1>1. GuardianRows(rows) \subseteq rows
  BY DEF GuardianRows, Independent
<1>2. IsFiniteSet(GuardianRows(rows))
  BY <1>1, FS_Subset DEF IsRows
<1> DEFINE productOf == [r \in GuardianRows(rows) |-> r.product]
<1>3. {r.product : r \in GuardianRows(rows)} = {productOf[r] : r \in GuardianRows(rows)}
  OBVIOUS
<1> HIDE DEF productOf
<1>4. IsFiniteSet({productOf[r] : r \in GuardianRows(rows)})
  BY <1>2, ImageSize
<1> QED
  BY <1>1, <1>2, <1>3, <1>4

\* What every product counts of its rows adds up to what there is of all rows.
LEMMA ProductsAddUp ==
    ASSUME NEW rows, IsRows(rows), NEW T \in SUBSET GuardianRows(rows),
           NEW products, products = {r.product : r \in GuardianRows(rows)},
           NEW size, DOMAIN size = products,
           \A p \in products : size[p] = OfProduct(T, p)
    PROVE  IsFiniteSet(T) /\ SumFunction(size) = Cardinality(T)
<1> DEFINE key == [r \in T |-> r.product]
<1>1. IsFiniteSet(T) /\ IsFiniteSet(products)
  BY GuardianRowsAreRows, FS_Subset
<1>2. \A r \in T : key[r] \in products
  OBVIOUS
<1>3. \A p \in products : size[p] = Cardinality(Part(T, key, p))
  <2> SUFFICES ASSUME NEW p \in products PROVE size[p] = Cardinality(Part(T, key, p))
    OBVIOUS
  <2>1. Cardinality(Part(T, key, p)) = OfProduct(T, p)
    BY DEF Part, OfProduct
  <2> QED
    BY <2>1
<1> HIDE DEF key
<1>4. SumFunctionOnSet(size, products) = Cardinality(T)
  BY <1>1, <1>2, <1>3, SumOfParts
<1> QED
  BY <1>1, <1>4 DEF SumFunction

\* The state "ready" is reached only past every check for gaps.
LEMMA CompleteWhenReady == ReadDashboard => ReadyIsComplete'
<1> SUFFICES ASSUME ReadDashboard, answer'.state = "ready"
             PROVE  LET products == DOMAIN answer'.products
                    IN  /\ SumFunction([p \in products |-> answer'.products[p].current.feedback]) > 0
                        /\ SumFunction([p \in products |-> answer'.products[p].baseline.feedback]) > 0
                        /\ "unattributed" \notin products
                        /\ \A r \in question'.rows : r.analysis # "none"
  BY DEF ReadyIsComplete
<1>1. PICK q \in DashboardInputs : ShowsDashboard(q)'
  BY DashboardShown
<1> DEFINE rows == q.rows
           windows == DashboardDays(PeriodOf(q))
           products == {r.product : r \in GuardianRows(rows)}
           part(window) == InPeriod(GuardianRows(rows), window, q.inferred)
           guardian == {r \in rows : Resolved(r) = Guardian}
<1>2. /\ question'.rows = rows /\ answer'.products = Products(rows, windows, q.inferred)
      /\ DataState(rows, windows, q.inferred) = "ready"
  BY <1>1 DEF ShowsDashboard
<1>3. IsRows(rows)
  BY RowsAssumption
<1>4. /\ \A r \in rows : r.analysis # "none"
      /\ \A r \in guardian : r.product # "unattributed"
      /\ part(windows.current) # {} /\ part(windows.baseline) # {}
  BY <1>2 DEF DataState
<1>5. DOMAIN answer'.products = products
  BY <1>2 DEF Products
<1>6. "unattributed" \notin products
  <2>1. GuardianRows(rows) \subseteq guardian
    BY DEF GuardianRows, Independent
  <2> QED
    BY <1>4, <2>1
<1>7. \A p \in products :
        /\ answer'.products[p].current.feedback
            = OfProduct(part(windows.current), p)
        /\ answer'.products[p].baseline.feedback
            = OfProduct(part(windows.baseline), p)
  <2> SUFFICES ASSUME NEW p \in products
               PROVE  /\ answer'.products[p].current.feedback
                            = OfProduct(part(windows.current), p)
                      /\ answer'.products[p].baseline.feedback
                            = OfProduct(part(windows.baseline), p)
    OBVIOUS
  <2> DEFINE mine == {r \in GuardianRows(rows) : r.product = p}
  <2>1. answer'.products[p] = ProductView(rows, p, windows, q.inferred)
    BY <1>2 DEF Products
  <2>2. /\ answer'.products[p].current.feedback = Cardinality(InPeriod(mine, windows.current, q.inferred))
        /\ answer'.products[p].baseline.feedback = Cardinality(InPeriod(mine, windows.baseline, q.inferred))
    <3>1. /\ answer'.products[p].current = Counts(InPeriod(mine, windows.current, q.inferred))
          /\ answer'.products[p].baseline = Counts(InPeriod(mine, windows.baseline, q.inferred))
      BY <2>1 DEF ProductView
    <3>2. ASSUME NEW period PROVE Counts(period).feedback = Cardinality(period)
      BY DEF Counts
    <3> HIDE DEF mine, windows
    <3> QED
      BY <3>1, <3>2
  <2>3. ASSUME NEW window
        PROVE  Cardinality(InPeriod(mine, window, q.inferred)) = OfProduct(part(window), p)
    BY DEF InPeriod, OfProduct
  <2> QED
    BY <2>2, <2>3
<1>8. ASSUME NEW window, part(window) # {}, NEW size, DOMAIN size = products,
             \A p \in products : size[p] = OfProduct(part(window), p)
      PROVE  SumFunction(size) > 0
  <2>1. part(window) \in SUBSET GuardianRows(rows)
    BY DEF InPeriod
  <2>4. products = {r.product : r \in GuardianRows(rows)}
    OBVIOUS
  <2> HIDE DEF rows, part, products
  <2>2. IsFiniteSet(part(window)) /\ SumFunction(size) = Cardinality(part(window))
    BY <1>3, <1>8, <2>1, <2>4, ProductsAddUp
  <2>3. Cardinality(part(window)) \in Nat /\ Cardinality(part(window)) # 0
    BY <1>8, <2>2, FS_EmptySet, FS_CardinalityType
  <2> QED
    BY <2>2, <2>3
<1> HIDE DEF products, part
<1>9. /\ SumFunction([p \in products |-> answer'.products[p].current.feedback]) > 0
      /\ SumFunction([p \in products |-> answer'.products[p].baseline.feedback]) > 0
  <2> DEFINE now == [p \in products |-> answer'.products[p].current.feedback]
             then == [p \in products |-> answer'.products[p].baseline.feedback]
  <2>1. /\ DOMAIN now = products /\ \A p \in products : now[p] = OfProduct(part(windows.current), p)
        /\ DOMAIN then = products /\ \A p \in products : then[p] = OfProduct(part(windows.baseline), p)
    BY <1>7
  <2> HIDE DEF now, then, windows
  <2>2. SumFunction(now) > 0 /\ SumFunction(then) > 0
    BY <1>4, <1>8, <2>1
  <2> QED
    BY <2>2 DEF now, then
<1> HIDE DEF rows
<1> QED
  BY <1>2, <1>4, <1>5, <1>6, <1>9

\* The windows of a dashboard are days.
LEMMA DashboardDaysAreDays ==
    ASSUME NEW q \in DashboardInputs
    PROVE  /\ DashboardDays(PeriodOf(q)).current \in Int \X Int
           /\ DashboardDays(PeriodOf(q)).baseline \in Int \X Int
<1> DEFINE range == PeriodOf(q)
           w == DashboardWindows(AsOf, FALSE, range)
<1>1. /\ AsOf \in Int /\ Offset \in Int
      /\ IF range.kind = "custom" THEN range.from \in Int /\ range.to \in Int
         ELSE range.days \in Int
  BY RowsAssumption DEF PeriodOf, IsRange
<1> HIDE DEF range
<1>2. EndOfWindow(AsOf, FALSE) \in Int
  BY <1>1 DEF EndOfWindow
<1>3. /\ w.current[1] \in Int /\ w.current[2] \in Int
      /\ w.baseline[1] \in Int /\ w.baseline[2] \in Int
  <2> DEFINE end == IF range.kind = "custom" THEN 24 * (range.to + 1) - Offset
                    ELSE EndOfWindow(AsOf, FALSE)
             start == IF range.kind = "custom" THEN 24 * range.from - Offset
                      ELSE end - 24 * range.days
  <2>1. start \in Int /\ end \in Int
    <3>1. CASE range.kind = "custom"
      BY <1>1, <3>1
    <3>2. CASE range.kind # "custom"
      <4> DEFINE midnight == EndOfWindow(AsOf, FALSE)
      <4>1. end = midnight /\ start = midnight - 24 * range.days /\ midnight \in Int
        BY <1>2, <3>2
      <4>2. range.days \in Int
        BY <1>1, <3>2
      <4> HIDE DEF end, start, midnight
      <4> QED
        BY <4>1, <4>2
    <3> QED
      BY <3>1, <3>2
  <2>2. w = [current |-> <<start, end>>, baseline |-> <<start - (end - start), start>>]
    BY DEF DashboardWindows
  <2> HIDE DEF start, end, w
  <2> QED
    BY <2>1, <2>2
<1>4. ASSUME NEW x, x[1] \in Int, x[2] \in Int PROVE LocalDays(x) \in Int \X Int
  BY <1>1, <1>4 DEF LocalDays
<1>5. AnalysisDays.current \in Int \X Int /\ AnalysisDays.baseline \in Int \X Int
  <2> DEFINE a == Windows(AsOf, FALSE, 7, 28)
  <2>1. /\ a.current[1] \in Int /\ a.current[2] \in Int
        /\ a.baseline[1] \in Int /\ a.baseline[2] \in Int
    <3> DEFINE end == EndOfWindow(AsOf, FALSE)
    <3>1. a = [current |-> <<end - 24 * 7, end>>,
               baseline |-> <<(end - 24 * 7) - 24 * 28, end - 24 * 7>>]
      BY DEF Windows
    <3>2. end \in Int
      BY <1>2
    <3> HIDE DEF a, end
    <3> QED
      BY <3>1, <3>2
  <2>2. AnalysisDays = [current |-> LocalDays(a.current), baseline |-> LocalDays(a.baseline)]
    BY DEF AnalysisDays
  <2> HIDE DEF a
  <2> QED
    BY <1>4, <2>1, <2>2
<1>6. DashboardDays(PeriodOf(q)) = IF range.name = "all" THEN AnalysisDays
        ELSE [current |-> LocalDays(w.current), baseline |-> LocalDays(w.baseline)]
  BY DEF DashboardDays, range
<1> HIDE DEF w
<1> QED
  BY <1>3, <1>4, <1>5, <1>6

\* Of the complaints of a period the dashboard leaves out those whose analysis
\* is not completed, and no others.
LEMMA DetailAddsUnsure ==
    ASSUME NEW rows, IsRows(rows), NEW window, NEW inferred, NEW problem
    PROVE  LET shown == Complaints(Completed(InPeriod(GuardianRows(rows), window, inferred)), problem)
               detail == Complaints(InPeriod(DetailComplaints(rows), window, inferred), problem)
               unsure == {r \in rows : HasAnalysis(r) /\ r.analysis # "completed" /\ r.problem = problem}
           IN  /\ Cardinality(shown) <= Cardinality(detail)
               /\ Cardinality(detail) <= Cardinality(shown) + Cardinality(unsure)
<1> DEFINE shown == Complaints(Completed(InPeriod(GuardianRows(rows), window, inferred)), problem)
           detail == Complaints(InPeriod(DetailComplaints(rows), window, inferred), problem)
           unsure == {r \in rows : HasAnalysis(r) /\ r.analysis # "completed" /\ r.problem = problem}
<1>1. /\ shown \subseteq detail /\ detail \subseteq rows /\ unsure \subseteq rows
      /\ detail \subseteq shown \cup unsure
  <2>1. GuardianRows(rows) \subseteq rows
    BY GuardianRowsAreRows
  <2>2. /\ shown \subseteq detail /\ detail \subseteq rows /\ unsure \subseteq rows
    BY <2>1 DEF Complaints, Completed, InPeriod, DetailComplaints, HasAnalysis
  <2>3. detail \subseteq shown \cup unsure
    BY <2>1 DEF Complaints, Completed, InPeriod, DetailComplaints, HasAnalysis
  <2> QED
    BY <2>2, <2>3
<1> HIDE DEF shown, detail, unsure
<1>2. IsFiniteSet(shown) /\ IsFiniteSet(detail) /\ IsFiniteSet(unsure)
  BY <1>1, FS_Subset DEF IsRows
<1>3. Cardinality(shown) <= Cardinality(detail)
  BY <1>1, <1>2, FS_Subset
<1>4. /\ IsFiniteSet(shown \cup unsure)
      /\ Cardinality(shown \cup unsure)
            = Cardinality(shown) + Cardinality(unsure) - Cardinality(shown \cap unsure)
  BY <1>2, FS_Union
<1>5. Cardinality(shown \cap unsure) \in Nat
  <2>1. IsFiniteSet(shown \cap unsure)
    BY <1>2, FS_Intersection
  <2> QED
    BY <2>1, FS_CardinalityType
<1>6. Cardinality(detail) <= Cardinality(shown \cup unsure)
  BY <1>1, <1>4, FS_Subset
<1>7. Cardinality(shown) \in Nat /\ Cardinality(unsure) \in Nat /\ Cardinality(detail) \in Nat
  BY <1>2, FS_CardinalityType
<1>8. Cardinality(detail) <= Cardinality(shown) + Cardinality(unsure)
  BY <1>4, <1>5, <1>6, <1>7
<1> QED
  BY <1>3, <1>8 DEF shown, detail, unsure

\* What the products of a dashboard have of a problem together.
Together(view, field, problem) == SumFunction([p \in DOMAIN view |-> view[p][field][problem]])

\* The problem counts of the products are those of their rows.
LEMMA ProblemsOfProducts ==
    ASSUME NEW rows, IsRows(rows), NEW windows, NEW inferred, NEW problem \in ToSet(SubtopicOrder)
    PROVE  LET view == Products(rows, windows, inferred)
               inTime(window) == Completed(InPeriod(GuardianRows(rows), window, inferred))
               analysed == {r \in GuardianRows(rows) : HasAnalysis(r)}
           IN  /\ Together(view, "problems", problem)
                    = Cardinality(Complaints(inTime(windows.current), problem))
               /\ Together(view, "baselineProblems", problem)
                    = Cardinality(Complaints(inTime(windows.baseline), problem))
               /\ Together(view, "allProblems", problem)
                    = Cardinality(Complaints(analysed, problem))
<1> DEFINE view == Products(rows, windows, inferred)
           products == {r.product : r \in GuardianRows(rows)}
           inTime(window) == Completed(InPeriod(GuardianRows(rows), window, inferred))
           analysed == {r \in GuardianRows(rows) : HasAnalysis(r)}
           of(part) == Complaints(part, problem)
<1>1. DOMAIN view = products
  BY DEF Products
<1>2. ASSUME NEW p \in products
      PROVE  /\ view[p].problems[problem] = OfProduct(of(inTime(windows.current)), p)
             /\ view[p].baselineProblems[problem] = OfProduct(of(inTime(windows.baseline)), p)
             /\ view[p].allProblems[problem] = OfProduct(of(analysed), p)
  <2> DEFINE mine == {r \in GuardianRows(rows) : r.product = p}
             now == InPeriod(mine, windows.current, inferred)
             then == InPeriod(mine, windows.baseline, inferred)
             problems(part) == [q \in ToSet(SubtopicOrder) |-> Cardinality(Complaints(part, q))]
  <2>1. view[p] = ProductView(rows, p, windows, inferred)
    BY DEF Products
  <2>2. /\ view[p].problems = problems(Completed(now))
        /\ view[p].baselineProblems = problems(Completed(then))
        /\ view[p].allProblems = problems({r \in mine : HasAnalysis(r)})
    BY <2>1 DEF ProductView
  <2>3. \A part : problems(part)[problem] = Cardinality(Complaints(part, problem))
    OBVIOUS
  <2>4. /\ view[p].problems[problem] = Cardinality(Complaints(Completed(now), problem))
        /\ view[p].baselineProblems[problem] = Cardinality(Complaints(Completed(then), problem))
        /\ view[p].allProblems[problem]
                = Cardinality(Complaints({r \in mine : HasAnalysis(r)}, problem))
    <3> HIDE DEF problems, now, then, mine, view
    <3> QED
      BY <2>2, <2>3
  <2>5. ASSUME NEW window
        PROVE  Complaints(Completed(InPeriod(mine, window, inferred)), problem)
                = {r \in of(inTime(window)) : r.product = p}
    BY DEF Complaints, Completed, InPeriod
  <2>6. Complaints({r \in mine : HasAnalysis(r)}, problem) = {r \in of(analysed) : r.product = p}
    BY DEF Complaints
  <2> HIDE DEF view, inTime, of, analysed
  <2> QED
    BY <2>4, <2>5, <2>6 DEF OfProduct
<1>3. /\ of(inTime(windows.current)) \in SUBSET GuardianRows(rows)
      /\ of(inTime(windows.baseline)) \in SUBSET GuardianRows(rows)
      /\ of(analysed) \in SUBSET GuardianRows(rows)
  BY DEF Complaints, Completed, InPeriod
<1> HIDE DEF view, inTime, of, analysed
<1>4. ASSUME NEW T \in SUBSET GuardianRows(rows), NEW size, DOMAIN size = products,
             \A p \in products : size[p] = OfProduct(T, p)
      PROVE  SumFunction(size) = Cardinality(T)
  BY <1>4, ProductsAddUp
<1> DEFINE now == [p \in products |-> view[p].problems[problem]]
           then == [p \in products |-> view[p].baselineProblems[problem]]
           ever == [p \in products |-> view[p].allProblems[problem]]
<1>5. /\ DOMAIN now = products /\ \A p \in products : now[p] = OfProduct(of(inTime(windows.current)), p)
      /\ DOMAIN then = products
      /\ \A p \in products : then[p] = OfProduct(of(inTime(windows.baseline)), p)
      /\ DOMAIN ever = products /\ \A p \in products : ever[p] = OfProduct(of(analysed), p)
  BY <1>2
<1> HIDE DEF now, then, ever, products
<1>6. /\ SumFunction(now) = Cardinality(of(inTime(windows.current)))
      /\ SumFunction(then) = Cardinality(of(inTime(windows.baseline)))
      /\ SumFunction(ever) = Cardinality(of(analysed))
  BY <1>3, <1>4, <1>5
<1> QED
  BY <1>1, <1>6 DEF now, then, ever, view, inTime, analysed, of, Together

\* The products' counts of a problem, added up, are the count of its detail but
\* for what the detail counts with low confidence.
LEMMA ProblemsAgree == ReadDashboard => ProblemViewsAgree'
<1> SUFFICES ASSUME ReadDashboard, NEW problem \in ToSet(SubtopicOrder)
             PROVE  LET unsure == {r \in question'.rows : HasAnalysis(r) /\ r.analysis # "completed" /\ r.problem = problem}
                        agree(shown, detail) == shown <= detail /\ detail <= shown + Cardinality(unsure)
                        products == DOMAIN answer'.products
                    IN  /\ answer'.allDetails[problem].count
                                = SumFunction([p \in products |-> answer'.products[p].allProblems[problem]])
                        /\ agree(SumFunction([p \in products |-> answer'.products[p].problems[problem]]),
                                 answer'.details[problem].count)
                        /\ question'.period # "all" =>
                            agree(SumFunction([p \in products |-> answer'.products[p].baselineProblems[problem]]),
                                  answer'.details[problem].previous)
  BY DEF ProblemViewsAgree
<1>1. PICK q \in DashboardInputs : ShowsDashboard(q)'
  BY DashboardShown
<1> DEFINE rows == q.rows
           windows == DashboardDays(PeriodOf(q))
           view == Products(rows, windows, q.inferred)
           shown(window) == Complaints(Completed(InPeriod(GuardianRows(rows), window, q.inferred)), problem)
           detail(window) == Complaints(InPeriod(DetailComplaints(rows), window, q.inferred), problem)
           ever == Complaints({r \in GuardianRows(rows) : HasAnalysis(r)}, problem)
           unsure == {r \in rows : HasAnalysis(r) /\ r.analysis # "completed" /\ r.problem = problem}
<1>2. /\ question'.rows = rows /\ answer'.products = view
      /\ answer'.allDetails[problem] = Detail(rows, problem, None, None, q.inferred)
      /\ answer'.details[problem]
            = Detail(rows, problem, windows.current, windows.baseline, q.inferred)
  BY <1>1 DEF ShowsDashboard
<1>3. IsRows(rows)
  BY RowsAssumption
<1>4. windows.current # None /\ windows.baseline # None
  BY DashboardDaysAreDays, RowsAssumption
<1>5. answer'.allDetails[problem].count = Cardinality(ever)
  <2>1. answer'.allDetails[problem].count = Cardinality(Complaints(DetailComplaints(rows), problem))
    BY <1>2 DEF Detail
  <2>2. Complaints(DetailComplaints(rows), problem) = ever
    BY DEF Complaints, DetailComplaints
  <2> QED
    BY <2>1, <2>2
<1>6. /\ answer'.details[problem].count = Cardinality(detail(windows.current))
      /\ answer'.details[problem].previous = Cardinality(detail(windows.baseline))
  BY <1>2, <1>4 DEF Detail
<1>7. /\ Together(view, "problems", problem)
            = Cardinality(shown(windows.current))
      /\ Together(view, "baselineProblems", problem)
            = Cardinality(shown(windows.baseline))
      /\ Together(view, "allProblems", problem) = Cardinality(ever)
  BY <1>3, ProblemsOfProducts
<1>8. \A window : /\ Cardinality(shown(window)) <= Cardinality(detail(window))
                  /\ Cardinality(detail(window)) <= Cardinality(shown(window)) + Cardinality(unsure)
  BY <1>3, DetailAddsUnsure
<1> HIDE DEF rows, windows, view, shown, detail, ever
<1> QED
  BY <1>2, <1>5, <1>6, <1>7, <1>8 DEF Together

\* A later day is in no earlier month.
LEMMA MonthsFollow ==
    ASSUME NEW x \in Int, NEW y \in Int, x <= y
    PROVE  Month(x) \in Int /\ Month(y) \in Int /\ Month(x) <= Month(y)
<1> DEFINE m == MonthDays
           i == x \div m
           j == y \div m
<1>1. m \in Int /\ m > 0
  BY ViewsAssumption
<1>2. /\ i \in Int /\ j \in Int
      /\ m * i <= x /\ x < m * i + m
      /\ m * j <= y /\ y < m * j + m
  BY <1>1
<1> HIDE DEF i, j
<1>3. i <= j
  <2> SUFFICES ASSUME j + 1 <= i PROVE FALSE
    BY <1>2
  <2>1. m * (j + 1) <= m * i
    BY <1>1, <1>2
  <2>2. m * (j + 1) = m * j + m
    BY <1>1, <1>2
  <2>3. m * i \in Int /\ m * j \in Int /\ m * (j + 1) \in Int
    BY <1>1, <1>2
  <2> QED
    BY <1>1, <1>2, <2>1, <2>2, <2>3
<1> QED
  BY <1>2, <1>3 DEF Month, i, j

\* The feedback of Guardian in a period that has one of three sentiments.
Felt(rows, window, inferred) ==
    {r \in InPeriod(Completed(GuardianRows(rows)), window, inferred) :
        r.sentiment \in {"positive", "neutral", "negative"}}

\* Rows with a sentiment are dated rows of the window.
LEMMA FeltAreRows ==
    ASSUME NEW rows, IsRows(rows), NEW window, NEW inferred
    PROVE  /\ Felt(rows, window, inferred) \in SUBSET GuardianRows(rows)
           /\ IsFiniteSet(Felt(rows, window, inferred))
           /\ \A r \in Felt(rows, window, inferred) :
                r.day \in Int /\ window[1] <= r.day /\ r.day < window[2]
<1>1. Felt(rows, window, inferred) \in SUBSET GuardianRows(rows)
  BY DEF Felt, InPeriod, Completed
<1>2. GuardianRows(rows) \subseteq rows /\ IsFiniteSet(GuardianRows(rows))
  BY GuardianRowsAreRows
<1>3. \A r \in Felt(rows, window, inferred) : r.day # None /\ window[1] <= r.day /\ r.day < window[2]
  BY DEF Felt, InPeriod, OnTime
<1>4. \A r \in rows : r.day \in Int \cup {None}
  BY DEF IsRows
<1> QED
  BY <1>1, <1>2, <1>3, <1>4, FS_Subset

\* The weeks of a product have all that is felt about it.
LEMMA WeeksAddUp ==
    ASSUME NEW rows, IsRows(rows), NEW window, window \in Int \X Int, NEW inferred, NEW p,
           NEW range, range # "all"
    PROVE  SumFunction(ProductTrend(rows, p, range, window, inferred))
                = OfProduct(Felt(rows, window, inferred), p)
<1> DEFINE dated == {r \in GuardianRows(rows) : r.product = p /\ OnTime(r, inferred)}
           kept == InPeriod(Completed(dated), <<window[1], window[2]>>, inferred)
           felt == {r \in Felt(rows, window, inferred) : r.product = p}
           week(r) == (r.day - window[1]) \div 7
           weeks == {week(r) : r \in {s \in kept : s.sentiment \in {"positive", "neutral", "negative"}}}
           trend == ProductTrend(rows, p, range, window, inferred)
           key == [r \in felt |-> week(r)]
<1>1. TrendStart(range, window, dated) = window[1]
  BY DEF TrendStart
<1>2. trend = IF weeks = {} THEN <<>>
              ELSE [w \in Min(weeks) .. Max(weeks) |->
                      Cardinality({r \in kept : week(r) = w
                                    /\ r.sentiment \in {"positive", "neutral", "negative"}})]
  BY <1>1 DEF ProductTrend
<1>3. {s \in kept : s.sentiment \in {"positive", "neutral", "negative"}} = felt
  BY DEF Felt, InPeriod, Completed, OnTime
<1>4. weeks = {key[r] : r \in felt}
  <2>1. weeks = {week(r) : r \in felt}
    BY <1>3
  <2> HIDE DEF weeks, felt
  <2> QED
    BY <2>1
<1>5. \A w : {r \in kept : week(r) = w /\ r.sentiment \in {"positive", "neutral", "negative"}}
                = {r \in felt : week(r) = w}
  BY <1>3
<1>6. IsFiniteSet(felt) /\ \A r \in felt : week(r) \in Int
  <2>1. felt \subseteq Felt(rows, window, inferred) /\ IsFiniteSet(Felt(rows, window, inferred))
    BY FeltAreRows
  <2>2. \A r \in felt : week(r) \in Int
    BY FeltAreRows
  <2> HIDE DEF felt
  <2> QED
    BY <2>1, <2>2, FS_Subset
<1>7. OfProduct(Felt(rows, window, inferred), p) = Cardinality(felt)
  BY DEF OfProduct
<1>8. /\ \A r \in felt : key[r] = week(r)
      /\ \A w : Part(felt, key, w) = {r \in felt : week(r) = w}
  BY DEF Part
<1> HIDE DEF trend, weeks, kept, felt, key
<1>9. CASE weeks = {}
  <2>1. felt = {}
    BY <1>4, <1>9
  <2>2. SumFunction(trend) = 0
    BY <1>2, <1>9, SumEmpty DEF SumFunction
  <2> QED
    BY <1>7, <2>1, <2>2, FS_EmptySet DEF trend
<1>10. CASE weeks # {}
  <2>1. weeks \in SUBSET Int /\ IsFiniteSet(weeks)
    BY <1>4, <1>6, <1>8, ImageSize
  <2>2. /\ Min(weeks) \in weeks /\ \A w \in weeks : Min(weeks) <= w
        /\ Max(weeks) \in weeks /\ \A w \in weeks : w <= Max(weeks)
    BY <1>10, <2>1, BoundsExist
  <2> DEFINE D == Min(weeks) .. Max(weeks)
  <2>3. IsFiniteSet(D)
    BY <2>1, <2>2, FS_Interval
  <2>4. \A r \in felt : key[r] \in D
    <3>1. \A r \in felt : key[r] \in weeks
      BY <1>4
    <3>2. \A w \in weeks : w \in D
      BY <2>1, <2>2
    <3> QED
      BY <3>1, <3>2
  <2>5. DOMAIN trend = D /\ \A w \in D : trend[w] = Cardinality(Part(felt, key, w))
    BY <1>2, <1>5, <1>8, <1>10
  <2> HIDE DEF D
  <2>6. SumFunctionOnSet(trend, D) = Cardinality(felt)
    BY <1>6, <2>3, <2>4, <2>5, SumOfParts
  <2> QED
    BY <1>7, <2>5, <2>6 DEF SumFunction, trend
<1> QED
  BY <1>9, <1>10

\* The days of the dashboard have all that is felt; its months may have more.
LEMMA DaysAddUp ==
    ASSUME NEW rows, IsRows(rows), NEW window, window \in Int \X Int, NEW inferred,
           NEW range, range \notin {"all", "1y"}
    PROVE  LET total == SumFunction(SentimentTrend(rows, range, window, inferred))
               felt == Cardinality(Felt(rows, window, inferred))
           IN  IF Monthly(range, window) THEN felt <= total ELSE felt = total
<1> DEFINE dated == {r \in Completed(GuardianRows(rows)) : OnTime(r, inferred)}
           mood(r) == r.sentiment \in {"positive", "neutral", "negative"}
           period(r) == IF Monthly(range, window) THEN Month(r.day) ELSE r.day
           D == TrendPeriods(range, window)
           trend == SentimentTrend(rows, range, window, inferred)
           T == {r \in dated : mood(r) /\ period(r) \in D}
           felt == Felt(rows, window, inferred)
           key == [r \in T |-> period(r)]
<1>1. window[1] \in Int /\ window[2] \in Int /\ LastDay(window) \in Int /\ LastDay(window) = window[2] - 1
  BY DEF LastDay
<1>2. D = IF Monthly(range, window) THEN Month(window[1]) .. Month(LastDay(window))
          ELSE window[1] .. LastDay(window)
  BY DEF TrendPeriods
<1>3. IsFiniteSet(D)
  <2>1. Month(window[1]) \in Int /\ Month(LastDay(window)) \in Int
    BY <1>1, MonthsFollow
  <2> HIDE DEF D
  <2>2. CASE Monthly(range, window)
    BY <1>2, <2>1, <2>2, FS_Interval
  <2>3. CASE ~Monthly(range, window)
    BY <1>1, <1>2, <2>3, FS_Interval
  <2> QED
    BY <2>2, <2>3
<1>4. dated \subseteq GuardianRows(rows) /\ GuardianRows(rows) \subseteq rows
      /\ IsFiniteSet(GuardianRows(rows))
  BY GuardianRowsAreRows DEF Completed
<1>5. IsFiniteSet(T)
  <2>1. T \subseteq GuardianRows(rows)
    BY <1>4
  <2> HIDE DEF T
  <2> QED
    BY <1>4, <2>1, FS_Subset
<1>6. trend = [p \in D |-> Cardinality({r \in dated : period(r) = p /\ mood(r)})]
  BY DEF SentimentTrend
<1>7. ASSUME NEW p \in D PROVE {r \in dated : period(r) = p /\ mood(r)} = Part(T, key, p)
  BY DEF Part
<1>8. \A r \in T : key[r] \in D
  OBVIOUS
<1>9. \A r \in dated : r.day \in Int
  BY <1>4 DEF IsRows, OnTime
<1>10. felt = {r \in dated : mood(r) /\ window[1] <= r.day /\ r.day < window[2]}
  BY DEF Felt, InPeriod, Completed
<1>11. ASSUME Monthly(range, window) PROVE Cardinality(felt) <= Cardinality(T)
  <2>1. ASSUME NEW r \in felt PROVE r \in T
    <3>1. r \in dated /\ mood(r) /\ r.day \in Int /\ window[1] <= r.day /\ r.day <= LastDay(window)
      BY <1>1, <1>9, <1>10
    <3>2. /\ Month(window[1]) \in Int /\ Month(r.day) \in Int /\ Month(LastDay(window)) \in Int
          /\ Month(window[1]) <= Month(r.day) /\ Month(r.day) <= Month(LastDay(window))
      BY <1>1, <3>1, MonthsFollow
    <3>3. period(r) \in D
      BY <1>2, <1>11, <3>2
    <3> QED
      BY <3>1, <3>3
  <2> HIDE DEF T, felt
  <2>2. felt \subseteq T
    BY <2>1
  <2> QED
    BY <1>5, <2>2, FS_Subset
<1>12. ASSUME ~Monthly(range, window) PROVE felt = T
  <2>1. \A r \in dated : period(r) \in D <=> window[1] <= r.day /\ r.day < window[2]
    BY <1>1, <1>2, <1>9, <1>12
  <2> QED
    BY <1>10, <2>1
<1> HIDE DEF T, key, felt, trend, D, dated
<1>13. DOMAIN trend = D /\ \A p \in D : trend[p] = Cardinality(Part(T, key, p))
  BY <1>6, <1>7
<1>14. SumFunctionOnSet(trend, D) = Cardinality(T)
  BY <1>3, <1>5, <1>8, <1>13, SumOfParts
<1>15. SumFunction(trend) = Cardinality(T)
  BY <1>13, <1>14 DEF SumFunction
<1> QED
  BY <1>11, <1>12, <1>15 DEF trend, felt

\* The trends of the products count what the trend of the dashboard counts.
LEMMA TrendsAddUp == ReadDashboard => TrendsAgree'
<1> SUFFICES ASSUME ReadDashboard, question'.period \in {"7d", "custom"}
             PROVE  LET products == SumFunction([p \in DOMAIN answer'.productTrends |->
                                                    SumFunction(answer'.productTrends[p])])
                        dashboard == SumFunction(answer'.trend)
                    IN  IF Monthly(question'.period, question'.windows.current)
                        THEN products <= dashboard ELSE products = dashboard
  BY DEF TrendsAgree
<1>1. PICK q \in DashboardInputs : ShowsDashboard(q)'
  BY DashboardShown
<1> DEFINE rows == q.rows
           range == PeriodOf(q).name
           window == DashboardDays(PeriodOf(q)).current
           view == Products(rows, DashboardDays(PeriodOf(q)), q.inferred)
           products == {r.product : r \in GuardianRows(rows)}
           trends == [p \in DOMAIN view |-> ProductTrend(rows, p, range, window, q.inferred)]
           sums == [p \in DOMAIN trends |-> SumFunction(trends[p])]
           felt == Felt(rows, window, q.inferred)
           trend == SentimentTrend(rows, range, window, q.inferred)
<1>2. /\ question'.period = range /\ question'.windows.current = window
      /\ answer'.productTrends = trends /\ answer'.trend = trend
  BY <1>1 DEF ShowsDashboard
<1>3. IsRows(rows) /\ window \in Int \X Int
  BY RowsAssumption, DashboardDaysAreDays
<1>4. range # "all" /\ range \notin {"all", "1y"}
  BY <1>2
<1>5. DOMAIN sums = products /\ products = {r.product : r \in GuardianRows(rows)}
  BY DEF Products
<1>6. ASSUME NEW p \in products PROVE sums[p] = OfProduct(felt, p)
  <2>1. sums[p] = SumFunction(ProductTrend(rows, p, range, window, q.inferred))
    BY <1>5
  <2> HIDE DEF rows, range, window, sums
  <2> QED
    BY <1>3, <1>4, <2>1, WeeksAddUp
<1>7. felt \in SUBSET GuardianRows(rows)
  BY <1>3, FeltAreRows
<1>8. SumFunction(sums) = Cardinality(felt)
  <2> HIDE DEF sums, felt, rows, products
  <2> QED
    BY <1>3, <1>5, <1>6, <1>7, ProductsAddUp
<1>9. IF Monthly(range, window) THEN Cardinality(felt) <= SumFunction(trend)
      ELSE Cardinality(felt) = SumFunction(trend)
  <2> HIDE DEF rows, range, window
  <2> QED
    BY <1>3, <1>4, DaysAddUp
<1> HIDE DEF felt, trend, trends, window, range
<1> QED
  BY <1>2, <1>8, <1>9

\* The order of the list: there is one order of the rows.
LEMMA ListedOrders ==
    ASSUME NEW rows, IsRows(rows), NEW S \in SUBSET rows
    PROVE  Orders({pair \in S \X S : Listed(pair[1], pair[2])}, S)
<1> DEFINE less == {pair \in S \X S : Listed(pair[1], pair[2])}
<1>1. \A r, s \in S : <<r, s>> \in less <=> Listed(r, s)
  OBVIOUS
<1>2. \A r \in S : r.id \in Nat /\ r.day \in Int \cup {None}
  BY DEF IsRows
<1>3. \A r, s \in S : r.id = s.id => r = s
  BY DEF IsRows
<1>4. None \notin Int
  BY RowsAssumption
<1> HIDE DEF less
<1>5. \A r \in S : ~Listed(r, r)
  BY <1>2, <1>4 DEF Listed
<1>6. \A r, s \in S : r # s => Listed(r, s) \/ Listed(s, r)
  BY <1>2, <1>3, <1>4 DEF Listed
<1>7. \A r, s, t \in S : Listed(r, s) /\ Listed(s, t) => Listed(r, t)
  BY <1>2, <1>4 DEF Listed
<1> QED
  BY <1>1, <1>5, <1>6, <1>7 DEF Orders

\* Grouped again, feedback that was joined with its insights is what it was.
LEMMA GroupingUndoesTheJoin ==
    ASSUME NEW rows, IsRows(rows), NEW S \in SUBSET rows
    PROVE  Grouped(S) = S
<1> DEFINE copies(r) == 1 .. (IF r.cards > 1 THEN r.cards ELSE 1)
<1>1. \A r \in S : 1 \in copies(r)
  BY DEF IsRows
<1>2. ASSUME NEW r \in S PROVE r \in Grouped(S)
  <2>1. <<r, 1>> \in {r} \X copies(r)
    BY <1>1
  <2>2. <<r, 1>> \in Joined(S)
    BY <2>1 DEF Joined
  <2> QED
    BY <2>2 DEF Grouped
<1>3. ASSUME NEW r \in Grouped(S) PROVE r \in S
  BY DEF Grouped, Joined
<1> QED
  BY <1>2, <1>3

\* The list of feedback is sorted.
LEMMA ListIsSorted ==
    ASSUME NEW rows, IsRows(rows), NEW S \in SUBSET rows
    PROVE  LET less == {pair \in S \X S : Listed(pair[1], pair[2])}
           IN  Sorted(Listing(S), S, less)
<1> DEFINE less == {pair \in S \X S : Listed(pair[1], pair[2])}
<1>1. IsFiniteSet(S)
  BY FS_Subset DEF IsRows
<1>2. Orders(less, S)
  BY ListedOrders
<1>3. Listing(S) = InOrder(S, less)
  BY GroupingUndoesTheJoin DEF Listing
<1> HIDE DEF less
<1>4. Sorted(InOrder(S, less), S, less)
  BY <1>1, <1>2, InOrderSorts
<1> QED
  BY <1>3, <1>4 DEF less
-----------------------------------------------------------------------------
(* Pages of feedback. *)

\* The place of an item is on a page.
OnAPage(j, limit) == \E k \in Nat, i \in 1 .. limit : j = k * limit + i /\ k < j
\* A place in a list has one page and one place on it.
LEMMA PageOfPlace ==
    ASSUME NEW limit \in Nat \ {0}, NEW j \in Nat, j > 0
    PROVE  OnAPage(j, limit)
<1> DEFINE k == (j - 1) \div limit
           i == j - k * limit
<1>0. limit \in Int /\ limit > 0 /\ j - 1 \in Int /\ j - 1 >= 0
  OBVIOUS
<1>1. k \in Int /\ limit * k <= j - 1 /\ j - 1 < limit * k + limit
  BY <1>0
<1> HIDE DEF k
<1>2. k * limit = limit * k /\ k * limit \in Int
  BY <1>0, <1>1
<1>3. i \in 1 .. limit /\ j = k * limit + i
  BY <1>0, <1>1, <1>2
<1>4. k >= 0
  <2> SUFFICES ASSUME k + 1 <= 0 PROVE FALSE
    BY <1>1
  <2>1. limit * (k + 1) <= 0
    BY <1>0, <1>1
  <2>2. limit * (k + 1) = limit * k + limit
    BY <1>0, <1>1
  <2> QED
    BY <1>0, <1>1, <1>2, <2>1, <2>2
<1>5. k < j
  <2>1. limit * k >= k
    BY <1>0, <1>1, <1>4
  <2> QED
    BY <1>0, <1>1, <1>2, <2>1
<1> HIDE DEF i
<1>6. k \in Nat
  BY <1>1, <1>4
<1> QED
  BY <1>3, <1>5, <1>6 DEF OnAPage

\* No place is on two pages.
LEMMA OnePageOfPlace ==
    ASSUME NEW limit \in Nat \ {0}, NEW k \in Nat, NEW i \in 1 .. limit,
           NEW l \in Nat, NEW j \in 1 .. limit, k * limit + i = l * limit + j
    PROVE  k = l /\ i = j
<1>0. k * limit \in Int /\ l * limit \in Int
  OBVIOUS
<1>1. ~(k < l)
  <2> SUFFICES ASSUME k + 1 <= l PROVE FALSE
    OBVIOUS
  <2>1. (k + 1) * limit <= l * limit
    OBVIOUS
  <2>2. (k + 1) * limit = k * limit + limit
    OBVIOUS
  <2> QED
    BY <1>0, <2>1, <2>2
<1>2. ~(l < k)
  <2> SUFFICES ASSUME l + 1 <= k PROVE FALSE
    OBVIOUS
  <2>1. (l + 1) * limit <= k * limit
    OBVIOUS
  <2>2. (l + 1) * limit = l * limit + limit
    OBVIOUS
  <2> QED
    BY <1>0, <2>1, <2>2
<1> QED
  BY <1>0, <1>1, <1>2

\* A page with the part of a list that follows its first places.
ShowsPart(page, list, n, first, limit) ==
    /\ page.total = n
    /\ \A i : i \in DOMAIN page.items <=> i \in 1 .. limit /\ first + i <= n
    /\ \A i \in DOMAIN page.items : page.items[i] = list[first + i]
    /\ \E m \in Int : DOMAIN page.items = 1 .. m
\* What a page shows of a sorted list.
LEMMA PageShows ==
    ASSUME NEW rows, IsRows(rows), NEW brand, NEW window, NEW limit \in Nat \ {0}, NEW k \in Nat
    PROVE  LET M == Matching(rows, brand, window)
           IN  ShowsPart(Page(rows, brand, window, limit, k * limit), Listing(M), Cardinality(M),
                         k * limit, limit)
<1> DEFINE M == Matching(rows, brand, window)
           rest == Cardinality(M) - k * limit
           m == IF limit < rest THEN limit ELSE rest
           page == Page(rows, brand, window, limit, k * limit)
<1>1. M \in SUBSET rows
  BY DEF Matching
<1>2. Grouped(M) = M
  BY <1>1, GroupingUndoesTheJoin
<1>3. Cardinality(M) \in Nat
  <2>1. IsFiniteSet(M)
    BY <1>1, FS_Subset DEF IsRows
  <2> QED
    BY <2>1, FS_CardinalityType
<1>4. page = [items |-> [i \in 1 .. m |-> Listing(M)[k * limit + i]], total |-> Cardinality(M)]
  BY <1>2 DEF Page
<1> HIDE DEF M
<1>5. k * limit \in Int /\ rest \in Int /\ m \in Int
  BY <1>3
<1>6. \A i : i \in 1 .. m <=> i \in 1 .. limit /\ k * limit + i <= Cardinality(M)
  BY <1>3, <1>5
<1> HIDE DEF m, page
<1>7. /\ page.total = Cardinality(M) /\ DOMAIN page.items = 1 .. m
      /\ \A i \in 1 .. m : page.items[i] = Listing(M)[k * limit + i]
  BY <1>4
<1>8. 1 .. m \in SUBSET Nat
  BY <1>5
<1> QED
  BY <1>5, <1>6, <1>7, <1>8 DEF M, page, ShowsPart

\* list_feedback: the pages cut one list into pieces, so that every row that
\* matches has one place on one page.
LEMMA PagesCover == ListFeedback => PagesCoverFeedback'
<1> SUFFICES ASSUME ListFeedback PROVE PagesCoverFeedback'
  OBVIOUS
<1>1. PICK q \in PageInputs :
        /\ question' = [kind |-> "pages", rows |-> q.rows, brand |-> q.brand,
                        window |-> q.window]
        /\ answer' = [k \in 0 .. Cardinality(q.rows) |->
                        Page(q.rows, q.brand, q.window, q.limit, k * q.limit)]
  BY Zenon DEF ListFeedback
<1> DEFINE rows == q.rows
           M == Matching(rows, q.brand, q.window)
           N == Cardinality(rows)
           n == Cardinality(M)
           list == Listing(M)
           limit == q.limit
           page(k) == Page(rows, q.brand, q.window, limit, k * limit)
           pages == [k \in 0 .. N |-> page(k)]
           places == UNION {{k} \X DOMAIN pages[k].items : k \in DOMAIN pages}
           found == {r \in rows :
                        /\ q.brand # None =>
                            \/ q.brand = r.brand
                            \/ r.brand = None /\ q.brand = r.primary
                        /\ q.window # None =>
                            r.day # None /\ r.day \in q.window[1] .. q.window[2] - 1}
           less == {pair \in M \X M : Listed(pair[1], pair[2])}
<1>2. IsRows(rows) /\ limit \in Nat \ {0} /\ q.window \in {None} \cup (Int \X Int)
  BY RowsAssumption
<1>3. found = M
  <2>1. ASSUME NEW r \in rows, q.brand # None
        PROVE  (q.brand = r.brand \/ (r.brand = None /\ q.brand = r.primary))
                    <=> Claimed(r) = q.brand
    BY <2>1 DEF Claimed
  <2>2. ASSUME NEW r \in rows, q.window # None, r.day # None
        PROVE  r.day \in q.window[1] .. q.window[2] - 1
                <=> q.window[1] <= r.day /\ r.day < q.window[2]
    <3>1. r.day \in Int /\ q.window[1] \in Int /\ q.window[2] \in Int
      BY <1>2, <2>2 DEF IsRows
    <3> QED
      BY <3>1
  <2> QED
    BY <2>1, <2>2 DEF Matching
<1>4. M \in SUBSET rows
  BY DEF Matching
<1>5. IsFiniteSet(M) /\ n \in Nat /\ N \in Nat /\ n <= N
  <2> HIDE DEF M
  <2> QED
    BY <1>2, <1>4, FS_Subset, FS_CardinalityType DEF IsRows
<1>6. Sorted(list, M, less)
  <2> HIDE DEF M, rows
  <2> QED
    BY <1>2, <1>4, ListIsSorted
<1>7. /\ list \in [1 .. n -> M]
      /\ \A r \in M : \E j \in 1 .. n : list[j] = r
      /\ \A i, j \in 1 .. n : list[i] = list[j] => i = j
  BY <1>6 DEF Sorted
<1>8. ASSUME NEW k \in Nat
      PROVE  /\ page(k).total = n
             /\ \A i : i \in DOMAIN page(k).items <=> i \in 1 .. limit /\ k * limit + i <= n
             /\ \A i \in DOMAIN page(k).items : page(k).items[i] = list[k * limit + i]
             /\ \E m \in Int : DOMAIN page(k).items = 1 .. m
  <2> HIDE DEF rows, limit
  <2>1. ShowsPart(page(k), list, n, k * limit, limit)
    BY <1>2, PageShows
  <2> HIDE DEF page, list, n
  <2> QED
    BY <2>1 DEF ShowsPart
<1>9. ASSUME NEW k \in Nat, NEW i \in DOMAIN page(k).items
      PROVE  /\ i \in 1 .. limit /\ k * limit + i \in 1 .. n
             /\ page(k).items[i] = list[k * limit + i] /\ page(k).items[i] \in M
  <2>1. i \in 1 .. limit /\ k * limit + i <= n /\ page(k).items[i] = list[k * limit + i]
    BY <1>8
  <2>2. k * limit \in Nat
    BY <1>2
  <2> HIDE DEF page, limit, n, list, M
  <2>3. k * limit + i \in 1 .. n
    BY <1>2, <1>5, <2>1, <2>2
  <2> QED
    BY <1>7, <2>1, <2>3
<1>10. DOMAIN pages = 0 .. N /\ \A k \in 0 .. N : pages[k] = page(k) /\ k \in Nat
  BY <1>5
<1>a. \A x : x \in places <=> \E k \in 0 .. N : \E i \in DOMAIN page(k).items : x = <<k, i>>
  <2>1. \A k \in 0 .. N : DOMAIN pages[k].items = DOMAIN page(k).items
    BY <1>10
  <2> HIDE DEF page, pages
  <2> QED
    BY <1>10, <2>1
<1> HIDE DEF rows, M, N, n, list, limit, page, pages, places, found, less
<1>11. ASSUME NEW k \in 0 .. N PROVE ToSet(page(k).items) \subseteq M
  <2>1. k \in Nat
    BY <1>10
  <2>2. PICK m \in Int : DOMAIN page(k).items = 1 .. m
    BY <1>8, <2>1
  <2> QED
    BY <1>9, <2>1, <2>2 DEF ToSet
<1>12. ASSUME NEW r \in M
       PROVE  Cardinality({x \in places : pages[x[1]].items[x[2]] = r}) = 1
  <2>1. PICK j \in 1 .. n : list[j] = r
    BY <1>7
  <2>2. PICK k \in Nat, i \in 1 .. limit : j = k * limit + i /\ k < j
    <3>1. OnAPage(j, limit)
      BY <1>2, <1>5, PageOfPlace
    <3> QED
      BY <3>1 DEF OnAPage
  <2>3. k \in 0 .. N /\ i \in DOMAIN page(k).items /\ page(k).items[i] = r
    <3>1. k \in 0 .. N
      BY <1>5, <2>2
    <3>2. i \in DOMAIN page(k).items
      BY <1>8, <2>2
    <3> QED
      BY <1>9, <2>1, <2>2, <3>1, <3>2
  <2>4. ASSUME NEW l \in 0 .. N, NEW h \in DOMAIN page(l).items, page(l).items[h] = r
        PROVE  l = k /\ h = i
    <3>1. l \in Nat /\ h \in 1 .. limit /\ l * limit + h \in 1 .. n /\ list[l * limit + h] = r
      BY <1>9, <1>10, <2>4
    <3>2. l * limit + h = k * limit + i
      BY <1>7, <2>1, <2>2, <3>1
    <3> QED
      BY <1>2, <2>2, <3>1, <3>2, OnePageOfPlace
  <2> DEFINE X == {x \in places : pages[x[1]].items[x[2]] = r}
  <2>5. <<k, i>> \in X
    BY <1>10, <1>a, <2>3
  <2>6. ASSUME NEW x \in X PROVE x = <<k, i>>
    <3>1. PICK l \in 0 .. N : \E h \in DOMAIN page(l).items : x = <<l, h>>
      BY <1>a
    <3>2. PICK h \in DOMAIN page(l).items : x = <<l, h>>
      BY <3>1
    <3>3. page(l).items[h] = r
      BY <1>10, <3>2
    <3> QED
      BY <2>4, <3>2, <3>3
  <2>7. X = {<<k, i>>}
    BY <2>5, <2>6
  <2> QED
    BY <2>7, FS_Singleton
<1>13. /\ question'.rows = rows /\ question'.brand = q.brand /\ question'.window = q.window
       /\ answer' = pages
  BY <1>1 DEF rows, limit, page, pages, N
<1>14. \A k \in DOMAIN pages : ToSet(pages[k].items) \subseteq M /\ pages[k].total = n
  BY <1>8, <1>10, <1>11
<1>15. LET gathered == {r \in question'.rows :
                        /\ question'.brand # None =>
                            \/ question'.brand = r.brand
                            \/ r.brand = None /\ question'.brand = r.primary
                        /\ question'.window # None =>
                            r.day # None /\ r.day \in question'.window[1] .. question'.window[2] - 1}
       IN  gathered = M
  BY <1>3, <1>13 DEF found
<1>16. places = UNION {{k} \X DOMAIN answer'[k].items : k \in DOMAIN answer'}
  BY <1>13 DEF places
<1> QED
  BY <1>12, <1>13, <1>14, <1>15, <1>16 DEF PagesCoverFeedback, n
-----------------------------------------------------------------------------
(* Repost groups. *)

\* A sequence has finitely many elements.
LEMMA ElementsAreFinite ==
    ASSUME NEW s, s \in Seq(ToSet(s))
    PROVE  /\ IsFiniteSet(ToSet(s)) /\ Len(s) \in Nat
           /\ ToSet(s) = {s[i] : i \in 1 .. Len(s)}
<1>1. Len(s) \in Nat /\ DOMAIN s = 1 .. Len(s)
  OBVIOUS
<1>2. ToSet(s) = {s[i] : i \in 1 .. Len(s)}
  BY <1>1 DEF ToSet
<1>3. IsFiniteSet(1 .. Len(s))
  BY <1>1, FS_Interval
<1>4. IsFiniteSet({s[i] : i \in 1 .. Len(s)})
  BY <1>3, ImageSize
<1> QED
  BY <1>1, <1>2, <1>4

\* The units with the smallest ids of their groups.
Firsts(E) == {u \in E : \A v \in E : v.group = u.group => u.id <= v.id}

\* A group of units has a first one.
LEMMA GroupHasFirst ==
    ASSUME NEW E, IsFiniteSet(E), \A u \in E : u.id \in Nat,
           \A u, v \in E : u.id = v.id => u = v, NEW u \in E
    PROVE  \E v \in Firsts(E) : v.group = u.group /\ v.id <= u.id
<1> DEFINE G == {v \in E : v.group = u.group}
           less == {pair \in G \X G : pair[1].id < pair[2].id}
<1>1. IsFiniteSet(G) /\ u \in G
  BY FS_Subset
<1>2. \A v, w \in G : <<v, w>> \in less <=> v.id < w.id
  OBVIOUS
<1>3. Orders(less, G)
  <2> HIDE DEF less
  <2> QED
    BY <1>2 DEF Orders
<1>4. \E v \in G : \A w \in G \ {v} : <<v, w>> \in less
  <2> HIDE DEF G, less
  <2> QED
    BY <1>1, <1>3, FirstExists
<1>5. PICK v \in G : \A w \in G \ {v} : <<v, w>> \in less
  BY <1>4
<1> HIDE DEF less
<1>6. ASSUME NEW w \in G PROVE v.id <= w.id
  <2>1. v.id \in Nat /\ w.id \in Nat
    OBVIOUS
  <2>2. CASE w = v
    BY <2>1, <2>2
  <2>3. CASE w # v
    <3>1. v.id < w.id
      BY <1>2, <1>5, <2>3
    <3> QED
      BY <2>1, <3>1
  <2> QED
    BY <2>2, <2>3
<1> QED
  BY <1>1, <1>6 DEF Firsts

\* One unit more.
LEMMA OneUnitMore ==
    ASSUME NEW E, IsFiniteSet(E), NEW u, \A v \in E \cup {u} : v.id \in Nat,
           \A v, w \in E \cup {u} : v.id = w.id => v = w
    PROVE  OneOfGroup(Firsts(E), u) = Firsts(E \cup {u})
<1> DEFINE kept == Firsts(E)
           more == Firsts(E \cup {u})
<1>1. \A w \in E : w \in kept <=> \A v \in E : v.group = w.group => w.id <= v.id
  BY DEF Firsts
<1>2. \A w : w \in more <=> /\ w \in E \cup {u}
                            /\ \A v \in E : v.group = w.group => w.id <= v.id
                            /\ u.group = w.group => w.id <= u.id
  BY DEF Firsts
<1>3. kept \subseteq E /\ more \subseteq E \cup {u}
  BY DEF Firsts
<1> HIDE DEF kept, more
<1>4. CASE \E v \in kept : v.group = u.group /\ v.id <= u.id
  <2>1. PICK v \in kept : v.group = u.group /\ v.id <= u.id
    BY <1>4
  <2>2. ASSUME NEW w \in kept PROVE w \in more
    BY <1>1, <1>2, <1>3, <2>1
  <2>3. ASSUME NEW w \in more PROVE w \in kept
    <3>1. CASE w \in E
      BY <1>1, <1>2, <3>1
    <3>2. CASE w = u
      <4>1. u.id <= v.id
        BY <1>2, <1>3, <2>1, <3>2
      <4>2. u.id = v.id
        BY <1>3, <2>1, <4>1
      <4> QED
        BY <1>3, <2>1, <3>2, <4>2
    <3> QED
      BY <1>3, <3>1, <3>2
  <2>4. OneOfGroup(kept, u) = kept
    BY <1>4 DEF OneOfGroup
  <2> QED
    BY <2>2, <2>3, <2>4 DEF kept, more
<1>5. CASE ~\E v \in kept : v.group = u.group /\ v.id <= u.id
  <2>1. \A e \in E : e.group = u.group => u.id <= e.id
    <3> SUFFICES ASSUME NEW e \in E, e.group = u.group, e.id < u.id PROVE FALSE
      OBVIOUS
    <3>1. PICK v \in kept : v.group = e.group /\ v.id <= e.id
      BY GroupHasFirst DEF kept
    <3>2. v.id <= u.id
      BY <1>3, <3>1
    <3> QED
      BY <1>5, <3>1, <3>2
  <2>2. u \in more
    BY <1>2, <2>1
  <2>3. ASSUME NEW w \in kept, w.group # u.group PROVE w \in more
    BY <1>1, <1>2, <1>3, <2>3
  <2>4. ASSUME NEW w \in more, w # u PROVE w \in kept /\ w.group # u.group
    <3>1. w \in E /\ w \in kept
      BY <1>1, <1>2, <2>4
    <3>2. w.group = u.group => w.id <= u.id
      BY <1>2
    <3> QED
      BY <1>5, <3>1, <3>2
  <2>5. OneOfGroup(kept, u) = {v \in kept : v.group # u.group} \cup {u}
    BY <1>5 DEF OneOfGroup
  <2>6. OneOfGroup(kept, u) = more
    BY <2>2, <2>3, <2>4, <2>5
  <2> QED
    BY <2>6 DEF kept, more
<1> QED
  BY <1>4, <1>5

\* Whatever order the units come in, the first of each group is kept.
LEMMA CollapseKeepsFirsts ==
    ASSUME NEW units, IsUnits(units), NEW eligible
    PROVE  Collapse(units, eligible) = Firsts(ToSet(units) \cap eligible)
<1> DEFINE n == Len(units)
           C == SUBSET ToSet(units)
           upto(k) == {units[i] : i \in 1 .. k} \cap eligible
           Next1(k, kept) == IF units[k] \in eligible THEN OneOfGroup(kept, units[k]) ELSE kept
           step == [k \in 1 .. n |-> [kept \in C |-> Next1(k, kept)]]
           Eq(f) == f = [k \in 0 .. n |-> IF k = 0 THEN {} ELSE Next1(k, f[k - 1])]
<1>1. /\ n \in Nat /\ IsFiniteSet(ToSet(units)) /\ ToSet(units) = {units[i] : i \in 1 .. n}
      /\ \A i \in 1 .. n : units[i] \in ToSet(units)
  BY ElementsAreFinite DEF IsUnits
<1> HIDE DEF n
<1>2. \A k \in 1 .. n, kept \in C : Next1(k, kept) \in C
  BY <1>1 DEF OneOfGroup
<1>3. \E f : Eq(f)
  <2>1. \A k \in 1 .. n, kept \in C : step[k][kept] = Next1(k, kept)
    OBVIOUS
  <2>0. {} \in C
    OBVIOUS
  <2> HIDE DEF step, Next1, C
  <2>2. \A k \in 1 .. n, kept \in C : step[k][kept] \in C
    BY <1>2, <2>1
  <2>3. Defined(n, C, {}, step)
    BY <1>1, <2>0, <2>2, Recursion
  <2>4. PICK f \in [0 .. n -> C] : f[0] = {} /\ \A k \in 1 .. n : f[k] = step[k][f[k - 1]]
    BY <2>3 DEF Defined
  <2>5. \A k \in 1 .. n : k - 1 \in 0 .. n
    BY <1>1
  <2>6. \A k \in 1 .. n : f[k] = Next1(k, f[k - 1])
    BY <2>1, <2>4, <2>5
  <2>7. Eq(f)
    BY <1>1, <2>4, <2>6
  <2> QED
    BY <2>7
<1>4. Selection(units, eligible) = CHOOSE g : Eq(g)
  BY DEF Selection, Next1, n
<1> HIDE DEF Eq
<1> DEFINE g == Selection(units, eligible)
<1>5. Eq(g)
  BY <1>3, <1>4
<1>6. g = [k \in 0 .. n |-> IF k = 0 THEN {} ELSE Next1(k, g[k - 1])]
  BY <1>5 DEF Eq
<1> HIDE DEF g
<1>7. \A k : IsFiniteSet(upto(k) \cap ToSet(units))
  <2> SUFFICES ASSUME NEW k PROVE IsFiniteSet(upto(k) \cap ToSet(units))
    OBVIOUS
  <2>1. upto(k) \cap ToSet(units) \subseteq ToSet(units)
    OBVIOUS
  <2> HIDE DEF upto
  <2> QED
    BY <1>1, <2>1, FS_Subset
<1> DEFINE P == {k \in Nat : k <= n => g[k] = Firsts(upto(k))}
<1>8. 0 \in P
  <2>1. upto(0) = {} /\ Firsts({}) = {}
    BY DEF Firsts
  <2>2. g[0] = {}
    BY <1>1, <1>6
  <2> HIDE DEF upto
  <2> QED
    BY <2>1, <2>2
<1>9. ASSUME NEW k \in Nat, k \in P PROVE k + 1 \in P
  <2> SUFFICES ASSUME k + 1 <= n PROVE g[k + 1] = Firsts(upto(k + 1))
    OBVIOUS
  <2>1. g[k] = Firsts(upto(k)) /\ k + 1 \in 1 .. n /\ (k + 1) - 1 = k
    BY <1>1, <1>9
  <2>2. g[k + 1] = Next1(k + 1, g[k])
    <3> HIDE DEF Next1
    <3>1. k + 1 \in 0 .. n /\ k + 1 # 0
      BY <1>1, <2>1
    <3> QED
      BY <1>6, <2>1, <3>1
  <2>3. upto(k) \subseteq ToSet(units)
    BY <1>1, <2>1
  <2>4. IsFiniteSet(upto(k))
    <3> HIDE DEF upto
    <3>1. upto(k) \cap ToSet(units) = upto(k)
      BY <2>3
    <3> QED
      BY <1>7, <3>1
  <2>5. CASE units[k + 1] \in eligible
    <3> DEFINE u == units[k + 1]
    <3>1. upto(k + 1) = upto(k) \cup {u}
      BY <2>1, <2>5
    <3>2. u \in ToSet(units)
      BY <1>1, <2>1
    <3>3. g[k + 1] = OneOfGroup(Firsts(upto(k)), u)
      BY <2>1, <2>2, <2>5
    <3> HIDE DEF u, upto
    <3>4. /\ \A v \in upto(k) \cup {u} : v.id \in Nat
          /\ \A v, w \in upto(k) \cup {u} : v.id = w.id => v = w
      BY <2>3, <3>2 DEF IsUnits
    <3>5. OneOfGroup(Firsts(upto(k)), u) = Firsts(upto(k) \cup {u})
      BY <2>4, <3>4, OneUnitMore
    <3> QED
      BY <3>1, <3>3, <3>5
  <2>6. CASE units[k + 1] \notin eligible
    <3>1. upto(k + 1) = upto(k)
      BY <2>1, <2>6
    <3> HIDE DEF upto
    <3> QED
      BY <2>1, <2>2, <2>6, <3>1
  <2> QED
    BY <2>5, <2>6
<1>10. \A k \in Nat : k \in P
  <2> HIDE DEF P
  <2> QED
    BY <1>8, <1>9, NatSetInduction
<1>11. g[n] = Firsts(upto(n)) /\ upto(n) = ToSet(units) \cap eligible
  BY <1>1, <1>10
<1> QED
  BY <1>11 DEF Collapse, g, n

\* What CountUnits asks and answers, field by field.
ShowsUnits(units) ==
    /\ question.units = units
    /\ answer.counted = [w \in Windowed |-> Counted(units, w[1], w[2])]
    /\ answer.cells = [w \in Windowed |-> RateCells(units, w[1], w[2])]
    /\ answer.roles = EvidenceRoles(units, Head(SubtopicOrder))
    /\ answer.drivers = [i \in BOOLEAN |-> LikelyDrivers(units, i)]

\* A step that counts units shows the counts of one of its inputs.
LEMMA UnitsShown ==
    ASSUME CountUnits
    PROVE  \E units \in UnitInputs : ShowsUnits(units)'
<1>1. PICK units \in UnitInputs :
        /\ question' = [kind |-> "units", units |-> units]
        /\ answer' = [counted |-> [w \in Windowed |-> Counted(units, w[1], w[2])],
                      cells |-> [w \in Windowed |-> RateCells(units, w[1], w[2])],
                      roles |-> EvidenceRoles(units, Head(SubtopicOrder)),
                      drivers |-> [i \in BOOLEAN |-> LikelyDrivers(units, i)]]
  BY Zenon DEF CountUnits
<1>2. ShowsUnits(units)'
  BY <1>1 DEF ShowsUnits
<1> QED
  BY <1>2

\* What is counted: the first posts of their groups about the brand.
LEMMA CountedAreFirsts ==
    ASSUME NEW units, IsUnits(units), NEW window, NEW inferred
    PROVE  LET posts == {u \in ToSet(units) :
                            u.brand = Guardian /\ u.window = window /\ TimeEligible(u, inferred)}
           IN  Counted(units, window, inferred) = {u \in Firsts(posts) : u.ok}
<1> DEFINE posts == {u \in ToSet(units) :
                        u.brand = Guardian /\ u.window = window /\ TimeEligible(u, inferred)}
           eligible == {v \in EligibleUnits(units, window, inferred) : v.brand = Guardian}
<1>1. Collapse(units, eligible) = Firsts(ToSet(units) \cap eligible)
  BY CollapseKeepsFirsts
<1>2. ToSet(units) \cap eligible = posts
  <2>1. ASSUME NEW u PROVE u \in ToSet(units) \cap eligible <=> u \in posts
    <3>1. u \in EligibleUnits(units, window, inferred)
            <=> u \in ToSet(units) /\ TimeEligible(u, inferred) /\ u.window = window
      BY Zenon DEF EligibleUnits
    <3>2. u \in posts <=> /\ u \in ToSet(units) /\ u.brand = Guardian
                          /\ u.window = window /\ TimeEligible(u, inferred)
      BY Zenon
    <3>3. u \in eligible <=> u \in EligibleUnits(units, window, inferred) /\ u.brand = Guardian
      BY Zenon
    <3> HIDE DEF posts, eligible
    <3> QED
      BY <3>1, <3>2, <3>3, Zenon
  <2> HIDE DEF posts, eligible
  <2> QED
    BY <2>1
<1>3. Counted(units, window, inferred) = {u \in Collapse(units, eligible) : u.ok}
  BY DEF Counted
<1> HIDE DEF posts, eligible
<1>4. Collapse(units, eligible) = Firsts(posts)
  BY <1>1, <1>2
<1>5. Counted(units, window, inferred) = {u \in Firsts(posts) : u.ok}
  BY <1>3, <1>4
<1> QED
  BY <1>5 DEF posts

\* What is counted are the first units of their groups, in whatever order the
\* units came.
LEMMA StableRepresentative == CountUnits => RepresentativeIsStable'
<1> SUFFICES ASSUME CountUnits, NEW w \in Windowed
             PROVE  LET posts == {u \in ToSet(question'.units) :
                            u.brand = Guardian /\ u.window = w[1] /\ TimeEligible(u, w[2])}
                    IN  answer'.counted[w] =
                        {u \in posts : u.ok /\ \A v \in posts : v.group = u.group => u.id <= v.id}
  BY DEF RepresentativeIsStable
<1>1. PICK units \in UnitInputs : ShowsUnits(units)'
  BY UnitsShown
<1>2. question'.units = units /\ answer'.counted = [x \in Windowed |-> Counted(units, x[1], x[2])]
  BY <1>1 DEF ShowsUnits
<1>3. IsUnits(units)
  BY UnitsAssumption
<1> DEFINE posts == {u \in ToSet(question'.units) :
                        u.brand = Guardian /\ u.window = w[1] /\ TimeEligible(u, w[2])}
<1>4. answer'.counted[w] = {u \in Firsts(posts) : u.ok}
  BY <1>2, <1>3, CountedAreFirsts
<1> HIDE DEF posts
<1>5. {u \in Firsts(posts) : u.ok}
          = {u \in posts : u.ok /\ \A v \in posts : v.group = u.group => u.id <= v.id}
  BY DEF Firsts
<1>6. answer'.counted[w]
          = {u \in posts : u.ok /\ \A v \in posts : v.group = u.group => u.id <= v.id}
  BY <1>4, <1>5
<1> QED
  BY <1>6 DEF posts

\* As many values as arguments, when no two share a value.
LEMMA InjectionKeepsSize ==
    ASSUME NEW S, IsFiniteSet(S), NEW f, \A x, y \in S : f[x] = f[y] => x = y
    PROVE  Cardinality({f[x] : x \in S}) = Cardinality(S)
  BY ImageSize

\* Posts that each are the first of their group are no more than the groups.
LEMMA NoMoreThanGroups ==
    ASSUME NEW T, NEW S, IsFiniteSet(S), T \subseteq S,
           \A u, v \in T : u.group = v.group => u = v
    PROVE  /\ IsFiniteSet(T)
           /\ Cardinality(T) <= Cardinality({u.group : u \in S})
<1> DEFINE groupOf == [u \in S |-> u.group]
           mine == {groupOf[u] : u \in T}
           all == {groupOf[u] : u \in S}
<1>1. IsFiniteSet(T)
  BY FS_Subset
<1>2. /\ \A u \in T : groupOf[u] = u.group
      /\ all = {u.group : u \in S} /\ mine \subseteq all
  OBVIOUS
<1> HIDE DEF groupOf
<1>6. \A u, v \in T : groupOf[u] = groupOf[v] => u = v
  BY <1>2
<1>3. Cardinality(mine) = Cardinality(T)
  BY <1>1, <1>6, InjectionKeepsSize
<1>4. IsFiniteSet(all)
  BY ImageSize
<1>5. Cardinality(mine) <= Cardinality(all)
  BY <1>2, <1>4, FS_Subset
<1> HIDE DEF mine, all
<1> QED
  BY <1>1, <1>2, <1>3, <1>5

\* A group has one unit among those counted, and the unit has one source.
LEMMA CountedOnce == CountUnits => RepostsCountOnce'
<1> SUFFICES ASSUME CountUnits, NEW w \in Windowed
             PROVE  SumFunction([s \in ToSet(SourceOrder) |-> answer'.cells[w][s].denominator])
                        <= Cardinality({u.group : u \in {v \in ToSet(question'.units) : v.window = w[1]}})
  BY DEF RepostsCountOnce
<1>1. PICK units \in UnitInputs : ShowsUnits(units)'
  BY UnitsShown
<1>2. question'.units = units /\ answer'.cells = [x \in Windowed |-> RateCells(units, x[1], x[2])]
  BY <1>1 DEF ShowsUnits
<1> DEFINE counted == Counted(units, w[1], w[2])
           D == ToSet(SourceOrder)
           T == {u \in counted : u.source \in D}
           S == {v \in ToSet(units) : v.window = w[1]}
           posts == {u \in ToSet(units) :
                        u.brand = Guardian /\ u.window = w[1] /\ TimeEligible(u, w[2])}
           key == [u \in T |-> u.source]
           size == [s \in D |-> answer'.cells[w][s].denominator]
<1>3. IsUnits(units) /\ IsFiniteSet(D) /\ IsFiniteSet(ToSet(units))
  BY UnitsAssumption, ElementsAreFinite DEF IsUnits
<1>4. IsFiniteSet(S)
  BY <1>3, FS_Subset
<1>5. counted = {u \in Firsts(posts) : u.ok}
  BY <1>3, CountedAreFirsts
<1>6. Firsts(posts) \subseteq posts /\ posts \subseteq S
  BY DEF Firsts
<1>7. \A u, v \in Firsts(posts) : u.group = v.group => u = v
  BY <1>3 DEF Firsts, IsUnits
<1>8. \A s \in D : size[s] = Cardinality(Part(T, key, s))
  <2> SUFFICES ASSUME NEW s \in D PROVE size[s] = Cardinality(Part(T, key, s))
    OBVIOUS
  <2>1. size[s] = RateCells(units, w[1], w[2])[s].denominator
    BY <1>2
  <2>2. RateCells(units, w[1], w[2])[s].denominator = Cardinality({u \in counted : u.source = s})
    BY DEF RateCells
  <2>3. {u \in counted : u.source = s} = Part(T, key, s)
    BY DEF Part
  <2> QED
    BY <2>1, <2>2, <2>3
<1>9. DOMAIN size = D /\ \A u \in T : key[u] \in D
  OBVIOUS
<1>10. T \subseteq counted
  OBVIOUS
<1> HIDE DEF posts, counted, S, T, D, key, size
<1>11. T \subseteq S /\ \A u, v \in T : u.group = v.group => u = v
  BY <1>5, <1>6, <1>7, <1>10
<1>12. IsFiniteSet(T) /\ Cardinality(T) <= Cardinality({u.group : u \in S})
  BY <1>4, <1>11, NoMoreThanGroups
<1>13. SumFunctionOnSet(size, D) = Cardinality(T)
  BY <1>3, <1>8, <1>9, <1>12, SumOfParts
<1>14. SumFunction(size) <= Cardinality({u.group : u \in S})
  BY <1>9, <1>12, <1>13 DEF SumFunction
<1> QED
  BY <1>2, <1>14 DEF size, S, D

\* What is shown as the issue was counted in its rate.
LEMMA IssueIsCounted ==
    ASSUME NEW units, IsUnits(units), NEW window, NEW inferred,
           NEW u \in Issue(units, window, inferred)
    PROVE  u \in Counted(units, window, inferred) /\ Complains(u)
<1> DEFINE posts == {v \in ToSet(units) :
                        v.brand = Guardian /\ v.window = window /\ TimeEligible(v, inferred)}
           all == EligibleUnits(units, window, inferred)
<1>1. u \in InWindow(units, window, inferred) /\ u.brand = Guardian /\ u.ok
      /\ Complains(u)
  BY DEF Issue
<1>2. InWindow(units, window, inferred) = Firsts(ToSet(units) \cap all)
  BY CollapseKeepsFirsts DEF InWindow
<1>3. \A v : v \in posts => v \in all /\ v \in ToSet(units)
  BY Zenon DEF EligibleUnits
<1>4. \A v \in all : v.brand = Guardian => v \in posts
  BY Zenon DEF EligibleUnits
<1>5. Counted(units, window, inferred) = {v \in Firsts(posts) : v.ok}
  BY CountedAreFirsts
<1> HIDE DEF posts, all
<1>6. u \in Firsts(posts)
  BY <1>1, <1>2, <1>3, <1>4 DEF Firsts
<1> QED
  BY <1>1, <1>5, <1>6

\* The feedback of a likely driver is some of the issue.
LEMMA DriversAreOfTheIssue ==
    ASSUME NEW units, NEW inferred, NEW c \in LikelyDrivers(units, inferred)
    PROVE  c.evidence \subseteq Issue(units, "current", inferred)
<1>1. c \in Candidates(units, inferred)
  BY Zenon DEF LikelyDrivers
<1> DEFINE current == Issue(units, "current", inferred)
           baseline == Issue(units, "baseline", inferred)
           with(issue, d, x) == {u \in issue : DriverValue(u, d) = x}
           scale == IF baseline = {} THEN 1 ELSE Cardinality(baseline)
           candidate(d, x) ==
            LET n == Cardinality(with(current, d, x))
                b == Cardinality(with(baseline, d, x))
            IN  [dimension |-> d, value |-> x, support |-> n, baseline |-> b,
                 excess |-> IF n * scale > Cardinality(current) * b
                            THEN n * scale - Cardinality(current) * b ELSE 0,
                 breadth |-> Cardinality({u.source : u \in with(current, d, x)}),
                 evidence |-> with(current, d, x)]
           values(d) == {DriverValue(u, d) : u \in current} \ {"other"}
           all == UNION {{candidate(d, x) : x \in values(d)} : d \in {"source_group", "subtopic"}}
<1>2. c \in all
  <2>1. Candidates(units, inferred) = {e \in all : e.support >= DriverSupport}
    BY DEF Candidates
  <2> HIDE DEF all
  <2> QED
    BY <1>1, <2>1
<1>3. PICK d \in {"source_group", "subtopic"} : c \in {candidate(d, x) : x \in values(d)}
  <2> HIDE DEF candidate, values
  <2> QED
    BY <1>2
<1>4. PICK x \in values(d) : c = candidate(d, x)
  <2> HIDE DEF candidate, values
  <2> QED
    BY <1>3
<1>5. c.evidence = with(current, d, x)
  BY <1>4
<1>6. with(current, d, x) \subseteq current
  OBVIOUS
<1> HIDE DEF with, current
<1>7. c.evidence \subseteq current
  BY <1>5, <1>6
<1> QED
  BY <1>7 DEF current

\* Evidence and drivers are taken from the issue, and the issue was counted: a
\* unit that stands for its group among all brands does so among Guardian's.
LEMMA ShownIsCounted == CountUnits => EvidenceWasCounted'
<1> DEFINE counted(i) == {u \in answer'.counted[<<"current", i>>] : Complains(u)}
<1> SUFFICES ASSUME CountUnits
             PROVE  /\ answer'.roles.representative \cup answer'.roles.supporting
                            \subseteq counted(FALSE)
                    /\ \A i \in BOOLEAN : \A d \in answer'.drivers[i] :
                            d.evidence \subseteq counted(i)
  BY DEF EvidenceWasCounted
<1>1. PICK units \in UnitInputs : ShowsUnits(units)'
  BY UnitsShown
<1>2. /\ answer'.counted = [x \in Windowed |-> Counted(units, x[1], x[2])]
      /\ answer'.roles = EvidenceRoles(units, Head(SubtopicOrder))
      /\ answer'.drivers = [i \in BOOLEAN |-> LikelyDrivers(units, i)]
  BY <1>1 DEF ShowsUnits
<1> DEFINE issue(i) == Issue(units, "current", i)
<1>3. IsUnits(units)
  BY UnitsAssumption
<1>4. ASSUME NEW i \in BOOLEAN PROVE issue(i) \subseteq counted(i)
  <2>1. answer'.counted[<<"current", i>>] = Counted(units, "current", i)
    <3>1. <<"current", i>> \in Windowed
      BY DEF Windowed
    <3> QED
      BY <1>2, <3>1
  <2> SUFFICES ASSUME NEW u \in issue(i) PROVE u \in counted(i)
    OBVIOUS
  <2>2. u \in Counted(units, "current", i) /\ Complains(u)
    BY <1>3, IssueIsCounted
  <2> QED
    BY <2>1, <2>2
<1>5. answer'.roles.representative \cup answer'.roles.supporting \subseteq issue(FALSE)
  <2>1. /\ answer'.roles.representative = Representatives(Head(SubtopicOrder), EvidenceIssue(units))
        /\ answer'.roles.supporting = Supporting(Head(SubtopicOrder), EvidenceIssue(units))
    BY <1>2 DEF EvidenceRoles
  <2>2. EvidenceIssue(units) = issue(FALSE)
    BY DEF EvidenceIssue
  <2> HIDE DEF issue
  <2>3. \A p, E : Representatives(p, E) \subseteq E
    BY Zenon DEF Representatives
  <2>4. \A p, E : Supporting(p, E) \subseteq E
    <3> SUFFICES ASSUME NEW p, NEW E PROVE Supporting(p, E) \subseteq E
      OBVIOUS
    <3> DEFINE rest == E \ Representatives(p, E)
    <3>1. Supporting(p, E) \subseteq rest
      BY Zenon DEF Supporting
    <3> QED
      BY <3>1
  <2> QED
    BY <2>1, <2>2, <2>3, <2>4
<1>6. ASSUME NEW i \in BOOLEAN, NEW d \in answer'.drivers[i]
      PROVE  d.evidence \subseteq issue(i)
  BY <1>2, <1>6, DriversAreOfTheIssue
<1> HIDE DEF issue, counted
<1>7. answer'.roles.representative \cup answer'.roles.supporting \subseteq counted(FALSE)
  BY <1>4, <1>5
<1>8. ASSUME NEW i \in BOOLEAN, NEW d \in answer'.drivers[i]
      PROVE  d.evidence \subseteq counted(i)
  BY <1>4, <1>6, <1>8
<1> QED
  BY <1>7, <1>8

\* Every group has one representative, and the representative one product.
LEMMA RepostsOfProducts == ReadDashboard => RepostsReachOneProduct'
<1> SUFFICES ASSUME ReadDashboard
             PROVE  SumFunction([p \in DOMAIN answer'.products |->
                                    answer'.products[p].current.feedback])
                      <= Cardinality({r.group : r \in {s \in question'.rows :
                            /\ Resolved(s) = Guardian
                            /\ s.day # None /\ question'.windows.current[1] <= s.day
                            /\ s.day < question'.windows.current[2]}})
  BY DEF RepostsReachOneProduct
<1>1. PICK q \in DashboardInputs : ShowsDashboard(q)'
  BY DashboardShown
<1> DEFINE rows == q.rows
           windows == DashboardDays(PeriodOf(q))
           products == {r.product : r \in GuardianRows(rows)}
           T == InPeriod(GuardianRows(rows), windows.current, q.inferred)
           S == {s \in rows : /\ Resolved(s) = Guardian
                              /\ s.day # None /\ windows.current[1] <= s.day
                              /\ s.day < windows.current[2]}
           size == [p \in DOMAIN answer'.products |-> answer'.products[p].current.feedback]
<1>2. /\ question'.rows = rows /\ question'.windows = windows
      /\ answer'.products = Products(rows, windows, q.inferred)
  BY <1>1 DEF ShowsDashboard
<1>3. IsRows(rows)
  BY RowsAssumption
<1>4. DOMAIN answer'.products = products
  BY <1>2 DEF Products
<1>5. \A p \in products : size[p] = OfProduct(T, p)
  <2> SUFFICES ASSUME NEW p \in products
               PROVE  answer'.products[p].current.feedback = OfProduct(T, p)
    BY <1>4
  <2> DEFINE mine == {r \in GuardianRows(rows) : r.product = p}
  <2>1. answer'.products[p] = ProductView(rows, p, windows, q.inferred)
    BY <1>2 DEF Products
  <2>2. answer'.products[p].current.feedback
            = Cardinality(InPeriod(mine, windows.current, q.inferred))
    <3>1. answer'.products[p].current = Counts(InPeriod(mine, windows.current, q.inferred))
      BY <2>1 DEF ProductView
    <3>2. ASSUME NEW period PROVE Counts(period).feedback = Cardinality(period)
      BY DEF Counts
    <3> HIDE DEF mine, windows
    <3> QED
      BY <3>1, <3>2
  <2>3. Cardinality(InPeriod(mine, windows.current, q.inferred)) = OfProduct(T, p)
    BY DEF InPeriod, OfProduct
  <2> QED
    BY <2>2, <2>3
<1>6. T \in SUBSET GuardianRows(rows) /\ T \subseteq S
  BY DEF InPeriod, OnTime, GuardianRows, Independent
<1>7. \A u, v \in GuardianRows(rows) : u.group = v.group => u = v
  BY <1>3 DEF GuardianRows, Independent, IsRows
<1>8. IsFiniteSet(S)
  <2>1. S \subseteq rows
    OBVIOUS
  <2> HIDE DEF S, rows
  <2> QED
    BY <1>3, <2>1, FS_Subset DEF IsRows
<1>9. DOMAIN size = products /\ products = {r.product : r \in GuardianRows(rows)}
  BY <1>4
<1> HIDE DEF T, S, size, products, rows, windows
<1>10. SumFunction(size) = Cardinality(T)
  BY <1>3, <1>5, <1>6, <1>9, ProductsAddUp
<1>11. \A u, v \in T : u.group = v.group => u = v
  BY <1>6, <1>7
<1>12. Cardinality(T) <= Cardinality({u.group : u \in S})
  BY <1>6, <1>8, <1>11, NoMoreThanGroups
<1>13. SumFunction(size) <= Cardinality({u.group : u \in S})
  BY <1>10, <1>12
<1> QED
  BY <1>2, <1>13 DEF size, S
-----------------------------------------------------------------------------
(* Windows and weeks. *)

\* A day has 24 hours, wherever it starts.
LEMMA DaysAreWhole ==
    ASSUME NEW h \in Int
    PROVE  /\ (h \div 24) * 24 <= h /\ h < (h \div 24) * 24 + 24
           /\ h \div 24 \in Int
           /\ \A d \in Int : (24 * d) % 24 = 0
<1>1. h \div 24 \in Int /\ (h \div 24) * 24 <= h /\ h < (h \div 24) * 24 + 24
  OBVIOUS
<1>2. \A d \in Int : (24 * d) % 24 = 0
  OBVIOUS
<1> QED
  BY <1>1, <1>2

\* build_analysis_windows and _dashboard_windows cut time at local midnights.
LEMMA WholeDays == BuildWindows => WindowsAreWholeDays'
<1> SUFFICES ASSUME BuildWindows
             PROVE  LET a == answer'.analysis
                        d == answer'.dashboard
                        end == a.current[2]
                    IN  /\ (end + Offset) % 24 = 0
                        /\ IF question'.complete
                           THEN end > question'.asOf /\ end <= question'.asOf + 24
                           ELSE end <= question'.asOf /\ end > question'.asOf - 24
                        /\ a.baseline[2] = a.current[1] /\ d.baseline[2] = d.current[1]
                        /\ d.current[2] - d.current[1] = d.baseline[2] - d.baseline[1]
                        /\ d.current[1] < d.current[2] /\ (d.current[1] + Offset) % 24 = 0
  BY DEF WindowsAreWholeDays
<1>1. PICK w \in WindowInputs :
        /\ question' = [kind |-> "windows", asOf |-> w.asOf, complete |-> w.complete,
                        range |-> w.range]
        /\ answer' = [analysis |-> Windows(w.asOf, w.complete, 7, 28),
                      dashboard |-> DashboardWindows(w.asOf, w.complete, w.range)]
  BY Zenon DEF BuildWindows
<1> DEFINE end == EndOfWindow(w.asOf, w.complete)
           day == (w.asOf + Offset) \div 24
           last == day + (IF w.complete THEN 1 ELSE 0)
<1>2. /\ Offset \in Int /\ w.asOf \in Int /\ w.complete \in BOOLEAN
      /\ w.range.kind = "custom"
            => w.range.from \in Int /\ w.range.to \in Int /\ w.range.from <= w.range.to
      /\ w.range.kind # "custom" => w.range.days \in Nat \ {0}
  BY WindowsAssumption
<1>3. /\ question'.complete = w.complete /\ question'.asOf = w.asOf
      /\ answer'.analysis = Windows(w.asOf, w.complete, 7, 28)
      /\ answer'.dashboard = DashboardWindows(w.asOf, w.complete, w.range)
  BY <1>1
<1>4. day \in Int /\ day * 24 <= w.asOf + Offset /\ w.asOf + Offset < day * 24 + 24
  <2> DEFINE h == w.asOf + Offset
  <2>1. h \in Int
    BY <1>2
  <2> HIDE DEF h
  <2>2. (h \div 24) * 24 <= h /\ h < (h \div 24) * 24 + 24 /\ h \div 24 \in Int
    BY <2>1, DaysAreWhole
  <2> QED
    BY <2>2 DEF h
<1>5. end = 24 * last - Offset /\ last \in Int
  <2> HIDE DEF day
  <2>1. end = day * 24 + (IF w.complete THEN 24 ELSE 0) - Offset
    BY DEF EndOfWindow, day
  <2> QED
    BY <1>2, <1>4, <2>1
<1>6. IF w.complete THEN end > w.asOf /\ end <= w.asOf + 24
      ELSE end <= w.asOf /\ end > w.asOf - 24
  <2> HIDE DEF day, end
  <2> QED
    BY <1>2, <1>4, <1>5
<1>7. \A d \in Int : (24 * d) % 24 = 0
  BY <1>2, DaysAreWhole
<1> DEFINE a == answer'.analysis
           d == answer'.dashboard
<1>8. a.current = <<end - 24 * 7, end>> /\ a.baseline[2] = end - 24 * 7
  BY <1>3 DEF Windows
<1>9. PICK first \in Int, after \in Int :
        /\ first < after /\ d.current = <<24 * first - Offset, 24 * after - Offset>>
        /\ d.baseline = <<(24 * first - Offset) - (24 * after - 24 * first), 24 * first - Offset>>
  <2>1. CASE w.range.kind = "custom"
    <3>1. /\ d.current = <<24 * w.range.from - Offset, 24 * (w.range.to + 1) - Offset>>
          /\ d.baseline = <<(24 * w.range.from - Offset)
                              - ((24 * (w.range.to + 1) - Offset) - (24 * w.range.from - Offset)),
                            24 * w.range.from - Offset>>
      BY <1>3, <2>1 DEF DashboardWindows
    <3>2. w.range.from < w.range.to + 1 /\ w.range.from \in Int /\ w.range.to + 1 \in Int
      BY <1>2, <2>1
    <3>3. (24 * (w.range.to + 1) - Offset) - (24 * w.range.from - Offset)
                = 24 * (w.range.to + 1) - 24 * w.range.from
      BY <1>2, <3>2
    <3> QED
      BY <3>1, <3>2, <3>3
  <2>2. CASE w.range.kind # "custom"
    <3> HIDE DEF end
    <3>1. /\ d.current = <<end - 24 * w.range.days, end>>
          /\ d.baseline = <<(end - 24 * w.range.days) - (end - (end - 24 * w.range.days)),
                            end - 24 * w.range.days>>
      BY <1>3, <2>2 DEF DashboardWindows, end
    <3> DEFINE first == last - w.range.days
    <3>2. first < last /\ first \in Int /\ last \in Int
      BY <1>2, <1>5, <2>2
    <3>3. end - 24 * w.range.days = 24 * first - Offset
      BY <1>2, <1>5, <2>2
    <3>4. end - (end - 24 * w.range.days) = 24 * last - 24 * first
      BY <1>2, <1>5, <2>2
    <3> HIDE DEF first, last
    <3> QED
      BY <1>5, <3>1, <3>2, <3>3, <3>4
  <2> QED
    BY <2>1, <2>2
<1> HIDE DEF a, d, end, last, day
<1>10. (end + Offset) % 24 = 0
  <2>1. end + Offset = 24 * last
    BY <1>2, <1>5
  <2> QED
    BY <1>5, <1>7, <2>1
<1>11. (d.current[1] + Offset) % 24 = 0
  <2>1. d.current[1] + Offset = 24 * first
    BY <1>2, <1>9
  <2> QED
    BY <1>7, <2>1
<1>12. /\ d.baseline[2] = d.current[1] /\ d.current[1] < d.current[2]
       /\ d.current[2] - d.current[1] = d.baseline[2] - d.baseline[1]
  BY <1>2, <1>9
<1>13. a.current[2] = end /\ a.baseline[2] = a.current[1]
  BY <1>8
<1> QED
  BY <1>3, <1>6, <1>10, <1>11, <1>12, <1>13 DEF a, d

\* detect_recurring_friction counts the leads among the last weeks with feedback.
LEMMA RecentLeads == DetectRecurring => RecurringIsRecent'
<1> SUFFICES ASSUME DetectRecurring, answer'
             PROVE  LET weeks == {w \in DOMAIN question'.negatives :
                            \E t \in ToSet(TopicNames) : question'.negatives[w][t] > 0}
                        recent == {w \in weeks : Cardinality({v \in weeks : v > w}) < Lookback}
                        led(w) == Cardinality({t \in ToSet(TopicNames) :
                            question'.negatives[w][t] > question'.negatives[w][question'.topic]})
                                < TopN
                    IN  Cardinality({w \in recent : led(w)}) >= WeeksRequired
  BY DEF RecurringIsRecent
<1>1. PICK negatives \in WeekInputs, healthy \in BOOLEAN, topic \in ToSet(TopicNames) :
        /\ question' = [kind |-> "recurring", negatives |-> negatives, healthy |-> healthy,
                        topic |-> topic]
        /\ answer' = Recurs(negatives, healthy, topic)
  BY Zenon DEF DetectRecurring
<1>2. question'.negatives = negatives /\ question'.topic = topic
  BY <1>1
<1> DEFINE names == ToSet(TopicNames)
           weeks == {w \in DOMAIN negatives : \E t \in names : negatives[w][t] > 0}
           recent == {w \in weeks : Cardinality({v \in weeks : v > w}) < Lookback}
           better(w) == {t \in names : negatives[w][t] > negatives[w][topic]}
           led(w) == Cardinality(better(w)) < TopN
           counted == {w \in Available(negatives) :
                        negatives[w][topic] > 0 /\ WeekRank(negatives[w], topic) <= TopN}
<1>3. /\ IsFiniteSet(DOMAIN negatives)
      /\ \A w \in DOMAIN negatives : negatives[w] \in [names -> Nat]
  BY WeeksAssumption
<1>4. IsFiniteSet(names) /\ TopN \in Nat /\ WeeksRequired \in Int
  BY WeeksAssumption, AnalyticsAssumption, ElementsAreFinite
<1>5. Available(negatives) = recent
  <2>1. weeks = {w \in DOMAIN negatives : \E t \in DOMAIN negatives[w] : negatives[w][t] > 0}
    BY <1>3
  <2> HIDE DEF names
  <2> QED
    BY <2>1, Zenon DEF Available
<1>6. Cardinality(counted) >= WeeksRequired
  BY <1>1, Zenon DEF Recurs
<1>7. ASSUME NEW w \in counted PROVE w \in recent /\ led(w)
  <2>1. w \in recent /\ WeekRank(negatives[w], topic) <= TopN
    BY <1>5
  <2> DEFINE before == {u \in names : \/ negatives[w][u] > negatives[w][topic]
                                      \/ negatives[w][u] = negatives[w][topic] /\ Before(u, topic)}
  <2>2. w \in DOMAIN negatives
    BY <2>1
  <2>3. WeekRank(negatives[w], topic) = 1 + Cardinality(before)
    <3>1. DOMAIN negatives[w] = names
      BY <1>3, <2>2
    <3> QED
      BY <3>1 DEF WeekRank
  <2>4. better(w) \subseteq before /\ before \subseteq names
    OBVIOUS
  <2> HIDE DEF before, better, names
  <2>5. IsFiniteSet(before)
    BY <1>4, <2>4, FS_Subset
  <2>6. Cardinality(better(w)) <= Cardinality(before) /\ IsFiniteSet(better(w))
    BY <2>4, <2>5, FS_Subset
  <2>7. Cardinality(better(w)) \in Nat /\ Cardinality(before) \in Nat
    BY <2>5, <2>6, FS_CardinalityType
  <2> HIDE DEF counted
  <2> QED
    BY <1>4, <2>1, <2>3, <2>6, <2>7
<1> DEFINE leads == {w \in recent : led(w)}
<1>8. counted \subseteq leads
  <2> HIDE DEF counted, recent, led
  <2> QED
    BY <1>7
<1>9. IsFiniteSet(leads)
  <2>1. leads \subseteq DOMAIN negatives
    OBVIOUS
  <2> HIDE DEF leads
  <2> QED
    BY <1>3, <2>1, FS_Subset
<1> HIDE DEF leads, counted
<1>10. Cardinality(counted) <= Cardinality(leads) /\ IsFiniteSet(counted)
  BY <1>8, <1>9, FS_Subset
<1>11. Cardinality(counted) \in Nat /\ Cardinality(leads) \in Nat
  BY <1>9, <1>10, FS_CardinalityType
<1>12. Cardinality(leads) >= WeeksRequired
  BY <1>4, <1>6, <1>10, <1>11
<1> QED
  BY <1>2, <1>12 DEF leads, recent, led, better, weeks, names
-----------------------------------------------------------------------------
(* Changes and shares are means. *)

\* Multiplying both sides.
LEMMA TimesPositive ==
    ASSUME NEW a \in Int, NEW b \in Int, NEW k \in Int, k >= 0, a <= b
    PROVE  k * a <= k * b
OBVIOUS

\* No weighted mean lies outside of what it is the mean of.
LEMMA MeanIsBetween ==
    ASSUME NEW E, IsFiniteSet(E), E # {}, NEW weight, NEW x,
           \A i \in E : weight[i] \in Int /\ x[i] \in Int,
           NEW W, W = SumFunctionOnSet(weight, E), NEW X, X = SumFunctionOnSet(x, E)
    PROVE  /\ \E i \in E : x[i] * W <= X * weight[i]
           /\ \E i \in E : X * weight[i] <= x[i] * W
<1> DEFINE f == [i \in E |-> W * x[i]]
           g == [i \in E |-> X * weight[i]]
<1>1. W \in Int /\ X \in Int
  BY SumType
<1>2. /\ \A i \in E : f[i] = W * x[i] /\ g[i] = X * weight[i]
      /\ \A i \in E : f[i] \in Int /\ g[i] \in Int
  BY <1>1
<1> HIDE DEF f, g
<1>3. SumFunctionOnSet(f, E) = W * X
  BY <1>1, <1>2, SumOfMultiples
<1>4. SumFunctionOnSet(g, E) = X * W
  BY <1>1, <1>2, SumOfMultiples
<1>5. SumFunctionOnSet(f, E) = SumFunctionOnSet(g, E) /\ SumFunctionOnSet(f, E) \in Int
  <2>1. W * X = X * W /\ W * X \in Int
    BY <1>1
  <2> QED
    BY <1>3, <1>4, <2>1
<1>6. \E i \in E : f[i] <= g[i]
  <2> SUFFICES ASSUME \A i \in E : ~(f[i] <= g[i]) PROVE FALSE
    OBVIOUS
  <2>1. \A i \in E : g[i] \in Int /\ f[i] \in Int /\ g[i] < f[i]
    BY <1>2
  <2>2. SumFunctionOnSet(g, E) < SumFunctionOnSet(f, E)
    BY <2>1, SumOfLess
  <2> QED
    BY <1>5, <2>2
<1>7. \E i \in E : g[i] <= f[i]
  <2> SUFFICES ASSUME \A i \in E : ~(g[i] <= f[i]) PROVE FALSE
    OBVIOUS
  <2>1. \A i \in E : f[i] \in Int /\ g[i] \in Int /\ f[i] < g[i]
    BY <1>2
  <2>2. SumFunctionOnSet(f, E) < SumFunctionOnSet(g, E)
    BY <2>1, SumOfLess
  <2> QED
    BY <1>5, <2>2
<1>8. \A i \in E : f[i] = x[i] * W
  <2> SUFFICES ASSUME NEW i \in E PROVE f[i] = x[i] * W
    OBVIOUS
  <2>1. x[i] \in Int /\ W \in Int
    BY <1>1
  <2>2. W * x[i] = x[i] * W
    BY <2>1
  <2> QED
    BY <1>2, <2>2
<1> QED
  BY <1>2, <1>6, <1>7, <1>8

\* What the mean is multiplied by to compare it with one of its parts.
LEMMA CommonDenominator ==
    ASSUME NEW X \in Int, NEW W \in Nat, NEW O \in Int, NEW d \in Int,
           NEW C \in Nat, NEW B \in Int, NEW P, P = C * O
    PROVE  /\ X * B <= (O * d) * W => (W * X) * (C * B) <= d * ((W * P) * W)
           /\ (O * d) * W <= X * B => d * ((W * P) * W) <= (W * X) * (C * B)
<1> DEFINE k == C * W
           a == X * B
           b == (O * d) * W
<1>1. a \in Int /\ b \in Int /\ k \in Nat
  OBVIOUS
<1>2. (W * X) * (C * B) = k * a
  OBVIOUS
<1>3. d * ((W * P) * W) = k * b
  <2>1. d * ((W * (C * O)) * W) = (C * W) * ((O * d) * W)
    OBVIOUS
  <2> QED
    BY <2>1
<1> HIDE DEF k, a, b
<1>4. (a <= b => k * a <= k * b) /\ (b <= a => k * b <= k * a)
  BY <1>1, TimesPositive
<1>5. /\ a <= b => (W * X) * (C * B) <= d * ((W * P) * W)
      /\ b <= a => d * ((W * P) * W) <= (W * X) * (C * B)
  BY <1>2, <1>3, <1>4
<1> QED
  BY <1>5 DEF a, b

\* Arithmetic of a difference of fractions over one denominator.
LEMMA ProductOfDifferences ==
    ASSUME NEW c \in Int, NEW C \in Int, NEW b \in Int, NEW B \in Int, NEW o \in Int
    PROVE  /\ B * c * o \in Int /\ (C * o) * b \in Int
           /\ o * (c * B - b * C) = B * c * o - (C * o) * b
OBVIOUS

\* The all-channel change over one denominator: P is the product of the current
\* denominators, O what each of them leaves of it, W the sum of the baseline
\* denominators and X the sum of the changes x of the strata.
ChangeOver(strata, E, W, P, X, O, x) ==
    /\ W \in Nat /\ P \in Int /\ X \in Int /\ IsFiniteSet(E)
    /\ \A i \in E : /\ strata[i].c \in Nat /\ strata[i].C \in Nat
                    /\ strata[i].b \in Nat /\ strata[i].B \in Nat
                    /\ O[i] \in Int /\ P = strata[i].C * O[i]
                    /\ x[i] = O[i] * (strata[i].c * strata[i].B - strata[i].b * strata[i].C)
    /\ W = SumFunctionOnSet([i \in E |-> strata[i].B], E) /\ X = SumFunctionOnSet(x, E)
    /\ Minus(CurrentShare(strata, E), BaselineShare(strata, E)) = <<W * X, (W * P) * W>>

\* The change of the eligible strata is a fraction over their product.
LEMMA ChangeOfStrata ==
    ASSUME NEW strata, strata \in Seq(Strata), NEW E, E = Eligible(strata)
    PROVE  \E W, P, X, O, x : ChangeOver(strata, E, W, P, X, O, x)
<1> DEFINE B == [i \in E |-> strata[i].B]
           b == [i \in E |-> strata[i].b]
           C == [i \in E |-> strata[i].C]
           O == [i \in E |-> ProductFunctionOnSet(C, E \ {i})]
           now == [i \in E |-> strata[i].B * strata[i].c * O[i]]
           x == [i \in E |-> O[i] * (strata[i].c * strata[i].B - strata[i].b * strata[i].C)]
           W == SumFunctionOnSet(B, E)
           P == ProductFunctionOnSet(C, E)
           X == SumFunctionOnSet(x, E)
           then == [i \in E |-> P * b[i]]
<1>1. DOMAIN strata = 1 .. Len(strata) /\ Len(strata) \in Nat /\ E \subseteq DOMAIN strata
  BY DEF Eligible
<1>2. IsFiniteSet(E)
  <2>1. IsFiniteSet(DOMAIN strata)
    BY <1>1, FS_Interval
  <2> QED
    BY <1>1, <2>1, FS_Subset
<1>3. ASSUME NEW i \in E
      PROVE  /\ strata[i].c \in Nat /\ strata[i].C \in Nat \ {0}
             /\ strata[i].b \in Nat /\ strata[i].B \in Nat \ {0}
  <2>1. strata[i] \in Strata
    BY <1>1
  <2>2. /\ strata[i].c \in Nat /\ strata[i].C \in Nat
        /\ strata[i].b \in Nat /\ strata[i].B \in Nat
    BY <2>1 DEF Strata
  <2>3. strata[i].C >= MinCurrent /\ strata[i].B >= MinBaseline
    BY DEF Eligible
  <2> QED
    BY <2>2, <2>3, AnalyticsAssumption
<1>4. \A i \in E : C[i] \in Nat \ {0}
  BY <1>3
<1>5. \A i \in E : O[i] \in Nat \ {0} /\ P = C[i] * O[i]
  <2> SUFFICES ASSUME NEW i \in E PROVE O[i] \in Nat \ {0} /\ P = C[i] * O[i]
    OBVIOUS
  <2>1. O[i] = ProductFunctionOnSet(C, E \ {i})
    OBVIOUS
  <2> HIDE DEF C, O
  <2> QED
    BY <1>2, <1>4, <2>1, FactorOut
<1>6. P \in Nat \ {0}
  <2> HIDE DEF C
  <2> QED
    BY <1>2, <1>4, ProductIsPositive
<1>7. /\ CurrentShare(strata, E) = <<SumFunctionOnSet(now, E), W * P>>
      /\ BaselineShare(strata, E) = <<SumFunctionOnSet(b, E), W>>
  BY DEF CurrentShare, BaselineShare, SumFunction
<1> HIDE DEF O, P
<1>8. \A i \in E : /\ B[i] \in Nat /\ b[i] \in Nat /\ b[i] \in Int
                   /\ now[i] = strata[i].B * strata[i].c * O[i]
                   /\ then[i] = P * b[i]
                   /\ x[i] = O[i] * (strata[i].c * strata[i].B - strata[i].b * strata[i].C)
  BY <1>3
<1>9. \A i \in E : now[i] \in Int /\ then[i] \in Int /\ x[i] \in Int /\ x[i] = now[i] - then[i]
  <2> SUFFICES ASSUME NEW i \in E
               PROVE  now[i] \in Int /\ then[i] \in Int /\ x[i] \in Int /\ x[i] = now[i] - then[i]
    OBVIOUS
  <2> DEFINE s == strata[i]
  <2>1. s.c \in Nat /\ s.C \in Nat /\ s.b \in Nat /\ s.B \in Nat /\ O[i] \in Nat /\ P = s.C * O[i]
    BY <1>3, <1>5
  <2>2. now[i] = s.B * s.c * O[i] /\ then[i] = (s.C * O[i]) * s.b
        /\ x[i] = O[i] * (s.c * s.B - s.b * s.C)
    BY <1>8, <2>1
  <2> HIDE DEF now, then, x
  <2>3. /\ s.B * s.c * O[i] \in Int /\ (s.C * O[i]) * s.b \in Int
        /\ O[i] * (s.c * s.B - s.b * s.C) = s.B * s.c * O[i] - (s.C * O[i]) * s.b
    <3> HIDE DEF s
    <3> DEFINE c1 == s.c
               C1 == s.C
               b1 == s.b
               B1 == s.B
               o == O[i]
    <3>1. c1 \in Int /\ C1 \in Int /\ b1 \in Int /\ B1 \in Int /\ o \in Int
      BY <2>1
    <3> HIDE DEF c1, C1, b1, B1, o
    <3>2. /\ B1 * c1 * o \in Int /\ (C1 * o) * b1 \in Int
          /\ o * (c1 * B1 - b1 * C1) = B1 * c1 * o - (C1 * o) * b1
      BY <3>1, ProductOfDifferences
    <3> QED
      BY <3>2 DEF c1, C1, b1, B1, o
  <2> QED
    BY <2>2, <2>3
<1> HIDE DEF now, then, x, b, B
<1>10. SumFunctionOnSet(then, E) = P * SumFunctionOnSet(b, E)
  BY <1>2, <1>6, <1>8, SumOfMultiples
<1>11. X = SumFunctionOnSet(now, E) - P * SumFunctionOnSet(b, E)
  BY <1>2, <1>9, <1>10, SumOfDifferences
<1>12. /\ SumFunctionOnSet(now, E) \in Int /\ SumFunctionOnSet(b, E) \in Int
       /\ X \in Int /\ W \in Int
  BY <1>2, <1>8, <1>9, SumType
<1>13. W \in Nat
  BY <1>2, <1>8, SumOfNaturals
<1>14. Minus(CurrentShare(strata, E), BaselineShare(strata, E)) = <<W * X, (W * P) * W>>
  <2> DEFINE N == SumFunctionOnSet(now, E)
             M == SumFunctionOnSet(b, E)
  <2>1. Minus(CurrentShare(strata, E), BaselineShare(strata, E))
            = <<N * W - M * (W * P), (W * P) * W>>
    BY <1>7 DEF Minus
  <2>2. N \in Int /\ M \in Int /\ W \in Int /\ P \in Int /\ X = N - P * M
    BY <1>6, <1>11, <1>12
  <2> HIDE DEF N, M, W, X
  <2>3. N * W - M * (W * P) = W * (N - P * M)
    BY <2>2
  <2> QED
    BY <2>1, <2>2, <2>3
<1>15. \A i \in E : O[i] \in Int /\ P = strata[i].C * O[i]
  <2>1. \A i \in E : C[i] = strata[i].C
    OBVIOUS
  <2> QED
    BY <1>5, <2>1
<1> HIDE DEF X
<1>16. P \in Int /\ W = SumFunctionOnSet([i \in E |-> strata[i].B], E)
       /\ X = SumFunctionOnSet(x, E)
  BY <1>6 DEF X, B
<1> HIDE DEF W
<1>17. ChangeOver(strata, E, W, P, X, O, x)
  BY <1>2, <1>3, <1>8, <1>12, <1>13, <1>14, <1>15, <1>16 DEF ChangeOver
<1> QED
  BY <1>17

\* The change of all channels is a weighted mean of the strata's changes, and no
\* mean lies outside of what it is the mean of.
LEMMA ChangeIsBetween == ComputeTrend => ChangeIsWithinStrata'
<1> SUFFICES ASSUME ComputeTrend
             PROVE  LET strata == question'.strata
                        E == Eligible(strata)
                        delta == Minus(CurrentShare(strata, E), BaselineShare(strata, E))
                        change(i) == Minus(<<strata[i].c, strata[i].C>>, <<strata[i].b, strata[i].B>>)
                    IN  E # {} => /\ \E i \in E : ~Less(delta, change(i))
                                  /\ \E i \in E : ~Less(change(i), delta)
  BY DEF ChangeIsWithinStrata
<1>1. PICK strata \in TrendInputs :
        /\ question' = [kind |-> "trend", strata |-> strata,
                        required |-> {strata[i].group : i \in DOMAIN strata}]
        /\ answer' = Suppressions(strata, {strata[i].group : i \in DOMAIN strata})
  BY Zenon DEF ComputeTrend
<1>2. question'.strata = strata
  BY <1>1
<1>3. strata \in Seq(Strata)
  BY TrendAssumption
<1> DEFINE E == Eligible(strata)
           delta == Minus(CurrentShare(strata, E), BaselineShare(strata, E))
           change(i) == Minus(<<strata[i].c, strata[i].C>>, <<strata[i].b, strata[i].B>>)
<1> HIDE DEF E
<1>4. PICK W, P, X, O, x : ChangeOver(strata, E, W, P, X, O, x)
  BY <1>3, ChangeOfStrata DEF E
<1>5. /\ W \in Nat /\ P \in Int /\ X \in Int /\ IsFiniteSet(E)
      /\ \A i \in E : /\ strata[i].c \in Nat /\ strata[i].C \in Nat
                      /\ strata[i].b \in Nat /\ strata[i].B \in Nat
                      /\ O[i] \in Int /\ P = strata[i].C * O[i]
                      /\ x[i] = O[i] * (strata[i].c * strata[i].B - strata[i].b * strata[i].C)
      /\ W = SumFunctionOnSet([i \in E |-> strata[i].B], E) /\ X = SumFunctionOnSet(x, E)
      /\ delta = <<W * X, (W * P) * W>>
  BY <1>4 DEF ChangeOver
<1> DEFINE weight == [i \in E |-> strata[i].B]
<1>6. \A i \in E : weight[i] = strata[i].B /\ weight[i] \in Int /\ x[i] \in Int
  <2> SUFFICES ASSUME NEW i \in E
               PROVE  weight[i] = strata[i].B /\ weight[i] \in Int /\ x[i] \in Int
    OBVIOUS
  <2>1. weight[i] = strata[i].B /\ weight[i] \in Int
    BY <1>5
  <2>2. O[i] * (strata[i].c * strata[i].B - strata[i].b * strata[i].C) \in Int
    BY <1>5, ProductOfDifferences
  <2> QED
    BY <1>5, <2>1, <2>2
<1> HIDE DEF delta
<1>7. ASSUME NEW i \in E
      PROVE  /\ X * weight[i] <= x[i] * W => ~Less(change(i), delta)
             /\ x[i] * W <= X * weight[i] => ~Less(delta, change(i))
  <2> DEFINE C == strata[i].C
             B == strata[i].B
             d == strata[i].c * strata[i].B - strata[i].b * strata[i].C
             o == O[i]
  <2>1. change(i) = <<d, C * B>>
    BY DEF Minus
  <2>2. d \in Int /\ C \in Nat /\ B \in Int /\ o \in Int /\ P = C * o
    BY <1>5
  <2>3. x[i] = o * d /\ weight[i] = B
    BY <1>5, <1>6
  <2> HIDE DEF d, C, B, o, change, weight
  <2>4. /\ X * B <= (o * d) * W => (W * X) * (C * B) <= d * ((W * P) * W)
        /\ (o * d) * W <= X * B => d * ((W * P) * W) <= (W * X) * (C * B)
    BY <1>5, <2>2, CommonDenominator
  <2>5. /\ Less(change(i), delta) <=> d * ((W * P) * W) < (W * X) * (C * B)
        /\ Less(delta, change(i)) <=> (W * X) * (C * B) < d * ((W * P) * W)
    BY <1>5, <2>1 DEF Less
  <2>6. (W * X) * (C * B) \in Int /\ d * ((W * P) * W) \in Int
    BY <1>5, <2>2
  <2> DEFINE left == (W * X) * (C * B)
             right == d * ((W * P) * W)
  <2> HIDE DEF left, right
  <2>7. /\ X * B <= (o * d) * W => left <= right
        /\ (o * d) * W <= X * B => right <= left
        /\ Less(change(i), delta) <=> right < left
        /\ Less(delta, change(i)) <=> left < right
        /\ left \in Int /\ right \in Int
    BY <2>4, <2>5, <2>6 DEF left, right
  <2> QED
    BY <2>3, <2>7
<1>8. ASSUME E # {}
      PROVE  /\ \E i \in E : x[i] * W <= X * weight[i]
             /\ \E i \in E : X * weight[i] <= x[i] * W
  <2>1. W = SumFunctionOnSet(weight, E) /\ X = SumFunctionOnSet(x, E) /\ IsFiniteSet(E)
    BY <1>5
  <2> HIDE DEF weight
  <2> QED
    BY <1>6, <1>8, <2>1, MeanIsBetween
<1> HIDE DEF change, weight
<1>9. E # {} => /\ \E i \in E : ~Less(delta, change(i))
                /\ \E i \in E : ~Less(change(i), delta)
  BY <1>7, <1>8
<1> QED
  BY <1>2, <1>9 DEF E, delta, change

\* The weighted share of a brand over one denominator: w are the weights of the
\* strata, W their sum, P the product of the brand's denominators, O what each
\* of them leaves of it and x the summands of the numerator.
ShareOver(cohort, b, K, w, W, P, O, x) ==
    /\ P \in Nat /\ \A k \in K : /\ O[k] \in Nat /\ P = cohort[k][b].d * O[k]
                                 /\ x[k] = w[k] * cohort[k][b].n * O[k] /\ x[k] \in Int
    /\ WeightedShare(cohort, b) = <<SumFunctionOnSet(x, K), W * P>>

\* The weighted share of a brand is a fraction over such a product.
LEMMA ShareOfBrand ==
    ASSUME NEW cohort \in CohortInputs, NEW b \in Brands, NEW K, K = Common(cohort),
           NEW w, w = [k \in K |-> SumFunction([c \in Brands |-> cohort[k][c].d])],
           NEW W, W = SumFunctionOnSet(w, K)
    PROVE  /\ IsFiniteSet(K) /\ W \in Nat /\ \A k \in K : w[k] \in Nat
           /\ \E P, O, x : ShareOver(cohort, b, K, w, W, P, O, x)
<1> DEFINE d == [k \in K |-> cohort[k][b].d]
           O == [k \in K |-> ProductFunctionOnSet(d, K \ {k})]
           P == ProductFunctionOnSet(d, K)
           x == [k \in K |-> w[k] * cohort[k][b].n * O[k]]
<1>1. IsFiniteSet(K) /\ K \subseteq DOMAIN cohort
  <2>1. K \subseteq DOMAIN cohort
    BY DEF Common
  <2> QED
    BY <2>1, CohortsAssumption, FS_Subset
<1>2. ASSUME NEW k \in K
      PROVE  /\ \A c \in Brands : cohort[k][c].d \in Nat
             /\ cohort[k][b].n \in Nat /\ cohort[k][b].d \in Nat \ {0}
  <2>1. /\ \A c \in Brands : cohort[k][c].d \in Nat
        /\ cohort[k][b].n \in Nat /\ cohort[k][b].d \in Nat
    BY <1>1, CohortsAssumption
  <2>2. cohort[k][b].d >= MinSample
    BY DEF Common
  <2> QED
    BY <2>1, <2>2, AnalyticsAssumption
<1>3. ASSUME NEW k \in K PROVE w[k] \in Nat
  <2> DEFINE sizes == [c \in Brands |-> cohort[k][c].d]
  <2>1. w[k] = SumFunctionOnSet(sizes, Brands)
    BY DEF SumFunction
  <2>2. \A c \in Brands : sizes[c] \in Nat
    BY <1>2
  <2> HIDE DEF sizes
  <2>3. SumFunctionOnSet(sizes, Brands) \in Nat
    BY <2>2, CohortsAssumption, SumOfNaturals
  <2> QED
    BY <2>1, <2>3
<1>4. W \in Nat
  BY <1>1, <1>3, SumOfNaturals
<1>5. \A k \in K : d[k] \in Nat \ {0}
  BY <1>2
<1>6. \A k \in K : O[k] \in Nat \ {0} /\ P = d[k] * O[k]
  <2> SUFFICES ASSUME NEW k \in K PROVE O[k] \in Nat \ {0} /\ P = d[k] * O[k]
    OBVIOUS
  <2>1. O[k] = ProductFunctionOnSet(d, K \ {k})
    OBVIOUS
  <2> HIDE DEF d, O
  <2> QED
    BY <1>1, <1>5, <2>1, FactorOut
<1>7. P \in Nat \ {0}
  <2> HIDE DEF d
  <2> QED
    BY <1>1, <1>5, ProductIsPositive
<1>8. WeightedShare(cohort, b) = <<SumFunctionOnSet(x, K), W * P>>
  BY DEF WeightedShare, Weight, SumFunction
<1> HIDE DEF O, P
<1>9. \A k \in K : x[k] = w[k] * cohort[k][b].n * O[k] /\ x[k] \in Int
  <2> SUFFICES ASSUME NEW k \in K
               PROVE  x[k] = w[k] * cohort[k][b].n * O[k] /\ x[k] \in Int
    OBVIOUS
  <2> DEFINE n == cohort[k][b].n
             v == w[k]
             o == O[k]
  <2>1. v \in Nat /\ n \in Nat /\ o \in Nat
    BY <1>2, <1>3, <1>6
  <2>2. x[k] = v * n * o
    OBVIOUS
  <2> HIDE DEF v, n, o, x
  <2>3. v * n * o \in Int
    BY <2>1
  <2> QED
    BY <2>2, <2>3 DEF v, n, o
<1>10. \A k \in K : O[k] \in Nat /\ P = cohort[k][b].d * O[k]
  BY <1>6
<1> HIDE DEF x, d
<1>11. ShareOver(cohort, b, K, w, W, P, O, x)
  BY <1>7, <1>8, <1>9, <1>10 DEF ShareOver
<1> QED
  BY <1>1, <1>3, <1>4, <1>11

\* One stratum of two brands.
LEMMA CrossMultiplied ==
    ASSUME NEW v \in Nat, NEW n1 \in Nat, NEW d1 \in Nat, NEW o1 \in Nat,
           NEW n2 \in Nat, NEW d2 \in Nat, NEW o2 \in Nat, n1 * d2 <= n2 * d1
    PROVE  (d2 * o2) * (v * n1 * o1) <= (d1 * o1) * (v * n2 * o2)
<1> DEFINE k == v * o1 * o2
           a == n1 * d2
           b == n2 * d1
<1>1. a \in Int /\ b \in Int /\ k \in Nat
  OBVIOUS
<1>2. (d2 * o2) * (v * n1 * o1) = k * a /\ (d1 * o1) * (v * n2 * o2) = k * b
  OBVIOUS
<1>3. a <= b
  OBVIOUS
<1> HIDE DEF k, a, b
<1>4. k * a <= k * b
  BY <1>1, <1>3, TimesPositive
<1> QED
  BY <1>2, <1>4

\* Every brand has the weights of the strata: what is smaller in each stratum is
\* smaller in the sum.
LEMMA FairComparison == CompareBrands => ComparisonsAreFair'
<1> SUFFICES ASSUME CompareBrands, answer' # <<>>, NEW b \in Brands, NEW e \in Brands,
                    \A k \in Common(question'.cohort) :
                        ~Less(<<question'.cohort[k][e].n, question'.cohort[k][e].d>>,
                              <<question'.cohort[k][b].n, question'.cohort[k][b].d>>)
             PROVE  ~Less(answer'[e], answer'[b])
  BY DEF ComparisonsAreFair
<1>1. PICK cohort \in CohortInputs :
        /\ question' = [kind |-> "benchmark", cohort |-> cohort]
        /\ answer' = Benchmark(cohort)
  BY Zenon DEF CompareBrands
<1> DEFINE K == Common(cohort)
           w == [k \in K |-> SumFunction([c \in Brands |-> cohort[k][c].d])]
           W == SumFunctionOnSet(w, K)
<1>2. /\ question'.cohort = cohort
      /\ answer'[b] = WeightedShare(cohort, b) /\ answer'[e] = WeightedShare(cohort, e)
  BY <1>1 DEF Benchmark
<1>3. ASSUME NEW c \in Brands
      PROVE  /\ IsFiniteSet(K) /\ W \in Nat /\ \A k \in K : w[k] \in Nat
             /\ \E P, O, x : ShareOver(cohort, c, K, w, W, P, O, x)
  BY ShareOfBrand
<1> HIDE DEF w, W
<1>4. PICK P1, O1, x1 : ShareOver(cohort, b, K, w, W, P1, O1, x1)
  BY <1>3
<1>5. PICK P2, O2, x2 : ShareOver(cohort, e, K, w, W, P2, O2, x2)
  BY <1>3
<1>6. /\ P1 \in Nat
      /\ \A k \in K : /\ O1[k] \in Nat /\ P1 = cohort[k][b].d * O1[k]
                      /\ x1[k] = w[k] * cohort[k][b].n * O1[k] /\ x1[k] \in Int
      /\ answer'[b] = <<SumFunctionOnSet(x1, K), W * P1>>
  BY <1>2, <1>4 DEF ShareOver
<1>7. /\ P2 \in Nat
      /\ \A k \in K : /\ O2[k] \in Nat /\ P2 = cohort[k][e].d * O2[k]
                      /\ x2[k] = w[k] * cohort[k][e].n * O2[k] /\ x2[k] \in Int
      /\ answer'[e] = <<SumFunctionOnSet(x2, K), W * P2>>
  BY <1>2, <1>5 DEF ShareOver
<1>8. \A k \in K : /\ cohort[k][b].n \in Nat /\ cohort[k][b].d \in Nat
                   /\ cohort[k][e].n \in Nat /\ cohort[k][e].d \in Nat
                   /\ cohort[k][b].n * cohort[k][e].d <= cohort[k][e].n * cohort[k][b].d
  <2> SUFFICES ASSUME NEW k \in K
               PROVE  /\ cohort[k][b].n \in Nat /\ cohort[k][b].d \in Nat
                      /\ cohort[k][e].n \in Nat /\ cohort[k][e].d \in Nat
                      /\ cohort[k][b].n * cohort[k][e].d <= cohort[k][e].n * cohort[k][b].d
    OBVIOUS
  <2>1. k \in DOMAIN cohort
    BY DEF Common
  <2>2. /\ cohort[k][b].n \in Nat /\ cohort[k][b].d \in Nat
        /\ cohort[k][e].n \in Nat /\ cohort[k][e].d \in Nat
    BY <2>1, CohortsAssumption
  <2>3. ~(cohort[k][e].n * cohort[k][b].d < cohort[k][b].n * cohort[k][e].d)
    BY <1>2 DEF Less
  <2> DEFINE left == cohort[k][b].n * cohort[k][e].d
             right == cohort[k][e].n * cohort[k][b].d
  <2>4. left \in Int /\ right \in Int
    BY <2>2
  <2> HIDE DEF left, right
  <2>5. left <= right
    BY <2>3, <2>4 DEF left, right
  <2> QED
    BY <2>2, <2>5 DEF left, right
<1> DEFINE f == [k \in K |-> P2 * x1[k]]
           g == [k \in K |-> P1 * x2[k]]
<1>9. \A k \in K : f[k] = P2 * x1[k] /\ g[k] = P1 * x2[k]
  OBVIOUS
<1> HIDE DEF f, g, K
<1>10. \A k \in K : f[k] \in Int /\ g[k] \in Int /\ f[k] <= g[k]
  <2> SUFFICES ASSUME NEW k \in K PROVE f[k] \in Int /\ g[k] \in Int /\ f[k] <= g[k]
    OBVIOUS
  <2> DEFINE v == w[k]
             n1 == cohort[k][b].n
             d1 == cohort[k][b].d
             o1 == O1[k]
             n2 == cohort[k][e].n
             d2 == cohort[k][e].d
             o2 == O2[k]
  <2>1. /\ v \in Nat /\ n1 \in Nat /\ d1 \in Nat /\ o1 \in Nat
        /\ n2 \in Nat /\ d2 \in Nat /\ o2 \in Nat /\ n1 * d2 <= n2 * d1
    BY <1>3, <1>6, <1>7, <1>8
  <2>2. /\ f[k] = (d2 * o2) * (v * n1 * o1) /\ g[k] = (d1 * o1) * (v * n2 * o2)
    BY <1>6, <1>7, <1>9
  <2>3. f[k] = P2 * x1[k] /\ g[k] = P1 * x2[k] /\ x1[k] \in Int /\ x2[k] \in Int
    BY <1>6, <1>7, <1>9
  <2> HIDE DEF v, n1, d1, o1, n2, d2, o2
  <2>4. (d2 * o2) * (v * n1 * o1) <= (d1 * o1) * (v * n2 * o2)
    BY <2>1, CrossMultiplied
  <2> DEFINE left == (d2 * o2) * (v * n1 * o1)
             right == (d1 * o1) * (v * n2 * o2)
  <2>6. f[k] = left /\ g[k] = right /\ left <= right
    BY <2>2, <2>4
  <2> HIDE DEF left, right
  <2>5. P2 * x1[k] \in Int /\ P1 * x2[k] \in Int
    BY <1>6, <1>7, <2>3
  <2> QED
    BY <2>3, <2>5, <2>6
<1> DEFINE N1 == SumFunctionOnSet(x1, K)
           N2 == SumFunctionOnSet(x2, K)
<1>11. N1 \in Int /\ N2 \in Int
  BY <1>3, <1>6, <1>7, SumType
<1>12. P2 * N1 <= P1 * N2
  <2>1. SumFunctionOnSet(f, K) = P2 * N1
    BY <1>3, <1>6, <1>7, <1>9, SumOfMultiples
  <2>2. SumFunctionOnSet(g, K) = P1 * N2
    BY <1>3, <1>6, <1>7, <1>9, SumOfMultiples
  <2>3. SumFunctionOnSet(f, K) <= SumFunctionOnSet(g, K)
    BY <1>3, <1>10, SumMonotone
  <2> QED
    BY <2>1, <2>2, <2>3
<1> HIDE DEF N1, N2
<1>13. N1 * (W * P2) <= N2 * (W * P1)
  <2> DEFINE left == P2 * N1
             right == P1 * N2
  <2>1. W \in Nat /\ P1 \in Nat /\ P2 \in Nat
    BY <1>3, <1>6, <1>7
  <2>2. left \in Int /\ right \in Int /\ left <= right
    BY <1>11, <1>12, <2>1
  <2>3. N1 * (W * P2) = W * left /\ N2 * (W * P1) = W * right
    BY <1>11, <2>1
  <2> HIDE DEF left, right
  <2>4. W * left <= W * right
    BY <2>1, <2>2, TimesPositive
  <2> QED
    BY <2>3, <2>4
<1>14. N1 * (W * P2) \in Int /\ N2 * (W * P1) \in Int
  BY <1>3, <1>6, <1>7, <1>11
<1>15. Less(answer'[e], answer'[b]) <=> N2 * (W * P1) < N1 * (W * P2)
  BY <1>6, <1>7 DEF Less, N1, N2
<1> DEFINE left == N1 * (W * P2)
           right == N2 * (W * P1)
<1> HIDE DEF left, right
<1>16. left <= right /\ left \in Int /\ right \in Int /\ (Less(answer'[e], answer'[b]) <=> right < left)
  BY <1>13, <1>14, <1>15 DEF left, right
<1> QED
  BY <1>16
-----------------------------------------------------------------------------
(* Uploaded files. *)

\* The lines that can be read.
Good(lines) == {n \in DOMAIN lines : lines[n] \notin {Blank, Bad}}
\* The lines of the conversation of a line.
Conversation(lines, n) ==
    {m \in ReadRows(lines) \ Missing(lines) : lines[m].conversation = lines[n].conversation}

\* The lines of a file are numbered.
LEMMA LinesAreFinite ==
    ASSUME NEW lines, IsLines(lines)
    PROVE  /\ IsFiniteSet(DOMAIN lines) /\ DOMAIN lines \subseteq Nat
           /\ Len(lines) \in Nat /\ DOMAIN lines = 1 .. Len(lines)
<1>1. Len(lines) \in Nat /\ DOMAIN lines = 1 .. Len(lines)
  BY DEF IsLines
<1>2. IsFiniteSet(1 .. Len(lines))
  BY <1>1, FS_Interval
<1> QED
  BY <1>1, <1>2

\* Messages are sorted by their times.
LEMMA MessagesAreSorted ==
    ASSUME NEW lines, IsLines(lines), NEW S \in SUBSET Good(lines)
    PROVE  /\ IsFiniteSet(S) /\ Cardinality(S) \in Nat
           /\ Chronological(lines, S) \in Seq(S)
           /\ ToSet(Chronological(lines, S)) = S
           /\ Len(Chronological(lines, S)) = Cardinality(S)
           /\ LET t == Chronological(lines, S)
              IN  \A i, j \in DOMAIN t : i < j => Earlier(lines, t[i], t[j])
<1> DEFINE less == {pair \in S \X S : Earlier(lines, pair[1], pair[2])}
           t == Chronological(lines, S)
<1>1. /\ IsFiniteSet(S) /\ S \subseteq Nat /\ Cardinality(S) \in Nat
      /\ \A n \in S : lines[n].at \in Int \cup {NoValue}
  <2>1. IsFiniteSet(S)
    BY LinesAreFinite, FS_Subset DEF Good
  <2>2. S \subseteq Nat /\ \A n \in S : lines[n].at \in Int \cup {NoValue}
    BY LinesAreFinite DEF Good, IsLines
  <2> QED
    BY <2>1, <2>2, FS_CardinalityType
<1>2. \A m, n \in S : <<m, n>> \in less <=> Earlier(lines, m, n)
  OBVIOUS
<1>3. NoValue \notin Int
  BY FilesAssumption
<1> HIDE DEF less
<1>4. \A n \in S : ~Earlier(lines, n, n)
  BY <1>1 DEF Earlier
<1>5. \A m, n \in S : m # n => Earlier(lines, m, n) \/ Earlier(lines, n, m)
  BY <1>1, <1>3 DEF Earlier
<1>6. \A k, m, n \in S : Earlier(lines, k, m) /\ Earlier(lines, m, n) => Earlier(lines, k, n)
  BY <1>1, <1>3 DEF Earlier
<1>7. Orders(less, S)
  BY <1>2, <1>4, <1>5, <1>6 DEF Orders
<1>8. t = InOrder(S, less)
  BY DEF Chronological, less
<1>9. Sorted(t, S, less)
  BY <1>1, <1>7, <1>8, InOrderSorts
<1> HIDE DEF t
<1>10. /\ t \in [1 .. Cardinality(S) -> S]
       /\ \A x \in S : \E i \in 1 .. Cardinality(S) : t[i] = x
       /\ \A i, j \in 1 .. Cardinality(S) : i < j => <<t[i], t[j]>> \in less
  BY <1>9 DEF Sorted
<1>11. t \in Seq(S) /\ Len(t) = Cardinality(S) /\ DOMAIN t = 1 .. Cardinality(S)
  BY <1>1, <1>10
<1>12. ToSet(t) = S
  BY <1>10, <1>11 DEF ToSet
<1>13. \A i, j \in DOMAIN t : i < j => Earlier(lines, t[i], t[j])
  BY <1>2, <1>10, <1>11
<1> QED
  BY <1>1, <1>11, <1>12, <1>13 DEF t

\* The units of a file: lines on their own, and conversations.
LEMMA UnitsOfAFile ==
    ASSUME NEW lines, NEW grouped
    PROVE  /\ ~grouped => GroupRows(lines, grouped) = {<<n>> : n \in ReadRows(lines)}
           /\ grouped => GroupRows(lines, grouped) =
                {Chronological(lines, Conversation(lines, n)) :
                        n \in ReadRows(lines) \ Missing(lines)}
                \cup {<<n>> : n \in Missing(lines)}
<1>1. ~grouped => GroupRows(lines, grouped) = {<<n>> : n \in ReadRows(lines)}
  BY Zenon DEF GroupRows
<1>2. ASSUME grouped
      PROVE  GroupRows(lines, grouped) =
                {Chronological(lines, Conversation(lines, n)) :
                        n \in ReadRows(lines) \ Missing(lines)}
                \cup {<<n>> : n \in Missing(lines)}
  <2> DEFINE known == ReadRows(lines) \ Missing(lines)
             of(c) == {n \in known : lines[n].conversation = c}
             conversations == {lines[n].conversation : n \in known}
  <2>1. GroupRows(lines, grouped)
            = {Chronological(lines, of(c)) : c \in conversations} \cup {<<n>> : n \in Missing(lines)}
    BY <1>2, Zenon DEF GroupRows
  <2>2. \A n : Conversation(lines, n) = of(lines[n].conversation)
    BY Zenon DEF Conversation
  <2> HIDE DEF of, known
  <2>3. {Chronological(lines, of(c)) : c \in conversations}
            = {Chronological(lines, Conversation(lines, n)) : n \in known}
    BY <2>2
  <2> QED
    BY <2>1, <2>3 DEF known
<1> QED
  BY <1>1, <1>2

\* A conversation has the lines that were read of it, and at least one.
LEMMA ConversationsAreReadable ==
    ASSUME NEW lines, IsLines(lines), NEW n \in ReadRows(lines) \ Missing(lines)
    PROVE  /\ Conversation(lines, n) \in SUBSET Good(lines) /\ n \in Conversation(lines, n)
           /\ Conversation(lines, n) \subseteq ReadRows(lines) \ Missing(lines)
           /\ ToSet(Chronological(lines, Conversation(lines, n))) = Conversation(lines, n)
           /\ Chronological(lines, Conversation(lines, n)) # <<>>
           /\ Head(Chronological(lines, Conversation(lines, n))) \in Conversation(lines, n)
<1> DEFINE S == Conversation(lines, n)
           t == Chronological(lines, S)
<1>1. \A m \in ReadRows(lines) \ Missing(lines) : m \in Good(lines)
  BY DEF ReadRows, Missing, Good
<1>2. S \subseteq ReadRows(lines) \ Missing(lines) /\ n \in S
  BY DEF Conversation
<1> HIDE DEF S
<1>3. S \in SUBSET Good(lines)
  BY <1>1, <1>2
<1>4. ToSet(t) = S /\ t \in Seq(S)
  BY <1>3, MessagesAreSorted
<1> HIDE DEF t
<1>5. t # <<>>
  BY <1>2, <1>4 DEF ToSet
<1>6. Head(t) \in S
  BY <1>4, <1>5
<1> QED
  BY <1>2, <1>3, <1>4, <1>5, <1>6 DEF S, t

\* A line that is not blank is in one unit.
LEMMA OneUnitEach ==
    ASSUME NEW lines, IsLines(lines), NEW grouped, NEW n \in DOMAIN lines
    PROVE  Cardinality({u \in GroupRows(lines, grouped) : n \in ToSet(u)})
                = IF lines[n] = Blank THEN 0 ELSE 1
<1> DEFINE units == GroupRows(lines, grouped)
           mine == {u \in units : n \in ToSet(u)}
<1>1. \A m : ToSet(<<m>>) = {m}
  BY DEF ToSet
<1>2. n \in ReadRows(lines) <=> lines[n] # Blank
  BY DEF ReadRows
<1>3. Missing(lines) \subseteq ReadRows(lines)
  BY DEF Missing
<1>4. \A k \in ReadRows(lines) \ Missing(lines) :
        /\ ToSet(Chronological(lines, Conversation(lines, k))) = Conversation(lines, k)
        /\ Conversation(lines, k) \subseteq ReadRows(lines) \ Missing(lines)
        /\ k \in Conversation(lines, k)
  BY ConversationsAreReadable
<1>5. \A k, m : m \in Conversation(lines, k) => Conversation(lines, m) = Conversation(lines, k)
  BY DEF Conversation
<1>6. ASSUME n \notin ReadRows(lines) PROVE mine = {}
  <2> SUFFICES ASSUME NEW u \in units, n \in ToSet(u) PROVE FALSE
    OBVIOUS
  <2>1. CASE ~grouped
    <3>1. PICK m \in ReadRows(lines) : u = <<m>>
      BY <2>1, UnitsOfAFile
    <3> QED
      BY <1>1, <1>6, <3>1
  <2>2. CASE grouped
    <3> HIDE DEF units
    <3>1. units = {Chronological(lines, Conversation(lines, k)) :
                        k \in ReadRows(lines) \ Missing(lines)}
                \cup {<<k>> : k \in Missing(lines)}
      BY <2>2, UnitsOfAFile DEF units
    <3>2. CASE \E m \in Missing(lines) : u = <<m>>
      <4>1. PICK m \in Missing(lines) : u = <<m>>
        BY <3>2
      <4> QED
        BY <1>1, <1>3, <1>6, <4>1
    <3>3. CASE \E k \in ReadRows(lines) \ Missing(lines) :
                    u = Chronological(lines, Conversation(lines, k))
      BY <1>4, <1>6, <3>3
    <3> QED
      BY <3>1, <3>2, <3>3
  <2> QED
    BY <2>1, <2>2
<1>7. ASSUME n \in ReadRows(lines) PROVE \E u : mine = {u}
  <2>1. CASE ~grouped
    <3>1. units = {<<m>> : m \in ReadRows(lines)}
      BY <2>1, UnitsOfAFile
    <3> HIDE DEF units
    <3>2. <<n>> \in units /\ \A u \in units : n \in ToSet(u) => u = <<n>>
      BY <1>1, <1>7, <3>1
    <3>3. mine = {<<n>>}
      BY <1>1, <3>2
    <3> QED
      BY <3>3
  <2>2. CASE grouped
    <3>1. units = {Chronological(lines, Conversation(lines, k)) :
                        k \in ReadRows(lines) \ Missing(lines)}
                \cup {<<k>> : k \in Missing(lines)}
      BY <2>2, UnitsOfAFile
    <3> HIDE DEF units
    <3>2. CASE n \in Missing(lines)
      <4>1. <<n>> \in units
        BY <3>1, <3>2
      <4>2. ASSUME NEW u \in units, n \in ToSet(u) PROVE u = <<n>>
        <5>1. CASE \E m \in Missing(lines) : u = <<m>>
          <6>1. PICK m \in Missing(lines) : u = <<m>>
            BY <5>1
          <6>2. n = m
            BY <1>1, <4>2, <6>1
          <6> QED
            BY <6>1, <6>2
        <5>2. CASE \E k \in ReadRows(lines) \ Missing(lines) :
                    u = Chronological(lines, Conversation(lines, k))
          BY <1>4, <3>2, <4>2, <5>2
        <5> QED
          BY <3>1, <4>2, <5>1, <5>2
      <4>3. mine = {<<n>>}
        BY <1>1, <4>1, <4>2
      <4> QED
        BY <4>3
    <3>3. CASE n \notin Missing(lines)
      <4> DEFINE unit == Chronological(lines, Conversation(lines, n))
      <4>1. unit \in units /\ n \in ToSet(unit)
        BY <1>4, <1>7, <3>1, <3>3
      <4>2. ASSUME NEW u \in units, n \in ToSet(u) PROVE u = unit
        <5>1. CASE \E m \in Missing(lines) : u = <<m>>
          <6>1. PICK m \in Missing(lines) : u = <<m>>
            BY <5>1
          <6>2. n = m
            BY <1>1, <4>2, <6>1
          <6> QED
            BY <3>3, <6>1, <6>2
        <5>2. CASE \E k \in ReadRows(lines) \ Missing(lines) :
                    u = Chronological(lines, Conversation(lines, k))
          <6>1. PICK k \in ReadRows(lines) \ Missing(lines) :
                    u = Chronological(lines, Conversation(lines, k))
            BY <5>2
          <6>2. n \in Conversation(lines, k)
            BY <1>4, <4>2, <6>1
          <6> QED
            BY <1>5, <6>1, <6>2
        <5> QED
          BY <3>1, <4>2, <5>1, <5>2
      <4> HIDE DEF unit
      <4>3. mine = {unit}
        BY <4>1, <4>2
      <4> QED
        BY <4>3
    <3> QED
      BY <3>2, <3>3
  <2> QED
    BY <2>1, <2>2
<1> HIDE DEF mine
<1>8. CASE lines[n] = Blank
  BY <1>2, <1>6, <1>8, FS_EmptySet DEF mine
<1>9. CASE lines[n] # Blank
  <2>1. PICK u : mine = {u}
    BY <1>2, <1>7, <1>9
  <2>2. Cardinality(mine) = 1
    BY <2>1, FS_Singleton
  <2> QED
    BY <1>9, <2>2 DEF mine
<1> QED
  BY <1>8, <1>9

\* What ParseFile asks and answers, field by field.
ShowsFile(q) ==
    /\ question.lines = q.lines /\ question.grouped = q.grouped /\ question.filter = q.filter
    /\ answer = ParseImport(q.lines, q.grouped, q.filter)

\* A step that parses a file shows what one of the inputs is parsed to.
LEMMA FileShown ==
    ASSUME ParseFile
    PROVE  \E q \in FileInputs : ShowsFile(q)'
<1>1. PICK q \in FileInputs :
        /\ question' = [kind |-> "file", lines |-> q.lines, grouped |-> q.grouped,
                        filter |-> q.filter]
        /\ answer' = ParseImport(q.lines, q.grouped, q.filter)
  BY Zenon DEF ParseFile
<1>2. ShowsFile(q)'
  BY <1>1 DEF ShowsFile
<1> QED
  BY <1>2

\* The units of a file that is not too long, valid or not.
ValidUnits(lines, grouped, filter) ==
    {u \in GroupRows(lines, grouped) : UnitIssue(lines, u, grouped, filter) = "none"}

\* What is kept of a valid unit.
Kept(lines, u) == [rows |-> u, text |-> Text(lines, u), day |-> Day(lines, u)]

\* A file that is not rejected is parsed to its units, valid or quarantined.
LEMMA ParsedUnits ==
    ASSUME NEW lines, NEW grouped, NEW filter,
           ~ParseImport(lines, grouped, filter).rejected
    PROVE  LET parsed == ParseImport(lines, grouped, filter)
           IN  /\ ~TooLong(lines)
               /\ parsed.valid = {Kept(lines, u) : u \in ValidUnits(lines, grouped, filter)}
               /\ {u.rows : u \in parsed.valid \cup parsed.quarantined} = GroupRows(lines, grouped)
<1> DEFINE parsed == ParseImport(lines, grouped, filter)
           units == GroupRows(lines, grouped)
           valid == {u \in units : UnitIssue(lines, u, grouped, filter) = "none"}
           invalid == {u \in units : UnitIssue(lines, u, grouped, filter) # "none"}
           refused(u) == [rows |-> u, code |-> UnitIssue(lines, u, grouped, filter)]
<1>1. ~TooLong(lines)
  BY DEF ParseImport
<1>2. /\ parsed.valid = {Kept(lines, u) : u \in valid}
      /\ parsed.quarantined = {refused(u) : u \in invalid}
  BY <1>1 DEF ParseImport, Kept
<1>3. valid \cup invalid = units /\ valid = ValidUnits(lines, grouped, filter)
  BY DEF ValidUnits
<1>4. (\A u : Kept(lines, u).rows = u) /\ \A u : refused(u).rows = u
  BY DEF Kept
<1> HIDE DEF parsed, valid, invalid, refused
<1>5. {u.rows : u \in parsed.valid \cup parsed.quarantined} = valid \cup invalid
  <2>1. ASSUME NEW x \in parsed.valid \cup parsed.quarantined PROVE x.rows \in valid \cup invalid
    <3>1. CASE x \in parsed.valid
      <4>1. PICK u \in valid : x = Kept(lines, u)
        BY <1>2, <3>1
      <4> QED
        BY <1>4, <4>1
    <3>2. CASE x \in parsed.quarantined
      <4>1. PICK u \in invalid : x = refused(u)
        BY <1>2, <3>2
      <4> QED
        BY <1>4, <4>1
    <3> QED
      BY <2>1, <3>1, <3>2
  <2>2. ASSUME NEW u \in valid \cup invalid
        PROVE  \E x \in parsed.valid \cup parsed.quarantined : x.rows = u
    <3>1. CASE u \in valid
      <4>1. Kept(lines, u) \in parsed.valid
        BY <1>2, <3>1
      <4> QED
        BY <1>4, <4>1
    <3>2. CASE u \in invalid
      <4>1. refused(u) \in parsed.quarantined
        BY <1>2, <3>2
      <4> QED
        BY <1>4, <4>1
    <3> QED
      BY <2>2, <3>1, <3>2
  <2> QED
    BY <2>1, <2>2
<1> QED
  BY <1>1, <1>2, <1>3, <1>5 DEF parsed

\* parse_import: every line that was read is in one unit.
LEMMA RowsAreAccounted == ParseFile => EveryRowIsAccounted'
<1> SUFFICES ASSUME ParseFile, ~answer'.rejected, NEW n \in DOMAIN question'.lines
             PROVE  LET units == {u.rows : u \in answer'.valid \cup answer'.quarantined}
                    IN  Cardinality({u \in units : n \in ToSet(u)})
                            = IF question'.lines[n] = Blank THEN 0 ELSE 1
  BY DEF EveryRowIsAccounted
<1>1. PICK q \in FileInputs : ShowsFile(q)'
  BY FileShown
<1>2. question'.lines = q.lines /\ answer' = ParseImport(q.lines, q.grouped, q.filter)
  BY <1>1 DEF ShowsFile
<1>3. IsLines(q.lines)
  BY FilesAssumption
<1>4. {u.rows : u \in answer'.valid \cup answer'.quarantined} = GroupRows(q.lines, q.grouped)
  BY <1>2, ParsedUnits
<1>5. Cardinality({u \in GroupRows(q.lines, q.grouped) : n \in ToSet(u)})
            = IF q.lines[n] = Blank THEN 0 ELSE 1
  BY <1>2, <1>3, OneUnitEach
<1> QED
  BY <1>2, <1>4, <1>5

\* A unit whose first line can be read has lines that all can.
LEMMA ReadableUnits ==
    ASSUME NEW lines, IsLines(lines), NEW grouped, NEW u \in GroupRows(lines, grouped),
           lines[Head(u)] # Bad
    PROVE  ToSet(u) \in SUBSET Good(lines) /\ Head(u) \in ToSet(u)
<1>1. \A m : ToSet(<<m>>) = {m} /\ Head(<<m>>) = m
  BY DEF ToSet
<1>2. CASE \E m \in ReadRows(lines) : u = <<m>>
  <2>1. PICK m \in ReadRows(lines) : u = <<m>>
    BY <1>2
  <2>2. ToSet(u) = {m} /\ Head(u) = m
    BY <1>1, <2>1
  <2>3. m \in Good(lines)
    BY <2>2 DEF ReadRows, Good
  <2> QED
    BY <2>2, <2>3
<1>3. CASE \E k \in ReadRows(lines) \ Missing(lines) :
                u = Chronological(lines, Conversation(lines, k))
  <2>1. PICK k \in ReadRows(lines) \ Missing(lines) :
                u = Chronological(lines, Conversation(lines, k))
    BY <1>3
  <2> QED
    BY <2>1, ConversationsAreReadable
<1>4. Missing(lines) \subseteq ReadRows(lines)
  BY DEF Missing
<1>5. CASE grouped
  <2>1. GroupRows(lines, grouped) = {Chronological(lines, Conversation(lines, k)) :
                        k \in ReadRows(lines) \ Missing(lines)}
                \cup {<<k>> : k \in Missing(lines)}
    BY <1>5, UnitsOfAFile
  <2> QED
    BY <1>2, <1>3, <1>4, <2>1
<1>6. CASE ~grouped
  <2>1. GroupRows(lines, grouped) = {<<k>> : k \in ReadRows(lines)}
    BY <1>6, UnitsOfAFile
  <2> QED
    BY <1>2, <2>1
<1> QED
  BY <1>5, <1>6

\* A valid unit starts with a line that could be read.
LEMMA ValidUnitsAreReadable ==
    ASSUME NEW lines, NEW grouped, NEW filter, NEW u \in ValidUnits(lines, grouped, filter)
    PROVE  u \in GroupRows(lines, grouped) /\ lines[Head(u)] # Bad
<1>1. u \in GroupRows(lines, grouped) /\ UnitIssue(lines, u, grouped, filter) = "none"
  BY DEF ValidUnits
<1>2. Fault(lines, u, grouped) = "none"
  BY <1>1 DEF UnitIssue
<1>3. lines[Head(u)] # Bad
  BY <1>2 DEF Fault
<1> QED
  BY <1>1, <1>3

\* _group_rows sorts the messages before it joins their texts.
LEMMA TranscriptsAreInOrder == ParseFile => TranscriptsAreChronological'
<1> SUFFICES ASSUME ParseFile, NEW u \in answer'.valid, NEW i \in DOMAIN u.text,
                    NEW j \in DOMAIN u.text,
                    i < j, question'.lines[u.text[j]].at # NoValue
             PROVE  /\ question'.lines[u.text[i]].at # NoValue
                    /\ question'.lines[u.text[i]].at <= question'.lines[u.text[j]].at
  BY DEF TranscriptsAreChronological
<1>1. PICK q \in FileInputs : ShowsFile(q)'
  BY FileShown
<1> DEFINE lines == q.lines
<1>2. question'.lines = lines /\ answer' = ParseImport(lines, q.grouped, q.filter)
  BY <1>1 DEF ShowsFile
<1>3. IsLines(lines) /\ NoValue \notin Int
  BY FilesAssumption
<1>4. ~ParseImport(lines, q.grouped, q.filter).rejected
  <2>1. CASE TooLong(lines)
    <3>1. answer'.valid = {}
      BY <1>2, <2>1 DEF ParseImport
    <3> QED
      BY <3>1
  <2>2. CASE ~TooLong(lines)
    BY <2>2 DEF ParseImport
  <2> QED
    BY <2>1, <2>2
<1>5. answer'.valid = {Kept(lines, v) : v \in ValidUnits(lines, q.grouped, q.filter)}
  BY <1>2, <1>4, ParsedUnits
<1>6. PICK v \in ValidUnits(lines, q.grouped, q.filter) : u = Kept(lines, v)
  BY <1>5
<1> DEFINE S == {n \in ToSet(v) : lines[n].text # NoValue}
<1>7. u.text = Chronological(lines, S)
  BY <1>6 DEF Kept, Text
<1>8. S \in SUBSET Good(lines)
  <2>1. ToSet(v) \in SUBSET Good(lines)
    BY <1>3, ValidUnitsAreReadable, ReadableUnits
  <2> QED
    BY <2>1
<1> HIDE DEF S
<1>9. Earlier(lines, u.text[i], u.text[j])
  BY <1>3, <1>7, <1>8, MessagesAreSorted
<1>10. u.text[i] \in S /\ u.text[j] \in S
  <2>1. ToSet(u.text) = S
    BY <1>3, <1>7, <1>8, MessagesAreSorted
  <2> QED
    BY <2>1 DEF ToSet
<1>11. /\ lines[u.text[i]].at \in Int \cup {NoValue} /\ lines[u.text[j]].at \in Int \cup {NoValue}
  BY <1>3, <1>8, <1>10 DEF Good, IsLines
<1> QED
  BY <1>2, <1>3, <1>9, <1>11 DEF Earlier

-----------------------------------------------------------------------------

\* Lines that are the same in two files make the same feedback.
LEMMA SameLinesSameUnit ==
    ASSUME NEW lines, NEW other, NEW u, Head(u) \in ToSet(u),
           \A n \in ToSet(u) : other[n] = lines[n], IsLines(lines),
           ToSet(u) \in SUBSET Good(lines), NEW grouped, NEW filter
    PROVE  /\ Kept(other, u) = Kept(lines, u)
           /\ UnitIssue(other, u, grouped, filter) = UnitIssue(lines, u, grouped, filter)
<1>1. ASSUME NEW S \in SUBSET ToSet(u)
      PROVE  Chronological(other, S) = Chronological(lines, S)
  <2>1. {pair \in S \X S : Earlier(other, pair[1], pair[2])}
            = {pair \in S \X S : Earlier(lines, pair[1], pair[2])}
    BY DEF Earlier
  <2> QED
    BY <2>1, Zenon DEF Chronological
<1>2. Text(other, u) = Text(lines, u)
  <2> DEFINE S == {n \in ToSet(u) : lines[n].text # NoValue}
  <2>1. {n \in ToSet(u) : other[n].text # NoValue} = S
    OBVIOUS
  <2>2. Text(other, u) = Chronological(other, S)
    BY <2>1, Zenon DEF Text
  <2>3. Text(lines, u) = Chronological(lines, S)
    BY Zenon DEF Text
  <2>4. S \in SUBSET ToSet(u)
    OBVIOUS
  <2> HIDE DEF S
  <2> QED
    BY <1>1, <2>2, <2>3, <2>4
<1>3. Day(other, u) = Day(lines, u)
  <2> DEFINE S == {n \in ToSet(u) : lines[n].day # NoValue}
             dated == Chronological(lines, S)
  <2>1. {n \in ToSet(u) : other[n].day # NoValue} = S
    OBVIOUS
  <2>2. S \in SUBSET ToSet(u)
    OBVIOUS
  <2>3. Day(lines, u) = IF dated = <<>> \/ lines[Head(dated)].day = Unread THEN NoValue
                        ELSE lines[Head(dated)].day
    BY Zenon DEF Day
  <2>4. Day(other, u) = IF \/ Chronological(other, S) = <<>>
                           \/ other[Head(Chronological(other, S))].day = Unread
                        THEN NoValue ELSE other[Head(Chronological(other, S))].day
    BY <2>1, Zenon DEF Day
  <2> HIDE DEF S
  <2>5. Chronological(other, S) = dated
    BY <1>1, <2>2
  <2>6. dated \in Seq(S)
    BY <2>2, MessagesAreSorted
  <2> HIDE DEF dated
  <2>7. dated # <<>> => Head(dated) \in S
    BY <2>6
  <2>8. dated # <<>> => other[Head(dated)] = lines[Head(dated)]
    BY <2>2, <2>7
  <2> QED
    BY <2>3, <2>4, <2>5, <2>8
<1>4. other[Head(u)] = lines[Head(u)]
  OBVIOUS
<1>5. RatingOnly(other, u) <=> RatingOnly(lines, u)
  BY <1>2, <1>4 DEF RatingOnly
<1>6. Fault(other, u, grouped) = Fault(lines, u, grouped)
  BY <1>2, <1>4, <1>5 DEF Fault
<1>7. FilteredOut(other, u, filter) = FilteredOut(lines, u, filter)
  BY <1>3, <1>4, <1>5, Zenon DEF FilteredOut
<1> QED
  BY <1>2, <1>3, <1>6, <1>7 DEF Kept, UnitIssue

\* Without its bad lines a file has the same other units.
LEMMA WithoutBadLines ==
    ASSUME NEW lines, IsLines(lines), NEW grouped, NEW other,
           other = [n \in DOMAIN lines |-> IF lines[n] = Bad THEN Blank ELSE lines[n]]
    PROVE  /\ ReadRows(other) \subseteq ReadRows(lines)
           /\ \A u : u \in GroupRows(other, grouped)
                        <=> u \in GroupRows(lines, grouped) /\ lines[Head(u)] # Bad
<1>0. Blank # Bad
  BY FilesAssumption
<1>1. /\ DOMAIN other = DOMAIN lines
      /\ \A n \in DOMAIN lines : lines[n] # Bad => other[n] = lines[n]
      /\ \A n \in DOMAIN lines : lines[n] = Bad => other[n] = Blank
  OBVIOUS
<1>2. ReadRows(other) = {n \in ReadRows(lines) : lines[n] # Bad}
  BY <1>1 DEF ReadRows
<1>3. Missing(other) = {n \in Missing(lines) : lines[n] # Bad}
  BY <1>0, <1>1, <1>2 DEF Missing, ReadRows
<1>4. ReadRows(other) \ Missing(other) = ReadRows(lines) \ Missing(lines)
  BY <1>2, <1>3 DEF Missing
<1>5. \A n \in ReadRows(lines) \ Missing(lines) : other[n] = lines[n] /\ lines[n] # Bad
  BY <1>1 DEF Missing, ReadRows
<1>6. \A m : Head(<<m>>) = m
  OBVIOUS
<1>7. ASSUME NEW n \in ReadRows(lines) \ Missing(lines)
      PROVE  Chronological(other, Conversation(other, n))
                = Chronological(lines, Conversation(lines, n))
  <2> DEFINE S == Conversation(lines, n)
  <2>1. Conversation(other, n) = S
    BY <1>4, <1>5 DEF Conversation
  <2>2. \A m \in S : other[m] = lines[m]
    BY <1>5 DEF Conversation
  <2> HIDE DEF S
  <2>3. {pair \in S \X S : Earlier(other, pair[1], pair[2])}
            = {pair \in S \X S : Earlier(lines, pair[1], pair[2])}
    BY <2>2 DEF Earlier
  <2>4. Chronological(other, S) = Chronological(lines, S)
    BY <2>3, Zenon DEF Chronological
  <2> QED
    BY <2>1, <2>4 DEF S
<1>8. \A n \in ReadRows(lines) \ Missing(lines) :
            lines[Head(Chronological(lines, Conversation(lines, n)))] # Bad
  <2> SUFFICES ASSUME NEW n \in ReadRows(lines) \ Missing(lines)
               PROVE  lines[Head(Chronological(lines, Conversation(lines, n)))] # Bad
    OBVIOUS
  <2>1. Head(Chronological(lines, Conversation(lines, n))) \in ReadRows(lines) \ Missing(lines)
    BY ConversationsAreReadable
  <2> QED
    BY <1>5, <2>1
<1>9. ASSUME NEW u
      PROVE  u \in GroupRows(other, grouped)
                <=> u \in GroupRows(lines, grouped) /\ lines[Head(u)] # Bad
  <2>1. CASE ~grouped
    <3>1. /\ GroupRows(lines, grouped) = {<<n>> : n \in ReadRows(lines)}
          /\ GroupRows(other, grouped) = {<<n>> : n \in ReadRows(other)}
      BY <2>1, UnitsOfAFile
    <3> QED
      BY <1>2, <1>6, <3>1
  <2>2. CASE grouped
    <3> DEFINE known == ReadRows(lines) \ Missing(lines)
               unit(n) == Chronological(lines, Conversation(lines, n))
    <3>1. GroupRows(lines, grouped) = {unit(n) : n \in known} \cup {<<n>> : n \in Missing(lines)}
      BY <2>2, UnitsOfAFile
    <3>2. GroupRows(other, grouped) =
                {Chronological(other, Conversation(other, n)) : n \in known}
                \cup {<<n>> : n \in Missing(other)}
      BY <1>4, <2>2, UnitsOfAFile
    <3>3. {Chronological(other, Conversation(other, n)) : n \in known} = {unit(n) : n \in known}
      BY <1>7
    <3>4. \A n \in known : lines[Head(unit(n))] # Bad
      BY <1>8
    <3> HIDE DEF known, unit
    <3>5. GroupRows(other, grouped) = {unit(n) : n \in known} \cup {<<n>> : n \in Missing(other)}
      BY <3>2, <3>3
    <3>6. u \in {<<n>> : n \in Missing(other)}
            <=> u \in {<<n>> : n \in Missing(lines)} /\ lines[Head(u)] # Bad
      BY <1>3, <1>6
    <3>7. u \in {unit(n) : n \in known} => lines[Head(u)] # Bad
      BY <3>4
    <3> QED
      BY <3>1, <3>5, <3>6, <3>7
  <2> QED
    BY <2>1, <2>2
<1> QED
  BY <1>2, <1>9

\* A bad line is a unit of its own, and no valid one: without it the valid units
\* are the same.
LEMMA NoNeighbourIsHarmed == ParseFile => BadRowsHarmNoNeighbour'
<1> SUFFICES ASSUME ParseFile, ~answer'.rejected
             PROVE  answer'.valid = ParseImport([n \in DOMAIN question'.lines |->
                            IF question'.lines[n] = Bad THEN Blank ELSE question'.lines[n]],
                        question'.grouped, question'.filter).valid
  BY DEF BadRowsHarmNoNeighbour
<1>1. PICK q \in FileInputs : ShowsFile(q)'
  BY FileShown
<1> DEFINE lines == q.lines
           other == [n \in DOMAIN lines |-> IF lines[n] = Bad THEN Blank ELSE lines[n]]
<1>2. /\ question'.lines = lines /\ question'.grouped = q.grouped /\ question'.filter = q.filter
      /\ answer' = ParseImport(lines, q.grouped, q.filter)
  BY <1>1 DEF ShowsFile
<1>3. IsLines(lines)
  BY FilesAssumption
<1>4. /\ ReadRows(other) \subseteq ReadRows(lines)
      /\ \A u : u \in GroupRows(other, q.grouped)
                    <=> u \in GroupRows(lines, q.grouped) /\ lines[Head(u)] # Bad
  BY <1>3, WithoutBadLines
<1>5. \A n \in Good(lines) : other[n] = lines[n]
  BY DEF Good
<1> HIDE DEF other
<1>6. /\ ~TooLong(lines)
      /\ answer'.valid = {Kept(lines, u) : u \in ValidUnits(lines, q.grouped, q.filter)}
  BY <1>2, ParsedUnits
<1>7. ~TooLong(other)
  <2>1. IsFiniteSet(ReadRows(lines))
    BY <1>3, LinesAreFinite, FS_Subset DEF ReadRows
  <2>2. Cardinality(ReadRows(other)) <= Cardinality(ReadRows(lines)) /\ IsFiniteSet(ReadRows(other))
    BY <1>4, <2>1, FS_Subset
  <2>3. Cardinality(ReadRows(other)) \in Nat /\ Cardinality(ReadRows(lines)) \in Nat /\ MaxRows \in Nat
    BY <2>1, <2>2, FS_CardinalityType, FilesAssumption
  <2> QED
    BY <1>6, <2>2, <2>3 DEF TooLong
<1>8. ~ParseImport(other, q.grouped, q.filter).rejected
  BY <1>7 DEF ParseImport
<1>9. ParseImport(other, q.grouped, q.filter).valid
            = {Kept(other, u) : u \in ValidUnits(other, q.grouped, q.filter)}
  BY <1>8, ParsedUnits
<1>10. ASSUME NEW u \in GroupRows(lines, q.grouped), lines[Head(u)] # Bad
       PROVE  /\ Kept(other, u) = Kept(lines, u)
              /\ UnitIssue(other, u, q.grouped, q.filter)
                    = UnitIssue(lines, u, q.grouped, q.filter)
  <2>1. ToSet(u) \in SUBSET Good(lines) /\ Head(u) \in ToSet(u)
    BY <1>3, <1>10, ReadableUnits
  <2>2. \A n \in ToSet(u) : other[n] = lines[n]
    BY <1>5, <2>1
  <2> HIDE DEF lines
  <2> QED
    BY <1>3, <2>1, <2>2, SameLinesSameUnit
<1>11. ASSUME NEW u
       PROVE  u \in ValidUnits(other, q.grouped, q.filter)
                <=> u \in ValidUnits(lines, q.grouped, q.filter)
  <2>1. u \in ValidUnits(lines, q.grouped, q.filter)
            => u \in GroupRows(lines, q.grouped) /\ lines[Head(u)] # Bad
    BY ValidUnitsAreReadable
  <2>2. u \in ValidUnits(lines, q.grouped, q.filter)
            <=> /\ u \in GroupRows(lines, q.grouped)
                /\ UnitIssue(lines, u, q.grouped, q.filter) = "none"
    BY Zenon DEF ValidUnits
  <2>3. u \in ValidUnits(other, q.grouped, q.filter)
            <=> /\ u \in GroupRows(other, q.grouped)
                /\ UnitIssue(other, u, q.grouped, q.filter) = "none"
    BY Zenon DEF ValidUnits
  <2> HIDE DEF lines
  <2> QED
    BY <1>4, <1>10, <2>1, <2>2, <2>3
<1>12. \A u \in ValidUnits(lines, q.grouped, q.filter) : Kept(other, u) = Kept(lines, u)
  BY <1>10, ValidUnitsAreReadable
<1>13. {Kept(other, u) : u \in ValidUnits(other, q.grouped, q.filter)}
            = {Kept(lines, u) : u \in ValidUnits(lines, q.grouped, q.filter)}
  <2>1. ValidUnits(other, q.grouped, q.filter) = ValidUnits(lines, q.grouped, q.filter)
    BY <1>11
  <2> HIDE DEF lines
  <2> QED
    BY <1>12, <2>1
<1>14. answer'.valid = ParseImport(other, q.grouped, q.filter).valid
  BY <1>6, <1>9, <1>13
<1> QED
  BY <1>2, <1>14 DEF other
-----------------------------------------------------------------------------
(* What is checked of each kind of answer holds of every answer. *)

\* Whatever feedback there is and in whatever order it comes, a repost group
\* counts once in rates, evidence, drivers and on the dashboard.
THEOREM GroupsCountOnce == ServiceSpec => []CountsAreIndependent
<1>1. Init => CountsAreIndependent
  BY DEF Init, CountsAreIndependent, RepresentativeIsStable, RepostsCountOnce,
     EvidenceWasCounted, RepostsReachOneProduct, Asked
<1>2. CountsAreIndependent /\ [ServiceNext]_vars => CountsAreIndependent'
  <2> SUFFICES ASSUME CountsAreIndependent, [ServiceNext]_vars PROVE CountsAreIndependent'
    OBVIOUS
  <2>1. CASE ServiceNext
    <3>1. RepresentativeIsStable'
      <4>1. CASE question'.kind = "units"
        BY <2>1, <4>1, OneAnswer, StableRepresentative
      <4>2. CASE question'.kind \notin {"units"}
        BY <4>2 DEF RepresentativeIsStable, Asked
      <4> QED
        BY <4>1, <4>2
    <3>2. RepostsCountOnce'
      <4>1. CASE question'.kind = "units"
        BY <2>1, <4>1, OneAnswer, CountedOnce
      <4>2. CASE question'.kind \notin {"units"}
        BY <4>2 DEF RepostsCountOnce, Asked
      <4> QED
        BY <4>1, <4>2
    <3>3. EvidenceWasCounted'
      <4>1. CASE question'.kind = "units"
        BY <2>1, <4>1, OneAnswer, ShownIsCounted
      <4>2. CASE question'.kind \notin {"units"}
        BY <4>2 DEF EvidenceWasCounted, Asked
      <4> QED
        BY <4>1, <4>2
    <3>4. RepostsReachOneProduct'
      <4>1. CASE question'.kind = "dashboard"
        BY <2>1, <4>1, OneAnswer, RepostsOfProducts
      <4>2. CASE question'.kind \notin {"dashboard"}
        BY <4>2 DEF RepostsReachOneProduct, Asked
      <4> QED
        BY <4>1, <4>2
    <3> QED
      BY <3>1, <3>2, <3>3, <3>4 DEF CountsAreIndependent
  <2>2. CASE UNCHANGED vars
    BY <2>2 DEF vars, CountsAreIndependent, RepresentativeIsStable, RepostsCountOnce,
       EvidenceWasCounted, RepostsReachOneProduct, Asked
  <2> QED
    BY <2>1, <2>2
<1> QED
  BY <1>1, <1>2, PTL DEF ServiceSpec

\* However many strata, cohorts, days and weeks there are, none of them makes a
\* change of its own.
THEOREM ChangesAreOfCustomers == ServiceSpec => []ChangesAreMeasured
<1>1. Init => ChangesAreMeasured
  BY DEF Init, ChangesAreMeasured, ChangeIsWithinStrata, ComparisonsAreFair,
     WindowsAreWholeDays, RecurringIsRecent, Asked
<1>2. ChangesAreMeasured /\ [ServiceNext]_vars => ChangesAreMeasured'
  <2> SUFFICES ASSUME ChangesAreMeasured, [ServiceNext]_vars PROVE ChangesAreMeasured'
    OBVIOUS
  <2>1. CASE ServiceNext
    <3>1. ChangeIsWithinStrata'
      <4>1. CASE question'.kind = "trend"
        BY <2>1, <4>1, OneAnswer, ChangeIsBetween
      <4>2. CASE question'.kind \notin {"trend"}
        BY <4>2 DEF ChangeIsWithinStrata, Asked
      <4> QED
        BY <4>1, <4>2
    <3>2. ComparisonsAreFair'
      <4>1. CASE question'.kind = "benchmark"
        BY <2>1, <4>1, OneAnswer, FairComparison
      <4>2. CASE question'.kind \notin {"benchmark"}
        BY <4>2 DEF ComparisonsAreFair, Asked
      <4> QED
        BY <4>1, <4>2
    <3>3. WindowsAreWholeDays'
      <4>1. CASE question'.kind = "windows"
        BY <2>1, <4>1, OneAnswer, WholeDays
      <4>2. CASE question'.kind \notin {"windows"}
        BY <4>2 DEF WindowsAreWholeDays, Asked
      <4> QED
        BY <4>1, <4>2
    <3>4. RecurringIsRecent'
      <4>1. CASE question'.kind = "recurring"
        BY <2>1, <4>1, OneAnswer, RecentLeads
      <4>2. CASE question'.kind \notin {"recurring"}
        BY <4>2 DEF RecurringIsRecent, Asked
      <4> QED
        BY <4>1, <4>2
    <3> QED
      BY <3>1, <3>2, <3>3, <3>4 DEF ChangesAreMeasured
  <2>2. CASE UNCHANGED vars
    BY <2>2 DEF vars, ChangesAreMeasured, ChangeIsWithinStrata, ComparisonsAreFair,
       WindowsAreWholeDays, RecurringIsRecent, Asked
  <2> QED
    BY <2>1, <2>2
<1> QED
  BY <1>1, <1>2, PTL DEF ServiceSpec

\* However many connectors, strata and posts there are, a source that failed only
\* ever takes signals away, and readiness does not hide one.
THEOREM HealthOnlyTakesAway == ServiceSpec => []HealthIsRespected
<1>1. Init => HealthIsRespected
  BY DEF Init, HealthIsRespected, OneBadConnectorIsSeen, AFailingSourceNeverRaises,
     MissingFeedIsNotImprovement, ReadinessNeverHidesASignal, Asked
<1>2. HealthIsRespected /\ [ServiceNext]_vars => HealthIsRespected'
  <2> SUFFICES ASSUME HealthIsRespected, [ServiceNext]_vars PROVE HealthIsRespected'
    OBVIOUS
  <2>1. CASE ServiceNext
    <3>1. OneBadConnectorIsSeen'
      <4>1. CASE question'.kind = "health"
        BY <2>1, <4>1, OneAnswer, HealthOfOne
      <4>2. CASE question'.kind \notin {"health"}
        BY <4>2 DEF OneBadConnectorIsSeen, Asked
      <4> QED
        BY <4>1, <4>2
    <3>2. AFailingSourceNeverRaises'
      <4>1. CASE question'.kind = "trend"
        BY <2>1, <4>1, OneAnswer, FailingSource
      <4>2. CASE question'.kind \notin {"trend"}
        BY <4>2 DEF AFailingSourceNeverRaises, Asked
      <4> QED
        BY <4>1, <4>2
    <3>3. MissingFeedIsNotImprovement'
      <4>1. CASE question'.kind = "improving"
        BY <2>1, <4>1, OneAnswer, MissingFeed
      <4>2. CASE question'.kind \notin {"improving"}
        BY <4>2 DEF MissingFeedIsNotImprovement, Asked
      <4> QED
        BY <4>1, <4>2
    <3>4. ReadinessNeverHidesASignal'
      <4>1. CASE question'.kind = "readiness"
        BY <2>1, <4>1, OneAnswer, Ready
      <4>2. CASE question'.kind \notin {"readiness"}
        BY <4>2 DEF ReadinessNeverHidesASignal, Asked
      <4> QED
        BY <4>1, <4>2
    <3> QED
      BY <3>1, <3>2, <3>3, <3>4 DEF HealthIsRespected
  <2>2. CASE UNCHANGED vars
    BY <2>2 DEF vars, HealthIsRespected, OneBadConnectorIsSeen, AFailingSourceNeverRaises,
       MissingFeedIsNotImprovement, ReadinessNeverHidesASignal, Asked
  <2> QED
    BY <2>1, <2>2
<1> QED
  BY <1>1, <1>2, PTL DEF ServiceSpec

\* Of any number of cards, rows and brands the strongest are shown, then those of
\* other owners and products.
THEOREM StrongestThenSpread == ServiceSpec => []SelectionIsFair
<1>1. Init => SelectionIsFair
  BY DEF Init, SelectionIsFair, StrongestAreShown, TiesSpreadOwners, EvidenceIsSpread,
     ComparedBrandsHaveEnough, Asked
<1>2. SelectionIsFair /\ [ServiceNext]_vars => SelectionIsFair'
  <2> SUFFICES ASSUME SelectionIsFair, [ServiceNext]_vars PROVE SelectionIsFair'
    OBVIOUS
  <2>1. CASE ServiceNext
    <3>1. StrongestAreShown'
      <4>1. CASE question'.kind = "today"
        BY <2>1, <4>1, OneAnswer, ShownCards
      <4>2. CASE question'.kind \notin {"today"}
        BY <4>2 DEF StrongestAreShown, Asked
      <4> QED
        BY <4>1, <4>2
    <3>2. TiesSpreadOwners'
      <4>1. CASE question'.kind = "today"
        BY <2>1, <4>1, OneAnswer, ShownCards
      <4>2. CASE question'.kind \notin {"today"}
        BY <4>2 DEF TiesSpreadOwners, Asked
      <4> QED
        BY <4>1, <4>2
    <3>3. EvidenceIsSpread'
      <4>1. CASE question'.kind = "dashboard"
        BY <2>1, <4>1, OneAnswer, SpreadEvidence
      <4>2. CASE question'.kind \notin {"dashboard"}
        BY <4>2 DEF EvidenceIsSpread, Asked
      <4> QED
        BY <4>1, <4>2
    <3>4. ComparedBrandsHaveEnough'
      <4>1. CASE question'.kind = "dashboard"
        BY <2>1, <4>1, OneAnswer, ComparedEnough
      <4>2. CASE question'.kind \notin {"dashboard"}
        BY <4>2 DEF ComparedBrandsHaveEnough, Asked
      <4> QED
        BY <4>1, <4>2
    <3> QED
      BY <3>1, <3>2, <3>3, <3>4 DEF SelectionIsFair
  <2>2. CASE UNCHANGED vars
    BY <2>2 DEF vars, SelectionIsFair, StrongestAreShown, TiesSpreadOwners, EvidenceIsSpread,
       ComparedBrandsHaveEnough, Asked
  <2> QED
    BY <2>1, <2>2
<1> QED
  BY <1>1, <1>2, PTL DEF ServiceSpec

\* Of any rows and for any period, the views of the dashboard add up to each
\* other, and pages of any size have every row once.
THEOREM ViewsAddUp == ServiceSpec => []ViewsAgree
<1>1. Init => ViewsAgree
  BY DEF Init, ViewsAgree, ProblemViewsAgree, TrendsAgree, ReadyIsComplete, PagesCoverFeedback, Asked
<1>2. ViewsAgree /\ [ServiceNext]_vars => ViewsAgree'
  <2> SUFFICES ASSUME ViewsAgree, [ServiceNext]_vars PROVE ViewsAgree'
    OBVIOUS
  <2>1. CASE ServiceNext
    <3>1. ProblemViewsAgree'
      <4>1. CASE question'.kind = "dashboard"
        BY <2>1, <4>1, OneAnswer, ProblemsAgree
      <4>2. CASE question'.kind \notin {"dashboard"}
        BY <4>2 DEF ProblemViewsAgree, Asked
      <4> QED
        BY <4>1, <4>2
    <3>2. TrendsAgree'
      <4>1. CASE question'.kind = "dashboard"
        BY <2>1, <4>1, OneAnswer, TrendsAddUp
      <4>2. CASE question'.kind \notin {"dashboard"}
        BY <4>2 DEF TrendsAgree, Asked
      <4> QED
        BY <4>1, <4>2
    <3>3. ReadyIsComplete'
      <4>1. CASE question'.kind = "dashboard"
        BY <2>1, <4>1, OneAnswer, CompleteWhenReady
      <4>2. CASE question'.kind \notin {"dashboard"}
        BY <4>2 DEF ReadyIsComplete, Asked
      <4> QED
        BY <4>1, <4>2
    <3>4. PagesCoverFeedback'
      <4>1. CASE question'.kind = "pages"
        BY <2>1, <4>1, OneAnswer, PagesCover
      <4>2. CASE question'.kind \notin {"pages"}
        BY <4>2 DEF PagesCoverFeedback, Asked
      <4> QED
        BY <4>1, <4>2
    <3> QED
      BY <3>1, <3>2, <3>3, <3>4 DEF ViewsAgree
  <2>2. CASE UNCHANGED vars
    <3>0. question' = question /\ answer' = answer
      BY <2>2 DEF vars
    <3>1. ProblemViewsAgree'
      <4>1. ProblemViewsAgree
        BY DEF ViewsAgree
      <4> QED
        BY Zenon, <3>0, <4>1 DEF ProblemViewsAgree, Asked
    <3>2. TrendsAgree'
      <4>1. TrendsAgree
        BY DEF ViewsAgree
      <4> QED
        BY Zenon, <3>0, <4>1 DEF TrendsAgree, Asked
    <3>3. ReadyIsComplete'
      <4>1. ReadyIsComplete
        BY DEF ViewsAgree
      <4> QED
        BY Zenon, <3>0, <4>1 DEF ReadyIsComplete, Asked
    <3>4. PagesCoverFeedback'
      <4> DEFINE found(q) == {r \in q.rows :
                        /\ q.brand # None =>
                            \/ q.brand = r.brand
                            \/ r.brand = None /\ q.brand = r.primary
                        /\ q.window # None =>
                            r.day # None /\ r.day \in q.window[1] .. q.window[2] - 1}
                 places(a) == UNION {{k} \X DOMAIN a[k].items : k \in DOMAIN a}
                 Covered(q, a) ==
                    /\ \A k \in DOMAIN a :
                        ToSet(a[k].items) \subseteq found(q) /\ a[k].total = Cardinality(found(q))
                    /\ \A r \in found(q) :
                        Cardinality({x \in places(a) : a[x[1]].items[x[2]] = r}) = 1
      <4>1. PagesCoverFeedback => (question.kind = "pages" => Covered(question, answer))
        BY DEF PagesCoverFeedback, Asked
      <4>2. (question'.kind = "pages" => Covered(question', answer')) => PagesCoverFeedback'
        BY DEF PagesCoverFeedback, Asked
      <4> HIDE DEF Covered
      <4>3. PagesCoverFeedback
        BY DEF ViewsAgree
      <4> QED
        BY <3>0, <4>1, <4>2, <4>3
    <3> QED
      BY <3>1, <3>2, <3>3, <3>4 DEF ViewsAgree
  <2> QED
    BY <2>1, <2>2
<1> QED
  BY <1>1, <1>2, PTL DEF ServiceSpec

\* Whatever the provider replies, however often, and however many retries are
\* allowed, only what was validated is used, and one bad reply is repaired.
THEOREM OnlyJudgedReplies == ServiceSpec => []RepliesAreJudged
<1>1. Init => RepliesAreJudged
  BY DEF Init, RepliesAreJudged, OnlyGroundedAnswersAreUsed, OneBadReplyIsRepaired, Asked
<1>2. RepliesAreJudged /\ [ServiceNext]_vars => RepliesAreJudged'
  <2> SUFFICES ASSUME RepliesAreJudged, [ServiceNext]_vars PROVE RepliesAreJudged'
    OBVIOUS
  <2>1. CASE ServiceNext
    <3>1. OnlyGroundedAnswersAreUsed'
      <4>1. CASE question'.kind = "card"
        BY <2>1, <4>1, OneAnswer, GroundedCard
      <4>2. CASE question'.kind = "classification"
        BY <2>1, <4>2, OneAnswer, GroundedClassification
      <4>3. CASE question'.kind \notin {"card", "classification"}
        BY <4>3 DEF OnlyGroundedAnswersAreUsed, Asked
      <4> QED
        BY <4>1, <4>2, <4>3
    <3>2. OneBadReplyIsRepaired'
      <4>1. CASE question'.kind = "classification"
        BY <2>1, <4>1, OneAnswer, Repaired
      <4>2. CASE question'.kind \notin {"classification"}
        BY <4>2 DEF OneBadReplyIsRepaired, Asked
      <4> QED
        BY <4>1, <4>2
    <3> QED
      BY <3>1, <3>2 DEF RepliesAreJudged
  <2>2. CASE UNCHANGED vars
    BY <2>2 DEF vars, RepliesAreJudged, OnlyGroundedAnswersAreUsed, OneBadReplyIsRepaired, Asked
  <2> QED
    BY <2>1, <2>2
<1> QED
  BY <1>1, <1>2, PTL DEF ServiceSpec

\* Files of any length are read as a whole, their conversations in order, and bad
\* lines harm nothing but themselves.
THEOREM EveryFileIsReadWhole == ServiceSpec => []FilesAreReadWhole
<1>1. Init => FilesAreReadWhole
  BY DEF Init, FilesAreReadWhole, EveryRowIsAccounted, TranscriptsAreChronological,
     BadRowsHarmNoNeighbour, Asked
<1>2. FilesAreReadWhole /\ [ServiceNext]_vars => FilesAreReadWhole'
  <2> SUFFICES ASSUME FilesAreReadWhole, [ServiceNext]_vars PROVE FilesAreReadWhole'
    OBVIOUS
  <2>1. CASE ServiceNext
    <3>1. EveryRowIsAccounted'
      <4>1. CASE question'.kind = "file"
        BY <2>1, <4>1, OneAnswer, RowsAreAccounted
      <4>2. CASE question'.kind \notin {"file"}
        BY <4>2 DEF EveryRowIsAccounted, Asked
      <4> QED
        BY <4>1, <4>2
    <3>2. TranscriptsAreChronological'
      <4>1. CASE question'.kind = "file"
        BY <2>1, <4>1, OneAnswer, TranscriptsAreInOrder
      <4>2. CASE question'.kind \notin {"file"}
        BY <4>2 DEF TranscriptsAreChronological, Asked
      <4> QED
        BY <4>1, <4>2
    <3>3. BadRowsHarmNoNeighbour'
      <4>1. CASE question'.kind = "file"
        BY <2>1, <4>1, OneAnswer, NoNeighbourIsHarmed
      <4>2. CASE question'.kind \notin {"file"}
        BY <4>2 DEF BadRowsHarmNoNeighbour, Asked
      <4> QED
        BY <4>1, <4>2
    <3> QED
      BY <3>1, <3>2, <3>3 DEF FilesAreReadWhole
  <2>2. CASE UNCHANGED vars
    BY <2>2 DEF vars, FilesAreReadWhole, EveryRowIsAccounted, TranscriptsAreChronological,
       BadRowsHarmNoNeighbour, Asked
  <2> QED
    BY <2>1, <2>2
<1> QED
  BY <1>1, <1>2, PTL DEF ServiceSpec
=============================================================================
