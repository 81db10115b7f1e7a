-------------------------------- MODULE SumLemmas --------------------------------
(***************************************************************************)
(* Lemmas about the least and the greatest of a set of numbers, and about  *)
(* SumFunctionOnSet of the community modules, for finite sets of any size. *)
(*                                                                         *)
(* Induction is by the least counterexample: the numbers (or the finite    *)
(* sets) for which a fact fails have a least one if there are any.         *)
(***************************************************************************)
EXTENDS Integers, Functions, FiniteSetTheorems, TLAPS

Below == OpToRel(<, Nat)

LEMMA BelowIsWellFounded ==
  /\ IsWellFoundedOn(Below, Nat)
  /\ \A x, y \in Nat : y < x => <<y, x>> \in Below
<1>1. IsWellFoundedOn(Below, Nat)
  BY NatLessThanWellFounded DEF Below
<1>2. \A x, y \in Nat : y < x => <<y, x>> \in Below
  BY DEF OpToRel, Below
<1> QED  BY <1>1, <1>2

LEMMA HasLeast ==
  ASSUME NEW I \in SUBSET Nat, I # {}
  PROVE  \E i \in I : \A j \in I : i <= j
<1>1. PICK x \in I : \A y \in I : ~(<<y, x>> \in Below)
  BY BelowIsWellFounded, WFMin
<1>2. \A y \in I : ~(y < x)
  BY <1>1, BelowIsWellFounded
<1> QED  BY <1>2

(* Of the finite sets without a greatest element a smallest one would have  *)
(* one after all: without some x it has a greatest, and that or x is its.   *)
LEMMA HasGreatest ==
  ASSUME NEW S \in SUBSET Nat, IsFiniteSet(S), S # {}
  PROVE  \E m \in S : \A n \in S : n <= m
<1> DEFINE Greatest(U) == \E m \in U : \A n \in U : n <= m
           Without == {U \in FiniteSubsetsOf(S) : U # {} /\ ~Greatest(U)}
<1>1. SUFFICES ASSUME ~Greatest(S) PROVE FALSE
  OBVIOUS
<1>2. S \in Without /\ Without \subseteq FiniteSubsetsOf(S)
  BY <1>1 DEF FiniteSubsetsOf
<1>3. PICK U \in Without : \A V \in Without : ~(<<V, U>> \in StrictSubsetOrdering(S))
  <2> HIDE DEF Without
  <2> QED  BY <1>2, FS_StrictSubsetOrderingWellFounded, WFMin
<1>4. U \in SUBSET S /\ IsFiniteSet(U) /\ U # {} /\ ~Greatest(U)
  BY DEF FiniteSubsetsOf
<1>5. PICK x \in U : TRUE
  BY <1>4
<1> DEFINE V == U \ {x}
<1>6. V \in FiniteSubsetsOf(S) /\ <<V, U>> \in StrictSubsetOrdering(S)
  BY <1>4, FS_RemoveElement DEF FiniteSubsetsOf, StrictSubsetOrdering
<1>7. V = {} \/ Greatest(V)
  BY <1>3, <1>6
<1>8. Greatest(U)
  <2>1. CASE V = {}
    <3>1. U = {x} /\ x \in Nat
      BY <1>4, <2>1
    <3> QED  BY <3>1
  <2>2. CASE Greatest(V)
    <3>1. PICK m \in V : \A n \in V : n <= m
      BY <2>2
    <3>2. m \in Nat /\ x \in Nat /\ U \subseteq Nat
      BY <1>4
    <3>3. CASE x <= m
      BY <3>1, <3>2, <3>3
    <3>4. CASE m <= x
      BY <3>1, <3>2, <3>4
    <3> QED  BY <3>2, <3>3, <3>4
  <2> QED  BY <1>7, <2>1, <2>2
<1> QED  BY <1>4, <1>8

(* A set of numbers that holds 0 and, with a number, the next holds all.    *)
LEMMA Counting ==
  ASSUME NEW I \in SUBSET Nat, 0 \in I, \A n \in I : n + 1 \in I
  PROVE  I = Nat
<1> DEFINE Missing == Nat \ I
<1>1. SUFFICES ASSUME Missing # {} PROVE FALSE
  OBVIOUS
<1>2. PICK n \in Missing : \A m \in Missing : n <= m
  BY <1>1, HasLeast
<1>3. n \in Nat /\ n # 0
  OBVIOUS
<1>4. n - 1 \in Nat /\ n - 1 \notin Missing
  BY <1>2, <1>3
<1>5. (n - 1) + 1 \in I
  BY <1>4
<1> QED  BY <1>3, <1>5

--------------------------------------------------------------------------------
(* The fold.                                                                *)

Pick(S) == CHOOSE x \in S : TRUE

(* g is the fold of w over the sets in T, or a part of it.                  *)
FoldOf(w, T, g) ==
  \A s \in T : g[s] = IF s = {} THEN 0 ELSE w[Pick(s)] + g[s \ {Pick(s)}]

IntOn(w, S) == \A x \in S : w[x] \in Int

UpTo(S, n) == {s \in SUBSET S : Cardinality(s) <= n}

LEMMA Picked ==
  ASSUME NEW S, S # {}
  PROVE  Pick(S) \in S
BY DEF Pick

LEMMA WithoutOne ==
  ASSUME NEW S, IsFiniteSet(S), NEW s \in SUBSET S, NEW x \in s
  PROVE  /\ s \ {x} \in SUBSET S
         /\ IsFiniteSet(s) /\ IsFiniteSet(s \ {x})
         /\ Cardinality(s) \in Nat /\ Cardinality(s \ {x}) \in Nat
         /\ Cardinality(s \ {x}) = Cardinality(s) - 1
BY FS_Subset, FS_RemoveElement, FS_CardinalityType

LEMMA FoldsUpTo ==
  ASSUME NEW S, IsFiniteSet(S), NEW w, IntOn(w, S)
  PROVE  \A n \in Nat : \E g \in [UpTo(S, n) -> Int] : FoldOf(w, UpTo(S, n), g)
<1> DEFINE Good == {n \in Nat : \E g \in [UpTo(S, n) -> Int] : FoldOf(w, UpTo(S, n), g)}
<1>0. \A s \in SUBSET S : IsFiniteSet(s) /\ Cardinality(s) \in Nat
  BY FS_Subset, FS_CardinalityType
<1>1. 0 \in Good
  <2>1. UpTo(S, 0) = {{}}
    BY <1>0, FS_EmptySet DEF UpTo
  <2>2. [s \in UpTo(S, 0) |-> 0] \in [UpTo(S, 0) -> Int]
    OBVIOUS
  <2>3. FoldOf(w, UpTo(S, 0), [s \in UpTo(S, 0) |-> 0])
    BY <2>1 DEF FoldOf
  <2> QED  BY <2>2, <2>3
<1>2. ASSUME NEW n \in Good PROVE n + 1 \in Good
  <2>1. PICK g \in [UpTo(S, n) -> Int] : FoldOf(w, UpTo(S, n), g)
    OBVIOUS
  <2> DEFINE h == [s \in UpTo(S, n + 1) |->
                     IF Cardinality(s) <= n THEN g[s] ELSE w[Pick(s)] + g[s \ {Pick(s)}]]
  <2>2. ASSUME NEW s \in UpTo(S, n + 1), s # {}
        PROVE  /\ w[Pick(s)] \in Int
               /\ s \ {Pick(s)} \in UpTo(S, n) /\ s \ {Pick(s)} \in UpTo(S, n + 1)
               /\ Cardinality(s \ {Pick(s)}) <= n
    <3>1. Pick(s) \in s /\ s \in SUBSET S
      BY <2>2, Picked DEF UpTo
    <3>2. Cardinality(s \ {Pick(s)}) \in Nat /\ Cardinality(s \ {Pick(s)}) <= n
      <4>1. Cardinality(s) <= n + 1 /\ n \in Nat
        BY DEF UpTo
      <4>2. /\ Cardinality(s) \in Nat /\ Cardinality(s \ {Pick(s)}) \in Nat
            /\ Cardinality(s \ {Pick(s)}) = Cardinality(s) - 1
        <5> HIDE DEF Good
        <5> QED  BY <3>1, WithoutOne
      <4> QED  BY <4>1, <4>2
    <3> QED  BY <3>1, <3>2 DEF IntOn, UpTo
  <2>3. ASSUME NEW s \in UpTo(S, n + 1)
        PROVE  /\ h[s] \in Int
               /\ h[s] = IF s = {} THEN 0 ELSE w[Pick(s)] + h[s \ {Pick(s)}]
    <3>1. CASE Cardinality(s) <= n
      <4>1. s \in UpTo(S, n) /\ h[s] = g[s]
        BY <3>1 DEF UpTo
      <4>2. s # {} => h[s \ {Pick(s)}] = g[s \ {Pick(s)}]
        BY <2>2
      <4> QED  BY <4>1, <4>2, <2>1 DEF FoldOf
    <3>2. CASE ~(Cardinality(s) <= n)
      <4>1. s # {}
        BY <3>2, FS_EmptySet
      <4>2. h[s] = w[Pick(s)] + g[s \ {Pick(s)}] /\ h[s \ {Pick(s)}] = g[s \ {Pick(s)}]
        BY <4>1, <2>2, <3>2
      <4> QED  BY <4>1, <4>2, <2>2, <2>1
    <3> QED  BY <3>1, <3>2
  <2>4. h \in [UpTo(S, n + 1) -> Int] /\ FoldOf(w, UpTo(S, n + 1), h)
    BY <2>3 DEF FoldOf
  <2>5. n + 1 \in Nat
    OBVIOUS
  <2> QED  BY <2>4, <2>5
<1>3. Good = Nat
  <2> HIDE DEF Good
  <2>1. Good \in SUBSET Nat
    BY DEF Good
  <2> QED  BY <1>1, <1>2, <2>1, Counting
<1> QED  BY <1>3

(* Two folds agree where both are defined.                                  *)
LEMMA FoldsAgree ==
  ASSUME NEW S, IsFiniteSet(S), NEW w, NEW v, \A x \in S : w[x] = v[x],
         NEW f, NEW g, FoldOf(w, SUBSET S, f), FoldOf(v, SUBSET S, g)
  PROVE  f[S] = g[S]
<1> DEFINE Same == {n \in Nat : \A s \in SUBSET S : Cardinality(s) = n => f[s] = g[s]}
<1>0. \A s \in SUBSET S : IsFiniteSet(s) /\ Cardinality(s) \in Nat
  BY FS_Subset, FS_CardinalityType
<1>1. 0 \in Same
  BY <1>0, FS_EmptySet DEF FoldOf
<1>2. ASSUME NEW n \in Same PROVE n + 1 \in Same
  <2> SUFFICES ASSUME NEW s \in SUBSET S, Cardinality(s) = n + 1
               PROVE  f[s] = g[s]
    OBVIOUS
  <2>0. n \in Nat
    OBVIOUS
  <2>1. s # {}
    <3>1. Cardinality({}) = 0
      BY FS_EmptySet
    <3>2. Cardinality(s) # 0
      BY <2>0
    <3> QED  BY <3>1, <3>2
  <2>2. Pick(s) \in s /\ s \ {Pick(s)} \in SUBSET S
    BY <2>1, Picked
  <2>4. Cardinality(s \ {Pick(s)}) = n
    <3>1. Cardinality(s \ {Pick(s)}) = Cardinality(s) - 1
      BY <2>2, WithoutOne
    <3> QED  BY <2>0, <3>1
  <2>3. f[s \ {Pick(s)}] = g[s \ {Pick(s)}] /\ w[Pick(s)] = v[Pick(s)]
    BY <2>2, <2>4
  <2> QED  BY <2>1, <2>3 DEF FoldOf
<1>3. Same = Nat
  <2> HIDE DEF Same
  <2>1. Same \in SUBSET Nat
    BY DEF Same
  <2> QED  BY <1>1, <1>2, <2>1, Counting
<1> QED  BY <1>0, <1>3

--------------------------------------------------------------------------------
(* SumFunctionOnSet.                                                        *)

LEMMA SumIsAFold ==
  ASSUME NEW S, IsFiniteSet(S), NEW w, IntOn(w, S)
  PROVE  \E g \in [SUBSET S -> Int] :
           FoldOf(w, SUBSET S, g) /\ SumFunctionOnSet(w, S) = g[S]
<1> DEFINE Equation(g) ==
             g = [s \in SUBSET S |->
                    IF s = {} THEN 0 ELSE w[Pick(s)] + g[s \ {Pick(s)}]]
           iter == CHOOSE g : Equation(g)
<1>1. SumFunctionOnSet(w, S) = iter[S]
  BY DEF SumFunctionOnSet, FoldFunctionOnSet, MapThenFoldSet, Pick
<1>2. Cardinality(S) \in Nat /\ UpTo(S, Cardinality(S)) = SUBSET S
  BY FS_Subset, FS_CardinalityType DEF UpTo
<1>3. PICK g \in [SUBSET S -> Int] : FoldOf(w, SUBSET S, g)
  <2>1. \E g \in [UpTo(S, Cardinality(S)) -> Int] : FoldOf(w, UpTo(S, Cardinality(S)), g)
    BY <1>2, FoldsUpTo
  <2> QED  BY <1>2, <2>1
<1>4. Equation(g)
  BY <1>3 DEF FoldOf
<1>5. Equation(iter)
  <2> HIDE DEF Equation
  <2> QED  BY <1>4
<1>6. FoldOf(w, SUBSET S, iter)
  <2> HIDE DEF iter
  <2> QED  BY <1>5 DEF FoldOf
<1>7. \A s \in SUBSET S : iter[s] = g[s]
  <2> SUFFICES ASSUME NEW s \in SUBSET S PROVE iter[s] = g[s]
    OBVIOUS
  <2> HIDE DEF iter
  <2>1. IsFiniteSet(s) /\ FoldOf(w, SUBSET s, iter) /\ FoldOf(w, SUBSET s, g)
    BY <1>3, <1>6, FS_Subset DEF FoldOf
  <2> QED  BY <2>1, FoldsAgree
<1>8. iter[S] = g[S]
  BY <1>7
<1> QED  BY <1>1, <1>3, <1>8

LEMMA SumType ==
  ASSUME NEW S, IsFiniteSet(S), NEW w, IntOn(w, S)
  PROVE  SumFunctionOnSet(w, S) \in Int
<1>1. PICK g \in [SUBSET S -> Int] : SumFunctionOnSet(w, S) = g[S]
  BY SumIsAFold
<1> QED  BY <1>1

LEMMA SumOfNothing ==
  ASSUME NEW w
  PROVE  SumFunctionOnSet(w, {}) = 0
<1>1. IsFiniteSet({}) /\ IntOn(w, {})
  BY FS_EmptySet DEF IntOn
<1>2. PICK g \in [SUBSET {} -> Int] :
        FoldOf(w, SUBSET {}, g) /\ SumFunctionOnSet(w, {}) = g[{}]
  BY <1>1, SumIsAFold
<1> QED  BY <1>2 DEF FoldOf

(* A sum reads nothing of w but its values on the set.                      *)
LEMMA SumAgrees ==
  ASSUME NEW S, IsFiniteSet(S), NEW w, NEW v, IntOn(w, S), \A x \in S : v[x] = w[x]
  PROVE  SumFunctionOnSet(v, S) = SumFunctionOnSet(w, S)
<1>1. IntOn(v, S)
  BY DEF IntOn
<1>2. PICK f : FoldOf(w, SUBSET S, f) /\ SumFunctionOnSet(w, S) = f[S]
  BY SumIsAFold
<1>3. PICK g : FoldOf(v, SUBSET S, g) /\ SumFunctionOnSet(v, S) = g[S]
  BY <1>1, SumIsAFold
<1> QED  BY <1>2, <1>3, FoldsAgree

(* The element the fold happens to take first.                              *)
LEMMA SumUnfolds ==
  ASSUME NEW S, IsFiniteSet(S), S # {}, NEW w, IntOn(w, S)
  PROVE  SumFunctionOnSet(w, S) = w[Pick(S)] + SumFunctionOnSet(w, S \ {Pick(S)})
<1> DEFINE R == S \ {Pick(S)}
<1>1. PICK f : FoldOf(w, SUBSET S, f) /\ SumFunctionOnSet(w, S) = f[S]
  BY SumIsAFold
<1>2. R \in SUBSET S /\ IsFiniteSet(R) /\ IntOn(w, R)
  BY FS_Subset DEF IntOn
<1>3. PICK g : FoldOf(w, SUBSET R, g) /\ SumFunctionOnSet(w, R) = g[R]
  BY <1>2, SumIsAFold
<1>4. FoldOf(w, SUBSET R, f)
  BY <1>1, <1>2 DEF FoldOf
<1>5. f[R] = g[R]
  BY <1>2, <1>3, <1>4, FoldsAgree
<1>6. f[S] = w[Pick(S)] + f[R]
  BY <1>1 DEF FoldOf
<1> QED  BY <1>1, <1>3, <1>5, <1>6

(* ... and any other: the order of the fold does not matter.                *)
LEMMA SumSplits ==
  ASSUME NEW S, IsFiniteSet(S), NEW w, IntOn(w, S), NEW x \in S
  PROVE  SumFunctionOnSet(w, S) = w[x] + SumFunctionOnSet(w, S \ {x})
<1> DEFINE Splits(s) == \A y \in s :
             SumFunctionOnSet(w, s) = w[y] + SumFunctionOnSet(w, s \ {y})
           Good == {n \in Nat : \A s \in SUBSET S : Cardinality(s) = n => Splits(s)}
<1>0. \A s \in SUBSET S :
        /\ IsFiniteSet(s) /\ Cardinality(s) \in Nat /\ IntOn(w, s)
        /\ SumFunctionOnSet(w, s) \in Int
  BY FS_Subset, FS_CardinalityType, SumType DEF IntOn
<1>1. 0 \in Good
  BY <1>0, FS_EmptySet
<1>2. ASSUME NEW n \in Good PROVE n + 1 \in Good
  <2> SUFFICES ASSUME NEW s \in SUBSET S, Cardinality(s) = n + 1, NEW y \in s
               PROVE  SumFunctionOnSet(w, s) = w[y] + SumFunctionOnSet(w, s \ {y})
    OBVIOUS
  <2> DEFINE p == Pick(s)
  <2>1. p \in s
    BY Picked
  <2>2. SumFunctionOnSet(w, s) = w[p] + SumFunctionOnSet(w, s \ {p})
    BY <1>0, SumUnfolds
  <2> HIDE DEF p
  <2>3. SUFFICES ASSUME y # p
                 PROVE  SumFunctionOnSet(w, s) = w[y] + SumFunctionOnSet(w, s \ {y})
    BY <2>2
  <2>4. /\ s \ {p} \in SUBSET S /\ Cardinality(s \ {p}) = n
        /\ s \ {y} \in SUBSET S /\ Cardinality(s \ {y}) = n
    BY <2>1, WithoutOne
  <2>5. Splits(s \ {p}) /\ Splits(s \ {y})
    BY <2>4
  <2>6. SumFunctionOnSet(w, s \ {p}) = w[y] + SumFunctionOnSet(w, (s \ {p}) \ {y})
    BY <2>3, <2>5
  <2>7. SumFunctionOnSet(w, s \ {y}) = w[p] + SumFunctionOnSet(w, (s \ {y}) \ {p})
    BY <2>1, <2>3, <2>5
  <2>8. (s \ {p}) \ {y} = (s \ {y}) \ {p} /\ (s \ {p}) \ {y} \in SUBSET S
    OBVIOUS
  <2>9. w[p] \in Int /\ w[y] \in Int /\ SumFunctionOnSet(w, (s \ {p}) \ {y}) \in Int
    BY <1>0, <2>1, <2>8 DEF IntOn
  <2> QED  BY <2>2, <2>6, <2>7, <2>8, <2>9
<1>3. Good = Nat
  <2> HIDE DEF Good
  <2>1. Good \in SUBSET Nat
    BY DEF Good
  <2> QED  BY <1>1, <1>2, <2>1, Counting
<1> QED  BY <1>0, <1>3

LEMMA SumAdds ==
  ASSUME NEW S, IsFiniteSet(S), NEW x, x \notin S, NEW w, IntOn(w, S), w[x] \in Int
  PROVE  SumFunctionOnSet(w, S \cup {x}) = w[x] + SumFunctionOnSet(w, S)
<1>1. IsFiniteSet(S \cup {x}) /\ IntOn(w, S \cup {x}) /\ (S \cup {x}) \ {x} = S
  BY FS_AddElement DEF IntOn
<1> QED  BY <1>1, SumSplits
--------------------------------------------------------------------------------
(* Sums over images and over groups.                                        *)

(* What holds of the empty set and, with a set, of one with one more        *)
(* element holds of every finite set.                                       *)
LEMMA Growing ==
  ASSUME NEW S, IsFiniteSet(S), NEW G, {} \in G,
         \A T \in SUBSET S : T \in G => \A x \in S \ T : T \cup {x} \in G
  PROVE  S \in G
<1> DEFINE Good == {n \in Nat : \A T \in SUBSET S : Cardinality(T) = n => T \in G}
<1>0. \A T \in SUBSET S : IsFiniteSet(T) /\ Cardinality(T) \in Nat
  BY FS_Subset, FS_CardinalityType
<1>1. 0 \in Good
  BY <1>0, FS_EmptySet
<1>2. ASSUME NEW n \in Good PROVE n + 1 \in Good
  <2> SUFFICES ASSUME NEW T \in SUBSET S, Cardinality(T) = n + 1 PROVE T \in G
    OBVIOUS
  <2>0. n \in Nat
    OBVIOUS
  <2>1. T # {}
    <3>1. Cardinality(T) # 0
      BY <2>0
    <3> QED  BY <3>1, FS_EmptySet
  <2>2. PICK x \in T : TRUE
    BY <2>1
  <2>3. T \ {x} \in SUBSET S /\ Cardinality(T \ {x}) = n
    <3>1. IsFiniteSet(T)
      BY <1>0
    <3>2. Cardinality(T \ {x}) = Cardinality(T) - 1
      BY <3>1, WithoutOne
    <3> QED  BY <2>0, <3>2
  <2>4. T \ {x} \in G /\ x \in S \ (T \ {x}) /\ (T \ {x}) \cup {x} = T
    BY <2>3
  <2> QED  BY <2>3, <2>4
<1>3. Good = Nat
  <2> HIDE DEF Good
  <2>1. Good \in SUBSET Nat
    BY DEF Good
  <2> QED  BY <1>1, <1>2, <2>1, Counting
<1> QED  BY <1>0, <1>3

LEMMA ImageIsFinite ==
  ASSUME NEW S, IsFiniteSet(S), NEW f
  PROVE  IsFiniteSet({f[x] : x \in S})
<1> DEFINE G == {T \in SUBSET S : IsFiniteSet({f[x] : x \in T})}
<1>1. {} \in G
  <2>1. {f[x] : x \in {}} = {}
    OBVIOUS
  <2> QED  BY <2>1, FS_EmptySet
<1>2. ASSUME NEW T \in SUBSET S, T \in G, NEW y \in S \ T PROVE T \cup {y} \in G
  <2>1. {f[x] : x \in T \cup {y}} = {f[x] : x \in T} \cup {f[y]}
    OBVIOUS
  <2>2. IsFiniteSet({f[x] : x \in T} \cup {f[y]})
    BY <1>2, FS_AddElement
  <2> QED  BY <2>1, <2>2
<1>3. S \in G
  <2> HIDE DEF G
  <2> QED  BY <1>1, <1>2, Growing
<1> QED  BY <1>3

(* Renaming the elements one to one changes no sum.                         *)
LEMMA SumThrough ==
  ASSUME NEW S, IsFiniteSet(S), NEW f, NEW w, NEW v, IntOn(w, S),
         \A x \in S : v[f[x]] = w[x],
         \A x, y \in S : f[x] = f[y] => x = y
  PROVE  SumFunctionOnSet(v, {f[x] : x \in S}) = SumFunctionOnSet(w, S)
<1> DEFINE G == {T \in SUBSET S :
                   SumFunctionOnSet(v, {f[x] : x \in T}) = SumFunctionOnSet(w, T)}
<1>1. {} \in G
  <2>1. {f[x] : x \in {}} = {}
    OBVIOUS
  <2> QED  BY <2>1, SumOfNothing
<1>2. ASSUME NEW T \in SUBSET S, T \in G, NEW y \in S \ T PROVE T \cup {y} \in G
  <2> DEFINE I == {f[x] : x \in T}
  <2>1. {f[x] : x \in T \cup {y}} = I \cup {f[y]}
    OBVIOUS
  <2>2. f[y] \notin I /\ IntOn(v, I) /\ v[f[y]] = w[y] /\ w[y] \in Int
    BY DEF IntOn
  <2>3. IsFiniteSet(T) /\ IsFiniteSet(I) /\ IntOn(w, T)
    BY FS_Subset, ImageIsFinite DEF IntOn
  <2>4. SumFunctionOnSet(v, I) = SumFunctionOnSet(w, T)
    BY <1>2
  <2> HIDE DEF I
  <2>5. SumFunctionOnSet(v, I \cup {f[y]}) = v[f[y]] + SumFunctionOnSet(v, I)
    BY <2>2, <2>3, SumAdds
  <2>6. SumFunctionOnSet(w, T \cup {y}) = w[y] + SumFunctionOnSet(w, T)
    BY <2>2, <2>3, SumAdds
  <2> QED  BY <2>1, <2>2, <2>4, <2>5, <2>6
<1>3. S \in G
  <2> HIDE DEF G
  <2> QED  BY <1>1, <1>2, Growing
<1> QED  BY <1>3

LEMMA SumOfZeros ==
  ASSUME NEW S, IsFiniteSet(S), NEW w, \A x \in S : w[x] = 0
  PROVE  SumFunctionOnSet(w, S) = 0
<1> DEFINE G == {T \in SUBSET S : SumFunctionOnSet(w, T) = 0}
<1>1. {} \in G
  BY SumOfNothing
<1>2. ASSUME NEW T \in SUBSET S, T \in G, NEW y \in S \ T PROVE T \cup {y} \in G
  <2>1. IsFiniteSet(T) /\ IntOn(w, T) /\ w[y] = 0 /\ y \notin T
    BY FS_Subset DEF IntOn
  <2>2. SumFunctionOnSet(w, T \cup {y}) = w[y] + SumFunctionOnSet(w, T)
    BY <2>1, SumAdds
  <2> QED  BY <1>2, <2>1, <2>2
<1>3. S \in G
  <2> HIDE DEF G
  <2> QED  BY <1>1, <1>2, Growing
<1> QED  BY <1>3

(* The sums of the groups add up to the sum.                                *)
LEMMA SumByGroups ==
  ASSUME NEW S, IsFiniteSet(S), NEW D, IsFiniteSet(D), NEW k, NEW w, IntOn(w, S),
         \A x \in S : k[x] \in D
  PROVE  SumFunctionOnSet([d \in D |-> SumFunctionOnSet(w, {x \in S : k[x] = d})], D)
           = SumFunctionOnSet(w, S)
<1> DEFINE Group(T, d) == {x \in T : k[x] = d}
           Groups(T) == [d \in D |-> SumFunctionOnSet(w, Group(T, d))]
           G == {T \in SUBSET S : SumFunctionOnSet(Groups(T), D) = SumFunctionOnSet(w, T)}
<1>0. ASSUME NEW T \in SUBSET S
      PROVE  /\ IsFiniteSet(T) /\ IntOn(w, T) /\ IntOn(Groups(T), D)
             /\ \A d \in D : IsFiniteSet(Group(T, d)) /\ IntOn(w, Group(T, d))
  <2>1. IsFiniteSet(T) /\ IntOn(w, T)
    BY FS_Subset DEF IntOn
  <2>2. \A d \in D : Group(T, d) \in SUBSET S
    OBVIOUS
  <2> HIDE DEF Group
  <2>3. \A d \in D : IsFiniteSet(Group(T, d)) /\ IntOn(w, Group(T, d))
    BY <2>2, FS_Subset DEF IntOn
  <2>4. IntOn(Groups(T), D)
    BY <2>3, SumType DEF IntOn
  <2> QED  BY <2>1, <2>3, <2>4
<1>1. {} \in G
  <2>1. \A d \in D : Group({}, d) = {}
    OBVIOUS
  <2>2. \A d \in D : Groups({})[d] = 0
    BY <2>1, SumOfNothing
  <2> HIDE DEF Groups
  <2>3. SumFunctionOnSet(Groups({}), D) = 0
    BY <2>2, SumOfZeros
  <2> QED  BY <2>3, SumOfNothing
<1>2. ASSUME NEW T \in SUBSET S, T \in G, NEW y \in S \ T PROVE T \cup {y} \in G
  <2> DEFINE U == T \cup {y}
             e == k[y]
             old == Groups(T)
             new == Groups(U)
  <2>1. U \in SUBSET S /\ e \in D /\ w[y] \in Int /\ y \notin T
    BY DEF IntOn
  <2>2. IntOn(old, D) /\ IntOn(new, D)
    BY <1>0, <2>1
  <2>3. \A d \in D \ {e} : new[d] = old[d]
    <3> SUFFICES ASSUME NEW d \in D \ {e} PROVE new[d] = old[d]
      OBVIOUS
    <3>1. Group(U, d) = Group(T, d)
      OBVIOUS
    <3> QED  BY <3>1
  <2>4. new[e] = w[y] + old[e]
    <3>1. Group(U, e) = Group(T, e) \cup {y} /\ y \notin Group(T, e)
      BY <2>1
    <3>2. IsFiniteSet(Group(T, e)) /\ IntOn(w, Group(T, e))
      BY <1>0, <2>1
    <3>3. SumFunctionOnSet(w, Group(T, e) \cup {y}) = w[y] + SumFunctionOnSet(w, Group(T, e))
      <4> HIDE DEF Group
      <4> QED  BY <2>1, <3>1, <3>2, SumAdds
    <3> QED  BY <2>1, <3>1, <3>3
  <2>5. SumFunctionOnSet(old, D) = SumFunctionOnSet(w, T)
    BY <1>2
  <2> HIDE DEF old, new, e
  <2>6. SumFunctionOnSet(old, D) = old[e] + SumFunctionOnSet(old, D \ {e})
    BY <2>1, <2>2, SumSplits
  <2>7. SumFunctionOnSet(new, D) = new[e] + SumFunctionOnSet(new, D \ {e})
    BY <2>1, <2>2, SumSplits
  <2>8. IsFiniteSet(D \ {e}) /\ IntOn(old, D \ {e}) /\ old[e] \in Int
    BY <2>1, <2>2, FS_RemoveElement DEF IntOn
  <2>9. /\ SumFunctionOnSet(new, D \ {e}) = SumFunctionOnSet(old, D \ {e})
        /\ SumFunctionOnSet(old, D \ {e}) \in Int
    BY <2>3, <2>8, SumAgrees, SumType
  <2>10. SumFunctionOnSet(w, U) = w[y] + SumFunctionOnSet(w, T)
    BY <1>0, <2>1, SumAdds
  <2>11. SumFunctionOnSet(new, D) = SumFunctionOnSet(w, U)
    BY <2>1, <2>4, <2>5, <2>6, <2>7, <2>8, <2>9, <2>10
  <2> QED  BY <2>1, <2>11 DEF new
<1>3. S \in G
  <2> HIDE DEF G
  <2> QED  BY <1>1, <1>2, Growing
<1> QED  BY <1>3
================================================================================
