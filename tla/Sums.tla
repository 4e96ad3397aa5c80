---------------------------------- MODULE Sums ----------------------------------
(***************************************************************************)
(* Facts about SumFunctionOnSet of the community modules, which sums a     *)
(* function over a finite set: the sums of payments, of lines and of their *)
(* columns are all of this form.  They are proved from its definition, a   *)
(* fold that takes the elements in an order nobody knows.                  *)
(***************************************************************************)
EXTENDS FiniteSetsExt, FiniteSetTheorems, TLAPS

\* The element the fold takes next.
Taken(s) == CHOOSE x \in s : TRUE

\* What the fold returns for s, if it returns it[t] for smaller sets t.
OneMore(f, it, s) == IF s = {} THEN 0 ELSE f[Taken(s)] + it[s \ {Taken(s)}]

\* The recursive function inside the fold.
Partial(f, S) == CHOOSE it : it = [s \in SUBSET S |-> OneMore(f, it, s)]

\* The fold, as the function of the definition above.
LEMMA SumIsPartial ==
    ASSUME NEW f, NEW S
    PROVE  SumFunctionOnSet(f, S) = Partial(f, S)[S]
BY DEF SumFunctionOnSet, FoldFunctionOnSet, MapThenFoldSet, Partial, OneMore, Taken

\* Induction over the subsets of a finite set, as the existence of a least
\* counterexample (the form that needs no operator as a parameter).
LEMMA LeastSubset ==
    ASSUME NEW S, IsFiniteSet(S), NEW Bad, Bad \subseteq SUBSET S, Bad # {}
    PROVE  \E T \in Bad : \A U \in SUBSET T : U # T => U \notin Bad
<1>1. IsWellFoundedOn(StrictSubsetOrdering(S), FiniteSubsetsOf(S))
  BY FS_StrictSubsetOrderingWellFounded
<1>2. FiniteSubsetsOf(S) = SUBSET S
  BY FS_FiniteSubsetsOfFinite
<1>3. PICK T \in Bad : \A U \in Bad : <<U, T>> \notin StrictSubsetOrdering(S)
  BY <1>1, <1>2, WFMin
<1> QED
  BY <1>3 DEF StrictSubsetOrdering

\* The fold takes an element of the set, and what is left is smaller.
LEMMA TakenElement ==
    ASSUME NEW s, s # {}
    PROVE  Taken(s) \in s
BY DEF Taken

\* The recursive function exists: applying OneMore n times makes it right for all
\* sets of up to n elements.
LEMMA PartialExists ==
    ASSUME NEW f, NEW S, IsFiniteSet(S), \A x \in S : f[x] \in Int
    PROVE  \E it : it = [s \in SUBSET S |-> OneMore(f, it, s)]
<1> DEFINE Right(it, n) ==
             \A s \in SUBSET S : Cardinality(s) <= n => it[s] = OneMore(f, it, s)
           Reached(T) == \E it \in [SUBSET S -> Int] : Right(it, Cardinality(T))
           Bad == {T \in SUBSET S : ~Reached(T)}
<1>0. \A s \in SUBSET S : IsFiniteSet(s) /\ Cardinality(s) \in Nat
  BY FS_Subset, FS_CardinalityType
<1>1. ASSUME NEW T \in Bad, \A U \in SUBSET T : U # T => U \notin Bad
      PROVE  FALSE
  <2>1. CASE T = {}
    <3> DEFINE it == [s \in SUBSET S |-> 0]
    <3>1. Cardinality(T) = 0
      BY <2>1, FS_EmptySet
    <3>2. \A s \in SUBSET S : Cardinality(s) <= 0 => s = {}
      BY <1>0, FS_EmptySet
    <3>3. Right(it, Cardinality(T))
      BY <3>1, <3>2 DEF OneMore
    <3>4. it \in [SUBSET S -> Int]
      OBVIOUS
    <3> HIDE DEF it, Right
    <3> QED
      BY <3>3, <3>4
  <2>2. CASE T # {}
    <3>1. PICK x \in T : TRUE
      BY <2>2
    <3>2. /\ T \ {x} \in SUBSET S /\ T \ {x} \notin Bad
          /\ Cardinality(T \ {x}) = Cardinality(T) - 1
      <4>1. T \in SUBSET S /\ T \ {x} \in SUBSET T /\ T \ {x} # T
        BY <1>1, <3>1
      <4>2. T \ {x} \notin Bad
        BY <1>1, <4>1
      <4>3. Cardinality(T \ {x}) = Cardinality(T) - 1
        BY <1>0, <3>1, <4>1, FS_RemoveElement
      <4> QED
        BY <4>1, <4>2, <4>3
    <3>3. PICK it \in [SUBSET S -> Int] : Right(it, Cardinality(T) - 1)
      BY <3>2
    <3> DEFINE next == [s \in SUBSET S |-> OneMore(f, it, s)]
    <3>4. ASSUME NEW s \in SUBSET S PROVE OneMore(f, it, s) \in Int
      <4>1. CASE s = {}
        BY <4>1 DEF OneMore
      <4>2. CASE s # {}
        <5>1. Taken(s) \in S /\ s \ {Taken(s)} \in SUBSET S
          BY <4>2, TakenElement
        <5>2. f[Taken(s)] \in Int /\ it[s \ {Taken(s)}] \in Int
          BY <5>1
        <5> QED
          BY <4>2, <5>2 DEF OneMore
      <4> QED
        BY <4>1, <4>2
    <3>5. next \in [SUBSET S -> Int]
      BY <3>4
    <3>6. ASSUME NEW s \in SUBSET S, Cardinality(s) <= Cardinality(T)
          PROVE  next[s] = OneMore(f, next, s)
      <4>1. CASE s = {}
        BY <4>1 DEF OneMore
      <4>2. CASE s # {}
        <5> DEFINE t == s \ {Taken(s)}
        <5>1. Taken(s) \in s /\ t \in SUBSET S
          BY <4>2, TakenElement
        <5>2. Cardinality(t) = Cardinality(s) - 1
          BY <1>0, <5>1, FS_RemoveElement
        <5>3. Cardinality(t) <= Cardinality(T) - 1
          BY <1>0, <3>6, <5>1, <5>2
        <5>4. it[t] = OneMore(f, it, t)
          BY <3>3, <5>1, <5>3
        <5>5. it[t] = next[t]
          BY <5>1, <5>4
        <5> HIDE DEF next
        <5>6. OneMore(f, it, s) = OneMore(f, next, s)
          BY <4>2, <5>5 DEF OneMore
        <5> QED
          BY <5>6 DEF next
      <4> QED
        BY <4>1, <4>2
    <3>7. Right(next, Cardinality(T))
      BY <3>6
    <3> HIDE DEF next, Right
    <3> QED
      BY <3>5, <3>7
  <2> QED
    BY <2>1, <2>2
<1>2. Bad = {}
  <2>1. Bad \subseteq SUBSET S
    OBVIOUS
  <2> HIDE DEF Bad
  <2>2. ASSUME Bad # {} PROVE FALSE
    <3>1. PICK B \in Bad : \A u \in SUBSET B : u # B => u \notin Bad
      BY <2>1, <2>2, LeastSubset
    <3> QED
      BY <1>1, <3>1
  <2> QED
    BY <2>2
<1>3. PICK it \in [SUBSET S -> Int] : Right(it, Cardinality(S))
  BY <1>2
<1>4. \A s \in SUBSET S : Cardinality(s) <= Cardinality(S)
  BY FS_Subset
<1>5. it = [s \in SUBSET S |-> OneMore(f, it, s)]
  BY <1>3, <1>4
<1> QED
  BY <1>5

\* Therefore the recursive function is what its definition says.
LEMMA PartialDef ==
    ASSUME NEW f, NEW S, IsFiniteSet(S), \A x \in S : f[x] \in Int
    PROVE  \A s \in SUBSET S : Partial(f, S)[s] = OneMore(f, Partial(f, S), s)
<1>1. Partial(f, S) = [s \in SUBSET S |-> OneMore(f, Partial(f, S), s)]
  BY PartialExists DEF Partial
<1> QED
  BY <1>1

\* It is the same whatever larger set it is defined over, and depends on f only
\* through the elements of the set that is summed.
LEMMA PartialAgrees ==
    ASSUME NEW S, IsFiniteSet(S), NEW V, IsFiniteSet(V),
           NEW f, \A x \in S : f[x] \in Int, NEW g, \A x \in V : g[x] \in Int,
           NEW R \in SUBSET S, R \in SUBSET V, \A x \in R : f[x] = g[x]
    PROVE  Partial(f, S)[R] = Partial(g, V)[R] /\ Partial(f, S)[R] \in Int
<1> DEFINE F == Partial(f, S)
           G == Partial(g, V)
           Bad == {s \in SUBSET R : ~(F[s] = G[s] /\ F[s] \in Int)}
<1>0. \A s \in SUBSET R : F[s] = OneMore(f, F, s) /\ G[s] = OneMore(g, G, s)
  BY PartialDef
<1>f. IsFiniteSet(R)
  BY FS_Subset
<1> HIDE DEF F, G
<1>1. ASSUME NEW s \in Bad, \A u \in SUBSET s : u # s => u \notin Bad
      PROVE  FALSE
  <2>0. /\ s \in SUBSET R /\ ~(F[s] = G[s] /\ F[s] \in Int)
        /\ F[s] = OneMore(f, F, s) /\ G[s] = OneMore(g, G, s)
    BY <1>0
  <2>1. CASE s = {}
    BY <2>0, <2>1 DEF OneMore
  <2>2. CASE s # {}
    <3>1. Taken(s) \in s /\ s \ {Taken(s)} \in SUBSET s /\ s \ {Taken(s)} # s
      BY <2>2, TakenElement
    <3>2. F[s \ {Taken(s)}] = G[s \ {Taken(s)}] /\ F[s \ {Taken(s)}] \in Int
      BY <1>1, <3>1
    <3>3. f[Taken(s)] = g[Taken(s)] /\ f[Taken(s)] \in Int
      BY <3>1
    <3>4. /\ F[s] = f[Taken(s)] + F[s \ {Taken(s)}]
          /\ G[s] = g[Taken(s)] + G[s \ {Taken(s)}]
      BY <2>0, <2>2 DEF OneMore
    <3> QED
      BY <2>0, <3>2, <3>3, <3>4
  <2> QED
    BY <2>1, <2>2
<1>2. Bad = {}
  <2>1. Bad \subseteq SUBSET R
    OBVIOUS
  <2> HIDE DEF Bad
  <2>2. ASSUME Bad # {} PROVE FALSE
    <3>1. PICK B \in Bad : \A u \in SUBSET B : u # B => u \notin Bad
      BY <2>1, <2>2, <1>f, LeastSubset
    <3> QED
      BY <1>1, <3>1
  <2> QED
    BY <2>2
<1> QED
  BY <1>2 DEF F, G

-----------------------------------------------------------------------------
(* What the other modules use.                                              *)

\* A sum of integers is an integer, the empty one is zero, and a sum depends on
\* nothing but the values it adds up.
LEMMA SumType ==
    ASSUME NEW S, IsFiniteSet(S), NEW f, \A x \in S : f[x] \in Int
    PROVE  SumFunctionOnSet(f, S) \in Int
BY SumIsPartial, PartialAgrees

LEMMA SumEmpty ==
    ASSUME NEW f
    PROVE  SumFunctionOnSet(f, {}) = 0
<1>1. Partial(f, {})[{}] = OneMore(f, Partial(f, {}), {})
  BY PartialDef, FS_EmptySet
<1> QED
  BY <1>1, SumIsPartial DEF OneMore

LEMMA SumAgrees ==
    ASSUME NEW S, IsFiniteSet(S), NEW f, \A x \in S : f[x] \in Int,
           NEW g, \A x \in S : f[x] = g[x]
    PROVE  SumFunctionOnSet(f, S) = SumFunctionOnSet(g, S)
BY SumIsPartial, PartialAgrees

\* The element the fold takes first is one of the summands.
LEMMA SumTaken ==
    ASSUME NEW S, IsFiniteSet(S), S # {}, NEW f, \A x \in S : f[x] \in Int
    PROVE  SumFunctionOnSet(f, S)
             = f[Taken(S)] + SumFunctionOnSet(f, S \ {Taken(S)})
<1> DEFINE R == S \ {Taken(S)}
<1>1. Partial(f, S)[S] = f[Taken(S)] + Partial(f, S)[R]
  BY PartialDef DEF OneMore
<1>2. IsFiniteSet(R)
  BY FS_RemoveElement
<1>3. Partial(f, S)[R] = Partial(f, R)[R]
  BY <1>2, PartialAgrees
<1> QED
  BY <1>1, <1>3, SumIsPartial

\* And so is any other: the order does not matter.
LEMMA SumRemove ==
    ASSUME NEW S, IsFiniteSet(S), NEW f, \A x \in S : f[x] \in Int, NEW x \in S
    PROVE  SumFunctionOnSet(f, S) = f[x] + SumFunctionOnSet(f, S \ {x})
<1> DEFINE Total(s) == SumFunctionOnSet(f, s)
           Bad == {s \in SUBSET S : \E y \in s : Total(s) # f[y] + Total(s \ {y})}
<1>0. \A s \in SUBSET S : IsFiniteSet(s) /\ Total(s) \in Int
  BY FS_Subset, SumType
<1>1. ASSUME NEW s \in Bad, \A u \in SUBSET s : u # s => u \notin Bad
      PROVE  FALSE
  <2>1. PICK y \in s : Total(s) # f[y] + Total(s \ {y})
    OBVIOUS
  <2> DEFINE t == Taken(s)
  <2>2. t \in s
    BY <2>1, TakenElement
  <2>3. Total(s) = f[t] + Total(s \ {t})
    BY <1>0, <2>1, SumTaken
  <2>4. y # t
    BY <2>1, <2>3
  <2>5. Total(s \ {t}) = f[y] + Total((s \ {t}) \ {y})
    <3>1. s \ {t} \in SUBSET s /\ s \ {t} # s /\ y \in s \ {t}
      BY <2>2, <2>4
    <3>2. s \ {t} \notin Bad /\ s \ {t} \in SUBSET S
      BY <1>1, <3>1
    <3> QED
      BY <3>1, <3>2
  <2>6. Total(s \ {y}) = f[t] + Total((s \ {y}) \ {t})
    <3>1. s \ {y} \in SUBSET s /\ s \ {y} # s /\ t \in s \ {y}
      BY <2>2, <2>4
    <3>2. s \ {y} \notin Bad /\ s \ {y} \in SUBSET S
      BY <1>1, <3>1
    <3> QED
      BY <3>1, <3>2
  <2>7. (s \ {t}) \ {y} = (s \ {y}) \ {t} /\ (s \ {t}) \ {y} \in SUBSET S
    OBVIOUS
  <2>8. f[t] \in Int /\ f[y] \in Int /\ Total((s \ {t}) \ {y}) \in Int
    BY <1>0, <2>2, <2>7
  <2> HIDE DEF Total, t
  <2> QED
    BY <2>1, <2>3, <2>5, <2>6, <2>7, <2>8
<1>2. Bad = {}
  <2>1. Bad \subseteq SUBSET S
    OBVIOUS
  <2> HIDE DEF Bad
  <2>2. ASSUME Bad # {} PROVE FALSE
    <3>1. PICK B \in Bad : \A u \in SUBSET B : u # B => u \notin Bad
      BY <2>1, <2>2, LeastSubset
    <3> QED
      BY <1>1, <3>1
  <2> QED
    BY <2>2
<1> QED
  BY <1>2

\* Adding an element adds its value.
LEMMA SumAdd ==
    ASSUME NEW S, IsFiniteSet(S), NEW f, NEW x, x \notin S,
           \A y \in S \cup {x} : f[y] \in Int
    PROVE  SumFunctionOnSet(f, S \cup {x}) = f[x] + SumFunctionOnSet(f, S)
<1>1. IsFiniteSet(S \cup {x}) /\ (S \cup {x}) \ {x} = S
  BY FS_AddElement
<1> QED
  BY <1>1, SumRemove

\* A sum with larger summands is larger, and so is a sum with more summands that
\* are not negative.
LEMMA SumMonotone ==
    ASSUME NEW S, IsFiniteSet(S), NEW T \in SUBSET S,
           NEW f, \A x \in T : f[x] \in Int,
           NEW g, \A x \in S : g[x] \in Int,
           \A x \in T : f[x] <= g[x], \A x \in S \ T : 0 <= g[x]
    PROVE  SumFunctionOnSet(f, T) <= SumFunctionOnSet(g, S)
<1> DEFINE Low(s)  == SumFunctionOnSet(f, s \cap T)
           High(s) == SumFunctionOnSet(g, s)
           Bad == {s \in SUBSET S : ~(Low(s) <= High(s))}
<1>0. \A s \in SUBSET S : /\ IsFiniteSet(s) /\ IsFiniteSet(s \cap T)
                          /\ Low(s) \in Int /\ High(s) \in Int
  BY FS_Subset, SumType
<1>1. ASSUME NEW s \in Bad, \A u \in SUBSET s : u # s => u \notin Bad
      PROVE  FALSE
  <2>1. CASE s = {}
    <3>1. Low(s) = 0 /\ High(s) = 0
      BY <2>1, SumEmpty
    <3> QED
      BY <3>1
  <2>2. CASE s # {}
    <3>1. PICK x \in s : TRUE
      BY <2>2
    <3> DEFINE u == s \ {x}
    <3>2. /\ u \in SUBSET S /\ x \in S
          /\ Low(u) <= High(u)
      BY <1>1, <3>1
    <3>3. High(s) = g[x] + High(u)
      BY <1>0, SumRemove
    <3>4. Low(s) <= g[x] + Low(u)
      <4>1. CASE x \in T
        <5>1. (s \cap T) \ {x} = u \cap T
          OBVIOUS
        <5>2. Low(s) = f[x] + Low(u)
          BY <1>0, <4>1, <5>1, SumRemove
        <5>3. /\ f[x] \in Int /\ g[x] \in Int /\ f[x] <= g[x]
              /\ Low(u) \in Int
          BY <1>0, <3>2, <4>1
        <5> HIDE DEF Low, u
        <5> QED
          BY <5>2, <5>3
      <4>2. CASE x \notin T
        <5>1. s \cap T = u \cap T
          BY <4>2
        <5>2. Low(s) = Low(u)
          BY <5>1
        <5> QED
          BY <1>0, <3>2, <4>2, <5>2
      <4> QED
        BY <4>1, <4>2
    <3>5. Low(u) \in Int /\ High(u) \in Int /\ g[x] \in Int /\ Low(s) \in Int /\ High(s) \in Int
      BY <1>0, <3>2
    <3> HIDE DEF Low, High, u
    <3> QED
      BY <3>2, <3>3, <3>4, <3>5
  <2> QED
    BY <2>1, <2>2
<1>2. Bad = {}
  <2>1. Bad \subseteq SUBSET S
    OBVIOUS
  <2> HIDE DEF Bad
  <2>2. ASSUME Bad # {} PROVE FALSE
    <3>1. PICK B \in Bad : \A u \in SUBSET B : u # B => u \notin Bad
      BY <2>1, <2>2, LeastSubset
    <3> QED
      BY <1>1, <3>1
  <2> QED
    BY <2>2
<1>3. S \cap T = T
  OBVIOUS
<1> QED
  BY <1>2, <1>3

\* The sum of sums of two is the sum of their two sums.
LEMMA SumPlus ==
    ASSUME NEW S, IsFiniteSet(S),
           NEW f, \A x \in S : f[x] \in Int, NEW g, \A x \in S : g[x] \in Int,
           NEW h, \A x \in S : h[x] = f[x] + g[x]
    PROVE  SumFunctionOnSet(h, S) = SumFunctionOnSet(f, S) + SumFunctionOnSet(g, S)
<1> DEFINE F(s) == SumFunctionOnSet(f, s)
           G(s) == SumFunctionOnSet(g, s)
           H(s) == SumFunctionOnSet(h, s)
           Bad == {s \in SUBSET S : H(s) # F(s) + G(s)}
<1>0. \A s \in SUBSET S : IsFiniteSet(s) /\ F(s) \in Int /\ G(s) \in Int /\ H(s) \in Int
  BY FS_Subset, SumType
<1>1. ASSUME NEW s \in Bad, \A u \in SUBSET s : u # s => u \notin Bad
      PROVE  FALSE
  <2>1. CASE s = {}
    <3>1. F(s) = 0 /\ G(s) = 0 /\ H(s) = 0
      BY <2>1, SumEmpty
    <3> QED
      BY <3>1
  <2>2. CASE s # {}
    <3>1. PICK x \in s : TRUE
      BY <2>2
    <3> DEFINE u == s \ {x}
    <3>2. u \in SUBSET S /\ x \in S /\ H(u) = F(u) + G(u)
      BY <1>1, <3>1
    <3>3. F(s) = f[x] + F(u) /\ G(s) = g[x] + G(u) /\ H(s) = h[x] + H(u)
      BY <1>0, SumRemove
    <3>4. /\ F(u) \in Int /\ G(u) \in Int /\ f[x] \in Int /\ g[x] \in Int
          /\ h[x] = f[x] + g[x]
      BY <1>0, <3>2
    <3>5. H(s) # F(s) + G(s)
      OBVIOUS
    <3> HIDE DEF F, G, H, u
    <3> QED
      BY <3>2, <3>3, <3>4, <3>5
  <2> QED
    BY <2>1, <2>2
<1>2. Bad = {}
  <2>1. Bad \subseteq SUBSET S
    OBVIOUS
  <2> HIDE DEF Bad
  <2>2. ASSUME Bad # {} PROVE FALSE
    <3>1. PICK B \in Bad : \A u \in SUBSET B : u # B => u \notin Bad
      BY <2>1, <2>2, LeastSubset
    <3> QED
      BY <1>1, <3>1
  <2> QED
    BY <2>2
<1> QED
  BY <1>2

\* A sum of rounded values is off by half a unit for each of them, here with the units
\* in hundredths.
LEMMA SumRounded ==
    ASSUME NEW S, IsFiniteSet(S),
           NEW f, \A x \in S : f[x] \in Int, NEW g, \A x \in S : g[x] \in Int,
           \A x \in S : 100 * f[x] <= g[x] + 50 /\ g[x] <= 100 * f[x] + 50
    PROVE  /\ 100 * SumFunctionOnSet(f, S) <= SumFunctionOnSet(g, S) + 50 * Cardinality(S)
           /\ SumFunctionOnSet(g, S) <= 100 * SumFunctionOnSet(f, S) + 50 * Cardinality(S)
<1> DEFINE F(s) == SumFunctionOnSet(f, s)
           G(s) == SumFunctionOnSet(g, s)
           Close(s) == /\ 100 * F(s) <= G(s) + 50 * Cardinality(s)
                       /\ G(s) <= 100 * F(s) + 50 * Cardinality(s)
           Bad == {s \in SUBSET S : ~Close(s)}
<1>0. \A s \in SUBSET S : /\ IsFiniteSet(s) /\ F(s) \in Int /\ G(s) \in Int
                          /\ Cardinality(s) \in Nat
  BY FS_Subset, FS_CardinalityType, SumType
<1>1. ASSUME NEW s \in Bad, \A u \in SUBSET s : u # s => u \notin Bad
      PROVE  FALSE
  <2>1. CASE s = {}
    <3>1. F(s) = 0 /\ G(s) = 0 /\ Cardinality(s) = 0
      BY <2>1, SumEmpty, FS_EmptySet
    <3> QED
      BY <3>1
  <2>2. CASE s # {}
    <3>1. PICK x \in s : TRUE
      BY <2>2
    <3> DEFINE u == s \ {x}
    <3>2. u \in SUBSET S /\ x \in S /\ Close(u)
      BY <1>1, <3>1
    <3>3. F(s) = f[x] + F(u) /\ G(s) = g[x] + G(u)
      BY <1>0, SumRemove
    <3>4. Cardinality(u) = Cardinality(s) - 1 /\ Cardinality(s) \in Nat
      BY <1>0, FS_RemoveElement
    <3>5. F(u) \in Int /\ G(u) \in Int /\ f[x] \in Int /\ g[x] \in Int
      BY <1>0, <3>2
    <3>6. 100 * f[x] <= g[x] + 50 /\ g[x] <= 100 * f[x] + 50
      BY <3>2
    <3>7. /\ 100 * F(u) <= G(u) + 50 * Cardinality(u)
          /\ G(u) <= 100 * F(u) + 50 * Cardinality(u)
      BY <3>2
    <3>8. ~Close(s)
      OBVIOUS
    <3> HIDE DEF F, G, u
    <3> QED
      BY <3>3, <3>4, <3>5, <3>6, <3>7, <3>8
  <2> QED
    BY <2>1, <2>2
<1>2. Bad = {}
  <2>1. Bad \subseteq SUBSET S
    OBVIOUS
  <2> HIDE DEF Bad
  <2>2. ASSUME Bad # {} PROVE FALSE
    <3>1. PICK B \in Bad : \A u \in SUBSET B : u # B => u \notin Bad
      BY <2>1, <2>2, LeastSubset
    <3> QED
      BY <1>1, <3>1
  <2> QED
    BY <2>2
<1> QED
  BY <1>2

=============================================================================
