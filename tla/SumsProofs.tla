----------------------------- MODULE SumsProofs -----------------------------
(* Facts about SumOver for every finite set.  They need induction over sets, *)
(* which is done here with a smallest counterexample: a non-empty family of  *)
(* subsets of a finite set has a member no other member is a subset of.      *)
EXTENDS Sums, FiniteSetTheorems, TLAPS

\* The element that the sum takes next.
Pick(s) == CHOOSE x \in s : TRUE

\* f gives the sum of w over each subset of S, one element at a time.
IsSum(f, w, S) ==
    f = [s \in SUBSET S |-> IF s = {} THEN 0 ELSE w[Pick(s)] + f[s \ {Pick(s)}]]

\* w gives each element of S a natural number.
Weighs(w, S) == \A x \in S : w[x] \in Nat

----------------------------------------------------------------------------

\* A non-empty family of subsets of a finite set has a smallest member.
LEMMA MinimalSet ==
  ASSUME NEW S, IsFiniteSet(S), NEW F, F \subseteq SUBSET S, F # {}
  PROVE  \E U \in F : \A V \in F : V \subseteq U => V = U
  <1>1. FiniteSubsetsOf(S) = SUBSET S
    BY FS_FiniteSubsetsOfFinite
  <1>2. IsWellFoundedOn(StrictSubsetOrdering(S), SUBSET S)
    BY <1>1, FS_StrictSubsetOrderingWellFounded
  <1>3. PICK U \in F : \A V \in F : ~ (<<V, U>> \in StrictSubsetOrdering(S))
    BY <1>2, WFMin
  <1>. QED
    BY <1>3 DEF StrictSubsetOrdering

\* Pick takes an element.
LEMMA PickPicks ==
  ASSUME NEW s, s # {}
  PROVE  Pick(s) \in s
  BY DEF Pick

\* SumOver reads the function that its definition describes.
LEMMA SumOverReads ==
  ASSUME NEW w, NEW S
  PROVE  SumOver(w, S) = (CHOOSE f : IsSum(f, w, S))[S]
  BY DEF SumOver, MapThenSumSet, MapThenFoldSet, IsSum, Pick

\* One step of the description.
LEMMA SumStep ==
  ASSUME NEW f, NEW w, NEW S, IsSum(f, w, S), NEW s \in SUBSET S
  PROVE  /\ s = {} => f[s] = 0
         /\ s # {} => f[s] = w[Pick(s)] + f[s \ {Pick(s)}]
  <1>1. f[s] = IF s = {} THEN 0 ELSE w[Pick(s)] + f[s \ {Pick(s)}]
    BY DEF IsSum
  <1>. QED
    BY <1>1

\* Two such functions agree where both are defined, and so do their weights
\* where they agree.
LEMMA SumsAgree ==
  ASSUME NEW f, NEW g, NEW w, NEW v, NEW S, NEW T, IsSum(f, w, S), IsSum(g, v, T),
         NEW U, U \subseteq S, U \subseteq T, IsFiniteSet(U), \A x \in U : w[x] = v[x]
  PROVE  f[U] = g[U]
  <1>. DEFINE Bad == {V \in SUBSET U : f[V] # g[V]}
  <1>. SUFFICES ASSUME Bad # {} PROVE FALSE
    BY U \in SUBSET U
  <1>1. PICK V \in Bad : \A W \in Bad : W \subseteq V => W = V
    <2>1. Bad \subseteq SUBSET U
      OBVIOUS
    <2>. HIDE DEF Bad
    <2>. QED
      BY <2>1, MinimalSet
  <1>2. V \subseteq U /\ V \in SUBSET S /\ V \in SUBSET T /\ f[V] # g[V]
    BY <1>1
  <1>3. V # {}
    <2>1. V = {} => f[V] = 0 /\ g[V] = 0
      BY <1>2, SumStep
    <2>. QED
      BY <1>2, <2>1
  <1>4. PICK x : x = Pick(V)
    OBVIOUS
  <1>5. x \in V
    BY <1>3, <1>4, PickPicks
  <1>6. f[V] = w[x] + f[V \ {x}] /\ g[V] = v[x] + g[V \ {x}]
    <2>. HIDE DEF Bad
    <2>1. f[V] = w[Pick(V)] + f[V \ {Pick(V)}]
      BY <1>2, <1>3, SumStep
    <2>2. g[V] = v[Pick(V)] + g[V \ {Pick(V)}]
      BY <1>2, <1>3, SumStep
    <2>. QED
      BY <1>4, <2>1, <2>2
  <1>7. f[V \ {x}] = g[V \ {x}]
    <2>1. V \ {x} # V /\ V \ {x} \subseteq V /\ V \ {x} \in SUBSET U
      BY <1>2, <1>5
    <2>2. V \ {x} \notin Bad
      BY <1>1, <2>1
    <2>. QED
      BY <2>1, <2>2
  <1>8. w[x] = v[x]
    BY <1>2, <1>5
  <1>. QED
    BY <1>2, <1>6, <1>7, <1>8

\* There is such a function: the description is not empty.
LEMMA SumExists ==
  ASSUME NEW w, NEW S, IsFiniteSet(S)
  PROVE  \E f : IsSum(f, w, S)
  <1>. DEFINE Bad == {U \in SUBSET S : ~ \E f : IsSum(f, w, U)}
  <1>. SUFFICES ASSUME Bad # {} PROVE FALSE
    BY S \in SUBSET S
  <1>1. PICK U \in Bad : \A V \in Bad : V \subseteq U => V = U
    <2>1. Bad \subseteq SUBSET S
      OBVIOUS
    <2>. HIDE DEF Bad
    <2>. QED
      BY <2>1, MinimalSet
  <1>. DEFINE F(V) == CHOOSE f : IsSum(f, w, V)
  <1>2. \A V \in SUBSET U : V # U => IsSum(F(V), w, V)
    <2>. SUFFICES ASSUME NEW V \in SUBSET U, V # U PROVE IsSum(F(V), w, V)
      OBVIOUS
    <2>1. V \notin Bad /\ V \in SUBSET S
      BY <1>1
    <2>2. \E f : IsSum(f, w, V)
      BY <2>1
    <2>. QED
      BY <2>2
  <1>. DEFINE Body(V, G) == IF V = {} THEN 0 ELSE w[Pick(V)] + G
              h == [V \in SUBSET U |-> F(V)[V]]
              g == [V \in SUBSET U |-> IF V = U THEN Body(U, h[U \ {Pick(U)}]) ELSE h[V]]
  <1>. HIDE DEF F
  <1>3. ASSUME NEW V \in SUBSET U, V # U
        PROVE  h[V] = Body(V, h[V \ {Pick(V)}])
    <2>1. IsSum(F(V), w, V) /\ V \in SUBSET V
      BY <1>2, <1>3
    <2>2. CASE V = {}
      BY <2>1, <2>2, SumStep
    <2>3. CASE V # {}
      <3>1. PICK x : x = Pick(V)
        OBVIOUS
      <3>2. x \in V
        BY <2>3, <3>1, PickPicks
      <3>3. F(V)[V] = w[x] + F(V)[V \ {x}]
        BY <2>1, <2>3, <3>1, SumStep
      <3>4. V \ {x} \in SUBSET U /\ V \ {x} # U /\ V \ {x} \subseteq V
        BY <1>3
      <3>5. IsSum(F(V \ {x}), w, V \ {x})
        BY <1>2, <3>4
      <3>6. IsFiniteSet(V \ {x})
        <4>1. V \ {x} \in SUBSET S
          BY <1>1, <3>4
        <4>. QED
          BY <4>1, FS_Subset
      <3>7. F(V)[V \ {x}] = F(V \ {x})[V \ {x}]
        BY <2>1, <3>4, <3>5, <3>6, SumsAgree
      <3>8. h[V] = F(V)[V] /\ h[V \ {x}] = F(V \ {x})[V \ {x}]
        BY <3>4
      <3>. QED
        BY <2>3, <3>1, <3>3, <3>7, <3>8
    <2>. QED
      BY <2>2, <2>3
  <1>. HIDE DEF h
  <1>4. ASSUME NEW V \in SUBSET U
        PROVE  g[V] = Body(V, g[V \ {Pick(V)}])
    <2>1. V \ {Pick(V)} \in SUBSET U /\ (V # {} => V \ {Pick(V)} # U)
      BY PickPicks
    <2>2. V # {} => g[V \ {Pick(V)}] = h[V \ {Pick(V)}]
      BY <2>1
    <2>3. g[V] = Body(V, h[V \ {Pick(V)}])
      BY <1>3
    <2>. QED
      BY <2>2, <2>3
  <1>5. g = [V \in SUBSET U |-> Body(V, g[V \ {Pick(V)}])]
    <2>. HIDE DEF Body
    <2>. QED
      BY <1>4
  <1>6. IsSum(g, w, U)
    <2>. HIDE DEF g
    <2>. QED
      BY <1>5 DEF IsSum
  <1>. QED
    BY <1>1, <1>6

\* So SumOver is the sum that its definition describes.
LEMMA SumOverIsSum ==
  ASSUME NEW w, NEW S, IsFiniteSet(S)
  PROVE  \E f : IsSum(f, w, S) /\ SumOver(w, S) = f[S]
  <1>1. IsSum(CHOOSE f : IsSum(f, w, S), w, S)
    BY SumExists
  <1>. QED
    BY <1>1, SumOverReads

\* The sum depends on the weights of its elements only.
LEMMA SumSameWeights ==
  ASSUME NEW w, NEW v, NEW S, IsFiniteSet(S), \A x \in S : w[x] = v[x]
  PROVE  SumOver(w, S) = SumOver(v, S)
  <1>1. PICK f : IsSum(f, w, S) /\ SumOver(w, S) = f[S]
    BY SumOverIsSum
  <1>2. PICK g : IsSum(g, v, S) /\ SumOver(v, S) = g[S]
    BY SumOverIsSum
  <1>. QED
    BY <1>1, <1>2, SumsAgree

\* The empty sum.
LEMMA SumEmpty ==
  ASSUME NEW w
  PROVE  SumOver(w, {}) = 0
  <1>1. PICK f : IsSum(f, w, {}) /\ SumOver(w, {}) = f[{}]
    BY SumOverIsSum, FS_EmptySet
  <1>. QED
    BY <1>1, SumStep

\* The sum takes Pick(S) first.
LEMMA SumPick ==
  ASSUME NEW w, NEW S, IsFiniteSet(S), S # {}
  PROVE  /\ Pick(S) \in S /\ IsFiniteSet(S \ {Pick(S)})
         /\ SumOver(w, S) = w[Pick(S)] + SumOver(w, S \ {Pick(S)})
  <1>1. PICK x : x = Pick(S)
    OBVIOUS
  <1>2. x \in S /\ IsFiniteSet(S \ {x})
    BY <1>1, PickPicks, FS_RemoveElement
  <1>3. PICK f : IsSum(f, w, S) /\ SumOver(w, S) = f[S]
    BY SumOverIsSum
  <1>4. PICK g : IsSum(g, w, S \ {x}) /\ SumOver(w, S \ {x}) = g[S \ {x}]
    BY <1>2, SumOverIsSum
  <1>5. f[S] = w[x] + f[S \ {x}]
    <2>1. f[S] = w[Pick(S)] + f[S \ {Pick(S)}]
      BY <1>3, S \in SUBSET S, SumStep
    <2>. QED
      BY <1>1, <2>1
  <1>6. f[S \ {x}] = g[S \ {x}]
    BY <1>2, <1>3, <1>4, SumsAgree
  <1>. QED
    BY <1>1, <1>2, <1>3, <1>4, <1>5, <1>6

\* A sum of natural numbers is one.
LEMMA SumNat ==
  ASSUME NEW w, NEW S, IsFiniteSet(S), Weighs(w, S)
  PROVE  SumOver(w, S) \in Nat
  <1>. DEFINE Bad == {U \in SUBSET S : SumOver(w, U) \notin Nat}
  <1>. SUFFICES ASSUME Bad # {} PROVE FALSE
    BY S \in SUBSET S
  <1>1. PICK U \in Bad : \A V \in Bad : V \subseteq U => V = U
    <2>1. Bad \subseteq SUBSET S
      OBVIOUS
    <2>. HIDE DEF Bad
    <2>. QED
      BY <2>1, MinimalSet
  <1>2. U # {}
    <2>1. SumOver(w, {}) \in Nat
      BY SumEmpty
    <2>. QED
      BY <1>1, <2>1
  <1>3. IsFiniteSet(U)
    BY <1>1, FS_Subset
  <1>4. PICK x : x = Pick(U)
    OBVIOUS
  <1>5. x \in U /\ SumOver(w, U) = w[x] + SumOver(w, U \ {x})
    BY <1>2, <1>3, <1>4, SumPick
  <1>6. SumOver(w, U \ {x}) \in Nat
    <2>1. U \ {x} \in SUBSET S /\ U \ {x} # U /\ U \ {x} \subseteq U
      BY <1>1, <1>5
    <2>2. U \ {x} \notin Bad
      BY <1>1, <2>1
    <2>. QED
      BY <2>1, <2>2
  <1>7. w[x] \in Nat
    BY <1>1, <1>5 DEF Weighs
  <1>. QED
    BY <1>1, <1>5, <1>6, <1>7

\* Any element can be taken first.
LEMMA SumRemove ==
  ASSUME NEW w, NEW S, IsFiniteSet(S), Weighs(w, S), NEW x \in S
  PROVE  SumOver(w, S) = w[x] + SumOver(w, S \ {x})
  <1>. DEFINE Bad == {U \in SUBSET S : \E y \in U : SumOver(w, U) # w[y] + SumOver(w, U \ {y})}
  <1>. SUFFICES ASSUME Bad # {} PROVE FALSE
    BY S \in SUBSET S
  <1>1. PICK U \in Bad : \A V \in Bad : V \subseteq U => V = U
    <2>1. Bad \subseteq SUBSET S
      OBVIOUS
    <2>. HIDE DEF Bad
    <2>. QED
      BY <2>1, MinimalSet
  <1>2. PICK y \in U : SumOver(w, U) # w[y] + SumOver(w, U \ {y})
    BY <1>1
  <1>3. U \in SUBSET S /\ IsFiniteSet(U) /\ U # {}
    BY <1>1, <1>2, FS_Subset
  <1>4. PICK z : z = Pick(U)
    OBVIOUS
  <1>5. z \in U /\ SumOver(w, U) = w[z] + SumOver(w, U \ {z})
    BY <1>3, <1>4, SumPick
  <1>6. y # z
    BY <1>2, <1>5
  <1>. DEFINE Rest == U \ {y, z}
  <1>7. Rest = (U \ {y}) \ {z} /\ Rest = (U \ {z}) \ {y}
    OBVIOUS
  <1>8. SumOver(w, U \ {z}) = w[y] + SumOver(w, Rest)
    <2>1. U \ {z} \in SUBSET S /\ U \ {z} # U /\ U \ {z} \subseteq U /\ y \in U \ {z}
      BY <1>3, <1>5, <1>6
    <2>2. U \ {z} \notin Bad
      BY <1>1, <2>1
    <2>3. SumOver(w, U \ {z}) = w[y] + SumOver(w, (U \ {z}) \ {y})
      BY <2>1, <2>2
    <2>. QED
      BY <1>7, <2>3
  <1>9. SumOver(w, U \ {y}) = w[z] + SumOver(w, Rest)
    <2>1. U \ {y} \in SUBSET S /\ U \ {y} # U /\ U \ {y} \subseteq U /\ z \in U \ {y}
      BY <1>3, <1>5, <1>6
    <2>2. U \ {y} \notin Bad
      BY <1>1, <2>1
    <2>3. SumOver(w, U \ {y}) = w[z] + SumOver(w, (U \ {y}) \ {z})
      BY <2>1, <2>2
    <2>. QED
      BY <1>7, <2>3
  <1>10. w[y] \in Nat /\ w[z] \in Nat /\ SumOver(w, Rest) \in Nat
    <2>1. Rest \in SUBSET S
      BY <1>3
    <2>2. IsFiniteSet(Rest) /\ Weighs(w, Rest)
      BY <2>1, FS_Subset DEF Weighs
    <2>3. SumOver(w, Rest) \in Nat
      BY <2>2, SumNat
    <2>. QED
      BY <1>2, <1>3, <1>5, <2>3 DEF Weighs
  <1>. HIDE DEF Rest
  <1>. QED
    BY <1>2, <1>5, <1>8, <1>9, <1>10

\* A row that is added to the sum.
LEMMA SumAdd ==
  ASSUME NEW w, NEW S, IsFiniteSet(S), NEW x, x \notin S, Weighs(w, S \union {x})
  PROVE  SumOver(w, S \union {x}) = SumOver(w, S) + w[x]
  <1>1. IsFiniteSet(S \union {x}) /\ (S \union {x}) \ {x} = S
    BY FS_AddElement
  <1>2. SumOver(w, S \union {x}) = w[x] + SumOver(w, S)
    BY <1>1, SumRemove
  <1>3. w[x] \in Nat /\ SumOver(w, S) \in Nat
    BY SumNat DEF Weighs
  <1>. QED
    BY <1>2, <1>3

\* Fewer rows do not sum up to more.
LEMMA SumMonotonic ==
  ASSUME NEW w, NEW S, IsFiniteSet(S), Weighs(w, S), NEW T, T \subseteq S
  PROVE  SumOver(w, T) <= SumOver(w, S)
  <1>. DEFINE Bad == {U \in SUBSET S : T \subseteq U /\ ~(SumOver(w, T) <= SumOver(w, U))}
  <1>. SUFFICES ASSUME Bad # {} PROVE FALSE
    BY S \in SUBSET S
  <1>1. PICK U \in Bad : \A V \in Bad : V \subseteq U => V = U
    <2>1. Bad \subseteq SUBSET S
      OBVIOUS
    <2>. HIDE DEF Bad
    <2>. QED
      BY <2>1, MinimalSet
  <1>2. U \in SUBSET S /\ IsFiniteSet(U) /\ Weighs(w, U) /\ T \subseteq U
    BY <1>1, FS_Subset DEF Weighs
  <1>3. IsFiniteSet(T) /\ Weighs(w, T)
    BY <1>2, FS_Subset DEF Weighs
  <1>4. SumOver(w, T) \in Nat /\ SumOver(w, U) \in Nat
    BY <1>2, <1>3, SumNat
  <1>5. T # U
    BY <1>1, <1>4
  <1>6. PICK x \in U : x \notin T
    BY <1>2, <1>5
  <1>7. SumOver(w, U) = w[x] + SumOver(w, U \ {x})
    BY <1>2, SumRemove
  <1>8. U \ {x} \in SUBSET S /\ U \ {x} # U /\ U \ {x} \subseteq U /\ T \subseteq U \ {x}
    BY <1>2, <1>6
  <1>9. SumOver(w, T) <= SumOver(w, U \ {x})
    <2>1. U \ {x} \notin Bad
      BY <1>1, <1>8
    <2>. QED
      BY <1>8, <2>1
  <1>10. w[x] \in Nat /\ SumOver(w, U \ {x}) \in Nat
    <2>1. IsFiniteSet(U \ {x}) /\ Weighs(w, U \ {x})
      BY <1>2, <1>8, FS_Subset DEF Weighs
    <2>. QED
      BY <1>2, <2>1, SumNat DEF Weighs
  <1>11. ~(SumOver(w, T) <= SumOver(w, U))
    BY <1>1
  <1>. QED
    BY <1>4, <1>7, <1>9, <1>10, <1>11
=============================================================================
