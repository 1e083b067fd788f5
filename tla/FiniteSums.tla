------------------------------ MODULE FiniteSums ------------------------------
(***************************************************************************)
(* What SumFunctionOnSet adds up to.  It is a recursive function that      *)
(* removes the CHOOSE'n element of a set again and again; the lemmas here  *)
(* show that the order of the elements does not matter.  Induction is over *)
(* the subsets of a finite set, as a statement about the set of subsets    *)
(* for which a fact holds.                                                 *)
(***************************************************************************)
EXTENDS Integers, FiniteSets, Functions, FiniteSetTheorems, TLAPS

\* A family of subsets of a finite set that contains a set whenever it contains all the
\* smaller ones contains them all.
LEMMA SubsetInduction ==
  ASSUME NEW S, IsFiniteSet(S), NEW P,
         ASSUME NEW T \in SUBSET S, \A U \in SUBSET T : U # T => U \in P
         PROVE  T \in P
  PROVE  \A T \in SUBSET S : T \in P
  <1> DEFINE R == StrictSubsetOrdering(S)
             Bad == (SUBSET S) \ P
  <1> SUFFICES ASSUME Bad # {} PROVE FALSE
    OBVIOUS
  <1>1. IsWellFoundedOn(R, SUBSET S)
    <2>1. IsWellFoundedOn(R, FiniteSubsetsOf(S))
      BY FS_StrictSubsetOrderingWellFounded
    <2>2. FiniteSubsetsOf(S) = SUBSET S
      BY FS_FiniteSubsetsOfFinite
    <2> QED BY <2>1, <2>2
  <1>2. PICK T \in Bad : \A U \in Bad : <<U, T>> \notin R
    <2>1. Bad \subseteq SUBSET S
      OBVIOUS
    <2> HIDE DEF R, Bad
    <2> QED BY <1>1, <2>1, WFMin
  <1>3. ASSUME NEW U \in SUBSET T, U # T
        PROVE  U \in P
    <2>1. U \in SUBSET S /\ T \in SUBSET S
      BY <1>2
    <2>2. <<U, T>> \in R
      BY <1>3, <2>1 DEF StrictSubsetOrdering
    <2> QED BY <1>2, <2>1, <2>2
  <1> QED BY <1>2, <1>3

\* The element that the sum over a set starts with.
First(s) == CHOOSE x \in s : TRUE

\* The recursion of MapThenFoldSet, for addition.
Adds(g, f, T) ==
    g = [s \in SUBSET T |-> IF s = {} THEN 0 ELSE f[First(s)] + g[s \ {First(s)}]]

\* The sum is a function that satisfies that recursion, at the whole set.
LEMMA SumIsChosen ==
  ASSUME NEW f, NEW T
  PROVE  SumFunctionOnSet(f, T) = (CHOOSE g : Adds(g, f, T))[T]
  BY DEF SumFunctionOnSet, FoldFunctionOnSet, MapThenFoldSet, Adds, First

\* The recursion determines the value at every set both functions cover.
LEMMA AddsUnique ==
  ASSUME NEW f, NEW S, IsFiniteSet(S), NEW U \in SUBSET S, NEW V \in SUBSET S,
         NEW g, NEW h, Adds(g, f, U), Adds(h, f, V)
  PROVE  \A s \in (SUBSET U) \cap (SUBSET V) : g[s] = h[s]
  <1> DEFINE Same == {s \in SUBSET S : s \subseteq U /\ s \subseteq V => g[s] = h[s]}
  <1>1. ASSUME NEW T \in SUBSET S, \A W \in SUBSET T : W # T => W \in Same
        PROVE  T \in Same
    <2> SUFFICES ASSUME T \subseteq U, T \subseteq V
                 PROVE  g[T] = h[T]
      OBVIOUS
    <2>1. CASE T = {}
      BY <2>1 DEF Adds
    <2>2. CASE T # {}
      <3>1. First(T) \in T
        BY <2>2 DEF First
      <3>2. T \ {First(T)} \in Same
        <4> HIDE DEF Same
        <4> QED BY <1>1, <3>1
      <3>3. g[T \ {First(T)}] = h[T \ {First(T)}]
        BY <3>2
      <3>4. /\ g[T] = f[First(T)] + g[T \ {First(T)}]
            /\ h[T] = f[First(T)] + h[T \ {First(T)}]
        BY <2>2 DEF Adds
      <3> QED BY <3>3, <3>4
    <2> QED BY <2>1, <2>2
  <1>2. \A T \in SUBSET S : T \in Same
    <2> HIDE DEF Same
    <2> QED BY <1>1, SubsetInduction
  <1> QED BY <1>2

\* There is such a function for every finite set.
LEMMA AddsExists ==
  ASSUME NEW f, NEW S, IsFiniteSet(S)
  PROVE  \A T \in SUBSET S : \E g : Adds(g, f, T)
  <1> DEFINE Defined == {T \in SUBSET S : \E g : Adds(g, f, T)}
             G(T) == CHOOSE g : Adds(g, f, T)
  <1>1. ASSUME NEW T \in SUBSET S, \A U \in SUBSET T : U # T => U \in Defined
        PROVE  T \in Defined
    <2> DEFINE rest(s) == s \ {First(s)}
               h == [s \in SUBSET T |->
                       IF s = {} THEN 0 ELSE f[First(s)] + G(rest(s))[rest(s)]]
    <2>1. ASSUME NEW U \in SUBSET T, U # T
          PROVE  Adds(G(U), f, U)
      <3>1. U \in Defined
        BY <1>1, <2>1
      <3> QED BY <3>1
    <2>2. ASSUME NEW s \in SUBSET T, s # {}
          PROVE  /\ First(s) \in s
                 /\ rest(s) \in SUBSET T /\ rest(s) # T
      BY <2>2 DEF First
    <2>3. ASSUME NEW U \in SUBSET T, U # T
          PROVE  h[U] = G(U)[U]
      <3>1. CASE U = {}
        <4>1. G(U)[U] = 0
          <5> HIDE DEF G
          <5> QED BY <2>1, <2>3, <3>1 DEF Adds
        <4> QED BY <4>1, <3>1
      <3>2. CASE U # {}
        <4>1. rest(U) \in SUBSET T /\ rest(U) # T /\ rest(U) \in SUBSET U
          BY <2>2, <3>2
        <4>2. Adds(G(U), f, U) /\ Adds(G(rest(U)), f, rest(U))
          <5> HIDE DEF G, rest
          <5> QED BY <2>1, <2>3, <4>1
        <4>3. G(U)[rest(U)] = G(rest(U))[rest(U)]
          <5> HIDE DEF G, rest
          <5> QED BY <4>1, <4>2, AddsUnique
        <4>4. G(U)[U] = f[First(U)] + G(U)[rest(U)]
          <5> HIDE DEF G
          <5> QED BY <4>2, <3>2 DEF Adds
        <4>5. h[U] = f[First(U)] + G(rest(U))[rest(U)]
          <5> HIDE DEF G, rest
          <5> QED BY <3>2
        <4> QED
          <5> HIDE DEF G, rest, h
          <5> QED BY <4>3, <4>4, <4>5
      <3> QED BY <3>1, <3>2
    <2>4. ASSUME NEW s \in SUBSET T, s # {}
          PROVE  G(rest(s))[rest(s)] = h[rest(s)]
      <3> HIDE DEF G, rest, h
      <3> QED BY <2>2, <2>3, <2>4
    <2>5. Adds(h, f, T)
      <3>1. h = [s \in SUBSET T |->
                   IF s = {} THEN 0 ELSE f[First(s)] + G(rest(s))[rest(s)]]
        OBVIOUS
      <3>2. h = [s \in SUBSET T |-> IF s = {} THEN 0 ELSE f[First(s)] + h[rest(s)]]
        <4> HIDE DEF G, rest, h
        <4> QED BY <2>4, <3>1
      <3> QED
        <4> HIDE DEF G, h
        <4> QED BY <3>2 DEF Adds
    <2> HIDE DEF h
    <2> QED BY <2>5
  <1>2. \A T \in SUBSET S : T \in Defined
    <2> HIDE DEF Defined
    <2> QED BY <1>1, SubsetInduction
  <1> QED BY <1>2

\* The recursion, for the sum itself.
LEMMA SumUnfolds ==
  ASSUME NEW f, NEW S, IsFiniteSet(S), NEW T \in SUBSET S
  PROVE  SumFunctionOnSet(f, T) =
            IF T = {} THEN 0
            ELSE f[First(T)] + SumFunctionOnSet(f, T \ {First(T)})
  <1> DEFINE G(U) == CHOOSE g : Adds(g, f, U)
  <1>1. \A U \in SUBSET S : Adds(G(U), f, U)
    BY AddsExists
  <1>2. \A U \in SUBSET S : SumFunctionOnSet(f, U) = G(U)[U]
    BY SumIsChosen
  <1> HIDE DEF G
  <1>3. CASE T = {}
    BY <1>1, <1>2, <1>3 DEF Adds
  <1>4. CASE T # {}
    <2>1. T \ {First(T)} \in SUBSET T /\ T \ {First(T)} \in SUBSET S
      OBVIOUS
    <2>2. G(T)[T] = f[First(T)] + G(T)[T \ {First(T)}]
      BY <1>1, <1>4 DEF Adds
    <2>3. G(T)[T \ {First(T)}] = G(T \ {First(T)})[T \ {First(T)}]
      BY <1>1, <2>1, AddsUnique
    <2> QED BY <1>2, <1>4, <2>1, <2>2, <2>3
  <1> QED BY <1>3, <1>4

--------------------------------------------------------------------------------
(* What follows for sums of naturals. *)

\* A sum of naturals is a natural.
LEMMA SumType ==
  ASSUME NEW S, IsFiniteSet(S), NEW f \in [S -> Nat], NEW T \in SUBSET S
  PROVE  SumFunctionOnSet(f, T) \in Nat
  <1> DEFINE Sums == {U \in SUBSET S : SumFunctionOnSet(f, U) \in Nat}
  <1>1. ASSUME NEW U \in SUBSET S, \A W \in SUBSET U : W # U => W \in Sums
        PROVE  U \in Sums
    <2>1. CASE U = {}
      BY <2>1, SumUnfolds
    <2>2. CASE U # {}
      <3>1. First(U) \in U /\ f[First(U)] \in Nat
        BY <2>2 DEF First
      <3>2. U \ {First(U)} \in Sums
        <4> HIDE DEF Sums
        <4> QED BY <1>1, <3>1
      <3>3. SumFunctionOnSet(f, U) = f[First(U)] + SumFunctionOnSet(f, U \ {First(U)})
        BY <2>2, SumUnfolds
      <3> QED BY <3>1, <3>2, <3>3
    <2> QED BY <2>1, <2>2
  <1>2. \A U \in SUBSET S : U \in Sums
    <2> HIDE DEF Sums
    <2> QED BY <1>1, SubsetInduction
  <1> QED BY <1>2

\* Only the values on the set count: the functions may differ, or end, elsewhere.
LEMMA SumAgrees ==
  ASSUME NEW S, IsFiniteSet(S), NEW f, NEW h, \A x \in S : f[x] = h[x]
  PROVE  SumFunctionOnSet(f, S) = SumFunctionOnSet(h, S)
  <1> DEFINE Same == {U \in SUBSET S : SumFunctionOnSet(f, U) = SumFunctionOnSet(h, U)}
  <1>1. ASSUME NEW U \in SUBSET S, \A W \in SUBSET U : W # U => W \in Same
        PROVE  U \in Same
    <2>1. CASE U = {}
      BY <2>1, SumUnfolds
    <2>2. CASE U # {}
      <3>1. First(U) \in U /\ f[First(U)] = h[First(U)]
        BY <2>2 DEF First
      <3>2. U \ {First(U)} \in Same
        <4> HIDE DEF Same
        <4> QED BY <1>1, <3>1
      <3>3. /\ SumFunctionOnSet(f, U) = f[First(U)] + SumFunctionOnSet(f, U \ {First(U)})
            /\ SumFunctionOnSet(h, U) = h[First(U)] + SumFunctionOnSet(h, U \ {First(U)})
        BY <2>2, SumUnfolds
      <3> QED BY <3>1, <3>2, <3>3
    <2> QED BY <2>1, <2>2
  <1>2. S \in Same
    <2> HIDE DEF Same
    <2> QED BY <1>1, SubsetInduction
  <1> QED BY <1>2

\* Any element may be added first.
LEMMA SumRemoves ==
  ASSUME NEW S, IsFiniteSet(S), NEW f \in [S -> Nat], NEW T \in SUBSET S, NEW x \in T
  PROVE  SumFunctionOnSet(f, T) = f[x] + SumFunctionOnSet(f, T \ {x})
  <1> DEFINE Total(U) == SumFunctionOnSet(f, U)
             Any == {U \in SUBSET S : \A y \in U : Total(U) = f[y] + Total(U \ {y})}
  <1>1. ASSUME NEW U \in SUBSET S, \A W \in SUBSET U : W # U => W \in Any
        PROVE  U \in Any
    <2> SUFFICES ASSUME NEW y \in U PROVE Total(U) = f[y] + Total(U \ {y})
      OBVIOUS
    <2> DEFINE c == First(U)
    <2>1. c \in U /\ Total(U) = f[c] + Total(U \ {c})
      BY SumUnfolds DEF First
    <2>2. CASE y = c
      BY <2>1, <2>2
    <2>3. CASE y # c
      <3> HIDE DEF c
      <3>1. U \ {c} \in Any /\ U \ {y} \in Any
        <4> HIDE DEF Any
        <4> QED BY <1>1, <2>1
      <3>2. y \in U \ {c} /\ c \in U \ {y}
        BY <2>1, <2>3
      <3>3. /\ Total(U \ {c}) = f[y] + Total((U \ {c}) \ {y})
            /\ Total(U \ {y}) = f[c] + Total((U \ {y}) \ {c})
        <4> HIDE DEF Total
        <4> QED BY <3>1, <3>2
      <3>4. (U \ {c}) \ {y} = (U \ {y}) \ {c}
        OBVIOUS
      <3>5. Total((U \ {c}) \ {y}) \in Nat /\ f[c] \in Nat /\ f[y] \in Nat
        BY <2>1, SumType
      <3>6. Total((U \ {y}) \ {c}) = Total((U \ {c}) \ {y})
        BY <3>4
      <3> QED
        <4> HIDE DEF Total
        <4>1. Total(U) = f[c] + (f[y] + Total((U \ {c}) \ {y}))
          BY <2>1, <3>3
        <4>2. Total(U \ {y}) = f[c] + Total((U \ {c}) \ {y})
          BY <3>3, <3>6
        <4> QED BY <3>5, <4>1, <4>2
    <2> QED BY <2>2, <2>3
  <1>2. \A U \in SUBSET S : U \in Any
    <2> HIDE DEF Any
    <2> QED BY <1>1, SubsetInduction
  <1> QED BY <1>2

\* Adding an element to a set adds its value to the sum.
LEMMA SumAdds ==
  ASSUME NEW S, IsFiniteSet(S), NEW f \in [S -> Nat], NEW T \in SUBSET S, NEW x \in S \ T
  PROVE  SumFunctionOnSet(f, T \cup {x}) = f[x] + SumFunctionOnSet(f, T)
  <1>1. (T \cup {x}) \ {x} = T /\ T \cup {x} \in SUBSET S
    OBVIOUS
  <1> QED BY <1>1, SumRemoves

\* A sum over nothing is 0.
LEMMA SumEmpty ==
  ASSUME NEW f
  PROVE  SumFunctionOnSet(f, {}) = 0
  BY SumUnfolds, FS_EmptySet

\* Greater values on a greater set have a greater sum.
LEMMA SumMonotone ==
  ASSUME NEW S, IsFiniteSet(S), NEW f \in [S -> Nat], NEW h \in [S -> Nat],
         NEW T \in SUBSET S, NEW V \in SUBSET S, T \subseteq V,
         \A x \in T : f[x] <= h[x]
  PROVE  SumFunctionOnSet(f, T) <= SumFunctionOnSet(h, V)
  <1> DEFINE Below == {U \in SUBSET S : U \subseteq V =>
                          SumFunctionOnSet(f, U \cap T) <= SumFunctionOnSet(h, U)}
  <1>1. ASSUME NEW U \in SUBSET S, \A W \in SUBSET U : W # U => W \in Below
        PROVE  U \in Below
    <2> SUFFICES ASSUME U \subseteq V
                 PROVE  SumFunctionOnSet(f, U \cap T) <= SumFunctionOnSet(h, U)
      OBVIOUS
    <2>1. CASE U = {}
      <3>1. U \cap T = {}
        BY <2>1
      <3> QED BY <2>1, <3>1, SumEmpty
    <2>2. CASE U # {}
      <3>1. PICK x \in U : TRUE
        BY <2>2
      <3>2. U \ {x} \in Below
        <4> HIDE DEF Below
        <4> QED BY <1>1, <3>1
      <3>3. SumFunctionOnSet(f, (U \ {x}) \cap T) <= SumFunctionOnSet(h, U \ {x})
        BY <3>2
      <3>4. SumFunctionOnSet(h, U) = h[x] + SumFunctionOnSet(h, U \ {x})
        BY SumRemoves
      <3>5. /\ SumFunctionOnSet(h, U \ {x}) \in Nat
            /\ SumFunctionOnSet(f, (U \ {x}) \cap T) \in Nat
            /\ f[x] \in Nat /\ h[x] \in Nat
        BY SumType
      <3>6. CASE x \in T
        <4>1. /\ U \cap T \in SUBSET S /\ x \in U \cap T
              /\ (U \cap T) \ {x} = (U \ {x}) \cap T
          BY <3>6
        <4>2. SumFunctionOnSet(f, U \cap T) = f[x] + SumFunctionOnSet(f, (U \ {x}) \cap T)
          BY <4>1, SumRemoves
        <4> QED BY <3>3, <3>4, <3>5, <3>6, <4>2
      <3>7. CASE x \notin T
        <4>1. U \cap T = (U \ {x}) \cap T
          BY <3>7
        <4> QED BY <3>3, <3>4, <3>5, <4>1
      <3> QED BY <3>6, <3>7
    <2> QED BY <2>1, <2>2
  <1>2. V \in Below
    <2> HIDE DEF Below
    <2>1. \A U \in SUBSET S : U \in Below
      BY <1>1, SubsetInduction
    <2> QED BY <2>1
  <1>3. V \cap T = T
    OBVIOUS
  <1> QED BY <1>2, <1>3

\* Equal values have equal sums.
LEMMA SumSame ==
  ASSUME NEW S, IsFiniteSet(S), NEW f \in [S -> Nat], NEW h \in [S -> Nat],
         NEW T \in SUBSET S, \A x \in T : f[x] = h[x]
  PROVE  SumFunctionOnSet(f, T) = SumFunctionOnSet(h, T)
  <1>1. \A x \in T : f[x] \in Nat /\ f[x] <= h[x] /\ h[x] <= f[x]
    OBVIOUS
  <1>2. SumFunctionOnSet(f, T) <= SumFunctionOnSet(h, T)
    BY <1>1, SumMonotone
  <1>3. SumFunctionOnSet(h, T) <= SumFunctionOnSet(f, T)
    BY <1>1, SumMonotone
  <1>4. SumFunctionOnSet(f, T) \in Nat /\ SumFunctionOnSet(h, T) \in Nat
    BY SumType
  <1> QED BY <1>2, <1>3, <1>4

\* The sum over two disjoint sets is the sum of their sums.
LEMMA SumSplits ==
  ASSUME NEW S, IsFiniteSet(S), NEW f \in [S -> Nat],
         NEW T \in SUBSET S, NEW V \in SUBSET S, T \cap V = {}
  PROVE  SumFunctionOnSet(f, T \cup V) = SumFunctionOnSet(f, T) + SumFunctionOnSet(f, V)
  <1> DEFINE Splits == {U \in SUBSET S : U \subseteq V =>
                 SumFunctionOnSet(f, T \cup U) =
                    SumFunctionOnSet(f, T) + SumFunctionOnSet(f, U)}
  <1>1. ASSUME NEW U \in SUBSET S, \A W \in SUBSET U : W # U => W \in Splits
        PROVE  U \in Splits
    <2> SUFFICES ASSUME U \subseteq V
                 PROVE  SumFunctionOnSet(f, T \cup U) =
                           SumFunctionOnSet(f, T) + SumFunctionOnSet(f, U)
      OBVIOUS
    <2>1. SumFunctionOnSet(f, T) \in Nat
      BY SumType
    <2>2. CASE U = {}
      <3>1. T \cup U = T /\ SumFunctionOnSet(f, U) = 0
        BY <2>2, SumEmpty
      <3> QED BY <2>1, <3>1
    <2>3. CASE U # {}
      <3>1. PICK x \in U : TRUE
        BY <2>3
      <3>2. U \ {x} \in Splits
        <4> HIDE DEF Splits
        <4> QED BY <1>1, <3>1
      <3>3. SumFunctionOnSet(f, T \cup (U \ {x})) =
               SumFunctionOnSet(f, T) + SumFunctionOnSet(f, U \ {x})
        BY <3>2
      <3>4. SumFunctionOnSet(f, U) = f[x] + SumFunctionOnSet(f, U \ {x})
        BY SumRemoves
      <3>5. (T \cup U) \ {x} = T \cup (U \ {x}) /\ T \cup U \in SUBSET S /\ x \in T \cup U
        OBVIOUS
      <3>6. SumFunctionOnSet(f, T \cup U) = f[x] + SumFunctionOnSet(f, T \cup (U \ {x}))
        BY <3>5, SumRemoves
      <3>7. SumFunctionOnSet(f, U \ {x}) \in Nat /\ f[x] \in Nat
        BY SumType
      <3> QED BY <2>1, <3>3, <3>4, <3>6, <3>7
    <2> QED BY <2>2, <2>3
  <1>2. V \in Splits
    <2> HIDE DEF Splits
    <2>1. \A U \in SUBSET S : U \in Splits
      BY <1>1, SubsetInduction
    <2> QED BY <2>1
  <1> QED BY <1>2

\* Values that are carried one by one to a finite set, and do not shrink, have no greater sum.
LEMMA SumCarried ==
  ASSUME NEW S, IsFiniteSet(S), NEW R, IsFiniteSet(R),
         NEW f \in [S -> Nat], NEW h \in [R -> Nat], NEW p \in [S -> R],
         \A x, y \in S : p[x] = p[y] => x = y,
         \A x \in S : f[x] <= h[p[x]]
  PROVE  SumFunctionOnSet(f, S) <= SumFunctionOnSet(h, R)
  <1> DEFINE Image(U) == {p[x] : x \in U}
             Below == {U \in SUBSET S :
                          SumFunctionOnSet(f, U) <= SumFunctionOnSet(h, Image(U))}
  <1>1. ASSUME NEW U \in SUBSET S, \A W \in SUBSET U : W # U => W \in Below
        PROVE  U \in Below
    <2> SUFFICES SumFunctionOnSet(f, U) <= SumFunctionOnSet(h, Image(U))
      OBVIOUS
    <2>1. CASE U = {}
      <3>1. Image(U) = {}
        BY <2>1
      <3> QED BY <2>1, <3>1, SumEmpty
    <2>2. CASE U # {}
      <3>1. PICK x \in U : TRUE
        BY <2>2
      <3>2. U \ {x} \in Below
        <4> HIDE DEF Below
        <4> QED BY <1>1, <3>1
      <3>3. /\ Image(U) \in SUBSET R /\ p[x] \in Image(U)
            /\ Image(U) \ {p[x]} = Image(U \ {x})
        OBVIOUS
      <3>4. SumFunctionOnSet(f, U \ {x}) <= SumFunctionOnSet(h, Image(U \ {x}))
        BY <3>2
      <3>5. Image(U \ {x}) \in SUBSET R
        OBVIOUS
      <3> HIDE DEF Image, Below
      <3>6. /\ SumFunctionOnSet(f, U) = f[x] + SumFunctionOnSet(f, U \ {x})
            /\ SumFunctionOnSet(h, Image(U)) = h[p[x]] + SumFunctionOnSet(h, Image(U \ {x}))
        <4>1. SumFunctionOnSet(f, U) = f[x] + SumFunctionOnSet(f, U \ {x})
          BY SumRemoves
        <4>2. SumFunctionOnSet(h, Image(U)) =
                 h[p[x]] + SumFunctionOnSet(h, Image(U) \ {p[x]})
          BY <3>3, SumRemoves
        <4> QED BY <3>3, <4>1, <4>2
      <3>7. /\ SumFunctionOnSet(f, U \ {x}) \in Nat
            /\ SumFunctionOnSet(h, Image(U \ {x})) \in Nat
            /\ f[x] \in Nat /\ h[p[x]] \in Nat /\ f[x] <= h[p[x]]
        BY <3>5, SumType
      <3> QED BY <3>4, <3>6, <3>7
    <2> QED BY <2>1, <2>2
  <1>2. S \in Below
    <2> HIDE DEF Below
    <2>1. \A U \in SUBSET S : U \in Below
      BY <1>1, SubsetInduction
    <2> QED BY <2>1
  <1>3. Image(S) \in SUBSET R
    OBVIOUS
  <1>4. SumFunctionOnSet(f, S) <= SumFunctionOnSet(h, Image(S))
    BY <1>2
  <1> HIDE DEF Image, Below
  <1>5. SumFunctionOnSet(h, Image(S)) <= SumFunctionOnSet(h, R)
    <2>1. \A y \in Image(S) : h[y] \in Nat /\ h[y] <= h[y]
      BY <1>3
    <2> QED BY <1>3, <2>1, SumMonotone
  <1>6. /\ SumFunctionOnSet(f, S) \in Nat /\ SumFunctionOnSet(h, Image(S)) \in Nat
        /\ SumFunctionOnSet(h, R) \in Nat
    BY <1>3, SumType
  <1> QED BY <1>4, <1>5, <1>6
================================================================================
