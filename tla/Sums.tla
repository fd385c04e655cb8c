-------------------------------- MODULE Sums --------------------------------
(***************************************************************************)
(* Facts about SumFunctionOnSet, with which the models count money: the    *)
(* sum of no values, that it is a number, and what an element more, an     *)
(* element less or another value of one element does to it.                *)
(*                                                                         *)
(* The sum is a fold, a function on all subsets of a set that is defined   *)
(* by what it is on smaller ones.  Induction over finite sets is used in   *)
(* the form of a smallest counterexample: strict inclusion is well founded *)
(* on finite sets, and a non-empty set has a minimal element.              *)
(***************************************************************************)
EXTENDS Integers, Functions, FiniteSetTheorems, WellFoundedInduction, TLAPS

\* The element a fold over S begins with.
Chosen(S) == CHOOSE x \in S : TRUE

\* g is a solution of the equation that defines the fold.
Unfolds(g, f, S) ==
    g = [s \in SUBSET S |-> IF s = {} THEN 0 ELSE f[Chosen(s)] + g[s \ {Chosen(s)}]]

\* Among subsets of a finite set one has no other within it: when some of them
\* are counterexamples, so is a smallest one.
LEMMA Smallest ==
    ASSUME NEW S, IsFiniteSet(S), NEW T, T \subseteq SUBSET S, T # {}
    PROVE  \E t \in T : \A u \in T : u \subseteq t => u = t
<1>1. FiniteSubsetsOf(S) = SUBSET S
  BY FS_FiniteSubsetsOfFinite
<1>2. IsWellFoundedOn(StrictSubsetOrdering(S), SUBSET S)
  BY <1>1, FS_StrictSubsetOrderingWellFounded
<1>3. PICK t \in T : \A u \in T : ~ (<<u, t>> \in StrictSubsetOrdering(S))
  BY <1>2, WFMin
<1>4. QED
  BY <1>3 DEF StrictSubsetOrdering

\* The sum is what the solution says of the whole set.
LEMMA SumIsFold ==
    ASSUME NEW f, NEW S
    PROVE  SumFunctionOnSet(f, S) = (CHOOSE g : Unfolds(g, f, S))[S]
  BY DEF SumFunctionOnSet, FoldFunctionOnSet, MapThenFoldSet, Unfolds, Chosen

\* A fold begins with an element of the set.
LEMMA ChosenIn == ASSUME NEW S, S # {} PROVE Chosen(S) \in S
  BY DEF Chosen

\* A solution satisfies the equation at every subset.
LEMMA Unfolded ==
    ASSUME NEW f, NEW S, NEW g, Unfolds(g, f, S), NEW s \in SUBSET S
    PROVE  g[s] = IF s = {} THEN 0 ELSE f[Chosen(s)] + g[s \ {Chosen(s)}]
  BY DEF Unfolds

\* Two solutions agree where both are defined.
LEMMA Unique ==
    ASSUME NEW f, NEW S, NEW T, NEW V, IsFiniteSet(V), V \subseteq S, V \subseteq T,
           NEW g, NEW h, Unfolds(g, f, S), Unfolds(h, f, T)
    PROVE  g[V] = h[V]
<1> DEFINE W == {s \in SUBSET V : g[s] # h[s]}
<1> SUFFICES ASSUME g[V] # h[V] PROVE FALSE
  OBVIOUS
<1>1. W # {} /\ W \subseteq SUBSET V
  OBVIOUS
<1>2. PICK t \in W : \A u \in W : u \subseteq t => u = t
  <2> HIDE DEF W
  <2>1. QED
    BY <1>1, Smallest
<1>3. CASE t = {}
  BY <1>2, <1>3, Unfolded
<1>4. CASE t # {}
  <2>1. Chosen(t) \in t
    BY <1>4, ChosenIn
  <2> DEFINE u == t \ {Chosen(t)}
  <2>2. u \in SUBSET V /\ u \subseteq t /\ u # t
    BY <2>1, <1>2
  <2>3. g[u] = h[u]
    BY <2>2, <1>2
  <2>4. g[t] = f[Chosen(t)] + g[u]
    <3>1. t \in SUBSET S
      BY <1>2
    <3> HIDE DEF W
    <3>2. g[t] = IF t = {} THEN 0 ELSE f[Chosen(t)] + g[t \ {Chosen(t)}]
      BY ONLY Unfolds(g, f, S), <3>1, Unfolded
    <3>3. QED
      BY <3>2, <1>4
  <2>5. h[t] = f[Chosen(t)] + h[u]
    <3>1. t \in SUBSET T
      BY <1>2
    <3> HIDE DEF W
    <3>2. h[t] = IF t = {} THEN 0 ELSE f[Chosen(t)] + h[t \ {Chosen(t)}]
      BY ONLY Unfolds(h, f, T), <3>1, Unfolded
    <3>3. QED
      BY <3>2, <1>4
  <2>6. QED
    BY <2>3, <2>4, <2>5, <1>2
<1>5. QED
  BY <1>3, <1>4

\* There is a solution for every finite set.
LEMMA Exists ==
    ASSUME NEW f, NEW S, IsFiniteSet(S)
    PROVE  \E g : Unfolds(g, f, S)
<1> DEFINE G(s) == CHOOSE g : Unfolds(g, f, s)
           W == {s \in SUBSET S : ~\E g : Unfolds(g, f, s)}
<1> SUFFICES ASSUME ~\E g : Unfolds(g, f, S) PROVE FALSE
  OBVIOUS
<1>1. W # {} /\ W \subseteq SUBSET S
  OBVIOUS
<1>2. PICK t \in W : \A u \in W : u \subseteq t => u = t
  <2> HIDE DEF W
  <2>1. QED
    BY <1>1, Smallest
<1>3. \A u \in SUBSET t : u # t => Unfolds(G(u), f, u)
  BY <1>2
<1> DEFINE h == [s \in SUBSET t |->
                    IF s = {} THEN 0
                    ELSE f[Chosen(s)] + G(s \ {Chosen(s)})[s \ {Chosen(s)}]]
<1>4. ASSUME NEW u \in SUBSET t, u # t
      PROVE  h[u] = G(u)[u]
  <2>1. CASE u = {}
    <3>1. Unfolds(G(u), f, u)
      BY <1>3, <1>4
    <3> HIDE DEF G
    <3>2. G(u)[u] = 0
      BY <2>1, <3>1, Unfolded
    <3>3. h[u] = 0
      BY <2>1
    <3>4. QED
      BY <3>2, <3>3
  <2>2. CASE u # {}
    <3> DEFINE v == u \ {Chosen(u)}
    <3>1. Chosen(u) \in u
      BY <2>2, ChosenIn
    <3>2. v \in SUBSET t /\ v \subseteq u /\ v # t
      BY <3>1, <1>4
    <3>3. Unfolds(G(u), f, u) /\ Unfolds(G(v), f, v)
      BY <3>2, <1>3, <1>4
    <3>4. IsFiniteSet(v)
      BY <1>2, <3>2, FS_Subset
    <3> HIDE DEF G
    <3>5. G(u)[v] = G(v)[v]
      BY <3>2, <3>3, <3>4, Unique
    <3>6. G(u)[u] = f[Chosen(u)] + G(u)[v]
      BY <3>3, <2>2, Unfolded
    <3>7. h[u] = f[Chosen(u)] + G(v)[v]
      BY <2>2
    <3>8. QED
      BY <3>5, <3>6, <3>7
  <2>3. QED
    BY <2>1, <2>2
<1>5. Unfolds(h, f, t)
  <2> HIDE DEF G
  <2>1. ASSUME NEW s \in SUBSET t, s # {}
        PROVE  h[s \ {Chosen(s)}] = G(s \ {Chosen(s)})[s \ {Chosen(s)}]
    <3>1. Chosen(s) \in s
      BY <2>1, ChosenIn
    <3>2. s \ {Chosen(s)} \in SUBSET t /\ s \ {Chosen(s)} # t
      BY <3>1, <2>1
    <3> HIDE DEF h
    <3>3. QED
      BY <3>2, <1>4
  <2>2. \A s \in SUBSET t : h[s] = IF s = {} THEN 0
                                   ELSE f[Chosen(s)] + h[s \ {Chosen(s)}]
    BY <2>1
  <2>3. h = [s \in SUBSET t |-> h[s]]
    OBVIOUS
  <2> HIDE DEF h
  <2>4. QED
    BY <2>2, <2>3 DEF Unfolds
<1>6. QED
  <2> HIDE DEF h
  <2>1. QED BY <1>2, <1>5

\* Nothing adds up to zero.
LEMMA SumEmpty == ASSUME NEW f PROVE SumFunctionOnSet(f, {}) = 0
<1>1. Unfolds(CHOOSE g : Unfolds(g, f, {}), f, {})
  BY Exists, FS_EmptySet
<1>2. QED
  BY <1>1, SumIsFold, Unfolded

\* The equation of the fold, for the sum.
LEMMA SumUnfold ==
    ASSUME NEW f, NEW S, IsFiniteSet(S), S # {}
    PROVE  SumFunctionOnSet(f, S) =
              f[Chosen(S)] + SumFunctionOnSet(f, S \ {Chosen(S)})
<1> DEFINE G(s) == CHOOSE g : Unfolds(g, f, s)
           R == S \ {Chosen(S)}
<1>1. IsFiniteSet(R)
  BY FS_Subset
<1>2. Unfolds(G(S), f, S) /\ Unfolds(G(R), f, R)
  BY <1>1, Exists
<1>3. SumFunctionOnSet(f, S) = G(S)[S] /\ SumFunctionOnSet(f, R) = G(R)[R]
  BY SumIsFold
<1> HIDE DEF G
<1>4. G(S)[R] = G(R)[R]
  BY <1>1, <1>2, Unique
<1>5. G(S)[S] = f[Chosen(S)] + G(S)[R]
  BY <1>2, Unfolded
<1>6. QED
  BY <1>3, <1>4, <1>5

\* The sum of naturals is a natural, that of integers an integer.
LEMMA SumType ==
    ASSUME NEW f, NEW S, IsFiniteSet(S), NEW N \in {Nat, Int}, \A x \in S : f[x] \in N
    PROVE  SumFunctionOnSet(f, S) \in N
<1> DEFINE W == {s \in SUBSET S : SumFunctionOnSet(f, s) \notin N}
<1> SUFFICES ASSUME SumFunctionOnSet(f, S) \notin N PROVE FALSE
  OBVIOUS
<1>1. W # {} /\ W \subseteq SUBSET S
  OBVIOUS
<1>2. PICK t \in W : \A u \in W : u \subseteq t => u = t
  <2> HIDE DEF W
  <2>1. QED
    BY <1>1, Smallest
<1>3. t # {}
  BY <1>2, SumEmpty
<1>4. Chosen(t) \in t /\ IsFiniteSet(t)
  BY <1>2, <1>3, ChosenIn, FS_Subset
<1> DEFINE u == t \ {Chosen(t)}
<1>5. SumFunctionOnSet(f, u) \in N
  BY <1>2, <1>4
<1>6. SumFunctionOnSet(f, t) = f[Chosen(t)] + SumFunctionOnSet(f, u)
  BY <1>3, <1>4, SumUnfold
<1>7. f[Chosen(t)] \in N
  BY <1>2, <1>4
<1>8. SumFunctionOnSet(f, t) \in N
  <2> HIDE DEF u
  <2>1. QED BY <1>5, <1>6, <1>7
<1>9. QED
  BY <1>2, <1>8

\* Any element may be taken out first.
LEMMA SumRemove ==
    ASSUME NEW f, NEW S, IsFiniteSet(S), \A x \in S : f[x] \in Int, NEW e \in S
    PROVE  SumFunctionOnSet(f, S) = f[e] + SumFunctionOnSet(f, S \ {e})
<1> DEFINE Sum(s) == SumFunctionOnSet(f, s)
           W == {s \in SUBSET S : \E x \in s : Sum(s) # f[x] + Sum(s \ {x})}
<1> SUFFICES ASSUME Sum(S) # f[e] + Sum(S \ {e}) PROVE FALSE
  OBVIOUS
<1>1. W # {} /\ W \subseteq SUBSET S
  OBVIOUS
<1>2. PICK t \in W : \A u \in W : u \subseteq t => u = t
  <2> HIDE DEF W
  <2>1. QED
    BY <1>1, Smallest
<1>3. PICK x \in t : Sum(t) # f[x] + Sum(t \ {x})
  BY <1>2
<1> DEFINE c == Chosen(t)
<1>4. c \in t /\ IsFiniteSet(t) /\ t \subseteq S
  BY <1>2, <1>3, ChosenIn, FS_Subset
<1>5. Sum(t) = f[c] + Sum(t \ {c})
  BY <1>3, <1>4, SumUnfold
<1>6. c # x
  BY <1>3, <1>5
<1>7. ASSUME NEW u \in SUBSET t, u # t, NEW y \in u
      PROVE  Sum(u) = f[y] + Sum(u \ {y})
  BY <1>2, <1>4, <1>7
<1> DEFINE both == (t \ {c}) \ {x}
<1>8. Sum(t \ {c}) = f[x] + Sum(both)
  BY <1>4, <1>6, <1>7
<1>9. Sum(t \ {x}) = f[c] + Sum(both)
  <2>1. (t \ {x}) \ {c} = both
    OBVIOUS
  <2>2. Sum(t \ {x}) = f[c] + Sum((t \ {x}) \ {c})
    BY <1>3, <1>4, <1>6, <1>7
  <2>3. QED
    BY <2>1, <2>2
<1>10. f[c] \in Int /\ f[x] \in Int /\ Sum(both) \in Int
  <2>1. IsFiniteSet(both)
    BY <1>4, FS_Subset
  <2>2. QED
    BY <1>3, <1>4, <2>1, SumType
<1> HIDE DEF Sum, c, both
<1>11. QED
  BY <1>3, <1>5, <1>8, <1>9, <1>10

\* An element more adds its value.
LEMMA SumAdd ==
    ASSUME NEW f, NEW S, IsFiniteSet(S), NEW e, e \notin S,
           \A x \in S \union {e} : f[x] \in Int
    PROVE  SumFunctionOnSet(f, S \union {e}) = f[e] + SumFunctionOnSet(f, S)
<1>1. IsFiniteSet(S \union {e}) /\ e \in S \union {e} /\ (S \union {e}) \ {e} = S
  BY FS_AddElement
<1>2. QED
  BY <1>1, SumRemove

\* The sum depends on the values of the elements only.
LEMMA SumEqual ==
    ASSUME NEW f, NEW g, NEW S, IsFiniteSet(S), \A x \in S : f[x] = g[x]
    PROVE  SumFunctionOnSet(f, S) = SumFunctionOnSet(g, S)
<1> DEFINE W == {s \in SUBSET S : SumFunctionOnSet(f, s) # SumFunctionOnSet(g, s)}
<1> SUFFICES ASSUME SumFunctionOnSet(f, S) # SumFunctionOnSet(g, S) PROVE FALSE
  OBVIOUS
<1>1. W # {} /\ W \subseteq SUBSET S
  OBVIOUS
<1>2. PICK t \in W : \A u \in W : u \subseteq t => u = t
  <2> HIDE DEF W
  <2>1. QED
    BY <1>1, Smallest
<1>3. t # {}
  BY <1>2, SumEmpty
<1>4. Chosen(t) \in t /\ IsFiniteSet(t)
  BY <1>2, <1>3, ChosenIn, FS_Subset
<1> DEFINE u == t \ {Chosen(t)}
<1>5. SumFunctionOnSet(f, u) = SumFunctionOnSet(g, u)
  BY <1>2, <1>4
<1>6. /\ SumFunctionOnSet(f, t) = f[Chosen(t)] + SumFunctionOnSet(f, u)
      /\ SumFunctionOnSet(g, t) = g[Chosen(t)] + SumFunctionOnSet(g, u)
  BY <1>3, <1>4, SumUnfold
<1>7. f[Chosen(t)] = g[Chosen(t)]
  BY <1>2, <1>4
<1>8. QED
  <2> HIDE DEF u
  <2>1. QED BY <1>2, <1>5, <1>6, <1>7

\* Another value of one element changes the sum by the difference.
LEMMA SumChange ==
    ASSUME NEW f, NEW g, NEW S, IsFiniteSet(S),
           \A x \in S : f[x] \in Int /\ g[x] \in Int,
           NEW e \in S, \A x \in S \ {e} : f[x] = g[x]
    PROVE  SumFunctionOnSet(g, S) = SumFunctionOnSet(f, S) - f[e] + g[e]
<1>1. IsFiniteSet(S \ {e})
  BY FS_Subset
<1>2. SumFunctionOnSet(f, S \ {e}) = SumFunctionOnSet(g, S \ {e})
  BY <1>1, SumEqual
<1>3. SumFunctionOnSet(f, S \ {e}) \in Int
  BY <1>1, SumType
<1>4. /\ SumFunctionOnSet(f, S) = f[e] + SumFunctionOnSet(f, S \ {e})
      /\ SumFunctionOnSet(g, S) = g[e] + SumFunctionOnSet(g, S \ {e})
  BY SumRemove
<1>5. QED
  BY <1>2, <1>3, <1>4
\* A sum of zeros is zero.
LEMMA SumZero ==
    ASSUME NEW f, NEW S, IsFiniteSet(S), \A x \in S : f[x] = 0
    PROVE  SumFunctionOnSet(f, S) = 0
<1> DEFINE W == {s \in SUBSET S : SumFunctionOnSet(f, s) # 0}
<1> SUFFICES ASSUME SumFunctionOnSet(f, S) # 0 PROVE FALSE
  OBVIOUS
<1>1. W # {} /\ W \subseteq SUBSET S
  OBVIOUS
<1>2. PICK t \in W : \A u \in W : u \subseteq t => u = t
  <2> HIDE DEF W
  <2>1. QED
    BY <1>1, Smallest
<1>3. t # {}
  BY <1>2, SumEmpty
<1>4. Chosen(t) \in t /\ IsFiniteSet(t)
  BY <1>2, <1>3, ChosenIn, FS_Subset
<1> DEFINE u == t \ {Chosen(t)}
<1>5. SumFunctionOnSet(f, u) = 0
  BY <1>2, <1>4
<1>6. SumFunctionOnSet(f, t) = f[Chosen(t)] + SumFunctionOnSet(f, u)
  BY <1>3, <1>4, SumUnfold
<1>7. f[Chosen(t)] = 0
  BY <1>2, <1>4
<1>8. QED
  <2> HIDE DEF u
  <2>1. QED BY <1>2, <1>5, <1>6, <1>7
=============================================================================
