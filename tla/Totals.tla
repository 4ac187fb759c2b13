------------------------------- MODULE Totals -------------------------------
(***************************************************************************)
(* What SumFunctionOnSet of the Functions module gives: the recursive      *)
(* definition behind it is shown to define a function on the subsets of a  *)
(* finite set, and from there on sums are reasoned about by taking out one *)
(* element.  The induction is the minimal counterexample: a set of finite  *)
(* sets that is not empty has a smallest member.                           *)
(***************************************************************************)
EXTENDS Integers, FiniteSets, Functions, FiniteSetTheorems, WellFoundedInduction, TLAPS

\* Among finite sets there is one that has none of the others inside.
LEMMA SmallestSet ==
    ASSUME NEW S, IsFiniteSet(S), NEW B, B \subseteq SUBSET S, B # {}
    PROVE  \E t \in B : \A u \in B : u \subseteq t => u = t
  <1>1. B \subseteq FiniteSubsetsOf(S)
    BY FS_Subset DEF FiniteSubsetsOf
  <1>2. PICK t \in B : \A u \in B : ~(<<u, t>> \in StrictSubsetOrdering(S))
    BY <1>1, FS_StrictSubsetOrderingWellFounded, WFMin
  <1>3. ASSUME NEW u \in B, u \subseteq t, u # t PROVE FALSE
    BY <1>1, <1>2, <1>3 DEF StrictSubsetOrdering, FiniteSubsetsOf
  <1> QED BY <1>2, <1>3

Pick(s) == CHOOSE x \in s : TRUE

LEMMA PickIsIn == ASSUME NEW s, s # {} PROVE Pick(s) \in s
  BY DEF Pick

\* g sums up f over the subsets of S.
Sums(f, S, g) ==
    g = [s \in SUBSET S |-> IF s = {} THEN 0 ELSE f[Pick(s)] + g[s \ {Pick(s)}]]

LEMMA SumsAt ==
    ASSUME NEW f, NEW S, NEW g, Sums(f, S, g), NEW s, s \subseteq S
    PROVE  g[s] = IF s = {} THEN 0 ELSE f[Pick(s)] + g[s \ {Pick(s)}]
  BY DEF Sums

\* Two such functions agree wherever both are defined.
LEMMA SumsAgree ==
    ASSUME NEW f, NEW S, IsFiniteSet(S), NEW T, T \subseteq S,
           NEW g, NEW h, Sums(f, S, g), Sums(f, T, h)
    PROVE  \A s \in SUBSET T : g[s] = h[s]
  <1> SUFFICES ASSUME {s \in SUBSET T : g[s] # h[s]} # {} PROVE FALSE
    OBVIOUS
  <1> DEFINE B == {s \in SUBSET T : g[s] # h[s]}
  <1>1. B \subseteq SUBSET S /\ B # {}
    OBVIOUS
  <1>2. PICK t \in B : \A u \in B : u \subseteq t => u = t
    <2> HIDE DEF B
    <2> QED BY <1>1, SmallestSet
  <1>3. CASE t = {}
    BY <1>1, <1>2, <1>3, SumsAt
  <1>4. CASE t # {}
    <2>1. Pick(t) \in t
      BY <1>4, PickIsIn
    <2>2. t \ {Pick(t)} \notin B /\ t \ {Pick(t)} \in SUBSET T
      BY <1>2, <2>1
    <2>3. g[t \ {Pick(t)}] = h[t \ {Pick(t)}]
      BY <2>2
    <2>4. t \subseteq S /\ t \subseteq T
      BY <1>2
    <2>5. g[t] = f[Pick(t)] + g[t \ {Pick(t)}] /\ h[t] = f[Pick(t)] + h[t \ {Pick(t)}]
      <3> HIDE DEF B
      <3> QED BY <1>4, <2>4, SumsAt
    <2> QED BY <1>2, <2>3, <2>5
  <1> QED BY <1>3, <1>4

\* There is one: put together from those of the smaller sets.
LEMMA SumsExist ==
    ASSUME NEW f, NEW S, IsFiniteSet(S)
    PROVE  \E g : Sums(f, S, g)
  <1> SUFFICES ASSUME {T \in SUBSET S : ~ \E g : Sums(f, T, g)} # {} PROVE FALSE
    OBVIOUS
  <1> DEFINE B == {T \in SUBSET S : ~ \E g : Sums(f, T, g)}
  <1>1. PICK T \in B : \A u \in B : u \subseteq T => u = T
    <2>1. B \subseteq SUBSET S /\ B # {}
      OBVIOUS
    <2> HIDE DEF B
    <2> QED BY <2>1, SmallestSet
  <1> DEFINE of(u) == CHOOSE g : Sums(f, u, g)
  <1>2. ASSUME NEW u, u \subseteq T, u # T PROVE Sums(f, u, of(u))
    <2>1. u \in SUBSET S /\ u \notin B
      BY <1>1, <1>2
    <2> QED BY <2>1
  <1> DEFINE rest(s) == s \ {Pick(s)}
             g == [s \in SUBSET T |-> IF s = {} THEN 0 ELSE f[Pick(s)] + of(rest(s))[rest(s)]]
  <1>3. ASSUME NEW s, s \subseteq T, s # {} PROVE rest(s) \subseteq T /\ rest(s) # T
    BY <1>3, PickIsIn
  <1>4. ASSUME NEW u, u \subseteq T, u # T PROVE g[u] = of(u)[u]
    <2>1. Sums(f, u, of(u))
      BY <1>2, <1>4
    <2>2. g[u] = IF u = {} THEN 0 ELSE f[Pick(u)] + of(rest(u))[rest(u)]
      BY <1>4
    <2>3. of(u)[u] = IF u = {} THEN 0 ELSE f[Pick(u)] + of(u)[rest(u)]
      <3> HIDE DEF of
      <3> QED BY <2>1, SumsAt
    <2>4. ASSUME u # {} PROVE of(u)[rest(u)] = of(rest(u))[rest(u)]
      <3>1. rest(u) \subseteq u /\ rest(u) \subseteq T /\ rest(u) # T
        BY <1>3, <1>4, <2>4
      <3>2. Sums(f, rest(u), of(rest(u)))
        BY <1>2, <3>1
      <3>3. IsFiniteSet(u)
        BY <1>1, <1>4, FS_Subset
      <3>4. \A s \in SUBSET rest(u) : of(u)[s] = of(rest(u))[s]
        BY <2>1, <3>1, <3>2, <3>3, SumsAgree
      <3> QED BY <3>4
    <2> QED BY <2>2, <2>3, <2>4
  <1>5. ASSUME NEW s \in SUBSET T
        PROVE  g[s] = IF s = {} THEN 0 ELSE f[Pick(s)] + g[rest(s)]
    <2>1. g[s] = IF s = {} THEN 0 ELSE f[Pick(s)] + of(rest(s))[rest(s)]
      OBVIOUS
    <2>2. ASSUME s # {} PROVE g[rest(s)] = of(rest(s))[rest(s)]
      BY <1>3, <1>4, <2>2
    <2> QED BY <2>1, <2>2
  <1>6. Sums(f, T, g)
    <2>1. [s \in SUBSET T |-> g[s]]
            = [s \in SUBSET T |-> IF s = {} THEN 0 ELSE f[Pick(s)] + g[rest(s)]]
      BY <1>5
    <2>2. g = [s \in SUBSET T |-> g[s]]
      OBVIOUS
    <2> HIDE DEF g
    <2> QED BY <2>1, <2>2 DEF Sums
  <1> QED BY <1>1, <1>6
-----------------------------------------------------------------------------
\* A sum is that of its picked element and of the rest, or zero.
LEMMA SumUnfolds ==
    ASSUME NEW f, NEW S, IsFiniteSet(S)
    PROVE  SumFunctionOnSet(f, S) =
              IF S = {} THEN 0 ELSE f[Pick(S)] + SumFunctionOnSet(f, S \ {Pick(S)})
  <1> DEFINE of(u) == CHOOSE g : Sums(f, u, g)
  <1>1. ASSUME NEW u PROVE SumFunctionOnSet(f, u) = of(u)[u]
    BY DEF SumFunctionOnSet, FoldFunctionOnSet, MapThenFoldSet, Sums, Pick
  <1>2. ASSUME NEW u, u \subseteq S PROVE Sums(f, u, of(u))
    BY <1>2, FS_Subset, SumsExist
  <1> HIDE DEF of
  <1>3. of(S)[S] = IF S = {} THEN 0 ELSE f[Pick(S)] + of(S)[S \ {Pick(S)}]
    BY <1>2, SumsAt
  <1>4. of(S)[S \ {Pick(S)}] = of(S \ {Pick(S)})[S \ {Pick(S)}]
    BY <1>2, SumsAgree
  <1> QED BY <1>1, <1>3, <1>4

LEMMA SumOfNone == ASSUME NEW f PROVE SumFunctionOnSet(f, {}) = 0
  BY SumUnfolds, FS_EmptySet

\* Sums of numbers are numbers.
LEMMA SumIsInt ==
    ASSUME NEW S, IsFiniteSet(S), NEW f, \A x \in S : f[x] \in Int
    PROVE  SumFunctionOnSet(f, S) \in Int
  <1> SUFFICES ASSUME {T \in SUBSET S : SumFunctionOnSet(f, T) \notin Int} # {} PROVE FALSE
    OBVIOUS
  <1> DEFINE B == {T \in SUBSET S : SumFunctionOnSet(f, T) \notin Int}
  <1>1. PICK T \in B : \A u \in B : u \subseteq T => u = T
    <2>1. B \subseteq SUBSET S /\ B # {}
      OBVIOUS
    <2> HIDE DEF B
    <2> QED BY <2>1, SmallestSet
  <1>2. SumFunctionOnSet(f, T) =
           IF T = {} THEN 0 ELSE f[Pick(T)] + SumFunctionOnSet(f, T \ {Pick(T)})
    BY FS_Subset, SumUnfolds
  <1>3. T # {} /\ Pick(T) \in T
    BY <1>2, PickIsIn
  <1>4. T \ {Pick(T)} \notin B
    BY <1>1, <1>3
  <1>5. SumFunctionOnSet(f, T \ {Pick(T)}) \in Int /\ f[Pick(T)] \in Int
    BY <1>3, <1>4
  <1> QED BY <1>2, <1>3, <1>5

\* Any element can be taken out first.
LEMMA SumTakes ==
    ASSUME NEW S, IsFiniteSet(S), NEW f, \A x \in S : f[x] \in Int, NEW x \in S
    PROVE  SumFunctionOnSet(f, S) = f[x] + SumFunctionOnSet(f, S \ {x})
  <1> DEFINE total(T) == SumFunctionOnSet(f, T)
             B == {T \in SUBSET S : \E y \in T : total(T) # f[y] + total(T \ {y})}
  <1> SUFFICES ASSUME B # {} PROVE FALSE
    OBVIOUS
  <1>1. PICK T \in B : \A u \in B : u \subseteq T => u = T
    <2>1. B \subseteq SUBSET S
      OBVIOUS
    <2> HIDE DEF B
    <2> QED BY <2>1, SmallestSet
  <1>2. PICK y \in T : ~ (total(T) = f[y] + total(T \ {y}))
    OBVIOUS
  <1> DEFINE p == Pick(T)
  <1>3. p \in T
    BY <1>2, PickIsIn
  <1>4. total(T) = f[p] + total(T \ {p})
    BY <1>3, FS_Subset, SumUnfolds
  <1> HIDE DEF p
  <1>5. p # y
    BY <1>2, <1>4
  <1>6. T \ {p} \notin B /\ T \ {y} \notin B
    BY <1>1, <1>2, <1>3
  <1>7. total(T \ {p}) = f[y] + total((T \ {p}) \ {y})
    BY <1>3, <1>5, <1>6
  <1>8. total(T \ {y}) = f[p] + total((T \ {y}) \ {p})
    BY <1>3, <1>5, <1>6
  <1>9. total((T \ {p}) \ {y}) = total((T \ {y}) \ {p})
    <2>1. (T \ {p}) \ {y} = (T \ {y}) \ {p}
      OBVIOUS
    <2> QED BY <2>1
  <1>10. f[p] \in Int /\ f[y] \in Int /\ total((T \ {y}) \ {p}) \in Int
    <2>1. IsFiniteSet((T \ {y}) \ {p})
      BY FS_Subset
    <2>2. \A z \in (T \ {y}) \ {p} : f[z] \in Int
      OBVIOUS
    <2> QED BY <1>3, <2>1, <2>2, SumIsInt
  <1>11. ~ (total(T) = f[y] + total(T \ {y}))
    BY <1>2
  <1> HIDE DEF total, B
  <1>12. total(T) = f[p] + (f[y] + total((T \ {y}) \ {p}))
    BY <1>4, <1>7, <1>9
  <1>13. total(T) # f[y] + (f[p] + total((T \ {y}) \ {p}))
    BY <1>8, <1>11
  <1> QED BY <1>10, <1>12, <1>13

LEMMA SumAdds ==
    ASSUME NEW S, IsFiniteSet(S), NEW x, x \notin S,
           NEW f, \A y \in S \cup {x} : f[y] \in Int
    PROVE  SumFunctionOnSet(f, S \cup {x}) = f[x] + SumFunctionOnSet(f, S)
  <1>1. IsFiniteSet(S \cup {x})
    BY FS_AddElement
  <1>2. (S \cup {x}) \ {x} = S
    OBVIOUS
  <1> QED BY <1>1, <1>2, SumTakes

\* The sum of sums, element by element; with it go comparison, congruence and
\* all that follows.
LEMMA SumOfSums ==
    ASSUME NEW S, IsFiniteSet(S), NEW f, NEW g, NEW h,
           \A x \in S : f[x] \in Int /\ g[x] \in Int /\ h[x] = f[x] + g[x]
    PROVE  SumFunctionOnSet(h, S) = SumFunctionOnSet(f, S) + SumFunctionOnSet(g, S)
  <1> DEFINE F(T) == SumFunctionOnSet(f, T)
             G(T) == SumFunctionOnSet(g, T)
             H(T) == SumFunctionOnSet(h, T)
             B == {T \in SUBSET S : H(T) # F(T) + G(T)}
  <1> SUFFICES ASSUME B # {} PROVE FALSE
    OBVIOUS
  <1>1. PICK T \in B : \A u \in B : u \subseteq T => u = T
    <2>1. B \subseteq SUBSET S
      OBVIOUS
    <2> HIDE DEF B
    <2> QED BY <2>1, SmallestSet
  <1>2. T # {}
    <2> SUFFICES ASSUME T = {} PROVE FALSE
      OBVIOUS
    <2>1. F(T) = 0 /\ G(T) = 0 /\ H(T) = 0
      BY SumOfNone
    <2>2. ~ (H(T) = F(T) + G(T))
      OBVIOUS
    <2>3. H(T) = F(T) + G(T)
      <3> HIDE DEF F, G, H
      <3> QED BY <2>1
    <2> QED BY <2>2, <2>3
  <1>3. PICK x \in T : TRUE
    BY <1>2
  <1>4. T \ {x} \notin B
    BY <1>1
  <1>5. IsFiniteSet(T) /\ \A y \in T : f[y] \in Int /\ g[y] \in Int /\ h[y] \in Int
    BY FS_Subset
  <1>6. /\ F(T) = f[x] + F(T \ {x})
        /\ G(T) = g[x] + G(T \ {x})
        /\ H(T) = h[x] + H(T \ {x})
    BY <1>5, SumTakes
  <1>7. F(T \ {x}) \in Int /\ G(T \ {x}) \in Int
    <2>1. IsFiniteSet(T \ {x})
      BY <1>5, FS_Subset
    <2> QED BY <1>5, <2>1, SumIsInt
  <1>8. H(T \ {x}) = F(T \ {x}) + G(T \ {x})
    BY <1>4
  <1>9. H(T) # F(T) + G(T) /\ h[x] = f[x] + g[x] /\ f[x] \in Int /\ g[x] \in Int
    OBVIOUS
  <1> HIDE DEF F, G, H, B
  <1> QED BY <1>6, <1>7, <1>8, <1>9

LEMMA SumOfZeros ==
    ASSUME NEW S, IsFiniteSet(S), NEW f, \A x \in S : f[x] = 0
    PROVE  SumFunctionOnSet(f, S) = 0
  <1>1. SumFunctionOnSet(f, S) \in Int
    BY SumIsInt
  <1>2. SumFunctionOnSet(f, S) = SumFunctionOnSet(f, S) + SumFunctionOnSet(f, S)
    BY SumOfSums
  <1> QED BY <1>1, <1>2

LEMMA SumsOfEquals ==
    ASSUME NEW S, IsFiniteSet(S), NEW f, NEW g, \A x \in S : f[x] \in Int /\ g[x] = f[x]
    PROVE  SumFunctionOnSet(g, S) = SumFunctionOnSet(f, S)
  <1> DEFINE z == [x \in S |-> 0]
  <1>1. SumFunctionOnSet(z, S) = 0
    BY SumOfZeros
  <1>2. \A x \in S : f[x] \in Int /\ z[x] \in Int /\ g[x] = f[x] + z[x]
    OBVIOUS
  <1> HIDE DEF z
  <1>3. SumFunctionOnSet(g, S) = SumFunctionOnSet(f, S) + SumFunctionOnSet(z, S)
    BY <1>2, SumOfSums
  <1>4. SumFunctionOnSet(f, S) \in Int
    BY SumIsInt
  <1> QED BY <1>1, <1>3, <1>4

LEMMA SumIsNat ==
    ASSUME NEW S, IsFiniteSet(S), NEW f, \A x \in S : f[x] \in Nat
    PROVE  /\ SumFunctionOnSet(f, S) \in Nat
           /\ SumFunctionOnSet(f, S) = 0 => \A x \in S : f[x] = 0
  <1> SUFFICES ASSUME {T \in SUBSET S : SumFunctionOnSet(f, T) \notin Nat} = {}
               PROVE  SumFunctionOnSet(f, S) = 0 => \A x \in S : f[x] = 0
    <2> SUFFICES ASSUME {T \in SUBSET S : SumFunctionOnSet(f, T) \notin Nat} # {} PROVE FALSE
      OBVIOUS
    <2> DEFINE B == {T \in SUBSET S : SumFunctionOnSet(f, T) \notin Nat}
    <2>1. PICK T \in B : \A u \in B : u \subseteq T => u = T
      <3>1. B \subseteq SUBSET S /\ B # {}
        OBVIOUS
      <3> HIDE DEF B
      <3> QED BY <3>1, SmallestSet
    <2>2. T # {}
      BY SumOfNone
    <2>3. PICK x \in T : TRUE
      BY <2>2
    <2>4. SumFunctionOnSet(f, T \ {x}) \in Nat
      BY <2>1
    <2>5. SumFunctionOnSet(f, T) = f[x] + SumFunctionOnSet(f, T \ {x})
      <3>1. IsFiniteSet(T)
        BY FS_Subset
      <3>2. \A y \in T : f[y] \in Int
        OBVIOUS
      <3> QED BY <3>1, <3>2, SumTakes
    <2>6. SumFunctionOnSet(f, T) \notin Nat /\ f[x] \in Nat
      OBVIOUS
    <2> HIDE DEF B
    <2> QED BY <2>4, <2>5, <2>6
  <1> SUFFICES ASSUME NEW x \in S, SumFunctionOnSet(f, S) = 0 PROVE f[x] = 0
    OBVIOUS
  <1>1. SumFunctionOnSet(f, S) = f[x] + SumFunctionOnSet(f, S \ {x})
    BY SumTakes
  <1>2. SumFunctionOnSet(f, S \ {x}) \in Nat
    OBVIOUS
  <1> QED BY <1>1, <1>2

LEMMA SumGrows ==
    ASSUME NEW S, IsFiniteSet(S), NEW f, NEW g,
           \A x \in S : f[x] \in Int /\ g[x] \in Int /\ f[x] <= g[x]
    PROVE  SumFunctionOnSet(f, S) <= SumFunctionOnSet(g, S)
  <1> DEFINE d == [x \in S |-> g[x] - f[x]]
  <1>1. \A x \in S : d[x] \in Nat /\ d[x] \in Int /\ g[x] = f[x] + d[x]
    OBVIOUS
  <1> HIDE DEF d
  <1>2. SumFunctionOnSet(g, S) = SumFunctionOnSet(f, S) + SumFunctionOnSet(d, S)
    BY <1>1, SumOfSums
  <1>3. SumFunctionOnSet(d, S) \in Nat
    BY <1>1, SumIsNat
  <1>4. SumFunctionOnSet(f, S) \in Int
    BY SumIsInt
  <1> QED BY <1>2, <1>3, <1>4

\* A change at one place changes the sum by as much.
LEMMA SumMoves ==
    ASSUME NEW S, IsFiniteSet(S), NEW f, NEW g, \A y \in S : f[y] \in Int /\ g[y] \in Int,
           NEW x \in S, \A y \in S \ {x} : g[y] = f[y]
    PROVE  SumFunctionOnSet(g, S) = SumFunctionOnSet(f, S) + g[x] - f[x]
  <1>1. IsFiniteSet(S \ {x})
    BY FS_Subset
  <1>2. SumFunctionOnSet(g, S \ {x}) = SumFunctionOnSet(f, S \ {x})
    BY <1>1, SumsOfEquals
  <1>3. SumFunctionOnSet(g, S) = g[x] + SumFunctionOnSet(g, S \ {x})
    BY SumTakes
  <1>4. SumFunctionOnSet(f, S) = f[x] + SumFunctionOnSet(f, S \ {x})
    BY SumTakes
  <1>5. SumFunctionOnSet(f, S \ {x}) \in Int /\ f[x] \in Int /\ g[x] \in Int
    BY <1>1, SumIsInt
  <1> QED BY <1>2, <1>3, <1>4, <1>5

\* What lies outside T adds nothing, if it is zero there.
LEMMA SumNarrows ==
    ASSUME NEW S, IsFiniteSet(S), NEW T, T \subseteq S,
           NEW f, \A x \in S : f[x] \in Int, \A x \in S \ T : f[x] = 0
    PROVE  SumFunctionOnSet(f, S) = SumFunctionOnSet(f, T)
  <1> DEFINE B == {U \in SUBSET S : T \subseteq U /\ SumFunctionOnSet(f, U) # SumFunctionOnSet(f, T)}
  <1> SUFFICES ASSUME B # {} PROVE FALSE
    OBVIOUS
  <1>1. PICK U \in B : \A u \in B : u \subseteq U => u = U
    <2>1. B \subseteq SUBSET S
      OBVIOUS
    <2> HIDE DEF B
    <2> QED BY <2>1, SmallestSet
  <1>2. PICK x \in U : x \notin T
    OBVIOUS
  <1>3. SumFunctionOnSet(f, U \ {x}) = SumFunctionOnSet(f, T)
    BY <1>1, <1>2
  <1>4. SumFunctionOnSet(f, U) = f[x] + SumFunctionOnSet(f, U \ {x})
    BY FS_Subset, SumTakes
  <1>5. f[x] = 0 /\ SumFunctionOnSet(f, T) \in Int
    <2>1. IsFiniteSet(T)
      BY FS_Subset
    <2> QED BY <1>2, <2>1, SumIsInt
  <1>6. SumFunctionOnSet(f, U) # SumFunctionOnSet(f, T)
    OBVIOUS
  <1> HIDE DEF B
  <1> QED BY <1>3, <1>4, <1>5, <1>6

\* A sum is that of a part and of the rest.
LEMMA SumSplits ==
    ASSUME NEW S, IsFiniteSet(S), NEW T, T \subseteq S, NEW f, \A x \in S : f[x] \in Int
    PROVE  SumFunctionOnSet(f, S) = SumFunctionOnSet(f, T) + SumFunctionOnSet(f, S \ T)
  <1> DEFINE g == [x \in S |-> IF x \in T THEN f[x] ELSE 0]
             h == [x \in S |-> IF x \in T THEN 0 ELSE f[x]]
  <1>1. \A x \in S : g[x] \in Int /\ h[x] \in Int /\ f[x] = g[x] + h[x]
    OBVIOUS
  <1>2. IsFiniteSet(T) /\ IsFiniteSet(S \ T)
    BY FS_Subset
  <1>3. /\ \A x \in S \ T : g[x] = 0
        /\ \A x \in S \ (S \ T) : h[x] = 0
        /\ \A x \in T : f[x] \in Int /\ g[x] = f[x]
        /\ \A x \in S \ T : f[x] \in Int /\ h[x] = f[x]
    OBVIOUS
  <1> HIDE DEF g, h
  <1>4. SumFunctionOnSet(f, S) = SumFunctionOnSet(g, S) + SumFunctionOnSet(h, S)
    BY <1>1, SumOfSums
  <1>5. SumFunctionOnSet(g, S) = SumFunctionOnSet(f, T)
    <2>1. SumFunctionOnSet(g, S) = SumFunctionOnSet(g, T)
      BY <1>1, <1>3, SumNarrows
    <2>2. SumFunctionOnSet(g, T) = SumFunctionOnSet(f, T)
      BY <1>2, <1>3, SumsOfEquals
    <2> QED BY <2>1, <2>2
  <1>6. SumFunctionOnSet(h, S) = SumFunctionOnSet(f, S \ T)
    <2>1. SumFunctionOnSet(h, S) = SumFunctionOnSet(h, S \ T)
      BY <1>1, <1>3, SumNarrows
    <2>2. SumFunctionOnSet(h, S \ T) = SumFunctionOnSet(f, S \ T)
      BY <1>2, <1>3, SumsOfEquals
    <2> QED BY <2>1, <2>2
  <1> QED BY <1>4, <1>5, <1>6

\* Of natural numbers, a part sums up to no more than the whole.
LEMMA SumOfPart ==
    ASSUME NEW S, IsFiniteSet(S), NEW T, T \subseteq S, NEW f, \A x \in S : f[x] \in Nat
    PROVE  SumFunctionOnSet(f, T) <= SumFunctionOnSet(f, S)
  <1>1. IsFiniteSet(T) /\ IsFiniteSet(S \ T)
    BY FS_Subset
  <1>2. SumFunctionOnSet(f, T) \in Nat
    <2>1. \A x \in T : f[x] \in Nat
      OBVIOUS
    <2> QED BY <1>1, <2>1, SumIsNat
  <1>3. SumFunctionOnSet(f, S \ T) \in Nat
    <2>1. \A x \in S \ T : f[x] \in Nat
      OBVIOUS
    <2> QED BY <1>1, <2>1, SumIsNat
  <1>4. SumFunctionOnSet(f, S) = SumFunctionOnSet(f, T) + SumFunctionOnSet(f, S \ T)
    <2>1. \A x \in S : f[x] \in Int
      OBVIOUS
    <2> QED BY <2>1, SumSplits
  <1> QED BY <1>2, <1>3, <1>4

\* Counting is summing ones.
LEMMA SumOfOnes ==
    ASSUME NEW S, IsFiniteSet(S), NEW f, \A x \in S : f[x] = 1
    PROVE  SumFunctionOnSet(f, S) = Cardinality(S)
  <1> DEFINE B == {T \in SUBSET S : SumFunctionOnSet(f, T) # Cardinality(T)}
  <1> SUFFICES ASSUME B # {} PROVE FALSE
    OBVIOUS
  <1>1. PICK T \in B : \A u \in B : u \subseteq T => u = T
    <2>1. B \subseteq SUBSET S
      OBVIOUS
    <2> HIDE DEF B
    <2> QED BY <2>1, SmallestSet
  <1>2. T # {}
    BY SumOfNone, FS_EmptySet
  <1>3. PICK x \in T : TRUE
    BY <1>2
  <1>4. IsFiniteSet(T)
    BY FS_Subset
  <1>5. SumFunctionOnSet(f, T) = f[x] + SumFunctionOnSet(f, T \ {x})
    BY <1>4, SumTakes
  <1>6. SumFunctionOnSet(f, T \ {x}) = Cardinality(T \ {x})
    BY <1>1
  <1>7. Cardinality(T) \in Nat /\ Cardinality(T \ {x}) = Cardinality(T) - 1
    BY <1>4, FS_CardinalityType, FS_RemoveElement
  <1>8. f[x] = 1 /\ SumFunctionOnSet(f, T) # Cardinality(T)
    OBVIOUS
  <1> HIDE DEF B
  <1> QED BY <1>5, <1>6, <1>7, <1>8

\* Or the ones in a column of ones and zeros.
LEMMA SumOfFlags ==
    ASSUME NEW S, IsFiniteSet(S), NEW T, T \subseteq S,
           NEW f, \A x \in T : f[x] = 1, \A x \in S \ T : f[x] = 0
    PROVE  SumFunctionOnSet(f, S) = Cardinality(T)
  <1>1. SumFunctionOnSet(f, S) = SumFunctionOnSet(f, T)
    <2>1. \A x \in S : f[x] \in Int
      OBVIOUS
    <2> QED BY <2>1, SumNarrows
  <1>2. IsFiniteSet(T)
    BY FS_Subset
  <1> QED BY <1>1, <1>2, SumOfOnes

\* Adding up part by part is adding up everything: S is split by what part[x]
\* is, and sub[p] is the sum of the part p.
LEMMA SumOfParts ==
    ASSUME NEW S, IsFiniteSet(S), NEW f, \A x \in S : f[x] \in Int,
           NEW P, IsFiniteSet(P), NEW part, \A x \in S : part[x] \in P,
           NEW sub, \A p \in P : sub[p] = SumFunctionOnSet(f, {x \in S : part[x] = p})
    PROVE  SumFunctionOnSet(sub, P) = SumFunctionOnSet(f, S)
  <1> DEFINE in(Q) == [x \in S |-> IF part[x] \in Q THEN f[x] ELSE 0]
             B == {Q \in SUBSET P : SumFunctionOnSet(sub, Q) # SumFunctionOnSet(in(Q), S)}
  <1>1. ASSUME NEW p \in P
        PROVE  sub[p] = SumFunctionOnSet(in({p}), S) /\ sub[p] \in Int
    <2> DEFINE T == {x \in S : part[x] = p}
               g == in({p})
    <2>1. IsFiniteSet(T) /\ T \subseteq S
      BY FS_Subset
    <2>2. /\ \A x \in S : g[x] \in Int
          /\ \A x \in S \ T : g[x] = 0
          /\ \A x \in T : f[x] \in Int /\ g[x] = f[x]
      OBVIOUS
    <2> HIDE DEF T, g
    <2>3. SumFunctionOnSet(g, S) = SumFunctionOnSet(g, T)
      BY <2>1, <2>2, SumNarrows
    <2>4. SumFunctionOnSet(g, T) = SumFunctionOnSet(f, T) /\ SumFunctionOnSet(f, T) \in Int
      BY <2>1, <2>2, SumsOfEquals, SumIsInt
    <2> QED BY <2>3, <2>4 DEF T, g
  <1>2. B = {}
    <2> SUFFICES ASSUME B # {} PROVE FALSE
      OBVIOUS
    <2>1. PICK Q \in B : \A u \in B : u \subseteq Q => u = Q
      <3>1. B \subseteq SUBSET P
        OBVIOUS
      <3> HIDE DEF B
      <3> QED BY <3>1, SmallestSet
    <2>2. Q # {}
      <3>1. SumFunctionOnSet(in({}), S) = 0 /\ SumFunctionOnSet(sub, {}) = 0
        BY SumOfZeros, SumOfNone
      <3> QED BY <3>1
    <2>3. PICK p \in Q : TRUE
      BY <2>2
    <2> DEFINE F == in(Q \ {p})
               G == in({p})
               H == in(Q)
    <2>4. SumFunctionOnSet(sub, Q) = sub[p] + SumFunctionOnSet(sub, Q \ {p})
      <3>1. IsFiniteSet(Q) /\ \A q \in Q : sub[q] \in Int
        BY <1>1, FS_Subset
      <3> QED BY <3>1, SumTakes
    <2>5. SumFunctionOnSet(sub, Q \ {p}) = SumFunctionOnSet(F, S)
      BY <2>1
    <2>6. \A x \in S : F[x] \in Int /\ G[x] \in Int /\ H[x] = F[x] + G[x]
      OBVIOUS
    <2>7. SumFunctionOnSet(sub, Q) # SumFunctionOnSet(H, S) /\ sub[p] = SumFunctionOnSet(G, S)
      BY <1>1
    <2> HIDE DEF B, F, G, H
    <2>8. /\ SumFunctionOnSet(H, S) = SumFunctionOnSet(F, S) + SumFunctionOnSet(G, S)
          /\ SumFunctionOnSet(F, S) \in Int /\ SumFunctionOnSet(G, S) \in Int
      <3>1. \A x \in S : F[x] \in Int
        BY <2>6
      <3>2. \A x \in S : G[x] \in Int
        BY <2>6
      <3>3. SumFunctionOnSet(F, S) \in Int
        BY <3>1, SumIsInt
      <3>4. SumFunctionOnSet(G, S) \in Int
        BY <3>2, SumIsInt
      <3>5. SumFunctionOnSet(H, S) = SumFunctionOnSet(F, S) + SumFunctionOnSet(G, S)
        BY <2>6, SumOfSums
      <3> QED BY <3>3, <3>4, <3>5
    <2> QED BY <2>4, <2>5, <2>7, <2>8
  <1> DEFINE H == in(P)
  <1>3. SumFunctionOnSet(sub, P) = SumFunctionOnSet(H, S)
    BY <1>2
  <1>4. \A x \in S : f[x] \in Int /\ H[x] = f[x]
    OBVIOUS
  <1> HIDE DEF H
  <1>5. SumFunctionOnSet(H, S) = SumFunctionOnSet(f, S)
    BY <1>4, SumsOfEquals
  <1> QED BY <1>3, <1>5
-----------------------------------------------------------------------------
\* A product of natural numbers is monotone.
LEMMA TimesGrows ==
    ASSUME NEW a \in Nat, NEW b \in Nat, NEW c \in Nat, a <= b
    PROVE  c * a <= c * b
  <1>1. b = a + (b - a) /\ b - a \in Nat
    OBVIOUS
  <1>2. c * b = c * a + c * (b - a) /\ c * (b - a) \in Nat /\ c * a \in Nat
    BY <1>1
  <1> QED BY <1>2

\* What a quotient is, when a multiple and a remainder are known.
LEMMA QuotientIs ==
    ASSUME NEW m \in Nat, NEW x \in Nat, NEW r \in Nat, r < m
    PROVE  (m * x + r) \div m = x
  <1> DEFINE d == (m * x + r) \div m
  <1>1. m * x \in Nat /\ m > 0
    OBVIOUS
  <1>2. d \in Nat /\ m * d <= m * x + r /\ m * x + r < m * d + m
    BY <1>1
  <1> HIDE DEF d
  <1>3. ASSUME d + 1 <= x PROVE FALSE
    <2>1. m * (d + 1) <= m * x
      BY <1>2, <1>3, TimesGrows
    <2>2. m * (d + 1) = m * d + m /\ m * d \in Nat
      BY <1>2
    <2> QED BY <1>1, <1>2, <2>1, <2>2
  <1>4. ASSUME x + 1 <= d PROVE FALSE
    <2>1. m * (x + 1) <= m * d
      BY <1>2, <1>4, TimesGrows
    <2>2. m * (x + 1) = m * x + m /\ m * d \in Nat
      BY <1>2
    <2> QED BY <1>1, <1>2, <2>1, <2>2
  <1> QED BY <1>2, <1>3, <1>4 DEF d
=============================================================================
