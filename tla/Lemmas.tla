------------------------------- MODULE Lemmas -------------------------------
(***************************************************************************)
(* Facts that hold of values, whatever the state, for the proof modules:   *)
(* what a sum over a finite set of records does when one of them changes   *)
(* (the books are such sums), and what applyStockDelta computes.           *)
(***************************************************************************)
EXTENDS StockRow, FiniteSetsExt, FiniteSetTheorems, WellFoundedInduction, TLAPS


(* A set of natural numbers that is not empty has a least element.         *)
LEMMA Least ==
  ASSUME NEW T, T \subseteq Nat, T # {}
  PROVE  \E n \in T : \A m \in T : n <= m
<1> DEFINE R == {ss \in Nat \X Nat : ss[1] < ss[2]}
<1>1. IsWellFoundedOn(R, Nat)
  BY NatLessThanWellFounded DEF OpToRel
<1> HIDE DEF R
<1>2. PICK n \in T : \A m \in T : <<m, n>> \notin R
  BY <1>1, WFMin
<1>3. \A m \in T : ~(m < n)
  BY <1>2 DEF R
<1> QED BY <1>3

(* Induction over the subsets of a finite set: X is a set and not a        *)
(* predicate, so that it can be cited.                                     *)
LEMMA SubsetInduction ==
  ASSUME NEW S, IsFiniteSet(S), NEW X,
         \A U \in SUBSET S : (\A V \in SUBSET U : V # U => V \in X) => U \in X
  PROVE  \A U \in SUBSET S : U \in X
<1> SUFFICES ASSUME {U \in SUBSET S : U \notin X} # {} PROVE FALSE
  OBVIOUS
<1> DEFINE Y == {U \in SUBSET S : U \notin X}
           T == {Cardinality(U) : U \in Y}
<1>1. \A U \in SUBSET S : IsFiniteSet(U) /\ Cardinality(U) \in Nat
  BY FS_Subset, FS_CardinalityType
<1>2. PICK n \in T : \A m \in T : n <= m
  <2>1. T \subseteq Nat /\ T # {}
    BY <1>1
  <2> HIDE DEF T
  <2> QED BY <2>1, Least
<1>3. PICK U \in Y : n = Cardinality(U)
  OBVIOUS
<1>4. \A V \in SUBSET U : V # U => V \in X
  <2> SUFFICES ASSUME NEW V \in SUBSET U, V # U, V \notin X PROVE FALSE
    OBVIOUS
  <2>1. Cardinality(V) \in T
    OBVIOUS
  <2>2. Cardinality(V) <= Cardinality(U) /\ Cardinality(V) # Cardinality(U)
    BY <1>1, FS_Subset
  <2>3. Cardinality(V) \in Nat /\ Cardinality(U) \in Nat
    BY <1>1
  <2> HIDE DEF T
  <2> QED BY <1>2, <1>3, <2>1, <2>2, <2>3
<1> QED BY <1>4

Chosen(s) == CHOOSE x \in s : TRUE

Summing(g, f, U) ==
  g = [s \in SUBSET U |->
         IF s = {} THEN 0
         ELSE f[Chosen(s)] + g[s \ {Chosen(s)}]]

LEMMA SumDef ==
  ASSUME NEW f, NEW S
  PROVE  SumFunctionOnSet(f, S) = (CHOOSE g : Summing(g, f, S))[S]
BY DEF SumFunctionOnSet, FoldFunctionOnSet, MapThenFoldSet, Summing, Chosen

LEMMA SummingValue ==
  ASSUME NEW f, NEW U, NEW g, Summing(g, f, U)
  PROVE  \A s \in SUBSET U :
           g[s] = IF s = {} THEN 0 ELSE f[Chosen(s)] + g[s \ {Chosen(s)}]
BY DEF Summing

LEMMA SummingAgree ==
  ASSUME NEW f, NEW U, IsFiniteSet(U), NEW V, NEW g, Summing(g, f, U), NEW h, Summing(h, f, V)
  PROVE  \A s \in SUBSET U : s \subseteq V => g[s] = h[s]
<1> DEFINE X == {s \in SUBSET U : s \subseteq V => g[s] = h[s]}
<1>1. \A s \in SUBSET U : g[s] = IF s = {} THEN 0 ELSE f[Chosen(s)] + g[s \ {Chosen(s)}]
  BY SummingValue
<1>2. \A s \in SUBSET V : h[s] = IF s = {} THEN 0 ELSE f[Chosen(s)] + h[s \ {Chosen(s)}]
  BY SummingValue
<1>3. \A s : s # {} => Chosen(s) \in s
  BY DEF Chosen
<1>4. ASSUME NEW s \in SUBSET U, \A t \in SUBSET s : t # s => t \in X PROVE s \in X
  <2> SUFFICES ASSUME s \subseteq V, s # {} PROVE g[s] = h[s]
    BY <1>1, <1>2
  <2>1. g[s \ {Chosen(s)}] = h[s \ {Chosen(s)}]
    BY <1>3, <1>4
  <2> QED BY <1>1, <1>2, <2>1
<1> HIDE DEF X
<1>5. \A s \in SUBSET U : s \in X
  BY <1>4, SubsetInduction
<1> QED BY <1>5 DEF X

LEMMA SummingExists ==
  ASSUME NEW f, NEW S, IsFiniteSet(S)
  PROVE  \A U \in SUBSET S : \E g : Summing(g, f, U)
<1> DEFINE X == {U \in SUBSET S : \E g : Summing(g, f, U)}
<1>1. ASSUME NEW U \in SUBSET S, \A V \in SUBSET U : V # U => V \in X PROVE U \in X
  <2> DEFINE G(V) == CHOOSE g : Summing(g, f, V)
             h == [s \in SUBSET U |->
                     IF s = {} THEN 0 ELSE f[Chosen(s)] + G(s \ {Chosen(s)})[s \ {Chosen(s)}]]
  <2>1. \A s \in SUBSET U : s # {} => Chosen(s) \in s
    BY DEF Chosen
  <2> HIDE DEF Chosen
  <2>2. \A V \in SUBSET U : V # U => Summing(G(V), f, V)
    BY <1>1
  <2> HIDE DEF G
  <2>3. \A V \in SUBSET U : IsFiniteSet(V)
    BY FS_Subset
  <2>4. ASSUME NEW t \in SUBSET U, t # U PROVE h[t] = G(t)[t]
    <3>1. CASE t = {}
      BY <2>2, <2>4, <3>1, SummingValue
    <3>2. CASE t # {}
      <4>1. G(t)[t] = f[Chosen(t)] + G(t)[t \ {Chosen(t)}]
        BY <2>2, <2>4, <3>2, SummingValue DEF Chosen
      <4>2. G(t)[t \ {Chosen(t)}] = G(t \ {Chosen(t)})[t \ {Chosen(t)}]
        <5>1. Summing(G(t), f, t)
          BY <2>2, <2>4
        <5>2. t \ {Chosen(t)} \in SUBSET U /\ t \ {Chosen(t)} # U
          BY <2>1, <2>4, <3>2
        <5>3. Summing(G(t \ {Chosen(t)}), f, t \ {Chosen(t)})
          BY <2>2, <5>2
        <5> QED BY <2>3, <5>1, <5>3, SummingAgree
      <4> QED BY <3>2, <4>1, <4>2
    <3> QED BY <3>1, <3>2
  <2>5. Summing(h, f, U)
    <3>1. ASSUME NEW s \in SUBSET U
          PROVE  h[s] = IF s = {} THEN 0 ELSE f[Chosen(s)] + h[s \ {Chosen(s)}]
      <4>1. CASE s # {}
        <5>1. s \ {Chosen(s)} \in SUBSET U /\ s \ {Chosen(s)} # U
          BY <2>1, <4>1
        <5>2. h[s \ {Chosen(s)}] = G(s \ {Chosen(s)})[s \ {Chosen(s)}]
          BY <2>4, <5>1
        <5> QED BY <4>1, <5>2
      <4> QED BY <4>1
    <3>2. h = [s \in SUBSET U |-> IF s = {} THEN 0 ELSE f[Chosen(s)] + h[s \ {Chosen(s)}]]
      <4>1. h = [s \in SUBSET U |-> h[s]]
        OBVIOUS
      <4> HIDE DEF h
      <4> QED BY <3>1, <4>1
    <3> HIDE DEF h
    <3> QED BY <3>2 DEF Summing, Chosen
  <2> QED BY <2>5
<1> HIDE DEF X
<1>2. \A U \in SUBSET S : U \in X
  BY <1>1, SubsetInduction
<1> QED BY <1>2 DEF X

-----------------------------------------------------------------------------
LEMMA SumEmpty == ASSUME NEW f PROVE SumFunctionOnSet(f, {}) = 0
<1>1. \E g : Summing(g, f, {})
  BY SummingExists, FS_EmptySet
<1> DEFINE g == CHOOSE g : Summing(g, f, {})
<1>2. Summing(g, f, {})
  BY <1>1
<1>3. SumFunctionOnSet(f, {}) = g[{}]
  BY SumDef
<1> HIDE DEF g
<1> QED BY <1>2, <1>3, SummingValue

LEMMA SumChosen ==
  ASSUME NEW f, NEW S, IsFiniteSet(S), S # {}
  PROVE  /\ Chosen(S) \in S
         /\ SumFunctionOnSet(f, S) = f[Chosen(S)] + SumFunctionOnSet(f, S \ {Chosen(S)})
<1> DEFINE G(U) == CHOOSE g : Summing(g, f, U)
<1>1. Chosen(S) \in S
  BY DEF Chosen
<1>2. \A U \in SUBSET S : Summing(G(U), f, U)
  BY SummingExists
<1>3. \A U \in SUBSET S : SumFunctionOnSet(f, U) = G(U)[U]
  BY SumDef
<1> HIDE DEF G
<1>4. G(S)[S] = f[Chosen(S)] + G(S)[S \ {Chosen(S)}]
  BY <1>2, SummingValue
<1>5. G(S)[S \ {Chosen(S)}] = G(S \ {Chosen(S)})[S \ {Chosen(S)}]
  BY <1>1, <1>2, SummingAgree
<1> QED BY <1>1, <1>3, <1>4, <1>5

LEMMA SumInt ==
  ASSUME NEW f, NEW S, IsFiniteSet(S), \A x \in S : f[x] \in Int
  PROVE  SumFunctionOnSet(f, S) \in Int
<1> DEFINE X == {U \in SUBSET S : SumFunctionOnSet(f, U) \in Int}
<1>1. ASSUME NEW U \in SUBSET S, \A V \in SUBSET U : V # U => V \in X PROVE U \in X
  <2>1. CASE U = {}
    BY <2>1, SumEmpty
  <2>2. CASE U # {}
    <3>1. PICK x \in U : SumFunctionOnSet(f, U) = f[x] + SumFunctionOnSet(f, U \ {x})
      BY <2>2, SumChosen, FS_Subset
    <3>2. SumFunctionOnSet(f, U \ {x}) \in Int
      BY <1>1
    <3> QED BY <3>1, <3>2
  <2> QED BY <2>1, <2>2
<1> HIDE DEF X
<1>2. S \in X
  BY <1>1, SubsetInduction
<1> QED BY <1>2 DEF X

(* Any element may be taken out of a sum, not only the one the fold takes. *)
LEMMA SumRemove ==
  ASSUME NEW f, NEW S, IsFiniteSet(S), \A x \in S : f[x] \in Int, NEW a \in S
  PROVE  SumFunctionOnSet(f, S) = f[a] + SumFunctionOnSet(f, S \ {a})
<1> DEFINE X == {U \in SUBSET S : \A b \in U :
                   SumFunctionOnSet(f, U) = f[b] + SumFunctionOnSet(f, U \ {b})}
<1>1. ASSUME NEW U \in SUBSET S, \A V \in SUBSET U : V # U => V \in X PROVE U \in X
  <2> SUFFICES ASSUME NEW b \in U
               PROVE  SumFunctionOnSet(f, U) = f[b] + SumFunctionOnSet(f, U \ {b})
    OBVIOUS
  <2>1. PICK x \in U : SumFunctionOnSet(f, U) = f[x] + SumFunctionOnSet(f, U \ {x})
    BY SumChosen, FS_Subset
  <2>2. CASE b # x
    <3>1. U \ {x} \in X /\ U \ {b} \in X /\ b \in U \ {x} /\ x \in U \ {b}
      BY <1>1, <2>2
    <3>2. SumFunctionOnSet(f, U \ {x}) = f[b] + SumFunctionOnSet(f, (U \ {x}) \ {b})
      BY <3>1
    <3>3. SumFunctionOnSet(f, U \ {b}) = f[x] + SumFunctionOnSet(f, (U \ {b}) \ {x})
      BY <3>1
    <3>4. SumFunctionOnSet(f, (U \ {x}) \ {b}) = SumFunctionOnSet(f, (U \ {b}) \ {x})
      <4>1. (U \ {x}) \ {b} = (U \ {b}) \ {x}
        OBVIOUS
      <4> QED BY ONLY <4>1, Zenon
    <3>5. SumFunctionOnSet(f, (U \ {b}) \ {x}) \in Int
      BY SumInt, FS_Subset
    <3>6. f[b] \in Int /\ f[x] \in Int
      OBVIOUS
    <3> QED BY <2>1, <3>2, <3>3, <3>4, <3>5, <3>6
  <2> QED BY <2>1, <2>2
<1> HIDE DEF X
<1>2. S \in X
  BY <1>1, SubsetInduction
<1> QED BY <1>2 DEF X

LEMMA SumAdd ==
  ASSUME NEW f, NEW S, IsFiniteSet(S), NEW a, a \notin S, \A x \in S \cup {a} : f[x] \in Int
  PROVE  SumFunctionOnSet(f, S \cup {a}) = f[a] + SumFunctionOnSet(f, S)
<1>1. IsFiniteSet(S \cup {a}) /\ (S \cup {a}) \ {a} = S
  BY FS_AddElement
<1> QED BY <1>1, SumRemove

LEMMA SumSame ==
  ASSUME NEW f, NEW g, NEW S, IsFiniteSet(S), \A x \in S : f[x] = g[x]
  PROVE  SumFunctionOnSet(f, S) = SumFunctionOnSet(g, S)
<1> DEFINE X == {U \in SUBSET S : SumFunctionOnSet(f, U) = SumFunctionOnSet(g, U)}
<1>1. ASSUME NEW U \in SUBSET S, \A V \in SUBSET U : V # U => V \in X PROVE U \in X
  <2>1. CASE U = {}
    BY <2>1, SumEmpty
  <2>2. CASE U # {}
    <3> DEFINE x == Chosen(U)
    <3>1. x \in U /\ SumFunctionOnSet(f, U) = f[x] + SumFunctionOnSet(f, U \ {x})
      BY <2>2, SumChosen, FS_Subset
    <3>2. SumFunctionOnSet(g, U) = g[x] + SumFunctionOnSet(g, U \ {x})
      BY <2>2, SumChosen, FS_Subset
    <3>3. SumFunctionOnSet(f, U \ {x}) = SumFunctionOnSet(g, U \ {x})
      BY <1>1, <3>1
    <3> QED BY <3>1, <3>2, <3>3
  <2> QED BY <2>1, <2>2
<1> HIDE DEF X
<1>2. S \in X
  BY <1>1, SubsetInduction
<1> QED BY <1>2 DEF X

(* What one value changes by, the sum changes by.                          *)
LEMMA SumChange ==
  ASSUME NEW f, NEW g, NEW S, IsFiniteSet(S), \A x \in S : f[x] \in Int /\ g[x] \in Int,
         NEW a \in S, \A x \in S \ {a} : f[x] = g[x]
  PROVE  SumFunctionOnSet(g, S) = SumFunctionOnSet(f, S) + g[a] - f[a]
<1>1. IsFiniteSet(S \ {a})
  BY FS_RemoveElement
<1>2. SumFunctionOnSet(f, S \ {a}) = SumFunctionOnSet(g, S \ {a})
  BY <1>1, SumSame
<1>3. SumFunctionOnSet(f, S \ {a}) \in Int
  BY <1>1, SumInt
<1>4. SumFunctionOnSet(f, S) = f[a] + SumFunctionOnSet(f, S \ {a})
  BY SumRemove
<1>5. SumFunctionOnSet(g, S) = g[a] + SumFunctionOnSet(g, S \ {a})
  BY SumRemove
<1> QED BY <1>2, <1>3, <1>4, <1>5

(* Two values change: what one loses to the other, the sum keeps.          *)
LEMMA SumChangeTwo ==
  ASSUME NEW f, NEW g, NEW S, IsFiniteSet(S), \A x \in S : f[x] \in Int /\ g[x] \in Int,
         NEW a \in S, NEW b \in S, a # b, \A x \in S \ {a, b} : f[x] = g[x]
  PROVE  SumFunctionOnSet(g, S) = SumFunctionOnSet(f, S) + (g[a] - f[a]) + (g[b] - f[b])
<1> DEFINE h == [x \in S |-> IF x = a THEN g[a] ELSE f[x]]
<1>1. /\ \A x \in S : h[x] \in Int
      /\ h[a] = g[a] /\ h[b] = f[b]
      /\ \A x \in S \ {a} : f[x] = h[x]
      /\ \A x \in S \ {b} : h[x] = g[x]
  OBVIOUS
<1> HIDE DEF h
<1>2. SumFunctionOnSet(h, S) = SumFunctionOnSet(f, S) + h[a] - f[a]
  BY <1>1, SumChange
<1>3. SumFunctionOnSet(g, S) = SumFunctionOnSet(h, S) + g[b] - h[b]
  BY <1>1, SumChange
<1>4. SumFunctionOnSet(f, S) \in Int
  BY SumInt
<1> QED BY <1>1, <1>2, <1>3, <1>4

(* Sums are added value by value.                                          *)
LEMMA SumPlus ==
  ASSUME NEW f, NEW g, NEW h, NEW S, IsFiniteSet(S),
         \A x \in S : f[x] \in Int /\ g[x] \in Int /\ h[x] = f[x] + g[x]
  PROVE  SumFunctionOnSet(h, S) = SumFunctionOnSet(f, S) + SumFunctionOnSet(g, S)
<1> DEFINE X == {U \in SUBSET S : SumFunctionOnSet(h, U)
                                   = SumFunctionOnSet(f, U) + SumFunctionOnSet(g, U)}
<1>1. ASSUME NEW U \in SUBSET S, \A V \in SUBSET U : V # U => V \in X PROVE U \in X
  <2>0. IsFiniteSet(U) /\ \A x \in U : IsFiniteSet(U \ {x})
    BY FS_Subset, FS_RemoveElement
  <2>1. CASE U = {}
    BY <2>1, SumEmpty
  <2>2. CASE U # {}
    <3>1. PICK x \in U : TRUE
      BY <2>2
    <3>2. SumFunctionOnSet(f, U) = f[x] + SumFunctionOnSet(f, U \ {x})
      BY <2>0, SumRemove
    <3>3. SumFunctionOnSet(g, U) = g[x] + SumFunctionOnSet(g, U \ {x})
      BY <2>0, SumRemove
    <3>4. SumFunctionOnSet(h, U) = h[x] + SumFunctionOnSet(h, U \ {x})
      BY <2>0, SumRemove
    <3>5. SumFunctionOnSet(h, U \ {x})
            = SumFunctionOnSet(f, U \ {x}) + SumFunctionOnSet(g, U \ {x})
      BY <1>1
    <3>6. SumFunctionOnSet(f, U \ {x}) \in Int /\ SumFunctionOnSet(g, U \ {x}) \in Int
      BY <2>0, SumInt
    <3> QED BY <3>2, <3>3, <3>4, <3>5, <3>6
  <2> QED BY <2>1, <2>2
<1> HIDE DEF X
<1>2. S \in X
  BY <1>1, SubsetInduction
<1> QED BY <1>2 DEF X

(* What is nothing outside a subset need not be summed there.              *)
LEMMA SumSubset ==
  ASSUME NEW f, NEW S, IsFiniteSet(S), \A x \in S : f[x] \in Int,
         NEW T \in SUBSET S, \A x \in S \ T : f[x] = 0
  PROVE  SumFunctionOnSet(f, S) = SumFunctionOnSet(f, T)
<1> DEFINE X == {U \in SUBSET S : SumFunctionOnSet(f, U) = SumFunctionOnSet(f, U \cap T)}
<1>1. ASSUME NEW U \in SUBSET S, \A V \in SUBSET U : V # U => V \in X PROVE U \in X
  <2>0. IsFiniteSet(U) /\ \A x \in U : IsFiniteSet(U \ {x})
    BY FS_Subset, FS_RemoveElement
  <2>1. CASE U \subseteq T
    <3>1. U \cap T = U
      BY <2>1
    <3> QED BY <3>1
  <2>2. CASE ~(U \subseteq T)
    <3>1. PICK x \in U : x \notin T
      BY <2>2
    <3>2. SumFunctionOnSet(f, U) = f[x] + SumFunctionOnSet(f, U \ {x})
      BY <2>0, SumRemove
    <3>3. SumFunctionOnSet(f, (U \ {x}) \cap T) = SumFunctionOnSet(f, U \cap T)
      <4>1. (U \ {x}) \cap T = U \cap T
        BY <3>1
      <4> QED BY ONLY <4>1, Zenon
    <3>4. SumFunctionOnSet(f, U \ {x}) \in Int
      BY <2>0, SumInt
    <3>5. SumFunctionOnSet(f, U \ {x}) = SumFunctionOnSet(f, (U \ {x}) \cap T)
      BY <1>1
    <3>6. SumFunctionOnSet(f, U) = SumFunctionOnSet(f, U \cap T)
      BY <3>1, <3>2, <3>3, <3>4, <3>5
    <3> QED BY <3>6
  <2> QED BY <2>1, <2>2
<1> HIDE DEF X
<1>2. S \in X
  BY <1>1, SubsetInduction
<1>3. S \cap T = T
  OBVIOUS
<1> QED BY <1>2, <1>3 DEF X

LEMMA SumZero ==
  ASSUME NEW f, NEW S, IsFiniteSet(S), \A x \in S : f[x] = 0
  PROVE  SumFunctionOnSet(f, S) = 0
<1>1. SumFunctionOnSet(f, S) = SumFunctionOnSet(f, {})
  BY SumSubset
<1> QED BY <1>1, SumEmpty

LEMMA SumMonotone ==
  ASSUME NEW f, NEW g, NEW S, IsFiniteSet(S),
         \A x \in S : f[x] \in Int /\ g[x] \in Int /\ f[x] <= g[x]
  PROVE  SumFunctionOnSet(f, S) <= SumFunctionOnSet(g, S)
<1> DEFINE X == {U \in SUBSET S : SumFunctionOnSet(f, U) <= SumFunctionOnSet(g, U)}
<1>1. ASSUME NEW U \in SUBSET S, \A V \in SUBSET U : V # U => V \in X PROVE U \in X
  <2>0. IsFiniteSet(U) /\ \A x \in U : IsFiniteSet(U \ {x})
    BY FS_Subset, FS_RemoveElement
  <2>1. CASE U = {}
    BY <2>1, SumEmpty
  <2>2. CASE U # {}
    <3>1. PICK x \in U : TRUE
      BY <2>2
    <3>2. SumFunctionOnSet(f, U) = f[x] + SumFunctionOnSet(f, U \ {x})
      BY <2>0, SumRemove
    <3>3. SumFunctionOnSet(g, U) = g[x] + SumFunctionOnSet(g, U \ {x})
      BY <2>0, SumRemove
    <3>4. SumFunctionOnSet(f, U \ {x}) <= SumFunctionOnSet(g, U \ {x})
      BY <1>1
    <3>5. SumFunctionOnSet(f, U \ {x}) \in Int /\ SumFunctionOnSet(g, U \ {x}) \in Int
      BY <2>0, SumInt
    <3> QED BY <3>2, <3>3, <3>4, <3>5
  <2> QED BY <2>1, <2>2
<1> HIDE DEF X
<1>2. S \in X
  BY <1>1, SubsetInduction
<1> QED BY <1>2 DEF X

(* A sum over two sets that share nothing.                                 *)
LEMMA SumDisjoint ==
  ASSUME NEW f, NEW S, IsFiniteSet(S), NEW T, IsFiniteSet(T), S \cap T = {},
         \A x \in S \cup T : f[x] \in Int
  PROVE  SumFunctionOnSet(f, S \cup T) = SumFunctionOnSet(f, S) + SumFunctionOnSet(f, T)
<1> DEFINE X == {U \in SUBSET T : SumFunctionOnSet(f, S \cup U)
                                   = SumFunctionOnSet(f, S) + SumFunctionOnSet(f, U)}
<1>0. SumFunctionOnSet(f, S) \in Int
  BY SumInt
<1>1. ASSUME NEW U \in SUBSET T, \A V \in SUBSET U : V # U => V \in X PROVE U \in X
  <2>0. IsFiniteSet(U) /\ \A x \in U : IsFiniteSet(U \ {x}) /\ IsFiniteSet(S \cup (U \ {x}))
    BY FS_Subset, FS_RemoveElement, FS_Union
  <2>1. CASE U = {}
    <3>1. S \cup U = S
      BY <2>1
    <3>2. SumFunctionOnSet(f, S \cup U) = SumFunctionOnSet(f, S)
      BY ONLY <3>1, Zenon
    <3> QED BY <1>0, <2>1, <3>2, SumEmpty
  <2>2. CASE U # {}
    <3>1. PICK x \in U : TRUE
      BY <2>2
    <3>2. SumFunctionOnSet(f, U) = f[x] + SumFunctionOnSet(f, U \ {x})
      BY <2>0, SumRemove
    <3> DEFINE R == S \cup (U \ {x})
    <3>3. x \notin R /\ R \cup {x} = S \cup U
      OBVIOUS
    <3>4. IsFiniteSet(R) /\ \A y \in R \cup {x} : f[y] \in Int
      BY <2>0
    <3>5. SumFunctionOnSet(f, R) = SumFunctionOnSet(f, S) + SumFunctionOnSet(f, U \ {x})
      BY <1>1
    <3> HIDE DEF R
    <3>6. SumFunctionOnSet(f, R \cup {x}) = f[x] + SumFunctionOnSet(f, R)
      BY <3>3, <3>4, SumAdd
    <3>7. SumFunctionOnSet(f, S \cup U) = SumFunctionOnSet(f, R \cup {x})
      BY ONLY <3>3, Zenon
    <3>8. SumFunctionOnSet(f, U \ {x}) \in Int
      BY <2>0, SumInt
    <3> QED BY <1>0, <3>2, <3>5, <3>6, <3>7, <3>8
  <2> QED BY <2>1, <2>2
<1> HIDE DEF X
<1>2. T \in X
  BY <1>1, SubsetInduction
<1> QED BY <1>2 DEF X

(* A sum of natural numbers is one.                                        *)
LEMMA SumNat ==
  ASSUME NEW f, NEW S, IsFiniteSet(S), \A x \in S : f[x] \in Nat
  PROVE  SumFunctionOnSet(f, S) \in Nat
<1> DEFINE z == [x \in S |-> 0]
<1>1. SumFunctionOnSet(f, S) \in Int
  BY SumInt
<1>2. \A x \in S : z[x] \in Int /\ f[x] \in Int /\ z[x] <= f[x]
  OBVIOUS
<1>3. \A x \in S : z[x] = 0
  OBVIOUS
<1> HIDE DEF z
<1>4. SumFunctionOnSet(z, S) <= SumFunctionOnSet(f, S)
  BY <1>2, SumMonotone
<1>5. SumFunctionOnSet(z, S) = 0
  BY <1>3, SumZero
<1> QED BY <1>1, <1>4, <1>5

(* A part of a sum of natural numbers is not more than the whole.          *)
LEMMA SumPart ==
  ASSUME NEW f, NEW S, IsFiniteSet(S), \A x \in S : f[x] \in Nat, NEW T \in SUBSET S
  PROVE  SumFunctionOnSet(f, T) <= SumFunctionOnSet(f, S)
<1>1. IsFiniteSet(T) /\ IsFiniteSet(S \ T)
  BY FS_Subset
<1>2. SumFunctionOnSet(f, T \cup (S \ T)) = SumFunctionOnSet(f, T) + SumFunctionOnSet(f, S \ T)
  BY <1>1, SumDisjoint
<1>3. SumFunctionOnSet(f, T) \in Nat
  BY <1>1, SumNat
<1>4. SumFunctionOnSet(f, S \ T) \in Nat
  BY <1>1, SumNat
<1>5. T \cup (S \ T) = S
  OBVIOUS
<1>6. SumFunctionOnSet(f, T \cup (S \ T)) = SumFunctionOnSet(f, S)
  BY ONLY <1>5, Zenon
<1> QED BY <1>2, <1>3, <1>4, <1>6

(* The sums over the classes of some keys are together the sum over what   *)
(* has one of these keys.                                                  *)
OfKeys(S, key, C) == {x \in S : key[x] \in C}

\* g gives each key of C the sum of f over what has this key.
Splits(g, C, f, S, key) == \A c \in C : g[c] = SumFunctionOnSet(f, OfKeys(S, key, {c}))

LEMMA SumByKey ==
  ASSUME NEW f, NEW S, IsFiniteSet(S), \A x \in S : f[x] \in Int, NEW key,
         NEW C, IsFiniteSet(C), NEW g,
         Splits(g, C, f, S, key)
  PROVE  SumFunctionOnSet(g, C) = SumFunctionOnSet(f, OfKeys(S, key, C))
<1> DEFINE X == {U \in SUBSET C :
                   SumFunctionOnSet(g, U) = SumFunctionOnSet(f, OfKeys(S, key, U))}
<1>s. \A c \in C : g[c] = SumFunctionOnSet(f, OfKeys(S, key, {c}))
  BY DEF Splits
<1>0. \A c \in C : g[c] \in Int
  <2> SUFFICES ASSUME NEW c \in C PROVE g[c] \in Int
    OBVIOUS
  <2>1. IsFiniteSet(OfKeys(S, key, {c})) /\ \A x \in OfKeys(S, key, {c}) : f[x] \in Int
    BY FS_Subset DEF OfKeys
  <2>2. SumFunctionOnSet(f, OfKeys(S, key, {c})) \in Int
    BY <2>1, SumInt
  <2> QED BY <1>s, <2>2
<1>1. ASSUME NEW U \in SUBSET C, \A V \in SUBSET U : V # U => V \in X PROVE U \in X
  <2>1. CASE U = {}
    <3>1. OfKeys(S, key, U) = {}
      BY <2>1 DEF OfKeys
    <3>2. SumFunctionOnSet(f, OfKeys(S, key, U)) = 0
      BY <3>1, SumEmpty
    <3> QED BY <2>1, <3>2, SumEmpty
  <2>2. CASE U # {}
    <3>1. PICK c \in U : TRUE
      BY <2>2
    <3> DEFINE A == OfKeys(S, key, U \ {c})
               B == OfKeys(S, key, {c})
    <3>2. SumFunctionOnSet(g, U) = g[c] + SumFunctionOnSet(g, U \ {c})
      BY <1>0, FS_Subset, SumRemove
    <3>3. SumFunctionOnSet(g, U \ {c}) = SumFunctionOnSet(f, A)
      BY <1>1
    <3>4. g[c] = SumFunctionOnSet(f, B)
      BY <1>s
    <3>5. A \cup B = OfKeys(S, key, U) /\ A \cap B = {} /\ A \subseteq S /\ B \subseteq S
      BY DEF OfKeys
    <3> HIDE DEF A, B
    <3>6. IsFiniteSet(A) /\ IsFiniteSet(B)
      BY <3>5, FS_Subset
    <3>7. SumFunctionOnSet(f, A \cup B) = SumFunctionOnSet(f, A) + SumFunctionOnSet(f, B)
      BY <3>5, <3>6, SumDisjoint
    <3>8. SumFunctionOnSet(f, A) \in Int
      BY <3>5, <3>6, SumInt
    <3>9. SumFunctionOnSet(f, B) \in Int
      BY <3>5, <3>6, SumInt
    <3>10. SumFunctionOnSet(f, A \cup B) = SumFunctionOnSet(f, OfKeys(S, key, U))
      <4>1. A \cup B = OfKeys(S, key, U)
        BY <3>5
      <4> QED BY ONLY <4>1, Zenon
    <3>11. SumFunctionOnSet(g, U) = SumFunctionOnSet(f, OfKeys(S, key, U))
      BY <3>2, <3>3, <3>4, <3>7, <3>8, <3>9, <3>10
    <3> QED BY <3>11
  <2> QED BY <2>1, <2>2
<1> HIDE DEF X
<1>2. C \in X
  BY <1>1, SubsetInduction
<1> QED BY <1>2 DEF X

(* A sum over what a set is mapped to, one to one, is a sum over the set.   *)
LEMMA SumImage ==
  ASSUME NEW f, NEW g, NEW h, NEW S, IsFiniteSet(S),
         \A x \in S : f[x] \in Int /\ g[h[x]] = f[x],
         \A x, y \in S : h[x] = h[y] => x = y
  PROVE  SumFunctionOnSet(g, {h[x] : x \in S}) = SumFunctionOnSet(f, S)
<1> DEFINE X == {U \in SUBSET S : /\ IsFiniteSet({h[x] : x \in U})
                                  /\ SumFunctionOnSet(g, {h[x] : x \in U}) = SumFunctionOnSet(f, U)}
<1>1. ASSUME NEW U \in SUBSET S, \A V \in SUBSET U : V # U => V \in X PROVE U \in X
  <2>0. IsFiniteSet(U) /\ \A x \in U : IsFiniteSet(U \ {x})
    BY FS_Subset, FS_RemoveElement
  <2>1. CASE U = {}
    <3>1. {h[x] : x \in U} = {}
      BY <2>1
    <3>2. SumFunctionOnSet(g, {h[x] : x \in U}) = SumFunctionOnSet(g, {})
      BY ONLY <3>1, Zenon
    <3>3. IsFiniteSet({h[x] : x \in U})
      BY <3>1, FS_EmptySet
    <3> QED BY <2>1, <3>2, <3>3, SumEmpty
  <2>2. CASE U # {}
    <3>1. PICK x \in U : TRUE
      BY <2>2
    <3>2. SumFunctionOnSet(f, U) = f[x] + SumFunctionOnSet(f, U \ {x})
      BY <2>0, SumRemove
    <3> DEFINE V == U \ {x}
               H == {h[y] : y \in V}
    <3>3. IsFiniteSet(H) /\ SumFunctionOnSet(g, H) = SumFunctionOnSet(f, V)
      BY <1>1
    <3>4. h[x] \notin H /\ {h[y] : y \in U} = H \cup {h[x]}
      OBVIOUS
    <3>5. \A z \in H \cup {h[x]} : g[z] \in Int
      OBVIOUS
    <3> HIDE DEF H
    <3>6. SumFunctionOnSet(g, H \cup {h[x]}) = g[h[x]] + SumFunctionOnSet(g, H)
      BY <3>3, <3>4, <3>5, SumAdd
    <3>7. SumFunctionOnSet(g, {h[y] : y \in U}) = SumFunctionOnSet(g, H \cup {h[x]})
      BY ONLY <3>4, Zenon
    <3>8. IsFiniteSet(H \cup {h[x]})
      BY <3>3, FS_AddElement
    <3>9. IsFiniteSet({h[y] : y \in U})
      BY ONLY <3>4, <3>8, Zenon
    <3>10. g[h[x]] = f[x]
      OBVIOUS
    <3> QED BY <3>2, <3>3, <3>6, <3>7, <3>9, <3>10
  <2> QED BY <2>1, <2>2
<1> HIDE DEF X
<1>2. S \in X
  BY <1>1, SubsetInduction
<1> QED BY <1>2 DEF X

(* What is rounded value by value to a unit of k stays as close to the     *)
(* exact sum as h allows for each value, in halves of the unit.            *)
LEMMA SumsClose ==
  ASSUME NEW k \in Nat, NEW f, NEW g, NEW h, NEW S, IsFiniteSet(S),
         \A x \in S : /\ f[x] \in Int /\ g[x] \in Int /\ h[x] \in Int
                      /\ 2 * (k * g[x] - f[x]) <= k * h[x]
                      /\ 2 * (f[x] - k * g[x]) <= k * h[x]
  PROVE  /\ 2 * (k * SumFunctionOnSet(g, S) - SumFunctionOnSet(f, S))
              <= k * SumFunctionOnSet(h, S)
         /\ 2 * (SumFunctionOnSet(f, S) - k * SumFunctionOnSet(g, S))
              <= k * SumFunctionOnSet(h, S)
<1> DEFINE Close(a, b, c) == 2 * (k * b - a) <= k * c /\ 2 * (a - k * b) <= k * c
           X == {U \in SUBSET S : Close(SumFunctionOnSet(f, U), SumFunctionOnSet(g, U),
                                        SumFunctionOnSet(h, U))}
<1>1. ASSUME NEW a \in Int, NEW b \in Int, NEW c \in Int, Close(a, b, c),
             NEW u \in Int, NEW v \in Int, NEW w \in Int, Close(u, v, w)
      PROVE  Close(a + u, b + v, c + w)
  <2>1. k * (b + v) = k * b + k * v /\ k * (c + w) = k * c + k * w
    OBVIOUS
  <2>2. k * b \in Int /\ k * v \in Int /\ k * c \in Int /\ k * w \in Int
    OBVIOUS
  <2> QED BY <1>1, <2>1, <2>2
<1>2. ASSUME NEW U \in SUBSET S, \A V \in SUBSET U : V # U => V \in X PROVE U \in X
  <2>0. IsFiniteSet(U) /\ \A x \in U : IsFiniteSet(U \ {x})
    BY FS_Subset, FS_RemoveElement
  <2>1. CASE U = {}
    BY <2>1, SumEmpty
  <2>2. CASE U # {}
    <3>1. PICK x \in U : TRUE
      BY <2>2
    <3>2. /\ SumFunctionOnSet(f, U) = f[x] + SumFunctionOnSet(f, U \ {x})
          /\ SumFunctionOnSet(g, U) = g[x] + SumFunctionOnSet(g, U \ {x})
          /\ SumFunctionOnSet(h, U) = h[x] + SumFunctionOnSet(h, U \ {x})
      BY <2>0, SumRemove
    <3>3. /\ SumFunctionOnSet(f, U \ {x}) \in Int
          /\ SumFunctionOnSet(g, U \ {x}) \in Int
          /\ SumFunctionOnSet(h, U \ {x}) \in Int
      BY <2>0, SumInt
    <3>4. f[x] \in Int /\ g[x] \in Int /\ h[x] \in Int /\ Close(f[x], g[x], h[x])
      OBVIOUS
    <3>5. Close(SumFunctionOnSet(f, U \ {x}), SumFunctionOnSet(g, U \ {x}),
                SumFunctionOnSet(h, U \ {x}))
      BY <1>2
    <3> HIDE DEF Close, X
    <3>6. Close(f[x] + SumFunctionOnSet(f, U \ {x}), g[x] + SumFunctionOnSet(g, U \ {x}),
                h[x] + SumFunctionOnSet(h, U \ {x}))
      BY <1>1, <3>3, <3>4, <3>5
    <3>7. Close(SumFunctionOnSet(f, U), SumFunctionOnSet(g, U), SumFunctionOnSet(h, U))
      BY <3>2, <3>6
    <3> QED BY <3>7 DEF X
  <2> QED BY <2>1, <2>2
<1> HIDE DEF X
<1>3. S \in X
  BY <1>2, SubsetInduction
<1> QED BY <1>3 DEF X
-----------------------------------------------------------------------------
(* Rounding moves a value by half a unit at most.                          *)
LEMMA RoundDivClose ==
  ASSUME NEW n \in Nat, NEW d \in Nat \ {0}
  PROVE  /\ RoundDiv(n, d) \in Nat
         /\ 2 * (d * RoundDiv(n, d) - n) <= d
         /\ 2 * (n - d * RoundDiv(n, d)) <= d
<1> DEFINE k == (2 * n + d) \div (2 * d)
<1>1. 2 * n + d \in Nat /\ 2 * d \in Nat \ {0}
  OBVIOUS
<1>2. k \in Nat
  BY <1>1
<1>3. (2 * d) * k <= 2 * n + d /\ 2 * n + d < (2 * d) * k + 2 * d
  BY <1>1
<1> HIDE DEF k
<1>4. (2 * d) * k = 2 * (d * k) /\ d * k \in Nat
  BY <1>2
<1>5. 2 * (d * k - n) <= d /\ 2 * (n - d * k) <= d
  BY <1>3, <1>4
<1> QED BY <1>2, <1>5 DEF RoundDiv, k

(* Rounding a quotient stays within the bounds of the quotient: what       *)
(* round(..., 6) in applyStockDelta may do to a cost.                      *)
LEMMA RoundDivBetween ==
  ASSUME NEW n \in Nat, NEW d \in Nat \ {0}, NEW lo \in Nat, NEW hi \in Nat,
         lo * d <= n, n <= hi * d
  PROVE  RoundDiv(n, d) \in lo..hi
<1> DEFINE k == (2 * n + d) \div (2 * d)
<1>1. 2 * n + d \in Nat /\ 2 * d \in Nat \ {0}
  OBVIOUS
<1>2. k \in Int /\ (2 * d) * k <= 2 * n + d /\ 2 * n + d < (2 * d) * k + 2 * d
  BY <1>1
<1> HIDE DEF k
<1>3. lo <= k
  <2>1. (2 * d) * lo <= 2 * n
    OBVIOUS
  <2>2. (2 * d) * lo < (2 * d) * k + 2 * d
    BY <2>1, <1>2
  <2>3. (2 * d) * lo < (2 * d) * (k + 1)
    BY <2>2, <1>2
  <2>4. lo < k + 1
    BY <2>3, <1>2, <1>1
  <2> QED BY <2>4, <1>2
<1>4. k <= hi
  <2>1. (2 * d) * k <= (2 * d) * hi + d
    BY <1>2
  <2>2. (2 * d) * k < (2 * d) * (hi + 1)
    BY <2>1, <1>2
  <2>3. k < hi + 1
    BY <2>2, <1>2, <1>1
  <2> QED BY <2>3, <1>2
<1> QED BY <1>2, <1>3, <1>4 DEF RoundDiv, k

(* The weighted average of two costs in a range is a cost in that range.   *)
LEMMA WeightedCostBetween ==
  ASSUME NEW row \in Row, NEW delta \in Int, NEW unitCost \in Cost,
         NEW lo \in Nat, NEW hi \in Nat,
         row.avgCost \in lo..hi \cup {NoCost},
         unitCost \in lo..hi \cup {NoCost}
  PROVE  WeightedCost(row, delta, unitCost) \in lo..hi \cup {NoCost}
<1> DEFINE q == row.quantity
           a == row.avgCost
<1>1. q \in Nat /\ a \in Cost
  BY DEF Row
<1>2. CASE unitCost = NoCost \/ delta <= 0
  BY <1>2 DEF WeightedCost
<1>3. CASE ~(unitCost = NoCost \/ delta <= 0) /\ (a = NoCost \/ q <= 0)
  BY <1>3 DEF WeightedCost
<1>4. CASE ~(unitCost = NoCost \/ delta <= 0) /\ ~(a = NoCost \/ q <= 0)
  <2>1. a \in lo..hi /\ unitCost \in lo..hi
    BY <1>4
  <2>2. q \in Nat /\ delta \in Nat /\ q + delta \in Nat \ {0}
    BY <1>1, <1>4
  <2> HIDE DEF q, a
  <2>3. q * lo <= q * a /\ q * a <= q * hi /\ q * a \in Nat
    BY <2>1, <2>2
  <2>4. delta * lo <= delta * unitCost /\ delta * unitCost <= delta * hi
        /\ delta * unitCost \in Nat
    BY <2>1, <2>2
  <2>5. lo * (q + delta) = q * lo + delta * lo
    BY <2>2
  <2>6. hi * (q + delta) = q * hi + delta * hi
    BY <2>2
  <2>7. lo * (q + delta) <= q * a + delta * unitCost
    BY <2>2, <2>3, <2>4, <2>5
  <2>8. q * a + delta * unitCost <= hi * (q + delta)
    BY <2>2, <2>3, <2>4, <2>6
  <2>9. RoundDiv(q * a + delta * unitCost, q + delta) \in lo..hi
    <3> DEFINE n == q * a + delta * unitCost
               d == q + delta
    <3>1. n \in Nat /\ d \in Nat \ {0} /\ lo * d <= n /\ n <= hi * d
      BY <2>2, <2>3, <2>4, <2>7, <2>8
    <3> HIDE DEF n, d
    <3>2. RoundDiv(n, d) \in lo..hi
      BY <3>1, RoundDivBetween
    <3> QED BY <3>2 DEF n, d
  <2>10. WeightedCost(row, delta, unitCost)
           = RoundDiv(q * a + delta * unitCost, q + delta)
    BY <1>4 DEF WeightedCost, q, a
  <2> QED BY <2>9, <2>10
<1> QED BY <1>2, <1>3, <1>4

(* A weighted cost is a cost.                                              *)
LEMMA WeightedCostType ==
  ASSUME NEW row \in Row, NEW delta \in Int, NEW unitCost \in Cost
  PROVE  WeightedCost(row, delta, unitCost) \in Cost
<1>1. row.avgCost \in Cost
  BY DEF Row
<1> DEFINE hi == (IF row.avgCost = NoCost THEN 0 ELSE row.avgCost)
                 + (IF unitCost = NoCost THEN 0 ELSE unitCost)
<1>2. hi \in Nat /\ row.avgCost \in 0..hi \cup {NoCost} /\ unitCost \in 0..hi \cup {NoCost}
  BY <1>1 DEF Cost, NoCost
<1> HIDE DEF hi
<1>3. WeightedCost(row, delta, unitCost) \in 0..hi \cup {NoCost}
  BY <1>2, WeightedCostBetween
<1> QED BY <1>2, <1>3 DEF Cost

(* What applyStockDelta does to a row it accepts: a typed row that exists  *)
(* and holds exactly delta more.                                           *)
LEMMA ApplyDeltaRow ==
  ASSUME NEW row \in Row, ~row.exists => row = NoRow,
         NEW delta \in Int, NEW unitCost \in Cost, CanApply(row, delta)
  PROVE  /\ ApplyDelta(row, delta, unitCost) \in Row
         /\ ApplyDelta(row, delta, unitCost).exists
         /\ ApplyDelta(row, delta, unitCost).quantity = row.quantity + delta
<1>1. row.quantity \in Nat /\ row.quantity + delta \in Nat
  BY DEF CanApply, Row
<1>2. CASE row.exists
  <2>1. WeightedCost(row, delta, unitCost) \in Cost
    BY WeightedCostType
  <2> QED BY <1>1, <1>2, <2>1 DEF ApplyDelta, Row
<1>3. CASE ~row.exists
  BY <1>1, <1>3 DEF ApplyDelta, Row, NoRow
<1> QED BY <1>2, <1>3

(* A recorded movement adds delta to the kardex and shows the balance it   *)
(* was given, unless there was nothing to record.                          *)
LEMMA RecordKardex ==
  ASSUME NEW k \in Kardex, NEW delta \in Int, NEW balance \in Nat, NEW reason
  PROVE  /\ Record(k, delta, balance, reason) \in Kardex
         /\ Record(k, delta, balance, reason).total = k.total + delta
         /\ Record(k, delta, balance, reason).balance
              = IF delta = 0 THEN k.balance ELSE balance
BY DEF Record, Kardex

(* The rows and the kardexes of the shelves Cs are typed, a missing row    *)
(* holds nothing, and every row is what its kardex adds up to.             *)
Explained(Cs, inv, kar) ==
  /\ inv \in [Cs -> Row]
  /\ kar \in [Cs -> Kardex]
  /\ \A c \in Cs : /\ ~inv[c].exists => inv[c] = NoRow
                   /\ kar[c].total = inv[c].quantity
                   /\ kar[c].balance = inv[c].quantity

(* One accepted applyStockDelta keeps the shelves typed and explained.     *)
LEMMA ApplyDeltaExplained ==
  ASSUME NEW Cs, NEW inv, NEW kar, Explained(Cs, inv, kar), NEW c \in Cs,
         NEW delta \in Int, NEW reason, NEW unitCost \in Cost, CanApply(inv[c], delta)
  PROVE  Explained(Cs, [inv EXCEPT ![c] = ApplyDelta(@, delta, unitCost)],
                   [kar EXCEPT ![c] = Record(@, delta, inv[c].quantity + delta, reason)])
<1> DEFINE row == inv[c]
           new == ApplyDelta(row, delta, unitCost)
           rec == Record(kar[c], delta, row.quantity + delta, reason)
<1>1. row \in Row /\ kar[c] \in Kardex /\ (~row.exists => row = NoRow)
      /\ kar[c].total = row.quantity /\ kar[c].balance = row.quantity
  BY DEF Explained
<1>2. CanApply(row, delta) /\ row.quantity \in Nat /\ row.quantity + delta \in Nat
  BY <1>1 DEF CanApply, Row
<1>3. new \in Row /\ new.exists /\ new.quantity = row.quantity + delta
  BY <1>1, <1>2, ApplyDeltaRow
<1>4. rec \in Kardex /\ rec.total = row.quantity + delta
      /\ rec.balance = row.quantity + delta
  <2>1. rec \in Kardex /\ rec.total = kar[c].total + delta
        /\ rec.balance = IF delta = 0 THEN kar[c].balance ELSE row.quantity + delta
    BY <1>1, <1>2, RecordKardex
  <2> QED BY <2>1, <1>1, <1>2
<1> HIDE DEF row, new, rec
<1>5. Explained(Cs, [inv EXCEPT ![c] = new], [kar EXCEPT ![c] = rec])
  BY <1>3, <1>4 DEF Explained
<1> QED BY <1>5 DEF row, new, rec
=============================================================================
