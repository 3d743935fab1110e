----------------------------- MODULE SetLemmas -----------------------------
(***************************************************************************)
(* Min, Max and sums over finite sets, as FiniteSetsExt defines them, for  *)
(* the proofs about other modules.                                         *)
(***************************************************************************)
EXTENDS Integers, FiniteSets, FiniteSetsExt, FiniteSetTheorems, WellFoundedInduction, TLAPS

\* Every set of natural numbers but the empty one has a least element.
LEMMA LeastExists ==
  ASSUME NEW S, S \subseteq Nat, S # {}
  PROVE  \E m \in S : \A n \in S : m <= n
<1>1. PICK m \in S : \A n \in S : ~ (<<n, m>> \in OpToRel(<, Nat))
  BY WFMin, NatLessThanWellFounded, Zenon
<1>2. ASSUME NEW n \in S PROVE m <= n
  <2>1. m \in Nat /\ n \in Nat
    OBVIOUS
  <2>2. n < m => <<n, m>> \in OpToRel(<, Nat)
    BY <2>1 DEF OpToRel
  <2>3. ~ (<<n, m>> \in OpToRel(<, Nat))
    BY <1>1, Zenon
  <2>4. ~ (n < m)
    BY <2>2, <2>3, Zenon
  <2> QED BY <2>1, <2>4
<1> QED BY <1>2

\* Min returns it.
LEMMA MinIsLeast ==
  ASSUME NEW S, S \subseteq Nat, S # {}
  PROVE  Min(S) \in S /\ \A n \in S : Min(S) <= n
BY LeastExists DEF Min

\* Max returns the greatest element of a bounded set.
LEMMA MaxIsGreatest ==
  ASSUME NEW S, S # {}, NEW bound \in Nat, S \subseteq 0..bound
  PROVE  Max(S) \in S /\ \A n \in S : n <= Max(S)
<1> DEFINE Below == {bound - n : n \in S}
<1>1. Below \subseteq Nat /\ Below # {}
  <2>1. \A n \in S : n \in Int /\ bound - n \in Nat
    OBVIOUS
  <2> QED BY <2>1
<1>2. PICK m \in Below : \A n \in Below : m <= n
  BY <1>1, LeastExists
<1>3. PICK greatest \in S : m = bound - greatest
  BY <1>2
<1>4. \A n \in S : greatest >= n
  BY <1>2, <1>3
<1> QED BY <1>4 DEF Max

-----------------------------------------------------------------------------
(* Sums.  MapThenSumSet takes an element away after the other; which one   *)
(* it takes first makes no difference.                                     *)

Pick(s) == CHOOSE x \in s : TRUE

\* g maps the subsets of D to the sums of w over them.
Totals(g, w, D) ==
  g = [s \in SUBSET D |-> IF s = {} THEN 0 ELSE w[Pick(s)] + g[s \ {Pick(s)}]]

LEMMA PickIsIn ==
  ASSUME NEW s, s # {}
  PROVE  Pick(s) \in s
BY DEF Pick

\* A collection of finite sets has a minimal one.
LEMMA MinimalExists ==
  ASSUME NEW D, IsFiniteSet(D), NEW Some, Some \subseteq SUBSET D, Some # {}
  PROVE  \E s \in Some : \A t \in SUBSET s : t # s => t \notin Some
<1> DEFINE sizes == {Cardinality(s) : s \in Some}
<1>1. \A s \in SUBSET D : IsFiniteSet(s) /\ Cardinality(s) \in Nat
  BY FS_Subset, FS_CardinalityType
<1>2. sizes \subseteq Nat /\ sizes # {}
  BY <1>1
<1>3. PICK k \in sizes : \A n \in sizes : k <= n
  BY <1>2, LeastExists
<1>4. PICK s \in Some : k = Cardinality(s)
  BY <1>3
<1>5. ASSUME NEW t \in SUBSET s, t # s PROVE t \notin Some
  <2>1. IsFiniteSet(s) /\ s \in SUBSET D /\ Cardinality(s) \in Nat
    BY <1>1
  <2>2. Cardinality(t) <= Cardinality(s) /\ Cardinality(s) # Cardinality(t)
        /\ Cardinality(t) \in Nat
    <3>1. IsFiniteSet(t)
      BY <2>1, FS_Subset
    <3> QED BY <2>1, <3>1, <1>5, FS_Subset, FS_CardinalityType
  <2>3. ~(k <= Cardinality(t))
    BY <1>4, <2>1, <2>2
  <2> QED BY <1>3, <2>3
<1> QED BY <1>5

LEMMA TotalsExist ==
  ASSUME NEW D, IsFiniteSet(D), NEW w \in [D -> Nat]
  PROVE  \E g : Totals(g, w, D)
<1> DEFINE Step(g) == [s \in SUBSET D |->
                         IF s = {} THEN 0 ELSE w[Pick(s)] + g[s \ {Pick(s)}]]
           Agrees(g, n) == /\ g \in [SUBSET D -> Nat]
                           /\ \A s \in SUBSET D : Cardinality(s) <= n => g[s] = Step(g)[s]
           Missing == {n \in Nat : ~\E g : Agrees(g, n)}
<1>1. \A s \in SUBSET D : IsFiniteSet(s) /\ Cardinality(s) \in Nat
  BY FS_Subset, FS_CardinalityType
<1>2. ASSUME NEW s \in SUBSET D, s # {}
      PROVE  /\ Pick(s) \in D /\ w[Pick(s)] \in Nat /\ s \ {Pick(s)} \in SUBSET D
             /\ Cardinality(s \ {Pick(s)}) = Cardinality(s) - 1
  <2>1. Pick(s) \in s
    BY <1>2, PickIsIn
  <2> QED BY <2>1, <1>1, FS_RemoveElement
<1>3. ASSUME NEW g \in [SUBSET D -> Nat]
      PROVE  Step(g) \in [SUBSET D -> Nat]
  <2>1. ASSUME NEW s \in SUBSET D
        PROVE  (IF s = {} THEN 0 ELSE w[Pick(s)] + g[s \ {Pick(s)}]) \in Nat
    <3>1. CASE s = {}
      BY <3>1
    <3>2. CASE s # {}
      <4>1. w[Pick(s)] \in Nat /\ g[s \ {Pick(s)}] \in Nat
        BY <1>2, <3>2
      <4> QED BY <3>2, <4>1
    <3> QED BY <3>1, <3>2
  <2> QED BY <2>1
<1>4. \A s \in SUBSET D : \A g : Step(g)[s] = IF s = {} THEN 0 ELSE w[Pick(s)] + g[s \ {Pick(s)}]
  OBVIOUS
<1> HIDE DEF Step
<1>5. Missing = {}
  <2>1. SUFFICES ASSUME Missing # {} PROVE FALSE
    OBVIOUS
  <2>2. PICK n \in Missing : \A k \in Missing : n <= k
    BY <2>1, LeastExists
  <2>3. CASE n = 0
    <3> DEFINE zero == [s \in SUBSET D |-> 0]
    <3>1. zero \in [SUBSET D -> Nat]
      OBVIOUS
    <3>2. \A s \in SUBSET D : Cardinality(s) <= 0 => zero[s] = Step(zero)[s]
      <4>1. \A s \in SUBSET D : Cardinality(s) <= 0 => s = {}
        BY <1>1, FS_EmptySet
      <4>2. Step(zero)[{}] = 0 /\ zero[{}] = 0
        BY <1>4
      <4> QED BY <4>1, <4>2
    <3> QED BY <2>2, <2>3, <3>1, <3>2
  <2>4. CASE n # 0
    <3>1. n \in Nat /\ n - 1 \in Nat /\ n - 1 \notin Missing
      <4>1. n \in Nat /\ n - 1 \in Nat /\ ~(n <= n - 1)
        BY <2>2, <2>4
      <4> HIDE DEF Missing
      <4> QED BY <2>2, <4>1
    <3>2. PICK g : Agrees(g, n - 1)
      BY <3>1
    <3>3. Step(g) \in [SUBSET D -> Nat]
      BY <3>2, <1>3
    <3>4. ASSUME NEW s \in SUBSET D, Cardinality(s) <= n
          PROVE  Step(g)[s] = Step(Step(g))[s]
      <4>1. CASE s = {}
        BY <1>4, <4>1
      <4>2. CASE s # {}
        <5> DEFINE t == s \ {Pick(s)}
        <5>1. t \in SUBSET D /\ Cardinality(t) <= n - 1
          BY <1>1, <1>2, <3>1, <3>4, <4>2
        <5>2. g[t] = Step(g)[t]
          BY <3>2, <5>1
        <5> QED BY <1>4, <4>2, <5>2
      <4> QED BY <4>1, <4>2
    <3>5. Agrees(Step(g), n)
      BY <3>3, <3>4
    <3> QED BY <2>2, <3>5
  <2> QED BY <2>3, <2>4
<1>6. Cardinality(D) \in Nat
  BY FS_CardinalityType
<1>7. PICK g : Agrees(g, Cardinality(D))
  BY <1>5, <1>6
<1>8. \A s \in SUBSET D : g[s] = Step(g)[s]
  BY <1>7, FS_Subset
<1>9. g = Step(g)
  <2>1. g = [s \in SUBSET D |-> g[s]] /\ Step(g) = [s \in SUBSET D |-> Step(g)[s]]
    BY <1>3, <1>7
  <2> QED BY <1>8, <2>1
<1> QED BY <1>9 DEF Totals, Step

LEMMA TotalsStep ==
  ASSUME NEW D, NEW w, NEW g, Totals(g, w, D)
  PROVE  /\ g[{}] = 0
         /\ \A s \in SUBSET D : s # {} =>
              g[s] = w[Pick(s)] + g[s \ {Pick(s)}] /\ Pick(s) \in s
<1> DEFINE h == [s \in SUBSET D |-> IF s = {} THEN 0 ELSE w[Pick(s)] + g[s \ {Pick(s)}]]
<1>1. g = h
  BY DEF Totals
<1>2. h[{}] = 0
  OBVIOUS
<1>3. \A s \in SUBSET D : s # {} => h[s] = w[Pick(s)] + g[s \ {Pick(s)}]
  OBVIOUS
<1> QED BY <1>1, <1>2, <1>3, PickIsIn

LEMMA TotalsAreNatural ==
  ASSUME NEW D, IsFiniteSet(D), NEW w \in [D -> Nat], NEW g, Totals(g, w, D)
  PROVE  \A s \in SUBSET D : g[s] \in Nat
<1> DEFINE Bad == {s \in SUBSET D : g[s] \notin Nat}
<1>1. SUFFICES ASSUME Bad # {} PROVE FALSE
  OBVIOUS
<1>2. PICK s \in Bad : \A t \in SUBSET s : t # s => t \notin Bad
  <2>1. Bad \subseteq SUBSET D
    OBVIOUS
  <2> HIDE DEF Bad
  <2> QED BY <1>1, <2>1, MinimalExists
<1>3. s # {}
  <2>1. g[{}] = 0
    BY TotalsStep
  <2> QED BY <1>2, <2>1
<1>4. g[s] = w[Pick(s)] + g[s \ {Pick(s)}] /\ Pick(s) \in s
  BY <1>2, <1>3, TotalsStep
<1>5. s \ {Pick(s)} \notin Bad /\ s \ {Pick(s)} \in SUBSET D
  BY <1>2, <1>4
<1>6. w[Pick(s)] \in Nat
  BY <1>2, <1>4
<1> QED BY <1>2, <1>4, <1>5, <1>6

\* Any element can be taken away.
LEMMA TotalsWithout ==
  ASSUME NEW D, IsFiniteSet(D), NEW w \in [D -> Nat], NEW g, Totals(g, w, D),
         NEW s \in SUBSET D, NEW x \in s
  PROVE  g[s] = w[x] + g[s \ {x}]
<1> DEFINE Bad == {t \in SUBSET D : \E y \in t : g[t] # w[y] + g[t \ {y}]}
<1>1. SUFFICES ASSUME Bad # {} PROVE FALSE
  OBVIOUS
<1>2. PICK t \in Bad : \A u \in SUBSET t : u # t => u \notin Bad
  <2>1. Bad \subseteq SUBSET D
    OBVIOUS
  <2> HIDE DEF Bad
  <2> QED BY <1>1, <2>1, MinimalExists
<1>3. PICK y \in t : g[t] # w[y] + g[t \ {y}]
  BY <1>2
<1> DEFINE p == Pick(t)
<1>4. g[t] = w[p] + g[t \ {p}] /\ p \in t
  BY <1>2, <1>3, TotalsStep
<1>5. p # y
  BY <1>3, <1>4
<1> HIDE DEF p
<1>6. /\ t \ {p} \in SUBSET t /\ t \ {p} # t /\ y \in t \ {p}
      /\ t \ {y} \in SUBSET t /\ t \ {y} # t /\ p \in t \ {y}
      /\ (t \ {p}) \ {y} = (t \ {y}) \ {p}
      /\ t \in SUBSET D
  BY <1>2, <1>3, <1>4, <1>5
<1>7. t \ {p} \notin Bad /\ t \ {y} \notin Bad
  BY <1>2, <1>6
<1>8. g[t \ {p}] = w[y] + g[(t \ {p}) \ {y}] /\ g[t \ {y}] = w[p] + g[(t \ {y}) \ {p}]
  BY <1>6, <1>7
<1>9. w[p] \in Nat /\ w[y] \in Nat /\ g[(t \ {y}) \ {p}] \in Nat
  <2>1. (t \ {y}) \ {p} \in SUBSET D
    BY <1>6
  <2> QED BY <1>6, <2>1, TotalsAreNatural
<1>10. g[t] = w[p] + (w[y] + g[(t \ {y}) \ {p}])
  BY <1>4, <1>6, <1>8
<1>11. g[t \ {y}] = w[p] + g[(t \ {y}) \ {p}]
  BY <1>8
<1> DEFINE rest == g[(t \ {y}) \ {p}]
<1> HIDE DEF rest, Bad
<1>12. w[p] + (w[y] + rest) = w[y] + (w[p] + rest)
  BY <1>9 DEF rest
<1> QED BY <1>3, <1>10, <1>11, <1>12 DEF rest

LEMMA TotalsGrow ==
  ASSUME NEW D, IsFiniteSet(D), NEW w \in [D -> Nat], NEW g, Totals(g, w, D),
         NEW s \in SUBSET D, NEW t \in SUBSET s
  PROVE  g[t] <= g[s]
<1> DEFINE Bad == {u \in SUBSET D : t \subseteq u /\ ~(g[t] <= g[u])}
<1>1. SUFFICES ASSUME Bad # {} PROVE FALSE
  OBVIOUS
<1>2. PICK u \in Bad : \A v \in SUBSET u : v # u => v \notin Bad
  BY ZenonT(30), <1>1, MinimalExists
<1>3. g[t] \in Nat /\ g[u] \in Nat
  BY <1>2, TotalsAreNatural
<1>4. PICK x \in u : x \notin t
  <2>1. u # t /\ t \subseteq u
    BY <1>2, <1>3
  <2> QED BY <2>1
<1>5. g[u] = w[x] + g[u \ {x}]
  BY <1>2, TotalsWithout
<1>6. u \ {x} \notin Bad /\ u \ {x} \in SUBSET D /\ t \subseteq u \ {x}
  BY <1>2, <1>4
<1>7. w[x] \in Nat /\ g[u \ {x}] \in Nat
  BY <1>2, <1>6, TotalsAreNatural
<1> QED BY <1>2, <1>3, <1>5, <1>6, <1>7

\* The sum over s depends on w over s alone.
LEMMA TotalsAgree ==
  ASSUME NEW D, IsFiniteSet(D), NEW w, NEW g, Totals(g, w, D),
         NEW E, NEW v, NEW h, Totals(h, v, E),
         NEW s, s \subseteq D, s \subseteq E, \A x \in s : w[x] = v[x]
  PROVE  g[s] = h[s]
<1> DEFINE Bad == {t \in SUBSET s : g[t] # h[t]}
<1>1. SUFFICES ASSUME Bad # {} PROVE FALSE
  OBVIOUS
<1>2. IsFiniteSet(s)
  BY FS_Subset
<1>3. PICK t \in Bad : \A u \in SUBSET t : u # t => u \notin Bad
  <2>1. Bad \subseteq SUBSET s
    OBVIOUS
  <2> HIDE DEF Bad
  <2> QED BY <1>1, <1>2, <2>1, MinimalExists
<1>4. t # {}
  BY <1>3, TotalsStep
<1>5. /\ g[t] = w[Pick(t)] + g[t \ {Pick(t)}] /\ Pick(t) \in t
      /\ h[t] = v[Pick(t)] + h[t \ {Pick(t)}]
  BY <1>3, <1>4, TotalsStep
<1>6. t \ {Pick(t)} \notin Bad /\ t \ {Pick(t)} \in SUBSET s
  BY <1>3, <1>5
<1> QED BY <1>3, <1>5, <1>6

\* Sums over a set and over its image by an injection.
LEMMA TotalsMoved ==
  ASSUME NEW E, IsFiniteSet(E), NEW v, NEW h, Totals(h, v, E),
         NEW D, IsFiniteSet(D), NEW w \in [D -> Nat], NEW g, Totals(g, w, D),
         NEW b \in [E -> D], \A x \in E : v[x] = w[b[x]],
         \A x, y \in E : b[x] = b[y] => x = y
  PROVE  h[E] = g[{b[x] : x \in E}]
<1> DEFINE Image(s) == {b[x] : x \in s}
           Bad == {t \in SUBSET E : h[t] # g[Image(t)]}
<1>1. SUFFICES ASSUME Bad # {} PROVE FALSE
  <2>1. E \notin Bad => h[E] = g[Image(E)]
    OBVIOUS
  <2> QED BY <2>1
<1>2. PICK t \in Bad : \A u \in SUBSET t : u # t => u \notin Bad
  <2>1. Bad \subseteq SUBSET E
    OBVIOUS
  <2> HIDE DEF Bad
  <2> QED BY <1>1, <2>1, MinimalExists
<1>3. t \in SUBSET E /\ h[t] # g[Image(t)]
  BY <1>2
<1>4. t # {}
  <2>1. Image({}) = {}
    OBVIOUS
  <2> HIDE DEF Image
  <2> QED BY <1>3, <2>1, TotalsStep
<1> DEFINE p == Pick(t)
<1>5. h[t] = v[p] + h[t \ {p}] /\ p \in t
  BY <1>3, <1>4, TotalsStep
<1> HIDE DEF p
<1>6. t \ {p} \in SUBSET t /\ t \ {p} # t /\ t \ {p} \in SUBSET E
  BY <1>3, <1>5
<1>7. h[t \ {p}] = g[Image(t \ {p})]
  <2>1. t \ {p} \notin Bad
    BY <1>2, <1>6
  <2> QED BY <1>6, <2>1
<1>8. Image(t) \in SUBSET D /\ b[p] \in Image(t) /\ v[p] = w[b[p]]
  BY <1>3, <1>5
<1>9. Image(t \ {p}) = Image(t) \ {b[p]}
  BY <1>3, <1>5
<1> HIDE DEF Image
<1>10. g[Image(t)] = w[b[p]] + g[Image(t) \ {b[p]}]
  BY SMTT(30), <1>8, TotalsWithout
<1> QED BY <1>3, <1>5, <1>7, <1>8, <1>9, <1>10

\* Sums over disjoint sets add up.
LEMMA TotalsUnion ==
  ASSUME NEW D, IsFiniteSet(D), NEW w \in [D -> Nat], NEW g, Totals(g, w, D),
         NEW s \in SUBSET D, NEW t \in SUBSET D, s \cap t = {}
  PROVE  g[s \cup t] = g[s] + g[t]
<1> DEFINE Bad == {u \in SUBSET t : g[s \cup u] # g[s] + g[u]}
<1>1. SUFFICES ASSUME Bad # {} PROVE FALSE
  OBVIOUS
<1>2. PICK u \in Bad : \A v \in SUBSET u : v # u => v \notin Bad
  <2>1. IsFiniteSet(t) /\ Bad \subseteq SUBSET t
    BY FS_Subset
  <2> HIDE DEF Bad
  <2> QED BY <2>1, <1>1, MinimalExists
<1>3. u \in SUBSET t /\ u \in SUBSET D /\ g[s \cup u] # g[s] + g[u]
  BY <1>2
<1>4. g[s] \in Nat /\ g[{}] = 0
  BY TotalsAreNatural, TotalsStep
<1>5. u # {}
  <2>1. SUFFICES ASSUME u = {} PROVE FALSE
    OBVIOUS
  <2>2. s \cup u = s /\ g[u] = 0
    BY <2>1, <1>4
  <2>3. g[s] # g[s] + 0
    BY <2>2, <1>3
  <2> QED BY <2>3, <1>4
<1>6. PICK x \in u : TRUE
  BY <1>5
<1> DEFINE v == u \ {x}
<1>7. v \in SUBSET u /\ v # u /\ v \in SUBSET D /\ x \in D
  BY <1>3
<1>8. g[s \cup v] = g[s] + g[v]
  <2>1. v \notin Bad /\ v \in SUBSET t
    BY <1>2, <1>3, <1>7
  <2> HIDE DEF v
  <2> QED BY <2>1
<1>9. g[u] = w[x] + g[v]
  BY <1>3, TotalsWithout
<1>10. g[s \cup u] = w[x] + g[s \cup v]
  <2>1. s \cup u \in SUBSET D /\ x \in s \cup u
    BY <1>3
  <2>2. (s \cup u) \ {x} = s \cup v
    BY <1>3
  <2> HIDE DEF v
  <2> QED BY <2>1, <2>2, TotalsWithout
<1>11. w[x] \in Nat /\ g[v] \in Nat
  BY <1>7, TotalsAreNatural
<1> HIDE DEF v, Bad
<1> QED BY <1>3, <1>4, <1>8, <1>9, <1>10, <1>11
=============================================================================
