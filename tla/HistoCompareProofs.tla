------------------------- MODULE HistoCompareProofs -------------------------
(* What the verdicts and the exit status of hipo-histos say, for every     *)
(* input, subsystem, limit and file: the sums a comparison takes, what the *)
(* events of a file fill, the order of a run's steps, and what follows for *)
(* the verdict on two files.                                               *)
EXTENDS HistoCompare, FiniteSetTheorems, WellFoundedInduction, TLAPS

(* Induction over the naturals, as a fact about a set of them.             *)
LEMMA NaturalsCounted ==
  ASSUME NEW G, 0 \in G, \A n \in Nat : n \in G => n + 1 \in G
  PROVE  Nat \subseteq G
  <1> SUFFICES ASSUME Nat \ G # {} PROVE FALSE
    OBVIOUS
  <1> DEFINE less == OpToRel(<, Nat)
  <1>1. IsWellFoundedOn(less, Nat)
    BY NatLessThanWellFounded
  <1>2. PICK x : x \in Nat \ G
    OBVIOUS
  <1>3. PICK m \in Nat \ G : \A y \in Nat \ G : ~(<<y, m>> \in less)
    BY <1>1, <1>2, WFMin
  <1>4. m # 0 /\ m - 1 \in Nat /\ m - 1 < m
    OBVIOUS
  <1>5. m - 1 \in G
    BY <1>3, <1>4 DEF OpToRel
  <1>6. (m - 1) + 1 \in G
    BY <1>4, <1>5
  <1> QED
    BY <1>6

-----------------------------------------------------------------------------
(* Sums of a function over a finite set.                                   *)

Chosen(T) == CHOOSE x \in T : TRUE

(* The function a sum is computed by, on the subsets with at most n        *)
(* elements.                                                               *)
AtMost(S, n) == {T \in SUBSET S : Cardinality(T) <= n}

SumBy(f, S, g) ==
  g = [T \in SUBSET S |-> IF T = {} THEN 0 ELSE f[Chosen(T)] + g[T \ {Chosen(T)}]]

LEMMA SubsetFacts ==
  ASSUME NEW S, IsFiniteSet(S), NEW T \in SUBSET S
  PROVE  /\ IsFiniteSet(T) /\ Cardinality(T) \in Nat
         /\ Cardinality(T) = 0 <=> T = {}
         /\ T # {} => Chosen(T) \in T
         /\ \A x \in T : Cardinality(T \ {x}) = Cardinality(T) - 1
  <1>1. IsFiniteSet(T)
    BY FS_Subset
  <1>2. \A x \in T : Cardinality(T \ {x}) = Cardinality(T) - 1
    BY <1>1, FS_RemoveElement
  <1> QED
    BY <1>1, <1>2, FS_CardinalityType, FS_EmptySet DEF Chosen

(* What holds of the empty set, and of a set once it holds of it without   *)
(* any one of its elements, holds of every finite set.                     *)
LEMMA SubsetsCounted ==
  ASSUME NEW S, IsFiniteSet(S), NEW G, {} \in G,
         \A T \in SUBSET S :
           T # {} /\ (\A x \in T : T \ {x} \in G) => T \in G
  PROVE  \A T \in SUBSET S : T \in G
  <1> DEFINE N == {n \in Nat : \A T \in SUBSET S : Cardinality(T) = n => T \in G}
  <1>1. 0 \in N
    BY SubsetFacts
  <1>2. ASSUME NEW n \in Nat, n \in N PROVE n + 1 \in N
    <2> SUFFICES ASSUME NEW T \in SUBSET S, Cardinality(T) = n + 1 PROVE T \in G
      OBVIOUS
    <2>1. T # {}
      BY SubsetFacts
    <2>2. ASSUME NEW x \in T PROVE T \ {x} \in G
      <3>1. Cardinality(T \ {x}) = n
        BY SubsetFacts
      <3> QED
        BY <1>2, <3>1
    <2> QED
      BY <2>1, <2>2
  <1> HIDE DEF N
  <1>3. Nat \subseteq N
    BY <1>1, <1>2, NaturalsCounted
  <1> QED
    BY <1>3, SubsetFacts DEF N

LEMMA SumDefinition ==
  ASSUME NEW f, NEW S, \E g : SumBy(f, S, g)
  PROVE  \E g : SumBy(f, S, g) /\ SumOver(f, S) = g[S]
  <1> DEFINE g == CHOOSE iter :
       iter = [T \in SUBSET S |-> IF T = {} THEN 0
                ELSE f[CHOOSE x \in T : TRUE] + iter[T \ {CHOOSE x \in T : TRUE}]]
  <1>1. SumBy(f, S, g)
    BY DEF SumBy, Chosen
  <1>2. SumOver(f, S) = g[S]
    BY DEF SumOver, SumFunctionOnSet, FoldFunctionOnSet, MapThenFoldSet
  <1> QED
    BY <1>1, <1>2

LEMMA SumExists ==
  ASSUME NEW f, NEW S, IsFiniteSet(S)
  PROVE  \E g : SumBy(f, S, g)
  <1> DEFINE Value(g, T) == IF T = {} THEN 0 ELSE f[Chosen(T)] + g[T \ {Chosen(T)}]
             UpTo(n, g) == g = [T \in AtMost(S, n) |-> Value(g, T)]
             N == {n \in Nat : \E g : UpTo(n, g)}
  <1>1. 0 \in N
    <2> DEFINE g == [T \in AtMost(S, 0) |-> 0]
    <2>1. \A T \in AtMost(S, 0) : T = {}
      BY SubsetFacts DEF AtMost
    <2>2. UpTo(0, g)
      BY <2>1
    <2> QED
      BY <2>2
  <1>2. ASSUME NEW n \in Nat, n \in N PROVE n + 1 \in N
    <2>1. PICK g : UpTo(n, g)
      BY <1>2
    <2> DEFINE new == [T \in AtMost(S, n + 1) |-> Value(g, T)]
    <2>2. ASSUME NEW T \in AtMost(S, n + 1), T # {}
          PROVE  new[T \ {Chosen(T)}] = g[T \ {Chosen(T)}]
      <3> DEFINE U == T \ {Chosen(T)}
      <3>1. U \in AtMost(S, n) /\ U \in AtMost(S, n + 1)
        BY <2>2, SubsetFacts DEF AtMost
      <3>2. new[U] = Value(g, U)
        BY <3>1
      <3>3. g[U] = Value(g, U)
        BY <2>1, <3>1
      <3> QED
        BY <3>2, <3>3
    <2>3. \A T \in AtMost(S, n + 1) : Value(g, T) = Value(new, T)
      BY <2>2
    <2>4. UpTo(n + 1, new)
      BY <2>3
    <2>5. \E any : UpTo(n + 1, any)
      <3> HIDE DEF new, UpTo
      <3> QED
        BY <2>4
    <2> HIDE DEF UpTo, new
    <2> QED
      BY <2>5
  <1>3. Nat \subseteq N
    <2> HIDE DEF N
    <2> QED
      BY <1>1, <1>2, NaturalsCounted
  <1>4. Cardinality(S) \in Nat
    BY FS_CardinalityType
  <1>5. PICK g : UpTo(Cardinality(S), g)
    BY <1>3, <1>4
  <1>6. AtMost(S, Cardinality(S)) = SUBSET S
    BY FS_Subset DEF AtMost
  <1> QED
    BY <1>5, <1>6 DEF SumBy

LEMMA SumIsBy ==
  ASSUME NEW f, NEW S, IsFiniteSet(S), NEW g, SumBy(f, S, g)
  PROVE  \A T \in SUBSET S : SumOver(f, T) = g[T]
  <1> TAKE T \in SUBSET S
  <1>1. IsFiniteSet(T)
    BY SubsetFacts
  <1>2. PICK h : SumBy(f, T, h) /\ SumOver(f, T) = h[T]
    BY <1>1, SumExists, SumDefinition
  <1> DEFINE G == {U \in SUBSET T : h[U] = g[U]}
  <1>3. {} \in G
    BY <1>2 DEF SumBy
  <1>4. ASSUME NEW U \in SUBSET T, U # {}, \A x \in U : U \ {x} \in G PROVE U \in G
    <2>1. Chosen(U) \in U
      BY <1>1, <1>4, SubsetFacts
    <2>2. h[U] = f[Chosen(U)] + h[U \ {Chosen(U)}]
      BY <1>2, <1>4 DEF SumBy
    <2>3. g[U] = f[Chosen(U)] + g[U \ {Chosen(U)}]
      BY <1>4 DEF SumBy
    <2> QED
      BY <1>4, <2>1, <2>2, <2>3
  <1> HIDE DEF G
  <1>5. T \in G
    BY <1>1, <1>3, <1>4, SubsetsCounted
  <1> QED
    BY <1>2, <1>5 DEF G

(* A sum is an element and the sum of the rest.                            *)
LEMMA SumOfRest ==
  ASSUME NEW f, NEW S, IsFiniteSet(S)
  PROVE  /\ SumOver(f, {}) = 0
         /\ \A T \in SUBSET S : T # {} => SumOver(f, T) = f[Chosen(T)] + SumOver(f, T \ {Chosen(T)})
  <1>1. PICK g : SumBy(f, S, g)
    BY SumExists
  <1>2. \A T \in SUBSET S : SumOver(f, T) = g[T]
    BY <1>1, SumIsBy
  <1>3. g[{}] = 0
    BY <1>1 DEF SumBy
  <1>4. ASSUME NEW T \in SUBSET S, T # {} PROVE g[T] = f[Chosen(T)] + g[T \ {Chosen(T)}]
    BY <1>1, <1>4 DEF SumBy
  <1> QED
    BY <1>2, <1>3, <1>4

LEMMA SumIsInteger ==
  ASSUME NEW f, NEW S, IsFiniteSet(S), \A x \in S : f[x] \in Int
  PROVE  \A T \in SUBSET S : SumOver(f, T) \in Int
  <1> DEFINE G == {T \in SUBSET S : SumOver(f, T) \in Int}
  <1>1. {} \in G
    <2>1. SumOver(f, {}) = 0
      BY SumOfRest
    <2> QED
      BY <2>1
  <1>2. ASSUME NEW T \in SUBSET S, T # {}, \A x \in T : T \ {x} \in G PROVE T \in G
    <2>1. Chosen(T) \in T
      BY <1>2, SubsetFacts
    <2>2. SumOver(f, T) = f[Chosen(T)] + SumOver(f, T \ {Chosen(T)})
      BY <1>2, SumOfRest
    <2> QED
      BY <1>2, <2>1, <2>2
  <1> HIDE DEF G
  <1>3. \A T \in SUBSET S : T \in G
    BY <1>1, <1>2, SubsetsCounted
  <1> QED
    BY <1>3 DEF G

LEMMA SumOfEqual ==
  ASSUME NEW f, NEW g, NEW S, IsFiniteSet(S), \A x \in S : f[x] = g[x]
  PROVE  SumOver(f, S) = SumOver(g, S)
  <1> DEFINE G == {T \in SUBSET S : SumOver(f, T) = SumOver(g, T)}
  <1>1. {} \in G
    <2>1. SumOver(f, {}) = 0 /\ SumOver(g, {}) = 0
      BY SumOfRest
    <2> QED
      BY <2>1
  <1>2. ASSUME NEW T \in SUBSET S, T # {}, \A x \in T : T \ {x} \in G PROVE T \in G
    <2>1. Chosen(T) \in T
      BY <1>2, SubsetFacts
    <2>2. /\ SumOver(f, T) = f[Chosen(T)] + SumOver(f, T \ {Chosen(T)})
          /\ SumOver(g, T) = g[Chosen(T)] + SumOver(g, T \ {Chosen(T)})
      BY <1>2, SumOfRest
    <2> QED
      BY <1>2, <2>1, <2>2
  <1> HIDE DEF G
  <1>3. \A T \in SUBSET S : T \in G
    BY <1>1, <1>2, SubsetsCounted
  <1> QED
    BY <1>3 DEF G

LEMMA SumOfSums ==
  ASSUME NEW f, NEW g, NEW h, NEW c \in Int, NEW d \in Int, NEW S, IsFiniteSet(S),
         \A x \in S : f[x] \in Int /\ g[x] \in Int /\ h[x] = c * f[x] + d * g[x]
  PROVE  SumOver(h, S) = c * SumOver(f, S) + d * SumOver(g, S)
  <1> DEFINE G == {T \in SUBSET S : SumOver(h, T) = c * SumOver(f, T) + d * SumOver(g, T)}
  <1>1. {} \in G
    <2>1. SumOver(f, {}) = 0 /\ SumOver(g, {}) = 0 /\ SumOver(h, {}) = 0
      BY SumOfRest
    <2>2. c * 0 + d * 0 = 0
      OBVIOUS
    <2> QED
      BY <2>1, <2>2
  <1>2. ASSUME NEW T \in SUBSET S, T # {}, \A x \in T : T \ {x} \in G PROVE T \in G
    <2> DEFINE x == Chosen(T)
               R == T \ {x}
    <2>1. x \in T /\ R \in SUBSET S
      BY <1>2, SubsetFacts
    <2>2. /\ SumOver(f, T) = f[x] + SumOver(f, R)
          /\ SumOver(g, T) = g[x] + SumOver(g, R)
          /\ SumOver(h, T) = h[x] + SumOver(h, R)
      BY <1>2, SumOfRest
    <2>3. SumOver(f, R) \in Int /\ SumOver(g, R) \in Int
      BY <2>1, SumIsInteger
    <2>4. SumOver(h, R) = c * SumOver(f, R) + d * SumOver(g, R)
      BY <1>2, <2>1
    <2>5. f[x] \in Int /\ g[x] \in Int /\ h[x] = c * f[x] + d * g[x]
      BY <2>1
    <2>6. ASSUME NEW a \in Int, NEW b \in Int, NEW p \in Int, NEW q \in Int
          PROVE  (c * a + d * b) + (c * p + d * q) = c * (a + p) + d * (b + q)
      OBVIOUS
    <2> HIDE DEF x, R
    <2>7. SumOver(h, T) = c * SumOver(f, T) + d * SumOver(g, T)
      BY <2>2, <2>3, <2>4, <2>5, <2>6
    <2> QED
      BY <2>7
  <1> HIDE DEF G
  <1>3. \A T \in SUBSET S : T \in G
    BY <1>1, <1>2, SubsetsCounted
  <1> QED
    BY <1>3 DEF G

(* Chosen element may come first.                                             *)
LEMMA SumWithElement ==
  ASSUME NEW f, NEW S, IsFiniteSet(S), \A x \in S : f[x] \in Int
  PROVE  \A T \in SUBSET S : \A x \in T : SumOver(f, T) = f[x] + SumOver(f, T \ {x})
  <1> DEFINE G == {T \in SUBSET S : \A x \in T : SumOver(f, T) = f[x] + SumOver(f, T \ {x})}
  <1>1. {} \in G
    OBVIOUS
  <1>2. ASSUME NEW T \in SUBSET S, T # {}, \A x \in T : T \ {x} \in G PROVE T \in G
    <2> SUFFICES ASSUME NEW x \in T PROVE SumOver(f, T) = f[x] + SumOver(f, T \ {x})
      OBVIOUS
    <2> DEFINE y == Chosen(T)
               R == (T \ {x}) \ {y}
    <2>1. y \in T /\ SumOver(f, T) = f[y] + SumOver(f, T \ {y})
      BY <1>2, SubsetFacts, SumOfRest
    <2>2. CASE x = y
      BY <2>1, <2>2
    <2>3. CASE x # y
      <3>1. R = (T \ {y}) \ {x}
        OBVIOUS
      <3>2. SumOver(f, T \ {y}) = f[x] + SumOver(f, R)
        BY <1>2, <2>1, <2>3, <3>1
      <3>3. SumOver(f, T \ {x}) = f[y] + SumOver(f, R)
        BY <1>2, <2>1, <2>3
      <3>4. SumOver(f, R) \in Int /\ f[x] \in Int /\ f[y] \in Int
        BY <2>1, SumIsInteger
      <3> HIDE DEF R, y
      <3> QED
        BY <2>1, <3>2, <3>3, <3>4
    <2> QED
      BY <2>2, <2>3
  <1> HIDE DEF G
  <1>3. \A T \in SUBSET S : T \in G
    BY <1>1, <1>2, SubsetsCounted
  <1> QED
    BY <1>3 DEF G

-----------------------------------------------------------------------------

(* What is filled: how often each fill was made.                           *)
IsCount(bag) == bag \in [DOMAIN bag -> Nat]

LEMMA CopiesAreCounted ==
  ASSUME NEW bag, IsCount(bag)
  PROVE  /\ \A x : Copies(x, bag) \in Nat
         /\ \A x \in DOMAIN bag : Copies(x, bag) = bag[x]
         /\ \A x : x \notin DOMAIN bag => Copies(x, bag) = 0
  BY DEF IsCount, Copies, BagIn, BagToSet

LEMMA CopiesAdd ==
  ASSUME NEW a, NEW b, IsCount(a), IsCount(b)
  PROVE  /\ IsCount(a (+) b)
         /\ \A x : Copies(x, a (+) b) = Copies(x, a) + Copies(x, b)
  <1> DEFINE sum == [e \in (DOMAIN a) \cup (DOMAIN b) |->
               (IF e \in DOMAIN a THEN a[e] ELSE 0) + (IF e \in DOMAIN b THEN b[e] ELSE 0)]
  <1>1. a (+) b = sum
    BY DEF (+)
  <1>2. IsCount(sum)
    BY DEF IsCount
  <1>3. \A x : Copies(x, sum) = Copies(x, a) + Copies(x, b)
    BY DEF IsCount, Copies, BagIn, BagToSet
  <1> QED
    BY <1>1, <1>2, <1>3

LEMMA NothingFilled == IsCount(EmptyBag) /\ \A x : Copies(x, EmptyBag) = 0
  BY DEF IsCount, EmptyBag, SetToBag, Copies, BagIn, BagToSet

LEMMA TallyIsCount ==
  ASSUME NEW fills, IsFiniteSet(DOMAIN fills)
  PROVE  /\ IsCount(Tally(fills))
         /\ \A x : Copies(x, Tally(fills)) = Cardinality({i \in DOMAIN fills : x \in fills[i]})
  <1>1. \A x : IsFiniteSet({i \in DOMAIN fills : x \in fills[i]})
    BY FS_Subset
  <1>2. \A x : Cardinality({i \in DOMAIN fills : x \in fills[i]}) \in Nat
    BY <1>1, FS_CardinalityType
  <1>3. ASSUME NEW x, x \notin UNION Range(fills)
        PROVE  Cardinality({i \in DOMAIN fills : x \in fills[i]}) = 0
    <2>1. {i \in DOMAIN fills : x \in fills[i]} = {}
      BY <1>3 DEF Range
    <2> QED
      BY <2>1, FS_EmptySet
  <1> QED
    BY <1>2, <1>3 DEF Tally, IsCount, Copies, BagIn, BagToSet

LEMMA NotTallied ==
  ASSUME NEW fills, NEW x, \A i \in DOMAIN fills : x \notin fills[i]
  PROVE  x \notin DOMAIN Tally(fills) /\ Copies(x, Tally(fills)) = 0
  BY DEF Tally, Range, Copies, BagIn, BagToSet

IsEvent(event) ==
  \A rows \in {event.adc, event.tdc, event.true, event.particles} : IsFiniteSet(DOMAIN rows)

LEMMA FtIsCount ==
  ASSUME NEW event, IsEvent(event)
  PROVE  IsCount(FtFill(event))
  BY TallyIsCount DEF FtFill, Filled, IsEvent

LEMMA CounterIsCount ==
  ASSUME NEW event, IsEvent(event), NEW t
  PROVE  IsCount(CounterFill(t, event))
  <1> USE TallyIsCount DEF IsEvent
  <1> DEFINE Adc == Filled(event.adc, LAMBDA row : Accepted(t, row), LAMBDA row :
               {OfLayer("adc", row), One("adc", row.value), OnMap(row)})
             Tdc == Filled(event.tdc, LAMBDA row : Accepted(t, row), LAMBDA row :
               {OfLayer("tdc", row), One("tdc", row.value)})
             Hits == Filled(event.true, Own, LAMBDA row :
               {One("xy", row.value), One("true_time", row.value)})
  <1>1. IsCount(Adc)
    BY DEF Filled
  <1>2. IsCount(Tdc)
    BY DEF Filled
  <1>3. IsCount(Hits)
    BY DEF Filled
  <1>4. CounterFill(t, event) = Adc (+) Tdc (+) Hits
    BY DEF CounterFill
  <1> HIDE DEF Adc, Tdc, Hits
  <1>5. IsCount(Adc (+) Tdc)
    BY <1>1, <1>2, CopiesAdd
  <1>6. IsCount(Adc (+) Tdc (+) Hits)
    BY <1>3, <1>5, CopiesAdd
  <1> QED
    BY <1>4, <1>6

LEMMA PrimaryIsCount ==
  ASSUME NEW event, IsEvent(event)
  PROVE  IsCount(PrimaryFill(event))
  <1>1. IsFiniteSet(DOMAIN event.particles \cap {1})
    BY FS_Intersection, FS_Singleton
  <1> QED
    BY <1>1, TallyIsCount DEF PrimaryFill

LEMMA CalorimeterIsCount ==
  ASSUME NEW event, IsEvent(event)
  PROVE  IsCount(EcFill(event)) /\ IsCount(PcalFill(event))
  <1> USE TallyIsCount DEF IsEvent
  <1> DEFINE First == PrimaryFill(event)
             EcAdc == Filled(event.adc, LAMBDA row : Accepted("ec", row), LAMBDA row :
               {OnMap(row), One("adc_sector", row.sector), OfView("adc", row, row.component)})
             EcTdc == Filled(event.tdc, LAMBDA row : Accepted("ec", row), LAMBDA row :
               {OfView("tdc_view", row, row.component), OfView("tdc_view", row, 0),
                OfLayer("tdc", row), One("tdc", row.value)})
             EcHits == Filled(event.true, Own, LAMBDA row :
               {One("true_sector", row.sector), One("xy", row.value)})
             PcalAdc == Filled(event.adc, LAMBDA row : Accepted("pcal", row), LAMBDA row :
               {OnMap(row), One("adc_sector", row.sector), OfStrip("adc", row),
                OfLayer("adc", row), One("adc", row.value)})
             PcalTdc == Filled(event.tdc, LAMBDA row : Accepted("pcal", row), LAMBDA row :
               {OfStrip("tdc", row), OfLayer("tdc", row), One("tdc", row.value)})
             PcalHits == Filled(event.true, Own, LAMBDA row :
               {One("true_sector", row.sector), One("edep", row.value), One("xy", row.value)})
  <1>1. IsCount(First)
    BY PrimaryIsCount
  <1>2. IsCount(EcAdc) /\ IsCount(PcalAdc)
    BY DEF Filled
  <1>3. IsCount(EcTdc) /\ IsCount(PcalTdc)
    BY DEF Filled
  <1>4. IsCount(EcHits) /\ IsCount(PcalHits)
    BY DEF Filled
  <1>5. EcFill(event) = First (+) EcAdc (+) EcTdc (+) EcHits
    BY DEF EcFill
  <1>6. PcalFill(event) = First (+) PcalAdc (+) PcalTdc (+) PcalHits
    BY DEF PcalFill
  <1> HIDE DEF First, EcAdc, EcTdc, EcHits, PcalAdc, PcalTdc, PcalHits
  <1>7. IsCount(First (+) EcAdc) /\ IsCount(First (+) PcalAdc)
    BY <1>1, <1>2, CopiesAdd
  <1>8. IsCount(First (+) EcAdc (+) EcTdc) /\ IsCount(First (+) PcalAdc (+) PcalTdc)
    BY <1>3, <1>7, CopiesAdd
  <1>9. /\ IsCount(First (+) EcAdc (+) EcTdc (+) EcHits)
        /\ IsCount(First (+) PcalAdc (+) PcalTdc (+) PcalHits)
    BY <1>4, <1>8, CopiesAdd
  <1> QED
    BY <1>5, <1>6, <1>9

(* The bins of the drift chambers, apart from those of an event's vertex.  *)
LEMMA WireIsCount ==
  ASSUME NEW event, IsEvent(event)
  PROVE  IsCount(VertexFill(event)) /\ IsCount(WireFill(event))
  <1> USE DEF IsEvent
  <1> DEFINE Once == Filled(event.true, LAMBDA row : WireHit(event, row), LAMBDA row :
               {One("xy", row.value), <<<<"rz_vertex", WireRegion(event, row), 0>>, At(row.vertex)>>})
             occupied == Filled(event.true, LAMBDA row : WireHit(event, row),
                                LAMBDA row : OnWire(event, row))
             Weighted == [fill \in DOMAIN occupied |-> Weight(FillRegion(fill)) * occupied[fill]]
  <1>1. IsCount(VertexFill(event))
    BY DEF VertexFill, SetToBag, IsCount
  <1>2. IsCount(Once)
    BY TallyIsCount DEF Filled
  <1>3. IsCount(occupied)
    BY TallyIsCount DEF Filled
  <1>4. WireFill(event) = Once (+) Weighted
    BY DEF WireFill
  <1> HIDE DEF Once, occupied
  <1>5. IsCount(Weighted)
    <2>1. \A r : Weight(r) \in Nat
      BY DEF Weight
    <2>2. \A x \in DOMAIN occupied : occupied[x] \in Nat
      BY <1>3 DEF IsCount
    <2>3. \A x \in DOMAIN occupied : Weight(FillRegion(x)) * occupied[x] \in Nat
      BY <2>1, <2>2
    <2> QED
      BY <2>3 DEF IsCount
  <1> HIDE DEF Weighted
  <1>6. IsCount(Once (+) Weighted)
    BY <1>2, <1>5, CopiesAdd
  <1> QED
    BY <1>1, <1>4, <1>6

LEMMA DcIsCount ==
  ASSUME NEW event, IsEvent(event)
  PROVE  IsCount(DcFill(event))
  <1> USE DEF IsEvent
  <1> DEFINE Particles == Filled(event.particles, LAMBDA row : row.moving, LAMBDA row :
               {One("momentum", row.value), One("theta", row.value), One("phi", row.value)})
             Tdc == Filled(event.tdc, LAMBDA row : Accepted("dc", row), LAMBDA row :
               {<<<<"tdc", Region(row.layer), row.sector>>, At(row.value)>>})
  <1>1. IsCount(Particles)
    BY TallyIsCount DEF Filled
  <1>2. IsCount(Tdc)
    BY TallyIsCount DEF Filled
  <1>3. DcFill(event) = Particles (+) Tdc (+) VertexFill(event) (+) WireFill(event)
    BY DEF DcFill
  <1> HIDE DEF Particles, Tdc, IsEvent
  <1>4. IsCount(Particles (+) Tdc)
    BY <1>1, <1>2, CopiesAdd
  <1>5. IsCount(Particles (+) Tdc (+) VertexFill(event))
    BY <1>4, WireIsCount, CopiesAdd
  <1>6. IsCount(Particles (+) Tdc (+) VertexFill(event) (+) WireFill(event))
    BY <1>5, WireIsCount, CopiesAdd
  <1> QED
    BY <1>3, <1>6

LEMMA FillIsCount ==
  ASSUME NEW event, IsEvent(event), NEW t \in Subsystems
  PROVE  IsCount(Fill(t, event))
  BY FtIsCount, CounterIsCount, CalorimeterIsCount, DcIsCount DEF Fill, Subsystems, Counters

LEMMA SquaresAreCounts ==
  ASSUME NEW bag, IsCount(bag)
  PROVE  /\ IsCount(EventSquares(bag))
         /\ \A x : x[1][1] \in EventLevel =>
              Copies(x, EventSquares(bag)) = Square(Copies(x, bag))
  <1>1. \A x \in DOMAIN bag : Square(bag[x]) \in Nat
    BY DEF IsCount, Square
  <1>2. IsCount(EventSquares(bag))
    BY <1>1 DEF IsCount, EventSquares
  <1>3. ASSUME NEW x, x[1][1] \in EventLevel
        PROVE  Copies(x, EventSquares(bag)) = Square(Copies(x, bag))
    BY <1>3 DEF EventSquares, Copies, BagIn, BagToSet, Square
  <1> QED
    BY <1>2, <1>3

-----------------------------------------------------------------------------
(* The verdict on two histograms.                                          *)

IsHistos(file) ==
  /\ file.events \in Nat
  /\ IsCount(file.filled) /\ IsCount(file.squares)
  /\ file.events = 0 => file.filled = EmptyBag

LEMMA BinsAreFinite ==
  ASSUME NEW t \in Subsystems, NEW h
  PROVE  IsFiniteSet(Bins(t, h))
  <1> DEFINE Across(layers) == UNION {1 .. Components[t][layer] : layer \in layers}
             G == {layers \in SUBSET Layers(t) : IsFiniteSet(Across(layers))}
  <1>0. IsFiniteSet(Layers(t)) /\ \A layer \in Layers(t) : Components[t][layer] \in Nat
    BY SubsystemAssumption DEF Layers
  <1>1. {} \in G
    <2>1. Across({}) = {}
      OBVIOUS
    <2> QED
      BY <2>1, FS_EmptySet
  <1>2. ASSUME NEW T \in SUBSET Layers(t), T # {}, \A x \in T : T \ {x} \in G PROVE T \in G
    <2>1. PICK x : x \in T
      BY <1>2
    <2>2. IsFiniteSet(1 .. Components[t][x])
      BY <1>0, <2>1, FS_Interval
    <2>3. IsFiniteSet(Across(T \ {x}))
      BY <1>2, <2>1
    <2>4. Across(T) = Across(T \ {x}) \cup (1 .. Components[t][x])
      BY <2>1
    <2>5. IsFiniteSet(Across(T))
      <3> HIDE DEF Across
      <3> QED
        BY <2>2, <2>3, <2>4, FS_Union
    <2> QED
      BY <2>5
  <1> HIDE DEF G
  <1>3. Layers(t) \in G
    BY <1>0, <1>1, <1>2, SubsetsCounted
  <1>4. IsFiniteSet(Across(Layers(t)))
    BY <1>3 DEF G
  <1>5. IsFiniteSet(1 .. Sectors) /\ IsFiniteSet(1 .. BinCount) /\ IsFiniteSet({0})
    <2>1. 1 \in Int /\ Sectors \in Int /\ BinCount \in Int
      BY SubsystemAssumption
    <2> QED
      BY <2>1, FS_Interval, FS_Singleton
  <1>6. IsFiniteSet(Across(Layers(t)) \X Layers(t)) /\ IsFiniteSet((1 .. Sectors) \X {0})
        /\ IsFiniteSet((1 .. BinCount) \X {0})
    BY <1>0, <1>4, <1>5, FS_Product
  <1> QED
    BY <1>6 DEF Bins

LEMMA DivisorsAreCounts ==
  ASSUME NEW t, NEW h, NEW file, IsHistos(file), NEW normalize
  PROVE  /\ FinalDivisor(t, h, file.events) \in Nat \ {0}
         /\ ScaleDivisor(t, h, file, normalize) \in Nat \ {0}
         /\ Divisor(t, h, file, normalize) \in Nat \ {0}
         /\ ErrorDivisor(h, file) \in Nat \ {0}
  <1>1. Channels \in Nat \ {0}
    BY SubsystemAssumption
  <1>2. \A m \in Nat \ {0}, n \in Nat \ {0} : m * n \in Nat \ {0}
    OBVIOUS
  <1>3. FinalDivisor(t, h, file.events) \in Nat \ {0}
    BY <1>1, <1>2 DEF FinalDivisor, IsHistos
  <1>4. ScaleDivisor(t, h, file, normalize) \in Nat \ {0}
    BY CopiesAreCounted DEF ScaleDivisor, IsHistos
  <1>5. ErrorDivisor(h, file) \in Nat \ {0}
    BY DEF ErrorDivisor, IsHistos
  <1> QED
    BY <1>2, <1>3, <1>4, <1>5 DEF Divisor

LEMMA ContentsAreCounts ==
  ASSUME NEW h, NEW file, IsHistos(file), NEW bin
  PROVE  Content(file, h, bin) \in Nat /\ SquaredError(h, file, bin) \in Int
  <1>1. Content(file, h, bin) \in Nat /\ Copies(<<h, bin>>, file.squares) \in Nat
    BY CopiesAreCounted DEF Content, IsHistos
  <1>2. Weight(Region(bin[2])) \in Nat
    BY DEF Weight
  <1>3. \A m \in Nat, n \in Nat, k \in Nat : m * n - k * k \in Int /\ m * n \in Int
    OBVIOUS
  <1> QED
    BY <1>1, <1>2, <1>3 DEF SquaredError, Square, IsHistos

LEMMA ShapeIgnoresOrder ==
  ASSUME NEW bins, NEW A, NEW B, NEW V, NEW k, NEW unit,
         \A bin \in bins : A[bin] \in Int /\ B[bin] \in Int
  PROVE  ShapeDiffers(A, B, V, bins, k, unit) = ShapeDiffers(B, A, V, bins, k, unit)
  <1>1. \A x \in Int, y \in Int :
          Square(x - y) = Square(y - x) /\ x + y = y + x
    BY DEF Square
  <1>2. \A bin \in bins :
          Chi2(A[bin], B[bin], V[bin], k, unit) = Chi2(B[bin], A[bin], V[bin], k, unit)
    BY <1>1 DEF Chi2
  <1>3. [bin \in bins |-> Chi2(A[bin], B[bin], V[bin], k, unit)] =
        [bin \in bins |-> Chi2(B[bin], A[bin], V[bin], k, unit)]
    BY <1>2
  <1>4. {bin \in bins : A[bin] # B[bin]} = {bin \in bins : B[bin] # A[bin]}
    OBVIOUS
  <1> QED
    BY <1>3, <1>4, Zenon DEF ShapeDiffers

LEMMA RateIgnoresOrder ==
  ASSUME NEW bins, IsFiniteSet(bins), NEW A, NEW B, NEW V, NEW k, NEW unit,
         \A bin \in bins : A[bin] \in Int /\ B[bin] \in Int
  PROVE  RateDiffers(A, B, V, bins, k, unit) = RateDiffers(B, A, V, bins, k, unit)
  <1> DEFINE X == SumOver(A, bins)
             Y == SumOver(B, bins)
  <1>1. X \in Int /\ Y \in Int
    BY SumIsInteger
  <1> HIDE DEF X, Y
  <1>2. Distance(X, Y) = Distance(Y, X) /\ Larger(X, Y) = Larger(Y, X)
    BY <1>1 DEF Distance, Larger
  <1> QED
    BY <1>2, Zenon DEF RateDiffers, X, Y

LEMMA BinIgnoresOrder ==
  ASSUME NEW bins, NEW A, NEW B, NEW limit, NEW unit,
         \A bin \in bins : A[bin] \in Int /\ B[bin] \in Int
  PROVE  BinDiffers(A, B, bins, limit, unit) = BinDiffers(B, A, bins, limit, unit)
  <1>1. \A bin \in bins : Distance(A[bin], B[bin]) = Distance(B[bin], A[bin])
    BY DEF Distance
  <1> QED
    BY <1>1, Zenon DEF BinDiffers

(* Which of two histograms is named first makes no difference.             *)
LEMMA PassedIgnoresOrder ==
  ASSUME NEW t \in Subsystems, NEW h, NEW a, NEW b, IsHistos(a), IsHistos(b), NEW options
  PROVE  Passed(t, h, a, b, options) = Passed(t, h, b, a, options)
  <1> DEFINE normalize == a.events # b.events
             ofA == Divisor(t, h, a, normalize)
             ofB == Divisor(t, h, b, normalize)
             bins == Compared(t, h, a, b, options)
             A == [bin \in bins |-> Content(a, h, bin) * ofB]
             B == [bin \in bins |-> Content(b, h, bin) * ofA]
             eA == ErrorDivisor(h, a)
             eB == ErrorDivisor(h, b)
             V == [bin \in bins |-> SquaredError(h, a, bin) * eB * Square(ofB) +
                                    SquaredError(h, b, bin) * eA * Square(ofA)]
             W == [bin \in bins |-> SquaredError(h, b, bin) * eA * Square(ofA) +
                                    SquaredError(h, a, bin) * eB * Square(ofB)]
  <1>1. ofA \in Nat /\ ofB \in Nat /\ eA \in Nat /\ eB \in Nat
    BY DivisorsAreCounts
  <1>2. IsFiniteSet(bins) /\ bins = Compared(t, h, b, a, options)
    <2>1. bins \subseteq Bins(t, h)
      BY DEF Compared
    <2>2. bins = Compared(t, h, b, a, options)
      BY DEF Compared, PassesFloor
    <2> QED
      BY <2>1, <2>2, BinsAreFinite, FS_Subset
  <1>3. normalize <=> b.events # a.events
    OBVIOUS
  <1>4. \A bin \in bins : A[bin] \in Int /\ B[bin] \in Int
    BY <1>1, ContentsAreCounts
  <1>5. V = W
    <2>1. ASSUME NEW bin
          PROVE  SquaredError(h, a, bin) * eB * Square(ofB) +
                 SquaredError(h, b, bin) * eA * Square(ofA) =
                 SquaredError(h, b, bin) * eA * Square(ofA) +
                 SquaredError(h, a, bin) * eB * Square(ofB)
      <3>1. SquaredError(h, a, bin) \in Int /\ SquaredError(h, b, bin) \in Int
        BY ContentsAreCounts
      <3>2. \A x \in Int, e \in Nat, d \in Nat : x * e * Square(d) \in Int
        BY DEF Square
      <3>3. \A x \in Int, y \in Int : x + y = y + x
        OBVIOUS
      <3> HIDE DEF eA, eB, ofA, ofB
      <3> QED
        BY <1>1, <3>1, <3>2, <3>3
    <2> QED
      BY <2>1
  <1>6. ofA * ofB = ofB * ofA /\ eA * eB = eB * eA
    <2> HIDE DEF eA, eB, ofA, ofB
    <2> QED
      BY <1>1
  <1>7. Passed(t, h, a, b, options) =
          (/\ ~ShapeDiffers(A, B, V, bins, eA * eB, ofA * ofB)
           /\ ~RateDiffers(A, B, V, bins, eA * eB, ofA * ofB)
           /\ ~BinDiffers(A, B, bins, options.maxBinDiff, ofA * ofB))
    BY Zenon DEF Passed
  <1>8. Passed(t, h, b, a, options) =
          (/\ ~ShapeDiffers(B, A, W, bins, eB * eA, ofB * ofA)
           /\ ~RateDiffers(B, A, W, bins, eB * eA, ofB * ofA)
           /\ ~BinDiffers(B, A, bins, options.maxBinDiff, ofB * ofA))
    <2>1. (b.events # a.events) = normalize
      OBVIOUS
    <2> QED
      BY <1>2, <2>1, Zenon DEF Passed
  <1>9. ShapeDiffers(A, B, V, bins, eA * eB, ofA * ofB) =
          ShapeDiffers(B, A, V, bins, eA * eB, ofA * ofB)
    <2> HIDE DEF A, B, V, bins, eA, eB, ofA, ofB
    <2> QED
      BY <1>4, ShapeIgnoresOrder
  <1>10. RateDiffers(A, B, V, bins, eA * eB, ofA * ofB) =
          RateDiffers(B, A, V, bins, eA * eB, ofA * ofB)
    <2> HIDE DEF A, B, V, bins, eA, eB, ofA, ofB
    <2> QED
      BY <1>2, <1>4, RateIgnoresOrder
  <1>11. BinDiffers(A, B, bins, options.maxBinDiff, ofA * ofB) =
          BinDiffers(B, A, bins, options.maxBinDiff, ofA * ofB)
    <2> HIDE DEF A, B, V, bins, eA, eB, ofA, ofB
    <2> QED
      BY <1>4, BinIgnoresOrder
  <1> HIDE DEF A, B, V, W, bins, eA, eB, ofA, ofB
  <1>12. Passed(t, h, b, a, options) =
          (/\ ~ShapeDiffers(B, A, V, bins, eA * eB, ofA * ofB)
           /\ ~RateDiffers(B, A, V, bins, eA * eB, ofA * ofB)
           /\ ~BinDiffers(B, A, bins, options.maxBinDiff, ofA * ofB))
    BY <1>5, <1>6, <1>8
  <1> QED
    BY <1>7, <1>9, <1>10, <1>11, <1>12

(* The compared bins of a histogram of a subsystem, and its contents there. *)
LEMMA ComparedAreFinite ==
  ASSUME NEW t \in Subsystems, NEW h, NEW a, NEW b, NEW options
  PROVE  /\ IsFiniteSet(Compared(t, h, a, b, options))
         /\ Cardinality(Compared(t, h, a, b, options)) \in Nat
         /\ Compared(t, h, a, b, options) \subseteq Bins(t, h)
         /\ options.floor < 0 => Compared(t, h, a, b, options) = Bins(t, h)
  <1>1. Compared(t, h, a, b, options) \subseteq Bins(t, h)
    BY DEF Compared
  <1>2. IsFiniteSet(Compared(t, h, a, b, options))
    BY <1>1, BinsAreFinite, FS_Subset
  <1>3. options.floor < 0 => Compared(t, h, a, b, options) = Bins(t, h)
    BY DEF Compared, PassesFloor
  <1> QED
    BY <1>1, <1>2, <1>3, FS_CardinalityType

LEMMA NothingToSum ==
  ASSUME NEW f
  PROVE  FoldFunctionOnSet(AddFractions, <<0, 1>>, f, {}) = <<0, 1>>
  <1> DEFINE iter == CHOOSE iter :
       iter = [T \in SUBSET {} |-> IF T = {} THEN <<0, 1>>
                ELSE AddFractions(f[CHOOSE x \in T : TRUE], iter[T \ {CHOOSE x \in T : TRUE}])]
             known == [T \in SUBSET {} |-> <<0, 1>>]
  <1>1. known = [T \in SUBSET {} |-> IF T = {} THEN <<0, 1>>
                ELSE AddFractions(f[CHOOSE x \in T : TRUE], known[T \ {CHOOSE x \in T : TRUE}])]
    OBVIOUS
  <1>2. iter = [T \in SUBSET {} |-> IF T = {} THEN <<0, 1>>
                ELSE AddFractions(f[CHOOSE x \in T : TRUE], iter[T \ {CHOOSE x \in T : TRUE}])]
    BY <1>1
  <1>3. iter[{}] = <<0, 1>>
    <2> HIDE DEF iter
    <2> QED
      BY <1>2
  <1>4. FoldFunctionOnSet(AddFractions, <<0, 1>>, f, {}) = iter[{}]
    BY DEF FoldFunctionOnSet, MapThenFoldSet
  <1> QED
    BY <1>3, <1>4

(* Histograms of the same scaled contents pass all three gates.            *)
LEMMA SameContentsPass ==
  ASSUME NEW t \in Subsystems, NEW h, NEW a, NEW b, IsHistos(a), IsHistos(b),
         NEW options, options.maxBinDiff \in Int,
         \A bin \in Bins(t, h) :
           Content(a, h, bin) * Divisor(t, h, b, a.events # b.events) =
           Content(b, h, bin) * Divisor(t, h, a, a.events # b.events)
  PROVE  Passed(t, h, a, b, options)
  <1> DEFINE normalize == a.events # b.events
             ofA == Divisor(t, h, a, normalize)
             ofB == Divisor(t, h, b, normalize)
             bins == Compared(t, h, a, b, options)
             A == [bin \in bins |-> Content(a, h, bin) * ofB]
             B == [bin \in bins |-> Content(b, h, bin) * ofA]
             V == [bin \in bins |->
               SquaredError(h, a, bin) * ErrorDivisor(h, b) * Square(ofB) +
               SquaredError(h, b, bin) * ErrorDivisor(h, a) * Square(ofA)]
             k == ErrorDivisor(h, a) * ErrorDivisor(h, b)
             unit == ofA * ofB
  <1>1. unit \in Nat \ {0} /\ ofA \in Nat /\ ofB \in Nat
    <2>1. ofA \in Nat \ {0} /\ ofB \in Nat \ {0}
      BY DivisorsAreCounts
    <2>2. \A m \in Nat \ {0}, n \in Nat \ {0} : m * n \in Nat \ {0}
      OBVIOUS
    <2> HIDE DEF ofA, ofB
    <2> QED
      BY <2>1, <2>2
  <1>2. A = B
    BY ComparedAreFinite
  <1>3. \A bin \in bins : A[bin] \in Int
    BY <1>1, ContentsAreCounts
  <1>4. IsFiniteSet(bins) /\ Cardinality(bins) \in Nat
    BY ComparedAreFinite
  <1>5. Passed(t, h, a, b, options) =
          (/\ ~ShapeDiffers(A, B, V, bins, k, unit)
           /\ ~RateDiffers(A, B, V, bins, k, unit)
           /\ ~BinDiffers(A, B, bins, options.maxBinDiff, unit))
    BY Zenon DEF Passed
  <1>6. MaxChi2 \in Nat /\ MaxPercent \in Nat
    BY CompareAssumption
  <1> HIDE DEF normalize, ofA, ofB, bins, A, B, V, k, unit
  <1>7. ~ShapeDiffers(A, A, V, bins, k, unit)
    <2>1. {bin \in bins : A[bin] # A[bin]} = {}
      OBVIOUS
    <2> DEFINE f == [bin \in bins |-> Chi2(A[bin], A[bin], V[bin], k, unit)]
               chi2 == FoldFunctionOnSet(AddFractions, <<0, 1>>, f, {})
    <2>2. chi2 = <<0, 1>>
      BY NothingToSum
    <2>3. ShapeDiffers(A, A, V, bins, k, unit) =
            (/\ Cardinality(bins) >= MinChi2Bins
             /\ chi2[1] > MaxChi2 * Cardinality(bins) * chi2[2])
      BY <2>1, Zenon DEF ShapeDiffers
    <2>4. MaxChi2 * Cardinality(bins) * 1 \in Nat
      BY <1>4, <1>6
    <2> HIDE DEF f, chi2
    <2> QED
      BY <2>2, <2>3, <2>4
  <1>8. ~RateDiffers(A, A, V, bins, k, unit)
    <2> DEFINE X == SumOver(A, bins)
    <2>1. X \in Int
      BY <1>3, <1>4, SumIsInteger
    <2> HIDE DEF X
    <2>2. Distance(X, X) = 0
      BY <2>1 DEF Distance
    <2>3. Larger(unit, Larger(X, X)) \in Nat
      BY <1>1, <2>1 DEF Larger
    <2>4. MaxPercent * Larger(unit, Larger(X, X)) \in Nat
      BY <1>6, <2>3
    <2>5. ~(100 * Distance(X, X) > MaxPercent * Larger(unit, Larger(X, X)))
      BY <2>2, <2>4
    <2> QED
      BY <2>5, Zenon DEF RateDiffers, X
  <1>9. ~BinDiffers(A, A, bins, options.maxBinDiff, unit)
    <2>1. \A bin \in bins : Distance(A[bin], A[bin]) = 0
      BY <1>3 DEF Distance
    <2>2. \A m \in Int : m >= 0 => ~(0 > m * unit)
      BY <1>1
    <2> QED
      BY <2>1, <2>2 DEF BinDiffers
  <1> QED
    BY <1>2, <1>5, <1>7, <1>8, <1>9

(* A comparison that scales, or need not scale, brings two files of the    *)
(* same content per event to the same contents.                            *)
LEMMA SameRatesScale ==
  ASSUME NEW t \in Subsystems, NEW h, NEW a, NEW b, IsHistos(a), IsHistos(b),
         DOMAIN a.filled = DOMAIN b.filled,
         \A fill \in DOMAIN a.filled :
           a.filled[fill] * b.events = b.filled[fill] * a.events,
         a.events # b.events =>
           /\ h[1] = "xy" => t \notin Calorimeters \cup {"dc"}
           /\ h[1] # "rz_vertex"
           /\ h[1] = "occupancy" /\ t \in Calorimeters =>
                \E f \in {a, b} : Copies(One("primary_sector", h[2]), f.filled) # 0
  PROVE  \A bin :
           Content(a, h, bin) * Divisor(t, h, b, a.events # b.events) =
           Content(b, h, bin) * Divisor(t, h, a, a.events # b.events)
  <1> TAKE bin
  <1> DEFINE m == a.events
             n == b.events
             x == Content(a, h, bin)
             y == Content(b, h, bin)
             p == Copies(One("primary_sector", h[2]), a.filled)
             q == Copies(One("primary_sector", h[2]), b.filled)
             ofA == Divisor(t, h, a, m # n)
             ofB == Divisor(t, h, b, m # n)
  <1>1. m \in Nat /\ n \in Nat /\ Channels \in Nat \ {0}
    BY SubsystemAssumption DEF IsHistos
  <1>2. \A z : Copies(z, a.filled) \in Nat /\ Copies(z, b.filled) \in Nat
    BY CopiesAreCounted DEF IsHistos
  <1>3. \A z : Copies(z, a.filled) * n = Copies(z, b.filled) * m
    <2> TAKE z
    <2>1. CASE z \in DOMAIN a.filled
      BY <2>1, CopiesAreCounted DEF IsHistos
    <2>2. CASE z \notin DOMAIN a.filled
      <3>1. Copies(z, a.filled) = 0 /\ Copies(z, b.filled) = 0
        BY <2>2, CopiesAreCounted DEF IsHistos
      <3>2. 0 * n = 0 * m
        BY <1>1
      <3> QED
        BY <3>1, <3>2
    <2> QED
      BY <2>1, <2>2
  <1>4. x \in Nat /\ y \in Nat /\ p \in Nat /\ q \in Nat
    BY <1>2 DEF Content
  <1>5. x * n = y * m /\ p * n = q * m
    BY <1>3 DEF Content
  <1>6. \A u \in Nat, v \in Nat, w \in Nat \ {0} : u * w = v * w => u = v
    OBVIOUS
  <1>7. ASSUME m = 0 \/ n = 0 PROVE x = 0 /\ y = 0
    <2>1. a.filled = EmptyBag \/ b.filled = EmptyBag
      BY <1>7 DEF IsHistos
    <2>2. DOMAIN a.filled = {} /\ DOMAIN b.filled = {}
      BY <2>1 DEF EmptyBag, SetToBag
    <2> QED
      BY <2>2 DEF Content, Copies, BagIn, BagToSet
  <1>8. CASE m = n
    <2>1. x = y
      BY <1>1, <1>4, <1>5, <1>6, <1>7, <1>8
    <2>2. p > 0 \/ q > 0 => p = q
      <3>1. CASE m = 0
        <4>1. a.filled = EmptyBag /\ b.filled = EmptyBag
          BY <1>8, <3>1 DEF IsHistos
        <4> QED
          BY <4>1
      <3>2. CASE m # 0
        BY <1>1, <1>4, <1>5, <1>6, <1>8, <3>2
      <3> QED
        BY <3>1, <3>2
    <2>3. ScaleDivisor(t, h, a, m # n) = ScaleDivisor(t, h, b, m # n)
      BY <1>4, <1>8, <2>2 DEF ScaleDivisor
    <2>4. ofA = ofB
      BY <1>8, <2>3 DEF Divisor
    <2> QED
      BY <2>1, <2>4
  <1>9. CASE m # n /\ (m = 0 \/ n = 0)
    <2>1. x = 0 /\ y = 0
      BY <1>7, <1>9
    <2>2. ofA \in Nat /\ ofB \in Nat
      BY DivisorsAreCounts
    <2> HIDE DEF ofA, ofB, x, y
    <2>3. 0 * ofA = 0 * ofB
      BY <2>2
    <2> QED
      BY <2>1, <2>3 DEF ofA, ofB, x, y
  <1>10. CASE m # n /\ m > 0 /\ n > 0
    <2>1. CASE t \in Calorimeters /\ h[1] = "occupancy"
      <3>1. p # 0 \/ q # 0
        BY <1>10, <2>1
      <3>2. \A u \in Nat, v \in Nat, w \in Nat : v > 0 /\ w > 0 /\ u * v = 0 * w => u = 0
        OBVIOUS
      <3>3. p > 0 /\ q > 0
        BY <1>1, <1>4, <1>5, <1>10, <3>1, <3>2
      <3>4. ofA = p /\ ofB = q
        <4>1. t # "dc"
          BY <2>1 DEF Calorimeters
        <4>2. FinalDivisor(t, h, m) = 1 /\ FinalDivisor(t, h, n) = 1
          BY <4>1 DEF FinalDivisor
        <4>3. ScaleDivisor(t, h, a, m # n) = p /\ ScaleDivisor(t, h, b, m # n) = q
          BY <2>1, <3>3 DEF ScaleDivisor
        <4> QED
          BY <1>4, <4>2, <4>3 DEF Divisor
      <3> HIDE DEF m, n, x, y, p, q, ofA, ofB
      <3>5. (x * q) * m = (y * p) * m
        <4>1. (x * q) * m = x * (q * m) /\ x * (p * n) = p * (x * n) /\ p * (y * m) = (y * p) * m
          BY <1>1, <1>4
        <4> QED
          BY <1>5, <4>1
      <3>6. x * q = y * p
        BY <1>1, <1>4, <1>6, <1>10, <3>5
      <3> QED
        BY <3>4, <3>6 DEF ofA, ofB, x, y, m, n
    <2>2. CASE ~(t \in Calorimeters /\ h[1] = "occupancy")
      <3>1. \E c \in Nat : ofA = c * m /\ ofB = c * n
        <4>1. CASE t = "dc" /\ h[1] \in {"layer_wire", "occupancy_summary"}
          <5>1. t \notin Calorimeters
            BY <4>1 DEF Calorimeters
          <5>2. h[1] \in NotScaled(t)
            BY <4>1, <5>1 DEF NotScaled
          <5>3. ScaleDivisor(t, h, a, m # n) = 1 /\ ScaleDivisor(t, h, b, m # n) = 1
            BY <5>1, <5>2 DEF ScaleDivisor
          <5>4. \/ FinalDivisor(t, h, m) = m /\ FinalDivisor(t, h, n) = n
                \/ FinalDivisor(t, h, m) = m * Channels /\ FinalDivisor(t, h, n) = n * Channels
            BY <1>10, <4>1 DEF FinalDivisor
          <5>5. \/ ofA = m * 1 /\ ofB = n * 1
                \/ ofA = m * Channels * 1 /\ ofB = n * Channels * 1
            BY <5>3, <5>4 DEF Divisor
          <5> HIDE DEF m, n, ofA, ofB
          <5>6. \/ ofA = 1 * m /\ ofB = 1 * n
                \/ ofA = Channels * m /\ ofB = Channels * n
            BY <1>1, <5>5
          <5> QED
            BY <1>1, <5>6
        <4>2. CASE ~(t = "dc" /\ h[1] \in {"layer_wire", "occupancy_summary"})
          <5>1. FinalDivisor(t, h, m) = 1 /\ FinalDivisor(t, h, n) = 1
            BY <1>10, <4>2 DEF FinalDivisor
          <5>2. h[1] \notin NotScaled(t)
            BY <1>10, <4>2 DEF NotScaled, Calorimeters
          <5>3. ScaleDivisor(t, h, a, m # n) = m /\ ScaleDivisor(t, h, b, m # n) = n
            BY <1>10, <2>2, <5>2 DEF ScaleDivisor
          <5>4. ofA = 1 * m /\ ofB = 1 * n
            BY <5>1, <5>3 DEF Divisor
          <5> HIDE DEF m, n, ofA, ofB
          <5> QED
            BY <5>4
        <4> QED
          BY <4>1, <4>2
      <3>2. PICK c \in Nat : ofA = c * m /\ ofB = c * n
        BY <3>1
      <3> HIDE DEF m, n, x, y, p, q, ofA, ofB
      <3>3. x * (c * n) = c * (x * n) /\ c * (y * m) = y * (c * m)
        BY <1>1, <1>4, <3>2
      <3>4. x * ofB = y * ofA
        BY <1>5, <3>2, <3>3
      <3> QED
        BY <3>4 DEF ofA, ofB, x, y, m, n
    <2> QED
      BY <2>1, <2>2
  <1> QED
    BY <1>1, <1>8, <1>9, <1>10

(* With as many events, a histogram of counts that is empty in one file    *)
(* alone fails once the other holds more than the square of the limit.     *)
LEMMA QuietFails ==
  ASSUME NEW t \in Subsystems, NEW h, NEW a, NEW b, IsHistos(a), IsHistos(b),
         NEW options, options.floor < 0, a.events = b.events,
         h[1] \notin EventLevel \cup {"layer_wire", "rz_vertex"},
         t \in Calorimeters => h[1] # "occupancy",
         MaxPercent < 100,
         SumOver([bin \in Bins(t, h) |-> Content(a, h, bin)], Bins(t, h)) > Square(MaxSigma),
         SumOver([bin \in Bins(t, h) |-> Content(b, h, bin)], Bins(t, h)) = 0
  PROVE  ~Passed(t, h, a, b, options)
  <1> DEFINE bins == Bins(t, h)
             A == [bin \in bins |-> Content(a, h, bin)]
             B == [bin \in bins |-> Content(b, h, bin)]
             V == [bin \in bins |-> Content(a, h, bin) + Content(b, h, bin)]
  <1>1. Compared(t, h, a, b, options) = bins /\ IsFiniteSet(bins)
    BY ComparedAreFinite, BinsAreFinite
  <1>2. Divisor(t, h, a, a.events # b.events) = 1 /\ Divisor(t, h, b, a.events # b.events) = 1
    BY DEF Divisor, FinalDivisor, ScaleDivisor, EventLevel
  <1>3. ErrorDivisor(h, a) = 1 /\ ErrorDivisor(h, b) = 1
    BY DEF ErrorDivisor
  <1>4. \A bin : Content(a, h, bin) \in Nat /\ Content(b, h, bin) \in Nat
    BY ContentsAreCounts
  <1>5. \A bin : /\ SquaredError(h, a, bin) = Content(a, h, bin)
                 /\ SquaredError(h, b, bin) = Content(b, h, bin)
    BY DEF SquaredError
  <1>6. /\ [bin \in bins |-> Content(a, h, bin) * 1] = A
        /\ [bin \in bins |-> Content(b, h, bin) * 1] = B
        /\ [bin \in bins |-> SquaredError(h, a, bin) * 1 * Square(1) +
                              SquaredError(h, b, bin) * 1 * Square(1)] = V
    BY <1>4, <1>5 DEF Square
  <1> DEFINE X == SumOver(A, bins)
  <1>7. X \in Int /\ X > Square(MaxSigma) /\ SumOver(B, bins) = 0
    BY <1>1, <1>4, SumIsInteger
  <1>8. SumOver(V, bins) = 1 * X + 1 * SumOver(B, bins)
    <2>1. \A bin \in bins : A[bin] \in Int /\ B[bin] \in Int /\ V[bin] = 1 * A[bin] + 1 * B[bin]
      BY <1>4
    <2> HIDE DEF A, B, V, bins
    <2> QED
      BY <1>1, <2>1, SumOfSums
  <1>9. MaxSigma \in Int /\ MaxPercent \in Nat
    BY CompareAssumption
  <1>10. Square(MaxSigma) \in Nat /\ X > 0
    <2>1. \A z \in Int : z * z >= 0 /\ z * z \in Int
      OBVIOUS
    <2>2. Square(MaxSigma) \in Nat
      BY <1>9, <2>1 DEF Square
    <2> QED
      BY <1>7, <2>2
  <1> HIDE DEF A, B, V, bins, X
  <1>11. RateDiffers(A, B, V, bins, 1, 1)
    <2>1. Distance(X, 0) = X /\ Larger(1, Larger(X, 0)) = X
      BY <1>7, <1>10 DEF Distance, Larger
    <2>2. 100 * X > MaxPercent * X
      <3>1. MaxPercent * X <= 99 * X
        BY <1>7, <1>9, <1>10
      <3>2. MaxPercent * X \in Int
        BY <1>7, <1>9
      <3> QED
        BY <1>7, <1>10, <3>1, <3>2
    <2>3. Significant(X, X, 1)
      <3>1. X * X > Square(MaxSigma) * X
        BY <1>7, <1>10
      <3>2. Square(X) * 1 = X * X
        BY <1>7 DEF Square
      <3> QED
        BY <1>10, <3>1, <3>2 DEF Significant
    <2>4. SumOver(V, bins) = X
      BY <1>7, <1>8
    <2> QED
      BY <1>7, <2>1, <2>2, <2>3, <2>4 DEF RateDiffers, X
  <1>12. Passed(t, h, a, b, options) => ~RateDiffers(A, B, V, bins, 1 * 1, 1 * 1)
    BY <1>1, <1>2, <1>3, <1>6, Zenon DEF Passed
  <1> QED
    BY <1>11, <1>12

-----------------------------------------------------------------------------
IsSequence(q) == \E T : q \in Seq(T)

Before == {"parse", "open", "read", "diagnose"}
After == {"compare", "write", "plots"}

(* Every file is read before anything is compared, and what was compared   *)
(* stays as it is until the status of the process is decided.              *)
StagesInv ==
  /\ input \in Inputs /\ IsSequence(histos)
  /\ stage \in Before \cup After \cup {"ended"}
  /\ stage # "ended" => result = "none"
  /\ stage \notin {"parse", "ended"} => ~Rejected(input)
  /\ stage \in {"parse", "open"} => Len(histos) < Len(input.files) \/ Rejected(input)
  /\ stage = "read" => Len(histos) \in 1 .. Len(input.files)
  /\ stage \in {"diagnose"} \cup After => Len(histos) = Len(input.files)
  /\ stage \in After /\ Comparing => DOMAIN statuses = Diagnosed(s)
  /\ stage = "plots" => written = Labels
  /\ ExitTellsVerdict

(* An accepted command line names one file, or two to compare.             *)
LEMMA FilesOfRun ==
  ASSUME input \in Inputs, ~Rejected(input)
  PROVE  /\ Len(input.files) \in 1 .. 2
         /\ input.options.failOnDiff => Len(input.files) = 2
  <1>1. CASE input.compare
    BY <1>1 DEF Rejected
  <1>2. CASE ~input.compare
    BY <1>2 DEF Rejected
  <1> QED
    BY <1>1, <1>2

LEMMA SequenceFacts ==
  ASSUME NEW q, IsSequence(q)
  PROVE  /\ Len(q) \in Nat /\ DOMAIN q = 1 .. Len(q)
         /\ \A x : IsSequence(Append(q, x)) /\ Len(Append(q, x)) = Len(q) + 1
         /\ Len(q) > 0 =>
              \A x : IsSequence([q EXCEPT ![Len(q)] = x]) /\ Len([q EXCEPT ![Len(q)] = x]) = Len(q)
  <1>1. PICK T : q \in Seq(T)
    BY DEF IsSequence
  <1>2. Len(q) \in Nat /\ DOMAIN q = 1 .. Len(q)
    BY <1>1
  <1>3. ASSUME NEW x
        PROVE  /\ IsSequence(Append(q, x)) /\ Len(Append(q, x)) = Len(q) + 1
               /\ Len(q) > 0 => IsSequence([q EXCEPT ![Len(q)] = x])
                                /\ Len([q EXCEPT ![Len(q)] = x]) = Len(q)
    <2> DEFINE U == T \cup {x}
    <2>1. q \in Seq(U) /\ x \in U
      BY <1>1
    <2>2. Append(q, x) \in Seq(U) /\ Len(Append(q, x)) = Len(q) + 1
      BY <2>1
    <2>3. Len(q) > 0 => [q EXCEPT ![Len(q)] = x] \in Seq(U)
                        /\ Len([q EXCEPT ![Len(q)] = x]) = Len(q)
      BY <2>1
    <2> QED
      BY <2>2, <2>3 DEF IsSequence
  <1> QED
    BY <1>2, <1>3

(* Two files have one label if they have fewer directories than files.     *)
LEMMA OneLabel ==
  ASSUME NEW files, Len(files) \in 1 .. 2, DOMAIN files = 1 .. Len(files),
         Cardinality({files[f].label : f \in DOMAIN files}) < Len(files)
  PROVE  /\ Len(files) = 2
         /\ Cardinality({files[f].label : f \in DOMAIN files}) = 1
  <1> DEFINE L == {files[f].label : f \in DOMAIN files}
  <1>1. \A x : Cardinality({x}) = 1
    BY FS_Singleton
  <1>2. Len(files) # 1
    <2>1. SUFFICES ASSUME Len(files) = 1 PROVE FALSE
      OBVIOUS
    <2>2. L = {files[1].label}
      BY <2>1
    <2> QED
      BY <1>1, <2>1, <2>2
  <1>3. L = {files[1].label, files[2].label}
    BY <1>2
  <1>4. files[1].label = files[2].label
    <2>1. SUFFICES ASSUME files[1].label # files[2].label PROVE FALSE
      OBVIOUS
    <2>2. IsFiniteSet({files[1].label}) /\ files[2].label \notin {files[1].label}
      BY <2>1, FS_Singleton
    <2>3. Cardinality({files[1].label} \cup {files[2].label}) = Cardinality({files[1].label}) + 1
      BY <2>2, FS_AddElement, Zenon
    <2>4. {files[1].label} \cup {files[2].label} = L
      BY <1>3
    <2>5. Cardinality({files[1].label}) = 1
      BY <1>1
    <2>6. Cardinality({files[1].label} \cup {files[2].label}) = 2
      BY <2>3, <2>5
    <2>7. Cardinality(L) = 2
      BY <2>4, <2>6, Zenon
    <2> QED
      <3>1. Len(files) = 2
        BY <1>2
      <3>2. Cardinality(L) < Len(files)
        OBVIOUS
      <3> QED
        BY <2>7, <3>1, <3>2
  <1>5. L = {files[1].label}
    BY <1>3, <1>4
  <1>6. Cardinality(L) = 1
    BY <1>1, <1>5
  <1> QED
    BY <1>2, <1>6

LEMMA StagesInit == Init => StagesInv
  <1> SUFFICES ASSUME Init PROVE StagesInv
    OBVIOUS
  <1>1. IsSequence(<<>>) /\ Len(<<>>) = 0
    BY DEF IsSequence
  <1>2. Len(input.files) > 0 \/ Rejected(input)
    <2>1. input \in Inputs
      BY DEF Init
    <2> QED
      BY <2>1, FilesOfRun
  <1> QED
    BY <1>1, <1>2, FilesAssumption DEF Init, StagesInv, ExitTellsVerdict, Before, After

LEMMA StagesNext == StagesInv /\ [Next]_vars => StagesInv'
  <1> SUFFICES ASSUME StagesInv, [Next]_vars PROVE StagesInv'
    OBVIOUS
  <1> USE FilesAssumption
  <1>f. Len(input.files) \in Nat /\ DOMAIN input.files = 1 .. Len(input.files)
    BY DEF StagesInv
  <1>h. Len(histos) \in Nat /\ DOMAIN histos = 1 .. Len(histos)
    BY SequenceFacts DEF StagesInv
  <1>t. ASSUME Throw PROVE StagesInv'
    BY <1>t DEF Throw, End, StagesInv, ExitTellsVerdict, Labels, Before, After, Rejected, s
  <1>1. CASE parse_args
    BY <1>1, <1>t DEF parse_args, StagesInv, ExitTellsVerdict, Labels, Before, After, Rejected, s
  <1>2. CASE open_file
    <2>1. IsSequence(Append(histos, NoHistos)) /\ Len(Append(histos, NoHistos)) = Len(histos) + 1
      BY SequenceFacts DEF StagesInv
    <2>2. CASE Throw
      BY <2>2, <1>t
    <2>3. CASE stage' = "read" /\ histos' = Append(histos, NoHistos)
               /\ UNCHANGED <<input, statuses, written, result>>
      BY <1>2, <2>1, <2>3, <1>f, <1>h
      DEF open_file, StagesInv, ExitTellsVerdict, Labels, Before, After, Rejected, s
    <2> QED
      BY <1>2, <2>2, <2>3 DEF open_file
  <1>3. CASE process_event
    <2>0. Len(histos) > 0
      BY <1>3, <1>f, <1>h DEF process_event, StagesInv
    <2>1. PICK x : histos' = [histos EXCEPT ![Len(histos)] = x]
      BY <1>3 DEF process_event
    <2>2. IsSequence(histos') /\ Len(histos') = Len(histos)
      BY <2>0, <2>1, SequenceFacts DEF StagesInv
    <2> QED
      BY <1>3, <2>2 DEF process_event, StagesInv, ExitTellsVerdict, Labels, Before, After, Rejected, s
  <1>4. CASE end_file
    BY <1>4, <1>f, <1>h
    DEF end_file, StagesInv, ExitTellsVerdict, Labels, Before, After, Rejected, s
  <1>5. CASE diagnose
    <2>1. Comparing => DOMAIN statuses' = Diagnosed(s)
      BY <1>5 DEF diagnose, run_diagnostics
    <2> QED
      BY <1>5, <2>1
      DEF diagnose, StagesInv, ExitTellsVerdict, Labels, Before, After, Rejected, Comparing, s
  <1>6. CASE save_comparison
    BY <1>6, <1>t
    DEF save_comparison, StagesInv, ExitTellsVerdict, Labels, Before, After, Rejected, Comparing, s
  <1>7. CASE write_output
    <2>1. CASE Throw
      BY <2>1, <1>t
    <2>2. CASE ~Throw
      <3>1. DOMAIN histos = DOMAIN input.files /\ Len(histos) = Len(input.files)
        BY <1>7, <1>f, <1>h DEF write_output, StagesInv, After
      <3>2. written' = Labels /\ UNCHANGED <<input, histos, statuses>>
        BY <1>7, <2>2, <3>1 DEF write_output, Labels
      <3>3. CASE Cardinality(written') < Len(histos)
        <4>1. Len(input.files) \in 1 .. 2
          BY <1>7, FilesOfRun DEF write_output, StagesInv
        <4>2. Len(input.files) = 2 /\ Cardinality(Labels) = 1
          BY <4>1, <1>f, <3>1, <3>2, <3>3, OneLabel DEF Labels
        <4>3. stage' = "ended" /\ result' = "crash"
          BY <1>7, <2>2, <3>3 DEF write_output, End
        <4> QED
          BY <4>2, <4>3, <3>2 DEF StagesInv, ExitTellsVerdict, Labels, Before, After, Rejected, s
      <3>4. CASE ~(Cardinality(written') < Len(histos))
        <4>1. stage' = "plots" /\ result' = result
          BY <1>7, <2>2, <3>4 DEF write_output
        <4> QED
          BY <1>7, <4>1, <3>2
          DEF write_output, StagesInv, ExitTellsVerdict, Labels, Before, After, Rejected, Comparing, s
      <3> QED
        BY <3>3, <3>4
    <2> QED
      BY <2>1, <2>2
  <1>8. CASE finish
    <2>1. input.options.failOnDiff => DOMAIN statuses = Diagnosed(s)
      BY <1>8, FilesOfRun DEF finish, StagesInv, After, Comparing
    <2>2. Difference => \E h \in Diagnosed(s) : ~statuses[h]
      BY <2>1 DEF Difference, AllPassed
    <2> QED
      BY <1>8, <1>t, <2>1, <2>2
      DEF finish, End, Difference, AllPassed, StagesInv, ExitTellsVerdict, Labels, Before, After,
          Rejected, s
  <1>9. CASE UNCHANGED vars
    BY <1>9
    DEF vars, StagesInv, ExitTellsVerdict, AllPassed, Labels, Rejected, Comparing, s
  <1> QED
    BY <1>1, <1>2, <1>3, <1>4, <1>5, <1>6, <1>7, <1>8, <1>9 DEF Next

(* The histograms of every file that was begun, and the verdict on them.   *)
HistosInv ==
  /\ Len(histos) <= Len(input.files)
  /\ \A f \in DOMAIN histos :
       /\ IsHistos(histos[f])
       /\ histos[f].events <= Len(input.files[f].events)
  /\ Verdict => statuses = run_diagnostics(s, histos[1], histos[2], input.options)

LEMMA AddedEvent ==
  ASSUME NEW t \in Subsystems, NEW event, IsEvent(event), NEW file, IsHistos(file)
  PROVE  IsHistos(AddEvent(t, file, event)) /\ AddEvent(t, file, event).events = file.events + 1
  <1>1. IsCount(Fill(t, event)) /\ IsCount(EventSquares(Fill(t, event)))
    BY FillIsCount, SquaresAreCounts
  <1>2. /\ IsCount(file.filled (+) Fill(t, event))
        /\ IsCount(file.squares (+) EventSquares(Fill(t, event)))
    BY <1>1, CopiesAdd DEF IsHistos
  <1> QED
    BY <1>2 DEF AddEvent, IsHistos

LEMMA HistosInit == Init => HistosInv
  <1>1. Len(<<>>) = 0 /\ DOMAIN <<>> = {}
    OBVIOUS
  <1> QED
    BY <1>1, FilesAssumption DEF Init, HistosInv, Verdict

(* A step of process_event adds the next event of the file being read.     *)
LEMMA NextEvent ==
  ASSUME StagesInv, HistosInv, process_event
  PROVE  LET n == Len(histos)
             file == histos[n]
             event == input.files[n].events[file.events + 1]
         IN /\ n \in DOMAIN histos /\ n \in DOMAIN input.files /\ s \in Subsystems
            /\ file.events + 1 \in 1 .. Len(input.files[n].events)
            /\ IsEvent(event)
            /\ histos' = [histos EXCEPT ![n] = AddEvent(s, file, event)]
  <1> DEFINE n == Len(histos)
             file == histos[n]
             event == input.files[n].events[file.events + 1]
  <1>1. n \in Nat /\ DOMAIN histos = 1 .. n
    BY SequenceFacts DEF StagesInv
  <1>2. Len(input.files) \in Nat /\ DOMAIN input.files = 1 .. Len(input.files)
    BY FilesAssumption DEF StagesInv
  <1>3. stage = "read" /\ n \in 1 .. Len(input.files) /\ ~Rejected(input)
    BY DEF process_event, StagesInv
  <1>4. n \in DOMAIN histos /\ n \in DOMAIN input.files
    BY <1>1, <1>2, <1>3
  <1>5. s \in Subsystems
    BY <1>3 DEF Rejected, s
  <1>6. IsHistos(file) /\ file.events \in Nat
    BY <1>4 DEF HistosInv, IsHistos
  <1>7. file.events + 1 \in 1 .. Len(input.files[n].events)
    <2>1. Last(histos) = file
      BY DEF Last
    <2>2. Len(input.files[n].events) \in Nat
      BY <1>4, EventsAssumption DEF StagesInv
    <2>3. file.events < Len(input.files[n].events)
      BY <2>1 DEF process_event, Unread
    <2> QED
      BY <1>6, <2>2, <2>3
  <1>8. IsEvent(event)
    BY <1>4, <1>7, EventsAssumption DEF StagesInv, IsEvent
  <1>9. histos' = [histos EXCEPT ![n] = AddEvent(s, file, event)]
    BY <1>4 DEF process_event
  <1> QED
    BY <1>4, <1>5, <1>7, <1>8, <1>9

LEMMA HistosNext ==
  ASSUME StagesInv, HistosInv, [Next]_vars
  PROVE  HistosInv'
  <1> USE DEF HistosInv, Verdict
  <1>f. Len(input.files) \in Nat /\ DOMAIN input.files = 1 .. Len(input.files)
    BY FilesAssumption DEF StagesInv
  <1>h. Len(histos) \in Nat /\ DOMAIN histos = 1 .. Len(histos)
    BY SequenceFacts DEF StagesInv
  <1>k. ASSUME UNCHANGED <<input, histos, statuses>>, stage' # "compare" PROVE HistosInv'
    BY <1>k
  <1>1. CASE parse_args
    BY <1>1, <1>k DEF parse_args, Throw, End
  <1>2. CASE open_file
    <2>1. CASE Throw
      BY <2>1, <1>k DEF Throw, End
    <2>2. CASE stage' = "read" /\ histos' = Append(histos, NoHistos)
               /\ UNCHANGED <<input, statuses, written, result>>
      <3>1. IsHistos(NoHistos) /\ NoHistos.events = 0
        BY NothingFilled DEF NoHistos, IsHistos
      <3>2. PICK T : histos \in Seq(T)
        BY DEF StagesInv, IsSequence
      <3>3. /\ Len(histos') = Len(histos) + 1 /\ DOMAIN histos' = 1 .. Len(histos) + 1
            /\ \A f \in 1 .. Len(histos) : histos'[f] = histos[f]
            /\ histos'[Len(histos) + 1] = NoHistos
        <4>1. histos \in Seq(T \cup {NoHistos}) /\ NoHistos \in T \cup {NoHistos}
          BY <3>2
        <4> QED
          BY <2>2, <4>1
      <3>4. Len(histos) < Len(input.files)
        BY <1>2 DEF open_file, StagesInv
      <3>5. Len(histos) + 1 \in DOMAIN input.files
        BY <1>f, <1>h, <3>4
      <3>6. 0 <= Len(input.files[Len(histos) + 1].events)
        BY <3>5, EventsAssumption DEF StagesInv
      <3>7. ASSUME NEW f \in DOMAIN histos'
            PROVE  IsHistos(histos'[f]) /\ histos'[f].events <= Len(input.files[f].events)
        BY <1>h, <3>1, <3>3, <3>6
      <3> QED
        BY <1>f, <1>h, <2>2, <3>3, <3>4, <3>7
    <2> QED
      BY <1>2, <2>1, <2>2 DEF open_file
  <1>3. CASE process_event
    <2> DEFINE n == Len(histos)
               file == histos[n]
               event == input.files[n].events[file.events + 1]
               new == AddEvent(s, file, event)
    <2>1. /\ n \in DOMAIN histos /\ file.events + 1 \in 1 .. Len(input.files[n].events)
          /\ s \in Subsystems /\ IsEvent(event) /\ histos' = [histos EXCEPT ![n] = new]
      BY <1>3, NextEvent
    <2>2. IsHistos(new) /\ new.events = file.events + 1
      BY <2>1, AddedEvent
    <2>3. Len(histos') = Len(histos) /\ DOMAIN histos' = DOMAIN histos
      BY <1>h, <2>1, SequenceFacts DEF StagesInv
    <2>4. input' = input /\ stage' # "compare"
      BY <1>3 DEF process_event
    <2>5. new.events <= Len(input.files[n].events)
      <3>1. Len(input.files[n].events) \in Nat
        BY <1>f, <1>h, <2>1, EventsAssumption DEF StagesInv
      <3> HIDE DEF new, event, file, n
      <3> QED
        BY <2>1, <2>2, <3>1
    <2>6. ASSUME NEW f \in DOMAIN histos'
          PROVE  IsHistos(histos'[f]) /\ histos'[f].events <= Len(input.files[f].events)
      <3> HIDE DEF new, event
      <3> QED
        BY <2>1, <2>2, <2>3, <2>5
    <2> HIDE DEF new, event, file, n
    <2> QED
      BY <2>3, <2>4, <2>6
  <1>4. CASE end_file
    BY <1>4, <1>k DEF end_file
  <1>5. CASE diagnose
    BY <1>5 DEF diagnose, Comparing, s
  <1>6. CASE save_comparison
    BY <1>6, <1>k DEF save_comparison, Throw, End
  <1>7. CASE write_output
    BY <1>7, <1>k DEF write_output, Throw, End
  <1>8. CASE finish
    BY <1>8, <1>k DEF finish, Throw, End
  <1>9. CASE UNCHANGED vars
    BY <1>9 DEF vars, Comparing, s
  <1> QED
    BY <1>1, <1>2, <1>3, <1>4, <1>5, <1>6, <1>7, <1>8, <1>9 DEF Next

LEMMA VerdictFacts ==
  ASSUME StagesInv, HistosInv, Verdict
  PROVE  /\ s \in Subsystems /\ IsHistos(histos[1]) /\ IsHistos(histos[2])
         /\ input.options.maxBinDiff \in Int
         /\ statuses = [h \in Diagnosed(s) |-> Passed(s, h, histos[1], histos[2], input.options)]
  <1>1. stage = "compare" /\ Len(histos) = 2
    BY DEF Verdict, Comparing
  <1>2. ~Rejected(input) /\ input \in Inputs
    BY <1>1 DEF StagesInv
  <1>3. s \in Subsystems
    BY <1>2 DEF Rejected, s
  <1>4. 1 \in DOMAIN histos /\ 2 \in DOMAIN histos
    BY <1>1, SequenceFacts DEF StagesInv
  <1> QED
    BY <1>2, <1>3, <1>4, OptionsAssumption DEF StagesInv, HistosInv, run_diagnostics

(* The verdict on every histogram is the same with the two files named the *)
(* other way round.                                                        *)
LEMMA OrderIgnored ==
  ASSUME StagesInv, HistosInv, Verdict
  PROVE  statuses = run_diagnostics(s, histos[2], histos[1], input.options)
  <1>1. \A h : Passed(s, h, histos[1], histos[2], input.options) =
               Passed(s, h, histos[2], histos[1], input.options)
    BY VerdictFacts, PassedIgnoresOrder
  <1> QED
    BY <1>1, VerdictFacts DEF run_diagnostics

LEMMA RatesFollowed == StagesInv /\ HistosInv => VerdictFollowsRates
  <1> SUFFICES ASSUME StagesInv, HistosInv, Verdict, NEW h \in DOMAIN statuses
               PROVE  (SameRate(h) => statuses[h]) /\ (WentQuiet(h) => ~statuses[h])
    BY OrderIgnored DEF VerdictFollowsRates
  <1>1. /\ s \in Subsystems /\ IsHistos(histos[1]) /\ IsHistos(histos[2])
        /\ input.options.maxBinDiff \in Int
        /\ statuses[h] = Passed(s, h, histos[1], histos[2], input.options)
    BY VerdictFacts
  <1>2. ASSUME SameRate(h) PROVE statuses[h]
    <2>1. histos[1].events # histos[2].events =>
            /\ h[1] = "xy" => s \notin Calorimeters \cup {"dc"}
            /\ h[1] # "rz_vertex"
            /\ h[1] = "occupancy" /\ s \in Calorimeters =>
                 \E f \in {histos[1], histos[2]} : Copies(One("primary_sector", h[2]), f.filled) # 0
      BY <1>2 DEF SameRate, NotPerEvent
    <2>2. \A bin : Content(histos[1], h, bin) *
                     Divisor(s, h, histos[2], histos[1].events # histos[2].events) =
                   Content(histos[2], h, bin) *
                     Divisor(s, h, histos[1], histos[1].events # histos[2].events)
      BY <1>1, <1>2, <2>1, SameRatesScale DEF SameRate
    <2> QED
      BY <1>1, <2>2, SameContentsPass
  <1>3. ASSUME WentQuiet(h) PROVE ~statuses[h]
    <2>1. /\ input.options.floor < 0 /\ histos[1].events = histos[2].events
          /\ h[1] \notin EventLevel \cup {"layer_wire", "rz_vertex"}
          /\ s \in Calorimeters => h[1] # "occupancy"
          /\ MaxPercent < 100
      BY <1>3 DEF WentQuiet
    <2>2. CASE Entries(1, h) > Square(MaxSigma) /\ Entries(2, h) = 0
      BY <1>1, <2>1, <2>2, QuietFails DEF Entries
    <2>3. CASE Entries(2, h) > Square(MaxSigma) /\ Entries(1, h) = 0
      <3>1. ~Passed(s, h, histos[2], histos[1], input.options)
        BY <1>1, <2>1, <2>3, QuietFails DEF Entries
      <3> QED
        BY <1>1, <3>1, PassedIgnoresOrder
    <2> QED
      <3>1. PICK f \in 1 .. 2 : Entries(f, h) > Square(MaxSigma) /\ Entries(3 - f, h) = 0
        BY <1>3 DEF WentQuiet
      <3>2. (f = 1 /\ 3 - f = 2) \/ (f = 2 /\ 3 - f = 1)
        OBVIOUS
      <3> QED
        BY <2>2, <2>3, <3>1, <3>2
  <1> QED
    BY <1>2, <1>3

-----------------------------------------------------------------------------
(* The events behind a bin.                                                *)

LEMMA SumUpTo ==
  ASSUME NEW N \in Nat, NEW f, \A e \in 1 .. N : f[e] \in Int, NEW n \in Nat, n + 1 <= N
  PROVE  SumOver(f, 1 .. n + 1) = SumOver(f, 1 .. n) + f[n + 1]
  <1>1. IsFiniteSet(1 .. n + 1)
    BY FS_Interval
  <1>2. (1 .. n + 1) \ {n + 1} = 1 .. n
    OBVIOUS
  <1>3. \A e \in 1 .. n + 1 : f[e] \in Int
    OBVIOUS
  <1>4. n + 1 \in 1 .. n + 1 /\ 1 .. n + 1 \in SUBSET (1 .. n + 1)
    OBVIOUS
  <1>5. SumOver(f, 1 .. n + 1) = f[n + 1] + SumOver(f, (1 .. n + 1) \ {n + 1})
    BY <1>1, <1>3, <1>4, SumWithElement
  <1>6. 1 .. n \in SUBSET (1 .. n + 1)
    OBVIOUS
  <1>7. SumOver(f, 1 .. n) \in Int /\ f[n + 1] \in Int
    BY <1>1, <1>3, <1>4, <1>6, SumIsInteger
  <1>8. SumOver(f, (1 .. n + 1) \ {n + 1}) = SumOver(f, 1 .. n)
    BY <1>2
  <1> QED
    BY <1>5, <1>7, <1>8

(* A sum of zeros and ones counts the ones.                                *)
LEMMA SumCounts ==
  ASSUME NEW N \in Nat, NEW f, \A e \in 1 .. N : f[e] \in {0, 1}
  PROVE  SumOver(f, 1 .. N) = Cardinality({e \in 1 .. N : f[e] = 1})
  <1> DEFINE Ones(n) == {e \in 1 .. n : f[e] = 1}
             G == {n \in Nat : n <= N => SumOver(f, 1 .. n) = Cardinality(Ones(n))}
  <1>1. 0 \in G
    <2>1. 1 .. 0 = {} /\ Ones(0) = {}
      OBVIOUS
    <2>2. SumOver(f, {}) = 0 /\ Cardinality({}) = 0
      BY FS_EmptySet, SumOfRest
    <2> QED
      BY <2>1, <2>2
  <1>2. ASSUME NEW n \in Nat, n \in G PROVE n + 1 \in G
    <2> SUFFICES ASSUME n + 1 <= N PROVE SumOver(f, 1 .. n + 1) = Cardinality(Ones(n + 1))
      OBVIOUS
    <2>1. SumOver(f, 1 .. n + 1) = SumOver(f, 1 .. n) + f[n + 1]
      BY SumUpTo
    <2>2. SumOver(f, 1 .. n) = Cardinality(Ones(n))
      BY <1>2
    <2>3. IsFiniteSet(Ones(n)) /\ n + 1 \notin Ones(n)
      <3>1. IsFiniteSet(1 .. n)
        BY FS_Interval
      <3> QED
        BY <3>1, FS_Subset
    <2>4. /\ Cardinality(Ones(n)) \in Nat
          /\ Cardinality(Ones(n) \cup {n + 1}) = Cardinality(Ones(n)) + 1
      <3> HIDE DEF Ones
      <3> QED
        BY <2>3, FS_AddElement, FS_CardinalityType
    <2>5. Ones(n + 1) = IF f[n + 1] = 1 THEN Ones(n) \cup {n + 1} ELSE Ones(n)
      OBVIOUS
    <2>6. f[n + 1] \in {0, 1}
      OBVIOUS
    <2> HIDE DEF Ones
    <2> QED
      BY <2>1, <2>2, <2>4, <2>5, <2>6
  <1> HIDE DEF G
  <1>3. N \in G
    BY <1>1, <1>2, NaturalsCounted
  <1> QED
    BY <1>3 DEF G

Pairs(n) == {p \in (1 .. n) \X (1 .. n) : p[1] < p[2]}

LEMMA PairsAreFinite ==
  ASSUME NEW n \in Nat
  PROVE  IsFiniteSet(Pairs(n))
  <1>1. IsFiniteSet(1 .. n)
    BY FS_Interval
  <1>2. IsFiniteSet((1 .. n) \X (1 .. n))
    BY <1>1, FS_Product
  <1> QED
    BY <1>2, FS_Subset DEF Pairs

(* The pairs with one more event are those with it as the second.          *)
LEMMA PairsWithOneMore ==
  ASSUME NEW n \in Nat, NEW D, NEW F, \A p \in Pairs(n + 1) : D[p] \in Int,
         \A e \in 1 .. n : F[e] = D[<<e, n + 1>>]
  PROVE  SumOver(D, Pairs(n + 1)) = SumOver(D, Pairs(n)) + SumOver(F, 1 .. n)
  <1> DEFINE With(m) == Pairs(n) \cup {p \in Pairs(n + 1) : p[2] = n + 1 /\ p[1] <= m}
             G == {m \in Nat : m <= n =>
                    SumOver(D, With(m)) = SumOver(D, Pairs(n)) + SumOver(F, 1 .. m)}
  <1>0. IsFiniteSet(Pairs(n + 1)) /\ Pairs(n) \subseteq Pairs(n + 1)
    BY PairsAreFinite DEF Pairs
  <1>t. /\ \A T \in SUBSET Pairs(n + 1) : SumOver(D, T) \in Int
        /\ \A e \in 1 .. n : F[e] \in Int
    <2>1. \A e \in 1 .. n : <<e, n + 1>> \in Pairs(n + 1)
      BY DEF Pairs
    <2> QED
      BY <1>0, <2>1, SumIsInteger
  <1>w. With(0) = Pairs(n) /\ With(n) = Pairs(n + 1)
    BY DEF Pairs
  <1>s. ASSUME NEW m \in Nat, m + 1 <= n
        PROVE  /\ <<m + 1, n + 1>> \in With(m + 1)
               /\ With(m + 1) \ {<<m + 1, n + 1>>} = With(m)
               /\ With(m + 1) \subseteq Pairs(n + 1) /\ With(m) \subseteq Pairs(n + 1)
    BY <1>0, <1>s DEF Pairs
  <1> HIDE DEF With
  <1>1. 0 \in G
    <2>1. With(0) = Pairs(n)
      BY <1>w
    <2>2. SumOver(F, 1 .. 0) = 0
      <3>1. 1 .. 0 = {}
        OBVIOUS
      <3> QED
        BY <3>1, FS_EmptySet, SumOfRest
    <2>3. SumOver(D, Pairs(n)) \in Int
      BY <1>0, <1>t
    <2> QED
      BY <2>1, <2>2, <2>3
  <1>2. ASSUME NEW m \in Nat, m \in G PROVE m + 1 \in G
    <2> SUFFICES ASSUME m + 1 <= n
                 PROVE  SumOver(D, With(m + 1)) = SumOver(D, Pairs(n)) + SumOver(F, 1 .. m + 1)
      OBVIOUS
    <2> DEFINE p == <<m + 1, n + 1>>
    <2>1. p \in With(m + 1) /\ With(m + 1) \ {p} = With(m) /\ With(m + 1) \subseteq Pairs(n + 1)
      BY <1>s
    <2>2. SumOver(D, With(m + 1)) = D[p] + SumOver(D, With(m + 1) \ {p})
      <3> HIDE DEF p
      <3> QED
        BY <1>0, <2>1, SumWithElement
    <2>3. SumOver(F, 1 .. m + 1) = SumOver(F, 1 .. m) + F[m + 1]
      BY <1>t, SumUpTo
    <2>4. SumOver(D, With(m)) = SumOver(D, Pairs(n)) + SumOver(F, 1 .. m)
      BY <1>2
    <2>5. D[p] = F[m + 1] /\ F[m + 1] \in Int
      BY <1>t
    <2>6. SumOver(F, 1 .. m) \in Int
      <3>1. IsFiniteSet(1 .. n) /\ 1 .. m \in SUBSET (1 .. n)
        BY FS_Interval
      <3> QED
        BY <1>t, <3>1, SumIsInteger
    <2>7. SumOver(D, Pairs(n)) \in Int
      BY <1>0, <1>t
    <2>8. SumOver(D, With(m + 1) \ {p}) = SumOver(D, With(m))
      BY <2>1
    <2> HIDE DEF p
    <2> QED
      BY <2>2, <2>3, <2>4, <2>5, <2>6, <2>7, <2>8
  <1> HIDE DEF G
  <1>3. n \in G
    BY <1>1, <1>2, NaturalsCounted
  <1> QED
    BY <1>3, <1>w DEF G

LEMMA SquaredDistances ==
  ASSUME NEW n \in Nat, NEW X, \A e \in 1 .. n : X[e] \in Int, NEW y \in Int
  PROVE  SumOver([e \in 1 .. n |-> Square(X[e] - y)], 1 .. n) =
           SumOver([e \in 1 .. n |-> Square(X[e])], 1 .. n)
           - 2 * y * SumOver(X, 1 .. n) + n * Square(y)
  <1> DEFINE Q == [e \in 1 .. n |-> Square(X[e])]
             One1 == [e \in 1 .. n |-> 1]
             L == [e \in 1 .. n |-> (-(2 * y)) * X[e] + Square(y) * 1]
             D == [e \in 1 .. n |-> Square(X[e] - y)]
  <1>1. IsFiniteSet(1 .. n)
    BY FS_Interval
  <1>2. SumOver(One1, 1 .. n) = n
    <2>1. SumOver(One1, 1 .. n) = Cardinality({e \in 1 .. n : One1[e] = 1})
      BY SumCounts
    <2>2. {e \in 1 .. n : One1[e] = 1} = 1 .. n
      OBVIOUS
    <2>3. Cardinality(1 .. n) = n
      BY FS_Interval
    <2> QED
      BY <2>1, <2>2, <2>3
  <1>3. Square(y) \in Int /\ -(2 * y) \in Int
    BY DEF Square
  <1>4. ASSUME NEW e \in 1 .. n
        PROVE  /\ Q[e] \in Int /\ L[e] \in Int /\ D[e] = 1 * Q[e] + 1 * L[e]
               /\ X[e] \in Int /\ One1[e] \in Int
               /\ L[e] = (-(2 * y)) * X[e] + Square(y) * One1[e]
    <2>1. \A x \in Int : (x - y) * (x - y) = 1 * (x * x) + 1 * ((-(2 * y)) * x + (y * y) * 1)
      OBVIOUS
    <2>2. \A x \in Int : x * x \in Int /\ (-(2 * y)) * x + (y * y) * 1 \in Int
      OBVIOUS
    <2>3. X[e] \in Int
      OBVIOUS
    <2> QED
      BY <2>1, <2>2, <2>3 DEF Square
  <1> HIDE DEF Q, One1, L, D
  <1>5. SumOver(L, 1 .. n) = (-(2 * y)) * SumOver(X, 1 .. n) + Square(y) * SumOver(One1, 1 .. n)
    BY <1>1, <1>3, <1>4, SumOfSums
  <1>6. SumOver(D, 1 .. n) = 1 * SumOver(Q, 1 .. n) + 1 * SumOver(L, 1 .. n)
    BY <1>1, <1>4, SumOfSums
  <1>7. SumOver(X, 1 .. n) \in Int /\ SumOver(Q, 1 .. n) \in Int
    BY <1>1, <1>4, SumIsInteger
  <1>8. ASSUME NEW q \in Int, NEW c \in Int, NEW t \in Int
        PROVE  1 * q + 1 * ((-(2 * y)) * c + t * n) = q - 2 * y * c + n * t
    OBVIOUS
  <1>9. SumOver(D, 1 .. n) = SumOver(Q, 1 .. n) - 2 * y * SumOver(X, 1 .. n) + n * Square(y)
    BY <1>2, <1>3, <1>5, <1>6, <1>7, <1>8
  <1> QED
    BY <1>9 DEF D, Q

(* The spread of numbers: the squared distances of all pairs add up to n   *)
(* times the sum of the squares less the square of the sum.                *)
LEMMA SpreadOfPairs ==
  ASSUME NEW N \in Nat, NEW X, \A e \in 1 .. N : X[e] \in Int
  PROVE  SumOver([p \in Pairs(N) |-> Square(X[p[1]] - X[p[2]])], Pairs(N)) =
           N * SumOver([e \in 1 .. N |-> Square(X[e])], 1 .. N) - Square(SumOver(X, 1 .. N))
  <1> DEFINE Q == [e \in 1 .. N |-> Square(X[e])]
             D == [p \in Pairs(N) |-> Square(X[p[1]] - X[p[2]])]
             G == {n \in Nat : n <= N =>
                    SumOver(D, Pairs(n)) = n * SumOver(Q, 1 .. n) - Square(SumOver(X, 1 .. n))}
  <1>0. \A x \in Int, y \in Int : Square(x) \in Int /\ Square(x - y) \in Int
    BY DEF Square
  <1>d. ASSUME NEW p \in Pairs(N) PROVE D[p] \in Int
    <2>1. X[p[1]] \in Int /\ X[p[2]] \in Int
      BY DEF Pairs
    <2> QED
      BY <1>0, <2>1
  <1>q. \A e \in 1 .. N : Q[e] \in Int
    BY <1>0
  <1>1. 0 \in G
    <2>1. Pairs(0) = {} /\ 1 .. 0 = {}
      BY DEF Pairs
    <2>2. SumOver(D, {}) = 0 /\ SumOver(Q, {}) = 0 /\ SumOver(X, {}) = 0
      BY FS_EmptySet, SumOfRest
    <2>3. SumOver(D, Pairs(0)) = 0 /\ SumOver(Q, 1 .. 0) = 0 /\ SumOver(X, 1 .. 0) = 0
      BY <2>1, <2>2
    <2>4. 0 = 0 * 0 - Square(0)
      BY DEF Square
    <2> HIDE DEF D, Q
    <2> QED
      BY <2>3, <2>4
  <1>2. ASSUME NEW n \in Nat, n \in G PROVE n + 1 \in G
    <2> SUFFICES ASSUME n + 1 <= N
                 PROVE  SumOver(D, Pairs(n + 1)) =
                          (n + 1) * SumOver(Q, 1 .. n + 1) - Square(SumOver(X, 1 .. n + 1))
      BY DEF G
    <2> DEFINE y == X[n + 1]
               F == [e \in 1 .. n |-> Square(X[e] - y)]
    <2>0. y \in Int /\ Q[n + 1] = Square(y) /\ \A e \in 1 .. n : X[e] \in Int
      OBVIOUS
    <2>1. SumOver(D, Pairs(n + 1)) = SumOver(D, Pairs(n)) + SumOver(F, 1 .. n)
      <3>1. \A p \in Pairs(n + 1) : p \in Pairs(N)
        BY DEF Pairs
      <3>2. \A e \in 1 .. n : <<e, n + 1>> \in Pairs(N)
        BY DEF Pairs
      <3>3. \A e \in 1 .. n : F[e] = D[<<e, n + 1>>]
        BY <3>2
      <3> HIDE DEF D, F
      <3> QED
        BY <1>d, <3>1, <3>3, PairsWithOneMore
    <2>2. SumOver(F, 1 .. n) = SumOver(Q, 1 .. n) - 2 * y * SumOver(X, 1 .. n) + n * Square(y)
      <3> DEFINE P == [e \in 1 .. n |-> Square(X[e])]
      <3>1. SumOver(P, 1 .. n) = SumOver(Q, 1 .. n)
        <4>1. IsFiniteSet(1 .. n) /\ \A e \in 1 .. n : P[e] = Q[e]
          BY FS_Interval
        <4> HIDE DEF P, Q
        <4> QED
          BY <4>1, SumOfEqual
      <3>2. SumOver(F, 1 .. n) = SumOver(P, 1 .. n) - 2 * y * SumOver(X, 1 .. n) + n * Square(y)
        BY <2>0, SquaredDistances
      <3> HIDE DEF F, P, Q, y
      <3> QED
        BY <3>1, <3>2
    <2>3. /\ SumOver(Q, 1 .. n + 1) = SumOver(Q, 1 .. n) + Square(y)
          /\ SumOver(X, 1 .. n + 1) = SumOver(X, 1 .. n) + y
      <3> HIDE DEF Q
      <3> QED
        BY <1>q, <2>0, SumUpTo
    <2>4. SumOver(D, Pairs(n)) = n * SumOver(Q, 1 .. n) - Square(SumOver(X, 1 .. n))
      BY <1>2 DEF G
    <2>5. SumOver(Q, 1 .. n) \in Int /\ SumOver(X, 1 .. n) \in Int
      <3>1. IsFiniteSet(1 .. N) /\ 1 .. n \in SUBSET (1 .. N)
        BY FS_Interval
      <3> HIDE DEF Q
      <3> QED
        BY <1>q, <3>1, SumIsInteger
    <2>6. ASSUME NEW q \in Int, NEW c \in Int, NEW z \in Int
          PROVE  (n * q - c * c) + (q - 2 * z * c + n * (z * z)) =
                 (n + 1) * (q + z * z) - (c + z) * (c + z)
      OBVIOUS
    <2> HIDE DEF D, Q, F, y
    <2> QED
      BY <2>0, <2>1, <2>2, <2>3, <2>4, <2>5, <2>6 DEF Square
  <1> HIDE DEF G
  <1>3. N \in G
    BY <1>1, <1>2, NaturalsCounted
  <1> QED
    BY <1>3 DEF G

(* How often each of the first events of a file makes a fill.              *)
EventCopies(t, events, x, n) == [e \in 1 .. n |-> Copies(x, Fill(t, events[e]))]

(* A content is the sum of what the events so far filled, and a sum of     *)
(* squares that of their squares.                                          *)
IsSummed(t, events, file) ==
  \A h \in Diagnosed(t) : \A bin \in Bins(t, h) :
    LET n == file.events
        X == EventCopies(t, events, <<h, bin>>, n)
    IN /\ Content(file, h, bin) = SumOver(X, 1 .. n)
       /\ h[1] \in EventLevel =>
            Copies(<<h, bin>>, file.squares) = SumOver([e \in 1 .. n |-> Square(X[e])], 1 .. n)

SumsInv ==
  s \in Subsystems => \A f \in DOMAIN histos : IsSummed(s, input.files[f].events, histos[f])

LEMMA NothingSummed ==
  ASSUME NEW t, NEW events
  PROVE  IsSummed(t, events, NoHistos)
  <1>1. \A f : SumOver(f, {}) = 0
    BY FS_EmptySet, SumOfRest
  <1>2. 1 .. 0 = {}
    OBVIOUS
  <1> QED
    BY <1>1, <1>2, NothingFilled DEF IsSummed, NoHistos, Content

LEMMA AddedIsSummed ==
  ASSUME NEW t \in Subsystems, NEW events, NEW file, IsHistos(file), IsSummed(t, events, file),
         \A e \in 1 .. file.events + 1 : IsEvent(events[e])
  PROVE  IsSummed(t, events, AddEvent(t, file, events[file.events + 1]))
  <1> DEFINE m == file.events
             event == events[m + 1]
             new == AddEvent(t, file, event)
  <1>1. m \in Nat /\ m + 1 \in Nat /\ new.events = m + 1
    BY DEF IsHistos, AddEvent
  <1>2. \A e \in 1 .. m + 1 : IsCount(Fill(t, events[e]))
    BY FillIsCount
  <1>3. IsCount(Fill(t, event)) /\ IsCount(EventSquares(Fill(t, event)))
    BY <1>1, <1>2, SquaresAreCounts
  <1> SUFFICES ASSUME NEW h \in Diagnosed(t), NEW bin \in Bins(t, h)
               PROVE  LET X == EventCopies(t, events, <<h, bin>>, m + 1)
                      IN /\ Content(new, h, bin) = SumOver(X, 1 .. m + 1)
                         /\ h[1] \in EventLevel =>
                              Copies(<<h, bin>>, new.squares) =
                                SumOver([e \in 1 .. m + 1 |-> Square(X[e])], 1 .. m + 1)
    BY <1>1 DEF IsSummed
  <1> DEFINE x == <<h, bin>>
             X == EventCopies(t, events, x, m + 1)
             Y == EventCopies(t, events, x, m)
             XX == [e \in 1 .. m + 1 |-> Square(X[e])]
             YY == [e \in 1 .. m |-> Square(Y[e])]
  <1>4. /\ \A e \in 1 .. m + 1 : X[e] \in Nat
        /\ X[m + 1] = Copies(x, Fill(t, event))
        /\ \A e \in 1 .. m : X[e] = Y[e]
    <2>1. \A e \in 1 .. m + 1 : X[e] = Copies(x, Fill(t, events[e]))
      BY DEF EventCopies
    <2>2. \A e \in 1 .. m : Y[e] = Copies(x, Fill(t, events[e]))
      BY DEF EventCopies
    <2>3. \A e \in 1 .. m + 1 : Copies(x, Fill(t, events[e])) \in Nat
      BY <1>2, CopiesAreCounted
    <2>4. m + 1 \in 1 .. m + 1 /\ \A e \in 1 .. m : e \in 1 .. m + 1
      BY <1>1
    <2> HIDE DEF X, Y, x, m
    <2> QED
      BY <2>1, <2>2, <2>3, <2>4
  <1>5. /\ \A e \in 1 .. m + 1 : XX[e] \in Int
        /\ XX[m + 1] = Square(Copies(x, Fill(t, event)))
        /\ \A e \in 1 .. m : XX[e] = YY[e]
    <2>1. \A z \in Nat : Square(z) \in Int
      BY DEF Square
    <2>2. m + 1 \in 1 .. m + 1 /\ \A e \in 1 .. m : e \in 1 .. m + 1
      BY <1>1
    <2> HIDE DEF X, Y, event
    <2> QED
      BY <1>4, <2>1, <2>2
  <1>6. /\ SumOver(Y, 1 .. m) = Content(file, h, bin)
        /\ h[1] \in EventLevel => SumOver(YY, 1 .. m) = Copies(x, file.squares)
    BY DEF IsSummed
  <1>7. Content(new, h, bin) = Content(file, h, bin) + Copies(x, Fill(t, event))
    BY <1>3, CopiesAdd DEF AddEvent, Content, IsHistos
  <1>8. Copies(x, new.squares) = Copies(x, file.squares) + Copies(x, EventSquares(Fill(t, event)))
    BY <1>3, CopiesAdd DEF AddEvent, IsHistos
  <1>9. h[1] \in EventLevel =>
          Copies(x, EventSquares(Fill(t, event))) = Square(Copies(x, Fill(t, event)))
    <2>1. x[1][1] = h[1]
      OBVIOUS
    <2> HIDE DEF x
    <2> QED
      BY <1>3, <2>1, SquaresAreCounts
  <1> HIDE DEF X, Y, XX, YY, x, new, event, m
  <1>10. IsFiniteSet(1 .. m) /\ m + 1 <= m + 1
    BY <1>1, FS_Interval
  <1>11. /\ SumOver(X, 1 .. m + 1) = SumOver(X, 1 .. m) + X[m + 1]
         /\ SumOver(X, 1 .. m) = SumOver(Y, 1 .. m)
    BY <1>1, <1>4, <1>10, SumUpTo, SumOfEqual
  <1>12. /\ SumOver(XX, 1 .. m + 1) = SumOver(XX, 1 .. m) + XX[m + 1]
         /\ SumOver(XX, 1 .. m) = SumOver(YY, 1 .. m)
    BY <1>1, <1>5, <1>10, SumUpTo, SumOfEqual
  <1>13. Content(new, h, bin) = SumOver(X, 1 .. m + 1)
    BY <1>4, <1>6, <1>7, <1>11
  <1>14. h[1] \in EventLevel => Copies(x, new.squares) = SumOver(XX, 1 .. m + 1)
    BY <1>5, <1>6, <1>8, <1>9, <1>12
  <1> QED
    BY <1>13, <1>14 DEF x, X, XX

LEMMA SumsInit == Init => SumsInv
  BY DEF Init, SumsInv

LEMMA SumsNext ==
  ASSUME StagesInv, HistosInv, SumsInv, [Next]_vars
  PROVE  SumsInv'
  <1>f. Len(input.files) \in Nat /\ DOMAIN input.files = 1 .. Len(input.files)
    BY FilesAssumption DEF StagesInv
  <1>h. Len(histos) \in Nat /\ DOMAIN histos = 1 .. Len(histos)
    BY SequenceFacts DEF StagesInv
  <1>i. input' = input /\ s' = s
    BY DEF Next, vars, parse_args, open_file, process_event, end_file, diagnose, save_comparison,
           write_output, finish, Throw, End, s
  <1>k. ASSUME histos' = histos PROVE SumsInv'
    BY <1>i, <1>k DEF SumsInv
  <1>n. CASE open_file /\ ~Throw
    <2>1. histos' = Append(histos, NoHistos)
      BY <1>n DEF open_file
    <2>2. PICK T : histos \in Seq(T)
      BY DEF StagesInv, IsSequence
    <2>3. /\ DOMAIN histos' = 1 .. Len(histos) + 1
          /\ \A f \in 1 .. Len(histos) : histos'[f] = histos[f]
          /\ histos'[Len(histos) + 1] = NoHistos
      <3>1. histos \in Seq(T \cup {NoHistos}) /\ NoHistos \in T \cup {NoHistos}
        BY <2>2
      <3> QED
        BY <2>1, <3>1
    <2>4. \A f \in DOMAIN histos' : f \in DOMAIN histos \/ histos'[f] = NoHistos
      BY <1>h, <2>3
    <2> QED
      BY <1>h, <1>i, <2>3, <2>4, NothingSummed DEF SumsInv
  <1>e. CASE process_event
    <2> DEFINE last == Len(histos)
               file == histos[last]
               events == input.files[last].events
               new == AddEvent(s, file, events[file.events + 1])
    <2>1. /\ last \in DOMAIN histos /\ file.events + 1 \in 1 .. Len(events)
          /\ last \in DOMAIN input.files /\ s \in Subsystems
          /\ histos' = [histos EXCEPT ![last] = new]
      BY <1>e, NextEvent
    <2>2. IsHistos(file) /\ file.events \in Nat
      BY <2>1 DEF HistosInv, IsHistos
    <2>3. \A e \in 1 .. file.events + 1 : IsEvent(events[e])
      <3>1. Len(events) \in Nat /\ DOMAIN events = 1 .. Len(events)
        BY <2>1, EventsAssumption DEF StagesInv
      <3>2. \A e \in DOMAIN events : IsEvent(events[e])
        BY <2>1, EventsAssumption DEF StagesInv, IsEvent
      <3> QED
        BY <2>1, <2>2, <3>1, <3>2
    <2>4. IsSummed(s, events, file)
      BY <2>1 DEF SumsInv
    <2> HIDE DEF events, file, last
    <2>5. IsSummed(s, events, new)
      BY <2>1, <2>2, <2>3, <2>4, AddedIsSummed
    <2>6. \A f \in DOMAIN histos' :
            f \in DOMAIN histos /\ histos'[f] = (IF f = last THEN new ELSE histos[f])
      BY <2>1
    <2> HIDE DEF new
    <2> QED
      BY <1>i, <2>5, <2>6 DEF SumsInv, events
  <1> QED
    BY <1>k, <1>n, <1>e
    DEF Next, vars, parse_args, open_file, end_file, diagnose, save_comparison, write_output,
        finish, Throw, End

(* An event fills a bin of a vertex histogram once if it has a hit from    *)
(* there, and no other histogram is filled by it.                          *)
LEMMA VertexOfEvent ==
  ASSUME NEW event, IsEvent(event), NEW r, NEW v \in Nat \ {0}
  PROVE  Copies(<<<<"z_vertex", r, 0>>, At(v)>>, DcFill(event)) =
           IF \E row \in Range(event.true) :
                WireHit(event, row) /\ row.vertex = v /\ WireRegion(event, row) = r
             THEN 1 ELSE 0
  <1> DEFINE x == <<<<"z_vertex", r, 0>>, At(v)>>
             Particles == Filled(event.particles, LAMBDA row : row.moving, LAMBDA row :
               {One("momentum", row.value), One("theta", row.value), One("phi", row.value)})
             Tdc == Filled(event.tdc, LAMBDA row : Accepted("dc", row), LAMBDA row :
               {<<<<"tdc", Region(row.layer), row.sector>>, At(row.value)>>})
             Once == Filled(event.true, LAMBDA row : WireHit(event, row), LAMBDA row :
               {One("xy", row.value), <<<<"rz_vertex", WireRegion(event, row), 0>>, At(row.vertex)>>})
             occupied == Filled(event.true, LAMBDA row : WireHit(event, row),
                                LAMBDA row : OnWire(event, row))
             Weighted == [fill \in DOMAIN occupied |-> Weight(FillRegion(fill)) * occupied[fill]]
  <1>0. \A kind, y, z, bin : kind # "z_vertex" => x # <<<<kind, y, z>>, bin>>
    OBVIOUS
  <1>1. Copies(x, Particles) = 0
    <2> DEFINE fills == [i \in DOMAIN event.particles |->
                 IF event.particles[i].moving
                   THEN {One("momentum", event.particles[i].value),
                         One("theta", event.particles[i].value),
                         One("phi", event.particles[i].value)}
                   ELSE {}]
    <2>1. Particles = Tally(fills)
      BY DEF Filled
    <2>2. \A i \in DOMAIN fills : x \notin fills[i]
      BY <1>0 DEF One
    <2> HIDE DEF fills, x, Particles
    <2> QED
      BY <2>1, <2>2, NotTallied
  <1>2. Copies(x, Tdc) = 0
    <2> DEFINE fills == [i \in DOMAIN event.tdc |->
                 IF Accepted("dc", event.tdc[i])
                   THEN {<<<<"tdc", Region(event.tdc[i].layer), event.tdc[i].sector>>,
                          At(event.tdc[i].value)>>}
                   ELSE {}]
    <2>1. Tdc = Tally(fills)
      BY DEF Filled
    <2>2. \A i \in DOMAIN fills : x \notin fills[i]
      BY <1>0
    <2> HIDE DEF fills, x, Tdc
    <2> QED
      BY <2>1, <2>2, NotTallied
  <1>3. Copies(x, Once) = 0
    <2> DEFINE fills == [i \in DOMAIN event.true |->
                 IF WireHit(event, event.true[i])
                   THEN {One("xy", event.true[i].value),
                         <<<<"rz_vertex", WireRegion(event, event.true[i]), 0>>,
                          At(event.true[i].vertex)>>}
                   ELSE {}]
    <2>1. Once = Tally(fills)
      BY DEF Filled
    <2>2. \A i \in DOMAIN fills : x \notin fills[i]
      BY <1>0 DEF One
    <2> HIDE DEF fills, x, Once
    <2> QED
      BY <2>1, <2>2, NotTallied
  <1>4. Copies(x, Weighted) = 0
    <2> DEFINE fills == [i \in DOMAIN event.true |->
                 IF WireHit(event, event.true[i]) THEN OnWire(event, event.true[i]) ELSE {}]
    <2>1. occupied = Tally(fills)
      BY DEF Filled
    <2>2. \A i \in DOMAIN fills : x \notin fills[i]
      BY <1>0 DEF OnWire
    <2> HIDE DEF fills, x, occupied
    <2>3. x \notin DOMAIN Weighted
      BY <2>1, <2>2, NotTallied
    <2> HIDE DEF Weighted
    <2> QED
      BY <2>3 DEF Copies, BagIn, BagToSet
  <1> USE DEF Copies, BagIn, BagToSet
  <1>5. Copies(x, VertexFill(event)) =
          IF \E row \in Range(event.true) :
               WireHit(event, row) /\ row.vertex = v /\ WireRegion(event, row) = r
            THEN 1 ELSE 0
    <2>1. ASSUME NEW row
          PROVE  Vertex(event, row) = x <=> row.vertex = v /\ WireRegion(event, row) = r
      BY DEF Vertex, At
    <2>2. x \in DOMAIN VertexFill(event) <=>
            \E row \in Range(event.true) :
              WireHit(event, row) /\ row.vertex # 0 /\ Vertex(event, row) = x
      BY DEF VertexFill, SetToBag
    <2>3. x \in DOMAIN VertexFill(event) => VertexFill(event)[x] = 1
      BY DEF VertexFill, SetToBag
    <2> HIDE DEF x
    <2> QED
      BY <2>1, <2>2, <2>3
  <1> HIDE DEF Copies, BagIn, BagToSet
  <1>6. IsCount(Particles) /\ IsCount(Tdc) /\ IsCount(Once) /\ IsCount(VertexFill(event))
    BY TallyIsCount, WireIsCount DEF Filled, IsEvent
  <1>7. IsCount(Weighted)
    <2>1. IsCount(occupied)
      BY TallyIsCount DEF Filled, IsEvent
    <2> HIDE DEF occupied
    <2>2. \A z \in DOMAIN occupied : occupied[z] \in Nat
      BY <2>1 DEF IsCount
    <2>3. \A z \in DOMAIN occupied : Weight(FillRegion(z)) * occupied[z] \in Nat
      BY <2>2 DEF Weight
    <2> QED
      BY <2>3 DEF IsCount
  <1>8. DcFill(event) = Particles (+) Tdc (+) VertexFill(event) (+) (Once (+) Weighted)
    BY DEF DcFill, WireFill
  <1> HIDE DEF Particles, Tdc, Once, Weighted, occupied, x
  <1>9. IsCount(Once (+) Weighted) /\ Copies(x, Once (+) Weighted) = 0
    BY <1>3, <1>4, <1>6, <1>7, CopiesAdd
  <1>10. IsCount(Particles (+) Tdc) /\ Copies(x, Particles (+) Tdc) = 0
    BY <1>1, <1>2, <1>6, CopiesAdd
  <1>11. /\ IsCount(Particles (+) Tdc (+) VertexFill(event))
         /\ Copies(x, Particles (+) Tdc (+) VertexFill(event)) = 0 + Copies(x, VertexFill(event))
    BY <1>6, <1>10, CopiesAdd
  <1>12. Copies(x, DcFill(event)) = 0 + Copies(x, VertexFill(event)) + 0
    BY <1>8, <1>9, <1>11, CopiesAdd
  <1>13. Copies(x, DcFill(event)) = Copies(x, VertexFill(event))
    <2>1. Copies(x, VertexFill(event)) \in Nat
      BY <1>6, CopiesAreCounted
    <2> QED
      BY <1>12, <2>1
  <1> QED
    BY <1>5, <1>13 DEF x

LEMMA VertexCounted ==
  ASSUME StagesInv, HistosInv, SumsInv
  PROVE  VertexCountsEvents
  <1> SUFFICES ASSUME s = "dc", NEW f \in DOMAIN histos
               PROVE  /\ \A r \in Regions : \A v \in 1 .. BinCount :
                           Content(histos[f], <<"z_vertex", r, 0>>, At(v)) =
                             Cardinality({e \in 1 .. histos[f].events :
                               LET event == input.files[f].events[e]
                               IN \E row \in Range(event.true) :
                                    WireHit(event, row) /\ row.vertex = v /\ WireRegion(event, row) = r})
                      /\ \A h \in {d \in Diagnosed(s) : d[1] \in EventLevel} :
                           \A bin \in Bins(s, h) : SquaredError(h, histos[f], bin) = Spread(f, h, bin)
    BY DEF VertexCountsEvents
  <1> DEFINE n == histos[f].events
             events == input.files[f].events
  <1>1. n \in Nat /\ s \in Subsystems
    BY DEF HistosInv, IsHistos, Subsystems
  <1>2. \A e \in 1 .. n : IsEvent(events[e])
    <2>1. f \in DOMAIN input.files
      <3>1. Len(histos) \in Nat /\ DOMAIN histos = 1 .. Len(histos)
        BY SequenceFacts DEF StagesInv
      <3>2. Len(input.files) \in Nat /\ DOMAIN input.files = 1 .. Len(input.files)
        BY FilesAssumption DEF StagesInv
      <3> QED
        BY <3>1, <3>2 DEF HistosInv
    <2>2. Len(events) \in Nat /\ DOMAIN events = 1 .. Len(events)
      BY <2>1, EventsAssumption DEF StagesInv
    <2>3. \A e \in DOMAIN events : IsEvent(events[e])
      BY <2>1, EventsAssumption DEF StagesInv, IsEvent
    <2>4. n <= Len(events)
      BY DEF HistosInv
    <2> QED
      BY <1>1, <2>2, <2>3, <2>4
  <1>3. IsSummed(s, events, histos[f])
    BY <1>1 DEF SumsInv
  <1>4. ASSUME NEW x
        PROVE  \A e \in 1 .. n : EventCopies(s, events, x, n)[e] \in Nat
    BY <1>1, <1>2, FillIsCount, CopiesAreCounted DEF EventCopies
  <1>5. ASSUME NEW r \in Regions, NEW v \in 1 .. BinCount
        PROVE  Content(histos[f], <<"z_vertex", r, 0>>, At(v)) =
                 Cardinality({e \in 1 .. n :
                   \E row \in Range(events[e].true) :
                     WireHit(events[e], row) /\ row.vertex = v /\ WireRegion(events[e], row) = r})
    <2> DEFINE h == <<"z_vertex", r, 0>>
               Seen(e) == \E row \in Range(events[e].true) :
                     WireHit(events[e], row) /\ row.vertex = v /\ WireRegion(events[e], row) = r
               X == EventCopies(s, events, <<h, At(v)>>, n)
    <2>1. h \in Diagnosed(s) /\ At(v) \in Bins(s, h)
      BY DEF Diagnosed, DcDiagnosed, Bins, At, Counters, Regions
    <2>2. Content(histos[f], h, At(v)) = SumOver(X, 1 .. n)
      BY <1>3, <2>1 DEF IsSummed
    <2>3. \A e \in 1 .. n : X[e] = IF Seen(e) THEN 1 ELSE 0
      <3>1. v \in Nat \ {0}
        BY SubsystemAssumption
      <3>2. \A e \in 1 .. n : X[e] = Copies(<<h, At(v)>>, DcFill(events[e]))
        BY DEF EventCopies, Fill, Counters
      <3> QED
        BY <1>2, <3>1, <3>2, VertexOfEvent
    <2>4. {e \in 1 .. n : X[e] = 1} = {e \in 1 .. n : Seen(e)}
      BY <2>3
    <2>5. \A e \in 1 .. n : X[e] \in {0, 1}
      BY <2>3
    <2> HIDE DEF X
    <2>6. SumOver(X, 1 .. n) = Cardinality({e \in 1 .. n : X[e] = 1})
      BY <1>1, <2>5, SumCounts
    <2> QED
      BY <2>2, <2>4, <2>6
  <1>6. ASSUME NEW h \in Diagnosed(s), h[1] \in EventLevel, NEW bin \in Bins(s, h)
        PROVE  SquaredError(h, histos[f], bin) = Spread(f, h, bin)
    <2> DEFINE X == EventCopies(s, events, <<h, bin>>, n)
               Q == [e \in 1 .. n |-> Square(X[e])]
               D == [p \in Pairs(n) |-> Square(X[p[1]] - X[p[2]])]
    <2>0. /\ h[1] # "layer_wire"
          /\ SquaredError(h, histos[f], bin) =
               IF n > 1
                 THEN n * Copies(<<h, bin>>, histos[f].squares)
                      - Square(Content(histos[f], h, bin))
                 ELSE 0
      <3>1. h[1] # "layer_wire"
        BY <1>6 DEF EventLevel
      <3> QED
        BY <1>6, <3>1 DEF SquaredError
    <2>1. Spread(f, h, bin) = SumOver(D, Pairs(n))
      <3> DEFINE C == [p \in Pairs(n) |-> Square(Copies(<<h, bin>>, Fill(s, events[p[1]]))
                                                 - Copies(<<h, bin>>, Fill(s, events[p[2]])))]
      <3>1. \A p \in Pairs(n) : p[1] \in 1 .. n /\ p[2] \in 1 .. n
        BY DEF Pairs
      <3>2. C = D
        BY <3>1 DEF EventCopies
      <3>3. Spread(f, h, bin) = SumOver(C, Pairs(n))
        BY Zenon DEF Spread, Pairs
      <3> QED
        BY <3>2, <3>3
    <2>2. /\ Content(histos[f], h, bin) = SumOver(X, 1 .. n)
          /\ Copies(<<h, bin>>, histos[f].squares) = SumOver(Q, 1 .. n)
      BY <1>3, <1>6 DEF IsSummed
    <2>3. \A e \in 1 .. n : X[e] \in Int
      BY <1>4
    <2> HIDE DEF X, n
    <2>4. SumOver(D, Pairs(n)) = n * SumOver(Q, 1 .. n) - Square(SumOver(X, 1 .. n))
      BY <1>1, <2>3, SpreadOfPairs
    <2> HIDE DEF Q, D
    <2>5. CASE n > 1
      BY <2>0, <2>1, <2>2, <2>4, <2>5
    <2>6. CASE ~(n > 1)
      <3>1. Pairs(n) = {}
        BY <1>1, <2>6 DEF Pairs
      <3>2. SumOver(D, {}) = 0
        BY FS_EmptySet, SumOfRest
      <3>3. SquaredError(h, histos[f], bin) = 0
        BY <2>0, <2>6
      <3> QED
        BY <2>1, <3>1, <3>2, <3>3
    <2> QED
      BY <2>5, <2>6
  <1> QED
    BY <1>5, <1>6

-----------------------------------------------------------------------------
(* What a run has read, summed and decided so far.                         *)
RunInv == StagesInv /\ HistosInv /\ SumsInv

LEMMA RunInit == Init => RunInv
  BY StagesInit, HistosInit, SumsInit DEF RunInv

LEMMA RunNext == RunInv /\ [Next]_vars => RunInv'
  BY StagesNext, HistosNext, SumsNext DEF RunInv

(* The exit status of a run means what --fail-on-diff promises: success    *)
(* only if every histogram of the subsystem was compared and passed.       *)
THEOREM ExitStatus == Spec => []ExitTellsVerdict
  <1>1. RunInv => ExitTellsVerdict
    BY DEF RunInv, StagesInv
  <1> QED
    BY RunInit, RunNext, <1>1, PTL DEF Spec

(* Files of the same content per event pass, for every histogram that is   *)
(* taken per event, and a histogram that went quiet does not; and whatever *)
(* the options and contents, the order of the two files does not matter.   *)
THEOREM RatesDecide == Spec => []VerdictFollowsRates
  <1>1. RunInv => VerdictFollowsRates
    BY RatesFollowed DEF RunInv
  <1> QED
    BY RunInit, RunNext, <1>1, PTL DEF Spec

(* The vertex histograms of the drift chambers count events, and the       *)
(* errors of correlated hits are the spread between events.                *)
THEOREM EventsAreCounted == Spec => []VertexCountsEvents
  <1>1. RunInv => VertexCountsEvents
    BY VertexCounted DEF RunInv
  <1> QED
    BY RunInit, RunNext, <1>1, PTL DEF Spec
=============================================================================
