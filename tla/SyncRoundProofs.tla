--------------------------- MODULE SyncRoundProofs ---------------------------
(***************************************************************************)
(* Rounds of sync: proofs that the frames of a round describe disjoint     *)
(* ground, that each names all its window claims, within what its filter   *)
(* holds, and that the records of a round and of its answers account for   *)
(* what was named and what was not.                                        *)
(***************************************************************************)
EXTENDS SyncRound, FiniteSetTheorems, SequenceTheorems, WellFoundedInduction, FunctionTheorems, TLAPS

-----------------------------------------------------------------------------
(* Numbers and finite sets. *)

(* A set of natural numbers that is not empty has a least element. *)
LEMMA LeastNatural ==
  ASSUME NEW T, T \subseteq Nat, T # {}
  PROVE  \E x \in T : \A y \in T : x <= y
<1>1. IsWellFoundedOn(OpToRel(<, Nat), Nat)
  BY NatLessThanWellFounded, Zenon
<1>2. PICK x \in T : \A y \in T : <<y, x>> \notin OpToRel(<, Nat)
  BY <1>1, WFMin, Zenon
<1>3. ASSUME NEW y \in T PROVE x <= y
  <2>1. <<y, x>> \notin OpToRel(<, Nat)
    BY <1>2
  <2>2. ~(y < x)
    BY <2>1, Zenon DEF OpToRel
  <2> QED BY <2>2
<1> QED BY <1>3

(* Induction: a set with 0 and with the successor of each of its numbers has them all. *)
LEMMA AllNaturals ==
  ASSUME NEW S, 0 \in S, \A n \in Nat : n \in S => n + 1 \in S
  PROVE  Nat \subseteq S
<1> SUFFICES ASSUME Nat \ S # {} PROVE FALSE
  OBVIOUS
<1>1. PICK x \in Nat \ S : \A y \in Nat \ S : x <= y
  BY LeastNatural
<1>2. x # 0 /\ x - 1 \in Nat /\ x - 1 \in S
  BY <1>1
<1> QED BY <1>1, <1>2

(* A bounded set of natural numbers that is not empty has a greatest element. *)
LEMMA GreatestBelow ==
  ASSUME NEW b \in Nat, NEW T, T \subseteq 0..b, T # {}
  PROVE  \E x \in T : \A y \in T : y <= x
<1> DEFINE U == {b - x : x \in T}
<1>1. PICK u \in U : \A v \in U : u <= v
  <2>1. \A x \in T : b - x \in Nat
    OBVIOUS
  <2>2. U \subseteq Nat /\ U # {}
    BY <2>1
  <2> HIDE DEF U
  <2> QED BY <2>2, LeastNatural
<1>2. PICK x \in T : u = b - x
  BY <1>1
<1>3. ASSUME NEW y \in T PROVE y <= x
  <2>1. b - y \in U
    OBVIOUS
  <2>2. u <= b - y
    BY <1>1, <2>1
  <2> QED BY <1>2, <2>2
<1> QED BY <1>3

LEMMA ImageIsFinite ==
  ASSUME NEW S, IsFiniteSet(S), NEW f, DOMAIN f = S
  PROVE  IsFiniteSet({f[x] : x \in S}) /\ Cardinality({f[x] : x \in S}) <= Cardinality(S)
<1> DEFINE T == {f[x] : x \in S}
<1> DEFINE g == [x \in S |-> f[x]]
<1>1. g \in Surjection(S, T)
  BY DEF Surjection
<1> QED BY <1>1, FS_Surjection

LEMMA FiniteIsBounded ==
  ASSUME NEW T, IsFiniteSet(T), T \subseteq Nat
  PROVE  \E b \in Nat : \A x \in T : x <= b
<1> DEFINE S == {n \in Nat : \A U \in SUBSET T : Cardinality(U) = n => \E b \in Nat : \A x \in U : x <= b}
<1>1. 0 \in S
  <2>1. ASSUME NEW U \in SUBSET T, Cardinality(U) = 0 PROVE U = {}
    BY <2>1, FS_Subset, FS_EmptySet
  <2> QED BY <2>1
<1>2. ASSUME NEW n \in Nat, n \in S PROVE n + 1 \in S
  <2> SUFFICES ASSUME NEW U \in SUBSET T, Cardinality(U) = n + 1
               PROVE  \E b \in Nat : \A x \in U : x <= b
    OBVIOUS
  <2> HIDE DEF S
  <2>1. IsFiniteSet(U) /\ U # {}
    <3>1. IsFiniteSet(U)
      BY FS_Subset
    <3>2. Cardinality({}) = 0
      BY FS_EmptySet
    <3> QED BY <3>1, <3>2
  <2>2. PICK u : u \in U
    BY <2>1
  <2>3. Cardinality(U \ {u}) = n
    <3>1. Cardinality(U \ {u}) = Cardinality(U) - 1
      BY <2>1, <2>2, FS_RemoveElement
    <3> QED BY <3>1
  <2>4. PICK b \in Nat : \A x \in U \ {u} : x <= b
    BY <1>2, <2>3 DEF S
  <2>5. b + u \in Nat /\ \A x \in U : x <= b + u
    BY <2>2, <2>4
  <2> QED BY <2>5
<1>3. Cardinality(T) \in S
  <2>1. Nat \subseteq S
    <3> HIDE DEF S
    <3> QED BY <1>1, <1>2, AllNaturals
  <2> QED BY <2>1, FS_CardinalityType
<1> QED BY <1>3

LEMMA GreatestOfFinite ==
  ASSUME NEW T, IsFiniteSet(T), T \subseteq Nat, T # {}
  PROVE  \E x \in T : \A y \in T : y <= x
<1>1. PICK b \in Nat : \A x \in T : x <= b
  BY FiniteIsBounded
<1>2. T \subseteq 0..b
  BY <1>1
<1> QED BY <1>2, GreatestBelow

(* A set within another finite one. *)
LEMMA Fewer ==
  ASSUME NEW T, IsFiniteSet(T), NEW S \in SUBSET T
  PROVE  /\ IsFiniteSet(S) /\ Cardinality(S) \in Nat /\ Cardinality(T) \in Nat
         /\ Cardinality(S) <= Cardinality(T)
         /\ S # T => Cardinality(S) < Cardinality(T)
  BY FS_Subset, FS_CardinalityType

LEMMA OneMore ==
  ASSUME NEW S, IsFiniteSet(S), NEW x
  PROVE  /\ IsFiniteSet(S \cup {x})
         /\ Cardinality(S \cup {x}) <= Cardinality(S) + 1
         /\ x \notin S => Cardinality(S \cup {x}) = Cardinality(S) + 1
<1>1. Cardinality(S) \in Nat
  BY FS_CardinalityType
<1>2. CASE x \in S
  <2>1. (S \cup {x}) = S
    BY <1>2
  <2>2. \A T : T = S => IsFiniteSet(T) /\ Cardinality(T) <= Cardinality(S) + 1
    BY <1>1
  <2>3. IsFiniteSet(S \cup {x}) /\ Cardinality(S \cup {x}) <= Cardinality(S) + 1
    BY <2>1, <2>2, Zenon
  <2> QED BY <1>2, <2>3
<1>3. CASE x \notin S
  BY <1>1, <1>3, FS_AddElement
<1> QED BY <1>2, <1>3

-----------------------------------------------------------------------------

-----------------------------------------------------------------------------
(* The first so many of a totally ordered finite set, and what is left of  *)
(* them when the key they were cut in is dropped.                          *)

IsOrder(R, S) ==
  /\ \A p \in S : <<p, p>> \notin R
  /\ \A p, q, x \in S : <<p, q>> \in R /\ <<q, x>> \in R => <<p, x>> \in R
  /\ \A p, q \in S : p = q \/ <<p, q>> \in R \/ <<q, p>> \in R
Before(R, S, p) == {q \in S : <<q, p>> \in R}
Leading(R, S, limit) == {p \in S : Cardinality(Before(R, S, p)) < limit}

LEMMA RankGrows ==
  ASSUME NEW R, NEW S, IsFiniteSet(S), IsOrder(R, S), NEW p \in S, NEW q \in S, <<p, q>> \in R
  PROVE  /\ Before(R, S, p) \cup {p} \subseteq Before(R, S, q)
         /\ Cardinality(Before(R, S, p)) < Cardinality(Before(R, S, q))
<1>1. Before(R, S, p) \cup {p} \subseteq Before(R, S, q)
  BY DEF IsOrder, Before
<1>2. p \notin Before(R, S, p)
  BY DEF IsOrder, Before
<1>3. IsFiniteSet(Before(R, S, q))
  BY FS_Subset DEF Before
<1>4. Before(R, S, p) # Before(R, S, q)
  BY <1>1, <1>2
<1> QED BY <1>1, <1>3, <1>4, Fewer

LEMMA LeadingAreFirst ==
  ASSUME NEW R, NEW S, IsFiniteSet(S), IsOrder(R, S), NEW limit \in Nat
  PROVE  /\ \A q \in Leading(R, S, limit) : \A p \in S : <<p, q>> \in R => p \in Leading(R, S, limit)
         /\ Cardinality(Leading(R, S, limit)) <= limit
         /\ Leading(R, S, limit) = {} => S = {} \/ limit = 0
<1> DEFINE L == Leading(R, S, limit)
           rank(p) == Cardinality(Before(R, S, p))
<1>1. \A p \in S : rank(p) \in Nat /\ IsFiniteSet(Before(R, S, p))
  BY Fewer DEF Before
<1>2. \A q \in L : \A p \in S : <<p, q>> \in R => p \in L
  BY <1>1, RankGrows DEF Leading
<1>3. Cardinality(L) <= limit
  <2>1. CASE L = {}
    BY <2>1, FS_EmptySet
  <2>2. CASE L # {}
    <3> DEFINE T == {rank(p) : p \in L}
    <3>1. T \subseteq 0..limit /\ T # {}
      BY <1>1, <2>2 DEF Leading
    <3>2. PICK x \in T : \A y \in T : y <= x
      <4> HIDE DEF T
      <4> QED BY <3>1, GreatestBelow
    <3>3. PICK p \in L : rank(p) = x
      BY <3>2
    <3>4. L \subseteq Before(R, S, p) \cup {p}
      <4> SUFFICES ASSUME NEW q \in L, q # p PROVE <<q, p>> \in R
        BY DEF Leading, Before
      <4>1. rank(q) <= rank(p) /\ rank(p) \in Nat /\ rank(q) \in Nat /\ p \in S /\ q \in S
        BY <1>1, <3>2, <3>3 DEF Leading
      <4>2. ~(<<p, q>> \in R)
        BY <4>1, RankGrows
      <4> QED BY <4>1, <4>2 DEF IsOrder
    <3>5. rank(p) < limit /\ rank(p) \in Nat /\ IsFiniteSet(Before(R, S, p))
      BY <1>1 DEF Leading
    <3>6. /\ IsFiniteSet(Before(R, S, p) \cup {p})
          /\ Cardinality(Before(R, S, p) \cup {p}) <= rank(p) + 1
      <4> DEFINE B == Before(R, S, p)
      <4>1. IsFiniteSet(B) /\ Cardinality(B) \in Nat
        BY <3>5
      <4>2. IsFiniteSet(B \cup {p}) /\ Cardinality(B \cup {p}) <= Cardinality(B) + 1
        <5> HIDE DEF B
        <5> QED BY <4>1, OneMore
      <4> QED BY <4>2
    <3>7. Cardinality(L) <= Cardinality(Before(R, S, p) \cup {p})
      BY <3>4, <3>6, Fewer
    <3>8. Cardinality(L) \in Nat /\ Cardinality(Before(R, S, p) \cup {p}) \in Nat
      BY <3>4, <3>6, Fewer
    <3> HIDE DEF L, rank
    <3> QED BY <3>5, <3>6, <3>7, <3>8
  <2> QED BY <2>1, <2>2
<1>4. ASSUME S # {}, limit # 0 PROVE L # {}
  <2> DEFINE T == {rank(p) : p \in S}
  <2>1. T \subseteq Nat /\ T # {}
    BY <1>1, <1>4
  <2>2. PICK x \in T : \A y \in T : x <= y
    <3> HIDE DEF T
    <3> QED BY <2>1, LeastNatural
  <2>3. PICK p \in S : rank(p) = x
    BY <2>2
  <2>4. Before(R, S, p) = {}
    <3> SUFFICES ASSUME NEW q \in S, <<q, p>> \in R PROVE FALSE
      BY DEF Before
    <3>1. rank(q) < rank(p) /\ rank(p) <= rank(q) /\ rank(p) \in Nat /\ rank(q) \in Nat
      BY <1>1, <2>2, <2>3, RankGrows
    <3> QED BY <3>1
  <2>5. rank(p) = 0
    BY <2>4, FS_EmptySet
  <2> QED BY <1>4, <2>5 DEF Leading
<1> QED BY <1>2, <1>3, <1>4

(* Cut between keys: what the first so many leave out up to a key they reach shares its key *)
(* with more of the set than they may be.                                                   *)
Cut(R, S, limit, key, last) ==
  LET L == Leading(R, S, limit)
      whole == {p \in L : key[p] # key[last]}
  IN  IF L = S \/ whole = {} THEN L ELSE whole

LEMMA CutBetweenKeys ==
  ASSUME NEW R, NEW S, IsFiniteSet(S), IsOrder(R, S), NEW limit \in Nat,
         NEW key \in [S -> Int],
         \A p, q \in S : key[p] < key[q] => <<p, q>> \in R,
         \A p, q \in S : <<p, q>> \in R => key[p] <= key[q],
         NEW last \in Leading(R, S, limit),
         \A p \in Leading(R, S, limit) : key[p] <= key[last]
  PROVE  /\ Cut(R, S, limit, key, last) # {}
         /\ Cut(R, S, limit, key, last) \subseteq Leading(R, S, limit)
         /\ \A p \in S : \A q \in Cut(R, S, limit, key, last) :
              key[p] <= key[q] =>
                \/ p \in Cut(R, S, limit, key, last)
                \/ Cardinality({x \in S : key[x] = key[p]}) > limit
<1> DEFINE W == Cut(R, S, limit, key, last)
           L == Leading(R, S, limit)
           edge == key[last]
           whole == {p \in L : key[p] # edge}
<1>1. W # {} /\ W \subseteq L /\ L \subseteq S
  BY DEF Cut, Leading
<1>2. \A q \in L : \A p \in S : <<p, q>> \in R => p \in L
  BY LeadingAreFirst
<1>3. ASSUME NEW p \in S, NEW q \in W, key[p] <= key[q], p \notin W
      PROVE  Cardinality({x \in S : key[x] = key[p]}) > limit
  <2>1. L # S
    BY <1>3 DEF Cut
  <2>2. CASE whole # {}
    <3>1. W = whole
      BY <2>1, <2>2 DEF Cut
    <3>2. key[p] < key[last] /\ last \in S /\ last \in L
      BY <1>1, <1>3, <3>1
    <3>3. <<p, last>> \in R /\ key[p] # edge
      BY <3>2
    <3>4. p \in L
      BY <1>2, <3>2, <3>3
    <3> QED BY <1>3, <3>1, <3>3, <3>4
  <2>3. CASE whole = {}
    <3>1. W = L /\ key[p] <= edge
      BY <1>1, <1>3, <2>3 DEF Cut
    <3>2. key[p] = edge
      <4>1. last \in S /\ last \in L
        BY <1>1
      <4>2. key[p] < edge => <<p, last>> \in R
        BY <4>1
      <4>3. <<p, last>> \notin R
        BY <1>2, <1>3, <3>1, <4>1
      <4> QED BY <3>1, <4>1, <4>2, <4>3
    <3>3. Before(R, S, p) \subseteq {x \in S : key[x] = key[p]} \ {p}
      <4> SUFFICES ASSUME NEW x \in S, <<x, p>> \in R PROVE key[x] = key[p] /\ x # p
        BY DEF Before
      <4>1. key[x] <= key[p] /\ x # p
        BY DEF IsOrder
      <4>2. ~(key[x] < key[p])
        <5>1. key[x] < key[p] => x \in L
          BY <1>1, <1>2, <3>2
        <5> QED BY <2>3, <3>2, <5>1
      <4> QED BY <4>1, <4>2
    <3>4. ~(Cardinality(Before(R, S, p)) < limit)
      BY <1>3, <3>1 DEF Leading
    <3> DEFINE same == {x \in S : key[x] = key[p]}
    <3>5. IsFiniteSet(same) /\ p \in same
      BY FS_Subset
    <3>6. Cardinality(same \ {p}) = Cardinality(same) - 1 /\ IsFiniteSet(same \ {p})
      BY <3>5, FS_RemoveElement
    <3>7. Cardinality(Before(R, S, p)) <= Cardinality(same \ {p})
      BY <3>3, <3>6, Fewer
    <3>8. Cardinality(Before(R, S, p)) \in Nat /\ Cardinality(same) \in Nat
      BY <3>3, <3>5, <3>6, Fewer
    <3> HIDE DEF same
    <3>9. Cardinality(same) > limit
      BY <3>4, <3>6, <3>7, <3>8
    <3> QED BY <3>9 DEF same
  <2> QED BY <2>2, <2>3
<1> QED BY <1>1, <1>3

-----------------------------------------------------------------------------
(* The seen-set's two selections.                                          *)

SeenTyped == seen \in Seq(Packets) /\ IsInjective(seen)
OlderFirst == {d \in ToSet(seen) \X ToSet(seen) : Older(d[1], d[2])}
NewerFirst == {d \in ToSet(seen) \X ToSet(seen) : Newer(d[1], d[2])}

LEMMA SeenIsFinite ==
  ASSUME SeenTyped
  PROVE  /\ IsFiniteSet(ToSet(seen)) /\ ToSet(seen) \subseteq Packets
         /\ \A p \in ToSet(seen) : /\ CreatedAt[p] \in Nat /\ Position(p) \in Nat
                                   /\ Position(p) \in DOMAIN seen /\ seen[Position(p)] = p
<1>1. DOMAIN seen = 1..Len(seen) /\ Len(seen) \in Nat
  BY LenProperties DEF SeenTyped
<1>2. IsFiniteSet(ToSet(seen))
  <2>1. IsFiniteSet(1..Len(seen))
    BY <1>1, FS_Interval
  <2> QED BY <1>1, <2>1, ImageIsFinite DEF ToSet
<1>3. ToSet(seen) \subseteq Packets
  BY <1>1, ElementOfSeq DEF ToSet, SeenTyped
<1>4. ASSUME NEW p \in ToSet(seen)
      PROVE  Position(p) \in DOMAIN seen /\ seen[Position(p)] = p
  BY DEF ToSet, Position
<1> QED BY <1>1, <1>2, <1>3, <1>4, SyncAssumption

LEMMA AgesAreOrders ==
  ASSUME SeenTyped, NEW S \in SUBSET ToSet(seen)
  PROVE  /\ IsOrder(OlderFirst, S) /\ IsOrder(NewerFirst, S)
         /\ \A p, q \in S : <<p, q>> \in OlderFirst <=> Older(p, q)
         /\ \A p, q \in S : <<p, q>> \in NewerFirst <=> Newer(p, q)
<1>1. /\ \A p, q \in S : <<p, q>> \in OlderFirst <=> Older(p, q)
      /\ \A p, q \in S : <<p, q>> \in NewerFirst <=> Newer(p, q)
  BY DEF OlderFirst, NewerFirst
<1>2. \A p \in S : /\ CreatedAt[p] \in Nat /\ Position(p) \in Nat
                   /\ seen[Position(p)] = p
  BY SeenIsFinite
<1>3. \A p, q \in S : p = q \/ Position(p) # Position(q)
  BY <1>2
<1>4. /\ \A p \in S : ~Older(p, p) /\ ~Newer(p, p)
      /\ \A p, q, x \in S : Older(p, q) /\ Older(q, x) => Older(p, x)
      /\ \A p, q, x \in S : Newer(p, q) /\ Newer(q, x) => Newer(p, x)
      /\ \A p, q \in S : p = q \/ Older(p, q) \/ Older(q, p)
      /\ \A p, q \in S : p = q \/ Newer(p, q) \/ Newer(q, p)
  <2> DEFINE a(p) == CreatedAt[p]
             b(p) == Position(p)
  <2>1. \A p, q \in S : Older(p, q) <=> a(p) < a(q) \/ (a(p) = a(q) /\ b(p) < b(q))
    BY DEF Older
  <2>2. \A p, q \in S : Newer(p, q) <=> a(q) < a(p) \/ (a(p) = a(q) /\ b(p) < b(q))
    BY <1>2 DEF Newer
  <2>3. \A p \in S : a(p) \in Nat /\ b(p) \in Nat
    BY <1>2
  <2>4. \A p, q \in S : p = q \/ b(p) # b(q)
    BY <1>3
  <2> HIDE DEF a, b
  <2> QED BY <2>1, <2>2, <2>3, <2>4
<1> QED BY <1>1, <1>4 DEF IsOrder

LEMMA FirstIsLeading ==
  ASSUME SeenTyped, NEW S \in SUBSET ToSet(seen), NEW limit
  PROVE  /\ First(S, limit, Older) = Leading(OlderFirst, S, limit)
         /\ First(S, limit, Newer) = Leading(NewerFirst, S, limit)
<1>1. \A p \in S : /\ {q \in S : Older(q, p)} = Before(OlderFirst, S, p)
                   /\ {q \in S : Newer(q, p)} = Before(NewerFirst, S, p)
  BY AgesAreOrders DEF Before
<1> QED BY <1>1 DEF First, Leading

LEMMA EdgeOfStamps ==
  ASSUME SeenTyped, NEW P \in SUBSET ToSet(seen), P # {}
  PROVE  /\ \E p \in P : Min(Stamps(P)) = CreatedAt[p]
         /\ \E p \in P : Max(Stamps(P)) = CreatedAt[p]
         /\ \A p \in P : Min(Stamps(P)) <= CreatedAt[p] /\ CreatedAt[p] <= Max(Stamps(P))
         /\ Min(Stamps(P)) \in Nat /\ Max(Stamps(P)) \in Nat
<1>1. Stamps(P) \subseteq Nat /\ Stamps(P) # {}
  BY SeenIsFinite DEF Stamps
<1>2. IsFiniteSet(Stamps(P))
  <2> DEFINE f == [p \in P |-> CreatedAt[p]]
  <2>1. IsFiniteSet(P) /\ DOMAIN f = P
    BY SeenIsFinite, FS_Subset
  <2>2. IsFiniteSet({f[p] : p \in P})
    <3> HIDE DEF f
    <3> QED BY <2>1, ImageIsFinite
  <2> QED BY <2>2 DEF Stamps
<1>3. Min(Stamps(P)) \in Stamps(P) /\ \A x \in Stamps(P) : Min(Stamps(P)) <= x
  <2>1. \E x \in Stamps(P) : \A y \in Stamps(P) : x <= y
    BY <1>1, LeastNatural
  <2> QED BY <2>1 DEF Min
<1>4. Max(Stamps(P)) \in Stamps(P) /\ \A x \in Stamps(P) : x <= Max(Stamps(P))
  <2>1. \E x \in Stamps(P) : \A y \in Stamps(P) : x >= y
    BY <1>1, <1>2, GreatestOfFinite
  <2>2. Max(Stamps(P)) \in Stamps(P) /\ \A x \in Stamps(P) : Max(Stamps(P)) >= x
    BY <2>1 DEF Max
  <2> QED BY <1>1, <2>2
<1> QED BY <1>1, <1>3, <1>4 DEF Stamps

LEMMA NewestNames ==
  ASSUME SeenTyped, NEW limit \in Nat
  PROVE  /\ newest(limit) \subseteq ToSet(seen) /\ Cardinality(newest(limit)) <= limit
         /\ newest(limit) = {} => ToSet(seen) = {} \/ limit = 0
         /\ \A p \in ToSet(seen) : \A q \in newest(limit) :
              CreatedAt[q] <= CreatedAt[p]
                => p \in newest(limit) \/ Cardinality(WithStamp(CreatedAt[p])) > limit
<1> DEFINE S == ToSet(seen)
           L == Leading(NewerFirst, S, limit)
           edge == Min(Stamps(L))
<1>1. /\ IsFiniteSet(S) /\ IsOrder(NewerFirst, S) /\ L \subseteq S
      /\ First(S, limit, Newer) = L
      /\ \A p \in S : CreatedAt[p] \in Nat
  BY SeenIsFinite, AgesAreOrders, FirstIsLeading DEF Leading
<1>2. /\ Cardinality(L) <= limit /\ IsFiniteSet(L)
      /\ L = {} => S = {} \/ limit = 0
  <2> HIDE DEF S
  <2> QED BY <1>1, LeadingAreFirst, Fewer
<1>3. newest(limit) = IF L = {} THEN {} ELSE WholeStamps(S, L, edge)
  BY <1>1 DEF newest
<1>4. CASE L = {}
  BY <1>2, <1>3, <1>4
<1>5. CASE L # {}
  <2> DEFINE key == [p \in S |-> 0 - CreatedAt[p]]
             W == WholeStamps(S, L, edge)
  <2>1. PICK last \in L : edge = CreatedAt[last]
    BY <1>1, <1>5, EdgeOfStamps
  <2>2. \A p \in L : edge <= CreatedAt[p]
    BY <1>1, <1>5, EdgeOfStamps
  <2>3. key \in [S -> Int]
    BY <1>1
  <2>4. \A p \in S : key[p] = 0 - CreatedAt[p] /\ CreatedAt[p] \in Nat
    BY <1>1
  <2>5. W = Cut(NewerFirst, S, limit, key, last)
    <3>1. \A p \in L : CreatedAt[p] # edge <=> key[p] # key[last]
      BY <1>1, <2>1, <2>4
    <3> HIDE DEF key, S
    <3> QED BY <3>1 DEF WholeStamps, Cut
  <2>6. \A p \in L : key[p] <= key[last]
    BY <1>1, <2>1, <2>2, <2>4
  <2>7. /\ \A p, q \in S : key[p] < key[q] => <<p, q>> \in NewerFirst
        /\ \A p, q \in S : <<p, q>> \in NewerFirst => key[p] <= key[q]
    <3>1. \A p, q \in S : <<p, q>> \in NewerFirst <=> Newer(p, q)
      BY AgesAreOrders
    <3>2. \A p, q \in S : /\ CreatedAt[p] > CreatedAt[q] => Newer(p, q)
                          /\ Newer(p, q) => CreatedAt[p] >= CreatedAt[q]
      <4>1. \A p \in S : CreatedAt[p] \in Nat
        BY <1>1
      <4> HIDE DEF S, key, W, L, edge
      <4> QED BY <4>1 DEF Newer
    <3> HIDE DEF key, S
    <3> QED BY <2>4, <3>1, <3>2
  <2>8. /\ W # {} /\ W \subseteq L
        /\ \A p \in S : \A q \in W :
             key[p] <= key[q] => p \in W \/ Cardinality({x \in S : key[x] = key[p]}) > limit
    <3> HIDE DEF key, S, W
    <3> QED BY <1>1, <2>3, <2>5, <2>6, <2>7, CutBetweenKeys
  <2>9. ASSUME NEW p \in S, NEW q \in W, CreatedAt[q] <= CreatedAt[p]
        PROVE  p \in W \/ Cardinality(WithStamp(CreatedAt[p])) > limit
    <3>1. q \in S
      BY <1>1, <2>8
    <3>2. {x \in S : key[x] = key[p]} = WithStamp(CreatedAt[p])
      BY <2>4 DEF WithStamp
    <3>3. key[p] <= key[q]
      BY <2>4, <2>9, <3>1
    <3> HIDE DEF key, W, S
    <3> QED BY <2>8, <3>2, <3>3
  <2>10. newest(limit) = W
    BY <1>3, <1>5
  <2>11. Cardinality(W) <= limit
    <3>1. Cardinality(W) <= Cardinality(L) /\ Cardinality(W) \in Nat /\ Cardinality(L) \in Nat
      BY <1>2, <2>8, Fewer
    <3> HIDE DEF W, L
    <3> QED BY <1>2, <3>1
  <2> HIDE DEF W, L, S
  <2> QED BY <1>1, <2>8, <2>9, <2>10, <2>11 DEF S
<1> QED BY <1>4, <1>5

LEMMA WindowNames ==
  ASSUME SeenTyped, NEW from \in Nat, NEW limit \in Nat
  PROVE  /\ windowFrom(from, limit) \subseteq {p \in ToSet(seen) : CreatedAt[p] >= from}
         /\ Cardinality(windowFrom(from, limit)) <= limit
         /\ \A p \in ToSet(seen) : \A q \in windowFrom(from, limit) :
              from <= CreatedAt[p] /\ CreatedAt[p] <= CreatedAt[q]
                => p \in windowFrom(from, limit) \/ Cardinality(WithStamp(CreatedAt[p])) > limit
<1> DEFINE S == {p \in ToSet(seen) : CreatedAt[p] >= from}
           L == Leading(OlderFirst, S, limit)
           edge == Max(Stamps(L))
<1>1. /\ S \subseteq ToSet(seen) /\ IsFiniteSet(S) /\ IsOrder(OlderFirst, S) /\ L \subseteq S
      /\ First(S, limit, Older) = L
      /\ \A p \in S : CreatedAt[p] \in Nat
  <2>1. S \subseteq ToSet(seen)
    OBVIOUS
  <2> HIDE DEF S
  <2> QED BY <2>1, SeenIsFinite, AgesAreOrders, FirstIsLeading, FS_Subset DEF Leading
<1>2. Cardinality(L) <= limit /\ IsFiniteSet(L)
  <2> HIDE DEF S
  <2> QED BY <1>1, LeadingAreFirst, Fewer
<1>3. windowFrom(from, limit) = IF L = {} THEN {} ELSE WholeStamps(S, L, edge)
  BY <1>1 DEF windowFrom
<1>4. CASE L = {}
  BY <1>2, <1>3, <1>4
<1>5. CASE L # {}
  <2> DEFINE key == [p \in S |-> CreatedAt[p]]
             W == WholeStamps(S, L, edge)
  <2>1. PICK last \in L : edge = CreatedAt[last]
    BY <1>1, <1>5, EdgeOfStamps
  <2>2. \A p \in L : CreatedAt[p] <= edge
    <3> HIDE DEF S, L
    <3> QED BY <1>1, <1>5, EdgeOfStamps
  <2>3. key \in [S -> Int]
    BY <1>1
  <2>4. \A p \in S : key[p] = CreatedAt[p] /\ CreatedAt[p] \in Nat
    BY <1>1
  <2>5. W = Cut(OlderFirst, S, limit, key, last)
    <3>1. \A p \in L : CreatedAt[p] # edge <=> key[p] # key[last]
      BY <1>1, <2>1, <2>4
    <3> HIDE DEF key, S
    <3> QED BY <3>1 DEF WholeStamps, Cut
  <2>6. \A p \in L : key[p] <= key[last]
    BY <1>1, <2>1, <2>2, <2>4
  <2>7. /\ \A p, q \in S : key[p] < key[q] => <<p, q>> \in OlderFirst
        /\ \A p, q \in S : <<p, q>> \in OlderFirst => key[p] <= key[q]
    <3>1. \A p, q \in S : <<p, q>> \in OlderFirst <=> Older(p, q)
      BY <1>1, AgesAreOrders
    <3>2. \A p, q \in S : /\ CreatedAt[p] < CreatedAt[q] => Older(p, q)
                          /\ Older(p, q) => CreatedAt[p] <= CreatedAt[q]
      <4>1. \A p \in S : CreatedAt[p] \in Nat
        BY <1>1
      <4> HIDE DEF S, key, W, L, edge
      <4> QED BY <4>1 DEF Older
    <3> HIDE DEF key, S
    <3> QED BY <2>4, <3>1, <3>2
  <2>8. /\ W # {} /\ W \subseteq L
        /\ \A p \in S : \A q \in W :
             key[p] <= key[q] => p \in W \/ Cardinality({x \in S : key[x] = key[p]}) > limit
    <3> HIDE DEF key, S, W
    <3> QED BY <1>1, <2>3, <2>5, <2>6, <2>7, CutBetweenKeys
  <2>9. ASSUME NEW p \in ToSet(seen), NEW q \in W, from <= CreatedAt[p], CreatedAt[p] <= CreatedAt[q]
        PROVE  p \in W \/ Cardinality(WithStamp(CreatedAt[p])) > limit
    <3>1. q \in S /\ p \in S
      BY <1>1, <2>8, <2>9, SeenIsFinite
    <3>2. {x \in S : key[x] = key[p]} = WithStamp(CreatedAt[p])
      <4>1. \A x \in ToSet(seen) : CreatedAt[x] = CreatedAt[p] => x \in S
        BY <3>1
      <4> HIDE DEF key, S
      <4> QED BY <1>1, <2>4, <3>1, <4>1 DEF WithStamp
    <3>3. key[p] <= key[q]
      BY <2>4, <2>9, <3>1
    <3> HIDE DEF key, W, S
    <3> QED BY <2>8, <3>1, <3>2, <3>3
  <2>10. windowFrom(from, limit) = W
    BY <1>3, <1>5
  <2>11. Cardinality(W) <= limit
    <3>1. Cardinality(W) <= Cardinality(L) /\ Cardinality(W) \in Nat /\ Cardinality(L) \in Nat
      BY <1>2, <2>8, Fewer
    <3> HIDE DEF W, L
    <3> QED BY <1>2, <3>1
  <2>12. W \subseteq S
    BY <1>1, <2>8
  <2> HIDE DEF W, L, S
  <2> QED BY <2>9, <2>10, <2>11, <2>12 DEF S
<1> QED BY <1>4, <1>5

-----------------------------------------------------------------------------
(* The frames of a round.                                                  *)

(* A frame names what its window claims, within what its filter holds. *)
Described(f, limit) ==
  /\ f \in Frames /\ f.names \subseteq ToSet(seen) /\ Cardinality(f.names) <= limit
  /\ \A p \in ToSet(seen) :
       \/ ~Within(f, CreatedAt[p]) \/ p \in f.names
       \/ Cardinality(WithStamp(CreatedAt[p])) > limit
(* Sweep frames walk up from a cursor to a floor. *)
Walk(s, start, floor, limit) ==
  /\ s \in Seq(Frames)
  /\ \A i \in 1..Len(s) : /\ Described(s[i], limit)
                          /\ start <= s[i].from /\ s[i].from <= s[i].to /\ s[i].to < floor
  /\ \A i, j \in 1..Len(s) : i < j => s[i].to < s[j].from

LEMMA SweepUnfolds ==
  ASSUME NEW start, NEW floor, NEW limit
  PROVE  \E v : /\ Sweep(start, floor, limit) = v[MaxFrames - 1]
                /\ v[0] = <<>>
                /\ \A k \in 1..MaxFrames - 1 :
                     v[k] = Extended(v[k - 1], Resumes(v[k - 1], start), floor, limit)
<1> DEFINE step(s) == Extended(s, Resumes(s, start), floor, limit)
           Solves(v, n) == v = [k \in 0..n |-> v[k]] /\ v[0] = <<>> /\ \A k \in 1..n : v[k] = step(v[k - 1])
           M == MaxFrames - 1
           def(v) == [k \in 0..M |-> IF k = 0 THEN <<>> ELSE step(v[k - 1])]
           S == {n \in Nat : \E v : Solves(v, n)}
<1>1. M \in Nat
  BY SyncAssumption
<1>2. \E v : v = def(v)
  <2>1. 0 \in S
    <3>1. Solves([k \in 0..0 |-> <<>>], 0)
      OBVIOUS
    <3> QED BY <3>1
  <2>2. ASSUME NEW n \in Nat, n \in S PROVE n + 1 \in S
    <3>1. PICK v : Solves(v, n)
      BY <2>2
    <3> DEFINE w == [k \in 0..n + 1 |-> IF k <= n THEN v[k] ELSE step(v[n])]
    <3> HIDE DEF step
    <3>2. w[0] = <<>> /\ \A k \in 1..n : w[k] = v[k] /\ w[k - 1] = v[k - 1]
      BY <3>1
    <3>3. w[n + 1] = step(v[n]) /\ w[n] = v[n]
      OBVIOUS
    <3>4. \A k \in 1..n + 1 : w[k] = step(w[k - 1])
      <4> TAKE k \in 1..n + 1
      <4>1. CASE k = n + 1
        BY <3>3, <4>1
      <4>2. CASE k # n + 1
        <5>1. k \in 1..n
          BY <4>2
        <5>2. v[k] = step(v[k - 1])
          BY <3>1, <5>1
        <5> HIDE DEF w
        <5> QED BY <3>2, <5>1, <5>2
      <4> HIDE DEF w
      <4> QED BY <4>1, <4>2
    <3>5. Solves(w, n + 1)
      BY <3>2, <3>4
    <3> HIDE DEF Solves, w
    <3> QED BY <3>5
  <2>3. M \in S
    <3>1. Nat \subseteq S
      <4> HIDE DEF S
      <4> QED BY <2>1, <2>2, AllNaturals
    <3> QED BY <1>1, <3>1
  <2>4. PICK v : Solves(v, M)
    BY <2>3
  <2> HIDE DEF step
  <2>5. v = [k \in 0..M |-> v[k]]
    BY <2>4, Zenon
  <2>6. \A k \in 0..M : v[k] = IF k = 0 THEN <<>> ELSE step(v[k - 1])
    BY <2>4
  <2>7. v = def(v)
    BY <2>5, <2>6
  <2> QED BY <2>7
<1> DEFINE v == CHOOSE v : v = def(v)
<1>3. v = def(v)
  <2> HIDE DEF def
  <2> QED BY <1>2
<1>4. Sweep(start, floor, limit) = v[M]
  BY DEF Sweep
<1>5. v[0] = <<>> /\ \A k \in 1..M : v[k] = step(v[k - 1])
  <2> HIDE DEF v, step, M
  <2>1. \A k \in 0..M : v[k] = IF k = 0 THEN <<>> ELSE step(v[k - 1])
    BY <1>3
  <2> QED BY <1>1, <2>1
<1> HIDE DEF v
<1> QED BY <1>4, <1>5

LEMMA SliceIsDescribed ==
  ASSUME SeenTyped, NEW from \in Nat, NEW floor \in Nat, NEW limit \in Nat,
         Slice(from, floor, limit) # {},
         NEW f, f = Frame(from, Max(Stamps(Slice(from, floor, limit))), Slice(from, floor, limit))
  PROVE  /\ Described(f, limit) /\ f.from = from /\ f.from <= f.to /\ f.to < floor
<1> DEFINE s == Slice(from, floor, limit)
           w == windowFrom(from, limit)
<1>1. /\ s \subseteq w /\ s \subseteq ToSet(seen) /\ w \subseteq ToSet(seen)
      /\ \A p \in s : from <= CreatedAt[p] /\ CreatedAt[p] < floor /\ CreatedAt[p] \in Nat
  BY WindowNames, SeenIsFinite DEF Slice
<1>2. /\ f.from = from /\ f.to = Max(Stamps(s)) /\ f.names = s
      /\ Max(Stamps(s)) \in Nat
      /\ \E q \in s : CreatedAt[q] = Max(Stamps(s))
  <2>1. /\ Max(Stamps(s)) \in Nat
        /\ \E q \in s : CreatedAt[q] = Max(Stamps(s))
    <3>1. s # {}
      OBVIOUS
    <3> HIDE DEF s
    <3> QED BY <1>1, <3>1, EdgeOfStamps
  <2> QED BY <2>1 DEF Frame
<1>3. PICK q \in s : CreatedAt[q] = f.to
  BY <1>2
<1>4. f \in Frames
  BY <1>1, <1>2, SeenIsFinite DEF Frames, Frame
<1>5. Cardinality(f.names) <= limit
  <2>1. IsFiniteSet(w) /\ Cardinality(w) <= limit
    BY <1>1, WindowNames, SeenIsFinite, Fewer
  <2>2. Cardinality(s) <= Cardinality(w) /\ Cardinality(s) \in Nat /\ Cardinality(w) \in Nat
    BY <1>1, <2>1, Fewer
  <2> HIDE DEF s, w
  <2> QED BY <1>2, <2>1, <2>2
<1>6. ASSUME NEW p \in ToSet(seen), Within(f, CreatedAt[p]), p \notin f.names
      PROVE  Cardinality(WithStamp(CreatedAt[p])) > limit
  <2>1. from <= CreatedAt[p] /\ CreatedAt[p] <= CreatedAt[q] /\ CreatedAt[q] < floor /\ q \in w
    BY <1>1, <1>2, <1>3, <1>6 DEF Within
  <2>2. p \notin w
    <3>1. CreatedAt[p] < floor
      BY <1>1, <2>1, SeenIsFinite
    <3> QED BY <1>2, <1>6, <3>1 DEF Slice
  <2> QED BY <2>1, <2>2, WindowNames
<1> QED BY <1>1, <1>2, <1>3, <1>4, <1>5, <1>6 DEF Described

LEMMA WalkExtends ==
  ASSUME SeenTyped, NEW start \in Nat, NEW floor \in Nat, NEW limit \in Nat,
         NEW s, Walk(s, start, floor, limit)
  PROVE  /\ Walk(Extended(s, Resumes(s, start), floor, limit), start, floor, limit)
         /\ Len(Extended(s, Resumes(s, start), floor, limit)) <= Len(s) + 1
<1> DEFINE from == Resumes(s, start)
           f == Frame(from, Max(Stamps(Slice(from, floor, limit))), Slice(from, floor, limit))
<1>1. /\ s \in Seq(Frames) /\ Len(s) \in Nat /\ DOMAIN s = 1..Len(s)
      /\ \A i \in 1..Len(s) : s[i] \in Frames /\ s[i].from \in Nat /\ s[i].to \in Nat
  <2>1. s \in Seq(Frames) /\ Len(s) \in Nat /\ DOMAIN s = 1..Len(s)
    BY LenProperties DEF Walk
  <2>2. \A i \in 1..Len(s) : s[i] \in Frames
    BY <2>1, ElementOfSeq
  <2> QED BY <2>1, <2>2 DEF Frames
<1>2. /\ from \in Nat /\ start <= from
      /\ \A i \in 1..Len(s) : s[i].to < from
  <2>1. CASE s = <<>>
    BY <2>1 DEF Resumes
  <2>2. CASE s # <<>>
    <3>1. Len(s) \in 1..Len(s)
      BY <1>1, <2>2, EmptySeq
    <3>2. from = s[Len(s)].to + 1
      BY <2>2 DEF Resumes, Last
    <3>3. \A i \in 1..Len(s) : s[i].to <= s[Len(s)].to
      <4> TAKE i \in 1..Len(s)
      <4>1. CASE i = Len(s)
        BY <1>1, <3>1, <4>1
      <4>2. CASE i # Len(s)
        <5>1. i < Len(s)
          <6> HIDE DEF f
          <6>1. i \in Nat /\ i <= Len(s) /\ Len(s) \in Nat
            BY <1>1
          <6> QED BY <4>2, <6>1
        <5>2. s[i].to < s[Len(s)].from /\ s[Len(s)].from <= s[Len(s)].to
          BY <3>1, <5>1 DEF Walk
        <5> QED BY <1>1, <3>1, <5>2
      <4> QED BY <4>1, <4>2
    <3>4. start <= s[Len(s)].from /\ s[Len(s)].from <= s[Len(s)].to
      BY <3>1 DEF Walk
    <3>5. s[Len(s)].from \in Nat /\ s[Len(s)].to \in Nat
      BY <1>1, <3>1
    <3> HIDE DEF from
    <3> QED BY <1>1, <3>2, <3>3, <3>4, <3>5
  <2> QED BY <2>1, <2>2
<1> HIDE DEF from
<1>3. CASE Slice(from, floor, limit) = {}
  <2>1. Extended(s, from, floor, limit) = s
    BY <1>3 DEF Extended
  <2> QED BY <1>1, <2>1 DEF from
<1>4. CASE Slice(from, floor, limit) # {}
  <2>1. /\ Described(f, limit) /\ f.from = from /\ f.from <= f.to /\ f.to < floor
    BY <1>2, <1>4, SliceIsDescribed
  <2> HIDE DEF f
  <2> DEFINE t == Append(s, f)
  <2>2. Extended(s, from, floor, limit) = t
    BY <1>4 DEF Extended, f
  <2>3. f \in Frames
    BY <2>1 DEF Described
  <2>4. /\ t \in Seq(Frames) /\ Len(t) = Len(s) + 1
        /\ \A i \in 1..Len(s) : t[i] = s[i]
        /\ t[Len(s) + 1] = f
    BY <1>1, <2>3, AppendProperties
  <2> HIDE DEF t
  <2>5. ASSUME NEW i \in 1..Len(t)
        PROVE  /\ Described(t[i], limit)
               /\ start <= t[i].from /\ t[i].from <= t[i].to /\ t[i].to < floor
    <3>1. CASE i = Len(s) + 1
      BY <1>2, <2>1, <2>4, <3>1
    <3>2. CASE i # Len(s) + 1
      <4>1. i \in 1..Len(s) /\ t[i] = s[i]
        BY <1>1, <2>4, <3>2
      <4> QED BY <4>1 DEF Walk
    <3> QED BY <3>1, <3>2
  <2>6. ASSUME NEW i \in 1..Len(t), NEW j \in 1..Len(t), i < j PROVE t[i].to < t[j].from
    <3>1. i \in 1..Len(s) /\ t[i] = s[i]
      BY <1>1, <2>4, <2>6
    <3>2. CASE j = Len(s) + 1
      BY <1>2, <2>1, <2>4, <3>1, <3>2
    <3>3. CASE j # Len(s) + 1
      <4>1. j \in 1..Len(s) /\ t[j] = s[j]
        BY <1>1, <2>4, <3>3
      <4> QED BY <2>6, <3>1, <4>1 DEF Walk
    <3> QED BY <3>2, <3>3
  <2>7. Walk(t, start, floor, limit)
    BY <2>4, <2>5, <2>6 DEF Walk
  <2> QED BY <1>1, <2>2, <2>4, <2>7 DEF from
<1> QED BY <1>3, <1>4

LEMMA SweepWalks ==
  ASSUME SeenTyped, NEW start \in Nat, NEW floor \in Nat, NEW limit \in Nat
  PROVE  Walk(Sweep(start, floor, limit), start, floor, limit) /\ Len(Sweep(start, floor, limit)) <= MaxFrames - 1
<1> DEFINE M == MaxFrames - 1
<1>1. M \in Nat
  BY SyncAssumption
<1>2. PICK v : /\ Sweep(start, floor, limit) = v[M] /\ v[0] = <<>>
               /\ \A k \in 1..M : v[k] = Extended(v[k - 1], Resumes(v[k - 1], start), floor, limit)
  BY SweepUnfolds
<1> DEFINE S == {k \in Nat : k <= M => Walk(v[k], start, floor, limit) /\ Len(v[k]) <= k}
<1>3. 0 \in S
  <2>1. <<>> \in Seq(Frames) /\ Len(<<>>) = 0
    BY EmptySeq
  <2>2. Walk(<<>>, start, floor, limit)
    BY <2>1 DEF Walk
  <2> QED BY <1>2, <2>1, <2>2
<1>4. ASSUME NEW n \in Nat, n \in S PROVE n + 1 \in S
  <2> SUFFICES ASSUME n + 1 <= M PROVE Walk(v[n + 1], start, floor, limit) /\ Len(v[n + 1]) <= n + 1
    OBVIOUS
  <2>1. Walk(v[n], start, floor, limit) /\ Len(v[n]) <= n
    BY <1>1, <1>4
  <2>2. v[n + 1] = Extended(v[n], Resumes(v[n], start), floor, limit)
    <3>1. n + 1 \in 1..M /\ (n + 1) - 1 = n
      BY <1>1
    <3> QED BY <1>2, <3>1
  <2>3. Walk(v[n + 1], start, floor, limit) /\ Len(v[n + 1]) <= Len(v[n]) + 1
    BY <2>1, <2>2, WalkExtends
  <2>4. Len(v[n]) \in Nat /\ Len(v[n + 1]) \in Nat
    BY <2>1, <2>3, LenProperties DEF Walk
  <2> QED BY <2>1, <2>3, <2>4
<1>5. M \in S
  <2>1. Nat \subseteq S
    <3> HIDE DEF S
    <3> QED BY <1>3, <1>4, AllNaturals
  <2> QED BY <1>1, <2>1
<1> QED BY <1>1, <1>2, <1>5

(* No two frames describe the same ground. *)
Apart(s) == \A i, j \in 1..Len(s) : i < j => s[i].to < s[j].from \/ s[j].to < s[i].from
Built(s, limit) ==
  /\ s \in Seq(Frames) /\ Len(s) \in 1..MaxFrames /\ Apart(s)
  /\ \A i \in 1..Len(s) : Described(s[i], limit)

LEMMA OneFrame ==
  ASSUME NEW limit, NEW f, Described(f, limit)
  PROVE  Built(<<f>>, limit)
<1>1. f \in Frames
  BY DEF Described
<1>2. <<f>> \in Seq(Frames) /\ Len(<<f>>) = 1 /\ <<f>>[1] = f
  BY <1>1
<1> QED BY <1>2, SyncAssumption DEF Built, Apart

LEMMA RoundOfOneBuilds ==
  ASSUME SeenTyped, now \in Nat, NEW limit \in Nat, newest(limit) \in {{}, ToSet(seen)}
  PROVE  Built(<<Frame(0, now, newest(limit))>>, limit)
<1> DEFINE f == Frame(0, now, newest(limit))
<1>1. f \in Frames /\ f.names = newest(limit)
  BY SeenIsFinite, NewestNames DEF Frame, Frames
<1>2. ASSUME NEW p \in ToSet(seen), p \notin newest(limit)
      PROVE  Cardinality(WithStamp(CreatedAt[p])) > limit
  <2>1. limit = 0
    BY <1>2, NewestNames
  <2>2. WithStamp(CreatedAt[p]) # {} /\ WithStamp(CreatedAt[p]) \subseteq ToSet(seen)
    BY DEF WithStamp
  <2>3. IsFiniteSet(WithStamp(CreatedAt[p])) /\ Cardinality(WithStamp(CreatedAt[p])) \in Nat
    BY <2>2, SeenIsFinite, Fewer
  <2>4. Cardinality(WithStamp(CreatedAt[p])) # 0
    BY <2>2, <2>3, FS_EmptySet
  <2> QED BY <2>1, <2>3, <2>4
<1>3. Described(f, limit)
  BY <1>1, <1>2, NewestNames DEF Described
<1> QED BY <1>3, OneFrame

LEMMA RoundWithSweepBuilds ==
  ASSUME SeenTyped, now \in Nat, cursor \in Nat, NEW limit \in Nat, newest(limit) # {},
         NEW floor, floor = Min(Stamps(newest(limit))),
         NEW swept, swept = Sweep(Wrapped(floor), floor, limit)
  PROVE  /\ Built(<<Frame(floor, now, newest(limit))>> \o swept, limit)
         /\ CursorAfter(swept, floor) \in Nat
<1> DEFINE recent == newest(limit)
           f == Frame(floor, now, recent)
<1>1. recent \subseteq ToSet(seen) /\ recent # {}
  BY NewestNames
<1>2. floor \in Nat /\ \E q \in recent : floor = CreatedAt[q]
  <2> HIDE DEF recent
  <2> QED BY <1>1, EdgeOfStamps DEF recent
<1>3. f \in Frames /\ f.names = recent /\ f.from = floor
  BY <1>1, <1>2, SeenIsFinite DEF Frame, Frames
<1>4. Described(f, limit)
  <2>1. ASSUME NEW p \in ToSet(seen), Within(f, CreatedAt[p]), p \notin recent
        PROVE  Cardinality(WithStamp(CreatedAt[p])) > limit
    BY <1>2, <1>3, <2>1, NewestNames DEF Within
  <2> HIDE DEF f
  <2> QED BY <1>1, <1>3, <2>1, NewestNames DEF Described
<1> HIDE DEF f
<1>5. Wrapped(floor) \in Nat
  BY <1>2 DEF Wrapped
<1>6. Walk(swept, Wrapped(floor), floor, limit) /\ Len(swept) <= MaxFrames - 1
  BY <1>2, <1>5, SweepWalks
<1>7. /\ swept \in Seq(Frames) /\ Len(swept) \in Nat
      /\ \A i \in 1..Len(swept) : swept[i] \in Frames /\ swept[i].to \in Nat
  <2>1. swept \in Seq(Frames) /\ Len(swept) \in Nat
    BY <1>6, LenProperties DEF Walk
  <2>2. \A i \in 1..Len(swept) : swept[i] \in Frames
    BY <2>1, ElementOfSeq
  <2> QED BY <2>1, <2>2 DEF Frames
<1> DEFINE t == <<f>> \o swept
<1>8. /\ t \in Seq(Frames) /\ Len(t) = 1 + Len(swept) /\ t[1] = f
      /\ \A i \in 2..Len(t) : t[i] = swept[i - 1] /\ i - 1 \in 1..Len(swept)
  <2>1. <<f>> \in Seq(Frames) /\ Len(<<f>>) = 1 /\ <<f>>[1] = f
    BY <1>3
  <2> HIDE DEF f
  <2>2. /\ t \in Seq(Frames) /\ Len(t) = 1 + Len(swept)
        /\ \A i \in 1..1 + Len(swept) : t[i] = IF i <= 1 THEN <<f>>[i] ELSE swept[i - 1]
    BY <1>7, <2>1, ConcatProperties
  <2> HIDE DEF t
  <2> QED BY <1>7, <2>1, <2>2
<1> HIDE DEF t
<1>9. \A i \in 1..Len(t) : Described(t[i], limit)
  <2> TAKE i \in 1..Len(t)
  <2>1. CASE i = 1
    BY <1>4, <1>8, <2>1
  <2>2. CASE i # 1
    <3>1. i \in 2..Len(t)
      BY <1>7, <1>8, <2>2
    <3> QED BY <1>6, <1>8, <3>1 DEF Walk
  <2> QED BY <2>1, <2>2
<1>10. Apart(t)
  <2> SUFFICES ASSUME NEW i \in 1..Len(t), NEW j \in 1..Len(t), i < j
               PROVE  t[i].to < t[j].from \/ t[j].to < t[i].from
    BY DEF Apart
  <2>1. j \in 2..Len(t)
    BY <1>7, <1>8
  <2>2. CASE i = 1
    BY <1>3, <1>6, <1>8, <2>1, <2>2 DEF Walk
  <2>3. CASE i # 1
    <3>1. i \in 2..Len(t) /\ i - 1 < j - 1
      BY <1>7, <1>8, <2>3
    <3> QED BY <1>6, <1>8, <2>1, <3>1 DEF Walk
  <2> QED BY <2>2, <2>3
<1>11. Len(t) \in 1..MaxFrames
  BY <1>6, <1>7, <1>8, SyncAssumption
<1>12. CursorAfter(swept, floor) \in Nat
  <2>1. CASE Len(swept) = MaxFrames - 1
    <3>1. Len(swept) \in 1..Len(swept)
      BY <1>7, <2>1, SyncAssumption
    <3> QED BY <1>7, <3>1 DEF CursorAfter, Last
  <2>2. CASE Len(swept) # MaxFrames - 1
    BY <2>2 DEF CursorAfter
  <2> QED BY <2>1, <2>2
<1> QED BY <1>8, <1>9, <1>10, <1>11, <1>12 DEF Built, t, f

LEMMA RoundBuilds ==
  ASSUME SeenTyped, now \in Nat, cursor \in Nat, NEW l \in Links, Round(l)
  PROVE  \E limit, next, frames :
           limit \in Limits /\ next \in Nat /\ Begin(l, limit, frames, next) /\ Built(frames, limit)
<1>1. \A limit \in Limits : limit \in Nat
  BY SyncAssumption
<1>2. CASE RoundOfOne(l)
  <2>1. PICK limit \in Limits : /\ newest(limit) \in {{}, ToSet(seen)}
                                /\ Begin(l, limit, <<Frame(0, now, newest(limit))>>, 0)
    BY <1>2 DEF RoundOfOne
  <2> QED BY <1>1, <2>1, RoundOfOneBuilds
<1>3. CASE RoundWithSweep(l)
  <2>1. PICK limit, floor, swept :
          /\ limit \in Limits
          /\ newest(limit) # {}
          /\ floor = Min(Stamps(newest(limit)))
          /\ swept = Sweep(Wrapped(floor), floor, limit)
          /\ Begin(l, limit, <<Frame(floor, now, newest(limit))>> \o swept, CursorAfter(swept, floor))
    BY <1>3 DEF RoundWithSweep
  <2>2. /\ Built(<<Frame(floor, now, newest(limit))>> \o swept, limit)
        /\ CursorAfter(swept, floor) \in Nat
    BY <1>1, <2>1, RoundWithSweepBuilds
  <2> QED BY <2>1, <2>2
<1> QED BY <1>2, <1>3 DEF Round

-----------------------------------------------------------------------------
(* Every step keeps the types, and the rounds apart.                       *)

Rest(s, t) == Len(s) <= Len(t) /\ \A i \in 1..Len(s) : s[i] = t[Len(t) - Len(s) + i]
OwnRound(r, p) ==
  /\ r.limit \in Limits \cup {0} /\ Len(r.frames) <= MaxFrames /\ Apart(r.frames)
  /\ \A i \in 1..Len(r.frames) : Cardinality(r.frames[i].names) <= r.limit
  /\ Rest(p, r.frames)
Inv ==
  /\ SeenTyped /\ now \in Nat /\ cursor \in Nat /\ faults \in 0..MaxFaults
  /\ round \in [Links -> [frames : Seq(Frames), limit : Nat]]
  /\ pending \in [Links -> Seq(Frames)]
  /\ sent \in [Links -> Frames] /\ since \in [Links -> 0..AnnounceEvery]
  /\ \A l \in Links : OwnRound(round[l], pending[l])

LEMMA LesserOfTwo ==
  ASSUME NEW a \in Int, NEW b \in Int
  PROVE  Min({a, b}) = IF a <= b THEN a ELSE b
<1>1. \E x \in {a, b} : \A y \in {a, b} : x <= y
  OBVIOUS
<1>2. Min({a, b}) \in {a, b} /\ \A y \in {a, b} : Min({a, b}) <= y
  BY <1>1 DEF Min
<1> QED BY <1>2

LEMMA SeenGrows ==
  ASSUME SeenTyped, NEW A, A \subseteq Packets, IsFiniteSet(A), A \cap ToSet(seen) = {},
         NEW s \in Arrivals(A), seen' = seen \o s
  PROVE  SeenTyped'
<1> DEFINE n == Cardinality(A)
<1>1. n \in Nat /\ s \in [1..n -> A] /\ ToSet(s) = A
  BY FS_CardinalityType DEF Arrivals
<1>2. s \in Seq(Packets) /\ Len(s) = n
  <2>1. s \in Seq(A)
    BY <1>1
  <2> QED BY <1>1, <2>1, SeqMonotonic
<1>3. \A i, j \in 1..n : s[i] = s[j] => i = j
  <2>1. s \in Surjection(1..n, A)
    BY <1>1 DEF Surjection, ToSet
  <2>2. IsFiniteSet(1..n) /\ Cardinality(1..n) = n
    BY <1>1, FS_Interval
  <2>3. s \in Injection(1..n, A)
    BY <2>1, <2>2, FS_Surjection
  <2> QED BY <2>3 DEF Injection, IsInjective
<1>4. /\ seen \in Seq(Packets) /\ DOMAIN seen = 1..Len(seen) /\ Len(seen) \in Nat
      /\ \A i, j \in 1..Len(seen) : seen[i] = seen[j] => i = j
  BY LenProperties DEF SeenTyped, IsInjective
<1>5. /\ seen' \in Seq(Packets) /\ Len(seen') = Len(seen) + n
      /\ \A i \in 1..Len(seen) + n : seen'[i] = IF i <= Len(seen) THEN seen[i] ELSE s[i - Len(seen)]
  <2> HIDE DEF n
  <2>1. /\ seen \o s \in Seq(Packets) /\ Len(seen \o s) = Len(seen) + Len(s)
        /\ \A i \in 1..Len(seen) + Len(s) :
             (seen \o s)[i] = IF i <= Len(seen) THEN seen[i] ELSE s[i - Len(seen)]
    <3> HIDE DEF SeenTyped, Arrivals
    <3>1. seen \in Seq(Packets) /\ s \in Seq(Packets)
      BY <1>2, <1>4
    <3> QED BY ONLY <3>1, ConcatProperties
  <2>2. Len(s) = n /\ seen' = seen \o s
    BY <1>2
  <2> DEFINE t == seen \o s
  <2>3. seen' = t
    BY <2>2
  <2> HIDE DEF t
  <2> QED BY <2>1, <2>2, <2>3 DEF t
<1>6. \A i \in 1..Len(seen), j \in 1..n : seen[i] # s[j]
  <2>1. \A i \in 1..Len(seen) : seen[i] \in ToSet(seen)
    BY <1>4 DEF ToSet
  <2> QED BY <1>1, <2>1
<1>7. ASSUME NEW i \in 1..Len(seen'), NEW j \in 1..Len(seen'), seen'[i] = seen'[j]
      PROVE  i = j
  <2> HIDE DEF n
  <2>1. CASE i <= Len(seen) /\ j <= Len(seen)
    BY <1>1, <1>4, <1>5, <1>7, <2>1
  <2>2. CASE ~(i <= Len(seen)) /\ ~(j <= Len(seen))
    <3>1. i - Len(seen) \in 1..n /\ j - Len(seen) \in 1..n
      BY <1>1, <1>4, <1>5, <2>2
    <3>2. s[i - Len(seen)] = s[j - Len(seen)]
      BY <1>5, <1>7, <2>2
    <3>3. i - Len(seen) = j - Len(seen)
      BY <1>3, <3>1, <3>2
    <3> QED BY <1>4, <1>5, <3>3
  <2>3. CASE i <= Len(seen) /\ ~(j <= Len(seen))
    BY <1>1, <1>4, <1>5, <1>6, <1>7, <2>3
  <2>4. CASE ~(i <= Len(seen)) /\ j <= Len(seen)
    BY <1>1, <1>4, <1>5, <1>6, <1>7, <2>4
  <2> QED BY <2>1, <2>2, <2>3, <2>4
<1>8. DOMAIN seen' = 1..Len(seen')
  BY <1>5, LenProperties
<1> QED BY <1>5, <1>7, <1>8 DEF SeenTyped, IsInjective

LEMMA SeenShrinks ==
  ASSUME SeenTyped, seen # <<>>, seen' = Tail(seen)
  PROVE  SeenTyped'
<1>1. /\ seen \in Seq(Packets) /\ DOMAIN seen = 1..Len(seen) /\ Len(seen) \in Nat
      /\ \A i, j \in 1..Len(seen) : seen[i] = seen[j] => i = j
  BY LenProperties DEF SeenTyped, IsInjective
<1>2. /\ seen' \in Seq(Packets) /\ Len(seen') = Len(seen) - 1
      /\ \A i \in 1..Len(seen') : seen'[i] = seen[i + 1]
  BY <1>1, HeadTailProperties
<1>3. DOMAIN seen' = 1..Len(seen')
  BY <1>2, LenProperties
<1>4. \A i, j \in 1..Len(seen') : seen'[i] = seen'[j] => i = j
  <2> SUFFICES ASSUME NEW i \in 1..Len(seen'), NEW j \in 1..Len(seen'), seen'[i] = seen'[j]
               PROVE  i = j
    OBVIOUS
  <2>1. i + 1 \in 1..Len(seen) /\ j + 1 \in 1..Len(seen) /\ seen[i + 1] = seen[j + 1]
    BY <1>1, <1>2
  <2>2. i + 1 = j + 1
    BY <1>1, <2>1
  <2> QED BY <1>1, <1>2, <2>2
<1> QED BY <1>2, <1>3, <1>4 DEF SeenTyped, IsInjective

LEMMA SeenAppends ==
  ASSUME SeenTyped, NEW p \in Packets, p \notin ToSet(seen), seen' = Append(seen, p)
  PROVE  SeenTyped'
<1>1. /\ seen \in Seq(Packets) /\ DOMAIN seen = 1..Len(seen) /\ Len(seen) \in Nat
      /\ \A i, j \in 1..Len(seen) : seen[i] = seen[j] => i = j
  BY LenProperties DEF SeenTyped, IsInjective
<1>2. /\ seen' \in Seq(Packets) /\ Len(seen') = Len(seen) + 1
      /\ \A i \in 1..Len(seen) : seen'[i] = seen[i] /\ seen[i] # p
      /\ seen'[Len(seen) + 1] = p
  BY <1>1, AppendProperties DEF ToSet
<1>3. DOMAIN seen' = 1..Len(seen')
  BY <1>2, LenProperties
<1>4. ASSUME NEW i \in 1..Len(seen'), NEW j \in 1..Len(seen'), seen'[i] = seen'[j]
      PROVE  i = j
  <2>1. i \in 1..Len(seen) \/ i = Len(seen) + 1
    BY <1>1, <1>2
  <2>2. j \in 1..Len(seen) \/ j = Len(seen) + 1
    BY <1>1, <1>2
  <2> QED BY <1>1, <1>2, <1>4, <2>1, <2>2
<1> QED BY <1>2, <1>3, <1>4 DEF SeenTyped, IsInjective

LEMMA RestOfRest ==
  ASSUME NEW s \in Seq(Frames), NEW t \in Seq(Frames), Rest(s, t), s # <<>>
  PROVE  Tail(s) \in Seq(Frames) /\ Rest(Tail(s), t) /\ Head(s) \in Frames
<1>1. /\ Len(s) \in Nat /\ Len(t) \in Nat
      /\ Tail(s) \in Seq(Frames) /\ Head(s) \in Frames /\ Len(Tail(s)) = Len(s) - 1
      /\ \A i \in 1..Len(Tail(s)) : Tail(s)[i] = s[i + 1]
  BY HeadTailProperties, LenProperties
<1>2. ASSUME NEW i \in 1..Len(Tail(s)) PROVE Tail(s)[i] = t[Len(t) - Len(Tail(s)) + i]
  <2>1. i + 1 \in 1..Len(s) /\ Tail(s)[i] = s[i + 1]
    BY <1>1
  <2>2. s[i + 1] = t[Len(t) - Len(s) + (i + 1)]
    BY <2>1 DEF Rest
  <2>3. Len(t) - Len(s) + (i + 1) = Len(t) - Len(Tail(s)) + i
    BY <1>1
  <2> QED BY <2>1, <2>2, <2>3
<1> QED BY <1>1, <1>2 DEF Rest

LEMMA RestIsSuffix ==
  ASSUME NEW s \in Seq(Frames), NEW t \in Seq(Frames), Rest(s, t)
  PROVE  IsSuffix(s, t)
<1> DEFINE r == Reverse(s)
           u == Reverse(t)
<1>1. Len(s) \in Nat /\ Len(t) \in Nat /\ Len(s) <= Len(t)
  BY LenProperties DEF Rest
<1>2. \A i \in 1..Len(s) : s[i] \in Frames
  BY ElementOfSeq
<1>3. \A i \in 1..Len(t) : t[i] \in Frames
  BY ElementOfSeq
<1>4. /\ r \in Seq(Frames) /\ Len(r) = Len(s)
      /\ \A i \in 1..Len(s) : r[i] = s[Len(s) - i + 1]
  BY <1>1, <1>2 DEF Reverse
<1>5. /\ u \in Seq(Frames) /\ Len(u) = Len(t)
      /\ \A i \in 1..Len(t) : u[i] = t[Len(t) - i + 1]
  BY <1>1, <1>3 DEF Reverse
<1> HIDE DEF r, u
<1>6. \A i \in 1..Len(s) : r[i] = u[i]
  <2> TAKE i \in 1..Len(s)
  <2>1. Len(s) - i + 1 \in 1..Len(s) /\ i \in 1..Len(t)
    BY <1>1
  <2>2. s[Len(s) - i + 1] = t[Len(t) - Len(s) + (Len(s) - i + 1)]
    BY <2>1 DEF Rest
  <2>3. Len(t) - Len(s) + (Len(s) - i + 1) = Len(t) - i + 1
    BY <1>1
  <2> QED BY <1>4, <1>5, <2>1, <2>2, <2>3
<1>7. SubSeq(r, 1, Len(r)) = SubSeq(u, 1, Len(r))
  <2> DEFINE a == SubSeq(r, 1, Len(r))
             b == SubSeq(u, 1, Len(r))
  <2>1. /\ a \in Seq(Frames) /\ Len(a) = Len(r) /\ \A i \in 1..Len(r) : a[i] = r[i]
    BY <1>1, <1>4
  <2>2. /\ b \in Seq(Frames) /\ Len(b) = Len(r) /\ \A i \in 1..Len(r) : b[i] = u[i]
    BY <1>1, <1>4, <1>5
  <2> HIDE DEF a, b
  <2>3. a = b
    BY <1>4, <1>6, <2>1, <2>2, SeqEqual
  <2> QED BY <2>3 DEF a, b
<1> QED BY <1>1, <1>4, <1>5, <1>7 DEF IsSuffix, IsPrefix, r, u

LEMMA InvInitially == Init => Inv
<1> SUFFICES ASSUME Init PROVE Inv
  OBVIOUS
<1>1. <<>> \in Seq(Frames) /\ Len(<<>>) = 0
  BY EmptySeq
<1>2. SeenTyped
  <2>1. seen \in Seq(Packets) /\ Len(seen) = 0 /\ DOMAIN seen = {}
    BY DEF Init
  <2> QED BY <2>1 DEF SeenTyped, IsInjective
<1>3. NoFrame \in Frames /\ NoRound \in [frames : Seq(Frames), limit : Nat]
  BY <1>1 DEF NoFrame, Frame, Frames, NoRound
<1>4. now \in Nat /\ cursor \in Nat /\ faults \in 0..MaxFaults
  BY SyncAssumption DEF Init
<1>5. /\ round \in [Links -> [frames : Seq(Frames), limit : Nat]]
      /\ pending \in [Links -> Seq(Frames)]
      /\ sent \in [Links -> Frames] /\ since \in [Links -> 0..AnnounceEvery]
  BY <1>1, <1>3 DEF Init, AnnounceEvery
<1>6. \A l \in Links : OwnRound(round[l], pending[l])
  <2> SUFFICES ASSUME NEW l \in Links PROVE OwnRound(NoRound, <<>>)
    BY DEF Init
  <2> QED BY <1>1, SyncAssumption DEF OwnRound, NoRound, Rest, Apart
<1> QED BY <1>2, <1>4, <1>5, <1>6 DEF Inv

LEMMA BuiltIsOwn ==
  ASSUME NEW limit \in Limits, NEW frames, Built(frames, limit)
  PROVE  /\ [frames |-> frames, limit |-> limit] \in [frames : Seq(Frames), limit : Nat]
         /\ OwnRound([frames |-> frames, limit |-> limit], frames)
<1> DEFINE r == [frames |-> frames, limit |-> limit]
<1>1. frames \in Seq(Frames) /\ Len(frames) \in Nat /\ Len(frames) <= MaxFrames /\ Apart(frames)
  BY LenProperties, SyncAssumption DEF Built
<1>2. \A i \in 1..Len(frames) : Cardinality(frames[i].names) <= limit
  BY DEF Built, Described
<1>3. Rest(frames, frames)
  BY <1>1 DEF Rest
<1>4. r.frames = frames /\ r.limit = limit /\ limit \in Nat
  BY SyncAssumption
<1>5. r \in [frames : Seq(Frames), limit : Nat]
  BY <1>1, <1>4
<1> HIDE DEF r
<1>6. OwnRound(r, frames)
  BY <1>1, <1>2, <1>3, <1>4 DEF OwnRound
<1> QED BY <1>5, <1>6 DEF r

LEMMA RoundKeepsInv ==
  ASSUME Inv, NEW l \in Links, Round(l)
  PROVE  Inv'
<1>1. PICK limit, next, frames :
        limit \in Limits /\ next \in Nat /\ Begin(l, limit, frames, next) /\ Built(frames, limit)
  BY RoundBuilds DEF Inv
<1>2. /\ frames \in Seq(Frames)
      /\ [frames |-> frames, limit |-> limit] \in [frames : Seq(Frames), limit : Nat]
      /\ OwnRound([frames |-> frames, limit |-> limit], frames)
  BY <1>1, BuiltIsOwn DEF Built
<1>3. /\ seen' = seen /\ now' = now /\ faults' = faults /\ sent' = sent /\ cursor' = next
      /\ round' = [round EXCEPT ![l] = [frames |-> frames, limit |-> limit]]
      /\ pending' = [pending EXCEPT ![l] = frames]
      /\ since' = [since EXCEPT ![l] = 0]
  BY <1>1 DEF Begin
<1>4. SeenTyped' /\ now' \in Nat /\ cursor' \in Nat /\ faults' \in 0..MaxFaults
  BY <1>1, <1>3 DEF Inv, SeenTyped
<1>5. /\ round' \in [Links -> [frames : Seq(Frames), limit : Nat]]
      /\ pending' \in [Links -> Seq(Frames)]
      /\ sent' \in [Links -> Frames] /\ since' \in [Links -> 0..AnnounceEvery]
  BY <1>2, <1>3 DEF Inv, AnnounceEvery
<1>6. ASSUME NEW k \in Links PROVE OwnRound(round'[k], pending'[k])
  <2>1. CASE k = l
    BY <1>2, <1>3, <2>1 DEF Inv
  <2>2. CASE k # l
    <3>1. round'[k] = round[k] /\ pending'[k] = pending[k]
      BY <1>3, <2>2 DEF Inv
    <3> QED BY <3>1 DEF Inv
  <2> QED BY <2>1, <2>2
<1> QED BY <1>4, <1>5, <1>6 DEF Inv

(* The pacer takes the head of what it still has. *)
LEMMA PacerKeepsRounds ==
  ASSUME Inv, NEW l \in Links, pending[l] # <<>>,
         pending' = [pending EXCEPT ![l] = Tail(@)], round' = round
  PROVE  /\ Head(pending[l]) \in Frames /\ pending' \in [Links -> Seq(Frames)]
         /\ \A k \in Links : OwnRound(round'[k], pending'[k])
<1>1. /\ pending[l] \in Seq(Frames) /\ round[l].frames \in Seq(Frames)
      /\ Rest(pending[l], round[l].frames)
  BY DEF Inv, OwnRound
<1>2. /\ Tail(pending[l]) \in Seq(Frames) /\ Rest(Tail(pending[l]), round[l].frames)
      /\ Head(pending[l]) \in Frames
  BY <1>1, RestOfRest
<1>3. pending' \in [Links -> Seq(Frames)]
  BY <1>2 DEF Inv
<1>4. ASSUME NEW k \in Links PROVE OwnRound(round'[k], pending'[k])
  <2>1. OwnRound(round[k], pending[k])
    BY DEF Inv
  <2>2. CASE k = l
    <3>1. pending'[k] = Tail(pending[l]) /\ round'[k] = round[l]
      BY <2>2 DEF Inv
    <3> QED BY <1>2, <2>1, <2>2, <3>1 DEF OwnRound
  <2>3. CASE k # l
    <3>1. pending'[k] = pending[k] /\ round'[k] = round[k]
      BY <2>3 DEF Inv
    <3> QED BY <2>1, <3>1
  <2> QED BY <2>2, <2>3
<1> QED BY <1>2, <1>3, <1>4

LEMMA SendFrameKeepsInv ==
  ASSUME Inv, NEW l \in Links, SendFrame(l)
  PROVE  Inv'
<1>1. /\ pending[l] # <<>> /\ pending' = [pending EXCEPT ![l] = Tail(@)]
      /\ sent' = [sent EXCEPT ![l] = Head(pending[l])]
      /\ now' = now /\ cursor' = cursor /\ round' = round /\ since' = since
  BY DEF SendFrame
<1> DEFINE f == Head(pending[l])
<1>2. PICK claimed \in Claims(f), C \in SUBSET Held :
        /\ C \in Answers(l, f, claimed)
        /\ \E A \in SUBSET C :
             /\ faults' = faults + Cardinality(claimed \ f.names) + Cardinality(C \ A)
             /\ faults' <= MaxFaults
             /\ \E s \in Arrivals(A \ ToSet(seen)) : seen' = seen \o s
  <2>1. \A claimed \in Claims(f) : Answers(l, f, claimed) \subseteq SUBSET Held
    BY DEF Answers, Lacking, InWindow
  <2> QED BY <2>1 DEF SendFrame
<1>3. PICK A \in SUBSET C :
        /\ faults' = faults + Cardinality(claimed \ f.names) + Cardinality(C \ A)
        /\ faults' <= MaxFaults
        /\ \E s \in Arrivals(A \ ToSet(seen)) : seen' = seen \o s
  BY <1>2
<1>4. /\ C \subseteq Held /\ claimed \ f.names \subseteq Held
      /\ Held \subseteq Packets /\ IsFiniteSet(Held)
  BY SyncAssumption DEF Claims, InWindow
<1>5. faults' \in 0..MaxFaults
  <2>1. C \ A \in SUBSET Held /\ claimed \ f.names \in SUBSET Held
    BY <1>4
  <2>2. Cardinality(C \ A) \in Nat /\ Cardinality(claimed \ f.names) \in Nat
    BY <1>4, <2>1, Fewer
  <2> HIDE DEF f
  <2> QED BY <1>3, <2>2, SyncAssumption DEF Inv
<1>6. SeenTyped'
  <2> DEFINE B == A \ ToSet(seen)
  <2>1. B \in SUBSET Held /\ B \subseteq Packets /\ B \cap ToSet(seen) = {}
    BY <1>4
  <2>2. IsFiniteSet(B)
    BY <1>4, <2>1, Fewer
  <2>3. PICK s \in Arrivals(B) : seen' = seen \o s
    BY <1>3
  <2> HIDE DEF B
  <2> QED BY <2>1, <2>2, <2>3, SeenGrows DEF Inv
<1>7. /\ Head(pending[l]) \in Frames /\ pending' \in [Links -> Seq(Frames)]
      /\ \A k \in Links : OwnRound(round'[k], pending'[k])
  BY <1>1, PacerKeepsRounds
<1>8. sent' \in [Links -> Frames]
  BY <1>1, <1>7 DEF Inv
<1> QED BY <1>1, <1>5, <1>6, <1>7, <1>8 DEF Inv

LEMMA FrameLostKeepsInv ==
  ASSUME Inv, NEW l \in Links, FrameLost(l)
  PROVE  Inv'
<1>1. /\ pending' \in [Links -> Seq(Frames)]
      /\ \A k \in Links : OwnRound(round'[k], pending'[k])
  BY PacerKeepsRounds DEF FrameLost
<1>2. faults' \in 0..MaxFaults
  BY SyncAssumption DEF FrameLost, Inv
<1> QED BY <1>1, <1>2 DEF Inv, FrameLost, SeenTyped

(* Steps that touch no round. *)
LEMMA RoundsStand ==
  ASSUME Inv, round' = round, pending' = pending, sent' = sent,
         SeenTyped', now' \in Nat, cursor' \in Nat, faults' \in 0..MaxFaults,
         since' \in [Links -> 0..AnnounceEvery]
  PROVE  Inv'
  BY DEF Inv

LEMMA TickKeepsInv ==
  ASSUME Inv, Tick
  PROVE  Inv' /\ \A l \in Links : since'[l] # 0
<1>1. now' \in Nat
  <2>1. Min({now + 1, MaxNow}) = IF now + 1 <= MaxNow THEN now + 1 ELSE MaxNow
    <3>1. now + 1 \in Int /\ MaxNow \in Int
      BY SyncAssumption DEF Inv
    <3> QED BY <3>1, LesserOfTwo
  <2> QED BY <2>1, SyncAssumption DEF Tick, Inv
<1>2. ASSUME NEW l \in Links PROVE Min({since[l] + 1, AnnounceEvery}) \in 1..AnnounceEvery
  <2>1. since[l] \in 0..AnnounceEvery /\ AnnounceEvery \in Int
    BY DEF Inv, AnnounceEvery
  <2>2. Min({since[l] + 1, AnnounceEvery})
          = IF since[l] + 1 <= AnnounceEvery THEN since[l] + 1 ELSE AnnounceEvery
    BY <2>1, LesserOfTwo
  <2> QED BY <2>1, <2>2 DEF AnnounceEvery
<1>3. since' = [l \in Links |-> Min({since[l] + 1, AnnounceEvery})]
  BY DEF Tick
<1>4. since' \in [Links -> 0..AnnounceEvery] /\ \A l \in Links : since'[l] # 0
  <2>1. \A l \in Links : since'[l] = Min({since[l] + 1, AnnounceEvery})
    BY <1>3
  <2>2. \A l \in Links : since'[l] \in 1..AnnounceEvery
    BY <1>2, <2>1
  <2>3. \A l \in Links : since'[l] \in 0..AnnounceEvery /\ since'[l] # 0
    BY <2>2 DEF AnnounceEvery
  <2>4. DOMAIN since' = Links /\ since' = [l \in Links |-> since'[l]]
    BY <1>3
  <2> QED BY <2>3, <2>4
<1>5. /\ SeenTyped' /\ cursor' \in Nat /\ faults' \in 0..MaxFaults
      /\ round' = round /\ pending' = pending /\ sent' = sent
  BY DEF Tick, Inv, SeenTyped
<1> QED BY <1>1, <1>4, <1>5, RoundsStand

LEMMA InvKept ==
  ASSUME Inv, [Next]_vars
  PROVE  Inv'
<1>1. ASSUME NEW l \in Links, Round(l) PROVE Inv'
  BY <1>1, RoundKeepsInv
<1>2. ASSUME NEW l \in Links, SendFrame(l) PROVE Inv'
  BY <1>2, SendFrameKeepsInv
<1>3. ASSUME NEW l \in Links, FrameLost(l) PROVE Inv'
  BY <1>3, FrameLostKeepsInv
<1>4. ASSUME NEW p \in Packets, See(p) PROVE Inv'
  <2>1. SeenTyped'
    BY <1>4, SeenAppends DEF See, Inv
  <2> QED BY <1>4, <2>1 DEF See, Inv
<1>5. CASE PruneExpired
  <2>1. SeenTyped'
    BY <1>5, SeenShrinks DEF PruneExpired, Inv
  <2>2. faults' \in 0..MaxFaults
    BY <1>5, SyncAssumption DEF PruneExpired, Inv
  <2> QED BY <1>5, <2>1, <2>2 DEF PruneExpired, Inv
<1>6. CASE CursorLapses
  <2>1. faults' \in 0..MaxFaults /\ cursor' \in Nat
    BY <1>6, SyncAssumption DEF CursorLapses, Inv
  <2> QED BY <1>6, <2>1 DEF CursorLapses, Inv, SeenTyped
<1>7. CASE Tick
  BY <1>7, TickKeepsInv
<1>8. CASE UNCHANGED vars
  BY <1>8 DEF vars, Inv, SeenTyped
<1> QED BY <1>1, <1>2, <1>3, <1>4, <1>5, <1>6, <1>7, <1>8 DEF Next

LEMMA SyncInvariant == Spec => []Inv
<1>1. Init => Inv
  BY InvInitially
<1>2. Inv /\ [Next]_vars => Inv'
  BY InvKept
<1> QED BY <1>1, <1>2, PTL DEF Spec

-----------------------------------------------------------------------------
(* What is known of a round when it is built.                              *)

LEMMA BuildingIsRound ==
  ASSUME Inv, [Next]_vars, NEW l \in Links, BuiltNow(l)
  PROVE  \E limit, frames :
           limit \in Limits /\ round'[l] = [frames |-> frames, limit |-> limit] /\ Built(frames, limit)
<1>1. ASSUME NEW k \in Links, Round(k)
      PROVE  \E limit, frames :
               limit \in Limits /\ round'[l] = [frames |-> frames, limit |-> limit] /\ Built(frames, limit)
  <2>1. PICK limit, next, frames :
          limit \in Limits /\ next \in Nat /\ Begin(k, limit, frames, next) /\ Built(frames, limit)
    BY <1>1, RoundBuilds DEF Inv
  <2>2. k = l
    BY <2>1 DEF Begin, BuiltNow, Inv
  <2>3. round'[l] = [frames |-> frames, limit |-> limit]
    BY <2>1, <2>2 DEF Begin, Inv
  <2> QED BY <2>1, <2>3
<1>2. ~Tick
  BY TickKeepsInv DEF BuiltNow
<1>3. since' # since
  BY DEF BuiltNow
<1>4. \E k \in Links : Round(k)
  BY <1>2, <1>3 DEF Next, vars, SendFrame, FrameLost, See, PruneExpired, CursorLapses
<1> QED BY <1>1, <1>4

(* A step that builds a round gives every frame of it its window's ids. *)
LEMMA WindowsNamed ==
  ASSUME Inv, [Next]_vars, NEW l \in Links, BuiltNow(l)
  PROVE  \A f \in ToSet(round'[l].frames) : \A p \in ToSet(seen) :
           \/ ~Within(f, CreatedAt[p]) \/ p \in f.names
           \/ Cardinality(WithStamp(CreatedAt[p])) > round'[l].limit
<1>1. PICK limit, frames :
        limit \in Limits /\ round'[l] = [frames |-> frames, limit |-> limit] /\ Built(frames, limit)
  BY BuildingIsRound
<1>2. round'[l].frames = frames /\ round'[l].limit = limit
  BY <1>1
<1>3. \A f \in ToSet(frames) : Described(f, limit)
  BY <1>1, LenProperties DEF Built, ToSet
<1> QED BY <1>2, <1>3 DEF Described

LEMMA UnionOfNames ==
  ASSUME NEW s \in Seq(Frames), NEW limit \in Nat, SeenTyped,
         \A i \in 1..Len(s) : s[i].names \subseteq ToSet(seen) /\ Cardinality(s[i].names) <= limit
  PROVE  /\ IsFiniteSet(UNION {f.names : f \in ToSet(s)})
         /\ Cardinality(UNION {f.names : f \in ToSet(s)}) <= Len(s) * limit
<1> DEFINE U(n) == UNION {s[i].names : i \in 1..n}
           S == {n \in Nat : n <= Len(s) => IsFiniteSet(U(n)) /\ Cardinality(U(n)) <= n * limit}
<1>1. Len(s) \in Nat
  BY LenProperties
<1>2. 0 \in S
  <2>1. U(0) = {}
    OBVIOUS
  <2> DEFINE N == U(0)
  <2>2. N = {} /\ 0 * limit = 0
    BY <2>1
  <2> HIDE DEF U, N
  <2>3. IsFiniteSet(N) /\ Cardinality(N) <= 0 * limit
    BY <2>2, FS_EmptySet
  <2> QED BY <2>3 DEF N
<1>3. ASSUME NEW n \in Nat, n \in S PROVE n + 1 \in S
  <2> SUFFICES ASSUME n + 1 <= Len(s)
               PROVE  IsFiniteSet(U(n + 1)) /\ Cardinality(U(n + 1)) <= (n + 1) * limit
    OBVIOUS
  <2> DEFINE m == s[n + 1].names
  <2>1. n + 1 \in 1..Len(s) /\ n <= Len(s)
    BY <1>1
  <2>2. IsFiniteSet(U(n)) /\ Cardinality(U(n)) <= n * limit
    BY <1>3, <2>1
  <2>3. m \in SUBSET ToSet(seen) /\ Cardinality(m) <= limit
    BY <2>1
  <2>4. IsFiniteSet(m)
    BY <2>3, SeenIsFinite, Fewer
  <2>5. U(n + 1) = U(n) \cup m
    <3>1. 1..n + 1 = 1..n \cup {n + 1}
      OBVIOUS
    <3> QED BY <3>1
  <2> DEFINE V == U(n)  W == U(n + 1)
  <2> HIDE DEF m, V, W, U
  <2>6. /\ IsFiniteSet(V \cup m)
        /\ Cardinality(V \cup m) = Cardinality(V) + Cardinality(m) - Cardinality(V \cap m)
    BY <2>2, <2>4, FS_Union DEF V
  <2>7. Cardinality(V) \in Nat /\ Cardinality(m) \in Nat /\ Cardinality(V \cap m) \in Nat
    <3>1. IsFiniteSet(V) /\ V \cap m \in SUBSET V
      BY <2>2 DEF V
    <3>2. Cardinality(V \cap m) \in Nat /\ Cardinality(V) \in Nat
      BY <3>1, Fewer
    <3> QED BY <2>4, <3>2, FS_CardinalityType
  <2>8. IsFiniteSet(W) /\ Cardinality(W) <= Cardinality(V) + limit
    <3>1. W = V \cup m
      BY <2>5 DEF V, W
    <3> QED BY <2>3, <2>6, <2>7, <3>1
  <2>9. n * limit + limit = (n + 1) * limit /\ n * limit \in Nat
    OBVIOUS
  <2>10. Cardinality(W) \in Nat
    BY <2>8, FS_CardinalityType
  <2> QED BY <2>2, <2>7, <2>8, <2>9, <2>10 DEF V, W
<1>4. Len(s) \in S
  <2>1. Nat \subseteq S
    <3> HIDE DEF S
    <3> QED BY <1>2, <1>3, AllNaturals
  <2> QED BY <1>1, <2>1
<1>5. UNION {f.names : f \in ToSet(s)} = U(Len(s))
  <2>1. DOMAIN s = 1..Len(s)
    BY LenProperties
  <2>2. {f.names : f \in ToSet(s)} = {s[i].names : i \in 1..Len(s)}
    BY <2>1 DEF ToSet
  <2> QED BY <2>2
<1>6. IsFiniteSet(U(Len(s))) /\ Cardinality(U(Len(s))) <= Len(s) * limit
  <2> HIDE DEF U
  <2> QED BY <1>1, <1>4
<1> HIDE DEF U
<1> QED BY <1>5, <1>6

LEMMA GreatestLimit ==
  ASSUME NEW limit \in Limits
  PROVE  Max(Limits) \in Nat /\ limit <= Max(Limits)
<1>1. \E x \in Limits : \A y \in Limits : y <= x
  BY SyncAssumption, GreatestOfFinite
<1>2. Max(Limits) \in Limits /\ \A y \in Limits : Max(Limits) >= y
  BY <1>1, SyncAssumption DEF Max
<1> QED BY <1>2, SyncAssumption

LEMMA ReachCovers ==
  ASSUME Inv, [Next]_vars, NEW l \in Links, BuiltNow(l)
  PROVE  LET row == SyncReach(round'[l].frames)
             named == PendingIds \cap UNION {f.names : f \in ToSet(round'[l].frames)}
         IN  /\ Cardinality(named) <= row.advertised
             /\ row.behind => named # PendingIds
<1>1. PICK limit, frames :
        limit \in Limits /\ round'[l] = [frames |-> frames, limit |-> limit] /\ Built(frames, limit)
  BY BuildingIsRound
<1>2. round'[l].frames = frames
  BY <1>1
<1> DEFINE U == UNION {f.names : f \in ToSet(frames)}
           P == PendingIds
           named == P \cap U
           most == Len(frames) * Max(Limits)
<1>3. SeenTyped /\ IsFiniteSet(ToSet(seen))
  BY SeenIsFinite DEF Inv
<1>4. limit \in Nat /\ Max(Limits) \in Nat /\ limit <= Max(Limits)
  BY <1>1, GreatestLimit, SyncAssumption
<1>5. frames \in Seq(Frames) /\ Len(frames) \in Nat
  BY <1>1, LenProperties DEF Built
<1>6. IsFiniteSet(U) /\ Cardinality(U) <= Len(frames) * limit
  BY <1>1, <1>3, <1>4, <1>5, UnionOfNames DEF Built, Described
<1>7. Len(frames) * limit <= most /\ Len(frames) * limit \in Nat /\ most \in Nat
  <2> DEFINE k == Len(frames)  g == Max(Limits)
  <2>1. k \in Nat /\ g \in Nat
    BY <1>4, <1>5
  <2> HIDE DEF k, g
  <2>2. k * limit <= k * g /\ k * limit \in Nat /\ k * g \in Nat
    <3>1. PICK d \in Nat : g = limit + d
      <4>1. g - limit \in Nat /\ g = limit + (g - limit)
        BY <1>4, <2>1 DEF g
      <4> QED BY <4>1
    <3>2. k * g = k * limit + k * d /\ k * d \in Nat /\ k * limit \in Nat
      BY <1>4, <2>1, <3>1
    <3> QED BY <3>2
  <2> QED BY <2>2 DEF k, g
<1> HIDE DEF U, P, most
<1>8. P \in SUBSET ToSet(seen) /\ named \in SUBSET P /\ named \in SUBSET U
  BY DEF P, PendingIds
<1>9. IsFiniteSet(P) /\ Cardinality(P) \in Nat
  BY <1>3, <1>8, Fewer
<1>10. /\ Cardinality(named) \in Nat /\ Cardinality(U) \in Nat
       /\ Cardinality(named) <= Cardinality(P) /\ Cardinality(named) <= Cardinality(U)
  BY <1>6, <1>8, <1>9, Fewer
<1>11. Cardinality(named) <= most
  BY <1>6, <1>7, <1>10
<1>12. Min({most, Cardinality(P)}) = IF most <= Cardinality(P) THEN most ELSE Cardinality(P)
  BY <1>7, <1>9, LesserOfTwo
<1>13. Cardinality(named) <= Min({most, Cardinality(P)})
  <2> HIDE DEF named
  <2> QED BY <1>10, <1>11, <1>12
<1>14. Min({most, Cardinality(P)}) < Cardinality(P) => named # P
  <2> DEFINE least == Min({most, Cardinality(P)})
  <2>1. least \in Nat
    BY <1>7, <1>9, <1>12
  <2> HIDE DEF named, least
  <2>2. named = P => Cardinality(P) <= least
    BY <1>13 DEF least
  <2>3. least < Cardinality(P) => named # P
    BY <1>9, <2>1, <2>2
  <2> QED BY <2>3 DEF least
<1>15. /\ SyncReach(frames).advertised = Min({most, Cardinality(P)})
       /\ SyncReach(frames).behind => Min({most, Cardinality(P)}) < Cardinality(P)
  BY DEF SyncReach, most, P
<1> QED BY <1>2, <1>13, <1>14, <1>15 DEF P, U

(* The holder's side: what an answer leaves out, of what the filter does not claim. *)
LEMMA AnswerAccounts ==
  ASSUME NEW l \in Links, NEW f \in Frames, NEW claimed \in Claims(f),
         NEW C \in Answers(l, f, claimed)
  PROVE  LET row == Answer(f, C)
             mail == Held \cap ForAsker
         IN  /\ Cardinality(mail \ claimed)
                  <= row.ownConveyed + SyncAnswers(row).unreached
                       + (IF row.conveyed = MaxConvey THEN row.ownWithheld ELSE 0)
             /\ row.conveyed < MaxConvey =>
                  row.ownWithheld = Cardinality({p \in mail \cap claimed : Within(f, CreatedAt[p])})
             /\ SyncAnswers(row).blind => (C = {} /\ (mail # {} => Stalled(row)))
             /\ Stalled(row) => \A p \in mail : ~Within(f, CreatedAt[p])
<1> DEFINE row == Answer(f, C)
           mail == Held \cap ForAsker
           window == InWindow(f)
           own == window \cap ForAsker
           names == claimed
           lacking == Lacking(l, f, claimed)
           mine == C \cap ForAsker
           known == {p \in mail \cap claimed : Within(f, CreatedAt[p])}
<1>1. \A p \in Held : CreatedAt[p] \in f.from..f.to <=> Within(f, CreatedAt[p])
  BY SyncAssumption DEF Frames, Within
<1>2. /\ lacking \subseteq window \ names /\ lacking \cap ForAsker = own \ names
  BY DEF Lacking, InWindow
<1>3. C \subseteq lacking /\ Cardinality(C) = Min({MaxConvey, Cardinality(lacking)})
  BY DEF Answers
<1>4. own \cap names = known
  BY <1>1 DEF InWindow
<1>5. \A p \in mail : Within(f, CreatedAt[p]) => p \in own
  BY <1>1 DEF InWindow
<1>6. own \subseteq mail /\ own \subseteq window /\ window \subseteq Held
  BY DEF InWindow
<1> HIDE DEF window, own, lacking, known
<1>7. /\ IsFiniteSet(Held) /\ mail \in SUBSET Held /\ window \in SUBSET Held /\ own \in SUBSET Held
      /\ lacking \in SUBSET Held /\ C \in SUBSET Held /\ mine \in SUBSET Held
      /\ mail \ names \in SUBSET Held
  BY <1>2, <1>3, <1>6, SyncAssumption
<1>8. /\ IsFiniteSet(mail) /\ IsFiniteSet(window) /\ IsFiniteSet(own) /\ IsFiniteSet(lacking)
      /\ IsFiniteSet(C) /\ IsFiniteSet(mine) /\ IsFiniteSet(mail \ names)
  BY <1>7, Fewer
<1>9. /\ Cardinality(mail) \in Nat /\ Cardinality(window) \in Nat /\ Cardinality(own) \in Nat
      /\ Cardinality(lacking) \in Nat /\ Cardinality(C) \in Nat /\ Cardinality(mine) \in Nat
      /\ Cardinality(mail \ names) \in Nat
  BY <1>8, FS_CardinalityType
<1>10. /\ row.ownHeld = Cardinality(mail) /\ row.inWindow = Cardinality(window)
       /\ row.conveyed = Cardinality(C) /\ row.ownInWindow = Cardinality(own)
       /\ row.ownConveyed = Cardinality(mine)
       /\ row.ownWithheld = Cardinality(own) - Cardinality(mine)
       /\ SyncAnswers(row).unreached = Cardinality(mail) - Cardinality(own)
       /\ SyncAnswers(row).blind <=> Cardinality(window) = 0
       /\ Stalled(row) <=> Cardinality(mail) > 0 /\ Cardinality(own) = 0
  BY DEF Answer, SyncAnswers, Stalled, window, own
<1>11. Cardinality(C) # MaxConvey => C = lacking
  <2>1. Min({MaxConvey, Cardinality(lacking)})
          = IF MaxConvey <= Cardinality(lacking) THEN MaxConvey ELSE Cardinality(lacking)
    BY <1>9, SyncAssumption, LesserOfTwo
  <2>2. Cardinality(C) # MaxConvey => Cardinality(lacking) = Cardinality(C)
    BY <1>3, <2>1
  <2>3. C \in SUBSET lacking
    BY <1>3
  <2> QED BY <1>8, <2>2, <2>3, FS_Subset
<1>12. Cardinality(C) # MaxConvey =>
         mine = own \ names /\ Cardinality(mine) = Cardinality(own) - Cardinality(known)
  <2>1. Cardinality(own \ names) = Cardinality(own) - Cardinality(own \cap names)
    BY <1>8, FS_Difference
  <2>2. Cardinality(C) # MaxConvey => mine = own \ names
    BY <1>2, <1>11
  <2> QED BY <1>4, <2>1, <2>2
<1>13. Cardinality(known) \in Nat
  <2>1. known \in SUBSET own
    BY <1>4
  <2> QED BY <1>8, <2>1, Fewer
<1>14. Cardinality(mail \ names)
         <= Cardinality(mine) + (Cardinality(mail) - Cardinality(own))
              + (IF Cardinality(C) = MaxConvey THEN Cardinality(own) - Cardinality(mine) ELSE 0)
  <2>1. CASE Cardinality(C) = MaxConvey
    <3>1. mail \ names \in SUBSET mail
      OBVIOUS
    <3>2. Cardinality(mail \ names) <= Cardinality(mail)
      BY <1>8, <3>1, Fewer
    <3> QED BY <1>9, <2>1, <3>2
  <2>2. CASE Cardinality(C) # MaxConvey
    <3> DEFINE far == mail \ own
    <3>1. mail \cap own = own
      BY <1>6
    <3>2. IsFiniteSet(far) /\ Cardinality(far) = Cardinality(mail) - Cardinality(own)
      BY <1>8, <3>1, FS_Difference, ZenonT(60)
    <3>3. mail \ names \in SUBSET (far \cup mine)
      BY <1>12, <2>2
    <3> HIDE DEF far
    <3>4. far \cap mine \in SUBSET far
      OBVIOUS
    <3>5. Cardinality(far \cap mine) \in Nat /\ Cardinality(far) \in Nat
      BY <3>2, <3>4, Fewer
    <3>6. /\ IsFiniteSet(far \cup mine)
          /\ Cardinality(far \cup mine) = Cardinality(far) + Cardinality(mine) - Cardinality(far \cap mine)
      BY <1>8, <3>2, FS_Union
    <3>7. Cardinality(mail \ names) <= Cardinality(far \cup mine)
      BY <3>3, <3>6, Fewer
    <3> QED BY <1>9, <2>2, <3>2, <3>5, <3>6, <3>7
  <2> QED BY <2>1, <2>2
<1>15. Cardinality(C) < MaxConvey => Cardinality(own) - Cardinality(mine) = Cardinality(known)
  BY <1>9, <1>12, <1>13, SyncAssumption
<1>16. Cardinality(window) = 0 => window = {}
  BY <1>8, FS_EmptySet
<1>17. Cardinality(own) = 0 => own = {}
  BY <1>8, FS_EmptySet
<1>18. mail # {} => Cardinality(mail) > 0
  BY <1>8, <1>9, FS_EmptySet
<1>19. Cardinality(window) = 0 =>
         C = {} /\ (mail # {} => Cardinality(mail) > 0 /\ Cardinality(own) = 0)
  <2>1. window = {} => C = {} /\ own = {}
    BY <1>2, <1>3, <1>6
  <2> QED BY <1>16, <1>18, <2>1, FS_EmptySet
<1>20. Cardinality(own) = 0 => \A p \in mail : ~Within(f, CreatedAt[p])
  BY <1>5, <1>17
<1> HIDE DEF row
<1>21. /\ Cardinality(mail \ names)
            <= row.ownConveyed + SyncAnswers(row).unreached
                 + (IF row.conveyed = MaxConvey THEN row.ownWithheld ELSE 0)
       /\ row.conveyed < MaxConvey => row.ownWithheld = Cardinality(known)
       /\ SyncAnswers(row).blind => (C = {} /\ (mail # {} => Stalled(row)))
       /\ Stalled(row) => \A p \in mail : ~Within(f, CreatedAt[p])
  BY <1>10, <1>14, <1>15, <1>19, <1>20
<1> QED BY <1>21 DEF row, known

-----------------------------------------------------------------------------
(* The properties the runs check, for every value of the constants.        *)

(* Every variable keeps its type, no id is seen twice, a round stays within *)
(* its frame budget, a frame within what its filter can name, and what the  *)
(* pacer still has to send is the end of the round last built.              *)
THEOREM RoundTypeCorrect == Spec => []TypeOK
<1>1. Inv => TypeOK
  <2> SUFFICES ASSUME Inv PROVE TypeOK
    OBVIOUS
  <2>1. ASSUME NEW l \in Links
        PROVE  /\ round[l].limit \in Limits \cup {0}
               /\ Len(round[l].frames) <= MaxFrames
               /\ \A f \in ToSet(round[l].frames) :
                    f \in Frames /\ Cardinality(f.names) <= round[l].limit
               /\ IsSuffix(pending[l], round[l].frames)
               /\ sent[l] \in Frames /\ since[l] \in 0..AnnounceEvery
    <3>1. /\ round[l].frames \in Seq(Frames) /\ pending[l] \in Seq(Frames)
          /\ OwnRound(round[l], pending[l])
      BY DEF Inv
    <3>2. IsSuffix(pending[l], round[l].frames)
      BY <3>1, RestIsSuffix DEF OwnRound
    <3>3. ASSUME NEW f \in ToSet(round[l].frames)
          PROVE  f \in Frames /\ Cardinality(f.names) <= round[l].limit
      <4>1. PICK i \in 1..Len(round[l].frames) : f = round[l].frames[i]
        BY <3>1, LenProperties DEF ToSet
      <4> QED BY <3>1, <4>1, ElementOfSeq DEF OwnRound
    <3> QED BY <3>1, <3>2, <3>3 DEF Inv, OwnRound
  <2>2. ToSet(seen) \subseteq Packets
    BY LenProperties, ElementOfSeq DEF Inv, SeenTyped, ToSet
  <2> QED BY <2>1, <2>2 DEF Inv, SeenTyped, TypeOK
<1> QED BY <1>1, SyncInvariant, PTL

(* No two frames of a round describe the same ground, whatever the seen-set *)
(* held, however many links share the cursor and whatever was lost.         *)
THEOREM RoundsKeepApart == Spec => []FramesAreDisjoint
<1>1. Inv => FramesAreDisjoint
  <2> SUFFICES ASSUME Inv, NEW l \in Links,
                      NEW i \in DOMAIN round[l].frames, NEW j \in DOMAIN round[l].frames,
                      NEW g \in Ground,
                      Within(round[l].frames[i], g), Within(round[l].frames[j], g)
               PROVE  i = j
    BY DEF FramesAreDisjoint
  <2> DEFINE s == round[l].frames
  <2>1. s \in Seq(Frames) /\ Apart(s)
    BY DEF Inv, OwnRound
  <2>2. i \in 1..Len(s) /\ j \in 1..Len(s) /\ Len(s) \in Nat
    BY <2>1, LenProperties
  <2>3. s[i] \in Frames /\ s[j] \in Frames /\ g \in Nat
    BY <2>1, <2>2, ElementOfSeq, SyncAssumption DEF Ground
  <2>4. /\ s[i].from <= g /\ g <= s[i].to /\ s[j].from <= g /\ g <= s[j].to
        /\ {s[i].from, s[i].to, s[j].from, s[j].to} \subseteq Nat
    BY <2>3 DEF Within, Frames
  <2> HIDE DEF s
  <2>5. ~(s[i].to < s[j].from) /\ ~(s[j].to < s[i].from)
    BY <2>3, <2>4
  <2> QED BY <2>1, <2>2, <2>5 DEF Apart
<1> QED BY <1>1, SyncInvariant, PTL

(* Every frame of a round names all the ids seen in the window it claims.   *)
THEOREM WindowsAreNamed == Spec => FramesNameTheirWindows
<1> DEFINE Named == \A l \in Links : BuiltNow(l) =>
             \A f \in ToSet(round'[l].frames) : \A p \in ToSet(seen) :
               \/ ~Within(f, CreatedAt[p]) \/ p \in f.names
               \/ Cardinality(WithStamp(CreatedAt[p])) > round'[l].limit
<1>1. Inv /\ [Next]_vars => Named
  BY WindowsNamed
<1> QED BY <1>1, SyncInvariant, PTL DEF Spec, FramesNameTheirWindows

(* The reach table never gives a round less than it named of the ground     *)
(* from its cursor on, and one it calls behind left ids of it unnamed.      *)
THEOREM ReachIsCovered == Spec => ReachIsNotUnderstated
<1> DEFINE Covered == \A l \in Links : BuiltNow(l) =>
             LET row == SyncReach(round'[l].frames)
                 named == PendingIds \cap UNION {f.names : f \in ToSet(round'[l].frames)}
             IN  /\ Cardinality(named) <= row.advertised
                 /\ row.behind => named # PendingIds
<1>1. Inv /\ [Next]_vars => Covered
  BY ReachCovers
<1> QED BY <1>1, SyncInvariant, PTL DEF Spec, ReachIsNotUnderstated

(* What a filter claims of the mail for the asker beyond the names of its   *)
(* frame, all of it inside the window.                                      *)
LEMMA FalseClaims ==
  ASSUME NEW f \in Frames, NEW claimed \in Claims(f)
  PROVE  LET mail == Held \cap ForAsker
             known == {p \in mail \cap f.names : Within(f, CreatedAt[p])}
             falsely == mail \cap (claimed \ f.names)
         IN  /\ {Cardinality(known), Cardinality(falsely), Cardinality(mail \ claimed),
                 Cardinality(mail \ f.names)} \subseteq Nat
             /\ Cardinality(mail \ f.names) = Cardinality(mail \ claimed) + Cardinality(falsely)
             /\ Cardinality({p \in mail \cap claimed : Within(f, CreatedAt[p])})
                  = Cardinality(known) + Cardinality(falsely)
<1> DEFINE mail == Held \cap ForAsker
           known == {p \in mail \cap f.names : Within(f, CreatedAt[p])}
           falsely == mail \cap (claimed \ f.names)
           both == {p \in mail \cap claimed : Within(f, CreatedAt[p])}
           left == mail \ claimed
           unnamed == mail \ f.names
<1>1. f.names \subseteq claimed /\ \A p \in falsely : Within(f, CreatedAt[p])
  BY SyncAssumption DEF Claims, InWindow, Frames, Within
<1>2. both = known \cup falsely /\ known \cap falsely = {}
  BY <1>1
<1>3. unnamed = left \cup falsely /\ left \cap falsely = {}
  BY <1>1
<1>4. {known, falsely, left, unnamed} \subseteq SUBSET Held /\ IsFiniteSet(Held)
  BY SyncAssumption
<1> HIDE DEF known, falsely, both, left, unnamed
<1>5. /\ IsFiniteSet(known) /\ IsFiniteSet(falsely) /\ IsFiniteSet(left) /\ IsFiniteSet(unnamed)
      /\ Cardinality(known) \in Nat /\ Cardinality(falsely) \in Nat
      /\ Cardinality(left) \in Nat /\ Cardinality(unnamed) \in Nat
  BY <1>4, Fewer, FS_CardinalityType
<1>6. Cardinality(both) = Cardinality(known) + Cardinality(falsely)
  <2>1. Cardinality(known \cup falsely)
          = Cardinality(known) + Cardinality(falsely) - Cardinality(known \cap falsely)
    BY <1>5, FS_Union
  <2>2. Cardinality(known \cap falsely) = 0
    BY <1>2, FS_EmptySet
  <2> QED BY <1>2, <1>5, <2>1, <2>2
<1>7. Cardinality(unnamed) = Cardinality(left) + Cardinality(falsely)
  <2>1. Cardinality(left \cup falsely)
          = Cardinality(left) + Cardinality(falsely) - Cardinality(left \cap falsely)
    BY <1>5, FS_Union
  <2>2. Cardinality(left \cap falsely) = 0
    BY <1>3, FS_EmptySet
  <2> QED BY <1>3, <1>5, <2>1, <2>2
<1> QED BY <1>5, <1>6, <1>7 DEF known, falsely, both, left, unnamed

(* A holder's record of an answer accounts for all the mail the frame left  *)
(* unnamed, up to exactly the false positives of its filter, and its two    *)
(* verdicts, blind and stalled, mean what they say.                         *)
THEOREM HungerIsExplained == Spec => []HungerIsAccounted
<1>1. Inv => HungerIsAccounted
  <2> SUFFICES ASSUME Inv, NEW l \in Links, pending[l] # <<>>,
                      NEW claimed \in Claims(Head(pending[l])),
                      NEW C \in Answers(l, Head(pending[l]), claimed)
               PROVE  LET f == Head(pending[l])
                          mail == Held \cap ForAsker
                          known == {p \in mail \cap f.names : Within(f, CreatedAt[p])}
                          row == Answer(f, C)
                          falsely == mail \cap (claimed \ f.names)
                      IN  /\ Cardinality(mail \ f.names)
                               <= row.ownConveyed + SyncAnswers(row).unreached + Cardinality(falsely)
                                    + (IF row.conveyed = MaxConvey THEN row.ownWithheld ELSE 0)
                          /\ row.conveyed < MaxConvey =>
                               row.ownWithheld = Cardinality(known) + Cardinality(falsely)
                          /\ SyncAnswers(row).blind => (C = {} /\ (mail # {} => Stalled(row)))
                          /\ Stalled(row) => \A p \in mail : ~Within(f, CreatedAt[p])
    BY DEF HungerIsAccounted
  <2>1. Head(pending[l]) \in Frames
    <3>1. pending[l] \in Seq(Frames)
      BY DEF Inv
    <3> QED BY <3>1, HeadTailProperties
  <2> DEFINE f == Head(pending[l])
             mail == Held \cap ForAsker
             known == {p \in mail \cap f.names : Within(f, CreatedAt[p])}
             both == {p \in mail \cap claimed : Within(f, CreatedAt[p])}
             row == Answer(f, C)
             falsely == mail \cap (claimed \ f.names)
             told == row.ownConveyed + SyncAnswers(row).unreached
             cut == IF row.conveyed = MaxConvey THEN row.ownWithheld ELSE 0
  <2>2. /\ Cardinality(mail \ claimed) <= told + cut
        /\ row.conveyed < MaxConvey => row.ownWithheld = Cardinality(both)
        /\ SyncAnswers(row).blind => (C = {} /\ (mail # {} => Stalled(row)))
        /\ Stalled(row) => \A p \in mail : ~Within(f, CreatedAt[p])
    BY <2>1, AnswerAccounts
  <2>3. /\ {Cardinality(falsely), Cardinality(mail \ claimed), Cardinality(mail \ f.names)} \subseteq Nat
        /\ Cardinality(mail \ f.names) = Cardinality(mail \ claimed) + Cardinality(falsely)
        /\ Cardinality(both) = Cardinality(known) + Cardinality(falsely)
    BY <2>1, FalseClaims
  <2>4. told \in Int /\ cut \in Int
    <3>1. /\ InWindow(f) \in SUBSET Held /\ C \in SUBSET Held /\ IsFiniteSet(Held)
          /\ mail \in SUBSET Held
      BY SyncAssumption DEF Answers, Lacking, InWindow
    <3>2. /\ Cardinality(C \cap ForAsker) \in Nat /\ Cardinality(InWindow(f) \cap ForAsker) \in Nat
          /\ Cardinality(mail) \in Nat
      BY <3>1, Fewer
    <3> HIDE DEF f, mail
    <3> QED BY <3>2 DEF Answer, SyncAnswers, mail
  <2>5. Cardinality(mail \ f.names) <= told + Cardinality(falsely) + cut
    <3> HIDE DEF f, mail, falsely, told, cut
    <3> QED BY <2>2, <2>3, <2>4
  <2>6. row.conveyed < MaxConvey => row.ownWithheld = Cardinality(known) + Cardinality(falsely)
    BY <2>2, <2>3
  <2> QED BY <2>2, <2>5, <2>6
<1> QED BY <1>1, SyncInvariant, PTL
=============================================================================
