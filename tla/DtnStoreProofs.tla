--------------------------- MODULE DtnStoreProofs ---------------------------
(***************************************************************************)
(* The map of lists keeps the promise of the set of entries: every step of *)
(* DtnStore is a step of DtnCustody or a stutter, the running total is the *)
(* sum of what is held, both bounds hold between two calls, and shedding   *)
(* by list heads is oldest first.  The invariant is that the lists are     *)
(* settled: one per recipient, none empty, each in the order its entries   *)
(* were stored, no packet twice.  Filtering keeps that order; the eviction *)
(* loop is followed turn by turn; the sums are taken out of the order in   *)
(* which CHOOSE would take them.                                           *)
(***************************************************************************)
EXTENDS DtnStore, WellFoundedInduction, FiniteSetTheorems, FunctionTheorems, TLAPS

-----------------------------------------------------------------------------
(* Numbers and finite sets. *)

(* A set of natural numbers that is not empty has a least element. *)
LEMMA LeastNatural ==
  ASSUME NEW T, T \subseteq Nat, T # {}
  PROVE  \E x \in T : \A y \in T : x <= y
<1>1. IsWellFoundedOn(OpToRel(<, Nat), Nat)
  BY NatLessThanWellFounded, Zenon
<1>2. PICK x \in T : \A y \in T : <<y, x>> \notin OpToRel(<, Nat)
  BY <1>1, WFMin, Zenon
<1>3. ASSUME NEW y \in T PROVE x <= y
  <2>1. <<y, x>> \notin OpToRel(<, Nat)
    BY <1>2
  <2>2. ~(y < x)
    BY <2>1, Zenon DEF OpToRel
  <2> QED BY <2>2
<1> QED BY <1>3

(* Induction: a set with 0 and with the successor of each of its numbers has them all. *)
LEMMA AllNaturals ==
  ASSUME NEW S, 0 \in S, \A n \in Nat : n \in S => n + 1 \in S
  PROVE  Nat \subseteq S
<1> SUFFICES ASSUME Nat \ S # {} PROVE FALSE
  OBVIOUS
<1>1. PICK x \in Nat \ S : \A y \in Nat \ S : x <= y
  BY LeastNatural
<1>2. x # 0 /\ x - 1 \in Nat /\ x - 1 \in S
  BY <1>1
<1> QED BY <1>1, <1>2

LEMMA ImageIsFinite ==
  ASSUME NEW S, IsFiniteSet(S), NEW f, DOMAIN f = S
  PROVE  IsFiniteSet({f[x] : x \in S}) /\ Cardinality({f[x] : x \in S}) <= Cardinality(S)
<1> DEFINE T == {f[x] : x \in S}
<1> DEFINE g == [x \in S |-> f[x]]
<1>1. g \in Surjection(S, T)
  BY DEF Surjection
<1> QED BY <1>1, FS_Surjection

(* A set within another finite one. *)
LEMMA Fewer ==
  ASSUME NEW T, IsFiniteSet(T), NEW S \in SUBSET T
  PROVE  /\ IsFiniteSet(S) /\ Cardinality(S) \in Nat /\ Cardinality(T) \in Nat
         /\ Cardinality(S) <= Cardinality(T)
         /\ S # T => Cardinality(S) < Cardinality(T)
  BY FS_Subset, FS_CardinalityType

-----------------------------------------------------------------------------

-----------------------------------------------------------------------------
(* The sum of a finite set of entries does not depend on the order in which it is taken. *)

(* The element a sum over s takes first. *)
AnyOf(s) == CHOOSE x \in s : TRUE

SumStep(w, s) == IF s = {} THEN 0 ELSE Size[AnyOf(s).packet] + w[s \ {AnyOf(s)}]

(* w is the sum over every part of U, taken element by element. *)
SumsOver(w, U) == w = [s \in SUBSET U |-> SumStep(w, s)]

Sized(S) == IsFiniteSet(S) /\ \A e \in S : e.packet \in Packets

(* The total of a set of entries is a function defined over its parts. *)
LEMMA BytesUnfold ==
  ASSUME NEW S
  PROVE  Custody!BytesOf(S) = (CHOOSE w : SumsOver(w, S))[S]
  BY DEF Custody!BytesOf, Custody!MapThenSumSet, Custody!MapThenFoldSet, SumsOver, SumStep, AnyOf

(* The first entry taken is one of the set. *)
LEMMA AnyIsMember ==
  ASSUME NEW s, s # {}
  PROVE  AnyOf(s) \in s
  BY DEF AnyOf

(* One entry taken out leaves a finite set, one smaller. *)
LEMMA Without ==
  ASSUME NEW s, Sized(s), NEW e \in s
  PROVE  /\ Sized(s \ {e}) /\ Size[e.packet] \in Nat
         /\ Cardinality(s) \in Nat /\ Cardinality(s \ {e}) = Cardinality(s) - 1
<1>1. IsFiniteSet(s \ {e}) /\ Cardinality(s) \in Nat /\ Cardinality(s \ {e}) = Cardinality(s) - 1
  BY FS_RemoveElement, FS_CardinalityType DEF Sized
<1> QED BY <1>1, PacketAssumption, BoundAssumption DEF Sized

(* The same, for a set of a given size. *)
LEMMA OneFewer ==
  ASSUME NEW s, Sized(s), NEW e \in s, NEW n \in Nat, Cardinality(s) = n + 1
  PROVE  Cardinality(s \ {e}) = n
<1>1. Cardinality(s \ {e}) = Cardinality(s) - 1
  BY Without
<1> QED BY <1>1

(* A part of a finite set of entries is one, and no larger. *)
LEMMA PartSized ==
  ASSUME NEW S, Sized(S), NEW s \in SUBSET S
  PROVE  /\ Sized(s) /\ Cardinality(s) \in Nat /\ Cardinality(S) \in Nat
         /\ Cardinality(s) <= Cardinality(S) /\ (Cardinality(s) = 0 <=> s = {})
<1>1. IsFiniteSet(s) /\ Cardinality(s) \in Nat /\ Cardinality(S) \in Nat
      /\ Cardinality(s) <= Cardinality(S)
  BY Fewer DEF Sized
<1>2. Cardinality(s) = 0 <=> s = {}
  BY <1>1, FS_EmptySet
<1> QED BY <1>1, <1>2 DEF Sized

(* The function that sums every part exists: by induction on the size of the parts. *)
LEMMA SumsExist ==
  ASSUME NEW U, Sized(U)
  PROVE  \E w \in [SUBSET U -> Nat] : SumsOver(w, U)
<1> DEFINE Upto(n) == {s \in SUBSET U : Cardinality(s) <= n}
           Sums(n) == {w \in [Upto(n) -> Nat] : \A s \in Upto(n) : w[s] = SumStep(w, s)}
           N == {n \in Nat : Sums(n) # {}}
<1>1. 0 \in N
  <2> DEFINE w == [s \in Upto(0) |-> 0]
  <2>1. \A s \in Upto(0) : s = {}
    BY PartSized
  <2>2. w \in [Upto(0) -> Nat] /\ \A s \in Upto(0) : w[s] = SumStep(w, s)
    BY <2>1 DEF SumStep
  <2> QED BY <2>2
<1>2. ASSUME NEW n \in Nat, n \in N PROVE n + 1 \in N
  <2>1. PICK w \in [Upto(n) -> Nat] : \A s \in Upto(n) : w[s] = SumStep(w, s)
    BY <1>2
  <2> DEFINE v == [s \in Upto(n + 1) |-> IF s \in Upto(n) THEN w[s] ELSE SumStep(w, s)]
  <2>2. ASSUME NEW s \in Upto(n + 1), s # {}
        PROVE  /\ AnyOf(s) \in s /\ s \ {AnyOf(s)} \in Upto(n)
               /\ Size[AnyOf(s).packet] \in Nat
    <3>1. Sized(s) /\ AnyOf(s) \in s
      BY <2>2, PartSized, AnyIsMember
    <3> QED BY <3>1, Without
  <2>3. ASSUME NEW s \in Upto(n + 1)
        PROVE  SumStep(w, s) \in Nat /\ SumStep(v, s) = SumStep(w, s)
    <3>1. CASE s = {}
      BY <3>1 DEF SumStep
    <3>2. CASE s # {}
      <4>1. s \ {AnyOf(s)} \in Upto(n) /\ Size[AnyOf(s).packet] \in Nat
        BY <2>2, <3>2
      <4>2. s \ {AnyOf(s)} \in Upto(n + 1)
        BY <4>1, PartSized
      <4>3. v[s \ {AnyOf(s)}] = w[s \ {AnyOf(s)}] /\ w[s \ {AnyOf(s)}] \in Nat
        BY <4>1, <4>2
      <4> QED BY <3>2, <4>1, <4>3 DEF SumStep
    <3> QED BY <3>1, <3>2
  <2>4. v \in [Upto(n + 1) -> Nat] /\ \A s \in Upto(n + 1) : v[s] = SumStep(v, s)
    BY <2>1, <2>3
  <2>5. Sums(n + 1) # {}
    BY <2>4
  <2> HIDE DEF Sums
  <2> QED BY <2>5
<1>3. Cardinality(U) \in N
  <2> HIDE DEF N
  <2>1. Nat \subseteq N
    BY <1>1, <1>2, AllNaturals
  <2> QED BY <2>1, PartSized
<1>4. PICK w \in [Upto(Cardinality(U)) -> Nat] :
         \A s \in Upto(Cardinality(U)) : w[s] = SumStep(w, s)
  BY <1>3
<1>5. Upto(Cardinality(U)) = SUBSET U
  BY PartSized
<1>6. SumsOver(w, U) /\ w \in [SUBSET U -> Nat]
  BY <1>4, <1>5 DEF SumsOver
<1> QED BY <1>6

(* Two functions that sum alike agree on every part: there is only one. *)
LEMMA SumsAgree ==
  ASSUME NEW U, Sized(U), NEW V \in SUBSET U, NEW w, SumsOver(w, U), NEW v, SumsOver(v, V)
  PROVE  w[V] = v[V]
<1> DEFINE N == {n \in Nat : \A s \in SUBSET V : Cardinality(s) = n => w[s] = v[s]}
<1>0. /\ \A s \in SUBSET U : w[s] = SumStep(w, s)
      /\ \A s \in SUBSET V : v[s] = SumStep(v, s)
  BY DEF SumsOver
<1>1. 0 \in N
  <2> SUFFICES ASSUME NEW s \in SUBSET V, Cardinality(s) = 0 PROVE w[s] = v[s]
    OBVIOUS
  <2>1. s = {}
    BY PartSized
  <2> QED BY <1>0, <2>1 DEF SumStep
<1>2. ASSUME NEW n \in Nat, n \in N PROVE n + 1 \in N
  <2> SUFFICES ASSUME NEW s \in SUBSET V, Cardinality(s) = n + 1 PROVE w[s] = v[s]
    OBVIOUS
  <2>1. Sized(s) /\ s # {} /\ AnyOf(s) \in s
    BY PartSized, AnyIsMember
  <2>2. Cardinality(s \ {AnyOf(s)}) = n
    BY <2>1, OneFewer
  <2>3. w[s \ {AnyOf(s)}] = v[s \ {AnyOf(s)}]
    BY <1>2, <2>2
  <2> QED BY <1>0, <2>1, <2>3 DEF SumStep
<1>3. Cardinality(V) \in N
  <2> HIDE DEF N
  <2>1. Nat \subseteq N
    BY <1>1, <1>2, AllNaturals
  <2> QED BY <2>1, PartSized
<1> QED BY <1>3

(* So the total of a set is one step of the sum and the total of the rest. *)
LEMMA BytesAreSums ==
  ASSUME NEW U, Sized(U)
  PROVE  \E w : /\ SumsOver(w, U)
                /\ \A V \in SUBSET U : w[V] = Custody!BytesOf(V) /\ w[V] \in Nat
<1>1. PICK w \in [SUBSET U -> Nat] : SumsOver(w, U)
  BY SumsExist
<1>2. ASSUME NEW V \in SUBSET U PROVE w[V] = Custody!BytesOf(V) /\ w[V] \in Nat
  <2>1. \E v : SumsOver(v, V)
    BY SumsExist, PartSized
  <2>2. SumsOver(CHOOSE v : SumsOver(v, V), V)
    BY <2>1, Zenon
  <2>3. w[V] = (CHOOSE v : SumsOver(v, V))[V]
    BY <1>1, <2>2, SumsAgree
  <2> QED BY <1>1, <2>3, BytesUnfold
<1> QED BY <1>1, <1>2

(* Nothing weighs nothing. *)
LEMMA BytesOfNone == Custody!BytesOf({}) = 0
<1>1. Sized({})
  BY FS_EmptySet DEF Sized
<1>2. PICK w : SumsOver(w, {}) /\ w[{}] = Custody!BytesOf({})
  BY <1>1, BytesAreSums
<1>3. w[{}] = SumStep(w, {})
  BY <1>2 DEF SumsOver
<1> QED BY <1>2, <1>3 DEF SumStep

(* A total is a number. *)
LEMMA BytesType ==
  ASSUME NEW S, Sized(S)
  PROVE  Custody!BytesOf(S) \in Nat
  BY BytesAreSums

(* The entry a sum takes first can be taken out of it. *)
LEMMA BytesOfFirst ==
  ASSUME NEW S, Sized(S), S # {}
  PROVE  Custody!BytesOf(S) = Size[AnyOf(S).packet] + Custody!BytesOf(S \ {AnyOf(S)})
<1>1. PICK w : /\ SumsOver(w, S)
               /\ \A V \in SUBSET S : w[V] = Custody!BytesOf(V) /\ w[V] \in Nat
  BY BytesAreSums
<1>2. w[S] = SumStep(w, S)
  BY <1>1 DEF SumsOver
<1> QED BY <1>1, <1>2 DEF SumStep

(* Any entry can be taken out of the sum first. *)
LEMMA BytesWithout ==
  ASSUME NEW S, Sized(S), NEW e \in S
  PROVE  Custody!BytesOf(S) = Size[e.packet] + Custody!BytesOf(S \ {e})
<1> DEFINE N == {n \in Nat : \A s \in SUBSET S : \A x \in s : Cardinality(s) = n =>
                    Custody!BytesOf(s) = Size[x.packet] + Custody!BytesOf(s \ {x})}
<1>1. 0 \in N
  <2>1. ASSUME NEW s \in SUBSET S, NEW x \in s PROVE Cardinality(s) # 0
    BY PartSized
  <2> QED BY <2>1
<1>2. ASSUME NEW n \in Nat, n \in N PROVE n + 1 \in N
  <2> SUFFICES ASSUME NEW s \in SUBSET S, NEW x \in s, Cardinality(s) = n + 1
               PROVE  Custody!BytesOf(s) = Size[x.packet] + Custody!BytesOf(s \ {x})
    OBVIOUS
  <2> DEFINE y == AnyOf(s)
  <2>1. Sized(s) /\ s # {} /\ y \in s
    BY PartSized, AnyIsMember
  <2>2. /\ Custody!BytesOf(s) = Size[y.packet] + Custody!BytesOf(s \ {y})
        /\ Sized(s \ {x}) /\ Sized(s \ {y})
        /\ Size[x.packet] \in Nat /\ Size[y.packet] \in Nat
    BY <2>1, BytesOfFirst, Without
  <2>2a. Cardinality(s \ {y}) = n /\ Cardinality(s \ {x}) = n
    BY <2>1, OneFewer
  <2> HIDE DEF y
  <2>3. CASE x = y
    BY <2>2, <2>3
  <2>4. CASE x # y
    <3> DEFINE rest == (s \ {y}) \ {x}
    <3>1. (s \ {x}) \ {y} = rest /\ s \ {y} \in SUBSET S /\ s \ {x} \in SUBSET S
          /\ x \in s \ {y} /\ y \in s \ {x}
      BY <2>1, <2>4
    <3>2. Custody!BytesOf(s \ {y}) = Size[x.packet] + Custody!BytesOf(rest)
      BY <1>2, <2>2a, <3>1
    <3>3. Custody!BytesOf(s \ {x}) = Size[y.packet] + Custody!BytesOf((s \ {x}) \ {y})
      BY <1>2, <2>2a, <3>1
    <3>4. Custody!BytesOf(s \ {x}) = Size[y.packet] + Custody!BytesOf(rest)
      BY <3>1, <3>3
    <3>5. Custody!BytesOf(rest) \in Nat
      BY <2>2, <3>1, Without, BytesType
    <3> HIDE DEF rest
    <3> QED BY <2>2, <3>2, <3>4, <3>5
  <2> QED BY <2>3, <2>4
<1>3. Cardinality(S) \in N
  <2> HIDE DEF N
  <2>1. Nat \subseteq N
    BY <1>1, <1>2, AllNaturals
  <2> QED BY <2>1, PartSized
<1> QED BY <1>3

(* One entry more weighs its packet's size more. *)
LEMMA BytesWith ==
  ASSUME NEW S, Sized(S), NEW e, e.packet \in Packets, e \notin S
  PROVE  /\ Sized(S \cup {e})
         /\ Custody!BytesOf(S \cup {e}) = Custody!BytesOf(S) + Size[e.packet]
<1>1. Sized(S \cup {e})
  BY FS_AddElement DEF Sized
<1>2. (S \cup {e}) \ {e} = S
  OBVIOUS
<1>3. Custody!BytesOf(S \cup {e}) = Size[e.packet] + Custody!BytesOf((S \cup {e}) \ {e})
  BY <1>1, BytesWithout
<1>4. Custody!BytesOf((S \cup {e}) \ {e}) = Custody!BytesOf(S)
  BY <1>2
<1>5. Custody!BytesOf(S) \in Nat /\ Size[e.packet] \in Nat
  BY BytesType, PacketAssumption, BoundAssumption
<1> QED BY <1>1, <1>3, <1>4, <1>5

(* Two parts that have nothing in common weigh what the whole weighs. *)
LEMMA BytesSplit ==
  ASSUME NEW S, Sized(S), NEW T \in SUBSET S
  PROVE  /\ Custody!BytesOf(S) = Custody!BytesOf(T) + Custody!BytesOf(S \ T)
         /\ Custody!BytesOf(S) \in Nat /\ Custody!BytesOf(T) \in Nat
         /\ Custody!BytesOf(S \ T) \in Nat
<1> DEFINE N == {n \in Nat : \A t \in SUBSET S : Cardinality(t) = n =>
                    Custody!BytesOf(S) = Custody!BytesOf(t) + Custody!BytesOf(S \ t)}
<1>0. \A t \in SUBSET S : Sized(t) /\ Custody!BytesOf(t) \in Nat
  BY PartSized, BytesType
<1>1. 0 \in N
  <2> SUFFICES ASSUME NEW t \in SUBSET S, Cardinality(t) = 0
               PROVE  Custody!BytesOf(S) = Custody!BytesOf(t) + Custody!BytesOf(S \ t)
    OBVIOUS
  <2>1. t = {} /\ S \ t = S
    BY PartSized
  <2>2. Custody!BytesOf(t) = 0 /\ Custody!BytesOf(S \ t) = Custody!BytesOf(S)
    BY <2>1, BytesOfNone
  <2> QED BY <1>0, <2>2
<1>2. ASSUME NEW n \in Nat, n \in N PROVE n + 1 \in N
  <2> SUFFICES ASSUME NEW t \in SUBSET S, Cardinality(t) = n + 1
               PROVE  Custody!BytesOf(S) = Custody!BytesOf(t) + Custody!BytesOf(S \ t)
    OBVIOUS
  <2>1. PICK x : x \in t
    BY PartSized
  <2>2. Cardinality(t \ {x}) = n /\ Size[x.packet] \in Nat
    BY <1>0, <2>1, OneFewer, Without
  <2>3. Custody!BytesOf(S) = Custody!BytesOf(t \ {x}) + Custody!BytesOf(S \ (t \ {x}))
    BY <1>2, <2>2
  <2>4. Custody!BytesOf(t) = Size[x.packet] + Custody!BytesOf(t \ {x})
    BY <1>0, <2>1, BytesWithout
  <2>5. (S \ t) \cup {x} = S \ (t \ {x}) /\ x \notin S \ t /\ x.packet \in Packets
    BY <2>1 DEF Sized
  <2>6. Custody!BytesOf((S \ t) \cup {x}) = Custody!BytesOf(S \ t) + Size[x.packet]
    BY <1>0, <2>5, BytesWith
  <2>7. Custody!BytesOf(S \ (t \ {x})) = Custody!BytesOf(S \ t) + Size[x.packet]
    BY <2>5, <2>6
  <2>8. Custody!BytesOf(S \ t) \in Nat /\ Custody!BytesOf(t \ {x}) \in Nat
    BY <1>0
  <2> QED BY <2>2, <2>3, <2>4, <2>7, <2>8
<1>3. Cardinality(T) \in N
  <2> HIDE DEF N
  <2>1. Nat \subseteq N
    BY <1>1, <1>2, AllNaturals
  <2> QED BY <2>1, PartSized
<1> QED BY <1>0, <1>3

(* Rewriting entries one for one, each keeping its packet, changes no total. *)
LEMMA BytesRewritten ==
  ASSUME NEW S, Sized(S), NEW f, DOMAIN f = S,
         \A x \in S : f[x].packet = x.packet, \A x, y \in S : f[x] = f[y] => x = y
  PROVE  Custody!BytesOf({f[x] : x \in S}) = Custody!BytesOf(S)
<1> DEFINE Image(s) == {f[x] : x \in s}
           N == {n \in Nat : \A s \in SUBSET S : Cardinality(s) = n =>
                    Sized(Image(s)) /\ Custody!BytesOf(Image(s)) = Custody!BytesOf(s)}
<1>1. 0 \in N
  <2> SUFFICES ASSUME NEW s \in SUBSET S, Cardinality(s) = 0
               PROVE  Sized(Image(s)) /\ Custody!BytesOf(Image(s)) = Custody!BytesOf(s)
    OBVIOUS
  <2>1. s = {} /\ Image(s) = {}
    BY PartSized
  <2> QED BY <2>1, FS_EmptySet DEF Sized
<1>2. ASSUME NEW n \in Nat, n \in N PROVE n + 1 \in N
  <2> SUFFICES ASSUME NEW s \in SUBSET S, Cardinality(s) = n + 1
               PROVE  Sized(Image(s)) /\ Custody!BytesOf(Image(s)) = Custody!BytesOf(s)
    OBVIOUS
  <2>1. PICK x : x \in s
    BY PartSized
  <2>2. /\ Cardinality(s \ {x}) = n /\ Sized(s) /\ x.packet \in Packets
        /\ Custody!BytesOf(s) = Size[x.packet] + Custody!BytesOf(s \ {x})
    <3>1. Sized(s)
      BY PartSized
    <3>2. Cardinality(s \ {x}) = n
      BY <2>1, <3>1, OneFewer
    <3>3. Custody!BytesOf(s) = Size[x.packet] + Custody!BytesOf(s \ {x})
      BY <2>1, <3>1, BytesWithout
    <3> QED BY <2>1, <3>1, <3>2, <3>3 DEF Sized
  <2>3. /\ Sized(Image(s \ {x}))
        /\ Custody!BytesOf(Image(s \ {x})) = Custody!BytesOf(s \ {x})
    BY <1>2, <2>2
  <2>4. Image(s) = Image(s \ {x}) \cup {f[x]} /\ f[x] \notin Image(s \ {x})
        /\ f[x].packet = x.packet
    BY <2>1
  <2> HIDE DEF Image
  <2>5. /\ Sized(Image(s \ {x}) \cup {f[x]})
        /\ Custody!BytesOf(Image(s \ {x}) \cup {f[x]}) = Custody!BytesOf(Image(s \ {x})) + Size[f[x].packet]
    BY <2>2, <2>3, <2>4, BytesWith
  <2>6. Custody!BytesOf(s \ {x}) \in Nat /\ Size[x.packet] \in Nat
    BY <2>1, <2>2, Without, BytesType
  <2> QED BY <2>2, <2>3, <2>4, <2>5, <2>6
<1>3. Cardinality(S) \in N
  <2> HIDE DEF N
  <2>1. Nat \subseteq N
    BY <1>1, <1>2, AllNaturals
  <2> QED BY <2>1, PartSized
<1> QED BY <1>3

-----------------------------------------------------------------------------
(* What stays of a list stays in its order, and nothing else does. *)

(* r is some of the list's first n elements, in their order. *)
InOrder(r, list, n) ==
  \E g \in [1..Len(r) -> 1..n] :
     /\ \A i \in 1..Len(r) : r[i] = list[g[i]]
     /\ \A i, j \in 1..Len(r) : i < j => g[i] < g[j]

Picks(r, list, S, n) ==
  /\ ToSet(r) = {list[i] : i \in 1..n} \cap S
  /\ Len(r) <= n
  /\ (\E i \in 1..n : list[i] \notin S) => Len(r) < n
  /\ InOrder(r, list, n)

AmongStep(list, S, left, n) ==
  IF n = 0 THEN <<>>
  ELSE IF list[n] \in S THEN Append(left[n - 1], list[n]) ELSE left[n - 1]

(* What is left of a list is a function defined over its prefixes. *)
LEMMA AmongUnfold ==
  ASSUME NEW list, NEW S
  PROVE  Among(list, S) =
           (CHOOSE left : left = [n \in 0..Len(list) |-> AmongStep(list, S, left, n)])[Len(list)]
  BY DEF Among, AmongStep

(* Before the first element nothing is picked. *)
LEMMA PicksNothing ==
  ASSUME NEW list, NEW S
  PROVE  Picks(<<>>, list, S, 0)
<1>1. ToSet(<<>>) = {} /\ {list[i] : i \in 1..0} = {}
  BY DEF ToSet
<1>2. InOrder(<<>>, list, 0)
  <2> DEFINE g == [i \in 1..0 |-> 0]
  <2>1. Len(<<>>) = 0 /\ g \in [1..0 -> 1..0] /\ \A i \in 1..0 : FALSE
    OBVIOUS
  <2> HIDE DEF g
  <2> QED BY <2>1 DEF InOrder
<1> QED BY <1>1, <1>2 DEF Picks

(* One element more: it is added at the end, or passed over. *)
LEMMA PicksNext ==
  ASSUME NEW T, NEW list \in Seq(T), NEW S, NEW n \in Nat, n + 1 <= Len(list),
         NEW r \in Seq(T), Picks(r, list, S, n)
  PROVE  LET q == IF list[n + 1] \in S THEN Append(r, list[n + 1]) ELSE r
         IN  q \in Seq(T) /\ Picks(q, list, S, n + 1)
<1> DEFINE e == list[n + 1]
<1>0. e \in T /\ Len(r) \in Nat /\ 1..(n + 1) = 1..n \cup {n + 1}
  OBVIOUS
<1>1. {list[i] : i \in 1..(n + 1)} = {list[i] : i \in 1..n} \cup {e}
  BY <1>0
<1>2. PICK g \in [1..Len(r) -> 1..n] :
        /\ \A i \in 1..Len(r) : r[i] = list[g[i]]
        /\ \A i, j \in 1..Len(r) : i < j => g[i] < g[j]
  BY DEF Picks, InOrder
<1>3. CASE e \in S
  <2> DEFINE q == Append(r, e)
             h == [i \in 1..(Len(r) + 1) |-> IF i \in 1..Len(r) THEN g[i] ELSE n + 1]
  <2>1. q \in Seq(T) /\ Len(q) = Len(r) + 1 /\ q[Len(r) + 1] = e
        /\ \A i \in 1..Len(r) : q[i] = r[i]
    BY <1>0
  <2>2. ToSet(q) = ToSet(r) \cup {e}
    <3>1. DOMAIN q = 1..Len(r) \cup {Len(r) + 1} /\ DOMAIN r = 1..Len(r)
      BY <1>0, <2>1
    <3> HIDE DEF q, e
    <3> QED BY <2>1, <3>1 DEF ToSet
  <2>3. h \in [1..Len(q) -> 1..(n + 1)]
    BY <1>0, <1>2, <2>1
  <2>4. /\ \A i \in 1..Len(q) : q[i] = list[h[i]]
        /\ \A i, j \in 1..Len(q) : i < j => h[i] < h[j]
    <3>1. \A i \in 1..Len(q) : i \in 1..Len(r) \/ i = Len(r) + 1
      BY <1>0, <2>1
    <3>2. /\ \A i \in 1..Len(r) : h[i] = g[i] /\ g[i] \in Nat /\ g[i] <= n
          /\ h[Len(r) + 1] = n + 1 /\ ~ (Len(r) + 1 \in 1..Len(r))
          /\ \A i \in 1..Len(r) : ~ (Len(r) + 1 < i)
      <4>1. \A i \in 1..Len(r) : g[i] \in 1..n /\ h[i] = g[i] /\ ~ (Len(r) + 1 < i)
        BY <1>0, <1>2
      <4>2. Len(r) + 1 \in 1..(Len(r) + 1) /\ ~ (Len(r) + 1 \in 1..Len(r))
        BY <1>0
      <4>3. h[Len(r) + 1] = n + 1
        BY <4>2
      <4> HIDE DEF h
      <4> QED BY <4>1, <4>2, <4>3
    <3> HIDE DEF q, h
    <3>3. \A i \in 1..Len(q) : q[i] = list[h[i]]
      BY <1>2, <2>1, <3>1, <3>2
    <3>4. ASSUME NEW i \in 1..Len(q), NEW j \in 1..Len(q), i < j
          PROVE  h[i] < h[j]
      <4>1. /\ i \in 1..Len(r) \/ i = Len(r) + 1
            /\ j \in 1..Len(r) \/ j = Len(r) + 1
        BY <3>1
      <4>2. ~ (Len(r) + 1 < Len(r) + 1)
        BY <1>0
      <4>3. i \in 1..Len(r)
        BY <3>2, <3>4, <4>1, <4>2
      <4>4. CASE j \in 1..Len(r)
        <5>1. g[i] < g[j]
          BY <1>2, <3>4, <4>3, <4>4
        <5> QED BY <3>2, <4>3, <4>4, <5>1
      <4>5. CASE j = Len(r) + 1
        <5>1. h[i] \in Nat /\ h[i] <= n /\ h[j] = n + 1
          BY <3>2, <4>3, <4>5
        <5> QED BY <5>1
      <4> QED BY <4>1, <4>4, <4>5
    <3> QED BY <3>3, <3>4
  <2>5. InOrder(q, list, n + 1)
    <3> HIDE DEF q, h
    <3> QED BY <2>3, <2>4 DEF InOrder
  <2>6. ToSet(q) = {list[i] : i \in 1..(n + 1)} \cap S
    BY <1>1, <1>3, <2>2 DEF Picks
  <2>7. Len(q) <= n + 1 /\ ((\E i \in 1..(n + 1) : list[i] \notin S) => Len(q) < n + 1)
    <3> HIDE DEF q
    <3> QED BY <1>0, <1>3, <2>1 DEF Picks
  <2> HIDE DEF q
  <2>8. Picks(q, list, S, n + 1)
    BY <2>5, <2>6, <2>7 DEF Picks
  <2> QED BY <1>3, <2>1, <2>8 DEF q
<1>4. CASE e \notin S
  <2>1. ToSet(r) = {list[i] : i \in 1..(n + 1)} \cap S
    BY <1>1, <1>4 DEF Picks
  <2>2. Len(r) < n + 1
    BY <1>0 DEF Picks
  <2>3. InOrder(r, list, n + 1)
    <3>1. g \in [1..Len(r) -> 1..(n + 1)]
      BY <1>2
    <3> QED BY <1>2, <3>1 DEF InOrder
  <2>4. Picks(r, list, S, n + 1)
    BY <2>1, <2>2, <2>3 DEF Picks
  <2> QED BY <1>4, <2>4
<1> QED BY <1>3, <1>4

(* Every prefix is filtered into its part of S, in order: by induction on its length. *)
LEMMA AmongRuns ==
  ASSUME NEW T, NEW list \in Seq(T), NEW S
  PROVE  \E left \in [0..Len(list) -> Seq(T)] :
            \A m \in 0..Len(list) : /\ left[m] = AmongStep(list, S, left, m)
                            /\ Picks(left[m], list, S, m)
<1> DEFINE Runs(n) == {left \in [0..n -> Seq(T)] :
                         \A m \in 0..n : /\ left[m] = AmongStep(list, S, left, m)
                                         /\ Picks(left[m], list, S, m)}
           N == {n \in Nat : n <= Len(list) => Runs(n) # {}}
<1>1. 0 \in N
  <2> DEFINE left == [m \in 0..0 |-> <<>>]
  <2>1. left \in [0..0 -> Seq(T)]
    OBVIOUS
  <2>2. left[0] = AmongStep(list, S, left, 0) /\ Picks(left[0], list, S, 0)
    BY PicksNothing DEF AmongStep
  <2>3. \A m \in 0..0 : m = 0
    OBVIOUS
  <2> HIDE DEF left
  <2>4. left \in Runs(0)
    BY <2>1, <2>2, <2>3
  <2> QED BY <2>4
<1>2. ASSUME NEW n \in Nat, n \in N PROVE n + 1 \in N
  <2> HIDE DEF Runs
  <2> SUFFICES ASSUME n + 1 <= Len(list) PROVE Runs(n + 1) # {}
    OBVIOUS
  <2>0. n <= Len(list) /\ Len(list) \in Nat /\ Runs(n) # {}
    BY <1>2
  <2> USE DEF Runs
  <2>1. PICK left \in [0..n -> Seq(T)] :
          \A m \in 0..n : /\ left[m] = AmongStep(list, S, left, m)
                          /\ Picks(left[m], list, S, m)
    BY <2>0
  <2> DEFINE q == IF list[n + 1] \in S THEN Append(left[n], list[n + 1]) ELSE left[n]
             next == [m \in 0..(n + 1) |-> IF m \in 0..n THEN left[m] ELSE q]
  <2>2. q \in Seq(T) /\ Picks(q, list, S, n + 1)
    BY <2>1, PicksNext
  <2>3. next \in [0..(n + 1) -> Seq(T)]
    <3> HIDE DEF q
    <3> QED BY <2>1, <2>2
  <2>4. \A m \in 0..n : next[m] = left[m]
    OBVIOUS
  <2>5. next[n + 1] = q
    OBVIOUS
  <2>6. ASSUME NEW m \in 0..n PROVE AmongStep(list, S, next, m) = left[m]
    <3>1. m = 0 \/ m - 1 \in 0..n
      OBVIOUS
    <3>2. AmongStep(list, S, next, m) = AmongStep(list, S, left, m)
      <4> HIDE DEF next
      <4> QED BY <2>4, <3>1 DEF AmongStep
    <3> QED BY <2>1, <3>2
  <2>7. AmongStep(list, S, next, n + 1) = q
    <3>1. n + 1 # 0 /\ (n + 1) - 1 = n /\ next[n] = left[n]
      BY <2>4
    <3> HIDE DEF next
    <3> QED BY <3>1 DEF AmongStep
  <2> HIDE DEF q, next
  <2>8. ASSUME NEW m \in 0..(n + 1)
        PROVE  next[m] = AmongStep(list, S, next, m) /\ Picks(next[m], list, S, m)
    <3>1. CASE m \in 0..n
      BY <2>1, <2>4, <2>6, <3>1
    <3>2. CASE m = n + 1
      BY <2>2, <2>5, <2>7, <3>2
    <3> QED BY <3>1, <3>2
  <2> QED BY <2>3, <2>8
<1>3. Len(list) \in N
  <2> HIDE DEF N
  <2> QED BY <1>1, <1>2, AllNaturals
<1> QED BY <1>3

(* What is left of a list is what the list and S have in common, in the list's order. *)
LEMMA AmongIsPart ==
  ASSUME NEW T, NEW list \in Seq(T), NEW S
  PROVE  /\ Among(list, S) \in Seq(T)
         /\ ToSet(Among(list, S)) = ToSet(list) \cap S
         /\ Len(Among(list, S)) <= Len(list)
         /\ (\E x \in ToSet(list) : x \notin S) => Len(Among(list, S)) < Len(list)
         /\ InOrder(Among(list, S), list, Len(list))
<1> DEFINE Runs(left) == left = [n \in 0..Len(list) |-> AmongStep(list, S, left, n)]
           run == CHOOSE left : Runs(left)
<1>0. Len(list) \in Nat /\ ToSet(list) = {list[i] : i \in 1..Len(list)}
  BY DEF ToSet
<1>1. PICK left \in [0..Len(list) -> Seq(T)] :
        \A m \in 0..Len(list) : /\ left[m] = AmongStep(list, S, left, m)
                                /\ Picks(left[m], list, S, m)
  BY <1>0, AmongRuns
<1>2. Runs(left)
  BY <1>1
<1>3. Runs(run)
  <2> HIDE DEF Runs
  <2> QED BY <1>2, Zenon
<1>4. \A m \in 0..Len(list) : run[m] = AmongStep(list, S, run, m)
  <2> HIDE DEF run
  <2> QED BY <1>3
<1> DEFINE N == {n \in Nat : n <= Len(list) => run[n] = left[n]}
<1>5. 0 \in N
  <2> HIDE DEF run
  <2> QED BY <1>0, <1>1, <1>4 DEF AmongStep
<1>6. ASSUME NEW n \in Nat, n \in N PROVE n + 1 \in N
  <2> SUFFICES ASSUME n + 1 <= Len(list) PROVE run[n + 1] = left[n + 1]
    OBVIOUS
  <2> HIDE DEF run
  <2>1. run[n] = left[n] /\ n + 1 \in 0..Len(list) /\ (n + 1) - 1 = n /\ n + 1 # 0
    BY <1>0, <1>6
  <2>2. AmongStep(list, S, run, n + 1) = AmongStep(list, S, left, n + 1)
    BY <2>1 DEF AmongStep
  <2> QED BY <1>1, <1>4, <2>1, <2>2
<1>7. Len(list) \in N
  <2> HIDE DEF N
  <2> QED BY <1>0, <1>5, <1>6, AllNaturals
<1>8. Among(list, S) = left[Len(list)]
  <2>1. Among(list, S) = run[Len(list)]
    BY AmongUnfold
  <2> HIDE DEF run
  <2> QED BY <1>0, <1>7, <2>1
<1>9. /\ Among(list, S) \in Seq(T)
      /\ Picks(Among(list, S), list, S, Len(list))
  BY <1>0, <1>1, <1>8
<1> QED BY <1>0, <1>9 DEF Picks

-----------------------------------------------------------------------------
(* The map of lists: one list per recipient, in order of arrival, a packet once. *)

Lists == [to : Recipients, list : Seq(Custody!Entry)]

Ordered(list) ==
  \A j, k \in 1..Len(list) :
     j < k => list[j].storedAt <= list[k].storedAt /\ list[j].packet # list[k].packet

Filed(b) == \A e \in ToSet(b.list) : To[e.packet] = b.to

Shaped(B) ==
  /\ B \in Seq(Lists)
  /\ \A i \in 1..Len(B) : Ordered(B[i].list) /\ Filed(B[i])
  /\ \A i, j \in 1..Len(B) : B[i].to = B[j].to => i = j

Settled(B) == Shaped(B) /\ \A i \in 1..Len(B) : B[i].list # <<>>

(* The entries of a list stand at its places. *)
LEMMA MembersOf ==
  ASSUME NEW T, NEW list \in Seq(T)
  PROVE  /\ ToSet(list) = {list[j] : j \in 1..Len(list)}
         /\ ToSet(list) \subseteq T /\ IsFiniteSet(ToSet(list))
         /\ (ToSet(list) = {} <=> list = <<>>) /\ Len(list) \in Nat
         /\ DOMAIN list = 1..Len(list)
<1>1. ToSet(list) = {list[j] : j \in 1..Len(list)} /\ Len(list) \in Nat /\ DOMAIN list = 1..Len(list)
  BY DEF ToSet
<1>2. IsFiniteSet(1..Len(list))
  BY <1>1, FS_Interval
<1>3. IsFiniteSet({list[j] : j \in DOMAIN list})
  BY <1>1, <1>2, ImageIsFinite
<1>4. ToSet(list) = {} <=> list = <<>>
  BY <1>1
<1>5. \A j \in 1..Len(list) : list[j] \in T
  BY <1>1
<1>6. ToSet(list) \subseteq T
  BY <1>1, <1>5
<1>7. {list[j] : j \in DOMAIN list} = ToSet(list)
  BY DEF ToSet
<1>8. IsFiniteSet(ToSet(list))
  BY <1>3, <1>7
<1> QED BY <1>1, <1>4, <1>6, <1>8

(* The lists of the map stand at its places. *)
LEMMA ListsOf ==
  ASSUME NEW B, Shaped(B), NEW i \in 1..Len(B)
  PROVE  /\ B[i] \in Lists /\ B[i].list \in Seq(Custody!Entry) /\ B[i].to \in Recipients
         /\ B[i] = [to |-> B[i].to, list |-> B[i].list]
<1>1. B[i] \in Lists
  BY DEF Shaped
<1> QED BY <1>1 DEF Lists

(* The entries carried are those of some list. *)
LEMMA EntriesOf ==
  ASSUME NEW B, Shaped(B)
  PROVE  /\ Entries(B) = UNION {ToSet(B[i].list) : i \in 1..Len(B)}
         /\ Len(B) \in Nat /\ DOMAIN B = 1..Len(B)
<1>1. Len(B) \in Nat /\ DOMAIN B = 1..Len(B)
  BY DEF Shaped
<1> QED BY <1>1 DEF Entries

(* What the lists carry is a finite set of entries. *)
LEMMA EntriesAreSized ==
  ASSUME NEW B, Shaped(B)
  PROVE  Sized(Entries(B)) /\ Entries(B) \subseteq Custody!Entry
<1> DEFINE part == [i \in 1..Len(B) |-> ToSet(B[i].list)]
           parts == {part[i] : i \in 1..Len(B)}
<1>1. Entries(B) = UNION parts /\ Len(B) \in Nat
  BY EntriesOf
<1>2. \A i \in 1..Len(B) : part[i] \subseteq Custody!Entry /\ IsFiniteSet(part[i])
  <2> SUFFICES ASSUME NEW i \in 1..Len(B)
               PROVE  part[i] \subseteq Custody!Entry /\ IsFiniteSet(part[i])
    OBVIOUS
  <2>1. B[i].list \in Seq(Custody!Entry)
    BY ListsOf
  <2>2. ToSet(B[i].list) \subseteq Custody!Entry /\ IsFiniteSet(ToSet(B[i].list))
    BY <2>1, MembersOf
  <2> QED BY <2>2
<1>3. IsFiniteSet(parts)
  <2>1. IsFiniteSet(1..Len(B)) /\ DOMAIN part = 1..Len(B)
    BY <1>1, FS_Interval
  <2> HIDE DEF part
  <2> QED BY <2>1, ImageIsFinite
<1>4. \A P \in parts : P \subseteq Custody!Entry /\ IsFiniteSet(P)
  BY <1>2
<1> HIDE DEF parts
<1>5. IsFiniteSet(UNION parts) /\ UNION parts \subseteq Custody!Entry
  BY <1>3, <1>4, FS_UNION
<1> QED BY <1>1, <1>5 DEF Sized, Custody!Entry

(* An entry carried stands in some list, under its recipient. *)
LEMMA ListOfEntry ==
  ASSUME NEW B, Shaped(B), NEW e \in Entries(B)
  PROVE  \E i \in 1..Len(B) : \E j \in 1..Len(B[i].list) :
            e = B[i].list[j] /\ To[e.packet] = B[i].to
<1>1. PICK i \in 1..Len(B) : e \in ToSet(B[i].list)
  BY EntriesOf
<1>2. B[i].list \in Seq(Custody!Entry) /\ Filed(B[i])
  BY ListsOf DEF Shaped
<1>3. PICK j \in 1..Len(B[i].list) : e = B[i].list[j]
  BY <1>1, <1>2, MembersOf
<1> QED BY <1>1, <1>2, <1>3 DEF Filed

(* An entry of a list is carried. *)
LEMMA EntryOfList ==
  ASSUME NEW B, Shaped(B), NEW i \in 1..Len(B), NEW j \in 1..Len(B[i].list)
  PROVE  B[i].list[j] \in Entries(B) /\ B[i].list[j] \in ToSet(B[i].list)
<1>1. B[i].list \in Seq(Custody!Entry)
  BY ListsOf
<1>2. B[i].list[j] \in ToSet(B[i].list)
  BY <1>1, MembersOf
<1> QED BY <1>2, EntriesOf

(* A packet is in one list, and there once. *)
LEMMA PacketsAreUnique ==
  ASSUME NEW B, Shaped(B), NEW x \in Entries(B), NEW y \in Entries(B), x.packet = y.packet
  PROVE  x = y
<1>1. PICK i \in 1..Len(B) : \E j \in 1..Len(B[i].list) : x = B[i].list[j] /\ To[x.packet] = B[i].to
  BY ListOfEntry
<1>2. PICK k \in 1..Len(B) : \E j \in 1..Len(B[k].list) : y = B[k].list[j] /\ To[y.packet] = B[k].to
  BY ListOfEntry
<1>3. i = k
  BY <1>1, <1>2 DEF Shaped
<1>4. PICK j \in 1..Len(B[i].list) : x = B[i].list[j]
  BY <1>1
<1>5. PICK l \in 1..Len(B[i].list) : y = B[i].list[l]
  BY <1>2, <1>3
<1>6. j = l
  <2>1. j \in Int /\ l \in Int /\ Ordered(B[i].list)
    BY DEF Shaped
  <2> QED BY <1>4, <1>5, <2>1 DEF Ordered
<1> QED BY <1>4, <1>5, <1>6

(* A list thinned out stays ordered. *)
LEMMA PartStaysOrdered ==
  ASSUME NEW list \in Seq(Custody!Entry), Ordered(list),
         NEW r \in Seq(Custody!Entry), InOrder(r, list, Len(list))
  PROVE  Ordered(r) /\ ToSet(r) \subseteq ToSet(list)
<1>1. PICK g \in [1..Len(r) -> 1..Len(list)] :
        /\ \A i \in 1..Len(r) : r[i] = list[g[i]]
        /\ \A i, j \in 1..Len(r) : i < j => g[i] < g[j]
  BY DEF InOrder
<1>2. Ordered(r)
  <2> SUFFICES ASSUME NEW j \in 1..Len(r), NEW k \in 1..Len(r), j < k
               PROVE  r[j].storedAt <= r[k].storedAt /\ r[j].packet # r[k].packet
    BY DEF Ordered
  <2>1. g[j] \in 1..Len(list) /\ g[k] \in 1..Len(list) /\ g[j] < g[k]
    BY <1>1
  <2>2. r[j] = list[g[j]] /\ r[k] = list[g[k]]
    BY <1>1
  <2> QED BY <2>1, <2>2 DEF Ordered
<1>3. ToSet(r) = {r[j] : j \in 1..Len(r)} /\ ToSet(list) = {list[j] : j \in 1..Len(list)}
  BY MembersOf
<1> QED BY <1>1, <1>2, <1>3

(* Lists may be thinned out in place. *)
LEMMA ThinnedIsShaped ==
  ASSUME NEW B, Shaped(B), NEW C \in Seq(Lists), Len(C) = Len(B),
         \A i \in 1..Len(B) : C[i].to = B[i].to /\ InOrder(C[i].list, B[i].list, Len(B[i].list))
  PROVE  Shaped(C)
<1>1. ASSUME NEW i \in 1..Len(C) PROVE Ordered(C[i].list) /\ Filed(C[i])
  <2>0. C[i] \in Lists
    OBVIOUS
  <2>1. C[i].list \in Seq(Custody!Entry)
    BY <2>0 DEF Lists
  <2>2. B[i].list \in Seq(Custody!Entry) /\ Ordered(B[i].list) /\ Filed(B[i])
    BY ListsOf DEF Shaped
  <2>3. Ordered(C[i].list) /\ ToSet(C[i].list) \subseteq ToSet(B[i].list)
    BY <2>1, <2>2, PartStaysOrdered
  <2> QED BY <2>2, <2>3 DEF Filed
<1> QED BY <1>1 DEF Shaped

(* Whole lists may go. *)
LEMMA FewerListsAreShaped ==
  ASSUME NEW B, Shaped(B), NEW S
  PROVE  /\ Shaped(Among(B, S)) /\ Len(Among(B, S)) <= Len(B)
         /\ (\E b \in ToSet(B) : b \notin S) => Len(Among(B, S)) < Len(B)
         /\ Entries(Among(B, S)) = UNION {ToSet(b.list) : b \in ToSet(B) \cap S}
         /\ \A i \in 1..Len(Among(B, S)) : Among(B, S)[i] \in S
<1> DEFINE C == Among(B, S)
<1>1. /\ C \in Seq(Lists) /\ ToSet(C) = ToSet(B) \cap S /\ Len(C) <= Len(B)
      /\ (\E b \in ToSet(B) : b \notin S) => Len(C) < Len(B)
      /\ InOrder(C, B, Len(B))
  BY AmongIsPart DEF Shaped
<1> HIDE DEF C
<1>2. PICK g \in [1..Len(C) -> 1..Len(B)] :
        /\ \A i \in 1..Len(C) : C[i] = B[g[i]]
        /\ \A i, j \in 1..Len(C) : i < j => g[i] < g[j]
  BY <1>1 DEF InOrder
<1>3. ASSUME NEW i \in 1..Len(C), NEW j \in 1..Len(C), C[i].to = C[j].to PROVE i = j
  <2>1. g[i] = g[j]
    BY <1>2, <1>3 DEF Shaped
  <2>2. i \in Int /\ j \in Int
    BY <1>1
  <2>3. ~ (g[i] < g[j]) /\ ~ (g[j] < g[i])
    BY <1>2, <2>1
  <2> QED BY <1>2, <2>2, <2>3
<1>4. \A i \in 1..Len(C) : Ordered(C[i].list) /\ Filed(C[i])
  BY <1>2 DEF Shaped
<1>5. Shaped(C)
  BY <1>1, <1>3, <1>4 DEF Shaped
<1>6. ToSet(C) = {C[j] : j \in 1..Len(C)}
  BY <1>1, MembersOf
<1>7. Entries(C) = UNION {ToSet(C[i].list) : i \in 1..Len(C)}
  BY <1>5, EntriesOf
<1>8. Entries(C) = UNION {ToSet(b.list) : b \in ToSet(C)}
  BY <1>6, <1>7
<1>9. \A i \in 1..Len(C) : C[i] \in S
  BY <1>1, <1>6
<1> QED BY <1>1, <1>5, <1>8, <1>9 DEF C

(* Dropping the empty lists loses no entry. *)
LEMMA NonEmptyIsSettled ==
  ASSUME NEW B, Shaped(B)
  PROVE  /\ Settled(NonEmpty(B)) /\ Entries(NonEmpty(B)) = Entries(B)
         /\ Len(NonEmpty(B)) <= Len(B)
<1> DEFINE S == {b \in ToSet(B) : b.list # <<>>}
<1>1. /\ Shaped(NonEmpty(B)) /\ Len(NonEmpty(B)) <= Len(B)
      /\ Entries(NonEmpty(B)) = UNION {ToSet(b.list) : b \in ToSet(B) \cap S}
      /\ \A i \in 1..Len(NonEmpty(B)) : NonEmpty(B)[i] \in S
  BY FewerListsAreShaped DEF NonEmpty
<1>2. Settled(NonEmpty(B))
  BY <1>1 DEF Settled
<1>3. ToSet(B) = {B[i] : i \in 1..Len(B)} /\ ToSet(B) \subseteq Lists
  BY MembersOf DEF Shaped
<1>4. \A b \in ToSet(B) : b \notin S => ToSet(b.list) = {}
  BY <1>3, MembersOf DEF Lists
<1>5. Entries(B) = UNION {ToSet(b.list) : b \in ToSet(B)}
  BY <1>3, EntriesOf
<1>6. UNION {ToSet(b.list) : b \in ToSet(B)} = UNION {ToSet(b.list) : b \in ToSet(B) \cap S}
  <2> HIDE DEF S
  <2> QED BY <1>4
<1> QED BY <1>1, <1>2, <1>5, <1>6

-----------------------------------------------------------------------------
(* One pass of the bookkeeping: the running total is what the lists hold. *)

Accounted(s) == Settled(s.buckets) /\ s.bytes = Custody!BytesOf(Entries(s.buckets))

(* removeWhere leaves the entries in kept, and charges and reports the others. *)
LEMMA SweepKeeps ==
  ASSUME NEW s, Accounted(s), NEW kept, NEW why
  PROVE  LET t == Sweep(s, kept, why)
         IN  /\ Accounted(t) /\ Len(t.buckets) <= Len(s.buckets)
             /\ Entries(t.buckets) = Entries(s.buckets) \cap kept
             /\ t.out = s.out \cup Custody!Leaving(Entries(s.buckets) \ kept, why)
             /\ t.bytes <= s.bytes
<1> DEFINE B == s.buckets
           C == [i \in DOMAIN B |-> [B[i] EXCEPT !.list = Among(@, kept)]]
           t == Sweep(s, kept, why)
<1>1. Shaped(B) /\ Len(B) \in Nat /\ DOMAIN B = 1..Len(B)
  BY EntriesOf DEF Accounted, Settled
<1>2. /\ t.buckets = NonEmpty(C)
      /\ t.bytes = s.bytes - Custody!BytesOf(Entries(B) \ kept)
      /\ t.out = s.out \cup Custody!Leaving(Entries(B) \ kept, why)
  BY DEF Sweep
<1> HIDE DEF B, t
<1>3. ASSUME NEW i \in 1..Len(B)
      PROVE  /\ C[i] \in Lists /\ C[i].to = B[i].to
             /\ InOrder(C[i].list, B[i].list, Len(B[i].list))
             /\ ToSet(C[i].list) = ToSet(B[i].list) \cap kept
  <2>1. B[i].list \in Seq(Custody!Entry) /\ B[i].to \in Recipients
        /\ B[i] = [to |-> B[i].to, list |-> B[i].list]
    BY <1>1, ListsOf
  <2>2. C[i] = [to |-> B[i].to, list |-> Among(B[i].list, kept)]
    BY <1>1, <2>1
  <2>3. /\ Among(B[i].list, kept) \in Seq(Custody!Entry)
        /\ ToSet(Among(B[i].list, kept)) = ToSet(B[i].list) \cap kept
        /\ InOrder(Among(B[i].list, kept), B[i].list, Len(B[i].list))
    BY <2>1, AmongIsPart
  <2> HIDE DEF C
  <2> QED BY <2>1, <2>2, <2>3 DEF Lists
<1>4. C \in Seq(Lists) /\ Len(C) = Len(B)
  <2>1. C \in [1..Len(B) -> Lists]
    BY <1>1, <1>3
  <2> HIDE DEF C
  <2> QED BY <1>1, <2>1
<1> HIDE DEF C
<1>5. Shaped(C)
  BY <1>1, <1>3, <1>4, ThinnedIsShaped
<1>6. Entries(C) = Entries(B) \cap kept
  <2>1. /\ Entries(C) = UNION {ToSet(C[i].list) : i \in 1..Len(B)}
        /\ Entries(B) = UNION {ToSet(B[i].list) : i \in 1..Len(B)}
    BY <1>1, <1>4, <1>5, EntriesOf
  <2> QED BY <1>3, <2>1
<1>7. Settled(t.buckets) /\ Entries(t.buckets) = Entries(B) \cap kept /\ Len(t.buckets) <= Len(B)
  BY <1>2, <1>4, <1>5, <1>6, NonEmptyIsSettled
<1>8. /\ Custody!BytesOf(Entries(B)) = Custody!BytesOf(Entries(B) \cap kept)
                                         + Custody!BytesOf(Entries(B) \ kept)
      /\ Custody!BytesOf(Entries(B) \cap kept) \in Nat
      /\ Custody!BytesOf(Entries(B) \ kept) \in Nat
  <2>1. Sized(Entries(B)) /\ Entries(B) \cap kept \in SUBSET Entries(B)
        /\ Entries(B) \ (Entries(B) \cap kept) = Entries(B) \ kept
    BY <1>1, EntriesAreSized
  <2>2. /\ Custody!BytesOf(Entries(B)) = Custody!BytesOf(Entries(B) \cap kept)
                              + Custody!BytesOf(Entries(B) \ (Entries(B) \cap kept))
        /\ Custody!BytesOf(Entries(B) \cap kept) \in Nat
        /\ Custody!BytesOf(Entries(B) \ (Entries(B) \cap kept)) \in Nat
    BY <2>1, BytesSplit
  <2> QED BY <2>1, <2>2
<1>9. s.bytes = Custody!BytesOf(Entries(B))
  BY DEF Accounted, B
<1>10. t.bytes = Custody!BytesOf(Entries(t.buckets)) /\ t.bytes <= s.bytes
  BY <1>2, <1>7, <1>8, <1>9
<1> QED BY <1>2, <1>7, <1>10 DEF Accounted, B, t

(* The scan of the heads finds the oldest entry of all the lists. *)
LEMMA OldestHead ==
  ASSUME NEW B, Settled(B), B # <<>>
  PROVE  LET k == OldestBucket(B)
         IN  /\ k \in 1..Len(B) /\ 1 \in 1..Len(B[k].list)
             /\ B[k].list[1] \in Entries(B)
             /\ \A e \in Entries(B) : B[k].list[1].storedAt <= e.storedAt
<1> DEFINE heads == {B[i].list[1].storedAt : i \in 1..Len(B)}
           I == {i \in 1..Len(B) :
                   \A j \in DOMAIN B : B[i].list[1].storedAt <= B[j].list[1].storedAt}
<1>0. Shaped(B) /\ Len(B) \in Nat \ {0} /\ DOMAIN B = 1..Len(B)
  <2>1. Shaped(B) /\ B \in Seq(Lists)
    BY DEF Settled, Shaped
  <2>2. Len(B) # 0
    BY <2>1
  <2> QED BY <2>1, <2>2
<1>1. ASSUME NEW i \in 1..Len(B)
      PROVE  /\ 1 \in 1..Len(B[i].list) /\ B[i].list[1] \in Custody!Entry
             /\ B[i].list[1].storedAt \in Nat
             /\ \A j \in 1..Len(B[i].list) : B[i].list[1].storedAt <= B[i].list[j].storedAt
  <2>1. B[i].list \in Seq(Custody!Entry) /\ B[i].list # <<>> /\ Ordered(B[i].list)
    BY <1>0, ListsOf DEF Settled, Shaped
  <2>2. 1 \in 1..Len(B[i].list)
    BY <2>1
  <2>3. B[i].list[1] \in Custody!Entry
    BY <2>1, <2>2
  <2>4. B[i].list[1].storedAt \in Nat
    BY <2>3, PacketAssumption, BoundAssumption DEF Custody!Entry
  <2>5. \A j \in 1..Len(B[i].list) : j = 1 \/ 1 < j
    OBVIOUS
  <2> QED BY <2>1, <2>2, <2>3, <2>4, <2>5 DEF Ordered
<1>2. I # {}
  <2>1. heads \subseteq Nat /\ heads # {}
    BY <1>0, <1>1
  <2> HIDE DEF heads
  <2>2. PICK h \in heads : \A x \in heads : h <= x
    BY <2>1, LeastNatural
  <2> USE DEF heads
  <2>3. PICK i \in 1..Len(B) : h = B[i].list[1].storedAt
    BY <2>2
  <2> QED BY <1>0, <2>2, <2>3
<1>3. OldestBucket(B) = CHOOSE x \in I : \A y \in I : x <= y
  <2>1. OldestBucket(B) = IF I # {} THEN Min(I) ELSE 0
    BY DEF OldestBucket, SelectInSeq
  <2> HIDE DEF I
  <2> QED BY <1>2, <2>1 DEF Min
<1>4. OldestBucket(B) \in I
  <2>1. I \subseteq Nat
    OBVIOUS
  <2> HIDE DEF I
  <2>2. \E x \in I : \A y \in I : x <= y
    BY <1>2, <2>1, LeastNatural
  <2> QED BY <1>3, <2>2
<1> DEFINE k == OldestBucket(B)
<1>5. k \in 1..Len(B) /\ \A j \in 1..Len(B) : B[k].list[1].storedAt <= B[j].list[1].storedAt
  BY <1>0, <1>4
<1> HIDE DEF k
<1>6. B[k].list[1] \in Entries(B)
  BY <1>0, <1>1, <1>5, EntryOfList
<1>7. ASSUME NEW e \in Entries(B) PROVE B[k].list[1].storedAt <= e.storedAt
  <2>1. PICK i \in 1..Len(B) : \E j \in 1..Len(B[i].list) : e = B[i].list[j]
    BY <1>0, ListOfEntry
  <2>2. B[i].list[1].storedAt <= e.storedAt /\ B[k].list[1].storedAt <= B[i].list[1].storedAt
    BY <1>1, <1>5, <2>1
  <2>3. e.storedAt \in Nat /\ B[k].list[1].storedAt \in Nat /\ B[i].list[1].storedAt \in Nat
    <3>1. e \in Custody!Entry
      BY <1>0, EntriesAreSized
    <3> QED BY <1>1, <1>5, <3>1, PacketAssumption, BoundAssumption DEF Custody!Entry
  <2> QED BY <2>2, <2>3
<1> QED BY <1>1, <1>5, <1>6, <1>7 DEF k

(* Dropping the first entry of a list. *)
LEMMA TailIsInOrder ==
  ASSUME NEW list \in Seq(Custody!Entry), list # <<>>
  PROVE  /\ Tail(list) \in Seq(Custody!Entry) /\ InOrder(Tail(list), list, Len(list))
         /\ Ordered(list) => ToSet(Tail(list)) = ToSet(list) \ {list[1]}
<1> DEFINE r == Tail(list)
           g == [i \in 1..Len(r) |-> i + 1]
<1>1. /\ r \in Seq(Custody!Entry) /\ Len(r) = Len(list) - 1 /\ Len(list) \in Nat \ {0}
      /\ \A i \in 1..Len(r) : r[i] = list[i + 1]
  <2>1. Len(list) \in Nat \ {0}
    OBVIOUS
  <2> QED BY <2>1
<1> HIDE DEF r
<1>2. g \in [1..Len(r) -> 1..Len(list)]
  BY <1>1
<1>3. \A i \in 1..Len(r) : g[i] = i + 1 /\ i \in Int
  BY <1>1
<1>4. InOrder(r, list, Len(list))
  <2> HIDE DEF g
  <2> QED BY <1>1, <1>2, <1>3 DEF InOrder
<1>5. ASSUME Ordered(list) PROVE ToSet(r) = ToSet(list) \ {list[1]}
  <2>1. ToSet(r) = {r[j] : j \in 1..Len(r)} /\ ToSet(list) = {list[j] : j \in 1..Len(list)}
    BY <1>1, MembersOf
  <2>2. \A j \in 1..Len(list) : j = 1 \/ (j - 1 \in 1..Len(r) /\ list[j] = r[j - 1])
    BY <1>1
  <2>3. \A j \in 1..Len(r) : j + 1 \in 1..Len(list) /\ r[j] = list[j + 1] /\ list[j + 1] # list[1]
    <3> SUFFICES ASSUME NEW j \in 1..Len(r)
                 PROVE  j + 1 \in 1..Len(list) /\ list[j + 1] # list[1]
      BY <1>1
    <3>1. j + 1 \in 1..Len(list) /\ 1 \in 1..Len(list) /\ 1 < j + 1
      BY <1>1
    <3> QED BY <1>5, <3>1 DEF Ordered
  <2>4. ASSUME NEW x \in ToSet(r) PROVE x \in ToSet(list) /\ x # list[1]
    <3>1. PICK j \in 1..Len(r) : x = r[j]
      BY <2>1
    <3> QED BY <2>1, <2>3, <3>1
  <2>5. ASSUME NEW x \in ToSet(list), x # list[1] PROVE x \in ToSet(r)
    <3>1. PICK j \in 1..Len(list) : x = list[j]
      BY <2>1
    <3> QED BY <2>1, <2>2, <2>5, <3>1
  <2> QED BY <2>4, <2>5
<1> QED BY <1>1, <1>4, <1>5 DEF r

(* One turn of the eviction loop takes the oldest entry of all. *)
LEMMA ShedOldestTakesOne ==
  ASSUME NEW s, Accounted(s), s.buckets # <<>>
  PROVE  LET t == ShedOldest(s)
         IN  /\ Accounted(t) /\ Len(t.buckets) <= Len(s.buckets)
             /\ \E e \in Entries(s.buckets) :
                  /\ \A x \in Entries(s.buckets) : e.storedAt <= x.storedAt
                  /\ Entries(t.buckets) = Entries(s.buckets) \ {e}
                  /\ t.out = s.out \cup {<<e.packet, "evictedTotal">>}
<1> DEFINE B == s.buckets
           k == OldestBucket(B)
           e == B[k].list[1]
           C == [B EXCEPT ![k].list = Tail(@)]
           t == ShedOldest(s)
<1>1. /\ Shaped(B) /\ Len(B) \in Nat /\ DOMAIN B = 1..Len(B) /\ B \in Seq(Lists)
      /\ k \in 1..Len(B) /\ 1 \in 1..Len(B[k].list) /\ e \in Entries(B)
      /\ \A x \in Entries(B) : e.storedAt <= x.storedAt
  BY EntriesOf, OldestHead DEF Accounted, Settled, Shaped
<1>2. /\ t.buckets = NonEmpty(C)
      /\ t.bytes = s.bytes - Size[e.packet]
      /\ t.out = s.out \cup {<<e.packet, "evictedTotal">>}
  <2>1. Head(B[k].list) = B[k].list[1]
    OBVIOUS
  <2> QED BY <2>1 DEF ShedOldest
<1> HIDE DEF B, k, t
<1>3. /\ B[k].list \in Seq(Custody!Entry) /\ B[k].list # <<>> /\ Ordered(B[k].list)
      /\ B[k].to \in Recipients /\ B[k] = [to |-> B[k].to, list |-> B[k].list]
  <2>1. /\ B[k].list \in Seq(Custody!Entry) /\ B[k].to \in Recipients
        /\ B[k] = [to |-> B[k].to, list |-> B[k].list]
    BY <1>1, ListsOf
  <2>2. Len(B[k].list) # 0
    BY <1>1
  <2>3. Len(<<>>) = 0
    OBVIOUS
  <2>4. Ordered(B[k].list)
    BY <1>1 DEF Shaped
  <2> QED BY <2>1, <2>2, <2>3, <2>4
<1>4. /\ Tail(B[k].list) \in Seq(Custody!Entry)
      /\ InOrder(Tail(B[k].list), B[k].list, Len(B[k].list))
      /\ ToSet(Tail(B[k].list)) = ToSet(B[k].list) \ {e}
  BY <1>3, TailIsInOrder
<1>5. /\ DOMAIN C = 1..Len(B)
      /\ C[k] = [to |-> B[k].to, list |-> Tail(B[k].list)]
      /\ \A i \in 1..Len(B) : i # k => C[i] = B[i]
  BY <1>1, <1>3
<1> HIDE DEF C
<1>6. ASSUME NEW i \in 1..Len(B)
      PROVE  /\ C[i] \in Lists /\ C[i].to = B[i].to
             /\ InOrder(C[i].list, B[i].list, Len(B[i].list))
             /\ ToSet(C[i].list) = ToSet(B[i].list) \ {e}
  <2>1. CASE i = k
    <3>1. C[i].to = B[k].to /\ C[i].list = Tail(B[k].list)
      BY <1>5, <2>1
    <3>2. C[i] \in Lists
      BY <1>3, <1>4, <1>5, <2>1 DEF Lists
    <3> QED BY <1>4, <2>1, <3>1, <3>2
  <2>2. CASE i # k
    <3>1. B[i].list \in Seq(Custody!Entry) /\ B[i] \in Lists /\ C[i] = B[i]
      BY <1>1, <1>5, <2>2, ListsOf
    <3>2. InOrder(B[i].list, B[i].list, Len(B[i].list))
      <4> DEFINE g == [j \in 1..Len(B[i].list) |-> j]
      <4>1. g \in [1..Len(B[i].list) -> 1..Len(B[i].list)]
        OBVIOUS
      <4> QED BY <4>1 DEF InOrder
    <3>3. e \notin ToSet(B[i].list)
      <4> SUFFICES ASSUME e \in ToSet(B[i].list) PROVE FALSE
        OBVIOUS
      <4>1. To[e.packet] = B[i].to
        BY <1>1 DEF Shaped, Filed
      <4>2. e \in ToSet(B[k].list)
        BY <1>1, EntryOfList
      <4>3. To[e.packet] = B[k].to
        BY <1>1, <4>2 DEF Shaped, Filed
      <4> QED BY <1>1, <2>2, <4>1, <4>3 DEF Shaped
    <3> QED BY <3>1, <3>2, <3>3
  <2> QED BY <2>1, <2>2
<1>7. C \in Seq(Lists) /\ Len(C) = Len(B)
  <2>1. C = [i \in 1..Len(B) |-> C[i]]
    BY <1>1 DEF C
  <2>2. C \in [1..Len(B) -> Lists]
    BY <1>6, <2>1
  <2> QED BY <1>1, <2>2
<1>8. Shaped(C)
  BY <1>1, <1>6, <1>7, ThinnedIsShaped
<1>9. Entries(C) = Entries(B) \ {e}
  <2>1. /\ Entries(C) = UNION {ToSet(C[i].list) : i \in 1..Len(B)}
        /\ Entries(B) = UNION {ToSet(B[i].list) : i \in 1..Len(B)}
    BY <1>1, <1>7, <1>8, EntriesOf
  <2>2. \A i \in 1..Len(B) : ToSet(C[i].list) = ToSet(B[i].list) \ {e}
    BY <1>6
  <2>3. /\ \A x : x \in Entries(C) <=> \E i \in 1..Len(B) : x \in ToSet(C[i].list)
        /\ \A x : x \in Entries(B) <=> \E i \in 1..Len(B) : x \in ToSet(B[i].list)
    BY <2>1
  <2> HIDE DEF e
  <2>4. ASSUME NEW x \in Entries(C) PROVE x \in Entries(B) /\ x # e
    <3>1. PICK i \in 1..Len(B) : x \in ToSet(C[i].list)
      BY <2>3
    <3>2. x \in ToSet(B[i].list) /\ x # e
      BY <2>2, <3>1
    <3> QED BY <2>3, <3>2
  <2>5. ASSUME NEW x \in Entries(B), x # e PROVE x \in Entries(C)
    <3>1. PICK i \in 1..Len(B) : x \in ToSet(B[i].list)
      BY <2>3
    <3>2. x \in ToSet(C[i].list)
      BY <2>2, <2>5, <3>1
    <3> QED BY <2>3, <3>2
  <2> QED BY <2>4, <2>5
<1>10. Settled(t.buckets) /\ Entries(t.buckets) = Entries(B) \ {e} /\ Len(t.buckets) <= Len(B)
  BY <1>2, <1>7, <1>8, <1>9, NonEmptyIsSettled
<1>11. t.bytes = Custody!BytesOf(Entries(t.buckets))
  <2>1. Sized(Entries(B)) /\ s.bytes = Custody!BytesOf(Entries(B))
    BY <1>1, EntriesAreSized DEF Accounted, B
  <2>2. /\ Custody!BytesOf(Entries(B)) = Size[e.packet] + Custody!BytesOf(Entries(B) \ {e})
        /\ Size[e.packet] \in Nat /\ Custody!BytesOf(Entries(B) \ {e}) \in Nat
    BY <1>1, <2>1, BytesWithout, Without, BytesType
  <2> QED BY <1>2, <1>10, <2>1, <2>2
<1> QED BY <1>1, <1>2, <1>10, <1>11 DEF Accounted, B, t

-----------------------------------------------------------------------------
(* The eviction loop. *)

Turn(t, cap) ==
  IF Custody!OverLowWater(t.bytes, cap) /\ t.buckets # <<>> THEN ShedOldest(t) ELSE t

ShedTurns(after, s, cap, n) ==
  after = [m \in 0..n |-> IF m = 0 THEN s ELSE Turn(after[m - 1], cap)]

(* The eviction loop is a function defined over its turns. *)
LEMMA ShedUnfold ==
  ASSUME NEW s, NEW cap
  PROVE  Shed(s, cap) = (CHOOSE after : ShedTurns(after, s, cap, Cardinality(Entries(s.buckets))))
                            [Cardinality(Entries(s.buckets))]
  BY DEF Shed, ShedTurns, Turn

(* t is what n turns make of s: what is gone is the oldest, and each entry was over the mark. *)
ShedSoFar(t, s, cap, n) ==
  LET all == Entries(s.buckets)
      left == Entries(t.buckets)
      gone == all \ left
  IN  /\ Accounted(t) /\ Len(t.buckets) <= Len(s.buckets) /\ left \subseteq all
      /\ t.out = s.out \cup Custody!Leaving(gone, "evictedTotal")
      /\ \A a \in gone, b \in left : a.storedAt <= b.storedAt
      /\ \/ gone = {}
         \/ \E last \in gone :
              /\ \A a \in gone : a.storedAt <= last.storedAt
              /\ Custody!OverLowWater(Custody!BytesOf(left \cup {last}), cap)
      /\ \/ ~ Custody!OverLowWater(t.bytes, cap)
         \/ left = {}
         \/ Cardinality(left) + n <= Cardinality(all)

(* Nothing is reported of nothing. *)
LEMMA NothingLeaves ==
  ASSUME NEW out, NEW why
  PROVE  out = out \cup Custody!Leaving({}, why)
<1>1. Custody!Leaving({}, why) = {}
  BY DEF Custody!Leaving, Custody!PacketsOf
<1>2. out = out \cup {}
  OBVIOUS
<1> QED BY <1>1, <1>2

(* A map with no list carries nothing. *)
LEMMA NoneLeft ==
  ASSUME NEW B, Settled(B)
  PROVE  B = <<>> <=> Entries(B) = {}
<1>1. Shaped(B) /\ B \in Seq(Lists)
  BY DEF Settled, Shaped
<1>2. ASSUME B = <<>> PROVE Entries(B) = {}
  <2>1. 1..Len(B) = {}
    BY <1>2
  <2> QED BY <1>1, <2>1, EntriesOf
<1>3. ASSUME B # <<>> PROVE Entries(B) # {}
  BY <1>3, OldestHead
<1> QED BY <1>2, <1>3

(* A turn of the eviction loop goes on with what the turns before it did. *)
LEMMA TurnGoesOn ==
  ASSUME NEW s, Accounted(s), NEW cap \in Nat, NEW n \in Nat, NEW t, ShedSoFar(t, s, cap, n)
  PROVE  ShedSoFar(Turn(t, cap), s, cap, n + 1)
<1> DEFINE all == Entries(s.buckets)
           left == Entries(t.buckets)
           gone == all \ left
           over == Custody!OverLowWater(t.bytes, cap)
<1>0. /\ Accounted(t) /\ Len(t.buckets) <= Len(s.buckets) /\ left \subseteq all
      /\ t.out = s.out \cup Custody!Leaving(gone, "evictedTotal")
      /\ \A a \in gone, b \in left : a.storedAt <= b.storedAt
      /\ \/ ~ over
         \/ left = {}
         \/ Cardinality(left) + n <= Cardinality(all)
  BY DEF ShedSoFar
<1>1. CASE over /\ t.buckets # <<>>
  <2> DEFINE u == ShedOldest(t)
             rest == Entries(u.buckets)
  <2>1. Turn(t, cap) = u
    BY <1>1 DEF Turn
  <2>2. PICK e \in left : /\ \A x \in left : e.storedAt <= x.storedAt
                          /\ rest = left \ {e}
                          /\ u.out = t.out \cup {<<e.packet, "evictedTotal">>}
    BY <1>0, <1>1, ShedOldestTakesOne
  <2>3. Accounted(u) /\ Len(u.buckets) <= Len(t.buckets)
    BY <1>0, <1>1, ShedOldestTakesOne
  <2>4. Len(u.buckets) <= Len(s.buckets)
    <3>1. Len(u.buckets) \in Nat /\ Len(t.buckets) \in Nat /\ Len(s.buckets) \in Nat
      BY <1>0, <2>3, EntriesOf DEF Accounted, Settled
    <3> QED BY <1>0, <2>3, <3>1
  <2>5. all \ rest = gone \cup {e} /\ rest \subseteq all /\ rest \cup {e} = left
    BY <1>0, <2>2
  <2>6. u.out = s.out \cup Custody!Leaving(all \ rest, "evictedTotal")
    <3>1. Custody!Leaving(gone \cup {e}, "evictedTotal")
            = Custody!Leaving(gone, "evictedTotal") \cup {<<e.packet, "evictedTotal">>}
      BY DEF Custody!Leaving, Custody!PacketsOf
    <3> HIDE DEF u, rest, gone, all, left
    <3> QED BY <1>0, <2>2, <2>5, <3>1
  <2>7. \A a \in all \ rest, b \in rest : a.storedAt <= b.storedAt
    BY <1>0, <2>2, <2>5
  <2>8. \E last \in all \ rest :
          /\ \A a \in all \ rest : a.storedAt <= last.storedAt
          /\ Custody!OverLowWater(Custody!BytesOf(rest \cup {last}), cap)
    <3>1. \A a \in all \ rest : a.storedAt <= e.storedAt
      BY <1>0, <2>2, <2>5
    <3>2. t.bytes = Custody!BytesOf(left)
      BY <1>0 DEF Accounted
    <3>3. Custody!OverLowWater(Custody!BytesOf(rest \cup {e}), cap)
      BY <1>1, <2>5, <3>2
    <3> QED BY <2>5, <3>1, <3>3
  <2>9. Cardinality(rest) + (n + 1) <= Cardinality(all)
    <3>1. Sized(all) /\ Sized(left)
      BY <1>0, EntriesAreSized DEF Accounted, Settled
    <3>2. Cardinality(rest) = Cardinality(left) - 1
      BY <2>2, <3>1, Without
    <3>3. Cardinality(left) \in Nat /\ Cardinality(all) \in Nat
      BY <1>0, <3>1, PartSized
    <3>4. left # {}
      BY <2>2
    <3> HIDE DEF u, rest, left, all
    <3> QED BY <1>0, <1>1, <3>2, <3>3, <3>4
  <2> HIDE DEF u
  <2> QED BY <2>1, <2>3, <2>4, <2>5, <2>6, <2>7, <2>8, <2>9 DEF ShedSoFar
<1>2. CASE ~ (over /\ t.buckets # <<>>)
  <2>1. Turn(t, cap) = t
    BY <1>2 DEF Turn
  <2>2. ~ over \/ left = {}
    BY <1>0, <1>2, NoneLeft DEF Accounted
  <2> QED BY <2>1, <2>2 DEF ShedSoFar
<1> QED BY <1>1, <1>2

(* However many turns were taken, what they took is no newer than what they left: by induction. *)
LEMMA ShedRuns ==
  ASSUME NEW s, Accounted(s), NEW cap \in Nat, NEW k \in Nat
  PROVE  \E after : ShedTurns(after, s, cap, k) /\ \A m \in 0..k : ShedSoFar(after[m], s, cap, m)
<1> DEFINE Runs(after, n) ==
             ShedTurns(after, s, cap, n) /\ \A m \in 0..n : ShedSoFar(after[m], s, cap, m)
           N == {n \in Nat : \E after : Runs(after, n)}
<1>1. 0 \in N
  <2> DEFINE after == [m \in 0..0 |-> s]
  <2>1. 0..0 = {0}
    OBVIOUS
  <2>2. ShedTurns(after, s, cap, 0)
    BY <2>1 DEF ShedTurns
  <2>3. ShedSoFar(s, s, cap, 0)
    <3> DEFINE all == Entries(s.buckets)
    <3>1. all \ all = {} /\ s.out = s.out \cup Custody!Leaving(all \ all, "evictedTotal")
      <4>1. all \ all = {}
        OBVIOUS
      <4> QED BY <4>1, NothingLeaves
    <3>2. Len(s.buckets) \in Nat /\ Cardinality(all) \in Nat
      BY EntriesOf, EntriesAreSized, PartSized DEF Accounted, Settled
    <3> HIDE DEF all
    <3>3. /\ Len(s.buckets) <= Len(s.buckets) /\ Cardinality(all) + 0 <= Cardinality(all)
      BY <3>2
    <3>4. all \subseteq all /\ \A a \in all \ all, b \in all : a.storedAt <= b.storedAt
      OBVIOUS
    <3> QED BY <3>1, <3>3, <3>4 DEF ShedSoFar, all
  <2>4. Runs(after, 0)
    BY <2>1, <2>2, <2>3
  <2> HIDE DEF Runs
  <2> QED BY <2>4
<1>2. ASSUME NEW n \in Nat, n \in N PROVE n + 1 \in N
  <2>1. PICK after : Runs(after, n)
    BY <1>2
  <2> DEFINE next == [m \in 0..(n + 1) |-> IF m \in 0..n THEN after[m] ELSE Turn(after[n], cap)]
  <2>2. /\ \A m \in 0..n : next[m] = after[m]
        /\ next[n + 1] = Turn(after[n], cap) /\ n \in 0..n
    OBVIOUS
  <2>3. \A m \in 0..n : after[m] = IF m = 0 THEN s ELSE Turn(after[m - 1], cap)
    BY <2>1 DEF ShedTurns
  <2>4. \A m \in 0..(n + 1) : next[m] = IF m = 0 THEN s ELSE Turn(next[m - 1], cap)
    <3> SUFFICES ASSUME NEW m \in 0..(n + 1)
                 PROVE  next[m] = IF m = 0 THEN s ELSE Turn(next[m - 1], cap)
      OBVIOUS
    <3>1. CASE m \in 0..n
      <4>1. m = 0 \/ m - 1 \in 0..n
        BY <3>1
      <4> HIDE DEF next
      <4> QED BY <2>2, <2>3, <3>1, <4>1
    <3>2. CASE m = n + 1
      <4>1. m # 0 /\ m - 1 = n
        BY <3>2
      <4> HIDE DEF next
      <4> QED BY <2>2, <3>2, <4>1
    <3> QED BY <3>1, <3>2
  <2>5. ShedTurns(next, s, cap, n + 1)
    <3>1. next = [m \in 0..(n + 1) |-> next[m]]
      OBVIOUS
    <3> HIDE DEF next
    <3> QED BY <2>4, <3>1 DEF ShedTurns
  <2>6. ShedSoFar(next[n + 1], s, cap, n + 1)
    <3>1. ShedSoFar(after[n], s, cap, n)
      BY <2>1, <2>2
    <3> HIDE DEF next
    <3> QED BY <2>2, <3>1, TurnGoesOn
  <2>7. \A m \in 0..n : ShedSoFar(next[m], s, cap, m)
    <3> HIDE DEF next
    <3> QED BY <2>1, <2>2
  <2>8. \A m \in 0..(n + 1) : m \in 0..n \/ m = n + 1
    OBVIOUS
  <2>9. \A m \in 0..(n + 1) : ShedSoFar(next[m], s, cap, m)
    <3> HIDE DEF next
    <3> QED BY <2>6, <2>7, <2>8
  <2> HIDE DEF next
  <2>10. Runs(next, n + 1)
    BY <2>5, <2>9
  <2> HIDE DEF Runs
  <2> QED BY <2>10
<1>3. k \in N
  <2> HIDE DEF N
  <2> QED BY <1>1, <1>2, AllNaturals
<1> QED BY <1>3

(* After as many turns as there are entries the loop has ended of itself. *)
LEMMA ShedIsLastTurn ==
  ASSUME NEW s, Accounted(s), NEW cap \in Nat
  PROVE  ShedSoFar(Shed(s, cap), s, cap, Cardinality(Entries(s.buckets)))
<1> DEFINE k == Cardinality(Entries(s.buckets))
           run == CHOOSE after : ShedTurns(after, s, cap, k)
<1>0. k \in Nat
  BY EntriesAreSized, PartSized DEF Accounted, Settled
<1>1. Shed(s, cap) = run[k]
  BY ShedUnfold
<1> HIDE DEF k
<1>2. PICK after : ShedTurns(after, s, cap, k) /\ \A m \in 0..k : ShedSoFar(after[m], s, cap, m)
  BY <1>0, ShedRuns
<1>3. ShedTurns(run, s, cap, k)
  BY <1>2, Zenon
<1> HIDE DEF run
<1>4. /\ \A m \in 0..k : after[m] = IF m = 0 THEN s ELSE Turn(after[m - 1], cap)
      /\ \A m \in 0..k : run[m] = IF m = 0 THEN s ELSE Turn(run[m - 1], cap)
  BY <1>2, <1>3 DEF ShedTurns
<1> DEFINE N == {n \in Nat : n <= k => run[n] = after[n]}
<1>5. 0 \in N
  BY <1>0, <1>4
<1>6. ASSUME NEW n \in Nat, n \in N PROVE n + 1 \in N
  <2> SUFFICES ASSUME n + 1 <= k PROVE run[n + 1] = after[n + 1]
    OBVIOUS
  <2>1. run[n] = after[n] /\ n + 1 \in 0..k /\ (n + 1) - 1 = n /\ n + 1 # 0
    BY <1>0, <1>6
  <2>2. after[n + 1] = Turn(after[n], cap) /\ run[n + 1] = Turn(run[n], cap)
    BY <1>4, <2>1
  <2> QED BY <2>1, <2>2
<1>7. run[k] = after[k]
  <2> HIDE DEF N
  <2>1. k \in N
    BY <1>0, <1>5, <1>6, AllNaturals
  <2> QED BY <1>0, <2>1 DEF N
<1>8. k \in 0..k
  BY <1>0
<1>9. ShedSoFar(Shed(s, cap), s, cap, k)
  BY <1>1, <1>2, <1>7, <1>8
<1> QED BY <1>9 DEF k

(* _evictToFit leaves what an oldest-first drain to the low water mark leaves. *)
LEMMA EvictionDrains ==
  ASSUME NEW s, Accounted(s), NEW cap \in Nat
  PROVE  LET t == EvictToFit(s, cap)
         IN  /\ Accounted(t) /\ Len(t.buckets) <= Len(s.buckets)
             /\ Entries(t.buckets) \subseteq Entries(s.buckets)
             /\ Entries(t.buckets) \in Custody!EvictToFit(Entries(s.buckets), cap)
             /\ t.out = s.out \cup Custody!Leaving(Entries(s.buckets) \ Entries(t.buckets), "evictedTotal")
             /\ ~ Custody!OverHighWater(t.bytes, cap)
             /\ \A a \in Entries(s.buckets) \ Entries(t.buckets), b \in Entries(t.buckets) :
                   a.storedAt <= b.storedAt
<1> DEFINE all == Entries(s.buckets)
           t == EvictToFit(s, cap)
           left == Entries(t.buckets)
<1>0. /\ Shaped(s.buckets) /\ Sized(all) /\ s.bytes = Custody!BytesOf(all) /\ s.bytes \in Nat
      /\ Cardinality(all) \in Nat /\ Len(s.buckets) \in Nat
  BY EntriesAreSized, EntriesOf, BytesType, PartSized DEF Accounted, Settled
<1>1. CASE ~ Custody!OverHighWater(s.bytes, cap)
  <2>1. t = s
    BY <1>1 DEF EvictToFit
  <2>2. all \ all = {} /\ s.out = s.out \cup Custody!Leaving(all \ all, "evictedTotal")
    <3>1. all \ all = {}
      OBVIOUS
    <3> QED BY <3>1, NothingLeaves
  <2>3. all \in Custody!EvictToFit(all, cap)
    BY <1>0, <1>1 DEF Custody!EvictToFit
  <2> HIDE DEF t
  <2>4. left = all /\ Len(s.buckets) <= Len(s.buckets)
    BY <1>0, <2>1
  <2> HIDE DEF left, all
  <2>5. /\ Accounted(t) /\ Len(t.buckets) <= Len(s.buckets)
        /\ left \subseteq all /\ left \in Custody!EvictToFit(all, cap)
        /\ t.out = s.out \cup Custody!Leaving(all \ left, "evictedTotal")
        /\ ~ Custody!OverHighWater(t.bytes, cap)
        /\ \A a \in all \ left, b \in left : a.storedAt <= b.storedAt
    BY <1>1, <2>1, <2>2, <2>3, <2>4
  <2> QED BY <2>5 DEF t, left, all
<1>2. CASE Custody!OverHighWater(s.bytes, cap)
  <2>1. ShedSoFar(t, s, cap, Cardinality(all))
    BY <1>2, ShedIsLastTurn DEF EvictToFit
  <2> HIDE DEF t
  <2>2. /\ Accounted(t) /\ Len(t.buckets) <= Len(s.buckets) /\ left \subseteq all
        /\ t.out = s.out \cup Custody!Leaving(all \ left, "evictedTotal")
        /\ \A a \in all \ left, b \in left : a.storedAt <= b.storedAt
        /\ \/ all \ left = {}
           \/ \E last \in all \ left :
                /\ \A a \in all \ left : a.storedAt <= last.storedAt
                /\ Custody!OverLowWater(Custody!BytesOf(left \cup {last}), cap)
        /\ \/ ~ Custody!OverLowWater(t.bytes, cap)
           \/ left = {}
           \/ Cardinality(left) + Cardinality(all) <= Cardinality(all)
    BY <2>1 DEF ShedSoFar
  <2>3. t.bytes = Custody!BytesOf(left) /\ t.bytes \in Nat /\ Cardinality(left) \in Nat
        /\ (Cardinality(left) = 0 <=> left = {})
    BY <1>0, <2>2, BytesType, PartSized DEF Accounted
  <2>4. ~ Custody!OverLowWater(t.bytes, cap)
    <3> SUFFICES ASSUME Custody!OverLowWater(t.bytes, cap) PROVE FALSE
      OBVIOUS
    <3>1. left = {}
      <4> HIDE DEF left, all
      <4> QED BY <1>0, <2>2, <2>3
    <3>2. t.bytes = 0
      BY <2>3, <3>1, BytesOfNone
    <3> QED BY <3>2 DEF Custody!OverLowWater
  <2>5. all \ left # {}
    <3> SUFFICES ASSUME all \ left = {} PROVE FALSE
      OBVIOUS
    <3>1. left = all
      BY <2>2
    <3>2. t.bytes = s.bytes
      BY <1>0, <2>3, <3>1
    <3> QED BY <1>0, <1>2, <2>4, <3>2 DEF Custody!OverLowWater, Custody!OverHighWater
  <2>6. Custody!DrainedTo(left, all, cap)
    <3> HIDE DEF left, all
    <3> QED BY <2>2, <2>3, <2>4, <2>5 DEF Custody!DrainedTo
  <2>7. left \in Custody!EvictToFit(all, cap)
    <3> HIDE DEF left, all
    <3> QED BY <1>0, <1>2, <2>2, <2>6 DEF Custody!EvictToFit
  <2>8. ~ Custody!OverHighWater(t.bytes, cap)
    BY <2>3, <2>4 DEF Custody!OverLowWater, Custody!OverHighWater
  <2> QED BY <2>2, <2>7, <2>8 DEF t
<1> QED BY <1>1, <1>2

-----------------------------------------------------------------------------
(* The recipient cap, and the end of a list. *)

(* The promise counts as the lists do. *)
LEMMA SameCardinality ==
  ASSUME NEW S
  PROVE  Custody!Cardinality(S) = Cardinality(S)
  BY DEF Custody!Cardinality, Cardinality

(* There is a list for every recipient something is carried for, and no other. *)
LEMMA ListsAreCounted ==
  ASSUME NEW B, Settled(B)
  PROVE  Cardinality(Custody!BucketsOf(Entries(B))) = Len(B) /\ Len(B) \in Nat
<1> DEFINE R == Custody!BucketsOf(Entries(B))
           f == [i \in 1..Len(B) |-> B[i].to]
<1>0. Shaped(B) /\ Len(B) \in Nat
  BY EntriesOf DEF Settled
<1>1. \A i \in 1..Len(B) : B[i].to \in R
  <2> SUFFICES ASSUME NEW i \in 1..Len(B) PROVE B[i].to \in R
    OBVIOUS
  <2>1. B[i].list \in Seq(Custody!Entry) /\ B[i].list # <<>> /\ Filed(B[i])
    BY <1>0, ListsOf DEF Settled, Shaped
  <2>2. 1 \in 1..Len(B[i].list)
    BY <2>1
  <2>3. B[i].list[1] \in Entries(B) /\ B[i].list[1] \in ToSet(B[i].list)
    BY <1>0, <2>2, EntryOfList
  <2> QED BY <2>1, <2>3 DEF Custody!BucketsOf, Filed
<1>2. \A r \in R : \E i \in 1..Len(B) : B[i].to = r
  BY <1>0, ListOfEntry DEF Custody!BucketsOf
<1>3. f \in Bijection(1..Len(B), R)
  <2>1. f \in Injection(1..Len(B), R)
    BY <1>0, <1>1 DEF Injection, IsInjective, Shaped
  <2>2. f \in Surjection(1..Len(B), R)
    BY <1>1, <1>2 DEF Surjection
  <2> QED BY <2>1, <2>2 DEF Bijection
<1>4. IsFiniteSet(1..Len(B)) /\ Cardinality(1..Len(B)) = Len(B)
  <2>1. Cardinality(1..Len(B)) = IF 1 > Len(B) THEN 0 ELSE Len(B) - 1 + 1
    BY <1>0, FS_Interval
  <2>2. IsFiniteSet(1..Len(B))
    BY <1>0, FS_Interval
  <2> QED BY <1>0, <2>1, <2>2
<1> HIDE DEF R, f
<1>5. Cardinality(R) = Len(B)
  BY <1>3, <1>4, FS_Bijection DEF ExistsBijection
<1> QED BY <1>0, <1>5 DEF R

(* store()'s second bound takes the list of the oldest entry, whole. *)
LEMMA CapTakesOneList ==
  ASSUME NEW s, Accounted(s), Len(s.buckets) <= MaxRecipients + 1
  PROVE  LET t == CapRecipients(s)
         IN  /\ Accounted(t) /\ Len(t.buckets) <= MaxRecipients
             /\ Entries(t.buckets) \subseteq Entries(s.buckets)
             /\ Entries(t.buckets) \in Custody!CapRecipients(Entries(s.buckets))
             /\ t.out = s.out \cup Custody!Leaving(Entries(s.buckets) \ Entries(t.buckets),
                                                   "evictedRecipients")
             /\ t.bytes <= s.bytes
<1> DEFINE B == s.buckets
           all == Entries(B)
           t == CapRecipients(s)
           left == Entries(t.buckets)
<1>0. /\ Shaped(B) /\ Sized(all) /\ s.bytes = Custody!BytesOf(all) /\ s.bytes \in Nat
      /\ Len(B) \in Nat /\ Cardinality(Custody!BucketsOf(all)) = Len(B)
      /\ MaxRecipients \in Nat \ {0} /\ B \in Seq(Lists)
  BY EntriesAreSized, ListsAreCounted, BytesType, PacketAssumption, BoundAssumption
  DEF Accounted, Settled, Shaped
<1>1. CASE Len(B) <= MaxRecipients
  <2>1. t = s
    BY <1>1 DEF CapRecipients
  <2> HIDE DEF t
  <2>2. left = all
    BY <2>1
  <2>3. s.out = s.out \cup Custody!Leaving(all \ left, "evictedRecipients")
    <3>1. all \ left = {}
      BY <2>2
    <3> QED BY <3>1, NothingLeaves
  <2>4. left \in Custody!CapRecipients(all)
    <3> HIDE DEF all, left, B
    <3> QED BY <1>0, <1>1, <2>2, SameCardinality DEF Custody!CapRecipients
  <2>5. t.bytes <= s.bytes
    BY <1>0, <2>1
  <2> QED BY <1>1, <2>1, <2>2, <2>3, <2>4, <2>5 DEF t
<1>2. CASE ~ (Len(B) <= MaxRecipients)
  <2> DEFINE k == OldestBucket(B)
             oldest == B[k]
             e == oldest.list[1]
             gone == ToSet(oldest.list)
             others == ToSet(B) \ {oldest}
  <2>1. B # <<>>
    BY <1>0, <1>2
  <2>2. /\ k \in 1..Len(B) /\ 1 \in 1..Len(B[k].list)
        /\ e \in all /\ \A x \in all : e.storedAt <= x.storedAt
    BY <2>1, OldestHead DEF Accounted
  <2>3. /\ t.buckets = Among(B, others)
        /\ t.bytes = s.bytes - Custody!BytesOf(gone)
        /\ t.out = s.out \cup Custody!Leaving(gone, "evictedRecipients")
    BY <1>2 DEF CapRecipients
  <2> HIDE DEF t, k
  <2>4. ToSet(B) = {B[i] : i \in 1..Len(B)}
    BY <1>0, MembersOf
  <2>5. oldest \in ToSet(B) /\ oldest \notin others /\ ToSet(B) \cap others = others
    BY <2>2, <2>4
  <2> HIDE DEF others
  <2>6. /\ Shaped(t.buckets) /\ Len(t.buckets) < Len(B)
        /\ left = UNION {ToSet(b.list) : b \in others}
        /\ \A i \in 1..Len(t.buckets) : t.buckets[i] \in others
    BY <1>0, <2>3, <2>5, FewerListsAreShaped
  <2> USE DEF others
  <2>7. Settled(t.buckets)
    <3>1. \A b \in ToSet(B) : b.list # <<>>
      BY <2>4 DEF Accounted, Settled
    <3> QED BY <2>6, <3>1 DEF Settled
  <2>8. Len(t.buckets) <= MaxRecipients
    <3>1. Len(t.buckets) \in Nat
      BY <2>6, EntriesOf
    <3> QED BY <1>0, <2>6, <3>1
  <2>9. \A i \in 1..Len(B) : \A x \in ToSet(B[i].list) : x \in all /\ To[x.packet] = B[i].to
    BY <1>0, EntriesOf DEF Shaped, Filed
  <2>10. \A x \in all : \E i \in 1..Len(B) : x \in ToSet(B[i].list)
    BY <1>0, EntriesOf
  <2>11. e \in gone /\ To[e.packet] = oldest.to
    <3>1. e \in gone
      BY <1>0, <2>2, EntryOfList
    <3> QED BY <2>2, <2>9, <3>1
  <2>12. Custody!Bucket(all, To[e.packet]) = gone
    <3>1. ASSUME NEW x \in all, To[x.packet] = oldest.to PROVE x \in gone
      <4>1. PICK i \in 1..Len(B) : x \in ToSet(B[i].list)
        BY <2>10
      <4>2. B[i].to = B[k].to
        BY <2>9, <3>1, <4>1
      <4>3. i = k
        BY <1>0, <2>2, <4>2 DEF Shaped
      <4> QED BY <4>1, <4>3
    <3>2. ASSUME NEW x \in gone PROVE x \in all /\ To[x.packet] = oldest.to
      BY <2>2, <2>9
    <3> HIDE DEF all, gone, oldest, e
    <3> QED BY <2>11, <3>1, <3>2 DEF Custody!Bucket
  <2>13. left = all \ gone
    <3>1. ASSUME NEW x \in left PROVE x \in all /\ x \notin gone
      <4>1. PICK b \in others : x \in ToSet(b.list)
        BY <2>6
      <4>2. PICK i \in 1..Len(B) : b = B[i]
        BY <2>4, <4>1
      <4>3. i # k
        BY <4>1, <4>2
      <4>4. x \in all /\ To[x.packet] = B[i].to
        BY <2>9, <4>1, <4>2
      <4>5. B[i].to # B[k].to
        BY <1>0, <2>2, <4>3 DEF Shaped
      <4>6. \A y \in gone : To[y.packet] = B[k].to
        BY <2>2, <2>9
      <4> HIDE DEF all, gone
      <4> QED BY <4>4, <4>5, <4>6
    <3>2. ASSUME NEW x \in all, x \notin gone PROVE x \in left
      <4>1. PICK i \in 1..Len(B) : x \in ToSet(B[i].list)
        BY <2>10
      <4>2. B[i] \in others
        BY <2>4, <3>2, <4>1
      <4> QED BY <2>6, <4>1, <4>2
    <3> HIDE DEF all, left, gone
    <3> QED BY <3>1, <3>2
  <2>14. gone \in SUBSET all /\ all \ left = gone
    <3>1. gone \subseteq all
      BY <2>2, <2>9
    <3> HIDE DEF all, left, gone
    <3> QED BY <2>13, <3>1
  <2>15. left \in Custody!CapRecipients(all)
    <3>1. left = all \ Custody!Bucket(all, To[e.packet])
      BY <2>12, <2>13
    <3>2. e \in {x \in all : \A y \in all : x.storedAt <= y.storedAt}
      BY <2>2
    <3> HIDE DEF all, left, e, B
    <3> QED BY <1>0, <1>2, <3>1, <3>2, SameCardinality DEF Custody!CapRecipients
  <2>16. t.bytes = Custody!BytesOf(left) /\ t.bytes <= s.bytes
    <3>1. /\ Custody!BytesOf(all) = Custody!BytesOf(gone) + Custody!BytesOf(all \ gone)
          /\ Custody!BytesOf(gone) \in Nat /\ Custody!BytesOf(all \ gone) \in Nat
      BY <1>0, <2>14, BytesSplit
    <3>2. Custody!BytesOf(all \ gone) = Custody!BytesOf(left)
      BY <2>13
    <3> QED BY <1>0, <2>3, <3>1, <3>2
  <2>17. t.out = s.out \cup Custody!Leaving(all \ left, "evictedRecipients")
    BY <2>3, <2>14
  <2> QED BY <2>7, <2>8, <2>13, <2>15, <2>16, <2>17 DEF Accounted, t
<1> QED BY <1>1, <1>2

(* The three books of one pass. *)
IsPass(s) == s = [buckets |-> s.buckets, bytes |-> s.bytes, out |-> s.out]

(* Adding an entry at the end of its recipient's list, with a list of its own if there is none. *)
LEMMA AppendAddsOne ==
  ASSUME NEW s, Accounted(s), IsPass(s), NEW entry \in Custody!Entry,
         entry.packet \notin Custody!PacketsOf(Entries(s.buckets)),
         \A x \in Entries(s.buckets) : x.storedAt <= entry.storedAt
  PROVE  LET t == Append2(s, entry)
         IN  /\ Accounted(t) /\ Len(t.buckets) <= Len(s.buckets) + 1
             /\ Entries(t.buckets) = Entries(s.buckets) \cup {entry}
             /\ t.out = s.out
<1> DEFINE B == s.buckets
           all == Entries(B)
           r == To[entry.packet]
           I == {i \in 1..Len(B) : B[i].to = r}
           k == SelectInSeq(B, LAMBDA b : b.to = r)
           C == IF k = 0 THEN Append(B, [to |-> r, list |-> <<entry>>])
                ELSE [B EXCEPT ![k].list = Append(@, entry)]
           t == Append2(s, entry)
<1>0. /\ Shaped(B) /\ Sized(all) /\ s.bytes = Custody!BytesOf(all) /\ s.bytes \in Nat
      /\ Len(B) \in Nat /\ B \in Seq(Lists) /\ DOMAIN B = 1..Len(B)
      /\ entry.packet \in Packets /\ r \in Recipients /\ entry \notin all
  <2>1. /\ Shaped(B) /\ Sized(all) /\ s.bytes = Custody!BytesOf(all) /\ s.bytes \in Nat
        /\ Len(B) \in Nat /\ B \in Seq(Lists) /\ DOMAIN B = 1..Len(B)
    BY EntriesAreSized, EntriesOf, BytesType DEF Accounted, Settled, Shaped
  <2>2. entry.packet \in Packets /\ r \in Recipients
    BY PacketAssumption, BoundAssumption DEF Custody!Entry
  <2>3. entry \notin all
    BY DEF Custody!PacketsOf
  <2> QED BY <2>1, <2>2, <2>3
<1>1. t.buckets = C /\ t.bytes = s.bytes + Size[entry.packet] /\ t.out = s.out
  <2>1. t = [s EXCEPT !.bytes = @ + Size[entry.packet], !.buckets = C]
    BY DEF Append2, SelectInSeq
  <2> HIDE DEF t, C
  <2> QED BY <2>1 DEF IsPass
<1>2. k = IF I # {} THEN CHOOSE x \in I : \A y \in I : x <= y ELSE 0
  BY DEF SelectInSeq, Min
<1>3. IF I # {} THEN k \in I ELSE k = 0
  <2>1. I \subseteq Nat
    OBVIOUS
  <2> HIDE DEF I, k
  <2> QED BY <1>2, <2>1, LeastNatural
<1> HIDE DEF B, t
<1>4. ASSUME I = {}
      PROVE  Settled(C) /\ Entries(C) = all \cup {entry} /\ Len(C) <= Len(B) + 1
  <2> DEFINE b == [to |-> r, list |-> <<entry>>]
  <2>1. C = Append(B, b)
    BY <1>3, <1>4
  <2>2. b \in Lists /\ b.to = r /\ b.list = <<entry>>
    BY <1>0 DEF Lists
  <2>3. ToSet(b.list) = {entry}
    <3>1. DOMAIN <<entry>> = 1..1 /\ <<entry>>[1] = entry /\ 1..1 = {1}
      OBVIOUS
    <3> QED BY <2>2, <3>1 DEF ToSet
  <2>4. Ordered(b.list) /\ Filed(b) /\ b.list # <<>>
    BY <2>2, <2>3 DEF Ordered, Filed
  <2> HIDE DEF b, k, C
  <2>5. /\ C \in Seq(Lists) /\ Len(C) = Len(B) + 1 /\ C[Len(B) + 1] = b
        /\ \A i \in 1..Len(B) : C[i] = B[i]
        /\ \A i \in 1..Len(C) : i \in 1..Len(B) \/ i = Len(B) + 1
        /\ Len(B) + 1 \in 1..Len(C) /\ \A i \in 1..Len(B) : i \in 1..Len(C)
    BY <1>0, <2>1, <2>2
  <2>6. \A i \in 1..Len(B) : B[i].to # r
    BY <1>4
  <2>7. Settled(C)
    <3>1. \A i \in 1..Len(C) : Ordered(C[i].list) /\ Filed(C[i])
      BY <1>0, <2>4, <2>5 DEF Shaped
    <3>2. \A i, j \in 1..Len(C) : C[i].to = C[j].to => i = j
      BY <1>0, <2>2, <2>5, <2>6 DEF Shaped
    <3>3. \A i \in 1..Len(C) : C[i].list # <<>>
      BY <2>4, <2>5 DEF Accounted, Settled, B
    <3> QED BY <2>5, <3>1, <3>2, <3>3 DEF Settled, Shaped
  <2>8. Entries(C) = all \cup {entry}
    <3>1. /\ Entries(C) = UNION {ToSet(C[i].list) : i \in 1..Len(C)}
          /\ all = UNION {ToSet(B[i].list) : i \in 1..Len(B)}
      BY <1>0, <2>7, EntriesOf DEF Settled
    <3>2. /\ \A x : x \in Entries(C) <=> \E i \in 1..Len(C) : x \in ToSet(C[i].list)
          /\ \A x : x \in all <=> \E i \in 1..Len(B) : x \in ToSet(B[i].list)
      BY <3>1
    <3> HIDE DEF all
    <3>3. ASSUME NEW x \in Entries(C) PROVE x \in all \cup {entry}
      <4>1. PICK i \in 1..Len(C) : x \in ToSet(C[i].list)
        BY <3>2
      <4>2. CASE i \in 1..Len(B)
        BY <2>5, <3>2, <4>1, <4>2
      <4>3. CASE i = Len(B) + 1
        BY <2>3, <2>5, <4>1, <4>3
      <4> QED BY <2>5, <4>2, <4>3
    <3>4. ASSUME NEW x \in all PROVE x \in Entries(C)
      <4>1. PICK i \in 1..Len(B) : x \in ToSet(B[i].list)
        BY <3>2
      <4> QED BY <2>5, <3>2, <4>1
    <3>5. entry \in Entries(C)
      <4>1. entry \in ToSet(C[Len(B) + 1].list)
        BY <2>3, <2>5
      <4> QED BY <2>5, <3>2, <4>1
    <3> QED BY <3>3, <3>4, <3>5
  <2>9. Len(C) <= Len(B) + 1
    BY <1>0, <2>5
  <2> QED BY <2>7, <2>8, <2>9
<1>5. ASSUME I # {}
      PROVE  Settled(C) /\ Entries(C) = all \cup {entry} /\ Len(C) <= Len(B) + 1
  <2>1. k \in 1..Len(B) /\ B[k].to = r /\ k # 0
    BY <1>0, <1>3, <1>5
  <2>2. C = [B EXCEPT ![k].list = Append(@, entry)]
    BY <2>1
  <2> HIDE DEF k, C
  <2> DEFINE old == B[k].list
             list == Append(old, entry)
  <2>3. /\ old \in Seq(Custody!Entry) /\ Ordered(old) /\ Len(old) \in Nat
        /\ B[k] = [to |-> r, list |-> old]
        /\ ToSet(old) = {old[j] : j \in 1..Len(old)}
    <3>1. /\ B[k].list \in Seq(Custody!Entry)
          /\ B[k] = [to |-> B[k].to, list |-> B[k].list]
      BY <1>0, <2>1, ListsOf
    <3>2. Ordered(B[k].list)
      BY <1>0, <2>1 DEF Shaped
    <3> HIDE DEF old
    <3>3. old = B[k].list
      BY DEF old
    <3> QED BY <2>1, <3>1, <3>2, <3>3, MembersOf
  <2>4. \A j \in 1..Len(old) : old[j] \in all
    BY <1>0, <2>1, EntryOfList
  <2> HIDE DEF old
  <2>5. /\ list \in Seq(Custody!Entry) /\ Len(list) = Len(old) + 1 /\ list[Len(old) + 1] = entry
        /\ \A j \in 1..Len(old) : list[j] = old[j]
        /\ \A j \in 1..Len(list) : j \in 1..Len(old) \/ j = Len(old) + 1
        /\ Len(old) + 1 \in 1..Len(list) /\ \A j \in 1..Len(old) : j \in 1..Len(list)
    BY <2>3
  <2> HIDE DEF list
  <2>6. Ordered(list)
    <3> SUFFICES ASSUME NEW i \in 1..Len(list), NEW j \in 1..Len(list), i < j
                 PROVE  list[i].storedAt <= list[j].storedAt /\ list[i].packet # list[j].packet
      BY DEF Ordered
    <3>1. i \in 1..Len(old)
      BY <2>3, <2>5
    <3>2. CASE j \in 1..Len(old)
      BY <2>3, <2>5, <3>1, <3>2 DEF Ordered
    <3>3. CASE j = Len(old) + 1
      <4>1. old[i] \in all /\ list[i] = old[i] /\ list[j] = entry
        BY <2>4, <2>5, <3>1, <3>3
      <4>2. old[i].packet # entry.packet
        BY <4>1 DEF Custody!PacketsOf, B
      <4> QED BY <4>1, <4>2 DEF B
    <3> QED BY <2>5, <3>2, <3>3
  <2>7. ToSet(list) = ToSet(old) \cup {entry}
    <3>1. ToSet(list) = {list[j] : j \in 1..Len(list)}
      BY <2>5, MembersOf
    <3>2. ASSUME NEW x \in ToSet(list) PROVE x \in ToSet(old) \cup {entry}
      <4>1. PICK j \in 1..Len(list) : x = list[j]
        BY <3>1
      <4> QED BY <2>3, <2>5, <4>1
    <3>3. ASSUME NEW x \in ToSet(old) PROVE x \in ToSet(list)
      <4>1. PICK j \in 1..Len(old) : x = old[j]
        BY <2>3
      <4> QED BY <2>5, <3>1, <4>1
    <3>4. entry \in ToSet(list)
      BY <2>5, <3>1
    <3> QED BY <3>2, <3>3, <3>4
  <2>8. /\ DOMAIN C = 1..Len(B) /\ C[k] = [to |-> r, list |-> list]
        /\ \A i \in 1..Len(B) : i # k => C[i] = B[i]
        /\ C = [i \in 1..Len(B) |-> C[i]]
    BY <1>0, <2>1, <2>2, <2>3 DEF list, old
  <2>9. C[k].to = r /\ C[k].list = list /\ C[k] \in Lists
    BY <1>0, <2>5, <2>8 DEF Lists
  <2>10. C \in Seq(Lists) /\ Len(C) = Len(B)
    <3>1. \A i \in 1..Len(B) : C[i] \in Lists
      BY <1>0, <2>8, <2>9
    <3>2. C \in [1..Len(B) -> Lists]
      BY <2>8, <3>1
    <3> QED BY <1>0, <3>2
  <2>11. Settled(C)
    <3>1. \A i \in 1..Len(C) : C[i].to = B[i].to
      BY <2>1, <2>8, <2>9, <2>10
    <3>2. Filed(C[k]) /\ Ordered(C[k].list) /\ C[k].list # <<>>
      <4>1. \A x \in ToSet(old) : To[x.packet] = r
        BY <1>0, <2>1 DEF Shaped, Filed, old
      <4>2. Filed(C[k])
        BY <2>7, <2>9, <4>1 DEF Filed
      <4>3. Len(list) # 0
        BY <2>3, <2>5
      <4>4. list # <<>>
        BY <4>3
      <4> QED BY <2>6, <2>9, <4>2, <4>4
    <3>3. \A i \in 1..Len(C) : Filed(C[i]) /\ Ordered(C[i].list) /\ C[i].list # <<>>
      BY <1>0, <2>8, <2>10, <3>2 DEF Shaped, Accounted, Settled, B
    <3>4. \A i, j \in 1..Len(C) : C[i].to = C[j].to => i = j
      BY <1>0, <2>10, <3>1 DEF Shaped
    <3> QED BY <2>10, <3>3, <3>4 DEF Settled, Shaped
  <2>12. Entries(C) = all \cup {entry}
    <3>1. /\ Entries(C) = UNION {ToSet(C[i].list) : i \in 1..Len(B)}
          /\ all = UNION {ToSet(B[i].list) : i \in 1..Len(B)}
      BY <1>0, <2>10, <2>11, EntriesOf DEF Settled
    <3>2. /\ \A x : x \in Entries(C) <=> \E i \in 1..Len(B) : x \in ToSet(C[i].list)
          /\ \A x : x \in all <=> \E i \in 1..Len(B) : x \in ToSet(B[i].list)
      BY <3>1
    <3>3. /\ ToSet(C[k].list) = ToSet(B[k].list) \cup {entry}
          /\ \A i \in 1..Len(B) : i # k => ToSet(C[i].list) = ToSet(B[i].list)
      BY <2>7, <2>8, <2>9 DEF old
    <3> HIDE DEF all
    <3>4. ASSUME NEW x \in Entries(C) PROVE x \in all \cup {entry}
      <4>1. PICK i \in 1..Len(B) : x \in ToSet(C[i].list)
        BY <3>2
      <4>2. x \in ToSet(B[i].list) \/ x = entry
        BY <3>3, <4>1
      <4> QED BY <3>2, <4>2
    <3>5. ASSUME NEW x \in all PROVE x \in Entries(C)
      <4>1. PICK i \in 1..Len(B) : x \in ToSet(B[i].list)
        BY <3>2
      <4>2. x \in ToSet(C[i].list)
        BY <3>3, <4>1
      <4> QED BY <3>2, <4>2
    <3>6. entry \in Entries(C)
      BY <2>1, <3>2, <3>3
    <3> QED BY <3>4, <3>5, <3>6
  <2>13. Len(C) <= Len(B) + 1
    BY <1>0, <2>10
  <2> QED BY <2>11, <2>12, <2>13
<1>6. Settled(C) /\ Entries(C) = all \cup {entry} /\ Len(C) <= Len(B) + 1
  BY <1>4, <1>5
<1> HIDE DEF C
<1>7. Custody!BytesOf(all \cup {entry}) = Custody!BytesOf(all) + Size[entry.packet]
  BY <1>0, BytesWith
<1>8. t.bytes = Custody!BytesOf(Entries(t.buckets))
  BY <1>0, <1>1, <1>6, <1>7
<1> QED BY <1>1, <1>6, <1>8 DEF Accounted, B, t

-----------------------------------------------------------------------------
(* Votes are written where the entries stand. *)

(* A vote changes neither packet, age nor kind of an entry. *)
LEMMA VotedIsSameEntry ==
  ASSUME NEW e \in Custody!Entry, NEW covered, NEW salt \in Salts,
         NEW names \in SUBSET Packets
  PROVE  /\ Voted(e, covered, salt, names) \in Custody!Entry
         /\ Voted(e, covered, salt, names).packet = e.packet
         /\ Voted(e, covered, salt, names).storedAt = e.storedAt
         /\ e \in covered => Voted(e, covered, salt, names) = Custody!AfterVote(e, salt, names)
         /\ e \notin covered => Voted(e, covered, salt, names) = e
<1> DEFINE vote == IF e.packet \in names THEN salt ELSE NoVote
<1>1. Custody!AfterVote(e, salt, names) = [e EXCEPT !.vote = vote]
  BY DEF Custody!AfterVote
<1>2. vote \in Salts \cup {NoVote}
  OBVIOUS
<1> HIDE DEF vote
<1>3. /\ Custody!AfterVote(e, salt, names) \in Custody!Entry
      /\ Custody!AfterVote(e, salt, names).packet = e.packet
      /\ Custody!AfterVote(e, salt, names).storedAt = e.storedAt
  BY <1>1, <1>2 DEF Custody!Entry
<1> QED BY <1>3 DEF Voted

(* A list voted on in place stays ordered. *)
LEMMA InPlaceKeepsOrder ==
  ASSUME NEW list \in Seq(Custody!Entry), NEW covered, NEW salt \in Salts,
         NEW names \in SUBSET Packets
  PROVE  LET r == InPlace(list, covered, salt, names)
         IN  /\ r \in Seq(Custody!Entry) /\ Len(r) = Len(list)
             /\ Ordered(list) => Ordered(r)
             /\ ToSet(r) = {Voted(e, covered, salt, names) : e \in ToSet(list)}
<1> DEFINE r == InPlace(list, covered, salt, names)
<1>0. Len(list) \in Nat /\ DOMAIN list = 1..Len(list)
  OBVIOUS
<1>1. r = [j \in 1..Len(list) |-> Voted(list[j], covered, salt, names)]
  BY <1>0 DEF InPlace
<1> HIDE DEF r
<1>2. \A j \in 1..Len(list) : /\ r[j] = Voted(list[j], covered, salt, names) /\ r[j] \in Custody!Entry
                              /\ r[j].packet = list[j].packet /\ r[j].storedAt = list[j].storedAt
  <2> SUFFICES ASSUME NEW j \in 1..Len(list)
               PROVE  /\ r[j] = Voted(list[j], covered, salt, names) /\ r[j] \in Custody!Entry
                      /\ r[j].packet = list[j].packet /\ r[j].storedAt = list[j].storedAt
    OBVIOUS
  <2> DEFINE e == list[j]
  <2>1. e \in Custody!Entry
    BY <1>0
  <2>2. r[j] = Voted(e, covered, salt, names)
    BY <1>1
  <2> HIDE DEF e
  <2>3. /\ Voted(e, covered, salt, names) \in Custody!Entry
        /\ Voted(e, covered, salt, names).packet = e.packet
        /\ Voted(e, covered, salt, names).storedAt = e.storedAt
    BY <2>1, VotedIsSameEntry
  <2> QED BY <2>2, <2>3 DEF e
<1>3. r \in Seq(Custody!Entry) /\ Len(r) = Len(list)
  <2>1. r \in [1..Len(list) -> Custody!Entry]
    BY <1>1, <1>2
  <2> QED BY <1>0, <2>1
<1>4. Ordered(list) => Ordered(r)
  BY <1>2, <1>3 DEF Ordered
<1>5. ToSet(r) = {Voted(e, covered, salt, names) : e \in ToSet(list)}
  <2>1. ToSet(r) = {r[j] : j \in 1..Len(r)} /\ ToSet(list) = {list[j] : j \in 1..Len(list)}
    BY <1>3, MembersOf
  <2> QED BY <1>2, <1>3, <2>1
<1> QED BY <1>3, <1>4, <1>5 DEF r

(* Lists voted on in place stay settled and carry what the promise's votes leave. *)
LEMMA MarkedIsSettled ==
  ASSUME NEW B, Settled(B), NEW covered, NEW salt \in Salts,
         NEW names \in SUBSET Packets
  PROVE  LET C == Marked(B, covered, salt, names)
         IN  /\ Settled(C) /\ Len(C) = Len(B)
             /\ Entries(C) = {Voted(e, covered, salt, names) : e \in Entries(B)}
             /\ Custody!BytesOf(Entries(C)) = Custody!BytesOf(Entries(B))
<1> DEFINE C == Marked(B, covered, salt, names)
           all == Entries(B)
<1>0. /\ Shaped(B) /\ Len(B) \in Nat /\ DOMAIN B = 1..Len(B) /\ Sized(all)
      /\ all \subseteq Custody!Entry
  BY EntriesOf, EntriesAreSized DEF Settled
<1>1. C = [i \in 1..Len(B) |-> [B[i] EXCEPT !.list = InPlace(@, covered, salt, names)]]
  BY <1>0 DEF Marked
<1> HIDE DEF C
<1>2. ASSUME NEW i \in 1..Len(B)
      PROVE  /\ C[i] \in Lists /\ C[i].to = B[i].to /\ Ordered(C[i].list) /\ Filed(C[i])
             /\ C[i].list # <<>>
             /\ ToSet(C[i].list) = {Voted(e, covered, salt, names) : e \in ToSet(B[i].list)}
  <2>1. /\ B[i].list \in Seq(Custody!Entry) /\ B[i].to \in Recipients
        /\ B[i] = [to |-> B[i].to, list |-> B[i].list]
    BY <1>0, ListsOf
  <2>2. Ordered(B[i].list) /\ Filed(B[i]) /\ B[i].list # <<>>
    BY <1>0 DEF Settled, Shaped
  <2>3. C[i] = [to |-> B[i].to, list |-> InPlace(B[i].list, covered, salt, names)]
    BY <1>1, <2>1
  <2>4. /\ InPlace(B[i].list, covered, salt, names) \in Seq(Custody!Entry)
        /\ Len(InPlace(B[i].list, covered, salt, names)) = Len(B[i].list)
        /\ Ordered(InPlace(B[i].list, covered, salt, names))
        /\ ToSet(InPlace(B[i].list, covered, salt, names))
             = {Voted(e, covered, salt, names) : e \in ToSet(B[i].list)}
    <3> DEFINE s == B[i].list
    <3>1. s \in Seq(Custody!Entry) /\ Ordered(s)
      BY <2>1, <2>2
    <3> HIDE DEF s
    <3>2. /\ InPlace(s, covered, salt, names) \in Seq(Custody!Entry)
          /\ Len(InPlace(s, covered, salt, names)) = Len(s)
          /\ Ordered(InPlace(s, covered, salt, names))
          /\ ToSet(InPlace(s, covered, salt, names)) = {Voted(e, covered, salt, names) : e \in ToSet(s)}
      BY <3>1, InPlaceKeepsOrder
    <3> QED BY <3>2 DEF s
  <2>5. Len(B[i].list) # 0 /\ InPlace(B[i].list, covered, salt, names) # <<>>
    BY <2>1, <2>2, <2>4
  <2>6. \A e \in ToSet(B[i].list) : To[Voted(e, covered, salt, names).packet] = B[i].to
    <3>1. ToSet(B[i].list) \subseteq Custody!Entry
      BY <2>1, MembersOf
    <3> SUFFICES ASSUME NEW e \in ToSet(B[i].list)
                 PROVE  To[Voted(e, covered, salt, names).packet] = B[i].to
      OBVIOUS
    <3>2. e \in Custody!Entry /\ To[e.packet] = B[i].to
      BY <2>2, <3>1 DEF Filed
    <3>3. Voted(e, covered, salt, names).packet = e.packet
      BY <3>2, VotedIsSameEntry
    <3> QED BY <3>2, <3>3
  <2>7. C[i].to = B[i].to /\ C[i].list = InPlace(B[i].list, covered, salt, names) /\ C[i] \in Lists
    BY <2>1, <2>3, <2>4 DEF Lists
  <2>8. Filed(C[i])
    BY <2>4, <2>6, <2>7 DEF Filed
  <2> QED BY <2>4, <2>5, <2>7, <2>8
<1>3. C \in Seq(Lists) /\ Len(C) = Len(B)
  <2>1. C \in [1..Len(B) -> Lists]
    BY <1>1, <1>2
  <2> QED BY <1>0, <2>1
<1>4. Settled(C)
  BY <1>0, <1>2, <1>3 DEF Settled, Shaped
<1>5. Entries(C) = {Voted(e, covered, salt, names) : e \in all}
  <2>1. /\ Entries(C) = UNION {ToSet(C[i].list) : i \in 1..Len(B)}
        /\ all = UNION {ToSet(B[i].list) : i \in 1..Len(B)}
    BY <1>0, <1>3, <1>4, EntriesOf DEF Settled
  <2>2. /\ \A x : x \in Entries(C) <=> \E i \in 1..Len(B) : x \in ToSet(C[i].list)
        /\ \A x : x \in all <=> \E i \in 1..Len(B) : x \in ToSet(B[i].list)
    BY <2>1
  <2> HIDE DEF all
  <2>3. ASSUME NEW x \in Entries(C) PROVE \E e \in all : x = Voted(e, covered, salt, names)
    <3>1. PICK i \in 1..Len(B) : x \in ToSet(C[i].list)
      BY <2>2
    <3>2. PICK e \in ToSet(B[i].list) : x = Voted(e, covered, salt, names)
      BY <1>2, <3>1
    <3> QED BY <2>2, <3>2
  <2>4. ASSUME NEW e \in all PROVE Voted(e, covered, salt, names) \in Entries(C)
    <3>1. PICK i \in 1..Len(B) : e \in ToSet(B[i].list)
      BY <2>2
    <3>2. Voted(e, covered, salt, names) \in ToSet(C[i].list)
      BY <1>2, <3>1
    <3> QED BY <2>2, <3>2
  <2> QED BY <2>3, <2>4
<1>6. Custody!BytesOf(Entries(C)) = Custody!BytesOf(all)
  <2> DEFINE f == [e \in all |-> Voted(e, covered, salt, names)]
  <2>1. \A e \in all : f[e].packet = e.packet
    BY <1>0, VotedIsSameEntry
  <2>2. \A x, y \in all : f[x] = f[y] => x = y
    <3> SUFFICES ASSUME NEW x \in all, NEW y \in all, f[x] = f[y] PROVE x = y
      OBVIOUS
    <3>1. x.packet = y.packet
      BY <2>1
    <3> QED BY <1>0, <3>1, PacketsAreUnique
  <2>3. {f[e] : e \in all} = Entries(C)
    BY <1>5
  <2>4. DOMAIN f = all
    OBVIOUS
  <2> HIDE DEF f, all
  <2>5. Custody!BytesOf({f[e] : e \in all}) = Custody!BytesOf(all)
    BY <1>0, <2>1, <2>2, <2>4, BytesRewritten
  <2> QED BY <2>3, <2>5
<1> QED BY <1>3, <1>4, <1>5, <1>6 DEF C

-----------------------------------------------------------------------------
(* Between two calls the books agree, nothing is from the future, and both bounds hold. *)

Sound(B, bytes, cap, time) ==
  /\ Settled(B) /\ bytes = Custody!BytesOf(Entries(B))
  /\ \A e \in Entries(B) : e.storedAt <= time
  /\ time \in 0..MaxTime /\ cap \in Caps
  /\ ~ Custody!OverHighWater(bytes, cap) /\ Len(B) <= MaxRecipients

IInv == Sound(byRecipient, totalBytes, maxBytes, now)

(* What a step sheds for room is no younger than what it leaves. *)
ShedsOldest ==
  \A a, b \in Entries(byRecipient) :
     /\ <<a.packet, "evictedTotal">> \in exits'
     /\ b \in Entries(byRecipient')
     => a.storedAt <= b.storedAt

(* The invariant, of the book as a call finds it. *)
LEMMA NowSound ==
  ASSUME IInv
  PROVE  /\ Settled(byRecipient) /\ Accounted(Store0) /\ IsPass(Store0)
         /\ Store0.buckets = byRecipient /\ Store0.out = {} /\ Store0.bytes = totalBytes
         /\ totalBytes \in Nat /\ Len(byRecipient) \in Nat /\ maxBytes \in Nat
         /\ Entries(byRecipient) \subseteq Custody!Entry
         /\ \A e \in Entries(byRecipient) : e.storedAt <= now /\ e.storedAt \in Nat
<1>1. Settled(byRecipient) /\ totalBytes = Custody!BytesOf(Entries(byRecipient))
      /\ maxBytes \in Nat
  BY PacketAssumption, BoundAssumption DEF IInv, Sound
<1>2. Sized(Entries(byRecipient)) /\ Len(byRecipient) \in Nat
      /\ Entries(byRecipient) \subseteq Custody!Entry
  BY <1>1, EntriesAreSized, EntriesOf DEF Settled
<1>3. /\ Store0.buckets = byRecipient /\ Store0.out = {} /\ Store0.bytes = totalBytes
      /\ IsPass(Store0)
  BY DEF Store0, IsPass
<1>4. Accounted(Store0)
  BY <1>1, <1>3 DEF Accounted
<1>5. \A e \in Entries(byRecipient) : e.storedAt <= now /\ e.storedAt \in Nat
  BY <1>2, PacketAssumption, BoundAssumption DEF IInv, Sound, Custody!Entry
<1>6. totalBytes \in Nat
  BY <1>1, <1>2, BytesType
<1> QED BY <1>1, <1>2, <1>3, <1>4, <1>5, <1>6

(* A sweep of what is carried. *)
LEMMA SweepIsSound ==
  ASSUME IInv, NEW kept, NEW why
  PROVE  LET t == Sweep(Store0, kept, why)
         IN  /\ Sound(t.buckets, t.bytes, maxBytes, now) /\ Accounted(t) /\ IsPass(t)
             /\ Entries(t.buckets) = Entries(byRecipient) \cap kept
             /\ t.out = Custody!Leaving(Entries(byRecipient) \ kept, why)
             /\ t.bytes \in Nat /\ t.bytes <= totalBytes
<1> DEFINE t == Sweep(Store0, kept, why)
<1>1. /\ Accounted(t) /\ Len(t.buckets) <= Len(byRecipient)
      /\ Entries(t.buckets) = Entries(byRecipient) \cap kept
      /\ t.out = {} \cup Custody!Leaving(Entries(byRecipient) \ kept, why)
      /\ t.bytes <= totalBytes
  <2>1. Accounted(Store0)
    BY NowSound
  <2>2. /\ Accounted(t) /\ Len(t.buckets) <= Len(Store0.buckets)
        /\ Entries(t.buckets) = Entries(Store0.buckets) \cap kept
        /\ t.out = Store0.out \cup Custody!Leaving(Entries(Store0.buckets) \ kept, why)
        /\ t.bytes <= Store0.bytes
    BY <2>1, SweepKeeps
  <2> HIDE DEF t
  <2> QED BY <2>2, NowSound
<1>2. IsPass(t)
  BY DEF IsPass, Sweep
<1> HIDE DEF t
<1>3. t.bytes \in Nat /\ Len(t.buckets) \in Nat
  BY <1>1, EntriesAreSized, EntriesOf, BytesType DEF Accounted, Settled
<1>4. ~ Custody!OverHighWater(t.bytes, maxBytes)
  BY <1>1, <1>3, NowSound DEF IInv, Sound, Custody!OverHighWater
<1>5. Len(t.buckets) <= MaxRecipients
  BY <1>1, <1>3, NowSound, PacketAssumption, BoundAssumption DEF IInv, Sound
<1>6. Sound(t.buckets, t.bytes, maxBytes, now)
  BY <1>1, <1>4, <1>5 DEF IInv, Sound, Accounted
<1>7. t.out = Custody!Leaving(Entries(byRecipient) \ kept, why)
  BY <1>1
<1> QED BY <1>1, <1>2, <1>3, <1>6, <1>7 DEF t

(* _prune leaves a sound book of what is live, and its total. *)
LEMMA PruneIsSound ==
  ASSUME IInv
  PROVE  LET t == Prune(Store0)
         IN  /\ Sound(t.buckets, t.bytes, maxBytes, now) /\ Accounted(t) /\ IsPass(t)
             /\ Entries(t.buckets) = Custody!Live(Entries(byRecipient))
             /\ Custody!Live(Entries(byRecipient)) \subseteq Entries(byRecipient)
             /\ t.out = Custody!Leaving(Custody!Stale(Entries(byRecipient)), "expired")
             /\ t.bytes \in Nat
<1> DEFINE all == Entries(byRecipient)
           live == Custody!Live(all)
           t == Sweep(Store0, live, "expired")
<1>1. Prune(Store0) = t
  BY NowSound DEF Prune
<1>2. live \subseteq all /\ Custody!Stale(all) = all \ live
  BY DEF Custody!Live, Custody!Stale
<1>3. /\ Sound(t.buckets, t.bytes, maxBytes, now) /\ Accounted(t) /\ IsPass(t)
      /\ Entries(t.buckets) = all \cap live
      /\ t.out = Custody!Leaving(all \ live, "expired") /\ t.bytes \in Nat
  BY SweepIsSound
<1> HIDE DEF t, live
<1>4. all \cap live = live
  BY <1>2
<1> QED BY <1>1, <1>2, <1>3, <1>4 DEF live

-----------------------------------------------------------------------------
(* Each operation on the lists is the operation on the set, and keeps the books. *)

Kept == IInv' /\ Custody!Next /\ ShedsOldest

(* A step that sheds nothing for room cannot shed the wrong entry. *)
LEMMA QuietSheds ==
  ASSUME NEW S, NEW why, why # "evictedTotal", exits' = Custody!Leaving(S, why)
  PROVE  ShedsOldest
  BY DEF ShedsOldest, Custody!Leaving

(* window queries and digests prune, and do no more. *)
LEMMA QueryKeeps ==
  ASSUME IInv, Query
  PROVE  Kept
<1> DEFINE t == Prune(Store0)
<1>1. /\ Sound(t.buckets, t.bytes, maxBytes, now)
      /\ Entries(t.buckets) = Custody!Live(Entries(byRecipient))
      /\ t.out = Custody!Leaving(Custody!Stale(Entries(byRecipient)), "expired")
  BY PruneIsSound
<1>2. /\ byRecipient' = t.buckets /\ totalBytes' = t.bytes /\ exits' = t.out
      /\ UNCHANGED <<maxBytes, now, streak, env>>
  BY DEF Query, Becomes
<1> HIDE DEF t
<1>3. IInv'
  BY <1>1, <1>2 DEF IInv
<1>4. Custody!Query
  BY <1>1, <1>2 DEF Custody!Query, Custody!env, env
<1>5. ShedsOldest
  BY <1>1, <1>2, QuietSheds
<1> QED BY <1>3, <1>4, <1>5 DEF Kept, Custody!Next

(* removeById: the ACK takes its packet out of its list. *)
LEMMA RemoveKeeps ==
  ASSUME IInv, NEW p \in Packets, RemoveById(p)
  PROVE  Kept
<1> DEFINE all == Entries(byRecipient)
           others == {e \in all : e.packet # p}
           t == Sweep(Store0, others, "acked")
<1>1. /\ Sound(t.buckets, t.bytes, maxBytes, now)
      /\ Entries(t.buckets) = all \cap others
      /\ t.out = Custody!Leaving(all \ others, "acked")
  BY SweepIsSound
<1>2. /\ byRecipient' = t.buckets /\ totalBytes' = t.bytes /\ exits' = t.out
      /\ UNCHANGED <<maxBytes, now, streak, env>>
  BY DEF RemoveById, Becomes
<1> HIDE DEF t
<1>3. IInv'
  BY <1>1, <1>2 DEF IInv
<1>4. Entries(byRecipient') = others
  BY <1>1, <1>2
<1>5. Custody!RemoveById(p)
  BY <1>1, <1>2, <1>4 DEF Custody!RemoveById, Custody!env, env
<1>6. ShedsOldest
  BY <1>1, <1>2, QuietSheds
<1> QED BY <1>3, <1>5, <1>6 DEF Kept, Custody!Next

(* setMaxBytes evicts down to the new bound. *)
LEMMA SetMaxKeeps ==
  ASSUME IInv, NEW cap \in Caps, SetMaxBytes(cap)
  PROVE  Kept
<1> DEFINE all == Entries(byRecipient)
           t == EvictToFit(Store0, cap)
           left == Entries(t.buckets)
<1>0. cap \in Nat
  BY PacketAssumption, BoundAssumption
<1>1. /\ Accounted(t) /\ Len(t.buckets) <= Len(byRecipient) /\ left \subseteq all
      /\ left \in Custody!EvictToFit(all, cap)
      /\ t.out = {} \cup Custody!Leaving(all \ left, "evictedTotal")
      /\ ~ Custody!OverHighWater(t.bytes, cap)
      /\ \A a \in all \ left, b \in left : a.storedAt <= b.storedAt
  <2>1. Accounted(Store0)
    BY NowSound
  <2>2. /\ Accounted(t) /\ Len(t.buckets) <= Len(Store0.buckets)
        /\ left \subseteq Entries(Store0.buckets)
        /\ left \in Custody!EvictToFit(Entries(Store0.buckets), cap)
        /\ t.out = Store0.out \cup Custody!Leaving(Entries(Store0.buckets) \ left, "evictedTotal")
        /\ ~ Custody!OverHighWater(t.bytes, cap)
        /\ \A a \in Entries(Store0.buckets) \ left, b \in left : a.storedAt <= b.storedAt
    BY <1>0, <2>1, EvictionDrains
  <2> HIDE DEF t
  <2> QED BY <2>2, NowSound
<1>2. /\ byRecipient' = t.buckets /\ totalBytes' = t.bytes /\ exits' = t.out
      /\ maxBytes' = cap /\ UNCHANGED <<now, streak, env>>
  BY DEF SetMaxBytes, Becomes
<1> HIDE DEF t
<1>3. Len(t.buckets) <= MaxRecipients
  BY <1>1, NowSound, EntriesOf, PacketAssumption, BoundAssumption DEF IInv, Sound, Accounted, Settled
<1>4. IInv'
  <2>1. Sound(t.buckets, t.bytes, cap, now)
    BY <1>1, <1>3 DEF IInv, Sound, Accounted
  <2> QED BY <1>2, <2>1 DEF IInv
<1>5. Entries(byRecipient') = left /\ exits' = Custody!Leaving(all \ left, "evictedTotal")
  BY <1>1, <1>2
<1>6. Custody!SetMaxBytes(cap)
  BY <1>1, <1>2, <1>5 DEF Custody!SetMaxBytes, Custody!env, env
<1>7. ShedsOldest
  <2> SUFFICES ASSUME NEW a \in all, NEW b \in left, <<a.packet, "evictedTotal">> \in exits'
               PROVE  a.storedAt <= b.storedAt
    BY <1>5 DEF ShedsOldest
  <2>1. PICK x \in all \ left : x.packet = a.packet
    BY <1>5 DEF Custody!Leaving, Custody!PacketsOf
  <2>2. x = a
    BY <2>1, NowSound, PacketsAreUnique DEF Settled
  <2> QED BY <1>1, <2>1, <2>2
<1> QED BY <1>4, <1>6, <1>7 DEF Kept, Custody!Next

(* clear() resets the map and the total together. *)
LEMMA ClearKeeps ==
  ASSUME IInv, Clear
  PROVE  Kept
<1>1. Settled(<<>>) /\ Len(<<>>) = 0
  BY DEF Settled, Shaped
<1>2. Entries(<<>>) = {}
  BY <1>1, NoneLeft
<1>3. IInv'
  <2>1. /\ byRecipient' = <<>> /\ totalBytes' = 0 /\ UNCHANGED <<maxBytes, now>>
    BY DEF Clear
  <2>2. ~ Custody!OverHighWater(0, maxBytes) /\ 0 <= MaxRecipients
    BY NowSound, PacketAssumption, BoundAssumption DEF Custody!OverHighWater
  <2>3. Sound(<<>>, 0, maxBytes, now)
    BY <1>1, <1>2, <2>2, BytesOfNone DEF IInv, Sound
  <2> QED BY <2>1, <2>3 DEF IInv
<1>4. Custody!Clear
  BY <1>2 DEF Clear, Custody!Clear, Custody!env, env
<1>5. ShedsOldest
  BY QuietSheds DEF Clear
<1> QED BY <1>3, <1>4, <1>5 DEF Kept, Custody!Next

(* Nothing that happens outside touches the lists. *)
LEMMA EnvironmentKeeps ==
  ASSUME IInv, Environment
  PROVE  Kept
<1>1. UNCHANGED <<byRecipient, totalBytes, maxBytes>> /\ exits' = {} /\ now' \in 0..MaxTime
      /\ now <= now'
  BY PacketAssumption, BoundAssumption
  DEF Environment, Custody!Tick, Custody!Arrive, Custody!Forget, IInv, Sound
<1>2. IInv'
  <2>1. \A e \in Entries(byRecipient) : e.storedAt <= now'
    BY <1>1, NowSound DEF IInv, Sound
  <2>2. Sound(byRecipient, totalBytes, maxBytes, now')
    BY <1>1, <2>1 DEF IInv, Sound
  <2> QED BY <1>1, <2>2 DEF IInv
<1>3. Custody!Next
  BY DEF Environment, Custody!Next
<1>4. ShedsOldest
  BY <1>1 DEF ShedsOldest
<1> QED BY <1>2, <1>3, <1>4 DEF Kept

(* retireSeenFor: votes are written and second votes retire, in the recipient's own list. *)
LEMMA RetireKeeps ==
  ASSUME IInv, NEW r \in InRange, NEW salt \in Salts, NEW from \in Custody!Stamps,
         NEW to \in Custody!Stamps,
         NEW names \in Custody!Names(salt), RetireSeenFor(r, salt, from, to, names)
  PROVE  Kept
<1> DEFINE all == Entries(byRecipient)
           live == Prune(Store0)
           carried == Entries(live.buckets)
           covered == {e \in carried : Custody!Covered(e, r, from, to)}
           retired == {e \in covered : e.packet \in names /\ Custody!SecondVote(e, salt)}
           rest == Sweep(live, carried \ retired, "retiredSeen")
           marked == Marked(rest.buckets, covered, salt, names)
<1>0. names \in SUBSET Packets
  BY DEF Custody!Names
<1>1. /\ Sound(live.buckets, live.bytes, maxBytes, now) /\ Accounted(live)
      /\ carried = Custody!Live(all) /\ carried \subseteq all
      /\ live.out = Custody!Leaving(Custody!Stale(all), "expired") /\ live.bytes \in Nat
  BY PruneIsSound
<1>2. /\ byRecipient' = marked /\ totalBytes' = rest.bytes /\ exits' = rest.out
      /\ streak' = [p \in Packets |->
                        IF p \notin Custody!PacketsOf(covered) THEN streak[p]
                        ELSE IF p \in names THEN streak[p] \cup {salt}
                        ELSE {}]
      /\ UNCHANGED <<maxBytes, now, env>>
  <2>1. rest = [buckets |-> rest.buckets, bytes |-> rest.bytes, out |-> rest.out]
    BY DEF Sweep
  <2>2. /\ Becomes([rest EXCEPT !.buckets = marked])
        /\ streak' = [p \in Packets |->
                        IF p \notin Custody!PacketsOf(covered) THEN streak[p]
                        ELSE IF p \in names THEN streak[p] \cup {salt}
                        ELSE {}]
        /\ UNCHANGED <<maxBytes, now, env>>
    BY DEF RetireSeenFor
  <2> HIDE DEF rest, marked, covered
  <2> QED BY <2>1, <2>2 DEF Becomes
<1>3. /\ Accounted(rest) /\ Len(rest.buckets) <= Len(live.buckets)
      /\ Entries(rest.buckets) = carried \cap (carried \ retired)
      /\ rest.out = live.out \cup Custody!Leaving(carried \ (carried \ retired), "retiredSeen")
      /\ rest.bytes <= live.bytes
  <2> HIDE DEF live
  <2> QED BY <1>1, SweepKeeps
<1>4. /\ carried \cap (carried \ retired) = carried \ retired
      /\ carried \ (carried \ retired) = retired /\ retired \subseteq covered
      /\ covered \subseteq carried
  OBVIOUS
<1> HIDE DEF live, rest, retired
<1>5. /\ Settled(marked) /\ Len(marked) = Len(rest.buckets)
      /\ Entries(marked) = {Voted(e, covered, salt, names) : e \in carried \ retired}
      /\ Custody!BytesOf(Entries(marked)) = Custody!BytesOf(Entries(rest.buckets))
  <2>1. Settled(rest.buckets)
    BY <1>3 DEF Accounted
  <2>2. /\ Settled(marked) /\ Len(marked) = Len(rest.buckets)
        /\ Entries(marked) = {Voted(e, covered, salt, names) : e \in Entries(rest.buckets)}
        /\ Custody!BytesOf(Entries(marked)) = Custody!BytesOf(Entries(rest.buckets))
    <3> HIDE DEF covered
    <3> QED BY <1>0, <2>1, MarkedIsSettled
  <2>3. Entries(rest.buckets) = carried \ retired
    BY <1>3, <1>4
  <2> HIDE DEF marked, covered, carried
  <2> QED BY <2>2, <2>3
<1> HIDE DEF marked
<1>6. \A e \in carried : /\ e \in Custody!Entry
                         /\ e \in covered => Voted(e, covered, salt, names) = Custody!AfterVote(e, salt, names)
                         /\ e \notin covered => Voted(e, covered, salt, names) = e
                         /\ Voted(e, covered, salt, names).storedAt = e.storedAt
  <2> SUFFICES ASSUME NEW e \in carried
               PROVE  /\ e \in Custody!Entry
                      /\ e \in covered => Voted(e, covered, salt, names) = Custody!AfterVote(e, salt, names)
                      /\ e \notin covered => Voted(e, covered, salt, names) = e
                      /\ Voted(e, covered, salt, names).storedAt = e.storedAt
    OBVIOUS
  <2>1. e \in Custody!Entry
    BY <1>1, NowSound
  <2> HIDE DEF carried, covered
  <2> QED BY <1>0, <2>1, VotedIsSameEntry
<1> HIDE DEF carried, covered
<1>7. Entries(marked) = (carried \ covered) \cup {Custody!AfterVote(e, salt, names) : e \in covered \ retired}
  <2>1. ASSUME NEW x \in Entries(marked)
        PROVE  x \in carried \ covered \/ \E e \in covered \ retired : x = Custody!AfterVote(e, salt, names)
    <3>1. PICK e \in carried \ retired : x = Voted(e, covered, salt, names)
      BY <1>5
    <3> QED BY <1>6, <3>1
  <2>2. \A x \in carried \ covered : x \in carried \ retired /\ x = Voted(x, covered, salt, names)
    BY <1>4, <1>6
  <2>3. \A e \in covered \ retired :
           e \in carried \ retired /\ Custody!AfterVote(e, salt, names) = Voted(e, covered, salt, names)
    BY <1>4, <1>6
  <2> QED BY <1>5, <2>1, <2>2, <2>3
<1>8. exits' = Custody!Leaving(Custody!Stale(all), "expired")
                 \cup Custody!Leaving(retired, "retiredSeen")
  BY <1>1, <1>2, <1>3, <1>4
<1>9. IInv'
  <2>1. rest.bytes = Custody!BytesOf(Entries(marked)) /\ rest.bytes \in Nat
    BY <1>3, <1>5, EntriesAreSized, BytesType DEF Accounted, Settled
  <2>2. ~ Custody!OverHighWater(rest.bytes, maxBytes)
    BY <1>1, <1>3, <2>1, NowSound DEF Sound, Custody!OverHighWater
  <2>3. Len(marked) <= MaxRecipients
    <3>1. Len(live.buckets) \in Nat /\ Len(rest.buckets) \in Nat
      BY <1>1, <1>3, EntriesOf DEF Accounted, Settled
    <3> QED BY <1>1, <1>3, <1>5, <3>1, PacketAssumption, BoundAssumption DEF Sound
  <2>4. \A e \in Entries(marked) : e.storedAt <= now
    <3>1. \A e \in carried : e.storedAt <= now
      BY <1>1, NowSound
    <3> QED BY <1>5, <1>6, <3>1
  <2>5. Sound(marked, rest.bytes, maxBytes, now)
    BY <1>1, <1>5, <2>1, <2>2, <2>3, <2>4 DEF Sound
  <2> QED BY <1>2, <2>5 DEF IInv
<1>10. Custody!RetireSeenFor(r, salt, from, to, names)
  <2> DEFINE liveSet == Custody!Live(all)
             coveredSet == {e \in liveSet : Custody!Covered(e, r, from, to)}
  <2>1. liveSet = carried /\ coveredSet = covered
    BY <1>1 DEF covered
  <2>2. {e \in covered : e.packet \in names /\ Custody!SecondVote(e, salt)} = retired
    BY DEF retired
  <2>3. /\ Entries(byRecipient') = (liveSet \ covered)
                                     \cup {Custody!AfterVote(e, salt, names) : e \in covered \ retired}
        /\ UNCHANGED <<maxBytes, now, seen, arrived>>
    BY <1>2, <1>7, <2>1 DEF env
  <2> HIDE DEF liveSet
  <2> QED BY <1>2, <1>8, <2>1, <2>2, <2>3 DEF Custody!RetireSeenFor, Custody!env, liveSet
<1>11. ShedsOldest
  BY <1>8 DEF ShedsOldest, Custody!Leaving
<1> QED BY <1>9, <1>10, <1>11 DEF Kept, Custody!Next

(* store(): what does not fit goes oldest first, then the recipient cap takes one list. *)
LEMMA StoreKeeps ==
  ASSUME IInv, NEW p \in Packets, NEW retirable \in BOOLEAN, Store(p, retirable)
  PROVE  Kept
<1> DEFINE all == Entries(byRecipient)
           live == Prune(Store0)
           carried == Entries(live.buckets)
           entry == [packet |-> p, storedAt |-> now, retirable |-> retirable, vote |-> NoVote]
           added == Append2(live, entry)
           fit == EvictToFit(added, maxBytes)
           capped == CapRecipients(fit)
           grown == carried \cup {entry}
           left == Entries(fit.buckets)
           final == Entries(capped.buckets)
<1>1. /\ Sound(live.buckets, live.bytes, maxBytes, now) /\ Accounted(live) /\ IsPass(live)
      /\ carried = Custody!Live(all) /\ carried \subseteq all
      /\ live.out = Custody!Leaving(Custody!Stale(all), "expired") /\ live.bytes \in Nat
  BY PruneIsSound
<1>2. UNCHANGED <<maxBytes, now, env>>
  BY DEF Store
<1>3. CASE Custody!Carries(carried, p)
  <2>1. Becomes(live) /\ UNCHANGED streak
    BY <1>3 DEF Store
  <2> HIDE DEF live
  <2>2. byRecipient' = live.buckets /\ totalBytes' = live.bytes /\ exits' = live.out
    BY <2>1 DEF Becomes
  <2>3. IInv'
    BY <1>1, <1>2, <2>2 DEF IInv
  <2>4. Entries(byRecipient') = Custody!Live(all)
    BY <1>1, <2>2
  <2>5. Custody!Store(p, retirable)
    BY <1>1, <1>2, <1>3, <2>1, <2>2, <2>4 DEF Custody!Store, Custody!env, env
  <2>6. ShedsOldest
    BY <1>1, <2>2, QuietSheds
  <2> QED BY <2>3, <2>5, <2>6 DEF Kept, Custody!Next
<1>4. CASE ~ Custody!Carries(carried, p)
  <2>1. Becomes(capped) /\ streak' = [streak EXCEPT ![p] = {}]
    BY <1>4 DEF Store
  <2>2. entry \in Custody!Entry /\ entry.packet = p /\ entry.storedAt = now
    BY DEF IInv, Sound, Custody!Entry
  <2>3. \A x \in carried : x.storedAt <= entry.storedAt /\ x \in all
    BY <1>1, <2>2, NowSound
  <2>4. entry.packet \notin Custody!PacketsOf(carried)
    BY <1>4, <2>2 DEF Custody!Carries
  <2>5. /\ Accounted(added) /\ Len(added.buckets) <= Len(live.buckets) + 1
        /\ Entries(added.buckets) = grown /\ added.out = live.out
    <3> HIDE DEF live, entry
    <3> QED BY <1>1, <2>2, <2>3, <2>4, AppendAddsOne
  <2> HIDE DEF added, entry
  <2>6. /\ Accounted(fit) /\ Len(fit.buckets) <= Len(added.buckets) /\ left \subseteq grown
        /\ left \in Custody!EvictToFit(grown, maxBytes)
        /\ fit.out = added.out \cup Custody!Leaving(grown \ left, "evictedTotal")
        /\ ~ Custody!OverHighWater(fit.bytes, maxBytes)
        /\ \A a \in grown \ left, b \in left : a.storedAt <= b.storedAt
    <3>1. maxBytes \in Nat
      BY NowSound
    <3>2. /\ Accounted(fit) /\ Len(fit.buckets) <= Len(added.buckets)
          /\ left \subseteq Entries(added.buckets)
          /\ left \in Custody!EvictToFit(Entries(added.buckets), maxBytes)
          /\ fit.out = added.out \cup Custody!Leaving(Entries(added.buckets) \ left, "evictedTotal")
          /\ ~ Custody!OverHighWater(fit.bytes, maxBytes)
          /\ \A a \in Entries(added.buckets) \ left, b \in left : a.storedAt <= b.storedAt
      BY <2>5, <3>1, EvictionDrains
    <3> HIDE DEF fit, grown
    <3> QED BY <2>5, <3>2
  <2> HIDE DEF fit
  <2>7. /\ Len(fit.buckets) <= MaxRecipients + 1 /\ fit.bytes \in Nat
        /\ MaxRecipients \in Nat
    <3>1. /\ Len(live.buckets) \in Nat /\ Len(added.buckets) \in Nat /\ Len(fit.buckets) \in Nat
      BY <1>1, <2>5, <2>6, EntriesOf DEF Accounted, Settled
    <3>2. fit.bytes \in Nat
      BY <2>6, EntriesAreSized, BytesType DEF Accounted, Settled
    <3>3. Len(live.buckets) <= MaxRecipients
      BY <1>1 DEF Sound
    <3> QED BY <2>5, <2>6, <3>1, <3>2, <3>3, PacketAssumption, BoundAssumption
  <2>8. /\ Accounted(capped) /\ Len(capped.buckets) <= MaxRecipients
        /\ final \subseteq left /\ final \in Custody!CapRecipients(left)
        /\ capped.out = fit.out \cup Custody!Leaving(left \ final, "evictedRecipients")
        /\ capped.bytes <= fit.bytes
    BY <2>6, <2>7, CapTakesOneList
  <2> HIDE DEF capped, live
  <2>9. byRecipient' = capped.buckets /\ totalBytes' = capped.bytes /\ exits' = capped.out
    BY <2>1 DEF Becomes
  <2>10. exits' = Custody!Leaving(Custody!Stale(all), "expired")
                    \cup Custody!Leaving(grown \ left, "evictedTotal")
                    \cup Custody!Leaving(left \ final, "evictedRecipients")
    BY <1>1, <2>5, <2>6, <2>8, <2>9
  <2>11. IInv'
    <3>1. \A e \in final : e.storedAt <= now
      <4>1. \A e \in final : e \in carried \/ e = entry
        BY <2>6, <2>8
      <4>2. now \in Nat /\ now <= now
        BY PacketAssumption, BoundAssumption DEF IInv, Sound
      <4> QED BY <2>2, <2>3, <4>1, <4>2
    <3>2. capped.bytes \in Nat
      BY <2>8, EntriesAreSized, BytesType DEF Accounted, Settled
    <3>3. ~ Custody!OverHighWater(capped.bytes, maxBytes)
      BY <2>6, <2>7, <2>8, <3>2, NowSound DEF Custody!OverHighWater
    <3>4. Sound(capped.buckets, capped.bytes, maxBytes, now)
      BY <2>8, <3>1, <3>3 DEF Sound, IInv, Accounted
    <3> QED BY <1>2, <2>9, <3>4 DEF IInv
  <2>12. Custody!Store(p, retirable)
    <3> DEFINE liveSet == Custody!Live(all)
    <3>1. liveSet = carried /\ ~ Custody!Carries(liveSet, p) /\ liveSet \cup {entry} = grown
      BY <1>1, <1>4
    <3>2. Entries(byRecipient') = final
      BY <2>9
    <3>3. left \in Custody!EvictToFit(liveSet \cup {entry}, maxBytes)
      BY <2>6, <3>1
    <3>4. exits' = Custody!Leaving(Custody!Stale(all), "expired")
                    \cup Custody!Leaving((liveSet \cup {entry}) \ left, "evictedTotal")
                    \cup Custody!Leaving(left \ Entries(byRecipient'), "evictedRecipients")
      BY <2>10, <3>1, <3>2
    <3>5. Entries(byRecipient') \in Custody!CapRecipients(left)
      BY <2>8, <3>2
    <3> HIDE DEF left, final, grown, liveSet, carried
    <3>6. \E keep \in Custody!EvictToFit(liveSet \cup {entry}, maxBytes) :
             /\ Entries(byRecipient') \in Custody!CapRecipients(keep)
             /\ exits' = Custody!Leaving(Custody!Stale(all), "expired")
                    \cup Custody!Leaving((liveSet \cup {entry}) \ keep, "evictedTotal")
                    \cup Custody!Leaving(keep \ Entries(byRecipient'), "evictedRecipients")
             /\ streak' = [streak EXCEPT ![p] = {}]
      BY <2>1, <3>3, <3>4, <3>5
    <3> QED BY <1>2, <3>1, <3>6 DEF Custody!Store, Custody!env, env, liveSet, entry
  <2>13. ShedsOldest
    <3> SUFFICES ASSUME NEW a \in all, NEW b \in final, <<a.packet, "evictedTotal">> \in exits'
                 PROVE  a.storedAt <= b.storedAt
      BY <2>9 DEF ShedsOldest
    <3>1. PICK x \in grown \ left : x.packet = a.packet
      BY <2>10 DEF Custody!Leaving, Custody!PacketsOf
    <3>2. x.storedAt <= b.storedAt /\ b \in grown
      BY <2>6, <2>8, <3>1
    <3>3. CASE x \in carried
      <4>1. x \in all
        BY <2>3, <3>3
      <4>2. x = a
        BY <3>1, <4>1, NowSound, PacketsAreUnique DEF Settled
      <4> QED BY <3>2, <4>2
    <3>4. CASE x = entry
      <4>1. a.storedAt <= now /\ a.storedAt \in Nat
        BY NowSound
      <4>2. b.storedAt \in Nat /\ now \in Nat
        <5>1. b \in all \/ b = entry
          BY <2>3, <3>2
        <5> QED BY <2>2, <5>1, NowSound, PacketAssumption, BoundAssumption DEF IInv, Sound
      <4> QED BY <2>2, <3>2, <3>4, <4>1, <4>2
    <3> QED BY <3>1, <3>3, <3>4
  <2> QED BY <2>11, <2>12, <2>13 DEF Kept, Custody!Next
<1> QED BY <1>3, <1>4

-----------------------------------------------------------------------------
(* An empty store is sound. *)
LEMMA InitIsSound == Init => IInv
<1> SUFFICES ASSUME Init PROVE IInv
  OBVIOUS
<1>1. Settled(<<>>) /\ Len(<<>>) = 0
  BY DEF Settled, Shaped
<1>2. Entries(<<>>) = {}
  BY <1>1, NoneLeft
<1>3. byRecipient = <<>> /\ totalBytes = 0 /\ maxBytes \in Caps /\ now = 0
  BY DEF Init
<1>4. maxBytes \in Nat /\ 0 \in 0..MaxTime /\ 0 <= MaxRecipients
  BY <1>3, PacketAssumption, BoundAssumption
<1>5. ~ Custody!OverHighWater(0, maxBytes)
  BY <1>4 DEF Custody!OverHighWater
<1>6. Sound(<<>>, 0, maxBytes, 0)
  BY <1>1, <1>2, <1>3, <1>4, <1>5, BytesOfNone DEF Sound
<1> QED BY <1>3, <1>6 DEF IInv

(* Every call keeps the invariant, steps as the promise does, and sheds oldest first. *)
LEMMA StepKeeps == IInv /\ [Next]_vars => IInv' /\ [Custody!Next]_(Custody!vars) /\ [ShedsOldest]_vars
<1> SUFFICES ASSUME IInv, [Next]_vars
             PROVE  IInv' /\ [Custody!Next]_(Custody!vars) /\ [ShedsOldest]_vars
  OBVIOUS
<1>1. ASSUME NEW p \in Packets, NEW retirable \in BOOLEAN, Store(p, retirable) PROVE Kept
  BY <1>1, StoreKeeps
<1>2. ASSUME Query PROVE Kept
  BY <1>2, QueryKeeps
<1>3. ASSUME NEW cap \in Caps, SetMaxBytes(cap) PROVE Kept
  BY <1>3, SetMaxKeeps
<1>4. ASSUME NEW p \in Packets, RemoveById(p) PROVE Kept
  BY <1>4, RemoveKeeps
<1>5. ASSUME NEW r \in InRange, NEW salt \in Salts, NEW from \in Custody!Stamps,
             NEW to \in Custody!Stamps, NEW names \in Custody!Names(salt),
             RetireSeenFor(r, salt, from, to, names)
      PROVE  Kept
  BY <1>5, RetireKeeps
<1>6. ASSUME Clear PROVE Kept
  BY <1>6, ClearKeeps
<1>7. ASSUME Environment PROVE Kept
  BY <1>7, EnvironmentKeeps
<1>8. CASE UNCHANGED vars
  <2>1. UNCHANGED <<byRecipient, totalBytes, maxBytes, now, exits, streak, seen, arrived>>
    BY <1>8 DEF vars, env
  <2>2. IInv'
    BY <2>1 DEF IInv
  <2>3. UNCHANGED Custody!vars
    BY <2>1 DEF Custody!vars, Custody!env
  <2> QED BY <1>8, <2>2, <2>3
<1>9. CASE Next
  <2>1. Kept
    BY <1>1, <1>2, <1>3, <1>4, <1>5, <1>6, <1>7, <1>9 DEF Next
  <2> QED BY <2>1 DEF Kept
<1> QED BY <1>8, <1>9

(* The invariant always holds. *)
LEMMA AlwaysSound == Spec => []IInv
  BY InitIsSound, StepKeeps, PTL DEF Spec

(* The lists have their shape, the running total is what they hold, and both bounds hold     *)
(* between any two calls: prune, the ACK, retirement, the byte bound and the recipient bound  *)
(* each keep dart's hand-written book (_totalBytes).                                           *)
THEOREM BooksAreKept == Spec => [](TypeOK /\ BytesAccounted /\ WithinBounds)
<1>1. IInv => TypeOK /\ BytesAccounted /\ WithinBounds
  <2> SUFFICES ASSUME IInv PROVE TypeOK /\ BytesAccounted /\ WithinBounds
    OBVIOUS
  <2>1. /\ Shaped(byRecipient) /\ Settled(byRecipient) /\ totalBytes \in Nat
        /\ DOMAIN byRecipient = 1..Len(byRecipient)
    BY NowSound, EntriesOf DEF Settled
  <2>2. \A i \in DOMAIN byRecipient :
          /\ byRecipient[i].list \in Seq(Custody!Entry)
          /\ byRecipient[i].list # <<>>
          /\ \A e \in ToSet(byRecipient[i].list) : To[e.packet] = byRecipient[i].to
    BY <2>1, ListsOf DEF Settled, Shaped, Filed
  <2>3. TypeOK
    BY <2>1, <2>2 DEF TypeOK, Shaped
  <2> QED BY <2>3 DEF IInv, Sound, BytesAccounted, WithinBounds
<1> QED BY <1>1, AlwaysSound, PTL

(* Eviction looks at list heads only, and still sheds the oldest first across all recipients. *)
THEOREM HeadsAreEnough == Spec => OldestShedFirst
<1>1. [ShedsOldest]_vars => [\A a, b \in Entries(byRecipient) :
          /\ <<a.packet, "evictedTotal">> \in exits'
          /\ b \in Entries(byRecipient')
          => a.storedAt <= b.storedAt]_vars
  BY DEF ShedsOldest
<1> QED BY <1>1, StepKeeps, AlwaysSound, PTL DEF Spec, OldestShedFirst

(* Every behaviour of the map of lists is a behaviour of the set of entries. *)
THEOREM ListsAreTheSet == Spec => ImplementsCustody
<1>1. Init => Custody!Init
  <2>1. Entries(<<>>) = {}
    <3>1. Settled(<<>>)
      BY DEF Settled, Shaped
    <3> QED BY <3>1, NoneLeft
  <2> QED BY <2>1 DEF Init, Custody!Init
<1> QED BY <1>1, StepKeeps, AlwaysSound, PTL DEF Spec, ImplementsCustody, Custody!Spec

(* dtn_store.dart's lists keep the promise of the set of entries, for any packets, sizes,   *)
(* recipients and caps.                                                                      *)
THEOREM PromiseIsKept == Spec => ListsKeepThePromise
  BY BooksAreKept, HeadsAreEnough, ListsAreTheSet, PTL DEF ListsKeepThePromise
=============================================================================
