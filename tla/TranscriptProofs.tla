--------------------------- MODULE TranscriptProofs ---------------------------
(***************************************************************************)
(* Proofs about Transcript, for every capacity, limit, page size and bound: *)
(* the log verifies whenever the daemon may start on it, what is published  *)
(* of a turn is what the agent put out, in order, the text shown is a       *)
(* beginning of it, the collector's copy is exact, and the event stream     *)
(* implements EventFeed.                                                    *)
(***************************************************************************)
EXTENDS Transcript, FiniteSetTheorems, SequenceTheorems, WellFoundedInduction, TLAPS

-----------------------------------------------------------------------------
(* Sets of natural numbers.                                                *)

(* A set of natural numbers that is not empty has a least element.          *)
LEMMA LeastElement ==
    ASSUME NEW N \in SUBSET Nat, N # {}
    PROVE  \E n \in N : \A m \in N : n <= m
<1> DEFINE R == OpToRel(<, Nat)
<1>1. IsWellFoundedOn(R, Nat) /\ N \subseteq Nat
  BY NatLessThanWellFounded
<1>2. PICK n \in N : \A m \in N : ~ (<<m, n>> \in R)
  <2> HIDE DEF R
  <2> QED
    BY <1>1, WFMin
<1>3. ASSUME NEW m \in N PROVE n <= m
  <2>1. m \in Nat /\ n \in Nat /\ ~ (<<m, n>> \in R)
    BY <1>2
  <2>2. m < n => <<m, n>> \in R
    BY <2>1 DEF OpToRel
  <2> HIDE DEF R
  <2>3. ~(m < n)
    BY <2>1, <2>2
  <2> QED
    BY <2>1, <2>3
<1> QED
  BY <1>3

(* Induction over the natural numbers, for a set of them.                  *)
LEMMA SetOfNaturals ==
    ASSUME NEW N \in SUBSET Nat, 0 \in N, \A n \in N : n + 1 \in N
    PROVE  N = Nat
<1> DEFINE Bad == Nat \ N
<1>1. SUFFICES ASSUME Bad # {} PROVE FALSE
  OBVIOUS
<1>2. PICK n \in Bad : \A m \in Bad : n <= m
  BY <1>1, LeastElement
<1>3. n \in Nat /\ n \notin N /\ n # 0
  OBVIOUS
<1>4. n - 1 \in Nat /\ (n - 1) + 1 = n /\ ~(n <= n - 1)
  BY <1>3
<1>5. n - 1 \in N
  BY <1>2, <1>4
<1> QED
  BY <1>3, <1>4, <1>5

-----------------------------------------------------------------------------
(* Numbers in order.                                                         *)

(* The size of two sets that have nothing in common.                         *)
LEMMA DisjointUnion ==
    ASSUME NEW S, NEW T, IsFiniteSet(S), IsFiniteSet(T), S \cap T = {}
    PROVE  IsFiniteSet(S \cup T) /\ Cardinality(S \cup T) = Cardinality(S) + Cardinality(T)
<1>1. Cardinality(S \cap T) = 0 /\ Cardinality(S) \in Nat /\ Cardinality(T) \in Nat
  BY FS_EmptySet, FS_CardinalityType
<1>2. /\ IsFiniteSet(S \cup T)
      /\ Cardinality(S \cup T) = Cardinality(S) + Cardinality(T) - Cardinality(S \cap T)
  BY FS_Union, Zenon
<1> QED
  BY <1>1, <1>2

\* The place of a number in a set.
Rank(S, n) == Cardinality({m \in S : m <= n})

(* The part of a finite set up to a number is finite, and a part of it.      *)
LEMMA RankType ==
    ASSUME NEW S \in SUBSET Nat, IsFiniteSet(S), NEW n \in Nat
    PROVE  /\ IsFiniteSet({m \in S : m <= n}) /\ Rank(S, n) \in 0..Cardinality(S)
           /\ Cardinality(S) \in Nat
<1> DEFINE T == {m \in S : m <= n}
<1>1. T \subseteq S
  OBVIOUS
<1> HIDE DEF T
<1>2. IsFiniteSet(T) /\ Cardinality(T) <= Cardinality(S) /\ Cardinality(T) \in Nat /\ Cardinality(S) \in Nat
  BY <1>1, FS_Subset, FS_CardinalityType
<1> QED
  BY <1>2 DEF T, Rank

(* A later member has more members up to it.                                 *)
LEMMA RankGrows ==
    ASSUME NEW S \in SUBSET Nat, IsFiniteSet(S), NEW m \in Nat, NEW n \in S, m < n
    PROVE  Rank(S, m) < Rank(S, n)
<1> DEFINE T == {k \in S : k <= m}
           U == {k \in S : k <= n}
<1>0. (\A k \in S : k <= m => k <= n) /\ n <= n /\ ~(n <= m)
  <2>1. n \in Nat /\ \A k \in S : k \in Nat
    OBVIOUS
  <2> QED
    BY <2>1
<1>1. T \cup {n} \subseteq U /\ n \notin T
  BY <1>0
<1>2. IsFiniteSet(T) /\ IsFiniteSet(U) /\ Rank(S, m) = Cardinality(T) /\ Rank(S, n) = Cardinality(U)
  BY RankType DEF Rank
<1> HIDE DEF T, U
<1>3. IsFiniteSet(T \cup {n}) /\ Cardinality(T \cup {n}) = Cardinality(T) + 1
  BY <1>1, <1>2, FS_AddElement
<1>4. Cardinality(T \cup {n}) <= Cardinality(U)
  BY <1>1, <1>2, FS_Subset
<1>5. Cardinality(T) \in Nat /\ Cardinality(U) \in Nat
  BY <1>2, FS_CardinalityType
<1> QED
  BY <1>2, <1>3, <1>4, <1>5

(* A member is among those up to it.                                         *)
LEMMA RankOfMember ==
    ASSUME NEW S \in SUBSET Nat, IsFiniteSet(S), NEW n \in S
    PROVE  Rank(S, n) \in 1..Cardinality(S)
<1> DEFINE T == {m \in S : m <= n}
<1>1. n \in T
  OBVIOUS
<1>2. IsFiniteSet(T) /\ Rank(S, n) = Cardinality(T) /\ Rank(S, n) \in 0..Cardinality(S)
      /\ Cardinality(S) \in Nat
  BY RankType DEF Rank
<1> HIDE DEF T
<1>3. Cardinality(T) # 0
  BY <1>1, <1>2, FS_EmptySet
<1> QED
  BY <1>2, <1>3

(* Without its least member, every other member of a set moves up by one.    *)
LEMMA RankWithoutLeast ==
    ASSUME NEW S \in SUBSET Nat, IsFiniteSet(S), NEW x \in S, \A y \in S : x <= y,
           NEW n \in S \ {x}
    PROVE  Rank(S, n) = Rank(S \ {x}, n) + 1
<1> DEFINE T == {m \in S \ {x} : m <= n}
<1>1. {m \in S : m <= n} = T \cup {x} /\ x \notin T
  OBVIOUS
<1>2. S \ {x} \in SUBSET Nat /\ IsFiniteSet(S \ {x}) /\ n \in Nat
  BY FS_Subset
<1>3. IsFiniteSet(T) /\ Rank(S \ {x}, n) = Cardinality(T)
  BY <1>2, RankType DEF Rank
<1> HIDE DEF T
<1>4. Cardinality(T \cup {x}) = Cardinality(T) + 1
  BY <1>1, <1>3, FS_AddElement
<1> QED
  BY <1>1, <1>3, <1>4 DEF Rank

(* Every place up to the size of the set is taken.                           *)
LEMMA EveryRank ==
    ASSUME NEW S \in SUBSET Nat, IsFiniteSet(S)
    PROVE  \A i \in 1..Cardinality(S) : \E n \in S : Rank(S, n) = i
<1> DEFINE All(T) == \A i \in 1..Cardinality(T) : \E n \in T : Rank(T, n) = i
           N == {k \in Nat : \A T \in SUBSET S : Cardinality(T) = k => All(T)}
<1>1. ASSUME NEW T \in SUBSET S
      PROVE  T \in SUBSET Nat /\ IsFiniteSet(T) /\ Cardinality(T) \in Nat
  BY FS_Subset, FS_CardinalityType
<1>2. 0 \in N
  OBVIOUS
<1>3. ASSUME NEW k \in N PROVE k + 1 \in N
  <2>1. SUFFICES ASSUME NEW T \in SUBSET S, Cardinality(T) = k + 1, NEW i \in 1..Cardinality(T)
                 PROVE  \E n \in T : Rank(T, n) = i
    BY <1>3
  <2>2. T # {} /\ T \in SUBSET Nat /\ IsFiniteSet(T)
    BY <1>1, <1>3, <2>1, FS_EmptySet
  <2>3. PICK x \in T : \A y \in T : x <= y
    BY <2>2, LeastElement
  <2> DEFINE U == T \ {x}
  <2>4. U \in SUBSET S /\ U \in SUBSET Nat /\ IsFiniteSet(U) /\ Cardinality(U) = k
    <3>1. IsFiniteSet(T \ {x}) /\ Cardinality(T \ {x}) = Cardinality(T) - 1
      BY <2>2, <2>3, FS_RemoveElement, Zenon
    <3> QED
      BY <1>3, <2>1, <2>2, <3>1
  <2>5. All(U)
    BY <1>3, <2>4
  <2>6. CASE i = 1
    <3>1. {m \in T : m <= x} = {x}
      <4>1. x \in Nat /\ \A m \in T : m \in Nat
        BY <2>2
      <4>2. x <= x /\ \A m \in T : m <= x => m = x
        BY <2>3, <4>1
      <4> QED
        BY <2>3, <4>2
    <3>2. Rank(T, x) = 1
      BY <3>1, FS_Singleton DEF Rank
    <3> QED
      BY <2>3, <2>6, <3>2
  <2>7. CASE i # 1
    <3>1. i - 1 \in 1..Cardinality(U)
      BY <1>3, <2>1, <2>4, <2>7
    <3>2. PICK n \in U : Rank(U, n) = i - 1
      BY <2>5, <3>1
    <3>3. Rank(T, n) = Rank(U, n) + 1
      BY <2>2, <2>3, <3>2, RankWithoutLeast
    <3> QED
      BY <2>1, <3>2, <3>3
  <2> QED
    BY <2>6, <2>7
<1>4. N = Nat
  <2> HIDE DEF N
  <2>1. N \in SUBSET Nat
    BY DEF N
  <2> QED
    BY <1>2, <1>3, <2>1, SetOfNaturals
<1> QED
  BY <1>1, <1>4

(* InOrder puts the member of rank i at place i, and every member somewhere. *)
LEMMA Ordered ==
    ASSUME NEW S \in SUBSET Nat, IsFiniteSet(S)
    PROVE  /\ Cardinality(S) \in Nat /\ InOrder(S) \in Seq(S) /\ InOrder(S) \in Seq(Nat)
           /\ Len(InOrder(S)) = Cardinality(S) /\ DOMAIN InOrder(S) = 1..Cardinality(S)
           /\ \A i \in 1..Cardinality(S) : InOrder(S)[i] \in S /\ Rank(S, InOrder(S)[i]) = i
           /\ \A n \in S : Rank(S, n) \in 1..Cardinality(S) /\ InOrder(S)[Rank(S, n)] = n
<1>1. Cardinality(S) \in Nat
  BY FS_CardinalityType
<1>2. ASSUME NEW i \in 1..Cardinality(S)
      PROVE  InOrder(S)[i] \in S /\ Rank(S, InOrder(S)[i]) = i
  <2>1. InOrder(S)[i] = CHOOSE n \in S : Rank(S, n) = i
    BY DEF InOrder, Rank
  <2>2. \E n \in S : Rank(S, n) = i
    BY EveryRank
  <2> QED
    BY <2>1, <2>2
<1>3. InOrder(S) = [i \in 1..Cardinality(S) |-> InOrder(S)[i]]
  BY DEF InOrder
<1>4. InOrder(S) \in Seq(S) /\ InOrder(S) \in Seq(Nat) /\ Len(InOrder(S)) = Cardinality(S)
      /\ DOMAIN InOrder(S) = 1..Cardinality(S)
  BY <1>1, <1>2, <1>3
<1>5. ASSUME NEW n \in S
      PROVE  Rank(S, n) \in 1..Cardinality(S) /\ InOrder(S)[Rank(S, n)] = n
  <2>1. Rank(S, n) \in 1..Cardinality(S)
    BY RankOfMember
  <2>2. PICK m \in S : m = InOrder(S)[Rank(S, n)] /\ Rank(S, m) = Rank(S, n)
    BY <1>2, <2>1
  <2>3. ~(m < n) /\ ~(n < m)
    BY <1>1, <2>1, <2>2, RankGrows, RankOfMember
  <2> QED
    BY <2>1, <2>2, <2>3
<1> QED
  BY <1>1, <1>2, <1>4, <1>5

(* A sequence with the member of rank i at place i is InOrder's.             *)
LEMMA OrderUnique ==
    ASSUME NEW S \in SUBSET Nat, IsFiniteSet(S), NEW s \in Seq(Nat), Len(s) = Cardinality(S),
           \A i \in 1..Len(s) : s[i] \in S /\ Rank(S, s[i]) = i
    PROVE  s = InOrder(S)
<1>1. /\ InOrder(S) \in Seq(Nat) /\ Len(InOrder(S)) = Cardinality(S)
      /\ \A n \in S : InOrder(S)[Rank(S, n)] = n
  BY Ordered
<1>2. ASSUME NEW i \in 1..Len(s) PROVE InOrder(S)[i] = s[i]
  BY <1>1
<1> QED
  BY <1>1, <1>2

(* The order is that of the numbers.                                         *)
LEMMA RankOrder ==
    ASSUME NEW S \in SUBSET Nat, IsFiniteSet(S), NEW m \in S, NEW n \in S
    PROVE  (m < n) <=> (Rank(S, m) < Rank(S, n))
<1>1. Rank(S, m) \in Nat /\ Rank(S, n) \in Nat
  BY RankOfMember
<1>2. m < n => Rank(S, m) < Rank(S, n)
  BY RankGrows
<1>3. n < m => Rank(S, n) < Rank(S, m)
  BY RankGrows
<1> QED
  BY <1>1, <1>2, <1>3

(* A number after all others goes to the end.                                *)
LEMMA OrderAppend ==
    ASSUME NEW S \in SUBSET Nat, IsFiniteSet(S), NEW x \in Nat, \A n \in S : n < x
    PROVE  /\ InOrder(S \cup {x}) = Append(InOrder(S), x) /\ IsFiniteSet(S \cup {x})
           /\ Cardinality(S \cup {x}) = Cardinality(S) + 1
<1> DEFINE T == S \cup {x}
           s == Append(InOrder(S), x)
<1>1. IsFiniteSet(T) /\ Cardinality(T) = Cardinality(S) + 1 /\ T \in SUBSET Nat /\ Cardinality(S) \in Nat
  BY FS_AddElement, FS_CardinalityType
<1>2. /\ InOrder(S) \in Seq(Nat) /\ Len(InOrder(S)) = Cardinality(S)
      /\ \A i \in 1..Cardinality(S) : InOrder(S)[i] \in S /\ Rank(S, InOrder(S)[i]) = i
  BY Ordered
<1>3. s \in Seq(Nat) /\ Len(s) = Cardinality(T)
  BY <1>1, <1>2
<1>4. ASSUME NEW i \in 1..Len(s) PROVE s[i] \in T /\ Rank(T, s[i]) = i
  <2>1. CASE i <= Cardinality(S)
    <3>1. s[i] = InOrder(S)[i] /\ s[i] \in S /\ Rank(S, s[i]) = i
      BY <1>1, <1>2, <1>3, <2>1
    <3>2. {m \in T : m <= s[i]} = {m \in S : m <= s[i]}
      <4>1. s[i] \in Nat /\ s[i] < x
        BY <3>1
      <4> QED
        BY <4>1
    <3> QED
      BY <3>1, <3>2 DEF Rank
  <2>2. CASE i = Cardinality(S) + 1
    <3>1. s[i] = x
      BY <1>1, <1>2, <2>2
    <3>2. {m \in T : m <= x} = T
      <4>1. \A n \in S : n \in Nat
        OBVIOUS
      <4>2. x <= x /\ \A n \in S : n <= x
        BY <4>1
      <4> QED
        BY <4>2
    <3> QED
      BY <1>1, <2>2, <3>1, <3>2 DEF Rank
  <2> QED
    BY <1>1, <1>3, <1>4, <2>1, <2>2
<1> HIDE DEF T, s
<1>5. s = InOrder(T)
  BY <1>1, <1>3, <1>4, OrderUnique
<1> QED
  BY <1>1, <1>5 DEF T, s

(* What comes after place k is in order from there on.                       *)
LEMMA OrderAfter ==
    ASSUME NEW S \in SUBSET Nat, IsFiniteSet(S), NEW k \in 0..Cardinality(S),
           NEW x \in Nat, Rank(S, x) = k
    PROVE  LET T == {n \in S : n > x}
           IN  /\ IsFiniteSet(T) /\ Cardinality(T) = Cardinality(S) - k
               /\ \A i \in 1..Cardinality(T) : InOrder(T)[i] = InOrder(S)[k + i]
<1> DEFINE T == {n \in S : n > x}
           Upto == {m \in S : m <= x}
<1>0. \A m \in S : m \in Nat
  OBVIOUS
<1>1. T \in SUBSET Nat /\ T \subseteq S /\ S = T \cup Upto /\ T \cap Upto = {}
  <2>1. \A m \in S : (m <= x \/ m > x) /\ ~(m <= x /\ m > x)
    BY <1>0
  <2> QED
    BY <2>1
<1>2. IsFiniteSet(T) /\ IsFiniteSet(Upto) /\ Cardinality(Upto) = k
  BY <1>1, FS_Subset, RankType DEF Rank
<1>3. Cardinality(T) \in Nat /\ Cardinality(S) \in Nat
  BY <1>2, FS_CardinalityType
<1>4. Cardinality(S) = Cardinality(T) + k
  <2> HIDE DEF T, Upto
  <2>1. Cardinality(T \cup Upto) = Cardinality(T) + Cardinality(Upto)
    BY <1>1, <1>2, DisjointUnion
  <2> QED
    BY <1>1, <1>2, <2>1
<1>5. ASSUME NEW n \in T PROVE Rank(S, n) = Rank(T, n) + k
  <2> DEFINE V == {m \in T : m <= n}
  <2>1. {m \in S : m <= n} = V \cup Upto /\ V \cap Upto = {}
    <3>1. n \in Nat /\ n \in S /\ n > x
      BY <1>5
    <3>2. \A m \in S : (m <= x => m <= n) /\ (m <= x \/ m > x) /\ ~(m <= x /\ m > x)
      BY <1>0, <3>1
    <3> QED
      BY <3>2
  <2>2. IsFiniteSet(V) /\ Cardinality(V) = Rank(T, n)
    BY <1>1, <1>2, <1>5, RankType DEF Rank
  <2> HIDE DEF V, Upto
  <2>3. Cardinality(V \cup Upto) = Cardinality(V) + Cardinality(Upto)
    BY <1>2, <2>1, <2>2, DisjointUnion
  <2> QED
    BY <1>2, <2>1, <2>2, <2>3 DEF Rank
<1>6. ASSUME NEW i \in 1..Cardinality(T) PROVE InOrder(T)[i] = InOrder(S)[k + i]
  <2>1. PICK n \in T : n = InOrder(T)[i] /\ Rank(T, n) = i
    BY <1>1, <1>2, Ordered
  <2>2. Rank(S, n) = k + i
    BY <1>3, <1>5, <2>1
  <2> QED
    BY SMTT(30), <1>1, <2>1, <2>2, Ordered
<1> QED
  BY <1>2, <1>3, <1>4, <1>6

(* The first k numbers are those up to the k-th.                             *)
LEMMA OrderUpto ==
    ASSUME NEW S \in SUBSET Nat, IsFiniteSet(S), NEW k \in 1..Cardinality(S)
    PROVE  {InOrder(S)[i] : i \in 1..k} = {n \in S : n <= InOrder(S)[k]}
<1>1. /\ Cardinality(S) \in Nat
      /\ \A i \in 1..Cardinality(S) : InOrder(S)[i] \in S /\ Rank(S, InOrder(S)[i]) = i
      /\ \A n \in S : Rank(S, n) \in 1..Cardinality(S) /\ InOrder(S)[Rank(S, n)] = n
  BY Ordered
<1>2. \A m, n \in S : (m < n) <=> (Rank(S, m) < Rank(S, n))
  BY RankOrder
<1>3. \A m, n \in S : (m <= n) <=> ~(n < m)
  OBVIOUS
<1>4. ASSUME NEW i \in 1..k PROVE InOrder(S)[i] \in S /\ InOrder(S)[i] <= InOrder(S)[k]
  <2>1. i \in 1..Cardinality(S)
    BY <1>1, <1>4
  <2>2. ~(Rank(S, InOrder(S)[k]) < Rank(S, InOrder(S)[i]))
    BY <1>1, <1>4, <2>1
  <2> QED
    BY <1>1, <1>2, <1>3, <2>1, <2>2
<1>5. ASSUME NEW n \in S, n <= InOrder(S)[k] PROVE \E i \in 1..k : n = InOrder(S)[i]
  <2>1. ~(Rank(S, InOrder(S)[k]) < Rank(S, n))
    BY <1>1, <1>2, <1>3, <1>5
  <2>2. Rank(S, n) \in 1..k
    BY <1>1, <1>5, <2>1
  <2> QED
    BY <1>1, <1>5, <2>2
<1> QED
  BY <1>4, <1>5

-----------------------------------------------------------------------------
(* Sequences.                                                                *)

(* A prefix agrees with the whole, element by element.                       *)
LEMMA PrefixByElement ==
    ASSUME NEW S, NEW s \in Seq(S), NEW T, NEW t \in Seq(T)
    PROVE  IsPrefix(s, t) <=> (Len(s) <= Len(t) /\ \A i \in 1..Len(s) : s[i] = t[i])
<1>1. Len(s) \in Nat /\ Len(t) \in Nat
  OBVIOUS
<1>2. ASSUME Len(s) <= Len(t)
      PROVE  (SubSeq(s, 1, Len(s)) = SubSeq(t, 1, Len(s))) <=> (\A i \in 1..Len(s) : s[i] = t[i])
  <2>1. /\ SubSeq(s, 1, Len(s)) = [i \in 1..Len(s) |-> s[i]]
        /\ SubSeq(t, 1, Len(s)) = [i \in 1..Len(s) |-> t[i]]
    BY <1>1, <1>2
  <2> QED
    BY <2>1
<1> QED
  BY <1>2 DEF IsPrefix

(* The running concatenations `g` of the first k sequences of s.             *)
Flats(g, s, k) == g = [i \in 1..k |-> IF i = 1 THEN s[i] ELSE g[i - 1] \o s[i]]

(* They exist: those of the first k sequences give those of k + 1.           *)
LEMMA FlatsExist ==
    ASSUME NEW s \in Seq(Seq(Nat))
    PROVE  \A k \in Nat : k <= Len(s) => \E g : Flats(g, s, k) /\ \A i \in 1..k : g[i] \in Seq(Nat)
<1> DEFINE N == {k \in Nat : k <= Len(s) => \E g : Flats(g, s, k) /\ \A i \in 1..k : g[i] \in Seq(Nat)}
<1>1. 0 \in N
  <2>1. 1..0 = {}
    OBVIOUS
  <2>2. Flats([i \in 1..0 |-> <<>>], s, 0)
    BY <2>1 DEF Flats
  <2> QED
    BY <2>1, <2>2
<1>2. ASSUME NEW k \in N PROVE k + 1 \in N
  <2>1. SUFFICES ASSUME k + 1 <= Len(s)
                 PROVE  \E g : Flats(g, s, k + 1) /\ \A i \in 1..(k + 1) : g[i] \in Seq(Nat)
    OBVIOUS
  <2>2. PICK h : Flats(h, s, k) /\ \A i \in 1..k : h[i] \in Seq(Nat)
    BY <2>1
  <2> DEFINE g == [i \in 1..(k + 1) |-> IF i = 1 THEN s[i] ELSE h[i - 1] \o s[i]]
  <2>3. \A i \in 1..k : h[i] = IF i = 1 THEN s[i] ELSE h[i - 1] \o s[i]
    BY <2>2 DEF Flats
  <2>4. \A i \in 1..k : g[i] = h[i]
    BY <2>3
  <2>5. Flats(g, s, k + 1)
    <3>1. \A i \in 1..(k + 1) : i # 1 => i - 1 \in 1..k
      OBVIOUS
    <3>2. \A i \in 1..(k + 1) : g[i] = IF i = 1 THEN s[i] ELSE g[i - 1] \o s[i]
      BY <2>4, <3>1
    <3>3. g = [i \in 1..(k + 1) |-> g[i]]
      OBVIOUS
    <3> HIDE DEF g
    <3> QED
      BY <3>2, <3>3 DEF Flats
  <2>6. \A i \in 1..(k + 1) : s[i] \in Seq(Nat) /\ (i # 1 => i - 1 \in 1..k)
    BY <2>1
  <2>7. \A i \in 1..(k + 1) : g[i] \in Seq(Nat)
    BY <2>2, <2>6
  <2> HIDE DEF g
  <2> QED
    BY <2>5, <2>7
<1>3. N = Nat
  <2> HIDE DEF N
  <2>1. N \in SUBSET Nat
    BY DEF N
  <2> QED
    BY <1>1, <1>2, <2>1, SetOfNaturals
<1> QED
  BY <1>3

(* They depend on the sequences that come first only.                        *)
LEMMA FlatsAgree ==
    ASSUME NEW s, NEW t, NEW g, NEW h, NEW k \in Nat, NEW l \in Nat, k <= l,
           Flats(g, s, k), Flats(h, t, l), \A i \in 1..k : s[i] = t[i]
    PROVE  \A i \in 1..k : g[i] = h[i]
<1> DEFINE N == {i \in Nat : i + 1 <= k => g[i + 1] = h[i + 1]}
<1>1. \A i \in 1..k : g[i] = IF i = 1 THEN s[i] ELSE g[i - 1] \o s[i]
  BY DEF Flats
<1>2. \A i \in 1..k : h[i] = IF i = 1 THEN t[i] ELSE h[i - 1] \o t[i]
  <2>1. \A i \in 1..l : h[i] = IF i = 1 THEN t[i] ELSE h[i - 1] \o t[i]
    BY DEF Flats
  <2>2. \A i \in 1..k : i \in 1..l
    OBVIOUS
  <2> QED
    BY <2>1, <2>2
<1>3. 0 \in N
  BY <1>1, <1>2
<1>4. ASSUME NEW i \in N PROVE i + 1 \in N
  <2>1. SUFFICES ASSUME (i + 1) + 1 <= k PROVE g[(i + 1) + 1] = h[(i + 1) + 1]
    OBVIOUS
  <2>2. (i + 1) + 1 \in 1..k /\ (i + 1) + 1 # 1 /\ ((i + 1) + 1) - 1 = i + 1 /\ i + 1 <= k
    BY <2>1
  <2>3. g[i + 1] = h[i + 1]
    BY <1>4, <2>2
  <2> QED
    BY <1>1, <1>2, <2>2, <2>3
<1>5. N = Nat
  <2> HIDE DEF N
  <2>1. N \in SUBSET Nat
    BY DEF N
  <2> QED
    BY <1>3, <1>4, <2>1, SetOfNaturals
<1>6. ASSUME NEW i \in 1..k PROVE g[i] = h[i]
  <2>1. i - 1 \in Nat /\ (i - 1) + 1 = i /\ i <= k
    OBVIOUS
  <2>2. i - 1 \in N
    BY <1>5, <2>1
  <2>3. (i - 1) + 1 <= k => g[(i - 1) + 1] = h[(i - 1) + 1]
    BY <2>2
  <2> QED
    BY <2>1, <2>3
<1> QED
  BY <1>6

(* FlattenSeq is the last of them.                                           *)
LEMMA FlattenIs ==
    ASSUME NEW s \in Seq(Seq(Nat)), s # <<>>
    PROVE  \E g : Flats(g, s, Len(s)) /\ FlattenSeq(s) = g[Len(s)] /\ FlattenSeq(s) \in Seq(Nat)
<1>1. Len(s) \in Nat /\ Len(s) # 0 /\ Len(s) \in 1..Len(s)
  OBVIOUS
<1>2. FlattenSeq(s) = (CHOOSE g : Flats(g, s, Len(s)))[Len(s)]
  BY <1>1 DEF FlattenSeq, Flats
<1>3. PICK h : Flats(h, s, Len(s)) /\ \A i \in 1..Len(s) : h[i] \in Seq(Nat)
  BY <1>1, FlatsExist
<1>4. PICK g : g = (CHOOSE f : Flats(f, s, Len(s))) /\ Flats(g, s, Len(s))
  BY <1>3
<1>5. \A i \in 1..Len(s) : g[i] = h[i]
  BY <1>1, <1>3, <1>4, FlatsAgree
<1> QED
  BY <1>1, <1>2, <1>3, <1>4, <1>5

(* One sequence more is put at the end.                                      *)
LEMMA FlattenAppend ==
    ASSUME NEW s \in Seq(Seq(Nat)), NEW u \in Seq(Nat)
    PROVE  /\ FlattenSeq(s) \in Seq(Nat)
           /\ FlattenSeq(Append(s, u)) = FlattenSeq(s) \o u
<1> DEFINE t == Append(s, u)
<1>1. /\ t \in Seq(Seq(Nat)) /\ t # <<>> /\ Len(t) = Len(s) + 1 /\ Len(s) \in Nat
      /\ t[Len(t)] = u /\ \A i \in 1..Len(s) : t[i] = s[i]
  <2> DEFINE S == Seq(Nat)
  <2>1. s \in Seq(S) /\ u \in S
    OBVIOUS
  <2> HIDE DEF S
  <2>2. /\ t \in Seq(S) /\ t # <<>> /\ Len(t) = Len(s) + 1 /\ Len(s) \in Nat
        /\ t[Len(t)] = u /\ \A i \in 1..Len(s) : t[i] = s[i]
    BY <2>1
  <2> QED
    BY <2>2 DEF S
<1> HIDE DEF t
<1>2. PICK g : Flats(g, t, Len(t)) /\ FlattenSeq(t) = g[Len(t)]
  BY <1>1, FlattenIs
<1>3. Len(t) \in 1..Len(t) /\ g[Len(t)] = IF Len(t) = 1 THEN t[Len(t)] ELSE g[Len(t) - 1] \o t[Len(t)]
  <2>1. Len(t) \in 1..Len(t)
    BY <1>1
  <2> QED
    BY <1>2, <2>1 DEF Flats
<1>4. CASE s = <<>>
  <2>1. FlattenSeq(s) = <<>>
    BY <1>4 DEF FlattenSeq
  <2>2. Len(t) = 1
    BY <1>1, <1>4
  <2>3. FlattenSeq(t) = u
    BY <1>1, <1>2, <1>3, <2>2
  <2>4. <<>> \o u = u
    BY ConcatEmptySeq
  <2> QED
    BY <2>1, <2>3, <2>4 DEF t
<1>5. CASE s # <<>>
  <2>1. PICK h : Flats(h, s, Len(s)) /\ FlattenSeq(s) = h[Len(s)] /\ FlattenSeq(s) \in Seq(Nat)
    BY <1>5, FlattenIs
  <2>2. Len(s) \in 1..Len(s) /\ Len(s) <= Len(t) /\ Len(t) - 1 = Len(s) /\ Len(t) # 1
    BY <1>1, <1>5
  <2>3. \A i \in 1..Len(s) : h[i] = g[i]
    <3>1. \A i \in 1..Len(s) : s[i] = t[i]
      BY <1>1
    <3>2. Len(s) \in Nat /\ Len(t) \in Nat
      BY <1>1
    <3>3. PICK k \in Nat, l \in Nat : k = Len(s) /\ l = Len(t)
      BY <3>2
    <3>4. k <= l /\ Flats(h, s, k) /\ Flats(g, t, l) /\ \A i \in 1..k : s[i] = t[i]
      BY <1>2, <2>1, <2>2, <3>1, <3>3
    <3>5. \A i \in 1..k : h[i] = g[i]
      BY <3>4, FlatsAgree
    <3> QED
      BY <3>3, <3>5
  <2>4. FlattenSeq(t) = FlattenSeq(s) \o u
    BY <1>1, <1>2, <1>3, <2>1, <2>2, <2>3
  <2> QED
    BY <2>1, <2>4 DEF t
<1> QED
  BY <1>4, <1>5

-----------------------------------------------------------------------------
(* The inductive invariant: the log and its publisher.                       *)

Kinds == {"text", "reasoning", "event"}

\* The hash of the n-th event covers the events up to it.
HashOf(n) == [i \in 1..n |-> i]

Records == [sequence : Nat, hash : Seq(Nat), kind : Kinds \cup {"done", "hidden", "foreign"},
            offset : Nat, units : Seq(Nat)]

Chained == \A n \in DOMAIN log : log[n].sequence = n /\ log[n].hash = HashOf(n)

\* The publisher is as far as the log, or one event behind it while it holds the lock.
Behind == IF lock = "free" THEN seq = Len(log) ELSE Len(log) = seq + 1

LogOK ==
    /\ log \in Seq(Records) /\ seq \in Nat /\ Chained /\ Behind /\ chain = HashOf(seq)
    /\ lock \in {"free", "turn", "outcome", "other"} /\ (task = "sending" => lock = "turn")

-----------------------------------------------------------------------------
(* The inductive invariant: the channel.                                     *)

Entries == [id : Nat, kind : Kinds, units : Seq(Nat)]

\* The entry the publishing task works on is neither free to take nor published.
Working == task \in {"take", "row", "publish"}

ChannelType ==
    /\ emitted \in Seq(Kinds) /\ placing \in BOOLEAN /\ overflowed \in BOOLEAN
    /\ chan \in Seq(Entries) /\ Len(chan) <= Capacity /\ held \in Entries
    /\ queued \in Nat /\ accepted \in 0..ReasoningLimit
    /\ slot \in [text : Nat, reasoning : Nat]
    /\ (placing => emitted # <<>> /\ Kind \in {"text", "reasoning"})

\* An entry is known by its number, and a batch is never empty or too large.
ChannelIds ==
    /\ \A i \in DOMAIN chan : /\ chan[i].id \in 1..queued /\ held.id < chan[i].id
                              /\ Len(chan[i].units) \in 1..BatchLimit
    /\ \A i, j \in DOMAIN chan : i < j => chan[i].id < chan[j].id
    /\ held.id <= queued /\ Len(held.units) <= BatchLimit
    /\ (task \in {"recv", "take", "row", "publish", "sending"} =>
         (held = NoEntry <=> task = "recv"))
    /\ (held # NoEntry => held.id > 0 /\ held.units # <<>>)

Out      == Units(log)
Placed   == IF placing THEN Len(emitted) - 1 ELSE Len(emitted)
Taken    == IF Working THEN Len(Out) + Len(held.units) ELSE Len(Out)
End(e)   == e.units[Len(e.units)]

\* The units of a batch follow each other, and are of its kind.
Whole(e, p, kinds) ==
    \A j \in DOMAIN e.units : /\ e.units[j] = e.units[1] + (j - 1)
                              /\ e.units[j] \in 1..p /\ kinds[e.units[j]] = e.kind

\* The entries in the channel are what was put out from t + 1 to p, in pieces.
Joined(entries, t, p, kinds) ==
    /\ \A i \in DOMAIN entries : Whole(entries[i], p, kinds)
    /\ \A i \in DOMAIN entries :
         entries[i].units[1] = 1 + (IF i = 1 THEN t ELSE End(entries[i - 1]))
    /\ p = (IF entries = <<>> THEN t ELSE End(entries[Len(entries)]))

\* What is published, what the task holds and what is in the channel are, one
\* after the other, what the agent put out.
Flow ==
    /\ (Working => Whole(held, Placed, emitted) /\ held.units[1] = Len(Out) + 1)
    /\ Joined(chan, Taken, Placed, emitted)

\* The open batch is the last entry, in the channel or received and not yet taken.
LastEntry(k) ==
    /\ slot[k] = queued
    /\ IF chan = <<>> THEN task = "take" /\ held.id = queued /\ held.kind = k
       ELSE chan[Len(chan)].id = queued /\ chan[Len(chan)].kind = k

OpenIsLast ==
    /\ \A k \in {"text", "reasoning"} : slot[k] # 0 => LastEntry(k)
    /\ slot.text = 0 \/ slot.reasoning = 0

\* What is published is the beginning of what the agent put out.
OutOK == overflowed \/ (Len(Out) <= Placed /\ Out = HashOf(Len(Out)))

FlowOK == overflowed \/ task = "dead" \/ (Flow /\ OpenIsLast)

ChannelOK == ChannelType /\ ChannelIds /\ OutOK /\ FlowOK

-----------------------------------------------------------------------------
(* The inductive invariant: the text.                                        *)

TextOf(n) == {i \in 1..n : emitted[i] = "text"}
Text == Positions("text")

\* Text in the log is where its offset says.
InPlace(e) == \A j \in DOMAIN e.units : e.offset + j <= Len(Text) /\ Text[e.offset + j] = e.units[j]

TextOK ==
    \/ overflowed
    \/ /\ textOffset = Cardinality(TextOf(Len(Out)))
       /\ \A n \in DOMAIN log : log[n].kind = "text" => InPlace(log[n])
       /\ IsPrefix(rows.text, Text) /\ IsPrefix(app.text, Text)

-----------------------------------------------------------------------------
(* The inductive invariant: the stream.                                      *)

Conns == [pc : {"none", "off", "subscribed", "replay", "live"}, asked : Nat, through : Nat,
          cursor : Nat, page : Seq(Nat), pos : Nat]

\* The visible events after one number up to another.
Shown(from, to) == {n \in DOMAIN log : Visible(log[n]) /\ from < n /\ n <= to}

Beyond(m, n) == IF m > n THEN m ELSE n

StreamType ==
    /\ conn \in Conns /\ after \in 0..Len(log) /\ start \in Nat /\ got \in Seq(Nat)
    /\ inbox \in Seq(Nat) /\ (\A i \in DOMAIN inbox : inbox[i] \in 1..Len(log))
    /\ conn.pos <= seq /\ conn.asked <= Len(log) /\ conn.through <= Len(log)
    /\ after = (IF got = <<>> THEN start ELSE Last(got))
    /\ (conn.pc = "none" => got = <<>>)

Replaying ==
    /\ conn.page = InOrder(Shown(after, conn.cursor)) /\ after <= conn.cursor
    /\ conn.asked <= conn.cursor /\ conn.cursor <= Beyond(conn.asked, conn.through)
    /\ \A n \in DOMAIN log : Visible(log[n]) /\ n <= conn.pos => n <= conn.through

\* A live reader has everything up to its place in the broadcast.
Following ==
    LET reached == Beyond(Beyond(conn.through, conn.asked), conn.pos)
    IN  after <= reached /\ Shown(after, reached) = {}

StreamOK ==
    /\ StreamType
    /\ (conn.pc = "subscribed" => conn.asked = after /\ conn.page = <<>>)
    /\ (conn.pc = "replay" => Replaying)
    /\ (conn.pc = "live" => Following)

Apps == [pc : {"load", "rows", "shown"}, cursor : Nat, text : Seq(Nat), reasoning : Seq(Nat),
         snapshot : Nat, refreshing : BOOLEAN, known : BOOLEAN, running : BOOLEAN,
         refresh_pending : BOOLEAN]

\* The steps of the interface that change what it has.
AppChanges == Snapshot \/ RefreshFails \/ LoadFails \/ ApplyEvent \/ app' = Loading(app, TRUE)

\* What the interface has seen is in the log.
AppOK ==
    /\ app \in Apps /\ app.cursor \in 0..Len(log) /\ app.snapshot \in 0..Len(log)
    /\ rows \in [text : Seq(Nat), reasoning : Seq(Nat)] /\ textOffset \in Nat

-----------------------------------------------------------------------------
(* The inductive invariant: the export.                                      *)

Team == InOrder({n \in DOMAIN log : OfTeam(log[n])})

\* What the collector is to have of the team's events.
Copy == [i \in DOMAIN Team |-> [source |-> i, local |-> Team[i], hash |-> log[Team[i]].hash]]

Copies  == [source : Nat, local : Nat, hash : Seq(Nat)]
Parcels == [id : Nat, previous : Nat, head : Seq(Nat), records : Seq(Copies)]
Cursors == [source : Nat, local : Nat, head : Seq(Nat)]

CursorAt(c) == IF c = 0 THEN Audit!FirstCursor
               ELSE [source |-> c, local |-> Copy[c].local, head |-> Copy[c].hash]

\* A batch is a part of the copy, and not empty.
Reach(b) == b.previous + Len(b.records)
Slice(b) ==
    /\ b \in Parcels /\ Len(b.records) # 0 /\ Reach(b) <= Len(Copy)
    /\ \A i \in 1..Len(b.records) : b.records[i] = Copy[b.previous + i]

Had == Len(collector.records)

ExportType ==
    /\ exporter \in [pc : {"idle", "build", "put", "check", "send", "sent", "advance", "delete"},
                     cursor : Cursors, batch : Parcels]
    /\ built \in Nat
    /\ collector \in [records : Seq(Copies), batches : SUBSET Parcels]
    /\ cursor \in Cursors /\ pending \in Parcels /\ cursor.source <= Len(Copy) /\ cursor = CursorAt(cursor.source)

\* What export_once has read is what is stored, until it changes that itself.
ExporterOK ==
    /\ (exporter.pc \in {"build", "put", "check", "send", "sent", "advance"} => exporter.cursor = cursor)
    /\ (exporter.pc \in {"build", "put"} => pending = Audit!NoBatch)
    /\ (exporter.pc = "put" => Slice(exporter.batch) /\ exporter.batch.previous = cursor.source)
    /\ (exporter.pc \in {"check", "send", "sent", "advance", "delete"} =>
          pending # Audit!NoBatch /\ exporter.batch = pending)
    /\ (exporter.pc \in {"advance", "delete"} => exporter.batch \in collector.batches)
    /\ (exporter.pc = "delete" => cursor.source = Reach(exporter.batch))

\* The collector has what the cursor says, or the pending batch more.
CollectorOK ==
    /\ Had <= Len(Copy) /\ \A i \in 1..Had : collector.records[i] = Copy[i]
    /\ \A b \in collector.batches : Slice(b) /\ Reach(b) <= Had
    /\ \A b \in wire : b \in collector.batches \/ (pending # Audit!NoBatch /\ b = pending)
    /\ (pending = Audit!NoBatch => Had = cursor.source)
    /\ (pending # Audit!NoBatch =>
         /\ Slice(pending) /\ cursor.source \in {pending.previous, Reach(pending)}
         /\ \/ Had = pending.previous /\ cursor.source = Had
            \/ Had = Reach(pending) /\ pending \in collector.batches)

ExportOK == ExportType /\ ExporterOK /\ CollectorOK

BoundsOK ==
    /\ reader \in Readers /\ others \in 0..MaxOther[reader] /\ faults \in 0..MaxFaults[reader]
    /\ turn \in {"running", "ended", "stored", "publishing", "over", "dead"}
    /\ task \in {"recv", "take", "row", "publish", "sending", "dead"}

Inv == BoundsOK /\ LogOK /\ ChannelOK /\ StreamOK /\ AppOK /\ TextOK /\ ExportOK

-----------------------------------------------------------------------------
(* The log.                                                                  *)

\* An event is added to the log, with the next number and its hash.
Grows(r) ==
    /\ r \in Records /\ log' = Append(log, r)
    /\ r.sequence = Len(log) + 1 /\ r.hash = HashOf(Len(log) + 1)

(* The hashes of a sequence of events and of one event more.                 *)
LEMMA HashAppend ==
    ASSUME NEW n \in Nat
    PROVE  /\ Append(HashOf(n), n + 1) = HashOf(n + 1) /\ HashOf(n) \in Seq(Nat)
           /\ Len(HashOf(n)) = n
<1>1. HashOf(n) \in Seq(Nat) /\ Len(HashOf(n)) = n
  BY DEF HashOf
<1>2. /\ Append(HashOf(n), n + 1) \in Seq(Nat) /\ Len(Append(HashOf(n), n + 1)) = n + 1
      /\ \A i \in 1..(n + 1) : Append(HashOf(n), n + 1)[i] = i
  BY <1>1 DEF HashOf
<1>3. HashOf(n + 1) \in Seq(Nat) /\ Len(HashOf(n + 1)) = n + 1 /\ \A i \in 1..(n + 1) : HashOf(n + 1)[i] = i
  BY DEF HashOf
<1> QED
  BY <1>1, <1>2, <1>3

(* A commit adds the event with its number and hash, under the lock.         *)
LEMMA CommitGrows ==
    ASSUME LogOK, NEW p \in {"turn", "outcome", "other"}, NEW e, e.units \in Seq(Nat), e.offset \in Nat,
           e.kind \in Kinds \cup {"done", "hidden", "foreign"}, Commit(p, e),
           task' = "sending" => p = "turn" \/ task = "sending"
    PROVE  /\ LogOK' /\ seq' = seq
           /\ \E r : Grows(r) /\ r.kind = e.kind /\ r.offset = e.offset /\ r.units = e.units
<1> DEFINE r == [sequence |-> seq + 1, hash |-> Append(chain, Len(log) + 1),
                 kind |-> e.kind, offset |-> e.offset, units |-> e.units]
<1>1. /\ log' = Append(log, r) /\ lock' = p /\ seq' = seq /\ chain' = chain /\ lock = "free"
      /\ log \in Seq(Records) /\ Len(log) \in Nat /\ seq = Len(log) /\ chain = HashOf(seq) /\ Chained
  BY DEF Commit, LogOK, Behind
<1>2. r.hash = HashOf(Len(log) + 1) /\ r.hash \in Seq(Nat)
  <2>1. r.hash = Append(HashOf(Len(log)), Len(log) + 1)
    BY <1>1
  <2>2. Append(HashOf(Len(log)), Len(log) + 1) = HashOf(Len(log) + 1) /\ HashOf(Len(log) + 1) \in Seq(Nat)
    <3>1. Len(log) \in Nat /\ Len(log) + 1 \in Nat
      BY <1>1
    <3> QED
      BY <3>1, HashAppend
  <2> QED
    BY <2>1, <2>2
<1>3. /\ r \in Records /\ r.sequence = Len(log) + 1 /\ r.kind = e.kind /\ r.offset = e.offset
      /\ r.units = e.units
  BY <1>1, <1>2 DEF Records
<1> HIDE DEF r
<1>4. Grows(r)
  BY <1>1, <1>2, <1>3 DEF Grows
<1>5. /\ log' \in Seq(Records) /\ Len(log') = Len(log) + 1 /\ DOMAIN log' = 1..(Len(log) + 1)
      /\ DOMAIN log = 1..Len(log) /\ log'[Len(log) + 1] = r /\ \A n \in 1..Len(log) : log'[n] = log[n]
  BY <1>1, <1>3
<1>6. Chained'
  BY <1>1, <1>2, <1>3, <1>5 DEF Chained
<1>7. (task' = "sending" => lock' = "turn") /\ lock' \in {"free", "turn", "outcome", "other"}
  BY <1>1 DEF LogOK
<1>8. LogOK'
  BY <1>1, <1>5, <1>6, <1>7 DEF LogOK, Behind
<1> QED
  BY <1>1, <1>3, <1>4, <1>8

(* The broadcast brings the publisher up to the log.                         *)
LEMMA BroadcastLog ==
    ASSUME LogOK, NEW p \in {"turn", "outcome", "other"}, Broadcast(p), task' # "sending"
    PROVE  LogOK' /\ log' = log /\ seq' = seq + 1
<1>1. /\ lock = p /\ lock' = "free" /\ seq' = seq + 1 /\ chain' = log[Len(log)].hash /\ log' = log
      /\ Len(log) = seq + 1 /\ log \in Seq(Records) /\ seq \in Nat /\ Chained
  BY DEF Broadcast, LogOK, Behind
<1>2. Len(log) \in DOMAIN log
  BY <1>1
<1>3. chain' = HashOf(seq')
  BY <1>1, <1>2 DEF Chained
<1> QED
  BY <1>1, <1>3 DEF LogOK, Behind, Chained

(* The numbers of the stored events reach from 1 to the length of the log.   *)
LEMMA GreatestNumber ==
    ASSUME NEW N \in Nat, NEW S \in SUBSET Nat, \A n \in S : n <= N
    PROVE  /\ Max({0} \cup S) \in {0} \cup S /\ Max({0} \cup S) \in 0..N
           /\ \A n \in S : n <= Max({0} \cup S)
<1> DEFINE U == {b \in Nat : \A n \in S : n <= b}
<1>1. N \in U /\ U \in SUBSET Nat /\ U # {}
  OBVIOUS
<1>2. PICK b \in U : \A c \in U : b <= c
  BY <1>1, LeastElement
<1>3. b \in {0} \cup S
  <2>1. SUFFICES ASSUME b # 0, b \notin S PROVE FALSE
    OBVIOUS
  <2>2. b - 1 \in Nat /\ ~(b <= b - 1)
    BY <1>2, <2>1
  <2>3. \A n \in S : n \in Nat /\ n <= b /\ n # b
    BY <1>2, <2>1
  <2>4. \A n \in S : n <= b - 1
    BY <1>2, <2>3
  <2>5. b - 1 \in U
    BY <2>2, <2>4
  <2> QED
    BY <1>2, <2>2, <2>5
<1>4. b <= N /\ b \in Nat /\ \A n \in {0} \cup S : b >= n
  BY <1>1, <1>2
<1>5. Max({0} \cup S) \in {0} \cup S /\ \A n \in {0} \cup S : Max({0} \cup S) >= n
  BY <1>3, <1>4 DEF Max
<1>6. Max({0} \cup S) = b
  <2>1. \A n \in {0} \cup S : n \in Nat
    OBVIOUS
  <2> DEFINE m == Max({0} \cup S)
  <2>2. m \in Nat /\ m >= b /\ b >= m
    BY <1>3, <1>4, <1>5, <2>1
  <2> HIDE DEF m
  <2>3. m = b
    BY <1>4, <2>2
  <2> QED
    BY <2>3 DEF m
<1> QED
  BY <1>3, <1>4, <1>6

(* The daemon goes on where the log ends.                                    *)
LEMMA RestartLog ==
    ASSUME LogOK, Restart, task' = "dead"
    PROVE  LogOK' /\ log' = log /\ seq <= seq'
<1>1. /\ log' = log /\ lock' = "free" /\ log \in Seq(Records) /\ Len(log) \in Nat /\ Chained
      /\ seq' = Max({0} \cup {log[n].sequence : n \in DOMAIN log})
      /\ chain' = IF log = <<>> THEN <<>> ELSE log[Len(log)].hash
  BY DEF Restart, LogOK, Last
<1>2. {log[n].sequence : n \in DOMAIN log} = 1..Len(log)
  BY <1>1 DEF Chained
<1>3. /\ Max({0} \cup (1..Len(log))) \in 0..Len(log)
      /\ \A n \in 1..Len(log) : n <= Max({0} \cup (1..Len(log)))
  <2>1. 1..Len(log) \in SUBSET Nat /\ \A n \in 1..Len(log) : n <= Len(log)
    BY <1>1
  <2> QED
    BY <1>1, <2>1, GreatestNumber
<1>4. seq' = Len(log)
  <2>1. seq' \in 0..Len(log) /\ \A n \in 1..Len(log) : n <= seq'
    BY <1>1, <1>2, <1>3
  <2>2. Len(log) = 0 \/ Len(log) \in 1..Len(log)
    BY <1>1
  <2> QED
    BY <1>1, <2>1, <2>2
<1>5. chain' = HashOf(seq')
  <2>1. CASE log = <<>>
    <3>1. chain' = <<>> /\ seq' = 0
      BY <1>1, <1>4, <2>1
    <3>2. HashOf(0) \in Seq(Nat) /\ Len(HashOf(0)) = 0
      BY HashAppend
    <3> QED
      BY <3>1, <3>2
  <2>2. CASE log # <<>>
    <3>1. Len(log) \in DOMAIN log
      BY <1>1, <2>2
    <3> QED
      BY <1>1, <1>4, <2>2, <3>1 DEF Chained
  <2> QED
    BY <2>1, <2>2
<1>6. seq <= Len(log) /\ seq \in Nat
  BY <1>1 DEF LogOK, Behind
<1> QED
  BY <1>1, <1>4, <1>5, <1>6 DEF LogOK, Behind, Chained

-----------------------------------------------------------------------------
(* The stream.                                                               *)

(* What the log looks like with one event more.                              *)
LEMMA GrownLog ==
    ASSUME LogOK, NEW r, Grows(r)
    PROVE  /\ DOMAIN log = 1..Len(log) /\ DOMAIN log' = 1..(Len(log) + 1) /\ Len(log) \in Nat
           /\ Len(log') = Len(log) + 1 /\ log' \in Seq(Records) /\ log \in Seq(Records)
           /\ log'[Len(log) + 1] = r /\ \A n \in 1..Len(log) : log'[n] = log[n]
  BY DEF LogOK, Grows

(* Events that are added later do not show before the end of the log.        *)
LEMMA ShownGrows ==
    ASSUME LogOK, NEW r, Grows(r), NEW a \in Nat, NEW b \in Nat, b <= Len(log)
    PROVE  {n \in DOMAIN log' : Visible(log'[n]) /\ a < n /\ n <= b} = Shown(a, b)
<1>1. /\ DOMAIN log = 1..Len(log) /\ DOMAIN log' = 1..(Len(log) + 1) /\ Len(log) \in Nat
      /\ \A n \in 1..Len(log) : log'[n] = log[n]
  BY GrownLog
<1>2. \A n \in 1..(Len(log) + 1) : n <= b => n \in 1..Len(log)
  BY <1>1
<1>3. \A n \in 1..Len(log) : n \in 1..(Len(log) + 1) /\ (Visible(log'[n]) <=> Visible(log[n]))
  BY <1>1
<1> QED
  BY <1>1, <1>2, <1>3 DEF Shown

(* The bounds of the numbers a connection keeps.                             *)
LEMMA StreamBounds ==
    ASSUME LogOK, StreamOK
    PROVE  /\ Len(log) \in Nat /\ seq \in Nat /\ seq <= Len(log) /\ after \in Nat /\ after <= Len(log)
           /\ conn.pos \in Nat /\ conn.asked \in Nat /\ conn.through \in Nat /\ conn.cursor \in Nat
           /\ Beyond(conn.asked, conn.through) \in Nat /\ Beyond(conn.asked, conn.through) <= Len(log)
           /\ Beyond(Beyond(conn.through, conn.asked), conn.pos) \in Nat
           /\ Beyond(Beyond(conn.through, conn.asked), conn.pos) <= Len(log)
           /\ (conn.pc = "replay" => conn.cursor <= Len(log)) /\ conn.pos <= Len(log)
           /\ conn.asked <= Len(log) /\ conn.through <= Len(log)
<1>1. Len(log) \in Nat /\ seq \in Nat /\ seq <= Len(log)
  BY DEF LogOK, Behind
<1>2. conn \in Conns /\ after \in Nat /\ after <= Len(log) /\ conn.pos <= seq
      /\ conn.asked <= Len(log) /\ conn.through <= Len(log)
  BY <1>1 DEF StreamOK, StreamType
<1>3. conn.pos \in Nat /\ conn.asked \in Nat /\ conn.through \in Nat /\ conn.cursor \in Nat
  BY <1>2 DEF Conns
<1> QED
  BY <1>1, <1>2, <1>3 DEF Beyond, StreamOK, Replaying

(* A log that stays as it is, or is only broadcast, leaves the stream alone. *)
LEMMA StreamKept ==
    ASSUME LogOK, StreamOK, UNCHANGED stream, log' = log, seq' \in Nat, seq <= seq'
    PROVE  StreamOK'
<1>1. conn' = conn /\ after' = after /\ inbox' = inbox /\ start' = start /\ got' = got
  BY DEF stream
<1>2. seq \in Nat /\ conn.pos \in Nat /\ conn.pos <= seq
  BY StreamBounds DEF StreamOK, StreamType
<1>3. StreamType'
  BY <1>1, <1>2 DEF StreamOK, StreamType
<1> QED
  BY <1>1, <1>3 DEF StreamOK, Replaying, Following, Shown

(* Nor does an event that is added.                                          *)
LEMMA StreamGrows ==
    ASSUME LogOK, StreamOK, UNCHANGED stream, NEW r, Grows(r), seq' = seq
    PROVE  StreamOK'
<1>1. conn' = conn /\ after' = after /\ inbox' = inbox /\ start' = start /\ got' = got
  BY DEF stream
<1>2. /\ DOMAIN log = 1..Len(log) /\ DOMAIN log' = 1..(Len(log) + 1) /\ Len(log) \in Nat
      /\ Len(log') = Len(log) + 1 /\ log' \in Seq(Records)
      /\ log'[Len(log) + 1] = r /\ \A n \in 1..Len(log) : log'[n] = log[n]
  BY GrownLog
<1>3. StreamType'
  <2>0. \A n \in 1..Len(log) : n \in 1..(Len(log) + 1)
    BY <1>2
  <2>1. /\ StreamType /\ after \in 0..(Len(log) + 1) /\ conn.asked <= Len(log) + 1
        /\ conn.through <= Len(log) + 1
    BY <1>2, StreamBounds DEF StreamOK
  <2>2. \A i \in DOMAIN inbox : inbox[i] \in 1..(Len(log) + 1)
    BY <2>0, <2>1 DEF StreamType
  <2> QED
    BY <1>1, <1>2, <2>1, <2>2 DEF StreamType
<1>4. conn.pc = "replay" => Replaying'
  <2>1. SUFFICES ASSUME conn.pc = "replay" PROVE Replaying'
    OBVIOUS
  <2>2. Replaying
    BY <2>1 DEF StreamOK
  <2>3. Shown(after, conn.cursor)' = Shown(after, conn.cursor)
    <3>1. {n \in DOMAIN log' : Visible(log'[n]) /\ after < n /\ n <= conn.cursor} = Shown(after, conn.cursor)
      BY <2>1, ShownGrows, StreamBounds
    <3> QED
      BY <1>1, <3>1 DEF Shown
  <2>4. \A n \in DOMAIN log' : Visible(log'[n]) /\ n <= conn.pos => n <= conn.through
    <3>1. \A n \in 1..(Len(log) + 1) : n <= conn.pos => n \in 1..Len(log)
      BY StreamBounds
    <3> QED
      BY <1>2, <2>2, <3>1 DEF Replaying
  <2> QED
    BY <1>1, <2>2, <2>3, <2>4 DEF Replaying
<1>5. conn.pc = "live" => Following'
  <2>1. SUFFICES ASSUME conn.pc = "live" PROVE Following'
    OBVIOUS
  <2>2. Following
    BY <2>1 DEF StreamOK
  <2>3. PICK b \in Nat : b = Beyond(Beyond(conn.through, conn.asked), conn.pos) /\ b <= Len(log)
    BY StreamBounds
  <2>4. {n \in DOMAIN log' : Visible(log'[n]) /\ after < n /\ n <= b} = Shown(after, b)
    BY <2>3, ShownGrows, StreamBounds
  <2>5. after <= b /\ Shown(after, b) = {}
    BY <2>2, <2>3 DEF Following
  <2> QED
    BY <1>1, <2>3, <2>4, <2>5 DEF Following, Shown
<1> QED
  BY <1>1, <1>3, <1>4, <1>5 DEF StreamOK

(* The smaller of two numbers.                                               *)
LEMMA SmallerOf ==
    ASSUME NEW m \in Nat, NEW n \in Nat
    PROVE  Min({m, n}) = IF m <= n THEN m ELSE n
<1>1. \E x \in {m, n} : \A y \in {m, n} : x <= y
  OBVIOUS
<1>2. Min({m, n}) \in {m, n} /\ \A y \in {m, n} : Min({m, n}) <= y
  BY <1>1 DEF Min
<1> QED
  BY <1>2

(* The larger of two numbers.                                                *)
LEMMA LargerOf ==
    ASSUME NEW m \in Nat, NEW n \in Nat
    PROVE  Max({m, n}) = Beyond(m, n)
<1>1. \E x \in {m, n} : \A y \in {m, n} : x >= y
  OBVIOUS
<1>2. Max({m, n}) \in {m, n} /\ \A y \in {m, n} : Max({m, n}) >= y
  BY <1>1 DEF Max
<1> QED
  BY <1>2 DEF Beyond

(* The numbers of a part of the log are a finite set.                        *)
LEMMA PartOfLog ==
    ASSUME LogOK, NEW S \in SUBSET DOMAIN log
    PROVE  S \in SUBSET Nat /\ IsFiniteSet(S)
<1>1. DOMAIN log = 1..Len(log) /\ Len(log) \in Nat
  BY DEF LogOK
<1>2. IsFiniteSet(1..Len(log))
  BY <1>1, FS_Interval
<1> QED
  BY <1>1, <1>2, FS_Subset

\* The team's events after a number up to another.
TeamShown(a, b) == {n \in DOMAIN log : OfTeam(log[n]) /\ n > a /\ n <= b}

(* A page has the team's next events, the last of them included, or there    *)
(* are none.                                                                 *)
LEMMA PageIs ==
    ASSUME LogOK, NEW a \in Nat, NEW b \in Nat
    PROVE  \/ TeamPage(a, b) = <<>> /\ TeamShown(a, b) = {}
           \/ /\ TeamPage(a, b) # <<>> /\ Last(TeamPage(a, b)) \in TeamShown(a, b)
              /\ Range(TeamPage(a, b)) = {n \in TeamShown(a, b) : n <= Last(TeamPage(a, b))}
<1> DEFINE S == TeamShown(a, b)
           f == InOrder(S)
           k == Min({PageSize, Len(f)})
<1>1. {n \in DOMAIN log : /\ OfTeam(log[n]) /\ log[n].sequence > a /\ log[n].sequence <= b} = S
  BY DEF TeamShown, LogOK, Chained
<1>2. TeamPage(a, b) = SubSeq(f, 1, k)
  BY <1>1 DEF TeamPage
<1>3. S \in SUBSET Nat /\ IsFiniteSet(S)
  <2>1. S \in SUBSET DOMAIN log
    BY DEF TeamShown
  <2> HIDE DEF S
  <2> QED
    BY <2>1, PartOfLog
<1>4. /\ Cardinality(S) \in Nat /\ f \in Seq(Nat) /\ Len(f) = Cardinality(S)
      /\ \A i \in 1..Cardinality(S) : f[i] \in S
  <2> HIDE DEF S
  <2> QED
    BY <1>3, Ordered
<1>5. PageSize \in Nat /\ PageSize # 0
  BY LogAssumption
<1>6. k = IF PageSize <= Len(f) THEN PageSize ELSE Len(f)
  <2> HIDE DEF f
  <2> QED
    BY <1>4, <1>5, SmallerOf
<1>7. CASE Cardinality(S) = 0
  <2>1. S = {}
    <3> HIDE DEF S
    <3> QED
      BY <1>3, <1>7, FS_EmptySet
  <2>2. k = 0
    BY <1>4, <1>5, <1>6, <1>7
  <2>3. SubSeq(f, 1, 0) = <<>>
    <3> HIDE DEF f
    <3> QED
      BY <1>4
  <2> QED
    BY <1>2, <2>1, <2>2, <2>3
<1>8. CASE Cardinality(S) # 0
  <2>1. k \in 1..Cardinality(S)
    BY <1>4, <1>5, <1>6, <1>8
  <2>2. /\ TeamPage(a, b) \in Seq(Nat) /\ Len(TeamPage(a, b)) = k
        /\ \A i \in 1..k : TeamPage(a, b)[i] = f[i]
    <3> HIDE DEF f, k
    <3> QED
      BY <1>2, <1>4, <2>1
  <2>3. TeamPage(a, b) # <<>> /\ Last(TeamPage(a, b)) = f[k] /\ Range(TeamPage(a, b)) = {f[i] : i \in 1..k}
    <3>1. PICK page \in Seq(Nat) : page = TeamPage(a, b)
      BY <2>2
    <3> HIDE DEF f, k
    <3>2. DOMAIN page = 1..k /\ page # <<>> /\ page[Len(page)] = f[k] /\ \A i \in 1..k : page[i] = f[i]
      BY <1>4, <2>1, <2>2, <3>1
    <3>3. {page[i] : i \in DOMAIN page} = {f[i] : i \in 1..k}
      BY <3>2
    <3> QED
      BY <3>1, <3>2, <3>3 DEF Last, Range
  <2>4. {f[i] : i \in 1..k} = {n \in S : n <= f[k]} /\ f[k] \in S
    <3> HIDE DEF S, k
    <3> QED
      BY <1>3, <1>4, <2>1, OrderUpto
  <2> QED
    BY <2>3, <2>4
<1> QED
  BY <1>7, <1>8

(* The stream is started at a number of the log, nothing received so far.    *)
LEMMA StartStreamOK ==
    ASSUME LogOK, StreamOK, NEW a \in 0..Len(log), StartStream(a), UNCHANGED publisher
    PROVE  StreamOK'
<1>1. /\ conn' = NoConn /\ after' = a /\ start' = a /\ inbox' = inbox /\ got' = got /\ got = <<>>
      /\ log' = log /\ seq' = seq
  BY DEF StartStream, publisher, StreamOK, StreamType
<1>2. /\ NoConn \in Conns /\ NoConn.pos = 0 /\ NoConn.asked = 0 /\ NoConn.through = 0
      /\ NoConn.pc = "off"
  BY DEF NoConn, Conns
<1>3. StreamType'
  BY <1>1, <1>2, StreamBounds DEF StreamOK, StreamType
<1> QED
  BY <1>1, <1>2, <1>3 DEF StreamOK

(* A connection that is gone leaves the reader with what it has.             *)
LEMMA Disconnected ==
    ASSUME LogOK, StreamOK, conn' = NoConn \/ (conn' = conn /\ conn.pc = "none"), log' = log,
           seq' \in Nat, seq <= seq', UNCHANGED <<after, inbox, start, got>>
    PROVE  StreamOK'
<1>1. /\ after' = after /\ start' = start /\ inbox' = inbox /\ got' = got
  OBVIOUS
<1>2. /\ NoConn \in Conns /\ NoConn.pos = 0 /\ NoConn.asked = 0 /\ NoConn.through = 0
      /\ NoConn.pc = "off"
  BY DEF NoConn, Conns
<1>3. CASE conn' = conn /\ conn.pc = "none"
  BY <1>1, <1>3, StreamKept DEF stream
<1>4. CASE conn' = NoConn
  <2>1. StreamType'
    BY SMTT(30), <1>1, <1>2, <1>4, StreamBounds DEF StreamOK, StreamType
  <2> QED
    BY <1>2, <1>4, <2>1 DEF StreamOK
<1> QED
  BY <1>3, <1>4

(* A reader subscribes where the broadcast is.                               *)
LEMMA ConnectOK ==
    ASSUME LogOK, StreamOK, Connect, UNCHANGED <<after, inbox, start, got>>, UNCHANGED publisher
    PROVE  StreamOK'
<1>1. /\ log' = log /\ seq' = seq /\ after' = after /\ inbox' = inbox /\ start' = start /\ got' = got
      /\ conn.pc = "off"
  BY DEF publisher, Connect
<1>2. conn' = [pc |-> "subscribed", asked |-> after, through |-> 0, cursor |-> 0, page |-> <<>>, pos |-> seq]
  BY DEF Connect, NoConn
<1>3. /\ conn' \in Conns /\ conn'.pc = "subscribed" /\ conn'.asked = after /\ conn'.through = 0
      /\ conn'.page = <<>> /\ conn'.pos = seq
  BY <1>2, StreamBounds DEF Conns
<1>4. StreamType'
  BY <1>1, <1>3, StreamBounds DEF StreamOK, StreamType
<1> QED
  BY <1>1, <1>3, <1>4 DEF StreamOK

(* The watermark is a number of the log, with every visible event up to it.  *)
LEMMA LatestIs ==
    ASSUME LogOK
    PROVE  TeamLatest \in 0..Len(log) /\ \A n \in DOMAIN log : OfTeam(log[n]) => n <= TeamLatest
<1> DEFINE S == {n \in DOMAIN log : OfTeam(log[n])}
<1>1. DOMAIN log = 1..Len(log) /\ Len(log) \in Nat /\ \A n \in DOMAIN log : log[n].sequence = n
  BY DEF LogOK, Chained
<1>2. {log[n].sequence : n \in {m \in DOMAIN log : OfTeam(log[m])}} = S
  BY <1>1
<1>3. S \in SUBSET Nat /\ \A n \in S : n <= Len(log)
  BY <1>1
<1>4. TeamLatest = Max({0} \cup S)
  BY <1>2 DEF TeamLatest
<1>5. Max({0} \cup S) \in 0..Len(log) /\ \A n \in S : n <= Max({0} \cup S)
  <2> HIDE DEF S
  <2> QED
    BY <1>1, <1>3, GreatestNumber
<1> QED
  BY <1>4, <1>5

(* The replay starts with nothing left out and an empty page.                *)
LEMMA WatermarkOK ==
    ASSUME LogOK, StreamOK, Watermark, UNCHANGED <<after, inbox, start, got>>, UNCHANGED publisher
    PROVE  StreamOK'
<1>1. /\ log' = log /\ seq' = seq /\ after' = after /\ inbox' = inbox /\ start' = start /\ got' = got
      /\ conn.pc = "subscribed" /\ conn \in Conns /\ conn.asked = after /\ conn.page = <<>>
  BY DEF publisher, Watermark, StreamOK, StreamType
<1>2. TeamLatest \in 0..Len(log) /\ TeamLatest \in Nat
      /\ \A n \in DOMAIN log : OfTeam(log[n]) => n <= TeamLatest
  BY LatestIs, StreamBounds
<1>3. conn' = [conn EXCEPT !.pc = "replay", !.cursor = conn.asked, !.through = TeamLatest]
  BY DEF Watermark
<1>4. /\ conn' \in Conns /\ conn'.pc = "replay" /\ conn'.asked = after /\ conn'.cursor = after
      /\ conn'.through = TeamLatest /\ conn'.page = <<>> /\ conn'.pos = conn.pos
  BY <1>1, <1>2, <1>3, StreamBounds DEF Conns
<1>5. StreamType'
  BY <1>1, <1>2, <1>4, StreamBounds DEF StreamOK, StreamType
<1>6. Shown(after, after) = {}
  <2>1. \A n \in DOMAIN log : ~(after < n /\ n <= after)
    BY StreamBounds DEF LogOK
  <2> QED
    BY <2>1 DEF Shown
<1>7. InOrder({}) = <<>>
  <2>1. InOrder({}) \in Seq(Nat) /\ Len(InOrder({})) = 0
    BY Ordered, FS_EmptySet
  <2> QED
    BY <2>1
<1>8. \A n \in DOMAIN log : Visible(log[n]) => n <= TeamLatest
  BY <1>2 DEF Visible, OfTeam
<1>9. Shown(after, conn.cursor)' = Shown(after, after)
  BY <1>1, <1>4 DEF Shown
<1>10. Replaying'
  BY <1>1, <1>2, <1>4, <1>6, <1>7, <1>8, <1>9, StreamBounds DEF Replaying, Beyond
<1> QED
  BY <1>4, <1>5, <1>10 DEF StreamOK

(* At the end of the replay the reader has everything up to its place in the *)
(* broadcast.                                                                *)
LEMMA ReplayEndsOK ==
    ASSUME LogOK, StreamOK, ReplayEnds, UNCHANGED publisher
    PROVE  StreamOK' /\ UNCHANGED <<start, got>>
<1>1. /\ log' = log /\ seq' = seq /\ after' = after /\ inbox' = inbox /\ start' = start /\ got' = got
      /\ conn.pc = "replay" /\ conn \in Conns /\ conn.page = <<>> /\ conn.cursor >= conn.through
      /\ Replaying /\ conn' = [conn EXCEPT !.pc = "live"]
  BY DEF publisher, ReplayEnds, StreamOK, StreamType
<1>2. /\ conn' \in Conns /\ conn'.pc = "live" /\ conn'.asked = conn.asked /\ conn'.cursor = conn.cursor
      /\ conn'.through = conn.through /\ conn'.page = conn.page /\ conn'.pos = conn.pos
  BY <1>1 DEF Conns
<1>3. StreamType'
  BY <1>1, <1>2 DEF StreamOK, StreamType
<1>4. conn.cursor = Beyond(conn.through, conn.asked)
  BY <1>1, StreamBounds DEF Replaying, Beyond
<1>5. Shown(after, conn.cursor) = {}
  <2>1. Shown(after, conn.cursor) \in SUBSET Nat /\ IsFiniteSet(Shown(after, conn.cursor))
    BY PartOfLog DEF Shown
  <2>2. Len(InOrder(Shown(after, conn.cursor))) = Cardinality(Shown(after, conn.cursor))
    BY <2>1, Ordered
  <2>3. Cardinality(Shown(after, conn.cursor)) = 0
    BY <1>1, <2>2 DEF Replaying
  <2> QED
    BY <2>1, <2>3, FS_EmptySet
<1>6. PICK b \in Nat : b = Beyond(conn.cursor, conn.pos)
  BY StreamBounds DEF Beyond
<1>7. Shown(after, b) = {}
  <2>1. SUFFICES ASSUME NEW n \in DOMAIN log, Visible(log[n]), after < n, n <= b PROVE FALSE
    BY DEF Shown
  <2>2. n \in Nat
    BY <2>1 DEF LogOK
  <2>3. n <= conn.cursor
    BY <1>1, <1>6, <2>1, <2>2, StreamBounds DEF Replaying, Beyond
  <2> QED
    BY <1>5, <2>1, <2>3 DEF Shown
<1>8. after <= b
  BY <1>1, <1>6, StreamBounds DEF Replaying, Beyond
<1>9. Following'
  BY <1>1, <1>2, <1>4, <1>6, <1>7, <1>8 DEF Following, Shown
<1> QED
  BY <1>1, <1>2, <1>3, <1>9 DEF StreamOK

(* A page is read: what is visible of the team's next events.                *)
LEMMA ReplayPageOK ==
    ASSUME LogOK, StreamOK, ReplayPage, UNCHANGED publisher
    PROVE  StreamOK' /\ UNCHANGED <<start, got>>
<1>1. /\ log' = log /\ seq' = seq /\ after' = after /\ inbox' = inbox /\ start' = start /\ got' = got
      /\ conn.pc = "replay" /\ conn \in Conns /\ conn.page = <<>> /\ conn.cursor < conn.through
      /\ Replaying
  BY DEF publisher, ReplayPage, StreamOK, StreamType
<1>2. PICK c \in Nat, page \in Seq(Nat) :
        /\ conn' \in Conns /\ conn'.pc = "replay" /\ conn'.asked = conn.asked /\ conn'.cursor = c
        /\ conn'.through = conn.through /\ conn'.page = page /\ conn'.pos = conn.pos
        /\ conn.cursor <= c /\ c <= conn.through /\ page = InOrder(Shown(conn.cursor, c))
  <2> DEFINE team == TeamPage(conn.cursor, conn.through)
  <2>1. \/ team = <<>> /\ TeamShown(conn.cursor, conn.through) = {}
        \/ /\ team # <<>> /\ Last(team) \in TeamShown(conn.cursor, conn.through)
           /\ Range(team) = {n \in TeamShown(conn.cursor, conn.through) : n <= Last(team)}
    BY PageIs, StreamBounds
  <2>2. conn' = IF team = <<>> THEN [conn EXCEPT !.cursor = conn.through]
                ELSE [conn EXCEPT !.cursor = log[Last(team)].sequence,
                                  !.page = InOrder({n \in Range(team) : Visible(log[n])})]
    BY DEF ReplayPage
  <2> HIDE DEF team
  <2>3. CASE team = <<>>
    <3>1. Shown(conn.cursor, conn.through) = {}
      BY <2>1, <2>3 DEF Shown, TeamShown, Visible, OfTeam
    <3>2. InOrder({}) = <<>>
      <4>1. InOrder({}) \in Seq(Nat) /\ Len(InOrder({})) = 0
        BY Ordered, FS_EmptySet
      <4> QED
        BY <4>1
    <3>3. /\ conn' \in Conns /\ conn'.pc = "replay" /\ conn'.asked = conn.asked
          /\ conn'.cursor = conn.through
          /\ conn'.through = conn.through /\ conn'.page = <<>> /\ conn'.pos = conn.pos
      BY <1>1, <2>2, <2>3 DEF Conns
    <3>4. /\ conn.through \in Nat /\ conn.cursor <= conn.through /\ conn.through <= conn.through
          /\ <<>> \in Seq(Nat) /\ <<>> = InOrder(Shown(conn.cursor, conn.through))
      BY <1>1, <3>1, <3>2, StreamBounds
    <3> QED
      BY <3>3, <3>4
  <2>4. CASE team # <<>>
    <3>1. PICK c \in DOMAIN log : c = Last(team) /\ log[c].sequence = c /\ c \in Nat
                                  /\ c > conn.cursor /\ c <= conn.through
      BY <2>1, <2>4 DEF TeamShown, LogOK, Chained
    <3>2. {n \in Range(team) : Visible(log[n])} = Shown(conn.cursor, c)
      <4>1. \A n \in DOMAIN log : n \in Nat /\ (n <= c => n <= conn.through)
        BY <3>1, StreamBounds DEF LogOK
      <4> QED
        BY <2>1, <2>4, <3>1, <4>1 DEF Shown, TeamShown, Visible, OfTeam
    <3>3. PICK page \in Seq(Nat) : page = InOrder(Shown(conn.cursor, c))
      <4>1. Shown(conn.cursor, c) \in SUBSET Nat /\ IsFiniteSet(Shown(conn.cursor, c))
        BY PartOfLog DEF Shown
      <4> QED
        BY <4>1, Ordered
    <3>4. conn' = [conn EXCEPT !.cursor = c, !.page = page]
      BY <2>2, <2>4, <3>1, <3>2, <3>3
    <3>5. /\ conn' \in Conns /\ conn'.pc = "replay" /\ conn'.asked = conn.asked /\ conn'.cursor = c
          /\ conn'.through = conn.through /\ conn'.page = page /\ conn'.pos = conn.pos
      BY <1>1, <3>1, <3>3, <3>4 DEF Conns
    <3> QED
      BY <3>1, <3>3, <3>5, StreamBounds
  <2> QED
    BY <2>3, <2>4
<1>3. StreamType'
  BY <1>1, <1>2 DEF StreamOK, StreamType
<1>4. Shown(after, conn.cursor) = {}
  <2>1. Shown(after, conn.cursor) \in SUBSET Nat /\ IsFiniteSet(Shown(after, conn.cursor))
    BY PartOfLog DEF Shown
  <2>2. Len(InOrder(Shown(after, conn.cursor))) = Cardinality(Shown(after, conn.cursor))
    BY <2>1, Ordered
  <2>3. Cardinality(Shown(after, conn.cursor)) = 0
    BY <1>1, <2>2 DEF Replaying
  <2> QED
    BY <2>1, <2>3, FS_EmptySet
<1>5. Shown(after, c) = Shown(conn.cursor, c)
  <2>1. \A n \in DOMAIN log : n \in Nat
    BY DEF LogOK
  <2>2. after <= conn.cursor
    BY <1>1 DEF Replaying
  <2>3. \A n \in DOMAIN log : (conn.cursor < n => after < n) /\ (after < n => conn.cursor < n \/ n <= conn.cursor)
    BY <2>1, <2>2, StreamBounds
  <2> QED
    BY <1>4, <2>3 DEF Shown
<1>6. Replaying'
  <2>1. Shown(after, conn.cursor)' = Shown(after, c)
    BY <1>1, <1>2 DEF Shown
  <2> QED
    BY <1>1, <1>2, <1>5, <2>1, StreamBounds DEF Replaying, Beyond
<1> QED
  BY <1>1, <1>2, <1>3, <1>6 DEF StreamOK

\* The reader is given the next visible event.
Gives(n) ==
    /\ n \in DOMAIN log /\ Visible(log[n]) /\ n > after
    /\ \A m \in DOMAIN log : Visible(log[m]) /\ m > after => m >= n
    /\ after' = n /\ got' = Append(got, n) /\ inbox' = Append(inbox, n) /\ start' = start

(* The next event is received and the reader has reached it.                 *)
LEMMA GivesType ==
    ASSUME LogOK, StreamOK, NEW n, Gives(n), UNCHANGED publisher, conn.pc # "none",
           conn' \in Conns, conn'.pc # "none", conn'.asked = conn.asked,
           conn'.through = conn.through, conn'.pos <= seq
    PROVE  StreamType'
<1>1. /\ log' = log /\ seq' = seq /\ n \in DOMAIN log /\ n \in Nat /\ n <= Len(log) /\ after' = n
      /\ got' = Append(got, n) /\ inbox' = Append(inbox, n) /\ start' = start
  BY DEF Gives, publisher, LogOK
<1>2. got \in Seq(Nat) /\ inbox \in Seq(Nat) /\ start \in Nat
  BY DEF StreamOK, StreamType
<1>3. got' \in Seq(Nat) /\ inbox' \in Seq(Nat) /\ got' # <<>> /\ Last(got') = n
  BY <1>1, <1>2 DEF Last
<1>4. n \in 0..Len(log) /\ conn'.asked <= Len(log) /\ conn'.through <= Len(log)
  BY <1>1, StreamBounds DEF StreamOK, StreamType
<1>5. \A i \in DOMAIN inbox' : inbox'[i] \in 1..Len(log)
  <2>1. \A i \in DOMAIN inbox : inbox[i] \in 1..Len(log)
    BY DEF StreamOK, StreamType
  <2>2. n \in 1..Len(log)
    BY <1>1 DEF LogOK
  <2>3. /\ DOMAIN inbox = 1..Len(inbox) /\ DOMAIN inbox' = 1..(Len(inbox) + 1) /\ Len(inbox) \in Nat
        /\ inbox'[Len(inbox) + 1] = n /\ \A i \in 1..Len(inbox) : inbox'[i] = inbox[i]
    BY <1>1, <1>2
  <2>4. \A i \in 1..(Len(inbox) + 1) : i \in 1..Len(inbox) \/ i = Len(inbox) + 1
    BY <2>3
  <2> QED
    BY <2>1, <2>2, <2>3, <2>4
<1> QED
  BY <1>1, <1>2, <1>3, <1>4, <1>5 DEF StreamType

(* The first event of a page is the next one, and the page goes on after it. *)
LEMMA ReplayEventOK ==
    ASSUME LogOK, StreamOK, ReplayEvent, UNCHANGED publisher
    PROVE  StreamOK' /\ \E n \in Nat : Gives(n)
<1>1. /\ log' = log /\ seq' = seq /\ conn.pc = "replay" /\ conn \in Conns /\ conn.page # <<>>
      /\ Replaying /\ start' = start /\ conn' = [conn EXCEPT !.page = Tail(@)]
      /\ Receive(Head(conn.page)) /\ conn.page \in Seq(Nat)
  BY DEF publisher, ReplayEvent, StreamOK, StreamType, Conns
<1> DEFINE S == Shown(after, conn.cursor)
           n == Head(conn.page)
<1>2. S \in SUBSET Nat /\ IsFiniteSet(S)
  BY PartOfLog DEF Shown
<1>3. conn.page = InOrder(S)
  BY <1>1 DEF Replaying
<1>4. /\ Cardinality(S) \in Nat /\ Len(conn.page) = Cardinality(S)
      /\ \A i \in 1..Cardinality(S) : conn.page[i] \in S /\ Rank(S, conn.page[i]) = i
      /\ \A m \in S : Rank(S, m) \in 1..Cardinality(S) /\ InOrder(S)[Rank(S, m)] = m
  <2> HIDE DEF S
  <2> QED
    BY <1>2, <1>3, Ordered
<1>5. 1 \in 1..Cardinality(S) /\ n = conn.page[1] /\ n \in S /\ Rank(S, n) = 1
  <2> HIDE DEF S
  <2>1. Len(conn.page) \in Nat /\ Len(conn.page) # 0 /\ Head(conn.page) = conn.page[1]
    BY <1>1
  <2> QED
    BY <1>4, <2>1
<1>6. n \in DOMAIN log /\ Visible(log[n]) /\ n > after /\ n <= conn.cursor /\ n \in Nat /\ log[n].sequence = n
  BY SMTT(30), <1>5, StreamBounds DEF Shown, LogOK, Chained
<1>7. \A m \in S : ~(m < n)
  <2> HIDE DEF S, n
  <2>1. \A m \in S : ~(Rank(S, m) < Rank(S, n))
    BY <1>4, <1>5
  <2> QED
    BY <1>2, <1>5, <2>1, RankOrder
<1>8. \A m \in DOMAIN log : Visible(log[m]) /\ m > after => m >= n
  <2>1. SUFFICES ASSUME NEW m \in DOMAIN log, Visible(log[m]), m > after, ~(m >= n) PROVE FALSE
    OBVIOUS
  <2>2. m \in Nat /\ m <= conn.cursor /\ m < n
    BY <1>6, <2>1, StreamBounds DEF LogOK
  <2>3. m \in S
    BY <2>1, <2>2, StreamBounds DEF Shown
  <2> QED
    BY <1>7, <2>2, <2>3
<1>9. Gives(n)
  BY <1>1, <1>6, <1>8 DEF Gives, Receive
<1>10. /\ conn' \in Conns /\ conn'.pc = "replay" /\ conn'.asked = conn.asked /\ conn'.cursor = conn.cursor
       /\ conn'.through = conn.through /\ conn'.page = Tail(conn.page) /\ conn'.pos = conn.pos
  <2>1. Tail(conn.page) \in Seq(Nat)
    BY <1>1
  <2> QED
    BY <1>1, <2>1 DEF Conns
<1>11. StreamType'
  BY <1>1, <1>9, <1>10, GivesType DEF StreamOK, StreamType
<1>12. Tail(conn.page) = InOrder(Shown(n, conn.cursor))
  <2> DEFINE T == {m \in S : m > n}
  <2>1. T = Shown(n, conn.cursor)
    <3>1. \A m \in DOMAIN log : m \in Nat /\ (m > n <=> n < m) /\ (n < m => after < m)
      BY SMTT(30), <1>6, StreamBounds DEF LogOK
    <3> QED
      BY <3>1 DEF Shown
  <2>2. /\ IsFiniteSet(T) /\ Cardinality(T) = Cardinality(S) - 1
        /\ \A i \in 1..Cardinality(T) : InOrder(T)[i] = InOrder(S)[1 + i]
    <3> HIDE DEF S
    <3>1. 1 \in 0..Cardinality(S)
      BY <1>4, <1>5
    <3> QED
      BY <1>2, <1>5, <1>6, <3>1, OrderAfter
  <2>3. InOrder(T) \in Seq(Nat) /\ Len(InOrder(T)) = Cardinality(T)
    <3>1. T \in SUBSET Nat
      BY <1>2
    <3> HIDE DEF T
    <3> QED
      BY <2>2, <3>1, Ordered
  <2> HIDE DEF S, T, n
  <2>4. /\ Tail(conn.page) \in Seq(Nat) /\ Len(Tail(conn.page)) = Len(conn.page) - 1
        /\ \A i \in 1..(Len(conn.page) - 1) : Tail(conn.page)[i] = conn.page[i + 1]
    BY <1>1
  <2>5. Tail(conn.page) = InOrder(T)
    <3>1. Len(Tail(conn.page)) = Len(InOrder(T))
      BY <1>4, <2>2, <2>3, <2>4
    <3>2. \A i \in 1..Len(InOrder(T)) : Tail(conn.page)[i] = InOrder(T)[i]
      BY <1>3, <1>4, <2>2, <2>3, <2>4
    <3> QED
      BY <2>3, <2>4, <3>1, <3>2
  <2> QED
    BY <2>1, <2>5
<1>13. Replaying'
  <2>1. after' = n
    BY <1>9 DEF Gives
  <2> HIDE DEF n
  <2>2. Shown(after, conn.cursor)' = Shown(n, conn.cursor)
    BY <1>1, <1>10, <2>1 DEF Shown
  <2> QED
    BY <1>1, <1>6, <1>10, <1>12, <2>1, <2>2 DEF Replaying
<1> QED
  BY <1>6, <1>9, <1>10, <1>11, <1>13 DEF StreamOK

(* A live event is the next one, or it is none of the reader's.              *)
LEMMA LiveEventOK ==
    ASSUME LogOK, StreamOK, LiveEvent, UNCHANGED publisher
    PROVE  StreamOK' /\ (UNCHANGED <<start, got, inbox>> \/ \E n \in Nat : Gives(n))
<1>1. /\ log' = log /\ seq' = seq /\ conn.pc = "live" /\ conn \in Conns /\ conn.pos < seq
      /\ Following /\ start' = start /\ conn' = [conn EXCEPT !.pos = @ + 1]
  BY DEF publisher, LiveEvent, StreamOK, StreamType
<1>2. PICK n \in Nat : n = conn.pos + 1 /\ n \in DOMAIN log /\ n <= seq /\ log[n].sequence = n
  BY <1>1, StreamBounds DEF LogOK, Chained
<1>3. PICK M \in Nat : M = Beyond(conn.through, conn.asked) /\ M <= Len(log)
  BY StreamBounds DEF Beyond
<1>4. IF Visible(log[n]) /\ n > M THEN Receive(n) ELSE UNCHANGED <<after, inbox, got>>
  <2>1. Max({conn.through, conn.asked}) = M
    BY <1>3, LargerOf, StreamBounds
  <2> QED
    BY <1>1, <1>2, <2>1 DEF LiveEvent, FollowsCursor
<1>5. /\ conn' \in Conns /\ conn'.pc = "live" /\ conn'.asked = conn.asked
      /\ conn'.through = conn.through /\ conn'.pos = n
  BY <1>1, <1>2 DEF Conns
<1>6. \A m \in DOMAIN log : m \in Nat
  BY DEF LogOK
<1>7. after <= Beyond(M, conn.pos) /\ \A m \in DOMAIN log : Visible(log[m]) /\ m > after => m > Beyond(M, conn.pos)
  <2>1. after <= Beyond(M, conn.pos) /\ Shown(after, Beyond(M, conn.pos)) = {} /\ Beyond(M, conn.pos) \in Nat
    BY <1>1, <1>3, StreamBounds DEF Following
  <2>2. \A m \in DOMAIN log : ~(Visible(log[m]) /\ after < m /\ m <= Beyond(M, conn.pos))
    BY <2>1 DEF Shown
  <2> QED
    BY <1>6, <2>1, <2>2, StreamBounds
<1>8. CASE Visible(log[n]) /\ n > M
  <2>1. Beyond(M, conn.pos) = conn.pos /\ n > after
    BY <1>2, <1>3, <1>7, <1>8, StreamBounds DEF Beyond
  <2>2. \A m \in DOMAIN log : Visible(log[m]) /\ m > after => m >= n
    BY <1>2, <1>6, <1>7, <2>1, StreamBounds
  <2>3. Gives(n)
    BY <1>1, <1>2, <1>4, <1>8, <2>1, <2>2 DEF Gives, Receive
  <2>4. StreamType'
    BY <1>1, <1>2, <1>5, <2>3, GivesType DEF StreamOK, StreamType
  <2>5. after' = n /\ Beyond(M, n) = n
    BY <1>8, <2>3 DEF Gives, Beyond
  <2>6. Following'
    <3>1. \A m \in DOMAIN log : ~(n < m /\ m <= n)
      BY <1>6
    <3> QED
      BY <1>1, <1>3, <1>5, <2>5, <3>1 DEF Following, Shown
  <2> QED
    BY <1>5, <2>3, <2>4, <2>6 DEF StreamOK
<1>9. CASE ~(Visible(log[n]) /\ n > M)
  <2>1. after' = after /\ inbox' = inbox /\ got' = got
    BY <1>4, <1>9
  <2>2. StreamType'
    BY <1>1, <1>2, <1>5, <2>1 DEF StreamOK, StreamType
  <2>3. after <= Beyond(M, n)
    BY <1>2, <1>3, <1>7, StreamBounds DEF Beyond
  <2>4. \A m \in DOMAIN log : ~(Visible(log[m]) /\ after < m /\ m <= Beyond(M, n))
    <3>1. SUFFICES ASSUME NEW m \in DOMAIN log, Visible(log[m]), after < m, m <= Beyond(M, n) PROVE FALSE
      OBVIOUS
    <3>2. m \in Nat /\ m > Beyond(M, conn.pos)
      BY <1>6, <1>7, <3>1, StreamBounds
    <3>3. Beyond(M, n) = IF M > n THEN M ELSE n
      BY DEF Beyond
    <3>4. /\ M \in Nat /\ n \in Nat /\ conn.pos \in Nat /\ after \in Nat
          /\ Beyond(M, conn.pos) >= conn.pos /\ Beyond(M, conn.pos) >= M
      BY <1>2, <1>7, StreamBounds DEF Beyond
    <3>5. PICK h \in Nat : h = Beyond(M, conn.pos)
      BY <1>7, <1>3, StreamBounds DEF Beyond
    <3>6. m > h /\ h >= conn.pos /\ h >= M /\ n = conn.pos + 1 /\ m <= (IF M > n THEN M ELSE n)
      BY <1>2, <3>1, <3>2, <3>3, <3>4, <3>5
    <3>7. m = n /\ n > M
      <4> HIDE DEF Beyond
      <4> QED
        BY <3>2, <3>4, <3>5, <3>6
    <3> QED
      BY <1>9, <3>1, <3>7
  <2>5. Following'
    BY <1>1, <1>3, <1>5, <2>1, <2>3, <2>4 DEF Following, Shown
  <2> QED
    BY <1>1, <1>5, <2>1, <2>2, <2>5 DEF StreamOK
<1> QED
  BY <1>8, <1>9

-----------------------------------------------------------------------------
(* The stream implements EventFeed.                                          *)

\* The visible events, in order.
Seen == InOrder({n \in DOMAIN log : Visible(log[n])})

(* What the feed calls published are the numbers of the visible events.      *)
LEMMA PublishedIsSeen ==
    ASSUME LogOK
    PROVE  /\ [i \in DOMAIN Seen |-> log[Seen[i]].sequence] = Seen
           /\ Seen \in Seq(Nat) /\ \A n \in DOMAIN log : Visible(log[n]) => \E i \in DOMAIN Seen : Seen[i] = n
           /\ \A i \in DOMAIN Seen : Seen[i] \in DOMAIN log /\ Visible(log[Seen[i]]) /\ Seen[i] \in Nat
           /\ \A i, j \in DOMAIN Seen : i < j => Seen[i] < Seen[j]
<1> DEFINE S == {n \in DOMAIN log : Visible(log[n])}
<1>1. S \in SUBSET Nat /\ IsFiniteSet(S) /\ \A n \in S : log[n].sequence = n
  BY PartOfLog DEF LogOK, Chained
<1>2. Seen = InOrder(S)
  BY DEF Seen
<1>3. /\ Cardinality(S) \in Nat /\ Seen \in Seq(Nat) /\ DOMAIN Seen = 1..Cardinality(S)
      /\ \A i \in 1..Cardinality(S) : Seen[i] \in S /\ Rank(S, Seen[i]) = i
      /\ \A n \in S : Rank(S, n) \in 1..Cardinality(S) /\ Seen[Rank(S, n)] = n
  <2> HIDE DEF S
  <2> QED
    BY <1>1, <1>2, Ordered
<1>4. \A i, j \in DOMAIN Seen : i < j => Seen[i] < Seen[j]
  <2> HIDE DEF S
  <2> QED
    BY <1>1, <1>3, RankOrder
<1>5. Seen = [i \in DOMAIN Seen |-> Seen[i]]
  BY <1>3
<1>6. \A i \in DOMAIN Seen : log[Seen[i]].sequence = Seen[i]
  BY <1>1, <1>3
<1>7. [i \in DOMAIN Seen |-> log[Seen[i]].sequence] = Seen
  BY <1>5, <1>6
<1>8. \A n \in DOMAIN log : Visible(log[n]) => \E i \in DOMAIN Seen : Seen[i] = n
  BY <1>3
<1>9. \A i \in DOMAIN Seen : Seen[i] \in DOMAIN log /\ Visible(log[Seen[i]]) /\ Seen[i] \in Nat
  BY <1>1, <1>3
<1> QED
  BY <1>3, <1>4, <1>7, <1>8, <1>9

(* To receive the next event is a step of the feed.                          *)
LEMMA GivesFeed ==
    ASSUME LogOK, StreamOK, UNCHANGED log, NEW n \in Nat, Gives(n)
    PROVE  Feed!Deliver
<1>1. /\ n \in DOMAIN log /\ Visible(log[n]) /\ n > after /\ got' = Append(got, n) /\ start' = start
      /\ \A m \in DOMAIN log : Visible(log[m]) /\ m > after => m >= n
  BY DEF Gives
<1>2. /\ [i \in DOMAIN Seen |-> log[Seen[i]].sequence] = Seen
      /\ \A m \in DOMAIN log : Visible(log[m]) => \E i \in DOMAIN Seen : Seen[i] = m
      /\ \A i \in DOMAIN Seen : Seen[i] \in DOMAIN log /\ Visible(log[Seen[i]]) /\ Seen[i] \in Nat
      /\ \A i, j \in DOMAIN Seen : i < j => Seen[i] < Seen[j]
      /\ Seen \in Seq(Nat)
  BY PublishedIsSeen
<1>3. PICK i \in DOMAIN Seen : Seen[i] = n
  BY <1>1, <1>2
<1>4. \A j \in 1..(i - 1) : Seen[j] <= after
  <2>1. SUFFICES ASSUME NEW j \in 1..(i - 1), Seen[j] > after PROVE FALSE
    <3>1. \A j \in 1..(i - 1) : j \in DOMAIN Seen
      BY <1>2
    <3> QED
      BY <1>2, <2>1, <3>1, StreamBounds
  <2>2. j \in DOMAIN Seen /\ j < i
    BY <1>2, <2>1
  <2>3. Seen[j] < n /\ Seen[j] >= n
    BY <1>1, <1>2, <1>3, <2>1, <2>2
  <2> QED
    BY <1>2, <2>2, <2>3
<1>5. after = IF got = <<>> THEN start ELSE Last(got)
  BY DEF StreamOK, StreamType
<1>6. Feed!Reached = after
  BY <1>5 DEF Feed!Reached, Feed!Last, Last
<1>7. \E k \in DOMAIN Seen : /\ Seen[k] > after /\ \A j \in 1..(k - 1) : Seen[j] <= after
                             /\ got' = Append(got, Seen[k])
  BY <1>1, <1>3, <1>4
<1>8. [i2 \in DOMAIN Seen |-> log[Seen[i2]].sequence]' = [i2 \in DOMAIN Seen |-> log[Seen[i2]].sequence]
  BY DEF Seen
<1> DEFINE F == [i2 \in DOMAIN Seen |-> log[Seen[i2]].sequence]
<1>9. (/\ \E k \in DOMAIN F : /\ F[k] > Feed!Reached /\ \A j \in 1..(k - 1) : F[j] <= Feed!Reached
                              /\ got' = Append(got, F[k])
       /\ UNCHANGED <<F, start>>) => Feed!Deliver
  BY Zenon DEF Feed!Deliver, Seen
<1>10. F = Seen /\ F' = F
  BY <1>2, <1>8
<1> HIDE DEF F
<1> QED
  BY <1>1, <1>6, <1>7, <1>9, <1>10

(* A visible event that is added is published, any other is not.             *)
LEMMA GrowsFeed ==
    ASSUME LogOK, LogOK', NEW r, Grows(r), UNCHANGED <<start, got>>
    PROVE  Feed!Publish \/ UNCHANGED Feed!vars
<1> DEFINE S == {n \in DOMAIN log : Visible(log[n])}
           x == Len(log) + 1
<1>1. /\ DOMAIN log = 1..Len(log) /\ DOMAIN log' = 1..x /\ Len(log) \in Nat
      /\ log'[x] = r /\ \A n \in 1..Len(log) : log'[n] = log[n]
  BY GrownLog
<1>2. S \in SUBSET Nat /\ IsFiniteSet(S) /\ x \in Nat /\ \A n \in S : n < x
  BY <1>1, PartOfLog
<1>3. Seen = InOrder(S) /\ Seen \in Seq(Nat) /\ [i \in DOMAIN Seen |-> log[Seen[i]].sequence] = Seen
      /\ \A i \in DOMAIN Seen : Seen[i] \in S
  BY PublishedIsSeen DEF Seen
<1>4. \A n \in 1..x : log'[n].sequence = n
  BY <1>1 DEF LogOK, Chained
<1>5. CASE Visible(r)
  <2>1. {n \in DOMAIN log' : Visible(log'[n])} = S \cup {x}
    BY <1>1, <1>5
  <2>2. Seen' = Append(Seen, x)
    <3>1. InOrder(S \cup {x}) = Append(InOrder(S), x)
      <4> HIDE DEF S, x
      <4> QED
        BY <1>2, OrderAppend
    <3> QED
      BY <1>3, <2>1, <3>1 DEF Seen
  <2>3. /\ Len(Seen') = Len(Seen) + 1 /\ SubSeq(Seen', 1, Len(Seen') - 1) = Seen
        /\ Seen'[Len(Seen')] = x /\ \A i \in DOMAIN Seen : Seen[i] < x
    BY <1>2, <1>3, <2>2
  <2> DEFINE F == [i \in DOMAIN Seen |-> log[Seen[i]].sequence]
  <2>4. F' = Seen'
    <3>1. Seen' \in Seq(Nat) /\ DOMAIN Seen' = 1..(Len(Seen) + 1) /\ Seen' = [i \in DOMAIN Seen' |-> Seen'[i]]
      BY <1>2, <1>3, <2>2
    <3>2. \A i \in DOMAIN Seen' : Seen'[i] \in 1..x
      BY <1>1, <1>2, <1>3, <2>2, <3>1
    <3>3. \A i \in DOMAIN Seen' : log'[Seen'[i]].sequence = Seen'[i]
      BY <1>4, <3>2
    <3>4. [i \in DOMAIN Seen' |-> log'[Seen'[i]].sequence] = Seen'
      BY <3>1, <3>3
    <3> QED
      BY <3>4
  <2>5. (/\ Len(F') = Len(F) + 1 /\ SubSeq(F', 1, Len(F') - 1) = F
         /\ \A i \in DOMAIN F : F[i] < F'[Len(F')]
         /\ UNCHANGED <<start, got>>) => Feed!Publish
    BY Zenon DEF Feed!Publish, Feed!Front, Feed!Last, Seen
  <2>6. F = Seen
    BY <1>3
  <2> HIDE DEF F
  <2> QED
    BY <2>3, <2>4, <2>5, <2>6
<1>6. CASE ~Visible(r)
  <2>1. {n \in DOMAIN log' : Visible(log'[n])} = S
    BY <1>1, <1>6
  <2>2. Seen' = Seen
    BY <1>3, <2>1 DEF Seen
  <2> DEFINE F == [i \in DOMAIN Seen |-> log[Seen[i]].sequence]
  <2>3. F' = F
    <3>1. \A i \in DOMAIN Seen : log'[Seen[i]].sequence = log[Seen[i]].sequence
      BY <1>1, <1>3
    <3>2. [i \in DOMAIN Seen |-> log'[Seen[i]].sequence] = F
      BY <3>1
    <3> QED
      BY <2>2, <3>2
  <2>4. UNCHANGED <<F, start, got>> => UNCHANGED Feed!vars
    BY Zenon DEF Feed!vars, Seen
  <2> HIDE DEF F
  <2> QED
    BY <2>3, <2>4
<1> QED
  BY <1>5, <1>6

(* The log, the start and what was received fix the feed.                    *)
LEMMA FeedSame ==
    ASSUME UNCHANGED <<log, start, got>>
    PROVE  UNCHANGED Feed!vars
  BY DEF Feed!vars

-----------------------------------------------------------------------------
(* Steps.                                                                    *)

\* What the publisher may do: an event is added, or broadcast, or nothing.
LogMoves ==
    \/ log' = log /\ seq' \in Nat /\ seq <= seq'
    \/ seq' = seq /\ \E r : Grows(r)

(* The publisher, unchanged.                                                 *)
LEMMA LogKept ==
    ASSUME LogOK, UNCHANGED publisher, task' = task \/ task' # "sending"
    PROVE  LogOK' /\ LogMoves
<1>1. log' = log /\ seq' = seq /\ chain' = chain /\ lock' = lock /\ seq \in Nat /\ seq <= seq
  BY DEF publisher, LogOK
<1> QED
  BY <1>1 DEF LogOK, Chained, Behind, LogMoves

(* Every step keeps the log, and adds at most one event.                     *)
LEMMA LogStep ==
    ASSUME LogOK, held \in Entries, textOffset \in Nat, Next
    PROVE  LogOK' /\ LogMoves
<1>1. CASE Agent \/ RunEnds \/ TaskRecv \/ TaskTake \/ TaskRow \/ TaskFails \/ StoreAnswer
  BY <1>1, LogKept DEF Agent, RunEnds, TaskRecv, TaskTake, TaskRow, TaskFails, StoreAnswer, turnVars
<1>2. CASE Interface \/ InterfaceFault \/ UserReturns \/ Exporter \/ ExporterFault
  BY <1>2, LogKept DEF Interface, InterfaceFault, UserReturns, Exporter, ExporterFault, turnVars
<1>3. CASE TaskPublish
  <2>1. /\ Published.units \in Seq(Nat) /\ Published.offset \in Nat /\ Published.kind \in Kinds
    BY DEF Published, Entries
  <2>2. Commit("turn", Published)
    BY <1>3 DEF TaskPublish
  <2> QED
    BY <2>1, <2>2, CommitGrows DEF LogMoves
<1>4. CASE PublishOutcome
  <2>1. PICK e : e = [kind |-> "done", units |-> <<>>, offset |-> 0]
    OBVIOUS
  <2>2. Commit("outcome", e) /\ task' = task /\ e.units \in Seq(Nat) /\ e.offset \in Nat /\ e.kind = "done"
    BY <1>4, <2>1 DEF PublishOutcome
  <2> QED
    BY <2>2, CommitGrows DEF LogMoves
<1>5. CASE PublishOther
  <2>1. PICK kind \in OtherKinds : Commit("other", [kind |-> kind, units |-> <<>>, offset |-> 0])
    BY <1>5 DEF PublishOther
  <2>2. PICK e : e = [kind |-> kind, units |-> <<>>, offset |-> 0]
    OBVIOUS
  <2>3. Commit("other", e) /\ task' = task /\ e.units \in Seq(Nat) /\ e.offset \in Nat
        /\ e.kind \in {"hidden", "foreign"}
    BY <1>5, <2>1, <2>2, TranscriptAssumption DEF PublishOther, turnVars
  <2> QED
    BY <2>3, CommitGrows DEF LogMoves
<1>6. CASE TaskSends
  <2>1. Broadcast("turn") /\ task' # "sending"
    BY <1>6 DEF TaskSends
  <2>2. LogOK' /\ log' = log /\ seq' = seq + 1
    BY <2>1, BroadcastLog
  <2> QED
    BY <2>2 DEF LogMoves, LogOK
<1>7. CASE SendOutcome \/ SendOther
  <2>1. PICK p \in {"outcome", "other"} : Broadcast(p)
    BY <1>7 DEF SendOutcome, SendOther
  <2>2. task' # "sending"
    BY <1>7, <2>1 DEF SendOutcome, SendOther, turnVars, Broadcast, LogOK
  <2>3. LogOK' /\ log' = log /\ seq' = seq + 1
    BY <2>1, <2>2, BroadcastLog
  <2> QED
    BY <2>3 DEF LogMoves, LogOK
<1>8. CASE Crash
  <2>1. Restart /\ task' = "dead"
    BY <1>8 DEF Crash
  <2>2. LogOK' /\ log' = log /\ seq <= seq'
    BY <2>1, RestartLog
  <2> QED
    BY <2>2 DEF LogMoves, LogOK
<1> QED
  BY <1>1, <1>2, <1>3, <1>4, <1>5, <1>6, <1>7, <1>8 DEF Next, TurnStep

(* Without a step of the stream the feed publishes or stutters.              *)
LEMMA StreamStays ==
    ASSUME LogOK, LogOK', LogMoves, StreamOK, UNCHANGED stream
    PROVE  StreamOK' /\ (Feed!Next \/ UNCHANGED Feed!vars)
<1>1. start' = start /\ got' = got
  BY DEF stream
<1>2. CASE log' = log /\ seq' \in Nat /\ seq <= seq'
  BY <1>1, <1>2, StreamKept, FeedSame
<1>3. CASE seq' = seq /\ \E r : Grows(r)
  <2>1. PICK r : Grows(r)
    BY <1>3
  <2>2. StreamOK'
    BY <1>3, <2>1, StreamGrows
  <2>3. Feed!Publish \/ UNCHANGED Feed!vars
    BY <1>1, <2>1, GrowsFeed
  <2> QED
    BY <2>2, <2>3 DEF Feed!Next
<1> QED
  BY <1>2, <1>3 DEF LogMoves

(* Every step keeps the stream, and is one of the feed or none of its.       *)
LEMMA StreamStepOK ==
    ASSUME LogOK, LogOK', LogMoves, StreamOK, AppOK, Next
    PROVE  StreamOK' /\ (Feed!Next \/ UNCHANGED Feed!vars)
<1>1. CASE Agent \/ RunEnds \/ TurnStep \/ TaskFails \/ PublishOther \/ Exporter \/ ExporterFault
  <2>1. UNCHANGED stream
    BY <1>1 DEF Agent, RunEnds, TurnStep, TaskRecv, TaskTake, TaskRow, TaskPublish, TaskSends, StoreAnswer,
                PublishOutcome, SendOutcome, SendOther, TaskFails, PublishOther, Exporter, ExporterFault
  <2> QED
    BY <2>1, StreamStays
<1>2. CASE Interface
  <2>1. UNCHANGED publisher /\ log' = log
    BY <1>2 DEF Interface, publisher
  <2>2. CASE UNCHANGED stream
    BY <2>2, StreamStays
  <2>3. CASE ApplyEvent
    <3>1. conn' = conn /\ after' = after /\ start' = start /\ got' = got /\ inbox # <<>> /\ inbox' = Tail(inbox)
      BY <2>3 DEF ApplyEvent
    <3>2. inbox' \in Seq(Nat) /\ seq' = seq /\ \A i \in DOMAIN inbox' : inbox'[i] \in 1..Len(log)
      <4>1. inbox \in Seq(Nat) /\ \A i \in 1..Len(inbox) : inbox[i] \in 1..Len(log)
        BY DEF StreamOK, StreamType
      <4>2. /\ inbox' \in Seq(Nat) /\ DOMAIN inbox' = 1..(Len(inbox) - 1)
            /\ \A i \in 1..(Len(inbox) - 1) : inbox'[i] = inbox[i + 1] /\ i + 1 \in 1..Len(inbox)
        BY <3>1, <4>1
      <4> QED
        BY <2>1, <4>1, <4>2 DEF publisher
    <3>3. StreamType'
      BY <2>1, <3>1, <3>2 DEF StreamOK, StreamType
    <3>4. StreamOK'
      BY <2>1, <3>1, <3>3 DEF StreamOK, Replaying, Following, Shown
    <3> QED
      BY <2>1, <3>1, <3>4, FeedSame
  <2>4. CASE StartStream(app.cursor)
    <3>1. app.cursor \in 0..Len(log)
      BY DEF AppOK
    <3>2. StreamOK'
      BY <2>1, <2>4, <3>1, StartStreamOK
    <3>3. got = <<>> /\ got' = got /\ start' \in Nat
      BY <2>4, <3>1 DEF StartStream, StreamOK, StreamType, AppOK, LogOK
    <3>4. UNCHANGED [i \in DOMAIN Seen |-> log[Seen[i]].sequence]
      BY <2>1 DEF Seen
    <3>5. Feed!Open
      BY <3>3, <3>4 DEF Feed!Open, Seen
    <3> QED
      BY <3>2, <3>5 DEF Feed!Next
  <2>5. CASE (Connect \/ Watermark) /\ UNCHANGED <<after, inbox, start, got>>
    BY <2>1, <2>5, ConnectOK, WatermarkOK, FeedSame
  <2>6. CASE ReplayPage \/ ReplayEnds
    BY <2>1, <2>6, ReplayPageOK, ReplayEndsOK, FeedSame
  <2>7. CASE ReplayEvent \/ LiveEvent
    <3>1. StreamOK' /\ (UNCHANGED <<start, got>> \/ \E n \in Nat : Gives(n))
      BY <2>1, <2>7, ReplayEventOK, LiveEventOK
    <3> QED
      BY <2>1, <3>1, GivesFeed, FeedSame DEF Feed!Next
  <2>8. CASE LagEnds
    <3>1. conn' = NoConn /\ UNCHANGED <<after, inbox, start, got>>
      BY <2>8 DEF LagEnds
    <3>2. seq' = seq /\ seq \in Nat /\ seq <= seq'
      BY <2>1 DEF publisher, LogOK
    <3>3. StreamOK'
      BY <2>1, <3>1, <3>2, Disconnected
    <3> QED
      BY <2>1, <3>1, <3>3, FeedSame
  <2> QED
    BY <1>2, <2>2, <2>3, <2>4, <2>5, <2>6, <2>7, <2>8 DEF Interface, StreamStep
<1>3. CASE InterfaceFault
  <2>1. log' = log /\ seq' = seq /\ seq \in Nat /\ seq <= seq'
    BY <1>3 DEF InterfaceFault, publisher, LogOK
  <2>2. CASE UNCHANGED stream
    BY <2>2, StreamStays
  <2>3. CASE Disconnect
    <3>1. conn' = NoConn /\ UNCHANGED <<after, inbox, start, got>>
      BY <2>3 DEF Disconnect
    <3>2. StreamOK'
      BY <2>1, <3>1, Disconnected
    <3> QED
      BY <2>1, <3>1, <3>2, FeedSame
  <2> QED
    BY <1>3, <2>2, <2>3 DEF InterfaceFault
<1>4. CASE Crash
  <2>1. /\ conn' = (IF conn.pc = "none" THEN conn ELSE NoConn) /\ UNCHANGED <<log, after, inbox, start, got>>
    BY <1>4 DEF Crash, Restart
  <2>2. seq' \in Nat /\ seq <= seq'
    <3>1. log' = log
      BY <2>1
    <3>2. ~ (\E r : Grows(r))
      BY <3>1 DEF Grows, LogOK
    <3> QED
      BY <3>2 DEF LogMoves
  <2>3. log' = log /\ (conn' = NoConn \/ (conn' = conn /\ conn.pc = "none"))
        /\ UNCHANGED <<after, inbox, start, got>>
    BY <2>1
  <2>4. StreamOK'
    BY <2>2, <2>3, Disconnected
  <2> QED
    BY <2>3, <2>4, FeedSame
<1>5. CASE UserReturns
  <2>1. UNCHANGED publisher /\ log' = log /\ UNCHANGED stream
    BY <1>5 DEF UserReturns, publisher
  <2> QED
    BY <2>1, StreamStays, FeedSame
<1> QED
  BY <1>1, <1>2, <1>3, <1>4, <1>5 DEF Next

-----------------------------------------------------------------------------
(* The interface and the rows.                                               *)

(* The positions of the units of a kind, in order.                           *)
LEMMA PositionsType ==
    ASSUME emitted \in Seq(Kinds), NEW kind
    PROVE  Positions(kind) \in Seq(Nat)
<1> DEFINE S == {i \in DOMAIN emitted : emitted[i] = kind}
<1>1. DOMAIN emitted = 1..Len(emitted) /\ Len(emitted) \in Nat
  OBVIOUS
<1>2. S \in SUBSET Nat /\ IsFiniteSet(S)
  <2>1. S \subseteq 1..Len(emitted) /\ S \in SUBSET Nat
    BY <1>1
  <2>2. IsFiniteSet(1..Len(emitted))
    BY <1>1, FS_Interval
  <2> HIDE DEF S
  <2> QED
    BY <2>1, <2>2, FS_Subset
<1> HIDE DEF S
<1>3. InOrder(S) \in Seq(Nat)
  BY <1>2, Ordered
<1> QED
  BY <1>3 DEF Positions, S

(* The interface keeps what it has of the log when the log moves on.         *)
LEMMA AppKept ==
    ASSUME LogOK, LogMoves, AppOK, UNCHANGED app, rows' \in [text : Seq(Nat), reasoning : Seq(Nat)],
           textOffset' \in Nat
    PROVE  AppOK'
<1>1. Len(log) \in Nat /\ Len(log') \in Nat /\ Len(log) <= Len(log')
  <2>1. CASE log' = log
    BY <2>1 DEF LogOK
  <2>2. CASE \E r : Grows(r)
    BY <2>2 DEF LogOK, Grows
  <2> QED
    BY <2>1, <2>2 DEF LogMoves
<1>2. app' = app /\ app.cursor \in 0..Len(log') /\ app.snapshot \in 0..Len(log')
  BY <1>1 DEF AppOK
<1> QED
  BY <1>2 DEF AppOK

(* A step of the interface that loads or applies keeps it.                   *)
LEMMA AppMoves ==
    ASSUME LogOK, StreamOK, AppOK, UNCHANGED <<log, rows, textOffset>>, AppChanges
    PROVE  AppOK'
<1>1. /\ app \in Apps /\ app.cursor \in 0..Len(log) /\ app.snapshot \in 0..Len(log) /\ Len(log) \in Nat
      /\ rows \in [text : Seq(Nat), reasoning : Seq(Nat)] /\ textOffset \in Nat
  BY DEF AppOK, LogOK
<1> DEFINE Good == {a \in Apps : a.cursor \in 0..Len(log) /\ a.snapshot \in 0..Len(log)}
<1>2. SUFFICES app' \in Good
  BY <1>1 DEF AppOK
<1>3. /\ \A a \in Good, x \in {"load", "rows", "shown"} : [a EXCEPT !.pc = x] \in Good
      /\ \A a \in Good, x \in 0..Len(log) : [a EXCEPT !.cursor = x] \in Good
      /\ \A a \in Good, x \in 0..Len(log) : [a EXCEPT !.snapshot = x] \in Good
      /\ \A a \in Good, x \in Seq(Nat) : [a EXCEPT !.text = x] \in Good
      /\ \A a \in Good, x \in Seq(Nat) : [a EXCEPT !.reasoning = x] \in Good
      /\ \A a \in Good, x \in BOOLEAN : [a EXCEPT !.refreshing = x] \in Good
      /\ \A a \in Good, x \in BOOLEAN : [a EXCEPT !.known = x] \in Good
      /\ \A a \in Good, x \in BOOLEAN : [a EXCEPT !.running = x] \in Good
      /\ \A a \in Good, x \in BOOLEAN : [a EXCEPT !.refresh_pending = x] \in Good
  <2>1. ASSUME NEW a \in Good, NEW x \in {"load", "rows", "shown"} PROVE [a EXCEPT !.pc = x] \in Good
    BY <1>1 DEF Apps
  <2>2. ASSUME NEW a \in Good, NEW x \in 0..Len(log) PROVE [a EXCEPT !.cursor = x] \in Good
    <3>1. x \in Nat /\ a \in Apps /\ a.cursor \in 0..Len(log) /\ a.snapshot \in 0..Len(log)
      BY <1>1
    <3>2. PICK b : b = [a EXCEPT !.cursor = x]
      OBVIOUS
    <3>3. b \in Apps /\ b.cursor \in 0..Len(log) /\ b.snapshot \in 0..Len(log)
      BY <3>1, <3>2 DEF Apps
    <3> QED
      BY <3>2, <3>3
  <2>3. ASSUME NEW a \in Good, NEW x \in 0..Len(log) PROVE [a EXCEPT !.snapshot = x] \in Good
    <3>1. x \in Nat /\ a \in Apps /\ a.cursor \in 0..Len(log) /\ a.snapshot \in 0..Len(log)
      BY <1>1
    <3>2. PICK b : b = [a EXCEPT !.snapshot = x]
      OBVIOUS
    <3>3. b \in Apps /\ b.cursor \in 0..Len(log) /\ b.snapshot \in 0..Len(log)
      BY <3>1, <3>2 DEF Apps
    <3> QED
      BY <3>2, <3>3
  <2>4. ASSUME NEW a \in Good, NEW x \in Seq(Nat) PROVE [a EXCEPT !.text = x] \in Good
    BY <1>1 DEF Apps
  <2>5. ASSUME NEW a \in Good, NEW x \in Seq(Nat) PROVE [a EXCEPT !.reasoning = x] \in Good
    BY <1>1 DEF Apps
  <2>6. ASSUME NEW a \in Good, NEW x \in BOOLEAN PROVE [a EXCEPT !.refreshing = x] \in Good
    BY <1>1 DEF Apps
  <2>7. ASSUME NEW a \in Good, NEW x \in BOOLEAN PROVE [a EXCEPT !.known = x] \in Good
    BY <1>1 DEF Apps
  <2>8. ASSUME NEW a \in Good, NEW x \in BOOLEAN PROVE [a EXCEPT !.running = x] \in Good
    BY <1>1 DEF Apps
  <2>9. ASSUME NEW a \in Good, NEW x \in BOOLEAN PROVE [a EXCEPT !.refresh_pending = x] \in Good
    BY <1>1 DEF Apps
  <2> HIDE DEF Good
  <2> QED
    BY <2>1, <2>2, <2>3, <2>4, <2>5, <2>6, <2>7, <2>8, <2>9
<1>4. app \in Good
  BY <1>1
<1> HIDE DEF Good
<1>5. ASSUME NEW a \in Good, NEW x \in BOOLEAN
      PROVE  Loading(a, x) \in Good
  <2>1. PICK a1 : a1 = [a EXCEPT !.pc = "load"] /\ Loading(a, x) = [a1 EXCEPT !.refreshing = x]
    BY DEF Loading
  <2>2. a1 \in Good
    BY <1>3, <2>1
  <2>3. [a1 EXCEPT !.refreshing = x] \in Good
    BY <1>3, <2>2
  <2> QED
    BY <2>1, <2>3
<1>6. CASE Snapshot
  <2>1. TeamLatest \in 0..Len(log) /\ TeamLatest \in Nat
    BY <1>1, LatestIs
  <2>2. CASE app.pc = "load" /\ app' = [app EXCEPT !.pc = "rows", !.snapshot = TeamLatest]
    <3>1. PICK a1 : a1 = [app EXCEPT !.pc = "rows"] /\ app' = [a1 EXCEPT !.snapshot = TeamLatest]
      BY <2>2
    <3>2. a1 \in Good
      BY <1>3, <1>4, <3>1
    <3> QED
      BY <1>3, <2>1, <3>1, <3>2
  <2>3. CASE app.pc = "rows" /\ app' = Loaded(app.snapshot, rows.text, rows.reasoning)
    <3>1. PICK m \in 0..Len(log) : m = Max({app.cursor, app.snapshot})
      <4>1. app.cursor \in Nat /\ app.snapshot \in Nat
        BY <1>1
      <4>2. Max({app.cursor, app.snapshot}) = Beyond(app.cursor, app.snapshot)
        BY <4>1, LargerOf
      <4> QED
        BY <1>1, <4>2 DEF Beyond
    <3>2. PICK run \in BOOLEAN : run <=> turn \in {"running", "ended"}
      OBVIOUS
    <3>3. PICK a1, a2, a3, a4, a5, a6, a7 :
            /\ a1 = [app EXCEPT !.pc = "shown"] /\ a2 = [a1 EXCEPT !.cursor = m]
            /\ a3 = [a2 EXCEPT !.text = rows.text] /\ a4 = [a3 EXCEPT !.reasoning = rows.reasoning]
            /\ a5 = [a4 EXCEPT !.refreshing = FALSE] /\ a6 = [a5 EXCEPT !.known = TRUE]
            /\ a7 = [a6 EXCEPT !.running = run] /\ app' = [a7 EXCEPT !.refresh_pending = FALSE]
      BY <2>3, <3>1, <3>2 DEF Loaded
    <3>4. rows.text \in Seq(Nat) /\ rows.reasoning \in Seq(Nat)
      BY <1>1
    <3>5. a1 \in Good /\ a2 \in Good /\ a3 \in Good /\ a4 \in Good
      BY <1>3, <1>4, <3>1, <3>3, <3>4
    <3>6. a5 \in Good /\ a6 \in Good /\ a7 \in Good
      BY <1>3, <3>2, <3>3, <3>5
    <3> QED
      BY <1>3, <3>3, <3>6
  <2> QED
    BY <1>6, <2>2, <2>3 DEF Snapshot
<1>7. CASE RefreshFails
  <2>1. PICK a1 : a1 = [app EXCEPT !.pc = "shown"] /\ app' = [a1 EXCEPT !.refreshing = FALSE]
    BY <1>7 DEF RefreshFails
  <2>2. a1 \in Good
    BY <1>3, <1>4, <2>1
  <2> QED
    BY <1>3, <2>1, <2>2
<1>8. CASE LoadFails
  <2>1. PICK text \in {rows.text, <<>>}, first \in BOOLEAN :
          app' = [app EXCEPT !.pc = "shown", !.text = text, !.reasoning = <<>>, !.known = first,
                             !.running = first, !.refresh_pending = FALSE]
    BY <1>8 DEF LoadFails
  <2>2. text \in Seq(Nat) /\ <<>> \in Seq(Nat)
    <3>1. rows.text \in Seq(Nat) /\ <<>> \in Seq(Nat)
      BY <1>1
    <3> QED
      BY <2>1, <3>1
  <2>3. PICK a1, a2, a3, a4, a5 :
          /\ a1 = [app EXCEPT !.pc = "shown"] /\ a2 = [a1 EXCEPT !.text = text]
          /\ a3 = [a2 EXCEPT !.reasoning = <<>>] /\ a4 = [a3 EXCEPT !.known = first]
          /\ a5 = [a4 EXCEPT !.running = first] /\ app' = [a5 EXCEPT !.refresh_pending = FALSE]
    BY <2>1
  <2>4. a1 \in Good /\ a2 \in Good /\ a3 \in Good
    BY <1>3, <1>4, <2>2, <2>3
  <2>5. a4 \in Good /\ a5 \in Good
    BY <1>3, <2>1, <2>3, <2>4
  <2> QED
    BY <1>3, <2>3, <2>5
<1>9. CASE ApplyEvent
  <2>1. PICK n \in DOMAIN log : app' \in Applies(log[n])
    BY SMTT(30), <1>9 DEF ApplyEvent, StreamOK, StreamType, LogOK
  <2>2. PICK e \in Records : e = log[n] /\ e.sequence \in 0..Len(log)
    BY <2>1 DEF LogOK, Chained
  <2>3. Applied(e) \in Good
    <3>0. PICK run \in BOOLEAN, due \in BOOLEAN :
            /\ run = (app.running /\ e.kind # "done")
            /\ due = (app.refresh_pending \/ (e.kind = "done" /\ app.known))
      OBVIOUS
    <3>1. PICK text, reasoning :
            /\ text = (IF e.kind = "text" /\ app.known /\ app.running THEN app.text \o e.units ELSE app.text)
            /\ reasoning = (IF e.kind = "reasoning" THEN app.reasoning \o e.units ELSE app.reasoning)
      OBVIOUS
    <3>2. text \in Seq(Nat) /\ reasoning \in Seq(Nat)
      BY <1>1, <2>2, <3>1 DEF Apps, Records
    <3>3. PICK a1, a2, a3, a4 :
            /\ a1 = [app EXCEPT !.cursor = e.sequence] /\ a2 = [a1 EXCEPT !.text = text]
            /\ a3 = [a2 EXCEPT !.reasoning = reasoning] /\ a4 = [a3 EXCEPT !.running = run]
            /\ Applied(e) = [a4 EXCEPT !.refresh_pending = due]
      BY <3>0, <3>1 DEF Applied
    <3>4. a1 \in Good /\ a2 \in Good /\ a3 \in Good
      BY <1>3, <1>4, <2>2, <3>2, <3>3
    <3>5. a4 \in Good
      BY <1>3, <3>0, <3>3, <3>4
    <3>6. [a4 EXCEPT !.refresh_pending = due] \in Good
      BY <1>3, <3>0, <3>5
    <3> QED
      BY <3>3, <3>6
  <2>4. app' \in {app, Loading(app, FALSE), Applied(e), Loading(Applied(e), TRUE)}
    BY <2>1, <2>2 DEF Applies
  <2> QED
    BY <1>4, <1>5, <2>3, <2>4
<1>10. CASE app' = Loading(app, TRUE)
  BY <1>4, <1>5, <1>10
<1> QED
  BY <1>6, <1>7, <1>8, <1>9, <1>10 DEF AppChanges

(* Every step keeps the interface and the rows.                              *)
LEMMA AppStep ==
    ASSUME LogOK, LogMoves, StreamOK, AppOK, emitted \in Seq(Kinds), held \in Entries, Next
    PROVE  AppOK'
<1>1. rows \in [text : Seq(Nat), reasoning : Seq(Nat)] /\ textOffset \in Nat
  BY DEF AppOK
<1>2. CASE Agent \/ RunEnds \/ TaskRecv \/ TaskTake \/ TaskSends \/ PublishOutcome \/ SendOutcome
           \/ SendOther \/ TaskFails \/ PublishOther \/ Exporter \/ ExporterFault \/ Crash
  <2>1. app' = app /\ rows' = rows /\ textOffset' = textOffset
    BY <1>2 DEF Agent, RunEnds, TaskRecv, TaskTake, TaskSends, PublishOutcome, SendOutcome, SendOther,
                TaskFails, PublishOther, Exporter, ExporterFault, Crash, turnVars
  <2> QED
    BY <1>1, <2>1, AppKept
<1>3. CASE TaskRow
  <2>1. app' = app /\ rows' = [rows EXCEPT !.reasoning = rows.reasoning \o held.units] /\ textOffset' = textOffset
    BY <1>3 DEF TaskRow
  <2>2. rows.reasoning \o held.units \in Seq(Nat)
    BY <1>1 DEF Entries
  <2>3. rows' \in [text : Seq(Nat), reasoning : Seq(Nat)]
    BY <1>1, <2>1, <2>2
  <2> QED
    BY <1>1, <2>1, <2>3, AppKept
<1>4. CASE TaskPublish
  <2>1. app' = app /\ rows' = rows /\ textOffset' \in Nat
    BY <1>1, <1>4 DEF TaskPublish, Entries
  <2> QED
    BY <1>1, <2>1, AppKept
<1>5. CASE StoreAnswer
  <2>1. Positions("text") \in Seq(Nat)
    BY PositionsType
  <2>2. app' = app /\ textOffset' = textOffset
        /\ (rows' = rows \/ rows' = [rows EXCEPT !.text = Positions("text")])
    BY <1>5 DEF StoreAnswer
  <2>3. rows' \in [text : Seq(Nat), reasoning : Seq(Nat)]
    BY <1>1, <2>1, <2>2
  <2> QED
    BY <1>1, <2>2, <2>3, AppKept
<1>6. CASE Interface \/ InterfaceFault \/ UserReturns
  <2>1. log' = log /\ rows' = rows /\ textOffset' = textOffset
    BY <1>6 DEF Interface, InterfaceFault, UserReturns, publisher, turnVars
  <2>2. CASE app' = app
    BY <1>1, <2>1, <2>2, AppKept
  <2>3. CASE AppChanges
    BY <2>1, <2>3, AppMoves
  <2> QED
    BY <1>6, <2>2, <2>3 DEF Interface, InterfaceFault, UserReturns, AppChanges
<1> QED
  BY <1>2, <1>3, <1>4, <1>5, <1>6 DEF Next, TurnStep

-----------------------------------------------------------------------------
(* The export.                                                               *)

(* The export orders its rows as the log does.                               *)
LEMMA SameOrder ==
    ASSUME NEW S
    PROVE  Audit!InOrder(S) = InOrder(S)
  BY DEF InOrder, Audit!InOrder, Cardinality, Audit!Cardinality

(* The team's events are numbered from 1, each with its own number and hash. *)
LEMMA CopyType ==
    ASSUME LogOK
    PROVE  /\ Team \in Seq(Nat) /\ Copy \in Seq(Copies) /\ Len(Copy) = Len(Team) /\ Len(Copy) \in Nat
           /\ DOMAIN Copy = 1..Len(Copy) /\ DOMAIN Team = 1..Len(Copy)
           /\ \A i \in 1..Len(Copy) : /\ Team[i] \in DOMAIN log /\ OfTeam(log[Team[i]])
                                      /\ Copy[i].source = i /\ Copy[i].local = Team[i] /\ Team[i] \in Nat
                                      /\ Copy[i].hash = log[Team[i]].hash /\ Copy[i].hash \in Seq(Nat)
                                      /\ log[Team[i]].sequence = Team[i] /\ Team[i] > 0
<1> DEFINE S == {n \in DOMAIN log : OfTeam(log[n])}
<1>1. S \in SUBSET Nat /\ IsFiniteSet(S)
  BY PartOfLog
<1>2. /\ Team \in Seq(Nat) /\ Len(Team) \in Nat /\ DOMAIN Team = 1..Len(Team)
      /\ \A i \in 1..Len(Team) : Team[i] \in S
  <2>1. Team = InOrder(S)
    BY DEF Team
  <2> HIDE DEF S
  <2> QED
    BY <1>1, <2>1, Ordered
<1>3. \A n \in DOMAIN log : log[n].hash \in Seq(Nat) /\ log[n].sequence = n /\ n > 0
  <2>1. log \in Seq(Records) /\ DOMAIN log = 1..Len(log) /\ Len(log) \in Nat /\ Chained
    BY DEF LogOK
  <2>2. \A n \in DOMAIN log : log[n] \in Records /\ n > 0
    BY <2>1
  <2> QED
    BY <2>1, <2>2 DEF Records, Chained
<1>4. \A i \in 1..Len(Team) : Copy[i] = [source |-> i, local |-> Team[i], hash |-> log[Team[i]].hash]
  BY <1>2 DEF Copy
<1>5. \A i \in 1..Len(Team) : Copy[i] \in Copies
  <2>1. SUFFICES ASSUME NEW i \in 1..Len(Team) PROVE Copy[i] \in Copies
    OBVIOUS
  <2>2. Team[i] \in DOMAIN log /\ Team[i] \in Nat /\ i \in Nat
    BY <1>1, <1>2, <2>1
  <2>3. log[Team[i]].hash \in Seq(Nat)
    BY <1>3, <2>2
  <2>4. PICK t \in Nat, h \in Seq(Nat) : Copy[i] = [source |-> i, local |-> t, hash |-> h]
    BY <1>4, <2>1, <2>2, <2>3
  <2> QED
    BY <2>2, <2>4 DEF Copies
<1>6. Copy \in Seq(Copies) /\ Len(Copy) = Len(Team) /\ DOMAIN Copy = 1..Len(Team)
  <2>1. Copy = [i \in 1..Len(Team) |-> Copy[i]]
    BY <1>2 DEF Copy
  <2> QED
    BY <1>2, <1>5, <2>1
<1> QED
  BY <1>2, <1>3, <1>4, <1>6

(* The copy of a longer log begins with the copy of the log.                 *)
LEMMA CopyGrows ==
    ASSUME LogOK, LogOK', NEW r, Grows(r)
    PROVE  /\ Copy \in Seq(Copies) /\ Len(Copy) \in Nat /\ Len(Copy') \in Nat /\ Len(Copy) <= Len(Copy')
           /\ \A i \in 1..Len(Copy) : Copy'[i] = Copy[i]
<1> DEFINE S == {n \in DOMAIN log : OfTeam(log[n])}
           x == Len(log) + 1
<1>1. /\ DOMAIN log = 1..Len(log) /\ DOMAIN log' = 1..x /\ Len(log) \in Nat
      /\ log'[x] = r /\ \A n \in 1..Len(log) : log'[n] = log[n]
  BY GrownLog
<1>2. S \in SUBSET Nat /\ IsFiniteSet(S) /\ x \in Nat /\ \A n \in S : n < x
  BY <1>1, PartOfLog
<1>3. /\ Team = InOrder(S) /\ Team \in Seq(Nat) /\ Len(Copy) = Len(Team) /\ Len(Copy) \in Nat
      /\ DOMAIN Team = 1..Len(Team) /\ Copy \in Seq(Copies)
      /\ \A i \in 1..Len(Team) : Team[i] \in DOMAIN log
  BY CopyType DEF Team
<1>4. /\ Team' \in Seq(Nat) /\ Len(Team') \in Nat /\ Len(Team) <= Len(Team') /\ DOMAIN Team' = 1..Len(Team')
      /\ \A i \in 1..Len(Team) : Team'[i] = Team[i]
  <2>1. CASE OfTeam(r)
    <3>1. {n \in DOMAIN log' : OfTeam(log'[n])} = S \cup {x}
      BY <1>1, <2>1
    <3>2. InOrder(S \cup {x}) = Append(InOrder(S), x)
      <4> HIDE DEF S, x
      <4> QED
        BY <1>2, OrderAppend
    <3>3. Team' = Append(Team, x)
      BY <1>3, <3>1, <3>2 DEF Team
    <3> QED
      BY <1>2, <1>3, <3>3
  <2>2. CASE ~OfTeam(r)
    <3>1. {n \in DOMAIN log' : OfTeam(log'[n])} = S
      BY <1>1, <2>2
    <3>2. Team' = Team
      BY <1>3, <3>1 DEF Team
    <3> QED
      BY <1>3, <3>2
  <2> QED
    BY <2>1, <2>2
<1>5. \A i \in 1..Len(Team) : Copy'[i] = Copy[i]
  <2>1. SUFFICES ASSUME NEW i \in 1..Len(Team) PROVE Copy'[i] = Copy[i]
    OBVIOUS
  <2>2. i \in DOMAIN Team /\ i \in DOMAIN Team' /\ Team'[i] = Team[i] /\ log'[Team[i]] = log[Team[i]]
    <3>1. Team[i] \in 1..Len(log) /\ i \in DOMAIN Team /\ Team'[i] = Team[i]
      BY <1>1, <1>3, <1>4, <2>1
    <3>2. Len(Team) \in Nat /\ i \in 1..Len(Team')
      BY <1>3, <1>4, <2>1
    <3> QED
      BY <1>1, <1>4, <3>1, <3>2
  <2>3. Copy'[i] = [source |-> i, local |-> Team'[i], hash |-> log'[Team'[i]].hash]
    BY <2>2 DEF Copy
  <2>4. Copy[i] = [source |-> i, local |-> Team[i], hash |-> log[Team[i]].hash]
    BY <2>2 DEF Copy
  <2> QED
    BY <2>2, <2>3, <2>4
<1>6. Len(Copy') = Len(Team')
  <2>1. Copy' = [i \in 1..Len(Team') |-> Copy'[i]]
    BY SMTT(30), <1>4 DEF Copy
  <2>2. PICK n \in Nat : n = Len(Team')
    BY <1>4
  <2>3. PICK f : f = Copy' /\ f = [i \in 1..n |-> f[i]]
    BY <2>1, <2>2
  <2>4. Len(f) = n
    BY <2>3
  <2> QED
    BY <2>2, <2>3, <2>4
<1> QED
  BY <1>3, <1>4, <1>5, <1>6

(* A part of the copy stays one.                                             *)
LEMMA SliceGrows ==
    ASSUME LogOK, LogOK', LogMoves, NEW b, Slice(b)
    PROVE  b \in Parcels /\ Len(b.records) # 0 /\ Reach(b) <= Len(Copy')
           /\ \A i \in 1..Len(b.records) : b.records[i] = Copy'[b.previous + i]
<1>1. b \in Parcels /\ Len(b.records) # 0 /\ Len(b.records) \in Nat /\ b.previous \in Nat
      /\ b.previous + Len(b.records) <= Len(Copy) /\ Reach(b) = b.previous + Len(b.records)
      /\ \A i \in 1..Len(b.records) : b.records[i] = Copy[b.previous + i]
  BY DEF Slice, Parcels, Reach
<1>2. CASE log' = log
  BY <1>1, <1>2 DEF Copy, Team
<1>3. CASE \E r : Grows(r)
  <2>1. /\ Len(Copy) \in Nat /\ Len(Copy') \in Nat /\ Len(Copy) <= Len(Copy')
        /\ \A i \in 1..Len(Copy) : Copy'[i] = Copy[i]
    BY <1>3, CopyGrows
  <2>2. \A i \in 1..Len(b.records) : b.previous + i \in 1..Len(Copy)
    BY <1>1, <2>1
  <2>3. Reach(b) <= Len(Copy')
    BY <1>1, <2>1
  <2>4. \A i \in 1..Len(b.records) : b.records[i] = Copy'[b.previous + i]
    BY <1>1, <2>1, <2>2
  <2> QED
    BY <1>1, <2>3, <2>4
<1> QED
  BY <1>2, <1>3 DEF LogMoves

(* When the log moves on, the export is where it was.                        *)
LEMMA ExportKept ==
    ASSUME LogOK, LogOK', LogMoves, ExportOK, UNCHANGED export
    PROVE  ExportOK'
<1>1. /\ cursor' = cursor /\ pending' = pending /\ exporter' = exporter /\ built' = built
      /\ wire' = wire /\ collector' = collector
  BY DEF export
<1>2. \A b : Slice(b) => Slice(b)'
  <2>1. SUFFICES ASSUME NEW b, Slice(b) PROVE Slice(b)'
    OBVIOUS
  <2> QED
    BY <2>1, SliceGrows DEF Slice, Reach
<1>3. Len(Copy) \in Nat /\ Len(Copy') \in Nat /\ Len(Copy) <= Len(Copy') /\ \A i \in 1..Len(Copy) : Copy'[i] = Copy[i]
  <2>1. CASE log' = log
    <3>1. Copy' = Copy
      BY <2>1 DEF Copy, Team
    <3>2. Len(Copy) \in Nat
      BY CopyType
    <3> QED
      BY <3>1, <3>2
  <2>2. CASE \E r : Grows(r)
    BY <2>2, CopyGrows
  <2> QED
    BY SMTT(30), <2>1, <2>2 DEF LogMoves
<1>4. ExportType'
  <2>1. cursor.source \in Nat /\ cursor.source <= Len(Copy)
    BY DEF ExportOK, ExportType, Cursors
  <2>2. cursor = IF cursor.source = 0 THEN Audit!FirstCursor
                 ELSE [source |-> cursor.source, local |-> Copy[cursor.source].local, head |-> Copy[cursor.source].hash]
    BY DEF ExportOK, ExportType, CursorAt
  <2>3. cursor.source = 0 \/ Copy'[cursor.source] = Copy[cursor.source]
    BY <1>3, <2>1
  <2>4. cursor = IF cursor.source = 0 THEN Audit!FirstCursor
                 ELSE [source |-> cursor.source, local |-> Copy'[cursor.source].local, head |-> Copy'[cursor.source].hash]
    BY <2>2, <2>3
  <2> QED
    BY <1>1, <1>3, <2>1, <2>4 DEF ExportOK, ExportType, CursorAt
<1>5. ExporterOK'
  BY <1>1, <1>2 DEF ExportOK, ExporterOK, Reach
<1>6. CollectorOK'
  <2>1. Had \in Nat /\ Had <= Len(Copy) /\ Had' = Had
    BY <1>1 DEF ExportOK, ExportType, CollectorOK, Had
  <2>2. Had <= Len(Copy') /\ \A i \in 1..Had : collector.records[i] = Copy'[i]
    BY <1>3, <2>1 DEF ExportOK, CollectorOK
  <2> QED
    BY <1>1, <1>2, <2>1, <2>2 DEF ExportOK, CollectorOK, Reach
<1> QED
  BY <1>4, <1>5, <1>6 DEF ExportOK

(* The cursor a batch leads to is that of its last record.                   *)
LEMMA CursorOfSlice ==
    ASSUME LogOK, NEW b, Slice(b)
    PROVE  /\ Audit!CursorOf(b) = CursorAt(Reach(b)) /\ Audit!CursorOf(b) \in Cursors
           /\ Audit!CursorOf(b).source = Reach(b) /\ Reach(b) \in 1..Len(Copy)
           /\ b.previous \in Nat /\ b.previous < Reach(b)
<1>1. /\ b.previous \in Nat /\ Len(b.records) \in Nat \ {0} /\ b.previous + Len(b.records) <= Len(Copy)
      /\ b.records[Len(b.records)] = Copy[b.previous + Len(b.records)]
  BY DEF Slice, Parcels, Reach
<1>2. PICK k \in 1..Len(Copy) : k = Reach(b) /\ k > b.previous /\ Audit!Last(b.records) = Copy[k]
  BY <1>1, CopyType DEF Reach, Audit!Last
<1>3. Copy[k].source = k /\ Copy[k].local \in Nat /\ Copy[k].hash \in Seq(Nat) /\ k \in Nat /\ k # 0
  BY <1>2, CopyType
<1>4. Audit!CursorOf(b) = [source |-> k, local |-> Copy[k].local, head |-> Copy[k].hash]
  BY <1>2, <1>3 DEF Audit!CursorOf
<1>5. Audit!CursorOf(b) = CursorAt(k)
  BY <1>3, <1>4 DEF CursorAt
<1>6. PICK l \in Nat, h \in Seq(Nat) : Audit!CursorOf(b) = [source |-> k, local |-> l, head |-> h]
  BY <1>3, <1>4
<1>7. Audit!CursorOf(b) \in Cursors /\ Audit!CursorOf(b).source = k
  BY <1>3, <1>6 DEF Cursors
<1> QED
  BY <1>1, <1>2, <1>5, <1>7

(* What is built at a cursor is the next part of the copy.                   *)
LEMMA BatchIsSlice ==
    ASSUME LogOK, ExportType, Audit!BatchAfter(cursor).records # <<>>
    PROVE  Slice(Audit!BatchAfter(cursor)) /\ Audit!BatchAfter(cursor).previous = cursor.source
<1> DEFINE c == cursor.source
           S == {n \in DOMAIN log : OfTeam(log[n])}
           T == {n \in S : n > cursor.local}
           found == InOrder(T)
           k == Min({MaxRecords, Len(found)})
           b == Audit!BatchAfter(cursor)
<1>1. /\ cursor \in Cursors /\ c \in Nat /\ c <= Len(Copy) /\ cursor = CursorAt(c) /\ built \in Nat
      /\ cursor.local \in Nat /\ cursor.head \in Seq(Nat)
  BY DEF ExportType, Cursors
<1>2. S \in SUBSET Nat /\ IsFiniteSet(S) /\ Team = InOrder(S)
  BY PartOfLog DEF Team
<1>3. /\ Len(Copy) = Cardinality(S) /\ Cardinality(S) \in Nat
      /\ \A i \in 1..Cardinality(S) : Team[i] \in S /\ Rank(S, Team[i]) = i
  <2> HIDE DEF S
  <2> QED
    BY <1>2, Ordered, CopyType
<1>4. Rank(S, cursor.local) = c
  <2>1. CASE c = 0
    <3>1. cursor.local = 0
      BY <1>1, <2>1 DEF CursorAt, Audit!FirstCursor
    <3>2. {m \in S : m <= 0} = {}
      BY DEF LogOK
    <3> QED
      BY <2>1, <3>1, <3>2, FS_EmptySet DEF Rank
  <2>2. CASE c # 0
    <3>1. c \in 1..Len(Copy)
      BY <1>1, <1>3, <2>2
    <3>2. cursor.local = Team[c]
      BY <1>1, <2>2, <3>1, CopyType DEF CursorAt
    <3> QED
      BY <1>3, <3>1, <3>2
  <2> QED
    BY <2>1, <2>2
<1>5. /\ IsFiniteSet(T) /\ Cardinality(T) = Cardinality(S) - c
      /\ \A i \in 1..Cardinality(T) : found[i] = Team[c + i]
  <2>1. c \in 0..Cardinality(S)
    BY <1>1, <1>3
  <2> HIDE DEF S
  <2> QED
    BY <1>1, <1>2, <1>4, <2>1, OrderAfter
<1>6. found \in Seq(Nat) /\ Len(found) = Cardinality(T) /\ Cardinality(T) \in Nat
  <2>1. T \in SUBSET Nat
    BY <1>2
  <2> HIDE DEF T
  <2> QED
    BY <1>5, <2>1, Ordered
<1>7. {n \in DOMAIN log : Audit!OfTeam(log[n]) /\ log[n].sequence > cursor.local} = T
  BY DEF Audit!OfTeam, OfTeam, LogOK, Chained
<1>8. b = Audit!Batch(cursor, found)
  BY <1>7, SameOrder DEF Audit!BatchAfter
<1>9. k = (IF MaxRecords <= Len(found) THEN MaxRecords ELSE Len(found)) /\ k \in Nat /\ k <= Len(found)
  <2> HIDE DEF found
  <2>1. MaxRecords \in Nat
    BY TranscriptAssumption
  <2>2. k = IF MaxRecords <= Len(found) THEN MaxRecords ELSE Len(found)
    BY <1>6, <2>1, SmallerOf
  <2> QED
    BY <1>6, <2>1, <2>2
<1>10. Audit!Min({MaxRecords, Len(found)}) = k
  BY SMTT(30) DEF Min, Audit!Min
<1>11. b = [id |-> built + 1, previous |-> c, head |-> cursor.head,
            records |-> [i \in 1..k |-> [source |-> c + i, local |-> log[found[i]].sequence,
                                         hash |-> log[found[i]].hash]]]
  BY <1>8, <1>10 DEF Audit!Batch
<1>12. \A i \in 1..k : /\ c + i \in 1..Len(Copy)
                       /\ [source |-> c + i, local |-> log[found[i]].sequence, hash |-> log[found[i]].hash]
                            = Copy[c + i]
  <2>1. SUFFICES ASSUME NEW i \in 1..k
                 PROVE  /\ c + i \in 1..Len(Copy)
                        /\ [source |-> c + i, local |-> log[found[i]].sequence, hash |-> log[found[i]].hash]
                             = Copy[c + i]
    OBVIOUS
  <2>2. i \in 1..Cardinality(T) /\ c + i \in 1..Len(Copy)
    <3> HIDE DEF k, T, S, found
    <3> QED
      BY SMTT(30), <1>1, <1>3, <1>5, <1>6, <1>9, <2>1
  <2>3. found[i] = Team[c + i]
    BY <1>5, <2>2
  <2>4. Copy[c + i] = [source |-> c + i, local |-> Team[c + i], hash |-> log[Team[c + i]].hash]
    BY <2>2, CopyType DEF Copy
  <2>5. log[Team[c + i]].sequence = Team[c + i]
    BY <2>2, CopyType
  <2> HIDE DEF found
  <2> QED
    BY <2>2, <2>3, <2>4, <2>5
<1>13. PICK f : f = b.records /\ f = [i \in 1..k |-> f[i]] /\ \A i \in 1..k : f[i] = Copy[c + i]
  <2> DEFINE g == [i \in 1..k |-> [source |-> c + i, local |-> log[found[i]].sequence,
                                   hash |-> log[found[i]].hash]]
  <2> HIDE DEF found, k, b
  <2>1. g = b.records
    BY <1>11
  <2>2. g = [i \in 1..k |-> g[i]] /\ \A i \in 1..k : g[i] = Copy[c + i]
    BY <1>12
  <2> HIDE DEF g
  <2> QED
    BY <2>1, <2>2
<1> HIDE DEF T, S, found, k
<1>14. f \in Seq(Copies) /\ Len(f) = k
  <2>1. PICK m \in Nat : m = k
    BY <1>9
  <2>2. \A i \in 1..Len(Copy) : Copy[i] \in Copies
    BY CopyType
  <2>3. \A i \in 1..m : f[i] \in Copies
    BY <1>12, <1>13, <2>1, <2>2
  <2>4. f = [i \in 1..m |-> f[i]]
    BY <1>13, <2>1
  <2>5. f \in Seq(Copies) /\ Len(f) = m
    BY <2>3, <2>4
  <2> QED
    BY <2>1, <2>5
<1>15. b.id = built + 1 /\ b.previous = c /\ b.head = cursor.head
  BY <1>11
<1>16. b \in Parcels
  <2>1. b = [id |-> b.id, previous |-> b.previous, head |-> b.head, records |-> b.records]
    BY <1>11
  <2>2. b.id \in Nat /\ b.previous \in Nat /\ b.head \in Seq(Nat) /\ b.records \in Seq(Copies)
    BY <1>1, <1>13, <1>14, <1>15
  <2> HIDE DEF b
  <2> QED
    BY <2>1, <2>2 DEF Parcels
<1>17. k # 0 /\ k \in 1..k
  BY <1>9, <1>13, <1>14
<1>18. c + k <= Len(Copy)
  <2>1. c + k \in 1..Len(Copy)
    BY <1>12, <1>17
  <2> QED
    BY <2>1, CopyType
<1> HIDE DEF b
<1>19. Slice(b) /\ b.previous = c
  BY <1>13, <1>14, <1>15, <1>16, <1>17, <1>18 DEF Slice, Reach
<1> QED
  BY <1>19 DEF b

Exporters == [pc : {"idle", "build", "put", "check", "send", "sent", "advance", "delete"},
              cursor : Cursors, batch : Parcels]

(* No part of the copy is empty, and a part of the copy stays one while the  *)
(* log is the same.                                                          *)
LEMMA SliceFacts ==
    ASSUME log' = log
    PROVE  /\ Copy' = Copy /\ (\A c : CursorAt(c)' = CursorAt(c)) /\ (\A b : Slice(b)' <=> Slice(b))
           /\ \A b : Slice(b) => b # Audit!NoBatch
<1>1. Copy' = Copy
  BY DEF Copy, Team
<1>2. \A b : Slice(b)' <=> Slice(b)
  BY <1>1 DEF Slice
<1>3. \A b : Slice(b) => b # Audit!NoBatch
  <2>1. Len(Audit!NoBatch.records) = 0
    BY DEF Audit!NoBatch
  <2> QED
    BY <2>1 DEF Slice
<1> QED
  BY <1>1, <1>2, <1>3 DEF CursorAt

(* The idle exporter has its type.                                           *)
LEMMA IdleType == Audit!IdleExport \in Exporters /\ Audit!IdleExport.pc = "idle" /\ Audit!NoBatch \in Parcels
                  /\ Audit!FirstCursor \in Cursors
<1>1. Audit!NoBatch \in Parcels
  BY DEF Audit!NoBatch, Parcels
<1>2. Audit!FirstCursor \in Cursors
  BY DEF Audit!FirstCursor, Cursors
<1> QED
  BY <1>1, <1>2 DEF Audit!IdleExport, Exporters

(* The collector takes what it may be sent without a gap or a repetition.    *)
LEMMA Ingests ==
    ASSUME LogOK, ExportOK, log' = log, NEW b,
           b \in collector.batches \/ (pending # Audit!NoBatch /\ b = pending),
           cursor' = cursor, pending' = pending, collector' = Audit!Ingested(b), wire' \subseteq wire
    PROVE  /\ collector' \in [records : Seq(Copies), batches : SUBSET Parcels] /\ CollectorOK'
           /\ collector.batches \subseteq collector'.batches
           /\ (b = pending /\ b # Audit!NoBatch => b \in collector'.batches)
<1>1. collector \in [records : Seq(Copies), batches : SUBSET Parcels] /\ CollectorOK /\ pending \in Parcels
  BY DEF ExportOK, ExportType
<1>2. CASE ~Audit!Accepts(b)
  <2>1. collector' = collector /\ Copy' = Copy /\ \A d : Slice(d)' <=> Slice(d)
    BY <1>2, SliceFacts DEF Audit!Ingested
  <2>2. CollectorOK'
    BY <1>1, <2>1 DEF CollectorOK, Had, Reach
  <2>3. b = pending /\ b # Audit!NoBatch => b \in collector.batches
    <3>1. SUFFICES ASSUME b = pending, b # Audit!NoBatch, b \notin collector.batches PROVE FALSE
      OBVIOUS
    <3>2. Had = b.previous
      BY <1>1, <3>1 DEF CollectorOK
    <3> QED
      BY <1>2, <3>1, <3>2 DEF Audit!Accepts, Had
  <2> QED
    BY <1>1, <2>1, <2>2, <2>3
<1>3. CASE Audit!Accepts(b)
  <2>1. /\ b \notin collector.batches /\ b = pending /\ pending # Audit!NoBatch /\ Slice(b)
        /\ b.previous = Had /\ cursor.source \in {b.previous, Reach(b)}
    BY <1>1, <1>3 DEF Audit!Accepts, Had, CollectorOK
  <2>2. collector' = [records |-> collector.records \o b.records, batches |-> collector.batches \cup {b}]
    BY <1>3 DEF Audit!Ingested
  <2>3. /\ b \in Parcels /\ b.records \in Seq(Copies) /\ Len(b.records) \in Nat /\ Reach(b) = b.previous + Len(b.records)
        /\ Reach(b) <= Len(Copy) /\ b.previous < Reach(b) /\ Had \in Nat /\ Len(Copy) \in Nat
        /\ b.previous \in Nat /\ Reach(b) \in Nat
        /\ \A i \in 1..Len(b.records) : b.records[i] = Copy[b.previous + i]
    BY <1>1, <2>1, CopyType DEF Slice, Parcels, Reach, Had
  <2>4. PICK old \in Seq(Copies), add \in Seq(Copies) : old = collector.records /\ add = b.records
    BY <1>1, <2>3
  <2>39. PICK new : new = old \o add
    OBVIOUS
  <2>40. /\ new \in Seq(Copies) /\ Len(new) = Len(old) + Len(add) /\ Len(old) \in Nat /\ Len(add) \in Nat
         /\ \A i \in 1..(Len(old) + Len(add)) : new[i] = IF i <= Len(old) THEN old[i] ELSE add[i - Len(old)]
    BY <2>39, ConcatProperties
  <2>5. collector'.records = new /\ collector'.batches = collector.batches \cup {b}
    <3>1. collector' = [records |-> new, batches |-> collector.batches \cup {b}]
      BY <2>2, <2>4, <2>39
    <3> QED
      BY <3>1
  <2>6. collector' \in [records : Seq(Copies), batches : SUBSET Parcels]
    BY <1>1, <2>2, <2>3, <2>4, <2>39, <2>40
  <2>7. Had' = Reach(b) /\ Len(old) = Had
    BY <2>1, <2>3, <2>4, <2>40, <2>5 DEF Had
  <2>8. \A i \in 1..Had' : collector'.records[i] = Copy[i]
    <3>1. SUFFICES ASSUME NEW i \in 1..Reach(b) PROVE new[i] = Copy[i]
      BY <2>5, <2>7
    <3>2. CASE i <= Had
      <4>1. i \in 1..Had /\ i \in 1..Len(new) /\ new[i] = old[i]
        BY <2>1, <2>3, <2>4, <2>40, <2>7, <3>1, <3>2
      <4> QED
        BY <1>1, <2>4, <4>1 DEF CollectorOK
    <3>3. CASE ~(i <= Had)
      <4>1. i - Had \in 1..Len(b.records) /\ i \in 1..Len(new) /\ new[i] = b.records[i - Had]
        BY <2>1, <2>3, <2>4, <2>40, <2>7, <3>1, <3>3, SMTT(30)
      <4>2. b.previous + (i - Had) = i
        BY <2>1, <2>3, <3>1
      <4> QED
        BY <2>3, <4>1, <4>2
    <3> QED
      BY <3>2, <3>3
  <2>9. \A d \in collector'.batches : Slice(d) /\ Reach(d) <= Reach(b)
    <3>1. \A d \in collector.batches : Slice(d) /\ Reach(d) <= Had
      BY <1>1 DEF CollectorOK
    <3>2. \A d \in collector.batches : Reach(d) \in Nat
      BY <3>1 DEF Slice, Reach, Parcels
    <3>3. \A d \in collector.batches : Reach(d) <= Reach(b)
      BY <2>1, <2>3, <3>1, <3>2
    <3>4. Reach(b) <= Reach(b)
      BY <2>3
    <3> QED
      BY <2>1, <2>5, <3>1, <3>3, <3>4
  <2>10. Copy' = Copy /\ \A d : Slice(d)' <=> Slice(d)
    BY SliceFacts
  <2>11. \A d \in wire' : d \in collector'.batches \/ (pending # Audit!NoBatch /\ d = pending)
    BY <1>1, <2>5 DEF CollectorOK
  <2>12. CollectorOK'
    BY <2>1, <2>3, <2>5, <2>7, <2>8, <2>9, <2>10, <2>11 DEF CollectorOK, Reach
  <2> QED
    BY <2>5, <2>6, <2>12
<1> QED
  BY <1>2, <1>3

(* Without a change of what is stored or sent, only the exporter is to be    *)
(* looked at.                                                                *)
LEMMA StoredSame ==
    ASSUME ExportOK, log' = log, cursor' = cursor, pending' = pending, wire' = wire, collector' = collector,
           exporter' \in Exporters, built' \in Nat
    PROVE  ExportType' /\ CollectorOK'
<1>1. Copy' = Copy /\ (\A c : CursorAt(c)' = CursorAt(c)) /\ \A b : Slice(b)' <=> Slice(b)
  BY SliceFacts
<1>2. CollectorOK'
  BY <1>1 DEF ExportOK, CollectorOK, Had, Reach
<1> QED
  BY <1>1, <1>2 DEF ExportOK, ExportType, Exporters

(* Fields of the exporter when its place changes.                            *)
LEMMA ExporterAt ==
    ASSUME exporter \in Exporters,
           NEW x \in {"idle", "build", "put", "check", "send", "sent", "advance", "delete"},
           exporter' = [exporter EXCEPT !.pc = x]
    PROVE  exporter' \in Exporters /\ exporter'.pc = x /\ exporter'.cursor = exporter.cursor
           /\ exporter'.batch = exporter.batch
  BY DEF Exporters

(* An exporter that goes idle leaves everything as it is.                    *)
LEMMA GoesIdle ==
    ASSUME ExportOK, log' = log, exporter' = Audit!IdleExport, cursor' = cursor, pending' = pending,
           built' = built, wire' = wire, collector' = collector
    PROVE  ExportOK'
<1>1. exporter' \in Exporters /\ exporter'.pc = "idle" /\ built' \in Nat
  BY IdleType DEF ExportOK, ExportType
<1>2. ExportType' /\ CollectorOK'
  BY <1>1, StoredSame
<1> QED
  BY <1>1, <1>2 DEF ExportOK, ExporterOK

(* Reading, building, storing and checking a batch.                          *)
LEMMA ExportPrepares ==
    ASSUME LogOK, ExportOK, log' = log,
           Audit!ReadState \/ Audit!Build \/ Audit!PutPending \/ Audit!Check
    PROVE  ExportOK'
<1>1. /\ exporter \in Exporters /\ built \in Nat /\ cursor \in Cursors /\ pending \in Parcels
      /\ ExportType /\ ExporterOK /\ CollectorOK /\ cursor.source <= Len(Copy) /\ cursor = CursorAt(cursor.source)
  BY DEF ExportOK, ExportType, Exporters
<1>2. /\ Copy' = Copy /\ (\A c : CursorAt(c)' = CursorAt(c)) /\ (\A b : Slice(b)' <=> Slice(b))
      /\ \A b : Slice(b) => b # Audit!NoBatch
  BY SliceFacts
<1>3. CASE Audit!ReadState
  <2>1. cursor' = cursor /\ pending' = pending /\ built' = built /\ wire' = wire /\ collector' = collector
        /\ exporter' = [pc |-> IF pending = Audit!NoBatch THEN "build" ELSE "check",
                        cursor |-> cursor, batch |-> pending]
    BY <1>3 DEF Audit!ReadState, Audit!Unmoved
  <2>2. exporter' \in Exporters /\ exporter'.cursor = cursor /\ exporter'.batch = pending
        /\ exporter'.pc = (IF pending = Audit!NoBatch THEN "build" ELSE "check")
    BY <1>1, <2>1 DEF Exporters
  <2>3. ExportType' /\ CollectorOK'
    BY <1>1, <2>1, <2>2, StoredSame
  <2>4. ExporterOK'
    BY <2>1, <2>2 DEF ExporterOK
  <2> QED
    BY <2>3, <2>4 DEF ExportOK
<1>4. CASE Audit!Build
  <2>1. /\ exporter.pc = "build" /\ exporter.cursor = cursor /\ pending = Audit!NoBatch
        /\ cursor' = cursor /\ pending' = pending /\ wire' = wire /\ collector' = collector
    BY <1>1, <1>4 DEF Audit!Build, ExporterOK
  <2>2. PICK b : b = Audit!BatchAfter(cursor)
    OBVIOUS
  <2>3. IF b.records = <<>> THEN exporter' = Audit!IdleExport /\ built' = built
        ELSE exporter' = [exporter EXCEPT !.pc = "put", !.batch = b] /\ built' = b.id
    BY <1>4, <2>1, <2>2 DEF Audit!Build
  <2>4. CASE b.records = <<>>
    BY <2>1, <2>3, <2>4, GoesIdle
  <2>5. CASE b.records # <<>>
    <3>1. Slice(b) /\ b.previous = cursor.source /\ b \in Parcels /\ b.id \in Nat
      BY <1>1, <2>2, <2>5, BatchIsSlice DEF Slice, Parcels
    <3>2. /\ exporter' \in Exporters /\ exporter'.pc = "put" /\ exporter'.cursor = cursor
          /\ exporter'.batch = b
      BY <1>1, <2>1, <2>3, <2>5, <3>1 DEF Exporters
    <3>3. ExportType' /\ CollectorOK'
      BY <2>1, <2>3, <2>5, <3>1, <3>2, StoredSame
    <3>4. ExporterOK'
      BY <1>2, <2>1, <3>1, <3>2 DEF ExporterOK
    <3> QED
      BY <3>3, <3>4 DEF ExportOK
  <2> QED
    BY <2>4, <2>5
<1>5. CASE Audit!PutPending
  <2>1. /\ exporter.pc = "put" /\ exporter.cursor = cursor /\ pending = Audit!NoBatch
        /\ Slice(exporter.batch) /\ exporter.batch.previous = cursor.source /\ exporter.batch # Audit!NoBatch
    BY <1>1, <1>2, <1>5 DEF Audit!PutPending, ExporterOK
  <2>2. PICK b : b = exporter.batch
    OBVIOUS
  <2>3. /\ pending' = b /\ exporter' = [exporter EXCEPT !.pc = "check", !.batch = b]
        /\ cursor' = cursor /\ built' = built /\ wire' = wire /\ collector' = collector
    BY <1>5, <2>1, <2>2 DEF Audit!PutPending
  <2>4. b \in Parcels /\ Slice(b) /\ b # Audit!NoBatch /\ b.previous = cursor.source
    BY <1>1, <2>1, <2>2 DEF Exporters
  <2>5. exporter' \in Exporters /\ exporter'.pc = "check" /\ exporter'.cursor = cursor /\ exporter'.batch = b
    BY <1>1, <2>1, <2>3, <2>4 DEF Exporters
  <2>6. ExportType'
    BY <1>1, <1>2, <2>3, <2>4, <2>5 DEF ExportType, Exporters
  <2>7. ExporterOK'
    BY <2>3, <2>4, <2>5 DEF ExporterOK
  <2>8. Had = cursor.source /\ \A d \in wire : d \in collector.batches
    BY <1>1, <2>1 DEF CollectorOK
  <2>9. CollectorOK'
    BY <1>1, <1>2, <2>3, <2>4, <2>8 DEF CollectorOK, Had, Reach
  <2> QED
    BY <2>6, <2>7, <2>9 DEF ExportOK
<1>6. CASE Audit!Check
  <2>1. /\ exporter.pc = "check" /\ exporter.cursor = cursor /\ pending # Audit!NoBatch /\ exporter.batch = pending
        /\ cursor' = cursor /\ pending' = pending /\ built' = built /\ wire' = wire /\ collector' = collector
        /\ Slice(pending)
    BY <1>1, <1>6 DEF Audit!Check, Audit!Unmoved, ExporterOK, CollectorOK
  <2>2. CASE cursor = Audit!CursorOf(pending) /\ exporter' = [exporter EXCEPT !.pc = "delete"]
    <3>1. exporter' \in Exporters /\ exporter'.pc = "delete" /\ exporter'.batch = pending
      BY <1>1, <2>1, <2>2, ExporterAt
    <3>2. ExportType' /\ CollectorOK'
      BY <1>1, <2>1, <3>1, StoredSame
    <3>3. cursor.source = Reach(pending) /\ pending.previous < Reach(pending) /\ pending.previous \in Nat
      BY <2>1, <2>2, CursorOfSlice
    <3>4. pending \in collector.batches
      <4>1. Reach(pending) # pending.previous
        BY <2>1, <3>3, CursorOfSlice
      <4> QED
        BY <1>1, <2>1, <3>3, <4>1 DEF CollectorOK
    <3>5. ExporterOK'
      BY <2>1, <3>1, <3>3, <3>4 DEF ExporterOK, Reach
    <3> QED
      BY <3>2, <3>5 DEF ExportOK
  <2>3. CASE exporter' = [exporter EXCEPT !.pc = "send"]
    <3>1. exporter' \in Exporters /\ exporter'.pc = "send" /\ exporter'.batch = pending /\ exporter'.cursor = cursor
      BY <1>1, <2>1, <2>3, ExporterAt
    <3>2. ExportType' /\ CollectorOK'
      BY <1>1, <2>1, <3>1, StoredSame
    <3>3. ExporterOK'
      BY <2>1, <3>1 DEF ExporterOK
    <3> QED
      BY <3>2, <3>3 DEF ExportOK
  <2> QED
    BY <1>6, <2>1, <2>2, <2>3 DEF Audit!Check
<1> QED
  BY <1>3, <1>4, <1>5, <1>6

(* Sending a batch, and what becomes of it.                                  *)
LEMMA ExportSends ==
    ASSUME LogOK, ExportOK, log' = log,
           Audit!Deliver \/ Audit!Acknowledge \/ (\E b \in wire : Audit!Arrive(b)) \/ Audit!DeliveryFails
    PROVE  ExportOK'
<1>1. /\ exporter \in Exporters /\ built \in Nat /\ cursor \in Cursors /\ pending \in Parcels
      /\ ExportType /\ ExporterOK /\ CollectorOK
  BY DEF ExportOK, ExportType, Exporters
<1>2. /\ Copy' = Copy /\ (\A c : CursorAt(c)' = CursorAt(c)) /\ (\A b : Slice(b)' <=> Slice(b))
  BY SliceFacts
<1>3. CASE Audit!Deliver
  <2>1. /\ exporter.pc = "send" /\ exporter.batch = pending /\ pending # Audit!NoBatch /\ exporter.cursor = cursor
        /\ wire' = wire \cup {pending} /\ exporter' = [exporter EXCEPT !.pc = "sent"]
        /\ cursor' = cursor /\ pending' = pending /\ built' = built /\ collector' = collector
    BY <1>1, <1>3 DEF Audit!Deliver, ExporterOK
  <2>2. exporter' \in Exporters /\ exporter'.pc = "sent" /\ exporter'.batch = pending /\ exporter'.cursor = cursor
    BY <1>1, <2>1, ExporterAt
  <2>3. ExportType'
    BY <1>1, <1>2, <2>1, <2>2 DEF ExportType, Exporters
  <2>4. CollectorOK'
    BY <1>1, <1>2, <2>1 DEF CollectorOK, Had, Reach
  <2>5. ExporterOK'
    BY <2>1, <2>2 DEF ExporterOK
  <2> QED
    BY <2>3, <2>4, <2>5 DEF ExportOK
<1>4. CASE Audit!Acknowledge
  <2>1. /\ exporter.pc = "sent" /\ exporter.batch = pending /\ pending # Audit!NoBatch /\ exporter.cursor = cursor
        /\ wire' \subseteq wire /\ collector' = Audit!Ingested(pending)
        /\ exporter' = (IF exporter.batch \in collector'.batches
                        THEN [exporter EXCEPT !.pc = "advance"] ELSE Audit!IdleExport)
        /\ cursor' = cursor /\ pending' = pending /\ built' = built
    BY <1>1, <1>4 DEF Audit!Acknowledge, ExporterOK
  <2>2. /\ collector' \in [records : Seq(Copies), batches : SUBSET Parcels] /\ CollectorOK'
        /\ pending \in collector'.batches
    BY <2>1, Ingests
  <2>3. exporter' = [exporter EXCEPT !.pc = "advance"]
    BY <2>1, <2>2
  <2>4. exporter' \in Exporters /\ exporter'.pc = "advance" /\ exporter'.batch = pending /\ exporter'.cursor = cursor
    BY <1>1, <2>1, <2>3, ExporterAt
  <2>5. ExportType'
    BY <1>1, <1>2, <2>1, <2>2, <2>4 DEF ExportType, Exporters
  <2>6. ExporterOK'
    BY <2>1, <2>2, <2>4 DEF ExporterOK
  <2> QED
    BY <2>2, <2>5, <2>6 DEF ExportOK
<1>5. CASE \E b \in wire : Audit!Arrive(b)
  <2>1. PICK b \in wire : Audit!Arrive(b)
    BY <1>5
  <2>2. /\ wire' \subseteq wire /\ collector' = Audit!Ingested(b) /\ cursor' = cursor /\ pending' = pending
        /\ exporter' = exporter /\ built' = built
    BY <2>1 DEF Audit!Arrive
  <2>3. b \in collector.batches \/ (pending # Audit!NoBatch /\ b = pending)
    BY <1>1, <2>1 DEF CollectorOK
  <2>4. /\ collector' \in [records : Seq(Copies), batches : SUBSET Parcels] /\ CollectorOK'
        /\ collector.batches \subseteq collector'.batches
    BY <2>2, <2>3, Ingests
  <2>5. ExportType'
    BY <1>1, <1>2, <2>2, <2>4 DEF ExportType
  <2>6. ExporterOK'
    BY <1>1, <1>2, <2>2, <2>4 DEF ExporterOK, Reach
  <2> QED
    BY <2>4, <2>5, <2>6 DEF ExportOK
<1>6. CASE Audit!DeliveryFails
  BY <1>6, GoesIdle DEF Audit!DeliveryFails, Audit!Unmoved
<1> QED
  BY <1>3, <1>4, <1>5, <1>6

(* The cursor advances and the batch is deleted.                             *)
LEMMA ExportFinishes ==
    ASSUME LogOK, ExportOK, log' = log, Audit!Advance \/ Audit!DeletePending
    PROVE  ExportOK'
<1>1. /\ exporter \in Exporters /\ built \in Nat /\ cursor \in Cursors /\ pending \in Parcels
      /\ ExportType /\ ExporterOK /\ CollectorOK
  BY DEF ExportOK, ExportType, Exporters
<1>2. /\ Copy' = Copy /\ (\A c : CursorAt(c)' = CursorAt(c)) /\ (\A b : Slice(b)' <=> Slice(b))
  BY SliceFacts
<1>3. exporter.pc \in {"advance", "delete"} =>
        /\ exporter.batch = pending /\ pending # Audit!NoBatch /\ pending \in collector.batches /\ Slice(pending)
        /\ Had = Reach(pending)
  <2>1. SUFFICES ASSUME exporter.pc \in {"advance", "delete"}
                 PROVE  /\ exporter.batch = pending /\ pending # Audit!NoBatch /\ pending \in collector.batches
                        /\ Slice(pending) /\ Had = Reach(pending)
    OBVIOUS
  <2>2. exporter.batch = pending /\ pending # Audit!NoBatch /\ pending \in collector.batches /\ Slice(pending)
    BY <1>1, <2>1 DEF ExporterOK, CollectorOK
  <2>3. Reach(pending) <= Had /\ pending.previous < Reach(pending) /\ pending.previous \in Nat
        /\ Reach(pending) \in 1..Len(Copy)
    BY <1>1, <2>2, CursorOfSlice DEF CollectorOK
  <2>4. Had = pending.previous \/ Had = Reach(pending)
    BY <1>1, <2>2 DEF CollectorOK
  <2> QED
    BY <2>2, <2>3, <2>4, CopyType
<1>4. CASE Audit!Advance
  <2>1. /\ exporter.pc = "advance" /\ exporter' = [exporter EXCEPT !.pc = "delete"]
        /\ pending' = pending /\ built' = built /\ wire' = wire /\ collector' = collector
        /\ exporter.batch = pending /\ pending # Audit!NoBatch /\ pending \in collector.batches /\ Slice(pending)
        /\ Had = Reach(pending)
    BY <1>3, <1>4 DEF Audit!Advance
  <2>2. cursor' = Audit!CursorOf(pending)
    BY <1>4, <2>1 DEF Audit!Advance
  <2>3. cursor' = CursorAt(Reach(pending)) /\ cursor' \in Cursors /\ cursor'.source = Reach(pending)
        /\ Reach(pending) \in 1..Len(Copy)
    BY <2>1, <2>2, CursorOfSlice
  <2>4. exporter' \in Exporters /\ exporter'.pc = "delete" /\ exporter'.batch = pending
    BY <1>1, <2>1, ExporterAt
  <2>5. ExportType'
    BY <1>1, <1>2, <2>1, <2>3, <2>4, CopyType DEF ExportType, Exporters
  <2>6. ExporterOK'
    BY <2>1, <2>3, <2>4 DEF ExporterOK, Reach
  <2>7. CollectorOK'
    BY <1>1, <1>2, <2>1, <2>3 DEF CollectorOK, Had, Reach
  <2> QED
    BY <2>5, <2>6, <2>7 DEF ExportOK
<1>5. CASE Audit!DeletePending
  <2>1. /\ exporter.pc = "delete" /\ exporter' = Audit!IdleExport /\ pending' = Audit!NoBatch
        /\ cursor' = cursor /\ built' = built /\ wire' = wire /\ collector' = collector
        /\ pending \in collector.batches /\ Had = Reach(pending) /\ cursor.source = Reach(pending)
    BY <1>1, <1>3, <1>5 DEF Audit!DeletePending, ExporterOK
  <2>2. exporter' \in Exporters /\ exporter'.pc = "idle" /\ pending' \in Parcels
    BY <2>1, IdleType
  <2>3. ExportType'
    BY <1>1, <1>2, <2>1, <2>2 DEF ExportType, Exporters
  <2>4. CollectorOK'
    BY <1>1, <1>2, <2>1 DEF CollectorOK, Had, Reach
  <2>5. ExporterOK'
    BY <2>2 DEF ExporterOK
  <2> QED
    BY <2>3, <2>4, <2>5 DEF ExportOK
<1> QED
  BY <1>4, <1>5

(* Every step keeps the export.                                              *)
LEMMA ExportStepOK ==
    ASSUME LogOK, LogOK', LogMoves, ExportOK, Next
    PROVE  ExportOK'
<1>1. CASE Agent \/ RunEnds \/ TurnStep \/ TaskFails \/ PublishOther \/ Interface \/ InterfaceFault \/ UserReturns
  <2>1. UNCHANGED export
    BY <1>1 DEF Agent, RunEnds, TurnStep, TaskRecv, TaskTake, TaskRow, TaskPublish, TaskSends, StoreAnswer,
                PublishOutcome, SendOutcome, SendOther, TaskFails, PublishOther, Interface, InterfaceFault, UserReturns
  <2> QED
    BY <2>1, ExportKept
<1>2. CASE Exporter
  <2>1. log' = log
    BY <1>2 DEF Exporter, publisher
  <2> QED
    BY <1>2, <2>1, ExportPrepares, ExportSends, ExportFinishes DEF Exporter, Audit!ExportStep
<1>3. CASE ExporterFault
  <2>1. log' = log
    BY <1>3 DEF ExporterFault, publisher
  <2> QED
    BY <1>3, <2>1, ExportSends DEF ExporterFault
<1>4. CASE Crash
  <2>1. log' = log
    BY <1>4 DEF Crash, Restart
  <2> QED
    BY <1>4, <2>1, GoesIdle DEF Crash, Audit!ExportCrash, Audit!Unmoved
<1> QED
  BY <1>1, <1>2, <1>3, <1>4 DEF Next

-----------------------------------------------------------------------------
(* The channel.                                                              *)

(* The output published so far is a sequence of units, which an event of     *)
(* the log makes longer by its own.                                          *)
LEMMA OutGrows ==
    ASSUME log \in Seq(Records), NEW r \in Records, log' = Append(log, r)
    PROVE  Out' = Out \o r.units
<1> DEFINE pieces == [i \in DOMAIN log |-> log[i].units]
<1>1. pieces \in Seq(Seq(Nat)) /\ r.units \in Seq(Nat)
  <2>1. \A i \in 1..Len(log) : log[i] \in Records
    OBVIOUS
  <2>2. \A i \in 1..Len(log) : log[i].units \in Seq(Nat)
    BY <2>1 DEF Records
  <2>3. DOMAIN log = 1..Len(log) /\ Len(log) \in Nat
    OBVIOUS
  <2>4. r.units \in Seq(Nat)
    BY DEF Records
  <2> QED
    BY <2>2, <2>3, <2>4
<1>2. [i \in DOMAIN log' |-> log'[i].units] = Append(pieces, r.units)
  <2>1. /\ Len(log') = Len(log) + 1 /\ DOMAIN log' = 1..(Len(log) + 1) /\ Len(log) \in Nat
        /\ log'[Len(log) + 1] = r /\ (\A i \in 1..Len(log) : log'[i] = log[i])
    OBVIOUS
  <2>2. Len(pieces) = Len(log) /\ DOMAIN pieces = 1..Len(log)
    OBVIOUS
  <2>3. Append(pieces, r.units)
          = [i \in 1..(Len(log) + 1) |-> IF i <= Len(log) THEN log[i].units ELSE r.units]
    BY <2>1, <2>2
  <2> QED
    BY <2>1, <2>3
<1> HIDE DEF pieces
<1>3. FlattenSeq(Append(pieces, r.units)) = FlattenSeq(pieces) \o r.units
  BY <1>1, FlattenAppend
<1>4. Out = FlattenSeq(pieces) /\ Out' = FlattenSeq([i \in DOMAIN log' |-> log'[i].units])
  BY DEF Out, Units, pieces
<1> QED
  BY <1>2, <1>3, <1>4

(* The output published so far is a sequence of units.                       *)
LEMMA OutType ==
    ASSUME log \in Seq(Records)
    PROVE  Out \in Seq(Nat) /\ Len(Out) \in Nat
<1> DEFINE pieces == [i \in DOMAIN log |-> log[i].units]
<1>1. pieces \in Seq(Seq(Nat)) /\ <<>> \in Seq(Nat)
  <2>1. \A i \in 1..Len(log) : log[i] \in Records
    OBVIOUS
  <2>2. \A i \in 1..Len(log) : log[i].units \in Seq(Nat)
    BY <2>1 DEF Records
  <2>3. DOMAIN log = 1..Len(log) /\ Len(log) \in Nat
    OBVIOUS
  <2> QED
    BY <2>2, <2>3
<1> HIDE DEF pieces
<1>2. FlattenSeq(pieces) \in Seq(Nat)
  BY <1>1, FlattenAppend
<1> QED
  BY <1>2 DEF Out, Units, pieces

(* The units of a batch that is not empty are numbered from its first to its *)
(* last.                                                                     *)
LEMMA WholeEnd ==
    ASSUME NEW e \in Entries, NEW p \in Nat, NEW kinds, Whole(e, p, kinds), e.units # <<>>
    PROVE  /\ Len(e.units) \in Nat \ {0} /\ e.units[1] \in 1..p /\ End(e) \in 1..p
           /\ End(e) = e.units[1] + (Len(e.units) - 1)
<1>1. e.units \in Seq(Nat)
  BY DEF Entries
<1>2. Len(e.units) \in Nat \ {0} /\ DOMAIN e.units = 1..Len(e.units)
      /\ 1 \in 1..Len(e.units) /\ Len(e.units) \in 1..Len(e.units)
  BY <1>1
<1> QED
  BY <1>2 DEF Whole, End

(* A batch stays whole when more is put out.                                 *)
LEMMA WholeKept ==
    ASSUME NEW e, NEW p \in Nat, NEW q \in Nat, NEW kinds, NEW more, Whole(e, p, kinds), p <= q,
           \A i \in 1..p : more[i] = kinds[i]
    PROVE  Whole(e, q, more)
<1>1. \A i \in 1..p : i \in 1..q
  OBVIOUS
<1> QED
  BY <1>1 DEF Whole

(* So do all the entries of the channel.                                     *)
LEMMA JoinedKept ==
    ASSUME NEW s \in Seq(Entries), NEW t \in Nat, NEW p \in Nat, NEW kinds, NEW more,
           Joined(s, t, p, kinds), \A i \in 1..p : more[i] = kinds[i]
    PROVE  Joined(s, t, p, more)
<1>1. \A i \in DOMAIN s : Whole(s[i], p, more)
  BY WholeKept DEF Joined
<1> QED
  BY <1>1 DEF Joined

(* A new entry with the unit that comes next joins the others.               *)
LEMMA JoinedAppend ==
    ASSUME NEW s \in Seq(Entries), NEW t \in Nat, NEW p \in Nat, NEW kinds,
           Joined(s, t, p, kinds), NEW e \in Entries, e.units = <<p + 1>>, kinds[p + 1] = e.kind
    PROVE  Joined(Append(s, e), t, p + 1, kinds)
<1>1. PICK u \in Seq(Entries) : u = Append(s, e)
  <2>1. Append(s, e) \in Seq(Entries)
    OBVIOUS
  <2> QED
    BY <2>1
<1>2. /\ Len(s) \in Nat /\ Len(u) = Len(s) + 1 /\ u[Len(s) + 1] = e /\ u # <<>>
      /\ DOMAIN s = 1..Len(s) /\ DOMAIN u = 1..(Len(s) + 1) /\ (\A i \in 1..Len(s) : u[i] = s[i])
  BY <1>1
<1>3. End(e) = p + 1 /\ e.units[1] = p + 1 /\ DOMAIN e.units = {1}
  BY DEF End
<1>4. Whole(e, p + 1, kinds)
  <2>1. p + 1 \in 1..(p + 1) /\ (p + 1) + (1 - 1) = p + 1
    OBVIOUS
  <2> QED
    BY <1>3, <2>1 DEF Whole
<1>5. ASSUME NEW i \in DOMAIN u PROVE Whole(u[i], p + 1, kinds)
  <2>1. CASE i = Len(s) + 1
    BY <1>2, <1>4, <2>1
  <2>2. CASE i # Len(s) + 1
    <3>1. i \in DOMAIN s /\ u[i] = s[i] /\ p <= p + 1 /\ p + 1 \in Nat
      BY <1>2, <1>5, <2>2
    <3>2. Whole(s[i], p, kinds)
      BY <3>1 DEF Joined
    <3> QED
      BY <3>1, <3>2, WholeKept
  <2> QED
    BY <2>1, <2>2
<1>6. ASSUME NEW i \in DOMAIN u
      PROVE  u[i].units[1] = 1 + (IF i = 1 THEN t ELSE End(u[i - 1]))
  <2>1. CASE i = Len(s) + 1
    <3>1. CASE i = 1
      <4>1. s = <<>>
        BY <1>2, <2>1, <3>1
      <4> QED
        BY <1>2, <1>3, <2>1, <3>1, <4>1 DEF Joined
    <3>2. CASE i # 1
      <4>1. s # <<>> /\ i - 1 = Len(s) /\ i - 1 \in 1..Len(s)
        BY <1>2, <1>6, <2>1, <3>2
      <4>2. p = End(s[Len(s)]) /\ u[i - 1] = s[Len(s)]
        BY <1>2, <4>1 DEF Joined
      <4> QED
        BY <1>2, <1>3, <2>1, <3>2, <4>2
    <3> QED
      BY <3>1, <3>2
  <2>2. CASE i # Len(s) + 1
    <3>1. i \in DOMAIN s /\ u[i] = s[i] /\ (i # 1 => u[i - 1] = s[i - 1])
      BY <1>2, <1>6, <2>2
    <3> QED
      BY <3>1 DEF Joined
  <2> QED
    BY <2>1, <2>2
<1>7. p + 1 = End(u[Len(u)])
  BY <1>2, <1>3
<1> QED
  BY <1>1, <1>2, <1>5, <1>6, <1>7 DEF Joined

\* A batch with one unit more.
Longer(e, n) == [e EXCEPT !.units = Append(@, n)]

(* The fields of a batch with one unit more.                                 *)
LEMMA LongerIs ==
    ASSUME NEW e \in Entries, NEW n \in Nat
    PROVE  /\ Longer(e, n) \in Entries /\ Longer(e, n).id = e.id /\ Longer(e, n).kind = e.kind
           /\ Longer(e, n).units = Append(e.units, n) /\ Longer(e, n).units \in Seq(Nat)
           /\ Len(Longer(e, n).units) = Len(e.units) + 1 /\ Longer(e, n).units # <<>>
           /\ Longer(e, n).units[Len(e.units) + 1] = n /\ End(Longer(e, n)) = n
           /\ \A j \in 1..Len(e.units) : Longer(e, n).units[j] = e.units[j]
<1>1. e.units \in Seq(Nat) /\ e.id \in Nat /\ e.kind \in Kinds
  BY DEF Entries
<1>2. PICK u \in Seq(Nat) : u = Append(e.units, n)
  <2>1. Append(e.units, n) \in Seq(Nat)
    BY <1>1
  <2> QED
    BY <2>1
<1>3. Longer(e, n) = [id |-> e.id, kind |-> e.kind, units |-> u]
  <2>1. Longer(e, n) = [e EXCEPT !.units = u]
    BY <1>2 DEF Longer
  <2>2. e = [id |-> e.id, kind |-> e.kind, units |-> e.units]
    BY DEF Entries
  <2> QED
    BY <2>1, <2>2
<1>4. /\ Len(u) = Len(e.units) + 1 /\ u # <<>> /\ u[Len(e.units) + 1] = n
      /\ \A j \in 1..Len(e.units) : u[j] = e.units[j]
  BY <1>1, <1>2
<1>5. Longer(e, n) \in Entries
  BY <1>1, <1>3 DEF Entries
<1> QED
  BY <1>2, <1>3, <1>4, <1>5 DEF End

(* A batch whose last unit is the last put out stays whole with the next.    *)
LEMMA WholeLonger ==
    ASSUME NEW e \in Entries, NEW p \in Nat, NEW kinds, Whole(e, p, kinds), e.units # <<>>,
           End(e) = p, kinds[p + 1] = e.kind
    PROVE  Whole(Longer(e, p + 1), p + 1, kinds) /\ Longer(e, p + 1).units[1] = e.units[1]
<1>1. /\ Len(e.units) \in Nat \ {0} /\ End(e) = e.units[1] + (Len(e.units) - 1)
      /\ e.units[1] \in Nat
  BY WholeEnd
<1>2. PICK f \in Entries : f = Longer(e, p + 1)
  BY LongerIs
<1>3. /\ f.kind = e.kind /\ DOMAIN f.units = 1..(Len(e.units) + 1)
      /\ f.units[Len(e.units) + 1] = p + 1 /\ \A j \in 1..Len(e.units) : f.units[j] = e.units[j]
  <2>1. f.units \in Seq(Nat) /\ Len(f.units) = Len(e.units) + 1
    BY <1>2, LongerIs
  <2> QED
    BY <1>2, <2>1, LongerIs
<1>4. f.units[1] = e.units[1]
  BY SMTT(30), <1>1, <1>3
<1>5. ASSUME NEW j \in DOMAIN f.units
      PROVE  /\ f.units[j] = f.units[1] + (j - 1) /\ f.units[j] \in 1..(p + 1)
             /\ kinds[f.units[j]] = f.kind
  <2>1. CASE j = Len(e.units) + 1
    <3>1. f.units[j] = p + 1 /\ p + 1 \in 1..(p + 1) /\ p + 1 = e.units[1] + (j - 1)
      BY <1>1, <1>3, <2>1
    <3> QED
      BY <1>3, <1>4, <3>1
  <2>2. CASE j # Len(e.units) + 1
    <3>1. j \in DOMAIN e.units /\ j \in 1..Len(e.units)
      <4>1. e.units \in Seq(Nat)
        BY DEF Entries
      <4>2. PICK n \in Nat : n = Len(e.units)
        BY <1>1
      <4>3. j \in 1..(n + 1) /\ j # n + 1
        BY <1>3, <1>5, <2>2, <4>2
      <4>4. j \in 1..n
        BY ONLY <4>3, n \in Nat
      <4>5. DOMAIN e.units = 1..n
        BY <4>1, <4>2
      <4> QED
        BY <4>2, <4>4, <4>5
    <3>2. /\ e.units[j] = e.units[1] + (j - 1) /\ e.units[j] \in 1..p
          /\ kinds[e.units[j]] = e.kind
      BY SMTT(30), <3>1 DEF Whole
    <3> QED
      BY SMTT(30), <1>3, <1>4, <3>1, <3>2
  <2> QED
    BY <2>1, <2>2
<1> QED
  BY <1>2, <1>4, <1>5 DEF Whole

(* The last entry of the channel takes the unit that comes next.             *)
LEMMA JoinedLonger ==
    ASSUME NEW s \in Seq(Entries), NEW t \in Nat, NEW p \in Nat, NEW kinds,
           Joined(s, t, p, kinds), s # <<>>, \A i \in DOMAIN s : s[i].units # <<>>,
           NEW u \in Seq(Entries), Len(u) = Len(s),
           \A i \in 1..Len(s) : u[i] = IF i = Len(s) THEN Longer(s[i], p + 1) ELSE s[i],
           kinds[p + 1] = s[Len(s)].kind
    PROVE  Joined(u, t, p + 1, kinds)
<1>1. /\ Len(s) \in Nat \ {0} /\ DOMAIN s = 1..Len(s) /\ DOMAIN u = 1..Len(s) /\ u # <<>>
      /\ Len(s) \in 1..Len(s) /\ s[Len(s)] \in Entries
  BY SMTT(30)
<1>2. p = End(s[Len(s)]) /\ Whole(s[Len(s)], p, kinds) /\ s[Len(s)].units # <<>>
  BY <1>1 DEF Joined
<1>3. /\ Whole(u[Len(s)], p + 1, kinds) /\ u[Len(s)].units[1] = s[Len(s)].units[1]
      /\ End(u[Len(s)]) = p + 1
  <2>1. PICK e \in Entries : e = s[Len(s)]
    BY <1>1
  <2>2. Whole(e, p, kinds) /\ e.units # <<>> /\ End(e) = p /\ kinds[p + 1] = e.kind /\ p + 1 \in Nat
    BY <1>2, <2>1
  <2>3. Whole(Longer(e, p + 1), p + 1, kinds) /\ Longer(e, p + 1).units[1] = e.units[1]
    BY <2>2, WholeLonger
  <2>4. End(Longer(e, p + 1)) = p + 1
    BY SMTT(30), <2>2, LongerIs
  <2>5. u[Len(s)] = Longer(e, p + 1)
    BY <1>1, <2>1
  <2> QED
    BY SMTT(30), <2>1, <2>3, <2>4, <2>5
<1>4. ASSUME NEW i \in DOMAIN u
      PROVE  /\ Whole(u[i], p + 1, kinds)
             /\ u[i].units[1] = 1 + (IF i = 1 THEN t ELSE End(u[i - 1]))
  <2>1. i \in DOMAIN s /\ (i # 1 => i - 1 \in 1..Len(s) /\ i - 1 # Len(s))
    <3>1. i \in 1..Len(s) /\ Len(s) \in Nat /\ DOMAIN s = 1..Len(s)
      BY ZenonT(30), <1>1, <1>4
    <3> QED
      BY SMTT(30), <3>1
  <2>2. u[i].units[1] = s[i].units[1] /\ (i # 1 => u[i - 1] = s[i - 1])
    BY <1>1, <1>3, <2>1
  <2>3. Whole(u[i], p + 1, kinds)
    <3>1. CASE i = Len(s)
      BY <1>3, <3>1
    <3>2. CASE i # Len(s)
      <4>1. Whole(s[i], p, kinds) /\ u[i] = s[i] /\ p <= p + 1 /\ p + 1 \in Nat
        <5>1. u[i] = s[i]
          BY <1>1, <2>1, <3>2
        <5>2. Whole(s[i], p, kinds)
          BY <2>1 DEF Joined
        <5> QED
          BY SMTT(30), <5>1, <5>2
      <4> QED
        BY <4>1, WholeKept
    <3> QED
      BY <3>1, <3>2
  <2>4. s[i].units[1] = 1 + (IF i = 1 THEN t ELSE End(s[i - 1]))
    BY <2>1 DEF Joined
  <2> QED
    BY <2>2, <2>3, <2>4
<1> QED
  BY <1>1, <1>3, <1>4 DEF Joined

(* The first entry of the channel is taken out.                              *)
LEMMA JoinedTail ==
    ASSUME NEW s \in Seq(Entries), NEW t \in Nat, NEW p \in Nat, NEW kinds,
           Joined(s, t, p, kinds), s # <<>>, \A i \in DOMAIN s : s[i].units # <<>>
    PROVE  /\ Joined(Tail(s), t + Len(Head(s).units), p, kinds)
           /\ Whole(Head(s), p, kinds) /\ Head(s).units[1] = t + 1
<1>1. PICK u \in Seq(Entries) : u = Tail(s)
  <2>1. Tail(s) \in Seq(Entries)
    OBVIOUS
  <2> QED
    BY <2>1
<1>2. /\ Len(s) \in Nat \ {0} /\ DOMAIN s = 1..Len(s) /\ DOMAIN u = 1..(Len(s) - 1)
      /\ Len(u) = Len(s) - 1 /\ (\A i \in 1..(Len(s) - 1) : u[i] = s[i + 1])
      /\ Head(s) = s[1] /\ s[1] \in Entries /\ 1 \in DOMAIN s /\ Len(s) \in 1..Len(s)
  BY <1>1
<1>3. Whole(s[1], p, kinds) /\ s[1].units[1] = t + 1 /\ s[1].units # <<>>
  BY <1>2 DEF Joined
<1>4. /\ End(s[1]) = t + Len(s[1].units)
      /\ Len(s[1].units) \in Nat
  <2>1. End(s[1]) = s[1].units[1] + (Len(s[1].units) - 1) /\ Len(s[1].units) \in Nat \ {0}
    BY <1>2, <1>3, WholeEnd
  <2> QED
    BY SMTT(30), <1>3, <2>1
<1>5. ASSUME NEW i \in DOMAIN u
      PROVE  /\ Whole(u[i], p, kinds)
             /\ u[i].units[1] = 1 + (IF i = 1 THEN t + Len(s[1].units) ELSE End(u[i - 1]))
  <2>1. /\ i + 1 \in DOMAIN s /\ u[i] = s[i + 1] /\ i + 1 # 1 /\ (i + 1) - 1 = i
        /\ (i # 1 => u[i - 1] = s[i])
    BY <1>2, <1>5
  <2>2. Whole(s[i + 1], p, kinds) /\ s[i + 1].units[1] = 1 + End(s[i])
    <3>1. s[i + 1].units[1] = 1 + (IF i + 1 = 1 THEN t ELSE End(s[(i + 1) - 1]))
      BY <2>1 DEF Joined
    <3> QED
      BY <2>1, <3>1 DEF Joined
  <2> QED
    BY <1>4, <2>1, <2>2
<1>6. p = (IF u = <<>> THEN t + Len(s[1].units) ELSE End(u[Len(u)]))
  <2>1. p = End(s[Len(s)])
    BY <1>2 DEF Joined
  <2>2. CASE u = <<>>
    <3>1. Len(s) = 1
      BY <1>2, <2>2
    <3> QED
      BY <1>4, <2>1, <2>2, <3>1
  <2>3. CASE u # <<>>
    <3>1. Len(u) \in 1..(Len(s) - 1) /\ u[Len(u)] = s[Len(s)]
      BY <1>1, <1>2, <2>3
    <3> QED
      BY <2>1, <2>3, <3>1
  <2> QED
    BY <2>2, <2>3
<1> QED
  BY <1>1, <1>2, <1>3, <1>5, <1>6 DEF Joined

(* No batch is open.                                                         *)
LEMMA NoneOpen ==
    /\ NoSlot \in [text : Nat, reasoning : Nat]
    /\ (slot = NoSlot => OpenIsLast)
    /\ \A k \in {"text", "reasoning"} : NoSlot[k] = 0
  BY DEF NoSlot, OpenIsLast

(* One batch at most is open after a delta of a kind.                        *)
LEMMA OnlyOne ==
    ASSUME NEW k \in {"text", "reasoning"}, NEW n \in Nat
    PROVE  /\ [NoSlot EXCEPT ![k] = n] \in [text : Nat, reasoning : Nat]
           /\ [NoSlot EXCEPT ![k] = n][k] = n
           /\ \A l \in {"text", "reasoning"} : l # k => [NoSlot EXCEPT ![k] = n][l] = 0
           /\ ([NoSlot EXCEPT ![k] = n].text = 0 \/ [NoSlot EXCEPT ![k] = n].reasoning = 0)
  BY DEF NoSlot

(* The numbers the channel is described with.                                *)
LEMMA ChannelNats ==
    ASSUME LogOK, ChannelType
    PROVE  /\ Placed \in Nat /\ Len(Out) \in Nat /\ Len(held.units) \in Nat /\ Taken \in Nat
           /\ Len(chan) \in Nat /\ DOMAIN chan = 1..Len(chan)
           /\ (\A i \in DOMAIN chan : chan[i] \in Entries)
           /\ (placing => /\ Unit = Placed + 1 /\ Len(emitted) = Placed + 1
                          /\ Kind = emitted[Placed + 1] /\ Kind \in {"text", "reasoning"})
           /\ (~placing => Len(emitted) = Placed)
<1>1. Len(emitted) \in Nat /\ (placing => Len(emitted) - 1 \in Nat)
  BY DEF ChannelType
<1>2. Placed \in Nat /\ (~placing => Len(emitted) = Placed)
      /\ (placing => Len(emitted) = Placed + 1)
  BY <1>1 DEF Placed
<1>3. Len(Out) \in Nat
  BY OutType DEF LogOK
<1>4. Len(held.units) \in Nat
  <2>1. held.units \in Seq(Nat)
    BY DEF ChannelType, Entries
  <2> QED
    BY <2>1
<1>5. Taken \in Nat
  BY <1>3, <1>4 DEF Taken
<1>6. /\ Len(chan) \in Nat /\ DOMAIN chan = 1..Len(chan)
      /\ (\A i \in DOMAIN chan : chan[i] \in Entries)
  BY DEF ChannelType
<1>7. placing => Unit = Placed + 1 /\ Kind = emitted[Placed + 1] /\ Kind \in {"text", "reasoning"}
  BY <1>2 DEF ChannelType, Unit, Kind
<1> QED
  BY <1>2, <1>3, <1>4, <1>5, <1>6, <1>7

(* No batch in the channel is empty.                                         *)
LEMMA NotEmpty ==
    ASSUME LogOK, ChannelType, ChannelIds
    PROVE  /\ \A i \in DOMAIN chan : chan[i].units # <<>>
           /\ (Working => held.units # <<>> /\ held # NoEntry /\ held.id > 0)
           /\ Len(<<>>) = 0
<1>1. \A i \in DOMAIN chan : Len(chan[i].units) # 0
  BY ChannelNats DEF ChannelIds
<1> QED
  BY <1>1 DEF ChannelIds, Working

(* Nothing happens to the channel and to what is published.                  *)
LEMMA ChannelKept ==
    ASSUME ChannelOK, UNCHANGED channel, Out' = Out, task' = task
    PROVE  ChannelOK'
<1>1. /\ emitted' = emitted /\ placing' = placing /\ chan' = chan /\ held' = held /\ queued' = queued
      /\ slot' = slot /\ accepted' = accepted /\ overflowed' = overflowed
  BY DEF channel
<1>2. ChannelType' /\ ChannelIds'
  BY <1>1 DEF ChannelOK, ChannelType, ChannelIds, Kind, Unit
<1>3. Placed' = Placed /\ Taken' = Taken /\ (Working' <=> Working)
  BY <1>1 DEF Placed, Taken, Working
<1>4. OutOK'
  BY <1>1, <1>3 DEF ChannelOK, OutOK
<1>5. FlowOK'
  BY <1>1, <1>3 DEF ChannelOK, FlowOK, Flow, OpenIsLast, LastEntry
<1> QED
  BY <1>2, <1>4, <1>5 DEF ChannelOK

(* A delta of the agent that is not yet placed.                              *)
LEMMA ChannelEmits ==
    ASSUME LogOK, ChannelOK, NEW kind \in {"text", "reasoning"}, EmitDelta(kind),
           Out' = Out, task' = task
    PROVE  ChannelOK'
<1>1. /\ ~placing /\ placing' = TRUE /\ emitted' = Append(emitted, kind)
      /\ chan' = chan /\ held' = held /\ queued' = queued
      /\ slot' = slot /\ accepted' = accepted /\ overflowed' = overflowed
  BY DEF EmitDelta
<1>2. /\ emitted' \in Seq(Kinds) /\ Len(emitted') = Len(emitted) + 1 /\ emitted' # <<>>
      /\ Len(emitted) \in Nat /\ emitted'[Len(emitted')] = kind
      /\ (\A i \in 1..Len(emitted) : emitted'[i] = emitted[i])
  <2>1. emitted \in Seq(Kinds) /\ kind \in Kinds
    BY DEF ChannelOK, ChannelType, Kinds
  <2> QED
    BY <1>1, <2>1
<1>3. ChannelType' /\ ChannelIds'
  <2>1. ChannelIds'
    BY <1>1 DEF ChannelOK, ChannelIds
  <2>2. ChannelType'
    BY <1>1, <1>2 DEF ChannelOK, ChannelType, Kind, Unit
  <2> QED
    BY <2>1, <2>2
<1>4. /\ Placed' = Placed /\ Taken' = Taken /\ (Working' <=> Working) /\ Placed \in Nat /\ Taken \in Nat
      /\ \A i \in 1..Placed : emitted'[i] = emitted[i]
  <2>1. Placed = Len(emitted) /\ Placed \in Nat /\ Taken \in Nat
    BY <1>1, ChannelNats DEF ChannelOK
  <2> QED
    BY <1>1, <1>2, <2>1 DEF Placed, Taken, Working
<1>5. OutOK'
  BY <1>1, <1>4 DEF ChannelOK, OutOK
<1>6. ASSUME ~overflowed, task # "dead" PROVE Flow'
  <2>1. Flow
    BY <1>6 DEF ChannelOK, FlowOK
  <2>2. Joined(chan, Taken, Placed, emitted')
    <3>1. chan \in Seq(Entries)
      BY DEF ChannelOK, ChannelType
    <3> QED
      BY <1>4, <2>1, <3>1, JoinedKept DEF Flow
  <2>3. Working => Whole(held, Placed, emitted')
    <3>1. Placed <= Placed
      BY <1>4
    <3> QED
      BY <1>4, <2>1, <3>1, WholeKept DEF Flow
  <2> QED
    BY <1>1, <1>4, <2>1, <2>2, <2>3 DEF Flow
<1>7. FlowOK'
  BY <1>1, <1>6 DEF ChannelOK, FlowOK, OpenIsLast, LastEntry
<1> QED
  BY <1>3, <1>5, <1>7 DEF ChannelOK

(* Reasoning beyond what is retained is taken back.                          *)
LEMMA ChannelDrops ==
    ASSUME LogOK, ChannelOK, DropReasoning, Out' = Out, task' = task
    PROVE  ChannelOK'
<1>1. /\ placing /\ placing' = FALSE /\ emitted' = Front(emitted) /\ slot' = Boundary(Kind)
      /\ chan' = chan /\ held' = held /\ queued' = queued
      /\ accepted' = accepted /\ overflowed' = overflowed
  BY DEF DropReasoning
<1>2. /\ Placed \in Nat /\ Taken \in Nat /\ Len(emitted) = Placed + 1 /\ Kind \in {"text", "reasoning"}
  BY <1>1, ChannelNats DEF ChannelOK
<1>3. /\ emitted' \in Seq(Kinds) /\ Len(emitted') = Placed
      /\ (\A i \in 1..Placed : emitted'[i] = emitted[i])
  <2>1. emitted \in Seq(Kinds)
    BY DEF ChannelOK, ChannelType
  <2> QED
    BY <1>1, <1>2, <2>1 DEF Front
<1>4. /\ slot' \in [text : Nat, reasoning : Nat] /\ slot'[Kind] = slot[Kind]
      /\ (\A k \in {"text", "reasoning"} : k # Kind => slot'[k] = 0)
      /\ (slot'.text = 0 \/ slot'.reasoning = 0)
  <2>1. slot[Kind] \in Nat
    BY <1>2 DEF ChannelOK, ChannelType
  <2> QED
    BY <1>1, <1>2, <2>1, OnlyOne DEF Boundary
<1>5. ChannelType' /\ ChannelIds'
  <2>1. ChannelIds'
    BY <1>1 DEF ChannelOK, ChannelIds
  <2>2. ChannelType'
    BY <1>1, <1>3, <1>4 DEF ChannelOK, ChannelType
  <2> QED
    BY <2>1, <2>2
<1>6. Placed' = Placed /\ Taken' = Taken /\ (Working' <=> Working)
  BY <1>1, <1>3 DEF Placed, Taken, Working
<1>7. OutOK'
  BY <1>1, <1>6 DEF ChannelOK, OutOK
<1>8. ASSUME ~overflowed, task # "dead" PROVE Flow' /\ OpenIsLast'
  <2>1. Flow /\ OpenIsLast
    BY <1>8 DEF ChannelOK, FlowOK
  <2>2. Joined(chan, Taken, Placed, emitted')
    <3>1. chan \in Seq(Entries)
      BY DEF ChannelOK, ChannelType
    <3> QED
      BY <1>2, <1>3, <2>1, <3>1, JoinedKept DEF Flow
  <2>3. Working => Whole(held, Placed, emitted')
    <3>1. Placed <= Placed
      BY <1>2
    <3> QED
      BY <1>2, <1>3, <2>1, <3>1, WholeKept DEF Flow
  <2>4. OpenIsLast'
    <3>1. \A k \in {"text", "reasoning"} : slot'[k] # 0 => slot'[k] = slot[k] /\ slot[k] # 0
      BY <1>4
    <3> QED
      BY <1>1, <1>4, <2>1, <3>1 DEF OpenIsLast, LastEntry
  <2> QED
    BY <1>1, <1>6, <2>1, <2>2, <2>3, <2>4 DEF Flow
<1>9. FlowOK'
  BY <1>1, <1>8 DEF ChannelOK, FlowOK
<1> QED
  BY <1>5, <1>7, <1>9 DEF ChannelOK

(* Both ways try_send can go: the entry is the last, or the run is over.     *)
LEMMA Sends ==
    ASSUME LogOK, ChannelOK, NEW e \in Entries, e.id = queued + 1, Len(e.units) = 1,
           TrySend(e, task # "dead"), held' = held, task' = task
    PROVE  /\ chan' \in Seq(Entries) /\ Len(chan') <= Capacity /\ queued' \in Nat
           /\ overflowed' \in BOOLEAN /\ ChannelIds'
           /\ \/ overflowed' = TRUE /\ ~(task # "dead" /\ Len(chan) < Capacity)
              \/ /\ task # "dead" /\ Len(chan) < Capacity
                 /\ chan' = Append(chan, e) /\ queued' = queued + 1 /\ overflowed' = overflowed
                 /\ chan'[Len(chan')] = e /\ chan' # <<>>
<1>1. /\ Len(chan) \in Nat /\ DOMAIN chan = 1..Len(chan) /\ (\A i \in DOMAIN chan : chan[i] \in Entries)
      /\ chan \in Seq(Entries) /\ queued \in Nat /\ Capacity \in Nat /\ BatchLimit \in Nat \ {0}
      /\ Len(chan) <= Capacity /\ held.id \in Nat
  BY ChannelNats, ChannelAssumption DEF ChannelOK, ChannelType, Entries
<1>2. CASE task # "dead" /\ Len(chan) < Capacity
  <2>1. chan' = Append(chan, e) /\ queued' = queued + 1 /\ overflowed' = overflowed
    BY <1>2 DEF TrySend
  <2>2. /\ chan' \in Seq(Entries) /\ Len(chan') = Len(chan) + 1 /\ DOMAIN chan' = 1..(Len(chan) + 1)
        /\ chan'[Len(chan) + 1] = e /\ (\A i \in 1..Len(chan) : chan'[i] = chan[i]) /\ chan' # <<>>
    BY <1>1, <2>1
  <2>3. /\ \A i \in DOMAIN chan : /\ chan[i].id \in 1..queued /\ held.id < chan[i].id
                                  /\ Len(chan[i].units) \in 1..BatchLimit
        /\ \A i, j \in DOMAIN chan : i < j => chan[i].id < chan[j].id
        /\ held.id <= queued
    BY DEF ChannelOK, ChannelIds
  <2>4. ASSUME NEW i \in DOMAIN chan'
        PROVE  /\ chan'[i].id \in 1..queued' /\ held'.id < chan'[i].id
               /\ Len(chan'[i].units) \in 1..BatchLimit
    <3>1. CASE i \in DOMAIN chan
      <4>1. chan'[i] = chan[i]
        BY <1>1, <2>2, <3>1
      <4>2. chan[i].id \in 1..(queued + 1)
        BY <1>1, <2>3, <3>1
      <4> QED
        BY <2>1, <2>3, <3>1, <4>1, <4>2
    <3>2. CASE i = Len(chan) + 1
      <4>1. queued + 1 \in 1..(queued + 1) /\ held.id < queued + 1 /\ 1 \in 1..BatchLimit
        BY <1>1, <2>3
      <4> QED
        BY <2>1, <2>2, <3>2, <4>1
    <3> QED
      BY <1>1, <2>2, <2>4, <3>1, <3>2
  <2>5. ASSUME NEW i \in DOMAIN chan', NEW j \in DOMAIN chan', i < j
        PROVE  chan'[i].id < chan'[j].id
    <3>1. i \in DOMAIN chan /\ chan'[i] = chan[i]
      BY <1>1, <2>2, <2>5
    <3>2. CASE j \in DOMAIN chan
      <4>1. chan'[j] = chan[j]
        BY <1>1, <2>2, <3>2
      <4> QED
        BY <2>3, <2>5, <3>1, <3>2, <4>1
    <3>3. CASE j = Len(chan) + 1
      <4>1. chan[i].id < queued + 1
        BY <1>1, <2>3, <3>1
      <4> QED
        BY <2>2, <3>1, <3>3, <4>1
    <3> QED
      BY <1>1, <2>2, <2>5, <3>2, <3>3
  <2>6. held.id <= queued + 1
    BY <1>1, <2>3
  <2>7. ChannelIds'
    <3>1. /\ \A i \in DOMAIN chan' : /\ chan'[i].id \in 1..queued' /\ held'.id < chan'[i].id
                                     /\ Len(chan'[i].units) \in 1..BatchLimit
          /\ \A i, j \in DOMAIN chan' : i < j => chan'[i].id < chan'[j].id
          /\ held'.id <= queued'
      BY <2>1, <2>4, <2>5, <2>6
    <3> QED
      BY <3>1 DEF ChannelOK, ChannelIds
  <2>8. Len(chan') <= Capacity /\ queued + 1 \in Nat /\ overflowed' \in BOOLEAN
    BY SMTT(30), <1>1, <1>2, <2>1, <2>2 DEF ChannelOK, ChannelType
  <2> QED
    BY <1>2, <2>1, <2>2, <2>7, <2>8
<1>3. CASE ~(task # "dead" /\ Len(chan) < Capacity)
  <2>1. overflowed' = TRUE /\ chan' = chan /\ queued' = queued
    BY <1>3 DEF TrySend
  <2>2. ChannelIds'
    BY <2>1 DEF ChannelOK, ChannelIds
  <2> QED
    BY <1>1, <1>3, <2>1, <2>2
<1> QED
  BY <1>2, <1>3

(* An event of the agent that is no delta: it is sent at once.               *)
LEMMA ChannelEvent ==
    ASSUME LogOK, ChannelOK, EmitEvent(task # "dead"), Out' = Out, task' = task
    PROVE  ChannelOK'
<1>1. /\ ~placing /\ placing' = placing /\ emitted' = Append(emitted, "event") /\ held' = held
      /\ slot' = NoSlot /\ accepted' = accepted
      /\ TrySend(Entry("event", <<Len(emitted) + 1>>), task # "dead")
  BY DEF EmitEvent
<1>2. /\ Placed \in Nat /\ Taken \in Nat /\ Len(emitted) = Placed
  BY <1>1, ChannelNats DEF ChannelOK
<1>3. /\ emitted' \in Seq(Kinds) /\ Len(emitted') = Placed + 1 /\ emitted'[Placed + 1] = "event"
      /\ (\A i \in 1..Placed : emitted'[i] = emitted[i])
  <2>1. emitted \in Seq(Kinds) /\ "event" \in Kinds
    BY DEF ChannelOK, ChannelType, Kinds
  <2> QED
    BY <1>1, <1>2, <2>1
<1>4. PICK e \in Entries : /\ e = Entry("event", <<Len(emitted) + 1>>) /\ e.id = queued + 1
                           /\ e.units = <<Placed + 1>> /\ e.kind = "event" /\ Len(e.units) = 1
  <2>1. queued + 1 \in Nat /\ "event" \in Kinds /\ <<Placed + 1>> \in Seq(Nat) /\ Len(<<Placed + 1>>) = 1
    BY <1>2 DEF ChannelOK, ChannelType, Kinds
  <2>2. Entry("event", <<Len(emitted) + 1>>) = [id |-> queued + 1, kind |-> "event", units |-> <<Placed + 1>>]
    BY <1>2 DEF Entry
  <2>3. Entry("event", <<Len(emitted) + 1>>) \in Entries
    <3>1. \A n \in Nat : \A k \in Kinds : \A u \in Seq(Nat) : [id |-> n, kind |-> k, units |-> u] \in Entries
      BY DEF Entries
    <3> QED
      BY <2>1, <2>2, <3>1, Zenon
  <2> QED
    BY <2>1, <2>2, <2>3
<1>5. /\ chan' \in Seq(Entries) /\ Len(chan') <= Capacity /\ queued' \in Nat
      /\ overflowed' \in BOOLEAN /\ ChannelIds'
      /\ \/ overflowed' = TRUE
         \/ task # "dead" /\ chan' = Append(chan, e) /\ overflowed' = overflowed
  BY <1>1, <1>4, Sends
<1>6. ChannelType'
  BY <1>1, <1>3, <1>5, NoneOpen DEF ChannelOK, ChannelType
<1>7. Placed' = Placed + 1 /\ Taken' = Taken /\ (Working' <=> Working)
  BY <1>1, <1>3 DEF Placed, Taken, Working
<1>8. OpenIsLast'
  BY <1>1, NoneOpen DEF OpenIsLast
<1>9. ASSUME ~overflowed' PROVE OutOK' /\ FlowOK'
  <2>1. task # "dead" /\ chan' = Append(chan, e) /\ ~overflowed
    BY <1>5, <1>9
  <2>2. Flow /\ Len(Out) <= Placed /\ Out = HashOf(Len(Out))
    BY <2>1 DEF ChannelOK, OutOK, FlowOK
  <2>3. OutOK'
    <3>1. Len(Out) <= Placed + 1
      BY <1>2, <2>2, ChannelNats DEF ChannelOK
    <3> QED
      BY <1>7, <2>2, <3>1 DEF OutOK
  <2>4. Joined(chan', Taken, Placed + 1, emitted')
    <3>1. chan \in Seq(Entries)
      BY DEF ChannelOK, ChannelType
    <3>2. Joined(chan, Taken, Placed, emitted')
      BY <1>2, <1>3, <2>2, <3>1, JoinedKept DEF Flow
    <3> QED
      BY <1>2, <1>3, <1>4, <2>1, <3>1, <3>2, JoinedAppend
  <2>5. Working => Whole(held, Placed + 1, emitted')
    <3>1. Placed <= Placed + 1 /\ Placed + 1 \in Nat
      BY <1>2
    <3> QED
      BY <1>2, <1>3, <2>2, <3>1, WholeKept DEF Flow
  <2>6. Flow'
    BY <1>1, <1>7, <2>2, <2>4, <2>5 DEF Flow
  <2> QED
    BY <1>8, <2>3, <2>6 DEF FlowOK
<1>10. OutOK' /\ FlowOK'
  BY <1>9 DEF OutOK, FlowOK
<1> QED
  BY <1>5, <1>6, <1>10 DEF ChannelOK

(* The open batch is full and is closed.                                     *)
LEMMA ChannelCloses ==
    ASSUME LogOK, ChannelOK, CloseFullBatch, Out' = Out, task' = task
    PROVE  ChannelOK'
<1>1. /\ emitted' = emitted /\ placing' = placing /\ chan' = chan /\ held' = held /\ queued' = queued
      /\ slot' = NoSlot /\ accepted' = accepted /\ overflowed' = overflowed
  BY DEF CloseFullBatch
<1>2. ChannelType' /\ ChannelIds'
  BY <1>1, NoneOpen DEF ChannelOK, ChannelType, ChannelIds, Kind, Unit
<1>3. Placed' = Placed /\ Taken' = Taken /\ (Working' <=> Working)
  BY <1>1 DEF Placed, Taken, Working
<1>4. OutOK'
  BY <1>1, <1>3 DEF ChannelOK, OutOK
<1>5. OpenIsLast'
  BY <1>1, NoneOpen DEF OpenIsLast
<1>6. FlowOK'
  BY <1>1, <1>3, <1>5 DEF ChannelOK, FlowOK, Flow
<1> QED
  BY <1>2, <1>4, <1>6 DEF ChannelOK

(* A piece that starts a batch.                                              *)
LEMMA ChannelStarts ==
    ASSUME LogOK, ChannelOK, NewBatch(task # "dead"), Out' = Out, task' = task
    PROVE  ChannelOK'
<1>1. /\ placing /\ placing' = FALSE /\ emitted' = emitted /\ held' = held
      /\ ~(Kind = "reasoning" /\ accepted >= ReasoningLimit)
      /\ TrySend(Entry(Kind, <<Unit>>), task # "dead")
      /\ slot' = (IF task # "dead" /\ Len(chan) < Capacity
                  THEN [NoSlot EXCEPT ![Kind] = queued + 1] ELSE NoSlot)
      /\ accepted' = (IF Kind = "reasoning" THEN accepted + 1 ELSE accepted)
  BY DEF NewBatch
<1>2. /\ Placed \in Nat /\ Taken \in Nat /\ Len(emitted) = Placed + 1 /\ Unit = Placed + 1
      /\ Kind = emitted[Placed + 1] /\ Kind \in {"text", "reasoning"}
  BY <1>1, ChannelNats DEF ChannelOK
<1>3. PICK e \in Entries : /\ e = Entry(Kind, <<Unit>>) /\ e.id = queued + 1
                           /\ e.units = <<Placed + 1>> /\ e.kind = Kind /\ Len(e.units) = 1
  <2>1. queued + 1 \in Nat /\ Kind \in Kinds /\ <<Placed + 1>> \in Seq(Nat) /\ Len(<<Placed + 1>>) = 1
    BY <1>2 DEF ChannelOK, ChannelType, Kinds
  <2>2. Entry(Kind, <<Unit>>) = [id |-> queued + 1, kind |-> Kind, units |-> <<Placed + 1>>]
    BY <1>2 DEF Entry
  <2>3. Entry(Kind, <<Unit>>) \in Entries
    <3>1. \A n \in Nat : \A k \in Kinds : \A u \in Seq(Nat) : [id |-> n, kind |-> k, units |-> u] \in Entries
      BY DEF Entries
    <3> QED
      BY <2>1, <2>2, <3>1, Zenon
  <2> QED
    BY <2>1, <2>2, <2>3
<1>4. /\ chan' \in Seq(Entries) /\ Len(chan') <= Capacity /\ queued' \in Nat
      /\ overflowed' \in BOOLEAN /\ ChannelIds'
      /\ \/ overflowed' = TRUE /\ ~(task # "dead" /\ Len(chan) < Capacity)
         \/ /\ task # "dead" /\ Len(chan) < Capacity
            /\ chan' = Append(chan, e) /\ queued' = queued + 1 /\ overflowed' = overflowed
            /\ chan'[Len(chan')] = e /\ chan' # <<>>
  BY <1>1, <1>3, Sends
<1>5. accepted' \in 0..ReasoningLimit
  <2>1. accepted \in 0..ReasoningLimit /\ ReasoningLimit \in Nat
    BY ChannelAssumption DEF ChannelOK, ChannelType
  <2> QED
    BY <1>1, <2>1
<1>6. queued + 1 \in Nat
  BY DEF ChannelOK, ChannelType
<1>7. slot' \in [text : Nat, reasoning : Nat]
  BY <1>1, <1>2, <1>6, NoneOpen, OnlyOne
<1>8. ChannelType'
  BY <1>1, <1>4, <1>5, <1>7 DEF ChannelOK, ChannelType
<1>9. Placed' = Placed + 1 /\ Taken' = Taken /\ (Working' <=> Working)
  BY <1>1, <1>2 DEF Placed, Taken, Working
<1>10. ASSUME ~overflowed' PROVE OutOK' /\ FlowOK'
  <2>1. /\ task # "dead" /\ chan' = Append(chan, e) /\ ~overflowed /\ Len(chan) < Capacity
        /\ queued' = queued + 1 /\ chan'[Len(chan')] = e /\ chan' # <<>>
    BY <1>4, <1>10
  <2>2. Flow /\ Len(Out) <= Placed /\ Out = HashOf(Len(Out))
    BY <2>1 DEF ChannelOK, OutOK, FlowOK
  <2>3. OutOK'
    <3>1. Len(Out) <= Placed + 1
      BY <1>2, <2>2, ChannelNats DEF ChannelOK
    <3> QED
      BY <1>9, <2>2, <3>1 DEF OutOK
  <2>4. Joined(chan', Taken, Placed + 1, emitted)
    <3>1. chan \in Seq(Entries)
      BY DEF ChannelOK, ChannelType
    <3> QED
      BY <1>2, <1>3, <2>1, <2>2, <3>1, JoinedAppend DEF Flow
  <2>5. Working => Whole(held, Placed + 1, emitted)
    <3>1. Placed <= Placed + 1 /\ Placed + 1 \in Nat
      BY <1>2
    <3> QED
      BY <1>2, <2>2, <3>1, WholeKept DEF Flow
  <2>6. Flow'
    BY <1>1, <1>9, <2>2, <2>4, <2>5 DEF Flow
  <2>7. OpenIsLast'
    <3>1. slot' = [NoSlot EXCEPT ![Kind] = queued + 1]
      BY <1>1, <2>1
    <3>2. /\ slot'[Kind] = queued + 1 /\ (\A k \in {"text", "reasoning"} : k # Kind => slot'[k] = 0)
          /\ (slot'.text = 0 \/ slot'.reasoning = 0)
      BY <1>2, <1>6, <3>1, OnlyOne
    <3> QED
      BY <1>3, <2>1, <3>2 DEF OpenIsLast, LastEntry
  <2> QED
    BY <2>3, <2>6, <2>7 DEF FlowOK
<1>11. OutOK' /\ FlowOK'
  BY <1>10 DEF OutOK, FlowOK
<1> QED
  BY <1>4, <1>8, <1>11 DEF ChannelOK

(* An entry that grows takes the unit that is being placed; others stay.     *)
LEMMA GrownIs ==
    ASSUME LogOK, ChannelType, placing, NEW e \in Entries
    PROVE  /\ Grown(e) = (IF e.kind = Kind /\ Open(e) THEN Longer(e, Placed + 1) ELSE e)
           /\ Grown(e) \in Entries /\ Grown(e).id = e.id /\ Grown(e).kind = e.kind
           /\ Len(e.units) \in Nat
<1>1. Unit = Placed + 1 /\ Placed + 1 \in Nat
  BY ChannelNats
<1>2. Grown(e) = (IF e.kind = Kind /\ Open(e) THEN Longer(e, Placed + 1) ELSE e)
  BY <1>1 DEF Grown, Longer
<1>3. e.units \in Seq(Nat)
  BY DEF Entries
<1> QED
  BY <1>1, <1>2, <1>3, LongerIs

(* Of two entries with one number, one is the other.                         *)
LEMMA OneOfTheNumber ==
    ASSUME LogOK, ChannelOK, NEW a \in Batches, NEW b \in Batches, a.id = b.id
    PROVE  a = b
<1>1. /\ DOMAIN chan = 1..Len(chan) /\ Len(chan) \in Nat /\ queued \in Nat
      /\ held.id \in Nat /\ (\A i \in DOMAIN chan : chan[i].id \in Nat /\ held.id < chan[i].id)
      /\ \A i, j \in DOMAIN chan : i < j => chan[i].id < chan[j].id
  BY ChannelNats DEF ChannelOK, ChannelType, ChannelIds, Entries
<1>2. \A i \in DOMAIN chan : held.id # chan[i].id
  BY <1>1
<1>3. ASSUME NEW i \in DOMAIN chan, NEW j \in DOMAIN chan, chan[i].id = chan[j].id
      PROVE  i = j
  <2>1. ~(i < j) /\ ~(j < i)
    BY <1>1, <1>3
  <2> QED
    BY <1>1, <2>1
<1> QED
  BY <1>2, <1>3 DEF Batches

(* A piece that goes into the open batch.                                    *)
LEMMA ChannelAdds ==
    ASSUME LogOK, ChannelOK, AddToBatch, Out' = Out, task' = task
    PROVE  ChannelOK'
<1>1. /\ placing /\ placing' = FALSE /\ emitted' = emitted /\ queued' = queued
      /\ overflowed' = overflowed /\ ~(Kind = "reasoning" /\ accepted >= ReasoningLimit)
      /\ slot' = Boundary(Kind) /\ held' = Grown(held)
      /\ chan' = [i \in DOMAIN chan |-> Grown(chan[i])]
      /\ accepted' = (IF Kind = "reasoning" THEN accepted + 1 ELSE accepted)
  BY DEF AddToBatch
<1>2. /\ Placed \in Nat /\ Taken \in Nat /\ Len(emitted) = Placed + 1 /\ Placed + 1 \in Nat
      /\ Kind = emitted[Placed + 1] /\ Kind \in {"text", "reasoning"} /\ Len(Out) \in Nat
      /\ Len(chan) \in Nat /\ DOMAIN chan = 1..Len(chan) /\ (\A i \in DOMAIN chan : chan[i] \in Entries)
      /\ held \in Entries /\ Len(held.units) \in Nat
  BY <1>1, ChannelNats DEF ChannelOK, ChannelType
<1>3. PICK b \in Batches : b.kind = Kind /\ Open(b) /\ ~Full(b)
  BY DEF AddToBatch
<1>4. b \in Entries /\ b.id = slot[Kind] /\ b.id \in Nat /\ b.id # 0 /\ Len(b.units) < BatchLimit
  <2>1. b \in Entries /\ b.id \in Nat
    BY <1>2 DEF Batches, Entries
  <2>2. b.id = slot[Kind]
    BY <1>3 DEF Open
  <2>3. b.id # 0
    <3>1. CASE b = held
      <4>1. held # NoEntry
        BY <1>2, <1>3, <3>1 DEF NoEntry
      <4> QED
        BY <2>1, <3>1, <4>1 DEF ChannelOK, ChannelIds
    <3>2. CASE \E i \in DOMAIN chan : b = chan[i]
      BY <3>2 DEF ChannelOK, ChannelIds
    <3> QED
      BY <3>1, <3>2 DEF Batches
  <2>4. Len(b.units) < BatchLimit
    <3>1. Len(b.units) \in Nat /\ BatchLimit \in Nat
      BY <1>1, <2>1, GrownIs, ChannelAssumption DEF ChannelOK
    <3> QED
      BY <1>3, <3>1 DEF Full
  <2> QED
    BY <2>1, <2>2, <2>3, <2>4
<1>5. ASSUME NEW e \in Batches, e.kind = Kind, Open(e) PROVE e = b
  <2>1. e.id = b.id
    BY <1>4, <1>5 DEF Open
  <2> QED
    BY <2>1, OneOfTheNumber
<1>6. ASSUME NEW e \in Batches
      PROVE  /\ Grown(e) \in Entries /\ Grown(e).id = e.id /\ Grown(e).kind = e.kind
             /\ (Len(e.units) <= BatchLimit => Len(Grown(e).units) <= BatchLimit)
             /\ (e.units # <<>> => Grown(e).units # <<>>)
             /\ Len(Grown(e).units) \in Nat
             /\ (e = NoEntry => Grown(e) = NoEntry)
  <2>1. e \in Entries /\ BatchLimit \in Nat
    BY <1>2, ChannelAssumption DEF Batches
  <2>2. /\ Grown(e) = (IF e.kind = Kind /\ Open(e) THEN Longer(e, Placed + 1) ELSE e)
        /\ Grown(e) \in Entries /\ Grown(e).id = e.id /\ Grown(e).kind = e.kind /\ Len(e.units) \in Nat
    BY <1>1, <2>1, GrownIs DEF ChannelOK
  <2>3. CASE e.kind = Kind /\ Open(e)
    <3>1. /\ Len(Grown(e).units) = Len(e.units) + 1 /\ Grown(e).units # <<>>
      BY <1>2, <2>1, <2>2, <2>3, LongerIs
    <3>2. e # NoEntry
      BY <1>2, <2>3 DEF NoEntry
    <3> QED
      BY <1>4, <1>5, <2>1, <2>2, <2>3, <3>1, <3>2
  <2>4. CASE ~(e.kind = Kind /\ Open(e))
    BY <2>2, <2>4
  <2> QED
    BY <2>3, <2>4
<1>7. /\ held \in Batches /\ \A i \in DOMAIN chan : chan[i] \in Batches
  BY DEF Batches
<1>8. /\ chan' \in Seq(Entries) /\ Len(chan') = Len(chan) /\ DOMAIN chan' = DOMAIN chan
      /\ \A i \in DOMAIN chan : chan'[i] = Grown(chan[i])
  BY <1>1, <1>2, <1>6, <1>7
<1>9. ChannelIds'
  <2>1. /\ \A i \in DOMAIN chan : /\ chan[i].id \in 1..queued /\ held.id < chan[i].id
                                  /\ Len(chan[i].units) \in 1..BatchLimit
        /\ \A i, j \in DOMAIN chan : i < j => chan[i].id < chan[j].id
        /\ held.id <= queued /\ Len(held.units) <= BatchLimit
        /\ (task \in {"recv", "take", "row", "publish", "sending"} =>
             (held = NoEntry <=> task = "recv"))
        /\ (held # NoEntry => held.id > 0 /\ held.units # <<>>)
    BY DEF ChannelOK, ChannelIds
  <2>2. held'.id = held.id /\ Len(held'.units) <= BatchLimit
    BY <1>1, <1>6, <1>7, <2>1
  <2>3. \A i \in DOMAIN chan' : chan'[i].id = chan[i].id
    BY <1>6, <1>7, <1>8
  <2>4. \A i \in DOMAIN chan' : Len(chan'[i].units) \in 1..BatchLimit
    <3>1. ASSUME NEW i \in DOMAIN chan PROVE Len(Grown(chan[i]).units) \in 1..BatchLimit
      <4>1. /\ Len(Grown(chan[i]).units) \in Nat /\ Len(Grown(chan[i]).units) <= BatchLimit
            /\ Grown(chan[i]).units # <<>> /\ Grown(chan[i]).units \in Seq(Nat)
        <5>1. Len(chan[i].units) <= BatchLimit /\ chan[i].units # <<>>
          BY <2>1, <3>1, NotEmpty, ChannelAssumption DEF ChannelOK
        <5>2. Grown(chan[i]) \in Entries
          BY <1>6, <1>7, <3>1
        <5> QED
          BY <1>6, <1>7, <3>1, <5>1, <5>2 DEF Entries
      <4>2. Len(Grown(chan[i]).units) # 0 /\ BatchLimit \in Nat
        BY <4>1, ChannelAssumption
      <4> QED
        BY <4>1, <4>2
    <3> QED
      BY <1>8, <3>1
  <2>5. (held' = NoEntry) <=> (held = NoEntry)
    <3>1. held # NoEntry => held.id # 0
      BY <2>1
    <3>2. NoEntry.id = 0
      BY DEF NoEntry
    <3> QED
      BY <1>1, <1>6, <1>7, <3>1, <3>2
  <2>6. held # NoEntry => held'.units # <<>>
    BY <1>1, <1>6, <1>7, <2>1
  <2> QED
    BY <1>1, <1>8, <2>1, <2>2, <2>3, <2>4, <2>5, <2>6 DEF ChannelIds
<1>10. /\ slot' \in [text : Nat, reasoning : Nat] /\ slot'[Kind] = slot[Kind]
       /\ (\A k \in {"text", "reasoning"} : k # Kind => slot'[k] = 0)
       /\ (slot'.text = 0 \/ slot'.reasoning = 0)
  <2>1. slot[Kind] \in Nat
    BY <1>2 DEF ChannelOK, ChannelType
  <2> QED
    BY <1>1, <1>2, <2>1, OnlyOne DEF Boundary
<1>11. ChannelType'
  <2>1. accepted' \in 0..ReasoningLimit
    <3>1. accepted \in 0..ReasoningLimit /\ ReasoningLimit \in Nat
      BY ChannelAssumption DEF ChannelOK, ChannelType
    <3> QED
      BY <1>1, <3>1
  <2>2. held' \in Entries
    BY <1>1, <1>6, <1>7
  <2> QED
    BY <1>1, <1>8, <1>10, <2>1, <2>2 DEF ChannelOK, ChannelType
<1>12. Placed' = Placed + 1 /\ (Working' <=> Working)
  BY <1>1, <1>2 DEF Placed, Working
<1>13. OutOK'
  BY <1>1, <1>2, <1>12 DEF ChannelOK, OutOK
<1>14. ASSUME ~overflowed, task # "dead" PROVE Flow' /\ OpenIsLast'
  <2>1. Flow /\ OpenIsLast
    BY <1>14 DEF ChannelOK, FlowOK
  <2>2. LastEntry(Kind) /\ slot[Kind] = queued
    BY <1>2, <1>4, <2>1 DEF OpenIsLast, LastEntry
  <2>3. CASE chan = <<>>
    <3>1. task = "take" /\ held.id = queued /\ held.kind = Kind /\ Working /\ chan' = <<>>
      <4>1. chan' = <<>>
        BY <1>8, <2>3
      <4> QED
        BY <2>2, <2>3, <4>1 DEF LastEntry, Working
    <3>2. held' = Longer(held, Placed + 1)
      <4>1. Open(held)
        BY <1>2, <2>2, <3>1 DEF Open
      <4> QED
        BY <1>1, <1>2, <3>1, <4>1, GrownIs DEF ChannelOK
    <3>3. /\ Whole(held, Placed, emitted) /\ held.units[1] = Len(Out) + 1 /\ held.units # <<>>
          /\ Placed = Taken /\ Taken = Len(Out) + Len(held.units)
      BY <2>1, <2>3, <3>1, NotEmpty DEF Flow, Joined, Taken, ChannelOK
    <3>4. End(held) = Placed
      <4>1. End(held) = held.units[1] + (Len(held.units) - 1)
        BY <1>2, <3>3, WholeEnd
      <4>2. PICK m \in Nat, n \in Nat : m = Len(Out) /\ n = Len(held.units)
        BY <1>2
      <4>3. End(held) = (m + 1) + (n - 1) /\ Placed = m + n
        BY <3>3, <4>1, <4>2
      <4> QED
        BY <4>3
    <3>5. Whole(held', Placed + 1, emitted) /\ held'.units[1] = held.units[1]
      BY <1>2, <3>1, <3>2, <3>3, <3>4, WholeLonger
    <3>6. Len(held'.units) = Len(held.units) + 1 /\ held'.id = held.id /\ held'.kind = held.kind
      BY <1>2, <3>2, LongerIs
    <3>7. Taken' = Placed + 1
      BY <1>2, <1>12, <3>1, <3>3, <3>6 DEF Taken
    <3>8. Flow'
      BY <1>1, <1>12, <3>1, <3>3, <3>5, <3>7 DEF Flow, Joined
    <3>9. OpenIsLast'
      BY <1>1, <1>10, <2>2, <3>1, <3>6 DEF OpenIsLast, LastEntry
    <3> QED
      BY <3>8, <3>9
  <2>4. CASE chan # <<>>
    <3>1. /\ Len(chan) \in DOMAIN chan /\ Len(chan) # 0 /\ chan[Len(chan)].id = queued
          /\ chan[Len(chan)].kind = Kind /\ Open(chan[Len(chan)]) /\ queued \in Nat
      <4>1. Len(chan) # 0
        BY <2>4 DEF ChannelOK, ChannelType
      <4> QED
        BY <1>2, <2>2, <2>4, <4>1 DEF LastEntry, Open, ChannelOK, ChannelType
    <3>2. /\ (\A i \in DOMAIN chan : i < Len(chan) => chan[i].id < queued) /\ held.id < queued
          /\ held.id \in Nat /\ \A i \in DOMAIN chan : chan[i].id \in Nat
      BY <1>2, <3>1 DEF ChannelOK, ChannelIds, Entries
    <3>3. held' = held
      <4>1. ~(held.kind = Kind /\ Open(held))
        BY SMTT(30), <2>2, <3>1, <3>2 DEF Open
      <4> QED
        BY <1>1, <1>2, <4>1, GrownIs DEF ChannelOK
    <3>4. \A i \in 1..Len(chan) : chan'[i] = IF i = Len(chan) THEN Longer(chan[i], Placed + 1) ELSE chan[i]
      <4>1. ASSUME NEW i \in 1..Len(chan), i # Len(chan) PROVE ~(chan[i].kind = Kind /\ Open(chan[i]))
        <5>1. chan[i].id # queued
          <6>1. i < Len(chan) /\ i \in DOMAIN chan
            <7>1. PICK n \in Nat : n = Len(chan)
              BY <1>2
            <7>2. i \in 1..n /\ i # n
              BY <4>1, <7>1
            <7>3. i < n
              BY <7>2
            <7>4. i \in DOMAIN chan
              BY <1>2
            <7> QED
              BY SMTT(30), <7>1, <7>3, <7>4
          <6>2. chan[i].id < queued /\ chan[i].id \in Nat
            BY <3>2, <6>1
          <6> QED
            BY <3>1, <6>2
        <5> QED
          BY <2>2, <5>1 DEF Open
      <4>2. ASSUME NEW i \in 1..Len(chan)
            PROVE  Grown(chan[i]) = IF chan[i].kind = Kind /\ Open(chan[i])
                                    THEN Longer(chan[i], Placed + 1) ELSE chan[i]
        BY <1>1, <1>2, <4>2, GrownIs DEF ChannelOK
      <4> QED
        BY <1>2, <1>8, <3>1, <4>1, <4>2
    <3>5. Joined(chan', Taken, Placed + 1, emitted)
      <4>1. chan \in Seq(Entries) /\ emitted[Placed + 1] = chan[Len(chan)].kind
        BY <1>2, <3>1 DEF ChannelOK, ChannelType
      <4>2. \A i \in DOMAIN chan : chan[i].units # <<>>
        BY NotEmpty DEF ChannelOK
      <4>3. Joined(chan, Taken, Placed, emitted)
        BY <2>1 DEF Flow
      <4>4. PICK u \in Seq(Entries) : u = chan'
        BY SMTT(30), <1>8
      <4>5. Joined(u, Taken, Placed + 1, emitted)
        <5>1. /\ Len(u) = Len(chan)
              /\ \A i \in 1..Len(chan) : u[i] = IF i = Len(chan) THEN Longer(chan[i], Placed + 1) ELSE chan[i]
          BY <1>8, <3>4, <4>4
        <5> QED
          BY ZenonT(30), <1>2, <2>4, <4>1, <4>2, <4>3, <5>1, JoinedLonger
      <4> QED
        BY <4>4, <4>5
    <3>6. Working => Whole(held, Placed + 1, emitted)
      <4>1. Placed <= Placed + 1
        BY <1>2
      <4> QED
        BY <1>2, <2>1, <4>1, WholeKept DEF Flow
    <3>7. Taken' = Taken
      BY <1>12, <3>3 DEF Taken
    <3>8. Flow'
      BY <1>1, <1>12, <2>1, <3>3, <3>5, <3>6, <3>7 DEF Flow
    <3>9. OpenIsLast'
      <4>1. /\ chan' # <<>> /\ chan'[Len(chan')].id = queued /\ chan'[Len(chan')].kind = Kind
        <5>1. chan' # <<>>
          BY <1>8, <3>1
        <5>2. chan'[Len(chan')] = Grown(chan[Len(chan)])
          BY <1>8, <3>1
        <5> QED
          BY <1>6, <1>7, <3>1, <5>1, <5>2
      <4> QED
        BY <1>1, <1>10, <2>2, <4>1 DEF OpenIsLast, LastEntry
    <3> QED
      BY <3>8, <3>9
  <2> QED
    BY <2>3, <2>4
<1>15. FlowOK'
  BY <1>1, <1>14 DEF FlowOK
<1> QED
  BY <1>9, <1>11, <1>13, <1>15 DEF ChannelOK

(* The publishing task receives an entry.                                    *)
LEMMA ChannelRecv ==
    ASSUME LogOK, ChannelOK, task = "recv", Recv, Out' = Out, task' = "take"
    PROVE  ChannelOK'
<1>1. /\ held = NoEntry /\ chan # <<>> /\ held' = Head(chan) /\ chan' = Tail(chan)
      /\ emitted' = emitted /\ placing' = placing /\ queued' = queued /\ slot' = slot
      /\ accepted' = accepted /\ overflowed' = overflowed
  BY DEF Recv
<1>2. chan \in Seq(Entries) /\ Len(chan) <= Capacity /\ Capacity \in Nat /\ queued \in Nat
  BY ChannelAssumption DEF ChannelOK, ChannelType
<1>3. /\ Len(chan) \in Nat \ {0} /\ DOMAIN chan = 1..Len(chan) /\ 1 \in DOMAIN chan
      /\ (\A i \in DOMAIN chan : chan[i] \in Entries)
      /\ chan' \in Seq(Entries) /\ Len(chan') = Len(chan) - 1 /\ DOMAIN chan' = 1..(Len(chan) - 1)
      /\ (\A i \in 1..(Len(chan) - 1) : chan'[i] = chan[i + 1])
      /\ held' = chan[1] /\ chan[1] \in Entries
  BY <1>1, <1>2
<1>4. /\ \A i \in DOMAIN chan : /\ chan[i].id \in 1..queued
                                /\ Len(chan[i].units) \in 1..BatchLimit
      /\ \A i, j \in DOMAIN chan : i < j => chan[i].id < chan[j].id
      /\ \A i \in DOMAIN chan : chan[i].units # <<>>
  BY NotEmpty DEF ChannelOK, ChannelIds
<1>5. \A i \in DOMAIN chan' : i + 1 \in DOMAIN chan /\ chan'[i] = chan[i + 1] /\ 1 < i + 1
  BY <1>3
<1>6. ChannelIds'
  <2>1. \A i \in DOMAIN chan' : /\ chan'[i].id \in 1..queued /\ held'.id < chan'[i].id
                                /\ Len(chan'[i].units) \in 1..BatchLimit
    BY <1>3, <1>4, <1>5
  <2>2. \A i, j \in DOMAIN chan' : i < j => chan'[i].id < chan'[j].id
    <3>1. \A i, j \in DOMAIN chan' : i < j => i + 1 < j + 1
      BY <1>3
    <3> QED
      BY <1>4, <1>5, <3>1
  <2>3. held'.id \in 1..queued /\ Len(held'.units) \in 1..BatchLimit /\ held'.units # <<>>
    BY <1>3, <1>4
  <2>4. held'.id <= queued /\ Len(held'.units) <= BatchLimit /\ held'.id > 0
    BY <1>2, <2>3, ChannelAssumption
  <2>5. held' # NoEntry
    BY <2>3 DEF NoEntry
  <2> QED
    BY <1>1, <2>1, <2>2, <2>3, <2>4, <2>5 DEF ChannelIds
<1>7. ChannelType'
  <2>1. Len(chan') <= Capacity
    BY <1>2, <1>3
  <2>2. held' \in Entries
    BY <1>3
  <2> QED
    BY <1>1, <1>3, <2>1, <2>2 DEF ChannelOK, ChannelType, Kind, Unit
<1>8. /\ Placed' = Placed /\ Working' /\ ~Working /\ Placed \in Nat /\ Taken \in Nat
      /\ Taken = Len(Out) /\ Taken' = Taken + Len(held'.units)
  <2>1. Placed' = Placed /\ Working' /\ ~Working
    BY <1>1 DEF Placed, Working
  <2> QED
    BY <2>1, ChannelNats DEF Taken, ChannelOK
<1>9. OutOK'
  BY <1>1, <1>8 DEF ChannelOK, OutOK
<1>10. ASSUME ~overflowed PROVE Flow' /\ OpenIsLast'
  <2>1. Flow /\ OpenIsLast
    BY <1>10 DEF ChannelOK, FlowOK
  <2>2. /\ Joined(Tail(chan), Taken + Len(Head(chan).units), Placed, emitted)
        /\ Whole(Head(chan), Placed, emitted) /\ Head(chan).units[1] = Taken + 1
    <3>1. Joined(chan, Taken, Placed, emitted)
      BY <2>1 DEF Flow
    <3> QED
      BY <1>1, <1>2, <1>4, <1>8, <3>1, JoinedTail
  <2>3. Flow'
    BY <1>1, <1>8, <2>2 DEF Flow
  <2>4. OpenIsLast'
    <3>1. /\ (chan' = <<>> => chan[Len(chan)] = held')
          /\ (chan' # <<>> => chan'[Len(chan')] = chan[Len(chan)])
      <4>1. CASE chan' = <<>>
        <5>1. Len(chan') = 0
          BY <4>1
        <5>2. Len(chan) = 1
          <6>1. \A n \in Nat : n - 1 = 0 => n = 1
            OBVIOUS
          <6>2. Len(chan) \in Nat /\ Len(chan) - 1 = 0
            BY <1>3, <5>1
          <6> QED
            BY <6>1, <6>2, Zenon
        <5> QED
          BY <1>3, <4>1, <5>2
      <4>2. CASE chan' # <<>>
        <5>1. Len(chan') \in 1..(Len(chan) - 1) /\ Len(chan') + 1 = Len(chan)
          BY <1>3, <4>2
        <5> QED
          BY <1>3, <4>2, <5>1
      <4> QED
        BY <4>1, <4>2
    <3> QED
      BY <1>1, <2>1, <3>1 DEF OpenIsLast, LastEntry
  <2> QED
    BY <2>3, <2>4
<1>11. FlowOK'
  BY <1>1, <1>10 DEF FlowOK
<1> QED
  BY <1>6, <1>7, <1>9, <1>11 DEF ChannelOK

(* The task closes the batch it has received.                                *)
LEMMA ChannelTakes ==
    ASSUME LogOK, ChannelOK, task = "take", Take, Out' = Out, task' \in {"row", "publish"},
           UNCHANGED <<emitted, placing, chan, held, queued, accepted, overflowed>>
    PROVE  ChannelOK'
<1>1. /\ emitted' = emitted /\ placing' = placing /\ chan' = chan /\ held' = held /\ queued' = queued
      /\ accepted' = accepted /\ overflowed' = overflowed
      /\ slot' = (IF Open(held) THEN Closed(held.kind) ELSE slot)
  BY DEF Take
<1>2. /\ slot' \in [text : Nat, reasoning : Nat]
      /\ \A k \in {"text", "reasoning"} :
            slot'[k] = (IF held.kind = k /\ slot[k] = held.id THEN 0 ELSE slot[k])
  <2>1. slot \in [text : Nat, reasoning : Nat] /\ held.kind \in Kinds
    BY DEF ChannelOK, ChannelType, Entries
  <2>2. CASE Open(held)
    <3>1. held.kind \in {"text", "reasoning"} /\ slot[held.kind] = held.id
      BY <2>1, <2>2 DEF Open, Kinds
    <3> QED
      BY <1>1, <2>1, <2>2, <3>1 DEF Closed
  <2>3. CASE ~Open(held)
    BY <1>1, <2>1, <2>3 DEF Open
  <2> QED
    BY <2>2, <2>3
<1>3. ChannelType'
  BY <1>1, <1>2 DEF ChannelOK, ChannelType, Kind, Unit
<1>4. ChannelIds'
  BY <1>1 DEF ChannelOK, ChannelIds
<1>5. Placed' = Placed /\ Taken' = Taken /\ Working' /\ Working
  BY <1>1 DEF Placed, Taken, Working
<1>6. OutOK'
  BY <1>1, <1>5 DEF ChannelOK, OutOK
<1>7. ASSUME ~overflowed PROVE Flow' /\ OpenIsLast'
  <2>1. Flow /\ OpenIsLast
    BY <1>7 DEF ChannelOK, FlowOK
  <2>2. Flow'
    BY <1>1, <1>5, <2>1 DEF Flow
  <2>3. OpenIsLast'
    BY <1>1, <1>2, <2>1 DEF OpenIsLast, LastEntry
  <2> QED
    BY <2>2, <2>3
<1>8. FlowOK'
  BY <1>1, <1>7 DEF FlowOK
<1> QED
  BY <1>3, <1>4, <1>6, <1>8 DEF ChannelOK

(* The task has stored the reasoning it is going to publish.                 *)
LEMMA ChannelRow ==
    ASSUME LogOK, ChannelOK, task = "row", task' = "publish", UNCHANGED channel, Out' = Out
    PROVE  ChannelOK'
<1>1. /\ emitted' = emitted /\ placing' = placing /\ chan' = chan /\ held' = held /\ queued' = queued
      /\ slot' = slot /\ accepted' = accepted /\ overflowed' = overflowed
  BY DEF channel
<1>2. ChannelType' /\ ChannelIds'
  BY <1>1 DEF ChannelOK, ChannelType, ChannelIds, Kind, Unit
<1>3. Placed' = Placed /\ Taken' = Taken /\ Working /\ Working'
  BY <1>1 DEF Placed, Taken, Working
<1>4. OutOK'
  BY <1>1, <1>3 DEF ChannelOK, OutOK
<1>5. FlowOK'
  BY <1>1, <1>3 DEF ChannelOK, FlowOK, Flow, OpenIsLast, LastEntry
<1> QED
  BY <1>2, <1>4, <1>5 DEF ChannelOK

(* The task publishes what it holds: it is what comes next.                  *)
LEMMA ChannelPublishes ==
    ASSUME LogOK, ChannelOK, task = "publish", task' = "sending", UNCHANGED channel,
           Out' = Out \o held.units
    PROVE  ChannelOK'
<1>1. /\ emitted' = emitted /\ placing' = placing /\ chan' = chan /\ held' = held /\ queued' = queued
      /\ slot' = slot /\ accepted' = accepted /\ overflowed' = overflowed
  BY DEF channel
<1>2. ChannelType' /\ ChannelIds'
  BY <1>1 DEF ChannelOK, ChannelType, ChannelIds, Kind, Unit
<1>3. /\ Placed' = Placed /\ Working /\ ~Working'
  BY <1>1 DEF Placed, Working
<1>4. Out \in Seq(Nat) /\ held.units \in Seq(Nat) /\ held \in Entries
  BY OutType DEF LogOK, ChannelOK, ChannelType, Entries
<1>5. PICK m \in Nat, n \in Nat : m = Len(Out) /\ n = Len(held.units)
  BY <1>4
<1>6. /\ Out' \in Seq(Nat) /\ Len(Out') = m + n
      /\ \A i \in 1..(m + n) : Out'[i] = IF i <= m THEN Out[i] ELSE held.units[i - m]
  <2>1. PICK u \in Seq(Nat), v \in Seq(Nat) : u = Out /\ v = held.units
    BY <1>4
  <2>2. /\ u \o v \in Seq(Nat) /\ Len(u \o v) = m + n
        /\ \A i \in 1..(m + n) : (u \o v)[i] = IF i <= m THEN u[i] ELSE v[i - m]
    BY <1>5, <2>1
  <2> QED
    BY <2>1, <2>2
<1>7. Taken' = Taken
  BY <1>3, <1>5, <1>6 DEF Taken
<1>8. ASSUME ~overflowed PROVE OutOK' /\ Flow' /\ OpenIsLast'
  <2>1. Flow /\ OpenIsLast /\ Out = HashOf(Len(Out))
    BY <1>8 DEF ChannelOK, FlowOK, OutOK
  <2>2. Whole(held, Placed, emitted) /\ held.units[1] = m + 1 /\ held.units # <<>> /\ Placed \in Nat
    BY <1>3, <1>5, <2>1, NotEmpty, ChannelNats DEF Flow, ChannelOK
  <2>3. \A j \in 1..n : held.units[j] = m + j
    <3>1. DOMAIN held.units = 1..n
      BY <1>4, <1>5
    <3>2. \A j \in 1..n : held.units[j] = (m + 1) + (j - 1)
      BY <2>2, <3>1 DEF Whole
    <3> QED
      BY <3>2
  <2>4. m + n <= Placed
    <3>1. End(held) \in 1..Placed /\ End(held) = (m + 1) + (n - 1)
      BY <1>4, <1>5, <2>2, WholeEnd
    <3> QED
      BY <2>2, <3>1
  <2>5. \A i \in 1..m : Out[i] = i
    <3>1. Out = HashOf(m)
      BY <1>5, <2>1
    <3> QED
      BY <3>1 DEF HashOf
  <2>6. \A i \in 1..(m + n) : Out'[i] = i
    <3>1. ASSUME NEW i \in 1..(m + n) PROVE Out'[i] = i
      <4>1. CASE i <= m
        BY <1>6, <2>5, <3>1, <4>1
      <4>2. CASE ~(i <= m)
        <5>1. i - m \in 1..n /\ m + (i - m) = i
          BY <3>1, <4>2
        <5> QED
          BY <1>6, <2>3, <3>1, <4>2, <5>1
      <4> QED
        BY <4>1, <4>2
    <3> QED
      BY <3>1
  <2>7. Out' = HashOf(m + n)
    <3>1. PICK u \in Seq(Nat) : u = Out'
      BY <1>6
    <3>2. u = HashOf(m + n)
      BY <1>6, <2>6, <3>1 DEF HashOf
    <3> QED
      BY <3>1, <3>2
  <2>8. OutOK'
    BY <1>3, <1>6, <2>4, <2>7 DEF OutOK
  <2>9. Flow'
    BY <1>1, <1>3, <1>7, <2>1 DEF Flow
  <2>10. OpenIsLast'
    BY <1>1, <2>1 DEF OpenIsLast, LastEntry
  <2> QED
    BY <2>8, <2>9, <2>10
<1>9. OutOK' /\ FlowOK'
  BY <1>1, <1>8 DEF OutOK, FlowOK
<1> QED
  BY <1>2, <1>9 DEF ChannelOK

(* The event is out and the task comes back for the next entry.              *)
LEMMA ChannelSends ==
    ASSUME LogOK, ChannelOK, task = "sending", task' = "recv", held' = NoEntry, Out' = Out,
           UNCHANGED <<emitted, placing, chan, queued, slot, accepted, overflowed>>
    PROVE  ChannelOK'
<1>1. /\ emitted' = emitted /\ placing' = placing /\ chan' = chan /\ queued' = queued
      /\ slot' = slot /\ accepted' = accepted /\ overflowed' = overflowed
  OBVIOUS
<1>2. NoEntry \in Entries /\ NoEntry.id = 0 /\ Len(NoEntry.units) = 0 /\ queued \in Nat
      /\ BatchLimit \in Nat
  BY ChannelAssumption DEF NoEntry, Entries, Kinds, ChannelOK, ChannelType
<1>3. ChannelType'
  BY <1>1, <1>2 DEF ChannelOK, ChannelType, Kind, Unit
<1>4. ChannelIds'
  <2>1. \A i \in DOMAIN chan : chan[i].id \in 1..queued /\ 0 < chan[i].id
    BY <1>2 DEF ChannelOK, ChannelIds
  <2> QED
    BY <1>1, <1>2, <2>1 DEF ChannelOK, ChannelIds
<1>5. Placed' = Placed /\ Taken' = Taken /\ ~Working /\ ~Working'
  BY <1>1 DEF Placed, Taken, Working
<1>6. OutOK'
  BY <1>1, <1>5 DEF ChannelOK, OutOK
<1>7. FlowOK'
  BY <1>1, <1>5 DEF ChannelOK, FlowOK, Flow, OpenIsLast, LastEntry
<1> QED
  BY <1>3, <1>4, <1>6, <1>7 DEF ChannelOK

(* The task ends, with the channel as it is.                                 *)
LEMMA ChannelFails ==
    ASSUME ChannelOK, task' = "dead", UNCHANGED channel, Out' = Out
    PROVE  ChannelOK'
<1>1. /\ emitted' = emitted /\ placing' = placing /\ chan' = chan /\ held' = held /\ queued' = queued
      /\ slot' = slot /\ accepted' = accepted /\ overflowed' = overflowed
  BY DEF channel
<1>2. ChannelType' /\ ChannelIds' /\ Placed' = Placed
  BY <1>1 DEF ChannelOK, ChannelType, ChannelIds, Kind, Unit, Placed
<1> QED
  BY <1>1, <1>2 DEF ChannelOK, OutOK, FlowOK

(* The daemon dies, and the channel with it.                                 *)
LEMMA ChannelCrashes ==
    ASSUME LogOK, ChannelOK, task' = "dead", placing' = FALSE, chan' = <<>>, held' = NoEntry,
           slot' = NoSlot, UNCHANGED <<emitted, queued, accepted, overflowed>>, Out' = Out
    PROVE  ChannelOK'
<1>1. emitted' = emitted /\ queued' = queued /\ accepted' = accepted /\ overflowed' = overflowed
  OBVIOUS
<1>2. /\ NoEntry \in Entries /\ NoEntry.id = 0 /\ Len(NoEntry.units) = 0 /\ queued \in Nat
      /\ BatchLimit \in Nat /\ Capacity \in Nat
  BY ChannelAssumption DEF NoEntry, Entries, Kinds, ChannelOK, ChannelType
<1>3. ChannelType'
  <2>1. chan' \in Seq(Entries) /\ Len(chan') <= Capacity /\ held' \in Entries
    BY <1>2
  <2>2. slot' \in [text : Nat, reasoning : Nat]
    BY NoneOpen
  <2> QED
    BY <1>1, <2>1, <2>2 DEF ChannelOK, ChannelType
<1>4. ChannelIds'
  BY <1>1, <1>2 DEF ChannelIds
<1>5. Placed \in Nat /\ Placed' \in Nat /\ Placed <= Placed' /\ Len(Out) \in Nat
  <2>1. Placed \in Nat /\ Len(Out) \in Nat /\ Len(emitted) \in {Placed, Placed + 1}
    BY ChannelNats DEF ChannelOK, ChannelType
  <2>2. Placed' = Len(emitted)
    BY <1>1 DEF Placed
  <2> QED
    BY <2>1, <2>2
<1>6. OutOK'
  <2>1. Len(Out) <= Placed => Len(Out) <= Placed'
    BY <1>5
  <2> QED
    BY <1>1, <2>1 DEF ChannelOK, OutOK
<1> QED
  BY <1>3, <1>4, <1>6 DEF ChannelOK, FlowOK

(* What the task publishes: the entry it holds, text with its offset.        *)
LEMMA TaskPublishes ==
    ASSUME LogOK, held \in Entries, textOffset \in Nat, TaskPublish
    PROVE  \E r \in Records : /\ log' = Append(log, r) /\ r.kind = held.kind /\ r.units = held.units
                              /\ (held.kind = "text" => r.offset = textOffset)
<1>1. /\ Published.units \in Seq(Nat) /\ Published.offset \in Nat /\ Published.kind \in Kinds
      /\ Published.kind = held.kind /\ Published.units = held.units
      /\ (held.kind = "text" => Published.offset = textOffset)
  BY DEF Published, Entries
<1>2. Commit("turn", Published)
  BY DEF TaskPublish
<1>3. PICK r : /\ Grows(r) /\ r.kind = Published.kind /\ r.offset = Published.offset
               /\ r.units = Published.units
  BY <1>1, <1>2, CommitGrows
<1>4. r \in Records /\ log' = Append(log, r)
  BY <1>3 DEF Grows
<1> QED
  BY <1>1, <1>3, <1>4

(* The other events have no output of the agent.                             *)
LEMMA OtherPublishes ==
    ASSUME LogOK, PublishOutcome \/ PublishOther
    PROVE  \E r \in Records : /\ log' = Append(log, r) /\ r.units = <<>>
                              /\ r.kind \in {"done", "hidden", "foreign"}
<1>1. \E e : /\ Commit("outcome", e) \/ Commit("other", e)
             /\ task' = task /\ e.units = <<>> /\ e.offset = 0 /\ e.kind \in {"done", "hidden", "foreign"}
  <2>1. CASE PublishOutcome
    <3>1. PICK e : e = [kind |-> "done", units |-> <<>>, offset |-> 0]
      OBVIOUS
    <3>2. Commit("outcome", e) /\ task' = task /\ e.units = <<>> /\ e.offset = 0 /\ e.kind = "done"
      BY <2>1, <3>1 DEF PublishOutcome
    <3> QED
      BY <3>2
  <2>2. CASE PublishOther
    <3>1. PICK kind \in OtherKinds : Commit("other", [kind |-> kind, units |-> <<>>, offset |-> 0])
      BY <2>2 DEF PublishOther
    <3>2. PICK e : e = [kind |-> kind, units |-> <<>>, offset |-> 0]
      OBVIOUS
    <3>3. Commit("other", e) /\ task' = task /\ e.units = <<>> /\ e.offset = 0
          /\ e.kind \in {"hidden", "foreign"}
      BY <2>2, <3>1, <3>2, TranscriptAssumption DEF PublishOther, turnVars
    <3> QED
      BY <3>3
  <2> QED
    BY <2>1, <2>2
<1>2. PICK e, p : /\ p \in {"outcome", "other"} /\ Commit(p, e) /\ task' = task
                  /\ e.units = <<>> /\ e.offset = 0 /\ e.kind \in {"done", "hidden", "foreign"}
  BY <1>1
<1>3. e.units \in Seq(Nat) /\ e.offset \in Nat /\ e.kind \in Kinds \cup {"done", "hidden", "foreign"}
  BY <1>2
<1>4. task' = "sending" => p = "turn" \/ task = "sending"
  BY <1>2
<1>5. PICK r : Grows(r) /\ r.kind = e.kind /\ r.units = e.units
  BY <1>2, <1>3, <1>4, CommitGrows
<1>6. r \in Records /\ log' = Append(log, r)
  BY <1>5 DEF Grows
<1> QED
  BY <1>2, <1>5, <1>6

(* Every step keeps the channel.                                             *)
LEMMA ChannelStep ==
    ASSUME LogOK, ChannelOK, textOffset \in Nat, reader \in Readers, Next
    PROVE  ChannelOK'
<1>1. log' = log => Out' = Out
  BY DEF Out, Units
<1>2. CASE Agent
  <2>1. Out' = Out /\ task' = task
    BY <1>1, <1>2 DEF Agent, publisher, turnVars
  <2>2. CASE \E kind \in Outputs[reader] \ {"event"} : EmitDelta(kind)
    <3>1. PICK kind : EmitDelta(kind) /\ kind \in Outputs[reader] \ {"event"}
      BY <2>2
    <3>2. kind \in {"text", "reasoning"}
      BY <3>1, TranscriptAssumption
    <3> QED
      BY <2>1, <3>1, <3>2, ChannelEmits
  <2>3. CASE EmitEvent(task # "dead")
    BY <2>1, <2>3, ChannelEvent
  <2>4. CASE DropReasoning
    BY <2>1, <2>4, ChannelDrops
  <2>5. CASE AddToBatch
    BY <2>1, <2>5, ChannelAdds
  <2>6. CASE CloseFullBatch
    BY <2>1, <2>6, ChannelCloses
  <2>7. CASE NewBatch(task # "dead")
    BY <2>1, <2>7, ChannelStarts
  <2> QED
    BY <1>2, <2>2, <2>3, <2>4, <2>5, <2>6, <2>7 DEF Agent
<1>3. CASE RunEnds \/ StoreAnswer \/ SendOutcome \/ SendOther
           \/ Interface \/ InterfaceFault \/ UserReturns \/ Exporter \/ ExporterFault
  <2>1. UNCHANGED channel /\ log' = log /\ task' = task
    BY <1>3 DEF RunEnds, StoreAnswer, SendOutcome, SendOther, Interface, InterfaceFault, UserReturns, Exporter,
                ExporterFault, turnVars, publisher, Broadcast
  <2> QED
    BY <1>1, <2>1, ChannelKept
<1>4. CASE TaskRecv
  <2>1. task = "recv" /\ Recv /\ task' = "take" /\ log' = log
    BY <1>4 DEF TaskRecv, publisher
  <2> QED
    BY <1>1, <2>1, ChannelRecv
<1>5. CASE TaskTake
  <2>1. /\ task = "take" /\ Take /\ task' \in {"row", "publish"} /\ log' = log
        /\ UNCHANGED <<emitted, placing, chan, held, queued, accepted, overflowed>>
    BY <1>5 DEF TaskTake, publisher
  <2> QED
    BY <1>1, <2>1, ChannelTakes
<1>6. CASE TaskRow
  <2>1. task = "row" /\ task' = "publish" /\ UNCHANGED channel /\ log' = log
    BY <1>6 DEF TaskRow, publisher
  <2> QED
    BY <1>1, <2>1, ChannelRow
<1>7. CASE TaskPublish
  <2>1. task = "publish" /\ task' = "sending" /\ UNCHANGED channel
    BY <1>7 DEF TaskPublish
  <2>2. Out' = Out \o held.units
    <3>1. held \in Entries /\ log \in Seq(Records)
      BY DEF ChannelOK, ChannelType, LogOK
    <3>2. PICK r \in Records : log' = Append(log, r) /\ r.units = held.units
      BY <1>7, <3>1, TaskPublishes
    <3>3. Out' = Out \o r.units
      BY <3>1, <3>2, OutGrows
    <3> QED
      BY <3>2, <3>3
  <2> QED
    BY <2>1, <2>2, ChannelPublishes
<1>8. CASE TaskSends
  <2>1. /\ task = "sending" /\ task' = "recv" /\ held' = NoEntry /\ log' = log
        /\ UNCHANGED <<emitted, placing, chan, queued, slot, accepted, overflowed>>
    BY <1>8 DEF TaskSends, Broadcast
  <2> QED
    BY <1>1, <2>1, ChannelSends
<1>9. CASE TaskFails
  <2>1. task' = "dead" /\ UNCHANGED channel /\ log' = log
    BY <1>9 DEF TaskFails, publisher
  <2> QED
    BY <1>1, <2>1, ChannelFails
<1>10. CASE PublishOutcome \/ PublishOther
  <2>1. task' = task /\ UNCHANGED channel
    BY <1>10 DEF PublishOutcome, PublishOther, turnVars
  <2>2. PICK r \in Records : log' = Append(log, r) /\ r.units = <<>>
    BY <1>10, OtherPublishes
  <2>3. log \in Seq(Records) /\ Out \in Seq(Nat)
    BY OutType DEF LogOK
  <2>4. Out' = Out \o <<>>
    <3>1. Out' = Out \o r.units
      BY <2>2, <2>3, OutGrows
    <3> QED
      BY <2>2, <3>1
  <2>5. Out \o <<>> = Out
    BY <2>3, ConcatEmptySeq
  <2> QED
    BY <2>1, <2>4, <2>5, ChannelKept
<1>11. CASE Crash
  <2>1. /\ task' = "dead" /\ placing' = FALSE /\ chan' = <<>> /\ held' = NoEntry /\ slot' = NoSlot
        /\ log' = log /\ UNCHANGED <<emitted, queued, accepted, overflowed>>
    BY <1>11 DEF Crash, Restart
  <2> QED
    BY <1>1, <2>1, ChannelCrashes
<1> QED
  BY <1>2, <1>3, <1>4, <1>5, <1>6, <1>7, <1>8, <1>9, <1>10, <1>11 DEF Next, TurnStep

-----------------------------------------------------------------------------
(* The text.                                                                 *)

(* A beginning of a beginning.                                               *)
LEMMA PrefixOfPrefix ==
    ASSUME NEW s \in Seq(Nat), NEW t \in Seq(Nat), NEW u \in Seq(Nat), IsPrefix(s, t), IsPrefix(t, u)
    PROVE  IsPrefix(s, u)
<1>1. Len(s) <= Len(t) /\ (\A i \in 1..Len(s) : s[i] = t[i])
  BY PrefixByElement
<1>2. Len(t) <= Len(u) /\ (\A i \in 1..Len(t) : t[i] = u[i])
  BY PrefixByElement
<1>3. Len(s) <= Len(u) /\ (\A i \in 1..Len(s) : i \in 1..Len(t))
  BY <1>1, <1>2
<1>4. \A i \in 1..Len(s) : s[i] = u[i]
  BY <1>1, <1>2, <1>3
<1> QED
  BY <1>3, <1>4, PrefixByElement

(* Every sequence begins with itself and with the empty one.                 *)
LEMMA PrefixOfItself ==
    ASSUME NEW s \in Seq(Nat)
    PROVE  IsPrefix(s, s) /\ IsPrefix(<<>>, s)
<1>1. Len(s) <= Len(s) /\ <<>> \in Seq(Nat) /\ Len(<<>>) = 0 /\ 0 <= Len(s) /\ 1..0 = {}
  OBVIOUS
<1>2. IsPrefix(s, s)
  BY <1>1, PrefixByElement
<1>3. Len(<<>>) <= Len(s) /\ \A i \in 1..Len(<<>>) : <<>>[i] = s[i]
  BY <1>1
<1>4. IsPrefix(<<>>, s)
  BY <1>1, <1>3, PrefixByElement
<1> QED
  BY <1>2, <1>4

(* The text is the units of its kind, in order.                              *)
LEMMA TextIs ==
    ASSUME emitted \in Seq(Kinds)
    PROVE  /\ Text = InOrder(TextOf(Len(emitted))) /\ Text \in Seq(Nat)
           /\ \A n \in Nat : TextOf(n) \in SUBSET Nat /\ IsFiniteSet(TextOf(n))
           /\ \A n \in Nat : Cardinality(TextOf(n)) \in Nat
           /\ Len(Text) = Cardinality(TextOf(Len(emitted)))
<1>1. DOMAIN emitted = 1..Len(emitted) /\ Len(emitted) \in Nat
  OBVIOUS
<1>2. Text = InOrder(TextOf(Len(emitted)))
  BY <1>1 DEF Text, Positions, TextOf
<1>3. ASSUME NEW n \in Nat
      PROVE  TextOf(n) \in SUBSET Nat /\ IsFiniteSet(TextOf(n)) /\ Cardinality(TextOf(n)) \in Nat
  <2>1. TextOf(n) \subseteq 1..n /\ TextOf(n) \in SUBSET Nat
    BY DEF TextOf
  <2>2. IsFiniteSet(1..n)
    <3>1. 1 \in Int /\ n \in Int
      OBVIOUS
    <3> QED
      BY <3>1, FS_Interval
  <2> QED
    BY <2>1, <2>2, FS_Subset, FS_CardinalityType
<1>4. TextOf(Len(emitted)) \in SUBSET Nat /\ IsFiniteSet(TextOf(Len(emitted)))
  BY <1>1, <1>3
<1>5. /\ InOrder(TextOf(Len(emitted))) \in Seq(Nat)
      /\ Len(InOrder(TextOf(Len(emitted)))) = Cardinality(TextOf(Len(emitted)))
  BY <1>4, Ordered
<1> QED
  BY <1>2, <1>3, <1>5

(* A run of text adds its length to the text up to it.                       *)
LEMMA TextRun ==
    ASSUME emitted \in Seq(Kinds), NEW p \in Nat, NEW n \in Nat,
           \A j \in 1..n : emitted[p + j] = "text"
    PROVE  \A j \in 0..n : Cardinality(TextOf(p + j)) = Cardinality(TextOf(p)) + j
<1>1. SUFFICES ASSUME NEW j \in 0..n
               PROVE  Cardinality(TextOf(p + j)) = Cardinality(TextOf(p)) + j
  OBVIOUS
<1> DEFINE run == (p + 1)..(p + j)
<1>2. TextOf(p + j) = TextOf(p) \cup run /\ TextOf(p) \cap run = {}
  <2>1. \A i \in run : i - p \in 1..n /\ p + (i - p) = i
    BY <1>1
  <2>2. \A i \in run : emitted[i] = "text"
    BY <2>1
  <2>3. /\ \A i \in 1..(p + j) : i \in 1..p \/ i \in run
        /\ \A i \in 1..p : i \notin run /\ i \in 1..(p + j)
        /\ \A i \in run : i \in 1..(p + j)
    BY <1>1
  <2> HIDE DEF run
  <2> QED
    BY <2>2, <2>3 DEF TextOf
<1>3. IsFiniteSet(run) /\ Cardinality(run) = j
  <2>1. p + 1 \in Int /\ p + j \in Int /\ j \in Nat
    BY <1>1
  <2>2. IsFiniteSet(run) /\ Cardinality(run) = IF p + 1 > p + j THEN 0 ELSE (p + j) - (p + 1) + 1
    BY <2>1, FS_Interval
  <2> QED
    BY <2>1, <2>2
<1>4. IsFiniteSet(TextOf(p))
  BY TextIs
<1> HIDE DEF run
<1>5. Cardinality(TextOf(p) \cup run) = Cardinality(TextOf(p)) + Cardinality(run)
  BY <1>2, <1>3, <1>4, DisjointUnion
<1> QED
  BY <1>2, <1>3, <1>5

(* A unit of text is where the text up to it ends.                           *)
LEMMA PlaceOfText ==
    ASSUME emitted \in Seq(Kinds), NEW q \in 1..Len(emitted), emitted[q] = "text"
    PROVE  Cardinality(TextOf(q)) \in 1..Len(Text) /\ Text[Cardinality(TextOf(q))] = q
<1> DEFINE S == TextOf(Len(emitted))
<1>1. /\ Len(emitted) \in Nat /\ S \in SUBSET Nat /\ IsFiniteSet(S) /\ Text = InOrder(S)
      /\ Len(Text) = Cardinality(S)
  <2>1. Len(emitted) \in Nat
    OBVIOUS
  <2>2. Text = InOrder(S) /\ Len(Text) = Cardinality(S)
    BY TextIs
  <2>3. \A n \in Nat : TextOf(n) \in SUBSET Nat /\ IsFiniteSet(TextOf(n))
    BY TextIs
  <2> QED
    BY ONLY <2>1, <2>2, <2>3
<1>2. q \in S
  BY DEF TextOf
<1>3. {m \in S : m <= q} = TextOf(q)
  <2>1. \A m \in 1..Len(emitted) : m <= q => m \in 1..q
    BY <1>1
  <2>2. \A m \in 1..q : m \in 1..Len(emitted) /\ m <= q
    BY <1>1
  <2> QED
    BY <2>1, <2>2 DEF TextOf
<1> HIDE DEF S
<1>4. Rank(S, q) \in 1..Cardinality(S) /\ InOrder(S)[Rank(S, q)] = q
  BY <1>1, <1>2, Ordered
<1> QED
  BY <1>1, <1>3, <1>4 DEF Rank

\* The text goes on from what it was, and what is placed stays as it is.
TextMoves ==
    /\ Text \in Seq(Nat) /\ Text' \in Seq(Nat) /\ IsPrefix(Text, Text')
    /\ \A n \in 0..Placed : TextOf(n)' = TextOf(n)

(* What the agent puts out is not changed.                                   *)
LEMMA TextSame ==
    ASSUME emitted \in Seq(Kinds), emitted' = emitted
    PROVE  TextMoves /\ Text' = Text
<1>1. Text' = Text
  BY DEF Text, Positions
<1>2. \A n \in 0..Placed : TextOf(n)' = TextOf(n)
  BY DEF TextOf
<1>3. Text \in Seq(Nat)
  BY TextIs
<1> QED
  BY <1>1, <1>2, <1>3, PrefixOfItself DEF TextMoves

(* One unit more.                                                            *)
LEMMA TextAppend ==
    ASSUME emitted \in Seq(Kinds), NEW kind \in Kinds, emitted' = Append(emitted, kind),
           Placed = Len(emitted)
    PROVE  TextMoves
<1>1. PICK n \in Nat : n = Len(emitted)
  OBVIOUS
<1>2. /\ emitted' \in Seq(Kinds) /\ Len(emitted') = n + 1 /\ emitted'[n + 1] = kind
      /\ \A i \in 1..n : emitted'[i] = emitted[i]
  BY <1>1
<1>3. \A m \in 0..Placed : TextOf(m)' = TextOf(m)
  <2>1. \A m \in 0..n : \A i \in 1..m : i \in 1..n
    OBVIOUS
  <2> QED
    BY <1>1, <1>2, <2>1 DEF TextOf
<1> DEFINE S == TextOf(n)
<1>4. /\ S \in SUBSET Nat /\ IsFiniteSet(S) /\ Text = InOrder(S) /\ Text \in Seq(Nat)
      /\ \A i \in S : i < n + 1
  <2>1. \A i \in S : i < n + 1
    BY DEF TextOf
  <2> QED
    BY <1>1, <2>1, TextIs
<1>5. Text' = InOrder({i \in 1..(n + 1) : emitted'[i] = "text"})
  <2>1. DOMAIN emitted' = 1..(n + 1)
    BY <1>2
  <2> QED
    BY <2>1, Zenon DEF Text, Positions
<1>6. {i \in 1..(n + 1) : emitted'[i] = "text"} = IF kind = "text" THEN S \cup {n + 1} ELSE S
  <2>1. \A i : i \in 1..(n + 1) <=> (i \in 1..n \/ i = n + 1)
    OBVIOUS
  <2> QED
    BY <1>2, <2>1 DEF TextOf
<1> HIDE DEF S
<1>7. CASE kind = "text"
  <2>1. InOrder(S \cup {n + 1}) = Append(InOrder(S), n + 1)
    <3>1. n + 1 \in Nat
      OBVIOUS
    <3> QED
      BY <1>4, <3>1, OrderAppend
  <2>2. Text' = Append(Text, n + 1)
    BY <1>4, <1>5, <1>6, <1>7, <2>1
  <2>3. PICK s \in Seq(Nat), t \in Seq(Nat) : s = Text /\ t = Append(s, n + 1)
    <3>1. Append(Text, n + 1) \in Seq(Nat)
      BY <1>4
    <3> QED
      BY <1>4, <3>1
  <2>4. Len(s) <= Len(t) /\ \A i \in 1..Len(s) : s[i] = t[i]
    BY <2>3
  <2>5. IsPrefix(s, t)
    BY <2>4, PrefixByElement
  <2> QED
    BY <1>3, <1>4, <2>2, <2>3, <2>5 DEF TextMoves
<1>8. CASE kind # "text"
  <2>1. Text' = Text
    BY <1>4, <1>5, <1>6, <1>8
  <2> QED
    BY <1>3, <1>4, <2>1, PrefixOfItself DEF TextMoves
<1> QED
  BY <1>7, <1>8

(* A unit that is no text is taken back.                                     *)
LEMMA TextDrop ==
    ASSUME emitted \in Seq(Kinds), emitted # <<>>, emitted[Len(emitted)] # "text",
           emitted' = Front(emitted), Placed = Len(emitted) - 1
    PROVE  TextMoves
<1>1. PICK n \in Nat : n = Len(emitted) - 1
  OBVIOUS
<1>2. Len(emitted) = n + 1
  BY <1>1
<1>3. /\ emitted' \in Seq(Kinds) /\ Len(emitted') = n /\ DOMAIN emitted' = 1..n
      /\ DOMAIN emitted = 1..(n + 1) /\ \A i \in 1..n : emitted'[i] = emitted[i]
  BY <1>2 DEF Front
<1>4. \A m \in 0..Placed : TextOf(m)' = TextOf(m)
  <2>1. \A m \in 0..n : \A i \in 1..m : i \in 1..n
    OBVIOUS
  <2> QED
    BY <1>1, <1>3, <2>1 DEF TextOf
<1>5. {i \in 1..n : emitted'[i] = "text"} = {i \in 1..(n + 1) : emitted[i] = "text"}
  <2>1. \A i : i \in 1..(n + 1) <=> (i \in 1..n \/ i = n + 1)
    OBVIOUS
  <2> QED
    BY <1>2, <1>3, <2>1
<1>6. Text' = Text
  BY <1>3, <1>5 DEF Text, Positions
<1>7. Text \in Seq(Nat)
  BY TextIs
<1> QED
  BY <1>4, <1>6, <1>7, PrefixOfItself DEF TextMoves

(* Every step lets the text go on from what it was.                          *)
LEMMA TextStepMoves ==
    ASSUME LogOK, ChannelOK, reader \in Readers, Next
    PROVE  TextMoves /\ (overflowed => overflowed')
<1>1. emitted \in Seq(Kinds) /\ overflowed \in BOOLEAN
  BY DEF ChannelOK, ChannelType
<1>2. CASE Agent
  <2>1. CASE \E kind \in Outputs[reader] \ {"event"} : EmitDelta(kind)
    <3>1. PICK kind : EmitDelta(kind) /\ kind \in Outputs[reader] \ {"event"}
      BY <2>1
    <3>2. kind \in Kinds
      BY <3>1, TranscriptAssumption DEF Kinds
    <3>3. ~placing /\ emitted' = Append(emitted, kind) /\ overflowed' = overflowed
      BY <3>1 DEF EmitDelta
    <3>4. Placed = Len(emitted)
      BY <3>3 DEF Placed
    <3> QED
      BY <1>1, <3>2, <3>3, <3>4, TextAppend
  <2>2. CASE EmitEvent(task # "dead")
    <3>1. /\ ~placing /\ emitted' = Append(emitted, "event") /\ "event" \in Kinds
          /\ (overflowed' = TRUE \/ overflowed' = overflowed)
      BY <2>2 DEF EmitEvent, TrySend, Kinds
    <3>2. Placed = Len(emitted)
      BY <3>1 DEF Placed
    <3> QED
      BY <1>1, <3>1, <3>2, TextAppend
  <2>3. CASE DropReasoning
    <3>1. placing /\ Kind = "reasoning" /\ emitted' = Front(emitted) /\ overflowed' = overflowed
      BY <2>3 DEF DropReasoning
    <3>2. emitted # <<>> /\ emitted[Len(emitted)] # "text" /\ Placed = Len(emitted) - 1
      BY <3>1 DEF Placed, Kind, Unit, ChannelOK, ChannelType
    <3> QED
      BY <1>1, <3>1, <3>2, TextDrop
  <2>4. CASE AddToBatch \/ CloseFullBatch \/ NewBatch(task # "dead")
    <3>1. emitted' = emitted /\ (overflowed' = TRUE \/ overflowed' = overflowed)
      BY <2>4 DEF AddToBatch, CloseFullBatch, NewBatch, TrySend
    <3> QED
      BY <1>1, <3>1, TextSame
  <2> QED
    BY <1>2, <2>1, <2>2, <2>3, <2>4 DEF Agent
<1>3. CASE ~Agent
  <2>1. emitted' = emitted /\ overflowed' = overflowed
    <3>1. CASE RunEnds \/ TaskRow \/ TaskPublish \/ TaskFails \/ StoreAnswer \/ PublishOutcome
               \/ SendOutcome \/ PublishOther \/ SendOther
      BY <3>1 DEF RunEnds, TaskRow, TaskPublish, TaskFails, StoreAnswer, PublishOutcome,
                  SendOutcome, PublishOther, SendOther, channel
    <3>2. CASE TaskRecv \/ TaskTake \/ TaskSends \/ Crash
      BY <3>2 DEF TaskRecv, TaskTake, TaskSends, Crash, Recv
    <3>3. CASE Interface \/ InterfaceFault \/ UserReturns \/ Exporter \/ ExporterFault
      BY <3>3 DEF Interface, InterfaceFault, UserReturns, Exporter, ExporterFault, channel
    <3> QED
      BY <1>3, <3>1, <3>2, <3>3 DEF Next, TurnStep
  <2> QED
    BY <1>1, <2>1, TextSame
<1> QED
  BY <1>2, <1>3

(* What was a beginning of the text is one of what it has become.            *)
LEMMA TextKept ==
    ASSUME TextMoves, NEW s \in Seq(Nat), IsPrefix(s, Text)
    PROVE  IsPrefix(s, Text')
<1>1. PICK t \in Seq(Nat), u \in Seq(Nat) : t = Text /\ u = Text'
  BY DEF TextMoves
<1> QED
  BY <1>1, PrefixOfPrefix DEF TextMoves

(* Text in the log stays where it is.                                        *)
LEMMA InPlaceKept ==
    ASSUME TextMoves, NEW e \in Records, InPlace(e)
    PROVE  InPlace(e)'
<1>1. PICK t \in Seq(Nat), u \in Seq(Nat) : t = Text /\ u = Text'
  BY DEF TextMoves
<1>2. Len(t) <= Len(u) /\ \A i \in 1..Len(t) : t[i] = u[i]
  BY <1>1, PrefixByElement DEF TextMoves
<1>3. e.offset \in Nat /\ e.units \in Seq(Nat)
  BY DEF Records
<1>4. ASSUME NEW j \in DOMAIN e.units
      PROVE  e.offset + j <= Len(u) /\ u[e.offset + j] = e.units[j]
  <2>1. e.offset + j <= Len(t) /\ t[e.offset + j] = e.units[j]
    BY <1>1, <1>4 DEF InPlace
  <2>2. j \in Nat /\ j >= 1
    BY <1>3, <1>4
  <2>3. PICK m \in Nat : m = e.offset
    BY <1>3
  <2>4. m + j \in 1..Len(t) /\ m + j <= Len(u)
    BY SMTT(30), <1>2, <2>1, <2>2, <2>3
  <2> QED
    BY <1>2, <2>1, <2>3, <2>4
<1> QED
  BY <1>1, <1>4 DEF InPlace

(* The task publishes: the text of the entry is where the offset says, and   *)
(* the offset goes on by its length.                                         *)
LEMMA TextPublished ==
    ASSUME LogOK, ChannelOK, TextOK, ~overflowed, task = "publish"
    PROVE  /\ (held.kind = "text" => \A j \in DOMAIN held.units :
                  textOffset + j <= Len(Text) /\ Text[textOffset + j] = held.units[j])
           /\ Cardinality(TextOf(Len(Out) + Len(held.units)))
                = (IF held.kind = "text" THEN textOffset + Len(held.units) ELSE textOffset)
           /\ Len(Out) + Len(held.units) \in 0..Placed
<1>1. /\ emitted \in Seq(Kinds) /\ held \in Entries /\ held.units \in Seq(Nat) /\ Len(emitted) \in Nat
  BY DEF ChannelOK, ChannelType, Entries
<1>2. Working /\ Flow
  BY DEF ChannelOK, FlowOK, Working
<1>3. PICK m \in Nat, n \in Nat : m = Len(Out) /\ n = Len(held.units)
  BY ChannelNats DEF ChannelOK
<1>4. /\ Whole(held, Placed, emitted) /\ held.units[1] = m + 1 /\ held.units # <<>> /\ Placed \in Nat
      /\ Placed <= Len(emitted) /\ DOMAIN held.units = 1..n
  <2>1. Placed \in Nat /\ Placed <= Len(emitted)
    <3>1. Placed \in Nat /\ Len(emitted) \in {Placed, Placed + 1}
      BY ChannelNats DEF ChannelOK, ChannelType
    <3> QED
      BY <3>1
  <2> QED
    BY <1>1, <1>2, <1>3, <2>1, NotEmpty DEF Flow, ChannelOK
<1>5. m + n \in 0..Placed
  <2>1. End(held) \in 1..Placed /\ End(held) = (m + 1) + (n - 1)
    BY <1>1, <1>3, <1>4, WholeEnd
  <2> QED
    BY <1>4, <2>1
<1>6. \A j \in 1..n : held.units[j] = m + j /\ emitted[m + j] = held.kind /\ m + j \in 1..Len(emitted)
  <2>1. \A j \in 1..n : /\ held.units[j] = (m + 1) + (j - 1) /\ held.units[j] \in 1..Placed
                        /\ emitted[held.units[j]] = held.kind
    BY <1>4 DEF Whole
  <2>2. \A j \in 1..n : (m + 1) + (j - 1) = m + j /\ m + j \in Nat
    OBVIOUS
  <2>3. \A j \in 1..Placed : j \in 1..Len(emitted)
    BY <1>1, <1>4
  <2>4. \A j \in 1..n : held.units[j] = m + j
    BY <2>1, <2>2
  <2>5. \A j \in 1..n : m + j \in 1..Placed /\ emitted[m + j] = held.kind
    BY <2>1, <2>4
  <2> QED
    BY <2>3, <2>4, <2>5
<1>7. textOffset = Cardinality(TextOf(m)) /\ textOffset \in Nat
  BY <1>1, <1>3, TextIs DEF TextOK
<1>8. CASE held.kind = "text"
  <2>1. \A j \in 1..n : emitted[m + j] = "text" /\ m + j \in 1..Len(emitted)
    BY <1>6, <1>8
  <2>2. \A j \in 0..n : Cardinality(TextOf(m + j)) = textOffset + j
    BY <1>1, <1>7, <2>1, TextRun
  <2>3. ASSUME NEW j \in 1..n
        PROVE  textOffset + j <= Len(Text) /\ Text[textOffset + j] = held.units[j]
    <3>1. PICK q \in 1..Len(emitted) : q = m + j /\ emitted[q] = "text" /\ held.units[j] = q
      BY <1>6, <2>1, <2>3
    <3>2. Cardinality(TextOf(q)) \in 1..Len(Text) /\ Text[Cardinality(TextOf(q))] = q
      BY <1>1, <3>1, PlaceOfText
    <3>3. Cardinality(TextOf(q)) = textOffset + j
      BY <2>2, <2>3, <3>1
    <3>4. Len(Text) \in Nat
      BY <1>1, TextIs
    <3> QED
      BY <3>1, <3>2, <3>3, <3>4
  <2>4. n \in 0..n
    OBVIOUS
  <2> QED
    BY <1>3, <1>4, <1>5, <1>8, <2>2, <2>3, <2>4
<1>9. CASE held.kind # "text"
  <2>1. TextOf(m + n) = TextOf(m)
    <3>1. \A i \in 1..(m + n) : i \in 1..m \/ (i - m \in 1..n /\ m + (i - m) = i)
      OBVIOUS
    <3>2. \A i \in 1..m : i \in 1..(m + n)
      OBVIOUS
    <3> QED
      BY <1>6, <1>9, <3>1, <3>2 DEF TextOf
  <2> QED
    BY <1>3, <1>5, <1>7, <1>9, <2>1
<1> QED
  BY <1>8, <1>9

(* The text the interface shows after a step of its own.                     *)
LEMMA TextShown ==
    ASSUME LogOK, emitted \in Seq(Kinds), StreamOK, AppOK, TextOK, ~overflowed,
           AppChanges
    PROVE  IsPrefix(app'.text, Text)
<1>1. Text \in Seq(Nat) /\ IsPrefix(rows.text, Text) /\ IsPrefix(app.text, Text)
      /\ app \in Apps /\ app.text \in Seq(Nat)
  BY TextIs DEF TextOK, AppOK, Apps
<1>2. CASE Snapshot \/ RefreshFails \/ LoadFails \/ app' = Loading(app, TRUE)
  <2>1. app'.text \in {app.text, rows.text, <<>>}
    BY <1>1, <1>2 DEF Snapshot, Loaded, RefreshFails, LoadFails, Loading, Apps
  <2> QED
    BY <1>1, <2>1, PrefixOfItself
<1>3. CASE ApplyEvent
  <2>1. PICK n \in DOMAIN log : app' \in Applies(log[n])
    BY SMTT(30), <1>3 DEF ApplyEvent, StreamOK, StreamType, LogOK
  <2>2. PICK e \in Records : e = log[n] /\ (e.kind = "text" => InPlace(e))
    BY <2>1 DEF LogOK, TextOK
  <2>3. \/ app'.text = app.text
        \/ e.kind = "text" /\ ~Gap(e) /\ app'.text = app.text \o e.units
    <3>1. \A a \in Apps, x \in BOOLEAN : Loading(a, x).text = a.text
      BY DEF Loading, Apps
    <3>2. Applied(e).text = (IF e.kind = "text" /\ app.known /\ app.running THEN app.text \o e.units ELSE app.text)
          /\ Loading(Applied(e), TRUE).text = Applied(e).text
      BY <1>1 DEF Applied, Loading, Apps
    <3>3. CASE app' = app \/ app' = Loading(app, FALSE)
      BY <1>1, <3>1, <3>3
    <3>4. CASE ~Gap(e) /\ app' \in {Applied(e), Loading(Applied(e), TRUE)}
      BY <3>2, <3>4
    <3> QED
      BY <2>1, <2>2, <3>3, <3>4 DEF Applies
  <2>4. CASE e.kind = "text" /\ ~Gap(e) /\ app'.text = app.text \o e.units
    <3>1. PICK s \in Seq(Nat), v \in Seq(Nat), t \in Seq(Nat) : s = app.text /\ v = e.units /\ t = Text
      BY <1>1 DEF Records
    <3>2. e.offset = Len(s) /\ \A j \in 1..Len(v) : Len(s) + j <= Len(t) /\ t[Len(s) + j] = v[j]
      <4>1. e.offset = Len(s)
        BY <2>4, <3>1 DEF Gap
      <4>2. DOMAIN v = 1..Len(v)
        OBVIOUS
      <4> QED
        BY <2>2, <2>4, <3>1, <4>1, <4>2 DEF InPlace
    <3>3. Len(s) <= Len(t) /\ \A i \in 1..Len(s) : s[i] = t[i]
      BY <1>1, <3>1, PrefixByElement
    <3>4. PICK w \in Seq(Nat) : w = s \o v
      <4>1. s \o v \in Seq(Nat)
        OBVIOUS
      <4> QED
        BY <4>1
    <3>5. /\ Len(w) = Len(s) + Len(v)
          /\ \A i \in 1..(Len(s) + Len(v)) : w[i] = IF i <= Len(s) THEN s[i] ELSE v[i - Len(s)]
      BY <3>4
    <3>6. Len(w) <= Len(t)
      <4>1. CASE Len(v) = 0
        BY <3>3, <3>5, <4>1
      <4>2. CASE Len(v) # 0
        <5>1. Len(v) \in 1..Len(v)
          BY <4>2
        <5> QED
          BY <3>2, <3>5, <5>1
      <4> QED
        BY <4>1, <4>2
    <3>7. ASSUME NEW i \in 1..Len(w) PROVE w[i] = t[i]
      <4>1. CASE i <= Len(s)
        <5>1. i \in 1..Len(s) /\ i \in 1..(Len(s) + Len(v))
          BY <3>5, <3>7, <4>1
        <5> QED
          BY <3>3, <3>5, <4>1, <5>1
      <4>2. CASE ~(i <= Len(s))
        <5>1. /\ i - Len(s) \in 1..Len(v) /\ Len(s) + (i - Len(s)) = i
              /\ i \in 1..(Len(s) + Len(v))
          BY <3>5, <3>7, <4>2
        <5>2. t[Len(s) + (i - Len(s))] = v[i - Len(s)]
          BY <3>2, <5>1
        <5> QED
          BY <3>5, <4>2, <5>1, <5>2
      <4> QED
        BY <4>1, <4>2
    <3>8. IsPrefix(w, t)
      BY <3>6, <3>7, PrefixByElement
    <3> QED
      BY <2>4, <3>1, <3>4, <3>8
  <2> QED
    BY <1>1, <2>3, <2>4
<1> QED
  BY <1>2, <1>3 DEF AppChanges

(* The text stays in place when the log and the interface do.                *)
LEMMA TextStays ==
    ASSUME LogOK, ChannelOK, AppOK, TextOK, TextMoves, ~overflowed, Out' = Out,
           textOffset' = textOffset, IsPrefix(rows'.text, Text'), IsPrefix(app'.text, Text'),
           \/ log' = log
           \/ \E r \in Records : log' = Append(log, r) /\ r.kind # "text"
    PROVE  TextOK'
<1>1. Len(Out) \in 0..Placed
  <2>1. Len(Out) <= Placed /\ Len(Out) \in Nat /\ Placed \in Nat
    BY ChannelNats DEF ChannelOK, OutOK
  <2> QED
    BY <2>1
<1>2. textOffset' = Cardinality(TextOf(Len(Out)))'
  <2>1. PICK n \in 0..Placed : n = Len(Out)
    BY <1>1
  <2>2. TextOf(n)' = TextOf(n)
    BY <2>1 DEF TextMoves
  <2>3. n = Len(Out')
    BY <2>1
  <2>4. textOffset = Cardinality(TextOf(n))
    BY <2>1 DEF TextOK
  <2>5. textOffset' = Cardinality(TextOf(n)')
    BY <2>2, <2>4
  <2> QED
    BY <2>3, <2>5 DEF TextOf
<1>3. ASSUME NEW n \in DOMAIN log' , log'[n].kind = "text"
      PROVE  InPlace(log[n])'
  <2>1. n \in DOMAIN log /\ log'[n] = log[n] /\ log[n] \in Records
    <3>1. CASE log' = log
      BY <1>3, <3>1 DEF LogOK
    <3>2. CASE \E r \in Records : log' = Append(log, r) /\ r.kind # "text"
      <4>1. PICK r \in Records : log' = Append(log, r) /\ r.kind # "text"
        BY <3>2
      <4>2. log \in Seq(Records)
        BY DEF LogOK
      <4>3. /\ DOMAIN log' = 1..(Len(log) + 1) /\ Len(log) \in Nat /\ DOMAIN log = 1..Len(log)
            /\ log'[Len(log) + 1] = r /\ \A i \in 1..Len(log) : log'[i] = log[i]
        BY SMTT(30), <4>1, <4>2
      <4>4. n # Len(log) + 1
        BY <1>3, <4>1, <4>3
      <4>5. n \in DOMAIN log
        BY <1>3, <4>3, <4>4
      <4> QED
        BY <4>2, <4>3, <4>5
    <3> QED
      BY <3>1, <3>2
  <2>2. PICK e \in Records : e = log[n]
    BY <2>1
  <2>3. InPlace(e)
    BY <1>3, <2>1, <2>2 DEF TextOK
  <2>4. InPlace(e)'
    BY <2>2, <2>3, InPlaceKept
  <2> QED
    BY <2>1, <2>2, <2>4 DEF InPlace
<1> QED
  BY <1>2, <1>3 DEF TextOK

(* Every step keeps the text.                                                *)
LEMMA TextStep ==
    ASSUME LogOK, ChannelOK, StreamOK, AppOK, TextOK, reader \in Readers, Next
    PROVE  TextOK'
<1>1. TextMoves /\ (overflowed => overflowed')
  BY TextStepMoves
<1>2. SUFFICES ASSUME ~overflowed PROVE TextOK'
  BY <1>1 DEF TextOK
<1>3. /\ emitted \in Seq(Kinds) /\ held \in Entries /\ textOffset \in Nat
      /\ rows \in [text : Seq(Nat), reasoning : Seq(Nat)] /\ app \in Apps
      /\ rows.text \in Seq(Nat) /\ app.text \in Seq(Nat)
      /\ IsPrefix(rows.text, Text) /\ IsPrefix(app.text, Text) /\ Text \in Seq(Nat)
  BY <1>2, TextIs DEF ChannelOK, ChannelType, AppOK, Apps, TextOK
<1>4. IsPrefix(rows.text, Text') /\ IsPrefix(app.text, Text')
  BY <1>1, <1>3, TextKept
<1>5. log' = log => Out' = Out
  BY DEF Out, Units
<1>6. CASE Agent \/ RunEnds \/ TaskRecv \/ TaskTake \/ TaskSends \/ TaskFails \/ SendOutcome \/ SendOther
           \/ Exporter \/ ExporterFault \/ Crash
  <2>1. log' = log /\ app' = app /\ rows' = rows /\ textOffset' = textOffset
    BY <1>6 DEF Agent, RunEnds, TaskRecv, TaskTake, TaskSends, TaskFails, SendOutcome, SendOther,
                Exporter, ExporterFault, Crash, turnVars, publisher, Broadcast, Restart
  <2> QED
    BY <1>1, <1>2, <1>4, <1>5, <2>1, TextStays
<1>7. CASE TaskRow
  <2>1. log' = log /\ app' = app /\ textOffset' = textOffset
        /\ rows' = [rows EXCEPT !.reasoning = rows.reasoning \o held.units]
    BY <1>7 DEF TaskRow, publisher
  <2>2. rows'.text = rows.text
    BY <1>3, <2>1
  <2> QED
    BY <1>1, <1>2, <1>4, <1>5, <2>1, <2>2, TextStays
<1>8. CASE StoreAnswer
  <2>1. /\ log' = log /\ app' = app /\ textOffset' = textOffset /\ emitted' = emitted
        /\ (rows' = rows \/ rows' = [rows EXCEPT !.text = Positions("text")])
    BY <1>8 DEF StoreAnswer, publisher, channel
  <2>2. rows'.text = rows.text \/ rows'.text = Text
    BY <1>3, <2>1 DEF Text
  <2>3. IsPrefix(Text, Text')
    BY <1>1 DEF TextMoves
  <2>4. IsPrefix(rows'.text, Text')
    BY <1>4, <2>2, <2>3
  <2> QED
    BY <1>1, <1>2, <1>4, <1>5, <2>1, <2>4, TextStays
<1>9. CASE PublishOutcome \/ PublishOther
  <2>1. app' = app /\ rows' = rows /\ textOffset' = textOffset
    BY <1>9 DEF PublishOutcome, PublishOther, turnVars
  <2>2. PICK r \in Records : log' = Append(log, r) /\ r.units = <<>> /\ r.kind # "text"
    BY <1>9, OtherPublishes
  <2>3. log \in Seq(Records) /\ Out \in Seq(Nat)
    BY OutType DEF LogOK
  <2>4. Out' = Out
    <3>1. Out' = Out \o r.units
      BY <2>2, <2>3, OutGrows
    <3>2. Out \o <<>> = Out
      BY <2>3, ConcatEmptySeq
    <3> QED
      BY <2>2, <3>1, <3>2
  <2> QED
    BY <1>1, <1>2, <1>4, <2>1, <2>2, <2>4, TextStays
<1>10. CASE TaskPublish
  <2>1. /\ task = "publish" /\ emitted' = emitted /\ app' = app /\ rows' = rows
        /\ textOffset' = (IF held.kind = "text" THEN textOffset + Len(held.units) ELSE textOffset)
    BY <1>10 DEF TaskPublish, channel
  <2>2. PICK r \in Records : /\ log' = Append(log, r) /\ r.kind = held.kind /\ r.units = held.units
                             /\ (held.kind = "text" => r.offset = textOffset)
    BY <1>3, <1>10, TaskPublishes
  <2>3. /\ (held.kind = "text" => \A j \in DOMAIN held.units :
               textOffset + j <= Len(Text) /\ Text[textOffset + j] = held.units[j])
        /\ Cardinality(TextOf(Len(Out) + Len(held.units))) = textOffset'
        /\ Len(Out) + Len(held.units) \in 0..Placed
    BY <1>2, <2>1, TextPublished
  <2>4. Len(Out') = Len(Out) + Len(held.units)
    <3>1. log \in Seq(Records)
      BY DEF LogOK
    <3>2. Out' = Out \o r.units
      BY <2>2, <3>1, OutGrows
    <3>3. PICK u \in Seq(Nat), v \in Seq(Nat) : u = Out /\ v = held.units
      BY <1>3, <3>1, OutType DEF Entries
    <3>4. Len(u \o v) = Len(u) + Len(v)
      OBVIOUS
    <3> QED
      BY <2>2, <3>2, <3>3, <3>4
  <2>5. textOffset' = Cardinality(TextOf(Len(Out)))'
    <3>1. PICK n \in 0..Placed : n = Len(Out) + Len(held.units)
      BY <2>3
    <3>2. TextOf(n)' = TextOf(n)
      BY <2>1 DEF TextOf
    <3>3. textOffset' = Cardinality(TextOf(n)')
      BY <2>3, <3>1, <3>2
    <3>4. n = Len(Out')
      BY <2>4, <3>1
    <3> QED
      BY <3>3, <3>4 DEF TextOf
  <2>6. Text' = Text
    BY <2>1 DEF Text, Positions
  <2>7. ASSUME NEW n \in DOMAIN log', log'[n].kind = "text" PROVE InPlace(log[n])'
    <3>1. /\ DOMAIN log' = 1..(Len(log) + 1) /\ Len(log) \in Nat /\ DOMAIN log = 1..Len(log)
          /\ log'[Len(log) + 1] = r /\ \A i \in 1..Len(log) : log'[i] = log[i]
      <4>1. log \in Seq(Records)
        BY DEF LogOK
      <4> QED
        BY <2>2, <4>1
    <3>2. CASE n = Len(log) + 1
      <4>1. log'[n] = r /\ held.kind = "text"
        BY <2>2, <2>7, <3>1, <3>2
      <4> QED
        BY <2>2, <2>3, <2>6, <4>1 DEF InPlace
    <3>3. CASE n # Len(log) + 1
      <4>1. n \in DOMAIN log
        BY <2>7, <3>1, <3>3
      <4>2. log'[n] = log[n]
        BY <3>1, <4>1
      <4>3. InPlace(log[n])
        BY <1>2, <2>7, <4>1, <4>2 DEF TextOK
      <4> QED
        BY <2>6, <4>2, <4>3 DEF InPlace
    <3> QED
      BY <3>2, <3>3
  <2>8. IsPrefix(rows'.text, Text') /\ IsPrefix(app'.text, Text')
    BY <1>4, <2>1
  <2> QED
    BY <2>5, <2>7, <2>8 DEF TextOK
<1>11. CASE Interface \/ InterfaceFault \/ UserReturns
  <2>1. log' = log /\ rows' = rows /\ textOffset' = textOffset /\ emitted' = emitted
    BY <1>11 DEF Interface, InterfaceFault, UserReturns, publisher, turnVars, channel
  <2>2. app' = app \/ AppChanges
    BY <1>11 DEF Interface, InterfaceFault, UserReturns, AppChanges
  <2>3. Text' = Text
    BY <2>1 DEF Text, Positions
  <2>4. IsPrefix(app'.text, Text')
    <3>1. CASE app' = app
      BY <1>4, <3>1
    <3>2. CASE AppChanges
      BY <1>2, <1>3, <2>3, <3>2, TextShown
    <3> QED
      BY <2>2, <3>1, <3>2
  <2> QED
    BY <1>1, <1>2, <1>4, <1>5, <2>1, <2>4, TextStays
<1> QED
  BY <1>6, <1>7, <1>8, <1>9, <1>10, <1>11 DEF Next, TurnStep

-----------------------------------------------------------------------------
(* The bounds.                                                               *)

(* A fault is counted up to its bound.                                       *)
LEMMA FaultCounted ==
    ASSUME BoundsOK, Fault, reader' = reader
    PROVE  faults' \in 0..MaxFaults[reader]
<1>1. faults < MaxFaults[reader] /\ faults' = faults + 1 /\ faults \in 0..MaxFaults[reader]
  BY DEF Fault, BoundsOK
<1>2. MaxFaults[reader] \in Nat
  <2>1. MaxFaults \in [Readers -> Nat] /\ reader \in Readers
    BY TranscriptAssumption DEF BoundsOK
  <2> QED
    BY <2>1
<1> QED
  BY <1>1, <1>2

(* Every step keeps the bounds.                                              *)
LEMMA BoundsStep ==
    ASSUME BoundsOK, Next
    PROVE  BoundsOK'
<1>1. CASE Agent \/ RunEnds \/ TurnStep
  BY <1>1 DEF BoundsOK, Agent, RunEnds, TurnStep, TaskRecv, TaskTake, TaskRow, TaskPublish, TaskSends,
              StoreAnswer, PublishOutcome, SendOutcome, SendOther, turnVars
<1>2. CASE Interface \/ UserReturns \/ Exporter
  BY <1>2 DEF BoundsOK, Interface, UserReturns, Exporter, turnVars
<1>3. CASE PublishOther
  <2>1. /\ reader' = reader /\ turn' = turn /\ task' = task /\ faults' = faults
        /\ others < MaxOther[reader] /\ others' = others + 1
    BY <1>3 DEF PublishOther, turnVars
  <2>2. MaxOther[reader] \in Nat
    <3>1. MaxOther \in [Readers -> Nat] /\ reader \in Readers
      BY TranscriptAssumption DEF BoundsOK
    <3> QED
      BY <3>1
  <2>3. others' \in 0..MaxOther[reader]
    BY <2>1, <2>2 DEF BoundsOK
  <2> QED
    BY <2>1, <2>3 DEF BoundsOK
<1>4. CASE TaskFails
  <2>1. Fault /\ reader' = reader /\ turn' = turn /\ task' = "dead" /\ others' = others
    BY <1>4 DEF TaskFails
  <2> QED
    BY <2>1, FaultCounted DEF BoundsOK
<1>5. CASE InterfaceFault
  <2>1. Fault /\ reader' = reader /\ turn' = turn /\ task' = task /\ others' = others
    BY <1>5 DEF InterfaceFault, turnVars
  <2> QED
    BY <2>1, FaultCounted DEF BoundsOK
<1>6. CASE ExporterFault
  <2>1. /\ reader' = reader /\ turn' = turn /\ task' = task /\ others' = others
        /\ (Fault \/ faults' = faults)
    BY <1>6 DEF ExporterFault, turnVars
  <2> QED
    BY <2>1, FaultCounted DEF BoundsOK
<1>7. CASE Crash
  <2>1. Fault /\ reader' = reader /\ turn' \in {turn, "dead"} /\ task' = "dead" /\ others' = others
    BY <1>7 DEF Crash
  <2> QED
    BY <2>1, FaultCounted DEF BoundsOK
<1> QED
  BY <1>1, <1>2, <1>3, <1>4, <1>5, <1>6, <1>7 DEF Next

-----------------------------------------------------------------------------
(* The theorems.                                                             *)

(* Nothing has been put out, published or shown at first.                    *)
LEMMA InvInit ==
    ASSUME Init
    PROVE  Inv
<1>1. /\ reader \in Readers /\ ChannelInit /\ LogInit /\ Audit!ExportInit
      /\ turn = "running" /\ task = "recv" /\ textOffset = 0
      /\ rows = [text |-> <<>>, reasoning |-> <<>>] /\ app = NewApp /\ others = 0 /\ faults = 0
  BY DEF Init
<1>2. BoundsOK
  <2>1. MaxOther[reader] \in Nat /\ MaxFaults[reader] \in Nat
    <3>1. MaxOther \in [Readers -> Nat] /\ MaxFaults \in [Readers -> Nat]
      BY TranscriptAssumption
    <3> QED
      BY <1>1, <3>1
  <2> QED
    BY <1>1, <2>1 DEF BoundsOK
<1>3. log = <<>> /\ seq = 0 /\ chain = <<>> /\ lock = "free" /\ DOMAIN log = {} /\ Len(log) = 0
  BY <1>1 DEF LogInit
<1>4. LogOK
  <2>1. HashOf(0) = <<>>
    BY DEF HashOf
  <2> QED
    BY <1>1, <1>3, <2>1 DEF LogOK, Chained, Behind
<1>5. /\ emitted = <<>> /\ placing = FALSE /\ chan = <<>> /\ held = NoEntry /\ queued = 0
      /\ slot = NoSlot /\ accepted = 0 /\ overflowed = FALSE /\ Len(emitted) = 0
  BY <1>1 DEF ChannelInit
<1>6. Out = <<>> /\ Len(Out) = 0
  <2>1. [i \in DOMAIN log |-> log[i].units] = <<>>
    BY <1>3
  <2>2. FlattenSeq(<<>>) = <<>>
    BY DEF FlattenSeq
  <2> QED
    BY <2>1, <2>2 DEF Out, Units
<1>7. ChannelOK
  <2>1. NoEntry \in Entries /\ NoEntry.id = 0 /\ Len(NoEntry.units) = 0
    BY DEF NoEntry, Entries, Kinds
  <2>2. Capacity \in Nat /\ BatchLimit \in Nat /\ ReasoningLimit \in Nat
    BY ChannelAssumption
  <2>3. ChannelType
    <3>1. emitted \in Seq(Kinds) /\ chan \in Seq(Entries) /\ Len(chan) <= Capacity
      BY <1>5, <2>2
    <3>2. accepted \in 0..ReasoningLimit /\ slot \in [text : Nat, reasoning : Nat] /\ held \in Entries
      BY <1>5, <2>1, <2>2, NoneOpen
    <3> QED
      BY <1>5, <3>1, <3>2 DEF ChannelType
  <2>4. ChannelIds
    BY <1>1, <1>5, <2>1, <2>2 DEF ChannelIds
  <2>5. Placed = 0 /\ Taken = 0 /\ ~Working /\ HashOf(0) = <<>>
    BY <1>1, <1>5, <1>6 DEF Placed, Taken, Working, HashOf
  <2>6. OutOK
    BY <1>6, <2>5 DEF OutOK
  <2>7. FlowOK
    BY <1>5, <2>5, NoneOpen DEF FlowOK, Flow, Joined
  <2> QED
    BY <2>3, <2>4, <2>6, <2>7 DEF ChannelOK
<1>8. StreamOK
  <2>1. conn = [NoConn EXCEPT !.pc = "none"] /\ after = 0 /\ inbox = <<>> /\ start = 0 /\ got = <<>>
    BY <1>1 DEF LogInit
  <2>2. conn \in Conns /\ conn.pc = "none" /\ conn.pos = 0 /\ conn.asked = 0 /\ conn.through = 0
    <3>1. conn = [pc |-> "none", asked |-> 0, through |-> 0, cursor |-> 0, page |-> <<>>, pos |-> 0]
      BY <2>1 DEF NoConn
    <3>2. <<>> \in Seq(Nat)
      OBVIOUS
    <3> QED
      BY <3>1, <3>2 DEF Conns
  <2> QED
    BY <1>3, <2>1, <2>2 DEF StreamOK, StreamType
<1>9. AppOK
  BY <1>1, <1>3 DEF AppOK, NewApp, Apps
<1>10. TextOK
  <2>1. Text \in Seq(Nat)
    BY <1>5, TextIs
  <2>2. TextOf(0) = {}
    BY DEF TextOf
  <2>3. Cardinality(TextOf(0)) = 0
    BY <2>2, FS_EmptySet
  <2>4. IsPrefix(<<>>, Text)
    BY <2>1, PrefixOfItself
  <2> QED
    BY <1>1, <1>3, <1>6, <2>3, <2>4 DEF TextOK, NewApp
<1>11. ExportOK
  <2>1. /\ cursor = Audit!FirstCursor /\ pending = Audit!NoBatch /\ exporter = Audit!IdleExport
        /\ built = 0 /\ wire = {} /\ collector = [records |-> <<>>, batches |-> {}]
    BY <1>1 DEF Audit!ExportInit
  <2>2. exporter \in Exporters /\ exporter.pc = "idle" /\ pending \in Parcels /\ cursor \in Cursors
    BY <2>1, IdleType
  <2>3. cursor.source = 0 /\ cursor = CursorAt(0) /\ Len(Copy) \in Nat
    BY <1>4, <2>1, CopyType DEF Audit!FirstCursor, CursorAt
  <2>4. collector.records = <<>> /\ collector.batches = {} /\ Had = 0
        /\ collector \in [records : Seq(Copies), batches : SUBSET Parcels]
    BY <2>1 DEF Had
  <2>5. ExportType
    BY <2>1, <2>2, <2>3, <2>4 DEF ExportType, Exporters
  <2>6. ExporterOK
    BY <2>2 DEF ExporterOK
  <2>7. CollectorOK
    BY <2>1, <2>3, <2>4 DEF CollectorOK
  <2> QED
    BY <2>5, <2>6, <2>7 DEF ExportOK
<1> QED
  BY <1>2, <1>4, <1>7, <1>8, <1>9, <1>10, <1>11 DEF Inv

(* A step of anything else changes nothing.                                  *)
LEMMA InvStays ==
    ASSUME Inv, UNCHANGED vars
    PROVE  Inv' /\ UNCHANGED Feed!vars
<1>1. /\ UNCHANGED channel /\ UNCHANGED publisher /\ UNCHANGED stream /\ UNCHANGED export
      /\ reader' = reader /\ turn' = turn /\ task' = task /\ textOffset' = textOffset /\ rows' = rows
      /\ app' = app /\ others' = others /\ faults' = faults
  BY DEF vars, turnVars, channel, publisher, stream, export
<1>2. LogOK' /\ LogMoves
  BY <1>1, LogKept DEF Inv
<1>3. log' = log /\ start' = start /\ got' = got /\ emitted' = emitted
  BY <1>1 DEF publisher, stream, channel
<1>4. Out' = Out
  BY <1>3 DEF Out, Units
<1>5. ChannelOK'
  BY <1>1, <1>4, ChannelKept DEF Inv
<1>6. StreamOK'
  BY <1>1, <1>2, StreamStays DEF Inv
<1>7. AppOK'
  <2>1. rows' \in [text : Seq(Nat), reasoning : Seq(Nat)] /\ textOffset' \in Nat
    BY <1>1 DEF Inv, AppOK
  <2> QED
    BY <1>1, <1>2, <2>1, AppKept DEF Inv
<1>8. TextOK'
  <2>1. overflowed' = overflowed
    BY <1>1 DEF channel
  <2>2. CASE overflowed
    BY <2>1, <2>2 DEF TextOK
  <2>3. CASE ~overflowed
    <3>1. TextMoves /\ Text' = Text
      BY <1>3, TextSame DEF Inv, ChannelOK, ChannelType
    <3>2. IsPrefix(rows.text, Text) /\ IsPrefix(app.text, Text)
      BY <2>3 DEF Inv, TextOK
    <3> QED
      BY <1>1, <1>3, <1>4, <2>3, <3>1, <3>2, TextStays DEF Inv
  <2> QED
    BY <2>2, <2>3
<1>9. ExportOK'
  BY <1>1, <1>2, ExportKept DEF Inv
<1>10. BoundsOK'
  BY <1>1 DEF Inv, BoundsOK
<1>11. UNCHANGED Feed!vars
  BY <1>3, FeedSame
<1> QED
  BY <1>2, <1>5, <1>6, <1>7, <1>8, <1>9, <1>10, <1>11 DEF Inv

(* Every step keeps the invariant, and is a step of the feed or none.        *)
LEMMA InvStep ==
    ASSUME Inv, [Next]_vars
    PROVE  Inv' /\ [Feed!Next]_(Feed!vars)
<1>1. CASE UNCHANGED vars
  BY <1>1, InvStays
<1>2. CASE Next
  <2>1. held \in Entries /\ textOffset \in Nat /\ emitted \in Seq(Kinds) /\ reader \in Readers
    BY DEF Inv, ChannelOK, ChannelType, AppOK, BoundsOK
  <2>2. LogOK' /\ LogMoves
    BY <1>2, <2>1, LogStep DEF Inv
  <2>3. StreamOK' /\ (Feed!Next \/ UNCHANGED Feed!vars)
    BY <1>2, <2>2, StreamStepOK DEF Inv
  <2>4. ChannelOK'
    BY <1>2, <2>1, ChannelStep DEF Inv
  <2>5. AppOK'
    BY <1>2, <2>1, <2>2, AppStep DEF Inv
  <2>6. TextOK'
    BY <1>2, <2>1, TextStep DEF Inv
  <2>7. ExportOK'
    BY <1>2, <2>2, ExportStepOK DEF Inv
  <2>8. BoundsOK'
    BY <1>2, BoundsStep DEF Inv
  <2> QED
    BY <2>2, <2>3, <2>4, <2>5, <2>6, <2>7, <2>8 DEF Inv
<1> QED
  BY <1>1, <1>2

(* Under the invariant the log is consistent.                                *)
LEMMA InvLog ==
    ASSUME Inv
    PROVE  LogConsistent
<1>1. /\ LogOK /\ Len(log) \in Nat /\ log \in Seq(Records) /\ DOMAIN log = 1..Len(log) /\ seq \in Nat
      /\ seq <= Len(log)
  BY DEF Inv, LogOK, Behind
<1>2. TypeOK
  <2>1. conn.pos \in 0..Len(log)
    <3>1. conn.pos \in Nat /\ conn.pos <= seq
      BY DEF Inv, StreamOK, StreamType, Conns
    <3> QED
      BY <1>1, <3>1
  <2>2. /\ Len(chan) <= Capacity /\ \A i \in DOMAIN chan : Len(chan[i].units) \in 1..BatchLimit
        /\ accepted \in 0..ReasoningLimit
    BY DEF Inv, ChannelOK, ChannelType, ChannelIds
  <2>3. conn.pc \in {"none", "off", "subscribed", "replay", "live"}
    BY DEF Inv, StreamOK, StreamType, Conns
  <2>4. app.pc \in {"load", "rows", "shown"} /\ app.cursor \in 0..Len(log)
    BY DEF Inv, AppOK, Apps
  <2>5. exporter.pc \in {"idle", "build", "put", "check", "send", "sent", "advance", "delete"}
    BY DEF Inv, ExportOK, ExportType
  <2> QED
    BY <2>1, <2>2, <2>3, <2>4, <2>5 DEF TypeOK, Inv, BoundsOK
<1>3. PublishedInOrder
  <2>1. SUFFICES ASSUME ~overflowed PROVE IsPrefix(Out, [i \in DOMAIN emitted |-> i])
    BY DEF PublishedInOrder, Out
  <2>2. Len(Out) <= Placed /\ Out = HashOf(Len(Out)) /\ Out \in Seq(Nat)
    BY <1>1, <2>1, OutType DEF Inv, ChannelOK, OutOK
  <2>3. PICK m \in Nat, n \in Nat : m = Len(Out) /\ n = Len(emitted) /\ m <= n
    <3>1. Placed \in Nat /\ Len(Out) \in Nat /\ Len(emitted) \in {Placed, Placed + 1}
      BY <1>1, ChannelNats DEF Inv, ChannelOK, ChannelType
    <3> QED
      BY <2>2, <3>1
  <2>4. [i \in DOMAIN emitted |-> i] = HashOf(n)
    <3>1. DOMAIN emitted = 1..n
      BY <2>3 DEF Inv, ChannelOK, ChannelType
    <3> QED
      BY <3>1 DEF HashOf
  <2>5. HashOf(m) \in Seq(Nat) /\ Len(HashOf(m)) = m /\ HashOf(n) \in Seq(Nat) /\ Len(HashOf(n)) = n
    BY HashAppend
  <2>6. \A i \in 1..m : HashOf(m)[i] = HashOf(n)[i]
    BY <2>3 DEF HashOf
  <2>7. IsPrefix(HashOf(m), HashOf(n))
    BY <2>3, <2>5, <2>6, PrefixByElement
  <2> QED
    BY <2>2, <2>3, <2>4, <2>7
<1>4. LogSurvivesRestart
  <2>1. Verifies(log)
    BY <1>1 DEF Verifies, LogOK, Chained, HashOf
  <2>2. lock = "free" => seq = Len(log) /\ chain = [n \in DOMAIN log |-> n]
    BY <1>1 DEF LogOK, Behind, HashOf
  <2> QED
    BY <2>1, <2>2 DEF LogSurvivesRestart
<1> QED
  BY <1>2, <1>3, <1>4 DEF LogConsistent

(* Under the invariant the collector's copy is exact.                        *)
LEMMA InvCollector ==
    ASSUME Inv
    PROVE  CollectorIsExact
<1>1. LogOK /\ ExportOK
  BY DEF Inv
<1>2. CollectorHasEvents
  <2>1. /\ DOMAIN Team = 1..Len(Copy) /\ Copy \in Seq(Copies)
        /\ \A i \in 1..Len(Copy) : log[Team[i]].sequence = Team[i]
    BY <1>1, CopyType
  <2>2. TeamEvents = [i \in DOMAIN Team |-> log[Team[i]]]
    BY DEF TeamEvents, Team
  <2>3. [i \in DOMAIN TeamEvents |-> [source |-> i, local |-> TeamEvents[i].sequence,
                                      hash |-> TeamEvents[i].hash]] = Copy
    BY <2>1, <2>2 DEF Copy
  <2>4. collector.records \in Seq(Copies)
    BY <1>1 DEF ExportOK, ExportType
  <2>5. Len(collector.records) <= Len(Copy) /\ \A i \in 1..Len(collector.records) : collector.records[i] = Copy[i]
    BY <1>1 DEF ExportOK, CollectorOK, Had
  <2>6. IsPrefix(collector.records, Copy)
    BY <2>1, <2>4, <2>5, PrefixByElement
  <2> QED
    BY <2>3, <2>6 DEF CollectorHasEvents
<1>3. RetriesTheSameBatch
  <2>1. SUFFICES ASSUME exporter.pc \in {"send", "sent"}
                 PROVE  Audit!Accepts(exporter.batch) \/ exporter.batch \in collector.batches
    BY DEF RetriesTheSameBatch
  <2>2. pending # Audit!NoBatch /\ exporter.batch = pending
    BY <1>1, <2>1 DEF ExportOK, ExporterOK
  <2>3. Had = pending.previous \/ pending \in collector.batches
    BY <1>1, <2>2 DEF ExportOK, CollectorOK
  <2> QED
    BY <2>2, <2>3 DEF Audit!Accepts, Had
<1> QED
  BY <1>2, <1>3 DEF CollectorIsExact

(* The inductive invariant: the log, the channel, the stream, the interface,  *)
(* the text and the export fit together, in every state of the system.       *)
THEOREM TranscriptInvariant == Spec => []Inv
<1>1. Init => Inv
  BY InvInit
<1>2. Inv /\ [Next]_vars => Inv'
  BY InvStep
<1> QED
  BY <1>1, <1>2, PTL DEF Spec

(* What is published of a turn is what the agent put out, in order and       *)
(* without a gap (unless the run failed closed), and the chain of the log    *)
(* verifies and is continued whenever the daemon dies.                       *)
THEOREM TranscriptLog == Spec => []LogConsistent
<1>1. Inv => LogConsistent
  BY InvLog
<1> QED
  BY <1>1, TranscriptInvariant, PTL

(* The text the interface shows is a beginning of what the agent wrote.      *)
THEOREM TranscriptText == Spec => []TextIsPrefix
<1>1. Inv => TextIsPrefix
  BY DEF Inv, TextOK, TextIsPrefix, Text
<1> QED
  BY <1>1, TranscriptInvariant, PTL

(* The collector has the team's events exactly once, in order, with the      *)
(* hashes of the chain, and every batch sent is one it has or can take.      *)
THEOREM TranscriptCollector == Spec => []CollectorIsExact
<1>1. Inv => CollectorIsExact
  BY InvCollector
<1> QED
  BY <1>1, TranscriptInvariant, PTL

(* The event stream implements EventFeed: what stream_events receives is     *)
(* every visible event after its cursor, once and in order.                  *)
THEOREM TranscriptFeed == Spec => DeliversFeed
<1>1. Init => Feed!Init
  <2>1. SUFFICES ASSUME Init PROVE Feed!Init
    OBVIOUS
  <2>2. log = <<>> /\ start = 0 /\ got = <<>>
    BY <2>1 DEF Init, LogInit
  <2>3. LogOK
    BY <2>1, InvInit DEF Inv
  <2>4. Seen = <<>>
    <3>1. {n \in DOMAIN log : Visible(log[n])} = {}
      BY <2>2
    <3>2. {} \in SUBSET Nat /\ IsFiniteSet({}) /\ Cardinality({}) = 0
      BY FS_EmptySet
    <3>3. InOrder({}) \in Seq(Nat) /\ Len(InOrder({})) = 0
      BY <3>2, Ordered
    <3>4. InOrder({}) = <<>>
      BY <3>3
    <3> QED
      BY <3>1, <3>4 DEF Seen
  <2>5. [i \in DOMAIN Seen |-> log[Seen[i]].sequence] = <<>>
    BY <2>3, <2>4, PublishedIsSeen
  <2> QED
    BY <2>2, <2>5, Zenon DEF Feed!Init, Seen
<1>2. Inv /\ [Next]_vars => [Feed!Next]_(Feed!vars)
  BY InvStep
<1> QED
  BY <1>1, <1>2, TranscriptInvariant, PTL DEF Spec, DeliversFeed, Feed!Spec
==============================================================================
