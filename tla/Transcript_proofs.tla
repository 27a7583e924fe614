-------------------------- MODULE Transcript_proofs --------------------------
(***************************************************************************)
(* Theorems about Transcript, for any texts and replies and any number of  *)
(* turns and attaches.  First what the operators of reconstruct.py do with *)
(* any sequence; then the types and what follows from a single attach; at  *)
(* the end the history, which is told over many of them.                   *)
(***************************************************************************)
EXTENDS Transcript, TLAPS, FiniteSetTheorems, SequenceTheorems

-----------------------------------------------------------------------------
(* Finite sets of numbers in ascending order. *)

Rank(S, x) == Cardinality({y \in S : y <= x})

(* The rank of a member is a place in the order, and greater members have
   greater ranks. *)
LEMMA RankProperties ==
  ASSUME NEW S \in SUBSET Nat, IsFiniteSet(S)
  PROVE  /\ Cardinality(S) \in Nat
         /\ \A x \in S : Rank(S, x) \in 1..Cardinality(S)
         /\ \A x, z \in S : x < z => Rank(S, x) < Rank(S, z)
<1>1. Cardinality(S) \in Nat
  BY FS_CardinalityType
<1>2. ASSUME NEW x \in S PROVE Rank(S, x) \in 1..Cardinality(S)
  <2> DEFINE T == {y \in S : y <= x}
  <2>1. IsFiniteSet(T) /\ Cardinality(T) <= Cardinality(S)
    BY FS_Subset
  <2>2. Cardinality(T) \in Nat /\ x \in T
    BY <2>1, FS_CardinalityType
  <2>3. Cardinality(T) # 0
    BY <2>1, <2>2, FS_EmptySet
  <2> QED
    BY <1>1, <2>1, <2>2, <2>3 DEF Rank
<1>3. ASSUME NEW x \in S, NEW z \in S, x < z PROVE Rank(S, x) < Rank(S, z)
  <2> DEFINE T == {y \in S : y <= x}
             U == {y \in S : y <= z}
  <2>1. IsFiniteSet(U)
    BY FS_Subset
  <2>2. T \in SUBSET U /\ z \in U /\ z \notin T
    <3>1. x \in Nat /\ z \in Nat
      OBVIOUS
    <3>2. ASSUME NEW y \in S, y <= x PROVE y <= z
      <4>1. y \in Nat
        OBVIOUS
      <4> QED
        BY <1>3, <3>1, <3>2, <4>1
    <3>3. z <= z /\ ~(z <= x)
      BY <1>3, <3>1
    <3> QED
      BY <3>2, <3>3
  <2>3. Cardinality(T) <= Cardinality(U) /\ Cardinality(T) # Cardinality(U)
    BY <2>1, <2>2, FS_Subset
  <2>4. Cardinality(T) \in Nat /\ Cardinality(U) \in Nat
    BY <2>1, <2>2, FS_Subset, FS_CardinalityType
  <2> QED
    BY <2>3, <2>4 DEF Rank
<1> QED
  BY <1>1, <1>2, <1>3

(* Every place in the order is some member's rank. *)
LEMMA RankOnto ==
  ASSUME NEW S \in SUBSET Nat, IsFiniteSet(S), NEW k \in 1..Cardinality(S)
  PROVE  \E x \in S : Rank(S, x) = k
<1> DEFINE n == Cardinality(S)
           rank == [x \in S |-> Rank(S, x)]
<1>1. n \in Nat /\ rank \in [S -> 1..n]
  BY RankProperties
<1>2. ASSUME NEW x \in S, NEW z \in S, rank[x] = rank[z] PROVE x = z
  BY <1>2, RankProperties
<1>3. rank \in Injection(S, 1..n)
  BY <1>1, <1>2 DEF Injection, IsInjective
<1>4. IsFiniteSet(1..n) /\ Cardinality(1..n) = n
  BY <1>1, FS_Interval
<1>5. rank \in Surjection(S, 1..n)
  BY <1>3, <1>4, FS_Injection
<1> QED
  BY <1>5 DEF Surjection

(* Ascending(S) lists each member of S once, the smaller ones first. *)
LEMMA AscendingProperties ==
  ASSUME NEW S \in SUBSET Nat, IsFiniteSet(S)
  PROVE  /\ Cardinality(S) \in Nat
         /\ Ascending(S) \in [1..Cardinality(S) -> S]
         /\ \A k \in 1..Cardinality(S) : Rank(S, Ascending(S)[k]) = k
         /\ \A x \in S : Ascending(S)[Rank(S, x)] = x
         /\ \A k, l \in 1..Cardinality(S) : k < l => Ascending(S)[k] < Ascending(S)[l]
<1> DEFINE n == Cardinality(S)
<1>1. n \in Nat
  BY RankProperties
<1>2. ASSUME NEW k \in 1..n
      PROVE  Ascending(S)[k] \in S /\ Rank(S, Ascending(S)[k]) = k
  BY RankOnto DEF Ascending, Rank
<1>3. ASSUME NEW x \in S, NEW z \in S, Rank(S, x) = Rank(S, z) PROVE x = z
  BY <1>3, RankProperties
<1>4. ASSUME NEW x \in S PROVE Ascending(S)[Rank(S, x)] = x
  <2>1. Rank(S, x) \in 1..n
    BY RankProperties
  <2> QED
    BY <1>2, <1>3, <2>1
<1>5. ASSUME NEW k \in 1..n, NEW l \in 1..n, k < l
      PROVE  Ascending(S)[k] < Ascending(S)[l]
  <2> DEFINE x == Ascending(S)[k]
             z == Ascending(S)[l]
  <2>1. x \in S /\ z \in S /\ Rank(S, x) = k /\ Rank(S, z) = l
    BY <1>2
  <2>2. ASSUME z < x PROVE FALSE
    <3>1. Rank(S, z) < Rank(S, x)
      BY <2>1, <2>2, RankProperties
    <3> QED
      BY <1>1, <1>5, <2>1, <3>1
  <2>3. z # x
    BY <1>5, <2>1
  <2>4. x \in Nat /\ z \in Nat
    BY <2>1
  <2> QED
    BY <2>2, <2>3, <2>4
<1>6. Ascending(S) \in [1..n -> S]
  BY <1>2 DEF Ascending
<1> QED
  BY <1>1, <1>2, <1>4, <1>5, <1>6

(* At(ms, places) takes its members from there. *)
LEMMA AtProperties ==
  ASSUME NEW T, NEW ms \in Seq(T), NEW P \in SUBSET DOMAIN ms
  PROVE  /\ P \in SUBSET Nat /\ IsFiniteSet(P) /\ Cardinality(P) \in Nat
         /\ At(ms, P) \in Seq(T)
         /\ Len(At(ms, P)) = Cardinality(P)
         /\ \A k \in 1..Cardinality(P) :
               Ascending(P)[k] \in P /\ At(ms, P)[k] = ms[Ascending(P)[k]]
         /\ \A i \in P : /\ Rank(P, i) \in 1..Cardinality(P)
                        /\ At(ms, P)[Rank(P, i)] = ms[i]
<1>1. DOMAIN ms = 1..Len(ms) /\ Len(ms) \in Nat /\ \A i \in DOMAIN ms : ms[i] \in T
  BY LenProperties, ElementOfSeq
<1>2. P \in SUBSET Nat /\ IsFiniteSet(P)
  <2>1. IsFiniteSet(1..Len(ms)) /\ P \in SUBSET (1..Len(ms))
    BY <1>1, FS_Interval
  <2> QED
    BY <2>1, FS_Subset
<1>3. Cardinality(P) \in Nat
  BY <1>2, FS_CardinalityType
<1>4. ASSUME NEW k \in 1..Cardinality(P)
      PROVE  Ascending(P)[k] \in P /\ ms[Ascending(P)[k]] \in T
             /\ At(ms, P)[k] = ms[Ascending(P)[k]]
  BY <1>1, <1>2, AscendingProperties DEF At
<1>5. At(ms, P) \in [1..Cardinality(P) -> T]
  BY <1>4 DEF At
<1>6. At(ms, P) \in Seq(T) /\ Len(At(ms, P)) = Cardinality(P)
  BY <1>3, <1>5, SeqDef
<1>7. ASSUME NEW i \in P
      PROVE  Rank(P, i) \in 1..Cardinality(P) /\ At(ms, P)[Rank(P, i)] = ms[i]
  <2>1. Rank(P, i) \in 1..Cardinality(P) /\ Ascending(P)[Rank(P, i)] = i
    BY <1>2, AscendingProperties, RankProperties
  <2> QED
    BY <1>4, <2>1
<1> QED
  BY <1>2, <1>3, <1>4, <1>6, <1>7

(* Two sequences one after the other: where their members are. *)
LEMMA ConcatPlaces ==
  ASSUME NEW T, NEW xs \in Seq(T), NEW ys \in Seq(T)
  PROVE  LET m == Len(xs)
             n == Len(ys)
             all == xs \o ys
         IN  /\ m \in Nat /\ n \in Nat /\ DOMAIN xs = 1..m /\ DOMAIN ys = 1..n
             /\ all \in Seq(T) /\ Len(all) = m + n /\ DOMAIN all = 1..(m + n)
             /\ \A i \in 1..m : i \in DOMAIN all /\ all[i] = xs[i]
             /\ \A i \in 1..n : m + i \in DOMAIN all /\ all[m + i] = ys[i]
             /\ \A i \in DOMAIN all : i \in 1..m \/ (i - m \in 1..n /\ all[i] = ys[i - m])
<1> DEFINE m == Len(xs)
           n == Len(ys)
           all == xs \o ys
<1>1. m \in Nat /\ n \in Nat /\ DOMAIN xs = 1..m /\ DOMAIN ys = 1..n
  BY LenProperties
<1>2. /\ all \in Seq(T) /\ Len(all) = m + n
      /\ \A i \in 1..(m + n) : all[i] = IF i <= m THEN xs[i] ELSE ys[i - m]
  BY ConcatProperties
<1>3. DOMAIN all = 1..(m + n)
  BY <1>2, LenProperties
<1> HIDE DEF all, m, n
<1>4. ASSUME NEW i \in 1..m PROVE i \in DOMAIN all /\ all[i] = xs[i]
  BY <1>1, <1>2, <1>3
<1>5. ASSUME NEW i \in 1..n PROVE m + i \in DOMAIN all /\ all[m + i] = ys[i]
  <2>1. m + i \in 1..(m + n) /\ ~(m + i <= m) /\ (m + i) - m = i
    BY <1>1
  <2> QED
    BY <1>2, <1>3, <2>1
<1>6. ASSUME NEW i \in DOMAIN all, i \notin 1..m PROVE i - m \in 1..n /\ all[i] = ys[i - m]
  <2>1. i \in 1..(m + n) /\ ~(i <= m) /\ i - m \in 1..n
    BY <1>1, <1>3, <1>6
  <2> QED
    BY <1>2, <2>1
<1> QED
  BY <1>1, <1>2, <1>3, <1>4, <1>5, <1>6 DEF all, m, n

-----------------------------------------------------------------------------
(* Messages without repetition. *)

(* A set of numbers has a least one: this is how the inductions below go. *)
LEMMA Least ==
  ASSUME NEW S \in SUBSET Nat, S # {}
  PROVE  \E n \in S : \A m \in S : n <= m
<1> DEFINE less == {ss \in Nat \X Nat : ss[1] < ss[2]}
<1>1. IsWellFoundedOn(less, Nat)
  BY NatLessThanWellFounded DEF OpToRel
<1> HIDE DEF less
<1>2. PICK n \in S : \A m \in S : ~(<<m, n>> \in less)
  BY <1>1, WFMin
<1>3. ASSUME NEW m \in S PROVE n <= m
  <2>1. ~(m < n)
    BY <1>2 DEF less
  <2> QED
    BY <2>1
<1> QED
  BY <1>3

(* ... and a bounded one, that is not empty, a greatest. *)
LEMMA Greatest ==
  ASSUME NEW n \in Nat, NEW S \in SUBSET (1..n), S # {}
  PROVE  Max(S) \in S /\ \A m \in S : m <= Max(S)
<1> DEFINE above == {k \in Nat : \A m \in S : m <= k}
<1>1. n \in above
  OBVIOUS
<1>2. PICK k \in above : \A l \in above : k <= l
  <2>1. above \in SUBSET Nat /\ above # {}
    BY <1>1
  <2> HIDE DEF above
  <2> QED
    BY <2>1, Least
<1>3. k \in S
  <2>1. SUFFICES ASSUME k \notin S PROVE FALSE
    OBVIOUS
  <2>2. \A m \in S : m \in Nat /\ m # 0 /\ m <= k /\ m # k
    BY <1>2, <2>1
  <2>3. ASSUME NEW m \in S PROVE k # 0 /\ m <= k - 1
    <3>1. m \in Nat /\ m # 0 /\ m <= k /\ m # k /\ k \in Nat
      BY <1>2, <2>2
    <3> QED
      BY <3>1
  <2>4. k # 0 /\ \A m \in S : m <= k - 1
    BY <2>3
  <2>5. k - 1 \in above
    BY <1>2, <2>4
  <2> QED
    BY <1>2, <2>5
<1>4. \A m \in S : k >= m
  BY <1>2
<1>5. Max(S) \in S /\ \A m \in S : Max(S) >= m
  BY <1>3, <1>4 DEF Max
<1> QED
  BY <1>5

Distinct(ms) == \A i, j \in DOMAIN ms : ms[i] = ms[j] => i = j

(* The places of the messages that are new after ms. *)
NewPlaces(ms, new) ==
    {i \in DOMAIN new : /\ ~Contains(ms, new[i])
                       /\ \A j \in 1..(i - 1) : new[j] # new[i]}

(* The places in new, in order, of what WithNew(ms, new) adds to ms. *)
Added(place, ms, new) ==
    LET n == Len(ms)
        c == Cardinality(NewPlaces(ms, new))
        all == WithNew(ms, new)
    IN  /\ place \in [1..c -> NewPlaces(ms, new)]
        /\ \A i \in DOMAIN all : i \notin 1..n => i - n \in 1..c /\ all[i] = new[place[i - n]]
        /\ \A k \in 1..c : n + k \in DOMAIN all /\ all[n + k] = new[place[k]]
        /\ \A k, l \in 1..c : k < l => place[k] < place[l]
        /\ \A p \in NewPlaces(ms, new) : \E k \in 1..c : place[k] = p

(* WithNew keeps ms and adds, in their order, the messages that are new. *)
LEMMA WithNewPlaces ==
  ASSUME NEW T, NEW ms \in Seq(T), NEW new \in Seq(T)
  PROVE  LET n == Len(ms)
             c == Cardinality(NewPlaces(ms, new))
             all == WithNew(ms, new)
         IN  /\ n \in Nat /\ c \in Nat /\ DOMAIN ms = 1..n
             /\ all \in Seq(T) /\ DOMAIN all = 1..(n + c)
             /\ \A i \in 1..n : all[i] = ms[i]
             /\ \E place : Added(place, ms, new)
<1> DEFINE P == NewPlaces(ms, new)
           c == Cardinality(P)
           n == Len(ms)
           all == WithNew(ms, new)
           place == Ascending(P)
<1>1. P \in SUBSET DOMAIN new /\ all = ms \o At(new, P)
  BY DEF NewPlaces, WithNew
<1>2. /\ c \in Nat /\ At(new, P) \in Seq(T) /\ Len(At(new, P)) = c
      /\ P \in SUBSET Nat /\ IsFiniteSet(P)
      /\ \A k \in 1..c : place[k] \in P /\ At(new, P)[k] = new[place[k]]
  BY <1>1, AtProperties
<1>3. /\ n \in Nat /\ DOMAIN ms = 1..n /\ DOMAIN At(new, P) = 1..c
      /\ all \in Seq(T) /\ DOMAIN all = 1..(n + c)
      /\ \A i \in 1..n : all[i] = ms[i]
      /\ \A k \in 1..c : n + k \in DOMAIN all /\ all[n + k] = At(new, P)[k]
      /\ \A i \in DOMAIN all : i \in 1..n \/ (i - n \in 1..c /\ all[i] = At(new, P)[i - n])
  BY <1>1, <1>2, ConcatPlaces
<1>4. /\ place \in [1..c -> P]
      /\ \A k, l \in 1..c : k < l => place[k] < place[l]
  BY <1>2, AscendingProperties
<1>5. ASSUME NEW p \in P PROVE \E k \in 1..c : place[k] = p
  BY <1>2, AscendingProperties, RankProperties
<1> HIDE DEF P, c, n, all, place
<1>6. /\ \A i \in DOMAIN all : i \notin 1..n => i - n \in 1..c /\ all[i] = new[place[i - n]]
      /\ \A k \in 1..c : n + k \in DOMAIN all /\ all[n + k] = new[place[k]]
  BY <1>2, <1>3
<1>7. Added(place, ms, new)
  BY <1>4, <1>5, <1>6 DEF P, c, n, all, Added
<1> QED
  BY <1>2, <1>3, <1>7 DEF P, c, n, all

(* So nothing is twice in it. *)
LEMMA WithNewDistinct ==
  ASSUME NEW T, NEW ms \in Seq(T), NEW new \in Seq(T), Distinct(ms)
  PROVE  Distinct(WithNew(ms, new))
<1> DEFINE P == NewPlaces(ms, new)
           c == Cardinality(P)
           n == Len(ms)
           all == WithNew(ms, new)
<1>1. /\ n \in Nat /\ c \in Nat /\ DOMAIN ms = 1..n /\ DOMAIN all = 1..(n + c)
      /\ \A i \in 1..n : all[i] = ms[i]
  BY WithNewPlaces
<1>2. PICK place : Added(place, ms, new)
  BY WithNewPlaces
<1>3. /\ place \in [1..c -> P]
      /\ \A i \in DOMAIN all : i \notin 1..n => i - n \in 1..c /\ all[i] = new[place[i - n]]
      /\ \A k, l \in 1..c : k < l => place[k] < place[l]
  BY <1>2 DEF Added
<1>4. ASSUME NEW p \in P
      PROVE  /\ p \in Nat
             /\ \A i \in 1..n : ms[i] # new[p]
             /\ \A q \in P : q < p => new[q] # new[p]
  <2>1. P \subseteq 1..Len(new) /\ Len(new) \in Nat
    BY LenProperties DEF NewPlaces
  <2>2. \A q \in P : q < p => q \in 1..(p - 1)
    BY <2>1
  <2> QED
    BY <2>1, <2>2 DEF NewPlaces, Contains
<1> HIDE DEF P, c, n, all
<1>5. ASSUME NEW i \in DOMAIN all, NEW j \in DOMAIN all, i < j PROVE all[i] # all[j]
  <2>1. CASE j \in 1..n
    BY <1>1, <1>5, <2>1 DEF Distinct
  <2>2. CASE i \in 1..n /\ j \notin 1..n
    BY <1>1, <1>3, <1>4, <2>2
  <2>3. CASE i \notin 1..n /\ j \notin 1..n
    <3>1. i - n \in 1..c /\ j - n \in 1..c /\ i - n < j - n
      BY <1>1, <1>3, <1>5, <2>3
    <3>2. place[i - n] \in P /\ place[j - n] \in P /\ place[i - n] < place[j - n]
      BY <1>3, <3>1
    <3> QED
      BY <1>3, <1>4, <2>3, <3>2
  <2> QED
    BY <1>1, <1>5, <2>1, <2>2, <2>3
<1>6. ASSUME NEW i \in DOMAIN all, NEW j \in DOMAIN all, all[i] = all[j] PROVE i = j
  <2>1. ~(i < j) /\ ~(j < i)
    BY <1>5, <1>6
  <2> QED
    BY <1>1, <2>1
<1> QED
  BY <1>6 DEF Distinct, all

(* ... and everything is in it that was in either. *)
LEMMA WithNewMembers ==
  ASSUME NEW T, NEW ms \in Seq(T), NEW new \in Seq(T)
  PROVE  ToSet(WithNew(ms, new)) = ToSet(ms) \cup ToSet(new)
<1> DEFINE P == NewPlaces(ms, new)
           c == Cardinality(P)
           n == Len(ms)
           all == WithNew(ms, new)
<1>1. /\ n \in Nat /\ c \in Nat /\ DOMAIN ms = 1..n /\ DOMAIN all = 1..(n + c)
      /\ \A i \in 1..n : all[i] = ms[i]
  BY WithNewPlaces
<1>2. PICK place : Added(place, ms, new)
  BY WithNewPlaces
<1>3. /\ place \in [1..c -> P]
      /\ \A i \in DOMAIN all : i \notin 1..n => i - n \in 1..c /\ all[i] = new[place[i - n]]
      /\ \A k \in 1..c : n + k \in DOMAIN all /\ all[n + k] = new[place[k]]
      /\ \A p \in P : \E k \in 1..c : place[k] = p
  BY <1>2 DEF Added
<1>4. P \subseteq DOMAIN new
  BY DEF NewPlaces
<1> HIDE DEF c, n, all
<1>5. ToSet(all) \subseteq ToSet(ms) \cup ToSet(new)
  <2>1. ASSUME NEW i \in DOMAIN all PROVE all[i] \in ToSet(ms) \cup ToSet(new)
    <3>1. CASE i \in 1..n
      BY <1>1, <3>1 DEF ToSet
    <3>2. CASE i \notin 1..n
      BY <1>3, <1>4, <3>2 DEF ToSet
    <3> QED
      BY <3>1, <3>2
  <2> QED
    BY <2>1 DEF ToSet
<1>6. ToSet(ms) \subseteq ToSet(all)
  <2>1. ASSUME NEW i \in DOMAIN ms PROVE ms[i] \in ToSet(all)
    BY <1>1 DEF ToSet
  <2> QED
    BY <2>1 DEF ToSet
<1>7. ASSUME NEW q \in DOMAIN new PROVE new[q] \in ToSet(all)
  <2>1. CASE Contains(ms, new[q])
    <3>1. new[q] \in ToSet(ms)
      BY <1>1, <2>1 DEF Contains, ToSet, n
    <3> QED
      BY <1>6, <3>1
  <2>2. CASE ~Contains(ms, new[q])
    <3> DEFINE same == {p \in DOMAIN new : new[p] = new[q]}
    <3>1. DOMAIN new = 1..Len(new) /\ Len(new) \in Nat
      BY LenProperties
    <3>2. PICK p \in same : \A r \in same : p <= r
      <4>1. same \in SUBSET Nat /\ same # {}
        BY <3>1
      <4> HIDE DEF same
      <4> QED
        BY <4>1, Least
    <3>3. ASSUME NEW r \in 1..(p - 1) PROVE new[r] # new[p]
      <4>1. r \in DOMAIN new /\ ~(p <= r)
        BY <3>1, <3>2
      <4> QED
        BY <3>2, <4>1
    <3>4. p \in P
      BY <2>2, <3>2, <3>3 DEF NewPlaces
    <3>5. PICK k \in 1..c : place[k] = p
      BY <1>3, <3>4
    <3>6. n + k \in DOMAIN all /\ all[n + k] = new[q]
      BY <1>3, <3>2, <3>5
    <3> QED
      BY <3>6 DEF ToSet
  <2> QED
    BY <2>1, <2>2
<1>8. ToSet(new) \subseteq ToSet(all)
  BY <1>7 DEF ToSet
<1> QED
  BY <1>5, <1>6, <1>8 DEF all

-----------------------------------------------------------------------------
(* The loop over the spans.  No prover unfolds a recursive function, so that
   there is one is shown here, on ever longer prefixes. *)

MergingUpTo(m, parts, n) ==
    m = [k \in 0..n |-> IF k = 0 THEN <<>> ELSE WithNew(m[k - 1], parts[k])]

(* For each number of steps there is a function that makes them. *)
LEMMA MergingExists ==
  ASSUME NEW parts
  PROVE  \A n \in Nat : \E m : MergingUpTo(m, parts, n)
<1> DEFINE bad == {n \in Nat : ~\E m : MergingUpTo(m, parts, n)}
<1>1. SUFFICES ASSUME bad # {} PROVE FALSE
  OBVIOUS
<1>2. PICK n \in bad : \A k \in bad : n <= k
  BY <1>1, Least
<1>3. n # 0
  <2> DEFINE m == [k \in 0..0 |-> <<>>]
  <2>1. MergingUpTo(m, parts, 0)
    BY DEF MergingUpTo
  <2> QED
    BY <2>1
<1>4. n \in Nat /\ n - 1 \in Nat /\ n - 1 \notin bad
  BY <1>2, <1>3
<1>5. PICK m : MergingUpTo(m, parts, n - 1)
  BY <1>4
<1> DEFINE longer == [k \in 0..n |-> IF k = n THEN WithNew(m[n - 1], parts[n]) ELSE m[k]]
<1>6. ASSUME NEW k \in 0..n
      PROVE  longer[k] = IF k = 0 THEN <<>> ELSE WithNew(longer[k - 1], parts[k])
  <2>1. CASE k = n
    BY <1>3, <1>4, <2>1
  <2>2. CASE k # n
    <3>1. k \in 0..(n - 1) /\ k \in Nat
      BY <1>4, <2>2
    <3>2. m[k] = IF k = 0 THEN <<>> ELSE WithNew(m[k - 1], parts[k])
      BY <1>5, <3>1 DEF MergingUpTo
    <3>3. k # 0 => k - 1 \in 0..n /\ k - 1 # n
      BY <1>4, <3>1
    <3> QED
      BY <2>2, <3>2, <3>3
  <2> QED
    BY <2>1, <2>2
<1>7. MergingUpTo(longer, parts, n)
  BY <1>6 DEF MergingUpTo
<1> QED
  BY <1>2, <1>7

(* Merged(parts) is where the loop ends that starts with nothing and takes
   part after part. *)
LEMMA MergedSteps ==
  ASSUME NEW parts, Len(parts) \in Nat
  PROVE  \E m : /\ m[0] = <<>>
                /\ \A n \in 1..Len(parts) : m[n] = WithNew(m[n - 1], parts[n])
                /\ Merged(parts) = m[Len(parts)]
<1> DEFINE m == CHOOSE m : MergingUpTo(m, parts, Len(parts))
<1>1. MergingUpTo(m, parts, Len(parts))
  BY MergingExists
<1>2. Merged(parts) = m[Len(parts)]
  BY DEF Merged, MergingUpTo
<1> HIDE DEF m
<1>3. m[0] = <<>> /\ \A n \in 1..Len(parts) : m[n] = WithNew(m[n - 1], parts[n])
  <2>1. ASSUME NEW n \in 0..Len(parts)
        PROVE  m[n] = IF n = 0 THEN <<>> ELSE WithNew(m[n - 1], parts[n])
    BY <1>1 DEF MergingUpTo
  <2> QED
    BY <2>1
<1> QED
  BY <1>2, <1>3

(* What is merged has a type, and nothing is in it twice. *)
LEMMA MergedProperties ==
  ASSUME NEW T, NEW parts \in Seq(Seq(T))
  PROVE  Merged(parts) \in Seq(T) /\ Distinct(Merged(parts))
<1> DEFINE l == Len(parts)
<1>1. l \in Nat /\ \A n \in 1..l : parts[n] \in Seq(T)
  BY LenProperties, ElementOfSeq
<1>2. PICK m : /\ m[0] = <<>>
               /\ \A n \in 1..l : m[n] = WithNew(m[n - 1], parts[n])
               /\ Merged(parts) = m[l]
  BY <1>1, MergedSteps
<1> DEFINE good(n) == m[n] \in Seq(T) /\ Distinct(m[n])
           bad == {n \in 0..l : ~good(n)}
<1>3. SUFFICES ASSUME bad # {} PROVE FALSE
  BY <1>1, <1>2
<1>4. PICK n \in bad : \A k \in bad : n <= k
  <2>1. bad \in SUBSET Nat
    BY <1>1
  <2> HIDE DEF bad
  <2> QED
    BY <1>3, <2>1, Least
<1>5. n # 0
  <2>1. <<>> \in Seq(T) /\ DOMAIN <<>> = 1..0
    BY EmptySeq, LenProperties
  <2>2. Distinct(<<>>)
    BY <2>1 DEF Distinct
  <2>3. good(0)
    BY <1>2, <2>1, <2>2
  <2> QED
    BY <1>4, <2>3
<1>6. n \in 1..l /\ n - 1 \in 0..l /\ n - 1 \notin bad
  BY <1>1, <1>4, <1>5
<1>7. good(n - 1)
  BY <1>6
<1>8. m[n] = WithNew(m[n - 1], parts[n]) /\ parts[n] \in Seq(T)
  BY <1>1, <1>2, <1>6
<1>9. good(n)
  BY <1>7, <1>8, WithNewPlaces, WithNewDistinct
<1> QED
  BY <1>4, <1>9

-----------------------------------------------------------------------------
(* Every variable has its type. *)

SpanType == [input : Seq(Messages), output : Seq(Messages), tool : Nat, pending : Nat]

Attachments(n) ==
    [state : Seq(Messages), tools : Seq(1..n), pending : {NoAction} \cup 1..n,
     trace : {"none", "no_prior", "loaded", "partial", "unavailable"}]

SpansOK ==
    /\ spans \in Seq(SpanType)
    /\ \A i \in DOMAIN spans :
          spans[i].tool \in {NoTool, i} /\ spans[i].pending \in {NoAction, i, Malformed}

(* The backend's answer, sorted, is the visible spans in ascending order,
   whatever the order in which they arrived. *)
LEMMA SortedArrival ==
  ASSUME NEW n \in Nat, visible \subseteq 1..n, NEW arrival \in SetToSeqs(visible)
  PROVE  /\ visible \in SUBSET Nat /\ IsFiniteSet(visible)
         /\ Sorted(arrival) = Ascending(visible)
         /\ Sorted(arrival) \in Seq(1..n)
<1> DEFINE c == Cardinality(visible)
<1>1. IsFiniteSet(visible) /\ visible \in SUBSET Nat
  <2>1. IsFiniteSet(1..n) /\ visible \in SUBSET (1..n)
    BY FS_Interval
  <2>2. IsFiniteSet(visible)
    BY <2>1, FS_Subset
  <2> QED
    BY <2>1, <2>2
<1>2. c \in Nat /\ IsFiniteSet(1..c) /\ Cardinality(1..c) = c
  BY <1>1, FS_CardinalityType, FS_Interval
<1>3. arrival \in Injection(1..c, visible)
  BY DEF SetToSeqs, Injection, IsInjective
<1>4. arrival \in Surjection(1..c, visible)
  BY <1>1, <1>2, <1>3, FS_Injection
<1>5. ToSet(arrival) = visible
  BY <1>4 DEF ToSet, Surjection
<1>6. Sorted(arrival) = Ascending(visible)
  BY <1>5 DEF Sorted
<1>7. Ascending(visible) \in [1..c -> 1..n]
  <2>1. Ascending(visible) \in [1..c -> visible]
    BY <1>1, AscendingProperties
  <2> QED
    BY <2>1
<1>8. Ascending(visible) \in Seq(1..n)
  BY <1>2, <1>7, SeqDef
<1> QED
  BY <1>1, <1>6, <1>8

(* What is reconstructed from spans in any order has its type, without
   repetition; its tools are tool calls. *)
LEMMA RehydrateTypes ==
  ASSUME SpansOK, NEW ss \in Seq(DOMAIN spans)
  PROVE  /\ Rehydrate(ss) \in Attachments(Len(spans))
         /\ \A i \in ToSet(Rehydrate(ss).tools) : spans[i].tool = i
         /\ Distinct(Rehydrate(ss).state)
<1> DEFINE n == Len(spans)
           parts == [j \in DOMAIN ss |-> spans[ss[j]].input \o spans[ss[j]].output]
<1>1. n \in Nat /\ DOMAIN spans = 1..n /\ \A i \in 1..n : spans[i] \in SpanType
  BY LenProperties, ElementOfSeq DEF SpansOK
<1>2. Len(ss) \in Nat /\ DOMAIN ss = 1..Len(ss) /\ \A j \in DOMAIN ss : ss[j] \in 1..n
  BY <1>1, LenProperties, ElementOfSeq
<1>3. ASSUME NEW j \in DOMAIN ss
      PROVE  spans[ss[j]].input \o spans[ss[j]].output \in Seq(Messages)
  <2>1. spans[ss[j]] \in SpanType
    BY <1>1, <1>2
  <2> QED
    BY <2>1, ConcatProperties DEF SpanType
<1>4. parts \in Seq(Seq(Messages))
  <2>1. parts \in [1..Len(ss) -> Seq(Messages)]
    BY <1>2, <1>3
  <2> QED
    BY <1>2, <2>1, SeqDef
<1>5. Said(ss) \in Seq(Messages) /\ Distinct(Said(ss))
  BY <1>4, MergedProperties DEF Said
<1> DEFINE calls == {j \in DOMAIN ss : spans[ss[j]].tool # NoTool}
<1>6. ToolHistory(ss) \in Seq(1..n) /\ \A i \in ToSet(ToolHistory(ss)) : spans[i].tool = i
  <2>1. ss \in Seq(1..n) /\ calls \in SUBSET DOMAIN ss /\ ToolHistory(ss) = At(ss, calls)
    BY <1>1 DEF ToolHistory
  <2>2. ToolHistory(ss) \in Seq(1..n) /\ Len(ToolHistory(ss)) = Cardinality(calls)
    BY <2>1, AtProperties
  <2>3. ASSUME NEW k \in DOMAIN ToolHistory(ss)
        PROVE  spans[ToolHistory(ss)[k]].tool = ToolHistory(ss)[k]
    <3>1. k \in 1..Cardinality(calls)
      BY <2>2, LenProperties
    <3>2. Ascending(calls)[k] \in calls /\ ToolHistory(ss)[k] = ss[Ascending(calls)[k]]
      BY <2>1, <3>1, AtProperties
    <3>3. ToolHistory(ss)[k] \in 1..n /\ spans[ToolHistory(ss)[k]].tool # NoTool
      BY <1>2, <3>2
    <3> QED
      BY <1>1, <3>3 DEF SpansOK
  <2> QED
    BY <2>2, <2>3 DEF ToSet
<1>7. Pending(ss) \in {NoAction} \cup 1..n
  <2>1. CASE Asking(ss) = {}
    BY <2>1 DEF Pending
  <2>2. CASE Asking(ss) # {}
    <3>1. Asking(ss) \in SUBSET (1..Len(ss)) /\ Asking(ss) \in SUBSET Nat
      BY <1>2 DEF Asking
    <3>2. Max(Asking(ss)) \in Asking(ss)
      BY <1>2, <2>2, <3>1, Greatest
    <3>3. ss[Max(Asking(ss))] \in 1..n
      BY <1>2, <3>1, <3>2
    <3> QED
      BY <1>1, <2>2, <3>3 DEF Pending, SpansOK
  <2> QED
    BY <2>1, <2>2
<1> QED
  BY <1>5, <1>6, <1>7 DEF Rehydrate, Attachments

(* TypeOK, with the number of spans in the place of their places. *)
Typed ==
    /\ told \in Seq(Messages)
    /\ SpansOK
    /\ Len(spans) <= MaxSpans
    /\ visible \subseteq 1..Len(spans)
    /\ waiting \in {NoAction} \cup 1..Len(spans)
    /\ live \in BOOLEAN
    /\ conv \in Seq(Messages)
    /\ attached \in Attachments(Len(spans))
    /\ \A i \in ToSet(attached.tools) : spans[i].tool = i

(* It says the same. *)
LEMMA TypedIsTypeOK == Typed <=> TypeOK
<1>1. ASSUME spans \in Seq(SpanType) PROVE DOMAIN spans = 1..Len(spans)
  BY <1>1, LenProperties
<1> QED
  BY <1>1 DEF Typed, TypeOK, SpansOK, SpanType, Attachments

(* Outside an attach nothing is rehydrated; nor is when the backend fails. *)
LEMMA NothingRehydrated ==
  ASSUME NEW n, NEW trace \in {"none", "partial", "unavailable"}
  PROVE  LET a == [Unattached EXCEPT !.trace = trace]
         IN  a \in Attachments(n) /\ ToSet(a.tools) = {} /\ Distinct(a.state)
<1> DEFINE a == [Unattached EXCEPT !.trace = trace]
<1>1. <<>> \in Seq(Messages) /\ <<>> \in Seq(1..n) /\ DOMAIN <<>> = {}
  BY EmptySeq
<1>2. a = [state |-> <<>>, tools |-> <<>>, pending |-> NoAction, trace |-> trace]
  BY DEF Unattached
<1>3. a \in Attachments(n)
  BY <1>1, <1>2 DEF Attachments
<1>4. ToSet(<<>>) = {} /\ Distinct(<<>>)
  BY <1>1 DEF ToSet, Distinct
<1> QED
  BY <1>2, <1>3, <1>4

(* Nothing is said yet. *)
LEMMA InitTyped == Init => Typed
<1> SUFFICES ASSUME Init PROVE Typed
  OBVIOUS
<1>1. /\ <<>> \in Seq(Messages) /\ <<>> \in Seq(SpanType)
      /\ Len(<<>>) = 0 /\ DOMAIN <<>> = {}
  BY EmptySeq
<1>2. [Unattached EXCEPT !.trace = "none"] = Unattached
  BY DEF Unattached
<1>3. attached \in Attachments(0) /\ ToSet(attached.tools) = {}
  BY <1>2, NothingRehydrated DEF Init
<1>4. SpansOK
  BY <1>1 DEF Init, SpansOK
<1>5. Len(spans) <= MaxSpans /\ Len(spans) = 0
  BY <1>1, TranscriptAssumption DEF Init
<1> QED
  BY <1>1, <1>3, <1>4, <1>5 DEF Init, Typed

(* What the next attach is composed of are messages. *)
LEMMA ComposeTypes ==
  ASSUME NEW a, a.state \in Seq(Messages), NEW reset
  PROVE  Compose(a, reset) \in Seq(Messages)
<1>1. ASSUME NEW c \in {"system_prompt", "workspace_reset", "partial_history", "continuation"}
      PROVE  System(c) \in Seq(Messages)
  <2>1. Message("system", c) \in Messages
    BY DEF Message, Messages, Contents
  <2> QED
    BY <2>1 DEF System
<1>2. ASSUME NEW c, NEW ms \in Seq(Messages) PROVE If(c, ms) \in Seq(Messages)
  BY EmptySeq DEF If
<1>3. Notices(a, reset) \in Seq(Messages)
  BY <1>1, <1>2, ConcatProperties DEF Notices
<1> QED
  BY <1>1, <1>3, ConcatProperties DEF Compose

(* However an attach finds the backend, it has its types. *)
LEMMA AttachTyped == Typed /\ Attach => Typed'
<1> SUFFICES ASSUME Typed, Attach PROVE Typed'
  OBVIOUS
<1> DEFINE n == Len(spans)
<1>1. n \in Nat /\ DOMAIN spans = 1..n
  BY LenProperties DEF Typed, SpansOK
<1>2. attached' \in Attachments(n) /\ \A i \in ToSet(attached'.tools) : spans[i].tool = i
  <2>1. ASSUME NEW arrival \in SetToSeqs(visible), attached' = Rehydrate(Sorted(arrival))
        PROVE  /\ attached' \in Attachments(n)
               /\ \A i \in ToSet(attached'.tools) : spans[i].tool = i
    <3>1. Sorted(arrival) \in Seq(DOMAIN spans)
      BY <1>1, SortedArrival DEF Typed
    <3> QED
      BY <2>1, <3>1, RehydrateTypes DEF Typed
  <2>2. ASSUME NEW trace \in {"unavailable", "partial"},
               attached' = [Unattached EXCEPT !.trace = trace]
        PROVE  /\ attached' \in Attachments(n)
               /\ \A i \in ToSet(attached'.tools) : spans[i].tool = i
    BY <2>2, NothingRehydrated
  <2> QED
    BY <2>1, <2>2 DEF Attach
<1>3. conv' \in Seq(Messages)
  BY <1>2, ComposeTypes DEF Attach, Attachments
<1> QED
  BY <1>2, <1>3 DEF Attach, Typed, SpansOK

(* A call of the LLM adds one span, and waits for its number or not at all. *)
LEMMA CallAppends ==
  ASSUME NEW prompt \in Seq(Messages), NEW reply \in Replies, NEW gate \in Gates,
         NEW emitted \in Seq(SpanType), Call(prompt, reply, emitted, gate)
  PROVE  LET e == Len(emitted)
             span == spans'[e + 1]
         IN  /\ e \in Nat /\ e < MaxSpans /\ DOMAIN emitted = 1..e
             /\ spans' \in Seq(SpanType) /\ Len(spans') = e + 1
             /\ DOMAIN spans' = 1..(e + 1)
             /\ \A i \in 1..e : spans'[i] = emitted[i]
             /\ span.input = prompt /\ span.output = <<Assistant(reply)>>
             /\ span.tool = NoTool /\ span.pending \in {NoAction, e + 1, Malformed}
             /\ waiting' \in {NoAction, e + 1}
             /\ conv' = Append(prompt, Assistant(reply)) /\ conv' \in Seq(Messages)
<1> DEFINE e == Len(emitted)
           pending == IF gate = "none" THEN NoAction
                      ELSE IF gate = "traced" THEN e + 1 ELSE Malformed
           span == Span(prompt, <<Assistant(reply)>>, NoTool, pending)
<1>1. e \in Nat /\ DOMAIN emitted = 1..e
  BY LenProperties
<1>2. Assistant(reply) \in Messages
  BY DEF Assistant, Message, Messages, Contents
<1>3. /\ span.input = prompt /\ span.output = <<Assistant(reply)>>
      /\ span.tool = NoTool /\ span.pending \in {NoAction, e + 1, Malformed}
      /\ span \in SpanType
  BY <1>1, <1>2, TranscriptAssumption DEF Span, SpanType, NoTool, NoAction, Malformed
<1>4. spans' = Append(emitted, span) /\ waiting' \in {NoAction, e + 1}
      /\ conv' = Append(prompt, Assistant(reply)) /\ e < MaxSpans
  BY DEF Call
<1> HIDE DEF span
<1>5. /\ spans' \in Seq(SpanType) /\ Len(spans') = e + 1 /\ DOMAIN spans' = 1..(e + 1)
      /\ \A i \in 1..e : spans'[i] = emitted[i]
      /\ spans'[e + 1] = span
  BY <1>1, <1>3, <1>4, AppendProperties, LenProperties
<1>6. conv' \in Seq(Messages)
  BY <1>2, <1>4, AppendProperties
<1> QED
  BY <1>1, <1>3, <1>4, <1>5, <1>6

(* So it keeps the types. *)
LEMMA CallTyped ==
  ASSUME Typed, NEW prompt \in Seq(Messages), NEW reply \in Replies,
         NEW gate \in Gates, NEW emitted \in Seq(SpanType),
         Len(spans) <= Len(emitted),
         \A i \in DOMAIN spans : emitted[i] = spans[i],
         \A i \in DOMAIN emitted :
            emitted[i].tool \in {NoTool, i} /\ emitted[i].pending \in {NoAction, i, Malformed},
         Call(prompt, reply, emitted, gate), told' \in Seq(Messages),
         visible' = visible, live' = live, attached' = attached
  PROVE  Typed'
<1> DEFINE n == Len(spans)
           e == Len(emitted)
           span == spans'[e + 1]
<1>1. n \in Nat /\ DOMAIN spans = 1..n /\ e \in Nat /\ DOMAIN emitted = 1..e
  BY LenProperties DEF Typed, SpansOK
<1>2. waiting' \in {NoAction, e + 1} /\ conv' \in Seq(Messages) /\ e < MaxSpans
  BY CallAppends
<1>3. /\ spans' \in Seq(SpanType) /\ Len(spans') = e + 1 /\ DOMAIN spans' = 1..(e + 1)
      /\ \A i \in 1..e : spans'[i] = emitted[i]
  BY CallAppends
<1>4. span.tool = NoTool /\ span.pending \in {NoAction, e + 1, Malformed}
  BY CallAppends
<1> HIDE DEF span
<1>5. SpansOK'
  <2>1. ASSUME NEW i \in 1..(e + 1)
        PROVE  spans'[i].tool \in {NoTool, i} /\ spans'[i].pending \in {NoAction, i, Malformed}
    <3>1. CASE i = e + 1
      BY <1>4, <3>1 DEF span
    <3>2. CASE i # e + 1
      <4>1. i \in 1..e
        BY <1>1, <3>2
      <4>2. spans'[i] = emitted[i]
        BY <1>3, <4>1
      <4> QED
        BY <1>1, <4>1, <4>2
    <3> QED
      BY <3>1, <3>2
  <2> QED
    BY <1>3, <2>1 DEF SpansOK
<1>6. attached \in Attachments(e + 1)
  <2>1. 1..n \subseteq 1..(e + 1)
    BY <1>1
  <2>2. attached.tools \in Seq(1..(e + 1))
    BY <2>1, SeqMonotonic DEF Typed, Attachments
  <2> QED
    BY <2>1, <2>2 DEF Typed, Attachments
<1>7. \A i \in ToSet(attached.tools) : spans'[i].tool = i
  <2>1. ASSUME NEW i \in ToSet(attached.tools) PROVE i \in 1..n
    BY ElementOfSeq, LenProperties DEF Typed, Attachments, ToSet
  <2>2. ASSUME NEW i \in 1..n PROVE spans'[i] = spans[i]
    BY <1>1, <1>3
  <2> QED
    BY <2>1, <2>2 DEF Typed
<1>8. Len(spans') <= MaxSpans
  BY <1>1, <1>2, <1>3, TranscriptAssumption
<1>9. visible' \subseteq 1..(e + 1) /\ waiting' \in {NoAction} \cup 1..(e + 1)
  BY <1>1, <1>2, <1>4 DEF Typed
<1> QED
  BY <1>2, <1>3, <1>5, <1>6, <1>7, <1>8, <1>9 DEF Typed

(* Turns, approvals and rejections are calls; the rest adds no span. *)
LEMMA NextTyped == Typed /\ [Next]_vars => Typed'
<1> SUFFICES ASSUME Typed, [Next]_vars PROVE Typed'
  OBVIOUS
<1> DEFINE n == Len(spans)
<1>1. n \in Nat /\ DOMAIN spans = 1..n /\ spans \in Seq(SpanType)
  BY LenProperties DEF Typed, SpansOK
<1>2. /\ \A text \in Texts : User(text) \in Messages
      /\ \A reply \in Replies : Assistant(reply) \in Messages
      /\ \A result \in Replies : Message("tool", result) \in Messages
  BY DEF User, Assistant, Message, Messages, Contents
<1>3. ASSUME NEW text \in Texts, NEW reply \in Replies, NEW gate \in Gates,
             RunTurn(text, reply, gate)
      PROVE  Typed'
  <2>1. Append(conv, User(text)) \in Seq(Messages)
    BY <1>2, AppendProperties DEF Typed
  <2>2. <<User(text), Assistant(reply)>> \in Seq(Messages)
    BY <1>2
  <2>3. told' \in Seq(Messages)
    BY <1>3, <2>2, ConcatProperties DEF Typed, RunTurn
  <2>4. visible' = visible /\ live' = live /\ attached' = attached
    BY <1>3 DEF RunTurn
  <2>5. Call(Append(conv, User(text)), reply, spans, gate)
    BY <1>3 DEF RunTurn
  <2>6. \A i \in DOMAIN spans :
           spans[i].tool \in {NoTool, i} /\ spans[i].pending \in {NoAction, i, Malformed}
    BY DEF Typed, SpansOK
  <2>7. Len(spans) <= Len(spans) /\ \A i \in DOMAIN spans : spans[i] = spans[i]
    BY <1>1
  <2> QED
    BY <1>1, <2>1, <2>3, <2>4, <2>5, <2>6, <2>7, CallTyped
<1>4. ASSUME NEW reply \in Replies, NEW result \in Replies, NEW gate \in Gates,
             Approve(result, reply, gate)
      PROVE  Typed'
  <2> DEFINE tool == Span(<<>>, <<>>, n + 1, NoAction)
             emitted == Append(spans, tool)
  <2>1. Append(conv, Message("tool", result)) \in Seq(Messages)
    BY <1>2, AppendProperties DEF Typed
  <2>2. <<Message("tool", result), Assistant(reply)>> \in Seq(Messages)
    BY <1>2
  <2>3. told' \in Seq(Messages)
    BY <1>4, <2>2, ConcatProperties DEF Typed, Approve
  <2>4. tool \in SpanType /\ tool.tool = n + 1 /\ tool.pending = NoAction
    BY <1>1, EmptySeq DEF Span, SpanType, NoAction
  <2>5. Call(Append(conv, Message("tool", result)), reply, emitted, gate)
    BY <1>4 DEF Approve
  <2> HIDE DEF tool
  <2>6. /\ emitted \in Seq(SpanType) /\ Len(emitted) = n + 1 /\ DOMAIN emitted = 1..(n + 1)
        /\ \A i \in 1..n : emitted[i] = spans[i]
        /\ emitted[n + 1] = tool
    BY <1>1, <2>4, AppendProperties, LenProperties
  <2>7. ASSUME NEW i \in 1..(n + 1)
        PROVE  emitted[i].tool \in {NoTool, i} /\ emitted[i].pending \in {NoAction, i, Malformed}
    BY <1>1, <2>4, <2>6, <2>7 DEF Typed, SpansOK
  <2> HIDE DEF emitted
  <2>8. visible' = visible /\ live' = live /\ attached' = attached
    BY <1>4 DEF Approve
  <2>9. /\ emitted \in Seq(SpanType) /\ Len(spans) <= Len(emitted)
        /\ \A i \in DOMAIN spans : emitted[i] = spans[i]
        /\ \A i \in DOMAIN emitted :
              emitted[i].tool \in {NoTool, i} /\ emitted[i].pending \in {NoAction, i, Malformed}
    BY <1>1, <2>6, <2>7
  <2> QED
    BY <2>1, <2>3, <2>5, <2>8, <2>9, CallTyped
<1>5. ASSUME NEW reply \in Replies, NEW gate \in Gates, Reject(reply, gate)
      PROVE  Typed'
  <2>1. told' \in Seq(Messages)
    BY <1>2, <1>5, AppendProperties DEF Typed, Reject
  <2>2. visible' = visible /\ live' = live /\ attached' = attached
    BY <1>5 DEF Reject
  <2>3. Call(conv, reply, spans, gate)
    BY <1>5 DEF Reject
  <2>4. conv \in Seq(Messages)
    BY DEF Typed
  <2>5. Len(spans) <= Len(spans) /\ \A i \in DOMAIN spans : spans[i] = spans[i]
    BY <1>1
  <2>6. \A i \in DOMAIN spans :
           spans[i].tool \in {NoTool, i} /\ spans[i].pending \in {NoAction, i, Malformed}
    BY DEF Typed, SpansOK
  <2> QED
    BY <1>1, <2>1, <2>2, <2>3, <2>4, <2>5, <2>6, CallTyped
<1>6. CASE Detach
  <2>1. [Unattached EXCEPT !.trace = "none"] = Unattached
    BY DEF Unattached
  <2>2. attached' \in Attachments(n) /\ ToSet(attached'.tools) = {}
    BY <1>6, <2>1, NothingRehydrated DEF Detach
  <2>3. conv' \in Seq(Messages)
    BY <1>6, EmptySeq DEF Detach
  <2> QED
    BY <1>6, <2>2, <2>3 DEF Detach, Typed, SpansOK
<1>7. ASSUME NEW i \in DOMAIN spans, Index(i) PROVE Typed'
  BY <1>1, <1>7 DEF Index, Typed, SpansOK
<1>8. CASE UNCHANGED vars
  BY <1>8 DEF vars, Typed, SpansOK
<1> QED
  BY <1>3, <1>4, <1>5, <1>6, <1>7, <1>8, AttachTyped DEF Next

(* Every variable of a transcript always has its type: what is reconstructed
   are messages, the tools are those of tool spans, the pending action is a
   span's own. *)
THEOREM TypeCorrect == Spec => []TypeOK
<1>1. Spec => []Typed
  BY InitTyped, NextTyped, PTL DEF Spec
<1> QED
  BY <1>1, TypedIsTypeOK, PTL

-----------------------------------------------------------------------------
(* The action that waits is the last span's. *)

WaitsForLast ==
    waiting # NoAction => waiting = Len(spans)

(* Each step that changes the spans, or what waits, is a call of the LLM. *)
LEMMA SpansChangeByCalls ==
  ASSUME Typed, [Next]_vars
  PROVE  \/ UNCHANGED <<spans, waiting>>
         \/ \E prompt \in Seq(Messages), reply \in Replies, gate \in Gates,
               emitted \in Seq(SpanType) : Call(prompt, reply, emitted, gate)
<1>1. spans \in Seq(SpanType) /\ conv \in Seq(Messages) /\ Len(spans) \in Nat
  BY LenProperties DEF Typed, SpansOK
<1>2. ASSUME NEW text \in Texts, NEW reply \in Replies, NEW gate \in Gates,
             RunTurn(text, reply, gate)
      PROVE  Append(conv, User(text)) \in Seq(Messages)
             /\ Call(Append(conv, User(text)), reply, spans, gate)
  <2>1. User(text) \in Messages
    BY DEF User, Message, Messages, Contents
  <2> QED
    BY <1>1, <1>2, <2>1, AppendProperties DEF RunTurn
<1>3. ASSUME NEW reply \in Replies, NEW result \in Replies, NEW gate \in Gates,
             Approve(result, reply, gate)
      PROVE  \E prompt \in Seq(Messages), emitted \in Seq(SpanType) :
                Call(prompt, reply, emitted, gate)
  <2> DEFINE prompt == Append(conv, Message("tool", result))
             tool == Span(<<>>, <<>>, Len(spans) + 1, NoAction)
  <2>1. Message("tool", result) \in Messages
    BY DEF Message, Messages, Contents
  <2>2. prompt \in Seq(Messages)
    BY <1>1, <2>1, AppendProperties
  <2>3. tool \in SpanType
    BY <1>1, EmptySeq DEF Span, SpanType, NoAction
  <2>4. Append(spans, tool) \in Seq(SpanType)
    BY <1>1, <2>3, AppendProperties
  <2>5. Call(prompt, reply, Append(spans, tool), gate)
    BY <1>3 DEF Approve
  <2> QED
    BY <2>2, <2>4, <2>5
<1>4. ASSUME NEW reply \in Replies, NEW gate \in Gates, Reject(reply, gate)
      PROVE  Call(conv, reply, spans, gate)
  BY <1>4 DEF Reject
<1>5. CASE Attach \/ Detach \/ (\E i \in DOMAIN spans : Index(i)) \/ UNCHANGED vars
  BY <1>5 DEF Attach, Detach, Index, vars
<1> QED
  BY <1>1, <1>2, <1>3, <1>4, <1>5 DEF Next

(* An action never waits behind a later span: while it waits no other turn
   runs, and approving or rejecting it is the next call. *)
LEMMA NextWaitsForLast == Typed /\ WaitsForLast /\ [Next]_vars => WaitsForLast'
<1> SUFFICES ASSUME Typed, WaitsForLast, [Next]_vars PROVE WaitsForLast'
  OBVIOUS
<1>1. ASSUME NEW prompt \in Seq(Messages), NEW reply \in Replies, NEW gate \in Gates,
             NEW emitted \in Seq(SpanType), Call(prompt, reply, emitted, gate)
      PROVE  WaitsForLast'
  <2>1. /\ Len(spans') = Len(emitted) + 1
        /\ waiting' \in {NoAction, Len(emitted) + 1}
    BY <1>1, CallAppends
  <2> QED
    BY <2>1 DEF WaitsForLast
<1>2. CASE UNCHANGED <<spans, waiting>>
  BY <1>2 DEF WaitsForLast
<1> QED
  BY <1>1, <1>2, SpansChangeByCalls

(* All spans, sorted, are 1..n in order. *)
LEMMA AscendingAll ==
  ASSUME NEW n \in Nat
  PROVE  Ascending(1..n) = [k \in 1..n |-> k]
<1>1. IsFiniteSet(1..n) /\ Cardinality(1..n) = n /\ 1..n \in SUBSET Nat
  BY FS_Interval
<1>2. ASSUME NEW k \in 1..n PROVE Ascending(1..n)[k] = k
  <2>1. {y \in 1..n : y <= k} = 1..k
    OBVIOUS
  <2>2. Cardinality(1..k) = k
    BY FS_Interval
  <2>3. Rank(1..n, k) = k
    BY <2>1, <2>2 DEF Rank
  <2> QED
    BY <1>1, <2>3, AscendingProperties
<1>3. Ascending(1..n) \in [1..n -> 1..n]
  BY <1>1, AscendingProperties
<1> QED
  BY <1>2, <1>3

(* An action that waits for approval, and is traced well, is rehydrated by
   every attach that sees all spans, whatever became of earlier ones, and in
   whatever order the spans arrive. *)
THEOREM PendingNotMissedAlways == Spec => PendingNotMissed
<1>1. ASSUME Typed, WaitsForLast, Attach, visible = DOMAIN spans,
             attached'.trace = "loaded", waiting # NoAction, spans[waiting].pending = waiting
      PROVE  attached'.pending = waiting
  <2> DEFINE n == Len(spans)
             ss == [k \in 1..n |-> k]
  <2>1. /\ n \in Nat /\ visible = 1..n /\ waiting = n /\ n # 0 /\ spans[n].pending = n
        /\ n # Malformed
    BY <1>1, LenProperties, TranscriptAssumption
       DEF Typed, SpansOK, WaitsForLast, NoAction, Malformed
  <2>2. PICK arrival \in SetToSeqs(visible) : attached' = Rehydrate(Sorted(arrival))
    BY <1>1 DEF Attach, Unattached
  <2>3. attached'.pending = Pending(ss)
    BY <2>1, <2>2, SortedArrival, AscendingAll DEF Rehydrate
  <2>4. n \in Asking(ss) /\ Asking(ss) \in SUBSET (1..n)
    BY <2>1 DEF Asking, NoAction
  <2>5. Max(Asking(ss)) = n
    <3>1. Max(Asking(ss)) \in 1..n /\ n <= Max(Asking(ss))
      BY <2>1, <2>4, Greatest
    <3> QED
      BY <2>1, <3>1
  <2>6. Pending(ss) = spans[ss[n]].pending
    BY <2>1, <2>4, <2>5 DEF Pending
  <2> QED
    BY <2>1, <2>3, <2>6
<1>2. Init => WaitsForLast
  BY DEF Init, WaitsForLast
<1>3. Typed /\ WaitsForLast /\ [Next]_vars =>
        [/\ Attach /\ visible = DOMAIN spans /\ attached'.trace = "loaded"
         /\ waiting # NoAction /\ spans[waiting].pending = waiting
         => attached'.pending = waiting]_vars
  BY <1>1
<1> QED
  BY <1>2, <1>3, InitTyped, NextTyped, NextWaitsForLast, PTL DEF Spec, PendingNotMissed

-----------------------------------------------------------------------------
(* The head of a conversation. *)

SystemMessages(ms, contents) ==
    /\ ms \in Seq(Messages)
    /\ Distinct(ms)
    /\ \A i \in DOMAIN ms : ms[i].role = "system" /\ ms[i].content \in contents

(* A notice is one system message or none. *)
LEMMA NoticeProperties ==
  ASSUME NEW c \in Contents, NEW condition
  PROVE  SystemMessages(If(condition, System(c)), {c})
<1>1. System(c) \in Seq(Messages) /\ DOMAIN System(c) = 1..1
      /\ System(c)[1].role = "system" /\ System(c)[1].content = c
  <2>1. Message("system", c) \in Messages
    BY DEF Message, Messages
  <2> QED
    BY <2>1 DEF System, Message
<1>2. SystemMessages(System(c), {c})
  BY <1>1 DEF SystemMessages, Distinct
<1>3. <<>> \in Seq(Messages) /\ DOMAIN <<>> = {}
  BY EmptySeq
<1>4. SystemMessages(<<>>, {c})
  BY <1>3 DEF SystemMessages, Distinct
<1> QED
  BY <1>2, <1>4 DEF If

(* Nothing is twice in two sequences that have nothing twice, and nothing in
   common. *)
LEMMA DistinctConcat ==
  ASSUME NEW T, NEW xs \in Seq(T), NEW ys \in Seq(T), Distinct(xs), Distinct(ys),
         \A i \in DOMAIN xs, j \in DOMAIN ys : xs[i] # ys[j]
  PROVE  Distinct(xs \o ys)
<1> DEFINE m == Len(xs)
           n == Len(ys)
           all == xs \o ys
<1>1. /\ m \in Nat /\ n \in Nat /\ DOMAIN xs = 1..m /\ DOMAIN ys = 1..n
      /\ DOMAIN all = 1..(m + n)
      /\ \A i \in 1..m : all[i] = xs[i]
      /\ \A i \in DOMAIN all : i \in 1..m \/ (i - m \in 1..n /\ all[i] = ys[i - m])
  BY ConcatPlaces
<1> HIDE DEF all, m, n
<1>2. ASSUME NEW i \in DOMAIN all, NEW j \in DOMAIN all, all[i] = all[j] PROVE i = j
  <2>1. CASE i \in 1..m /\ j \in 1..m
    BY <1>1, <1>2, <2>1 DEF Distinct
  <2>2. CASE i \notin 1..m /\ j \notin 1..m
    <3>1. i - m = j - m
      BY <1>1, <1>2, <2>2 DEF Distinct
    <3> QED
      BY <1>1, <3>1
  <2>3. CASE (i \in 1..m) # (j \in 1..m)
    BY <1>1, <1>2, <2>3
  <2> QED
    BY <2>1, <2>2, <2>3
<1> QED
  BY <1>2 DEF all, Distinct

(* Notices with different contents stay one of a kind. *)
LEMMA NoticesConcat ==
  ASSUME NEW xs, NEW ys, NEW C, NEW D, C \cap D = {},
         SystemMessages(xs, C), SystemMessages(ys, D)
  PROVE  SystemMessages(xs \o ys, C \cup D)
<1> DEFINE m == Len(xs)
           n == Len(ys)
           all == xs \o ys
<1>1. /\ all \in Seq(Messages) /\ DOMAIN xs = 1..m /\ DOMAIN ys = 1..n
      /\ \A i \in 1..m : all[i] = xs[i]
      /\ \A i \in DOMAIN all : i \in 1..m \/ (i - m \in 1..n /\ all[i] = ys[i - m])
  BY ConcatPlaces DEF SystemMessages
<1>2. Distinct(all)
  BY DistinctConcat DEF SystemMessages
<1> HIDE DEF all
<1>3. ASSUME NEW i \in DOMAIN all
      PROVE  all[i].role = "system" /\ all[i].content \in C \cup D
  BY <1>1 DEF SystemMessages
<1> QED
  BY <1>1, <1>2, <1>3 DEF SystemMessages, all

(* A conversation starts with system messages, each once, and goes on with
   what was rehydrated. *)
LEMMA ComposeHead ==
  ASSUME NEW a, a.state \in Seq(Messages), NEW reset
  PROVE  \E head : /\ SystemMessages(head, Contents)
                   /\ Compose(a, reset) = head \o a.state
<1> DEFINE n1 == If(reset, System("workspace_reset"))
           n2 == If(a.trace = "partial", System("partial_history"))
           n3 == If(a.state # <<>>, System("continuation"))
           n0 == System("system_prompt")
<1>1. /\ SystemMessages(n1, {"workspace_reset"})
      /\ SystemMessages(n2, {"partial_history"})
      /\ SystemMessages(n3, {"continuation"})
  BY NoticeProperties DEF Contents
<1>2. SystemMessages(n0, {"system_prompt"})
  <2>1. SystemMessages(If(TRUE, n0), {"system_prompt"})
    BY NoticeProperties DEF Contents
  <2> QED
    BY <2>1 DEF If
<1> HIDE DEF n0, n1, n2, n3
<1>3. SystemMessages(n1 \o n2, {"workspace_reset"} \cup {"partial_history"})
  BY <1>1, NoticesConcat
<1>4. SystemMessages((n1 \o n2) \o n3,
                     ({"workspace_reset"} \cup {"partial_history"}) \cup {"continuation"})
  BY <1>1, <1>3, NoticesConcat
<1>5. SystemMessages(n0 \o ((n1 \o n2) \o n3),
                     {"system_prompt"} \cup (({"workspace_reset"} \cup {"partial_history"})
                                               \cup {"continuation"}))
  BY <1>2, <1>4, NoticesConcat
<1> DEFINE head == n0 \o ((n1 \o n2) \o n3)
<1>6. SystemMessages(head, Contents)
  BY <1>5 DEF SystemMessages, Contents
<1>7. Compose(a, reset) = head \o a.state
  BY DEF Compose, Notices, n0, n1, n2, n3
<1> QED
  BY <1>6, <1>7

(* A set with at most one member. *)
LEMMA AtMostOne ==
  ASSUME NEW S, \A x, y \in S : x = y
  PROVE  IsFiniteSet(S) /\ Cardinality(S) \in {0, 1}
<1>1. CASE S = {}
  BY <1>1, FS_EmptySet
<1>2. ASSUME NEW x \in S PROVE IsFiniteSet(S) /\ Cardinality(S) = 1
  <2>1. S = {x}
    OBVIOUS
  <2> QED
    BY <2>1, FS_Singleton
<1> QED
  BY <1>1, <1>2

(* However often the prompt was traced and rehydrated into the next one, an
   attach starts with nothing said twice: the notices are new, and what they
   were followed by the last time is taken once. *)
THEOREM PromptDoesNotGrowAlways == Spec => PromptDoesNotGrow
<1> DEFINE Same(ms, i) == {j \in DOMAIN ms : ms[j] = ms[i]}
           Bound(ms, i) == IF ms[i].role = "system" THEN 2 ELSE 1
<1>1. ASSUME NEW head, SystemMessages(head, Contents),
             NEW state \in Seq(Messages), Distinct(state),
             NEW i \in DOMAIN (head \o state)
      PROVE  Cardinality(Same(head \o state, i)) <= Bound(head \o state, i)
  <2> DEFINE all == head \o state
             m == Len(head)
             n == Len(state)
             inHead == {j \in Same(all, i) : j \in 1..m}
             after == {j \in Same(all, i) : j \notin 1..m}
  <2>1. /\ m \in Nat /\ DOMAIN head = 1..m /\ DOMAIN state = 1..n
        /\ DOMAIN all = 1..(m + n) /\ n \in Nat
        /\ \A j \in 1..m : all[j] = head[j]
        /\ \A j \in DOMAIN all : j \in 1..m \/ (j - m \in 1..n /\ all[j] = state[j - m])
    BY <1>1, ConcatPlaces DEF SystemMessages
  <2> HIDE DEF all
  <2>2. IsFiniteSet(inHead) /\ Cardinality(inHead) \in {0, 1}
    <3>1. ASSUME NEW j \in inHead, NEW k \in inHead PROVE j = k
      BY <1>1, <2>1 DEF SystemMessages, Distinct
    <3> QED
      BY <3>1, AtMostOne
  <2>3. IsFiniteSet(after) /\ Cardinality(after) \in {0, 1}
    <3>1. ASSUME NEW j \in after, NEW k \in after PROVE j = k
      <4>1. j - m = k - m
        BY <1>1, <2>1 DEF Distinct
      <4>2. j \in 1..(m + n) /\ k \in 1..(m + n)
        BY <2>1
      <4> QED
        BY <2>1, <4>1, <4>2
    <3> QED
      BY <3>1, AtMostOne
  <2>4. Same(all, i) = inHead \cup after /\ inHead \cap after = {}
    OBVIOUS
  <2>5. Cardinality(Same(all, i)) = Cardinality(inHead) + Cardinality(after)
    <3>1. Cardinality(inHead \cup after)
            = Cardinality(inHead) + Cardinality(after) - Cardinality(inHead \cap after)
      BY <2>2, <2>3, FS_Union
    <3>2. Cardinality(inHead \cap after) = 0
      BY <2>4, FS_EmptySet
    <3>3. Cardinality(Same(all, i)) = Cardinality(inHead \cup after)
      BY <2>4
    <3> HIDE DEF Same, inHead, after
    <3> QED
      BY <2>2, <2>3, <3>1, <3>2, <3>3
  <2>6. ASSUME all[i].role # "system" PROVE Cardinality(inHead) = 0
    <3>1. inHead = {}
      BY <1>1, <2>1, <2>6 DEF SystemMessages
    <3> QED
      BY <3>1, FS_EmptySet
  <2>7. Cardinality(Same(all, i)) <= Bound(all, i)
    BY <2>2, <2>3, <2>5, <2>6
  <2> QED
    BY <2>7 DEF all
<1>2. ASSUME Typed, Attach, NEW i \in DOMAIN conv'
      PROVE  Cardinality(Same(conv', i)) <= Bound(conv', i)
  <2>1. attached'.state \in Seq(Messages) /\ Distinct(attached'.state)
    <3>1. ASSUME NEW arrival \in SetToSeqs(visible), attached' = Rehydrate(Sorted(arrival))
          PROVE  attached'.state \in Seq(Messages) /\ Distinct(attached'.state)
      <4>1. SpansOK /\ visible \subseteq 1..Len(spans)
        BY <1>2 DEF Typed
      <4>2. Len(spans) \in Nat /\ DOMAIN spans = 1..Len(spans)
        BY <4>1, LenProperties DEF SpansOK
      <4>3. Sorted(arrival) \in Seq(DOMAIN spans)
        BY <4>1, <4>2, SortedArrival
      <4>4. attached' \in Attachments(Len(spans)) /\ Distinct(attached'.state)
        BY <3>1, <4>1, <4>3, RehydrateTypes
      <4> QED
        BY <4>4 DEF Attachments
    <3>2. ASSUME NEW trace \in {"unavailable", "partial"},
                 attached' = [Unattached EXCEPT !.trace = trace]
          PROVE  attached'.state \in Seq(Messages) /\ Distinct(attached'.state)
      BY <3>2, NothingRehydrated DEF Attachments
    <3> QED
      BY <1>2, <3>1, <3>2 DEF Attach
  <2>2. PICK reset \in BOOLEAN : conv' = Compose(attached', reset)
    BY <1>2 DEF Attach
  <2>3. PICK head : SystemMessages(head, Contents) /\ conv' = head \o attached'.state
    BY <2>1, <2>2, ComposeHead
  <2> HIDE DEF Same, Bound
  <2>4. i \in DOMAIN (head \o attached'.state)
    BY <1>2, <2>3
  <2> QED
    BY <1>1, <2>1, <2>3, <2>4
<1>3. Typed /\ [Next]_vars =>
        [Attach => \A i \in DOMAIN conv' :
            Cardinality({j \in DOMAIN conv' : conv'[j] = conv'[i]})
              <= IF conv'[i].role = "system" THEN 2 ELSE 1]_vars
  BY <1>2
<1> QED
  BY <1>3, InitTyped, NextTyped, PTL DEF Spec, PromptDoesNotGrow

-----------------------------------------------------------------------------
(* Places. *)

(* A map that keeps the order keeps the places in it. *)
LEMMA AscendingImage ==
  ASSUME NEW S \in SUBSET Nat, IsFiniteSet(S), NEW e,
         \A x \in S : e[x] \in Nat,
         \A x, z \in S : x < z => e[x] < e[z]
  PROVE  LET image == {e[x] : x \in S}
         IN  /\ Cardinality(image) = Cardinality(S)
             /\ \A k \in 1..Cardinality(S) : Ascending(image)[k] = e[Ascending(S)[k]]
<1> DEFINE Image(U) == {e[x] : x \in U}
           n == Cardinality(S)
<1>1. ASSUME NEW x \in S, NEW z \in S, ~(x < z) PROVE ~(e[x] < e[z])
  <2>1. x \in Nat /\ z \in Nat /\ e[x] \in Nat /\ e[z] \in Nat
    OBVIOUS
  <2>2. x = z \/ z < x
    BY <1>1, <2>1
  <2> QED
    BY <2>1, <2>2
<1>2. ASSUME NEW U \in SUBSET S
      PROVE  IsFiniteSet(Image(U)) /\ Cardinality(Image(U)) = Cardinality(U)
  <2> DEFINE f == [x \in U |-> e[x]]
  <2>1. IsFiniteSet(U)
    BY FS_Subset
  <2>2. f \in Surjection(U, Image(U))
    BY DEF Surjection
  <2>3. ASSUME NEW x \in U, NEW z \in U, f[x] = f[z] PROVE x = z
    <3>1. x \in Nat /\ z \in Nat /\ e[x] \in Nat /\ e[z] = e[x]
      BY <2>3
    <3>2. ~(x < z) /\ ~(z < x)
      BY <3>1
    <3> QED
      BY <3>1, <3>2
  <2>4. f \in Injection(U, Image(U))
    BY <2>3 DEF Injection, IsInjective
  <2> HIDE DEF f
  <2> QED
    BY <2>1, <2>2, <2>4, FS_Surjection
<1>3. Image(S) \in SUBSET Nat /\ IsFiniteSet(Image(S)) /\ Cardinality(Image(S)) = n
  BY <1>2
<1>4. ASSUME NEW k \in 1..n PROVE Ascending(Image(S))[k] = e[Ascending(S)[k]]
  <2> DEFINE x == Ascending(S)[k]
             U == {y \in S : y <= x}
  <2>1. x \in S /\ Rank(S, x) = k
    BY AscendingProperties
  <2> HIDE DEF x
  <2>2. {y \in Image(S) : y <= e[x]} = Image(U)
    <3>1. ASSUME NEW z \in S PROVE e[z] <= e[x] <=> z <= x
      <4>1. x \in Nat /\ z \in Nat /\ e[x] \in Nat /\ e[z] \in Nat
        BY <2>1
      <4>2. ~(x < z) => ~(e[x] < e[z])
        BY <1>1, <2>1
      <4>3. x < z => e[x] < e[z]
        BY <2>1
      <4> QED
        BY <4>1, <4>2, <4>3
    <3> QED
      BY <3>1
  <2>3. Rank(Image(S), e[x]) = k
    <3>1. U \in SUBSET S
      OBVIOUS
    <3>2. Cardinality(Image(U)) = Cardinality(U)
      BY <1>2, <3>1
    <3> QED
      BY <2>1, <2>2, <3>2 DEF Rank
  <2>4. e[x] \in Image(S)
    BY <2>1
  <2> HIDE DEF Image
  <2>5. Ascending(Image(S))[Rank(Image(S), e[x])] = e[x]
    BY <1>3, <2>4, AscendingProperties
  <2> QED
    BY <2>3, <2>5 DEF x
<1> QED
  BY <1>3, <1>4

(* So the same messages at places in the same order are the same sequence. *)
LEMMA SamePlaces ==
  ASSUME NEW T, NEW xs \in Seq(T), NEW ys \in Seq(T), NEW P \in SUBSET DOMAIN xs, NEW e,
         \A x \in P : e[x] \in DOMAIN ys /\ ys[e[x]] = xs[x],
         \A x, z \in P : x < z => e[x] < e[z]
  PROVE  At(xs, P) = At(ys, {e[x] : x \in P})
<1> DEFINE image == {e[x] : x \in P}
           c == Cardinality(P)
<1>1. P \in SUBSET Nat /\ IsFiniteSet(P) /\ \A k \in 1..c : Ascending(P)[k] \in P
  BY AtProperties
<1>2. DOMAIN ys \in SUBSET Nat
  BY LenProperties
<1>3. /\ Cardinality(image) = c
      /\ \A k \in 1..c : Ascending(image)[k] = e[Ascending(P)[k]]
  <2>1. \A x \in P : e[x] \in Nat
    BY <1>2
  <2> QED
    BY <1>1, <2>1, AscendingImage
<1> HIDE DEF image
<1>4. ASSUME NEW k \in 1..c PROVE xs[Ascending(P)[k]] = ys[Ascending(image)[k]]
  BY <1>1, <1>3, <1>4
<1>5. At(xs, P) = At(ys, image)
  BY <1>3, <1>4 DEF At
<1> QED
  BY <1>5 DEF image

-----------------------------------------------------------------------------
(* What is told, and the spans that recount it. *)

(* All that a span tells: what it was sent and what it answered. *)
Conversation(ss, i) == ss[i].input \o ss[i].output

Heard(ss, V) == UNION {ToSet(Conversation(ss, i)) : i \in V}

Marks == [old : Nat, base : Nat, top : Nat]

(* ms is k.old messages that were heard before, or the system's, and then
   what was told after k.base up to k.top. *)
Recounts(td, ms, k, heard) ==
    /\ k.base <= k.top /\ k.top <= Len(td)
    /\ Len(ms) = k.old + (k.top - k.base)
    /\ \A q \in 1..k.old : ms[q].role = "system" \/ ms[q] \in heard
    /\ \A p \in (k.base + 1)..k.top : ms[k.old + (p - k.base)] = td[p]

(* Two calls of one attach, or of two attaches one after the other. *)
Follows(later, earlier) == earlier.top <= later.base \/ earlier.base = later.base

(* p is told by the calls V. *)
ToldBy(p, V, g) == \E j \in V : g[j].base < p /\ p <= g[j].top

Spoken(ms) == {k \in DOMAIN ms : ms[k].role # "system"}

(* Where what is spoken in ms was told, in the same order, by the calls V. *)
Placed(e, ms, td, V, g) ==
    /\ \A k \in Spoken(ms) : e[k] \in DOMAIN td /\ td[e[k]] = ms[k] /\ ToldBy(e[k], V, g)
    /\ \A k, l \in Spoken(ms) : k < l => e[k] < e[l]

(* ... for the first time. *)
FirstTold(e, ms, td) == \A k \in Spoken(ms) : \A q \in 1..(e[k] - 1) : td[q] # td[e[k]]

(* One more span: what is new in it was told after all that is there already. *)
LEMMA WithNewPlaced ==
  ASSUME NEW td \in Seq(Messages), NEW ms \in Seq(Messages), NEW new \in Seq(Messages),
         NEW V, NEW i, NEW g, g[i] \in Marks, \A j \in V : g[j] \in Marks,
         NEW heard, heard \subseteq ToSet(ms), Recounts(td, new, g[i], heard),
         \A j \in V : Follows(g[i], g[j]),
         \A p \in DOMAIN td : ToldBy(p, V, g) => td[p] \in ToSet(ms),
         NEW e, Placed(e, ms, td, V, g)
  PROVE  \E f : /\ Placed(f, WithNew(ms, new), td, V \cup {i}, g)
                /\ FirstTold(e, ms, td) /\ (\A q \in 1..g[i].base : td[q] \in ToSet(ms))
                     => FirstTold(f, WithNew(ms, new), td)
<1> DEFINE P == NewPlaces(ms, new)
           c == Cardinality(P)
           n == Len(ms)
           all == WithNew(ms, new)
           old == g[i].old
           base == g[i].base
           top == g[i].top
<1>1. /\ n \in Nat /\ c \in Nat /\ DOMAIN ms = 1..n /\ DOMAIN all = 1..(n + c)
      /\ \A k \in 1..n : all[k] = ms[k]
  BY WithNewPlaces
<1>2. PICK place : Added(place, ms, new)
  BY WithNewPlaces
<1>3. /\ place \in [1..c -> P]
      /\ \A k \in DOMAIN all : k \notin 1..n => k - n \in 1..c /\ all[k] = new[place[k - n]]
      /\ \A k, l \in 1..c : k < l => place[k] < place[l]
  BY <1>2 DEF Added
<1>4. old \in Nat /\ base \in Nat /\ top \in Nat
  BY DEF Marks
<1>5. /\ DOMAIN td = 1..Len(td) /\ Len(td) \in Nat
      /\ DOMAIN new = 1..Len(new) /\ Len(new) \in Nat
  BY LenProperties
<1>6. /\ base <= top /\ top <= Len(td) /\ Len(new) = old + (top - base)
      /\ \A q \in 1..old : new[q].role = "system" \/ new[q] \in heard
      /\ \A p \in (base + 1)..top : new[old + (p - base)] = td[p]
  BY DEF Recounts
<1> HIDE DEF old, base, top
<1> DEFINE at(pl) == base + (pl - old)
<1>7. ASSUME NEW pl \in P, new[pl].role # "system"
      PROVE  /\ at(pl) \in DOMAIN td /\ td[at(pl)] = new[pl]
             /\ base < at(pl) /\ at(pl) <= top
             /\ \A q \in 1..(at(pl) - 1) : q > base => td[q] # td[at(pl)]
             /\ td[at(pl)] \notin ToSet(ms) /\ ToldBy(at(pl), V \cup {i}, g)
  <2>1. /\ pl \in 1..Len(new) /\ new[pl] \notin ToSet(ms)
        /\ \A j \in 1..(pl - 1) : new[j] # new[pl]
    BY <1>1, <1>5 DEF NewPlaces, Contains, ToSet
  <2>2. pl > old
    <3>1. pl \notin 1..old
      BY <1>6, <1>7, <2>1
    <3> QED
      BY <1>4, <2>1, <3>1
  <2>3. at(pl) \in (base + 1)..top /\ old + (at(pl) - base) = pl /\ at(pl) \in Nat
    BY <1>4, <1>5, <1>6, <2>1, <2>2
  <2>4. td[at(pl)] = new[pl]
    BY <1>6, <2>3
  <2>5. ASSUME NEW q \in 1..(at(pl) - 1), q > base PROVE td[q] # td[at(pl)]
    <3>1. q \in (base + 1)..top /\ old + (q - base) \in 1..(pl - 1)
      BY <1>4, <1>5, <2>1, <2>2, <2>3, <2>5
    <3>2. new[old + (q - base)] = td[q]
      BY <1>6, <3>1
    <3> QED
      BY <2>1, <2>4, <3>1, <3>2
  <2>6. at(pl) \in DOMAIN td /\ base < at(pl) /\ at(pl) <= top
    BY <1>4, <1>5, <1>6, <2>3
  <2>7. ToldBy(at(pl), V \cup {i}, g)
    BY <2>6 DEF ToldBy, base, top
  <2> QED
    BY <2>1, <2>4, <2>5, <2>6, <2>7
<1>8. ASSUME NEW pl \in P, new[pl].role # "system", NEW k \in Spoken(ms)
      PROVE  e[k] < at(pl)
  <2>1. PICK j \in V : g[j].base < e[k] /\ e[k] <= g[j].top
    BY DEF Placed, ToldBy
  <2>2. e[k] \in Nat /\ g[j].base \in Nat /\ g[j].top \in Nat /\ at(pl) \in Nat
    BY <1>5, <1>7, <1>8 DEF Placed, Marks
  <2>3. CASE g[j].top <= base
    BY <1>4, <1>7, <1>8, <2>1, <2>2, <2>3
  <2>4. CASE g[j].base = base
    <3>1. ~ToldBy(at(pl), V, g)
      BY <1>7, <1>8
    <3>2. ~(at(pl) <= g[j].top)
      BY <1>7, <1>8, <2>4, <3>1 DEF ToldBy
    <3> QED
      BY <2>1, <2>2, <3>2
  <2> QED
    BY <2>3, <2>4 DEF Follows, base
<1> DEFINE f == [k \in DOMAIN all |-> IF k \in 1..n THEN e[k] ELSE at(place[k - n])]
<1>9. ASSUME NEW k \in Spoken(all), k \in 1..n PROVE k \in Spoken(ms) /\ f[k] = e[k]
  BY <1>1, <1>9 DEF Spoken
<1>10. ASSUME NEW k \in Spoken(all), k \notin 1..n
       PROVE  /\ place[k - n] \in P /\ new[place[k - n]].role # "system"
              /\ f[k] = at(place[k - n]) /\ all[k] = new[place[k - n]] /\ k - n \in 1..c
  BY <1>3, <1>10 DEF Spoken
<1> HIDE DEF P, c, n, all, f, at
<1>11. ASSUME NEW k \in Spoken(all)
       PROVE  f[k] \in DOMAIN td /\ td[f[k]] = all[k] /\ ToldBy(f[k], V \cup {i}, g)
  <2>1. CASE k \in 1..n
    <3>1. f[k] = e[k] /\ all[k] = ms[k] /\ k \in Spoken(ms)
      BY <1>1, <1>9, <2>1
    <3> QED
      BY <3>1 DEF Placed, ToldBy
  <2>2. CASE k \notin 1..n
    <3>1. PICK pl \in P : new[pl].role # "system" /\ f[k] = at(pl) /\ all[k] = new[pl]
      BY <1>10, <2>2
    <3> QED
      BY <1>7, <3>1
  <2> QED
    BY <2>1, <2>2
<1>12. ASSUME NEW k \in Spoken(all), NEW l \in Spoken(all), k < l PROVE f[k] < f[l]
  <2>1. k \in 1..(n + c) /\ l \in 1..(n + c)
    BY <1>1 DEF Spoken
  <2>2. CASE l \in 1..n
    <3>1. k \in 1..n
      BY <1>1, <1>12, <2>1, <2>2
    <3> QED
      BY <1>9, <1>12, <2>2, <3>1 DEF Placed
  <2>3. CASE k \in 1..n /\ l \notin 1..n
    BY <1>8, <1>9, <1>10, <2>3
  <2>4. CASE k \notin 1..n
    <3>1. l \notin 1..n /\ k - n < l - n
      BY <1>1, <1>12, <2>1, <2>4
    <3>2. place[k - n] < place[l - n] /\ place[k - n] \in P /\ place[l - n] \in P
      BY <1>3, <1>10, <2>4, <3>1
    <3>3. place[k - n] \in Nat /\ place[l - n] \in Nat
      BY <1>5, <3>2 DEF NewPlaces, P
    <3> QED
      BY <1>4, <1>10, <2>4, <3>1, <3>2, <3>3 DEF at
  <2> QED
    BY <2>2, <2>3, <2>4
<1>13. ASSUME FirstTold(e, ms, td), \A q \in 1..base : td[q] \in ToSet(ms)
       PROVE  FirstTold(f, all, td)
  <2>1. ASSUME NEW k \in Spoken(all), NEW q \in 1..(f[k] - 1) PROVE td[q] # td[f[k]]
    <3>1. CASE k \in 1..n
      BY <1>9, <1>13, <2>1, <3>1 DEF FirstTold
    <3>2. CASE k \notin 1..n
      <4> DEFINE pl == place[k - n]
      <4>1. pl \in P /\ new[pl].role # "system" /\ f[k] = at(pl)
        BY <1>10, <3>2
      <4> HIDE DEF pl
      <4>2. q \in 1..(at(pl) - 1) /\ td[at(pl)] \notin ToSet(ms)
        BY <1>7, <2>1, <4>1
      <4>3. CASE q > base
        BY <1>7, <4>1, <4>2, <4>3
      <4>4. CASE ~(q > base)
        <5>1. q \in 1..base
          BY <1>4, <1>5, <1>7, <4>1, <4>2, <4>4
        <5> QED
          BY <1>13, <4>1, <4>2, <5>1
      <4> QED
        BY <4>3, <4>4
    <3> QED
      BY <3>1, <3>2
  <2> QED
    BY <2>1 DEF FirstTold
<1>14. Placed(f, all, td, V \cup {i}, g)
  BY <1>11, <1>12 DEF Placed
<1> QED
  BY <1>13, <1>14 DEF all, base

(* What every span recounts, and that all that was told is in some span. *)
Recorded(td, ss, V, g) ==
    /\ g \in [1..Len(ss) -> Marks]
    /\ \A i \in 1..Len(ss) :
          Recounts(td, Conversation(ss, i), g[i], Heard(ss, {j \in V : j < i}))
    /\ \A i, j \in 1..Len(ss) : j < i => Follows(g[i], g[j])
    /\ \A p \in DOMAIN td : ToldBy(p, 1..Len(ss), g)

(* What a span recounts of what was told is in it. *)
LEMMA RecountedIsThere ==
  ASSUME NEW td, NEW ms \in Seq(Messages), NEW k \in Marks, NEW heard,
         Recounts(td, ms, k, heard), NEW p \in Nat, k.base < p, p <= k.top
  PROVE  td[p] \in ToSet(ms)
<1>1. k.old \in Nat /\ k.base \in Nat /\ k.top \in Nat
  BY DEF Marks
<1>2. DOMAIN ms = 1..Len(ms)
  BY LenProperties
<1>3. p \in (k.base + 1)..k.top
  BY <1>1
<1>4. ms[k.old + (p - k.base)] = td[p] /\ Len(ms) = k.old + (k.top - k.base)
  BY <1>3 DEF Recounts
<1>5. k.old + (p - k.base) \in 1..(k.old + (k.top - k.base))
  BY <1>1
<1> QED
  BY <1>2, <1>4, <1>5 DEF ToSet

(* Merged, the visible spans are in the order in which it was told. *)
LEMMA SaidInOrder ==
  ASSUME SpansOK, told \in Seq(Messages), visible \subseteq 1..Len(spans),
         NEW g, Recorded(told, spans, visible, g)
  PROVE  LET ms == Said(Ascending(visible))
         IN  /\ ToSet(ms) = Heard(spans, visible)
             /\ \E e : /\ Placed(e, ms, told, visible, g)
                       /\ visible = 1..Len(spans) => FirstTold(e, ms, told)
<1> DEFINE ss == Ascending(visible)
           c == Cardinality(visible)
           l == Len(spans)
           parts == [j \in 1..c |-> Conversation(spans, ss[j])]
           Seen(n) == {ss[j] : j \in 1..n}
<1>1. /\ l \in Nat /\ DOMAIN spans = 1..l
      /\ \A i \in 1..l : Conversation(spans, i) \in Seq(Messages)
  <2>1. l \in Nat /\ DOMAIN spans = 1..l /\ \A i \in 1..l : spans[i] \in SpanType
    BY LenProperties, ElementOfSeq DEF SpansOK
  <2>2. ASSUME NEW i \in 1..l PROVE Conversation(spans, i) \in Seq(Messages)
    <3>1. spans[i].input \in Seq(Messages) /\ spans[i].output \in Seq(Messages)
      BY <2>1 DEF SpanType
    <3> QED
      BY <3>1, ConcatProperties DEF Conversation
  <2> QED
    BY <2>1, <2>2
<1>2. visible \in SUBSET Nat /\ IsFiniteSet(visible)
  <2>1. IsFiniteSet(1..l) /\ visible \in SUBSET (1..l)
    BY <1>1, FS_Interval
  <2>2. IsFiniteSet(visible)
    BY <2>1, FS_Subset
  <2> QED
    BY <2>1, <2>2
<1>3. /\ c \in Nat /\ ss \in [1..c -> visible]
      /\ \A j, k \in 1..c : j < k => ss[j] < ss[k]
      /\ \A i \in visible : Rank(visible, i) \in 1..c /\ ss[Rank(visible, i)] = i
  BY <1>2, AscendingProperties, RankProperties
<1>4. Said(ss) = Merged(parts)
  BY <1>3 DEF Said, Conversation
<1>5. Len(parts) = c /\ \A j \in 1..c : parts[j] = Conversation(spans, ss[j])
  BY <1>3
<1> HIDE DEF parts, ss, c
<1>6. PICK m : /\ m[0] = <<>>
               /\ \A n \in 1..c : m[n] = WithNew(m[n - 1], parts[n])
               /\ Merged(parts) = m[c]
  BY <1>3, <1>5, MergedSteps
<1> DEFINE good(n) ==
             /\ m[n] \in Seq(Messages)
             /\ ToSet(m[n]) = Heard(spans, Seen(n))
             /\ \E e : /\ Placed(e, m[n], told, Seen(n), g)
                       /\ visible = 1..l => FirstTold(e, m[n], told)
           bad == {n \in 0..c : ~good(n)}
<1>7. Seen(c) = visible
  BY <1>3
<1>8. bad = {}
  <2> SUFFICES ASSUME bad # {} PROVE FALSE
    OBVIOUS
  <2>1. PICK n \in bad : \A k \in bad : n <= k
    <3>1. bad \in SUBSET Nat
      BY <1>3
    <3> HIDE DEF bad
    <3> QED
      BY <3>1, Least
  <2>2. good(0)
    <3>1. m[0] \in Seq(Messages) /\ DOMAIN m[0] = {}
      BY <1>6, EmptySeq
    <3>2. Seen(0) = {} /\ Spoken(m[0]) = {}
      <4>1. 1..0 = {}
        OBVIOUS
      <4> QED
        BY <3>1, <4>1 DEF Spoken
    <3>3. ToSet(m[0]) = Heard(spans, Seen(0))
      BY <3>1, <3>2 DEF ToSet, Heard
    <3>4. Placed(m[0], m[0], told, Seen(0), g) /\ FirstTold(m[0], m[0], told)
      BY <3>2 DEF Placed, FirstTold
    <3> QED
      BY <3>1, <3>3, <3>4
  <2>3. n \in 1..c /\ n - 1 \in 0..c /\ n - 1 \notin bad
    <3>1. n \in 0..c /\ n # 0
      BY <2>1, <2>2
    <3> HIDE DEF bad
    <3>2. n \in 1..c /\ n - 1 \in 0..c /\ ~(n <= n - 1)
      BY <1>3, <3>1
    <3> QED
      BY <2>1, <3>2
  <2>4. good(n - 1)
    BY <2>3
  <2> DEFINE ms == m[n - 1]
             V == Seen(n - 1)
             i == ss[n]
             new == Conversation(spans, i)
             heard == Heard(spans, {j \in visible : j < i})
  <2>5. i \in visible /\ i \in 1..l /\ V \subseteq visible /\ V \subseteq 1..l
    <3>1. ASSUME NEW k \in 1..(n - 1) PROVE k \in 1..c
      BY <1>3, <2>3
    <3>2. V \subseteq visible
      BY <1>3, <3>1
    <3> QED
      BY <1>3, <2>3, <3>2
  <2>6. ms \in Seq(Messages) /\ new \in Seq(Messages) /\ m[n] = WithNew(ms, new)
    BY <1>1, <1>5, <1>6, <2>3, <2>4, <2>5
  <2>7. \A j \in V : j < i
    <3>1. ASSUME NEW k \in 1..(n - 1) PROVE ss[k] < ss[n]
      <4>1. k \in 1..c /\ k < n
        BY <1>3, <2>3
      <4> QED
        BY <1>3, <2>3, <4>1
    <3> QED
      BY <3>1
  <2>8. ASSUME NEW j \in visible, j < i PROVE j \in V
    <3>1. PICK k \in 1..c : ss[k] = j
      BY <1>3
    <3>2. ~(k >= n)
      <4>1. ~(n < k) /\ k # n
        <5>1. j \in Nat /\ i \in Nat
          BY <1>2, <2>5
        <5> QED
          BY <1>3, <2>3, <2>8, <3>1, <5>1
      <4> QED
        BY <1>3, <2>3, <4>1
    <3>3. k \in 1..(n - 1)
      BY <1>3, <2>3, <3>2
    <3> QED
      BY <3>1, <3>3
  <2>9. PICK e : /\ Placed(e, ms, told, V, g)
                 /\ visible = 1..l => FirstTold(e, ms, told)
    BY <2>4
  <2>10. ToSet(ms) = Heard(spans, V)
    BY <2>4
  <2>11. Seen(n) = V \cup {i}
    <3>1. 1..n = 1..(n - 1) \cup {n}
      BY <1>3, <2>3
    <3> QED
      BY <3>1
  <2> HIDE DEF ms, V, i, new, good, Seen
  <2>12. heard \subseteq ToSet(ms)
    BY <2>8, <2>10 DEF Heard
  <2>13. g[i] \in Marks /\ \A j \in V : g[j] \in Marks
    BY <2>5 DEF Recorded
  <2>14. Recounts(told, new, g[i], heard) /\ \A j \in V : Follows(g[i], g[j])
    BY <2>5, <2>7 DEF Recorded, new
  <2>15. ASSUME NEW p \in DOMAIN told, NEW j \in 1..l, g[j].base < p, p <= g[j].top, j \in V
         PROVE  told[p] \in ToSet(ms)
    <3>1. Recounts(told, Conversation(spans, j), g[j], Heard(spans, {k \in visible : k < j}))
      BY DEF Recorded
    <3>2. p \in Nat /\ g[j] \in Marks /\ Conversation(spans, j) \in Seq(Messages)
      BY <1>1, <2>13, <2>15, LenProperties
    <3>3. told[p] \in ToSet(Conversation(spans, j))
      BY <2>15, <3>1, <3>2, RecountedIsThere
    <3> QED
      BY <2>10, <2>15, <3>3 DEF Heard
  <2>16. \A p \in DOMAIN told : ToldBy(p, V, g) => told[p] \in ToSet(ms)
    BY <2>5, <2>15 DEF ToldBy
  <2>17. ASSUME visible = 1..l PROVE \A q \in 1..g[i].base : told[q] \in ToSet(ms)
    <3> SUFFICES ASSUME NEW q \in 1..g[i].base PROVE told[q] \in ToSet(ms)
      OBVIOUS
    <3>1. /\ g[i].base \in Nat /\ g[i].base <= g[i].top /\ g[i].top <= Len(told)
          /\ g[i].top \in Nat /\ DOMAIN told = 1..Len(told) /\ Len(told) \in Nat
      BY <2>13, <2>14, LenProperties DEF Marks, Recounts
    <3>2. q \in DOMAIN told
      BY <3>1
    <3>3. PICK j \in 1..l : g[j].base < q /\ q <= g[j].top
      BY <3>2 DEF Recorded, ToldBy
    <3>4. g[j].base \in Nat /\ g[j].top \in Nat
      BY DEF Recorded, Marks
    <3>5. ~(i < j)
      <4>1. ASSUME i < j PROVE Follows(g[j], g[i])
        BY <2>5, <4>1 DEF Recorded
      <4> QED
        BY <3>1, <3>3, <3>4, <4>1 DEF Follows
    <3>6. j # i
      BY <3>1, <3>3, <3>4
    <3>7. j < i
      BY <1>1, <2>5, <3>5, <3>6
    <3>8. j \in V
      BY <2>8, <2>17, <3>7
    <3> QED
      BY <2>15, <3>2, <3>3, <3>8
  <2>18. PICK f : /\ Placed(f, WithNew(ms, new), told, V \cup {i}, g)
                  /\ FirstTold(e, ms, told) /\ (\A q \in 1..g[i].base : told[q] \in ToSet(ms))
                       => FirstTold(f, WithNew(ms, new), told)
    <3> HIDE DEF heard
    <3> QED
      BY <2>6, <2>9, <2>12, <2>13, <2>14, <2>16, WithNewPlaced
  <2>19. m[n] \in Seq(Messages) /\ ToSet(m[n]) = ToSet(ms) \cup ToSet(new)
    BY <2>6, WithNewPlaces, WithNewMembers
  <2>20. good(n)
    <3>1. ToSet(m[n]) = Heard(spans, Seen(n))
      BY <2>10, <2>11, <2>19 DEF Heard, new
    <3>2. /\ Placed(f, m[n], told, Seen(n), g)
          /\ visible = 1..l => FirstTold(f, m[n], told)
      BY <2>6, <2>9, <2>11, <2>17, <2>18
    <3> QED
      BY <2>19, <3>1, <3>2 DEF good
  <2> QED
    BY <2>1, <2>20
<1>9. good(c)
  <2>1. c \in 0..c
    BY <1>3
  <2> QED
    BY <1>8, <2>1
<1> HIDE DEF Seen
<1> QED
  BY <1>4, <1>6, <1>7, <1>9 DEF ss

-----------------------------------------------------------------------------
(* The conversations of a session, as its spans recount them. *)

(* What the attach under way has been told since its start. *)
Underway(td, ss, V, ms, g, k) ==
    /\ k \in Marks
    /\ Recounts(td, ms, k, Heard(ss, V)) /\ k.top = Len(td)
    /\ \A i \in 1..Len(ss) : Follows(k, g[i])

Traced ==
    /\ Spoken(told) = DOMAIN told
    /\ \E g : /\ Recorded(told, spans, visible, g)
              /\ live => \E k : Underway(told, spans, visible, conv, g, k)

(* A call of the LLM, or an approval with its tool: extra is said, and the
   last new span tells the whole conversation, those before it nothing. *)
Says(extra) ==
    /\ extra \in Seq(Messages) /\ Spoken(extra) = DOMAIN extra
    /\ live /\ live' = live /\ visible' = visible /\ attached' = attached
    /\ told' = told \o extra
    /\ conv' = conv \o extra
    /\ Len(spans) < Len(spans')
    /\ \A i \in 1..Len(spans) : spans'[i] = spans[i]
    /\ \A i \in (Len(spans) + 1)..(Len(spans') - 1) : Conversation(spans', i) = <<>>
    /\ Conversation(spans', Len(spans')) = conv'

(* What was recounted is recounted, whatever is told and heard later. *)
LEMMA RecountsMore ==
  ASSUME NEW td \in Seq(Messages), NEW extra \in Seq(Messages), NEW ms, NEW k \in Marks,
         NEW heard, NEW more, heard \subseteq more, Recounts(td, ms, k, heard)
  PROVE  Recounts(td \o extra, ms, k, more)
<1>1. k.old \in Nat /\ k.base \in Nat /\ k.top \in Nat
  BY DEF Marks
<1>2. /\ Len(td) \in Nat /\ Len(extra) \in Nat /\ Len(td \o extra) = Len(td) + Len(extra)
      /\ \A p \in 1..Len(td) : (td \o extra)[p] = td[p]
  BY ConcatPlaces
<1>3. k.top <= Len(td \o extra)
  BY <1>1, <1>2 DEF Recounts
<1>4. ASSUME NEW p \in (k.base + 1)..k.top PROVE (td \o extra)[p] = td[p]
  <2>1. p \in 1..Len(td)
    BY <1>1, <1>2 DEF Recounts
  <2> QED
    BY <1>2, <2>1
<1> QED
  BY <1>3, <1>4 DEF Recounts

(* What is said to the conversation is told. *)
LEMMA RecountsLonger ==
  ASSUME NEW td \in Seq(Messages), NEW extra \in Seq(Messages), NEW ms \in Seq(Messages),
         NEW k \in Marks, NEW heard, Recounts(td, ms, k, heard), k.top = Len(td)
  PROVE  LET longer == [k EXCEPT !.top = Len(td \o extra)]
         IN  longer \in Marks /\ Recounts(td \o extra, ms \o extra, longer, heard)
<1> DEFINE longer == [k EXCEPT !.top = Len(td \o extra)]
           n == Len(td)
           l == Len(ms)
           x == Len(extra)
<1>1. k.old \in Nat /\ k.base \in Nat /\ k.top = n /\ k.base <= n
  BY DEF Marks, Recounts
<1>2. /\ n \in Nat /\ x \in Nat /\ Len(td \o extra) = n + x
      /\ \A p \in 1..n : (td \o extra)[p] = td[p]
      /\ \A i \in 1..x : (td \o extra)[n + i] = extra[i]
  BY ConcatPlaces
<1>3. /\ l \in Nat /\ Len(ms \o extra) = l + x
      /\ \A p \in 1..l : (ms \o extra)[p] = ms[p]
      /\ \A i \in 1..x : (ms \o extra)[l + i] = extra[i]
  BY ConcatPlaces
<1>4. longer.old = k.old /\ longer.base = k.base /\ longer.top = n + x
  BY <1>2 DEF Marks
<1>5. longer \in Marks
  <2>1. Len(td \o extra) \in Nat
    BY <1>2
  <2>2. ASSUME NEW top \in Nat PROVE [k EXCEPT !.top = top] \in Marks
    BY DEF Marks
  <2> QED
    BY <2>1, <2>2
<1>6. l = k.old + (n - k.base)
  BY <1>1 DEF Recounts
<1> HIDE DEF longer, n, l, x
<1>7. ASSUME NEW q \in 1..k.old
      PROVE  (ms \o extra)[q].role = "system" \/ (ms \o extra)[q] \in heard
  <2>1. q \in 1..l
    BY <1>1, <1>2, <1>3, <1>6
  <2> QED
    BY <1>3, <2>1 DEF Recounts
<1>8. ASSUME NEW p \in (k.base + 1)..(n + x)
      PROVE  (ms \o extra)[k.old + (p - k.base)] = (td \o extra)[p]
  <2> DEFINE base == k.base
             old == k.old
  <2>3. /\ base \in Nat /\ old \in Nat /\ n \in Nat /\ x \in Nat
        /\ base <= n /\ l = old + (n - base)
    BY <1>1, <1>2, <1>6
  <2>4. p \in (base + 1)..(n + x)
    OBVIOUS
  <2>1. CASE p <= n
    <3>1. p \in 1..n /\ p \in (k.base + 1)..k.top /\ k.old + (p - k.base) \in 1..l
      <4> HIDE DEF base, old
      <4>1. p \in 1..n /\ p \in (base + 1)..n /\ old + (p - base) \in 1..l
        BY <2>1, <2>3, <2>4
      <4> QED
        BY <1>1, <4>1 DEF base, old
    <3> QED
      BY <1>2, <1>3, <3>1 DEF Recounts
  <2>2. CASE ~(p <= n)
    <3>1. p - n \in 1..x /\ p = n + (p - n) /\ k.old + (p - k.base) = l + (p - n)
      <4> HIDE DEF base, old
      <4>1. p - n \in 1..x /\ p = n + (p - n) /\ old + (p - base) = l + (p - n)
        BY <2>2, <2>3, <2>4
      <4> QED
        BY <4>1 DEF base, old
    <3> QED
      BY <1>2, <1>3, <3>1
  <2> QED
    BY <2>1, <2>2
<1>9. Recounts(td \o extra, ms \o extra, longer, heard)
  <2>1. k.base <= n + x
    BY <1>1, <1>2
  <2>2. Len(td \o extra) = n + x /\ n + x <= n + x
    BY <1>2
  <2> DEFINE told2 == td \o extra
             ms2 == ms \o extra
  <2>3. \A q \in 1..longer.old : ms2[q].role = "system" \/ ms2[q] \in heard
    BY <1>4, <1>7
  <2>4. \A p \in (longer.base + 1)..longer.top :
           ms2[longer.old + (p - longer.base)] = told2[p]
    BY <1>4, <1>8
  <2>5. /\ longer.base <= longer.top /\ longer.top <= Len(told2)
        /\ Len(ms2) = longer.old + (longer.top - longer.base)
    <3>1. longer.base <= longer.top
      BY <1>4, <2>1
    <3>2. longer.top <= Len(told2)
      BY <1>4, <2>2
    <3>3. Len(ms2) = longer.old + (longer.top - longer.base)
      <4> DEFINE base == k.base
                 old == k.old
                 top == longer.top
      <4>1. /\ base \in Nat /\ old \in Nat /\ n \in Nat /\ x \in Nat
            /\ l = old + (n - base) /\ top = n + x
        BY <1>1, <1>2, <1>4, <1>6
      <4> HIDE DEF base, old, top
      <4>2. l + x = old + (top - base)
        BY <4>1
      <4>3. Len(ms2) = l + x
        BY <1>3
      <4> QED
        BY <1>4, <4>2, <4>3 DEF base, old, top
    <3> QED
      BY <3>1, <3>2, <3>3
  <2> HIDE DEF told2, ms2
  <2>6. Recounts(told2, ms2, longer, heard)
    BY <2>3, <2>4, <2>5 DEF Recounts
  <2> QED
    BY <2>6 DEF told2, ms2
<1> QED
  BY <1>5, <1>9 DEF longer

(* Nothing is spoken but what is in one of two sequences. *)
LEMMA SpokenConcat ==
  ASSUME NEW xs \in Seq(Messages), NEW ys \in Seq(Messages),
         Spoken(xs) = DOMAIN xs, Spoken(ys) = DOMAIN ys
  PROVE  Spoken(xs \o ys) = DOMAIN (xs \o ys)
<1> DEFINE all == xs \o ys
           m == Len(xs)
<1>1. /\ \A i \in 1..m : all[i] = xs[i]
      /\ DOMAIN xs = 1..m /\ DOMAIN ys = 1..Len(ys)
      /\ \A i \in DOMAIN all : i \in 1..m \/ (i - m \in 1..Len(ys) /\ all[i] = ys[i - m])
  BY ConcatPlaces
<1> HIDE DEF all, m
<1>2. ASSUME NEW i \in DOMAIN all PROVE all[i].role # "system"
  BY <1>1 DEF Spoken
<1> QED
  BY <1>2 DEF Spoken, all

(* A call's span recounts what the attach under way does. *)
LEMMA SaysTraced ==
  ASSUME Typed, Typed', Traced, NEW extra, Says(extra)
  PROVE  Traced'
<1> DEFINE n == Len(spans)
           l == Len(spans')
<1>1. n \in Nat /\ l \in Nat /\ n < l
  BY LenProperties DEF Typed, SpansOK, Says
<1>2. PICK g, k : /\ Recorded(told, spans, visible, g)
                  /\ Underway(told, spans, visible, conv, g, k)
  BY DEF Traced, Says
<1> DEFINE longer == [k EXCEPT !.top = Len(told')]
           empty == [old |-> 0, base |-> k.base, top |-> k.base]
           h == [i \in 1..l |-> IF i <= n THEN g[i] ELSE IF i < l THEN empty ELSE longer]
<1>3. /\ told \in Seq(Messages) /\ conv \in Seq(Messages) /\ extra \in Seq(Messages)
      /\ told' = told \o extra /\ conv' = conv \o extra /\ visible' = visible
      /\ visible \subseteq 1..n
  BY DEF Typed, Says
<1>4. /\ k \in Marks /\ k.old \in Nat /\ k.base \in Nat
      /\ k.top = Len(told) /\ k.base <= Len(told)
      /\ Len(told) \in Nat /\ Len(told') \in Nat /\ Len(told) <= Len(told')
      /\ DOMAIN told = 1..Len(told) /\ DOMAIN told' = 1..Len(told')
  <2>1. k \in Marks /\ k.top = Len(told) /\ k.base <= k.top
    BY <1>2 DEF Underway, Recounts
  <2>2. Len(told) \in Nat /\ Len(extra) \in Nat /\ DOMAIN told = 1..Len(told)
        /\ Len(told') = Len(told) + Len(extra) /\ DOMAIN told' = 1..(Len(told) + Len(extra))
    BY <1>3, ConcatPlaces
  <2> QED
    BY <2>1, <2>2 DEF Marks
<1>5. empty \in Marks /\ longer \in Marks /\ longer.base = k.base /\ longer.top = Len(told')
  BY <1>4 DEF Marks
<1>6. \A i \in 1..n : g[i] \in Marks
  BY <1>2 DEF Recorded
<1>7. ASSUME NEW V, V \subseteq 1..n PROVE Heard(spans', V) = Heard(spans, V)
  <2>1. \A i \in V : Conversation(spans', i) = Conversation(spans, i)
    BY <1>7 DEF Says, Conversation
  <2> QED
    BY <2>1 DEF Heard
<1>8. Recounts(told', conv', longer, Heard(spans', visible))
  <2>1. Recounts(told \o extra, conv \o extra, [k EXCEPT !.top = Len(told \o extra)],
                 Heard(spans, visible))
    BY <1>2, <1>3, <1>4, RecountsLonger DEF Underway
  <2> QED
    BY <1>3, <1>7, <2>1
<1>9. Recounts(told', <<>>, empty, {})
  BY <1>4 DEF Recounts
<1> HIDE DEF empty, longer
<1>10. h \in [1..l -> Marks]
  BY <1>1, <1>5, <1>6
<1>11. /\ \A i \in 1..n : i \in 1..l /\ h[i] = g[i]
       /\ \A i \in 1..l : i \notin 1..n => h[i] = (IF i < l THEN empty ELSE longer)
       /\ l \in 1..l /\ h[l] = longer
  BY <1>1
<1> HIDE DEF h, n, l
<1>12. ASSUME NEW i \in 1..l
       PROVE  Recounts(told', Conversation(spans', i), h[i],
                       Heard(spans', {j \in visible' : j < i}))
  <2> DEFINE V == {j \in visible : j < i}
  <2>1. V \subseteq 1..n /\ V \subseteq visible
    BY <1>3
  <2>2. CASE i \in 1..n
    <3>1. Recounts(told, Conversation(spans, i), g[i], Heard(spans, V))
      BY <1>2, <2>2 DEF Recorded, n
    <3>2. Conversation(spans', i) = Conversation(spans, i)
      BY <2>2 DEF Says, Conversation, n
    <3>3. Heard(spans', V) = Heard(spans, V)
      BY <1>7, <2>1
    <3> HIDE DEF V
    <3>4. g[i] \in Marks
      BY <1>6, <2>2
    <3>5. Recounts(told \o extra, Conversation(spans, i), g[i], Heard(spans, V))
      BY <1>3, <3>1, <3>4, RecountsMore
    <3> QED
      BY <1>3, <1>11, <2>2, <3>2, <3>3, <3>5 DEF V
  <2>3. CASE i \notin 1..n /\ i < l
    <3>1. i \in (n + 1)..(l - 1)
      BY <1>1, <2>3
    <3>2. Conversation(spans', i) = <<>> /\ h[i] = empty
      BY <1>11, <2>3, <3>1 DEF Says, n, l
    <3>3. Recounts(told', <<>>, empty, Heard(spans', V))
      BY <1>9 DEF Recounts
    <3> QED
      BY <1>3, <3>2, <3>3
  <2>4. CASE i = l
    <3>1. V = visible
      <4>1. ASSUME NEW j \in visible PROVE j < i
        <5>1. j \in 1..n
          BY <1>3
        <5> QED
          BY <1>1, <2>4, <5>1
      <4> QED
        BY <4>1
    <3> QED
      BY <1>3, <1>8, <1>11, <2>4, <3>1 DEF Says, l
  <2> QED
    BY <1>1, <2>2, <2>3, <2>4
<1>13. \A i \in 1..l : i \notin 1..n => h[i].base = k.base
  BY <1>5, <1>11 DEF empty
<1>14. ASSUME NEW i \in 1..l, NEW j \in 1..l, j < i PROVE Follows(h[i], h[j])
  <2>1. CASE i \in 1..n
    <3>1. j \in 1..n
      BY <1>1, <1>14, <2>1
    <3> QED
      BY <1>2, <1>11, <1>14, <2>1, <3>1 DEF Recorded, n
  <2>2. CASE i \notin 1..n /\ j \in 1..n
    BY <1>2, <1>11, <1>13, <2>2 DEF Underway, Follows, n
  <2>3. CASE i \notin 1..n /\ j \notin 1..n
    BY <1>13, <2>3 DEF Follows
  <2> QED
    BY <2>1, <2>2, <2>3
<1>15. ASSUME NEW p \in DOMAIN told' PROVE ToldBy(p, 1..l, h)
  <2>1. CASE p \in DOMAIN told
    BY <1>2, <1>11, <2>1 DEF Recorded, ToldBy, n
  <2>2. CASE p \notin DOMAIN told
    <3>1. longer.base < p /\ p <= longer.top
      BY <1>4, <1>5, <2>2
    <3> QED
      BY <1>11, <3>1 DEF ToldBy
  <2> QED
    BY <2>1, <2>2
<1>16. Recorded(told', spans', visible', h)
  BY <1>10, <1>12, <1>14, <1>15 DEF Recorded, l
<1>17. \A i \in 1..l : Follows(longer, h[i])
  <2>1. ASSUME NEW i \in 1..l PROVE Follows(longer, h[i])
    <3>1. CASE i \in 1..n
      BY <1>2, <1>5, <1>11, <3>1 DEF Underway, Follows, n
    <3>2. CASE i \notin 1..n
      BY <1>5, <1>13, <3>2 DEF Follows
    <3> QED
      BY <3>1, <3>2
  <2> QED
    BY <2>1
<1>18. Underway(told', spans', visible', conv', h, longer)
  BY <1>3, <1>5, <1>8, <1>17 DEF Underway, l
<1>19. Spoken(told') = DOMAIN told'
  BY <1>3, SpokenConcat DEF Traced, Says
<1> QED
  BY <1>16, <1>18, <1>19 DEF Traced

(* A turn, an approval and a rejection say something; nothing else does. *)
LEMMA NextSays ==
  ASSUME Typed, [Next]_vars
  PROVE  \/ Attach \/ Detach \/ (\E i \in DOMAIN spans : Index(i)) \/ UNCHANGED vars
         \/ \E extra : Says(extra)
<1> DEFINE n == Len(spans)
<1>1. /\ spans \in Seq(SpanType) /\ conv \in Seq(Messages) /\ told \in Seq(Messages)
      /\ n \in Nat /\ DOMAIN spans = 1..n
  BY LenProperties DEF Typed, SpansOK
<1>2. ASSUME NEW m \in Messages, NEW reply \in Replies
      PROVE  /\ <<m, Assistant(reply)>> \in Seq(Messages)
             /\ Assistant(reply) \in Messages
             /\ Append(conv, m) \in Seq(Messages)
             /\ Append(Append(conv, m), Assistant(reply)) = conv \o <<m, Assistant(reply)>>
  <2>1. Assistant(reply) \in Messages
    BY DEF Assistant, Message, Messages, Contents
  <2>2. Append(conv, m) = conv \o <<m>> /\ Append(conv, m) \in Seq(Messages)
    BY <1>1, AppendIsConcat, AppendProperties
  <2>3. Append(Append(conv, m), Assistant(reply)) = (conv \o <<m>>) \o <<Assistant(reply)>>
    BY <2>1, <2>2, AppendIsConcat
  <2>4. <<m>> \in Seq(Messages) /\ <<Assistant(reply)>> \in Seq(Messages)
        /\ <<m, Assistant(reply)>> \in Seq(Messages)
    BY <2>1
  <2>5. <<m>> \o <<Assistant(reply)>> = <<m, Assistant(reply)>>
    <3> DEFINE a == Assistant(reply)
    <3>1. a \in Messages
      BY <2>1
    <3> HIDE DEF a
    <3>2. Append(<<m>>, a) = <<m>> \o <<a>>
      BY <2>4, <3>1, AppendIsConcat
    <3>3. Append(<<m>>, a) = <<m, a>>
      <4> DEFINE s == Append(<<m>>, a)
                 t == <<m, a>>
      <4>1. /\ s \in Seq(Messages) /\ Len(s) = 2 /\ s[1] = m /\ s[2] = a
        BY <2>4, <3>1, AppendProperties
      <4>2. /\ t \in Seq(Messages) /\ Len(t) = 2 /\ t[1] = m /\ t[2] = a
        BY <3>1
      <4> HIDE DEF s, t
      <4>3. s = t
        BY <4>1, <4>2, SeqEqual
      <4> QED
        BY <4>3 DEF s, t
    <3> QED
      BY <3>2, <3>3 DEF a
  <2> QED
    BY <1>1, <2>1, <2>2, <2>3, <2>4, <2>5, ConcatAssociative
<1>3. ASSUME NEW prompt \in Seq(Messages), NEW reply \in Replies, NEW gate \in Gates,
             NEW emitted \in Seq(SpanType), Call(prompt, reply, emitted, gate)
      PROVE  /\ Len(spans') = Len(emitted) + 1 /\ Len(emitted) \in Nat
             /\ \A i \in 1..Len(emitted) : spans'[i] = emitted[i]
             /\ Conversation(spans', Len(spans')) = conv'
             /\ conv' = Append(prompt, Assistant(reply))
  <2>1. /\ Len(spans') = Len(emitted) + 1 /\ Len(emitted) \in Nat
        /\ \A i \in 1..Len(emitted) : spans'[i] = emitted[i]
        /\ spans'[Len(emitted) + 1].input = prompt
        /\ spans'[Len(emitted) + 1].output = <<Assistant(reply)>>
        /\ conv' = Append(prompt, Assistant(reply))
    BY <1>3, CallAppends
  <2>2. Assistant(reply) \in Messages
    BY DEF Assistant, Message, Messages, Contents
  <2>3. Append(prompt, Assistant(reply)) = prompt \o <<Assistant(reply)>>
    BY <2>2, AppendIsConcat
  <2> QED
    BY <2>1, <2>3 DEF Conversation
<1>4. ASSUME NEW m, NEW reply, m.role # "system"
      PROVE  Spoken(<<m, Assistant(reply)>>) = DOMAIN <<m, Assistant(reply)>>
  BY <1>4 DEF Spoken, Assistant, Message
<1>5. ASSUME NEW text \in Texts, NEW reply \in Replies, NEW gate \in Gates,
             RunTurn(text, reply, gate)
      PROVE  Says(<<User(text), Assistant(reply)>>)
  <2>1. User(text) \in Messages /\ User(text).role # "system"
    BY DEF User, Message, Messages, Contents
  <2>2. Call(Append(conv, User(text)), reply, spans, gate)
    BY <1>5 DEF RunTurn
  <2>3. Append(conv, User(text)) \in Seq(Messages)
    BY <1>2, <2>1
  <2>4. /\ Len(spans') = n + 1 /\ \A i \in 1..n : spans'[i] = spans[i]
        /\ Conversation(spans', Len(spans')) = conv'
        /\ conv' = Append(Append(conv, User(text)), Assistant(reply))
    BY <1>1, <1>3, <2>2, <2>3
  <2>5. n < Len(spans') /\ (n + 1)..(Len(spans') - 1) = {}
    BY <1>1, <2>4
  <2>6. /\ live /\ live' = live /\ visible' = visible /\ attached' = attached
        /\ told' = told \o <<User(text), Assistant(reply)>>
    BY <1>5 DEF RunTurn
  <2> QED
    BY <1>2, <1>4, <2>1, <2>4, <2>5, <2>6 DEF Says
<1>6. ASSUME NEW reply \in Replies, NEW result \in Replies, NEW gate \in Gates,
             Approve(result, reply, gate)
      PROVE  Says(<<Message("tool", result), Assistant(reply)>>)
  <2> DEFINE m == Message("tool", result)
             tool == Span(<<>>, <<>>, n + 1, NoAction)
             emitted == Append(spans, tool)
  <2>1. m \in Messages /\ m.role # "system"
    BY DEF Message, Messages, Contents
  <2>2. Call(Append(conv, m), reply, emitted, gate)
    BY <1>6 DEF Approve
  <2>3. /\ live /\ live' = live /\ visible' = visible /\ attached' = attached
        /\ told' = told \o <<m, Assistant(reply)>>
    BY <1>6 DEF Approve
  <2>4. Append(conv, m) \in Seq(Messages)
    BY <1>2, <2>1
  <2>5. tool \in SpanType /\ tool.input = <<>> /\ tool.output = <<>>
    BY <1>1, EmptySeq DEF Span, SpanType, NoAction
  <2> HIDE DEF tool, m
  <2>6. /\ emitted \in Seq(SpanType) /\ Len(emitted) = n + 1
        /\ \A i \in 1..n : emitted[i] = spans[i]
        /\ emitted[n + 1] = tool
    BY <1>1, <2>5, AppendProperties
  <2> HIDE DEF emitted
  <2>7. /\ Len(spans') = n + 2 /\ \A i \in 1..(n + 1) : spans'[i] = emitted[i]
        /\ Conversation(spans', Len(spans')) = conv'
        /\ conv' = Append(Append(conv, m), Assistant(reply))
    <3>1. /\ Len(spans') = Len(emitted) + 1
          /\ \A i \in 1..Len(emitted) : spans'[i] = emitted[i]
          /\ Conversation(spans', Len(spans')) = conv'
          /\ conv' = Append(Append(conv, m), Assistant(reply))
      BY <1>3, <2>2, <2>4, <2>6
    <3> QED
      BY <1>1, <2>6, <3>1
  <2>8. \A i \in 1..n : spans'[i] = spans[i]
    BY <1>1, <2>6, <2>7
  <2>9. ASSUME NEW i \in (n + 1)..(Len(spans') - 1) PROVE Conversation(spans', i) = <<>>
    <3>1. i = n + 1
      BY <1>1, <2>7
    <3>2. spans'[n + 1] = tool
      BY <1>1, <2>6, <2>7
    <3>3. <<>> \o <<>> = <<>>
      OBVIOUS
    <3> QED
      BY <2>5, <3>1, <3>2, <3>3 DEF Conversation
  <2>10. n < Len(spans')
    BY <1>1, <2>7
  <2> QED
    BY <1>2, <1>4, <2>1, <2>3, <2>7, <2>8, <2>9, <2>10 DEF Says, m
<1>7. ASSUME NEW reply \in Replies, NEW gate \in Gates, Reject(reply, gate)
      PROVE  Says(<<Assistant(reply)>>)
  <2>1. Assistant(reply) \in Messages /\ Assistant(reply).role # "system"
    BY DEF Assistant, Message, Messages, Contents
  <2>2. <<Assistant(reply)>> \in Seq(Messages)
        /\ Spoken(<<Assistant(reply)>>) = DOMAIN <<Assistant(reply)>>
    BY <2>1 DEF Spoken
  <2>3. Call(conv, reply, spans, gate)
    BY <1>7 DEF Reject
  <2>4. /\ Len(spans') = n + 1 /\ \A i \in 1..n : spans'[i] = spans[i]
        /\ Conversation(spans', Len(spans')) = conv'
        /\ conv' = Append(conv, Assistant(reply))
    BY <1>1, <1>3, <2>3
  <2>5. n < Len(spans') /\ (n + 1)..(Len(spans') - 1) = {}
    BY <1>1, <2>4
  <2>6. /\ live /\ live' = live /\ visible' = visible /\ attached' = attached
        /\ told' = told \o <<Assistant(reply)>>
    BY <1>1, <1>7, <2>1, AppendIsConcat DEF Reject
  <2>7. conv' = conv \o <<Assistant(reply)>>
    BY <1>1, <2>1, <2>4, AppendIsConcat
  <2> QED
    BY <2>2, <2>4, <2>5, <2>6, <2>7 DEF Says
<1> QED
  BY <1>5, <1>6, <1>7 DEF Next

(* Nothing is told at first, so nothing to be traced. *)
LEMMA InitTraced == Init => Traced
<1> SUFFICES ASSUME Init PROVE Traced
  OBVIOUS
<1>1. told = <<>> /\ spans = <<>> /\ live = FALSE
  BY DEF Init
<1>2. Len(spans) = 0 /\ DOMAIN told = {}
  BY <1>1
<1> DEFINE g == [i \in 1..0 |-> [old |-> 0, base |-> 0, top |-> 0]]
<1>3. g \in [1..0 -> Marks]
  BY DEF Marks
<1> HIDE DEF g
<1>4. \A i \in 1..Len(spans) : FALSE
  BY <1>2
<1>5. Recorded(told, spans, visible, g)
  BY <1>2, <1>3, <1>4 DEF Recorded
<1> QED
  BY <1>1, <1>2, <1>5 DEF Traced, Spoken

(* What becomes visible is heard. *)
LEMMA IndexTraced ==
  ASSUME Typed, Traced, NEW i \in DOMAIN spans, Index(i)
  PROVE  Traced'
<1>1. /\ told' = told /\ spans' = spans /\ live' = live /\ conv' = conv
      /\ visible \subseteq visible'
  BY DEF Index
<1>2. told \in Seq(Messages) /\ <<>> \in Seq(Messages) /\ told \o <<>> = told
  BY EmptySeq, ConcatEmptySeq DEF Typed
<1>3. ASSUME NEW ms, NEW k \in Marks, NEW V, NEW W, V \subseteq W,
             Recounts(told, ms, k, Heard(spans, V))
      PROVE  Recounts(told, ms, k, Heard(spans, W))
  <2>1. Heard(spans, V) \subseteq Heard(spans, W)
    BY <1>3 DEF Heard
  <2> QED
    BY <1>2, <1>3, <2>1, RecountsMore
<1>4. PICK g : /\ Recorded(told, spans, visible, g)
               /\ live => \E k : Underway(told, spans, visible, conv, g, k)
  BY DEF Traced
<1>5. Recorded(told', spans', visible', g)
  <2>1. ASSUME NEW j \in 1..Len(spans)
        PROVE  Recounts(told, Conversation(spans, j), g[j],
                        Heard(spans, {h \in visible' : h < j}))
    <3>1. {h \in visible : h < j} \subseteq {h \in visible' : h < j}
      BY <1>1
    <3>2. Recounts(told, Conversation(spans, j), g[j], Heard(spans, {h \in visible : h < j}))
      BY <1>4 DEF Recorded
    <3>3. g[j] \in Marks
      BY <1>4 DEF Recorded
    <3> QED
      BY <1>3, <3>1, <3>2, <3>3
  <2> QED
    BY <1>1, <1>4, <2>1 DEF Recorded
<1>6. ASSUME live PROVE \E k : Underway(told', spans', visible', conv', g, k)
  <2>1. PICK k : Underway(told, spans, visible, conv, g, k)
    BY <1>4, <1>6
  <2>2. Recounts(told, conv, k, Heard(spans, visible'))
    BY <1>1, <1>3, <2>1 DEF Underway
  <2> QED
    BY <1>1, <2>1, <2>2 DEF Underway
<1> QED
  BY <1>1, <1>4, <1>5, <1>6 DEF Traced

(* An attach that rehydrates anything does so from the visible spans, in
   their order. *)
LEMMA AttachStates ==
  ASSUME Typed, Attach
  PROVE  \/ /\ attached' = Rehydrate(Ascending(visible))
            /\ attached'.state = Said(Ascending(visible))
         \/ attached'.state = <<>> /\ attached'.trace # "loaded"
<1>1. Len(spans) \in Nat /\ visible \subseteq 1..Len(spans)
  BY LenProperties DEF Typed, SpansOK
<1>2. ASSUME NEW arrival \in SetToSeqs(visible), attached' = Rehydrate(Sorted(arrival))
      PROVE  attached' = Rehydrate(Ascending(visible))
  BY <1>1, <1>2, SortedArrival
<1> QED
  BY <1>2 DEF Attach, Unattached, Rehydrate

(* So its conversation starts with what was heard. *)
LEMMA AttachTraced ==
  ASSUME Typed, Typed', Traced, Attach
  PROVE  Traced'
<1>1. told' = told /\ spans' = spans /\ visible' = visible
  BY DEF Attach
<1>2. PICK g : Recorded(told, spans, visible, g)
  BY DEF Traced
<1>3. /\ SpansOK /\ told \in Seq(Messages) /\ visible \subseteq 1..Len(spans)
      /\ conv' \in Seq(Messages) /\ attached'.state \in Seq(Messages)
  BY DEF Typed, Attachments
<1>4. ToSet(attached'.state) \subseteq Heard(spans, visible)
  <2>1. ToSet(<<>>) = {}
    BY DEF ToSet
  <2>2. ToSet(Said(Ascending(visible))) = Heard(spans, visible)
    BY <1>2, <1>3, SaidInOrder
  <2> QED
    BY <2>1, <2>2, AttachStates
<1>5. PICK head : SystemMessages(head, Contents) /\ conv' = head \o attached'.state
  BY <1>3, ComposeHead DEF Attach
<1>6. ASSUME NEW q \in DOMAIN conv'
      PROVE  conv'[q].role = "system" \/ conv'[q] \in Heard(spans, visible)
  <2> DEFINE m == Len(head)
             state == attached'.state
  <2>1. /\ head \in Seq(Messages) /\ DOMAIN head = 1..m /\ DOMAIN state = 1..Len(state)
        /\ \A i \in 1..m : (head \o state)[i] = head[i]
        /\ \A i \in DOMAIN (head \o state) :
              i \in 1..m \/ (i - m \in 1..Len(state) /\ (head \o state)[i] = state[i - m])
    BY <1>3, <1>5, ConcatPlaces DEF SystemMessages
  <2>2. CASE q \in 1..m
    BY <1>5, <2>1, <2>2 DEF SystemMessages
  <2>3. CASE q \notin 1..m
    BY <1>4, <1>5, <2>1, <2>3 DEF ToSet
  <2> QED
    BY <2>2, <2>3
<1> DEFINE k == [old |-> Len(conv'), base |-> Len(told), top |-> Len(told)]
<1>7. Len(conv') \in Nat /\ DOMAIN conv' = 1..Len(conv') /\ Len(told) \in Nat
  BY <1>3, LenProperties
<1>8. k \in Marks /\ Recounts(told, conv', k, Heard(spans, visible))
  BY <1>6, <1>7 DEF Marks, Recounts
<1>9. \A i \in 1..Len(spans) : Follows(k, g[i])
  BY <1>2 DEF Recorded, Recounts, Follows
<1>10. Underway(told', spans', visible', conv', g, k)
  BY <1>1, <1>8, <1>9 DEF Underway
<1> QED
  BY <1>1, <1>2, <1>10 DEF Traced

(* Every span, and the attach under way, recounts what was told while its
   attach was in its body; the rest of it was heard before. *)
LEMMA NextTraced == Typed /\ Traced /\ [Next]_vars => Traced'
<1> SUFFICES ASSUME Typed, Traced, [Next]_vars PROVE Traced'
  OBVIOUS
<1>1. Typed'
  BY NextTyped
<1>2. CASE Detach
  BY <1>2 DEF Detach, Traced
<1>3. CASE UNCHANGED vars
  BY <1>3 DEF vars, Traced
<1> QED
  BY <1>1, <1>2, <1>3, NextSays, SaysTraced, AttachTraced, IndexTraced

(* What a merged history tells, it tells in the order in which it was told. *)
LEMMA DialogueInOrder ==
  ASSUME SpansOK, told \in Seq(Messages), NEW ms \in Seq(Messages), NEW e, NEW V, NEW g,
         Placed(e, ms, told, V, g)
  PROVE  LET places == {e[k] : k \in Spoken(ms)}
         IN  places \in SUBSET DOMAIN told /\ Dialogue(ms) = At(told, places)
<1>1. Spoken(ms) \in SUBSET DOMAIN ms /\ Dialogue(ms) = At(ms, Spoken(ms))
  BY DEF Spoken, Dialogue
<1>2. /\ \A k \in Spoken(ms) : e[k] \in DOMAIN told /\ told[e[k]] = ms[k]
      /\ \A k, l \in Spoken(ms) : k < l => e[k] < e[l]
  BY DEF Placed
<1>3. At(ms, Spoken(ms)) = At(told, {e[k] : k \in Spoken(ms)})
  BY <1>1, <1>2, SamePlaces
<1> QED
  BY <1>1, <1>2, <1>3

(* A history of nothing tells nothing. *)
LEMMA EmptyHistory ==
  ASSUME NEW td
  PROVE  Dialogue(<<>>) = At(td, {})
<1>1. {i \in DOMAIN <<>> : <<>>[i].role # "system"} = {}
  OBVIOUS
<1>2. 1..Cardinality({}) = {}
  BY FS_EmptySet
<1>3. ASSUME NEW ms PROVE At(ms, {}) = [k \in {} |-> ms[Ascending({})[k]]]
  BY <1>2 DEF At
<1>4. At(<<>>, {}) = At(td, {})
  BY <1>3
<1> QED
  BY <1>1, <1>4 DEF Dialogue

(* What an attach rehydrates it rehydrates in order, and it stays so when
   more is told. *)
LEMMA NextHistoryInOrder == Typed /\ Traced /\ HistoryInOrder /\ [Next]_vars => HistoryInOrder'
<1> SUFFICES ASSUME Typed, Traced, HistoryInOrder, [Next]_vars PROVE HistoryInOrder'
  OBVIOUS
<1>1. Typed'
  BY NextTyped
<1>2. ASSUME attached'.state = <<>> PROVE HistoryInOrder'
  BY <1>2, EmptyHistory DEF HistoryInOrder
<1>3. ASSUME Attach, attached'.state = Said(Ascending(visible)) PROVE HistoryInOrder'
  <2>1. PICK g : Recorded(told, spans, visible, g)
    BY DEF Traced
  <2>2. /\ SpansOK /\ told \in Seq(Messages) /\ visible \subseteq 1..Len(spans)
        /\ attached'.state \in Seq(Messages)
    BY <1>1 DEF Typed, Attachments
  <2>3. PICK e : Placed(e, attached'.state, told, visible, g)
    BY <1>3, <2>1, <2>2, SaidInOrder
  <2>4. \E places \in SUBSET DOMAIN told : Dialogue(attached'.state) = At(told, places)
    BY <2>2, <2>3, DialogueInOrder
  <2>5. told' = told
    BY <1>3 DEF Attach
  <2> QED
    BY <2>4, <2>5 DEF HistoryInOrder
<1>4. ASSUME NEW extra, Says(extra) PROVE HistoryInOrder'
  <2>1. PICK places \in SUBSET DOMAIN told : Dialogue(attached.state) = At(told, places)
    BY DEF HistoryInOrder
  <2>2. /\ DOMAIN told = 1..Len(told) /\ DOMAIN told' = 1..Len(told')
        /\ Len(told) \in Nat /\ Len(told') \in Nat /\ Len(told) <= Len(told')
        /\ \A p \in DOMAIN told : told'[p] = told[p]
    BY <1>4, ConcatPlaces DEF Says, Typed
  <2>3. places \in SUBSET DOMAIN told'
    BY <2>2
  <2>4. At(told', places) = At(told, places)
    <3>1. \A k \in 1..Cardinality(places) : Ascending(places)[k] \in DOMAIN told
      BY AtProperties DEF Typed
    <3> QED
      BY <2>2, <3>1 DEF At
  <2>5. attached' = attached
    BY <1>4 DEF Says
  <2>6. Dialogue(attached'.state) = At(told', places)
    BY <2>1, <2>4, <2>5
  <2> QED
    BY <2>3, <2>6 DEF HistoryInOrder
<1>5. CASE Detach
  BY <1>2, <1>5 DEF Detach, Unattached
<1>6. ASSUME NEW i \in DOMAIN spans, Index(i) PROVE HistoryInOrder'
  BY <1>6 DEF Index, HistoryInOrder
<1>7. CASE UNCHANGED vars
  BY <1>7 DEF vars, HistoryInOrder
<1> QED
  BY <1>2, <1>3, <1>4, <1>5, <1>6, <1>7, NextSays, AttachStates

(* However late spans arrive and whichever are missing, for any number of
   turns and attaches: what an attach rehydrates was said, in that order. *)
THEOREM HistoryInOrderAlways == Spec => []HistoryInOrder
<1>1. Init => HistoryInOrder
  <2> SUFFICES ASSUME Init PROVE HistoryInOrder
    OBVIOUS
  <2>1. attached.state = <<>>
    BY DEF Init, Unattached
  <2> QED
    BY <2>1, EmptyHistory DEF HistoryInOrder
<1> QED
  BY <1>1, InitTyped, NextTyped, InitTraced, NextTraced, NextHistoryInOrder, PTL DEF Spec

(* A history merged from all spans tells all that was told, once. *)
LEMMA DialogueComplete ==
  ASSUME SpansOK, told \in Seq(Messages), Spoken(told) = DOMAIN told,
         NEW g, Recorded(told, spans, 1..Len(spans), g),
         NEW ms \in Seq(Messages), ToSet(ms) = Heard(spans, 1..Len(spans)),
         NEW e, NEW V, Placed(e, ms, told, V, g), FirstTold(e, ms, told)
  PROVE  Dialogue(ms) = FirstOccurrences(told)
<1> DEFINE places == {e[k] : k \in Spoken(ms)}
           first == {i \in DOMAIN told : \A j \in 1..(i - 1) : told[j] # told[i]}
           l == Len(spans)
<1>1. places \in SUBSET DOMAIN told /\ Dialogue(ms) = At(told, places)
  BY DialogueInOrder
<1>2. DOMAIN told = 1..Len(told) /\ Len(told) \in Nat
  BY LenProperties
<1>3. places \subseteq first
  BY <1>1 DEF FirstTold
<1>4. ASSUME NEW p \in first PROVE p \in places
  <2>1. p \in DOMAIN told /\ p \in Nat
    BY <1>2
  <2>2. PICK j \in 1..l : g[j].base < p /\ p <= g[j].top
    BY <2>1 DEF Recorded, ToldBy
  <2>3. g[j] \in Marks /\ Conversation(spans, j) \in Seq(Messages)
    <3>1. spans[j] \in SpanType
      BY ElementOfSeq DEF SpansOK
    <3> QED
      BY <3>1, ConcatProperties DEF Conversation, SpanType, Recorded
  <2>4. Recounts(told, Conversation(spans, j), g[j], Heard(spans, {h \in 1..l : h < j}))
    BY DEF Recorded
  <2>5. told[p] \in ToSet(Conversation(spans, j))
    BY <2>1, <2>2, <2>3, <2>4, RecountedIsThere
  <2>6. told[p] \in ToSet(ms)
    BY <2>5 DEF Heard
  <2>7. PICK k \in DOMAIN ms : ms[k] = told[p]
    BY <2>6 DEF ToSet
  <2>8. k \in Spoken(ms)
    <3>1. p \in Spoken(told)
      BY <2>1
    <3> QED
      BY <2>7, <3>1 DEF Spoken
  <2>9. e[k] \in DOMAIN told /\ told[e[k]] = told[p]
    BY <2>7, <2>8 DEF Placed
  <2>10. ~(e[k] < p)
    <3>1. SUFFICES ASSUME e[k] < p PROVE FALSE
      OBVIOUS
    <3>2. e[k] \in 1..(p - 1)
      BY <1>2, <2>1, <2>9, <3>1
    <3> QED
      BY <2>9, <3>2
  <2>11. ~(p < e[k])
    <3>1. SUFFICES ASSUME p < e[k] PROVE FALSE
      OBVIOUS
    <3>2. p \in 1..(e[k] - 1)
      BY <1>2, <2>1, <2>9, <3>1
    <3> QED
      BY <2>8, <2>9, <3>2 DEF FirstTold
  <2>12. e[k] = p
    BY <1>2, <2>1, <2>9, <2>10, <2>11
  <2> QED
    BY <2>8, <2>12
<1>5. places = first
  BY <1>3, <1>4
<1> HIDE DEF places, first
<1>6. FirstOccurrences(told) = At(told, first)
  BY DEF FirstOccurrences, first
<1> QED
  BY <1>1, <1>5, <1>6

(* An attach that sees every span rehydrates all that was said, in order, and
   every tool call. *)
THEOREM HistoryCompleteAlways == Spec => HistoryComplete
<1>1. ASSUME Typed, Traced, Attach, visible = DOMAIN spans, attached'.trace = "loaded"
      PROVE  /\ Dialogue(attached'.state) = FirstOccurrences(told)
             /\ attached'.tools = Ascending({i \in DOMAIN spans : spans[i].tool # NoTool})
  <2> DEFINE n == Len(spans)
             ss == [k \in 1..n |-> k]
             tools == {i \in DOMAIN spans : spans[i].tool # NoTool}
  <2>1. n \in Nat /\ visible = 1..n /\ DOMAIN spans = 1..n /\ SpansOK /\ told \in Seq(Messages)
    BY <1>1, LenProperties DEF Typed, SpansOK
  <2>2. attached' = Rehydrate(Ascending(visible)) /\ attached'.state = Said(Ascending(visible))
    BY <1>1, AttachStates
  <2>3. Typed'
    BY <1>1, AttachTyped
  <2>4. attached'.state \in Seq(Messages)
    BY <2>3 DEF Typed, Attachments
  <2>5. PICK g : Recorded(told, spans, visible, g)
    BY <1>1 DEF Traced
  <2>6. /\ ToSet(attached'.state) = Heard(spans, visible)
        /\ \E e : /\ Placed(e, attached'.state, told, visible, g)
                  /\ FirstTold(e, attached'.state, told)
    BY <2>1, <2>2, <2>5, SaidInOrder
  <2>7. Spoken(told) = DOMAIN told
    BY <1>1 DEF Traced
  <2>8. Dialogue(attached'.state) = FirstOccurrences(told)
    BY <2>1, <2>4, <2>5, <2>6, <2>7, DialogueComplete
  <2>9. attached'.tools = At(ss, {j \in DOMAIN ss : spans[ss[j]].tool # NoTool})
    BY <2>1, <2>2, AscendingAll DEF Rehydrate, ToolHistory
  <2>10. {j \in DOMAIN ss : spans[ss[j]].tool # NoTool} = tools
    BY <2>1
  <2>11. At(ss, tools) = Ascending(tools)
    <3>1. tools \in SUBSET Nat /\ IsFiniteSet(tools)
      <4>1. IsFiniteSet(1..n) /\ tools \in SUBSET (1..n)
        BY <2>1, FS_Interval
      <4>2. IsFiniteSet(tools)
        BY <4>1, FS_Subset
      <4> QED
        BY <4>1, <4>2
    <3>2. Ascending(tools) \in [1..Cardinality(tools) -> tools]
      BY <3>1, AscendingProperties
    <3>3. \A i \in tools : ss[i] = i
      BY <2>1
    <3> HIDE DEF ss, tools
    <3>4. \A k \in 1..Cardinality(tools) : ss[Ascending(tools)[k]] = Ascending(tools)[k]
      BY <3>2, <3>3
    <3> QED
      BY <3>2, <3>4 DEF At
  <2> QED
    BY <2>8, <2>9, <2>10, <2>11
<1>2. Typed /\ Traced /\ [Next]_vars =>
        [Attach /\ visible = DOMAIN spans /\ attached'.trace = "loaded" =>
            /\ Dialogue(attached'.state) = FirstOccurrences(told)
            /\ attached'.tools = Ascending({i \in DOMAIN spans : spans[i].tool # NoTool})]_vars
  BY <1>1
<1> QED
  BY <1>2, InitTyped, NextTyped, InitTraced, NextTraced, PTL DEF Spec, HistoryComplete

=============================================================================
