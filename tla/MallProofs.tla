----------------------------- MODULE MallProofs -----------------------------
(***************************************************************************)
(* The invariants of MallInventory, for every catalog, every set of        *)
(* starter weapons, every opening wallet and every number of connections,  *)
(* as long as requests are handled one at a time: that never two bags are  *)
(* mounted, that a purchase is kept, that numbers are not used again, and  *)
(* that the state file is the ledger of MallLedger.                        *)
(*                                                                         *)
(* A list of props matters to these properties by the tags of its members, *)
(* number and kind.  Equipping keeps the tags of a list, whatever owners   *)
(* and locations it writes; picking and appending have the tags one would  *)
(* think.  With that, the proof is about sets.                             *)
(***************************************************************************)
EXTENDS MallInventory, FiniteSetTheorems, SequenceTheorems, TLAPS

(* Every non-empty set of naturals has a least element: the intervals      *)
(* 0..k are well-founded under strict inclusion.                           *)
LEMMA LeastNatural ==
  ASSUME NEW S \in SUBSET Nat, S # {}
  PROVE  \E m \in S : \A k \in S : m <= k
<1> DEFINE O == StrictSubsetOrdering(Nat)
           T == {0 .. k : k \in S}
<1>1. IsWellFoundedOn(O, FiniteSubsetsOf(Nat))
  BY FS_StrictSubsetOrderingWellFounded
<1>2. T \subseteq FiniteSubsetsOf(Nat) /\ T # {}
  <2> SUFFICES ASSUME NEW k \in S
               PROVE  0 .. k \in FiniteSubsetsOf(Nat)
    OBVIOUS
  <2>1. IsFiniteSet(0 .. k)
    BY FS_Interval
  <2> QED
    BY <2>1 DEF FiniteSubsetsOf
<1>3. PICK x \in T : \A y \in T : ~ (<<y, x>> \in O)
  <2> HIDE DEF O, T
  <2> QED
    BY <1>1, <1>2, WFMin
<1>4. PICK m \in S : x = 0 .. m
  OBVIOUS
<1>5. ASSUME NEW k \in S, k < m PROVE FALSE
  <2>1. /\ 0 .. k \in T /\ 0 .. k \subseteq 0 .. m /\ 0 .. k # 0 .. m
        /\ 0 .. k \subseteq Nat /\ 0 .. m \subseteq Nat
    BY <1>5
  <2> QED
    BY <2>1, <1>2, <1>3, <1>4 DEF StrictSubsetOrdering, FiniteSubsetsOf
<1> QED
  BY <1>5

(* Every non-empty finite set of naturals has a greatest element: the sets *)
(* of what is above a member are well-founded under strict inclusion.      *)
LEMMA GreatestNatural ==
  ASSUME NEW S \in SUBSET Nat, S # {}, IsFiniteSet(S)
  PROVE  Max(S) \in S /\ \A k \in S : Max(S) >= k
<1> DEFINE Above(k) == {n \in S : k < n}
           O == StrictSubsetOrdering(S)
           T == {Above(k) : k \in S}
<1>1. IsWellFoundedOn(O, FiniteSubsetsOf(S))
  BY FS_StrictSubsetOrderingWellFounded
<1>2. T \subseteq FiniteSubsetsOf(S) /\ T # {}
  <2> SUFFICES ASSUME NEW k \in S
               PROVE  Above(k) \in FiniteSubsetsOf(S)
    OBVIOUS
  <2>1. Above(k) \in SUBSET S
    OBVIOUS
  <2>2. IsFiniteSet(Above(k))
    BY <2>1, FS_Subset
  <2> QED
    BY <2>1, <2>2 DEF FiniteSubsetsOf
<1>3. PICK x \in T : \A y \in T : ~ (<<y, x>> \in O)
  <2> HIDE DEF O, T
  <2> QED
    BY <1>1, <1>2, WFMin
<1>4. PICK m \in S : x = Above(m)
  OBVIOUS
<1>5. ASSUME NEW k \in S, m < k PROVE FALSE
  <2>1. Above(k) \subseteq Above(m)
    <3> SUFFICES ASSUME NEW n \in S, k < n PROVE m < n
      OBVIOUS
    <3> QED
      BY <1>5
  <2>2. k \in Above(m) /\ k \notin Above(k)
    BY <1>5
  <2>3. Above(k) \in T /\ Above(k) \subseteq S /\ Above(m) \subseteq S
    OBVIOUS
  <2> HIDE DEF Above
  <2> QED
    BY <2>1, <2>2, <2>3, <1>2, <1>3, <1>4 DEF StrictSubsetOrdering, FiniteSubsetsOf
<1>6. \A k \in S : m >= k
  BY <1>5
<1> QED
  BY <1>6 DEF Max

-----------------------------------------------------------------------------
(* The members of a list at some of its places, which are ranked by how    *)
(* many of the places are before them.                                     *)
LEMMA PickedMembers ==
  ASSUME NEW T, NEW s \in Seq(T), NEW P \in SUBSET DOMAIN s
  PROVE  /\ Picked(s, P) \in Seq(T)
         /\ \A n \in DOMAIN Picked(s, P) : \E i \in P : Picked(s, P)[n] = s[i]
         /\ \A i \in P : \E n \in DOMAIN Picked(s, P) : Picked(s, P)[n] = s[i]
<1> DEFINE Before(i) == {j \in P : j < i}
           Rank(i) == Cardinality(Before(i))
           N == Cardinality(P)
           f == [i \in P |-> Rank(i) + 1]
<1>1. DOMAIN s = 1 .. Len(s) /\ Len(s) \in Nat /\ P \subseteq Nat
  BY LenProperties
<1>2. IsFiniteSet(P) /\ N \in Nat
  <2>1. IsFiniteSet(1 .. Len(s))
    BY <1>1, FS_Interval
  <2>2. IsFiniteSet(P)
    BY <1>1, <2>1, FS_Subset
  <2> QED
    BY <2>2, FS_CardinalityType
<1>3. ASSUME NEW i \in P PROVE Rank(i) \in 0 .. N - 1
  <2>1. Before(i) \in SUBSET P /\ i \notin Before(i)
    BY <1>1
  <2>2. IsFiniteSet(Before(i)) /\ Rank(i) <= N /\ Rank(i) # N
    <3> HIDE DEF Before
    <3> QED
      BY <2>1, <1>2, FS_Subset
  <2>3. Rank(i) \in Nat
    BY <2>2, FS_CardinalityType
  <2> HIDE DEF Rank, N
  <2> QED
    BY <2>2, <2>3, <1>2
<1>4. ASSUME NEW i \in P, NEW k \in P, i < k PROVE Rank(i) # Rank(k)
  <2>1. Before(i) \in SUBSET Before(k) /\ i \in Before(k) /\ i \notin Before(i)
    <3>1. \A j \in P : j < i => j < k
      BY <1>1, <1>4
    <3> QED
      BY <3>1, <1>1, <1>4
  <2>2. IsFiniteSet(Before(k))
    <3>1. Before(k) \in SUBSET P
      OBVIOUS
    <3> QED
      BY <3>1, <1>2, FS_Subset
  <2> HIDE DEF Before
  <2> QED
    BY <2>1, <2>2, FS_Subset
<1>5. f \in Injection(P, 1 .. N)
  <2>1. f \in [P -> 1 .. N]
    <3> SUFFICES ASSUME NEW i \in P PROVE Rank(i) + 1 \in 1 .. N
      OBVIOUS
    <3> HIDE DEF Rank, N
    <3> QED
      BY <1>3, <1>2
  <2>2. ASSUME NEW i \in P, NEW k \in P, f[i] = f[k] PROVE i = k
    <3>1. Rank(i) = Rank(k)
      <4>1. f[i] = Rank(i) + 1 /\ f[k] = Rank(k) + 1
        OBVIOUS
      <4> HIDE DEF Rank, f
      <4> QED
        BY <4>1, <2>2, <1>3
    <3>2. i < k \/ k < i \/ i = k
      BY <1>1
    <3> HIDE DEF Rank
    <3> QED
      BY <3>1, <3>2, <1>4
  <2> HIDE DEF f
  <2> QED
    BY <2>1, <2>2 DEF Injection, IsInjective
<1>6. f \in Surjection(P, 1 .. N)
  <2>1. IsFiniteSet(1 .. N) /\ Cardinality(1 .. N) = N
    BY <1>2, FS_Interval
  <2> HIDE DEF f
  <2> QED
    BY <2>1, <1>5, FS_Injection
<1>7. ASSUME NEW n \in 1 .. N PROVE \E i \in P : Rank(i) = n - 1
  <2>1. PICK i \in P : f[i] = n
    BY <1>6 DEF Surjection
  <2>2. Rank(i) + 1 = n
    BY <2>1
  <2> HIDE DEF Rank
  <2> QED
    BY <2>2, <1>3
<1> DEFINE C(n) == CHOOSE i \in P : Rank(i) = n - 1
<1>8. ASSUME NEW n \in 1 .. N PROVE C(n) \in P /\ Rank(C(n)) = n - 1
  <2> HIDE DEF Rank
  <2> QED
    BY <1>7
<1>9. Picked(s, P) = [n \in 1 .. N |-> s[C(n)]]
  BY DEF Picked
<1>10. ASSUME NEW i \in P PROVE Rank(i) + 1 \in 1 .. N /\ C(Rank(i) + 1) = i
  <2>1. Rank(i) + 1 \in 1 .. N /\ (Rank(i) + 1) - 1 = Rank(i)
    <3> HIDE DEF Rank, N
    <3> QED
      BY <1>2, <1>3
  <2>2. C(Rank(i) + 1) \in P /\ Rank(C(Rank(i) + 1)) = Rank(i)
    <3> HIDE DEF C
    <3> QED
      BY <1>8, <2>1
  <2>3. ASSUME NEW k \in P, Rank(k) = Rank(i) PROVE k = i
    <3>1. i < k \/ k < i \/ i = k
      BY <1>1
    <3> HIDE DEF Rank
    <3> QED
      BY <3>1, <2>3, <1>4
  <2> HIDE DEF Rank, C
  <2> QED
    BY <2>1, <2>2, <2>3
<1> HIDE DEF C, Rank, N
<1>11. Picked(s, P) \in Seq(T)
  <2>1. \A n \in 1 .. N : s[C(n)] \in T
    BY <1>8, <1>1, ElementOfSeq
  <2> QED
    BY <2>1, <1>2, <1>9, IsASeq
<1> QED
  BY <1>8, <1>9, <1>10, <1>11

-----------------------------------------------------------------------------
(* Props, and what of a list of them is told apart here.                   *)
PropT == [gid : Nat \ {0}, kind : Kind, owner : Int, loc : Loc]
List == Seq(PropT)
TagOf(p) == [gid |-> p.gid, kind |-> p.kind]
Tags(s) == {TagOf(s[i]) : i \in DOMAIN s}

(* A list with the starter bag in it: what is numbered Bag1 is a bag.      *)
HasBag(s) ==
  Bag1 \in Gids(s) /\ \A t \in Tags(s) : t.gid = Bag1 => t.kind = "bag"

(* No number on two kinds of prop; no number from n on.                    *)
Named(s) == \A t, u \in Tags(s) : t.gid = u.gid => t = u
Below(s, n) == \A t \in Tags(s) : t.gid < n

FirstGood == Len(StarterWeapons) + 5

(* Numbers, bags and goods are read off the tags.                          *)
LEMMA ReadOffTags ==
  ASSUME NEW s \in List
  PROVE  /\ Tags(s) \subseteq [gid : Nat \ {0}, kind : Kind]
         /\ Gids(s) = {t.gid : t \in Tags(s)}
         /\ Bags(s) = {t.gid : t \in {u \in Tags(s) : u.kind = "bag"}}
         /\ GoodsIn(s) = {t \in Tags(s) : t.gid \notin StarterGids}
         /\ Mounted(s) \subseteq Bags(s)
<1>1. DOMAIN s = 1 .. Len(s) /\ \A i \in DOMAIN s : s[i] \in PropT
  BY LenProperties, ElementOfSeq DEF List
<1>2. Tags(s) \subseteq [gid : Nat \ {0}, kind : Kind]
  BY <1>1 DEF Tags, TagOf, PropT
<1>3. \A i \in DOMAIN s : TagOf(s[i]).gid = s[i].gid /\ TagOf(s[i]).kind = s[i].kind
  BY DEF TagOf
<1>4. Gids(s) = {t.gid : t \in Tags(s)}
  BY <1>3 DEF Gids, Tags
<1>5. Bags(s) = {t.gid : t \in {u \in Tags(s) : u.kind = "bag"}}
  <2>1. ASSUME NEW g \in Bags(s) PROVE g \in {t.gid : t \in {u \in Tags(s) : u.kind = "bag"}}
    <3>1. PICK i \in DOMAIN s : s[i].kind = "bag" /\ g = s[i].gid
      BY DEF Bags
    <3>2. TagOf(s[i]) \in Tags(s)
      BY DEF Tags
    <3> QED
      BY <1>3, <3>1, <3>2
  <2>2. ASSUME NEW t \in Tags(s), t.kind = "bag" PROVE t.gid \in Bags(s)
    <3>1. PICK i \in DOMAIN s : t = TagOf(s[i])
      BY DEF Tags
    <3> QED
      BY <1>3, <3>1, <2>2 DEF Bags
  <2> QED
    BY <2>1, <2>2
<1>6. GoodsIn(s) = {t \in Tags(s) : t.gid \notin StarterGids}
  <2>1. GoodsIn(s) = {TagOf(s[i]) : i \in {j \in DOMAIN s : s[j].gid \notin StarterGids}}
    BY DEF GoodsIn, TagOf
  <2> QED
    BY <2>1, <1>3 DEF Tags
<1>7. Mounted(s) \subseteq Bags(s)
  BY DEF Mounted, Bags
<1> QED
  BY <1>2, <1>4, <1>5, <1>6, <1>7

(* The numbers in a list are finitely many.                                *)
LEMMA GidsFinite ==
  ASSUME NEW s \in List
  PROVE  IsFiniteSet(Gids(s)) /\ Gids(s) \in SUBSET Nat
<1>1. DOMAIN s = 1 .. Len(s) /\ Len(s) \in Nat
  BY LenProperties DEF List
<1>2. [i \in 1 .. Len(s) |-> s[i].gid] \in Surjection(1 .. Len(s), Gids(s))
  BY <1>1 DEF Surjection, Gids
<1>3. IsFiniteSet(1 .. Len(s))
  BY <1>1, FS_Interval
<1>4. IsFiniteSet(Gids(s))
  BY <1>2, <1>3, FS_Surjection
<1>5. \A t \in Tags(s) : t.gid \in Nat
  BY ReadOffTags
<1> QED
  BY <1>4, <1>5, ReadOffTags

(* Owners and locations change, props and their order do not.              *)
LEMMA Reshaped ==
  ASSUME NEW s \in List, NEW t, t = [i \in DOMAIN s |-> t[i]],
         \A i \in DOMAIN s : t[i] \in PropT /\ t[i].gid = s[i].gid /\ t[i].kind = s[i].kind
  PROVE  /\ t \in List /\ Tags(t) = Tags(s)
         /\ (\A i \in DOMAIN s : t[i].kind = "bag" /\ t[i].owner = Root => s[i].owner = Root)
              => Mounted(t) \subseteq Mounted(s)
<1>1. DOMAIN s = 1 .. Len(s) /\ Len(s) \in Nat /\ DOMAIN t = DOMAIN s
  BY LenProperties DEF List
<1>2. t \in List
  <2>1. t = [i \in 1 .. Len(s) |-> t[i]] /\ \A i \in 1 .. Len(s) : t[i] \in PropT
    BY <1>1
  <2> QED
    BY <2>1, <1>1, IsASeq DEF List
<1>3. Tags(t) = Tags(s)
  <2>1. \A i \in DOMAIN s : TagOf(t[i]) = TagOf(s[i])
    BY DEF TagOf
  <2> QED
    BY <2>1, <1>1 DEF Tags
<1>4. ASSUME \A i \in DOMAIN s : t[i].kind = "bag" /\ t[i].owner = Root => s[i].owner = Root,
             NEW g \in Mounted(t)
      PROVE  g \in Mounted(s)
  <2>1. PICK i \in DOMAIN t : t[i].kind = "bag" /\ t[i].owner = Root /\ g = t[i].gid
    BY DEF Mounted
  <2>2. i \in DOMAIN s /\ s[i].kind = "bag" /\ s[i].owner = Root /\ g = s[i].gid
    BY <2>1, <1>1, <1>4
  <2> QED
    BY <2>2 DEF Mounted
<1> QED
  BY <1>2, <1>3, <1>4

(* The props of two lists one after the other.                             *)
LEMMA Concatenated ==
  ASSUME NEW s \in List, NEW t \in List
  PROVE  /\ s \o t \in List /\ Tags(s \o t) = Tags(s) \cup Tags(t)
         /\ Mounted(s \o t) \subseteq Mounted(s) \cup Mounted(t)
<1> DEFINE c == s \o t
<1>1. /\ c \in List /\ Len(c) = Len(s) + Len(t)
      /\ \A i \in 1 .. Len(s) + Len(t) :
           c[i] = IF i <= Len(s) THEN s[i] ELSE t[i - Len(s)]
  BY ConcatProperties DEF List
<1>2. /\ DOMAIN s = 1 .. Len(s) /\ DOMAIN t = 1 .. Len(t) /\ DOMAIN c = 1 .. Len(s) + Len(t)
      /\ Len(s) \in Nat /\ Len(t) \in Nat
  BY <1>1, LenProperties DEF List
<1>3. \A i \in DOMAIN c : (\E j \in DOMAIN s : c[i] = s[j]) \/ \E j \in DOMAIN t : c[i] = t[j]
  BY <1>1, <1>2
<1>4. \A j \in DOMAIN s : j \in DOMAIN c /\ c[j] = s[j]
  BY <1>1, <1>2
<1>5. \A j \in DOMAIN t : Len(s) + j \in DOMAIN c /\ c[Len(s) + j] = t[j]
  BY <1>1, <1>2
<1> HIDE DEF c
<1>6. Tags(c) \subseteq Tags(s) \cup Tags(t)
  BY <1>3 DEF Tags
<1>7. Tags(s) \subseteq Tags(c) /\ Tags(t) \subseteq Tags(c)
  BY <1>4, <1>5 DEF Tags
<1>8. Mounted(c) \subseteq Mounted(s) \cup Mounted(t)
  BY <1>3 DEF Mounted
<1> QED
  BY <1>1, <1>6, <1>7, <1>8 DEF c

(* Whoever picks places of a list has the tags at these places.            *)
LEMMA PickedTags ==
  ASSUME NEW s \in List, NEW P \in SUBSET DOMAIN s
  PROVE  /\ Picked(s, P) \in List
         /\ Tags(Picked(s, P)) = {TagOf(s[i]) : i \in P}
         /\ Mounted(Picked(s, P)) \subseteq Mounted(s)
<1>1. /\ Picked(s, P) \in List
      /\ \A n \in DOMAIN Picked(s, P) : \E i \in P : Picked(s, P)[n] = s[i]
      /\ \A i \in P : \E n \in DOMAIN Picked(s, P) : Picked(s, P)[n] = s[i]
  BY PickedMembers DEF List
<1>2. Tags(Picked(s, P)) = {TagOf(s[i]) : i \in P}
  BY <1>1 DEF Tags
<1>3. Mounted(Picked(s, P)) \subseteq Mounted(s)
  BY <1>1 DEF Mounted
<1> QED
  BY <1>1, <1>2, <1>3

(* Keeping the first prop of each number loses no number, and nothing at   *)
(* all where no number has two kinds.                                      *)
LEMMA FirstOfEachTags ==
  ASSUME NEW s \in List
  PROVE  /\ FirstOfEach(s) \in List /\ Tags(FirstOfEach(s)) \subseteq Tags(s)
         /\ Gids(FirstOfEach(s)) = Gids(s)
<1> DEFINE P == {i \in DOMAIN s : \A j \in 1 .. i - 1 : s[j].gid # s[i].gid}
<1>1. DOMAIN s = 1 .. Len(s) /\ Len(s) \in Nat
  BY LenProperties DEF List
<1>2. FirstOfEach(s) = Picked(s, P)
  BY DEF FirstOfEach
<1>3. P \in SUBSET DOMAIN s
  OBVIOUS
<1>4. FirstOfEach(s) \in List /\ Tags(FirstOfEach(s)) = {TagOf(s[i]) : i \in P}
  <2> HIDE DEF P
  <2> QED
    BY <1>2, <1>3, PickedTags
<1>5. Tags(FirstOfEach(s)) \subseteq Tags(s)
  BY <1>4 DEF Tags
<1>6. ASSUME NEW g \in Gids(s) PROVE g \in Gids(FirstOfEach(s))
  <2> DEFINE S == {i \in DOMAIN s : s[i].gid = g}
  <2>1. S \in SUBSET Nat /\ S # {}
    BY <1>1 DEF Gids
  <2>2. PICK m \in S : \A k \in S : m <= k
    <3> HIDE DEF S
    <3> QED
      BY <2>1, LeastNatural
  <2>3. m \in P
    BY <1>1, <2>2
  <2>4. TagOf(s[m]) \in Tags(FirstOfEach(s)) /\ TagOf(s[m]).gid = g
    BY <1>4, <2>2, <2>3 DEF TagOf
  <2>5. Gids(FirstOfEach(s)) = {t.gid : t \in Tags(FirstOfEach(s))}
    BY <1>4, ReadOffTags
  <2> QED
    BY <2>4, <2>5
<1>7. Gids(FirstOfEach(s)) \subseteq Gids(s)
  <2>1. /\ Gids(FirstOfEach(s)) = {t.gid : t \in Tags(FirstOfEach(s))}
        /\ Gids(s) = {t.gid : t \in Tags(s)}
    BY <1>4, ReadOffTags
  <2> QED
    BY <2>1, <1>5
<1> QED
  BY <1>4, <1>5, <1>6, <1>7

(* What has one of the tags of a list but of one number.                   *)
LEMMA WithoutTags ==
  ASSUME NEW s \in List, NEW g
  PROVE  /\ Without(s, g) \in List /\ Tags(Without(s, g)) = {t \in Tags(s) : t.gid # g}
         /\ Mounted(Without(s, g)) \subseteq Mounted(s)
<1> DEFINE P == {i \in DOMAIN s : s[i].gid # g}
<1>1. P \in SUBSET DOMAIN s /\ Without(s, g) = Picked(s, P)
  BY DEF Without
<1>2. {TagOf(s[i]) : i \in P} = {t \in Tags(s) : t.gid # g}
  BY DEF Tags, TagOf
<1> HIDE DEF P
<1> QED
  BY <1>1, <1>2, PickedTags

(* An interval from one determines its end.                                *)
LEMMA SameInterval ==
  ASSUME NEW a \in Nat, NEW b \in Nat, 1 .. a = 1 .. b
  PROVE  a = b
<1>1. ASSUME a < b PROVE FALSE
  <2>1. b \in 1 .. b /\ b \notin 1 .. a
    BY <1>1
  <2> QED
    BY <2>1
<1>2. ASSUME b < a PROVE FALSE
  <2>1. a \in 1 .. a /\ a \notin 1 .. b
    BY <1>2
  <2> QED
    BY <2>1
<1> QED
  BY <1>1, <1>2

-----------------------------------------------------------------------------
(* The props of the start are numbered by their places.                    *)
LEMMA StarterFacts ==
  /\ FirstGood \in Nat \ {0} /\ Starter \in List /\ Len(Starter) + 1 = FirstGood
  /\ Gids(Starter) = StarterGids /\ GoodsIn(Starter) = {}
  /\ Named(Starter) /\ HasBag(Starter) /\ Below(Starter, FirstGood)
<1> DEFINE L == Len(StarterWeapons)
           A == <<Prop(RoleGid, "role1", Root, "role1"),
                  Prop(Bag1, "bag", Root, "bag"), Prop(Bag2, "bag", Root, "bag")>>
           B == [i \in DOMAIN StarterWeapons |->
                   Prop(3 + i, StarterWeapons[i], Bag1, StarterWeapons[i])]
           C == <<Prop(4 + Len(StarterWeapons), "part", RoleGid, "part")>>
<1>1. /\ L \in Nat /\ DOMAIN StarterWeapons = 1 .. L
      /\ \A i \in 1 .. L : StarterWeapons[i] \in Slot
  BY MallAssumption, LenProperties, ElementOfSeq
<1>2. A \in List /\ Len(A) = 3 /\ A[1].gid = 1 /\ A[2].gid = 2 /\ A[3].gid = 3 /\ A[2].kind = "bag"
  BY DEF List, PropT, Prop, RoleGid, Bag1, Bag2, Root, Kind, Loc, RoleKind, Slot
<1>3. B \in List /\ Len(B) = L /\ \A i \in 1 .. L : B[i].gid = 3 + i
  <2>1. \A i \in 1 .. L : Prop(3 + i, StarterWeapons[i], Bag1, StarterWeapons[i]) \in PropT
    BY <1>1 DEF PropT, Prop, Kind, Loc, Bag1
  <2>2. B = [i \in 1 .. L |-> Prop(3 + i, StarterWeapons[i], Bag1, StarterWeapons[i])]
    BY <1>1
  <2>3. B \in List
    <3> HIDE DEF L, B
    <3> QED
      BY <2>1, <2>2, <1>1, IsASeq DEF List
  <2>4. DOMAIN B = 1 .. Len(B) /\ Len(B) \in Nat
    <3> HIDE DEF B
    <3> QED
      BY <2>3, LenProperties DEF List
  <2>5. DOMAIN B = 1 .. L
    BY <2>2
  <2>6. Len(B) = L
    <3> HIDE DEF B, L
    <3>1. 1 .. Len(B) = 1 .. L
      BY <2>4, <2>5
    <3> QED
      BY <3>1, <2>4, <1>1, SameInterval
  <2>7. \A i \in 1 .. L : B[i].gid = 3 + i
    BY <2>2 DEF Prop
  <2> QED
    BY <2>3, <2>6, <2>7
<1>4. C \in List /\ Len(C) = 1 /\ C[1].gid = 4 + L
  BY <1>1 DEF List, PropT, Prop, RoleGid, Kind, Loc
<1>5. Starter = (A \o B) \o C
  BY DEF Starter
<1> HIDE DEF A, B, C, L
<1>6. /\ A \o B \in List /\ Len(A \o B) = 3 + L
      /\ \A i \in 1 .. 3 + L : (A \o B)[i] = IF i <= 3 THEN A[i] ELSE B[i - 3]
  <2>1. /\ A \o B \in List /\ Len(A \o B) = Len(A) + Len(B)
        /\ \A i \in 1 .. Len(A) + Len(B) :
             (A \o B)[i] = IF i <= Len(A) THEN A[i] ELSE B[i - Len(A)]
    BY <1>2, <1>3, ConcatProperties DEF List
  <2> QED
    BY <2>1, <1>2, <1>3
<1>7. /\ Starter \in List /\ Len(Starter) = 4 + L
      /\ \A i \in 1 .. 4 + L : Starter[i] = IF i <= 3 + L THEN (A \o B)[i] ELSE C[i - (3 + L)]
  <2>1. (3 + L) + 1 = 4 + L
    BY <1>1
  <2>2. /\ Starter \in List /\ Len(Starter) = Len(A \o B) + Len(C)
        /\ \A i \in 1 .. Len(A \o B) + Len(C) :
             Starter[i] = IF i <= Len(A \o B) THEN (A \o B)[i] ELSE C[i - Len(A \o B)]
    <3>1. PICK D : D = A \o B
      OBVIOUS
    <3>2. D \in Seq(PropT) /\ C \in Seq(PropT) /\ Starter = D \o C
      BY <3>1, <1>4, <1>5, <1>6 DEF List
    <3>3. /\ D \o C \in Seq(PropT) /\ Len(D \o C) = Len(D) + Len(C)
          /\ \A i \in 1 .. Len(D) + Len(C) :
               (D \o C)[i] = IF i <= Len(D) THEN D[i] ELSE C[i - Len(D)]
      BY <3>2, ConcatProperties
    <3> QED
      BY <3>1, <3>2, <3>3 DEF List
  <2> QED
    BY <2>1, <2>2, <1>4, <1>6
<1>8. ASSUME NEW i \in 1 .. 4 + L PROVE Starter[i].gid = i
  <2>1. CASE i <= 3
    <3>1. i = 1 \/ i = 2 \/ i = 3
      BY <2>1, <1>1
    <3>2. Starter[i] = A[i]
      BY <2>1, <1>1, <1>6, <1>7
    <3> QED
      BY <3>1, <3>2, <1>2
  <2>2. CASE 3 < i /\ i <= 3 + L
    <3>1. i - 3 \in 1 .. L /\ i \in 1 .. 3 + L /\ ~ i <= 3
      BY <2>2, <1>1
    <3>3. Starter[i] = B[i - 3]
      BY <3>1, <2>2, <1>6, <1>7
    <3>2. B[i - 3].gid = 3 + (i - 3)
      BY <3>1, <1>3
    <3> QED
      BY <3>1, <3>2, <3>3, <1>1
  <2>3. CASE 3 + L < i
    <3>1. i = 4 + L /\ i - (3 + L) = 1
      BY <2>3, <1>1
    <3>2. Starter[i] = C[1]
      BY <3>1, <2>3, <1>1, <1>7
    <3> QED
      BY <3>1, <3>2, <1>4
  <2> QED
    BY <2>1, <2>2, <2>3, <1>1
<1>9. DOMAIN Starter = 1 .. 4 + L /\ StarterGids = 1 .. 4 + L /\ FirstGood = 5 + L
  BY <1>1, <1>7, LenProperties DEF List, StarterGids, FirstGood, L
<1>10. Gids(Starter) = StarterGids
  BY <1>8, <1>9 DEF Gids
<1>11. GoodsIn(Starter) = {}
  BY <1>7, <1>10, ReadOffTags
<1>12. Named(Starter)
  BY <1>8, <1>9 DEF Named, Tags, TagOf
<1>13. Below(Starter, FirstGood)
  BY <1>1, <1>8, <1>9 DEF Below, Tags, TagOf
<1>14. HasBag(Starter)
  <2>1. Bag1 \in StarterGids
    BY <1>1, <1>9 DEF Bag1
  <2>2. Starter[2] = A[2]
    BY <1>1, <1>6, <1>7
  <2>3. \A t \in Tags(Starter) : t.gid = 2 => t.kind = "bag"
    BY <2>2, <1>1, <1>2, <1>8, <1>9 DEF Tags, TagOf
  <2> QED
    BY <2>1, <2>3, <1>10 DEF HasBag, Bag1
<1> QED
  BY <1>1, <1>7, <1>9, <1>10, <1>11, <1>12, <1>13, <1>14

(* What is put back at a load are the starter props whose numbers are      *)
(* gone.                                                                   *)
LEMMA MissingTags ==
  ASSUME NEW s \in List
  PROVE  /\ Missing(s) \in List
         /\ Tags(Missing(s)) = {t \in Tags(Starter) : t.gid \notin Gids(s)}
<1> DEFINE P == {i \in DOMAIN Starter : Starter[i].gid \notin Gids(s)}
<1>1. P \in SUBSET DOMAIN Starter /\ Missing(s) = Picked(Starter, P)
  BY DEF Missing
<1>2. {TagOf(Starter[i]) : i \in P} = {t \in Tags(Starter) : t.gid \notin Gids(s)}
  BY DEF Tags, TagOf
<1> HIDE DEF P
<1> QED
  BY <1>1, <1>2, StarterFacts, PickedTags

(* The list that a start makes of the one in the file.                     *)
LEMMA LoadedList ==
  ASSUME NEW s \in List
  PROVE  LET l == FirstOfEach(s) \o Missing(s)
         IN  /\ l \in List /\ Gids(l) = Gids(s) \cup StarterGids
             /\ HasBag(s) => HasBag(l)
             /\ Named(s) => Named(l) /\ GoodsIn(l) = GoodsIn(s)
<1> DEFINE l == FirstOfEach(s) \o Missing(s)
<1>1. /\ FirstOfEach(s) \in List /\ Tags(FirstOfEach(s)) \subseteq Tags(s)
      /\ Gids(FirstOfEach(s)) = Gids(s)
  BY FirstOfEachTags
<1>2. /\ Missing(s) \in List
      /\ Tags(Missing(s)) = {t \in Tags(Starter) : t.gid \notin Gids(s)}
  BY MissingTags
<1>3. l \in List /\ Tags(l) = Tags(FirstOfEach(s)) \cup Tags(Missing(s))
  BY <1>1, <1>2, Concatenated
<1> HIDE DEF l
<1>4. /\ Gids(l) = {t.gid : t \in Tags(l)} /\ Gids(s) = {t.gid : t \in Tags(s)}
      /\ Gids(FirstOfEach(s)) = {t.gid : t \in Tags(FirstOfEach(s))}
      /\ StarterGids = {t.gid : t \in Tags(Starter)}
  BY <1>1, <1>3, ReadOffTags, StarterFacts
<1>5. Gids(l) = Gids(s) \cup StarterGids
  <2>1. Gids(l) = Gids(FirstOfEach(s)) \cup {t.gid : t \in Tags(Missing(s))}
    BY <1>3, <1>4
  <2>2. Gids(FirstOfEach(s)) = Gids(s)
    BY <1>1
  <2>3. {t.gid : t \in Tags(Missing(s))} = StarterGids \ Gids(s)
    BY <1>2, <1>4
  <2> QED
    BY <2>1, <2>2, <2>3
<1>6. ASSUME HasBag(s) PROVE HasBag(l)
  <2>1. \A t \in Tags(l) : t.gid = Bag1 => t.kind = "bag"
    BY <1>1, <1>2, <1>3, <1>6 DEF HasBag
  <2> QED
    BY <2>1, <1>5, <1>6 DEF HasBag
<1>7. ASSUME Named(s) PROVE Named(l) /\ GoodsIn(l) = GoodsIn(s)
  <2>1. Tags(FirstOfEach(s)) = Tags(s)
    <3> SUFFICES ASSUME NEW t \in Tags(s) PROVE t \in Tags(FirstOfEach(s))
      BY <1>1
    <3>1. PICK u \in Tags(FirstOfEach(s)) : u.gid = t.gid
      BY <1>1, <1>4
    <3> QED
      BY <3>1, <1>1, <1>7 DEF Named
  <2>2. Named(l)
    <3>1. \A t \in Tags(s), u \in Tags(Missing(s)) : t.gid # u.gid
      BY <1>2, <1>4
    <3>2. \A t, u \in Tags(Missing(s)) : t.gid = u.gid => t = u
      BY <1>2, StarterFacts DEF Named
    <3> QED
      BY <3>1, <3>2, <2>1, <1>3, <1>7 DEF Named
  <2>3. /\ GoodsIn(l) = {t \in Tags(l) : t.gid \notin StarterGids}
        /\ GoodsIn(s) = {t \in Tags(s) : t.gid \notin StarterGids}
    BY <1>3, ReadOffTags
  <2>4. \A t \in Tags(Missing(s)) : t.gid \in StarterGids
    BY <1>2, <1>4
  <2> QED
    BY <2>1, <2>2, <2>3, <2>4, <1>3
<1> QED
  BY <1>3, <1>5, <1>6, <1>7 DEF l

-----------------------------------------------------------------------------
(* Only the bag that is asked for is mounted, and it is if there is one.   *)
LEMMA MountedOnly ==
  ASSUME NEW s \in List, NEW b
  PROVE  /\ MountOnly(s, b) \in List /\ Tags(MountOnly(s, b)) = Tags(s)
         /\ Mounted(MountOnly(s, b)) \subseteq {b}
         /\ b \in Bags(s) => b \in Mounted(MountOnly(s, b))
<1> DEFINE t == MountOnly(s, b)
<1>1. \A i \in DOMAIN s : s[i] \in PropT
  BY LenProperties, ElementOfSeq DEF List
<1>2. ASSUME NEW i \in DOMAIN s
      PROVE  /\ t[i] = IF s[i].kind = "bag"
                       THEN [s[i] EXCEPT !.owner = IF s[i].gid = b THEN Root ELSE 0,
                                         !.loc = "bag"]
                       ELSE s[i]
             /\ t[i] \in PropT /\ t[i].gid = s[i].gid /\ t[i].kind = s[i].kind
             /\ t[i].kind = "bag" /\ t[i].owner = Root => t[i].gid = b
             /\ s[i].kind = "bag" /\ s[i].gid = b => t[i].owner = Root
  <2>1. t[i] = IF s[i].kind = "bag"
               THEN [s[i] EXCEPT !.owner = IF s[i].gid = b THEN Root ELSE 0, !.loc = "bag"]
               ELSE s[i]
    BY DEF MountOnly
  <2>2. (IF s[i].gid = b THEN Root ELSE 0) \in Int /\ "bag" \in Loc
    BY DEF Root, Loc
  <2>3. t[i] \in PropT /\ t[i].gid = s[i].gid /\ t[i].kind = s[i].kind
    <3> HIDE DEF t
    <3> QED
      BY <1>1, <2>1, <2>2 DEF PropT
  <2>4. t[i].kind = "bag" /\ t[i].owner = Root => t[i].gid = b
    <3> HIDE DEF t
    <3> QED
      BY <1>1, <2>1, <2>3 DEF PropT, Root
  <2>5. s[i].kind = "bag" /\ s[i].gid = b => t[i].owner = Root
    <3> HIDE DEF t
    <3> QED
      BY <1>1, <2>1 DEF PropT
  <2> QED
    BY <2>1, <2>3, <2>4, <2>5
<1>3. t = [i \in DOMAIN s |-> t[i]] /\ DOMAIN t = DOMAIN s
  BY DEF MountOnly
<1> HIDE DEF t
<1>4. t \in List /\ Tags(t) = Tags(s)
  BY <1>2, <1>3, Reshaped
<1>5. Mounted(t) \subseteq {b}
  <2>1. ASSUME NEW g \in Mounted(t) PROVE g = b
    <3>1. PICK i \in DOMAIN t : t[i].kind = "bag" /\ t[i].owner = Root /\ g = t[i].gid
      BY DEF Mounted
    <3>2. i \in DOMAIN s
      BY <1>3
    <3> QED
      BY <3>1, <3>2, <1>2
  <2> QED
    BY <2>1
<1>6. ASSUME b \in Bags(s) PROVE b \in Mounted(t)
  <2>1. PICK i \in DOMAIN s : s[i].kind = "bag" /\ s[i].gid = b
    BY <1>6 DEF Bags
  <2>2. i \in DOMAIN t /\ t[i].kind = "bag" /\ t[i].owner = Root /\ t[i].gid = b
    BY <1>2, <1>3, <2>1
  <2> QED
    BY <2>2 DEF Mounted
<1> QED
  BY <1>4, <1>5, <1>6 DEF t

(* The current bag is one of the bags there are.                           *)
LEMMA CurrentBagKnown ==
  ASSUME NEW s \in List, HasBag(s), NEW b
  PROVE  Bag1 \in Bags(s) /\ CurrentBag(s, b) \in Bags(s) /\ Bags(s) \subseteq Nat
<1>1. Bag1 \in Bags(s)
  <2>1. PICK t \in Tags(s) : t.gid = Bag1
    BY ReadOffTags DEF HasBag
  <2> QED
    BY <2>1, ReadOffTags DEF HasBag
<1>2. ASSUME Cardinality(Mounted(s)) = 1 PROVE Mounted(s) # {}
  BY <1>2, FS_EmptySet
<1>3. Mounted(s) \subseteq Bags(s)
  BY ReadOffTags
<1>4. Bags(s) \subseteq Nat
  <2>1. Bags(s) \subseteq Gids(s)
    BY DEF Bags, Gids
  <2> QED
    BY <2>1, GidsFinite
<1> QED
  BY <1>1, <1>2, <1>3, <1>4 DEF CurrentBag

(* The next number never sinks, is above every number in use, and stays    *)
(* what it is where it is already above them.                              *)
LEMMA NextGidAbove ==
  ASSUME NEW s \in List, Gids(s) # {}, NEW n \in Nat
  PROVE  /\ NextGid(s, n) \in Nat /\ NextGid(s, n) >= n /\ Below(s, NextGid(s, n))
         /\ Below(s, n) => NextGid(s, n) = n
<1>1. Max(Gids(s)) \in Gids(s) /\ \A k \in Gids(s) : Max(Gids(s)) >= k
  BY GidsFinite, GreatestNatural
<1>2. Gids(s) \subseteq Nat /\ Gids(s) = {t.gid : t \in Tags(s)}
  BY GidsFinite, ReadOffTags
<1>3. Max(Gids(s)) \in Nat
  BY <1>1, <1>2
<1>4. NextGid(s, n) = IF n > Max(Gids(s)) THEN n ELSE Max(Gids(s)) + 1
  BY DEF NextGid
<1>5. Below(s, NextGid(s, n))
  <2> SUFFICES ASSUME NEW t \in Tags(s) PROVE t.gid < NextGid(s, n)
    BY DEF Below
  <2>1. t.gid \in Nat /\ t.gid <= Max(Gids(s))
    BY <1>1, <1>2
  <2> QED
    BY <2>1, <1>3, <1>4
<1>6. Below(s, n) => n > Max(Gids(s))
  <2>1. \E t \in Tags(s) : t.gid = Max(Gids(s))
    BY <1>1, <1>2
  <2> QED
    BY <2>1, <1>3 DEF Below
<1> QED
  BY <1>3, <1>4, <1>5, <1>6

-----------------------------------------------------------------------------
(* States of the mall that may be saved, and what may be in the file.      *)
StateT == [inventory : List, wallet : Int, role : Nat, bag : Nat, next : Nat]
SoundStates == {x \in StateT : HasBag(x.inventory) /\ x.next >= FirstGood}
Files == {<<>>} \cup {<<x>> : x \in SoundStates}

(* A debt is forgiven when the state is loaded.                            *)
WorthOf(coins) == {coins, IF coins < 0 THEN 0 ELSE coins}

PC == {"idle", "pick", "take", "extend", "wallet", "pay", "snapshot", "dump",
       "replace", "reply", "assign"}
Thread == [pc : PC, todo : Seq(Kind), got : List, charge : Nat, cand : Nat,
           seen : Int, image : Files, kept : List, gone : Nat]

(* What is bought is numbered above the starter props and owned by a prop  *)
(* or nobody; what a drop is about to assign has the starter bag.          *)
ThreadSound(o) ==
  /\ \A i \in DOMAIN o.got : o.got[i].gid >= FirstGood /\ o.got[i].owner >= 0
  /\ o.pc \in {"pick", "take"} => o.todo # <<>>
  /\ o.pc = "take" => o.cand >= FirstGood
  /\ o.pc = "replace" => o.image # <<>>
  /\ o.pc = "assign" => HasBag(o.kept)

MallType ==
  inv \in List /\ st \in SoundStates /\ file \in Files /\ op \in [Conn -> Thread]

(* What holds of the lists: none loses the starter bag.                    *)
MallInv ==
  /\ MallType
  /\ HasBag(inv)
  /\ \A c \in Conn : ThreadSound(op[c])

(* Lists with the same tags have the same numbers, bags and goods.         *)
LEMMA SameTags ==
  ASSUME NEW s \in List, NEW t \in List, Tags(s) = Tags(t)
  PROVE  /\ Gids(s) = Gids(t) /\ Bags(s) = Bags(t) /\ GoodsIn(s) = GoodsIn(t)
         /\ HasBag(s) => HasBag(t)
<1>1. Gids(s) = Gids(t) /\ Bags(s) = Bags(t) /\ GoodsIn(s) = GoodsIn(t)
  BY ReadOffTags
<1> QED
  BY <1>1 DEF HasBag

(* What a start makes of the file.                                         *)
LEMMA StartedFrom ==
  ASSUME file \in Files
  PROVE  /\ Saved \in SoundStates
         /\ Started(file) \in SoundStates
         /\ Mounted(Started(file).inventory) = {Started(file).bag}
         /\ Started(file).wallet \in WorthOf(Saved.wallet)
         /\ Started(file).next >= Saved.next
         /\ Below(Started(file).inventory, Started(file).next)
         /\ Named(Saved.inventory) =>
              /\ Named(Started(file).inventory)
              /\ GoodsIn(Started(file).inventory) = GoodsIn(Saved.inventory)
<1>1. DefaultState \in SoundStates /\ Below(DefaultState.inventory, DefaultState.next)
  <2>1. DefaultState.inventory = Starter /\ DefaultState.next = FirstGood
    BY StarterFacts DEF DefaultState
  <2>2. DefaultState \in StateT
    BY StarterFacts, MallAssumption DEF DefaultState, StateT, RoleGid, Bag1
  <2>3. FirstGood >= FirstGood
    BY StarterFacts
  <2> QED
    BY <2>1, <2>2, <2>3, StarterFacts DEF SoundStates
<1>2. ASSUME NEW x \in SoundStates
      PROVE  /\ Loaded(x) \in SoundStates
             /\ Loaded(x).wallet \in WorthOf(x.wallet) /\ Loaded(x).next >= x.next
             /\ Below(Loaded(x).inventory, Loaded(x).next)
             /\ Named(x.inventory) =>
                  /\ Named(Loaded(x).inventory)
                  /\ GoodsIn(Loaded(x).inventory) = GoodsIn(x.inventory)
  <2>1. PICK l : l = FirstOfEach(x.inventory) \o Missing(x.inventory)
    OBVIOUS
  <2>2. Loaded(x) = [inventory |-> l, wallet |-> IF x.wallet < 0 THEN 0 ELSE x.wallet,
                     role |-> CurrentRole(l, x.role), bag |-> x.bag,
                     next |-> NextGid(l, x.next)]
    BY <2>1 DEF Loaded
  <2>3. x \in StateT /\ HasBag(x.inventory) /\ x.next >= FirstGood
    BY DEF SoundStates
  <2>4. x.inventory \in List /\ x.wallet \in Int /\ x.role \in Nat /\ x.bag \in Nat /\ x.next \in Nat
    BY <2>3 DEF StateT
  <2>5. /\ l \in List /\ Gids(l) = Gids(x.inventory) \cup StarterGids /\ HasBag(l)
        /\ Named(x.inventory) => Named(l) /\ GoodsIn(l) = GoodsIn(x.inventory)
    BY <2>1, <2>3, <2>4, LoadedList
  <2>6. Gids(l) # {}
    BY <2>3, <2>5 DEF HasBag
  <2>7. /\ NextGid(l, x.next) \in Nat /\ NextGid(l, x.next) >= x.next
        /\ Below(l, NextGid(l, x.next))
    BY <2>4, <2>5, <2>6, NextGidAbove
  <2>8. NextGid(l, x.next) >= FirstGood
    BY <2>3, <2>4, <2>7, StarterFacts
  <2>9. CurrentRole(l, x.role) \in Nat
    BY <2>4 DEF CurrentRole, RoleGid
  <2>10. (IF x.wallet < 0 THEN 0 ELSE x.wallet) \in Int
    BY <2>4
  <2>11. Loaded(x) \in StateT
    BY <2>2, <2>4, <2>5, <2>7, <2>9, <2>10 DEF StateT
  <2>12. Loaded(x).inventory = l /\ Loaded(x).next = NextGid(l, x.next)
    BY <2>2
  <2>13. Loaded(x).wallet \in WorthOf(x.wallet)
    BY <2>2 DEF WorthOf
  <2> QED
    BY <2>5, <2>7, <2>8, <2>11, <2>12, <2>13 DEF SoundStates
<1>3. Saved \in SoundStates
  BY <1>1 DEF Saved, Files
<1>4. PICK l : l = IF file = <<>> THEN DefaultState ELSE Loaded(file[1])
  OBVIOUS
<1>5. /\ l \in SoundStates /\ l.wallet \in WorthOf(Saved.wallet) /\ l.next >= Saved.next
      /\ Below(l.inventory, l.next)
      /\ Named(Saved.inventory) =>
           Named(l.inventory) /\ GoodsIn(l.inventory) = GoodsIn(Saved.inventory)
  <2>1. CASE file = <<>>
    <3>1. l = DefaultState /\ Saved = DefaultState
      BY <2>1, <1>4 DEF Saved
    <3>2. DefaultState.next \in Nat
      BY <1>1 DEF SoundStates, StateT
    <3>3. DefaultState.next >= DefaultState.next
      BY <3>2
    <3> QED
      BY <1>1, <3>1, <3>3 DEF WorthOf
  <2>2. CASE file # <<>>
    <3>1. l = Loaded(Saved)
      BY <2>2, <1>4 DEF Saved
    <3> QED
      BY <1>2, <1>3, <3>1
  <2> QED
    BY <2>1, <2>2
<1>6. PICK b : b = IF l.bag \in Bags(l.inventory) THEN l.bag ELSE Bag1
  OBVIOUS
<1>7. Started(file) = [l EXCEPT !.inventory = MountOnly(@, b), !.bag = b]
  BY <1>4, <1>6 DEF Started
<1>8. l \in StateT /\ l.inventory \in List /\ HasBag(l.inventory) /\ l.next >= FirstGood
  BY <1>5 DEF SoundStates, StateT
<1>9. b \in Nat
  BY <1>6, <1>8 DEF StateT, Bag1
<1>10. PICK m : m = MountOnly(l.inventory, b)
  OBVIOUS
<1>11. m \in List /\ Tags(m) = Tags(l.inventory) /\ Mounted(m) = {b}
  <2>1. b \in Bags(l.inventory)
    BY <1>6, <1>8, CurrentBagKnown
  <2> QED
    BY <1>8, <1>10, <2>1, MountedOnly
<1>12. GoodsIn(m) = GoodsIn(l.inventory) /\ HasBag(m)
  BY <1>8, <1>11, SameTags
<1>13. Started(file) = [l EXCEPT !.inventory = m, !.bag = b]
  BY <1>7, <1>10
<1>14. /\ Started(file) \in StateT /\ Started(file).inventory = m
       /\ Started(file).wallet = l.wallet /\ Started(file).next = l.next
       /\ Started(file).bag = b
  BY <1>8, <1>9, <1>11, <1>13 DEF StateT
<1>15. Started(file) \in SoundStates
  BY <1>8, <1>12, <1>14 DEF SoundStates
<1>16. Below(m, l.next) /\ (Named(l.inventory) => Named(m))
  BY <1>5, <1>11 DEF Below, Named
<1> QED
  BY <1>3, <1>5, <1>11, <1>12, <1>14, <1>15, <1>16

-----------------------------------------------------------------------------
(* Requests that move props about and change nothing else.                 *)
Equips(c) ==
  \/ \E g \in Gids(inv) : TakeOff(c, g) \/ EquipRole(c, g) \/ SelectBag(c, g)
  \/ \E g \in Gids(inv), target \in Targets, where \in Where :
        EquipItem(c, g, target, where)
  \/ \E bag \in {Bag1, Bag2}, slot \in Slot : EquipNothing(c, bag, slot)

(* A prop is left alone, stowed, or mounted somewhere if it is no bag.     *)
Moved(p, q) ==
  \/ q = p \/ q = Stowed(p)
  \/ p.kind # "bag" /\ \E o \in Int, l \in Loc : q = [p EXCEPT !.owner = o, !.loc = l]

(* A prop that is taken off is mounted to nobody.                          *)
LEMMA StowedProp ==
  ASSUME NEW p \in PropT
  PROVE  /\ Stowed(p) \in PropT /\ Stowed(p).gid = p.gid /\ Stowed(p).kind = p.kind
         /\ Stowed(p).owner # Root
<1>1. PICK o \in Int, l \in Loc : o = 0 /\ l = "bag"
  BY DEF Loc
<1>2. Stowed(p) = [p EXCEPT !.owner = o, !.loc = l]
  BY <1>1 DEF Stowed
<1>3. /\ Stowed(p) \in PropT /\ Stowed(p).gid = p.gid /\ Stowed(p).kind = p.kind
      /\ Stowed(p).owner = o
  BY <1>2 DEF PropT
<1> QED
  BY <1>1, <1>3 DEF Root

(* A list whose props are only moved keeps its numbers and kinds, and has  *)
(* no bag mounted that was not.                                            *)
LEMMA MovedList ==
  ASSUME NEW s \in List, NEW t, t = [i \in DOMAIN s |-> t[i]],
         \A i \in DOMAIN s : Moved(s[i], t[i])
  PROVE  t \in List /\ Tags(t) = Tags(s) /\ Mounted(t) \subseteq Mounted(s)
<1>1. \A i \in DOMAIN s : s[i] \in PropT
  BY LenProperties, ElementOfSeq DEF List
<1>2. ASSUME NEW i \in DOMAIN s
      PROVE  /\ t[i] \in PropT /\ t[i].gid = s[i].gid /\ t[i].kind = s[i].kind
             /\ t[i].kind = "bag" /\ t[i].owner = Root => s[i].owner = Root
  <2>1. s[i] \in PropT /\ Moved(s[i], t[i])
    BY <1>1
  <2>2. CASE t[i] = s[i]
    BY <2>1, <2>2
  <2>3. CASE t[i] = Stowed(s[i])
    BY <2>1, <2>3, StowedProp
  <2>4. CASE s[i].kind # "bag" /\ \E o \in Int, l \in Loc :
               t[i] = [s[i] EXCEPT !.owner = o, !.loc = l]
    BY <2>1, <2>4 DEF PropT
  <2> QED
    BY <2>1, <2>2, <2>3, <2>4 DEF Moved
<1>3. t \in List /\ Tags(t) = Tags(s) /\ Mounted(t) \subseteq Mounted(s)
  BY <1>2, Reshaped
<1> QED
  BY <1>3

(* Equips and takeoffs of every kind: they move props, and go on to save.  *)
LEMMA EquipsKeeps ==
  ASSUME MallInv, NEW c \in Conn, Equips(c)
  PROVE  /\ inv' \in List /\ Tags(inv') = Tags(inv)
         /\ \/ st'.bag = st.bag /\ Mounted(inv') \subseteq Mounted(inv)
            \/ Mounted(inv') \subseteq {st'.bag}
         /\ st' \in SoundStates /\ st'.wallet = st.wallet /\ st'.next = st.next
         /\ Saving(c) /\ UNCHANGED <<file, told, retired>>
         /\ \E what : Request(c, what)
<1>1. /\ inv \in List /\ HasBag(inv)
      /\ st \in SoundStates /\ st \in StateT /\ HasBag(st.inventory) /\ st.next >= FirstGood
  BY DEF MallInv, MallType, SoundStates
<1>2. ASSUME NEW g \in Gids(inv), TakeOff(c, g)
      PROVE  /\ inv' \in List /\ Tags(inv') = Tags(inv)
             /\ Mounted(inv') \subseteq Mounted(inv) /\ st' = st
  <2>1. PICK t : t = [inv EXCEPT ![IndexOf(inv, g)] = Stowed(@)]
    OBVIOUS
  <2>2. t = [i \in DOMAIN inv |-> t[i]] /\ \A i \in DOMAIN inv : Moved(inv[i], t[i])
    BY <2>1 DEF Moved
  <2>3. inv' = t /\ st' = st
    BY <1>2, <2>1 DEF TakeOff
  <2> QED
    BY <1>1, <2>2, <2>3, MovedList
<1>3. ASSUME NEW bag \in {Bag1, Bag2}, NEW slot \in Slot, EquipNothing(c, bag, slot)
      PROVE  /\ inv' \in List /\ Tags(inv') = Tags(inv)
             /\ Mounted(inv') \subseteq Mounted(inv) /\ st' = st
  <2>1. PICK t : t = [i \in DOMAIN inv |->
                        IF i \in Removable(bag, slot) THEN Stowed(inv[i]) ELSE inv[i]]
    OBVIOUS
  <2>2. t = [i \in DOMAIN inv |-> t[i]] /\ \A i \in DOMAIN inv : Moved(inv[i], t[i])
    BY <2>1 DEF Moved
  <2>3. inv' = t /\ st' = st
    BY <1>3, <2>1 DEF EquipNothing
  <2> QED
    BY <1>1, <2>2, <2>3, MovedList
<1>4. ASSUME NEW g \in Gids(inv), EquipRole(c, g)
      PROVE  /\ inv' \in List /\ Tags(inv') = Tags(inv) /\ Mounted(inv') \subseteq Mounted(inv)
             /\ st' = [st EXCEPT !.role = g]
  <2>1. PICK i, slot : i = IndexOf(inv, g) /\ slot = inv[i].kind
    OBVIOUS
  <2>2. PICK t : t = [j \in DOMAIN inv |->
                   CASE j = i -> [inv[j] EXCEPT !.owner = Root, !.loc = slot]
                     [] j # i /\ inv[j].kind = slot /\ inv[j].owner # 0
                          /\ inv[j].loc = slot -> Stowed(inv[j])
                     [] OTHER -> inv[j]]
    OBVIOUS
  <2>3. inv' = t /\ st' = [st EXCEPT !.role = g] /\ slot \in RoleKind
    BY <1>4, <2>1, <2>2 DEF EquipRole
  <2>4. Root \in Int /\ slot \in Loc /\ slot # "bag"
    BY <2>3 DEF Root, Loc, RoleKind
  <2>5. \A j \in DOMAIN inv : Moved(inv[j], t[j])
    <3> SUFFICES ASSUME NEW j \in DOMAIN inv PROVE Moved(inv[j], t[j])
      OBVIOUS
    <3>1. CASE j = i
      <4>1. t[j] = [inv[j] EXCEPT !.owner = Root, !.loc = slot] /\ inv[j].kind = slot
        BY <3>1, <2>1, <2>2
      <4> QED
        BY <4>1, <2>4 DEF Moved
    <3>2. CASE j # i
      <4>1. t[j] = Stowed(inv[j]) \/ t[j] = inv[j]
        BY <3>2, <2>2
      <4> QED
        BY <4>1 DEF Moved
    <3> QED
      BY <3>1, <3>2
  <2>6. t = [j \in DOMAIN inv |-> t[j]]
    BY <2>2
  <2> QED
    BY <1>1, <2>3, <2>5, <2>6, MovedList
<1>5. ASSUME NEW g \in Gids(inv), SelectBag(c, g)
      PROVE  /\ inv' \in List /\ Tags(inv') = Tags(inv) /\ Mounted(inv') \subseteq {g}
             /\ st' = [st EXCEPT !.bag = g, !.inventory = inv']
  BY <1>1, <1>5, MountedOnly DEF SelectBag
<1>6. ASSUME NEW g \in Gids(inv), NEW target \in Targets, NEW where \in Where,
             EquipItem(c, g, target, where)
      PROVE  /\ inv' \in List /\ Tags(inv') = Tags(inv)
             /\ Mounted(inv') \subseteq Mounted(inv) /\ st' = st
  <2>1. PICK i, owner, loc :
          /\ i = IndexOf(inv, g)
          /\ owner = IF target \in {0, RoleGid} THEN CurrentBag(inv, st.bag) ELSE target
          /\ loc = IF where = "bag" /\ inv[i].kind \in Slot THEN inv[i].kind ELSE where
    OBVIOUS
  <2>2. PICK t : t = [j \in DOMAIN inv |->
                   CASE j = i -> [inv[j] EXCEPT !.owner = owner, !.loc = loc]
                     [] j # i /\ loc # "bag" /\ inv[j].owner = owner
                          /\ inv[j].loc = loc -> Stowed(inv[j])
                     [] OTHER -> inv[j]]
    OBVIOUS
  <2>3. inv' = t /\ st' = st /\ inv[i].kind \notin RoleKind \cup {"bag"}
    BY <1>6, <2>1, <2>2 DEF EquipItem
  <2>4. CurrentBag(inv, st.bag) \in Nat
    BY <1>1, CurrentBagKnown
  <2>5. owner \in Int
    BY <2>1, <2>4, MallAssumption
  <2>6. loc \in Loc
    BY <2>1, MallAssumption DEF Loc
  <2>7. inv[i].kind # "bag"
    BY <2>3
  <2>8. \A j \in DOMAIN inv : Moved(inv[j], t[j])
    <3> SUFFICES ASSUME NEW j \in DOMAIN inv PROVE Moved(inv[j], t[j])
      OBVIOUS
    <3>1. CASE j = i
      <4>1. t[j] = [inv[j] EXCEPT !.owner = owner, !.loc = loc]
        BY <3>1, <2>2
      <4> QED
        BY <4>1, <3>1, <2>5, <2>6, <2>7 DEF Moved
    <3>2. CASE j # i
      <4>1. t[j] = Stowed(inv[j]) \/ t[j] = inv[j]
        BY <3>2, <2>2
      <4> QED
        BY <4>1 DEF Moved
    <3> QED
      BY <3>1, <3>2
  <2>9. t = [j \in DOMAIN inv |-> t[j]]
    BY <2>2
  <2> QED
    BY <1>1, <2>3, <2>8, <2>9, MovedList
<1>7. /\ inv' \in List /\ Tags(inv') = Tags(inv)
      /\ \/ st' = st /\ Mounted(inv') \subseteq Mounted(inv)
         \/ \E g \in Gids(inv) : /\ st' = [st EXCEPT !.role = g]
                                 /\ Mounted(inv') \subseteq Mounted(inv)
         \/ \E g \in Gids(inv) : /\ st' = [st EXCEPT !.bag = g, !.inventory = inv']
                                 /\ Mounted(inv') \subseteq {g}
  BY <1>2, <1>3, <1>4, <1>5, <1>6 DEF Equips
<1>8. /\ st' \in SoundStates /\ st'.wallet = st.wallet /\ st'.next = st.next
      /\ \/ st'.bag = st.bag /\ Mounted(inv') \subseteq Mounted(inv)
         \/ Mounted(inv') \subseteq {st'.bag}
  <2>1. HasBag(inv')
    BY <1>1, <1>7, SameTags
  <2>2. \A g \in Gids(inv) : g \in Nat
    BY <1>1, GidsFinite
  <2>3. CASE st' = st /\ Mounted(inv') \subseteq Mounted(inv)
    BY <1>1, <2>3
  <2>4. ASSUME NEW g \in Gids(inv), st' = [st EXCEPT !.role = g]
        PROVE  /\ st' \in SoundStates /\ st'.wallet = st.wallet /\ st'.next = st.next
               /\ st'.bag = st.bag
    <3>1. /\ st' \in StateT /\ st'.inventory = st.inventory /\ st'.bag = st.bag
          /\ st'.wallet = st.wallet /\ st'.next = st.next
      BY <1>1, <2>2, <2>4 DEF StateT
    <3> QED
      BY <3>1, <1>1 DEF SoundStates
  <2>5. ASSUME NEW g \in Gids(inv), st' = [st EXCEPT !.bag = g, !.inventory = inv']
        PROVE  /\ st' \in SoundStates /\ st'.wallet = st.wallet /\ st'.next = st.next
               /\ st'.bag = g
    <3>1. /\ st' \in StateT /\ st'.inventory = inv' /\ st'.bag = g
          /\ st'.wallet = st.wallet /\ st'.next = st.next
      BY <1>1, <1>7, <2>2, <2>5 DEF StateT
    <3> QED
      BY <3>1, <2>1, <1>1 DEF SoundStates
  <2> QED
    BY <1>7, <2>3, <2>4, <2>5
<1>9. Saving(c) /\ UNCHANGED <<file, told, retired>> /\ \E what : Request(c, what)
  BY DEF Equips, TakeOff, EquipRole, SelectBag, EquipItem, EquipNothing, clients
<1> QED
  BY <1>7, <1>8, <1>9

-----------------------------------------------------------------------------
(* A thread with no request.                                               *)
LEMMA FreeThread ==
  /\ Free \in Thread /\ ThreadSound(Free)
  /\ Free.pc = "idle" /\ Free.got = <<>> /\ Free.todo = <<>> /\ Free.gone = 0
<1>1. <<>> \in Seq(Kind) /\ <<>> \in List /\ <<>> \in Files /\ DOMAIN <<>> = {}
  <2>1. Len(<<>>) = 0 /\ <<>> \in Seq(Kind) /\ <<>> \in List
    BY EmptySeq DEF List
  <2> QED
    BY <2>1 DEF Files
<1>2. Free \in Thread
  BY <1>1 DEF Free, Thread, PC
<1> QED
  BY <1>1, <1>2 DEF Free, ThreadSound

(* A step of one thread leaves the others what they were.                  *)
LEMMA OneThreadMoves ==
  ASSUME op \in [Conn -> Thread], \A d \in Conn : ThreadSound(op[d]),
         NEW c \in Conn, NEW o \in Thread, ThreadSound(o), op' = [op EXCEPT ![c] = o]
  PROVE  /\ op' \in [Conn -> Thread] /\ \A d \in Conn : ThreadSound(op'[d])
         /\ op'[c] = o /\ \A d \in Conn \ {c} : op'[d] = op[d]
OBVIOUS

(* What the purchase makes of the next kind in its plan.                   *)
LEMMA BoughtProp ==
  ASSUME MallInv, NEW c \in Conn, op[c].pc = "take"
  PROVE  /\ Bought(c) \in PropT /\ Bought(c).owner >= 0
         /\ Bought(c).gid = op[c].cand /\ Bought(c).kind = Head(op[c].todo)
         /\ Head(op[c].todo) \in Kind /\ Tail(op[c].todo) \in Seq(Kind)
<1>1. op[c] \in Thread /\ ThreadSound(op[c])
  BY DEF MallInv, MallType
<1>2. /\ op[c].todo \in Seq(Kind) /\ op[c].todo # <<>> /\ op[c].got \in List
      /\ op[c].cand \in Nat \ {0}
  BY <1>1, StarterFacts DEF Thread, ThreadSound
<1>3. Head(op[c].todo) \in Kind /\ Tail(op[c].todo) \in Seq(Kind)
  BY <1>2, HeadTailProperties
<1>4. PICK kind, roles :
        /\ kind = Head(op[c].todo)
        /\ roles = {p \in {op[c].got[i] : i \in DOMAIN op[c].got} : p.kind \in RoleKind}
  OBVIOUS
<1>5. ASSUME roles # {} PROVE Max({p.gid : p \in roles}) \in Nat
  <2>1. PICK S : S = {p.gid : p \in roles}
    OBVIOUS
  <2>2. S # {} /\ S \subseteq Gids(op[c].got)
    BY <1>4, <1>5, <2>1 DEF Gids
  <2>3. IsFiniteSet(S) /\ S \in SUBSET Nat
    <3>1. IsFiniteSet(Gids(op[c].got)) /\ Gids(op[c].got) \in SUBSET Nat
      BY <1>2, GidsFinite
    <3> QED
      BY <3>1, <2>2, FS_Subset
  <2> QED
    BY <2>1, <2>2, <2>3, GreatestNatural
<1>6. "part" \in Loc /\ "bag" \in Loc
  BY DEF Loc
<1>7. CASE kind \notin RoleKind /\ roles # {}
  <2>1. Bought(c) = Prop(op[c].cand, kind, Max({p.gid : p \in roles}), "part")
    BY <1>4, <1>7 DEF Bought
  <2> QED
    BY <2>1, <1>2, <1>3, <1>4, <1>5, <1>6, <1>7 DEF Prop, PropT
<1>8. CASE ~ (kind \notin RoleKind /\ roles # {})
  <2>1. Bought(c) = Prop(op[c].cand, kind, 0, "bag")
    BY <1>4, <1>8 DEF Bought
  <2> QED
    BY <2>1, <1>2, <1>3, <1>4, <1>6 DEF Prop, PropT
<1> QED
  BY <1>7, <1>8

(* What a purchase costs.                                                  *)
LEMMA ChargeType ==
  ASSUME NEW k \in DOMAIN Bundle
  PROVE  Charge(k) \in Nat /\ Bundle[k] \in Seq(Kind) /\ Bundle[k] # <<>>
BY MallAssumption DEF Charge

(* The invariant holds at the first start.                                 *)
LEMMA MallInit ==
  ASSUME Init
  PROVE  MallInv
<1>1. file \in Files /\ file = <<>>
  BY DEF Init, Files
<1>2. st \in SoundStates
  BY <1>1, StartedFrom DEF Init
<1>3. inv \in List /\ HasBag(inv)
  BY <1>2 DEF Init, SoundStates, StateT
<1> QED
  BY <1>1, <1>2, <1>3, FreeThread DEF Init, MallInv, MallType

(* A step of a request that leaves inventory and file alone.               *)
LEMMA RequestKeepsMall ==
  ASSUME MallInv, NEW c \in Conn, inv' = inv, file' = file,
         NEW o \in Thread, ThreadSound(o), op' = [op EXCEPT ![c] = o],
         st' \in SoundStates
  PROVE  MallInv'
<1>1. op' \in [Conn -> Thread] /\ \A d \in Conn : ThreadSound(op'[d])
  BY OneThreadMoves DEF MallInv, MallType
<1>2. inv' \in List /\ HasBag(inv') /\ file' \in Files
  BY DEF MallInv, MallType
<1> QED
  BY <1>1, <1>2 DEF MallInv, MallType

(* The steps of a purchase.                                                *)
LEMMA PurchaseKeepsMall ==
  ASSUME MallInv, NEW c \in Conn, Purchase(c)
  PROVE  MallInv'
<1>1. /\ op[c] \in Thread /\ ThreadSound(op[c]) /\ op \in [Conn -> Thread]
      /\ st \in SoundStates /\ st \in StateT /\ st.next >= FirstGood /\ st.next \in Nat
      /\ HasBag(st.inventory) /\ inv \in List /\ HasBag(inv)
  BY DEF MallInv, MallType, SoundStates, StateT
<1>2. ASSUME NEW k \in DOMAIN Bundle, Buy(c, k) PROVE MallInv'
  <2>1. PICK o : o = [Free EXCEPT !.pc = "pick", !.todo = Bundle[k], !.charge = Charge(k)]
    OBVIOUS
  <2>2. o \in Thread
    BY <2>1, FreeThread, ChargeType DEF Thread, PC
  <2>3. ThreadSound(o)
    BY <2>1, FreeThread, ChargeType DEF Thread, ThreadSound
  <2>4. op' = [op EXCEPT ![c] = o] /\ inv' = inv /\ st' = st /\ file' = file
    BY <1>2, <2>1 DEF Buy, memory
  <2> QED
    BY <1>1, <2>2, <2>3, <2>4, RequestKeepsMall
<1>3. ASSUME PickGid(c) PROVE MallInv'
  <2>1. PICK g \in 1 .. MaxGid : g >= st.next /\ op' = [op EXCEPT ![c].pc = "take", ![c].cand = g]
    BY <1>3 DEF PickGid
  <2>2. PICK o : o = [op[c] EXCEPT !.pc = "take", !.cand = g]
    OBVIOUS
  <2>3. g \in Nat /\ g >= FirstGood
    BY <1>1, <2>1, StarterFacts, MallAssumption
  <2>4. o \in Thread
    BY <1>1, <2>2, <2>3 DEF Thread, PC
  <2>5. ThreadSound(o)
    BY <1>1, <1>3, <2>2, <2>3 DEF Thread, ThreadSound, PickGid
  <2>6. op' = [op EXCEPT ![c] = o] /\ inv' = inv /\ st' = st /\ file' = file
    BY <1>1, <1>3, <2>1, <2>2 DEF PickGid, memory, Thread
  <2> QED
    BY <1>1, <2>4, <2>5, <2>6, RequestKeepsMall
<1>4. ASSUME TakeGid(c) PROVE MallInv'
  <2>1. op[c].pc = "take"
    BY <1>4 DEF TakeGid
  <2>2. PICK p : p = Bought(c)
    OBVIOUS
  <2>3. /\ p \in PropT /\ p.owner >= 0 /\ p.gid = op[c].cand
        /\ Tail(op[c].todo) \in Seq(Kind)
    BY <2>1, <2>2, BoughtProp
  <2>4. op[c].cand \in Nat /\ op[c].cand >= FirstGood /\ op[c].got \in List
    BY <1>1, <2>1 DEF Thread, ThreadSound
  <2>5. PICK next, got, todo :
          /\ got = Append(op[c].got, p) /\ todo = Tail(op[c].todo)
          /\ next = IF Tail(op[c].todo) = <<>> THEN "extend" ELSE "pick"
    OBVIOUS
  <2>6. PICK o : o = [op[c] EXCEPT !.got = got, !.todo = todo, !.pc = next]
    OBVIOUS
  <2>7. /\ got \in List /\ Len(got) = Len(op[c].got) + 1
        /\ \A i \in 1 .. Len(op[c].got) : got[i] = op[c].got[i]
        /\ got[Len(op[c].got) + 1] = p
    BY <2>3, <2>4, <2>5, AppendProperties DEF List
  <2>8. /\ DOMAIN got = 1 .. Len(op[c].got) + 1 /\ DOMAIN op[c].got = 1 .. Len(op[c].got)
        /\ Len(op[c].got) \in Nat
    BY <2>4, <2>7, LenProperties DEF List
  <2>9. o \in Thread
    BY <1>1, <2>3, <2>5, <2>6, <2>7 DEF Thread, PC
  <2>10. \A i \in DOMAIN got : got[i].gid >= FirstGood /\ got[i].owner >= 0
    <3> SUFFICES ASSUME NEW i \in DOMAIN got
                 PROVE  got[i].gid >= FirstGood /\ got[i].owner >= 0
      OBVIOUS
    <3>1. CASE i = Len(op[c].got) + 1
      BY <3>1, <2>3, <2>4, <2>7
    <3>2. CASE i # Len(op[c].got) + 1
      <4>1. i \in 1 .. Len(op[c].got) /\ i \in DOMAIN op[c].got
        BY <3>2, <2>8
      <4>2. got[i] = op[c].got[i]
        BY <4>1, <2>7
      <4> QED
        BY <4>1, <4>2, <1>1 DEF ThreadSound
    <3> QED
      BY <3>1, <3>2
  <2>11. ThreadSound(o)
    <3>1. o.got = got /\ o.todo = todo /\ o.pc = next
      BY <1>1, <2>6 DEF Thread
    <3> QED
      BY <3>1, <2>5, <2>10 DEF ThreadSound
  <2>12. op' = [op EXCEPT ![c] = o]
    BY <1>1, <1>4, <2>2, <2>5, <2>6 DEF TakeGid, Thread
  <2>13. st' \in SoundStates
    <3>1. st' = [st EXCEPT !.next = op[c].cand + 1]
      BY <1>4 DEF TakeGid
    <3>2. op[c].cand + 1 \in Nat /\ op[c].cand + 1 >= FirstGood
      BY <2>4, StarterFacts
    <3>3. st' \in StateT /\ st'.inventory = st.inventory /\ st'.next = op[c].cand + 1
      BY <1>1, <3>1, <3>2 DEF StateT
    <3> QED
      BY <3>2, <3>3, <1>1 DEF SoundStates
  <2>14. inv' = inv /\ file' = file
    BY <1>4 DEF TakeGid
  <2> QED
    BY <2>9, <2>11, <2>12, <2>13, <2>14, RequestKeepsMall
<1>5. ASSUME Extend(c) PROVE MallInv'
  <2>1. PICK o : o = [op[c] EXCEPT !.pc = "wallet"]
    OBVIOUS
  <2>2. o \in Thread
    BY <1>1, <2>1 DEF Thread, PC
  <2>3. ThreadSound(o)
    BY <1>1, <2>1 DEF Thread, ThreadSound
  <2>4. op' = [op EXCEPT ![c] = o] /\ st' = st /\ file' = file /\ inv' = inv \o op[c].got
    BY <1>1, <1>5, <2>1 DEF Extend, Goto, Thread
  <2>5. op' \in [Conn -> Thread] /\ \A d \in Conn : ThreadSound(op'[d])
    BY <2>2, <2>3, <2>4, OneThreadMoves DEF MallInv, MallType
  <2>6. /\ op[c].got \in List
        /\ \A i \in DOMAIN op[c].got : op[c].got[i].gid >= FirstGood /\ op[c].got[i].owner >= 0
    BY <1>1 DEF Thread, ThreadSound
  <2>7. /\ inv' \in List /\ Tags(inv') = Tags(inv) \cup Tags(op[c].got)
    BY <1>1, <2>4, <2>6, Concatenated
  <2>8. HasBag(inv')
    <3>1. \A t \in Tags(op[c].got) : t.gid >= FirstGood
      BY <2>6 DEF Tags, TagOf
    <3>2. FirstGood > Bag1
      <4>1. Len(StarterWeapons) \in Nat
        BY MallAssumption, LenProperties
      <4> QED
        BY <4>1 DEF FirstGood, Bag1
    <3>3. \A t \in Tags(op[c].got) : t.gid # Bag1
      <4>1. \A t \in Tags(op[c].got) : t.gid \in Nat
        BY <2>6, ReadOffTags
      <4> QED
        BY <3>1, <3>2, <4>1, StarterFacts DEF Bag1
    <3>4. Gids(inv') = {t.gid : t \in Tags(inv')} /\ Gids(inv) = {t.gid : t \in Tags(inv)}
      BY <2>7, <1>1, ReadOffTags
    <3> QED
      BY <3>3, <3>4, <2>7, <1>1 DEF HasBag
  <2> QED
    BY <1>1, <2>4, <2>5, <2>7, <2>8 DEF MallInv, MallType
<1>6. ASSUME ReadWallet(c) PROVE MallInv'
  <2>1. PICK o : o = [op[c] EXCEPT !.pc = "pay", !.seen = st.wallet]
    OBVIOUS
  <2>2. o \in Thread
    BY <1>1, <2>1 DEF Thread, PC, StateT
  <2>3. ThreadSound(o)
    BY <1>1, <2>1 DEF Thread, ThreadSound
  <2>4. op' = [op EXCEPT ![c] = o] /\ inv' = inv /\ st' = st /\ file' = file
    BY <1>1, <1>6, <2>1 DEF ReadWallet, memory, Thread
  <2> QED
    BY <1>1, <2>2, <2>3, <2>4, RequestKeepsMall
<1>7. ASSUME Pay(c) PROVE MallInv'
  <2>1. PICK o : o = [op[c] EXCEPT !.pc = "snapshot"]
    OBVIOUS
  <2>2. o \in Thread
    BY <1>1, <2>1 DEF Thread, PC
  <2>3. ThreadSound(o)
    BY <1>1, <2>1 DEF Thread, ThreadSound
  <2>4. /\ op' = [op EXCEPT ![c] = o] /\ inv' = inv /\ file' = file
        /\ st' = [st EXCEPT !.wallet = op[c].seen - op[c].charge]
    BY <1>1, <1>7, <2>1 DEF Pay, Goto, Thread
  <2>5. op[c].seen - op[c].charge \in Int
    BY <1>1 DEF Thread
  <2>6. st' \in StateT /\ st'.inventory = st.inventory /\ st'.next = st.next
    BY <1>1, <2>4, <2>5 DEF StateT
  <2>7. st' \in SoundStates
    BY <1>1, <2>6 DEF SoundStates
  <2> QED
    BY <2>2, <2>3, <2>4, <2>7, RequestKeepsMall
<1> QED
  BY <1>2, <1>3, <1>4, <1>5, <1>6, <1>7 DEF Purchase

(* The steps of a save, and the answer.                                    *)
LEMMA SaveKeepsMall ==
  ASSUME MallInv, NEW c \in Conn, Save(c)
  PROVE  MallInv'
<1>1. /\ op[c] \in Thread /\ ThreadSound(op[c]) /\ op \in [Conn -> Thread]
      /\ st \in SoundStates /\ st \in StateT /\ st.next >= FirstGood /\ st.next \in Nat
      /\ inv \in List /\ HasBag(inv)
  BY DEF MallInv, MallType, SoundStates, StateT
<1>2. ASSUME Snapshot(c) PROVE MallInv'
  <2>1. PICK o : o = [op[c] EXCEPT !.pc = "dump"]
    OBVIOUS
  <2>2. o \in Thread
    BY <1>1, <2>1 DEF Thread, PC
  <2>3. ThreadSound(o)
    BY <1>1, <2>1 DEF Thread, ThreadSound
  <2>4. /\ op' = [op EXCEPT ![c] = o] /\ inv' = inv /\ file' = file
        /\ st' = [st EXCEPT !.inventory = inv, !.role = CurrentRole(inv, @),
                            !.bag = CurrentBag(inv, @), !.next = NextGid(inv, @)]
    BY <1>1, <1>2, <2>1 DEF Snapshot, Goto, Thread
  <2>5. /\ NextGid(inv, st.next) \in Nat /\ NextGid(inv, st.next) >= st.next
        /\ CurrentBag(inv, st.bag) \in Nat /\ CurrentRole(inv, st.role) \in Nat
    <3>1. Gids(inv) # {}
      BY <1>1 DEF HasBag
    <3>2. CurrentRole(inv, st.role) \in Nat
      BY <1>1 DEF StateT, CurrentRole, RoleGid
    <3> QED
      BY <1>1, <3>1, <3>2, NextGidAbove, CurrentBagKnown
  <2>6. st' \in StateT /\ st'.inventory = inv /\ st'.next = NextGid(inv, st.next)
    BY <1>1, <2>4, <2>5 DEF StateT
  <2>7. st'.next >= FirstGood
    BY <1>1, <2>5, <2>6, StarterFacts
  <2>8. st' \in SoundStates
    BY <1>1, <2>6, <2>7 DEF SoundStates
  <2> QED
    BY <2>2, <2>3, <2>4, <2>8, RequestKeepsMall
<1>3. ASSUME Dump(c) PROVE MallInv'
  <2>1. PICK o : o = [op[c] EXCEPT !.pc = "replace", !.image = <<st>>]
    OBVIOUS
  <2>2. <<st>> \in Files /\ <<st>> # <<>>
    BY <1>1 DEF Files
  <2>3. o \in Thread
    BY <1>1, <2>1, <2>2 DEF Thread, PC
  <2>4. ThreadSound(o)
    BY <1>1, <2>1, <2>2 DEF Thread, ThreadSound
  <2>5. op' = [op EXCEPT ![c] = o] /\ inv' = inv /\ st' = st /\ file' = file
    BY <1>1, <1>3, <2>1 DEF Dump, memory, Thread
  <2> QED
    BY <1>1, <2>3, <2>4, <2>5, RequestKeepsMall
<1>4. ASSUME Replace(c) PROVE MallInv'
  <2>1. PICK o : o = [op[c] EXCEPT !.pc = "reply"]
    OBVIOUS
  <2>2. o \in Thread
    BY <1>1, <2>1 DEF Thread, PC
  <2>3. ThreadSound(o)
    BY <1>1, <2>1 DEF Thread, ThreadSound
  <2>4. /\ op' = [op EXCEPT ![c] = o] /\ inv' = inv /\ st' = st /\ file' = op[c].image
    BY <1>1, <1>4, <2>1 DEF Replace, Goto, memory, Thread
  <2>5. op' \in [Conn -> Thread] /\ \A d \in Conn : ThreadSound(op'[d])
    BY <2>2, <2>3, <2>4, OneThreadMoves DEF MallInv, MallType
  <2>6. file' \in Files
    BY <1>1, <2>4 DEF Thread
  <2> QED
    BY <1>1, <2>4, <2>5, <2>6 DEF MallInv, MallType
<1>5. ASSUME Reply(c) PROVE MallInv'
  <2>1. op' = [op EXCEPT ![c] = Free] /\ inv' = inv /\ st' = st /\ file' = file
    BY <1>5 DEF Reply, memory
  <2> QED
    BY <1>1, <2>1, FreeThread, RequestKeepsMall
<1> QED
  BY <1>2, <1>3, <1>4, <1>5 DEF Save

(* What answers without effect, or has had its effect, goes on to save.    *)
LEMMA SavingThread ==
  ASSUME NEW o, o = [Free EXCEPT !.pc = "snapshot"]
  PROVE  /\ o \in Thread /\ ThreadSound(o)
         /\ o.pc = "snapshot" /\ o.got = <<>> /\ o.todo = <<>> /\ o.gone = 0
<1>1. /\ o \in Thread /\ o.pc = "snapshot" /\ o.got = Free.got /\ o.todo = Free.todo
      /\ o.gone = Free.gone
  BY FreeThread DEF Thread, PC
<1> QED
  BY <1>1, FreeThread DEF ThreadSound

(* The operations on props.                                                *)
LEMMA PropOperationKeepsMall ==
  ASSUME MallInv, NEW c \in Conn, PropOperation(c)
  PROVE  MallInv'
<1>1. /\ op[c] \in Thread /\ ThreadSound(op[c]) /\ op \in [Conn -> Thread]
      /\ st \in SoundStates /\ inv \in List /\ HasBag(inv)
  BY DEF MallInv, MallType
<1>2. PICK saver : saver = [Free EXCEPT !.pc = "snapshot"]
  OBVIOUS
<1>3. saver \in Thread /\ ThreadSound(saver)
  BY <1>2, SavingThread
<1>4. ASSUME Acknowledge(c) PROVE MallInv'
  <2>1. op' = [op EXCEPT ![c] = saver] /\ inv' = inv /\ st' = st /\ file' = file
    BY <1>2, <1>4 DEF Acknowledge, Saving, memory
  <2> QED
    BY <1>1, <1>3, <2>1, RequestKeepsMall
<1>5. ASSUME NEW g \in Gids(inv), Drop(c, g) PROVE MallInv'
  <2>1. PICK kept : kept = Without(inv, g)
    OBVIOUS
  <2>2. PICK o : o = [Free EXCEPT !.pc = "assign", !.gone = g, !.kept = kept]
    OBVIOUS
  <2>3. /\ op' = [op EXCEPT ![c] = o] /\ inv' = inv /\ st' = st /\ file' = file
        /\ g \notin Structural
    BY <1>5, <2>1, <2>2 DEF Drop, memory
  <2>4. /\ kept \in List /\ Tags(kept) = {t \in Tags(inv) : t.gid # g}
    BY <1>1, <2>1, WithoutTags
  <2>5. HasBag(kept)
    <3>1. Gids(kept) = {t.gid : t \in Tags(kept)} /\ Gids(inv) = {t.gid : t \in Tags(inv)}
      BY <1>1, <2>4, ReadOffTags
    <3>2. g # Bag1
      BY <2>3 DEF Structural
    <3>3. Bag1 \in Gids(kept)
      BY <1>1, <2>4, <3>1, <3>2 DEF HasBag
    <3> QED
      BY <1>1, <2>4, <3>3 DEF HasBag
  <2>6. g \in Nat
    BY <1>1, GidsFinite
  <2>7. o \in Thread
    BY <2>2, <2>4, <2>6, FreeThread DEF Thread, PC
  <2>8. ThreadSound(o)
    <3>1. o.got = <<>> /\ o.pc = "assign" /\ o.kept = kept
      BY <2>2, FreeThread DEF Thread
    <3>2. DOMAIN <<>> = {}
      OBVIOUS
    <3> QED
      BY <2>5, <3>1, <3>2 DEF ThreadSound
  <2> QED
    BY <1>1, <2>3, <2>7, <2>8, RequestKeepsMall
<1>6. ASSUME AssignKept(c) PROVE MallInv'
  <2>1. PICK o : o = [op[c] EXCEPT !.pc = "snapshot", !.kept = <<>>]
    OBVIOUS
  <2>2. o \in Thread
    <3>1. <<>> \in List
      BY EmptySeq DEF List
    <3> QED
      BY <1>1, <2>1, <3>1 DEF Thread, PC
  <2>3. ThreadSound(o)
    BY <1>1, <2>1 DEF Thread, ThreadSound
  <2>4. /\ op' = [op EXCEPT ![c] = o] /\ inv' = op[c].kept /\ st' = st /\ file' = file
        /\ op[c].pc = "assign"
    BY <1>1, <1>6, <2>1 DEF AssignKept, Thread
  <2>5. op' \in [Conn -> Thread] /\ \A d \in Conn : ThreadSound(op'[d])
    BY <2>2, <2>3, <2>4, OneThreadMoves DEF MallInv, MallType
  <2>6. inv' \in List /\ HasBag(inv')
    BY <1>1, <2>4 DEF Thread, ThreadSound
  <2> QED
    BY <1>1, <2>4, <2>5, <2>6 DEF MallInv, MallType
<1>7. ASSUME Equips(c) PROVE MallInv'
  <2>1. /\ inv' \in List /\ Tags(inv') = Tags(inv)
        /\ st' \in SoundStates /\ Saving(c) /\ file' = file
    BY <1>7, EquipsKeeps
  <2>2. HasBag(inv')
    BY <1>1, <2>1, SameTags
  <2>3. op' = [op EXCEPT ![c] = saver]
    BY <1>2, <2>1 DEF Saving
  <2>4. op' \in [Conn -> Thread] /\ \A d \in Conn : ThreadSound(op'[d])
    BY <1>3, <2>3, OneThreadMoves DEF MallInv, MallType
  <2> QED
    BY <2>1, <2>2, <2>4 DEF MallInv, MallType
<1> QED
  BY <1>4, <1>5, <1>6, <1>7 DEF PropOperation, Equips

(* A crash and the start after it.                                         *)
LEMMA CrashKeepsMall ==
  ASSUME MallInv, Crash
  PROVE  MallInv'
<1>1. st' = Started(file) /\ inv' = st'.inventory /\ file' = file /\ file \in Files
  BY DEF Crash, MallInv, MallType
<1>2. st' \in SoundStates
  BY <1>1, StartedFrom
<1>3. inv' \in List /\ HasBag(inv')
  BY <1>1, <1>2 DEF SoundStates, StateT
<1>4. op' \in [Conn -> Thread] /\ \A c \in Conn : ThreadSound(op'[c])
  BY FreeThread DEF Crash
<1> QED
  BY <1>1, <1>2, <1>3, <1>4 DEF MallInv, MallType

(* Every step keeps the invariant.                                         *)
LEMMA MallNext ==
  ASSUME MallInv, [Next]_vars
  PROVE  MallInv'
<1>1. CASE UNCHANGED vars
  BY <1>1 DEF vars, MallInv, MallType, HasBag, ThreadSound
<1>2. CASE Crash
  BY <1>2, CrashKeepsMall
<1>3. ASSUME NEW c \in Conn, Purchase(c) \/ Save(c) \/ PropOperation(c) PROVE MallInv'
  BY <1>3, PurchaseKeepsMall, SaveKeepsMall, PropOperationKeepsMall
<1> QED
  BY <1>1, <1>2, <1>3 DEF Next

(* What holds of the lists.  This much holds of the model for any number   *)
(* of requests at a time.                                                  *)
THEOREM MallInvariant == Spec => []MallInv
<1>1. Init => MallInv
  BY MallInit
<1>2. MallInv /\ [Next]_vars => MallInv'
  BY MallNext
<1> QED
  BY <1>1, <1>2, PTL DEF Spec

-----------------------------------------------------------------------------
(* One request at a time.  Until a purchase extends the inventory or a     *)
(* drop assigns it, and again when the file has been written, memory and   *)
(* file have the same goods.  In between they are one transaction of the   *)
(* ledger apart.  Here i, s, z, t and r stand for the inventory, the state,*)
(* the state that is saved, what clients were told, and what was retired.  *)
Numbered(k, n) == {[gid |-> n + j - 1, kind |-> Bundle[k][j]] : j \in DOMAIN Bundle[k]}

Booked(goods0, coins0, goods1, coins1) ==
  \/ \E k \in DOMAIN Bundle, n \in 1 .. MaxGid :
       /\ \A new \in Numbered(k, n), old \in goods0 : new.gid # old.gid
       /\ goods1 = goods0 \cup Numbered(k, n)
       /\ \E w \in WorthOf(coins0) : coins1 = w - Charge(k)
  \/ \E good \in goods0 : goods1 = goods0 \ {good} /\ coins1 \in WorthOf(coins0)
  \/ goods1 = goods0 /\ coins1 \in WorthOf(coins0)

Undecided == {"idle", "pick", "take", "extend", "assign", "reply"}
Writing == {"snapshot", "dump", "replace"}

Settled(i, s, z) ==
  GoodsIn(i) = GoodsIn(z.inventory) /\ s.wallet \in WorthOf(z.wallet)

(* The items of commodity k are numbered from n on, which was the next     *)
(* number when the plan was made.                                          *)
SellingFrom(o, k, n, i, s, z) ==
  /\ o.charge = Charge(k) /\ o.gone = 0 /\ n >= z.next
  /\ Len(o.got) + Len(o.todo) = Len(Bundle[k])
  /\ \A j \in DOMAIN o.got : o.got[j].gid = n + j - 1 /\ o.got[j].kind = Bundle[k][j]
  /\ \A j \in DOMAIN o.todo : o.todo[j] = Bundle[k][Len(o.got) + j]
  /\ o.pc \in {"pick", "take", "extend"} => s.next = n + Len(o.got) /\ Below(i, n)

Selling(o, i, s, z) ==
  \E k \in DOMAIN Bundle, n \in 1 .. MaxGid : SellingFrom(o, k, n, i, s, z)

ThreadSerial(o, i, s, z, t) ==
  /\ o.pc \in {"pick", "take", "extend", "wallet", "pay"} => Selling(o, i, s, z)
  /\ o.pc = "take" => o.cand = s.next
  /\ o.pc \in {"extend", "wallet", "pay"} => o.todo = <<>>
  /\ o.pc \in {"wallet", "pay"} =>
       /\ GoodsIn(i) = GoodsIn(z.inventory) \cup GoodsIn(o.got)
       /\ s.wallet \in WorthOf(z.wallet)
  /\ o.pc = "pay" => o.seen = s.wallet
  /\ o.pc = "assign" =>
       /\ o.got = <<>> /\ o.kept = Without(i, o.gone)
       /\ \A good \in t : good.gid # o.gone
  /\ o.pc \in Writing => Booked(GoodsIn(z.inventory), z.wallet, GoodsIn(i), s.wallet)
  /\ o.pc \in Writing \cup {"reply"} =>
       GoodsIn(o.got) \subseteq GoodsIn(i) /\ \A good \in GoodsIn(i) : good.gid # o.gone
  /\ o.pc \in Writing \cup {"assign", "reply"} => o.gone < z.next
  /\ o.pc \in {"dump", "replace"} => s.inventory = i
  /\ o.pc = "replace" => o.image = <<s>>

(* No number is on two props or above the next one, in memory or in the    *)
(* file; what clients were told is in both, what was retired in neither.   *)
Held(i, s, z, t, r) ==
  /\ Named(z.inventory) /\ Below(z.inventory, z.next)
  /\ Named(i) /\ Below(i, s.next) /\ s.next >= z.next
  /\ t \subseteq GoodsIn(i) \cap GoodsIn(z.inventory)
  /\ \A n \in r : /\ n \in Nat /\ n < z.next
                  /\ \A good \in GoodsIn(i) \cup GoodsIn(z.inventory) : good.gid # n

Alone == \A c, d \in Conn : op[c].pc # "idle" /\ op[d].pc # "idle" => c = d

(* The invariant for one request at a time.                                *)
SerialInv ==
  /\ MallInv
  /\ Alone
  /\ Held(inv, st, Saved, told, retired)
  /\ (\A c \in Conn : op[c].pc \in Undecided) => Settled(inv, st, Saved)
  /\ \A c \in Conn : ThreadSerial(op[c], inv, st, Saved, told)

(* With one request at a time a request finds every thread idle.           *)
LEMMA RequestAlone ==
  ASSUME MaxBusy = 1, NEW c \in Conn, NEW what, Request(c, what)
  PROVE  \A d \in Conn : op[d].pc = "idle"
<1>1. PICK S : S = {d \in Conn : op[d].pc # "idle"}
  OBVIOUS
<1>2. Cardinality(S) < 1
  BY <1>1 DEF Request
<1>3. S \in SUBSET Conn /\ IsFiniteSet(Conn)
  BY <1>1, MallAssumption
<1>4. IsFiniteSet(S)
  BY <1>3, FS_Subset
<1>5. Cardinality(S) \in Nat
  BY <1>4, FS_CardinalityType
<1>6. Cardinality(S) = 0
  BY <1>2, <1>5
<1>7. S = {}
  BY <1>4, <1>6, FS_EmptySet
<1> QED
  BY <1>1, <1>7

(* While one thread is busy the others are idle.                           *)
LEMMA OthersIdle ==
  ASSUME Alone, NEW c \in Conn, op[c].pc # "idle"
  PROVE  \A d \in Conn \ {c} : op[d].pc = "idle"
BY DEF Alone

(* Of a thread without a request nothing is asked.                         *)
LEMMA IdleSerial ==
  ASSUME NEW o, o.pc = "idle", NEW i, NEW s, NEW z, NEW t
  PROVE  ThreadSerial(o, i, s, z, t)
BY DEF ThreadSerial, Writing

(* What has to be shown of a step of the one request there is.             *)
LEMMA SerialStep ==
  ASSUME MallInv, MallInv', NEW c \in Conn, \A d \in Conn \ {c} : op[d].pc = "idle",
         NEW o, op' = [op EXCEPT ![c] = o],
         Held(inv', st', Saved', told', retired'),
         o.pc \in Undecided => Settled(inv', st', Saved'),
         ThreadSerial(o, inv', st', Saved', told')
  PROVE  SerialInv'
<1>1. op'[c] = o /\ \A d \in Conn \ {c} : op'[d] = op[d]
  BY DEF MallInv, MallType
<1>2. Alone'
  BY <1>1 DEF Alone
<1>3. (\A d \in Conn : op'[d].pc \in Undecided) => Settled(inv', st', Saved')
  BY <1>1
<1>4. ASSUME NEW d \in Conn PROVE ThreadSerial(op'[d], inv', st', Saved', told')
  <2>1. CASE d = c
    BY <2>1, <1>1
  <2>2. CASE d # c
    BY <2>2, <1>1, IdleSerial
  <2> QED
    BY <2>1, <2>2
<1> QED
  BY <1>2, <1>3, <1>4 DEF SerialInv

(* What SerialInv says of the thread that is about to step.                *)
LEMMA SerialFacts ==
  ASSUME SerialInv, NEW c \in Conn
  PROVE  /\ op[c] \in Thread /\ ThreadSound(op[c])
         /\ ThreadSerial(op[c], inv, st, Saved, told)
         /\ Held(inv, st, Saved, told, retired)
         /\ st \in SoundStates /\ Saved \in SoundStates
         /\ inv \in List /\ Saved.inventory \in List /\ st.inventory \in List
         /\ st.next \in Nat /\ Saved.next \in Nat /\ st.wallet \in Int /\ Saved.wallet \in Int
         /\ st.next >= FirstGood /\ Saved.next >= FirstGood /\ FirstGood \in Nat \ {0}
<1>1. /\ op[c] \in Thread /\ ThreadSound(op[c]) /\ inv \in List
      /\ st \in SoundStates /\ file \in Files
  BY DEF SerialInv, MallInv, MallType
<1>2. Saved \in SoundStates
  BY <1>1, StartedFrom
<1>3. /\ st.inventory \in List /\ st.next \in Nat /\ st.wallet \in Int /\ st.next >= FirstGood
      /\ Saved.inventory \in List /\ Saved.next \in Nat /\ Saved.wallet \in Int
      /\ Saved.next >= FirstGood
  BY <1>1, <1>2 DEF SoundStates, StateT
<1>4. /\ ThreadSerial(op[c], inv, st, Saved, told)
      /\ Held(inv, st, Saved, told, retired)
  BY DEF SerialInv
<1> QED
  BY <1>1, <1>2, <1>3, <1>4, StarterFacts

(* While the only request is undecided, memory and file agree.             *)
LEMMA SettledNow ==
  ASSUME SerialInv, NEW c \in Conn, op[c].pc \in Undecided,
         \A d \in Conn \ {c} : op[d].pc = "idle"
  PROVE  Settled(inv, st, Saved)
<1>1. \A d \in Conn : op[d].pc \in Undecided
  BY DEF Undecided
<1> QED
  BY <1>1 DEF SerialInv

(* A purchase whose plan is used up has the goods of its commodity.        *)
LEMMA SoldGoods ==
  ASSUME NEW o \in Thread, ThreadSound(o), o.todo = <<>>,
         NEW k \in DOMAIN Bundle, NEW n \in 1 .. MaxGid, NEW i, NEW s, NEW z,
         SellingFrom(o, k, n, i, s, z)
  PROVE  /\ Tags(o.got) = Numbered(k, n) /\ GoodsIn(o.got) = Numbered(k, n)
         /\ \A good \in Numbered(k, n) : good.gid \in Nat /\ good.gid >= n
         /\ Named(o.got)
<1>1. o.got \in List /\ Bundle[k] \in Seq(Kind) /\ n \in Nat
  BY ChargeType, MallAssumption DEF Thread
<1>2. Len(o.got) = Len(Bundle[k])
  <2>1. Len(o.got) + Len(o.todo) = Len(Bundle[k])
    BY DEF SellingFrom
  <2>2. Len(o.todo) = 0
    OBVIOUS
  <2>3. Len(o.got) \in Nat
    BY <1>1, LenProperties DEF List
  <2> QED
    BY <2>1, <2>2, <2>3
<1>3. DOMAIN o.got = DOMAIN Bundle[k] /\ DOMAIN o.got = 1 .. Len(o.got) /\ Len(o.got) \in Nat
  BY <1>1, <1>2, LenProperties DEF List
<1>4. \A j \in DOMAIN o.got : o.got[j].gid = n + j - 1 /\ o.got[j].kind = Bundle[k][j]
  BY DEF SellingFrom
<1>5. Tags(o.got) = Numbered(k, n)
  <2>1. \A j \in DOMAIN o.got : TagOf(o.got[j]) = [gid |-> n + j - 1, kind |-> Bundle[k][j]]
    BY <1>4 DEF TagOf
  <2> QED
    BY <2>1, <1>3 DEF Tags, Numbered
<1>6. \A t \in Tags(o.got) : t.gid \notin StarterGids
  <2>1. \A t \in Tags(o.got) : t.gid >= FirstGood /\ t.gid \in Nat
    <3>1. \A t \in Tags(o.got) : t.gid \in Nat
      BY <1>1, ReadOffTags
    <3>2. \A t \in Tags(o.got) : t.gid >= FirstGood
      BY DEF ThreadSound, Tags, TagOf
    <3> QED
      BY <3>1, <3>2
  <2>2. Len(StarterWeapons) \in Nat
    BY MallAssumption, LenProperties
  <2> QED
    BY <2>1, <2>2 DEF FirstGood, StarterGids
<1>7. GoodsIn(o.got) = Numbered(k, n)
  BY <1>1, <1>5, <1>6, ReadOffTags
<1>8. \A good \in Numbered(k, n) : good.gid \in Nat /\ good.gid >= n
  <2> SUFFICES ASSUME NEW j \in DOMAIN Bundle[k]
               PROVE  n + j - 1 \in Nat /\ n + j - 1 >= n
    BY DEF Numbered
  <2>1. j \in Nat /\ j >= 1
    BY <1>3
  <2> QED
    BY <2>1, <1>1
<1>9. Named(o.got)
  <2> SUFFICES ASSUME NEW a \in Tags(o.got), NEW b \in Tags(o.got), a.gid = b.gid
               PROVE  a = b
    BY DEF Named
  <2>1. PICK j \in DOMAIN o.got : a = TagOf(o.got[j])
    BY DEF Tags
  <2>2. PICK l \in DOMAIN o.got : b = TagOf(o.got[l])
    BY DEF Tags
  <2>3. a.gid = n + j - 1 /\ b.gid = n + l - 1
    BY <2>1, <2>2, <1>4 DEF TagOf
  <2>4. j = l
    <3>1. n + j - 1 = n + l - 1
      BY <2>3
    <3>2. j \in Nat /\ l \in Nat /\ n \in Nat
      BY <1>1, <1>3
    <3> QED
      BY <3>1, <3>2
  <2> QED
    BY <2>1, <2>2, <2>4
<1> QED
  BY <1>5, <1>7, <1>8, <1>9

-----------------------------------------------------------------------------
(* A purchase begins with the next number of memory, which is above every  *)
(* number of memory and file.                                              *)
LEMMA BuySerial ==
  ASSUME MaxBusy = 1, SerialInv, MallInv', NEW c \in Conn, NEW k \in DOMAIN Bundle, Buy(c, k)
  PROVE  SerialInv'
<1>1. PICK o : o = [Free EXCEPT !.pc = "pick", !.todo = Bundle[k], !.charge = Charge(k)]
  OBVIOUS
<1>2. /\ o.pc = "pick" /\ o.todo = Bundle[k] /\ o.charge = Charge(k)
      /\ o.got = <<>> /\ o.gone = 0
  BY <1>1, FreeThread DEF Thread
<1>3. op' = [op EXCEPT ![c] = o] /\ inv' = inv /\ st' = st /\ file' = file
      /\ told' = told /\ retired' = retired /\ st.next + Len(Bundle[k]) <= MaxGid + 1
  BY <1>1 DEF Buy, memory, clients
<1>4. \A d \in Conn : op[d].pc = "idle"
  BY RequestAlone DEF Buy
<1>5. Settled(inv, st, Saved)
  BY <1>4, SettledNow DEF Undecided
<1>6. Saved' = Saved
  BY <1>3 DEF Saved
<1>7. PICK n : n = st.next
  OBVIOUS
<1>8. n \in 1 .. MaxGid
  <2>1. Len(Bundle[k]) \in Nat \ {0}
    BY ChargeType, EmptySeq
  <2>2. n \in Nat /\ n >= 1
    BY <1>7, SerialFacts
  <2> QED
    BY <1>3, <1>7, <2>1, <2>2, MallAssumption
<1>9. SellingFrom(o, k, n, inv, st, Saved)
  <2>1. Held(inv, st, Saved, told, retired)
    BY SerialFacts
  <2>2. n >= Saved.next /\ Below(inv, n)
    BY <1>7, <2>1 DEF Held
  <2>3. Len(<<>>) = 0 /\ DOMAIN <<>> = {}
    OBVIOUS
  <2>4. Len(Bundle[k]) \in Nat /\ DOMAIN Bundle[k] = 1 .. Len(Bundle[k])
    BY ChargeType, LenProperties
  <2>5. Len(o.got) + Len(o.todo) = Len(Bundle[k])
    BY <1>2, <2>3, <2>4
  <2>6. \A j \in DOMAIN o.todo : o.todo[j] = Bundle[k][Len(o.got) + j]
    BY <1>2, <2>3, <2>4
  <2>7. st.next = n + Len(o.got)
    BY <1>2, <1>7, <1>8, <2>3
  <2>8. \A j \in DOMAIN o.got : o.got[j].gid = n + j - 1 /\ o.got[j].kind = Bundle[k][j]
    BY <1>2, <2>3
  <2> QED
    BY <1>2, <2>2, <2>5, <2>6, <2>7, <2>8 DEF SellingFrom
<1>10. ThreadSerial(o, inv, st, Saved, told)
  BY <1>2, <1>8, <1>9 DEF ThreadSerial, Selling, Writing
<1> QED
  BY <1>3, <1>4, <1>5, <1>6, <1>10, SerialFacts, SerialStep DEF SerialInv

(* The next number is free, so it is the one that is picked.               *)
LEMMA PickGidSerial ==
  ASSUME SerialInv, MallInv', NEW c \in Conn, PickGid(c)
  PROVE  SerialInv'
<1>1. PICK g \in 1 .. MaxGid :
        /\ g >= st.next /\ op' = [op EXCEPT ![c].pc = "take", ![c].cand = g]
        /\ \A h \in st.next .. g - 1 : h \in Gids(inv) \cup GidsGot(c)
  BY DEF PickGid
<1>2. /\ op[c].pc = "pick" /\ inv' = inv /\ st' = st /\ file' = file
      /\ told' = told /\ retired' = retired
  BY DEF PickGid, memory, clients
<1>3. /\ op[c] \in Thread /\ ThreadSerial(op[c], inv, st, Saved, told)
      /\ Held(inv, st, Saved, told, retired) /\ inv \in List /\ st.next \in Nat
  BY SerialFacts
<1>4. PICK o : o = [op[c] EXCEPT !.pc = "take", !.cand = g]
  OBVIOUS
<1>5. /\ op' = [op EXCEPT ![c] = o] /\ o.pc = "take" /\ o.cand = g
      /\ o.todo = op[c].todo /\ o.got = op[c].got /\ o.charge = op[c].charge
      /\ o.gone = op[c].gone
  BY <1>1, <1>3, <1>4 DEF Thread
<1>6. \A d \in Conn \ {c} : op[d].pc = "idle"
  BY <1>2, OthersIdle DEF SerialInv
<1>7. Settled(inv, st, Saved)
  BY <1>2, <1>6, SettledNow DEF Undecided
<1>8. PICK k \in DOMAIN Bundle, n \in 1 .. MaxGid : SellingFrom(op[c], k, n, inv, st, Saved)
  BY <1>2, <1>3 DEF ThreadSerial, Selling
<1>9. g = st.next
  <2>1. st.next \notin Gids(inv)
    <3>1. \A t \in Tags(inv) : t.gid < st.next
      BY <1>3 DEF Held, Below
    <3>2. \A t \in Tags(inv) : t.gid # st.next
      BY <1>3, <3>1
    <3> QED
      BY <1>3, <3>2, ReadOffTags
  <2>2. st.next \notin GidsGot(c)
    <3> SUFFICES ASSUME NEW j \in DOMAIN op[c].got, op[c].got[j].gid = st.next PROVE FALSE
      BY DEF GidsGot, Gids
    <3>1. st.next = n + Len(op[c].got) /\ op[c].got[j].gid = n + j - 1
      BY <1>2, <1>8 DEF SellingFrom
    <3>2. j \in 1 .. Len(op[c].got) /\ Len(op[c].got) \in Nat /\ n \in Nat
      BY <1>3, LenProperties, SMTT(30) DEF Thread, List
    <3>3. n + j - 1 = n + Len(op[c].got)
      BY <3>1
    <3> QED
      BY <3>2, <3>3
  <2>3. st.next \notin st.next .. g - 1
    BY <1>1, <2>1, <2>2
  <2>4. g \in Int
    OBVIOUS
  <2> QED
    BY <1>1, <1>3, <2>3, <2>4
<1>10. SellingFrom(o, k, n, inv, st, Saved)
  BY <1>2, <1>5, <1>8 DEF SellingFrom
<1>11. ThreadSerial(o, inv, st, Saved, told)
  BY <1>5, <1>9, <1>10 DEF ThreadSerial, Selling, Writing
<1>12. Saved' = Saved
  BY <1>2 DEF Saved
<1> QED
  BY <1>2, <1>3, <1>5, <1>6, <1>7, <1>11, <1>12, SerialStep DEF SerialInv

(* The number found is taken, and the next one is the one after it.        *)
LEMMA TakeGidSerial ==
  ASSUME SerialInv, MallInv', NEW c \in Conn, TakeGid(c)
  PROVE  SerialInv'
<1>1. /\ op[c].pc = "take" /\ inv' = inv /\ file' = file
      /\ st' = [st EXCEPT !.next = op[c].cand + 1] /\ told' = told /\ retired' = retired
  BY DEF TakeGid, clients
<1>2. /\ op[c] \in Thread /\ ThreadSound(op[c])
      /\ ThreadSerial(op[c], inv, st, Saved, told) /\ st \in StateT
      /\ Held(inv, st, Saved, told, retired) /\ inv \in List
      /\ st.next \in Nat /\ Saved.next \in Nat
  BY SerialFacts DEF SoundStates
<1>3. PICK p, todo, next, got :
        /\ p = Bought(c) /\ todo = Tail(op[c].todo) /\ got = Append(op[c].got, Bought(c))
        /\ next = IF Tail(op[c].todo) = <<>> THEN "extend" ELSE "pick"
  OBVIOUS
<1>4. PICK o : o = [op[c] EXCEPT !.got = got, !.todo = todo, !.pc = next]
  OBVIOUS
<1>5. /\ op' = [op EXCEPT ![c] = o] /\ o.pc = next /\ o.todo = todo /\ o.got = got
      /\ o.charge = op[c].charge /\ o.gone = op[c].gone
  BY <1>2, <1>3, <1>4 DEF TakeGid, Thread
<1>6. \A d \in Conn \ {c} : op[d].pc = "idle"
  BY <1>1, OthersIdle DEF SerialInv
<1>7. Settled(inv, st, Saved)
  BY <1>1, <1>6, SettledNow DEF Undecided
<1>8. PICK k \in DOMAIN Bundle, n \in 1 .. MaxGid : SellingFrom(op[c], k, n, inv, st, Saved)
  BY <1>1, <1>2 DEF ThreadSerial, Selling
<1>9. PICK L, M : L = Len(op[c].got) /\ M = Len(op[c].todo)
  OBVIOUS
<1>10. /\ L \in Nat /\ op[c].got \in List /\ DOMAIN op[c].got = 1 .. L
       /\ M \in Nat /\ op[c].todo \in Seq(Kind) /\ op[c].todo # <<>>
       /\ DOMAIN op[c].todo = 1 .. M /\ M # 0
  <2>1. op[c].got \in List /\ op[c].todo \in Seq(Kind) /\ op[c].todo # <<>>
    BY <1>1, <1>2 DEF Thread, ThreadSound
  <2> QED
    BY <1>9, <2>1, LenProperties, EmptySeq DEF List
<1>11. /\ p \in PropT /\ p.gid = op[c].cand /\ p.kind = Head(op[c].todo)
  BY <1>1, <1>3, BoughtProp DEF SerialInv
<1>12. /\ got \in List /\ Len(got) = L + 1 /\ DOMAIN got = 1 .. L + 1
       /\ \A j \in 1 .. L : got[j] = op[c].got[j]
       /\ got[L + 1] = p
  <2>1. /\ got \in List /\ Len(got) = L + 1 /\ got[L + 1] = p
        /\ \A j \in 1 .. L : got[j] = op[c].got[j]
    BY <1>3, <1>9, <1>10, <1>11, AppendProperties DEF List
  <2> QED
    BY <2>1, LenProperties DEF List
<1>13. /\ todo \in Seq(Kind) /\ Len(todo) = M - 1 /\ DOMAIN todo = 1 .. M - 1
       /\ \A j \in 1 .. M - 1 : todo[j] = op[c].todo[j + 1]
       /\ Head(op[c].todo) = op[c].todo[1]
  <2>1. /\ todo \in Seq(Kind) /\ Len(todo) = M - 1
        /\ \A j \in 1 .. Len(todo) : todo[j] = op[c].todo[j + 1]
    BY <1>3, <1>9, <1>10, HeadTailProperties
  <2>2. Head(op[c].todo) = op[c].todo[1]
    BY <1>10
  <2> QED
    BY <2>1, <2>2, LenProperties
<1>14. /\ op[c].cand = st.next /\ st.next = n + L /\ Below(inv, n) /\ n >= Saved.next
       /\ op[c].charge = Charge(k) /\ op[c].gone = 0 /\ L + M = Len(Bundle[k])
       /\ \A j \in 1 .. L : op[c].got[j].gid = n + j - 1 /\ op[c].got[j].kind = Bundle[k][j]
       /\ \A j \in 1 .. M : op[c].todo[j] = Bundle[k][L + j]
  BY <1>1, <1>2, <1>8, <1>9, <1>10 DEF ThreadSerial, SellingFrom
<1>15. /\ st'.next = n + (L + 1) /\ st'.wallet = st.wallet
       /\ st'.next > st.next /\ n \in Nat
  <2>1. st'.next = st.next + 1 /\ st'.wallet = st.wallet
    BY <1>1, <1>2, <1>14 DEF StateT
  <2>2. n \in Nat
    OBVIOUS
  <2> QED
    BY <2>1, <2>2, <1>2, <1>10, <1>14
<1>16. SellingFrom(o, k, n, inv, st', Saved)
  <2>1. Len(o.got) + Len(o.todo) = Len(Bundle[k])
    <3>1. (L + 1) + (M - 1) = L + M
      BY <1>10
    <3> QED
      BY <3>1, <1>5, <1>12, <1>13, <1>14
  <2>2. ASSUME NEW j \in DOMAIN o.got
        PROVE  o.got[j].gid = n + j - 1 /\ o.got[j].kind = Bundle[k][j]
    <3>1. CASE j = L + 1
      <4>1. p.gid = n + (L + 1) - 1
        BY <1>10, <1>11, <1>14, <1>15
      <4>2. p.kind = Bundle[k][L + 1]
        <5>1. 1 \in 1 .. M
          BY <1>10
        <5> QED
          BY <5>1, <1>11, <1>13, <1>14
      <4> QED
        BY <3>1, <4>1, <4>2, <1>5, <1>12
    <3>2. CASE j # L + 1
      <4>1. j \in 1 .. L
        BY <3>2, <1>5, <1>10, <1>12
      <4> QED
        BY <4>1, <1>5, <1>12, <1>14
    <3> QED
      BY <3>1, <3>2
  <2>3. ASSUME NEW j \in DOMAIN o.todo
        PROVE  o.todo[j] = Bundle[k][Len(o.got) + j]
    <3>1. j \in 1 .. M - 1 /\ j + 1 \in 1 .. M
      BY <1>5, <1>10, <1>13
    <3>2. o.todo[j] = Bundle[k][L + (j + 1)]
      BY <3>1, <1>5, <1>13, <1>14
    <3>3. L + (j + 1) = (L + 1) + j
      BY <3>1, <1>10
    <3> QED
      BY <3>2, <3>3, <1>5, <1>12
  <2>4. st'.next = n + Len(o.got)
    BY <1>5, <1>12, <1>15
  <2>5. o.charge = Charge(k) /\ o.gone = 0
    BY <1>5, <1>14
  <2> QED
    BY <2>1, <2>2, <2>3, <2>4, <2>5, <1>14 DEF SellingFrom
<1>17. ThreadSerial(o, inv, st', Saved, told)
  <2>1. o.pc = "pick" \/ (o.pc = "extend" /\ o.todo = <<>>)
    BY <1>3, <1>5
  <2> QED
    BY <2>1, <1>16 DEF ThreadSerial, Selling, Writing
<1>18. Held(inv, st', Saved, told, retired)
  <2>1. Below(inv, st'.next)
    <3>1. \A t \in Tags(inv) : t.gid < st.next /\ t.gid \in Nat
      BY <1>2, ReadOffTags DEF Held, Below
    <3>2. st'.next \in Nat
      BY <1>10, <1>15
    <3> QED
      BY <1>2, <1>15, <3>1, <3>2 DEF Below
  <2>2. st'.next >= Saved.next
    BY <1>2, <1>10, <1>14, <1>15
  <2> QED
    BY <2>1, <2>2, <1>2 DEF Held
<1>19. Settled(inv, st', Saved)
  BY <1>7, <1>15 DEF Settled
<1>20. Saved' = Saved
  BY <1>1 DEF Saved
<1> QED
  BY <1>1, <1>5, <1>6, <1>17, <1>18, <1>19, <1>20, SerialStep DEF SerialInv

(* The inventory gets the whole purchase, and memory is now one purchase   *)
(* ahead of the file but for the price.                                    *)
LEMMA ExtendSerial ==
  ASSUME SerialInv, MallInv', NEW c \in Conn, Extend(c)
  PROVE  SerialInv'
<1>1. /\ op[c].pc = "extend" /\ inv' = inv \o op[c].got /\ st' = st /\ file' = file
      /\ told' = told /\ retired' = retired
  BY DEF Extend, clients
<1>2. /\ op[c] \in Thread /\ ThreadSound(op[c]) /\ op[c].got \in List
      /\ ThreadSerial(op[c], inv, st, Saved, told) /\ Saved.inventory \in List
      /\ Held(inv, st, Saved, told, retired) /\ inv \in List
      /\ st.next \in Nat /\ Saved.next \in Nat
  BY SerialFacts DEF Thread
<1>3. PICK o : o = [op[c] EXCEPT !.pc = "wallet"]
  OBVIOUS
<1>4. /\ op' = [op EXCEPT ![c] = o] /\ o.pc = "wallet" /\ o.got = op[c].got
      /\ o.todo = op[c].todo /\ o.charge = op[c].charge /\ o.gone = op[c].gone
  BY <1>2, <1>3 DEF Extend, Goto, Thread
<1>5. \A d \in Conn \ {c} : op[d].pc = "idle"
  BY <1>1, OthersIdle DEF SerialInv
<1>6. Settled(inv, st, Saved)
  BY <1>1, <1>5, SettledNow DEF Undecided
<1>7. PICK k \in DOMAIN Bundle, n \in 1 .. MaxGid : SellingFrom(op[c], k, n, inv, st, Saved)
  BY <1>1, <1>2 DEF ThreadSerial, Selling
<1>8. op[c].todo = <<>>
  BY <1>1, <1>2 DEF ThreadSerial
<1>9. /\ Tags(op[c].got) = Numbered(k, n) /\ GoodsIn(op[c].got) = Numbered(k, n)
      /\ \A good \in Numbered(k, n) : good.gid \in Nat /\ good.gid >= n
      /\ Named(op[c].got)
  BY <1>2, <1>7, <1>8, SoldGoods
<1>10. inv' \in List /\ Tags(inv') = Tags(inv) \cup Tags(op[c].got)
  BY <1>1, <1>2, Concatenated
<1>11. GoodsIn(inv') = GoodsIn(inv) \cup GoodsIn(op[c].got)
  BY <1>2, <1>10, ReadOffTags
<1>12. /\ st.next = n + Len(op[c].got) /\ Below(inv, n) /\ n >= Saved.next
       /\ \A j \in DOMAIN op[c].got : op[c].got[j].gid = n + j - 1
  BY <1>1, <1>7 DEF SellingFrom
<1>13. n \in Nat /\ \A t \in Tags(inv) : t.gid \in Nat /\ t.gid < n
  BY <1>2, <1>12, ReadOffTags DEF Below
<1>14. Named(inv')
  <2>1. \A t \in Tags(inv), u \in Tags(op[c].got) : t.gid # u.gid
    BY <1>9, <1>13
  <2>2. Named(inv)
    BY <1>2 DEF Held
  <2> QED
    BY <2>1, <2>2, <1>9, <1>10 DEF Named
<1>15. Below(inv', st.next)
  <2>1. \A t \in Tags(op[c].got) : t.gid < st.next
    <3> SUFFICES ASSUME NEW j \in DOMAIN op[c].got PROVE op[c].got[j].gid < st.next
      BY DEF Tags, TagOf
    <3>1. j \in 1 .. Len(op[c].got) /\ Len(op[c].got) \in Nat
      BY <1>2, LenProperties DEF List
    <3>2. op[c].got[j].gid = n + j - 1
      BY <1>12
    <3> QED
      BY <3>1, <3>2, <1>12, <1>13
  <2>2. Below(inv, st.next)
    BY <1>2 DEF Held
  <2> QED
    BY <2>1, <2>2, <1>10 DEF Below
<1>16. Held(inv', st, Saved, told, retired)
  <2>1. ASSUME NEW m \in retired
        PROVE  /\ m \in Nat /\ m < Saved.next
               /\ \A good \in GoodsIn(inv') \cup GoodsIn(Saved.inventory) : good.gid # m
    <3>1. /\ m \in Nat /\ m < Saved.next
          /\ \A good \in GoodsIn(inv) \cup GoodsIn(Saved.inventory) : good.gid # m
      BY <1>2 DEF Held
    <3>2. \A good \in Numbered(k, n) : good.gid # m
      <4> SUFFICES ASSUME NEW good \in Numbered(k, n), good.gid = m PROVE FALSE
        OBVIOUS
      <4>1. good.gid \in Nat /\ good.gid >= n
        BY <1>9
      <4> QED
        BY <4>1, <3>1, <1>2, <1>12, <1>13
    <3> QED
      BY <3>1, <3>2, <1>9, <1>11
  <2> QED
    BY <2>1, <1>2, <1>11, <1>14, <1>15 DEF Held
<1>17. ThreadSerial(o, inv', st, Saved, told)
  <2>1. SellingFrom(o, k, n, inv', st, Saved)
    BY <1>4, <1>7 DEF SellingFrom
  <2>2. GoodsIn(inv') = GoodsIn(Saved.inventory) \cup GoodsIn(o.got)
    BY <1>4, <1>6, <1>11 DEF Settled
  <2>3. st.wallet \in WorthOf(Saved.wallet)
    BY <1>6 DEF Settled
  <2> QED
    BY <2>1, <2>2, <2>3, <1>4, <1>8 DEF ThreadSerial, Selling, Writing
<1>18. Saved' = Saved
  BY <1>1 DEF Saved
<1> QED
  BY <1>1, <1>4, <1>5, <1>16, <1>17, <1>18, SerialStep DEF SerialInv, Undecided

(* The wallet that is read is the one that is charged.                     *)
LEMMA ReadWalletSerial ==
  ASSUME SerialInv, MallInv', NEW c \in Conn, ReadWallet(c)
  PROVE  SerialInv'
<1>1. /\ op[c].pc = "wallet" /\ inv' = inv /\ st' = st /\ file' = file
      /\ told' = told /\ retired' = retired
  BY DEF ReadWallet, memory, clients
<1>2. /\ op[c] \in Thread /\ ThreadSerial(op[c], inv, st, Saved, told)
      /\ Held(inv, st, Saved, told, retired)
  BY SerialFacts
<1>3. PICK o : o = [op[c] EXCEPT !.pc = "pay", !.seen = st.wallet]
  OBVIOUS
<1>4. /\ op' = [op EXCEPT ![c] = o] /\ o.pc = "pay" /\ o.got = op[c].got
      /\ o.todo = op[c].todo /\ o.charge = op[c].charge /\ o.gone = op[c].gone
      /\ o.seen = st.wallet
  BY <1>2, <1>3 DEF ReadWallet, Thread
<1>5. \A d \in Conn \ {c} : op[d].pc = "idle"
  BY <1>1, OthersIdle DEF SerialInv
<1>6. Selling(o, inv, st, Saved)
  <2>1. PICK k \in DOMAIN Bundle, n \in 1 .. MaxGid : SellingFrom(op[c], k, n, inv, st, Saved)
    BY <1>1, <1>2 DEF ThreadSerial, Selling
  <2>2. SellingFrom(o, k, n, inv, st, Saved)
    BY <1>4, <2>1 DEF SellingFrom
  <2> QED
    BY <2>2 DEF Selling
<1>7. ThreadSerial(o, inv, st, Saved, told)
  BY <1>1, <1>2, <1>4, <1>6 DEF ThreadSerial, Writing
<1>8. Saved' = Saved
  BY <1>1 DEF Saved
<1> QED
  BY <1>1, <1>2, <1>4, <1>5, <1>7, <1>8, SerialStep DEF SerialInv, Undecided

(* With the payment, memory is one purchase ahead of the file.             *)
LEMMA PaySerial ==
  ASSUME SerialInv, MallInv', NEW c \in Conn, Pay(c)
  PROVE  SerialInv'
<1>1. /\ op[c].pc = "pay" /\ inv' = inv /\ file' = file
      /\ st' = [st EXCEPT !.wallet = op[c].seen - op[c].charge]
      /\ told' = told /\ retired' = retired
  BY DEF Pay, clients
<1>2. /\ op[c] \in Thread /\ ThreadSound(op[c]) /\ st \in StateT
      /\ ThreadSerial(op[c], inv, st, Saved, told)
      /\ Held(inv, st, Saved, told, retired) /\ inv \in List /\ Saved.inventory \in List
      /\ Saved.next \in Nat /\ Saved.next >= FirstGood /\ FirstGood \in Nat \ {0}
  BY SerialFacts DEF SoundStates
<1>3. PICK o : o = [op[c] EXCEPT !.pc = "snapshot"]
  OBVIOUS
<1>4. /\ op' = [op EXCEPT ![c] = o] /\ o.pc = "snapshot" /\ o.got = op[c].got
      /\ o.gone = op[c].gone
  BY <1>2, <1>3 DEF Pay, Goto, Thread
<1>5. \A d \in Conn \ {c} : op[d].pc = "idle"
  BY <1>1, OthersIdle DEF SerialInv
<1>6. PICK k \in DOMAIN Bundle, n \in 1 .. MaxGid : SellingFrom(op[c], k, n, inv, st, Saved)
  BY <1>1, <1>2 DEF ThreadSerial, Selling
<1>7. /\ op[c].todo = <<>> /\ op[c].seen = st.wallet /\ st.wallet \in WorthOf(Saved.wallet)
      /\ GoodsIn(inv) = GoodsIn(Saved.inventory) \cup GoodsIn(op[c].got)
      /\ op[c].charge = Charge(k) /\ op[c].gone = 0 /\ n >= Saved.next
  BY <1>1, <1>2, <1>6 DEF ThreadSerial, SellingFrom
<1>8. /\ GoodsIn(op[c].got) = Numbered(k, n)
      /\ \A good \in Numbered(k, n) : good.gid \in Nat /\ good.gid >= n
  BY <1>2, <1>6, <1>7, SoldGoods
<1>9. st'.wallet = st.wallet - Charge(k) /\ st'.next = st.next
  BY <1>1, <1>2, <1>7 DEF StateT
<1>10. \A new \in Numbered(k, n), old \in GoodsIn(Saved.inventory) : new.gid # old.gid
  <2>1. \A old \in GoodsIn(Saved.inventory) : old.gid \in Nat /\ old.gid < Saved.next
    BY <1>2, ReadOffTags DEF Held, Below
  <2>2. n \in Nat
    OBVIOUS
  <2> QED
    BY <2>1, <2>2, <1>2, <1>7, <1>8
<1>11. Booked(GoodsIn(Saved.inventory), Saved.wallet, GoodsIn(inv), st'.wallet)
  BY <1>7, <1>8, <1>9, <1>10 DEF Booked
<1>12. \A good \in GoodsIn(inv) : good.gid # 0
  BY <1>2, ReadOffTags
<1>13. ThreadSerial(o, inv, st', Saved, told)
  <2>1. o.gone < Saved.next
    BY <1>2, <1>4, <1>7
  <2> QED
    BY <2>1, <1>4, <1>7, <1>11, <1>12 DEF ThreadSerial, Writing
<1>14. Held(inv, st', Saved, told, retired)
  BY <1>2, <1>9 DEF Held
<1>15. Saved' = Saved
  BY <1>1 DEF Saved
<1> QED
  BY <1>1, <1>4, <1>5, <1>13, <1>14, <1>15, SerialStep DEF SerialInv, Undecided

(* Bringing the state up to date changes neither goods nor wallet.         *)
LEMMA SnapshotSerial ==
  ASSUME SerialInv, MallInv', NEW c \in Conn, Snapshot(c)
  PROVE  SerialInv'
<1>1. /\ op[c].pc = "snapshot" /\ inv' = inv /\ file' = file
      /\ st' = [st EXCEPT !.inventory = inv, !.role = CurrentRole(inv, @),
                          !.bag = CurrentBag(inv, @), !.next = NextGid(inv, @)]
      /\ told' = told /\ retired' = retired
  BY DEF Snapshot, clients
<1>2. /\ op[c] \in Thread /\ st \in StateT /\ ThreadSerial(op[c], inv, st, Saved, told)
      /\ Held(inv, st, Saved, told, retired) /\ inv \in List /\ st.next \in Nat
  BY SerialFacts DEF SoundStates
<1>3. PICK o : o = [op[c] EXCEPT !.pc = "dump"]
  OBVIOUS
<1>4. /\ op' = [op EXCEPT ![c] = o] /\ o.pc = "dump" /\ o.got = op[c].got
      /\ o.gone = op[c].gone
  BY <1>2, <1>3 DEF Snapshot, Goto, Thread
<1>5. \A d \in Conn \ {c} : op[d].pc = "idle"
  BY <1>1, OthersIdle DEF SerialInv
<1>6. NextGid(inv, st.next) = st.next
  <2>1. Gids(inv) # {}
    BY DEF SerialInv, MallInv, HasBag
  <2> QED
    BY <2>1, <1>2, NextGidAbove DEF Held
<1>7. st'.wallet = st.wallet /\ st'.next = st.next /\ st'.inventory = inv
  BY <1>1, <1>2, <1>6 DEF StateT
<1>8. ThreadSerial(o, inv, st', Saved, told)
  BY <1>1, <1>2, <1>4, <1>7 DEF ThreadSerial, Writing
<1>9. Held(inv, st', Saved, told, retired)
  BY <1>2, <1>7 DEF Held
<1>10. Saved' = Saved
  BY <1>1 DEF Saved
<1> QED
  BY <1>1, <1>4, <1>5, <1>8, <1>9, <1>10, SerialStep DEF SerialInv, Undecided

(* What is rendered is the state of the whole transaction.                 *)
LEMMA DumpSerial ==
  ASSUME SerialInv, MallInv', NEW c \in Conn, Dump(c)
  PROVE  SerialInv'
<1>1. /\ op[c].pc = "dump" /\ inv' = inv /\ st' = st /\ file' = file
      /\ told' = told /\ retired' = retired
  BY DEF Dump, memory, clients
<1>2. /\ op[c] \in Thread /\ ThreadSerial(op[c], inv, st, Saved, told)
      /\ Held(inv, st, Saved, told, retired)
  BY SerialFacts
<1>3. PICK o : o = [op[c] EXCEPT !.pc = "replace", !.image = <<st>>]
  OBVIOUS
<1>4. /\ op' = [op EXCEPT ![c] = o] /\ o.pc = "replace" /\ o.got = op[c].got
      /\ o.gone = op[c].gone /\ o.image = <<st>>
  BY <1>2, <1>3 DEF Dump, Thread
<1>5. \A d \in Conn \ {c} : op[d].pc = "idle"
  BY <1>1, OthersIdle DEF SerialInv
<1>6. ThreadSerial(o, inv, st, Saved, told)
  BY <1>1, <1>2, <1>4 DEF ThreadSerial, Writing
<1>7. Saved' = Saved
  BY <1>1 DEF Saved
<1> QED
  BY <1>1, <1>2, <1>4, <1>5, <1>6, <1>7, SerialStep DEF SerialInv, Undecided

(* What is moved over the state file is the state, with the inventory.     *)
LEMMA Replaced ==
  ASSUME SerialInv, NEW c \in Conn, Replace(c)
  PROVE  /\ Saved' = st /\ st.inventory = inv
         /\ Booked(GoodsIn(Saved.inventory), Saved.wallet, GoodsIn(inv), st.wallet)
<1>1. op[c].pc = "replace" /\ file' = op[c].image
  BY DEF Replace
<1>2. ThreadSerial(op[c], inv, st, Saved, told)
  BY SerialFacts
<1>3. /\ file' = <<st>> /\ st.inventory = inv
      /\ Booked(GoodsIn(Saved.inventory), Saved.wallet, GoodsIn(inv), st.wallet)
  BY <1>1, <1>2 DEF ThreadSerial, Writing
<1>4. Saved' = st
  BY <1>3 DEF Saved
<1> QED
  BY <1>3, <1>4

(* Once it is in the file, memory and file agree again.                    *)
LEMMA ReplaceSerial ==
  ASSUME SerialInv, MallInv', NEW c \in Conn, Replace(c)
  PROVE  SerialInv'
<1>1. /\ op[c].pc = "replace" /\ inv' = inv /\ st' = st /\ told' = told /\ retired' = retired
  BY DEF Replace, memory, clients
<1>2. /\ op[c] \in Thread /\ ThreadSerial(op[c], inv, st, Saved, told)
      /\ Held(inv, st, Saved, told, retired) /\ st.next \in Nat /\ Saved.next \in Nat
  BY SerialFacts
<1>3. PICK o : o = [op[c] EXCEPT !.pc = "reply"]
  OBVIOUS
<1>4. /\ op' = [op EXCEPT ![c] = o] /\ o.pc = "reply" /\ o.got = op[c].got
      /\ o.gone = op[c].gone
  BY <1>2, <1>3 DEF Replace, Goto, Thread
<1>5. \A d \in Conn \ {c} : op[d].pc = "idle"
  BY <1>1, OthersIdle DEF SerialInv
<1>6. Saved' = st /\ st.inventory = inv
  BY Replaced
<1>7. /\ GoodsIn(op[c].got) \subseteq GoodsIn(inv)
      /\ \A good \in GoodsIn(inv) : good.gid # op[c].gone
      /\ op[c].gone < Saved.next /\ st.next >= Saved.next /\ op[c].gone \in Nat
  BY <1>1, <1>2 DEF ThreadSerial, Writing, Held, Thread
<1>8. op[c].gone < st.next
  BY <1>2, <1>7
<1>9. ThreadSerial(o, inv, st, st, told)
  BY <1>4, <1>7, <1>8 DEF ThreadSerial, Writing
<1>10. Held(inv, st, st, told, retired)
  <2>1. ASSUME NEW m \in retired
        PROVE  m \in Nat /\ m < st.next /\ \A good \in GoodsIn(inv) : good.gid # m
    <3>1. m \in Nat /\ m < Saved.next /\ \A good \in GoodsIn(inv) : good.gid # m
      BY <1>2 DEF Held
    <3> QED
      BY <3>1, <1>2, <1>7
  <2>2. told \subseteq GoodsIn(inv) /\ Named(inv) /\ Below(inv, st.next) /\ st.next >= st.next
    BY <1>2 DEF Held
  <2> QED
    BY <2>1, <2>2, <1>6 DEF Held
<1>11. Settled(inv, st, st)
  BY <1>6 DEF Settled, WorthOf
<1> QED
  BY <1>1, <1>4, <1>5, <1>6, <1>9, <1>10, <1>11, SerialStep DEF SerialInv

(* The client is told what memory and file both have, and that is gone     *)
(* which neither has.                                                      *)
LEMMA ReplySerial ==
  ASSUME SerialInv, MallInv', NEW c \in Conn, Reply(c)
  PROVE  SerialInv'
<1>1. /\ op[c].pc = "reply" /\ inv' = inv /\ st' = st /\ file' = file
      /\ op' = [op EXCEPT ![c] = Free]
      /\ told' = told \cup {[gid |-> op[c].got[j].gid, kind |-> op[c].got[j].kind] :
                              j \in DOMAIN op[c].got}
      /\ retired' = retired \cup ({op[c].gone} \ {0})
  BY DEF Reply, memory
<1>2. /\ op[c] \in Thread /\ ThreadSound(op[c]) /\ op[c].got \in List /\ op[c].gone \in Nat
      /\ ThreadSerial(op[c], inv, st, Saved, told)
      /\ Held(inv, st, Saved, told, retired)
  BY SerialFacts DEF Thread
<1>3. \A d \in Conn \ {c} : op[d].pc = "idle"
  BY <1>1, OthersIdle DEF SerialInv
<1>4. Settled(inv, st, Saved)
  BY <1>1, <1>3, SettledNow DEF Undecided
<1>5. /\ GoodsIn(op[c].got) \subseteq GoodsIn(inv)
      /\ \A good \in GoodsIn(inv) : good.gid # op[c].gone
      /\ op[c].gone < Saved.next
  BY <1>1, <1>2 DEF ThreadSerial, Writing
<1>6. told' = told \cup GoodsIn(op[c].got)
  <2>1. told' = told \cup Tags(op[c].got)
    BY <1>1 DEF Tags, TagOf
  <2>2. \A t \in Tags(op[c].got) : t.gid \notin StarterGids
    <3>1. \A t \in Tags(op[c].got) : t.gid >= FirstGood
      BY <1>2 DEF ThreadSound, Tags, TagOf
    <3>2. \A t \in Tags(op[c].got) : t.gid \in Nat
      BY <1>2, ReadOffTags
    <3>3. Len(StarterWeapons) \in Nat
      BY MallAssumption, LenProperties
    <3> QED
      BY <3>1, <3>2, <3>3 DEF FirstGood, StarterGids
  <2>3. GoodsIn(op[c].got) = Tags(op[c].got)
    BY <1>2, <2>2, ReadOffTags
  <2> QED
    BY <2>1, <2>3
<1>7. GoodsIn(inv) = GoodsIn(Saved.inventory)
  BY <1>4 DEF Settled
<1>8. Held(inv, st, Saved, told', retired')
  <2>1. told' \subseteq GoodsIn(inv) \cap GoodsIn(Saved.inventory)
    BY <1>2, <1>5, <1>6, <1>7 DEF Held
  <2>2. ASSUME NEW m \in retired'
        PROVE  /\ m \in Nat /\ m < Saved.next
               /\ \A good \in GoodsIn(inv) \cup GoodsIn(Saved.inventory) : good.gid # m
    <3>1. CASE m \in retired
      BY <3>1, <1>2 DEF Held
    <3>2. CASE m = op[c].gone
      BY <3>2, <1>2, <1>5, <1>7
    <3> QED
      BY <3>1, <3>2, <1>1
  <2> QED
    BY <2>1, <2>2, <1>2 DEF Held
<1>9. ThreadSerial(Free, inv, st, Saved, told')
  BY FreeThread, IdleSerial
<1>10. Saved' = Saved
  BY <1>1 DEF Saved
<1> QED
  BY <1>1, <1>3, <1>4, <1>8, <1>9, <1>10, SerialStep DEF SerialInv

(* The steps of a save, and the answer.                                    *)
LEMMA SaveSerial ==
  ASSUME SerialInv, MallInv', NEW c \in Conn, Save(c)
  PROVE  SerialInv'
BY SnapshotSerial, DumpSerial, ReplaceSerial, ReplySerial DEF Save

(* The steps of a purchase.                                                *)
LEMMA PurchaseSerial ==
  ASSUME MaxBusy = 1, SerialInv, MallInv', NEW c \in Conn, Purchase(c)
  PROVE  SerialInv'
BY BuySerial, PickGidSerial, TakeGidSerial, ExtendSerial, ReadWalletSerial, PaySerial
   DEF Purchase

(* A request that leaves the goods alone goes on to save.                  *)
LEMMA SavingSerial ==
  ASSUME SerialInv, MallInv', NEW c \in Conn, \A d \in Conn : op[d].pc = "idle",
         Saving(c), Tags(inv') = Tags(inv), st'.wallet = st.wallet, st'.next = st.next,
         file' = file, told' = told, retired' = retired
  PROVE  SerialInv'
<1>1. PICK o : o = [Free EXCEPT !.pc = "snapshot"]
  OBVIOUS
<1>2. /\ o.pc = "snapshot" /\ o.got = <<>> /\ o.gone = 0
      /\ op' = [op EXCEPT ![c] = o]
  BY <1>1, SavingThread DEF Saving
<1>3. /\ Held(inv, st, Saved, told, retired) /\ inv \in List
      /\ Saved.next \in Nat /\ Saved.next >= FirstGood /\ FirstGood \in Nat \ {0}
  BY SerialFacts
<1>4. Settled(inv, st, Saved)
  BY SettledNow DEF Undecided
<1>5. inv' \in List
  BY DEF MallInv, MallType
<1>6. GoodsIn(inv') = GoodsIn(inv)
  BY <1>3, <1>5, SameTags
<1>7. Held(inv', st', Saved, told, retired)
  BY <1>3, <1>6 DEF Held, Named, Below
<1>8. ThreadSerial(o, inv', st', Saved, told)
  <2>1. Booked(GoodsIn(Saved.inventory), Saved.wallet, GoodsIn(inv'), st'.wallet)
    BY <1>4, <1>6 DEF Settled, Booked
  <2>2. GoodsIn(o.got) = {}
    <3>1. DOMAIN <<>> = {}
      OBVIOUS
    <3> QED
      BY <3>1, <1>2 DEF GoodsIn
  <2>3. \A good \in GoodsIn(inv') : good.gid # 0
    BY <1>5, ReadOffTags
  <2>4. 0 < Saved.next
    BY <1>3
  <2> QED
    BY <2>1, <2>2, <2>3, <2>4, <1>2 DEF ThreadSerial, Writing
<1>9. Saved' = Saved
  BY DEF Saved
<1> QED
  BY <1>2, <1>7, <1>8, <1>9, SerialStep DEF SerialInv, Undecided

(* A drop begins: until the list is assigned nothing changes but what the  *)
(* client believes to own.                                                 *)
LEMMA DropSerial ==
  ASSUME MaxBusy = 1, SerialInv, MallInv', NEW c \in Conn, NEW g \in Gids(inv), Drop(c, g)
  PROVE  SerialInv'
<1>1. PICK o : o = [Free EXCEPT !.pc = "assign", !.gone = g, !.kept = Without(inv, g)]
  OBVIOUS
<1>2. /\ op' = [op EXCEPT ![c] = o] /\ inv' = inv /\ st' = st /\ file' = file
      /\ told' = {good \in told : good.gid # g} /\ retired' = retired
  BY <1>1 DEF Drop, memory
<1>3. o.pc = "assign" /\ o.gone = g /\ o.kept = Without(inv, g) /\ o.got = <<>>
  BY <1>1, FreeThread DEF Thread
<1>4. \A d \in Conn : op[d].pc = "idle"
  BY RequestAlone DEF Drop
<1>5. Settled(inv, st, Saved)
  BY <1>4, SettledNow DEF Undecided
<1>6. /\ Held(inv, st, Saved, told, retired) /\ inv \in List /\ Saved.inventory \in List
      /\ Saved.next \in Nat /\ Saved.next >= FirstGood
  BY SerialFacts
<1>7. g < Saved.next
  <2>1. PICK t \in Tags(inv) : t.gid = g
    BY <1>6, ReadOffTags
  <2>2. g \in Nat
    BY <1>6, GidsFinite
  <2>3. CASE g \in StarterGids
    <3>1. Len(StarterWeapons) \in Nat
      BY MallAssumption, LenProperties
    <3> QED
      BY <2>3, <3>1, <1>6 DEF StarterGids, FirstGood
  <2>4. CASE g \notin StarterGids
    <3>1. t \in GoodsIn(Saved.inventory)
      BY <2>1, <2>4, <1>5, <1>6, ReadOffTags DEF Settled
    <3>2. t \in Tags(Saved.inventory)
      BY <3>1, <1>6, ReadOffTags
    <3> QED
      BY <2>1, <3>2, <1>6 DEF Held, Below
  <2> QED
    BY <2>3, <2>4
<1>8. ThreadSerial(o, inv, st, Saved, told')
  BY <1>2, <1>3, <1>7 DEF ThreadSerial, Writing
<1>9. Held(inv, st, Saved, told', retired)
  BY <1>2, <1>6 DEF Held
<1>10. Saved' = Saved
  BY <1>2 DEF Saved
<1> QED
  BY <1>2, <1>4, <1>5, <1>8, <1>9, <1>10, SerialStep DEF SerialInv

(* With the assignment, memory is one drop ahead of the file, or, if a     *)
(* starter prop was dropped, no more ahead than a forgiven debt.           *)
LEMMA AssignKeptSerial ==
  ASSUME SerialInv, MallInv', NEW c \in Conn, AssignKept(c)
  PROVE  SerialInv'
<1>1. /\ op[c].pc = "assign" /\ inv' = op[c].kept /\ st' = st /\ file' = file
      /\ told' = told /\ retired' = retired
  BY DEF AssignKept, clients
<1>2. /\ op[c] \in Thread /\ ThreadSound(op[c]) /\ ThreadSerial(op[c], inv, st, Saved, told)
      /\ Held(inv, st, Saved, told, retired) /\ inv \in List /\ op[c].got \in List
  BY SerialFacts DEF Thread
<1>3. PICK o : o = [op[c] EXCEPT !.pc = "snapshot", !.kept = <<>>]
  OBVIOUS
<1>4. /\ op' = [op EXCEPT ![c] = o] /\ o.pc = "snapshot" /\ o.got = op[c].got
      /\ o.gone = op[c].gone
  BY <1>2, <1>3 DEF AssignKept, Thread
<1>5. \A d \in Conn \ {c} : op[d].pc = "idle"
  BY <1>1, OthersIdle DEF SerialInv
<1>6. Settled(inv, st, Saved)
  BY <1>1, <1>5, SettledNow DEF Undecided
<1>7. /\ inv' = Without(inv, op[c].gone) /\ op[c].gone < Saved.next
      /\ \A good \in told : good.gid # op[c].gone
  BY <1>1, <1>2 DEF ThreadSerial, Writing
<1>8. inv' \in List /\ Tags(inv') = {t \in Tags(inv) : t.gid # op[c].gone}
  BY <1>2, <1>7, WithoutTags
<1>9. GoodsIn(inv') = {good \in GoodsIn(inv) : good.gid # op[c].gone}
  BY <1>2, <1>8, ReadOffTags
<1>10. Booked(GoodsIn(Saved.inventory), Saved.wallet, GoodsIn(inv'), st.wallet)
  <2>1. CASE \E good \in GoodsIn(inv) : good.gid = op[c].gone
    <3>1. PICK good \in GoodsIn(inv) : good.gid = op[c].gone
      BY <2>1
    <3>2. \A other \in GoodsIn(inv) : other.gid = good.gid => other = good
      BY <1>2, ReadOffTags DEF Held, Named
    <3>3. GoodsIn(inv') = GoodsIn(inv) \ {good}
      BY <3>1, <3>2, <1>9
    <3> QED
      BY <3>3, <1>6 DEF Settled, Booked
  <2>2. CASE \A good \in GoodsIn(inv) : good.gid # op[c].gone
    <3>1. GoodsIn(inv') = GoodsIn(inv)
      BY <2>2, <1>9
    <3> QED
      BY <3>1, <1>6 DEF Settled, Booked
  <2> QED
    BY <2>1, <2>2
<1>11. op[c].got = <<>>
  BY <1>1, <1>2 DEF ThreadSerial
<1>12. ThreadSerial(o, inv', st, Saved, told)
  <2>1. GoodsIn(o.got) = {}
    <3>1. DOMAIN <<>> = {}
      OBVIOUS
    <3> QED
      BY <3>1, <1>4, <1>11 DEF GoodsIn
  <2> QED
    BY <2>1, <1>4, <1>7, <1>9, <1>10 DEF ThreadSerial, Writing
<1>13. Held(inv', st, Saved, told, retired)
  BY <1>2, <1>7, <1>8, <1>9 DEF Held, Named, Below
<1>14. Saved' = Saved
  BY <1>1 DEF Saved
<1> QED
  BY <1>1, <1>4, <1>5, <1>12, <1>13, <1>14, SerialStep DEF SerialInv, Undecided

(* The operations on props.                                                *)
LEMMA PropOperationSerial ==
  ASSUME MaxBusy = 1, SerialInv, MallInv', NEW c \in Conn, PropOperation(c)
  PROVE  SerialInv'
<1>1. ASSUME Acknowledge(c) PROVE SerialInv'
  <2>1. /\ Saving(c) /\ inv' = inv /\ st' = st /\ file' = file
        /\ told' = told /\ retired' = retired
    BY <1>1 DEF Acknowledge, memory, clients
  <2>2. \A d \in Conn : op[d].pc = "idle"
    BY <1>1, RequestAlone DEF Acknowledge
  <2> QED
    BY <2>1, <2>2, SavingSerial
<1>2. ASSUME Equips(c) PROVE SerialInv'
  <2>1. /\ Saving(c) /\ Tags(inv') = Tags(inv) /\ st'.wallet = st.wallet
        /\ st'.next = st.next /\ file' = file /\ told' = told /\ retired' = retired
        /\ \E what : Request(c, what)
    BY <1>2, EquipsKeeps DEF SerialInv
  <2>2. \A d \in Conn : op[d].pc = "idle"
    BY <2>1, RequestAlone
  <2> QED
    BY <2>1, <2>2, SavingSerial
<1> QED
  BY <1>1, <1>2, DropSerial, AssignKeptSerial DEF PropOperation, Equips

(* A fresh start: nothing sold, nothing told.                              *)
LEMMA SerialInit ==
  ASSUME Init
  PROVE  SerialInv
<1>1. /\ file = <<>> /\ st = Started(file) /\ inv = Started(file).inventory
      /\ told = {} /\ retired = {} /\ op = [c \in Conn |-> Free]
  BY DEF Init
<1>2. MallInv /\ file \in Files
  BY MallInit DEF MallInv, MallType
<1>3. Saved = DefaultState /\ Saved.inventory = Starter /\ Saved.next = FirstGood
  BY <1>1, StarterFacts DEF Saved, DefaultState
<1>4. Named(Saved.inventory) /\ Below(Saved.inventory, Saved.next)
  BY <1>3, StarterFacts
<1>5. /\ Named(inv) /\ Below(inv, st.next) /\ st.next >= Saved.next
      /\ GoodsIn(inv) = GoodsIn(Saved.inventory) /\ st.wallet \in WorthOf(Saved.wallet)
  BY <1>1, <1>2, <1>4, StartedFrom
<1>6. Held(inv, st, Saved, told, retired)
  BY <1>1, <1>4, <1>5 DEF Held
<1>7. \A c \in Conn : op[c].pc = "idle"
  BY <1>1, FreeThread
<1>8. Alone
  BY <1>7 DEF Alone
<1>9. \A c \in Conn : ThreadSerial(op[c], inv, st, Saved, told)
  BY <1>7, IdleSerial
<1> QED
  BY <1>2, <1>5, <1>6, <1>8, <1>9 DEF SerialInv, Settled

(* After a crash memory has the goods of the file, and no request is on    *)
(* its way.                                                                *)
LEMMA CrashSerial ==
  ASSUME SerialInv, MallInv', Crash
  PROVE  SerialInv'
<1>1. /\ st' = Started(file) /\ inv' = Started(file).inventory
      /\ file' = file /\ told' = told /\ retired' = retired
      /\ op' = [c \in Conn |-> Free]
  BY DEF Crash, clients
<1>2. Held(inv, st, Saved, told, retired) /\ file \in Files
  BY DEF SerialInv, MallInv, MallType
<1>3. Saved' = Saved
  BY <1>1 DEF Saved
<1>4. Named(Saved.inventory) /\ Below(Saved.inventory, Saved.next)
  BY <1>2 DEF Held
<1>5. /\ Named(inv') /\ Below(inv', st'.next) /\ st'.next >= Saved.next
      /\ GoodsIn(inv') = GoodsIn(Saved.inventory) /\ st'.wallet \in WorthOf(Saved.wallet)
  BY <1>1, <1>2, <1>4, StartedFrom
<1>6. Held(inv', st', Saved, told, retired)
  BY <1>2, <1>4, <1>5 DEF Held
<1>7. \A c \in Conn : op'[c].pc = "idle"
  BY <1>1, FreeThread
<1>8. Alone'
  BY <1>7 DEF Alone
<1>9. \A c \in Conn : ThreadSerial(op'[c], inv', st', Saved, told)
  BY <1>7, IdleSerial
<1>10. Settled(inv', st', Saved)
  BY <1>5 DEF Settled
<1> QED
  BY <1>1, <1>3, <1>6, <1>8, <1>9, <1>10 DEF SerialInv

(* The steps of the threads and the crash together.                        *)
LEMMA SerialNext ==
  ASSUME MaxBusy = 1, SerialInv, [Next]_vars
  PROVE  SerialInv'
<1>1. MallInv'
  BY MallNext DEF SerialInv
<1>2. CASE UNCHANGED vars
  <2>1. /\ inv' = inv /\ st' = st /\ file' = file /\ op' = op
        /\ told' = told /\ retired' = retired
    BY <1>2 DEF vars
  <2>2. Saved' = Saved
    BY <2>1 DEF Saved
  <2> QED
    BY <1>1, <2>1, <2>2 DEF SerialInv, Alone
<1>3. CASE Crash
  BY <1>1, <1>3, CrashSerial
<1>4. ASSUME NEW c \in Conn, Purchase(c) \/ Save(c) \/ PropOperation(c)
      PROVE  SerialInv'
  BY <1>1, <1>4, PurchaseSerial, SaveSerial, PropOperationSerial
<1> QED
  BY <1>2, <1>3, <1>4 DEF Next

(* The invariant when requests are handled one at a time.                  *)
THEOREM SerialInvariant ==
  ASSUME MaxBusy = 1
  PROVE  Spec => []SerialInv
<1>1. Init => SerialInv
  BY SerialInit
<1>2. SerialInv /\ [Next]_vars => SerialInv'
  BY SerialNext
<1> QED
  BY <1>1, <1>2, PTL DEF Spec

(* The backpacks with requests handled one at a time: the mounted one is   *)
(* current, also in the list that a drop is about to assign.               *)
CurrentInv ==
  /\ MountedIsCurrent
  /\ \A c \in Conn : op[c].pc = "assign" => Mounted(op[c].kept) \subseteq {st.bag}

(* A step that mounts nothing, leaves the current bag and begins no drop.  *)
LEMMA CurrentStays ==
  ASSUME MallInv, CurrentInv, NEW c \in Conn, NEW o, o.pc # "assign",
         op' = [op EXCEPT ![c] = o],
         Mounted(inv') \subseteq Mounted(inv), st'.bag = st.bag
  PROVE  CurrentInv'
<1>1. op'[c] = o /\ \A d \in Conn \ {c} : op'[d] = op[d]
  BY DEF MallInv, MallType
<1>2. ASSUME NEW d \in Conn, op'[d].pc = "assign"
      PROVE  Mounted(op'[d].kept) \subseteq {st'.bag}
  <2>1. d # c /\ op'[d] = op[d]
    BY <1>1, <1>2
  <2> QED
    BY <1>2, <2>1 DEF CurrentInv
<1>3. MountedIsCurrent'
  BY DEF CurrentInv, MountedIsCurrent
<1> QED
  BY <1>2, <1>3 DEF CurrentInv

(* A step after which no drop is under way.                                *)
LEMMA CurrentAlone ==
  ASSUME MallInv, NEW c \in Conn, \A d \in Conn \ {c} : op[d].pc = "idle",
         NEW o, o.pc = "assign" => Mounted(o.kept) \subseteq {st'.bag},
         op' = [op EXCEPT ![c] = o], Mounted(inv') \subseteq {st'.bag}
  PROVE  CurrentInv'
<1>1. op'[c] = o /\ \A d \in Conn \ {c} : op'[d] = op[d]
  BY DEF MallInv, MallType
<1>2. ASSUME NEW d \in Conn, op'[d].pc = "assign"
      PROVE  Mounted(op'[d].kept) \subseteq {st'.bag}
  <2>1. CASE d = c
    BY <1>1, <1>2, <2>1
  <2>2. CASE d # c
    BY <1>1, <1>2, <2>2
  <2> QED
    BY <2>1, <2>2
<1> QED
  BY <1>2 DEF CurrentInv, MountedIsCurrent

(* The steps of a purchase: what is bought is mounted to nobody.           *)
LEMMA PurchaseCurrent ==
  ASSUME MallInv, CurrentInv, NEW c \in Conn, Purchase(c)
  PROVE  CurrentInv'
<1>1. op[c] \in Thread /\ ThreadSound(op[c]) /\ inv \in List /\ st \in StateT
  BY DEF MallInv, MallType, SoundStates
<1>2. ASSUME NEW k \in DOMAIN Bundle, Buy(c, k) PROVE CurrentInv'
  <2>1. PICK o : o = [Free EXCEPT !.pc = "pick", !.todo = Bundle[k], !.charge = Charge(k)]
    OBVIOUS
  <2>2. o.pc # "assign"
    BY <2>1, FreeThread DEF Thread
  <2>3. op' = [op EXCEPT ![c] = o] /\ inv' = inv /\ st' = st
    BY <1>2, <2>1 DEF Buy, memory
  <2> QED
    BY <2>2, <2>3, CurrentStays
<1>3. ASSUME PickGid(c) PROVE CurrentInv'
  <2>1. PICK g \in 1 .. MaxGid : op' = [op EXCEPT ![c].pc = "take", ![c].cand = g]
    BY <1>3 DEF PickGid
  <2>2. PICK o : o = [op[c] EXCEPT !.pc = "take", !.cand = g]
    OBVIOUS
  <2>3. o.pc # "assign" /\ op' = [op EXCEPT ![c] = o] /\ inv' = inv /\ st' = st
    BY <1>1, <1>3, <2>1, <2>2 DEF PickGid, memory, Thread
  <2> QED
    BY <2>3, CurrentStays
<1>4. ASSUME TakeGid(c) PROVE CurrentInv'
  <2>1. PICK o : o = [op[c] EXCEPT !.got = Append(@, Bought(c)), !.todo = Tail(@),
                        !.pc = IF Tail(op[c].todo) = <<>> THEN "extend" ELSE "pick"]
    OBVIOUS
  <2>2. o.pc # "assign" /\ op' = [op EXCEPT ![c] = o] /\ inv' = inv
    BY <1>1, <1>4, <2>1 DEF TakeGid, Thread
  <2>3. st'.bag = st.bag
    BY <1>1, <1>4 DEF TakeGid, StateT
  <2> QED
    BY <2>2, <2>3, CurrentStays
<1>5. ASSUME Extend(c) PROVE CurrentInv'
  <2>1. PICK o : o = [op[c] EXCEPT !.pc = "wallet"]
    OBVIOUS
  <2>2. /\ o.pc # "assign" /\ op' = [op EXCEPT ![c] = o] /\ st' = st
        /\ inv' = inv \o op[c].got
    BY <1>1, <1>5, <2>1 DEF Extend, Goto, Thread
  <2>3. /\ op[c].got \in List
        /\ \A i \in DOMAIN op[c].got : op[c].got[i].owner >= 0
    BY <1>1 DEF Thread, ThreadSound
  <2>4. Mounted(inv') \subseteq Mounted(inv) \cup Mounted(op[c].got)
    BY <1>1, <2>2, <2>3, Concatenated
  <2>5. Mounted(op[c].got) = {}
    BY <2>3 DEF Mounted, Root
  <2> QED
    BY <2>2, <2>4, <2>5, CurrentStays
<1>6. ASSUME ReadWallet(c) PROVE CurrentInv'
  <2>1. PICK o : o = [op[c] EXCEPT !.pc = "pay", !.seen = st.wallet]
    OBVIOUS
  <2>2. o.pc # "assign" /\ op' = [op EXCEPT ![c] = o] /\ inv' = inv /\ st' = st
    BY <1>1, <1>6, <2>1 DEF ReadWallet, memory, Thread
  <2> QED
    BY <2>2, CurrentStays
<1>7. ASSUME Pay(c) PROVE CurrentInv'
  <2>1. PICK o : o = [op[c] EXCEPT !.pc = "snapshot"]
    OBVIOUS
  <2>2. o.pc # "assign" /\ op' = [op EXCEPT ![c] = o] /\ inv' = inv
    BY <1>1, <1>7, <2>1 DEF Pay, Goto, Thread
  <2>3. st'.bag = st.bag
    BY <1>1, <1>7 DEF Pay, StateT
  <2> QED
    BY <2>2, <2>3, CurrentStays
<1> QED
  BY <1>2, <1>3, <1>4, <1>5, <1>6, <1>7 DEF Purchase

(* The steps of a save: the current bag changes only where it is gone, and *)
(* then none is mounted.                                                   *)
LEMMA SaveCurrent ==
  ASSUME MaxBusy = 1, SerialInv, CurrentInv, NEW c \in Conn, Save(c)
  PROVE  CurrentInv'
<1>1. MallInv /\ op[c] \in Thread /\ inv \in List /\ st \in StateT /\ Alone
  BY DEF SerialInv, MallInv, MallType, SoundStates
<1>2. ASSUME Snapshot(c) PROVE CurrentInv'
  <2>1. PICK o : o = [op[c] EXCEPT !.pc = "dump"]
    OBVIOUS
  <2>2. /\ o.pc # "assign" /\ op' = [op EXCEPT ![c] = o] /\ inv' = inv
        /\ op[c].pc # "idle"
    BY <1>1, <1>2, <2>1 DEF Snapshot, Goto, Thread
  <2>3. st'.bag = CurrentBag(inv, st.bag)
    BY <1>1, <1>2 DEF Snapshot, StateT
  <2>4. Mounted(inv) \subseteq {st.bag}
    BY DEF CurrentInv, MountedIsCurrent
  <2>5. CASE st.bag \in Bags(inv)
    BY <2>2, <2>3, <2>4, <2>5, <1>1, CurrentStays DEF CurrentBag
  <2>6. CASE st.bag \notin Bags(inv)
    <3>1. Mounted(inv) \subseteq Bags(inv)
      BY <1>1, ReadOffTags
    <3>2. Mounted(inv') \subseteq {st'.bag}
      BY <2>2, <2>4, <2>6, <3>1
    <3>3. \A d \in Conn \ {c} : op[d].pc = "idle"
      BY <1>1, <2>2, OthersIdle
    <3> QED
      BY <1>1, <2>2, <3>2, <3>3, CurrentAlone
  <2> QED
    BY <2>5, <2>6
<1>3. ASSUME Dump(c) PROVE CurrentInv'
  <2>1. PICK o : o = [op[c] EXCEPT !.pc = "replace", !.image = <<st>>]
    OBVIOUS
  <2>2. o.pc # "assign" /\ op' = [op EXCEPT ![c] = o] /\ inv' = inv /\ st' = st
    BY <1>1, <1>3, <2>1 DEF Dump, memory, Thread
  <2> QED
    BY <1>1, <2>2, CurrentStays
<1>4. ASSUME Replace(c) PROVE CurrentInv'
  <2>1. PICK o : o = [op[c] EXCEPT !.pc = "reply"]
    OBVIOUS
  <2>2. o.pc # "assign" /\ op' = [op EXCEPT ![c] = o] /\ inv' = inv /\ st' = st
    BY <1>1, <1>4, <2>1 DEF Replace, Goto, memory, Thread
  <2> QED
    BY <1>1, <2>2, CurrentStays
<1>5. ASSUME Reply(c) PROVE CurrentInv'
  <2>1. Free.pc # "assign" /\ op' = [op EXCEPT ![c] = Free] /\ inv' = inv /\ st' = st
    BY <1>5, FreeThread DEF Reply, memory
  <2> QED
    BY <1>1, <2>1, CurrentStays
<1> QED
  BY <1>2, <1>3, <1>4, <1>5 DEF Save

(* The operations on props, a drop in its two steps.                       *)
LEMMA PropOperationCurrent ==
  ASSUME MaxBusy = 1, SerialInv, CurrentInv, NEW c \in Conn, PropOperation(c)
  PROVE  CurrentInv'
<1>1. /\ MallInv /\ op[c] \in Thread /\ inv \in List /\ st \in StateT /\ Alone
      /\ Mounted(inv) \subseteq {st.bag}
  BY DEF SerialInv, MallInv, MallType, SoundStates, CurrentInv, MountedIsCurrent
<1>2. PICK saver : saver = [Free EXCEPT !.pc = "snapshot"]
  OBVIOUS
<1>3. saver.pc = "snapshot"
  BY <1>2, SavingThread
<1>4. ASSUME Acknowledge(c) PROVE CurrentInv'
  <2>1. op' = [op EXCEPT ![c] = saver] /\ inv' = inv /\ st' = st
    BY <1>2, <1>4 DEF Acknowledge, Saving, memory
  <2> QED
    BY <1>1, <1>3, <2>1, CurrentStays
<1>5. ASSUME NEW g \in Gids(inv), Drop(c, g) PROVE CurrentInv'
  <2>1. PICK o : o = [Free EXCEPT !.pc = "assign", !.gone = g, !.kept = Without(inv, g)]
    OBVIOUS
  <2>2. op' = [op EXCEPT ![c] = o] /\ inv' = inv /\ st' = st
    BY <1>5, <2>1 DEF Drop, memory
  <2>3. o.kept = Without(inv, g)
    BY <2>1, FreeThread DEF Thread
  <2>4. Mounted(Without(inv, g)) \subseteq Mounted(inv)
    BY <1>1, WithoutTags
  <2>5. \A d \in Conn : op[d].pc = "idle"
    BY <1>5, RequestAlone DEF Drop
  <2> QED
    BY <1>1, <2>2, <2>3, <2>4, <2>5, CurrentAlone
<1>6. ASSUME AssignKept(c) PROVE CurrentInv'
  <2>1. PICK o : o = [op[c] EXCEPT !.pc = "snapshot", !.kept = <<>>]
    OBVIOUS
  <2>2. /\ o.pc # "assign" /\ op' = [op EXCEPT ![c] = o] /\ inv' = op[c].kept /\ st' = st
        /\ op[c].pc = "assign"
    BY <1>1, <1>6, <2>1 DEF AssignKept, Thread
  <2>3. Mounted(inv') \subseteq {st'.bag}
    BY <2>2 DEF CurrentInv
  <2>4. \A d \in Conn \ {c} : op[d].pc = "idle"
    BY <1>1, <2>2, OthersIdle
  <2> QED
    BY <1>1, <2>2, <2>3, <2>4, CurrentAlone
<1>7. ASSUME Equips(c) PROVE CurrentInv'
  <2>1. /\ \/ st'.bag = st.bag /\ Mounted(inv') \subseteq Mounted(inv)
           \/ Mounted(inv') \subseteq {st'.bag}
        /\ Saving(c) /\ \E what : Request(c, what)
    BY <1>1, <1>7, EquipsKeeps
  <2>2. op' = [op EXCEPT ![c] = saver] /\ Mounted(inv') \subseteq {st'.bag}
    BY <1>1, <1>2, <2>1 DEF Saving
  <2>3. \A d \in Conn : op[d].pc = "idle"
    BY <2>1, RequestAlone
  <2> QED
    BY <1>1, <1>3, <2>2, <2>3, CurrentAlone
<1> QED
  BY <1>4, <1>5, <1>6, <1>7 DEF PropOperation, Equips

(* With requests handled one at a time, the bag the client takes for its   *)
(* current one, if any is mounted, is the one the server takes for it.     *)
THEOREM MountedAlwaysCurrent ==
  ASSUME MaxBusy = 1
  PROVE  Spec => []MountedIsCurrent
<1>1. Init => CurrentInv
  <2> SUFFICES ASSUME Init PROVE CurrentInv
    OBVIOUS
  <2>1. file \in Files /\ st = Started(file) /\ inv = st.inventory
    BY DEF Init, Files
  <2>2. Mounted(inv) \subseteq {st.bag}
    BY <2>1, StartedFrom
  <2>3. \A c \in Conn : op[c].pc = "idle"
    BY FreeThread DEF Init
  <2> QED
    BY <2>2, <2>3 DEF CurrentInv, MountedIsCurrent
<1>2. SerialInv /\ CurrentInv /\ [Next]_vars => CurrentInv'
  <2> SUFFICES ASSUME SerialInv, CurrentInv, [Next]_vars PROVE CurrentInv'
    OBVIOUS
  <2>1. MallInv
    BY DEF SerialInv
  <2>2. CASE Crash
    <3>1. /\ file \in Files /\ st' = Started(file) /\ inv' = st'.inventory
          /\ op' = [c \in Conn |-> Free]
      BY <2>1, <2>2 DEF Crash, MallInv, MallType
    <3>2. Mounted(inv') \subseteq {st'.bag}
      BY <3>1, StartedFrom
    <3>3. \A c \in Conn : op'[c].pc = "idle"
      BY <3>1, FreeThread
    <3> QED
      BY <3>2, <3>3 DEF CurrentInv, MountedIsCurrent
  <2>3. ASSUME NEW c \in Conn, Purchase(c) \/ Save(c) \/ PropOperation(c)
        PROVE  CurrentInv'
    BY <2>1, <2>3, PurchaseCurrent, SaveCurrent, PropOperationCurrent
  <2>4. CASE UNCHANGED vars
    BY <2>4 DEF vars, CurrentInv, MountedIsCurrent
  <2> QED
    BY <2>2, <2>3, <2>4 DEF Next
<1>3. CurrentInv => MountedIsCurrent
  BY DEF CurrentInv
<1> QED
  BY <1>1, <1>2, <1>3, SerialInvariant, PTL DEF Spec

(* Mounted bags whose props stay what they are stay mounted.               *)
LEMMA BagsStand ==
  ASSUME NEW s, NEW t, DOMAIN t = DOMAIN s, NEW x,
         \A i \in DOMAIN s :
            s[i].kind = "bag" /\ s[i].owner = Root /\ s[i].gid # x => t[i] = s[i]
  PROVE  Mounted(s) \ {x} \subseteq Mounted(t)
BY DEF Mounted

(* A longer list has the bags of the shorter one mounted.                  *)
LEMMA MountedBefore ==
  ASSUME NEW s \in List, NEW t \in List
  PROVE  Mounted(s) \subseteq Mounted(s \o t)
<1>1. \A i \in DOMAIN s : i \in DOMAIN (s \o t) /\ (s \o t)[i] = s[i]
  <2>1. /\ s \o t \in List /\ Len(s \o t) = Len(s) + Len(t)
        /\ \A i \in 1 .. Len(s) + Len(t) :
             (s \o t)[i] = IF i <= Len(s) THEN s[i] ELSE t[i - Len(s)]
    BY ConcatProperties DEF List
  <2>2. /\ DOMAIN s = 1 .. Len(s) /\ DOMAIN (s \o t) = 1 .. Len(s) + Len(t)
        /\ Len(s) \in Nat /\ Len(t) \in Nat
    BY <2>1, LenProperties DEF List
  <2> QED
    BY <2>1, <2>2
<1> QED
  BY <1>1 DEF Mounted

(* Whoever drops one number drops no other bag.                            *)
LEMMA OthersStay ==
  ASSUME NEW s \in List, NEW g
  PROVE  Mounted(s) \ {g} \subseteq Mounted(Without(s, g))
<1>1. PICK P \in SUBSET DOMAIN s : P = {i \in DOMAIN s : s[i].gid # g}
  OBVIOUS
<1>2. /\ Without(s, g) = Picked(s, P)
      /\ \A i \in P : \E n \in DOMAIN Picked(s, P) : Picked(s, P)[n] = s[i]
  BY <1>1, PickedMembers DEF Without, List
<1>3. ASSUME NEW b \in Mounted(s), b # g PROVE b \in Mounted(Without(s, g))
  <2>1. PICK i \in DOMAIN s : s[i].kind = "bag" /\ s[i].owner = Root /\ s[i].gid = b
    BY DEF Mounted
  <2>2. i \in P
    BY <1>1, <1>3, <2>1
  <2>3. PICK n \in DOMAIN Without(s, g) : Without(s, g)[n] = s[i]
    BY <1>2, <2>2
  <2> QED
    BY <2>1, <2>3 DEF Mounted
<1> QED
  BY <1>3

(* The place of a number that there is has that number.                    *)
LEMMA IndexFound ==
  ASSUME NEW s \in List, NEW g \in Gids(s)
  PROVE  IndexOf(s, g) \in DOMAIN s /\ s[IndexOf(s, g)].gid = g
<1>1. PICK S : S = {i \in DOMAIN s : s[i].gid = g}
  OBVIOUS
<1>2. DOMAIN s = 1 .. Len(s) /\ Len(s) \in Nat
  BY LenProperties DEF List
<1>3. S \in SUBSET Nat /\ S # {}
  BY <1>1, <1>2 DEF Gids
<1>4. PICK m \in S : \A k \in S : m <= k
  BY <1>3, LeastNatural
<1>5. m \in DOMAIN s /\ s[m].gid = g /\ \A j \in 1 .. m - 1 : s[j].gid # g
  <2>1. m \in 1 .. Len(s) /\ s[m].gid = g
    BY <1>1, <1>2
  <2>2. ASSUME NEW j \in 1 .. m - 1 PROVE s[j].gid # g
    <3>1. j \in DOMAIN s /\ j \in Nat /\ m \in Nat /\ ~ (m <= j)
      BY <1>2, <2>1
    <3> QED
      BY <3>1, <1>1, <1>4
  <2> QED
    BY <1>2, <2>1, <2>2
<1> QED
  BY <1>5 DEF IndexOf

(* An equip leaves the bags alone, a selection mounts one, a takeoff takes *)
(* off what it names.                                                      *)
LEMMA EquipsLeaveBags ==
  ASSUME MallInv, NEW c \in Conn, Equips(c)
  PROVE  Mounted(inv') # {} \/ Mounted(inv) = {} \/ NamesMounted(c)
<1>1. inv \in List /\ HasBag(inv) /\ st \in StateT
  BY DEF MallInv, MallType, SoundStates
<1>2. 0 \notin Mounted(inv)
  BY <1>1, ReadOffTags
<1>3. ASSUME NEW t, t = [j \in DOMAIN inv |-> t[j]], inv' = t,
             \A j \in DOMAIN inv : inv[j].kind = "bag" /\ inv[j].owner = Root => t[j] = inv[j]
      PROVE  Mounted(inv) \subseteq Mounted(inv')
  <2>1. Mounted(inv) \ {0} \subseteq Mounted(t)
    BY <1>3, BagsStand
  <2> QED
    BY <1>2, <1>3, <2>1
<1>4. ASSUME NEW g \in Gids(inv), TakeOff(c, g), g \notin Mounted(inv)
      PROVE  Mounted(inv) \subseteq Mounted(inv')
  <2>1. PICK i : i = IndexOf(inv, g)
    OBVIOUS
  <2>2. i \in DOMAIN inv /\ inv[i].gid = g
    BY <1>1, <2>1, IndexFound
  <2>3. PICK t : t = [inv EXCEPT ![i] = Stowed(@)]
    OBVIOUS
  <2>4. ~ (inv[i].kind = "bag" /\ inv[i].owner = Root)
    BY <1>4, <2>2 DEF Mounted
  <2>5. /\ t = [j \in DOMAIN inv |-> t[j]] /\ inv' = t
        /\ \A j \in DOMAIN inv : j # i => t[j] = inv[j]
    BY <1>4, <2>1, <2>3 DEF TakeOff
  <2> QED
    BY <2>4, <2>5, <1>3
<1>5. ASSUME NEW bag \in {Bag1, Bag2}, NEW slot \in Slot, EquipNothing(c, bag, slot)
      PROVE  Mounted(inv) \subseteq Mounted(inv')
  <2>1. PICK t : t = [i \in DOMAIN inv |->
                        IF i \in Removable(bag, slot) THEN Stowed(inv[i]) ELSE inv[i]]
    OBVIOUS
  <2>2. \A i \in Removable(bag, slot) : inv[i].kind # "bag"
    <3>1. Removable(bag, slot) \subseteq InSocket(bag, slot) \cup InSocket(bag, "melee")
      BY DEF Removable
    <3>2. \A where : \A i \in InSocket(bag, where) : inv[i].kind \in Slot
      BY DEF InSocket
    <3>3. "bag" \notin Slot
      BY DEF Slot
    <3> QED
      BY <3>1, <3>2, <3>3
  <2>3. inv' = t
    BY <1>5, <2>1 DEF EquipNothing
  <2> QED
    BY <2>1, <2>2, <2>3, <1>3
<1>6. ASSUME NEW g \in Gids(inv), EquipRole(c, g)
      PROVE  Mounted(inv) \subseteq Mounted(inv')
  <2>1. PICK i, slot : i = IndexOf(inv, g) /\ slot = inv[i].kind
    OBVIOUS
  <2>2. PICK t : t = [j \in DOMAIN inv |->
                   CASE j = i -> [inv[j] EXCEPT !.owner = Root, !.loc = slot]
                     [] j # i /\ inv[j].kind = slot /\ inv[j].owner # 0
                          /\ inv[j].loc = slot -> Stowed(inv[j])
                     [] OTHER -> inv[j]]
    OBVIOUS
  <2>3. inv' = t /\ slot \in RoleKind /\ "bag" \notin RoleKind
    BY <1>6, <2>1, <2>2 DEF EquipRole, RoleKind
  <2>4. \A j \in DOMAIN inv : inv[j].kind = "bag" => t[j] = inv[j]
    BY <2>1, <2>2, <2>3
  <2>5. t = [j \in DOMAIN inv |-> t[j]]
    BY <2>2
  <2> QED
    BY <2>3, <2>4, <2>5, <1>3
<1>7. ASSUME NEW g \in Gids(inv), SelectBag(c, g)
      PROVE  Mounted(inv') # {}
  <2>1. g \in Bags(inv) /\ inv' = MountOnly(inv, g)
    BY <1>7 DEF SelectBag
  <2> QED
    BY <1>1, <2>1, MountedOnly
<1>8. ASSUME NEW g \in Gids(inv), NEW target \in Targets, NEW where \in Where,
             EquipItem(c, g, target, where)
      PROVE  Mounted(inv) \subseteq Mounted(inv')
  <2>1. PICK i, owner, loc :
          /\ i = IndexOf(inv, g)
          /\ owner = IF target \in {0, RoleGid} THEN CurrentBag(inv, st.bag) ELSE target
          /\ loc = IF where = "bag" /\ inv[i].kind \in Slot THEN inv[i].kind ELSE where
    OBVIOUS
  <2>2. PICK t : t = [j \in DOMAIN inv |->
                   CASE j = i -> [inv[j] EXCEPT !.owner = owner, !.loc = loc]
                     [] j # i /\ loc # "bag" /\ inv[j].owner = owner
                          /\ inv[j].loc = loc -> Stowed(inv[j])
                     [] OTHER -> inv[j]]
    OBVIOUS
  <2>3. inv' = t /\ inv[i].kind # "bag"
    BY <1>8, <2>1, <2>2 DEF EquipItem
  <2>4. CurrentBag(inv, st.bag) \in Nat
    BY <1>1, CurrentBagKnown
  <2>5. owner \in Nat /\ Root \notin Nat
    BY <2>1, <2>4, MallAssumption DEF Root
  <2>6. \A j \in DOMAIN inv : inv[j].kind = "bag" /\ inv[j].owner = Root => t[j] = inv[j]
    BY <2>2, <2>3, <2>5
  <2>7. t = [j \in DOMAIN inv |-> t[j]]
    BY <2>2
  <2> QED
    BY <2>3, <2>6, <2>7, <1>3
<1> QED
  BY <1>4, <1>5, <1>6, <1>7, <1>8 DEF Equips, NamesMounted

(* With requests handled one at a time, for any bags and bundles: the      *)
(* mounted bag is lost to nothing but a drop or takeoff that names it, and *)
(* every start mounts one.                                                 *)
THEOREM BagAlwaysStaysMounted ==
  ASSUME MaxBusy = 1
  PROVE  Spec => BagStaysMounted
<1> DEFINE Stays == Mounted(inv') = {} =>
              /\ ~Crash
              /\ Mounted(inv) = {} \/ \E c \in Conn : NamesMounted(c)
<1>1. SerialInv /\ [Next]_vars => [Stays]_vars
  <2> SUFFICES ASSUME SerialInv, Next, Mounted(inv') = {}
               PROVE  /\ ~Crash
                      /\ Mounted(inv) = {} \/ \E c \in Conn : NamesMounted(c)
    BY DEF vars
  <2>1. MallInv /\ file \in Files /\ inv \in List
    BY DEF SerialInv, MallInv, MallType
  <2>2. ~Crash
    <3>1. Crash => inv' = Started(file).inventory
      BY DEF Crash
    <3> QED
      BY <2>1, <3>1, StartedFrom
  <2>3. PICK c \in Conn : Purchase(c) \/ Save(c) \/ PropOperation(c)
    BY <2>2 DEF Next
  <2>4. CASE inv' = inv
    BY <2>2, <2>4
  <2>5. CASE Extend(c)
    <3>1. inv' = inv \o op[c].got /\ op[c].got \in List
      BY <2>1, <2>5 DEF Extend, MallInv, MallType, Thread
    <3> QED
      BY <2>1, <2>2, <3>1, MountedBefore
  <2>6. CASE AssignKept(c)
    <3>1. inv' = op[c].kept /\ op[c].pc = "assign"
      BY <2>6 DEF AssignKept
    <3>2. op[c].kept = Without(inv, op[c].gone)
      BY <3>1 DEF SerialInv, ThreadSerial
    <3>3. Mounted(inv) \ {op[c].gone} = {}
      BY <2>1, <3>1, <3>2, OthersStay
    <3> QED
      BY <2>2, <3>1, <3>3 DEF NamesMounted
  <2>7. CASE Equips(c)
    BY <2>1, <2>2, <2>7, EquipsLeaveBags
  <2>8. inv' = inv \/ Extend(c) \/ AssignKept(c) \/ Equips(c)
    BY <2>3 DEF Purchase, Buy, PickGid, TakeGid, ReadWallet, Pay, Save, Snapshot, Dump,
                Replace, Reply, PropOperation, Acknowledge, Drop, Equips, memory
  <2> QED
    BY <2>2, <2>4, <2>5, <2>6, <2>7, <2>8
<1> QED
  BY <1>1, SerialInvariant, PTL DEF Spec, BagStaysMounted

(* With requests handled one at a time, what a client was told it bought   *)
(* it has in memory and in the file, over any crash, until it drops it.    *)
THEOREM PurchaseAlwaysKept ==
  ASSUME MaxBusy = 1
  PROVE  Spec => []PurchaseKept
<1>1. SerialInv => PurchaseKept
  BY DEF SerialInv, Held, PurchaseKept
<1> QED
  BY <1>1, SerialInvariant, PTL

(* With requests handled one at a time, the number of a dropped good never *)
(* comes back on another one.                                              *)
THEOREM NumbersNeverReused ==
  ASSUME MaxBusy = 1
  PROVE  Spec => []NumbersNotReused
<1>1. SerialInv => NumbersNotReused
  BY DEF SerialInv, Held, NumbersNotReused
<1> QED
  BY <1>1, SerialInvariant, PTL

-----------------------------------------------------------------------------
(* The file changes by one entry of the ledger or not at all.              *)
LEMMA BookedEntry ==
  ASSUME Booked(GoodsIn(Saved.inventory), Saved.wallet,
                GoodsIn(Saved'.inventory), Saved'.wallet)
  PROVE  Ledger!Next
<1> DEFINE goods == GoodsIn(Saved.inventory)
           coins == Saved.wallet
<1>1. Ledger!Worth = WorthOf(coins)
  BY DEF Ledger!Worth, WorthOf
<1>2. GoodsIn(Saved.inventory)' = GoodsIn(Saved'.inventory)
  BY DEF GoodsIn
<1>3. ASSUME NEW k \in DOMAIN Bundle, NEW n \in 1 .. MaxGid,
             \A new \in Numbered(k, n), old \in goods : new.gid # old.gid,
             GoodsIn(Saved'.inventory) = goods \cup Numbered(k, n),
             \E w \in WorthOf(coins) : Saved'.wallet = w - Charge(k)
      PROVE  Ledger!Next
  <2>1. Ledger!GoodsOf(k, n) = Numbered(k, n)
    BY DEF Ledger!GoodsOf, Numbered
  <2>2. Ledger!Buy(k, n)
    BY <1>1, <1>2, <1>3, <2>1 DEF Ledger!Buy, Charge
  <2> QED
    BY <2>2 DEF Ledger!Next
<1>4. ASSUME NEW good \in goods, GoodsIn(Saved'.inventory) = goods \ {good},
             Saved'.wallet \in WorthOf(coins)
      PROVE  Ledger!Next
  BY <1>1, <1>2, <1>4 DEF Ledger!Next, Ledger!Drop
<1>5. ASSUME GoodsIn(Saved'.inventory) = goods, Saved'.wallet \in WorthOf(coins)
      PROVE  Ledger!Next
  BY <1>1, <1>2, <1>5 DEF Ledger!Next, Ledger!Forgive
<1> QED
  BY <1>3, <1>4, <1>5 DEF Booked

(* Only the move of a finished .tmp file over the state file changes what  *)
(* is saved.                                                               *)
LEMMA OnlyReplaceSaves ==
  ASSUME [Next]_vars
  PROVE  Saved' = Saved \/ \E c \in Conn : Replace(c)
<1>1. ASSUME file' = file PROVE Saved' = Saved
  BY <1>1 DEF Saved
<1>2. ASSUME NEW c \in Conn, Purchase(c) PROVE file' = file
  BY <1>2 DEF Purchase, Buy, PickGid, TakeGid, Extend, ReadWallet, Pay
<1>3. ASSUME NEW c \in Conn, PropOperation(c) PROVE file' = file
  BY <1>3 DEF PropOperation, Acknowledge, AssignKept, Drop, TakeOff, EquipRole, SelectBag,
              EquipItem, EquipNothing
<1>4. ASSUME NEW c \in Conn, Save(c) PROVE file' = file \/ Replace(c)
  BY <1>4 DEF Save, Snapshot, Dump, Reply
<1>5. CASE Crash
  BY <1>1, <1>5 DEF Crash
<1>6. CASE UNCHANGED vars
  BY <1>1, <1>6 DEF vars
<1> QED
  BY <1>1, <1>2, <1>3, <1>4, <1>5, <1>6 DEF Next

(* With requests handled one at a time the file is the ledger: it goes     *)
(* from one whole purchase or drop to the next, whatever step a crash      *)
(* comes at, and no crash changes it.                                      *)
THEOREM LedgerAlwaysRefined ==
  ASSUME MaxBusy = 1
  PROVE  Spec => LedgerRefined
<1>1. Init => Ledger!Init
  <2> SUFFICES ASSUME Init PROVE Ledger!Init
    OBVIOUS
  <2>1. Saved = DefaultState
    BY DEF Init, Saved
  <2>2. Saved.inventory = Starter /\ Saved.wallet = Opening
    BY <2>1 DEF DefaultState
  <2> QED
    BY <2>2, StarterFacts DEF Ledger!Init
<1>2. SerialInv /\ [Next]_vars => [Ledger!Next]_(Ledger!ledgerVars)
  <2> SUFFICES ASSUME SerialInv, [Next]_vars
               PROVE  Ledger!Next \/ Ledger!ledgerVars' = Ledger!ledgerVars
    OBVIOUS
  <2>1. CASE Saved' = Saved
    BY <2>1 DEF Ledger!ledgerVars, GoodsIn
  <2>2. ASSUME NEW c \in Conn, Replace(c) PROVE Ledger!Next
    <3>1. /\ Saved' = st /\ st.inventory = inv
          /\ Booked(GoodsIn(Saved.inventory), Saved.wallet, GoodsIn(inv), st.wallet)
      BY <2>2, Replaced
    <3> QED
      BY <3>1, BookedEntry
  <2> QED
    BY <2>1, <2>2, OnlyReplaceSaves
<1> QED
  BY <1>1, <1>2, SerialInvariant, PTL DEF Spec, LedgerRefined, Ledger!Spec
=============================================================================
