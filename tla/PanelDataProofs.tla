-------------------------- MODULE PanelDataProofs ---------------------------
(***************************************************************************)
(* Theorems about what the panel keeps on disk, one section for each part, *)
(* and about their composition: the order of versions, for versions of any *)
(* number of identifiers, the check for a newer release, the update of the *)
(* binary, the migration of an earlier database, its replacement by a      *)
(* backup, the references between rows, the representations of an inbound, *)
(* for inbounds with any values in their fields, and the import of a 3x-ui *)
(* database, for any files and any database.                               *)
(***************************************************************************)
EXTENDS PanelData, WellFoundedInduction, SequenceTheorems, FiniteSetTheorems, TLAPS

-----------------------------------------------------------------------------
\* A set of numbers that is not empty has a least one.
LEMMA LeastExists ==
    ASSUME NEW S, S \subseteq Nat, S # {}
    PROVE  \E i \in S : \A j \in S : i <= j
<1> DEFINE Below == {ss \in Nat \X Nat : ss[1] < ss[2]}
<1>1. IsWellFoundedOn(Below, Nat)
  BY NatLessThanWellFounded DEF OpToRel
<1>2. \A i, j \in Nat : <<j, i>> \in Below <=> j < i
  OBVIOUS
<1> HIDE DEF Below
<1>3. PICK i \in S : \A j \in S : ~ (<<j, i>> \in Below)
  BY <1>1, WFMin
<1>4. ASSUME NEW j \in S PROVE i <= j
  <2>1. i \in Nat /\ j \in Nat
    OBVIOUS
  <2>2. ~ (j < i)
    BY <1>2, <1>3, <2>1
  <2> QED BY <2>1, <2>2
<1> QED BY <1>4

VXIdentifiers == {0, 1} \X Nat
VXParsed == [ok : {TRUE}, core : [1..3 -> Nat], pre : Seq(VXIdentifiers)]

\* The outcome of a comparison: 1, -1 or 0.
LEMMA VXSigns ==
    /\ \A a, b \in Nat : /\ CompareNumber(a, b) \in {-1, 0, 1}
                         /\ CompareNumber(a, b) = -1 <=> VXLess(<<0, a>>, <<0, b>>)
                         /\ CompareNumber(a, b) = 1 <=> VXLess(<<0, b>>, <<0, a>>)
                         /\ CompareNumber(a, b) = 0 <=> a = b
    /\ \A a, b \in VXIdentifiers : /\ CompareIdentifier(a, b) \in {-1, 0, 1}
                                   /\ CompareIdentifier(a, b) = -1 <=> VXLess(a, b)
                                   /\ CompareIdentifier(a, b) = 1 <=> VXLess(b, a)
                                   /\ CompareIdentifier(a, b) = 0 <=> a = b
<1>1. ASSUME NEW a \in Nat, NEW b \in Nat
      PROVE  /\ CompareNumber(a, b) \in {-1, 0, 1}
             /\ CompareNumber(a, b) = -1 <=> VXLess(<<0, a>>, <<0, b>>)
             /\ CompareNumber(a, b) = 1 <=> VXLess(<<0, b>>, <<0, a>>)
             /\ CompareNumber(a, b) = 0 <=> a = b
  BY DEF CompareNumber, VXSign, VXLess
<1>2. ASSUME NEW a \in VXIdentifiers, NEW b \in VXIdentifiers
      PROVE  /\ CompareIdentifier(a, b) \in {-1, 0, 1}
             /\ CompareIdentifier(a, b) = -1 <=> VXLess(a, b)
             /\ CompareIdentifier(a, b) = 1 <=> VXLess(b, a)
             /\ CompareIdentifier(a, b) = 0 <=> a = b
  <2>1. a[1] \in {0, 1} /\ a[2] \in Nat /\ b[1] \in {0, 1} /\ b[2] \in Nat
    BY DEF VXIdentifiers
  <2>2. a = <<a[1], a[2]>> /\ b = <<b[1], b[2]>>
    BY DEF VXIdentifiers
  <2>3. a = b <=> a[1] = b[1] /\ a[2] = b[2]
    BY <2>2
  <2> QED BY <2>1, <2>3 DEF CompareIdentifier, VXSign, VXLess
<1> QED BY <1>1, <1>2

\* The first difference of two sequences of numbers.
LEMMA VXNumbersDiffer ==
    ASSUME NEW n \in Nat, NEW l, NEW r, Len(l) = n,
           \A i \in 1..n : l[i] \in Nat /\ r[i] \in Nat
    PROVE  LET d == FirstDifference(l, r, CompareNumber) IN
           \/ d = 0 /\ \A i \in 1..n : l[i] = r[i]
           \/ \E i \in 1..n : /\ \A j \in 1..(i - 1) : l[j] = r[j]
                              /\ \/ d = -1 /\ VXLess(<<0, l[i]>>, <<0, r[i]>>)
                                 \/ d = 1 /\ VXLess(<<0, r[i]>>, <<0, l[i]>>)
<1> DEFINE d == FirstDifference(l, r, CompareNumber)
           differ == {i \in 1..n : CompareNumber(l[i], r[i]) # 0}
           first == CHOOSE j \in differ : \A k \in differ : j <= k
<1>1. d = IF differ = {} THEN 0 ELSE CompareNumber(l[first], r[first])
  BY DEF FirstDifference
<1>2. \A i \in 1..n : i \notin differ => l[i] = r[i]
  BY VXSigns
<1>3. CASE differ = {}
  BY <1>1, <1>2, <1>3
<1>4. CASE differ # {}
  <2>1. first \in differ /\ \A k \in differ : first <= k
    <3>1. \E i \in differ : \A k \in differ : i <= k
      <4>1. differ \subseteq Nat
        OBVIOUS
      <4> HIDE DEF differ
      <4> QED BY <4>1, <1>4, LeastExists
    <3> HIDE DEF differ
    <3> QED BY <3>1
  <2> HIDE DEF first
  <2>2. \A j \in 1..(first - 1) : l[j] = r[j]
    BY <2>1, <1>2
  <2>3. d = CompareNumber(l[first], r[first]) /\ d # 0 /\ first \in 1..n
    BY <2>1, <1>1, <1>4
  <2>4. \/ d = -1 /\ VXLess(<<0, l[first]>>, <<0, r[first]>>)
        \/ d = 1 /\ VXLess(<<0, r[first]>>, <<0, l[first]>>)
    BY <2>3, VXSigns
  <2> QED BY <2>2, <2>3, <2>4
<1> QED BY <1>3, <1>4

\* The first difference of two sequences of identifiers.
LEMMA VXIdentifiersDiffer ==
    ASSUME NEW n \in Nat, NEW l, NEW r, Len(l) = n,
           \A i \in 1..n : l[i] \in VXIdentifiers /\ r[i] \in VXIdentifiers
    PROVE  LET d == FirstDifference(l, r, CompareIdentifier) IN
           \/ d = 0 /\ \A i \in 1..n : l[i] = r[i]
           \/ \E i \in 1..n : /\ \A j \in 1..(i - 1) : l[j] = r[j]
                              /\ \/ d = -1 /\ VXLess(l[i], r[i])
                                 \/ d = 1 /\ VXLess(r[i], l[i])
<1> DEFINE d == FirstDifference(l, r, CompareIdentifier)
           differ == {i \in 1..n : CompareIdentifier(l[i], r[i]) # 0}
           first == CHOOSE j \in differ : \A k \in differ : j <= k
<1>1. d = IF differ = {} THEN 0 ELSE CompareIdentifier(l[first], r[first])
  BY DEF FirstDifference
<1>2. \A i \in 1..n : i \notin differ => l[i] = r[i]
  BY VXSigns
<1>3. CASE differ = {}
  BY <1>1, <1>2, <1>3
<1>4. CASE differ # {}
  <2>1. first \in differ /\ \A k \in differ : first <= k
    <3>1. \E i \in differ : \A k \in differ : i <= k
      <4>1. differ \subseteq Nat
        OBVIOUS
      <4> HIDE DEF differ
      <4> QED BY <4>1, <1>4, LeastExists
    <3> HIDE DEF differ
    <3> QED BY <3>1
  <2> HIDE DEF first
  <2>2. \A j \in 1..(first - 1) : l[j] = r[j]
    BY <2>1, <1>2
  <2>3. d = CompareIdentifier(l[first], r[first]) /\ d # 0 /\ first \in 1..n
    BY <2>1, <1>1, <1>4
  <2>4. \/ d = -1 /\ VXLess(l[first], r[first])
        \/ d = 1 /\ VXLess(r[first], l[first])
    BY <2>3, VXSigns
  <2> QED BY <2>2, <2>3, <2>4
<1> QED BY <1>3, <1>4

\* The place that decides decides alone.
VXDecides(l, r, i) ==
    /\ i \in VXPlaces(l, r)
    /\ \A j \in 1..(i - 1) : VXPlace(l, j) = VXPlace(r, j)
    /\ VXLess(VXPlace(l, i), VXPlace(r, i))

VXPairs == Int \X Int

LEMMA VXPlaceIsPair ==
    ASSUME NEW v \in VXParsed, NEW i \in Nat \ {0}
    PROVE  VXPlace(v, i) \in VXPairs
<1>1. v.core \in [1..3 -> Nat] /\ v.pre \in Seq(VXIdentifiers)
  BY DEF VXParsed
<1>2. CASE i <= 3
  BY <1>1, <1>2 DEF VXPlace, VXPairs
<1>3. CASE i > 3 /\ v.pre # <<>> /\ i - 3 <= Len(v.pre)
  <2>1. i - 3 \in 1..Len(v.pre)
    BY <1>1, <1>3
  <2>2. v.pre[i - 3] \in VXIdentifiers
    BY <1>1, <2>1
  <2>3. VXPlace(v, i) = v.pre[i - 3]
    BY <1>3 DEF VXPlace
  <2> QED BY <2>2, <2>3 DEF VXIdentifiers, VXPairs
<1>4. CASE i > 3 /\ (v.pre = <<>> \/ ~(i - 3 <= Len(v.pre)))
  BY <1>4 DEF VXPlace, VXPairs
<1> QED BY <1>2, <1>3, <1>4

\* The places are the same in both orders.
LEMMA VXPlacesAre ==
    ASSUME NEW l \in VXParsed, NEW r \in VXParsed
    PROVE  \E n \in Nat : /\ n = 4 + Len(l.pre) + Len(r.pre) /\ n >= 4
                          /\ VXPlaces(l, r) = 1..n /\ VXPlaces(r, l) = 1..n
<1>1. PICK a \in Nat : a = Len(l.pre)
  BY DEF VXParsed
<1>2. PICK b \in Nat : b = Len(r.pre)
  BY DEF VXParsed
<1>3. VXPlaces(l, r) = 1..(4 + a + b) /\ VXPlaces(r, l) = 1..(4 + b + a)
  BY <1>1, <1>2 DEF VXPlaces
<1>4. 4 + a + b = 4 + b + a /\ 4 + a + b \in Nat /\ 4 + a + b >= 4
  OBVIOUS
<1> QED BY <1>1, <1>2, <1>3, <1>4

LEMMA VXDecidedOnce ==
    ASSUME NEW l \in VXParsed, NEW r \in VXParsed
    PROVE  /\ \A i : VXDecides(l, r, i) => VXBefore(l, r) /\ ~VXBefore(r, l)
           /\ (\A i \in VXPlaces(l, r) : VXPlace(l, i) = VXPlace(r, i))
                => ~VXBefore(l, r) /\ ~VXBefore(r, l)
<1>0. VXPlaces(l, r) = VXPlaces(r, l) /\ VXPlaces(l, r) \subseteq Nat \ {0}
      /\ \A i \in VXPlaces(l, r) : \A j \in 1..(i - 1) : j \in VXPlaces(l, r)
  <2>1. PICK n : /\ n \in Nat /\ n = 4 + Len(l.pre) + Len(r.pre) /\ n >= 4
                 /\ VXPlaces(l, r) = 1..n /\ VXPlaces(r, l) = 1..n
    BY VXPlacesAre
  <2>2. VXPlaces(l, r) = VXPlaces(r, l)
    BY <2>1
  <2>3. n \in Nat /\ \A i : i \in VXPlaces(l, r) <=> i \in 1..n
    BY <2>1
  <2>4. \A i \in 1..n : i \in Nat \ {0} /\ \A j \in 1..(i - 1) : j \in 1..n
    BY <2>3
  <2> QED BY <2>2, <2>3, <2>4
<1>1. \A i \in VXPlaces(l, r) : VXPlace(l, i) \in VXPairs /\ VXPlace(r, i) \in VXPairs
  BY <1>0, VXPlaceIsPair
<1>2. \A a, b \in VXPairs : VXLess(a, b) => ~VXLess(b, a) /\ a # b
  BY DEF VXPairs, VXLess
<1>3. ASSUME NEW i, VXDecides(l, r, i) PROVE VXBefore(l, r) /\ ~VXBefore(r, l)
  <2>1. VXBefore(l, r)
    BY <1>3 DEF VXDecides, VXBefore
  <2>2. ASSUME VXBefore(r, l) PROVE FALSE
    <3>1. PICK k \in VXPlaces(l, r) : /\ \A j \in 1..(k - 1) : VXPlace(r, j) = VXPlace(l, j)
                                      /\ VXLess(VXPlace(r, k), VXPlace(l, k))
      BY <2>2, <1>0 DEF VXBefore
    <3>2. i \in VXPlaces(l, r) /\ VXLess(VXPlace(l, i), VXPlace(r, i))
      BY <1>3 DEF VXDecides
    <3>3. VXPlace(l, i) # VXPlace(r, i) /\ VXPlace(l, k) # VXPlace(r, k)
      BY <3>1, <3>2, <1>1, <1>2
    <3>4. i \notin 1..(k - 1) /\ k \notin 1..(i - 1)
      BY <3>1, <3>3, <1>3 DEF VXDecides
    <3>5. i = k
      BY <3>1, <3>2, <3>4, <1>0
    <3> QED BY <3>1, <3>2, <3>5, <1>1, <1>2
  <2> QED BY <2>1, <2>2
<1>4. ASSUME \A i \in VXPlaces(l, r) : VXPlace(l, i) = VXPlace(r, i)
      PROVE  ~VXBefore(l, r) /\ ~VXBefore(r, l)
  BY <1>0, <1>1, <1>2, <1>4 DEF VXBefore
<1> QED BY <1>3, <1>4

\* The places of two versions as the comparison meets them.
LEMMA VXPlaceFacts ==
    ASSUME NEW v \in VXParsed
    PROVE  /\ \A i \in 1..3 : VXPlace(v, i) = <<0, v.core[i]>> /\ v.core[i] \in Nat
           /\ v.pre = <<>> => \A i \in Nat : i > 3 => VXPlace(v, i) = <<2, 0>>
           /\ \A i \in 1..Len(v.pre) : VXPlace(v, 3 + i) = v.pre[i] /\ v.pre[i] \in VXIdentifiers
           /\ v.pre # <<>> => \A i \in Nat : i > 3 + Len(v.pre) => VXPlace(v, i) = <<-1, 0>>
           /\ Len(v.pre) \in Nat /\ (v.pre = <<>> <=> Len(v.pre) = 0)
<1>1. v.core \in [1..3 -> Nat] /\ v.pre \in Seq(VXIdentifiers) /\ Len(v.pre) \in Nat
  BY DEF VXParsed
<1>2. \A i \in 1..3 : VXPlace(v, i) = <<0, v.core[i]>> /\ v.core[i] \in Nat
  BY <1>1 DEF VXPlace
<1>3. v.pre = <<>> <=> Len(v.pre) = 0
  BY <1>1
<1>4. ASSUME v.pre = <<>>, NEW i \in Nat, i > 3 PROVE VXPlace(v, i) = <<2, 0>>
  BY <1>4 DEF VXPlace
<1>5. ASSUME NEW i \in 1..Len(v.pre) PROVE VXPlace(v, 3 + i) = v.pre[i] /\ v.pre[i] \in VXIdentifiers
  <2>1. 3 + i > 3 /\ ~(3 + i <= 3) /\ (3 + i) - 3 = i /\ i <= Len(v.pre) /\ v.pre # <<>>
    BY <1>1, <1>3
  <2> QED BY <1>1, <2>1 DEF VXPlace
<1>6. ASSUME v.pre # <<>>, NEW i \in Nat, i > 3 + Len(v.pre) PROVE VXPlace(v, i) = <<-1, 0>>
  <2>1. i > 3 /\ ~(i <= 3) /\ ~(i - 3 <= Len(v.pre))
    BY <1>1, <1>6
  <2> QED BY <2>1, <1>6 DEF VXPlace
<1> QED BY <1>1, <1>2, <1>3, <1>4, <1>5, <1>6

\* Two cores that differ decide.
LEMMA VXCoresDecide ==
    ASSUME NEW l \in VXParsed, NEW r \in VXParsed
    PROVE  LET d == FirstDifference(l.core, r.core, CompareNumber) IN
           \/ d = 0 /\ \A i \in 1..3 : VXPlace(l, i) = VXPlace(r, i)
           \/ d = -1 /\ \E i : VXDecides(l, r, i)
           \/ d = 1 /\ \E i : VXDecides(r, l, i)
<1> DEFINE d == FirstDifference(l.core, r.core, CompareNumber)
<1>1. l.core \in [1..3 -> Nat] /\ r.core \in [1..3 -> Nat] /\ Len(l.core) = 3
  <2>1. l.core \in [1..3 -> Nat] /\ r.core \in [1..3 -> Nat]
    BY DEF VXParsed
  <2> QED BY <2>1, LenProperties, SeqDef
<1>2. \/ d = 0 /\ \A i \in 1..3 : l.core[i] = r.core[i]
      \/ \E i \in 1..3 : /\ \A j \in 1..(i - 1) : l.core[j] = r.core[j]
                         /\ \/ d = -1 /\ VXLess(<<0, l.core[i]>>, <<0, r.core[i]>>)
                            \/ d = 1 /\ VXLess(<<0, r.core[i]>>, <<0, l.core[i]>>)
  BY <1>1, VXNumbersDiffer
<1> HIDE DEF d
<1>3. \A i \in 1..3 : /\ VXPlace(l, i) = <<0, l.core[i]>> /\ VXPlace(r, i) = <<0, r.core[i]>>
                      /\ i \in VXPlaces(l, r) /\ i \in VXPlaces(r, l)
  <2>1. \A i \in 1..3 : VXPlace(l, i) = <<0, l.core[i]>> /\ VXPlace(r, i) = <<0, r.core[i]>>
    BY VXPlaceFacts
  <2>3. \A i \in 1..3 : i \in VXPlaces(l, r) /\ i \in VXPlaces(r, l)
    <3>1. PICK n : /\ n \in Nat /\ n = 4 + Len(l.pre) + Len(r.pre) /\ n >= 4
                   /\ VXPlaces(l, r) = 1..n /\ VXPlaces(r, l) = 1..n
      BY VXPlacesAre
    <3>2. n \in Nat /\ n >= 4
      BY <3>1
    <3>3. \A i \in 1..3 : i \in 1..n
      BY <3>2
    <3> QED BY <3>1, <3>3
  <2> QED BY <2>1, <2>3
<1>4. ASSUME NEW i \in 1..3, \A j \in 1..(i - 1) : l.core[j] = r.core[j]
      PROVE  /\ \A j \in 1..(i - 1) : VXPlace(l, j) = VXPlace(r, j)
             /\ VXLess(<<0, l.core[i]>>, <<0, r.core[i]>>) => VXDecides(l, r, i)
             /\ VXLess(<<0, r.core[i]>>, <<0, l.core[i]>>) => VXDecides(r, l, i)
  <2>1. \A j \in 1..(i - 1) : VXPlace(l, j) = VXPlace(r, j)
    BY <1>3, <1>4
  <2> QED BY <2>1, <1>3 DEF VXDecides
<1>5. (\A i \in 1..3 : l.core[i] = r.core[i]) => \A i \in 1..3 : VXPlace(l, i) = VXPlace(r, i)
  BY <1>3
<1> QED BY <1>2, <1>4, <1>5 DEF d

\* Where the cores agree the pre-releases decide, and every place is equal when
\* they agree as well.
LEMMA VXPrereleasesDecide ==
    ASSUME NEW l \in VXParsed, NEW r \in VXParsed,
           \A i \in 1..3 : VXPlace(l, i) = VXPlace(r, i)
    PROVE  LET d == ComparePrerelease(l.pre, r.pre) IN
           \/ d = 0 /\ \A i \in VXPlaces(l, r) : VXPlace(l, i) = VXPlace(r, i)
           \/ d = -1 /\ \E i : VXDecides(l, r, i)
           \/ d = 1 /\ \E i : VXDecides(r, l, i)
<1> DEFINE d == ComparePrerelease(l.pre, r.pre)
<1>1. PICK a \in Nat : a = Len(l.pre)
  BY VXPlaceFacts
<1>2. PICK b \in Nat : b = Len(r.pre)
  BY VXPlaceFacts
<1>3. /\ l.pre \in Seq(VXIdentifiers) /\ r.pre \in Seq(VXIdentifiers)
      /\ l.pre = <<>> <=> a = 0
      /\ r.pre = <<>> <=> b = 0
  BY <1>1, <1>2, VXPlaceFacts DEF VXParsed
<1>4. /\ \A i \in 1..a : VXPlace(l, 3 + i) = l.pre[i] /\ l.pre[i] \in VXIdentifiers
      /\ \A i \in 1..b : VXPlace(r, 3 + i) = r.pre[i] /\ r.pre[i] \in VXIdentifiers
      /\ a = 0 => \A i \in Nat : i > 3 => VXPlace(l, i) = <<2, 0>>
      /\ b = 0 => \A i \in Nat : i > 3 => VXPlace(r, i) = <<2, 0>>
      /\ a # 0 => \A i \in Nat : i > 3 + a => VXPlace(l, i) = <<-1, 0>>
      /\ b # 0 => \A i \in Nat : i > 3 + b => VXPlace(r, i) = <<-1, 0>>
  BY <1>1, <1>2, <1>3, VXPlaceFacts
<1>5. \A i \in Nat : /\ i \in VXPlaces(l, r) <=> 1 <= i /\ i <= 4 + a + b
                     /\ i \in VXPlaces(r, l) <=> 1 <= i /\ i <= 4 + a + b
  <2>1. PICK n : /\ n \in Nat /\ n = 4 + Len(l.pre) + Len(r.pre) /\ n >= 4
                 /\ VXPlaces(l, r) = 1..n /\ VXPlaces(r, l) = 1..n
    BY VXPlacesAre
  <2>2. n = 4 + a + b
    BY <2>1, <1>1, <1>2
  <2>3. \A i \in Nat : i \in 1..n <=> 1 <= i /\ i <= 4 + a + b
    BY <2>2
  <2> QED BY <2>1, <2>3
<1>6. VXPlaces(l, r) \subseteq Nat
  <2>1. PICK n : /\ n \in Nat /\ n = 4 + Len(l.pre) + Len(r.pre) /\ n >= 4
                 /\ VXPlaces(l, r) = 1..n /\ VXPlaces(r, l) = 1..n
    BY VXPlacesAre
  <2>2. 1..n \subseteq Nat
    OBVIOUS
  <2> QED BY <2>1, <2>2
<1>7. \A x \in VXIdentifiers : VXLess(x, <<2, 0>>) /\ VXLess(<<-1, 0>>, x)
  BY DEF VXIdentifiers, VXLess
<1>8. CASE a = 0 /\ b = 0
  <2>1. d = 0
    BY <1>1, <1>2, <1>3, <1>8 DEF ComparePrerelease, VXSign
  <2>2. ASSUME NEW i \in VXPlaces(l, r) PROVE VXPlace(l, i) = VXPlace(r, i)
    <3>1. i \in Nat /\ (i \in 1..3 \/ i > 3)
      BY <1>5, <1>6
    <3> QED BY <3>1, <1>4, <1>8
  <2> QED BY <2>1, <2>2
<1>9. CASE a = 0 /\ b # 0
  <2>1. d = 1
    BY <1>1, <1>2, <1>3, <1>9 DEF ComparePrerelease, VXSign
  <2>2. VXPlace(l, 4) = <<2, 0>> /\ VXPlace(r, 4) = r.pre[1] /\ r.pre[1] \in VXIdentifiers
    <3>1. 1 \in 1..b /\ 3 + 1 = 4
      BY <1>9
    <3> QED BY <3>1, <1>4, <1>9
  <2>3. VXDecides(r, l, 4)
    BY <2>2, <1>5, <1>7 DEF VXDecides
  <2> QED BY <2>1, <2>3
<1>10. CASE a # 0 /\ b = 0
  <2>1. d = -1
    BY <1>1, <1>2, <1>3, <1>10 DEF ComparePrerelease, VXSign
  <2>2. VXPlace(r, 4) = <<2, 0>> /\ VXPlace(l, 4) = l.pre[1] /\ l.pre[1] \in VXIdentifiers
    <3>1. 1 \in 1..a /\ 3 + 1 = 4
      BY <1>10
    <3> QED BY <3>1, <1>4, <1>10
  <2>3. VXDecides(l, r, 4)
    BY <2>2, <1>5, <1>7 DEF VXDecides
  <2> QED BY <2>1, <2>3
<1>11. CASE a # 0 /\ b # 0
  <2> DEFINE limit == IF a < b THEN a ELSE b
             u == SubSeq(l.pre, 1, limit)
             v == SubSeq(r.pre, 1, limit)
             h == FirstDifference(u, v, CompareIdentifier)
  <2>1. limit \in Nat /\ limit <= a /\ limit <= b /\ limit >= 1
    BY <1>11
  <2>2. d = IF h # 0 THEN h ELSE VXSign(a - b)
    BY <1>1, <1>2, <1>3, <1>11 DEF ComparePrerelease
  <2> HIDE DEF limit
  <2>3. Len(u) = limit /\ \A i \in 1..limit : u[i] = l.pre[i] /\ u[i] \in VXIdentifiers
    <3>1. \A i \in 1..limit : l.pre[i] \in VXIdentifiers
      BY <2>1, <1>4
    <3>2. Len(u) = limit - 1 + 1 /\ \A i \in 1..(limit - 1 + 1) : u[i] = l.pre[1 + i - 1]
      BY <2>1, <3>1, SubSeqProperties
    <3>3. limit - 1 + 1 = limit /\ \A i \in 1..limit : 1 + i - 1 = i
      BY <2>1
    <3> QED BY <3>1, <3>2, <3>3
  <2>4. Len(v) = limit /\ \A i \in 1..limit : v[i] = r.pre[i] /\ v[i] \in VXIdentifiers
    <3>1. \A i \in 1..limit : r.pre[i] \in VXIdentifiers
      BY <2>1, <1>4
    <3>2. Len(v) = limit - 1 + 1 /\ \A i \in 1..(limit - 1 + 1) : v[i] = r.pre[1 + i - 1]
      BY <2>1, <3>1, SubSeqProperties
    <3>3. limit - 1 + 1 = limit /\ \A i \in 1..limit : 1 + i - 1 = i
      BY <2>1
    <3> QED BY <3>1, <3>2, <3>3
  <2> HIDE DEF u, v
  <2>5. \/ h = 0 /\ \A i \in 1..limit : u[i] = v[i]
        \/ \E i \in 1..limit : /\ \A j \in 1..(i - 1) : u[j] = v[j]
                               /\ \/ h = -1 /\ VXLess(u[i], v[i])
                                  \/ h = 1 /\ VXLess(v[i], u[i])
    BY <2>1, <2>3, <2>4, VXIdentifiersDiffer
  <2> HIDE DEF h, d
  <2>6. \A i \in 1..limit : /\ VXPlace(l, 3 + i) = u[i] /\ VXPlace(r, 3 + i) = v[i]
    BY <2>1, <2>3, <2>4, <1>4
  <2>7. ASSUME NEW i \in Nat, \A j \in 1..i : j <= limit /\ u[j] = v[j], NEW k \in 1..(3 + i)
        PROVE  VXPlace(l, k) = VXPlace(r, k)
    <3>1. CASE k <= 3
      BY <3>1
    <3>2. CASE k > 3
      <4>1. PICK j \in 1..i : k = 3 + j
        <5>1. k - 3 \in 1..i /\ k = 3 + (k - 3)
          BY <3>2
        <5> QED BY <5>1
      <4> QED BY <4>1, <2>1, <2>6, <2>7
    <3> QED BY <3>1, <3>2
  <2>8. CASE h = 0 /\ \A i \in 1..limit : u[i] = v[i]
    <3>1. \A k \in 1..(3 + limit) : VXPlace(l, k) = VXPlace(r, k)
      BY <2>1, <2>7, <2>8
    <3>2. CASE a = b
      <4>1. d = 0 /\ limit = a
        BY <2>2, <2>8, <3>2 DEF VXSign, limit
      <4>2. ASSUME NEW k \in VXPlaces(l, r) PROVE VXPlace(l, k) = VXPlace(r, k)
        <5>1. k \in Nat /\ (k \in 1..(3 + limit) \/ k > 3 + a)
          BY <4>1, <1>5, <1>6
        <5> QED BY <5>1, <3>1, <3>2, <1>4, <1>11
      <4> QED BY <4>1, <4>2 DEF d
    <3>3. CASE a < b
      <4>1. d = -1 /\ limit = a
        BY <2>2, <2>8, <3>3 DEF VXSign, limit
      <4>2. VXPlace(l, 4 + a) = <<-1, 0>> /\ 4 + a \in Nat /\ (4 + a) - 1 = 3 + limit
        BY <4>1, <1>4, <1>11
      <4>3. VXPlace(r, 4 + a) = r.pre[a + 1] /\ r.pre[a + 1] \in VXIdentifiers
        <5>1. a + 1 \in 1..b /\ 3 + (a + 1) = 4 + a
          BY <3>3
        <5> QED BY <5>1, <1>4
      <4>4. 4 + a \in VXPlaces(l, r)
        BY <4>2, <1>5
      <4>5. VXDecides(l, r, 4 + a)
        BY <4>2, <4>3, <4>4, <3>1, <1>7 DEF VXDecides
      <4> QED BY <4>1, <4>5 DEF d
    <3>4. CASE b < a
      <4>1. d = 1 /\ limit = b
        BY <2>2, <2>8, <3>4 DEF VXSign, limit
      <4>2. VXPlace(r, 4 + b) = <<-1, 0>> /\ 4 + b \in Nat /\ (4 + b) - 1 = 3 + limit
        BY <4>1, <1>4, <1>11
      <4>3. VXPlace(l, 4 + b) = l.pre[b + 1] /\ l.pre[b + 1] \in VXIdentifiers
        <5>1. b + 1 \in 1..a /\ 3 + (b + 1) = 4 + b
          BY <3>4
        <5> QED BY <5>1, <1>4
      <4>4. 4 + b \in VXPlaces(r, l)
        BY <4>2, <1>5
      <4>5. VXDecides(r, l, 4 + b)
        BY <4>2, <4>3, <4>4, <3>1, <1>7 DEF VXDecides
      <4> QED BY <4>1, <4>5 DEF d
    <3> QED BY <3>2, <3>3, <3>4
  <2>9. ASSUME NEW i \in 1..limit, \A j \in 1..(i - 1) : u[j] = v[j],
               \/ h = -1 /\ VXLess(u[i], v[i])
               \/ h = 1 /\ VXLess(v[i], u[i])
        PROVE  \/ d = -1 /\ VXDecides(l, r, 3 + i)
               \/ d = 1 /\ VXDecides(r, l, 3 + i)
    <3>1. d = h
      BY <2>2, <2>9
    <3>2. \A k \in 1..(3 + i - 1) : VXPlace(l, k) = VXPlace(r, k)
      <4>1. i - 1 \in Nat /\ \A j \in 1..(i - 1) : j <= limit /\ u[j] = v[j]
        BY <2>1, <2>9
      <4>2. 3 + (i - 1) = 3 + i - 1
        BY <2>1
      <4>3. \A k \in 1..(3 + (i - 1)) : VXPlace(l, k) = VXPlace(r, k)
        BY <4>1, <2>7
      <4> QED BY <4>2, <4>3
    <3>3. 3 + i \in VXPlaces(l, r) /\ 3 + i \in VXPlaces(r, l)
      <4>1. 3 + i \in Nat /\ 1 <= 3 + i /\ 3 + i <= 4 + a + b
        BY <2>1
      <4> QED BY <4>1, <1>5
    <3>4. VXPlace(l, 3 + i) = u[i] /\ VXPlace(r, 3 + i) = v[i]
      BY <2>6
    <3> QED BY <3>1, <3>2, <3>3, <3>4, <2>9 DEF VXDecides
  <2>10. CASE \E i \in 1..limit : /\ \A j \in 1..(i - 1) : u[j] = v[j]
                                  /\ \/ h = -1 /\ VXLess(u[i], v[i])
                                     \/ h = 1 /\ VXLess(v[i], u[i])
    <3>1. \/ d = -1 /\ \E i : VXDecides(l, r, i)
          \/ d = 1 /\ \E i : VXDecides(r, l, i)
      <4>1. PICK i \in 1..limit : /\ \A j \in 1..(i - 1) : u[j] = v[j]
                                 /\ \/ h = -1 /\ VXLess(u[i], v[i])
                                    \/ h = 1 /\ VXLess(v[i], u[i])
        BY <2>10
      <4>2. \/ d = -1 /\ VXDecides(l, r, 3 + i)
            \/ d = 1 /\ VXDecides(r, l, 3 + i)
        BY <4>1, <2>9
      <4> QED BY <4>2
    <3> QED BY <3>1 DEF d
  <2> QED BY <2>5, <2>8, <2>10
<1> QED BY <1>8, <1>9, <1>10, <1>11

\* The order of versions (config/version_policy.go) is the order of their
\* places, for all versions that parse and pre-releases of any length; of one
\* that does not parse, nothing is newer but what parses.
THEOREM OrderIsSemver ==
    ASSUME NEW l, NEW r, l \in VXParsed \/ l.ok = FALSE, r \in VXParsed \/ r.ok = FALSE
    PROVE  SemverOrder(l, r)
<1>1. CASE l \in VXParsed /\ r \in VXParsed
  <2>1. l.ok = TRUE /\ r.ok = TRUE
    BY <1>1 DEF VXParsed
  <2> DEFINE core == FirstDifference(l.core, r.core, CompareNumber)
             pre == ComparePrerelease(l.pre, r.pre)
  <2>2. CompareSemver(l, r) = IF core # 0 THEN core ELSE pre
    BY DEF CompareSemver
  <2>3. \/ core = 0 /\ \A i \in 1..3 : VXPlace(l, i) = VXPlace(r, i)
        \/ core = -1 /\ \E i : VXDecides(l, r, i)
        \/ core = 1 /\ \E i : VXDecides(r, l, i)
    BY <1>1, VXCoresDecide
  <2>4. (\A i \in 1..3 : VXPlace(l, i) = VXPlace(r, i)) =>
        \/ pre = 0 /\ \A i \in VXPlaces(l, r) : VXPlace(l, i) = VXPlace(r, i)
        \/ pre = -1 /\ \E i : VXDecides(l, r, i)
        \/ pre = 1 /\ \E i : VXDecides(r, l, i)
    BY <1>1, VXPrereleasesDecide
  <2> HIDE DEF core, pre
  <2>5. /\ \A i : VXDecides(l, r, i) => VXBefore(l, r) /\ ~VXBefore(r, l)
        /\ \A i : VXDecides(r, l, i) => VXBefore(r, l) /\ ~VXBefore(l, r)
        /\ (\A i \in VXPlaces(l, r) : VXPlace(l, i) = VXPlace(r, i))
              => ~VXBefore(l, r) /\ ~VXBefore(r, l)
    BY <1>1, VXDecidedOnce
  <2>6. CompareSemver(l, r) = IF VXBefore(l, r) THEN -1 ELSE IF VXBefore(r, l) THEN 1 ELSE 0
    BY <2>2, <2>3, <2>4, <2>5
  <2> QED BY <2>1, <2>6 DEF SemverOrder
<1>2. CASE ~(l.ok /\ r.ok)
  BY <1>2 DEF SemverOrder, VersionIsNewer
<1>3. (l \in VXParsed => l.ok = TRUE) /\ (r \in VXParsed => r.ok = TRUE)
  BY DEF VXParsed
<1> QED BY <1>1, <1>2, <1>3

-----------------------------------------------------------------------------
(***************************************************************************)
(* Theorems about SelfUpdate.  That a failed update keeps the version that *)
(* runs needs to know, of a process whose file has lost its name, that the *)
(* backup was made of that very file; that one fault leaves no torn file   *)
(* needs to know how many errors it takes to come to each step of a job.   *)
(***************************************************************************)

\* A job that is under way belongs to a process, and a process runs a version.
SUProcess ==
    /\ phase # "down" <=> image # NoFile
    /\ job # "idle" => phase # "down"
    /\ job \in {"mark", "exit", "restoring"} /\ guarded => ~busy
    /\ job = "restoring" => live = Torn /\ backup # NoFile
    /\ phase \in {"check", "boot"} => busy /\ job = "idle"

\* On a kernel that refuses writes to a running image: as long as the process runs
\* the file at execPath, that file has its version; afterwards the backup has.
SUFiles ==
    guarded /\ phase # "down" =>
        /\ busy => live = image
        /\ ~busy => backup \in {image, Torn}
        /\ job = "swap" => backup \in {image, Torn}
        /\ job \in {"idle", "fetch", "backup", "copying", "swap", "failed"} => live \in {image, Torn}

\* The errors it took to come here.
SUErrors ==
    guarded =>
        /\ job \in {"undo", "restoring"} => errors >= 1
        /\ phase # "down" /\ ~busy /\ job \notin {"mark", "exit"} => errors >= 1
        /\ backup = Torn /\ (job = "swap" \/ (phase # "down" /\ ~busy)) =>
             errors >= 2 \/ (job = "copying" /\ errors >= 1)

SUInv == TypeOK /\ SUProcess /\ SUFiles /\ SUErrors /\ NoStaleMarker /\ OneFaultIsSurvived

LEMMA SUTypes ==
  ASSUME UpdateAssumption, TypeOK
  PROVE  /\ errors \in Nat /\ MaxErrors \in Nat /\ MaxBoots \in Nat /\ MaxReloads \in Nat
         /\ boots \in Nat /\ reloads \in Nat /\ 0 \in Versions
         /\ NoFile \notin Versions /\ Torn \notin Versions /\ NoFile # Torn
  BY DEF UpdateAssumption, TypeOK, Versions

LEMMA SUInitInv == UpdateAssumption /\ Init => SUInv
<1> SUFFICES ASSUME UpdateAssumption, Init PROVE SUInv
  OBVIOUS
<1>1. /\ MaxErrors \in Nat /\ MaxBoots \in Nat /\ MaxReloads \in Nat /\ 0 \in Versions
      /\ NoFile \notin Versions /\ Torn \notin Versions /\ NoFile # Torn
  BY DEF UpdateAssumption, Versions
<1> QED BY <1>1 DEF Init, SUInv, TypeOK, SUProcess, SUFiles, SUErrors, NoStaleMarker, OneFaultIsSurvived

\* The steps of a job.
LEMMA SUJobInv ==
  ASSUME UpdateAssumption, SUInv, Apply \/ JobStep
  PROVE  SUInv'
<1>0. /\ TypeOK /\ SUProcess /\ SUFiles /\ SUErrors /\ NoStaleMarker /\ OneFaultIsSurvived
      /\ errors \in Nat /\ MaxErrors \in Nat /\ 0 \in Versions
      /\ NoFile \notin Versions /\ Torn \notin Versions /\ NoFile # Torn
  BY SUTypes DEF SUInv
<1> USE DEF Process, files, bounds, Error
<1>1. CASE Apply
  BY <1>0, <1>1 DEF Apply, Active, SUInv, TypeOK, SUProcess, SUFiles, SUErrors, NoStaleMarker, OneFaultIsSurvived
<1>2. CASE Fetch
  BY <1>0, <1>2 DEF Fetch, SUInv, TypeOK, SUProcess, SUFiles, SUErrors, NoStaleMarker, OneFaultIsSurvived
<1>3. CASE BeginBackup
  BY <1>0, <1>3 DEF BeginBackup, SUInv, TypeOK, SUProcess, SUFiles, SUErrors, NoStaleMarker, OneFaultIsSurvived
<1>4. CASE EndBackup
  BY <1>0, <1>4 DEF EndBackup, SUInv, TypeOK, SUProcess, SUFiles, SUErrors, NoStaleMarker, OneFaultIsSurvived
<1>5. CASE Swap
  <2>1. job = "swap" /\ UNCHANGED <<backup, marker, image, guarded, phase, target, boots, reloads>>
    BY <1>5 DEF Swap
  <2>2. CASE live' = target /\ busy' = FALSE /\ job' = "mark" /\ UNCHANGED errors
    BY <1>0, <2>1, <2>2 DEF SUInv, TypeOK, SUProcess, SUFiles, SUErrors, NoStaleMarker, OneFaultIsSurvived
  <2>3. CASE job' = "undo" /\ errors < MaxErrors /\ errors' = errors + 1 /\ UNCHANGED <<live, busy>>
    <3>1. TypeOK' /\ SUProcess' /\ SUFiles'
      BY <1>0, <2>1, <2>3 DEF TypeOK, SUProcess, SUFiles
    <3>2. SUErrors'
      BY <1>0, <2>1, <2>3 DEF SUErrors
    <3>3. NoStaleMarker' /\ OneFaultIsSurvived'
      BY <1>0, <2>1, <2>3 DEF NoStaleMarker, OneFaultIsSurvived
    <3> QED BY <3>1, <3>2, <3>3 DEF SUInv
  <2> QED BY <1>5, <2>2, <2>3 DEF Swap
<1>6. CASE WritePendingMarker
  BY <1>0, <1>6 DEF WritePendingMarker, SUInv, TypeOK, SUProcess, SUFiles, SUErrors, NoStaleMarker, OneFaultIsSurvived
<1>7. CASE BeginRestore
  BY <1>0, <1>7 DEF BeginRestore, CanRestore, SUInv, TypeOK, SUProcess, SUFiles, SUErrors, NoStaleMarker, OneFaultIsSurvived
<1>8. CASE EndRestore
  <2>1. job = "restoring" /\ job' = "failed"
        /\ UNCHANGED <<backup, marker, image, busy, guarded, phase, target, boots, reloads>>
    BY <1>8 DEF EndRestore
  <2>2. CASE live' = backup /\ UNCHANGED errors
    BY <1>0, <2>1, <2>2 DEF SUInv, TypeOK, SUProcess, SUFiles, SUErrors, NoStaleMarker, OneFaultIsSurvived
  <2>3. CASE errors < MaxErrors /\ errors' = errors + 1 /\ UNCHANGED live
    <3>1. TypeOK' /\ SUProcess' /\ SUFiles'
      BY <1>0, <2>1, <2>3 DEF TypeOK, SUProcess, SUFiles, OneFaultIsSurvived
    <3>2. SUErrors'
      BY <1>0, <2>1, <2>3 DEF SUErrors
    <3>3. NoStaleMarker' /\ OneFaultIsSurvived'
      BY <1>0, <2>1, <2>3 DEF NoStaleMarker, OneFaultIsSurvived, SUErrors
    <3> QED BY <3>1, <3>2, <3>3 DEF SUInv
  <2> QED BY <1>8, <2>2, <2>3 DEF EndRestore
<1>9. CASE Exit
  BY <1>0, <1>9 DEF Exit, Dies, SUInv, TypeOK, SUProcess, SUFiles, SUErrors, NoStaleMarker, OneFaultIsSurvived
<1> QED BY <1>1, <1>2, <1>3, <1>4, <1>5, <1>6, <1>7, <1>8, <1>9 DEF JobStep

\* The steps of the process, and its end.
LEMMA SUProcessInv ==
  ASSUME UpdateAssumption, SUInv, ProcessStep \/ Crash \/ RestartApp
  PROVE  SUInv'
<1>0. /\ TypeOK /\ SUProcess /\ SUFiles /\ SUErrors /\ NoStaleMarker /\ OneFaultIsSurvived
      /\ errors \in Nat /\ MaxErrors \in Nat /\ MaxBoots \in Nat /\ MaxReloads \in Nat
      /\ boots \in Nat /\ reloads \in Nat /\ 0 \in Versions
      /\ NoFile \notin Versions /\ Torn \notin Versions /\ NoFile # Torn
  BY SUTypes DEF SUInv
<1> USE DEF Process, files, bounds, Error
<1>1. CASE Boot
  BY <1>0, <1>1 DEF Boot, SUInv, TypeOK, SUProcess, SUFiles, SUErrors, NoStaleMarker, OneFaultIsSurvived
<1>2. CASE Rollback
  <2>1. /\ image' = NoFile /\ busy' = FALSE /\ phase' = "down" /\ job' = "idle" /\ target' = 0
        /\ live' = backup /\ marker' = NoFile /\ backup # NoFile /\ ~(guarded /\ busy) /\ phase = "check"
        /\ UNCHANGED <<backup, guarded, boots, errors, reloads>>
    BY <1>2 DEF Rollback, RollbackDue, CanRestore, Dies
  <2>2. TypeOK' /\ SUProcess' /\ SUFiles'
    BY <1>0, <2>1 DEF TypeOK, SUProcess, SUFiles
  <2>3. SUErrors' /\ NoStaleMarker'
    BY <1>0, <2>1 DEF SUErrors, NoStaleMarker
  <2>4. OneFaultIsSurvived'
    BY <1>0, <2>1 DEF SUProcess, SUErrors, OneFaultIsSurvived
  <2> QED BY <2>2, <2>3, <2>4 DEF SUInv
<1>3. CASE CountAttempt
  BY <1>0, <1>3 DEF CountAttempt, SUInv, TypeOK, SUProcess, SUFiles, SUErrors, NoStaleMarker, OneFaultIsSurvived
<1>4. CASE BootFails
  <2>1. /\ image' = NoFile /\ busy' = FALSE /\ phase' = "down" /\ job' = "idle" /\ target' = 0
        /\ phase = "boot" /\ UNCHANGED <<live, backup, marker, guarded, boots, errors, reloads>>
    BY <1>4 DEF BootFails, Dies
  <2>2. TypeOK' /\ SUProcess' /\ SUFiles'
    BY <1>0, <2>1 DEF TypeOK, SUProcess, SUFiles
  <2>3. SUErrors' /\ NoStaleMarker'
    BY <1>0, <2>1 DEF SUErrors, NoStaleMarker
  <2>4. OneFaultIsSurvived'
    BY <1>0, <2>1 DEF SUProcess, SUErrors, OneFaultIsSurvived
  <2> QED BY <2>2, <2>3, <2>4 DEF SUInv
<1>5. CASE StartWeb
  BY <1>0, <1>5 DEF StartWeb, SUInv, TypeOK, SUProcess, SUFiles, SUErrors, NoStaleMarker, OneFaultIsSurvived
<1>6. CASE ClearPendingUpdate
  BY <1>0, <1>6 DEF ClearPendingUpdate, SUInv, TypeOK, SUProcess, SUFiles, SUErrors, NoStaleMarker, OneFaultIsSurvived
<1>7. CASE Crash
  <2>1. /\ image' = NoFile /\ busy' = FALSE /\ phase' = "down" /\ job' = "idle" /\ target' = 0
        /\ errors < MaxErrors /\ errors' = errors + 1
        /\ UNCHANGED <<live, backup, marker, guarded, boots, reloads>>
    BY <1>7 DEF Crash, Dies
  <2>2. TypeOK' /\ SUProcess' /\ SUFiles'
    <3>1. errors' \in 0..MaxErrors
      BY <1>0, <2>1
    <3>2. TypeOK'
      BY <1>0, <2>1, <3>1 DEF TypeOK
    <3> QED BY <2>1, <3>2 DEF SUProcess, SUFiles
  <2>3. SUErrors' /\ NoStaleMarker'
    BY <1>0, <2>1 DEF SUErrors, NoStaleMarker
  <2>4. OneFaultIsSurvived'
    BY <1>0, <2>1 DEF SUErrors, OneFaultIsSurvived
  <2> QED BY <2>2, <2>3, <2>4 DEF SUInv
<1>8. CASE RestartApp
  BY <1>0, <1>8 DEF RestartApp, SUInv, TypeOK, SUProcess, SUFiles, SUErrors, NoStaleMarker, OneFaultIsSurvived
<1> QED BY <1>1, <1>2, <1>3, <1>4, <1>5, <1>6, <1>7, <1>8 DEF ProcessStep

LEMMA SUNextInv == UpdateAssumption /\ SUInv /\ [Next]_vars => SUInv'
<1> SUFFICES ASSUME UpdateAssumption, SUInv, [Next]_vars PROVE SUInv'
  OBVIOUS
<1>1. CASE UNCHANGED vars
  BY <1>1 DEF vars, files, bounds, SUInv, TypeOK, SUProcess, SUFiles, SUErrors, NoStaleMarker, OneFaultIsSurvived
<1> QED BY <1>1, SUJobInv, SUProcessInv DEF Next

\* The next boot finds a version that was installed on purpose and counts only the
\* boots of that one (service/panel_update*.go): a failed update keeps the version
\* that runs, no marker outlives a start, and one fault tears no binary.  For any
\* versions, boots, reloads and errors.
THEOREM VersionsStaySafe == Spec => []TypeOK /\ []VersionsAreSafe
<1>1. Init => SUInv
  BY UpdateAssumption, SUInitInv
<1>2. SUInv /\ [Next]_vars => SUInv'
  BY UpdateAssumption, SUNextInv
<1>3. SUInv => TypeOK /\ VersionsAreSafe
  <2> SUFFICES ASSUME SUInv PROVE FailedUpdateKeepsVersion
    BY DEF SUInv, VersionsAreSafe
  <2> QED BY DEF SUInv, SUFiles, SUProcess, FailedUpdateKeepsVersion
<1> QED BY <1>1, <1>2, <1>3, PTL DEF Spec

-----------------------------------------------------------------------------
VXFields == [value : VXIdentifiers, padded : BOOLEAN]

\* What the parser answers parses, or says that it does not.
LEMMA VXParseFacts ==
    ASSUME NEW fields, NEW pre \in Seq(VXFields), NEW legacy
    PROVE  VXParse(fields, pre, legacy) \in VXParsed \/ VXParse(fields, pre, legacy).ok = FALSE
<1> DEFINE core == IF Len(fields) = 2 /\ legacy THEN Append(fields, VXField(0, FALSE)) ELSE fields
           parses == /\ Len(core) = 3 /\ \A i \in 1..3 : VXDigits(core[i])
                     /\ \A i \in DOMAIN pre : ~pre[i].padded
           ids == [i \in DOMAIN pre |-> pre[i].value]
<1>1. VXParse(fields, pre, legacy) =
        IF parses THEN VXVersion(core[1].value, core[2].value, core[3].value, ids) ELSE NoVersion
  BY DEF VXParse
<1>2. ids \in Seq(VXIdentifiers)
  <2>1. DOMAIN pre = 1..Len(pre) /\ Len(pre) \in Nat
    BY LenProperties
  <2>2. \A i \in 1..Len(pre) : pre[i].value \in VXIdentifiers
    <3>1. \A i \in 1..Len(pre) : pre[i] \in VXFields
      BY ElementOfSeq
    <3> QED BY <3>1 DEF VXFields
  <2>3. ids \in [1..Len(pre) -> VXIdentifiers]
    BY <2>1, <2>2
  <2> QED BY <2>1, <2>3, SeqDef
<1> HIDE DEF core, ids
<1>3. CASE parses
  <2>1. core[1].value \in Nat /\ core[2].value \in Nat /\ core[3].value \in Nat
    BY <1>3 DEF VXDigits
  <2> HIDE DEF parses
  <2>2. <<core[1].value, core[2].value, core[3].value>> \in [1..3 -> Nat]
    BY <2>1
  <2> QED BY <1>1, <1>3, <1>2, <2>2 DEF VXVersion, VXParsed
<1>4. CASE ~parses
  <2> HIDE DEF parses
  <2> QED BY <1>1, <1>4 DEF NoVersion
<1> QED BY <1>3, <1>4

LEMMA VXSampleParses ==
    \A v \in VXSample : v \in VXParsed \/ v.ok = FALSE
<1>1. VXIds \subseteq VXFields
  BY DEF VXIds, VXField, VXIdentifiers, VXFields
<1>2. VXPrereleases \subseteq Seq(VXFields)
  <2>1. <<>> \in Seq(VXFields) /\ \A a \in VXFields : <<a>> \in Seq(VXFields)
        /\ \A b \in VXFields : <<a, b>> \in Seq(VXFields)
    OBVIOUS
  <2>2. VXField(<<0, 1>>, FALSE) \in VXFields /\ VXField(<<1, 1>>, FALSE) \in VXFields
    BY <1>1 DEF VXIds
  <2>3. ASSUME NEW p \in VXPrereleases PROVE p \in Seq(VXFields)
    <3>1. \/ p = <<>>
          \/ \E a \in VXIds : p = <<a>>
          \/ \E a \in {VXField(<<0, 1>>, FALSE), VXField(<<1, 1>>, FALSE)}, b \in VXIds : p = <<a, b>>
      <4> DEFINE pair(a, b) == <<a, b>>
                 heads == {VXField(<<0, 1>>, FALSE), VXField(<<1, 1>>, FALSE)}
                 two == {pair(a, b) : a \in heads, b \in VXIds}
                 one == {<<a>> : a \in VXIds}
      <4>1. VXPrereleases = {<<>>} \cup one \cup two
        BY DEF VXPrereleases
      <4>2. p \in two => \E a \in heads, b \in VXIds : p = pair(a, b)
        <5> HIDE DEF pair, heads
        <5> QED OBVIOUS
      <4>3. p \in one => \E a \in VXIds : p = <<a>>
        OBVIOUS
      <4> HIDE DEF one, two, heads
      <4> QED BY <4>1, <4>2, <4>3 DEF heads
    <3> QED BY <3>1, <1>1, <2>1, <2>2
  <2> QED BY <2>3
<1>3. ASSUME NEW v \in VXSample PROVE v \in VXParsed \/ v.ok = FALSE
  <2> DEFINE fields(core) == [i \in DOMAIN core |-> VXField(core[i], FALSE)]
             version(core, pre) == VXParse(fields(core), pre, TRUE)
  <2>0. VXSample = {version(core, pre) : core \in VXCores, pre \in VXPrereleases}
    BY DEF VXSample
  <2> HIDE DEF version
  <2>1. PICK core \in VXCores, pre \in VXPrereleases : v = version(core, pre)
    BY <2>0
  <2>2. pre \in Seq(VXFields)
    BY <1>2, <2>1
  <2> QED BY <2>1, <2>2, VXParseFacts DEF version
<1> QED BY <1>3

-----------------------------------------------------------------------------
(* What the service answers.  *)

UCAnswers == UCReleases \cup {UCNoRelease}

\* The release the beta channel selects is one of the list, or none.
LEMMA UCSelectType ==
    ASSUME NEW list \in Seq(UCReleases)
    PROVE  SelectBetaRelease(list) \in UCAnswers
<1> DEFINE N == Len(list)
           Walk(m, g) == /\ g \in [0..m -> UCAnswers] /\ g[0] = UCNoRelease
                         /\ \A i \in 1..m : g[i] = UCBetter(g[i - 1], list[i])
           Body(f) == [n \in 0..N |-> IF n = 0 THEN UCNoRelease ELSE UCBetter(f[n - 1], list[n])]
           best == CHOOSE f : f = Body(f)
<1>1. SelectBetaRelease(list) = best[N]
  BY DEF SelectBetaRelease
<1>2. N \in Nat /\ \A i \in 1..N : list[i] \in UCAnswers
  BY DEF UCAnswers
<1>3. \A m \in 0..N : \E g : Walk(m, g)
  <2> DEFINE Bad == {m \in 0..N : ~ \E g : Walk(m, g)}
  <2>1. SUFFICES ASSUME Bad # {} PROVE FALSE
    OBVIOUS
  <2>2. PICK m \in Bad : \A k \in Bad : m <= k
    <3>1. Bad \subseteq Nat
      OBVIOUS
    <3> HIDE DEF Bad
    <3> QED BY <2>1, <3>1, LeastExists
  <2>3. m # 0
    <3>1. Walk(0, [i \in 0..0 |-> UCNoRelease])
      BY DEF UCAnswers
    <3> HIDE DEF Walk
    <3> QED BY <3>1, <2>2
  <2>4. PICK h : Walk(m - 1, h)
    <3>1. m - 1 \in 0..N /\ ~(m <= m - 1)
      BY <1>2, <2>3
    <3> HIDE DEF Walk
    <3> QED BY <2>2, <3>1
  <2> DEFINE g == [i \in 0..m |-> IF i = m THEN UCBetter(h[m - 1], list[m]) ELSE h[i]]
  <2>5. m \in 1..N /\ m - 1 \in 0..(m - 1) /\ \A i \in 0..m : i = m \/ i \in 0..(m - 1)
    BY <1>2, <2>3
  <2>6. h \in [0..(m - 1) -> UCAnswers] /\ h[0] = UCNoRelease
        /\ \A i \in 1..(m - 1) : h[i] = UCBetter(h[i - 1], list[i])
    BY <2>4
  <2>7. UCBetter(h[m - 1], list[m]) \in UCAnswers
    BY <2>5, <2>6, <1>2 DEF UCBetter
  <2>8. g \in [0..m -> UCAnswers]
    BY <2>5, <2>6, <2>7
  <2>9. g[0] = UCNoRelease
    BY <2>5, <2>6
  <2>10. ASSUME NEW i \in 1..m PROVE g[i] = UCBetter(g[i - 1], list[i])
    <3>1. i - 1 \in 0..(m - 1) /\ i - 1 # m /\ i \in 0..m /\ i - 1 \in 0..m
      BY <2>5
    <3>2. g[i - 1] = h[i - 1]
      BY <3>1
    <3>3. CASE i = m
      BY <3>1, <3>2, <3>3
    <3>4. CASE i # m
      <4>1. i \in 1..(m - 1)
        BY <2>5, <3>4
      <4> QED BY <4>1, <3>1, <3>2, <3>4, <2>6
    <3> QED BY <3>3, <3>4
  <2>11. Walk(m, g)
    BY <2>8, <2>9, <2>10
  <2> HIDE DEF Walk
  <2> QED BY <2>2, <2>11
<1>4. PICK g : Walk(N, g)
  BY <1>2, <1>3
<1>5. g = Body(g)
  BY <1>4, <1>2
<1>6. best = Body(best)
  <2> HIDE DEF Body
  <2> QED BY <1>5
<1> HIDE DEF best
<1>7. best[0] = UCNoRelease /\ \A n \in 1..N : best[n] = UCBetter(best[n - 1], list[n])
  BY <1>6, <1>2
<1>8. \A n \in 0..N : best[n] \in UCAnswers
  <2> DEFINE Bad == {n \in 0..N : best[n] \notin UCAnswers}
  <2>1. SUFFICES ASSUME Bad # {} PROVE FALSE
    OBVIOUS
  <2>2. PICK n \in Bad : \A k \in Bad : n <= k
    <3>1. Bad \subseteq Nat
      OBVIOUS
    <3> HIDE DEF Bad
    <3> QED BY <2>1, <3>1, LeastExists
  <2>3. n # 0
    BY <1>7, <2>2 DEF UCAnswers
  <2>4. n - 1 \in 0..N /\ n \in 1..N /\ best[n - 1] \in UCAnswers
    BY <1>2, <2>2, <2>3
  <2> QED BY <1>2, <1>7, <2>2, <2>4 DEF UCBetter
<1> QED BY <1>1, <1>2, <1>8

\* The answer of a channel is a release of the list, or none.
LEMMA UCAnswerFacts ==
    ASSUME NEW list \in Seq(UCReleases), NEW ch \in UCChannels
    PROVE  UCAnswer(ch, list) \in UCAnswers /\ UCETag(ch, list) \in Nat
<1> DEFINE stable == UCStableAt(list)
<1>1. stable \subseteq 1..Len(list) /\ Len(list) \in Nat
  BY DEF UCStableAt
<1>2. \A i \in 1..Len(list) : list[i] \in UCAnswers
  BY DEF UCAnswers
<1>3. UCAnswer(ch, list) \in UCAnswers
  <2>1. CASE ch = "beta"
    BY <2>1, UCSelectType DEF UCAnswer
  <2>2. CASE ch # "beta" /\ stable = {}
    BY <2>2 DEF UCAnswer, UCAnswers
  <2>3. CASE ch # "beta" /\ stable # {}
    <3> DEFINE first == CHOOSE i \in stable : \A j \in stable : i <= j
    <3>1. stable \subseteq Nat
      BY <1>1
    <3>2. first \in stable
      <4>1. \E i \in stable : \A j \in stable : i <= j
        <5> HIDE DEF stable
        <5> QED BY <2>3, <3>1, LeastExists
      <4> HIDE DEF stable
      <4> QED BY <4>1
    <3>3. UCAnswer(ch, list) = list[first]
      BY <2>3 DEF UCAnswer
    <3> HIDE DEF first
    <3> QED BY <1>1, <1>2, <3>2, <3>3
  <2> QED BY <2>1, <2>2, <2>3
<1>4. UCETag(ch, list) \in Nat
  <2>1. IsFiniteSet(1..Len(list))
    BY <1>1, FS_Interval
  <2>2. IsFiniteSet(stable) /\ Cardinality(stable) \in Nat
    BY <1>1, <2>1, FS_Subset, FS_CardinalityType
  <2> QED BY <1>1, <2>2 DEF UCETag
<1> QED BY <1>3, <1>4

-----------------------------------------------------------------------------
(* The caches.  *)

\* An entity tag and a release that the service has answered together.
UCMatches(list, ch, etag, release) ==
    \E n \in 0..Len(list) :
        LET then == SubSeq(list, n + 1, Len(list))
        IN  UCETag(ch, then) = etag /\ UCAnswer(ch, then) = release

\* A publication keeps the answers of before, and adds its own.
LEMMA UCMatchesLater ==
    ASSUME NEW list \in Seq(UCReleases), NEW r \in UCReleases, NEW ch, NEW etag, NEW release,
           UCMatches(list, ch, etag, release)
    PROVE  UCMatches(<<r>> \o list, ch, etag, release)
<1> DEFINE more == <<r>> \o list
<1>1. PICK n \in 0..Len(list) : /\ UCETag(ch, SubSeq(list, n + 1, Len(list))) = etag
                                /\ UCAnswer(ch, SubSeq(list, n + 1, Len(list))) = release
  BY DEF UCMatches
<1>2. <<r>> \in Seq(UCReleases) /\ Len(<<r>>) = 1 /\ Len(list) \in Nat
  OBVIOUS
<1>3. Len(more) = Len(list) + 1
  BY <1>2, ConcatProperties
<1>4. SubSeq(more, n + 2, Len(list) + 1) = SubSeq(list, n + 1, Len(list))
  <2>1. CASE n = Len(list)
    <3>1. SubSeq(list, n + 1, Len(list)) = <<>>
      BY <1>2, <2>1, SubSeqEmpty
    <3>2. SubSeq(more, n + 2, Len(list) + 1) = <<>>
      BY <1>2, <2>1, SubSeqEmpty
    <3> QED BY <3>1, <3>2
  <2>2. CASE n < Len(list)
    <3>1. /\ n + 2 \in (Len(<<r>>) + 1)..(Len(<<r>>) + Len(list))
          /\ Len(list) + 1 \in (Len(<<r>>) + 1)..(Len(<<r>>) + Len(list))
      BY <1>2, <2>2
    <3>2. SubSeq(more, n + 2, Len(list) + 1)
            = SubSeq(list, (n + 2) - Len(<<r>>), (Len(list) + 1) - Len(<<r>>))
      BY <1>2, <3>1, SubSeqOfConcat2
    <3>3. (n + 2) - Len(<<r>>) = n + 1 /\ (Len(list) + 1) - Len(<<r>>) = Len(list)
      BY <1>2
    <3> QED BY <3>2, <3>3
  <2> QED BY <1>2, <2>1, <2>2
<1> HIDE DEF more
<1>5. n + 1 \in 0..Len(more) /\ (n + 1) + 1 = n + 2
  BY <1>2, <1>3
<1>6. UCETag(ch, SubSeq(more, (n + 1) + 1, Len(more))) = etag
      /\ UCAnswer(ch, SubSeq(more, (n + 1) + 1, Len(more))) = release
  BY <1>1, <1>3, <1>4, <1>5
<1>7. UCMatches(more, ch, etag, release)
  BY <1>5, <1>6 DEF UCMatches
<1> QED BY <1>7 DEF more

LEMMA UCMatchesNow ==
    ASSUME NEW list \in Seq(UCReleases), NEW ch
    PROVE  UCMatches(list, ch, UCETag(ch, list), UCAnswer(ch, list))
<1>1. SubSeq(list, 0 + 1, Len(list)) = list
  BY SubSeqFull
<1>2. 0 \in 0..Len(list)
  BY LenProperties
<1> QED BY <1>1, <1>2 DEF UCMatches

\* An update that may start installs the release that was confirmed, above the
\* one that runs.
LEMMA UCStartFacts ==
    ASSUME NEW release \in UCAnswers, NEW confirmed \in UCReleases, UCStartable(release, confirmed)
    PROVE  release \in UCReleases /\ release = confirmed /\ VXAbove(release.version, UCCurrent)
<1>1. UCCurrent.ok = TRUE
  BY DEF UCCurrent, VXVersion
<1>2. release.version.ok /\ VXAbove(release.version, UCCurrent)
  BY <1>1 DEF UCStartable, VersionIsNewer, VXAbove
<1>3. release # UCNoRelease
  BY <1>2 DEF UCNoRelease, UCRelease, NoVersion
<1>4. \A r, s \in UCReleases : r.tag = s.tag => r = s
  <2> DEFINE a == UCRelease("v1.5.11", UCCurrent, TRUE)
             b == UCRelease("v1.6.0-beta2", VXVersion(1, 6, 0, <<<<1, 1>>>>), TRUE)
             d == UCRelease("v1.6.0", VXVersion(1, 6, 0, <<>>), TRUE)
             e == UCRelease("v1.7.0", VXVersion(1, 7, 0, <<>>), FALSE)
             f == UCRelease("nightly", NoVersion, TRUE)
  <2>1. UCReleases = {a, b, d, e, f}
    BY DEF UCReleases
  <2>2. a.tag = "v1.5.11" /\ b.tag = "v1.6.0-beta2" /\ d.tag = "v1.6.0" /\ e.tag = "v1.7.0"
        /\ f.tag = "nightly"
    BY DEF UCRelease
  <2> HIDE DEF a, b, d, e, f
  <2> QED BY <2>1, <2>2
<1> QED BY <1>2, <1>3, <1>4 DEF UCAnswers, UCStartable

UCRequests == [phase : {"idle", "sent", "answered"}, ch : UCChannels, etag : Nat, apply : UCAnswers,
               kind : {"none", "error", "not modified", "body"}, release : UCAnswers]

\* The request of c is about the tag the cache holds, or brings a pair of its own.
UCRequestMatches(c) ==
    LET q == ucRequest[c]
    IN  /\ q.phase = "sent" \/ q.kind = "not modified" => q.etag = ucCache[q.ch].etag
        /\ q.kind = "body" => UCMatches(ucPublished, q.ch, q.etag, q.release)

\* An answer is of some kind.
UCKinds == \A c \in Checkers : ucRequest[c].phase = "answered" <=> ucRequest[c].kind # "none"

\* The inductive invariant: beside UCUpdatesAreSound, what requests under way carry.
UCInv ==
    /\ UCTypeOK
    /\ ucRequest \in [Checkers -> UCRequests]
    /\ UCInstallsUpwards
    /\ ucOvertaken \in BOOLEAN
    /\ UCKinds
    /\ ~ucOvertaken =>
         /\ \A ch \in UCChannels : ucCache[ch].etag # 0 =>
                UCMatches(ucPublished, ch, ucCache[ch].etag, ucCache[ch].release)
         /\ \A c \in Checkers : UCRequestMatches(c)

UCEntries == [release : UCAnswers, etag : Nat, checked : BOOLEAN]

LEMMA UCTypes ==
    UCTypeOK <=> /\ ucPublished \in Seq(UCReleases) /\ ucCache \in [UCChannels -> UCEntries]
                 /\ ucStarted \subseteq [release : UCReleases, from : UCReleases]
BY DEF UCTypeOK, UCEntries, UCAnswers

LEMMA UCTypesNext ==
    UCTypeOK' <=> /\ ucPublished' \in Seq(UCReleases) /\ ucCache' \in [UCChannels -> UCEntries]
                  /\ ucStarted' \subseteq [release : UCReleases, from : UCReleases]
BY DEF UCTypeOK, UCEntries, UCAnswers

LEMMA UCInvInit == UCInit => UCInv
<1> SUFFICES ASSUME UCInit PROVE UCInv
  OBVIOUS
<1>1. UCEmpty \in UCEntries /\ UCEmpty.etag = 0
  BY DEF UCEmpty, UCEntries, UCAnswers
<1>2. UCIdle \in UCRequests /\ UCIdle.phase = "idle" /\ UCIdle.kind = "none"
  BY DEF UCIdle, UCRequests, UCAnswers, UCChannels
<1>3. UCTypeOK
  BY <1>1, UCTypes DEF UCInit
<1>4. ucRequest \in [Checkers -> UCRequests]
  BY <1>2 DEF UCInit
<1>5. \A c \in Checkers : UCRequestMatches(c)
  BY <1>2 DEF UCInit, UCRequestMatches
<1>6. UCKinds
  BY <1>2 DEF UCInit, UCKinds
<1> QED BY <1>1, <1>3, <1>4, <1>5, <1>6 DEF UCInit, UCInv, UCInstallsUpwards

LEMMA UCInvPublish == ASSUME UCInv, UCPublish PROVE UCInv'
<1>1. PICK r \in UCReleases : ucPublished' = <<r>> \o ucPublished
  BY DEF UCPublish
<1>2. UNCHANGED <<ucCache, ucRequest, ucStarted, ucOvertaken>>
  BY DEF UCPublish
<1>3. /\ ucPublished \in Seq(UCReleases) /\ ucCache \in [UCChannels -> UCEntries]
      /\ ucStarted \subseteq [release : UCReleases, from : UCReleases]
      /\ ucRequest \in [Checkers -> UCRequests]
  BY UCTypes DEF UCInv
<1>4. ucPublished' \in Seq(UCReleases)
  <2>1. <<r>> \in Seq(UCReleases)
    OBVIOUS
  <2> QED BY <1>1, <1>3, <2>1, ConcatProperties
<1>5. \A ch, etag, release : UCMatches(ucPublished, ch, etag, release)
                               => UCMatches(ucPublished', ch, etag, release)
  BY <1>1, <1>3, UCMatchesLater
<1>6. UCTypeOK'
  BY <1>2, <1>3, <1>4, UCTypesNext
<1>7. ASSUME ~ucOvertaken, NEW c \in Checkers PROVE UCRequestMatches(c)'
  <2>1. UCRequestMatches(c)
    BY <1>7 DEF UCInv
  <2> QED BY <1>2, <1>5, <2>1 DEF UCRequestMatches
<1>8. UCInstallsUpwards' /\ UCKinds'
  BY <1>2 DEF UCInv, UCInstallsUpwards, UCKinds
<1> QED BY <1>2, <1>3, <1>5, <1>6, <1>7, <1>8 DEF UCInv

\* A request leaves with the tag of the cache.
LEMMA UCInvSend ==
    ASSUME UCInv, NEW c \in Checkers, NEW apply \in UCAnswers, UCSend(c, apply)
    PROVE  UCInv'
<1>1. PICK ch \in UCChannels :
         ucRequest' = [ucRequest EXCEPT ![c] =
            [UCIdle EXCEPT !.phase = "sent", !.ch = ch, !.etag = ucCache[ch].etag, !.apply = apply]]
  BY DEF UCSend
<1>2. UNCHANGED <<ucPublished, ucCache, ucStarted, ucOvertaken>>
  BY DEF UCSend
<1>3. /\ ucPublished \in Seq(UCReleases) /\ ucCache \in [UCChannels -> UCEntries]
      /\ ucStarted \subseteq [release : UCReleases, from : UCReleases]
      /\ ucRequest \in [Checkers -> UCRequests]
  BY UCTypes DEF UCInv
<1> DEFINE q == [UCIdle EXCEPT !.phase = "sent", !.ch = ch, !.etag = ucCache[ch].etag, !.apply = apply]
<1>4. q \in UCRequests /\ q.phase = "sent" /\ q.kind = "none" /\ q.ch = ch /\ q.etag = ucCache[ch].etag
  <2>1. ucCache[ch].etag \in Nat
    BY <1>3 DEF UCEntries
  <2> QED BY <2>1 DEF UCIdle, UCRequests, UCAnswers
<1>5. /\ ucRequest' \in [Checkers -> UCRequests] /\ ucRequest'[c] = q
      /\ \A d \in Checkers \ {c} : ucRequest'[d] = ucRequest[d]
  <2> HIDE DEF q
  <2> QED BY <1>1, <1>3, <1>4 DEF q
<1> HIDE DEF q
<1>6. UCTypeOK'
  BY <1>2, <1>3, UCTypesNext
<1>7. ASSUME ~ucOvertaken, NEW d \in Checkers PROVE UCRequestMatches(d)'
  <2>1. CASE d = c
    BY <1>2, <1>4, <1>5, <2>1 DEF UCRequestMatches
  <2>2. CASE d # c
    <3>1. UCRequestMatches(d)
      BY <1>7 DEF UCInv
    <3> QED BY <1>2, <1>5, <2>2, <3>1 DEF UCRequestMatches
  <2> QED BY <2>1, <2>2
<1>8. UCInstallsUpwards'
  BY <1>2 DEF UCInv, UCInstallsUpwards
<1>9. UCKinds'
  BY <1>4, <1>5 DEF UCInv, UCKinds
<1> QED BY <1>2, <1>5, <1>6, <1>7, <1>8, <1>9 DEF UCInv

\* The answer comes back: for a tag the cache holds, or with a pair of its own.
LEMMA UCInvReply == ASSUME UCInv, NEW c \in Checkers, UCReply(c) PROVE UCInv'
<1> DEFINE q == ucRequest[c]
           tag == UCETag(q.ch, ucPublished)
<1>1. UNCHANGED <<ucPublished, ucCache, ucStarted, ucOvertaken>> /\ q.phase = "sent"
  BY DEF UCReply
<1>2. /\ ucPublished \in Seq(UCReleases) /\ ucCache \in [UCChannels -> UCEntries]
      /\ ucStarted \subseteq [release : UCReleases, from : UCReleases]
      /\ ucRequest \in [Checkers -> UCRequests] /\ q \in UCRequests
  BY UCTypes DEF UCInv
<1>3. q.ch \in UCChannels /\ q.etag \in Nat
  BY <1>2 DEF UCRequests
<1>4. tag \in Nat /\ UCAnswer(q.ch, ucPublished) \in UCAnswers
  BY <1>2, <1>3, UCAnswerFacts
<1>5. PICK kind \in {"error", "not modified", "body"}, release \in UCAnswers, etag \in Nat :
         /\ ucRequest' = [ucRequest EXCEPT ![c] =
               [q EXCEPT !.phase = "answered", !.kind = kind, !.release = release, !.etag = etag]]
         /\ kind = "not modified" => etag = q.etag
         /\ kind = "body" => etag = tag /\ release = UCAnswer(q.ch, ucPublished)
  <2>1. UCNoRelease \in UCAnswers
    BY DEF UCAnswers
  <2> QED BY <1>4, <2>1 DEF UCReply
<1> DEFINE p == [q EXCEPT !.phase = "answered", !.kind = kind, !.release = release, !.etag = etag]
<1>6. p \in UCRequests /\ p.phase = "answered" /\ p.kind = kind /\ p.ch = q.ch /\ p.etag = etag
      /\ p.release = release
  BY <1>2 DEF UCRequests
<1>7. /\ ucRequest' \in [Checkers -> UCRequests] /\ ucRequest'[c] = p
      /\ \A d \in Checkers \ {c} : ucRequest'[d] = ucRequest[d]
  BY <1>2, <1>5, <1>6
<1> HIDE DEF p
<1>8. UCTypeOK'
  BY <1>1, <1>2, UCTypesNext
<1>9. ASSUME ~ucOvertaken, NEW d \in Checkers PROVE UCRequestMatches(d)'
  <2>1. CASE d = c
    <3>1. q.etag = ucCache[q.ch].etag
      BY <1>1, <1>9 DEF UCInv, UCRequestMatches
    <3>2. UCMatches(ucPublished, q.ch, tag, UCAnswer(q.ch, ucPublished))
      BY <1>2, UCMatchesNow
    <3> HIDE DEF q, tag
    <3> QED BY <1>1, <1>5, <1>6, <1>7, <2>1, <3>1, <3>2 DEF UCRequestMatches
  <2>2. CASE d # c
    <3>1. UCRequestMatches(d)
      BY <1>9 DEF UCInv
    <3> QED BY <1>1, <1>7, <2>2, <3>1 DEF UCRequestMatches
  <2> QED BY <2>1, <2>2
<1>10. UCInstallsUpwards'
  BY <1>1 DEF UCInv, UCInstallsUpwards
<1>11. UCKinds'
  BY <1>5, <1>6, <1>7 DEF UCInv, UCKinds
<1> QED BY <1>1, <1>7, <1>8, <1>9, <1>10, <1>11 DEF UCInv

\* The answer is stored: it keeps the pair of the cache, or brings its own; an
\* update that starts was confirmed.
LEMMA UCInvStore == ASSUME UCInv, NEW c \in Checkers, UCStore(c) PROVE UCInv'
<1> DEFINE q == ucRequest[c]
           old == ucCache[q.ch]
           entry == UCStored(ucCache[q.ch], q)
<1>1. /\ q.phase = "answered" /\ UNCHANGED ucPublished
      /\ ucCache' = [ucCache EXCEPT ![q.ch] = entry]
      /\ ucRequest' = [ucRequest EXCEPT ![c] = UCIdle]
      /\ ucStarted' = IF q.apply # UCNoRelease /\ UCStartable(entry.release, q.apply)
                        THEN ucStarted \cup {[release |-> entry.release, from |-> q.apply]}
                        ELSE ucStarted
      /\ ucOvertaken' = (ucOvertaken \/ \E d \in Checkers \ {c} : UCOut(d) /\ ucRequest[d].ch = q.ch)
  BY DEF UCStore
<1>2. /\ ucPublished \in Seq(UCReleases) /\ ucCache \in [UCChannels -> UCEntries]
      /\ ucStarted \subseteq [release : UCReleases, from : UCReleases]
      /\ ucRequest \in [Checkers -> UCRequests] /\ q \in UCRequests
  BY UCTypes DEF UCInv
<1>3. q.ch \in UCChannels /\ q.etag \in Nat /\ q.release \in UCAnswers /\ q.apply \in UCAnswers
      /\ q.kind \in {"none", "error", "not modified", "body"} /\ old \in UCEntries
  BY <1>2 DEF UCRequests
<1>4. q.kind = "error" \/ q.kind = "not modified" \/ q.kind = "body"
  BY <1>1, <1>3 DEF UCInv, UCKinds
<1>5. PICK stored : stored = entry
  OBVIOUS
<1>6. /\ q.kind = "error" => stored = [old EXCEPT !.checked = TRUE]
      /\ q.kind = "not modified" => stored = [old EXCEPT !.checked = TRUE, !.etag = q.etag]
      /\ q.kind = "body" => stored = [release |-> q.release, etag |-> q.etag, checked |-> TRUE]
  BY <1>5 DEF UCStored
<1>7. /\ stored \in UCEntries
      /\ q.kind = "error" => stored.release = old.release /\ stored.etag = old.etag
      /\ q.kind = "not modified" => stored.release = old.release /\ stored.etag = q.etag
      /\ q.kind = "body" => stored.release = q.release /\ stored.etag = q.etag
  <2>1. PICK rel \in UCAnswers, tag \in Nat, seen \in BOOLEAN :
            old = [release |-> rel, etag |-> tag, checked |-> seen]
    <3>1. UCEntries = [release : UCAnswers, etag : Nat, checked : BOOLEAN]
      BY DEF UCEntries, UCAnswers
    <3> HIDE DEF old
    <3> QED BY <1>3, <3>1
  <2>2. \A r \in UCAnswers, n \in Nat : [release |-> r, etag |-> n, checked |-> TRUE] \in UCEntries
    BY DEF UCEntries, UCAnswers
  <2> HIDE DEF q, old
  <2>3. CASE q.kind = "error"
    <3>1. stored = [release |-> rel, etag |-> tag, checked |-> TRUE]
      BY <1>6, <2>1, <2>3
    <3> QED BY <2>1, <2>2, <2>3, <3>1
  <2>4. CASE q.kind = "not modified"
    <3>1. stored = [release |-> rel, etag |-> q.etag, checked |-> TRUE]
      BY <1>6, <2>1, <2>4
    <3> QED BY <1>3, <2>1, <2>2, <2>4, <3>1
  <2>5. CASE q.kind = "body"
    <3>1. stored = [release |-> q.release, etag |-> q.etag, checked |-> TRUE]
      BY <1>6, <2>5
    <3> QED BY <1>3, <2>2, <2>5, <3>1
  <2> QED BY <1>4, <2>3, <2>4, <2>5
<1>8. /\ ucCache' \in [UCChannels -> UCEntries] /\ ucCache'[q.ch] = stored
      /\ \A ch \in UCChannels \ {q.ch} : ucCache'[ch] = ucCache[ch]
  BY <1>1, <1>2, <1>3, <1>5, <1>7
<1>9. /\ ucRequest' \in [Checkers -> UCRequests] /\ ucRequest'[c] = UCIdle
      /\ \A d \in Checkers \ {c} : ucRequest'[d] = ucRequest[d]
      /\ UCIdle.phase = "idle" /\ UCIdle.kind = "none"
  <2>1. UCIdle \in UCRequests /\ UCIdle.phase = "idle" /\ UCIdle.kind = "none"
    BY DEF UCIdle, UCRequests, UCAnswers, UCChannels
  <2> QED BY <1>1, <1>2, <2>1
<1>10. \/ ucStarted' = ucStarted
       \/ /\ q.apply # UCNoRelease /\ UCStartable(stored.release, q.apply)
          /\ ucStarted' = ucStarted \cup {[release |-> stored.release, from |-> q.apply]}
  BY <1>1, <1>5
<1> HIDE DEF entry
<1>11. /\ ucStarted' \subseteq [release : UCReleases, from : UCReleases]
       /\ UCInstallsUpwards'
  <2>1. CASE ucStarted' = ucStarted
    BY <1>2, <2>1 DEF UCInv, UCInstallsUpwards
  <2>2. CASE /\ q.apply # UCNoRelease /\ UCStartable(stored.release, q.apply)
             /\ ucStarted' = ucStarted \cup {[release |-> stored.release, from |-> q.apply]}
    <3>1. q.apply \in UCReleases /\ stored.release \in UCAnswers
      BY <1>3, <1>7, <2>2 DEF UCAnswers, UCEntries
    <3>2. stored.release \in UCReleases /\ stored.release = q.apply
          /\ VXAbove(stored.release.version, UCCurrent)
      BY <2>2, <3>1, UCStartFacts
    <3> DEFINE u == [release |-> stored.release, from |-> q.apply]
    <3>3. u \in [release : UCReleases, from : UCReleases] /\ u.release = u.from
          /\ VXAbove(u.release.version, UCCurrent)
      BY <3>1, <3>2
    <3> HIDE DEF u
    <3>4. ucStarted' = ucStarted \cup {u}
      BY <2>2 DEF u
    <3> QED BY <1>2, <3>3, <3>4 DEF UCInv, UCInstallsUpwards
  <2> QED BY <1>10, <2>1, <2>2
<1>12. UCTypeOK'
  BY <1>1, <1>2, <1>8, <1>11, UCTypesNext
<1>13. UCKinds'
  BY <1>9 DEF UCInv, UCKinds
<1>14. ASSUME ~ucOvertaken'
       PROVE  /\ ~ucOvertaken
              /\ \A d \in Checkers \ {c} : ucRequest[d].phase = "idle" \/ ucRequest[d].ch # q.ch
  BY <1>1, <1>14 DEF UCOut
<1>15. ASSUME ~ucOvertaken', NEW ch \in UCChannels, ucCache'[ch].etag # 0
       PROVE  UCMatches(ucPublished', ch, ucCache'[ch].etag, ucCache'[ch].release)
  <2>1. UNCHANGED ucPublished
    BY <1>1
  <2>2. /\ ucCache[ch].etag # 0 => UCMatches(ucPublished, ch, ucCache[ch].etag, ucCache[ch].release)
        /\ UCRequestMatches(c)
    BY <1>14, <1>15 DEF UCInv
  <2>3. CASE ch # q.ch
    BY <1>8, <1>15, <2>1, <2>2, <2>3
  <2>4. CASE ch = q.ch
    <3>1. stored.etag # 0 /\ ucCache'[ch] = stored
      BY <1>8, <1>15, <2>4
    <3>2. CASE q.kind = "body"
      <4>1. UCMatches(ucPublished, ch, q.etag, q.release)
        BY <2>2, <2>4, <3>2 DEF UCRequestMatches
      <4> QED BY <1>7, <2>1, <3>1, <3>2, <4>1
    <3>3. CASE q.kind = "error" \/ q.kind = "not modified"
      <4>1. stored.release = old.release /\ stored.etag = old.etag
        BY <1>7, <2>2, <3>3 DEF UCRequestMatches
      <4> QED BY <2>1, <2>2, <2>4, <3>1, <4>1
    <3> QED BY <1>4, <3>2, <3>3
  <2> QED BY <2>3, <2>4
<1>16. ASSUME ~ucOvertaken', NEW d \in Checkers PROVE UCRequestMatches(d)'
  <2>1. CASE d = c
    BY <1>9, <2>1 DEF UCRequestMatches
  <2>2. CASE d # c
    <3>1. UCRequestMatches(d) /\ (ucRequest[d].phase = "idle" \/ ucRequest[d].ch # q.ch)
      BY <1>14, <1>16, <2>2 DEF UCInv
    <3>2. ucRequest'[d] = ucRequest[d] /\ UNCHANGED ucPublished /\ ucRequest[d].ch \in UCChannels
      BY <1>1, <1>2, <1>9, <2>2 DEF UCRequests
    <3>3. CASE ucRequest[d].phase = "idle"
      <4>1. ucRequest[d].kind = "none"
        BY <3>3 DEF UCInv, UCKinds
      <4> QED BY <3>2, <3>3, <4>1 DEF UCRequestMatches
    <3>4. CASE ucRequest[d].ch # q.ch
      <4>1. ucCache'[ucRequest[d].ch] = ucCache[ucRequest[d].ch]
        BY <1>8, <3>2, <3>4
      <4> QED BY <3>1, <3>2, <4>1 DEF UCRequestMatches
    <3> QED BY <3>1, <3>3, <3>4
  <2> QED BY <2>1, <2>2
<1>17. ucOvertaken' \in BOOLEAN
  BY <1>1 DEF UCInv
<1> QED BY <1>9, <1>11, <1>12, <1>13, <1>15, <1>16, <1>17 DEF UCInv

LEMMA UCInvReset == ASSUME UCInv, UCReset PROVE UCInv'
<1>1. /\ ucCache' = [ch \in UCChannels |-> UCEmpty]
      /\ ucOvertaken' = (ucOvertaken \/ \E c \in Checkers : UCOut(c))
      /\ UNCHANGED <<ucPublished, ucRequest, ucStarted>>
  BY DEF UCReset
<1>2. /\ ucPublished \in Seq(UCReleases)
      /\ ucStarted \subseteq [release : UCReleases, from : UCReleases]
      /\ ucRequest \in [Checkers -> UCRequests]
  BY UCTypes DEF UCInv
<1>3. UCEmpty \in UCEntries /\ UCEmpty.etag = 0
  BY DEF UCEmpty, UCEntries, UCAnswers
<1>4. UCTypeOK'
  BY <1>1, <1>2, <1>3, UCTypesNext
<1>5. \A ch \in UCChannels : ucCache'[ch].etag = 0
  BY <1>1, <1>3
<1>6. ASSUME ~ucOvertaken', NEW c \in Checkers PROVE UCRequestMatches(c)'
  <2>1. ucRequest[c].phase = "idle" /\ ucRequest[c].kind = "none"
    BY <1>1, <1>6 DEF UCOut, UCInv, UCKinds
  <2> QED BY <1>1, <2>1 DEF UCRequestMatches
<1>7. UCKinds' /\ UCInstallsUpwards'
  BY <1>1 DEF UCInv, UCKinds, UCInstallsUpwards
<1>8. ucOvertaken' \in BOOLEAN
  BY <1>1 DEF UCInv
<1> QED BY <1>1, <1>2, <1>4, <1>5, <1>6, <1>7, <1>8 DEF UCInv

LEMMA UCInvStutter == ASSUME UCInv, UNCHANGED ucVars PROVE UCInv'
BY DEF ucVars, UCInv, UCTypeOK, UCInstallsUpwards, UCKinds, UCRequestMatches

\* A check finds what is published and an update leads upwards
\* (service/update.go, api/apiUpdate.go), for any number of requests at one
\* time, and any publications, errors and resets between their steps.
THEOREM ChecksAreSound == UCSpec => []UCUpdatesAreSound
<1>1. ASSUME UCInv, [UCNext]_ucVars PROVE UCInv'
  <2>1. CASE \E c \in Checkers : UCCheck(c) \/ UCApply(c)
    <3>1. PICK c \in Checkers, apply \in UCAnswers : UCSend(c, apply)
      <4>1. UCNoRelease \in UCAnswers /\ \A ch \in UCChannels : ucCache[ch].release \in UCAnswers
        <5>1. UCNoRelease \in UCAnswers
          BY DEF UCAnswers
        <5>2. ucCache \in [UCChannels -> UCEntries]
          BY <1>1, UCTypes DEF UCInv
        <5>3. \A e \in UCEntries : e.release \in UCAnswers
          BY DEF UCEntries, UCAnswers
        <5> QED BY <5>1, <5>2, <5>3
      <4> QED BY <2>1, <4>1 DEF UCCheck, UCApply
    <3> QED BY <1>1, <3>1, UCInvSend
  <2> QED BY <1>1, <2>1, UCInvPublish, UCInvReset, UCInvReply, UCInvStore, UCInvStutter DEF UCNext
<1>2. UCInv => UCUpdatesAreSound
  BY DEF UCInv, UCUpdatesAreSound, UCEtagMatches, UCMatches
<1> QED BY UCInvInit, <1>1, <1>2, PTL DEF UCSpec

\* The binary, the release check, the migration, the backup, the import and the
\* references move one at a time: the composition is the release check, and the
\* pairs of versions it compares are those of the example.
LEMMA DataRelease == DataInit /\ [][DataNext]_dataVars => UCSpec
<1>1. DataInit => UCInit
  BY DEF DataInit
<1>2. [DataNext]_dataVars => [UCNext]_ucVars
  BY DEF DataNext, dataVars
<1> QED BY <1>1, <1>2, PTL DEF UCSpec

LEMMA DataBinary == DataInit /\ [][DataNext]_dataVars => Spec
<1>1. DataInit => Init
  BY DEF DataInit
<1>2. [DataNext]_dataVars => [Next]_vars
  BY DEF DataNext, dataVars
<1> QED BY <1>1, <1>2, PTL DEF Spec

LEMMA DataPairs ==
    DataInit /\ [][DataNext]_dataVars => [](versionPair = <<>> \/ versionPair \in VXSample \X VXSample)
<1> DEFINE P == versionPair = <<>> \/ versionPair \in VXSample \X VXSample
<1>1. DataInit => P
  BY DEF DataInit
<1>2. ASSUME P, [DataNext]_dataVars PROVE P'
  <2>1. CASE Evaluate
    <3>1. CASE UNCHANGED versionPair
      BY <1>2, <3>1
    <3>2. CASE \E l, r \in VXSample : versionPair' = <<l, r>>
      BY <3>2
    <3> QED BY <2>1, <3>1, <3>2 DEF Evaluate
  <2>2. CASE UNCHANGED versionPair
    BY <1>2, <2>2
  <2> QED BY <1>2, <2>1, <2>2 DEF DataNext, dataVars, functionVars
<1> QED BY <1>1, <1>2, PTL

\* Updates are sound in the composition: what ChecksAreSound says of the check,
\* what VersionsStaySafe says of the binary, and the order of every two versions
\* the example compares (service/update.go, service/panel_update*.go).
THEOREM UpdatesStaySound == DataFairSpec => []UpdatesAreSound
<1>1. DataFairSpec => DataInit /\ [][DataNext]_dataVars
  BY PTL DEF DataFairSpec
<1>2. TypeOK /\ VersionsAreSafe /\ UCUpdatesAreSound /\ (versionPair = <<>> \/ versionPair \in VXSample \X VXSample) => UpdatesAreSound
  <2>1. ASSUME versionPair \in VXSample \X VXSample PROVE SemverOrder(versionPair[1], versionPair[2])
    <3>1. versionPair[1] \in VXSample /\ versionPair[2] \in VXSample
      BY <2>1
    <3> QED BY <3>1, VXSampleParses, OrderIsSemver
  <2> QED BY <2>1 DEF UpdatesAreSound
<1> QED BY <1>1, <1>2, VersionsStaySafe, ChecksAreSound, DataBinary, DataRelease, DataPairs, PTL

-----------------------------------------------------------------------------
MGLadder == {"1.1", "1.2", "1.3", "1.4", "1.5", "1.6", "1.7"}
MGStoredAs == {"config", "endpoint", "outbound", "action"}
MGRuleActions == {"route", "reject", "hijack-dns"}
MGNames == {"in_a", "in-a", "gone"}
MGShape ==
  [version : MGVersions, columns : {"text", "json"}, refs : SUBSET MGNames,
   ids : SUBSET {1, 2}, tls : [{1, 2} -> SUBSET MGNames],
   bound : (0..3) \X (0..3), kind : MGKinds, rule : MGRuleActions, stored : MGStoredAs,
   trojan : BOOLEAN, anytls : {"none", "own", "trojan"}, scope : {"", "full", "read", "admin"},
   orphan : MGOrphans, secret : {"own", "", "made"}, ip : {"plain", "hashed"}, rungs : Seq(MGLadder)]

\* What a database of an earlier version is once the rungs up to the k-th are
\* behind it: what a rung above has yet to change is as it was found, what a rung
\* below has changed is as it should be.
MGSameConfig(db, found) ==
  /\ db.refs = found.refs /\ db.tls = found.tls /\ db.kind = found.kind
  /\ db.trojan = found.trojan
MGRowsMade(db, found, k) ==
  k >= 2 => /\ db.ids = {i \in 1..2 : MGTags[i] \in found.refs}
            /\ (db.stored = "action") <=> (db.rule # "route")
            /\ found.version = "none" =>
                 db.bound = <<MGBoundTo(found, MGTags[1]), MGBoundTo(found, MGTags[2])>>
MGScopeMade(scope) == IF scope \in {"", "full"} THEN "admin" ELSE scope
MGSecretMade(secret) == IF secret = "" THEN "made" ELSE secret
MGCredentialsMade(db, found, k) ==
  /\ db.anytls = IF k >= 3 THEN MGAnytls(found) ELSE found.anytls
  /\ db.scope = IF k >= 4 THEN MGScopeMade(found.scope) ELSE found.scope
  /\ db.secret = IF k >= 5 THEN MGSecretMade(found.secret) ELSE found.secret
  /\ k >= 5 => db.ip = "hashed"
MGClimbed(db, found, k) ==
  /\ db \in MGShape /\ MGSameConfig(db, found)
  /\ db.rungs = SubSeq(MGRungs, MGFirstRung(found.version), k)
  /\ MGRowsMade(db, found, k) /\ MGCredentialsMade(db, found, k)

\* As it was found, apart from the orphans the operator had removed.
MGUntouched(db) ==
  db \in MGShape /\ (db = mgFound \/ db = [mgFound EXCEPT !.orphan = MGRepaired(mgFound.orphan)])
MGDbInv == \/ MGUntouched(mgDb)
           \/ mgDb.version = "build" /\ mgFound.version # "later" /\ MGClimbed(mgDb, mgFound, 7)
MGTxInv == mgPhase = "ladder" =>
  /\ MGUntouched(mgDb) /\ mgDb.version \notin {"build", "later"}
  /\ mgTx.next \in (MGReached(mgFound.version) + 1)..8
  /\ MGClimbed(mgTx.db, mgFound, mgTx.next - 1)
\* Only a repair that was asked for changes the orphans; the ladder has no part in it.
MGOrphanInv ==
  /\ mgCommand = "repair" => mgAsked
  /\ mgPhase = "repair" => mgCommand = "repair"
  /\ mgDb.orphan # mgFound.orphan => mgAsked
  /\ mgPhase = "ladder" => mgTx.db.orphan = mgDb.orphan
MGInv == /\ mgFound \in MGDatabases /\ MGDbInv /\ MGTxInv
         /\ mgPhase \in {"adapt", "up"} => mgDb.version \in {"build", "later"}

LEMMA MGReachedFacts ==
  \A v \in MGVersions :
    /\ MGReached(v) \in {0, 2, 3, 4, 5, 7}
    /\ MGReached(v) = 0 <=> v = "none"
    /\ MGReached(v) = 7 <=> v \in {"build", "later"}
BY DEF MGVersions, MGReached

LEMMA MGRungFacts ==
  /\ MGRungs \in Seq(MGLadder) /\ Len(MGRungs) = 7
  /\ MGRungs[1] = "1.1" /\ MGRungs[2] = "1.2" /\ MGRungs[3] = "1.3" /\ MGRungs[4] = "1.4"
  /\ MGRungs[5] = "1.5" /\ MGRungs[6] = "1.6" /\ MGRungs[7] = "1.7"
BY DEF MGRungs, MGLadder

\* A database a start may find is what its own version has made of it.
LEMMA MGFoundIsClimbed ==
  ASSUME NEW found \in MGDatabases
  PROVE  /\ found \in MGShape /\ found.version \in MGVersions \ {"build"}
         /\ MGClimbed(found, found, MGReached(found.version))
<1> DEFINE old == {d \in MGOld : MGVaried(d)}
<1>1. PICK d \in MGOld : found = MGWritten(d)
  <2>1. MGDatabases = {MGWritten(d) : d \in old}
    BY DEF MGDatabases
  <2>2. PICK d \in old : found = MGWritten(d)
    <3> HIDE DEF old
    <3> QED BY <2>1
  <2> QED BY <2>2
<1>2. /\ d.version \in MGVersions \ {"build"} /\ d.columns = "text"
      /\ d.refs \in SUBSET MGNames /\ d.ids = {} /\ d.tls \in [{1, 2} -> {{}, {"in_a"}, {"in-a"}}]
      /\ d.bound = <<0, 0>> /\ d.kind \in MGKinds /\ d.rule = "route" /\ d.stored = "config"
      /\ d.trojan \in BOOLEAN /\ d.anytls \in {"none", "own"} /\ d.scope \in {"", "full", "read"}
      /\ d.orphan \in MGOrphans /\ d.secret \in {"own", ""} /\ d.ip = "plain" /\ d.rungs = <<>>
  BY DEF MGOld, MGNames
<1> DEFINE at(k) == MGReached(d.version) >= k
<1>3. /\ found.version = d.version /\ found.refs = d.refs /\ found.tls = d.tls /\ found.kind = d.kind
      /\ found.trojan = d.trojan /\ found.orphan = d.orphan /\ found.rungs = <<>>
      /\ found.columns = (IF at(2) THEN "json" ELSE "text")
      /\ found.ids = (IF at(2) THEN {i \in 1..2 : MGTags[i] \in d.refs} ELSE {})
      /\ found.stored = (IF ~at(2) THEN "config" ELSE IF d.kind = "wireguard" THEN "endpoint"
                         ELSE IF d.kind = "direct" THEN "outbound" ELSE "action")
      /\ found.rule = (CASE at(2) /\ d.kind = "block" -> "reject"
                         [] at(2) /\ d.kind = "dns" -> "hijack-dns" [] OTHER -> "route")
      /\ found.anytls = (IF at(3) THEN MGAnytls(d) ELSE d.anytls)
      /\ found.scope = (IF at(4) /\ d.scope # "read" THEN "admin" ELSE d.scope)
      /\ found.ip = (IF at(5) THEN "hashed" ELSE "plain")
      /\ found.secret = (IF at(5) THEN "own" ELSE d.secret)
      /\ found.bound = (IF at(2) THEN <<1, 2>> ELSE <<0, 0>>)
  BY <1>1, <1>2 DEF MGOld, MGWritten
<1>4. MGReached(d.version) \in {0, 2, 3, 4, 5, 7} /\ (MGReached(d.version) = 0 <=> d.version = "none")
  BY <1>2, MGReachedFacts
<1> DEFINE ids == {i \in 1..2 : MGTags[i] \in d.refs}
<1>5. ids \in SUBSET {1, 2}
  OBVIOUS
<1>6. found \in MGShape
  <2> HIDE DEF ids
  <2>0. /\ found.columns \in {"text", "json"} /\ found.ids \in SUBSET {1, 2}
        /\ found.stored \in MGStoredAs /\ found.rule \in MGRuleActions /\ found.anytls \in {"none", "own", "trojan"}
        /\ found.scope \in {"", "full", "read", "admin"} /\ found.ip \in {"plain", "hashed"}
        /\ found.secret \in {"own", "", "made"} /\ found.bound \in (0..3) \X (0..3)
    <3>1. found.columns \in {"text", "json"} /\ found.ip \in {"plain", "hashed"}
      BY <1>3
    <3>2. found.ids \in SUBSET {1, 2}
      BY <1>3, <1>5 DEF ids
    <3>3. found.stored \in MGStoredAs /\ found.rule \in MGRuleActions
      BY <1>3 DEF MGStoredAs, MGRuleActions
    <3>4. found.anytls \in {"none", "own", "trojan"}
      BY <1>2, <1>3 DEF MGAnytls
    <3>5. found.scope \in {"", "full", "read", "admin"} /\ found.secret \in {"own", "", "made"}
      BY <1>3, <1>2
    <3>6. found.bound \in (0..3) \X (0..3)
      BY <1>3
    <3> QED BY <3>1, <3>2, <3>3, <3>4, <3>5, <3>6
  <2>1. found.tls \in [{1, 2} -> SUBSET MGNames] /\ found.rungs \in Seq(MGLadder)
    <3>1. {{}, {"in_a"}, {"in-a"}} \subseteq SUBSET MGNames
      BY DEF MGNames
    <3>2. <<>> \in Seq(MGLadder)
      OBVIOUS
    <3>3. d.tls \in [{1, 2} -> SUBSET MGNames]
      BY <1>2, <3>1
    <3> QED BY <1>2, <1>3, <3>2, <3>3
  <2>2. d \in MGShape
    <3>1. d = [version |-> d.version, columns |-> d.columns, refs |-> d.refs, ids |-> d.ids,
               tls |-> d.tls, bound |-> d.bound, kind |-> d.kind, rule |-> d.rule,
               stored |-> d.stored, trojan |-> d.trojan, anytls |-> d.anytls, scope |-> d.scope,
               orphan |-> d.orphan, secret |-> d.secret, ip |-> d.ip, rungs |-> d.rungs]
      BY DEF MGOld
    <3>2. /\ d.version \in MGVersions /\ d.columns \in {"text", "json"} /\ d.ids \in SUBSET {1, 2}
          /\ d.bound \in (0..3) \X (0..3) /\ d.rule \in MGRuleActions /\ d.stored \in MGStoredAs
          /\ d.anytls \in {"none", "own", "trojan"} /\ d.scope \in {"", "full", "read", "admin"}
          /\ d.secret \in {"own", "", "made"} /\ d.ip \in {"plain", "hashed"}
      <4>1. d.version \in MGVersions /\ d.rule \in MGRuleActions /\ d.stored \in MGStoredAs
        BY <1>2 DEF MGStoredAs, MGRuleActions
      <4>2. d.bound \in (0..3) \X (0..3)
        <5>1. <<0, 0>> \in (0..3) \X (0..3)
          OBVIOUS
        <5> QED BY <1>2, <5>1
      <4>3. d.ids \in SUBSET {1, 2}
        BY <1>2
      <4>4. d.columns \in {"text", "json"} /\ d.anytls \in {"none", "own", "trojan"} /\ d.ip \in {"plain", "hashed"}
        BY <1>2
      <4>5. d.scope \in {"", "full", "read", "admin"} /\ d.secret \in {"own", "", "made"}
        BY <1>2
      <4> QED BY <4>1, <4>2, <4>3, <4>4, <4>5
    <3>3. d.tls \in [{1, 2} -> SUBSET MGNames] /\ d.rungs \in Seq(MGLadder)
      <4>1. found.tls = d.tls /\ found.rungs = d.rungs
        BY <1>2, <1>3
      <4> QED BY <2>1, <4>1
    <3> QED BY <1>2, <3>1, <3>2, <3>3 DEF MGShape
  <2>3. found = [d EXCEPT !.columns = found.columns, !.ids = found.ids, !.stored = found.stored,
                          !.rule = found.rule, !.anytls = found.anytls, !.scope = found.scope,
                          !.ip = found.ip, !.secret = found.secret, !.bound = found.bound]
    <3>1. found = [d EXCEPT !.columns = IF at(2) THEN "json" ELSE "text",
                !.ids = IF at(2) THEN {i \in 1..2 : MGTags[i] \in d.refs} ELSE {},
                !.stored = IF ~at(2) THEN "config" ELSE IF d.kind = "wireguard" THEN "endpoint"
                           ELSE IF d.kind = "direct" THEN "outbound" ELSE "action",
                !.rule = CASE at(2) /\ d.kind = "block" -> "reject"
                           [] at(2) /\ d.kind = "dns" -> "hijack-dns" [] OTHER -> "route",
                !.anytls = IF at(3) THEN MGAnytls(d) ELSE d.anytls,
                !.scope = IF at(4) /\ d.scope # "read" THEN "admin" ELSE d.scope,
                !.ip = IF at(5) THEN "hashed" ELSE "plain",
                !.secret = IF at(5) THEN "own" ELSE d.secret,
                !.bound = IF at(2) THEN <<1, 2>> ELSE <<0, 0>>]
      BY <1>1 DEF MGWritten
    <3> QED BY <1>3, <3>1
  <2> QED BY <2>0, <2>2, <2>3 DEF MGShape
<1>7. found.rungs = SubSeq(MGRungs, MGFirstRung(found.version), MGReached(found.version))
  <2>1. PICK k : k = MGReached(d.version)
    OBVIOUS
  <2>2. k \in Int /\ k + 1 \in Int /\ k < k + 1
    BY <1>4, <2>1
  <2>3. SubSeq(MGRungs, k + 1, k) = <<>>
    BY <2>2, SubSeqEmpty
  <2> QED BY <1>3, <2>1, <2>3 DEF MGFirstRung
<1>8. MGRowsMade(found, found, MGReached(found.version))
  <2>1. MGReached(d.version) >= 2 => at(2) /\ d.version # "none"
    BY <1>4
  <2>2. MGReached(d.version) >= 2 => found.ids = ids
    BY <1>3, <2>1
  <2>3. MGReached(d.version) >= 2 => ((found.stored = "action") <=> (found.rule # "route"))
    BY <1>2, <1>3, <2>1 DEF MGKinds
  <2> QED BY <1>3, <2>1, <2>2, <2>3 DEF MGRowsMade
<1>9. MGCredentialsMade(found, found, MGReached(found.version))
  <2>1. found.anytls = IF MGReached(found.version) >= 3 THEN MGAnytls(found) ELSE found.anytls
    BY <1>2, <1>3, <1>4 DEF MGAnytls
  <2>2. /\ found.scope = IF MGReached(found.version) >= 4 THEN MGScopeMade(found.scope) ELSE found.scope
        /\ found.secret = IF MGReached(found.version) >= 5 THEN MGSecretMade(found.secret) ELSE found.secret
        /\ MGReached(found.version) >= 5 => found.ip = "hashed"
    BY <1>2, <1>3, <1>4 DEF MGScopeMade, MGSecretMade
  <2> QED BY <2>1, <2>2 DEF MGCredentialsMade
<1> QED BY <1>2, <1>3, <1>6, <1>7, <1>8, <1>9 DEF MGClimbed, MGSameConfig

\* A rung leaves a database of the shape it was given, and changes its own part.
LEMMA MGRungOne ==
  ASSUME NEW db \in MGShape
  PROVE  To11(db) \in MGShape /\ To11(db) = [db EXCEPT !.columns = "json"]
BY DEF To11, MGShape
LEMMA MGRungTwo ==
  ASSUME NEW db \in MGShape
  PROVE  /\ To12(db) \in MGShape /\ MGSameConfig(To12(db), db)
         /\ To12(db).version = db.version /\ To12(db).orphan = db.orphan /\ To12(db).anytls = db.anytls /\ To12(db).scope = db.scope
         /\ To12(db).secret = db.secret /\ To12(db).ip = db.ip /\ To12(db).rungs = db.rungs
         /\ To12(db).ids = {i \in 1..2 : MGTags[i] \in db.refs}
         /\ (To12(db).stored = "action") <=> (To12(db).rule # "route")
         /\ To12(db).bound = <<MGBoundTo(db, MGTags[1]), MGBoundTo(db, MGTags[2])>>
<1> DEFINE bound == <<MGBoundTo(db, MGTags[1]), MGBoundTo(db, MGTags[2])>>
           stored == CASE db.kind = "wireguard" -> "endpoint" [] db.kind = "direct" -> "outbound"
                          [] OTHER -> "action"
           rule == CASE db.kind = "block" -> "reject" [] db.kind = "dns" -> "hijack-dns"
                        [] OTHER -> "route"
           ids == {i \in 1..2 : MGTags[i] \in db.refs}
<1>1. bound \in (0..3) \X (0..3) /\ ids \in SUBSET {1, 2}
  <2>1. \A tag : MGBoundTo(db, tag) \in 0..3
    BY DEF MGBoundTo
  <2> QED BY <2>1
<1>2. stored \in MGStoredAs /\ rule \in MGRuleActions /\ ((stored = "action") <=> (rule # "route"))
  BY DEF MGShape, MGKinds, MGStoredAs, MGRuleActions
<1>3. To12(db) = [[[[db EXCEPT !.bound = bound] EXCEPT !.stored = stored] EXCEPT !.rule = rule]
                    EXCEPT !.ids = ids]
  <2>1. PICK b : b = [db EXCEPT !.bound = bound]
    OBVIOUS
  <2>2. b.kind = db.kind /\ b.refs = db.refs
    BY <2>1 DEF MGShape
  <2>3. PICK o : o = [b EXCEPT !.stored = stored]
    OBVIOUS
  <2>4. o.kind = db.kind /\ o.refs = db.refs
    BY <2>1, <2>2, <2>3 DEF MGShape
  <2>5. PICK r : r = [o EXCEPT !.rule = rule]
    OBVIOUS
  <2>6. r.refs = db.refs
    BY <2>1, <2>3, <2>4, <2>5 DEF MGShape
  <2>7. MGInboundRows(db) = b
    BY <2>1 DEF MGInboundRows
  <2>8. MGOutboundRows(b) = o
    BY <2>2, <2>3 DEF MGOutboundRows
  <2>9. MGRouteRules(o) = r
    BY <2>4, <2>5 DEF MGRouteRules
  <2>10. MGClientRows(r) = [r EXCEPT !.ids = ids]
    BY <2>6 DEF MGClientRows
  <2> QED BY <2>1, <2>3, <2>5, <2>7, <2>8, <2>9, <2>10 DEF To12
<1> HIDE DEF bound, stored, rule, ids
<1>4. PICK t : t = To12(db)
  OBVIOUS
<1> DEFINE same(x) ==
             /\ x.version = db.version /\ x.orphan = db.orphan /\ x.anytls = db.anytls /\ x.scope = db.scope
             /\ x.secret = db.secret /\ x.ip = db.ip /\ x.rungs = db.rungs
             /\ x.refs = db.refs /\ x.tls = db.tls /\ x.kind = db.kind /\ x.trojan = db.trojan
<1>5. PICK b : b = [db EXCEPT !.bound = bound]
  OBVIOUS
<1>6. b \in MGShape /\ b.bound = bound /\ same(b)
  BY <1>1, <1>5 DEF MGShape
<1>7. PICK o : o = [b EXCEPT !.stored = stored]
  OBVIOUS
<1>8. o \in MGShape /\ o.bound = bound /\ o.stored = stored /\ same(o)
  BY <1>2, <1>6, <1>7 DEF MGShape
<1>9. PICK r : r = [o EXCEPT !.rule = rule]
  OBVIOUS
<1>10. r \in MGShape /\ r.bound = bound /\ r.stored = stored /\ r.rule = rule /\ same(r)
  BY <1>2, <1>8, <1>9 DEF MGShape
<1>11. t = [r EXCEPT !.ids = ids]
  BY <1>3, <1>4, <1>5, <1>7, <1>9
<1>12. t \in MGShape /\ t.bound = bound /\ t.stored = stored /\ t.rule = rule /\ t.ids = ids /\ same(t)
  BY <1>1, <1>10, <1>11 DEF MGShape
<1> QED BY <1>2, <1>4, <1>12 DEF MGSameConfig, bound, ids

\* The next rung climbs one further.
LEMMA MGRungClimbs ==
  ASSUME NEW found, found.version \in MGVersions,
         NEW k \in MGReached(found.version)..6, NEW db, MGClimbed(db, found, k)
  PROVE  MGClimbed(MGApply(db, MGRungs[k + 1]), found, k + 1)
<1> DEFINE rung == MGRungs[k + 1]
<1>0. PICK v \in MGVersions : v = found.version
  OBVIOUS
<1>1. MGReached(v) \in {0, 2, 3, 4, 5, 7} /\ (MGReached(v) = 0 <=> v = "none") /\ k \in 0..6
  BY <1>0, MGReachedFacts
<1>2. /\ db \in MGShape /\ MGSameConfig(db, found) /\ MGRowsMade(db, found, k)
      /\ MGCredentialsMade(db, found, k)
      /\ db.rungs = SubSeq(MGRungs, MGFirstRung(found.version), k)
  BY DEF MGClimbed
<1>3. PICK next : next = CASE rung = "1.1" -> To11(db) [] rung = "1.2" -> To12(db) [] rung = "1.3" -> To13(db)
                [] rung = "1.4" -> To14(db) [] rung = "1.5" -> To15(db) [] OTHER -> db
  OBVIOUS
<1>4. MGApply(db, rung) = [next EXCEPT !.rungs = Append(db.rungs, rung)]
  BY <1>3 DEF MGApply
<1> DEFINE Next1 == /\ next \in MGShape /\ MGSameConfig(next, found)
                    /\ MGRowsMade(next, found, k + 1) /\ MGCredentialsMade(next, found, k + 1)
<1>5. ASSUME k = 0 PROVE Next1
  <2>1. next = To11(db)
    BY <1>3, <1>5, MGRungFacts
  <2>2. next \in MGShape /\ next = [db EXCEPT !.columns = "json"]
    BY <1>2, <2>1, MGRungOne
  <2>3. /\ next.refs = db.refs /\ next.tls = db.tls /\ next.kind = db.kind /\ next.trojan = db.trojan
        /\ next.scope = db.scope /\ next.secret = db.secret /\ next.anytls = db.anytls
    BY <1>2, <2>2 DEF MGShape
  <2> QED BY <1>2, <1>5, <2>2, <2>3 DEF MGSameConfig, MGRowsMade, MGCredentialsMade
<1>6. ASSUME k = 1 PROVE Next1
  <2>1. next = To12(db)
    BY <1>3, <1>6, MGRungFacts
  <2>2. /\ next \in MGShape /\ MGSameConfig(next, db) /\ next.scope = db.scope
        /\ next.anytls = db.anytls
        /\ next.secret = db.secret /\ next.ids = {i \in 1..2 : MGTags[i] \in db.refs}
        /\ (next.stored = "action") <=> (next.rule # "route")
        /\ next.bound = <<MGBoundTo(db, MGTags[1]), MGBoundTo(db, MGTags[2])>>
    BY <1>2, <2>1, MGRungTwo
  <2>3. MGBoundTo(db, MGTags[1]) = MGBoundTo(found, MGTags[1]) /\ MGBoundTo(db, MGTags[2]) = MGBoundTo(found, MGTags[2])
    BY <1>2 DEF MGSameConfig, MGBoundTo
  <2>4. MGRowsMade(next, found, k + 1)
    BY <1>2, <2>2, <2>3 DEF MGRowsMade, MGSameConfig
  <2> QED BY <1>2, <1>6, <2>2, <2>4 DEF MGSameConfig, MGCredentialsMade
<1>7. ASSUME k = 2 PROVE Next1
  <2> DEFINE anytls == MGAnytls(db)
  <2>1. next = [db EXCEPT !.anytls = anytls]
    BY <1>3, <1>7, MGRungFacts DEF To13
  <2>2. anytls \in {"none", "own", "trojan"}
    BY <1>2 DEF MGShape, MGAnytls
  <2> HIDE DEF anytls
  <2>3. next \in MGShape
    BY <1>2, <2>1, <2>2 DEF MGShape
  <2>4. /\ next.refs = db.refs /\ next.tls = db.tls /\ next.kind = db.kind /\ next.trojan = db.trojan
        /\ next.scope = db.scope /\ next.secret = db.secret /\ next.ids = db.ids
        /\ next.stored = db.stored /\ next.rule = db.rule /\ next.bound = db.bound
        /\ next.anytls = anytls
    BY <1>2, <2>1 DEF MGShape
  <2>5. MGRowsMade(next, found, k + 1)
    BY <1>2, <1>7, <2>4 DEF MGRowsMade
  <2>6. MGSameConfig(next, found)
    BY <1>2, <2>4 DEF MGSameConfig
  <2>7. db.scope = found.scope /\ db.secret = found.secret /\ db.anytls = found.anytls
    BY <1>2, <1>7 DEF MGCredentialsMade
  <2>8. anytls = MGAnytls(found)
    BY <1>2, <2>7 DEF anytls, MGAnytls, MGSameConfig
  <2>9. MGCredentialsMade(next, found, 3)
    BY <2>4, <2>7, <2>8 DEF MGCredentialsMade
  <2> QED BY <1>7, <2>3, <2>5, <2>6, <2>9
<1>8. ASSUME k = 3 PROVE Next1
  <2> DEFINE scope == MGScopeMade(db.scope)
  <2>1. next = [db EXCEPT !.scope = scope]
    <3>1. next = To14(db)
      BY <1>3, <1>8, MGRungFacts
    <3> QED BY <3>1 DEF To14, MGScopeMade
  <2>2. scope \in {"", "full", "read", "admin"}
    BY <1>2 DEF MGShape, MGScopeMade
  <2> HIDE DEF scope
  <2>3. next \in MGShape
    BY <1>2, <2>1, <2>2 DEF MGShape
  <2>4. /\ next.refs = db.refs /\ next.tls = db.tls /\ next.kind = db.kind /\ next.trojan = db.trojan
        /\ next.anytls = db.anytls /\ next.secret = db.secret /\ next.ids = db.ids
        /\ next.stored = db.stored /\ next.rule = db.rule /\ next.bound = db.bound
        /\ next.scope = scope
    BY <1>2, <2>1 DEF MGShape
  <2>5. MGRowsMade(next, found, k + 1)
    BY <1>2, <1>8, <2>4 DEF MGRowsMade
  <2>6. MGSameConfig(next, found)
    BY <1>2, <2>4 DEF MGSameConfig
  <2>7. /\ db.scope = found.scope /\ db.secret = found.secret /\ db.anytls = MGAnytls(found)
    BY <1>2, <1>8 DEF MGCredentialsMade
  <2>8. MGCredentialsMade(next, found, 4)
    BY <2>4, <2>7 DEF MGCredentialsMade, scope
  <2> QED BY <1>8, <2>3, <2>5, <2>6, <2>8
<1>9. ASSUME k = 4 PROVE Next1
  <2> DEFINE secret == MGSecretMade(db.secret)
  <2>1. next = [db EXCEPT !.ip = "hashed", !.secret = secret]
    <3>1. next = To15(db)
      BY <1>3, <1>9, MGRungFacts
    <3> QED BY <3>1 DEF To15, MGSecretMade
  <2>2. secret \in {"own", "", "made"}
    BY <1>2 DEF MGShape, MGSecretMade
  <2> HIDE DEF secret
  <2>3. next \in MGShape
    BY <1>2, <2>1, <2>2 DEF MGShape
  <2>4. /\ next.refs = db.refs /\ next.tls = db.tls /\ next.kind = db.kind /\ next.trojan = db.trojan
        /\ next.anytls = db.anytls /\ next.scope = db.scope /\ next.ids = db.ids
        /\ next.stored = db.stored /\ next.rule = db.rule /\ next.bound = db.bound
        /\ next.secret = secret /\ next.ip = "hashed"
    BY <1>2, <2>1 DEF MGShape
  <2>5. MGRowsMade(next, found, k + 1)
    BY <1>2, <1>9, <2>4 DEF MGRowsMade
  <2>6. MGSameConfig(next, found)
    BY <1>2, <2>4 DEF MGSameConfig
  <2>7. /\ db.scope = MGScopeMade(found.scope)
        /\ db.secret = found.secret /\ db.anytls = MGAnytls(found)
    BY <1>2, <1>9 DEF MGCredentialsMade
  <2>8. MGCredentialsMade(next, found, 5)
    BY <2>4, <2>7 DEF MGCredentialsMade, secret
  <2> QED BY <1>9, <2>3, <2>5, <2>6, <2>8
<1>10. ASSUME k \in {5, 6} PROVE Next1
  <2>1. next = db
    BY <1>3, <1>10, MGRungFacts
  <2>2. MGRowsMade(next, found, k + 1)
    BY <1>2, <1>10, <2>1 DEF MGRowsMade
  <2>3. MGCredentialsMade(next, found, k + 1)
    <3>1. MGCredentialsMade(db, found, 5) /\ MGCredentialsMade(db, found, 6) => MGCredentialsMade(db, found, 7)
      BY DEF MGCredentialsMade
    <3>2. MGCredentialsMade(db, found, 5) <=> MGCredentialsMade(db, found, 6)
      BY DEF MGCredentialsMade
    <3> QED BY <1>2, <1>10, <2>1, <3>1, <3>2
  <2> QED BY <1>2, <2>1, <2>2, <2>3
<1>11. Next1
  BY <1>1, <1>5, <1>6, <1>7, <1>8, <1>9, <1>10
<1>12. PICK rungs \in Seq(MGLadder) : /\ rungs = Append(db.rungs, rung)
                                      /\ rungs = SubSeq(MGRungs, MGFirstRung(found.version), k + 1)
  <2>1. PICK first \in 1..7 : first = MGFirstRung(found.version) /\ first <= k + 1
    <3>1. MGReached(v) + 1 \in 1..7 /\ MGReached(v) + 1 <= k + 1
      BY <1>0, <1>1
    <3> QED BY <1>0, <3>1 DEF MGFirstRung
  <2>2. k + 1 \in first..Len(MGRungs) /\ first \in 1..Len(MGRungs) /\ (k + 1) - 1 = k
    BY <1>1, <2>1, MGRungFacts
  <2>3. SubSeq(MGRungs, first, k + 1) = SubSeq(MGRungs, first, (k + 1) - 1) \o <<MGRungs[k + 1]>>
    BY <2>2, MGRungFacts, SubSeqRecursiveSecond
  <2>4. db.rungs \in Seq(MGLadder) /\ rung \in MGLadder
    <3>1. db.rungs \in Seq(MGLadder)
      BY <1>2 DEF MGShape
    <3>2. k + 1 \in 1..Len(MGRungs)
      BY <1>1, MGRungFacts
    <3> QED BY <3>1, <3>2, MGRungFacts, ElementOfSeq
  <2>5. db.rungs \o <<rung>> = Append(db.rungs, rung) /\ Append(db.rungs, rung) \in Seq(MGLadder)
    <3> HIDE DEF rung
    <3> QED BY <2>4
  <2> QED BY <1>2, <2>1, <2>2, <2>3, <2>5
<1>13. PICK after : after = MGApply(db, rung)
  OBVIOUS
<1>14. /\ after \in MGShape /\ after.rungs = rungs
       /\ after.refs = next.refs /\ after.tls = next.tls /\ after.kind = next.kind
       /\ after.trojan = next.trojan /\ after.anytls = next.anytls /\ after.scope = next.scope
       /\ after.secret = next.secret /\ after.ip = next.ip /\ after.ids = next.ids
       /\ after.stored = next.stored /\ after.rule = next.rule /\ after.bound = next.bound
  <2>1. after = [next EXCEPT !.rungs = rungs]
    BY <1>4, <1>12, <1>13
  <2>2. next \in MGShape
    BY <1>11
  <2> QED BY <1>12, <2>1, <2>2 DEF MGShape
<1>15. MGSameConfig(after, found) /\ MGRowsMade(after, found, k + 1) /\ MGCredentialsMade(after, found, k + 1)
  BY <1>11, <1>14 DEF MGSameConfig, MGRowsMade, MGCredentialsMade
<1> QED BY <1>12, <1>13, <1>14, <1>15 DEF MGClimbed

-----------------------------------------------------------------------------
(* The start of the process keeps the two databases where the ladder left    *)
(* them.                                                                     *)

\* No rung touches a row without a parent.
LEMMA MGOrphanKept ==
  ASSUME NEW db \in MGShape, NEW rung
  PROVE  MGApply(db, rung).orphan = db.orphan
<1>1. PICK next : next = CASE rung = "1.1" -> To11(db) [] rung = "1.2" -> To12(db) [] rung = "1.3" -> To13(db)
                [] rung = "1.4" -> To14(db) [] rung = "1.5" -> To15(db) [] OTHER -> db
  OBVIOUS
<1>2. MGApply(db, rung) = [next EXCEPT !.rungs = Append(db.rungs, rung)]
  BY <1>1 DEF MGApply
<1>3. next.orphan = db.orphan /\ next \in MGShape
  <2>1. To11(db) \in MGShape /\ To11(db).orphan = db.orphan
    <3>1. To11(db) \in MGShape /\ To11(db) = [db EXCEPT !.columns = "json"]
      BY MGRungOne
    <3>2. [db EXCEPT !.columns = "json"].orphan = db.orphan
      BY DEF MGShape
    <3> QED BY <3>1, <3>2
  <2>2. To12(db) \in MGShape /\ To12(db).orphan = db.orphan
    BY MGRungTwo
  <2>3. To13(db) \in MGShape /\ To13(db).orphan = db.orphan
    <3>1. PICK a \in {"none", "own", "trojan"} : To13(db) = [db EXCEPT !.anytls = a]
      BY DEF To13, MGAnytls, MGShape
    <3> QED BY <3>1 DEF MGShape
  <2>4. To14(db) \in MGShape /\ To14(db).orphan = db.orphan
    <3>1. PICK a \in {"", "full", "read", "admin"} : To14(db) = [db EXCEPT !.scope = a]
      BY DEF To14, MGShape
    <3> QED BY <3>1 DEF MGShape
  <2>5. To15(db) \in MGShape /\ To15(db).orphan = db.orphan
    <3>1. PICK a \in {"own", "", "made"} : To15(db) = [db EXCEPT !.ip = "hashed", !.secret = a]
      BY DEF To15, MGShape
    <3> QED BY <3>1 DEF MGShape
  <2> QED BY <1>1, <2>1, <2>2, <2>3, <2>4, <2>5
<1> QED BY <1>2, <1>3 DEF MGShape

\* A database that is as it was found keeps what is set to what it was.
LEMMA MGUntouchedFacts ==
  ASSUME mgFound \in MGDatabases, NEW db, MGUntouched(db)
  PROVE  /\ db.version = mgFound.version
         /\ MGClimbed(db, mgFound, MGReached(mgFound.version))
         /\ [db EXCEPT !.orphan = MGRepaired(db.orphan)] \in MGShape
         /\ MGUntouched([db EXCEPT !.orphan = MGRepaired(db.orphan)])
<1>1. mgFound \in MGShape /\ MGClimbed(mgFound, mgFound, MGReached(mgFound.version)) /\ db \in MGShape
  BY MGFoundIsClimbed DEF MGUntouched
<1>2. db = mgFound \/ db = [mgFound EXCEPT !.orphan = MGRepaired(mgFound.orphan)]
  BY DEF MGUntouched
<1>3. /\ db.version = mgFound.version /\ db.refs = mgFound.refs /\ db.tls = mgFound.tls
      /\ db.kind = mgFound.kind /\ db.trojan = mgFound.trojan /\ db.rungs = mgFound.rungs
      /\ db.ids = mgFound.ids /\ db.stored = mgFound.stored /\ db.rule = mgFound.rule
      /\ db.bound = mgFound.bound /\ db.anytls = mgFound.anytls /\ db.scope = mgFound.scope
      /\ db.secret = mgFound.secret /\ db.ip = mgFound.ip
  BY <1>1, <1>2 DEF MGShape
<1>4. MGClimbed(db, mgFound, MGReached(mgFound.version))
  <2>1. PICK k : k = MGReached(mgFound.version)
    OBVIOUS
  <2>2. MGSameConfig(db, mgFound)
    BY <1>3 DEF MGSameConfig
  <2>3. MGRowsMade(db, mgFound, k)
    BY <1>1, <1>3, <2>1 DEF MGClimbed, MGRowsMade
  <2>4. MGCredentialsMade(db, mgFound, k)
    BY <1>1, <1>3, <2>1 DEF MGClimbed, MGCredentialsMade
  <2>5. db.rungs = SubSeq(MGRungs, MGFirstRung(mgFound.version), k)
    BY <1>1, <1>3, <2>1 DEF MGClimbed
  <2> QED BY <1>1, <2>1, <2>2, <2>3, <2>4, <2>5 DEF MGClimbed
<1>5. [db EXCEPT !.orphan = MGRepaired(db.orphan)] \in MGShape
  <2>1. PICK o \in MGOrphans : o = MGRepaired(db.orphan)
    BY <1>1 DEF MGShape, MGOrphans, MGRepaired
  <2>2. [db EXCEPT !.orphan = o] \in MGShape
    BY <1>1 DEF MGShape
  <2> QED BY <2>1, <2>2
<1>6. [db EXCEPT !.orphan = MGRepaired(db.orphan)] = [mgFound EXCEPT !.orphan = MGRepaired(mgFound.orphan)]
  <2>1. PICK o \in MGOrphans : o = MGRepaired(mgFound.orphan)
    BY <1>1 DEF MGShape, MGOrphans, MGRepaired
  <2>2. MGRepaired(o) = o
    BY <1>1, <2>1 DEF MGRepaired, MGShape, MGOrphans
  <2>3. CASE db = mgFound
    BY <2>3
  <2>4. CASE db = [mgFound EXCEPT !.orphan = o]
    <3>1. db.orphan = o
      BY <1>1, <2>4 DEF MGShape
    <3>2. [db EXCEPT !.orphan = o] = [mgFound EXCEPT !.orphan = o]
      BY <1>1, <2>4 DEF MGShape
    <3> QED BY <2>1, <2>2, <3>1, <3>2
  <2> QED BY <1>2, <2>1, <2>3, <2>4
<1> QED BY <1>3, <1>4, <1>5, <1>6 DEF MGUntouched

LEMMA MGVersionKept ==
  ASSUME NEW db \in MGShape, NEW v \in MGVersions
  PROVE  /\ [db EXCEPT !.version = v] \in MGShape /\ [db EXCEPT !.version = v].version = v
         /\ db.version = v => [db EXCEPT !.version = v] = db
         /\ \A found, k : MGClimbed(db, found, k) => MGClimbed([db EXCEPT !.version = v], found, k)
<1>1. PICK after : after = [db EXCEPT !.version = v]
  OBVIOUS
<1>2. /\ after \in MGShape /\ after.version = v
      /\ after.refs = db.refs /\ after.tls = db.tls /\ after.kind = db.kind
      /\ after.trojan = db.trojan /\ after.anytls = db.anytls /\ after.scope = db.scope
      /\ after.secret = db.secret /\ after.ip = db.ip /\ after.ids = db.ids /\ after.rungs = db.rungs
      /\ after.stored = db.stored /\ after.rule = db.rule /\ after.bound = db.bound
  BY <1>1 DEF MGShape
<1>3. db.version = v => after = db
  BY <1>1 DEF MGShape
<1>4. ASSUME NEW found, NEW k, MGClimbed(db, found, k) PROVE MGClimbed(after, found, k)
  <2>1. MGSameConfig(after, found) /\ MGRowsMade(after, found, k) /\ MGCredentialsMade(after, found, k)
    BY <1>2, <1>4 DEF MGClimbed, MGSameConfig, MGRowsMade, MGCredentialsMade
  <2> QED BY <1>2, <1>4, <2>1 DEF MGClimbed
<1> QED BY <1>1, <1>2, <1>3, <1>4

LEMMA MGInvInit == MGInit => MGInv
<1> SUFFICES ASSUME MGInit PROVE MGInv
  OBVIOUS
<1>1. mgFound \in MGDatabases /\ mgDb = mgFound /\ mgPhase = "down"
  BY DEF MGInit
<1>2. mgFound \in MGShape
  BY <1>1, MGFoundIsClimbed
<1> QED BY <1>1, <1>2 DEF MGInv, MGDbInv, MGTxInv, MGUntouched

LEMMA MGInvNext == MGInv /\ [MGNext]_mgVars => MGInv'
<1> SUFFICES ASSUME MGInv, [MGNext]_mgVars PROVE MGInv'
  OBVIOUS
<1>0. /\ mgFound \in MGDatabases /\ MGDbInv /\ MGTxInv
      /\ mgPhase \in {"adapt", "up"} => mgDb.version \in {"build", "later"}
  BY DEF MGInv
<1>1. ASSUME NEW command, MGStart(command) PROVE MGInv'
  BY <1>0, <1>1 DEF MGStart, MGInv, MGDbInv, MGTxInv, MGUntouched
<1>2. CASE MGRepair
  <2>2. /\ mgDb' = [mgDb EXCEPT !.orphan = MGRepaired(mgDb.orphan)] /\ mgPhase' = "recheck"
        /\ UNCHANGED mgFound
    BY <1>2 DEF MGRepair
  <2>3. MGDbInv'
    <3>1. CASE MGUntouched(mgDb)
      BY <1>0, <2>2, <3>1, MGUntouchedFacts DEF MGDbInv, MGUntouched
    <3>2. CASE mgDb.version = "build" /\ mgFound.version # "later" /\ MGClimbed(mgDb, mgFound, 7)
      <4>1. mgDb \in MGShape
        BY <3>2 DEF MGClimbed
      <4>2. PICK o \in MGOrphans : o = MGRepaired(mgDb.orphan)
        BY <4>1 DEF MGShape, MGOrphans, MGRepaired
      <4>3. /\ mgDb' \in MGShape /\ mgDb'.version = mgDb.version
            /\ mgDb'.refs = mgDb.refs /\ mgDb'.tls = mgDb.tls /\ mgDb'.kind = mgDb.kind
            /\ mgDb'.trojan = mgDb.trojan /\ mgDb'.anytls = mgDb.anytls /\ mgDb'.scope = mgDb.scope
            /\ mgDb'.secret = mgDb.secret /\ mgDb'.ip = mgDb.ip /\ mgDb'.ids = mgDb.ids
            /\ mgDb'.stored = mgDb.stored /\ mgDb'.rule = mgDb.rule /\ mgDb'.bound = mgDb.bound
            /\ mgDb'.rungs = mgDb.rungs
        BY <2>2, <4>1, <4>2 DEF MGShape
      <4>4. MGSameConfig(mgDb', mgFound) /\ MGRowsMade(mgDb', mgFound, 7) /\ MGCredentialsMade(mgDb', mgFound, 7)
        BY <3>2, <4>3 DEF MGClimbed, MGSameConfig, MGRowsMade, MGCredentialsMade
      <4>5. MGClimbed(mgDb', mgFound, 7)
        BY <3>2, <4>3, <4>4 DEF MGClimbed
      <4> QED BY <2>2, <3>2, <4>3, <4>5 DEF MGDbInv
    <3> QED BY <1>0, <3>1, <3>2 DEF MGDbInv
  <2> QED BY <1>0, <2>2, <2>3 DEF MGInv, MGTxInv
<1>3. CASE MGBegin
  <2>0. UNCHANGED <<mgDb, mgFound>> /\ mgPhase = "open"
    BY <1>3 DEF MGBegin
  <2>1. CASE mgDb.version \in {"build", "later"}
    BY <1>0, <1>3, <2>0, <2>1 DEF MGBegin, MGLadderDone, MGInv, MGDbInv, MGTxInv, MGUntouched
  <2>2. CASE mgDb.version \notin {"build", "later"}
    <3>1. mgPhase' = "ladder" /\ mgTx' = [db |-> mgDb, next |-> MGFirstRung(mgDb.version)]
      BY <1>3, <2>2 DEF MGBegin
    <3>2. MGUntouched(mgDb)
      BY <1>0, <2>2 DEF MGDbInv
    <3>3. mgDb.version = mgFound.version /\ MGClimbed(mgDb, mgFound, MGReached(mgFound.version))
      BY <1>0, <3>2, MGUntouchedFacts
    <3>4. PICK v \in MGVersions : v = mgFound.version
      BY <1>0, MGFoundIsClimbed
    <3>5. MGReached(v) \in {0, 2, 3, 4, 5, 7}
      BY MGReachedFacts
    <3>6. /\ mgTx'.next \in (MGReached(mgFound.version) + 1)..8 /\ mgTx'.db = mgDb
          /\ mgTx'.next - 1 = MGReached(mgFound.version)
      <4>1. mgTx'.next = MGReached(v) + 1 /\ mgTx'.db = mgDb
        BY <3>1, <3>3, <3>4 DEF MGFirstRung
      <4> HIDE DEF MGReached
      <4> QED BY <3>4, <3>5, <4>1
    <3>7. MGTxInv'
      BY <2>0, <2>2, <3>2, <3>3, <3>6 DEF MGTxInv, MGUntouched
    <3> QED BY <1>0, <2>0, <3>1, <3>7 DEF MGInv, MGDbInv, MGUntouched
  <2> QED BY <2>1, <2>2
<1>4. CASE MGRung
  <2>1. /\ mgPhase = "ladder" /\ mgTx.next <= 7 /\ UNCHANGED <<mgDb, mgPhase, mgFound>>
        /\ mgTx' = [db |-> MGApply(mgTx.db, MGRungs[mgTx.next]), next |-> mgTx.next + 1]
    BY <1>4, MGRungFacts DEF MGRung
  <2>2. PICK v \in MGVersions : v = mgFound.version
    BY <1>0, MGFoundIsClimbed
  <2>3. MGReached(v) \in {0, 2, 3, 4, 5, 7}
    BY MGReachedFacts
  <2>4. mgTx.next \in (MGReached(v) + 1)..8 /\ MGClimbed(mgTx.db, mgFound, mgTx.next - 1)
    BY <1>0, <2>1, <2>2 DEF MGTxInv
  <2>5. PICK k \in MGReached(v)..6 : k = mgTx.next - 1 /\ mgTx.next = k + 1
    BY <2>1, <2>3, <2>4
  <2>6. MGClimbed(MGApply(mgTx.db, MGRungs[k + 1]), mgFound, k + 1)
    BY <2>2, <2>4, <2>5, MGRungClimbs
  <2>7. /\ mgTx'.next = k + 2 /\ mgTx'.next - 1 = k + 1 /\ mgTx'.next \in (MGReached(v) + 1)..8
        /\ mgTx'.db = MGApply(mgTx.db, MGRungs[k + 1])
    <3>1. mgTx'.next = (k + 1) + 1 /\ mgTx'.db = MGApply(mgTx.db, MGRungs[k + 1])
      BY <2>1, <2>5
    <3> QED BY <2>3, <2>5, <3>1
  <2>8. MGTxInv'
    BY <1>0, <2>1, <2>2, <2>6, <2>7 DEF MGTxInv, MGUntouched
  <2> QED BY <1>0, <2>1, <2>8 DEF MGInv, MGDbInv, MGUntouched
<1>5. CASE MGCommit
  <2>1. /\ mgPhase = "ladder" /\ mgTx.next > 7 /\ UNCHANGED mgFound /\ mgPhase' \in {"adapt", "down"}
        /\ mgDb' = [mgTx.db EXCEPT !.version = "build"]
    BY <1>5, MGRungFacts DEF MGCommit, MGLadderDone
  <2>2. PICK v \in MGVersions : v = mgFound.version
    BY <1>0, MGFoundIsClimbed
  <2>3. MGReached(v) \in {0, 2, 3, 4, 5, 7}
    BY MGReachedFacts
  <2>4. mgTx.next - 1 = 7 /\ MGClimbed(mgTx.db, mgFound, mgTx.next - 1)
    <3>1. mgTx.next \in (MGReached(v) + 1)..8 /\ MGClimbed(mgTx.db, mgFound, mgTx.next - 1)
      BY <1>0, <2>1, <2>2 DEF MGTxInv
    <3> QED BY <2>1, <2>3, <3>1
  <2>5. mgTx.db \in MGShape /\ "build" \in MGVersions
    BY <2>4 DEF MGClimbed, MGVersions
  <2>6. mgDb'.version = "build" /\ MGClimbed(mgDb', mgFound, 7)
    BY <2>1, <2>4, <2>5, MGVersionKept
  <2>7. mgFound.version # "later"
    BY <1>0, <2>1, MGUntouchedFacts DEF MGTxInv
  <2> QED BY <1>0, <2>1, <2>6, <2>7 DEF MGInv, MGDbInv, MGTxInv
<1>6. CASE MGFail
  BY <1>0, <1>6 DEF MGFail, MGInv, MGDbInv, MGTxInv, MGUntouched
<1>7. CASE MGAdapt
  <2>1. /\ mgDb.version \in {"build", "later"} /\ mgPhase' = "up" /\ UNCHANGED mgFound
        /\ mgDb' = [mgDb EXCEPT !.version = IF @ = "later" THEN "later" ELSE "build"]
    BY <1>0, <1>7 DEF MGAdapt
  <2>2. mgDb \in MGShape
    BY <1>0 DEF MGDbInv, MGUntouched, MGClimbed
  <2>3. mgDb' = mgDb
    <3>1. PICK v \in MGVersions : v = mgDb.version /\ mgDb' = [mgDb EXCEPT !.version = v]
      BY <2>1 DEF MGVersions
    <3> QED BY <2>2, <3>1, MGVersionKept
  <2> QED BY <1>0, <2>1, <2>3 DEF MGInv, MGDbInv, MGTxInv, MGUntouched
<1>8. CASE MGStop
  BY <1>0, <1>8 DEF MGStop, MGInv, MGDbInv, MGTxInv, MGUntouched
<1>9. CASE UNCHANGED mgVars
  BY <1>0, <1>9 DEF mgVars, MGInv, MGDbInv, MGTxInv, MGUntouched
<1>10. CASE MGParent \/ MGCheck \/ MGRecheck
  <2>1. UNCHANGED <<mgDb, mgFound>> /\ mgPhase' \in {"check", "open", "repair", "down"}
    BY <1>10 DEF MGParent, MGCheck, MGRecheck
  <2> QED BY <1>0, <2>1 DEF MGInv, MGDbInv, MGTxInv, MGUntouched
<1> QED BY <1>1, <1>2, <1>3, <1>4, <1>5, <1>6, <1>7, <1>8, <1>9, <1>10 DEF MGNext

LEMMA MGOrphanInit == MGInit => MGOrphanInv
BY DEF MGInit, MGOrphanInv

LEMMA MGOrphanNext == MGInv /\ MGOrphanInv /\ [MGNext]_mgVars => MGOrphanInv'
<1> SUFFICES ASSUME MGInv, MGOrphanInv, [MGNext]_mgVars PROVE MGOrphanInv'
  OBVIOUS
<1>1. ASSUME NEW command, MGStart(command) PROVE MGOrphanInv'
  BY <1>1 DEF MGStart, MGOrphanInv
<1>2. CASE MGRepair
  BY <1>2 DEF MGRepair, MGOrphanInv
<1>3. CASE MGParent \/ MGCheck \/ MGRecheck
  BY <1>3 DEF MGParent, MGCheck, MGRecheck, MGOrphanInv
<1>4. CASE MGBegin
  BY <1>4 DEF MGBegin, MGLadderDone, MGOrphanInv
<1>5. CASE MGRung
  <2>1. mgTx.db \in MGShape /\ mgTx.db.orphan = mgDb.orphan
    BY <1>5 DEF MGRung, MGInv, MGTxInv, MGClimbed, MGOrphanInv
  <2>2. MGApply(mgTx.db, MGRungs[mgTx.next]).orphan = mgDb.orphan
    BY <2>1, MGOrphanKept
  <2>3. mgTx'.db = MGApply(mgTx.db, MGRungs[mgTx.next])
    BY <1>5 DEF MGRung
  <2> QED BY <1>5, <2>2, <2>3 DEF MGRung, MGOrphanInv
<1>6. CASE MGCommit
  <2>1. mgTx.db \in MGShape /\ mgTx.db.orphan = mgDb.orphan
    BY <1>6 DEF MGCommit, MGInv, MGTxInv, MGClimbed, MGOrphanInv
  <2>2. mgDb'.orphan = mgDb.orphan
    BY <1>6, <2>1 DEF MGCommit, MGShape
  <2> QED BY <1>6, <2>2 DEF MGCommit, MGLadderDone, MGOrphanInv
<1>7. CASE MGFail \/ MGStop
  BY <1>7 DEF MGFail, MGStop, MGOrphanInv
<1>8. CASE MGAdapt
  <2>1. mgDb \in MGShape
    BY DEF MGInv, MGDbInv, MGUntouched, MGClimbed
  <2>2. mgDb'.orphan = mgDb.orphan
    BY <1>8, <2>1 DEF MGAdapt, MGShape
  <2> QED BY <1>8, <2>2 DEF MGAdapt, MGOrphanInv
<1>9. CASE UNCHANGED mgVars
  BY <1>9 DEF mgVars, MGOrphanInv
<1> QED BY <1>1, <1>2, <1>3, <1>4, <1>5, <1>6, <1>7, <1>8, <1>9 DEF MGNext

\* An upgrade is complete, keeps what it upgrades, and changes no row of the ladder
\* when it fails (cmd/migration, database/adapt.go), for any number of failures and
\* starts of the panel or of the command; a failed start leaves only the TLS row 0
\* and audit events, and removes an orphaned token only when it is asked to.
THEOREM UpgradesAreSafe == MGSpec => []MGUpgradeIsSafe
<1>1. MGInv /\ MGOrphanInv => MGUpgradeIsSafe
  <2> SUFFICES ASSUME MGInv, MGOrphanInv PROVE MGUpgradeIsSafe
    OBVIOUS
  <2>1. mgFound \in MGDatabases /\ MGDbInv
    BY DEF MGInv
  <2>2. mgFound.version \in MGVersions \ {"build"}
    BY <2>1, MGFoundIsClimbed
  <2>3. ASSUME mgPhase = "up" PROVE MGClimbed(mgDb, mgFound, 7)
    <3>1. mgDb.version \in {"build", "later"}
      BY <2>3 DEF MGInv
    <3>2. CASE mgDb.version = "build"
      BY <2>1, <2>2, <3>2, MGUntouchedFacts DEF MGDbInv
    <3>3. CASE mgDb.version = "later"
      <4>1. MGUntouched(mgDb)
        BY <2>1, <3>3 DEF MGDbInv
      <4>2. mgFound.version = "later" /\ MGClimbed(mgDb, mgFound, MGReached(mgFound.version))
        BY <2>1, <3>3, <4>1, MGUntouchedFacts
      <4>3. MGReached(mgFound.version) = 7
        BY <4>2 DEF MGReached
      <4> QED BY <4>2, <4>3
    <3> QED BY <3>1, <3>2, <3>3
  <2>4. MGEveryRungOnce
    BY <2>3, MGRungFacts DEF MGEveryRungOnce, MGClimbed
  <2>5. MGMeaningKept
    <3> SUFFICES ASSUME mgPhase = "up" PROVE MGMeaningKept
      BY DEF MGMeaningKept
    <3>1. MGClimbed(mgDb, mgFound, 7) /\ mgDb \in MGShape
      BY <2>3 DEF MGClimbed
    <3>2. /\ mgDb.ids = {i \in 1..2 : MGTags[i] \in mgFound.refs}
          /\ (mgDb.stored = "action") <=> (mgDb.rule # "route")
          /\ mgFound.version = "none" =>
               mgDb.bound = <<MGBoundTo(mgFound, MGTags[1]), MGBoundTo(mgFound, MGTags[2])>>
      BY <3>1 DEF MGClimbed, MGRowsMade
    <3>3. /\ mgDb.anytls = MGAnytls(mgFound)
          /\ mgDb.scope = IF mgFound.scope \in {"", "full"} THEN "admin" ELSE mgFound.scope
          /\ mgDb.secret = IF mgFound.secret = "" THEN "made" ELSE mgFound.secret
          /\ mgDb.ip = "hashed"
      <4>1. MGCredentialsMade(mgDb, mgFound, 7)
        BY <3>1 DEF MGClimbed
      <4>2. /\ mgDb.anytls = MGAnytls(mgFound) /\ mgDb.scope = MGScopeMade(mgFound.scope)
            /\ mgDb.secret = MGSecretMade(mgFound.secret) /\ mgDb.ip = "hashed"
        BY <4>1 DEF MGCredentialsMade
      <4> QED BY <4>2 DEF MGScopeMade, MGSecretMade
    <3>4. ASSUME mgFound.version = "none", NEW i \in 1..2,
                 MGOwnRows(mgFound, MGTags[i]) # {}, MGUnambiguous(mgFound, MGTags[i])
          PROVE  mgDb.bound[i] \in MGOwnRows(mgFound, MGTags[i])
      <4>1. PICK tag : tag = MGTags[i]
        OBVIOUS
      <4>2. mgDb.bound[i] = MGBoundTo(mgFound, tag)
        BY <3>2, <3>4, <4>1
      <4>3. MGBoundTo(mgFound, tag) \in MGOwnRows(mgFound, tag)
        <5> DEFINE rows == {r \in 1..2 : \E known \in mgFound.tls[r] : MGLike(known, tag)}
        <5>1. rows = MGOwnRows(mgFound, tag)
          BY <3>4, <4>1 DEF MGOwnRows, MGUnambiguous, MGLike
        <5>2. rows # {} /\ rows \in SUBSET (1..2)
          BY <3>4, <4>1, <5>1
        <5>3. \E r \in rows : \A s \in rows : s <= r
          <6> HIDE DEF rows
          <6>1. CASE 2 \in rows
            BY <5>2, <6>1
          <6>2. CASE 2 \notin rows
            <7>1. \A r \in rows : r = 1
              <8>1. \A r \in 1..2 : r = 1 \/ r = 2
                OBVIOUS
              <8>2. \A r \in rows : r \in 1..2
                BY <5>2
              <8> QED BY <6>2, <8>1, <8>2
            <7>2. PICK r \in rows : TRUE
              BY <5>2
            <7>3. r = 1
              BY <7>1
            <7>4. \A q \in rows : q <= r
              BY <7>1, <7>3
            <7> QED BY <7>4
          <6> QED BY <6>1, <6>2
        <5>4. MGBoundTo(mgFound, tag) = CHOOSE r \in rows : \A s \in rows : s <= r
          BY <5>2 DEF MGBoundTo
        <5> HIDE DEF rows
        <5> QED BY <5>1, <5>3, <5>4
      <4> QED BY <4>1, <4>2, <4>3
    <3>5. (mgFound.secret # "" => mgDb.secret = mgFound.secret) /\ mgDb.secret # ""
      BY <3>3
    <3>6. mgFound.version = "later" => mgDb.version = "later"
      <4>1. MGUntouched(mgDb) => mgDb.version = mgFound.version
        BY <2>1, MGUntouchedFacts
      <4> QED BY <2>1, <4>1 DEF MGDbInv
    <3> QED BY <3>2, <3>3, <3>4, <3>5, <3>6 DEF MGMeaningKept
  <2>6. MGFailureChangesNothing
    BY <2>1, <2>2 DEF MGDbInv, MGUntouched, MGOrphanInv, MGFailureChangesNothing
  <2> QED BY <2>4, <2>5, <2>6 DEF MGUpgradeIsSafe
<1> QED BY MGInvInit, MGInvNext, MGOrphanInit, MGOrphanNext, <1>1, PTL DEF MGSpec

-----------------------------------------------------------------------------
(* The import.  Two imports at once take each other's fallback away, so    *)
(* what follows is about one at a time; failures and crashes are any.      *)

DIOneAtATime == \A i, j \in Importers : i = j

\* Before the live database is touched, and while its own copy is elsewhere.
DIBefore == {"idle", "clean", "stage", "validate", "close"}
DISwapped == {"install", "migrate", "open", "caches", "rollback", "restore"}

\* What the files hold at each stage, whatever happened before.
DIFilesAt(stage) ==
    /\ stage \in {"stage", "validate", "close", "aside"} => diFallback = DINothing
    /\ stage \in {"install", "restore"} => diLive = DINothing
    /\ stage = "caches" => diLive # DINothing
    /\ stage = "drop" => diLive = diData

\* Where the data in force is, as long as the process lives and no way back failed.
DIDataAt(stage, ready) ==
    /\ stage \in DIBefore => diHandle = diData /\ diLive = diData
    /\ stage \in {"aside", "reopen"} => diLive = diData
    /\ stage \in DISwapped => diFallback = diData /\ ready
    /\ stage \in {"caches", "drop"} => diHandle = diLive

DIFilesOK ==
    /\ {diLive, diFallback, diTemp, diHandle, diData} \subseteq DIContents
    /\ diStage \in [Importers -> DIStages]
    /\ diUpload \in [Importers -> DIUploads \cup {DINothing}]
    /\ diReady \in [Importers -> BOOLEAN]

DIInv ==
    /\ DIFilesOK
    /\ diCrashes \in Nat /\ diData # DINothing
    /\ diCrashes = 0 => diUp
    /\ diCrashes = 0 /\ ~diBroken /\ (\A i \in Importers : diStage[i] = "idle") =>
           diHandle = diData /\ diLive = diData
    /\ \A i \in Importers :
          /\ ~diUp => diStage[i] = "idle"
          /\ DIFilesAt(diStage[i])
          /\ diCrashes = 0 /\ ~diBroken => DIDataAt(diStage[i], diReady[i])

\* A step of the one import that runs keeps the invariant if it does for that import.
LEMMA DIStepInv ==
    ASSUME DIOneAtATime, DIInv, NEW i \in Importers, DIFilesOK', diUp,
           diData' # DINothing, UNCHANGED <<diUp, diCrashes>>,
           DIFilesAt(diStage[i])',
           diCrashes = 0 /\ ~diBroken' => DIDataAt(diStage[i], diReady[i])'
    PROVE  DIInv'
<1>1. \A j \in Importers : j = i
  BY DEF DIOneAtATime
<1>2. diCrashes' = 0 /\ ~diBroken' /\ (\A j \in Importers : diStage'[j] = "idle") =>
        diHandle' = diData' /\ diLive' = diData'
  BY DEF DIDataAt, DIBefore
<1> QED BY <1>1, <1>2 DEF DIInv

\* Every step of an import keeps it.
LEMMA DIImportInv ==
    ASSUME DIOneAtATime, DIInv, NEW i \in Importers, DIBegin(i) \/ DIStep(i)
    PROVE  DIInv' /\ (DIOnDisk(diData) /\ ~DIOnDisk(diData)' => DIAt(i, "clean"))
<1>0. /\ {diLive, diFallback, diTemp, diHandle, diData} \subseteq DIContents
      /\ diStage \in [Importers -> DIStages] /\ diUpload \in [Importers -> DIUploads \cup {DINothing}]
      /\ diReady \in [Importers -> BOOLEAN] /\ diCrashes \in Nat /\ diData # DINothing
      /\ DIFilesAt(diStage[i])
      /\ diCrashes = 0 /\ ~diBroken => DIDataAt(diStage[i], diReady[i])
      /\ \A j \in Importers : j = i
  BY DEF DIInv, DIFilesOK, DIOneAtATime
<1> DEFINE trial == {"migrate", "open", "caches", "rollback"}
           kept == DIOnDisk(diData) /\ ~DIOnDisk(diData)' => DIAt(i, "clean")
<1>a. /\ DIOnDisk(diData) <=> (diData = diFallback \/ (diData = diLive /\ diStage[i] \notin trial))
      /\ DIOnDisk(diData)' <=> (diData' = diFallback' \/ (diData' = diLive' /\ diStage'[i] \notin trial))
  BY <1>0 DEF DIOnDisk, DIOnTrial
<1> HIDE DEF kept
<1>b. ASSUME NEW s, DIGo(i, s), s \in DIStages
      PROVE  diStage' \in [Importers -> DIStages] /\ diStage'[i] = s
  BY <1>0, <1>b DEF DIGo
<1>1. CASE DIBegin(i)
  <2>1. DIFilesOK' /\ diUp /\ UNCHANGED <<diUp, diCrashes>> /\ diData' # DINothing
    BY <1>0, <1>b, <1>1 DEF DIBegin, DIAt, DIFilesOK, DIContents, DIUploads, DIStages, DIFilesAt, diFiles, diCounts, DINothing
  <2>2. DIFilesAt(diStage[i])' /\ (diCrashes = 0 /\ ~diBroken' => DIDataAt(diStage[i], diReady[i])')
    BY <1>0, <1>b, <1>1 DEF DIBegin, DIAt, DIFilesAt, DIDataAt, DIBefore, DISwapped, DIStages, diFiles, diCounts, DINothing
  <2>3. kept
    BY <1>0, <1>a, <1>b, <1>1 DEF kept, DIBegin, DIAt, DIFilesAt, DIStages, diFiles, diCounts, DINothing
  <2> QED BY <2>1, <2>2, <2>3, DIStepInv DEF kept
<1>2. CASE DIClean(i)
  <2>1. DIFilesOK' /\ diUp /\ UNCHANGED <<diUp, diCrashes>> /\ diData' # DINothing
    BY <1>0, <1>b, <1>2 DEF DIClean, DIAt, DIFilesOK, DIContents, DIUploads, DIStages, DIFilesAt, diFiles, diCounts, DINothing
  <2>2. DIFilesAt(diStage[i])' /\ (diCrashes = 0 /\ ~diBroken' => DIDataAt(diStage[i], diReady[i])')
    BY <1>0, <1>b, <1>2 DEF DIClean, DIAt, DIFilesAt, DIDataAt, DIBefore, DISwapped, DIStages, diFiles, diCounts, DINothing
  <2>3. kept
    BY <1>0, <1>a, <1>b, <1>2 DEF kept, DIClean, DIAt, DIFilesAt, DIStages, diFiles, diCounts, DINothing
  <2> QED BY <2>1, <2>2, <2>3, DIStepInv DEF kept
<1>3. CASE DIStage(i)
  <2>1. DIFilesOK' /\ diUp /\ UNCHANGED <<diUp, diCrashes>> /\ diData' # DINothing
    BY <1>0, <1>b, <1>3 DEF DIStage, DIAt, DIFilesOK, DIContents, DIUploads, DIStages, DIFilesAt, diFiles, diCounts, DINothing
  <2>2. DIFilesAt(diStage[i])' /\ (diCrashes = 0 /\ ~diBroken' => DIDataAt(diStage[i], diReady[i])')
    BY <1>0, <1>b, <1>3 DEF DIStage, DIAt, DIFilesAt, DIDataAt, DIBefore, DISwapped, DIStages, diFiles, diCounts, DINothing
  <2>3. kept
    BY <1>0, <1>a, <1>b, <1>3 DEF kept, DIStage, DIAt, DIFilesAt, DIStages, diFiles, diCounts, DINothing
  <2> QED BY <2>1, <2>2, <2>3, DIStepInv DEF kept
<1>4. CASE DIValidate(i)
  <2>1. DIFilesOK' /\ diUp /\ UNCHANGED <<diUp, diCrashes>> /\ diData' # DINothing
    BY <1>0, <1>b, <1>4 DEF DIValidate, DIAt, DIFilesOK, DIContents, DIUploads, DIStages, DIFilesAt, diFiles, diCounts, DINothing
  <2>2. DIFilesAt(diStage[i])' /\ (diCrashes = 0 /\ ~diBroken' => DIDataAt(diStage[i], diReady[i])')
    BY <1>0, <1>b, <1>4 DEF DIValidate, DIAt, DIFilesAt, DIDataAt, DIBefore, DISwapped, DIStages, diFiles, diCounts, DINothing
  <2>3. kept
    BY <1>0, <1>a, <1>b, <1>4 DEF kept, DIValidate, DIAt, DIFilesAt, DIStages, diFiles, diCounts, DINothing
  <2> QED BY <2>1, <2>2, <2>3, DIStepInv DEF kept
<1>5. CASE DIClose(i)
  <2>1. DIFilesOK' /\ diUp /\ UNCHANGED <<diUp, diCrashes>> /\ diData' # DINothing
    BY <1>0, <1>b, <1>5 DEF DIClose, DIAt, DIFilesOK, DIContents, DIUploads, DIStages, DIFilesAt, diFiles, diCounts, DINothing
  <2>2. DIFilesAt(diStage[i])' /\ (diCrashes = 0 /\ ~diBroken' => DIDataAt(diStage[i], diReady[i])')
    BY <1>0, <1>b, <1>5 DEF DIClose, DIAt, DIFilesAt, DIDataAt, DIBefore, DISwapped, DIStages, diFiles, diCounts, DINothing
  <2>3. kept
    BY <1>0, <1>a, <1>b, <1>5 DEF kept, DIClose, DIAt, DIFilesAt, DIStages, diFiles, diCounts, DINothing
  <2> QED BY <2>1, <2>2, <2>3, DIStepInv DEF kept
<1>6. CASE DIAside(i)
  <2>1. DIFilesOK' /\ diUp /\ UNCHANGED <<diUp, diCrashes>> /\ diData' # DINothing
    BY <1>0, <1>b, <1>6 DEF DIAside, DIAt, DIFilesOK, DIContents, DIUploads, DIStages, DIFilesAt, diFiles, diCounts, DINothing
  <2>2. DIFilesAt(diStage[i])' /\ (diCrashes = 0 /\ ~diBroken' => DIDataAt(diStage[i], diReady[i])')
    BY <1>0, <1>b, <1>6 DEF DIAside, DIAt, DIFilesAt, DIDataAt, DIBefore, DISwapped, DIStages, diFiles, diCounts, DINothing
  <2>3. kept
    BY <1>0, <1>a, <1>b, <1>6 DEF kept, DIAside, DIAt, DIFilesAt, DIStages, diFiles, diCounts, DINothing
  <2> QED BY <2>1, <2>2, <2>3, DIStepInv DEF kept
<1>7. CASE DIInstall(i)
  <2>1. DIFilesOK' /\ diUp /\ UNCHANGED <<diUp, diCrashes>> /\ diData' # DINothing
    BY <1>0, <1>b, <1>7 DEF DIInstall, DIAt, DIFilesOK, DIContents, DIUploads, DIStages, DIFilesAt, diFiles, diCounts, DINothing
  <2>2. DIFilesAt(diStage[i])' /\ (diCrashes = 0 /\ ~diBroken' => DIDataAt(diStage[i], diReady[i])')
    BY <1>0, <1>b, <1>7 DEF DIInstall, DIAt, DIFilesAt, DIDataAt, DIBefore, DISwapped, DIStages, diFiles, diCounts, DINothing
  <2>3. kept
    BY <1>0, <1>a, <1>b, <1>7 DEF kept, DIInstall, DIAt, DIFilesAt, DIStages, diFiles, diCounts, DINothing
  <2> QED BY <2>1, <2>2, <2>3, DIStepInv DEF kept
<1>8. CASE DIMigrate(i)
  <2>1. DIFilesOK' /\ diUp /\ UNCHANGED <<diUp, diCrashes>> /\ diData' # DINothing
    BY <1>0, <1>b, <1>8 DEF DIMigrate, DIAt, DIFilesOK, DIContents, DIUploads, DIStages, DIFilesAt, diFiles, diCounts, DINothing, DIMigrates
  <2>2. DIFilesAt(diStage[i])' /\ (diCrashes = 0 /\ ~diBroken' => DIDataAt(diStage[i], diReady[i])')
    BY <1>0, <1>b, <1>8 DEF DIMigrate, DIAt, DIFilesAt, DIDataAt, DIBefore, DISwapped, DIStages, diFiles, diCounts, DINothing, DIMigrates
  <2>3. kept
    BY <1>0, <1>a, <1>b, <1>8 DEF kept, DIMigrate, DIAt, DIFilesAt, DIStages, diFiles, diCounts, DINothing, DIMigrates
  <2> QED BY <2>1, <2>2, <2>3, DIStepInv DEF kept
<1>9. CASE DIOpen(i)
  <2>1. DIFilesOK' /\ diUp /\ UNCHANGED <<diUp, diCrashes>> /\ diData' # DINothing
    BY <1>0, <1>b, <1>9 DEF DIOpen, DIAt, DIFilesOK, DIContents, DIUploads, DIStages, DIFilesAt, diFiles, diCounts, DINothing, DIOpens, DIInitDB
  <2>2. DIFilesAt(diStage[i])' /\ (diCrashes = 0 /\ ~diBroken' => DIDataAt(diStage[i], diReady[i])')
    BY <1>0, <1>b, <1>9 DEF DIOpen, DIAt, DIFilesAt, DIDataAt, DIBefore, DISwapped, DIStages, diFiles, diCounts, DINothing, DIOpens, DIInitDB
  <2>3. kept
    BY <1>0, <1>a, <1>b, <1>9 DEF kept, DIOpen, DIAt, DIFilesAt, DIStages, diFiles, diCounts, DINothing, DIOpens, DIInitDB
  <2> QED BY <2>1, <2>2, <2>3, DIStepInv DEF kept
<1>10. CASE DICaches(i)
  <2>1. DIFilesOK' /\ diUp /\ UNCHANGED <<diUp, diCrashes>> /\ diData' # DINothing
    BY <1>0, <1>b, <1>10 DEF DICaches, DIAt, DIFilesOK, DIContents, DIUploads, DIStages, DIFilesAt, diFiles, diCounts, DINothing
  <2>2. DIFilesAt(diStage[i])' /\ (diCrashes = 0 /\ ~diBroken' => DIDataAt(diStage[i], diReady[i])')
    BY <1>0, <1>b, <1>10 DEF DICaches, DIAt, DIFilesAt, DIDataAt, DIBefore, DISwapped, DIStages, diFiles, diCounts, DINothing
  <2>3. kept
    BY <1>0, <1>a, <1>b, <1>10 DEF kept, DICaches, DIAt, DIFilesAt, DIStages, diFiles, diCounts, DINothing
  <2> QED BY <2>1, <2>2, <2>3, DIStepInv DEF kept
<1>11. CASE DIDrop(i)
  <2>1. DIFilesOK' /\ diUp /\ UNCHANGED <<diUp, diCrashes>> /\ diData' # DINothing
    BY <1>0, <1>b, <1>11 DEF DIDrop, DIAt, DIFilesOK, DIContents, DIUploads, DIStages, DIFilesAt, diFiles, diCounts, DINothing
  <2>2. DIFilesAt(diStage[i])' /\ (diCrashes = 0 /\ ~diBroken' => DIDataAt(diStage[i], diReady[i])')
    BY <1>0, <1>b, <1>11 DEF DIDrop, DIAt, DIFilesAt, DIDataAt, DIBefore, DISwapped, DIStages, diFiles, diCounts, DINothing
  <2>3. kept
    BY <1>0, <1>a, <1>b, <1>11 DEF kept, DIDrop, DIAt, DIFilesAt, DIStages, diFiles, diCounts, DINothing
  <2> QED BY <2>1, <2>2, <2>3, DIStepInv DEF kept
<1>12. CASE DIRollback(i)
  <2>1. DIFilesOK' /\ diUp /\ UNCHANGED <<diUp, diCrashes>> /\ diData' # DINothing
    BY <1>0, <1>b, <1>12 DEF DIRollback, DIAt, DIFilesOK, DIContents, DIUploads, DIStages, DIFilesAt, diFiles, diCounts, DINothing
  <2>2. DIFilesAt(diStage[i])' /\ (diCrashes = 0 /\ ~diBroken' => DIDataAt(diStage[i], diReady[i])')
    BY <1>0, <1>b, <1>12 DEF DIRollback, DIAt, DIFilesAt, DIDataAt, DIBefore, DISwapped, DIStages, diFiles, diCounts, DINothing
  <2>3. kept
    BY <1>0, <1>a, <1>b, <1>12 DEF kept, DIRollback, DIAt, DIFilesAt, DIStages, diFiles, diCounts, DINothing
  <2> QED BY <2>1, <2>2, <2>3, DIStepInv DEF kept
<1>13. CASE DIRestore(i)
  <2>1. DIFilesOK' /\ diUp /\ UNCHANGED <<diUp, diCrashes>> /\ diData' # DINothing
    BY <1>0, <1>b, <1>13 DEF DIRestore, DIAt, DIFilesOK, DIContents, DIUploads, DIStages, DIFilesAt, diFiles, diCounts, DINothing
  <2>2. DIFilesAt(diStage[i])' /\ (diCrashes = 0 /\ ~diBroken' => DIDataAt(diStage[i], diReady[i])')
    BY <1>0, <1>b, <1>13 DEF DIRestore, DIAt, DIFilesAt, DIDataAt, DIBefore, DISwapped, DIStages, diFiles, diCounts, DINothing
  <2>3. kept
    BY <1>0, <1>a, <1>b, <1>13 DEF kept, DIRestore, DIAt, DIFilesAt, DIStages, diFiles, diCounts, DINothing
  <2> QED BY <2>1, <2>2, <2>3, DIStepInv DEF kept
<1>14. CASE DIReopen(i)
  <2>1. DIFilesOK' /\ diUp /\ UNCHANGED <<diUp, diCrashes>> /\ diData' # DINothing
    BY <1>0, <1>b, <1>14 DEF DIReopen, DIAt, DIFilesOK, DIContents, DIUploads, DIStages, DIFilesAt, diFiles, diCounts, DINothing, DIOpens, DIInitDB
  <2>2. DIFilesAt(diStage[i])' /\ (diCrashes = 0 /\ ~diBroken' => DIDataAt(diStage[i], diReady[i])')
    BY <1>0, <1>b, <1>14 DEF DIReopen, DIAt, DIFilesAt, DIDataAt, DIBefore, DISwapped, DIStages, diFiles, diCounts, DINothing, DIOpens, DIInitDB
  <2>3. kept
    BY <1>0, <1>a, <1>b, <1>14 DEF kept, DIReopen, DIAt, DIFilesAt, DIStages, diFiles, diCounts, DINothing, DIOpens, DIInitDB
  <2> QED BY <2>1, <2>2, <2>3, DIStepInv DEF kept
<1> QED BY <1>1, <1>2, <1>3, <1>4, <1>5, <1>6, <1>7, <1>8, <1>9, <1>10, <1>11, <1>12, <1>13, <1>14 DEF DIStep

\* So do a crash and what a start makes of the files.
LEMMA DIProcessInv ==
    ASSUME DIInv,
           DIUse \/ DIWrite \/ DIRelease \/ DICrash \/ DIBoot \/ DIBootFails \/ UNCHANGED diVars
    PROVE  DIInv' /\ (DIOnDisk(diData) => DIOnDisk(diData)')
<1>0. /\ {diLive, diFallback, diTemp, diHandle, diData} \subseteq DIContents
      /\ diStage \in [Importers -> DIStages] /\ diUpload \in [Importers -> DIUploads \cup {DINothing}]
      /\ diReady \in [Importers -> BOOLEAN] /\ diCrashes \in Nat /\ diData # DINothing
      /\ diCrashes = 0 => diUp
      /\ ~diUp => \A i \in Importers : diStage[i] = "idle"
  BY DEF DIInv, DIFilesOK
<1>1. CASE DICrash
  <2>1. diCrashes' \in Nat /\ diCrashes' # 0 /\ ~diUp' /\ \A i \in Importers : diStage'[i] = "idle"
    BY <1>0, <1>1 DEF DICrash
  <2>2. DIFilesOK' /\ diData' # DINothing
    BY <1>0, <1>1 DEF DICrash, DIFilesOK, DIContents, DIStages, diFiles
  <2>3. DIInv'
    BY <2>1, <2>2 DEF DIInv, DIFilesAt
  <2>4. DIOnDisk(diData) => DIOnDisk(diData)'
    BY <1>1, <2>1 DEF DICrash, DIOnDisk, DIOnTrial, diFiles
  <2> QED BY <2>3, <2>4
<1>2. CASE DIBoot
  <2>1. /\ ~diUp /\ diCrashes # 0 /\ diCrashes' \in Nat /\ diCrashes' # 0
        /\ UNCHANGED <<diFallback, diTemp, diStage, diUpload, diReady, diData>>
        /\ \A i \in Importers : diStage'[i] = "idle"
    BY <1>0, <1>2 DEF DIBoot
  <2>2. DIFilesOK' /\ diData' # DINothing
    BY <1>0, <1>2 DEF DIBoot, DIFilesOK, DIContents, DIUploads, DIInitDB, DINothing
  <2>3. DIInv'
    BY <2>1, <2>2 DEF DIInv, DIFilesAt
  <2>4. DIOnDisk(diData) => DIOnDisk(diData)'
    BY <1>0, <1>2, <2>1 DEF DIBoot, DIInitDB, DIOnDisk, DIOnTrial
  <2> QED BY <2>3, <2>4
<1>3. CASE UNCHANGED <<diFiles, diHandle, diStage, diUpload, diReady, diData, diBroken, diUp, diCounts>>
  BY <1>3 DEF diFiles, diCounts, DIInv, DIFilesOK, DIFilesAt, DIDataAt, DIOnDisk, DIOnTrial
<1> QED BY <1>1, <1>2, <1>3 DEF DIBootFails, DIUse, DIWrite, DIRelease, diVars, diFiles, diCounts

\* Where the rows committed last are, at each stage.
DILives == {"idle", "clean", "stage", "validate", "close", "aside", "reopen", "drop"}
DIRowsAt(stage) ==
    /\ stage \in {"clean", "stage", "validate", "close"} => diHandle # DINothing
    /\ stage \in {"aside", "install", "migrate", "open", "restore", "reopen"} => diHandle = DINothing
    /\ stage = "aside" /\ "wal" \in diRows => diBusy = "current"
    /\ stage = "drop" => "fallback" \notin diRows
    /\ stage \in DISwapped /\ diCrashes = 0 /\ ~diBroken /\ diCommitted /\ ~diInUse
         => "fallback" \in diRows

\* The rows go with the file or the log that holds them, whoever uses it.
DIRowsWithFiles ==
    /\ diRows \subseteq {"wal", "live", "fallback"} /\ diBusy \in {"no", "current", "moved", "gone"}
    /\ diCommitted \in BOOLEAN /\ diInUse \in BOOLEAN
    /\ diHandle # DINothing \/ diBusy = "current" => diLive # DINothing
    /\ diLive = DINothing => "live" \notin diRows /\ ("wal" \in diRows => diInUse)
    /\ diFallback = DINothing => "fallback" \notin diRows
    /\ diBusy = "moved" => diInUse

DIRowsInv ==
    /\ DIRowsWithFiles
    /\ \A i \in Importers : DIRowsAt(diStage[i])
    /\ (\A i \in Importers : diStage[i] \in DILives) /\ diCrashes = 0 /\ ~diBroken
         /\ diCommitted /\ ~diInUse => diRows \cap {"wal", "live"} # {}

DIRowsKept == diCommitted /\ diCommitted' /\ DIRowsOnDisk /\ ~DIRowsOnDisk'
                => diInUse' \/ \E i \in Importers : DIAt(i, "clean")

\* Every step of an import keeps them, or moves their file under a connection in use.
LEMMA DIImportRows ==
    ASSUME DIOneAtATime, DIInv, DIRowsInv, NEW i \in Importers, DIBegin(i) \/ DIStep(i)
    PROVE  DIRowsInv' /\ DIRowsKept
<1>0. /\ diStage \in [Importers -> DIStages] /\ diReady \in [Importers -> BOOLEAN]
      /\ diCrashes \in Nat /\ diData # DINothing
      /\ DIFilesAt(diStage[i]) /\ DIRowsAt(diStage[i]) /\ DIRowsWithFiles
      /\ diCrashes = 0 /\ ~diBroken => DIDataAt(diStage[i], diReady[i])
      /\ diStage[i] \in DILives /\ diCrashes = 0 /\ ~diBroken /\ diCommitted /\ ~diInUse
           => diRows \cap {"wal", "live"} # {}
      /\ \A j \in Importers : j = i
  BY DEF DIInv, DIFilesOK, DIOneAtATime, DIRowsInv
<1> DEFINE trial == {"migrate", "open", "caches", "rollback"}
           disk == "fallback" \in diRows \/ (diRows # {} /\ diStage[i] \notin trial)
           kept == diCommitted /\ diCommitted' /\ disk /\ ~disk' => diInUse' \/ diStage[i] = "clean"
           alive == diStage[i] \in DILives /\ diCrashes = 0 /\ ~diBroken /\ diCommitted /\ ~diInUse
                      => diRows \cap {"wal", "live"} # {}
           goal == DIRowsWithFiles' /\ DIRowsAt(diStage[i])' /\ alive' /\ kept
<1>a. diUp /\ goal => DIRowsInv' /\ DIRowsKept
  BY <1>0 DEF DIRowsInv, DIRowsKept, DIRowsOnDisk, DIOnTrial, DIAt
<1>b. ASSUME NEW s, DIGo(i, s), s \in DIStages
      PROVE  diStage'[i] = s
  BY <1>0, <1>b DEF DIGo
<1>1. CASE DIBegin(i)
  <2>1. diUp
    BY <1>1 DEF DIBegin, DIAt
  <2>2. DIRowsWithFiles'
    BY <1>0, <1>b, <1>1 DEF DIRowsWithFiles, DIRowsAt, DIFilesAt, DIBegin, DIAt, DIStages, DISwapped, DIBefore, DILives, diFiles, diCounts, diRowVars, DINothing
  <2>3. DIRowsAt(diStage[i])'
    BY <1>0, <1>b, <1>1 DEF DIRowsWithFiles, DIRowsAt, DIFilesAt, DIDataAt, DIBegin, DIAt, DIStages, DISwapped, DIBefore, DILives, diFiles, diCounts, diRowVars, DINothing
  <2>4. alive'
    BY <1>0, <1>b, <1>1 DEF DIRowsWithFiles, DIRowsAt, DIFilesAt, DIDataAt, DIBegin, DIAt, DIStages, DISwapped, DIBefore, DILives, diFiles, diCounts, diRowVars, DINothing
  <2>5. kept
    BY <1>0, <1>b, <1>1 DEF DIRowsWithFiles, DIRowsAt, DIFilesAt, DIBegin, DIAt, DIStages, DISwapped, DIBefore, DILives, diFiles, diCounts, diRowVars, DINothing
  <2> QED BY <1>a, <2>1, <2>2, <2>3, <2>4, <2>5
<1>2. CASE DIClean(i)
  <2>1. diUp
    BY <1>2 DEF DIClean, DIAt
  <2>2. DIRowsWithFiles'
    BY <1>0, <1>b, <1>2 DEF DIRowsWithFiles, DIRowsAt, DIFilesAt, DIClean, DIAt, DIStages, DISwapped, DIBefore, DILives, diFiles, diCounts, diRowVars, DINothing
  <2>3. DIRowsAt(diStage[i])'
    BY <1>0, <1>b, <1>2 DEF DIRowsWithFiles, DIRowsAt, DIFilesAt, DIDataAt, DIClean, DIAt, DIStages, DISwapped, DIBefore, DILives, diFiles, diCounts, diRowVars, DINothing
  <2>4. alive'
    BY <1>0, <1>b, <1>2 DEF DIRowsWithFiles, DIRowsAt, DIFilesAt, DIDataAt, DIClean, DIAt, DIStages, DISwapped, DIBefore, DILives, diFiles, diCounts, diRowVars, DINothing
  <2>5. kept
    BY <1>0, <1>b, <1>2 DEF DIRowsWithFiles, DIRowsAt, DIFilesAt, DIClean, DIAt, DIStages, DISwapped, DIBefore, DILives, diFiles, diCounts, diRowVars, DINothing
  <2> QED BY <1>a, <2>1, <2>2, <2>3, <2>4, <2>5
<1>3. CASE DIStage(i)
  <2>1. diUp
    BY <1>3 DEF DIStage, DIAt
  <2>2. DIRowsWithFiles'
    BY <1>0, <1>b, <1>3 DEF DIRowsWithFiles, DIRowsAt, DIFilesAt, DIStage, DIAt, DIStages, DISwapped, DIBefore, DILives, diFiles, diCounts, diRowVars, DINothing
  <2>3. DIRowsAt(diStage[i])'
    BY <1>0, <1>b, <1>3 DEF DIRowsWithFiles, DIRowsAt, DIFilesAt, DIDataAt, DIStage, DIAt, DIStages, DISwapped, DIBefore, DILives, diFiles, diCounts, diRowVars, DINothing
  <2>4. alive'
    BY <1>0, <1>b, <1>3 DEF DIRowsWithFiles, DIRowsAt, DIFilesAt, DIDataAt, DIStage, DIAt, DIStages, DISwapped, DIBefore, DILives, diFiles, diCounts, diRowVars, DINothing
  <2>5. kept
    BY <1>0, <1>b, <1>3 DEF DIRowsWithFiles, DIRowsAt, DIFilesAt, DIStage, DIAt, DIStages, DISwapped, DIBefore, DILives, diFiles, diCounts, diRowVars, DINothing
  <2> QED BY <1>a, <2>1, <2>2, <2>3, <2>4, <2>5
<1>4. CASE DIValidate(i)
  <2>1. diUp
    BY <1>4 DEF DIValidate, DIAt
  <2>2. DIRowsWithFiles'
    BY <1>0, <1>b, <1>4 DEF DIRowsWithFiles, DIRowsAt, DIFilesAt, DIValidate, DIAt, DIStages, DISwapped, DIBefore, DILives, diFiles, diCounts, diRowVars, DINothing
  <2>3. DIRowsAt(diStage[i])'
    BY <1>0, <1>b, <1>4 DEF DIRowsWithFiles, DIRowsAt, DIFilesAt, DIDataAt, DIValidate, DIAt, DIStages, DISwapped, DIBefore, DILives, diFiles, diCounts, diRowVars, DINothing
  <2>4. alive'
    BY <1>0, <1>b, <1>4 DEF DIRowsWithFiles, DIRowsAt, DIFilesAt, DIDataAt, DIValidate, DIAt, DIStages, DISwapped, DIBefore, DILives, diFiles, diCounts, diRowVars, DINothing
  <2>5. kept
    BY <1>0, <1>b, <1>4 DEF DIRowsWithFiles, DIRowsAt, DIFilesAt, DIValidate, DIAt, DIStages, DISwapped, DIBefore, DILives, diFiles, diCounts, diRowVars, DINothing
  <2> QED BY <1>a, <2>1, <2>2, <2>3, <2>4, <2>5
<1>5. CASE DIClose(i)
  <2>1. diUp
    BY <1>5 DEF DIClose, DIAt
  <2>2. DIRowsWithFiles'
    BY <1>0, <1>b, <1>5 DEF DIRowsWithFiles, DIRowsAt, DIFilesAt, DIClose, DIAt, DIStages, DISwapped, DIBefore, DILives, diFiles, diCounts, diRowVars, DINothing, DIWrittenBack
  <2>3. DIRowsAt(diStage[i])'
    BY <1>0, <1>b, <1>5 DEF DIRowsWithFiles, DIRowsAt, DIFilesAt, DIDataAt, DIClose, DIAt, DIStages, DISwapped, DIBefore, DILives, diFiles, diCounts, diRowVars, DINothing, DIWrittenBack
  <2>4. alive'
    BY <1>0, <1>b, <1>5 DEF DIRowsWithFiles, DIRowsAt, DIFilesAt, DIDataAt, DIClose, DIAt, DIStages, DISwapped, DIBefore, DILives, diFiles, diCounts, diRowVars, DINothing, DIWrittenBack
  <2>5. kept
    BY <1>0, <1>b, <1>5 DEF DIRowsWithFiles, DIRowsAt, DIFilesAt, DIClose, DIAt, DIStages, DISwapped, DIBefore, DILives, diFiles, diCounts, diRowVars, DINothing, DIWrittenBack
  <2> QED BY <1>a, <2>1, <2>2, <2>3, <2>4, <2>5
<1>6. CASE DIAside(i)
  <2>1. diUp /\ diStage[i] = "aside" /\ UNCHANGED <<diHandle, diCrashes, diData, diBroken, diCommitted>>
    BY <1>6 DEF DIAside, DIAt, diRowVars
  <2>2. CASE /\ diLive # DINothing /\ diFallback' = diLive /\ diLive' = DINothing
             /\ diRows' = (diRows \ {"live", "fallback"})
                            \cup (IF "live" \in diRows THEN {"fallback"} ELSE {})
             /\ diBusy' = (IF diBusy = "current" THEN "moved" ELSE diBusy)
             /\ diInUse' = (diInUse \/ diBusy = "current")
             /\ diStage'[i] = "install"
    <3>1. DIRowsWithFiles'
      BY <1>0, <2>1, <2>2 DEF DIRowsWithFiles, DIRowsAt, DIFilesAt, DISwapped, DIBefore, DILives, DINothing
    <3>2. DIRowsAt(diStage[i])' /\ alive'
      BY <1>0, <2>1, <2>2, <3>1 DEF DIRowsWithFiles, DIRowsAt, DIFilesAt, DISwapped, DIBefore, DILives, DINothing
    <3>3. kept
      BY <1>0, <2>1, <2>2 DEF DIRowsWithFiles, DIRowsAt, DIFilesAt, DISwapped, DIBefore, DILives, DINothing
    <3> QED BY <1>a, <2>1, <3>1, <3>2, <3>3
  <2>3. CASE /\ UNCHANGED <<diLive, diFallback, diRows, diBusy, diInUse>>
             /\ diStage'[i] = "install" /\ diLive = DINothing
    <3>1. DIRowsWithFiles'
      BY <1>0, <2>1, <2>3 DEF DIRowsWithFiles
    <3>2. DIRowsAt(diStage[i])' /\ alive'
      BY <1>0, <2>1, <2>3 DEF DIRowsWithFiles, DIRowsAt, DIFilesAt, DISwapped, DIBefore, DILives, DINothing, DIDataAt
    <3>3. kept
      BY <1>0, <2>1, <2>3 DEF DIRowsWithFiles, DIRowsAt, DIFilesAt, DISwapped, DIBefore, DILives, DINothing
    <3> QED BY <1>a, <2>1, <3>1, <3>2, <3>3
  <2>4. CASE /\ UNCHANGED <<diLive, diFallback, diRows, diBusy, diInUse>>
             /\ diStage'[i] = "reopen"
    <3>1. DIRowsWithFiles'
      BY <1>0, <2>1, <2>4 DEF DIRowsWithFiles
    <3>2. DIRowsAt(diStage[i])' /\ alive'
      BY <1>0, <2>1, <2>4 DEF DIRowsWithFiles, DIRowsAt, DIFilesAt, DISwapped, DIBefore, DILives, DINothing, DIDataAt
    <3>3. kept
      BY <1>0, <2>1, <2>4 DEF DIRowsWithFiles, DIRowsAt, DIFilesAt, DISwapped, DIBefore, DILives, DINothing
    <3> QED BY <1>a, <2>1, <3>1, <3>2, <3>3
  <2> QED BY <1>b, <1>6, <2>2, <2>3, <2>4 DEF DIAside, DIStages, diRowVars
<1>7. CASE DIInstall(i)
  <2>1. diUp
    BY <1>7 DEF DIInstall, DIAt
  <2>2. DIRowsWithFiles'
    BY <1>0, <1>b, <1>7 DEF DIRowsWithFiles, DIRowsAt, DIFilesAt, DIInstall, DIAt, DIStages, DISwapped, DIBefore, DILives, diFiles, diCounts, diRowVars, DINothing
  <2>3. DIRowsAt(diStage[i])'
    BY <1>0, <1>b, <1>7 DEF DIRowsWithFiles, DIRowsAt, DIFilesAt, DIDataAt, DIInstall, DIAt, DIStages, DISwapped, DIBefore, DILives, diFiles, diCounts, diRowVars, DINothing
  <2>4. alive'
    BY <1>0, <1>b, <1>7 DEF DIRowsWithFiles, DIRowsAt, DIFilesAt, DIDataAt, DIInstall, DIAt, DIStages, DISwapped, DIBefore, DILives, diFiles, diCounts, diRowVars, DINothing
  <2>5. kept
    BY <1>0, <1>b, <1>7 DEF DIRowsWithFiles, DIRowsAt, DIFilesAt, DIInstall, DIAt, DIStages, DISwapped, DIBefore, DILives, diFiles, diCounts, diRowVars, DINothing
  <2> QED BY <1>a, <2>1, <2>2, <2>3, <2>4, <2>5
<1>8. CASE DIMigrate(i)
  <2>1. diUp
    BY <1>8 DEF DIMigrate, DIAt
  <2>2. DIRowsWithFiles'
    BY <1>0, <1>b, <1>8 DEF DIRowsWithFiles, DIRowsAt, DIFilesAt, DIMigrate, DIAt, DIStages, DISwapped, DIBefore, DILives, diFiles, diCounts, diRowVars, DINothing, DIMigrates
  <2>3. DIRowsAt(diStage[i])'
    BY <1>0, <1>b, <1>8 DEF DIRowsWithFiles, DIRowsAt, DIFilesAt, DIDataAt, DIMigrate, DIAt, DIStages, DISwapped, DIBefore, DILives, diFiles, diCounts, diRowVars, DINothing, DIMigrates
  <2>4. alive'
    BY <1>0, <1>b, <1>8 DEF DIRowsWithFiles, DIRowsAt, DIFilesAt, DIDataAt, DIMigrate, DIAt, DIStages, DISwapped, DIBefore, DILives, diFiles, diCounts, diRowVars, DINothing, DIMigrates
  <2>5. kept
    BY <1>0, <1>b, <1>8 DEF DIRowsWithFiles, DIRowsAt, DIFilesAt, DIMigrate, DIAt, DIStages, DISwapped, DIBefore, DILives, diFiles, diCounts, diRowVars, DINothing, DIMigrates
  <2> QED BY <1>a, <2>1, <2>2, <2>3, <2>4, <2>5
<1>9. CASE DIOpen(i)
  <2>1. diUp
    BY <1>9 DEF DIOpen, DIAt
  <2>2. DIRowsWithFiles'
    BY <1>0, <1>b, <1>9 DEF DIRowsWithFiles, DIRowsAt, DIFilesAt, DIOpen, DIAt, DIStages, DISwapped, DIBefore, DILives, diFiles, diCounts, diRowVars, DINothing, DIOpens, DIInitDB, DIOpenedRows
  <2>3. DIRowsAt(diStage[i])'
    BY <1>0, <1>b, <1>9 DEF DIRowsWithFiles, DIRowsAt, DIFilesAt, DIDataAt, DIOpen, DIAt, DIStages, DISwapped, DIBefore, DILives, diFiles, diCounts, diRowVars, DINothing, DIOpens, DIInitDB, DIOpenedRows
  <2>4. alive'
    BY <1>0, <1>b, <1>9 DEF DIRowsWithFiles, DIRowsAt, DIFilesAt, DIDataAt, DIOpen, DIAt, DIStages, DISwapped, DIBefore, DILives, diFiles, diCounts, diRowVars, DINothing, DIOpens, DIInitDB, DIOpenedRows
  <2>5. kept
    BY <1>0, <1>b, <1>9 DEF DIRowsWithFiles, DIRowsAt, DIFilesAt, DIOpen, DIAt, DIStages, DISwapped, DIBefore, DILives, diFiles, diCounts, diRowVars, DINothing, DIOpens, DIInitDB, DIOpenedRows
  <2> QED BY <1>a, <2>1, <2>2, <2>3, <2>4, <2>5
<1>10. CASE DICaches(i)
  <2>1. diUp /\ diStage[i] = "caches" /\ UNCHANGED <<diFiles, diHandle, diCrashes, diBroken>>
    BY <1>10 DEF DICaches, DIAt
  <2>2. CASE /\ diStage'[i] = "drop" /\ diData' = diLive
             /\ diRows' = diRows \ {"fallback"} /\ diCommitted' = (diRows' # {})
             /\ diBusy' = (IF diBusy = "moved" THEN "gone" ELSE diBusy) /\ diInUse' = FALSE
    <3>1. DIRowsWithFiles'
      BY <1>0, <2>1, <2>2 DEF DIRowsWithFiles, DIRowsAt, DIFilesAt, DISwapped, DIBefore, DILives, DINothing, diFiles
    <3>2. DIRowsAt(diStage[i])' /\ alive'
      BY <1>0, <2>1, <2>2 DEF DIRowsWithFiles, DIRowsAt, DIFilesAt, DISwapped, DIBefore, DILives, DINothing
    <3>3. kept
      BY <1>0, <2>1, <2>2 DEF DIRowsWithFiles, DIRowsAt, DIFilesAt, DISwapped, DIBefore, DILives, DINothing
    <3> QED BY <1>a, <2>1, <3>1, <3>2, <3>3
  <2>3. CASE /\ diStage'[i] = "rollback" /\ UNCHANGED diRowVars
    <3>1. DIRowsWithFiles'
      BY <1>0, <2>1, <2>3 DEF DIRowsWithFiles, diFiles, diRowVars
    <3>2. DIRowsAt(diStage[i])' /\ alive'
      BY <1>0, <2>1, <2>3 DEF DIRowsWithFiles, DIRowsAt, DIFilesAt, DISwapped, DIBefore, DILives, DINothing, diFiles, diRowVars
    <3>3. kept
      BY <1>0, <2>1, <2>3 DEF DIRowsWithFiles, DIRowsAt, DIFilesAt, DISwapped, DIBefore, DILives, DINothing, diRowVars
    <3> QED BY <1>a, <2>1, <3>1, <3>2, <3>3
  <2> QED BY <1>b, <1>10, <2>2, <2>3 DEF DICaches, DIStages
<1>11. CASE DIDrop(i)
  <2>1. diUp
    BY <1>11 DEF DIDrop, DIAt
  <2>2. DIRowsWithFiles'
    BY <1>0, <1>b, <1>11 DEF DIRowsWithFiles, DIRowsAt, DIFilesAt, DIDrop, DIAt, DIStages, DISwapped, DIBefore, DILives, diFiles, diCounts, diRowVars, DINothing
  <2>3. DIRowsAt(diStage[i])'
    BY <1>0, <1>b, <1>11 DEF DIRowsWithFiles, DIRowsAt, DIFilesAt, DIDataAt, DIDrop, DIAt, DIStages, DISwapped, DIBefore, DILives, diFiles, diCounts, diRowVars, DINothing
  <2>4. alive'
    BY <1>0, <1>b, <1>11 DEF DIRowsWithFiles, DIRowsAt, DIFilesAt, DIDataAt, DIDrop, DIAt, DIStages, DISwapped, DIBefore, DILives, diFiles, diCounts, diRowVars, DINothing
  <2>5. kept
    BY <1>0, <1>b, <1>11 DEF DIRowsWithFiles, DIRowsAt, DIFilesAt, DIDrop, DIAt, DIStages, DISwapped, DIBefore, DILives, diFiles, diCounts, diRowVars, DINothing
  <2> QED BY <1>a, <2>1, <2>2, <2>3, <2>4, <2>5
<1>12. CASE DIRollback(i)
  <2>1. diUp
    BY <1>12 DEF DIRollback, DIAt
  <2>2. DIRowsWithFiles'
    BY <1>0, <1>b, <1>12 DEF DIRowsWithFiles, DIRowsAt, DIFilesAt, DIRollback, DIAt, DIStages, DISwapped, DIBefore, DILives, diFiles, diCounts, diRowVars, DINothing
  <2>3. DIRowsAt(diStage[i])'
    BY <1>0, <1>b, <1>12 DEF DIRowsWithFiles, DIRowsAt, DIFilesAt, DIDataAt, DIRollback, DIAt, DIStages, DISwapped, DIBefore, DILives, diFiles, diCounts, diRowVars, DINothing
  <2>4. alive'
    BY <1>0, <1>b, <1>12 DEF DIRowsWithFiles, DIRowsAt, DIFilesAt, DIDataAt, DIRollback, DIAt, DIStages, DISwapped, DIBefore, DILives, diFiles, diCounts, diRowVars, DINothing
  <2>5. kept
    BY <1>0, <1>b, <1>12 DEF DIRowsWithFiles, DIRowsAt, DIFilesAt, DIRollback, DIAt, DIStages, DISwapped, DIBefore, DILives, diFiles, diCounts, diRowVars, DINothing
  <2> QED BY <1>a, <2>1, <2>2, <2>3, <2>4, <2>5
<1>13. CASE DIRestore(i)
  <2>1. diUp
    BY <1>13 DEF DIRestore, DIAt
  <2>2. DIRowsWithFiles'
    BY <1>0, <1>b, <1>13 DEF DIRowsWithFiles, DIRowsAt, DIFilesAt, DIRestore, DIAt, DIStages, DISwapped, DIBefore, DILives, diFiles, diCounts, diRowVars, DINothing
  <2>3. DIRowsAt(diStage[i])'
    BY <1>0, <1>b, <1>13 DEF DIRowsWithFiles, DIRowsAt, DIFilesAt, DIDataAt, DIRestore, DIAt, DIStages, DISwapped, DIBefore, DILives, diFiles, diCounts, diRowVars, DINothing
  <2>4. alive'
    BY <1>0, <1>b, <1>13 DEF DIRowsWithFiles, DIRowsAt, DIFilesAt, DIDataAt, DIRestore, DIAt, DIStages, DISwapped, DIBefore, DILives, diFiles, diCounts, diRowVars, DINothing
  <2>5. kept
    BY <1>0, <1>b, <1>13 DEF DIRowsWithFiles, DIRowsAt, DIFilesAt, DIRestore, DIAt, DIStages, DISwapped, DIBefore, DILives, diFiles, diCounts, diRowVars, DINothing
  <2> QED BY <1>a, <2>1, <2>2, <2>3, <2>4, <2>5
<1>14. CASE DIReopen(i)
  <2>1. diUp
    BY <1>14 DEF DIReopen, DIAt
  <2>2. DIRowsWithFiles'
    BY <1>0, <1>b, <1>14 DEF DIRowsWithFiles, DIRowsAt, DIFilesAt, DIReopen, DIAt, DIStages, DISwapped, DIBefore, DILives, diFiles, diCounts, diRowVars, DINothing, DIOpens, DIInitDB, DIOpenedRows
  <2>3. DIRowsAt(diStage[i])'
    BY <1>0, <1>b, <1>14 DEF DIRowsWithFiles, DIRowsAt, DIFilesAt, DIDataAt, DIReopen, DIAt, DIStages, DISwapped, DIBefore, DILives, diFiles, diCounts, diRowVars, DINothing, DIOpens, DIInitDB, DIOpenedRows
  <2>4. alive'
    BY <1>0, <1>b, <1>14 DEF DIRowsWithFiles, DIRowsAt, DIFilesAt, DIDataAt, DIReopen, DIAt, DIStages, DISwapped, DIBefore, DILives, diFiles, diCounts, diRowVars, DINothing, DIOpens, DIInitDB, DIOpenedRows
  <2>5. kept
    BY <1>0, <1>b, <1>14 DEF DIRowsWithFiles, DIRowsAt, DIFilesAt, DIReopen, DIAt, DIStages, DISwapped, DIBefore, DILives, diFiles, diCounts, diRowVars, DINothing, DIOpens, DIInitDB, DIOpenedRows
  <2> QED BY <1>a, <2>1, <2>2, <2>3, <2>4, <2>5
<1> QED BY <1>1, <1>2, <1>3, <1>4, <1>5, <1>6, <1>7, <1>8, <1>9, <1>10, <1>11, <1>12, <1>13, <1>14 DEF DIStep

\* So do the requests that use the database, a crash, and a start.
LEMMA DIProcessRows ==
    ASSUME DIInv, DIRowsInv,
           DIUse \/ DIWrite \/ DIRelease \/ DICrash \/ DIBoot \/ DIBootFails \/ UNCHANGED diVars
    PROVE  DIRowsInv' /\ DIRowsKept
<1>0. /\ DIRowsWithFiles /\ diCrashes \in Nat
      /\ \A i \in Importers : DIRowsAt(diStage[i]) /\ DIFilesAt(diStage[i])
      /\ ~diUp => \A i \in Importers : diStage[i] = "idle"
      /\ diCrashes = 0 => diUp
  BY DEF DIInv, DIRowsInv
<1>1. CASE DIUse
  <2>1. DIRowsWithFiles'
    BY <1>0, <1>1 DEF DIRowsWithFiles, diFiles, diCounts, DIUse
  <2>2. \A i \in Importers : DIRowsAt(diStage[i])'
    BY <1>0, <1>1 DEF DIRowsWithFiles, DIRowsAt, DIFilesAt, DISwapped, DIOnTrial, diFiles, diCounts, DIUse
  <2>3. DIRowsInv'
    BY <1>1, <2>1, <2>2 DEF DIRowsInv, DIRowsWithFiles, diFiles, diCounts, DIUse
  <2>4. DIRowsKept
    BY <1>0, <1>1 DEF DIRowsKept, DIRowsOnDisk, DIOnTrial, DIRowsWithFiles, diFiles, diCounts, DIUse
  <2> QED BY <2>3, <2>4
<1>2. CASE DIWrite
  <2>1. DIRowsWithFiles'
    BY <1>0, <1>2 DEF DIRowsWithFiles, diFiles, diCounts, DIWrite
  <2>2. \A i \in Importers : DIRowsAt(diStage[i])'
    BY <1>0, <1>2 DEF DIRowsWithFiles, DIRowsAt, DIFilesAt, DISwapped, DIOnTrial, diFiles, diCounts, DIWrite
  <2>3. DIRowsInv'
    BY <1>2, <2>1, <2>2 DEF DIRowsInv, DIRowsWithFiles, diFiles, diCounts, DIWrite
  <2>4. DIRowsKept
    BY <1>0, <1>2 DEF DIRowsKept, DIRowsOnDisk, DIOnTrial, DIRowsWithFiles, diFiles, diCounts, DIWrite
  <2> QED BY <2>3, <2>4
<1>3. CASE DIRelease
  <2>1. DIRowsWithFiles'
    BY <1>0, <1>3 DEF DIRowsWithFiles, diFiles, diCounts, DIRelease, DIWrittenBack
  <2>2. \A i \in Importers : DIRowsAt(diStage[i])'
    BY <1>0, <1>3 DEF DIRowsWithFiles, DIRowsAt, DIFilesAt, DISwapped, DIOnTrial, diFiles, diCounts, DIRelease, DIWrittenBack
  <2>3. DIRowsInv'
    BY <1>3, <2>1, <2>2 DEF DIRowsInv, DIRowsWithFiles, diFiles, diCounts, DIRelease, DIWrittenBack
  <2>4. DIRowsKept
    BY <1>0, <1>3 DEF DIRowsKept, DIRowsOnDisk, DIOnTrial, DIRowsWithFiles, diFiles, diCounts, DIRelease, DIWrittenBack
  <2> QED BY <2>3, <2>4
<1>4. CASE DICrash
  <2>1. diCrashes' # 0 /\ diHandle' = DINothing /\ diBusy' = "no" /\ \A i \in Importers : diStage'[i] = "idle"
    BY <1>0, <1>4 DEF DICrash
  <2>2. DIRowsWithFiles'
    BY <1>0, <1>4 DEF DICrash, DIRowsWithFiles, diFiles
  <2>3. DIRowsInv'
    BY <2>1, <2>2 DEF DIRowsInv, DIRowsAt, DISwapped
  <2>4. DIRowsKept
    BY <1>4, <2>1 DEF DICrash, DIRowsKept, DIRowsOnDisk, DIOnTrial
  <2> QED BY <2>3, <2>4
<1>5. CASE DIBoot
  <2>1. diCrashes # 0 /\ diCrashes' # 0 /\ \A i \in Importers : diStage[i] = "idle" /\ diStage'[i] = "idle"
    BY <1>0, <1>5 DEF DIBoot
  <2>2. DIRowsWithFiles'
    BY <1>0, <1>5 DEF DIBoot, DIRowsWithFiles, DIOpenedRows, DIInitDB, DINothing
  <2>3. DIRowsInv'
    BY <2>1, <2>2 DEF DIRowsInv, DIRowsAt, DISwapped
  <2>4. DIRowsKept
    BY <1>0, <1>5, <2>1 DEF DIBoot, DIRowsKept, DIRowsOnDisk, DIOnTrial, DIRowsWithFiles, DIOpenedRows
  <2> QED BY <2>3, <2>4
<1>6. CASE UNCHANGED diVars
  BY <1>0, <1>6 DEF diVars, diRowVars, DIRowsInv, DIRowsWithFiles, DIRowsAt, DIRowsKept, DIRowsOnDisk, DIOnTrial
<1> QED BY <1>1, <1>2, <1>3, <1>4, <1>5, <1>6 DEF DIBootFails

\* One import at a time, however many there are and whichever steps fail: with no
\* import running the panel serves what the last successful one installed or what was
\* there before, with every row committed to it unless its file was moved aside under
\* a connection in use, and no failure, crash or start removes the last copy of it
\* (database/backup.go ImportDB, closeLiveDB, rollbackImportedDB).
THEOREM DataSurvives == ASSUME DIOneAtATime PROVE DISpec => DIDataSurvives
<1>1. DIInit => DIInv /\ DIRowsInv
  <2>1. DIInit => DIInv
    BY DEF DIInit, DIInv, DIFilesOK, DIContents, DIUploads, DIStages, DIFilesAt, DIDataAt, DIBefore, DISwapped,
           DINothing
  <2>2. DIInit => DIRowsInv
    BY DEF DIInit, DINothing, DIRowsInv, DIRowsWithFiles, DIRowsAt, DISwapped
  <2> QED BY <2>1, <2>2
<1>2. DIInv /\ DIRowsInv /\ [DINext]_diVars => DIInv' /\ DIRowsInv'
  BY DIImportInv, DIProcessInv, DIImportRows, DIProcessRows DEF DINext
<1>3. DISpec => [](DIInv /\ DIRowsInv)
  BY <1>1, <1>2, PTL DEF DISpec
<1>4. DIInv /\ DIRowsInv => DITypeOK /\ DIServesData
  BY DEF DIInv, DIFilesOK, DITypeOK, DIRowsInv, DIRowsWithFiles, DILives, DIServesData, DIAtRest
<1>5. DIInv /\ DIRowsInv /\ [DINext]_diVars =>
        [ /\ DIOnDisk(diData) /\ ~DIOnDisk(diData)' => \E i \in Importers : DIAt(i, "clean")
          /\ diCommitted /\ diCommitted' /\ DIRowsOnDisk /\ ~DIRowsOnDisk'
               => diInUse' \/ \E i \in Importers : DIAt(i, "clean") ]_diVars
  BY DIImportInv, DIProcessInv, DIImportRows, DIProcessRows DEF DINext, DIRowsKept
<1>6. DISpec => DILastCopy
  BY <1>3, <1>5, PTL DEF DISpec, DILastCopy
<1> QED BY <1>3, <1>4, <1>6, PTL DEF DIDataSurvives

-----------------------------------------------------------------------------
(* The references.  *)

\* Every step keeps the types.
LEMMA TRNextType == TRTypeOK /\ [TRNext]_trVars => TRTypeOK'
<1> SUFFICES ASSUME TRTypeOK, [TRNext]_trVars PROVE TRTypeOK'
  OBVIOUS
<1>0. TagSets \subseteq SUBSET Tags
  BY DEF TagSets
<1>1. ASSUME NEW tag \in Tags, NEW refs \in TagSets, NEW r \in Outbounds, TRSaveOutbound(r, tag, refs)
      PROVE  TRTypeOK'
  BY <1>0, <1>1 DEF TRTypeOK, TRSaveOutbound, TRSaveLookup
<1>2. ASSUME NEW tag \in Tags, NEW refs \in TagSets, NEW r \in Endpoints, TRSaveEndpoint(r, tag, refs)
      PROVE  TRTypeOK'
  BY <1>0, <1>2 DEF TRTypeOK, TRSaveEndpoint, TRSaveLookup
<1>3. ASSUME NEW tag \in Tags, NEW refs \in TagSets, NEW r \in ServiceRows, NEW servers \in TagSets,
             TRSaveService(r, tag, refs, servers)
      PROVE  TRTypeOK'
  BY <1>0, <1>3 DEF TRTypeOK, TRSaveService
<1>4. ASSUME NEW r \in Lookups, TRDeleteLookup(r) PROVE TRTypeOK'
  BY <1>4 DEF TRTypeOK, TRDeleteLookup, TRGone
<1>5. ASSUME NEW r \in InboundRows, NEW tag \in Tags, TRSaveInbound(r, tag) PROVE TRTypeOK'
  BY <1>5 DEF TRTypeOK, TRSaveInbound
<1>6. ASSUME NEW r \in InboundRows, TRDeleteInbound(r) PROVE TRTypeOK'
  BY <1>6 DEF TRTypeOK, TRDeleteInbound, TRGone
<1>7. ASSUME NEW r \in ServiceRows, TRDeleteService(r) PROVE TRTypeOK'
  BY <1>7 DEF TRTypeOK, TRDeleteService, TRGone
<1>8. ASSUME NEW refs \in TagSets, NEW lazy \in TagSets, TRSaveBlob(refs, lazy) PROVE TRTypeOK'
  BY <1>0, <1>8 DEF TRTypeOK, TRSaveBlob
<1>9. CASE UNCHANGED trVars
  BY <1>9 DEF TRTypeOK, trVars
<1> QED BY <1>1, <1>2, <1>3, <1>4, <1>5, <1>6, <1>7, <1>8, <1>9 DEF TRNext

\* A row of the outbound namespace that loses its tag, by a save or a deletion,
\* passed the guard: nobody else names the tag.
LEMMA TRLostTagUnnamed ==
    ASSUME TRTypeOK, NEW r \in Lookups, NEW tag \in Tags, trTag[r] = tag, ~TRReferenced(tag, r),
           trTag' \in [Objects -> Tags \cup {NoTag}], \A q \in Objects \ {r} : trTag'[q] = trTag[q],
           TRNamedThroughout(tag)
    PROVE  TRExists(tag)'
<1>1. tag \notin trLazy
  BY DEF TRReferenced
<1>2. PICK q \in Lookups \cup ServiceRows \cup {Blob} :
         tag \in trRefs[q] /\ \E s \in Lookups \ {q} : trTag[s] = tag
  BY <1>1 DEF TRNamedThroughout
<1>3. q = r
  BY <1>2 DEF TRReferenced, TREager, TRRowReferences, TRBlobReferences
<1> QED BY <1>2, <1>3 DEF TRExists, Objects

\* A save of an outbound or an endpoint takes no named tag away.
LEMMA TRSaveLookupKeeps ==
    ASSUME TRTypeOK, NEW r \in Lookups, NEW table, NEW new \in Tags, NEW refs \in TagSets,
           TRSaveLookup(r, table, new, refs), NEW tag \in Tags, TRExists(tag), TRNamedThroughout(tag)
    PROVE  TRExists(tag)'
<1>1. /\ trTag' = [trTag EXCEPT ![r] = new] /\ trTag \in [Objects -> Tags \cup {NoTag}]
      /\ trTag[r] \notin {NoTag, new} => ~TRReferenced(trTag[r], r)
      /\ r \in Objects
  BY DEF TRSaveLookup, TRTypeOK, Objects
<1>2. trTag' \in [Objects -> Tags \cup {NoTag}] /\ trTag'[r] = new /\ \A q \in Objects \ {r} : trTag'[q] = trTag[q]
  BY <1>1
<1>3. CASE trTag[r] = tag /\ tag # new
  BY <1>1, <1>2, <1>3, TRLostTagUnnamed, TagRefsAssumption
<1>4. CASE ~(trTag[r] = tag /\ tag # new)
  BY <1>2, <1>4 DEF TRExists, Objects
<1> QED BY <1>3, <1>4

\* Whatever rows, tags and references there are: no save takes away what a stored
\* reference resolves to (service/tagrefs.go and the upserts it guards).
THEOREM ReferencesHold == TRSpec => TRReferencesHold
<1>1. TRInit => TRTypeOK
  BY DEF TRInit, TRTypeOK
<1>2. TRSpec => []TRTypeOK
  BY <1>1, TRNextType, PTL DEF TRSpec
<1>4. TRTypeOK /\ [TRNext]_trVars =>
        [\A tag \in Tags : TRNamedThroughout(tag) /\ TRExists(tag) => TRExists(tag)']_trVars
  <2> SUFFICES ASSUME TRTypeOK, TRNext, NEW tag \in Tags, TRExists(tag), TRNamedThroughout(tag)
               PROVE  TRExists(tag)'
    OBVIOUS
  <2>1. ASSUME NEW new \in Tags, NEW refs \in TagSets, NEW r \in Outbounds, TRSaveOutbound(r, new, refs)
        PROVE  TRExists(tag)'
    BY <2>1, TRSaveLookupKeeps DEF TRSaveOutbound, Lookups
  <2>2. ASSUME NEW new \in Tags, NEW refs \in TagSets, NEW r \in Endpoints, TRSaveEndpoint(r, new, refs)
        PROVE  TRExists(tag)'
    BY <2>2, TRSaveLookupKeeps DEF TRSaveEndpoint, Lookups
  <2>3. ASSUME NEW r \in Lookups, TRDeleteLookup(r) PROVE TRExists(tag)'
    <3>1. /\ trTag' = [trTag EXCEPT ![r] = NoTag] /\ trTag \in [Objects -> Tags \cup {NoTag}]
          /\ r \in Objects /\ ~TRReferenced(trTag[r], r)
      BY <2>3 DEF TRDeleteLookup, TRGone, TRTypeOK, Objects
    <3>2. trTag' \in [Objects -> Tags \cup {NoTag}] /\ \A q \in Objects \ {r} : trTag'[q] = trTag[q]
      BY <3>1
    <3>3. CASE trTag[r] = tag
      BY <3>1, <3>2, <3>3, TRLostTagUnnamed
    <3>4. CASE trTag[r] # tag
      BY <3>2, <3>4 DEF TRExists, Objects
    <3> QED BY <3>3, <3>4
  <2>4. ASSUME \A r \in Lookups : trTag'[r] = trTag[r] PROVE TRExists(tag)'
    BY <2>4 DEF TRExists
  <2>5. ASSUME NEW r \in InboundRows \cup ServiceRows, NEW new, trTag' = [trTag EXCEPT ![r] = new]
        PROVE  TRExists(tag)'
    BY <2>4, <2>5, TagRefsAssumption DEF TRTypeOK, Objects
  <2>6. ASSUME NEW new \in Tags, NEW refs \in TagSets, NEW r \in ServiceRows, NEW servers \in TagSets,
               TRSaveService(r, new, refs, servers)
        PROVE  TRExists(tag)'
    BY <2>5, <2>6 DEF TRSaveService
  <2>7. ASSUME NEW r \in InboundRows, (\E new \in Tags : TRSaveInbound(r, new)) \/ TRDeleteInbound(r)
        PROVE  TRExists(tag)'
    BY <2>5, <2>7 DEF TRSaveInbound, TRDeleteInbound, TRGone
  <2>9. ASSUME NEW r \in ServiceRows, TRDeleteService(r) PROVE TRExists(tag)'
    BY <2>5, <2>9 DEF TRDeleteService, TRGone
  <2>10. ASSUME NEW refs \in TagSets, NEW lazy \in TagSets, TRSaveBlob(refs, lazy) PROVE TRExists(tag)'
    BY <2>4, <2>10 DEF TRSaveBlob
  <2> QED BY <2>1, <2>2, <2>3, <2>6, <2>7, <2>9, <2>10 DEF TRNext
<1>5. TRSpec => TRNothingDangles
  BY <1>2, <1>4, PTL DEF TRSpec, TRNothingDangles
<1> QED BY <1>2, <1>5, PTL DEF TRReferencesHold

-----------------------------------------------------------------------------
(* The representations of an inbound.  A function of fields is read one    *)
(* field at a time (Get); a lemma about each translation says what each    *)
(* field of its result is, and two translations agree where the fields do. *)

\* No field holds the value that stands for its absence.
LinkFilled(f) == \A k \in DOMAIN f : f[k] # Unset

\* What a function built from others reads as.
LEMMA LinkNone == LinkFilled(None) /\ \A k : Get(None, k) = Unset
  BY DEF LinkFilled, None, Get

LEMMA LinkOne ==
    ASSUME NEW field, NEW value
    PROVE  /\ value # Unset => LinkFilled(One(field, value))
           /\ \A k : Get(One(field, value), k) = IF k = field THEN value ELSE Unset
  BY DEF LinkFilled, One, Get

LEMMA LinkOpt ==
    ASSUME NEW field, NEW value
    PROVE  /\ LinkFilled(Opt(field, value))
           /\ \A k : Get(Opt(field, value), k) = IF k = field THEN value ELSE Unset
  BY LinkOne, LinkNone DEF Opt

LEMMA LinkCarry ==
    ASSUME NEW f, NEW from, NEW to
    PROVE  /\ LinkFilled(Carry(f, from, to))
           /\ \A k : Get(Carry(f, from, to), k) = IF k = to THEN Get(f, from) ELSE Unset
<1> Carry(f, from, to) = Opt(to, Get(f, from))
  BY DEF Carry
<1> HIDE DEF Opt
<1> QED BY LinkOpt

LEMMA LinkOnly ==
    ASSUME NEW f, LinkFilled(f), NEW fields
    PROVE  /\ LinkFilled(Only(f, fields))
           /\ \A k : Get(Only(f, fields), k) = IF k \in fields THEN Get(f, k) ELSE Unset
  BY DEF LinkFilled, Only, Get

\* The first of two functions wins where it has the field.
LEMMA LinkMerge ==
    ASSUME NEW f, NEW g, LinkFilled(f), LinkFilled(g)
    PROVE  /\ LinkFilled(f ++ g)
           /\ \A k : Get(f ++ g, k) = IF Get(f, k) # Unset THEN Get(f, k) ELSE Get(g, k)
  BY DEF LinkFilled, ++, Get

LEMMA LinkMergeCarry ==
    ASSUME NEW f, LinkFilled(f), NEW g, NEW from, NEW to
    PROVE  /\ LinkFilled(f ++ Carry(g, from, to))
           /\ \A k : Get(f ++ Carry(g, from, to), k) =
                       IF k = to /\ Get(f, to) = Unset THEN Get(g, from) ELSE Get(f, k)
<1> DEFINE c == Carry(g, from, to)
<1>1. LinkFilled(c) /\ \A k : Get(c, k) = IF k = to THEN Get(g, from) ELSE Unset
  BY LinkCarry
<1> HIDE DEF c
<1>2. LinkFilled(f ++ c) /\ \A k : Get(f ++ c, k) = IF Get(f, k) # Unset THEN Get(f, k) ELSE Get(c, k)
  BY LinkMerge, <1>1
<1>3. \A k : Get(f ++ c, k) = IF k = to /\ Get(f, to) = Unset THEN Get(g, from) ELSE Get(f, k)
  BY <1>1, <1>2
<1> QED BY <1>2, <1>3 DEF c

LEMMA LinkMergeOpt ==
    ASSUME NEW f, LinkFilled(f), NEW field, NEW value
    PROVE  /\ LinkFilled(f ++ Opt(field, value))
           /\ \A k : Get(f ++ Opt(field, value), k) =
                       IF k = field /\ Get(f, field) = Unset THEN value ELSE Get(f, k)
<1> DEFINE c == Opt(field, value)
<1>1. LinkFilled(c) /\ \A k : Get(c, k) = IF k = field THEN value ELSE Unset
  BY LinkOpt
<1> HIDE DEF c
<1>2. LinkFilled(f ++ c) /\ \A k : Get(f ++ c, k) = IF Get(f, k) # Unset THEN Get(f, k) ELSE Get(c, k)
  BY LinkMerge, <1>1
<1>3. \A k : Get(f ++ c, k) = IF k = field /\ Get(f, field) = Unset THEN value ELSE Get(f, k)
  BY <1>1, <1>2
<1> QED BY <1>2, <1>3 DEF c

LEMMA LinkMerge3 ==
    ASSUME NEW f, NEW g, NEW h, LinkFilled(f), LinkFilled(g), LinkFilled(h)
    PROVE  /\ LinkFilled(f ++ g ++ h)
           /\ \A k : Get(f ++ g ++ h, k) =
                       IF Get(f, k) # Unset THEN Get(f, k)
                       ELSE IF Get(g, k) # Unset THEN Get(g, k) ELSE Get(h, k)
<1>1. /\ LinkFilled(f ++ g)
      /\ \A k : Get(f ++ g, k) = IF Get(f, k) # Unset THEN Get(f, k) ELSE Get(g, k)
  BY LinkMerge
<1>2. /\ LinkFilled(f ++ g ++ h)
      /\ \A k : Get(f ++ g ++ h, k) = IF Get(f ++ g, k) # Unset THEN Get(f ++ g, k) ELSE Get(h, k)
  BY <1>1, LinkMerge
<1> QED BY <1>1, <1>2

-----------------------------------------------------------------------------
\* The fields of each representation, read one by one.
TlsParamAt(o, key, k) ==
    CASE k = "security" -> IF Get(o, "reality") = "1" THEN "reality" ELSE "tls"
      [] k \in {"fp", "sni", "alpn"} -> Get(o, k)
      [] Get(o, "reality") = "1" /\ k \in {"pbk", "sid"} -> Get(o, k)
      [] Get(o, "reality") # "1" /\ k = key -> Get(o, "insecure")
      [] Get(o, "reality") # "1" /\ k = "disable_sni" -> Get(o, "disableSni")
      [] OTHER -> Unset

TransportParamAt(o, k) ==
    LET t == Get(o, "transport")
    IN  CASE k = "type" -> IF t = Unset THEN "tcp" ELSE t
          [] t \in {"http", "ws", "httpupgrade"} /\ k \in {"host", "path"} -> Get(o, k)
          [] t = "grpc" /\ k = "serviceName" -> Get(o, "service")
          [] OTHER -> Unset

StreamParamAt(i, o, k) ==
    CASE k \in {"type", "host", "path", "serviceName"} -> TransportParamAt(o, k)
      [] k = "flow" -> IF Secured(o) /\ Plain(i) THEN i.flow ELSE Unset
      [] OTHER -> IF Secured(o) THEN TlsParamAt(o, "allowInsecure", k) ELSE Unset

VmessObjectAt(o, k) ==
    LET t == Get(o, "transport")
    IN  CASE k = "net"  -> IF t \in {Unset, "http"} THEN "tcp" ELSE t
          [] k = "type" -> IF t = "http" THEN "http" ELSE Unset
          [] k = "tls"  -> IF Secured(o) THEN "tls" ELSE "none"
          [] k \in {"host", "path"} -> TransportParamAt(o, k)
          [] Secured(o) /\ k \in {"allowInsecure", "sni", "fp", "alpn"} ->
               TlsParamAt(o, "allowInsecure", k)
          [] OTHER -> Unset

HysteriaParamAt(type, o, k) ==
    CASE k = "downmbps" -> Get(o, "up")
      [] k = "upmbps" -> Get(o, "down")
      [] k = "mport" -> Get(o, "ports")
      [] k = "fastopen" -> Get(o, "fastOpen")
      [] k = "obfs" -> IF Get(o, "obfs") = Unset \/ type = "hysteria" THEN Get(o, "obfs")
                       ELSE "salamander"
      [] k = "obfs-password" -> IF type = "hysteria" THEN Unset ELSE Get(o, "obfs")
      [] OTHER -> TlsParamAt(o, "insecure", k)

GetTlsAt(security, q, k) ==
    CASE k = "tls" -> IF security = Unset THEN Unset ELSE "1"
      [] k = "reality" -> IF security = "reality" THEN "1" ELSE Unset
      [] k \in {"pbk", "sid"} -> IF security = "reality" THEN Get(q, k) ELSE Unset
      [] k \in {"sni", "alpn", "fp", "ech"} -> Get(q, k)
      [] k = "utls" -> IF Get(q, "fp") = Unset THEN Unset ELSE "1"
      [] k = "insecure" -> IF "1" \in {Get(q, "insecure"), Get(q, "allowInsecure")}
                           THEN "1" ELSE Unset
      [] k = "disableSni" -> Get(q, "disable_sni")
      [] OTHER -> Unset

GetTransportAt(type, q, k) ==
    CASE k = "transport" ->
           IF type \in {"http", "ws", "httpupgrade", "grpc", "quic"} THEN type ELSE Unset
      [] type \in {"http", "ws", "httpupgrade"} /\ k \in {"host", "path"} -> Get(q, k)
      [] type = "grpc" /\ k = "service" -> Get(q, "serviceName")
      [] OTHER -> Unset

FromTrojanAt(q, k) ==
    IF k \in {"transport", "host", "path", "service"}
    THEN GetTransportAt(Get(q, "type"), q, k) ELSE GetTlsAt(Get(q, "security"), q, k)

FromVmessAt(q, k) ==
    LET type == IF Get(q, "net") = "tcp" THEN Get(q, "type") ELSE Get(q, "net")
    IN  CASE k = "service" -> IF type = "grpc" THEN Get(q, "path") ELSE Unset
          [] k \in {"transport", "host", "path"} -> GetTransportAt(type, q, k)
          [] k = "earlyData" -> IF type = "ws" THEN "Sec-WebSocket-Protocol" ELSE Unset
          [] OTHER -> IF Get(q, "tls") = "tls" THEN GetTlsAt("tls", q, k) ELSE Unset

OutOptionAt(type, o, k) ==
    CASE k = "down" -> Get(o, "up")
      [] k = "up" -> Get(o, "down")
      [] k = "fastOpen" -> Unset
      [] k = "congestion" /\ type = "tuic" /\ Get(o, "congestion") = Unset -> "cubic"
      [] OTHER -> Get(o, k)

-----------------------------------------------------------------------------
\* The links.
LEMMA LinkTlsParams ==
    ASSUME NEW o, LinkFilled(o), NEW key \in {"insecure", "allowInsecure"}
    PROVE  /\ LinkFilled(TlsParams(o, key))
           /\ \A k : Get(TlsParams(o, key), k) = TlsParamAt(o, key, k)
<1> DEFINE real  == One("security", "reality") ++ Carry(o, "pbk", "pbk") ++ Carry(o, "sid", "sid")
           plain == One("security", "tls") ++ Carry(o, "insecure", key)
                      ++ Carry(o, "disableSni", "disable_sni")
           head  == IF Get(o, "reality") = "1" THEN real ELSE plain
           tail1 == head ++ Carry(o, "fp", "fp")
           tail2 == tail1 ++ Carry(o, "sni", "sni")
           tail3 == tail2 ++ Carry(o, "alpn", "alpn")
<1>1. /\ LinkFilled(real)
      /\ \A k : Get(real, k) = IF k = "security" THEN "reality"
                               ELSE IF k \in {"pbk", "sid"} THEN Get(o, k) ELSE Unset
  BY LinkMergeCarry, LinkOne DEF Unset
<1>2. /\ LinkFilled(plain)
      /\ \A k : Get(plain, k) = IF k = "security" THEN "tls"
                                ELSE IF k = key THEN Get(o, "insecure")
                                ELSE IF k = "disable_sni" THEN Get(o, "disableSni") ELSE Unset
  BY LinkMergeCarry, LinkOne DEF Unset
<1> HIDE DEF real, plain
<1>3. /\ LinkFilled(head)
      /\ \A k : Get(head, k) = IF k \in {"fp", "sni", "alpn"} THEN Unset ELSE TlsParamAt(o, key, k)
  BY <1>1, <1>2 DEF TlsParamAt
<1> HIDE DEF head
<1>4. /\ LinkFilled(tail1)
      /\ \A k : Get(tail1, k) = IF k = "fp" THEN Get(o, k) ELSE Get(head, k)
  BY <1>3, LinkMergeCarry
<1> HIDE DEF tail1
<1>5. /\ LinkFilled(tail2)
      /\ \A k : Get(tail2, k) = IF k = "sni" THEN Get(o, k) ELSE Get(tail1, k)
  BY <1>3, <1>4, LinkMergeCarry
<1> HIDE DEF tail2
<1>6. /\ LinkFilled(tail3)
      /\ \A k : Get(tail3, k) = IF k = "alpn" THEN Get(o, k) ELSE Get(tail2, k)
  BY <1>3, <1>4, <1>5, LinkMergeCarry
<1>7. TlsParams(o, key) = tail3
  BY DEF TlsParams, tail3, tail2, tail1, head, real, plain
<1> HIDE DEF tail3
<1> QED BY <1>3, <1>4, <1>5, <1>6, <1>7 DEF TlsParamAt

LEMMA LinkTransportParams ==
    ASSUME NEW o, LinkFilled(o)
    PROVE  /\ LinkFilled(TransportParams(o))
           /\ \A k : Get(TransportParams(o), k) = TransportParamAt(o, k)
<1> DEFINE t    == Get(o, "transport")
           type == One("type", IF t = Unset THEN "tcp" ELSE t)
           http == Carry(o, "host", "host") ++ Carry(o, "path", "path")
           mid  == IF t \in {"http", "ws", "httpupgrade"} THEN http ELSE None
           last == IF t = "grpc" THEN Carry(o, "service", "serviceName") ELSE None
<1>1. /\ LinkFilled(type)
      /\ \A k : Get(type, k) = IF k = "type" THEN IF t = Unset THEN "tcp" ELSE t ELSE Unset
  BY LinkOne DEF Unset
<1>2. LinkFilled(http) /\ \A k : Get(http, k) = IF k \in {"host", "path"} THEN Get(o, k) ELSE Unset
  BY LinkMergeCarry, LinkCarry
<1> HIDE DEF http
<1>3. /\ LinkFilled(mid)
      /\ \A k : Get(mid, k) = IF t \in {"http", "ws", "httpupgrade"} /\ k \in {"host", "path"}
                              THEN Get(o, k) ELSE Unset
  BY <1>2, LinkNone
<1>4. /\ LinkFilled(last)
      /\ \A k : Get(last, k) = IF t = "grpc" /\ k = "serviceName" THEN Get(o, "service") ELSE Unset
  BY LinkCarry, LinkNone
<1> HIDE DEF type, mid, last
<1>5. /\ LinkFilled(type ++ mid ++ last)
      /\ \A k : Get(type ++ mid ++ last, k) =
                  IF Get(type, k) # Unset THEN Get(type, k)
                  ELSE IF Get(mid, k) # Unset THEN Get(mid, k) ELSE Get(last, k)
  BY <1>1, <1>3, <1>4, LinkMerge3
<1>6. TransportParams(o) = type ++ mid ++ last
  BY DEF TransportParams, type, mid, last, http
<1> QED BY <1>1, <1>3, <1>4, <1>5, <1>6 DEF TransportParamAt, Unset

LEMMA LinkFlowParam ==
    ASSUME NEW i, NEW o
    PROVE  /\ LinkFilled(FlowParam(i, o))
           /\ \A k : Get(FlowParam(i, o), k) =
                       IF k = "flow" /\ Secured(o) /\ Plain(i) THEN i.flow ELSE Unset
  BY LinkOpt, LinkNone DEF FlowParam

LEMMA LinkOutFlow ==
    ASSUME NEW i
    PROVE  /\ LinkFilled(OutFlow(i))
           /\ \A k : Get(OutFlow(i), k) =
                       IF k = "flow" /\ HasTls(i) /\ Plain(i) THEN i.flow ELSE Unset
  BY LinkOpt, LinkNone DEF OutFlow

LEMMA LinkStreamParams ==
    ASSUME NEW i, NEW o, LinkFilled(o)
    PROVE  /\ LinkFilled(StreamParams(i, o))
           /\ \A k : Get(StreamParams(i, o), k) = StreamParamAt(i, o, k)
<1> DEFINE a == TransportParams(o)
           b == FlowParam(i, o)
           p == TlsParams(o, "allowInsecure")
           c == IF Secured(o) THEN p ELSE None
<1>1. LinkFilled(a) /\ \A k : Get(a, k) = TransportParamAt(o, k)
  BY LinkTransportParams
<1>2. /\ LinkFilled(b)
      /\ \A k : Get(b, k) = IF k = "flow" /\ Secured(o) /\ Plain(i) THEN i.flow ELSE Unset
  BY LinkFlowParam
<1>3. LinkFilled(p) /\ \A k : Get(p, k) = TlsParamAt(o, "allowInsecure", k)
  BY LinkTlsParams
<1> HIDE DEF p, a, b
<1>4. LinkFilled(c) /\ \A k : Get(c, k) = IF Secured(o) THEN Get(p, k) ELSE Unset
  BY <1>3, LinkNone
<1> HIDE DEF c
<1>5. /\ LinkFilled(a ++ b ++ c)
      /\ \A k : Get(a ++ b ++ c, k) = IF Get(a, k) # Unset THEN Get(a, k)
                                      ELSE IF Get(b, k) # Unset THEN Get(b, k) ELSE Get(c, k)
  BY <1>1, <1>2, <1>4, LinkMerge3
<1>6. StreamParams(i, o) = a ++ b ++ c
  BY DEF StreamParams, a, b, c, p
<1> QED BY <1>1, <1>2, <1>3, <1>4, <1>5, <1>6 DEF StreamParamAt, TransportParamAt, TlsParamAt, Unset

LEMMA LinkVmessObject ==
    ASSUME NEW o, LinkFilled(o)
    PROVE  /\ LinkFilled(VmessObject(o))
           /\ \A k : Get(VmessObject(o), k) = VmessObjectAt(o, k)
<1> DEFINE t == Get(TransportParams(o), "type")
           a == One("net", IF t = "http" THEN "tcp" ELSE t)
           b == IF t = "http" THEN One("type", "http") ELSE None
           c == Only(TransportParams(o), {"host", "path"})
           p == One("tls", "tls") ++ Only(TlsParams(o, "allowInsecure"),
                                          {"allowInsecure", "sni", "fp", "alpn"})
           d == IF Secured(o) THEN p ELSE One("tls", "none")
           e == a ++ b ++ c
<1>1. /\ LinkFilled(TransportParams(o))
      /\ \A k : Get(TransportParams(o), k) = TransportParamAt(o, k)
  BY LinkTransportParams
<1>2. t = IF Get(o, "transport") = Unset THEN "tcp" ELSE Get(o, "transport")
  BY <1>1 DEF TransportParamAt
<1>3. LinkFilled(a) /\ \A k : Get(a, k) = IF k = "net" THEN IF t = "http" THEN "tcp" ELSE t ELSE Unset
  BY <1>2, LinkOne DEF Unset
<1>4. LinkFilled(b) /\ \A k : Get(b, k) = IF k = "type" /\ t = "http" THEN "http" ELSE Unset
  BY LinkOne, LinkNone DEF Unset
<1>5. LinkFilled(c) /\ \A k : Get(c, k) = IF k \in {"host", "path"} THEN TransportParamAt(o, k) ELSE Unset
  BY <1>1, LinkOnly
<1>6. /\ LinkFilled(p)
      /\ \A k : Get(p, k) = IF k = "tls" THEN "tls"
                            ELSE IF k \in {"allowInsecure", "sni", "fp", "alpn"}
                            THEN TlsParamAt(o, "allowInsecure", k) ELSE Unset
  <2> DEFINE x == One("tls", "tls")
             m == TlsParams(o, "allowInsecure")
             y == Only(m, {"allowInsecure", "sni", "fp", "alpn"})
  <2>1. LinkFilled(x) /\ \A k : Get(x, k) = IF k = "tls" THEN "tls" ELSE Unset
    BY LinkOne DEF Unset
  <2>2. LinkFilled(m) /\ \A k : Get(m, k) = TlsParamAt(o, "allowInsecure", k)
    BY LinkTlsParams
  <2> HIDE DEF m
  <2>3. /\ LinkFilled(y)
        /\ \A k : Get(y, k) = IF k \in {"allowInsecure", "sni", "fp", "alpn"} THEN Get(m, k) ELSE Unset
    BY <2>2, LinkOnly
  <2> HIDE DEF x, y
  <2>4. LinkFilled(x ++ y) /\ \A k : Get(x ++ y, k) = IF Get(x, k) # Unset THEN Get(x, k) ELSE Get(y, k)
    BY <2>1, <2>3, LinkMerge
  <2>5. p = x ++ y
    BY DEF p, x, y, m
  <2> HIDE DEF p
  <2> QED BY <2>1, <2>2, <2>3, <2>4, <2>5 DEF Unset
<1> HIDE DEF p
<1>7. /\ LinkFilled(d)
      /\ \A k : Get(d, k) = IF Secured(o) THEN Get(p, k) ELSE IF k = "tls" THEN "none" ELSE Unset
  BY <1>6, LinkOne DEF Unset
<1> HIDE DEF a, b, c, d
<1>8. /\ LinkFilled(e)
      /\ \A k : Get(e, k) = IF Get(a, k) # Unset THEN Get(a, k)
                            ELSE IF Get(b, k) # Unset THEN Get(b, k) ELSE Get(c, k)
  BY <1>3, <1>4, <1>5, LinkMerge3
<1> HIDE DEF e
<1>9. LinkFilled(e ++ d) /\ \A k : Get(e ++ d, k) = IF Get(e, k) # Unset THEN Get(e, k) ELSE Get(d, k)
  BY <1>7, <1>8, LinkMerge
<1>10. VmessObject(o) = e ++ d
  BY DEF VmessObject, e, d, c, b, a, p
<1> HIDE DEF t
<1> QED BY <1>2, <1>3, <1>4, <1>5, <1>6, <1>7, <1>8, <1>9, <1>10 DEF VmessObjectAt, Unset

LEMMA LinkHysteriaParams ==
    ASSUME NEW o, LinkFilled(o), NEW type
    PROVE  /\ LinkFilled(HysteriaParams(type, o))
           /\ \A k : Get(HysteriaParams(type, o), k) = HysteriaParamAt(type, o, k)
<1> DEFINE a == SpeedParams(o)
           b == TlsParams(o, "insecure")
           ab == a ++ b
           c0 == ab ++ Carry(o, "ports", "mport")
           c == c0 ++ Carry(o, "fastOpen", "fastopen")
           x == One("obfs", o["obfs"])
           y == One("obfs", "salamander") ++ One("obfs-password", o["obfs"])
           d == IF Get(o, "obfs") = Unset THEN None ELSE IF type = "hysteria" THEN x ELSE y
           e == c ++ d
<1>1. /\ LinkFilled(a)
      /\ \A k : Get(a, k) = IF k = "downmbps" THEN Get(o, "up")
                            ELSE IF k = "upmbps" THEN Get(o, "down") ELSE Unset
  BY LinkCarry, LinkMergeCarry DEF SpeedParams
<1>2. LinkFilled(b) /\ \A k : Get(b, k) = TlsParamAt(o, "insecure", k)
  BY LinkTlsParams
<1> HIDE DEF a, b
<1>3. LinkFilled(ab) /\ \A k : Get(ab, k) = IF Get(a, k) # Unset THEN Get(a, k) ELSE Get(b, k)
  BY <1>1, <1>2, LinkMerge
<1> HIDE DEF ab
<1>4. Get(ab, "mport") = Unset
  BY <1>1, <1>2, <1>3 DEF TlsParamAt
<1>5a. LinkFilled(c0) /\ \A k : Get(c0, k) = IF k = "mport" THEN Get(o, "ports") ELSE Get(ab, k)
  BY <1>3, <1>4, LinkMergeCarry
<1> HIDE DEF c0
<1>5b. Get(c0, "fastopen") = Unset
  BY <1>1, <1>2, <1>3, <1>5a DEF TlsParamAt
<1>5. LinkFilled(c) /\ \A k : Get(c, k) = CASE k = "fastopen" -> Get(o, "fastOpen")
                                            [] k = "mport" -> Get(o, "ports") [] OTHER -> Get(ab, k)
  BY <1>5a, <1>5b, LinkMergeCarry
<1> HIDE DEF c
<1>6. Get(o, "obfs") # Unset => Get(o, "obfs") = o["obfs"]
  BY DEF Get
<1>7. /\ LinkFilled(d)
      /\ \A k : Get(d, k) =
           IF Get(o, "obfs") = Unset THEN Unset
           ELSE CASE k = "obfs" -> IF type = "hysteria" THEN Get(o, "obfs") ELSE "salamander"
                  [] k = "obfs-password" -> IF type = "hysteria" THEN Unset ELSE Get(o, "obfs")
                  [] OTHER -> Unset
  <2>1. Get(o, "obfs") # Unset => LinkFilled(x) /\ \A k : Get(x, k) = IF k = "obfs" THEN Get(o, "obfs") ELSE Unset
    BY <1>6, LinkOne
  <2>2. ASSUME Get(o, "obfs") # Unset
        PROVE  /\ LinkFilled(y)
               /\ \A k : Get(y, k) = CASE k = "obfs" -> "salamander"
                                       [] k = "obfs-password" -> Get(o, "obfs")
                                       [] OTHER -> Unset
    <3> DEFINE u == One("obfs", "salamander")
               v == One("obfs-password", o["obfs"])
    <3>1. LinkFilled(u) /\ \A k : Get(u, k) = IF k = "obfs" THEN "salamander" ELSE Unset
      BY LinkOne DEF Unset
    <3>2. LinkFilled(v) /\ \A k : Get(v, k) = IF k = "obfs-password" THEN Get(o, "obfs") ELSE Unset
      BY <1>6, <2>2, LinkOne
    <3> HIDE DEF u, v
    <3>3. LinkFilled(u ++ v) /\ \A k : Get(u ++ v, k) = IF Get(u, k) # Unset THEN Get(u, k) ELSE Get(v, k)
      BY <3>1, <3>2, LinkMerge
    <3>4. y = u ++ v
      BY DEF y, u, v
    <3> HIDE DEF y
    <3> QED BY <3>1, <3>2, <3>3, <3>4 DEF Unset
  <2> HIDE DEF x, y
  <2> QED BY <2>1, <2>2, LinkNone
<1> HIDE DEF d
<1>8. LinkFilled(e) /\ \A k : Get(e, k) = IF Get(c, k) # Unset THEN Get(c, k) ELSE Get(d, k)
  BY <1>5, <1>7, LinkMerge
<1>9. HysteriaParams(type, o) = e
  BY DEF HysteriaParams, e, d, c, c0, ab, b, a, x, y
<1> HIDE DEF e
<1> QED BY <1>1, <1>2, <1>3, <1>4, <1>5, <1>7, <1>8, <1>9 DEF HysteriaParamAt, TlsParamAt, Unset

LEMMA LinkTuicParams ==
    ASSUME NEW o, LinkFilled(o)
    PROVE  /\ LinkFilled(TuicParams(o))
           /\ \A k : Get(TuicParams(o), k) =
                CASE k = "congestion_control" -> Get(o, "congestion")
                  [] k = "udp_relay_mode" -> IF Get(o, "mode") = Unset THEN "quic" ELSE Get(o, "mode")
                  [] OTHER -> TlsParamAt(o, "insecure", k)
<1> DEFINE a == TlsParams(o, "insecure")
           b == a ++ Carry(o, "congestion", "congestion_control")
           v == IF Get(o, "mode") = Unset THEN "quic" ELSE o["mode"]
           c == One("udp_relay_mode", v)
<1>1. LinkFilled(a) /\ \A k : Get(a, k) = TlsParamAt(o, "insecure", k)
  BY LinkTlsParams
<1> HIDE DEF a
<1>2. /\ LinkFilled(b)
      /\ \A k : Get(b, k) = IF k = "congestion_control" /\ Get(a, k) = Unset
                            THEN Get(o, "congestion") ELSE Get(a, k)
  BY <1>1, LinkMergeCarry
<1> HIDE DEF b
<1>3. v = (IF Get(o, "mode") = Unset THEN "quic" ELSE Get(o, "mode")) /\ v # Unset
  BY DEF Get, Unset
<1> HIDE DEF v
<1>4. LinkFilled(c) /\ \A k : Get(c, k) = IF k = "udp_relay_mode" THEN v ELSE Unset
  BY <1>3, LinkOne
<1> HIDE DEF c
<1>5. LinkFilled(b ++ c) /\ \A k : Get(b ++ c, k) = IF Get(b, k) # Unset THEN Get(b, k) ELSE Get(c, k)
  BY <1>2, <1>4, LinkMerge
<1>6. TuicParams(o) = b ++ c
  BY DEF TuicParams, c, b, a, v
<1> QED BY <1>1, <1>2, <1>3, <1>4, <1>5, <1>6 DEF TlsParamAt

LEMMA LinkNaiveParams ==
    ASSUME NEW o, LinkFilled(o)
    PROVE  /\ LinkFilled(NaiveParams(o))
           /\ \A k : Get(NaiveParams(o), k) =
                CASE k = "peer" -> Get(o, "sni")
                  [] k \in {"alpn", "insecure"} -> Get(o, k)
                  [] OTHER -> Unset
  BY LinkCarry, LinkMergeCarry DEF NaiveParams

-----------------------------------------------------------------------------
\* The outbounds read from them.
LEMMA LinkGetTls ==
    ASSUME NEW q, LinkFilled(q), NEW security
    PROVE  /\ LinkFilled(GetTls(security, q))
           /\ \A k : Get(GetTls(security, q), k) = GetTlsAt(security, q, k)
<1> DEFINE r == One("reality", "1") ++ Carry(q, "pbk", "pbk") ++ Carry(q, "sid", "sid")
           a == IF security = Unset THEN None ELSE One("tls", "1")
           b == IF security = "reality" THEN r ELSE None
           ab == a ++ b
           c == ab ++ Carry(q, "sni", "sni")
           d == c ++ Carry(q, "alpn", "alpn")
           e == d ++ Carry(q, "fp", "fp")
           f == IF "1" \in {Get(q, "insecure"), Get(q, "allowInsecure")}
                THEN One("insecure", "1") ELSE None
           u == IF Get(q, "fp") = Unset THEN None ELSE One("utls", "1")
           eu == e ++ u
           ec == eu ++ Carry(q, "ech", "ech")
           ef == ec ++ f
           g == ef ++ Carry(q, "disable_sni", "disableSni")
<1>1. /\ LinkFilled(r)
      /\ \A k : Get(r, k) = IF k = "reality" THEN "1"
                            ELSE IF k \in {"pbk", "sid"} THEN Get(q, k) ELSE Unset
  BY LinkMergeCarry, LinkOne DEF Unset
<1> HIDE DEF r
<1>2. /\ LinkFilled(a)
      /\ \A k : Get(a, k) = IF k = "tls" /\ security # Unset THEN "1" ELSE Unset
  BY LinkOne, LinkNone DEF Unset
<1>3. /\ LinkFilled(b)
      /\ \A k : Get(b, k) = IF security = "reality" THEN Get(r, k) ELSE Unset
  BY <1>1, LinkNone
<1>4. /\ LinkFilled(f)
      /\ \A k : Get(f, k) = IF /\ k = "insecure"
                               /\ "1" \in {Get(q, "insecure"), Get(q, "allowInsecure")}
                            THEN "1" ELSE Unset
  BY LinkOne, LinkNone DEF Unset
<1>4u. /\ LinkFilled(u)
       /\ \A k : Get(u, k) = IF k = "utls" /\ Get(q, "fp") # Unset THEN "1" ELSE Unset
  BY LinkOne, LinkNone DEF Unset
<1> HIDE DEF a, b, f, u
<1>5. /\ LinkFilled(ab)
      /\ \A k : Get(ab, k) = IF k \in {"sni", "alpn", "fp", "utls", "ech", "insecure", "disableSni"} THEN Unset
                             ELSE GetTlsAt(security, q, k)
  <2>1. /\ LinkFilled(ab)
        /\ \A k : Get(ab, k) = IF Get(a, k) # Unset THEN Get(a, k) ELSE Get(b, k)
    BY <1>2, <1>3, LinkMerge
  <2> HIDE DEF ab
  <2> QED BY <1>1, <1>2, <1>3, <2>1 DEF GetTlsAt, Unset
<1> HIDE DEF ab
<1>6. /\ LinkFilled(c)
      /\ \A k : Get(c, k) = IF k = "sni" THEN Get(q, k) ELSE Get(ab, k)
  BY <1>5, LinkMergeCarry
<1> HIDE DEF c
<1>7. /\ LinkFilled(d)
      /\ \A k : Get(d, k) = IF k = "alpn" THEN Get(q, k) ELSE Get(c, k)
  BY <1>5, <1>6, LinkMergeCarry
<1> HIDE DEF d
<1>8. /\ LinkFilled(e)
      /\ \A k : Get(e, k) = IF k = "fp" THEN Get(q, k) ELSE Get(d, k)
  BY <1>5, <1>6, <1>7, LinkMergeCarry
<1> HIDE DEF e
<1>8u. /\ LinkFilled(eu)
       /\ \A k : Get(eu, k) = IF Get(e, k) # Unset THEN Get(e, k) ELSE Get(u, k)
  BY <1>4u, <1>8, LinkMerge
<1> HIDE DEF eu
<1>8e. Get(eu, "ech") = Unset
  BY <1>4u, <1>5, <1>6, <1>7, <1>8, <1>8u
<1>8c. /\ LinkFilled(ec)
       /\ \A k : Get(ec, k) = IF k = "ech" THEN Get(q, "ech") ELSE Get(eu, k)
  BY <1>8u, <1>8e, LinkMergeCarry
<1> HIDE DEF ec
<1>9. /\ LinkFilled(ef)
      /\ \A k : Get(ef, k) = IF Get(ec, k) # Unset THEN Get(ec, k) ELSE Get(f, k)
  BY <1>4, <1>8c, LinkMerge
<1> HIDE DEF ef
<1>10. Get(ef, "disableSni") = Unset
  BY <1>4, <1>4u, <1>5, <1>6, <1>7, <1>8, <1>8u, <1>8c, <1>9
<1>11. /\ LinkFilled(g)
       /\ \A k : Get(g, k) = IF k = "disableSni" THEN Get(q, "disable_sni") ELSE Get(ef, k)
  BY <1>9, <1>10, LinkMergeCarry
<1>12. GetTls(security, q) = g
  BY DEF GetTls, g, ef, ec, eu, u, f, e, d, c, ab, b, a, r
<1> HIDE DEF g
<1> QED BY <1>4, <1>4u, <1>5, <1>6, <1>7, <1>8, <1>8u, <1>8c, <1>9, <1>11, <1>12 DEF GetTlsAt, Unset

LEMMA LinkGetTransport ==
    ASSUME NEW type, NEW q, LinkFilled(q)
    PROVE  /\ LinkFilled(GetTransport(type, q))
           /\ \A k : Get(GetTransport(type, q), k) = GetTransportAt(type, q, k)
<1>1. CASE type \in {"http", "ws", "httpupgrade"}
  <2> DEFINE h == One("transport", type) ++ Carry(q, "host", "host") ++ Carry(q, "path", "path")
  <2>1. /\ LinkFilled(h)
        /\ \A k : Get(h, k) = IF k = "transport" THEN type
                              ELSE IF k \in {"host", "path"} THEN Get(q, k) ELSE Unset
    BY <1>1, LinkMergeCarry, LinkOne DEF Unset
  <2>2. GetTransport(type, q) = h
    BY <1>1 DEF GetTransport
  <2> HIDE DEF h
  <2> QED BY <1>1, <2>1, <2>2 DEF GetTransportAt
<1>2. CASE type = "grpc"
  <2> DEFINE h == One("transport", "grpc") ++ Carry(q, "serviceName", "service")
  <2>1. /\ LinkFilled(h)
        /\ \A k : Get(h, k) = IF k = "transport" THEN type
                              ELSE IF k = "service" THEN Get(q, "serviceName") ELSE Unset
    BY <1>2, LinkMergeCarry, LinkOne DEF Unset
  <2>2. GetTransport(type, q) = h
    BY <1>2 DEF GetTransport
  <2> HIDE DEF h
  <2> QED BY <1>2, <2>1, <2>2 DEF GetTransportAt
<1>3. CASE type = "quic"
  <2>1. GetTransport(type, q) = One("transport", "quic")
    BY <1>3 DEF GetTransport
  <2> QED BY <1>3, <2>1, LinkOne DEF GetTransportAt, Unset
<1>4. CASE type \notin {"http", "ws", "httpupgrade", "grpc", "quic"}
  <2>1. GetTransport(type, q) = None
    BY <1>4 DEF GetTransport
  <2> QED BY <1>4, <2>1, LinkNone DEF GetTransportAt
<1> QED BY <1>1, <1>2, <1>3, <1>4

LEMMA LinkFromTrojan ==
    ASSUME NEW q, LinkFilled(q)
    PROVE  /\ LinkFilled(FromTrojan(q))
           /\ \A k : Get(FromTrojan(q), k) = FromTrojanAt(q, k)
<1> DEFINE a == GetTls(Get(q, "security"), q)
           b == GetTransport(Get(q, "type"), q)
<1>1. LinkFilled(a) /\ \A k : Get(a, k) = GetTlsAt(Get(q, "security"), q, k)
  BY LinkGetTls
<1>2. LinkFilled(b) /\ \A k : Get(b, k) = GetTransportAt(Get(q, "type"), q, k)
  BY LinkGetTransport
<1> HIDE DEF a, b
<1>3. LinkFilled(a ++ b) /\ \A k : Get(a ++ b, k) = IF Get(a, k) # Unset THEN Get(a, k) ELSE Get(b, k)
  BY <1>1, <1>2, LinkMerge
<1>4. FromTrojan(q) = a ++ b
  BY DEF FromTrojan, a, b
<1> QED BY <1>1, <1>2, <1>3, <1>4 DEF FromTrojanAt, GetTlsAt, GetTransportAt, Unset

LEMMA LinkFromVless ==
    ASSUME NEW q, LinkFilled(q)
    PROVE  /\ LinkFilled(FromVless(q))
           /\ \A k : Get(FromVless(q), k) = IF k = "flow" THEN Get(q, "flow") ELSE FromTrojanAt(q, k)
<1> DEFINE a == FromTrojan(q)
           b == a ++ Carry(q, "flow", "flow")
<1>1. LinkFilled(a) /\ \A k : Get(a, k) = FromTrojanAt(q, k)
  BY LinkFromTrojan
<1>2. Get(a, "flow") = Unset
  BY <1>1 DEF FromTrojanAt, GetTlsAt
<1> HIDE DEF a
<1>3. LinkFilled(b) /\ \A k : Get(b, k) = IF k = "flow" THEN Get(q, "flow") ELSE Get(a, k)
  BY <1>1, <1>2, LinkMergeCarry
<1>4. FromVless(q) = b
  BY DEF FromVless, b, a
<1> QED BY <1>1, <1>3, <1>4

LEMMA LinkFromVmess ==
    ASSUME NEW q, LinkFilled(q), Get(q, "net") # Unset, Get(q, "tls") # Unset
    PROVE  /\ LinkFilled(FromVmess(q))
           /\ \A k : Get(FromVmess(q), k) = FromVmessAt(q, k)
<1> DEFINE type == IF Get(q, "net") = "tcp" THEN Get(q, "type") ELSE q["net"]
           h == One("transport", "grpc") ++ Carry(q, "path", "service")
           m == GetTransport(type, q)
           a0 == IF type = "grpc" THEN h ELSE m
           w == IF type = "ws" THEN One("earlyData", "Sec-WebSocket-Protocol") ELSE None
           a == a0 ++ w
           n == GetTls("tls", q)
           b == IF q["tls"] = "tls" THEN n ELSE None
<1>1. q["net"] = Get(q, "net") /\ q["tls"] = Get(q, "tls")
  BY DEF Get
<1>2. /\ LinkFilled(h)
      /\ \A k : Get(h, k) = IF k = "transport" THEN "grpc"
                            ELSE IF k = "service" THEN Get(q, "path") ELSE Unset
  BY LinkMergeCarry, LinkOne DEF Unset
<1>3. LinkFilled(m) /\ \A k : Get(m, k) = GetTransportAt(type, q, k)
  BY LinkGetTransport
<1>4. LinkFilled(n) /\ \A k : Get(n, k) = GetTlsAt("tls", q, k)
  BY LinkGetTls
<1> HIDE DEF h, m, n
<1>5a. LinkFilled(a0) /\ \A k : Get(a0, k) = IF type = "grpc" THEN Get(h, k) ELSE Get(m, k)
  BY <1>2, <1>3
<1>5b. /\ LinkFilled(w)
       /\ \A k : Get(w, k) = IF k = "earlyData" /\ type = "ws" THEN "Sec-WebSocket-Protocol" ELSE Unset
  BY LinkOne, LinkNone DEF Unset
<1> HIDE DEF a0, w
<1>5. LinkFilled(a) /\ \A k : Get(a, k) = IF Get(a0, k) # Unset THEN Get(a0, k) ELSE Get(w, k)
  BY <1>5a, <1>5b, LinkMerge
<1>6. LinkFilled(b) /\ \A k : Get(b, k) = IF Get(q, "tls") = "tls" THEN Get(n, k) ELSE Unset
  BY <1>1, <1>4, LinkNone
<1> HIDE DEF a, b
<1>7. LinkFilled(a ++ b) /\ \A k : Get(a ++ b, k) = IF Get(a, k) # Unset THEN Get(a, k) ELSE Get(b, k)
  BY <1>5, <1>6, LinkMerge
<1>8. FromVmess(q) = a ++ b
  BY DEF FromVmess, a, a0, w, b, h, m, n
<1>9. type = IF Get(q, "net") = "tcp" THEN Get(q, "type") ELSE Get(q, "net")
  BY <1>1
<1> HIDE DEF type
<1> QED BY <1>2, <1>3, <1>4, <1>5, <1>5a, <1>5b, <1>6, <1>7, <1>8, <1>9 DEF FromVmessAt, GetTlsAt, GetTransportAt, Unset

LEMMA LinkSecurityOr ==
    ASSUME NEW q
    PROVE  SecurityOr("tls", q) = IF Get(q, "security") = Unset THEN "tls" ELSE Get(q, "security")
  BY DEF SecurityOr, Get, Unset

LEMMA LinkFromHysteria ==
    ASSUME NEW q, LinkFilled(q), NEW type
    PROVE  /\ LinkFilled(FromHysteria(type, q))
           /\ \A k : Get(FromHysteria(type, q), k) =
                CASE k = "up" -> Get(q, "upmbps")
                  [] k = "down" -> Get(q, "downmbps")
                  [] k = "ports" -> IF type = "hysteria" THEN Unset ELSE Get(q, "mport")
                  [] k = "obfs" -> IF type = "hysteria" THEN Get(q, "obfsParam")
                                   ELSE IF Get(q, "obfs") = "salamander"
                                   THEN Get(q, "obfs-password") ELSE Unset
                  [] k = "recvWindow" -> IF type = "hysteria" THEN Get(q, "recv_window_conn") ELSE Unset
                  [] k = "fastOpen" -> IF type = "hysteria" THEN Unset ELSE Get(q, "fastopen")
                  [] OTHER -> GetTlsAt(SecurityOr("tls", q), q, k)
<1> DEFINE a == GetTls(SecurityOr("tls", q), q)
           b == a ++ Carry(q, "upmbps", "up")
           c == b ++ Carry(q, "downmbps", "down")
           u == Carry(q, "mport", "ports") ++ Carry(q, "fastopen", "fastOpen")
           v == IF Get(q, "obfs") = "salamander" THEN Carry(q, "obfs-password", "obfs") ELSE None
           w == u ++ v
           z == Carry(q, "obfsParam", "obfs") ++ Carry(q, "recv_window_conn", "recvWindow")
           d == IF type = "hysteria" THEN z ELSE w
<1>1. LinkFilled(a) /\ \A k : Get(a, k) = GetTlsAt(SecurityOr("tls", q), q, k)
  BY LinkGetTls
<1> HIDE DEF a
<1>2. \A k \in {"up", "down", "ports", "obfs", "recvWindow", "fastOpen"} : Get(a, k) = Unset
  BY <1>1 DEF GetTlsAt
<1>3. LinkFilled(b) /\ \A k : Get(b, k) = IF k = "up" THEN Get(q, "upmbps") ELSE Get(a, k)
  BY <1>1, <1>2, LinkMergeCarry
<1> HIDE DEF b
<1>4. LinkFilled(c) /\ \A k : Get(c, k) = IF k = "down" THEN Get(q, "downmbps") ELSE Get(b, k)
  BY <1>2, <1>3, LinkMergeCarry
<1> HIDE DEF c
<1>5. LinkFilled(u) /\ \A k : Get(u, k) = IF k = "ports" THEN Get(q, "mport")
                                           ELSE IF k = "fastOpen" THEN Get(q, "fastopen") ELSE Unset
  BY LinkCarry, LinkMergeCarry
<1>6. /\ LinkFilled(v)
      /\ \A k : Get(v, k) = IF k = "obfs" /\ Get(q, "obfs") = "salamander"
                            THEN Get(q, "obfs-password") ELSE Unset
  BY LinkCarry, LinkNone
<1> HIDE DEF u, v
<1>7. LinkFilled(w) /\ \A k : Get(w, k) = IF Get(u, k) # Unset THEN Get(u, k) ELSE Get(v, k)
  BY <1>5, <1>6, LinkMerge
<1> HIDE DEF w
<1>8z. LinkFilled(z) /\ \A k : Get(z, k) = IF k = "obfs" THEN Get(q, "obfsParam")
                                           ELSE IF k = "recvWindow" THEN Get(q, "recv_window_conn") ELSE Unset
  BY LinkCarry, LinkMergeCarry
<1> HIDE DEF z
<1>8. /\ LinkFilled(d)
      /\ \A k : Get(d, k) = IF type = "hysteria" THEN Get(z, k) ELSE Get(w, k)
  BY <1>7, <1>8z
<1> HIDE DEF d
<1>9. LinkFilled(c ++ d) /\ \A k : Get(c ++ d, k) = IF Get(c, k) # Unset THEN Get(c, k) ELSE Get(d, k)
  BY <1>4, <1>8, LinkMerge
<1>10. FromHysteria(type, q) = c ++ d
  BY DEF FromHysteria, d, c, b, a, w, u, v, z
<1> QED BY <1>1, <1>2, <1>3, <1>4, <1>5, <1>6, <1>7, <1>8z, <1>8, <1>9, <1>10

LEMMA LinkFromTuic ==
    ASSUME NEW q, LinkFilled(q)
    PROVE  /\ LinkFilled(FromTuic(q))
           /\ \A k : Get(FromTuic(q), k) =
                CASE k = "mode" -> Get(q, "udp_relay_mode")
                  [] k = "congestion" -> Get(q, "congestion_control")
                  [] OTHER -> GetTlsAt(SecurityOr("tls", q), q, k)
<1> DEFINE a == GetTls(SecurityOr("tls", q), q)
           b == a ++ Carry(q, "udp_relay_mode", "mode")
           c == b ++ Carry(q, "congestion_control", "congestion")
<1>1. LinkFilled(a) /\ \A k : Get(a, k) = GetTlsAt(SecurityOr("tls", q), q, k)
  BY LinkGetTls
<1> HIDE DEF a
<1>2. \A k \in {"mode", "congestion"} : Get(a, k) = Unset
  BY <1>1 DEF GetTlsAt
<1>3. LinkFilled(b) /\ \A k : Get(b, k) = IF k = "mode" THEN Get(q, "udp_relay_mode") ELSE Get(a, k)
  BY <1>1, <1>2, LinkMergeCarry
<1> HIDE DEF b
<1>4. LinkFilled(c) /\ \A k : Get(c, k) = IF k = "congestion" THEN Get(q, "congestion_control") ELSE Get(b, k)
  BY <1>2, <1>3, LinkMergeCarry
<1>5. FromTuic(q) = c
  BY DEF FromTuic, FromAnytls, c, b, a
<1> QED BY <1>1, <1>3, <1>4, <1>5

LEMMA LinkFromNaive ==
    ASSUME NEW q, LinkFilled(q)
    PROVE  /\ LinkFilled(FromNaive(q))
           /\ \A k : Get(FromNaive(q), k) =
                CASE k = "tls" -> "1"
                  [] k = "sni" -> Get(q, "peer")
                  [] k \in {"alpn", "insecure"} -> Get(q, k)
                  [] OTHER -> Unset
<1> DEFINE a == One("tls", "1") ++ Carry(q, "peer", "sni")
           b == a ++ Carry(q, "alpn", "alpn")
           c == b ++ Carry(q, "insecure", "insecure")
<1>1. /\ LinkFilled(a)
      /\ \A k : Get(a, k) = IF k = "tls" THEN "1" ELSE IF k = "sni" THEN Get(q, "peer") ELSE Unset
  BY LinkMergeCarry, LinkOne DEF Unset
<1> HIDE DEF a
<1>2. LinkFilled(b) /\ \A k : Get(b, k) = IF k = "alpn" THEN Get(q, k) ELSE Get(a, k)
  BY <1>1, LinkMergeCarry
<1> HIDE DEF b
<1>3. LinkFilled(c) /\ \A k : Get(c, k) = IF k = "insecure" THEN Get(q, k) ELSE Get(b, k)
  BY <1>1, <1>2, LinkMergeCarry
<1>4. FromNaive(q) = c
  BY DEF FromNaive, c, b, a
<1> QED BY <1>1, <1>2, <1>3, <1>4

-----------------------------------------------------------------------------
\* The outbound of the JSON subscription.
LinkQuic == {"quic", "quicControl"}

LEMMA LinkOutOptions ==
    ASSUME NEW o, LinkFilled(o), NEW type
    PROVE  /\ LinkFilled(OutOptions(type, o))
           /\ \A k : k \notin LinkQuic => Get(OutOptions(type, o), k) = OutOptionAt(type, o, k)
<1> DEFINE a == Only(o, DOMAIN o \ {"up", "down", "fastOpen", "quicControl"})
           b == a ++ Carry(o, "up", "down")
           c == b ++ Carry(o, "down", "up")
           d == IF type = "tuic" THEN One("congestion", "cubic") ELSE None
           e == c ++ d
           q == IF Get(o, "quicControl") = Unset THEN None ELSE NaiveQuic(o["quicControl"])
           h == e ++ q
<1>1. /\ LinkFilled(a)
      /\ \A k : Get(a, k) = IF k \in {"up", "down", "fastOpen", "quicControl"} THEN Unset ELSE Get(o, k)
  BY LinkOnly DEF Get
<1> HIDE DEF a
<1>2. LinkFilled(b) /\ \A k : Get(b, k) = IF k = "down" THEN Get(o, "up") ELSE Get(a, k)
  BY <1>1, LinkMergeCarry
<1> HIDE DEF b
<1>3. LinkFilled(c) /\ \A k : Get(c, k) = IF k = "up" THEN Get(o, "down") ELSE Get(b, k)
  BY <1>1, <1>2, LinkMergeCarry
<1> HIDE DEF c
<1>4. /\ LinkFilled(d)
      /\ \A k : Get(d, k) = IF type = "tuic" /\ k = "congestion" THEN "cubic" ELSE Unset
  BY LinkOne, LinkNone DEF Unset
<1> HIDE DEF d
<1>5. LinkFilled(e) /\ \A k : Get(e, k) = IF Get(c, k) # Unset THEN Get(c, k) ELSE Get(d, k)
  BY <1>3, <1>4, LinkMerge
<1> HIDE DEF e
<1>6. LinkFilled(q) /\ \A k : k \notin LinkQuic => Get(q, k) = Unset
  <2>1. CASE Get(o, "quicControl") = Unset
    BY <2>1, LinkNone
  <2>2. CASE Get(o, "quicControl") # Unset
    <3> DEFINE v == CASE o["quicControl"] = "bbr_standard" -> "bbr"
                      [] o["quicControl"] = "bbr2_variant" -> "bbr2"
                      [] OTHER -> o["quicControl"]
               x == One("quic", "1")
               y == One("quicControl", v)
    <3>1. v # Unset
      BY <2>2 DEF Get, Unset
    <3> HIDE DEF v
    <3>2. LinkFilled(x) /\ \A k : k # "quic" => Get(x, k) = Unset
      BY LinkOne DEF Unset
    <3>3. LinkFilled(y) /\ \A k : k # "quicControl" => Get(y, k) = Unset
      BY <3>1, LinkOne
    <3>4. q = x ++ y
      BY <2>2 DEF NaiveQuic, v
    <3> HIDE DEF x, y, q
    <3> QED BY <3>2, <3>3, <3>4, LinkMerge DEF LinkQuic
  <2> QED BY <2>1, <2>2
<1> HIDE DEF q
<1>7. LinkFilled(h) /\ \A k : Get(h, k) = IF Get(e, k) # Unset THEN Get(e, k) ELSE Get(q, k)
  BY <1>5, <1>6, LinkMerge
<1>8. OutOptions(type, o) = h
  BY DEF OutOptions, h, q, e, d, c, b, a
<1> HIDE DEF h
<1> QED BY <1>1, <1>2, <1>3, <1>4, <1>5, <1>6, <1>7, <1>8 DEF OutOptionAt, LinkQuic

\* The outbound of the JSON subscription, for the options one address sees.
JsonOf(i, o) == OutOptions(i.type, o) ++ OutFlow(i)

\* What is true of the options of an inbound, whatever the values of its fields.
LinkTlsFields ==
    {"tls", "sni", "alpn", "fp", "utls", "insecure", "disableSni", "reality", "pbk", "sid"} \cup JsonTls
LinkFields(type) ==
    LinkTlsFields \cup
    (CASE type \in OverTransport -> {"transport", "host", "path", "service", "earlyData", "mux"}
       [] type \in {"hysteria", "hysteria2"} ->
            {"up", "down", "obfs", "ports", "fastOpen", "recvWindow", "mtuDiscovery"}
       [] type = "tuic" -> {"mode", "congestion", "zeroRtt", "heartbeat"}
       [] type = "naive" -> {"quicControl"}
       [] OTHER -> {})
LinkOptions(type, o) ==
    /\ LinkFilled(o)
    /\ \A k : k \notin LinkFields(type) => Get(o, k) = Unset
    /\ \A k \in {"tls", "utls", "reality", "insecure", "disableSni"} : Get(o, k) \in {Unset, "1"}
    /\ Get(o, "tls") = Unset => \A k \in LinkTlsFields : Get(o, k) = Unset
    /\ Get(o, "reality") = "1" => Get(o, "insecure") = Unset /\ Get(o, "disableSni") = Unset
    /\ Get(o, "reality") = Unset => Get(o, "pbk") = Unset /\ Get(o, "sid") = Unset
    /\ Get(o, "transport") \in {Unset, "quic", "grpc", "http", "ws", "httpupgrade"}
    /\ Get(o, "transport") # "grpc" => Get(o, "service") = Unset
    /\ Get(o, "transport") \notin {"http", "ws", "httpupgrade"} =>
         Get(o, "host") = Unset /\ Get(o, "path") = Unset
    /\ type \in OverQuic \cup {"anytls", "naive"} => Get(o, "tls") = "1"
    /\ type = "shadowsocks" => Get(o, "tls") = Unset

\* An inbound and the options one of its addresses sees.
LinkInbound(i, o) ==
    /\ i.type \in LinkTypes
    /\ i.type # "vless" => i.flow = Unset
    /\ LinkOptions(i.type, o)
    /\ \A k : k \notin {"sni", "tls"} => Get(o, k) = Get(i.options, k)
    /\ HasTls(i) => Secured(o)

LEMMA LinkJsonOf ==
    ASSUME NEW i, NEW o, LinkOptions(i.type, o)
    PROVE  /\ LinkFilled(JsonOf(i, o))
           /\ \A k : k \notin LinkQuic => Get(JsonOf(i, o), k) =
                       IF k = "flow" /\ HasTls(i) /\ Plain(i) THEN i.flow ELSE OutOptionAt(i.type, o, k)
<1> DEFINE a == OutOptions(i.type, o)
           b == OutFlow(i)
<1>1. LinkFilled(a) /\ \A k : k \notin LinkQuic => Get(a, k) = OutOptionAt(i.type, o, k)
  BY LinkOutOptions DEF LinkOptions
<1>2. LinkFilled(b) /\ \A k : Get(b, k) = IF k = "flow" /\ HasTls(i) /\ Plain(i) THEN i.flow ELSE Unset
  BY LinkOutFlow
<1> HIDE DEF a, b
<1>3. LinkFilled(a ++ b) /\ \A k : Get(a ++ b, k) = IF Get(a, k) # Unset THEN Get(a, k) ELSE Get(b, k)
  BY <1>1, <1>2, LinkMerge
<1>4. JsonOf(i, o) = a ++ b
  BY DEF JsonOf, a, b
<1>5. "flow" \notin LinkFields(i.type)
  BY DEF LinkFields, LinkTlsFields, JsonTls
<1>6. Get(o, "flow") = Unset
  BY <1>5 DEF LinkOptions
<1> QED BY <1>1, <1>2, <1>3, <1>4, <1>6 DEF OutOptionAt, LinkQuic

-----------------------------------------------------------------------------
\* The link of the options one address sees.
LinkOf(i, o) ==
    CASE i.type \in {"vless", "trojan"}       -> StreamParams(i, o)
      [] i.type = "vmess"                     -> VmessObject(o)
      [] i.type \in {"hysteria", "hysteria2"} -> HysteriaParams(i.type, o)
      [] i.type = "tuic"                      -> TuicParams(o)
      [] i.type = "anytls"                    -> TlsParams(o, "insecure")
      [] i.type = "naive"                     -> NaiveParams(o)
      [] OTHER                                -> None

\* The link read back gives the outbound of the JSON subscription.
LinkReadsBack(i, o) ==
    /\ LinkFilled(FromLink(i.type, LinkOf(i, o)))
    /\ \A k : k \notin Lost(i) => Get(FromLink(i.type, LinkOf(i, o)), k) = Get(JsonOf(i, o), k)

\* Each type: what the link carries is read back as what the JSON subscription has.
LEMMA LinkVlessReadsBack ==
    ASSUME NEW i, NEW o, LinkInbound(i, o), i.type = "vless"
    PROVE  LinkReadsBack(i, o)
<1> DEFINE q == StreamParams(i, o)
           out == FromVless(q)
           json == JsonOf(i, o)
<1>1. LinkFilled(q) /\ \A k : Get(q, k) = StreamParamAt(i, o, k)
  BY LinkStreamParams DEF LinkInbound, LinkOptions
<1>2. FromLink(i.type, LinkOf(i, o)) = out
  BY DEF FromLink, LinkOf
<1> HIDE DEF q
<1>3. LinkFilled(out) /\ \A k : Get(out, k) = IF k = "flow" THEN Get(q, "flow") ELSE FromTrojanAt(q, k)
  BY <1>1, LinkFromVless
<1>4. \A k : k \notin LinkQuic => Get(json, k) = IF k = "flow" /\ HasTls(i) /\ Plain(i) THEN i.flow ELSE OutOptionAt(i.type, o, k)
  BY LinkJsonOf DEF LinkInbound
<1> HIDE DEF out, json
<1>5. HasTls(i) => Secured(o)
  BY DEF LinkInbound
<1>6. Get(o, "flow") = Unset
  BY DEF LinkInbound, LinkOptions, LinkFields, LinkTlsFields, JsonTls
<1>7. \A k : k \notin Lost(i) => Get(out, k) = Get(json, k)
  BY <1>1, <1>3, <1>4, <1>5, <1>6
     DEF FromTrojanAt, GetTlsAt, GetTransportAt, StreamParamAt, TransportParamAt, TlsParamAt, OutOptionAt, Lost,
         LinkInbound, LinkOptions, LinkFields, LinkTlsFields, OverTransport, OverQuic, Unset,
         JsonTls, LinkLacks, LinkQuic, Secured
<1> QED BY <1>2, <1>3, <1>7 DEF LinkReadsBack, json

LEMMA LinkTrojanReadsBack ==
    ASSUME NEW i, NEW o, LinkInbound(i, o), i.type = "trojan"
    PROVE  LinkReadsBack(i, o)
<1> DEFINE q == StreamParams(i, o)
           out == FromTrojan(q)
           json == JsonOf(i, o)
<1>1. LinkFilled(q) /\ \A k : Get(q, k) = StreamParamAt(i, o, k)
  BY LinkStreamParams DEF LinkInbound, LinkOptions
<1>2. FromLink(i.type, LinkOf(i, o)) = out
  BY DEF FromLink, LinkOf
<1> HIDE DEF q
<1>3. LinkFilled(out) /\ \A k : Get(out, k) = FromTrojanAt(q, k)
  BY <1>1, LinkFromTrojan
<1>4. \A k : k \notin LinkQuic => Get(json, k) = IF k = "flow" /\ HasTls(i) /\ Plain(i) THEN i.flow ELSE OutOptionAt(i.type, o, k)
  BY LinkJsonOf DEF LinkInbound
<1> HIDE DEF out, json
<1>5. i.flow = Unset
  BY DEF LinkInbound
<1>6. \A k : k \notin Lost(i) => Get(out, k) = Get(json, k)
  BY <1>1, <1>3, <1>4, <1>5
     DEF FromTrojanAt, GetTlsAt, GetTransportAt, StreamParamAt, TransportParamAt, TlsParamAt, OutOptionAt, Lost,
         LinkInbound, LinkOptions, LinkFields, LinkTlsFields, OverTransport, OverQuic, Unset,
         JsonTls, LinkLacks, LinkQuic, Secured
<1> QED BY <1>2, <1>3, <1>6 DEF LinkReadsBack, json

LEMMA LinkVmessReadsBack ==
    ASSUME NEW i, NEW o, LinkInbound(i, o), i.type = "vmess"
    PROVE  LinkReadsBack(i, o)
<1> DEFINE q == VmessObject(o)
           out == FromVmess(q)
           json == JsonOf(i, o)
<1>1. LinkFilled(q) /\ \A k : Get(q, k) = VmessObjectAt(o, k)
  BY LinkVmessObject DEF LinkInbound, LinkOptions
<1>2. FromLink(i.type, LinkOf(i, o)) = out
  BY DEF FromLink, LinkOf
<1> HIDE DEF q
<1>3. Get(q, "net") # Unset /\ Get(q, "tls") # Unset
  BY <1>1 DEF VmessObjectAt, Unset
<1>4. LinkFilled(out) /\ \A k : Get(out, k) = FromVmessAt(q, k)
  BY <1>1, <1>3, LinkFromVmess
<1>5. \A k : k \notin LinkQuic => Get(json, k) = IF k = "flow" /\ HasTls(i) /\ Plain(i) THEN i.flow ELSE OutOptionAt(i.type, o, k)
  BY LinkJsonOf DEF LinkInbound
<1> HIDE DEF out, json
<1>6. i.flow = Unset
  BY DEF LinkInbound
<1>7. \A k : k \notin Lost(i) => Get(out, k) = Get(json, k)
  BY <1>1, <1>4, <1>5, <1>6
     DEF FromVmessAt, GetTlsAt, GetTransportAt, VmessObjectAt, TransportParamAt, TlsParamAt, OutOptionAt, Lost,
         LinkInbound, LinkOptions, LinkFields, LinkTlsFields, OverTransport, OverQuic, Unset,
         JsonTls, LinkLacks, LinkQuic, Secured
<1> QED BY <1>2, <1>4, <1>7 DEF LinkReadsBack, json

LEMMA LinkHysteriaReadsBack ==
    ASSUME NEW i, NEW o, LinkInbound(i, o), i.type \in {"hysteria", "hysteria2"}
    PROVE  LinkReadsBack(i, o)
<1> DEFINE q == HysteriaParams(i.type, o)
           out == FromHysteria(i.type, q)
           json == JsonOf(i, o)
<1>1. LinkFilled(q) /\ \A k : Get(q, k) = HysteriaParamAt(i.type, o, k)
  BY LinkHysteriaParams DEF LinkInbound, LinkOptions
<1>2. FromLink(i.type, LinkOf(i, o)) = out
  BY DEF FromLink, LinkOf
<1> HIDE DEF q
<1>3. /\ LinkFilled(out)
      /\ \A k : Get(out, k) =
                CASE k = "up" -> Get(q, "upmbps")
                  [] k = "down" -> Get(q, "downmbps")
                  [] k = "ports" -> IF i.type = "hysteria" THEN Unset ELSE Get(q, "mport")
                  [] k = "recvWindow" -> IF i.type = "hysteria" THEN Get(q, "recv_window_conn") ELSE Unset
                  [] k = "fastOpen" -> IF i.type = "hysteria" THEN Unset ELSE Get(q, "fastopen")
                  [] k = "obfs" -> IF i.type = "hysteria" THEN Get(q, "obfsParam")
                                   ELSE IF Get(q, "obfs") = "salamander"
                                   THEN Get(q, "obfs-password") ELSE Unset
                  [] OTHER -> GetTlsAt(SecurityOr("tls", q), q, k)
  BY <1>1, LinkFromHysteria
<1>4. \A k : k \notin LinkQuic => Get(json, k) = IF k = "flow" /\ HasTls(i) /\ Plain(i) THEN i.flow ELSE OutOptionAt(i.type, o, k)
  BY LinkJsonOf DEF LinkInbound
<1> HIDE DEF out, json
<1>5. i.flow = Unset
  BY DEF LinkInbound
<1>6. SecurityOr("tls", q) = Get(q, "security")
  BY <1>1, LinkSecurityOr DEF HysteriaParamAt, TlsParamAt, Unset
<1>7. \A k : k \notin Lost(i) => Get(out, k) = Get(json, k)
  BY <1>1, <1>3, <1>4, <1>5, <1>6
     DEF GetTlsAt, HysteriaParamAt, TlsParamAt, OutOptionAt, Lost,
         LinkInbound, LinkOptions, LinkFields, LinkTlsFields, OverTransport, OverQuic, Unset,
         JsonTls, LinkLacks, LinkQuic, Secured
<1> QED BY <1>2, <1>3, <1>7 DEF LinkReadsBack, json

LEMMA LinkTuicReadsBack ==
    ASSUME NEW i, NEW o, LinkInbound(i, o), i.type = "tuic"
    PROVE  LinkReadsBack(i, o)
<1> DEFINE q == TuicParams(o)
           out == FromTuic(q)
           json == JsonOf(i, o)
<1>1. /\ LinkFilled(q)
      /\ \A k : Get(q, k) =
                CASE k = "congestion_control" -> Get(o, "congestion")
                  [] k = "udp_relay_mode" -> IF Get(o, "mode") = Unset THEN "quic" ELSE Get(o, "mode")
                  [] OTHER -> TlsParamAt(o, "insecure", k)
  BY LinkTuicParams DEF LinkInbound, LinkOptions
<1>2. FromLink(i.type, LinkOf(i, o)) = out
  BY DEF FromLink, LinkOf
<1> HIDE DEF q
<1>3. /\ LinkFilled(out)
      /\ \A k : Get(out, k) =
                CASE k = "mode" -> Get(q, "udp_relay_mode")
                  [] k = "congestion" -> Get(q, "congestion_control")
                  [] OTHER -> GetTlsAt(SecurityOr("tls", q), q, k)
  BY <1>1, LinkFromTuic
<1>4. \A k : k \notin LinkQuic => Get(json, k) = IF k = "flow" /\ HasTls(i) /\ Plain(i) THEN i.flow ELSE OutOptionAt(i.type, o, k)
  BY LinkJsonOf DEF LinkInbound
<1> HIDE DEF out, json
<1>5. i.flow = Unset
  BY DEF LinkInbound
<1>6. SecurityOr("tls", q) = Get(q, "security")
  BY <1>1, LinkSecurityOr DEF TlsParamAt, Unset
<1>7. Get(o, "mode") = Get(i.options, "mode") /\ Get(o, "congestion") = Get(i.options, "congestion")
  BY DEF LinkInbound
<1>8. \A k : k \notin Lost(i) => Get(out, k) = Get(json, k)
  BY <1>1, <1>3, <1>4, <1>5, <1>6, <1>7
     DEF GetTlsAt, TlsParamAt, OutOptionAt, Lost,
         LinkInbound, LinkOptions, LinkFields, LinkTlsFields, OverTransport, OverQuic, Unset,
         JsonTls, LinkLacks, LinkQuic, Secured
<1> QED BY <1>2, <1>3, <1>8 DEF LinkReadsBack, json

LEMMA LinkAnytlsReadsBack ==
    ASSUME NEW i, NEW o, LinkInbound(i, o), i.type = "anytls"
    PROVE  LinkReadsBack(i, o)
<1> DEFINE q == TlsParams(o, "insecure")
           out == FromAnytls(q)
           json == JsonOf(i, o)
<1>1. LinkFilled(q) /\ \A k : Get(q, k) = TlsParamAt(o, "insecure", k)
  BY LinkTlsParams DEF LinkInbound, LinkOptions
<1>2. FromLink(i.type, LinkOf(i, o)) = out
  BY DEF FromLink, LinkOf
<1> HIDE DEF q
<1>3. LinkFilled(out) /\ \A k : Get(out, k) = GetTlsAt(SecurityOr("tls", q), q, k)
  BY <1>1, LinkGetTls DEF FromAnytls
<1>4. \A k : k \notin LinkQuic => Get(json, k) = IF k = "flow" /\ HasTls(i) /\ Plain(i) THEN i.flow ELSE OutOptionAt(i.type, o, k)
  BY LinkJsonOf DEF LinkInbound
<1> HIDE DEF out, json
<1>5. i.flow = Unset
  BY DEF LinkInbound
<1>6. SecurityOr("tls", q) = Get(q, "security")
  BY <1>1, LinkSecurityOr DEF TlsParamAt, Unset
<1>7. \A k : k \notin Lost(i) => Get(out, k) = Get(json, k)
  BY <1>1, <1>3, <1>4, <1>5, <1>6
     DEF GetTlsAt, TlsParamAt, OutOptionAt, Lost,
         LinkInbound, LinkOptions, LinkFields, LinkTlsFields, OverTransport, OverQuic, Unset,
         JsonTls, LinkLacks, LinkQuic, Secured
<1> QED BY <1>2, <1>3, <1>7 DEF LinkReadsBack, json

LEMMA LinkNaiveReadsBack ==
    ASSUME NEW i, NEW o, LinkInbound(i, o), i.type = "naive"
    PROVE  LinkReadsBack(i, o)
<1> DEFINE q == NaiveParams(o)
           out == FromNaive(q)
           json == JsonOf(i, o)
<1>1. /\ LinkFilled(q)
      /\ \A k : Get(q, k) =
                CASE k = "peer" -> Get(o, "sni")
                  [] k \in {"alpn", "insecure"} -> Get(o, k)
                  [] OTHER -> Unset
  BY LinkNaiveParams DEF LinkInbound, LinkOptions
<1>2. FromLink(i.type, LinkOf(i, o)) = out
  BY DEF FromLink, LinkOf
<1> HIDE DEF q
<1>3. /\ LinkFilled(out)
      /\ \A k : Get(out, k) =
                CASE k = "tls" -> "1"
                  [] k = "sni" -> Get(q, "peer")
                  [] k \in {"alpn", "insecure"} -> Get(q, k)
                  [] OTHER -> Unset
  BY <1>1, LinkFromNaive
<1>4. \A k : k \notin LinkQuic => Get(json, k) = IF k = "flow" /\ HasTls(i) /\ Plain(i) THEN i.flow ELSE OutOptionAt(i.type, o, k)
  BY LinkJsonOf DEF LinkInbound
<1> HIDE DEF out, json
<1>5. i.flow = Unset
  BY DEF LinkInbound
<1>6. \A k : k \notin Lost(i) => Get(out, k) = Get(json, k)
  BY <1>1, <1>3, <1>4, <1>5
     DEF OutOptionAt, Lost,
         LinkInbound, LinkOptions, LinkFields, LinkTlsFields, OverTransport, OverQuic, Unset,
         JsonTls, LinkLacks, LinkQuic, Secured
<1> QED BY <1>2, <1>3, <1>6 DEF LinkReadsBack, json

LEMMA LinkShadowsocksReadsBack ==
    ASSUME NEW i, NEW o, LinkInbound(i, o), i.type = "shadowsocks"
    PROVE  LinkReadsBack(i, o)
<1> DEFINE json == JsonOf(i, o)
<1>1. FromLink(i.type, LinkOf(i, o)) = None
  BY DEF FromLink, LinkOf
<1>2. \A k : k \notin LinkQuic => Get(json, k) = IF k = "flow" /\ HasTls(i) /\ Plain(i) THEN i.flow ELSE OutOptionAt(i.type, o, k)
  BY LinkJsonOf DEF LinkInbound
<1> HIDE DEF json
<1>3. i.flow = Unset
  BY DEF LinkInbound
<1>4. \A k : k \notin Lost(i) => Get(json, k) = Unset
  BY <1>2, <1>3
     DEF OutOptionAt, Lost, LinkInbound, LinkOptions, LinkFields, LinkTlsFields, OverTransport, OverQuic, Unset,
         JsonTls, LinkLacks, LinkQuic, Secured
<1> QED BY <1>1, <1>4, LinkNone DEF LinkReadsBack, json

LEMMA LinkAllReadBack ==
    ASSUME NEW i, NEW o, LinkInbound(i, o)
    PROVE  LinkReadsBack(i, o)
<1>1. i.type \in {"vless", "trojan", "vmess", "hysteria", "hysteria2", "tuic", "anytls", "naive", "shadowsocks"}
  BY DEF LinkInbound, LinkTypes, OverTransport, OverQuic
<1> QED BY <1>1, LinkVlessReadsBack, LinkTrojanReadsBack, LinkVmessReadsBack, LinkHysteriaReadsBack,
           LinkTuicReadsBack, LinkAnytlsReadsBack, LinkNaiveReadsBack, LinkShadowsocksReadsBack

-----------------------------------------------------------------------------
ClashProxyAt(out, decoded, k) ==
    LET t == Get(out, "transport")
        tls == ClashHasTls(out, decoded)
    IN  CASE k \in {"flow", "mode", "congestion", "obfs", "mux"} -> Get(out, k)
          [] k \in {"up", "down", "ports"} -> IF decoded THEN Get(out, k) ELSE Unset
          [] k \in {"tls", "reality", "pbk", "sid", "sni", "insecure", "ech"} ->
               IF tls THEN Get(out, k) ELSE Unset
          [] k = "fp" -> IF tls /\ Get(out, "utls") = "1" THEN Get(out, k) ELSE Unset
          [] k = "alpn" -> IF tls /\ decoded THEN Get(out, k) ELSE Unset
          [] k = "network" -> IF t = "http" THEN IF tls THEN "h2" ELSE "http"
                              ELSE IF t \in {"ws", "httpupgrade", "grpc"} THEN t ELSE Unset
          [] k = "path" -> IF t \in {"http", "ws", "httpupgrade"} THEN Get(out, k) ELSE Unset
          [] k = "host" -> IF t = "http" THEN IF decoded THEN Get(out, k) ELSE Unset
                           ELSE IF t = "ws" /\ Get(out, k) # Unset THEN Get(out, k)
                           ELSE IF t \in {"ws", "httpupgrade"} THEN Get(out, "sni") ELSE Unset
          [] k = "service" -> IF t = "grpc" THEN Get(out, k) ELSE Unset
          [] k = "earlyData" -> IF t \in {"ws", "httpupgrade"} THEN Get(out, k) ELSE Unset
          [] OTHER -> Unset

LEMMA LinkTyped ==
    ASSUME NEW out, NEW field, NEW decoded \in BOOLEAN
    PROVE  /\ LinkFilled(Typed(out, field, decoded))
           /\ \A k : Get(Typed(out, field, decoded), k) =
                       IF k = field /\ decoded THEN Get(out, field) ELSE Unset
  BY LinkCarry, LinkNone DEF Typed

\* The Clash proxy, field by field.
LEMMA LinkClashProxy ==
    ASSUME NEW out, LinkFilled(out), NEW decoded \in BOOLEAN
    PROVE  \A k : Get(ClashProxy(out, decoded), k) = ClashProxyAt(out, decoded, k)
<1> DEFINE t == Get(out, "transport")
           tls == ClashHasTls(out, decoded)
           a == ClashOptions(out, decoded)
           b == ClashTls(out, decoded)
           c == ClashTransport(out, decoded)
<1>1. /\ LinkFilled(a)
      /\ \A k : Get(a, k) = CASE k \in {"flow", "mode", "congestion", "obfs", "mux"} -> Get(out, k)
                              [] k \in {"up", "down", "ports"} -> IF decoded THEN Get(out, k) ELSE Unset
                              [] OTHER -> Unset
  <2> DEFINE p == Only(out, {"flow", "mode", "congestion", "obfs", "mux"})
             u == Typed(out, "up", decoded)
             d == Typed(out, "down", decoded)
             r == Typed(out, "ports", decoded)
             pud == p ++ u ++ d
  <2>1. /\ LinkFilled(p)
        /\ \A k : Get(p, k) = IF k \in {"flow", "mode", "congestion", "obfs", "mux"} THEN Get(out, k) ELSE Unset
    BY LinkOnly
  <2>2. LinkFilled(u) /\ \A k : Get(u, k) = IF k = "up" /\ decoded THEN Get(out, "up") ELSE Unset
    BY LinkTyped
  <2>3. LinkFilled(d) /\ \A k : Get(d, k) = IF k = "down" /\ decoded THEN Get(out, "down") ELSE Unset
    BY LinkTyped
  <2>4. LinkFilled(r) /\ \A k : Get(r, k) = IF k = "ports" /\ decoded THEN Get(out, "ports") ELSE Unset
    BY LinkTyped
  <2> HIDE DEF p, u, d, r
  <2>5. /\ LinkFilled(pud)
        /\ \A k : Get(pud, k) = IF Get(p, k) # Unset THEN Get(p, k)
                                ELSE IF Get(u, k) # Unset THEN Get(u, k) ELSE Get(d, k)
    BY <2>1, <2>2, <2>3, LinkMerge3
  <2> HIDE DEF pud
  <2>6. LinkFilled(pud ++ r) /\ \A k : Get(pud ++ r, k) = IF Get(pud, k) # Unset THEN Get(pud, k) ELSE Get(r, k)
    BY <2>4, <2>5, LinkMerge
  <2>7. a = pud ++ r
    BY DEF ClashOptions, a, pud, p, u, d, r
  <2> HIDE DEF a
  <2> QED BY <2>1, <2>2, <2>3, <2>4, <2>5, <2>6, <2>7
<1>2. /\ LinkFilled(b)
      /\ \A k : Get(b, k) =
           IF ~tls THEN Unset
           ELSE CASE k \in {"tls", "reality", "pbk", "sid", "sni", "insecure", "ech"} -> Get(out, k)
                  [] k = "fp" -> IF Get(out, "utls") = "1" THEN Get(out, k) ELSE Unset
                  [] k = "alpn" -> IF decoded THEN Get(out, k) ELSE Unset
                  [] OTHER -> Unset
  <2> DEFINE p == Only(out, {"tls", "reality", "pbk", "sid", "sni", "insecure", "ech"})
             f == IF Get(out, "utls") = "1" THEN Carry(out, "fp", "fp") ELSE None
             r == Typed(out, "alpn", decoded)
  <2>1. /\ LinkFilled(p)
        /\ \A k : Get(p, k) = IF k \in {"tls", "reality", "pbk", "sid", "sni", "insecure", "ech"}
                              THEN Get(out, k) ELSE Unset
    BY LinkOnly
  <2>2. /\ LinkFilled(f)
        /\ \A k : Get(f, k) = IF k = "fp" /\ Get(out, "utls") = "1" THEN Get(out, "fp") ELSE Unset
    BY LinkCarry, LinkNone
  <2>3. LinkFilled(r) /\ \A k : Get(r, k) = IF k = "alpn" /\ decoded THEN Get(out, "alpn") ELSE Unset
    BY LinkTyped
  <2> HIDE DEF p, r, f
  <2>4. /\ LinkFilled(p ++ f ++ r)
        /\ \A k : Get(p ++ f ++ r, k) = IF Get(p, k) # Unset THEN Get(p, k)
                                        ELSE IF Get(f, k) # Unset THEN Get(f, k) ELSE Get(r, k)
    BY <2>1, <2>2, <2>3, LinkMerge3
  <2>5. b = IF ~tls THEN None ELSE p ++ f ++ r
    BY DEF ClashTls, b, tls, p, f, r
  <2> HIDE DEF b, tls
  <2> QED BY <2>1, <2>2, <2>3, <2>4, <2>5, LinkNone
<1>3. /\ LinkFilled(c)
      /\ \A k : Get(c, k) =
           CASE k = "network" -> IF t = "http" THEN IF tls THEN "h2" ELSE "http"
                                 ELSE IF t \in {"ws", "httpupgrade", "grpc"} THEN t ELSE Unset
             [] k = "path" -> IF t \in {"http", "ws", "httpupgrade"} THEN Get(out, k) ELSE Unset
             [] k = "host" -> IF t = "http" THEN IF decoded THEN Get(out, k) ELSE Unset
                              ELSE IF t = "ws" /\ Get(out, k) # Unset THEN Get(out, k)
                              ELSE IF t \in {"ws", "httpupgrade"} THEN Get(out, "sni") ELSE Unset
             [] k = "service" -> IF t = "grpc" THEN Get(out, k) ELSE Unset
             [] k = "earlyData" -> IF t \in {"ws", "httpupgrade"} THEN Get(out, k) ELSE Unset
             [] OTHER -> Unset
  <2>1. CASE t = "http"
    <3> DEFINE n == One("network", IF tls THEN "h2" ELSE "http") ++ Carry(out, "path", "path")
               h == Typed(out, "host", decoded)
    <3>1. /\ LinkFilled(n)
          /\ \A k : Get(n, k) = IF k = "network" THEN IF tls THEN "h2" ELSE "http"
                                ELSE IF k = "path" THEN Get(out, k) ELSE Unset
      BY LinkMergeCarry, LinkOne DEF Unset
    <3>2. LinkFilled(h) /\ \A k : Get(h, k) = IF k = "host" /\ decoded THEN Get(out, "host") ELSE Unset
      BY LinkTyped
    <3> HIDE DEF n, h
    <3>3. LinkFilled(n ++ h) /\ \A k : Get(n ++ h, k) = IF Get(n, k) # Unset THEN Get(n, k) ELSE Get(h, k)
      BY <3>1, <3>2, LinkMerge
    <3>4. c = n ++ h
      BY <2>1 DEF ClashTransport, c, n, h, t, tls
    <3> HIDE DEF c, t, tls
    <3> QED BY <2>1, <3>1, <3>2, <3>3, <3>4
  <2>2. CASE t \in {"ws", "httpupgrade"}
    <3> DEFINE v == IF t = "ws" /\ Get(out, "host") # Unset THEN out["host"] ELSE Get(out, "sni")
               n == One("network", t) ++ Carry(out, "path", "path") ++ Carry(out, "earlyData", "earlyData")
               m == n ++ Opt("host", v)
    <3>1. v = IF t = "ws" /\ Get(out, "host") # Unset THEN Get(out, "host") ELSE Get(out, "sni")
      BY DEF Get
    <3> HIDE DEF v
    <3>2. /\ LinkFilled(n)
          /\ \A k : Get(n, k) = IF k = "network" THEN t
                                ELSE IF k \in {"path", "earlyData"} THEN Get(out, k) ELSE Unset
      BY <2>2, LinkMergeCarry, LinkOne DEF Unset
    <3> HIDE DEF n
    <3>3. LinkFilled(m) /\ \A k : Get(m, k) = IF k = "host" THEN v ELSE Get(n, k)
      BY <3>2, LinkMergeOpt
    <3>4. c = m
      BY <2>2 DEF ClashTransport, c, m, n, v, t
    <3> HIDE DEF c, t, tls, m
    <3> QED BY <2>2, <3>1, <3>2, <3>3, <3>4
  <2>3. CASE t = "grpc"
    <3> DEFINE n == One("network", "grpc") ++ Carry(out, "service", "service")
    <3>1. /\ LinkFilled(n)
          /\ \A k : Get(n, k) = IF k = "network" THEN "grpc" ELSE IF k = "service" THEN Get(out, k) ELSE Unset
      BY LinkMergeCarry, LinkOne DEF Unset
    <3>2. c = n
      BY <2>3 DEF ClashTransport, c, n, t
    <3> HIDE DEF c, t, tls, n
    <3> QED BY <2>3, <3>1, <3>2
  <2>4. CASE t \notin {"http", "ws", "httpupgrade", "grpc"}
    <3>1. c = None
      BY <2>4 DEF ClashTransport, c, t
    <3> HIDE DEF c, t, tls
    <3> QED BY <2>4, <3>1, LinkNone
  <2> HIDE DEF t, c, tls
  <2> QED BY <2>1, <2>2, <2>3, <2>4
<1> HIDE DEF a, b, c
<1>4. /\ LinkFilled(a ++ b ++ c)
      /\ \A k : Get(a ++ b ++ c, k) = IF Get(a, k) # Unset THEN Get(a, k)
                                      ELSE IF Get(b, k) # Unset THEN Get(b, k) ELSE Get(c, k)
  BY <1>1, <1>2, <1>3, LinkMerge3
<1>5. ClashProxy(out, decoded) = a ++ b ++ c
  BY DEF ClashProxy, a, b, c
<1>6. \A k : Get(a ++ b ++ c, k) = ClashProxyAt(out, decoded, k)
  BY <1>1, <1>2, <1>3, <1>4 DEF ClashProxyAt
<1> QED BY <1>5, <1>6

\* Two outbounds that agree up to Lost give proxies that agree up to ClashLost.
LEMMA LinkClashAgrees ==
    ASSUME NEW i, NEW o, LinkInbound(i, o), i.type # "naive"
    PROVE  \A k : k \notin ClashLost(i) =>
             Get(ClashProxy(FromLink(i.type, LinkOf(i, o)), FALSE), k) = Get(ClashProxy(JsonOf(i, o), TRUE), k)
<1> DEFINE a == FromLink(i.type, LinkOf(i, o))
           b == JsonOf(i, o)
<1>0. i.type # "naive"
  OBVIOUS
<1>1. LinkFilled(a) /\ \A k : k \notin Lost(i) => Get(a, k) = Get(b, k)
  BY LinkAllReadBack DEF LinkReadsBack
<1>2. /\ LinkFilled(b)
      /\ \A k : k \notin LinkQuic => Get(b, k) = IF k = "flow" /\ HasTls(i) /\ Plain(i) THEN i.flow ELSE OutOptionAt(i.type, o, k)
  BY LinkJsonOf DEF LinkInbound
<1> HIDE DEF a, b
<1>3. /\ \A k : Get(ClashProxy(a, FALSE), k) = ClashProxyAt(a, FALSE, k)
      /\ \A k : Get(ClashProxy(b, TRUE), k) = ClashProxyAt(b, TRUE, k)
  BY <1>1, <1>2, LinkClashProxy
<1>4. \A k \in LinkTlsFields \cup {"transport", "host", "path", "service"} : Get(b, k) = Get(o, k)
  BY <1>2 DEF OutOptionAt, LinkTlsFields, JsonTls, LinkQuic
<1>5. \A k \in {"tls", "fp", "sni", "insecure", "alpn", "transport", "host", "path"} : k \notin Lost(i)
  BY <1>0 DEF Lost, LinkLacks, JsonTls
<1>6. /\ Get(i.options, "transport") = Get(o, "transport")
      /\ Get(i.options, "fp") = Get(o, "fp") /\ Get(i.options, "utls") = Get(o, "utls")
      /\ HasTls(i) => Get(o, "tls") = "1"
  BY DEF LinkInbound, Secured
<1>6f. Get(o, "fp") # Unset /\ Get(o, "utls") # Unset => "utls" \notin Lost(i)
  BY <1>0, <1>6 DEF Lost, LinkLacks, JsonTls
<1>7. /\ Get(o, "tls") \in {Unset, "1"}
      /\ Get(o, "tls") = Unset => \A k \in LinkTlsFields : Get(o, k) = Unset
  BY DEF LinkInbound, LinkOptions
<1>8. ClashHasTls(a, FALSE) /\ (ClashHasTls(b, TRUE) <=> Get(o, "tls") = "1")
  BY <1>4 DEF ClashHasTls, LinkTlsFields
<1>8f. \A k : k \notin ClashLost(i) => k # "fp" \/ Get(o, "fp") = Unset \/ Get(o, "utls") # Unset
  BY <1>6 DEF ClashLost
<1>9. SUFFICES ASSUME NEW k, k \notin ClashLost(i)
               PROVE  ClashProxyAt(a, FALSE, k) = ClashProxyAt(b, TRUE, k)
  BY <1>3 DEF a, b
<1>10. k \notin Lost(i) /\ k \notin {"alpn", "ports", "up", "down"} /\ k \notin {"ech", "mux", "earlyData"}
  BY <1>9 DEF ClashLost, Lost, LinkLacks, JsonTls
<1>11. Get(o, "transport") = "http" => k # "host" /\ (HasTls(i) \/ k # "network")
  BY <1>6, <1>9 DEF ClashLost
<1>12. k = "fp" => Get(a, "fp") = Get(b, "fp")
                    /\ (Get(a, "fp") # Unset => Get(a, "utls") = Get(b, "utls"))
  BY <1>1, <1>4, <1>5, <1>6f, <1>8f, <1>9 DEF LinkTlsFields
<1> QED BY <1>1, <1>4, <1>5, <1>6, <1>7, <1>8, <1>10, <1>11, <1>12 DEF ClashProxyAt, LinkTlsFields, Unset

-----------------------------------------------------------------------------
\* The addresses of an inbound override TLS alike, if they do.
AddressesAlike(addrs) ==
    /\ addrs \in Seq({None} \cup {Override(name) : name \in STRING})
    /\ \A m, n \in DOMAIN addrs : addrs[m] = addrs[n]

\* An inbound with any values in the fields its type has.
AnyInbound(i) ==
    /\ i.type \in LinkTypes
    /\ i.type # "vless" => i.flow = Unset
    /\ LinkOptions(i.type, i.options)
    /\ AddressesAlike(i.addrs)
    /\ i.type = "shadowsocks" => i.addrs = <<>>

LEMMA LinkSeqElement ==
    ASSUME NEW S, NEW addrs \in Seq(S), NEW m \in DOMAIN addrs
    PROVE  addrs[m] \in S
  OBVIOUS

\* What one address sees of an inbound is an inbound again.
LEMMA LinkOverridden ==
    ASSUME NEW i, AnyInbound(i), NEW n \in DOMAIN Addresses(i)
    PROVE  LinkInbound(i, Overridden(i, n))
<1> DEFINE v == Addresses(i)[n]
           o == Overridden(i, n)
<1>1. v = None \/ (i.type # "shadowsocks" /\ \E name \in STRING : v = Override(name))
  <2>1. CASE i.addrs = <<>>
    <3>1. Addresses(i) = <<None>>
      BY <2>1 DEF Addresses
    <3> QED BY <3>1
  <2>2. CASE i.addrs # <<>>
    <3>1. Addresses(i) = i.addrs /\ i.type # "shadowsocks"
      BY <2>2 DEF Addresses, AnyInbound
    <3>2. i.addrs \in Seq({None} \cup {Override(name) : name \in STRING})
      BY DEF AnyInbound, AddressesAlike
    <3>3. \A m \in DOMAIN i.addrs : i.addrs[m] \in {None} \cup {Override(name) : name \in STRING}
      BY <3>2, LinkSeqElement
    <3>4. v \in {None} \cup {Override(name) : name \in STRING}
      BY <3>1, <3>3
    <3> QED BY <3>1, <3>4
  <2> QED BY <2>1, <2>2
<1>2. LinkFilled(i.options)
  BY DEF AnyInbound, LinkOptions
<1>3. CASE v = None
  <2>1. LinkFilled(o) /\ \A k : Get(o, k) = Get(i.options, k)
    <3>1. LinkFilled(None ++ i.options)
          /\ \A k : Get(None ++ i.options, k) = IF Get(None, k) # Unset THEN Get(None, k) ELSE Get(i.options, k)
      BY <1>2, LinkNone, LinkMerge
    <3> QED BY <1>3, <3>1, LinkNone DEF Overridden
  <2> HIDE DEF o
  <2>2. LinkOptions(i.type, o)
    BY <2>1 DEF AnyInbound, LinkOptions
  <2> QED BY <2>1, <2>2 DEF LinkInbound, AnyInbound, HasTls, Secured, o
<1>4. ASSUME i.type # "shadowsocks", NEW name \in STRING, v = Override(name)
      PROVE  LinkInbound(i, o)
  <2>1. LinkFilled(v) /\ \A k : Get(v, k) = IF k = "tls" THEN "1" ELSE IF k = "sni" THEN name ELSE Unset
    BY <1>4, LinkOne, LinkMergeOpt DEF Override, Unset
  <2>2. o = v ++ i.options
    BY DEF Overridden
  <2> HIDE DEF o, v
  <2>3. LinkFilled(o) /\ \A k : Get(o, k) = IF Get(v, k) # Unset THEN Get(v, k) ELSE Get(i.options, k)
    BY <1>2, <2>1, <2>2, LinkMerge
  <2>4. /\ Get(o, "tls") = "1"
        /\ \A k : k \notin {"sni", "tls"} => Get(o, k) = Get(i.options, k)
    BY <2>1, <2>3 DEF Unset
  <2>5. \A k : k \notin LinkFields(i.type) => k \notin {"sni", "tls"}
    BY DEF LinkFields, LinkTlsFields
  <2>6. LinkOptions(i.type, o)
    BY <1>4, <2>3, <2>4, <2>5 DEF AnyInbound, LinkOptions, Unset
  <2> QED BY <2>4, <2>6 DEF LinkInbound, AnyInbound, Secured
<1> QED BY <1>1, <1>3, <1>4

\* Two functions that are the same complete a third alike.
LEMMA LinkSameMerge ==
    ASSUME NEW f, NEW g, NEW h, DOMAIN f = DOMAIN g, \A k \in DOMAIN f : f[k] = g[k]
    PROVE  f ++ h = g ++ h
  BY DEF ++

\* The TLS map the copies of an outbound share is the one every address wants.
LEMMA LinkSharedTls ==
    ASSUME NEW i, AnyInbound(i), NEW n \in DOMAIN Addresses(i)
    PROVE  SharedTls(i) = Overridden(i, n)
<1> DEFINE with(f) == { m \in DOMAIN i.addrs : f \in DOMAIN i.addrs[m] }
           last(f) == CHOOSE m \in with(f) : \A l \in with(f) : l <= m
           all     == [ f \in UNION { DOMAIN i.addrs[m] : m \in DOMAIN i.addrs } |-> i.addrs[last(f)][f] ]
           v       == Addresses(i)[n]
<1>1. SharedTls(i) = all ++ i.options /\ Overridden(i, n) = v ++ i.options
  BY DEF SharedTls, Overridden
<1>2. /\ i.addrs \in Seq({None} \cup {Override(name) : name \in STRING})
      /\ \A m, l \in DOMAIN i.addrs : i.addrs[m] = i.addrs[l]
  BY DEF AnyInbound, AddressesAlike
<1>3. DOMAIN all = DOMAIN v /\ \A k \in DOMAIN all : all[k] = v[k]
  <2>1. CASE i.addrs = <<>>
    <3>1. v = <<>>
      BY <2>1 DEF Addresses, None
    <3>2. DOMAIN i.addrs = {}
      BY <2>1
    <3>3. DOMAIN all = {}
      BY <3>2
    <3> QED BY <3>1, <3>3
  <2>2. CASE i.addrs # <<>>
    <3>1. /\ Len(i.addrs) \in Nat \ {0} /\ DOMAIN i.addrs = 1..Len(i.addrs)
          /\ n \in DOMAIN i.addrs /\ v = i.addrs[n]
      BY <1>2, <2>2 DEF Addresses
    <3>2. \A m \in DOMAIN i.addrs : i.addrs[m] = v
      BY <1>2, <3>1
    <3>3. DOMAIN all = DOMAIN v
      <4>1. DOMAIN all = UNION { DOMAIN i.addrs[m] : m \in DOMAIN i.addrs }
        OBVIOUS
      <4>2. ASSUME NEW k PROVE k \in DOMAIN all <=> \E m \in DOMAIN i.addrs : k \in DOMAIN i.addrs[m]
        BY <4>1
      <4> HIDE DEF all
      <4>3. ASSUME NEW k PROVE k \in DOMAIN all <=> k \in DOMAIN v
        <5>1. (\E m \in DOMAIN i.addrs : k \in DOMAIN i.addrs[m]) <=> k \in DOMAIN v
          BY <3>1, <3>2
        <5> QED BY <4>2, <5>1
      <4> QED BY <4>3
    <3>4. ASSUME NEW k \in DOMAIN v PROVE all[k] = v[k]
      <4>1. with(k) = 1..Len(i.addrs)
        BY <3>1, <3>2
      <4>2. Len(i.addrs) \in with(k) /\ \A l \in with(k) : l <= Len(i.addrs)
        BY <3>1, <4>1
      <4>3. last(k) \in DOMAIN i.addrs
        BY <4>2
      <4> QED BY <3>2, <3>3, <4>3
    <3> QED BY <3>3, <3>4
  <2> QED BY <2>1, <2>2
<1> HIDE DEF all, v
<1> QED BY <1>1, <1>3, LinkSameMerge

\* Fields that agree one by one agree.
LEMMA LinkAgreeOn ==
    ASSUME NEW f, NEW g, NEW but, \A k : k \notin but => Get(f, k) = Get(g, k)
    PROVE  Agree(f, g, but)
  BY DEF Agree

\* Of any inbound whose addresses override TLS alike, whatever its
\* type and the values of its fields, the share link read back gives the
\* outbound of the JSON subscription and the same Clash proxy, up to what Lost
\* names (LinkGenerator, GetOutbound, FillOutJson, ConvertToClashMeta).
THEOREM AnyInboundIsRepresented ==
    ASSUME NEW i, AnyInbound(i)
    PROVE  LinkMatchesJson(i) /\ ClashMatches(i)
<1>1. ASSUME NEW n \in DOMAIN Addresses(i)
      PROVE  /\ LinkInbound(i, Overridden(i, n))
             /\ LinkParams(i, n) = LinkOf(i, Overridden(i, n))
             /\ JsonOutbound(i, n) = JsonOf(i, Overridden(i, n))
  <2>1. LinkInbound(i, Overridden(i, n)) /\ OutTls(i, n) = Overridden(i, n)
    BY LinkOverridden, LinkSharedTls DEF OutTls
  <2> QED BY <2>1 DEF LinkParams, LinkOf, JsonOutbound, JsonOf
<1>2. LinkMatchesJson(i)
  <2>1. SUFFICES ASSUME NEW n \in DOMAIN Addresses(i)
                 PROVE  Agree(FromLink(i.type, LinkParams(i, n)), JsonOutbound(i, n), Lost(i))
    BY DEF LinkMatchesJson
  <2> DEFINE o == Overridden(i, n)
  <2>2. \A k : k \notin Lost(i) => Get(FromLink(i.type, LinkOf(i, o)), k) = Get(JsonOf(i, o), k)
    BY <1>1, LinkAllReadBack DEF LinkReadsBack
  <2> QED BY <1>1, <2>2, LinkAgreeOn
<1>3. ClashMatches(i)
  <2>1. SUFFICES ASSUME i.type # "naive", NEW n \in DOMAIN Addresses(i)
                 PROVE  Agree(ClashProxy(FromLink(i.type, LinkParams(i, n)), FALSE),
                              ClashProxy(JsonOutbound(i, n), TRUE), ClashLost(i))
    BY DEF ClashMatches
  <2> DEFINE o == Overridden(i, n)
  <2>2. \A k : k \notin ClashLost(i) =>
           Get(ClashProxy(FromLink(i.type, LinkOf(i, o)), FALSE), k) = Get(ClashProxy(JsonOf(i, o), TRUE), k)
    BY <1>1, <2>1, LinkClashAgrees
  <2> QED BY <1>1, <2>2, LinkAgreeOn
<1> QED BY <1>2, <1>3

-----------------------------------------------------------------------------
\* The inbounds of the model are such inbounds: f has fields of these only.
LinkWithin(f, fields) == LinkFilled(f) /\ \A k : k \notin fields => Get(f, k) = Unset

LEMMA LinkWithinParts ==
    /\ \A fields : LinkWithin(None, fields)
    /\ \A k, v : v # Unset => LinkWithin(One(k, v), {k})
    /\ \A fields : LinkWithin([f \in fields |-> "x"], fields)
<1>1. \A fields : LinkWithin([f \in fields |-> "x"], fields)
  BY DEF LinkWithin, LinkFilled, Get, Unset
<1>2. ASSUME NEW k, NEW v, v # Unset PROVE LinkWithin(One(k, v), {k})
  BY <1>2, LinkOne DEF LinkWithin
<1> QED BY <1>1, <1>2, LinkNone DEF LinkWithin

LEMMA LinkWithinMerge ==
    ASSUME NEW f, NEW g, NEW a, NEW b, LinkWithin(f, a), LinkWithin(g, b)
    PROVE  /\ LinkWithin(f ++ g, a \cup b)
           /\ \A k : Get(f ++ g, k) = IF Get(f, k) # Unset THEN Get(f, k) ELSE Get(g, k)
  BY LinkMerge DEF LinkWithin

LEMMA LinkWithinMore ==
    ASSUME NEW f, NEW a, NEW b, LinkWithin(f, a), a \subseteq b
    PROVE  LinkWithin(f, b)
  BY DEF LinkWithin

LEMMA LinkClient ==
    ASSUME NEW x \in ClientTls
    PROVE  LinkWithin(x, {"fp", "utls"} \cup JsonTls) /\ Get(x, "utls") \in {Unset, "1"}
<1> DEFINE fp   == One("fp", "chrome")
           utls == One("utls", "1")
           more == [f \in JsonTls |-> "x"]
<1>1. /\ LinkWithin(fp, {"fp"}) /\ LinkWithin(utls, {"utls"}) /\ LinkWithin(more, JsonTls)
      /\ Get(utls, "utls") = "1" /\ Get(fp, "utls") = Unset
  BY LinkWithinParts, LinkOne DEF Unset
<1>2. Get(more, "utls") = Unset
  BY DEF Get, JsonTls
<1>3. x \in {None, fp ++ utls, utls, fp ++ more}
  BY DEF ClientTls
<1> HIDE DEF fp, utls, more
<1>4. /\ LinkWithin(fp ++ utls, {"fp"} \cup {"utls"}) /\ Get(fp ++ utls, "utls") = "1"
      /\ LinkWithin(fp ++ more, {"fp"} \cup JsonTls) /\ Get(fp ++ more, "utls") = Unset
  <2>1. LinkWithin(fp ++ utls, {"fp"} \cup {"utls"}) /\ LinkWithin(fp ++ more, {"fp"} \cup JsonTls)
    BY <1>1, LinkWithinMerge
  <2>2. LinkFilled(fp) /\ LinkFilled(utls) /\ LinkFilled(more)
    BY <1>1 DEF LinkWithin
  <2>3. \A k : Get(fp ++ utls, k) = IF Get(fp, k) # Unset THEN Get(fp, k) ELSE Get(utls, k)
    BY <2>2, LinkMerge
  <2>4. \A k : Get(fp ++ more, k) = IF Get(fp, k) # Unset THEN Get(fp, k) ELSE Get(more, k)
    BY <2>2, LinkMerge
  <2> QED BY <1>1, <1>2, <2>1, <2>3, <2>4
<1>5. CASE x = None
  BY <1>5, LinkWithinParts, LinkNone
<1>6. CASE x = utls
  BY <1>1, <1>6, LinkWithinMore
<1>7. CASE x = fp ++ utls
  BY <1>4, <1>7, LinkWithinMore
<1>8. CASE x = fp ++ more
  BY <1>4, <1>8, LinkWithinMore
<1> QED BY <1>3, <1>5, <1>6, <1>7, <1>8

LEMMA LinkRow ==
    ASSUME NEW x \in TlsRows
    PROVE  /\ LinkFilled(x)
           /\ \A k : k \notin LinkTlsFields => Get(x, k) = Unset
           /\ \A k \in {"utls", "reality", "insecure", "disableSni"} : Get(x, k) \in {Unset, "1"}
           /\ Get(x, "tls") = "1"
           /\ Get(x, "reality") = "1" => Get(x, "insecure") = Unset /\ Get(x, "disableSni") = Unset
           /\ Get(x, "reality") = Unset => Get(x, "pbk") = Unset /\ Get(x, "sid") = Unset
<1>1. PICK sni \in {Unset, "a"}, alpn \in {Unset, "h2"}, client \in ClientTls,
           kind \in {None, One("insecure", "1"), One("disableSni", "1"),
                     One("reality", "1") ++ One("pbk", "key") ++ One("sid", "id")} :
        x = One("tls", "1") ++ Opt("sni", sni) ++ Opt("alpn", alpn) ++ client ++ kind
  BY DEF TlsRows
<1> DEFINE a == One("tls", "1") ++ Opt("sni", sni)
           b == a ++ Opt("alpn", alpn)
           c == b ++ client
           d == One("reality", "1") ++ One("pbk", "key") ++ One("sid", "id")
<1>2. LinkFilled(a) /\ \A k : Get(a, k) = IF k = "tls" THEN "1" ELSE IF k = "sni" THEN sni ELSE Unset
  BY LinkOne, LinkMergeOpt DEF Unset
<1> HIDE DEF a
<1>3. LinkFilled(b) /\ \A k : Get(b, k) = IF k = "alpn" THEN alpn ELSE Get(a, k)
  BY <1>2, LinkMergeOpt
<1> HIDE DEF b
<1>c. /\ LinkFilled(client)
      /\ \A k : k \notin {"fp", "utls"} \cup JsonTls => Get(client, k) = Unset
      /\ Get(client, "utls") \in {Unset, "1"}
  BY LinkClient DEF LinkWithin
<1>4. LinkFilled(c) /\ \A k : Get(c, k) = IF Get(b, k) # Unset THEN Get(b, k) ELSE Get(client, k)
  BY <1>3, <1>c, LinkMerge
<1> HIDE DEF c
<1>5. /\ LinkFilled(d)
      /\ \A k : Get(d, k) = CASE k = "reality" -> "1" [] k = "pbk" -> "key" [] k = "sid" -> "id"
                              [] OTHER -> Unset
  <2> DEFINE r == One("reality", "1")
             p == One("pbk", "key")
             s == One("sid", "id")
  <2>1. LinkFilled(r) /\ \A k : Get(r, k) = IF k = "reality" THEN "1" ELSE Unset
    BY LinkOne DEF Unset
  <2>2. LinkFilled(p) /\ \A k : Get(p, k) = IF k = "pbk" THEN "key" ELSE Unset
    BY LinkOne DEF Unset
  <2>3. LinkFilled(s) /\ \A k : Get(s, k) = IF k = "sid" THEN "id" ELSE Unset
    BY LinkOne DEF Unset
  <2> HIDE DEF r, p, s
  <2>4. /\ LinkFilled(r ++ p ++ s)
        /\ \A k : Get(r ++ p ++ s, k) = IF Get(r, k) # Unset THEN Get(r, k)
                                        ELSE IF Get(p, k) # Unset THEN Get(p, k) ELSE Get(s, k)
    BY <2>1, <2>2, <2>3, LinkMerge3
  <2>5. d = r ++ p ++ s
    BY DEF d, r, p, s
  <2> HIDE DEF d
  <2> QED BY <2>1, <2>2, <2>3, <2>4, <2>5 DEF Unset
<1>6. kind \in {None, One("insecure", "1"), One("disableSni", "1"), d}
  BY <1>1
<1> HIDE DEF d
<1>7. /\ LinkFilled(kind)
      /\ \A k : k \notin {"insecure", "disableSni", "reality", "pbk", "sid"} => Get(kind, k) = Unset
      /\ \A k \in {"reality", "insecure", "disableSni"} : Get(kind, k) \in {Unset, "1"}
      /\ Get(kind, "reality") = "1" => Get(kind, "insecure") = Unset /\ Get(kind, "disableSni") = Unset
      /\ Get(kind, "reality") = Unset => Get(kind, "pbk") = Unset /\ Get(kind, "sid") = Unset
  BY <1>5, <1>6, LinkOne, LinkNone DEF Unset
<1>8. LinkFilled(c ++ kind) /\ \A k : Get(c ++ kind, k) = IF Get(c, k) # Unset THEN Get(c, k) ELSE Get(kind, k)
  BY <1>4, <1>7, LinkMerge
<1>9. x = c ++ kind
  BY <1>1 DEF c, b, a
<1>10. \A k \in {"reality", "insecure", "disableSni", "pbk", "sid"} : Get(c, k) = Unset
  BY <1>2, <1>3, <1>4, <1>c DEF JsonTls
<1>11. Get(c, "tls") = "1" /\ Get(c, "utls") \in {Unset, "1"} /\ Get(kind, "utls") = Unset
  BY <1>2, <1>3, <1>4, <1>c, <1>7 DEF JsonTls, Unset
<1>12. \A k : k \notin LinkTlsFields => Get(c, k) = Unset /\ Get(kind, k) = Unset
  BY <1>2, <1>3, <1>4, <1>c, <1>7 DEF LinkTlsFields
<1> QED BY <1>7, <1>8, <1>9, <1>10, <1>11, <1>12 DEF Unset

LinkTransportFields == {"transport", "host", "path", "service", "earlyData", "mux"}

LEMMA LinkTransportRow ==
    ASSUME NEW x \in Transports
    PROVE  /\ LinkWithin(x, LinkTransportFields)
           /\ Get(x, "transport") \in {Unset, "quic", "grpc", "http", "ws", "httpupgrade"}
           /\ Get(x, "transport") # "grpc" => Get(x, "service") = Unset
           /\ Get(x, "transport") \notin {"http", "ws", "httpupgrade"} =>
                Get(x, "host") = Unset /\ Get(x, "path") = Unset
<1> DEFINE h == One("host", "h")
           p == One("path", "p")
           e == One("earlyData", "e")
           g == One("transport", "grpc")
           q == One("transport", "quic")
           s == One("service", "s")
           m == One("mux", "x")
<1>1. /\ LinkWithin(h, {"host"}) /\ LinkWithin(p, {"path"}) /\ LinkWithin(e, {"earlyData"})
      /\ LinkWithin(g, {"transport"}) /\ LinkWithin(q, {"transport"})
      /\ LinkWithin(s, {"service"}) /\ LinkWithin(m, {"mux"})
      /\ Get(g, "transport") = "grpc" /\ Get(q, "transport") = "quic"
  BY LinkWithinParts, LinkOne DEF Unset
<1>2. \/ x = None
      \/ x = q ++ m
      \/ x = g ++ s
      \/ \E t \in {"http", "ws", "httpupgrade"}, more \in {None, h, p, h ++ p ++ e} : x = One("transport", t) ++ more
  BY DEF Transports
<1> HIDE DEF h, p, e, g, q, s, m
<1>3. CASE x = None
  BY <1>3, LinkWithinParts, LinkNone
<1>4. CASE x = q ++ m
  <2>1. /\ LinkWithin(q ++ m, {"transport"} \cup {"mux"})
        /\ \A k : Get(q ++ m, k) = IF Get(q, k) # Unset THEN Get(q, k) ELSE Get(m, k)
    BY <1>1, LinkWithinMerge
  <2>2. Get(q ++ m, "transport") = "quic"
    BY <1>1, <2>1 DEF Unset
  <2>3. LinkWithin(x, LinkTransportFields)
    BY <1>4, <2>1, LinkWithinMore DEF LinkTransportFields
  <2> QED BY <1>4, <2>1, <2>2, <2>3 DEF LinkWithin
<1>5. CASE x = g ++ s
  <2>1. /\ LinkWithin(g ++ s, {"transport"} \cup {"service"})
        /\ \A k : Get(g ++ s, k) = IF Get(g, k) # Unset THEN Get(g, k) ELSE Get(s, k)
    BY <1>1, LinkWithinMerge
  <2>2. Get(g ++ s, "transport") = "grpc"
    BY <1>1, <2>1 DEF Unset
  <2>3. LinkWithin(x, LinkTransportFields)
    BY <1>5, <2>1, LinkWithinMore DEF LinkTransportFields
  <2> QED BY <1>5, <2>1, <2>2, <2>3 DEF LinkWithin
<1>6. ASSUME NEW t \in {"http", "ws", "httpupgrade"}, NEW more \in {None, h, p, h ++ p ++ e},
             x = One("transport", t) ++ more
      PROVE  /\ LinkWithin(x, LinkTransportFields)
             /\ Get(x, "transport") = t /\ Get(x, "service") = Unset
  <2> DEFINE r == One("transport", t)
             carried == {"host", "path", "earlyData"}
  <2>1. LinkWithin(r, {"transport"}) /\ Get(r, "transport") = t
    BY LinkWithinParts, LinkOne DEF Unset
  <2>2. LinkWithin(h ++ p, {"host"} \cup {"path"})
    BY <1>1, LinkWithinMerge
  <2>3. LinkWithin(h ++ p ++ e, ({"host"} \cup {"path"}) \cup {"earlyData"})
    BY <1>1, <2>2, LinkWithinMerge
  <2>4. LinkWithin(more, carried)
    <3>1. CASE more = None
      BY <3>1, LinkWithinParts
    <3>2. CASE more = h
      BY <1>1, <3>2, LinkWithinMore
    <3>3. CASE more = p
      BY <1>1, <3>3, LinkWithinMore
    <3>4. CASE more = h ++ p ++ e
      BY <2>3, <3>4, LinkWithinMore
    <3> QED BY <3>1, <3>2, <3>3, <3>4
  <2> HIDE DEF r, carried
  <2>5. /\ LinkWithin(r ++ more, {"transport"} \cup carried)
        /\ \A k : Get(r ++ more, k) = IF Get(r, k) # Unset THEN Get(r, k) ELSE Get(more, k)
    <3>1. LinkWithin(r ++ more, {"transport"} \cup carried)
      BY <2>1, <2>4, LinkWithinMerge
    <3>2. LinkFilled(r) /\ LinkFilled(more)
      BY <2>1, <2>4 DEF LinkWithin
    <3>3. \A k : Get(r ++ more, k) = IF Get(r, k) # Unset THEN Get(r, k) ELSE Get(more, k)
      BY <3>2, LinkMerge
    <3> QED BY <3>1, <3>3
  <2>6. x = r ++ more
    BY <1>6 DEF r
  <2>7. LinkWithin(x, LinkTransportFields)
    BY <2>5, <2>6, LinkWithinMore DEF LinkTransportFields, carried
  <2> QED BY <2>1, <2>5, <2>6, <2>7 DEF LinkWithin, carried, Unset
<1> QED BY <1>2, <1>3, <1>4, <1>5, <1>6

LinkHysteriaFields == {"up", "down", "obfs", "ports", "fastOpen", "recvWindow", "mtuDiscovery"}
LinkTuicFields     == {"mode", "congestion", "zeroRtt", "heartbeat"}

LEMMA LinkHysteriaRow ==
    ASSUME NEW x \in HysteriaOptions PROVE LinkWithin(x, LinkHysteriaFields)
<1> DEFINE u == One("up", "10")
           d == One("down", "20")
           o == One("obfs", "o")
           p == One("ports", "1:9")
           fields == {"fastOpen", "recvWindow", "mtuDiscovery"}
           m == [f \in fields |-> "x"]
<1>1. /\ LinkWithin(u, {"up"}) /\ LinkWithin(d, {"down"}) /\ LinkWithin(o, {"obfs"})
      /\ LinkWithin(p, {"ports"}) /\ LinkWithin(m, fields)
  BY LinkWithinParts DEF Unset
<1>2. x = None \/ x = u ++ d ++ o \/ x = p ++ m
  BY DEF HysteriaOptions
<1> HIDE DEF u, d, o, p, m
<1>3. LinkWithin(u ++ d, {"up"} \cup {"down"})
  BY <1>1, LinkWithinMerge
<1>4. LinkWithin(u ++ d ++ o, ({"up"} \cup {"down"}) \cup {"obfs"}) /\ LinkWithin(p ++ m, {"ports"} \cup fields)
  BY <1>1, <1>3, LinkWithinMerge
<1>5. CASE x = None
  BY <1>5, LinkWithinParts
<1>6. CASE x = u ++ d ++ o
  BY <1>4, <1>6, LinkWithinMore DEF LinkHysteriaFields
<1>7. CASE x = p ++ m
  BY <1>4, <1>7, LinkWithinMore DEF LinkHysteriaFields
<1> QED BY <1>2, <1>5, <1>6, <1>7

LEMMA LinkTuicRow ==
    ASSUME NEW x \in TuicOptions PROVE LinkWithin(x, LinkTuicFields)
<1> DEFINE n == One("mode", "native")
           c == One("congestion", "bbr")
           fields == {"zeroRtt", "heartbeat"}
           m == [f \in fields |-> "x"]
<1>1. LinkWithin(n, {"mode"}) /\ LinkWithin(c, {"congestion"}) /\ LinkWithin(m, fields)
  BY LinkWithinParts DEF Unset
<1>2. x = None \/ x = n \/ x = c \/ x = n ++ c ++ m
  BY DEF TuicOptions
<1> HIDE DEF n, c, m
<1>3. LinkWithin(n ++ c, {"mode"} \cup {"congestion"})
  BY <1>1, LinkWithinMerge
<1>4. LinkWithin(n ++ c ++ m, ({"mode"} \cup {"congestion"}) \cup fields)
  BY <1>1, <1>3, LinkWithinMerge
<1>5. CASE x = None
  BY <1>5, LinkWithinParts
<1>6. CASE x = n \/ x = c
  BY <1>1, <1>6, LinkWithinMore DEF LinkTuicFields
<1>7. CASE x = n ++ c ++ m
  BY <1>4, <1>7, LinkWithinMore DEF LinkTuicFields
<1> QED BY <1>2, <1>5, <1>6, <1>7

LEMMA LinkNaiveRow ==
    ASSUME NEW x \in NaiveOptions PROVE LinkWithin(x, {"quicControl"})
<1>1. PICK c \in {Unset, "bbr_standard", "bbr"} : x = Opt("quicControl", c)
  BY DEF NaiveOptions
<1> QED BY <1>1, LinkOpt DEF LinkWithin

LEMMA LinkOptionsOfStream ==
    ASSUME NEW type \in OverTransport, NEW o \in Options[type]
    PROVE  LinkOptions(type, o)
<1>1. type \in LinkTypes /\ type \notin {"hysteria", "hysteria2", "tuic", "anytls", "naive", "shadowsocks"}
  BY DEF LinkTypes, OverTransport, OverQuic
<1>2. Options[type] = { x ++ y : x \in Transports, y \in {None} \cup TlsRows }
  BY <1>1 DEF Options
<1>3. PICK x \in Transports, y \in {None} \cup TlsRows : o = x ++ y
  BY <1>2
<1>4. /\ LinkFilled(x)
      /\ \A k : k \notin LinkTransportFields => Get(x, k) = Unset
      /\ Get(x, "transport") \in {Unset, "quic", "grpc", "http", "ws", "httpupgrade"}
      /\ Get(x, "transport") # "grpc" => Get(x, "service") = Unset
      /\ Get(x, "transport") \notin {"http", "ws", "httpupgrade"} =>
                Get(x, "host") = Unset /\ Get(x, "path") = Unset
  BY LinkTransportRow DEF LinkWithin
<1>5. /\ LinkFilled(y)
      /\ \A k : k \notin LinkTlsFields => Get(y, k) = Unset
      /\ \A k \in {"tls", "utls", "reality", "insecure", "disableSni"} : Get(y, k) \in {Unset, "1"}
      /\ Get(y, "tls") = Unset => \A k : Get(y, k) = Unset
      /\ Get(y, "reality") = "1" => Get(y, "insecure") = Unset /\ Get(y, "disableSni") = Unset
      /\ Get(y, "reality") = Unset => Get(y, "pbk") = Unset /\ Get(y, "sid") = Unset
  <2>1. CASE y = None
    BY <2>1, LinkNone DEF Unset
  <2>2. CASE y \in TlsRows
    BY <2>2, LinkRow DEF Unset
  <2> QED BY <2>1, <2>2
<1>6. LinkFilled(o) /\ \A k : Get(o, k) = IF Get(x, k) # Unset THEN Get(x, k) ELSE Get(y, k)
  BY <1>3, <1>4, <1>5, LinkMerge
<1>7. LinkFields(type) = LinkTlsFields \cup LinkTransportFields
  BY <1>1 DEF LinkFields, LinkTransportFields
<1>8. /\ \A k \in LinkTlsFields : Get(o, k) = Get(y, k)
      /\ \A k \in LinkTransportFields : Get(o, k) = Get(x, k)
      /\ \A k : k \notin LinkFields(type) => Get(o, k) = Unset
  <2>1. \A k \in LinkTlsFields : k \notin LinkTransportFields
    BY DEF LinkTlsFields, LinkTransportFields, JsonTls
  <2>2. \A k \in LinkTransportFields : k \notin LinkTlsFields
    BY <2>1
  <2> QED BY <1>4, <1>5, <1>6, <1>7, <2>1, <2>2
<1>9. /\ {"tls", "utls", "reality", "insecure", "disableSni", "pbk", "sid"} \subseteq LinkTlsFields
      /\ {"transport", "service", "host", "path"} \subseteq LinkTransportFields
  BY DEF LinkTlsFields, LinkTransportFields
<1>10. type \notin OverQuic \cup {"anytls", "naive"} /\ type # "shadowsocks"
  BY <1>1 DEF OverQuic
<1> QED BY <1>4, <1>5, <1>6, <1>8, <1>9, <1>10 DEF LinkOptions

LEMMA LinkOptionsOfQuic ==
    ASSUME NEW type \in OverQuic \cup {"anytls", "naive"}, NEW o \in Options[type]
    PROVE  LinkOptions(type, o)
<1>1. type \in LinkTypes /\ type \notin OverTransport \cup {"shadowsocks"}
  BY DEF LinkTypes, OverTransport, OverQuic
<1> DEFINE more == CASE type \in {"hysteria", "hysteria2"} -> LinkHysteriaFields
                     [] type = "tuic" -> LinkTuicFields
                     [] type = "naive" -> {"quicControl"}
                     [] OTHER -> {}
<1>2. LinkFields(type) = LinkTlsFields \cup more
  BY <1>1 DEF LinkFields, LinkHysteriaFields, LinkTuicFields
<1>3. PICK x, y : y \in TlsRows /\ (o = x ++ y \/ (o = y /\ x = None)) /\ LinkWithin(x, more)
  <2>1. CASE type \in {"hysteria", "hysteria2"}
    <3>1. Options[type] = { x ++ y : x \in HysteriaOptions, y \in TlsRows }
      BY <1>1, <2>1 DEF Options
    <3> QED BY <2>1, <3>1, LinkHysteriaRow
  <2>2. CASE type = "tuic"
    <3>1. Options[type] = { x ++ y : x \in TuicOptions, y \in TlsRows }
      BY <1>1, <2>2 DEF Options
    <3> QED BY <2>2, <3>1, LinkTuicRow
  <2>3. CASE type = "naive"
    <3>1. Options[type] = { x ++ y : x \in NaiveOptions, y \in TlsRows }
      BY <1>1, <2>3 DEF Options
    <3> QED BY <2>3, <3>1, LinkNaiveRow
  <2>4. CASE type = "anytls"
    <3>1. Options[type] = TlsRows
      BY <1>1, <2>4 DEF Options
    <3> QED BY <2>4, <3>1, LinkWithinParts
  <2> QED BY <2>1, <2>2, <2>3, <2>4 DEF OverQuic
<1>4. \A k : k \in more => k \notin LinkTlsFields /\ k \notin {"transport", "host", "path", "service"}
  BY DEF LinkHysteriaFields, LinkTuicFields, LinkTlsFields, JsonTls
<1> HIDE DEF more
<1>5. LinkFilled(x) /\ \A k : k \notin more => Get(x, k) = Unset
  BY <1>3 DEF LinkWithin
<1>6. /\ LinkFilled(y)
      /\ \A k : k \notin LinkTlsFields => Get(y, k) = Unset
      /\ \A k \in {"utls", "reality", "insecure", "disableSni"} : Get(y, k) \in {Unset, "1"}
      /\ Get(y, "tls") = "1"
      /\ Get(y, "reality") = "1" => Get(y, "insecure") = Unset /\ Get(y, "disableSni") = Unset
      /\ Get(y, "reality") = Unset => Get(y, "pbk") = Unset /\ Get(y, "sid") = Unset
  BY <1>3, LinkRow, Zenon
<1>7. LinkFilled(o) /\ \A k : Get(o, k) = IF Get(x, k) # Unset THEN Get(x, k) ELSE Get(y, k)
  <2>1. CASE o = x ++ y
    BY <1>5, <1>6, <2>1, LinkMerge
  <2>2. CASE o = y /\ x = None
    BY <1>6, <2>2, LinkNone
  <2> QED BY <1>3, <2>1, <2>2
<1>8. /\ \A k \in LinkTlsFields : Get(o, k) = Get(y, k)
      /\ \A k \in {"transport", "host", "path", "service"} : Get(o, k) = Unset
      /\ \A k : k \notin LinkFields(type) => Get(o, k) = Unset
  <2>1. \A k \in {"transport", "host", "path", "service"} : k \notin LinkTlsFields
    BY DEF LinkTlsFields, JsonTls
  <2> QED BY <1>2, <1>4, <1>5, <1>6, <1>7, <2>1
<1>9. {"tls", "utls", "reality", "insecure", "disableSni", "pbk", "sid"} \subseteq LinkTlsFields
  BY DEF LinkTlsFields
<1> QED BY <1>1, <1>6, <1>7, <1>8, <1>9 DEF LinkOptions, Unset

LEMMA LinkInboundsAreAny ==
    ASSUME \A addrs \in Overrides : AddressesAlike(addrs), NEW i \in Inbounds
    PROVE  AnyInbound(i)
<1>1. PICK t \in LinkTypes : \E o \in Options[t] : i \in InboundsWith(t, o)
  BY DEF Inbounds
<1>2. PICK o \in Options[t] : i \in InboundsWith(t, o)
  BY <1>1
<1>3. PICK flow \in (IF t = "vless" THEN {Unset, "vision"} ELSE {Unset}),
           addrs \in (IF t = "shadowsocks" THEN {<<>>} ELSE Overrides) :
        i = [type |-> t, options |-> o, flow |-> flow, addrs |-> addrs]
  BY <1>2 DEF InboundsWith
<1>4. LinkOptions(t, o)
  <2>1. CASE t \in OverTransport
    BY <2>1, LinkOptionsOfStream
  <2>2. CASE t \in OverQuic \cup {"anytls", "naive"}
    BY <2>2, LinkOptionsOfQuic
  <2>3. CASE t = "shadowsocks"
    <3>1. Options[t] = {None}
      BY <2>3 DEF Options, LinkTypes, OverTransport, OverQuic
    <3>2. o = None
      BY <3>1
    <3> QED BY <2>3, <3>2, LinkNone DEF LinkOptions, OverQuic, Unset
  <2> QED BY <2>1, <2>2, <2>3 DEF LinkTypes
<1>5. AddressesAlike(addrs)
  <2>1. CASE t # "shadowsocks"
    BY <1>3, <2>1
  <2>2. CASE t = "shadowsocks"
    BY <1>3, <2>2 DEF AddressesAlike
  <2> QED BY <2>1, <2>2
<1> QED BY <1>3, <1>4, <1>5 DEF AnyInbound

-----------------------------------------------------------------------------
(* The import of a 3x-ui database: what its runs over the rows keep and     *)
(* leave, table by table, and what the whole transaction does.              *)

\* What holds at first and from each number to the next holds of all.
LEMMA XIUpTo ==
    ASSUME NEW N \in Nat, NEW S, 0 \in S, \A n \in 0..N : n \in S /\ n # N => n + 1 \in S
    PROVE  \A n \in 0..N : n \in S
<1> DEFINE Bad == {n \in 0..N : n \notin S}
<1> SUFFICES ASSUME Bad # {} PROVE FALSE
  OBVIOUS
<1>0. Bad \subseteq Nat /\ Bad # {}
  OBVIOUS
<1> HIDE DEF Bad
<1>1. PICK i \in Bad : \A j \in Bad : i <= j
  BY <1>0, LeastExists
<1> USE DEF Bad
<1>2. i # 0 /\ i - 1 \in 0..N /\ i - 1 # N /\ i = (i - 1) + 1
  BY <1>1
<1>3. i - 1 \in S
  BY <1>1, <1>2
<1> QED BY <1>1, <1>2, <1>3

\* Of rows with ids there is a first one.
LEMMA XIFirstExists ==
    ASSUME NEW rows, rows # {}, \A r \in rows : r.id \in Nat
    PROVE  XIFirst(rows) \in rows /\ \A r \in rows : XIFirst(rows).id <= r.id
<1> DEFINE ids == {r.id : r \in rows}
<1>1. ids \subseteq Nat /\ ids # {}
  OBVIOUS
<1> HIDE DEF ids
<1>2. PICK i \in ids : \A j \in ids : i <= j
  BY <1>1, LeastExists
<1>3. \E r \in rows : \A q \in rows : r.id <= q.id
  BY <1>2 DEF ids
<1> QED BY <1>3 DEF XIFirst

LEMMA XIFirstIs ==
    ASSUME NEW rows, NEW r \in rows, \A q \in rows : r.id <= q.id,
           \A q \in rows : q.id \in Nat /\ (q.id = r.id => q = r)
    PROVE  XIFirst(rows) = r
<1>1. XIFirst(rows) \in rows /\ XIFirst(rows).id <= r.id
  BY XIFirstExists
<1> QED BY <1>1

LEMMA XITlsRun ==
    ASSUME NEW db, NEW upload, NEW items, Len(upload.rows) \in Nat
    PROVE  \E w : /\ w[0] = [tls |-> db.tls, last |-> db.lastTls, ids |-> <<>>, ok |-> TRUE]
                  /\ \A n \in 1..Len(upload.rows) :
                        w[n] = XITlsStep(w[n - 1], upload.rows[n], items, db.inbounds)
                  /\ XIApplyTls(db, upload, items) = w[Len(upload.rows)]
<1> DEFINE N == Len(upload.rows)
           a == [tls |-> db.tls, last |-> db.lastTls, ids |-> <<>>, ok |-> TRUE]
           Is(f, k) == f = [n \in 0..k |-> IF n = 0 THEN a
                                ELSE XITlsStep(f[n - 1], upload.rows[n], items, db.inbounds)]
           S == {k \in 0..N : \E f : Is(f, k)}
<1> HIDE DEF a
<1>1. 0 \in S
  <2>1. Is([n \in 0..0 |-> a], 0)
    OBVIOUS
  <2>2. 0 \in 0..N
    OBVIOUS
  <2> HIDE DEF Is
  <2> QED BY <2>1, <2>2
<1>2. ASSUME NEW k \in 0..N, k \in S, k # N PROVE k + 1 \in S
  <2>1. PICK f : Is(f, k)
    BY <1>2
  <2> DEFINE g == [n \in 0..(k + 1) |-> IF n = k + 1 THEN XITlsStep(f[k], upload.rows[k + 1], items, db.inbounds)
                                        ELSE f[n]]
  <2>2. \A n \in 0..k : g[n] = f[n]
    OBVIOUS
  <2>3. ASSUME NEW n \in 0..(k + 1)
        PROVE  g[n] = IF n = 0 THEN a ELSE XITlsStep(g[n - 1], upload.rows[n], items, db.inbounds)
    <3>1. CASE n = 0
      BY <2>1, <2>2, <3>1
    <3>2. CASE n \in 1..k
      <4>1. n - 1 \in 0..k /\ n \in 0..k /\ n # 0
        BY <3>2
      <4>2. g[n - 1] = f[n - 1] /\ g[n] = f[n]
        BY <2>2, <4>1
      <4> HIDE DEF g
      <4> QED BY <2>1, <4>1, <4>2
    <3>3. CASE n = k + 1
      <4>1. n # 0 /\ n - 1 = k /\ k \in 0..k
        BY <3>3
      <4>2. g[k] = f[k] /\ g[n] = XITlsStep(f[k], upload.rows[k + 1], items, db.inbounds)
        BY <2>2, <3>3, <4>1
      <4> HIDE DEF g
      <4> QED BY <3>3, <4>1, <4>2
    <3> QED BY <3>1, <3>2, <3>3
  <2>4. g = [n \in 0..(k + 1) |-> g[n]]
    OBVIOUS
  <2> HIDE DEF g
  <2>5. Is(g, k + 1)
    BY <2>3, <2>4
  <2>6. k + 1 \in 0..N
    BY <1>2
  <2> HIDE DEF Is
  <2> QED BY <2>5, <2>6
<1>3. \E f : Is(f, N)
  <2> HIDE DEF S
  <2>1. N \in Nat /\ N \in 0..N
    OBVIOUS
  <2>2. \A k \in 0..N : k \in S /\ k # N => k + 1 \in S
    BY <1>2
  <2> HIDE DEF N
  <2>3. N \in S
    BY <1>1, <2>1, <2>2, XIUpTo
  <2> QED BY <2>3 DEF S
<1> DEFINE w == CHOOSE f : Is(f, N)
<1>4. Is(w, N)
  BY <1>3
<1>5. XIApplyTls(db, upload, items) = w[N]
  BY DEF XIApplyTls, a
<1> HIDE DEF w
<1>6. w[0] = a /\ \A n \in 1..N : w[n] = XITlsStep(w[n - 1], upload.rows[n], items, db.inbounds)
  BY <1>4
<1> QED BY <1>5, <1>6 DEF a

LEMMA XIRowsRun ==
    ASSUME NEW db, NEW upload, NEW items, NEW ids, Len(upload.rows) \in Nat
    PROVE  \E w : /\ w[0] = [inbounds |-> db.inbounds, last |-> db.lastInbound, endpoints |-> db.endpoints, row |-> <<>>]
                  /\ \A n \in 1..Len(upload.rows) :
                        w[n] = XIRowStep(w[n - 1], upload.rows[n], items, ids)
                  /\ XIApplyInbounds(db, upload, items, ids) = w[Len(upload.rows)]
<1> DEFINE N == Len(upload.rows)
           a == [inbounds |-> db.inbounds, last |-> db.lastInbound, endpoints |-> db.endpoints, row |-> <<>>]
           Is(f, k) == f = [n \in 0..k |-> IF n = 0 THEN a
                                ELSE XIRowStep(f[n - 1], upload.rows[n], items, ids)]
           S == {k \in 0..N : \E f : Is(f, k)}
<1> HIDE DEF a
<1>1. 0 \in S
  <2>1. Is([n \in 0..0 |-> a], 0)
    OBVIOUS
  <2>2. 0 \in 0..N
    OBVIOUS
  <2> HIDE DEF Is
  <2> QED BY <2>1, <2>2
<1>2. ASSUME NEW k \in 0..N, k \in S, k # N PROVE k + 1 \in S
  <2>1. PICK f : Is(f, k)
    BY <1>2
  <2> DEFINE g == [n \in 0..(k + 1) |-> IF n = k + 1 THEN XIRowStep(f[k], upload.rows[k + 1], items, ids)
                                        ELSE f[n]]
  <2>2. \A n \in 0..k : g[n] = f[n]
    OBVIOUS
  <2>3. ASSUME NEW n \in 0..(k + 1)
        PROVE  g[n] = IF n = 0 THEN a ELSE XIRowStep(g[n - 1], upload.rows[n], items, ids)
    <3>1. CASE n = 0
      BY <2>1, <2>2, <3>1
    <3>2. CASE n \in 1..k
      <4>1. n - 1 \in 0..k /\ n \in 0..k /\ n # 0
        BY <3>2
      <4>2. g[n - 1] = f[n - 1] /\ g[n] = f[n]
        BY <2>2, <4>1
      <4> HIDE DEF g
      <4> QED BY <2>1, <4>1, <4>2
    <3>3. CASE n = k + 1
      <4>1. n # 0 /\ n - 1 = k /\ k \in 0..k
        BY <3>3
      <4>2. g[k] = f[k] /\ g[n] = XIRowStep(f[k], upload.rows[k + 1], items, ids)
        BY <2>2, <3>3, <4>1
      <4> HIDE DEF g
      <4> QED BY <3>3, <4>1, <4>2
    <3> QED BY <3>1, <3>2, <3>3
  <2>4. g = [n \in 0..(k + 1) |-> g[n]]
    OBVIOUS
  <2> HIDE DEF g
  <2>5. Is(g, k + 1)
    BY <2>3, <2>4
  <2>6. k + 1 \in 0..N
    BY <1>2
  <2> HIDE DEF Is
  <2> QED BY <2>5, <2>6
<1>3. \E f : Is(f, N)
  <2> HIDE DEF S
  <2>1. N \in Nat /\ N \in 0..N
    OBVIOUS
  <2>2. \A k \in 0..N : k \in S /\ k # N => k + 1 \in S
    BY <1>2
  <2> HIDE DEF N
  <2>3. N \in S
    BY <1>1, <2>1, <2>2, XIUpTo
  <2> QED BY <2>3 DEF S
<1> DEFINE w == CHOOSE f : Is(f, N)
<1>4. Is(w, N)
  BY <1>3
<1>5. XIApplyInbounds(db, upload, items, ids) = w[N]
  BY DEF XIApplyInbounds, a
<1> HIDE DEF w
<1>6. w[0] = a /\ \A n \in 1..N : w[n] = XIRowStep(w[n - 1], upload.rows[n], items, ids)
  BY <1>4
<1> QED BY <1>5, <1>6 DEF a

LEMMA XIClientsRun ==
    ASSUME NEW db, NEW upload, NEW items, NEW row, Len(upload.names) \in Nat
    PROVE  \E w : /\ w[0] = [clients |-> db.clients, last |-> db.lastClient]
                  /\ \A n \in 1..Len(upload.names) :
                        w[n] = XIClientStep(w[n - 1], upload.names[n], items, XIAggregate(row, upload, upload.names[n]))
                  /\ XIApplyClients(db, upload, items, row) = w[Len(upload.names)]
<1> DEFINE N == Len(upload.names)
           a == [clients |-> db.clients, last |-> db.lastClient]
           Is(f, k) == f = [n \in 0..k |-> IF n = 0 THEN a
                                ELSE XIClientStep(f[n - 1], upload.names[n], items, XIAggregate(row, upload, upload.names[n]))]
           S == {k \in 0..N : \E f : Is(f, k)}
<1> HIDE DEF a
<1>1. 0 \in S
  <2>1. Is([n \in 0..0 |-> a], 0)
    OBVIOUS
  <2>2. 0 \in 0..N
    OBVIOUS
  <2> HIDE DEF Is
  <2> QED BY <2>1, <2>2
<1>2. ASSUME NEW k \in 0..N, k \in S, k # N PROVE k + 1 \in S
  <2>1. PICK f : Is(f, k)
    BY <1>2
  <2> DEFINE g == [n \in 0..(k + 1) |-> IF n = k + 1 THEN XIClientStep(f[k], upload.names[k + 1], items, XIAggregate(row, upload, upload.names[k + 1]))
                                        ELSE f[n]]
  <2>2. \A n \in 0..k : g[n] = f[n]
    OBVIOUS
  <2>3. ASSUME NEW n \in 0..(k + 1)
        PROVE  g[n] = IF n = 0 THEN a ELSE XIClientStep(g[n - 1], upload.names[n], items, XIAggregate(row, upload, upload.names[n]))
    <3>1. CASE n = 0
      BY <2>1, <2>2, <3>1
    <3>2. CASE n \in 1..k
      <4>1. n - 1 \in 0..k /\ n \in 0..k /\ n # 0
        BY <3>2
      <4>2. g[n - 1] = f[n - 1] /\ g[n] = f[n]
        BY <2>2, <4>1
      <4> HIDE DEF g
      <4> QED BY <2>1, <4>1, <4>2
    <3>3. CASE n = k + 1
      <4>1. n # 0 /\ n - 1 = k /\ k \in 0..k
        BY <3>3
      <4>2. g[k] = f[k] /\ g[n] = XIClientStep(f[k], upload.names[k + 1], items, XIAggregate(row, upload, upload.names[k + 1]))
        BY <2>2, <3>3, <4>1
      <4> HIDE DEF g
      <4> QED BY <3>3, <4>1, <4>2
    <3> QED BY <3>1, <3>2, <3>3
  <2>4. g = [n \in 0..(k + 1) |-> g[n]]
    OBVIOUS
  <2> HIDE DEF g
  <2>5. Is(g, k + 1)
    BY <2>3, <2>4
  <2>6. k + 1 \in 0..N
    BY <1>2
  <2> HIDE DEF Is
  <2> QED BY <2>5, <2>6
<1>3. \E f : Is(f, N)
  <2> HIDE DEF S
  <2>1. N \in Nat /\ N \in 0..N
    OBVIOUS
  <2>2. \A k \in 0..N : k \in S /\ k # N => k + 1 \in S
    BY <1>2
  <2> HIDE DEF N
  <2>3. N \in S
    BY <1>1, <2>1, <2>2, XIUpTo
  <2> QED BY <2>3 DEF S
<1> DEFINE w == CHOOSE f : Is(f, N)
<1>4. Is(w, N)
  BY <1>3
<1>5. XIApplyClients(db, upload, items, row) = w[N]
  BY DEF XIApplyClients, a
<1> HIDE DEF w
<1>6. w[0] = a /\ \A n \in 1..N : w[n] = XIClientStep(w[n - 1], upload.names[n], items, XIAggregate(row, upload, upload.names[n]))
  BY <1>4
<1> QED BY <1>5, <1>6 DEF a

LEMMA XIRulesRun ==
    ASSUME NEW rules, NEW additions, Len(additions) \in Nat
    PROVE  \E w : /\ w[0] = rules
                  /\ \A n \in 1..Len(additions) :
                        w[n] = XIAppendRule(w[n - 1], additions[n])
                  /\ XIAppendUnique(rules, additions) = w[Len(additions)]
<1> DEFINE N == Len(additions)
           a == rules
           Is(f, k) == f = [n \in 0..k |-> IF n = 0 THEN a
                                ELSE XIAppendRule(f[n - 1], additions[n])]
           S == {k \in 0..N : \E f : Is(f, k)}
<1> HIDE DEF a
<1>1. 0 \in S
  <2>1. Is([n \in 0..0 |-> a], 0)
    OBVIOUS
  <2>2. 0 \in 0..N
    OBVIOUS
  <2> HIDE DEF Is
  <2> QED BY <2>1, <2>2
<1>2. ASSUME NEW k \in 0..N, k \in S, k # N PROVE k + 1 \in S
  <2>1. PICK f : Is(f, k)
    BY <1>2
  <2> DEFINE g == [n \in 0..(k + 1) |-> IF n = k + 1 THEN XIAppendRule(f[k], additions[k + 1])
                                        ELSE f[n]]
  <2>2. \A n \in 0..k : g[n] = f[n]
    OBVIOUS
  <2>3. ASSUME NEW n \in 0..(k + 1)
        PROVE  g[n] = IF n = 0 THEN a ELSE XIAppendRule(g[n - 1], additions[n])
    <3>1. CASE n = 0
      BY <2>1, <2>2, <3>1
    <3>2. CASE n \in 1..k
      <4>1. n - 1 \in 0..k /\ n \in 0..k /\ n # 0
        BY <3>2
      <4>2. g[n - 1] = f[n - 1] /\ g[n] = f[n]
        BY <2>2, <4>1
      <4> HIDE DEF g
      <4> QED BY <2>1, <4>1, <4>2
    <3>3. CASE n = k + 1
      <4>1. n # 0 /\ n - 1 = k /\ k \in 0..k
        BY <3>3
      <4>2. g[k] = f[k] /\ g[n] = XIAppendRule(f[k], additions[k + 1])
        BY <2>2, <3>3, <4>1
      <4> HIDE DEF g
      <4> QED BY <3>3, <4>1, <4>2
    <3> QED BY <3>1, <3>2, <3>3
  <2>4. g = [n \in 0..(k + 1) |-> g[n]]
    OBVIOUS
  <2> HIDE DEF g
  <2>5. Is(g, k + 1)
    BY <2>3, <2>4
  <2>6. k + 1 \in 0..N
    BY <1>2
  <2> HIDE DEF Is
  <2> QED BY <2>5, <2>6
<1>3. \E f : Is(f, N)
  <2> HIDE DEF S
  <2>1. N \in Nat /\ N \in 0..N
    OBVIOUS
  <2>2. \A k \in 0..N : k \in S /\ k # N => k + 1 \in S
    BY <1>2
  <2> HIDE DEF N
  <2>3. N \in S
    BY <1>1, <2>1, <2>2, XIUpTo
  <2> QED BY <2>3 DEF S
<1> DEFINE w == CHOOSE f : Is(f, N)
<1>4. Is(w, N)
  BY <1>3
<1>5. XIAppendUnique(rules, additions) = w[N]
  BY DEF XIAppendUnique, a
<1> HIDE DEF w
<1>6. w[0] = a /\ \A n \in 1..N : w[n] = XIAppendRule(w[n - 1], additions[n])
  BY <1>4
<1> QED BY <1>5, <1>6 DEF a

-----------------------------------------------------------------------------
(* The certificates.                                                        *)

XIRowsOK(upload) == upload.rows \in Seq(Range(upload.rows))
LEMMA XIRowsIndexed ==
    ASSUME NEW upload, XIRowsOK(upload)
    PROVE  /\ Len(upload.rows) \in Nat
           /\ \A n \in 1..Len(upload.rows) : upload.rows[n] \in Range(upload.rows)
           /\ \A r \in Range(upload.rows) : \E n \in 1..Len(upload.rows) : upload.rows[n] = r
<1>1. DOMAIN upload.rows = 1..Len(upload.rows) /\ Len(upload.rows) \in Nat
  BY DEF XIRowsOK
<1> QED BY <1>1 DEF Range

XITlsFields(work) == DOMAIN work = {"tls", "last", "ids", "ok"} /\ work = [x \in DOMAIN work |-> work[x]]
XITlsIds(work) == work.last \in Nat /\ \A t \in work.tls : t.id \in 1..work.last
\* Of a certificate that is known the first row is meant.
XITlsFirst(work) == \A k \in DOMAIN work.ids : work.ids[k] = XIFirst(XITlsFound(work.tls, k)).id
XITlsKnown(work) == \A k \in DOMAIN work.ids : \E t \in work.tls : t.id = work.ids[k] /\ t.key = k
XITlsLeft(items, rows, key) == XIItem(items, "tls", key).action = "skip" /\ \A t \in rows : t.key # key
\* A row has been dealt with: its certificate is known, or was not wanted.
XITlsDone(work, row, items) ==
  work.ok /\ row.kind = "inbound" /\ row.key # XINoKey =>
    row.key \in DOMAIN work.ids \/ XITlsLeft(items, work.tls, row.key)

LEMMA XITlsStepSound ==
    ASSUME NEW work, NEW row, NEW items, NEW inbounds,
           XITlsFields(work), XITlsIds(work), XITlsKnown(work)
    PROVE  LET next == XITlsStep(work, row, items, inbounds)
           IN /\ XITlsFields(next) /\ XITlsIds(next) /\ XITlsKnown(next)
              /\ XITlsDone(next, row, items)
              /\ \A r : XITlsDone(work, r, items) => XITlsDone(next, r, items)
              /\ XINoKey \notin DOMAIN work.ids => XINoKey \notin DOMAIN next.ids
              /\ XITlsFirst(work) /\ (row.kind = "inbound" /\ row.key # XINoKey
                                        => XIItem(items, "tls", row.key).action # "replace")
                   => XITlsFirst(next)
<1> DEFINE next == XITlsStep(work, row, items, inbounds)
           found == XITlsFound(work.tls, row.key)
           existing == XIFirst(found)
           action == XIItem(items, "tls", row.key).action
           used == \E i \in inbounds : i.tls = existing.id
           kept == row.kind = "inbound" /\ row.key # XINoKey => action # "replace"
<1> HIDE DEF next
<1> SUFFICES /\ XITlsFields(next) /\ XITlsIds(next) /\ XITlsKnown(next)
             /\ XITlsDone(next, row, items)
             /\ \A r : XITlsDone(work, r, items) => XITlsDone(next, r, items)
             /\ XINoKey \notin DOMAIN work.ids => XINoKey \notin DOMAIN next.ids
             /\ XITlsFirst(work) /\ kept => XITlsFirst(next)
  BY DEF next
<1>0. found # {} => existing \in found
  <2>1. \A t \in found : t.id \in Nat
    BY DEF XITlsIds, XITlsFound
  <2> HIDE DEF found
  <2> QED BY <2>1, XIFirstExists
<1>1. CASE row.kind # "inbound" \/ row.key = XINoKey \/ row.key \in DOMAIN work.ids
  <2>1. next = work
    BY <1>1 DEF XITlsStep, next
  <2> QED BY <1>1, <2>1 DEF XITlsDone
<1>2. CASE ~ (row.kind # "inbound" \/ row.key = XINoKey \/ row.key \in DOMAIN work.ids)
  <2>1. CASE found # {} /\ action # "replace"
    <3> DEFINE id == existing.id
    <3>1. next = [work EXCEPT !.ids = XIPut(@, row.key, id)]
      BY <1>2, <2>1 DEF XITlsStep, next
    <3>2. \E t \in work.tls : t.id = id /\ t.key = row.key
      BY <1>0, <2>1 DEF XITlsFound
    <3>3. /\ next.tls = work.tls /\ next.ok = work.ok /\ next.ids = XIPut(work.ids, row.key, id)
          /\ next.last = work.last /\ XITlsFields(next)
      BY <3>1 DEF XITlsFields
    <3>4. XITlsKnown(next)
      BY <3>2, <3>3 DEF XITlsKnown, XIPut
    <3>5. DOMAIN next.ids = DOMAIN work.ids \cup {row.key}
      BY <3>3 DEF XIPut
    <3>6. XITlsFirst(work) => XITlsFirst(next)
      BY <3>3, <3>5 DEF XITlsFirst, XIPut
    <3> QED BY <1>2, <3>3, <3>4, <3>5, <3>6 DEF XITlsDone, XITlsLeft, XITlsIds
  <2>2. CASE found = {} /\ action = "skip"
    <3>1. next = work
      BY <1>2, <2>2 DEF XITlsStep, next
    <3> QED BY <2>2, <3>1 DEF XITlsDone, XITlsLeft, XITlsFound
  <2>3. CASE found # {} /\ action = "replace" /\ used
    <3>1. next = [work EXCEPT !.ok = FALSE]
      BY <1>2, <2>3 DEF XITlsStep, next
    <3>2. next.tls = work.tls /\ next.ids = work.ids /\ next.ok = FALSE /\ next.last = work.last /\ XITlsFields(next)
      BY <3>1 DEF XITlsFields
    <3> QED BY <3>2 DEF XITlsDone, XITlsKnown, XITlsFirst, XITlsIds
  <2>4. CASE ~ (found # {} /\ action # "replace") /\ ~ (found = {} /\ action = "skip")
             /\ ~ (found # {} /\ action = "replace" /\ used)
    <3> DEFINE id == work.last + 1
    <3>1. PICK gone : gone \subseteq found /\ next = XITlsCreated(work, gone, row.key)
      <4>1. CASE found = {}
        BY <1>2, <2>4, <4>1 DEF XITlsStep, next
      <4>2. CASE found # {}
        BY <1>0, <1>2, <2>4, <4>2 DEF XITlsStep, next
      <4> QED BY <4>1, <4>2
    <3>2. /\ next.tls = (work.tls \ gone) \cup {[id |-> id, key |-> row.key]} /\ next.last = id
          /\ next.ids = XIPut(work.ids, row.key, id) /\ next.ok = work.ok /\ XITlsFields(next)
      BY <3>1 DEF XITlsCreated, XITlsFields
    <3>3. XITlsIds(next)
      BY <3>2 DEF XITlsIds
    <3>4. DOMAIN next.ids = DOMAIN work.ids \cup {row.key}
      BY <3>2 DEF XIPut
    <3>5. ASSUME NEW k \in DOMAIN next.ids PROVE \E t \in next.tls : t.id = next.ids[k] /\ t.key = k
      <4>1. CASE k = row.key
        <5>1. next.ids[k] = id
          BY <3>2, <4>1 DEF XIPut
        <5>2. [id |-> id, key |-> row.key] \in next.tls
          BY <3>2
        <5> QED BY <4>1, <5>1, <5>2
      <4>2. CASE k # row.key
        <5>1. k \in DOMAIN work.ids /\ next.ids[k] = work.ids[k]
          BY <3>2, <3>4, <4>2 DEF XIPut
        <5>2. PICK t \in work.tls : t.id = work.ids[k] /\ t.key = k
          BY <5>1 DEF XITlsKnown
        <5> QED BY <3>1, <3>2, <4>2, <5>1, <5>2 DEF XITlsFound
      <4> QED BY <4>1, <4>2
    <3>6. ASSUME NEW r, XITlsDone(work, r, items) PROVE XITlsDone(next, r, items)
      BY <3>2, <3>4, <3>6 DEF XITlsDone, XITlsLeft, XITlsFound
    <3>7. XITlsDone(next, row, items)
      BY <3>4 DEF XITlsDone
    <3>8. ASSUME XITlsFirst(work), kept, NEW k \in DOMAIN next.ids
          PROVE  next.ids[k] = XIFirst(XITlsFound(next.tls, k)).id
      <4>1. found = {}
        BY <1>2, <2>4, <3>8
      <4>2. next.tls = work.tls \cup {[id |-> id, key |-> row.key]}
        BY <3>1, <3>2, <4>1
      <4>3. CASE k = row.key
        <5> DEFINE new == [id |-> id, key |-> row.key]
        <5>1. XITlsFound(next.tls, k) = {new} /\ new.id = id /\ id \in Nat
          BY <4>1, <4>2, <4>3 DEF XITlsFound, XITlsIds
        <5>2. next.ids[k] = id
          BY <3>2, <4>3 DEF XIPut
        <5> DEFINE rows == {new}
        <5> HIDE DEF new
        <5>3. /\ new \in rows /\ \A q \in rows : new.id <= q.id
              /\ \A q \in rows : q.id \in Nat /\ (q.id = new.id => q = new)
          BY <5>1
        <5> HIDE DEF rows
        <5>4. XIFirst(rows) = new
          BY <5>3, XIFirstIs
        <5>5. XIFirst({new}) = new
          BY <5>4 DEF rows
        <5> QED BY <5>1, <5>2, <5>5
      <4>4. CASE k # row.key
        <5>1. k \in DOMAIN work.ids /\ next.ids[k] = work.ids[k]
          BY <3>2, <3>4, <4>4 DEF XIPut
        <5>2. XITlsFound(next.tls, k) = XITlsFound(work.tls, k)
          BY <4>2, <4>4 DEF XITlsFound
        <5> QED BY <3>8, <5>1, <5>2 DEF XITlsFirst
      <4> QED BY <4>3, <4>4
    <3> HIDE DEF id, kept, found
    <3>9. XITlsFirst(work) /\ kept => XITlsFirst(next)
      BY <3>8 DEF XITlsFirst
    <3> QED BY <1>2, <3>2, <3>3, <3>4, <3>5, <3>6, <3>7, <3>9 DEF XITlsKnown
  <2> QED BY <2>1, <2>2, <2>3, <2>4
<1> QED BY <1>1, <1>2

XIIdsOK(db) == db.lastTls \in Nat /\ \A t \in db.tls : t.id \in 1..db.lastTls
XITlsKept(upload, items) ==
  \A r \in Range(upload.rows) : r.kind = "inbound" /\ r.key # XINoKey => XIItem(items, "tls", r.key).action # "replace"
LEMMA XITlsSound ==
    ASSUME NEW db, NEW upload, NEW items, XIIdsOK(db), XIRowsOK(upload)
    PROVE  LET tls == XIApplyTls(db, upload, items)
           IN /\ XITlsFields(tls) /\ XITlsIds(tls) /\ XITlsKnown(tls)
              /\ \A r \in Range(upload.rows) : XITlsDone(tls, r, items)
              /\ XINoKey \notin DOMAIN tls.ids
              /\ XITlsKept(upload, items) => XITlsFirst(tls)
<1> DEFINE N == Len(upload.rows)
<1>0. N \in Nat
  BY XIRowsIndexed
<1>1. PICK w : /\ w[0] = [tls |-> db.tls, last |-> db.lastTls, ids |-> <<>>, ok |-> TRUE]
               /\ \A n \in 1..N : w[n] = XITlsStep(w[n - 1], upload.rows[n], items, db.inbounds)
               /\ XIApplyTls(db, upload, items) = w[N]
  BY <1>0, XITlsRun
<1> DEFINE Good(n) == /\ XITlsFields(w[n]) /\ XITlsIds(w[n]) /\ XITlsKnown(w[n])
                      /\ XINoKey \notin DOMAIN w[n].ids
                      /\ XITlsKept(upload, items) => XITlsFirst(w[n])
                      /\ \A m \in 1..n : XITlsDone(w[n], upload.rows[m], items)
           S == {n \in 0..N : Good(n)}
<1> HIDE DEF N
<1>2. 0 \in S
  <2>1. XITlsFields(w[0]) /\ w[0].tls = db.tls /\ w[0].last = db.lastTls /\ DOMAIN w[0].ids = {}
    BY <1>1 DEF XITlsFields
  <2>2. XITlsKnown(w[0]) /\ XITlsFirst(w[0]) /\ XITlsIds(w[0])
    BY <2>1 DEF XITlsKnown, XITlsFirst, XITlsIds, XIIdsOK
  <2> QED BY <1>0, <2>1, <2>2
<1>3. ASSUME NEW n \in 0..N, n \in S, n # N PROVE n + 1 \in S
  <2>1. n + 1 \in 1..N /\ (n + 1) - 1 = n /\ n + 1 \in 0..N /\ Good(n)
    BY <1>0, <1>3
  <2>2. w[n + 1] = XITlsStep(w[n], upload.rows[n + 1], items, db.inbounds)
    BY <1>1, <2>1
  <2> DEFINE row == upload.rows[n + 1]
  <2>6. row \in Range(upload.rows)
    BY <2>1, XIRowsIndexed DEF N
  <2>3. /\ XITlsFields(w[n + 1]) /\ XITlsIds(w[n + 1]) /\ XITlsKnown(w[n + 1])
        /\ XITlsDone(w[n + 1], row, items)
        /\ \A r : XITlsDone(w[n], r, items) => XITlsDone(w[n + 1], r, items)
        /\ XINoKey \notin DOMAIN w[n + 1].ids
        /\ XITlsFirst(w[n]) /\ (row.kind = "inbound" /\ row.key # XINoKey
                                   => XIItem(items, "tls", row.key).action # "replace")
             => XITlsFirst(w[n + 1])
    <3> HIDE DEF row
    <3> QED BY <2>1, <2>2, XITlsStepSound DEF row
  <2>7. XITlsKept(upload, items) => XITlsFirst(w[n + 1])
    BY <2>1, <2>3, <2>6 DEF XITlsKept
  <2>4. \A m \in 1..(n + 1) : m = n + 1 \/ m \in 1..n
    OBVIOUS
  <2>5. Good(n + 1)
    BY <2>1, <2>3, <2>4, <2>7
  <2> QED BY <2>1, <2>5
<1>4. Good(N)
  <2> HIDE DEF Good
  <2>1. N \in 0..N
    BY <1>0
  <2>2. \A n \in 0..N : n \in S /\ n # N => n + 1 \in S
    BY <1>3
  <2> HIDE DEF S
  <2>3. N \in S
    BY <1>0, <1>2, <2>1, <2>2, XIUpTo
  <2> QED BY <2>3 DEF S
<1>5. \A r \in Range(upload.rows) : \E n \in 1..N : upload.rows[n] = r
  BY XIRowsIndexed DEF N
<1> QED BY <1>1, <1>4, <1>5

\* A repetition finds every certificate.
LEMMA XITlsStays ==
    ASSUME NEW db, NEW upload, NEW items, XIIdsOK(db), XIRowsOK(upload),
           \A k : XIItem(items, "tls", k).action # "replace",
           \A r \in XIUsable(upload) : r.key # XINoKey => \E t \in db.tls : t.key = r.key
    PROVE  LET tls == XIApplyTls(db, upload, items)
           IN /\ tls.tls = db.tls /\ tls.last = db.lastTls /\ tls.ok
              /\ \A r \in XIUsable(upload) : r.key # XINoKey =>
                    XITlsOf(tls.ids, r) = XIFirst(XITlsFound(db.tls, r.key)).id
              /\ XINoKey \notin DOMAIN tls.ids
<1> DEFINE N == Len(upload.rows)
<1>0. N \in Nat
  BY XIRowsIndexed
<1>1. PICK w : /\ w[0] = [tls |-> db.tls, last |-> db.lastTls, ids |-> <<>>, ok |-> TRUE]
               /\ \A n \in 1..N : w[n] = XITlsStep(w[n - 1], upload.rows[n], items, db.inbounds)
               /\ XIApplyTls(db, upload, items) = w[N]
  BY <1>0, XITlsRun
<1> DEFINE Good(n) == /\ XITlsFields(w[n])
                      /\ w[n].tls = db.tls /\ w[n].last = db.lastTls /\ w[n].ok
                      /\ XINoKey \notin DOMAIN w[n].ids
           S == {n \in 0..N : Good(n)}
<1> HIDE DEF N
<1>2. 0 \in S
  BY <1>0, <1>1 DEF XITlsFields
<1>3. ASSUME NEW n \in 0..N, n \in S, n # N PROVE n + 1 \in S
  <2>1. n + 1 \in 1..N /\ (n + 1) - 1 = n /\ n + 1 \in 0..N /\ Good(n)
    BY <1>0, <1>3
  <2> DEFINE row == upload.rows[n + 1]
             found == XITlsFound(w[n].tls, row.key)
             id == XIFirst(found).id
  <2>2. w[n + 1] = XITlsStep(w[n], row, items, db.inbounds)
    BY <1>1, <2>1
  <2>3. row \in Range(upload.rows)
    BY <2>1, XIRowsIndexed DEF N
  <2> HIDE DEF row, id
  <2>4. CASE row.kind # "inbound" \/ row.key = XINoKey \/ row.key \in DOMAIN w[n].ids
    BY <2>1, <2>2, <2>4 DEF XITlsStep
  <2>5. CASE ~ (row.kind # "inbound" \/ row.key = XINoKey \/ row.key \in DOMAIN w[n].ids)
    <3>1. found # {}
      BY <2>1, <2>3, <2>5 DEF XIUsable, XITlsFound
    <3>2. w[n + 1] = [w[n] EXCEPT !.ids = XIPut(@, row.key, id)]
      BY <2>2, <2>5, <3>1 DEF XITlsStep, id
    <3>3. w[n + 1].ids = XIPut(w[n].ids, row.key, id) /\ XITlsFields(w[n + 1])
          /\ w[n + 1].tls = w[n].tls /\ w[n + 1].last = w[n].last /\ w[n + 1].ok = w[n].ok
      BY <2>1, <3>2 DEF XITlsFields
    <3>4. DOMAIN w[n + 1].ids = DOMAIN w[n].ids \cup {row.key}
      BY <3>3 DEF XIPut
    <3> QED BY <2>1, <2>5, <3>3, <3>4
  <2> QED BY <2>4, <2>5
<1>4. Good(N)
  <2> HIDE DEF Good
  <2>1. N \in 0..N
    BY <1>0
  <2>2. \A n \in 0..N : n \in S /\ n # N => n + 1 \in S
    BY <1>3
  <2> HIDE DEF S
  <2>3. N \in S
    BY <1>0, <1>2, <2>1, <2>2, XIUpTo
  <2> QED BY <2>3 DEF S
<1> DEFINE tls == XIApplyTls(db, upload, items)
<1>5. XITlsKept(upload, items)
  BY DEF XITlsKept
<1>6. /\ XITlsFirst(tls) /\ \A r \in Range(upload.rows) : XITlsDone(tls, r, items)
      /\ tls.tls = db.tls /\ tls.last = db.lastTls /\ tls.ok /\ XINoKey \notin DOMAIN tls.ids
  BY <1>1, <1>4, <1>5, XITlsSound
<1> HIDE DEF tls, Good, S
<1>7. ASSUME NEW r \in XIUsable(upload), r.key # XINoKey
      PROVE  XITlsOf(tls.ids, r) = XIFirst(XITlsFound(db.tls, r.key)).id
  <2>1. r \in Range(upload.rows) /\ r.kind = "inbound"
    BY DEF XIUsable
  <2>2. r.key \in DOMAIN tls.ids
    BY <1>6, <1>7, <2>1 DEF XITlsDone, XITlsLeft
  <2> QED BY <1>6, <2>2 DEF XITlsFirst, XITlsOf
<1> QED BY <1>6, <1>7 DEF tls
-----------------------------------------------------------------------------
(* The inbounds and endpoints.                                              *)

\* What a plan may say: it renames at most one inbound and at most one client.
XIPlanned(items) ==
  /\ \A k \in DOMAIN items : items[k].to = k[2] \/ (items[k].to = XINewName /\ k[1] \in {"inbound", "client"})
  /\ \A k, l \in DOMAIN items :
        k[1] = l[1] /\ items[k].to = XINewName /\ items[l].to = XINewName
          => k[2] = l[2] \/ k[2] = XINewName \/ l[2] = XINewName

\* Things of one kind stay apart under a plan.
LEMMA XIItemsDiffer ==
    ASSUME NEW items, XIPlanned(items), NEW kind, NEW a, NEW b, a # XINewName, b # XINewName,
           XIItem(items, kind, a).to = XIItem(items, kind, b).to
    PROVE  a = b
<1> DEFINE j == <<kind, a>>
           k == <<kind, b>>
<1>0. j[1] = kind /\ k[1] = kind /\ j[2] = a /\ k[2] = b
  OBVIOUS
<1>1. XIItem(items, kind, a) = IF j \in DOMAIN items THEN items[j] ELSE [action |-> "create", to |-> a]
  BY DEF XIItem
<1>2. XIItem(items, kind, b) = IF k \in DOMAIN items THEN items[k] ELSE [action |-> "create", to |-> b]
  BY DEF XIItem
<1> HIDE DEF j, k
<1>3. XIItem(items, kind, a).to \in {a, XINewName} /\ XIItem(items, kind, b).to \in {b, XINewName}
  BY <1>0, <1>1, <1>2 DEF XIPlanned
<1>4. CASE XIItem(items, kind, a).to = XINewName
  <2>1. j \in DOMAIN items /\ k \in DOMAIN items /\ items[j].to = XINewName /\ items[k].to = XINewName
    BY <1>1, <1>2, <1>4
  <2> QED BY <1>0, <2>1 DEF XIPlanned
<1> QED BY <1>3, <1>4

\* Where an action means replace, the plan says so of that name.
LEMMA XIReplaceIsAsked ==
    ASSUME NEW items, NEW kind, NEW a, XIOnConflict(XIItem(items, kind, a).action) = "replace"
    PROVE  "replace" \in XIActionOf(items, kind, XIItem(items, kind, a).to)
<1>1. XIItem(items, kind, a).action = "replace"
  BY DEF XIOnConflict
<1>2. <<kind, a>> \in DOMAIN items /\ XIItem(items, kind, a) = items[<<kind, a>>]
  BY <1>1 DEF XIItem
<1>3. <<kind, a>>[1] = kind
  OBVIOUS
<1> QED BY <1>1, <1>2, <1>3 DEF XIActionOf

XIRowFields(work) == DOMAIN work = {"inbounds", "last", "endpoints", "row"} /\ work = [x \in DOMAIN work |-> work[x]]
XITagUnique(rows) == \A i, j \in rows : i.tag = j.tag => i = j
XIInboundsKept(before, rows, items) ==
  \A r \in before : "replace" \in XIActionOf(items, "inbound", r.tag) \/ \E q \in rows : q.id = r.id /\ q.tag = r.tag
\* A row has been dealt with.
XIInboundDone(work, row, items, ids) ==
  row.kind = "inbound" /\ XIItem(items, "inbound", row.tag).action # "skip" =>
    /\ row.tag \in DOMAIN work.row
    /\ [id |-> work.row[row.tag], tag |-> XIItem(items, "inbound", row.tag).to,
        tls |-> XITlsOf(ids, row), from |-> "import"] \in work.inbounds
XIEndpointDone(work, row, items) ==
  row.kind = "endpoint" /\ XIItem(items, "endpoint", row.tag).action # "skip" =>
    [tag |-> XIItem(items, "endpoint", row.tag).to, from |-> "import"] \in work.endpoints

LEMMA XIInboundStepSound ==
    ASSUME NEW work, NEW row, NEW items, NEW ids, NEW before,
           XIRowFields(work), XITagUnique(work.inbounds), XITagUnique(work.endpoints), XIPlanned(items),
           row.tag # XINewName, row.kind = "inbound", XIInboundsKept(before, work.inbounds, items)
    PROVE  LET next == XIRowStep(work, row, items, ids)
           IN /\ XIRowFields(next) /\ XITagUnique(next.inbounds) /\ XITagUnique(next.endpoints)
              /\ XIInboundsKept(before, next.inbounds, items)
              /\ XIInboundDone(next, row, items, ids)
              /\ \A r : r.tag # row.tag /\ r.tag # XINewName /\ XIInboundDone(work, r, items, ids)
                          => XIInboundDone(next, r, items, ids)
              /\ next.endpoints = work.endpoints
<1> DEFINE next == XIRowStep(work, row, items, ids)
           item == XIItem(items, "inbound", row.tag)
           found == {i \in work.inbounds : i.tag = item.to}
           fresh == found = {} \/ XIOnConflict(item.action) = "replace"
           id == IF fresh THEN work.last + 1 ELSE (CHOOSE i \in found : TRUE).id
           new == [id |-> id, tag |-> item.to, tls |-> XITlsOf(ids, row), from |-> "import"]
<1>0. next = IF item.action = "skip" THEN work
             ELSE [work EXCEPT !.inbounds = (@ \ found) \cup {new}, !.row = XIPut(@, row.tag, id),
                               !.last = IF fresh THEN id ELSE @]
  BY DEF XIRowStep, XIInboundStep
<1> HIDE DEF next
<1> SUFFICES /\ XIRowFields(next) /\ XITagUnique(next.inbounds) /\ XITagUnique(next.endpoints)
             /\ XIInboundsKept(before, next.inbounds, items)
             /\ XIInboundDone(next, row, items, ids)
             /\ \A r : r.tag # row.tag /\ r.tag # XINewName /\ XIInboundDone(work, r, items, ids)
                          => XIInboundDone(next, r, items, ids)
             /\ next.endpoints = work.endpoints
  BY DEF next
<1>1. CASE item.action = "skip"
  BY <1>0, <1>1 DEF XIInboundDone
<1>2. CASE item.action # "skip"
  <2>0. ~ fresh => \E i \in found : id = i.id
    OBVIOUS
  <2> HIDE DEF id
  <2>1. next = [work EXCEPT !.inbounds = (@ \ found) \cup {new}, !.row = XIPut(@, row.tag, id),
                            !.last = IF fresh THEN id ELSE @]
    BY <1>0, <1>2
  <2>2. /\ XIRowFields(next) /\ next.inbounds = (work.inbounds \ found) \cup {new}
        /\ next.row = XIPut(work.row, row.tag, id) /\ next.endpoints = work.endpoints
    BY <2>1 DEF XIRowFields
  <2>3. DOMAIN next.row = DOMAIN work.row \cup {row.tag} /\ next.row[row.tag] = id
        /\ \A x \in DOMAIN work.row : x # row.tag => next.row[x] = work.row[x]
    BY <2>2 DEF XIPut
  <2>4. new.tag = item.to /\ new.id = id
    OBVIOUS
  <2>5. XITagUnique(next.inbounds)
    BY <2>2, <2>4 DEF XITagUnique
  <2>6. XIInboundDone(next, row, items, ids)
    BY <2>2, <2>3 DEF XIInboundDone
  <2>7. ASSUME NEW r, r.tag # row.tag, r.tag # XINewName, XIInboundDone(work, r, items, ids)
        PROVE  XIInboundDone(next, r, items, ids)
    <3> SUFFICES ASSUME r.kind = "inbound", XIItem(items, "inbound", r.tag).action # "skip"
                 PROVE  /\ r.tag \in DOMAIN next.row
                        /\ [id |-> next.row[r.tag], tag |-> XIItem(items, "inbound", r.tag).to,
                            tls |-> XITlsOf(ids, r), from |-> "import"] \in next.inbounds
      BY DEF XIInboundDone
    <3> DEFINE q == [id |-> work.row[r.tag], tag |-> XIItem(items, "inbound", r.tag).to,
                     tls |-> XITlsOf(ids, r), from |-> "import"]
    <3>1. r.tag \in DOMAIN work.row /\ q \in work.inbounds
      BY <2>7 DEF XIInboundDone
    <3>2. q.tag = XIItem(items, "inbound", r.tag).to
      OBVIOUS
    <3>3. q.tag # item.to
      BY <2>7, <3>2, XIItemsDiffer
    <3>4. q \in next.inbounds
      BY <2>2, <3>1, <3>3
    <3>5. r.tag \in DOMAIN next.row /\ next.row[r.tag] = work.row[r.tag]
      BY <2>3, <2>7, <3>1
    <3> QED BY <3>4, <3>5
  <2>8. ASSUME NEW r \in before
        PROVE  "replace" \in XIActionOf(items, "inbound", r.tag) \/ \E q \in next.inbounds : q.id = r.id /\ q.tag = r.tag
    <3>1. CASE "replace" \in XIActionOf(items, "inbound", r.tag)
      BY <3>1
    <3>2. CASE "replace" \notin XIActionOf(items, "inbound", r.tag)
      <4>1. PICK q \in work.inbounds : q.id = r.id /\ q.tag = r.tag
        BY <3>2 DEF XIInboundsKept
      <4>2. CASE q \notin found
        BY <2>2, <4>1, <4>2
      <4>3. CASE q \in found
        <5>1. ~ fresh
          BY <3>2, <4>1, <4>3, XIReplaceIsAsked
        <5>2. id = q.id
          BY <2>0, <4>3, <5>1 DEF XITagUnique
        <5>3. new \in next.inbounds /\ new.id = r.id /\ new.tag = r.tag
          BY <2>2, <2>4, <4>1, <4>3, <5>2
        <5> QED BY <5>3
      <4> QED BY <4>2, <4>3
    <3> QED BY <3>1, <3>2
  <2> QED BY <2>2, <2>5, <2>6, <2>7, <2>8 DEF XIInboundsKept
<1> QED BY <1>1, <1>2

LEMMA XIEndpointStepSound ==
    ASSUME NEW work, NEW row, NEW items, NEW ids,
           XIRowFields(work), XITagUnique(work.endpoints), XIPlanned(items), row.tag # XINewName,
           row.kind # "inbound"
    PROVE  LET next == XIRowStep(work, row, items, ids)
           IN /\ XIRowFields(next) /\ XITagUnique(next.endpoints)
              /\ next.inbounds = work.inbounds /\ next.row = work.row /\ next.last = work.last
              /\ XIEndpointDone(next, row, items)
              /\ \A r : r.tag # row.tag /\ r.tag # XINewName /\ XIEndpointDone(work, r, items)
                          => XIEndpointDone(next, r, items)
<1> DEFINE next == XIRowStep(work, row, items, ids)
           item == XIItem(items, "endpoint", row.tag)
           found == {e \in work.endpoints : e.tag = item.to}
           new == [tag |-> item.to, from |-> "import"]
<1>0. next = IF row.kind # "endpoint" \/ item.action = "skip" THEN work
             ELSE [work EXCEPT !.endpoints = (@ \ found) \cup {new}]
  BY DEF XIRowStep, XIEndpointStep
<1> HIDE DEF next
<1> SUFFICES /\ XIRowFields(next) /\ XITagUnique(next.endpoints)
             /\ next.inbounds = work.inbounds /\ next.row = work.row /\ next.last = work.last
             /\ XIEndpointDone(next, row, items)
             /\ \A r : r.tag # row.tag /\ r.tag # XINewName /\ XIEndpointDone(work, r, items)
                          => XIEndpointDone(next, r, items)
  BY DEF next
<1>1. CASE row.kind # "endpoint" \/ item.action = "skip"
  BY <1>0, <1>1 DEF XIEndpointDone
<1>2. CASE ~ (row.kind # "endpoint" \/ item.action = "skip")
  <2>1. next = [work EXCEPT !.endpoints = (@ \ found) \cup {new}]
    BY <1>0, <1>2
  <2>2. /\ XIRowFields(next) /\ next.endpoints = (work.endpoints \ found) \cup {new}
        /\ next.inbounds = work.inbounds /\ next.row = work.row /\ next.last = work.last
    BY <2>1 DEF XIRowFields
  <2>3. new.tag = item.to
    OBVIOUS
  <2>4. XITagUnique(next.endpoints)
    BY <2>2, <2>3 DEF XITagUnique
  <2>5. XIEndpointDone(next, row, items)
    BY <2>2 DEF XIEndpointDone
  <2>6. ASSUME NEW r, r.tag # row.tag, r.tag # XINewName, XIEndpointDone(work, r, items)
        PROVE  XIEndpointDone(next, r, items)
    <3> SUFFICES ASSUME r.kind = "endpoint", XIItem(items, "endpoint", r.tag).action # "skip"
                 PROVE  [tag |-> XIItem(items, "endpoint", r.tag).to, from |-> "import"] \in next.endpoints
      BY DEF XIEndpointDone
    <3> DEFINE q == [tag |-> XIItem(items, "endpoint", r.tag).to, from |-> "import"]
    <3>1. q \in work.endpoints /\ q.tag = XIItem(items, "endpoint", r.tag).to
      BY <2>6 DEF XIEndpointDone
    <3>2. q.tag # item.to
      BY <2>6, <3>1, XIItemsDiffer
    <3> QED BY <2>2, <3>1, <3>2
  <2> QED BY <2>2, <2>4, <2>5, <2>6
<1> QED BY <1>1, <1>2
XITagsOK(upload) ==
  /\ \A m, n \in DOMAIN upload.rows : upload.rows[m].tag = upload.rows[n].tag => m = n
  /\ \A r \in Range(upload.rows) : r.tag # XINewName

LEMMA XIRowsSound ==
    ASSUME NEW db, NEW upload, NEW items, NEW ids, XITagUnique(db.inbounds), XITagUnique(db.endpoints),
           XIRowsOK(upload), XITagsOK(upload), XIPlanned(items)
    PROVE  LET rows == XIApplyInbounds(db, upload, items, ids)
           IN /\ XITagUnique(rows.inbounds) /\ XITagUnique(rows.endpoints)
              /\ XIInboundsKept(db.inbounds, rows.inbounds, items)
              /\ \A r \in Range(upload.rows) : XIInboundDone(rows, r, items, ids) /\ XIEndpointDone(rows, r, items)
<1> DEFINE N == Len(upload.rows)
<1>0. N \in Nat /\ DOMAIN upload.rows = 1..N
  BY DEF XIRowsOK
<1>1. PICK w : /\ w[0] = [inbounds |-> db.inbounds, last |-> db.lastInbound, endpoints |-> db.endpoints, row |-> <<>>]
               /\ \A n \in 1..N : w[n] = XIRowStep(w[n - 1], upload.rows[n], items, ids)
               /\ XIApplyInbounds(db, upload, items, ids) = w[N]
  BY <1>0, XIRowsRun
<1> DEFINE Good(n) == /\ XIRowFields(w[n]) /\ XITagUnique(w[n].inbounds) /\ XITagUnique(w[n].endpoints)
                      /\ XIInboundsKept(db.inbounds, w[n].inbounds, items)
                      /\ \A m \in 1..n : /\ XIInboundDone(w[n], upload.rows[m], items, ids)
                                         /\ XIEndpointDone(w[n], upload.rows[m], items)
           S == {n \in 0..N : Good(n)}
<1>5. \A r \in Range(upload.rows) : \E n \in 1..N : upload.rows[n] = r
  BY XIRowsIndexed
<1>6. \A n \in 1..N : upload.rows[n] \in Range(upload.rows)
  BY XIRowsIndexed
<1> HIDE DEF N
<1>2. 0 \in S
  <2>1. XIRowFields(w[0]) /\ w[0].inbounds = db.inbounds /\ w[0].endpoints = db.endpoints
    BY <1>1 DEF XIRowFields
  <2> QED BY <1>0, <2>1 DEF XIInboundsKept
<1>3. ASSUME NEW n \in 0..N, n \in S, n # N PROVE n + 1 \in S
  <2>1. n + 1 \in 1..N /\ (n + 1) - 1 = n /\ n + 1 \in 0..N /\ Good(n)
    BY <1>0, <1>3
  <2> DEFINE row == upload.rows[n + 1]
  <2>2. w[n + 1] = XIRowStep(w[n], row, items, ids)
    BY <1>1, <2>1
  <2>3. row.tag # XINewName
    BY <1>6, <2>1 DEF XITagsOK
  <2>4. ASSUME NEW m \in 1..n
        PROVE  upload.rows[m].tag # row.tag /\ upload.rows[m].tag # XINewName
    <3>1. m \in 1..N /\ m # n + 1
      BY <1>0, <2>1
    <3> QED BY <1>0, <1>6, <2>1, <3>1 DEF XITagsOK
  <2> HIDE DEF row
  <2>5. /\ XIRowFields(w[n + 1]) /\ XITagUnique(w[n + 1].inbounds) /\ XITagUnique(w[n + 1].endpoints)
        /\ XIInboundsKept(db.inbounds, w[n + 1].inbounds, items)
        /\ XIInboundDone(w[n + 1], row, items, ids) /\ XIEndpointDone(w[n + 1], row, items)
        /\ \A m \in 1..n : /\ XIInboundDone(w[n + 1], upload.rows[m], items, ids)
                           /\ XIEndpointDone(w[n + 1], upload.rows[m], items)
    <3>1. CASE row.kind = "inbound"
      <4>1. /\ XIRowFields(w[n + 1]) /\ XITagUnique(w[n + 1].inbounds) /\ XITagUnique(w[n + 1].endpoints)
            /\ XIInboundsKept(db.inbounds, w[n + 1].inbounds, items)
            /\ XIInboundDone(w[n + 1], row, items, ids)
            /\ \A r : r.tag # row.tag /\ r.tag # XINewName /\ XIInboundDone(w[n], r, items, ids)
                        => XIInboundDone(w[n + 1], r, items, ids)
            /\ w[n + 1].endpoints = w[n].endpoints
        <5> DEFINE next == XIRowStep(w[n], row, items, ids)
        <5>1. /\ XIRowFields(w[n]) /\ XITagUnique(w[n].inbounds) /\ XITagUnique(w[n].endpoints)
              /\ XIInboundsKept(db.inbounds, w[n].inbounds, items)
          BY <2>1
        <5> HIDE DEF Good, S
        <5>2. /\ XIRowFields(next) /\ XITagUnique(next.inbounds) /\ XITagUnique(next.endpoints)
              /\ XIInboundsKept(db.inbounds, next.inbounds, items)
              /\ XIInboundDone(next, row, items, ids)
              /\ \A r : r.tag # row.tag /\ r.tag # XINewName /\ XIInboundDone(w[n], r, items, ids)
                          => XIInboundDone(next, r, items, ids)
              /\ next.endpoints = w[n].endpoints
          <6>1. /\ XIRowFields(next) /\ XITagUnique(next.inbounds) /\ XITagUnique(next.endpoints)
                /\ XIInboundsKept(db.inbounds, next.inbounds, items)
            BY <2>3, <3>1, <5>1, XIInboundStepSound
          <6>2. next.endpoints = w[n].endpoints
            BY <3>1, <5>1 DEF XIRowStep, XIInboundStep, XIRowFields
          <6>4. XIInboundDone(next, row, items, ids)
            BY <2>3, <3>1, <5>1, XIInboundStepSound
          <6>3. ASSUME NEW r, r.tag # row.tag, r.tag # XINewName, XIInboundDone(w[n], r, items, ids)
                PROVE  XIInboundDone(next, r, items, ids)
            BY <2>3, <3>1, <5>1, <6>3, XIInboundStepSound
          <6> HIDE DEF next
          <6> QED BY <6>1, <6>2, <6>3, <6>4
        <5> HIDE DEF next
        <5> QED BY <2>2, <5>2 DEF next
      <4>2. XIEndpointDone(w[n + 1], row, items)
        BY <3>1 DEF XIEndpointDone
      <4>3. \A m \in 1..n : XIEndpointDone(w[n + 1], upload.rows[m], items)
        BY <2>1, <4>1 DEF XIEndpointDone
      <4> QED BY <2>1, <2>4, <4>1, <4>2, <4>3
    <3>2. CASE row.kind # "inbound"
      <4>1. /\ XIRowFields(w[n + 1]) /\ XITagUnique(w[n + 1].endpoints)
            /\ w[n + 1].inbounds = w[n].inbounds /\ w[n + 1].row = w[n].row
            /\ XIEndpointDone(w[n + 1], row, items)
            /\ \A r : r.tag # row.tag /\ r.tag # XINewName /\ XIEndpointDone(w[n], r, items)
                        => XIEndpointDone(w[n + 1], r, items)
        BY <2>1, <2>2, <2>3, <3>2, XIEndpointStepSound
      <4>2. XIInboundDone(w[n + 1], row, items, ids)
        BY <3>2 DEF XIInboundDone
      <4>3. \A m \in 1..n : XIInboundDone(w[n + 1], upload.rows[m], items, ids)
        BY <2>1, <4>1 DEF XIInboundDone
      <4> QED BY <2>1, <2>4, <4>1, <4>2, <4>3
    <3> QED BY <3>1, <3>2
  <2>6. \A m \in 1..(n + 1) : m = n + 1 \/ m \in 1..n
    OBVIOUS
  <2>7. Good(n + 1)
    BY <2>5, <2>6 DEF row
  <2> QED BY <2>1, <2>7
<1>4. Good(N)
  <2> HIDE DEF Good
  <2>1. N \in 0..N
    BY <1>0
  <2>2. \A n \in 0..N : n \in S /\ n # N => n + 1 \in S
    BY <1>3
  <2> HIDE DEF S
  <2>3. N \in S
    BY <1>0, <1>2, <2>1, <2>2, XIUpTo
  <2> QED BY <2>3 DEF S
<1> QED BY <1>1, <1>4, <1>5

\* Every row an import would write is there.
XIRowsThere(db, upload, items, ids) ==
  \A r \in Range(upload.rows) :
    /\ r.kind = "inbound" /\ XIItem(items, "inbound", r.tag).action # "skip" =>
         \E id : [id |-> id, tag |-> XIItem(items, "inbound", r.tag).to,
                  tls |-> XITlsOf(ids, r), from |-> "import"] \in db.inbounds
    /\ r.kind = "endpoint" /\ XIItem(items, "endpoint", r.tag).action # "skip" =>
         [tag |-> XIItem(items, "endpoint", r.tag).to, from |-> "import"] \in db.endpoints

\* A repetition finds every row as it would write it.
LEMMA XIRowsStay ==
    ASSUME NEW db, NEW upload, NEW items, NEW ids, XITagUnique(db.inbounds), XITagUnique(db.endpoints),
           XIRowsOK(upload),
           \A kind, k : XIItem(items, kind, k).action # "replace",
           XIRowsThere(db, upload, items, ids)
    PROVE  LET rows == XIApplyInbounds(db, upload, items, ids)
           IN rows.inbounds = db.inbounds /\ rows.last = db.lastInbound /\ rows.endpoints = db.endpoints
<1> DEFINE N == Len(upload.rows)
<1>0. N \in Nat /\ \A n \in 1..N : upload.rows[n] \in Range(upload.rows)
  BY XIRowsIndexed
<1>1. PICK w : /\ w[0] = [inbounds |-> db.inbounds, last |-> db.lastInbound, endpoints |-> db.endpoints, row |-> <<>>]
               /\ \A n \in 1..N : w[n] = XIRowStep(w[n - 1], upload.rows[n], items, ids)
               /\ XIApplyInbounds(db, upload, items, ids) = w[N]
  BY <1>0, XIRowsRun
<1> DEFINE Good(n) == /\ XIRowFields(w[n]) /\ w[n].inbounds = db.inbounds
                      /\ w[n].last = db.lastInbound /\ w[n].endpoints = db.endpoints
           S == {n \in 0..N : Good(n)}
<1> HIDE DEF N
<1>2. 0 \in S
  BY <1>0, <1>1 DEF XIRowFields
<1>3. ASSUME NEW n \in 0..N, n \in S, n # N PROVE n + 1 \in S
  <2>1. n + 1 \in 1..N /\ (n + 1) - 1 = n /\ n + 1 \in 0..N /\ Good(n)
    BY <1>0, <1>3
  <2> DEFINE row == upload.rows[n + 1]
  <2>2. w[n + 1] = XIRowStep(w[n], row, items, ids) /\ row \in Range(upload.rows)
    BY <1>0, <1>1, <2>1
  <2> HIDE DEF row
  <2>3. CASE row.kind = "inbound" /\ XIItem(items, "inbound", row.tag).action # "skip"
    <3> DEFINE item == XIItem(items, "inbound", row.tag)
               found == {i \in w[n].inbounds : i.tag = item.to}
               id == (CHOOSE i \in found : TRUE).id
               new(d) == [id |-> d, tag |-> item.to, tls |-> XITlsOf(ids, row), from |-> "import"]
    <3>1. PICK d : new(d) \in db.inbounds
      BY <2>2, <2>3 DEF XIRowsThere
    <3>2. new(d).id = d /\ new(d).tag = item.to
      OBVIOUS
    <3>3. new(d) \in found
      BY <2>1, <3>1, <3>2
    <3>4. \A i \in found : i = new(d)
      BY <2>1, <3>1, <3>2 DEF XITagUnique
    <3> HIDE DEF new
    <3>5. found # {} /\ id = d
      BY <3>2, <3>3, <3>4
    <3>6. XIOnConflict(item.action) # "replace"
      BY DEF XIOnConflict
    <3>7. w[n + 1] = [w[n] EXCEPT !.inbounds = (@ \ found) \cup {new(id)}, !.row = XIPut(@, row.tag, id), !.last = @]
      BY <2>2, <2>3, <3>5, <3>6 DEF XIRowStep, XIInboundStep, new
    <3> HIDE DEF found, id, item
    <3>8. /\ XIRowFields(w[n + 1]) /\ w[n + 1].last = w[n].last /\ w[n + 1].endpoints = w[n].endpoints
          /\ w[n + 1].inbounds = (w[n].inbounds \ found) \cup {new(id)}
      BY <2>1, <3>7 DEF XIRowFields
    <3>9. w[n + 1].inbounds = w[n].inbounds
      BY <2>1, <3>1, <3>3, <3>4, <3>5, <3>8
    <3> QED BY <2>1, <3>8, <3>9
  <2>4. CASE row.kind = "endpoint" /\ XIItem(items, "endpoint", row.tag).action # "skip"
    <3> DEFINE item == XIItem(items, "endpoint", row.tag)
               found == {e \in w[n].endpoints : e.tag = item.to}
               new == [tag |-> item.to, from |-> "import"]
    <3>1. new \in db.endpoints /\ new.tag = item.to
      BY <2>2, <2>4 DEF XIRowsThere
    <3>2. \A e \in found : e = new
      BY <2>1, <3>1 DEF XITagUnique
    <3>3. w[n + 1] = [w[n] EXCEPT !.endpoints = (@ \ found) \cup {new}]
      BY <2>2, <2>4 DEF XIRowStep, XIEndpointStep
    <3> HIDE DEF found, new, item
    <3>4. /\ XIRowFields(w[n + 1]) /\ w[n + 1].last = w[n].last /\ w[n + 1].inbounds = w[n].inbounds
          /\ w[n + 1].endpoints = (w[n].endpoints \ found) \cup {new}
      BY <2>1, <3>3 DEF XIRowFields
    <3>5. w[n + 1].endpoints = w[n].endpoints
      BY <2>1, <3>1, <3>2, <3>4
    <3> QED BY <2>1, <3>4, <3>5
  <2>5. CASE ~ (row.kind = "inbound" /\ XIItem(items, "inbound", row.tag).action # "skip")
             /\ ~ (row.kind = "endpoint" /\ XIItem(items, "endpoint", row.tag).action # "skip")
    <3>1. w[n + 1] = w[n]
      BY <2>2, <2>5 DEF XIRowStep, XIInboundStep, XIEndpointStep
    <3> QED BY <2>1, <3>1
  <2> QED BY <2>3, <2>4, <2>5
<1>4. Good(N)
  <2> HIDE DEF Good
  <2>1. N \in 0..N
    BY <1>0
  <2>2. \A n \in 0..N : n \in S /\ n # N => n + 1 \in S
    BY <1>3
  <2> HIDE DEF S
  <2>3. N \in S
    BY <1>0, <1>2, <2>1, <2>2, XIUpTo
  <2> QED BY <2>3 DEF S
<1> QED BY <1>1, <1>4
-----------------------------------------------------------------------------
(* The clients.                                                             *)

XINamed(work) ==
  /\ work = [clients |-> work.clients, last |-> work.last] /\ work.last \in Nat
  /\ \A c \in work.clients : c.id \in 1..work.last
  /\ \A c, d \in work.clients : c.id = d.id => c = d
  /\ \A c \in work.clients : c = [id |-> c.id, name |-> c.name, ids |-> c.ids, secret |-> c.secret, from |-> c.from]
XIClientStays(c, d, items) ==
  /\ d.id = c.id /\ d.name = c.name /\ d.secret = c.secret
  /\ "replace" \in XIActionOf(items, "client", c.name) \/ (c.ids \subseteq d.ids /\ d.from = c.from)
XIClientsKept(before, clients, items) == \A c \in before : \E d \in clients : XIClientStays(c, d, items)
\* The first client of a name has what was to be given to it.
XIGiven(clients, name, ids) ==
  LET found == {c \in clients : c.name = name} IN XIFirst(found) \in found /\ ids \subseteq XIFirst(found).ids
XIClientDone(clients, name, items, ids) ==
  XIItem(items, "client", name).action # "skip" => XIGiven(clients, XIItem(items, "client", name).to, ids)

LEMMA XIClientStepSound ==
    ASSUME NEW work, NEW name, NEW items, NEW ids, NEW before,
           XINamed(work), XIPlanned(items), name # XINewName, XIClientsKept(before, work.clients, items)
    PROVE  LET next == XIClientStep(work, name, items, ids)
           IN /\ XINamed(next) /\ XIClientsKept(before, next.clients, items)
              /\ XIClientDone(next.clients, name, items, ids)
              /\ \A x, some : x # name /\ x # XINewName /\ XIClientDone(work.clients, x, items, some)
                                => XIClientDone(next.clients, x, items, some)
<1> DEFINE next == XIClientStep(work, name, items, ids)
           clients == work.clients
           item == XIItem(items, "client", name)
           found == {c \in clients : c.name = item.to}
           old == XIFirst(found)
           new == CASE found = {} -> [id |-> work.last + 1, name |-> item.to, ids |-> ids,
                                      secret |-> "import", from |-> "import"]
                    [] found # {} /\ XIOnConflict(item.action) = "replace" ->
                         [id |-> old.id, name |-> item.to, ids |-> ids, secret |-> old.secret, from |-> "import"]
                    [] OTHER -> [old EXCEPT !.ids = @ \cup ids]
           others == {c \in clients : c.id # new.id}
<1>0. next = IF item.action = "skip" THEN work
             ELSE [clients |-> others \cup {new}, last |-> IF found = {} THEN new.id ELSE work.last]
  BY DEF XIClientStep
<1> HIDE DEF next
<1> SUFFICES /\ XINamed(next) /\ XIClientsKept(before, next.clients, items)
             /\ XIClientDone(next.clients, name, items, ids)
             /\ \A x, some : x # name /\ x # XINewName /\ XIClientDone(work.clients, x, items, some)
                               => XIClientDone(next.clients, x, items, some)
  BY DEF next
<1>1. CASE item.action = "skip"
  BY <1>0, <1>1 DEF XIClientDone
<1>2. CASE item.action # "skip"
  <2>9. \A c \in clients : c.id \in Nat
    BY DEF XINamed
  <2>0. found # {} => /\ old \in found /\ old \in clients /\ old.name = item.to
                      /\ \A c \in found : old.id <= c.id
                      /\ old = [id |-> old.id, name |-> old.name, ids |-> old.ids, secret |-> old.secret, from |-> old.from]
    <3>1. \A c \in found : c \in clients /\ c.name = item.to /\ c.id \in Nat
      BY <2>9
    <3> HIDE DEF found
    <3>2. found # {} => old \in found /\ \A c \in found : old.id <= c.id
      BY <3>1, XIFirstExists
    <3> HIDE DEF old
    <3> QED BY <3>1, <3>2 DEF XINamed
  <2> HIDE DEF old
  <2>2. next.clients = others \cup {new} /\ next = [clients |-> next.clients, last |-> next.last]
        /\ next.last = IF found = {} THEN new.id ELSE work.last
    BY <1>0, <1>2
  <2>3. /\ new = [id |-> new.id, name |-> new.name, ids |-> new.ids, secret |-> new.secret, from |-> new.from]
        /\ new.name = item.to /\ ids \subseteq new.ids
        /\ found = {} => new.id = work.last + 1
        /\ found # {} => new.id = old.id /\ new.secret = old.secret
        /\ found # {} /\ XIOnConflict(item.action) # "replace" => old.ids \subseteq new.ids /\ new.from = old.from
    <3>1. CASE found = {}
      <4>1. new = [id |-> work.last + 1, name |-> item.to, ids |-> ids, secret |-> "import", from |-> "import"]
        BY <3>1
      <4> QED BY <3>1, <4>1
    <3>2. CASE found # {} /\ XIOnConflict(item.action) = "replace"
      <4>1. new = [id |-> old.id, name |-> item.to, ids |-> ids, secret |-> old.secret, from |-> "import"]
        BY <3>2
      <4> QED BY <3>2, <4>1
    <3>3. CASE found # {} /\ XIOnConflict(item.action) # "replace"
      <4>1. new = [old EXCEPT !.ids = @ \cup ids]
        BY <3>3
      <4>2. new = [id |-> old.id, name |-> old.name, ids |-> old.ids \cup ids, secret |-> old.secret, from |-> old.from]
        BY <2>0, <3>3, <4>1
      <4> QED BY <2>0, <3>3, <4>2
    <3> QED BY <3>1, <3>2, <3>3
  <2> HIDE DEF new
  <2>4. XINamed(next)
    <3>1. next.last \in Nat /\ new.id \in 1..next.last /\ \A c \in clients : c.id \in 1..next.last
      BY <2>0, <2>2, <2>3 DEF XINamed
    <3> QED BY <2>2, <2>3, <3>1 DEF XINamed
  \* Of a row of this name the id is not less, of any other name the row stays.
  <2>8. \A c \in clients : c.id = new.id => found # {} /\ c = old
    BY <2>0, <2>3 DEF XINamed
  <2>5. XIClientDone(next.clients, name, items, ids)
    <3> DEFINE rows == {c \in next.clients : c.name = item.to}
    <3>1. new \in rows /\ \A c \in rows : c = new \/ c \in found
      BY <2>2, <2>3
    <3>2. \A c \in rows : c.id \in Nat /\ (c.id = new.id => c = new)
      BY <2>2, <2>4 DEF XINamed
    <3>3. \A c \in rows : new.id <= c.id
      <4>1. found = {} => \A c \in rows : c = new
        BY <3>1
      <4> HIDE DEF found, rows
      <4>2. new.id <= new.id
        BY <3>1, <3>2
      <4> QED BY <2>0, <2>3, <3>1, <4>1, <4>2
    <3> HIDE DEF rows
    <3>4. XIFirst(rows) = new
      BY <3>1, <3>2, <3>3, XIFirstIs
    <3>5. XIFirst(rows) \in rows /\ ids \subseteq XIFirst(rows).ids
      BY <2>3, <3>1, <3>4
    <3> QED BY <3>5 DEF XIClientDone, XIGiven, rows
  <2>6. ASSUME NEW x, NEW some, x # name, x # XINewName, XIClientDone(clients, x, items, some)
        PROVE  XIClientDone(next.clients, x, items, some)
    <3> DEFINE to == XIItem(items, "client", x).to
    <3> SUFFICES ASSUME XIItem(items, "client", x).action # "skip"
                 PROVE  XIGiven(next.clients, to, some)
      BY DEF XIClientDone
    <3>1. XIGiven(clients, to, some)
      BY <2>6 DEF XIClientDone
    <3>2. to # item.to
      BY <2>6, XIItemsDiffer
    <3> HIDE DEF to
    <3>3. {c \in next.clients : c.name = to} = {c \in clients : c.name = to}
      BY <2>0, <2>2, <2>3, <2>8, <3>2
    <3> QED BY <3>1, <3>3 DEF XIGiven
  <2>7. ASSUME NEW c \in before PROVE \E d \in next.clients : XIClientStays(c, d, items)
    <3>1. PICK d \in clients : XIClientStays(c, d, items)
      BY DEF XIClientsKept
    <3>2. CASE d.id # new.id
      BY <2>2, <3>1, <3>2
    <3>3. CASE d.id = new.id
      <4>1. d = old /\ old.name = item.to /\ found # {} /\ new.id = old.id /\ new.secret = old.secret /\ new \in next.clients
        BY <2>0, <2>2, <2>3, <2>8, <3>3
      <4>2. CASE XIOnConflict(item.action) = "replace"
        <5>1. "replace" \in XIActionOf(items, "client", item.to)
          BY <4>2, XIReplaceIsAsked
        <5> QED BY <2>3, <3>1, <4>1, <5>1 DEF XIClientStays
      <4>3. CASE XIOnConflict(item.action) # "replace"
        <5>1. old.ids \subseteq new.ids /\ new.from = old.from
          BY <2>3, <4>1, <4>3
        <5> HIDE DEF item, found
        <5>2. XIClientStays(c, new, items)
          BY <2>3, <3>1, <4>1, <5>1 DEF XIClientStays, item
        <5> QED BY <4>1, <5>2
      <4> QED BY <4>2, <4>3
    <3> QED BY <3>2, <3>3
  <2> QED BY <2>4, <2>5, <2>6, <2>7 DEF XIClientsKept
<1> QED BY <1>1, <1>2

XINamesOK(upload) ==
  /\ upload.names \in Seq(Range(upload.names))
  /\ \A name \in Range(upload.names) : name # XINewName
LEMMA XINamesIndexed ==
    ASSUME NEW upload, XINamesOK(upload)
    PROVE  /\ Len(upload.names) \in Nat
           /\ \A n \in 1..Len(upload.names) : upload.names[n] \in Range(upload.names)
           /\ \A name \in Range(upload.names) : \E n \in 1..Len(upload.names) : upload.names[n] = name
<1>1. DOMAIN upload.names = 1..Len(upload.names) /\ Len(upload.names) \in Nat
  BY DEF XINamesOK
<1> QED BY <1>1 DEF Range

XIClientTable(db) == [clients |-> db.clients, last |-> db.lastClient]
LEMMA XIClientsSound ==
    ASSUME NEW db, NEW upload, NEW items, NEW row, XINamed(XIClientTable(db)), XINamesOK(upload), XIPlanned(items)
    PROVE  LET work == XIApplyClients(db, upload, items, row)
           IN /\ XINamed(work) /\ XIClientsKept(db.clients, work.clients, items)
              /\ \A name \in Range(upload.names) :
                   XIClientDone(work.clients, name, items, XIAggregate(row, upload, name))
<1> DEFINE N == Len(upload.names)
           ids(name) == XIAggregate(row, upload, name)
<1>0. N \in Nat /\ \A n \in 1..N : upload.names[n] \in Range(upload.names)
  BY XINamesIndexed
<1>1. PICK w : /\ w[0] = XIClientTable(db)
               /\ \A n \in 1..N : w[n] = XIClientStep(w[n - 1], upload.names[n], items, ids(upload.names[n]))
               /\ XIApplyClients(db, upload, items, row) = w[N]
  BY <1>0, XIClientsRun DEF XIClientTable
<1> DEFINE Good(n) == /\ XINamed(w[n]) /\ XIClientsKept(db.clients, w[n].clients, items)
                      /\ \A m \in 1..n : XIClientDone(w[n].clients, upload.names[m], items, ids(upload.names[m]))
           S == {n \in 0..N : Good(n)}
<1>5. \A name \in Range(upload.names) : \E n \in 1..N : upload.names[n] = name
  BY XINamesIndexed
<1> HIDE DEF N, ids
<1>2. 0 \in S
  <2>1. XIClientsKept(db.clients, db.clients, items)
    BY DEF XIClientsKept, XIClientStays
  <2>2. XIClientTable(db).clients = db.clients
    BY DEF XIClientTable
  <2> QED BY <1>0, <1>1, <2>1, <2>2
<1>3. ASSUME NEW n \in 0..N, n \in S, n # N PROVE n + 1 \in S
  <2>1. n + 1 \in 1..N /\ (n + 1) - 1 = n /\ n + 1 \in 0..N /\ Good(n)
    BY <1>0, <1>3
  <2> DEFINE name == upload.names[n + 1]
  <2>2. w[n + 1] = XIClientStep(w[n], name, items, ids(name))
    BY <1>1, <2>1
  <2>3. name # XINewName /\ \A m \in 1..n : upload.names[m] # XINewName
    BY <1>0, <2>1 DEF XINamesOK
  <2> DEFINE next == XIClientStep(w[n], name, items, ids(name))
  <2> HIDE DEF name
  <2>4. XINamed(w[n]) /\ XIClientsKept(db.clients, w[n].clients, items)
    BY <2>1
  <2>5. /\ XINamed(next) /\ XIClientsKept(db.clients, next.clients, items)
        /\ XIClientDone(next.clients, name, items, ids(name))
    BY <2>3, <2>4, XIClientStepSound
  <2>6. ASSUME NEW m \in 1..n
        PROVE  XIClientDone(next.clients, upload.names[m], items, ids(upload.names[m]))
    <3>1. XIClientDone(w[n].clients, upload.names[m], items, ids(upload.names[m]))
      BY <2>1
    <3>2. CASE upload.names[m] = name
      BY <2>5, <3>2
    <3>3. CASE upload.names[m] # name
      BY <2>3, <2>4, <3>1, <3>3, XIClientStepSound
    <3> QED BY <3>2, <3>3
  <2> HIDE DEF next
  <2>7. \A m \in 1..(n + 1) : m = n + 1 \/ m \in 1..n
    OBVIOUS
  <2>8. w[n + 1] = next
    BY <2>2 DEF next
  <2>9. Good(n + 1)
    BY <2>5, <2>6, <2>7, <2>8 DEF name
  <2> QED BY <2>1, <2>9
<1>4. Good(N)
  <2> HIDE DEF Good
  <2>1. N \in 0..N
    BY <1>0
  <2>2. \A n \in 0..N : n \in S /\ n # N => n + 1 \in S
    BY <1>3
  <2> HIDE DEF S
  <2>3. N \in S
    BY <1>0, <1>2, <2>1, <2>2, XIUpTo
  <2> QED BY <2>3 DEF S
<1> QED BY <1>1, <1>4, <1>5 DEF ids

\* A repetition finds every client with what it would add.
LEMMA XIClientsStay ==
    ASSUME NEW db, NEW upload, NEW items, NEW row, XINamed(XIClientTable(db)), XINamesOK(upload),
           \A kind, k : XIItem(items, kind, k).action # "replace",
           \A name \in Range(upload.names) :
             XIGiven(db.clients, XIItem(items, "client", name).to, XIAggregate(row, upload, name))
    PROVE  XIApplyClients(db, upload, items, row) = XIClientTable(db)
<1> DEFINE N == Len(upload.names)
           ids(name) == XIAggregate(row, upload, name)
<1>0. N \in Nat /\ \A n \in 1..N : upload.names[n] \in Range(upload.names)
  BY XINamesIndexed
<1>1. PICK w : /\ w[0] = XIClientTable(db)
               /\ \A n \in 1..N : w[n] = XIClientStep(w[n - 1], upload.names[n], items, ids(upload.names[n]))
               /\ XIApplyClients(db, upload, items, row) = w[N]
  BY <1>0, XIClientsRun DEF XIClientTable
<1> DEFINE table == XIClientTable(db)
           S == {n \in 0..N : w[n] = table}
<1>5. table.clients = db.clients /\ table = [clients |-> table.clients, last |-> table.last]
  BY DEF XIClientTable
<1> HIDE DEF N, table
<1>2. 0 \in S
  BY <1>0, <1>1 DEF table
<1>3. ASSUME NEW n \in 0..N, n \in S, n # N PROVE n + 1 \in S
  <2>1. n + 1 \in 1..N /\ (n + 1) - 1 = n /\ n + 1 \in 0..N /\ w[n] = table
    BY <1>0, <1>3
  <2> DEFINE name == upload.names[n + 1]
             item == XIItem(items, "client", name)
             found == {c \in table.clients : c.name = item.to}
             old == XIFirst(found)
  <2>2. w[n + 1] = XIClientStep(table, name, items, ids(name)) /\ name \in Range(upload.names)
    BY <1>0, <1>1, <2>1
  <2>3. old \in found /\ ids(name) \subseteq old.ids
    BY <1>5, <2>2 DEF XIGiven
  <2>5. XIOnConflict(item.action) # "replace"
    BY DEF XIOnConflict
  <2> DEFINE new == [old EXCEPT !.ids = @ \cup ids(name)]
  <2>6. w[n + 1] = IF item.action = "skip" THEN table
                   ELSE [clients |-> {c \in table.clients : c.id # new.id} \cup {new}, last |-> table.last]
    <3>1. found # {}
      BY <2>3
    <3> HIDE DEF name, ids
    <3> QED BY <2>2, <2>5, <3>1 DEF XIClientStep
  <2>4. old \in table.clients
    BY <2>3
  <2> HIDE DEF found, old, item, name, ids
  <2>8. new = old
    <3>1. old = [id |-> old.id, name |-> old.name, ids |-> old.ids, secret |-> old.secret, from |-> old.from]
      BY <2>4 DEF XINamed, table
    <3>2. old.ids \cup ids(name) = old.ids
      BY <2>3
    <3> QED BY <3>1, <3>2
  <2> HIDE DEF new
  <2>9. {c \in table.clients : c.id # old.id} \cup {old} = table.clients
    BY <2>4 DEF XINamed, table
  <2>10. w[n + 1] = table
    BY <1>5, <2>6, <2>8, <2>9
  <2> QED BY <2>1, <2>10
<1>4. N \in S
  <2>1. N \in 0..N
    BY <1>0
  <2> HIDE DEF S
  <2>2. \A n \in 0..N : n \in S /\ n # N => n + 1 \in S
    BY <1>3
  <2> QED BY <1>0, <1>2, <2>1, <2>2, XIUpTo
<1> QED BY <1>1, <1>4 DEF table

-----------------------------------------------------------------------------
(* The rules.                                                               *)

XISeqOK(s) == s \in Seq(Range(s))
LEMMA XIAppendSound ==
    ASSUME NEW rules, NEW rule, XISeqOK(rules)
    PROVE  LET next == XIAppendRule(rules, rule)
           IN XISeqOK(next) /\ rule \in Range(next) /\ Range(rules) \subseteq Range(next)
<1> DEFINE next == XIAppendRule(rules, rule)
<1>1. CASE rule \in Range(rules)
  BY <1>1 DEF XIAppendRule
<1>2. CASE rule \notin Range(rules)
  <2>1. next = Append(rules, rule)
    BY <1>2 DEF XIAppendRule
  <2> HIDE DEF next
  <2>2. /\ Len(rules) \in Nat /\ DOMAIN rules = 1..Len(rules)
        /\ rules \in Seq(Range(rules) \cup {rule}) /\ rule \in Range(rules) \cup {rule}
    <3>1. \A n \in 1..Len(rules) : rules[n] \in Range(rules) \cup {rule}
      BY DEF XISeqOK
    <3> QED BY <3>1 DEF XISeqOK
  <2>3. /\ next \in Seq(Range(rules) \cup {rule}) /\ Len(next) = Len(rules) + 1
        /\ \A n \in 1..Len(rules) : next[n] = rules[n]
        /\ next[Len(rules) + 1] = rule /\ DOMAIN next = 1..(Len(rules) + 1)
    BY <2>1, <2>2, AppendProperties
  <2>4. Range(next) = Range(rules) \cup {rule}
    BY <2>2, <2>3 DEF Range
  <2> QED BY <2>3, <2>4 DEF XISeqOK, next
<1> QED BY <1>1, <1>2

LEMMA XIRulesSound ==
    ASSUME NEW rules, NEW additions, XISeqOK(rules), XISeqOK(additions)
    PROVE  LET result == XIAppendUnique(rules, additions)
           IN /\ XISeqOK(result) /\ Range(additions) \subseteq Range(result)
              /\ Range(additions) \subseteq Range(rules) => result = rules
<1> DEFINE N == Len(additions)
<1>0. N \in Nat /\ DOMAIN additions = 1..N
  BY DEF XISeqOK
<1>1. PICK w : /\ w[0] = rules
               /\ \A n \in 1..N : w[n] = XIAppendRule(w[n - 1], additions[n])
               /\ XIAppendUnique(rules, additions) = w[N]
  BY <1>0, XIRulesRun
<1> DEFINE Good(n) == /\ XISeqOK(w[n]) /\ \A m \in 1..n : additions[m] \in Range(w[n])
                      /\ Range(additions) \subseteq Range(rules) => w[n] = rules
           S == {n \in 0..N : Good(n)}
<1> HIDE DEF N
<1>2. 0 \in S
  BY <1>0, <1>1
<1>3. ASSUME NEW n \in 0..N, n \in S, n # N PROVE n + 1 \in S
  <2>1. n + 1 \in 1..N /\ (n + 1) - 1 = n /\ n + 1 \in 0..N /\ Good(n)
    BY <1>0, <1>3
  <2>2. w[n + 1] = XIAppendRule(w[n], additions[n + 1]) /\ additions[n + 1] \in Range(additions)
    BY <1>0, <1>1, <2>1 DEF Range
  <2>3. XISeqOK(w[n + 1]) /\ additions[n + 1] \in Range(w[n + 1]) /\ Range(w[n]) \subseteq Range(w[n + 1])
    BY <2>1, <2>2, XIAppendSound
  <2>4. Range(additions) \subseteq Range(rules) => w[n + 1] = rules
    BY <2>1, <2>2 DEF XIAppendRule
  <2>5. \A m \in 1..(n + 1) : m = n + 1 \/ m \in 1..n
    OBVIOUS
  <2>6. Good(n + 1)
    BY <2>1, <2>3, <2>4, <2>5
  <2> QED BY <2>1, <2>6
<1>4. Good(N)
  <2> HIDE DEF Good
  <2>1. N \in 0..N
    BY <1>0
  <2>2. \A n \in 0..N : n \in S /\ n # N => n + 1 \in S
    BY <1>3
  <2> HIDE DEF S
  <2>3. N \in S
    BY <1>0, <1>2, <2>1, <2>2, XIUpTo
  <2> QED BY <2>3 DEF S
<1>5. Range(additions) \subseteq Range(w[N])
  BY <1>0, <1>4 DEF Range
<1> QED BY <1>1, <1>4, <1>5
-----------------------------------------------------------------------------
(* A transaction.                                                           *)

LEMMA XIDbParts ==
    ASSUME NEW db, XIDbOK(db)
    PROVE  /\ XIIdsOK(db) /\ XITagUnique(db.inbounds) /\ XITagUnique(db.endpoints)
           /\ XINamed(XIClientTable(db)) /\ XISeqOK(db.rules)
<1> DEFINE table == XIClientTable(db)
<1>1. table.clients = db.clients /\ table.last = db.lastClient /\ table = [clients |-> table.clients, last |-> table.last]
  BY DEF XIClientTable
<1> HIDE DEF table
<1>2. XINamed(table)
  BY <1>1 DEF XIDbOK, XINamed
<1> QED BY <1>2 DEF XIDbOK, XIIdsOK, XITagUnique, XISeqOK, table

LEMMA XIUploadParts ==
    ASSUME NEW upload, XIUploadOK(upload)
    PROVE  /\ XIRowsOK(upload) /\ XITagsOK(upload) /\ XINamesOK(upload) /\ XISeqOK(upload.rules)
           /\ \A r \in Range(upload.rows) : \A name \in r.clients : name \in Range(upload.names)
<1>1. XIRowsOK(upload) /\ XITagsOK(upload) /\ XISeqOK(upload.rules)
  BY DEF XIUploadOK, XIRowsOK, XITagsOK, XISeqOK
<1>2. XINamesOK(upload)
  <2>1. ASSUME NEW name \in Range(upload.names) PROVE name # XINewName
    <3>1. name \in UNION {r.clients : r \in Range(upload.rows)}
      BY DEF XIUploadOK, XIClientsOf
    <3>2. PICK r \in Range(upload.rows) : name \in r.clients
      BY <3>1
    <3> QED BY <3>2 DEF XIUploadOK
  <2> QED BY <2>1 DEF XIUploadOK, XINamesOK
<1>3. ASSUME NEW r \in Range(upload.rows), NEW name \in r.clients PROVE name \in Range(upload.names)
  <2>1. name \in UNION {q.clients : q \in Range(upload.rows)}
    OBVIOUS
  <2> QED BY <2>1 DEF XIUploadOK, XIClientsOf
<1> QED BY <1>1, <1>2, <1>3

\* A transaction that succeeds, table by table.
LEMMA XITransactionSound ==
    ASSUME NEW db, NEW upload, NEW items, XIDbOK(db), XIUploadOK(upload), XIPlanned(items),
           XITransaction(db, upload, items).ok
    PROVE  LET new == XITransaction(db, upload, items).db
               tls == XIApplyTls(db, upload, items)
               rows == XIApplyInbounds(db, upload, items, tls.ids)
           IN /\ XIDbOK(new)
              /\ new.tls = tls.tls /\ new.inbounds = rows.inbounds /\ new.endpoints = rows.endpoints
              /\ XITlsKept(upload, items) => XITlsFirst(tls)
              /\ XITlsKnown(tls) /\ XINoKey \notin DOMAIN tls.ids
              /\ \A r \in Range(upload.rows) :
                   r.kind = "inbound" /\ r.key # XINoKey =>
                     r.key \in DOMAIN tls.ids \/ XITlsLeft(items, tls.tls, r.key)
              /\ XIInboundsKept(db.inbounds, rows.inbounds, items)
              /\ \A r \in Range(upload.rows) : XIInboundDone(rows, r, items, tls.ids) /\ XIEndpointDone(rows, r, items)
              /\ XIClientsKept(db.clients, new.clients, items)
              /\ \A name \in Range(upload.names) :
                   XIClientDone(new.clients, name, items, XIAggregate(rows.row, upload, name))
              /\ db.outbounds \subseteq new.outbounds
              /\ new.settings = XIApplySettings(db, upload, items)
              /\ new.admins = XIApplyAdmins(db, upload, items)
              /\ new.outbounds = XIApplyRouting(db, upload, items).outbounds
              /\ new.rules = XIApplyRouting(db, upload, items).rules
<1> DEFINE tls == XIApplyTls(db, upload, items)
           rows == XIApplyInbounds(db, upload, items, tls.ids)
           clients == XIApplyClients(db, upload, items, rows.row)
           routing == XIApplyRouting(db, upload, items)
           settings == XIApplySettings(db, upload, items)
           admins == XIApplyAdmins(db, upload, items)
           new == XITransaction(db, upload, items).db
<1>1. /\ XITransaction(db, upload, items).ok = tls.ok
      /\ new = [tls |-> tls.tls, lastTls |-> tls.last,
                inbounds |-> rows.inbounds, lastInbound |-> rows.last, endpoints |-> rows.endpoints,
                clients |-> clients.clients, lastClient |-> clients.last,
                settings |-> settings, admins |-> admins,
                outbounds |-> routing.outbounds, rules |-> routing.rules]
  BY DEF XITransaction
<1>2. /\ XIIdsOK(db) /\ XITagUnique(db.inbounds) /\ XITagUnique(db.endpoints)
      /\ XINamed(XIClientTable(db)) /\ XISeqOK(db.rules)
  BY XIDbParts
<1>3. XIRowsOK(upload) /\ XITagsOK(upload) /\ XINamesOK(upload) /\ XISeqOK(upload.rules)
  BY XIUploadParts
<1>4. /\ XITlsFields(tls) /\ XITlsIds(tls) /\ XITlsKnown(tls) /\ XINoKey \notin DOMAIN tls.ids
      /\ \A r \in Range(upload.rows) : XITlsDone(tls, r, items)
      /\ XITlsKept(upload, items) => XITlsFirst(tls)
  BY <1>2, <1>3, XITlsSound
<1> HIDE DEF tls
<1>5. /\ XITagUnique(rows.inbounds) /\ XITagUnique(rows.endpoints)
      /\ XIInboundsKept(db.inbounds, rows.inbounds, items)
      /\ \A r \in Range(upload.rows) : XIInboundDone(rows, r, items, tls.ids) /\ XIEndpointDone(rows, r, items)
  BY <1>2, <1>3, XIRowsSound
<1> HIDE DEF rows
<1>6. /\ XINamed(clients) /\ XIClientsKept(db.clients, clients.clients, items)
      /\ \A name \in Range(upload.names) :
           XIClientDone(clients.clients, name, items, XIAggregate(rows.row, upload, name))
  BY <1>2, <1>3, XIClientsSound
<1> HIDE DEF clients, settings, admins
<1>7. XISeqOK(routing.rules) /\ db.outbounds \subseteq routing.outbounds
  <2>1. CASE XITaken(items, "routing", {"config"}) = {}
    <3>1. routing = [outbounds |-> db.outbounds, rules |-> db.rules]
      BY <2>1 DEF XIApplyRouting
    <3> QED BY <1>2, <3>1
  <2>2. CASE XITaken(items, "routing", {"config"}) # {}
    <3> DEFINE more == {[tag |-> o, from |-> "import"] : o \in XINewOutbounds(db, upload)}
               rules == XIAppendUnique(db.rules, upload.rules)
    <3>1. routing = [outbounds |-> db.outbounds \cup more, rules |-> rules]
      BY <2>2 DEF XIApplyRouting
    <3>2. XISeqOK(rules)
      BY <1>2, <1>3, XIRulesSound
    <3> HIDE DEF more, rules, routing
    <3> QED BY <3>1, <3>2
  <2> QED BY <2>1, <2>2
<1> HIDE DEF routing, new
<1>8. /\ new.tls = tls.tls /\ new.lastTls = tls.last
      /\ new.inbounds = rows.inbounds /\ new.lastInbound = rows.last /\ new.endpoints = rows.endpoints
      /\ new.clients = clients.clients /\ new.lastClient = clients.last /\ new.settings = settings /\ new.admins = admins
      /\ new.outbounds = routing.outbounds /\ new.rules = routing.rules
  BY <1>1
<1>9. XIDbOK(new)
  <2>1. new = [tls |-> new.tls, lastTls |-> new.lastTls, inbounds |-> new.inbounds, lastInbound |-> new.lastInbound,
           endpoints |-> new.endpoints, clients |-> new.clients, lastClient |-> new.lastClient,
           settings |-> new.settings, admins |-> new.admins,
           outbounds |-> new.outbounds, rules |-> new.rules]
    BY <1>1
  <2> QED BY <2>1, <1>4, <1>5, <1>6, <1>7, <1>8 DEF XIDbOK, XITlsIds, XITagUnique, XINamed, XISeqOK
<1>10. tls.ok
  BY <1>1
<1>11. \A r \in Range(upload.rows) :
         r.kind = "inbound" /\ r.key # XINoKey => r.key \in DOMAIN tls.ids \/ XITlsLeft(items, tls.tls, r.key)
  BY <1>4, <1>10 DEF XITlsDone
<1> QED BY <1>4, <1>5, <1>6, <1>7, <1>8, <1>9, <1>11 DEF tls, rows, clients, settings, admins, routing, new

\* What was there and not replaced is there.
LEMMA XITransactionKeeps ==
    ASSUME NEW db, NEW upload, NEW items, XIDbOK(db), XIUploadOK(upload), XIPlanned(items),
           XITransaction(db, upload, items).ok
    PROVE  XIKept(db, items, XITransaction(db, upload, items).db)
<1> DEFINE new == XITransaction(db, upload, items).db
<1>1. /\ XIInboundsKept(db.inbounds, new.inbounds, items) /\ XIClientsKept(db.clients, new.clients, items)
      /\ db.outbounds \subseteq new.outbounds
  BY XITransactionSound
<1> HIDE DEF new
<1>2. XIKept(db, items, new)
  BY <1>1 DEF XIKept, XIInboundsKept, XIClientsKept, XIClientStays
<1> QED BY <1>2 DEF new

\* What was taken is there.
LEMMA XITransactionBrings ==
    ASSUME NEW db, NEW upload, NEW items, XIDbOK(db), XIUploadOK(upload), XIPlanned(items),
           XITransaction(db, upload, items).ok
    PROVE  XIArrived(upload, items, XITransaction(db, upload, items).db)
<1> DEFINE tls == XIApplyTls(db, upload, items)
           rows == XIApplyInbounds(db, upload, items, tls.ids)
           new == XITransaction(db, upload, items).db
<1>1. /\ XIDbOK(new)
      /\ new.tls = tls.tls /\ new.inbounds = rows.inbounds /\ new.endpoints = rows.endpoints
      /\ XITlsKnown(tls) /\ XINoKey \notin DOMAIN tls.ids
      /\ \A r \in Range(upload.rows) :
           r.kind = "inbound" /\ r.key # XINoKey => r.key \in DOMAIN tls.ids \/ XITlsLeft(items, tls.tls, r.key)
      /\ \A r \in Range(upload.rows) : XIInboundDone(rows, r, items, tls.ids) /\ XIEndpointDone(rows, r, items)
      /\ \A name \in Range(upload.names) :
           XIClientDone(new.clients, name, items, XIAggregate(rows.row, upload, name))
  BY XITransactionSound
<1> HIDE DEF new, rows, tls
<1>2. ASSUME NEW r \in XIUsable(upload), XIItem(items, "inbound", r.tag).action # "skip"
      PROVE  \E q \in new.inbounds :
               /\ \A p \in new.inbounds : p.tag = XIItem(items, "inbound", r.tag).to <=> p = q
               /\ r.key # XINoKey => \/ \E t \in new.tls : t.id = q.tls /\ t.key = r.key
                                     \/ XIItem(items, "tls", r.key).action = "skip" /\ \A t \in new.tls : t.key # r.key
               /\ \A name \in r.clients :
                    \/ XIItem(items, "client", name).action = "skip"
                    \/ \E c \in new.clients : c.name = XIItem(items, "client", name).to /\ q.id \in c.ids
  <2>0. r \in Range(upload.rows) /\ r.kind = "inbound"
    BY DEF XIUsable
  <2> DEFINE q == [id |-> rows.row[r.tag], tag |-> XIItem(items, "inbound", r.tag).to,
                   tls |-> XITlsOf(tls.ids, r), from |-> "import"]
  <2>1. r.tag \in DOMAIN rows.row /\ q \in new.inbounds
    BY <1>1, <1>2, <2>0 DEF XIInboundDone
  <2>2. q.id = rows.row[r.tag] /\ q.tag = XIItem(items, "inbound", r.tag).to /\ q.tls = XITlsOf(tls.ids, r)
    OBVIOUS
  <2> HIDE DEF q
  <2>3. \A p \in new.inbounds : p.tag = XIItem(items, "inbound", r.tag).to <=> p = q
    BY <1>1, <2>1, <2>2 DEF XIDbOK
  <2>4. r.key # XINoKey => \/ \E t \in new.tls : t.id = q.tls /\ t.key = r.key
                           \/ XIItem(items, "tls", r.key).action = "skip" /\ \A t \in new.tls : t.key # r.key
    BY <1>1, <2>0, <2>2 DEF XITlsKnown, XITlsLeft, XITlsOf
  <2>5. ASSUME NEW name \in r.clients, XIItem(items, "client", name).action # "skip"
        PROVE  \E c \in new.clients : c.name = XIItem(items, "client", name).to /\ q.id \in c.ids
    <3>1. name \in Range(upload.names)
      BY <2>0, XIUploadParts
    <3>2. q.id \in XIAggregate(rows.row, upload, name)
      BY <2>1, <2>2 DEF XIAggregate
    <3> QED BY <1>1, <2>5, <3>1, <3>2 DEF XIClientDone, XIGiven
  <2> QED BY <2>1, <2>3, <2>4, <2>5
<1>3. XIArrived(upload, items, new)
  BY <1>2 DEF XIArrived
<1> QED BY <1>3 DEF new
-----------------------------------------------------------------------------
(* A repetition.                                                            *)

\* What a plan made with merge says.
LEMMA XIMergePlan ==
    ASSUME NEW db, NEW upload, XIUploadOK(upload)
    PROVE  LET items == XIPlanOf(db, upload, "merge")
           IN /\ XIPlanned(items)
              /\ \A kind, k : XIItem(items, kind, k).action # "replace" /\ XIItem(items, kind, k).to = k
              /\ \A r \in XIUsable(upload) : XIItem(items, "inbound", r.tag).action # "skip"
              /\ \A k \in upload.settings : k \in XIHostSpecific => XIItem(items, "setting", k).action = "skip"
              /\ \A a \in upload.admins :
                   /\ <<"admin", a>> \in DOMAIN items /\ XIItem(items, "admin", a).action # "skip"
                   /\ (\E x \in db.admins : x.name = a) => XIItem(items, "admin", a).action = "merge"
              /\ XITaken(items, "routing", {"config"}) # {} => upload.rules # <<>>
<1> DEFINE items == XIPlanOf(db, upload, "merge")
           skipped(k) == \/ k[1] = "setting" /\ k[2] \in XIHostSpecific
                         \/ k[1] = "inbound" /\ \E r \in Range(upload.rows) : r.tag = k[2] /\ r.kind = "unsupported"
           action(k) == IF skipped(k) THEN "skip" ELSE IF XIConflict(db, k) THEN "merge" ELSE "create"
<1>1. /\ DOMAIN items = XIItemKeys(upload)
      /\ \A k \in XIItemKeys(upload) : items[k] = [action |-> action(k), to |-> k[2]]
  BY DEF XIPlanOf, XIDefaultAction
<1> HIDE DEF items, skipped, action
<1>2. \A k \in XIItemKeys(upload) : items[k].action = action(k) /\ items[k].to = k[2]
  BY <1>1
<1> USE DEF action
<1>3. XIPlanned(items)
  <2>1. ASSUME NEW k \in DOMAIN items, NEW l \in DOMAIN items, k[1] = l[1],
               items[k].to = XINewName, items[l].to = XINewName
        PROVE  k[2] = l[2]
    BY <1>1, <1>2, <2>1
  <2> QED BY <1>1, <1>2, <2>1 DEF XIPlanned
<1>4. ASSUME NEW kind, NEW k
      PROVE  XIItem(items, kind, k).action # "replace" /\ XIItem(items, kind, k).to = k
  <2>1. <<kind, k>>[2] = k
    OBVIOUS
  <2>2. CASE <<kind, k>> \in DOMAIN items
    <3>1. XIItem(items, kind, k) = items[<<kind, k>>]
      BY <2>2 DEF XIItem
    <3> QED BY <1>1, <1>2, <2>1, <2>2, <3>1
  <2>3. CASE <<kind, k>> \notin DOMAIN items
    <3>1. XIItem(items, kind, k) = [action |-> "create", to |-> k]
      BY <2>3 DEF XIItem
    <3> QED BY <3>1
  <2> QED BY <2>2, <2>3
<1>5. ASSUME NEW r \in XIUsable(upload) PROVE XIItem(items, "inbound", r.tag).action # "skip"
  <2> DEFINE k == <<"inbound", r.tag>>
  <2>1. k[1] = "inbound" /\ k[2] = r.tag
    OBVIOUS
  <2> HIDE DEF k
  <2>2. r \in Range(upload.rows) /\ r.kind = "inbound"
    BY DEF XIUsable
  <2>3. ASSUME NEW q \in Range(upload.rows), q.tag = r.tag PROVE q = r
    <3>1. PICK m \in DOMAIN upload.rows : upload.rows[m] = q
      BY DEF Range
    <3>2. PICK n \in DOMAIN upload.rows : upload.rows[n] = r
      BY <2>2 DEF Range
    <3> QED BY <2>3, <3>1, <3>2 DEF XIUploadOK
  <2>4. ~ skipped(k)
    BY <2>1, <2>2, <2>3 DEF skipped
  <2>5. k \in DOMAIN items => items[k].action # "skip"
    BY <1>1, <1>2, <2>4
  <2> QED BY <2>5 DEF XIItem, k
<1>6. ASSUME NEW k \in upload.settings, k \in XIHostSpecific PROVE XIItem(items, "setting", k).action = "skip"
  <2> DEFINE j == <<"setting", k>>
  <2>1. j[1] = "setting" /\ j[2] = k
    OBVIOUS
  <2>2. j \in XIItemKeys(upload)
    BY DEF XIItemKeys
  <2>3. skipped(j)
    BY <1>6, <2>1 DEF skipped
  <2> HIDE DEF j
  <2>4. j \in DOMAIN items /\ items[j].action = "skip"
    BY <1>1, <1>2, <2>2, <2>3
  <2> QED BY <2>4 DEF XIItem, j
<1>7. ASSUME NEW a \in upload.admins
      PROVE  /\ <<"admin", a>> \in DOMAIN items /\ XIItem(items, "admin", a).action # "skip"
             /\ (\E x \in db.admins : x.name = a) => XIItem(items, "admin", a).action = "merge"
  <2> DEFINE j == <<"admin", a>>
  <2>1. j[1] = "admin" /\ j[2] = a
    OBVIOUS
  <2>2. j \in XIItemKeys(upload)
    BY DEF XIItemKeys
  <2>3. ~ skipped(j)
    BY <2>1 DEF skipped
  <2>4. (\E x \in db.admins : x.name = a) => XIConflict(db, j)
    BY <2>1 DEF XIConflict
  <2> HIDE DEF j
  <2>5. j \in DOMAIN items /\ items[j].action = action(j)
    BY <1>1, <1>2, <2>2
  <2>6. XIItem(items, "admin", a) = items[j]
    BY <2>5 DEF XIItem, j
  <2>7. j = <<"admin", a>>
    BY DEF j
  <2> QED BY <2>3, <2>4, <2>5, <2>6, <2>7
<1>8. ASSUME XITaken(items, "routing", {"config"}) # {} PROVE upload.rules # <<>>
  <2>1. PICK k \in DOMAIN items : k[1] = "routing"
    BY <1>8 DEF XITaken
  <2>2. k \in XIItemKeys(upload)
    BY <1>1
  <2>3. \A r \in Range(upload.rows) : (IF r.kind = "unsupported" THEN "inbound" ELSE r.kind) \in {"inbound", "endpoint"}
    BY DEF XIUploadOK
  <2>4. ASSUME upload.rules = <<>> PROVE k[1] \in {"tls", "inbound", "endpoint", "client", "setting", "admin"}
    BY <2>2, <2>3, <2>4 DEF XIItemKeys
  <2> QED BY <2>1, <2>4
<1> QED BY <1>3, <1>4, <1>5, <1>6, <1>7, <1>8 DEF items

\* What an import of everything has taken.
LEMMA XIWholeTakes ==
    ASSUME NEW upload, NEW items, XIUploadOK(upload), XIWhole(upload, items)
    PROVE  /\ \A r \in XIUsable(upload) :
                /\ XIItem(items, "inbound", r.tag).action # "skip" /\ XIItem(items, "inbound", r.tag).to = r.tag
                /\ r.key # XINoKey => XIItem(items, "tls", r.key).action \notin {"skip", "replace"}
           /\ \A r \in Range(upload.rows) : r.kind = "endpoint" =>
                XIItem(items, "endpoint", r.tag).action # "skip" /\ XIItem(items, "endpoint", r.tag).to = r.tag
           /\ \A name \in Range(upload.names) :
                XIItem(items, "client", name).action # "skip" /\ XIItem(items, "client", name).to = name
           /\ XITaken(items, "admin", upload.admins) = upload.admins
           /\ upload.settings \ XIHostSpecific \subseteq XITaken(items, "setting", upload.settings)
           /\ upload.rules # <<>> => XITaken(items, "routing", {"config"}) # {}
<1> DEFINE Merged(kind, id) == /\ <<kind, id>> \in DOMAIN items
                               /\ XIItem(items, kind, id).action \notin {"skip", "replace"} /\ XIItem(items, kind, id).to = id
<1>1. ASSUME NEW kind, NEW id, <<kind, id>> \in XIItemKeys(upload),
             kind # "setting" \/ id \notin XIHostSpecific,
             kind # "inbound" \/ \E r \in XIUsable(upload) : r.tag = id
      PROVE  Merged(kind, id)
  <2> DEFINE k == <<kind, id>>
  <2>1. k[1] = kind /\ k[2] = id /\ k \in XIItemKeys(upload)
    BY <1>1
  <2> HIDE DEF k
  <2>2. k \in DOMAIN items /\ items[k].action \in {"create", "merge"} /\ items[k].to = id
    BY <1>1, <2>1 DEF XIWhole
  <2>3. XIItem(items, kind, id) = items[k]
    BY <2>2 DEF XIItem, k
  <2> QED BY <2>2, <2>3 DEF k
<1> HIDE DEF Merged
<1>2. ASSUME NEW r \in XIUsable(upload) PROVE Merged("inbound", r.tag)
  <2>1. r \in Range(upload.rows) /\ r.kind = "inbound"
    BY DEF XIUsable
  <2>2. <<IF r.kind = "unsupported" THEN "inbound" ELSE r.kind, r.tag>> \in XIItemKeys(upload)
    BY <2>1 DEF XIItemKeys
  <2> QED BY <1>1, <2>1, <2>2
<1>3. ASSUME NEW r \in XIUsable(upload), r.key # XINoKey PROVE Merged("tls", r.key)
  <2>1. <<"tls", r.key>> \in XIItemKeys(upload)
    BY <1>3 DEF XIItemKeys, XIKeysOf
  <2> QED BY <1>1, <2>1
<1>4. ASSUME NEW r \in Range(upload.rows), r.kind = "endpoint" PROVE Merged("endpoint", r.tag)
  <2>1. <<IF r.kind = "unsupported" THEN "inbound" ELSE r.kind, r.tag>> \in XIItemKeys(upload)
    BY DEF XIItemKeys
  <2> QED BY <1>1, <1>4, <2>1
<1>5. ASSUME NEW name \in Range(upload.names) PROVE Merged("client", name)
  <2>1. <<"client", name>> \in XIItemKeys(upload)
    BY DEF XIItemKeys, XIUploadOK
  <2> QED BY <1>1, <2>1
<1>6. ASSUME NEW a \in upload.admins PROVE Merged("admin", a)
  <2>1. <<"admin", a>> \in XIItemKeys(upload)
    BY DEF XIItemKeys
  <2> QED BY <1>1, <2>1
<1>7. ASSUME NEW k \in upload.settings \ XIHostSpecific PROVE Merged("setting", k)
  <2>1. <<"setting", k>> \in XIItemKeys(upload)
    BY DEF XIItemKeys
  <2> QED BY <1>1, <2>1
<1>8. ASSUME upload.rules # <<>> PROVE Merged("routing", "config")
  <2>1. <<"routing", "config">> \in XIItemKeys(upload)
    BY <1>8 DEF XIItemKeys
  <2> QED BY <1>1, <2>1
<1>9. ASSUME NEW kind, NEW names, NEW id \in names, Merged(kind, id) PROVE id \in XITaken(items, kind, names)
  <2>1. <<kind, id>>[1] = kind
    OBVIOUS
  <2> QED BY <1>9, <2>1 DEF XITaken, Merged
<1>10. XITaken(items, "admin", upload.admins) = upload.admins
  BY <1>6, <1>9 DEF XITaken
<1>11. upload.settings \ XIHostSpecific \subseteq XITaken(items, "setting", upload.settings)
  BY <1>7, <1>9
<1>12. upload.rules # <<>> => "config" \in XITaken(items, "routing", {"config"})
  BY <1>8, <1>9
<1> QED BY <1>2, <1>3, <1>4, <1>5, <1>10, <1>11, <1>12 DEF Merged
\* The settings, administrators and outbounds of a repetition are there.
LEMMA XISettingsStay ==
    ASSUME NEW db, NEW new, NEW upload, NEW items, NEW again,
           new.settings = XIApplySettings(db, upload, items),
           XITaken(again, "setting", upload.settings) \subseteq XITaken(items, "setting", upload.settings)
    PROVE  XIApplySettings(new, upload, again) = new.settings
<1> DEFINE taken == XITaken(items, "setting", upload.settings)
           more == XITaken(again, "setting", upload.settings)
<1>1. new.settings = [k \in taken \cup DOMAIN db.settings |-> IF k \in taken THEN "import" ELSE db.settings[k]]
  BY DEF XIApplySettings
<1>2. XIApplySettings(new, upload, again) =
        [k \in more \cup DOMAIN new.settings |-> IF k \in more THEN "import" ELSE new.settings[k]]
  BY DEF XIApplySettings
<1> HIDE DEF taken, more
<1>3. DOMAIN new.settings = taken \cup DOMAIN db.settings /\ \A k \in taken : new.settings[k] = "import"
  BY <1>1
<1>4. more \subseteq taken
  BY DEF taken, more
<1>5. more \cup DOMAIN new.settings = DOMAIN new.settings
  BY <1>3, <1>4
<1>6. XIApplySettings(new, upload, again) = [k \in DOMAIN new.settings |-> new.settings[k]]
  BY <1>2, <1>3, <1>4, <1>5
<1>7. new.settings = [k \in DOMAIN new.settings |-> new.settings[k]]
  BY <1>1
<1> QED BY <1>6, <1>7

LEMMA XIAdminsStay ==
    ASSUME NEW db, NEW new, NEW upload, NEW items, NEW again,
           new.admins = XIApplyAdmins(db, upload, items),
           XITaken(items, "admin", upload.admins) = upload.admins,
           XITaken(again, "admin", upload.admins) = upload.admins,
           \A a \in upload.admins : (\E x \in new.admins : x.name = a) => XIItem(again, "admin", a).action = "merge"
    PROVE  XIApplyAdmins(new, upload, again) = new.admins
<1> DEFINE row(a) == XIAdminRow(db, a, XIItem(items, "admin", a).action)
           same(a) == XIAdminRow(new, a, XIItem(again, "admin", a).action)
<1>1. new.admins = {x \in db.admins : x.name \notin upload.admins} \cup {row(a) : a \in upload.admins}
  BY DEF XIApplyAdmins
<1>2. XIApplyAdmins(new, upload, again)
        = {x \in new.admins : x.name \notin upload.admins} \cup {same(a) : a \in upload.admins}
  BY DEF XIApplyAdmins
<1>3. \A a : \E p : row(a) = [name |-> a, password |-> p, reset |-> TRUE]
  BY DEF XIAdminRow
<1> HIDE DEF row
<1>4. \A a : row(a).name = a
  BY <1>3
<1>5. ASSUME NEW a \in upload.admins PROVE same(a) = row(a)
  <2> DEFINE found == {x \in new.admins : x.name = a}
  <2>1. row(a) \in found /\ \A x \in found : x = row(a)
    BY <1>1, <1>4
  <2>2. XIItem(again, "admin", a).action = "merge"
    BY <2>1
  <2>3. found # {} /\ (CHOOSE x \in found : TRUE) = row(a)
    BY <2>1
  <2>4. same(a) = [name |-> a, password |-> row(a).password, reset |-> TRUE]
    BY <2>2, <2>3 DEF XIAdminRow
  <2>5. PICK p : row(a) = [name |-> a, password |-> p, reset |-> TRUE]
    BY <1>3
  <2> QED BY <2>4, <2>5
<1> HIDE DEF same
<1> QED BY <1>1, <1>2, <1>4, <1>5

LEMMA XIRoutingStays ==
    ASSUME NEW db, NEW new, NEW upload, NEW items, NEW again, XISeqOK(db.rules), XISeqOK(upload.rules), XISeqOK(new.rules),
           new.outbounds = XIApplyRouting(db, upload, items).outbounds,
           new.rules = XIApplyRouting(db, upload, items).rules,
           XITaken(again, "routing", {"config"}) # {} => XITaken(items, "routing", {"config"}) # {}
    PROVE  /\ XIApplyRouting(new, upload, again).outbounds = new.outbounds
           /\ XIApplyRouting(new, upload, again).rules = new.rules
<1>1. CASE XITaken(again, "routing", {"config"}) = {}
  BY <1>1 DEF XIApplyRouting
<1>2. CASE XITaken(again, "routing", {"config"}) # {}
  <2> DEFINE made(d) == {[tag |-> o, from |-> "import"] : o \in XINewOutbounds(d, upload)}
  <2>1. new.outbounds = db.outbounds \cup made(db) /\ new.rules = XIAppendUnique(db.rules, upload.rules)
    BY <1>2 DEF XIApplyRouting
  <2>2. /\ XIApplyRouting(new, upload, again).outbounds = new.outbounds \cup made(new)
        /\ XIApplyRouting(new, upload, again).rules = XIAppendUnique(new.rules, upload.rules)
    BY <1>2 DEF XIApplyRouting
  <2>3. \A o \in XINewOutbounds(db, upload) : [tag |-> o, from |-> "import"] \in new.outbounds
    BY <2>1
  <2>4. \A o : [tag |-> o, from |-> "import"].tag = o
    OBVIOUS
  <2>5. XINewOutbounds(new, upload) = {}
    <3> SUFFICES ASSUME NEW o \in upload.outbounds \cup ({"direct"} \cap Range(upload.rules)),
                        \A p \in new.outbounds : p.tag # o
                 PROVE  FALSE
      BY DEF XINewOutbounds
    <3>1. CASE o \in XINewOutbounds(db, upload)
      BY <2>3, <2>4, <3>1
    <3>2. CASE o \notin XINewOutbounds(db, upload)
      <4>1. PICK p \in db.outbounds : p.tag = o
        BY <3>2 DEF XINewOutbounds
      <4> QED BY <2>1, <4>1
    <3> QED BY <3>1, <3>2
  <2>6. Range(upload.rules) \subseteq Range(new.rules)
    BY <2>1, XIRulesSound
  <2>7. XIAppendUnique(new.rules, upload.rules) = new.rules
    BY <2>6, XIRulesSound
  <2> QED BY <2>2, <2>5, <2>7
<1> QED BY <1>1, <1>2

\* The whole of it again leaves the database as it is.
LEMMA XITransactionRepeats ==
    ASSUME NEW db, NEW upload, NEW items, XIDbOK(db), XIUploadOK(upload), XIPlanned(items),
           XITransaction(db, upload, items).ok
    PROVE  XIRepeats(upload, items, XITransaction(db, upload, items).db)
<1> SUFFICES ASSUME XIWhole(upload, items)
             PROVE  LET new == XITransaction(db, upload, items).db
                    IN XITransaction(new, upload, XIPlanOf(new, upload, "merge")) = [ok |-> TRUE, db |-> new]
  BY DEF XIRepeats
<1> DEFINE tls == XIApplyTls(db, upload, items)
           rows == XIApplyInbounds(db, upload, items, tls.ids)
           new == XITransaction(db, upload, items).db
           again == XIPlanOf(new, upload, "merge")
           tls2 == XIApplyTls(new, upload, again)
           rows2 == XIApplyInbounds(new, upload, again, tls2.ids)
<1>1. /\ XIDbOK(new)
      /\ new.tls = tls.tls /\ new.inbounds = rows.inbounds /\ new.endpoints = rows.endpoints
      /\ XITlsKept(upload, items) => XITlsFirst(tls)
      /\ XITlsKnown(tls) /\ XINoKey \notin DOMAIN tls.ids
      /\ \A r \in Range(upload.rows) :
           r.kind = "inbound" /\ r.key # XINoKey => r.key \in DOMAIN tls.ids \/ XITlsLeft(items, tls.tls, r.key)
      /\ \A r \in Range(upload.rows) : XIInboundDone(rows, r, items, tls.ids) /\ XIEndpointDone(rows, r, items)
      /\ \A name \in Range(upload.names) :
           XIClientDone(new.clients, name, items, XIAggregate(rows.row, upload, name))
      /\ new.settings = XIApplySettings(db, upload, items)
      /\ new.admins = XIApplyAdmins(db, upload, items)
      /\ new.outbounds = XIApplyRouting(db, upload, items).outbounds
      /\ new.rules = XIApplyRouting(db, upload, items).rules
  BY XITransactionSound
<1> HIDE DEF new, rows, tls
<1>2. /\ XIPlanned(again)
      /\ \A kind, k : XIItem(again, kind, k).action # "replace" /\ XIItem(again, kind, k).to = k
      /\ \A r \in XIUsable(upload) : XIItem(again, "inbound", r.tag).action # "skip"
      /\ \A k \in upload.settings : k \in XIHostSpecific => XIItem(again, "setting", k).action = "skip"
      /\ \A a \in upload.admins :
           /\ <<"admin", a>> \in DOMAIN again /\ XIItem(again, "admin", a).action # "skip"
           /\ (\E x \in new.admins : x.name = a) => XIItem(again, "admin", a).action = "merge"
      /\ XITaken(again, "routing", {"config"}) # {} => upload.rules # <<>>
  BY XIMergePlan
<1> HIDE DEF again
<1>3. /\ \A r \in XIUsable(upload) :
           /\ XIItem(items, "inbound", r.tag).action # "skip" /\ XIItem(items, "inbound", r.tag).to = r.tag
           /\ r.key # XINoKey => XIItem(items, "tls", r.key).action \notin {"skip", "replace"}
      /\ \A r \in Range(upload.rows) : r.kind = "endpoint" =>
           XIItem(items, "endpoint", r.tag).action # "skip" /\ XIItem(items, "endpoint", r.tag).to = r.tag
      /\ \A name \in Range(upload.names) :
           XIItem(items, "client", name).action # "skip" /\ XIItem(items, "client", name).to = name
      /\ XITaken(items, "admin", upload.admins) = upload.admins
      /\ upload.settings \ XIHostSpecific \subseteq XITaken(items, "setting", upload.settings)
      /\ upload.rules # <<>> => XITaken(items, "routing", {"config"}) # {}
  BY XIWholeTakes
<1>4. /\ XIIdsOK(new) /\ XITagUnique(new.inbounds) /\ XITagUnique(new.endpoints)
      /\ XINamed(XIClientTable(new)) /\ XISeqOK(new.rules) /\ XISeqOK(db.rules)
  BY <1>1, XIDbParts
<1>5. XIRowsOK(upload) /\ XITagsOK(upload) /\ XINamesOK(upload) /\ XISeqOK(upload.rules)
  BY XIUploadParts
<1>6. \A r \in XIUsable(upload) : r \in Range(upload.rows) /\ r.kind = "inbound"
  BY DEF XIUsable
<1>7. ASSUME NEW r \in XIUsable(upload), r.key # XINoKey
      PROVE  /\ \E t \in new.tls : t.key = r.key
             /\ XITlsOf(tls.ids, r) = XIFirst(XITlsFound(new.tls, r.key)).id
  <2>1. r.key \in DOMAIN tls.ids
    BY <1>1, <1>3, <1>6, <1>7 DEF XITlsLeft
  <2>2. XITlsKept(upload, items)
    <3>1. ASSUME NEW q \in Range(upload.rows), q.kind = "inbound", q.key # XINoKey
          PROVE  XIItem(items, "tls", q.key).action # "replace"
      <4>1. q \in XIUsable(upload)
        BY <3>1 DEF XIUsable
      <4> QED BY <1>3, <3>1, <4>1
    <3> QED BY <3>1 DEF XITlsKept
  <2>3. XITlsFirst(tls)
    BY <1>1, <2>2
  <2> QED BY <1>1, <2>1, <2>3 DEF XITlsKnown, XITlsFirst, XITlsOf
<1>8. /\ tls2.tls = new.tls /\ tls2.last = new.lastTls /\ tls2.ok
      /\ \A r \in XIUsable(upload) : r.key # XINoKey =>
            XITlsOf(tls2.ids, r) = XIFirst(XITlsFound(new.tls, r.key)).id
      /\ XINoKey \notin DOMAIN tls2.ids
  <2>1. \A k : XIItem(again, "tls", k).action # "replace"
    BY <1>2
  <2>2. \A r \in XIUsable(upload) : r.key # XINoKey => \E t \in new.tls : t.key = r.key
    BY <1>7
  <2> QED BY <1>4, <1>5, <2>1, <2>2, XITlsStays
<1> HIDE DEF tls2
<1>9. ASSUME NEW r \in XIUsable(upload) PROVE XITlsOf(tls2.ids, r) = XITlsOf(tls.ids, r)
  <2>1. CASE r.key = XINoKey
    BY <1>1, <1>8, <2>1 DEF XITlsOf
  <2>2. CASE r.key # XINoKey
    BY <1>7, <1>8, <2>2
  <2> QED BY <2>1, <2>2
<1>10. ASSUME NEW r \in XIUsable(upload)
       PROVE  /\ r.tag \in DOMAIN rows.row
              /\ [id |-> rows.row[r.tag], tag |-> r.tag, tls |-> XITlsOf(tls.ids, r), from |-> "import"] \in new.inbounds
  BY <1>1, <1>3, <1>6 DEF XIInboundDone
<1>11. ASSUME NEW r \in Range(upload.rows)
       PROVE  /\ r.kind = "inbound" /\ XIItem(again, "inbound", r.tag).action # "skip" =>
                   \E id : [id |-> id, tag |-> XIItem(again, "inbound", r.tag).to,
                            tls |-> XITlsOf(tls2.ids, r), from |-> "import"] \in new.inbounds
              /\ r.kind = "endpoint" /\ XIItem(again, "endpoint", r.tag).action # "skip" =>
                   [tag |-> XIItem(again, "endpoint", r.tag).to, from |-> "import"] \in new.endpoints
  <2>1. ASSUME r.kind = "inbound"
        PROVE  \E id : [id |-> id, tag |-> XIItem(again, "inbound", r.tag).to,
                        tls |-> XITlsOf(tls2.ids, r), from |-> "import"] \in new.inbounds
    <3>1. r \in XIUsable(upload) /\ XIItem(again, "inbound", r.tag).to = r.tag
      BY <1>2, <2>1 DEF XIUsable
    <3> QED BY <1>9, <1>10, <3>1
  <2>2. ASSUME r.kind = "endpoint"
        PROVE  [tag |-> XIItem(again, "endpoint", r.tag).to, from |-> "import"] \in new.endpoints
    <3>1. XIItem(again, "endpoint", r.tag).to = r.tag
      BY <1>2
    <3>2. [tag |-> r.tag, from |-> "import"] \in new.endpoints
      BY <1>1, <1>3, <2>2 DEF XIEndpointDone
    <3> QED BY <3>1, <3>2
  <2> QED BY <2>1, <2>2
<1>12. rows2.inbounds = new.inbounds /\ rows2.last = new.lastInbound /\ rows2.endpoints = new.endpoints
  <2>1. \A kind, k : XIItem(again, kind, k).action # "replace"
    BY <1>2
  <2>2. XIRowsThere(new, upload, again, tls2.ids)
    BY <1>11 DEF XIRowsThere
  <2>3. XITagUnique(new.inbounds) /\ XITagUnique(new.endpoints) /\ XIRowsOK(upload)
    BY <1>4, <1>5
  <2> QED BY <2>1, <2>2, <2>3, XIRowsStay
<1>13. \A r \in Range(upload.rows) : XIInboundDone(rows2, r, again, tls2.ids)
  BY <1>2, <1>4, <1>5, XIRowsSound
<1> HIDE DEF rows2
<1>14. ASSUME NEW r \in XIUsable(upload) PROVE rows2.row[r.tag] = rows.row[r.tag]
  <2> DEFINE p == [id |-> rows2.row[r.tag], tag |-> r.tag, tls |-> XITlsOf(tls2.ids, r), from |-> "import"]
             q == [id |-> rows.row[r.tag], tag |-> r.tag, tls |-> XITlsOf(tls.ids, r), from |-> "import"]
  <2>1. p \in new.inbounds
    BY <1>2, <1>6, <1>12, <1>13 DEF XIInboundDone
  <2>2. q \in new.inbounds
    BY <1>10
  <2>3. p.tag = q.tag /\ p.id = rows2.row[r.tag] /\ q.id = rows.row[r.tag]
    OBVIOUS
  <2> HIDE DEF p, q
  <2> QED BY <1>4, <2>1, <2>2, <2>3 DEF XITagUnique
<1>15. \A name : XIAggregate(rows2.row, upload, name) \subseteq XIAggregate(rows.row, upload, name)
  BY <1>10, <1>14 DEF XIAggregate
<1>16. XIApplyClients(new, upload, again, rows2.row) = XIClientTable(new)
  <2>1. ASSUME NEW name \in Range(upload.names)
        PROVE  XIGiven(new.clients, XIItem(again, "client", name).to, XIAggregate(rows2.row, upload, name))
    <3>1. XIGiven(new.clients, name, XIAggregate(rows.row, upload, name))
      BY <1>1, <1>3 DEF XIClientDone
    <3>2. XIItem(again, "client", name).to = name
      BY <1>2
    <3>3. XIGiven(new.clients, name, XIAggregate(rows2.row, upload, name))
      BY <1>15, <3>1 DEF XIGiven
    <3> QED BY <3>2, <3>3
  <2>2. \A kind, k : XIItem(again, kind, k).action # "replace"
    BY <1>2
  <2> QED BY <1>4, <1>5, <2>1, <2>2, XIClientsStay
<1>17. XIApplySettings(new, upload, again) = new.settings
  <2>1. XITaken(again, "setting", upload.settings) \subseteq upload.settings \ XIHostSpecific
    BY <1>2 DEF XITaken
  <2> QED BY <1>1, <1>3, <2>1, XISettingsStay
<1>18. XIApplyAdmins(new, upload, again) = new.admins
  <2>1. \A a : <<"admin", a>>[1] = "admin"
    OBVIOUS
  <2>2. XITaken(again, "admin", upload.admins) = upload.admins
    BY <1>2, <2>1 DEF XITaken
  <2>3. new.admins = XIApplyAdmins(db, upload, items) /\ XITaken(items, "admin", upload.admins) = upload.admins
    BY <1>1, <1>3
  <2>4. \A a \in upload.admins : (\E x \in new.admins : x.name = a) => XIItem(again, "admin", a).action = "merge"
    BY <1>2
  <2> QED BY <2>2, <2>3, <2>4, XIAdminsStay, ZenonT(60)
<1>19. /\ XIApplyRouting(new, upload, again).outbounds = new.outbounds
       /\ XIApplyRouting(new, upload, again).rules = new.rules
  BY <1>1, <1>2, <1>3, <1>4, <1>5, XIRoutingStays
<1>20. new = [tls |-> new.tls, lastTls |-> new.lastTls, inbounds |-> new.inbounds, lastInbound |-> new.lastInbound,
           endpoints |-> new.endpoints, clients |-> new.clients, lastClient |-> new.lastClient,
           settings |-> new.settings, admins |-> new.admins,
           outbounds |-> new.outbounds, rules |-> new.rules]
  BY <1>1 DEF XIDbOK
<1>21. XITransaction(new, upload, again) =
         [ok |-> tls2.ok,
          db |-> [tls |-> tls2.tls, lastTls |-> tls2.last,
                  inbounds |-> rows2.inbounds, lastInbound |-> rows2.last, endpoints |-> rows2.endpoints,
                  clients |-> XIApplyClients(new, upload, again, rows2.row).clients,
                  lastClient |-> XIApplyClients(new, upload, again, rows2.row).last,
                  settings |-> XIApplySettings(new, upload, again), admins |-> XIApplyAdmins(new, upload, again),
                  outbounds |-> XIApplyRouting(new, upload, again).outbounds,
                  rules |-> XIApplyRouting(new, upload, again).rules]]
  BY DEF XITransaction, tls2, rows2
<1>22. tls2.ok = TRUE
  BY <1>8
<1>23. XIClientTable(new).clients = new.clients /\ XIClientTable(new).last = new.lastClient
  BY DEF XIClientTable
<1>24. XITransaction(new, upload, again) = [ok |-> TRUE, db |-> new]
  BY <1>8, <1>12, <1>16, <1>23, <1>17, <1>18, <1>19, <1>20, <1>21, <1>22
<1> QED BY <1>24 DEF again, new
-----------------------------------------------------------------------------
(* The plan, the requests and the commits of an import.                     *)

\* A plan as made, or as reviewed once.
XIPlanOK(plan) ==
  /\ plan = [upload |-> plan.upload, items |-> plan.items, reviewed |-> plan.reviewed]
  /\ plan.upload \in DOMAIN XIUploads
  /\ plan.items = [k \in DOMAIN plan.items |-> plan.items[k]]
  /\ \A k \in DOMAIN plan.items : plan.items[k] = [action |-> plan.items[k].action, to |-> plan.items[k].to]
  /\ XIPlanned(plan.items)
  /\ ~plan.reviewed => \A k \in DOMAIN plan.items : plan.items[k].to = k[2]
XIRequestOK(q) ==
  /\ q = [at |-> q.at, upload |-> q.upload, strategy |-> q.strategy, items |-> q.items, backup |-> q.backup]
  /\ q.at = "running" => q.upload \in DOMAIN XIUploads
  /\ XIPlanned(q.items)
  /\ \A db \in q.backup : XIDbOK(db)
\* The panel's database, its backups and the plans stay well formed.
XIInv ==
  /\ XIDbOK(xiDb)
  /\ xiPlan # XINoPlan => XIPlanOK(xiPlan)
  /\ xiPc = [i \in Importing |-> xiPc[i]] /\ \A i \in Importing : XIRequestOK(xiPc[i])

\* A plan that renames nothing is a plan.
LEMMA XIPlainIsPlanned ==
    ASSUME NEW items, \A k \in DOMAIN items : items[k].to = k[2]
    PROVE  XIPlanned(items)
BY DEF XIPlanned

LEMMA XIIdleIsOK == XIRequestOK(XIIdle) /\ XIIdle.backup = {} /\ XIIdle.at = "idle"
<1>1. \A k \in DOMAIN <<>> : FALSE
  OBVIOUS
<1>2. XIPlanned(<<>>)
  BY <1>1 DEF XIPlanned
<1> QED BY <1>2 DEF XIIdle, XIRequestOK

LEMMA XIMadePlanIsOK ==
    ASSUME NEW db, NEW name \in DOMAIN XIUploads, NEW strategy
    PROVE  XIPlanOK([upload |-> name, reviewed |-> FALSE, items |-> XIPlanOf(db, XIUploads[name], strategy)])
<1> DEFINE items == XIPlanOf(db, XIUploads[name], strategy)
           plan == [upload |-> name, reviewed |-> FALSE, items |-> items]
<1>1. PICK action : items = [k \in XIItemKeys(XIUploads[name]) |-> [action |-> action[k], to |-> k[2]]]
  <2> DEFINE keys == XIItemKeys(XIUploads[name])
             given == [k \in keys |-> items[k].action]
  <2>1. items = [k \in keys |-> [action |-> given[k], to |-> k[2]]]
    BY DEF XIPlanOf
  <2> QED BY <2>1
<1>2. \A k \in DOMAIN items : items[k].to = k[2] /\ items[k] = [action |-> items[k].action, to |-> items[k].to]
  BY <1>1
<1>3. items = [k \in DOMAIN items |-> items[k]]
  BY <1>1
<1> HIDE DEF items
<1>4. XIPlanned(items)
  BY <1>2, XIPlainIsPlanned
<1>5. plan.upload = name /\ plan.items = items /\ plan.reviewed = FALSE
  OBVIOUS
<1>6. XIPlanOK(plan)
  BY <1>2, <1>3, <1>4, <1>5 DEF XIPlanOK
<1> QED BY <1>6 DEF items

LEMMA XIReviewedPlanIsOK ==
    ASSUME XIPlanOK(xiPlan), XIReview
    PROVE  XIPlanOK(xiPlan')
<1> DEFINE items == xiPlan.items
<1>1. ~xiPlan.reviewed /\ \A k \in DOMAIN items : items[k].to = k[2]
  BY DEF XIReview, XIPlanOK
<1>2. ASSUME NEW item \in DOMAIN items, NEW new, new.to = item[2] \/ (new.to = XINewName /\ item[1] \in {"inbound", "client"}),
             new = [action |-> new.action, to |-> new.to],
             xiPlan' = [upload |-> xiPlan.upload, items |-> [items EXCEPT ![item] = new], reviewed |-> TRUE]
      PROVE  XIPlanOK(xiPlan')
  <2> DEFINE changed == [items EXCEPT ![item] = new]
  <2>1. xiPlan'.upload = xiPlan.upload /\ xiPlan'.items = changed /\ xiPlan'.reviewed = TRUE
    BY <1>2
  <2>2. /\ DOMAIN changed = DOMAIN items /\ changed = [k \in DOMAIN changed |-> changed[k]]
        /\ \A k \in DOMAIN items : changed[k] = IF k = item THEN new ELSE items[k]
    BY DEF XIPlanOK
  <2> HIDE DEF changed
  <2>3. \A k \in DOMAIN changed : changed[k] = [action |-> changed[k].action, to |-> changed[k].to]
    BY <1>2, <2>2 DEF XIPlanOK
  <2>4. XIPlanned(changed)
    <3>1. \A k \in DOMAIN changed : k = item \/ changed[k].to = k[2]
      BY <1>1, <2>2
    <3>2. changed[item].to = item[2] \/ (changed[item].to = XINewName /\ item[1] \in {"inbound", "client"})
      BY <1>2, <2>2
    <3> QED BY <3>1, <3>2 DEF XIPlanned
  <2>5. xiPlan' = [upload |-> xiPlan'.upload, items |-> xiPlan'.items, reviewed |-> xiPlan'.reviewed]
    BY <1>2
  <2> QED BY <2>1, <2>2, <2>3, <2>4, <2>5 DEF XIPlanOK
<1>3. PICK item \in DOMAIN items :
        \/ \E action \in {"create", "merge", "replace", "skip"} \ {items[item].action} :
             xiPlan' = [xiPlan EXCEPT !.items[item].action = action, !.reviewed = TRUE]
        \/ /\ item[1] \in {"inbound", "client"}
           /\ xiPlan' = [xiPlan EXCEPT !.items[item].to = XINewName, !.reviewed = TRUE]
  BY DEF XIReview
<1>4. /\ xiPlan = [upload |-> xiPlan.upload, items |-> items, reviewed |-> xiPlan.reviewed]
      /\ items[item] = [action |-> items[item].action, to |-> items[item].to]
  BY DEF XIPlanOK
<1>5. CASE \E action \in {"create", "merge", "replace", "skip"} \ {items[item].action} :
             xiPlan' = [xiPlan EXCEPT !.items[item].action = action, !.reviewed = TRUE]
  <2>1. PICK action : xiPlan' = [xiPlan EXCEPT !.items[item].action = action, !.reviewed = TRUE]
    BY <1>5
  <2> DEFINE new == [action |-> action, to |-> items[item].to]
  <2>2. [items[item] EXCEPT !.action = action] = new
    BY <1>4
  <2>3. xiPlan' = [upload |-> xiPlan.upload, items |-> [items EXCEPT ![item] = new], reviewed |-> TRUE]
    BY <1>4, <2>1, <2>2
  <2>4. new.to = item[2] /\ new = [action |-> new.action, to |-> new.to]
    BY <1>1
  <2> HIDE DEF new
  <2> QED BY <1>2, <2>3, <2>4
<1>6. CASE /\ item[1] \in {"inbound", "client"}
           /\ xiPlan' = [xiPlan EXCEPT !.items[item].to = XINewName, !.reviewed = TRUE]
  <2> DEFINE new == [action |-> items[item].action, to |-> XINewName]
  <2>1. [items[item] EXCEPT !.to = XINewName] = new
    BY <1>4
  <2>2. xiPlan' = [upload |-> xiPlan.upload, items |-> [items EXCEPT ![item] = new], reviewed |-> TRUE]
    BY <1>4, <1>6, <2>1
  <2>3. new.to = XINewName /\ new = [action |-> new.action, to |-> new.to]
    OBVIOUS
  <2> HIDE DEF new
  <2> QED BY <1>2, <1>6, <2>2, <2>3
<1> QED BY <1>3, <1>5, <1>6

LEMMA XIOneShotIsPlanned ==
    ASSUME NEW db, NEW upload, NEW strategy
    PROVE  XIPlanned(XIOneShotItems(db, upload, strategy))
<1>1. \A k \in DOMAIN XIOneShotItems(db, upload, strategy) : XIOneShotItems(db, upload, strategy)[k].to = k[2]
  BY DEF XIOneShotItems
<1> QED BY <1>1, XIPlainIsPlanned

\* A save of the panel leaves a database of the panel.
LEMMA XISaveIsSound ==
    ASSUME XIDbOK(xiDb), XISave
    PROVE  XIDbOK(xiDb')
<1>1. xiDb = [tls |-> xiDb.tls, lastTls |-> xiDb.lastTls, inbounds |-> xiDb.inbounds, lastInbound |-> xiDb.lastInbound,
              endpoints |-> xiDb.endpoints, clients |-> xiDb.clients, lastClient |-> xiDb.lastClient, settings |-> xiDb.settings,
              admins |-> xiDb.admins, outbounds |-> xiDb.outbounds, rules |-> xiDb.rules]
  BY DEF XIDbOK
<1>2. ASSUME NEW row, row.tag = "B", \A r \in xiDb.inbounds : r.tag # "B",
             xiDb' = [xiDb EXCEPT !.inbounds = @ \cup {row}, !.lastInbound = @ + 1]
      PROVE  XIDbOK(xiDb')
  <2>1. xiDb' = [tls |-> xiDb.tls, lastTls |-> xiDb.lastTls, inbounds |-> xiDb.inbounds \cup {row},
                 lastInbound |-> xiDb.lastInbound + 1,
                 endpoints |-> xiDb.endpoints, clients |-> xiDb.clients, lastClient |-> xiDb.lastClient, settings |-> xiDb.settings,
                 admins |-> xiDb.admins, outbounds |-> xiDb.outbounds, rules |-> xiDb.rules]
    BY <1>1, <1>2
  <2>2. \A i, j \in xiDb.inbounds \cup {row} : i.tag = j.tag => i = j
    BY <1>2 DEF XIDbOK
  <2> QED BY <2>1, <2>2 DEF XIDbOK
<1>3. ASSUME NEW r \in xiDb.inbounds,
             xiDb' = [xiDb EXCEPT !.inbounds = @ \ {r}, !.clients = {[c EXCEPT !.ids = @ \ {r.id}] : c \in @}]
      PROVE  XIDbOK(xiDb')
  <2> DEFINE less(c) == [id |-> c.id, name |-> c.name, ids |-> c.ids \ {r.id}, secret |-> c.secret, from |-> c.from]
             clients == {less(c) : c \in xiDb.clients}
             without(c) == [c EXCEPT !.ids = @ \ {r.id}]
  <2>1. ASSUME NEW c \in xiDb.clients PROVE without(c) = less(c)
    <3>1. c = [id |-> c.id, name |-> c.name, ids |-> c.ids, secret |-> c.secret, from |-> c.from]
      BY DEF XIDbOK
    <3> QED BY <3>1
  <2>2. {without(c) : c \in xiDb.clients} = clients
    <3> HIDE DEF without, less
    <3> QED BY <2>1
  <2>3. xiDb' = [tls |-> xiDb.tls, lastTls |-> xiDb.lastTls, inbounds |-> xiDb.inbounds \ {r},
                 lastInbound |-> xiDb.lastInbound,
                 endpoints |-> xiDb.endpoints, clients |-> clients, lastClient |-> xiDb.lastClient, settings |-> xiDb.settings,
                 admins |-> xiDb.admins, outbounds |-> xiDb.outbounds, rules |-> xiDb.rules]
    BY <1>1, <1>3, <2>2
  <2>4. \A c : less(c).id = c.id /\ less(c) = [id |-> less(c).id, name |-> less(c).name, ids |-> less(c).ids,
                                                secret |-> less(c).secret, from |-> less(c).from]
    OBVIOUS
  <2> HIDE DEF less
  <2>5. /\ \A c, d \in clients : c.id = d.id => c = d
        /\ \A c \in clients : c.id \in 1..xiDb.lastClient
        /\ \A c \in clients : c = [id |-> c.id, name |-> c.name, ids |-> c.ids, secret |-> c.secret, from |-> c.from]
    BY <2>4 DEF XIDbOK
  <2> HIDE DEF clients
  <2> QED BY <2>3, <2>5 DEF XIDbOK
<1>4. CASE \E r \in xiDb.inbounds :
             /\ r.tag = "A"
             /\ xiDb' = [xiDb EXCEPT !.inbounds = @ \ {r}, !.clients = {[c EXCEPT !.ids = @ \ {r.id}] : c \in @}]
  BY <1>3, <1>4
<1>5. CASE /\ \A r \in xiDb.inbounds : r.tag # "B"
           /\ xiDb' = [xiDb EXCEPT !.inbounds = @ \cup {[id |-> xiDb.lastInbound + 1, tag |-> "B", tls |-> 0, from |-> "own"]},
                                   !.lastInbound = @ + 1]
  <2> DEFINE row == [id |-> xiDb.lastInbound + 1, tag |-> "B", tls |-> 0, from |-> "own"]
  <2>1. row.tag = "B" /\ xiDb' = [xiDb EXCEPT !.inbounds = @ \cup {row}, !.lastInbound = @ + 1]
    BY <1>5
  <2> HIDE DEF row
  <2> QED BY <1>2, <1>5, <2>1
<1> QED BY <1>4, <1>5 DEF XISave

\* What a commit applies is a plan, to a database of the panel.
LEMMA XICommitIsSound ==
    ASSUME XIInv, NEW i \in Importing, XICommit(i)
    PROVE  /\ XIDbOK(xiDb) /\ XIPlanned(XIItems(i)) /\ XIUploadOK(XIUploads[xiPc[i].upload])
           /\ XIResult(i).ok /\ xiDb' = XIResult(i).db /\ XIDbOK(xiDb')
<1>1. XIUploadOK(XIUploads[xiPc[i].upload])
  BY XuiImportAssumption DEF XIInv, XIRequestOK, XICommit
<1>2. XIPlanned(XIItems(i))
  <2>1. CASE i \in Applying
    BY <2>1 DEF XIInv, XIRequestOK, XIItems
  <2>2. CASE i \notin Applying
    BY <2>2, XIOneShotIsPlanned DEF XIItems
  <2> QED BY <2>1, <2>2
<1>3. XIDbOK(xiDb) /\ XIResult(i).ok /\ xiDb' = XIResult(i).db
  BY DEF XIInv, XICommit
<1>4. XIDbOK(XIResult(i).db)
  BY <1>1, <1>2, <1>3, XITransactionSound DEF XIResult
<1> QED BY <1>1, <1>2, <1>3, <1>4
\* The fields of a request.
LEMMA XIRequestFields ==
    ASSUME NEW p, p = [at |-> p.at, upload |-> p.upload, strategy |-> p.strategy, items |-> p.items, backup |-> p.backup],
           NEW at, NEW kept
    PROVE  /\ [p EXCEPT !.at = at]
                = [at |-> at, upload |-> p.upload, strategy |-> p.strategy, items |-> p.items, backup |-> p.backup]
           /\ [p EXCEPT !.at = at, !.backup = kept]
                = [at |-> at, upload |-> p.upload, strategy |-> p.strategy, items |-> p.items, backup |-> kept]
<1> DEFINE Request(a, b) == [at |-> a, upload |-> p.upload, strategy |-> p.strategy, items |-> p.items, backup |-> b]
           one == [p EXCEPT !.at = at]
<1>1. \A a, b : /\ [Request(a, b) EXCEPT !.at = at] = Request(at, b)
                /\ [Request(a, b) EXCEPT !.backup = kept] = Request(a, kept)
  OBVIOUS
<1>2. p = Request(p.at, p.backup)
  OBVIOUS
<1> HIDE DEF Request
<1>3. one = Request(at, p.backup)
  BY <1>1, <1>2
<1>4. [p EXCEPT !.at = at, !.backup = kept] = [one EXCEPT !.backup = kept]
  OBVIOUS
<1> HIDE DEF one
<1>5. [one EXCEPT !.backup = kept] = Request(at, kept)
  BY <1>1, <1>3
<1> QED BY <1>3, <1>4, <1>5 DEF Request, one

\* One request moves, and is well formed where it goes.
LEMMA XIRequestMoves ==
    ASSUME XIInv, NEW i \in Importing, NEW q, XIRequestOK(q),
           xiPc' = [xiPc EXCEPT ![i] = q]
    PROVE  xiPc' = [j \in Importing |-> xiPc'[j]] /\ \A j \in Importing : XIRequestOK(xiPc'[j])
<1>1. /\ DOMAIN xiPc' = Importing /\ xiPc' = [j \in Importing |-> xiPc'[j]]
      /\ \A j \in Importing : xiPc'[j] = IF j = i THEN q ELSE xiPc[j]
  BY DEF XIInv
<1> QED BY <1>1 DEF XIInv

LEMMA XIStartsWell == XIInit => XIInv
<1> SUFFICES ASSUME XIInit PROVE XIInv
  OBVIOUS
<1>1. XIDbOK(xiDb)
  BY XuiImportAssumption DEF XIInit
<1>2. xiPc = [i \in Importing |-> XIIdle] /\ xiPlan = XINoPlan
  BY DEF XIInit
<1> QED BY <1>1, <1>2, XIIdleIsOK DEF XIInv

LEMMA XIStepsWell == XIInv /\ [XINext]_xiVars => XIInv'
<1> SUFFICES ASSUME XIInv, [XINext]_xiVars PROVE XIInv'
  OBVIOUS
<1>0. XIDbOK(xiDb) /\ (xiPlan # XINoPlan => XIPlanOK(xiPlan)) /\ \A i \in Importing : XIRequestOK(xiPc[i])
  BY DEF XIInv
<1>1. ASSUME NEW name \in DOMAIN XIUploads, NEW strategy, XIMakePlan(name, strategy) PROVE XIInv'
  <2>1. XIPlanOK(xiPlan')
    BY <1>1, XIMadePlanIsOK DEF XIMakePlan
  <2>2. xiDb' = xiDb /\ xiPc' = xiPc
    BY <1>1 DEF XIMakePlan
  <2> QED BY <2>1, <2>2 DEF XIInv
<1>2. ASSUME XIReview PROVE XIInv'
  <2>1. xiPlan # XINoPlan /\ xiDb' = xiDb /\ xiPc' = xiPc
    BY <1>2 DEF XIReview
  <2>2. XIPlanOK(xiPlan')
    BY <1>0, <1>2, <2>1, XIReviewedPlanIsOK
  <2> QED BY <2>1, <2>2 DEF XIInv
<1>3. ASSUME NEW i \in Applying, NEW name \in DOMAIN XIUploads, XIApply(i, name) PROVE XIInv'
  <2>1. i \in Importing /\ xiPlan # XINoPlan /\ xiDb' = xiDb /\ xiPlan' = XINoPlan
    BY <1>3 DEF XIApply, Importing
  <2>2. CASE name # xiPlan.upload
    <3>1. xiPc' = xiPc
      BY <1>3, <2>2 DEF XIApply
    <3> QED BY <2>1, <3>1 DEF XIInv
  <2>3. CASE name = xiPlan.upload
    <3> DEFINE q == [at |-> "running", upload |-> name, strategy |-> "none", items |-> xiPlan.items, backup |-> {xiDb}]
    <3>1. XIRequestOK(q)
      BY <1>0, <2>1 DEF XIRequestOK, XIPlanOK
    <3>2. xiPc' = [xiPc EXCEPT ![i] = q]
      BY <1>3, <2>3 DEF XIApply
    <3> HIDE DEF q
    <3>3. xiPc' = [j \in Importing |-> xiPc'[j]] /\ \A j \in Importing : XIRequestOK(xiPc'[j])
      BY <2>1, <3>1, <3>2, XIRequestMoves
    <3> QED BY <1>0, <2>1, <3>3 DEF XIInv
  <2> QED BY <2>2, <2>3
<1>4. ASSUME NEW i \in Shooting, XIOneShot(i) PROVE XIInv'
  <2> DEFINE q == [XIIdle EXCEPT !.at = "backedup", !.backup = {xiDb}]
  <2>1. XIRequestOK(q)
    <3> DEFINE p == XIIdle
    <3>1. p = [at |-> p.at, upload |-> p.upload, strategy |-> p.strategy, items |-> p.items, backup |-> p.backup]
          /\ XIPlanned(p.items)
      BY XIIdleIsOK DEF XIRequestOK
    <3>2. q = [at |-> "backedup", upload |-> p.upload, strategy |-> p.strategy, items |-> p.items, backup |-> {xiDb}]
      BY <3>1, XIRequestFields
    <3> QED BY <1>0, <3>1, <3>2 DEF XIRequestOK
  <2>2. xiPc' = [xiPc EXCEPT ![i] = q] /\ i \in Importing /\ xiDb' = xiDb /\ xiPlan' = xiPlan
    BY <1>4 DEF XIOneShot, Importing
  <2> HIDE DEF q
  <2>3. xiPc' = [j \in Importing |-> xiPc'[j]] /\ \A j \in Importing : XIRequestOK(xiPc'[j])
    BY <2>1, <2>2, XIRequestMoves
  <2> QED BY <1>0, <2>2, <2>3 DEF XIInv
<1>5. ASSUME NEW i \in Shooting, XIOneShotLock(i) PROVE XIInv'
  <2>1. i \in Importing /\ xiDb' = xiDb /\ xiPlan' = xiPlan
    BY <1>5 DEF XIOneShotLock, Importing
  <2>2. \E q : XIRequestOK(q) /\ xiPc' = [xiPc EXCEPT ![i] = q]
    <3>1. CASE xiPc' = [xiPc EXCEPT ![i] = XIIdle]
      BY <3>1, XIIdleIsOK
    <3>2. CASE \E name \in DOMAIN XIUploads, strategy \in {"merge", "replace", "skip"} :
                 xiPc' = [xiPc EXCEPT ![i].at = "running", ![i].upload = name, ![i].strategy = strategy]
      <4>1. PICK name \in DOMAIN XIUploads, strategy \in {"merge", "replace", "skip"} :
                 xiPc' = [xiPc EXCEPT ![i].at = "running", ![i].upload = name, ![i].strategy = strategy]
        BY <3>2
      <4> DEFINE p == xiPc[i]
                 q == [at |-> "running", upload |-> name, strategy |-> strategy, items |-> p.items, backup |-> p.backup]
      <4>2. XIRequestOK(p)
        BY <1>0, <2>1
      <4>3. xiPc' = [xiPc EXCEPT ![i] = [[[p EXCEPT !.at = "running"] EXCEPT !.upload = name] EXCEPT !.strategy = strategy]]
        BY <2>1, <4>1 DEF XIInv
      <4>4. [[[p EXCEPT !.at = "running"] EXCEPT !.upload = name] EXCEPT !.strategy = strategy] = q
        <5>1. p = [at |-> p.at, upload |-> p.upload, strategy |-> p.strategy, items |-> p.items, backup |-> p.backup]
          BY <4>2 DEF XIRequestOK
        <5> DEFINE one == [p EXCEPT !.at = "running"]
                   two == [one EXCEPT !.upload = name]
        <5>2. one = [at |-> "running", upload |-> p.upload, strategy |-> p.strategy, items |-> p.items, backup |-> p.backup]
          BY <5>1
        <5> HIDE DEF p, one
        <5>3. two = [at |-> "running", upload |-> name, strategy |-> p.strategy, items |-> p.items, backup |-> p.backup]
          BY <5>2
        <5> HIDE DEF two
        <5>4. [two EXCEPT !.strategy = strategy] = q
          BY <5>3
        <5> QED BY <5>4 DEF one, two
      <4>5. XIRequestOK(q)
        BY <4>2 DEF XIRequestOK
      <4> QED BY <4>3, <4>4, <4>5
    <3> QED BY <1>5, <3>1, <3>2 DEF XIOneShotLock
  <2>3. xiPc' = [j \in Importing |-> xiPc'[j]] /\ \A j \in Importing : XIRequestOK(xiPc'[j])
    BY <2>1, <2>2, XIRequestMoves
  <2> QED BY <1>0, <2>1, <2>3 DEF XIInv
<1>6. ASSUME NEW i \in Importing, XICommit(i) PROVE XIInv'
  <2> DEFINE p == xiPc[i]
             q == [at |-> "committed", upload |-> p.upload, strategy |-> p.strategy, items |-> p.items, backup |-> p.backup]
  <2>1. XIDbOK(xiDb')
    BY <1>6, XICommitIsSound
  <2>2. XIRequestOK(p)
    BY <1>0
  <2>3. [p EXCEPT !.at = "committed"] = q
    BY <2>2 DEF XIRequestOK
  <2>4. xiPc' = [xiPc EXCEPT ![i] = [p EXCEPT !.at = "committed"]] /\ xiPlan' = xiPlan
    BY <1>6 DEF XICommit
  <2>5. XIRequestOK(q)
    BY <2>2 DEF XIRequestOK
  <2>6. xiPc' = [xiPc EXCEPT ![i] = q]
    BY <2>3, <2>4
  <2> HIDE DEF q
  <2>7. xiPc' = [j \in Importing |-> xiPc'[j]] /\ \A j \in Importing : XIRequestOK(xiPc'[j])
    BY <2>5, <2>6, XIRequestMoves
  <2> QED BY <1>0, <2>1, <2>4, <2>7 DEF XIInv
<1>7. ASSUME NEW i \in Importing, XIFail(i) PROVE XIInv'
  <2>1. xiPc' = [xiPc EXCEPT ![i] = XIIdle] /\ xiDb' = xiDb /\ xiPlan' = xiPlan
    BY <1>7 DEF XIFail
  <2>2. xiPc' = [j \in Importing |-> xiPc'[j]] /\ \A j \in Importing : XIRequestOK(xiPc'[j])
    BY <2>1, XIIdleIsOK, XIRequestMoves
  <2> QED BY <1>0, <2>1, <2>2 DEF XIInv
<1>8. ASSUME NEW i \in Importing, XIRollback(i) PROVE XIInv'
  <2>1. xiPc' = [xiPc EXCEPT ![i] = XIIdle] /\ xiDb' \in xiPc[i].backup /\ xiPlan' = xiPlan
    BY <1>8 DEF XIRollback
  <2>2. XIDbOK(xiDb')
    BY <1>0, <2>1 DEF XIRequestOK
  <2>3. xiPc' = [j \in Importing |-> xiPc'[j]] /\ \A j \in Importing : XIRequestOK(xiPc'[j])
    BY <2>1, XIIdleIsOK, XIRequestMoves
  <2> QED BY <1>0, <2>1, <2>2, <2>3 DEF XIInv
<1>9. ASSUME XISave PROVE XIInv'
  <2>1. XIDbOK(xiDb') /\ xiPc' = xiPc /\ xiPlan' = xiPlan
    BY <1>0, <1>9, XISaveIsSound DEF XISave
  <2> QED BY <2>1 DEF XIInv
<1>10. ASSUME UNCHANGED xiVars PROVE XIInv'
  BY <1>10 DEF XIInv, xiVars
<1> QED BY <1>1, <1>2, <1>3, <1>4, <1>5, <1>6, <1>7, <1>8, <1>9, <1>10 DEF XINext

\* Only a commit commits.
LEMMA XIOnlyCommits ==
    ASSUME XIInv, [XINext]_xiVars, NEW i \in Importing, XICommits(i)
    PROVE  XICommit(i)
<1>0. /\ DOMAIN xiPc = Importing /\ xiPc[i].at = "running" /\ xiPc'[i].at = "committed"
      /\ \A j \in Importing : XIRequestOK(xiPc[j])
  BY DEF XIInv, XICommits
<1>1. xiPc' # xiPc
  BY <1>0
<1>2. \A j \in Importing : \A q : xiPc' = [xiPc EXCEPT ![j] = q] => xiPc'[i] = IF i = j THEN q ELSE xiPc[i]
  BY <1>0
<1>3. ASSUME NEW j \in Importing, j # i, NEW q, xiPc' = [xiPc EXCEPT ![j] = q] PROVE FALSE
  BY <1>0, <1>2, <1>3
<1>4. ASSUME NEW j \in Applying, NEW name, XIApply(j, name) PROVE FALSE
  <2>1. j \in Importing /\ j # i
    BY <1>0, <1>4 DEF XIApply, Importing
  <2> QED BY <1>1, <1>3, <1>4, <2>1 DEF XIApply
<1>5. ASSUME NEW j \in Shooting, XIOneShot(j) PROVE FALSE
  <2>1. j \in Importing /\ j # i
    BY <1>0, <1>5 DEF XIOneShot, Importing
  <2> QED BY <1>3, <1>5, <2>1 DEF XIOneShot
<1>6. ASSUME NEW j \in Shooting, XIOneShotLock(j) PROVE FALSE
  <2>1. j \in Importing /\ j # i
    BY <1>0, <1>6 DEF XIOneShotLock, Importing
  <2>2. xiPc'[i] = xiPc[i]
    BY <1>0, <1>6, <2>1 DEF XIOneShotLock
  <2> QED BY <1>0, <2>2
<1>7. ASSUME NEW j \in Importing, XICommit(j) PROVE XICommit(i)
  <2>1. j = i
    BY <1>3, <1>7 DEF XICommit
  <2> QED BY <1>7, <2>1
<1>8. ASSUME NEW j \in Importing, XIFail(j) \/ XIRollback(j) PROVE FALSE
  <2>1. xiPc' = [xiPc EXCEPT ![j] = XIIdle]
    BY <1>8 DEF XIFail, XIRollback
  <2>2. xiPc'[i] = IF i = j THEN XIIdle ELSE xiPc[i]
    BY <1>2, <2>1
  <2> QED BY <1>0, <2>2, XIIdleIsOK
<1>9. ASSUME XIReview \/ XISave \/ (\E name \in DOMAIN XIUploads, strategy \in {"merge", "replace", "skip"} :
                                      XIMakePlan(name, strategy))
      PROVE  FALSE
  BY <1>1, <1>9 DEF XIReview, XISave, XIMakePlan
<1>10. xiPc' = xiPc \/ XINext
  BY DEF xiVars
<1> QED BY <1>1, <1>4, <1>5, <1>6, <1>7, <1>8, <1>9, <1>10 DEF XINext

\* A step of the import keeps, brings and repeats.
LEMMA XIStepIsFaithful ==
    ASSUME XIInv, [XINext]_xiVars, NEW i \in Importing, XICommits(i)
    PROVE  /\ XIKept(xiDb, XIItems(i), xiDb')
           /\ XIArrived(XIUploads[xiPc[i].upload], XIItems(i), xiDb')
           /\ XIRepeats(XIUploads[xiPc[i].upload], XIItems(i), xiDb')
<1> DEFINE upload == XIUploads[xiPc[i].upload]
<1>1. /\ XIDbOK(xiDb) /\ XIPlanned(XIItems(i)) /\ XIUploadOK(upload)
      /\ XIResult(i).ok /\ xiDb' = XIResult(i).db
  BY XIOnlyCommits, XICommitIsSound
<1>2. XITransaction(xiDb, upload, XIItems(i)).ok /\ xiDb' = XITransaction(xiDb, upload, XIItems(i)).db
  BY <1>1 DEF XIResult
<1> HIDE DEF upload
<1>3. XIKept(xiDb, XIItems(i), xiDb')
  BY <1>1, <1>2, XITransactionKeeps
<1>4. XIArrived(upload, XIItems(i), xiDb')
  BY <1>1, <1>2, XITransactionBrings
<1>5. XIRepeats(upload, XIItems(i), xiDb')
  BY <1>1, <1>2, XITransactionRepeats
<1> QED BY <1>3, <1>4, <1>5 DEF upload

\* An import of a 3x-ui database (importxui.Apply) keeps what the operator had
\* and did not ask to replace, brings every inbound that was taken with its
\* certificate and its clients, and repeated with merge changes nothing.
THEOREM ImportIsFaithful == XISpec => XIImportIsFaithful
<1>1. XIInv /\ [XINext]_xiVars =>
        [\A i \in Importing : XICommits(i) =>
           LET upload == XIUploads[xiPc[i].upload]
           IN /\ XIKept(xiDb, XIItems(i), xiDb') /\ XIArrived(upload, XIItems(i), xiDb')
              /\ XIRepeats(upload, XIItems(i), xiDb')]_xiVars
  BY XIStepIsFaithful
<1> QED BY <1>1, XIStartsWell, XIStepsWell, PTL DEF XISpec, XIImportIsFaithful

-----------------------------------------------------------------------------
(* The composition.  One part moves at a time and the others stutter.      *)

\* The stored data are safe in the composition: the binary and its backup, the
\* release the check finds, the migrated database, the references between rows and
\* what an import of a 3x-ui database keeps and brings; and, where imports come one
\* at a time, the database and its fallback.
THEOREM StoredDataIsSafe ==
  DataFairSpec => /\ []UpdatesAreSound /\ []MGUpgradeIsSafe
                  /\ TRReferencesHold /\ XIImportIsFaithful
                  /\ (DIOneAtATime => DIDataSurvives)
<1>1. DataInit => MGInit /\ DIInit /\ TRInit /\ XIInit
  BY DEF DataInit
<1>2. [DataNext]_dataVars => [MGNext]_mgVars /\ [DINext]_diVars /\ [TRNext]_trVars /\ [XINext]_xiVars
  BY DEF DataNext, dataVars
<1>3. DataFairSpec => MGSpec /\ DISpec /\ TRSpec /\ XISpec
  BY <1>1, <1>2, PTL DEF DataFairSpec, MGSpec, DISpec, TRSpec, XISpec
<1>4. DIOneAtATime => (DISpec => DIDataSurvives)
  BY DataSurvives
<1> QED BY <1>3, <1>4, UpdatesStaySound, UpgradesAreSafe, ReferencesHold, ImportIsFaithful, PTL

\* Where the addresses of an inbound override the server name alike, the share
\* link, the JSON subscription and the Clash subscription agree about every
\* inbound (LinkGenerator, GetOutbound, FillOutJson, ConvertToClashMeta).
THEOREM RepresentationsStayAligned ==
    ASSUME \A addrs \in Overrides : AddressesAlike(addrs)
    PROVE  DataFairSpec => []RepresentationsAgree
<1> DEFINE Shared == sharedInbound = <<>> \/ \E i \in Inbounds : sharedInbound = <<i>>
<1>1. DataInit => Shared
  BY DEF DataInit
<1>2. Shared /\ [DataNext]_dataVars => Shared'
  BY DEF DataNext, dataVars, functionVars, Evaluate
<1>3. Shared => RepresentationsAgree
  <2>1. ASSUME NEW i \in Inbounds, sharedInbound = <<i>>
        PROVE  LinkMatchesJson(sharedInbound[1]) /\ ClashMatches(sharedInbound[1])
    <3>1. sharedInbound[1] = i
      BY <2>1
    <3> QED BY <3>1, LinkInboundsAreAny, AnyInboundIsRepresented
  <2> QED BY <2>1 DEF RepresentationsAgree
<1> QED BY <1>1, <1>2, <1>3, PTL DEF DataFairSpec
=============================================================================
