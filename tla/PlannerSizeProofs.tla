-------------------------- MODULE PlannerSizeProofs --------------------------
(* Theorems about Planner and their proofs: what a disc is said to hold,   *)
(* and what a ratio is estimated from.                                     *)
EXTENDS PlannerProofs

-----------------------------------------------------------------------------
(* Sums of sizes.  MapThenSumSet takes the files in an order of its own;   *)
(* Iter is the recursive function behind it.                               *)

Pick(s) == CHOOSE x \in s : TRUE
IsIter(t, S, g) == g = [s \in SUBSET S |-> IF s = {} THEN 0 ELSE t[Pick(s)].size + g[s \ {Pick(s)}]]
Iter(t, S) == CHOOSE g : IsIter(t, S, g)

LEMMA BytesIsIteration ==
  ASSUME NEW t, NEW S
  PROVE  Bytes(t, S) = Iter(t, S)[S]
  BY DEF Bytes, MapThenSumSet, MapThenFoldSet, Iter, IsIter, Pick

SizesIn(t, S) == \A p \in S : t[p].size \in Nat

LEMMA IterStep ==
  ASSUME NEW t, NEW S, NEW g, IsIter(t, S, g), NEW s \in SUBSET S
  PROVE  g[s] = IF s = {} THEN 0 ELSE t[Pick(s)].size + g[s \ {Pick(s)}]
  BY DEF IsIter

LEMMA PickIn ==
  ASSUME NEW s, s # {}
  PROVE  Pick(s) \in s
  BY DEF Pick

\* Two iterations agree on the sets both are of.
LEMMA ItersAgree ==
  ASSUME NEW t, NEW S, IsFiniteSet(S), NEW R \in SUBSET S, NEW g, NEW h,
         IsIter(t, S, g), IsIter(t, R, h)
  PROVE  \A s \in SUBSET R : g[s] = h[s]
<1> DEFINE Bad == {s \in SUBSET R : g[s] # h[s]}
<1> SUFFICES ASSUME Bad # {} PROVE FALSE
  OBVIOUS
<1>1. PICK m \in Bad : \A y \in Bad : y \subseteq m => y = m
  <2>1. Bad \subseteq SUBSET S
    OBVIOUS
  <2> HIDE DEF Bad
  <2> QED
    BY <2>1, SmallestSet
<1>2. m \in SUBSET R /\ m \in SUBSET S /\ g[m] # h[m]
  OBVIOUS
<1>3. /\ g[m] = IF m = {} THEN 0 ELSE t[Pick(m)].size + g[m \ {Pick(m)}]
      /\ h[m] = IF m = {} THEN 0 ELSE t[Pick(m)].size + h[m \ {Pick(m)}]
  BY <1>2, IterStep
<1>4. m # {} /\ g[m \ {Pick(m)}] # h[m \ {Pick(m)}]
  BY <1>2, <1>3
<1>5. m \ {Pick(m)} \in Bad /\ m \ {Pick(m)} # m
  BY <1>2, <1>4, PickIn
<1> QED
  BY <1>1, <1>5

LEMMA ItersExist ==
  ASSUME NEW t, NEW S, IsFiniteSet(S)
  PROVE  \A R \in SUBSET S : IsIter(t, R, Iter(t, R))
<1> DEFINE Bad == {s \in SUBSET S : ~IsIter(t, s, Iter(t, s))}
<1> SUFFICES ASSUME Bad # {} PROVE FALSE
  OBVIOUS
<1>1. PICK m \in Bad : \A y \in Bad : y \subseteq m => y = m
  <2>1. Bad \subseteq SUBSET S
    OBVIOUS
  <2> HIDE DEF Bad
  <2> QED
    BY <2>1, SmallestSet
<1>2. m \in SUBSET S /\ IsFiniteSet(m)
  BY FS_Subset
<1>3. \A s \in SUBSET m : s # m => IsIter(t, s, Iter(t, s)) /\ IsFiniteSet(s)
  <2> TAKE s \in SUBSET m
  <2>1. s \in SUBSET S
    BY <1>2
  <2> QED
    BY <1>1, <1>2, <2>1, FS_Subset
<1> DEFINE Less(s) == s \ {Pick(s)}
           g == [s \in SUBSET m |-> IF s = {} THEN 0 ELSE t[Pick(s)].size + Iter(t, Less(s))[Less(s)]]
<1>4. ASSUME NEW s \in SUBSET m, s # {}
      PROVE  g[Less(s)] = Iter(t, Less(s))[Less(s)]
  <2>1. Less(s) \in SUBSET m /\ Less(s) # m
    BY <1>4, PickIn
  <2> DEFINE q == Less(s)
  <2> HIDE DEF Less
  <2>2. IsIter(t, q, Iter(t, q)) /\ IsFiniteSet(q)
    BY <1>3, <2>1
  <2>3. Iter(t, q)[q] = IF q = {} THEN 0 ELSE t[Pick(q)].size + Iter(t, q)[q \ {Pick(q)}]
    <3>1. q \in SUBSET q
      OBVIOUS
    <3> HIDE DEF q
    <3> QED
      BY <2>2, <3>1, IterStep
  <2>4. g[q] = IF q = {} THEN 0 ELSE t[Pick(q)].size + Iter(t, Less(q))[Less(q)]
    BY <2>1
  <2>5. CASE q = {}
    BY <2>3, <2>4, <2>5
  <2>6. CASE q # {}
    <3>1. Less(q) \in SUBSET q /\ Less(q) \in SUBSET m /\ Less(q) # m
      BY <2>1, <2>6, PickIn DEF Less
    <3>2. IsIter(t, Less(q), Iter(t, Less(q)))
      BY <1>3, <3>1
    <3>3. Iter(t, q)[Less(q)] = Iter(t, Less(q))[Less(q)]
      <4> HIDE DEF q
      <4> QED
        BY <2>2, <3>1, <3>2, ItersAgree
    <3>4. Less(q) = q \ {Pick(q)}
      BY DEF Less
    <3> QED
      BY <2>3, <2>4, <2>6, <3>3, <3>4
  <2> QED
    BY <2>5, <2>6
<1>5. IsIter(t, m, g)
  <2>1. \A s \in SUBSET m : (IF s = {} THEN 0 ELSE t[Pick(s)].size + Iter(t, Less(s))[Less(s)])
                           = (IF s = {} THEN 0 ELSE t[Pick(s)].size + g[Less(s)])
    <3> HIDE DEF g, Less
    <3> QED
      BY <1>4
  <2>2. g = [s \in SUBSET m |-> IF s = {} THEN 0 ELSE t[Pick(s)].size + g[Less(s)]]
    BY <2>1
  <2> HIDE DEF g
  <2> QED
    BY <2>2 DEF IsIter
<1>6. IsIter(t, m, Iter(t, m))
  <2> HIDE DEF g
  <2> QED
    BY <1>5 DEF Iter
<1> QED
  BY <1>1, <1>6

\* What the sum of a set is made of.
LEMMA BytesStep ==
  ASSUME NEW t, NEW s, IsFiniteSet(s)
  PROVE  Bytes(t, s) = IF s = {} THEN 0 ELSE t[Pick(s)].size + Bytes(t, s \ {Pick(s)})
<1> DEFINE r == s \ {Pick(s)}
<1>1. r \in SUBSET s /\ s \in SUBSET s
  OBVIOUS
<1>2. IsIter(t, s, Iter(t, s)) /\ IsIter(t, r, Iter(t, r))
  BY <1>1, ItersExist
<1>3. Iter(t, s)[r] = Iter(t, r)[r]
  <2> HIDE DEF r
  <2> QED
    BY <1>1, <1>2, ItersAgree
<1>4. Iter(t, s)[s] = IF s = {} THEN 0 ELSE t[Pick(s)].size + Iter(t, s)[r]
  BY <1>1, <1>2, IterStep
<1> QED
  BY <1>3, <1>4, BytesIsIteration

LEMMA BytesIsNat ==
  ASSUME NEW t, NEW S, IsFiniteSet(S), SizesIn(t, S)
  PROVE  Bytes(t, S) \in Nat
<1> DEFINE Bad == {s \in SUBSET S : Bytes(t, s) \notin Nat}
<1> SUFFICES ASSUME Bad # {} PROVE FALSE
  OBVIOUS
<1>1. PICK m \in Bad : \A y \in Bad : y \subseteq m => y = m
  <2>1. Bad \subseteq SUBSET S
    OBVIOUS
  <2> HIDE DEF Bad
  <2> QED
    BY <2>1, SmallestSet
<1>2. m \in SUBSET S /\ IsFiniteSet(m)
  BY FS_Subset
<1>3. Bytes(t, m) = IF m = {} THEN 0 ELSE t[Pick(m)].size + Bytes(t, m \ {Pick(m)})
  BY <1>2, BytesStep
<1>4. m # {}
  BY <1>1, <1>3
<1>5. Pick(m) \in m /\ t[Pick(m)].size \in Nat
  BY <1>2, <1>4, PickIn DEF SizesIn
<1>6. Bytes(t, m \ {Pick(m)}) \in Nat
  <2>1. m \ {Pick(m)} \notin Bad
    BY <1>1, <1>5
  <2> QED
    BY <1>2, <2>1
<1> QED
  BY <1>1, <1>3, <1>4, <1>5, <1>6

\* The order of the summation does not matter.
LEMMA BytesOfAny ==
  ASSUME NEW t, NEW S, IsFiniteSet(S), SizesIn(t, S)
  PROVE  \A s \in SUBSET S : \A p \in s : Bytes(t, s) = t[p].size + Bytes(t, s \ {p})
<1> DEFINE Bad == {s \in SUBSET S : \E p \in s : Bytes(t, s) # t[p].size + Bytes(t, s \ {p})}
<1> SUFFICES ASSUME Bad # {} PROVE FALSE
  OBVIOUS
<1>1. PICK m \in Bad : \A y \in Bad : y \subseteq m => y = m
  <2>1. Bad \subseteq SUBSET S
    OBVIOUS
  <2> HIDE DEF Bad
  <2> QED
    BY <2>1, SmallestSet
<1>2. m \in SUBSET S /\ IsFiniteSet(m)
  BY FS_Subset
<1>3. PICK p \in m : Bytes(t, m) # t[p].size + Bytes(t, m \ {p})
  OBVIOUS
<1> DEFINE x == Pick(m)
<1>4. x \in m /\ Bytes(t, m) = t[x].size + Bytes(t, m \ {x})
  BY <1>2, <1>3, PickIn, BytesStep
<1> HIDE DEF x
<1>5. p # x
  BY <1>3, <1>4
<1>6. ASSUME NEW y \in m
      PROVE  /\ \A q \in m \ {y} : Bytes(t, m \ {y}) = t[q].size + Bytes(t, (m \ {y}) \ {q})
  <2>1. m \ {y} \in SUBSET S /\ m \ {y} \notin Bad
    BY <1>1, <1>2
  <2> QED
    BY <2>1
<1>7. /\ Bytes(t, m \ {x}) = t[p].size + Bytes(t, (m \ {x}) \ {p})
      /\ Bytes(t, m \ {p}) = t[x].size + Bytes(t, (m \ {p}) \ {x})
  <2> HIDE DEF Bad
  <2> QED
    BY <1>4, <1>5, <1>6
<1>8. (m \ {x}) \ {p} = (m \ {p}) \ {x}
  OBVIOUS
<1>9. t[x].size \in Nat /\ t[p].size \in Nat /\ Bytes(t, (m \ {p}) \ {x}) \in Nat
  <2>1. (m \ {p}) \ {x} \in SUBSET S
    BY <1>2
  <2>2. IsFiniteSet((m \ {p}) \ {x}) /\ SizesIn(t, (m \ {p}) \ {x})
    BY <2>1, FS_Subset DEF SizesIn
  <2> QED
    BY <1>2, <1>4, <2>2, BytesIsNat DEF SizesIn
<1>10. Bytes(t, m) = t[x].size + (t[p].size + Bytes(t, (m \ {p}) \ {x}))
  BY <1>4, <1>7, <1>8
<1>11. t[p].size + Bytes(t, m \ {p}) = t[p].size + (t[x].size + Bytes(t, (m \ {p}) \ {x}))
  BY <1>7
<1>12. Bytes(t, m) = t[p].size + Bytes(t, m \ {p})
  <2> HIDE DEF Bad
  <2> QED
    BY <1>9, <1>10, <1>11
<1> QED
  BY <1>3, <1>12

LEMMA BytesOfNone ==
  ASSUME NEW t
  PROVE  Bytes(t, {}) = 0
  BY BytesStep, FS_EmptySet

LEMMA BytesOfOneMore ==
  ASSUME NEW t, NEW S, IsFiniteSet(S), SizesIn(t, S), NEW p, t[p].size \in Nat, p \notin S
  PROVE  Bytes(t, S \cup {p}) = Bytes(t, S) + t[p].size
<1> DEFINE R == S \cup {p}
<1>1. IsFiniteSet(R) /\ SizesIn(t, R) /\ R \in SUBSET R /\ p \in R /\ R \ {p} = S
  BY FS_AddElement DEF SizesIn
<1> HIDE DEF R
<1>2. Bytes(t, R) = t[p].size + Bytes(t, S)
  BY <1>1, BytesOfAny
<1>3. Bytes(t, S) \in Nat
  BY BytesIsNat
<1> QED
  BY <1>2, <1>3 DEF R

-----------------------------------------------------------------------------
(* Names of one file.                                                      *)

\* The first name of each file in a group.
LEMMA FirstName ==
  ASSUME NEW u \in SUBSET File, u # {}
  PROVE  \E p \in u : \A q \in u : p <= q
<1> DEFINE upTo(p) == {q \in u : q <= p}
           T == {upTo(p) : p \in u}
<1>1. u \subseteq Nat
  BY PlannerAssumption
<1>2. PICK m \in T : \A y \in T : y \subseteq m => y = m
  <2>1. T \subseteq SUBSET File /\ T # {}
    OBVIOUS
  <2> HIDE DEF T
  <2> QED
    BY <2>1, FilesAssumption, SmallestSet
<1>3. PICK p \in u : m = upTo(p)
  OBVIOUS
<1>4. ASSUME NEW q \in u, q < p
      PROVE  FALSE
  <2>1. upTo(q) \subseteq upTo(p)
    <3>1. \A r \in u : r <= q => r <= p
      BY <1>1, <1>4
    <3> QED
      BY <3>1
  <2>3. p \in upTo(p) /\ p \notin upTo(q)
    BY <1>1, <1>4
  <2>2. upTo(q) = upTo(p)
    <3>1. upTo(q) \in T
      OBVIOUS
    <3> HIDE DEF upTo, T
    <3> QED
      BY <1>2, <1>3, <2>1, <3>1
  <2> HIDE DEF upTo
  <2> QED
    BY <2>2, <2>3
<1> QED
  BY <1>1, <1>4

LEMMA SameFileSameData ==
  ASSUME TypeOK, NEW p \in File, NEW q \in File, SameFile(p, q)
  PROVE  /\ SameFile(q, p) /\ tree[q].size = tree[p].size
         /\ p # q => Linked(p, q)
<1>1. CASE p = q
  BY <1>1 DEF SameFile
<1>2. CASE p # q
  <2>1. /\ tree[p].nlink > 1 /\ tree[p].ino # 0
        /\ tree[p].dev = tree[q].dev /\ tree[p].ino = tree[q].ino
    BY <1>2 DEF SameFile
  <2>2. tree[q].nlink = tree[p].nlink /\ tree[q].size = tree[p].size
    BY <2>1, NamesAssumption DEF TypeOK
  <2> QED
    BY <1>2, <2>1, <2>2 DEF SameFile, Linked
<1> QED
  BY <1>1, <1>2

LEMMA LinkedIsSameFile ==
  ASSUME NEW p, NEW q, p = q \/ Linked(p, q)
  PROVE  SameFile(p, q)
  BY DEF Linked, SameFile

LEMMA SameFileIsTransitive ==
  ASSUME NEW p, NEW q, NEW r, SameFile(p, q), SameFile(q, r)
  PROVE  SameFile(p, r)
  BY DEF SameFile

\* A unit is one file, with all its names.
OneFile(u) == (\A p, q \in u : SameFile(p, q)) /\ Whole(u)

LEMMA UnitsAreFiles ==
  ASSUME TypeOK, NEW fs \in SUBSET File, Whole(fs)
  PROVE  \A u \in UnitsOf(fs) : OneFile(u)
<1> SUFFICES ASSUME NEW p \in fs
             PROVE  OneFile({q \in fs : q = p \/ Linked(p, q)})
  BY DEF UnitsOf
<1> DEFINE u == {q \in fs : q = p \/ Linked(p, q)}
<1>1. \A q \in u : q \in File /\ SameFile(p, q) /\ SameFile(q, p)
  BY LinkedIsSameFile, SameFileSameData
<1>2. \A q, r \in u : SameFile(q, r)
  BY <1>1, SameFileIsTransitive
<1>3. ASSUME NEW q \in u, NEW r \in File, SameFile(q, r)
      PROVE  r \in u
  <2>1. r \in fs
    BY <1>3 DEF Whole
  <2>2. SameFile(p, r)
    BY <1>1, <1>3, SameFileIsTransitive
  <2>3. r = p \/ Linked(p, r)
    BY <2>1, <2>2, SameFileSameData
  <2> QED
    BY <2>1, <2>3
<1> HIDE DEF u
<1> QED
  BY <1>2, <1>3 DEF OneFile, Whole, u

\* What is left when whole files are taken is whole files.
LEMMA RestIsWhole ==
  ASSUME TypeOK, NEW fs \in SUBSET File, Whole(fs)
  PROVE  Whole(File \ fs)
  BY SameFileSameData DEF Whole

LEMMA UnionIsWhole ==
  ASSUME NEW us, \A u \in us : Whole(u)
  PROVE  Whole(UNION us)
  BY DEF Whole

\* A unit adds its size once.
LEMMA OneFileMore ==
  ASSUME TypeOK, NEW fs \in SUBSET File, NEW u \in SUBSET File, u # {},
         OneFile(u), fs \cap u = {}
  PROVE  Bytes(tree, Once(fs \cup u)) = Bytes(tree, Once(fs)) + SizeOf(u)
<1>1. PICK p \in u : \A q \in u : p <= q
  BY FirstName
<1>2. u \subseteq Nat /\ fs \subseteq Nat
  BY PlannerAssumption
<1>3. \A q \in u : tree[q].size = tree[p].size
  BY SameFileSameData DEF OneFile
<1>4. SizeOf(u) = tree[p].size
  BY <1>3, LargestFile DEF SizeOf
<1>5. ASSUME NEW q \in fs, NEW r \in u
      PROVE  ~SameFile(q, r) /\ ~SameFile(r, q)
  BY SameFileSameData DEF OneFile, Whole
<1>6. Once(fs \cup u) = Once(fs) \cup {p}
  <2>1. ASSUME NEW q \in fs
        PROVE  q \in Once(fs \cup u) <=> q \in Once(fs)
    BY <1>5 DEF Once
  <2>2. ASSUME NEW q \in u
        PROVE  q \in Once(fs \cup u) <=> q = p
    <3>1. CASE q = p
      <4>1. \A r \in u : ~(r < p)
        BY <1>1, <1>2
      <4> QED
        BY <1>5, <3>1, <4>1 DEF Once
    <3>2. CASE q # p
      <4>1. p < q /\ SameFile(q, p)
        BY <1>1, <1>2, <3>2 DEF OneFile
      <4> QED
        BY <3>2, <4>1 DEF Once
    <3> QED
      BY <3>1, <3>2
  <2>3. Once(fs \cup u) \subseteq fs \cup u /\ Once(fs) \subseteq fs
    BY DEF Once
  <2> QED
    BY <2>1, <2>2, <2>3
<1>7. Once(fs) \subseteq fs /\ p \notin Once(fs)
  BY DEF Once
<1>8. IsFiniteSet(Once(fs)) /\ SizesIn(tree, Once(fs)) /\ tree[p].size \in Nat
  BY <1>7, FilesAssumption, FS_Subset, SizesAreNat DEF SizesIn
<1> QED
  BY <1>4, <1>6, <1>7, <1>8, BytesOfOneMore

-----------------------------------------------------------------------------
(* What is counted half way.                                               *)

\* Units are whole files; and the size a sweep has come to, the bin in hand and
\* each disc are charged with is that of their files, each once.
SizeInv ==
  /\ \A u \in units : OneFile(u)
  /\ pc = "sweep" => unseen \cap chosen = {} /\ total = Bytes(tree, Once(UNION chosen))
  /\ InHand => bin.raw = Bytes(tree, Once(UNION bin.units))
  /\ InodesStayWhole

LEMMA NothingHasNoBytes == Bytes(tree, Once({})) = 0
<1>1. Once({}) = {}
  BY DEF Once
<1> QED
  BY <1>1, BytesOfNone

LEMMA SizeInit == Init => SizeInv
  BY DEF Init, SizeInv, InHand, InodesStayWhole

LEMMA DiscsAreWhole ==
  ASSUME SizeInv
  PROVE  Whole(OnDiscs)
  BY DEF SizeInv, InodesStayWhole, Whole, OnDiscs

\* The source does not change: whole files stay whole.
LEMMA SourceIsFixed ==
  ASSUME UNCHANGED tree
  PROVE  /\ \A u : OneFile(u)' <=> OneFile(u)
         /\ \A fs : Whole(fs)' <=> Whole(fs)
         /\ \A fs : Bytes(tree, Once(fs))' = Bytes(tree, Once(fs))
  BY DEF OneFile, SameFile, Whole, Once

LEMMA DiscsAsTheyWere ==
  ASSUME SizeInv, UNCHANGED <<tree, discs>>
  PROVE  InodesStayWhole'
  BY DEF SizeInv, InodesStayWhole, SameFile, Whole, Once

LEMMA UnitsAsTheyWere ==
  ASSUME SizeInv, UNCHANGED <<tree, units>>
  PROVE  (\A u \in units : OneFile(u))'
  BY SourceIsFixed DEF SizeInv

LEMMA SizeBegin ==
  ASSUME PlanInv, SizeInv, NEW m \in {"plan", "backup"}, NEW r \in PackRatios, Begin(m, r)
  PROVE  SizeInv'
<1> USE DEF Begin, fixed, staging
<1>1. TypeOK /\ OnDiscs \in SUBSET File
  BY DEF PlanInv, EachFileOnce
<1> DEFINE fs == IF m = "plan" THEN File ELSE File \ OnDiscs
<1>2. fs \in SUBSET File /\ Whole(fs)
  <2>1. Whole(File)
    BY DEF Whole
  <2>2. Whole(File \ OnDiscs)
    BY <1>1, DiscsAreWhole, RestIsWhole
  <2> QED
    BY <2>1, <2>2
<1>3. units' = UnitsOf(fs)
  OBVIOUS
<1>4. \A u \in units' : OneFile(u)
  <2> HIDE DEF fs
  <2> QED
    BY <1>1, <1>2, <1>3, UnitsAreFiles
<1>5. (\A u \in units : OneFile(u))'
  BY <1>4, SourceIsFixed
<1>6. InodesStayWhole'
  BY DiscsAsTheyWere
<1> QED
  BY <1>5, <1>6 DEF SizeInv, InHand

LEMMA SizeFail ==
  ASSUME SizeInv, Fail
  PROVE  SizeInv'
<1>1. (\A u \in units : OneFile(u))' /\ InodesStayWhole'
  BY UnitsAsTheyWere, DiscsAsTheyWere DEF Fail, fixed, staging, packer
<1> QED
  BY <1>1 DEF SizeInv, InHand, Fail

LEMMA SizeTake ==
  ASSUME PlanInv, SizeInv, NEW u \in unseen, Take(u)
  PROVE  SizeInv'
<1> USE DEF Take, Turn, fixed, staging, runner, packer
<1>1. (\A v \in units : OneFile(v))' /\ InodesStayWhole'
  BY UnitsAsTheyWere, DiscsAsTheyWere
<1>2. u \in units /\ chosen \subseteq units /\ u \notin chosen /\ units \in UnitSet
  BY DEF PlanInv, TypeOK, SweepSound, Free, SizeInv
<1>3. u \in SUBSET File /\ u # {} /\ UNION chosen \in SUBSET File /\ (UNION chosen) \cap u = {}
  <2>1. u \in SUBSET File /\ u # {} /\ UNION chosen \in SUBSET File
    BY <1>2 DEF PlanInv, Partition, UnitSet
  <2>2. \A v \in chosen : v \cap u = {}
    BY <1>2 DEF PlanInv, Partition
  <2> QED
    BY <2>1, <2>2
<1>4. OneFile(u) /\ total = Bytes(tree, Once(UNION chosen))
  BY <1>2 DEF SizeInv
<1>5. UNION chosen' = (UNION chosen) \cup u
  <2>1. chosen' = chosen \cup {u}
    OBVIOUS
  <2>2. UNION (chosen \cup {u}) = (UNION chosen) \cup u
    BY Zenon
  <2> QED
    BY <2>1, <2>2, Zenon
<1>6. total' = Bytes(tree, Once(UNION chosen'))
  <2>1. Bytes(tree, Once((UNION chosen) \cup u)) = Bytes(tree, Once(UNION chosen)) + SizeOf(u)
    BY <1>3, <1>4, OneFileMore DEF PlanInv
  <2>2. total' = total + SizeOf(u)
    OBVIOUS
  <2> HIDE DEF Take
  <2> QED
    BY <1>4, <1>5, <2>1, <2>2, Zenon
<1>7. (total = Bytes(tree, Once(UNION chosen)))'
  BY <1>6, SourceIsFixed DEF Once, SameFile
<1>8. unseen' \cap chosen' = {}
  BY DEF SizeInv
<1> QED
  BY <1>1, <1>7, <1>8 DEF SizeInv, InHand

LEMMA SizeSkip ==
  ASSUME SizeInv, NEW u \in unseen, Skip(u)
  PROVE  SizeInv'
<1> USE DEF Skip, Turn, fixed, staging, runner, packer
<1>1. (\A v \in units : OneFile(v))' /\ InodesStayWhole'
  BY UnitsAsTheyWere, DiscsAsTheyWere
<1>2. (total = Bytes(tree, Once(UNION chosen)))'
  BY DEF SizeInv, Once, SameFile
<1>3. unseen' \cap chosen' = {}
  BY DEF SizeInv
<1> QED
  BY <1>1, <1>2, <1>3 DEF SizeInv, InHand

LEMMA SizeOffer ==
  ASSUME SizeInv, Offer
  PROVE  SizeInv'
<1> USE DEF Offer, Swept, fixed, staging
<1>1. (\A v \in units : OneFile(v))' /\ InodesStayWhole'
  BY UnitsAsTheyWere, DiscsAsTheyWere
<1>2. bin'.raw = total /\ bin'.units = chosen
  OBVIOUS
<1>3. (bin.raw = Bytes(tree, Once(UNION bin.units)))'
  BY <1>2 DEF SizeInv, Once, SameFile
<1> QED
  BY <1>1, <1>3 DEF SizeInv

LEMMA SizeStartNext ==
  ASSUME SizeInv, StartNext, UNCHANGED <<fixed, staging>>
  PROVE  SizeInv'
<1> USE DEF StartNext, fixed, staging
<1>1. (\A v \in units : OneFile(v))' /\ InodesStayWhole'
  BY UnitsAsTheyWere, DiscsAsTheyWere
<1>2. (total = Bytes(tree, Once(UNION chosen)))'
  <2>1. Bytes(tree, Once({}))' = 0
    BY NothingHasNoBytes, SourceIsFixed
  <2>2. UNION chosen' = {} /\ total' = 0
    OBVIOUS
  <2> QED
    BY <2>1, <2>2 DEF Once, SameFile
<1> QED
  BY <1>1, <1>2 DEF SizeInv, InHand

LEMMA SizeCount ==
  ASSUME SizeInv, CountDisc
  PROVE  SizeInv'
<1>1. (\A v \in units : OneFile(v))' /\ InodesStayWhole'
  BY UnitsAsTheyWere, DiscsAsTheyWere DEF CountDisc, Commit, fixed, staging
<1> QED
  BY <1>1 DEF CountDisc, SizeInv, InHand

LEMMA SizeAccept ==
  ASSUME PlanInv, SizeInv, AcceptDisc
  PROVE  SizeInv'
<1> USE DEF AcceptDisc, fixed
<1>1. (\A v \in units : OneFile(v))'
  BY UnitsAsTheyWere DEF Commit
<1>2. PICK m : discs' = Append(discs, [files |-> UNION bin.units, raw |-> bin.raw,
                                       ratio |-> ratio, measured |-> m])
  OBVIOUS
<1> DEFINE d == [files |-> UNION bin.units, raw |-> bin.raw, ratio |-> ratio, measured |-> m]
<1>3. Whole(d.files) /\ d.raw = Bytes(tree, Once(d.files))
  <2>1. bin.units \subseteq units /\ bin.raw = Bytes(tree, Once(UNION bin.units))
    BY DEF PlanInv, BinSound, InHand, Free, SizeInv
  <2>2. Whole(UNION bin.units)
    BY <2>1, UnionIsWhole DEF SizeInv, OneFile
  <2> QED
    BY <2>1, <2>2
<1>4. discs' = Append(discs, d) /\ discs \in Seq(Disc)
  BY <1>2 DEF PlanInv, TypeOK
<1> HIDE DEF d
<1>5. \A i \in DOMAIN discs' : (i \in DOMAIN discs /\ discs'[i] = discs[i]) \/ discs'[i] = d
  BY <1>4
<1>6. \A i \in DOMAIN discs' :
        Whole(discs'[i].files) /\ discs'[i].raw = Bytes(tree, Once(discs'[i].files))
  BY <1>3, <1>5 DEF SizeInv, InodesStayWhole
<1>7. InodesStayWhole'
  BY <1>6 DEF InodesStayWhole, Whole, Once, SameFile
<1> QED
  BY <1>1, <1>7 DEF SizeInv, InHand

LEMMA SizeFinish ==
  ASSUME SizeInv, Finish
  PROVE  SizeInv'
<1>1. (\A v \in units : OneFile(v))' /\ InodesStayWhole'
  BY UnitsAsTheyWere, DiscsAsTheyWere DEF Finish, fixed, staging, packer
<1> QED
  BY <1>1 DEF Finish, SizeInv, InHand

LEMMA SizeStutter ==
  ASSUME SizeInv, UNCHANGED vars
  PROVE  SizeInv'
<1> USE DEF vars, fixed, staging, packer, sweep, runner
<1>1. (\A v \in units : OneFile(v))' /\ InodesStayWhole'
  BY UnitsAsTheyWere, DiscsAsTheyWere
<1>2. pc = "sweep" => (unseen \cap chosen = {} /\ total = Bytes(tree, Once(UNION chosen)))'
  BY DEF SizeInv, Once, SameFile
<1>3. InHand => (bin.raw = Bytes(tree, Once(UNION bin.units)))'
  BY DEF SizeInv, Once, SameFile
<1> QED
  BY <1>1, <1>2, <1>3 DEF SizeInv, InHand

LEMMA SizeStep == PlanInv /\ SizeInv /\ [Next]_vars => SizeInv'
<1> SUFFICES ASSUME PlanInv, SizeInv, [Next]_vars PROVE SizeInv'
  OBVIOUS
<1>1. CASE \E m \in {"plan", "backup"}, r \in PackRatios : Begin(m, r)
  BY <1>1, SizeBegin
<1>2. CASE \E u \in unseen : Take(u) \/ Skip(u)
  BY <1>2, SizeTake, SizeSkip
<1>3. CASE Offer
  BY <1>3, SizeOffer
<1>4. CASE EmptyBin \/ RefuseOversized \/ Stop \/ GiveUp
  BY <1>4, SizeFail DEF EmptyBin, RefuseOversized, Stop, GiveUp
<1>5. CASE PlanDisc \/ Shrink
  BY <1>5, SizeStartNext DEF PlanDisc, Shrink
<1>6. CASE CountDisc
  BY <1>6, SizeCount
<1>7. CASE AcceptDisc
  BY <1>7, SizeAccept
<1>8. CASE Finish
  BY <1>8, SizeFinish
<1>9. CASE UNCHANGED vars
  BY <1>9, SizeStutter
<1> QED
  BY <1>1, <1>2, <1>3, <1>4, <1>5, <1>6, <1>7, <1>8, <1>9 DEF Next, Run, Over

\* A disc has all names of each of its files, and counts each file once,
\* whichever names the packer met first and however often it was re-planned.
THEOREM InodesAreWhole == Spec => []InodesStayWhole
<1>1. Init => SizeInv
  BY SizeInit
<1>2. PlanInv /\ SizeInv /\ [Next]_vars => SizeInv'
  BY SizeStep
<1>3. SizeInv => InodesStayWhole
  BY DEF SizeInv
<1> QED
  BY <1>1, <1>2, <1>3, PlanInvHolds, PTL DEF Spec

-----------------------------------------------------------------------------
(* What a ratio is estimated from.                                         *)

\* A list of ratios is what the discs measured, oldest first, but for the discs
\* that are left out.
Remembers(ms) ==
  /\ \A i \in Observed : Later(i) < Len(ms) /\ ms[Len(ms) - Later(i)] = discs[i].measured
  /\ \A k \in DOMAIN ms : \E i \in Observed : Later(i) = Len(ms) - k

\* The ratio is one that observe has just returned.
Fresh(q, ms) == LastIsObserved => q \in Estimates(Recent(ms))

\* Before a disc's first image is known to be too large.
FirstPlan == pc = "check" \/ (pc \in {"sweep", "build"} /\ attempt = 0)

EstimateInv ==
  adapt =>
    /\ Remembers(savedMeasured) /\ Fresh(savedRatio, savedMeasured)
    /\ mode = "backup" /\ Planning => Remembers(measured)
    /\ mode = "backup" /\ FirstPlan => Fresh(ratio, measured)

LEMMA ObservedAreNumbers ==
  ASSUME TypeOK
  PROVE  /\ Observed \subseteq 1 .. Len(discs) /\ IsFiniteSet(Observed)
         /\ \A i \in Observed : discs[i].measured \in Nat \ {0} /\ Later(i) \in Nat
         /\ \A i \in Observed : Later(i) <= Len(discs) - i
<1>1. Len(discs) \in Nat /\ DOMAIN discs = 1 .. Len(discs)
      /\ \A i \in DOMAIN discs : discs[i].measured \in Nat
  <2>1. discs \in Seq(Disc)
    BY DEF TypeOK
  <2>2. Len(discs) \in Nat /\ DOMAIN discs = 1 .. Len(discs) /\ \A i \in DOMAIN discs : discs[i] \in Disc
    BY <2>1
  <2> QED
    BY <2>2 DEF Disc
<1>2. Observed \subseteq 1 .. Len(discs) /\ \A i \in Observed : discs[i].measured \in Nat \ {0}
  BY <1>1 DEF Observed
<1>3. IsFiniteSet(Observed)
  <2>1. IsFiniteSet(1 .. Len(discs))
    BY <1>1, FS_Interval
  <2> QED
    BY <1>2, <2>1, FS_Subset
<1>4. ASSUME NEW i \in Observed
      PROVE  Later(i) \in Nat /\ Later(i) <= Len(discs) - i
  <2> DEFINE js == {j \in Observed : j > i}
  <2>1. i \in 1 .. Len(discs)
    BY <1>2
  <2>2. js \subseteq (i + 1) .. Len(discs)
    <3>1. \A n \in Nat : \A k, j \in 1 .. n : j > k => j \in (k + 1) .. n
      OBVIOUS
    <3> QED
      BY <1>1, <1>2, <2>1, <3>1
  <2>3. /\ IsFiniteSet((i + 1) .. Len(discs))
        /\ Cardinality((i + 1) .. Len(discs)) = Len(discs) - i
    <3>1. i + 1 \in Int /\ Len(discs) \in Int
      BY <1>1, <2>1
    <3>2. Cardinality((i + 1) .. Len(discs)) = IF i + 1 > Len(discs) THEN 0 ELSE Len(discs) - (i + 1) + 1
      BY <3>1, FS_Interval
    <3>3. \A n \in Nat : \A k \in 1 .. n :
            IF k + 1 > n THEN 0 = n - k ELSE n - (k + 1) + 1 = n - k
      OBVIOUS
    <3>4. IF i + 1 > Len(discs) THEN 0 = Len(discs) - i ELSE Len(discs) - (i + 1) + 1 = Len(discs) - i
      BY <1>1, <2>1, <3>3
    <3> QED
      BY <3>1, <3>2, <3>4, FS_Interval
  <2>4. IsFiniteSet(js) /\ Cardinality(js) <= Len(discs) - i
    <3> HIDE DEF js
    <3> QED
      BY <2>2, <2>3, FS_Subset
  <2>5. Cardinality(js) \in Nat
    BY <2>4, FS_CardinalityType
  <2> QED
    BY <2>4, <2>5 DEF Later
<1> QED
  BY <1>2, <1>3, <1>4

LEMMA EstimatesAsTheyWere ==
  ASSUME UNCHANGED discs
  PROVE  /\ \A ms : Remembers(ms)' <=> Remembers(ms)
         /\ \A q, ms : Fresh(q, ms)' <=> Fresh(q, ms)
  BY DEF Remembers, Fresh, Observed, LastIsObserved, Later

LEMMA EstimateInit == Init => EstimateInv
<1> SUFFICES ASSUME Init PROVE EstimateInv
  OBVIOUS
<1>1. Observed = {}
  BY DEF Init, Observed
<1>2. Remembers(<<>>)
  BY <1>1 DEF Remembers
<1>3. \A q, ms : Fresh(q, ms)
  BY <1>1 DEF Fresh, LastIsObserved
<1> QED
  BY <1>2, <1>3 DEF Init, EstimateInv, Planning

\* A disc that measured something is one more in the list.
LEMMA ObservedOneMore ==
  ASSUME TypeOK, NEW ms \in Seq(Nat), Remembers(ms), NEW d \in Disc, d.measured > 0,
         discs' = Append(discs, d)
  PROVE  LET ns == Append(ms, d.measured)
         IN  Remembers(ns)' /\ LastIsObserved'
<1> DEFINE n == Len(discs) + 1
           ns == Append(ms, d.measured)
<1>1. /\ Len(discs) \in Nat /\ DOMAIN discs = 1 .. Len(discs) /\ DOMAIN discs' = 1 .. n
      /\ n \in Nat /\ Len(discs') = n
      /\ \A i \in 1 .. Len(discs) : discs'[i] = discs[i]
      /\ discs'[n] = d
  BY DEF TypeOK
<1>2. Observed' = Observed \cup {n}
  BY <1>1 DEF Observed
<1>3. /\ Observed \subseteq 1 .. Len(discs) /\ IsFiniteSet(Observed)
      /\ \A i \in Observed : Later(i) \in Nat
  BY ObservedAreNumbers
<1>4. Cardinality({j \in Observed' : j > n}) = 0
  <2>1. {j \in Observed' : j > n} = {}
    <3>1. \A k \in Nat : \A j \in (1 .. k) \cup {k + 1} : ~(j > k + 1)
      OBVIOUS
    <3> QED
      BY <1>1, <1>2, <1>3, <3>1
  <2> QED
    BY <2>1, FS_EmptySet
<1>5. ASSUME NEW i \in Observed
      PROVE  Cardinality({j \in Observed' : j > i}) = Later(i) + 1
  <2>1. {j \in Observed' : j > i} = {j \in Observed : j > i} \cup {n}
    BY <1>1, <1>2, <1>3
  <2>2. n \notin {j \in Observed : j > i} /\ IsFiniteSet({j \in Observed : j > i})
    <3>1. {j \in Observed : j > i} \in SUBSET Observed /\ n \notin Observed
      BY <1>1, <1>3
    <3> QED
      BY <1>3, <3>1, FS_Subset
  <2> QED
    BY <2>1, <2>2, FS_AddElement DEF Later
<1>6. ns \in Seq(Nat) /\ Len(ns) = Len(ms) + 1 /\ Len(ms) \in Nat /\ DOMAIN ms = 1 .. Len(ms)
      /\ DOMAIN ns = 1 .. Len(ms) + 1 /\ ns[Len(ns)] = d.measured
      /\ \A k \in 1 .. Len(ms) : ns[k] = ms[k]
  BY DEF Disc
<1> DEFINE later(i) == Cardinality({j \in Observed' : j > i})
<1>7. \A i \in Observed' : later(i) < Len(ns) /\ ns[Len(ns) - later(i)] = discs'[i].measured
  <2>1. later(n) < Len(ns) /\ ns[Len(ns) - later(n)] = discs'[n].measured
    BY <1>1, <1>4, <1>6
  <2>2. ASSUME NEW i \in Observed
        PROVE  later(i) < Len(ns) /\ ns[Len(ns) - later(i)] = discs'[i].measured
    <3>1. later(i) = Later(i) + 1 /\ Later(i) \in Nat
      BY <1>3, <1>5
    <3>2. Later(i) < Len(ms) /\ ms[Len(ms) - Later(i)] = discs[i].measured
      BY DEF Remembers
    <3>3. discs'[i] = discs[i]
      BY <1>1, <1>3
    <3>4. Len(ns) - later(i) = Len(ms) - Later(i) /\ Len(ms) - Later(i) \in 1 .. Len(ms)
          /\ later(i) < Len(ns)
      <4>1. \A k, j \in Nat : j < k =>
              (k + 1) - (j + 1) = k - j /\ k - j \in 1 .. k /\ j + 1 < k + 1
        OBVIOUS
      <4> HIDE DEF later, ns
      <4> QED
        BY <1>6, <3>1, <3>2, <4>1
    <3> HIDE DEF later, ns
    <3> QED
      BY <1>6, <3>2, <3>3, <3>4
  <2> HIDE DEF later, ns, n
  <2> QED
    BY <1>2, <2>1, <2>2
<1>8. \A k \in DOMAIN ns : \E i \in Observed' : later(i) = Len(ns) - k
  <2> SUFFICES ASSUME NEW k \in DOMAIN ns
               PROVE  \E i \in Observed' : later(i) = Len(ns) - k
    OBVIOUS
  <2>1. CASE k = Len(ns)
    <3>1. n \in Observed' /\ later(n) = 0
      BY <1>2, <1>4
    <3>2. Len(ns) - k = 0
      BY <1>6, <2>1
    <3> HIDE DEF later, ns, n
    <3> QED
      BY <3>1, <3>2
  <2>2. CASE k # Len(ns)
    <3>1. k \in DOMAIN ms /\ Len(ns) - k = (Len(ms) - k) + 1
      <4> HIDE DEF ns
      <4> QED
        BY <1>6, <2>2
    <3>2. PICK i \in Observed : Later(i) = Len(ms) - k
      BY <3>1 DEF Remembers
    <3>3. later(i) = Later(i) + 1 /\ i \in Observed'
      BY <1>2, <1>5
    <3> HIDE DEF later, ns, n
    <3> QED
      BY <3>1, <3>2, <3>3
  <2> QED
    BY <2>1, <2>2
<1>9. LastIsObserved'
  BY <1>1, <1>2 DEF LastIsObserved
<1> QED
  BY <1>7, <1>8, <1>9 DEF Remembers, Later

\* A disc that measured nothing leaves the list as it is.
LEMMA ObservedNoneMore ==
  ASSUME TypeOK, NEW d \in Disc, d.measured = 0, discs' = Append(discs, d)
  PROVE  /\ ~LastIsObserved'
         /\ \A ms : Remembers(ms)' <=> Remembers(ms)
<1> DEFINE n == Len(discs) + 1
<1>1. /\ Len(discs) \in Nat /\ DOMAIN discs = 1 .. Len(discs) /\ DOMAIN discs' = 1 .. n
      /\ n \in Nat /\ Len(discs') = n
      /\ \A i \in 1 .. Len(discs) : discs'[i] = discs[i]
      /\ discs'[n] = d
  BY DEF TypeOK
<1>2. Observed' = Observed
  BY <1>1 DEF Observed
<1>3. Len(discs') \notin Observed
  BY <1>1 DEF Observed
<1>4. \A i \in Observed : discs'[i] = discs[i]
  BY <1>1 DEF Observed
<1>5. \A ms : Remembers(ms)' <=> Remembers(ms)
  BY <1>2, <1>4 DEF Remembers, Later
<1> QED
  BY <1>2, <1>3, <1>5 DEF LastIsObserved

LEMMA EstimateBegin ==
  ASSUME PlanInv, EstimateInv, NEW m \in {"plan", "backup"}, NEW r \in PackRatios, Begin(m, r)
  PROVE  EstimateInv'
<1> USE DEF Begin, fixed, staging
<1> SUFFICES ASSUME adapt
             PROVE  EstimateInv'
  BY DEF EstimateInv
<1>1. /\ \A ms : Remembers(ms)' <=> Remembers(ms)
      /\ \A q, ms : Fresh(q, ms)' <=> Fresh(q, ms)
  BY EstimatesAsTheyWere
<1>2. Remembers(savedMeasured) /\ Fresh(savedRatio, savedMeasured)
  BY DEF EstimateInv
<1>3. m = "backup" => Remembers(measured') /\ Fresh(ratio', measured')
  <2>1. CASE discs = <<>>
    <3>1. Observed = {}
      BY <2>1 DEF Observed
    <3>2. Remembers(<<>>) /\ Fresh(ratio', <<>>)
      BY <3>1 DEF Remembers, Fresh, LastIsObserved
    <3>3. measured' = <<>>
      BY <2>1 DEF Carried
    <3> QED
      BY <3>2, <3>3
  <2>2. CASE discs # <<>>
    <3>1. m = "backup" => measured' = savedMeasured
      BY <2>2 DEF Carried
    <3>2. LastIsObserved => savedRatio > 0
      <4>1. Recent(savedMeasured) \in Seq(Nat)
        BY RecentIsSequence DEF PlanInv, TypeOK
      <4> QED
        BY <1>2, <4>1, EstimatesAreFloored DEF Fresh
    <3>3. m = "backup" => Fresh(ratio', savedMeasured)
      BY <1>2, <2>2, <3>2 DEF Fresh, StartingRatio
    <3> QED
      BY <1>2, <3>1, <3>3
  <2> QED
    BY <2>1, <2>2
<1>4. mode' = m
  OBVIOUS
<1>5. (Remembers(savedMeasured) /\ Fresh(savedRatio, savedMeasured))'
  BY <1>2 DEF Remembers, Fresh, Observed, LastIsObserved, Later
<1>6. m = "backup" => (Remembers(measured) /\ Fresh(ratio, measured))'
  BY <1>3 DEF Remembers, Fresh, Observed, LastIsObserved, Later
<1> QED
  BY <1>4, <1>5, <1>6 DEF EstimateInv

\* Every step but the beginning of a run and a disc that is accepted.
LEMMA EstimateKept ==
  ASSUME EstimateInv, UNCHANGED <<adapt, discs, savedRatio, savedMeasured, measured, mode>>,
         Planning' => Planning,
         FirstPlan' => FirstPlan /\ ratio' = ratio
  PROVE  EstimateInv'
<1>1. (Remembers(savedMeasured) /\ Fresh(savedRatio, savedMeasured))' <=>
        Remembers(savedMeasured) /\ Fresh(savedRatio, savedMeasured)
  BY DEF Remembers, Fresh, Observed, LastIsObserved, Later
<1>2. Remembers(measured)' <=> Remembers(measured)
  BY DEF Remembers, Observed, Later
<1>3. ratio' = ratio => (Fresh(ratio, measured)' <=> Fresh(ratio, measured))
  BY DEF Fresh, Observed, LastIsObserved
<1> QED
  BY <1>1, <1>2, <1>3 DEF EstimateInv

LEMMA EstimateAccept ==
  ASSUME PlanInv, EstimateInv, AcceptDisc
  PROVE  EstimateInv'
<1> USE DEF AcceptDisc, fixed
<1> SUFFICES ASSUME adapt
             PROVE  EstimateInv'
  BY DEF EstimateInv
<1>1. PICK m \in Measured(Built, bin.raw) :
        /\ Adapt(m)
        /\ discs' = Append(discs, [files |-> UNION bin.units, raw |-> bin.raw,
                                   ratio |-> ratio, measured |-> m])
  OBVIOUS
<1> DEFINE d == [files |-> UNION bin.units, raw |-> bin.raw, ratio |-> ratio, measured |-> m]
<1>2. mode = "backup" /\ Remembers(measured) /\ TypeOK
  BY DEF PlanInv, BinSound, EstimateInv, Planning
<1>3. d \in Disc /\ d.measured = m /\ m \in Nat
  <2>1. UNION bin.units \in SUBSET File /\ bin.raw \in Nat /\ ratio \in Nat
    BY <1>2 DEF TypeOK, Bin, UnitSet
  <2>2. m \in Nat
    BY <1>2, <2>1, ImagesAreNat, MeasuredAreNat DEF Built
  <2> QED
    BY <2>1, <2>2 DEF Disc
<1>4. discs' = Append(discs, d)
  BY <1>1
<1> HIDE DEF d
<1>5. ASSUME NEW ns, NEW q, ns = measured', q = ratio'
      PROVE  Remembers(ns)' /\ Fresh(q, ns)'
  <2>1. CASE m > 0
    <3>1. ns = Append(measured, m) /\ q \in Estimates(Recent(ns))
      BY <1>1, <1>5, <2>1 DEF Adapt
    <3>2. measured \in Seq(Nat)
      BY <1>2 DEF TypeOK
    <3>3. Remembers(ns)'
      BY <1>2, <1>3, <1>4, <2>1, <3>1, <3>2, ObservedOneMore
    <3> QED
      BY <3>1, <3>3 DEF Fresh, Estimates, Recent
  <2>2. CASE m = 0
    <3>1. ns = measured
      BY <1>1, <1>5, <2>2 DEF Adapt
    <3>2. Remembers(ns)' /\ ~LastIsObserved'
      BY <1>2, <1>3, <1>4, <2>2, <3>1, ObservedNoneMore
    <3> QED
      BY <3>2 DEF Fresh
  <2> QED
    BY <1>3, <2>1, <2>2
<1>6. (Remembers(measured) /\ Fresh(ratio, measured))'
  BY <1>5 DEF Remembers, Fresh, Observed, LastIsObserved, Later
<1>7. savedRatio' = ratio' /\ savedMeasured' = measured'
  OBVIOUS
<1>8. (Remembers(savedMeasured) /\ Fresh(savedRatio, savedMeasured))'
  BY <1>6, <1>7 DEF Remembers, Fresh
<1> QED
  BY <1>6, <1>8 DEF EstimateInv

LEMMA EstimateStep == PlanInv /\ EstimateInv /\ [Next]_vars => EstimateInv'
<1> SUFFICES ASSUME PlanInv, EstimateInv, [Next]_vars PROVE EstimateInv'
  OBVIOUS
<1> USE DEF fixed, staging, runner, Planning, FirstPlan
<1>1. CASE \E m \in {"plan", "backup"}, r \in PackRatios : Begin(m, r)
  BY <1>1, EstimateBegin
<1>2. CASE \E u \in unseen : Take(u) \/ Skip(u)
  BY <1>2, EstimateKept DEF Take, Skip, Turn
<1>3. CASE Offer
  BY <1>3, EstimateKept DEF Offer, Swept
<1>4. CASE EmptyBin \/ RefuseOversized \/ Stop \/ GiveUp
  BY <1>4, EstimateKept DEF EmptyBin, RefuseOversized, Stop, GiveUp, Fail
<1>5. CASE PlanDisc
  BY <1>5, EstimateKept DEF PlanDisc, StartNext
<1>6. CASE Shrink
  <2>1. attempt' # 0
    BY <1>6 DEF Shrink, PlanInv, TypeOK
  <2> QED
    BY <1>6, <2>1, EstimateKept DEF Shrink, Overshot, StartNext
<1>7. CASE CountDisc
  <2>1. mode = "plan"
    BY <1>7 DEF CountDisc, PlanInv, BinSound
  <2>2. (Remembers(savedMeasured) /\ Fresh(savedRatio, savedMeasured))' <=>
          Remembers(savedMeasured) /\ Fresh(savedRatio, savedMeasured)
    BY <1>7 DEF CountDisc, Remembers, Fresh, Observed, LastIsObserved, Later
  <2> QED
    BY <1>7, <2>1, <2>2 DEF CountDisc, EstimateInv
<1>8. CASE AcceptDisc
  BY <1>8, EstimateAccept
<1>9. CASE Finish
  BY <1>9, EstimateKept DEF Finish, Swept
<1>10. CASE UNCHANGED vars
  BY <1>10, EstimateKept DEF vars
<1> QED
  BY <1>1, <1>2, <1>3, <1>4, <1>5, <1>6, <1>7, <1>8, <1>9, <1>10 DEF Next, Run, Over

LEMMA TailFrom ==
  ASSUME NEW ms \in Seq(Nat), NEW a \in 1 .. Len(ms)
  PROVE  /\ DOMAIN SubSeq(ms, a, Len(ms)) = 1 .. (Len(ms) - a + 1)
         /\ \A k \in 1 .. (Len(ms) - a + 1) : SubSeq(ms, a, Len(ms))[k] = ms[a + k - 1]
  OBVIOUS

\* recent returns what the last discs of the list measured, and all of it.
LEMMA RecentIsWindow ==
  ASSUME TypeOK, NEW ms \in Seq(Nat), Remembers(ms)
  PROVE  /\ \A i \in Observed : Later(i) < Window =>
              \E k \in DOMAIN Recent(ms) : Recent(ms)[k] = discs[i].measured
         /\ \A k \in DOMAIN Recent(ms) :
              \E i \in Observed : Later(i) < Window /\ discs[i].measured = Recent(ms)[k]
<1> DEFINE n == Len(ms)
           drop == IF n > Window THEN n - Window ELSE 0
<1>1. n \in Nat /\ Window \in Nat \ {0} /\ DOMAIN ms = 1 .. n
  BY PlannerAssumption
<1>2. /\ drop \in Nat /\ drop <= n
      /\ DOMAIN Recent(ms) = 1 .. (n - drop)
      /\ \A k \in 1 .. (n - drop) : Recent(ms)[k] = ms[k + drop]
  <2>1. CASE n > Window
    <3>1. Recent(ms) = SubSeq(ms, n - Window + 1, n)
      BY <2>1 DEF Recent
    <3>2. /\ DOMAIN SubSeq(ms, n - Window + 1, n) = 1 .. Window
          /\ \A k \in 1 .. Window : SubSeq(ms, n - Window + 1, n)[k] = ms[k + (n - Window)]
      <4>1. n - Window + 1 \in 1 .. n /\ n - (n - Window + 1) + 1 = Window
        BY <1>1, <2>1
      <4>2. \A k \in 1 .. Window : (n - Window + 1) + k - 1 = k + (n - Window)
        BY <1>1
      <4> QED
        BY <4>1, <4>2, TailFrom
    <3>3. drop = n - Window /\ n - drop = Window /\ drop \in Nat /\ drop <= n
      BY <1>1, <2>1
    <3> HIDE DEF n, drop
    <3> QED
      BY <3>1, <3>2, <3>3
  <2>2. CASE ~(n > Window)
    <3>1. Recent(ms) = ms /\ drop = 0
      BY <2>2 DEF Recent
    <3> HIDE DEF n, drop
    <3> QED
      BY <1>1, <3>1
  <2> QED
    BY <2>1, <2>2
<1>3. \A i \in Observed : Later(i) \in Nat /\ Later(i) < n /\ ms[n - Later(i)] = discs[i].measured
  BY ObservedAreNumbers DEF Remembers
<1>4. ASSUME NEW i \in Observed, Later(i) < Window
      PROVE  \E k \in DOMAIN Recent(ms) : Recent(ms)[k] = discs[i].measured
  <2> DEFINE k == n - Later(i) - drop
  <2>1. k \in 1 .. (n - drop) /\ k + drop = n - Later(i)
    <3> HIDE DEF n
    <3> QED
      BY <1>1, <1>3, <1>4
  <2> HIDE DEF k, n, drop
  <2> QED
    BY <1>2, <1>3, <2>1
<1>5. ASSUME NEW k \in DOMAIN Recent(ms)
      PROVE  \E i \in Observed : Later(i) < Window /\ discs[i].measured = Recent(ms)[k]
  <2>1. k \in 1 .. (n - drop) /\ Recent(ms)[k] = ms[k + drop]
    BY <1>2
  <2>2. k + drop \in 1 .. n /\ n - (k + drop) < Window /\ n - (n - (k + drop)) = k + drop
    <3> HIDE DEF n
    <3> QED
      BY <1>1, <1>2, <2>1
  <2>3. PICK i \in Observed : Later(i) = n - (k + drop)
    <3> HIDE DEF drop
    <3> QED
      BY <1>1, <2>2 DEF Remembers
  <2> HIDE DEF n, drop
  <2> QED
    BY <1>3, <2>1, <2>2, <2>3
<1> QED
  BY <1>4, <1>5

\* The estimate the first plan of a disc rests on is that of the worst disc of
\* the window.
LEMMA FreshIsOfTheWorst ==
  ASSUME PlanInv, EstimateInv, mode = "backup", adapt, Planning, FirstPlan, LastIsObserved
  PROVE  \E i \in Observed :
           /\ Later(i) < Window
           /\ \A j \in Observed : Later(j) < Window => discs[j].measured <= discs[i].measured
           /\ \E q \in Rounded(Ceiled(discs[i].measured) * Margin, 1000) : ratio = Floored(q)
<1>1. TypeOK /\ measured \in Seq(Nat) /\ Remembers(measured) /\ ratio \in Estimates(Recent(measured))
  BY DEF PlanInv, TypeOK, EstimateInv, Fresh
<1> DEFINE w == Recent(measured)
<1>2. PICK k \in DOMAIN w :
        /\ \A j \in DOMAIN w : w[j] <= w[k]
        /\ \E q \in Rounded(Ceiled(w[k]) * Margin, 1000) : ratio = Floored(q)
  BY <1>1 DEF Estimates
<1>3. PICK i \in Observed : Later(i) < Window /\ discs[i].measured = w[k]
  BY <1>1, RecentIsWindow
<1>4. \A j \in Observed : Later(j) < Window => \E x \in DOMAIN w : w[x] = discs[j].measured
  BY <1>1, RecentIsWindow
<1> HIDE DEF w
<1> QED
  BY <1>2, <1>3, <1>4

\* The inductive invariant of the estimates.
THEOREM EstimateInvHolds == Spec => []EstimateInv
<1>1. Init => EstimateInv
  BY EstimateInit
<1>2. PlanInv /\ EstimateInv /\ [Next]_vars => EstimateInv'
  BY EstimateStep
<1> QED
  BY <1>1, <1>2, PlanInvHolds, PTL DEF Spec

\* A resumed run plans a disc as an uninterrupted one would.
THEOREM PlansAreUninterrupted == Spec => []PlansAsIfUninterrupted
<1>1. PlanInv /\ EstimateInv => PlansAsIfUninterrupted
  <2> SUFFICES ASSUME PlanInv, EstimateInv, pc = "check", mode = "backup", adapt, LastIsObserved
               PROVE  LET last == {i \in Observed : Later(i) < Window}
                          worst == CHOOSE i \in last :
                                     \A j \in last : discs[j].measured <= discs[i].measured
                      IN  \E q \in Rounded(Ceiled(discs[worst].measured) * Margin, 1000) :
                            ratio = Floored(q)
    BY DEF PlansAsIfUninterrupted
  <2> DEFINE last == {i \in Observed : Later(i) < Window}
             worst == CHOOSE i \in last : \A j \in last : discs[j].measured <= discs[i].measured
  <2>1. PICK i \in last :
          /\ \A j \in last : discs[j].measured <= discs[i].measured
          /\ \E q \in Rounded(Ceiled(discs[i].measured) * Margin, 1000) : ratio = Floored(q)
    BY FreshIsOfTheWorst DEF Planning, FirstPlan
  <2>2. worst \in last /\ \A j \in last : discs[j].measured <= discs[worst].measured
    BY <2>1
  <2>3. \A j \in last : discs[j].measured \in Nat
    BY ObservedAreNumbers DEF PlanInv
  <2> HIDE DEF worst, last
  <2>4. discs[worst].measured = discs[i].measured
    BY <2>1, <2>2, <2>3
  <2>5. \E q \in Rounded(Ceiled(discs[worst].measured) * Margin, 1000) : ratio = Floored(q)
    BY <2>1, <2>4
  <2> QED
    BY <2>5 DEF worst, last
<1> QED
  BY <1>1, PlanInvHolds, EstimateInvHolds, PTL

\* With room for ten bytes on a disc, a first image is too large only if its
\* content is worse than all of the window, by more than the margin.
THEOREM OvershootsAreNews ==
  ASSUME Margin <= 1000 * Image
  PROVE  Spec => []OnlyNewsOvershoots
<1>1. PlanInv /\ EstimateInv => OnlyNewsOvershoots
  <2> SUFFICES ASSUME PlanInv, EstimateInv, Overshot, attempt = 0, adapt, LastIsObserved,
                      NEW i \in DOMAIN discs, i > Len(discs) - Window
               PROVE  2000 * 1000 * Built > (2 * Ceiled(discs[i].measured) * Margin - 1000) * bin.raw
    BY DEF OnlyNewsOvershoots
  <2>1. /\ TypeOK /\ mode = "backup" /\ Planning /\ FirstPlan /\ pc = "build"
        /\ budget \in RawBudgets(ratio) /\ bin.raw <= budget /\ ratio \in Nat
    BY DEF PlanInv, TypeOK, BinSound, InHand, Overshot, Planning, FirstPlan
  <2>2. Built \in Nat /\ Built > Image /\ bin.raw \in Nat
    BY OvershotTypes DEF Overshot
  <2>3. /\ Image \in Nat \ {0} /\ Margin \in Nat /\ Margin >= 1000 /\ Window \in Nat
        /\ Len(discs) \in Nat /\ DOMAIN discs = 1 .. Len(discs)
    BY <2>1, PlannerAssumption DEF TypeOK
  <2>4. budget \in Nat /\ (budget <= 1 \/ ratio * budget <= 1000 * Image)
    BY <2>1, BudgetIsQuotient
  <2> DEFINE c == Ceiled(discs[i].measured)
  <2>5. discs[i].measured \in Nat /\ c \in Nat /\ c <= 1000
    <3>1. discs \in Seq(Disc)
      BY <2>1 DEF TypeOK
    <3>2. discs[i] \in Disc
      BY <3>1
    <3> QED
      BY <3>2 DEF Disc, Ceiled
  <2>6. CASE discs[i].measured = 0
    <3>1. c = 0
      BY <2>6 DEF Ceiled
    <3> HIDE DEF c
    <3> QED
      BY <2>2, <2>3, <3>1 DEF c
  <2>7. CASE discs[i].measured > 0
    <3>1. 2 * (c * Margin) <= 2000 * ratio + 1000
      <4>1. i \in Observed /\ Later(i) < Window
        <5>1. i \in Observed
          BY <2>7 DEF Observed
        <5>2. Later(i) \in Nat /\ Later(i) <= Len(discs) - i
          BY <2>1, <5>1, ObservedAreNumbers
        <5>3. Len(discs) - i < Window
          BY <2>3
        <5> QED
          BY <2>3, <5>1, <5>2, <5>3
      <4>2. PICK j \in Observed :
              /\ discs[i].measured <= discs[j].measured
              /\ \E q \in Rounded(Ceiled(discs[j].measured) * Margin, 1000) : ratio = Floored(q)
        BY <2>1, <4>1, FreshIsOfTheWorst
      <4> DEFINE e == Ceiled(discs[j].measured)
      <4>3. discs[j].measured \in Nat
        BY <2>1, ObservedAreNumbers
      <4>4. e \in Nat /\ c <= e
        BY <2>5, <4>2, <4>3 DEF Ceiled
      <4>5. PICK q \in Rounded(e * Margin, 1000) : ratio = Floored(q)
        BY <4>2
      <4> HIDE DEF c, e
      <4>6. e * Margin \in Nat /\ c * Margin <= e * Margin
        BY <2>3, <2>5, <4>4
      <4>7. q \in Nat /\ 2 * (e * Margin) <= 2 * (1000 * q) + 1000
        BY <4>5, <4>6, RoundedIsNear
      <4>8. q <= ratio
        BY <4>5, <4>7 DEF Floored
      <4> QED
        BY <2>1, <2>3, <2>5, <4>6, <4>7, <4>8
    <3> HIDE DEF c
    <3> DEFINE x == 2 * (c * Margin) - 1000
    <3>2. x \in Int /\ x <= 2000 * ratio /\ x <= 2000 * Margin - 1000
      <4>1. c * Margin <= 1000 * Margin
        BY <2>3, <2>5
      <4> QED
        BY <2>1, <2>3, <2>5, <3>1, <4>1
    <3>3. x * bin.raw < 2000 * 1000 * Built
      <4> HIDE DEF x
      <4>1. CASE budget <= 1
        <5>1. bin.raw = 0 \/ bin.raw = 1
          BY <2>1, <2>2, <2>4, <4>1
        <5>2. x < 2000 * 1000 * Built
          BY <2>2, <2>3, <3>2
        <5> QED
          BY <2>2, <2>3, <3>2, <5>1, <5>2
      <4>2. CASE ratio * budget <= 1000 * Image
        <5>1. ratio * bin.raw <= ratio * budget
          BY <2>1, <2>2, <2>4
        <5>2. x * bin.raw <= 2000 * (ratio * bin.raw)
          <6> DEFINE most == 2000 * ratio
          <6>1. \A a, b \in Int : \A r \in Nat : a <= b => a * r <= b * r
            OBVIOUS
          <6>2. most \in Int /\ x <= most /\ most * bin.raw = 2000 * (ratio * bin.raw)
            BY <2>1, <2>2, <3>2
          <6> HIDE DEF most
          <6>3. x * bin.raw <= most * bin.raw
            BY <2>2, <3>2, <6>1, <6>2
          <6> QED
            BY <6>2, <6>3
        <5>3. x * bin.raw \in Int /\ ratio * bin.raw \in Nat /\ ratio * budget \in Nat
          BY <2>1, <2>2, <2>4, <3>2
        <5> QED
          BY <2>2, <2>3, <4>2, <5>1, <5>2, <5>3
      <4> QED
        BY <2>4, <4>1, <4>2
    <3>4. 2 * c * Margin - 1000 = x
      BY <2>3, <2>5
    <3> QED
      BY <3>3, <3>4 DEF c
  <2> QED
    BY <2>5, <2>6, <2>7
<1> QED
  BY <1>1, PlanInvHolds, EstimateInvHolds, PTL

-----------------------------------------------------------------------------
(* Runs come to their end.                                                 *)

\* Shrink attempts left for the disc in hand; one more than all of them before
\* the first.
TriesLeft == IF pc = "check" THEN MaxShrinkAttempts + 1 ELSE MaxShrinkAttempts - attempt

\* Nearer to the end of a run: fewer units left, or as many and fewer tries for
\* the disc in hand, or as many and further with this one.
Nearer ==
  \/ pc' \in {"off", "done"}
  \/ Free' \subseteq Free /\ Free' # Free
  \/ Free' = Free /\ TriesLeft' < TriesLeft
  \/ /\ Free' = Free /\ TriesLeft' = TriesLeft /\ pc = "sweep"
     /\ \/ pc' \in {"build", "count"}
        \/ pc' = "sweep" /\ unseen' \subseteq unseen /\ unseen' # unseen

\* A disc in hand has something on it.
BinIsFull == InHand => bin.units # {}

LEMMA BinIsFullHolds == Spec => []BinIsFull
<1>1. Init => BinIsFull
  BY DEF Init, BinIsFull, InHand
<1>2. BinIsFull /\ [Next]_vars => BinIsFull'
  <2> SUFFICES ASSUME BinIsFull, [Next]_vars PROVE BinIsFull'
    OBVIOUS
  <2> USE DEF BinIsFull, InHand
  <2>1. CASE \E m \in {"plan", "backup"}, r \in PackRatios : Begin(m, r)
    BY <2>1 DEF Begin
  <2>2. CASE \E u \in unseen : Take(u) \/ Skip(u)
    BY <2>2 DEF Take, Skip, Turn
  <2>3. CASE Offer
    BY <2>3 DEF Offer
  <2>4. CASE EmptyBin \/ RefuseOversized \/ Stop \/ GiveUp
    BY <2>4 DEF EmptyBin, RefuseOversized, Stop, GiveUp, Fail
  <2>5. CASE PlanDisc \/ Shrink \/ CountDisc \/ AcceptDisc \/ Finish
    BY <2>5 DEF PlanDisc, Shrink, StartNext, CountDisc, AcceptDisc, Finish
  <2>6. CASE UNCHANGED vars
    BY <2>6 DEF vars, runner
  <2> QED
    BY <2>1, <2>2, <2>3, <2>4, <2>5, <2>6 DEF Next, Run, Over
<1> QED
  BY <1>1, <1>2, PTL DEF Spec

\* Committing the bin in hand leaves less.
LEMMA CommitLeavesLess ==
  ASSUME PlanInv, BinIsFull, InHand, Commit
  PROVE  Free' \subseteq Free /\ Free' # Free
<1>1. bin.units \subseteq Free /\ bin.units # {}
  BY DEF PlanInv, BinSound, BinIsFull
<1>2. Free' = Free \ bin.units
  BY DEF Commit, Free
<1> QED
  BY <1>1, <1>2

\* Shrinking and packing both come to an end: every step of a run takes it
\* nearer to one, however large images turn out to be and whatever the ratios.
THEOREM EveryStepIsNearer == Spec => [][Run => Nearer]_vars
<1>1. PlanInv /\ BinIsFull /\ [Next]_vars => [Run => Nearer]_vars
  <2> SUFFICES ASSUME PlanInv, BinIsFull, Run PROVE Nearer
    OBVIOUS
  <2>1. attempt \in 0 .. MaxShrinkAttempts /\ MaxShrinkAttempts \in Nat
    BY PlannerAssumption DEF PlanInv, TypeOK
  <2>2. ASSUME NEW u \in unseen, Take(u) \/ Skip(u)
        PROVE  Nearer
    BY <2>2 DEF Take, Skip, Turn, runner, packer, Nearer, TriesLeft, Free
  <2>3. CASE Offer
    BY <2>3 DEF Offer, Swept, Nearer, TriesLeft, Free
  <2>4. CASE EmptyBin \/ RefuseOversized \/ GiveUp \/ Finish
    BY <2>4 DEF EmptyBin, RefuseOversized, GiveUp, Fail, Finish, Nearer
  <2>5. CASE PlanDisc
    BY <2>1, <2>5 DEF PlanDisc, StartNext, Nearer, TriesLeft, Free
  <2>6. CASE Shrink
    BY <2>1, <2>6 DEF Shrink, Overshot, StartNext, Nearer, TriesLeft, Free
  <2>7. CASE CountDisc
    BY <2>7, CommitLeavesLess DEF CountDisc, InHand, Nearer
  <2>8. CASE AcceptDisc
    BY <2>8, CommitLeavesLess DEF AcceptDisc, InHand, Nearer
  <2> QED
    BY <2>2, <2>3, <2>4, <2>5, <2>6, <2>7, <2>8 DEF Run
<1> QED
  BY <1>1, PlanInvHolds, BinIsFullHolds, PTL DEF Spec
=============================================================================
