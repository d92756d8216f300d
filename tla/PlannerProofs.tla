--------------------------- MODULE PlannerProofs ---------------------------
(* Theorems about Planner and their proofs.                                *)
EXTENDS Planner, FiniteSetTheorems, TLAPS

-----------------------------------------------------------------------------
(* Arithmetic.                                                             *)

LEMMA Quotient ==
  ASSUME NEW a \in Nat, NEW b \in Nat \ {0}
  PROVE  /\ a \div b \in Nat
         /\ b * (a \div b) <= a
         /\ a < b * (a \div b) + b
  BY Z3

\* What rounding returns is within a half of the fraction, on either side.
LEMMA RoundedIsNear ==
  ASSUME NEW num \in Nat, NEW den \in Nat \ {0}, NEW k \in Rounded(num, den)
  PROVE  /\ k \in Nat
         /\ 2 * (den * k) <= 2 * num + den
         /\ 2 * num <= 2 * (den * k) + den
<1> DEFINE n == 2 * num + den
           d == 2 * den
           near == n \div d
<1>1. n \in Nat /\ d \in Nat \ {0}
  OBVIOUS
<1>2. near \in Nat /\ d * near <= n /\ n < d * near + d
  BY <1>1, Quotient
<1>3. d * near = 2 * (den * near)
  BY <1>2
<1>4. CASE k = near
  BY <1>2, <1>3, <1>4
<1>5. CASE k # near
  <2>1. k = near - 1 /\ k >= 0 /\ n % d = 0
    BY <1>5 DEF Rounded
  <2>2. n = d * near
    BY <1>1, <1>2, <2>1, Z3
  <2>3. den * k = den * near - den /\ k \in Nat
    BY <1>2, <2>1
  <2> QED
    BY <1>3, <2>2, <2>3
<1> QED
  BY <1>4, <1>5

\* The budget a ratio gives, unless that is less than a byte.
LEMMA BudgetIsQuotient ==
  ASSUME NEW q \in Nat, NEW b \in RawBudgets(q)
  PROVE  b \in Nat /\ (b <= 1 \/ q * b <= 1000 * Image)
<1>1. Image \in Nat
  BY PlannerAssumption
<1>2. CASE q = 0
  BY <1>1, <1>2 DEF RawBudgets
<1>3. CASE q # 0
  <2> DEFINE f == (1000 * Image) \div q
  <2>1. f \in Nat /\ q * f <= 1000 * Image
    BY <1>1, <1>3, Quotient
  <2>2. b = AtLeastOne(f) \/ b = AtLeastOne(f - 1)
    BY <1>3 DEF RawBudgets
  <2>3. q * (f - 1) <= q * f
    BY <2>1
  <2> QED
    BY <1>1, <2>1, <2>2, <2>3 DEF AtLeastOne
<1> QED
  BY <1>2, <1>3

\* A measured ratio of eleven thousandths or more is raised by shrinking by at
\* least one, and then gives a smaller budget.
LEMMA ShrinkingShrinks ==
  ASSUME NEW s \in Nat, s > Image, NEW r \in Nat, r > 1,
         NEW m \in Measured(s, r), m >= 11, NEW q \in Rounded(21 * m, 20),
         NEW b \in RawBudgets(q)
  PROVE  b < r
<1>1. Image \in Nat
  BY PlannerAssumption
<1>2. m \in Nat /\ 2000 * s <= 2 * (r * m) + r
  <2>1. m \in Rounded(1000 * s, r)
    BY DEF Measured
  <2> QED
    BY <2>1, RoundedIsNear
<1>3. q \in Nat /\ 42 * m <= 40 * q + 20
  <2>1. 21 * m \in Nat /\ 20 \in Nat \ {0}
    BY <1>2
  <2>2. q \in Nat /\ 2 * (21 * m) <= 2 * (20 * q) + 20
    BY <2>1, RoundedIsNear
  <2> QED
    BY <1>2, <2>2
<1>4. q >= m + 1
  BY <1>2, <1>3
<1>5. r * q >= r * m + r
  BY <1>2, <1>3, <1>4
<1>6. 1000 * Image < r * q
  BY <1>1, <1>2, <1>3, <1>5
<1>7. b \in Nat /\ (b <= 1 \/ q * b <= 1000 * Image)
  BY <1>3, BudgetIsQuotient
<1>8. b < r \/ q * b >= r * q
  BY <1>3, <1>7
<1> QED
  BY <1>1, <1>3, <1>6, <1>7, <1>8

\* An image over its budget, of a bin that keeps to a budget taken from a ratio
\* of eleven thousandths or more, measures as much itself.
LEMMA OvershootMeasures ==
  ASSUME NEW s \in Nat, s > Image, NEW r \in Nat, r >= 1, NEW q \in Nat, q >= 11,
         NEW b \in RawBudgets(q), r <= b, NEW m \in Measured(s, r)
  PROVE  m >= 11
<1>1. Image \in Nat \ {0}
  BY PlannerAssumption
<1>2. m \in Nat /\ 2000 * s <= 2 * (r * m) + r
  <2>1. m \in Rounded(1000 * s, r)
    BY DEF Measured
  <2> QED
    BY <2>1, RoundedIsNear
<1>3. b \in Nat /\ (b <= 1 \/ q * b <= 1000 * Image)
  BY BudgetIsQuotient
<1>4. CASE r = 1
  BY <1>1, <1>2, <1>4
<1>5. CASE r > 1
  <2>1. q * r <= q * b /\ 11 * r <= q * r
    BY <1>3
  <2>2. 11 * r < 1000 * s
    BY <1>1, <1>3, <1>5, <2>1
  <2>3. m >= 11 \/ r * m <= r * 10
    BY <1>2
  <2> QED
    BY <1>2, <2>2, <2>3
<1> QED
  BY <1>4, <1>5
-----------------------------------------------------------------------------
(* The inductive invariant.                                                *)

Planning == pc \in {"check", "sweep", "build", "count"}
InHand == pc \in {"build", "count"}

\* The packer's units are groups of files that share none.
Partition ==
  /\ \A u \in units : u # {}
  /\ \A u, v \in units : u = v \/ u \cap v = {}

\* Next, half way: what it has taken is free and within the budget; and until
\* it takes something, what it has seen is too large for the whole budget.
SweepSound ==
  pc = "sweep" =>
    /\ unseen \subseteq Free /\ chosen \subseteq Free
    /\ total <= budget
    /\ chosen = {} => total = 0 /\ \A u \in Free \ unseen : SizeOf(u) > budget
    /\ attempt = 0 => Oversized(budget) = {}

\* The bin the run holds is the one the packer will accept, and keeps to the
\* budget of the ratio in force.
BinSound ==
  /\ InHand => bin = pending /\ bin.units \subseteq Free /\ bin.raw <= budget
  /\ pc \in {"sweep", "build"} => budget \in RawBudgets(ratio)
  /\ pc = "build" => mode = "backup"
  /\ pc = "count" => mode = "plan"

\* What the packer has left is what is on no disc.
LeftIsOnNoDisc == mode = "backup" /\ Planning => UNION Free = File \ OnDiscs

EachFileOnce ==
  /\ OnDiscs \subseteq File
  /\ \A i, j \in DOMAIN discs : i # j => discs[i].files \cap discs[j].files = {}
  /\ pc = "done" => OnDiscs = File

PlanInv == TypeOK /\ Partition /\ SweepSound /\ BinSound /\ LeftIsOnNoDisc /\ EachFileOnce

\* With no PACK_RATIO below 0.011 no ratio ever is.
SafeRatio(q) == q = 0 \/ q >= 11
RatiosAreSafe ==
  /\ Planning => ratio >= 11
  /\ SafeRatio(savedRatio)
-----------------------------------------------------------------------------
(* Lemmas about the operators.                                             *)

\* New puts every file into one unit.
LEMMA UnitsPartition ==
  ASSUME NEW fs \in SUBSET File
  PROVE  /\ UnitsOf(fs) \in UnitSet
         /\ \A u \in UnitsOf(fs) : u # {}
         /\ \A u, v \in UnitsOf(fs) : u = v \/ u \cap v = {}
         /\ UNION UnitsOf(fs) = fs
<1>1. ASSUME NEW p, NEW q, Linked(p, q)
      PROVE  Linked(q, p)
  BY <1>1 DEF Linked
<1>2. ASSUME NEW p, NEW q, NEW r, Linked(p, q), Linked(q, r)
      PROVE  Linked(p, r)
  BY <1>2 DEF Linked
<1>3. UnitsOf(fs) \in UnitSet /\ UNION UnitsOf(fs) = fs /\ \A u \in UnitsOf(fs) : u # {}
  BY DEF UnitsOf, UnitSet
<1>4. ASSUME NEW p \in fs, NEW q \in fs,
             NEW x, x \in {y \in fs : y = p \/ Linked(p, y)}, x \in {y \in fs : y = q \/ Linked(q, y)}
      PROVE  {y \in fs : y = p \/ Linked(p, y)} = {y \in fs : y = q \/ Linked(q, y)}
  BY <1>1, <1>2, <1>4
<1>5. \A u, v \in UnitsOf(fs) : u = v \/ u \cap v = {}
  BY <1>4 DEF UnitsOf
<1> QED
  BY <1>3, <1>5

\* Sets of files have a smallest; this is what induction over files rests on:
\* a smallest set of which a claim fails is a contradiction.
LEMMA SmallestSet ==
  ASSUME NEW S, IsFiniteSet(S), NEW T, T \subseteq SUBSET S, T # {}
  PROVE  \E m \in T : \A y \in T : y \subseteq m => y = m
<1>1. IsWellFoundedOn(StrictSubsetOrdering(S), SUBSET S)
  BY FS_StrictSubsetOrderingWellFounded, FS_FiniteSubsetsOfFinite
<1>2. PICK m \in T : \A y \in T : <<y, m>> \notin StrictSubsetOrdering(S)
  BY <1>1, WFMin
<1>3. \A y \in T : y \subseteq m => y = m
  BY <1>2 DEF StrictSubsetOrdering
<1> QED
  BY <1>3

LEMMA SizesAreNat ==
  ASSUME TypeOK
  PROVE  \A p \in File : tree[p].size \in Nat
  BY PlannerAssumption DEF TypeOK, Entry

\* Any group of files has a largest.
LEMMA LargestFile ==
  ASSUME TypeOK, NEW u \in SUBSET File, u # {}
  PROVE  \E p \in u : \A q \in u : tree[q].size <= tree[p].size
<1> DEFINE larger(p) == {q \in u : tree[q].size > tree[p].size}
           T == {larger(p) : p \in u}
<1>1. PICK m \in T : \A y \in T : y \subseteq m => y = m
  <2>1. T \subseteq SUBSET File /\ T # {}
    OBVIOUS
  <2> HIDE DEF T
  <2> QED
    BY <2>1, FilesAssumption, SmallestSet
<1>2. PICK p \in u : m = larger(p)
  OBVIOUS
<1>3. ASSUME NEW q \in u, tree[q].size > tree[p].size
      PROVE  FALSE
  <2>1. larger(q) \subseteq larger(p) /\ q \in larger(p) /\ q \notin larger(q)
    BY <1>3, SizesAreNat
  <2>2. larger(q) = larger(p)
    BY <1>1, <1>2, <2>1
  <2> HIDE DEF larger
  <2> QED
    BY <2>1, <2>2
<1> QED
  BY <1>3, SizesAreNat

LEMMA SizeIsNat ==
  ASSUME TypeOK, NEW u \in SUBSET File, u # {}
  PROVE  SizeOf(u) \in Nat
  BY LargestFile, SizesAreNat DEF SizeOf

LEMMA ImagesAreNat ==
  ASSUME TypeOK, NEW fs \in SUBSET File
  PROVE  ImageSize(tree, fs) \in Nat
  BY ImageAssumption DEF TypeOK

LEMMA MeasuredAreNat ==
  ASSUME NEW s \in Nat, NEW r \in Nat, NEW m \in Measured(s, r)
  PROVE  m \in Nat
<1>1. CASE r = 0
  BY <1>1 DEF Measured
<1>2. CASE r # 0
  <2>1. 1000 * s \in Nat /\ m \in Rounded(1000 * s, r)
    BY <1>2 DEF Measured
  <2> QED
    BY <1>2, <2>1, RoundedIsNear
<1> QED
  BY <1>1, <1>2

LEMMA ShrinkRatiosAreNat ==
  ASSUME NEW s \in Nat, NEW r \in Nat, NEW q \in ShrinkRatios(s, r)
  PROVE  q \in Nat
<1>1. PICK m \in Measured(s, r) : q \in Rounded(21 * m, 20)
  BY DEF ShrinkRatios
<1>2. 21 * m \in Nat
  BY MeasuredAreNat
<1> QED
  BY <1>1, <1>2, RoundedIsNear

LEMMA RecentIsSequence ==
  ASSUME NEW ms \in Seq(Nat)
  PROVE  Recent(ms) \in Seq(Nat)
  BY PlannerAssumption DEF Recent

\* An estimate is at least ratioFloor.
LEMMA EstimatesAreFloored ==
  ASSUME NEW w \in Seq(Nat), NEW q \in Estimates(w)
  PROVE  q \in Nat /\ q >= 20
<1>1. PICK i \in DOMAIN w : \E k \in Rounded(Ceiled(w[i]) * Margin, 1000) : q = Floored(k)
  BY DEF Estimates
<1>2. Ceiled(w[i]) * Margin \in Nat
  <2>1. Ceiled(w[i]) \in Nat /\ Margin \in Nat
    BY PlannerAssumption DEF Ceiled
  <2> QED
    BY <2>1
<1>3. PICK k \in Rounded(Ceiled(w[i]) * Margin, 1000) : q = Floored(k)
  BY <1>1
<1>4. k \in Nat
  BY <1>2, RoundedIsNear
<1> QED
  BY <1>3, <1>4 DEF Floored
-----------------------------------------------------------------------------
(* Each step keeps the invariant.                                          *)

LEMMA InitHolds == Init => PlanInv
<1> SUFFICES ASSUME Init PROVE PlanInv
  OBVIOUS
<1>1. TypeOK
  BY PlannerAssumption DEF Init, TypeOK, UnitSet, Bin, NoBin
<1>2. Partition /\ SweepSound /\ BinSound /\ LeftIsOnNoDisc
  BY DEF Init, Partition, SweepSound, BinSound, InHand, LeftIsOnNoDisc, Planning
<1>3. EachFileOnce
  BY DEF Init, EachFileOnce, OnDiscs
<1> QED
  BY <1>1, <1>2, <1>3 DEF PlanInv

LEMMA BeginStep ==
  ASSUME PlanInv, NEW m \in {"plan", "backup"}, NEW r \in PackRatios, Begin(m, r)
  PROVE  PlanInv'
<1> USE DEF Begin, fixed, staging
<1> DEFINE fs == IF m = "plan" THEN File ELSE File \ OnDiscs
<1>1. fs \in SUBSET File
  OBVIOUS
<1>2. units' \in UnitSet /\ UNION units' = fs /\ Partition'
  <2>1. units' = UnitsOf(fs)
    OBVIOUS
  <2> HIDE DEF fs
  <2>2. /\ UnitsOf(fs) \in UnitSet
        /\ \A u \in UnitsOf(fs) : u # {}
        /\ \A u, v \in UnitsOf(fs) : u = v \/ u \cap v = {}
        /\ UNION UnitsOf(fs) = fs
    BY <1>1, UnitsPartition
  <2> QED
    BY <2>1, <2>2 DEF Partition
<1>3. ratio' \in Nat /\ measured' \in Seq(Nat)
  BY PlannerAssumption DEF PlanInv, TypeOK, StartingRatio, Carried
<1>4. TypeOK'
  <2>1. /\ tree' \in Trees /\ adapt' \in BOOLEAN
        /\ discs' \in Seq(Disc) /\ savedRatio' \in Nat /\ savedMeasured' \in Seq(Nat)
        /\ advice' \in Nat
    BY DEF PlanInv, TypeOK
  <2>2. /\ attempt' \in 0 .. MaxShrinkAttempts /\ budget' \in Nat /\ conf' \in Nat
        /\ total' \in Nat /\ planned' \in Nat /\ runs' \in 0 .. MaxRuns
    BY PlannerAssumption DEF PlanInv, TypeOK
  <2>3. /\ bin' \in Bin /\ pending' \in Bin
        /\ assigned' \in UnitSet /\ unseen' \in UnitSet /\ chosen' \in UnitSet
    BY DEF Bin, NoBin, UnitSet
  <2>4. pc' \in {"off", "check", "sweep", "build", "count", "done"} /\ mode' \in {"plan", "backup"}
    OBVIOUS
  <2> QED
    BY <1>2, <1>3, <2>1, <2>2, <2>3, <2>4 DEF TypeOK
<1>5. SweepSound' /\ BinSound'
  BY DEF SweepSound, BinSound, InHand
<1>6. OnDiscs' = OnDiscs
  BY DEF OnDiscs
<1>7. LeftIsOnNoDisc'
  <2>1. Free' = units'
    BY DEF Free
  <2> QED
    BY <1>2, <1>6, <2>1 DEF LeftIsOnNoDisc
<1>8. EachFileOnce'
  BY <1>6 DEF PlanInv, EachFileOnce
<1> QED
  BY <1>2, <1>4, <1>5, <1>7, <1>8 DEF PlanInv

\* A run that ends early, however it does, leaves what it had.
LEMMA FailStep ==
  ASSUME PlanInv, Fail, advice' \in Nat
  PROVE  PlanInv'
<1> USE DEF Fail, fixed, staging, runner, packer, sweep
<1>1. TypeOK'
  BY DEF PlanInv, TypeOK
<1>2. Partition' /\ SweepSound' /\ BinSound' /\ LeftIsOnNoDisc'
  BY DEF PlanInv, Partition, SweepSound, BinSound, InHand, LeftIsOnNoDisc, Planning
<1>3. EachFileOnce'
  BY DEF PlanInv, EachFileOnce, OnDiscs
<1> QED
  BY <1>1, <1>2, <1>3 DEF PlanInv

LEMMA TakeStep ==
  ASSUME PlanInv, NEW u \in unseen, Take(u)
  PROVE  PlanInv'
<1> USE DEF Take, Turn, fixed, staging, runner, packer, operator
<1>1. u \in Free /\ u \in SUBSET File /\ u # {} /\ SizeOf(u) \in Nat
  <2>1. u \in Free /\ u \in SUBSET File /\ u # {}
    BY DEF PlanInv, SweepSound, Partition, Free, TypeOK, UnitSet
  <2> QED
    BY <2>1, SizeIsNat DEF PlanInv
<1>2. total' \in Nat /\ total' <= budget
  BY <1>1 DEF PlanInv, TypeOK
<1>3. Free' = Free /\ Oversized(budget)' = Oversized(budget)
  BY DEF Free, Oversized, SizeOf
<1>4. TypeOK'
  BY <1>1, <1>2 DEF PlanInv, TypeOK, UnitSet
<1>5. SweepSound'
  BY <1>1, <1>2, <1>3 DEF PlanInv, SweepSound
<1>6. Partition' /\ BinSound'
  BY <1>3 DEF PlanInv, Partition, BinSound, InHand
<1>7. LeftIsOnNoDisc' /\ EachFileOnce'
  BY <1>3 DEF PlanInv, LeftIsOnNoDisc, Planning, EachFileOnce, OnDiscs
<1> QED
  BY <1>4, <1>5, <1>6, <1>7 DEF PlanInv

LEMMA SkipStep ==
  ASSUME PlanInv, NEW u \in unseen, Skip(u)
  PROVE  PlanInv'
<1> USE DEF Skip, Turn, fixed, staging, runner, packer, operator
<1>1. Free' = Free /\ Oversized(budget)' = Oversized(budget) /\ \A v : SizeOf(v)' = SizeOf(v)
  BY DEF Free, Oversized, SizeOf
<1>2. TypeOK'
  BY DEF PlanInv, TypeOK, UnitSet
<1>3. SweepSound'
  <2>1. chosen = {} => \A v \in Free \ unseen' : SizeOf(v) > budget
    BY DEF PlanInv, TypeOK, SweepSound
  <2> QED
    BY <1>1, <2>1 DEF PlanInv, SweepSound
<1>4. Partition' /\ BinSound'
  BY <1>1 DEF PlanInv, Partition, BinSound, InHand
<1>5. LeftIsOnNoDisc' /\ EachFileOnce'
  BY <1>1 DEF PlanInv, LeftIsOnNoDisc, Planning, EachFileOnce, OnDiscs
<1> QED
  BY <1>2, <1>3, <1>4, <1>5 DEF PlanInv

LEMMA OfferStep ==
  ASSUME PlanInv, Offer
  PROVE  PlanInv'
<1> USE DEF Offer, Swept, fixed, staging, sweep, operator
<1>1. Free' = Free
  BY DEF Free
<1>2. pending' \in Bin
  BY DEF PlanInv, TypeOK, Bin
<1>3. TypeOK'
  BY <1>2 DEF PlanInv, TypeOK
<1>4. SweepSound' /\ Partition'
  BY DEF PlanInv, SweepSound, Partition
<1>5. BinSound'
  BY <1>1 DEF PlanInv, TypeOK, BinSound, InHand, SweepSound
<1>6. LeftIsOnNoDisc' /\ EachFileOnce'
  BY <1>1 DEF PlanInv, LeftIsOnNoDisc, Planning, EachFileOnce, OnDiscs
<1> QED
  BY <1>3, <1>4, <1>5, <1>6 DEF PlanInv

\* A sweep that starts after the budget has been checked, or in a re-plan.
LEMMA StartNextStep ==
  ASSUME PlanInv, StartNext, UNCHANGED <<fixed, staging, mode, measured, bin, operator>>,
         pc \in {"check", "build"},
         ratio' \in Nat, budget' \in RawBudgets(ratio'),
         attempt' \in 0 .. MaxShrinkAttempts, attempt' = 0 => Oversized(budget') = {}
  PROVE  PlanInv'
<1> USE DEF StartNext, fixed, staging, operator
<1>1. Free' = Free /\ \A b : Oversized(b)' = Oversized(b')
  BY DEF Free, Oversized, SizeOf
<1>2. budget' \in Nat
  BY BudgetIsQuotient
<1>3. TypeOK'
  BY <1>2 DEF PlanInv, TypeOK, UnitSet, Bin, NoBin, Free
<1>4. SweepSound'
  BY <1>1, <1>2 DEF SweepSound
<1>5. Partition' /\ BinSound'
  BY DEF PlanInv, Partition, BinSound, InHand
<1>6. LeftIsOnNoDisc' /\ EachFileOnce'
  BY <1>1 DEF PlanInv, LeftIsOnNoDisc, Planning, EachFileOnce, OnDiscs
<1> QED
  BY <1>3, <1>4, <1>5, <1>6 DEF PlanInv
\* Committing the bin in hand takes its files, and no others, from what is left.
LEMMA CommitTakesTheBin ==
  ASSUME PlanInv, InHand, Commit
  PROVE  /\ Partition' /\ assigned' \in UnitSet /\ pending' \in Bin
         /\ UNION bin.units \subseteq UNION Free
         /\ UNION Free' = (UNION Free) \ (UNION bin.units)
<1>1. /\ bin.units \subseteq Free /\ Free \subseteq units
      /\ bin.units \in UnitSet /\ assigned \in UnitSet
  BY DEF PlanInv, BinSound, Free, TypeOK, Bin
<1>2. Partition' /\ assigned' \in UnitSet /\ pending' \in Bin
  BY <1>1 DEF PlanInv, Commit, Partition, UnitSet, Bin, NoBin
<1>3. Free' = Free \ bin.units
  BY DEF Commit, Free
<1>4. \A u, v \in Free : u = v \/ u \cap v = {}
  BY <1>1 DEF PlanInv, Partition
<1>5. UNION (Free \ bin.units) = (UNION Free) \ (UNION bin.units)
  BY <1>1, <1>4
<1> QED
  BY <1>1, <1>2, <1>3, <1>5

LEMMA CountDiscStep ==
  ASSUME PlanInv, CountDisc
  PROVE  PlanInv'
<1> USE DEF CountDisc, fixed, staging, runner, sweep
<1>1. Partition' /\ assigned' \in UnitSet /\ pending' \in Bin
  BY CommitTakesTheBin DEF InHand
<1>2. TypeOK'
  BY <1>1 DEF PlanInv, TypeOK, Commit
<1>3. mode = "plan"
  BY DEF PlanInv, BinSound
<1> QED
  BY <1>1, <1>2, <1>3
     DEF PlanInv, SweepSound, BinSound, InHand, LeftIsOnNoDisc, EachFileOnce, OnDiscs

LEMMA AdaptTypes ==
  ASSUME TypeOK, NEW m \in Nat, Adapt(m)
  PROVE  ratio' \in Nat /\ measured' \in Seq(Nat) /\ (ratio' # ratio => ratio' >= 20)
<1>1. CASE adapt /\ m > 0
  <2>1. ratio' \in Estimates(Recent(measured')) /\ measured' = Append(measured, m)
    BY <1>1 DEF Adapt
  <2>2. measured' \in Seq(Nat)
    BY <2>1 DEF TypeOK
  <2>3. Recent(measured') \in Seq(Nat)
    BY <2>2, RecentIsSequence
  <2> QED
    BY <2>1, <2>2, <2>3, EstimatesAreFloored
<1>2. CASE ~(adapt /\ m > 0)
  BY <1>2 DEF TypeOK, Adapt
<1> QED
  BY <1>1, <1>2

LEMMA AcceptDiscStep ==
  ASSUME PlanInv, AcceptDisc
  PROVE  PlanInv'
<1> USE DEF AcceptDisc, fixed, sweep
<1>1. /\ Partition' /\ assigned' \in UnitSet /\ pending' \in Bin
      /\ UNION bin.units \subseteq UNION Free
      /\ UNION Free' = (UNION Free) \ (UNION bin.units)
  BY CommitTakesTheBin DEF InHand
<1>2. UNION Free = File \ OnDiscs
  BY DEF PlanInv, BinSound, LeftIsOnNoDisc, Planning
<1>3. Built \in Nat /\ bin.raw \in Nat /\ UNION bin.units \in SUBSET File
  <2>1. UNION bin.units \in SUBSET File /\ bin.raw \in Nat
    BY <1>1, <1>2 DEF PlanInv, TypeOK, Bin
  <2> QED
    BY <2>1, ImagesAreNat DEF Built, PlanInv
<1>4. PICK m \in Measured(Built, bin.raw) :
        /\ Adapt(m)
        /\ discs' = Append(discs, [files |-> UNION bin.units, raw |-> bin.raw,
                                   ratio |-> ratio, measured |-> m])
  OBVIOUS
<1> DEFINE d == [files |-> UNION bin.units, raw |-> bin.raw, ratio |-> ratio, measured |-> m]
<1>5. m \in Nat
  BY <1>3, MeasuredAreNat
<1>6. ratio' \in Nat /\ measured' \in Seq(Nat)
  BY <1>4, <1>5, AdaptTypes DEF PlanInv
<1>7. d \in Disc /\ discs \in Seq(Disc) /\ d.files = UNION bin.units
  BY <1>3, <1>5 DEF PlanInv, TypeOK, Disc
<1> HIDE DEF d
<1>8. /\ discs' \in Seq(Disc) /\ DOMAIN discs' = 1 .. Len(discs) + 1 /\ DOMAIN discs = 1 .. Len(discs)
      /\ \A i \in 1 .. Len(discs) : discs'[i] = discs[i]
      /\ discs'[Len(discs) + 1] = d /\ Len(discs) \in Nat
  BY <1>4, <1>7 DEF d
<1>9. OnDiscs' = OnDiscs \cup d.files
  BY <1>8 DEF OnDiscs
<1>10. TypeOK'
  BY <1>1, <1>6, <1>8 DEF PlanInv, TypeOK, Commit
<1>11. EachFileOnce'
  <2>1. d.files \cap OnDiscs = {} /\ d.files \subseteq File
    BY <1>1, <1>2, <1>7
  <2>2. \A i \in DOMAIN discs : discs[i].files \subseteq OnDiscs
    BY DEF OnDiscs
  <2>3. \A i, j \in DOMAIN discs' : i # j => discs'[i].files \cap discs'[j].files = {}
    BY <1>8, <2>1, <2>2 DEF PlanInv, EachFileOnce
  <2> QED
    BY <1>9, <2>1, <2>3 DEF PlanInv, EachFileOnce
<1>12. LeftIsOnNoDisc'
  BY <1>1, <1>2, <1>7, <1>9 DEF LeftIsOnNoDisc
<1>13. SweepSound' /\ BinSound'
  BY DEF SweepSound, BinSound, InHand
<1> QED
  BY <1>1, <1>10, <1>11, <1>12, <1>13 DEF PlanInv

LEMMA FinishStep ==
  ASSUME PlanInv, Finish
  PROVE  PlanInv'
<1> USE DEF Finish, Swept, fixed, staging, runner, packer, sweep, operator
<1>1. Free = {}
  BY DEF PlanInv, SweepSound, Oversized
<1>2. mode = "backup" => OnDiscs = File
  BY <1>1 DEF PlanInv, LeftIsOnNoDisc, Planning, EachFileOnce
<1>3. TypeOK'
  BY DEF PlanInv, TypeOK
<1>4. EachFileOnce'
  BY <1>2 DEF PlanInv, TypeOK, EachFileOnce, OnDiscs
<1> QED
  BY <1>3, <1>4
     DEF PlanInv, Partition, SweepSound, BinSound, InHand, LeftIsOnNoDisc, Planning

LEMMA PlanDiscStep ==
  ASSUME PlanInv, PlanDisc
  PROVE  PlanInv'
<1>1. Oversized(budget') = {}
  BY DEF PlanDisc
<1> QED
  BY <1>1, StartNextStep, PlannerAssumption DEF PlanDisc, PlanInv, TypeOK

LEMMA OvershotTypes ==
  ASSUME PlanInv, Overshot
  PROVE  Built \in Nat /\ bin.raw \in Nat
<1>1. UNION bin.units \in SUBSET File /\ bin.raw \in Nat
  BY DEF PlanInv, TypeOK, Bin, UnitSet
<1> QED
  BY <1>1, ImagesAreNat DEF Built, PlanInv

LEMMA ShrinkStep ==
  ASSUME PlanInv, Shrink
  PROVE  PlanInv'
<1>1. ratio' \in Nat
  BY OvershotTypes, ShrinkRatiosAreNat DEF Shrink
<1>2. attempt' \in 0 .. MaxShrinkAttempts /\ attempt' # 0
  BY PlannerAssumption DEF Shrink, PlanInv, TypeOK
<1> QED
  BY <1>1, <1>2, StartNextStep DEF Shrink, Overshot
LEMMA StutterStep ==
  ASSUME PlanInv, UNCHANGED vars
  PROVE  PlanInv'
<1> USE DEF vars, fixed, staging, runner, packer, sweep, operator
<1>1. TypeOK' /\ Partition'
  BY DEF PlanInv, TypeOK, Partition
<1>2. Free' = Free /\ OnDiscs' = OnDiscs /\ Oversized(budget)' = Oversized(budget)
      /\ \A u : SizeOf(u)' = SizeOf(u)
  BY DEF Free, OnDiscs, Oversized, SizeOf
<1>3. SweepSound' /\ BinSound' /\ LeftIsOnNoDisc' /\ EachFileOnce'
  BY <1>2 DEF PlanInv, SweepSound, BinSound, InHand, LeftIsOnNoDisc, Planning, EachFileOnce
<1> QED
  BY <1>1, <1>3 DEF PlanInv

LEMMA PlanInvStep == PlanInv /\ [Next]_vars => PlanInv'
<1> SUFFICES ASSUME PlanInv, [Next]_vars PROVE PlanInv'
  OBVIOUS
<1>1. CASE \E m \in {"plan", "backup"}, r \in PackRatios : Begin(m, r)
  BY <1>1, BeginStep
<1>2. CASE \E u \in unseen : Take(u) \/ Skip(u)
  BY <1>2, TakeStep, SkipStep
<1>3. CASE Offer
  BY <1>3, OfferStep
<1>4. CASE EmptyBin \/ RefuseOversized \/ Stop
  <2>1. Fail /\ advice' = advice
    BY <1>4 DEF EmptyBin, RefuseOversized, Stop
  <2>2. advice' \in Nat
    BY <2>1 DEF PlanInv, TypeOK
  <2> QED
    BY <2>1, <2>2, FailStep
<1>5. CASE GiveUp
  <2>1. advice' \in Nat
    BY <1>5, OvershotTypes, ShrinkRatiosAreNat DEF GiveUp
  <2> QED
    BY <1>5, <2>1, FailStep DEF GiveUp
<1>6. CASE PlanDisc
  BY <1>6, PlanDiscStep
<1>7. CASE CountDisc
  BY <1>7, CountDiscStep
<1>8. CASE AcceptDisc
  BY <1>8, AcceptDiscStep
<1>9. CASE Shrink
  BY <1>9, ShrinkStep
<1>10. CASE Finish
  BY <1>10, FinishStep
<1>11. CASE UNCHANGED vars
  BY <1>11, StutterStep
<1> QED
  BY <1>1, <1>2, <1>3, <1>4, <1>5, <1>6, <1>7, <1>8, <1>9, <1>10, <1>11 DEF Next, Run, Over

-----------------------------------------------------------------------------
(* Theorems.                                                               *)

\* What packing, shrinking, stopping and resuming keep true of units, bins,
\* budgets and discs, for any files, sizes, settings and number of runs.
THEOREM PlanInvHolds == Spec => []PlanInv
<1>1. Init => PlanInv
  BY InitHolds
<1>2. PlanInv /\ [Next]_vars => PlanInv'
  BY PlanInvStep
<1> QED
  BY <1>1, <1>2, PTL DEF Spec

\* The variables of the planner keep their types: no step of the loop makes a
\* budget, a ratio or an attempt that is not one.
THEOREM PlannerTypes == Spec => []TypeOK
<1>1. PlanInv => TypeOK
  BY DEF PlanInv
<1> QED
  BY <1>1, PlanInvHolds, PTL

\* buildDiscs ends well only when every file is on exactly one disc, whatever
\* was shrunk, refused or interrupted on the way.
THEOREM EveryFileIsPlanned == Spec => []EverythingPlanned
<1>1. PlanInv => EverythingPlanned
  BY DEF PlanInv, EachFileOnce, EverythingPlanned
<1> QED
  BY <1>1, PlanInvHolds, PTL

\* Ratios never fall below what the shrink loop needs, unless the operator
\* configures one that does.
LEMMA RatiosStaySafe ==
  ASSUME \A q \in PackRatios : q >= 11
  PROVE  Spec => []RatiosAreSafe
<1>1. Init => RatiosAreSafe
  BY DEF Init, RatiosAreSafe, Planning, SafeRatio
<1>2. PlanInv /\ RatiosAreSafe /\ [Next]_vars => RatiosAreSafe'
  <2> SUFFICES ASSUME PlanInv, RatiosAreSafe, [Next]_vars
               PROVE  RatiosAreSafe'
    OBVIOUS
  <2> USE DEF RatiosAreSafe, Planning, SafeRatio
  <2>1. ASSUME NEW m \in {"plan", "backup"}, NEW r \in PackRatios, Begin(m, r)
        PROVE  RatiosAreSafe'
    BY <2>1 DEF Begin, staging, StartingRatio
  <2>2. CASE \E u \in unseen : Take(u) \/ Skip(u)
    BY <2>2 DEF Take, Skip, Turn, staging, runner
  <2>3. CASE Offer
    BY <2>3 DEF Offer, Swept, staging
  <2>4. CASE EmptyBin \/ RefuseOversized \/ Stop \/ GiveUp
    BY <2>4 DEF EmptyBin, RefuseOversized, Stop, GiveUp, Fail, staging, runner
  <2>5. CASE PlanDisc
    BY <2>5 DEF PlanDisc, StartNext, staging
  <2>6. CASE CountDisc
    BY <2>6 DEF CountDisc, staging, runner
  <2>7. CASE AcceptDisc
    <3>1. PICK m \in Measured(Built, bin.raw) : Adapt(m)
      BY <2>7 DEF AcceptDisc
    <3>2. m \in Nat
      <4>1. UNION bin.units \in SUBSET File /\ bin.raw \in Nat
        BY DEF PlanInv, TypeOK, Bin, UnitSet
      <4> QED
        BY <4>1, ImagesAreNat, MeasuredAreNat DEF Built, PlanInv
    <3>3. ratio' \in Nat /\ ratio' >= 11
      <4>1. ratio \in Nat /\ ratio >= 11
        BY <2>7 DEF AcceptDisc, PlanInv, TypeOK
      <4>2. ratio' \in Nat /\ (ratio' # ratio => ratio' >= 20)
        BY <3>1, <3>2, AdaptTypes DEF PlanInv
      <4> QED
        BY <4>1, <4>2
    <3> QED
      BY <2>7, <3>3 DEF AcceptDisc
  <2>8. CASE Shrink
    <3>1. Built \in Nat /\ Built > Image /\ bin.raw \in Nat
      BY <2>8, OvershotTypes DEF Shrink, Overshot
    <3>2. PICK m \in Measured(Built, bin.raw) : ratio' \in Rounded(21 * m, 20)
      BY <2>8 DEF Shrink, ShrinkRatios
    <3>3. m \in Nat /\ m >= 11
      <4>1. CASE bin.raw = 0
        BY <4>1 DEF Measured
      <4>2. CASE bin.raw # 0
        <5>1. budget \in RawBudgets(ratio) /\ bin.raw <= budget /\ ratio >= 11 /\ ratio \in Nat
          BY <2>8 DEF Shrink, Overshot, PlanInv, TypeOK, BinSound, InHand
        <5> QED
          BY <3>1, <4>2, <5>1, OvershootMeasures, MeasuredAreNat
      <4> QED
        BY <3>1, <4>1, <4>2
    <3>4. ratio' \in Nat /\ ratio' >= 11
      <4>1. 21 * m \in Nat /\ 20 \in Nat \ {0}
        BY <3>3
      <4>2. ratio' \in Nat /\ 2 * (21 * m) <= 2 * (20 * ratio') + 20
        BY <3>2, <4>1, RoundedIsNear
      <4>3. ASSUME NEW q \in Nat, 2 * (21 * m) <= 2 * (20 * q) + 20
            PROVE  q >= 11
        BY <3>3, <4>3
      <4> QED
        BY <4>2, <4>3
    <3> QED
      BY <2>8, <3>4 DEF Shrink, StartNext, staging
  <2>9. CASE Finish
    BY <2>9 DEF Finish, Swept, staging, runner
  <2>10. CASE UNCHANGED vars
    BY <2>10 DEF vars, staging, runner
  <2> QED
    BY <2>1, <2>2, <2>3, <2>4, <2>5, <2>6, <2>7, <2>8, <2>9, <2>10 DEF Next, Run, Over
<1> QED
  BY <1>1, <1>2, PlanInvHolds, PTL DEF Spec

\* The property buildImage's loop depends on, for any content and any settings
\* but a PACK_RATIO below 0.011: a re-plan always has a smaller budget than what
\* it replaces.
THEOREM RePlansAreSmaller ==
  ASSUME \A q \in PackRatios : q >= 11
  PROVE  Spec => RePlanIsSmaller
<1>1. PlanInv /\ RatiosAreSafe /\ [Next]_vars
        => [attempt' > attempt => budget' < bin.raw \/ bin.raw <= 1]_vars
  <2> SUFFICES ASSUME PlanInv, RatiosAreSafe, Next, attempt' > attempt, bin.raw > 1
               PROVE  budget' < bin.raw
    BY DEF PlanInv, TypeOK, Bin
  <2>1. Shrink
    <3>1. attempt \in Nat
      BY PlannerAssumption DEF PlanInv, TypeOK
    <3> QED
      BY <3>1
         DEF Next, Run, Over, Begin, Take, Skip, Turn, Offer, EmptyBin, RefuseOversized, Stop, GiveUp,
             Fail, PlanDisc, CountDisc, AcceptDisc, Finish, vars, runner
  <2>2. Built \in Nat /\ Built > Image /\ bin.raw \in Nat
    BY <2>1, OvershotTypes DEF Shrink, Overshot
  <2>3. PICK m \in Measured(Built, bin.raw) : ratio' \in Rounded(21 * m, 20)
    BY <2>1 DEF Shrink, ShrinkRatios
  <2>4. m >= 11
    <3>1. budget \in RawBudgets(ratio) /\ bin.raw <= budget /\ ratio >= 11 /\ ratio \in Nat
      BY <2>1 DEF Shrink, Overshot, PlanInv, TypeOK, BinSound, InHand, RatiosAreSafe, Planning
    <3> QED
      BY <2>2, <2>3, <3>1, OvershootMeasures
  <2> QED
    BY <2>1, <2>2, <2>3, <2>4, ShrinkingShrinks DEF Shrink
<1> QED
  BY <1>1, PlanInvHolds, RatiosStaySafe, PTL DEF Spec, RePlanIsSmaller
=============================================================================
