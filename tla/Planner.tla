------------------------------ MODULE Planner ------------------------------
(***************************************************************************)
(* How files get onto discs: the packer (internal/pack), the loop that     *)
(* builds one disc after another and re-plans a disc whose image came out  *)
(* too large (backup/run.go), the estimate of how well content compresses  *)
(* (backup/ratio.go) and the dry run `brb plan` (backup/backup.go).        *)
(*                                                                         *)
(* Backup leaves out sizes and shows what survives interruptions; here     *)
(* sizes are all there is, and building, protecting and recording a disc   *)
(* whose image fits is one step.                                           *)
(*                                                                         *)
(* Ratios are in thousandths: round3 makes every ratio the program         *)
(* computes one.  The code computes with 64-bit floats.  They can differ   *)
(* from exact arithmetic only where that is at an edge, so Rounded and     *)
(* RawBudgets are sets: both neighbours of a tie, and the quotient or one  *)
(* less where a division by a fraction that floats cannot hold comes out   *)
(* even.                                                                   *)
(***************************************************************************)
EXTENDS Integers, Sequences, FiniteSetsExt

CONSTANTS
  File,               \* the regular files, numbered in the order of their names
  Trees,              \* what the source may be: size and inode of each file
  ImageSize(_, _),    \* mksquashfs: the image of these files of this tree
  Image,              \* budget.Image: what an image may measure
  PackRatios,         \* PACK_RATIO settings to try
  Adapts,             \* PACK_RATIO_ADAPT settings to try
  Window,             \* PACK_RATIO_WINDOW
  Margin,             \* PACK_RATIO_MARGIN, in thousandths
  MaxShrinkAttempts,  \* MAX_SHRINK_ATTEMPTS
  MaxRuns             \* bound: runs of plan and backup

\* scan.Entry, and what mksquashfs makes of the file's bytes.
Entry == [size : Nat, dev : Nat, ino : Nat, nlink : Nat, packed : Nat]

\* What Validate and Compute leave.
ASSUME PlannerAssumption ==
  /\ File \subseteq Nat /\ Trees \subseteq [File -> Entry]
  /\ Image \in Nat \ {0} /\ PackRatios \subseteq Nat \ {0} /\ Adapts \subseteq BOOLEAN
  /\ Window \in Nat \ {0} /\ Margin \in 1000 .. 10000
  /\ MaxShrinkAttempts \in Nat /\ MaxRuns \in Nat

ASSUME FilesAssumption == IsFiniteSet(File)

\* stat tells the same of every name of one file.
ASSUME NamesAssumption ==
  \A t \in Trees : \A p, q \in File :
    t[p].nlink > 1 /\ t[p].ino # 0 /\ t[p].dev = t[q].dev /\ t[p].ino = t[q].ino =>
      t[q].nlink = t[p].nlink /\ t[q].size = t[p].size

ASSUME ImageAssumption == \A t \in Trees : \A fs \in SUBSET File : ImageSize(t, fs) \in Nat

VARIABLES
  tree, adapt,                        \* fixed: the source, and the setting
  discs, savedRatio, savedMeasured,   \* staging: index and state of the set
  pc, mode, ratio, measured,          \* the runner
  bin, attempt, budget,               \* the disc it is planning
  units, assigned, pending,           \* the packer
  unseen, chosen, total,              \* Next, half way
  planned,                            \* what the last dry run printed
  advice,                             \* the PACK_RATIO the last refusal asked for
  conf,                               \* this run's PACK_RATIO
  runs

fixed == <<tree, adapt>>
staging == <<discs, savedRatio, savedMeasured>>
sweep == <<unseen, chosen, total>>
packer == <<units, assigned, pending>>
runner == <<mode, ratio, measured, bin, attempt, budget>>
operator == <<planned, advice, conf, runs>>
vars == <<fixed, staging, pc, runner, packer, sweep, operator>>

UnitSet == SUBSET (SUBSET File)
Bin == [index : Nat, attempt : Nat, units : UnitSet, raw : Nat]
NoBin == [index |-> 0, attempt |-> 0, units |-> {}, raw |-> 0]
Disc == [files : SUBSET File, raw : Nat, ratio : Nat, measured : Nat]

TypeOK ==
  /\ tree \in Trees /\ adapt \in BOOLEAN
  /\ discs \in Seq(Disc) /\ savedRatio \in Nat /\ savedMeasured \in Seq(Nat)
  /\ pc \in {"off", "check", "sweep", "build", "count", "done"} /\ mode \in {"plan", "backup"}
  /\ ratio \in Nat /\ measured \in Seq(Nat)
  /\ bin \in Bin /\ attempt \in 0 .. MaxShrinkAttempts /\ budget \in Nat
  /\ units \in UnitSet /\ assigned \in UnitSet /\ pending \in Bin
  /\ unseen \in UnitSet /\ chosen \in UnitSet /\ total \in Nat
  /\ planned \in Nat /\ advice \in Nat /\ conf \in Nat /\ runs \in 0 .. MaxRuns

-----------------------------------------------------------------------------
(* Ratios and budgets.                                                     *)

\* num / den to the nearest whole number.
Rounded(num, den) ==
  LET near == (2 * num + den) \div (2 * den)
  IN  {near} \cup {k \in {near - 1} : k >= 0 /\ (2 * num + den) % (2 * den) = 0}

AtLeastOne(n) == IF n < 1 THEN 1 ELSE n

\* RawBudget: 125 thousandths is an eighth, and exact.
RawBudgets(q) ==
  IF q = 0 THEN {Image}
  ELSE LET b == (1000 * Image) \div q
       IN  {AtLeastOne(b)} \cup
           {AtLeastOne(k) : k \in {n \in {b - 1} : (1000 * Image) % q = 0 /\ q % 125 # 0}}

Measured(size, raw) == IF raw <= 0 THEN {1000} ELSE Rounded(1000 * size, raw)

\* measuredRatio * 1.05, rounded again.
ShrinkRatios(size, raw) == UNION {Rounded(21 * m, 20) : m \in Measured(size, raw)}

Recent(ms) == IF Len(ms) > Window THEN SubSeq(ms, Len(ms) - Window + 1, Len(ms)) ELSE ms

\* The larger of a ratio and ratioFloor, and the smaller of one and ratioCeil.
Floored(q) == IF q < 20 THEN 20 ELSE q
Ceiled(q) == IF q > 1000 THEN 1000 ELSE q

\* The mistake ratioCeil's comment tells of: the estimate clamped, not the
\* measurement.
EstimatesClampedLate(w) ==
  UNION {{Ceiled(Floored(q)) : q \in Rounded(w[i] * Margin, 1000)} :
           i \in {i \in DOMAIN w : \A j \in DOMAIN w : w[j] <= w[i]}}

\* observe, for a nonempty window.
Estimates(w) ==
  UNION {{Floored(q) : q \in Rounded(Ceiled(w[i]) * Margin, 1000)} :
           i \in {i \in DOMAIN w : \A j \in DOMAIN w : w[j] <= w[i]}}

-----------------------------------------------------------------------------
(* Units.                                                                  *)

\* Grouping on the inode number alone.
LinkedByInode(p, q) ==
  /\ tree[p].nlink > 1 /\ tree[p].ino # 0 /\ tree[q].nlink > 1
  /\ tree[p].ino = tree[q].ino

\* New puts two names into one unit.
Linked(p, q) ==
  /\ tree[p].nlink > 1 /\ tree[p].ino # 0 /\ tree[q].nlink > 1
  /\ tree[p].dev = tree[q].dev /\ tree[p].ino = tree[q].ino

UnitsOf(fs) == {{q \in fs : q = p \/ Linked(p, q)} : p \in fs}

SizeOf(u) == LET p == CHOOSE p \in u : \A q \in u : tree[q].size <= tree[p].size
             IN  tree[p].size

\* The order of New's sort.
Before(u, v) == \/ SizeOf(u) > SizeOf(v)
                \/ SizeOf(u) = SizeOf(v) /\ \E p \in u : \A q \in v : p < q

Free == units \ assigned

\* Packing without asking whether everything fits somewhere.
NothingOversized(b) == {}

Oversized(b) == {u \in Free : SizeOf(u) > b}

OnDiscs == UNION {discs[i].files : i \in DOMAIN discs}

-----------------------------------------------------------------------------
Init ==
  /\ tree \in Trees /\ adapt \in Adapts
  /\ discs = <<>> /\ savedRatio = 0 /\ savedMeasured = <<>>
  /\ pc = "off" /\ mode = "plan" /\ ratio = 0 /\ measured = <<>>
  /\ bin = NoBin /\ attempt = 0 /\ budget = 0
  /\ units = {} /\ assigned = {} /\ pending = NoBin
  /\ unseen = {} /\ chosen = {} /\ total = 0
  /\ planned = 0 /\ advice = 0 /\ conf = 0 /\ runs = 0

\* resumeRatio, which a fresh set and a dry run do not call.
StartingRatio(m, r) == IF m = "backup" /\ discs # <<>> /\ savedRatio > 0 THEN savedRatio ELSE r

\* A resume that forgets what was measured.
NothingCarried(m) == <<>>

\* carry, which keeps everything a run saved itself.
Carried(m) == IF m = "backup" /\ discs # <<>> THEN savedMeasured ELSE <<>>

\* newRunner, resumeFilter's view of what is on discs, and New.
Begin(m, r) ==
  /\ pc = "off" /\ runs < MaxRuns
  /\ runs' = runs + 1 /\ mode' = m /\ conf' = r
  /\ ratio' = StartingRatio(m, r) /\ measured' = Carried(m)
  /\ units' = UnitsOf(IF m = "plan" THEN File ELSE File \ OnDiscs)
  /\ assigned' = {} /\ pending' = NoBin
  /\ bin' = NoBin /\ attempt' = 0 /\ budget' = 0
  /\ unseen' = {} /\ chosen' = {} /\ total' = 0
  /\ planned' = IF m = "plan" THEN 0 ELSE planned
  /\ pc' = "check"
  /\ UNCHANGED <<fixed, staging, advice>>

\* An error return, or a signal.  A dry run that fails prints no number.
Fail == /\ pc' = "off"
        /\ planned' = IF mode = "plan" THEN 0 ELSE planned
        /\ UNCHANGED <<fixed, staging, runner, packer, sweep, conf, runs>>

-----------------------------------------------------------------------------
(* Packer.Next, one unit at a time.                                        *)

StartNext ==
  /\ unseen' = Free /\ chosen' = {} /\ total' = 0
  /\ pending' = NoBin
  /\ pc' = "sweep"
  /\ UNCHANGED <<units, assigned>>

Turn(u) == pc = "sweep" /\ u \in unseen /\ \A v \in unseen \ {u} : Before(u, v)

Take(u) ==
  /\ Turn(u) /\ SizeOf(u) <= budget - total
  /\ unseen' = unseen \ {u} /\ chosen' = chosen \cup {u} /\ total' = total + SizeOf(u)
  /\ UNCHANGED <<fixed, staging, pc, runner, packer, operator>>

Skip(u) ==
  /\ Turn(u) /\ SizeOf(u) > budget - total
  /\ unseen' = unseen \ {u}
  /\ UNCHANGED <<fixed, staging, pc, runner, packer, chosen, total, operator>>

Swept == pc = "sweep" /\ unseen = {}

Offer ==
  /\ Swept /\ chosen # {}
  /\ pending' = [index |-> Len(discs) + 1, attempt |-> attempt, units |-> chosen, raw |-> total]
  /\ bin' = pending'
  /\ pc' = IF mode = "plan" THEN "count" ELSE "build"
  /\ UNCHANGED <<fixed, staging, mode, ratio, measured, attempt, budget, units, assigned, sweep, operator>>

\* emptyBinError.
EmptyBin == Swept /\ chosen = {} /\ attempt > 0 /\ Fail /\ UNCHANGED advice

\* Commit, of the bin last offered.
Commit == assigned' = assigned \cup bin.units /\ pending' = NoBin /\ UNCHANGED units

-----------------------------------------------------------------------------
(* buildDiscs, oneDisc, buildImage, and layout, which is buildDiscs with   *)
(* nothing built.                                                          *)

RefuseOversized ==
  /\ pc = "check"
  /\ \E b \in RawBudgets(ratio) : Oversized(b) # {}
  /\ Fail /\ UNCHANGED advice

PlanDisc ==
  /\ pc = "check"
  /\ budget' \in RawBudgets(ratio) /\ Oversized(budget') = {}
  /\ attempt' = 0
  /\ StartNext
  /\ UNCHANGED <<fixed, staging, mode, ratio, measured, bin, operator>>

CountDisc ==
  /\ pc = "count" /\ bin = pending
  /\ Commit
  /\ planned' = planned + 1
  /\ pc' = "check"
  /\ UNCHANGED <<fixed, staging, runner, sweep, advice, conf, runs>>

Built == ImageSize(tree, UNION bin.units)

\* adapt.
Adapt(m) ==
  IF adapt /\ m > 0
  THEN measured' = Append(measured, m) /\ ratio' \in Estimates(Recent(measured'))
  ELSE UNCHANGED <<measured, ratio>>

AcceptDisc ==
  /\ pc = "build" /\ Built <= Image /\ bin = pending
  /\ \E m \in Measured(Built, bin.raw) :
       /\ Adapt(m)
       /\ discs' = Append(discs, [files |-> UNION bin.units, raw |-> bin.raw,
                                  ratio |-> ratio, measured |-> m])
  /\ Commit
  /\ savedRatio' = ratio' /\ savedMeasured' = measured'
  /\ advice' = 0
  /\ pc' = "check"
  /\ UNCHANGED <<fixed, mode, bin, attempt, budget, sweep, planned, conf, runs>>

Overshot == pc = "build" /\ Built > Image

\* An image rebuilt as it was.
RetryAsItIs == Overshot /\ UNCHANGED vars

\* The new ratio put into force after the budget has been taken from the old.
ShrinkKeepingBudget ==
  /\ Overshot /\ attempt < MaxShrinkAttempts
  /\ attempt' = attempt + 1
  /\ ratio' \in ShrinkRatios(Built, bin.raw)
  /\ budget' \in RawBudgets(ratio)
  /\ StartNext
  /\ UNCHANGED <<fixed, staging, mode, measured, bin, operator>>

\* One attempt more than configured.
ShrinkOnceMore ==
  /\ Overshot /\ attempt <= MaxShrinkAttempts
  /\ attempt' = attempt + 1
  /\ ratio' \in ShrinkRatios(Built, bin.raw)
  /\ budget' \in RawBudgets(ratio')
  /\ StartNext
  /\ UNCHANGED <<fixed, staging, mode, measured, bin, operator>>

Shrink ==
  /\ Overshot /\ attempt < MaxShrinkAttempts
  /\ attempt' = attempt + 1
  /\ ratio' \in ShrinkRatios(Built, bin.raw)
  /\ budget' \in RawBudgets(ratio')
  /\ StartNext
  /\ UNCHANGED <<fixed, staging, mode, measured, bin, operator>>

GiveUp ==
  /\ Overshot /\ attempt = MaxShrinkAttempts
  /\ advice' \in ShrinkRatios(Built, bin.raw)
  /\ Fail

\* Next has nothing more, and everything that was left has been committed or
\* was never there.
Finish ==
  /\ Swept /\ chosen = {} /\ attempt = 0
  /\ pc' = IF mode = "plan" THEN "off" ELSE "done"
  /\ UNCHANGED <<fixed, staging, runner, packer, sweep, operator>>

Stop == pc \notin {"off", "done"} /\ Fail /\ UNCHANGED advice

Over == (pc = "done" \/ (pc = "off" /\ runs = MaxRuns)) /\ UNCHANGED vars

Run == \/ \E u \in unseen : Take(u) \/ Skip(u)
       \/ Offer \/ EmptyBin \/ RefuseOversized \/ PlanDisc \/ CountDisc
       \/ AcceptDisc \/ Shrink \/ GiveUp \/ Finish

Next == \/ \E m \in {"plan", "backup"}, r \in PackRatios : Begin(m, r)
        \/ Run \/ Stop \/ Over

Spec == Init /\ [][Next]_vars

\* The tools a run calls end, and it is not suspended for ever.
FairSpec == Spec /\ WF_vars(Run)

-----------------------------------------------------------------------------
(* Properties.                                                             *)

\* A disc holds all names of a file or none (pack.New, backed by resumeFilter
\* on a resume), and its raw size, from which its ratio is measured, is that of
\* each of its files once: neither a link twice nor two files of different
\* filesystems as one.
SameFile(p, q) ==
  \/ p = q
  \/ /\ tree[p].nlink > 1 /\ tree[p].ino # 0
     /\ tree[p].dev = tree[q].dev /\ tree[p].ino = tree[q].ino
Whole(fs) == \A p \in fs, q \in File : SameFile(p, q) => q \in fs
Once(fs) == {p \in fs : \A q \in fs : q < p => ~SameFile(p, q)}
Bytes(t, fs) == MapThenSumSet(LAMBDA p : t[p].size, fs)
InodesStayWhole ==
  \A i \in DOMAIN discs :
    /\ Whole(discs[i].files)
    /\ discs[i].raw = Bytes(tree, Once(discs[i].files))

\* TestShrinkRetryShrinksTheBudget's property, on which buildImage's loop
\* depends: the budget a disc is re-planned with is below what the rejected
\* image was built from.  One byte, or none, cannot be made less.
RePlanIsSmaller ==
  [][attempt' > attempt => budget' < bin.raw \/ bin.raw <= 1]_vars

\* What observe leaves out is a disc that measured nothing, to the thousandth.
\* After one, the ratio stays what the shrink loop made of it.
Observed == {i \in DOMAIN discs : discs[i].measured > 0}
LastIsObserved == Len(discs) \in Observed
Later(i) == Cardinality({j \in Observed : j > i})

\* The estimate is worth its rebuilds: with adaptation on, a disc's first image
\* is too large only if it compressed worse, by more than the margin, than every
\* disc of the window did, one that did not compress at all being as bad as any.
OnlyNewsOvershoots ==
  Overshot /\ attempt = 0 /\ adapt /\ LastIsObserved =>
    \A i \in DOMAIN discs :
      i > Len(discs) - Window =>
        2000 * 1000 * Built > (2 * Ceiled(discs[i].measured) * Margin - 1000) * bin.raw

\* resumeRatio: the ratio a disc is first planned with is the estimate from
\* the last discs of the set, however many runs and failures it took to get there.
PlansAsIfUninterrupted ==
  pc = "check" /\ mode = "backup" /\ adapt /\ LastIsObserved =>
    LET last == {i \in Observed : Later(i) < Window}
        worst == CHOOSE i \in last : \A j \in last : discs[j].measured <= discs[i].measured
    IN  \E q \in Rounded(Ceiled(discs[worst].measured) * Margin, 1000) :
          ratio = Floored(q)

\* A set is finished when every file is on exactly one of its discs: Next's "no
\* more" and Oversized's "none" together mean that nothing is left.
EverythingPlanned ==
  pc = "done" =>
    /\ OnDiscs = File
    /\ \A i, j \in DOMAIN discs : i # j => discs[i].files \cap discs[j].files = {}

\* A run ends: shrinking and packing both come to their end.
RunsEnd == (pc = "check") ~> (pc \in {"off", "done"})

\* The refusal of a disc that still does not fit says to "set PACK_RATIO to at
\* least" a ratio "and re-run": then the disc is planned with that ratio.
AdviceCanBeFollowed ==
  pc = "check" /\ mode = "backup" /\ advice > 0 /\ conf >= advice => ratio >= advice
=============================================================================
