----------------------------- MODULE BurnProofs -----------------------------
(***************************************************************************)
(* What laying out and burning promise of every set of discs, staging,     *)
(* payload and interruption: types, that a disc verify-disc passes is      *)
(* whole and agrees with the others of its run, that an ISO is of a        *)
(* directory at rest, that nothing is attested that was not encrypted, and *)
(* that no last copy goes.                                                 *)
(***************************************************************************)
EXTENDS Burn, FiniteSetTheorems, WellFoundedInduction, TLAPS

-----------------------------------------------------------------------------
(***************************************************************************)
(* Trees, sizes and the disc a command is at.                              *)
(***************************************************************************)
\* Neither a directory nor an ISO is taken for its absence.
LEMMA TreeIsItems == ASSUME NEW d, IsTree(d) PROVE \E S \in SUBSET File : d \in [S -> Item]
  <1> DEFINE S == DOMAIN d
  <1>1. S \in SUBSET File
    BY DEF IsTree
  <1>2. \A f \in S : d[f] \in Item
    <2> SUFFICES ASSUME NEW f \in S PROVE d[f] \in Item
      OBVIOUS
    <2>1. CASE f # "sums"
      BY <2>1 DEF IsTree, Content, Item, Value
    <2>2. CASE f = "sums"
      <3>1. IsListing(d[f])
        BY <2>2 DEF IsTree
      <3>2. d[f] \in [DOMAIN d[f] -> Value] /\ DOMAIN d[f] \in SUBSET File
        BY <3>1 DEF IsListing, Content, Value
      <3> QED
        BY <3>2 DEF Item
    <2> QED
      BY <2>1, <2>2
  <1>3. d = [f \in S |-> d[f]]
    BY DEF IsTree
  <1>4. d \in [S -> Item]
    BY <1>2, <1>3
  <1> QED
    BY <1>1, <1>4

LEMMA TreeIsThere == ASSUME NEW d, IsTree(d) PROVE d # None
  BY TreeIsItems, NoneIsNoTree

\* A file written into a directory: the directory has it, and all it had.
LEMMA TreeWith ==
  ASSUME NEW d, IsTree(d), NEW f \in File, NEW v,
         IF f = "sums" THEN IsListing(v) ELSE v \in Content(f)
  PROVE  /\ IsTree(With(d, f, v))
         /\ DOMAIN With(d, f, v) = DOMAIN d \cup {f}
         /\ With(d, f, v)[f] = v
         /\ \A g \in DOMAIN d : g # f => With(d, f, v)[g] = d[g]
  BY DEF IsTree, With

\* What a removal leaves of a directory is one.
LEMMA TreeLeft ==
  ASSUME NEW d, IsTree(d), NEW S
  PROVE  IsTree([f \in DOMAIN d \cap S |-> d[f]])
  BY DEF IsTree

LEMMA EmptyTree == IsTree(Empty) /\ DOMAIN Empty = {}
  BY DEF IsTree, Empty

LEMMA FileFinite == IsFiniteSet(File)
  <1>1. IsFiniteSet({})
    BY FS_EmptySet
  <1>2. \A S, x : IsFiniteSet(S) => IsFiniteSet(S \cup {x})
    BY FS_AddElement
  <1>3. IsFiniteSet({} \cup {"image"} \cup {"index"} \cup {"parity"} \cup {"sh"} \cup {"self"}
                    \cup {"key"} \cup {"manifest"} \cup {"readme"} \cup {"sums"})
    BY <1>1, <1>2, Zenon
  <1>4. File = {} \cup {"image"} \cup {"index"} \cup {"parity"} \cup {"sh"} \cup {"self"}
                    \cup {"key"} \cup {"manifest"} \cup {"readme"} \cup {"sums"}
    BY DEF File, Data, Tool
  <1> QED
    BY <1>3, <1>4, Zenon

\* The size of a directory is a number, and an ISO is larger.
LEMMA TreeSize ==
  ASSUME NEW d, IsTree(d)
  PROVE  DirBytes(d) \in Nat /\ Size(d) \in Nat /\ Size(d) = DirBytes(d) + 1
  <1>1. IsFiniteSet(DOMAIN d)
    BY FileFinite, FS_Subset DEF IsTree
  <1> QED
    BY <1>1, FS_CardinalityType DEF DirBytes, Size

LEMMA ISOIsThere == ASSUME NEW i, IsISO(i) PROVE i # None
  <1>1. PICK S \in SUBSET File : i.files \in [S -> Item]
    BY TreeIsItems DEF IsISO
  <1>2. Size(i.files) \in Nat
    BY TreeSize DEF IsISO
  <1>3. i.size \in Nat /\ i.total \in Nat
    BY <1>2 DEF IsISO
  <1>4. i = [files |-> i.files, size |-> i.size, total |-> i.total]
    BY DEF IsISO
  <1>5. i \in [files : [S -> Item], size : Nat, total : Nat]
    BY <1>1, <1>3, <1>4
  <1> QED
    BY <1>1, <1>5, NoneIsNoISO

\* The disc a command is at is one of those it still has to see to.
LEMMA FirstInQueue == ASSUME queue \subseteq Disc, queue # {} PROVE First \in queue /\ First \in Disc
  <1> DEFINE R == OpToRel(<, Nat)
  <1>1. queue \subseteq Nat
    BY LayoutAssumption DEF Disc
  <1>2. IsWellFoundedOn(R, Nat)
    BY NatLessThanWellFounded, Zenon
  <1>3. \A m, n \in Nat : m < n => <<m, n>> \in R
    BY DEF OpToRel
  <1> HIDE DEF R
  <1>4. PICK n \in queue : \A m \in queue : ~(<<m, n>> \in R)
    BY <1>1, <1>2, WFMin, Zenon
  <1>5. \A m \in queue : ~(m < n)
    BY <1>1, <1>3, <1>4, Zenon
  <1>6. \A m \in queue : n <= m
    BY <1>1, <1>5
  <1> QED
    BY <1>4, <1>6 DEF First

-----------------------------------------------------------------------------
(***************************************************************************)
(* Types.  To be inductive they need what is in hand: a directory that is  *)
(* being laid out, or has been, is there, and so is an ISO being mastered  *)
(* or offered.                                                             *)
(***************************************************************************)
Dirs(d) ==
  /\ DOMAIN d = Disc /\ d = [n \in Disc |-> d[n]]
  /\ \A n \in Disc : d[n] = None \/ IsTree(d[n])

\* LayoutTypeOK but for the directories.
Scalars ==
  /\ cipher \in [Disc -> {0, Rot, None}] /\ record \in [Disc -> {0, Rot, Wrong}]
  /\ index \in 0 .. MaxRuns \cup {Rot} /\ indexRecord \in 0 .. MaxRuns \cup {Rot, Wrong}
  /\ plainIndex \in BOOLEAN /\ hasState \in BOOLEAN /\ manifest \in 0 .. MaxRuns
  /\ site \in Sites /\ pc \in Phases /\ at \in Disc /\ run \in Runs
  /\ setting \in Settings \cup {None} /\ (pc # "idle" => setting \in Settings)
  /\ measured \subseteq Disc /\ tookIndex \in BOOLEAN /\ failed \subseteq Disc
  /\ indexSum \in 0 .. MaxRuns \cup {Wrong, None}
  /\ refused \in [why : {"none", "missing", "oversized", "image", "index"}, disc : Disc \cup {0}]
  /\ lock \in {"free", "backup", "burn"} /\ stops \in 0 .. MaxStops /\ faults \in 0 .. MaxFaults

PerDisc == {"clear", "image", "copyIndex", "parity", "key"}
Later == Phases \ (PerDisc \cup {"idle", "index", "record"})

\* The run has laid disc n out, as far as its own files go.
Laid(n) == pc \in Later \/ (pc \in PerDisc /\ n < at)

\* Where no disc is in hand the next round begins with the first.
AtRest == pc \in {"idle", "index", "record", "manifest", "known", "sizes", "finish", "state"} => at = 1

\* An index this run has encrypted is known for what it was.
IndexKnown == pc = "sums" /\ tookIndex => indexSum = run

TreesInHand ==
  /\ pc \in PerDisc \ {"clear"} => IsTree(dir[at])
  /\ \A n \in Disc : Laid(n) => IsTree(dir[n])

ISOs(i) == DOMAIN i = Disc /\ i = [n \in Disc |-> i[n]] /\ \A n \in Disc : i[n] = None \/ IsISO(i[n])
Shelved(b) ==
  DOMAIN b = Disc /\ b = [n \in Disc |-> b[n]] /\ \A n \in Disc : b[n] = None \/ IsBurned(b[n])

Commands ==
  /\ bpc \in {"idle", "looked"} \cup Working /\ queue \subseteq Disc
  /\ command \in CommandType \cup {None} /\ (bpc \in Working => command \in CommandType)
  /\ commands \in 0 .. MaxCommands

ISOsInHand ==
  /\ pc = "mastering" => IsISO(iso[at])
  /\ bpc \in {"mastering", "offer"} => queue # {} /\ IsISO(iso[First])

\* One program at a time in staging, apart from an iso that looks.
OneAtATime == (lock = "backup" <=> pc # "idle") /\ (lock = "burn" <=> bpc \in Working)

TypeInv ==
  /\ Scalars /\ AtRest /\ IndexKnown /\ Dirs(dir) /\ TreesInHand /\ ISOs(iso) /\ Shelved(shelf)
  /\ Commands /\ ISOsInHand /\ OneAtATime

LEMMA TypeInvIsTyped == TypeInv => TypeOK
  BY DEF TypeInv, TypeOK, LayoutTypeOK, Scalars, Dirs, ISOs, Shelved, Commands, OneAtATime

LEMMA Numbers == MaxRuns \in Nat \ {0} /\ 1 \in Disc /\ 1 \in Runs /\ Discs \in Disc /\ Disc \subseteq Nat
  BY LayoutAssumption DEF MaxRuns, Disc, Runs

\* One directory changed, to a tree or to nothing.
LEMMA OneDir ==
  ASSUME Dirs(dir), NEW n \in Disc, NEW d, IsTree(d) \/ d = None, dir' = [dir EXCEPT ![n] = d]
  PROVE  Dirs(dir') /\ dir'[n] = d /\ \A m \in Disc : m # n => dir'[m] = dir[m]
  BY DEF Dirs

LEMMA NextDisc ==
  ASSUME at \in Disc, NEW again, NEW next, EachDisc(again, next)
  PROVE  /\ at' \in Disc
         /\ \/ at' = at + 1 /\ pc' = again /\ at < Discs
            \/ at' = 1 /\ pc' = next /\ at = Discs
  BY LayoutAssumption DEF EachDisc, Disc

\* What a run does to everything but directories.
LEMMA RunScalars ==
  ASSUME TypeInv, Run
  PROVE  Scalars' /\ AtRest' /\ IndexKnown' /\ (lock' = "backup" <=> pc' # "idle") /\ lock' # "burn"
  <1> USE DEF Scalars, AtRest, IndexKnown, Phases, enc, work, memory, ended
  <1>0. Scalars /\ AtRest /\ IndexKnown /\ (lock = "backup" <=> pc # "idle")
    BY DEF TypeInv, OneAtATime
  <1>1. CASE EncryptIndex
    BY <1>0, <1>1, Numbers DEF EncryptIndex, Runs
  <1>2. CASE RecordIndex
    BY <1>0, <1>2, Numbers DEF RecordIndex, Runs
  <1>3. CASE KeepIndex
    BY <1>0, <1>3 DEF KeepIndex
  <1>4. CASE ClearDisc \/ PlaceImage \/ PlaceIndex
    BY <1>0, <1>4 DEF ClearDisc, PlaceImage, PlaceIndex
  <1>5. CASE ProtectSidecars
    BY <1>0, <1>5, LayoutAssumption DEF ProtectSidecars
  <1>6. CASE PublishKey \/ PlaceManifest \/ WritePayload \/ CopySelf \/ WriteReadme \/ WriteSums
    BY <1>0, <1>6, NextDisc
    DEF PublishKey, PlaceManifest, WritePayload, CopySelf, WriteReadme, WriteSums
  <1>7. CASE WriteManifest
    BY <1>0, <1>7, Numbers DEF WriteManifest, Runs
  <1>8. CASE KnowIndex
    BY <1>0, <1>8, Numbers DEF KnowIndex, Runs, ReadSumFile
  <1>9. CASE CheckDiscSizes \/ FinishIndex
    BY <1>0, <1>9 DEF CheckDiscSizes, FinishIndex
  <1>10. CASE RefuseMissing \/ RefuseData \/ RefuseChanged \/ RefuseOversized \/ FinishState
    <2>1. PICK why \in {"none", "missing", "oversized", "image", "index"}, n \in Disc \cup {0} : EndRun(why, n)
      BY <1>0, <1>10 DEF RefuseMissing, RefuseData, RefuseChanged, RefuseOversized, FinishState, Refuse
    <2>2. /\ UNCHANGED <<enc, plainIndex, manifest, stops, faults>>
          /\ hasState' \in BOOLEAN
      BY <1>0, <1>10 DEF RefuseMissing, RefuseData, RefuseChanged, RefuseOversized, FinishState, Refuse
    <2> QED
      BY <1>0, <2>1, <2>2, Numbers DEF EndRun, Release
  <1> QED
    BY <1>1, <1>2, <1>3, <1>4, <1>5, <1>6, <1>7, <1>8, <1>9, <1>10 DEF Run

\* The directory in hand changed to a tree: what EachDisc and the next step find.
LEMMA AtDir ==
  ASSUME TypeInv, NEW d, IsTree(d), dir' = [dir EXCEPT ![at] = d]
  PROVE  /\ Dirs(dir') /\ IsTree(dir'[at]) /\ dir'[at] = d
         /\ \A n \in Disc : n # at => dir'[n] = dir[n]
         /\ \A n \in Disc : IsTree(dir[n]) => IsTree(dir'[n])
  <1>1. at \in Disc /\ Dirs(dir)
    BY DEF TypeInv, Scalars
  <1> QED
    BY <1>1, OneDir

\* What every file of a run holds is a content of that file.
LEMMA Contents ==
  ASSUME TypeInv
  PROVE  /\ 0 \in Content("key") /\ run \in Content("parity") /\ index \in Content("index")
         /\ manifest \in Content("manifest") /\ run \in Content("self") /\ run \in Content("sh")
         /\ Available(at) => cipher[at] \in Content("image")
  BY Numbers DEF TypeInv, Scalars, Content, Runs, Available

\* A listing of a directory: what is read is a content, what is known too.
LEMMA HashesList ==
  ASSUME TypeInv, IsTree(dir[at]), pc = "sums"
  PROVE  IsListing(Hashes(at))
  <1>1. /\ at \in Disc /\ run \in Runs /\ Runs \subseteq 0 .. MaxRuns
        /\ tookIndex => indexSum = run
    BY Numbers DEF TypeInv, Scalars, IndexKnown, Runs
  <1>2. \A f \in DOMAIN dir[at] \ {"sums"} : dir[at][f] \in Content(f) /\ f \in File
    BY DEF IsTree
  <1>3. \A f : Trusted(at, f) => KnownSum(at, f) \in Content(f)
    <2>1. Trusted(at, "image") => KnownSum(at, "image") = 0
      BY DEF Trusted, KnownSum
    <2>2. Trusted(at, "index") => KnownSum(at, "index") = run
      BY <1>1 DEF Trusted, KnownSum
    <2>3. 0 \in Content("image") /\ run \in Content("index")
      BY <1>1, Numbers DEF Content
    <2> QED
      BY <2>1, <2>2, <2>3 DEF Trusted, Encrypted
  <1> DEFINE H(f) == IF Trusted(at, f) THEN KnownSum(at, f) ELSE dir[at][f]
  <1>4. Hashes(at) = [f \in DOMAIN dir[at] \ {"sums"} |-> H(f)]
    BY DEF Hashes, SumCandidates
  <1>5. \A f \in DOMAIN dir[at] \ {"sums"} : H(f) \in Content(f)
    BY <1>2, <1>3
  <1> HIDE DEF H
  <1> QED
    BY <1>2, <1>4, <1>5 DEF IsListing

\* What the documents add to a directory leaves it one.
LEMMA LaterTree ==
  ASSUME TypeInv, IsTree(dir[at]),
         PlaceManifest \/ WritePayload \/ CopySelf \/ WriteReadme \/ WriteSums
  PROVE  dir' = dir \/ \E d : IsTree(d) /\ dir' = [dir EXCEPT ![at] = d]
  <1>0. /\ at \in Disc /\ run \in Runs /\ pc \in Phases
        /\ pc # "idle" => setting.payload \subseteq Tool
    BY LayoutAssumption DEF TypeInv, Scalars, Setting
  <1>1. CASE PlaceManifest
    BY <1>1, TreeWith, Contents DEF PlaceManifest, Put, File
  <1>2. CASE CopySelf
    BY <1>2, TreeWith, Contents DEF CopySelf, Put, File, Tool
  <1>3. CASE WritePayload
    <2>1. run \in Content("self") /\ run \in Content("sh")
      BY Contents
    <2>2. setting.payload \subseteq Tool
      BY <1>0, <1>3 DEF WritePayload
    <2>3. IsTree(PlacePayload(dir[at]))
      BY <2>1, <2>2 DEF PlacePayload, IsTree, Tool, File
    <2> QED
      BY <1>3, <2>3 DEF WritePayload
  <1>4. CASE WriteReadme
    <2> DEFINE r == [run |-> run, parity |-> ~SidecarFailed(at), tools |-> ToolsOn(dir[at])]
    <2>1. r \in Content("readme")
      BY <1>0 DEF Content, Readme, ToolsOn, SidecarFailed
    <2>2. IsTree(With(dir[at], "readme", r))
      BY <2>1, TreeWith DEF File
    <2> QED
      BY <1>4, <2>2 DEF WriteReadme, Put
  <1>5. CASE WriteSums
    <2>1. IsListing(Hashes(at))
      BY <1>5, HashesList DEF WriteSums
    <2>2. IsTree(With(dir[at], "sums", Hashes(at)))
      BY <2>1, TreeWith DEF File
    <2> QED
      BY <1>5, <2>2 DEF WriteSums, Put
  <1> QED
    BY <1>1, <1>2, <1>3, <1>4, <1>5

\* The run's own directories stay trees, those it has laid out above all.
LEMMA RunTrees == ASSUME TypeInv, Run PROVE Dirs(dir') /\ TreesInHand'
  <1>0. /\ Dirs(dir) /\ AtRest /\ TreesInHand /\ at \in Disc /\ at \in Nat /\ Disc \subseteq Nat
        /\ \A n \in Disc : 1 <= n /\ n <= Discs
    BY Numbers DEF TypeInv, Scalars, Disc
  <1>1. CASE EncryptIndex \/ RecordIndex \/ KeepIndex
    <2>1. dir' = dir /\ at' = at /\ pc \in {"index", "record"} /\ pc' \in {"record", "clear"}
      BY <1>1 DEF EncryptIndex, RecordIndex, KeepIndex
    <2> QED
      BY <1>0, <2>1 DEF TreesInHand, Laid, Later, PerDisc, AtRest
  <1>2. CASE WriteManifest \/ KnowIndex \/ CheckDiscSizes \/ FinishIndex
    <2>1. dir' = dir /\ pc \in {"manifest", "known", "sizes", "finish"}
      BY <1>2 DEF WriteManifest, KnowIndex, CheckDiscSizes, FinishIndex
    <2>2. pc' \in {"placeManifest", "sums", "isos", "finish", "state"}
      BY <1>2 DEF WriteManifest, KnowIndex, CheckDiscSizes, FinishIndex
    <2> QED
      BY <1>0, <2>1, <2>2 DEF TreesInHand, Laid, Later, PerDisc, Phases
  <1>3. CASE ClearDisc
    <2>1. pc = "clear" /\ dir' = [dir EXCEPT ![at] = Empty] /\ pc' = "image" /\ at' = at
      BY <1>3 DEF ClearDisc
    <2>2. \A n \in Disc : Laid(n)' => Laid(n)
      BY <2>1 DEF Laid, Later, PerDisc
    <2> QED
      BY <1>0, <2>1, <2>2, AtDir, EmptyTree DEF TreesInHand
  <1>4. CASE PlaceImage \/ PlaceIndex \/ ProtectSidecars
    <2>1. /\ pc \in {"image", "copyIndex", "parity"} /\ pc' \in PerDisc \ {"clear"} /\ at' = at
          /\ dir' = dir \/ \E f \in File \ {"sums"} : \E v \in Content(f) : Put(f, v)
      BY <1>4, Contents DEF PlaceImage, PlaceIndex, ProtectSidecars, PerDisc, File, Data
    <2>2. \A n \in Disc : Laid(n)' => Laid(n)
      BY <2>1 DEF Laid, Later, PerDisc
    <2>3. IsTree(dir[at])
      BY <1>0, <2>1 DEF TreesInHand, PerDisc
    <2>4. CASE dir' = dir
      BY <1>0, <2>1, <2>2, <2>3, <2>4 DEF TreesInHand
    <2>5. ASSUME NEW f \in File \ {"sums"}, NEW v \in Content(f), Put(f, v)
          PROVE  Dirs(dir') /\ TreesInHand'
      <3>1. IsTree(With(dir[at], f, v))
        BY <2>3, <2>5, TreeWith
      <3> QED
        BY <1>0, <2>1, <2>2, <2>5, <3>1, AtDir DEF TreesInHand, Put
    <2> QED
      BY <2>1, <2>4, <2>5
  <1>5. CASE PublishKey
    <2>1. pc = "key" /\ WritePublicIdentity /\ EachDisc("clear", "manifest")
      BY <1>5 DEF PublishKey
    <2>2. IsTree(dir[at])
      BY <1>0, <2>1 DEF TreesInHand, PerDisc
    <2>3. IsTree(With(dir[at], "key", 0))
      BY <2>2, TreeWith, Contents DEF File
    <2>4. /\ Dirs(dir') /\ IsTree(dir'[at])
          /\ \A n \in Disc : IsTree(dir[n]) => IsTree(dir'[n])
      BY <1>0, <2>1, <2>2, <2>3, AtDir DEF WritePublicIdentity, Put
    <2>5. \A n \in Disc : Laid(n)' => Laid(n) \/ n = at
      BY <1>0, <2>1, NextDisc DEF Laid, Later, PerDisc, Disc
    <2>6. pc' \in {"clear", "manifest"}
      BY <2>1 DEF EachDisc
    <2> QED
      BY <1>0, <2>4, <2>5, <2>6 DEF TreesInHand, PerDisc
  <1>6. CASE PlaceManifest \/ WritePayload \/ CopySelf \/ WriteReadme \/ WriteSums
    <2>1. pc \in Later /\ pc' \in Later
      BY <1>6 DEF PlaceManifest, WritePayload, CopySelf, WriteReadme, WriteSums, EachDisc, Later, Phases, PerDisc
    <2>2. IsTree(dir[at])
      BY <1>0, <2>1 DEF TreesInHand, Laid
    <2>3. dir' = dir \/ \E d : IsTree(d) /\ dir' = [dir EXCEPT ![at] = d]
      BY <1>6, <2>2, LaterTree DEF TypeInv
    <2>4. Dirs(dir') /\ \A n \in Disc : IsTree(dir[n]) => IsTree(dir'[n])
      BY <1>0, <2>3, AtDir
    <2> QED
      BY <1>0, <2>1, <2>4 DEF TreesInHand, Laid, Later
  <1>7. CASE RefuseMissing \/ RefuseChanged \/ RefuseOversized \/ FinishState \/ RefuseData
    <2>1. pc' = "idle"
      BY <1>7 DEF RefuseMissing, RefuseChanged, RefuseOversized, FinishState, RefuseData, Refuse, EndRun
    <2>2. Dirs(dir')
      <3>1. CASE RefuseData
        <4>1. IsTree(dir[at])
          BY <1>0, <3>1 DEF TreesInHand, PerDisc, RefuseData
        <4>2. IsTree(With(dir[at], "key", 0))
          BY <4>1, TreeWith, Contents DEF File
        <4> QED
          BY <1>0, <3>1, <4>2, AtDir DEF RefuseData, WritePublicIdentity, Put
      <3>2. CASE ~RefuseData
        BY <1>0, <1>7, <3>2 DEF RefuseMissing, RefuseChanged, RefuseOversized, FinishState, Refuse
      <3> QED
        BY <3>1, <3>2
    <2> QED
      BY <2>1, <2>2 DEF TreesInHand, Laid, PerDisc, Later
  <1> QED
    BY <1>1, <1>2, <1>3, <1>4, <1>5, <1>6, <1>7 DEF Run

\* Rot in a directory: the files it has, one of them Rot.
Aged(d, e) ==
  \/ e = d
  \/ /\ IsTree(d) /\ IsTree(e) /\ DOMAIN e = DOMAIN d
     /\ \A f \in DOMAIN d : e[f] = d[f] \/ (f \in {"image", "index"} /\ e[f] = Rot)

LEMMA AgedWith ==
  ASSUME NEW d, d = None \/ IsTree(d), d # None, NEW f \in {"image", "index"}, f \in DOMAIN d
  PROVE  Aged(d, With(d, f, Rot))
  <1>1. f \in File /\ f # "sums" /\ Rot \in Content(f)
    BY DEF File, Data, Content
  <1>2. /\ IsTree(With(d, f, Rot)) /\ DOMAIN With(d, f, Rot) = DOMAIN d \cup {f}
        /\ With(d, f, Rot)[f] = Rot
        /\ \A g \in DOMAIN d : g # f => With(d, f, Rot)[g] = d[g]
    BY <1>1, TreeWith
  <1> QED
    BY <1>2 DEF Aged

LEMMA AgedTrees == ASSUME Dirs(dir), NEW n \in Disc, Aged(dir[n], dir'[n])
                   PROVE  (dir'[n] = None \/ IsTree(dir'[n])) /\ (IsTree(dir[n]) => IsTree(dir'[n]))
  BY DEF Dirs, Aged

\* A fault is rot, and leaves the rest of what the commands know alone.
LEMMA FaultAges ==
  ASSUME TypeInv, Fault
  PROVE  Dirs(dir') /\ \A n \in Disc : Aged(dir[n], dir'[n])
  <1>0. Dirs(dir)
    BY DEF TypeInv
  <1>1. CASE \E n \in Disc : LoseImage(n) \/ SpoilRecord(n)
    BY <1>0, <1>1 DEF LoseImage, SpoilRecord, Aged
  <1>2. CASE SpoilIndexRecord
    BY <1>0, <1>2 DEF SpoilIndexRecord, Aged
  <1>3. ASSUME NEW n \in Disc, NEW f \in {"image", "index"}, dir[n] # None, f \in DOMAIN dir[n],
               dir' = [dir EXCEPT ![n] = With(@, f, Rot)]
        PROVE  Dirs(dir') /\ \A m \in Disc : Aged(dir[m], dir'[m])
    <2>1. Aged(dir[n], With(dir[n], f, Rot))
      BY <1>0, <1>3, AgedWith DEF Dirs
    <2>2. IsTree(dir[n]) /\ f \in File /\ f # "sums" /\ Rot \in Content(f)
      BY <1>0, <1>3 DEF Dirs, File, Data, Content
    <2>3. IsTree(With(dir[n], f, Rot))
      BY <2>2, TreeWith
    <2>4. dir' = [dir EXCEPT ![n] = With(dir[n], f, Rot)]
      BY <1>3
    <2>5. Dirs(dir') /\ dir'[n] = With(dir[n], f, Rot) /\ \A m \in Disc : m # n => dir'[m] = dir[m]
      BY <1>0, <2>3, <2>4, OneDir
    <2> QED
      BY <2>1, <2>5 DEF Aged
  <1>4. CASE \E n \in Disc : RotImage(n)
    <2>1. PICK n \in Disc : RotImage(n)
      BY <1>4
    <2>2. CASE dir' = dir
      BY <1>0, <2>2 DEF Aged
    <2>3. CASE dir' # dir
      BY <1>3, <2>1, <2>3 DEF RotImage, Has
    <2> QED
      BY <2>2, <2>3
  <1>5. CASE \E n \in Disc : RotCopy(n)
    <2>1. PICK n \in Disc, f \in {"image", "index"} : Has(n, f) /\ dir' = [dir EXCEPT ![n] = With(@, f, Rot)]
      BY <1>5 DEF RotCopy
    <2> QED
      BY <1>3, <2>1 DEF Has
  <1>6. CASE RotIndex
    <2>1. dir' = [n \in Disc |-> IF site.links /\ Has(n, "index") /\ dir[n]["index"] = index
                                 THEN With(dir[n], "index", Rot) ELSE dir[n]]
      BY <1>6 DEF RotIndex
    <2>2. ASSUME NEW n \in Disc PROVE Aged(dir[n], dir'[n])
      <3>1. CASE Has(n, "index")
        <4>1. Aged(dir[n], With(dir[n], "index", Rot))
          BY <1>0, <3>1, AgedWith DEF Dirs, Has
        <4> QED
          BY <2>1, <4>1 DEF Aged
      <3>2. CASE ~Has(n, "index")
        BY <2>1, <3>2 DEF Aged
      <3> QED
        BY <3>1, <3>2
    <2>3. DOMAIN dir' = Disc /\ dir' = [n \in Disc |-> dir'[n]]
      BY <2>1
    <2> QED
      BY <1>0, <2>2, <2>3, AgedTrees DEF Dirs
  <1> QED
    BY <1>1, <1>2, <1>4, <1>5, <1>6 DEF Fault

LEMMA SameFirst == queue' = queue => First' = First
  BY DEF First

\* The other steps of staging: a kill, a resume, a repair, rot.
LEMMA StagingTypes ==
  ASSUME TypeInv, Stop \/ Resume \/ FollowAdvice \/ Fault, UNCHANGED burnVars
  PROVE  TypeInv'
  <1> USE DEF Scalars, Phases, enc, work, memory, ended
  <1>0. /\ Scalars /\ AtRest /\ IndexKnown /\ Dirs(dir) /\ TreesInHand /\ ISOs(iso) /\ Shelved(shelf)
        /\ Commands /\ ISOsInHand /\ OneAtATime
        /\ iso' = iso /\ shelf' = shelf /\ bpc' = bpc /\ command' = command /\ queue' = queue
        /\ commands' = commands
    BY DEF TypeInv, burnVars
  <1>1. ISOs(iso') /\ Shelved(shelf') /\ Commands'
    BY <1>0 DEF Commands
  <1>2. CASE Stop
    <2>1. Scalars' /\ AtRest' /\ IndexKnown' /\ OneAtATime'
      <3>1. pc # "idle" /\ EndRun("none", 0) /\ stops' \in 0 .. MaxStops
        BY <1>0, <1>2, LayoutAssumption DEF Stop
      <3>2. UNCHANGED <<enc, work, manifest, faults>>
        BY <1>2 DEF Stop
      <3>3. Scalars' /\ AtRest' /\ IndexKnown'
        BY <1>0, <3>1, <3>2, Numbers DEF EndRun, Release, AtRest, IndexKnown
      <3>4. OneAtATime'
        BY <1>0, <3>1 DEF EndRun, Release, OneAtATime
      <3> QED
        BY <3>3, <3>4
    <2>2. Dirs(dir')
      <3>1. CASE dir' = dir
        BY <1>0, <3>1
      <3>2. CASE dir' # dir
        <4>1. PICK left \in Leftovers : dir' = [dir EXCEPT ![at] = [f \in DOMAIN @ \cap left |-> @[f]]]
          BY <1>2, <3>2 DEF Stop
        <4>2. IsTree(dir[at]) /\ at \in Disc
          BY <1>0, <1>2, <3>2 DEF Dirs, Stop
        <4> QED
          BY <1>0, <4>1, <4>2, TreeLeft, OneDir
      <3> QED
        BY <3>1, <3>2
    <2>3. pc' = "idle"
      BY <1>2 DEF Stop, EndRun
    <2>4. TreesInHand' /\ ISOsInHand'
      BY <1>0, <2>3, SameFirst DEF TreesInHand, ISOsInHand, Laid, PerDisc, Later
    <2> QED
      BY <1>1, <2>1, <2>2, <2>4 DEF TypeInv
  <1>3. CASE Resume
    <2>1. pc = "idle" /\ pc' = "index" /\ dir' = dir /\ at' = at
      BY <1>3 DEF Resume
    <2>2. Scalars' /\ AtRest' /\ IndexKnown' /\ OneAtATime'
      BY <1>0, <1>3, Numbers DEF Resume, LockStaging, AtRest, IndexKnown, OneAtATime, Runs
    <2>3. TreesInHand' /\ ISOsInHand'
      BY <1>0, <2>1, SameFirst DEF TreesInHand, ISOsInHand, Laid, PerDisc, Later
    <2> QED
      BY <1>0, <1>1, <2>1, <2>2, <2>3 DEF TypeInv
  <1>4. CASE FollowAdvice
    <2>1. pc = "idle" /\ pc' = "idle" /\ dir' = dir /\ at' = at
      BY <1>4 DEF FollowAdvice
    <2>2. index \in 0 .. MaxRuns \cup {Rot} /\ refused' = NoRefusal /\ 0 \in 0 .. MaxRuns
      BY <1>0, <1>4, Numbers DEF FollowAdvice
    <2>3. Scalars' /\ AtRest' /\ IndexKnown' /\ OneAtATime'
      BY <1>0, <1>4, <2>2 DEF FollowAdvice, NoRefusal, AtRest, IndexKnown, OneAtATime
    <2>4. TreesInHand' /\ ISOsInHand'
      BY <1>0, <2>1, SameFirst DEF TreesInHand, ISOsInHand, Laid, PerDisc, Later
    <2> QED
      BY <1>0, <1>1, <2>1, <2>3, <2>4 DEF TypeInv
  <1>5. CASE Fault
    <2>1. /\ pc' = pc /\ at' = at /\ run' = run /\ tookIndex' = tookIndex /\ indexSum' = indexSum
          /\ lock' = lock
      BY <1>5 DEF Fault
    <2>2. cipher' \in [Disc -> {0, Rot, None}] /\ record' \in [Disc -> {0, Rot, Wrong}]
      BY <1>0, <1>5 DEF Fault, RotImage, RotCopy, LoseImage, SpoilRecord, RotIndex, SpoilIndexRecord
    <2>3. index' \in 0 .. MaxRuns \cup {Rot} /\ indexRecord' \in 0 .. MaxRuns \cup {Rot, Wrong}
      BY <1>0, <1>5 DEF Fault, RotImage, RotCopy, LoseImage, SpoilRecord, RotIndex, SpoilIndexRecord
    <2>4. /\ UNCHANGED <<work, manifest, pc, at, memory, run, refused, lock, stops, site>>
          /\ faults' \in 0 .. MaxFaults
      BY <1>0, <1>5, LayoutAssumption DEF Fault
    <2>5. Scalars'
      BY <1>0, <2>2, <2>3, <2>4
    <2>6. AtRest' /\ IndexKnown' /\ OneAtATime'
      BY <1>0, <2>1 DEF AtRest, IndexKnown, OneAtATime
    <2>7. Dirs(dir') /\ \A n \in Disc : IsTree(dir[n]) => IsTree(dir'[n])
      BY <1>0, <1>5, FaultAges, AgedTrees
    <2>8. TreesInHand' /\ ISOsInHand'
      BY <1>0, <2>1, <2>7, SameFirst DEF TreesInHand, ISOsInHand, Laid
    <2> QED
      BY <1>1, <2>5, <2>6, <2>7, <2>8 DEF TypeInv
  <1> QED
    BY <1>2, <1>3, <1>4, <1>5

\* One ISO changed.
LEMMA OneISO ==
  ASSUME ISOs(iso), NEW n \in Disc, NEW i, IsISO(i) \/ i = None, iso' = [iso EXCEPT ![n] = i]
  PROVE  ISOs(iso') /\ iso'[n] = i /\ \A m \in Disc : m # n => iso'[m] = iso[m]
  BY DEF ISOs

\* The start of an ISO is one, and less than a whole one.
LEMMA Begun ==
  ASSUME ISOs(iso), NEW n \in Disc, IsTree(dir[n]), NEW total \in Nat, BeginISO(n, total)
  PROVE  /\ ISOs(iso') /\ IsISO(iso'[n]) /\ ~Whole(iso'[n])
         /\ iso'[n].files = dir[n] /\ iso'[n].total = total
         /\ \A m \in Disc : m # n => iso'[m] = iso[m]
  <1>1. PICK k \in {0, Size(dir[n]) - 1} :
          iso' = [iso EXCEPT ![n] = [files |-> dir[n], size |-> k, total |-> total]]
    BY DEF BeginISO
  <1>2. k \in 0 .. Size(dir[n]) /\ k # Size(dir[n])
    BY TreeSize
  <1> DEFINE i == [files |-> dir[n], size |-> k, total |-> total]
  <1>3. IsISO(i) /\ ~Whole(i)
    BY <1>2 DEF IsISO, Whole
  <1>4. iso'[n] = i /\ ISOs(iso') /\ \A m \in Disc : m # n => iso'[m] = iso[m]
    BY <1>1, <1>3, OneISO
  <1> QED
    BY <1>3, <1>4

\* The end of one is the whole of what was begun.
LEMMA Ended ==
  ASSUME ISOs(iso), NEW n \in Disc, IsISO(iso[n]), NEW media, EndISO(n, media)
  PROVE  /\ ISOs(iso') /\ IsISO(iso'[n]) /\ Whole(iso'[n])
         /\ iso'[n].files = iso[n].files /\ iso'[n].total = iso[n].total
         /\ \A m \in Disc : m # n => iso'[m] = iso[m]
  <1> DEFINE i == [files |-> iso[n].files, size |-> Size(iso[n].files), total |-> iso[n].total]
  <1>1. iso' = [iso EXCEPT ![n] = i]
    <2>1. PICK f, k, t : iso[n] = [files |-> f, size |-> k, total |-> t]
      BY DEF IsISO
    <2>2. [iso[n] EXCEPT !.size = Size(f)] = [files |-> f, size |-> Size(f), total |-> t]
      BY <2>1
    <2>3. iso[n].files = f /\ iso[n].total = t
      BY <2>1
    <2>4. iso' = [iso EXCEPT ![n] = [iso[n] EXCEPT !.size = Size(f)]]
      BY <2>3 DEF EndISO
    <2> QED
      BY <2>2, <2>3, <2>4
  <1>2. Size(iso[n].files) \in Nat
    BY TreeSize DEF IsISO
  <1>3. IsISO(i) /\ Whole(i)
    BY <1>2 DEF IsISO, Whole
  <1>4. iso'[n] = i /\ ISOs(iso') /\ \A m \in Disc : m # n => iso'[m] = iso[m]
    BY <1>1, <1>3, OneISO
  <1> QED
    BY <1>3, <1>4

LEMMA Lost ==
  ASSUME ISOs(iso), NEW n \in Disc, LoseISO(n)
  PROVE  ISOs(iso') /\ iso'[n] = None /\ \A m \in Disc : m # n => iso'[m] = iso[m]
  BY OneISO DEF LoseISO

\* A run that builds ISOs.
LEMMA EagerTypes ==
  ASSUME TypeInv, BuildNext \/ Built \/ BuildFails
  PROVE  TypeInv'
  <1> USE DEF enc, work, memory, ended, session
  <1>0. /\ Scalars /\ AtRest /\ IndexKnown /\ Dirs(dir) /\ TreesInHand /\ ISOs(iso) /\ Shelved(shelf)
        /\ Commands /\ ISOsInHand /\ OneAtATime
        /\ at \in Disc /\ Discs \in Nat /\ Discs \in Disc /\ 1 \in Disc
    BY Numbers DEF TypeInv, Scalars
  <1>1. UNCHANGED <<shelf, session, dir>>
    BY DEF BuildNext, Built, BuildFails
  <1>2. Shelved(shelf') /\ Commands' /\ Dirs(dir')
    BY <1>0, <1>1 DEF Commands
  <1>3. bpc' = bpc /\ bpc \notin Working
    BY <1>0, <1>1 DEF OneAtATime, BuildNext, Built, BuildFails
  <1>4. CASE BuildNext
    <2>1. pc = "isos" /\ pc' = "mastering" /\ at' = at /\ BeginISO(at, Discs)
          /\ UNCHANGED <<enc, work, manifest, at, memory, ended>>
      BY <1>4 DEF BuildNext
    <2>2. IsTree(dir[at])
      BY <1>0, <2>1 DEF TreesInHand, Laid, Later, PerDisc, Phases
    <2>3. ISOs(iso') /\ IsISO(iso'[at])
      BY <1>0, <2>1, <2>2, Begun
    <2>4. Scalars' /\ AtRest' /\ IndexKnown' /\ OneAtATime'
      BY <1>0, <1>3, <2>1 DEF Scalars, Phases, AtRest, IndexKnown, OneAtATime
    <2>5. TreesInHand' /\ ISOsInHand'
      BY <1>0, <1>1, <1>3, <2>1, <2>3 DEF TreesInHand, ISOsInHand, Laid, Later, PerDisc, Phases, Working
    <2> QED
      BY <1>2, <2>3, <2>4, <2>5 DEF TypeInv
  <1>5. CASE Built
    <2>1. /\ pc = "mastering" /\ EndISO(at, site.usable + 1) /\ EachDisc("isos", "finish")
          /\ UNCHANGED <<enc, work, manifest, memory, ended>>
      BY <1>5 DEF Built
    <2>2. ISOs(iso') /\ pc' \in {"isos", "finish"} /\ at' \in Disc /\ (pc' = "finish" => at' = 1)
      BY <1>0, <2>1, NextDisc, Ended DEF ISOsInHand
    <2>3. Scalars' /\ AtRest' /\ IndexKnown' /\ OneAtATime'
      BY <1>0, <1>3, <2>1, <2>2 DEF Scalars, Phases, AtRest, IndexKnown, OneAtATime
    <2>4. TreesInHand' /\ ISOsInHand'
      BY <1>0, <1>1, <1>3, <2>1, <2>2 DEF TreesInHand, ISOsInHand, Laid, Later, PerDisc, Phases, Working
    <2> QED
      BY <1>2, <2>2, <2>3, <2>4 DEF TypeInv
  <1>6. CASE BuildFails
    <2>1. /\ pc = "mastering" /\ LoseISO(at) /\ EndRun("none", 0) /\ stops' \in 0 .. MaxStops
          /\ UNCHANGED <<enc, work, manifest, faults>>
      BY <1>0, <1>6, LayoutAssumption DEF BuildFails, Scalars
    <2>2. ISOs(iso') /\ pc' = "idle"
      BY <1>0, <2>1, Lost DEF EndRun
    <2>3. Scalars' /\ AtRest' /\ IndexKnown'
      BY <1>0, <2>1 DEF Scalars, Phases, AtRest, IndexKnown, EndRun, Release
    <2>4. OneAtATime'
      BY <1>3, <2>1 DEF OneAtATime, EndRun, Release
    <2>5. TreesInHand' /\ ISOsInHand'
      BY <1>3, <2>2 DEF TreesInHand, ISOsInHand, Laid, Later, PerDisc, Working
    <2> QED
      BY <1>2, <2>2, <2>3, <2>4, <2>5 DEF TypeInv
  <1> QED
    BY <1>4, <1>5, <1>6

\* The count for labels is a number.
LEMMA TotalNumber == ASSUME NEW nums \in SUBSET Disc PROVE Total(nums) \in Nat
  <1>1. IsFiniteSet(Disc)
    BY LayoutAssumption, FS_Interval DEF Disc
  <1>2. Cardinality(nums) \in Nat
    BY <1>1, FS_Subset, FS_CardinalityType
  <1> QED
    BY <1>2, LayoutAssumption DEF Total

\* With the backup away and directories, ISOs as they were or well-typed.
LEMMA AwayTypes ==
  ASSUME TypeInv, pc = "idle", ISOs(iso'), Shelved(shelf'), Commands',
         UNCHANGED <<enc, work, manifest, dir, pc, at, memory, run, refused, stops, faults, site>>,
         lock' \in {"free", "burn"}, lock' = "burn" <=> bpc' \in Working,
         bpc' \in {"mastering", "offer"} => queue' # {} /\ IsISO(iso'[First'])
  PROVE  TypeInv'
  <1>1. Scalars' /\ AtRest' /\ IndexKnown' /\ Dirs(dir')
    BY DEF TypeInv, Scalars, AtRest, IndexKnown, enc, work, memory
  <1>2. TreesInHand' /\ ISOsInHand' /\ OneAtATime'
    BY DEF TreesInHand, Laid, PerDisc, Later, ISOsInHand, OneAtATime
  <1> QED
    BY <1>1, <1>2 DEF TypeInv

LEMMA StartTypes ==
  ASSUME TypeInv, StartBurn \/ StartISO
  PROVE  TypeInv'
  <1>0. /\ lock = "free" /\ lock' = "burn" /\ commands' \in 0 .. MaxCommands
        /\ \E does \in {"burn", "iso"}, nums \in SUBSET Disc : Begin(does, nums)
    <2>1. DiscNumbers \in SUBSET Disc /\ queue \in SUBSET Disc /\ commands \in 0 .. MaxCommands
      BY DEF DiscNumbers, Numbered, TypeInv, Commands
    <2> QED
      BY <2>1, BurnAssumption DEF StartBurn, StartISO, Give, LockStaging
  <1>1. PICK does \in {"burn", "iso"}, nums \in SUBSET Disc : Begin(does, nums)
    BY <1>0
  <1>2. /\ command' \in CommandType /\ queue' \subseteq Disc /\ bpc' = "next"
        /\ UNCHANGED <<enc, work, manifest, dir, pc, at, memory, run, refused, stops, faults, site, iso, shelf>>
    BY <1>1, TotalNumber DEF Begin, CommandType
  <1>3. pc = "idle"
    BY <1>0 DEF TypeInv, OneAtATime
  <1>4. Commands' /\ ISOs(iso') /\ Shelved(shelf')
    BY <1>0, <1>2 DEF Commands, Working, TypeInv
  <1> QED
    BY <1>0, <1>2, <1>3, <1>4, AwayTypes DEF Working

LEMMA LookTypes ==
  ASSUME TypeInv, LookISO \/ RefuseISO
  PROVE  TypeInv'
  <1>1. /\ UNCHANGED <<layoutVars, iso, shelf, command>> /\ bpc \notin Working /\ bpc' \in {"idle", "looked"}
        /\ queue' \subseteq Disc /\ commands' \in 0 .. MaxCommands
    BY BurnAssumption DEF LookISO, RefuseISO, Give, Working, DiscNumbers, Numbered, TypeInv, Commands
  <1>2. /\ Scalars /\ AtRest /\ IndexKnown /\ Dirs(dir) /\ TreesInHand /\ ISOs(iso) /\ Shelved(shelf)
        /\ Commands /\ ISOsInHand /\ OneAtATime
    BY DEF TypeInv
  <1>3. Scalars' /\ AtRest' /\ IndexKnown' /\ Dirs(dir') /\ ISOs(iso') /\ Shelved(shelf')
    BY <1>1, <1>2 DEF layoutVars, enc, work, memory, ended, Scalars, AtRest, IndexKnown
  <1>4. TreesInHand' /\ OneAtATime'
    BY <1>1, <1>2 DEF layoutVars, enc, work, memory, ended, TreesInHand, Laid, OneAtATime, Working
  <1>5. Commands' /\ ISOsInHand'
    BY <1>1, <1>2 DEF layoutVars, Commands, ISOsInHand, Working
  <1> QED
    BY <1>3, <1>4, <1>5 DEF TypeInv

\* A command that goes on, or ends.
LEMMA CommandTypes == ASSUME TypeInv, Command PROVE TypeInv'
  <1>0. /\ bpc \in Working /\ pc = "idle" /\ lock = "burn" /\ command \in CommandType
        /\ ISOs(iso) /\ Shelved(shelf) /\ queue \subseteq Disc /\ commands \in 0 .. MaxCommands
        /\ Dirs(dir) /\ ISOsInHand
        /\ command.total \in Nat
    BY DEF Command, Ensure, AtDisc, BuildOne, Mastered, MasteringFails, BurnDisc, Decline, Done, Working,
           TypeInv, Commands, OneAtATime, CommandType
  <1>1. ASSUME EndCommand, ISOs(iso'), Shelved(shelf') PROVE TypeInv'
    <2>1. Commands' /\ lock' = "free" /\ bpc' = "idle"
      BY <1>0, <1>1 DEF EndCommand, Release, Commands, Working
    <2> QED
      BY <1>0, <1>1, <2>1, AwayTypes DEF EndCommand, Working
  <1>2. ASSUME UNCHANGED quiet, queue' \subseteq queue, bpc' \in Working, ISOs(iso'), Shelved(shelf'),
               bpc' \in {"mastering", "offer"} => queue' # {} /\ IsISO(iso'[First'])
        PROVE  TypeInv'
    <2>1. /\ UNCHANGED <<enc, work, manifest, dir, pc, at, memory, run, refused, stops, faults, site>>
          /\ lock' = lock /\ command' = command /\ commands' = commands
      BY <1>2 DEF quiet, layoutVars, ended
    <2>2. Commands'
      BY <1>0, <1>2, <2>1 DEF Commands, Working
    <2> QED
      BY <1>0, <1>2, <2>1, <2>2, AwayTypes
  <1>3. queue # {} => First \in Disc /\ First \in queue
    BY <1>0, FirstInQueue
  <1>4. CASE Ensure
    <2>1. iso[First] # None /\ queue # {} /\ queue' = queue /\ iso' = iso /\ shelf' = shelf /\ bpc' = "offer"
      BY <1>4 DEF Ensure, AtDisc, Ready
    <2>2. IsISO(iso[First])
      BY <1>0, <1>3, <2>1 DEF ISOs
    <2> QED
      BY <1>0, <1>2, <1>4, <2>1, <2>2, SameFirst DEF Ensure, Working
  <1>5. CASE BuildOne
    <2>1. IsTree(dir[First]) /\ First \in Disc
      BY <1>0, <1>3, <1>5 DEF BuildOne, AtDisc, CanRebuild, Dirs
    <2>2. ISOs(iso') /\ IsISO(iso'[First])
      BY <1>0, <1>5, <2>1, Begun DEF BuildOne
    <2> QED
      BY <1>0, <1>2, <1>5, <2>2, SameFirst DEF BuildOne, AtDisc, Working
  <1>6. CASE Mastered
    <2>1. /\ IsISO(iso[First]) /\ First \in Disc /\ queue # {} /\ queue' \subseteq queue
          /\ bpc' = "offer" => queue' = queue
          /\ bpc' \in {"offer", "next"}
      BY <1>0, <1>3, <1>6 DEF Mastered, ISOsInHand
    <2>2. ISOs(iso') /\ IsISO(iso'[First])
      BY <1>0, <1>6, <2>1, Ended DEF Mastered
    <2> QED
      BY <1>0, <1>2, <1>6, <2>1, <2>2, SameFirst DEF Mastered, Working
  <1>7. CASE MasteringFails
    <2>1. ISOs(iso')
      BY <1>0, <1>3, <1>7, Lost DEF MasteringFails, ISOsInHand
    <2> QED
      BY <1>0, <1>1, <1>7, <2>1 DEF MasteringFails
  <1>8. CASE BurnDisc
    <2>1. IsISO(iso[First]) /\ First \in Disc
      BY <1>0, <1>3, <1>8 DEF BurnDisc, ISOsInHand
    <2>2. IsBurned([iso |-> iso[First], finished |-> ~hasState])
      BY <2>1 DEF IsBurned
    <2>3. Shelved(shelf')
      BY <1>0, <1>8, <2>1, <2>2 DEF BurnDisc, Shelved
    <2>4. ISOs(iso')
      BY <1>0, <1>8, <2>1, OneISO DEF BurnDisc, Drop
    <2> QED
      BY <1>2, <1>8, <2>3, <2>4 DEF BurnDisc, Working
  <1>9. CASE Decline
    BY <1>0, <1>2, <1>9 DEF Decline, Working
  <1>10. CASE Done
    BY <1>0, <1>1, <1>10 DEF Done
  <1> QED
    BY <1>4, <1>5, <1>6, <1>7, <1>8, <1>9, <1>10 DEF Command

LEMMA CarryTypes == ASSUME TypeInv, CarryAway PROVE TypeInv'
  <1>1. /\ pc = "idle" /\ pc' = "idle" /\ lock' = lock /\ bpc' = bpc /\ bpc \notin Working
        /\ iso' = iso /\ shelf' = shelf /\ queue' = queue /\ command' = command /\ commands' = commands
    BY DEF CarryAway, TypeInv, OneAtATime, ended, burnVars
  <1>2. Scalars' /\ AtRest' /\ IndexKnown'
    BY <1>1, Numbers DEF CarryAway, TypeInv, Scalars, AtRest, IndexKnown, work, memory, ended
  <1>3. Dirs(dir')
    BY DEF CarryAway, Dirs
  <1>4. ISOs(iso') /\ Shelved(shelf') /\ Commands' /\ OneAtATime'
    BY <1>1 DEF TypeInv, Commands, OneAtATime
  <1>5. TreesInHand' /\ ISOsInHand'
    BY <1>1 DEF TreesInHand, Laid, PerDisc, Later, ISOsInHand, Working
  <1> QED
    BY <1>2, <1>3, <1>4, <1>5 DEF TypeInv

LEMMA RunTypes == ASSUME TypeInv, Run, UNCHANGED burnVars PROVE TypeInv'
  <1>1. Scalars' /\ AtRest' /\ IndexKnown' /\ (lock' = "backup" <=> pc' # "idle") /\ lock' # "burn"
    BY RunScalars
  <1>2. Dirs(dir') /\ TreesInHand'
    BY RunTrees
  <1>3. pc # "idle" /\ pc' # "mastering"
    BY DEF Run, EncryptIndex, RecordIndex, KeepIndex, ClearDisc, RefuseMissing, PlaceImage, PlaceIndex,
           ProtectSidecars, PublishKey, RefuseData, WriteManifest, PlaceManifest, WritePayload, CopySelf,
           WriteReadme, KnowIndex, WriteSums, RefuseChanged, CheckDiscSizes, RefuseOversized, FinishIndex,
           FinishState, Refuse, EndRun, EachDisc
  <1>4. bpc \notin Working /\ bpc' = bpc
    BY <1>3 DEF TypeInv, OneAtATime, burnVars
  <1>5. ISOs(iso') /\ Shelved(shelf') /\ Commands'
    BY DEF TypeInv, burnVars, Commands
  <1>6. ISOsInHand' /\ OneAtATime'
    BY <1>1, <1>3, <1>4 DEF ISOsInHand, OneAtATime, Working
  <1> QED
    BY <1>1, <1>2, <1>5, <1>6 DEF TypeInv

\* Nothing is in hand at first but the staging lock.
LEMMA InitTypes == Init => TypeInv
  <1> SUFFICES ASSUME Init PROVE TypeInv
    OBVIOUS
  <1>1. Scalars /\ AtRest /\ IndexKnown
    <2>1. 0 \in 0 .. MaxStops /\ 0 \in 0 .. MaxFaults /\ 0 \in 0 .. MaxRuns
      BY Numbers, LayoutAssumption
    <2> QED
      BY <2>1, Numbers DEF Init, LayoutInit, Scalars, AtRest, IndexKnown, NoRefusal, Phases
  <1>2. Dirs(dir) /\ TreesInHand
    BY DEF Init, LayoutInit, Dirs, TreesInHand, Laid, PerDisc, Later
  <1>3. ISOs(iso) /\ Shelved(shelf) /\ Commands /\ ISOsInHand /\ OneAtATime
    BY BurnAssumption DEF Init, LayoutInit, ISOs, Shelved, Commands, ISOsInHand, OneAtATime, Working
  <1> QED
    BY <1>1, <1>2, <1>3 DEF TypeInv

LEMMA NextTypes == TypeInv /\ [Next]_vars => TypeInv'
  <1> SUFFICES ASSUME TypeInv, [Next]_vars PROVE TypeInv'
    OBVIOUS
  <1>1. CASE Run /\ UNCHANGED burnVars
    BY <1>1, RunTypes
  <1>2. CASE (Stop \/ Resume \/ FollowAdvice \/ Fault) /\ UNCHANGED burnVars
    BY <1>2, StagingTypes
  <1>3. CASE BuildNext \/ Built \/ BuildFails
    BY <1>3, EagerTypes
  <1>4. CASE StartBurn \/ StartISO
    BY <1>4, StartTypes
  <1>5. CASE LookISO \/ RefuseISO
    BY <1>5, LookTypes
  <1>6. CASE Command
    BY <1>6, CommandTypes
  <1>7. CASE CarryAway
    BY <1>7, CarryTypes
  <1>8. CASE UNCHANGED vars
    <2>1. UNCHANGED layoutVars /\ UNCHANGED burnVars
      BY <1>8 DEF vars
    <2>2. Scalars' /\ AtRest' /\ IndexKnown' /\ Dirs(dir') /\ TreesInHand'
      BY <2>1 DEF layoutVars, enc, work, memory, ended, TypeInv, Scalars, AtRest, IndexKnown, TreesInHand, Laid
    <2>3. ISOs(iso') /\ Shelved(shelf') /\ Commands' /\ OneAtATime'
      BY <2>1 DEF layoutVars, burnVars, ended, TypeInv, Commands, OneAtATime
    <2>4. ISOsInHand'
      BY <2>1, SameFirst DEF layoutVars, burnVars, TypeInv, ISOsInHand
    <2> QED
      BY <2>2, <2>3, <2>4 DEF TypeInv
  <1> QED
    BY <1>1, <1>2, <1>3, <1>4, <1>5, <1>6, <1>7, <1>8 DEF Next, LayoutNext

LEMMA TypesHold == Spec => []TypeInv
  BY InitTypes, NextTypes, PTL DEF Spec

(***************************************************************************)
(* Directories, ISOs and discs are always trees of contents, and staging   *)
(* has one writer: a backup that runs or a command at work, never both.    *)
(***************************************************************************)
THEOREM TypeCorrect == Spec => []TypeOK
  BY TypesHold, TypeInvIsTyped, PTL

-----------------------------------------------------------------------------
(***************************************************************************)
(* The directory an ISO is mastered from holds still until it is whole.    *)
(***************************************************************************)
SameFiles(n) ==
  dir[n] # None /\ DOMAIN dir[n] = DOMAIN iso[n].files /\ SameButRot(dir[n], iso[n].files)

Mastering ==
  /\ pc = "mastering" => SameFiles(at)
  /\ bpc = "mastering" => SameFiles(First)

LEMMA SameFilesAge ==
  ASSUME NEW n \in Disc, SameFiles(n), Aged(dir[n], dir'[n]), iso'[n] = iso[n]
  PROVE  SameFiles(n)'
  <1>1. CASE dir'[n] = dir[n]
    BY <1>1 DEF SameFiles, SameButRot
  <1>2. CASE dir'[n] # dir[n]
    <2>1. IsTree(dir'[n]) /\ DOMAIN dir'[n] = DOMAIN dir[n]
          /\ \A f \in DOMAIN dir[n] : dir'[n][f] = dir[n][f] \/ dir'[n][f] = Rot
      BY <1>2 DEF Aged
    <2> QED
      BY <2>1, TreeIsThere DEF SameFiles, SameButRot
  <1> QED
    BY <1>1, <1>2

\* An ISO just begun is of its directory.
LEMMA BegunSame ==
  ASSUME TypeInv, NEW n \in Disc, IsTree(dir[n]), NEW total \in Nat, BeginISO(n, total), dir' = dir
  PROVE  SameFiles(n)'
  <1>1. iso'[n].files = dir[n] /\ dir'[n] = dir[n]
    BY Begun DEF TypeInv
  <1> QED
    BY <1>1, TreeIsThere DEF SameFiles, SameButRot

\* Who is where: the backup runs, or a command works, or neither.
LEMMA Apart ==
  ASSUME TypeInv
  PROVE  /\ pc # "idle" => bpc \notin Working
         /\ lock = "free" => pc = "idle" /\ bpc \notin Working
  BY DEF TypeInv, OneAtATime

LEMMA RunStands ==
  ASSUME Run, UNCHANGED burnVars
  PROVE  /\ pc # "idle" /\ pc # "mastering" /\ pc' # "mastering" /\ cipher' = cipher
         /\ iso' = iso /\ bpc' = bpc /\ queue' = queue /\ shelf' = shelf
  BY DEF burnVars, enc, Run, EncryptIndex, RecordIndex, KeepIndex, ClearDisc, RefuseMissing, PlaceImage, PlaceIndex,
         ProtectSidecars, PublishKey, RefuseData, WriteManifest, PlaceManifest, WritePayload, CopySelf,
         WriteReadme, KnowIndex, WriteSums, RefuseChanged, CheckDiscSizes, RefuseOversized, FinishIndex,
         FinishState, Refuse, EndRun, EachDisc

\* The disc a command works at, and what an eager run is at.
LEMMA InHand ==
  ASSUME TypeInv
  PROVE  /\ bpc \in {"mastering", "offer"} => First \in Disc /\ IsISO(iso[First])
         /\ bpc = "next" /\ queue # {} => First \in Disc
         /\ pc \in {"isos", "mastering"} => IsTree(dir[at])
         /\ at \in Disc /\ Dirs(dir) /\ ISOs(iso)
         /\ pc = "mastering" => IsISO(iso[at])
         /\ bpc \in Working => command.total \in Nat
  BY FirstInQueue DEF TypeInv, Scalars, Commands, ISOsInHand, TreesInHand, Laid, Later, PerDisc, Phases, CommandType

LEMMA MasteringInitially == Init => Mastering
  BY DEF Init, LayoutInit, Mastering

LEMMA MasteringStays ==
  ASSUME TypeInv, Mastering, [Next]_vars
  PROVE  Mastering'
  <1> USE DEF Mastering, Working
  <1>1. CASE Run /\ UNCHANGED burnVars
    BY <1>1, RunStands, Apart
  <1>2. CASE (Stop \/ Resume) /\ UNCHANGED burnVars
    BY <1>2, Apart DEF Stop, Resume, EndRun, LockStaging, burnVars
  <1>3. CASE FollowAdvice /\ UNCHANGED burnVars
    BY <1>3, SameFirst DEF FollowAdvice, burnVars, SameFiles, SameButRot
  <1>4. CASE Fault /\ UNCHANGED burnVars
    <2>1. /\ pc' = pc /\ at' = at /\ bpc' = bpc /\ iso' = iso /\ queue' = queue
          /\ \A n \in Disc : Aged(dir[n], dir'[n])
      BY <1>4, FaultAges DEF Fault, burnVars
    <2>2. \A n \in Disc : SameFiles(n) => SameFiles(n)'
      BY <2>1, SameFilesAge
    <2> QED
      BY <2>1, <2>2, SameFirst, InHand
  <1>5. CASE BuildNext
    <2>1. pc = "isos" /\ BeginISO(at, Discs) /\ dir' = dir /\ at' = at /\ bpc' = bpc
      BY <1>5 DEF BuildNext, session
    <2>2. SameFiles(at)' /\ bpc' # "mastering"
      BY <2>1, BegunSame, InHand, Apart, Numbers
    <2> QED
      BY <2>1, <2>2
  <1>6. CASE Built \/ BuildFails
    BY <1>6, Apart DEF Built, BuildFails, EachDisc, EndRun, session
  <1>7. CASE StartBurn \/ LookISO \/ StartISO \/ RefuseISO
    <2>1. bpc' # "mastering" /\ pc' = pc /\ at' = at /\ dir' = dir /\ iso' = iso
      BY <1>7 DEF StartBurn, LookISO, StartISO, RefuseISO, Begin, layoutVars
    <2> QED
      BY <2>1 DEF SameFiles, SameButRot
  <1>8. CASE BuildOne
    <2>1. bpc = "next" /\ queue # {} /\ CanRebuild(First) /\ BeginISO(First, command.total)
          /\ dir' = dir /\ queue' = queue /\ pc' = pc
      BY <1>8 DEF BuildOne, AtDisc, quiet, layoutVars
    <2>2. First \in Disc /\ IsTree(dir[First]) /\ command.total \in Nat /\ pc # "mastering"
      BY <2>1, InHand, Apart DEF CanRebuild, Dirs
    <2>3. SameFiles(First)' /\ First' = First
      BY <2>1, <2>2, BegunSame, SameFirst
    <2> QED
      BY <2>1, <2>2, <2>3
  <1>9. CASE Ensure \/ Mastered \/ MasteringFails \/ BurnDisc \/ Decline \/ Done
    <2>1. bpc' # "mastering" /\ pc' = pc /\ bpc \in Working
      BY <1>9 DEF Ensure, AtDisc, Mastered, MasteringFails, BurnDisc, Decline, Done, EndCommand, quiet, layoutVars
    <2> QED
      BY <2>1, Apart
  <1>10. CASE CarryAway
    BY <1>10, Apart DEF CarryAway, burnVars
  <1>11. CASE UNCHANGED vars
    BY <1>11, SameFirst DEF vars, layoutVars, burnVars, SameFiles, SameButRot
  <1> QED
    BY <1>1, <1>2, <1>3, <1>4, <1>5, <1>6, <1>7, <1>8, <1>9, <1>10, <1>11 DEF Next, LayoutNext, Command

LEMMA MasteringHolds == Spec => [](TypeInv /\ Mastering)
  <1>1. Init => TypeInv /\ Mastering
    BY InitTypes, MasteringInitially
  <1>2. TypeInv /\ Mastering /\ [Next]_vars => (TypeInv /\ Mastering)'
    BY NextTypes, MasteringStays
  <1> QED
    BY <1>1, <1>2, PTL DEF Spec

\* The disc xorriso is at.
InMastering(n) == (pc = "mastering" /\ n = at) \/ (bpc = "mastering" /\ n = First)

\* What a step does to an ISO.
LEMMA ISOSteps ==
  ASSUME TypeInv, [Next]_vars, NEW n \in Disc, iso'[n] # iso[n]
  PROVE  \/ iso'[n] = None /\ dir[n] # None
         \/ iso'[n] = None /\ InMastering(n)
         \/ ~Whole(iso'[n]) /\ dir[n] # None
         \/ iso'[n].files = iso[n].files /\ InMastering(n)
  <1>1. CASE iso' = iso
    BY <1>1
  <1>2. CASE BuildNext
    BY <1>2, Begun, InHand, TreeIsThere, Numbers DEF BuildNext
  <1>3. CASE Built
    BY <1>3, Ended, InHand DEF Built, InMastering
  <1>4. CASE BuildFails
    BY <1>4, Lost, InHand DEF BuildFails, InMastering
  <1>5. CASE BuildOne
    <2>1. bpc = "next" /\ queue # {} /\ CanRebuild(First) /\ BeginISO(First, command.total)
      BY <1>5 DEF BuildOne, AtDisc
    <2>2. First \in Disc /\ IsTree(dir[First]) /\ command.total \in Nat
      BY <2>1, InHand DEF CanRebuild, Dirs, Working
    <2> QED
      BY <2>1, <2>2, Begun, InHand, TreeIsThere
  <1>6. CASE Mastered
    BY <1>6, Ended, InHand DEF Mastered, InMastering
  <1>7. CASE MasteringFails
    BY <1>7, Lost, InHand DEF MasteringFails, InMastering
  <1>8. CASE BurnDisc
    <2>1. First \in Disc /\ Drop(First)
      BY <1>8, InHand DEF BurnDisc
    <2>2. iso' = [iso EXCEPT ![First] = None] /\ dir[First] # None
      BY <2>1 DEF Drop, CanRebuild
    <2> QED
      BY <2>1, <2>2, InHand DEF ISOs
  <1> QED
    BY <1>1, <1>2, <1>3, <1>4, <1>5, <1>6, <1>7, <1>8
    DEF Next, Command, Ensure, Decline, Done, StartBurn, StartISO, Begin, LookISO, RefuseISO, CarryAway, burnVars, vars

(***************************************************************************)
(* For any discs, payloads and interruptions: an ISO that becomes complete *)
(* is of the directory that is there.                                      *)
(***************************************************************************)
THEOREM MastersFromADirectoryAtRest == Spec => MastersAtRest
  <1>1. TypeInv /\ Mastering /\ [Next]_vars =>
          [\A n \in Disc : iso'[n] # iso[n] /\ iso'[n] # None /\ Whole(iso'[n]) =>
             /\ dir[n] # None /\ DOMAIN dir[n] = DOMAIN iso'[n].files
             /\ SameButRot(dir[n], iso'[n].files)]_vars
    BY ISOSteps DEF Mastering, SameFiles, InMastering
  <1> QED
    BY <1>1, MasteringHolds, PTL DEF Spec, MastersAtRest

-----------------------------------------------------------------------------
(***************************************************************************)
(* No step takes the last copy of an image out of staging.                 *)
(***************************************************************************)
\* A file written into the directory in hand.
LEMMA PutKeeps ==
  ASSUME Dirs(dir), at \in Disc, IsTree(dir[at]), NEW f \in File, NEW v, Put(f, v)
  PROVE  /\ dir'[at] = With(dir[at], f, v) /\ DOMAIN dir'[at] = DOMAIN dir[at] \cup {f}
         /\ \A n \in Disc : n # at => dir'[n] = dir[n]
         /\ dir'[at][f] = v /\ \A g \in DOMAIN dir[at] : g # f => dir'[at][g] = dir[at][g]
  <1>1. dir' = [dir EXCEPT ![at] = With(dir[at], f, v)]
    BY DEF Put
  <1>2. dir'[at] = With(dir[at], f, v) /\ \A n \in Disc : n # at => dir'[n] = dir[n]
    BY <1>1 DEF Dirs
  <1>3. /\ DOMAIN With(dir[at], f, v) = DOMAIN dir[at] \cup {f}
        /\ With(dir[at], f, v)[f] = v
        /\ \A g \in DOMAIN dir[at] : g # f => With(dir[at], f, v)[g] = dir[at][g]
    BY DEF With
  <1> QED
    BY <1>2, <1>3

\* The steps of a run that write into a directory it has cleared.
Writing ==
  \/ PlaceImage \/ PlaceIndex \/ ProtectSidecars \/ PublishKey \/ RefuseData
  \/ PlaceManifest \/ WritePayload \/ CopySelf \/ WriteReadme \/ WriteSums

LEMMA WritingInHand == ASSUME TypeInv, Writing PROVE IsTree(dir[at])
  <1>1. pc \in {"image", "copyIndex", "parity", "key", "placeManifest", "payload", "self", "readme", "sums"}
    BY DEF Writing, PlaceImage, PlaceIndex, ProtectSidecars, PublishKey, RefuseData, PlaceManifest, WritePayload,
           CopySelf, WriteReadme, WriteSums
  <1>2. TreesInHand /\ at \in Disc
    BY DEF TypeInv, Scalars
  <1> QED
    BY <1>1, <1>2 DEF TreesInHand, Laid, PerDisc, Later, Phases

LEMMA WritingTree ==
  ASSUME TypeInv, Writing
  PROVE  IsTree(dir'[at])
  <1>1. IsTree(dir[at]) /\ Dirs(dir) /\ at \in Disc
    BY WritingInHand, InHand
  <1>2. dir' = dir \/ \E d : IsTree(d) /\ dir' = [dir EXCEPT ![at] = d]
    <2>1. CASE PlaceManifest \/ WritePayload \/ CopySelf \/ WriteReadme \/ WriteSums
      BY <1>1, <2>1, LaterTree
    <2>2. CASE PlaceImage
      BY <1>1, <2>2, TreeWith, Contents DEF PlaceImage, Put, File, Data
    <2>3. CASE PlaceIndex
      BY <1>1, <2>3, TreeWith, Contents DEF PlaceIndex, Put, File, Data
    <2>4. CASE ProtectSidecars
      BY <1>1, <2>4, TreeWith, Contents DEF ProtectSidecars, Put, File, Data
    <2>5. CASE PublishKey \/ RefuseData
      BY <1>1, <2>5, TreeWith, Contents DEF PublishKey, RefuseData, WritePublicIdentity, Put, File
    <2> QED
      BY <2>1, <2>2, <2>3, <2>4, <2>5 DEF Writing
  <1> QED
    BY <1>1, <1>2, OneDir

LEMMA WritingKeeps ==
  ASSUME TypeInv, Writing
  PROVE  /\ DOMAIN dir[at] \subseteq DOMAIN dir'[at]
         /\ \A n \in Disc : n # at => dir'[n] = dir[n]
  <1>1. Dirs(dir) /\ at \in Disc /\ IsTree(dir[at])
    BY WritingInHand, InHand
  <1>2. CASE dir' = dir
    BY <1>2
  <1>3. CASE \E f \in File : \E v : Put(f, v)
    BY <1>1, <1>3, PutKeeps
  <1>4. CASE WritePayload
    BY <1>1, <1>4 DEF WritePayload, PlacePayload, Dirs
  <1>5. dir' = dir \/ WritePayload \/ \E f \in File : \E v : Put(f, v)
    BY DEF Writing, PlaceImage, PlaceIndex, ProtectSidecars, PublishKey, RefuseData, PlaceManifest, CopySelf,
           WriteReadme, WriteSums, WritePublicIdentity, File, Data, Tool
  <1> QED
    BY <1>2, <1>3, <1>4, <1>5

\* What a run writes nothing into, it leaves or clears.
LEMMA RunWrites == Run => dir' = dir \/ Writing \/ ClearDisc
  BY DEF Run, Writing, EncryptIndex, RecordIndex, KeepIndex, RefuseMissing, WriteManifest, KnowIndex,
         RefuseChanged, CheckDiscSizes, RefuseOversized, FinishIndex, FinishState, Refuse

\* What else touches a directory.
LEMMA DirTouched ==
  [Next]_vars => dir' = dir \/ (Run /\ Writing) \/ ClearDisc \/ Stop \/ Fault \/ CarryAway
  <1>1. Resume \/ FollowAdvice => dir' = dir
    BY DEF Resume, FollowAdvice
  <1>2. BuildNext \/ Built \/ BuildFails => dir' = dir
    BY DEF BuildNext, Built, BuildFails
  <1>3. StartBurn \/ LookISO \/ StartISO \/ RefuseISO => dir' = dir
    BY DEF StartBurn, LookISO, StartISO, RefuseISO, Begin, layoutVars
  <1>4. Command \/ UNCHANGED vars => dir' = dir
    BY DEF Command, Ensure, BuildOne, Mastered, MasteringFails, BurnDisc, Decline, Done, EndCommand,
           quiet, vars, layoutVars
  <1> QED
    BY <1>1, <1>2, <1>3, <1>4, RunWrites DEF Next, LayoutNext

\* Carried away is what was in enc/.
LEMMA CarryTakes == CarryAway => cipher' # cipher
  BY DEF CarryAway

\* What a step does to a directory.
LEMMA DirSteps ==
  ASSUME TypeInv, [Next]_vars, cipher' = cipher, NEW n \in Disc
  PROVE  \/ dir'[n] = dir[n]
         \/ dir[n] # None /\ dir'[n] # None /\ DOMAIN dir[n] \subseteq DOMAIN dir'[n]
         \/ cipher[n] # None
  <1>0. Dirs(dir) /\ at \in Disc
    BY InHand
  <1>1. CASE Run /\ Writing
    <2>1. IsTree(dir[at]) /\ DOMAIN dir[at] \subseteq DOMAIN dir'[at] /\ \A m \in Disc : m # at => dir'[m] = dir[m]
      BY <1>1, WritingInHand, WritingKeeps
    <2> QED
      BY <1>1, <2>1, WritingTree, TreeIsThere
  <1>2. CASE ClearDisc \/ Stop
    BY <1>0, <1>2 DEF ClearDisc, Stop, Available, Dirs
  <1>3. CASE Fault
    BY <1>0, <1>3, FaultAges, TreeIsThere DEF Aged
  <1> QED
    BY <1>1, <1>2, <1>3, DirTouched, CarryTakes

(***************************************************************************)
(* However a backup, its resumes, burn and iso follow one another: an      *)
(* image that is in enc/, in a directory or in the only ISO stays in one   *)
(* of them.                                                                *)
(***************************************************************************)
THEOREM LastCopyIsKept == Spec => LastCopyKept
  <1>1. ASSUME TypeInv, Mastering, [Next]_vars, cipher' = cipher, NEW n \in Disc, Held(n)
        PROVE  Held(n)'
    <2>1. CASE cipher[n] # None
      BY <1>1, <2>1 DEF Held
    <2>2. CASE cipher[n] = None /\ Has(n, "image")
      BY <1>1, <2>2, DirSteps DEF Held, Has
    <2>3. CASE cipher[n] = None /\ dir[n] = None
      <3>1. dir'[n] = None /\ ~InMastering(n)
        BY <1>1, <2>3, DirSteps DEF Mastering, SameFiles, InMastering
      <3>2. iso'[n] = iso[n]
        BY <1>1, <2>3, <3>1, ISOSteps
      <3> QED
        BY <1>1, <2>3, <3>1, <3>2 DEF Held, Has, Whole
    <2> QED
      BY <1>1, <2>1, <2>2, <2>3 DEF Held
  <1>2. TypeInv /\ Mastering /\ [Next]_vars =>
          [cipher' = cipher => \A n \in Disc : Held(n) => Held(n)']_vars
    BY <1>1
  <1> QED
    BY <1>2, MasteringHolds, PTL DEF Spec, LastCopyKept

-----------------------------------------------------------------------------
(***************************************************************************)
(* What each step of a run finds: the files of the disc in hand, of those  *)
(* before it, and that SHA512SUMS comes last.                              *)
(***************************************************************************)
Manifested(n) == pc \in Later \ {"manifest", "placeManifest"} \/ (pc = "placeManifest" /\ n < at)
Summing == {"sizes", "isos", "mastering", "finish", "state"}
Summed(n) == pc \in Summing \/ (pc = "sums" /\ n < at)
Documented(n) == pc \in Summing \cup {"known", "sums"} \/ (pc = "readme" /\ n < at)

LaidWhole ==
  \A n \in Disc : Laid(n) =>
    /\ "image" \in DOMAIN dir[n] /\ "index" \in DOMAIN dir[n] /\ (Public => "key" \in DOMAIN dir[n])
    /\ "parity" \in DOMAIN dir[n] <=> n \notin failed

BeingLaid ==
  /\ pc \in PerDisc \ {"clear"} => "sums" \notin DOMAIN dir[at]
  /\ pc \in {"copyIndex", "parity", "key"} => "image" \in DOMAIN dir[at]
  /\ pc \in {"parity", "key"} => "index" \in DOMAIN dir[at]
  /\ pc \in {"image", "copyIndex", "parity"} => "parity" \notin DOMAIN dir[at]
  /\ pc = "key" => ("parity" \in DOMAIN dir[at] <=> at \notin failed)

FailedSoFar ==
  /\ pc \in {"idle", "index", "record"} => failed = {}
  /\ pc \in PerDisc => \A n \in failed : n < at \/ (pc = "key" /\ n = at)

SumsLast == \A n \in Disc : Laid(n) /\ ~Summed(n) => "sums" \notin DOMAIN dir[n]

ManifestOfRun ==
  /\ pc \in Later \ {"manifest"} => manifest = run
  /\ \A n \in Disc : Manifested(n) => "manifest" \in DOMAIN dir[n] /\ dir[n]["manifest"] = run

TrueReadme(n) == [run |-> run, parity |-> n \notin failed, tools |-> ToolsOn(dir[n])]
ReadmeOfRun ==
  \A n \in Disc : Documented(n) => "readme" \in DOMAIN dir[n] /\ dir[n]["readme"] = TrueReadme(n)

Stages == LaidWhole /\ BeingLaid /\ FailedSoFar /\ SumsLast /\ ManifestOfRun /\ ReadmeOfRun

\* A run that is over, or has not come to the discs, has no stage to keep.
LEMMA NoStages ==
  ASSUME pc' \in {"idle", "index", "record"}, failed' = {}
  PROVE  Stages'
  BY DEF Stages, LaidWhole, BeingLaid, FailedSoFar, SumsLast, ManifestOfRun, ReadmeOfRun, Laid, Manifested,
         Summed, Summing, Documented, PerDisc, Later

\* With the directories as they are, or aged, a stage is kept.
LEMMA StagesAge ==
  ASSUME TypeInv, Stages, \A n \in Disc : Aged(dir[n], dir'[n]),
         UNCHANGED <<pc, at, run, failed, manifest>>
  PROVE  Stages'
  <1>1. \A n \in Disc : /\ DOMAIN dir'[n] = DOMAIN dir[n]
                        /\ "manifest" \in DOMAIN dir[n] => dir'[n]["manifest"] = dir[n]["manifest"]
                        /\ "readme" \in DOMAIN dir[n] => dir'[n]["readme"] = dir[n]["readme"]
    BY DEF Aged
  <1>2. at \in Disc
    BY InHand
  <1>3. \A n \in Disc : (Laid(n)' <=> Laid(n)) /\ (Manifested(n)' <=> Manifested(n)) /\ (Summed(n)' <=> Summed(n))
                        /\ (Documented(n)' <=> Documented(n)) /\ TrueReadme(n)' = TrueReadme(n)
    BY <1>1 DEF Laid, Manifested, Summed, Documented, TrueReadme, ToolsOn
  <1>4. LaidWhole'
    BY <1>1, <1>3 DEF Stages, LaidWhole
  <1>5. BeingLaid' /\ FailedSoFar'
    BY <1>1, <1>2 DEF Stages, BeingLaid, FailedSoFar
  <1>6. SumsLast'
    BY <1>1, <1>3 DEF Stages, SumsLast
  <1>7. ManifestOfRun' /\ ReadmeOfRun'
    BY <1>1, <1>3 DEF Stages, ManifestOfRun, ReadmeOfRun
  <1> QED
    BY <1>4, <1>5, <1>6, <1>7 DEF Stages

LEMMA Position ==
  ASSUME TypeInv
  PROVE  /\ at \in Disc /\ at \in Nat /\ 1 \in Disc
         /\ \A n \in Disc : n \in Nat /\ 1 <= n /\ n <= Discs
         /\ failed \subseteq Disc /\ Discs \in Nat
  BY Numbers DEF TypeInv, Scalars, Disc

\* Before the discs are laid out, and while one is.
LEMMA LayingStages ==
  ASSUME TypeInv, Stages,
         \/ EncryptIndex \/ RecordIndex \/ KeepIndex \/ ClearDisc \/ PlaceImage \/ PlaceIndex
         \/ ProtectSidecars \/ PublishKey
  PROVE  Stages'
  <1> USE DEF Laid, Manifested, Summed, Summing, Documented, PerDisc, Later, Phases
  <1>0. /\ Dirs(dir) /\ at \in Disc /\ at \in Nat /\ 1 \in Disc /\ Discs \in Nat /\ failed \subseteq Disc
        /\ \A n \in Disc : n \in Nat /\ 1 <= n /\ n <= Discs
        /\ LaidWhole /\ BeingLaid /\ FailedSoFar /\ SumsLast
    BY Position DEF Stages, TypeInv
  <1>1. CASE EncryptIndex \/ RecordIndex \/ KeepIndex
    <2>1. /\ pc \in {"index", "record"} /\ pc' \in {"record", "clear"} /\ at = 1 /\ at' = 1
          /\ failed = {} /\ failed' = {}
      BY <1>0, <1>1 DEF EncryptIndex, RecordIndex, KeepIndex, memory, TypeInv, AtRest, FailedSoFar
    <2> QED
      BY <1>0, <2>1 DEF Stages, LaidWhole, BeingLaid, FailedSoFar, SumsLast, ManifestOfRun, ReadmeOfRun
  <1>2. ASSUME pc' \in PerDisc
        PROVE  ManifestOfRun' /\ ReadmeOfRun' /\ \A n \in Disc : ~Summed(n)' /\ (Laid(n)' <=> n < at')
    BY <1>2 DEF ManifestOfRun, ReadmeOfRun
  <1>3. CASE ClearDisc
    <2>1. /\ pc = "clear" /\ pc' = "image" /\ at' = at /\ failed' = failed /\ dir'[at] = Empty
          /\ \A n \in Disc : n # at => dir'[n] = dir[n]
      BY <1>0, <1>3 DEF ClearDisc, memory, Dirs
    <2> QED
      BY <1>0, <1>2, <2>1, EmptyTree DEF Stages, LaidWhole, BeingLaid, FailedSoFar, SumsLast
  <1>4. CASE PlaceImage
    <2>1. /\ pc = "image" /\ pc' = "copyIndex" /\ at' = at /\ failed' = failed /\ Put("image", cipher[at])
      BY <1>4 DEF PlaceImage, memory
    <2>2. /\ DOMAIN dir'[at] = DOMAIN dir[at] \cup {"image"} /\ \A n \in Disc : n # at => dir'[n] = dir[n]
      BY <1>0, <1>4, <2>1, PutKeeps, WritingInHand DEF Writing, File, Data
    <2> QED
      BY <1>0, <1>2, <2>1, <2>2 DEF Stages, LaidWhole, BeingLaid, FailedSoFar, SumsLast
  <1>5. CASE PlaceIndex
    <2>1. /\ pc = "copyIndex" /\ pc' = "parity" /\ at' = at /\ failed' = failed /\ Put("index", index)
      BY <1>5 DEF PlaceIndex, memory
    <2>2. /\ DOMAIN dir'[at] = DOMAIN dir[at] \cup {"index"} /\ \A n \in Disc : n # at => dir'[n] = dir[n]
      BY <1>0, <1>5, <2>1, PutKeeps, WritingInHand DEF Writing, File, Data
    <2> QED
      BY <1>0, <1>2, <2>1, <2>2 DEF Stages, LaidWhole, BeingLaid, FailedSoFar, SumsLast
  <1>6. CASE ProtectSidecars
    <2>1. pc = "parity" /\ pc' = "key" /\ at' = at
      BY <1>6 DEF ProtectSidecars
    <2>2. CASE Put("parity", run) /\ failed' = failed
      <3>1. /\ DOMAIN dir'[at] = DOMAIN dir[at] \cup {"parity"} /\ \A n \in Disc : n # at => dir'[n] = dir[n]
        BY <1>0, <1>6, <2>2, PutKeeps, WritingInHand DEF Writing, File, Data
      <3> QED
        BY <1>0, <1>2, <2>1, <2>2, <3>1 DEF Stages, LaidWhole, BeingLaid, FailedSoFar, SumsLast
    <2>3. CASE dir' = dir /\ failed' = failed \cup {at}
      BY <1>0, <1>2, <2>1, <2>3 DEF Stages, LaidWhole, BeingLaid, FailedSoFar, SumsLast
    <2> QED
      BY <1>6, <2>2, <2>3 DEF ProtectSidecars
  <1>7. CASE PublishKey
    <2>1. /\ pc = "key" /\ failed' = failed /\ WritePublicIdentity /\ EachDisc("clear", "manifest")
      BY <1>7 DEF PublishKey, memory
    <2>2. /\ DOMAIN dir'[at] = DOMAIN dir[at] \cup (IF Public THEN {"key"} ELSE {})
          /\ \A n \in Disc : n # at => dir'[n] = dir[n]
      BY <1>0, <1>7, <2>1, PutKeeps, WritingInHand DEF Writing, File, WritePublicIdentity
    <2>3. \/ at' = at + 1 /\ pc' = "clear" /\ at < Discs
          \/ at' = 1 /\ pc' = "manifest" /\ at = Discs
      BY <1>0, <2>1, NextDisc
    <2>4. \A n \in Disc : Laid(n)' => (n < at \/ n = at)
      BY <1>0, <2>3
    <2>5. LaidWhole'
      BY <1>0, <2>1, <2>2, <2>4 DEF LaidWhole, BeingLaid
    <2>6. BeingLaid' /\ FailedSoFar'
      BY <1>0, <2>1, <2>3 DEF BeingLaid, FailedSoFar
    <2>7. SumsLast'
      BY <1>0, <2>1, <2>2, <2>4 DEF SumsLast, BeingLaid
    <2>8. ManifestOfRun' /\ ReadmeOfRun'
      BY <2>3 DEF ManifestOfRun, ReadmeOfRun
    <2> QED
      BY <2>5, <2>6, <2>7, <2>8 DEF Stages
  <1> QED
    BY <1>1, <1>3, <1>4, <1>5, <1>6, <1>7

\* The documents of every disc, disc by disc.
LEMMA DocumentStages ==
  ASSUME TypeInv, Stages,
         \/ WriteManifest \/ PlaceManifest \/ WritePayload \/ CopySelf \/ WriteReadme
         \/ KnowIndex \/ WriteSums
  PROVE  Stages'
  <1> USE DEF Laid, Manifested, Summed, Summing, Documented, PerDisc, Later, Phases
  <1>0. /\ Dirs(dir) /\ at \in Disc /\ at \in Nat /\ 1 \in Disc /\ Discs \in Nat /\ failed \subseteq Disc
        /\ \A n \in Disc : n \in Nat /\ 1 <= n /\ n <= Discs
        /\ LaidWhole /\ BeingLaid /\ FailedSoFar /\ SumsLast /\ ManifestOfRun /\ ReadmeOfRun
    BY Position DEF Stages, TypeInv
  <1>1. /\ pc \in {"manifest", "placeManifest", "payload", "self", "readme", "known", "sums"}
        /\ pc' \in {"placeManifest", "payload", "self", "readme", "known", "sums", "sizes"}
        /\ run' = run /\ failed' = failed
    BY <1>0, NextDisc DEF WriteManifest, PlaceManifest, WritePayload, CopySelf, WriteReadme, KnowIndex, WriteSums,
                          memory, ended
  <1>2. BeingLaid' /\ FailedSoFar'
    BY <1>1 DEF BeingLaid, FailedSoFar
  \* What a step adds to the disc in hand, it adds to one that is laid out.
  <1>3. ASSUME NEW S, "parity" \notin S,
               DOMAIN dir'[at] = DOMAIN dir[at] \cup S, \A n \in Disc : n # at => dir'[n] = dir[n]
        PROVE  LaidWhole' /\ \A n \in Disc : "sums" \in DOMAIN dir'[n] => "sums" \in DOMAIN dir[n] \cup S
    BY <1>0, <1>1, <1>3 DEF LaidWhole
  <1>4. ASSUME \A n \in Disc : "sums" \in DOMAIN dir'[n] => "sums" \in DOMAIN dir[n],
               pc # "sums"
        PROVE  SumsLast'
    BY <1>0, <1>1, <1>4 DEF SumsLast
  <1>5. CASE WriteManifest \/ KnowIndex
    <2>1. at = 1 /\ dir' = dir /\ at' = at
      BY <1>0, <1>5 DEF TypeInv, AtRest, WriteManifest, KnowIndex
    <2>2. LaidWhole'
      BY <1>0, <1>1, <2>1 DEF LaidWhole
    <2>3. SumsLast'
      BY <1>0, <1>1, <1>5, <2>1 DEF SumsLast, WriteManifest, KnowIndex
    <2>4. CASE WriteManifest
      BY <1>0, <1>1, <1>2, <2>1, <2>2, <2>3, <2>4 DEF WriteManifest, Stages, ManifestOfRun, ReadmeOfRun
    <2>5. CASE KnowIndex
      <3>1. manifest' = manifest /\ \A n \in Disc : TrueReadme(n)' = TrueReadme(n)
        BY <1>1, <2>1, <2>5 DEF KnowIndex, TrueReadme, ToolsOn
      <3> QED
        BY <1>0, <1>1, <1>2, <2>1, <2>2, <2>3, <2>5, <3>1 DEF KnowIndex, Stages, ManifestOfRun, ReadmeOfRun
    <2> QED
      BY <1>5, <2>4, <2>5
  <1>6. CASE PlaceManifest
    <2>1. pc = "placeManifest" /\ Put("manifest", manifest) /\ manifest' = manifest /\ manifest = run
          /\ EachDisc("placeManifest", "payload")
      BY <1>0, <1>6 DEF PlaceManifest, ManifestOfRun
    <2>2. /\ DOMAIN dir'[at] = DOMAIN dir[at] \cup {"manifest"} /\ dir'[at]["manifest"] = run
          /\ \A n \in Disc : n # at => dir'[n] = dir[n]
      BY <1>0, <1>6, <2>1, PutKeeps, WritingInHand DEF Writing, File
    <2>3. \/ at' = at + 1 /\ pc' = "placeManifest" /\ at < Discs
          \/ at' = 1 /\ pc' = "payload" /\ at = Discs
      BY <1>0, <2>1, NextDisc
    <2>4. LaidWhole' /\ SumsLast'
      BY <1>3, <1>4, <2>1, <2>2
    <2>5. ManifestOfRun'
      BY <1>0, <1>1, <2>1, <2>2, <2>3 DEF ManifestOfRun
    <2>6. ReadmeOfRun'
      BY <2>3 DEF ReadmeOfRun
    <2> QED
      BY <1>2, <2>4, <2>5, <2>6 DEF Stages
  <1>7. CASE WritePayload \/ CopySelf
    <2>1. pc \in {"payload", "self"} /\ manifest' = manifest
          /\ pc' \in {"payload", "self", "readme"} /\ (pc' = "readme" => at' = 1)
      BY <1>0, <1>7, NextDisc DEF WritePayload, CopySelf
    <2> DEFINE Adds(S) ==
                 /\ DOMAIN dir'[at] = DOMAIN dir[at] \cup S /\ \A n \in Disc : n # at => dir'[n] = dir[n]
                 /\ \A f \in DOMAIN dir[at] \ S : dir'[at][f] = dir[at][f]
    <2>2. PICK S \in SUBSET Tool : Adds(S)
      <3>1. CASE WritePayload
        <4>1. setting.payload \subseteq Tool
          BY <2>1, LayoutAssumption DEF TypeInv, Scalars, Setting
        <4>2. dir'[at] = PlacePayload(dir[at]) /\ \A n \in Disc : n # at => dir'[n] = dir[n]
          BY <1>0, <3>1 DEF WritePayload, Dirs
        <4> QED
          BY <4>1, <4>2 DEF PlacePayload
      <3>2. CASE CopySelf /\ dir' = dir
        <4> WITNESS {} \in SUBSET Tool
        <4>1. DOMAIN dir[at] = DOMAIN dir[at] \cup {}
          OBVIOUS
        <4> QED
          BY <3>2, <4>1
      <3>3. CASE CopySelf /\ Put("self", run)
        <4>1. IsTree(dir[at])
          BY <3>3, WritingInHand DEF Writing
        <4>2. Adds({"self"})
          BY <1>0, <3>3, <4>1, PutKeeps DEF File, Tool
        <4> QED
          BY <4>2 DEF Tool
      <3> QED
        BY <1>7, <3>1, <3>2, <3>3 DEF CopySelf
    <2>3. LaidWhole' /\ SumsLast'
      BY <1>3, <1>4, <2>1, <2>2 DEF Tool
    <2>4. ManifestOfRun'
      <3>1. \A n \in Disc : "manifest" \in DOMAIN dir[n] /\ dir[n]["manifest"] = run
        BY <1>0, <2>1 DEF ManifestOfRun
      <3>2. \A n \in Disc : "manifest" \in DOMAIN dir'[n] /\ dir'[n]["manifest"] = run
        BY <2>2, <3>1 DEF Tool
      <3> QED
        BY <1>0, <1>1, <2>1, <3>2 DEF ManifestOfRun
    <2>5. ReadmeOfRun'
      BY <1>0, <2>1 DEF ReadmeOfRun
    <2> QED
      BY <1>2, <2>3, <2>4, <2>5 DEF Stages
  <1>8. CASE WriteReadme
    <2> DEFINE r == [run |-> run, parity |-> ~SidecarFailed(at), tools |-> ToolsOn(dir[at])]
    <2>1. pc = "readme" /\ Put("readme", r) /\ manifest' = manifest /\ EachDisc("readme", "known")
      BY <1>8 DEF WriteReadme
    <2>2. /\ DOMAIN dir'[at] = DOMAIN dir[at] \cup {"readme"} /\ dir'[at]["readme"] = r
          /\ \A n \in Disc : n # at => dir'[n] = dir[n]
          /\ \A g \in DOMAIN dir[at] : g # "readme" => dir'[at][g] = dir[at][g]
      BY <1>0, <1>8, <2>1, PutKeeps, WritingInHand DEF Writing, File
    <2>3. \/ at' = at + 1 /\ pc' = "readme" /\ at < Discs
          \/ at' = 1 /\ pc' = "known" /\ at = Discs
      BY <1>0, <2>1, NextDisc
    <2>4. LaidWhole' /\ SumsLast'
      BY <1>3, <1>4, <2>1, <2>2
    <2>5. ManifestOfRun'
      BY <1>0, <1>1, <2>1, <2>2, <2>3 DEF ManifestOfRun
    <2>6. \A n \in Disc : TrueReadme(n)' = TrueReadme(n)
      BY <1>1, <2>2 DEF TrueReadme, ToolsOn, Tool
    <2>7. r = TrueReadme(at)
      BY DEF TrueReadme, SidecarFailed
    <2>8. \A n \in Disc : Documented(n)' => Documented(n) \/ n = at
      BY <1>0, <2>1, <2>3
    <2>9. ReadmeOfRun'
      BY <1>0, <2>2, <2>6, <2>7, <2>8 DEF ReadmeOfRun
    <2> QED
      BY <1>2, <2>4, <2>5, <2>9 DEF Stages
  <1>9. CASE WriteSums
    <2>1. pc = "sums" /\ Put("sums", Hashes(at)) /\ manifest' = manifest /\ EachDisc("sums", "sizes")
      BY <1>9 DEF WriteSums
    <2>2. /\ DOMAIN dir'[at] = DOMAIN dir[at] \cup {"sums"}
          /\ \A n \in Disc : n # at => dir'[n] = dir[n]
          /\ \A g \in DOMAIN dir[at] : g # "sums" => dir'[at][g] = dir[at][g]
      BY <1>0, <1>9, <2>1, PutKeeps, WritingInHand DEF Writing, File
    <2>3. \/ at' = at + 1 /\ pc' = "sums" /\ at < Discs
          \/ at' = 1 /\ pc' = "sizes" /\ at = Discs
      BY <1>0, <2>1, NextDisc
    <2>4. LaidWhole'
      BY <1>3, <2>2
    <2>5. SumsLast'
      <3>1. \A n \in Disc : ~Summed(n)' => ~Summed(n) /\ n # at
        BY <1>0, <2>1, <2>3
      <3>2. \A n \in Disc : ~Summed(n) => "sums" \notin DOMAIN dir[n]
        BY <1>0, <2>1 DEF SumsLast
      <3> QED
        BY <2>2, <3>1, <3>2 DEF SumsLast
    <2>6. ManifestOfRun'
      BY <1>0, <1>1, <2>1, <2>2 DEF ManifestOfRun
    <2>7. \A n \in Disc : TrueReadme(n)' = TrueReadme(n)
      BY <1>1, <2>2 DEF TrueReadme, ToolsOn, Tool
    <2>8. ReadmeOfRun'
      BY <1>0, <2>1, <2>2, <2>7 DEF ReadmeOfRun
    <2> QED
      BY <1>2, <2>4, <2>5, <2>6, <2>8 DEF Stages
  <1> QED
    BY <1>5, <1>6, <1>7, <1>8, <1>9

\* Once every disc has its SHA512SUMS, nothing is written any more.
LEMMA SummedStages ==
  ASSUME TypeInv, Stages, CheckDiscSizes \/ FinishIndex \/ BuildNext \/ Built
  PROVE  Stages'
  <1>1. /\ pc \in Summing /\ pc' \in Summing
        /\ UNCHANGED <<dir, run, failed, manifest>>
    BY NextDisc, Position
    DEF CheckDiscSizes, FinishIndex, BuildNext, Built, memory, ended, Summing, EachDisc
  <1>2. \A n \in Disc : TrueReadme(n)' = TrueReadme(n)
    BY <1>1 DEF TrueReadme, ToolsOn
  <1> QED
    BY <1>1, <1>2
    DEF Stages, LaidWhole, BeingLaid, FailedSoFar, SumsLast, ManifestOfRun, ReadmeOfRun,
        Laid, Manifested, Summed, Summing, Documented, PerDisc, Later, Phases

LEMMA StagesInitially == Init => Stages
  BY DEF Init, LayoutInit, Stages, LaidWhole, BeingLaid, FailedSoFar, SumsLast, ManifestOfRun, ReadmeOfRun,
         Laid, Manifested, Summed, Summing, Documented, PerDisc, Later

LEMMA StagesStay == TypeInv /\ Stages /\ [Next]_vars => Stages'
  <1> SUFFICES ASSUME TypeInv, Stages, [Next]_vars PROVE Stages'
    OBVIOUS
  <1>1. CASE RefuseMissing \/ RefuseData \/ RefuseChanged \/ RefuseOversized \/ FinishState \/ Stop \/ BuildFails
    BY <1>1, NoStages DEF RefuseMissing, RefuseData, RefuseChanged, RefuseOversized, FinishState, Stop, BuildFails,
                          Refuse, EndRun
  <1>2. CASE Resume
    BY <1>2, NoStages DEF Resume, Stages, FailedSoFar
  <1>3. CASE Run
    BY <1>1, <1>3, LayingStages, DocumentStages, SummedStages DEF Run
  <1>4. CASE BuildNext \/ Built
    BY <1>4, SummedStages
  <1>5. CASE Fault
    BY <1>5, FaultAges, StagesAge DEF Fault, memory
  <1>6. CASE FollowAdvice \/ StartBurn \/ LookISO \/ StartISO \/ RefuseISO \/ Command \/ UNCHANGED vars
    <2>1. UNCHANGED <<dir, pc, at, run, failed, manifest>>
      BY <1>6 DEF FollowAdvice, StartBurn, LookISO, StartISO, RefuseISO, Begin, Command, Ensure, BuildOne, Mastered,
                  MasteringFails, BurnDisc, Decline, Done, EndCommand, quiet, layoutVars, vars, memory, ended
    <2> QED
      BY <2>1, StagesAge DEF Aged
  <1>7. CASE CarryAway
    <2>1. pc = "idle" /\ pc' = "idle" /\ failed' = failed
      BY <1>7, Apart DEF CarryAway, memory
    <2> QED
      BY <2>1, NoStages DEF Stages, FailedSoFar
  <1> QED
    BY <1>1, <1>2, <1>3, <1>4, <1>5, <1>6, <1>7 DEF Next, LayoutNext

LEMMA StagesHold == Spec => [](TypeInv /\ Mastering /\ Stages)
  <1>1. Init => Stages
    BY StagesInitially
  <1>2. TypeInv /\ Stages /\ [Next]_vars => Stages'
    BY StagesStay
  <1> QED
    BY <1>1, <1>2, MasteringHolds, PTL DEF Spec

-----------------------------------------------------------------------------
(***************************************************************************)
(* What SHA512SUMS vouches for.                                            *)
(***************************************************************************)
LEMMA Distinct == None # Rot /\ None # Wrong /\ Rot # Wrong
  <1>1. \A S, x : IsFiniteSet(S) => /\ IsFiniteSet(S \cup {x})
                                    /\ Cardinality(S \cup {x}) = IF x \in S THEN Cardinality(S) ELSE Cardinality(S) + 1
    BY FS_AddElement
  <1>2. \A x, y : Cardinality({x, y}) # 3
    <2> TAKE x, y
    <2>1. IsFiniteSet({x}) /\ Cardinality({x}) = 1
      BY FS_Singleton
    <2>2. {x, y} = {x} \cup {y}
      OBVIOUS
    <2>3. Cardinality({x, y}) = 1 \/ Cardinality({x, y}) = 2
      BY <1>1, <2>1, <2>2
    <2> QED
      BY <2>3
  <1>3. None = Rot => {None, Rot, Wrong} = {Rot, Wrong}
    OBVIOUS
  <1>4. None = Wrong => {None, Rot, Wrong} = {Rot, Wrong}
    OBVIOUS
  <1>5. Rot = Wrong => {None, Rot, Wrong} = {None, Wrong}
    OBVIOUS
  <1> QED
    BY <1>2, <1>3, <1>4, <1>5, LayoutAssumption

\* Only writeSums brings SHA512SUMS into a directory.
LEMMA SumsBegin ==
  ASSUME TypeInv, [Next]_vars, NEW n \in Disc, Has(n, "sums")', ~Has(n, "sums")
  PROVE  WriteSums /\ n = at
  <1>0. Dirs(dir) /\ at \in Disc
    BY InHand
  <1>1. CASE Writing
    <2>1. IsTree(dir[at]) /\ dir[at] # None /\ \A m \in Disc : m # at => dir'[m] = dir[m]
      BY <1>1, WritingInHand, WritingKeeps, TreeIsThere
    <2>2. n = at /\ "sums" \in DOMAIN dir'[at] /\ "sums" \notin DOMAIN dir[at]
      BY <2>1 DEF Has
    <2>3. ASSUME NEW f \in File, NEW v, Put(f, v) PROVE f = "sums"
      BY <1>0, <2>1, <2>2, <2>3, PutKeeps
    <2>4. ~WritePayload
      <3> SUFFICES ASSUME WritePayload PROVE FALSE
        OBVIOUS
      <3>1. setting.payload \subseteq Tool
        BY LayoutAssumption DEF WritePayload, TypeInv, Scalars, Setting
      <3> QED
        BY <1>0, <2>2, <3>1 DEF WritePayload, PlacePayload, Dirs, Tool
    <2>5. ~(PlaceImage \/ PlaceIndex \/ ProtectSidecars \/ PlaceManifest)
      BY <2>2, <2>3 DEF PlaceImage, PlaceIndex, ProtectSidecars, PlaceManifest, File, Data
    <2>6. ~(PublishKey \/ RefuseData \/ CopySelf \/ WriteReadme)
      BY <2>2, <2>3 DEF PublishKey, RefuseData, CopySelf, WriteReadme, WritePublicIdentity, File, Tool
    <2> QED
      BY <1>1, <2>2, <2>4, <2>5, <2>6 DEF Writing
  <1>2. CASE ClearDisc \/ Stop
    <2>1. \E S : dir'[at] = Empty \/ dir'[at] = [f \in DOMAIN dir[at] \cap S |-> dir[at][f]] \/ dir' = dir
      BY <1>0, <1>2 DEF ClearDisc, Stop, Dirs
    <2>2. \A m \in Disc : m # at => dir'[m] = dir[m]
      BY <1>0, <1>2 DEF ClearDisc, Stop, Dirs
    <2>3. dir[at] # None \/ dir'[at] = Empty \/ dir' = dir
      BY <1>0, <1>2 DEF ClearDisc, Stop, Dirs
    <2> QED
      BY <2>1, <2>2, <2>3, EmptyTree DEF Has
  <1>3. CASE Fault
    BY <1>0, <1>3, FaultAges, TreeIsThere DEF Aged, Has
  <1>4. CASE CarryAway
    BY <1>4 DEF CarryAway, Has
  <1>5. CASE dir' = dir
    BY <1>5 DEF Has
  <1> QED
    BY <1>1, <1>2, <1>3, <1>4, <1>5, DirTouched

\* What is listed for what was encrypted.
LEMMA Recorded ==
  ASSUME TypeInv, Stages, WriteSums
  PROVE  LET s == Hashes(at) IN
         /\ s["image"] # 0 => at \notin measured /\ record[at] = Rot
         /\ s["index"] # indexSum => ~tookIndex /\ indexSum = None
  <1>0. /\ at \in Disc /\ run \in Nat /\ Changed(at) = {} /\ pc = "sums" /\ IsTree(dir[at])
        /\ record[at] \in {0, Rot, Wrong} /\ None \notin Nat /\ Wrong \notin Nat /\ 0 \in Nat
        /\ tookIndex => indexSum = run
    BY LayoutAssumption, Numbers, WritingInHand
    DEF TypeInv, Scalars, WriteSums, Writing, Runs, IndexKnown
  <1>1. "image" \in DOMAIN dir[at] /\ "index" \in DOMAIN dir[at]
    BY <1>0 DEF Stages, LaidWhole, Laid, Later, PerDisc, Phases
  <1>2. \A f \in {"image", "index"} :
          /\ Trusted(at, f) => Hashes(at)[f] = KnownSum(at, f)
          /\ ~Trusted(at, f) => /\ Hashes(at)[f] = dir[at][f]
                                /\ KnownSum(at, f) = None \/ KnownSum(at, f) = dir[at][f]
    BY <1>0, <1>1 DEF Hashes, SumCandidates, Changed, Encrypted
  <1>3. dir[at]["image"] # Wrong
    BY <1>0, <1>1, Distinct, Numbers DEF IsTree, Content
  <1>4. KnownSum(at, "image") = (IF at \in measured THEN 0 ELSE IF record[at] = Rot THEN None ELSE record[at])
    BY DEF KnownSum, ReadSumFile
  <1>5. KnownSum(at, "index") = indexSum
    BY DEF KnownSum
  <1>6. (Trusted(at, "image") => at \in measured) /\ (Trusted(at, "index") => tookIndex)
    BY DEF Trusted
  <1>7. Hashes(at)["image"] # 0 => at \notin measured /\ record[at] = Rot
    BY <1>0, <1>2, <1>3, <1>4, <1>6, Distinct
  <1>8. Hashes(at)["index"] # indexSum => ~tookIndex /\ indexSum = None
    BY <1>0, <1>2, <1>5
  <1> QED
    BY <1>7, <1>8

(***************************************************************************)
(* For any discs, payloads and interruptions, whether staging can          *)
(* hard-link or not: SHA512SUMS vouches for what was encrypted.            *)
(***************************************************************************)
THEOREM OnlyTheRecordedIsAttested == Spec => AttestsOnlyTheRecorded
  <1>1. ASSUME TypeInv, Stages, [Next]_vars, NEW n \in Disc, Has(n, "sums")', ~Has(n, "sums")
        PROVE  LET s == dir'[n]["sums"] IN
               /\ s["image"] # 0 => n \notin measured /\ record[n] = Rot
               /\ s["index"] # indexSum => ~tookIndex /\ indexSum = None
    <2>1. WriteSums /\ n = at
      BY <1>1, SumsBegin
    <2>2. dir'[at]["sums"] = Hashes(at)
      <3>1. Put("sums", Hashes(at)) /\ IsTree(dir[at])
        BY <1>1, <2>1, WritingInHand DEF WriteSums, Writing
      <3> QED
        BY <1>1, <3>1, PutKeeps, InHand DEF File
    <2> QED
      BY <1>1, <2>1, <2>2, Recorded
  <1>2. TypeInv /\ Mastering /\ Stages /\ [Next]_vars =>
          [\A n \in Disc : Has(n, "sums")' /\ ~Has(n, "sums") =>
             LET s == dir'[n]["sums"] IN
             /\ s["image"] # 0 => n \notin measured /\ record[n] = Rot
             /\ s["index"] # indexSum => ~tookIndex /\ indexSum = None]_vars
    BY <1>1
  <1> QED
    BY <1>2, StagesHold, PTL DEF Spec, AttestsOnlyTheRecorded

-----------------------------------------------------------------------------
(***************************************************************************)
(* A disc that verifies is whole: a listing is made when everything else   *)
(* is there, and nothing is added to a directory that has one.             *)
(***************************************************************************)
Attested(s) ==
  /\ Required \subseteq DOMAIN s
  /\ s["readme"].parity = ("parity" \in DOMAIN s)
  /\ s["readme"].tools = Tool \cap DOMAIN s
  /\ s["manifest"] = s["readme"].run

SoundTree(t) ==
  "sums" \in DOMAIN t => Attested(t["sums"]) /\ DOMAIN t \ {"sums"} \subseteq DOMAIN t["sums"]
SoundISO(i) == SoundTree(i.files) /\ ("sums" \in DOMAIN i.files => i.total = Discs)

Sums ==
  \A n \in Disc : dir[n] # None => SoundTree(dir[n]) /\ ("sums" \in DOMAIN dir[n] => manifest # 0)

\* What a command puts on labels, once there is a manifest.
Labels == bpc \in Working /\ manifest # 0 => command.total = Discs

ISOsSound == \A n \in Disc : iso[n] # None => SoundISO(iso[n])

Listed == Sums /\ Labels /\ ISOsSound /\ VerifiedMeansWhole

\* A run writes only where there is no SHA512SUMS yet.
LEMMA Unsummed ==
  ASSUME TypeInv, Stages, Writing
  PROVE  "sums" \notin DOMAIN dir[at]
  <1>1. pc \in {"image", "copyIndex", "parity", "key", "placeManifest", "payload", "self", "readme", "sums"}
    BY DEF Writing, PlaceImage, PlaceIndex, ProtectSidecars, PublishKey, RefuseData, PlaceManifest, WritePayload,
           CopySelf, WriteReadme, WriteSums
  <1>2. at \in Disc /\ at \in Nat
    BY Position
  <1> QED
    BY <1>1, <1>2 DEF Stages, BeingLaid, SumsLast, Laid, Summed, Summing, PerDisc, Later, Phases

\* What writeSums lists is all a restorer needs, and the README tells the truth about it.
LEMMA SumsAttest ==
  ASSUME TypeInv, Stages, WriteSums
  PROVE  Attested(Hashes(at)) /\ manifest # 0
  <1>1. /\ at \in Disc /\ at \in Nat /\ pc = "sums" /\ run # 0 /\ manifest = run
        /\ "readme" \in DOMAIN dir[at] /\ dir[at]["readme"] = TrueReadme(at)
        /\ "manifest" \in DOMAIN dir[at] /\ dir[at]["manifest"] = run
        /\ "image" \in DOMAIN dir[at] /\ "index" \in DOMAIN dir[at] /\ (Public => "key" \in DOMAIN dir[at])
        /\ "parity" \in DOMAIN dir[at] <=> at \notin failed
    BY Position
    DEF WriteSums, TypeInv, Scalars, Runs, Stages, LaidWhole, ManifestOfRun, ReadmeOfRun, Laid, Manifested,
        Documented, PerDisc, Later, Phases
  <1>2. DOMAIN Hashes(at) = DOMAIN dir[at] \ {"sums"}
    BY DEF Hashes, SumCandidates
  <1>3. Hashes(at)["readme"] = TrueReadme(at) /\ Hashes(at)["manifest"] = run
    BY <1>1 DEF Hashes, SumCandidates, Trusted, Encrypted
  <1>4. Required \subseteq DOMAIN Hashes(at)
    BY <1>1, <1>2 DEF Required
  <1> QED
    BY <1>1, <1>2, <1>3, <1>4 DEF Attested, TrueReadme, ToolsOn, Tool

\* What becomes of the manifest in the root of staging.
LEMMA ManifestSteps ==
  ASSUME TypeInv, [Next]_vars
  PROVE  manifest' = manifest \/ (pc = "manifest" /\ manifest' # 0) \/ CarryAway
  <1>1. CASE WriteManifest
    BY <1>1 DEF WriteManifest, TypeInv, Scalars, Runs
  <1>2. CASE Run /\ ~WriteManifest
    BY <1>2 DEF Run, EncryptIndex, RecordIndex, KeepIndex, ClearDisc, RefuseMissing, PlaceImage, PlaceIndex,
                ProtectSidecars, PublishKey, RefuseData, PlaceManifest, WritePayload, CopySelf,
                WriteReadme, KnowIndex, WriteSums, RefuseChanged, CheckDiscSizes, RefuseOversized,
                FinishIndex, FinishState, Refuse
  <1>3. CASE Stop \/ Resume \/ FollowAdvice \/ Fault \/ BuildNext \/ Built \/ BuildFails
    BY <1>3 DEF Stop, Resume, FollowAdvice, Fault, BuildNext, Built, BuildFails
  <1>4. CASE StartBurn \/ LookISO \/ StartISO \/ RefuseISO \/ Command \/ UNCHANGED vars
    BY <1>4 DEF StartBurn, LookISO, StartISO, RefuseISO, Begin, Command, Ensure, BuildOne, Mastered,
                MasteringFails, BurnDisc, Decline, Done, EndCommand, quiet, layoutVars, vars
  <1> QED
    BY <1>1, <1>2, <1>3, <1>4 DEF Next, LayoutNext

\* A removal, whole or cut short, leaves some of the files as they were.
LEMMA RemovalKeeps ==
  ASSUME TypeInv, ClearDisc \/ Stop, NEW n \in Disc
  PROVE  DOMAIN dir'[n] \subseteq DOMAIN dir[n] /\ \A f \in DOMAIN dir'[n] : dir'[n][f] = dir[n][f]
  <1>0. Dirs(dir) /\ at \in Disc
    BY InHand
  <1>1. CASE dir' = dir
    BY <1>1
  <1>2. ASSUME NEW d, dir' = [dir EXCEPT ![at] = d],
               DOMAIN d \subseteq DOMAIN dir[at], \A f \in DOMAIN d : d[f] = dir[at][f]
        PROVE  DOMAIN dir'[n] \subseteq DOMAIN dir[n] /\ \A f \in DOMAIN dir'[n] : dir'[n][f] = dir[n][f]
    <2>1. dir'[at] = d /\ (n # at => dir'[n] = dir[n])
      BY <1>0, <1>2 DEF Dirs
    <2> QED
      BY <1>2, <2>1
  <1>3. CASE ClearDisc
    BY <1>2, <1>3, EmptyTree DEF ClearDisc
  <1>4. CASE Stop /\ dir' # dir
    <2>1. PICK left \in Leftovers : dir' = [dir EXCEPT ![at] = [f \in DOMAIN dir[at] \cap left |-> dir[at][f]]]
      BY <1>4 DEF Stop
    <2> QED
      BY <1>2, <2>1
  <1> QED
    BY <1>1, <1>3, <1>4

LEMMA SumsStay ==
  ASSUME TypeInv, Stages, Sums, [Next]_vars
  PROVE  Sums'
  <1>0. Dirs(dir) /\ at \in Disc
    BY InHand
  <1>1. CASE CarryAway
    BY <1>1 DEF CarryAway, Sums
  <1>2. CASE ~CarryAway
    <2>1. manifest # 0 => manifest' # 0
      BY <1>2, ManifestSteps
    <2> SUFFICES ASSUME NEW n \in Disc, dir'[n] # None, "sums" \in DOMAIN dir'[n]
                 PROVE  SoundTree(dir'[n]) /\ manifest' # 0
      BY DEF Sums, SoundTree
    <2>0. "sums" \in DOMAIN dir'[n]
      OBVIOUS
    <2>2. CASE Has(n, "sums") /\ dir'[n]["sums"] = dir[n]["sums"] /\ DOMAIN dir'[n] \subseteq DOMAIN dir[n]
      BY <2>1, <2>2 DEF Sums, SoundTree, Has
    <2>3. CASE ~Has(n, "sums")
      <3>1. WriteSums /\ n = at
        BY <2>3, SumsBegin DEF Has
      <3>2. DOMAIN dir'[n] = DOMAIN dir[n] \cup {"sums"} /\ dir'[n]["sums"] = Hashes(n)
        BY <1>0, <3>1, PutKeeps, WritingInHand DEF WriteSums, Writing, File
      <3> QED
        BY <2>1, <3>1, <3>2, SumsAttest DEF SoundTree, Hashes, SumCandidates
    <2>4. CASE Has(n, "sums")
      <3>1. CASE Writing
        <4>1. n # at /\ dir'[n] = dir[n]
          BY <2>4, <3>1, Unsummed, WritingKeeps DEF Has
        <4> QED
          BY <2>2, <2>4, <4>1
      <3>2. CASE ClearDisc \/ Stop
        <4>1. DOMAIN dir'[n] \subseteq DOMAIN dir[n] /\ dir'[n]["sums"] = dir[n]["sums"]
          BY <2>0, <3>2, RemovalKeeps
        <4> QED
          BY <2>2, <2>4, <4>1
      <3>3. CASE Fault
        <4>1. DOMAIN dir'[n] = DOMAIN dir[n] /\ dir'[n]["sums"] = dir[n]["sums"]
          BY <2>4, <3>3, FaultAges DEF Aged, Has
        <4> QED
          BY <2>2, <2>4, <4>1
      <3>4. CASE dir' = dir
        BY <2>2, <2>4, <3>4
      <3> QED
        BY <1>2, <3>1, <3>2, <3>3, <3>4, DirTouched
    <2> QED
      BY <2>3, <2>4
  <1> QED
    BY <1>1, <1>2

LEMMA LabelsStay ==
  ASSUME TypeInv, Labels, [Next]_vars
  PROVE  Labels'
  <1>1. CASE StartBurn \/ StartISO
    <2>1. manifest' = manifest /\ \E nums : command'.total = Total(nums)
      BY <1>1 DEF StartBurn, StartISO, Begin
    <2> QED
      BY <2>1 DEF Labels, Total
  <1>2. CASE pc # "idle" /\ bpc' = bpc
    BY <1>2, Apart DEF Labels
  <1>3. CASE CarryAway
    BY <1>3 DEF CarryAway, Labels
  <1>4. CASE UNCHANGED <<manifest, command>> /\ (bpc' = bpc \/ bpc \in Working)
    BY <1>4 DEF Labels
  <1>5. CASE bpc' \notin Working
    BY <1>5 DEF Labels
  <1>6. CASE Run /\ UNCHANGED burnVars
    BY <1>2, <1>6, RunStands
  <1>7. CASE (Stop \/ Resume \/ FollowAdvice \/ Fault) /\ UNCHANGED burnVars
    BY <1>4, <1>7 DEF Stop, Resume, FollowAdvice, Fault, burnVars
  <1>8. CASE BuildNext \/ Built \/ BuildFails
    BY <1>4, <1>8 DEF BuildNext, Built, BuildFails, session
  <1>9. CASE LookISO \/ RefuseISO
    BY <1>5, <1>9 DEF LookISO, RefuseISO, Working
  <1>10. CASE Command
    <2>1. CASE Done \/ MasteringFails
      BY <1>5, <2>1 DEF Done, MasteringFails, EndCommand, Working
    <2>2. CASE Ensure \/ BuildOne \/ Mastered \/ BurnDisc \/ Decline
      BY <1>4, <2>2 DEF Ensure, BuildOne, AtDisc, Mastered, BurnDisc, Decline, quiet, layoutVars, Working
    <2> QED
      BY <1>10, <2>1, <2>2 DEF Command
  <1>11. CASE UNCHANGED vars
    BY <1>4, <1>11 DEF vars, layoutVars, burnVars
  <1> QED
    BY <1>1, <1>3, <1>6, <1>7, <1>8, <1>9, <1>10, <1>11 DEF Next, LayoutNext

\* An ISO begun has its directory's files and the count on its label.
LEMMA BegunSound ==
  ASSUME TypeInv, Sums, ISOsSound, NEW n \in Disc, IsTree(dir[n]), NEW total \in Nat,
         manifest # 0 => total = Discs, BeginISO(n, total)
  PROVE  ISOsSound'
  <1>1. iso'[n].files = dir[n] /\ iso'[n].total = total /\ \A m \in Disc : m # n => iso'[m] = iso[m]
    BY Begun DEF TypeInv, BeginISO, ISOs
  <1>2. SoundTree(dir[n]) /\ ("sums" \in DOMAIN dir[n] => manifest # 0)
    BY TreeIsThere DEF Sums
  <1> QED
    BY <1>1, <1>2 DEF ISOsSound, SoundISO

LEMMA ISOsSoundStay ==
  ASSUME TypeInv, Sums, Labels, ISOsSound, [Next]_vars
  PROVE  ISOsSound'
  <1>0. ISOs(iso) /\ at \in Disc
    BY InHand
  <1>1. ASSUME \A n \in Disc : iso'[n] = None \/ iso'[n] = iso[n]
                                \/ (iso[n] # None /\ iso'[n].files = iso[n].files /\ iso'[n].total = iso[n].total)
        PROVE  ISOsSound'
    BY <1>1 DEF ISOsSound, SoundISO
  <1>2. CASE BuildNext
    BY <1>2, BegunSound, InHand, Numbers DEF BuildNext
  <1>3. CASE BuildOne
    <2>1. bpc = "next" /\ queue # {} /\ CanRebuild(First) /\ BeginISO(First, command.total)
      BY <1>3 DEF BuildOne, AtDisc
    <2>2. First \in Disc /\ IsTree(dir[First]) /\ command.total \in Nat /\ (manifest # 0 => command.total = Discs)
      BY <2>1, InHand DEF CanRebuild, Dirs, Working, Labels
    <2> QED
      BY <2>1, <2>2, BegunSound
  <1>5. CASE Built
    BY <1>1, <1>5, Ended, InHand, ISOIsThere DEF Built
  <1>6. CASE Mastered
    BY <1>1, <1>6, Ended, InHand, ISOIsThere DEF Mastered
  <1>7. CASE \E n : iso' = [iso EXCEPT ![n] = None]
    BY <1>0, <1>1, <1>7 DEF ISOs
  <1>8. CASE BuildFails \/ MasteringFails \/ BurnDisc
    BY <1>1, <1>7, <1>8 DEF BuildFails, MasteringFails, BurnDisc, LoseISO, Drop
  <1>9. CASE iso' = iso
    BY <1>1, <1>9
  <1> QED
    BY <1>2, <1>3, <1>5, <1>6, <1>8, <1>9
    DEF Next, Command, Ensure, Decline, Done, StartBurn, StartISO, Begin, LookISO, RefuseISO, CarryAway, burnVars, vars

\* What verify-disc passes of what a listing attests is whole.
LEMMA VerifiedIsWhole ==
  ASSUME NEW i, IsISO(i), SoundISO(i), VerifyDisc(i)
  PROVE  /\ Required \subseteq DOMAIN i.files /\ DOMAIN i.files["sums"] = DOMAIN i.files \ {"sums"}
         /\ i.files["readme"].parity = ("parity" \in DOMAIN i.files)
         /\ i.files["readme"].tools = ToolsOn(i.files)
         /\ i.files["manifest"] = i.files["readme"].run
         /\ i.total = Discs
  <1> DEFINE d == i.files
             s == i.files["sums"]
  <1>1. "sums" \in DOMAIN d /\ (\A f \in DOMAIN s : f \in DOMAIN d /\ d[f] = s[f])
    BY DEF VerifyDisc, VerifyDir, Matches
  <1>2. DOMAIN s \subseteq File \ {"sums"}
    BY <1>1 DEF IsISO, IsTree, IsListing
  <1>3. DOMAIN s = DOMAIN d \ {"sums"} /\ Attested(s) /\ i.total = Discs
    BY <1>1, <1>2 DEF SoundISO, SoundTree
  <1>4. "readme" \in DOMAIN s /\ "manifest" \in DOMAIN s /\ Required \subseteq DOMAIN d
    BY <1>3 DEF Attested, Required
  <1>5. d["readme"] = s["readme"] /\ d["manifest"] = s["manifest"]
    BY <1>1, <1>4
  <1>6. ("parity" \in DOMAIN s) = ("parity" \in DOMAIN d) /\ Tool \cap DOMAIN s = Tool \cap DOMAIN d
    BY <1>3 DEF Tool
  <1> QED
    BY <1>3, <1>4, <1>5, <1>6 DEF Attested, ToolsOn

LEMMA ShelfStays ==
  ASSUME TypeInv, ISOsSound, VerifiedMeansWhole, [Next]_vars
  PROVE  VerifiedMeansWhole'
  <1>1. CASE shelf' = shelf
    BY <1>1 DEF VerifiedMeansWhole, Verified, Burned
  <1>2. CASE BurnDisc
    <2> DEFINE b == [iso |-> iso[First], finished |-> ~hasState]
    <2>1. CASE VerifyDisc(iso[First])
      <3>1. First \in Disc /\ IsISO(iso[First]) /\ SoundISO(iso[First])
        BY <1>2, InHand, ISOIsThere DEF BurnDisc, ISOsSound
      <3>2. shelf' = [shelf EXCEPT ![First] = b]
        BY <1>2, <2>1 DEF BurnDisc
      <3>3. shelf'[First] = b /\ \A n \in Disc : n # First => shelf'[n] = shelf[n]
        BY <3>1, <3>2 DEF TypeInv, Shelved
      <3>4. shelf'[First].iso = iso[First]
        BY <3>3
      <3> QED
        BY <2>1, <3>1, <3>3, <3>4, VerifiedIsWhole DEF VerifiedMeansWhole, Verified, Burned
    <2>2. CASE ~VerifyDisc(iso[First])
      BY <1>1, <1>2, <2>2 DEF BurnDisc
    <2> QED
      BY <2>1, <2>2
  <1> QED
    BY <1>1, <1>2
    DEF Next, Command, Ensure, BuildOne, Mastered, MasteringFails, Decline, Done, StartBurn, StartISO, Begin, LookISO,
        RefuseISO, BuildNext, Built, BuildFails, CarryAway, burnVars, vars

LEMMA ListedHolds == Spec => []Listed
  <1>1. Init => Listed
    BY DEF Init, LayoutInit, Listed, Sums, Labels, Working, ISOsSound, VerifiedMeansWhole, Verified
  <1>2. TypeInv /\ Mastering /\ Stages /\ Listed /\ [Next]_vars => Listed'
    BY SumsStay, LabelsStay, ISOsSoundStay, ShelfStays DEF Listed
  <1> QED
    BY <1>1, <1>2, StagesHold, PTL DEF Spec

(***************************************************************************)
(* For any discs, payloads, settings and interruptions, and whatever       *)
(* directories burn and iso find: what verify-disc passes is a whole disc. *)
(***************************************************************************)
THEOREM VerifiedDiscsAreWhole == Spec => []VerifiedMeansWhole
  BY ListedHolds, PTL DEF Listed

-----------------------------------------------------------------------------
(***************************************************************************)
(* Discs of one run agree: what a listing says of index and tools is what  *)
(* every listing of that run says.                                         *)
(***************************************************************************)
Listings ==
  {dir[n]["sums"] : n \in {m \in Disc : Has(m, "sums")}}
  \cup {iso[n].files["sums"] : n \in {m \in Disc : iso[m] # None /\ "sums" \in DOMAIN iso[m].files}}
  \cup {shelf[n].iso.files["sums"] :
          n \in {m \in Disc : shelf[m] # None /\ "sums" \in DOMAIN shelf[m].iso.files}}

RunOf(s) == s["readme"].run

\* The discs the run has begun to lay out, and the tools they have by now.
InRun(n) == Laid(n) \/ (pc \in PerDisc \ {"clear"} /\ n = at)
Tools == setting.payload \cup (IF setting.located THEN {"self"} ELSE {})
Packed(n) == pc \in Summing \cup {"self", "readme", "known", "sums"} \/ (pc = "payload" /\ n < at)
Copied(n) == pc \in Summing \cup {"readme", "known", "sums"} \/ (pc = "self" /\ n < at)
HasTools(n) == IF Copied(n) THEN Tools ELSE IF Packed(n) THEN setting.payload ELSE {}

OfThisRun ==
  \A n \in Disc : InRun(n) =>
    /\ DOMAIN dir[n] \cap Tool = HasTools(n)
    /\ \A f \in DOMAIN dir[n] \cap Tool : dir[n][f] = run
    /\ "key" \in DOMAIN dir[n] => Public /\ dir[n]["key"] = 0

\* The index of this run: one, or what has rotted of it.
OneIndex(i) ==
  /\ pc \in {"idle", "index", "record"} => ~tookIndex
  /\ pc = "record" => i = run
  /\ pc \notin {"idle", "index"} => index \in {i, Rot}
  /\ tookIndex => i = run
  /\ \A n \in Disc : InRun(n) /\ "index" \in DOMAIN dir[n] => dir[n]["index"] \in {i, Rot}
  /\ pc # "idle" => \A s \in Listings : RunOf(s) = run => s["index"] \in {i, Rot} /\ DOMAIN s \cap Tool = Tools
OneIndexOfRun == \E i : OneIndex(i)

OfItsRun(s) ==
  /\ RunOf(s) \in Runs /\ RunOf(s) <= run
  /\ RunOf(s) = run => pc \in Summing \cup {"idle", "sums"}
  /\ \A f \in DOMAIN s \cap Tool : s[f] = RunOf(s)
  /\ "key" \in DOMAIN s <=> Public
  /\ Public => s["key"] = 0
ListingsOfRuns == \A s \in Listings : OfItsRun(s)

Agree(s, t) ==
  RunOf(s) = RunOf(t) =>
    /\ DOMAIN s \cap Tool = DOMAIN t \cap Tool
    /\ s["index"] = t["index"] \/ s["index"] = Rot \/ t["index"] = Rot
ListingsAgree == \A s, t \in Listings : Agree(s, t)

\* Listings are carried from directories to ISOs to discs; only writeSums makes one.
LEMMA DirListings ==
  ASSUME TypeInv, Stages, [Next]_vars, NEW n \in Disc, Has(n, "sums")'
  PROVE  \/ Has(n, "sums") /\ dir'[n]["sums"] = dir[n]["sums"]
         \/ WriteSums /\ dir'[n]["sums"] = Hashes(at)
  <1>0. Dirs(dir) /\ at \in Disc
    BY InHand
  <1>1. CASE ~Has(n, "sums")
    <2>1. WriteSums /\ n = at /\ Put("sums", Hashes(at)) /\ IsTree(dir[at])
      BY <1>1, SumsBegin, WritingInHand DEF WriteSums, Writing
    <2> QED
      BY <1>0, <2>1, PutKeeps DEF File
  <1>2. CASE Has(n, "sums")
    <2>1. CASE Writing
      BY <1>2, <2>1, Unsummed, WritingKeeps DEF Has
    <2>2. CASE ClearDisc \/ Stop
      BY <1>2, <2>2, RemovalKeeps DEF Has
    <2>3. CASE Fault
      BY <1>2, <2>3, FaultAges DEF Aged, Has
    <2>4. CASE CarryAway
      BY <2>4 DEF CarryAway, Has
    <2>5. CASE dir' = dir
      BY <1>2, <2>5
    <2> QED
      BY <2>1, <2>2, <2>3, <2>4, <2>5, DirTouched
  <1> QED
    BY <1>1, <1>2

LEMMA ISOListings ==
  ASSUME TypeInv, [Next]_vars, NEW n \in Disc, iso'[n] # None
  PROVE  \/ iso[n] # None /\ iso'[n].files = iso[n].files
         \/ dir[n] # None /\ iso'[n].files = dir[n]
  <1>1. CASE iso'[n] = iso[n]
    BY <1>1
  <1>2. CASE BuildNext
    BY <1>2, Begun, InHand, TreeIsThere, Numbers DEF BuildNext
  <1>3. CASE Built
    BY <1>3, Ended, InHand, ISOIsThere DEF Built
  <1>4. CASE BuildFails
    BY <1>4, Lost, InHand DEF BuildFails
  <1>5. CASE BuildOne
    <2>1. bpc = "next" /\ queue # {} /\ CanRebuild(First) /\ BeginISO(First, command.total)
      BY <1>5 DEF BuildOne, AtDisc
    <2>2. First \in Disc /\ IsTree(dir[First]) /\ command.total \in Nat
      BY <2>1, InHand DEF CanRebuild, Dirs, Working
    <2> QED
      BY <2>1, <2>2, Begun, InHand, TreeIsThere
  <1>6. CASE Mastered
    BY <1>6, Ended, InHand, ISOIsThere DEF Mastered
  <1>7. CASE MasteringFails
    BY <1>7, Lost, InHand DEF MasteringFails
  <1>8. CASE BurnDisc
    <2>1. First \in Disc /\ (iso' = iso \/ iso' = [iso EXCEPT ![First] = None])
      BY <1>8, InHand DEF BurnDisc, Drop
    <2> QED
      BY <2>1, InHand DEF ISOs
  <1> QED
    BY <1>1, <1>2, <1>3, <1>4, <1>5, <1>6, <1>7, <1>8
    DEF Next, Command, Ensure, Decline, Done, StartBurn, StartISO, Begin, LookISO, RefuseISO, CarryAway, burnVars, vars

LEMMA ShelfListings ==
  ASSUME TypeInv, [Next]_vars, NEW n \in Disc, shelf'[n] # None
  PROVE  \/ shelf[n] # None /\ shelf'[n] = shelf[n]
         \/ iso[n] # None /\ shelf'[n].iso = iso[n]
  <1>1. CASE shelf' = shelf
    BY <1>1
  <1>2. CASE BurnDisc
    <2> DEFINE b == [iso |-> iso[First], finished |-> ~hasState]
    <2>1. First \in Disc /\ iso[First] # None /\ (shelf' = shelf \/ shelf' = [shelf EXCEPT ![First] = b])
      BY <1>2, InHand, ISOIsThere DEF BurnDisc
    <2>2. b.iso = iso[First]
      OBVIOUS
    <2> HIDE DEF b
    <2> QED
      BY <2>1, <2>2 DEF TypeInv, Shelved
  <1> QED
    BY <1>1, <1>2
    DEF Next, Command, Ensure, BuildOne, Mastered, MasteringFails, Decline, Done, StartBurn, StartISO, Begin, LookISO,
        RefuseISO, BuildNext, Built, BuildFails, CarryAway, burnVars, vars

LEMMA ListingSteps ==
  ASSUME TypeInv, Stages, [Next]_vars, NEW s \in Listings'
  PROVE  s \in Listings \/ (WriteSums /\ s = Hashes(at))
  <1>1. ASSUME NEW n \in Disc, Has(n, "sums")', s = dir'[n]["sums"]
        PROVE  s \in Listings \/ (WriteSums /\ s = Hashes(at))
    BY <1>1, DirListings DEF Listings
  <1>2. ASSUME NEW n \in Disc, iso'[n] # None, "sums" \in DOMAIN iso'[n].files, s = iso'[n].files["sums"]
        PROVE  s \in Listings
    BY <1>2, ISOListings DEF Listings, Has
  <1>3. ASSUME NEW n \in Disc, shelf'[n] # None, "sums" \in DOMAIN shelf'[n].iso.files, s = shelf'[n].iso.files["sums"]
        PROVE  s \in Listings
    BY <1>3, ShelfListings DEF Listings
  <1> QED
    BY <1>1, <1>2, <1>3 DEF Listings

\* Tools and key of a disc are left as they are.
Kept(n) ==
  LET F == Tool \cup {"key"} IN
  /\ DOMAIN dir'[n] \cap F = DOMAIN dir[n] \cap F
  /\ \A f \in DOMAIN dir[n] \cap F : dir'[n][f] = dir[n][f]

LEMMA PutKeepsTools ==
  ASSUME Dirs(dir), at \in Disc, IsTree(dir[at]), NEW f \in File \ (Tool \cup {"key"}), NEW v, Put(f, v)
  PROVE  \A n \in Disc : Kept(n)
  BY PutKeeps DEF Kept

\* The tools come with the payload and the copy of the program, one disc after another.
LEMMA ToolSteps ==
  ASSUME TypeInv, OfThisRun, WritePayload \/ CopySelf
  PROVE  OfThisRun'
  <1> USE DEF Laid, InRun, Packed, Copied, Summing, PerDisc, Later, Phases
  <1>0. /\ Dirs(dir) /\ at \in Disc /\ at \in Nat /\ 1 \in Disc /\ Discs \in Nat
        /\ \A n \in Disc : n \in Nat /\ 1 <= n /\ n <= Discs
        /\ IsTree(dir[at])
    BY Position, WritingInHand DEF TypeInv, Writing
  <1>1. run' = run /\ setting' = setting
    BY DEF WritePayload, CopySelf, memory, ended
  <1>2. CASE WritePayload
    <2>1. pc = "payload" /\ EachDisc("payload", "self") /\ setting.payload \subseteq Tool
      BY <1>2, LayoutAssumption DEF WritePayload, TypeInv, Scalars, Setting
    <2>2. /\ dir'[at] = PlacePayload(dir[at]) /\ \A n \in Disc : n # at => dir'[n] = dir[n]
      BY <1>0, <1>2 DEF WritePayload, Dirs
    <2>3. \/ at' = at + 1 /\ pc' = "payload" /\ at < Discs
          \/ at' = 1 /\ pc' = "self" /\ at = Discs
      BY <1>0, <2>1, NextDisc
    <2>4. \A n \in Disc : /\ HasTools(n) = IF n < at THEN setting.payload ELSE {}
                          /\ HasTools(n)' = IF n <= at THEN setting.payload ELSE {}
      BY <1>0, <1>1, <2>1, <2>3 DEF HasTools
    <2>5. /\ DOMAIN dir'[at] = DOMAIN dir[at] \cup setting.payload
          /\ \A f \in setting.payload : dir'[at][f] = run
          /\ \A f \in DOMAIN dir[at] \ setting.payload : dir'[at][f] = dir[at][f]
      BY <2>2 DEF PlacePayload
    <2>6. /\ DOMAIN dir[at] \cap Tool = {}
          /\ "key" \in DOMAIN dir[at] => Public /\ dir[at]["key"] = 0
      BY <1>0, <2>1, <2>4 DEF OfThisRun
    <2>7. ASSUME NEW n \in Disc, n # at
          PROVE  /\ DOMAIN dir'[n] \cap Tool = HasTools(n)'
                 /\ \A f \in DOMAIN dir'[n] \cap Tool : dir'[n][f] = run
                 /\ "key" \in DOMAIN dir'[n] => Public /\ dir'[n]["key"] = 0
      BY <1>0, <2>1, <2>2, <2>4, <2>7 DEF OfThisRun
    <2>8. ASSUME NEW n \in Disc, n = at
          PROVE  /\ DOMAIN dir'[n] \cap Tool = HasTools(n)'
                 /\ \A f \in DOMAIN dir'[n] \cap Tool : dir'[n][f] = run
                 /\ "key" \in DOMAIN dir'[n] => Public /\ dir'[n]["key"] = 0
      <3>1. HasTools(n)' = setting.payload
        BY <1>0, <2>4, <2>8
      <3>2. DOMAIN dir'[at] \cap Tool = setting.payload
        BY <2>1, <2>5, <2>6
      <3>3. "key" \notin setting.payload
        BY <2>1 DEF Tool
      <3> QED
        BY <2>5, <2>6, <2>8, <3>1, <3>2, <3>3
    <2> QED
      BY <1>1, <2>7, <2>8 DEF OfThisRun
  <1>3. CASE CopySelf
    <2>1. pc = "self" /\ EachDisc("self", "readme") /\ setting.payload \subseteq Tool
      BY <1>3, LayoutAssumption DEF CopySelf, TypeInv, Scalars, Setting
    <2>2. \/ at' = at + 1 /\ pc' = "self" /\ at < Discs
          \/ at' = 1 /\ pc' = "readme" /\ at = Discs
      BY <1>0, <2>1, NextDisc
    <2>3. \A n \in Disc : /\ HasTools(n) = IF n < at THEN Tools ELSE setting.payload
                          /\ HasTools(n)' = IF n <= at THEN Tools ELSE setting.payload
      BY <1>0, <1>1, <2>1, <2>2 DEF HasTools, Tools
    <2>4. /\ DOMAIN dir[at] \cap Tool = setting.payload
          /\ \A f \in DOMAIN dir[at] \cap Tool : dir[at][f] = run
          /\ "key" \in DOMAIN dir[at] => Public /\ dir[at]["key"] = 0
      BY <1>0, <2>1, <2>3 DEF OfThisRun
    <2>5. /\ \A n \in Disc : n # at => dir'[n] = dir[n]
          /\ DOMAIN dir'[at] \cap Tool = Tools
          /\ \A f \in DOMAIN dir'[at] \cap Tool : dir'[at][f] = run
          /\ "key" \in DOMAIN dir'[at] => Public /\ dir'[at]["key"] = 0
      <3>1. CASE setting.located /\ ~Has(at, "self")
        <4>1. /\ DOMAIN dir'[at] = DOMAIN dir[at] \cup {"self"} /\ dir'[at]["self"] = run
              /\ \A n \in Disc : n # at => dir'[n] = dir[n]
              /\ \A f \in DOMAIN dir[at] : f # "self" => dir'[at][f] = dir[at][f]
          BY <1>0, <1>3, <3>1, PutKeeps DEF CopySelf, File, Tool
        <4> QED
          BY <2>4, <3>1, <4>1 DEF Tools, Tool
      <3>2. CASE ~(setting.located /\ ~Has(at, "self"))
        <4>1. dir' = dir
          BY <1>3, <3>2 DEF CopySelf
        <4>2. setting.located => "self" \in DOMAIN dir[at]
          BY <3>2 DEF Has
        <4>3. DOMAIN dir[at] \cap Tool = Tools
          BY <2>4, <4>2 DEF Tools, Tool
        <4> QED
          BY <2>4, <4>1, <4>3
      <3> QED
        BY <3>1, <3>2
    <2>6. ASSUME NEW n \in Disc, n # at
          PROVE  /\ DOMAIN dir'[n] \cap Tool = HasTools(n)'
                 /\ \A f \in DOMAIN dir'[n] \cap Tool : dir'[n][f] = run
                 /\ "key" \in DOMAIN dir'[n] => Public /\ dir'[n]["key"] = 0
      BY <1>0, <2>1, <2>3, <2>5, <2>6 DEF OfThisRun
    <2>7. \A n \in Disc : n = at => HasTools(n)' = Tools
      BY <1>0, <2>3
    <2> QED
      BY <1>1, <2>5, <2>6, <2>7 DEF OfThisRun
  <1> QED
    BY <1>2, <1>3

LEMMA OfThisRunStays ==
  ASSUME TypeInv, OfThisRun, [Next]_vars
  PROVE  OfThisRun'
  <1> USE DEF Laid, InRun, Packed, Copied, Summing, PerDisc, Later, Phases
  <1>0. /\ Dirs(dir) /\ at \in Disc /\ at \in Nat /\ 1 \in Disc /\ Discs \in Nat
        /\ \A n \in Disc : n \in Nat /\ 1 <= n /\ n <= Discs
        /\ pc \in Phases
    BY Position DEF TypeInv, Scalars
  \* No disc has begun.
  <1>1. CASE \A n \in Disc : ~InRun(n)'
    BY <1>1 DEF OfThisRun
  <1>2. ASSUME UNCHANGED <<run, setting>>,
               \A n \in Disc : InRun(n)' => InRun(n) /\ HasTools(n)' = HasTools(n) /\ Kept(n)
        PROVE  OfThisRun'
    BY <1>2 DEF OfThisRun, Kept
  <1>3. CASE RefuseMissing \/ RefuseData \/ RefuseChanged \/ RefuseOversized \/ FinishState \/ Stop \/ BuildFails
    <2>1. pc' = "idle"
      BY <1>3 DEF RefuseMissing, RefuseData, RefuseChanged, RefuseOversized, FinishState, Stop, BuildFails, Refuse, EndRun
    <2> QED
      BY <1>1, <2>1
  <1>4. CASE EncryptIndex \/ RecordIndex \/ KeepIndex \/ Resume \/ CarryAway
    <2>1. pc' \in {"idle", "index", "record"} \/ (pc' = "clear" /\ at' = 1)
      BY <1>4, Apart DEF EncryptIndex, RecordIndex, KeepIndex, Resume, CarryAway, TypeInv, AtRest
    <2> QED
      BY <1>0, <1>1, <2>1
  <1>5. CASE ClearDisc
    <2>1. /\ pc = "clear" /\ pc' = "image" /\ at' = at /\ UNCHANGED <<run, setting>> /\ dir'[at] = Empty
          /\ \A n \in Disc : n # at => dir'[n] = dir[n]
      BY <1>0, <1>5 DEF ClearDisc, memory, ended, Dirs
    <2>2. \A n \in Disc : HasTools(n)' = {} /\ HasTools(n) = {}
      BY <2>1 DEF HasTools
    <2> QED
      BY <1>0, <2>1, <2>2, EmptyTree DEF OfThisRun
  <1>6. CASE PlaceImage \/ PlaceIndex \/ ProtectSidecars
    <2>1. /\ pc \in {"image", "copyIndex", "parity"} /\ pc' \in {"copyIndex", "parity", "key"}
          /\ at' = at /\ UNCHANGED <<run, setting>>
      BY <1>6 DEF PlaceImage, PlaceIndex, ProtectSidecars, memory, ended
    <2>2. \A n \in Disc : Kept(n)
      <3>1. dir' = dir \/ \E f \in {"image", "index", "parity"} : \E v : Put(f, v)
        BY <1>6 DEF PlaceImage, PlaceIndex, ProtectSidecars
      <3>2. IsTree(dir[at])
        BY <1>6, WritingInHand DEF Writing
      <3>3. \A f \in {"image", "index", "parity"} : f \in File \ (Tool \cup {"key"})
        BY DEF File, Data, Tool
      <3> QED
        BY <1>0, <3>1, <3>2, <3>3, PutKeepsTools DEF Kept
    <2>3. \A n \in Disc : HasTools(n)' = {} /\ HasTools(n) = {}
      BY <2>1 DEF HasTools
    <2> QED
      BY <1>2, <2>1, <2>2, <2>3
  <1>7. CASE PublishKey
    <2>1. /\ pc = "key" /\ UNCHANGED <<run, setting>> /\ WritePublicIdentity /\ EachDisc("clear", "manifest")
      BY <1>7 DEF PublishKey, memory, ended
    <2>2. /\ pc' \in {"clear", "manifest"} /\ \A n \in Disc : InRun(n)' => InRun(n)
      <3>1. \/ at' = at + 1 /\ pc' = "clear" /\ at < Discs
            \/ at' = 1 /\ pc' = "manifest" /\ at = Discs
        BY <1>0, <2>1, NextDisc
      <3> QED
        BY <1>0, <2>1, <3>1
    <2>3. \A n \in Disc : HasTools(n)' = {} /\ HasTools(n) = {}
      BY <2>1, <2>2 DEF HasTools
    <2>4. CASE dir' = dir
      BY <1>2, <2>1, <2>2, <2>3, <2>4 DEF Kept
    <2>5. CASE Public /\ Put("key", 0)
      <3>1. /\ DOMAIN dir'[at] = DOMAIN dir[at] \cup {"key"} /\ dir'[at]["key"] = 0
            /\ \A n \in Disc : n # at => dir'[n] = dir[n]
            /\ \A f \in DOMAIN dir[at] : f # "key" => dir'[at][f] = dir[at][f]
        BY <1>0, <1>7, <2>5, PutKeeps, WritingInHand DEF Writing, File
      <3>2. "key" \notin Tool
        BY DEF Tool
      <3> QED
        BY <2>1, <2>2, <2>3, <2>5, <3>1, <3>2 DEF OfThisRun
    <2> QED
      BY <2>1, <2>4, <2>5 DEF WritePublicIdentity
  <1>8. CASE WriteManifest \/ PlaceManifest
    <2>1. /\ pc \in {"manifest", "placeManifest"} /\ pc' \in {"placeManifest", "payload"}
          /\ (pc' = "payload" => at' = 1) /\ UNCHANGED <<run, setting>>
      BY <1>0, <1>8, NextDisc DEF WriteManifest, PlaceManifest, memory, ended
    <2>2. \A n \in Disc : Kept(n)
      <3>1. CASE WriteManifest
        BY <3>1 DEF WriteManifest, Kept
      <3>2. CASE PlaceManifest
        BY <1>0, <3>2, PutKeepsTools, WritingInHand DEF PlaceManifest, Writing, File, Tool
      <3> QED
        BY <1>8, <3>1, <3>2
    <2>3. \A n \in Disc : HasTools(n)' = {} /\ HasTools(n) = {}
      <3>1. \A n \in Disc : ~(n < 1)
        BY <1>0
      <3>2. \A n \in Disc : ~Packed(n) /\ ~Copied(n) /\ ~Packed(n)' /\ ~Copied(n)'
        BY <2>1, <3>1
      <3> QED
        BY <3>2 DEF HasTools
    <2> QED
      BY <1>2, <2>1, <2>2, <2>3
  <1>9. CASE WriteReadme \/ KnowIndex \/ WriteSums \/ CheckDiscSizes \/ FinishIndex \/ BuildNext \/ Built
    <2>1. /\ pc \in Summing \cup {"readme", "known", "sums"} /\ pc' \in Summing \cup {"readme", "known", "sums"}
          /\ UNCHANGED <<run, setting>>
      BY <1>0, <1>9, NextDisc
      DEF WriteReadme, KnowIndex, WriteSums, CheckDiscSizes, FinishIndex, BuildNext, Built, memory, ended
    <2>2. \A n \in Disc : Kept(n)
      <3>1. CASE dir' = dir
        BY <3>1 DEF Kept
      <3>2. CASE WriteReadme
        BY <1>0, <3>2, PutKeepsTools, WritingInHand DEF WriteReadme, Writing, File, Tool
      <3>3. CASE WriteSums
        BY <1>0, <3>3, PutKeepsTools, WritingInHand DEF WriteSums, Writing, File, Tool
      <3> QED
        BY <1>9, <3>1, <3>2, <3>3 DEF KnowIndex, CheckDiscSizes, FinishIndex, BuildNext, Built
    <2>3. \A n \in Disc : HasTools(n)' = Tools /\ HasTools(n) = Tools
      BY <2>1 DEF HasTools, Tools
    <2> QED
      BY <1>2, <2>1, <2>2, <2>3
  <1>10. ASSUME UNCHANGED <<pc, at, run, setting>>, \A n \in Disc : Aged(dir[n], dir'[n])
         PROVE  OfThisRun'
    <2>1. \A n \in Disc : Kept(n)
      BY <1>10 DEF Aged, Kept, Tool
    <2>2. \A n \in Disc : (InRun(n)' <=> InRun(n)) /\ HasTools(n)' = HasTools(n)
      BY <1>10 DEF HasTools, Tools
    <2> QED
      BY <1>2, <1>10, <2>1, <2>2
  <1>11. CASE Fault
    BY <1>10, <1>11, FaultAges DEF Fault, memory
  <1>12. CASE FollowAdvice \/ StartBurn \/ LookISO \/ StartISO \/ RefuseISO \/ Command \/ UNCHANGED vars
    <2>1. UNCHANGED <<dir, pc, at, run, setting>>
      BY <1>12 DEF FollowAdvice, StartBurn, LookISO, StartISO, RefuseISO, Begin, Command, Ensure, BuildOne, Mastered,
                   MasteringFails, BurnDisc, Decline, Done, EndCommand, quiet, layoutVars, vars, memory, ended
    <2> QED
      BY <1>10, <2>1 DEF Aged
  <1> QED
    BY <1>3, <1>4, <1>5, <1>6, <1>7, <1>8, <1>9, <1>11, <1>12, ToolSteps DEF Next, LayoutNext, Run

\* What writeSums lists is of this run, and of its one index.
LEMMA NewListing ==
  ASSUME TypeInv, Stages, OfThisRun, WriteSums
  PROVE  LET s == Hashes(at) IN
         /\ RunOf(s) = run /\ DOMAIN s \cap Tool = Tools
         /\ \A f \in DOMAIN s \cap Tool : s[f] = run
         /\ "key" \in DOMAIN s <=> Public
         /\ Public => s["key"] = 0
         /\ \A i : OneIndex(i) => s["index"] \in {i, Rot}
  <1> DEFINE s == Hashes(at)
  <1>0. /\ at \in Disc /\ pc = "sums" /\ IsTree(dir[at]) /\ InRun(at) /\ HasTools(at) = Tools
        /\ tookIndex => indexSum = run
    BY Position, WritingInHand
    DEF WriteSums, Writing, TypeInv, IndexKnown, InRun, HasTools, Copied, Laid, Later, PerDisc, Phases
  <1>1. /\ DOMAIN s = DOMAIN dir[at] \ {"sums"}
        /\ \A f \in DOMAIN s \ {"image", "index"} : s[f] = dir[at][f]
    BY DEF Hashes, SumCandidates, Trusted, Encrypted
  <1>2. "readme" \in DOMAIN dir[at] /\ dir[at]["readme"].run = run
    <2>1. "readme" \in DOMAIN dir[at] /\ dir[at]["readme"] = TrueReadme(at)
      BY <1>0 DEF Stages, ReadmeOfRun, Documented
    <2>2. TrueReadme(at).run = run
      BY DEF TrueReadme
    <2> QED
      BY <2>1, <2>2
  <1>3. RunOf(s) = run
    BY <1>1, <1>2 DEF RunOf
  <1>4. DOMAIN s \cap Tool = Tools /\ \A f \in DOMAIN s \cap Tool : s[f] = run
    BY <1>0, <1>1 DEF OfThisRun, Tool
  <1>5. "index" \in DOMAIN s /\ (Public => "key" \in DOMAIN s)
    BY <1>0, <1>1 DEF Stages, LaidWhole, Laid, Later, PerDisc, Phases
  <1>6. ("key" \in DOMAIN s <=> Public) /\ (Public => s["key"] = 0)
    BY <1>0, <1>1, <1>5 DEF OfThisRun
  <1>7. s["index"] = (IF Trusted(at, "index") THEN indexSum ELSE dir[at]["index"])
    BY <1>1, <1>5 DEF Hashes, SumCandidates, KnownSum
  <1>8. ASSUME NEW i, OneIndex(i) PROVE s["index"] \in {i, Rot}
    BY <1>0, <1>1, <1>5, <1>7, <1>8 DEF OneIndex, Trusted
  <1> QED
    BY <1>3, <1>4, <1>6, <1>8

\* After its first listing a run makes listings, closes up, and is over.
LEMMA RunNumbers ==
  ASSUME TypeInv, [Next]_vars
  PROVE  \/ Resume
         \/ run' = run /\ (pc \in Summing \cup {"idle", "sums"} => pc' \in Summing \cup {"idle", "sums"})
  <1> USE DEF Summing
  <1>1. CASE Run
    BY <1>1, NextDisc, Position
    DEF Run, EncryptIndex, RecordIndex, KeepIndex, ClearDisc, RefuseMissing, PlaceImage, PlaceIndex, ProtectSidecars,
        PublishKey, RefuseData, WriteManifest, PlaceManifest, WritePayload, CopySelf, WriteReadme, KnowIndex, WriteSums,
        RefuseChanged, CheckDiscSizes, RefuseOversized, FinishIndex, FinishState, Refuse, EndRun, ended
  <1>2. CASE Stop \/ BuildNext \/ Built \/ BuildFails
    BY <1>2, NextDisc, Position DEF Stop, BuildNext, Built, BuildFails, EndRun, ended
  <1>3. CASE Fault \/ FollowAdvice \/ StartBurn \/ LookISO \/ StartISO \/ RefuseISO \/ Command \/ CarryAway \/ UNCHANGED vars
    BY <1>3 DEF Fault, FollowAdvice, StartBurn, LookISO, StartISO, RefuseISO, Begin, Command, Ensure, BuildOne, Mastered,
                MasteringFails, BurnDisc, Decline, Done, EndCommand, CarryAway, quiet, layoutVars, vars, ended
  <1> QED
    BY <1>1, <1>2, <1>3 DEF Next, LayoutNext

LEMMA ListingsOfRunsStay ==
  ASSUME TypeInv, Stages, OfThisRun, ListingsOfRuns, [Next]_vars
  PROVE  ListingsOfRuns'
  <1> SUFFICES ASSUME NEW s \in Listings' PROVE OfItsRun(s)'
    BY DEF ListingsOfRuns
  <1>0. run \in Runs /\ Runs \subseteq Nat
    BY Numbers DEF TypeInv, Scalars, Runs
  <1>1. CASE s \in Listings
    <2>1. OfItsRun(s)
      BY <1>1 DEF ListingsOfRuns
    <2>2. CASE Resume
      <3>1. run' = run + 1
        BY <2>2 DEF Resume
      <3>2. RunOf(s) \in Nat /\ RunOf(s) <= run /\ run \in Nat
        BY <1>0, <2>1 DEF OfItsRun
      <3>3. RunOf(s) # run' /\ RunOf(s) <= run'
        BY <3>1, <3>2
      <3> QED
        BY <2>1, <3>3 DEF OfItsRun, RunOf
    <2>3. CASE ~Resume
      BY <2>1, <2>3, RunNumbers DEF OfItsRun, RunOf
    <2> QED
      BY <2>2, <2>3
  <1>2. CASE WriteSums /\ s = Hashes(at)
    <2>1. pc = "sums" /\ run' = run /\ pc' \in Summing \cup {"sums"}
      BY <1>2, NextDisc, Position DEF WriteSums, ended, Summing
    <2>2. /\ RunOf(s) = run /\ \A f \in DOMAIN s \cap Tool : s[f] = run
          /\ "key" \in DOMAIN s <=> Public
          /\ Public => s["key"] = 0
      BY <1>2, NewListing
    <2> QED
      BY <1>0, <2>1, <2>2 DEF OfItsRun, RunOf
  <1> QED
    BY <1>1, <1>2, ListingSteps

\* Every listing of this run has its index and its tools.
OfOneIndex(i) == \A s \in Listings : RunOf(s) = run => s["index"] \in {i, Rot} /\ DOMAIN s \cap Tool = Tools

LEMMA ListingsOfOneIndex ==
  ASSUME TypeInv, Stages, OfThisRun, NEW i, OneIndex(i), [Next]_vars, pc # "idle", UNCHANGED <<run, setting>>
  PROVE  OfOneIndex(i)'
  <1>1. ASSUME NEW s \in Listings', RunOf(s) = run PROVE s["index"] \in {i, Rot} /\ DOMAIN s \cap Tool = Tools
    BY <1>1, ListingSteps, NewListing DEF OneIndex
  <1>2. Tools' = Tools
    BY DEF Tools
  <1> QED
    BY <1>1, <1>2 DEF OfOneIndex, RunOf

\* The index of disc n is the one it was, if it has one.
SameIndex(n) == "index" \in DOMAIN dir'[n] => "index" \in DOMAIN dir[n] /\ dir'[n]["index"] = dir[n]["index"]

\* Where an index is encrypted or kept, no disc of the run has one yet.
LEMMA IndexBegins ==
  ASSUME TypeInv, Stages, OfThisRun, ListingsOfRuns, OneIndexOfRun, [Next]_vars,
         EncryptIndex \/ RecordIndex \/ KeepIndex \/ Resume
  PROVE  OneIndexOfRun'
  <1> USE DEF PerDisc, Later, Phases
  <1>0. PICK i : OneIndex(i)
    BY DEF OneIndexOfRun
  <1>1. /\ run \in Nat /\ \A s \in Listings : RunOf(s) \in Nat
        /\ \A n \in Disc : n \in Nat /\ 1 <= n
    BY Numbers, Position DEF TypeInv, Scalars, Runs, ListingsOfRuns, OfItsRun
  <1>2. pc \in {"idle", "index", "record"} /\ pc # "sums" /\ at = 1
    BY DEF EncryptIndex, RecordIndex, KeepIndex, Resume, TypeInv, AtRest
  <1>3. \A s \in Listings' : s \in Listings
    BY <1>2, ListingSteps DEF WriteSums
  <1>4. \A s \in Listings' : RunOf(s) # run'
    <2>1. CASE Resume
      <3>1. run' = run + 1 /\ \A s \in Listings : RunOf(s) <= run
        BY <2>1 DEF Resume, ListingsOfRuns, OfItsRun
      <3> QED
        BY <1>1, <1>3, <3>1
    <2>2. CASE EncryptIndex \/ RecordIndex \/ KeepIndex
      <3>1. run' = run /\ pc \in {"index", "record"}
        BY <2>2 DEF EncryptIndex, RecordIndex, KeepIndex, ended
      <3>2. \A s \in Listings : RunOf(s) # run
        BY <3>1 DEF ListingsOfRuns, OfItsRun, Summing
      <3> QED
        BY <1>3, <3>1, <3>2
    <2> QED
      BY <2>1, <2>2
  <1>5. \A n \in Disc : ~InRun(n)'
    <2>1. pc' \in {"index", "record"} \/ (pc' = "clear" /\ at' = 1)
      BY <1>2 DEF EncryptIndex, RecordIndex, KeepIndex, Resume
    <2> QED
      BY <1>1, <2>1 DEF InRun, Laid
  <1>6. \E j : /\ pc' \in {"idle", "index", "record"} => ~tookIndex'
               /\ pc' = "record" => j = run'
               /\ pc' \notin {"idle", "index"} => index' \in {j, Rot}
               /\ tookIndex' => j = run'
               /\ \A s \in Listings' : RunOf(s) # run'
    <2>1. CASE EncryptIndex
      BY <1>0, <1>4, <2>1 DEF EncryptIndex, OneIndex, memory, ended
    <2>2. CASE RecordIndex
      BY <1>0, <1>4, <2>2 DEF RecordIndex, OneIndex, ended
    <2>3. CASE KeepIndex
      BY <1>0, <1>4, <2>3 DEF KeepIndex, OneIndex, enc, memory, ended
    <2>4. CASE Resume
      BY <1>0, <1>4, <2>4 DEF Resume, OneIndex
    <2> QED
      BY <2>1, <2>2, <2>3, <2>4
  <1> QED
    BY <1>5, <1>6 DEF OneIndexOfRun, OneIndex, RunOf

\* A file that is not the index leaves the index as it is.
LEMMA PutKeepsIndex ==
  ASSUME Dirs(dir), at \in Disc, IsTree(dir[at]), NEW f \in File \ {"index"}, NEW v, Put(f, v)
  PROVE  \A n \in Disc : SameIndex(n)
  BY PutKeeps DEF SameIndex

\* What a run writes besides its index.
LEMMA WritingKeepsIndex ==
  ASSUME TypeInv, Writing, ~PlaceIndex
  PROVE  \A n \in Disc : SameIndex(n)
  <1>0. Dirs(dir) /\ at \in Disc /\ IsTree(dir[at])
    BY WritingInHand, InHand
  <1>1. CASE dir' = dir
    BY <1>1 DEF SameIndex
  <1>2. CASE \E f \in File \ {"index"} : \E v : Put(f, v)
    BY <1>0, <1>2, PutKeepsIndex
  <1>3. CASE WritePayload
    <2>1. setting.payload \subseteq Tool
      BY <1>3, LayoutAssumption DEF WritePayload, TypeInv, Scalars, Setting
    <2> QED
      BY <1>0, <1>3, <2>1 DEF WritePayload, PlacePayload, Dirs, SameIndex, Tool
  <1>4. dir' = dir \/ WritePayload \/ \E f \in File \ {"index"} : \E v : Put(f, v)
    BY DEF Writing, PlaceImage, ProtectSidecars, PublishKey, RefuseData, PlaceManifest, CopySelf,
           WriteReadme, WriteSums, WritePublicIdentity, File, Data, Tool
  <1> QED
    BY <1>1, <1>2, <1>3, <1>4

\* From the first disc to the last a run keeps to its index.
LEMMA IndexLaid ==
  ASSUME TypeInv, Stages, OfThisRun, NEW i, OneIndex(i), [Next]_vars,
         \/ ClearDisc \/ PlaceImage \/ PlaceIndex \/ ProtectSidecars \/ PublishKey \/ WriteManifest \/ PlaceManifest
         \/ WritePayload \/ CopySelf \/ WriteReadme \/ KnowIndex \/ WriteSums \/ CheckDiscSizes \/ FinishIndex
         \/ BuildNext \/ Built
  PROVE  OneIndex(i)'
  <1> USE DEF PerDisc, Later, Phases
  <1> DEFINE Steps == PerDisc \cup Later
  <1>0. /\ Dirs(dir) /\ at \in Disc /\ at \in Nat /\ 1 \in Disc /\ Discs \in Nat
        /\ \A n \in Disc : n \in Nat /\ 1 <= n /\ n <= Discs
    BY Position, InHand
  <1>1. /\ UNCHANGED <<run, setting, tookIndex, index>> /\ pc \in Steps /\ pc' \in Steps
        /\ \A n \in Disc : InRun(n)' => InRun(n) \/ (ClearDisc /\ n = at)
    <2>1. CASE ClearDisc \/ PlaceImage \/ PlaceIndex \/ ProtectSidecars
      BY <1>0, <2>1 DEF ClearDisc, PlaceImage, PlaceIndex, ProtectSidecars, enc, memory, ended, InRun, Laid
    <2>2. CASE PublishKey
      <3>1. EachDisc("clear", "manifest") /\ pc = "key" /\ UNCHANGED <<run, setting, tookIndex, index>>
        BY <2>2 DEF PublishKey, enc, memory, ended
      <3>2. \/ at' = at + 1 /\ pc' = "clear" /\ at < Discs
            \/ at' = 1 /\ pc' = "manifest" /\ at = Discs
        BY <1>0, <3>1, NextDisc
      <3> QED
        BY <1>0, <3>1, <3>2 DEF InRun, Laid
    <2>3. CASE \/ WriteManifest \/ PlaceManifest \/ WritePayload \/ CopySelf \/ WriteReadme \/ KnowIndex \/ WriteSums
               \/ CheckDiscSizes \/ FinishIndex \/ BuildNext \/ Built
      <3>1. pc \in Later /\ pc' \in Later /\ UNCHANGED <<run, setting, tookIndex, index>>
        BY <1>0, <2>3, NextDisc
        DEF WriteManifest, PlaceManifest, WritePayload, CopySelf, WriteReadme, KnowIndex, WriteSums, CheckDiscSizes,
            FinishIndex, BuildNext, Built, enc, memory, ended
      <3> QED
        BY <3>1 DEF InRun, Laid
    <2> QED
      BY <2>1, <2>2, <2>3
  <1>2. index \in {i, Rot} /\ (tookIndex => i = run)
    BY <1>1 DEF OneIndex
  <1>3. ASSUME NEW n \in Disc, InRun(n)', "index" \in DOMAIN dir'[n]
        PROVE  dir'[n]["index"] \in {i, Rot}
    <2>1. CASE ClearDisc
      <3>1. dir'[at] = Empty /\ \A m \in Disc : m # at => dir'[m] = dir[m]
        BY <1>0, <2>1 DEF ClearDisc, Dirs
      <3> QED
        BY <1>1, <1>3, <3>1, EmptyTree DEF OneIndex
    <2>2. CASE PlaceIndex
      <3>1. /\ \A m \in Disc : m # at => dir'[m] = dir[m]
            /\ dir'[at]["index"] = index
        BY <1>0, <2>2, PutKeeps, WritingInHand DEF PlaceIndex, Writing, File, Data
      <3>2. ~ClearDisc
        BY <2>2 DEF PlaceIndex, ClearDisc
      <3> QED
        BY <1>1, <1>2, <1>3, <3>1, <3>2 DEF OneIndex
    <2>3. CASE ~ClearDisc /\ ~PlaceIndex
      <3>1. SameIndex(n)
        <4>1. CASE Writing
          BY <2>3, <4>1, WritingKeepsIndex
        <4>2. CASE WriteManifest \/ KnowIndex \/ CheckDiscSizes \/ FinishIndex \/ BuildNext \/ Built
          BY <4>2 DEF WriteManifest, KnowIndex, CheckDiscSizes, FinishIndex, BuildNext, Built, SameIndex
        <4> QED
          BY <2>3, <4>1, <4>2 DEF Writing
      <3> QED
        BY <1>1, <1>3, <2>3, <3>1 DEF OneIndex, SameIndex
    <2> QED
      BY <2>1, <2>2, <2>3
  <1>4. OfOneIndex(i)'
    BY <1>1, ListingsOfOneIndex
  <1> QED
    BY <1>1, <1>2, <1>3, <1>4 DEF OneIndex, OfOneIndex

LEMMA OneIndexStays ==
  ASSUME TypeInv, Stages, OfThisRun, ListingsOfRuns, OneIndexOfRun, [Next]_vars
  PROVE  OneIndexOfRun'
  <1>0. PICK i : OneIndex(i)
    BY DEF OneIndexOfRun
  <1>1. CASE EncryptIndex \/ RecordIndex \/ KeepIndex \/ Resume
    BY <1>1, IndexBegins
  <1>2. CASE \/ ClearDisc \/ PlaceImage \/ PlaceIndex \/ ProtectSidecars \/ PublishKey \/ WriteManifest \/ PlaceManifest
             \/ WritePayload \/ CopySelf \/ WriteReadme \/ KnowIndex \/ WriteSums \/ CheckDiscSizes \/ FinishIndex
             \/ BuildNext \/ Built
    BY <1>0, <1>2, IndexLaid DEF OneIndexOfRun
  \* The run is over.
  <1>3. ASSUME pc' = "idle", ~tookIndex' PROVE OneIndexOfRun'
    BY <1>3 DEF OneIndexOfRun, OneIndex, InRun, Laid, PerDisc, Later
  <1>4. CASE RefuseMissing \/ RefuseData \/ RefuseChanged \/ RefuseOversized \/ FinishState \/ Stop \/ BuildFails
    BY <1>3, <1>4
    DEF RefuseMissing, RefuseData, RefuseChanged, RefuseOversized, FinishState, Stop, BuildFails, Refuse, EndRun
  <1>5. CASE CarryAway
    <2>1. pc = "idle" /\ pc' = "idle" /\ tookIndex' = tookIndex
      BY <1>5, Apart DEF CarryAway, memory
    <2> QED
      BY <1>0, <1>3, <2>1 DEF OneIndex
  <1>6. ASSUME UNCHANGED <<pc, at, run, setting, tookIndex>>, index' \in {index, Rot},
               \A n \in Disc : Aged(dir[n], dir'[n])
        PROVE  OneIndexOfRun'
    <2>1. \A n \in Disc : InRun(n)' <=> InRun(n)
      BY <1>6 DEF InRun, Laid
    <2>2. \A n \in Disc : "index" \in DOMAIN dir'[n] =>
                            "index" \in DOMAIN dir[n] /\ dir'[n]["index"] \in {dir[n]["index"], Rot}
      BY <1>6 DEF Aged
    <2>3. pc # "idle" => OfOneIndex(i)'
      BY <1>0, <1>6, ListingsOfOneIndex
    <2>4. OneIndex(i)'
      BY <1>0, <1>6, <2>1, <2>2, <2>3 DEF OneIndex, OfOneIndex
    <2> QED
      BY <2>4 DEF OneIndexOfRun
  <1>7. CASE Fault
    <2>1. index' \in {index, Rot}
      BY <1>7 DEF Fault, RotImage, RotCopy, LoseImage, SpoilRecord, RotIndex, SpoilIndexRecord, enc
    <2> QED
      BY <1>6, <1>7, <2>1, FaultAges DEF Fault, memory
  <1>8. CASE FollowAdvice \/ StartBurn \/ LookISO \/ StartISO \/ RefuseISO \/ Command \/ UNCHANGED vars
    <2>1. UNCHANGED <<dir, pc, at, run, setting, tookIndex, index>>
      BY <1>8 DEF FollowAdvice, StartBurn, LookISO, StartISO, RefuseISO, Begin, Command, Ensure, BuildOne, Mastered,
                  MasteringFails, BurnDisc, Decline, Done, EndCommand, quiet, layoutVars, vars, enc, memory, ended
    <2> QED
      BY <1>6, <2>1 DEF Aged
  <1> QED
    BY <1>1, <1>2, <1>4, <1>5, <1>7, <1>8 DEF Next, LayoutNext, Run

LEMMA ListingsAgreeStay ==
  ASSUME TypeInv, Stages, OfThisRun, OneIndexOfRun, ListingsAgree, [Next]_vars
  PROVE  ListingsAgree'
  <1>0. PICK i : OneIndex(i)
    BY DEF OneIndexOfRun
  <1>1. ASSUME WriteSums, NEW s \in Listings', RunOf(s) = run
        PROVE  s["index"] \in {i, Rot} /\ DOMAIN s \cap Tool = Tools
    BY <1>0, <1>1, ListingSteps, NewListing DEF OneIndex, WriteSums
  <1>2. ASSUME NEW s \in Listings', NEW t \in Listings' PROVE Agree(s, t)
    <2>1. CASE s \in Listings /\ t \in Listings
      BY <2>1 DEF ListingsAgree
    <2>2. CASE WriteSums /\ RunOf(s) = run
      BY <1>1, <2>2 DEF Agree
    <2>3. CASE WriteSums /\ RunOf(t) = run
      BY <1>1, <2>3 DEF Agree
    <2> QED
      BY <2>1, <2>2, <2>3, ListingSteps, NewListing
  <1> QED
    BY <1>2 DEF ListingsAgree, Agree, RunOf

\* A disc is on the shelf because verify-disc passed it.
ShelfVerified == \A n \in Disc : Verified(n) => VerifyDisc(shelf[n].iso)

LEMMA ShelfVerifiedStays ==
  ASSUME TypeInv, ShelfVerified, [Next]_vars
  PROVE  ShelfVerified'
  <1>1. CASE shelf' = shelf
    BY <1>1 DEF ShelfVerified, Verified, VerifyDisc, Whole
  <1>2. CASE BurnDisc
    <2> DEFINE b == [iso |-> iso[First], finished |-> ~hasState]
    <2>1. CASE VerifyDisc(iso[First])
      <3>1. First \in Disc /\ shelf' = [shelf EXCEPT ![First] = b]
        BY <1>2, <2>1, InHand DEF BurnDisc
      <3>2. shelf'[First] = b /\ b.iso = iso[First] /\ \A n \in Disc : n # First => shelf'[n] = shelf[n]
        BY <3>1 DEF TypeInv, Shelved
      <3>3. shelf'[First].iso = iso[First]
        BY <3>2
      <3> QED
        BY <2>1, <3>2, <3>3 DEF ShelfVerified, Verified
    <2>2. CASE ~VerifyDisc(iso[First])
      BY <1>1, <1>2, <2>2 DEF BurnDisc
    <2> QED
      BY <2>1, <2>2
  <1> QED
    BY <1>1, <1>2
    DEF Next, Command, Ensure, BuildOne, Mastered, MasteringFails, Decline, Done, StartBurn, StartISO, Begin, LookISO,
        RefuseISO, BuildNext, Built, BuildFails, CarryAway, burnVars, vars

Alike == OfThisRun /\ OneIndexOfRun /\ ListingsOfRuns /\ ListingsAgree /\ ShelfVerified

LEMMA AlikeHolds == Spec => [](TypeInv /\ VerifiedMeansWhole /\ Alike)
  <1>1. Init => Alike
    <2> SUFFICES ASSUME Init PROVE Alike
      OBVIOUS
    <2>1. pc = "index" /\ tookIndex = FALSE /\ \A n \in Disc : ~InRun(n)
      BY DEF Init, LayoutInit, InRun, Laid, PerDisc, Later
    <2>2. Listings = {}
      BY DEF Init, LayoutInit, Listings, Has
    <2>3. OneIndex(0)
      BY <2>1, <2>2 DEF OneIndex
    <2>4. ShelfVerified
      BY DEF Init, ShelfVerified, Verified
    <2> QED
      BY <2>1, <2>2, <2>3, <2>4 DEF Alike, OfThisRun, OneIndexOfRun, ListingsOfRuns, ListingsAgree
  <1>2. TypeInv /\ Stages /\ Alike /\ [Next]_vars => Alike'
    BY OfThisRunStays, OneIndexStays, ListingsOfRunsStay, ListingsAgreeStay, ShelfVerifiedStays DEF Alike
  <1>3. Listed => VerifiedMeansWhole
    BY DEF Listed
  <1> QED
    BY <1>1, <1>2, <1>3, StagesHold, ListedHolds, PTL DEF Spec

(***************************************************************************)
(* For any discs, payloads, settings and interruptions: two discs that     *)
(* verify and whose READMEs are of one run carry one index, one manifest   *)
(* and the same tools.                                                     *)
(***************************************************************************)
THEOREM DiscsOfOneRunAreAlike == Spec => []DiscsOfOneRunAgree
  <1>1. ASSUME TypeInv, VerifiedMeansWhole, Alike PROVE DiscsOfOneRunAgree
    <2> DEFINE S(n) == Burned(n)["sums"]
    <2>1. ASSUME NEW n \in Disc, Verified(n)
          PROVE  /\ DOMAIN S(n) = DOMAIN Burned(n) \ {"sums"} /\ Required \subseteq DOMAIN Burned(n)
                 /\ \A f \in DOMAIN S(n) : Burned(n)[f] = S(n)[f]
                 /\ Burned(n)["manifest"] = Burned(n)["readme"].run
                 /\ S(n) \in Listings /\ OfItsRun(S(n)) /\ RunOf(S(n)) = Burned(n)["readme"].run
      <3>1. /\ DOMAIN S(n) = DOMAIN Burned(n) \ {"sums"} /\ Required \subseteq DOMAIN Burned(n)
            /\ Burned(n)["manifest"] = Burned(n)["readme"].run
        BY <1>1, <2>1 DEF VerifiedMeansWhole
      <3>2. "sums" \in DOMAIN Burned(n) /\ \A f \in DOMAIN S(n) : Burned(n)[f] = S(n)[f]
        BY <1>1, <2>1 DEF Alike, ShelfVerified, VerifyDisc, VerifyDir, Matches, Burned
      <3>3. S(n) \in Listings
        BY <2>1, <3>2 DEF Listings, Verified, Burned
      <3>4. OfItsRun(S(n))
        BY <1>1, <3>3 DEF Alike, ListingsOfRuns
      <3>5. RunOf(S(n)) = Burned(n)["readme"].run
        BY <3>1, <3>2 DEF RunOf, Required
      <3> QED
        BY <3>1, <3>2, <3>3, <3>4, <3>5
    <2>2. ASSUME NEW m \in Disc, NEW n \in Disc, Verified(m), Verified(n),
                 Burned(m)["readme"].run = Burned(n)["readme"].run
          PROVE  /\ DOMAIN Shared(Burned(m)) = DOMAIN Shared(Burned(n))
                 /\ SameButRot(Shared(Burned(m)), Shared(Burned(n)))
      <3> DEFINE d == Burned(m)
                 e == Burned(n)
                 F == {"index", "manifest", "key"} \cup Tool
      <3>1. Agree(S(m), S(n)) /\ RunOf(S(m)) = RunOf(S(n))
        BY <1>1, <2>1, <2>2 DEF Alike, ListingsAgree
      <3>2. DOMAIN d \cap Tool = DOMAIN e \cap Tool
        BY <2>1, <2>2, <3>1 DEF Agree, Tool
      <3>3. DOMAIN d \cap F = DOMAIN e \cap F
        BY <2>1, <2>2, <3>2 DEF Required, OfItsRun
      <3>4. d["index"] = e["index"] \/ d["index"] = Rot \/ e["index"] = Rot
        BY <2>1, <2>2, <3>1 DEF Agree, Required
      <3>5. \A f \in DOMAIN d \cap DOMAIN e \cap F : f # "index" => d[f] = e[f]
        <4>1. d["manifest"] = e["manifest"]
          BY <2>1, <2>2
        <4>2. "key" \in DOMAIN d /\ "key" \in DOMAIN e => d["key"] = e["key"]
          BY <2>1, <2>2 DEF OfItsRun
        <4>3. \A f \in DOMAIN d \cap DOMAIN e \cap Tool : d[f] = e[f]
          BY <2>1, <2>2, <3>1 DEF OfItsRun, Tool
        <4> QED
          BY <4>1, <4>2, <4>3
      <3> QED
        BY <3>3, <3>4, <3>5 DEF Shared, SameButRot
    <2> QED
      BY <2>2 DEF DiscsOfOneRunAgree
  <1>2. TypeInv /\ VerifiedMeansWhole /\ Alike => DiscsOfOneRunAgree
    BY <1>1
  <1> QED
    BY <1>2, AlikeHolds, PTL
=============================================================================
