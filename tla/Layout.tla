------------------------------- MODULE Layout -------------------------------
(***************************************************************************)
(* The last part of `brb backup` (backup/run.go from buildIndex on,        *)
(* payload.go): with every image encrypted, it encrypts the index, lays    *)
(* out one directory per disc, writes the documents and SHA512SUMS, and    *)
(* removes the state that says the set is unfinished.  A run may be        *)
(* interrupted or refuse anywhere; `brb backup --resume` does all of it    *)
(* again.  Burn adds the ISOs and what burns them.                         *)
(*                                                                         *)
(* A directory is a function from the files in it to what they hold: the   *)
(* run that made the file (0 for what was made before the layout: the      *)
(* image, the published key), or Rot.  A hash of a file is what the file   *)
(* held.                                                                   *)
(***************************************************************************)
EXTENDS Naturals, FiniteSets

CONSTANTS
  Discs,       \* how many discs the set has
  None,        \* no file, no directory
  Rot, Wrong,  \* a file that has rotted; a hash of something else
  Settings,    \* how a run may be set up: see Setting
  Sites,       \* where staging may be: see Site
  Public,      \* PUBLIC_ARCHIVE: the key is published on every disc
  Leftovers,   \* bound: the files a killed removal of a directory may leave
  FaultPhases, \* bound: the steps of a run at which a file may rot, change or disappear
  MaxStops,    \* bound: interrupted runs
  MaxFaults    \* bound: files that rot, change or disappear, and par2 failures

Disc == 1 .. Discs
MaxRuns == 1 + MaxStops + MaxFaults
Runs == 1 .. MaxRuns

\* payloadNames and SelfCopyName; the files under data/; all of a disc.
Tool == {"sh", "self"}
Data == {"image", "index", "parity"}
File == Data \cup Tool \cup {"key", "manifest", "readme", "sums"}

\* payload: what the dist directory has; located: selfPath finds the program.
Setting == [payload : SUBSET Tool, located : BOOLEAN, roundtrip : BOOLEAN, eager : BOOLEAN]
\* links: whether discs/ can hard-link to enc/; usable: files that fit a disc.
Site == [links : BOOLEAN, usable : Nat]

ASSUME LayoutAssumption ==
  /\ Discs \in Nat \ {0} /\ MaxStops \in Nat /\ MaxFaults \in Nat
  /\ Settings \subseteq Setting /\ Settings # {} /\ Sites \subseteq Site
  /\ Public \in BOOLEAN /\ Leftovers \subseteq SUBSET File
  /\ {None, Rot, Wrong} \cap Nat = {} /\ Cardinality({None, Rot, Wrong}) = 3

Readme == [run : Runs, parity : BOOLEAN, tools : SUBSET Tool]
Content(f) == IF f = "readme" THEN Readme ELSE 0 .. MaxRuns \cup {Rot}

\* What a file may hold: a content, or in SHA512SUMS a listing of them.
Value == (0 .. MaxRuns \cup {Rot}) \cup Readme
Item == Value \cup UNION {[S -> Value] : S \in SUBSET File}

ASSUME NoneIsNoTree == \A S \in SUBSET File : None \notin [S -> Item]

IsListing(s) ==
  /\ DOMAIN s \subseteq File \ {"sums"} /\ s = [f \in DOMAIN s |-> s[f]]
  /\ \A f \in DOMAIN s : s[f] \in Content(f)
IsTree(d) ==
  /\ DOMAIN d \subseteq File /\ d = [f \in DOMAIN d |-> d[f]]
  /\ \A f \in DOMAIN d \ {"sums"} : d[f] \in Content(f)
  /\ "sums" \in DOMAIN d => IsListing(d["sums"])

VARIABLES
  cipher, record,      \* enc/discNN.squashfs.age and its .sha512
  index, indexRecord,  \* enc/index.tsv.gz.age and its .sha512 (0: not there)
  plainIndex,          \* work/index.tsv is there
  hasState,            \* state.json is there: the set is unfinished
  manifest,            \* MANIFEST.txt in the root of staging (0: not there)
  dir,                 \* discs/discNN
  site,
  pc, at, run, setting, \* where the run is: its step, its disc, its number
  measured, tookIndex, \* what it hashed as it encrypted: images, the index
  indexSum,            \* what writeSums holds the index to (None: nothing)
  failed,              \* discs whose sidecar parity failed
  refused,             \* why the last run refused, and at which disc
  lock,                \* who holds .brb.lock
  stops, faults

enc == <<cipher, record, index, indexRecord>>
work == <<plainIndex, hasState>>
memory == <<setting, measured, tookIndex, indexSum, failed>>
ended == <<run, refused, lock, stops, faults, site>>
layoutVars == <<enc, work, manifest, dir, pc, at, memory, ended>>

Phases == {"idle", "index", "record", "clear", "image", "copyIndex", "parity", "key", "manifest",
           "placeManifest", "payload", "self", "readme", "known", "sums", "sizes", "isos",
           "mastering", "finish", "state"}
NoRefusal == [why |-> "none", disc |-> 0]

LayoutTypeOK ==
  /\ cipher \in [Disc -> {0, Rot, None}] /\ record \in [Disc -> {0, Rot, Wrong}]
  /\ index \in 0 .. MaxRuns \cup {Rot} /\ indexRecord \in 0 .. MaxRuns \cup {Rot, Wrong}
  /\ plainIndex \in BOOLEAN /\ hasState \in BOOLEAN /\ manifest \in 0 .. MaxRuns
  /\ DOMAIN dir = Disc /\ dir = [n \in Disc |-> dir[n]]
  /\ \A n \in Disc : dir[n] = None \/ IsTree(dir[n])
  /\ site \in Sites /\ pc \in Phases /\ at \in Disc /\ run \in Runs
  /\ setting \in Settings \cup {None} /\ (pc # "idle" => setting \in Settings)
  /\ measured \subseteq Disc /\ tookIndex \in BOOLEAN /\ failed \subseteq Disc
  /\ indexSum \in 0 .. MaxRuns \cup {Wrong, None}
  /\ refused \in [why : {"none", "missing", "oversized", "image", "index"}, disc : Disc \cup {0}]
  /\ lock \in {"free", "backup", "burn"} /\ stops \in 0 .. MaxStops /\ faults \in 0 .. MaxFaults

\* The run has encrypted the images after the k-th; an earlier one the rest.
LayoutInit ==
  /\ cipher = [n \in Disc |-> 0] /\ record = [n \in Disc |-> 0]
  /\ index = 0 /\ indexRecord = 0 /\ plainIndex = TRUE /\ hasState = TRUE
  /\ manifest = 0 /\ dir = [n \in Disc |-> None] /\ site \in Sites
  /\ pc = "index" /\ at = 1 /\ run = 1 /\ setting \in Settings
  /\ \E k \in 0 .. Discs : measured = {n \in Disc : n > k}
  /\ tookIndex = FALSE /\ indexSum = None /\ failed = {} /\ refused = NoRefusal
  /\ lock = "backup" /\ stops = 0 /\ faults = 0

-----------------------------------------------------------------------------
\* One more file in a directory, over one of that name.
With(d, f, v) == [g \in DOMAIN d \cup {f} |-> IF g = f THEN v ELSE d[g]]
Put(f, v) == dir' = [dir EXCEPT ![at] = With(@, f, v)]
Has(n, f) == dir[n] # None /\ f \in DOMAIN dir[n]

\* On to the next disc, or to the next step once every disc has had this one.
EachDisc(again, next) ==
  IF at < Discs THEN at' = at + 1 /\ pc' = again ELSE at' = 1 /\ pc' = next

Empty == [f \in {} |-> 0]

\* LockStaging: flock(2), which goes with the process however it ends.
LockStaging(who) == lock = "free" /\ lock' = who
Release == lock' = "free"

\* The lock is given back on the way to success only.
EndRunLocked(why, n) ==
  /\ pc' = "idle" /\ at' = 1 /\ measured' = {} /\ tookIndex' = FALSE /\ failed' = {}
  /\ setting' = None /\ indexSum' = None
  /\ refused' = [why |-> why, disc |-> n] /\ lock' = (IF pc = "state" THEN "free" ELSE lock)
  /\ UNCHANGED <<run, site>>

\* The run is over: what it knew goes with it, and the lock.
EndRun(why, n) ==
  /\ pc' = "idle" /\ at' = 1 /\ measured' = {} /\ tookIndex' = FALSE /\ failed' = {}
  /\ setting' = None /\ indexSum' = None
  /\ refused' = [why |-> why, disc |-> n] /\ Release
  /\ UNCHANGED <<run, site>>

Refuse(why, n) ==
  EndRun(why, n) /\ UNCHANGED <<enc, work, manifest, dir, stops, faults>>

(***************************************************************************)
(* buildIndex: encrypted again for as long as its plaintext is there.      *)
(***************************************************************************)
EncryptIndex ==
  /\ pc = "index" /\ plainIndex
  /\ index' = run /\ pc' = "record"
  /\ UNCHANGED <<cipher, record, indexRecord, work, manifest, dir, at, memory, ended>>

RecordIndex ==
  /\ pc = "record"
  /\ indexRecord' = run /\ tookIndex' = TRUE /\ pc' = "clear"
  /\ UNCHANGED <<cipher, record, index, work, manifest, dir, at, setting, measured, indexSum, failed, ended>>

KeepIndex ==
  /\ pc = "index" /\ ~plainIndex
  /\ pc' = "clear"
  /\ UNCHANGED <<enc, work, manifest, dir, at, memory, ended>>

(***************************************************************************)
(* buildDiscDirs: discPayload, freshDiscDir, linkOrCopy, protectSidecars,  *)
(* writePublicIdentity and the size of data/, disc by disc.                *)
(***************************************************************************)
Available(n) == cipher[n] # None

\* What an earlier run left stays: all of it, or the copy of the program.
LayOver ==
  /\ pc = "clear" /\ Available(at)
  /\ dir' = [dir EXCEPT ![at] = IF @ = None THEN Empty ELSE @] /\ pc' = "image"
  /\ UNCHANGED <<enc, work, manifest, at, memory, ended>>

ClearButSelf ==
  /\ pc = "clear" /\ Available(at)
  /\ dir' = [dir EXCEPT ![at] = IF Has(at, "self") THEN [f \in {"self"} |-> @[f]] ELSE Empty]
  /\ pc' = "image"
  /\ UNCHANGED <<enc, work, manifest, at, memory, ended>>

ClearDisc ==
  /\ pc = "clear" /\ Available(at)
  /\ dir' = [dir EXCEPT ![at] = Empty] /\ pc' = "image"
  /\ UNCHANGED <<enc, work, manifest, at, memory, ended>>

RefuseMissing == pc \in {"clear", "image"} /\ ~Available(at) /\ Refuse("missing", at)

PlaceImage ==
  /\ pc = "image" /\ Available(at)
  /\ Put("image", cipher[at]) /\ pc' = "copyIndex"
  /\ UNCHANGED <<enc, work, manifest, at, memory, ended>>

PlaceIndex ==
  /\ pc = "copyIndex"
  /\ Put("index", index) /\ pc' = "parity"
  /\ UNCHANGED <<enc, work, manifest, at, memory, ended>>

\* par2 may fail: a warning, remembered for the README of that disc.
ProtectSidecars ==
  /\ pc = "parity" /\ pc' = "key"
  /\ \/ Put("parity", run) /\ UNCHANGED <<failed, faults>>
     \/ /\ faults < MaxFaults /\ faults' = faults + 1
        /\ failed' = failed \cup {at} /\ dir' = dir
  /\ UNCHANGED <<enc, work, manifest, at, setting, measured, tookIndex, indexSum, run, refused, lock, stops, site>>

DataFits(d) == Cardinality(DOMAIN d \cap Data) <= site.usable

WritePublicIdentity == IF Public THEN Put("key", 0) ELSE dir' = dir

PublishKey ==
  /\ pc = "key" /\ DataFits(dir[at])
  /\ WritePublicIdentity
  /\ EachDisc("clear", "manifest")
  /\ UNCHANGED <<enc, work, manifest, memory, ended>>

RefuseData ==
  /\ pc = "key" /\ ~DataFits(dir[at])
  /\ WritePublicIdentity /\ EndRun("oversized", at)
  /\ UNCHANGED <<enc, work, manifest, stops, faults>>

(***************************************************************************)
(* writeManifest, writePayload, writeReadmes.                              *)
(***************************************************************************)
WriteManifest ==
  /\ pc = "manifest"
  /\ manifest' = run /\ pc' = "placeManifest"
  /\ UNCHANGED <<enc, work, dir, at, memory, ended>>

PlaceManifest ==
  /\ pc = "placeManifest"
  /\ Put("manifest", manifest) /\ EachDisc("placeManifest", "payload")
  /\ UNCHANGED <<enc, work, manifest, memory, ended>>

\* What the dist directory has; a file it lacks is stepped over.
PlacePayload(d) ==
  [f \in DOMAIN d \cup setting.payload |-> IF f \in setting.payload THEN run ELSE d[f]]

WritePayload ==
  /\ pc = "payload"
  /\ dir' = [dir EXCEPT ![at] = PlacePayload(@)]
  /\ EachDisc("payload", "self")
  /\ UNCHANGED <<enc, work, manifest, memory, ended>>

\* The payload's copy of the program wins over the one running.
CopySelf ==
  /\ pc = "self"
  /\ IF setting.located /\ ~Has(at, "self") THEN Put("self", run) ELSE dir' = dir
  /\ EachDisc("self", "readme")
  /\ UNCHANGED <<enc, work, manifest, memory, ended>>

SidecarFailed(n) == n \in failed
\* discToolArtifacts: the README lists the tools that are there.
ToolsOn(d) == Tool \cap DOMAIN d

WriteReadme ==
  /\ pc = "readme"
  /\ Put("readme", [run |-> run, parity |-> ~SidecarFailed(at), tools |-> ToolsOn(dir[at])])
  /\ EachDisc("readme", "known")
  /\ UNCHANGED <<enc, work, manifest, memory, ended>>

(***************************************************************************)
(* writeSums.  knownSum: the digest taken while encrypting, by this run or *)
(* as the sidecar records it; None when the sidecar cannot be read.        *)
(***************************************************************************)
ReadSumFile(r) == IF r = Rot THEN None ELSE r

\* The index has its one lookup before the first disc.
KnowIndex ==
  /\ pc = "known"
  /\ indexSum' = IF tookIndex THEN run ELSE ReadSumFile(indexRecord)
  /\ pc' = "sums"
  /\ UNCHANGED <<enc, work, manifest, dir, at, setting, measured, tookIndex, failed, ended>>

KnownSum(n, f) ==
  IF f = "index" THEN indexSum ELSE IF n \in measured THEN 0 ELSE ReadSumFile(record[n])

\* What knownSums has an entry for.
Encrypted == {"image", "index"}

\* The digest of this very inode, taken by this run: not read again.
Trusted(n, f) ==
  /\ f \in Encrypted /\ (IF f = "image" THEN n \in measured ELSE tookIndex)
  /\ site.links /\ ~setting.roundtrip

\* What --verify-roundtrip reads is compared with nothing.
ChangedUnlessReadBack(n) ==
  {f \in Encrypted :
     /\ ~setting.roundtrip /\ ~Trusted(n, f)
     /\ KnownSum(n, f) # None /\ KnownSum(n, f) # dir[n][f]}

Changed(n) ==
  {f \in Encrypted :
     ~Trusted(n, f) /\ KnownSum(n, f) # None /\ KnownSum(n, f) # dir[n][f]}

\* sumCandidates: every file but SHA512SUMS.
SumCandidates(d) == DOMAIN d \ {"sums"}

Hashes(n) ==
  [f \in SumCandidates(dir[n]) |-> IF Trusted(n, f) THEN KnownSum(n, f) ELSE dir[n][f]]

WriteSums ==
  /\ pc = "sums" /\ Changed(at) = {}
  /\ Put("sums", Hashes(at))
  /\ EachDisc("sums", "sizes")
  /\ UNCHANGED <<enc, work, manifest, memory, ended>>

\* The image is read before the index.
RefuseChanged ==
  /\ pc = "sums" /\ Changed(at) # {}
  /\ Refuse(IF "image" \in Changed(at) THEN "image" ELSE "index", at)

(***************************************************************************)
(* checkDiscSizes and finish.                                              *)
(***************************************************************************)
DirBytes(d) == Cardinality(DOMAIN d)
Fits(n) == DirBytes(dir[n]) <= site.usable

CheckDiscSizes ==
  /\ pc = "sizes" /\ \A n \in Disc : Fits(n)
  /\ pc' = IF setting.eager THEN "isos" ELSE "finish"
  /\ UNCHANGED <<enc, work, manifest, dir, at, memory, ended>>

RefuseOversized == pc = "sizes" /\ \E n \in Disc : ~Fits(n) /\ Refuse("oversized", n)

FinishIndex ==
  /\ pc = "finish"
  /\ plainIndex' = FALSE /\ pc' = "state"
  /\ UNCHANGED <<enc, hasState, manifest, dir, at, memory, ended>>

FinishState ==
  /\ pc = "state"
  /\ hasState' = FALSE
  /\ EndRun("none", 0) /\ UNCHANGED <<enc, plainIndex, manifest, dir, stops, faults>>

(***************************************************************************)
(* Interruptions: a kill, ^C, a full disk.  A removal may be cut short.    *)
(***************************************************************************)
Stop ==
  /\ pc # "idle" /\ stops < MaxStops
  /\ stops' = stops + 1
  /\ \/ dir' = dir
     \/ /\ pc = "clear" /\ Available(at) /\ dir[at] # None
        /\ \E left \in Leftovers :
             dir' = [dir EXCEPT ![at] = [f \in DOMAIN @ \cap left |-> @[f]]]
  /\ EndRun("none", 0) /\ UNCHANGED <<enc, work, manifest, faults>>

\* `brb backup --resume` with every image there: prepareState.
Resume ==
  /\ pc = "idle" /\ hasState /\ LockStaging("backup") /\ refused = NoRefusal /\ run < MaxRuns
  /\ run' = run + 1 /\ pc' = "index"
  /\ setting' \in Settings
  /\ UNCHANGED <<enc, work, manifest, dir, at, measured, tookIndex, indexSum, failed, refused, stops, faults, site>>

\* par2 repair, whatever it is that changed.
OnlyRepair ==
  /\ pc = "idle" /\ refused.why \in {"image", "index"}
  /\ refused.why = "image" => Available(refused.disc)
  /\ cipher' = IF refused.why = "image" THEN [cipher EXCEPT ![refused.disc] = 0] ELSE cipher
  /\ refused' = NoRefusal
  /\ UNCHANGED <<record, index, indexRecord, work, manifest, dir, pc, at, memory, run, lock, stops, faults, site>>

(***************************************************************************)
(* What changedSinceEncryption tells the operator to do: an image is       *)
(* repaired from its parity if it is what changed, and its record written  *)
(* again if it is not; an index is encrypted again while its plaintext is  *)
(* there, and afterwards its record written again if the index is sound.   *)
(***************************************************************************)
FollowAdvice ==
  /\ pc = "idle" /\ refused.why \in {"image", "index"}
  /\ LET n == refused.disc IN
     \/ /\ refused.why = "image" /\ Available(n)
        /\ IF cipher[n] = Rot THEN cipher' = [cipher EXCEPT ![n] = 0] /\ record' = record
                              ELSE record' = [record EXCEPT ![n] = 0] /\ cipher' = cipher
        /\ UNCHANGED indexRecord
     \/ /\ refused.why = "index" /\ plainIndex
        /\ UNCHANGED <<cipher, record, indexRecord>>
     \/ /\ refused.why = "index" /\ ~plainIndex /\ index # Rot
        /\ indexRecord' = index /\ UNCHANGED <<cipher, record>>
  /\ refused' = NoRefusal
  /\ UNCHANGED <<index, work, manifest, dir, pc, at, memory, run, lock, stops, faults, site>>

(***************************************************************************)
(* What happens to staging on its own.  A hard link rots with its file.    *)
(***************************************************************************)
RotImage(n) ==
  /\ cipher[n] = 0
  /\ cipher' = [cipher EXCEPT ![n] = Rot]
  /\ dir' = IF site.links /\ Has(n, "image") THEN [dir EXCEPT ![n] = With(@, "image", Rot)] ELSE dir
  /\ UNCHANGED <<record, index, indexRecord>>

RotCopy(n) ==
  /\ ~site.links
  /\ \E f \in {"image", "index"} : Has(n, f) /\ dir' = [dir EXCEPT ![n] = With(@, f, Rot)]
  /\ UNCHANGED enc

LoseImage(n) ==
  /\ cipher[n] # None /\ cipher' = [cipher EXCEPT ![n] = None]
  /\ UNCHANGED <<record, index, indexRecord, dir>>

SpoilRecord(n) ==
  /\ \E v \in {Rot, Wrong} : record' = [record EXCEPT ![n] = v]
  /\ UNCHANGED <<cipher, index, indexRecord, dir>>

RotIndex ==
  /\ index \in Runs /\ index' = Rot
  /\ dir' = [n \in Disc |-> IF site.links /\ Has(n, "index") /\ dir[n]["index"] = index
                            THEN With(dir[n], "index", Rot) ELSE dir[n]]
  /\ UNCHANGED <<cipher, record, indexRecord>>

SpoilIndexRecord ==
  /\ indexRecord \in Runs /\ indexRecord' \in {Rot, Wrong}
  /\ UNCHANGED <<cipher, record, index, dir>>

Fault ==
  /\ pc \in FaultPhases /\ faults < MaxFaults /\ faults' = faults + 1
  /\ \/ \E n \in Disc : RotImage(n) \/ RotCopy(n) \/ LoseImage(n) \/ SpoilRecord(n)
     \/ RotIndex \/ SpoilIndexRecord
  /\ UNCHANGED <<work, manifest, pc, at, memory, run, refused, lock, stops, site>>

Run ==
  \/ EncryptIndex \/ RecordIndex \/ KeepIndex
  \/ ClearDisc \/ RefuseMissing \/ PlaceImage \/ PlaceIndex \/ ProtectSidecars
  \/ PublishKey \/ RefuseData
  \/ WriteManifest \/ PlaceManifest \/ WritePayload \/ CopySelf \/ WriteReadme
  \/ KnowIndex \/ WriteSums \/ RefuseChanged \/ CheckDiscSizes \/ RefuseOversized
  \/ FinishIndex \/ FinishState

LayoutNext == Run \/ Stop \/ Resume \/ FollowAdvice \/ Fault
=============================================================================
