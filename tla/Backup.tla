------------------------------- MODULE Backup -------------------------------
(***************************************************************************)
(* The writer: `brb backup`, from its first look at the staging directory  *)
(* to the moment it reports the set complete, together with everything     *)
(* that may happen between its runs (interruptions at any step, resumes,   *)
(* plain restarts, changed settings, a changed source tree).               *)
(*                                                                         *)
(* One run of the program is a sequence of steps, numbered by pc; the      *)
(* staging directory is what survives a run.  A run builds one disc after  *)
(* another (oneDisc in run.go): image, ciphertext, two checksum files,     *)
(* recovery data, index rows, and last the resume state, which is what     *)
(* makes the disc count.  Disc directories, checksum re-verification and   *)
(* ISO images come after the last disc; here they are the single LayOut    *)
(* step.                                                                   *)
(*                                                                         *)
(* A file's bytes are not modelled.  What a disc image holds is the kind   *)
(* every path has in it; two images of one disc are told apart by the run  *)
(* that wrote them (gen), and a checksum or a parity set "matches" an      *)
(* image when it carries the same gen.                                     *)
(***************************************************************************)
EXTENDS Naturals, FiniteSets

CONSTANTS
  Path,               \* the paths the source tree may hold
  Above,              \* Above[p]: the directories on the way to p
  Trees,              \* the source trees a run may find
  Names,              \* archive name and source directory, as one value
  Recipients,         \* contents the recipients file may have
  Configs,            \* the settings a run may be started with
  None,               \* no configuration, no recipients
  MaxDiscs,           \* bound: discs in a set
  MaxShrinkAttempts,  \* MAX_SHRINK_ATTEMPTS
  MaxStops,           \* bound: runs that end before their time
  MaxTreeChanges      \* bound: changes of the source tree

Absent == "absent"
FileKind == "file"
SkeletonKinds == {"dir", "link", "other"}
Tree == [Path -> SkeletonKinds \cup {FileKind, Absent}]
NoTree == [p \in Path |-> Absent]

Disc == 1 .. MaxDiscs
Gen == 0 .. MaxStops + 1
Config == [name : Names, public : BOOLEAN, recipients : Recipients, room : Nat]

ASSUME PathsAssumption ==
  /\ IsFiniteSet(Path)
  /\ Above \in [Path -> SUBSET Path]
  /\ Trees \subseteq Tree
  /\ \A t \in Trees, p \in Path : t[p] # Absent => \A a \in Above[p] : t[a] = "dir"
ASSUME SettingsAssumption ==
  /\ Configs \subseteq Config
  /\ None \notin Recipients \cup Names \cup Configs
ASSUME BoundsAssumption ==
  /\ MaxDiscs \in Nat \ {0}
  /\ MaxShrinkAttempts \in Nat
  /\ MaxStops \in Nat
  /\ MaxTreeChanges \in Nat

-----------------------------------------------------------------------------
(* What staging holds.                                                     *)

Files(t) == {p \in Path : t[p] = FileKind}
SkeletonOf(t) == [p \in Path |-> IF t[p] = FileKind THEN Absent ELSE t[p]]

\* A key a disc is encrypted to: the recipients file's, or the one minted for
\* a public archive by the run that carries its number.
Key == [recipients : Recipients \cup {None}, public : Gen]
NoKey == [recipients |-> None, public |-> 0]

\* state.json.  A missing file is NoState: the file is only ever written with
\* at least one finished disc in it.
Skeleton == [Path -> SkeletonKinds \cup {Absent}]
State == [done : 0 .. MaxDiscs, assigned : SUBSET Path, skeleton : Skeleton,
          name : Names \cup {None}, public : BOOLEAN, publicKey : Gen,
          recipients : Recipients \cup {None}, room : Nat]
NoState == [done |-> 0, assigned |-> {}, skeleton |-> NoTree, name |-> None,
            public |-> FALSE, publicKey |-> 0, recipients |-> None, room |-> 0]

\* work/index.tsv: its rows, each with the run that appended it so that a row
\* written twice counts twice, and whether it ends in the middle of a record.
Row == [disc : Disc, path : Path, gen : Gen]
Index == [present : BOOLEAN, rows : SUBSET Row, torn : BOOLEAN]
NoIndex == [present |-> FALSE, rows |-> {}, torn |-> FALSE]

\* enc/discNN.*: the ciphertext, the two checksum files and the recovery set.
Image == [gen : Gen, kinds : Tree, key : Key, room : Nat]
NoImage == [gen |-> 0, kinds |-> NoTree, key |-> NoKey, room |-> 0]
Protected == [age : Image, sha : Gen, ageSha : Gen, par : Gen, parWhole : BOOLEAN]
Nothing == [age |-> NoImage, sha |-> 0, ageSha |-> 0, par |-> 0, parWhole |-> FALSE]

\* enc/index.tsv.gz.age and its checksum.
SealedIndex == [gen : Gen, rows : SUBSET (Disc \X Path), key : Key, sha : Gen]
NoSealedIndex == [gen |-> 0, rows |-> {}, key |-> NoKey, sha |-> 0]

VARIABLES
  saved,      \* state.json
  idx,        \* work/index.tsv
  img,        \* img/discNN.squashfs: "none", "partial" or "whole"
  enc,        \* enc/discNN.*
  sealed,     \* enc/index.tsv.gz.age and .sha512
  identity,   \* enc/identity.txt: the run that minted the key, 0 for none
  pc,         \* where the running program is, "idle" when none runs
  cfg,        \* the running program's settings
  resume,     \* whether it was given --resume
  st,         \* its state, in memory
  key,        \* the key it encrypts to
  todo,       \* files no disc holds yet
  skel,       \* the non-file entries its scan found
  bin,        \* the files of the disc in hand
  attempt,    \* shrink attempts at that disc
  indexBuilt, \* whether it keeps the encrypted index it found
  tree,       \* the source tree
  changes,    \* how often that tree changed
  stops,      \* how many runs were cut short
  complete    \* discs of the set last reported complete, 0 before

staging == <<saved, idx, img, enc, sealed, identity>>
memory == <<cfg, resume, st, key, todo, skel, bin, attempt, indexBuilt>>
world == <<tree, changes, stops, complete>>
vars == <<staging, pc, memory, world>>

disc == st.done + 1   \* the disc in hand
gen == stops + 1      \* the number of the run that is writing

TypeOK ==
  /\ saved \in State /\ st \in State
  /\ idx \in Index
  /\ img \in [Disc -> {"none", "partial", "whole"}]
  /\ enc \in [Disc -> Protected]
  /\ sealed \in SealedIndex
  /\ identity \in Gen
  /\ pc \in {"idle", "prepare", "fresh", "identity", "filter", "pack", "image", "imaging",
             "measure", "encrypt", "sha", "ageSha", "sweep", "parity", "parityRuns",
             "dropImage", "append", "appending", "save", "index", "indexSha", "layout",
             "finishIndex", "finishState"}
  /\ cfg \in Configs \cup {None}
  /\ pc # "idle" => cfg \in Configs
  /\ resume \in BOOLEAN /\ indexBuilt \in BOOLEAN
  /\ key \in Key
  /\ todo \subseteq Path /\ bin \subseteq Path
  /\ skel \in Skeleton
  /\ attempt \in 0 .. MaxShrinkAttempts
  /\ tree \in Trees
  /\ changes \in 0 .. MaxTreeChanges /\ stops \in 0 .. MaxStops
  /\ complete \in 0 .. MaxDiscs

Init ==
  /\ saved = NoState /\ idx = NoIndex /\ sealed = NoSealedIndex /\ identity = 0
  /\ img = [d \in Disc |-> "none"] /\ enc = [d \in Disc |-> Nothing]
  /\ pc = "idle" /\ cfg = None /\ resume = FALSE /\ st = NoState /\ key = NoKey
  /\ todo = {} /\ skel = NoTree /\ bin = {} /\ attempt = 0 /\ indexBuilt = FALSE
  /\ tree \in Trees /\ changes = 0 /\ stops = 0 /\ complete = 0

-----------------------------------------------------------------------------
(* Steps of a run share these shapes.                                      *)

Goto(label) == pc' = label

\* The process is gone, and with it everything it held in memory.
ProcessGone ==
  /\ pc' = "idle" /\ cfg' = None /\ resume' = FALSE /\ st' = NoState /\ key' = NoKey
  /\ todo' = {} /\ skel' = NoTree /\ bin' = {} /\ attempt' = 0 /\ indexBuilt' = FALSE

-----------------------------------------------------------------------------
(* Between runs: the operator and the source tree.                         *)

Start(c, r) ==
  /\ pc = "idle"
  /\ Goto("prepare") /\ cfg' = c /\ resume' = r
  /\ UNCHANGED <<st, key, todo, skel, bin, attempt, indexBuilt, staging, world>>

ChangeTree ==
  /\ pc = "idle" /\ changes < MaxTreeChanges
  /\ \E t \in Trees \ {tree} : tree' = t
  /\ changes' = changes + 1
  /\ UNCHANGED <<staging, pc, memory, stops, complete>>

-----------------------------------------------------------------------------
(* prepareState: a run's first look at staging.                            *)

\* Slips of reconcileIndex: the last finished disc's rows go as well; those of
\* the disc in flight stay; the half-written tail stays.
ReconciledTooFar(i, maxDisc) ==
  [i EXCEPT !.rows = {r \in @ : r.disc < maxDisc}, !.torn = FALSE]
ReconciledTooLittle(i, maxDisc) ==
  [i EXCEPT !.rows = {r \in @ : r.disc <= maxDisc + 1}, !.torn = FALSE]

\* reconcileIndex: rows of discs the state does not count, and a half-written
\* last record, are dropped by an atomic rewrite.
Reconciled(i, maxDisc) ==
  [i EXCEPT !.rows = {r \in @ : r.disc <= maxDisc}, !.torn = FALSE]

\* sum.MaxDisc = DiscsDone and sum.Lines = len(Assigned).
Agrees(i, s) ==
  /\ \E r \in i.rows : r.disc = s.done
  /\ \A r \in i.rows : r.disc <= s.done
  /\ Cardinality(i.rows) = Cardinality(s.assigned)

\* A resume that does not compare the recipients.
AnyRecipients(s, c) == TRUE

\* checkResume, checkPublicMode, checkRecipients, checkGeometry.  An ordinary
\* set recorded its recipients; a public one recorded none, and then there is
\* nothing to compare.
SameSource(s, c) == s.name = c.name
SameMode(s, c) == s.public = c.public
SameRecipients(s, c) == s.recipients \in {None, c.recipients}
SameGeometry(s, c) == s.room = c.room
SameSettings(s, c) ==
  SameSource(s, c) /\ SameMode(s, c) /\ SameRecipients(s, c) /\ SameGeometry(s, c)

AnyCiphertext == sealed.gen # 0 \/ \E d \in Disc : enc[d].age.gen # 0

\* A plain start that does not look for ciphertext.
CanStartOverASet == saved = NoState
CanStartFresh == saved = NoState /\ ~AnyCiphertext

CanResume ==
  /\ saved # NoState
  /\ SameSettings(saved, cfg)
  /\ IF idx.present THEN Agrees(Reconciled(idx, saved.done), saved) ELSE sealed.gen # 0

\* The index is rewritten before it is compared with the state, so a resume
\* that is refused for disagreeing has rewritten it all the same.
RewriteIndex ==
  idx' = IF resume /\ saved # NoState /\ SameSettings(saved, cfg) /\ idx.present
           THEN Reconciled(idx, saved.done) ELSE idx

ResumeSet ==
  /\ pc = "prepare" /\ resume /\ CanResume
  /\ RewriteIndex
  /\ st' = saved
  /\ indexBuilt' = ~idx.present
  /\ Goto("identity")
  /\ UNCHANGED <<saved, img, enc, sealed, identity, world>>
  /\ UNCHANGED <<cfg, resume, key, todo, skel, bin, attempt>>

\* startFresh, in two steps because a run may die between its two removals.
StartFresh ==
  /\ pc = "prepare" /\ ~resume /\ CanStartFresh
  /\ idx' = NoIndex
  /\ Goto("fresh")
  /\ UNCHANGED <<saved, img, enc, sealed, identity, memory, world>>

NewState ==
  /\ pc = "fresh"
  /\ identity' = 0
  /\ st' = [NoState EXCEPT !.name = cfg.name, !.room = cfg.room,
                           !.recipients = IF cfg.public THEN None ELSE cfg.recipients]
  /\ Goto("identity")
  /\ UNCHANGED <<saved, idx, img, enc, sealed, world>>
  /\ UNCHANGED <<cfg, resume, key, todo, skel, bin, attempt, indexBuilt>>

PrepareRefuses ==
  /\ pc = "prepare"
  /\ ~(IF resume THEN CanResume ELSE CanStartFresh)
  /\ RewriteIndex
  /\ ProcessGone
  /\ UNCHANGED <<saved, img, enc, sealed, identity, world>>

-----------------------------------------------------------------------------
(* preparePublicIdentity: which key this run encrypts to.                  *)

CanUseIdentity == identity # 0 /\ identity = st.publicKey

UseRecipients ==
  /\ pc = "identity" /\ ~cfg.public
  /\ key' = [recipients |-> cfg.recipients, public |-> 0]
  /\ Goto("filter")
  /\ UNCHANGED <<cfg, resume, st, todo, skel, bin, attempt, indexBuilt, staging, world>>

MintIdentity ==
  /\ pc = "identity" /\ cfg.public /\ st.done = 0
  /\ identity' = gen
  /\ st' = [st EXCEPT !.public = TRUE, !.publicKey = gen]
  /\ key' = [recipients |-> None, public |-> gen]
  /\ Goto("filter")
  /\ UNCHANGED <<saved, idx, img, enc, sealed, world>>
  /\ UNCHANGED <<cfg, resume, todo, skel, bin, attempt, indexBuilt>>

ReuseIdentity ==
  /\ pc = "identity" /\ cfg.public /\ st.done > 0 /\ CanUseIdentity
  /\ key' = [recipients |-> None, public |-> identity]
  /\ Goto("filter")
  /\ UNCHANGED <<cfg, resume, st, todo, skel, bin, attempt, indexBuilt, staging, world>>

-----------------------------------------------------------------------------
(* scan, resumeFilter and checkIndexCovers: what is left to write.         *)

\* The kind every path other than a file has on the finished discs: the
\* recorded skeletons, and the directories above the assigned files.
WrittenKinds(s) ==
  [p \in Path |->
     IF s.skeleton[p] # Absent THEN s.skeleton[p]
     ELSE IF \E f \in s.assigned : p \in Above[f] THEN "dir" ELSE Absent]

ChangedKinds(s, t) ==
  {p \in Path : /\ t[p] # Absent
                /\ \/ p \in s.assigned /\ t[p] # FileKind
                   \/ WrittenKinds(s)[p] \notin {Absent, t[p]}}

\* A resume that packs every file again.
PendingEverything(s, t) == Files(t)
Pending(s, t) == {p \in Files(t) : p \notin s.assigned \/ WrittenKinds(s)[p] # Absent}

\* A record of this run's skeleton alone, and one that takes files in.
RecordThisScan(was, t) == SkeletonOf(t)
RecordFilesToo(was, t) == [p \in Path |-> IF t[p] # Absent THEN t[p] ELSE was[p]]
\* recordSkeleton: this scan's skeleton laid over what earlier ones recorded.
RecordSkeleton(was, t) ==
  [p \in Path |-> IF SkeletonOf(t)[p] # Absent THEN SkeletonOf(t)[p] ELSE was[p]]

\* A resume that does not ask whether the index it keeps covers the files.
CanFilterAnyIndex ==
  tree # NoTree /\ (Pending(st, tree) # {} => ChangedKinds(st, tree) = {})
CanFilter ==
  /\ tree # NoTree
  /\ Pending(st, tree) # {} => ChangedKinds(st, tree) = {} /\ ~indexBuilt

Filter ==
  /\ pc = "filter" /\ CanFilter
  /\ todo' = Pending(st, tree)
  /\ skel' = [p \in Path |-> IF p \in ChangedKinds(st, tree) THEN Absent ELSE SkeletonOf(tree)[p]]
  /\ st' = IF Pending(st, tree) # {}
             THEN [st EXCEPT !.skeleton = RecordSkeleton(WrittenKinds(st), tree)]
             ELSE st
  /\ Goto("pack")
  /\ UNCHANGED <<cfg, resume, key, bin, attempt, indexBuilt, staging, world>>

-----------------------------------------------------------------------------
(* buildDiscs and buildImage: which files the disc in hand gets.           *)

\* Any files left to write may make a bin, and an image fits the budget when
\* it holds at most cfg.room of them: files count as equally large here, and
\* how sizes and measured ratios choose is the packer's and the estimator's
\* business.
Bins == {b \in SUBSET todo : b # {}}
Fits(b) == Cardinality(b) <= cfg.room

NextBin ==
  /\ pc = "pack" /\ todo # {} /\ st.done < MaxDiscs
  /\ bin' \in Bins
  /\ attempt' = 0
  /\ Goto("image")
  /\ UNCHANGED <<cfg, resume, st, key, todo, skel, indexBuilt, staging, world>>

\* The images are all built; "nothing was packed" is a refusal, below.
AllPacked ==
  /\ pc = "pack" /\ todo = {} /\ st.done > 0
  /\ Goto("index")
  /\ UNCHANGED <<staging, memory, world>>

\* mksquashfs removes what an earlier run left at the name and then writes in
\* place, so the image is there, incomplete, until it is whole.
BeginImage ==
  /\ pc = "image"
  /\ img' = [img EXCEPT ![disc] = "partial"]
  /\ Goto("imaging")
  /\ UNCHANGED <<saved, idx, enc, sealed, identity, memory, world>>

FinishImage ==
  /\ pc = "imaging"
  /\ img' = [img EXCEPT ![disc] = "whole"]
  /\ Goto("measure")
  /\ UNCHANGED <<saved, idx, enc, sealed, identity, memory, world>>

KeepBin ==
  /\ pc = "measure" /\ Fits(bin)
  /\ Goto("encrypt")
  /\ UNCHANGED <<staging, memory, world>>

\* Over budget: the image goes, and the disc is packed again with the ratio
\* just measured, which makes for a smaller bin.
SmallerBins == {b \in Bins : Cardinality(b) < Cardinality(bin)}

Shrink ==
  /\ pc = "measure" /\ ~Fits(bin) /\ attempt < MaxShrinkAttempts
  /\ img' = [img EXCEPT ![disc] = "none"]
  /\ bin' \in SmallerBins
  /\ attempt' = attempt + 1
  /\ Goto("image")
  /\ UNCHANGED <<cfg, resume, st, key, todo, skel, indexBuilt>>
  /\ UNCHANGED <<saved, idx, enc, sealed, identity, world>>

\* emptyBinError removes the image first; running out of attempts leaves it.
ShrinkFails ==
  /\ pc = "measure" /\ ~Fits(bin)
  /\ attempt = MaxShrinkAttempts \/ SmallerBins = {}
  /\ img' = [img EXCEPT ![disc] = IF attempt = MaxShrinkAttempts THEN @ ELSE "none"]
  /\ ProcessGone
  /\ UNCHANGED <<saved, idx, enc, sealed, identity, world>>

-----------------------------------------------------------------------------
(* protect: ciphertext, checksums, recovery data, and the plaintext goes.  *)

\* Every file but the recovery set is written beside its name and renamed
\* onto it, so an interrupted write leaves what was there.
Encrypt ==
  /\ pc = "encrypt"
  /\ enc' = [enc EXCEPT ![disc].age =
       [gen |-> gen, key |-> key, room |-> cfg.room,
        kinds |-> [p \in Path |-> IF p \in bin THEN FileKind ELSE skel[p]]]]
  /\ Goto("sha")
  /\ UNCHANGED <<saved, idx, img, sealed, identity, memory, world>>

WritePlainSum ==
  /\ pc = "sha"
  /\ enc' = [enc EXCEPT ![disc].sha = gen]
  /\ Goto("ageSha")
  /\ UNCHANGED <<saved, idx, img, sealed, identity, memory, world>>

WriteCipherSum ==
  /\ pc = "ageSha"
  /\ enc' = [enc EXCEPT ![disc].ageSha = gen]
  /\ Goto("sweep")
  /\ UNCHANGED <<saved, idx, img, sealed, identity, memory, world>>

\* Recovery data found at the name is taken for this disc's.
ReuseParity ==
  /\ pc = "sweep"
  /\ Goto(IF enc[disc].par # 0 THEN "dropImage" ELSE "parity")
  /\ UNCHANGED <<staging, memory, world>>

\* Recovery data an earlier attempt at this disc left is removed first; a run
\* may die half way through the removal as well as half way through par2.
SweepParity ==
  /\ pc = "sweep"
  /\ \/ /\ enc[disc].par # 0 /\ enc[disc].parWhole
        /\ enc' = [enc EXCEPT ![disc].parWhole = FALSE]
        /\ UNCHANGED pc
     \/ /\ enc' = [enc EXCEPT ![disc].par = 0, ![disc].parWhole = FALSE]
        /\ Goto("parity")
  /\ UNCHANGED <<saved, idx, img, sealed, identity, memory, world>>

BeginParity ==
  /\ pc = "parity"
  /\ enc' = [enc EXCEPT ![disc].par = gen]
  /\ Goto("parityRuns")
  /\ UNCHANGED <<saved, idx, img, sealed, identity, memory, world>>

FinishParity ==
  /\ pc = "parityRuns"
  /\ enc' = [enc EXCEPT ![disc].parWhole = TRUE]
  /\ Goto("dropImage")
  /\ UNCHANGED <<saved, idx, img, sealed, identity, memory, world>>

\* The round trip, when it is asked for, only reads.
DropImage ==
  /\ pc = "dropImage"
  /\ img' = [img EXCEPT ![disc] = "none"]
  /\ Goto("append")
  /\ UNCHANGED <<saved, idx, enc, sealed, identity, memory, world>>

-----------------------------------------------------------------------------
(* appendIndex and the end of oneDisc: the disc comes to count.            *)

Rows(files) == {[disc |-> disc, path |-> p, gen |-> gen] : p \in files}

\* The rows reach the file some at a time, and the last of them may be cut.
\* The file is opened without truncation and created if it is missing.
AppendRows ==
  /\ pc = "append"
  /\ \E some \in SUBSET bin, cut \in BOOLEAN :
       idx' = [present |-> TRUE, rows |-> idx.rows \cup Rows(some), torn |-> cut]
  /\ Goto("appending")
  /\ UNCHANGED <<saved, img, enc, sealed, identity, memory, world>>

FinishRows ==
  /\ pc = "appending"
  /\ idx' = [idx EXCEPT !.rows = @ \cup Rows(bin), !.torn = FALSE]
  /\ Goto("save")
  /\ UNCHANGED <<saved, img, enc, sealed, identity, memory, world>>

\* SaveState writes beside the state and renames, so the file is the old state
\* or the new one.
SaveState(s) == saved' = s

CommitDisc ==
  /\ pc = "save"
  /\ st' = [st EXCEPT !.done = disc, !.assigned = @ \cup bin]
  /\ SaveState(st')
  /\ todo' = todo \ bin
  /\ bin' = {} /\ attempt' = 0
  /\ Goto("pack")
  /\ UNCHANGED <<cfg, resume, key, skel, indexBuilt>>
  /\ UNCHANGED <<idx, img, enc, sealed, identity, world>>

-----------------------------------------------------------------------------
(* buildIndex, the layout of the discs, finish.                            *)

CanSealIndex ==
  IF indexBuilt THEN sealed.gen # 0 /\ sealed.sha # 0 ELSE idx.present /\ idx.rows # {}

KeepIndex ==
  /\ pc = "index" /\ indexBuilt /\ CanSealIndex
  /\ Goto("layout")
  /\ UNCHANGED <<staging, memory, world>>

SealIndex ==
  /\ pc = "index" /\ ~indexBuilt /\ CanSealIndex
  /\ sealed' = [sealed EXCEPT !.gen = gen, !.key = key,
                              !.rows = {<<r.disc, r.path>> : r \in idx.rows}]
  /\ Goto("indexSha")
  /\ UNCHANGED <<saved, idx, img, enc, identity, memory, world>>

WriteIndexSum ==
  /\ pc = "indexSha"
  /\ sealed' = [sealed EXCEPT !.sha = gen]
  /\ Goto("layout")
  /\ UNCHANGED <<saved, idx, img, enc, identity, memory, world>>

\* discPayload: what every disc directory must be laid out from.
HasPayload(d) ==
  /\ enc[d].age.gen # 0 /\ enc[d].sha # 0 /\ enc[d].ageSha # 0 /\ enc[d].par # 0
  /\ sealed.gen # 0 /\ sealed.sha # 0

LayOut ==
  /\ pc = "layout" /\ \A d \in 1 .. st.done : HasPayload(d)
  /\ Goto("finishIndex")
  /\ UNCHANGED <<staging, memory, world>>

\* finish removes the plaintext index first and the state second.
FinishIndex ==
  /\ pc = "finishIndex"
  /\ idx' = NoIndex
  /\ Goto("finishState")
  /\ UNCHANGED <<saved, img, enc, sealed, identity, memory, world>>

FinishState ==
  /\ pc = "finishState"
  /\ saved' = NoState
  /\ complete' = st.done
  /\ ProcessGone
  /\ UNCHANGED <<idx, img, enc, sealed, identity, tree, changes, stops>>

-----------------------------------------------------------------------------
(* How a run ends early.                                                   *)

\* A later step finds that the run cannot go on, and says so; prepareState's
\* refusals, which may have rewritten the index, are PrepareRefuses.
Refusal ==
  \/ pc = "identity" /\ cfg.public /\ st.done > 0 /\ ~CanUseIdentity
  \/ pc = "filter" /\ ~CanFilter
  \/ pc = "pack" /\ todo # {} /\ cfg.room = 0    \* a file larger than one disc
  \/ pc = "pack" /\ todo = {} /\ st.done = 0     \* nothing was packed
  \/ pc = "index" /\ ~CanSealIndex
  \/ pc = "layout" /\ \E d \in 1 .. st.done : ~HasPayload(d)

RunRefuses == Refusal /\ ProcessGone /\ UNCHANGED <<staging, world>>

\* The process is killed, cancelled, or meets an error at any step: staging
\* stays as the last step left it.
Stop ==
  /\ pc # "idle" /\ stops < MaxStops
  /\ stops' = stops + 1
  /\ ProcessGone
  /\ UNCHANGED <<staging, tree, changes, complete>>

\* mksquashfs or par2 fails with the program still there to clean up.
ToolFails ==
  /\ pc \in {"imaging", "parityRuns"} /\ stops < MaxStops
  /\ stops' = stops + 1
  /\ img' = IF pc = "imaging" THEN [img EXCEPT ![disc] = "none"] ELSE img
  /\ enc' = IF pc = "parityRuns" THEN [enc EXCEPT ![disc].par = 0] ELSE enc
  /\ ProcessGone
  /\ UNCHANGED <<saved, idx, sealed, identity, tree, changes, complete>>

OneDisc ==
  \/ NextBin \/ BeginImage \/ FinishImage \/ KeepBin \/ Shrink \/ ShrinkFails
  \/ Encrypt \/ WritePlainSum \/ WriteCipherSum
  \/ SweepParity \/ BeginParity \/ FinishParity \/ DropImage
  \/ AppendRows \/ FinishRows \/ CommitDisc

Run ==
  \/ ResumeSet \/ StartFresh \/ NewState \/ PrepareRefuses
  \/ UseRecipients \/ MintIdentity \/ ReuseIdentity \/ Filter
  \/ OneDisc \/ AllPacked
  \/ KeepIndex \/ SealIndex \/ WriteIndexSum \/ LayOut \/ FinishIndex \/ FinishState
  \/ RunRefuses

Next ==
  \/ \E c \in Configs, r \in BOOLEAN : Start(c, r)
  \/ ChangeTree
  \/ Run
  \/ Stop
  \/ ToolFails

Spec == Init /\ [][Next]_vars

\* Every step of a run ends (the tools it calls do), and an operator whose
\* runs end early keeps resuming with every configuration there is.
FairSpec ==
  /\ Spec
  /\ WF_vars(Run)
  /\ \A c \in Configs : SF_vars(Start(c, TRUE))

-----------------------------------------------------------------------------
(* Properties.                                                             *)

Held(d) == Files(enc[d].age.kinds)
Finished == {d \in Disc : d <= saved.done \/ d <= complete}

\* Whatever step a run dies at, every disc state.json counts, or a complete
\* set had, is whole: its ciphertext is there, and both checksum files and a
\* finished recovery set belong to that very ciphertext and not to one an
\* earlier attempt at the disc made (protect, and the place of CommitDisc).
FinishedDiscsSound ==
  \A d \in Finished :
    /\ enc[d].age.gen # 0
    /\ enc[d].sha = enc[d].age.gen /\ enc[d].ageSha = enc[d].age.gen
    /\ enc[d].par = enc[d].age.gen /\ enc[d].parWhole

\* However many runs built the set and however the tree changed between them,
\* no file is on two discs, and the files state.json says are written are
\* exactly those the finished discs hold: nothing it skips is missing from
\* them (resumeFilter, oneDisc).
EveryFileOnOneDisc ==
  /\ \A d, e \in Finished : d # e => Held(d) \cap Held(e) = {}
  /\ saved.assigned = UNION {Held(d) : d \in 1 .. saved.done}

\* No path has one kind on one finished disc and another on another, so a
\* restore can lay the discs over each other in any order (resumeFilter's
\* refusal and recordSkeleton).
FinishedDiscsAgreeOnKinds ==
  \A d, e \in Finished, p \in Path :
    Absent \in {enc[d].age.kinds[p], enc[e].age.kinds[p]}
      \/ enc[d].age.kinds[p] = enc[e].age.kinds[p]

\* All finished discs open with one key, were planned for one medium and fit
\* it, and the secret key of a public archive is still in staging as long as
\* a disc encrypted to it is (checkRecipients, checkPublicMode, checkGeometry,
\* preparePublicIdentity, startFresh).
OneKeyOneMedium ==
  \A d \in Finished :
    /\ enc[d].age.key = enc[1].age.key /\ enc[d].age.room = enc[1].age.room
    /\ Cardinality(Held(d)) <= enc[d].age.room
    /\ enc[d].age.key.public # 0 => identity = enc[d].age.key.public

\* A complete set has an index, whole and encrypted to the key of its discs,
\* that names every file on its discs and nothing else (appendIndex,
\* reconcileIndex, checkIndexCovers, buildIndex).
CompleteSetIsIndexed ==
  complete > 0 =>
    /\ sealed.gen # 0 /\ sealed.sha = sealed.gen /\ sealed.key = enc[1].age.key
    /\ sealed.rows = UNION {{d} \X Held(d) : d \in 1 .. complete}

\* An interruption never costs the finished discs: at every moment staging
\* holds what prepareState and preparePublicIdentity ask of a resume with the
\* settings the set was started with (reconcileIndex, finish).
FinishedDiscsCanBeResumed ==
  saved # NoState =>
    /\ IF idx.present THEN Agrees(Reconciled(idx, saved.done), saved)
                      ELSE sealed.gen # 0 /\ sealed.sha = sealed.gen
    /\ saved.public => identity = saved.publicKey

\* What a finished disc's files hold is never written again, and a finished
\* disc never stops being one (oneDisc's numbering, startFresh's refusal).
FinishedDiscsUntouched ==
  [][\A d \in Finished : enc'[d] = enc[d] /\ d \in Finished']_vars

\* A set with a finished disc is completed, as long as interruptions end, the
\* tree keeps still and somebody resumes it.
ResumedSetCompletes == saved # NoState ~> complete > 0

\* What a reader could see of the set: the discs that count, and, once it is
\* complete, its catalog.
Counted == IF complete > 0 THEN complete ELSE saved.done
Shown(d) == [kinds |-> enc[d].age.kinds, key |-> enc[d].age.key, room |-> enc[d].age.room]
Discs == [d \in 1 .. Counted |-> Shown(d)]
Listing == IF complete > 0 THEN sealed.rows ELSE {}

Archive == INSTANCE ArchiveSet WITH discs <- Discs, catalog <- Listing

\* The writer, its crashes and resumes included, implements ArchiveSet: the
\* save of the state is the step that adds a disc, the end of finish the one
\* that completes the set, and every other step of a run, and every run that
\* ends early, changes nothing the set's readers could see.
ImplementsArchiveSet == Archive!Spec

\* What the comment over oneDisc and README.md say of an interrupted run: that
\* the next one continues it.  Whenever no program runs and no set is complete,
\* either a resume or a plain backup is accepted by prepareState.
InterruptedRunCanContinue ==
  pc = "idle" /\ complete = 0 => saved # NoState \/ CanStartFresh
=============================================================================
