--------------------------- MODULE BackupSetProofs ---------------------------
(***************************************************************************)
(* Proofs about the set Backup writes: its discs agree on the kind of      *)
(* every path, open with one key and fit one medium, what an interruption  *)
(* leaves can be resumed, and a complete set is indexed.                   *)
(***************************************************************************)
EXTENDS BackupProofs, FiniteSetTheorems, SequenceTheorems

\* The steps at which the run has its key, and those of the end of the set.
Keyed == Loaded \ {"identity"}
Sealing == {"index", "indexSha", "layout", "finishIndex", "finishState"}

\* The key a state says the discs are encrypted to.
KeyOf(s) == IF s.public THEN [recipients |-> None, public |-> s.publicKey]
                        ELSE [recipients |-> s.recipients, public |-> 0]

\* A state has the kinds of everything but files on the discs it counts, and no
\* file that is on one is a directory or a link in its skeleton or is above another.
KindsRecorded(s) ==
  /\ \A d \in 1 .. s.done, p \in Path :
       enc[d].age.kinds[p] \in SkeletonKinds => s.skeleton[p] = enc[d].age.kinds[p]
  /\ \A p \in s.assigned : s.skeleton[p] = Absent /\ \A f \in s.assigned : p \notin Above[f]

\* While there is something to write: it is what the scan found, and it can
\* stand beside what the discs hold.
TreeInHand ==
  pc \in DiscStages \cup {"pack"} /\ todo # {} =>
    /\ todo \subseteq Files(tree) /\ skel = SkeletonOf(tree)
    /\ \A p \in Path : skel[p] # Absent => st.skeleton[p] = skel[p]
    /\ \A p \in todo : st.skeleton[p] = Absent /\ \A f \in st.assigned : p \notin Above[f]

\* The disc in hand holds something, and its image is what was packed.
BinInHand ==
  /\ pc \in DiscStages => bin # {}
  /\ pc \in Encrypted =>
       enc[disc].age.kinds = [p \in Path |-> IF p \in bin THEN FileKind ELSE skel[p]]

FinishedDiscsHoldFiles == \A d \in Finished : Held(d) # {}

KindsInv ==
  /\ KindsRecorded(saved) /\ (pc \in Loaded => KindsRecorded(st))
  /\ TreeInHand /\ BinInHand
  /\ FinishedDiscsHoldFiles /\ FinishedDiscsAgreeOnKinds

KeysRecorded(s) ==
  s.done > 0 =>
    /\ \A d \in 1 .. s.done : enc[d].age.key = KeyOf(s) /\ enc[d].age.room = s.room
    /\ s.public => s.publicKey # 0 /\ identity = s.publicKey
    /\ ~s.public => s.recipients # None

\* What the run has in memory is what its settings say.
SettingsInHand ==
  /\ pc \in Loaded => st.room = cfg.room
  /\ pc \in Loaded /\ ~cfg.public => ~st.public /\ st.recipients = cfg.recipients
  /\ pc = "identity" /\ st.done > 0 => st.public = cfg.public
  /\ pc \in Keyed =>
       /\ st.public = cfg.public /\ key = KeyOf(st)
       /\ st.public => st.publicKey # 0 /\ identity = st.publicKey

\* The image in hand is encrypted to that key and fits the medium.
ImageInHand ==
  /\ pc \in Encrypted \cup {"encrypt"} => Fits(bin)
  /\ pc \in Encrypted => enc[disc].age.key = key /\ enc[disc].age.room = cfg.room

SavedWithDiscs == saved.done = 0 => saved = NoState

KeysInv ==
  /\ SavedWithDiscs
  /\ KeysRecorded(saved) /\ (pc \in Loaded => KeysRecorded(st))
  /\ SettingsInHand /\ ImageInHand
  /\ OneKeyOneMedium

\* The plaintext index has every file of the first n discs, once.
IndexCovers(n) ==
  /\ \A d \in 1 .. n, p \in Path :
       p \in Held(d) <=> \E r \in idx.rows : r.disc = d /\ r.path = p
  /\ \A r, q \in idx.rows : r.disc <= n /\ r.disc = q.disc /\ r.path = q.path => r = q

\* The encrypted index names the files of the first n discs.
Catalog(n) == UNION {{d} \X Held(d) : d \in 1 .. n}
SealedFor(s) ==
  sealed.gen # 0 /\ sealed.key = KeyOf(s) /\ sealed.rows = Catalog(s.done)

\* The discs the state counts are in the index, plaintext or encrypted.
SavedIsIndexed ==
  saved.done > 0 =>
    IF idx.present THEN IndexCovers(saved.done)
                   ELSE SealedFor(saved) /\ sealed.sha = sealed.gen

\* A run that keeps an encrypted index writes no disc; one that does not has the
\* plaintext index of the discs before the one in hand, whose rows come last.
IndexInHand ==
  /\ pc \notin Loaded => ~indexBuilt
  /\ pc = "fresh" => idx = NoIndex
  /\ pc \in Loaded /\ indexBuilt =>
       ~idx.present /\ st.done > 0 /\ pc \notin DiscStages /\ (pc = "pack" => todo = {})
  /\ pc \in Loaded \ {"finishState"} /\ ~indexBuilt /\ st.done > 0 => idx.present
  /\ pc \in Loaded \ {"appending", "save"} /\ ~indexBuilt => \A r \in idx.rows : r.disc <= st.done
  /\ pc \in {"appending", "save"} =>
       idx.present /\ \A r \in idx.rows : r.disc <= st.done \/ r \in Rows(bin)
  /\ pc = "save" => Rows(bin) \subseteq idx.rows

\* From buildIndex on the encrypted index is that of the set.
SealInHand ==
  /\ pc \in Sealing => st.done > 0
  /\ pc \in Sealing \ {"index"} => SealedFor(st)
  /\ pc = "indexSha" => sealed.gen = gen /\ ~indexBuilt
  /\ pc \in {"layout", "finishIndex", "finishState"} => sealed.sha = sealed.gen

IndexInv ==
  /\ SavedIsIndexed /\ IndexInHand /\ SealInHand
  /\ CompleteSetIsIndexed

SetInv == SafetyInv /\ KindsInv /\ KeysInv /\ IndexInv

-----------------------------------------------------------------------------
(* Kinds.                                                                  *)

\* Only the save of the state and the end of finish change what is finished.
LEMMA SavedKept ==
  ASSUME SafetyInv, [Next]_vars, ~CommitDisc, ~FinishState
  PROVE  UNCHANGED <<saved, complete>>
<1>1. TypeInv'
  BY StepTypes DEF SafetyInv
<1>2. CASE (\E c \in Configs, r \in BOOLEAN : Start(c, r)) \/ ChangeTree \/ Stop \/ UNCHANGED vars
  BY <1>2, OutsideKeepsSafe
<1>3. CASE ToolFails
  BY <1>3, ProtectKeepsSafe
<1>4. CASE Run
  BY <1>1, <1>4, AsideKeepsSafe, ProtectKeepsSafe DEF Run, OneDisc
<1> QED
  BY <1>2, <1>3, <1>4 DEF Next

\* What is known of the kinds on the finished discs survives every other step.
LEMMA KindsKept ==
  ASSUME SafetyInv, KindsInv, UNCHANGED <<saved, complete>>, \A d \in Finished : enc'[d] = enc[d]
  PROVE  KindsRecorded(saved)' /\ FinishedDiscsHoldFiles' /\ FinishedDiscsAgreeOnKinds'
<1>1. Finished' = Finished
  BY DEF Finished
<1>2. 1 .. saved.done \subseteq Finished
  BY BoundsAssumption DEF SafetyInv, TypeInv, TypeOK, State, Finished, Disc
<1>3. \A d \in Finished : enc'[d] = enc[d] /\ Held(d)' = Held(d)
  BY DEF Held
<1>4. KindsRecorded(saved)'
  BY <1>2, <1>3 DEF KindsInv, KindsRecorded
<1>5. FinishedDiscsHoldFiles'
  BY <1>1, <1>3 DEF KindsInv, FinishedDiscsHoldFiles
<1>6. FinishedDiscsAgreeOnKinds'
  BY <1>1, <1>3 DEF KindsInv, FinishedDiscsAgreeOnKinds
<1> QED
  BY <1>4, <1>5, <1>6

\* What a run knows of the kinds on the discs and in its tree.
RunKinds == (pc \in Loaded => KindsRecorded(st)) /\ TreeInHand /\ BinInHand

\* A run that has ended, or has not looked at its state, knows nothing.
LEMMA NothingInHand ==
  ASSUME pc' \in {"idle", "prepare", "fresh"}
  PROVE  RunKinds'
BY DEF RunKinds, TreeInHand, BinInHand, Loaded, DiscStages, Encrypted

\* What was recorded of the discs stays true of them.
LEMMA RecordKept ==
  ASSUME SafetyInv, pc \in Loaded, KindsRecorded(st), st'.done = st.done,
         st'.assigned = st.assigned, st'.skeleton = st.skeleton,
         \A d \in Finished : enc'[d] = enc[d]
  PROVE  KindsRecorded(st)'
<1>1. 1 .. st.done \subseteq Finished
  BY NotFinishedYet DEF SafetyInv, MemoryAgrees
<1> QED
  BY <1>1 DEF KindsRecorded

\* Steps of a run from its state to the scan of the tree.
LEMMA PrepareKeepsKinds ==
  ASSUME SafetyInv, KindsInv, \A d \in Finished : enc'[d] = enc[d],
         ResumeSet \/ NewState \/ UseRecipients \/ MintIdentity \/ ReuseIdentity
  PROVE  RunKinds'
<1> USE DEF Goto, staging, memory, world
<1>1. pc' \in {"identity", "filter"}
  BY DEF ResumeSet, NewState, UseRecipients, MintIdentity, ReuseIdentity
<1>2. KindsRecorded(st)'
  <2>1. CASE ResumeSet
    BY <2>1 DEF ResumeSet, KindsInv, KindsRecorded
  <2>2. CASE NewState
    <3>1. st'.done = 0 /\ st'.assigned = {}
      BY <2>2 DEF NewState, NoState
    <3> QED
      BY <3>1 DEF KindsRecorded
  <2>3. CASE UseRecipients \/ MintIdentity \/ ReuseIdentity
    <3>1. st'.done = st.done /\ st'.assigned = st.assigned /\ st'.skeleton = st.skeleton
      BY <2>3 DEF UseRecipients, MintIdentity, ReuseIdentity, SafetyInv, TypeInv, TypeOK, State
    <3>2. pc \in Loaded
      BY <2>3 DEF UseRecipients, MintIdentity, ReuseIdentity, Loaded
    <3> QED
      BY <3>1, <3>2, RecordKept DEF KindsInv
  <2> QED
    BY <2>1, <2>2, <2>3
<1> QED
  BY <1>1, <1>2 DEF RunKinds, TreeInHand, BinInHand, Loaded, DiscStages, Encrypted

\* A skeleton laid over what is on the discs, where no kind has changed: it keeps
\* what it had, has nothing where there is a file on a disc or left to write, and
\* holds all the scan found.
LEMMA RecordedSkeleton ==
  ASSUME NEW s \in State, NEW t \in Trees, ChangedKinds(s, t) = {},
         \A p \in s.assigned : s.skeleton[p] = Absent /\ \A f \in s.assigned : p \notin Above[f]
  PROVE  LET new == RecordSkeleton(WrittenKinds(s), t) IN
           /\ \A p \in Path : s.skeleton[p] # Absent => new[p] = s.skeleton[p]
           /\ \A p \in s.assigned : new[p] = Absent
           /\ \A p \in Path : SkeletonOf(t)[p] # Absent => new[p] = SkeletonOf(t)[p]
           /\ \A p \in Pending(s, t) : new[p] = Absent /\ \A f \in s.assigned : p \notin Above[f]
<1> DEFINE was == WrittenKinds(s)
           new == RecordSkeleton(was, t)
           found == SkeletonOf(t)
<1>1. t \in Tree
  BY PathsAssumption
<1>2. s.skeleton \in Skeleton /\ s.assigned \subseteq Path /\ was \in Skeleton
  BY SkeletonTypes DEF State
<1>3. \A p \in Path : was[p] = IF s.skeleton[p] # Absent THEN s.skeleton[p]
                               ELSE IF \E f \in s.assigned : p \in Above[f] THEN "dir" ELSE Absent
  BY DEF WrittenKinds
<1>4. \A p \in Path : found[p] = IF t[p] = FileKind THEN Absent ELSE t[p]
  BY DEF SkeletonOf
<1>5. \A p \in Path : new[p] = IF found[p] # Absent THEN found[p] ELSE was[p]
  BY DEF RecordSkeleton
<1>6. \A p \in Path : t[p] # Absent => (p \in s.assigned => t[p] = FileKind) /\ was[p] \in {Absent, t[p]}
  BY DEF ChangedKinds
<1>7. \A p \in Path : was[p] # FileKind
  BY <1>2 DEF Skeleton, SkeletonKinds, FileKind, Absent
<1>8. \A p \in Pending(s, t) : p \in Path /\ t[p] = FileKind
  BY DEF Pending, Files
<1> HIDE DEF was, new, found
<1>9. \A p \in Path : s.skeleton[p] # Absent => new[p] = s.skeleton[p]
  BY <1>3, <1>4, <1>5, <1>6
<1>10. \A p \in s.assigned : new[p] = Absent
  BY <1>2, <1>3, <1>4, <1>5, <1>6
<1>11. \A p \in Path : found[p] # Absent => new[p] = found[p]
  BY <1>5
<1>12. \A p \in Pending(s, t) : new[p] = Absent /\ \A f \in s.assigned : p \notin Above[f]
  <2> SUFFICES ASSUME NEW p \in Pending(s, t)
               PROVE  new[p] = Absent /\ \A f \in s.assigned : p \notin Above[f]
    OBVIOUS
  <2>1. p \in Path /\ t[p] = FileKind /\ FileKind # Absent
    BY <1>8 DEF FileKind, Absent
  <2>2. was[p] = Absent
    BY <2>1, <1>6, <1>7
  <2>3. "dir" # Absent
    BY DEF Absent
  <2> QED
    BY <2>1, <2>2, <2>3, <1>3, <1>4, <1>5
<1> QED
  BY <1>9, <1>10, <1>11, <1>12 DEF was, new, found

\* The scan and the filter: what is left to write can stand beside the discs.
LEMMA FilterKeepsKinds ==
  ASSUME SafetyInv, KindsInv, \A d \in Finished : enc'[d] = enc[d], Filter
  PROVE  RunKinds'
<1> USE DEF Goto, staging, memory, world
<1>1. pc = "filter" /\ pc' = "pack" /\ tree' = tree /\ todo' = Pending(st, tree)
  BY DEF Filter
<1>2. pc \in Loaded /\ KindsRecorded(st) /\ st \in State /\ tree \in Trees
  BY <1>1 DEF Loaded, KindsInv, SafetyInv, TypeInv, TypeOK
<1>3. CASE Pending(st, tree) = {}
  <2>1. st' = st
    BY <1>3 DEF Filter
  <2>2. KindsRecorded(st)'
    BY <1>2, <2>1, RecordKept
  <2> QED
    BY <1>1, <1>3, <2>2 DEF RunKinds, TreeInHand, BinInHand, DiscStages, Encrypted
<1>4. CASE Pending(st, tree) # {}
  <2> DEFINE new == RecordSkeleton(WrittenKinds(st), tree)
  <2>1. ChangedKinds(st, tree) = {}
    BY <1>4 DEF Filter, CanFilter
  <2>2. st'.skeleton = new /\ st'.done = st.done /\ st'.assigned = st.assigned
    BY <1>2, <1>4 DEF Filter, State
  <2>3. skel' = SkeletonOf(tree)
    BY <2>1 DEF Filter, SkeletonOf
  <2>4. /\ \A p \in Path : st.skeleton[p] # Absent => new[p] = st.skeleton[p]
        /\ \A p \in st.assigned : new[p] = Absent
        /\ \A p \in Path : SkeletonOf(tree)[p] # Absent => new[p] = SkeletonOf(tree)[p]
        /\ \A p \in Pending(st, tree) : new[p] = Absent /\ \A f \in st.assigned : p \notin Above[f]
    <3>1. \A p \in st.assigned : st.skeleton[p] = Absent /\ \A f \in st.assigned : p \notin Above[f]
      BY <1>2 DEF KindsRecorded
    <3> QED
      BY <1>2, <2>1, <3>1, RecordedSkeleton
  <2> HIDE DEF new
  <2>5. KindsRecorded(st)'
    <3>1. 1 .. st.done \subseteq Finished
      BY <1>2, NotFinishedYet DEF SafetyInv, MemoryAgrees
    <3>2. Absent \notin SkeletonKinds
      BY DEF Absent, SkeletonKinds
    <3> QED
      BY <1>2, <2>2, <2>4, <3>1, <3>2 DEF KindsRecorded
  <2>6. Pending(st, tree) \subseteq Files(tree)
    BY DEF Pending
  <2>7. TreeInHand'
    BY <1>1, <2>2, <2>3, <2>4, <2>6 DEF TreeInHand, Files, SkeletonOf
  <2> QED
    BY <1>1, <2>5, <2>7 DEF RunKinds, BinInHand, DiscStages, Encrypted
<1> QED
  BY <1>3, <1>4

\* Steps that change neither what is left to write nor an image.
LEMMA QuietKeepsKinds ==
  ASSUME SafetyInv, KindsInv, UNCHANGED <<st, todo, skel, bin, tree>>,
         pc' = pc \/ pc \in Loaded,
         pc' \in Loaded => pc \in Loaded,
         pc' \in DiscStages \cup {"pack"} => pc \in DiscStages \cup {"pack"},
         pc' \in DiscStages => pc \in DiscStages,
         pc' \in Encrypted => pc \in Encrypted /\ enc'[disc].age = enc[disc].age,
         \A d \in Finished : enc'[d] = enc[d]
  PROVE  RunKinds'
<1>1. (pc \in Loaded => KindsRecorded(st))'
  <2>1. ASSUME pc' \in Loaded PROVE KindsRecorded(st)'
    BY <2>1, RecordKept DEF KindsInv
  <2> QED
    BY <2>1
<1>2. TreeInHand'
  BY DEF KindsInv, TreeInHand
<1>3. BinInHand'
  BY DEF KindsInv, BinInHand, disc
<1> QED
  BY <1>1, <1>2, <1>3 DEF RunKinds
\* The disc in hand is packed, and packed again; its image is what was packed.
LEMMA PackKeepsKinds ==
  ASSUME SafetyInv, KindsInv, \A d \in Finished : enc'[d] = enc[d],
         NextBin \/ Shrink \/ Encrypt
  PROVE  RunKinds'
<1> USE DEF Goto, staging, memory, world
<1>1. pc \in DiscStages \cup {"pack"} /\ pc' \in DiscStages /\ pc \in Loaded /\ pc' \in Loaded
  BY DEF NextBin, Shrink, Encrypt, DiscStages, Loaded
<1>2. UNCHANGED <<st, todo, skel, tree>>
  BY DEF NextBin, Shrink, Encrypt
<1>3. KindsRecorded(st)'
  BY <1>1, <1>2, RecordKept DEF KindsInv
<1>4. TreeInHand'
  BY <1>1, <1>2 DEF KindsInv, TreeInHand
<1>5. BinInHand'
  <2>1. CASE NextBin \/ Shrink
    BY <2>1 DEF NextBin, Shrink, SmallerBins, Bins, BinInHand, Encrypted
  <2>2. CASE Encrypt
    <3>1. disc \in Disc /\ enc \in [Disc -> Protected]
      BY <2>2, NotFinishedYet DEF Encrypt, Loaded, DiscStages, SafetyInv, TypeInv, TypeOK
    <3>2. enc'[disc].age.kinds = [p \in Path |-> IF p \in bin THEN FileKind ELSE skel[p]]
      BY <2>2, <3>1 DEF Encrypt, Protected
    <3>3. disc' = disc /\ bin' = bin /\ bin # {}
      BY <1>1, <1>2, <2>2 DEF Encrypt, disc, KindsInv, BinInHand, DiscStages
    <3> QED
      BY <1>2, <3>2, <3>3 DEF BinInHand
  <2> QED
    BY <2>1, <2>2
<1> QED
  BY <1>3, <1>4, <1>5 DEF RunKinds

\* A disc that comes to count agrees with the others on every kind.
LEMMA CommitKeepsKinds ==
  ASSUME SafetyInv, KindsInv, CommitDisc
  PROVE  KindsInv'
<1> USE DEF Goto, staging, memory, world
<1> DEFINE new == [p \in Path |-> IF p \in bin THEN FileKind ELSE skel[p]]
<1>1. pc = "save" /\ pc' = "pack" /\ pc \in Loaded /\ pc \in DiscStages /\ pc \in Encrypted
  BY DEF CommitDisc, Loaded, DiscStages, Encrypted
<1>2. /\ complete = 0 /\ saved.done \in 0 .. MaxDiscs /\ Finished = 1 .. saved.done
      /\ disc \in Disc \ Finished /\ st.done = saved.done /\ st.assigned = saved.assigned
  BY <1>1, NotFinishedYet DEF SafetyInv, MemoryAgrees
<1>3. /\ saved' = st' /\ st'.done = disc /\ st'.assigned = st.assigned \cup bin
      /\ st'.skeleton = st.skeleton
      /\ UNCHANGED <<complete, enc, skel, tree>> /\ todo' = todo \ bin
  BY DEF CommitDisc, SaveState, SafetyInv, TypeInv, TypeOK, State
<1>4. Finished' = Finished \cup {disc} /\ (1 .. st'.done) = Finished \cup {disc}
  BY <1>2, <1>3, BoundsAssumption DEF Finished, disc, Disc
<1>5. /\ bin # {} /\ bin \subseteq todo /\ todo \subseteq Files(tree) /\ skel = SkeletonOf(tree)
      /\ \A p \in Path : skel[p] # Absent => st.skeleton[p] = skel[p]
      /\ \A p \in todo : st.skeleton[p] = Absent /\ \A f \in st.assigned : p \notin Above[f]
  BY <1>1 DEF KindsInv, BinInHand, TreeInHand, SafetyInv, NothingTwice
<1>6. /\ enc[disc].age.kinds = new /\ Held(disc) = bin
  BY <1>1 DEF KindsInv, BinInHand, SafetyInv, NothingTwice
<1>7. /\ KindsRecorded(st) /\ tree \in Tree /\ skel \in Skeleton /\ st.assigned \subseteq Path
      /\ \A p \in Path : tree[p] # Absent => \A a \in Above[p] : tree[a] = "dir"
      /\ \A p \in Path : Above[p] \subseteq Path
  BY <1>1, PathsAssumption DEF KindsInv, SafetyInv, TypeInv, TypeOK, State
<1>8. FileKind \notin SkeletonKinds /\ Absent \notin SkeletonKinds /\ FileKind # Absent /\ FileKind # "dir"
      /\ "dir" # Absent
  BY DEF FileKind, SkeletonKinds, Absent
<1>9. \A p \in Files(tree) : p \in Path /\ tree[p] = FileKind
  BY DEF Files
<1>10. \A p \in Path : tree[p] = "dir" => skel[p] = "dir"
  BY <1>5, <1>8 DEF SkeletonOf
<1> HIDE DEF Finished
<1>11. \A d \in Finished \cup {disc}, p \in Path :
         enc[d].age.kinds[p] \in SkeletonKinds => st.skeleton[p] = enc[d].age.kinds[p]
  <2>1. \A d \in Finished, p \in Path :
          enc[d].age.kinds[p] \in SkeletonKinds => st.skeleton[p] = enc[d].age.kinds[p]
    BY <1>2, <1>7 DEF KindsRecorded
  <2>2. \A p \in Path : new[p] \in SkeletonKinds => st.skeleton[p] = new[p]
    BY <1>5, <1>8
  <2> QED
    BY <1>6, <2>1, <2>2
<1>12. \A p \in st'.assigned : st.skeleton[p] = Absent /\ \A f \in st'.assigned : p \notin Above[f]
  <2>1. \A p \in st.assigned : st.skeleton[p] = Absent /\ \A f \in st.assigned : p \notin Above[f]
    BY <1>7 DEF KindsRecorded
  <2>2. \A p \in bin : st.skeleton[p] = Absent /\ \A f \in st.assigned : p \notin Above[f]
    BY <1>5
  <2>3. \A f \in bin : \A p \in Above[f] : p \in Path /\ tree[p] = "dir"
    BY <1>5, <1>7, <1>8, <1>9
  <2>4. \A p \in st.assigned \cup bin : st.skeleton[p] # "dir"
    BY <1>8, <2>1, <2>2
  <2>5. \A f \in bin : \A p \in st.assigned \cup bin : p \notin Above[f]
    BY <1>5, <1>8, <1>10, <2>3, <2>4
  <2> QED
    BY <1>3, <2>1, <2>2, <2>5
<1>13. KindsRecorded(st)' /\ KindsRecorded(saved)'
  BY <1>3, <1>4, <1>11, <1>12 DEF KindsRecorded
<1>14. TreeInHand' /\ BinInHand'
  <2>1. \A p \in todo \ bin : \A f \in bin : p \notin Above[f]
    BY <1>5, <1>7, <1>8, <1>9
  <2>2. TreeInHand'
    BY <1>3, <1>5, <2>1 DEF TreeInHand, Files, SkeletonOf
  <2>3. BinInHand'
    BY <1>1 DEF BinInHand, DiscStages, Encrypted
  <2> QED
    BY <2>2, <2>3
<1>15. FinishedDiscsHoldFiles'
  BY <1>3, <1>4, <1>5, <1>6 DEF FinishedDiscsHoldFiles, KindsInv, Held
<1>16. FinishedDiscsAgreeOnKinds'
  <2>1. \A d \in Finished \cup {disc} : enc[d].age.kinds \in Tree
    BY <1>2 DEF Finished, SafetyInv, TypeInv, TypeOK, Protected, Image
  <2>2. \A d \in Finished \cup {disc}, p \in Path :
          enc[d].age.kinds[p] = FileKind => st.skeleton[p] = Absent
    <3>1. \A d \in Finished \cup {disc} : Held(d) \subseteq st'.assigned
      BY <1>2, <1>3, <1>6 DEF SafetyInv, EveryFileOnOneDisc
    <3>2. \A d \in Finished \cup {disc}, p \in Path :
            enc[d].age.kinds[p] = FileKind => p \in Held(d)
      BY DEF Held, Files
    <3> QED
      BY <1>12, <3>1, <3>2
  <2>3. \A d \in Finished \cup {disc}, p \in Path :
          enc[d].age.kinds[p] \in SkeletonKinds \cup {FileKind, Absent}
    BY <2>1 DEF Tree
  <2>4. \A d, e \in Finished \cup {disc}, p \in Path :
          Absent \in {enc[d].age.kinds[p], enc[e].age.kinds[p]}
            \/ enc[d].age.kinds[p] = enc[e].age.kinds[p]
    BY <1>8, <1>11, <2>2, <2>3
  <2> QED
    BY <1>3, <1>4, <2>4 DEF FinishedDiscsAgreeOnKinds
<1> QED
  BY <1>13, <1>14, <1>15, <1>16 DEF KindsInv

\* The discs of the state are those of the complete set.
LEMMA FinishKeepsKinds ==
  ASSUME SafetyInv, KindsInv, FinishState
  PROVE  KindsInv'
<1>1. /\ complete = 0 /\ saved.done \in 0 .. MaxDiscs /\ Finished = 1 .. saved.done
      /\ st.done = saved.done
  BY NotFinishedYet DEF FinishState, Loaded, SafetyInv, MemoryAgrees
<1>2. saved' = NoState /\ pc' = "idle" /\ enc' = enc /\ complete' = saved.done
  BY <1>1 DEF FinishState, ProcessGone
<1>3. Finished' = Finished
  BY <1>1, <1>2, BoundsAssumption DEF Finished, Disc, NoState
<1>4. KindsRecorded(saved)'
  BY <1>2 DEF KindsRecorded, NoState
<1>5. RunKinds'
  BY <1>2, NothingInHand
<1>6. FinishedDiscsHoldFiles' /\ FinishedDiscsAgreeOnKinds'
  BY <1>2, <1>3 DEF KindsInv, FinishedDiscsHoldFiles, FinishedDiscsAgreeOnKinds, Held
<1> QED
  BY <1>4, <1>5, <1>6 DEF KindsInv, RunKinds

\* One step of the system, whatever it is.
LEMMA StepKinds ==
  ASSUME SafetyInv, KindsInv, [Next]_vars
  PROVE  KindsInv'
<1> USE DEF Goto, staging, memory, world
<1>a. \A d \in Finished : enc'[d] = enc[d]
  BY StepSafe
<1>1. CASE CommitDisc
  BY <1>1, CommitKeepsKinds
<1>2. CASE FinishState
  BY <1>2, FinishKeepsKinds
<1>3. CASE ~CommitDisc /\ ~FinishState
  <2> SUFFICES RunKinds'
    BY <1>3, <1>a, SavedKept, KindsKept DEF KindsInv, RunKinds
  <2>1. CASE ResumeSet \/ NewState \/ UseRecipients \/ MintIdentity \/ ReuseIdentity
    BY <1>a, <2>1, PrepareKeepsKinds
  <2>2. CASE Filter
    BY <1>a, <2>2, FilterKeepsKinds
  <2>3. CASE NextBin \/ Shrink \/ Encrypt
    BY <1>a, <2>3, PackKeepsKinds
  <2>4. CASE \/ \E c \in Configs, r \in BOOLEAN : Start(c, r)
             \/ StartFresh \/ PrepareRefuses \/ ShrinkFails \/ RunRefuses \/ Stop \/ ToolFails
    <3>1. pc' \in {"idle", "prepare", "fresh"}
      BY <2>4 DEF Start, StartFresh, PrepareRefuses, ShrinkFails, RunRefuses, Stop, ToolFails,
                  ProcessGone
    <3> QED
      BY <3>1, NothingInHand
  <2>5. CASE ChangeTree
    <3>1. pc' = "idle"
      BY <2>5 DEF ChangeTree
    <3> QED
      BY <3>1, NothingInHand
  <2>6. CASE UNCHANGED vars
    <3>1. pc' = pc /\ UNCHANGED <<st, todo, skel, bin, tree, enc>>
      BY <2>6 DEF vars
    <3> QED
      BY <1>a, <3>1, QuietKeepsKinds
  <2>7. CASE \/ BeginImage \/ FinishImage \/ KeepBin \/ DropImage \/ AppendRows \/ FinishRows
    <3>1. UNCHANGED <<st, todo, skel, bin, tree, enc>>
      BY <2>7 DEF BeginImage, FinishImage, KeepBin, DropImage, AppendRows, FinishRows
    <3>2. /\ pc \in DiscStages /\ pc' \in DiscStages /\ pc \in Loaded
          /\ pc' \in Encrypted => pc \in Encrypted
      BY <2>7 DEF BeginImage, FinishImage, KeepBin, DropImage, AppendRows, FinishRows,
                  DiscStages, Encrypted, Loaded
    <3> QED
      BY <1>a, <3>1, <3>2, QuietKeepsKinds
  <2>8. CASE \/ WritePlainSum \/ WriteCipherSum \/ SweepParity \/ BeginParity \/ FinishParity
    <3>1. UNCHANGED <<st, todo, skel, bin, tree>>
      BY <2>8 DEF WritePlainSum, WriteCipherSum, SweepParity, BeginParity, FinishParity
    <3>2. pc \in DiscStages /\ pc \in Loaded /\ pc \in Encrypted
      BY <2>8 DEF WritePlainSum, WriteCipherSum, SweepParity, BeginParity, FinishParity,
                  DiscStages, Encrypted, Loaded
    <3>3. disc \in Disc /\ enc \in [Disc -> Protected]
      BY <3>2, NotFinishedYet DEF SafetyInv, TypeInv, TypeOK
    <3>4. enc'[disc].age = enc[disc].age
      BY <2>8, <3>3 DEF WritePlainSum, WriteCipherSum, SweepParity, BeginParity, FinishParity,
                        Protected
    <3> QED
      BY <1>a, <3>1, <3>2, <3>4, QuietKeepsKinds
  <2>9. CASE AllPacked \/ KeepIndex \/ SealIndex \/ WriteIndexSum \/ LayOut \/ FinishIndex
    <3>1. UNCHANGED <<st, todo, skel, bin, tree>>
      BY <2>9 DEF AllPacked, KeepIndex, SealIndex, WriteIndexSum, LayOut, FinishIndex
    <3>2. pc \in Loaded /\ pc' \notin DiscStages \cup {"pack"} /\ pc' \notin Encrypted
      BY <2>9 DEF AllPacked, KeepIndex, SealIndex, WriteIndexSum, LayOut, FinishIndex,
                  DiscStages, Encrypted, Loaded
    <3> QED
      BY <1>a, <3>1, <3>2, QuietKeepsKinds
  <2> QED
    BY <1>3, <2>1, <2>2, <2>3, <2>4, <2>5, <2>6, <2>7, <2>8, <2>9 DEF Next, Run, OneDisc
<1> QED
  BY <1>1, <1>2, <1>3

\* Nothing is finished before the first run.
LEMMA InitKinds == Init => KindsInv
<1> SUFFICES ASSUME Init PROVE KindsInv
  OBVIOUS
<1>1. Finished = {} /\ saved.done = 0 /\ saved.assigned = {} /\ pc = "idle"
  BY BoundsAssumption DEF Init, Finished, Disc, NoState
<1>2. KindsRecorded(saved)
  BY <1>1 DEF KindsRecorded
<1> QED
  BY <1>1, <1>2 DEF KindsInv, TreeInHand, BinInHand, FinishedDiscsHoldFiles,
                    FinishedDiscsAgreeOnKinds, Loaded, DiscStages, Encrypted

-----------------------------------------------------------------------------
(* Keys and media.                                                         *)

\* The secret key is replaced only while there is no disc it opens.
LEMMA IdentityKept ==
  ASSUME SafetyInv, [Next]_vars, identity' # identity
  PROVE  saved.done = 0 /\ Finished = {}
<1> USE DEF staging, memory, world
<1>1. NewState \/ MintIdentity
  BY DEF vars, Next, Run, OneDisc, Start, ChangeTree, Stop, ToolFails, ResumeSet, StartFresh,
         PrepareRefuses, UseRecipients, ReuseIdentity, Filter, NextBin, BeginImage, FinishImage,
         KeepBin, Shrink, ShrinkFails, Encrypt, WritePlainSum, WriteCipherSum, SweepParity,
         BeginParity, FinishParity, DropImage, AppendRows, FinishRows, CommitDisc, AllPacked,
         KeepIndex, SealIndex, WriteIndexSum, LayOut, FinishIndex, FinishState, RunRefuses
<1>2. pc \in Loaded \cup {"fresh"} /\ saved.done = 0
  BY <1>1 DEF NewState, MintIdentity, Loaded, SafetyInv, MemoryAgrees, NoState
<1> QED
  BY <1>2, NotFinishedYet

\* What is known of the keys of the finished discs survives all but the save and
\* the end of finish.
LEMMA KeysKept ==
  ASSUME SafetyInv, KeysInv, UNCHANGED <<saved, complete>>, \A d \in Finished : enc'[d] = enc[d],
         identity' = identity \/ (saved.done = 0 /\ Finished = {})
  PROVE  SavedWithDiscs' /\ KeysRecorded(saved)' /\ OneKeyOneMedium'
<1>1. Finished' = Finished
  BY DEF Finished
<1>2. 1 .. saved.done \subseteq Finished
  BY BoundsAssumption DEF SafetyInv, TypeInv, TypeOK, State, Finished, Disc
<1>3. \A d \in Finished : enc'[d] = enc[d] /\ Held(d)' = Held(d) /\ 1 \in Finished
  BY BoundsAssumption DEF Held, Finished, Disc, SafetyInv, TypeInv, TypeOK, State
<1>4. KeysRecorded(saved)'
  BY <1>2, <1>3 DEF KeysInv, KeysRecorded, KeyOf
<1>5. OneKeyOneMedium'
  BY <1>1, <1>3 DEF KeysInv, OneKeyOneMedium
<1> QED
  BY <1>4, <1>5 DEF KeysInv, SavedWithDiscs

\* What a run knows of the key and the medium.
RunKeys == (pc \in Loaded => KeysRecorded(st)) /\ SettingsInHand /\ ImageInHand

LEMMA NothingKeyed ==
  ASSUME pc' \in {"idle", "prepare", "fresh"}
  PROVE  RunKeys'
BY DEF RunKeys, SettingsInHand, ImageInHand, Keyed, Loaded, DiscStages, Encrypted

\* A run takes its settings over from the state, or gives them to a new one, and
\* has its key from there on.
LEMMA PrepareKeepsKeys ==
  ASSUME SafetyInv, KeysInv, enc' = enc,
         ResumeSet \/ NewState \/ UseRecipients \/ MintIdentity \/ ReuseIdentity
  PROVE  RunKeys'
<1> USE DEF Goto, staging, memory, world
<1>1. /\ pc' \in {"identity", "filter"} /\ cfg' = cfg /\ cfg \in Config /\ pc # "filter"
  BY SettingsAssumption DEF ResumeSet, NewState, UseRecipients, MintIdentity, ReuseIdentity,
                            SafetyInv, TypeInv, TypeOK
<1>2. ImageInHand'
  BY <1>1 DEF ImageInHand, Encrypted
<1>3. st \in State /\ saved \in State
  BY DEF SafetyInv, TypeInv, TypeOK
<1>4. CASE ResumeSet
  <2>1. st' = saved /\ pc' = "identity" /\ identity' = identity
    BY <1>4 DEF ResumeSet
  <2>2. saved.done > 0
    BY <1>3, <1>4 DEF ResumeSet, CanResume, KeysInv, SavedWithDiscs, State
  <2>3. /\ saved.room = cfg.room /\ saved.public = cfg.public
        /\ saved.recipients \in {None, cfg.recipients}
    BY <1>4 DEF ResumeSet, CanResume, SameSettings, SameMode, SameRecipients, SameGeometry
  <2>4. KeysRecorded(saved)
    BY DEF KeysInv
  <2>5. KeysRecorded(st)'
    BY <2>1, <2>4 DEF KeysRecorded, KeyOf
  <2>6. SettingsInHand'
    BY <1>1, <2>1, <2>2, <2>3, <2>4 DEF SettingsInHand, KeysRecorded, Keyed
  <2> QED
    BY <1>2, <2>5, <2>6 DEF RunKeys
<1>5. CASE NewState
  <2>1. /\ st'.done = 0 /\ st'.room = cfg.room /\ st'.public = FALSE /\ pc' = "identity"
        /\ st'.recipients = IF cfg.public THEN None ELSE cfg.recipients
    BY <1>5 DEF NewState, NoState
  <2> QED
    BY <1>1, <1>2, <2>1 DEF RunKeys, KeysRecorded, SettingsInHand, Keyed
<1>6. CASE UseRecipients \/ MintIdentity \/ ReuseIdentity
  <2>1. pc = "identity" /\ pc' = "filter" /\ pc \in Loaded
    BY <1>6 DEF UseRecipients, MintIdentity, ReuseIdentity, Loaded
  <2>2. /\ KeysRecorded(st) /\ st.room = cfg.room
        /\ ~cfg.public => ~st.public /\ st.recipients = cfg.recipients
        /\ st.done > 0 => st.public = cfg.public
    BY <2>1 DEF KeysInv, SettingsInHand
  <2>3. CASE UseRecipients
    <3>1. /\ st' = st /\ ~cfg.public /\ identity' = identity
          /\ key' = [recipients |-> cfg.recipients, public |-> 0]
      BY <2>3 DEF UseRecipients
    <3>2. KeyOf(st)' = key'
      BY <2>2, <3>1 DEF KeyOf
    <3>3. st.public = FALSE /\ cfg.public = FALSE
      BY <1>1, <1>3, <2>2, <3>1 DEF State, Config
    <3>4. KeysRecorded(st)'
      BY <2>2, <3>1 DEF KeysRecorded, KeyOf
    <3> QED
      BY <1>1, <1>2, <2>1, <2>2, <3>1, <3>2, <3>3, <3>4 DEF RunKeys, SettingsInHand
  <2>4. CASE MintIdentity
    <3>1. /\ st'.public = TRUE /\ st'.publicKey = gen /\ st'.room = st.room /\ st'.done = 0
          /\ cfg.public /\ identity' = gen /\ key' = [recipients |-> None, public |-> gen]
          /\ gen # 0
      BY <1>3, <2>4, BoundsAssumption DEF MintIdentity, State, gen, SafetyInv, TypeInv, TypeOK
    <3>2. cfg.public = TRUE
      BY <1>1, <3>1 DEF Config
    <3>3. KeyOf(st)' = key'
      BY <3>1 DEF KeyOf
    <3>4. KeysRecorded(st)'
      BY <3>1 DEF KeysRecorded
    <3>5. SettingsInHand'
      BY <1>1, <2>1, <2>2, <3>1, <3>2, <3>3 DEF SettingsInHand
    <3> QED
      BY <1>2, <3>4, <3>5 DEF RunKeys
  <2>5. CASE ReuseIdentity
    <3>1. /\ st' = st /\ cfg.public /\ identity' = identity /\ identity # 0
          /\ identity = st.publicKey /\ key' = [recipients |-> None, public |-> identity]
          /\ st.done > 0
      BY <2>5 DEF ReuseIdentity, CanUseIdentity
    <3>2. st.public /\ KeyOf(st)' = key'
      BY <2>2, <3>1 DEF KeyOf
    <3>3. KeysRecorded(st)'
      BY <2>2, <3>1 DEF KeysRecorded, KeyOf
    <3> QED
      BY <1>1, <1>2, <2>1, <2>2, <3>1, <3>2, <3>3 DEF RunKeys, SettingsInHand
  <2> QED
    BY <1>6, <2>3, <2>4, <2>5
<1> QED
  BY <1>4, <1>5, <1>6

\* Steps of a run that has its key and keeps the set's settings.
LEMMA KeyedStep ==
  ASSUME SafetyInv, KeysInv, pc \in Keyed, \A d \in Finished : enc'[d] = enc[d],
         UNCHANGED <<cfg, key, identity>>, pc' # "identity",
         UNCHANGED <<st.done, st.public, st.publicKey, st.recipients, st.room>>,
         ImageInHand'
  PROVE  RunKeys'
<1>1. pc \in Loaded /\ KeysRecorded(st) /\ SettingsInHand
  BY DEF Keyed, KeysInv
<1>2. 1 .. st.done \subseteq Finished
  BY <1>1, NotFinishedYet DEF SafetyInv, MemoryAgrees
<1>3. KeyOf(st)' = KeyOf(st)
  BY DEF KeyOf
<1>4. KeysRecorded(st)'
  BY <1>1, <1>2, <1>3 DEF KeysRecorded
<1>5. SettingsInHand'
  BY <1>1, <1>3 DEF SettingsInHand
<1> QED
  BY <1>4, <1>5 DEF RunKeys

\* Those of them that neither pack, encrypt nor save.
LEMMA QuietKeepsKeys ==
  ASSUME SafetyInv, KeysInv, pc \in Keyed, pc' # "identity", \A d \in Finished : enc'[d] = enc[d],
         UNCHANGED <<cfg, key, identity, stops>>, UNCHANGED st,
         pc' \in Encrypted => pc \in Encrypted /\ enc'[disc].age = enc[disc].age,
         pc' \in Encrypted \cup {"encrypt"} =>
           bin' = bin /\ (pc \in Encrypted \cup {"encrypt"} \/ Fits(bin))
  PROVE  RunKeys'
<1>1. ImageInHand'
  BY DEF KeysInv, ImageInHand, Fits, disc
<1> QED
  BY <1>1, KeyedStep

\* The image that is encrypted fits, and it is encrypted to the run's key.
LEMMA EncryptKeepsKeys ==
  ASSUME SafetyInv, KeysInv, Encrypt, \A d \in Finished : enc'[d] = enc[d]
  PROVE  RunKeys'
<1> USE DEF Goto, staging, memory, world
<1>1. pc = "encrypt" /\ pc' = "sha" /\ pc \in Keyed
  BY DEF Encrypt, Keyed, Loaded, DiscStages
<1>2. disc \in Disc /\ enc \in [Disc -> Protected]
  BY NotFinishedYet DEF Encrypt, Loaded, DiscStages, SafetyInv, TypeInv, TypeOK
<1>3. enc'[disc].age.key = key /\ enc'[disc].age.room = cfg.room
  BY <1>2 DEF Encrypt, Protected
<1>4. UNCHANGED <<st, cfg, key, identity, bin, stops>>
  BY DEF Encrypt
<1>5. Fits(bin)
  BY <1>1 DEF KeysInv, ImageInHand
<1>6. ImageInHand'
  BY <1>3, <1>4, <1>5 DEF ImageInHand, Fits, disc
<1> QED
  BY <1>1, <1>4, <1>6, KeyedStep

\* A disc that comes to count is encrypted to the key of the set.
LEMMA CommitKeepsKeys ==
  ASSUME SafetyInv, KeysInv, CommitDisc
  PROVE  KeysInv'
<1> USE DEF Goto, staging, memory, world
<1>1. pc = "save" /\ pc' = "pack" /\ pc \in Loaded /\ pc \in Keyed /\ pc \in Encrypted
  BY DEF CommitDisc, Keyed, Loaded, DiscStages, Encrypted
<1>2. /\ complete = 0 /\ saved.done \in 0 .. MaxDiscs /\ Finished = 1 .. saved.done
      /\ disc \in Disc \ Finished /\ st.done = saved.done
  BY <1>1, NotFinishedYet DEF SafetyInv, MemoryAgrees, Loaded, DiscStages
<1>3. /\ saved' = st' /\ st'.done = disc /\ UNCHANGED <<complete, enc, identity, key, cfg>>
      /\ UNCHANGED <<st.public, st.publicKey, st.recipients, st.room>>
  BY DEF CommitDisc, SaveState, SafetyInv, TypeInv, TypeOK, State
<1>4. Finished' = Finished \cup {disc} /\ (1 .. st'.done) = Finished \cup {disc} /\ disc > 0
  BY <1>2, <1>3, BoundsAssumption DEF Finished, disc, Disc
<1>5. /\ st.room = cfg.room /\ st.public = cfg.public /\ key = KeyOf(st)
      /\ st.public => st.publicKey # 0 /\ identity = st.publicKey
      /\ ~cfg.public => st.recipients = cfg.recipients
      /\ cfg \in Config
  BY <1>1, SettingsAssumption DEF KeysInv, SettingsInHand, SafetyInv, TypeInv, TypeOK
<1>6. enc[disc].age.key = key /\ enc[disc].age.room = cfg.room /\ Fits(bin) /\ Held(disc) = bin
  BY <1>1 DEF KeysInv, ImageInHand, SafetyInv, NothingTwice
<1>7. \A d \in Finished : enc[d].age.key = KeyOf(st) /\ enc[d].age.room = st.room
  BY <1>1, <1>2 DEF KeysInv, KeysRecorded
<1>8. KeyOf(st') = KeyOf(st)
  BY <1>3 DEF KeyOf
<1>9. \A d \in Finished \cup {disc} : enc[d].age.key = KeyOf(st') /\ enc[d].age.room = st'.room
  BY <1>3, <1>5, <1>6, <1>7, <1>8
<1>10. ~st.public => st.recipients # None
  BY <1>5, SettingsAssumption DEF Config
<1>11. st'.public => st'.publicKey # 0 /\ identity' = st'.publicKey
  BY <1>3, <1>5
<1>12. KeysRecorded(st)' /\ KeysRecorded(saved)'
  <2>1. KeyOf(st)' = KeyOf(st') /\ KeyOf(saved)' = KeyOf(st')
    BY <1>3 DEF KeyOf
  <2> QED
    BY <1>3, <1>4, <1>9, <1>10, <1>11, <2>1 DEF KeysRecorded
<1>13. SavedWithDiscs'
  BY <1>3, <1>4 DEF SavedWithDiscs
<1>14. SettingsInHand' /\ ImageInHand'
  <2>1. KeyOf(st)' = KeyOf(st)
    BY <1>8 DEF KeyOf
  <2>2. SettingsInHand'
    BY <1>1, <1>3, <1>5, <2>1 DEF SettingsInHand
  <2> QED
    BY <1>1, <2>2 DEF ImageInHand, Encrypted
<1>15. OneKeyOneMedium'
  <2>1. \A d \in Finished \cup {disc} :
          enc[d].age.key = enc[1].age.key /\ enc[d].age.room = enc[1].age.room
    <3>1. 1 \in Finished \cup {disc}
      BY <1>2 DEF disc
    <3> QED
      BY <1>9, <3>1
  <2>2. \A d \in Finished \cup {disc} : Cardinality(Held(d)) <= enc[d].age.room
    BY <1>6 DEF KeysInv, OneKeyOneMedium, Fits
  <2>3. \A d \in Finished \cup {disc} : enc[d].age.key.public # 0 => identity' = enc[d].age.key.public
    <3>1. KeyOf(st').public # 0 => identity' = KeyOf(st').public
      BY <1>11 DEF KeyOf
    <3> QED
      BY <1>9, <3>1
  <2>4. \A d \in Finished' : Held(d)' = Held(d) /\ enc'[d] = enc[d]
    BY <1>3 DEF Held
  <2>5. enc' = enc
    BY <1>3
  <2> QED
    BY <1>4, <2>1, <2>2, <2>3, <2>4, <2>5 DEF OneKeyOneMedium
<1> QED
  BY <1>12, <1>13, <1>14, <1>15 DEF KeysInv

\* The discs of the state are those of the complete set.
LEMMA FinishKeepsKeys ==
  ASSUME SafetyInv, KeysInv, FinishState
  PROVE  KeysInv'
<1>1. /\ complete = 0 /\ saved.done \in 0 .. MaxDiscs /\ Finished = 1 .. saved.done
      /\ st.done = saved.done
  BY NotFinishedYet DEF FinishState, Loaded, SafetyInv, MemoryAgrees
<1>2. /\ saved' = NoState /\ pc' = "idle" /\ enc' = enc /\ complete' = saved.done
      /\ identity' = identity
  BY <1>1 DEF FinishState, ProcessGone
<1>3. Finished' = Finished
  BY <1>1, <1>2, BoundsAssumption DEF Finished, Disc, NoState
<1>4. KeysRecorded(saved)' /\ SavedWithDiscs'
  BY <1>2 DEF KeysRecorded, SavedWithDiscs, NoState
<1>5. RunKeys'
  BY <1>2, NothingKeyed
<1>6. OneKeyOneMedium'
  BY <1>2, <1>3 DEF KeysInv, OneKeyOneMedium, Held
<1> QED
  BY <1>4, <1>5, <1>6 DEF KeysInv, RunKeys

\* One step of the system, whatever it is.
LEMMA StepKeys ==
  ASSUME SafetyInv, KeysInv, [Next]_vars
  PROVE  KeysInv'
<1> USE DEF Goto, staging, memory, world
<1>a. \A d \in Finished : enc'[d] = enc[d]
  BY StepSafe
<1>1. CASE CommitDisc
  BY <1>1, CommitKeepsKeys
<1>2. CASE FinishState
  BY <1>2, FinishKeepsKeys
<1>3. CASE ~CommitDisc /\ ~FinishState
  <2> SUFFICES RunKeys'
    BY <1>3, <1>a, SavedKept, IdentityKept, KeysKept DEF KeysInv, RunKeys
  <2>1. CASE ResumeSet \/ NewState \/ UseRecipients \/ MintIdentity \/ ReuseIdentity
    <3>1. enc' = enc
      BY <2>1 DEF ResumeSet, NewState, UseRecipients, MintIdentity, ReuseIdentity
    <3> QED
      BY <2>1, <3>1, PrepareKeepsKeys
  <2>2. CASE Filter
    <3>1. /\ pc \in Keyed /\ pc' = "pack" /\ UNCHANGED <<cfg, key, identity>>
      BY <2>2 DEF Filter, Keyed, Loaded
    <3>2. UNCHANGED <<st.done, st.public, st.publicKey, st.recipients, st.room>>
      BY <2>2 DEF Filter, SafetyInv, TypeInv, TypeOK, State
    <3>3. ImageInHand'
      BY <3>1 DEF ImageInHand, Encrypted
    <3> QED
      BY <1>a, <3>1, <3>2, <3>3, KeyedStep
  <2>3. CASE Encrypt
    BY <1>a, <2>3, EncryptKeepsKeys
  <2>4. CASE \/ \E c \in Configs, r \in BOOLEAN : Start(c, r)
             \/ StartFresh \/ PrepareRefuses \/ ShrinkFails \/ RunRefuses \/ Stop \/ ToolFails
             \/ ChangeTree
    <3>1. pc' \in {"idle", "prepare", "fresh"}
      BY <2>4 DEF Start, StartFresh, PrepareRefuses, ShrinkFails, RunRefuses, Stop, ToolFails,
                  ProcessGone, ChangeTree
    <3> QED
      BY <3>1, NothingKeyed
  <2>5. CASE UNCHANGED vars
    <3>1. UNCHANGED <<pc, cfg, key, identity, stops, st, bin, enc>>
      BY <2>5 DEF vars
    <3>2. UNCHANGED <<KeyOf(st), disc>>
      BY <3>1 DEF KeyOf, disc
    <3> QED
      BY <3>1, <3>2 DEF KeysInv, RunKeys, KeysRecorded, SettingsInHand, ImageInHand, Fits
  <2>6. CASE \/ NextBin \/ BeginImage \/ FinishImage \/ KeepBin \/ Shrink
             \/ DropImage \/ AppendRows \/ FinishRows
    <3>1. UNCHANGED <<st, cfg, key, identity, stops, enc>>
      BY <2>6 DEF NextBin, BeginImage, FinishImage, KeepBin, Shrink, DropImage, AppendRows,
                  FinishRows
    <3>2. /\ pc \in Keyed /\ pc' # "identity"
          /\ pc' \in Encrypted => pc \in Encrypted
          /\ pc' \in Encrypted \cup {"encrypt"} =>
               bin' = bin /\ (pc \in Encrypted \cup {"encrypt"} \/ Fits(bin))
      BY <2>6 DEF NextBin, BeginImage, FinishImage, KeepBin, Shrink, DropImage, AppendRows,
                  FinishRows, Keyed, Loaded, DiscStages, Encrypted
    <3> QED
      BY <1>a, <3>1, <3>2, QuietKeepsKeys
  <2>7. CASE \/ WritePlainSum \/ WriteCipherSum \/ SweepParity \/ BeginParity \/ FinishParity
    <3>1. UNCHANGED <<st, cfg, key, identity, stops, bin>>
      BY <2>7 DEF WritePlainSum, WriteCipherSum, SweepParity, BeginParity, FinishParity
    <3>2. pc \in Encrypted /\ pc \in Keyed /\ pc' # "identity" /\ pc \in Loaded /\ pc \in DiscStages
      BY <2>7 DEF WritePlainSum, WriteCipherSum, SweepParity, BeginParity, FinishParity,
                  Keyed, Loaded, DiscStages, Encrypted
    <3>3. disc \in Disc /\ enc \in [Disc -> Protected]
      BY <3>2, NotFinishedYet DEF SafetyInv, TypeInv, TypeOK
    <3>4. enc'[disc].age = enc[disc].age
      BY <2>7, <3>3 DEF WritePlainSum, WriteCipherSum, SweepParity, BeginParity, FinishParity,
                        Protected
    <3> QED
      BY <1>a, <3>1, <3>2, <3>4, QuietKeepsKeys
  <2>8. CASE AllPacked \/ KeepIndex \/ SealIndex \/ WriteIndexSum \/ LayOut \/ FinishIndex
    <3>1. UNCHANGED <<st, cfg, key, identity, stops>>
      BY <2>8 DEF AllPacked, KeepIndex, SealIndex, WriteIndexSum, LayOut, FinishIndex
    <3>2. pc \in Keyed /\ pc' # "identity" /\ pc' \notin Encrypted \cup {"encrypt"}
      BY <2>8 DEF AllPacked, KeepIndex, SealIndex, WriteIndexSum, LayOut, FinishIndex,
                  Keyed, Loaded, DiscStages, Encrypted
    <3> QED
      BY <1>a, <3>1, <3>2, QuietKeepsKeys
  <2> QED
    BY <1>3, <2>1, <2>2, <2>3, <2>4, <2>5, <2>6, <2>7, <2>8 DEF Next, Run, OneDisc
<1> QED
  BY <1>1, <1>2, <1>3

LEMMA InitKeys == Init => KeysInv
<1> SUFFICES ASSUME Init PROVE KeysInv
  OBVIOUS
<1>1. Finished = {} /\ saved = NoState /\ saved.done = 0 /\ pc = "idle"
  BY BoundsAssumption DEF Init, Finished, Disc, NoState
<1> QED
  BY <1>1 DEF KeysInv, SavedWithDiscs, KeysRecorded, SettingsInHand, ImageInHand, OneKeyOneMedium,
              Keyed, Loaded, DiscStages, Encrypted

-----------------------------------------------------------------------------
(* The index.                                                              *)

\* A run and the state name one key, once a disc is encrypted to it.
LEMMA OneKey ==
  ASSUME SafetyInv, KeysInv, pc \in Loaded, st.done > 0
  PROVE  /\ KeyOf(st) = KeyOf(saved) /\ KeyOf(st) = enc[1].age.key
         /\ st.done = saved.done /\ saved.done > 0
<1>1. st.done = saved.done /\ st.done \in Nat
  BY NotFinishedYet DEF SafetyInv, MemoryAgrees
<1>2. 1 \in 1 .. st.done /\ 1 \in 1 .. saved.done
  BY <1>1
<1> QED
  BY <1>1, <1>2 DEF KeysInv, KeysRecorded

\* Rows of discs that do not count yet may come and go.
LEMMA RowsKept ==
  ASSUME SafetyInv, NEW n, n = saved.done, UNCHANGED <<saved, complete>>,
         \A d \in Finished : enc'[d] = enc[d], IndexCovers(n),
         idx \in Index, idx' \in Index,
         \A r \in Row : r.disc <= n => (r \in idx'.rows <=> r \in idx.rows)
  PROVE  IndexCovers(n)'
<1>1. 1 .. n \subseteq Finished
  BY BoundsAssumption DEF SafetyInv, TypeInv, TypeOK, State, Finished, Disc
<1>2. \A d \in 1 .. n : Held(d)' = Held(d)
  BY <1>1 DEF Held
<1>3. \A r : r \in idx.rows \/ r \in idx'.rows => r \in Row
  BY DEF Index
<1>4. \A d \in 1 .. n, p \in Path : p \in Held(d)' <=> \E r \in idx'.rows : r.disc = d /\ r.path = p
  <2>1. \A d \in 1 .. n : d <= n
    OBVIOUS
  <2> QED
    BY <1>2, <1>3, <2>1 DEF IndexCovers
<1>5. \A r, q \in idx'.rows : r.disc <= n /\ r.disc = q.disc /\ r.path = q.path => r = q
  BY <1>3 DEF IndexCovers
<1> QED
  BY <1>4, <1>5 DEF IndexCovers

\* What the encrypted index says stays true while the finished discs stay.
LEMMA SealKept ==
  ASSUME SafetyInv, UNCHANGED <<saved, complete, sealed>>, \A d \in Finished : enc'[d] = enc[d]
  PROVE  /\ Catalog(saved.done)' = Catalog(saved.done)
         /\ KeyOf(saved)' = KeyOf(saved)
         /\ SealedFor(saved) => SealedFor(saved)'
         /\ CompleteSetIsIndexed => CompleteSetIsIndexed'
<1>1. saved.done \in 0 .. MaxDiscs /\ complete \in 0 .. MaxDiscs
  BY DEF SafetyInv, TypeInv, TypeOK, State
<1>2. 1 .. saved.done \subseteq Finished /\ 1 .. complete \subseteq Finished
  BY <1>1, BoundsAssumption DEF Finished, Disc
<1>3. \A d \in Finished : Held(d)' = Held(d)
  BY DEF Held
<1>4. Catalog(saved.done)' = Catalog(saved.done)
  BY <1>2, <1>3 DEF Catalog
<1>5. KeyOf(saved)' = KeyOf(saved)
  BY DEF KeyOf
<1>6. SealedFor(saved) => SealedFor(saved)'
  BY <1>4, <1>5 DEF SealedFor
<1>7. ASSUME CompleteSetIsIndexed PROVE CompleteSetIsIndexed'
  <2>1. complete > 0 => 1 \in Finished
    BY <1>1, <1>2
  <2>2. UNION {{d} \X Held(d)' : d \in 1 .. complete} = UNION {{d} \X Held(d) : d \in 1 .. complete}
    BY <1>2, <1>3
  <2> QED
    BY <1>7, <2>1, <2>2 DEF CompleteSetIsIndexed
<1> QED
  BY <1>4, <1>5, <1>6, <1>7

\* What a run knows of the index.
RunIndex == IndexInHand /\ SealInHand

LEMMA NothingIndexed ==
  ASSUME pc' \in {"idle", "prepare", "fresh"}, ~indexBuilt', pc' = "fresh" => idx' = NoIndex
  PROVE  RunIndex'
BY DEF RunIndex, IndexInHand, SealInHand, Sealing, Loaded, DiscStages

\* A resume, a refused one too, drops the rows of the discs that do not count.
LEMMA PrepareKeepsIndex ==
  ASSUME SafetyInv, KeysInv, IndexInv, TypeInv', UNCHANGED <<saved, complete>>, enc' = enc,
         ResumeSet \/ StartFresh \/ NewState \/ PrepareRefuses
  PROVE  SavedIsIndexed' /\ RunIndex'
<1> USE DEF Goto, staging, memory, world
<1>0. /\ saved \in State /\ idx \in Index /\ idx' \in Index /\ sealed' = sealed
  BY DEF ResumeSet, StartFresh, NewState, PrepareRefuses, SafetyInv, TypeInv, TypeOK
<1>1. ASSUME RewriteIndex PROVE SavedIsIndexed'
  <2>1. idx' \in {idx, Reconciled(idx, saved.done)}
    BY <1>1 DEF RewriteIndex
  <2>2. idx'.present = idx.present /\ \A r \in Row : r.disc <= saved.done => (r \in idx'.rows <=> r \in idx.rows)
    BY <1>0, <2>1 DEF Reconciled, Index
  <2>3. SealedFor(saved) => SealedFor(saved)'
    BY <1>0, SealKept
  <2>4. PICK n : n = saved.done
    OBVIOUS
  <2>5. saved.done > 0 /\ idx.present => IndexCovers(n)
    BY <2>4 DEF IndexInv, SavedIsIndexed
  <2>6. saved.done > 0 /\ idx.present => IndexCovers(n)'
    BY <1>0, <2>2, <2>4, <2>5, RowsKept
  <2>7. saved.done > 0 /\ idx.present => IndexCovers(saved.done)'
    BY <2>4, <2>6 DEF IndexCovers
  <2> QED
    BY <1>0, <2>2, <2>3, <2>7 DEF IndexInv, SavedIsIndexed
<1>2. CASE ResumeSet
  <2>1. /\ pc' = "identity" /\ st' = saved /\ indexBuilt' = ~idx.present /\ RewriteIndex
        /\ pc = "prepare"
    BY <1>2 DEF ResumeSet
  <2>2. saved.done > 0
    BY <1>0, <1>2 DEF ResumeSet, CanResume, KeysInv, SavedWithDiscs, State
  <2>3. idx' = IF idx.present THEN Reconciled(idx, saved.done) ELSE idx
    BY <1>2, <2>1 DEF ResumeSet, CanResume, RewriteIndex
  <2>4. idx'.present = idx.present /\ (idx.present => \A r \in idx'.rows : r.disc <= saved.done)
    BY <1>0, <2>3 DEF Reconciled, Index
  <2>5. RunIndex'
    BY <1>0, <2>1, <2>2, <2>4 DEF RunIndex, IndexInHand, SealInHand, Loaded, DiscStages, Sealing, Index
  <2> QED
    BY <1>1, <2>1, <2>5
<1>3. CASE StartFresh
  <2>1. saved.done = 0 /\ idx' = NoIndex /\ pc' = "fresh" /\ indexBuilt' = indexBuilt /\ pc = "prepare"
    BY <1>3 DEF StartFresh, CanStartFresh, NoState
  <2>2. ~indexBuilt
    BY <2>1 DEF IndexInv, IndexInHand, Loaded, DiscStages
  <2> QED
    BY <2>1, <2>2, NothingIndexed DEF SavedIsIndexed
<1>4. CASE NewState
  <2>1. /\ pc = "fresh" /\ pc' = "identity" /\ st'.done = 0 /\ saved.done = 0 /\ idx' = idx
        /\ indexBuilt' = indexBuilt
    BY <1>4 DEF NewState, NoState, SafetyInv, MemoryAgrees
  <2>2. ~indexBuilt /\ idx.rows = {}
    BY <2>1 DEF IndexInv, IndexInHand, Loaded, DiscStages, NoIndex
  <2> QED
    BY <2>1, <2>2 DEF SavedIsIndexed, RunIndex, IndexInHand, SealInHand, Loaded, DiscStages, Sealing
<1>5. CASE PrepareRefuses
  <2>1. RewriteIndex /\ pc' = "idle" /\ ~indexBuilt'
    BY <1>5 DEF PrepareRefuses, ProcessGone
  <2> QED
    BY <1>1, <2>1, NothingIndexed
<1> QED
  BY <1>2, <1>3, <1>4, <1>5

\* Rows are added for the disc in hand alone.
LEMMA RowsKeepIndex ==
  ASSUME SafetyInv, IndexInv, TypeInv', UNCHANGED <<saved, complete>>, enc' = enc,
         AppendRows \/ FinishRows
  PROVE  SavedIsIndexed' /\ RunIndex'
<1> USE DEF Goto, staging, memory, world
<1>0. /\ idx \in Index /\ idx' \in Index /\ UNCHANGED <<sealed, st, bin, stops, indexBuilt>>
      /\ pc \in DiscStages /\ pc \in Loaded
  BY DEF AppendRows, FinishRows, SafetyInv, TypeInv, TypeOK, DiscStages, Loaded
<1>1. st.done = saved.done /\ st.done \in 0 .. MaxDiscs /\ ~indexBuilt
  BY <1>0, NotFinishedYet DEF SafetyInv, MemoryAgrees, IndexInv, IndexInHand
<1>2. \A b : \A r \in Rows(b) : r.disc = st.done + 1
  BY DEF Rows, disc
<1>3. \A some \in SUBSET bin : Rows(some) \subseteq Rows(bin)
  BY DEF Rows
<1>4. Rows(bin)' = Rows(bin)
  BY <1>0 DEF Rows, disc, gen
<1>5. PICK some \in SUBSET bin : idx'.rows = idx.rows \cup Rows(some) /\ idx'.present = TRUE
                                /\ (pc = "appending" => some = bin)
  <2>1. CASE AppendRows
    BY <2>1 DEF AppendRows
  <2>2. CASE FinishRows
    <3>1. idx.present = TRUE
      BY <1>0, <2>2 DEF FinishRows, IndexInv, IndexInHand, Index
    <3>2. idx'.rows = idx.rows \cup Rows(bin) /\ idx'.present = TRUE
      BY <1>0, <2>2, <3>1 DEF FinishRows, Index
    <3> QED
      BY <3>2
  <2> QED
    BY <2>1, <2>2
<1>6. \A r \in idx.rows : r.disc <= st.done \/ r \in Rows(bin)
  BY <1>0, <1>1 DEF AppendRows, FinishRows, IndexInv, IndexInHand
<1>7. (pc = "append" /\ pc' = "appending") \/ (pc = "appending" /\ pc' = "save")
  BY DEF AppendRows, FinishRows
<1>8. RunIndex'
  <2>1. pc' = "save" => Rows(bin)' \subseteq idx'.rows
    BY <1>4, <1>5, <1>7
  <2>2. \A r \in idx'.rows : r.disc <= st'.done \/ r \in Rows(bin)'
    BY <1>0, <1>3, <1>4, <1>5, <1>6
  <2> QED
    BY <1>0, <1>1, <1>5, <1>7, <2>1, <2>2
    DEF RunIndex, IndexInHand, SealInHand, Loaded, DiscStages, Sealing
<1>9. SavedIsIndexed'
  <2>1. \A r \in Row : r.disc <= saved.done => (r \in idx'.rows <=> r \in idx.rows)
    BY <1>1, <1>2, <1>5
  <2>2. saved.done > 0 => idx.present
    BY <1>0, <1>1, <1>7 DEF IndexInv, IndexInHand
  <2>3. PICK n : n = saved.done
    OBVIOUS
  <2>4. saved.done > 0 => IndexCovers(n)'
    BY <1>0, <2>1, <2>2, <2>3, RowsKept DEF IndexInv, SavedIsIndexed
  <2> QED
    BY <1>5, <2>3, <2>4 DEF SavedIsIndexed, IndexCovers
<1> QED
  BY <1>8, <1>9

\* The save makes the rows of the disc in hand rows of a finished disc.
LEMMA CommitKeepsIndex ==
  ASSUME SafetyInv, IndexInv, CommitDisc
  PROVE  IndexInv'
<1> USE DEF Goto, staging, memory, world
<1>1. pc = "save" /\ pc' = "pack" /\ pc \in Loaded /\ pc \in DiscStages /\ pc \in Encrypted
  BY DEF CommitDisc, Loaded, DiscStages, Encrypted
<1>2. /\ complete = 0 /\ saved.done \in 0 .. MaxDiscs /\ st.done = saved.done
      /\ disc = saved.done + 1 /\ Held(disc) = bin /\ idx \in Index
  BY <1>1, NotFinishedYet DEF SafetyInv, MemoryAgrees, disc, NothingTwice, TypeInv, TypeOK
<1>3. /\ saved' = st' /\ st'.done = disc /\ UNCHANGED <<complete, enc, idx, indexBuilt>>
  BY DEF CommitDisc, SaveState, SafetyInv, TypeInv, TypeOK, State
<1>4. /\ idx.present /\ ~indexBuilt /\ Rows(bin) \subseteq idx.rows
      /\ \A r \in idx.rows : r.disc <= saved.done \/ r \in Rows(bin)
  BY <1>1, <1>2 DEF IndexInv, IndexInHand
<1>5. /\ \A r \in Rows(bin) : r.disc = disc /\ r.path \in bin /\ r.gen = gen
      /\ \A p \in bin : \E r \in Rows(bin) : r.disc = disc /\ r.path = p
      /\ \A r, q \in Rows(bin) : r.path = q.path => r = q
  <2> DEFINE row(p) == [disc |-> disc, path |-> p, gen |-> gen]
  <2>1. \A p : row(p).disc = disc /\ row(p).path = p /\ row(p).gen = gen
    OBVIOUS
  <2>2. Rows(bin) = {row(p) : p \in bin}
    BY DEF Rows
  <2> HIDE DEF row
  <2>3. \A r \in Rows(bin) : \E p \in bin : r = row(p)
    BY <2>2
  <2> QED
    BY <2>1, <2>2, <2>3
<1>6. saved.done > 0 => IndexCovers(saved.done)
  BY <1>4 DEF IndexInv, SavedIsIndexed
<1>7. \A r \in idx.rows : r.disc \in Disc /\ r.path \in Path
  BY <1>2 DEF Index, Row
<1>8. \A d : Held(d)' = Held(d)
  BY <1>3 DEF Held
<1>9. \A d \in 1 .. disc, p \in Path : p \in Held(d) <=> \E r \in idx.rows : r.disc = d /\ r.path = p
  <2> SUFFICES ASSUME NEW d \in 1 .. disc, NEW p \in Path
               PROVE  p \in Held(d) <=> \E r \in idx.rows : r.disc = d /\ r.path = p
    OBVIOUS
  <2>1. CASE d = disc
    <3>1. \A r \in idx.rows : r.disc = disc => r \in Rows(bin)
      BY <1>2, <1>4
    <3> QED
      BY <1>2, <1>4, <1>5, <2>1, <3>1
  <2>2. CASE d # disc
    <3>1. d \in 1 .. saved.done /\ saved.done > 0
      BY <1>2, <2>2
    <3> QED
      BY <1>6, <3>1 DEF IndexCovers
  <2> QED
    BY <2>1, <2>2
<1>10. \A r, q \in idx.rows : r.disc <= disc /\ r.disc = q.disc /\ r.path = q.path => r = q
  <2> SUFFICES ASSUME NEW r \in idx.rows, NEW q \in idx.rows, r.disc = q.disc, r.path = q.path
               PROVE  r = q
    OBVIOUS
  <2>1. r.disc \in Disc
    BY <1>7
  <2>2. CASE r.disc <= saved.done
    <3>1. saved.done > 0
      BY <1>2, <2>1, <2>2 DEF Disc
    <3> QED
      BY <1>6, <2>2, <3>1 DEF IndexCovers
  <2>3. CASE ~(r.disc <= saved.done)
    <3>1. r \in Rows(bin) /\ q \in Rows(bin)
      BY <1>4, <2>3
    <3> QED
      BY <1>5, <3>1
  <2> QED
    BY <2>2, <2>3
<1>11. SavedIsIndexed'
  <2>1. PICK n : n = disc
    OBVIOUS
  <2>2. IndexCovers(n)'
    BY <1>3, <1>8, <1>9, <1>10, <2>1 DEF IndexCovers
  <2> QED
    BY <1>3, <1>4, <2>1, <2>2 DEF SavedIsIndexed, IndexCovers
<1>12. RunIndex'
  <2>1. \A r \in idx.rows : r.disc <= disc
    <3>1. \A r \in idx.rows : r.disc <= saved.done => r.disc <= disc
      BY <1>2, <1>7 DEF Disc
    <3> QED
      BY <1>2, <1>4, <1>5, <3>1
  <2> QED
    BY <1>1, <1>3, <1>4, <2>1 DEF RunIndex, IndexInHand, SealInHand, Loaded, DiscStages, Sealing
<1>13. CompleteSetIsIndexed'
  BY <1>2, <1>3 DEF CompleteSetIsIndexed
<1> QED
  BY <1>11, <1>12, <1>13 DEF IndexInv, RunIndex

\* What buildIndex encrypts is the catalog of the discs: the rows of every
\* finished disc and, since the last one is saved, no other.
LEMMA RowsAreCatalog ==
  ASSUME NEW n \in 0 .. MaxDiscs, IndexCovers(n), idx \in Index, enc \in [Disc -> Protected],
         \A r \in idx.rows : r.disc <= n
  PROVE  {<<r.disc, r.path>> : r \in idx.rows} = Catalog(n)
<1>1. \A r \in idx.rows : r.disc \in 1 .. n /\ r.path \in Path
  BY BoundsAssumption DEF Index, Row, Disc
<1>2. \A d \in 1 .. n : Held(d) \subseteq Path
  BY DEF Held, Files
<1>3. \A r \in idx.rows : <<r.disc, r.path>> \in Catalog(n)
  BY <1>1 DEF IndexCovers, Catalog
<1>4. \A x \in Catalog(n) : \E r \in idx.rows : x = <<r.disc, r.path>>
  <2> SUFFICES ASSUME NEW d \in 1 .. n, NEW p \in Held(d)
               PROVE  \E r \in idx.rows : <<d, p>> = <<r.disc, r.path>>
    BY DEF Catalog
  <2> QED
    BY <1>2 DEF IndexCovers
<1> QED
  BY <1>3, <1>4

\* From AllPacked to the removal of the plaintext index.
LEMMA SealKeepsIndex ==
  ASSUME SafetyInv, KeysInv, IndexInv, UNCHANGED <<saved, complete>>, enc' = enc,
         AllPacked \/ KeepIndex \/ SealIndex \/ WriteIndexSum \/ LayOut \/ FinishIndex
  PROVE  SavedIsIndexed' /\ RunIndex'
<1> USE DEF Goto, staging, memory, world
<1>0. /\ idx \in Index /\ sealed \in SealedIndex /\ enc \in [Disc -> Protected]
      /\ pc \in Loaded /\ pc \notin DiscStages /\ UNCHANGED <<st, stops, indexBuilt>>
  BY DEF AllPacked, KeepIndex, SealIndex, WriteIndexSum, LayOut, FinishIndex, SafetyInv, TypeInv,
         TypeOK, DiscStages, Loaded
<1>1. st.done > 0
  BY DEF AllPacked, KeepIndex, SealIndex, WriteIndexSum, LayOut, FinishIndex, IndexInv, SealInHand,
         Sealing
<1>2. /\ st.done = saved.done /\ saved.done \in 0 .. MaxDiscs /\ saved.done > 0
      /\ KeyOf(st) = KeyOf(saved)
  BY <1>0, <1>1, OneKey, NotFinishedYet
<1>3. /\ Catalog(saved.done)' = Catalog(saved.done) /\ KeyOf(saved)' = KeyOf(saved)
      /\ KeyOf(st)' = KeyOf(st) /\ Catalog(st.done)' = Catalog(st.done)
  BY <1>0 DEF Catalog, KeyOf, Held
<1>4. SealedFor(saved) <=> SealedFor(st)
  BY <1>2 DEF SealedFor
<1>s. IndexInv /\ IndexInHand /\ SealInHand /\ SavedIsIndexed
  BY DEF IndexInv
<1>5. CASE AllPacked
  BY <1>0, <1>1, <1>3, <1>5, <1>s
  DEF AllPacked, SavedIsIndexed, IndexCovers, SealedFor, Held, RunIndex, IndexInHand, SealInHand,
      Loaded, DiscStages, Sealing
<1>6. CASE KeepIndex
  <2>1. ~idx.present /\ SealedFor(st) /\ sealed.sha = sealed.gen
    BY <1>0, <1>2, <1>4, <1>6, <1>s DEF KeepIndex, IndexInHand, SavedIsIndexed
  <2>2. SealedFor(saved)' /\ SealedFor(st)'
    BY <1>2, <1>3, <1>4, <1>6, <2>1 DEF KeepIndex, SealedFor
  <2> QED
    BY <1>0, <1>1, <1>6, <1>s, <2>1, <2>2
    DEF KeepIndex, SavedIsIndexed, RunIndex, IndexInHand, SealInHand, Loaded, DiscStages, Sealing
<1>7. CASE SealIndex
  <2>1. /\ pc = "index" /\ pc' = "indexSha" /\ ~indexBuilt /\ idx.present /\ idx' = idx
        /\ key \in Key /\ gen \in Gen /\ gen # 0 /\ gen' = gen
    BY <1>0, <1>7, BoundsAssumption
    DEF SealIndex, CanSealIndex, SafetyInv, TypeInv, TypeOK, gen, Gen
  <2>2. IndexCovers(saved.done) /\ \A r \in idx.rows : r.disc <= saved.done
    BY <1>0, <1>2, <1>s, <2>1 DEF SavedIsIndexed, IndexInHand
  <2>3. {<<r.disc, r.path>> : r \in idx.rows} = Catalog(saved.done)
    BY <1>0, <1>2, <2>2, RowsAreCatalog
  <2>4. sealed'.gen = gen /\ sealed'.key = key /\ sealed'.rows = Catalog(saved.done)
    BY <1>0, <1>7, <2>3 DEF SealIndex, SealedIndex
  <2>5. key = KeyOf(st)
    BY <1>0, <2>1 DEF KeysInv, SettingsInHand, Keyed
  <2>6. SealedFor(st)'
    BY <1>2, <1>3, <2>1, <2>4, <2>5 DEF SealedFor
  <2>7. SavedIsIndexed'
    BY <1>s, <2>1, <2>2 DEF SavedIsIndexed, IndexCovers, Held
  <2> QED
    BY <1>0, <1>1, <1>s, <2>1, <2>4, <2>6, <2>7
    DEF RunIndex, IndexInHand, SealInHand, Loaded, DiscStages, Sealing
<1>8. CASE WriteIndexSum
  <2>1. /\ pc = "indexSha" /\ pc' = "layout" /\ idx' = idx /\ gen' = gen /\ sealed.gen = gen
        /\ SealedFor(st) /\ ~indexBuilt
    BY <1>8, <1>s DEF WriteIndexSum, SealInHand, Sealing, gen
  <2>2. idx.present
    BY <1>0, <1>1, <1>s, <2>1 DEF IndexInHand
  <2>3. /\ sealed'.sha = gen /\ sealed'.gen = sealed.gen /\ sealed'.key = sealed.key
        /\ sealed'.rows = sealed.rows
    BY <1>0, <1>8 DEF WriteIndexSum, SealedIndex
  <2>4. SealedFor(st)'
    BY <1>2, <1>3, <2>1, <2>3 DEF SealedFor
  <2>5. SavedIsIndexed'
    BY <1>s, <2>1, <2>2 DEF SavedIsIndexed, IndexCovers, Held
  <2> QED
    BY <1>0, <1>1, <1>s, <2>1, <2>2, <2>3, <2>4, <2>5
    DEF RunIndex, IndexInHand, SealInHand, Loaded, DiscStages, Sealing
<1>9. CASE LayOut \/ FinishIndex
  <2>1. /\ pc \in {"layout", "finishIndex"} /\ pc' \in {"finishIndex", "finishState"}
        /\ sealed' = sealed /\ SealedFor(st) /\ sealed.sha = sealed.gen
        /\ pc' = "finishIndex" => idx' = idx
        /\ pc' = "finishState" => idx' = NoIndex
    BY <1>9, <1>s DEF LayOut, FinishIndex, SealInHand, Sealing
  <2>2. SealedFor(st)' /\ SealedFor(saved)'
    BY <1>2, <1>3, <1>4, <2>1 DEF SealedFor
  <2>3. SavedIsIndexed'
    BY <1>s, <2>1, <2>2 DEF SavedIsIndexed, IndexCovers, Held, NoIndex
  <2>4. IndexInHand'
    BY <1>0, <1>1, <1>s, <2>1 DEF IndexInHand, Loaded, DiscStages, NoIndex
  <2> QED
    BY <1>0, <1>1, <2>1, <2>2, <2>3, <2>4 DEF RunIndex, SealInHand, Sealing
<1> QED
  BY <1>5, <1>6, <1>7, <1>8, <1>9

\* The complete set has the index the run has sealed.
LEMMA FinishKeepsIndex ==
  ASSUME SafetyInv, KeysInv, IndexInv, FinishState
  PROVE  IndexInv'
<1>1. pc = "finishState" /\ pc \in Loaded /\ st.done > 0
  BY DEF FinishState, Loaded, IndexInv, SealInHand, Sealing
<1>2. /\ saved' = NoState /\ pc' = "idle" /\ enc' = enc /\ complete' = st.done
      /\ sealed' = sealed /\ indexBuilt' = FALSE
  BY <1>1 DEF FinishState, ProcessGone
<1>3. KeyOf(st) = enc[1].age.key
  BY <1>1, OneKey
<1>4. SealedFor(st) /\ sealed.sha = sealed.gen
  BY <1>1 DEF IndexInv, SealInHand, Sealing
<1>5. CompleteSetIsIndexed'
  BY <1>2, <1>3, <1>4 DEF CompleteSetIsIndexed, SealedFor, Catalog, Held
<1>6. RunIndex'
  BY <1>2, NothingIndexed
<1>7. SavedIsIndexed'
  BY <1>2 DEF SavedIsIndexed, NoState
<1> QED
  BY <1>5, <1>6, <1>7 DEF IndexInv, RunIndex

\* Steps of a run before its last disc that leave the index alone.
LEMMA QuietKeepsIndex ==
  ASSUME SafetyInv, IndexInv, UNCHANGED <<saved, complete, idx, sealed, indexBuilt>>,
         \A d \in Finished : enc'[d] = enc[d],
         pc \in Loaded, pc' \in Loaded \ (Sealing \cup {"appending", "save"}),
         pc \notin {"appending", "save", "finishState"}, st'.done = st.done,
         pc' = "identity" => pc = "identity",
         indexBuilt => pc' \notin DiscStages /\ (pc' = "pack" => todo' = {})
  PROVE  SavedIsIndexed' /\ RunIndex'
<1>0. idx \in Index /\ idx' \in Index
  BY DEF SafetyInv, TypeInv, TypeOK
<1>1. SavedIsIndexed'
  <2>1. PICK n : n = saved.done
    OBVIOUS
  <2>2. saved.done > 0 /\ idx.present => IndexCovers(n)'
    BY <1>0, <2>1, RowsKept DEF IndexInv, SavedIsIndexed
  <2>3. SealedFor(saved) => SealedFor(saved)'
    BY SealKept
  <2> QED
    BY <2>1, <2>2, <2>3 DEF IndexInv, SavedIsIndexed, IndexCovers
<1>2. RunIndex'
  <2>1. IndexInHand'
    BY DEF IndexInv, IndexInHand, Loaded, DiscStages, Sealing
  <2>2. SealInHand'
    BY DEF SealInHand, Sealing
  <2> QED
    BY <2>1, <2>2 DEF RunIndex
<1> QED
  BY <1>1, <1>2

\* One step of the system, whatever it is.
LEMMA StepIndex ==
  ASSUME SafetyInv, KeysInv, IndexInv, [Next]_vars
  PROVE  IndexInv'
<1> USE DEF Goto, staging, memory, world
<1>a. \A d \in Finished : enc'[d] = enc[d]
  BY StepSafe
<1>t. TypeInv'
  BY StepTypes DEF SafetyInv
<1>1. CASE CommitDisc
  BY <1>1, CommitKeepsIndex
<1>2. CASE FinishState
  BY <1>2, FinishKeepsIndex
<1>3. CASE ~CommitDisc /\ ~FinishState
  <2>s. UNCHANGED <<saved, complete>>
    BY <1>3, SavedKept
  <2>i. IndexInv => CompleteSetIsIndexed /\ SavedIsIndexed /\ RunIndex
    BY DEF IndexInv, RunIndex
  <2>1. CASE ResumeSet \/ StartFresh \/ NewState \/ PrepareRefuses
    <3>1. enc' = enc /\ sealed' = sealed
      BY <2>1 DEF ResumeSet, StartFresh, NewState, PrepareRefuses
    <3> QED
      BY <1>a, <1>t, <2>s, <2>i, <2>1, <3>1, PrepareKeepsIndex, SealKept DEF IndexInv, RunIndex
  <2>2. CASE AppendRows \/ FinishRows
    <3>1. enc' = enc /\ sealed' = sealed
      BY <2>2 DEF AppendRows, FinishRows
    <3> QED
      BY <1>a, <1>t, <2>s, <2>i, <2>2, <3>1, RowsKeepIndex, SealKept DEF IndexInv, RunIndex
  <2>3. CASE AllPacked \/ KeepIndex \/ SealIndex \/ WriteIndexSum \/ LayOut \/ FinishIndex
    <3>1. enc' = enc /\ complete = 0
      <4>1. pc \in Loaded
        BY <2>3 DEF AllPacked, KeepIndex, SealIndex, WriteIndexSum, LayOut, FinishIndex, Loaded
      <4> QED
        BY <2>3, <4>1, NotFinishedYet
        DEF AllPacked, KeepIndex, SealIndex, WriteIndexSum, LayOut, FinishIndex
    <3>2. CompleteSetIsIndexed'
      BY <2>s, <3>1, NotFinishedYet DEF CompleteSetIsIndexed
    <3> QED
      BY <2>s, <2>3, <3>1, <3>2, SealKeepsIndex DEF IndexInv, RunIndex
  <2>4. CASE /\ UNCHANGED <<idx, sealed>>
             /\ RunIndex'
    <3>1. SavedIsIndexed'
      <4>0. idx \in Index /\ idx' \in Index
        BY <1>t DEF SafetyInv, TypeInv, TypeOK
      <4>1. PICK n : n = saved.done
        OBVIOUS
      <4>2. saved.done > 0 /\ idx.present => IndexCovers(n)'
        BY <1>a, <2>s, <2>i, <2>4, <4>0, <4>1, RowsKept DEF SavedIsIndexed
      <4>3. SealedFor(saved) => SealedFor(saved)'
        BY <1>a, <2>s, <2>4, SealKept
      <4> QED
        BY <2>s, <2>i, <2>4, <4>1, <4>2, <4>3 DEF SavedIsIndexed, IndexCovers
    <3> QED
      BY <1>a, <2>s, <2>i, <2>4, <3>1, SealKept DEF IndexInv, RunIndex
  <2>5. CASE \/ \E c \in Configs, r \in BOOLEAN : Start(c, r)
             \/ ShrinkFails \/ RunRefuses \/ Stop \/ ToolFails \/ ChangeTree
    <3>1. pc' \in {"idle", "prepare"} /\ UNCHANGED <<idx, sealed>>
      BY <2>5 DEF Start, ShrinkFails, RunRefuses, Stop, ToolFails, ProcessGone, ChangeTree
    <3>2. ~indexBuilt'
      <4>1. CASE ShrinkFails \/ RunRefuses \/ Stop \/ ToolFails
        BY <4>1 DEF ShrinkFails, RunRefuses, Stop, ToolFails, ProcessGone
      <4>2. CASE (\E c \in Configs, r \in BOOLEAN : Start(c, r)) \/ ChangeTree
        <5>1. pc = "idle" /\ indexBuilt' = indexBuilt
          BY <4>2 DEF Start, ChangeTree
        <5> QED
          BY <5>1 DEF IndexInv, IndexInHand, Loaded, DiscStages
      <4> QED
        BY <2>5, <4>1, <4>2
    <3> QED
      BY <2>4, <3>1, <3>2, NothingIndexed
  <2>6. CASE UNCHANGED vars
    <3>1. UNCHANGED <<pc, idx, sealed, indexBuilt, st, todo, bin, stops, enc>>
      BY <2>6 DEF vars
    <3>2. RunIndex'
      BY <2>i, <3>1 DEF RunIndex, IndexInHand, SealInHand, SealedFor, KeyOf, Catalog, Held, Rows,
                        disc, gen, Sealing, Loaded, DiscStages
    <3> QED
      BY <2>4, <3>1, <3>2
  <2>7. CASE UseRecipients \/ MintIdentity \/ ReuseIdentity \/ Filter
    <3>1. UNCHANGED <<idx, sealed, indexBuilt>> /\ st'.done = st.done
      BY <2>7 DEF UseRecipients, MintIdentity, ReuseIdentity, Filter, SafetyInv, TypeInv, TypeOK,
                  State
    <3>2. /\ pc \in {"identity", "filter"} /\ pc' \in {"filter", "pack"}
          /\ indexBuilt /\ pc' = "pack" => todo' = {}
      BY <2>7 DEF UseRecipients, MintIdentity, ReuseIdentity, Filter, CanFilter
    <3>3. RunIndex'
      BY <1>a, <2>s, <3>1, <3>2, QuietKeepsIndex DEF Loaded, DiscStages, Sealing
    <3> QED
      BY <2>4, <3>1, <3>3
  <2>8. CASE \/ NextBin \/ BeginImage \/ FinishImage \/ KeepBin \/ Shrink \/ Encrypt
             \/ WritePlainSum \/ WriteCipherSum \/ SweepParity \/ BeginParity \/ FinishParity
             \/ DropImage
    <3>1. UNCHANGED <<idx, sealed, indexBuilt, st>>
      BY <2>8 DEF NextBin, BeginImage, FinishImage, KeepBin, Shrink, Encrypt, WritePlainSum,
                  WriteCipherSum, SweepParity, BeginParity, FinishParity, DropImage
    <3>2. /\ pc \in DiscStages \cup {"pack"} /\ pc \notin {"appending", "save"}
          /\ pc' \in DiscStages \ {"appending", "save"}
          /\ pc = "pack" => todo # {}
      BY <2>8 DEF NextBin, BeginImage, FinishImage, KeepBin, Shrink, Encrypt, WritePlainSum,
                  WriteCipherSum, SweepParity, BeginParity, FinishParity, DropImage, DiscStages
    <3>3. pc \in Loaded /\ pc' \in Loaded \ (Sealing \cup {"appending", "save"})
      BY <3>2 DEF Loaded, DiscStages, Sealing
    <3>4. ~indexBuilt
      BY <3>2, <3>3 DEF IndexInv, IndexInHand
    <3>5. pc \notin {"appending", "save", "finishState"} /\ pc' # "identity"
      BY <3>2 DEF DiscStages
    <3>6. RunIndex'
      BY <1>a, <2>s, <3>1, <3>3, <3>4, <3>5, QuietKeepsIndex
    <3> QED
      BY <2>4, <3>1, <3>6
  <2> QED
    BY <1>3, <2>1, <2>2, <2>3, <2>5, <2>6, <2>7, <2>8 DEF Next, Run, OneDisc
<1> QED
  BY <1>1, <1>2, <1>3

LEMMA InitIndex == Init => IndexInv
<1> SUFFICES ASSUME Init PROVE IndexInv
  OBVIOUS
<1>1. saved.done = 0 /\ complete = 0 /\ pc = "idle" /\ ~indexBuilt
  BY DEF Init, NoState
<1> QED
  BY <1>1 DEF IndexInv, SavedIsIndexed, IndexInHand, SealInHand, CompleteSetIsIndexed, Loaded,
              DiscStages, Sealing

-----------------------------------------------------------------------------
(* What the set promises.                                                  *)

\* One row for every file and one file for every row: so the count of the rows
\* that reconcileIndex leaves is that of the files the state calls written.
LEMMA RowsCountFiles ==
  ASSUME NEW n \in 0 .. MaxDiscs, IndexCovers(n), idx \in Index,
         \A d, e \in 1 .. n : d # e => Held(d) \cap Held(e) = {}
  PROVE  Cardinality({r \in idx.rows : r.disc <= n}) = Cardinality(UNION {Held(d) : d \in 1 .. n})
<1> DEFINE R == {r \in idx.rows : r.disc <= n}
           F == UNION {Held(d) : d \in 1 .. n}
           to == [r \in R |-> r.path]
<1>1. \A r \in R : r.disc \in 1 .. n /\ r.path \in Path
  BY BoundsAssumption DEF Index, Row, Disc
<1>2. \A d \in 1 .. n : Held(d) \subseteq Path
  BY DEF Held, Files
<1>3. F \subseteq Path /\ IsFiniteSet(F)
  BY <1>2, PathsAssumption, FS_Subset
<1>4. \A r \in R : r.path \in Held(r.disc)
  BY <1>1 DEF IndexCovers
<1>5. to \in [R -> F]
  BY <1>1, <1>4
<1>6. \A r, q \in R : to[r] = to[q] => r = q
  <2> SUFFICES ASSUME NEW r \in R, NEW q \in R, r.path = q.path PROVE r = q
    OBVIOUS
  <2>1. r.disc = q.disc
    BY <1>1, <1>4
  <2> QED
    BY <1>1, <2>1 DEF IndexCovers
<1>7. \A p \in F : \E r \in R : to[r] = p
  <2> SUFFICES ASSUME NEW d \in 1 .. n, NEW p \in Held(d) PROVE \E r \in R : to[r] = p
    OBVIOUS
  <2>1. PICK r \in idx.rows : r.disc = d /\ r.path = p
    BY <1>2 DEF IndexCovers
  <2>2. r \in R
    BY <2>1
  <2> QED
    BY <2>1, <2>2
<1> HIDE DEF R, F, to
<1>8. to \in Injection(R, F) /\ to \in Surjection(R, F)
  BY <1>5, <1>6, <1>7 DEF Injection, IsInjective, Surjection
<1>9. IsFiniteSet(R) /\ (Cardinality(R) = Cardinality(F) <=> to \in Surjection(R, F))
  BY <1>3, <1>8, FS_Injection
<1> QED
  BY <1>8, <1>9 DEF R, F

\* SetInv is inductive.
THEOREM SetInvHolds == Spec => []SetInv
<1>1. Init => SetInv
  BY InitSafe, InitKinds, InitKeys, InitIndex DEF SetInv
<1>2. SetInv /\ [Next]_vars => SetInv'
  BY StepSafe, StepKinds, StepKeys, StepIndex DEF SetInv
<1> QED
  BY <1>1, <1>2, PTL DEF Spec

\* Whatever happens to the source tree between the runs, no path is of one kind
\* on one finished disc and of another on another.
THEOREM DiscsAgreeOnKinds == Spec => []FinishedDiscsAgreeOnKinds
<1>1. SetInv => FinishedDiscsAgreeOnKinds
  BY DEF SetInv, KindsInv
<1> QED
  BY <1>1, SetInvHolds, PTL

\* Whichever settings the runs are started with, the finished discs open with
\* one key that is not lost and fit the one medium they were planned for.
THEOREM DiscsShareKeyAndMedium == Spec => []OneKeyOneMedium
<1>1. SetInv => OneKeyOneMedium
  BY DEF SetInv, KeysInv
<1> QED
  BY <1>1, SetInvHolds, PTL

\* However often its writing was interrupted, a complete set's index names every
\* file on its discs and no other.
THEOREM CompleteSetsAreIndexed == Spec => []CompleteSetIsIndexed
<1>1. SetInv => CompleteSetIsIndexed
  BY DEF SetInv, IndexInv
<1> QED
  BY <1>1, SetInvHolds, PTL

\* At whatever step a run ends, the finished discs can be gone on from.
THEOREM FinishedDiscsAreResumable == Spec => []FinishedDiscsCanBeResumed
<1>1. SetInv => FinishedDiscsCanBeResumed
  <2> SUFFICES ASSUME SetInv, saved # NoState PROVE FinishedDiscsCanBeResumed
    BY DEF FinishedDiscsCanBeResumed
  <2>1. /\ saved \in State /\ idx \in Index /\ saved.done \in 0 .. MaxDiscs /\ saved.done > 0
        /\ 1 .. saved.done \subseteq Finished
    BY BoundsAssumption DEF SetInv, SafetyInv, TypeInv, TypeOK, KeysInv, SavedWithDiscs, State,
       Finished, Disc
  <2>2. saved.public => identity = saved.publicKey
    BY <2>1 DEF SetInv, KeysInv, KeysRecorded
  <2>3. ~idx.present => sealed.gen # 0 /\ sealed.sha = sealed.gen
    BY <2>1 DEF SetInv, IndexInv, SavedIsIndexed, SealedFor
  <2>4. ASSUME idx.present PROVE Agrees(Reconciled(idx, saved.done), saved)
    <3> DEFINE left == Reconciled(idx, saved.done).rows
    <3>1. left = {r \in idx.rows : r.disc <= saved.done}
      BY <2>1 DEF Reconciled, Index
    <3>2. IndexCovers(saved.done)
      BY <2>1, <2>4 DEF SetInv, IndexInv, SavedIsIndexed
    <3>3. \E r \in left : r.disc = saved.done
      <4>1. saved.done \in 1 .. saved.done /\ saved.done \in Finished
        BY <2>1
      <4>2. PICK p \in Path : p \in Held(saved.done)
        BY <4>1 DEF SetInv, KindsInv, FinishedDiscsHoldFiles, Held, Files
      <4>3. \E r \in idx.rows : r.disc = saved.done /\ r.path = p
        BY <3>2, <4>1, <4>2 DEF IndexCovers
      <4> QED
        BY <2>1, <3>1, <4>3
    <3>4. Cardinality(left) = Cardinality(saved.assigned)
      <4>1. \A d, e \in 1 .. saved.done : d # e => Held(d) \cap Held(e) = {}
        BY <2>1 DEF SetInv, SafetyInv, EveryFileOnOneDisc
      <4>2. saved.assigned = UNION {Held(d) : d \in 1 .. saved.done}
        BY DEF SetInv, SafetyInv, EveryFileOnOneDisc
      <4> QED
        BY <2>1, <3>1, <3>2, <4>1, <4>2, RowsCountFiles
    <3> QED
      BY <3>1, <3>3, <3>4 DEF Agrees
  <2> QED
    BY <2>2, <2>3, <2>4 DEF FinishedDiscsCanBeResumed
<1> QED
  BY <1>1, SetInvHolds, PTL

-----------------------------------------------------------------------------
(* The abstract set.                                                       *)

\* A sequence with one more element at its end.
LEMMA OneMore ==
  ASSUME NEW n \in Nat, NEW S, NEW f \in [1 .. n -> S], NEW g \in [1 .. n + 1 -> S],
         \A i \in 1 .. n : f[i] = g[i]
  PROVE  Len(f) = n /\ Len(g) = Len(f) + 1 /\ SubSeq(g, 1, Len(f)) = f
<1>1. f \in Seq(S) /\ g \in Seq(S)
  BY SeqDef
<1>2. Len(f) = n /\ Len(g) = n + 1
  BY <1>1, LenProperties
<1>3. SubSeq(g, 1, n) \in Seq(S) /\ Len(SubSeq(g, 1, n)) = n
      /\ \A i \in 1 .. n : SubSeq(g, 1, n)[i] = g[i]
  BY <1>1, <1>2, SubSeqProperties
<1>4. SubSeq(g, 1, n) = f
  BY <1>1, <1>2, <1>3, SeqEqual
<1> QED
  BY <1>2, <1>4

\* ArchiveSet counts as everybody does.
LEMMA SameCount == \A S : Archive!Cardinality(S) = Cardinality(S)
BY DEF Archive!Cardinality, Cardinality

\* What a disc shows of its files.
LEMMA ShownFiles ==
  ASSUME TypeOK, NEW d \in Disc
  PROVE  /\ Shown(d).kinds = enc[d].age.kinds /\ DOMAIN Shown(d).kinds = Path
         /\ Shown(d).key = enc[d].age.key /\ Shown(d).room = enc[d].age.room
         /\ Archive!FilesOn(Shown(d)) = Held(d)
<1>1. enc[d].age.kinds \in Tree
  BY DEF TypeOK, Protected, Image
<1>2. /\ Shown(d).kinds = enc[d].age.kinds /\ DOMAIN Shown(d).kinds = Path
      /\ Shown(d).key = enc[d].age.key /\ Shown(d).room = enc[d].age.room
  BY <1>1 DEF Shown, Tree
<1> QED
  BY <1>2 DEF Archive!FilesOn, Held, Files

\* Two discs that no invariant of the set sets apart fit into one set.
LEMMA ShownCompatible ==
  ASSUME TypeOK, NEW d \in Disc, NEW e \in Disc, Held(d) \cap Held(e) = {},
         \A p \in Path : Absent \in {enc[d].age.kinds[p], enc[e].age.kinds[p]}
                         \/ enc[d].age.kinds[p] = enc[e].age.kinds[p],
         enc[d].age.key = enc[e].age.key, enc[d].age.room = enc[e].age.room
  PROVE  Archive!Compatible(Shown(d), Shown(e))
BY ShownFiles DEF Archive!Compatible

\* The save of the state adds a disc.
LEMMA CommitAddsDisc ==
  ASSUME SetInv, SetInv', CommitDisc
  PROVE  /\ Listing = {} /\ Listing' = Listing
         /\ Len(Discs') = Len(Discs) + 1 /\ SubSeq(Discs', 1, Len(Discs)) = Discs
         /\ LET c == Discs'[Len(Discs')] IN
              /\ Archive!FilesOn(c) # {} /\ Cardinality(Archive!FilesOn(c)) <= c.room
              /\ \A i \in DOMAIN Discs : Archive!Compatible(Discs[i], c)
<1>1. pc \in Loaded /\ pc \in DiscStages
  BY DEF CommitDisc, Loaded, DiscStages
<1>2. /\ complete = 0 /\ saved.done \in 0 .. MaxDiscs /\ st.done = saved.done
      /\ disc = saved.done + 1 /\ disc \in Disc
  BY <1>1, NotFinishedYet DEF SetInv, SafetyInv, MemoryAgrees, disc
<1>3. /\ saved'.done = disc /\ complete' = complete /\ enc' = enc
  BY DEF CommitDisc, SaveState, SetInv, SafetyInv, TypeInv, TypeOK, State, staging, world
<1>4. Listing = {} /\ Listing' = {}
  BY <1>2, <1>3 DEF Listing
<1>5. PICK n \in Nat : n = saved.done
  BY <1>2
<1>6. Counted = n /\ Counted' = n + 1 /\ 1 .. n + 1 \subseteq Finished'
  BY <1>2, <1>3, <1>5, BoundsAssumption DEF Counted, Finished, Disc
<1>7. \A d : Shown(d)' = Shown(d)
  BY <1>3 DEF Shown
<1> DEFINE S == {Shown(d) : d \in 1 .. n + 1}
<1>8. /\ Discs \in [1 .. n -> S] /\ Discs' \in [1 .. n + 1 -> S]
      /\ \A i \in 1 .. n : Discs[i] = Shown(i)
      /\ \A i \in 1 .. n + 1 : Discs'[i] = Shown(i)
  <2>1. Discs = [d \in 1 .. n |-> Shown(d)] /\ Discs' = [d \in 1 .. n + 1 |-> Shown(d)]
    BY <1>6, <1>7 DEF Discs
  <2>2. 1 .. n \subseteq 1 .. n + 1
    OBVIOUS
  <2> HIDE DEF Discs
  <2> QED
    BY <2>1, <2>2
<1> HIDE DEF S
<1>9. Len(Discs) = n /\ Len(Discs') = Len(Discs) + 1 /\ SubSeq(Discs', 1, Len(Discs)) = Discs
  <2>1. \A f \in [1 .. n -> S], g \in [1 .. n + 1 -> S] :
          (\A i \in 1 .. n : f[i] = g[i]) =>
            Len(f) = n /\ Len(g) = Len(f) + 1 /\ SubSeq(g, 1, Len(f)) = f
    BY OneMore
  <2>2. \A i \in 1 .. n : Discs[i] = Discs'[i]
    BY <1>8
  <2> QED
    BY <1>8, <2>1, <2>2
<1>10. Discs'[Len(Discs')] = Shown(n + 1) /\ Shown(n + 1) = Shown(n + 1)'
  BY <1>7, <1>8, <1>9
<1>t. TypeOK /\ 1 .. n + 1 \subseteq Disc
  BY <1>6 DEF SetInv, SafetyInv, TypeInv, Finished
<1>h. \A d : Held(d)' = Held(d)
  BY <1>3 DEF Held
<1>11. /\ Archive!FilesOn(Shown(n + 1)) # {}
       /\ Cardinality(Archive!FilesOn(Shown(n + 1))) <= Shown(n + 1).room
  <2>1. n + 1 \in Finished' /\ n + 1 \in Disc
    BY <1>6, <1>t
  <2>2. Archive!FilesOn(Shown(n + 1)) = Held(n + 1) /\ Shown(n + 1).room = enc[n + 1].age.room
    BY <1>t, <2>1, ShownFiles
  <2>3. Held(n + 1)' # {} /\ Cardinality(Held(n + 1)') <= enc'[n + 1].age.room
    BY <2>1 DEF SetInv, KindsInv, FinishedDiscsHoldFiles, KeysInv, OneKeyOneMedium
  <2> QED
    BY <1>3, <1>h, <2>2, <2>3
<1>12. \A i \in 1 .. n : Archive!Compatible(Discs[i], Shown(n + 1))
  <2> SUFFICES ASSUME NEW i \in 1 .. n PROVE Archive!Compatible(Shown(i), Shown(n + 1))
    BY <1>8
  <2>1. i \in Finished' /\ n + 1 \in Finished' /\ i # n + 1 /\ i \in Disc /\ n + 1 \in Disc
    BY <1>6, <1>t
  <2>2. Held(i)' \cap Held(n + 1)' = {}
    BY <2>1 DEF SetInv, SafetyInv, EveryFileOnOneDisc
  <2>3. \A p \in Path : Absent \in {enc'[i].age.kinds[p], enc'[n + 1].age.kinds[p]}
                        \/ enc'[i].age.kinds[p] = enc'[n + 1].age.kinds[p]
    BY <2>1 DEF SetInv, KindsInv, FinishedDiscsAgreeOnKinds
  <2>4. enc'[i].age.key = enc'[n + 1].age.key /\ enc'[i].age.room = enc'[n + 1].age.room
    BY <2>1 DEF SetInv, KeysInv, OneKeyOneMedium
  <2> QED
    BY <1>3, <1>h, <1>t, <2>1, <2>2, <2>3, <2>4, ShownCompatible
<1>13. DOMAIN Discs = 1 .. n
  BY <1>8
<1> QED
  BY <1>4, <1>9, <1>10, <1>11, <1>12, <1>13

\* The end of finish lists the files of every disc.
LEMMA FinishLists ==
  ASSUME SetInv, FinishState
  PROVE  /\ Listing = {} /\ Discs # <<>> /\ Discs' = Discs
         /\ Listing' = UNION {{<<i, p>> : p \in Archive!FilesOn(Discs[i])} : i \in DOMAIN Discs}
<1>1. pc = "finishState" /\ pc \in Loaded /\ st.done > 0
  BY DEF FinishState, Loaded, SetInv, IndexInv, SealInHand, Sealing
<1>2. /\ complete = 0 /\ saved.done \in 1 .. MaxDiscs /\ st.done = saved.done
  BY <1>1, NotFinishedYet DEF SetInv, SafetyInv, MemoryAgrees
<1>3. complete' = saved.done /\ enc' = enc /\ sealed' = sealed
  BY <1>2 DEF FinishState
<1>4. Counted = saved.done /\ Counted' = saved.done
  BY <1>2, <1>3 DEF Counted
<1>5. Listing = {} /\ Listing' = sealed.rows
  BY <1>2, <1>3 DEF Listing
<1>6. Discs' = Discs /\ DOMAIN Discs = 1 .. saved.done /\ \A i \in 1 .. saved.done : Discs[i] = Shown(i)
  BY <1>3, <1>4 DEF Discs, Shown
<1>7. Discs # <<>>
  BY <1>2, <1>6
<1>8. TypeOK /\ 1 .. saved.done \subseteq Disc
  BY <1>2, BoundsAssumption DEF SetInv, SafetyInv, TypeInv, Disc
<1>9. \A i \in 1 .. saved.done : Archive!FilesOn(Discs[i]) = Held(i)
  BY <1>6, <1>8, ShownFiles
<1>10. sealed.rows = UNION {{d} \X Held(d) : d \in 1 .. saved.done}
  BY <1>1, <1>2 DEF SetInv, IndexInv, SealInHand, Sealing, SealedFor, Catalog
<1>11. UNION {{d} \X Held(d) : d \in 1 .. saved.done}
         = UNION {{<<i, p>> : p \in Archive!FilesOn(Discs[i])} : i \in DOMAIN Discs}
  <2>1. \A d \in 1 .. saved.done : {d} \X Held(d) = {<<d, p>> : p \in Archive!FilesOn(Discs[d])}
    BY <1>9
  <2> QED
    BY <1>6, <2>1
<1> QED
  BY <1>5, <1>6, <1>7, <1>10, <1>11

\* Every other step, of a run or between runs, shows nothing.
LEMMA OthersShowNothing ==
  ASSUME SetInv, SetInv', [Next]_vars, ~CommitDisc, ~FinishState
  PROVE  Discs' = Discs /\ Listing' = Listing
<1>1. UNCHANGED <<saved, complete>>
  BY SavedKept DEF SetInv
<1>2. \A d \in Finished : enc'[d] = enc[d]
  BY StepSafe DEF SetInv
<1>3. 1 .. Counted \subseteq Finished /\ Counted' = Counted
  BY <1>1, BoundsAssumption DEF Counted, Finished, Disc, SetInv, SafetyInv, TypeInv, TypeOK, State
<1>4. \A d \in Finished : Shown(d)' = Shown(d) /\ Held(d)' = Held(d)
  BY <1>2 DEF Shown, Held
<1>5. Discs' = Discs
  BY <1>3, <1>4 DEF Discs
<1>6. ASSUME complete > 0 PROVE sealed'.rows = sealed.rows
  <2>1. complete = Counted
    BY <1>6 DEF Counted
  <2>2. sealed.rows = UNION {{d} \X Held(d) : d \in 1 .. complete}
    BY <1>6 DEF SetInv, IndexInv, CompleteSetIsIndexed
  <2>3. sealed'.rows = UNION {{d} \X Held(d)' : d \in 1 .. complete}
    BY <1>1, <1>6 DEF SetInv, IndexInv, CompleteSetIsIndexed
  <2>4. \A d \in 1 .. complete : Held(d)' = Held(d)
    BY <1>3, <1>4, <2>1
  <2> QED
    BY <2>2, <2>3, <2>4
<1> QED
  BY <1>1, <1>5, <1>6 DEF Listing

\* The writer, with all its interruptions, resumes, refusals and changes of
\* settings and source, implements the set that only grows and is then complete.
THEOREM WriterImplementsArchiveSet == Spec => ImplementsArchiveSet
<1>1. Init => Archive!Init
  <2> SUFFICES ASSUME Init PROVE Discs = <<>> /\ Listing = {}
    BY DEF Archive!Init
  <2>1. Counted = 0
    BY DEF Init, Counted, NoState
  <2>2. 1 .. 0 = {} /\ Listing = {}
    BY DEF Init, Listing
  <2>3. Discs \in [1 .. 0 -> {}]
    BY <2>1, <2>2 DEF Discs
  <2>4. Discs \in Seq({})
    BY <2>3, SeqDef
  <2>5. Len(Discs) = 0
    BY <2>3, <2>4, LenProperties
  <2> QED
    BY <2>2, <2>4, <2>5, EmptySeq
<1>2. SetInv /\ SetInv' /\ [Next]_vars => [Archive!Next]_<<Discs, Listing>>
  <2> SUFFICES ASSUME SetInv, SetInv', [Next]_vars PROVE [Archive!Next]_<<Discs, Listing>>
    OBVIOUS
  <2>1. CASE CommitDisc
    <3>1. Archive!AddDisc
      BY <2>1, CommitAddsDisc, SameCount DEF Archive!AddDisc
    <3> QED
      BY <3>1 DEF Archive!Next
  <2>2. CASE FinishState
    <3>1. Archive!Complete
      BY <2>2, FinishLists DEF Archive!Complete
    <3> QED
      BY <3>1 DEF Archive!Next
  <2>3. CASE ~CommitDisc /\ ~FinishState
    BY <2>3, OthersShowNothing
  <2> QED
    BY <2>1, <2>2, <2>3
<1> QED
  BY <1>1, <1>2, SetInvHolds, PTL
  DEF Spec, ImplementsArchiveSet, Archive!Spec

=============================================================================
