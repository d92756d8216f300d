---------------------------- MODULE BackupProofs ----------------------------
(***************************************************************************)
(* Proofs about Backup, for every source tree, any settings and any number *)
(* of discs and interruptions.                                             *)
(***************************************************************************)
EXTENDS Backup, TLAPS

\* The steps at which a disc is in hand.
DiscStages ==
  {"image", "imaging", "measure", "encrypt", "sha", "ageSha", "sweep", "parity",
   "parityRuns", "dropImage", "append", "appending", "save"}

\* The steps at which the run has its state in memory.
Loaded ==
  DiscStages \cup {"identity", "filter", "pack", "index", "indexSha", "layout",
                   "finishIndex", "finishState"}

\* From each of these steps on, until the disc counts, one more thing about it
\* is known.
Encrypted == {"sha", "ageSha", "sweep", "parity"} \cup
             {"parityRuns", "dropImage", "append", "appending", "save"}
PlainSummed == Encrypted \ {"sha"}
CipherSummed == PlainSummed \ {"ageSha"}
ParityBegun == {"parityRuns", "dropImage", "append", "appending", "save"}
ParityWhole == ParityBegun \ {"parityRuns"}

\* There is a disc to be in hand.
RoomForDisc == pc \in DiscStages => st.done < MaxDiscs

TypeInv == TypeOK /\ RoomForDisc

\* The run's idea of the set is the saved one, but for what it has not saved
\* yet; a fresh run finds no saved state.
MemoryAgrees ==
  /\ pc \in Loaded => st.done = saved.done /\ st.assigned = saved.assigned
  /\ pc = "fresh" => saved = NoState

\* A complete set has no state, and no run gets past prepareState.
CompleteIsFinal == complete > 0 => saved = NoState /\ pc \in {"idle", "prepare"}

\* What the disc in hand has so far, all of it made by this run.
DiscInHand ==
  /\ pc \in Encrypted => enc[disc].age.gen = gen
  /\ pc \in PlainSummed => enc[disc].sha = gen
  /\ pc \in CipherSummed => enc[disc].ageSha = gen
  /\ pc \in ParityBegun => enc[disc].par = gen
  /\ pc \in ParityWhole => enc[disc].parWhole

\* What is left to write is on no finished disc, and the disc in hand holds
\* the bin.
NothingTwice ==
  /\ pc \in DiscStages \cup {"pack"} => todo \cap st.assigned = {}
  /\ pc \in DiscStages => bin \subseteq todo
  /\ pc \in Encrypted => Held(disc) = bin

SafetyInv ==
  /\ TypeInv
  /\ MemoryAgrees
  /\ CompleteIsFinal
  /\ DiscInHand
  /\ NothingTwice
  /\ FinishedDiscsSound
  /\ EveryFileOnOneDisc

-----------------------------------------------------------------------------
(* Type correctness.                                                       *)

\* The values a first run starts from have the types of the variables they go to.
LEMMA ConstantTypes ==
  /\ NoState \in State /\ NoIndex \in Index /\ NoSealedIndex \in SealedIndex
  /\ NoImage \in Image /\ Nothing \in Protected /\ NoKey \in Key
  /\ NoTree \in Skeleton /\ NoTree \in Tree
<1> USE BoundsAssumption
<1>1. NoTree \in Skeleton /\ NoTree \in Tree
  BY DEF NoTree, Skeleton, Tree
<1>2. NoKey \in Key
  BY DEF NoKey, Key, Gen
<1>3. NoState \in State
  BY <1>1 DEF NoState, State, Gen
<1>4. NoImage \in Image
  BY <1>1, <1>2 DEF NoImage, Image, Gen
<1>5. Nothing \in Protected
  BY <1>4 DEF Nothing, Protected, Gen
<1>6. NoIndex \in Index /\ NoSealedIndex \in SealedIndex
  BY <1>2 DEF NoIndex, NoSealedIndex, Index, SealedIndex, Gen
<1> QED
  BY <1>1, <1>2, <1>3, <1>4, <1>5, <1>6

\* What a step that moves on may write to a disc's files, and to the state.
LEMMA DiscUpdates ==
  ASSUME enc \in [Disc -> Protected], NEW d \in Disc, NEW g \in Gen, NEW i \in Image,
         NEW b \in BOOLEAN
  PROVE  /\ [enc EXCEPT ![d].age = i] \in [Disc -> Protected]
         /\ [enc EXCEPT ![d].sha = g] \in [Disc -> Protected]
         /\ [enc EXCEPT ![d].ageSha = g] \in [Disc -> Protected]
         /\ [enc EXCEPT ![d].par = g] \in [Disc -> Protected]
         /\ [enc EXCEPT ![d].parWhole = b] \in [Disc -> Protected]
         /\ [enc EXCEPT ![d].par = g, ![d].parWhole = b] \in [Disc -> Protected]
<1>1. enc[d] \in Protected
  OBVIOUS
<1>2. /\ [enc[d] EXCEPT !.age = i] \in Protected
      /\ [enc[d] EXCEPT !.sha = g] \in Protected
      /\ [enc[d] EXCEPT !.ageSha = g] \in Protected
      /\ [enc[d] EXCEPT !.par = g] \in Protected
      /\ [enc[d] EXCEPT !.parWhole = b] \in Protected
  BY <1>1 DEF Protected
<1>3. [[enc[d] EXCEPT !.par = g] EXCEPT !.parWhole = b] \in Protected
  BY <1>2 DEF Protected
<1> QED
  BY <1>2, <1>3

\* What a run may make of its state.
LEMMA StateUpdates ==
  ASSUME NEW s \in State, NEW g \in Gen, NEW k \in Skeleton, NEW b \in SUBSET Path,
         NEW n \in 0 .. MaxDiscs
  PROVE  /\ [s EXCEPT !.public = TRUE, !.publicKey = g] \in State
         /\ [s EXCEPT !.skeleton = k] \in State
         /\ [s EXCEPT !.done = n, !.assigned = @ \cup b] \in State
<1>1. [s EXCEPT !.public = TRUE] \in State
  BY DEF State
<1>2. [[s EXCEPT !.public = TRUE] EXCEPT !.publicKey = g] \in State
  BY <1>1 DEF State
<1> QED
  BY <1>2 DEF State

\* Skeletons stay skeletons: no file gets into one, whatever is laid over what.
LEMMA SkeletonTypes ==
  ASSUME NEW s \in State, NEW t \in Trees
  PROVE  /\ SkeletonOf(t) \in Skeleton
         /\ WrittenKinds(s) \in Skeleton
         /\ RecordSkeleton(WrittenKinds(s), t) \in Skeleton
<1>1. t \in Tree
  BY PathsAssumption
<1>2. SkeletonOf(t) \in Skeleton
  BY <1>1 DEF SkeletonOf, Skeleton, Tree
<1>3. s.skeleton \in Skeleton
  BY DEF State
<1>4. WrittenKinds(s) \in Skeleton
  BY <1>3 DEF WrittenKinds, Skeleton, SkeletonKinds
<1> QED
  BY <1>2, <1>4 DEF RecordSkeleton, Skeleton

\* Before the first run.
LEMMA InitTypes == Init => TypeInv
<1> SUFFICES ASSUME Init PROVE TypeInv
  OBVIOUS
<1>1. img \in [Disc -> {"none", "partial", "whole"}] /\ enc \in [Disc -> Protected]
  BY ConstantTypes DEF Init
<1>2. /\ saved \in State /\ st \in State /\ idx \in Index /\ sealed \in SealedIndex
      /\ identity \in Gen /\ key \in Key /\ skel \in Skeleton
  BY ConstantTypes, BoundsAssumption DEF Init, Gen
<1>3. resume \in BOOLEAN /\ indexBuilt \in BOOLEAN
  BY DEF Init
<1>4. /\ attempt \in 0 .. MaxShrinkAttempts /\ changes \in 0 .. MaxTreeChanges
      /\ stops \in 0 .. MaxStops /\ complete \in 0 .. MaxDiscs
  BY BoundsAssumption DEF Init
<1>5. /\ pc = "idle" /\ cfg \in Configs \cup {None} /\ tree \in Trees
      /\ todo \subseteq Path /\ bin \subseteq Path
  BY DEF Init
<1> QED
  BY <1>1, <1>2, <1>3, <1>4, <1>5 DEF TypeInv, TypeOK, RoomForDisc, DiscStages

\* After the end of a run.
LEMMA GoneTypes ==
  ASSUME ProcessGone
  PROVE  /\ pc' = "idle" /\ cfg' \in Configs \cup {None}
         /\ resume' \in BOOLEAN /\ indexBuilt' \in BOOLEAN
         /\ st' \in State /\ key' \in Key /\ skel' \in Skeleton
         /\ todo' \subseteq Path /\ bin' \subseteq Path /\ attempt' \in 0 .. MaxShrinkAttempts
<1>1. resume' \in BOOLEAN /\ indexBuilt' \in BOOLEAN
  BY DEF ProcessGone
<1>2. st' \in State /\ key' \in Key /\ skel' \in Skeleton
  BY ConstantTypes DEF ProcessGone
<1>3. attempt' \in 0 .. MaxShrinkAttempts
  BY BoundsAssumption DEF ProcessGone
<1> QED
  BY <1>1, <1>2, <1>3 DEF ProcessGone

\* One step of a running program.
LEMMA RunTypes == ASSUME TypeInv, Run PROVE TypeInv'
<1> USE DEF TypeInv, TypeOK, RoomForDisc, DiscStages, Goto, staging, memory, world
<1>d. ASSUME pc \in DiscStages PROVE disc \in Disc /\ st.done \in 0 .. MaxDiscs
  BY <1>d, BoundsAssumption DEF disc, Disc, State
<1>g. gen \in Gen /\ 0 \in Gen /\ identity \in Gen
  BY BoundsAssumption DEF gen, Gen
<1>c. pc # "idle" => cfg \in Config
  BY SettingsAssumption
<1>1. CASE ResumeSet
  BY <1>1 DEF ResumeSet, RewriteIndex, Reconciled, Index
<1>2. CASE StartFresh
  BY <1>2, ConstantTypes DEF StartFresh
<1>3. CASE NewState
  <2>1. st' \in State
    BY <1>3, <1>c, <1>g, ConstantTypes DEF NewState, State, NoState, Config
  <2> QED
    BY <1>3, <1>g, <2>1 DEF NewState
<1>4. CASE PrepareRefuses
  BY <1>4, GoneTypes DEF PrepareRefuses, RewriteIndex, Reconciled, Index
<1>5. CASE UseRecipients
  BY <1>5, <1>c, <1>g DEF UseRecipients, Key, Config
<1>6. CASE MintIdentity
  <2>1. st' \in State
    BY <1>6, <1>g, StateUpdates, BoundsAssumption DEF MintIdentity
  <2>2. key' \in Key
    BY <1>6, <1>g DEF MintIdentity, Key
  <2> QED
    BY <1>6, <1>g, <2>1, <2>2 DEF MintIdentity
<1>7. CASE ReuseIdentity
  BY <1>7 DEF ReuseIdentity, Key
<1>8. CASE Filter
  <2>1. todo' \subseteq Path
    BY <1>8 DEF Filter, Pending, Files
  <2>2. skel' \in Skeleton
    BY <1>8, SkeletonTypes DEF Filter, Skeleton
  <2>3. st' \in State
    BY <1>8, SkeletonTypes, StateUpdates, <1>g, BoundsAssumption DEF Filter
  <2> QED
    BY <1>8, <2>1, <2>2, <2>3 DEF Filter
<1>9. CASE NextBin
  BY <1>9, BoundsAssumption DEF NextBin, Bins
<1>10. CASE BeginImage
  BY <1>10 DEF BeginImage
<1>11. CASE FinishImage
  BY <1>11 DEF FinishImage
<1>12. CASE KeepBin
  BY <1>12 DEF KeepBin
<1>13. CASE Shrink
  <2>1. attempt' \in 0 .. MaxShrinkAttempts
    BY <1>13, BoundsAssumption DEF Shrink
  <2>2. img' \in [Disc -> {"none", "partial", "whole"}]
    BY <1>13 DEF Shrink
  <2> QED
    BY <1>13, <2>1, <2>2 DEF Shrink, SmallerBins, Bins
<1>14. CASE ShrinkFails
  BY <1>14, GoneTypes DEF ShrinkFails
<1>15. CASE Encrypt
  <2> DEFINE i == [gen |-> gen, key |-> key, room |-> cfg.room,
                   kinds |-> [p \in Path |-> IF p \in bin THEN FileKind ELSE skel[p]]]
  <2>1. i.kinds \in Tree
    BY DEF Tree, Skeleton
  <2>2. i \in Image
    BY <1>15, <1>c, <1>g, <2>1 DEF Encrypt, Image, Config
  <2>3. enc' \in [Disc -> Protected]
    <3> HIDE DEF i
    <3>1. enc' = [enc EXCEPT ![disc].age = i]
      BY <1>15 DEF Encrypt, i
    <3>2. disc \in Disc
      BY <1>15, <1>d DEF Encrypt
    <3>3. \A d \in Disc : [enc EXCEPT ![d].age = i] \in [Disc -> Protected]
      BY <1>g, <2>2, DiscUpdates
    <3> QED
      BY <3>1, <3>2, <3>3
  <2> QED
    BY <1>15, <2>3 DEF Encrypt
<1>16. CASE WritePlainSum
  <2>1. enc' \in [Disc -> Protected]
    BY <1>16, <1>d, <1>g, ConstantTypes, DiscUpdates DEF WritePlainSum
  <2> QED
    BY <1>16, <2>1 DEF WritePlainSum
<1>17. CASE WriteCipherSum
  <2>1. enc' \in [Disc -> Protected]
    BY <1>17, <1>d, <1>g, ConstantTypes, DiscUpdates DEF WriteCipherSum
  <2> QED
    BY <1>17, <2>1 DEF WriteCipherSum
<1>18. CASE SweepParity
  <2>1. disc \in Disc
    BY <1>18, <1>d DEF SweepParity
  <2>2. /\ [enc EXCEPT ![disc].parWhole = FALSE] \in [Disc -> Protected]
        /\ [enc EXCEPT ![disc].par = 0, ![disc].parWhole = FALSE] \in [Disc -> Protected]
    BY <1>g, <2>1, ConstantTypes, DiscUpdates
  <2>3. enc' \in [Disc -> Protected]
    BY <1>18, <2>2 DEF SweepParity
  <2> QED
    BY <1>18, <2>3 DEF SweepParity
<1>19. CASE BeginParity
  <2>1. enc' \in [Disc -> Protected]
    BY <1>19, <1>d, <1>g, ConstantTypes, DiscUpdates DEF BeginParity
  <2> QED
    BY <1>19, <2>1 DEF BeginParity
<1>20. CASE FinishParity
  <2>1. enc' \in [Disc -> Protected]
    BY <1>20, <1>d, <1>g, ConstantTypes, DiscUpdates DEF FinishParity
  <2> QED
    BY <1>20, <2>1 DEF FinishParity
<1>21. CASE DropImage
  BY <1>21 DEF DropImage
<1>22. CASE AppendRows
  <2>1. disc \in Disc
    BY <1>22, <1>d DEF AppendRows
  <2>2. \A b \in SUBSET Path : Rows(b) \subseteq Row
    BY <1>g, <2>1 DEF Rows, Row
  <2> QED
    BY <1>22, <2>2 DEF AppendRows, Index
<1>23. CASE FinishRows
  <2>1. disc \in Disc
    BY <1>23, <1>d DEF FinishRows
  <2>2. Rows(bin) \subseteq Row
    BY <1>g, <2>1 DEF Rows, Row
  <2>3. idx' \in Index
    BY <1>23, <2>2 DEF FinishRows, Index
  <2> QED
    BY <1>23, <2>3 DEF FinishRows
<1>24. CASE CommitDisc
  <2>1. disc \in 0 .. MaxDiscs
    BY <1>24, <1>d, BoundsAssumption DEF CommitDisc, Disc
  <2>2. st' \in State
    BY <1>24, <1>g, <2>1, ConstantTypes, StateUpdates DEF CommitDisc
  <2> QED
    BY <1>24, <2>2, BoundsAssumption DEF CommitDisc, SaveState
<1>25. CASE AllPacked
  BY <1>25 DEF AllPacked
<1>26. CASE KeepIndex
  BY <1>26 DEF KeepIndex
<1>27. CASE SealIndex
  <2>1. {<<r.disc, r.path>> : r \in idx.rows} \subseteq Disc \X Path
    BY DEF Index, Row
  <2>2. sealed' \in SealedIndex
    BY <1>27, <1>g, <2>1 DEF SealIndex, SealedIndex
  <2> QED
    BY <1>27, <2>2 DEF SealIndex
<1>28. CASE WriteIndexSum
  BY <1>28, <1>g DEF WriteIndexSum, SealedIndex
<1>29. CASE LayOut
  BY <1>29 DEF LayOut
<1>30. CASE FinishIndex
  BY <1>30, ConstantTypes DEF FinishIndex
<1>31. CASE FinishState
  BY <1>31, ConstantTypes, GoneTypes DEF FinishState, State
<1>32. CASE RunRefuses
  BY <1>32, GoneTypes DEF RunRefuses
<1> QED
  BY <1>1, <1>2, <1>3, <1>4, <1>5, <1>6, <1>7, <1>8, <1>9, <1>10, <1>11, <1>12, <1>13, <1>14,
     <1>15, <1>16, <1>17, <1>18, <1>19, <1>20, <1>21, <1>22, <1>23, <1>24, <1>25, <1>26, <1>27,
     <1>28, <1>29, <1>30, <1>31, <1>32
  DEF Run, OneDisc

\* One step of any kind.
LEMMA StepTypes == ASSUME TypeInv, [Next]_vars PROVE TypeInv'
<1> USE DEF TypeInv, TypeOK, RoomForDisc, DiscStages, staging, memory, world
<1>1. ASSUME NEW c \in Configs, NEW r \in BOOLEAN, Start(c, r) PROVE TypeInv'
  BY <1>1 DEF Start, Goto
<1>2. CASE ChangeTree
  BY <1>2, BoundsAssumption DEF ChangeTree
<1>3. CASE Run
  BY <1>3, RunTypes
<1>4. CASE Stop
  BY <1>4, GoneTypes, BoundsAssumption DEF Stop
<1>5. CASE ToolFails
  <2>1. 0 \in Gen /\ FALSE \in BOOLEAN
    BY BoundsAssumption DEF Gen
  <2>2. pc = "parityRuns" => disc \in Disc
    BY BoundsAssumption DEF disc, Disc, State
  <2>3. enc' \in [Disc -> Protected]
    BY <1>5, <2>1, <2>2, ConstantTypes, DiscUpdates DEF ToolFails
  <2>4. stops' \in 0 .. MaxStops
    BY <1>5, BoundsAssumption DEF ToolFails
  <2> QED
    BY <1>5, <2>3, <2>4, GoneTypes DEF ToolFails
<1>6. CASE UNCHANGED vars
  BY <1>6 DEF vars
<1> QED
  BY <1>1, <1>2, <1>3, <1>4, <1>5, <1>6 DEF Next

\* Every variable keeps the type its comment gives it, whatever the runs meet:
\* in particular no run ever numbers a disc past the bound or leaves a row, a
\* key or a recovery set of a run that has not happened.
THEOREM TypeCorrect == Spec => []TypeOK
<1>1. Init => TypeInv
  BY InitTypes
<1>2. TypeInv /\ [Next]_vars => TypeInv'
  BY StepTypes
<1>3. TypeInv => TypeOK
  BY DEF TypeInv
<1> QED
  BY <1>1, <1>2, <1>3, PTL DEF Spec
-----------------------------------------------------------------------------
(* Finished discs.                                                         *)

\* A run past prepareState works on an incomplete set, and the disc in its
\* hand is not a finished one.
LEMMA NotFinishedYet ==
  ASSUME SafetyInv, pc \in Loaded \cup {"fresh"}
  PROVE  /\ complete = 0 /\ saved.done \in 0 .. MaxDiscs /\ st.done \in 0 .. MaxDiscs
         /\ Finished = 1 .. saved.done
         /\ pc \in DiscStages => disc \in Disc \ Finished
<1> USE BoundsAssumption DEF SafetyInv, TypeInv, TypeOK
<1>1. complete = 0
  BY DEF CompleteIsFinal, Loaded, DiscStages
<1>2. saved.done \in 0 .. MaxDiscs /\ st.done \in 0 .. MaxDiscs
  BY DEF State
<1>3. Finished = 1 .. saved.done
  BY <1>1, <1>2 DEF Finished, Disc
<1>4. ASSUME pc \in DiscStages PROVE disc \in Disc \ Finished
  BY <1>2, <1>3, <1>4 DEF MemoryAgrees, Loaded, RoomForDisc, disc, Disc
<1> QED
  BY <1>1, <1>2, <1>3, <1>4

\* What is said of the finished discs survives a step that writes none of them.
LEMMA FinishedKept ==
  ASSUME SafetyInv, UNCHANGED <<saved, complete>>, \A d \in Finished : enc'[d] = enc[d]
  PROVE  FinishedDiscsSound' /\ EveryFileOnOneDisc'
<1>1. Finished' = Finished
  BY DEF Finished
<1>2. FinishedDiscsSound'
  BY <1>1 DEF SafetyInv, FinishedDiscsSound
<1>3. 1 .. saved.done \subseteq Finished
  BY BoundsAssumption DEF SafetyInv, TypeInv, TypeOK, State, Finished, Disc
<1>4. \A d \in Finished : Held(d)' = Held(d)
  BY DEF Held
<1>5. {Held(d) : d \in 1 .. saved.done}' = {Held(d) : d \in 1 .. saved.done}
  BY <1>3, <1>4
<1> QED
  BY <1>1, <1>2, <1>4, <1>5 DEF SafetyInv, EveryFileOnOneDisc

\* A file left to write by a run whose tree kept its kinds is on no disc yet.
LEMMA PendingIsNew ==
  ASSUME NEW s \in State, NEW t \in Trees, ChangedKinds(s, t) = {}
  PROVE  Pending(s, t) \cap s.assigned = {}
<1> SUFFICES ASSUME NEW p \in Pending(s, t), p \in s.assigned PROVE FALSE
  OBVIOUS
<1>1. p \in Path /\ t[p] = FileKind /\ WrittenKinds(s)[p] # Absent
  BY DEF Pending, Files
<1>2. WrittenKinds(s)[p] # FileKind
  BY <1>1, SkeletonTypes DEF Skeleton, SkeletonKinds, FileKind, Absent
<1>3. p \in ChangedKinds(s, t)
  BY <1>1, <1>2 DEF ChangedKinds, FileKind, Absent
<1> QED
  BY <1>3

\* Staging is empty before the first run, so nothing is finished.
LEMMA InitSafe == Init => SafetyInv
<1> SUFFICES ASSUME Init PROVE SafetyInv
  OBVIOUS
<1>1. TypeInv
  BY InitTypes
<1>2. Finished = {} /\ 1 .. saved.done = {}
  BY BoundsAssumption DEF Init, Finished, Disc, NoState
<1>3. FinishedDiscsSound /\ EveryFileOnOneDisc
  BY <1>2 DEF FinishedDiscsSound, EveryFileOnOneDisc, Init, NoState
<1>4. MemoryAgrees /\ CompleteIsFinal /\ DiscInHand /\ NothingTwice
  BY DEF Init, MemoryAgrees, CompleteIsFinal, DiscInHand, NothingTwice, Loaded, DiscStages,
         Encrypted, PlainSummed, CipherSummed, ParityBegun, ParityWhole
<1> QED
  BY <1>1, <1>3, <1>4 DEF SafetyInv

\* The bookkeeping part of SafetyInv, which every step must restore.
Bookkeeping == MemoryAgrees /\ CompleteIsFinal /\ DiscInHand /\ NothingTwice

\* A run that ends before it has completed the set leaves nothing to restore.
LEMMA GoneKeepsBooks ==
  ASSUME SafetyInv, ProcessGone, UNCHANGED <<saved, complete>>
  PROVE  Bookkeeping'
<1>1. pc' = "idle"
  BY DEF ProcessGone
<1> QED
  BY <1>1 DEF SafetyInv, Bookkeeping, MemoryAgrees, CompleteIsFinal, DiscInHand, NothingTwice,
              Loaded, DiscStages, Encrypted, PlainSummed, CipherSummed, ParityBegun, ParityWhole

\* What happens between runs, and a run being cut short.
LEMMA OutsideKeepsSafe ==
  ASSUME SafetyInv,
         \/ \E c \in Configs, r \in BOOLEAN : Start(c, r)
         \/ ChangeTree \/ Stop \/ UNCHANGED vars
  PROVE  Bookkeeping' /\ UNCHANGED <<saved, complete, enc>>
<1> USE DEF staging, memory, world
<1>1. ASSUME NEW c \in Configs, NEW r \in BOOLEAN, Start(c, r)
      PROVE  Bookkeeping' /\ UNCHANGED <<saved, complete, enc>>
  <2>1. pc' = "prepare" /\ UNCHANGED <<saved, complete, enc>>
    BY <1>1 DEF Start, Goto
  <2> QED
    BY <2>1 DEF SafetyInv, Bookkeeping, MemoryAgrees, CompleteIsFinal, DiscInHand, NothingTwice,
                Loaded, DiscStages, Encrypted, PlainSummed, CipherSummed, ParityBegun, ParityWhole
<1>2. CASE ChangeTree
  BY <1>2 DEF ChangeTree, SafetyInv, Bookkeeping, MemoryAgrees, CompleteIsFinal, DiscInHand,
              NothingTwice, Held, disc, gen
<1>3. CASE Stop
  BY <1>3, GoneKeepsBooks DEF Stop
<1>4. CASE UNCHANGED vars
  BY <1>4 DEF vars, SafetyInv, Bookkeeping, MemoryAgrees, CompleteIsFinal, DiscInHand,
              NothingTwice, Held, disc, gen
<1> QED
  BY <1>1, <1>2, <1>3, <1>4
\* Steps of a run that write no disc and do not move the state.
LEMMA AsideKeepsSafe ==
  ASSUME SafetyInv, TypeInv',
         \/ ResumeSet \/ StartFresh \/ NewState \/ PrepareRefuses
         \/ UseRecipients \/ MintIdentity \/ ReuseIdentity \/ Filter
         \/ NextBin \/ BeginImage \/ FinishImage \/ KeepBin \/ Shrink \/ ShrinkFails
         \/ DropImage \/ AppendRows \/ FinishRows
         \/ AllPacked \/ KeepIndex \/ SealIndex \/ WriteIndexSum \/ LayOut \/ FinishIndex
         \/ RunRefuses
  PROVE  Bookkeeping' /\ UNCHANGED <<saved, complete, enc>>
<1> USE DEF staging, memory, world, Goto
<1> DEFINE Books == Bookkeeping' /\ UNCHANGED <<saved, complete, enc>>
<1>b. SafetyInv => Bookkeeping
  BY DEF SafetyInv, Bookkeeping
<1>c. pc \in Loaded \cup {"fresh"} => complete = 0
  BY NotFinishedYet
<1> USE DEF Bookkeeping, MemoryAgrees, CompleteIsFinal, DiscInHand, NothingTwice, Held, disc, gen,
            Loaded, DiscStages, Encrypted, PlainSummed, CipherSummed, ParityBegun, ParityWhole
<1>1. CASE ResumeSet
  <2>1. complete = 0
    BY <1>1, BoundsAssumption DEF ResumeSet, CanResume, SafetyInv, TypeInv, TypeOK
  <2> QED
    BY <1>1, <2>1 DEF ResumeSet
<1>2. CASE StartFresh
  <2>1. complete = 0
    <3> SUFFICES ASSUME complete # 0 PROVE FALSE
      OBVIOUS
    <3>1. 1 \in Finished
      BY BoundsAssumption DEF SafetyInv, TypeInv, TypeOK, Finished, Disc
    <3>2. 1 \in Disc /\ enc[1].age.gen # 0
      BY <3>1 DEF SafetyInv, FinishedDiscsSound, Finished
    <3> QED
      BY <1>2, <3>2 DEF StartFresh, CanStartFresh, AnyCiphertext
  <2> QED
    BY <1>2, <2>1 DEF StartFresh, CanStartFresh
<1>3. CASE NewState
  <2>1. saved = NoState /\ st'.done = 0 /\ st'.assigned = {}
    BY <1>3, <1>b DEF NewState, NoState
  <2> QED
    BY <1>3, <1>c, <2>1 DEF NewState, NoState
<1>4. CASE PrepareRefuses
  BY <1>4, GoneKeepsBooks DEF PrepareRefuses
<1>5. CASE UseRecipients
  BY <1>5, <1>b, <1>c DEF UseRecipients
<1>6. CASE MintIdentity
  <2>1. st'.done = st.done /\ st'.assigned = st.assigned
    BY <1>6 DEF MintIdentity, SafetyInv, TypeInv, TypeOK, State
  <2> QED
    BY <1>6, <1>b, <1>c, <2>1 DEF MintIdentity
<1>7. CASE ReuseIdentity
  BY <1>7, <1>b, <1>c DEF ReuseIdentity
<1>8. CASE Filter
  <2>1. st'.done = st.done /\ st'.assigned = st.assigned
    BY <1>8 DEF Filter, SafetyInv, TypeInv, TypeOK, State
  <2>2. todo' \cap st.assigned = {}
    BY <1>8, PendingIsNew DEF Filter, CanFilter, SafetyInv, TypeInv, TypeOK
  <2> QED
    BY <1>8, <1>b, <1>c, <2>1, <2>2 DEF Filter
<1>9. CASE NextBin
  BY <1>9, <1>b, <1>c DEF NextBin, Bins
<1>10. CASE BeginImage
  BY <1>10, <1>b, <1>c DEF BeginImage
<1>11. CASE FinishImage
  BY <1>11, <1>b, <1>c DEF FinishImage
<1>12. CASE KeepBin
  BY <1>12, <1>b, <1>c DEF KeepBin
<1>13. CASE Shrink
  BY <1>13, <1>b, <1>c DEF Shrink, SmallerBins, Bins
<1>14. CASE ShrinkFails
  BY <1>14, GoneKeepsBooks DEF ShrinkFails
<1>15. CASE DropImage
  BY <1>15, <1>b, <1>c DEF DropImage
<1>16. CASE AppendRows
  BY <1>16, <1>b, <1>c DEF AppendRows
<1>17. CASE FinishRows
  BY <1>17, <1>b, <1>c DEF FinishRows
<1>18. CASE AllPacked
  BY <1>18, <1>b, <1>c DEF AllPacked
<1>19. CASE KeepIndex
  BY <1>19, <1>b, <1>c DEF KeepIndex
<1>20. CASE SealIndex
  BY <1>20, <1>b, <1>c DEF SealIndex
<1>21. CASE WriteIndexSum
  BY <1>21, <1>b, <1>c DEF WriteIndexSum
<1>22. CASE LayOut
  BY <1>22, <1>b, <1>c DEF LayOut
<1>23. CASE FinishIndex
  BY <1>23, <1>b, <1>c DEF FinishIndex
<1>24. CASE RunRefuses
  BY <1>24, GoneKeepsBooks DEF RunRefuses
<1> QED
  BY <1>1, <1>2, <1>3, <1>4, <1>5, <1>6, <1>7, <1>8, <1>9, <1>10, <1>11, <1>12, <1>13, <1>14,
     <1>15, <1>16, <1>17, <1>18, <1>19, <1>20, <1>21, <1>22, <1>23, <1>24

\* Steps that write the disc in hand: the others keep their files.
LEMMA ProtectKeepsSafe ==
  ASSUME SafetyInv,
         \/ Encrypt \/ WritePlainSum \/ WriteCipherSum
         \/ SweepParity \/ BeginParity \/ FinishParity \/ ToolFails
  PROVE  /\ Bookkeeping' /\ UNCHANGED <<saved, complete>>
         /\ \A d \in Finished : enc'[d] = enc[d]
<1> USE DEF staging, memory, world, Goto
<1>b. Bookkeeping
  BY DEF SafetyInv, Bookkeeping
<1>c. pc \in DiscStages
  BY DEF Encrypt, WritePlainSum, WriteCipherSum, SweepParity, BeginParity, FinishParity,
         ToolFails, DiscStages
<1>d. complete = 0 /\ disc \in Disc /\ disc \notin Finished
  BY <1>c, NotFinishedYet DEF Loaded
<1>e. enc \in [Disc -> Protected] /\ enc[disc] \in Protected
  BY <1>d DEF SafetyInv, TypeInv, TypeOK
<1>f. Finished \subseteq Disc
  BY DEF Finished
<1>g. \A d \in Finished : enc'[d] = enc[d]
  BY <1>d, <1>e, <1>f DEF Encrypt, WritePlainSum, WriteCipherSum, SweepParity, BeginParity,
                         FinishParity, ToolFails
<1>h. UNCHANGED <<saved, complete>>
  BY DEF Encrypt, WritePlainSum, WriteCipherSum, SweepParity, BeginParity, FinishParity, ToolFails
<1> USE DEF Bookkeeping, MemoryAgrees, CompleteIsFinal, DiscInHand, NothingTwice,
            Loaded, DiscStages, Encrypted, PlainSummed, CipherSummed, ParityBegun, ParityWhole
<1>1. CASE Encrypt
  <2>1. disc' = disc /\ gen' = gen /\ enc'[disc].age.gen = gen
    BY <1>1, <1>d, <1>e DEF Encrypt, disc, gen, Protected
  <2>2. Held(disc)' = bin
    <3>1. enc'[disc].age.kinds = [p \in Path |-> IF p \in bin THEN FileKind ELSE skel[p]]
      BY <1>1, <1>d, <1>e DEF Encrypt, Protected
    <3>2. bin \subseteq Path /\ \A p \in Path : skel[p] # FileKind
      BY DEF SafetyInv, TypeInv, TypeOK, Skeleton, SkeletonKinds, FileKind, Absent
    <3> QED
      BY <2>1, <3>1, <3>2 DEF Held, Files
  <2> QED
    BY <1>1, <1>b, <1>d, <1>g, <1>h, <2>1, <2>2 DEF Encrypt
<1>2. CASE WritePlainSum
  <2>1. /\ disc' = disc /\ gen' = gen /\ enc'[disc].sha = gen
        /\ enc'[disc].age = enc[disc].age
    BY <1>2, <1>d, <1>e DEF WritePlainSum, disc, gen, Protected
  <2> QED
    BY <1>2, <1>b, <1>d, <1>g, <1>h, <2>1 DEF WritePlainSum, Held
<1>3. CASE WriteCipherSum
  <2>1. /\ disc' = disc /\ gen' = gen /\ enc'[disc].ageSha = gen
        /\ enc'[disc].age = enc[disc].age /\ enc'[disc].sha = enc[disc].sha
    BY <1>3, <1>d, <1>e DEF WriteCipherSum, disc, gen, Protected
  <2> QED
    BY <1>3, <1>b, <1>d, <1>g, <1>h, <2>1 DEF WriteCipherSum, Held
<1>4. CASE SweepParity
  <2>1. /\ disc' = disc /\ gen' = gen /\ enc'[disc].ageSha = enc[disc].ageSha
        /\ enc'[disc].age = enc[disc].age /\ enc'[disc].sha = enc[disc].sha
    BY <1>4, <1>d, <1>e DEF SweepParity, disc, gen, Protected
  <2>2. pc' \in {"sweep", "parity"}
    BY <1>4 DEF SweepParity
  <2> QED
    BY <1>4, <1>b, <1>d, <1>g, <1>h, <2>1, <2>2 DEF SweepParity, Held
<1>5. CASE BeginParity
  <2>1. /\ disc' = disc /\ gen' = gen /\ enc'[disc].par = gen
        /\ enc'[disc].age = enc[disc].age /\ enc'[disc].sha = enc[disc].sha
        /\ enc'[disc].ageSha = enc[disc].ageSha
    BY <1>5, <1>d, <1>e DEF BeginParity, disc, gen, Protected
  <2> QED
    BY <1>5, <1>b, <1>d, <1>g, <1>h, <2>1 DEF BeginParity, Held
<1>6. CASE FinishParity
  <2>1. /\ disc' = disc /\ gen' = gen /\ enc'[disc].par = enc[disc].par
        /\ enc'[disc].age = enc[disc].age /\ enc'[disc].sha = enc[disc].sha
        /\ enc'[disc].ageSha = enc[disc].ageSha
    BY <1>6, <1>d, <1>e DEF FinishParity, disc, gen, Protected
  <2>2. enc'[disc].parWhole
    BY <1>6, <1>d, <1>e DEF FinishParity, Protected
  <2> QED
    BY <1>6, <1>b, <1>d, <1>g, <1>h, <2>1, <2>2 DEF FinishParity, Held
<1>7. CASE ToolFails
  BY <1>7, <1>g, <1>h, GoneKeepsBooks DEF ToolFails
<1> QED
  BY <1>1, <1>2, <1>3, <1>4, <1>5, <1>6, <1>7, <1>g, <1>h
\* The save of the state makes the disc in hand a finished one.
LEMMA CommitKeepsSafe ==
  ASSUME SafetyInv, CommitDisc
  PROVE  /\ Bookkeeping' /\ FinishedDiscsSound' /\ EveryFileOnOneDisc'
         /\ enc' = enc /\ Finished \subseteq Finished'
<1> USE DEF staging, memory, world, Goto, CommitDisc, SaveState
<1>1. /\ complete = 0 /\ saved.done \in 0 .. MaxDiscs /\ Finished = 1 .. saved.done
      /\ disc \in Disc /\ disc \notin Finished /\ st.done = saved.done
      /\ st.assigned = saved.assigned
  BY NotFinishedYet DEF Loaded, DiscStages, SafetyInv, MemoryAgrees
<1>2. /\ saved' = st' /\ saved'.done = disc /\ saved'.assigned = saved.assigned \cup bin
      /\ complete' = complete /\ enc' = enc /\ todo' = todo \ bin
  BY <1>1, ConstantTypes DEF SafetyInv, TypeInv, TypeOK, State
<1>3. Finished' = Finished \cup {disc} /\ (1 .. saved.done)' = Finished \cup {disc}
  BY <1>1, <1>2, BoundsAssumption DEF Finished, disc, Disc
<1>4. /\ enc[disc].age.gen = gen /\ enc[disc].sha = gen /\ enc[disc].ageSha = gen
      /\ enc[disc].par = gen /\ enc[disc].parWhole /\ gen # 0
  BY BoundsAssumption DEF SafetyInv, DiscInHand, Encrypted, PlainSummed, CipherSummed, ParityBegun,
         ParityWhole, gen, TypeInv, TypeOK
<1>5. FinishedDiscsSound'
  BY <1>2, <1>3, <1>4 DEF SafetyInv, FinishedDiscsSound
<1>6. /\ Held(disc) = bin /\ bin \subseteq todo /\ todo \cap saved.assigned = {}
  BY <1>1 DEF SafetyInv, NothingTwice, Encrypted, DiscStages
<1>7. saved.assigned = UNION {Held(d) : d \in Finished}
  BY <1>1 DEF SafetyInv, EveryFileOnOneDisc
<1>8. \A d : Held(d)' = Held(d)
  BY <1>2 DEF Held
<1>9. EveryFileOnOneDisc'
  <2>1. \A d, e \in Finished' : d # e => Held(d)' \cap Held(e)' = {}
    <3>1. \A d \in Finished : Held(d) \cap Held(disc) = {}
      BY <1>6, <1>7
    <3>2. \A d, e \in Finished : d # e => Held(d) \cap Held(e) = {}
      BY DEF SafetyInv, EveryFileOnOneDisc
    <3> QED
      BY <1>3, <1>8, <3>1, <3>2
  <2>2. saved'.assigned = UNION {Held(d)' : d \in Finished'}
    BY <1>2, <1>3, <1>6, <1>7, <1>8
  <2> QED
    BY <1>3, <2>1, <2>2 DEF EveryFileOnOneDisc
<1>10. Bookkeeping'
  <2>1. st'.done = saved'.done /\ st'.assigned = saved'.assigned /\ todo' \cap st'.assigned = {}
    BY <1>2, <1>6
  <2> QED
    BY <1>1, <1>2, <2>1 DEF Bookkeeping, MemoryAgrees, CompleteIsFinal, DiscInHand, NothingTwice,
       Loaded, DiscStages, Encrypted, PlainSummed, CipherSummed, ParityBegun, ParityWhole
<1> QED
  BY <1>2, <1>3, <1>5, <1>9, <1>10

\* The end of finish: the discs the state counted are those of a complete set.
LEMMA FinishKeepsSafe ==
  ASSUME SafetyInv, FinishState
  PROVE  /\ Bookkeeping' /\ FinishedDiscsSound' /\ EveryFileOnOneDisc'
         /\ enc' = enc /\ Finished \subseteq Finished'
<1> USE DEF staging, memory, world, FinishState
<1>1. /\ complete = 0 /\ saved.done \in 0 .. MaxDiscs /\ Finished = 1 .. saved.done
      /\ st.done = saved.done
  BY NotFinishedYet DEF Loaded, SafetyInv, MemoryAgrees
<1>2. saved' = NoState /\ pc' = "idle" /\ enc' = enc /\ complete' = saved.done
  BY <1>1 DEF ProcessGone
<1>3. Finished' = Finished /\ (1 .. saved.done)' = {} /\ saved'.assigned = {}
  BY <1>1, <1>2, BoundsAssumption DEF Finished, Disc, NoState
<1>4. FinishedDiscsSound'
  BY <1>2, <1>3 DEF SafetyInv, FinishedDiscsSound
<1>5. EveryFileOnOneDisc'
  BY <1>2, <1>3 DEF SafetyInv, EveryFileOnOneDisc, Held
<1>6. Bookkeeping'
  BY <1>2 DEF Bookkeeping, MemoryAgrees, CompleteIsFinal, DiscInHand, NothingTwice,
     Loaded, DiscStages, Encrypted, PlainSummed, CipherSummed, ParityBegun, ParityWhole
<1> QED
  BY <1>2, <1>3, <1>4, <1>5, <1>6

\* One step of the system, whatever it is, keeps SafetyInv, and keeps every
\* finished disc both finished and as it was.
LEMMA StepSafe ==
  ASSUME SafetyInv, [Next]_vars
  PROVE  /\ SafetyInv'
         /\ \A d \in Finished : enc'[d] = enc[d] /\ d \in Finished'
<1>1. TypeInv'
  BY StepTypes DEF SafetyInv
<1>2. CASE /\ Bookkeeping' /\ UNCHANGED <<saved, complete>>
           /\ \A d \in Finished : enc'[d] = enc[d]
  <2>1. FinishedDiscsSound' /\ EveryFileOnOneDisc'
    BY <1>2, FinishedKept
  <2>2. Finished' = Finished
    BY <1>2 DEF Finished
  <2> QED
    BY <1>1, <1>2, <2>1, <2>2 DEF SafetyInv, Bookkeeping
<1>3. CASE /\ Bookkeeping' /\ FinishedDiscsSound' /\ EveryFileOnOneDisc'
           /\ enc' = enc /\ Finished \subseteq Finished'
  BY <1>1, <1>3 DEF SafetyInv, Bookkeeping
<1>4. CASE (\E c \in Configs, r \in BOOLEAN : Start(c, r)) \/ ChangeTree \/ Stop \/ UNCHANGED vars
  BY <1>2, <1>4, OutsideKeepsSafe
<1>5. CASE ToolFails
  BY <1>2, <1>5, ProtectKeepsSafe
<1>6. CASE Run
  <2>1. CASE \/ ResumeSet \/ StartFresh \/ NewState \/ PrepareRefuses
             \/ UseRecipients \/ MintIdentity \/ ReuseIdentity \/ Filter
             \/ NextBin \/ BeginImage \/ FinishImage \/ KeepBin \/ Shrink \/ ShrinkFails
             \/ DropImage \/ AppendRows \/ FinishRows
             \/ AllPacked \/ KeepIndex \/ SealIndex \/ WriteIndexSum \/ LayOut \/ FinishIndex
             \/ RunRefuses
    BY <1>1, <1>2, <2>1, AsideKeepsSafe
  <2>2. CASE \/ Encrypt \/ WritePlainSum \/ WriteCipherSum
             \/ SweepParity \/ BeginParity \/ FinishParity
    BY <1>2, <2>2, ProtectKeepsSafe
  <2>3. CASE CommitDisc
    BY <1>3, <2>3, CommitKeepsSafe
  <2>4. CASE FinishState
    BY <1>3, <2>4, FinishKeepsSafe
  <2> QED
    BY <1>6, <2>1, <2>2, <2>3, <2>4 DEF Run, OneDisc
<1> QED
  BY <1>4, <1>5, <1>6 DEF Next

-----------------------------------------------------------------------------
(* What a set may rely on.                                                 *)

\* SafetyInv is inductive, so it holds of every state the runs can reach.
THEOREM SafetyHolds == Spec => []SafetyInv
<1>1. Init => SafetyInv
  BY InitSafe
<1>2. SafetyInv /\ [Next]_vars => SafetyInv'
  BY StepSafe
<1> QED
  BY <1>1, <1>2, PTL DEF Spec

\* At whatever step a run dies, the discs that count are whole and protected by
\* checksums and recovery data of their own ciphertext.
THEOREM FinishedDiscsAreSound == Spec => []FinishedDiscsSound
<1>1. SafetyInv => FinishedDiscsSound
  BY DEF SafetyInv
<1> QED
  BY <1>1, SafetyHolds, PTL

\* However many runs build the set, no file is on two of its discs and no file
\* the state calls written is on none.
THEOREM FilesAreOnOneDisc == Spec => []EveryFileOnOneDisc
<1>1. SafetyInv => EveryFileOnOneDisc
  BY DEF SafetyInv
<1> QED
  BY <1>1, SafetyHolds, PTL

\* No step, of whichever run with whatever settings, writes a finished disc or
\* makes it an unfinished one.
THEOREM FinishedDiscsAreUntouched == Spec => FinishedDiscsUntouched
<1>1. SafetyInv /\ [Next]_vars => [\A d \in Finished : enc'[d] = enc[d] /\ d \in Finished']_vars
  BY StepSafe
<1> QED
  BY <1>1, SafetyHolds, PTL DEF Spec, FinishedDiscsUntouched
=============================================================================
