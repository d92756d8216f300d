---------------------------- MODULE IngestProofs ----------------------------
(***************************************************************************)
(* What Ingest promises whatever discs there are, however they read, in    *)
(* whatever order they are fed and wherever a run is stopped: types, that  *)
(* nothing of the pinned set is lost and nothing of another set gets in,   *)
(* and that a run without a problem accounts for every file.               *)
(***************************************************************************)
EXTENDS Ingest, SequenceTheorems, TLAPS

AtFiles == {"file", "copy", "rescue", "landed"}

\* Where the pass is, and that it has a disc.
TypeInv ==
  /\ TypeOK
  /\ pc # "idle" => medium \in Pressings
  /\ pc \in {"idle", "index", "key"} => at = 1
  /\ pc \in AtFiles => at \in 1 .. 3
  /\ pc = "manifest" => at = 4

ReadFrom(bytes) == \A b \in Block : bytes[b] \in medium.data[Order[at]][b]

\* What is being copied is new, or of a file that is staged and has no map, and
\* what has just been read was read from the disc in the drive.
CopyInHand ==
  /\ pc \in {"copy", "rescue"} /\ target = "primary" => staged[Current] = None
  /\ pc = "landed" /\ target = "primary" => staged[Current] # None /\ ReadFrom(staged[Current])
  /\ pc \in {"copy", "rescue", "landed"} /\ target = "alternate" =>
       at # 2 /\ staged[Current] # None /\ unread[Current] = {}
  /\ pc = "landed" /\ target = "alternate" =>
       Len(Alternates) > 0 /\ Newest.gaps = {} /\ ReadFrom(Newest.bytes)

\* Past the judgement, the disc in the drive is of the pinned set.
OursInDrive ==
  pc \notin {"idle", "index"} =>
    \A s \in Set : Pinned(s) /\ Recognised(s) => medium.set = s

IngestInv == TypeInv /\ CopyInHand /\ OursInDrive

\* The disc in the drive is of another set than the staged index.
Foreign == staged[Index] # None /\ ~IndexOf(medium.set, staged[Index])

\* No foreign disc has a verdict that lets it pass, and none has passed its index
\* in a run without a problem.
VerdictSound == pc # "idle" /\ verdict \in {"same", "vouchedFor"} => staged[Index] # None /\ ~Foreign
PastTheIndex == pc # "idle" /\ at > 2 /\ ~bad => staged[Index] # None /\ ~Foreign

\* The discs that recorded a hash are of the set of the index, and until there is
\* one, of the set of the disc in the drive.
VouchersKnown ==
  ~bad => \A v \in vouched :
    \/ staged[Index] # None /\ IndexOf(v[2], staged[Index])
    \/ pc # "idle" /\ at <= 2 /\ v[2] = medium.set

\* The copies of a file without the one still to be judged.
Standing(n) == IF pc = "landed" /\ target = "alternate" /\ n = Current THEN Others ELSE copies[n]

AccountedFor(v) ==
  /\ staged[v[1]] # None /\ unread[v[1]] = {}
  /\ \/ staged[v[1]] = Whole(v[2])
     \/ \E i \in DOMAIN Standing(v[1]) :
          Standing(v[1])[i].gaps = {} /\ Standing(v[1])[i].bytes # staged[v[1]]

JustVouched(v) == pc \in {"copy", "rescue", "landed"} /\ v = <<Current, medium.sums[Order[at]]>>

\* A foreign disc may take apart what is accounted for, but not in a run that
\* then reports no problem.
RunAccounted ==
  ~bad => \/ pc # "idle" /\ at <= 2 /\ Foreign
          \/ \A v \in vouched : v[1] = Index \/ AccountedFor(v) \/ JustVouched(v)

RunInv == IngestInv /\ VerdictSound /\ PastTheIndex /\ VouchersKnown /\ RunAccounted

-----------------------------------------------------------------------------
(* The file the pass is at, and what may be read of it.                    *)

\* Only the second file of the order is the index, and only the first an image.
LEMMA FileAtHand ==
  ASSUME medium \in Pressings, at \in 1 .. 3
  PROVE  /\ Order[at] \in Kind /\ Current \in Name
         /\ Current = Index <=> at = 2
         /\ Order[at] = "index" <=> at = 2
         /\ IsImage <=> Current[1] = "image"
         /\ IsImage <=> at = 1
  <1>1. medium.disc \in DiscNo
    BY IngestAssumption DEF Pressing
  <1>2. \/ at = 1 /\ Order[at] = "image"
        \/ at = 2 /\ Order[at] = "index"
        \/ at = 3 /\ Order[at] = "parity"
    BY DEF Order
  <1>3. CASE at = 1
    <2>1. Current = <<"image", medium.disc>>
      BY <1>2, <1>3 DEF Current, File
    <2> QED
      BY <1>1, <1>2, <1>3, <2>1 DEF Kind, Name, Index, IsImage
  <1>4. CASE at = 2
    <2>1. Current = Index
      BY <1>2, <1>4 DEF Current, File
    <2> QED
      BY <1>2, <1>4, <2>1 DEF Kind, Name, Index, IsImage
  <1>5. CASE at = 3
    <2>1. Current = <<"parity", medium.disc>>
      BY <1>2, <1>5 DEF Current, File
    <2> QED
      BY <1>1, <1>2, <1>5, <2>1 DEF Kind, Name, Index, IsImage
  <1> QED
    BY <1>3, <1>4, <1>5

\* What a disc records, reads as and publishes.
LEMMA DiscFacts ==
  ASSUME NEW d \in Pressings
  PROVE  /\ d.set \in Set /\ d.key \in Set \cup {None, Bad} /\ d.key \in {d.set, None, Bad}
         /\ \A k \in Kind : d.sums[k] \in Set \cup {None} /\ d.sums[k] \in {d.set, None}
         /\ \A k \in Kind, b \in Block : d.data[k][b] \subseteq Byte \cup {Bad}
         /\ \A k \in Kind, b \in Block, s \in Set : s \in d.data[k][b] => s = d.set
  <1>1. d \in Pressing
    BY IngestAssumption
  <1>2. /\ d.set \in Set /\ d.key \in Set \cup {None, Bad}
        /\ \A k \in Kind : d.sums[k] \in Set \cup {None}
    BY <1>1 DEF Pressing
  <1>3. \A k \in Kind, b \in Block : d.data[k][b] \subseteq Byte \cup {Bad}
    BY <1>1 DEF Pressing
  <1> QED
    BY <1>2, <1>3, DiscsAreOfTheirSet

\* Bytes that an ingest of the disc in the drive may leave of a file: a block of a set
\* in them was read from the disc.
Fresh(bytes) ==
  bytes \in Content /\ \A b \in Block : bytes[b] \in Set => bytes[b] \in medium.data[Order[at]][b]

LEMMA ReadingFacts ==
  ASSUME medium \in Pressings, at \in 1 .. 3, NEW r \in Readings(Order[at])
  PROVE  /\ Clean(r) => Fresh(r) /\ ReadFrom(r)
         /\ Fresh(Filled(r)) /\ Gaps(r) \subseteq Block
         /\ \A b \in Block : r[b] \in Byte \cup {Bad} /\ r[b] \in medium.data[Order[at]][b]
  <1>1. r \in [Block -> Byte \cup {Bad}] /\ \A b \in Block : r[b] \in medium.data[Order[at]][b]
    BY DEF Readings
  <1>2. Clean(r) => Fresh(r) /\ ReadFrom(r)
    <2> HAVE Clean(r)
    <2>1. \A b \in Block : r[b] \in Byte
      BY <1>1 DEF Clean
    <2>2. r \in Content
      BY <1>1, <2>1 DEF Content
    <2> QED
      BY <1>1, <2>2 DEF Fresh, ReadFrom
  <1>3. Fresh(Filled(r))
    <2>1. Zero \in Byte /\ Zero \notin Set
      BY IngestAssumption DEF Byte
    <2>2. \A b \in Block : Filled(r)[b] = IF r[b] = Bad THEN Zero ELSE r[b]
      BY DEF Filled
    <2>3. Filled(r) \in Content
      BY <1>1, <2>1 DEF Filled, Content
    <2> QED
      BY <1>1, <2>1, <2>2, <2>3 DEF Fresh
  <1> QED
    BY <1>1, <1>2, <1>3 DEF Gaps

-----------------------------------------------------------------------------
(* Types.                                                                  *)

LEMMA Initially == Init => RunInv
  <1> SUFFICES ASSUME Init PROVE RunInv
    OBVIOUS
  <1>1. TypeOK
    <2>1. staged \in [Name -> Content \cup {None}] /\ unread \in [Name -> SUBSET Block]
      BY DEF Init
    <2>2. copies \in [Name -> Seq(Copy)]
      <3>1. <<>> \in Seq(Copy) /\ copies = [n \in Name |-> <<>>]
        BY DEF Init
      <3> QED
        BY <3>1
    <2>3. ddrescue \in BOOLEAN /\ damaged \in 0 .. MaxDamaged /\ stops \in 0 .. MaxStops
      BY IngestAssumption DEF Init
    <2>4. /\ key = None /\ manifest = None /\ pc = "idle" /\ medium = None /\ at = 1
          /\ verdict = "none" /\ target = "primary" /\ bad = FALSE /\ vouched = {}
      BY DEF Init
    <2>5. vouched \in SUBSET (Name \X Set) /\ key \in Set \cup {None} /\ manifest \in Set \cup {None}
      BY <2>4
    <2>6. verdict \in Verdict /\ medium \in Pressings \cup {None} /\ at \in 1 .. 4
      BY <2>4 DEF Verdict
    <2>7. bad \in BOOLEAN
      BY <2>4
    <2> QED
      BY <2>1, <2>2, <2>3, <2>4, <2>5, <2>6, <2>7 DEF TypeOK
  <1>2. IngestInv
    <2>1. pc = "idle" /\ at = 1
      BY DEF Init
    <2>2. TypeInv
      BY <1>1, <2>1 DEF TypeInv, AtFiles
    <2>3. CopyInHand
      BY <2>1 DEF CopyInHand
    <2> QED
      BY <2>1, <2>2, <2>3 DEF IngestInv, OursInDrive
  <1>3. VerdictSound /\ PastTheIndex /\ VouchersKnown /\ RunAccounted
    BY DEF Init, VerdictSound, PastTheIndex, VouchersKnown, RunAccounted
  <1> QED
    BY <1>2, <1>3 DEF RunInv

\* Where a pass is, by what it may go on with.
PassTyped ==
  /\ pc \in {"idle", "index", "key", "file", "copy", "rescue", "landed", "manifest"}
  /\ medium \in Pressings \cup {None} /\ at \in 1 .. 4
  /\ verdict \in Verdict /\ target \in {"primary", "alternate"}
  /\ bad \in BOOLEAN
  /\ pc # "idle" => medium \in Pressings
  /\ pc \in {"idle", "index", "key"} => at = 1
  /\ pc \in AtFiles => at \in 1 .. 3
  /\ pc = "manifest" => at = 4

LEMMA PassEnds == EndPass /\ bad' \in BOOLEAN => PassTyped'
  BY DEF EndPass, PassTyped, AtFiles, Verdict

LEMMA FileEnds ==
  ASSUME TypeInv, pc \in AtFiles, NextFile, bad' \in BOOLEAN
  PROVE  PassTyped'
  <1>1. at \in 1 .. 3 /\ medium \in Pressings /\ verdict \in Verdict
    BY DEF TypeInv, TypeOK, AtFiles
  <1>2. CASE at = 3
    BY <1>1, <1>2 DEF NextFile, PassTyped, AtFiles
  <1>3. CASE at # 3
    BY <1>1, <1>3 DEF NextFile, PassTyped, AtFiles
  <1> QED
    BY <1>2, <1>3

LEMMA FileEndsAnyhow ==
  ASSUME TypeInv, pc \in AtFiles, Problem \/ Done
  PROVE  PassTyped'
  <1>1. NextFile /\ bad' \in BOOLEAN
    BY DEF Problem, Done, TypeInv, TypeOK
  <1> QED
    BY <1>1, FileEnds

LEMMA CopyBegins ==
  ASSUME TypeInv, pc \in AtFiles, NEW where \in {"primary", "alternate"}, ToCopy(where)
  PROVE  PassTyped'
  BY DEF ToCopy, PassTyped, TypeInv, TypeOK, AtFiles

LEMMA PassStaysTyped == TypeInv /\ [Next]_vars => PassTyped'
  <1> SUFFICES ASSUME TypeInv, [Next]_vars PROVE PassTyped'
    OBVIOUS
  <1>0. PassTyped /\ bad \in BOOLEAN
    BY DEF TypeInv, TypeOK, PassTyped
  <1>1. ASSUME NEW d \in Pressings, Insert(d) PROVE PassTyped'
    BY <1>0, <1>1 DEF Insert, PassTyped, AtFiles, Verdict
  <1>2. CASE EndRun
    BY <1>0, <1>2 DEF EndRun, pass, PassTyped, AtFiles
  <1>3. CASE JudgeIndex
    <2>1. CASE EndPass
      BY <1>3, <2>1, PassEnds DEF JudgeIndex, PassFails, EndPass
    <2>2. CASE ~EndPass
      <3>0. \/ pc' = "key" /\ pass' = pass /\ bad' = bad
            \/ \E r \in Readings("index") :
                 /\ Judged(r) # "foreign" /\ verdict' = Judged(r)
                 /\ pc' = "key" /\ UNCHANGED <<medium, at, target, bad>>
        BY <1>3, <2>2 DEF JudgeIndex, PassFails
      <3>1. pc = "index" /\ pc' = "key" /\ medium' = medium /\ at' = at /\ target' = target /\ bad' = bad
        BY <1>3, <3>0 DEF JudgeIndex, pass
      <3>2. verdict' \in Verdict
        <4>1. \/ verdict' = verdict
              \/ \E r \in Readings("index") : Judged(r) # "foreign" /\ verdict' = Judged(r)
          BY <3>0 DEF pass
        <4>2. \A r : Judged(r) # "foreign" => Judged(r) \in Verdict
          BY DEF Judged, Verdict
        <4> QED
          BY <1>0, <4>1, <4>2 DEF PassTyped
      <3> QED
        BY <1>0, <3>1, <3>2 DEF PassTyped, AtFiles
    <2> QED
      BY <2>1, <2>2
  <1>4. CASE TakeKey
    <2>1. CASE PassFails
      BY <2>1, PassEnds DEF PassFails
    <2>2. CASE ~PassFails
      <3>1. pc = "key" /\ pc' = "file" /\ UNCHANGED pass /\ bad' \in BOOLEAN
        BY <1>0, <1>4, <2>2 DEF TakeKey, pass
      <3> QED
        BY <1>0, <3>1 DEF PassTyped, AtFiles, pass
    <2> QED
      BY <2>1, <2>2
  <1>5. CASE CopyNew \/ ReadBeside
    <2>1. pc \in AtFiles /\ (ToCopy("primary") \/ ToCopy("alternate"))
      BY <1>5 DEF CopyNew, ReadBeside, AtFile, NotWhole, Again, AtFiles
    <2> QED
      BY <2>1, CopyBegins
  <1>6. CASE SettleIndex
    <2>1. pc \in AtFiles /\ (PassFails \/ Problem \/ Done)
      BY <1>6 DEF SettleIndex, Settle, AtFile, AtFiles
    <2> QED
      BY <2>1, FileEndsAnyhow, PassEnds DEF PassFails
  <1>7. CASE AlreadyWhole \/ Resume \/ CannotResume \/ CheckNew \/ Replace \/ DropCopy \/ KeepBoth
             \/ RescueSome
    <2>1. pc \in AtFiles
      BY <1>7 DEF AlreadyWhole, Resume, CannotResume, CheckNew, Replace, DropCopy, KeepBoth,
                  RescueSome, NotWhole, Again, Landed, AtFiles
    <2>2. Problem \/ Done
      BY <1>7 DEF AlreadyWhole, Resume, CannotResume, CheckNew, Replace, DropCopy, KeepBoth, RescueSome
    <2> QED
      BY <2>1, <2>2, FileEndsAnyhow
  <1>8. CASE Compare
    <2>1. pc \in AtFiles /\ (PassFails \/ Done \/ ToCopy("alternate"))
      BY <1>8 DEF Compare, NotWhole, Again, AtFiles
    <2> QED
      BY <2>1, FileEndsAnyhow, PassEnds, CopyBegins DEF PassFails
  <1>9. CASE CopyStream \/ BeginRescue \/ RescueAll
    <2>1. pc \in AtFiles /\ pc' \in AtFiles /\ UNCHANGED <<pass, bad>>
      BY <1>9 DEF CopyStream, BeginRescue, RescueAll, ReadError, AtFiles
    <2> QED
      BY <1>0, <2>1 DEF PassTyped, AtFiles, pass
  <1>10. CASE CannotRescue
    BY <1>10, PassEnds DEF CannotRescue, PassFails
  <1>11. CASE TakeManifest \/ Stop \/ StopResume
    <2>1. EndPass /\ bad' \in BOOLEAN
      BY <1>0, <1>11 DEF TakeManifest, Stop, StopResume
    <2> QED
      BY <2>1, PassEnds
  <1>12. CASE UNCHANGED vars
    BY <1>0, <1>12 DEF vars, pass, PassTyped, AtFiles
  <1> QED
    BY <1>1, <1>2, <1>3, <1>4, <1>5, <1>6, <1>7, <1>8, <1>9, <1>10, <1>11, <1>12 DEF Next, Step

-----------------------------------------------------------------------------
(* What a step does to the files in staging.                               *)

NewFile ==
  /\ staged[Current] = None
  /\ \E bytes : Fresh(bytes) /\ staged' = [staged EXCEPT ![Current] = bytes]
  /\ UNCHANGED copies

NewCopy ==
  /\ \E c \in Copy : Fresh(c.bytes) /\ copies' = [copies EXCEPT ![Current] = Append(@, c)]
  /\ UNCHANGED staged

Salvaged ==
  /\ at # 2 /\ staged[Current] # None
  /\ \E r \in Readings(Order[at]), tried \in SUBSET unread[Current] :
       staged' = [staged EXCEPT ![Current] = Resumed(staged[Current], tried, r)]
  /\ UNCHANGED copies

Replaced ==
  /\ pc = "landed" /\ target = "alternate" /\ Proven
  /\ staged' = [staged EXCEPT ![Current] = Newest.bytes]
  /\ DropNewest

Dropped ==
  /\ pc = "landed" /\ target = "alternate" /\ (Known \/ ~IsImage)
  /\ DropNewest
  /\ UNCHANGED staged

\* A complete reading or a salvage goes where nothing is, or beside what is there.
LEMMA PutSteps ==
  ASSUME IngestInv, pc \in {"copy", "rescue"}, NEW r \in Readings(Order[at]), Clean(r), Put(r)
  PROVE  NewFile \/ NewCopy
  <1>1. medium \in Pressings /\ at \in 1 .. 3
    BY DEF IngestInv, TypeInv, AtFiles
  <1>2. Fresh(r)
    BY <1>1, ReadingFacts
  <1>3. CASE target = "primary"
    BY <1>2, <1>3 DEF Put, NewFile, IngestInv, CopyInHand
  <1>4. CASE target # "primary"
    <2> DEFINE c == [bytes |-> r, gaps |-> {}]
    <2>1. c \in Copy /\ c.bytes = r
      BY <1>2 DEF Copy, Fresh
    <2>2. copies' = [copies EXCEPT ![Current] = Append(@, c)] /\ UNCHANGED staged
      BY <1>4 DEF Put
    <2> QED
      BY <1>2, <2>1, <2>2 DEF NewCopy
  <1> QED
    BY <1>3, <1>4

LEMMA RescueSteps ==
  ASSUME IngestInv, RescueSome
  PROVE  NewFile \/ NewCopy \/ UNCHANGED <<staged, copies>>
  <1>1. pc = "rescue" /\ medium \in Pressings /\ at \in 1 .. 3
    BY DEF IngestInv, TypeInv, AtFiles, RescueSome
  <1>2. PICK r \in Readings(Order[at]) :
          IF target = "primary"
          THEN /\ staged' = [staged EXCEPT ![Current] = Filled(r)]
               /\ UNCHANGED copies
          ELSE /\ copies' = IF IsImage
                            THEN [copies EXCEPT ![Current] =
                                    Append(@, [bytes |-> Filled(r), gaps |-> Gaps(r)])]
                            ELSE copies
               /\ UNCHANGED staged
    BY DEF RescueSome
  <1>3. Fresh(Filled(r)) /\ Gaps(r) \subseteq Block
    BY <1>1, ReadingFacts
  <1>4. CASE target = "primary"
    BY <1>1, <1>2, <1>3, <1>4 DEF NewFile, IngestInv, CopyInHand
  <1>5. CASE target # "primary" /\ IsImage
    <2> DEFINE c == [bytes |-> Filled(r), gaps |-> Gaps(r)]
    <2>1. c \in Copy /\ c.bytes = Filled(r)
      BY <1>3 DEF Copy, Fresh
    <2>2. copies' = [copies EXCEPT ![Current] = Append(@, c)] /\ UNCHANGED staged
      BY <1>2, <1>5
    <2> QED
      BY <1>3, <2>1, <2>2 DEF NewCopy
  <1>6. CASE target # "primary" /\ ~IsImage
    BY <1>2, <1>6
  <1> QED
    BY <1>4, <1>5, <1>6

LEMMA StagingSteps ==
  IngestInv /\ [Next]_vars =>
    \/ UNCHANGED <<staged, copies>>
    \/ pc \in AtFiles /\ (NewFile \/ NewCopy \/ Salvaged \/ Replaced \/ Dropped)
  <1> SUFFICES ASSUME IngestInv, [Next]_vars,
                      ~(UNCHANGED <<staged, copies>>)
               PROVE  pc \in AtFiles /\ (NewFile \/ NewCopy \/ Salvaged \/ Replaced \/ Dropped)
    OBVIOUS
  <1>1. CopyStream \/ RescueAll \/ RescueSome \/ Resume \/ StopResume \/ Replace \/ DropCopy
    BY DEF Next, Step, vars, staging, Insert, EndRun, JudgeIndex, TakeKey, CopyNew, SettleIndex,
           AlreadyWhole, CannotResume, ReadBeside, Compare, BeginRescue, CannotRescue, CheckNew,
           KeepBoth, TakeManifest, Stop
  <1>2. CASE CopyStream \/ RescueAll
    <2>1. pc \in {"copy", "rescue"} /\ \E r \in Readings(Order[at]) : Clean(r) /\ Put(r)
      BY <1>2 DEF CopyStream, RescueAll
    <2> QED
      BY <2>1, PutSteps DEF AtFiles
  <1>3. CASE RescueSome
    BY <1>3, RescueSteps DEF RescueSome, AtFiles
  <1>4. CASE Resume \/ StopResume
    <2>1. NotWhole /\ pc \in AtFiles
      BY <1>4 DEF Resume, StopResume, NotWhole, Again, AtFiles
    <2>2. medium \in Pressings /\ at \in 1 .. 3
      BY <2>1 DEF IngestInv, TypeInv, AtFiles
    <2>3. at # 2 /\ staged[Current] # None
      BY <2>1, <2>2, FileAtHand DEF NotWhole, Again
    <2>4. CASE Resume
      <3>1. \E r \in Readings(Order[at]) :
               staged' = [staged EXCEPT ![Current] = Resumed(staged[Current], unread[Current], r)]
        BY <2>4 DEF Resume
      <3> QED
        BY <2>1, <2>3, <2>4, <3>1 DEF Salvaged, Resume
    <2>5. CASE StopResume
      BY <2>1, <2>3, <2>5 DEF Salvaged, StopResume
    <2> QED
      BY <1>4, <2>4, <2>5
  <1>5. CASE Replace
    BY <1>5 DEF Replace, Replaced, Landed, AtFiles
  <1>6. CASE DropCopy
    BY <1>6 DEF DropCopy, Dropped, Landed, AtFiles
  <1> QED
    BY <1>1, <1>2, <1>3, <1>4, <1>5, <1>6

\* The copies of a file but the newest.
LEMMA OthersFacts ==
  ASSUME IngestInv, pc = "landed", target = "alternate"
  PROVE  /\ Current \in Name /\ at \in 1 .. 3 /\ medium \in Pressings
         /\ Alternates \in Seq(Copy) /\ Len(Alternates) \in Nat \ {0}
         /\ Newest \in Copy /\ Newest.gaps = {} /\ Fresh(Newest.bytes) /\ ReadFrom(Newest.bytes)
         /\ Others \in Seq(Copy) /\ Len(Others) = Len(Alternates) - 1
         /\ \A i \in 1 .. Len(Alternates) - 1 : Others[i] = Alternates[i]
  <1>1. medium \in Pressings /\ at \in 1 .. 3 /\ Len(Alternates) > 0
    BY DEF IngestInv, TypeInv, CopyInHand, AtFiles
  <1>2. Current \in Name
    BY <1>1, FileAtHand
  <1>3. Alternates \in Seq(Copy)
    BY <1>2 DEF IngestInv, TypeInv, TypeOK, Alternates
  <1>4. Len(Alternates) \in Nat \ {0}
    BY <1>1, <1>3
  <1>5. Newest \in Copy /\ Newest.gaps = {} /\ ReadFrom(Newest.bytes)
    BY <1>3, <1>4 DEF Newest, IngestInv, CopyInHand
  <1>6. Fresh(Newest.bytes)
    BY <1>5 DEF Copy, Fresh, ReadFrom
  <1>7. \A i \in 1 .. Len(Alternates) - 1 : Alternates[i] \in Copy
    BY <1>3, <1>4
  <1>8. /\ Others \in Seq(Copy) /\ Len(Others) = Len(Alternates) - 1
        /\ \A i \in 1 .. Len(Alternates) - 1 : Others[i] = Alternates[i]
    <2> DEFINE s == Alternates
               n == Len(s) - 1
    <2>1. 1 \in 1 .. Len(s) + 1 /\ n \in 0 .. Len(s) /\ s \in Seq(Copy)
      BY <1>3, <1>4
    <2>2. /\ SubSeq(s, 1, n) \in Seq(Copy)
          /\ Len(SubSeq(s, 1, n)) = IF 1 <= n THEN n - 1 + 1 ELSE 0
          /\ \A i \in 1 .. n - 1 + 1 : SubSeq(s, 1, n)[i] = s[1 + i - 1]
      BY <2>1, SubSeqProperties
    <2>3. Others = SubSeq(s, 1, n)
      BY DEF Others
    <2>4. n \in Nat /\ n - 1 + 1 = n
      BY <1>4
    <2>5. Len(SubSeq(s, 1, n)) = n
      BY <2>2, <2>4
    <2>6. \A i \in 1 .. n : SubSeq(s, 1, n)[i] = s[i]
      <3> TAKE i \in 1 .. n
      <3>1. i \in 1 .. n - 1 + 1 /\ 1 + i - 1 = i
        BY <2>4
      <3> QED
        BY <2>2, <3>1
    <2> QED
      BY <2>2, <2>3, <2>5, <2>6
  <1> QED
    BY <1>1, <1>2, <1>3, <1>4, <1>5, <1>6, <1>8

\* Going on with a salvage leaves content, that of the block before or what was read.
LEMMA ResumedFacts ==
  ASSUME TypeInv, pc \in AtFiles, staged[Current] # None,
         NEW r \in Readings(Order[at]), NEW tried \in SUBSET unread[Current]
  PROVE  /\ Resumed(staged[Current], tried, r) \in Content
         /\ \A b \in Block : Resumed(staged[Current], tried, r)[b]
              = IF b \in tried /\ r[b] # Bad THEN r[b] ELSE staged[Current][b]
         /\ \A b \in Block : r[b] \in medium.data[Order[at]][b]
  <1>1. medium \in Pressings /\ at \in 1 .. 3
    BY DEF TypeInv, AtFiles
  <1>2. Current \in Name /\ staged[Current] \in Content
    BY <1>1, FileAtHand DEF TypeInv, TypeOK
  <1>3. \A b \in Block : r[b] \in Byte \cup {Bad} /\ r[b] \in medium.data[Order[at]][b]
    BY <1>1, ReadingFacts
  <1>4. \A b \in Block : staged[Current][b] \in Byte
    BY <1>2 DEF Content
  <1>5. Resumed(staged[Current], tried, r) \in Content
    BY <1>3, <1>4 DEF Resumed, Content
  <1> QED
    BY <1>3, <1>5 DEF Resumed

LEMMA FilesStayTyped ==
  IngestInv /\ [Next]_vars =>
    staged' \in [Name -> Content \cup {None}] /\ copies' \in [Name -> Seq(Copy)]
  <1> SUFFICES ASSUME IngestInv, [Next]_vars
               PROVE  staged' \in [Name -> Content \cup {None}] /\ copies' \in [Name -> Seq(Copy)]
    OBVIOUS
  <1>1. staged \in [Name -> Content \cup {None}] /\ copies \in [Name -> Seq(Copy)]
    BY DEF IngestInv, TypeInv, TypeOK
  <1>2. CASE UNCHANGED <<staged, copies>>
    BY <1>1, <1>2
  <1>3. CASE pc \in AtFiles /\ NewFile
    BY <1>1, <1>3 DEF NewFile, Fresh
  <1>4. CASE pc \in AtFiles /\ NewCopy
    <2>1. PICK c \in Copy : copies' = [copies EXCEPT ![Current] = Append(@, c)]
      BY <1>4 DEF NewCopy
    <2>2. Current \in Name => Append(copies[Current], c) \in Seq(Copy)
      BY <1>1
    <2> QED
      BY <1>1, <1>4, <2>1, <2>2 DEF NewCopy
  <1>5. CASE pc \in AtFiles /\ Salvaged
    <2>1. PICK r \in Readings(Order[at]), tried \in SUBSET unread[Current] :
            staged' = [staged EXCEPT ![Current] = Resumed(staged[Current], tried, r)]
      BY <1>5 DEF Salvaged
    <2>2. Resumed(staged[Current], tried, r) \in Content
      BY <1>5, ResumedFacts DEF IngestInv, Salvaged
    <2> QED
      BY <1>1, <1>5, <2>1, <2>2 DEF Salvaged
  <1>6. CASE pc \in AtFiles /\ Replaced
    <2>1. Newest.bytes \in Content /\ Others \in Seq(Copy)
      BY <1>6, OthersFacts DEF Replaced, Copy
    <2> QED
      BY <1>1, <1>6, <2>1 DEF Replaced, DropNewest
  <1>7. CASE pc \in AtFiles /\ Dropped
    <2>1. Others \in Seq(Copy)
      BY <1>7, OthersFacts DEF Dropped
    <2> QED
      BY <1>1, <1>7, <2>1 DEF Dropped, DropNewest
  <1> QED
    BY <1>2, <1>3, <1>4, <1>5, <1>6, <1>7, StagingSteps

\* A map lists blocks of a file.
LEMMA MapsStayTyped == TypeInv /\ [Next]_vars => unread' \in [Name -> SUBSET Block]
  <1> SUFFICES ASSUME TypeInv, [Next]_vars PROVE unread' \in [Name -> SUBSET Block]
    OBVIOUS
  <1>1. unread \in [Name -> SUBSET Block]
    BY DEF TypeInv, TypeOK
  <1>2. \/ UNCHANGED unread
        \/ AlreadyWhole \/ Resume \/ BeginRescue \/ RescueSome \/ CheckNew \/ Stop \/ StopResume
    BY DEF Next, Step, vars, staging, Insert, EndRun, JudgeIndex, TakeKey, CopyNew, SettleIndex,
           CannotResume, ReadBeside, Compare, CopyStream, CannotRescue, RescueAll, Replace,
           DropCopy, KeepBoth, TakeManifest
  <1>3. CASE AlreadyWhole \/ BeginRescue \/ CheckNew
    BY <1>1, <1>3 DEF AlreadyWhole, BeginRescue, CheckNew
  <1>4. CASE Resume \/ StopResume
    <2>1. PICK left : unread' = [unread EXCEPT ![Current] = left] /\ left \subseteq unread[Current]
      BY <1>4 DEF Resume, StopResume
    <2> QED
      BY <1>1, <2>1
  <1>5. CASE RescueSome
    <2>1. pc \in AtFiles /\ at \in 1 .. 3 /\ medium \in Pressings
      BY <1>5 DEF RescueSome, TypeInv, AtFiles
    <2>2. PICK r \in Readings(Order[at]) :
            unread' = unread \/ unread' = [unread EXCEPT ![Current] = Gaps(r)]
      BY <1>5 DEF RescueSome
    <2>3. Gaps(r) \subseteq Block
      BY <2>1, ReadingFacts
    <2> QED
      BY <1>1, <2>2, <2>3
  <1>6. CASE Stop
    BY <1>1, <1>6 DEF Stop
  <1> QED
    BY <1>1, <1>2, <1>3, <1>4, <1>5, <1>6

\* A run holds against itself what discs of sets record.
LEMMA CountsStayTyped ==
  TypeInv /\ [Next]_vars =>
    /\ ddrescue' \in BOOLEAN /\ key' \in Set \cup {None} /\ manifest' \in Set \cup {None}
    /\ vouched' \in SUBSET (Name \X Set)
    /\ damaged' \in 0 .. MaxDamaged /\ stops' \in 0 .. MaxStops
  <1> SUFFICES ASSUME TypeInv, [Next]_vars
               PROVE  /\ ddrescue' \in BOOLEAN /\ key' \in Set \cup {None}
                      /\ manifest' \in Set \cup {None}
                      /\ vouched' \in SUBSET (Name \X Set)
                      /\ damaged' \in 0 .. MaxDamaged /\ stops' \in 0 .. MaxStops
    OBVIOUS
  <1>1. /\ ddrescue \in BOOLEAN /\ key \in Set \cup {None} /\ manifest \in Set \cup {None}
        /\ vouched \in SUBSET (Name \X Set)
        /\ damaged \in 0 .. MaxDamaged /\ stops \in 0 .. MaxStops
    BY DEF TypeInv, TypeOK
  <1>2. ddrescue' \in BOOLEAN
    <2>1. ddrescue' = ddrescue \/ ddrescue' \in Tools
      BY DEF Next, Step, vars, Insert, EndRun, JudgeIndex, TakeKey, CopyNew, SettleIndex,
             AlreadyWhole, Resume, CannotResume, ReadBeside, Compare, CopyStream, BeginRescue,
             CannotRescue, RescueAll, RescueSome, CheckNew, Replace, DropCopy, KeepBoth,
             TakeManifest, Stop, StopResume
    <2> QED
      BY <1>1, <2>1, IngestAssumption
  <1>3. key' \in Set \cup {None}
    <2>1. key' = key \/ key' \in Set
      BY DEF Next, Step, vars, staging, Insert, EndRun, JudgeIndex, TakeKey, CopyNew, SettleIndex,
             AlreadyWhole, Resume, CannotResume, ReadBeside, Compare, CopyStream, BeginRescue,
             CannotRescue, RescueAll, RescueSome, CheckNew, Replace, DropCopy, KeepBoth,
             TakeManifest, Stop, StopResume
    <2> QED
      BY <1>1, <2>1
  <1>4. manifest' \in Set \cup {None}
    <2>1. manifest' = manifest \/ (pc = "manifest" /\ manifest' = medium.set)
      BY DEF Next, Step, vars, staging, Insert, EndRun, JudgeIndex, TakeKey, CopyNew, SettleIndex,
             AlreadyWhole, Resume, CannotResume, ReadBeside, Compare, CopyStream, BeginRescue,
             CannotRescue, RescueAll, RescueSome, CheckNew, Replace, DropCopy, KeepBoth,
             TakeManifest, Stop, StopResume
    <2> QED
      BY <1>1, <2>1, DiscFacts DEF TypeInv
  <1>5. vouched' \in SUBSET (Name \X Set)
    <2>1. \/ vouched' = vouched \/ vouched' = {}
          \/ pc = "file" /\ Vouch
      BY DEF Next, Step, vars, Insert, EndRun, JudgeIndex, TakeKey, CopyNew, SettleIndex,
             AlreadyWhole, Resume, CannotResume, ReadBeside, Compare, CopyStream, BeginRescue,
             CannotRescue, RescueAll, RescueSome, CheckNew, Replace, DropCopy, KeepBoth,
             TakeManifest, Stop, StopResume, AtFile, NotWhole, Again
    <2>2. CASE pc = "file" /\ Vouch
      <3>1. medium \in Pressings /\ at \in 1 .. 3
        BY <2>2 DEF TypeInv, AtFiles
      <3>2. Current \in Name /\ Order[at] \in Kind /\ Want(Order[at]) \in Set \cup {None}
        BY <3>1, FileAtHand, DiscFacts DEF Want
      <3> QED
        BY <1>1, <2>2, <3>2 DEF Vouch
    <2> QED
      BY <1>1, <2>1, <2>2
  <1>6. damaged' \in 0 .. MaxDamaged /\ stops' \in 0 .. MaxStops
    <2>1. /\ damaged' = damaged \/ (damaged < MaxDamaged /\ damaged' = damaged + 1)
          /\ stops' = stops \/ (stops < MaxStops /\ stops' = stops + 1)
      BY <1>1 DEF Next, Step, vars, bounds, Insert, EndRun, JudgeIndex, TakeKey, CopyNew, SettleIndex,
             AlreadyWhole, Resume, CannotResume, ReadBeside, Compare, CopyStream, BeginRescue,
             CannotRescue, RescueAll, RescueSome, CheckNew, Replace, DropCopy, KeepBoth,
             TakeManifest, Stop, StopResume
    <2> QED
      BY <1>1, <2>1, IngestAssumption
  <1> QED
    BY <1>2, <1>3, <1>4, <1>5, <1>6

LEMMA TypesKept == IngestInv /\ [Next]_vars => TypeInv'
  <1> SUFFICES ASSUME IngestInv, [Next]_vars PROVE TypeInv'
    OBVIOUS
  <1>1. TypeInv
    BY DEF IngestInv
  <1>2. staged' \in [Name -> Content \cup {None}] /\ copies' \in [Name -> Seq(Copy)]
    BY FilesStayTyped
  <1>3. unread' \in [Name -> SUBSET Block]
    BY <1>1, MapsStayTyped
  <1>4. /\ ddrescue' \in BOOLEAN /\ key' \in Set \cup {None} /\ manifest' \in Set \cup {None}
        /\ vouched' \in SUBSET (Name \X Set)
        /\ damaged' \in 0 .. MaxDamaged /\ stops' \in 0 .. MaxStops
    BY <1>1, CountsStayTyped
  <1>5. PassTyped'
    BY <1>1, PassStaysTyped
  <1>6. TypeOK'
    BY <1>2, <1>3, <1>4, <1>5 DEF TypeOK, PassTyped
  <1> QED
    BY <1>5, <1>6 DEF TypeInv, PassTyped

-----------------------------------------------------------------------------
(* The copy in hand.                                                       *)

\* The file the pass is at is known by the disc and the place in the order.
LEMMA SameFile ==
  ASSUME UNCHANGED <<medium, at>>
  PROVE  /\ Current' = Current
         /\ \A bytes : (\A b \in Block : bytes[b] \in medium'.data[Order[at']][b]) <=> ReadFrom(bytes)
  BY DEF Current, File, Order, ReadFrom

\* Nothing is in hand between files.
LEMMA NothingInHand == pc' \notin {"copy", "rescue", "landed"} => CopyInHand'
  BY DEF CopyInHand

LEMMA FilesEndBetween ==
  Problem \/ Done \/ EndPass \/ PassFails => pc' \in {"idle", "file", "manifest"}
  BY DEF Problem, Done, EndPass, PassFails, NextFile

\* A clean reading put where it is wanted is what has landed.
LEMMA PutLands ==
  ASSUME IngestInv, pc \in {"copy", "rescue"}, NEW r \in Readings(Order[at]), Clean(r), Put(r),
         pc' = "landed", UNCHANGED <<pass, unread>>
  PROVE  CopyInHand'
  <1>1. medium \in Pressings /\ at \in 1 .. 3
    BY DEF IngestInv, TypeInv, AtFiles
  <1>2. Fresh(r) /\ ReadFrom(r) /\ Current \in Name
    BY <1>1, ReadingFacts, FileAtHand
  <1>3. Current' = Current /\ target' = target /\ at' = at /\ medium' = medium
    BY SameFile DEF pass
  <1>4. r # None
    BY <1>2, IngestAssumption DEF Fresh
  <1>5. CASE target = "primary"
    <2>1. staged'[Current] = r
      BY <1>2, <1>5 DEF Put, IngestInv, TypeInv, TypeOK
    <2>2. staged'[Current'] # None /\ \A b \in Block : staged'[Current'][b] \in medium'.data[Order[at']][b]
      BY <1>2, <1>3, <1>4, <2>1, SameFile
    <2> QED
      BY <1>3, <1>5, <2>2 DEF CopyInHand, ReadFrom
  <1>6. CASE target # "primary"
    <2> DEFINE c == [bytes |-> r, gaps |-> {}]
    <2>1. target = "alternate" /\ at # 2 /\ staged[Current] # None /\ unread[Current] = {}
      BY <1>6 DEF IngestInv, TypeInv, TypeOK, CopyInHand
    <2>2. copies' = [copies EXCEPT ![Current] = Append(@, c)] /\ staged' = staged
      BY <1>6 DEF Put
    <2>3. copies[Current] \in Seq(Copy) /\ c \in Copy
      BY <1>2 DEF IngestInv, TypeInv, TypeOK, Fresh, Copy
    <2>4. copies'[Current] = Append(copies[Current], c)
      BY <1>2, <2>2 DEF IngestInv, TypeInv, TypeOK
    <2>5. Len(copies'[Current]) > 0 /\ copies'[Current][Len(copies'[Current])] = c
      BY <2>3, <2>4
    <2>6. Alternates' = copies'[Current] /\ Newest' = c
      BY <1>3, <2>5 DEF Alternates, Newest
    <2>7. \A b \in Block : Newest'.bytes[b] \in medium'.data[Order[at']][b]
      BY <1>2, <1>3, <2>6, SameFile
    <2> QED
      BY <1>3, <2>1, <2>2, <2>5, <2>6, <2>7 DEF CopyInHand, ReadFrom, pass
  <1> QED
    BY <1>5, <1>6

LEMMA CopyInHandKept == IngestInv /\ [Next]_vars => CopyInHand'
  <1> SUFFICES ASSUME IngestInv, [Next]_vars, pc' \in {"copy", "rescue", "landed"}
               PROVE  CopyInHand'
    BY NothingInHand
  <1>1. \/ CopyNew \/ ReadBeside \/ Compare \/ CopyStream \/ BeginRescue \/ RescueAll
        \/ UNCHANGED vars
    BY FilesEndBetween
       DEF Next, Step, Insert, EndRun, JudgeIndex, TakeKey, SettleIndex, Settle, AlreadyWhole, Resume,
           CannotResume, CannotRescue, RescueSome, CheckNew, Replace, DropCopy, KeepBoth,
           TakeManifest, Stop, StopResume
  <1>2. CASE CopyNew
    <2>1. /\ UNCHANGED <<medium, at>> /\ pc' = "copy" /\ target' = "primary"
          /\ staged[Current] = None /\ staged' = staged
      BY <1>2 DEF CopyNew, ToCopy, staging
    <2> QED
      BY <2>1, SameFile DEF CopyInHand
  <1>3. CASE ReadBeside \/ Compare
    <2>1. /\ UNCHANGED <<medium, at, staged, unread>> /\ pc' = "copy" /\ target' = "alternate"
          /\ Again /\ unread[Current] = {}
      BY <1>3, FilesEndBetween DEF ReadBeside, Compare, ToCopy, staging, NotWhole
    <2>2. at # 2
      BY <2>1, FileAtHand DEF Again, IngestInv, TypeInv, AtFiles
    <2> QED
      BY <2>1, <2>2, SameFile DEF CopyInHand, Again
  <1>4. CASE CopyStream \/ RescueAll
    <2>1. /\ pc \in {"copy", "rescue"} /\ pc' = "landed" /\ UNCHANGED <<pass, unread>>
          /\ \E r \in Readings(Order[at]) : Clean(r) /\ Put(r)
      BY <1>4 DEF CopyStream, RescueAll
    <2> QED
      BY <2>1, PutLands
  <1>5. CASE BeginRescue
    <2>1. /\ UNCHANGED <<medium, at, target, staged>> /\ pc = "copy" /\ pc' = "rescue"
          /\ target = "alternate" => unread' = unread
      BY <1>5 DEF BeginRescue, ReadError, pass
    <2> QED
      BY <2>1, SameFile DEF CopyInHand, IngestInv
  <1>6. CASE UNCHANGED vars
    <2>1. UNCHANGED <<medium, at, target, staged, unread, copies, pc>>
      BY <1>6 DEF vars, pass, staging
    <2>2. Alternates' = Alternates /\ Newest' = Newest
      BY <2>1, SameFile DEF Alternates, Newest
    <2>3. /\ ReadFrom(staged[Current]) => ReadFrom(staged[Current])'
          /\ ReadFrom(Newest.bytes) => ReadFrom(Newest.bytes)'
      BY <2>1, <2>2, SameFile DEF ReadFrom
    <2> QED
      BY <2>1, <2>2, <2>3, SameFile DEF CopyInHand, IngestInv
  <1> QED
    BY <1>1, <1>2, <1>3, <1>4, <1>5, <1>6

-----------------------------------------------------------------------------
(* The disc in the drive and the pinned index.                             *)

\* The index is staged once and then stays as it is.
LEMMA IndexSteps ==
  IngestInv /\ [Next]_vars =>
    \/ staged'[Index] = staged[Index]
    \/ pc \in AtFiles /\ at = 2 /\ staged[Index] = None /\ Fresh(staged'[Index])
  <1> SUFFICES ASSUME IngestInv, [Next]_vars, staged'[Index] # staged[Index]
               PROVE  pc \in AtFiles /\ at = 2 /\ staged[Index] = None /\ Fresh(staged'[Index])
    OBVIOUS
  <1>0. staged' # staged /\ ~NewCopy /\ ~Dropped
    BY DEF NewCopy, Dropped
  <1>1. pc \in AtFiles /\ (NewFile \/ Salvaged \/ Replaced)
    BY <1>0, StagingSteps
  <1>2. medium \in Pressings /\ at \in 1 .. 3
    BY <1>1 DEF IngestInv, TypeInv, AtFiles
  <1>3. Index \in Name /\ staged \in [Name -> Content \cup {None}]
    BY DEF Name, IngestInv, TypeInv, TypeOK
  <1>4. Current = Index <=> at = 2
    BY <1>2, FileAtHand
  <1>5. ~Salvaged
    BY <1>3, <1>4 DEF Salvaged
  <1>6. ~Replaced
    BY <1>3, <1>4 DEF Replaced, IngestInv, CopyInHand
  <1>7. NewFile
    BY <1>1, <1>5, <1>6
  <1>8. PICK bytes : Fresh(bytes) /\ staged' = [staged EXCEPT ![Current] = bytes]
    BY <1>7 DEF NewFile
  <1>9. Current = Index
    BY <1>3, <1>8
  <1> QED
    BY <1>1, <1>3, <1>4, <1>7, <1>8, <1>9 DEF NewFile

\* An ingest of a disc leaves nothing that only another set has.
LEMMA FreshIsOfTheSet ==
  ASSUME medium \in Pressings, at \in 1 .. 3, NEW bytes, Fresh(bytes), NEW s \in Set, NEW b \in Block,
         bytes[b] = s
  PROVE  medium.set = s
  <1>1. Order[at] \in Kind
    BY FileAtHand
  <1> QED
    BY <1>1, DiscFacts DEF Fresh

\* A legible index of another set than the pinned one is refused.
LEMMA ForeignIsRefused ==
  ASSUME medium \in Pressings, NEW s \in Set, Pinned(s), Recognised(s), medium.set # s,
         NEW r \in Readings("index")
  PROVE  Clean(r) /\ Judged(r) = "foreign"
  <1>1. medium # None /\ medium.set \in Set
    BY IngestAssumption, DiscFacts
  <1>2. medium.data["index"] = [b \in Block |-> {medium.set}]
    BY <1>1 DEF Recognised
  <1>3. r = Whole(medium.set)
    <2>1. r \in [Block -> Byte \cup {Bad}] /\ \A b \in Block : r[b] = medium.set
      BY <1>2 DEF Readings
    <2> QED
      BY <2>1 DEF Whole
  <1>4. Clean(r)
    BY <1>1, <1>3, IngestAssumption DEF Clean, Whole
  <1>5. Whole(medium.set) # Whole(s)
    <2>1. PICK b \in Block : TRUE
      BY IngestAssumption
    <2>2. Whole(medium.set)[b] = medium.set /\ Whole(s)[b] = s
      BY DEF Whole
    <2> QED
      BY <2>2
  <1>6. staged[Index] # r /\ staged[Index] = Whole(s)
    BY <1>3, <1>5 DEF Pinned
  <1>7. Want("index") \in {medium.set, None}
    BY DiscFacts DEF Want, Kind
  <1>8. CASE Want("index") = None
    BY <1>4, <1>6, <1>8 DEF Judged
  <1>9. CASE Want("index") = medium.set
    BY <1>1, <1>3, <1>4, <1>5, <1>6, <1>9, IngestAssumption DEF Judged
  <1> QED
    BY <1>7, <1>8, <1>9

LEMMA OursInDriveKept == IngestInv /\ [Next]_vars => OursInDrive'
  <1> SUFFICES ASSUME IngestInv, [Next]_vars, pc' \notin {"idle", "index"},
                      NEW s \in Set, Pinned(s)', Recognised(s)'
               PROVE  medium'.set = s
    BY DEF OursInDrive
  <1>1. medium' = medium
    BY FilesEndBetween
       DEF Next, Step, vars, pass, Insert, EndRun, JudgeIndex, TakeKey, CopyNew, SettleIndex, Settle,
           AlreadyWhole, Resume, CannotResume, ReadBeside, Compare, CopyStream, BeginRescue,
           CannotRescue, RescueAll, RescueSome, CheckNew, Replace, DropCopy, KeepBoth,
           TakeManifest, Stop, StopResume, Problem, Done, NextFile, EndPass, PassFails, ToCopy
  <1>2. pc # "idle" /\ medium \in Pressings
    <2>1. pc # "idle"
      BY DEF Next, Step, vars, Insert, EndRun, JudgeIndex, TakeKey, CopyNew, SettleIndex, AtFile,
             AlreadyWhole, Resume, CannotResume, ReadBeside, Compare, CopyStream, BeginRescue,
             CannotRescue, RescueAll, RescueSome, CheckNew, Replace, DropCopy, KeepBoth,
             TakeManifest, Stop, StopResume, NotWhole, Again, Landed, ReadError
    <2> QED
      BY <2>1 DEF IngestInv, TypeInv
  <1>3. Recognised(s)
    BY <1>1 DEF Recognised
  <1>4. CASE staged'[Index] # staged[Index]
    <2>1. pc \in AtFiles /\ Fresh(staged'[Index]) /\ at \in 1 .. 3
      BY <1>4, IndexSteps
    <2>2. PICK b \in Block : TRUE
      BY IngestAssumption
    <2>3. staged'[Index][b] = s
      BY <2>2 DEF Pinned, Whole
    <2>4. medium.set = s
      BY <1>2, <2>1, <2>2, <2>3, FreshIsOfTheSet
    <2> QED
      BY <1>1, <2>4
  <1>5. CASE staged'[Index] = staged[Index]
    <2>1. Pinned(s)
      BY <1>5 DEF Pinned
    <2>2. CASE pc = "index"
      <3> SUFFICES ASSUME medium.set # s PROVE FALSE
        BY <1>1
      <3>1. JudgeIndex
        BY <2>2 DEF Next, Step, vars, Insert, EndRun, JudgeIndex, TakeKey, CopyNew, SettleIndex, AtFile,
             AlreadyWhole, Resume, CannotResume, ReadBeside, Compare, CopyStream, BeginRescue,
             CannotRescue, RescueAll, RescueSome, CheckNew, Replace, DropCopy, KeepBoth,
             TakeManifest, Stop, StopResume, NotWhole, Again, Landed, ReadError, EndPass
      <3>2. staged[Index] # None
        <4>1. Whole(s) \in Content
          BY DEF Whole, Content, Byte
        <4> QED
          BY <2>1, <4>1, IngestAssumption DEF Pinned
      <3>3. \A r \in Readings("index") : Clean(r) /\ Judged(r) = "foreign"
        BY <1>2, <1>3, <2>1, ForeignIsRefused
      <3>4. PassFails
        BY <3>1, <3>2, <3>3 DEF JudgeIndex
      <3> QED
        BY <3>4, FilesEndBetween DEF PassFails, EndPass
    <2>3. CASE pc # "index"
      BY <1>1, <1>2, <1>3, <2>1, <2>3 DEF IngestInv, OursInDrive
    <2> QED
      BY <2>2, <2>3
  <1> QED
    BY <1>4, <1>5

THEOREM IngestInvHolds == Spec => []IngestInv
  <1>1. Init => IngestInv
    BY Initially DEF RunInv
  <1>2. IngestInv /\ [Next]_vars => IngestInv'
    BY TypesKept, CopyInHandKept, OursInDriveKept DEF IngestInv
  <1> QED
    BY <1>1, <1>2, PTL DEF Spec

THEOREM TypeCorrect == Spec => []TypeOK
  <1>1. IngestInv => TypeOK
    BY DEF IngestInv, TypeInv
  <1> QED
    BY <1>1, IngestInvHolds, PTL

-----------------------------------------------------------------------------
(* What staging holds.                                                     *)

LEMMA HeldIs ==
  ASSUME NEW n, NEW b, NEW x
  PROVE  /\ x \in Held(n, b) <=>
              \/ n[1] = "image" /\ \E i \in DOMAIN copies[n] : copies[n][i].bytes[b] = x
              \/ staged[n] # None /\ staged[n][b] = x
         /\ x \in Held(n, b)' <=>
              \/ n[1] = "image" /\ \E i \in DOMAIN copies'[n] : copies'[n][i].bytes[b] = x
              \/ staged'[n] # None /\ staged'[n][b] = x
  BY DEF Held

\* The copies that a step leaves or takes away.
LEMMA OthersOnly ==
  ASSUME IngestInv, pc = "landed", target = "alternate", DropNewest, NEW n \in Name
  PROVE  /\ n # Current => copies'[n] = copies[n]
         /\ n = Current => /\ DOMAIN copies'[n] = 1 .. Len(copies[n]) - 1
                           /\ DOMAIN copies[n] = 1 .. Len(copies[n]) /\ Len(copies[n]) \in Nat \ {0}
                           /\ \A i \in DOMAIN copies'[n] : copies'[n][i] = copies[n][i]
  <1>1. copies' = [copies EXCEPT ![Current] = Others] /\ copies \in [Name -> Seq(Copy)]
    BY DEF DropNewest, IngestInv, TypeInv, TypeOK
  <1>2. n # Current => copies'[n] = copies[n]
    BY <1>1
  <1>3. ASSUME n = Current
        PROVE  /\ DOMAIN copies'[n] = 1 .. Len(copies[n]) - 1
               /\ DOMAIN copies[n] = 1 .. Len(copies[n]) /\ Len(copies[n]) \in Nat \ {0}
               /\ \A i \in DOMAIN copies'[n] : copies'[n][i] = copies[n][i]
    <2>1. copies'[n] = Others
      BY <1>1, <1>3
    <2>2. /\ Others \in Seq(Copy) /\ Len(Others) = Len(copies[n]) - 1 /\ Len(copies[n]) \in Nat \ {0}
          /\ copies[n] \in Seq(Copy)
          /\ \A i \in 1 .. Len(copies[n]) - 1 : Others[i] = copies[n][i]
      BY <1>3, OthersFacts DEF Alternates
    <2>3. DOMAIN Others = 1 .. Len(copies[n]) - 1 /\ DOMAIN copies[n] = 1 .. Len(copies[n])
      BY <2>2
    <2> QED
      BY <2>1, <2>2, <2>3
  <1> QED
    BY <1>2, <1>3

\* A new copy is the last, and the others stay.
LEMMA AppendedOnly ==
  ASSUME IngestInv, NEW c \in Copy, copies' = [copies EXCEPT ![Current] = Append(@, c)],
         NEW n \in Name
  PROVE  /\ n # Current => copies'[n] = copies[n]
         /\ n = Current => /\ DOMAIN copies[n] = 1 .. Len(copies[n]) /\ Len(copies[n]) \in Nat
                           /\ DOMAIN copies'[n] = 1 .. Len(copies[n]) + 1
                           /\ \A i \in DOMAIN copies[n] : copies'[n][i] = copies[n][i]
                           /\ copies'[n][Len(copies[n]) + 1] = c
  <1>1. copies \in [Name -> Seq(Copy)]
    BY DEF IngestInv, TypeInv, TypeOK
  <1>2. n # Current => copies'[n] = copies[n]
    BY <1>1
  <1>3. n = Current => copies'[n] = Append(copies[n], c) /\ copies[n] \in Seq(Copy)
    BY <1>1
  <1> QED
    BY <1>2, <1>3

\* OnlyThePinnedSet: with the index of a set in staging, no step puts bytes there that only
\* another set has.
LEMMA NothingForeignStaged ==
  ASSUME IngestInv, [Next]_vars, NEW s \in Set, Pinned(s), Recognised(s),
         NEW n \in Name, NEW b \in Block, NEW x \in Set, x # s, x \in Held(n, b)'
  PROVE  x \in Held(n, b)
  <1>0. staged \in [Name -> Content \cup {None}] /\ copies \in [Name -> Seq(Copy)]
    BY DEF IngestInv, TypeInv, TypeOK
  <1>1. CASE UNCHANGED <<staged, copies>>
    <2>1. staged' = staged /\ copies' = copies
      BY <1>1
    <2> QED
      BY <2>1, HeldIs
  <1>2. CASE pc \in AtFiles /\ (NewFile \/ NewCopy \/ Salvaged \/ Replaced \/ Dropped)
    <2>1. medium \in Pressings /\ at \in 1 .. 3 /\ medium.set = s
      BY <1>2 DEF IngestInv, TypeInv, OursInDrive, AtFiles
    <2>2. \A bytes : Fresh(bytes) => bytes[b] # x
      BY <2>1, FreshIsOfTheSet
    <2>3. CASE NewFile
      <3>1. PICK bytes : Fresh(bytes) /\ staged' = [staged EXCEPT ![Current] = bytes]
        BY <2>3 DEF NewFile
      <3>2. staged'[n] = staged[n] \/ staged'[n] = bytes
        BY <1>0, <3>1
      <3> QED
        BY <2>2, <2>3, <3>1, <3>2, HeldIs DEF NewFile
    <2>4. CASE NewCopy
      <3>1. PICK c \in Copy : Fresh(c.bytes) /\ copies' = [copies EXCEPT ![Current] = Append(@, c)]
        BY <2>4 DEF NewCopy
      <3>2. \A i \in DOMAIN copies'[n] :
               \/ i \in DOMAIN copies[n] /\ copies'[n][i] = copies[n][i]
               \/ copies'[n][i] = c
        BY <3>1, AppendedOnly
      <3>3. c.bytes[b] # x
        BY <2>2, <3>1
      <3> QED
        BY <2>4, <3>2, <3>3, HeldIs DEF NewCopy
    <2>5. CASE Salvaged
      <3>1. PICK r \in Readings(Order[at]), tried \in SUBSET unread[Current] :
              staged' = [staged EXCEPT ![Current] = Resumed(staged[Current], tried, r)]
        BY <2>5 DEF Salvaged
      <3>2. /\ Resumed(staged[Current], tried, r)[b] \in {r[b], staged[Current][b]}
            /\ r[b] \in medium.data[Order[at]][b]
        BY <1>2, <2>5, ResumedFacts DEF IngestInv, Salvaged
      <3>3. r[b] # x
        BY <2>1, <3>2, FileAtHand, DiscFacts
      <3>4. \/ staged'[n] = staged[n]
            \/ n = Current /\ staged[n] # None /\ staged'[n] = Resumed(staged[n], tried, r)
        BY <1>0, <2>5, <3>1 DEF Salvaged
      <3> QED
        BY <2>5, <3>2, <3>3, <3>4, HeldIs DEF Salvaged
    <2>6. CASE Replaced
      <3>1. \A i \in DOMAIN copies'[n] : i \in DOMAIN copies[n] /\ copies'[n][i] = copies[n][i]
        BY <2>6, OthersOnly DEF Replaced
      <3>2. staged'[n] = staged[n] \/ staged'[n] = Newest.bytes
        BY <1>0, <2>6 DEF Replaced
      <3>3. Newest.bytes[b] # x
        BY <2>2, <2>6, OthersFacts DEF Replaced
      <3> QED
        BY <3>1, <3>2, <3>3, HeldIs
    <2>7. CASE Dropped
      <3>1. \A i \in DOMAIN copies'[n] : i \in DOMAIN copies[n] /\ copies'[n][i] = copies[n][i]
        BY <2>7, OthersOnly DEF Dropped
      <3>2. staged' = staged
        BY <2>7 DEF Dropped
      <3> QED
        BY <3>1, <3>2, HeldIs
    <2> QED
      BY <1>2, <2>3, <2>4, <2>5, <2>6, <2>7
  <1> QED
    BY <1>1, <1>2, StagingSteps

LEMMA NoForeignKeyOrManifest ==
  ASSUME IngestInv, [Next]_vars, NEW s \in Set, Pinned(s), Recognised(s)
  PROVE  key' \in {key, s} /\ manifest' \in {manifest, s}
  <1>1. CASE TakeKey
    <2>1. medium \in Pressings /\ medium.set = s
      BY <1>1 DEF TakeKey, IngestInv, TypeInv, OursInDrive
    <2>2. key' = key \/ (key' = medium.key /\ medium.key \in Set)
      BY <1>1 DEF TakeKey
    <2>3. medium.key \in Set => medium.key = s
      BY <2>1, DiscFacts, IngestAssumption
    <2> QED
      BY <1>1, <2>2, <2>3 DEF TakeKey
  <1>2. CASE TakeManifest
    <2>1. medium.set = s
      BY <1>2 DEF TakeManifest, IngestInv, OursInDrive
    <2> QED
      BY <1>2, <2>1 DEF TakeManifest
  <1>3. CASE ~TakeKey /\ ~TakeManifest
    <2>1. key' = key /\ manifest' = manifest
      BY <1>3 DEF Next, Step, vars, staging, Insert, EndRun, JudgeIndex, CopyNew, SettleIndex,
           AlreadyWhole, Resume, CannotResume, ReadBeside, Compare, CopyStream, BeginRescue,
           CannotRescue, RescueAll, RescueSome, CheckNew, Replace, DropCopy, KeepBoth,
           Stop, StopResume
    <2> QED
      BY <2>1
  <1> QED
    BY <1>1, <1>2, <1>3

\* Whatever discs are fed and however they read: with the index of a set in staging, no
\* bytes, no key and no manifest of another set get there from a disc that shows by its
\* index which set it is of (refuseForeignIndex, ingestPublicIdentity, copyManifest).
THEOREM OnlyThePinnedSetGetsIn == Spec => OnlyThePinnedSet
  <1>1. ASSUME IngestInv, [Next]_vars, NEW s \in Set, Pinned(s), Recognised(s),
               NEW n \in Name, NEW b \in Block
        PROVE  Held(n, b)' \cap (Set \ {s}) \subseteq Held(n, b)
    <2> SUFFICES ASSUME NEW x \in Set, x # s, x \in Held(n, b)' PROVE x \in Held(n, b)
      OBVIOUS
    <2> QED
      BY <1>1, NothingForeignStaged
  <1>2. IngestInv /\ [Next]_vars =>
          [\A s \in Set :
             Pinned(s) /\ Recognised(s) =>
               /\ \A n \in Name, b \in Block : Held(n, b)' \cap (Set \ {s}) \subseteq Held(n, b)
               /\ key' \in {key, s} /\ manifest' \in {manifest, s}]_vars
    BY <1>1, NoForeignKeyOrManifest
  <1> QED
    BY <1>2, IngestInvHolds, PTL DEF Spec, OnlyThePinnedSet

\* NothingLost: what is staged of the pinned set stays, in the file or beside it.
LEMMA HeldStaysHeld ==
  ASSUME IngestInv, [Next]_vars, NEW s \in Set, Pinned(s), Recognised(s),
         NEW n \in Name, NEW b \in Block, MapDescribes(n), s \in Held(n, b)
  PROVE  s \in Held(n, b)'
  <1>0. staged \in [Name -> Content \cup {None}] /\ copies \in [Name -> Seq(Copy)]
    BY DEF IngestInv, TypeInv, TypeOK
  <1>1. CASE UNCHANGED <<staged, copies>>
    <2>1. staged' = staged /\ copies' = copies
      BY <1>1
    <2> QED
      BY <2>1, HeldIs
  <1>2. CASE pc \in AtFiles /\ (NewFile \/ NewCopy \/ Salvaged \/ Replaced \/ Dropped)
    <2>1. medium \in Pressings /\ at \in 1 .. 3 /\ medium.set = s
      BY <1>2 DEF IngestInv, TypeInv, OursInDrive, AtFiles
    <2>2. IsImage <=> Current[1] = "image"
      BY <2>1, FileAtHand
    <2>3. CASE NewFile
      <3>1. copies' = copies /\ (staged[n] # None => staged'[n] = staged[n])
        BY <1>0, <2>3 DEF NewFile
      <3> QED
        BY <3>1, HeldIs
    <2>4. CASE NewCopy
      <3>1. PICK c \in Copy : copies' = [copies EXCEPT ![Current] = Append(@, c)]
        BY <2>4 DEF NewCopy
      <3>2. \A i \in DOMAIN copies[n] : i \in DOMAIN copies'[n] /\ copies'[n][i] = copies[n][i]
        BY <3>1, AppendedOnly
      <3>3. staged' = staged
        BY <2>4 DEF NewCopy
      <3> QED
        BY <3>2, <3>3, HeldIs
    <2>5. CASE Salvaged
      <3>1. PICK r \in Readings(Order[at]), tried \in SUBSET unread[Current] :
              staged' = [staged EXCEPT ![Current] = Resumed(staged[Current], tried, r)]
        BY <2>5 DEF Salvaged
      <3>2. copies' = copies
        BY <2>5 DEF Salvaged
      <3>3. CASE n # Current
        BY <1>0, <3>1, <3>2, <3>3, HeldIs
      <3>4. CASE n = Current
        <4>1. staged[n] # None /\ staged'[n] = Resumed(staged[n], tried, r)
          BY <1>0, <2>5, <3>1, <3>4 DEF Salvaged
        <4>2. staged'[n][b] = IF b \in tried /\ r[b] # Bad THEN r[b] ELSE staged[n][b]
          BY <1>2, <2>5, <3>4, <4>1, ResumedFacts DEF IngestInv, Salvaged
        <4>3. b \in tried => staged[n][b] = Zero
          BY <3>4, <4>1 DEF MapDescribes
        <4>4. staged[n][b] = s => staged'[n][b] = s
          BY <4>2, <4>3, IngestAssumption
        <4>5. staged'[n] # None
          BY <1>2, <2>5, <3>4, <4>1, ResumedFacts, IngestAssumption DEF IngestInv, Salvaged
        <4> QED
          BY <3>2, <4>1, <4>4, <4>5, HeldIs
      <3> QED
        BY <3>3, <3>4
    <2>6. CASE Replaced
      <3>1. CASE n # Current
        <4>1. copies'[n] = copies[n] /\ staged'[n] = staged[n]
          BY <1>0, <2>6, <3>1, OthersOnly DEF Replaced
        <4> QED
          BY <4>1, HeldIs
      <3>2. CASE n = Current
        <4>1. Order[at] \in Kind
          BY <2>1, FileAtHand
        <4>2. Want(Order[at]) = s
          BY <2>1, <2>6, <4>1, DiscFacts DEF Replaced, Proven, Want
        <4>3. Newest.bytes[b] = s
          BY <2>6, <4>2 DEF Replaced, Proven, Whole
        <4>4. staged'[n] = Newest.bytes
          BY <1>0, <2>6, <3>2 DEF Replaced
        <4>5. Newest.bytes # None
          BY <2>6, OthersFacts, IngestAssumption DEF Replaced, Copy
        <4> QED
          BY <4>3, <4>4, <4>5, HeldIs
      <3> QED
        BY <3>1, <3>2
    <2>7. CASE Dropped
      <3>1. staged' = staged
        BY <2>7 DEF Dropped
      <3>2. CASE n # Current
        <4>1. copies'[n] = copies[n]
          BY <2>7, <3>2, OthersOnly DEF Dropped
        <4> QED
          BY <3>1, <4>1, HeldIs
      <3>3. CASE n = Current
        <4>1. CASE staged[n] # None /\ staged[n][b] = s
          BY <3>1, <4>1, HeldIs
        <4>2. CASE n[1] = "image" /\ \E i \in DOMAIN copies[n] : copies[n][i].bytes[b] = s
          <5>1. PICK i \in DOMAIN copies[n] : copies[n][i].bytes[b] = s
            BY <4>2
          <5>2. /\ DOMAIN copies'[n] = 1 .. Len(copies[n]) - 1
                /\ DOMAIN copies[n] = 1 .. Len(copies[n]) /\ Len(copies[n]) \in Nat \ {0}
                /\ \A j \in DOMAIN copies'[n] : copies'[n][j] = copies[n][j]
            BY <2>7, <3>3, OthersOnly DEF Dropped
          <5>3. CASE i \in DOMAIN copies'[n]
            BY <4>2, <5>1, <5>2, <5>3, HeldIs
          <5>4. CASE i \notin DOMAIN copies'[n]
            <6>1. i = Len(copies[n]) /\ copies[n][i] = Newest
              BY <3>3, <5>1, <5>2, <5>4 DEF Newest, Alternates
            <6>2. Known
              BY <2>2, <2>7, <3>3, <4>2 DEF Dropped
            <6>3. CASE SameAlt
              <7>1. PICK j \in DOMAIN Others : Others[j] = Newest
                BY <6>3 DEF SameAlt
              <7>2. copies'[n] = Others
                BY <1>0, <2>7, <3>3 DEF Dropped, DropNewest
              <7> QED
                BY <4>2, <5>1, <6>1, <7>1, <7>2, HeldIs
            <6>4. CASE ~SameAlt
              <7>1. Newest.bytes = staged[Current] /\ staged[Current] # None
                BY <2>7, <6>2, <6>4 DEF Known, Dropped, IngestInv, CopyInHand
              <7> QED
                BY <3>1, <3>3, <5>1, <6>1, <7>1, HeldIs
            <6> QED
              BY <6>3, <6>4
          <5> QED
            BY <5>3, <5>4
        <4> QED
          BY <4>1, <4>2, HeldIs
      <3> QED
        BY <3>2, <3>3
    <2> QED
      BY <1>2, <2>3, <2>4, <2>5, <2>6, <2>7
  <1> QED
    BY <1>1, <1>2, StagingSteps

\* Whatever discs are fed, in whatever order, however they read and wherever a run is
\* stopped: a block of the pinned set that is in staging stays there, in the file or in a
\* copy of an image beside it, as long as the file's map is about the bytes that are there
\* (reconcileExisting, resumeSalvage, replaceOrKeepBoth, sameAltCopy).
THEOREM NothingIsLost == Spec => NothingLost
  <1>1. IngestInv /\ [Next]_vars =>
          [\A s \in Set, n \in Name, b \in Block :
             Pinned(s) /\ Recognised(s) /\ MapDescribes(n) /\ s \in Held(n, b) => s \in Held(n, b)']_vars
    BY HeldStaysHeld
  <1> QED
    BY <1>1, IngestInvHolds, PTL DEF Spec, NothingLost

-----------------------------------------------------------------------------
(* Which set a staged index is of.                                         *)

\* An index is of one set only.
LEMMA OneSetOnly ==
  ASSUME NEW s \in Set, NEW t \in Set, NEW bytes \in Content, IndexOf(s, bytes), IndexOf(t, bytes)
  PROVE  s = t
  <1>1. PICK b \in Block : TRUE
    BY IngestAssumption
  <1>2. ASSUME NEW u \in Set, NEW d \in Pressings, bytes = Whole(u),
               \A c \in Block : bytes[c] \in d.data["index"][c]
        PROVE  d.set = u
    <2>1. u \in d.data["index"][b]
      BY <1>1, <1>2 DEF Whole
    <2> QED
      BY <1>1, <2>1, DiscFacts DEF Kind
  <1>3. ASSUME NEW d \in Pressings, NEW e \in Pressings,
               \A c \in Block : bytes[c] \in d.data["index"][c],
               \A c \in Block : bytes[c] \in e.data["index"][c]
        PROVE  d.set = e.set
    <2> SUFFICES ASSUME d.set # e.set PROVE FALSE
      OBVIOUS
    <2>1. PICK c \in Block : d.data["index"][c] \cap e.data["index"][c] \subseteq {Bad}
      BY IndexesStayApart
    <2>2. bytes[c] = Bad
      BY <1>3, <2>1
    <2>3. bytes[c] \in Byte
      BY DEF Content
    <2> QED
      BY <2>2, <2>3, IngestAssumption DEF Byte
  <1>4. CASE bytes = Whole(s) /\ bytes = Whole(t)
    <2>1. bytes[b] = s /\ bytes[b] = t
      BY <1>1, <1>4 DEF Whole
    <2> QED
      BY <2>1
  <1> QED
    BY <1>2, <1>3, <1>4 DEF IndexOf

LEMMA ReadingIsIndexOf ==
  ASSUME medium \in Pressings, NEW bytes, \A b \in Block : bytes[b] \in medium.data["index"][b]
  PROVE  IndexOf(medium.set, bytes)
  BY DEF IndexOf

\* A verdict that lets the disc pass is that the staged index is of its set.
LEMMA PassingVerdicts ==
  ASSUME medium \in Pressings, NEW r \in Readings("index"), Judged(r) \in {"same", "vouchedFor"},
         staged[Index] # None
  PROVE  ~Foreign
  <1>1. CASE Judged(r) = "same"
    <2>1. staged[Index] = r
      BY <1>1 DEF Judged
    <2>2. \A b \in Block : r[b] \in medium.data["index"][b]
      BY DEF Readings
    <2> QED
      BY <2>1, <2>2, ReadingIsIndexOf DEF Foreign
  <1>2. CASE Judged(r) = "vouchedFor"
    <2>1. Want("index") # None /\ staged[Index] = Whole(Want("index"))
      BY <1>2 DEF Judged
    <2>2. Want("index") = medium.set
      BY <2>1, DiscFacts DEF Want, Kind
    <2> QED
      BY <2>1, <2>2 DEF Foreign, IndexOf
  <1> QED
    BY <1>1, <1>2

-----------------------------------------------------------------------------
(* A run without a problem.                                                *)

\* A pass goes on with its disc, unless it ends with a problem, a stop, or the manifest.
LEMMA PassGoesOn ==
  ASSUME IngestInv, [Next]_vars, pc # "idle", ~bad'
  PROVE  \/ vouched' = {}
         \/ TakeManifest
         \/ pc' # "idle" /\ medium' = medium /\ ~bad
  <1> SUFFICES ASSUME vouched' # {}, ~TakeManifest
               PROVE  pc' # "idle" /\ medium' = medium /\ ~bad
    OBVIOUS
  <1>1. ~(\E d \in Pressings : Insert(d)) /\ ~EndRun /\ ~Stop /\ ~StopResume
    BY DEF Insert, EndRun, Stop, StopResume
  <1>2. CASE UNCHANGED vars
    BY <1>2 DEF vars, pass
  <1>3. CASE Problem \/ PassFails
    BY <1>3 DEF Problem, PassFails
  <1>4. CASE Done
    BY <1>4 DEF Done, NextFile
  <1>5. CASE ToCopy("primary") \/ ToCopy("alternate")
    BY <1>5 DEF ToCopy
  <1>6. CASE TakeKey
    <2>1. PassFails \/ (pc' = "file" /\ UNCHANGED pass /\ (bad' = TRUE \/ bad' = bad))
      BY <1>6 DEF TakeKey, pass
    <2> QED
      BY <1>3, <2>1 DEF pass
  <1>7. CASE JudgeIndex
    <2>1. PassFails \/ (pc' = "key" /\ medium' = medium /\ bad' = bad)
      BY <1>7 DEF JudgeIndex, pass
    <2> QED
      BY <1>3, <2>1
  <1>8. CASE CopyStream \/ RescueAll \/ BeginRescue
    BY <1>8 DEF CopyStream, RescueAll, BeginRescue, pass
  <1>9. CASE CopyNew \/ ReadBeside
    BY <1>5, <1>9 DEF CopyNew, ReadBeside
  <1>10. CASE SettleIndex
    BY <1>3, <1>4, <1>10 DEF SettleIndex, Settle
  <1>11. CASE Compare
    BY <1>3, <1>4, <1>5, <1>11 DEF Compare
  <1>12. CASE AlreadyWhole \/ Resume \/ CannotResume \/ CheckNew \/ Replace \/ DropCopy \/ KeepBoth
              \/ RescueSome \/ CannotRescue
    BY <1>3, <1>4, <1>12 DEF AlreadyWhole, Resume, CannotResume, CheckNew, Replace, DropCopy,
                            KeepBoth, RescueSome, CannotRescue
  <1> QED
    BY <1>1, <1>2, <1>6, <1>7, <1>8, <1>9, <1>10, <1>11, <1>12 DEF Next, Step

\* The index in staging keeps its set.
LEMMA IndexStays ==
  IngestInv /\ [Next]_vars /\ staged[Index] # None => staged'[Index] = staged[Index]
  BY IndexSteps

LEMMA ForeignStays ==
  ASSUME IngestInv, [Next]_vars, staged[Index] # None, medium' = medium
  PROVE  Foreign' <=> Foreign
  BY IndexStays DEF Foreign, IndexOf, Whole

LEMMA VerdictSoundKept == RunInv /\ [Next]_vars => VerdictSound'
  <1> SUFFICES ASSUME RunInv, [Next]_vars, pc' # "idle", verdict' \in {"same", "vouchedFor"}
               PROVE  staged'[Index] # None /\ ~Foreign'
    BY DEF VerdictSound
  <1>0. IngestInv
    BY DEF RunInv
  <1>1. CASE JudgeIndex /\ verdict' # verdict
    <2>1. pc = "index" /\ medium \in Pressings
      BY <1>0, <1>1 DEF JudgeIndex, IngestInv, TypeInv
    <2>2. PICK r \in Readings("index") : staged[Index] # None /\ verdict' = Judged(r) /\ medium' = medium
      BY <1>1 DEF JudgeIndex, PassFails, EndPass, pass
    <2>3. ~Foreign
      BY <2>1, <2>2, PassingVerdicts
    <2> QED
      BY <1>0, <2>2, <2>3, IndexStays, ForeignStays
  <1>2. CASE ~(JudgeIndex /\ verdict' # verdict)
    <2>1. pc # "idle"
      BY DEF Next, Step, vars, Insert, EndRun, JudgeIndex, TakeKey, CopyNew, SettleIndex, AtFile,
             AlreadyWhole, Resume, CannotResume, ReadBeside, Compare, CopyStream, BeginRescue,
             CannotRescue, RescueAll, RescueSome, CheckNew, Replace, DropCopy, KeepBoth,
             TakeManifest, Stop, StopResume, NotWhole, Again, Landed, ReadError
    <2>2. verdict' = verdict /\ medium' = medium
      <3>1. ~EndPass
        BY DEF EndPass
      <3>2. CASE Problem \/ Done
        BY <3>2 DEF Problem, Done, NextFile
      <3>3. CASE ToCopy("primary") \/ ToCopy("alternate")
        BY <3>3 DEF ToCopy
      <3>4. CASE UNCHANGED pass
        BY <3>4 DEF pass
      <3>5. CASE JudgeIndex
        BY <1>2, <3>1, <3>5 DEF JudgeIndex, PassFails, pass
      <3> QED
        BY <2>1, <3>1, <3>2, <3>3, <3>4, <3>5
           DEF Next, Step, vars, Insert, EndRun, TakeKey, CopyNew, SettleIndex, Settle,
               AlreadyWhole, Resume, CannotResume, ReadBeside, Compare, CopyStream, BeginRescue,
               CannotRescue, RescueAll, RescueSome, CheckNew, Replace, DropCopy, KeepBoth,
               TakeManifest, Stop, StopResume, PassFails
    <2>3. staged[Index] # None /\ ~Foreign
      BY <2>1, <2>2 DEF RunInv, VerdictSound
    <2> QED
      BY <1>0, <2>2, <2>3, IndexStays, ForeignStays
  <1> QED
    BY <1>1, <1>2

\* An index that a pass goes on from without a problem is of the set of its disc.
LEMMA IndexSettled ==
  ASSUME RunInv, [Next]_vars, pc \in AtFiles, at = 2, Done, ~bad'
  PROVE  staged[Index] # None /\ ~Foreign
  <1>0. IngestInv /\ medium \in Pressings /\ at \in 1 .. 3
    BY DEF RunInv, IngestInv, TypeInv, AtFiles
  <1>1. Current = Index /\ Order[at] = "index"
    BY <1>0, FileAtHand
  <1>2. SettleIndex \/ CheckNew
    <2>1. pc' # pc \/ at' # at
      BY <1>0 DEF Done, NextFile
    <2>2. ~(pc' \in {"idle", "copy", "key", "landed", "rescue"})
      BY FilesEndBetween DEF Done, NextFile
    <2>3. target # "alternate" \/ pc = "file"
      BY DEF RunInv, IngestInv, CopyInHand, AtFiles
    <2>4. ~Again
      BY <1>1 DEF Again
    <2>5. ~(UNCHANGED pass)
      BY <1>0 DEF Done, NextFile, pass
    <2>6. ~Problem /\ ~PassFails
      BY DEF Problem, PassFails
    <2> QED
      BY <2>1, <2>2, <2>3, <2>4, <2>5, <2>6
         DEF Next, Step, vars, Insert, EndRun, JudgeIndex, TakeKey, CopyNew, AlreadyWhole, Resume,
             CannotResume, ReadBeside, Compare, CopyStream, BeginRescue, CannotRescue, RescueAll,
             RescueSome, Replace, DropCopy, KeepBoth, TakeManifest, Stop, StopResume,
             EndPass, ToCopy, NotWhole, Landed, AtFiles
  <1>3. CASE SettleIndex
    <2>1. staged[Index] # None
      BY <1>3 DEF SettleIndex
    <2>2. CASE verdict # "none"
      <3>1. verdict # "selfContradicting"
        BY <1>3, <2>2 DEF SettleIndex, Settle, Problem, Done
      <3> QED
        BY <1>0, <2>2, <3>1 DEF RunInv, VerdictSound, IngestInv, TypeInv, TypeOK, Verdict, AtFiles
    <2>3. CASE verdict = "none"
      <3>1. PICK r \in Readings("index") : Judged(r) # "foreign" /\ Settle(Judged(r))
        BY <1>3, <2>3, FilesEndBetween DEF SettleIndex, PassFails, EndPass, Done, NextFile
      <3>2. Judged(r) # "selfContradicting"
        BY <3>1 DEF Settle, Problem, Done
      <3>3. Judged(r) \in {"same", "vouchedFor"}
        BY <3>1, <3>2 DEF Judged
      <3> QED
        BY <1>0, <2>1, <3>3, PassingVerdicts
    <2> QED
      BY <2>1, <2>2, <2>3
  <1>4. CASE CheckNew
    <2>1. staged[Index] # None /\ ReadFrom(staged[Index])
      BY <1>0, <1>1, <1>4 DEF CheckNew, Landed, IngestInv, CopyInHand
    <2>2. IndexOf(medium.set, staged[Index])
      BY <1>0, <1>1, <2>1, ReadingIsIndexOf DEF ReadFrom
    <2> QED
      BY <2>1, <2>2 DEF Foreign
  <1> QED
    BY <1>2, <1>3, <1>4

LEMMA PastTheIndexKept == RunInv /\ [Next]_vars => PastTheIndex'
  <1> SUFFICES ASSUME RunInv, [Next]_vars, pc' # "idle", at' > 2, ~bad'
               PROVE  staged'[Index] # None /\ ~Foreign'
    BY DEF PastTheIndex
  <1>0. IngestInv
    BY DEF RunInv
  <1>1. (at' = at /\ pc # "idle" /\ medium' = medium /\ bad' = bad) \/ (pc \in AtFiles /\ Done)
    <2>1. ~Problem /\ ~PassFails /\ ~EndPass
      BY DEF Problem, PassFails, EndPass
    <2>2. ~(\E d \in Pressings : Insert(d)) /\ ~EndRun /\ ~JudgeIndex /\ ~TakeKey
      <3>1. (\E d \in Pressings : Insert(d)) => at' = 1
        BY DEF Insert
      <3>2. EndRun => pc' = "idle"
        BY DEF EndRun
      <3>3. JudgeIndex \/ TakeKey => at' = 1
        <4>1. JudgeIndex \/ TakeKey => at = 1
          BY <1>0 DEF IngestInv, TypeInv, JudgeIndex, TakeKey
        <4> QED
          BY <2>1, <4>1 DEF JudgeIndex, TakeKey, pass
      <3> QED
        BY <3>1, <3>2, <3>3
    <2>3. CASE pc \in AtFiles /\ (ToCopy("primary") \/ ToCopy("alternate"))
      BY <2>3 DEF ToCopy, AtFiles
    <2>4. CASE CopyStream \/ RescueAll \/ BeginRescue \/ UNCHANGED vars
      BY <2>4 DEF CopyStream, RescueAll, BeginRescue, ReadError, vars, pass
    <2> QED
      BY <2>1, <2>2, <2>3, <2>4
         DEF Next, Step, CopyNew, SettleIndex, Settle, AtFile, AlreadyWhole, Resume, CannotResume,
             ReadBeside, Compare, CannotRescue, RescueSome, CheckNew, Replace, DropCopy, KeepBoth,
             TakeManifest, Stop, StopResume, NotWhole, Again, Landed, AtFiles
  <1>2. CASE at' = at /\ pc # "idle" /\ medium' = medium /\ bad' = bad
    <2>1. staged[Index] # None /\ ~Foreign
      BY <1>2 DEF RunInv, PastTheIndex
    <2> QED
      BY <1>0, <1>2, <2>1, IndexStays, ForeignStays
  <1>3. CASE pc \in AtFiles /\ Done
    <2>1. at \in 1 .. 3 /\ at' = at + 1 /\ medium' = medium /\ bad' = bad
      BY <1>0, <1>3 DEF Done, NextFile, IngestInv, TypeInv
    <2>2. staged[Index] # None /\ ~Foreign
      <3>1. CASE at = 2
        BY <1>3, <3>1, IndexSettled
      <3>2. CASE at = 3
        BY <1>3, <2>1, <3>2 DEF RunInv, PastTheIndex, AtFiles
      <3> QED
        BY <2>1, <3>1, <3>2
    <2> QED
      BY <1>0, <2>1, <2>2, IndexStays, ForeignStays
  <1> QED
    BY <1>1, <1>2, <1>3

\* What a step adds to what discs recorded.
LEMMA VouchedSteps ==
  IngestInv /\ [Next]_vars =>
    \/ vouched' \subseteq vouched
    \/ /\ pc = "file" /\ medium \in Pressings /\ at \in 1 .. 3
       /\ Want(Order[at]) = medium.set
       /\ vouched' = vouched \cup {<<Current, medium.set>>}
  <1> SUFFICES ASSUME IngestInv, [Next]_vars, ~(vouched' \subseteq vouched)
               PROVE  /\ pc = "file" /\ medium \in Pressings /\ at \in 1 .. 3
                      /\ Want(Order[at]) = medium.set
                      /\ vouched' = vouched \cup {<<Current, medium.set>>}
    OBVIOUS
  <1>1. pc = "file" /\ Vouch
    BY DEF Next, Step, vars, Insert, EndRun, JudgeIndex, TakeKey, CopyNew, SettleIndex,
           AlreadyWhole, Resume, CannotResume, ReadBeside, Compare, CopyStream, BeginRescue,
           CannotRescue, RescueAll, RescueSome, CheckNew, Replace, DropCopy, KeepBoth,
           TakeManifest, Stop, StopResume, AtFile, NotWhole, Again
  <1>2. medium \in Pressings /\ at \in 1 .. 3
    BY <1>1 DEF IngestInv, TypeInv, AtFiles
  <1>3. Want(Order[at]) # None
    BY <1>1 DEF Vouch
  <1>4. Want(Order[at]) = medium.set
    BY <1>2, <1>3, FileAtHand, DiscFacts DEF Want
  <1> QED
    BY <1>1, <1>2, <1>3, <1>4 DEF Vouch

LEMMA VouchersKnownKept == RunInv /\ [Next]_vars => VouchersKnown'
  <1> SUFFICES ASSUME RunInv, [Next]_vars, ~bad', NEW v \in vouched'
               PROVE  \/ staged'[Index] # None /\ IndexOf(v[2], staged'[Index])
                      \/ pc' # "idle" /\ at' <= 2 /\ v[2] = medium'.set
    BY DEF VouchersKnown, IndexOf, Whole
  <1>0. IngestInv /\ IngestInv'
    <2>1. IngestInv
      BY DEF RunInv
    <2> QED
      BY <2>1, TypesKept, CopyInHandKept, OursInDriveKept DEF IngestInv
  <1>1. at' \in Nat
    BY <1>0 DEF IngestInv, TypeInv, TypeOK
  <1>2. ASSUME pc' # "idle", v[2] = medium'.set
        PROVE  \/ staged'[Index] # None /\ IndexOf(v[2], staged'[Index])
               \/ pc' # "idle" /\ at' <= 2 /\ v[2] = medium'.set
    <2>1. CASE at' <= 2
      BY <1>2, <2>1
    <2>2. CASE at' > 2
      <3>1. staged'[Index] # None /\ ~Foreign'
        BY <1>2, <2>2, PastTheIndexKept DEF PastTheIndex
      <3> QED
        BY <1>2, <3>1 DEF Foreign, IndexOf, Whole
    <2> QED
      BY <1>1, <2>1, <2>2
  <1>3. CASE pc = "idle"
    <2>1. ~bad /\ v \in vouched
      <3>1. vouched' \subseteq vouched
        BY <1>0, <1>3, VouchedSteps
      <3>2. (\E d \in Pressings : Insert(d)) \/ EndRun \/ UNCHANGED vars
        BY <1>3 DEF Next, Step, JudgeIndex, TakeKey, CopyNew, SettleIndex, AtFile, AlreadyWhole,
             Resume, CannotResume, ReadBeside, Compare, CopyStream, BeginRescue, CannotRescue,
             RescueAll, RescueSome, CheckNew, Replace, DropCopy, KeepBoth, TakeManifest, Stop,
             StopResume, NotWhole, Again, Landed, ReadError
      <3> QED
        BY <3>1, <3>2 DEF Insert, EndRun, vars
    <2>2. staged[Index] # None /\ IndexOf(v[2], staged[Index])
      BY <1>3, <2>1 DEF RunInv, VouchersKnown
    <2> QED
      BY <1>0, <2>2, IndexStays
  <1>4. CASE TakeManifest
    <2>1. ~bad /\ v \in vouched /\ at = 4
      BY <1>0, <1>4 DEF TakeManifest, IngestInv, TypeInv
    <2>2. staged[Index] # None /\ IndexOf(v[2], staged[Index])
      BY <2>1 DEF RunInv, VouchersKnown
    <2> QED
      BY <1>0, <2>2, IndexStays
  <1>5. CASE pc' # "idle" /\ medium' = medium /\ ~bad /\ pc # "idle"
    <2>1. CASE v \in vouched
      <3>1. \/ staged[Index] # None /\ IndexOf(v[2], staged[Index])
            \/ v[2] = medium.set
        BY <1>5, <2>1 DEF RunInv, VouchersKnown
      <3> QED
        BY <1>0, <1>2, <1>5, <3>1, IndexStays
    <2>2. CASE v \notin vouched
      <3>1. v[2] = medium.set
        BY <1>0, <2>2, VouchedSteps
      <3> QED
        BY <1>2, <1>5, <3>1
    <2> QED
      BY <2>1, <2>2
  <1> QED
    BY <1>0, <1>3, <1>4, <1>5, PassGoesOn

-----------------------------------------------------------------------------
(* What is accounted for stays so, as long as the discs are of one set.    *)

\* In a run without a problem all that was vouched for is of the set of the disc.
LEMMA VouchersAreOfTheSet ==
  ASSUME RunInv, ~bad, pc # "idle", ~Foreign, NEW v \in vouched
  PROVE  v[2] = medium.set
  <1>1. medium.set \in Set /\ v[2] \in Set /\ staged[Index] \in Content \cup {None}
    <2>1. medium \in Pressings /\ vouched \subseteq Name \X Set
      BY DEF RunInv, IngestInv, TypeInv, TypeOK
    <2>2. Index \in Name
      BY DEF Name
    <2> QED
      BY <2>1, <2>2, DiscFacts DEF RunInv, IngestInv, TypeInv, TypeOK
  <1>2. CASE staged[Index] # None /\ IndexOf(v[2], staged[Index])
    BY <1>1, <1>2, OneSetOnly DEF Foreign
  <1> QED
    BY <1>2 DEF RunInv, VouchersKnown

\* A file that is accounted for stays so if it, its map and its copies do, whatever copies
\* come to them.
LEMMA AccountedStays ==
  ASSUME NEW v, AccountedFor(v), staged'[v[1]] = staged[v[1]], unread'[v[1]] = unread[v[1]],
         \A i \in DOMAIN Standing(v[1]) :
           \E j \in DOMAIN Standing(v[1])' : Standing(v[1])'[j] = Standing(v[1])[i]
  PROVE  AccountedFor(v)'
  <1>1. CASE staged[v[1]] = Whole(v[2])
    BY <1>1 DEF AccountedFor, Whole
  <1>2. CASE \E i \in DOMAIN Standing(v[1]) :
               Standing(v[1])[i].gaps = {} /\ Standing(v[1])[i].bytes # staged[v[1]]
    BY <1>2 DEF AccountedFor
  <1> QED
    BY <1>1, <1>2 DEF AccountedFor

\* A step that leaves a file, its map and its copies alone.
LEMMA UntouchedStays ==
  ASSUME NEW v, AccountedFor(v), staged'[v[1]] = staged[v[1]], unread'[v[1]] = unread[v[1]],
         copies'[v[1]] = copies[v[1]],
         ~(pc = "landed" /\ target = "alternate" /\ v[1] = Current),
         ~(pc' = "landed" /\ target' = "alternate" /\ v[1] = Current')
  PROVE  AccountedFor(v)'
  <1>1. Standing(v[1])' = copies[v[1]] /\ Standing(v[1]) = copies[v[1]]
    BY DEF Standing
  <1> QED
    BY <1>1, AccountedStays

\* What the pass has just settled.
Settled(v) == v[1] = Index \/ AccountedFor(v) \/ JustVouched(v)

\* Before the files, between passes and where nothing happens.
LEMMA QuietSteps ==
  ASSUME RunInv, [Next]_vars, ~bad', pc \notin AtFiles, vouched' # {},
         \A v \in vouched : Settled(v)
  PROVE  \A v \in vouched' : v[1] = Index \/ AccountedFor(v)' \/ JustVouched(v)'
  <1>1. /\ UNCHANGED <<staged, unread, copies>> /\ vouched' = vouched
        /\ pc' # "landed"
    BY DEF AtFiles, Next, Step, vars, staging, Insert, EndRun, JudgeIndex, TakeKey, CopyNew,
           SettleIndex, AtFile, AlreadyWhole, Resume, CannotResume, ReadBeside, Compare, CopyStream,
           BeginRescue, CannotRescue, RescueAll, RescueSome, CheckNew, Replace, DropCopy, KeepBoth,
           TakeManifest, Stop, StopResume, NotWhole, Again, Landed, ReadError, EndPass, PassFails
  <1>2. ASSUME NEW v \in vouched, v[1] # Index PROVE AccountedFor(v)'
    <2>1. AccountedFor(v)
      BY <1>2 DEF Settled, JustVouched, AtFiles
    <2> QED
      BY <1>1, <2>1, UntouchedStays DEF AtFiles
  <1> QED
    BY <1>1, <1>2

\* The steps that look at a file and change nothing of it but perhaps drop its map.
LEMMA LookingSteps ==
  ASSUME RunInv, ~bad', \A v \in vouched : Settled(v),
         CopyNew \/ SettleIndex \/ AlreadyWhole \/ CannotResume \/ ReadBeside \/ Compare
  PROVE  \A v \in vouched' : v[1] = Index \/ AccountedFor(v)' \/ JustVouched(v)'
  <1>0. pc = "file" /\ medium \in Pressings /\ at \in 1 .. 3
    BY DEF CopyNew, SettleIndex, AtFile, AlreadyWhole, CannotResume, ReadBeside, Compare, NotWhole,
           Again, RunInv, IngestInv, TypeInv, AtFiles
  <1>1. /\ staged' = staged /\ copies' = copies /\ pc' # "landed" /\ Vouch
        /\ unread' = unread \/ AlreadyWhole
    BY FilesEndBetween
       DEF CopyNew, SettleIndex, Settle, AtFile, AlreadyWhole, CannotResume, ReadBeside, Compare,
           NotWhole, staging, ToCopy
  <1>2. unread \in [Name -> SUBSET Block] /\ Current \in Name
    BY <1>0, FileAtHand DEF RunInv, IngestInv, TypeInv, TypeOK
  <1>3. ASSUME NEW v \in vouched, v[1] # Index PROVE AccountedFor(v)'
    <2>1. AccountedFor(v)
      BY <1>0, <1>3 DEF Settled, JustVouched
    <2>2. unread'[v[1]] = unread[v[1]]
      <3>1. CASE AlreadyWhole
        <4>1. unread' = [unread EXCEPT ![Current] = {}] /\ unread[v[1]] = {}
          BY <2>1, <3>1 DEF AlreadyWhole, AccountedFor
        <4> QED
          BY <1>2, <4>1
      <3> QED
        BY <1>1, <3>1
    <2> QED
      BY <1>0, <1>1, <2>1, <2>2, UntouchedStays
  <1>4. ASSUME NEW v \in vouched', v \notin vouched, v[1] # Index
        PROVE  AccountedFor(v)' \/ JustVouched(v)'
    <2>1. v = <<Current, Want(Order[at])>> /\ Want(Order[at]) # None
      BY <1>1, <1>4 DEF Vouch
    <2>2. ~SettleIndex
      BY <1>4, <2>1 DEF SettleIndex
    <2>3. ~CannotResume
      BY DEF CannotResume, Problem
    <2>4. ~Compare
      BY <2>1 DEF Compare
    <2>5. CASE CopyNew \/ ReadBeside
      <3>1. UNCHANGED <<medium, at>> /\ pc' = "copy"
        BY <2>5 DEF CopyNew, ReadBeside, ToCopy
      <3>2. Current' = Current /\ medium'.sums[Order[at']] = Want(Order[at])
        BY <3>1, SameFile DEF Want
      <3>3. v = <<Current', medium'.sums[Order[at']]>>
        BY <2>1, <3>2
      <3> QED
        BY <3>1, <3>3 DEF JustVouched, Order
    <2>6. CASE AlreadyWhole
      <3>1. /\ staged[Current] = Whole(Want(Order[at])) /\ staged[Current] # None
            /\ unread' = [unread EXCEPT ![Current] = {}]
        BY <2>6 DEF AlreadyWhole, Again
      <3>2. v[1] = Current /\ v[2] = Want(Order[at]) /\ unread'[Current] = {}
        BY <1>2, <2>1, <3>1
      <3> QED
        BY <1>1, <3>1, <3>2 DEF AccountedFor, Whole
    <2> QED
      BY <2>2, <2>3, <2>4, <2>5, <2>6
  <1> QED
    BY <1>3, <1>4

\* What is left of a sequence when the last is taken that was appended.
LEMMA AllButTheLast ==
  ASSUME NEW S, NEW s \in Seq(S), NEW e \in S
  PROVE  SubSeq(Append(s, e), 1, Len(Append(s, e)) - 1) = s
  <1> DEFINE t == Append(s, e)
             n == Len(s)
  <1>1. /\ t \in Seq(S) /\ Len(t) = n + 1 /\ \A i \in 1 .. n : t[i] = s[i]
    BY AppendProperties
  <1>2. n \in Nat /\ Len(t) - 1 = n
    BY <1>1
  <1>3. 1 \in 1 .. Len(t) + 1 /\ n \in 0 .. Len(t)
    BY <1>1, <1>2
  <1> HIDE DEF t
  <1>4. /\ SubSeq(t, 1, n) \in Seq(S)
        /\ Len(SubSeq(t, 1, n)) = IF 1 <= n THEN n - 1 + 1 ELSE 0
        /\ \A i \in 1 .. n - 1 + 1 : SubSeq(t, 1, n)[i] = t[1 + i - 1]
    BY <1>1, <1>3, SubSeqProperties
  <1>5. Len(SubSeq(t, 1, n)) = n
    BY <1>2, <1>4
  <1>6. \A i \in 1 .. n : SubSeq(t, 1, n)[i] = s[i]
    <2> TAKE i \in 1 .. n
    <2>1. i \in 1 .. n - 1 + 1 /\ 1 + i - 1 = i
      BY <1>2
    <2> QED
      BY <1>1, <1>4, <2>1
  <1>7. SubSeq(t, 1, n) = s
    BY <1>4, <1>5, <1>6, SeqEqual
  <1> QED
    BY <1>2, <1>7 DEF t

LEMMA ResumeStep ==
  ASSUME RunInv, ~bad', \A v \in vouched : Settled(v), Resume
  PROVE  \A v \in vouched' : v[1] = Index \/ AccountedFor(v)' \/ JustVouched(v)'
  <1>0. pc = "file" /\ medium \in Pressings /\ at \in 1 .. 3
    BY DEF Resume, NotWhole, Again, RunInv, IngestInv, TypeInv, AtFiles
  <1>1. Current \in Name /\ staged \in [Name -> Content \cup {None}] /\ unread \in [Name -> SUBSET Block]
    BY <1>0, FileAtHand DEF RunInv, IngestInv, TypeInv, TypeOK
  <1>2. PICK r \in Readings(Order[at]) :
          /\ staged' = [staged EXCEPT ![Current] = Resumed(staged[Current], unread[Current], r)]
          /\ unread' = [unread EXCEPT ![Current] = unread[Current] \cap Gaps(r)]
          /\ IF \/ unread[Current] \cap Gaps(r) # {}
                \/ /\ Want(Order[at]) # None
                   /\ Resumed(staged[Current], unread[Current], r) # Whole(Want(Order[at]))
             THEN Problem ELSE Done
    BY DEF Resume
  <1>3. ~Problem
    BY DEF Problem
  <1>4. /\ copies' = copies /\ unread[Current] # {} /\ Vouch /\ pc' \in {"file", "manifest"}
        /\ staged[Current] # None
    BY <1>2, <1>3 DEF Resume, NotWhole, Again, Done, NextFile
  <1>5. ASSUME NEW v \in vouched, v[1] # Index PROVE AccountedFor(v)'
    <2>1. AccountedFor(v) /\ v[1] # Current
      BY <1>0, <1>4, <1>5 DEF Settled, JustVouched, AccountedFor
    <2>2. staged'[v[1]] = staged[v[1]] /\ unread'[v[1]] = unread[v[1]]
      BY <1>1, <1>2, <2>1
    <2> QED
      BY <1>0, <1>4, <2>1, <2>2, UntouchedStays
  <1>6. ASSUME NEW v \in vouched', v \notin vouched PROVE AccountedFor(v)'
    <2>1. v = <<Current, Want(Order[at])>> /\ Want(Order[at]) # None
      BY <1>4, <1>6 DEF Vouch
    <2>2. /\ Resumed(staged[Current], unread[Current], r) = Whole(Want(Order[at]))
          /\ unread[Current] \cap Gaps(r) = {}
      BY <1>2, <1>3, <2>1
    <2>3. staged'[Current] = Whole(Want(Order[at])) /\ unread'[Current] = {}
      BY <1>1, <1>2, <2>2
    <2>4. staged'[Current] # None
      <3>1. Resumed(staged[Current], unread[Current], r) \in Content
        BY <1>0, <1>4, ResumedFacts DEF RunInv, IngestInv, AtFiles
      <3> QED
        BY <2>2, <2>3, <3>1, IngestAssumption
    <2>5. v[1] = Current /\ v[2] = Want(Order[at])
      BY <2>1
    <2> QED
      BY <2>3, <2>4, <2>5 DEF AccountedFor, Whole
  <1> QED
    BY <1>5, <1>6

\* While a file is read, its other copies are those there were.
LEMMA CopyingSteps ==
  ASSUME RunInv, ~bad', \A v \in vouched : Settled(v), CopyStream \/ RescueAll \/ BeginRescue
  PROVE  \A v \in vouched' : v[1] = Index \/ AccountedFor(v)' \/ JustVouched(v)'
  <1>0. pc \in {"copy", "rescue"} /\ medium \in Pressings /\ at \in 1 .. 3 /\ IngestInv
    BY DEF CopyStream, RescueAll, BeginRescue, ReadError, RunInv, IngestInv, TypeInv, AtFiles
  <1>1. /\ Current \in Name /\ staged \in [Name -> Content \cup {None}]
        /\ unread \in [Name -> SUBSET Block] /\ copies \in [Name -> Seq(Copy)]
        /\ vouched \subseteq Name \X Set /\ target \in {"primary", "alternate"}
    BY <1>0, FileAtHand DEF RunInv, IngestInv, TypeInv, TypeOK
  <1>2. /\ vouched' = vouched /\ UNCHANGED <<medium, at, target>> /\ pc' \in {"landed", "rescue"}
    BY DEF CopyStream, RescueAll, BeginRescue, pass
  <1>3. Current' = Current /\ medium'.sums[Order[at']] = medium.sums[Order[at]]
    BY <1>2, SameFile
  <1>4. \A v : JustVouched(v) => JustVouched(v)'
    BY <1>2, <1>3 DEF JustVouched, Order
  <1>5. ASSUME NEW v \in vouched, AccountedFor(v) PROVE AccountedFor(v)'
    <2>0. v[1] \in Name
      BY <1>1
    <2>1. CASE target = "primary"
      <3>1. staged[Current] = None
        BY <1>0, <2>1 DEF IngestInv, CopyInHand
      <3>2. v[1] # Current
        BY <1>5, <3>1 DEF AccountedFor
      <3>3. /\ copies' = copies
            /\ staged' = staged \/ \E bytes : staged' = [staged EXCEPT ![Current] = bytes]
            /\ unread' = unread \/ unread' = [unread EXCEPT ![Current] = {}]
        BY <2>1 DEF CopyStream, RescueAll, BeginRescue, Put
      <3>4. staged'[v[1]] = staged[v[1]] /\ unread'[v[1]] = unread[v[1]]
        BY <1>1, <2>0, <3>2, <3>3
      <3> QED
        BY <1>2, <1>5, <2>1, <3>3, <3>4, UntouchedStays
    <2>2. CASE target = "alternate"
      <3>1. staged' = staged /\ unread' = unread
        BY <2>2 DEF CopyStream, RescueAll, BeginRescue, Put
      <3>2. CASE BeginRescue
        <4>1. copies' = copies /\ pc' = "rescue"
          BY <3>2 DEF BeginRescue
        <4> QED
          BY <1>0, <1>5, <3>1, <4>1, UntouchedStays
      <3>3. CASE CopyStream \/ RescueAll
        <4>1. PICK r \in Readings(Order[at]) : Clean(r) /\ Put(r)
          BY <3>3 DEF CopyStream, RescueAll
        <4> DEFINE c == [bytes |-> r, gaps |-> {}]
        <4>2. c \in Copy /\ copies' = [copies EXCEPT ![Current] = Append(@, c)]
          BY <1>0, <2>2, <4>1, ReadingFacts DEF Put, Fresh, Copy
        <4>3. CASE v[1] # Current
          <5>1. copies'[v[1]] = copies[v[1]]
            BY <1>0, <2>0, <4>2, <4>3, AppendedOnly
          <5> QED
            BY <1>3, <1>5, <3>1, <4>3, <5>1, UntouchedStays
        <4>4. CASE v[1] = Current
          <5>1. Standing(v[1]) = copies[Current]
            BY <1>0, <4>4 DEF Standing
          <5>2. pc' = "landed" /\ target' = "alternate"
            BY <1>2, <2>2, <3>3 DEF CopyStream, RescueAll
          <5>3. copies'[Current] = Append(copies[Current], c) /\ copies[Current] \in Seq(Copy)
            BY <1>1, <4>2
          <5>4. Standing(v[1])' = SubSeq(copies'[Current], 1, Len(copies'[Current]) - 1)
            BY <1>3, <4>4, <5>2 DEF Standing, Others, Alternates
          <5>5. SubSeq(Append(copies[Current], c), 1, Len(Append(copies[Current], c)) - 1) = copies[Current]
            BY <4>2, <5>3, AllButTheLast
          <5>6. Standing(v[1])' = Standing(v[1])
            BY <5>1, <5>3, <5>4, <5>5
          <5> QED
            BY <1>5, <3>1, <5>6, AccountedStays
        <4> QED
          BY <4>3, <4>4
      <3> QED
        BY <3>2, <3>3
    <2> QED
      BY <1>1, <2>1, <2>2
  <1> QED
    BY <1>2, <1>4, <1>5 DEF Settled

\* What is made of a copy that has landed.
LEMMA LandedSteps ==
  ASSUME RunInv, ~bad, ~bad', ~Foreign, \A v \in vouched : Settled(v),
         CheckNew \/ Replace \/ DropCopy \/ KeepBoth
  PROVE  \A v \in vouched' : v[1] = Index \/ AccountedFor(v)' \/ JustVouched(v)'
  <1>0. pc = "landed" /\ medium \in Pressings /\ at \in 1 .. 3 /\ IngestInv
    BY DEF CheckNew, Replace, DropCopy, KeepBoth, Landed, RunInv, IngestInv, TypeInv, AtFiles
  <1>1. /\ Current \in Name /\ staged \in [Name -> Content \cup {None}]
        /\ unread \in [Name -> SUBSET Block] /\ copies \in [Name -> Seq(Copy)]
        /\ vouched \subseteq Name \X Set
    BY <1>0, FileAtHand DEF RunInv, IngestInv, TypeInv, TypeOK
  <1>2. ~Problem
    BY DEF Problem
  <1>3. /\ Done /\ pc' \in {"file", "manifest"} /\ vouched' = vouched
    BY <1>2 DEF CheckNew, Replace, DropCopy, KeepBoth, Done, NextFile
  <1>4. \A n : Standing(n)' = copies'[n]
    BY <1>3 DEF Standing
  <1>5. SUFFICES ASSUME NEW v \in vouched, v[1] # Index PROVE AccountedFor(v)'
    BY <1>3
  <1>6. v[1] \in Name /\ v[2] \in Set /\ v = <<v[1], v[2]>>
    BY <1>1
  <1>7. v[2] = medium.set
    BY <1>0, VouchersAreOfTheSet
  <1>8. AccountedFor(v) \/ (v[1] = Current /\ v[2] = Want(Order[at]))
    BY <1>5, <1>6 DEF Settled, JustVouched, Want
  <1>9. None \notin Content /\ None \notin Set
    BY IngestAssumption
  <1>10. CASE CheckNew
    <2>1. /\ staged' = staged /\ copies' = copies /\ unread' = [unread EXCEPT ![Current] = {}]
          /\ target = "primary" /\ ~(Want(Order[at]) # None /\ staged[Current] # Whole(Want(Order[at])))
      BY <1>2, <1>10 DEF CheckNew, Landed
    <2>2. CASE AccountedFor(v)
      <3>1. unread'[v[1]] = unread[v[1]]
        BY <1>1, <1>6, <2>1, <2>2 DEF AccountedFor
      <3> QED
        BY <1>3, <2>1, <2>2, <3>1, UntouchedStays
    <2>3. CASE v[1] = Current /\ v[2] = Want(Order[at])
      <3>1. staged[Current] = Whole(v[2]) /\ staged[Current] # None /\ unread'[Current] = {}
        BY <1>0, <1>1, <1>6, <1>9, <2>1, <2>3 DEF IngestInv, CopyInHand
      <3> QED
        BY <2>1, <2>3, <3>1 DEF AccountedFor, Whole
    <2> QED
      BY <1>8, <2>2, <2>3
  <1>11. CASE Replace
    <2>1. /\ target = "alternate" /\ Proven /\ DropNewest /\ unread' = unread
          /\ staged' = [staged EXCEPT ![Current] = Newest.bytes]
      BY <1>11 DEF Replace, Landed
    <2>2. CASE v[1] # Current
      <3>1. staged'[v[1]] = staged[v[1]] /\ copies'[v[1]] = copies[v[1]]
        BY <1>0, <1>1, <1>6, <2>1, <2>2, OthersOnly
      <3> QED
        BY <1>3, <1>8, <2>1, <2>2, <3>1, UntouchedStays
    <2>3. CASE v[1] = Current
      <3>1. Want(Order[at]) = medium.set
        BY <1>0, <2>1, FileAtHand, DiscFacts DEF Proven, Want
      <3>2. staged'[Current] = Whole(v[2]) /\ staged'[Current] # None
        <4>1. Newest.bytes = Whole(v[2]) /\ Newest.bytes \in Content
          BY <1>0, <1>7, <2>1, <3>1, OthersFacts DEF Proven, Copy
        <4> QED
          BY <1>1, <1>9, <2>1, <4>1
      <3>3. unread'[Current] = {}
        BY <1>0, <2>1 DEF IngestInv, CopyInHand
      <3> QED
        BY <2>3, <3>2, <3>3 DEF AccountedFor, Whole
    <2> QED
      BY <2>2, <2>3
  <1>12. CASE DropCopy
    <2>1. /\ target = "alternate" /\ DropNewest /\ unread' = unread /\ staged' = staged
          /\ Want(Order[at]) = None
      BY <1>2, <1>12 DEF DropCopy, Landed
    <2>2. AccountedFor(v)
      BY <1>6, <1>8, <1>9, <2>1
    <2>3. Standing(v[1])' = Standing(v[1])
      <3>1. CASE v[1] = Current
        BY <1>0, <1>1, <1>4, <2>1, <3>1 DEF Standing, DropNewest
      <3>2. CASE v[1] # Current
        BY <1>0, <1>4, <1>6, <2>1, <3>2, OthersOnly DEF Standing
      <3> QED
        BY <3>1, <3>2
    <2> QED
      BY <2>1, <2>2, <2>3, AccountedStays
  <1>13. CASE KeepBoth
    <2>1. /\ target = "alternate" /\ unread' = unread /\ staged' = staged /\ copies' = copies /\ ~Known
      BY <1>13 DEF KeepBoth, Landed, staging
    <2>2. /\ Alternates = copies[Current] /\ Len(copies[Current]) \in Nat \ {0}
          /\ copies[Current] \in Seq(Copy)
          /\ Newest = copies[Current][Len(copies[Current])] /\ Newest.gaps = {}
          /\ Others \in Seq(Copy) /\ Len(Others) = Len(copies[Current]) - 1
          /\ \A i \in 1 .. Len(copies[Current]) - 1 : Others[i] = copies[Current][i]
      BY <1>0, <2>1, OthersFacts DEF Alternates, Newest
    <2>3. CASE AccountedFor(v)
      <3>1. \A i \in DOMAIN Standing(v[1]) :
               i \in DOMAIN copies[v[1]] /\ copies[v[1]][i] = Standing(v[1])[i]
        <4>1. CASE v[1] = Current
          <5>1. Standing(v[1]) = Others
            BY <1>0, <2>1, <4>1 DEF Standing
          <5>2. DOMAIN Others = 1 .. Len(copies[Current]) - 1
                /\ DOMAIN copies[Current] = 1 .. Len(copies[Current])
            BY <2>2
          <5> QED
            BY <2>2, <4>1, <5>1, <5>2
        <4>2. CASE v[1] # Current
          BY <4>2 DEF Standing
        <4> QED
          BY <4>1, <4>2
      <3> QED
        BY <1>4, <2>1, <2>3, <3>1, AccountedStays
    <2>4. CASE v[1] = Current /\ v[2] = Want(Order[at])
      <3>1. Newest.bytes # staged[Current]
        BY <1>6, <1>9, <2>1, <2>4 DEF Known
      <3>2. Len(copies[Current]) \in DOMAIN copies[Current]
        BY <2>2
      <3>3. staged[Current] # None /\ unread[Current] = {}
        BY <1>0, <2>1 DEF IngestInv, CopyInHand
      <3> QED
        BY <1>4, <2>1, <2>2, <2>4, <3>1, <3>2, <3>3 DEF AccountedFor
    <2> QED
      BY <1>8, <2>3, <2>4
  <1> QED
    BY <1>10, <1>11, <1>12, <1>13

LEMMA RunAccountedKept == RunInv /\ [Next]_vars => RunAccounted'
  <1> SUFFICES ASSUME RunInv, [Next]_vars, ~bad',
                      ~(pc' # "idle" /\ at' <= 2 /\ Foreign')
               PROVE  \A v \in vouched' : v[1] = Index \/ AccountedFor(v)' \/ JustVouched(v)'
    BY DEF RunAccounted
  <1>0. IngestInv /\ at \in Nat
    BY DEF RunInv, IngestInv, TypeInv, TypeOK
  <1>1. CASE vouched' = {}
    BY <1>1
  <1>2. CASE pc = "idle" /\ vouched' # {}
    <2>1. ~bad
      BY <1>2 DEF Next, Step, JudgeIndex, TakeKey, CopyNew, SettleIndex, AtFile, AlreadyWhole,
             Resume, CannotResume, ReadBeside, Compare, CopyStream, BeginRescue, CannotRescue,
             RescueAll, RescueSome, CheckNew, Replace, DropCopy, KeepBoth, TakeManifest, Stop,
             StopResume, NotWhole, Again, Landed, ReadError, Insert, EndRun, vars
    <2>2. \A v \in vouched : Settled(v)
      BY <1>2, <2>1 DEF RunInv, RunAccounted, Settled
    <2> QED
      BY <1>2, <2>2, QuietSteps DEF AtFiles
  <1>3. CASE pc # "idle" /\ vouched' # {}
    <2>1. ~bad
      BY <1>3, PassGoesOn DEF RunInv, TakeManifest
    <2>2. ~Foreign
      <3> SUFFICES ASSUME Foreign PROVE FALSE
        OBVIOUS
      <3>1. at <= 2 /\ staged[Index] # None
        BY <1>0, <1>3, <2>1 DEF RunInv, PastTheIndex, Foreign
      <3>2. ~TakeManifest
        BY <1>0, <3>1 DEF TakeManifest, IngestInv, TypeInv
      <3>3. pc' # "idle" /\ medium' = medium
        BY <1>0, <1>3, <3>2, PassGoesOn
      <3>4. Foreign'
        BY <1>0, <3>1, <3>3, ForeignStays
      <3>5. at' \in Nat
        BY <1>0, TypesKept DEF TypeInv, TypeOK
      <3>6. at' > 2
        BY <3>3, <3>4, <3>5
      <3> QED
        BY <3>3, <3>4, <3>6, PastTheIndexKept DEF PastTheIndex
    <2>3. \A v \in vouched : Settled(v)
      BY <1>3, <2>1, <2>2 DEF RunInv, RunAccounted, Settled
    <2>4. CASE pc \notin AtFiles
      BY <1>3, <2>3, <2>4, QuietSteps
    <2>5. CASE pc \in AtFiles
      <3>1. ~(\E d \in Pressings : Insert(d)) /\ ~EndRun /\ ~JudgeIndex /\ ~TakeKey /\ ~TakeManifest
        BY <2>5 DEF Insert, EndRun, JudgeIndex, TakeKey, TakeManifest, AtFiles
      <3>2. ~Stop /\ ~StopResume /\ ~CannotRescue /\ ~RescueSome
        BY <1>3 DEF Stop, StopResume, CannotRescue, RescueSome, PassFails, Problem
      <3>3. CASE UNCHANGED vars
        <4>1. UNCHANGED <<staged, unread, copies, vouched, pc, target, medium, at>>
          BY <3>3 DEF vars, staging, pass
        <4>2. Current' = Current /\ medium'.sums[Order[at']] = medium.sums[Order[at]]
          BY <4>1, SameFile
        <4>3. \A v : JustVouched(v) => JustVouched(v)'
          BY <4>1, <4>2 DEF JustVouched, Order
        <4>4. \A n : Standing(n)' = Standing(n)
          BY <4>1, <4>2 DEF Standing, Others, Alternates
        <4>5. ASSUME NEW v \in vouched, AccountedFor(v) PROVE AccountedFor(v)'
          BY <4>1, <4>4, <4>5, AccountedStays
        <4> QED
          BY <2>3, <4>1, <4>3, <4>5 DEF Settled
      <3>4. CASE CopyNew \/ SettleIndex \/ AlreadyWhole \/ CannotResume \/ ReadBeside \/ Compare
        BY <2>3, <3>4, LookingSteps
      <3>5. CASE Resume
        BY <2>3, <3>5, ResumeStep
      <3>6. CASE CopyStream \/ RescueAll \/ BeginRescue
        BY <2>3, <3>6, CopyingSteps
      <3>7. CASE CheckNew \/ Replace \/ DropCopy \/ KeepBoth
        BY <2>1, <2>2, <2>3, <3>7, LandedSteps
      <3> QED
        BY <3>1, <3>2, <3>3, <3>4, <3>5, <3>6, <3>7 DEF Next, Step
    <2> QED
      BY <2>4, <2>5
  <1> QED
    BY <1>1, <1>2, <1>3

\* What a run may rely on while it has met no problem.
THEOREM RunInvHolds == Spec => []RunInv
  <1>1. RunInv /\ [Next]_vars => RunInv'
    <2>1. RunInv /\ [Next]_vars => IngestInv'
      BY TypesKept, CopyInHandKept, OursInDriveKept DEF RunInv, IngestInv
    <2> QED
      BY <2>1, VerdictSoundKept, PastTheIndexKept, VouchersKnownKept, RunAccountedKept DEF RunInv
  <1> QED
    BY <1>1, Initially, PTL DEF Spec

\* finish: whatever was fed to it and however often runs before it were stopped, a run that
\* reports no problem has every file a disc recorded a hash for, or two complete readings
\* of it, and an index that is of the set of all its discs.
THEOREM SuccessAccountsForFiles == Spec => []SuccessIsAccountedFor
  <1>1. RunInv => SuccessIsAccountedFor
    <2> SUFFICES ASSUME RunInv, pc = "idle", ~bad, NEW v \in vouched
                 PROVE  \/ staged[v[1]] = Whole(v[2])
                        \/ v[1] # Index /\ staged[v[1]] # None /\ \E i \in DOMAIN copies[v[1]] :
                             copies[v[1]][i].gaps = {} /\ copies[v[1]][i].bytes # staged[v[1]]
                        \/ v[1] = Index /\ staged[Index] # None /\ IndexOf(v[2], staged[Index])
      BY DEF SuccessIsAccountedFor
    <2>1. CASE v[1] = Index
      BY <2>1 DEF RunInv, VouchersKnown
    <2>2. CASE v[1] # Index
      <3>1. AccountedFor(v)
        BY <2>2 DEF RunInv, RunAccounted, JustVouched
      <3>2. Standing(v[1]) = copies[v[1]]
        BY DEF Standing
      <3> QED
        BY <2>2, <3>1, <3>2 DEF AccountedFor
    <2> QED
      BY <2>1, <2>2
  <1> QED
    BY <1>1, RunInvHolds, PTL
=============================================================================
