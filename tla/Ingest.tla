------------------------------- MODULE Ingest -------------------------------
(***************************************************************************)
(* `brb ingest` (restore/ingest.go, restore/copy.go): discs are read back  *)
(* into staging in any order, again and again, damaged in any way, with    *)
(* interruptions, and with discs of another set among them.                *)
(*                                                                         *)
(* A file is a few blocks.  A block that holds what the writer of set s    *)
(* put there is s; other blocks are Zero, which ddrescue leaves where it   *)
(* could not read, or wrong bytes.  A disc is what the drive may return    *)
(* for each block, Bad being a read error: several outcomes are a sector   *)
(* that reads only sometimes.  The hash of a file is the file.             *)
(*                                                                         *)
(* The name of a file in staging is its kind and its disc; the index has   *)
(* one name for all discs.                                                 *)
(***************************************************************************)
EXTENDS Naturals, Sequences

CONSTANTS
  Set,          \* sets of discs
  DiscNo,       \* disc numbers
  Block,        \* blocks of a file
  Wrong,        \* bytes no writer wrote
  Zero, Bad, None,
  Pressings,    \* discs there are: see Pressing
  Tools,        \* whether ddrescue is installed: values to try
  MaxDamaged,   \* bound: times a disc that is not perfect is inserted
  MaxStops      \* bound: interruptions

Byte == Set \cup Wrong \cup {Zero}
Content == [Block -> Byte]
Kind == {"image", "index", "parity"}
Index == <<"index", 0>>
Name == ({"image", "parity"} \X DiscNo) \cup {Index}

\* A disc: what the drive may return, the hashes it records (SHA512SUMS, or a
\* file's own sidecar), and the published key at its root.
Pressing == [set : Set, disc : DiscNo,
             data : [Kind -> [Block -> SUBSET (Byte \cup {Bad}) \ {{}}]],
             sums : [Kind -> Set \cup {None}],
             key : Set \cup {None, Bad}]

ASSUME IngestAssumption ==
  /\ Pressings \subseteq Pressing /\ Tools \subseteq BOOLEAN
  /\ MaxDamaged \in Nat /\ MaxStops \in Nat
  /\ {Zero, Bad, None} \cap (Set \cup Wrong) = {} /\ Set \cap Wrong = {}
  /\ Zero # Bad /\ Zero # None /\ Bad # None /\ None \notin Content \cup Pressings
  /\ Block # {}

\* A disc holds, records and publishes what its own writer made, or damage of it.
ASSUME DiscsAreOfTheirSet ==
  \A d \in Pressings :
    /\ \A k \in Kind : d.sums[k] \in {d.set, None} /\ \A b \in Block : d.data[k][b] \cap Set \subseteq {d.set}
    /\ d.key \in {d.set, None, Bad}

\* Damage does not turn the indexes of two sets into one.
ASSUME IndexesStayApart ==
  \A d, e \in Pressings : d.set # e.set =>
    \E b \in Block : d.data["index"][b] \cap e.data["index"][b] \subseteq {Bad}

VARIABLES
  ddrescue,               \* whether this run finds ddrescue installed
  staged, unread,         \* staging: enc/<name>, and the gaps its map file lists
  copies,                 \* enc/<name>.copy<time>, in the order they were made
  key, manifest,          \* enc/identity.txt, MANIFEST.txt: whose they are
  pc, medium, at,         \* where the pass is, the disc in the drive, the file it is at
  verdict,                \* what refuseForeignIndex found
  target,                 \* "primary", or "alternate" for a copy beside a staged file
  bad, vouched,           \* this run: a problem so far; hashes discs recorded
  damaged, stops

staging == <<staged, unread, copies, key, manifest>>
pass == <<medium, at, verdict, target>>
bounds == <<damaged, stops>>
vars == <<ddrescue, staging, pc, pass, bad, vouched, bounds>>

Copy == [bytes : Content, gaps : SUBSET Block]
Verdict == {"none", "same", "vouchedFor", "selfContradicting"}

TypeOK ==
  /\ ddrescue \in BOOLEAN
  /\ staged \in [Name -> Content \cup {None}] /\ unread \in [Name -> SUBSET Block]
  /\ copies \in [Name -> Seq(Copy)]
  /\ key \in Set \cup {None} /\ manifest \in Set \cup {None}
  /\ pc \in {"idle", "index", "key", "file", "copy", "rescue", "landed", "manifest"}
  /\ medium \in Pressings \cup {None} /\ at \in 1 .. 4
  /\ verdict \in Verdict /\ target \in {"primary", "alternate"}
  /\ bad \in BOOLEAN /\ vouched \in SUBSET (Name \X Set)
  /\ damaged \in 0 .. MaxDamaged /\ stops \in 0 .. MaxStops

Whole(s) == [b \in Block |-> s]

\* The order of dataFiles: an image sorts before the index.
Order == <<"image", "index", "parity">>
File(k) == IF k = "index" THEN Index ELSE <<k, medium.disc>>
Current == File(Order[at])
IsImage == Order[at] = "image"
\* discWant
Want(k) == medium.sums[k]

\* One reading of a file.
Readings(k) == {r \in [Block -> Byte \cup {Bad}] : \A b \in Block : r[b] \in medium.data[k][b]}
Clean(r) == \A b \in Block : r[b] # Bad
Gaps(r) == {b \in Block : r[b] = Bad}

\* Unread areas taken as they came.
AsRead(r) == r

\* What ddrescue leaves of a reading in a new file, and in one it goes on with.
Filled(r) == [b \in Block |-> IF r[b] = Bad THEN Zero ELSE r[b]]
\* Starting over in the file there is.
Restarted(old, gaps, r) == Filled(r)
Resumed(old, gaps, r) == [b \in Block |-> IF b \in gaps /\ r[b] # Bad THEN r[b] ELSE old[b]]

Init ==
  /\ ddrescue \in Tools
  /\ staged = [n \in Name |-> None] /\ unread = [n \in Name |-> {}]
  /\ copies = [n \in Name |-> <<>>] /\ key = None /\ manifest = None
  /\ pc = "idle" /\ medium = None /\ at = 1 /\ verdict = "none" /\ target = "primary"
  /\ bad = FALSE /\ vouched = {} /\ damaged = 0 /\ stops = 0

-----------------------------------------------------------------------------
(* A run, and the pass over one disc (ingester.run, ingestDisc).           *)

\* A disc that reads as it was written, and says so.
Perfect(d) ==
  /\ \A k \in Kind : d.sums[k] = d.set /\ \A b \in Block : d.data[k][b] = {d.set}
  /\ d.key \in {None, d.set}

Insert(d) ==
  /\ pc = "idle" /\ (Perfect(d) \/ damaged < MaxDamaged)
  /\ damaged' = IF Perfect(d) THEN damaged ELSE damaged + 1
  /\ medium' = d /\ at' = 1 /\ verdict' = "none" /\ target' = "primary"
  /\ pc' = "index"
  /\ UNCHANGED <<ddrescue, staging, bad, vouched, stops>>

\* finish: the run ends, and the next one, perhaps on another machine, starts
\* with nothing held against it.
EndRun ==
  /\ pc = "idle" /\ (bad \/ vouched # {})
  /\ bad' = FALSE /\ vouched' = {}
  /\ ddrescue' \in Tools
  /\ UNCHANGED <<staging, pc, pass, bounds>>

\* The pass ends; what it has learned is in staging and in the run's counts.
EndPass == pc' = "idle" /\ medium' = None /\ at' = 1 /\ verdict' = "none" /\ target' = "primary"

\* An error that is not ErrIncompleteCopy.
PassFails == EndPass /\ bad' = TRUE

NextFile ==
  /\ pc' = IF at = 3 THEN "manifest" ELSE "file"
  /\ at' = at + 1 /\ target' = "primary"
  /\ UNCHANGED <<medium, verdict>>

\* A file that came out incomplete does not end the pass.
Problem == NextFile /\ bad' = TRUE
Done == NextFile /\ UNCHANGED bad

-----------------------------------------------------------------------------
(* The index and the key, before anything is staged.                       *)

\* judgeIndex
Judged(onDisc) ==
  LET want == Want("index") IN
  CASE staged[Index] = onDisc -> "same"
    [] staged[Index] # onDisc /\ want = None -> "foreign"
    [] staged[Index] # onDisc /\ want # None /\ staged[Index] = Whole(want) -> "vouchedFor"
    [] OTHER -> IF onDisc # Whole(want) THEN "selfContradicting" ELSE "foreign"

\* Only the copy loop's look at the index, as it once was.
JudgeIndexLater ==
  /\ pc = "index"
  /\ pc' = "key"
  /\ UNCHANGED <<ddrescue, staging, pass, bad, vouched, bounds>>

\* refuseForeignIndex
JudgeIndex ==
  /\ pc = "index"
  /\ \/ /\ staged[Index] = None
        /\ pc' = "key" /\ UNCHANGED <<pass, bad>>
     \/ /\ staged[Index] # None
        /\ \E r \in Readings("index") :
             \/ ~Clean(r) /\ pc' = "key" /\ UNCHANGED <<pass, bad>>
             \/ /\ Clean(r) /\ Judged(r) # "foreign"
                /\ verdict' = Judged(r) /\ pc' = "key" /\ UNCHANGED <<medium, at, target, bad>>
             \/ Clean(r) /\ Judged(r) = "foreign" /\ PassFails
  /\ UNCHANGED <<ddrescue, staging, vouched, bounds>>

\* ingestPublicIdentity
TakeKey ==
  /\ pc = "key"
  /\ \/ /\ medium.key = None
        /\ pc' = "file" /\ UNCHANGED <<key, pass, bad>>
     \/ /\ medium.key = Bad
        /\ bad' = TRUE
        /\ pc' = "file" /\ UNCHANGED <<key, pass>>
     \/ /\ medium.key \in Set /\ key \in {None, medium.key}
        /\ key' = medium.key
        /\ pc' = "file" /\ UNCHANGED <<pass, bad>>
     \/ /\ medium.key \in Set /\ key \notin {None, medium.key}
        /\ PassFails /\ UNCHANGED key
  /\ UNCHANGED <<ddrescue, staged, unread, copies, manifest, vouched, bounds>>

-----------------------------------------------------------------------------
(* One data file (ingestFile, reconcileExisting, settleIndex).             *)

\* What the disc records of a file is remembered, whatever comes of the file.
Vouch == vouched' = IF Want(Order[at]) = None THEN vouched
                    ELSE vouched \cup {<<Current, Want(Order[at])>>}
AtFile == pc = "file" /\ Vouch

ToCopy(where) == pc' = "copy" /\ target' = where /\ UNCHANGED <<medium, at, verdict, bad>>

CopyNew ==
  /\ AtFile /\ staged[Current] = None
  /\ ToCopy("primary")
  /\ UNCHANGED <<ddrescue, staging, bounds>>

Settle(v) == IF v = "selfContradicting" THEN Problem ELSE Done

SettleIndex ==
  /\ AtFile /\ Current = Index /\ staged[Index] # None
  /\ \/ verdict # "none" /\ Settle(verdict)
     \/ /\ verdict = "none"
        /\ \E r \in Readings("index") :
             IF ~Clean(r) \/ Judged(r) = "foreign" THEN PassFails ELSE Settle(Judged(r))
  /\ UNCHANGED <<ddrescue, staging, bounds>>

Again == pc = "file" /\ Current # Index /\ staged[Current] # None

\* The hash speaks first, whatever a map file says.
AlreadyWhole ==
  /\ Again /\ Vouch /\ Want(Order[at]) # None /\ staged[Current] = Whole(Want(Order[at]))
  /\ unread' = [unread EXCEPT ![Current] = {}]
  /\ Done
  /\ UNCHANGED <<ddrescue, staged, copies, key, manifest, bounds>>

NotWhole == Again /\ ~(Want(Order[at]) # None /\ staged[Current] = Whole(Want(Order[at])))

\* resumeSalvage, all of it.
Resume ==
  /\ NotWhole /\ Vouch /\ unread[Current] # {} /\ ddrescue
  /\ \E r \in Readings(Order[at]) :
       LET new == Resumed(staged[Current], unread[Current], r)
           left == unread[Current] \cap Gaps(r)
       IN  /\ staged' = [staged EXCEPT ![Current] = new]
           /\ unread' = [unread EXCEPT ![Current] = left]
           /\ IF left # {} \/ (Want(Order[at]) # None /\ new # Whole(Want(Order[at])))
              THEN Problem ELSE Done
  /\ UNCHANGED <<ddrescue, copies, key, manifest, bounds>>

CannotResume ==
  /\ NotWhole /\ Vouch /\ unread[Current] # {} /\ ~ddrescue
  /\ Problem
  /\ UNCHANGED <<ddrescue, staging, bounds>>

\* replaceOrKeepBoth, from the start
ReadBeside ==
  /\ NotWhole /\ Vouch /\ unread[Current] = {} /\ Want(Order[at]) # None
  /\ ToCopy("alternate")
  /\ UNCHANGED <<ddrescue, staging, bounds>>

\* Nothing recorded: the two copies are compared.
Compare ==
  /\ NotWhole /\ Vouch /\ unread[Current] = {} /\ Want(Order[at]) = None
  /\ \E r \in Readings(Order[at]) :
       \/ ~Clean(r) /\ PassFails
       \/ Clean(r) /\ (r = staged[Current] \/ ~IsImage) /\ Done
       \/ Clean(r) /\ r # staged[Current] /\ IsImage /\ ToCopy("alternate")
  /\ UNCHANGED <<ddrescue, staging, bounds>>

-----------------------------------------------------------------------------
(* copyRobustly, into staging or beside what is there, and what is made of *)
(* the copy.                                                               *)

Put(bytes) ==
  IF target = "primary"
  THEN staged' = [staged EXCEPT ![Current] = bytes] /\ UNCHANGED copies
  ELSE copies' = [copies EXCEPT ![Current] = Append(@, [bytes |-> bytes, gaps |-> {}])]
       /\ UNCHANGED staged

\* copyStream renames a copy only when it has read the whole file.
CopyStream ==
  /\ pc = "copy"
  /\ \E r \in Readings(Order[at]) : Clean(r) /\ Put(r)
  /\ pc' = "landed"
  /\ UNCHANGED <<ddrescue, unread, key, manifest, pass, bad, vouched, bounds>>

ReadError == pc = "copy" /\ \E r \in Readings(Order[at]) : ~Clean(r)

\* ddrescueCopy removes the map of an earlier salvage first.
BeginRescue ==
  /\ ReadError /\ ddrescue
  /\ unread' = IF target = "primary" THEN [unread EXCEPT ![Current] = {}] ELSE unread
  /\ pc' = "rescue"
  /\ UNCHANGED <<ddrescue, staged, copies, key, manifest, pass, bad, vouched, bounds>>

CannotRescue ==
  /\ ReadError /\ ~ddrescue
  /\ PassFails
  /\ UNCHANGED <<ddrescue, staging, vouched, bounds>>

RescueAll ==
  /\ pc = "rescue"
  /\ \E r \in Readings(Order[at]) : Clean(r) /\ Put(r)
  /\ pc' = "landed"
  /\ UNCHANGED <<ddrescue, unread, key, manifest, pass, bad, vouched, bounds>>

\* A salvage that leaves gaps is kept where it is wanted: under its name, or,
\* of an image, beside it.
RescueSome ==
  /\ pc = "rescue"
  /\ \E r \in Readings(Order[at]) :
       /\ ~Clean(r)
       /\ IF target = "primary"
          THEN /\ staged' = [staged EXCEPT ![Current] = Filled(r)]
               /\ unread' = [unread EXCEPT ![Current] = Gaps(r)]
               /\ UNCHANGED copies
          ELSE /\ copies' = IF IsImage
                            THEN [copies EXCEPT ![Current] =
                                    Append(@, [bytes |-> Filled(r), gaps |-> Gaps(r)])]
                            ELSE copies
               /\ UNCHANGED <<staged, unread>>
  /\ Problem
  /\ UNCHANGED <<ddrescue, key, manifest, vouched, bounds>>

Landed(where) == pc = "landed" /\ target = where

\* ingestFile's check; only a copy that passes it drops an old map.
CheckNew ==
  /\ Landed("primary")
  /\ IF Want(Order[at]) # None /\ staged[Current] # Whole(Want(Order[at]))
     THEN Problem /\ UNCHANGED unread
     ELSE Done /\ unread' = [unread EXCEPT ![Current] = {}]
  /\ UNCHANGED <<ddrescue, staged, copies, key, manifest, vouched, bounds>>

Alternates == copies[Current]
Newest == Alternates[Len(Alternates)]
Others == SubSeq(Alternates, 1, Len(Alternates) - 1)

\* Every copy is a new one; whatever was read replaces what is staged.
NoSame == FALSE
Latest == TRUE

\* sameAltCopy
SameAlt == \E i \in DOMAIN Others : Others[i] = Newest

DropNewest == copies' = [copies EXCEPT ![Current] = Others]

Proven == Want(Order[at]) # None /\ Newest.bytes = Whole(Want(Order[at]))

Replace ==
  /\ Landed("alternate") /\ Proven
  /\ staged' = [staged EXCEPT ![Current] = Newest.bytes]
  /\ DropNewest
  /\ Done
  /\ UNCHANGED <<ddrescue, unread, key, manifest, vouched, bounds>>

\* Only a copy recorded as damaged is also held against the staged one.
Known == SameAlt \/ (Want(Order[at]) # None /\ Newest.bytes = staged[Current])

DropCopy ==
  /\ Landed("alternate") /\ ~Proven /\ (Known \/ ~IsImage)
  /\ DropNewest
  /\ IF Want(Order[at]) # None THEN Problem ELSE Done
  /\ UNCHANGED <<ddrescue, staged, unread, key, manifest, vouched, bounds>>

KeepBoth ==
  /\ Landed("alternate") /\ ~Proven /\ ~Known /\ IsImage
  /\ Done
  /\ UNCHANGED <<ddrescue, staging, vouched, bounds>>

\* copyManifest, which may fail without consequence.
TakeManifest ==
  /\ pc = "manifest"
  /\ manifest' \in {medium.set, manifest}
  /\ EndPass
  /\ UNCHANGED <<ddrescue, staged, unread, copies, key, bad, vouched, bounds>>

-----------------------------------------------------------------------------
\* A signal or a crash.  The next run reaps every .part, and finds the map of
\* the salvage that was under way, saved by ddrescue when it stopped.
Stop ==
  /\ pc # "idle" /\ stops < MaxStops
  /\ stops' = stops + 1
  /\ IF pc = "rescue" /\ target = "primary"
     THEN \E gaps \in SUBSET Block : unread' = [unread EXCEPT ![Current] = gaps]
     ELSE UNCHANGED unread
  /\ EndPass
  /\ bad' = FALSE /\ vouched' = {}
  /\ UNCHANGED <<ddrescue, staged, copies, key, manifest, damaged>>

StopResume ==
  /\ NotWhole /\ unread[Current] # {} /\ ddrescue /\ stops < MaxStops
  /\ stops' = stops + 1
  /\ \E r \in Readings(Order[at]), tried \in SUBSET unread[Current] :
       /\ staged' = [staged EXCEPT ![Current] = Resumed(@, tried, r)]
       /\ unread' = [unread EXCEPT ![Current] = @ \ (tried \ Gaps(r))]
  /\ EndPass
  /\ bad' = FALSE /\ vouched' = {}
  /\ UNCHANGED <<ddrescue, copies, key, manifest, damaged>>

Step == \/ JudgeIndex \/ TakeKey \/ CopyNew \/ SettleIndex \/ AlreadyWhole \/ Resume
        \/ CannotResume \/ ReadBeside \/ Compare \/ CopyStream \/ BeginRescue \/ CannotRescue
        \/ RescueAll \/ RescueSome \/ CheckNew \/ Replace \/ DropCopy \/ KeepBoth \/ TakeManifest

Next == (\E d \in Pressings : Insert(d)) \/ EndRun \/ Step \/ Stop \/ StopResume

Spec == Init /\ [][Next]_vars

\* A pass ends, and the operator does not give up on the good discs.
FairSpec == /\ Spec /\ WF_vars(Step)
            /\ \A d \in Pressings : Perfect(d) => SF_vars(Insert(d))

-----------------------------------------------------------------------------
(* Properties.                                                             *)

\* What staging holds of a block, in a file or, of an image, a copy beside it.
Held(n, b) == {copies[n][i].bytes[b] : i \in IF n[1] = "image" THEN DOMAIN copies[n] ELSE {}}
              \cup (IF staged[n] = None THEN {} ELSE {staged[n][b]})
Pinned(s) == staged[Index] = Whole(s)

\* The map of a file, if it has one, is about the bytes that are there.
MapDescribes(n) == staged[n] # None => \A b \in unread[n] : staged[n][b] = Zero

\* The disc in the drive is of the set, or has an index that shows it is not.
Recognised(s) == medium # None =>
                   medium.set = s \/ medium.data["index"] = [b \in Block |-> {medium.set}]

\* reconcileExisting's promise: whatever is ingested after it, over whatever
\* interruptions, a block of the set that is in staging stays there, in the file
\* or in a copy par2 can combine it with.
NothingLost ==
  [][\A s \in Set, n \in Name, b \in Block :
       Pinned(s) /\ Recognised(s) /\ MapDescribes(n) /\ s \in Held(n, b) => s \in Held(n, b)']_vars

\* reconcileExisting: "A staged copy is never overwritten unless its replacement
\* is already proven better".
NeverOverwritten ==
  [][\A s \in Set, n \in Name, b \in Block :
       Pinned(s) /\ s \in Held(n, b) => s \in Held(n, b)']_vars

\* refuseForeignIndex: with the index of a set in staging, nothing of a set whose
\* index differs gets there, no bytes, no key and no manifest.
OnlyThePinnedSet ==
  [][\A s \in Set :
       Pinned(s) /\ Recognised(s) =>
         /\ \A n \in Name, b \in Block : Held(n, b)' \cap (Set \ {s}) \subseteq Held(n, b)
         /\ key' \in {key, s} /\ manifest' \in {manifest, s}]_vars

\* What discs of a set carry as its index, where they read without an error.
IndexOf(s, bytes) ==
  \/ bytes = Whole(s)
  \/ \E d \in Pressings : d.set = s /\ \A b \in Block : bytes[b] \in d.data["index"][b]

\* finish: a run that reports no problem has every file for which a disc
\* recorded a hash, or two complete readings of it for par2 to work with; and
\* the staged index is of every set whose discs were read.  It may still be a
\* damaged one: settleIndex passes over a disc that agrees with it.
SuccessIsAccountedFor ==
  pc = "idle" /\ ~bad =>
    \A v \in vouched :
      \/ staged[v[1]] = Whole(v[2])
      \/ v[1] # Index /\ staged[v[1]] # None /\ \E i \in DOMAIN copies[v[1]] :
           copies[v[1]][i].gaps = {} /\ copies[v[1]][i].bytes # staged[v[1]]
      \/ v[1] = Index /\ staged[Index] # None /\ IndexOf(v[2], staged[Index])

\* Whatever damaged discs came before, the perfect ones of a set make staging
\* whole, as long as no other index and no other key is there, and a salvage can
\* be gone on with.
OnlyOf(s) == staged[Index] \in {None, Whole(s)} /\ key \in {None, s}
AllWhole(s) == \A d \in Pressings : Perfect(d) /\ d.set = s =>
                 \A k \in Kind : staged[IF k = "index" THEN Index ELSE <<k, d.disc>>] = Whole(s)
CanResume == ddrescue \/ \A n \in Name : unread[n] = {}
PerfectDiscsComplete == \A s \in Set : []OnlyOf(s) /\ <>[]CanResume => <>[]AllWhole(s)
=============================================================================
