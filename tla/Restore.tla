------------------------------ MODULE Restore ------------------------------
(***************************************************************************)
(* `brb restore` and `brb list` (restore/extract.go, restore.go,           *)
(* locate.go, complete.go): from what ingest has staged, rotted in places  *)
(* or mixed with another set, to a tree of files in a destination.         *)
(*                                                                         *)
(* A squashfs image is a record: whose it is, the files it holds, what it  *)
(* has at the path of each directory, and whether a key the operator holds *)
(* opens it once encrypted.  A ciphertext is the image it was made from and*)
(* the blocks of it that have rotted.  The hash of an intact file is the   *)
(* image.  A path may hold a newline: a line-based listing shows such a    *)
(* name cut short, as another path.                                        *)
(*                                                                         *)
(* What is staged and what the destination holds come from Stagings; a     *)
(* command may stop at any point, and the next one finds what it left.     *)
(***************************************************************************)
EXTENDS Naturals, FiniteSets

CONSTANTS
  DiscNo,     \* numbers of discs
  File, Dir,  \* paths of the archive: regular files, directories
  Under,      \* the paths inside each directory, at any depth
  Newline,    \* the files whose name holds a newline
  CutShort,   \* what a listing shows in place of each of them
  Image,      \* images: see ImageType
  Block,      \* blocks of a ciphertext
  Capacity,   \* how many of them par2 can put back
  None, Rot, Wrong, \* nothing there; a file that does not parse; a hash of nothing
  Old,        \* a file the operator had at the destination
  Stagings,   \* what the first command may find: see Staging
  Requests,   \* commands given: see Request
  MaxStops    \* bound: interruptions, and extractions that leave files out

ImageType == [set : STRING, files : SUBSET File, dirs : [Dir -> {"none", "dir", "link"}], opens : BOOLEAN]
Ciphertext == [of : Image, damage : SUBSET Block]
IndexType == [rows : [DiscNo -> SUBSET File], bad : BOOLEAN]

Staging == [
  cipher : [DiscNo -> Ciphertext \cup {None}],
  copies : [DiscNo -> SUBSET Ciphertext],
  csum : [DiscNo -> Image \cup {None, Rot, Wrong}],
  sum : [DiscNo -> Image \cup {None, Rot, Wrong}],
  parity : [DiscNo -> Image \cup {None}],
  plain : [DiscNo -> Image \cup {None}],
  index : IndexType \cup {None, Rot},
  manifest : Nat \cup {None},
  dest : [File -> {None, Old}],
  dirAt : [Dir -> {"none", "dir", "link", "linkToDir"}],
  par2 : BOOLEAN]

\* disc 0 is the whole set; no paths in only is every path.
Request == [cmd : {"restore", "list"}, disc : DiscNo \cup {0},
            only : SUBSET (File \cup Dir), keep : BOOLEAN]

ASSUME RestoreAssumption ==
  /\ DiscNo \subseteq Nat \ {0} /\ IsFiniteSet(DiscNo)
  /\ File \cap Dir = {} /\ Under \in [Dir -> SUBSET (File \cup Dir)]
  /\ \A p, q \in Dir : Under[p] \cap Under[q] # {} => p = q \/ p \in Under[q] \/ q \in Under[p]
  /\ Newline \subseteq File /\ CutShort \in [Newline -> File \ Newline]
  /\ Image \subseteq ImageType /\ IsFiniteSet(Block) /\ Capacity \in Nat
  /\ \A i \in Image : \A d \in Dir : i.files \cap Under[d] # {} => i.dirs[d] = "dir"
  /\ {None, Rot, Wrong, Old} \cap (Image \cup Nat \cup Ciphertext \cup IndexType) = {}
  /\ Cardinality({None, Rot, Wrong, Old}) = 4
  /\ Stagings \subseteq Staging
  /\ Requests \subseteq Request /\ \A r \in Requests : r.cmd = "list" => r.disc # 0
  /\ MaxStops \in Nat

VARIABLES
  cipher, copies,     \* enc/discNN.squashfs.age, and its .copy<time> files
  csum, sum,          \* the hashes recorded of the ciphertext and of the image
  parity,             \* whose ciphertext the .par2 files beside it protect
  plain, part,        \* restore/discNN.squashfs, and the .part files there
  index, manifest,    \* index.tsv.gz.age; the disc count in MANIFEST.txt
  dest, dirAt,        \* the destination
  par2,               \* whether par2 is installed
  pc, request,        \* where the command is, and what was asked
  sel, todo, at,      \* the discs it works through, those left, the one it is at
  missing,            \* whether it found discs of the set not staged
  found,              \* requested paths it believes extracted
  had, wrote,         \* of those requested: there before it, and put there by it
  before,             \* discs with a decrypted image when it began
  warned,             \* whether an extraction left files out, with a warning
  outcome, stops

small == <<copies, csum, sum, parity, index, manifest, par2>>
destination == <<dest, dirAt>>
tally == <<missing, found, had, wrote, before, warned>>
vars == <<cipher, small, plain, part, destination, pc, request, sel, todo, at, tally, outcome, stops>>

Outcome == {"none", "complete", "partial", "listed", "refused", "unprepared", "failed", "stopped"}
NoRequest == [cmd |-> "restore", disc |-> 0, only |-> {}, keep |-> FALSE]

TypeOK ==
  /\ cipher \in [DiscNo -> Ciphertext \cup {None}]
  /\ copies \in [DiscNo -> SUBSET Ciphertext]
  /\ csum \in [DiscNo -> Image \cup {None, Rot, Wrong}]
  /\ sum \in [DiscNo -> Image \cup {None, Rot, Wrong}]
  /\ parity \in [DiscNo -> Image \cup {None}] /\ plain \in [DiscNo -> Image \cup {None}]
  /\ index \in IndexType \cup {None, Rot} /\ manifest \in Nat \cup {None} /\ par2 \in BOOLEAN
  /\ dirAt \in [Dir -> {"none", "dir", "link", "linkToDir"}]
  /\ dest \in [File -> Image \cup {None, Old}]
  /\ part \subseteq DiscNo
  /\ pc \in {"idle", "select", "next", "reuse", "decrypt", "repair", "redecrypt", "verify",
             "audit", "extract"}
  /\ request \in Requests \cup {NoRequest}
  /\ todo \subseteq sel /\ sel \subseteq DiscNo /\ at \in DiscNo \cup {0}
  /\ missing \in BOOLEAN /\ warned \in BOOLEAN
  /\ found \subseteq request.only /\ had \subseteq request.only /\ wrote \subseteq request.only
  /\ before \subseteq DiscNo
  /\ outcome \in Outcome /\ stops \in 0 .. MaxStops
  /\ pc \notin {"idle", "select", "next"} => at \in todo

\* restore/discNN.squashfs
Decrypted == {n \in DiscNo : plain[n] # None}

Init ==
  /\ \E s \in Stagings :
       /\ cipher = s.cipher /\ copies = s.copies /\ csum = s.csum /\ sum = s.sum
       /\ parity = s.parity /\ plain = s.plain /\ index = s.index /\ manifest = s.manifest
       /\ dest = s.dest /\ dirAt = s.dirAt /\ par2 = s.par2
  /\ part = {}
  /\ pc = "idle" /\ request = NoRequest /\ sel = {} /\ todo = {} /\ at = 0
  /\ missing = FALSE /\ found = {} /\ had = {} /\ wrote = {} /\ before = Decrypted /\ warned = FALSE
  /\ outcome = "none" /\ stops = 0

-----------------------------------------------------------------------------
(* What the helpers answer.                                                *)

Intact(i) == [of |-> i, damage |-> {}]
Staged == {n \in DiscNo : cipher[n] # None}

\* covers: the request itself, or what is in it.
Covers(w) == {w} \cup (IF w \in Dir THEN Under[w] ELSE {})

DirsOf(i) == {d \in Dir : i.dirs[d] # "none"}

\* What a line-based listing of the image's files shows.
Listed(i) == (i.files \ Newline) \cup {CutShort[f] : f \in i.files \cap Newline}

\* scanIndex, indexDiscs
Legible == index \notin {None, Rot}
HitsOf(w) == {n \in DiscNo : Covers(w) \cap index.rows[n] # {}}

\* discRows.inexact
Exact(n) == Legible /\ ~index.bad /\ index.rows[n] \cap Newline = {}

\* pathRestored
There(w, files, dirs) == IF w \in Dir THEN dirs[w] # "none" ELSE files[w] # None

\* pathsPresent: a name with a newline is not looked up, and taken to be there.
PathsPresent(i, want) ==
  {w \in want : \/ w \in Newline
                \/ Covers(w) \cap (Listed(i) \cup DirsOf(i)) # {}}

\* extractionTouches
Touched(i, here) ==
  {d \in Dir : /\ i.dirs[d] = "dir"
               /\ here = {} \/ \E w \in here : d \in Covers(w) \/ w \in Under[d]}

\* age: a ciphertext that has not rotted, and a key that opens it.
Decrypts(c) == c.damage = {} /\ c.of.opens

\* par2: the blocks it can find of the file it protects.
BlocksFound(n) ==
  UNION {Block \ c.damage : c \in {x \in {cipher[n]} \cup copies[n] : x.of = parity[n]}}
Par2Restores(n) ==
  /\ par2 /\ parity[n] # None
  /\ Cardinality(Block \ BlocksFound(n)) <= Capacity

-----------------------------------------------------------------------------
(* The command ends.                                                       *)

Ends(how) ==
  /\ pc' = "idle" /\ outcome' = how /\ todo' = {} /\ at' = 0
  /\ UNCHANGED <<request, sel, tally>>

Goes(where) ==
  /\ pc' = where
  /\ UNCHANGED <<request, sel, todo, at, tally, outcome>>

-----------------------------------------------------------------------------
(* Restore and List, before any image is touched.                          *)

\* reapPartFiles
Reaped(r) == IF r.cmd = "restore" THEN {} ELSE part

\* confirmNonEmptyDest and refuseSymlinkedDirs, which List has no use for.
Begin(r) ==
  /\ pc = "idle"
  /\ request' = r /\ sel' = {} /\ todo' = {}
  /\ missing' = FALSE /\ found' = {} /\ wrote' = {} /\ warned' = FALSE
  /\ had' = {w \in r.only : There(w, dest, dirAt)}
  /\ before' = Decrypted
  /\ part' = Reaped(r)
  /\ \/ /\ r.cmd = "list" \/ \A d \in Dir : dirAt[d] # "linkToDir"
        /\ pc' = "select" /\ outcome' = "none"
     \/ /\ r.cmd = "restore" /\ pc' = "idle" /\ outcome' = "refused"
        /\ \/ \E f \in File : dest[f] # None       \* the operator says no
           \/ \E d \in Dir : dirAt[d] # "none"
  /\ UNCHANGED <<cipher, small, plain, destination, at, stops>>

\* checkComplete: no usable count, nothing to conclude.
LacksDiscs == manifest # None /\ ~((1 .. manifest) \subseteq Staged)

\* Going by the first disc the index has for a path.
NarrowToFirst(chosen) ==
  IF request.only = {} \/ ~Legible \/ request.disc # 0 THEN chosen
  ELSE {n \in chosen : \E w \in request.only : n \in HitsOf(w) /\ \A m \in HitsOf(w) : n <= m}

\* narrowByIndex: the discs of chosen, or a refusal.
NarrowByIndex(chosen) ==
  IF request.only = {} \/ ~Legible \/ request.disc # 0 THEN chosen
  ELSE chosen \cap UNION {HitsOf(w) : w \in request.only}

RefusedByIndex(chosen) ==
  /\ request.only # {} /\ Legible
  /\ IF request.disc # 0
     THEN /\ \E w \in request.only : HitsOf(w) # {}
          /\ \A w \in request.only : request.disc \notin HitsOf(w)
     ELSE \/ \E w \in request.only : HitsOf(w) = {}
          \/ NarrowByIndex(chosen) = {}

\* selectImages
Chosen == IF request.disc = 0 THEN Staged ELSE Staged \cap {request.disc}

Select ==
  /\ pc = "select"
  /\ \/ /\ \/ Chosen = {}
           \/ request.cmd = "restore" /\ RefusedByIndex(Chosen)
           \/ request.disc = 0 /\ LacksDiscs            \* the operator says no
        /\ Ends("refused")
     \/ /\ Chosen # {}
        /\ request.cmd = "restore" => ~RefusedByIndex(Chosen)
        /\ sel' = NarrowByIndex(Chosen) /\ todo' = sel'
        /\ missing' = (request.disc = 0 /\ LacksDiscs)
        /\ pc' = "next"
        /\ UNCHANGED <<request, at, found, had, wrote, before, warned, outcome>>
  /\ UNCHANGED <<cipher, small, plain, part, destination, stops>>

\* The loop over the images, and reportOutcome.
NextImage ==
  /\ pc = "next"
  /\ \/ /\ at' \in todo /\ \A n \in todo : at' <= n
        /\ pc' = "reuse"
        /\ UNCHANGED <<request, sel, todo, tally, outcome>>
     \/ todo = {} /\ request.only \subseteq found
        /\ Ends(IF missing THEN "partial" ELSE "complete")
     \/ todo = {} /\ ~(request.only \subseteq found) /\ Ends("failed")
  /\ UNCHANGED <<cipher, small, plain, part, destination, stops>>

-----------------------------------------------------------------------------
(* PrepareImage.                                                           *)

\* Trusting whatever is there.
AnyLeftover(n) == plain[n] # None

\* reuseDecrypted
Reusable(n) == plain[n] # None /\ plain[n] = sum[n]

Reuse ==
  /\ pc = "reuse"
  /\ \/ Reusable(at) /\ Goes("audit") /\ UNCHANGED plain
     \/ /\ ~Reusable(at)
        /\ plain' = [plain EXCEPT ![at] = None]
        /\ Goes("decrypt")
  /\ UNCHANGED <<cipher, small, part, destination, stops>>

\* recordedCipherSum: a sidecar that cannot be read is one that is not there.
HaveCipherSum(n) == csum[n] \notin {None, Rot}
MatchesCipherSum(n) == cipher[n] = Intact(csum[n])

\* The plaintext is in place: its .part has been renamed.
Promote(n) ==
  /\ plain' = [plain EXCEPT ![n] = cipher[n].of]
  /\ part' = part \ {n}
  /\ Goes("verify")

\* decryptVerifying, or checkCiphertextNoSum; and repairCiphertext's refusal
\* when there is no parity to ask.
Decrypt ==
  /\ pc = "decrypt"
  /\ IF HaveCipherSum(at)
     THEN IF MatchesCipherSum(at)
          THEN IF Decrypts(cipher[at])
               THEN Promote(at)
               ELSE Ends("unprepared") /\ UNCHANGED <<plain, part>>
          ELSE /\ IF parity[at] = None THEN Ends("unprepared") ELSE Goes("repair")
               /\ UNCHANGED <<plain, part>>
     ELSE /\ Goes(IF parity[at] = None \/ ~par2 THEN "redecrypt" ELSE "repair")
          /\ UNCHANGED <<plain, part>>
  /\ UNCHANGED <<cipher, small, destination, stops>>

\* Giving the disc up when the hash still disagrees.
RepairIfHashAgrees ==
  /\ pc = "repair"
  /\ IF Par2Restores(at) /\ csum[at] \in {None, Rot, parity[at]}
     THEN cipher' = [cipher EXCEPT ![at] = Intact(parity[at])] /\ Goes("redecrypt")
     ELSE Ends("unprepared") /\ UNCHANGED cipher
  /\ UNCHANGED <<small, plain, part, destination, stops>>

\* par2Repair.  repairCiphertext then hashes the file again, and goes on
\* whatever that says.
Repair ==
  /\ pc = "repair"
  /\ \/ /\ Par2Restores(at)
        /\ cipher' = [cipher EXCEPT ![at] = Intact(parity[at])]
        /\ Goes("redecrypt")
     \/ ~Par2Restores(at) /\ Ends("unprepared") /\ UNCHANGED cipher
  /\ UNCHANGED <<small, plain, part, destination, stops>>

\* agecrypt.Decrypt
Redecrypt ==
  /\ pc = "redecrypt"
  /\ IF Decrypts(cipher[at])
     THEN Promote(at)
     ELSE Ends("unprepared") /\ UNCHANGED <<plain, part>>
  /\ UNCHANGED <<cipher, small, destination, stops>>

\* The plaintext against its own hash; removeUnverified.
Verify ==
  /\ pc = "verify"
  /\ \/ sum[at] \in {None, plain[at]} /\ Goes("audit") /\ UNCHANGED plain
     \/ /\ sum[at] \notin {None, plain[at]}
        /\ plain' = [plain EXCEPT ![at] = None]
        /\ Ends("unprepared")
  /\ UNCHANGED <<cipher, small, part, destination, stops>>

-----------------------------------------------------------------------------
(* From an image to the destination.                                       *)

\* Discarding only what something was extracted from.
DiscardsExtracted(n) ==
  ~request.keep /\ (request.only = {} \/ PathsPresent(plain[n], request.only) # {})

\* discardImage
Discards(n) == ~request.keep

DoneWith(n) ==
  /\ plain' = [plain EXCEPT ![n] = IF Discards(n) THEN None ELSE @]
  /\ todo' = todo \ {n} /\ at' = 0 /\ pc' = "next"
  /\ UNCHANGED <<request, sel, outcome>>

Here(n) == PathsPresent(plain[n], request.only)

\* Asking the index only.
AuditedByIndex(n) == Exact(n) => Listed(plain[n]) = index.rows[n]

\* auditImage
Audited(n) ==
  /\ \A d \in Touched(plain[n], Here(n)) : dirAt[d] \notin {"link", "linkToDir"}
  /\ Exact(n) => Listed(plain[n]) = index.rows[n]

\* pathsPresent and auditImage; List goes no further than the image.
Audit ==
  /\ pc = "audit"
  /\ \/ request.cmd = "list" /\ Ends("listed") /\ UNCHANGED plain
     \/ request.cmd = "restore" /\ request.only # {} /\ Here(at) = {}
        /\ DoneWith(at) /\ UNCHANGED tally
     \/ /\ request.cmd = "restore" /\ (request.only = {} \/ Here(at) # {})
        /\ IF Audited(at) THEN Goes("extract") ELSE Ends("refused")
        /\ UNCHANGED plain
  /\ UNCHANGED <<cipher, small, part, destination, stops>>

\* The files and directories unsquashfs makes of image i.
FilesOf(i, here) ==
  IF here = {} THEN i.files ELSE i.files \cap UNION {Covers(w) : w \in here}

\* A link in the image replaces a link at the destination, not a directory.
DirsAfter(i, here) ==
  {after \in [Dir -> {"none", "dir", "link", "linkToDir"}] : \A d \in Dir :
     IF d \in Touched(i, here) THEN after[d] = IF dirAt[d] = "none" THEN "dir" ELSE dirAt[d]
     ELSE IF i.dirs[d] = "link" /\ (here = {} \/ \E w \in here : d \in Covers(w)) /\ dirAt[d] # "dir"
     THEN after[d] \in {"link", "linkToDir"}
     ELSE after[d] = dirAt[d]}

Overwrite(files, i) == [f \in File |-> IF f \in files THEN i ELSE dest[f]]

\* Believing the listing, or anything at the destination.
SeenInListing(n) == Here(n)
SeenAnywhere(n) == {w \in File \cup Dir : There(w, dest', dirAt')}

\* The check after the extraction: only the destination is believed.
Seen(n) == {w \in Here(n) : There(w, dest', dirAt')}

\* Of the files that the image has for the request, unsquashfs makes these.
Extracts(files) ==
  /\ dest' = Overwrite(files, plain[at])
  /\ dirAt' \in DirsAfter(plain[at], Here(at))
  /\ found' = found \cup Seen(at)
  /\ wrote' = wrote \cup {w \in Here(at) : Covers(w) \cap (files \cup DirsOf(plain[at])) # {}}
  /\ DoneWith(at)
  /\ UNCHANGED <<cipher, small, part, missing, had, before>>

Extract ==
  /\ pc = "extract"
  /\ Extracts(FilesOf(plain[at], Here(at)))
  /\ UNCHANGED <<warned, stops>>

\* unsquashfs exits 2: extractImage warns, and goes on.
ExtractSome ==
  /\ pc = "extract" /\ stops < MaxStops
  /\ warned' = TRUE /\ stops' = stops + 1
  /\ \E files \in SUBSET FilesOf(plain[at], Here(at)) :
       files # FilesOf(plain[at], Here(at)) /\ Extracts(files)

-----------------------------------------------------------------------------
(* Interruptions.                                                          *)

\* Killed, or unsquashfs fails: some of the files are there.
StopExtracting ==
  /\ pc = "extract"
  /\ \E files \in SUBSET FilesOf(plain[at], Here(at)) :
       dest' = Overwrite(files, plain[at])
  /\ dirAt' \in {dirAt} \cup DirsAfter(plain[at], Here(at))
  /\ UNCHANGED <<cipher, part>>

\* Killed while decrypting: the .part file stays.
StopDecrypting ==
  /\ pc \in {"decrypt", "redecrypt"}
  /\ part' \in {part, part \cup {at}}
  /\ UNCHANGED <<cipher, destination>>

\* par2 moves the damaged file aside and writes the repaired one in its place;
\* killed, it leaves as much of that as it had written.
StopRepairing ==
  /\ pc = "repair"
  /\ \/ UNCHANGED cipher
     \/ /\ Par2Restores(at) /\ cipher[at] # Intact(parity[at])
        /\ \E lost \in SUBSET Block :
             cipher' = [cipher EXCEPT ![at] = [of |-> parity[at], damage |-> lost]]
  /\ UNCHANGED <<part, destination>>

Stop ==
  /\ pc # "idle" /\ stops < MaxStops
  /\ stops' = stops + 1
  /\ \/ StopExtracting
     \/ StopDecrypting
     \/ StopRepairing
     \/ /\ pc \in {"select", "next", "reuse", "verify", "audit"}
        /\ UNCHANGED <<cipher, part, destination>>
  /\ Ends("stopped")
  /\ UNCHANGED <<small, plain>>

Step ==
  \/ Select \/ NextImage
  \/ Reuse \/ Decrypt \/ Repair \/ Redecrypt \/ Verify
  \/ Audit \/ Extract \/ ExtractSome

Next == (\E r \in Requests : Begin(r)) \/ Step \/ Stop

Spec == Init /\ [][Next]_vars

-----------------------------------------------------------------------------
(* Properties.                                                             *)

\* Nothing reaches the destination that no check has vouched for: the image
\* hashes to what was recorded of it or, where nothing was recorded, is what
\* age has just authenticated; and it lists the files an exact index puts on
\* that disc.  Whatever earlier commands left behind.
\* (PrepareImage, reuseDecrypted, auditImage)
ExtractsOnlyTheVouchedFor == [][
  pc = "extract" /\ destination' # destination =>
    /\ \/ sum[at] = plain[at]
       \/ sum[at] = None /\ cipher[at] = Intact(plain[at]) /\ plain[at].opens
    /\ Exact(at) => Listed(plain[at]) = index.rows[at]]_vars

\* The image disc n ends up as: what its sidecar says, or its ciphertext.
ImageOf(n) == IF sum[n] \in Image THEN sum[n] ELSE cipher[n].of
Agrees(n) == index.rows[n] = ImageOf(n).files

\* A restore that reports "complete", and has warned of nothing left out, has put at the destination every file it
\* was asked for that any image it could have opened holds, and no disc the
\* manifest counts was missing; narrowing by an index that tells the truth
\* loses nothing.  (Restore, checkComplete, narrowByIndex)
CompleteMeansAll ==
  outcome = "complete" /\ ~warned =>
    /\ request.disc = 0 /\ manifest # None => 1 .. manifest \subseteq Staged
    /\ (request.only = {} \/ request.disc # 0 \/ ~Legible \/ \A n \in Staged : Agrees(n)) =>
         \A n \in Chosen : \A f \in ImageOf(n).files :
           request.only = {} \/ (\E w \in request.only : f \in Covers(w)) =>
             dest[f] \in Image

\* A listing shows the path or something in it only in a piece of another name,
\* or cannot show it.
ShownFalsely(w) ==
  w \in Newline \/ \E f \in Newline : CutShort[f] \in Covers(w) /\ f \notin Covers(w)

\* A requested path that is reported restored was put there, unless the
\* destination held it already and either unsquashfs had warned, or a listing
\* shows the name falsely or not at all and the index could not settle the
\* question: it is unreadable, or it puts the path on none of the discs to
\* choose from, or some image disagrees with it.
\* (pathsPresent, pathRestored, narrowByIndex)
Unproved(w) ==
  /\ w \in had
  /\ \/ warned
     \/ /\ ShownFalsely(w)
        /\ \/ ~Legible
           \/ HitsOf(w) \cap Chosen = {}
           \/ \E n \in Staged : ~Agrees(n)
FoundMeansWritten ==
  outcome \in {"complete", "partial"} => \A w \in request.only \ wrote : Unproved(w)

\* README, Limitations, on the same: with a readable index that the images agree
\* with, it takes --disc, "when the index does not list the path at all".
\* (narrowByIndex)
ListedMeansWritten ==
  outcome \in {"complete", "partial"} /\ ~warned /\ Legible /\ (\A n \in Staged : Agrees(n)) =>
    \A w \in request.only \ wrote : request.disc # 0 /\ HitsOf(w) = {}

\* HL-2: a disc is given up only for a cause.  If a key opens the image its
\* ciphertext was made from, its plaintext sidecar does not dispute it, and its
\* recorded hash vouches for the ciphertext or par2 can make it whole, no rotted or missing sidecar, no
\* lost parity, no leftover and no earlier interruption makes the command fail
\* to prepare it.  (PrepareImage, recordedCipherSum, repairCiphertext)
Recoverable(n, i) ==
  /\ cipher[n].of = i /\ i.opens /\ sum[n] \in {None, i}
  /\ \/ Par2Restores(n) /\ parity[n] = i
     \/ cipher[n] = Intact(i) /\ csum[n] = i
GivesUpForACause == [][
  pc # "idle" /\ outcome' = "unprepared" => ~\E i \in Image : Recoverable(at, i)]_vars

\* Files and directories are never written through a symlink, neither one the
\* operator has at the destination nor one that an image of another set, let
\* through without an index, has put there a moment before.
\* (refuseSymlinkedDirs: "needs checking only before the first image")
NothingThroughLinks == [][
  pc = "extract" /\ todo' # todo =>
    \A d \in Dir :
      \/ \E f \in File \cap Under[d] : dest'[f] # dest[f]
      \/ d \in Touched(plain[at], Here(at))
      => dirAt[d] \notin {"link", "linkToDir"}]_vars

\* Each decrypted image and each .part file is as large as a disc.  Unless the
\* images are to be kept, a restore has at no time more than one of them that
\* was not there when it began, and ends with at most one, the one it stopped
\* at; and when it has been through its discs, none of theirs is left, and
\* every other disc's is as it was.
\*
\* README.md:1235 says that only one exists at a time.  So it is where a restore
\* finds none.  One that list, KEEP_IMAGES or a stopped run has left stays
\* beside the image in hand until the restore comes to its disc, and for good
\* if that is not among the discs it restores.
\* (discardImage, reapPartFiles, reuseDecrypted)
RoomForOneMore ==
  request.cmd = "restore" /\ ~request.keep =>
    /\ Cardinality((Decrypted \ before) \cup part) <= 1
    /\ \A n \in part : plain[n] = None
    /\ pc = "next" \/ outcome \in {"complete", "partial", "failed"} =>
         Decrypted = before \ (sel \ todo) /\ part = {}
=============================================================================
