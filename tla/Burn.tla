-------------------------------- MODULE Burn --------------------------------
(***************************************************************************)
(* From disc directories to discs: ISOs built by an eager backup           *)
(* (iso.BuildAll) or by `brb iso` (iso.Build), `brb burn`                  *)
(* (restore/burn.go, iso.Ensure), and what `brb verify-disc` says of a     *)
(* disc (restore/mount.go, agecrypt/sums.go).  The commands share staging  *)
(* with the backup of Layout and are kept from it by the staging lock      *)
(* (fsx/lock.go); none of them reads state.json.                           *)
(*                                                                         *)
(* An ISO is the files of the directory it is built from, how much of it   *)
(* is written, and the disc count on its label.                            *)
(***************************************************************************)
EXTENDS Layout

CONSTANTS
  Burners,     \* how burn and iso may be set up: see BurnerType
  MaxCommands  \* bound: burn and iso commands given

\* keep: KEEP_ISOS; media: the capacity the command is configured for.
BurnerType == [keep : BOOLEAN, media : Nat]

CommandType == [does : {"burn", "iso"}, by : Burners, total : Nat]

ASSUME BurnAssumption ==
  Burners \subseteq BurnerType /\ Burners # {} /\ MaxCommands \in Nat

ASSUME NoneIsNoISO ==
  \A S \in SUBSET File : None \notin [files : [S -> Item], size : Nat, total : Nat]

VARIABLES
  iso,      \* iso/discNN.iso
  shelf,    \* the disc of each number last read back, and whether the set was finished
  bpc,      \* where the command is
  command,  \* which it is, how it is set up, and the disc count it puts on labels
  queue,    \* the discs it still has to see to, the one it is at first
  commands  \* how many have been given

burnVars == <<iso, shelf, bpc, command, queue, commands>>
session == <<bpc, command, queue, commands>>
vars == <<layoutVars, burnVars>>

\* A filesystem of its own adds one to the files.
Size(d) == 1 + DirBytes(d)
Whole(i) == i.size = Size(i.files)

IsISO(i) ==
  /\ i = [files |-> i.files, size |-> i.size, total |-> i.total]
  /\ IsTree(i.files) /\ i.size \in 0 .. Size(i.files) /\ i.total \in Nat
IsBurned(b) ==
  /\ b = [iso |-> b.iso, finished |-> b.finished]
  /\ IsISO(b.iso) /\ b.finished \in BOOLEAN

\* Where a command is that has the lock.
Working == {"next", "mastering", "offer"}

TypeOK ==
  /\ LayoutTypeOK
  /\ DOMAIN iso = Disc /\ iso = [n \in Disc |-> iso[n]]
  /\ \A n \in Disc : iso[n] = None \/ IsISO(iso[n])
  /\ DOMAIN shelf = Disc /\ shelf = [n \in Disc |-> shelf[n]]
  /\ \A n \in Disc : shelf[n] = None \/ IsBurned(shelf[n])
  /\ bpc \in {"idle", "looked"} \cup Working /\ queue \subseteq Disc
  /\ command \in CommandType \cup {None} /\ (bpc \in Working => command \in CommandType)
  /\ commands \in 0 .. MaxCommands
  /\ lock = "backup" <=> pc # "idle"
  /\ lock = "burn" <=> bpc \in Working

Init ==
  /\ LayoutInit
  /\ iso = [n \in Disc |-> None] /\ shelf = [n \in Disc |-> None]
  /\ bpc = "idle" /\ command = None /\ queue = {} /\ commands = 0

-----------------------------------------------------------------------------
(***************************************************************************)
(* BuildOne: the old ISO goes, xorriso writes the new one from the         *)
(* directory, and what it leaves is kept only if it is neither short of    *)
(* the directory nor over the media.  A killed xorriso leaves a part,      *)
(* nothing or all but the last of it, which is no shorter than the files.  *)
(***************************************************************************)
CanRebuild(n) == dir[n] # None

BeginISO(n, total) ==
  \E k \in {0, Size(dir[n]) - 1} :
    iso' = [iso EXCEPT ![n] = [files |-> dir[n], size |-> k, total |-> total]]

EndISO(n, media) ==
  /\ Size(iso[n].files) <= media
  /\ iso' = [iso EXCEPT ![n].size = Size(iso[n].files)]

\* xorriso fails, or the ISO is short or too large: removed, and an error.
LoseISO(n) == iso' = [iso EXCEPT ![n] = None]

(***************************************************************************)
(* ISO_MODE=eager: the run builds every ISO itself.                        *)
(***************************************************************************)
BuildNext ==
  /\ pc = "isos"
  /\ BeginISO(at, Discs) /\ pc' = "mastering"
  /\ UNCHANGED <<enc, work, manifest, dir, at, memory, ended, shelf, session>>

Built ==
  /\ pc = "mastering" /\ EndISO(at, site.usable + 1)
  /\ EachDisc("isos", "finish")
  /\ UNCHANGED <<enc, work, manifest, dir, memory, ended, shelf, session>>

BuildFails ==
  /\ pc = "mastering" /\ stops < MaxStops /\ LoseISO(at)
  /\ EndRun("none", 0) /\ stops' = stops + 1
  /\ UNCHANGED <<enc, work, manifest, dir, faults, shelf, session>>

(***************************************************************************)
(* burn takes the lock and then sees what is there; iso sees first what is *)
(* there.  The lock is there or the command is refused.  ParseRange: "all",*)
(* "7", "7-20", "7-".                                                      *)
(***************************************************************************)
Numbered(there) == {n \in Disc : there[n] # None}
DiscNumbers == IF Numbered(dir) # {} THEN Numbered(dir) ELSE Numbered(iso)

\* The count for the labels.
Total(nums) == IF manifest # 0 THEN Discs ELSE Cardinality(nums)

ParseRange(q) == \E from, to \in Disc : q = from .. to

Give == bpc = "idle" /\ commands < MaxCommands /\ commands' = commands + 1

\* Before the first disc.
Begin(does, nums) ==
  /\ \E by \in Burners : command' = [does |-> does, by |-> by, total |-> Total(nums)]
  /\ \E q \in SUBSET Disc : ParseRange(q) /\ queue' = nums \cap q
  /\ queue' # {} /\ bpc' = "next"
  /\ UNCHANGED <<enc, work, manifest, dir, pc, at, memory, run, refused, stops, faults, site, iso, shelf>>

\* No lock is asked for.
BurnBeside == Give /\ Begin("burn", DiscNumbers) /\ lock' = lock

StartBurn == Give /\ Begin("burn", DiscNumbers) /\ LockStaging("burn")

LookISO ==
  /\ Give
  /\ queue' = DiscNumbers /\ queue' # {} /\ bpc' = "looked"
  /\ UNCHANGED <<layoutVars, iso, shelf, command>>

StartISO ==
  /\ bpc = "looked" /\ Begin("iso", queue) /\ LockStaging("burn")
  /\ UNCHANGED commands

RefuseISO ==
  /\ bpc = "looked"
  /\ bpc' = "idle" /\ queue' = {}
  /\ UNCHANGED <<layoutVars, iso, shelf, command, commands>>

EndCommand ==
  /\ bpc' = "idle" /\ Release /\ queue' = {} /\ command' = None
  /\ UNCHANGED <<enc, work, manifest, dir, pc, at, memory, run, refused, stops, faults, site, commands>>

First == CHOOSE n \in queue : \A m \in queue : n <= m
AtDisc == bpc = "next" /\ queue # {}
quiet == <<layoutVars, command, commands>>

\* Ensure, complete: an ISO that is there is burned if it is not over the
\* media and not short of its directory, where there is one.
Ready(n) ==
  /\ iso[n] # None /\ iso[n].size > 0 /\ iso[n].size <= command.by.media
  /\ CanRebuild(n) => iso[n].size >= DirBytes(dir[n])
TooLarge(n) == iso[n] # None /\ iso[n].size > command.by.media

Ensure ==
  /\ AtDisc /\ command.does = "burn" /\ Ready(First)
  /\ bpc' = "offer" /\ UNCHANGED <<quiet, iso, shelf, queue>>

MustBuild(n) == command.does = "iso" \/ ~(Ready(n) \/ TooLarge(n))

BuildOne ==
  /\ AtDisc /\ MustBuild(First) /\ CanRebuild(First)
  /\ BeginISO(First, command.total) /\ bpc' = "mastering"
  /\ UNCHANGED <<quiet, shelf, queue>>

Mastered ==
  /\ bpc = "mastering" /\ EndISO(First, command.by.media)
  /\ IF command.does = "burn" THEN bpc' = "offer" /\ queue' = queue
                         ELSE bpc' = "next" /\ queue' = queue \ {First}
  /\ UNCHANGED <<quiet, shelf>>

MasteringFails ==
  /\ bpc = "mastering" /\ LoseISO(First)
  /\ EndCommand /\ UNCHANGED shelf

(***************************************************************************)
(* `brb verify-disc`: VerifyDisc, VerifyDir.  The disc's image is listed,  *)
(* and every file listed is there with that hash.                          *)
(***************************************************************************)
Lists(s, f) == f \in DOMAIN s
Matches(d, f) == f \in DOMAIN d /\ d[f] = d["sums"][f]

VerifyDir(d) == Lists(d["sums"], "image") /\ \A f \in DOMAIN d["sums"] : Matches(d, f)

VerifyDisc(i) == Whole(i) /\ {"image", "sums"} \subseteq DOMAIN i.files /\ VerifyDir(i.files)

(***************************************************************************)
(* burnOne: the disc is written, and only then the ISO dropped, if it may  *)
(* be and can be.  A disc goes on the shelf once it has been read back.    *)
(***************************************************************************)
\* Dropped whether or not it can be built again.
DropAnyway(n) == ~command.by.keep /\ iso' = [iso EXCEPT ![n] = None]

Drop(n) == ~command.by.keep /\ CanRebuild(n) /\ iso' = [iso EXCEPT ![n] = None]

BurnDisc ==
  /\ bpc = "offer"
  /\ shelf' = IF VerifyDisc(iso[First])
              THEN [shelf EXCEPT ![First] = [iso |-> iso[First], finished |-> ~hasState]]
              ELSE shelf
  /\ Drop(First) \/ iso' = iso
  /\ bpc' = "next" /\ queue' = queue \ {First}
  /\ UNCHANGED quiet

Decline ==
  /\ bpc = "offer"
  /\ bpc' = "next" /\ queue' = queue \ {First}
  /\ UNCHANGED <<quiet, iso, shelf>>

\* The end of the queue; an ISO too large for the media, or none and nothing
\* to build it from; a drive that fails; an operator who stops; a kill.
Done == bpc \in Working /\ EndCommand /\ UNCHANGED <<iso, shelf>>

Command ==
  \/ Ensure \/ BuildOne \/ Mastered \/ MasteringFails \/ BurnDisc \/ Decline \/ Done

(***************************************************************************)
(* The finished set is carried to another machine as ISOs and nothing      *)
(* else, as `brb iso all` is for.  enc/ is what stays behind.              *)
(***************************************************************************)
CarryAway ==
  /\ lock = "free" /\ ~hasState /\ \E n \in Disc : cipher[n] # None
  /\ \A n \in Disc : iso[n] # None /\ Whole(iso[n])
  /\ cipher' = [n \in Disc |-> None] /\ dir' = [n \in Disc |-> None] /\ manifest' = 0
  /\ index' = 0 /\ indexRecord' = 0
  /\ UNCHANGED <<record, work, pc, at, memory, ended, burnVars>>

Next ==
  \/ LayoutNext /\ UNCHANGED burnVars
  \/ BuildNext \/ Built \/ BuildFails
  \/ StartBurn \/ LookISO \/ StartISO \/ RefuseISO \/ Command \/ CarryAway

Spec == Init /\ [][Next]_vars

\* A run, a command, a resume and an operator who has been told what to do go on.
Fairness ==
  /\ WF_vars((Run /\ UNCHANGED burnVars) \/ BuildNext \/ Built)
  /\ WF_vars(Resume /\ UNCHANGED burnVars) /\ WF_vars(FollowAdvice /\ UNCHANGED burnVars)
  /\ WF_vars(Command)
FairSpec == Spec /\ Fairness

-----------------------------------------------------------------------------
(***************************************************************************)
(* What the discs must be.                                                 *)
(***************************************************************************)
Verified(n) == shelf[n] # None
Burned(n) == shelf[n].iso.files

Required == {"image", "index", "manifest", "readme"} \cup (IF Public THEN {"key"} ELSE {})

(***************************************************************************)
(* A disc that verify-disc passes is a whole one, though burn and iso take *)
(* whatever a killed layout left: it has all a restorer needs, every file  *)
(* on it is attested, its README tells the truth about the parity and the  *)
(* tools on it and is of the run that wrote its manifest, and its label    *)
(* has the right count (run.go:904, freshDiscDir; writeSums comes last).   *)
(***************************************************************************)
VerifiedMeansWhole ==
  \A n \in Disc : Verified(n) =>
    LET d == Burned(n) IN
    /\ Required \subseteq DOMAIN d /\ DOMAIN d["sums"] = DOMAIN d \ {"sums"}
    /\ d["readme"].parity = ("parity" \in DOMAIN d)
    /\ d["readme"].tools = ToolsOn(d)
    /\ d["manifest"] = d["readme"].run
    /\ shelf[n].iso.total = Discs

SameButRot(d, e) ==
  \A f \in DOMAIN d \cap DOMAIN e : d[f] = e[f] \/ d[f] = Rot \/ e[f] = Rot

Shared(d) == [f \in DOMAIN d \cap ({"index", "manifest", "key"} \cup Tool) |-> d[f]]

(***************************************************************************)
(* Two discs that verify and whose READMEs are of one run carry one index, *)
(* one manifest and the same tools, whatever earlier runs left in the disc *)
(* directories (run.go:1464: one set carrying two programs under one name).*)
(***************************************************************************)
DiscsOfOneRunAgree ==
  \A m, n \in Disc :
    Verified(m) /\ Verified(n) /\ Burned(m)["readme"].run = Burned(n)["readme"].run =>
      /\ DOMAIN Shared(Burned(m)) = DOMAIN Shared(Burned(n))
      /\ SameButRot(Shared(Burned(m)), Shared(Burned(n)))

(***************************************************************************)
(* An ISO is complete only when the directory it was begun from is still   *)
(* the one there: the lock keeps a layout from changing a directory while  *)
(* it is mastered, by burn, by iso and by the backup itself (lock.go:70).  *)
(***************************************************************************)
MastersAtRest ==
  [][\A n \in Disc : iso'[n] # iso[n] /\ iso'[n] # None /\ Whole(iso'[n]) =>
       /\ dir[n] # None /\ DOMAIN dir[n] = DOMAIN iso'[n].files
       /\ SameButRot(dir[n], iso'[n].files)]_vars

(***************************************************************************)
(* SHA512SUMS vouches for an image or an index only as it was encrypted,   *)
(* unless nobody can say what it was: another run encrypted it and its     *)
(* record is unreadable (run.go:1525, knownSums).                          *)
(***************************************************************************)
AttestsOnlyTheRecorded ==
  [][\A n \in Disc : Has(n, "sums")' /\ ~Has(n, "sums") =>
       LET s == dir'[n]["sums"] IN
       /\ s["image"] # 0 => n \notin measured /\ record[n] = Rot
       /\ s["index"] # indexSum => ~tookIndex /\ indexSum = None]_vars

\* Staging has a copy of disc n's image: in enc/, laid out, or in an ISO
\* where there is no disc directory.
Held(n) ==
  \/ cipher[n] # None
  \/ Has(n, "image")
  \/ dir[n] = None /\ iso[n] # None /\ Whole(iso[n]) /\ "image" \in DOMAIN iso[n].files

(***************************************************************************)
(* No step of a backup, a burn or an iso takes the last copy of an image   *)
(* out of staging: a directory is cleared only when enc/ has the image,    *)
(* an ISO dropped or replaced only when there is a directory               *)
(* (run.go:857, iso.go:94, burn.go:190).                                   *)
(***************************************************************************)
LastCopyKept == [][cipher' = cipher => \A n \in Disc : Held(n) => Held(n)']_vars

\* Nothing is lost or too large, and what made an index that rots is there.
Sound ==
  /\ \A n \in Disc : cipher[n] # None
  /\ index = Rot => plainIndex
  /\ refused.why \notin {"missing", "oversized"}

(***************************************************************************)
(* Interrupted or refused, with rot in enc/, in a copy or in a sidecar, a  *)
(* set whose operator resumes and does what a refusal says is finished, as *)
(* long as nothing is lost for good (run.go:1604: the advice never ends in *)
(* "start the set over" where the bytes can be proved sound).              *)
(***************************************************************************)
LayoutFinishes == []Sound => <>~hasState

(***************************************************************************)
(* restore/ingest.go:753: "The writer copies ONE index file onto every     *)
(* disc of a set, so two discs of one set carry it byte for byte".         *)
(***************************************************************************)
OneIndexOnTheShelf ==
  \A m, n \in Disc :
    (Verified(m) /\ shelf[m].finished) /\ (Verified(n) /\ shelf[n].finished) =>
      Burned(m)["index"] = Burned(n)["index"] \/ Rot \in {Burned(m)["index"], Burned(n)["index"]}
=============================================================================
