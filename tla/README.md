# A verification project for brb

brb writes a directory tree as a set of encrypted, self-protecting discs, and
reads it back.  This directory holds TLA+ models of it, the TLC runs that check
them on small instances, and proofs that TLAPS checks for all instances.  Paths
of the form `internal/...` are below `src/go/` of the repository.

## The system

One program, `brb`, with sub-commands that share one staging directory, and a
stand-alone shell script, `src/brb.sh`, that reads the discs without it.

| component | state it keeps | operations | hard about it |
|---|---|---|---|
| writer (`internal/backup/run.go`, `state.go`, `preflight.go`, `index.go`) | `state.json`, `work/index.tsv`, `img/`, `enc/`, `enc/identity.txt`; in memory the state, the files left, the disc in hand | start fresh, resume, filter the scan, build, protect and record one disc after another, seal the index, lay discs out, finish | dies at any step and is resumed, days later, by a run with other settings over another source tree |
| layout (`run.go` from `buildIndex`, `payload.go`, `fsutil.go`) | `discs/discNN/`, the encrypted index, `MANIFEST.txt`, sidecar parity, READMEs, `SHA512SUMS` | encrypt the index, clear a disc directory, link or copy what the disc holds, document and sum it, check sizes | interrupted half way and done again by a run with other settings; re-uses digests taken earlier; `burn` reads what it writes |
| packer (`internal/pack`) | units, assigned bits, the bin last offered | `Next`, `Commit`, `Oversized` | hard-link groups, re-planning the same disc, a stale bin |
| ratio estimator (`backup/ratio.go`, `backup.go`) | current ratio, window of measurements, both saved in the state | observe, adapt, shrink, resume | rounding and clamping decide whether an image fits |
| staging lock and primitives (`internal/fsx`) | `.brb.lock` | lock, replace a file atomically, secure a directory | sub-commands run beside one another |
| encryption and hashing (`internal/agecrypt`) | `.part` files, two hashing goroutines, checksum files | Encrypt, Decrypt, Write/Sum/release, write and verify checksum files | goroutines, a pool of recycled buffers, a hasher that dies |
| source scan (`internal/scan`) | none | walk a tree | the tree changes under it |
| ISO and burn (`internal/iso`, `restore/burn.go`, `restore/mount.go`) | `iso/discNN.iso` | build all, build, ensure, burn, drop, verify a disc | an old image taken for a current one; a directory no backup finished; the last copy of an image dropped |
| ingest (`restore/ingest.go`) | staged files of the set, salvage maps | copy from disc, reconcile with what is staged, keep both | damaged and repeated discs, discs of other sets, interruption |
| restore, verify, repair (`restore/restore.go`, `extract.go`, `locate.go`, `complete.go`) | decrypted images, target directory | verify, repair, decrypt, extract | must not extract what has not been verified; discs missing |
| index lines (`internal/indexfmt`) | none | quote and parse a row | names with any byte in them |
| configuration and geometry (`internal/config`, `internal/disc`) | none | parse, default, validate, compute budgets | integer arithmetic of capacities |
| tool driver, command line, terminal, rendered documents (`internal/tools`, `cli`, `ui`, `doc`) | none that is kept | run mksquashfs, par2, xorriso; parse flags; print | subprocess plumbing, outside these models |
| shell reader (`brb.sh`) | none | verify, repair, restore | the rules of restore, a second time |

How they interact: the writer drives the packer, the estimator, the hashers and
the tools by plain calls, one disc at a time; the hashers run on goroutines of
their own and talk to the writer over channels; sub-commands interact only
through staging, which the lock gives to one of them at a time; and runs of the
writer interact with later runs through what they leave in staging.  That last
interaction is where a set of discs is won or lost, so it is modelled first.
`burn` and `iso` read no state: all they know of a set is the directories and ISOs
they find, and of a disc only `SHA512SUMS` says whether its layout was finished.

What makes the components correct:

* writer: a disc that counts is whole and stays as it is; no file is lost or
  written twice; one key and one medium per set; paths have one kind; the index
  names exactly what is on the discs; an interruption costs no finished disc;
* packer and estimator: every unit on exactly one disc, link groups together,
  each re-plan smaller than the last, an estimate that stays in its bounds;
* hashing: a digest covers all bytes or is refused; nothing blocks for ever;
* layout and burn: `SHA512SUMS` vouches for nothing but what was encrypted; a disc
  that `verify-disc` passes is whole, and agrees with the others of its run; an ISO is
  of a directory at rest; the last copy of an image stays; an interrupted or
  refused set can be finished;
* ingest: good data is never replaced by worse, sets never mix, a repeated
  ingest is harmless and an interrupted one can be continued;
* restore: nothing is extracted that no check has vouched for, nor through a link; a
  disc that can be recovered is recovered; "complete" is said of complete restores.

## Modules

| module | models | used by |
|---|---|---|
| `Backup` | the writer and everything between its runs | run through `MCBackup` |
| `ArchiveSet` | what a set of discs promises, without runs or staging | `Backup` implements it |
| `MCBackup` | instances of `Backup`: paths, trees, settings | runs `backup`, `backup_resumes`, `first_disc` |
| `BackupProofs` | theorems about `Backup`: its discs | |
| `BackupSetProofs` | theorems about `Backup`: the set as a whole, and that it implements `ArchiveSet` | |
| `AsyncHash` | the hashing goroutine and the goroutine that writes to it | run `async_hash` |
| `AsyncHashProofs` | theorems about `AsyncHash` | |
| `Planner` | packer, ratio estimator, shrink loop, dry run, with sizes | run through `MCPlanner` |
| `MCPlanner` | instances of `Planner`: trees of a few files | runs `planner`, `planner_advice` |
| `PlannerProofs` | theorems about `Planner`: which files are planned, and with which ratios | |
| `PlannerSizeProofs` | theorems about `Planner`: sizes, estimates, and that each step is progress | |
| `Ingest` | staging, the discs put in the drive, one pass file by file, runs and interruptions | run through `MCIngest` |
| `MCIngest` | instances of `Ingest`: perfect, damaged and foreign pressings | runs `ingest`, `ingest_stale_map` |
| `IngestProofs` | theorems about `Ingest` | |
| `Restore` | `brb restore` and `brb list`, from staging to a destination | run through `MCRestore` |
| `MCRestore` | instances of `Restore`: two discs, at most two things wrong | runs `restore`, `restore_two_paths` |
| `RestoreProofs` | theorems about `Restore` | |
| `Layout` | the writer from the index on: disc directories, documents, checksums, resumes, rot | extended by `Burn` |
| `Burn` | ISOs, `burn`, `iso` and `verify-disc`, composed with `Layout` under the staging lock | run through `MCBurn` |
| `MCBurn` | instances of `Burn`: two discs, settings, media, leftovers | runs `burn`, `burn_stale_iso` |
| `BurnProofs` | theorems about `Layout` and `Burn` | |

### Backup

The variables `saved`, `idx`, `img`, `enc`, `sealed` and `identity` are the
files a run leaves in staging; `st`, `key`, `todo`, `skel`, `bin`, `attempt` and
`indexBuilt` are the runner's fields and locals; `pc` is where it is.  One
action is one effect on staging, in the order the code has them, because a run
may die between any two effects: `BeginImage` and `FinishImage` are the two
sides of mksquashfs, `AppendRows` and `FinishRows` of the index write,
`BeginParity` and `FinishParity` of par2.  A file replaced by rename has one
step, as there is no state between the old file and the new.

`prepareState` is four actions: `ResumeSet`, `StartFresh`/`NewState` and
`PrepareRefuses`, the last of which may have rewritten the index like the code.
`resumeFilter` is `Filter` with the operators `WrittenKinds`, `ChangedKinds`,
`Pending` and `RecordSkeleton` it calls.  `oneDisc` is the steps from `NextBin` to
`CommitDisc`.  `finish` is `FinishIndex` and `FinishState`.  `Stop` ends a run at any
point; `ToolFails` is the one failure after which the program still cleans up;
`RunRefuses` is every later error return.

Abstractions.  The bytes of a file are not modelled: an image is the kind every
path has in it, and the run that made it (`gen`); a checksum or recovery set
matches when it carries the same `gen`.  A run writes a given file for a given
disc once, except `Shrink`, before which nothing has been encrypted, so `gen`
tells any two contents apart that the code could confuse.  Any nonempty set of
files left may make a bin and `room` is a number of files: every choice the
packer could make with files of one size is among them.  The source tree changes between runs, not
during one.  What a stopped run wrote stays written (no power cut that loses
unsynced data), and the two removals of `finish` succeed.  ISO images and disc
directories, laid out after the last disc, are one step that checks what
`discPayload` checks.

### ArchiveSet

A sequence of discs that grows at its end and is then completed with a catalog.
`Backup!ImplementsArchiveSet` maps `discs` to the finished discs of staging and
`catalog` to the sealed index of a complete set: the save of the state is the
step that adds a disc, the end of `finish` completes, everything else, stopped
and refused runs included, is a stutter.

### AsyncHash

`free` and `work` are the two channels, `closed` and `dead` say which channels
are closed, `worker` and `caller` are where the two goroutines are.  A buffer
holds a span of the stream; `digest` is how many first bytes have been hashed in
order, or `Garbled`.  `select` is a choice between enabled actions: `Acquire`
stays possible after the hasher is dead, as in Go.  `HashPanics` is the panic
`run` recovers from.  The caller is any that obeys the type's documentation:
Writes of any sizes, then `Sum` or `release`; after a failed `Write` it may still
ask for the sum.

### Planner

`Backup` lets any choice of files fit or not fit; `Planner` is where sizes decide.
A run of `brb plan` or of `brb backup` starts with `Begin` (`newRunner`, the ratio
and measurements a resume carries over, the units of what is not on discs), and
goes round `buildDiscs`: `PlanDisc` or `RefuseOversized`, the sweep of `Packer.Next`
over the units in sorted order (`Take`, `Skip`, one unit at a time), `Offer`, and
then `AcceptDisc`, `Shrink` or `GiveUp` according to the size of the image.  `CountDisc` is
the dry run's `layout`.  `attempt`, `budget`, `bin`, `ratio` and `measured` are the code's
locals and fields, `units`, `assigned` and `pending` the packer's.

Ratios are whole thousandths, which `round3` makes them in the code.  Floats are
not modelled bit by bit: where exact arithmetic is at an edge (a tie, or an even
division by a fraction floats cannot hold), both neighbours are allowed, so the
properties do not rest on how a platform rounds.  What mksquashfs makes of a
set of files is the constant `ImageSize`, any function of the tree and the files.

Protecting and recording a disc is part of `AcceptDisc`: what happens between those
effects is `Backup`.  The tree does not change here, so that the two models divide
the work: `Backup` has changing trees and interrupted effects, `Planner` has numbers.
A `Stop` may end a run at any point and loses what the ratio learned since the last
disc.  `carry` drops values no run writes, so it is the identity on the states
here.

A disc whose image measures nothing, to the thousandth, is not observed: `observe` returns
before it touches the window or the ratio, and the ratio stays what the shrink loop made of it.
`OnlyNewsOvershoots` and `PlansAsIfUninterrupted` therefore speak of discs planned when the
last disc was observed (`LastIsObserved`), and the second counts its window over observed discs.
Of the files the model assumes that they are finitely many (`FilesAssumption`) and that `stat`
tells the same link count and size of each name of one inode (`NamesAssumption`), which the
packer relies on when it takes a unit's size from its first name.

### Ingest

`staged`, `unread`, `copies`, `key` and `manifest` are `enc/<name>`, `enc/<name>.mapfile`,
`enc/<name>.copy<time>`, `enc/identity.txt` and `MANIFEST.txt`; `medium` is the disc in
the drive and `at` the file the copy loop is at; `bad` and `vouched` belong to the
run (its counts, and which hashes its discs recorded).  A pass is `JudgeIndex`
(`refuseForeignIndex`), `TakeKey` (`ingestPublicIdentity`), one action per branch of
`ingestFile`, `reconcileExisting`, `reconcileIndex`, `replaceOrKeepBoth` and `resumeSalvage` for
each file, and `TakeManifest`.  Copying is its own few steps (`CopyStream`, `BeginRescue`,
`RescueAll`, `RescueSome`, then what is made of the copy), because a signal or a crash
between them (`Stop`, `StopResume`) leaves a file without its check, a map without its
file or a replacement beside the file it was to replace.

Abstractions.  A file is two blocks, a block holds the bytes of its set's writer,
zeros or other bytes, and the hash of a file is the file.  A disc is a set of
outcomes for each block, so that a sector may read now and not then, or read wrong
without an error; it records hashes or does not.  Three kinds of file stand for all:
images, the index, and what is neither (checksum and recovery files).  The names of
alternates are their order.  Discs of one set share nothing but the index, the key and
the manifest, so one disc number is enough.  Not modelled: a damaged disc that records
hashes for some of its files only, the question about a disc read twice in a row, and a
staged file that rots.

### Restore

`cipher`, `copies`, `csum`, `sum` and `parity` are what ingest left in `enc/` for each disc: the
ciphertext, its alternates, the recorded hashes of the ciphertext and of the image, and
the recovery files; `index` and `manifest` are the set's.  `plain` and `part` are the
decrypted images and `.part` files in `restore/`, `dest` and `dirAt` the destination.  `pc` is
where the command is, `at` its disc, `found` the code's map of that name; `had` and `wrote`
are what really was and became of the requested paths, which the code does not know, and
`before` is the discs with a decrypted image in staging when the command began.

A command is `Begin` (`reapPartFiles`, `confirmNonEmptyDest`, `refuseSymlinkedDirs`), `Select`
(`selectImages`, `checkComplete`, `narrowByIndex`), and for each disc in order the steps of
`PrepareImage` — `Reuse`, `Decrypt` (`decryptVerifying`, or `checkCiphertextNoSum` before it), `Repair`
(`par2Repair`), `Redecrypt`, `Verify` — then `Audit` (`pathsPresent`, `auditImage`) and `Extract` or
`ExtractSome` (unsquashfs left files out and exited 2, which `extractImage` only warns of).
`NextImage` ends the loop with what the summary says.  `Stop` ends a command between or
during any of these and leaves what the step had done: files half extracted, a `.part`, a
ciphertext half rewritten by par2, a plaintext decrypted and not yet checked.  The next
command finds it.

Abstractions.  A squashfs image is a record of its files, of what it has at each
directory's path and of whether a key on hand opens it.  A ciphertext is the image it was
made from and its rotted blocks, an intact file's hash is the image, and age decrypts
what has not rotted.  par2 restores the file its parity is of, if it finds enough blocks
in the staged file and the alternates.  A name with a newline shows in a listing as
another name; that is all that is modelled of listings and of index lines.  The operator
may answer no to each question.  Directories an image touches exist afterwards; a link it
holds may be one to a directory or not.  What is staged does not rot during the runs.
Not modelled: `brb verify` of a mounted disc, `brb index`, finding and unlocking
identities (which of them are on hand is in `opens`), the locks and staging checks.

### Layout

`cipher`, `record`, `index` and `indexRecord` are the files of `enc/` this part of a run
reads: the images, the encrypted index and their `.sha512` sidecars; `plainIndex` and
`hasState` are `work/index.tsv` and `state.json`; `manifest` is the one in the root of
staging and `dir[n]` is `discs/discNN`.  `setting`, `measured`, `tookIndex`, `indexSum` and
`failed` are the run's configuration and what it keeps in memory (`discCipher`,
`indexCipher`, the index's `KnownSum`, `sidecarFailures`); they go with it, and `record` and `indexRecord` are what a later
run has instead.  `pc` and `at` are the step and the disc.

`EncryptIndex`, `RecordIndex` and `KeepIndex` are `buildIndex`; `ClearDisc`, `PlaceImage`,
`PlaceIndex`, `ProtectSidecars` and `PublishKey` are what `buildDiscDirs` does for each disc;
`WriteManifest` to `WriteReadme` are `writeManifest`, `writePayload` and `writeReadmes`, a disc a
step; `KnowIndex`, `WriteSums` and `RefuseChanged` are `writeSums` with `knownSum` and
`WriteSumsKnown`; then `CheckDiscSizes`, and `FinishIndex` and `FinishState`, the two removals
of `finish`.  Every error return is a `Refuse...`, `Stop` is an interruption anywhere
(in `ClearDisc` it may leave some of the files), `Resume` is `brb backup --resume` of a set
whose images are all encrypted, and `FollowAdvice` is the operator doing what
`changedSinceEncryption` says.  `Fault` is what happens to staging on its own: an image, a copy
of one, the index or a sidecar rots or changes, or an image disappears.

Abstractions.  A file is the number of the run that made it, 0 for what was made before
this part begins, or `Rot`; its hash is the same, so a listing of a directory is a function
like the directory.  That tells apart what the code could confuse: two encryptions of the
index never have the same bytes.  The README is a record of what it claims.
The files of a kind (the recovery files of a disc, the tools of a payload) are one or two.
Every file counts one against the media.  Where staging can hard-link, a laid-out file and
its original rot together.

### Burn

`iso[n]` is `iso/discNN.iso`, with the files of the directory it was begun from, how much of
it is written, and the count on its label; `shelf` is what has been burned and verified.
`BeginISO`, `EndISO` and `LoseISO` are `BuildOne`, used by an eager run (`BuildNext`, `Built`,
`BuildFails`) and by the commands (`BuildOne`, `Mastered`, `MasteringFails`).  `StartBurn`
takes the lock and then looks, `LookISO` and `StartISO` look first and take it then, as the
code does.  `Ensure` is `iso.Ensure` with `complete`; `BurnDisc` and `Decline` are `burnOne` with the
removal of the ISO afterwards; `Done` is every other end of a command.  `CarryAway` is the
use `brb iso all` has: the ISOs move on without the directories.

Abstractions.  xorriso's ISO is as large as its files and one more.  A killed one leaves
nothing of it, or all but the last of it, which is not shorter than the directory.  A disc that
does not verify is thrown away, so `shelf` has only discs that do; a later disc of a number
replaces an earlier one.  Free space, a missing tool and a failing drive are `Done`.

## Runs

| run | instance | shows |
|---|---|---|
| `backup` | 4 paths (a directory, a file in it, two beside it), 6 trees that remove a directory, turn it into a file or a link, turn a file into a link or a directory and add files; 4 settings that differ in one point each; discs of 1 or 2 files; 2 stops, 2 tree changes, 1 shrink | the safety properties, `FinishedDiscsUntouched` and the refinement |
| `backup_resumes` | 3 files, discs of 2, three settings (right, other name, no room), 2 stops | `ResumedSetCompletes` under `FairSpec` |
| `first_disc` | 3 files, discs of 1, 1 stop | a violation: see Finding |
| `planner` | 5 names of 4 files on two filesystems with one inode number; 64 trees (four sets of sizes, each file compressible or not); image budget 22 bytes, margin 1.05, window 2, 2 shrinks; ratio 1 or 0.45, adaptation on or off; 2 runs | the properties of packer, estimator and shrink loop |
| `planner_advice` | the same trees, 1 shrink, ratios 1 and 1.2 | a violation: see Findings |
| `ingest` | one perfect disc of each of two sets, five damaged pressings of one (unreadable sectors, sectors that read sometimes, wrong bytes, an index that is always wrong, no hashes) and one of the other whose index reads only sometimes; 2 insertions of a damaged disc, any number of perfect ones, 1 interruption; each run with or without ddrescue | the safety of staging, and `PerfectDiscsComplete` under `FairSpec` |
| `ingest_stale_map` | one set, 3 insertions of a damaged disc, 1 interruption | a violation: see Findings |
| `restore` | two discs with files `a` on one, `b` and a newline-named `n` on the other, a directory in a directory; three images of other sets (alike, with a link where this set has a directory, with another key); every combination of at most two of 41 faults (16 of either disc, 9 others); 10 commands, repeated and mixed, 1 interruption or lossy extraction | the safety of restoring |
| `restore_two_paths` | the same | a violation: see Findings |
| `burn` | 2 discs, a published key; a full payload and an eager run, or none, reading back and the program found at run time; staging that links with media of 8 or 2 files, staging that copies with media of 9; two sets of files a killed removal leaves; 1 interruption, 1 fault, 1 `burn` or `iso` command | the safety of layout and burning, and `LayoutFinishes` under `FairSpec` |
| `burn_stale_iso` | the same runs on one site, no fault | a violation: see Findings |
| `async_hash` | 3 buffers of 2 bytes, streams of up to 9 bytes, every way to cut them | safety and liveness of the hasher |

Bounds.  Two stops let a run be stopped, its resume be stopped, and a third run
finish: every pair of crash points in a set of up to three discs (`MaxDiscs` is
one more than the files can fill, so it never binds).  Two tree changes let a
path change its kind by way of being gone, which is the case `recordSkeleton`
exists for.  One shrink reaches both ends of the shrink loop.  Three buffers and
nine bytes let the pool run dry, every buffer be recycled and a last partial
buffer follow; a hasher may die before, during and after each.

An image budget of 22 bytes is small enough for rounding to matter at every
division and large enough for discs of one to four files.  The sizes have a file that
only just fits (22), files that fit together only when they compress, and an
empty one; ratio 0.45 plans for compression that may not come, so first attempts
overshoot, shrink once or twice, find nothing that fits (`EmptyBin`) or give up.
Two runs are a dry run or an interrupted run followed by a backup; a window of 2 with up
to four discs lets measurements leave it.

Two damaged insertions and one interruption are what it takes for a salvage to be
interrupted, begun again and gone on with from another disc; two blocks are what it
takes for two pressings to be good in different places.  With three insertions and two
interruptions (1.1 million states) the same properties hold.

For `Restore`, two faults are what the layered checks are about: one layer rotted together
with one other (a sidecar and the ciphertext, a leftover and its sidecar, the index and an
image of another set).  The initial states are all of them, 832; two blocks and a capacity
of one make ciphertexts that par2 restores, ones it restores only with an alternate, and
ones it cannot.  One interruption is enough for a command to find what another left.

For `Burn`, two discs are what it takes for one to be laid out and the other not, and for
two to disagree.  One interruption lets every step of a run be the last, and the resume go
through all of them over what it left; the two settings differ in all four points, so
that a resume finds files it would not write itself.  Media of 2 files are too small for
the data, of 8 for a disc with the full payload; a disc of all 9 files fits its medium, and
its ISO the run's own limit, but not the 9 a `burn` is configured for.  `Leftovers`
has a remainder with `SHA512SUMS` and a README and one with everything but the image.  Faults
strike before, at the beginning of and at the end of a layout (`FaultPhases`): in between nothing
reads what can rot.  One command meets every state a run can leave and, without the lock,
would meet every step.

Fairness.  `Backup!FairSpec`: a run's steps happen (`WF` on `Run`: the tools it
calls end), and an operator keeps resuming, with every setting tried again and
again (`SF` on each resuming `Start`, strong because a run in progress disables
it).  `Stop` has no fairness and a bound, so interruptions end.  The run shows
that no sequence of stops and wrong resumes makes a set with a finished disc
impossible to complete.  `AsyncHash!FairSpec`: the Go scheduler runs both
goroutines; nobody is obliged to call anything.
`Planner!FairSpec`: a run's steps happen (`WF` on `Run`); `Stop` is not part of it and
nobody has to start a run.
`Ingest!FairSpec`: a pass ends (`WF` on `Step`), and the operator keeps putting in each
perfect disc (`SF`, because a pass in progress disables it).  `PerfectDiscsComplete` is
about behaviours in which no other set's index or key is in staging and, from some
point on, an unfinished salvage finds ddrescue installed.
`Burn!FairSpec`: the steps of a run and of a command happen (the tools they call end), and an
operator resumes and does what a refusal says; interruptions, faults and commands are
bounded.  `LayoutFinishes` is about behaviours in which the images stay in `enc/`, a rotted index
still has its plaintext, and nothing is too large (`Sound`).

`CHECK_DEADLOCK` is switched off in the two runs of `Burn`: a set that is finished and has had
its commands really stops, and so does one that was refused for good.  Elsewhere it is on:
`Backup` can always start a run, and `AsyncHash` and `Planner` mark their final states with
`Over`; in `Ingest` a perfect disc can always be put in, and in `Restore` a command given.

## Findings

`first_disc`: a run that is stopped after the first disc's ciphertext has its
name in `enc/` and before the state is saved for the first time leaves staging
in a state no run accepts: `--resume` finds no state and a plain `backup` finds
ciphertext.  The comment over `oneDisc` and the README say that the next run
rebuilds an interrupted disc.  Nothing is lost (no disc counts yet), but staging
has to be cleared by hand.  From the second disc on the claim holds, which
`backup_resumes` shows.

`planner_advice`: a disc that is still too large after the last shrink attempt ends
the run with the advice to "set `PACK_RATIO` to at least" a ratio "and re-run".
From the second disc on that cannot be followed: a plain re-run is refused, and
`--resume` restores the saved ratio over the configured one (`resumeRatio`).

`ingest_stale_map`: `reconcileExisting` promises that a staged copy is never overwritten
unless its replacement is proven better.  The map file of an interrupted salvage
survives a later fresh copy whose hash does not match, because `ingestFile` returns before
it removes the map; the next pass then lets ddrescue write into the staged copy, in
place, at areas that were read well.  `NothingLost` is the same promise for files whose
map is about them (`MapDescribes`), and holds.

`restore_two_paths`: the README lists the three cases in which a path can be reported
restored although only an old copy of it is at the destination; with `--disc`, only when
the index does not list the path at all.  `narrowByIndex` refuses only when every path the
index knows is elsewhere, so of two `--only` paths one that is on the named disc lets the
other be searched there against the index.  The README's rule fails without `--disc` too, which the
proof of `FoundMeansWritten` brought up: a path whose only disc is not staged is looked for on the
discs another path narrows the search to.  `FoundMeansWritten` is the same promise with
these cases, and a warning from unsquashfs, among the exceptions (`Unproved`), and holds.

`burn_stale_iso`: an eager run that is stopped after the first disc's ISO, and a resume with
`ISO_MODE=ondemand`.  The resume encrypts the index again, lays the discs out again and finishes
the set, and leaves `iso/` alone.  `burn` takes the ISO that is there for complete, because
`complete` compares sizes, and builds the other from its directory.  Both discs verify, both are
burned from a finished set, and they carry two encryptions of the index, although
`ingest.go` and `run.go` both say that a set has one.  `ingest`, which compares hashes, takes
the second disc for another set's and refuses it.

No finding, but a limit: the comment over the staging lock (`fsx/lock.go`) calls `burn` beside
a running backup the one arrangement in which a directory is burned that backup has not finished
writing.  A `burn` after an interrupted layout does so too, and it asks nobody.  What it burns
then does not pass `verify-disc` unless it is whole, because `SHA512SUMS` is written last into a
directory that was cleared first: `VerifiedMeansWhole`.

No finding, but a limit of `restore`: the README's Limitations (1235-1237) say that a restore
needs room for the extracted tree "plus one decrypted image", because each is removed and "only one
exists at a time".  Its Security notes (1046-1051) say what is left out there: a failed run
drops its image, and `list`, `mount` and `KEEP_IMAGES` leave theirs.  Nothing clears these
when a restore begins.  Each stays beside the image in hand until the loop comes to its disc,
and outlives a restore that does not select its disc: stop a restore at disc 1 after the
decryption, restore `--disc 2`, and there are two.  `RoomForOneMore` therefore says one image *more
than the restore found*, which is one at a time only from an empty directory.

No finding, but a limit of `ingest`: a disc of another set whose index cannot be read is let
through on purpose, and an image on it can take the place of a staged one that fails the
hash that disc recorded.  `NothingLost` and `OnlyThePinnedSet` are about discs that show by
their index which set they are of (`Recognised`).

No finding, but a limit of `ingest`: an index that is damaged when it is staged is reported by
the run that staged it and by no later one.  A second run with the same disc finds the two
copies alike, which settles it for `judgeIndex` before the recorded hash is asked, and reports
success, although the comment over `reconcileIndex` says that a disc neither of whose copies
matches what it records is reported as damaged.  `SuccessIsAccountedFor` therefore asks of the
index only that it is a reading of the right set's (`IndexOf`), and of every other file that
it is what was recorded.

No finding, but a consequence of pinning the index: if the first disc's index is
damaged when it is staged, every good disc of the set is refused from then on, and no
salvage of the index is gone on with.  `PerfectDiscsComplete` therefore asks that no other
index be in staging (`OnlyOf`).

No finding, but a limit that `RePlansAreSmaller` shows: a re-plan is sure to be
smaller than what overshot only for measured ratios of 0.010 and more, where the
five percent survive rounding to thousandths.  A configured `PACK_RATIO` of 0.011 or
more keeps every measurement of an overshoot there; the configuration's validation
accepts smaller ones.  `MAX_SHRINK_ATTEMPTS` ends the loop in any case.

## Proofs

For every source tree, any settings, any number of discs, stops and changes,
under the assumptions on the constants in `Backup`:

* `TypeCorrect`: `Spec => []TypeOK`.  `TypeInv` adds that a disc in hand has a
  number within the bound (`RoomForDisc`).
* `FinishedDiscsAreSound`, `FilesAreOnOneDisc`, `FinishedDiscsAreUntouched`: the
  invariants `FinishedDiscsSound` and `EveryFileOnOneDisc` and the action property
  `FinishedDiscsUntouched`.  None is inductive: whether `CommitDisc` adds a sound
  disc depends on what the run has done since `NextBin`, and whether a step may
  touch a finished disc on the run's number for the disc in hand.  `SafetyInv`
  adds four parts: `MemoryAgrees` (the run's count and list are the saved ones),
  `CompleteIsFinal` (with a complete set no run passes `prepareState`, because
  its discs are ciphertext in staging), `DiscInHand` (what each step has
  established, as a set of steps from which it holds), and `NothingTwice` (what is
  left to write is on no disc; needs `PendingIsNew`, the lemma that a tree whose
  kinds did not change has no assigned file pending).  Steps that write no disc,
  steps that write the disc in hand, the save and the end are proved apart.
* `DiscsAgreeOnKinds`, `DiscsShareKeyAndMedium`, `CompleteSetsAreIndexed`,
  `FinishedDiscsAreResumable`: the invariants `FinishedDiscsAgreeOnKinds`, `OneKeyOneMedium`,
  `CompleteSetIsIndexed` and `FinishedDiscsCanBeResumed`.  `SetInv` adds to `SafetyInv` what holds of
  the set as a whole, each in three layers: in staging, in the memory of the run, and for the
  disc in hand.  Kinds (`KindsInv`): the saved skeleton has every directory and link of the discs
  that count, and no file on one stands in the way of another (`KindsRecorded`); what is left to
  write is of the kind the scan found and can stand beside them (`TreeInHand`, which is what
  `resumeFilter` establishes), and the image in hand is what was packed (`BinInHand`).  Keys
  (`KeysInv`): the discs that count are encrypted to the state's key (`KeysRecorded`), the run's
  settings are the state's and its key theirs (`SettingsInHand`).  Index (`IndexInv`): while
  there is a plaintext index it has every file of the discs that count once (`SavedIsIndexed`),
  between the first appended row and the save also rows of the disc in hand (`IndexInHand`), which
  a resume cuts off; when there is none, the sealed one is that of the set (`SealInHand`).
* `WriterImplementsArchiveSet`: the refinement `ImplementsArchiveSet`, with the mapping that
  `Backup` names (`Discs`, `Listing`).  `CommitDisc` is `AddDisc`, `FinishState` is `Complete`, and
  every other step of every run leaves saved state and finished discs alone and is a stutter.
* `DigestsCoverEverything`, `BuffersAlwaysHaveOneOwner`, `TypeCorrect`: the safety of the hasher
  for any pool size, buffer size and stream.  `HashInv` says that the spans in
  the queue, between the hashed bytes and those still to queue, follow one
  another, and that no buffer is in two places; `failed => err` is what makes the
  check of the error and the counts in `Sum` enough.

* `EveryFileIsPlanned`: `EverythingPlanned` for any files, links, image function,
  budget and settings.  `PlanInv` says that units partition the files
  (`Partition`), that what `Next` has seen and not taken is too large for the budget
  as long as it has taken nothing (`SweepSound`), that the bin in hand is the pending
  one and within its budget (`BinSound`), and that the free units are exactly the
  files on no disc (`LeftIsOnNoDisc`).  The crux is the end: `Next` offers nothing,
  and with no shrink before it `Oversized` had been empty for the same budget, so
  nothing is free.
* `RePlansAreSmaller`: `RePlanIsSmaller` for any sizes, with every `PACK_RATIO` at least
  0.011.  It is arithmetic over every rounding: an image over the budget built from
  at most the raw budget measures more than the ratio it was planned with, up to
  rounding (`OvershootMeasures`), and 1.05 times that, rounded, divides the budget to
  less than what was packed (`ShrinkingShrinks`).  `RatiosStaySafe` carries the lower
  bound through estimates, which are floored at 0.02, shrinks and resumes.

* `InodesAreWhole`: `InodesStayWhole`, for any files, links and sizes.  `SizeInv` says that a unit
  is a first name with all others of its inode and weighs what that inode does, and that a
  disc's raw size is the sum over its inodes (`Bytes`, each file once).  The sums are folds over sets,
  which the community modules define by a choice of order; that a sum does not
  depend on it, and splits over disjoint sets, is proved in `BytesIsIteration` to
  `BytesOfOneMore` by a smallest counterexample, since the induction theorems of the library
  cannot be instantiated here.
* `PlansAreUninterrupted` and `OvershootsAreNews`: `PlansAsIfUninterrupted` and `OnlyNewsOvershoots`.
  `EstimateInv` says what a run remembers, in the window of a running estimate and in the
  measurements saved for a resume, and that they are the same discs; and that with a last disc
  observed the ratio is the estimate from the worst of them, until the shrink loop changes it.
  The second adds the arithmetic of the roundings: a bin within the raw budget of an
  estimate makes an image within the budget unless it compresses worse than the estimate
  allows.  Its one hypothesis is an image budget of at least the margin in bytes, ten
  at most, because `RawBudget` never goes below one byte; `Compute` accepts smaller
  budgets, though no squashfs image is that small.
* `EveryStepIsNearer`: every step of a run goes down in an order of three: units on no disc,
  then attempts left for the disc in hand, then what is still to be seen of the sweep and the
  steps after it.  It is the part of `RunsEnd` that needs no fairness.  The rest,
  that an unfinished run has a step, is `ENABLED` and stays with TLC.

* `OnlyThePinnedSetGetsIn`, `NothingIsLost`, `SuccessAccountsForFiles`: the action properties
  `OnlyThePinnedSet` and `NothingLost` and the invariant `SuccessIsAccountedFor`, with `TypeCorrect`,
  for any sets, discs, readings, insertions and interruptions.  Beyond types they assume of the
  constants that a disc holds, records and publishes only what its own writer made, or damage of
  it (`DiscsAreOfTheirSet`), and that damage does not make one index of two sets'
  (`IndexesStayApart`); hashes are collision-free already, being the files.  `IngestInv` says what
  is in hand: a copy under way is of a file not yet staged or goes beside one without a map, what
  has just landed was read from the disc in the drive (`CopyInHand`), and past `JudgeIndex` that
  disc is of the pinned set (`OursInDrive`).  `StagingSteps` sums up what any step may do to
  staging; the first two theorems are read off it.  The third needs the run's history
  (`RunInv`): no disc of another set than the staged index has passed the judgement in a run
  without a problem (`VerdictSound`, `PastTheIndex`), so all that recorded a hash are of one set
  (`VouchersKnown`), and each hash is accounted for but that of the copy under way
  (`RunAccounted`).  A disc of another set whose index cannot be read may undo that, between its
  first file and its index; then it is refused there, and the run counts a problem.

* `ExtractionVouched`, `LinksRespected`, `CauseGiven`, `RoomForOneMoreHolds`: the action
  properties `ExtractsOnlyTheVouchedFor`, `NothingThroughLinks` and `GivesUpForACause` and the
  invariant `RoomForOneMore`, with `TypeCorrect`, for any discs, images, directory trees,
  stagings, requests and stops.  `IInv` adds to the types what each place in `PrepareImage` may
  rely on (`Working`): a repair is under way only where hash and ciphertext disagree, what is
  decrypted again is what par2 restored if it could, what is being verified has just been
  authenticated, and what is audited or extracted is `Vouched` for and then `Audited`.
  `LinksRespected` needs one fact about trees, `WrittenInTouched`: the directories above an
  extracted file are among those `extractionTouches` names, which is why looking for links
  at these is enough.  It rests on two directories having paths in common only when one is
  inside the other, and on an image having as a directory what it has files in.
  `RoomForOneMore` rests on `RoomInv`: while a restore works, the images in staging are, but for
  the disc it is at, exactly those it found less those of the discs it has dealt with; only
  stopped commands leave `.part` files, and a listing never reaches the next image.
* `CompleteRestoresHaveAll` and `FoundIsWritten`: `CompleteMeansAll` and `FoundMeansWritten` for the
  same.  `SearchInv` follows a command: the discs were chosen by what is staged, which no step
  changes (`SearchesChosen`); a requested path that is at the destination was there before or is
  counted as written (`HadOrWrote`); what is believed found is one of these, and if not written
  then falsely shown (`FoundIsThere`); and each disc done with has its share at the destination
  (`DiscsGathered`), because the image extracted is the one the disc ends up as
  (`ImageInHand`) and `pathsPresent` overlooks nothing an image has (`NotOverlooked`: a directory is
  in the listing itself, so a name it shows wrongly inside does not matter).

* About `Layout` and `Burn`, for any discs, settings, payloads, media, leftovers,
  interruptions and faults: `TypeCorrect`, `MastersFromADirectoryAtRest`, `LastCopyIsKept`,
  `OnlyTheRecordedIsAttested`, `VerifiedDiscsAreWhole` and `DiscsOfOneRunAreAlike`, the properties
  `TypeOK`, `MastersAtRest`, `LastCopyKept`, `AttestsOnlyTheRecorded`, `VerifiedMeansWhole` and
  `DiscsOfOneRunAgree`.
  `TypeInv` adds to the types what is in hand: a directory being laid out, or past that,
  is there (`TreesInHand`), an ISO being mastered or offered is there, and the lock has one
  holder (`OneAtATime`).  `Mastering` says that the directory an ISO is of is still what
  it was, up to rot; it is kept because every step that writes a directory is a step of a
  run, and no run and command work at once.  `LastCopyIsKept` follows from what each step
  does to directories (`DirSteps`) and to ISOs (`ISOSteps`).  `Stages` says what each step of a run
  finds in the directories: the discs before the one in hand are laid out, manifested or
  documented, and none that is not yet summed has a `SHA512SUMS` (`SumsLast`).  So a listing is
  made once, of everything (`SumsAttest`), and nothing is added to a directory that has
  one (`Unsummed`); a removal cut short may take files away, which a check against the listing
  notices.  `Listed` carries this over the ISOs to the discs, together with the count a command
  puts on labels.  For `DiscsOfOneRunAreAlike` every listing in staging or on a disc is followed
  (`Listings`; only `WriteSums` makes one).  `OfThisRun` says that the tools and the key in a
  directory laid out are this run's, since it was cleared first; `OneIndexOfRun`, that one index
  is behind every copy and every listing of the run, up to rot; `ListingsOfRuns`, that a run has no
  listing before its first `WriteSums`, so one that begins shares its number with none.  The
  constants' assumptions `NoneIsNoTree` and `NoneIsNoISO` (the mark of what is missing is neither a
  directory nor an ISO) are there for these proofs.

Every invariant and every action property of the passing runs is the statement of a theorem, and
so is the refinement of `ArchiveSet`.  Only model-checked is what is beyond TLAPS here, liveness
under fairness, which needs `ENABLED`: `ResumedSetCompletes`, `CallsReturn`, `RunsEnd`,
`PerfectDiscsComplete`, `LayoutFinishes`.

## Plan

Done: `Backup` with `ArchiveSet`, `AsyncHash`, `Planner`, `Ingest`, `Restore`, `Layout` with
`Burn`.  What would add most, in this order:

1. `Restore` composed with `ArchiveSet`, so that what is restored is what was written.
2. Checksum files, index rows and the geometry of media, checked against reference
   definitions over small inputs.
3. A power cut that loses unsynced files, for the writer's `par2` step.

## Not modelled

The text of checksum files, index rows, configuration and documents; the arithmetic of disc
capacities and of the space check; the source scan, and a source tree that changes while
mksquashfs reads it; the command line, the tool driver and the stand-alone shell reader.  They are
sequential and keep no state, and are better served by the repository's unit tests, except
the changing source, which would need images read entry by entry.  A power cut that loses
what was written and not synced is left out throughout.

Not planned: argument parsing, terminal output, rendered documents, the
contents of squashfs, par2 and age files, file permissions and symlink
refusals of `fsx`.
